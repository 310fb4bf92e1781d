-------------------------- MODULE MakerSwapsProofs ---------------------------
(***************************************************************************)
(* Proofs about CompoundPCVRouter and MakerRouter at one Maker PSM, for    *)
(* any decimals, amounts, fees and accounts.                               *)
(*                                                                         *)
(* All rests on one fact: buying whole units of USDC for some DAI leaves   *)
(* less than the price of a unit (WholeUnits).  The two routers share no   *)
(* variable but those of Maker, of which their funds do not depend, so     *)
(* each has an invariant of its own.                                       *)
(***************************************************************************)
EXTENDS MakerSwaps, TLAPS

\* What division leaves over is less than the divisor.
LEMMA WholeUnits ==
    ASSUME NEW a \in Nat, NEW b \in Nat \ {0}
    PROVE  /\ a \div b \in Nat
           /\ a - (a \div b) * b \in 0..(b - 1)
BY SMT

\* With a fee of nothing, a unit of USDC costs the scaling factor.
LEMMA CostWithoutFee ==
    ASSUME NEW n \in Nat, tout = 0
    PROVE  BuyGemCost(n) = n * USDC_SCALING_FACTOR
BY MakerSwapsAssumption DEF BuyGemCost

\* The part of the invariant that proofs about the router need.  (MakerRouter
\* has its own variables and touches none of these but the reserve and fees.)
RouterTypeOK ==
    /\ supplied \in [Tokens -> Nat] /\ idle \in [Tokens -> Nat]
    /\ routerDai \in Nat
    /\ daiAllowance \in Nat
    /\ usdcAllowance = 0

RouterInv == RouterTypeOK /\ LeftoverIsDust

\* What the two swaps do to the funds of deposits and router.
LEMMA UsdcSwap ==
    ASSUME RouterTypeOK, NEW c \in Callers, NEW a \in SwapAmounts,
           swapUsdcForDai(c, a)
    PROVE  /\ a \in Nat /\ a <= supplied["USDC"]
           /\ supplied' = [t \in Tokens |->
                 IF t = "USDC" THEN supplied[t] - a
                 ELSE supplied[t] + a * USDC_SCALING_FACTOR + idle[t]]
           /\ idle' = [idle EXCEPT !["DAI"] = 0]
           /\ usdcAllowance' = 0 /\ UNCHANGED <<routerDai, daiAllowance>>
BY MakerSwapsAssumption DEF swapUsdcForDai, moved, CanWithdraw, RouterTypeOK, Tokens

\* What a swap of DAI supplies, and the dust it leaves in the router.
LEMMA DaiSwap ==
    ASSUME RouterTypeOK, NEW c \in Callers, NEW a \in SwapAmounts,
           swapDaiForUsdc(c, a)
    PROVE  \E n \in Nat, left \in 0..(USDC_SCALING_FACTOR - 1) :
              /\ a = n * USDC_SCALING_FACTOR + left /\ a <= supplied["DAI"]
              /\ supplied' = [t \in Tokens |->
                    IF t = "DAI" THEN supplied[t] - a
                    ELSE supplied[t] + n + idle[t]]
              /\ idle' = [idle EXCEPT !["USDC"] = 0]
              /\ routerDai' = routerDai + left
              /\ daiAllowance' = left
              /\ UNCHANGED usdcAllowance
<1> DEFINE n == a \div USDC_SCALING_FACTOR
           left == a - n * USDC_SCALING_FACTOR
<1>1. /\ a \in Nat /\ USDC_SCALING_FACTOR \in Nat \ {0} /\ routerDai \in Nat
      /\ tout = 0
    BY MakerSwapsAssumption DEF swapDaiForUsdc, RouterTypeOK
<1>2. n \in Nat /\ left \in 0..(USDC_SCALING_FACTOR - 1)
    BY <1>1, WholeUnits
<1>3. /\ moved("DAI", a, "USDC", n)
      /\ daiAllowance' = a - BuyGemCost(n)
      /\ routerDai' = routerDai + a - BuyGemCost(n)
      /\ a <= supplied["DAI"] /\ UNCHANGED usdcAllowance
    BY DEF swapDaiForUsdc, CanWithdraw
<1> HIDE DEF n
<1>4. BuyGemCost(n) = n * USDC_SCALING_FACTOR
      /\ n * USDC_SCALING_FACTOR \in Nat
    BY <1>1, <1>2, CostWithoutFee
<1>5. /\ daiAllowance' = left /\ routerDai' = routerDai + left
      /\ a = n * USDC_SCALING_FACTOR + left
    BY <1>1, <1>3, <1>4
<1>6. /\ supplied' = [t \in Tokens |->
            IF t = "DAI" THEN supplied[t] - a ELSE supplied[t] + n + idle[t]]
      /\ idle' = [idle EXCEPT !["USDC"] = 0]
    BY <1>3 DEF moved, RouterTypeOK, Tokens
<1> HIDE DEF left
<1> QED BY <1>2, <1>3, <1>5, <1>6

\* Everybody else leaves what the router and its deposits have alone, except
\* for tokens that arrive at a deposit.
LEMMA OtherSteps ==
    ASSUME RouterTypeOK, [Next]_vars, ~Swap
    PROVE  /\ UNCHANGED <<supplied, routerVars>>
           /\ idle' \in [Tokens -> Nat]
<1>1. CASE UNCHANGED compoundRouterVars
    BY <1>1 DEF compoundRouterVars, depositVars, RouterTypeOK
<1>2. CASE DepositMoves
    BY <1>2 DEF DepositMoves, RouterTypeOK
<1> QED BY <1>1, <1>2 DEF Next, vars

\* The router's part of the state is well typed, no USDC stays approved, and
\* what stays approved in DAI is less than a unit of USDC is worth.
LEMMA RouterInvariant == Spec => []RouterInv
<1>1. Init => RouterInv
    BY MakerSwapsAssumption
    DEF Init, CompoundRouterInit, RouterInv, RouterTypeOK, LeftoverIsDust
<1>2. RouterInv /\ [Next]_vars => RouterInv'
    <2> SUFFICES ASSUME RouterInv, [Next]_vars PROVE RouterInv'
        OBVIOUS
    <2>0. RouterTypeOK /\ LeftoverIsDust
        BY DEF RouterInv
    <2>1. ASSUME NEW c \in Callers, NEW a \in SwapAmounts, swapUsdcForDai(c, a)
          PROVE  RouterInv'
        BY <2>0, <2>1, UsdcSwap, MakerSwapsAssumption
        DEF RouterInv, RouterTypeOK, LeftoverIsDust, Tokens
    <2>2. ASSUME NEW c \in Callers, NEW a \in SwapAmounts, swapDaiForUsdc(c, a)
          PROVE  RouterInv'
        BY <2>0, <2>2, DaiSwap, MakerSwapsAssumption
        DEF RouterInv, RouterTypeOK, LeftoverIsDust, Tokens
    <2>3. CASE ~Swap
        BY <2>0, <2>3, OtherSteps
        DEF RouterInv, RouterTypeOK, LeftoverIsDust, routerVars
    <2> QED BY <2>1, <2>2, <2>3 DEF Swap
<1> QED BY <1>1, <1>2, PTL DEF Spec

\* After any sequence of swaps, at any fees, what a swap leaves approved to
\* Maker is less than a unit of USDC is worth, and the router has the DAI for it.
THEOREM LeftoversStaySmall == Spec => []LeftoverIsDust
BY RouterInvariant, PTL DEF RouterInv

\* A swap keeps the PCV of deposits and router together, and takes less than a
\* unit of USDC out of the deposits.
LEMMA SwapStep ==
    ASSUME RouterInv, Swap
    PROVE  /\ DepositPCV' + routerDai' = DepositPCV + routerDai
           /\ DepositPCV' > DepositPCV - USDC_SCALING_FACTOR
<1> DEFINE S == USDC_SCALING_FACTOR
           Kept == /\ DepositPCV' + routerDai' = DepositPCV + routerDai
                   /\ DepositPCV' > DepositPCV - S
<1>0. /\ RouterTypeOK /\ S \in Nat \ {0}
      /\ supplied["DAI"] \in Nat /\ supplied["USDC"] \in Nat
      /\ idle["DAI"] \in Nat /\ idle["USDC"] \in Nat /\ routerDai \in Nat
    BY MakerSwapsAssumption DEF RouterInv, RouterTypeOK, Tokens
<1>1. ASSUME NEW c \in Callers, NEW a \in SwapAmounts, swapUsdcForDai(c, a)
      PROVE  Kept
    <2>1. /\ a \in Nat /\ a <= supplied["USDC"] /\ routerDai' = routerDai
          /\ supplied'["USDC"] = supplied["USDC"] - a
          /\ supplied'["DAI"] = supplied["DAI"] + a * S + idle["DAI"]
          /\ idle'["DAI"] = 0 /\ idle'["USDC"] = idle["USDC"]
        BY <1>0, <1>1, UsdcSwap DEF Tokens, RouterTypeOK
    <2>2. DepositPCV' = DepositPCV
        BY <1>0, <2>1 DEF DepositPCV
    <2>3. DepositPCV \in Nat
        BY <1>0 DEF DepositPCV
    <2> QED BY <1>0, <2>1, <2>2, <2>3
<1>2. ASSUME NEW c \in Callers, NEW a \in SwapAmounts, swapDaiForUsdc(c, a)
      PROVE  Kept
    <2>1. PICK n \in Nat, left \in 0..(USDC_SCALING_FACTOR - 1) :
              /\ a = n * USDC_SCALING_FACTOR + left /\ a <= supplied["DAI"]
              /\ supplied' = [t \in Tokens |->
                    IF t = "DAI" THEN supplied[t] - a
                    ELSE supplied[t] + n + idle[t]]
              /\ idle' = [idle EXCEPT !["USDC"] = 0]
              /\ routerDai' = routerDai + left
              /\ daiAllowance' = left
              /\ UNCHANGED usdcAllowance
        <3> HIDE DEF S
        <3> QED BY <1>0, <1>2, DaiSwap
    <2>2. /\ supplied'["DAI"] = supplied["DAI"] - (n * S + left)
          /\ supplied'["USDC"] = supplied["USDC"] + n + idle["USDC"]
          /\ idle'["USDC"] = 0 /\ idle'["DAI"] = idle["DAI"]
        BY <1>0, <2>1 DEF Tokens, RouterTypeOK
    <2>3. DepositPCV' = DepositPCV - left
        BY <1>0, <2>1, <2>2 DEF DepositPCV
    <2>4. DepositPCV \in Nat
        BY <1>0 DEF DepositPCV
    <2> QED BY <1>0, <2>1, <2>3, <2>4
<1> QED BY <1>1, <1>2 DEF Swap

\* In either direction no swap loses PCV: what the deposits lose, less than a
\* unit of USDC, is with the router.
THEOREM NoPCVIsLost == Spec => SwapsKeepPCV
<1>1. RouterInv /\ [Next]_vars
        => [Swap => /\ DepositPCV' + routerDai' = DepositPCV + routerDai
                    /\ DepositPCV' > DepositPCV - USDC_SCALING_FACTOR]_vars
    BY SwapStep
<1> QED BY <1>1, RouterInvariant, PTL DEF Spec, SwapsKeepPCV

------------------------------------------------------------------------------
(* MakerRouter *)

\* What its callers, its recipients, the router itself and Maker have are
\* natural numbers.
FeiInv == MakerRouterTypeOK /\ gemReserve \in Nat

\* A fee leaves something between nothing and all.
LEMMA AfterFeeNat ==
    ASSUME NEW a \in Nat, NEW fee \in 0..BASIS_POINTS_GRANULARITY
    PROVE  AfterFee(a, fee) \in Nat
<1>1. a * (BASIS_POINTS_GRANULARITY - fee) \in Nat
    BY MakerSwapsAssumption
<1> QED BY <1>1, WholeUnits, MakerSwapsAssumption DEF AfterFee

\* The three ways a swap ends: all DAI are passed on, or some USDC are bought
\* and no DAI, or some of both are paid.
SwapTo(sender, in, min, to) ==
    \/ swapFeiForDai(sender, in, min, to)
    \/ swapFeiForUsdc(sender, in, min, to)
    \/ \E daiTo \in Recipients, ratio \in Ratios :
          swapForUsdcAndDai(sender, in, min, ratio, to, daiTo)

\* What a swap takes from its sender and leaves with the router.  While Maker
\* charges nothing, it leaves what was redeemed above the minimum, and of the
\* minimum less than a unit of USDC.
LEMMA SwapToEffect ==
    ASSUME FeiInv, NEW s \in Senders, NEW in \in Nat, NEW min \in Nat,
           NEW to \in Recipients, SwapTo(s, in, min, to)
    PROVE  /\ FeiInv'
           /\ tout = 0 =>
                 /\ makerRouterDai' >= makerRouterDai
                 /\ Redeemed(in) = min =>
                       makerRouterDai' < makerRouterDai + USDC_SCALING_FACTOR
<1> DEFINE S == USDC_SCALING_FACTOR
           BP == BASIS_POINTS_GRANULARITY
<1>0. /\ S \in Nat \ {0} /\ BP \in Nat \ {0} /\ Ratios \subseteq Nat
      /\ feiFee \in 0..BP /\ makerRouterDai \in Nat
    BY MakerSwapsAssumption DEF FeiInv, MakerRouterTypeOK
<1>1. Redeemed(in) \in Nat
    BY <1>0, AfterFeeNat DEF Redeemed
<1>2. redeemFromFeiPSM(s, in, min)
    BY DEF SwapTo, swapFeiForDai, swapFeiForUsdc, swapForUsdcAndDai
<1>3. /\ Redeemed(in) >= min
      /\ fei' \in [Senders -> Nat] /\ feiAllowance' \in [Senders -> Nat]
      /\ feiFee' \in FeiFees
    BY <1>2 DEF redeemFromFeiPSM, FeiInv, MakerRouterTypeOK
<1>4. CASE swapFeiForDai(s, in, min, to)
    <2>1. /\ dai' = [dai EXCEPT ![to] = @ + Redeemed(in)]
          /\ UNCHANGED <<makerRouterDai, usdc, gemReserve>>
        BY <1>4 DEF swapFeiForDai, payDai
    <2>2. dai' \in [Recipients -> Nat]
        BY <1>1, <2>1 DEF FeiInv, MakerRouterTypeOK
    <2> QED BY <1>0, <1>3, <2>1, <2>2 DEF FeiInv, MakerRouterTypeOK
<1>5. ASSUME NEW gemAmt \in Nat, NEW daiAmount \in Nat, NEW usdcAmount \in Nat,
             NEW daiTo \in Recipients,
             payUsdcAndDai(in, gemAmt, to, daiAmount, daiTo),
             usdcAmount + daiAmount = min,
             usdcAmount - gemAmt * S \in 0..(S - 1)
      PROVE  /\ FeiInv'
             /\ tout = 0 =>
                 /\ makerRouterDai' >= makerRouterDai
                 /\ Redeemed(in) = min => makerRouterDai' < makerRouterDai + S
    <2>1. /\ makerRouterDai' = makerRouterDai + Redeemed(in)
                                   - BuyGemCost(gemAmt) - daiAmount
          /\ makerRouterDai' >= 0
        BY <1>5 DEF payUsdcAndDai
    <2>2. BuyGemCost(gemAmt) \in Int \/ tout # 0
        BY <1>0, CostWithoutFee
    <2>3. makerRouterDai' \in Nat
        BY <1>0, <1>1, <2>1 DEF BuyGemCost
    <2>4. ASSUME tout = 0
          PROVE  /\ makerRouterDai' >= makerRouterDai
                 /\ Redeemed(in) = min => makerRouterDai' < makerRouterDai + S
        <3>1. BuyGemCost(gemAmt) = gemAmt * S /\ gemAmt * S \in Nat
            BY <1>0, <2>4, CostWithoutFee
        <3> HIDE DEF S
        <3> QED BY <1>0, <1>1, <1>3, <1>5, <2>1, <3>1
    <2>5. /\ usdc' = [usdc EXCEPT ![to] = @ + gemAmt]
          /\ dai' = [dai EXCEPT ![daiTo] = @ + daiAmount]
          /\ gemAmt <= gemReserve /\ gemReserve' = gemReserve - gemAmt
        BY <1>5 DEF payUsdcAndDai
    <2>6. /\ usdc' \in [Recipients -> Nat] /\ dai' \in [Recipients -> Nat]
          /\ gemReserve' \in Nat
        BY <2>5 DEF FeiInv, MakerRouterTypeOK
    <2> QED BY <1>3, <2>3, <2>4, <2>6 DEF FeiInv, MakerRouterTypeOK
<1>6. CASE swapFeiForUsdc(s, in, min, to)
    <2> DEFINE gemAmt == min \div S
    <2>1. gemAmt \in Nat /\ min - gemAmt * S \in 0..(S - 1)
        BY <1>0, WholeUnits
    <2>2. payUsdcAndDai(in, gemAmt, to, 0, to)
        BY <1>6 DEF swapFeiForUsdc
    <2> HIDE DEF gemAmt, S
    <2> QED BY <1>5, <2>1, <2>2 DEF S
<1>7. ASSUME NEW daiTo \in Recipients, NEW r \in Ratios,
             swapForUsdcAndDai(s, in, min, r, to, daiTo)
      PROVE  /\ FeiInv'
             /\ tout = 0 =>
                 /\ makerRouterDai' >= makerRouterDai
                 /\ Redeemed(in) = min => makerRouterDai' < makerRouterDai + S
    <2> DEFINE usdcAmount == (min * r) \div BP
               gemAmt     == usdcAmount \div S
    <2>1. usdcAmount \in Nat
        <3>1. min * r \in Nat
            BY <1>0
        <3> QED BY <1>0, <3>1, WholeUnits
    <2>2. /\ usdcAmount <= min
          /\ payUsdcAndDai(in, gemAmt, to, min - usdcAmount, daiTo)
        BY <1>7 DEF swapForUsdcAndDai
    <2> HIDE DEF usdcAmount
    <2>3. gemAmt \in Nat /\ usdcAmount - gemAmt * S \in 0..(S - 1)
        BY <1>0, <2>1, WholeUnits
    <2>4. min - usdcAmount \in Nat /\ usdcAmount + (min - usdcAmount) = min
        BY <2>1, <2>2
    <2> HIDE DEF gemAmt, S
    <2> QED BY <1>5, <2>1, <2>2, <2>3, <2>4
<1> QED BY <1>4, <1>6, <1>7 DEF SwapTo

\* Swaps of a given amount and of all FEI are such swaps.
LEMMA SwapsAreSwapTo ==
    ASSUME FeiInv
    PROVE  /\ SwapFei => \E s \in Senders, in, min \in Nat, to \in Recipients :
                            SwapTo(s, in, min, to)
           /\ SwapAllFei => \E s \in Senders, to \in Recipients :
                               /\ AllFei(s) \in Nat /\ AllDai(s) \in Nat
                               /\ SwapTo(s, AllFei(s), AllDai(s), to)
<1>1. ASSUME NEW s \in Senders PROVE AllFei(s) \in Nat /\ AllDai(s) \in Nat
    <2>1. AllFei(s) \in Nat
        BY DEF AllFei, MathMin, FeiInv, MakerRouterTypeOK
    <2> QED BY <2>1, AfterFeeNat, MakerSwapsAssumption DEF AllDai
<1>2. SwapAllFei => \E s \in Senders, to \in Recipients :
                       SwapTo(s, AllFei(s), AllDai(s), to)
    BY DEF SwapAllFei, SwapTo, swapAllFeiForDai, swapAllFeiForUsdc,
           swapAllFeiForUsdcAndDai
<1>3. SwapFei => \E s \in Senders, in \in FeiAmounts, min \in MinDaiAmounts,
                    to \in Recipients : SwapTo(s, in, min, to)
    BY DEF SwapFei, SwapTo, swapFeiForUsdcAndDai
<1> QED BY <1>1, <1>2, <1>3, MakerSwapsAssumption

\* The other router takes from Maker's reserve no more than there is.
LEMMA SwapKeepsReserve ==
    ASSUME gemReserve \in Nat, Swap
    PROVE  gemReserve' \in Nat
<1>1. ASSUME NEW c \in Callers, NEW a \in SwapAmounts, swapUsdcForDai(c, a)
      PROVE  gemReserve' \in Nat
    BY <1>1, MakerSwapsAssumption DEF swapUsdcForDai
<1>2. ASSUME NEW c \in Callers, NEW a \in SwapAmounts, swapDaiForUsdc(c, a)
      PROVE  gemReserve' \in Nat
    <2>1. a \div USDC_SCALING_FACTOR \in Nat
        BY WholeUnits, MakerSwapsAssumption
    <2>2. /\ a \div USDC_SCALING_FACTOR <= gemReserve
          /\ gemReserve' = gemReserve - a \div USDC_SCALING_FACTOR
        BY <1>2 DEF swapDaiForUsdc
    <2> QED BY <2>1, <2>2
<1> QED BY <1>1, <1>2 DEF Swap

\* The invariant of MakerRouter holds in every reachable state.
LEMMA FeiInvariant == Spec => []FeiInv
<1>1. Init => FeiInv
    BY MakerSwapsAssumption
    DEF Init, MakerInit, MakerRouterInit, FeiInv, MakerRouterTypeOK
<1>2. FeiInv /\ [Next]_vars => FeiInv'
    <2> SUFFICES ASSUME FeiInv, [Next]_vars PROVE FeiInv'
        OBVIOUS
    <2>1. CASE UNCHANGED makerRouterVars /\ gemReserve' \in Nat
        BY <2>1 DEF makerRouterVars, FeiInv, MakerRouterTypeOK
    <2>2. CASE SwapFei \/ SwapAllFei
        BY <2>2, SwapsAreSwapTo, SwapToEffect
    <2>3. CASE Withdrawal
        BY <2>3 DEF Withdrawal, withdrawDai, makerVars, FeiInv, MakerRouterTypeOK
    <2>4. CASE FeiMoves
        BY <2>4, MakerSwapsAssumption
        DEF FeiMoves, makerVars, FeiInv, MakerRouterTypeOK
    <2>5. CASE Swap /\ UNCHANGED makerRouterVars
        BY <2>1, <2>5, SwapKeepsReserve DEF FeiInv
    <2>6. CASE MakerMoves /\ UNCHANGED makerRouterVars
        BY <2>1, <2>6, MakerSwapsAssumption DEF MakerMoves, FeiInv
    <2>7. CASE UNCHANGED <<makerVars, makerRouterVars>>
        BY <2>1, <2>7 DEF makerVars, FeiInv
    <2> QED BY <2>2, <2>3, <2>4, <2>5, <2>6, <2>7 DEF Next, vars
<1> QED BY <1>1, <1>2, PTL DEF Spec

\* Maker's fees are fees it may set, and pauses are so or not.
FeesAndPauses ==
    /\ tin \in MakerFees /\ tout \in MakerFees
    /\ depositPaused \in [Tokens -> BOOLEAN]

\* Whatever is swapped, by whom and at which fees, no deposit, router, recipient
\* or caller, nor Maker, ever has less than nothing.
THEOREM TypeCorrect == Spec => []TypeOK
<1>1. Init => FeesAndPauses
    <2> SUFFICES ASSUME Init PROVE FeesAndPauses
        OBVIOUS
    <2>1. depositPaused \in [Tokens -> BOOLEAN]
        BY Zenon DEF Init, CompoundRouterInit
    <2> QED BY <2>1, MakerSwapsAssumption DEF Init, MakerInit, FeesAndPauses
<1>2. FeesAndPauses /\ [Next]_vars => FeesAndPauses'
    <2> SUFFICES ASSUME FeesAndPauses, [Next]_vars PROVE FeesAndPauses'
        OBVIOUS
    <2>2. SwapFei \/ SwapAllFei \/ Withdrawal \/ FeiMoves
             => UNCHANGED <<tin, tout>>
        BY DEF SwapFei, SwapAllFei, swapFeiForDai, swapFeiForUsdc,
               swapFeiForUsdcAndDai, swapAllFeiForDai, swapAllFeiForUsdc,
               swapAllFeiForUsdcAndDai, swapForUsdcAndDai, redeemFromFeiPSM,
               Withdrawal, withdrawDai, FeiMoves, makerVars
    <2>3. Swap => UNCHANGED <<tin, tout, depositPaused>>
        BY DEF Swap, swapUsdcForDai, swapDaiForUsdc, moved
    <2>4. MakerMoves => tin' \in MakerFees /\ tout' \in MakerFees
        BY DEF MakerMoves, FeesAndPauses
    <2>5. DepositMoves => depositPaused' \in [Tokens -> BOOLEAN]
        BY Zenon DEF DepositMoves, FeesAndPauses
    <2>6. /\ tin' \in MakerFees /\ tout' \in MakerFees
        BY <2>2, <2>3, <2>4 DEF Next, vars, makerVars, FeesAndPauses
    <2>7. depositPaused' \in [Tokens -> BOOLEAN]
        BY <2>3, <2>5, Zenon
        DEF Next, vars, compoundRouterVars, depositVars, FeesAndPauses
    <2> QED BY <2>6, <2>7 DEF FeesAndPauses
<1>3. FeesAndPauses /\ RouterInv /\ FeiInv => TypeOK
    BY DEF FeesAndPauses, RouterInv, RouterTypeOK, FeiInv, TypeOK, MakerTypeOK,
           CompoundRouterTypeOK
<1> QED BY <1>1, <1>2, <1>3, RouterInvariant, FeiInvariant, PTL DEF Spec

\* While Maker charges no fee, no swap of MakerRouter pays out of what others
\* left there, and a swap of all FEI at the expected fee leaves only dust.
THEOREM SwapsPayForThemselves == Spec => SwapsPayTheirOwnProceeds
<1>1. FeiInv /\ [Next]_vars
        => [tout = 0 =>
              /\ SwapFei \/ SwapAllFei => makerRouterDai' >= makerRouterDai
              /\ SwapAllFei /\ feiFee = REDEMPTION_FEE
                    => makerRouterDai' < makerRouterDai + USDC_SCALING_FACTOR]_vars
    <2> SUFFICES ASSUME FeiInv, tout = 0
                 PROVE  /\ SwapFei \/ SwapAllFei => makerRouterDai' >= makerRouterDai
                        /\ SwapAllFei /\ feiFee = REDEMPTION_FEE
                              => makerRouterDai' < makerRouterDai + USDC_SCALING_FACTOR
        OBVIOUS
    <2>1. SwapFei \/ SwapAllFei => makerRouterDai' >= makerRouterDai
        BY SwapsAreSwapTo, SwapToEffect
    <2>2. ASSUME SwapAllFei, feiFee = REDEMPTION_FEE
          PROVE  makerRouterDai' < makerRouterDai + USDC_SCALING_FACTOR
        <3>1. \A s \in Senders : Redeemed(AllFei(s)) = AllDai(s)
            BY <2>2 DEF Redeemed, AllDai
        <3> QED BY <2>2, <3>1, SwapsAreSwapTo, SwapToEffect
    <2> QED BY <2>1, <2>2
<1> QED BY <1>1, FeiInvariant, PTL DEF Spec, SwapsPayTheirOwnProceeds

------------------------------------------------------------------------------
(* When the swaps of CompoundPCVRouter go through *)

\* What swapUsdcForDai() requires on its way: of the caller, of Maker, of both
\* deposits, and of the allowance that earlier swaps left.
UsdcSwapRequires(caller, amount) ==
    /\ caller \in SwapRoles
    /\ tin = 0
    /\ amount <= supplied["USDC"] /\ (amount = 0 => TakesZero)
    /\ amount = 0 \/ usdcAllowance = 0
    /\ ~depositPaused["DAI"]

\* What it leaves behind.
UsdcSwapLeaves(amount) ==
    /\ supplied' = [supplied EXCEPT
          !["USDC"] = @ - amount,
          !["DAI"] = @ + amount * USDC_SCALING_FACTOR + idle["DAI"]]
    /\ idle' = [idle EXCEPT !["DAI"] = 0]
    /\ usdcAllowance' = 0
    /\ gemReserve' = gemReserve + amount
    /\ UNCHANGED <<tin, tout, depositPaused, routerDai, daiAllowance>>

\* UsdcSwapRequires is what decides whether swapUsdcForDai() reverts: where it
\* holds, each variable gets the one next value that is written here.
LEMMA UsdcSwapIsRequirements ==
    ASSUME NEW c, NEW a
    PROVE  swapUsdcForDai(c, a) <=> UsdcSwapRequires(c, a) /\ UsdcSwapLeaves(a)
BY DEF swapUsdcForDai, moved, CanWithdraw, CanApprove, UsdcSwapRequires,
       UsdcSwapLeaves

\* Whatever was swapped before, in either direction and at any fees, any amount
\* of the USDC deposit can be moved while Maker charges nothing and the DAI
\* deposit takes it: nothing is left behind that blocks the next approval.
THEOREM UsdcSwapsAlwaysGoThrough ==
    Spec => [](\A c \in SwapRoles, a \in Nat \ {0} :
                  /\ tin = 0 /\ ~depositPaused["DAI"]
                  /\ a <= supplied["USDC"]
                  => UsdcSwapRequires(c, a))
<1>1. RouterInv => \A c \in SwapRoles, a \in Nat \ {0} :
                      /\ tin = 0 /\ ~depositPaused["DAI"]
                      /\ a <= supplied["USDC"]
                      => UsdcSwapRequires(c, a)
    BY DEF RouterInv, RouterTypeOK, UsdcSwapRequires
<1> QED BY <1>1, RouterInvariant, PTL

\* In the other direction there is: DAI that a swap left approved stay approved,
\* and block every swap of DAI but one of nothing, which takes a market that lets
\* nothing be withdrawn.  No other call of anybody clears them.
THEOREM LeftoversBlockDai ==
    Spec => [][daiAllowance # 0 =>
                  /\ \A c \in Callers, a \in SwapAmounts \ {0} :
                        ~swapDaiForUsdc(c, a)
                  /\ \/ UNCHANGED daiAllowance
                     \/ TakesZero /\ \E c \in Callers : swapDaiForUsdc(c, 0)]_vars
<1>1. RouterInv /\ [Next]_vars
        => [daiAllowance # 0 =>
              /\ \A c \in Callers, a \in SwapAmounts \ {0} : ~swapDaiForUsdc(c, a)
              /\ \/ UNCHANGED daiAllowance
                 \/ TakesZero /\ \E c \in Callers : swapDaiForUsdc(c, 0)]_vars
    <2> SUFFICES ASSUME RouterInv, Next, daiAllowance # 0
                 PROVE  /\ \A c \in Callers, a \in SwapAmounts \ {0} :
                              ~swapDaiForUsdc(c, a)
                        /\ \/ UNCHANGED daiAllowance
                           \/ TakesZero /\ \E c \in Callers : swapDaiForUsdc(c, 0)
        OBVIOUS
    <2>1. ASSUME NEW c \in Callers, NEW a \in SwapAmounts, swapDaiForUsdc(c, a)
          PROVE  a = 0 /\ TakesZero
        BY <2>1 DEF swapDaiForUsdc, CanApprove, CanWithdraw
    <2>2. ASSUME NEW c \in Callers, NEW a \in SwapAmounts, swapUsdcForDai(c, a)
          PROVE  UNCHANGED daiAllowance
        BY <2>2 DEF swapUsdcForDai
    <2>3. ~Swap => UNCHANGED daiAllowance
        BY OtherSteps DEF RouterInv, routerVars
    <2> QED BY <2>1, <2>2, <2>3 DEF Swap
<1> QED BY <1>1, RouterInvariant, PTL DEF Spec
==============================================================================
