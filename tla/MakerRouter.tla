----------------------------- MODULE MakerRouter -----------------------------
(***************************************************************************)
(* contracts/pcv/maker/MakerRouter.sol: swaps FEI of its callers for DAI   *)
(* at the FEI-DAI PSM and on for USDC at Maker's PSM.  The FEI PSM pays    *)
(* what its fee leaves; the router passes on what was asked for, or what   *)
(* it expects after a fee of REDEMPTION_FEE, and keeps the rest until it   *)
(* is withdrawn.                                                           *)
(***************************************************************************)
EXTENDS MakerPSM, EVMMath

CONSTANTS
    Senders,                    \* accounts that send transactions
    GovernorsOrControllers,     \* those that may use the router
    Recipients,                 \* where the proceeds may go
    BASIS_POINTS_GRANULARITY,   \* 10,000
    REDEMPTION_FEE,             \* 3 basis points
    FeiFees,                    \* fees the FEI PSM may charge
    MIN_FEI,                    \* 10^18
    InitialFei,                 \* [Senders -> FEI they have]
    FeiAmounts, MinDaiAmounts, Ratios   \* arguments of a swap

VARIABLES
    fei,                    \* [sender -> FEI balance]
    feiAllowance,           \* [sender -> FEI.allowance(sender, router)]
    feiFee,                 \* redemption fee of the FEI PSM
    makerRouterDai,         \* DAI.balanceOf(router)
    dai, usdc               \* [recipient -> balance]

makerRouterVars == <<fei, feiAllowance, feiFee, makerRouterDai, dai, usdc>>

MakerRouterTypeOK ==
    /\ fei \in [Senders -> Nat] /\ feiAllowance \in [Senders -> Nat]
    /\ feiFee \in FeiFees
    /\ makerRouterDai \in Nat
    /\ dai \in [Recipients -> Nat] /\ usdc \in [Recipients -> Nat]

AfterFee(amount, fee) ==
    (amount * (BASIS_POINTS_GRANULARITY - fee)) \div BASIS_POINTS_GRANULARITY

\* What redeem() of the FEI PSM pays.
Redeemed(amountFeiIn) == AfterFee(amountFeiIn, feiFee)

\* _redeemFromFeiPSM(): redeem() reverts if it would pay less than the minimum.
redeemFromFeiPSM(sender, amountFeiIn, minDaiAmountOut) ==
    /\ sender \in GovernorsOrControllers
    /\ amountFeiIn > MIN_FEI
    /\ amountFeiIn <= fei[sender] /\ amountFeiIn <= feiAllowance[sender]
    /\ Redeemed(amountFeiIn) >= minDaiAmountOut
    /\ fei' = [fei EXCEPT ![sender] = @ - amountFeiIn]
    /\ feiAllowance' = [feiAllowance EXCEPT ![sender] = @ - amountFeiIn]
    /\ UNCHANGED <<feiFee, tin, tout>>

\* _redeemAllBalanceFromFeiPSM(): how much FEI, and the DAI expected for it
AllFei(sender) == MathMin(fei[sender], feiAllowance[sender])
AllDai(sender) == AfterFee(AllFei(sender), REDEMPTION_FEE)

\* Proceeds go to the recipient without a stop at the router.
payDai(amountFeiIn, to) ==
    /\ dai' = [dai EXCEPT ![to] = @ + Redeemed(amountFeiIn)]
    /\ UNCHANGED <<makerRouterDai, usdc, gemReserve>>

\* buyGem() for part of the proceeds, and a transfer of daiAmount in DAI; the
\* rest stays with the router.
payUsdcAndDai(amountFeiIn, gemAmt, usdcTo, daiAmount, daiTo) ==
    LET left == makerRouterDai + Redeemed(amountFeiIn)
                    - BuyGemCost(gemAmt) - daiAmount
    IN  /\ gemAmt <= gemReserve
        /\ left >= 0
        /\ makerRouterDai' = left
        /\ usdc' = [usdc EXCEPT ![usdcTo] = @ + gemAmt]
        /\ dai' = [dai EXCEPT ![daiTo] = @ + daiAmount]
        /\ gemReserve' = gemReserve - gemAmt

\* swapFeiForDai()
swapFeiForDai(sender, amountFeiIn, minDaiAmountOut, to) ==
    /\ redeemFromFeiPSM(sender, amountFeiIn, minDaiAmountOut)
    /\ payDai(amountFeiIn, to)

\* swapAllFeiForDai()
swapAllFeiForDai(sender, to) ==
    swapFeiForDai(sender, AllFei(sender), AllDai(sender), to)

\* swapFeiForUsdc()
swapFeiForUsdc(sender, amountFeiIn, minDaiAmountOut, to) ==
    /\ redeemFromFeiPSM(sender, amountFeiIn, minDaiAmountOut)
    /\ payUsdcAndDai(amountFeiIn, minDaiAmountOut \div USDC_SCALING_FACTOR, to,
                     0, to)

\* swapAllFeiForUsdc()
swapAllFeiForUsdc(sender, to) ==
    swapFeiForUsdc(sender, AllFei(sender), AllDai(sender), to)

\* Faulty variant: the DAI not bought for are taken from all the router has.
swapForUsdcAndDai_WholeBalance(sender, in, min, ratio, usdcTo, daiTo) ==
    LET usdcAmount == (min * ratio) \div BASIS_POINTS_GRANULARITY
        gemAmt     == usdcAmount \div USDC_SCALING_FACTOR
    IN  /\ gemAmt # 0 /\ usdcAmount <= min
        /\ redeemFromFeiPSM(sender, in, min)
        /\ payUsdcAndDai(in, gemAmt, usdcTo,
                         makerRouterDai + Redeemed(in) - BuyGemCost(gemAmt), daiTo)

\* _swapForUsdcAndDai() after the redemption
swapForUsdcAndDai(sender, in, min, ratio, usdcTo, daiTo) ==
    LET usdcAmount == (min * ratio) \div BASIS_POINTS_GRANULARITY
        gemAmt     == usdcAmount \div USDC_SCALING_FACTOR
    IN  /\ gemAmt # 0 /\ usdcAmount <= min
        /\ redeemFromFeiPSM(sender, in, min)
        /\ payUsdcAndDai(in, gemAmt, usdcTo, min - usdcAmount, daiTo)

\* swapFeiForUsdcAndDai()
swapFeiForUsdcAndDai(sender, in, min, usdcTo, daiTo, ratioUSDC) ==
    /\ ratioUSDC \in 1..(BASIS_POINTS_GRANULARITY - 1)
    /\ swapForUsdcAndDai(sender, in, min, ratioUSDC, usdcTo, daiTo)

\* swapAllFeiForUsdcAndDai(): the ratio is not checked.
swapAllFeiForUsdcAndDai(sender, usdcTo, daiTo, ratioUSDC) ==
    swapForUsdcAndDai(sender, AllFei(sender), AllDai(sender), ratioUSDC,
                      usdcTo, daiTo)

\* withdrawERC20() of DAI
withdrawDai(sender, amount, to) ==
    /\ sender \in GovernorsOrControllers
    /\ amount <= makerRouterDai
    /\ makerRouterDai' = makerRouterDai - amount
    /\ dai' = [dai EXCEPT ![to] = @ + amount]
    /\ UNCHANGED <<fei, feiAllowance, feiFee, usdc, makerVars>>

MakerRouterInit ==
    /\ fei = InitialFei
    /\ feiAllowance = [s \in Senders |-> 0]
    /\ feiFee \in FeiFees
    /\ makerRouterDai = 0
    /\ dai = [r \in Recipients |-> 0] /\ usdc = [r \in Recipients |-> 0]

SwapAllFei ==
    \E s \in Senders, to \in Recipients :
        \/ swapAllFeiForDai(s, to) \/ swapAllFeiForUsdc(s, to)
        \/ \E daiTo \in Recipients, ratio \in Ratios :
              swapAllFeiForUsdcAndDai(s, to, daiTo, ratio)

SwapFei ==
    \E s \in Senders, in \in FeiAmounts, min \in MinDaiAmounts, to \in Recipients :
        \/ swapFeiForDai(s, in, min, to) \/ swapFeiForUsdc(s, in, min, to)
        \/ \E daiTo \in Recipients, ratio \in Ratios :
              swapFeiForUsdcAndDai(s, in, min, to, daiTo, ratio)

\* FEI.approve() by a sender, or a new fee of the FEI PSM.
FeiMoves ==
    /\ \/ /\ \E s \in Senders, n \in FeiAmounts \cup {0} :
                feiAllowance' = [feiAllowance EXCEPT ![s] = n]
          /\ UNCHANGED feiFee
       \/ feiFee' \in FeiFees /\ UNCHANGED feiAllowance
    /\ UNCHANGED <<fei, makerRouterDai, dai, usdc, makerVars>>
==============================================================================
