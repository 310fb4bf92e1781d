----------------------------- MODULE MakerSwaps ------------------------------
(***************************************************************************)
(* Both routers, CompoundPCVRouter and MakerRouter, at one Maker PSM: they *)
(* compete for its USDC and meet the fees it sets.                         *)
(***************************************************************************)
EXTENDS CompoundPCVRouter, MakerRouter

ASSUME MakerSwapsAssumption ==
    /\ USDC_SCALING_FACTOR \in Nat \ {0} /\ BASIS_POINTS_GRANULARITY \in Nat \ {0}
    /\ GemLevels \subseteq Nat /\ MakerFees \subseteq Nat /\ 0 \in MakerFees
    /\ SwapAmounts \subseteq Nat /\ FeiAmounts \subseteq Nat
    /\ MinDaiAmounts \subseteq Nat /\ Ratios \subseteq Nat
    /\ REDEMPTION_FEE \in 0..BASIS_POINTS_GRANULARITY
    /\ FeiFees \subseteq 0..BASIS_POINTS_GRANULARITY
    /\ MIN_FEI \in Nat /\ TakesZero \in BOOLEAN
    /\ InitialSupplied \in [Tokens -> Nat] /\ InitialFei \in [Senders -> Nat]

vars == <<makerVars, compoundRouterVars, makerRouterVars>>

TypeOK == MakerTypeOK /\ CompoundRouterTypeOK /\ MakerRouterTypeOK

Init == MakerInit /\ CompoundRouterInit /\ MakerRouterInit

Withdrawal ==
    \E s \in Senders, amount \in 1..makerRouterDai, to \in Recipients :
        withdrawDai(s, amount, to)

Next ==
    \/ Swap /\ UNCHANGED makerRouterVars
    \/ /\ SwapFei \/ SwapAllFei \/ Withdrawal \/ FeiMoves
       /\ UNCHANGED compoundRouterVars
    \/ MakerMoves /\ UNCHANGED <<compoundRouterVars, makerRouterVars>>
    \/ DepositMoves /\ UNCHANGED <<makerVars, makerRouterVars>>

Spec == Init /\ [][Next]_vars
------------------------------------------------------------------------------
(***************************************************************************)
(* Properties.                                                             *)
(***************************************************************************)

\* Moving PCV between the deposits costs nothing: in either direction, after
\* whatever swaps and fees, the deposits lose less than one unit of USDC, and
\* the router holds what they lost.
SwapsKeepPCV ==
    [][Swap => /\ DepositPCV' + routerDai' = DepositPCV + routerDai
               /\ DepositPCV' > DepositPCV - USDC_SCALING_FACTOR]_vars

\* The allowance a swap may leave behind is for less than a unit of USDC, and
\* the router has the DAI for it.
LeftoverIsDust ==
    /\ daiAllowance < USDC_SCALING_FACTOR
    /\ daiAllowance <= routerDai

\* Whatever was swapped before in either direction, USDC can be moved to the DAI
\* deposit: nothing is left behind that blocks the next approval.
UsdcSwapsGoThrough ==
    \A caller \in SwapRoles, amount \in SwapAmounts \ {0} :
        /\ tin = 0 /\ ~depositPaused["DAI"]
        /\ amount <= supplied["USDC"]
        => ENABLED swapUsdcForDai(caller, amount)

\* "withdraw all balance" of the DAI deposit, or any other amount it has, and
\* swap it: as long as Maker charges no fee and has the USDC.
DaiSwapsGoThrough ==
    \A caller \in SwapRoles, amount \in SwapAmounts \ {0} :
        /\ tout = 0 /\ ~depositPaused["USDC"]
        /\ amount <= supplied["DAI"]
        /\ amount \div USDC_SCALING_FACTOR <= gemReserve
        => ENABLED swapDaiForUsdc(caller, amount)

\* While Maker charges no fee, no swap pays its recipients out of what earlier
\* swaps left in the router, and a swap of all FEI, for DAI, USDC or both, at
\* the fee the router expects, leaves less than a unit of USDC there.
SwapsPayTheirOwnProceeds ==
    [][tout = 0 =>
          /\ SwapFei \/ SwapAllFei => makerRouterDai' >= makerRouterDai
          /\ SwapAllFei /\ feiFee = REDEMPTION_FEE
                => makerRouterDai' < makerRouterDai + USDC_SCALING_FACTOR]_vars
==============================================================================
