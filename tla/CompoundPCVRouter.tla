-------------------------- MODULE CompoundPCVRouter --------------------------
(***************************************************************************)
(* contracts/pcv/compound/CompoundPCVRouter.sol: moves PCV between a DAI   *)
(* and a USDC deposit through Maker's PSM.  A call withdraws from one      *)
(* deposit, approves, swaps and deposits into the other, or reverts as a   *)
(* whole.  What the router keeps between calls are the DAI too few for a   *)
(* unit of USDC and the allowance for them.  The deposits are those it was *)
(* deployed with, MorphoCompoundPCVDeposit, without the rounding of Morpho.*)
(***************************************************************************)
EXTENDS MakerPSM

CONSTANTS
    Callers,                \* accounts that send transactions
    SwapRoles,              \* those with one of the three roles of the router
    SwapAmounts,            \* amounts swapped
    InitialSupplied,        \* [Tokens -> what the deposits have supplied]
    MaxPCV,                 \* bound on the PCV, in DAI
    TakesZero               \* whether the market accepts a withdrawal of nothing

Tokens == {"DAI", "USDC"}

VARIABLES
    supplied,               \* [token -> balance() of its deposit]
    idle,                   \* [token -> tokens of its deposit not supplied]
    depositPaused,          \* [token -> whether its deposit is paused]
    routerDai,              \* DAI.balanceOf(router)
    daiAllowance,           \* DAI.allowance(router, daiPSM)
    usdcAllowance           \* USDC.allowance(router, GEM_JOIN)

routerVars  == <<routerDai, daiAllowance, usdcAllowance>>
depositVars == <<supplied, idle, depositPaused>>
compoundRouterVars == <<depositVars, routerVars>>

CompoundRouterTypeOK ==
    /\ supplied \in [Tokens -> Nat] /\ idle \in [Tokens -> Nat]
    /\ depositPaused \in [Tokens -> BOOLEAN]
    /\ routerDai \in Nat /\ daiAllowance \in Nat /\ usdcAllowance \in Nat

\* withdraw() of a deposit, also of one that is paused
CanWithdraw(token, amount) ==
    amount <= supplied[token] /\ (amount = 0 => TakesZero)

\* SafeERC20.safeApprove() sets an allowance, or clears one.
CanApprove(allowance, amount) == amount = 0 \/ allowance = 0

\* withdraw() of one deposit, then deposit() of the other, which supplies the
\* tokens that came in and those that lay idle
moved(from, out, to, in) ==
    /\ supplied' = [supplied EXCEPT ![from] = @ - out, ![to] = @ + in + idle[to]]
    /\ idle' = [idle EXCEPT ![to] = 0]
    /\ UNCHANGED depositPaused

\* Faulty variant: the router approves what the deposit had before.
swapUsdcForDai_ApprovesAll(caller, amountUsdcIn) ==
    /\ caller \in SwapRoles
    /\ tin = 0
    /\ CanWithdraw("USDC", amountUsdcIn)
    /\ CanApprove(usdcAllowance, amountUsdcIn)
    /\ ~depositPaused["DAI"]
    /\ moved("USDC", amountUsdcIn, "DAI", amountUsdcIn * USDC_SCALING_FACTOR)
    /\ usdcAllowance' = supplied["USDC"] - amountUsdcIn
    /\ gemReserve' = gemReserve + amountUsdcIn
    /\ UNCHANGED <<tin, tout, routerDai, daiAllowance>>

\* swapUsdcForDai(): the PSM takes all that was approved.
swapUsdcForDai(caller, amountUsdcIn) ==
    /\ caller \in SwapRoles
    /\ tin = 0
    /\ CanWithdraw("USDC", amountUsdcIn)
    /\ CanApprove(usdcAllowance, amountUsdcIn)
    /\ ~depositPaused["DAI"]
    /\ moved("USDC", amountUsdcIn, "DAI", amountUsdcIn * USDC_SCALING_FACTOR)
    /\ usdcAllowance' = 0
    /\ gemReserve' = gemReserve + amountUsdcIn
    /\ UNCHANGED <<tin, tout, routerDai, daiAllowance>>

\* Faulty variant: Maker's fee is not looked at and comes out of the proceeds.
swapDaiForUsdc_IgnoresFee(caller, amountDaiIn) ==
    LET gemAmt == amountDaiIn \div (USDC_SCALING_FACTOR + tout)
    IN  /\ caller \in SwapRoles
        /\ CanWithdraw("DAI", amountDaiIn)
        /\ CanApprove(daiAllowance, amountDaiIn)
        /\ gemAmt <= gemReserve
        /\ ~depositPaused["USDC"]
        /\ moved("DAI", amountDaiIn, "USDC", gemAmt)
        /\ daiAllowance' = amountDaiIn - BuyGemCost(gemAmt)
        /\ routerDai' = routerDai + amountDaiIn - BuyGemCost(gemAmt)
        /\ gemReserve' = gemReserve - gemAmt
        /\ UNCHANGED <<tin, tout, usdcAllowance>>

\* Faulty variant: the router approves what the deposit had before.
swapDaiForUsdc_ApprovesAll(caller, amountDaiIn) ==
    LET gemAmt == amountDaiIn \div USDC_SCALING_FACTOR
    IN  /\ caller \in SwapRoles
        /\ tout = 0
        /\ CanWithdraw("DAI", amountDaiIn)
        /\ CanApprove(daiAllowance, amountDaiIn)
        /\ gemAmt <= gemReserve
        /\ ~depositPaused["USDC"]
        /\ moved("DAI", amountDaiIn, "USDC", gemAmt)
        /\ daiAllowance' = supplied["DAI"] - BuyGemCost(gemAmt)
        /\ routerDai' = routerDai + amountDaiIn - BuyGemCost(gemAmt)
        /\ gemReserve' = gemReserve - gemAmt
        /\ UNCHANGED <<tin, tout, usdcAllowance>>

\* swapDaiForUsdc(): the PSM takes DAI for whole units of USDC only; the rest,
\* and its allowance, stay with the router.
swapDaiForUsdc(caller, amountDaiIn) ==
    LET gemAmt == amountDaiIn \div USDC_SCALING_FACTOR
    IN  /\ caller \in SwapRoles
        /\ tout = 0
        /\ CanWithdraw("DAI", amountDaiIn)
        /\ CanApprove(daiAllowance, amountDaiIn)
        /\ gemAmt <= gemReserve
        /\ ~depositPaused["USDC"]
        /\ moved("DAI", amountDaiIn, "USDC", gemAmt)
        /\ daiAllowance' = amountDaiIn - BuyGemCost(gemAmt)
        /\ routerDai' = routerDai + amountDaiIn - BuyGemCost(gemAmt)
        /\ gemReserve' = gemReserve - gemAmt
        /\ UNCHANGED <<tin, tout, usdcAllowance>>

\* The constructor: the router has nothing and has approved nothing.
CompoundRouterInit ==
    /\ supplied = InitialSupplied
    /\ idle = [t \in Tokens |-> 0]
    /\ depositPaused = [t \in Tokens |-> FALSE]
    /\ routerDai = 0 /\ daiAllowance = 0 /\ usdcAllowance = 0

Swap ==
    \E caller \in Callers, amount \in SwapAmounts :
        swapUsdcForDai(caller, amount) \/ swapDaiForUsdc(caller, amount)

\* An amount of a token in units of DAI, and the PCV in both deposits.
worth(token, amount) ==
    IF token = "DAI" THEN amount ELSE amount * USDC_SCALING_FACTOR

DepositPCV ==
    supplied["DAI"] + idle["DAI"]
        + USDC_SCALING_FACTOR * (supplied["USDC"] + idle["USDC"])

\* Tokens arrive at a deposit, or it is paused or unpaused.
DepositMoves ==
    /\ \E t \in Tokens :
          \/ /\ DepositPCV + routerDai + worth(t, 1) <= MaxPCV
             /\ idle' = [idle EXCEPT ![t] = @ + 1]
             /\ UNCHANGED depositPaused
          \/ /\ depositPaused' = [depositPaused EXCEPT ![t] = ~@]
             /\ UNCHANGED idle
    /\ UNCHANGED <<supplied, routerVars>>
==============================================================================
