------------------------------ MODULE MakerPSM -------------------------------
(***************************************************************************)
(* Maker's DAI-USDC PSM as the routers use it (contracts/pcv/maker/        *)
(* IDSSPSM.sol); the contract itself is outside this repository.  Amounts  *)
(* of DAI and USDC are integers; one unit of USDC is worth                 *)
(* USDC_SCALING_FACTOR units of DAI.                                       *)
(***************************************************************************)
EXTENDS Integers

CONSTANTS
    USDC_SCALING_FACTOR,    \* 10^12
    GemLevels,              \* USDC that others' trades may leave in the PSM
    MakerFees               \* fees Maker may set, in DAI per unit of USDC

VARIABLES
    gemReserve,             \* USDC in the PSM
    tin, tout               \* fees on selling and on buying USDC

makerVars == <<gemReserve, tin, tout>>

MakerTypeOK == gemReserve \in Nat /\ tin \in MakerFees /\ tout \in MakerFees

\* The DAI that buyGem() takes.
BuyGemCost(gemAmt) == gemAmt * (USDC_SCALING_FACTOR + tout)

MakerInit == gemReserve \in GemLevels /\ tin = 0 /\ tout = 0

\* Others trade with the PSM, or Maker sets a fee.
MakerMoves ==
    \/ gemReserve' \in GemLevels /\ UNCHANGED <<tin, tout>>
    \/ tin' \in MakerFees /\ UNCHANGED <<gemReserve, tout>>
    \/ tout' \in MakerFees /\ UNCHANGED <<gemReserve, tin>>
==============================================================================
