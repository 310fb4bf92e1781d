---------------------------- MODULE MCMakerSwaps -----------------------------
(* MakerSwaps for TLC: a unit of USDC is worth three units of DAI, and one   *)
(* governor uses both routers.                                               *)
EXTENDS MakerSwaps

CONSTANT gov

MCInitialSupplied == [t \in Tokens |-> IF t = "DAI" THEN 4 ELSE 1]
MCInitialFei == [s \in Senders |-> 10]
==============================================================================
