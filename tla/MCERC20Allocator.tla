-------------------------- MODULE MCERC20Allocator ---------------------------
(* ERC20Allocator for TLC: a token with 18 decimals and one with fewer (a    *)
(* factor of ten stands for the 10^12 of USDC), with a PSM and a deposit     *)
(* each.                                                                     *)
EXTENDS ERC20Allocator

CONSTANTS dai, usdc, psmDai, psmUsdc, depositDai, depositUsdc

MCTokenOf == [h \in Holders |->
                 IF h \in {psmDai, depositDai} THEN dai ELSE usdc]
MCNormalizerOf == [t \in Tokens |-> IF t = usdc THEN 1 ELSE 0]
MCInitialBalance == [h \in Holders |->
                 IF h \in {depositDai, depositUsdc} THEN 2 ELSE 0]
==============================================================================
