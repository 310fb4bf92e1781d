------------------------ MODULE MCOraclePassThrough --------------------------
(* OraclePassThrough for TLC: prices are scaled down, none and up, for a     *)
(* token with fewer, as many and more decimals than VOLT; one other price    *)
(* oracle stands at 12.                                                      *)
EXTENDS OraclePassThrough

MCNormalizers == {-1, 0, 2}
MCOtherPrices == [o \in {"other"} |-> 12]
==============================================================================
