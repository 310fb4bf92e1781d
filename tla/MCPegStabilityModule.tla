------------------------ MODULE MCPegStabilityModule -------------------------
(* PegStabilityModule for TLC: one trader starts with all the underlying     *)
(* tokens and all the VOLT there is.                                         *)
EXTENDS PegStabilityModule

CONSTANTS user, UserUnderlying, UserVolt

MCInitialUnderlying ==
    [a \in Accounts |-> IF a = user THEN UserUnderlying ELSE 0]
MCInitialVolt ==
    [a \in Accounts |-> IF a = user THEN UserVolt ELSE 0]
==============================================================================
