------------------------------- MODULE MCVcon --------------------------------
(* Two kinds of behaviour of Vcon, so that each can be followed far enough:    *)
(* in one, tokens are moved, minted and delegated over several blocks; in the  *)
(* other, messages are signed, sent and spent under within one block,          *)
(* delegation is by signature only, and only the holder of the supply approves *)
(* finite amounts by a call of its own.                                        *)
EXTENDS Vcon

VARIABLE signing    \* TRUE: the behaviour is about signatures and approvals

MCInit == Init /\ signing \in BOOLEAN

MCNext ==
    /\ Next
    /\ UNCHANGED signing
    /\ IF signing
         THEN /\ block' <= 1 /\ UNCHANGED <<totalSupply, minter>>
              /\ delegates' # delegates => executed' # executed
              /\ \A c \in Accounts \ {InitialHolder}, s \in Accounts :
                    credit'[c][s] > credit[c][s] => executed' # executed
         ELSE UNCHANGED <<allowVars, sigVars>>

MCSpec == MCInit /\ [][MCNext]_<<vars, signing>>
==============================================================================
