---------------------------- MODULE ContractCalls -----------------------------
(* The contracts as scripts and proposals meet them: a chain is the set of the *)
(* facts that hold on it, and a call maps a chain to the chain it leaves, or   *)
(* to none if it reverts. Only the state scripts and proposals set up or check *)
(* is kept; what the contracts do in operation is the other modules' subject.  *)
(*                                                                             *)
(* An address is a pair of the name it is registered under and a number that   *)
(* tells several deployments of one name apart. The facts are                  *)
(*   <<"core", contract, core>>            the core a contract refers to       *)
(*   <<"role", core, role, who>>           who has a role                      *)
(*   <<"admin", core, role, role>>         which role administers a role       *)
(*   <<"owner", contract, who>>            Ownable                             *)
(*   <<"source", passThrough, oracle>>     scalingPriceOracle                  *)
(*   <<"oracle", psm, oracle>>             OracleRef                           *)
(*   <<"mintFee" or "redeemFee", psm, fee>>                                    *)
(*   <<"paused", contract, what>>          "all", "mint" or "redeem"           *)
(*   <<"safe" or "listed", guardian, who>> safeAddress and whitelist           *)
(*   <<"token", contract, token>>          balanceReportedIn                   *)
(*   <<"psm", allocator, psm>>, <<"link", allocator, deposit, psm>>            *)
(*   <<"quotes", oracle>>                  a VoltSystemOracle with a price     *)
(*   <<"routes", router, deposit, deposit>> the deposits of a CompoundPCVRouter *)
(*   <<"buffer", minter, who, n>>          what who may still mint, in millions *)
(*   <<"balance", psm, n>>                 VOLT in a PSM, in millions          *)
(* The roles of a TimelockController are roles with the timelock for the core. *)
EXTENDS Sequences, SequencesExt

(* A call of method do at address to; args are addresses or literals. *)
Call(to, do, args) == [to |-> to, do |-> do, args |-> args]

(* The fact for a slot that holds one value, which replaces the old value. *)
Assign(chain, slot, value) ==
    {f \in chain : ~IsPrefix(slot, f)} \cup {Append(slot, value)}

(* The chain after a call whose requirements hold, none if one does not. *)
Succeeds(required, after) == IF required THEN {after} ELSE {}

(* Scripts and proposals use names; names maps those they know to addresses,   *)
(* and what is no name is a literal. The first of a fact is its kind, and the  *)
(* last of one about an amount the amount.                                     *)
Address(names, x) == IF x \in DOMAIN names THEN names[x] ELSE x

Fact(names, f) ==
    [i \in DOMAIN f |->
        IF i = 1 \/ (f[1] \in {"buffer", "balance"} /\ i = Len(f))
        THEN f[i]
        ELSE Address(names, f[i])]

Facts(names, facts) == {Fact(names, f) : f \in facts}

-------------------------------------------------------------------------------
(* Core: Permissions over AccessControl *)

Granted ==
    [grantGovernor |-> "GOVERN", grantGuardian |-> "GUARDIAN",
     grantPCVController |-> "PCV_CONTROLLER", grantMinter |-> "MINTER"]

Revoked ==
    [revokeGovernor |-> "GOVERN", revokeGuardian |-> "GUARDIAN",
     revokePCVController |-> "PCV_CONTROLLER", revokeMinter |-> "MINTER"]

HasRole(chain, core, role, who) == <<"role", core, role, who>> \in chain

(* Whether who has one of the roles in the core a contract refers to. *)
May(chain, contract, roles, who) ==
    \E f \in chain :
        /\ f[1] = "core" /\ f[2] = contract
        /\ \E role \in roles : HasRole(chain, f[3], role, who)

(* grantRole, revokeRole: for holders of the administrating role; until one is *)
(* set, nobody has it.                                                         *)
Administers(chain, core, role, who) ==
    \E f \in chain :
        f[1] = "admin" /\ f[2] = core /\ f[3] = role /\ HasRole(chain, core, f[4], who)

CoreCall(chain, by, c) ==
    LET governed == HasRole(chain, c.to, "GOVERN", by)
    IN  CASE c.do \in DOMAIN Granted ->
               Succeeds(governed, chain \cup {<<"role", c.to, Granted[c.do], c.args[1]>>})
          [] c.do \in DOMAIN Revoked ->
               Succeeds(governed, chain \ {<<"role", c.to, Revoked[c.do], c.args[1]>>})
          [] c.do = "createRole" ->
               Succeeds(governed, Assign(chain, <<"admin", c.to, c.args[1]>>, c.args[2]))
          [] c.do = "grantRole" ->
               Succeeds(Administers(chain, c.to, c.args[1], by),
                        chain \cup {<<"role", c.to, c.args[1], c.args[2]>>})
          [] OTHER -> {}

(* PCVGuardAdmin: hands out and withdraws the guards' role in its own name. *)
GuardAdminCall(chain, by, c) ==
    LET cores == {f[3] : f \in {g \in chain : g[1] = "core" /\ g[2] = c.to}}
        guard(core) == <<"role", core, "PCV_GUARD", c.args[1]>>
        inCharge(core) == Administers(chain, core, "PCV_GUARD", c.to)
    IN  CASE c.do = "grantPCVGuardRole" ->
               UNION {Succeeds(May(chain, c.to, {"GOVERN"}, by) /\ inCharge(k),
                               chain \cup {guard(k)}) : k \in cores}
          [] c.do = "revokePCVGuardRole" ->
               UNION {Succeeds(May(chain, c.to, {"GOVERN", "GUARDIAN"}, by) /\ inCharge(k),
                               chain \ {guard(k)}) : k \in cores}
          [] OTHER -> {}

-------------------------------------------------------------------------------
(* Contracts that refer to a core *)

(* CoreRef: a paused contract cannot be paused again, nor the other way. *)
PauseCall(chain, by, c) ==
    LET paused == <<"paused", c.to, "all">>
        allowed == May(chain, c.to, {"GOVERN", "GUARDIAN"}, by)
    IN  CASE c.do = "pause" ->
               Succeeds(allowed /\ paused \notin chain, chain \cup {paused})
          [] c.do = "unpause" ->
               Succeeds(allowed /\ paused \in chain, chain \ {paused})
          [] OTHER -> {}

(* PCVGuardian: the whitelist grows by addresses that are not on it yet. *)
GuardianCall(chain, by, c) ==
    LET listed == {<<"listed", c.to, c.args[i]>> : i \in DOMAIN c.args}
    IN  CASE c.do \in {"addWhitelistAddress", "addWhitelistAddresses"} ->
               Succeeds(/\ May(chain, c.to, {"GOVERN"}, by)
                        /\ listed \cap chain = {} /\ IsInjective(c.args),
                        chain \cup listed)
          [] c.do = "removeWhitelistAddress" ->
               Succeeds(/\ May(chain, c.to, {"GOVERN", "GUARDIAN"}, by)
                        /\ listed \subseteq chain,
                        chain \ listed)
          [] OTHER -> {}

(* PegStabilityModule: the fees proposals set are all below the highest one,   *)
(* and the admins of a PSM are, from its constructor on, the governors.        *)
PSMCall(chain, by, c) ==
    LET governed == May(chain, c.to, {"GOVERN"}, by)
        guarded == May(chain, c.to, {"GOVERN", "GUARDIAN"}, by)
    IN  CASE c.do = "setOracle" ->
               Succeeds(governed, Assign(chain, <<"oracle", c.to>>, c.args[1]))
          [] c.do = "setMintFee" ->
               Succeeds(governed, Assign(chain, <<"mintFee", c.to>>, c.args[1]))
          [] c.do = "setRedeemFee" ->
               Succeeds(governed, Assign(chain, <<"redeemFee", c.to>>, c.args[1]))
          [] c.do = "pauseMint" ->
               Succeeds(guarded, chain \cup {<<"paused", c.to, "mint">>})
          [] c.do = "pauseRedeem" ->
               Succeeds(guarded, chain \cup {<<"paused", c.to, "redeem">>})
          [] c.do = "unpauseRedeem" ->
               Succeeds(guarded, chain \ {<<"paused", c.to, "redeem">>})
          [] OTHER -> {}

(* ERC20Allocator: a deposit goes with a connected PSM of its own token. *)
AllocatorCall(chain, by, c) ==
    LET governed == May(chain, c.to, {"GOVERN"}, by)
        token(contract) == {f[3] : f \in {g \in chain : g[1] = "token" /\ g[2] = contract}}
    IN  CASE c.do = "connectPSM" ->
               Succeeds(/\ governed /\ token(c.args[1]) # {}
                        /\ <<"psm", c.to, c.args[1]>> \notin chain,
                        chain \cup {<<"psm", c.to, c.args[1]>>})
          [] c.do = "connectDeposit" ->
               Succeeds(/\ governed
                        /\ <<"psm", c.to, c.args[1]>> \in chain
                        /\ token(c.args[1]) = token(c.args[2]),
                        Assign(chain, <<"link", c.to, c.args[2]>>, c.args[1]))
          [] c.do = "deleteDeposit" ->
               Succeeds(governed, {f \in chain : ~IsPrefix(<<"link", c.to, c.args[1]>>, f)})
          [] OTHER -> {}

(* OraclePassThrough: Ownable, and its source is its owner's choice. *)
PassThroughCall(chain, by, c) ==
    LET owned == <<"owner", c.to, by>> \in chain
    IN  CASE c.do = "updateScalingPriceOracle" ->
               Succeeds(owned, Assign(chain, <<"source", c.to>>, c.args[1]))
          [] c.do = "transferOwnership" ->
               Succeeds(owned, Assign(chain, <<"owner", c.to>>, c.args[1]))
          [] OTHER -> {}

-------------------------------------------------------------------------------
(* Contracts of libraries and of earlier versions of the protocol *)

(* AccessControl of a timelock: whoever has a role may give up their own. *)
TimelockCall(chain, by, c) ==
    IF c.do = "renounceRole"
    THEN Succeeds(c.args[2] = by, chain \ {<<"role", c.to, c.args[1], by>>})
    ELSE {}

(* GlobalRateLimitedMinter: a governor gives somebody a buffer; what is minted *)
(* is taken from the caller's buffer, and Volt asks for the minter's role.     *)
MinterCall(chain, by, c) ==
    CASE c.do = "addAddress" ->
           Succeeds(/\ May(chain, c.to, {"GOVERN"}, by)
                    /\ \A f \in chain : ~IsPrefix(<<"buffer", c.to, c.args[1]>>, f),
                    chain \cup {<<"buffer", c.to, c.args[1], c.args[2]>>})
      [] c.do = "mintVolt" ->
           UNION {Succeeds(May(chain, c.to, {"MINTER"}, c.to),
                           Assign(Assign(chain, <<"buffer", c.to, by>>, f[4] - c.args[2]),
                                  <<"balance", c.args[1]>>, c.args[2])) :
                  f \in {g \in chain : /\ IsPrefix(<<"buffer", c.to, by>>, g)
                                       /\ g[4] >= c.args[2]}}
      [] OTHER -> {}

-------------------------------------------------------------------------------

(* What a call sent by by leaves: no chain if it reverts, which it also does   *)
(* when the contract has no such method or is not there.                       *)
Outcome(chain, by, c) ==
    UNION {CoreCall(chain, by, c), GuardAdminCall(chain, by, c),
           PauseCall(chain, by, c), GuardianCall(chain, by, c),
           PSMCall(chain, by, c), AllocatorCall(chain, by, c),
           PassThroughCall(chain, by, c), TimelockCall(chain, by, c),
           MinterCall(chain, by, c)}

(* All the calls or none of them. *)
Batch(chain, by, calls) ==
    FoldLeft(LAMBDA chains, c : UNION {Outcome(k, by, c) : k \in chains}, {chain}, calls)
===============================================================================
