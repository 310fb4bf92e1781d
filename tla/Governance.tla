------------------------------ MODULE Governance ------------------------------
(* From a proposal file to a changed chain: scripts/deploy/migrations.ts,      *)
(* scripts/simulation/, scripts/utils/checkProposal.ts, and the timelock that  *)
(* runs what the multisig schedules. A proposal is deployed, entered in the    *)
(* registry, reviewed on a fork, scheduled and executed by separate runs of    *)
(* separate scripts, with other proposals at any stage in between.             *)
EXTENDS ChainAndRegistry, Proposals, Naturals, FiniteSets, TLC

CONSTANT MaxMigrations   \* how often the contracts of one proposal are deployed

ASSUME MaxMigrationsAssumption == MaxMigrations \in Nat \ {0}

VARIABLES
    migrations,   \* how often each proposal's contracts were deployed
    queue,        \* the timelock: operation |-> "pending" or "done"
    vouched       \* what a review has passed

govVars == <<migrations, queue, vouched>>

Timelock == book[scene.timelock]
Multisig == book[scene.multisig]

-------------------------------------------------------------------------------
(* The names a proposal depends on, the timelock that runs it among them, with *)
(* what the registry binds them to.                                            *)
NamesOf(v) ==
    {scene.timelock} \cup
    UNION {{Commands[v][i].to} \cup Range(Commands[v][i].names) : i \in DOMAIN Commands[v]}
    \cup (IF v \in DOMAIN Dao THEN NamesIn(Dao[v].holds \cup Dao[v].absent) ELSE {})

Binding(v) == [n \in NamesOf(v) \cap DOMAIN book |-> book[n]]

(* constructProposal, and simulateTimelockProposal likewise: a name that is    *)
(* not in the registry becomes the empty string, which is no address, and a    *)
(* contract of unknown artifact has no methods to encode a call of.            *)
Encodable(names, v) ==
    \A i \in DOMAIN Commands[v] :
        /\ {Commands[v][i].to} \cup Range(Commands[v][i].names) \subseteq DOMAIN names
        /\ Commands[v][i].to \in DOMAIN Registry => Commands[v][i].to \in AllContracts

CallsOf(names, commands) ==
    [i \in DOMAIN commands |->
        Call(names[commands[i].to], commands[i].do,
             [j \in DOMAIN commands[i].names |-> names[commands[i].names[j]]]
             \o commands[i].literals)]

(* getTimelockCalldata: in its timelock, the operation's id is the hash of its *)
(* calls and a salt that comes from the description of the first of them.      *)
Operation(names, v) ==
    [timelock |-> names[scene.timelock], proposal |-> v, calls |-> CallsOf(names, Commands[v])]

Status(op) == IF op \in DOMAIN queue THEN queue[op] ELSE "unset"

(* simulateTimelockProposal, on a fork of the chain: schedules unless that was *)
(* done, and executes unless that was done.                                    *)
Simulated(c, names, v) ==
    IF scene.timelock \notin DOMAIN book \/ ~Encodable(names, v) THEN {}
    ELSE LET op == Operation(names, v)
         IN  IF Status(op) = "done" THEN {c}
             ELSE IF /\ HasRole(c, Timelock, "EXECUTOR", Multisig)
                     /\ Status(op) = "unset" => HasRole(c, Timelock, "PROPOSER", Multisig)
                  THEN Batch(c, Timelock, op.calls)
                  ELSE {}

(* deploy of a proposal, as run by migrations.ts or by a review on a fork. *)
DeployedBy(v) == [n \in Dao[v].deploys |-> <<n, migrations[v] + 1>>]

Deployable(v) == NamesIn(Dao[v].constructs) \subseteq DOMAIN book \cup Dao[v].deploys

ChainWith(v) == chain \cup Facts(DeployedBy(v) @@ book, Dao[v].constructs)

Validated(c, names, v) ==
    /\ NamesIn(Dao[v].holds \cup Dao[v].absent) \subseteq DOMAIN names
    /\ Facts(names, Dao[v].holds) \subseteq c
    /\ Facts(names, Dao[v].absent) \cap c = {}

(* checkProposal: deploys, sets up, simulates and validates. *)
Passes(v, doDeploy, doSetup) ==
    LET names == IF doDeploy THEN DeployedBy(v) @@ book ELSE book
        forked == IF doDeploy THEN ChainWith(v) ELSE chain
        ready == IF doSetup
                 THEN Batch(forked, Multisig, CallsOf(names, Dao[v].setup))
                 ELSE {forked}
    IN  /\ v \in DOMAIN Dao
        /\ doDeploy => Deployable(v)
        /\ \E c \in ready : \E d \in Simulated(c, names, v) : Validated(d, names, v)

-------------------------------------------------------------------------------
(* migrations.ts deploys for real. The contracts are then entered in the       *)
(* registry under the names deploy returns, and under the ones that commands   *)
(* or the registry use instead if somebody notices the difference.             *)
Migrate(v) ==
    /\ v \in DOMAIN Dao /\ Dao[v].deploys # {}
    /\ migrations[v] < MaxMigrations
    /\ Deployable(v)
    /\ chain' = ChainWith(v)
    /\ \E noticed \in {{}, DOMAIN Dao[v].known} :
          book' = DeployedBy(v) @@ [n \in noticed |-> DeployedBy(v)[Dao[v].known[n]]] @@ book
    /\ migrations' = [migrations EXCEPT ![v] = @ + 1]
    /\ UNCHANGED <<scene, queue, vouched>>

(* What setup does on a fork, the multisig has to do on the chain. *)
SetUp(v) ==
    /\ v \in DOMAIN Dao /\ Dao[v].setup # <<>>
    /\ chain' \in Batch(chain, Multisig, CallsOf(book, Dao[v].setup))
    /\ chain' # chain
    /\ UNCHANGED <<scene, book, migrations, queue, vouched>>

(* A review that passes vouches for an operation, given the setup; with        *)
(* DO_DEPLOY it passed contracts that are gone with the fork.                  *)
Review(v) ==
    /\ v \in DOMAIN Dao
    /\ \E doDeploy, doSetup \in BOOLEAN :
        /\ doDeploy => Dao[v].deploys # {}
        /\ doSetup => Dao[v].setup # <<>>
        /\ Passes(v, doDeploy, doSetup)
        /\ vouched' = IF doDeploy THEN vouched
                      ELSE vouched \cup {[proposal |-> v, names |-> Binding(v), setup |-> doSetup]}
        /\ UNCHANGED <<scene, chain, book, migrations, queue>>

(* The multisig sends the calldata constructProposalCalldata prints: the       *)
(* timelock's delay is long over when it is executed, and how long is left     *)
(* open.                                                                       *)
Schedule(v) ==
    /\ scene.timelock \in DOMAIN book
    /\ Encodable(book, v)
    /\ Status(Operation(book, v)) = "unset"
    /\ HasRole(chain, Timelock, "PROPOSER", Multisig)
    /\ queue' = (Operation(book, v) :> "pending") @@ queue
    /\ UNCHANGED <<scene, chain, book, migrations, vouched>>

Pending == {op \in DOMAIN queue : queue[op] = "pending"}

Cancel(op) ==
    /\ HasRole(chain, op.timelock, "CANCELLER", Multisig)
    /\ queue' = [o \in DOMAIN queue \ {op} |-> queue[o]]
    /\ UNCHANGED <<scene, chain, book, migrations, vouched>>

(* executeBatch: every call, or none and the operation stays pending. *)
Execute(op) ==
    /\ HasRole(chain, op.timelock, "EXECUTOR", Multisig)
    /\ chain' \in Batch(chain, op.timelock, op.calls)
    /\ queue' = [queue EXCEPT ![op] = "done"]
    /\ UNCHANGED <<scene, book, migrations, vouched>>

(* Before the first proposal the multisig makes the timelock a governor, and   *)
(* at any time it may pause or unpause a deposit.                              *)
MultisigCall(c) ==
    /\ chain' \in Outcome(chain, Multisig, c)
    /\ chain' # chain
    /\ UNCHANGED <<scene, book, migrations, queue, vouched>>

AdmitTimelock ==
    /\ {scene.timelock, scene.core} \subseteq DOMAIN book
    /\ HasRole(chain, Timelock, "PROPOSER", Multisig)
    /\ MultisigCall(Call(book[scene.core], "grantGovernor", <<Timelock>>))

ToggleDeposit ==
    \E d \in scene.pausable \cap DOMAIN book, do \in {"pause", "unpause"} :
        MultisigCall(Call(book[d], do, <<>>))

GovernanceNext ==
    \/ \E v \in scene.agenda : Migrate(v) \/ SetUp(v) \/ Review(v) \/ Schedule(v)
    \/ \E op \in Pending : Cancel(op) \/ Execute(op)
    \/ AdmitTimelock \/ ToggleDeposit

-------------------------------------------------------------------------------
(* Proposals that are meant to undo part of an earlier one; only the later one *)
(* of such a pair is to be executed last.                                      *)
Supersedes ==
    {<<"vip_14", "vip_10">>, <<"vip_14", "vip_12">>,
     <<"vip_6_arbitrum", "vip_2_arbitrum">>, <<"vip_11_arbitrum", "vip_2_arbitrum">>,
     <<"vip_14_arbitrum", "vip_2_arbitrum">>, <<"vip_14_arbitrum", "vip_11_arbitrum">>}

Executed == {op \in DOMAIN queue : queue[op] = "done"}

(* Whether setup was done on the chain a review did it for on its fork. *)
StandsReady(r) ==
    r.setup => Batch(chain, Multisig, CallsOf(r.names, Dao[r.proposal].setup)) = {chain}

(* What passed a review goes through when it is executed, however much later   *)
(* and whatever other proposals, deployments and edits of the registry come in *)
(* between: executeBatch reverts as a whole if one of its calls does. Left out *)
(* is what cannot be done twice, namely another version of the same proposal,  *)
(* and pausing what the multisig has paused by then.                           *)
ReviewedStaysExecutable ==
    \A r \in vouched :
        LET op == Operation(r.names, r.proposal)
        IN  \/ \E o \in Executed : o.proposal = r.proposal
            \/ \E i \in DOMAIN op.calls :
                  op.calls[i].do = "pause" /\ <<"paused", op.calls[i].to, "all">> \in chain
            \/ Batch(chain, op.timelock, op.calls) # {}

(* And it does what its validation looks for: no other proposal spoils it in   *)
(* the meantime, except one that is meant to.                                  *)
ReviewedMeansValidated ==
    [][\A op \in Pending, r \in vouched :
          /\ op \in DOMAIN queue' /\ queue'[op] = "done"
          /\ op = Operation(r.names, r.proposal)
          /\ StandsReady(r)
          /\ \A o \in Executed : <<o.proposal, op.proposal>> \notin Supersedes
          => Validated(chain', r.names, op.proposal)]_<<chain, queue>>

(* The multisig may execute what is scheduled in any order, as nothing in the  *)
(* timelock orders operations (their predecessor is always zero): two of them  *)
(* leave the same chain in both orders unless one is meant to undo the other.  *)
OrderMattersOnlyWhereIntended ==
    \A o, p \in Pending :
        \/ o.proposal = p.proposal
        \/ {<<o.proposal, p.proposal>>, <<p.proposal, o.proposal>>} \cap Supersedes # {}
        \/ o.timelock # p.timelock
        \/ Batch(chain, o.timelock, o.calls \o p.calls)
             = Batch(chain, o.timelock, p.calls \o o.calls)
===============================================================================
