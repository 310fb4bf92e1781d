--------------------------- MODULE DeploymentScripts --------------------------
(* The scripts that deploy, configure and validate the system, run one at a    *)
(* time by a deployer. Most of their transactions are sent without waiting for *)
(* them to be mined, a script may stop between any two steps, and it may be    *)
(* run again.                                                                  *)
EXTENDS ChainAndRegistry, Naturals, FiniteSets, TLC

CONSTANT MaxRuns   \* how often each script that changes the chain is run

ASSUME MaxRunsAssumption == MaxRuns \in Nat \ {0}

VARIABLES
    pending,   \* transactions of the deployer that are not mined, in the order of their nonces
    script,    \* the script that runs or ran last: its name, step and the contracts it made
    runs,      \* how often each script that changes the chain was started
    printed,   \* what the last deployment that went through printed: name |-> address
    handled    \* history: the core and the pass-through of each run of l2configuration

scriptVars == <<pending, script, runs, printed, handled>>

(* Steps of a script. Facts and calls hold names: of contracts the script has  *)
(* made or of the registry; what is neither is a literal.                      *)
Deploy(name, facts) == [kind |-> "deploy", name |-> name, facts |-> facts]
SendAmount(to, do, args, amount) ==
    [kind |-> "send", to |-> to, do |-> do, args |-> args, amount |-> amount]
Send(to, do, args) == SendAmount(to, do, args, <<>>)
Wait == [kind |-> "wait"]
Expect(holds, absent, counts) ==
    [kind |-> "expect", holds |-> holds, absent |-> absent, counts |-> counts]

-------------------------------------------------------------------------------
(* scripts/l2deploy.ts *)

L2PSM(name, token) ==
    Deploy(name,
        {<<"core", name, "arbitrumCore">>, <<"oracle", name, "arbitrumOraclePassThrough">>,
         <<"token", name, token>>, <<"mintFee", name, "50">>, <<"redeemFee", name, "5">>,
         <<"surplusTarget", name, "addressOne">>})

TimelockRoles(timelock, proposers, executors) ==
    {<<"role", timelock, role, who>> : role \in {"PROPOSER", "CANCELLER"}, who \in proposers}
    \cup {<<"role", timelock, "EXECUTOR", who>> : who \in executors}
    \cup {<<"role", timelock, "TIMELOCK_ADMIN", who>> : who \in {timelock, "deployer"}}

L2Deploy ==
    <<Deploy("arbitrumCore", {<<"role", "arbitrumCore", "GOVERN", "arbitrumCore">>,
                              <<"role", "arbitrumCore", "GOVERN", "deployer">>}),
      Deploy("arbitrumScalingPriceOracle", {}),
      Deploy("arbitrumOraclePassThrough",
             {<<"source", "arbitrumOraclePassThrough", "arbitrumScalingPriceOracle">>,
              <<"owner", "arbitrumOraclePassThrough", "deployer">>}),
      L2PSM("arbitrumDAIPSM", "arbitrumDai"),
      L2PSM("arbitrumUSDCPSM", "arbitrumUsdc"),
      Deploy("arbitrumPCVGuardian",
             {<<"core", "arbitrumPCVGuardian", "arbitrumCore">>,
              <<"safe", "arbitrumPCVGuardian", "arbitrumProtocolMultisig">>,
              <<"listed", "arbitrumPCVGuardian", "arbitrumDAIPSM">>,
              <<"listed", "arbitrumPCVGuardian", "arbitrumUSDCPSM">>}),
      Deploy("arbitrumPCVGuardAdmin", {<<"core", "arbitrumPCVGuardAdmin", "arbitrumCore">>}),
      Deploy("arbitrumOptimisticTimelock",
             {<<"core", "arbitrumOptimisticTimelock", "arbitrumCore">>} \cup
             TimelockRoles("arbitrumOptimisticTimelock",
                           {"arbitrumProtocolMultisig", "pcvGuardEOA1", "pcvGuardEOA2"},
                           {"arbitrumProtocolMultisig"}))>>

(* Faulty: the deployer resigns before the successors are appointed. *)
L2Configuration_RevokesFirst ==
    <<Send("arbitrumOraclePassThrough", "transferOwnership", <<"arbitrumProtocolMultisig">>),
      Send("arbitrumCore", "grantPCVController", <<"arbitrumPCVGuardian">>),
      Send("arbitrumCore", "grantGuardian", <<"arbitrumPCVGuardian">>),
      Send("arbitrumCore", "createRole", <<"PCV_GUARD_ADMIN", "GOVERN">>),
      Send("arbitrumCore", "grantRole", <<"PCV_GUARD_ADMIN", "arbitrumPCVGuardAdmin">>),
      Send("arbitrumCore", "createRole", <<"PCV_GUARD", "PCV_GUARD_ADMIN">>),
      Send("arbitrumPCVGuardAdmin", "grantPCVGuardRole", <<"pcvGuardEOA1">>),
      Send("arbitrumPCVGuardAdmin", "grantPCVGuardRole", <<"pcvGuardEOA2">>),
      Send("arbitrumCore", "revokeGovernor", <<"deployer">>),
      Send("arbitrumCore", "grantGovernor", <<"arbitrumProtocolMultisig">>),
      Send("arbitrumCore", "grantPCVController", <<"arbitrumProtocolMultisig">>),
      Send("arbitrumCore", "grantGovernor", <<"arbitrumOptimisticTimelock">>),
      Send("arbitrumCore", "grantPCVController", <<"arbitrumOptimisticTimelock">>)>>

(* Faulty: the pass-through is handed over after everything that can fail. *)
L2Configuration_OwnershipLast ==
    <<Send("arbitrumCore", "grantPCVController", <<"arbitrumPCVGuardian">>),
      Send("arbitrumCore", "grantGuardian", <<"arbitrumPCVGuardian">>),
      Send("arbitrumCore", "createRole", <<"PCV_GUARD_ADMIN", "GOVERN">>),
      Send("arbitrumCore", "grantRole", <<"PCV_GUARD_ADMIN", "arbitrumPCVGuardAdmin">>),
      Send("arbitrumCore", "createRole", <<"PCV_GUARD", "PCV_GUARD_ADMIN">>),
      Send("arbitrumPCVGuardAdmin", "grantPCVGuardRole", <<"pcvGuardEOA1">>),
      Send("arbitrumPCVGuardAdmin", "grantPCVGuardRole", <<"pcvGuardEOA2">>),
      Send("arbitrumCore", "grantGovernor", <<"arbitrumProtocolMultisig">>),
      Send("arbitrumCore", "grantPCVController", <<"arbitrumProtocolMultisig">>),
      Send("arbitrumCore", "grantGovernor", <<"arbitrumOptimisticTimelock">>),
      Send("arbitrumCore", "grantPCVController", <<"arbitrumOptimisticTimelock">>),
      Send("arbitrumCore", "revokeGovernor", <<"deployer">>),
      Send("arbitrumOraclePassThrough", "transferOwnership", <<"arbitrumProtocolMultisig">>)>>

(* scripts/l2configuration.ts *)
L2Configuration ==
    <<Send("arbitrumOraclePassThrough", "transferOwnership", <<"arbitrumProtocolMultisig">>),
      Send("arbitrumCore", "grantPCVController", <<"arbitrumPCVGuardian">>),
      Send("arbitrumCore", "grantGuardian", <<"arbitrumPCVGuardian">>),
      Send("arbitrumCore", "createRole", <<"PCV_GUARD_ADMIN", "GOVERN">>),
      Send("arbitrumCore", "grantRole", <<"PCV_GUARD_ADMIN", "arbitrumPCVGuardAdmin">>),
      Send("arbitrumCore", "createRole", <<"PCV_GUARD", "PCV_GUARD_ADMIN">>),
      Send("arbitrumPCVGuardAdmin", "grantPCVGuardRole", <<"pcvGuardEOA1">>),
      Send("arbitrumPCVGuardAdmin", "grantPCVGuardRole", <<"pcvGuardEOA2">>),
      Send("arbitrumCore", "grantGovernor", <<"arbitrumProtocolMultisig">>),
      Send("arbitrumCore", "grantPCVController", <<"arbitrumProtocolMultisig">>),
      Send("arbitrumCore", "grantGovernor", <<"arbitrumOptimisticTimelock">>),
      Send("arbitrumCore", "grantPCVController", <<"arbitrumOptimisticTimelock">>),
      Send("arbitrumCore", "revokeGovernor", <<"deployer">>)>>

(* scripts/l2validation.ts, to the line where it always stops: it expects the  *)
(* surplus target of an earlier plan.                                          *)
L2Validation ==
    LET role(r, who) == <<"role", "arbitrumCore", r, who>>
        timelock(r, who) == <<"role", "arbitrumOptimisticTimelock", r, who>>
    IN  <<Expect({}, {}, {<<"arbitrumCore", "GOVERN", 3>>, <<"arbitrumCore", "MINTER", 0>>,
                          <<"arbitrumCore", "PCV_CONTROLLER", 3>>}),
          Expect({role("GOVERN", "arbitrumProtocolMultisig"),
                  role("GOVERN", "arbitrumOptimisticTimelock"), role("GOVERN", "arbitrumCore"),
                  role("PCV_CONTROLLER", "arbitrumProtocolMultisig"),
                  role("PCV_CONTROLLER", "arbitrumPCVGuardian"),
                  role("PCV_CONTROLLER", "arbitrumOptimisticTimelock"),
                  role("GUARDIAN", "arbitrumPCVGuardian")},
                 {role(r, "deployer") : r \in {"GOVERN", "PCV_CONTROLLER", "MINTER"}}, {}),
          Expect({role("PCV_GUARD", "pcvGuardEOA1"), role("PCV_GUARD", "pcvGuardEOA2"),
                  role("PCV_GUARD_ADMIN", "arbitrumPCVGuardAdmin"),
                  <<"admin", "arbitrumCore", "PCV_GUARD_ADMIN", "GOVERN">>,
                  <<"admin", "arbitrumCore", "PCV_GUARD", "PCV_GUARD_ADMIN">>}, {}, {}),
          Expect({<<"core", "arbitrumPCVGuardAdmin", "arbitrumCore">>,
                  <<"core", "arbitrumPCVGuardian", "arbitrumCore">>,
                  <<"listed", "arbitrumPCVGuardian", "arbitrumDAIPSM">>,
                  <<"listed", "arbitrumPCVGuardian", "arbitrumUSDCPSM">>,
                  <<"safe", "arbitrumPCVGuardian", "arbitrumProtocolMultisig">>}, {}, {}),
          Expect({<<"core", "arbitrumOptimisticTimelock", "arbitrumCore">>,
                  timelock("EXECUTOR", "arbitrumProtocolMultisig")} \cup
                 {timelock(r, who) :
                  r \in {"PROPOSER", "CANCELLER"},
                  who \in {"pcvGuardEOA1", "pcvGuardEOA2", "arbitrumProtocolMultisig"}},
                 {timelock("EXECUTOR", "pcvGuardEOA1"), timelock("EXECUTOR", "pcvGuardEOA2")},
                 {}),
          Expect({<<"core", "arbitrumDAIPSM", "arbitrumCore">>,
                  <<"oracle", "arbitrumDAIPSM", "arbitrumOraclePassThrough">>,
                  <<"token", "arbitrumDAIPSM", "arbitrumDai">>,
                  <<"redeemFee", "arbitrumDAIPSM", "5">>, <<"mintFee", "arbitrumDAIPSM", "50">>},
                 {}, {}),
          Expect({<<"surplusTarget", "arbitrumDAIPSM", "VOLT_FUSE_PCV_DEPOSIT">>}, {}, {})>>

-------------------------------------------------------------------------------
(* scripts/grlmNCPSMDeploy.ts, which replaces the minter and the PSM. The VOLT  *)
(* in the old PSM, which the script does not touch, is left out.               *)

(* Faulty: nobody counts who else has the roles. *)
Verification_NoCounts ==
    Expect({<<"balance", "nonCustodialPSM", 10>>,
            <<"role", "core", "MINTER", "newGlobalRateLimitedMinter">>,
            <<"role", "core", "PCV_CONTROLLER", "nonCustodialPSM">>,
            <<"paused", "nonCustodialPSM", "all">>,
            <<"buffer", "newGlobalRateLimitedMinter", "deployer", 10>>},
           {<<"role", "core", "MINTER", "globalRateLimitedMinter">>,
            <<"role", "core", "PCV_CONTROLLER", "oldNonCustodialPSM">>},
           {})

Verification ==
    Expect({<<"balance", "nonCustodialPSM", 10>>,
            <<"role", "core", "MINTER", "newGlobalRateLimitedMinter">>,
            <<"role", "core", "PCV_CONTROLLER", "nonCustodialPSM">>,
            <<"paused", "nonCustodialPSM", "all">>,
            <<"buffer", "newGlobalRateLimitedMinter", "deployer", 10>>},
           {<<"role", "core", "MINTER", "globalRateLimitedMinter">>,
            <<"role", "core", "PCV_CONTROLLER", "oldNonCustodialPSM">>},
           {<<"core", "GOVERN", 2>>, <<"core", "MINTER", 1>>, <<"core", "PCV_CONTROLLER", 1>>})

MinterReplacement ==
    <<Deploy("newGlobalRateLimitedMinter", {<<"core", "newGlobalRateLimitedMinter", "core">>}),
      Deploy("nonCustodialPSM", {<<"core", "nonCustodialPSM", "core">>}),
      Send("nonCustodialPSM", "pause", <<>>),
      Send("core", "revokeMinter", <<"globalRateLimitedMinter">>),
      Send("core", "revokePCVController", <<"oldNonCustodialPSM">>),
      Send("core", "grantPCVController", <<"nonCustodialPSM">>),
      Send("core", "grantMinter", <<"newGlobalRateLimitedMinter">>),
      SendAmount("newGlobalRateLimitedMinter", "addAddress", <<"deployer">>, <<20>>),
      SendAmount("newGlobalRateLimitedMinter", "mintVolt", <<"nonCustodialPSM">>, <<10>>),
      Verification>>

-------------------------------------------------------------------------------
(* scripts/timelockDeploy.ts, on mainnet *)

TimelockDeploy ==
    LET proposers == {"protocolMultisig", "pcvGuardEOA1", "pcvGuardEOA2", "pcvGuardEOA3"}
        executors == {"protocolMultisig"}
        admin(who) == <<"role", "timelockController", "TIMELOCK_ADMIN", who>>
    IN  <<Deploy("timelockController",
                 TimelockRoles("timelockController", proposers, executors)),
          Send("timelockController", "renounceRole", <<"TIMELOCK_ADMIN", "deployer">>),
          Wait,
          Expect(TimelockRoles("timelockController", proposers, executors)
                     \ {admin("deployer")},
                 {admin("deployer"), admin("protocolMultisig")}, {})>>

Program ==
    [l2deploy |-> L2Deploy, l2configuration |-> L2Configuration,
     l2validation |-> L2Validation, grlmNCPSMDeploy |-> MinterReplacement,
     timelockDeploy |-> TimelockDeploy]

-------------------------------------------------------------------------------
(* Running a script *)

NoScript == [name |-> "none", step |-> 0, made |-> <<>>]

Running == script.name # "none" /\ script.step <= Len(Program[script.name])

Step == Program[script.name][script.step]

(* What a script calls by name. *)
Names == script.made @@ ("deployer" :> Deployer) @@ book

CallOf(step) ==
    Call(Address(Names, step.to), step.do,
         [i \in DOMAIN step.args |-> Address(Names, step.args[i])] \o step.amount)

(* A mined transaction that reverts changes nothing. *)
MineOn(c, call) ==
    IF Outcome(c, Deployer, call) = {} THEN c ELSE CHOOSE k \in Outcome(c, Deployer, call) : TRUE

AfterPending == FoldLeft(MineOn, chain, pending)

(* A script that only looks is run as often as anybody likes. *)
OnlyLooks(name) == \A i \in DOMAIN Program[name] : Program[name][i].kind = "expect"

Start(name) ==
    /\ ~Running
    /\ OnlyLooks(name) \/ runs[name] < MaxRuns
    /\ script' = [name |-> name, step |-> 1, made |-> <<>>]
    /\ runs' = IF OnlyLooks(name) THEN runs ELSE [runs EXCEPT ![name] = @ + 1]
    /\ handled' = IF /\ name = "l2configuration"
                     /\ {"arbitrumCore", "arbitrumOraclePassThrough"} \subseteq DOMAIN book
                  THEN handled \cup {[core        |-> book["arbitrumCore"],
                                      passThrough |-> book["arbitrumOraclePassThrough"]]}
                  ELSE handled
    /\ UNCHANGED <<scene, chain, book, pending, printed>>

NextStep == script' = [script EXCEPT !.step = @ + 1]

(* What a script deploys; some print the addresses once all is deployed.       *)
Deployed(name) == {Program[name][i].name :
                   i \in {j \in DOMAIN Program[name] : Program[name][j].kind = "deploy"}}

Prints(name, made) ==
    name \in {"l2deploy", "timelockDeploy"} /\ DOMAIN made = Deployed(name)

(* A deployment is waited for, and with it whatever was sent before. *)
DeployStep ==
    /\ Running /\ Step.kind = "deploy"
    /\ pending = <<>>
    /\ LET made == (Step.name :> <<Step.name, runs[script.name]>>) @@ script.made
       IN  /\ script' = [script EXCEPT !.step = @ + 1, !.made = made]
           /\ chain' = chain \cup Facts(made @@ Names, Step.facts)
           /\ printed' = IF Prints(script.name, made) THEN made ELSE printed
    /\ UNCHANGED <<scene, book, pending, runs, handled>>

(* Before a transaction is sent its gas is estimated, by a node that may or    *)
(* may not count the transactions that are still pending.                      *)
SendStep ==
    /\ Running /\ Step.kind = "send"
    /\ Step.to \in DOMAIN Names
    /\ \E seen \in {chain, AfterPending} : Outcome(seen, Deployer, CallOf(Step)) # {}
    /\ pending' = Append(pending, CallOf(Step))
    /\ NextStep
    /\ UNCHANGED <<scene, chain, book, runs, printed, handled>>

WaitStep ==
    /\ Running /\ Step.kind = "wait"
    /\ pending = <<>>
    /\ NextStep
    /\ UNCHANGED <<scene, chain, book, pending, runs, printed, handled>>

Holders(core, role) == {f \in chain : IsPrefix(<<"role", core, role>>, f)}

Expected(step) ==
    /\ \A f \in step.holds \cup step.absent : f[2] \in DOMAIN Names
    /\ Facts(Names, step.holds) \subseteq chain
    /\ Facts(Names, step.absent) \cap chain = {}
    /\ \A n \in step.counts :
          /\ n[1] \in DOMAIN Names
          /\ Cardinality(Holders(Names[n[1]], n[2])) = n[3]

ExpectStep ==
    /\ Running /\ Step.kind = "expect"
    /\ Expected(Step)
    /\ NextStep
    /\ UNCHANGED <<scene, chain, book, pending, runs, printed, handled>>

(* The script throws, or is killed; what it sent remains. *)
Stop ==
    /\ Running
    /\ script' = NoScript
    /\ UNCHANGED <<scene, chain, book, pending, runs, printed, handled>>

Mine ==
    /\ pending # <<>>
    /\ chain' = MineOn(chain, Head(pending))
    /\ pending' = Tail(pending)
    /\ UNCHANGED <<scene, book, script, runs, printed, handled>>

(* A node that restarts may forget transactions, the last ones first. *)
Drop ==
    /\ ~Running /\ pending # <<>>
    /\ pending' = Front(pending)
    /\ UNCHANGED <<scene, chain, book, script, runs, printed, handled>>

(* The registry is edited by hand from what the last deployment has printed,   *)
(* at any time and in any number of edits; each may overlook a name that has   *)
(* an entry, which a later one corrects. A script that runs has loaded the     *)
(* registry when it started, so that an edit meanwhile is one after it.        *)
Register ==
    /\ ~Running
    /\ \E overlooked \in {{}} \cup {{n} : n \in DOMAIN printed \cap DOMAIN book} :
          LET entries == [n \in DOMAIN printed \ overlooked |-> printed[n]]
          IN  /\ book' = entries @@ book
              /\ book' # book
    /\ UNCHANGED <<scene, chain, scriptVars>>

ScriptNext ==
    \/ \E name \in scene.scripts : Start(name)
    \/ DeployStep \/ SendStep \/ WaitStep \/ ExpectStep \/ Stop
    \/ Mine \/ Drop \/ Register

-------------------------------------------------------------------------------
(* Where a script stands: at its last step, or past it. *)
AtLastStep(name) == script.name = name /\ script.step = Len(Program[name])
Ended(name) == script.name = name /\ script.step > Len(Program[name])

(* Somebody with keys governs every core at all times: the deployer, or a      *)
(* multisig, the timelocks being governed by it. Core is its own governor from *)
(* its constructor on, which counts for nothing as nobody can make it call     *)
(* itself. Scripts grant and revoke this role by transactions that may be      *)
(* mined late, fail on their own or be lost.                                   *)
AlwaysGoverned ==
    \A core \in {f[2] : f \in {g \in chain : g[1] = "role" /\ g[3] = "GOVERN"}} :
        \E who \in {Deployer, book[scene.multisig]} : HasRole(chain, core, "GOVERN", who)

(* When l2validation gets as far as it ever gets, the contracts of the         *)
(* registry belong together, their core has no role left for the deployer, who *)
(* is still admin of the timelock and nothing else there, and the pass-through *)
(* is the multisig's if configuration was run for this core with the           *)
(* pass-through of the registry. No transaction still on its way will change   *)
(* that: although configuration waits for none of its transactions, may have   *)
(* been broken off and run again, the registry may mix two deployments and be  *)
(* corrected at any time, and validation never gets to the owner of the        *)
(* pass-through or to the second PSM.                                          *)
ValidatedMeansConfigured ==
    AtLastStep("l2validation") =>
        LET core == book["arbitrumCore"]
            timelock == book["arbitrumOptimisticTimelock"]
            passThrough == book["arbitrumOraclePassThrough"]
            psms == {book["arbitrumDAIPSM"], book["arbitrumUSDCPSM"]}
            members == psms \cup {timelock, book["arbitrumPCVGuardian"],
                                  book["arbitrumPCVGuardAdmin"]}
        IN  \A c \in {chain, AfterPending} :
              /\ \A m \in members : <<"core", m, core>> \in c
              /\ \A psm \in psms : <<"oracle", psm, passThrough>> \in c
              /\ {f \in c : f[1] = "role" /\ f[2] \in {core, timelock} /\ f[4] = Deployer}
                    = {<<"role", timelock, "TIMELOCK_ADMIN", Deployer>>}
              /\ (\A h \in handled : h.core = core => h.passThrough = passThrough)
                    => <<"owner", passThrough, book["arbitrumProtocolMultisig"]>> \in c

(* When the minter's replacement has been verified, Volt is minted by the new  *)
(* minter alone and no more than the deployer's buffer there, also after what  *)
(* a broken-off run has left behind: contracts with roles, and transactions on *)
(* their way.                                                                  *)
VerifiedLeavesOneMinter ==
    Ended("grlmNCPSMDeploy") =>
        \A c \in {chain, AfterPending} :
            LET minters == {f[4] : f \in {g \in c : g[1] = "role" /\ g[3] = "MINTER"}}
            IN  /\ minters = {script.made["newGlobalRateLimitedMinter"]}
                /\ {<<f[3], f[4]>> : f \in {g \in c : g[1] = "buffer" /\ g[2] \in minters}}
                      = {<<Deployer, 10>>}
===============================================================================
