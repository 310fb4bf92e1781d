------------------------------ MODULE Operations ------------------------------
(* Deployment scripts and governance on the chains they have worked on: each   *)
(* scene is a stage in the history of the system, with what is deployed then,  *)
(* the scripts run and the proposals made. The registry of a scene is today's  *)
(* without what the scene is about to deploy, together with names that         *)
(* proposals of the time use and today's no longer lists.                      *)
EXTENDS DeploymentScripts, Governance, FiniteSetsExt

CONSTANT MaxAgenda   \* how many of the Arbitrum proposals are made in one behaviour

ASSUME MaxAgendaAssumption == MaxAgenda \in 1..5

(* What a network is run by. *)
Mainnet == [timelock |-> "timelockController", multisig |-> "protocolMultisig", core |-> "core"]
Arbitrum == [timelock |-> "arbitrumTimelockController",
             multisig |-> "arbitrumProtocolMultisig", core |-> "arbitrumCore"]

(* Registries: every contract that exists at the beginning is of generation 0. *)
Registered(names) == [n \in names |-> <<n, 0>>]

DeploysOf(agenda) == UNION {Dao[v].deploys : v \in agenda \cap DOMAIN Dao}

At(facts) ==
    Facts(Registered(UNION {Range(Tail(f)) : f \in facts} \ (Literals \cup
              {"PCV_GUARD", "PCV_GUARD_ADMIN", "PROPOSER", "CANCELLER", "EXECUTOR",
               "TIMELOCK_ADMIN", "50", "addressOne"})), facts)

-------------------------------------------------------------------------------
(* Mainnet *)

PSMs == [feiPriceBoundPSM |-> "fei", usdcPriceBoundPSM |-> "usdc", daiPriceBoundPSM |-> "dai"]

MainnetPSMs(psms, passThrough) ==
    UNION {{<<"core", p, "core">>, <<"token", p, PSMs[p]>>, <<"oracle", p, passThrough>>,
            <<"mintFee", p, "50">>, <<"redeemFee", p, "0">>} : p \in psms}

(* Core with the contracts that guard it, before the roles were cleaned up. *)
MainnetRoles ==
    {<<"role", "core", role[1], role[2]>> : role \in
        {"GOVERN"} \X {"core", "protocolMultisig"} \cup
        {"GUARDIAN"} \X {"pcvGuardian", "pcvGuardEOA1", "protocolMultisig"} \cup
        {"PCV_CONTROLLER"} \X {"pcvGuardian", "protocolMultisig", "nonCustodialFusePSM"} \cup
        {"MINTER"} \X {"globalRateLimitedMinter"} \cup
        {"PCV_GUARD"} \X {"pcvGuardRevoked1"} \cup
        {"PCV_GUARD_ADMIN"} \X {"pcvGuardAdmin"}}
    \cup {<<"admin", "core", "PCV_GUARD_ADMIN", "GOVERN">>,
          <<"admin", "core", "PCV_GUARD", "PCV_GUARD_ADMIN">>,
          <<"core", "pcvGuardAdmin", "core">>, <<"core", "pcvGuardian", "core">>,
          <<"safe", "pcvGuardian", "protocolMultisig">>}

EarlyFacts ==
    MainnetRoles \cup MainnetPSMs({"feiPriceBoundPSM", "usdcPriceBoundPSM"}, "oraclePassThrough")
    \cup {<<"paused", "usdcPriceBoundPSM", "redeem">>}

MultisigTimelock ==
    TimelockRoles("timelockController", {"protocolMultisig"}, {"protocolMultisig"})
        \ {<<"role", "timelockController", "TIMELOCK_ADMIN", "deployer">>}

(* timelockDeploy.ts deploys the timelock that is to run the first proposals.  *)
NewTimelock ==
    LET agenda == {"vip_1"}
    IN  Mainnet @@
        [agendas |-> {agenda}, scripts |-> {"timelockDeploy"}, pausable |-> {},
         registry |-> Registered((AllContractAddresses \cup {"nonCustodialFusePSM"})
                                 \ (DeploysOf(agenda) \cup {"timelockController"})),
         facts |-> At(EarlyFacts)]

(* The system oracle, the cleaning up of roles, and the DAI PSM. *)
EarlyMainnet ==
    LET agenda == {"vip_1", "vip_2", "vip_4", "vip_7"}
    IN  Mainnet @@
        [agendas |-> {agenda}, scripts |-> {}, pausable |-> {},
         registry |-> Registered((AllContractAddresses \cup {"nonCustodialFusePSM"})
                                 \ DeploysOf(agenda)),
         facts |-> At(EarlyFacts \cup MultisigTimelock)]

(* Compound and Morpho deposits, their routers, the allocator and a new rate. *)
LaterMainnet ==
    LET agenda == {"vip_9", "vip_10", "vip_11", "vip_12", "vip_14"}
    IN  Mainnet @@
        [agendas |-> {agenda}, scripts |-> {},
         pausable |-> {"daiCompoundPCVDeposit"},
         registry |-> Registered(AllContractAddresses \ DeploysOf(agenda)),
         facts |-> At(MainnetRoles \cup MainnetPSMs(DOMAIN PSMs, "oraclePassThrough") \cup
                      MultisigTimelock \cup
                      {<<"role", "core", "GOVERN", "timelockController">>,
                       <<"source", "oraclePassThrough", "voltSystemOracle">>,
                       <<"owner", "oraclePassThrough", "timelockController">>})]

(* The replacement of the first minter by grlmNCPSMDeploy.ts. *)
NewMinter ==
    Mainnet @@
    [agendas |-> {{}}, scripts |-> {"grlmNCPSMDeploy"}, pausable |-> {},
     registry |-> Registered(AllContractAddresses \cup {"oldNonCustodialPSM"}),
     facts |-> At({<<"role", "core", role[1], role[2]>> : role \in
                     {<<"GOVERN", "core">>, <<"GOVERN", "deployer">>,
                      <<"MINTER", "globalRateLimitedMinter">>,
                      <<"PCV_CONTROLLER", "oldNonCustodialPSM">>}})]

-------------------------------------------------------------------------------
(* Arbitrum *)

L2Names == {L2Deploy[i].name : i \in DOMAIN L2Deploy}

(* Deployment, configuration and validation of the system. *)
NewL2 ==
    Arbitrum @@
    [agendas |-> {{}}, scripts |-> {"l2deploy", "l2configuration", "l2validation"},
     pausable |-> {}, registry |-> Registered(AllContractAddresses \ L2Names), facts |-> {}]

(* What l2deploy.ts and l2configuration.ts leave. *)
L2Roles ==
    {<<"role", "arbitrumCore", role[1], role[2]>> : role \in
        {"GOVERN"} \X {"arbitrumCore", "arbitrumProtocolMultisig", "arbitrumOptimisticTimelock"}
        \cup {"PCV_CONTROLLER"} \X {"arbitrumPCVGuardian", "arbitrumProtocolMultisig",
                                    "arbitrumOptimisticTimelock"}
        \cup {<<"GUARDIAN", "arbitrumPCVGuardian">>,
              <<"PCV_GUARD_ADMIN", "arbitrumPCVGuardAdmin">>}
        \cup {"PCV_GUARD"} \X {"pcvGuardEOA1", "pcvGuardEOA2", "pcvGuardRevoked1"}}
    \cup {<<"admin", "arbitrumCore", "PCV_GUARD_ADMIN", "GOVERN">>,
          <<"admin", "arbitrumCore", "PCV_GUARD", "PCV_GUARD_ADMIN">>}

L2System ==
    At(L2Roles \cup
       {<<"owner", "arbitrumOraclePassThrough", "arbitrumProtocolMultisig">>} \cup
       UNION {L2Deploy[i].facts : i \in {j \in DOMAIN L2Deploy : L2Deploy[j].name \in
                {"arbitrumDAIPSM", "arbitrumUSDCPSM", "arbitrumPCVGuardian",
                 "arbitrumPCVGuardAdmin"}}})

L2Proposals ==
    LET agenda == {"vip_2_arbitrum", "vip_4_arbitrum", "vip_6_arbitrum",
                   "vip_11_arbitrum", "vip_14_arbitrum"}
    IN  Arbitrum @@
        [agendas |-> kSubset(MaxAgenda, agenda), scripts |-> {}, pausable |-> {},
         registry |-> Registered(AllContractAddresses
                                 \ {"arbitrumVoltSystemOracle0BasisPoints"}),
         facts |-> L2System \cup
                   At(TimelockRoles("arbitrumTimelockController",
                                    {"arbitrumProtocolMultisig"}, {"arbitrumProtocolMultisig"}))]

-------------------------------------------------------------------------------

opVars == <<scene, chain, book, scriptVars, govVars>>

Init ==
    \E s \in {NewTimelock, EarlyMainnet, LaterMainnet, NewMinter, NewL2, L2Proposals} :
        /\ \E agenda \in s.agendas :
              scene = [timelock |-> s.timelock, multisig |-> s.multisig, core |-> s.core,
                       agenda |-> agenda, scripts |-> s.scripts, pausable |-> s.pausable]
        /\ chain = s.facts
        /\ book = s.registry
        /\ pending = <<>>
        /\ script = NoScript
        /\ runs = [n \in scene.scripts |-> 0]
        /\ printed = <<>>
        /\ handled = {}
        /\ migrations = [v \in scene.agenda |-> 0]
        /\ queue = <<>>
        /\ vouched = {}

Next ==
    \/ ScriptNext /\ UNCHANGED govVars
    \/ GovernanceNext /\ UNCHANGED scriptVars

Spec == Init /\ [][Next]_opVars
===============================================================================
