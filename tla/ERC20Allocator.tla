--------------------------- MODULE ERC20Allocator ----------------------------
(***************************************************************************)
(* contracts/pcv/utils/ERC20Allocator.sol: anybody may move tokens between *)
(* a peg stability module and a PCV deposit linked to it, towards the      *)
(* module's target balance.  A drip (deposit to module) uses up a buffer   *)
(* shared by all tokens, a skim (module to deposit) gives it back.         *)
(*                                                                         *)
(* The contract inherits RateLimitedV2, whose module is instantiated over  *)
(* the same variables.  A module or deposit has a fixed token and, in that *)
(* token, a balance that also moves without the allocator.                 *)
(***************************************************************************)
EXTENDS Integers, EVMMath

CONSTANTS
    Accounts, Governors, Guardians,
    PSMs, Deposits, Tokens,
    ZeroAddress,
    TokenOf,                 \* balanceReportedIn() of a PSM or deposit
    NormalizerOf,            \* 18 minus the decimals of a token
    TargetBalances,          \* target balances governance may ask for
    InitialBalance,          \* [PSM or deposit -> balance]
    ExternalBalances,        \* balances that other transactions may lead to
    MAX_RATE_LIMIT_PER_SECOND, InitialRate, InitialCap, Rates, Caps,
    MaxTime,                 \* bound on the clock
    MaxFlows                 \* bound on the transactions of others

Holders == PSMs \cup Deposits

\* The absolute value of a decimals normalizer.
Magnitude(normalizer) == IF normalizer >= 0 THEN normalizer ELSE -normalizer

ASSUME ERC20AllocatorAssumption ==
    /\ Governors \subseteq Accounts /\ Guardians \subseteq Accounts
    /\ PSMs \cap Deposits = {}
    /\ ZeroAddress \notin Holders \cup Tokens
    /\ TokenOf \in [Holders -> Tokens]
    /\ NormalizerOf \in [Tokens -> Int]
    /\ TargetBalances \subseteq Nat
    /\ InitialBalance \in [Holders -> Nat]
    /\ ExternalBalances \subseteq Nat
    /\ MAX_RATE_LIMIT_PER_SECOND \in Nat
    /\ InitialRate \in 0..MAX_RATE_LIMIT_PER_SECOND
    /\ InitialCap \in Nat
    /\ Rates \subseteq Nat /\ Caps \subseteq Nat
    /\ MaxTime \in Nat /\ MaxFlows \in Nat

VARIABLES
    \* RateLimitedV2
    now, rateLimitPerSecond, bufferCap, lastBufferUsedTime, bufferStored,
    netUsed,
    \* ERC20Allocator
    allPSMs,                 \* [psm -> PSMInfo]
    pcvDepositToPSM,         \* [deposit -> psm or ZeroAddress]
    paused,
    \* the PSMs and deposits
    balance,
    depositPaused,           \* a paused deposit refuses deposit()
    flows,                   \* history: transactions of others so far
    netDripped               \* history: drips minus skims, in 18 decimals

limiterVars == <<now, rateLimitPerSecond, bufferCap, lastBufferUsedTime,
                 bufferStored, netUsed>>
linkVars    == <<allPSMs, pcvDepositToPSM, paused>>
moneyVars   == <<balance, depositPaused, flows, netDripped>>
vars        == <<limiterVars, linkVars, moneyVars>>

RL == INSTANCE RateLimitedV2 WITH Amounts <- {}, MaxReplenished <- 0

\* PSMInfo; a deleted entry is all zero.
PSMInfo == [token : Tokens \cup {ZeroAddress},
            targetBalance : Nat,
            decimalsNormalizer : Int]

NoPSM == [token |-> ZeroAddress, targetBalance |-> 0, decimalsNormalizer |-> 0]

TypeOK ==
    /\ RL!TypeOK
    /\ allPSMs \in [PSMs -> PSMInfo]
    /\ pcvDepositToPSM \in [Deposits -> PSMs \cup {ZeroAddress}]
    /\ paused \in BOOLEAN
    /\ balance \in [Holders -> Nat]
    /\ depositPaused \in [Deposits -> BOOLEAN]
    /\ flows \in 0..MaxFlows
    /\ netDripped \in Int

------------------------------------------------------------------------------
(* Views *)

\* getAdjustedAmount()
getAdjustedAmount(amount, normalizer) ==
    IF normalizer >= 0 THEN amount * Pow10[Magnitude(normalizer)]
                       ELSE amount \div Pow10[Magnitude(normalizer)]

\* Reading the balance of a PSM that is not connected calls the zero address
\* and reverts.
Connected(psm) == psm # ZeroAddress /\ allPSMs[psm].token # ZeroAddress

\* _checkDripCondition()
DripCondition(psm, deposit) ==
    /\ balance[psm] < allPSMs[psm].targetBalance
    /\ balance[deposit] # 0

\* _checkSkimCondition()
SkimCondition(psm) == balance[psm] > allPSMs[psm].targetBalance

\* amountToSkim of getSkimDetails()
AmountToSkim(psm) == balance[psm] - allPSMs[psm].targetBalance

\* Faulty variant: the target is forgotten.
AmountToDrip_WholeDeposit(psm, deposit) ==
    MathMin(balance[deposit],
            getAdjustedAmount(RL!Buffer, -allPSMs[psm].decimalsNormalizer))

\* Faulty variant: the buffer is not converted to the token's decimals.
AmountToDrip_RawBuffer(psm, deposit) ==
    MathMin(MathMin(allPSMs[psm].targetBalance - balance[psm],
                    balance[deposit]),
            RL!Buffer)

\* amountToDrip of getDripDetails(): no more than the target lacks, the
\* deposit has, and the buffer is worth in this token.
AmountToDrip(psm, deposit) ==
    MathMin(MathMin(allPSMs[psm].targetBalance - balance[psm],
                    balance[deposit]),
            getAdjustedAmount(RL!Buffer, -allPSMs[psm].decimalsNormalizer))

\* checkActionAllowed(), where it does not revert.
ActionAllowed(deposit) ==
    LET psm == pcvDepositToPSM[deposit]
    IN  /\ ~paused
        /\ Connected(psm)
        /\ \/ RL!Buffer # 0 /\ DripCondition(psm, deposit)
           \/ SkimCondition(psm)

------------------------------------------------------------------------------
(* Allocation, open to anybody *)

Transfer(from, to, amount) ==
    balance' = [[balance EXCEPT ![from] = @ - amount] EXCEPT ![to] = @ + amount]

\* An amount of a PSM's token in 18 decimals.
InVolt(psm, amount) == getAdjustedAmount(amount, NormalizerOf[TokenOf[psm]])

\* Faulty variant: the buffer pays in the token's decimals.
dripStep_RawAmount(psm, deposit) ==
    LET amount == AmountToDrip(psm, deposit)
    IN  /\ DripCondition(psm, deposit)
        /\ RL!depleteBuffer(amount)
        /\ Transfer(deposit, psm, amount)
        /\ netDripped' = netDripped + InVolt(psm, amount)
        /\ UNCHANGED <<linkVars, depositPaused, flows>>

\* _drip(): reverts on an empty buffer; the deposit pays the PSM.
dripStep(psm, deposit) ==
    LET amount == AmountToDrip(psm, deposit)
    IN  /\ DripCondition(psm, deposit)
        /\ RL!depleteBuffer(getAdjustedAmount(
                                amount, allPSMs[psm].decimalsNormalizer))
        /\ Transfer(deposit, psm, amount)
        /\ netDripped' = netDripped + InVolt(psm, amount)
        /\ UNCHANGED <<linkVars, depositPaused, flows>>

\* _skim(): the PSM pays the deposit, which then supplies it to its venue and
\* reverts the whole call if it is paused.
skimStep(psm, deposit) ==
    LET amount == AmountToSkim(psm)
    IN  /\ SkimCondition(psm)
        /\ RL!replenishBuffer(getAdjustedAmount(
                                  amount, allPSMs[psm].decimalsNormalizer))
        /\ Transfer(psm, deposit, amount)
        /\ ~depositPaused[deposit]
        /\ netDripped' = netDripped - InVolt(psm, amount)
        /\ UNCHANGED <<linkVars, depositPaused, flows>>

\* drip()
drip(deposit) ==
    /\ ~paused
    /\ Connected(pcvDepositToPSM[deposit])
    /\ dripStep(pcvDepositToPSM[deposit], deposit)

\* skim()
skim(deposit) ==
    /\ ~paused
    /\ Connected(pcvDepositToPSM[deposit])
    /\ skimStep(pcvDepositToPSM[deposit], deposit)

\* Faulty variant: the skim is forgotten.
doAction_OnlyDrips(deposit) ==
    LET psm == pcvDepositToPSM[deposit]
    IN  /\ ~paused
        /\ Connected(psm)
        /\ \/ DripCondition(psm, deposit) /\ dripStep(psm, deposit)
           \/ ~DripCondition(psm, deposit) /\ UNCHANGED vars

\* doAction(): a drip if it is due, else a skim if it is due, else nothing.
doAction(deposit) ==
    LET psm == pcvDepositToPSM[deposit]
    IN  /\ ~paused
        /\ Connected(psm)
        /\ \/ DripCondition(psm, deposit) /\ dripStep(psm, deposit)
           \/ ~DripCondition(psm, deposit) /\ skimStep(psm, deposit)
           \/ /\ ~DripCondition(psm, deposit) /\ ~SkimCondition(psm)
              /\ UNCHANGED vars

------------------------------------------------------------------------------
(* Governance *)

\* connectPSM(): the normalizer is the caller's word for the token's decimals.
connectPSM(caller, psm, target, normalizer) ==
    /\ caller \in Governors
    /\ allPSMs[psm].token = ZeroAddress
    /\ allPSMs' = [allPSMs EXCEPT ![psm] =
          [token |-> TokenOf[psm], targetBalance |-> target,
           decimalsNormalizer |-> normalizer]]
    /\ UNCHANGED <<limiterVars, moneyVars, pcvDepositToPSM, paused>>

\* editPSMTargetBalance(): the token of a PSM does not change.
editPSMTargetBalance(caller, psm, target) ==
    /\ caller \in Governors
    /\ allPSMs[psm].token # ZeroAddress
    /\ allPSMs[psm].token = TokenOf[psm]
    /\ allPSMs' = [allPSMs EXCEPT ![psm].targetBalance = target]
    /\ UNCHANGED <<limiterVars, moneyVars, pcvDepositToPSM, paused>>

\* disconnectPSM(): the links of its deposits stay.
disconnectPSM(caller, psm) ==
    /\ caller \in Governors
    /\ allPSMs' = [allPSMs EXCEPT ![psm] = NoPSM]
    /\ UNCHANGED <<limiterVars, moneyVars, pcvDepositToPSM, paused>>

\* Faulty variant: the tokens are not compared.
connectDeposit_AnyToken(caller, psm, deposit) ==
    /\ caller \in Governors
    /\ allPSMs[psm].token # ZeroAddress
    /\ pcvDepositToPSM' = [pcvDepositToPSM EXCEPT ![deposit] = psm]
    /\ UNCHANGED <<limiterVars, moneyVars, allPSMs, paused>>

\* connectDeposit()
connectDeposit(caller, psm, deposit) ==
    /\ caller \in Governors
    /\ TokenOf[deposit] = allPSMs[psm].token
    /\ allPSMs[psm].token # ZeroAddress
    /\ pcvDepositToPSM' = [pcvDepositToPSM EXCEPT ![deposit] = psm]
    /\ UNCHANGED <<limiterVars, moneyVars, allPSMs, paused>>

\* deleteDeposit()
deleteDeposit(caller, deposit) ==
    /\ caller \in Governors
    /\ pcvDepositToPSM' = [pcvDepositToPSM EXCEPT ![deposit] = ZeroAddress]
    /\ UNCHANGED <<limiterVars, moneyVars, allPSMs, paused>>

\* CoreRef's pause() and unpause() revert when it is already so.
setPaused(caller, value) ==
    /\ caller \in Governors \cup Guardians
    /\ paused # value
    /\ paused' = value
    /\ UNCHANGED <<limiterVars, moneyVars, allPSMs, pcvDepositToPSM>>

LimiterCall ==
    /\ \/ RL!Tick
       \/ \E c \in Accounts, r \in Rates : RL!setRateLimitPerSecond(c, r)
       \/ \E c \in Accounts, b \in Caps : RL!setBufferCap(c, b)
    /\ UNCHANGED <<linkVars, moneyVars>>

------------------------------------------------------------------------------
(* The PSMs and deposits, outside this contract *)

\* A trade, a yield, a withdrawal: a balance moves without the allocator.
ExternalFlow(h, b) ==
    /\ flows < MaxFlows
    /\ balance' = [balance EXCEPT ![h] = b]
    /\ flows' = flows + 1
    /\ UNCHANGED <<limiterVars, linkVars, depositPaused, netDripped>>

DepositPause(caller, d, value) ==
    /\ caller \in Governors \cup Guardians
    /\ depositPaused[d] # value
    /\ depositPaused' = [depositPaused EXCEPT ![d] = value]
    /\ UNCHANGED <<limiterVars, linkVars, balance, flows, netDripped>>

------------------------------------------------------------------------------

\* The constructor: nothing is connected.
Init ==
    /\ RL!Init
    /\ allPSMs = [p \in PSMs |-> NoPSM]
    /\ pcvDepositToPSM = [d \in Deposits |-> ZeroAddress]
    /\ paused = FALSE
    /\ balance = InitialBalance
    /\ depositPaused = [d \in Deposits |-> FALSE]
    /\ flows = 0
    /\ netDripped = 0

Allocation == \E d \in Deposits : drip(d) \/ skim(d) \/ doAction(d)

Governance ==
    \E c \in Accounts :
        \/ \E p \in PSMs, t \in TargetBalances :
              \/ connectPSM(c, p, t, NormalizerOf[TokenOf[p]])
              \/ editPSMTargetBalance(c, p, t)
        \/ \E p \in PSMs : disconnectPSM(c, p)
        \/ \E p \in PSMs, d \in Deposits : connectDeposit(c, p, d)
        \/ \E d \in Deposits : deleteDeposit(c, d)
        \/ \E value \in BOOLEAN : setPaused(c, value)

Environment ==
    \/ \E h \in Holders, b \in ExternalBalances : ExternalFlow(h, b)
    \/ \E c \in Accounts, d \in Deposits, value \in BOOLEAN :
          DepositPause(c, d, value)

Next == Allocation \/ Governance \/ LimiterCall \/ Environment

Spec == Init /\ [][Next]_vars
\* Keepers: doAction() is open to anybody, and somebody keeps calling it on
\* every deposit.
FairSpec == Spec /\ \A d \in Deposits : WF_vars(doAction(d))

------------------------------------------------------------------------------
(***************************************************************************)
(* Properties.                                                             *)
(***************************************************************************)

\* "This contract enforces the assumption that all pcv deposits connected to a
\* given PSM share the same underlying token": in whatever order PSMs and
\* deposits are connected, disconnected and connected again.
LinkedTokensMatch ==
    \A d \in Deposits :
        Connected(pcvDepositToPSM[d])
            => allPSMs[pcvDepositToPSM[d]].token = TokenOf[d]

\* The funds dripped out of all deposits together, net of what was skimmed
\* back and counted in 18 decimals, plus what could be dripped at this moment,
\* never exceed the buffer's initial cap and the maximum rate.
PCVOutflowLimited ==
    netDripped + RL!Buffer <= InitialCap + MAX_RATE_LIMIT_PER_SECOND * now

\* No call of drip, skim or doAction carries a PSM across its target balance:
\* a skim never leaves it short and a drip never overfills it.
NeverCrossesTarget ==
    [][flows' = flows =>
        \A p \in PSMs :
            LET target == allPSMs[p].targetBalance
            IN  /\ balance[p] <= target => balance'[p] <= target
                /\ balance[p] >= target => balance'[p] >= target]_vars

\* checkActionAllowed() does not lure keepers into a revert: whenever it says
\* yes and the deposit accepts funds, doAction() goes through; in particular
\* the amount it chooses to drip never hits the rate limit.
AllowedActionsSucceed ==
    \A d \in Deposits :
        ActionAllowed(d) /\ ~depositPaused[d] => ENABLED doAction(d)

\* Nothing is left to do for a deposit: no action is allowed, or the buffer is
\* worth less than one unit of the token, or the deposit refuses funds.
AtRest(d) ==
    \/ ~ActionAllowed(d)
    \/ depositPaused[d]
    \/ LET p == pcvDepositToPSM[d]
       IN  DripCondition(p, d) /\ AmountToDrip(p, d) = 0

\* While keepers keep calling doAction(), every deposit comes to rest again and
\* again, against any sequence of trades, yields and governance calls: the two
\* directions never chase each other.
KeepersReachRest == \A d \in Deposits : []<>AtRest(d)
==============================================================================
