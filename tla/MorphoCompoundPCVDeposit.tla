---------------------- MODULE MorphoCompoundPCVDeposit -----------------------
(***************************************************************************)
(* contracts/pcv/morpho/MorphoCompoundPCVDeposit.sol: a PCV deposit that   *)
(* supplies its token to Morpho, remembers the balance it last saw there,  *)
(* and reports every change of that record to a PCV oracle.                *)
(*                                                                         *)
(* Each external function is one step: deposit, accrue, withdraw and       *)
(* withdrawAll share a reentrancy lock.  Morpho and the PCV oracle are     *)
(* outside the repository; Morpho is a position that earns or loses        *)
(* between calls and may round a supply or a withdrawal down by up to      *)
(* MaxRounding, as the contract's own comment says Compound does.          *)
(***************************************************************************)
EXTENDS Integers, EVMMath

CONSTANTS
    Accounts, Governors, Guardians, PCVControllers,
    Oracles, ZeroAddress,
    Deposit,             \* the address of this contract
    Recipients,          \* where withdrawals may go
    Amounts,             \* amounts sent in or withdrawn
    MaxFunds,            \* bound on idle tokens and on the Morpho position
    MaxRounding,         \* what one call may lose to rounding in the venue
    MaxRoundedAway,      \* bound on the sum of these losses (history only)
    MaxTimesSet          \* bound on setting one oracle again

ASSUME MorphoAssumption ==
    /\ Governors \subseteq Accounts /\ Guardians \subseteq Accounts
    /\ PCVControllers \subseteq Accounts
    /\ ZeroAddress \notin Oracles
    /\ Amounts \subseteq Nat
    /\ MaxFunds \in Nat
    /\ MaxRounding \in Nat
    /\ MaxRoundedAway \in Nat
    /\ MaxTimesSet \in Nat

VARIABLES
    idle,                \* the contract's balance of its token
    supplied,            \* its position in Morpho: balance()
    lastRecordedBalance,
    pcvOracle,
    paused,
    pcvAmount,           \* [oracle -> the sum of the deltas it was sent]
    timesSet,            \* history: [oracle -> times it was made pcvOracle]
    roundedAway          \* history: lost to rounding by deposits reported
                         \*   to the present oracle

vars == <<idle, supplied, lastRecordedBalance, pcvOracle, paused, pcvAmount,
          timesSet, roundedAway>>

TypeOK ==
    /\ idle \in Nat
    /\ supplied \in Nat
    /\ lastRecordedBalance \in Nat
    /\ pcvOracle \in Oracles \cup {ZeroAddress}
    /\ paused \in BOOLEAN
    /\ pcvAmount \in [Oracles -> Int]
    /\ timesSet \in [Oracles -> Nat]
    /\ roundedAway \in Nat

Init ==
    /\ idle = 0
    /\ supplied = 0
    /\ lastRecordedBalance = 0
    /\ pcvOracle = ZeroAddress
    /\ paused = FALSE
    /\ pcvAmount = [o \in Oracles |-> 0]
    /\ timesSet = [o \in Oracles |-> 0]
    /\ roundedAway = 0

------------------------------------------------------------------------------

\* updateLiquidBalance() on the oracle, if there is one.
Report(delta) ==
    pcvAmount' = IF pcvOracle = ZeroAddress THEN pcvAmount
                 ELSE [pcvAmount EXCEPT ![pcvOracle] = @ + delta]

\* _recordPNL(): the record becomes the position.  (When both are zero the
\* function returns early, which comes to the same.)
RecordedPNL == supplied

\* Faulty variant: the starting balance is read after the profit is recorded.
deposit_StartAfterPNL(rounding) ==
    /\ ~paused
    /\ \/ idle = 0 /\ UNCHANGED vars
       \/ /\ idle # 0
          /\ rounding <= idle
          /\ idle' = 0
          /\ supplied' = supplied + idle - rounding
          /\ lastRecordedBalance' = RecordedPNL + idle
          /\ Report(supplied' - RecordedPNL)
          /\ roundedAway' = IF pcvOracle = ZeroAddress THEN roundedAway
                            ELSE roundedAway + rounding
          /\ UNCHANGED <<pcvOracle, paused, timesSet>>

\* deposit(): the record grows by what was sent to Morpho, the oracle is told
\* what Morpho answers it holds.
deposit(rounding) ==
    /\ ~paused
    /\ \/ idle = 0 /\ UNCHANGED vars
       \/ /\ idle # 0
          /\ rounding <= idle
          /\ idle' = 0
          /\ supplied' = supplied + idle - rounding
          /\ lastRecordedBalance' = RecordedPNL + idle
          /\ Report(supplied' - lastRecordedBalance)
          /\ roundedAway' = IF pcvOracle = ZeroAddress THEN roundedAway
                            ELSE roundedAway + rounding
          /\ UNCHANGED <<pcvOracle, paused, timesSet>>

\* accrue()
accrue ==
    /\ ~paused
    /\ lastRecordedBalance' = RecordedPNL
    /\ Report(lastRecordedBalance' - lastRecordedBalance)
    /\ UNCHANGED <<idle, supplied, pcvOracle, paused, timesSet, roundedAway>>

\* The interactions of _withdraw(): Morpho pays the contract, the contract
\* pays the recipient, which may be itself.
Paid(to, amount, rounding) ==
    /\ supplied' = MathMax(supplied - amount - rounding, 0)
    /\ idle' = IF to = Deposit THEN idle + amount ELSE idle

\* withdraw(): possible while paused; reverts when more than the position is
\* asked for.
withdraw(caller, to, amount, rounding) ==
    /\ caller \in PCVControllers
    /\ amount <= RecordedPNL
    /\ lastRecordedBalance' = RecordedPNL - amount
    /\ Paid(to, amount, rounding)
    /\ Report(lastRecordedBalance' - lastRecordedBalance)
    /\ UNCHANGED <<pcvOracle, paused, timesSet, roundedAway>>

\* withdrawAll(): possible while paused.
withdrawAll(caller, to) ==
    /\ caller \in PCVControllers
    /\ lastRecordedBalance' = 0
    /\ Paid(to, RecordedPNL, 0)
    /\ Report(lastRecordedBalance' - lastRecordedBalance)
    /\ UNCHANGED <<pcvOracle, paused, timesSet, roundedAway>>

\* setPCVOracle(): the new oracle is told the whole balance, the old one is
\* told nothing.  The zero address reverts, as it cannot be told.
setPCVOracle(caller, newOracle) ==
    /\ caller \in Governors
    /\ newOracle # ZeroAddress
    /\ pcvOracle' = newOracle
    /\ lastRecordedBalance' = RecordedPNL
    /\ pcvAmount' = [pcvAmount EXCEPT ![newOracle] = @ + RecordedPNL]
    /\ timesSet' = [timesSet EXCEPT ![newOracle] = @ + 1]
    /\ roundedAway' = 0
    /\ UNCHANGED <<idle, supplied, paused>>

\* withdrawERC20() of the deposit's own token, of PCVDeposit.
withdrawERC20(caller, to, amount) ==
    /\ caller \in PCVControllers
    /\ amount <= idle
    /\ idle' = IF to = Deposit THEN idle ELSE idle - amount
    /\ UNCHANGED <<supplied, lastRecordedBalance, pcvOracle, paused, pcvAmount,
                   timesSet, roundedAway>>

\* emergencyAction(): the governor moves the position or the tokens by calling
\* Morpho and the token directly; the record is not told.
emergencyAction(caller, newIdle, newSupplied) ==
    /\ caller \in Governors
    /\ idle' = newIdle
    /\ supplied' = newSupplied
    /\ UNCHANGED <<lastRecordedBalance, pcvOracle, paused, pcvAmount, timesSet,
                   roundedAway>>

\* CoreRef's pause() and unpause() revert when it is already so.
setPaused(caller, value) ==
    /\ caller \in Governors \cup Guardians
    /\ paused # value
    /\ paused' = value
    /\ UNCHANGED <<idle, supplied, lastRecordedBalance, pcvOracle, pcvAmount,
                   timesSet, roundedAway>>

------------------------------------------------------------------------------
(* Outside the contract *)

\* A skim or any other transfer brings tokens.
Receive(amount) ==
    /\ idle + amount <= MaxFunds
    /\ idle' = idle + amount
    /\ UNCHANGED <<supplied, lastRecordedBalance, pcvOracle, paused, pcvAmount,
                   timesSet, roundedAway>>

\* Interest, or a loss event in Morpho.
VenueMoves(newSupplied) ==
    /\ supplied' = newSupplied
    /\ UNCHANGED <<idle, lastRecordedBalance, pcvOracle, paused, pcvAmount,
                   timesSet, roundedAway>>

Rounding == 0..MaxRounding

Next ==
    \/ \E r \in Rounding : /\ deposit(r)
                           /\ supplied' <= MaxFunds
                           /\ roundedAway' <= MaxRoundedAway
    \/ accrue
    \/ \E c \in Accounts, to \in Recipients, a \in Amounts, r \in Rounding :
          withdraw(c, to, a, r) /\ idle' <= MaxFunds
    \/ \E c \in Accounts, to \in Recipients :
          withdrawAll(c, to) /\ idle' <= MaxFunds
    \/ \E c \in Accounts, o \in Oracles \cup {ZeroAddress} :
          setPCVOracle(c, o) /\ timesSet'[o] <= MaxTimesSet
    \/ \E c \in Accounts, to \in Recipients, a \in Amounts :
          withdrawERC20(c, to, a)
    \/ \E c \in Accounts, i, s \in 0..MaxFunds :
          emergencyAction(c, i, s)
    \/ \E c \in Accounts, value \in BOOLEAN : setPaused(c, value)
    \/ \E a \in Amounts : Receive(a)
    \/ \E s \in 0..MaxFunds : VenueMoves(s)

Spec == Init /\ [][Next]_vars
------------------------------------------------------------------------------
(***************************************************************************)
(* Properties.                                                             *)
(***************************************************************************)

\* An oracle set for the first time started from nothing and was told the
\* whole balance.  (Setting one again reports the whole balance twice.)
OracleSetOnce == pcvOracle # ZeroAddress /\ timesSet[pcvOracle] = 1

\* "lastRecordedBalance == pcvOracle.pcvAmount()", the assertion of
\* InvariantTestMorphoPCVDeposit: the oracle's sum is the deposit's record.
OracleTracksBalance ==
    OracleSetOnce => pcvAmount[pcvOracle] = lastRecordedBalance

\* What does hold of the oracle when the venue rounds: its sum lags behind the
\* record by exactly what the deposits made since lost to rounding, whatever
\* accruals, withdrawals, losses and emergency actions came in between.
DriftIsRounding ==
    OracleSetOnce
        => pcvAmount[pcvOracle] + roundedAway = lastRecordedBalance
==============================================================================
