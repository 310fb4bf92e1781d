---------------------------- MODULE MorphoProofs -----------------------------
(***************************************************************************)
(* Proofs about MorphoCompoundPCVDeposit, for any accounts, oracles,       *)
(* amounts and roundings.                                                  *)
(*                                                                         *)
(* DriftIsRounding speaks of an oracle that was set once.  To follow it    *)
(* through setPCVOracle, one has to know that an oracle that was never set *)
(* was never told anything (Unset); the two together are inductive.        *)
(*                                                                         *)
(* Of an oracle set several times, Gap says how far it is off the record:  *)
(* only setting it again changes that.                                     *)
(***************************************************************************)
EXTENDS MorphoCompoundPCVDeposit, TLAPS

\* Every state of every behaviour is well typed: the deposit never has, never
\* has supplied, and never records less than nothing.
THEOREM TypeCorrect == Spec => []TypeOK
<1>1. Init => TypeOK
    <2> SUFFICES ASSUME Init PROVE TypeOK
        OBVIOUS
    <2>1. pcvAmount \in [Oracles -> Int] /\ timesSet \in [Oracles -> Nat]
        BY DEF Init
    <2>2. paused \in BOOLEAN
        BY Zenon DEF Init
    <2>3. /\ idle \in Nat /\ supplied \in Nat /\ lastRecordedBalance \in Nat
          /\ roundedAway \in Nat /\ pcvOracle \in Oracles \cup {ZeroAddress}
        BY DEF Init
    <2> QED BY <2>1, <2>2, <2>3 DEF TypeOK
<1>2. TypeOK /\ [Next]_vars => TypeOK'
    <2> SUFFICES ASSUME TypeOK, [Next]_vars PROVE TypeOK'
        OBVIOUS
    <2>0. /\ Amounts \subseteq Nat /\ Rounding \subseteq Nat /\ 0..MaxFunds \subseteq Nat
          /\ ZeroAddress \notin Oracles
        BY MorphoAssumption DEF Rounding
    <2>1. ASSUME NEW r \in Rounding, deposit(r) PROVE TypeOK'
        BY <2>0, <2>1 DEF deposit, Report, RecordedPNL, TypeOK, vars
    <2>2. CASE accrue
        BY <2>0, <2>2 DEF accrue, Report, RecordedPNL, TypeOK
    <2>3. ASSUME NEW c \in Accounts, NEW to \in Recipients, NEW a \in Amounts,
                 NEW r \in Rounding, withdraw(c, to, a, r)
          PROVE  TypeOK'
        BY <2>0, <2>3 DEF withdraw, Paid, Report, RecordedPNL, MathMax, TypeOK
    <2>4. ASSUME NEW c \in Accounts, NEW to \in Recipients, withdrawAll(c, to)
          PROVE  TypeOK'
        BY <2>0, <2>4 DEF withdrawAll, Paid, Report, RecordedPNL, MathMax, TypeOK
    <2>5. ASSUME NEW c \in Accounts, NEW o \in Oracles \cup {ZeroAddress},
                 setPCVOracle(c, o)
          PROVE  TypeOK'
        BY <2>0, <2>5 DEF setPCVOracle, RecordedPNL, TypeOK
    <2>6. ASSUME NEW c \in Accounts, NEW to \in Recipients, NEW a \in Amounts,
                 withdrawERC20(c, to, a)
          PROVE  TypeOK'
        BY <2>0, <2>6 DEF withdrawERC20, TypeOK
    <2>7. ASSUME NEW c \in Accounts, NEW i \in 0..MaxFunds, NEW s \in 0..MaxFunds,
                 emergencyAction(c, i, s)
          PROVE  TypeOK'
        BY <2>0, <2>7 DEF emergencyAction, TypeOK
    <2>8. ASSUME NEW c \in Accounts, NEW value \in BOOLEAN, setPaused(c, value)
          PROVE  TypeOK'
        BY <2>8 DEF setPaused, TypeOK
    <2>9. ASSUME NEW a \in Amounts, Receive(a) PROVE TypeOK'
        BY <2>0, <2>9 DEF Receive, TypeOK
    <2>10. ASSUME NEW s \in 0..MaxFunds, VenueMoves(s) PROVE TypeOK'
        BY <2>0, <2>10 DEF VenueMoves, TypeOK
    <2>11. CASE UNCHANGED vars
        BY <2>11 DEF vars, TypeOK
    <2> QED
        BY <2>1, <2>2, <2>3, <2>4, <2>5, <2>6, <2>7, <2>8, <2>9, <2>10, <2>11
        DEF Next
<1> QED BY <1>1, <1>2, PTL DEF Spec

\* An oracle that was never set is not the present one and knows of nothing.
Unset ==
    \A o \in Oracles :
        timesSet[o] = 0 => pcvOracle # o /\ pcvAmount[o] = 0

DriftInv == Unset /\ DriftIsRounding

\* A report to the present oracle that changes its sum as the record changes,
\* less what is lost to rounding, keeps the two together.
LEMMA Reported ==
    ASSUME TypeOK, DriftInv, NEW delta \in Int, Report(delta),
           UNCHANGED <<pcvOracle, timesSet>>,
           lastRecordedBalance' \in Nat, roundedAway' \in Nat,
           OracleSetOnce => delta = (lastRecordedBalance' - lastRecordedBalance)
                                       - (roundedAway' - roundedAway)
    PROVE  DriftInv'
<1>1. Unset'
    BY DEF TypeOK, DriftInv, Unset, Report
<1>2. DriftIsRounding'
    <2> SUFFICES ASSUME OracleSetOnce'
                 PROVE  (pcvAmount[pcvOracle] + roundedAway
                            = lastRecordedBalance)'
        BY DEF DriftIsRounding
    <2>1. OracleSetOnce /\ pcvOracle \in Oracles
        BY DEF OracleSetOnce, TypeOK
    <2>2. pcvAmount[pcvOracle] + roundedAway = lastRecordedBalance
        BY <2>1 DEF DriftInv, DriftIsRounding
    <2>3. pcvAmount'[pcvOracle] = pcvAmount[pcvOracle] + delta
        BY <2>1 DEF Report, TypeOK, OracleSetOnce
    <2> QED BY <2>1, <2>2, <2>3 DEF TypeOK
<1> QED BY <1>1, <1>2 DEF DriftInv

\* For an oracle set once, its sum and the deposit's record differ by exactly
\* what deposits have since lost to rounding, through every sequence of
\* deposits, accruals, withdrawals, losses and emergency actions.
THEOREM DriftIsJustRounding == Spec => []DriftIsRounding
<1>1. Init => DriftInv
    BY MorphoAssumption
    DEF Init, DriftInv, Unset, DriftIsRounding, OracleSetOnce
<1>2. TypeOK /\ TypeOK' /\ DriftInv /\ [Next]_vars => DriftInv'
    <2> SUFFICES ASSUME TypeOK, TypeOK', DriftInv, [Next]_vars PROVE DriftInv'
        OBVIOUS
    <2>0. Amounts \subseteq Nat /\ Rounding \subseteq Nat
        BY MorphoAssumption DEF Rounding
    <2>1. CASE UNCHANGED <<lastRecordedBalance, pcvOracle, pcvAmount, timesSet,
                           roundedAway>>
        BY <2>1 DEF DriftInv, Unset, DriftIsRounding, OracleSetOnce
    <2>2. ASSUME NEW r \in Rounding, deposit(r), idle # 0 PROVE DriftInv'
        <3>1. /\ Report(supplied' - lastRecordedBalance)
              /\ supplied' - lastRecordedBalance \in Int
              /\ UNCHANGED <<pcvOracle, timesSet>>
              /\ lastRecordedBalance' = supplied + idle
              /\ supplied' = supplied + idle - r
              /\ pcvOracle # ZeroAddress => roundedAway' = roundedAway + r
            BY <2>2 DEF deposit, RecordedPNL, TypeOK
        <3>2. OracleSetOnce =>
                 supplied' - lastRecordedBalance
                     = (lastRecordedBalance' - lastRecordedBalance)
                           - (roundedAway' - roundedAway)
            BY <2>0, <3>1 DEF OracleSetOnce, TypeOK
        <3>3. lastRecordedBalance' \in Nat /\ roundedAway' \in Nat
            BY DEF TypeOK
        <3> HIDE DEF DriftInv
        <3> QED BY <3>1, <3>2, <3>3, Reported
    <2>3. CASE accrue
        BY <2>3, Reported DEF accrue, RecordedPNL, TypeOK
    <2>4. ASSUME NEW c \in Accounts, NEW to \in Recipients, NEW a \in Amounts,
                 NEW r \in Rounding, withdraw(c, to, a, r)
          PROVE  DriftInv'
        BY <2>0, <2>4, Reported DEF withdraw, RecordedPNL, TypeOK
    <2>5. ASSUME NEW c \in Accounts, NEW to \in Recipients, withdrawAll(c, to)
          PROVE  DriftInv'
        BY <2>5, Reported DEF withdrawAll, RecordedPNL, TypeOK
    <2>6. ASSUME NEW c \in Accounts, NEW o \in Oracles \cup {ZeroAddress},
                 setPCVOracle(c, o)
          PROVE  DriftInv'
        <3>1. /\ o \in Oracles /\ pcvOracle' = o /\ o # ZeroAddress
              /\ lastRecordedBalance' = supplied /\ roundedAway' = 0
              /\ pcvAmount' = [pcvAmount EXCEPT ![o] = @ + supplied]
              /\ timesSet' = [timesSet EXCEPT ![o] = @ + 1]
            BY <2>6 DEF setPCVOracle, RecordedPNL
        <3>2. Unset'
            BY <3>1 DEF DriftInv, Unset, TypeOK
        <3>3. OracleSetOnce' => timesSet[o] = 0 /\ pcvAmount[o] = 0
            BY <3>1 DEF DriftInv, Unset, OracleSetOnce, TypeOK
        <3>4. DriftIsRounding'
            BY <3>1, <3>3 DEF DriftIsRounding, TypeOK
        <3> QED BY <3>2, <3>4 DEF DriftInv
    <2> QED
        BY <2>1, <2>2, <2>3, <2>4, <2>5, <2>6
        DEF Next, deposit, withdrawERC20, emergencyAction, setPaused, Receive,
            VenueMoves, vars
<1> QED BY <1>1, <1>2, TypeCorrect, PTL DEF Spec, DriftInv

\* By how much an oracle is off the deposit's record, roundings apart.
Gap == pcvAmount[pcvOracle] + roundedAway - lastRecordedBalance

\* A report moves the oracle's sum as the record moves, less what is rounded away.
LEMMA ReportedGap ==
    ASSUME TypeOK, TypeOK', NEW delta \in Int, Report(delta), UNCHANGED pcvOracle,
           pcvOracle # ZeroAddress,
           delta = (lastRecordedBalance' - lastRecordedBalance)
                       - (roundedAway' - roundedAway)
    PROVE  Gap' = Gap
<1>1. pcvOracle \in Oracles /\ pcvAmount'[pcvOracle] = pcvAmount[pcvOracle] + delta
    BY DEF TypeOK, Report
<1>2. /\ pcvAmount[pcvOracle] \in Int /\ lastRecordedBalance \in Int
      /\ lastRecordedBalance' \in Int /\ roundedAway \in Int /\ roundedAway' \in Int
    BY <1>1 DEF TypeOK
<1> QED BY <1>1, <1>2 DEF Gap

\* Setting an oracle again tells it the whole balance a second time, and that is
\* the only way a difference arises that is not rounding: from one setting of an
\* oracle to the next, nothing else the contract or its surroundings do changes
\* by how much the oracle is off, however often it was set and whatever it knew.
THEOREM OnlySettingTheOracleMisleadsIt ==
    Spec => [][pcvOracle # ZeroAddress /\ timesSet' = timesSet => Gap' = Gap]_vars
<1>1. ASSUME TypeOK, TypeOK', [Next]_vars, pcvOracle # ZeroAddress,
             timesSet' = timesSet
      PROVE  Gap' = Gap
    <2>0. Amounts \subseteq Nat /\ Rounding \subseteq Nat
        BY MorphoAssumption DEF Rounding
    <2>1. CASE UNCHANGED <<lastRecordedBalance, pcvOracle, pcvAmount, roundedAway>>
        BY <2>1 DEF Gap
    <2>2. ASSUME NEW r \in Rounding, deposit(r), idle # 0 PROVE Gap' = Gap
        <3>1. /\ Report(supplied' - lastRecordedBalance)
              /\ supplied' - lastRecordedBalance \in Int
              /\ UNCHANGED pcvOracle
              /\ lastRecordedBalance' = supplied + idle
              /\ supplied' = supplied + idle - r
              /\ roundedAway' = roundedAway + r
            BY <1>1, <2>2 DEF deposit, RecordedPNL, TypeOK
        <3>2. supplied' - lastRecordedBalance
                  = (lastRecordedBalance' - lastRecordedBalance)
                        - (roundedAway' - roundedAway)
            BY <1>1, <2>0, <3>1 DEF TypeOK
        <3> QED BY <1>1, <3>1, <3>2, ReportedGap
    <2>3. ASSUME UNCHANGED <<pcvOracle, roundedAway>>,
                 Report(lastRecordedBalance' - lastRecordedBalance)
          PROVE  Gap' = Gap
        <3>1. /\ lastRecordedBalance' - lastRecordedBalance \in Int
              /\ lastRecordedBalance' - lastRecordedBalance
                    = (lastRecordedBalance' - lastRecordedBalance)
                          - (roundedAway' - roundedAway)
            BY <1>1, <2>3 DEF TypeOK
        <3> QED BY <1>1, <2>3, <3>1, ReportedGap
    <2>4. ASSUME NEW c \in Accounts, NEW o \in Oracles \cup {ZeroAddress}
          PROVE  ~setPCVOracle(c, o)
        <3>1. ASSUME setPCVOracle(c, o) PROVE FALSE
            <4>1. o \in Oracles /\ timesSet[o] \in Nat
                  /\ timesSet'[o] = timesSet[o] + 1
                BY <1>1, <3>1 DEF setPCVOracle, TypeOK
            <4> QED BY <1>1, <4>1
        <3> QED BY <3>1
    <2>5. CASE accrue
        BY <2>3, <2>5 DEF accrue
    <2>6. ASSUME NEW c \in Accounts, NEW to \in Recipients, NEW a \in Amounts,
                 NEW r \in Rounding, withdraw(c, to, a, r)
          PROVE  Gap' = Gap
        BY <2>3, <2>6 DEF withdraw
    <2>7. ASSUME NEW c \in Accounts, NEW to \in Recipients, withdrawAll(c, to)
          PROVE  Gap' = Gap
        BY <2>3, <2>7 DEF withdrawAll
    <2> HIDE DEF Gap
    <2> QED
        BY <1>1, <2>1, <2>2, <2>4, <2>5, <2>6, <2>7
        DEF Next, deposit, withdrawERC20, emergencyAction, setPaused, Receive,
            VenueMoves, vars
<1> QED BY <1>1, TypeCorrect, PTL DEF Spec
==============================================================================
