------------------------------ MODULE OracleRef ------------------------------
(***************************************************************************)
(* contracts/refs/OracleRef.sol: the price a peg stability module trades   *)
(* at.  It reads one oracle, or a backup when the first answers that it is *)
(* not valid, inverts the answer on demand and scales it by a power of ten *)
(* that makes up for the decimals of the underlying token.  There is no    *)
(* next-state relation of its own: PegStabilityModule inherits from it and *)
(* OraclePassThrough puts it at the end of the chain of oracles.           *)
(***************************************************************************)
EXTENDS Integers, EVMMath, Decimal

CONSTANTS
    Accounts,           \* accounts that may send transactions
    Governors,          \* those that hold GOVERN_ROLE
    GovernorsOrAdmins,  \* those that hold GOVERN_ROLE or the admin role
    Oracles,            \* the oracle contracts that exist
    ZeroAddress,        \* address(0): no oracle
    FeedValues,         \* the prices an oracle may answer
    Normalizers,        \* the values governance may give decimalsNormalizer
    Inversions          \* the values governance may give doInvert

VARIABLES
    oracle,
    backupOracle,
    doInvert,
    decimalsNormalizer,
    feed                \* what each oracle's read() answers

vars == <<oracle, backupOracle, doInvert, decimalsNormalizer, feed>>

Answers == [value : FeedValues, valid : BOOLEAN]

TypeOK ==
    /\ oracle \in Oracles
    /\ backupOracle \in Oracles \cup {ZeroAddress}
    /\ doInvert \in BOOLEAN
    /\ decimalsNormalizer \in Int
    /\ feed \in [Oracles -> Answers]

------------------------------------------------------------------------------
(* readOracle() *)

\* The oracle whose answer is used.
Source ==
    IF ~feed[oracle].valid /\ backupOracle # ZeroAddress
    THEN backupOracle
    ELSE oracle

\* readOracle() reverts on an answer that is not valid, and dividing by an
\* answer of zero reverts.
OracleReadable ==
    /\ feed[Source].valid
    /\ doInvert => feed[Source].value # 0

\* invert()
invert(price) == divDec(one, price)

\* Scaling by 10 ** |decimalsNormalizer|, up or down.
normalize(peg, normalizer) ==
    IF normalizer < 0 THEN divInt(peg, Pow10[-normalizer])
                      ELSE mulInt(peg, Pow10[normalizer])

\* readOracle(), where it does not revert.
readOracle ==
    LET answer == feed[Source].value
        peg    == IF doInvert THEN invert(answer) ELSE answer
    IN  normalize(peg, decimalsNormalizer)

------------------------------------------------------------------------------

\* The constructor: a backup that is the oracle itself is not recorded.
\* _setDoInvert runs before the normalizer is set, so its sign flip is lost.
Init ==
    /\ oracle \in Oracles
    /\ backupOracle \in (Oracles \ {oracle}) \cup {ZeroAddress}
    /\ doInvert \in Inversions
    /\ decimalsNormalizer \in Normalizers

\* setOracle()
setOracle(caller, newOracle) ==
    /\ caller \in Governors
    /\ newOracle # ZeroAddress
    /\ oracle' = newOracle
    /\ UNCHANGED <<backupOracle, doInvert, decimalsNormalizer, feed>>

\* Faulty variant: the sign of the scaling stays.
setDoInvert_KeepsNormalizer(caller, newDoInvert) ==
    /\ caller \in Governors
    /\ doInvert' = newDoInvert
    /\ UNCHANGED <<oracle, backupOracle, decimalsNormalizer, feed>>

\* setDoInvert(): a change of direction also changes the sign of the scaling.
setDoInvert(caller, newDoInvert) ==
    /\ caller \in Governors
    /\ doInvert' = newDoInvert
    /\ decimalsNormalizer' = IF newDoInvert # doInvert
                             THEN -decimalsNormalizer
                             ELSE decimalsNormalizer
    /\ UNCHANGED <<oracle, backupOracle, feed>>

\* setDecimalsNormalizer()
setDecimalsNormalizer(caller, newNormalizer) ==
    /\ caller \in Governors
    /\ decimalsNormalizer' = newNormalizer
    /\ UNCHANGED <<oracle, backupOracle, doInvert, feed>>

\* setBackupOracle(): the zero address means no backup.
setBackupOracle(caller, newBackup) ==
    /\ caller \in GovernorsOrAdmins
    /\ backupOracle' = newBackup
    /\ UNCHANGED <<oracle, doInvert, decimalsNormalizer, feed>>

\* What governance may do.
OracleRefCall ==
    \/ \E c \in Accounts, o \in Oracles \cup {ZeroAddress} :
          setOracle(c, o) \/ setBackupOracle(c, o)
    \/ \E c \in Accounts, b \in Inversions : setDoInvert(c, b)
    \/ \E c \in Accounts, n \in Normalizers : setDecimalsNormalizer(c, n)

------------------------------------------------------------------------------
(***************************************************************************)
(* Properties.                                                             *)
(***************************************************************************)

\* Switching doInvert turns the price into its reciprocal, scaling included:
\* the product of the price before and after is 1.0, short of it by no more
\* than what the two truncations may lose.
InversionIsReciprocal ==
    [][doInvert' # doInvert /\ OracleReadable /\ OracleReadable'
          => LET s == Pow10[MathMax(decimalsNormalizer, -decimalsNormalizer)]
             IN  /\ readOracle * readOracle' <= BASE * BASE
                 /\ BASE * BASE - readOracle * readOracle'
                       <= s * (readOracle + readOracle' + 1)]_vars
==============================================================================
