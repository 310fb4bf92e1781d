-------------------------- MODULE OraclePassThrough --------------------------
(***************************************************************************)
(* contracts/oracle/OraclePassThrough.sol between its two neighbours: a    *)
(* peg stability module reads its price through OracleRef from the         *)
(* pass-through, which asks the scaling price oracle its owner has pointed *)
(* it at, VoltSystemOracle or another one.  Proposals replace the price    *)
(* oracle by moving that pointer, and nobody else has to know.             *)
(***************************************************************************)
EXTENDS VoltSystemOracle

CONSTANTS
    Accounts, Governors, GovernorsOrAdmins,     \* as in OracleRef
    Oracles, ZeroAddress, FeedValues, Normalizers, Inversions, BASE,
    Owner,              \* Ownable.owner(): the timelock
    PassThrough,        \* this contract, one of the Oracles
    VoltOracle,         \* the address of VoltSystemOracle
    OtherPrices         \* [other scaling price oracles -> their price]

ASSUME OraclePassThroughAssumption ==
    /\ PassThrough \in Oracles
    /\ VoltOracle \notin DOMAIN OtherPrices
    /\ OtherPrices \in [DOMAIN OtherPrices -> Nat]
    /\ FeedValues \subseteq Nat
    /\ Normalizers \subseteq Int
    /\ Inversions \subseteq BOOLEAN
    /\ BASE \in Nat \ {0}

VARIABLES
    scalingPriceOracle,
    otherFeed,          \* [other oracles -> what their read() answers]
    oracle, backupOracle, doInvert, decimalsNormalizer     \* OracleRef

priceVars == <<now, oraclePrice, periodStartTime, monthlyChangeRateBasisPoints,
               deployment, scalingPriceOracle, otherFeed>>
refVars   == <<oracle, backupOracle, doInvert, decimalsNormalizer>>
chainVars == <<priceVars, refVars>>

ScalingPriceOracles == {VoltOracle} \cup DOMAIN OtherPrices
Others  == Oracles \ {PassThrough}

\* getCurrentOraclePrice() and currPegPrice()
ScalingPrice ==
    IF scalingPriceOracle = VoltOracle THEN CurrentOraclePrice
                                       ELSE OtherPrices[scalingPriceOracle]

\* Faulty variant: a price whose period is over does not count as valid.
read_ValidInPeriod ==
    [value |-> ScalingPrice, valid |-> now <= periodStartTime + TIMEFRAME]

\* read(): the 18 decimals of the price are those of Decimal, and the answer is
\* always said to be valid.
read == [value |-> ScalingPrice, valid |-> TRUE]

feed == [o \in Oracles |-> IF o = PassThrough THEN read ELSE otherFeed[o]]

OR == INSTANCE OracleRef

\* updateScalingPriceOracle(): any address is accepted.
updateScalingPriceOracle(caller, newOracle) ==
    /\ caller = Owner
    /\ scalingPriceOracle' = newOracle
    /\ UNCHANGED <<vars, otherFeed, refVars>>

\* Another oracle answers something else from now on.
FeedMoves(o, answer) ==
    /\ otherFeed' = [otherFeed EXCEPT ![o] = answer]
    /\ UNCHANGED <<vars, scalingPriceOracle, refVars>>

ChainInit ==
    /\ Init
    /\ scalingPriceOracle \in ScalingPriceOracles
    /\ otherFeed \in [Others -> OR!Answers]
    /\ OR!Init

PriceStep == Next /\ UNCHANGED <<scalingPriceOracle, otherFeed, refVars>>
RefStep   == UNCHANGED priceVars /\ OR!OracleRefCall
Repoint   == \E c \in Accounts, s \in ScalingPriceOracles :
                updateScalingPriceOracle(c, s)
FeedStep  == \E o \in Others, a \in OR!Answers : FeedMoves(o, a)

ChainNext == PriceStep \/ RefStep \/ Repoint \/ FeedStep

ChainSpec == ChainInit /\ [][ChainNext]_chainVars

------------------------------------------------------------------------------
(***************************************************************************)
(* Properties.                                                             *)
(***************************************************************************)

\* A peg stability module that reads the VOLT price is not paid less for VOLT as
\* time goes by, with calls of compoundInterest() that come late and whatever
\* other oracles answer meanwhile: its price moves one way only, up where it is
\* the price of VOLT and down where doInvert makes it the price in VOLT.
PegFollowsVolt ==
    [][/\ UNCHANGED <<refVars, scalingPriceOracle>>
       /\ oracle = PassThrough /\ scalingPriceOracle = VoltOracle
       /\ OR!OracleReadable
       => /\ OR!OracleReadable'
          /\ IF doInvert THEN OR!readOracle' <= OR!readOracle
                         ELSE OR!readOracle' >= OR!readOracle]_chainVars

\* Switching doInvert turns the price into its reciprocal, scaling included, at
\* any price the chain of oracles may show.
InversionIsReciprocal == OR!InversionIsReciprocal
==============================================================================
