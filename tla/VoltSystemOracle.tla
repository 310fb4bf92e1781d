-------------------------- MODULE VoltSystemOracle ---------------------------
(***************************************************************************)
(* contracts/oracle/VoltSystemOracle.sol: the VOLT price.  Within a period *)
(* of TIMEFRAME seconds the price rises linearly by the monthly rate; when *)
(* the period is over anybody may call compoundInterest(), which makes the *)
(* price reached the base of the next period.  Nothing calls it on time:   *)
(* the price stands still from the end of a period until somebody does.    *)
(***************************************************************************)
EXTENDS Integers, EVMMath

CONSTANTS
    BASIS_POINTS_GRANULARITY,   \* 10,000 in Constants.sol
    TIMEFRAME,                  \* 30.42 days
    ChangeRates,                \* constructor arguments: monthly rate,
    StartTimes,                 \*   period start,
    StartPrices,                \*   and price
    MaxTime                     \* bound on the clock

ASSUME VoltSystemOracleAssumption ==
    /\ BASIS_POINTS_GRANULARITY \in Nat \ {0}
    /\ TIMEFRAME \in Nat \ {0}
    /\ ChangeRates \subseteq Nat
    /\ StartTimes \subseteq Nat
    /\ StartPrices \subseteq Nat
    /\ MaxTime \in Nat

VARIABLES
    now,                             \* block.timestamp
    oraclePrice,                     \* the price at periodStartTime
    periodStartTime,
    monthlyChangeRateBasisPoints,    \* immutable
    deployment                       \* history: the constructor's arguments

vars == <<now, oraclePrice, periodStartTime, monthlyChangeRateBasisPoints,
          deployment>>

TypeOK ==
    /\ now \in Nat
    /\ oraclePrice \in Nat
    /\ periodStartTime \in Nat
    /\ monthlyChangeRateBasisPoints \in Nat
    /\ deployment \in [price : Nat, start : Nat]

\* Interest of a whole period on a price.
PeriodInterest(price) ==
    (price * monthlyChangeRateBasisPoints) \div BASIS_POINTS_GRANULARITY

\* The price at time t of a period that starts at start with a given price.
Interpolated(price, start, t) ==
    IF start >= t THEN price
    ELSE price + (PeriodInterest(price) * MathMin(t - start, TIMEFRAME))
                     \div TIMEFRAME

\* getCurrentOraclePrice()
CurrentOraclePrice == Interpolated(oraclePrice, periodStartTime, now)

Init ==
    /\ now = 0
    /\ oraclePrice \in StartPrices
    /\ periodStartTime \in StartTimes
    /\ monthlyChangeRateBasisPoints \in ChangeRates
    /\ deployment = [price |-> oraclePrice, start |-> periodStartTime]

\* Faulty variant: the next period starts at the time of the call.
compoundInterest_FromNow ==
    /\ now >= periodStartTime + TIMEFRAME
    /\ oraclePrice' = CurrentOraclePrice
    /\ periodStartTime' = now
    /\ UNCHANGED <<now, monthlyChangeRateBasisPoints, deployment>>

\* Faulty variant: the price reached is not kept.
compoundInterest_NoPrice ==
    /\ now >= periodStartTime + TIMEFRAME
    /\ periodStartTime' = periodStartTime + TIMEFRAME
    /\ UNCHANGED <<now, oraclePrice, monthlyChangeRateBasisPoints, deployment>>

\* compoundInterest(): open to anybody, once per period, at any later time.
compoundInterest ==
    /\ now >= periodStartTime + TIMEFRAME
    /\ oraclePrice' = CurrentOraclePrice
    /\ periodStartTime' = periodStartTime + TIMEFRAME
    /\ UNCHANGED <<now, monthlyChangeRateBasisPoints, deployment>>

\* The next block has a later timestamp.
Tick ==
    /\ now < MaxTime
    /\ now' = now + 1
    /\ UNCHANGED <<oraclePrice, periodStartTime, monthlyChangeRateBasisPoints,
                   deployment>>

Next == Tick \/ compoundInterest

Spec == Init /\ [][Next]_vars

------------------------------------------------------------------------------
(***************************************************************************)
(* Properties.                                                             *)
(***************************************************************************)

\* The VOLT price never falls, not even at the seam between two periods when
\* compoundInterest() comes late and moves base and start together.
PriceNeverFalls == [][CurrentOraclePrice' >= CurrentOraclePrice]_vars

\* The base price of the k-th period when interest compounds on schedule.
Schedule ==
    LET P[k \in Nat] ==
            IF k = 0 THEN deployment.price
                     ELSE P[k - 1] + PeriodInterest(P[k - 1])
    IN  P

\* Where the price would be if compoundInterest() were called the moment each
\* period ends.
PunctualPrice ==
    LET k == IF now < deployment.start THEN 0
             ELSE (now - deployment.start) \div TIMEFRAME
    IN  Interpolated(Schedule[k], deployment.start + k * TIMEFRAME, now)

\* However late compoundInterest() is called, the price is never above that of
\* a punctual caller, and it is exactly that price as soon as the calls owed
\* have been made: lateness delays interest and neither loses nor adds any.
LatenessLosesNothing ==
    /\ CurrentOraclePrice <= PunctualPrice
    /\ now <= periodStartTime + TIMEFRAME => CurrentOraclePrice = PunctualPrice
==============================================================================
