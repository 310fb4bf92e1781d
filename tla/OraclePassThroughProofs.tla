----------------------- MODULE OraclePassThroughProofs -----------------------
(***************************************************************************)
(* Proofs about VoltSystemOracle, OraclePassThrough and OracleRef in a row, *)
(* for any rates, prices, scalings and other oracles.                      *)
(*                                                                         *)
(* That the price never falls rests on two facts of the interpolation: it  *)
(* rises with time, and the price reached at the end of a period is where  *)
(* the next one begins.  That lateness loses nothing rests on a third: the *)
(* base price is always one of the schedule of a punctual caller, which is *)
(* defined by recursion, so that first a function of that definition is    *)
(* shown to exist.  The rest is the arithmetic of two divisions that       *)
(* truncate, over the types of ChainInv.                                   *)
(***************************************************************************)
EXTENDS OraclePassThrough, WellFoundedInduction, TLAPS

\* Division of natural numbers is what remains when the remainder is taken off.
LEMMA Quotient ==
    ASSUME NEW a \in Nat, NEW b \in Nat \ {0}
    PROVE  /\ a \div b \in Nat
           /\ b * (a \div b) <= a
           /\ a < b * (a \div b) + b
OBVIOUS

\* A larger number has no smaller quotient.
LEMMA QuotientRises ==
    ASSUME NEW a \in Nat, NEW b \in Nat, a <= b, NEW c \in Nat \ {0}
    PROVE  a \div c <= b \div c
OBVIOUS

\* A larger divisor gives no larger quotient.
LEMMA QuotientFalls ==
    ASSUME NEW a \in Nat, NEW b \in Nat \ {0}, NEW c \in Nat, b <= c
    PROVE  a \div c <= a \div b
<1> DEFINE p == a \div c
           q == a \div b
<1>1. p \in Nat /\ q \in Nat /\ c * p <= a /\ a < b * q + b
    BY Quotient
<1> HIDE DEF p, q
<1>2. b * p <= c * p
    BY <1>1
<1>3. b * p < b * (q + 1)
    BY <1>1, <1>2
<1>4. p < q + 1
    BY <1>1, <1>3
<1> QED BY <1>1, <1>4 DEF p, q

\* Multiplication keeps the order.
LEMMA ProductRises ==
    ASSUME NEW a \in Nat, NEW b \in Nat, a <= b, NEW c \in Nat
    PROVE  a * c \in Nat /\ b * c \in Nat /\ a * c <= b * c
OBVIOUS

------------------------------------------------------------------------------
(* Recursion on the natural numbers *)

\* Among the numbers of a set there is a smallest one.
LEMMA NatSmallest ==
    ASSUME NEW T, T \subseteq Nat, T # {}
    PROVE  \E x \in T : \A y \in T : x <= y
<1>1. PICK x \in T : \A y \in T : ~(<<y, x>> \in OpToRel(<, Nat))
    BY NatLessThanWellFounded, WFMin
<1>2. ASSUME NEW y \in T PROVE x <= y
    <2>1. ~(y < x)
        BY <1>1, <1>2 DEF OpToRel
    <2> QED BY <2>1, <1>2
<1> QED BY <1>2

\* f follows a start and a step for n steps.
Follows(f, n, start, step) ==
    /\ f \in [0..n -> Nat]
    /\ f[0] = start
    /\ \A k \in 1..n : f[k] = step[f[k - 1]]

\* There are such functions of any length: a shortest length without one would be
\* one step longer than a length with one.
LEMMA FollowsExists ==
    ASSUME NEW start \in Nat, NEW step \in [Nat -> Nat], NEW n \in Nat
    PROVE  \E f : Follows(f, n, start, step)
<1> DEFINE T == {k \in Nat : ~\E f : Follows(f, k, start, step)}
<1> SUFFICES ASSUME T # {} PROVE FALSE
    OBVIOUS
<1>1. PICK m \in T : \A k \in T : m <= k
    BY NatSmallest
<1>2. CASE m = 0
    <2>1. Follows([k \in 0..0 |-> start], 0, start, step)
        BY DEF Follows
    <2> QED BY <1>2, <2>1
<1>3. CASE m # 0
    <2>1. m - 1 \in Nat /\ m - 1 \notin T
        BY <1>1, <1>3
    <2>2. PICK f : Follows(f, m - 1, start, step)
        BY <2>1
    <2> DEFINE g == [k \in 0..m |-> IF k = m THEN step[f[m - 1]] ELSE f[k]]
    <2>3. Follows(g, m, start, step)
        <3>1. f \in [0..(m - 1) -> Nat] /\ m \in Nat
            BY <2>2 DEF Follows
        <3>2. ASSUME NEW k \in 0..m PROVE g[k] \in Nat
            <4>1. CASE k = m
                <5>1. f[m - 1] \in Nat
                    BY <1>3, <3>1
                <5> QED BY <4>1, <5>1
            <4>2. CASE k # m
                <5>1. k \in 0..(m - 1)
                    BY <3>1, <3>2, <4>2
                <5> QED BY <3>1, <4>2, <5>1
            <4> QED BY <4>1, <4>2
        <3>3. g[0] = start
            BY <1>3, <2>2 DEF Follows
        <3>4. ASSUME NEW k \in 1..m PROVE g[k] = step[g[k - 1]]
            <4>1. k \in 0..m /\ k - 1 \in 0..(m - 1) /\ k - 1 \in 0..m /\ k - 1 # m
                BY <3>1, <3>4
            <4>2. g[k - 1] = f[k - 1]
                BY <4>1
            <4>3. CASE k = m
                BY <4>1, <4>2, <4>3
            <4>4. CASE k # m
                <5>1. k \in 1..(m - 1)
                    BY <3>1, <3>4, <4>4
                <5>2. f[k] = step[f[k - 1]]
                    BY <2>2, <5>1 DEF Follows
                <5> QED BY <4>1, <4>2, <4>4, <5>2
            <4> QED BY <4>3, <4>4
        <3>5. g = [k \in 0..m |-> g[k]]
            OBVIOUS
        <3> HIDE DEF g
        <3> QED BY <3>2, <3>3, <3>4, <3>5 DEF Follows
    <2> QED BY <2>3
<1> QED BY <1>2, <1>3

\* Two of them agree as far as both go.
LEMMA FollowsUnique ==
    ASSUME NEW start \in Nat, NEW step \in [Nat -> Nat],
           NEW n \in Nat, NEW m \in Nat, NEW f, NEW g,
           Follows(f, n, start, step), Follows(g, m, start, step),
           NEW k \in Nat, k <= n, k <= m
    PROVE  f[k] = g[k]
<1> DEFINE T == {i \in 0..n : i <= m /\ f[i] # g[i]}
<1> SUFFICES ASSUME T # {} PROVE FALSE
    OBVIOUS
<1>1. PICK i \in T : \A j \in T : i <= j
    <2>1. T \subseteq Nat
        OBVIOUS
    <2> QED BY <2>1, NatSmallest
<1>2. i # 0
    BY DEF Follows
<1>3. i - 1 \in 0..n /\ i - 1 <= m /\ i - 1 \notin T /\ i \in 1..n /\ i \in 1..m
    BY <1>1, <1>2
<1>4. f[i - 1] = g[i - 1]
    BY <1>3
<1> QED BY <1>3, <1>4 DEF Follows

\* So a definition by recursion on the natural numbers defines a function.
LEMMA RecursionExists ==
    ASSUME NEW start \in Nat, NEW step \in [Nat -> Nat]
    PROVE  \E P \in [Nat -> Nat] :
              /\ P[0] = start
              /\ \A k \in Nat \ {0} : P[k] = step[P[k - 1]]
<1> DEFINE Prefix(n) == CHOOSE f : Follows(f, n, start, step)
           P == [n \in Nat |-> Prefix(n)[n]]
<1>1. ASSUME NEW n \in Nat PROVE Follows(Prefix(n), n, start, step)
    BY FollowsExists
<1>2. ASSUME NEW n \in Nat PROVE Prefix(n)[n] \in Nat
    <2> HIDE DEF Prefix
    <2>1. Prefix(n) \in [0..n -> Nat] /\ n \in 0..n
        BY <1>1, <1>2 DEF Follows
    <2> QED BY <2>1
<1>3. Prefix(0)[0] = start
    BY <1>1 DEF Follows
<1>4. ASSUME NEW k \in Nat \ {0} PROVE Prefix(k)[k] = step[Prefix(k - 1)[k - 1]]
    <2> HIDE DEF Prefix
    <2>1. k - 1 \in Nat /\ k \in 1..k /\ k - 1 <= k
        OBVIOUS
    <2>2. Prefix(k)[k - 1] = Prefix(k - 1)[k - 1]
        BY <1>1, <2>1, FollowsUnique
    <2>3. Prefix(k)[k] = step[Prefix(k)[k - 1]]
        BY <1>1, <2>1 DEF Follows
    <2> QED BY <2>2, <2>3
<1> HIDE DEF Prefix
<1>5. P \in [Nat -> Nat] /\ P[0] = start /\ \A k \in Nat \ {0} : P[k] = step[P[k - 1]]
    BY <1>2, <1>3, <1>4
<1> HIDE DEF P
<1> QED BY <1>5

------------------------------------------------------------------------------
(* VoltSystemOracle *)

\* The interest of a period is a natural number.
LEMMA PeriodInterestNat ==
    ASSUME TypeOK, NEW price \in Nat
    PROVE  PeriodInterest(price) \in Nat
<1>1. price * monthlyChangeRateBasisPoints \in Nat
    BY DEF TypeOK
<1> QED BY <1>1, VoltSystemOracleAssumption DEF PeriodInterest

\* What has accrued after t seconds of a period.
Accrued(price, t) == (PeriodInterest(price) * MathMin(t, TIMEFRAME)) \div TIMEFRAME

\* It is a natural number, grows with time, and is the interest of the period at
\* its end and ever after.
LEMMA AccrualRises ==
    ASSUME TypeOK, NEW price \in Nat, NEW t \in Nat, NEW u \in Nat, t <= u
    PROVE  /\ Accrued(price, t) \in Nat
           /\ Accrued(price, t) <= Accrued(price, u)
           /\ t >= TIMEFRAME => Accrued(price, t) = PeriodInterest(price)
<1> DEFINE i == PeriodInterest(price)
           m == MathMin(t, TIMEFRAME)
           n == MathMin(u, TIMEFRAME)
<1>1. i \in Nat /\ TIMEFRAME \in Nat \ {0}
    BY PeriodInterestNat, VoltSystemOracleAssumption
<1>2. m \in Nat /\ n \in Nat /\ m <= n /\ (t >= TIMEFRAME => m = TIMEFRAME)
    BY <1>1 DEF MathMin
<1>3. Accrued(price, t) = (i * m) \div TIMEFRAME
      /\ Accrued(price, u) = (i * n) \div TIMEFRAME
    BY DEF Accrued
<1> HIDE DEF i, m, n
<1>4. i * m \in Nat /\ i * n \in Nat /\ i * m <= i * n
    BY <1>1, <1>2
<1>5. (i * m) \div TIMEFRAME \in Nat
      /\ (i * m) \div TIMEFRAME <= (i * n) \div TIMEFRAME
    BY <1>1, <1>4, QuotientRises, Quotient
<1>6. (i * TIMEFRAME) \div TIMEFRAME = i
    BY <1>1
<1> QED BY <1>2, <1>3, <1>5, <1>6 DEF i

\* The price is that of the period's start and what has accrued since.
LEMMA PriceAccrues ==
    ASSUME TypeOK
    PROVE  /\ CurrentOraclePrice \in Nat
           /\ CurrentOraclePrice =
                 IF periodStartTime >= now THEN oraclePrice
                 ELSE oraclePrice + Accrued(oraclePrice, now - periodStartTime)
<1>1. periodStartTime < now => now - periodStartTime \in Nat
    BY DEF TypeOK
<1>2. periodStartTime < now => Accrued(oraclePrice, now - periodStartTime) \in Nat
    BY <1>1, AccrualRises DEF TypeOK
<1> QED BY <1>2 DEF CurrentOraclePrice, Interpolated, Accrued, TypeOK

\* It is never below the price at the start of the period ...
LEMMA PriceAboveBase == TypeOK => CurrentOraclePrice >= oraclePrice
<1> SUFFICES ASSUME TypeOK PROVE CurrentOraclePrice >= oraclePrice
    OBVIOUS
<1>1. CASE periodStartTime >= now
    BY <1>1, PriceAccrues DEF TypeOK
<1>2. CASE periodStartTime < now
    <2>1. now - periodStartTime \in Nat
        BY <1>2 DEF TypeOK
    <2>2. Accrued(oraclePrice, now - periodStartTime) \in Nat
        BY <2>1, AccrualRises DEF TypeOK
    <2> QED BY <1>2, <2>2, PriceAccrues DEF TypeOK
<1> QED BY <1>1, <1>2 DEF TypeOK

\* ... in the next state as well.
LEMMA PriceAboveBaseNext == TypeOK' => CurrentOraclePrice' >= oraclePrice'
<1>1. (TypeOK => CurrentOraclePrice >= oraclePrice)'
    BY PriceAboveBase, PTL
<1> QED BY <1>1

\* The next price is a natural number as well.
LEMMA PriceNatNext == TypeOK' => CurrentOraclePrice' \in Nat
<1>1. (TypeOK => CurrentOraclePrice \in Nat)'
    BY PriceAccrues, PTL
<1> QED BY <1>1

\* Types are kept, and the price does not fall, when time passes and when
\* interest is compounded, however late.
LEMMA PriceStepRises ==
    ASSUME TypeOK, Next
    PROVE  TypeOK' /\ CurrentOraclePrice' >= CurrentOraclePrice
<1>0. /\ now \in Nat /\ oraclePrice \in Nat /\ periodStartTime \in Nat
      /\ TIMEFRAME \in Nat \ {0}
    BY VoltSystemOracleAssumption DEF TypeOK
<1>1. CASE Tick
    <2>1. TypeOK'
        BY <1>1 DEF Tick, TypeOK
    <2>2. CurrentOraclePrice' =
             IF periodStartTime >= now + 1 THEN oraclePrice
             ELSE oraclePrice + Accrued(oraclePrice, now + 1 - periodStartTime)
        <3>1. /\ CurrentOraclePrice' =
                    (Interpolated(oraclePrice, periodStartTime, now))'
              /\ (Interpolated(oraclePrice, periodStartTime, now))' =
                    Interpolated(oraclePrice, periodStartTime, now + 1)
            BY <1>1 DEF CurrentOraclePrice, Interpolated, PeriodInterest, Tick
        <3> QED BY <1>0, <3>1 DEF Interpolated, Accrued
    <2>3. CASE periodStartTime >= now + 1
        BY <1>0, <2>1, <2>2, <2>3, PriceAccrues
    <2>4. CASE periodStartTime = now
        <3>1. Accrued(oraclePrice, 1) \in Nat
            BY <1>0, AccrualRises
        <3> QED BY <1>0, <2>1, <2>2, <2>4, <3>1, PriceAccrues
    <2>5. CASE periodStartTime < now
        <3> DEFINE t == now - periodStartTime
                   u == now + 1 - periodStartTime
        <3>1. t \in Nat /\ u \in Nat /\ t <= u /\ u <= u
            BY <1>0, <2>5
        <3>2. CurrentOraclePrice = oraclePrice + Accrued(oraclePrice, t)
              /\ CurrentOraclePrice' = oraclePrice + Accrued(oraclePrice, u)
            BY <1>0, <2>2, <2>5, PriceAccrues
        <3> HIDE DEF t, u
        <3>3. Accrued(oraclePrice, t) \in Nat
              /\ Accrued(oraclePrice, t) <= Accrued(oraclePrice, u)
            BY <1>0, <3>1, AccrualRises
        <3>4. Accrued(oraclePrice, u) \in Nat
            BY <1>0, <3>1, AccrualRises
        <3> QED BY <1>0, <2>1, <3>2, <3>3, <3>4
    <2> QED BY <1>0, <2>3, <2>4, <2>5
<1>2. CASE compoundInterest
    <2>1. now - periodStartTime \in Nat /\ now - periodStartTime >= TIMEFRAME
          /\ periodStartTime < now
        BY <1>0, <1>2 DEF compoundInterest
    <2>2. /\ Accrued(oraclePrice, now - periodStartTime) = PeriodInterest(oraclePrice)
          /\ CurrentOraclePrice \in Nat
        BY <1>0, <2>1, AccrualRises, PriceAccrues
    <2>3. TypeOK'
        BY <1>0, <1>2, <2>2 DEF compoundInterest, TypeOK
    <2>4. oraclePrice' = CurrentOraclePrice
        BY <1>2 DEF compoundInterest
    <2>5. CurrentOraclePrice' >= oraclePrice'
        BY <2>3, PriceAboveBaseNext
    <2> QED BY <2>3, <2>4, <2>5
<1> QED BY <1>1, <1>2 DEF Next

------------------------------------------------------------------------------
(* The schedule of compounding *)

\* The price a period ends at, from the price it starts at.
PeriodEnd == [price \in Nat |-> price + PeriodInterest(price)]

\* The scheduled prices are what their definition by recursion says: the first
\* one is that of the deployment, and each one earns a period's interest.
LEMMA ScheduleUnfolds ==
    ASSUME TypeOK
    PROVE  /\ Schedule \in [Nat -> Nat]
           /\ Schedule[0] = deployment.price
           /\ \A k \in Nat : Schedule[k + 1] = Schedule[k] + PeriodInterest(Schedule[k])
<1> DEFINE Due(P, k) == IF k = 0 THEN deployment.price
                         ELSE P[k - 1] + PeriodInterest(P[k - 1])
<1>1. PeriodEnd \in [Nat -> Nat] /\ deployment.price \in Nat
    BY PeriodInterestNat DEF PeriodEnd, TypeOK
<1>2. PICK Q \in [Nat -> Nat] : /\ Q[0] = deployment.price
                                /\ \A k \in Nat \ {0} : Q[k] = PeriodEnd[Q[k - 1]]
    BY <1>1, RecursionExists
<1>3. ASSUME NEW k \in Nat PROVE Q[k] = Due(Q, k)
    <2>1. k # 0 => k - 1 \in Nat /\ k \in Nat \ {0}
        OBVIOUS
    <2> QED BY <1>2, <2>1 DEF PeriodEnd
<1> HIDE DEF Due
<1>4. Q = [k \in Nat |-> Due(Q, k)]
    BY <1>2, <1>3
<1>5. Schedule = CHOOSE P : P = [k \in Nat |-> Due(P, k)]
    BY DEF Schedule, Due
<1>6. Schedule = [k \in Nat |-> Due(Schedule, k)]
    BY <1>4, <1>5
<1>7. ASSUME NEW k \in Nat PROVE Schedule[k] = Due(Schedule, k)
    BY <1>6
<1>8. Schedule[0] = deployment.price
    BY <1>7 DEF Due
<1>9. ASSUME NEW k \in Nat
      PROVE  Schedule[k + 1] = Schedule[k] + PeriodInterest(Schedule[k])
    <2>1. k + 1 \in Nat /\ k + 1 # 0 /\ (k + 1) - 1 = k
        OBVIOUS
    <2> QED BY <1>7, <2>1 DEF Due
<1>10. ASSUME NEW k \in Nat PROVE Schedule[k] \in Nat
    <2> DEFINE T == {i \in Nat : Schedule[i] \notin Nat}
    <2> SUFFICES ASSUME T # {} PROVE FALSE
        OBVIOUS
    <2>1. PICK i \in T : \A j \in T : i <= j
        BY NatSmallest
    <2>2. CASE i = 0
        BY <1>1, <1>8, <2>2
    <2>3. CASE i # 0
        <3>1. i - 1 \in Nat /\ i - 1 \notin T /\ (i - 1) + 1 = i
            BY <2>1, <2>3
        <3>2. Schedule[i - 1] \in Nat
            BY <3>1
        <3>3. Schedule[i] = Schedule[i - 1] + PeriodInterest(Schedule[i - 1])
            BY <1>9, <3>1
        <3> QED BY <3>2, <3>3, PeriodInterestNat
    <2> QED BY <2>2, <2>3
<1>11. DOMAIN Schedule = Nat
    BY <1>6
<1>12. Schedule = [k \in Nat |-> Schedule[k]]
    BY <1>6
<1> QED BY <1>8, <1>9, <1>10, <1>12

\* It never falls.
LEMMA ScheduleRises ==
    ASSUME TypeOK, NEW j \in Nat, NEW k \in Nat, j <= k
    PROVE  Schedule[j] <= Schedule[k]
<1> DEFINE T == {i \in Nat : j <= i /\ ~(Schedule[j] <= Schedule[i])}
<1> SUFFICES ASSUME T # {} PROVE FALSE
    OBVIOUS
<1>1. PICK i \in T : \A h \in T : i <= h
    BY NatSmallest
<1>2. \A h \in Nat : Schedule[h] \in Nat
    BY ScheduleUnfolds
<1>3. i # j
    BY <1>2
<1>4. i - 1 \in Nat /\ j <= i - 1 /\ i - 1 \notin T /\ (i - 1) + 1 = i
    BY <1>1, <1>3
<1>5. Schedule[j] <= Schedule[i - 1]
    BY <1>4
<1>6. Schedule[i] = Schedule[i - 1] + PeriodInterest(Schedule[i - 1])
    BY <1>4, ScheduleUnfolds
<1>7. PeriodInterest(Schedule[i - 1]) \in Nat
    BY <1>2, <1>4, PeriodInterestNat
<1> QED BY <1>2, <1>4, <1>5, <1>6, <1>7

\* It only depends on the constructor's arguments.
LEMMA ScheduleIsFixed ==
    UNCHANGED <<deployment, monthlyChangeRateBasisPoints>> => Schedule' = Schedule
BY DEF Schedule, PeriodInterest

\* The period the contract is in is one of the schedule, at its scheduled price,
\* and has begun if it is not the first.
OnSchedule ==
    \E j \in Nat :
        /\ periodStartTime = deployment.start + j * TIMEFRAME
        /\ oraclePrice = Schedule[j]
        /\ j # 0 => now >= periodStartTime

\* Products with the length of a period.
LEMMA PeriodsAdd ==
    ASSUME NEW j \in Nat, NEW k \in Nat, NEW t \in Nat \ {0}
    PROVE  /\ j * t \in Nat /\ (j + 1) * t = j * t + t
           /\ j <= k => j * t <= k * t
           /\ j < k => (j + 1) * t <= k * t
<1>1. j < k => j + 1 <= k
    OBVIOUS
<1> QED BY <1>1

\* Whatever calls are still owed, the price lies between the scheduled prices of
\* the period the contract is in and of the next one.
LEMMA PriceWithinPeriod ==
    ASSUME TypeOK, NEW j \in Nat, oraclePrice = Schedule[j]
    PROVE  /\ CurrentOraclePrice <= Schedule[j + 1]
           /\ now >= periodStartTime + TIMEFRAME => CurrentOraclePrice = Schedule[j + 1]
<1> DEFINE t == now - periodStartTime
<1>0. /\ now \in Nat /\ oraclePrice \in Nat /\ periodStartTime \in Nat
      /\ TIMEFRAME \in Nat \ {0}
    BY VoltSystemOracleAssumption DEF TypeOK
<1>1. /\ Schedule[j + 1] = oraclePrice + PeriodInterest(oraclePrice)
      /\ PeriodInterest(oraclePrice) \in Nat
    BY <1>0, ScheduleUnfolds, PeriodInterestNat
<1>2. CASE periodStartTime >= now
    BY <1>0, <1>1, <1>2, PriceAccrues
<1>3. CASE periodStartTime < now
    <2>1. t \in Nat /\ t <= t + TIMEFRAME /\ t + TIMEFRAME >= TIMEFRAME
          /\ t + TIMEFRAME \in Nat
        BY <1>0, <1>3
    <2>2. CurrentOraclePrice = oraclePrice + Accrued(oraclePrice, t)
        BY <1>0, <1>3, PriceAccrues
    <2> HIDE DEF t
    <2>3. /\ Accrued(oraclePrice, t) \in Nat
          /\ Accrued(oraclePrice, t) <= Accrued(oraclePrice, t + TIMEFRAME)
          /\ t >= TIMEFRAME => Accrued(oraclePrice, t) = PeriodInterest(oraclePrice)
        BY <1>0, <2>1, AccrualRises
    <2>4. Accrued(oraclePrice, t + TIMEFRAME) = PeriodInterest(oraclePrice)
        BY <1>0, <2>1, AccrualRises
    <2> QED BY <1>0, <1>1, <2>2, <2>3, <2>4 DEF t
<1> QED BY <1>0, <1>2, <1>3

\* Time passing and compounding, however late, keep to the schedule.
LEMMA StepKeepsSchedule ==
    ASSUME TypeOK, OnSchedule, Next
    PROVE  OnSchedule'
<1>0. /\ now \in Nat /\ periodStartTime \in Nat /\ deployment.start \in Nat
      /\ TIMEFRAME \in Nat \ {0}
    BY VoltSystemOracleAssumption DEF TypeOK
<1>1. PICK j \in Nat : /\ periodStartTime = deployment.start + j * TIMEFRAME
                       /\ oraclePrice = Schedule[j]
                       /\ j # 0 => now >= periodStartTime
    BY DEF OnSchedule
<1>2. deployment' = deployment /\ Schedule' = Schedule
    BY ScheduleIsFixed DEF Next, Tick, compoundInterest
<1>3. CASE Tick
    BY <1>0, <1>1, <1>2, <1>3 DEF Tick, OnSchedule
<1>4. CASE compoundInterest
    <2>1. /\ now >= periodStartTime + TIMEFRAME /\ now' = now
          /\ periodStartTime' = periodStartTime + TIMEFRAME
          /\ oraclePrice' = CurrentOraclePrice
        BY <1>4 DEF compoundInterest
    <2>2. CurrentOraclePrice = Schedule[j + 1]
        BY <1>1, <2>1, PriceWithinPeriod
    <2>3. j * TIMEFRAME \in Nat /\ (j + 1) * TIMEFRAME = j * TIMEFRAME + TIMEFRAME
        BY <1>0, PeriodsAdd
    <2>4. periodStartTime' = deployment.start + (j + 1) * TIMEFRAME
        BY <1>0, <1>1, <2>1, <2>3
    <2>5. now' >= periodStartTime' /\ j + 1 \in Nat
        BY <2>1
    <2> QED BY <1>2, <2>1, <2>2, <2>4, <2>5 DEF OnSchedule
<1> QED BY <1>3, <1>4 DEF Next

\* On the schedule, lateness only delays.
LEMMA OnScheduleLosesNothing ==
    ASSUME TypeOK, OnSchedule
    PROVE  LatenessLosesNothing
<1> DEFINE start == deployment.start
           k == IF now < start THEN 0 ELSE (now - start) \div TIMEFRAME
<1>0. /\ now \in Nat /\ periodStartTime \in Nat /\ start \in Nat
      /\ TIMEFRAME \in Nat \ {0} /\ oraclePrice \in Nat
    BY VoltSystemOracleAssumption DEF TypeOK
<1>1. PICK j \in Nat : /\ periodStartTime = start + j * TIMEFRAME
                       /\ oraclePrice = Schedule[j]
                       /\ j # 0 => now >= periodStartTime
    BY DEF OnSchedule
<1>2. PunctualPrice = Interpolated(Schedule[k], start + k * TIMEFRAME, now)
    BY DEF PunctualPrice
<1>3. /\ k \in Nat
      /\ now >= start => k * TIMEFRAME <= now - start
                         /\ now - start < k * TIMEFRAME + TIMEFRAME
    <2>1. CASE now < start
        BY <1>0, <2>1
    <2>2. CASE now >= start
        <3> DEFINE d == now - start
        <3>1. d \in Nat /\ k = d \div TIMEFRAME
            BY <1>0, <2>2
        <3> HIDE DEF d
        <3>2. k \in Nat /\ TIMEFRAME * k <= d /\ d < TIMEFRAME * k + TIMEFRAME
            BY <1>0, <3>1, Quotient
        <3> HIDE DEF k
        <3>3. TIMEFRAME * k = k * TIMEFRAME
            BY <1>0, <3>2
        <3> QED BY <3>2, <3>3 DEF d
    <2> QED BY <1>0, <2>1, <2>2
<1>4. k = 0 => k * TIMEFRAME = 0
    BY <1>0
<1>5. now < start => k = 0
    OBVIOUS
<1> HIDE DEF k
<1>6. /\ j * TIMEFRAME \in Nat /\ k * TIMEFRAME \in Nat
      /\ (k + 1) * TIMEFRAME = k * TIMEFRAME + TIMEFRAME
      /\ (j + 1) * TIMEFRAME = j * TIMEFRAME + TIMEFRAME
      /\ k < j => (k + 1) * TIMEFRAME <= j * TIMEFRAME
      /\ j < k => (j + 1) * TIMEFRAME <= k * TIMEFRAME
      /\ j + 1 < k => ((j + 1) + 1) * TIMEFRAME <= k * TIMEFRAME
      /\ ((j + 1) + 1) * TIMEFRAME = (j + 1) * TIMEFRAME + TIMEFRAME
    BY <1>0, <1>3, PeriodsAdd
<1>7. j <= k
    <2>1. CASE j = 0
        BY <1>3, <2>1
    <2>2. CASE j # 0
        BY <1>0, <1>1, <1>3, <1>6, <2>2
    <2> QED BY <2>1, <2>2
<1>8. CASE j = k
    <2>1. CurrentOraclePrice = PunctualPrice
        BY <1>1, <1>2, <1>8 DEF CurrentOraclePrice
    <2>2. CurrentOraclePrice \in Nat
        BY PriceAccrues
    <2> QED BY <2>1, <2>2 DEF LatenessLosesNothing
<1>9. CASE j < k
    <2>1. now >= start /\ now >= periodStartTime + TIMEFRAME
        BY <1>0, <1>1, <1>3, <1>5, <1>6, <1>9
    <2>2. CurrentOraclePrice = Schedule[j + 1]
        BY <1>1, <2>1, PriceWithinPeriod
    <2>3. j + 1 <= k /\ j + 1 \in Nat
        BY <1>3, <1>9
    <2>4. Schedule[j + 1] <= Schedule[k] /\ Schedule[k] \in Nat /\ Schedule[j + 1] \in Nat
        BY <1>3, <2>3, ScheduleRises, ScheduleUnfolds
    <2> DEFINE base == start + k * TIMEFRAME
               t == now - base
    <2>5. base \in Nat /\ base <= now
        BY <1>0, <1>3, <1>6, <2>1
    <2>6. /\ PunctualPrice \in Nat /\ PunctualPrice >= Schedule[k]
          /\ base = now => PunctualPrice = Schedule[k]
        <3>1. CASE base = now
            <4> HIDE DEF base
            <4> QED BY <1>2, <2>4, <2>5, <3>1 DEF Interpolated, base
        <3>2. CASE base < now
            <4>1. t \in Nat
                BY <1>0, <2>5, <3>2
            <4>2. PunctualPrice = Schedule[k] + Accrued(Schedule[k], t)
                <5>1. ~(base >= now)
                    BY <1>0, <2>5, <3>2
                <5> QED BY <1>2, <5>1 DEF Interpolated, Accrued
            <4> HIDE DEF t, base
            <4>3. Accrued(Schedule[k], t) \in Nat
                BY <2>4, <4>1, AccrualRises
            <4> QED BY <2>4, <3>2, <4>2, <4>3, <1>0, <2>5
        <3> QED BY <1>0, <2>5, <3>1, <3>2
    <2>7. CASE now <= periodStartTime + TIMEFRAME
        <3>1. now = start + (j + 1) * TIMEFRAME
            BY <1>0, <1>1, <1>6, <2>1, <2>7
        <3>2. k = j + 1
            BY <1>0, <1>3, <1>6, <2>1, <2>3, <3>1
        <3>3. base = now
            BY <3>1, <3>2
        <3>4. PunctualPrice = CurrentOraclePrice
            BY <2>2, <2>6, <3>2, <3>3
        <3> QED BY <2>2, <2>4, <3>4 DEF LatenessLosesNothing
    <2>8. CASE ~(now <= periodStartTime + TIMEFRAME)
        <3>1. CurrentOraclePrice <= PunctualPrice
            <4>1. Schedule[j + 1] <= Schedule[k] /\ Schedule[k] <= PunctualPrice
                BY <2>4, <2>6
            <4> QED BY <2>2, <2>4, <2>6, <4>1
        <3> QED BY <2>8, <3>1 DEF LatenessLosesNothing
    <2> QED BY <2>7, <2>8
<1> QED BY <1>3, <1>7, <1>8, <1>9

------------------------------------------------------------------------------
(* The chain of oracles *)

\* The power of ten that a normalizer scales by, up or down.
Scale(n) == OR!Pow10[OR!MathMax(n, -n)]

ChainInv ==
    /\ TypeOK
    /\ scalingPriceOracle \in ScalingPriceOracles
    /\ otherFeed \in [Others -> OR!Answers]
    /\ oracle \in Oracles
    /\ backupOracle \in Oracles \cup {ZeroAddress}
    /\ doInvert \in BOOLEAN
    /\ decimalsNormalizer \in Int
    /\ Scale(decimalsNormalizer) \in Nat \ {0}

\* A power of ten is a positive number, and the zeroth is 1.
LEMMA PowersOfTen ==
    /\ OR!Pow10[0] = 1
    /\ \A n \in Nat : OR!Pow10[n] \in Nat \ {0}
<1> DEFINE Power(f, n) == IF n = 0 THEN 1 ELSE 10 * f[n - 1]
           tenfold == [n \in Nat |-> 10 * n]
<1>1. PICK P \in [Nat -> Nat] : /\ P[0] = 1
                                /\ \A k \in Nat \ {0} : P[k] = tenfold[P[k - 1]]
    <2>1. tenfold \in [Nat -> Nat] /\ 1 \in Nat
        OBVIOUS
    <2> HIDE DEF tenfold
    <2> QED BY <2>1, RecursionExists
<1>2. ASSUME NEW n \in Nat PROVE P[n] = Power(P, n)
    <2>1. n # 0 => n - 1 \in Nat /\ n \in Nat \ {0}
        OBVIOUS
    <2> QED BY <1>1, <2>1
<1> HIDE DEF Power
<1>3. P = [n \in Nat |-> Power(P, n)]
    BY <1>1, <1>2
<1>4. OR!Pow10 = CHOOSE f : f = [n \in Nat |-> Power(f, n)]
    BY DEF OR!Pow10, Power
<1>5. OR!Pow10 = [n \in Nat |-> Power(OR!Pow10, n)]
    BY <1>3, <1>4
<1>6. ASSUME NEW n \in Nat
      PROVE  OR!Pow10[n] = IF n = 0 THEN 1 ELSE 10 * OR!Pow10[n - 1]
    BY <1>5 DEF Power
<1>7. ASSUME NEW n \in Nat PROVE OR!Pow10[n] \in Nat \ {0}
    <2> DEFINE T == {k \in Nat : OR!Pow10[k] \notin Nat \ {0}}
    <2> SUFFICES ASSUME T # {} PROVE FALSE
        OBVIOUS
    <2>1. PICK k \in T : \A j \in T : k <= j
        BY NatSmallest
    <2>2. k # 0
        BY <1>6
    <2>3. k - 1 \in Nat /\ k - 1 \notin T
        BY <2>1, <2>2
    <2>4. OR!Pow10[k - 1] \in Nat \ {0} /\ OR!Pow10[k] = 10 * OR!Pow10[k - 1]
        BY <1>6, <2>2, <2>3
    <2> QED BY <2>4
<1> QED BY <1>6, <1>7

\* So what a normalizer scales by is positive.
LEMMA PowerNat ==
    ASSUME NEW n \in Int
    PROVE  Scale(n) \in Nat \ {0}
<1>1. OR!MathMax(n, -n) \in Nat
    BY DEF OR!MathMax
<1> QED BY <1>1, PowersOfTen DEF Scale

\* Changing the sign of a normalizer keeps the power.
LEMMA ScaleOfOpposite ==
    ASSUME NEW n \in Int
    PROVE  -n \in Int /\ Scale(-n) = Scale(n)
<1>1. -n \in Int /\ OR!MathMax(-n, -(-n)) = OR!MathMax(n, -n)
    BY DEF OR!MathMax
<1> QED BY <1>1 DEF Scale

\* Scaling goes up or down by that power.
LEMMA NormalizeScales ==
    ASSUME NEW peg, NEW n \in Int
    PROVE  OR!normalize(peg, n) = IF n < 0 THEN peg \div Scale(n) ELSE peg * Scale(n)
<1>1. OR!MathMax(n, -n) = IF n < 0 THEN -n ELSE n
    BY DEF OR!MathMax
<1> QED BY <1>1 DEF OR!normalize, OR!divInt, OR!mulInt, Scale

\* The chain keeps the types of all three contracts.
LEMMA ChainInvariant == ChainSpec => []ChainInv
<1>1. ChainInit => ChainInv
    <2> SUFFICES ASSUME ChainInit PROVE ChainInv
        OBVIOUS
    <2>1. TypeOK
        BY VoltSystemOracleAssumption DEF ChainInit, Init, TypeOK
    <2>2. /\ scalingPriceOracle \in ScalingPriceOracles
          /\ otherFeed \in [Others -> OR!Answers]
          /\ oracle \in Oracles /\ backupOracle \in Oracles \cup {ZeroAddress}
          /\ decimalsNormalizer \in Normalizers /\ doInvert \in Inversions
        BY DEF ChainInit, OR!Init
    <2>3. doInvert \in BOOLEAN
        BY <2>2, OraclePassThroughAssumption, Zenon
    <2> QED BY <2>1, <2>2, <2>3, OraclePassThroughAssumption, PowerNat
            DEF ChainInv, Scale
<1>2. ChainInv /\ [ChainNext]_chainVars => ChainInv'
    <2> SUFFICES ASSUME ChainInv, [ChainNext]_chainVars PROVE ChainInv'
        OBVIOUS
    <2>1. CASE PriceStep
        <3>1. TypeOK'
            BY <2>1, PriceStepRises DEF PriceStep, ChainInv
        <3> QED BY <2>1, <3>1 DEF PriceStep, ChainInv, refVars, Scale
    <2>2. TypeOK' \/ ~UNCHANGED vars
        BY DEF ChainInv, vars, TypeOK
    <2>3. CASE Repoint
        BY <2>2, <2>3
        DEF Repoint, updateScalingPriceOracle, ChainInv, refVars, Scale
    <2>4. CASE FeedStep
        BY <2>2, <2>4 DEF FeedStep, FeedMoves, ChainInv, refVars, Scale
    <2>5. CASE RefStep
        <3>0. /\ TypeOK' /\ scalingPriceOracle' \in ScalingPriceOracles
              /\ otherFeed' \in [Others -> OR!Answers]
            BY <2>2, <2>5 DEF RefStep, priceVars, vars, ChainInv
        <3>1. ASSUME NEW c \in Accounts, NEW o \in Oracles \cup {ZeroAddress},
                     OR!setOracle(c, o) \/ OR!setBackupOracle(c, o)
              PROVE  ChainInv'
            BY <3>0, <3>1 DEF OR!setOracle, OR!setBackupOracle, ChainInv, Scale
        <3>2. ASSUME NEW c \in Accounts, NEW b \in Inversions, OR!setDoInvert(c, b)
              PROVE  ChainInv'
            <4>1. doInvert' \in BOOLEAN
                BY <3>2, OraclePassThroughAssumption, Zenon DEF OR!setDoInvert
            <4>2. /\ decimalsNormalizer' \in Int
                  /\ Scale(decimalsNormalizer') \in Nat \ {0}
                BY <3>2, ScaleOfOpposite DEF OR!setDoInvert, ChainInv
            <4>3. Scale(decimalsNormalizer)' = Scale(decimalsNormalizer')
                BY DEF Scale
            <4>4. UNCHANGED <<oracle, backupOracle>>
                BY <3>2 DEF OR!setDoInvert
            <4> QED BY <3>0, <4>1, <4>2, <4>3, <4>4 DEF ChainInv
        <3>3. ASSUME NEW c \in Accounts, NEW n \in Normalizers,
                     OR!setDecimalsNormalizer(c, n)
              PROVE  ChainInv'
            BY <3>0, <3>3, OraclePassThroughAssumption, PowerNat
            DEF OR!setDecimalsNormalizer, ChainInv, Scale
        <3> QED BY <2>5, <3>1, <3>2, <3>3 DEF RefStep, OR!OracleRefCall
    <2>6. CASE UNCHANGED chainVars
        BY <2>2, <2>6 DEF chainVars, priceVars, refVars, vars, ChainInv, Scale
    <2> QED BY <2>1, <2>3, <2>4, <2>5, <2>6 DEF ChainNext
<1> QED BY <1>1, <1>2, PTL DEF ChainSpec

\* Whatever governance does around it and however late interest is compounded,
\* the price of VOLT never falls.
THEOREM VoltNeverFalls == ChainSpec => PriceNeverFalls
<1>1. ChainInv /\ [ChainNext]_chainVars
        => [CurrentOraclePrice' >= CurrentOraclePrice]_vars
    <2> SUFFICES ASSUME ChainInv, [ChainNext]_chainVars, ~UNCHANGED vars
                 PROVE  CurrentOraclePrice' >= CurrentOraclePrice
        OBVIOUS
    <2>1. Next
        BY DEF ChainNext, PriceStep, RefStep, Repoint, FeedStep, FeedMoves,
            updateScalingPriceOracle, chainVars, priceVars, vars
    <2> QED BY <2>1, PriceStepRises DEF ChainInv
<1> QED BY <1>1, ChainInvariant, PTL DEF ChainSpec, PriceNeverFalls

\* However late compoundInterest() is called, and whatever governance does
\* around the oracle, the price of VOLT is never above that of a punctual caller
\* and is that price as soon as the calls owed have been made.
THEOREM LatenessOnlyDelays == ChainSpec => []LatenessLosesNothing
<1>1. ChainInit => OnSchedule
    <2> SUFFICES ASSUME ChainInit PROVE OnSchedule
        OBVIOUS
    <2>1. /\ TypeOK /\ deployment.start = periodStartTime
          /\ deployment.price = oraclePrice
        BY VoltSystemOracleAssumption DEF ChainInit, Init, TypeOK
    <2>2. oraclePrice = Schedule[0]
        BY <2>1, ScheduleUnfolds
    <2>3. deployment.start + 0 * TIMEFRAME = periodStartTime
        BY <2>1, VoltSystemOracleAssumption DEF TypeOK
    <2> QED BY <2>2, <2>3 DEF OnSchedule
<1>2. ChainInv /\ OnSchedule /\ [ChainNext]_chainVars => OnSchedule'
    <2> SUFFICES ASSUME ChainInv, OnSchedule, [ChainNext]_chainVars
                 PROVE  OnSchedule'
        OBVIOUS
    <2>1. CASE UNCHANGED vars
        <3>1. Schedule' = Schedule
            BY <2>1, ScheduleIsFixed DEF vars
        <3> QED BY <2>1, <3>1 DEF vars, OnSchedule
    <2>2. CASE ~UNCHANGED vars
        <3>1. Next
            BY <2>2 DEF ChainNext, PriceStep, RefStep, Repoint, FeedStep, FeedMoves,
                updateScalingPriceOracle, chainVars, priceVars, vars
        <3> QED BY <3>1, StepKeepsSchedule DEF ChainInv
    <2> QED BY <2>1, <2>2
<1>3. ChainInv /\ OnSchedule => LatenessLosesNothing
    BY OnScheduleLosesNothing DEF ChainInv
<1> QED BY <1>1, <1>2, <1>3, ChainInvariant, PTL DEF ChainSpec

\* What readOracle() makes of an answer.
Peg(answer) ==
    LET peg == IF doInvert THEN (BASE * BASE) \div answer ELSE answer
    IN  IF decimalsNormalizer < 0 THEN peg \div Scale(decimalsNormalizer)
                                  ELSE peg * Scale(decimalsNormalizer)

\* readOracle() is that, applied to the answer of the oracle it uses.
LEMMA ReadOracleIsPeg ==
    ASSUME ChainInv
    PROVE  OR!readOracle = Peg(feed[OR!Source].value)
BY NormalizeScales
DEF OR!readOracle, OR!invert, OR!divDec, OR!one, OR!getPartial, ChainInv, Peg

\* A higher answer makes no lower price, or no higher one where it is inverted.
LEMMA PegIsMonotone ==
    ASSUME ChainInv, NEW a \in Nat, NEW b \in Nat, a <= b, doInvert => a # 0
    PROVE  IF doInvert THEN Peg(b) <= Peg(a) ELSE Peg(a) <= Peg(b)
<1> DEFINE s == Scale(decimalsNormalizer)
<1>0. s \in Nat \ {0} /\ BASE * BASE \in Nat /\ decimalsNormalizer \in Int
    BY OraclePassThroughAssumption DEF ChainInv
<1>1. ASSUME NEW x \in Nat, NEW y \in Nat, x <= y
      PROVE  x \div s <= y \div s /\ x * s <= y * s
    BY <1>0, <1>1, QuotientRises, ProductRises
<1>2. doInvert => /\ (BASE * BASE) \div a \in Nat
                  /\ (BASE * BASE) \div b \in Nat
                  /\ (BASE * BASE) \div b <= (BASE * BASE) \div a
    BY <1>0, QuotientFalls, Quotient
<1> HIDE DEF s
<1>3. CASE doInvert
    BY <1>1, <1>2, <1>3 DEF Peg, s
<1>4. CASE ~doInvert
    BY <1>1, <1>4 DEF Peg, s
<1> QED BY <1>3, <1>4

\* To a module that reads the price of VOLT through the pass-through, it moves
\* one way only: up, or down if it inverts it, at any scaling.
THEOREM PegMovesOneWay == ChainSpec => PegFollowsVolt
<1>1. ChainInv /\ [ChainNext]_chainVars
        => [/\ UNCHANGED <<refVars, scalingPriceOracle>>
            /\ oracle = PassThrough /\ scalingPriceOracle = VoltOracle
            /\ OR!OracleReadable
            => /\ OR!OracleReadable'
               /\ IF doInvert THEN OR!readOracle' <= OR!readOracle
                              ELSE OR!readOracle' >= OR!readOracle]_chainVars
    <2> SUFFICES ASSUME ChainInv, ChainNext,
                        UNCHANGED <<refVars, scalingPriceOracle>>,
                        oracle = PassThrough, scalingPriceOracle = VoltOracle,
                        OR!OracleReadable
                 PROVE  /\ OR!OracleReadable'
                        /\ IF doInvert THEN OR!readOracle' <= OR!readOracle
                                       ELSE OR!readOracle' >= OR!readOracle
        OBVIOUS
    <2>0. UNCHANGED <<oracle, backupOracle, doInvert, decimalsNormalizer,
                      scalingPriceOracle>>
        BY DEF refVars
    <2>1. CurrentOraclePrice \in Nat /\ CurrentOraclePrice' \in Nat
          /\ CurrentOraclePrice <= CurrentOraclePrice'
        <3>1. CASE Next
            BY <3>1, PriceStepRises, PriceAccrues, PriceNatNext DEF ChainInv
        <3>2. CASE UNCHANGED vars
            <4>1. CurrentOraclePrice' = CurrentOraclePrice
                BY <3>2 DEF vars, CurrentOraclePrice, Interpolated, PeriodInterest
            <4> QED BY <4>1, PriceAccrues DEF ChainInv
        <3> QED BY <3>1, <3>2 DEF ChainNext, PriceStep, RefStep, Repoint, FeedStep,
                FeedMoves, updateScalingPriceOracle, priceVars, vars
    <2>2. /\ OR!Source = PassThrough /\ OR!Source' = PassThrough
          /\ feed[PassThrough].value = CurrentOraclePrice
          /\ (feed[PassThrough].value)' = CurrentOraclePrice'
          /\ feed[PassThrough].valid /\ (feed[PassThrough].valid)'
        BY <2>0, OraclePassThroughAssumption DEF OR!Source, feed, read, ScalingPrice
    <2>3. doInvert => CurrentOraclePrice # 0
        BY <2>2 DEF OR!OracleReadable
    <2>4. OR!OracleReadable'
        BY <2>0, <2>1, <2>2, <2>3 DEF OR!OracleReadable
    <2>5. /\ OR!readOracle = Peg(CurrentOraclePrice)
          /\ OR!readOracle' = Peg(CurrentOraclePrice')
        <3>1. OR!readOracle = Peg(CurrentOraclePrice)
            BY <2>2, ReadOracleIsPeg
        <3>2. OR!readOracle' = Peg(CurrentOraclePrice)'
            BY <2>0, <2>2, NormalizeScales
            DEF OR!readOracle, OR!invert, OR!divDec, OR!one, OR!getPartial,
                ChainInv, Peg, Scale
        <3>3. Peg(CurrentOraclePrice)' = Peg(CurrentOraclePrice')
            BY <2>0 DEF Peg, Scale
        <3> QED BY <3>1, <3>2, <3>3
    <2> QED BY <2>1, <2>3, <2>4, <2>5, PegIsMonotone
<1> QED BY <1>1, ChainInvariant, PTL DEF ChainSpec, PegFollowsVolt

\* A price and the inverse of it, with the one scaled up and the other down:
\* their product is 1.0, short of it by what two divisions truncate.
LEMMA ScaledReciprocal ==
    ASSUME NEW one \in Nat, NEW v \in Nat \ {0}, NEW s \in Nat \ {0},
           NEW q, q = one \div v, NEW t, t = q \div s, NEW a, a = v \div s
    PROVE  /\ (v * s) * t <= one
           /\ one - (v * s) * t <= s * ((v * s) + t + 1)
           /\ a * (q * s) <= one
           /\ one - a * (q * s) <= s * (a + (q * s) + 1)
<1>1. q \in Nat /\ v * q <= one /\ one < v * q + v
    BY Quotient
<1>2. t \in Nat /\ s * t <= q /\ q < s * t + s
    BY <1>1, Quotient
<1>3. a \in Nat /\ s * a <= v /\ v < s * a + s
    BY Quotient
<1>4. /\ (v * s) * t <= one
      /\ one - (v * s) * t <= s * ((v * s) + t + 1)
    <2> DEFINE st == s * t
               vs == v * s
    <2>1. st \in Nat /\ st <= q /\ q + 1 <= st + s /\ vs \in Nat
        BY <1>1, <1>2
    <2>2. vs * t = v * st
        BY <1>2
    <2>3. s * (vs + t + 1) = s * vs + st + s
        BY <1>2, <2>1
    <2>4. vs <= s * vs
        <3> HIDE DEF vs
        <3> QED BY <2>1
    <2> HIDE DEF st
    <2>5. v * st <= v * q /\ v * (q + 1) <= v * (st + s)
        BY <1>1, <2>1
    <2>6. v * (st + s) = v * st + vs /\ v * (q + 1) = v * q + v
        BY <1>1, <2>1
    <2> HIDE DEF vs
    <2>7. v * st \in Nat /\ v * q \in Nat /\ s * vs \in Nat
        BY <1>1, <2>1
    <2>8. v * st <= one /\ one - v * st <= s * vs + st + s
        BY <1>1, <2>1, <2>4, <2>5, <2>6, <2>7
    <2> QED BY <2>2, <2>3, <2>8 DEF vs
<1>5. /\ a * (q * s) <= one
      /\ one - a * (q * s) <= s * (a + (q * s) + 1)
    <2> DEFINE sa == s * a
               qs == q * s
    <2>1. sa \in Nat /\ sa <= v /\ v + 1 <= sa + s /\ qs \in Nat
        BY <1>1, <1>3
    <2>2. a * qs = sa * q
        BY <1>1, <1>3
    <2>3. s * (a + qs + 1) = sa + s * qs + s
        BY <1>3, <2>1
    <2>4. qs <= s * qs
        <3> HIDE DEF qs
        <3> QED BY <2>1
    <2> HIDE DEF sa
    <2>5. sa * q <= v * q /\ v * q <= (sa + s) * q
        BY <1>1, <2>1
    <2>6. (sa + s) * q = sa * q + qs
        BY <1>1, <2>1
    <2> HIDE DEF qs
    <2>7. sa * q \in Nat /\ v * q \in Nat /\ s * qs \in Nat
        BY <1>1, <2>1
    <2>8. sa * q <= one /\ one - sa * q <= sa + s * qs + s
        BY <1>1, <2>1, <2>4, <2>5, <2>6, <2>7
    <2> QED BY <2>2, <2>3, <2>8 DEF qs
<1> QED BY <1>4, <1>5

\* Every oracle answers with a natural number.
LEMMA AnswersAreNatural ==
    ASSUME ChainInv, NEW o \in Oracles
    PROVE  feed[o].value \in Nat
<1>1. ScalingPrice \in Nat
    BY PriceAccrues, OraclePassThroughAssumption
    DEF ChainInv, ScalingPrice, ScalingPriceOracles
<1>2. CASE o = PassThrough
    BY <1>1, <1>2 DEF feed, read
<1>3. CASE o # PassThrough
    <2>1. otherFeed[o] \in OR!Answers
        BY <1>3 DEF ChainInv, Others
    <2> QED BY <1>3, <2>1, OraclePassThroughAssumption DEF feed, OR!Answers
<1> QED BY <1>2, <1>3

\* Switching doInvert turns the price a module reads into its reciprocal, up to
\* what the divisions truncate, at any price and any scaling.
THEOREM InversionKeepsProduct == ChainSpec => InversionIsReciprocal
<1> DEFINE Reciprocal ==
               LET s == OR!Pow10[OR!MathMax(decimalsNormalizer, -decimalsNormalizer)]
               IN  /\ OR!readOracle * OR!readOracle' <= BASE * BASE
                   /\ BASE * BASE - OR!readOracle * OR!readOracle'
                         <= s * (OR!readOracle + OR!readOracle' + 1)
<1>1. ChainInv /\ ChainInv' /\ [ChainNext]_chainVars
        => [doInvert' # doInvert /\ OR!OracleReadable /\ OR!OracleReadable'
               => Reciprocal]_(OR!vars)
    <2> SUFFICES ASSUME ChainInv, ChainInv', [ChainNext]_chainVars,
                        doInvert' # doInvert,
                        OR!OracleReadable, OR!OracleReadable'
                 PROVE  Reciprocal
        OBVIOUS
    <2>1. PICK b \in Inversions : \E c \in Accounts : OR!setDoInvert(c, b)
        BY DEF ChainNext, PriceStep, RefStep, Repoint, FeedStep, FeedMoves,
            updateScalingPriceOracle, chainVars, refVars, OR!OracleRefCall,
            OR!setOracle, OR!setBackupOracle, OR!setDecimalsNormalizer
    <2>2. /\ UNCHANGED <<oracle, backupOracle, feed>>
          /\ decimalsNormalizer' = -decimalsNormalizer
          /\ doInvert' = ~doInvert
        <3>1. doInvert \in BOOLEAN /\ doInvert' \in BOOLEAN
            BY DEF ChainInv
        <3> QED BY <2>1, <3>1 DEF OR!setDoInvert
    <2> DEFINE v == feed[OR!Source].value
               n == decimalsNormalizer
               s == Scale(n)
               q == (BASE * BASE) \div v
    <2>3. feed[OR!Source]' = feed[OR!Source] /\ v' = v
        BY <2>2 DEF OR!Source
    <2>4. v \in Nat \ {0}
        <3>1. v \in Nat
            <4>1. OR!Source \in Oracles
                BY DEF ChainInv, OR!Source, OR!OracleReadable
            <4> QED BY <4>1, AnswersAreNatural
        <3>2. v # 0
            BY <2>2, <2>3 DEF OR!OracleReadable
        <3> QED BY <3>1, <3>2
    <2>5. /\ n \in Int /\ s \in Nat \ {0} /\ Scale(-n) = s
          /\ BASE * BASE \in Nat /\ q \in Nat /\ (n = 0 => s = 1)
        <3>1. n = 0 => s = 1
            BY PowersOfTen DEF Scale, OR!MathMax
        <3>2. n \in Int /\ s \in Nat \ {0}
            BY DEF ChainInv
        <3>3. Scale(-n) = s
            BY <3>2, ScaleOfOpposite
        <3>4. BASE * BASE \in Nat
            BY OraclePassThroughAssumption
        <3>5. q \in Nat
            BY <2>4, <3>4, Quotient
        <3> QED BY <3>1, <3>2, <3>3, <3>4, <3>5
    <2> DEFINE Scaled(x, k) == IF k < 0 THEN x \div s ELSE x * s
    <2>6. /\ OR!readOracle = Scaled(IF doInvert THEN q ELSE v, n)
          /\ OR!readOracle' = Scaled(IF doInvert THEN v ELSE q, -n)
        <3>1. OR!readOracle = Scaled(IF doInvert THEN q ELSE v, n)
            BY <2>5, NormalizeScales
            DEF OR!readOracle, OR!invert, OR!divDec, OR!one, OR!getPartial
        <3>2. OR!readOracle' = OR!normalize(IF doInvert THEN v ELSE q, -n)
            BY <2>2, <2>3
            DEF OR!readOracle, OR!invert, OR!divDec, OR!one, OR!getPartial
        <3> QED BY <2>5, <3>1, <3>2, NormalizeScales
    <2> DEFINE t == q \div s
               a == v \div s
    <2>7. /\ (v * s) * t <= BASE * BASE
          /\ BASE * BASE - (v * s) * t <= s * ((v * s) + t + 1)
          /\ a * (q * s) <= BASE * BASE
          /\ BASE * BASE - a * (q * s) <= s * (a + (q * s) + 1)
        BY <2>4, <2>5, ScaledReciprocal
    <2>8. t \in Nat /\ a \in Nat /\ v * s \in Nat /\ q * s \in Nat
        BY <2>4, <2>5, Quotient
    <2>9. (n = 0) => (v * s = a /\ q * s = t)
        BY <2>4, <2>5
    <2> DEFINE x == OR!readOracle
               y == OR!readOracle'
    <2>10. \/ (x = v * s /\ y = t) \/ (x = t /\ y = v * s)
           \/ (x = a /\ y = q * s) \/ (x = q * s /\ y = a)
        BY <2>2, <2>5, <2>6, <2>9
    <2> DEFINE vs == v * s
               qs == q * s
    <2> HIDE DEF v, q, t, a, x, y, vs, qs
    <2>11. x * y <= BASE * BASE /\ BASE * BASE - x * y <= s * (x + y + 1)
        <3> HIDE DEF s
        <3>1. vs * t = t * vs /\ a * qs = qs * a
            BY <2>8 DEF vs, qs
        <3>2. vs + t = t + vs /\ a + qs = qs + a
            BY <2>8 DEF vs, qs
        <3> QED BY <2>7, <2>10, <3>1, <3>2 DEF vs, qs
    <2> QED BY <2>11 DEF x, y, Scale
<1>2. ChainSpec => [][doInvert' # doInvert /\ OR!OracleReadable /\ OR!OracleReadable'
               => Reciprocal]_(OR!vars)
    <2> HIDE DEF Reciprocal
    <2> QED BY <1>1, ChainInvariant, PTL DEF ChainSpec
<1> QED BY <1>2 DEF InversionIsReciprocal, OR!InversionIsReciprocal
==============================================================================
