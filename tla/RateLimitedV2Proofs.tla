------------------------- MODULE RateLimitedV2Proofs -------------------------
(***************************************************************************)
(* Proofs about RateLimitedV2, for every choice of rates, caps, amounts    *)
(* and accounts.                                                           *)
(*                                                                         *)
(* TypeOK is inductive.  Under it, buffer() is a natural number that no    *)
(* operation but Tick and replenishBuffer can raise, and a Tick raises it  *)
(* by no more than the rate; RateLimitBound follows by induction, and the  *)
(* same bound counted from any moment on (AnyWindowIsLimited).  The        *)
(* refinement rests on one fact about the lazy buffer: one more second     *)
(* adds rateLimitPerSecond to it, capped (BufferAfterTick).                *)
(***************************************************************************)
EXTENDS RateLimitedV2, WellFoundedInduction, TLAPS

\* Math.min returns one of its arguments and is below both of them.
LEMMA MathMinIsMin ==
    ASSUME NEW a \in Int, NEW b \in Int
    PROVE  /\ MathMin(a, b) \in Int
           /\ MathMin(a, b) <= a
           /\ MathMin(a, b) <= b
           /\ MathMin(a, b) = a \/ MathMin(a, b) = b
           /\ a \in Nat /\ b \in Nat => MathMin(a, b) \in Nat
BY DEF MathMin

\* The accrual since the last use is a natural number.
LEMMA AccrualNat ==
    ASSUME NEW r \in Nat, NEW t \in Nat, NEW u \in 0..t
    PROVE  /\ t - u \in Nat
           /\ r * (t - u) \in Nat
           /\ r * ((t + 1) - u) = r * (t - u) + r
OBVIOUS

\* buffer() never underflows: it is a natural number not above the cap.
LEMMA BufferNat ==
    TypeOK => Buffer \in Nat /\ Buffer <= bufferCap
<1> SUFFICES ASSUME TypeOK PROVE Buffer \in Nat /\ Buffer <= bufferCap
    OBVIOUS
<1> DEFINE acc == rateLimitPerSecond * (now - lastBufferUsedTime)
<1>1. acc \in Nat
    BY AccrualNat, RateLimitedV2Assumption DEF TypeOK
<1>2. bufferStored + acc \in Nat /\ bufferCap \in Nat
    BY <1>1 DEF TypeOK
<1> HIDE DEF acc
<1>3. /\ MathMin(bufferStored + acc, bufferCap) \in Nat
      /\ MathMin(bufferStored + acc, bufferCap) <= bufferCap
    BY <1>2, MathMinIsMin
<1> QED BY <1>3 DEF Buffer, acc

\* No call and no second breaks a type.
LEMMA TypeStep == TypeOK /\ [Next]_vars => TypeOK'
<1> SUFFICES ASSUME TypeOK, [Next]_vars PROVE TypeOK'
    OBVIOUS
<1>0. Buffer \in Nat /\ Buffer <= bufferCap
    BY BufferNat
<1>1. CASE Tick
    BY <1>1 DEF Tick, TypeOK
<1>2. ASSUME NEW a \in Amounts, depleteBuffer(a) PROVE TypeOK'
    BY <1>0, <1>2, RateLimitedV2Assumption DEF depleteBuffer, TypeOK
<1>3. ASSUME NEW a \in Amounts, replenishBuffer(a) PROVE TypeOK'
    BY <1>0, <1>3, RateLimitedV2Assumption
    DEF replenishBuffer, TypeOK, MathMin
<1>4. ASSUME NEW c \in Accounts, NEW r \in Rates,
             setRateLimitPerSecond(c, r)
      PROVE  TypeOK'
    BY <1>0, <1>4, RateLimitedV2Assumption
    DEF setRateLimitPerSecond, updateBufferStored, TypeOK
<1>5. ASSUME NEW c \in Accounts, NEW b \in Caps, setBufferCap(c, b)
      PROVE  TypeOK'
    BY <1>0, <1>5, RateLimitedV2Assumption
    DEF setBufferCap, updateBufferStored, TypeOK
<1>6. CASE UNCHANGED vars
    BY <1>6 DEF vars, TypeOK
<1> QED BY <1>1, <1>2, <1>3, <1>4, <1>5, <1>6 DEF Next

\* Every state of every behaviour of RateLimitedV2 is well typed; in
\* particular bufferStored never goes below zero, the rate stays within
\* MAX_RATE_LIMIT_PER_SECOND and the timestamp is never in the future.
THEOREM TypeCorrect == Spec => []TypeOK
<1>1. Init => TypeOK
    BY RateLimitedV2Assumption DEF Init, TypeOK
<1> QED BY <1>1, TypeStep, PTL DEF Spec

\* One more second adds the rate to the lazy buffer, up to the cap: the
\* reconstruction from a timestamp follows the eager bucket.
LEMMA BufferAfterTick ==
    TypeOK /\ Tick => Buffer' = MathMin(Buffer + rateLimitPerSecond, bufferCap)
<1> SUFFICES ASSUME TypeOK, Tick
             PROVE  Buffer' = MathMin(Buffer + rateLimitPerSecond, bufferCap)
    OBVIOUS
<1> DEFINE acc == rateLimitPerSecond * (now - lastBufferUsedTime)
<1>1. /\ acc \in Nat
      /\ rateLimitPerSecond \in Nat
      /\ rateLimitPerSecond * ((now + 1) - lastBufferUsedTime)
            = acc + rateLimitPerSecond
    BY AccrualNat, RateLimitedV2Assumption DEF TypeOK
<1>2. Buffer' = MathMin(bufferStored
                    + rateLimitPerSecond * ((now + 1) - lastBufferUsedTime),
                        bufferCap)
    BY DEF Tick, Buffer
<1>3. Buffer = MathMin(bufferStored + acc, bufferCap)
    BY DEF Buffer
<1> HIDE DEF acc
<1> QED BY <1>1, <1>2, <1>3 DEF MathMin, TypeOK

\* Nothing accrues in no time.
LEMMA NoAccrual ==
    ASSUME NEW s \in Nat, NEW r \in Nat, NEW t \in Nat
    PROVE  s + r * (t - t) = s
<1>1. t - t = 0
    OBVIOUS
<1>2. r * 0 = 0
    OBVIOUS
<1> QED BY <1>1, <1>2

\* A buffer stored at this very second is capped by the cap in force.
LEMMA BufferWhenFresh ==
    TypeOK' /\ lastBufferUsedTime' = now'
        => Buffer' = MathMin(bufferStored', bufferCap')
<1> SUFFICES ASSUME TypeOK', lastBufferUsedTime' = now'
             PROVE  Buffer' = MathMin(bufferStored', bufferCap')
    OBVIOUS
<1>1. rateLimitPerSecond' \in Nat /\ now' \in Nat /\ bufferStored' \in Nat
    BY RateLimitedV2Assumption DEF TypeOK
<1>2. bufferStored' + rateLimitPerSecond' * (now' - now') = bufferStored'
    BY <1>1, NoAccrual
<1>3. Buffer' = MathMin(bufferStored' + rateLimitPerSecond' * (now' - now'),
                        bufferCap')
    BY DEF Buffer
<1> QED BY <1>2, <1>3

\* What each call does to buffer(), also where another contract makes it: a
\* depletion takes what it is asked for, a replenishment adds no more than that,
\* a second adds the rate at most, and governance adds nothing.
LEMMA DepleteEffect ==
    ASSUME TypeOK, NEW a \in Nat, depleteBuffer(a)
    PROVE  TypeOK' /\ Buffer' = Buffer - a
<1>0. Buffer \in Nat /\ Buffer <= bufferCap
    BY BufferNat
<1>1. TypeOK'
    BY <1>0, RateLimitedV2Assumption DEF depleteBuffer, TypeOK
<1>2. Buffer' = MathMin(Buffer - a, bufferCap)
    BY <1>1, BufferWhenFresh DEF depleteBuffer
<1> QED BY <1>0, <1>1, <1>2 DEF MathMin, TypeOK

\* A replenishment leaves the buffer at most that much fuller.
LEMMA ReplenishEffect ==
    ASSUME TypeOK, NEW a \in Nat, replenishBuffer(a)
    PROVE  TypeOK' /\ Buffer' <= Buffer + a
<1>0. Buffer \in Nat /\ Buffer <= bufferCap /\ bufferCap \in Nat
    BY BufferNat DEF TypeOK
<1>1. TypeOK'
    BY <1>0, RateLimitedV2Assumption DEF replenishBuffer, TypeOK, MathMin
<1>2. CASE UNCHANGED <<lastBufferUsedTime, bufferStored>>
    <2>1. Buffer' = Buffer
        BY <1>2 DEF replenishBuffer, Buffer
    <2> QED BY <1>0, <1>1, <2>1
<1>3. CASE lastBufferUsedTime' = now /\ bufferStored' = MathMin(Buffer + a, bufferCap)
    <2>1. Buffer' = MathMin(MathMin(Buffer + a, bufferCap), bufferCap)
        BY <1>1, <1>3, BufferWhenFresh DEF replenishBuffer
    <2> QED BY <1>0, <1>1, <2>1 DEF MathMin
<1> QED BY <1>2, <1>3 DEF replenishBuffer

\* A second adds the maximum rate to the buffer at most.
LEMMA TickEffect ==
    ASSUME TypeOK, Tick
    PROVE  TypeOK' /\ Buffer' <= Buffer + MAX_RATE_LIMIT_PER_SECOND
<1>1. TypeOK'
    BY DEF Tick, TypeOK
<1>2. Buffer' = MathMin(Buffer + rateLimitPerSecond, bufferCap)
    BY BufferAfterTick
<1>3. /\ Buffer \in Nat /\ bufferCap \in Nat
      /\ rateLimitPerSecond \in 0..MAX_RATE_LIMIT_PER_SECOND
      /\ MAX_RATE_LIMIT_PER_SECOND \in Nat
    BY BufferNat, RateLimitedV2Assumption DEF TypeOK
<1> QED BY <1>1, <1>2, <1>3 DEF MathMin

\* No change of rate or cap adds to the buffer.
LEMMA GovernanceEffect ==
    ASSUME TypeOK, NEW caller,
           \/ \E r \in Nat : setRateLimitPerSecond(caller, r)
           \/ \E b \in Nat : setBufferCap(caller, b)
    PROVE  TypeOK' /\ Buffer' <= Buffer
<1>0. /\ Buffer \in Nat /\ Buffer <= bufferCap /\ bufferCap \in Nat
      /\ MAX_RATE_LIMIT_PER_SECOND \in Nat
    BY BufferNat, RateLimitedV2Assumption DEF TypeOK
<1>1. TypeOK'
    BY <1>0 DEF setRateLimitPerSecond, setBufferCap, updateBufferStored, TypeOK
<1>2. Buffer' = MathMin(Buffer, bufferCap') /\ bufferCap' \in Nat
    BY <1>1, BufferWhenFresh
    DEF setRateLimitPerSecond, setBufferCap, updateBufferStored, TypeOK
<1> QED BY <1>0, <1>1, <1>2 DEF MathMin

\* ... and to the unit: what does not fit under the cap is lost, for the buffer
\* and for the account of what was used.
LEMMA ReplenishExactly ==
    ASSUME TypeOK, NEW a \in Nat, replenishBuffer(a)
    PROVE  /\ Buffer' = MathMin(Buffer + a, bufferCap)
           /\ netUsed' = netUsed - (Buffer' - Buffer)
<1>0. /\ Buffer \in Nat /\ Buffer <= bufferCap /\ bufferCap \in Nat
      /\ netUsed \in Int
    BY BufferNat DEF TypeOK
<1>1. TypeOK'
    BY ReplenishEffect
<1>2. CASE Buffer = bufferCap
    <2>1. Buffer' = Buffer /\ netUsed' = netUsed
        BY <1>2 DEF replenishBuffer, Buffer
    <2>2. Buffer = MathMin(Buffer + a, bufferCap)
        BY <1>0, <1>2 DEF MathMin
    <2> QED BY <1>0, <2>1, <2>2
<1>3. CASE Buffer # bufferCap
    <2>1. /\ lastBufferUsedTime' = now' /\ bufferCap' = bufferCap
          /\ bufferStored' = MathMin(Buffer + a, bufferCap)
          /\ netUsed' = netUsed - (bufferStored' - Buffer)
        BY <1>3 DEF replenishBuffer
    <2>2. Buffer' = MathMin(bufferStored', bufferCap)
        BY <1>1, <2>1, BufferWhenFresh
    <2>3. Buffer' = bufferStored'
        BY <1>0, <2>1, <2>2 DEF MathMin
    <2> QED BY <2>1, <2>3
<1> QED BY <1>2, <1>3

\* A new rate leaves the buffer as it is.
LEMMA RateExactly ==
    ASSUME TypeOK, NEW caller, NEW r \in Nat, setRateLimitPerSecond(caller, r)
    PROVE  Buffer' = Buffer
<1>0. Buffer \in Nat /\ Buffer <= bufferCap /\ bufferCap \in Nat
    BY BufferNat DEF TypeOK
<1>1. /\ TypeOK' /\ lastBufferUsedTime' = now'
      /\ bufferStored' = Buffer /\ bufferCap' = bufferCap
    BY GovernanceEffect DEF setRateLimitPerSecond, updateBufferStored
<1> QED BY <1>0, <1>1, BufferWhenFresh DEF MathMin

\* A new cap cuts off what is above it.
LEMMA CapExactly ==
    ASSUME TypeOK, NEW caller, NEW b \in Nat, setBufferCap(caller, b)
    PROVE  Buffer' = MathMin(Buffer, b)
<1>1. /\ TypeOK' /\ lastBufferUsedTime' = now'
      /\ bufferStored' = Buffer /\ bufferCap' = b
    BY GovernanceEffect DEF setBufferCap, updateBufferStored
<1> QED BY <1>1, BufferWhenFresh

\* Every step of RateLimitedV2 is a step of the bucket, or leaves it alone.
LEMMA StepSimulation ==
    TypeOK /\ TypeOK' /\ [Next]_vars => [TB!Next]_(TB!vars)
<1> SUFFICES ASSUME TypeOK, TypeOK', [Next]_vars PROVE [TB!Next]_(TB!vars)
    OBVIOUS
<1>0. Buffer \in Nat /\ Buffer <= bufferCap /\ bufferCap \in Nat
    BY BufferNat DEF TypeOK
<1>1. CASE Tick
    <2>1. TB!Tick
        BY <1>1, BufferAfterTick DEF Tick, TB!Tick, TB!MathMin, MathMin
    <2> QED BY <2>1 DEF TB!Next
<1>2. ASSUME NEW a \in Amounts, depleteBuffer(a) PROVE TB!Next
    <2>1. Buffer' = Buffer - a
        BY <1>2, DepleteEffect, RateLimitedV2Assumption
    <2>2. TB!Draw(a)
        BY <1>2, <2>1 DEF depleteBuffer, TB!Draw
    <2> QED BY <2>2 DEF TB!Next
<1>3. ASSUME NEW a \in Amounts, replenishBuffer(a) PROVE TB!Next
    <2>1. /\ Buffer' = MathMin(Buffer + a, bufferCap)
          /\ netUsed' = netUsed - (Buffer' - Buffer)
        BY <1>3, ReplenishExactly, RateLimitedV2Assumption
    <2>2. TB!PutBack(a)
        BY <1>3, <2>1 DEF replenishBuffer, TB!PutBack, TB!MathMin, MathMin
    <2> QED BY <2>2 DEF TB!Next
<1>4. ASSUME NEW c \in Accounts, NEW r \in Rates, setRateLimitPerSecond(c, r)
      PROVE  TB!Next
    <2>1. Buffer' = Buffer
        BY <1>4, RateExactly, RateLimitedV2Assumption
    <2>2. TB!ChangeRate(r)
        BY <1>4, <2>1 DEF setRateLimitPerSecond, TB!ChangeRate
    <2> QED BY <2>2 DEF TB!Next
<1>5. ASSUME NEW c \in Accounts, NEW b \in Caps, setBufferCap(c, b)
      PROVE  TB!Next
    <2>1. Buffer' = MathMin(Buffer, b)
        BY <1>5, CapExactly, RateLimitedV2Assumption
    <2>2. TB!ChangeCap(b)
        BY <1>5, <2>1 DEF setBufferCap, TB!ChangeCap, TB!MathMin, MathMin
    <2> QED BY <2>2 DEF TB!Next
<1>6. CASE UNCHANGED vars
    BY <1>6 DEF vars, TB!vars, Buffer
<1> QED BY <1>1, <1>2, <1>3, <1>4, <1>5, <1>6 DEF Next

\* RateLimitedV2 implements the eager token bucket: what buffer() answers and
\* what every call does to it is what a bucket refilled each second would do.
THEOREM Refinement == Spec => ImplementsTokenBucket
<1>1. Init => TB!Init
    <2> SUFFICES ASSUME Init PROVE TB!Init
        OBVIOUS
    <2>1. Buffer = InitialCap
        BY RateLimitedV2Assumption DEF Init, Buffer, MathMin
    <2> QED BY <2>1 DEF Init, TB!Init
<1> QED BY <1>1, StepSimulation, TypeCorrect, PTL
        DEF Spec, ImplementsTokenBucket, TB!Spec

\* A quantity bounded by c + r * t that grows by at most r in one second.
LEMMA Accumulate ==
    ASSUME NEW x \in Int, NEW y \in Int, NEW c \in Int,
           NEW r \in Nat, NEW t \in Nat,
           x <= c + r * t, y <= x + r
    PROVE  y <= c + r * (t + 1)
<1>1. r * (t + 1) = r * t + r /\ r * t \in Int
    OBVIOUS
<1> DEFINE m == r * t
<1>2. x <= c + m /\ m \in Int
    BY <1>1
<1> HIDE DEF m
<1>3. y <= c + (m + r)
    BY <1>2
<1> QED BY <1>1, <1>3 DEF m

\* What the steps of the bucket mean for the limit: at most the maximum rate
\* is gained in a second, and nothing is gained between seconds.
LEMMA StepBound ==
    ASSUME TypeOK, TypeOK', [Next]_vars
    PROVE  \/ netUsed' + Buffer' <= netUsed + Buffer /\ now' = now
           \/ /\ netUsed' + Buffer'
                    <= netUsed + Buffer + MAX_RATE_LIMIT_PER_SECOND
              /\ now' = now + 1
<1>0. /\ Buffer \in Nat /\ Buffer <= bufferCap /\ bufferCap \in Nat
      /\ rateLimitPerSecond \in 0..MAX_RATE_LIMIT_PER_SECOND
      /\ MAX_RATE_LIMIT_PER_SECOND \in Nat /\ netUsed \in Int
      /\ Amounts \subseteq Nat /\ Caps \subseteq Nat
    BY BufferNat, RateLimitedV2Assumption DEF TypeOK
<1>1. [TB!Next]_(TB!vars)
    BY StepSimulation
<1>2. CASE TB!Next
    BY <1>0, <1>2 DEF TB!Next, TB!Tick, TB!Draw, TB!PutBack, TB!ChangeCap,
                      TB!ChangeRate, TB!MathMin
<1>3. CASE UNCHANGED TB!vars
    BY <1>0, <1>3 DEF TB!vars
<1> QED BY <1>1, <1>2, <1>3

\* Over the contract's life no more is used, net of what is given back, than
\* the initial cap plus the maximum rate for every second that has passed,
\* for every schedule of users, governance calls and blocks.
THEOREM LimitHolds == Spec => []RateLimitBound
<1>1. Init => RateLimitBound
    BY RateLimitedV2Assumption DEF Init, RateLimitBound, Buffer, MathMin
<1>2. TypeOK /\ TypeOK' /\ RateLimitBound /\ [Next]_vars => RateLimitBound'
    <2> SUFFICES ASSUME TypeOK, TypeOK', RateLimitBound, [Next]_vars
                 PROVE  RateLimitBound'
        OBVIOUS
    <2>1. /\ Buffer \in Nat /\ netUsed \in Int /\ now \in Nat
          /\ InitialCap \in Nat /\ MAX_RATE_LIMIT_PER_SECOND \in Nat
        BY BufferNat, RateLimitedV2Assumption DEF TypeOK
    <2>2. (Buffer \in Nat)' /\ netUsed' \in Int
        <3>1. (TypeOK => Buffer \in Nat)'
            BY BufferNat, PTL
        <3> QED BY <3>1 DEF TypeOK
    <2>3. MAX_RATE_LIMIT_PER_SECOND * now \in Nat
        BY <2>1
    <2>4. \/ netUsed' + Buffer' <= netUsed + Buffer /\ now' = now
          \/ /\ netUsed' + Buffer'
                    <= netUsed + Buffer + MAX_RATE_LIMIT_PER_SECOND
              /\ now' = now + 1
        BY StepBound
    <2>5. netUsed + Buffer <= InitialCap + MAX_RATE_LIMIT_PER_SECOND * now
        BY DEF RateLimitBound
    <2>6. netUsed + Buffer \in Int /\ netUsed' + Buffer' \in Int
        BY <2>1, <2>2
    <2>7. CASE now' = now /\ netUsed' + Buffer' <= netUsed + Buffer
        BY <2>1, <2>3, <2>5, <2>6, <2>7 DEF RateLimitBound
    <2>8. CASE /\ now' = now + 1
               /\ netUsed' + Buffer'
                    <= netUsed + Buffer + MAX_RATE_LIMIT_PER_SECOND
        <3>1. netUsed' + Buffer'
                <= InitialCap + MAX_RATE_LIMIT_PER_SECOND * (now + 1)
            BY <2>1, <2>5, <2>6, <2>8, Accumulate
        <3> QED BY <2>8, <3>1 DEF RateLimitBound
    <2> QED BY <2>4, <2>7, <2>8
<1> QED BY <1>1, <1>2, TypeCorrect, PTL DEF Spec

\* A quantity that is within a limit since time t, and rises in a step by no
\* more than the rate for a second and not at all otherwise, stays within it.
LEMMA WindowStep ==
    ASSUME NEW x \in Int, NEW y \in Int, NEW c \in Int, NEW r \in Nat,
           NEW t \in Nat, NEW n \in Nat, NEW m, t <= n, x <= c + r * (n - t),
           \/ y <= x /\ m = n
           \/ y <= x + r /\ m = n + 1
    PROVE  y <= c + r * (m - t)
<1>1. CASE y <= x /\ m = n
    <2> DEFINE w == r * (n - t)
    <2>1. w \in Int /\ x <= c + w
        OBVIOUS
    <2> HIDE DEF w
    <2>2. y <= c + w
        BY <1>1, <2>1
    <2> QED BY <1>1, <2>2 DEF w
<1>2. CASE y <= x + r /\ m = n + 1
    <2>1. n - t \in Nat /\ m - t = (n - t) + 1
        BY <1>2
    <2>2. y <= c + r * ((n - t) + 1)
        BY <1>2, <2>1, Accumulate
    <2> QED BY <2>1, <2>2
<1> QED BY <1>1, <1>2

\* The limit from any moment on, not only from deployment: what is used after it,
\* plus what may still be used, is within the cap of that moment and the maximum
\* rate for the time that has passed since, whatever was saved up, used or given
\* back before and however governance changes rate and cap afterwards.
THEOREM AnyWindowIsLimited ==
    ASSUME NEW u, NEW c, NEW t
    PROVE  Spec => [](netUsed = u /\ bufferCap = c /\ now = t
                        => [](netUsed + Buffer
                                <= u + c + MAX_RATE_LIMIT_PER_SECOND * (now - t)))
<1> DEFINE Start  == netUsed = u /\ bufferCap = c /\ now = t
           Bound  == netUsed + Buffer
                        <= u + c + MAX_RATE_LIMIT_PER_SECOND * (now - t)
           Window == u \in Int /\ c \in Nat /\ t \in Nat /\ t <= now /\ Bound
<1>1. TypeOK /\ Start => Window
    <2> SUFFICES ASSUME TypeOK, Start PROVE Window
        OBVIOUS
    <2>1. u \in Int /\ c \in Nat /\ t \in Nat /\ t <= now
        BY DEF TypeOK
    <2>2. Buffer <= c /\ Buffer \in Nat
        BY BufferNat
    <2>3. MAX_RATE_LIMIT_PER_SECOND * (now - t) = 0
        BY <2>1, RateLimitedV2Assumption
    <2> QED BY <2>1, <2>2, <2>3
<1>2. TypeOK /\ TypeOK' /\ Window /\ [Next]_vars => Window'
    <2> SUFFICES ASSUME TypeOK, TypeOK', Window, [Next]_vars PROVE Window'
        OBVIOUS
    <2>1. /\ Buffer \in Nat /\ netUsed \in Int /\ now \in Nat
          /\ MAX_RATE_LIMIT_PER_SECOND \in Nat
        BY BufferNat, RateLimitedV2Assumption DEF TypeOK
    <2>2. Buffer' \in Nat /\ netUsed' \in Int
        <3>1. (TypeOK => Buffer \in Nat)'
            BY BufferNat, PTL
        <3> QED BY <3>1 DEF TypeOK
    <2> DEFINE x == netUsed + Buffer
               y == netUsed' + Buffer'
    <2>3. \/ y <= x /\ now' = now
          \/ y <= x + MAX_RATE_LIMIT_PER_SECOND /\ now' = now + 1
        BY StepBound
    <2>4. /\ x \in Int /\ y \in Int /\ u + c \in Int
          /\ x <= (u + c) + MAX_RATE_LIMIT_PER_SECOND * (now - t)
        BY <2>1, <2>2
    <2>5. t <= now'
        BY <2>1, <2>3
    <2> HIDE DEF x, y
    <2>6. y <= (u + c) + MAX_RATE_LIMIT_PER_SECOND * (now' - t)
        BY <2>1, <2>3, <2>4, WindowStep
    <2> QED BY <2>5, <2>6 DEF y
<1>3. Window => Bound
    OBVIOUS
<1> HIDE DEF Start, Bound, Window
<1>4. Spec => [](Start => []Bound)
    BY <1>1, <1>2, <1>3, TypeCorrect, PTL DEF Spec
<1> QED BY <1>4 DEF Start, Bound

\* A governance call on rate or cap never raises the buffer.
THEOREM NoGovernanceRefill == Spec => GovernanceNeverRefills
<1>1. TypeOK /\ TypeOK' /\ [Next]_vars
        => [(rateLimitPerSecond' # rateLimitPerSecond
               \/ bufferCap' # bufferCap) => Buffer' <= Buffer]_vars
    <2> SUFFICES ASSUME TypeOK, TypeOK', [Next]_vars,
                        \/ rateLimitPerSecond' # rateLimitPerSecond
                        \/ bufferCap' # bufferCap
                 PROVE  Buffer' <= Buffer
        OBVIOUS
    <2>0. Buffer \in Nat /\ Caps \subseteq Nat
        BY BufferNat, RateLimitedV2Assumption
    <2>1. \/ \E c \in Caps : TB!ChangeCap(c)
          \/ \E r \in Rates : TB!ChangeRate(r)
        BY StepSimulation DEF TB!Next, TB!vars, TB!Tick, TB!Draw, TB!PutBack
    <2> QED BY <2>0, <2>1 DEF TB!ChangeCap, TB!ChangeRate, TB!MathMin
<1> QED BY <1>1, TypeCorrect, PTL DEF Spec, GovernanceNeverRefills

------------------------------------------------------------------------------
(* Powers of ten *)

\* Among the numbers of a set there is a smallest one.
LEMMA NatSmallest ==
    ASSUME NEW T, T \subseteq Nat, T # {}
    PROVE  \E x \in T : \A y \in T : x <= y
<1>1. PICK x \in T : \A y \in T : ~(<<y, x>> \in OpToRel(<, Nat))
    BY NatLessThanWellFounded, WFMin
<1>2. ASSUME NEW y \in T PROVE x <= y
    <2>1. ~(y < x)
        BY <1>1, <1>2 DEF OpToRel
    <2> QED BY <2>1, <1>2
<1> QED BY <1>2

\* f has the first n powers of ten, and the zeroth.
ListsPowers(f, n) ==
    /\ f \in [0..n -> Nat \ {0}]
    /\ f[0] = 1
    /\ \A k \in 1..n : f[k] = 10 * f[k - 1]

\* Such lists can be of any length: to the longest one could be added.
LEMMA PowersListed ==
    ASSUME NEW n \in Nat
    PROVE  \E f : ListsPowers(f, n)
<1> DEFINE T == {k \in Nat : ~\E f : ListsPowers(f, k)}
<1> SUFFICES ASSUME T # {} PROVE FALSE
    OBVIOUS
<1>1. PICK m \in T : \A k \in T : m <= k
    BY NatSmallest
<1>2. ListsPowers([k \in 0..0 |-> 1], 0)
    BY DEF ListsPowers
<1>3. m - 1 \in Nat /\ m - 1 \notin T
    BY <1>1, <1>2
<1>4. PICK f : ListsPowers(f, m - 1)
    BY <1>3
<1> DEFINE g == [k \in 0..m |-> IF k = m THEN 10 * f[m - 1] ELSE f[k]]
<1>5. m \in Nat \ {0} /\ f \in [0..(m - 1) -> Nat \ {0}] /\ f[0] = 1
      /\ \A k \in 1..(m - 1) : f[k] = 10 * f[k - 1]
    BY <1>3, <1>4 DEF ListsPowers
<1>6. g[m] = 10 * g[m - 1] /\ g[0] = 1
    BY <1>5
<1>7. \A k \in 1..m : g[k] = 10 * g[k - 1]
    BY <1>5, <1>6
<1>8. g \in [0..m -> Nat \ {0}]
    <2>1. ASSUME NEW k \in 0..m PROVE g[k] \in Nat \ {0}
        <3>1. CASE k = m
            BY <1>5, <3>1
        <3>2. CASE k # m
            <4>1. k \in 0..(m - 1)
                BY <1>5, <3>2
            <4> QED BY <1>5, <3>2, <4>1
        <3> QED BY <3>1, <3>2
    <2>2. g = [k \in 0..m |-> g[k]]
        OBVIOUS
    <2> HIDE DEF g
    <2> QED BY <2>1, <2>2
<1> HIDE DEF g
<1>9. ListsPowers(g, m)
    BY <1>6, <1>7, <1>8 DEF ListsPowers
<1> QED BY <1>9

\* Two of them agree as far as both go.
LEMMA PowersAgree ==
    ASSUME NEW n \in Nat, NEW m \in Nat, NEW f, NEW g,
           ListsPowers(f, n), ListsPowers(g, m),
           NEW k \in Nat, k <= n, k <= m
    PROVE  f[k] = g[k]
<1> DEFINE T == {i \in Nat : i <= n /\ i <= m /\ f[i] # g[i]}
<1> SUFFICES ASSUME T # {} PROVE FALSE
    OBVIOUS
<1>1. PICK i \in T : \A j \in T : i <= j
    BY NatSmallest
<1>2. i # 0
    BY DEF ListsPowers
<1>3. i - 1 \in Nat /\ i - 1 <= n /\ i - 1 <= m /\ i - 1 \notin T
      /\ i \in 1..n /\ i \in 1..m
    BY <1>1, <1>2
<1>4. f[i - 1] = g[i - 1]
    BY <1>3
<1> QED BY <1>3, <1>4 DEF ListsPowers

\* So the definition of the powers by recursion defines a function: the zeroth is
\* 1, and all are positive.
LEMMA PowersOfTen ==
    /\ Pow10[0] = 1
    /\ \A n \in Nat : Pow10[n] \in Nat \ {0}
<1> DEFINE List(n) == CHOOSE f : ListsPowers(f, n)
           P       == [n \in Nat |-> List(n)[n]]
           Power(f, n) == IF n = 0 THEN 1 ELSE 10 * f[n - 1]
<1>1. ASSUME NEW n \in Nat PROVE ListsPowers(List(n), n)
    BY PowersListed
<1> HIDE DEF List
<1>2. ASSUME NEW n \in Nat PROVE List(n)[n] = Power(P, n)
    <2>1. CASE n = 0
        BY <1>1, <2>1 DEF ListsPowers
    <2>2. CASE n # 0
        <3>1. n - 1 \in Nat /\ n \in 1..n /\ n - 1 <= n /\ n - 1 <= n - 1
            BY <2>2
        <3>2. List(n)[n - 1] = List(n - 1)[n - 1]
            BY <1>1, <3>1, PowersAgree
        <3>3. List(n)[n] = 10 * List(n)[n - 1]
            BY <1>1, <3>1 DEF ListsPowers
        <3> QED BY <2>2, <3>1, <3>2, <3>3
    <2> QED BY <2>1, <2>2
<1> HIDE DEF Power
<1>3. P = [n \in Nat |-> Power(P, n)]
    BY <1>2
<1>4. Pow10 = CHOOSE f : f = [n \in Nat |-> Power(f, n)]
    BY DEF Pow10, Power
<1> HIDE DEF P
<1>5. Pow10 = [n \in Nat |-> Power(Pow10, n)]
    BY <1>3, <1>4
<1>6. ASSUME NEW n \in Nat
      PROVE  Pow10[n] = IF n = 0 THEN 1 ELSE 10 * Pow10[n - 1]
    BY <1>5 DEF Power
<1>7. ASSUME NEW n \in Nat PROVE Pow10[n] \in Nat \ {0}
    <2> DEFINE T == {k \in Nat : Pow10[k] \notin Nat \ {0}}
    <2> SUFFICES ASSUME T # {} PROVE FALSE
        OBVIOUS
    <2>1. PICK k \in T : \A j \in T : k <= j
        BY NatSmallest
    <2>2. k # 0
        BY <1>6
    <2>3. k - 1 \in Nat /\ k - 1 \notin T
        BY <2>1, <2>2
    <2>4. Pow10[k - 1] \in Nat \ {0} /\ Pow10[k] = 10 * Pow10[k - 1]
        BY <1>6, <2>2, <2>3
    <2> QED BY <2>4
<1> QED BY <1>6, <1>7
==============================================================================
