---------------------------- MODULE RateLimitedV2 ----------------------------
(***************************************************************************)
(* contracts/utils/RateLimitedV2.sol: the rate limiter of ERC20Allocator.  *)
(*                                                                         *)
(* The contract keeps the buffer lazily: bufferStored is its value at      *)
(* lastBufferUsedTime, and buffer() reconstructs the present value.  Time  *)
(* is counted in seconds since deployment; the uint32 timestamps of the    *)
(* contract are good until the year 2106, so MaxTime stands below that.    *)
(* An account that calls is a parameter of the action it calls.            *)
(***************************************************************************)
EXTENDS Integers, EVMMath

CONSTANTS
    Accounts,                    \* accounts that may send transactions
    Governors,                   \* those that hold GOVERN_ROLE
    MAX_RATE_LIMIT_PER_SECOND,   \* immutable, set by the constructor
    InitialRate,                 \* constructor argument _rateLimitPerSecond
    InitialCap,                  \* constructor argument _bufferCap
    Rates,                       \* rates governance may ask for
    Caps,                        \* caps governance may ask for
    Amounts,                     \* amounts depleted or replenished
    MaxTime,                     \* bound on the clock
    MaxReplenished               \* bound on net replenishment (history only)

\* The constructor reverts on a rate above the maximum; all are unsigned.
ASSUME RateLimitedV2Assumption ==
    /\ Governors \subseteq Accounts
    /\ MAX_RATE_LIMIT_PER_SECOND \in Nat
    /\ InitialRate \in 0..MAX_RATE_LIMIT_PER_SECOND
    /\ InitialCap \in Nat
    /\ Rates \subseteq Nat
    /\ Caps \subseteq Nat
    /\ Amounts \subseteq Nat
    /\ MaxTime \in Nat
    /\ MaxReplenished \in Nat

VARIABLES
    now,                    \* block.timestamp
    rateLimitPerSecond,
    bufferCap,
    lastBufferUsedTime,
    bufferStored,
    netUsed                 \* history: depleted minus effectively replenished

vars == <<now, rateLimitPerSecond, bufferCap, lastBufferUsedTime,
          bufferStored, netUsed>>

TypeOK ==
    /\ now \in Nat
    /\ rateLimitPerSecond \in 0..MAX_RATE_LIMIT_PER_SECOND
    /\ bufferCap \in Nat
    /\ lastBufferUsedTime \in 0..now
    /\ bufferStored \in Nat
    /\ netUsed \in Int

\* buffer(): what may be used now.
Buffer ==
    MathMin(bufferStored + rateLimitPerSecond * (now - lastBufferUsedTime),
            bufferCap)

Init ==
    /\ now = 0
    /\ rateLimitPerSecond = InitialRate
    /\ bufferCap = InitialCap
    /\ lastBufferUsedTime = 0
    /\ bufferStored = InitialCap
    /\ netUsed = 0

\* Faulty variant: the time of the update is not recorded.
updateBufferStored_KeepsTime ==
    /\ bufferStored' = Buffer
    /\ UNCHANGED lastBufferUsedTime

\* _updateBufferStored(): the present buffer becomes the stored one.
updateBufferStored ==
    /\ bufferStored' = Buffer
    /\ lastBufferUsedTime' = now

\* Faulty variant: the new rate applies to elapsed seconds.
setRateLimitPerSecond_Retroactive(caller, newRate) ==
    /\ caller \in Governors
    /\ newRate <= MAX_RATE_LIMIT_PER_SECOND
    /\ rateLimitPerSecond' = newRate
    /\ UNCHANGED <<now, bufferCap, lastBufferUsedTime, bufferStored, netUsed>>

\* setRateLimitPerSecond(): seconds already elapsed keep the old rate.
setRateLimitPerSecond(caller, newRate) ==
    /\ caller \in Governors
    /\ newRate <= MAX_RATE_LIMIT_PER_SECOND
    /\ updateBufferStored
    /\ rateLimitPerSecond' = newRate
    /\ UNCHANGED <<now, bufferCap, netUsed>>

\* Faulty variant: the new cap applies to elapsed seconds.
setBufferCap_CapFirst(caller, newCap) ==
    /\ caller \in Governors
    /\ bufferCap' = newCap
    /\ bufferStored' = MathMin(bufferStored
          + rateLimitPerSecond * (now - lastBufferUsedTime), newCap)
    /\ lastBufferUsedTime' = now
    /\ UNCHANGED <<now, rateLimitPerSecond, netUsed>>

\* setBufferCap(): the stored buffer is brought up to date under the old cap.
setBufferCap(caller, newCap) ==
    /\ caller \in Governors
    /\ updateBufferStored
    /\ bufferCap' = newCap
    /\ UNCHANGED <<now, rateLimitPerSecond, netUsed>>

\* Faulty variant: the limit is not enforced.
depleteBuffer_NoLimit(amount) ==
    /\ Buffer # 0
    /\ bufferStored' = Buffer - amount
    /\ lastBufferUsedTime' = now
    /\ netUsed' = netUsed + amount
    /\ UNCHANGED <<now, rateLimitPerSecond, bufferCap>>

\* _depleteBuffer(): reverts when the buffer is empty or too small.
depleteBuffer(amount) ==
    /\ Buffer # 0
    /\ amount <= Buffer
    /\ bufferStored' = Buffer - amount
    /\ lastBufferUsedTime' = now
    /\ netUsed' = netUsed + amount
    /\ UNCHANGED <<now, rateLimitPerSecond, bufferCap>>

\* _replenishBuffer(): returns early, writing nothing, on a full buffer.
replenishBuffer(amount) ==
    /\ \/ /\ Buffer = bufferCap
          /\ UNCHANGED <<lastBufferUsedTime, bufferStored, netUsed>>
       \/ /\ Buffer # bufferCap
          /\ lastBufferUsedTime' = now
          /\ bufferStored' = MathMin(Buffer + amount, bufferCap)
          /\ netUsed' = netUsed - (bufferStored' - Buffer)
    /\ UNCHANGED <<now, rateLimitPerSecond, bufferCap>>

\* The next block has a later timestamp.
Tick ==
    /\ now < MaxTime
    /\ now' = now + 1
    /\ UNCHANGED <<rateLimitPerSecond, bufferCap, lastBufferUsedTime,
                   bufferStored, netUsed>>

Next ==
    \/ Tick
    \/ \E a \in Amounts : depleteBuffer(a)
    \/ \E a \in Amounts : /\ replenishBuffer(a)
                           /\ netUsed' >= -MaxReplenished
    \/ \E c \in Accounts, r \in Rates : setRateLimitPerSecond(c, r)
    \/ \E c \in Accounts, b \in Caps : setBufferCap(c, b)

Spec == Init /\ [][Next]_vars

------------------------------------------------------------------------------
(***************************************************************************)
(* Properties.                                                             *)
(***************************************************************************)

\* The limit itself: whatever governance does to rate and cap, and however
\* depletion, replenishment and time interleave, what was used net of what was
\* given back, plus what could still be used now, never exceeds the initial
\* cap and the maximum rate over the contract's whole life.
RateLimitBound ==
    netUsed + Buffer <= InitialCap + MAX_RATE_LIMIT_PER_SECOND * now

\* setRateLimitPerSecond and setBufferCap never hand out buffer: a governance
\* call leaves the present buffer as it is or, with a lower cap, cuts it.
GovernanceNeverRefills ==
    [][(rateLimitPerSecond' # rateLimitPerSecond \/ bufferCap' # bufferCap)
          => Buffer' <= Buffer]_vars

TB == INSTANCE TokenBucket WITH
          MaxRate <- MAX_RATE_LIMIT_PER_SECOND,
          rate <- rateLimitPerSecond,
          cap <- bufferCap,
          level <- Buffer,
          netDrawn <- netUsed

\* The lazy timestamped buffer is indistinguishable from a bucket refilled at
\* every second: buffer() is the bucket's level in every reachable state and
\* every call has exactly the bucket's effect on it.
ImplementsTokenBucket == TB!Spec
==============================================================================
