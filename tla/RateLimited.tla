----------------------------- MODULE RateLimited -----------------------------
(***************************************************************************)
(* contracts/utils/RateLimited.sol: the rate limiter behind every VOLT a   *)
(* peg stability module mints (RateLimitedMinter).  It keeps the buffer    *)
(* lazily as RateLimitedV2 does.  The module has no next-state relation of *)
(* its own: PegStabilityModule instantiates it.  PegStabilityModule.sol:90 *)
(* deploys it without partial actions and nothing gives minted VOLT back,  *)
(* so doPartialAction is FALSE and _replenishBuffer is left out.           *)
(***************************************************************************)
EXTENDS Integers, EVMMath

CONSTANTS
    GovernorsOrAdmins,           \* holders of GOVERN_ROLE or the admin role
    MAX_RATE_LIMIT_PER_SECOND,   \* immutable, set by the constructor
    InitialRate,                 \* constructor argument _rateLimitPerSecond
    InitialCap,                  \* constructor argument _bufferCap
    Rates,                       \* rates governance may ask for
    Caps,                        \* caps governance may ask for
    MaxTime                      \* bound on the clock

VARIABLES
    now,                    \* block.timestamp
    rateLimitPerSecond,
    bufferCap,
    lastBufferUsedTime,
    bufferStored,
    netUsed                 \* history: all that was depleted

vars == <<now, rateLimitPerSecond, bufferCap, lastBufferUsedTime,
          bufferStored, netUsed>>

TypeOK ==
    /\ now \in Nat
    /\ rateLimitPerSecond \in 0..MAX_RATE_LIMIT_PER_SECOND
    /\ bufferCap \in Nat
    /\ lastBufferUsedTime \in 0..now
    /\ bufferStored \in Nat
    /\ netUsed \in Nat

\* buffer(): what may be used now.
Buffer ==
    MathMin(bufferStored + rateLimitPerSecond * (now - lastBufferUsedTime),
            bufferCap)

Init ==
    /\ now = 0
    /\ rateLimitPerSecond = InitialRate
    /\ bufferCap = InitialCap
    /\ lastBufferUsedTime = 0
    /\ bufferStored = InitialCap
    /\ netUsed = 0

\* Faulty variant: the time of the update is not recorded.
updateBufferStored_KeepsTime ==
    /\ bufferStored' = Buffer
    /\ UNCHANGED lastBufferUsedTime

\* _updateBufferStored(): the present buffer becomes the stored one.
updateBufferStored ==
    /\ bufferStored' = Buffer
    /\ lastBufferUsedTime' = now

\* setRateLimitPerSecond(): seconds already elapsed keep the old rate.
setRateLimitPerSecond(caller, newRate) ==
    /\ caller \in GovernorsOrAdmins
    /\ newRate <= MAX_RATE_LIMIT_PER_SECOND
    /\ updateBufferStored
    /\ rateLimitPerSecond' = newRate
    /\ UNCHANGED <<now, bufferCap, netUsed>>

\* setBufferCap(): the stored buffer is brought up to date under the old cap.
setBufferCap(caller, newCap) ==
    /\ caller \in GovernorsOrAdmins
    /\ updateBufferStored
    /\ bufferCap' = newCap
    /\ UNCHANGED <<now, rateLimitPerSecond, netUsed>>

\* _depleteBuffer(): reverts when the buffer is empty or smaller than what is
\* to be used.
depleteBuffer(amount) ==
    /\ Buffer # 0
    /\ amount <= Buffer
    /\ bufferStored' = Buffer - amount
    /\ lastBufferUsedTime' = now
    /\ netUsed' = netUsed + amount
    /\ UNCHANGED <<now, rateLimitPerSecond, bufferCap>>

\* The next block has a later timestamp.
Tick ==
    /\ now < MaxTime
    /\ now' = now + 1
    /\ UNCHANGED <<rateLimitPerSecond, bufferCap, lastBufferUsedTime,
                   bufferStored, netUsed>>

------------------------------------------------------------------------------

TB == INSTANCE TokenBucket WITH
          MaxRate <- MAX_RATE_LIMIT_PER_SECOND,
          Amounts <- UNION {0..c : c \in Caps \cup {InitialCap}},
          rate <- rateLimitPerSecond,
          cap <- bufferCap,
          level <- Buffer,
          netDrawn <- netUsed

\* The limiter is the eager token bucket, whatever contract uses it.
ImplementsTokenBucket == TB!Spec
==============================================================================
