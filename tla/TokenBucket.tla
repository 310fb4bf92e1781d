----------------------------- MODULE TokenBucket -----------------------------
(***************************************************************************)
(* What a rate limiter promises, stated with no lazy bookkeeping: a bucket *)
(* with a level that rises by rate at every second and never above cap.    *)
(* The contracts RateLimited and RateLimitedV2 store the level only when   *)
(* they are touched and reconstruct it from a timestamp; both are shown to *)
(* implement this module.                                                  *)
(***************************************************************************)
EXTENDS Integers, EVMMath

CONSTANTS
    MaxRate,        \* the rate governance can never exceed
    InitialRate,    \* the rate at deployment
    InitialCap,     \* the cap at deployment; the bucket starts full
    Rates,          \* the rates governance may ask for
    Caps,           \* the caps governance may ask for
    Amounts,        \* the amounts a user may draw or give back
    MaxTime         \* bound on the clock

VARIABLES
    now,            \* seconds since deployment
    rate,
    cap,
    level,          \* what may be drawn at this very moment
    netDrawn        \* history: all that was drawn minus all that was put back

vars == <<now, rate, cap, level, netDrawn>>

Init ==
    /\ now = 0
    /\ rate = InitialRate
    /\ cap = InitialCap
    /\ level = InitialCap
    /\ netDrawn = 0

Tick ==
    /\ now < MaxTime
    /\ now' = now + 1
    /\ level' = MathMin(level + rate, cap)
    /\ UNCHANGED <<rate, cap, netDrawn>>

\* A draw succeeds in full or not at all, and never from an empty bucket.
Draw(amount) ==
    /\ level # 0
    /\ amount <= level
    /\ level' = level - amount
    /\ netDrawn' = netDrawn + amount
    /\ UNCHANGED <<now, rate, cap>>

\* What would overflow the cap is lost.
PutBack(amount) ==
    /\ level' = MathMin(level + amount, cap)
    /\ netDrawn' = netDrawn - (level' - level)
    /\ UNCHANGED <<now, rate, cap>>

\* A new cap can cost level and never adds any.
ChangeCap(newCap) ==
    /\ cap' = newCap
    /\ level' = MathMin(level, newCap)
    /\ UNCHANGED <<now, rate, netDrawn>>

\* A new rate counts from now on.
ChangeRate(newRate) ==
    /\ newRate <= MaxRate
    /\ rate' = newRate
    /\ UNCHANGED <<now, cap, level, netDrawn>>

Next ==
    \/ Tick
    \/ \E a \in Amounts : Draw(a)
    \/ \E a \in Amounts : PutBack(a)
    \/ \E c \in Caps : ChangeCap(c)
    \/ \E r \in Rates : ChangeRate(r)

Spec == Init /\ [][Next]_vars
==============================================================================
