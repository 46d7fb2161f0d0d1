----------------------------- MODULE RateLimiter -----------------------------
(***************************************************************************)
(* RateLimiter (internal/pipeline/rate.go): one token bucket per source.   *)
(* The caller reads the clock and passes it to Allow, so between the two   *)
(* another caller of the same source may get in with a later time, and the *)
(* wall clock may be set back.  Tokens are counted in 1/Scale of a token   *)
(* and time in 1/Scale of a second, which makes the arithmetic exact; the  *)
(* rounding of float64 is left out.                                        *)
(***************************************************************************)
EXTENDS Integers, Sequences

CONSTANTS
    Sources,      \* source names
    Callers,      \* goroutines that call Allow
    LinesPerSec,  \* NewRateLimiter's arguments, as the configuration has them
    BurstArg,
    Scale,        \* clock ticks per second
    MaxTime,      \* bound: last tick of the clock
    MaxCalls,     \* bound: calls of Allow
    MaxSteps      \* bound: times the clock is set back

ASSUME RateAssumption ==
    /\ LinesPerSec \in Int
    /\ BurstArg \in Int
    /\ Scale \in Nat \ {0}
    /\ MaxTime \in Nat
    /\ MaxCalls \in Nat
    /\ MaxSteps \in Nat

VARIABLES
    buckets,  \* source -> NoBucket or [tokens, last]
    now,      \* caller -> the time it has read, or Idle
    clock,    \* the wall clock
    set,      \* times the clock has been set back
    calls,    \* calls of Allow so far
    seen,     \* history: source -> latest time passed to Allow, -1 before
    granted   \* history: source -> seen at each call that was allowed

vars == <<buckets, now, clock, set, calls, seen, granted>>

Idle == -1
NoBucket == [tokens |-> -1, last |-> -1]

\* The defaults of NewRateLimiter.
DefaultRate == 10000
Rate == IF LinesPerSec <= 0 THEN DefaultRate ELSE LinesPerSec
Burst == IF BurstArg <= 0 THEN Rate ELSE BurstArg

\* What is in a full bucket.
Capacity == Burst * Scale

Init ==
    /\ buckets = [s \in Sources |-> NoBucket]
    /\ now = [c \in Callers |-> Idle]
    /\ clock = 0
    /\ set = 0
    /\ calls = 0
    /\ seen = [s \in Sources |-> -1]
    /\ granted = [s \in Sources |-> <<>>]

Tick ==
    /\ clock < MaxTime
    /\ clock' = clock + 1
    /\ UNCHANGED <<buckets, now, set, calls, seen, granted>>

\* The wall clock is set back.
StepBack ==
    /\ set < MaxSteps
    /\ clock > 0
    /\ clock' \in 0 .. clock - 1
    /\ set' = set + 1
    /\ UNCHANGED <<buckets, now, calls, seen, granted>>

\* A caller reads the clock for its call of Allow.
ReadClock(c) ==
    /\ now[c] = Idle
    /\ calls < MaxCalls
    /\ calls' = calls + 1
    /\ now' = [now EXCEPT ![c] = clock]
    /\ UNCHANGED <<buckets, clock, set, seen, granted>>

\* Mutant of Refill: last follows a clock that went back.
RefillFollowsClock(b, t) ==
    [tokens |-> IF t <= b.last THEN b.tokens
                ELSE IF b.tokens + (t - b.last) * Rate > Capacity
                     THEN Capacity ELSE b.tokens + (t - b.last) * Rate,
     last |-> t]

\* Mutant of Refill: a partial token is thrown away, last is moved.
RefillWholeTokens(b, t) ==
    IF t <= b.last THEN b
    ELSE LET filled == b.tokens + (((t - b.last) * Rate) \div Scale) * Scale
         IN  [tokens |-> IF filled > Capacity THEN Capacity ELSE filled, last |-> t]

\* The bucket after the time since its last refill has been credited; no
\* time, or negative time, credits nothing and leaves last alone.
Refill(b, t) ==
    IF t - b.last > 0
    THEN LET filled == b.tokens + (t - b.last) * Rate
         IN  [tokens |-> IF filled > Capacity THEN Capacity ELSE filled, last |-> t]
    ELSE b

\* The bucket Allow works on: a source seen for the first time gets a full one.
BucketOf(s, t) ==
    Refill(IF buckets[s] = NoBucket THEN [tokens |-> Capacity, last |-> t] ELSE buckets[s], t)

Enough(b) == b.tokens >= Scale

\* Allow(s, t), the body of the critical section, for the call of c.
Allow(c, s) ==
    /\ now[c] # Idle
    /\ LET b == BucketOf(s, now[c])
           allowed == Enough(b)
       IN  /\ buckets' = [buckets EXCEPT ![s] =
                            IF allowed THEN [b EXCEPT !.tokens = @ - Scale] ELSE b]
           /\ seen' = [seen EXCEPT ![s] = IF @ > now[c] THEN @ ELSE now[c]]
           /\ granted' = [granted EXCEPT ![s] =
                            IF allowed THEN Append(@, seen'[s]) ELSE @]
    /\ now' = [now EXCEPT ![c] = Idle]
    /\ UNCHANGED <<clock, set, calls>>

Next ==
    \/ Tick
    \/ StepBack
    \/ \E c \in Callers : ReadClock(c)
    \/ \E c \in Callers, s \in Sources : Allow(c, s)

Spec == Init /\ [][Next]_vars

-----------------------------------------------------------------------------
RateTypeOK ==
    /\ buckets \in [Sources -> {NoBucket} \cup [tokens : 0 .. Capacity, last : 0 .. MaxTime]]
    /\ now \in [Callers -> {Idle} \cup 0 .. MaxTime]
    /\ clock \in 0 .. MaxTime
    /\ set \in 0 .. MaxSteps
    /\ calls \in 0 .. MaxCalls
    /\ seen \in [Sources -> -1 .. MaxTime]
    /\ granted \in [Sources -> Seq(0 .. MaxTime)]

\* What a source may still be granted by time t: the least, over the windows
\* that start at one of its grants, of burst plus rate times the window less
\* the grants in it.
Allowance(s, t) ==
    {Capacity} \cup
    {Capacity + Rate * (t - granted[s][i]) - Scale * (Len(granted[s]) - i + 1)
        : i \in DOMAIN granted[s]}

\* In every window between two grants a source gets at most the burst plus
\* the rate times the window, however its callers race between reading the
\* clock and Allow's lock and however the clock is set back.
WindowBound ==
    \A s \in Sources : \A x \in Allowance(s, seen[s]) : x >= 0

\* A line is refused only when its own source has used up its allowance: the
\* bucket holds no less than every window leaves.
RefusedOnlyAtLimit ==
    \A s \in Sources : buckets[s] # NoBucket =>
        \E x \in Allowance(s, seen[s]) : x <= buckets[s].tokens
=============================================================================
