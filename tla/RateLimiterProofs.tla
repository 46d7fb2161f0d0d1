-------------------------- MODULE RateLimiterProofs --------------------------
(***************************************************************************)
(* Proofs about RateLimiter, for all rates, bursts and numbers of callers  *)
(* and sources: the type invariant and the bound on every window.          *)
(*                                                                         *)
(* WindowBound does not say what the bucket holds, so it is not inductive. *)
(* Ledger adds that: what is left in the bucket, together with what was    *)
(* granted since any earlier grant, is never more than a full bucket and   *)
(* the rate times the time since then; and last is the latest time passed  *)
(* to Allow, which is where a clock that goes back could do harm.          *)
(***************************************************************************)
EXTENDS RateLimiter, TLAPS

LedgerOf(s) ==
    /\ buckets[s].last = seen[s]
    /\ buckets[s] = NoBucket => granted[s] = <<>>
    /\ \A i \in DOMAIN granted[s] :
        /\ granted[s][i] <= seen[s]
        /\ buckets[s].tokens + Scale * (Len(granted[s]) - i + 1)
              <= Capacity + Rate * (seen[s] - granted[s][i])

Ledger == \A s \in Sources : LedgerOf(s)

RateInv == RateTypeOK /\ Ledger

\* The parameters after the defaults of NewRateLimiter: all positive, and a
\* full bucket holds at least one token.
LEMMA Parameters ==
    /\ Rate \in Nat /\ Rate > 0
    /\ Burst \in Nat /\ Burst > 0
    /\ Scale \in Nat /\ Scale > 0
    /\ Capacity \in Nat /\ Capacity >= Scale
<1>1. Rate \in Nat /\ Rate > 0 /\ Burst \in Nat /\ Burst > 0 /\ Scale \in Nat /\ Scale > 0
  BY RateAssumption DEF Rate, Burst, DefaultRate
<1>2. \A b, k \in Nat : b > 0 => b * k \in Nat /\ b * k >= k
  OBVIOUS
<1> QED
  BY <1>1, <1>2 DEF Capacity

\* SMT needs to be told, with the factors hidden, that a product is an integer.
LEMMA Product == \A x, y \in Int : x * y \in Int
  OBVIOUS

Bucket == [tokens : 0 .. Capacity, last : 0 .. MaxTime]

\* What Refill credits: no more than the rate times the time since last, and
\* never more than the bucket holds; last does not go back.
LEMMA RefillCredits ==
    ASSUME NEW b \in Bucket, NEW t \in 0 .. MaxTime
    PROVE  /\ Refill(b, t) \in Bucket
           /\ Refill(b, t).last = IF b.last > t THEN b.last ELSE t
           /\ Refill(b, t).tokens <= b.tokens + Rate * (Refill(b, t).last - b.last)
<1>1. \A r, d \in Nat : r * d \in Nat /\ r * d = d * r
  OBVIOUS
<1>2. CASE t - b.last > 0
  <2>1. (t - b.last) * Rate \in Nat /\ (t - b.last) * Rate = Rate * (t - b.last)
    BY <1>1, <1>2, Parameters, RateAssumption DEF Bucket
  <2> QED
    BY <1>2, <2>1, Parameters, RateAssumption DEF Refill, Bucket
<1>3. CASE ~(t - b.last > 0)
  <2>1. Rate * (b.last - b.last) = 0
    BY Parameters, RateAssumption DEF Bucket
  <2> QED
    BY <1>3, <2>1, RateAssumption DEF Refill, Bucket
<1> QED
  BY <1>2, <1>3

\* The bucket that Allow works on keeps to the ledger at the time of the call,
\* also when it is the source's first.
LEMMA WorkingBucket ==
    ASSUME RateInv, NEW s \in Sources, NEW t \in 0 .. MaxTime
    PROVE  LET b == BucketOf(s, t)
               at == IF seen[s] > t THEN seen[s] ELSE t
           IN  /\ b \in Bucket
               /\ b.last = at
               /\ \A i \in DOMAIN granted[s] :
                    /\ granted[s][i] <= at
                    /\ b.tokens + Scale * (Len(granted[s]) - i + 1)
                          <= Capacity + Rate * (at - granted[s][i])
<1> DEFINE b == BucketOf(s, t)
           at == IF seen[s] > t THEN seen[s] ELSE t
<1>0. /\ buckets[s] \in {NoBucket} \cup Bucket
      /\ seen[s] \in -1 .. MaxTime
      /\ granted[s] \in Seq(0 .. MaxTime)
      /\ LedgerOf(s)
  BY DEF RateInv, RateTypeOK, Ledger, Bucket
<1>1. CASE buckets[s] = NoBucket
  <2> DEFINE full == [tokens |-> Capacity, last |-> t]
  <2>1. full \in Bucket /\ full.last = t
    BY Parameters DEF Bucket
  <2>2. b = Refill(full, t)
    BY <1>1 DEF BucketOf
  <2>3. granted[s] = <<>> /\ seen[s] = -1
    BY <1>0, <1>1 DEF LedgerOf, NoBucket
  <2>4. at = t
    BY <2>3, RateAssumption
  <2>5. b \in Bucket /\ b.last = at
    BY <2>1, <2>2, <2>4, RefillCredits, RateAssumption
  <2> QED
    BY <2>3, <2>5
<1>2. CASE buckets[s] # NoBucket
  <2>1. buckets[s] \in Bucket /\ b = Refill(buckets[s], t)
    BY <1>0, <1>2 DEF BucketOf
  <2>2. /\ b \in Bucket
        /\ b.last = at
        /\ b.tokens <= buckets[s].tokens + Rate * (at - seen[s])
    BY <1>0, <2>1, RefillCredits DEF LedgerOf
  <2>3. ASSUME NEW i \in DOMAIN granted[s]
        PROVE  /\ granted[s][i] <= at
               /\ b.tokens + Scale * (Len(granted[s]) - i + 1)
                     <= Capacity + Rate * (at - granted[s][i])
    <3> DEFINE g == granted[s][i]
               used == Scale * (Len(granted[s]) - i + 1)
    <3>1. g \in 0 .. MaxTime /\ at \in 0 .. MaxTime /\ i \in Nat /\ Len(granted[s]) \in Nat
      BY <1>0, <2>3, RateAssumption
    <3>2. g <= seen[s] /\ buckets[s].tokens + used <= Capacity + Rate * (seen[s] - g)
      BY <1>0, <2>3 DEF LedgerOf
    <3>3. seen[s] \in Int /\ seen[s] <= at
      BY <1>0, RateAssumption
    <3>a. /\ \A r, x, y, z \in Int : r * (x - y) + r * (y - z) = r * (x - z)
          /\ \A x, y \in Int : x * y \in Int
      OBVIOUS
    <3>b. b.tokens \in Int /\ buckets[s].tokens \in Int
      BY <2>1, <2>2, Parameters DEF Bucket
    <3> HIDE DEF g, at, b
    <3>4. Rate * (at - seen[s]) + Rate * (seen[s] - g) = Rate * (at - g)
      BY <3>1, <3>3, <3>a, Parameters, RateAssumption
    <3>5. /\ used \in Int
          /\ Rate * (at - seen[s]) \in Int
          /\ Rate * (seen[s] - g) \in Int
          /\ Capacity \in Int
      BY <3>1, <3>3, <3>a, Parameters, RateAssumption
    <3>6. g <= at
      BY <3>1, <3>2, <3>3, RateAssumption
    <3> HIDE DEF used
    <3>7. b.tokens + used <= Capacity + Rate * (at - g)
      BY <2>2, <3>2, <3>4, <3>5, <3>b
    <3> QED
      BY <3>6, <3>7 DEF g, used, b, at
  <2> QED
    BY <2>2, <2>3
<1> QED
  BY <1>1, <1>2

\* Allow keeps the types and the ledger.
LEMMA AllowPreserves ==
    ASSUME RateInv, NEW c \in Callers, NEW s \in Sources, Allow(c, s)
    PROVE  RateInv'
<1> DEFINE t == now[c]
           b == BucketOf(s, t)
           at == IF seen[s] > t THEN seen[s] ELSE t
           g == granted[s]
<1>0. /\ buckets \in [Sources -> {NoBucket} \cup Bucket]
      /\ now \in [Callers -> {Idle} \cup 0 .. MaxTime]
      /\ seen \in [Sources -> -1 .. MaxTime]
      /\ granted \in [Sources -> Seq(0 .. MaxTime)]
      /\ clock \in 0 .. MaxTime /\ set \in 0 .. MaxSteps /\ calls \in 0 .. MaxCalls
  BY DEF RateInv, RateTypeOK, Bucket
<1>1. t \in 0 .. MaxTime
  BY <1>0 DEF Allow
<1>2. /\ b \in Bucket
      /\ b.last = at
      /\ \A i \in DOMAIN g :
            /\ g[i] <= at
            /\ b.tokens + Scale * (Len(g) - i + 1) <= Capacity + Rate * (at - g[i])
  BY <1>1, WorkingBucket
<1>3. at \in 0 .. MaxTime
  BY <1>0, <1>1, RateAssumption
<1>4. seen' = [seen EXCEPT ![s] = at]
  BY DEF Allow
<1>5. /\ now' = [now EXCEPT ![c] = Idle]
      /\ UNCHANGED <<clock, set, calls>>
  BY DEF Allow
<1>6. b.tokens \in Int /\ 0 <= b.tokens /\ b.tokens <= Capacity /\ Capacity \in Nat
  BY <1>2, Parameters DEF Bucket
<1>7. /\ g \in Seq(0 .. MaxTime) /\ Len(g) \in Nat /\ DOMAIN g = 1 .. Len(g)
      /\ \A i \in 1 .. Len(g) : g[i] \in 0 .. MaxTime
  <2>1. g \in Seq(0 .. MaxTime)
    BY <1>0
  <2> HIDE DEF g
  <2>2. Len(g) \in Nat /\ DOMAIN g = 1 .. Len(g)
    BY <2>1
  <2>3. ASSUME NEW i \in 1 .. Len(g) PROVE g[i] \in 0 .. MaxTime
    <3> DEFINE Times == 0 .. MaxTime
    <3> HIDE DEF Times
    <3>1. g \in Seq(Times)
      BY <2>1 DEF Times
    <3>2. g[i] \in Times
      BY <2>3, <3>1
    <3> QED
      BY <3>2 DEF Times
  <2> QED
    BY <2>1, <2>2, <2>3
<1>8. CASE Enough(b)
  <2> DEFINE left == [b EXCEPT !.tokens = @ - Scale]
             h == Append(g, at)
  <2>1. buckets' = [buckets EXCEPT ![s] = left] /\ granted' = [granted EXCEPT ![s] = h]
    BY <1>0, <1>4, <1>8 DEF Allow
  <2>2. /\ left \in Bucket /\ left # NoBucket
        /\ left.tokens = b.tokens - Scale /\ left.last = at
    BY <1>2, <1>6, <1>8, Parameters DEF Bucket, Enough, NoBucket
  <2>3. /\ h \in Seq(0 .. MaxTime) /\ Len(h) = Len(g) + 1 /\ h[Len(g) + 1] = at
        /\ \A i \in 1 .. Len(g) : h[i] = g[i]
    BY <1>3, <1>7
  <2>4. RateTypeOK'
    BY <1>0, <1>3, <1>4, <1>5, <2>1, <2>2, <2>3 DEF RateTypeOK, Bucket, Idle
  <2>5. ASSUME NEW i \in DOMAIN h
        PROVE  /\ h[i] <= at
               /\ left.tokens + Scale * (Len(h) - i + 1) <= Capacity + Rate * (at - h[i])
    <3>1. CASE i = Len(g) + 1
      <4>1. h[i] = at /\ Len(h) - i + 1 = 1 /\ at - h[i] = 0
        BY <1>3, <1>7, <2>3, <3>1
      <4>2. Scale * (Len(h) - i + 1) = Scale /\ Rate * (at - h[i]) = 0
        BY <4>1, Parameters
      <4>3. left.tokens + Scale <= Capacity + 0
        BY <1>6, <2>2, Parameters
      <4>4. at <= at
        BY <1>3, RateAssumption
      <4> HIDE DEF left, h, at
      <4> QED
        BY <4>1, <4>2, <4>3, <4>4
    <3>2. CASE i # Len(g) + 1
      <4>1. i \in 1 .. Len(g) /\ h[i] = g[i]
        BY <1>7, <2>3, <2>5, <3>2
      <4>2. \A k, n \in Int : k * (n + 1) = k * n + k
        OBVIOUS
      <4>3. Scale * (Len(h) - i + 1) = Scale * (Len(g) - i + 1) + Scale
        <5>1. Len(h) - i + 1 = (Len(g) - i + 1) + 1 /\ Len(g) - i + 1 \in Int
          BY <1>7, <2>3, <4>1
        <5> QED
          BY <4>2, <5>1, Parameters
      <4>4. Scale * (Len(g) - i + 1) \in Int /\ Rate * (at - h[i]) \in Int
        <5>1. at \in Int /\ g[i] \in Int /\ Len(g) \in Int /\ i \in Int
          BY <1>3, <1>7, <4>1, RateAssumption
        <5>2. Scale \in Int /\ Rate \in Int
          BY Parameters, RateAssumption
        <5> HIDE DEF at, g, h
        <5>3. Len(g) - i + 1 \in Int /\ at - h[i] \in Int
          BY <4>1, <5>1
        <5> QED
          BY <5>2, <5>3, Product
      <4>5. g[i] <= at /\ b.tokens + Scale * (Len(g) - i + 1) <= Capacity + Rate * (at - h[i])
        BY <1>2, <1>7, <4>1
      <4> DEFINE used == Scale * (Len(g) - i + 1)
                 more == Scale * (Len(h) - i + 1)
                 earned == Rate * (at - h[i])
      <4>6. /\ used \in Int /\ earned \in Int /\ more = used + Scale
            /\ b.tokens + used <= Capacity + earned
        BY <4>3, <4>4, <4>5
      <4>7. left.tokens = b.tokens - Scale
        BY <2>2
      <4> HIDE DEF used, more, earned, left, b
      <4>8. left.tokens + more <= Capacity + earned
        BY <1>6, <4>6, <4>7, Parameters
      <4> QED
        BY <4>1, <4>5, <4>8 DEF more, earned
    <3> QED
      BY <3>1, <3>2
  <2>6. LedgerOf(s)'
    BY <1>0, <1>4, <2>1, <2>2, <2>5 DEF LedgerOf
  <2>7. \A x \in Sources \ {s} : LedgerOf(x)'
    BY <1>0, <1>4, <2>1 DEF LedgerOf, RateInv, Ledger
  <2> QED
    BY <2>4, <2>6, <2>7 DEF RateInv, Ledger
<1>9. CASE ~Enough(b)
  <2>1. buckets' = [buckets EXCEPT ![s] = b] /\ granted' = granted
    BY <1>0, <1>9 DEF Allow
  <2>2. RateTypeOK'
    BY <1>0, <1>2, <1>3, <1>4, <1>5, <2>1 DEF RateTypeOK, Bucket, Idle
  <2>3. b # NoBucket
    BY <1>6 DEF NoBucket
  <2>4. LedgerOf(s)'
    BY <1>0, <1>2, <1>4, <2>1, <2>3 DEF LedgerOf
  <2>5. \A x \in Sources \ {s} : LedgerOf(x)'
    BY <1>0, <1>4, <2>1 DEF LedgerOf, RateInv, Ledger
  <2> QED
    BY <2>2, <2>4, <2>5 DEF RateInv, Ledger
<1> QED
  BY <1>8, <1>9

\* Every step keeps the types and the ledger.
LEMMA RateStep == RateInv /\ [Next]_vars => RateInv'
<1> SUFFICES ASSUME RateInv, [Next]_vars PROVE RateInv'
  OBVIOUS
<1>0. RateTypeOK /\ Ledger
  BY DEF RateInv
<1>1. CASE UNCHANGED vars
  BY <1>0, <1>1 DEF vars, RateInv, RateTypeOK, Ledger, LedgerOf
<1>2. CASE Tick
  <2>1. RateTypeOK'
    BY <1>0, <1>2, RateAssumption DEF Tick, RateTypeOK
  <2>2. Ledger'
    BY <1>0, <1>2 DEF Tick, Ledger, LedgerOf
  <2> QED
    BY <2>1, <2>2 DEF RateInv
<1>3. CASE StepBack
  <2>1. RateTypeOK'
    BY <1>0, <1>3, RateAssumption DEF StepBack, RateTypeOK
  <2>2. Ledger'
    BY <1>0, <1>3 DEF StepBack, Ledger, LedgerOf
  <2> QED
    BY <2>1, <2>2 DEF RateInv
<1>4. ASSUME NEW c \in Callers, ReadClock(c) PROVE RateInv'
  <2>1. RateTypeOK'
    BY <1>0, <1>4, RateAssumption DEF ReadClock, RateTypeOK
  <2>2. Ledger'
    BY <1>0, <1>4 DEF ReadClock, Ledger, LedgerOf
  <2> QED
    BY <2>1, <2>2 DEF RateInv
<1>5. ASSUME NEW c \in Callers, NEW s \in Sources, Allow(c, s) PROVE RateInv'
  BY <1>5, AllowPreserves
<1> QED
  BY <1>1, <1>2, <1>3, <1>4, <1>5 DEF Next

LEMMA RateInit == Init => RateInv
<1> SUFFICES ASSUME Init PROVE RateInv
  OBVIOUS
<1>1. RateTypeOK
  BY RateAssumption DEF Init, RateTypeOK, Idle
<1>2. ASSUME NEW s \in Sources PROVE LedgerOf(s)
  <2>1. buckets[s] = NoBucket /\ seen[s] = -1 /\ granted[s] = <<>>
    BY DEF Init
  <2>2. DOMAIN granted[s] = {}
    BY <2>1
  <2> QED
    BY <2>1, <2>2 DEF LedgerOf, NoBucket
<1> QED
  BY <1>1, <1>2 DEF RateInv, Ledger

LEMMA RateInvariant == Spec => []RateInv
  BY RateInit, RateStep, PTL DEF Spec

\* Allow's bucket never holds more than the burst or less than nothing,
\* whatever the arguments of NewRateLimiter are.
THEOREM RateTypeCorrect == Spec => []RateTypeOK
<1>1. RateInv => RateTypeOK
  BY DEF RateInv
<1> QED
  BY <1>1, RateInvariant, PTL

\* No window between grants exceeds the burst and the rate times its length,
\* for any rate and burst, any number of callers that race between the clock
\* and the lock, and a clock that goes back any number of times.
THEOREM WindowBounded == Spec => []WindowBound
<1>1. RateInv => WindowBound
  <2> SUFFICES ASSUME RateInv, NEW s \in Sources, NEW x \in Allowance(s, seen[s])
               PROVE  x >= 0
    BY DEF WindowBound
  <2>1. buckets[s] \in {NoBucket} \cup Bucket /\ LedgerOf(s)
        /\ granted[s] \in Seq(0 .. MaxTime) /\ seen[s] \in -1 .. MaxTime
    BY DEF RateInv, RateTypeOK, Ledger, Bucket
  <2>2. CASE x = Capacity
    BY <2>2, Parameters
  <2>3. ASSUME NEW i \in DOMAIN granted[s],
               x = Capacity + Rate * (seen[s] - granted[s][i]) - Scale * (Len(granted[s]) - i + 1)
        PROVE  x >= 0
    <3>1. buckets[s] # NoBucket
      BY <2>1, <2>3 DEF LedgerOf
    <3>2. buckets[s].tokens \in Int /\ buckets[s].tokens >= 0
      BY <2>1, <3>1, Parameters DEF Bucket
    <3>3. /\ granted[s][i] \in Int /\ seen[s] \in Int
          /\ i \in Int /\ Len(granted[s]) \in Int
      BY <2>1, <2>3, RateAssumption
    <3>4. /\ Rate * (seen[s] - granted[s][i]) \in Int
          /\ Scale * (Len(granted[s]) - i + 1) \in Int
          /\ Capacity \in Int
      <4>1. Rate \in Int /\ Scale \in Int /\ Capacity \in Int
        BY Parameters
      <4>2. seen[s] - granted[s][i] \in Int /\ Len(granted[s]) - i + 1 \in Int
        BY <3>3
      <4> QED
        BY <4>1, <4>2, Product
    <3>5. buckets[s].tokens + Scale * (Len(granted[s]) - i + 1)
             <= Capacity + Rate * (seen[s] - granted[s][i])
      BY <2>1, <2>3 DEF LedgerOf
    <3> QED
      BY <2>3, <3>2, <3>4, <3>5
  <2> QED
    BY <2>2, <2>3 DEF Allowance
<1> QED
  BY <1>1, RateInvariant, PTL

-----------------------------------------------------------------------------
(* The other direction: no credit is lost. *)

\* What the window from the i-th grant of a history g leaves at time t.
Leaves(g, i, t) == Capacity + Rate * (t - g[i]) - Scale * (Len(g) - i + 1)

\* The bucket is full, or holds what one of the windows leaves.
TightOf(s) ==
    buckets[s] # NoBucket =>
        \/ buckets[s].tokens >= Capacity
        \/ \E i \in DOMAIN granted[s] : Leaves(granted[s], i, seen[s]) <= buckets[s].tokens

Tight == \A s \in Sources : TightOf(s)

\* Refill credits all of the time since last, up to a full bucket.
LEMMA RefillExact ==
    ASSUME NEW b \in Bucket, NEW t \in 0 .. MaxTime
    PROVE  \/ Refill(b, t).tokens = Capacity
           \/ Refill(b, t).tokens = b.tokens + Rate * (Refill(b, t).last - b.last)
<1>1. \A r, d \in Nat : r * d \in Nat /\ r * d = d * r
  OBVIOUS
<1>2. CASE t - b.last > 0
  <2>1. (t - b.last) * Rate \in Nat /\ (t - b.last) * Rate = Rate * (t - b.last)
    BY <1>1, <1>2, Parameters, RateAssumption DEF Bucket
  <2> QED
    BY <1>2, <2>1, Parameters, RateAssumption DEF Refill, Bucket
<1>3. CASE ~(t - b.last > 0)
  <2>1. Rate * (b.last - b.last) = 0
    BY Parameters, RateAssumption DEF Bucket
  <2> QED
    BY <1>3, <2>1, Parameters, RateAssumption DEF Refill, Bucket
<1> QED
  BY <1>2, <1>3

\* Leaves is an integer that grows by the rate, and falls by a token with
\* every further grant.
LEMMA LeavesMoves ==
    ASSUME NEW g \in Seq(Int), NEW i \in DOMAIN g, NEW t \in Int, NEW u \in Int
    PROVE  /\ Leaves(g, i, t) \in Int
           /\ Leaves(g, i, u) = Leaves(g, i, t) + Rate * (u - t)
           /\ Leaves(Append(g, u), i, t) = Leaves(g, i, t) - Scale
<1>1. i \in 1 .. Len(g) /\ Len(g) \in Nat /\ g[i] \in Int
  OBVIOUS
<1>2. Len(Append(g, u)) = Len(g) + 1 /\ Append(g, u)[i] = g[i] /\ Append(g, u)[Len(g) + 1] = u
  BY <1>1
<1>3. /\ \A r, x, y, z \in Int : r * (x - z) = r * (y - z) + r * (x - y)
      /\ \A k, n \in Int : k * (n + 1) = k * n + k
      /\ \A k \in Int : k * 1 = k /\ k * 0 = 0
  OBVIOUS
<1>4. Rate \in Int /\ Scale \in Int /\ Capacity \in Int
  BY Parameters
<1>5. /\ Rate * (t - g[i]) \in Int /\ Rate * (u - t) \in Int
      /\ Scale * (Len(g) - i + 1) \in Int
  <2>1. t - g[i] \in Int /\ u - t \in Int /\ Len(g) - i + 1 \in Int
    BY <1>1
  <2> QED
    BY <1>4, <2>1, Product
<1>6. Rate * (u - g[i]) = Rate * (t - g[i]) + Rate * (u - t)
  BY <1>1, <1>3, <1>4
<1>7. Scale * ((Len(g) + 1) - i + 1) = Scale * (Len(g) - i + 1) + Scale
  <2>1. (Len(g) + 1) - i + 1 = (Len(g) - i + 1) + 1 /\ Len(g) - i + 1 \in Int
    BY <1>1
  <2> QED
    BY <1>3, <1>4, <2>1
<1> DEFINE earned == Rate * (t - g[i])
           since == Rate * (u - t)
           used == Scale * (Len(g) - i + 1)
<1>8. /\ Leaves(g, i, t) = Capacity + earned - used
      /\ Leaves(g, i, u) = Capacity + (earned + since) - used
      /\ Leaves(Append(g, u), i, t) = Capacity + earned - (used + Scale)
  BY <1>2, <1>6, <1>7 DEF Leaves
<1>9. earned \in Int /\ since \in Int /\ used \in Int
  BY <1>5
<1> HIDE DEF earned, used
<1>10. /\ Leaves(g, i, t) \in Int
       /\ Leaves(g, i, u) = Leaves(g, i, t) + since
       /\ Leaves(Append(g, u), i, t) = Leaves(g, i, t) - Scale
  <2> HIDE DEF since
  <2> QED
    BY <1>4, <1>8, <1>9
<1> QED
  BY <1>10

\* A grant's own window leaves a full bucket less the token granted.
LEMMA LeavesOwn ==
    ASSUME NEW g \in Seq(Int), NEW u \in Int
    PROVE  Leaves(Append(g, u), Len(g) + 1, u) = Capacity - Scale
<1>1. Len(g) \in Nat /\ Len(Append(g, u)) = Len(g) + 1 /\ Append(g, u)[Len(g) + 1] = u
  OBVIOUS
<1>2. u - u = 0 /\ (Len(g) + 1) - (Len(g) + 1) + 1 = 1
  BY <1>1
<1>3. Rate * 0 = 0 /\ Scale * 1 = Scale /\ Scale \in Int /\ Capacity \in Int
  BY Parameters
<1> QED
  BY <1>1, <1>2, <1>3 DEF Leaves

\* Allow keeps the bucket tight.
LEMMA AllowTight ==
    ASSUME RateInv, Tight, NEW c \in Callers, NEW s \in Sources, Allow(c, s)
    PROVE  Tight'
<1> DEFINE t == now[c]
           b == BucketOf(s, t)
           at == IF seen[s] > t THEN seen[s] ELSE t
           g == granted[s]
<1>0. /\ buckets \in [Sources -> {NoBucket} \cup Bucket]
      /\ now \in [Callers -> {Idle} \cup 0 .. MaxTime]
      /\ seen \in [Sources -> -1 .. MaxTime]
      /\ granted \in [Sources -> Seq(0 .. MaxTime)]
      /\ LedgerOf(s)
  BY DEF RateInv, RateTypeOK, Bucket, Ledger
<1>1. t \in 0 .. MaxTime
  BY <1>0 DEF Allow
<1>2. b \in Bucket /\ b.last = at
  BY <1>1, WorkingBucket
<1>3. at \in Int /\ seen[s] \in Int /\ seen[s] <= at
  BY <1>0, <1>1, RateAssumption
<1>4. g \in Seq(Int)
  <2>1. g \in Seq(0 .. MaxTime)
    BY <1>0
  <2> HIDE DEF g
  <2>2. 0 .. MaxTime \subseteq Int
    BY RateAssumption
  <2> DEFINE Times == 0 .. MaxTime
  <2>3. g \in Seq(Times) /\ Times \subseteq Int
    BY <2>1, <2>2
  <2> HIDE DEF Times
  <2>4. Len(g) \in Nat /\ g \in [1 .. Len(g) -> Times]
    BY <2>3
  <2>5. g \in [1 .. Len(g) -> Int]
    BY <2>3, <2>4
  <2> QED
    BY <2>4, <2>5
<1>5. seen' = [seen EXCEPT ![s] = at]
  BY DEF Allow
<1>6. b.tokens \in Int /\ Capacity \in Int /\ Scale \in Int /\ Rate \in Nat
  BY <1>2, Parameters DEF Bucket
<1>7. b.tokens >= Capacity \/ \E i \in DOMAIN g : Leaves(g, i, at) <= b.tokens
  <2>1. CASE buckets[s] = NoBucket
    <3> DEFINE full == [tokens |-> Capacity, last |-> t]
    <3>1. b = Refill(full, t) /\ full.last = t /\ full.tokens = Capacity
      BY <2>1 DEF BucketOf
    <3>2. ~(t - full.last > 0)
      BY <1>1, <3>1, RateAssumption
    <3>3. b = full
      BY <3>1, <3>2 DEF Refill
    <3> QED
      BY <1>6, <3>1, <3>3
  <2>2. CASE buckets[s] # NoBucket
    <3>1. buckets[s] \in Bucket /\ b = Refill(buckets[s], t) /\ buckets[s].last = seen[s]
      BY <1>0, <2>2 DEF BucketOf, LedgerOf
    <3>2. buckets[s].tokens \in Int
      BY <3>1, Parameters DEF Bucket
    <3>3. b.tokens = Capacity \/ b.tokens = buckets[s].tokens + Rate * (at - seen[s])
      BY <1>1, <1>2, <3>1, RefillExact
    <3>4. Rate * (at - seen[s]) \in Int /\ Rate * (at - seen[s]) >= 0
      <4>1. \A r, d \in Nat : r * d \in Int /\ r * d >= 0
        OBVIOUS
      <4>2. at - seen[s] \in Nat
        BY <1>3
      <4> QED
        BY <1>6, <4>1, <4>2
    <3>5. CASE b.tokens = Capacity
      BY <1>6, <3>5
    <3>6. CASE b.tokens = buckets[s].tokens + Rate * (at - seen[s])
      <4>1. TightOf(s)
        BY DEF Tight
      <4>2. CASE buckets[s].tokens >= Capacity
        BY <1>6, <3>2, <3>4, <3>6, <4>2
      <4>3. ASSUME NEW i \in DOMAIN g, Leaves(g, i, seen[s]) <= buckets[s].tokens
            PROVE  Leaves(g, i, at) <= b.tokens
        <5>1. /\ Leaves(g, i, seen[s]) \in Int
              /\ Leaves(g, i, at) = Leaves(g, i, seen[s]) + Rate * (at - seen[s])
          BY <1>3, <1>4, <4>3, LeavesMoves
        <5> HIDE DEF b, g, at
        <5> QED
          BY <1>6, <3>2, <3>4, <3>6, <4>3, <5>1
      <4> QED
        BY <2>2, <4>1, <4>2, <4>3 DEF TightOf
    <3> QED
      BY <3>3, <3>5, <3>6
  <2> QED
    BY <2>1, <2>2
<1>8. CASE Enough(b)
  <2> DEFINE left == [b EXCEPT !.tokens = @ - Scale]
             h == Append(g, at)
  <2>1. buckets' = [buckets EXCEPT ![s] = left] /\ granted' = [granted EXCEPT ![s] = h]
    BY <1>0, <1>5, <1>8 DEF Allow
  <2>2. left.tokens = b.tokens - Scale
    BY <1>2 DEF Bucket
  <2>3. DOMAIN h = 1 .. Len(g) + 1 /\ DOMAIN g = 1 .. Len(g) /\ Len(g) \in Nat
    BY <1>3, <1>4
  <2>4. \E i \in DOMAIN h : Leaves(h, i, at) <= left.tokens
    <3>1. CASE b.tokens >= Capacity
      <4>1. Leaves(h, Len(g) + 1, at) = Capacity - Scale
        BY <1>3, <1>4, LeavesOwn
      <4>2. Len(g) + 1 \in DOMAIN h
        BY <2>3
      <4>3. Capacity - Scale <= b.tokens - Scale
        BY <1>6, <3>1
      <4> QED
        BY <2>2, <4>1, <4>2, <4>3
    <3>2. ASSUME NEW i \in DOMAIN g, Leaves(g, i, at) <= b.tokens
          PROVE  i \in DOMAIN h /\ Leaves(h, i, at) <= left.tokens
      <4>1. Leaves(g, i, at) \in Int /\ Leaves(h, i, at) = Leaves(g, i, at) - Scale
        BY <1>3, <1>4, <3>2, LeavesMoves
      <4>2. Leaves(g, i, at) - Scale <= b.tokens - Scale
        <5> HIDE DEF b, g, at
        <5> QED
          BY <1>6, <3>2, <4>1
      <4>3. i \in DOMAIN h
        BY <2>3, <3>2
      <4> QED
        BY <2>2, <4>1, <4>2, <4>3
    <3> QED
      BY <1>7, <3>1, <3>2
  <2>5. TightOf(s)'
    BY <1>0, <1>5, <2>1, <2>4 DEF TightOf
  <2>6. \A x \in Sources \ {s} : TightOf(x)'
    BY <1>0, <1>5, <2>1 DEF TightOf, Tight
  <2> QED
    BY <2>5, <2>6 DEF Tight
<1>9. CASE ~Enough(b)
  <2>1. buckets' = [buckets EXCEPT ![s] = b] /\ granted' = granted
    BY <1>0, <1>9 DEF Allow
  <2>2. TightOf(s)'
    BY <1>0, <1>5, <1>7, <2>1 DEF TightOf
  <2>3. \A x \in Sources \ {s} : TightOf(x)'
    BY <1>0, <1>5, <2>1 DEF TightOf, Tight
  <2> QED
    BY <2>2, <2>3 DEF Tight
<1> QED
  BY <1>8, <1>9

\* A line is refused only when its own source has used up its allowance: time
\* that has passed is always credited, in fractions of a token too, however
\* often Allow is called in between, and no source is charged for another.
THEOREM NothingRefusedEarly == Spec => []RefusedOnlyAtLimit
<1>1. Init => Tight
  BY DEF Init, Tight, TightOf
<1>2. RateInv /\ Tight /\ [Next]_vars => Tight'
  <2> SUFFICES ASSUME RateInv, Tight, [Next]_vars PROVE Tight'
    OBVIOUS
  <2>1. CASE \E c \in Callers, s \in Sources : Allow(c, s)
    BY <2>1, AllowTight
  <2>2. CASE UNCHANGED <<buckets, seen, granted>>
    BY <2>2 DEF Tight, TightOf, Leaves
  <2> QED
    BY <2>1, <2>2 DEF Next, vars, Tick, StepBack, ReadClock
<1>3. RateInv /\ Tight => RefusedOnlyAtLimit
  <2> SUFFICES ASSUME RateInv, Tight, NEW s \in Sources, buckets[s] # NoBucket
               PROVE  \E x \in Allowance(s, seen[s]) : x <= buckets[s].tokens
    BY DEF RefusedOnlyAtLimit
  <2>1. buckets[s].tokens \in Int /\ Capacity \in Int
    BY Parameters DEF RateInv, RateTypeOK
  <2>2. CASE buckets[s].tokens >= Capacity
    BY <2>1, <2>2 DEF Allowance
  <2>3. ASSUME NEW i \in DOMAIN granted[s], Leaves(granted[s], i, seen[s]) <= buckets[s].tokens
        PROVE  \E x \in Allowance(s, seen[s]) : x <= buckets[s].tokens
    BY <2>3 DEF Allowance, Leaves
  <2> QED
    BY <2>2, <2>3 DEF Tight, TightOf
<1> QED
  BY <1>1, <1>2, <1>3, RateInvariant, PTL DEF Spec
=============================================================================
