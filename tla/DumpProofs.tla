------------------------------ MODULE DumpProofs ------------------------------
(***************************************************************************)
(* Proofs about one-shot mode (internal/oneshot, cmd/blackboxd): a dump    *)
(* writes its entries in order of time (DumpSorted), writes all it was     *)
(* asked for (DumpComplete) and fails only for its output or for a time    *)
(* JSON cannot hold (DumpAborts), for every set of sources and contents.   *)
(***************************************************************************)
EXTENDS Dump, SequenceTheorems, FiniteSetTheorems, FunctionTheorems,
        WellFoundedInduction, TLAPS

-----------------------------------------------------------------------------
AllKinds == {"file", "kmsg", "dmesg", "journal"}
Line     == {Bad} \cup 0 .. Far

\* A command line and its surroundings.
JobOK(j) ==
    /\ j.kinds \in Seq(AllKinds)
    /\ \A s \in DOMAIN j.kinds : j.holds[s] \in Seq(Line)
    /\ j.window[1] \in Nat /\ j.window[2] \in Nat
    /\ j.max \in Int /\ j.room \in Nat

\* All that an output was given, wherever it is by now.
Enc(o) == o.file \o o.gz \o o.buf

PrefixOf(p, q) == Len(p) <= Len(q) /\ \A k \in 1 .. Len(p) : p[k] = q[k]

Outputs(S) == [buf : Seq(S), gz : Seq(S), file : Seq(S), err : BOOLEAN]

OutOK(j, S, o) ==
    /\ o \in Outputs(S)
    /\ Len(o.buf) <= BufCap
    /\ Len(o.file) <= j.room
    /\ ~j.gzip => o.gz = <<>>

-----------------------------------------------------------------------------
LEMMA TimeFacts == Far \in Nat /\ LastTime \in Nat /\ Bad \notin Nat
  BY DumpConstants DEF Far, Bad

LEMMA JobsAreOK ==
  ASSUME NEW j \in Jobs
  PROVE  JobOK(j)
<1>1. PICK k \in Selections :
          j \in [cmd : {"dump"}, kinds : {k},
                 holds : HoldsOf(k), ends : EndsOf(k),
                 window : Windows, max : MaxLines,
                 bad : {FALSE}, gzip : BOOLEAN, creatable : {TRUE}, room : Rooms]
  BY DEF Jobs
<1>2. /\ j.kinds = k /\ j.holds \in HoldsOf(k) /\ j.window \in Windows
      /\ j.max \in MaxLines /\ j.room \in Rooms
  BY <1>1
<1>3. k \in Seq(AllKinds)
  BY DumpConstants DEF AllKinds
<1>4. j.holds \in [DOMAIN k -> Contents]
  BY <1>2 DEF HoldsOf
<1>5. \A s \in DOMAIN k : j.holds[s] \in Seq(Line)
  BY <1>4, DumpConstants DEF Line
<1>6. j.window[1] \in Nat /\ j.window[2] \in Nat
  <2>1. j.window \in Nat \X Nat
    BY <1>2, DumpConstants
  <2> QED
    BY <2>1
<1>7. j.max \in Int /\ j.room \in Nat
  BY <1>2, DumpConstants
<1> QED
  BY <1>2, <1>3, <1>5, <1>6, <1>7 DEF JobOK

LEMMA InitJobOK == Init => JobOK(job)
<1> SUFFICES ASSUME Init PROVE JobOK(job)
  OBVIOUS
<1>1. CASE job \in Jobs
  BY <1>1, JobsAreOK
<1>2. CASE job \in Shortcuts
  <2>1. AJob \in Jobs
    BY DumpConstants DEF AJob
  <2>2. JobOK(AJob)
    BY <2>1, JobsAreOK
  <2>3. PICK k \in Selections :
          AJob \in [cmd : {"dump"}, kinds : {k},
                 holds : HoldsOf(k), ends : EndsOf(k),
                 window : Windows, max : MaxLines,
                 bad : {FALSE}, gzip : BOOLEAN, creatable : {TRUE}, room : Rooms]
    BY <2>1 DEF Jobs
  <2>4. \/ \E c : job = [AJob EXCEPT !.cmd = c]
        \/ job = [AJob EXCEPT !.bad = TRUE]
        \/ job = [AJob EXCEPT !.creatable = FALSE]
    BY <1>2, Zenon DEF Shortcuts
  <2>5. /\ job.kinds = AJob.kinds /\ job.holds = AJob.holds
        /\ job.window = AJob.window /\ job.max = AJob.max /\ job.room = AJob.room
    BY <2>3, <2>4
  <2> QED
    BY <2>2, <2>5, Zenon DEF JobOK
<1> QED
  BY <1>1, <1>2 DEF Init

-----------------------------------------------------------------------------
LEMMA ConcatShape ==
  ASSUME NEW S, NEW a \in Seq(S), NEW b \in Seq(S)
  PROVE  /\ a \o b \in Seq(S) /\ Len(a \o b) = Len(a) + Len(b)
         /\ Len(a) \in Nat /\ Len(b) \in Nat
         /\ \A k \in 1 .. Len(a) : (a \o b)[k] = a[k]
         /\ \A k \in 1 .. Len(b) : (a \o b)[Len(a) + k] = b[k]
  OBVIOUS

\* A sequence with more before it has the same prefixes.
LEMMA PrefixConcat ==
  ASSUME NEW S, NEW a \in Seq(S), NEW b \in Seq(S), NEW c \in Seq(S), PrefixOf(b, c)
  PROVE  PrefixOf(a \o b, a \o c)
<1>1. /\ Len(a \o b) = Len(a) + Len(b) /\ Len(a \o c) = Len(a) + Len(c)
      /\ Len(a) \in Nat /\ Len(b) \in Nat /\ Len(c) \in Nat
  OBVIOUS
<1>2. Len(b) <= Len(c) /\ \A k \in 1 .. Len(b) : b[k] = c[k]
  BY DEF PrefixOf
<1>3. ASSUME NEW k \in 1 .. Len(a) + Len(b)
      PROVE  (a \o b)[k] = (a \o c)[k]
  <2>1. CASE k <= Len(a)
    <3>1. k \in 1 .. Len(a)
      BY <1>1, <2>1
    <3> QED
      BY <3>1, ConcatShape
  <2>2. CASE k > Len(a)
    <3>1. k - Len(a) \in 1 .. Len(b) /\ k - Len(a) \in 1 .. Len(c)
      BY <1>1, <1>2, <2>2
    <3>2. (a \o b)[k] = b[k - Len(a)] /\ (a \o c)[k] = c[k - Len(a)]
      BY <1>1, <2>2, <3>1
    <3> QED
      BY <1>2, <3>1, <3>2
  <2>3. k <= Len(a) \/ k > Len(a)
    BY <1>1
  <2> QED
    BY <2>1, <2>2, <2>3
<1> QED
  BY <1>1, <1>2, <1>3 DEF PrefixOf

LEMMA ConcatAppend ==
  ASSUME NEW S, NEW a \in Seq(S), NEW b \in Seq(S), NEW e \in S
  PROVE  a \o Append(b, e) = Append(a \o b, e)
<1>1. Append(b, e) = b \o <<e>> /\ Append(a \o b, e) = (a \o b) \o <<e>>
  OBVIOUS
<1>2. <<e>> \in Seq(S)
  OBVIOUS
<1>3. a \o (b \o <<e>>) = (a \o b) \o <<e>>
  BY <1>2, ConcatAssociative
<1> QED
  BY <1>1, <1>3

\* What is written to a full output is cut short, and the error sticks.
LEMMA StoreShape ==
  ASSUME NEW S, NEW o \in Outputs(S), NEW xs \in Seq(S), job.room \in Nat,
         Len(o.file) <= job.room
  PROVE  LET r == Store(o, xs) IN
         /\ r \in Outputs(S) /\ r.buf = o.buf /\ r.gz = o.gz
         /\ Len(r.file) <= job.room
         /\ PrefixOf(r.file, o.file \o xs)
         /\ o.err => r.err
         /\ ~r.err => r.file = o.file \o xs
<1> DEFINE r == Store(o, xs)
           m == IF Len(xs) < job.room - Len(o.file) THEN Len(xs) ELSE job.room - Len(o.file)
           pre == SubSeq(xs, 1, m)
<1>1. o.file \in Seq(S) /\ Len(o.file) \in Nat /\ Len(xs) \in Nat
  BY DEF Outputs
<1>2. m \in Nat /\ m <= Len(xs) /\ m <= job.room - Len(o.file)
  BY <1>1
<1>3. Fits(o, xs) = pre
  BY DEF Fits
<1> HIDE DEF m
<1>4. pre \in Seq(S) /\ Len(pre) = m /\ \A k \in 1 .. m : pre[k] = xs[k]
  BY <1>2
<1>5. pre = xs \/ m < Len(xs)
  <2>1. CASE m = Len(xs)
    BY <1>4, <2>1, SeqEqual
  <2> QED
    BY <1>1, <1>2, <2>1
<1> HIDE DEF pre
<1>6. PrefixOf(pre, xs)
  BY <1>2, <1>4 DEF PrefixOf
<1>7. PrefixOf(o.file \o pre, o.file \o xs)
  BY <1>1, <1>4, <1>6, PrefixConcat
<1>8. o.file \o pre \in Seq(S) /\ Len(o.file \o pre) = Len(o.file) + m
  BY <1>1, <1>4, ConcatShape
<1>9. Len(o.file \o pre) <= job.room
  BY <1>1, <1>2, <1>8
<1>10. r = [o EXCEPT !.file = o.file \o pre, !.err = o.err \/ Len(pre) < Len(xs)]
  BY <1>3 DEF Store
<1>11. (o.err \/ Len(pre) < Len(xs)) \in BOOLEAN
  BY DEF Outputs
<1> DEFINE e == o.err \/ Len(pre) < Len(xs)
<1> HIDE DEF r
<1>12. /\ r.buf = o.buf /\ r.gz = o.gz /\ r.file = o.file \o pre /\ r.err = e
       /\ r \in Outputs(S)
  <2>1. e \in BOOLEAN
    BY <1>11
  <2>2. r = [o EXCEPT !.file = o.file \o pre, !.err = e]
    BY <1>10
  <2> HIDE DEF e
  <2> QED
    BY <1>8, <2>1, <2>2 DEF Outputs
<1>13. ~r.err => pre = xs
  BY <1>4, <1>5, <1>12
<1>14. ~r.err => r.file = o.file \o xs
  BY <1>12, <1>13
<1>15. o.err => r.err
  BY <1>12
<1> QED
  BY <1>7, <1>9, <1>12, <1>14, <1>15 DEF r

LEMMA PrefixFacts ==
  ASSUME NEW S, NEW p \in Seq(S), NEW q \in Seq(S)
  PROVE  /\ p = q => PrefixOf(p, q)
         /\ \A r \in Seq(S) : PrefixOf(p, q) /\ PrefixOf(q, r) => PrefixOf(p, r)
<1>1. Len(p) \in Nat /\ Len(q) \in Nat
  OBVIOUS
<1>2. p = q => PrefixOf(p, q)
  BY <1>1 DEF PrefixOf
<1>3. ASSUME NEW r \in Seq(S), PrefixOf(p, q), PrefixOf(q, r)
      PROVE  PrefixOf(p, r)
  <2>1. Len(r) \in Nat /\ Len(p) <= Len(q) /\ Len(q) <= Len(r)
    BY <1>3 DEF PrefixOf
  <2>2. ASSUME NEW k \in 1 .. Len(p) PROVE p[k] = r[k]
    <3>1. k \in 1 .. Len(q)
      BY <1>1, <2>1
    <3> QED
      BY <1>3, <3>1 DEF PrefixOf
  <2> QED
    BY <1>1, <2>1, <2>2 DEF PrefixOf
<1> QED
  BY <1>2, <1>3

LEMMA EncType ==
  ASSUME NEW S, NEW o \in Outputs(S)
  PROVE  /\ Enc(o) \in Seq(S)
         /\ o.file \in Seq(S) /\ o.gz \in Seq(S) /\ o.buf \in Seq(S) /\ o.err \in BOOLEAN
         /\ Len(Enc(o)) \in Nat /\ Len(o.buf) \in Nat
<1>1. o.file \in Seq(S) /\ o.gz \in Seq(S) /\ o.buf \in Seq(S) /\ o.err \in BOOLEAN
  BY DEF Outputs
<1>2. o.file \o o.gz \in Seq(S)
  BY <1>1, ConcatShape
<1>3. Enc(o) \in Seq(S)
  BY <1>1, <1>2, ConcatShape DEF Enc
<1>4. Len(Enc(o)) \in Nat /\ Len(o.buf) \in Nat
  BY <1>1, <1>3
<1> QED
  BY <1>1, <1>3, <1>4

\* A flush keeps all that was encoded, or fails and keeps its beginning.
Flushed(j, S, o, r) ==
    /\ OutOK(j, S, r)
    /\ PrefixOf(Enc(r), Enc(o))
    /\ o.err => r.err
    /\ ~r.err => Enc(r) = Enc(o) /\ r.buf = <<>>

\* Where Store leaves the parts of an output in which nothing else is left.
LEMMA StoreAll ==
  ASSUME NEW S, NEW o \in Outputs(S), NEW xs \in Seq(S), job.room \in Nat,
         Len(o.file) <= job.room, o.gz = <<>>, o.buf = <<>>, NEW r, r = Store(o, xs)
  PROVE  /\ OutOK(job, S, r) /\ r.gz = <<>> /\ r.buf = <<>>
         /\ PrefixOf(Enc(r), o.file \o xs)
         /\ ~r.err => Enc(r) = o.file \o xs
<1>1. /\ r \in Outputs(S) /\ r.buf = <<>> /\ r.gz = <<>>
      /\ Len(r.file) <= job.room
      /\ PrefixOf(r.file, o.file \o xs)
      /\ ~r.err => r.file = o.file \o xs
  BY StoreShape
<1>2. r.file \in Seq(S)
  BY <1>1, EncType
<1>3. r.file \o <<>> = r.file
  BY <1>2
<1>4. Enc(r) = r.file
  BY <1>1, <1>3 DEF Enc
<1>5. Len(r.buf) <= BufCap
  BY <1>1, DumpConstants
<1>6. OutOK(job, S, r)
  BY <1>1, <1>5 DEF OutOK
<1> QED
  BY <1>1, <1>4, <1>6

LEMMA FlushShape ==
  ASSUME NEW S, NEW o, JobOK(job), OutOK(job, S, o), NEW r \in Flushes(o)
  PROVE  Flushed(job, S, o, r)
<1>1. /\ o \in Outputs(S) /\ job.room \in Nat /\ Len(o.file) <= job.room
      /\ ~job.gzip => o.gz = <<>>
  BY DEF OutOK, JobOK
<1>a. /\ o.file \in Seq(S) /\ o.gz \in Seq(S) /\ o.buf \in Seq(S) /\ Enc(o) \in Seq(S)
  BY <1>1, EncType
<1>b. PICK f \in Seq(S), g \in Seq(S), b \in Seq(S) : o.file = f /\ o.gz = g /\ o.buf = b
  BY <1>a
<1>2. /\ f \o (g \o b) = (f \o g) \o b
      /\ g \o b \in Seq(S) /\ <<>> \in Seq(S) /\ f \o <<>> = f
      /\ f \o (g \o b) \o <<>> = f \o (g \o b)
      /\ Enc(o) = (f \o g) \o b /\ Enc(o) \in Seq(S)
  BY <1>a, <1>b DEF Enc
<1>3. CASE o.err
  <2>1. r = o
    BY <1>3 DEF Flushes
  <2> QED
    BY <1>2, <1>3, <2>1, PrefixFacts DEF Flushed
<1>4. CASE ~o.err /\ job.gzip /\ r = [o EXCEPT !.gz = o.gz \o o.buf, !.buf = <<>>]
  <2>2. /\ r \in Outputs(S) /\ r.buf = <<>> /\ r.gz = g \o b /\ r.file = f
        /\ r.err = o.err
    BY <1>1, <1>2, <1>4, <1>b DEF Outputs
  <2>3. Enc(r) = f \o (g \o b) \o <<>>
    BY <1>b, <2>2 DEF Enc
  <2>6. Enc(r) = Enc(o)
    BY <1>2, <2>3
  <2>7. OutOK(job, S, r)
    <3>1. Len(r.buf) <= BufCap
      BY <2>2, DumpConstants
    <3> QED
      BY <1>1, <1>4, <2>2, <3>1 DEF OutOK
  <2> QED
    BY <1>2, <1>4, <2>2, <2>6, <2>7, PrefixFacts DEF Flushed
<1>5. CASE ~o.err /\ job.gzip /\ r = Store([o EXCEPT !.gz = <<>>, !.buf = <<>>], o.gz \o o.buf)
  <2> DEFINE p == [o EXCEPT !.gz = <<>>, !.buf = <<>>]
  <2>2. /\ p \in Outputs(S) /\ p.buf = <<>> /\ p.gz = <<>> /\ p.file = f
        /\ p.err = o.err
    BY <1>1, <1>2, <1>b DEF Outputs
  <2>3. r = Store(p, g \o b)
    BY <1>5, <1>b
  <2> HIDE DEF p
  <2>a. Len(p.file) <= job.room
    BY <1>1, <1>b, <2>2
  <2>c. p \in Outputs(S) /\ p.gz = <<>> /\ p.buf = <<>>
    BY <2>2
  <2>d. job.room \in Nat /\ g \o b \in Seq(S)
    BY <1>1, <1>2
  <2>b. /\ OutOK(job, S, r) /\ r.buf = <<>>
        /\ PrefixOf(Enc(r), p.file \o (g \o b))
        /\ ~r.err => Enc(r) = p.file \o (g \o b)
    BY <2>3, <2>a, <2>c, <2>d, StoreAll
  <2>4. /\ OutOK(job, S, r) /\ r.buf = <<>>
        /\ PrefixOf(Enc(r), f \o (g \o b))
        /\ ~r.err => Enc(r) = f \o (g \o b)
    BY <2>2, <2>b
  <2> QED
    BY <1>2, <1>5, <2>4 DEF Flushed
<1>6. CASE ~o.err /\ ~job.gzip /\ r = Store([o EXCEPT !.buf = <<>>], o.buf)
  <2> DEFINE p == [o EXCEPT !.buf = <<>>]
  <2>2. /\ p \in Outputs(S) /\ p.buf = <<>> /\ p.gz = <<>> /\ p.file = f
        /\ p.err = o.err
    BY <1>1, <1>2, <1>6, <1>b DEF Outputs
  <2>3. r = Store(p, b)
    BY <1>6, <1>b
  <2> HIDE DEF p
  <2>a. Len(p.file) <= job.room
    BY <1>1, <1>b, <2>2
  <2>c. p \in Outputs(S) /\ p.gz = <<>> /\ p.buf = <<>>
    BY <2>2
  <2>d. job.room \in Nat /\ g \o b \in Seq(S)
    BY <1>1, <1>2
  <2>b. /\ OutOK(job, S, r) /\ r.buf = <<>>
        /\ PrefixOf(Enc(r), p.file \o b)
        /\ ~r.err => Enc(r) = p.file \o b
    BY <2>3, <2>a, <2>c, <2>d, StoreAll
  <2>4. /\ OutOK(job, S, r) /\ r.buf = <<>>
        /\ PrefixOf(Enc(r), f \o b)
        /\ ~r.err => Enc(r) = f \o b
    BY <2>2, <2>b
  <2>5. g = <<>>
    BY <1>1, <1>6, <1>b
  <2> QED
    BY <1>2, <1>6, <2>4, <2>5 DEF Flushed
<1>7. \/ o.err
      \/ ~o.err /\ job.gzip /\ r = [o EXCEPT !.gz = o.gz \o o.buf, !.buf = <<>>]
      \/ ~o.err /\ job.gzip /\ r = Store([o EXCEPT !.gz = <<>>, !.buf = <<>>], o.gz \o o.buf)
      \/ ~o.err /\ ~job.gzip /\ r = Store([o EXCEPT !.buf = <<>>], o.buf)
  BY DEF Flushes
<1> QED
  BY <1>3, <1>4, <1>5, <1>6, <1>7

\* An entry is appended to what was encoded, or the flush before it fails.
LEMMA EncodedShape ==
  ASSUME NEW S, JobOK(job), OutOK(job, S, out), NEW e \in S, NEW r \in Encoded(e), ~out.err
  PROVE  /\ OutOK(job, S, r)
         /\ r.err => PrefixOf(Enc(r), Enc(out))
         /\ ~r.err => Enc(r) = Append(Enc(out), e)
<1>1. out \in Outputs(S) /\ Len(out.buf) <= BufCap /\ BufCap \in Nat \ {0}
  BY DumpConstants DEF OutOK
<1>2. PICK o \in IF Len(out.buf) = BufCap THEN Flushes(out) ELSE {out} :
          r = IF o.err THEN o ELSE [o EXCEPT !.buf = Append(o.buf, e)]
  BY DEF Encoded
<1>3. /\ OutOK(job, S, o) /\ PrefixOf(Enc(o), Enc(out))
      /\ ~o.err => Enc(o) = Enc(out) /\ Len(o.buf) < BufCap
  <2>1. CASE Len(out.buf) = BufCap
    <3>1. Flushed(job, S, out, o)
      BY <1>2, <2>1, FlushShape
    <3> QED
      BY <1>1, <3>1 DEF Flushed
  <2>2. CASE Len(out.buf) # BufCap
    <3>1. o = out
      BY <1>2, <2>2
    <3>2. Len(out.buf) \in Nat /\ Enc(out) \in Seq(S)
      BY <1>1, EncType
    <3> QED
      BY <1>1, <2>2, <3>1, <3>2, PrefixFacts
  <2> QED
    BY <2>1, <2>2
<1>4. CASE o.err
  BY <1>2, <1>3, <1>4
<1>5. CASE ~o.err
  <2>1. o \in Outputs(S) /\ o.file \in Seq(S) /\ o.gz \in Seq(S) /\ o.buf \in Seq(S)
    BY <1>3, EncType DEF OutOK
  <2>2. r = [o EXCEPT !.buf = Append(o.buf, e)]
    BY <1>2, <1>5
  <2>3. Append(o.buf, e) \in Seq(S) /\ Len(Append(o.buf, e)) = Len(o.buf) + 1
    BY <2>1
  <2>4. /\ r \in Outputs(S) /\ r.buf = Append(o.buf, e) /\ r.gz = o.gz /\ r.file = o.file
        /\ r.err = o.err
    BY <2>1, <2>2, <2>3 DEF Outputs
  <2>5. Len(r.buf) <= BufCap
    <3>1. Len(o.buf) \in Nat
      BY <2>1
    <3> QED
      BY <1>1, <1>3, <1>5, <2>3, <2>4, <3>1
  <2>6. OutOK(job, S, r)
    BY <1>3, <2>4, <2>5 DEF OutOK
  <2>7. PICK f \in Seq(S), g \in Seq(S), b \in Seq(S) : o.file = f /\ o.gz = g /\ o.buf = b
    BY <2>1
  <2>8. (f \o g) \o Append(b, e) = Append((f \o g) \o b, e)
    <3>1. f \o g \in Seq(S)
      OBVIOUS
    <3> QED
      BY <3>1, ConcatAppend
  <2>9. Enc(r) = Append(Enc(o), e)
    BY <2>4, <2>7, <2>8 DEF Enc
  <2> QED
    BY <1>3, <1>5, <2>4, <2>6, <2>9
<1> QED
  BY <1>4, <1>5

\* Close leaves nothing behind in a buffer, or fails.
LEMMA ClosedShape ==
  ASSUME NEW S, JobOK(job), OutOK(job, S, out), NEW r \in Closed
  PROVE  /\ OutOK(job, S, r)
         /\ PrefixOf(Enc(r), Enc(out))
         /\ out.err => r.err
         /\ ~r.err => Enc(r) = Enc(out) /\ r.buf = <<>> /\ r.gz = <<>>
<1>1. PICK o \in Flushes(out) : r = IF o.err THEN o ELSE Store([o EXCEPT !.gz = <<>>], o.gz)
  BY DEF Closed
<1>2. Flushed(job, S, out, o)
  BY FlushShape
<1>3. CASE o.err
  BY <1>1, <1>2, <1>3 DEF Flushed
<1>4. CASE ~o.err
  <2> DEFINE p == [o EXCEPT !.gz = <<>>]
  <2>1. /\ o \in Outputs(S) /\ Enc(o) = Enc(out) /\ o.buf = <<>> /\ Len(o.file) <= job.room
        /\ job.room \in Nat
    BY <1>2, <1>4 DEF Flushed, OutOK, JobOK
  <2>2. o.file \in Seq(S) /\ o.gz \in Seq(S) /\ <<>> \in Seq(S)
    BY <2>1, EncType
  <2>3. /\ p \in Outputs(S) /\ p.buf = <<>> /\ p.gz = <<>> /\ p.file = o.file
        /\ p.err = o.err
    BY <2>1, <2>2 DEF Outputs
  <2>4. r = Store(p, o.gz)
    BY <1>1, <1>4
  <2> HIDE DEF p
  <2>5. /\ OutOK(job, S, r) /\ r.buf = <<>> /\ r.gz = <<>>
        /\ PrefixOf(Enc(r), p.file \o o.gz)
        /\ ~r.err => Enc(r) = p.file \o o.gz
    BY <1>4, <2>1, <2>2, <2>3, <2>4, StoreAll, Zenon
  <2>6. Enc(o) = o.file \o o.gz
    <3>1. o.file \o o.gz \in Seq(S)
      BY <2>2
    <3>2. (o.file \o o.gz) \o <<>> = o.file \o o.gz
      BY <3>1
    <3> QED
      BY <2>1, <3>2 DEF Enc
  <2> QED
    BY <1>2, <1>4, <2>1, <2>3, <2>5, <2>6 DEF Flushed
<1> QED
  BY <1>3, <1>4

-----------------------------------------------------------------------------
(***************************************************************************)
(* The inductive invariant, part by part.                                  *)
(***************************************************************************)
Cursor == [src : Srcs, idx : Nat \ {0}]

\* Types, and what the program counter says of the rest.
StateInv ==
    /\ JobOK(job)
    /\ pc \in {"dispatch", "args", "open", "read", "sift", "merge", "close", "done"}
    /\ todo \subseteq Srcs
    /\ entries \in [Srcs -> Seq(Entry)]
    /\ pq \in Seq(Cursor)
    /\ from \in Nat /\ node \in Nat
    /\ OutOK(job, Entry, out)
    /\ written \in Nat
    /\ code \in {-1, 0, 2, 4}

\* What a source has to give.
EntriesOf(s) == IF Failed(s) THEN {} ELSE ReadEntries(s)

InOrder(q) == \A i, j \in DOMAIN q : i < j => Before(q[i], q[j])

\* What Merge has of each source, and the cursors it has given them.
ReadInv ==
    /\ \A s \in Srcs : InOrder(entries[s])
    /\ \A s \in Srcs : Range(entries[s]) = IF s \in todo THEN {} ELSE EntriesOf(s)
    /\ \A i \in DOMAIN pq : pq[i].idx <= Len(entries[pq[i].src])
    /\ \A i, j \in DOMAIN pq : pq[i].src = pq[j].src => i = j
    /\ pc \in {"sift", "merge", "close"} => todo = {}

\* The keys k[1 .. n] are a heap from node f on, but for node x, whose children
\* may be due before it, though not before its parent.
HeapFrom(k, n, f, x) ==
    \A i \in 2 .. n : i \div 2 >= f =>
        /\ i \div 2 # x => k[i \div 2] <= k[i]
        /\ i \div 2 = x /\ x \div 2 >= f => k[x \div 2] <= k[i]

Keys(es, h) == [i \in 1 .. Len(h) |-> es[h[i].src][h[i].idx].at]

HeapInv ==
    /\ pc = "sift" => from >= 1 /\ node >= from
    /\ pc = "merge" => from = 0 /\ node = 0
    /\ pc \in {"sift", "merge"} => HeapFrom(Keys(entries, pq), Len(pq), from, node)

\* a may come out before b.
Follows(a, b) ==
    /\ a.at <= b.at
    /\ a.src = b.src /\ a.at = b.at => a.line < b.line

\* What was encoded is in order, and nothing to come belongs before it.
OrderInv ==
    /\ pc \in {"dispatch", "args", "open", "read"} => Enc(out) = <<>>
    /\ \A i, j \in DOMAIN Enc(out) : i < j => Follows(Enc(out)[i], Enc(out)[j])
    /\ \A k \in DOMAIN Enc(out), i \in DOMAIN pq : Follows(Enc(out)[k], Head1(pq[i]))

\* The source s has no cursor that is still to write entry k.
Passed(h, s, k) == \A i \in DOMAIN h : h[i].src = s => h[i].idx > k

\* An entry was encoded if and only if its cursor has moved past it.
CompleteInv ==
    /\ Range(Enc(out)) \subseteq UNION {Range(entries[s]) : s \in Srcs}
    /\ ~out.err =>
        /\ \A s \in Srcs : \A k \in DOMAIN entries[s] :
                entries[s][k] \in Range(Enc(out)) <=> Passed(pq, s, k)
        /\ written = Len(Enc(out))
    /\ job.max > 0 => written <= job.max
    /\ pc \notin {"close", "done"} => code = -1 /\ ~out.err
    /\ job.cmd # "dump" => pc \in {"dispatch", "done"}
    /\ pc \in {"close", "done"} /\ code = 0 /\ job.cmd = "dump" =>
        todo = {} /\ (pq = <<>> \/ Capped)
    /\ pc = "done" /\ code = 0 /\ job.cmd = "dump" /\ ~out.err =>
        out.gz = <<>> /\ out.buf = <<>>

DumpInv == StateInv /\ ReadInv /\ HeapInv /\ OrderInv /\ CompleteInv

-----------------------------------------------------------------------------
LEMMA JobStays == [Next]_vars => job' = job
<1> SUFFICES ASSUME [Next]_vars PROVE job' = job
  OBVIOUS
<1>1. CASE Dispatch
  BY <1>1 DEF Dispatch, Finish
<1>2. CASE Args
  BY <1>2 DEF Args, Finish
<1>3. CASE OpenOutput
  BY <1>3 DEF OpenOutput, Finish
<1>4. CASE ReadSource \/ captureTimeout \/ HeapInit \/ Sift \/ Sifted
  BY <1>4, Zenon DEF ReadSource, captureTimeout, HeapInit, Sift, Sifted
<1>5. CASE MergeOne \/ MergeFails \/ MergeEnds \/ CloseOutput
  BY <1>5, Zenon DEF MergeOne, MergeFails, MergeEnds, CloseOutput
<1>6. CASE UNCHANGED vars
  BY <1>6 DEF vars
<1> QED
  BY <1>1, <1>2, <1>3, <1>4, <1>5, <1>6 DEF Next

\* What depends on the command line alone stays.
LEMMA SameJob ==
  ASSUME job' = job
  PROVE  /\ Srcs' = Srcs /\ Entry' = Entry /\ Cursor' = Cursor
         /\ \A s : EntriesOf(s)' = EntriesOf(s)
<1>1. Srcs' = Srcs
  BY DEF Srcs, Kinds
<1>2. Entry' = Entry /\ Cursor' = Cursor
  BY <1>1, Zenon DEF Entry, Cursor
<1>3. ASSUME NEW s PROVE EntriesOf(s)' = EntriesOf(s)
  <2>1. Failed(s)' <=> Failed(s)
    BY DEF Failed, Kinds, RunDmesgFails, captureCommandFails
  <2>2. LinesOf(s)' = LinesOf(s)
    BY DEF LinesOf, Kinds
  <2>3. ReadEntries(s)' = ReadEntries(s)
    BY <2>2, Zenon DEF ReadEntries, Kinds, Passes, JournalHas, Since, Until, WholeSecond
  <2> QED
    BY <2>1, <2>3, Zenon DEF EntriesOf
<1> QED
  BY <1>1, <1>2, <1>3

\* The entries of a source are well formed and carry its number.
LEMMA EntriesType ==
  ASSUME JobOK(job), NEW s \in Srcs, NEW e \in EntriesOf(s)
  PROVE  /\ e \in Entry /\ e.src = s
         /\ e.line \in DOMAIN LinesOf(s) /\ e.at = LinesOf(s)[e.line]
         /\ LinesOf(s) \in Seq(Line)
         /\ \A i \in DOMAIN LinesOf(s) :
                i \in DOMAIN job.holds[s] /\ LinesOf(s)[i] = job.holds[s][i]
<1>1. job.holds[s] \in Seq(Line) /\ Kinds \in Seq(AllKinds)
  BY DEF JobOK, Srcs, Kinds
<1>2. PICK h \in Seq(Line) : job.holds[s] = h
  BY <1>1
<1>3. /\ LinesOf(s) \in Seq(Line)
      /\ \A i \in DOMAIN LinesOf(s) : i \in DOMAIN h /\ LinesOf(s)[i] = h[i]
  <2>1. LinesOf(s) = h \/ (h # <<>> /\ LinesOf(s) = SubSeq(h, 1, Len(h) - 1))
    BY <1>2 DEF LinesOf
  <2>2. Len(h) \in Nat /\ h \in [1 .. Len(h) -> Line]
    OBVIOUS
  <2>3. CASE h # <<>> /\ LinesOf(s) = SubSeq(h, 1, Len(h) - 1)
    <3>1. Len(h) # 0
      BY <2>3
    <3>2. Len(h) - 1 \in Nat /\ Len(h) - 1 <= Len(h)
      BY <2>2, <3>1
    <3>3. /\ SubSeq(h, 1, Len(h) - 1) \in Seq(Line)
          /\ Len(SubSeq(h, 1, Len(h) - 1)) = Len(h) - 1
          /\ \A i \in 1 .. Len(h) - 1 : SubSeq(h, 1, Len(h) - 1)[i] = h[i]
      BY <2>2, <3>2
    <3>4. DOMAIN LinesOf(s) = 1 .. Len(h) - 1
      BY <2>3, <3>3
    <3> QED
      BY <2>2, <2>3, <3>2, <3>3, <3>4
  <2> QED
    BY <2>1, <2>2, <2>3
<1>4. PICK i \in DOMAIN LinesOf(s) :
          LinesOf(s)[i] # Bad /\ e = [src |-> s, line |-> i, at |-> LinesOf(s)[i]]
  BY DEF EntriesOf, ReadEntries
<1>5. i \in Nat /\ LinesOf(s)[i] \in Line
  BY <1>3
<1>6. e.src = s /\ e.line = i /\ e.at = LinesOf(s)[i]
  BY <1>4
<1>7. e \in Entry
  BY <1>4, <1>5 DEF Entry, Line
<1> QED
  BY <1>2, <1>3, <1>4, <1>6, <1>7

-----------------------------------------------------------------------------
LEMMA InitInv == Init => DumpInv
<1> SUFFICES ASSUME Init PROVE DumpInv
  OBVIOUS
<1>1. JobOK(job)
  BY InitJobOK
<1>2. /\ pc = "dispatch" /\ todo = Srcs /\ entries = [s \in Srcs |-> <<>>]
      /\ pq = <<>> /\ from = 0 /\ node = 0 /\ written = 0 /\ code = -1
      /\ out = [buf |-> <<>>, gz |-> <<>>, file |-> <<>>, err |-> FALSE]
  BY DEF Init
<1>3. /\ out.buf = <<>> /\ out.gz = <<>> /\ out.file = <<>> /\ out.err = FALSE
      /\ out \in Outputs(Entry)
  BY <1>2 DEF Outputs
<1>4. Enc(out) = <<>>
  BY <1>3 DEF Enc
<1>5. OutOK(job, Entry, out)
  <2>1. Len(out.buf) = 0 /\ Len(out.file) = 0
    BY <1>3
  <2> QED
    BY <1>1, <1>3, <2>1, DumpConstants DEF OutOK, JobOK
<1>6. \A s \in Srcs : entries[s] = <<>> /\ DOMAIN entries[s] = {} /\ Range(entries[s]) = {}
  BY <1>2 DEF Range
<1>7. DOMAIN pq = {} /\ DOMAIN Enc(out) = {} /\ Range(Enc(out)) = {} /\ Len(Enc(out)) = 0
  BY <1>2, <1>4 DEF Range
<1>8. StateInv
  BY <1>1, <1>2, <1>5 DEF StateInv
<1>9. ReadInv
  BY <1>2, <1>6, <1>7, Zenon DEF ReadInv, InOrder
<1>10. HeapInv
  BY <1>2 DEF HeapInv
<1>11. OrderInv
  BY <1>4, <1>7, Zenon DEF OrderInv
<1>12. CompleteInv
  <2>1. job.max > 0 => written <= job.max
    BY <1>1, <1>2 DEF JobOK
  <2>2. ~out.err
    BY <1>3
  <2> QED
    BY <1>2, <1>6, <1>7, <2>1, <2>2 DEF CompleteInv
<1> QED
  BY <1>8, <1>9, <1>10, <1>11, <1>12 DEF DumpInv

-----------------------------------------------------------------------------
\* The steps before the sources are read change nothing but pc and the exit code.
LEMMA EarlyShape ==
  ASSUME DumpInv, Dispatch \/ Args \/ OpenOutput
  PROVE  /\ UNCHANGED <<job, todo, entries, heap, out, written>>
         /\ pc \in {"dispatch", "args", "open"}
         /\ \/ /\ code' = code /\ job.cmd = "dump" /\ pc' \in {"args", "open", "read"}
            \/ /\ pc' = "done" /\ code' \in {0, 2, 4}
               /\ job.cmd = "dump" => code' # 0 /\ (code' = 4 => ~job.creatable)
<1>1. CASE Dispatch
  <2>1. CASE job.cmd = "dump"
    BY <1>1, <2>1 DEF Dispatch
  <2>2. CASE job.cmd # "dump"
    BY <1>1, <2>2 DEF Dispatch, Finish
  <2> QED
    BY <2>1, <2>2
<1>2. CASE Args
  <2>1. job.cmd = "dump"
    BY <1>2 DEF Args, DumpInv, CompleteInv
  <2> QED
    BY <1>2, <2>1 DEF Args, Finish
<1>3. CASE OpenOutput
  <2>1. job.cmd = "dump"
    BY <1>3 DEF OpenOutput, DumpInv, CompleteInv
  <2>2. CASE job.creatable
    BY <1>3, <2>1, <2>2 DEF OpenOutput
  <2>3. CASE ~job.creatable
    BY <1>3, <2>1, <2>3 DEF OpenOutput, Finish
  <2> QED
    BY <2>2, <2>3
<1> QED
  BY <1>1, <1>2, <1>3

LEMMA EarlyStep ==
  ASSUME DumpInv, Dispatch \/ Args \/ OpenOutput
  PROVE  DumpInv'
<1>1. /\ UNCHANGED <<job, todo, entries, heap, out, written>>
      /\ pc \in {"dispatch", "args", "open"}
      /\ \/ /\ code' = code /\ job.cmd = "dump" /\ pc' \in {"args", "open", "read"}
         \/ /\ pc' = "done" /\ code' \in {0, 2, 4}
            /\ job.cmd = "dump" => code' # 0
  BY EarlyShape
<1>2. /\ job' = job /\ todo' = todo /\ entries' = entries /\ pq' = pq /\ from' = from
      /\ node' = node /\ out' = out /\ written' = written
  BY <1>1 DEF heap
<1>3. /\ Srcs' = Srcs /\ Entry' = Entry /\ Cursor' = Cursor
      /\ \A s : EntriesOf(s)' = EntriesOf(s)
  BY <1>2, SameJob
<1>4. StateInv'
  <2>1. pc' \in {"dispatch", "args", "open", "read", "sift", "merge", "close", "done"}
    BY <1>1
  <2>2. code' \in {-1, 0, 2, 4}
    BY <1>1 DEF DumpInv, StateInv
  <2> QED
    BY <1>2, <1>3, <2>1, <2>2 DEF DumpInv, StateInv
<1>5. ReadInv'
  <2>1. pc' \notin {"sift", "merge", "close"}
    BY <1>1
  <2>2. \A s \in Srcs' : Range(entries'[s]) = IF s \in todo' THEN {} ELSE EntriesOf(s)'
    BY <1>2, <1>3 DEF DumpInv, ReadInv
  <2> QED
    BY <1>2, <1>3, <2>1, <2>2 DEF DumpInv, ReadInv
<1>6. HeapInv'
  BY <1>1 DEF HeapInv
<1>7. OrderInv'
  <2>1. Enc(out) = <<>>
    BY <1>1 DEF DumpInv, OrderInv
  <2>2. Enc(out)' = <<>>
    BY <1>2, <2>1
  <2>3. \A k \in DOMAIN Enc(out)' : FALSE
    BY <2>2
  <2> QED
    BY <2>2, <2>3, Zenon DEF OrderInv
<1>8. CompleteInv'
  <2>1. /\ (Range(Enc(out)) \subseteq UNION {Range(entries[s]) : s \in Srcs})'
        /\ (~out.err => /\ \A s \in Srcs : \A k \in DOMAIN entries[s] :
                              entries[s][k] \in Range(Enc(out)) <=> Passed(pq, s, k)
                        /\ written = Len(Enc(out)))'
        /\ (job.max > 0 => written <= job.max)'
    BY <1>2, <1>3 DEF DumpInv, CompleteInv
  <2>2. (pc \notin {"close", "done"} => code = -1 /\ ~out.err)'
    BY <1>1, <1>2 DEF DumpInv, CompleteInv
  <2>3. (job.cmd # "dump" => pc \in {"dispatch", "done"})'
    BY <1>1, <1>2
  <2>4. ~(pc \in {"close", "done"} /\ code = 0 /\ job.cmd = "dump")'
    BY <1>1, <1>2
  <2>5. ~(pc = "done" /\ code = 0 /\ job.cmd = "dump" /\ ~out.err)'
    BY <1>1, <1>2
  <2> QED
    BY <2>1, <2>2, <2>3, <2>4, <2>5, Zenon DEF CompleteInv
<1> QED
  BY <1>4, <1>5, <1>6, <1>7, <1>8 DEF DumpInv

-----------------------------------------------------------------------------
LEMMA LeastNumber ==
  ASSUME NEW T, T \subseteq Nat, T # {}
  PROVE  \E i \in T : \A j \in T : i <= j
<1> DEFINE R == OpToRel(<, Nat)
<1>1. IsWellFoundedOn(R, Nat)
  BY NatLessThanWellFounded
<1> HIDE DEF R
<1>2. PICK i \in T : \A j \in T : <<j, i>> \notin R
  BY <1>1, WFMin, Zenon
<1>3. ASSUME NEW j \in T PROVE i <= j
  <2>1. <<j, i>> \notin R
    BY <1>2
  <2>2. <<j, i>> \in Nat \X Nat
    OBVIOUS
  <2>3. ~(j < i)
    BY <2>1, <2>2 DEF R, OpToRel
  <2> QED
    BY <2>3
<1> QED
  BY <1>3

LEMMA EntriesFinite ==
  ASSUME JobOK(job), NEW s \in Srcs
  PROVE  IsFiniteSet(EntriesOf(s))
<1>1. CASE EntriesOf(s) = {}
  BY <1>1, FS_EmptySet
<1>2. CASE EntriesOf(s) # {}
  <2>1. LinesOf(s) \in Seq(Line)
    BY <1>2, EntriesType
  <2>2. DOMAIN LinesOf(s) = 1 .. Len(LinesOf(s)) /\ Len(LinesOf(s)) \in Nat
    BY <2>1
  <2>3. IsFiniteSet(DOMAIN LinesOf(s))
    BY <2>2, FS_Interval
  <2> DEFINE f == [e \in EntriesOf(s) |-> e.line]
  <2>4. f \in [EntriesOf(s) -> DOMAIN LinesOf(s)]
    BY EntriesType
  <2>5. ASSUME NEW a \in EntriesOf(s), NEW b \in EntriesOf(s), f[a] = f[b]
        PROVE  a = b
    <3>1. a.line = b.line
      BY <2>5
    <3>2. /\ a \in Entry /\ a.src = s /\ a.at = LinesOf(s)[a.line]
          /\ b \in Entry /\ b.src = s /\ b.at = LinesOf(s)[b.line]
      BY EntriesType
    <3> QED
      BY <3>1, <3>2 DEF Entry
  <2>6. f \in Injection(EntriesOf(s), DOMAIN LinesOf(s))
    BY <2>4, <2>5, Fun_IsInj
  <2> QED
    BY <2>3, <2>6, FS_Injection
<1> QED
  BY <1>1, <1>2

\* One turn of Merge's first loop, which a source that hangs ends only by the
\* deadline of journalctl, and then without entries.
LEMMA ReadShape ==
  ASSUME DumpInv, ReadSource \/ captureTimeout
  PROVE  /\ pc = "read" /\ UNCHANGED <<job, pc, from, node, out, written, code>>
         /\ \E s \in todo :
              /\ todo' = todo \ {s}
              /\ \/ EntriesOf(s) = {} /\ entries' = entries /\ pq' = pq
                 \/ \E q \in Seq(Entry) :
                        /\ q # <<>> /\ InOrder(q) /\ Range(q) = EntriesOf(s)
                        /\ entries' = [entries EXCEPT ![s] = q]
                        /\ pq' = Append(pq, [src |-> s, idx |-> 1])
<1>1. /\ pc = "read" /\ UNCHANGED <<job, pc, from, node, out, written, code>>
      /\ todo # {} /\ todo \subseteq Srcs /\ JobOK(job)
  BY DEF ReadSource, captureTimeout, DumpInv, StateInv, heap
<1>2. Srcs = 1 .. Len(Kinds) /\ Len(Kinds) \in Nat
  BY <1>1 DEF JobOK, Srcs, Kinds
<1>3. todo \subseteq Nat
  BY <1>1, <1>2
<1> DEFINE s == Reading
<1>4. s \in todo
  BY <1>1, <1>3, LeastNumber DEF Reading
<1>a. CASE captureTimeout
  <2>1. Hangs(s) /\ Kinds[s] = "journal" /\ todo' = todo \ {s} /\ UNCHANGED <<entries, pq>>
    BY <1>a DEF captureTimeout, heap
  <2>2. job.ends[s] # "eof"
    BY <2>1 DEF Hangs
  <2>3. Failed(s)
    BY <2>1, <2>2 DEF Failed, captureCommandFails
  <2> QED
    BY <1>1, <1>4, <2>1, <2>3 DEF EntriesOf
<1>5. ReadSource =>
        /\ todo' = todo \ {s}
        /\ IF Failed(s) \/ ReadEntries(s) = {} THEN UNCHANGED <<entries, pq>> ELSE TakeEntries(s)
  BY DEF ReadSource
<1> HIDE DEF s
<1>6. CASE ReadSource /\ (Failed(s) \/ ReadEntries(s) = {})
  <2>1. EntriesOf(s) = {}
    BY <1>6 DEF EntriesOf
  <2> QED
    BY <1>1, <1>4, <1>5, <1>6, <2>1
<1>7. CASE ReadSource /\ ~(Failed(s) \/ ReadEntries(s) = {})
  <2>1. TakeEntries(s) /\ EntriesOf(s) = ReadEntries(s) /\ EntriesOf(s) # {}
    BY <1>5, <1>7 DEF EntriesOf
  <2>2. PICK q \in SliceStable(EntriesOf(s)) : entries' = [entries EXCEPT ![s] = q]
    BY <2>1 DEF TakeEntries
  <2>3. pq' = Append(pq, [src |-> s, idx |-> 1])
    BY <2>1 DEF TakeEntries
  <2>4. /\ q \in [1 .. Cardinality(EntriesOf(s)) -> EntriesOf(s)]
        /\ Range(q) = EntriesOf(s) /\ InOrder(q)
    BY <2>2 DEF SliceStable, InOrder
  <2>5. s \in Srcs
    BY <1>1, <1>4
  <2>6. Cardinality(EntriesOf(s)) \in Nat
    BY <1>1, <2>5, EntriesFinite, FS_CardinalityType
  <2>7. EntriesOf(s) \subseteq Entry
    BY <1>1, <2>5, EntriesType
  <2>8. q \in Seq(Entry)
    BY <2>4, <2>6, <2>7
  <2>9. q # <<>>
    <3>1. PICK e : e \in Range(q)
      BY <2>1, <2>4
    <3>2. PICK x \in DOMAIN q : q[x] = e
      BY <3>1, Zenon DEF Range
    <3>3. DOMAIN <<>> = {}
      OBVIOUS
    <3> QED
      BY <3>2, <3>3, Zenon
  <2> QED
    BY <1>1, <1>4, <1>5, <1>7, <2>2, <2>3, <2>4, <2>8, <2>9
<1> QED
  BY <1>a, <1>6, <1>7

LEMMA ReadStep ==
  ASSUME DumpInv, ReadSource \/ captureTimeout
  PROVE  DumpInv'
<1>1. pc = "read" /\ UNCHANGED <<job, pc, from, node, out, written, code>>
  BY ReadShape
<1>2. /\ Srcs' = Srcs /\ Entry' = Entry /\ Cursor' = Cursor
      /\ \A x : EntriesOf(x)' = EntriesOf(x)
  BY <1>1, SameJob
<1>3. PICK s \in todo :
          /\ todo' = todo \ {s}
          /\ \/ EntriesOf(s) = {} /\ entries' = entries /\ pq' = pq
             \/ \E q \in Seq(Entry) :
                    /\ q # <<>> /\ InOrder(q) /\ Range(q) = EntriesOf(s)
                    /\ entries' = [entries EXCEPT ![s] = q]
                    /\ pq' = Append(pq, [src |-> s, idx |-> 1])
  BY ReadShape
<1>4. /\ StateInv /\ ReadInv /\ OrderInv /\ CompleteInv /\ s \in Srcs
      /\ entries \in [Srcs -> Seq(Entry)] /\ pq \in Seq(Cursor) /\ ~out.err
      /\ Enc(out) = <<>>
  BY <1>1, <1>3 DEF DumpInv, StateInv, OrderInv, CompleteInv
<1>5. Range(entries[s]) = {}
  BY <1>3, <1>4 DEF ReadInv
<1>6. \A i \in DOMAIN pq : pq[i].src # s
  <2> SUFFICES ASSUME NEW i \in DOMAIN pq, pq[i].src = s PROVE FALSE
    OBVIOUS
  <2>1. pq[i] \in Cursor /\ pq[i].idx <= Len(entries[s])
    BY <1>4 DEF ReadInv
  <2>2. pq[i].idx \in DOMAIN entries[s]
    BY <1>4, <2>1 DEF Cursor
  <2> QED
    BY <1>5, <2>2 DEF Range
<1> DEFINE Given ==
        /\ \A x \in Srcs : entries'[x] \in Seq(Entry) /\ InOrder(entries'[x])
                /\ Range(entries'[x]) = IF x \in todo' THEN {} ELSE EntriesOf(x)
        /\ entries' \in [Srcs -> Seq(Entry)]
        /\ pq' \in Seq(Cursor)
        /\ \A i \in DOMAIN pq' : pq'[i].idx <= Len(entries'[pq'[i].src])
        /\ \A i, j \in DOMAIN pq' : pq'[i].src = pq'[j].src => i = j
        /\ \A x \in Srcs : \A k \in DOMAIN entries'[x] : ~Passed(pq', x, k)
<1>7. \A x \in Srcs : \A k \in DOMAIN entries[x] : ~Passed(pq, x, k)
  <2>1. Range(Enc(out)) = {}
    BY <1>4 DEF Range
  <2> QED
    BY <1>4, <2>1 DEF CompleteInv
<1>8. ASSUME EntriesOf(s) = {}, entries' = entries, pq' = pq
      PROVE  Given
  <2>1. ASSUME NEW x \in Srcs
        PROVE  Range(entries[x]) = IF x \in todo' THEN {} ELSE EntriesOf(x)
    <3>1. Range(entries[x]) = IF x \in todo THEN {} ELSE EntriesOf(x)
      BY <1>4 DEF ReadInv
    <3> QED
      BY <1>3, <1>8, <3>1
  <2>2. entries' = entries /\ pq' = pq
    BY <1>8
  <2>3. \A x \in Srcs : entries[x] \in Seq(Entry) /\ InOrder(entries[x])
    BY <1>4 DEF ReadInv
  <2>4. /\ \A i \in DOMAIN pq : pq[i].idx <= Len(entries[pq[i].src])
        /\ \A i, j \in DOMAIN pq : pq[i].src = pq[j].src => i = j
    BY <1>4 DEF ReadInv
  <2>5. Given
    BY <1>4, <1>7, <2>1, <2>2, <2>3, <2>4, Zenon
  <2> QED
    BY <2>5
<1>9. ASSUME NEW q \in Seq(Entry), q # <<>>, InOrder(q), Range(q) = EntriesOf(s),
             entries' = [entries EXCEPT ![s] = q],
             pq' = Append(pq, [src |-> s, idx |-> 1])
      PROVE  Given
  <2> DEFINE c == [src |-> s, idx |-> 1]
  <2>1. c \in Cursor /\ c.src = s /\ c.idx = 1
    BY <1>4 DEF Cursor
  <2>a. Len(q) \in Nat /\ Len(q) # 0 /\ DOMAIN q = 1 .. Len(q)
    BY <1>9
  <2> HIDE DEF c
  <2>2. entries'[s] = q /\ \A x \in Srcs : x # s => entries'[x] = entries[x]
    BY <1>4, <1>9
  <2>3. entries' \in [Srcs -> Seq(Entry)]
    BY <1>4, <1>9
  <2>4. /\ pq' \in Seq(Cursor) /\ Len(pq') = Len(pq) + 1 /\ Len(pq) \in Nat
        /\ pq'[Len(pq) + 1] = c /\ \A i \in 1 .. Len(pq) : pq'[i] = pq[i]
        /\ DOMAIN pq = 1 .. Len(pq) /\ DOMAIN pq' = 1 .. Len(pq) + 1
    BY <1>4, <1>9, <2>1 DEF c
  <2>5. ASSUME NEW x \in Srcs
        PROVE  /\ InOrder(entries'[x])
               /\ Range(entries'[x]) = IF x \in todo' THEN {} ELSE EntriesOf(x)
    <3>1. CASE x = s
      BY <1>3, <1>9, <2>2, <3>1
    <3>2. CASE x # s
      <4>1. InOrder(entries[x]) /\ Range(entries[x]) = IF x \in todo THEN {} ELSE EntriesOf(x)
        BY <1>4 DEF ReadInv
      <4> QED
        BY <1>3, <2>2, <3>2, <4>1
    <3> QED
      BY <3>1, <3>2
  <2>6. ASSUME NEW i \in DOMAIN pq'
        PROVE  pq'[i].idx <= Len(entries'[pq'[i].src])
    <3>1. CASE i = Len(pq) + 1
      BY <2>1, <2>2, <2>4, <2>a, <3>1
    <3>2. CASE i # Len(pq) + 1
      <4>1. i \in DOMAIN pq /\ pq'[i] = pq[i]
        BY <2>4, <3>2
      <4>2. pq[i].idx <= Len(entries[pq[i].src]) /\ pq[i].src # s /\ pq[i].src \in Srcs
        <5>1. pq[i] \in Cursor
          BY <1>4, <4>1
        <5>2. pq[i].src \in Srcs
          BY <5>1 DEF Cursor
        <5> QED
          BY <1>4, <1>6, <4>1, <5>2 DEF ReadInv
      <4> QED
        BY <2>2, <4>1, <4>2
    <3> QED
      BY <3>1, <3>2
  <2>7. ASSUME NEW i \in DOMAIN pq', NEW j \in DOMAIN pq', pq'[i].src = pq'[j].src
        PROVE  i = j
    <3>1. i = Len(pq) + 1 \/ (i \in DOMAIN pq /\ pq'[i] = pq[i])
      BY <2>4
    <3>2. j = Len(pq) + 1 \/ (j \in DOMAIN pq /\ pq'[j] = pq[j])
      BY <2>4
    <3>3. \A x, y \in DOMAIN pq : pq[x].src = pq[y].src => x = y
      BY <1>4 DEF ReadInv
    <3> QED
      BY <1>6, <2>1, <2>4, <2>7, <3>1, <3>2, <3>3
  <2>8. ASSUME NEW x \in Srcs, NEW k \in DOMAIN entries'[x]
        PROVE  ~Passed(pq', x, k)
    <3>1. CASE x = s
      <4>1. k \in 1 .. Len(q)
        BY <2>2, <2>a, <2>8, <3>1
      <4>2. ~(c.idx > k)
        BY <2>1, <2>a, <4>1
      <4> QED
        BY <2>1, <2>4, <3>1, <4>2 DEF Passed
    <3>2. CASE x # s
      <4>1. ~Passed(pq, x, k)
        BY <1>7, <2>2, <3>2
      <4>2. PICK i \in DOMAIN pq : pq[i].src = x /\ ~(pq[i].idx > k)
        BY <4>1 DEF Passed
      <4>3. i \in DOMAIN pq' /\ pq'[i] = pq[i]
        BY <2>4
      <4> QED
        BY <4>2, <4>3 DEF Passed
    <3> QED
      BY <3>1, <3>2
  <2> QED
    BY <2>3, <2>4, <2>5, <2>6, <2>7, <2>8
<1>10. Given
  BY <1>3, <1>8, <1>9
<1> HIDE DEF Given
<1>11. StateInv'
  <2>1. todo' \subseteq Srcs
    BY <1>3, <1>4 DEF StateInv
  <2>2. entries' \in [Srcs -> Seq(Entry)] /\ pq' \in Seq(Cursor)
    BY <1>10 DEF Given
  <2> QED
    BY <1>1, <1>2, <1>4, <2>1, <2>2 DEF StateInv
<1>12. ReadInv'
  BY <1>1, <1>2, <1>10, Zenon DEF Given, ReadInv
<1>13. HeapInv'
  BY <1>1 DEF HeapInv
<1>14. OrderInv'
  <2>1. Enc(out)' = <<>>
    BY <1>1, <1>4
  <2>2. \A k \in DOMAIN Enc(out)' : FALSE
    BY <2>1
  <2> QED
    BY <2>1, <2>2, Zenon DEF OrderInv
<1>15. CompleteInv'
  <2>1. Range(Enc(out))' = {} /\ Enc(out)' = <<>> /\ Len(Enc(out)') = 0
    BY <1>1, <1>4 DEF Range
  <2>2. written' = 0
    <3>1. written = Len(Enc(out))
      BY <1>4 DEF CompleteInv
    <3>2. Len(<<>>) = 0
      OBVIOUS
    <3> QED
      BY <1>1, <1>4, <3>1, <3>2
  <2>3. \A x \in Srcs' : \A k \in DOMAIN entries'[x] :
            entries'[x][k] \in Range(Enc(out))' <=> Passed(pq', x, k)
    BY <1>2, <1>10, <2>1 DEF Given
  <2>4. /\ (job.max > 0 => written <= job.max)'
        /\ (pc \notin {"close", "done"} => code = -1 /\ ~out.err)'
        /\ (job.cmd # "dump" => pc \in {"dispatch", "done"})'
        /\ pc' = "read"
    BY <1>1, <1>4 DEF CompleteInv
  <2> QED
    BY <2>1, <2>2, <2>3, <2>4 DEF CompleteInv
<1> QED
  BY <1>11, <1>12, <1>13, <1>14, <1>15 DEF DumpInv

-----------------------------------------------------------------------------
(***************************************************************************)
(* The heap of cursors, as far as their times go.                          *)
(***************************************************************************)
LEMMA Halves ==
  ASSUME NEW i \in Nat
  PROVE  /\ i \div 2 \in Nat /\ i \div 2 <= i
         /\ i = 2 * (i \div 2) \/ i = 2 * (i \div 2) + 1
         /\ \A p \in Nat : i \div 2 = p <=> i = 2 * p \/ i = 2 * p + 1
  OBVIOUS

\* x's least child c is due before it: they change places.
LEMMA SiftHeap ==
  ASSUME NEW n \in Nat, NEW k \in [1 .. n -> Nat], NEW f \in Nat, NEW x \in Nat, NEW c \in Nat,
         f >= 1, x >= f, c <= n, c = 2 * x \/ c = 2 * x + 1, k[c] < k[x],
         \A i \in 2 .. n : i \div 2 = x => k[c] <= k[i],
         HeapFrom(k, n, f, x),
         NEW m \in [1 .. n -> Nat], m[x] = k[c], m[c] = k[x],
         \A i \in 1 .. n : i # x /\ i # c => m[i] = k[i]
  PROVE  HeapFrom(m, n, f, c)
<1> SUFFICES ASSUME NEW i \in 2 .. n, i \div 2 >= f
             PROVE  /\ i \div 2 # c => m[i \div 2] <= m[i]
                    /\ i \div 2 = c /\ c \div 2 >= f => m[c \div 2] <= m[i]
  BY DEF HeapFrom
<1> DEFINE p == i \div 2
<1>1. p \in Nat /\ (i = 2 * p \/ i = 2 * p + 1) /\ i \in Nat /\ p >= f
  BY Halves
<1>2. c \div 2 = x /\ x \div 2 \in Nat /\ x \in 1 .. n /\ c \in 2 .. n /\ c # x
  BY Halves
<1>3. \A j \in 2 .. n : j \div 2 >= f =>
        /\ j \div 2 # x => k[j \div 2] <= k[j]
        /\ j \div 2 = x /\ x \div 2 >= f => k[x \div 2] <= k[j]
  BY DEF HeapFrom
<1>4. (p # x => k[p] <= k[i]) /\ (p = x /\ x \div 2 >= f => k[x \div 2] <= k[i])
  BY <1>3
<1>5. p \in 1 .. n /\ i \in 1 .. n /\ p # i
  BY <1>1
<1> HIDE DEF p
<1>6. ASSUME p # c PROVE m[p] <= m[i]
  <2>1. CASE p = x
    <3>1. k[c] <= k[i]
      BY <2>1 DEF p
    <3>2. CASE i = c
      BY <1>2, <1>5, <2>1, <3>2
    <3>3. CASE i # c
      <4>1. i # x
        BY <1>5, <2>1
      <4>2. m[i] = k[i]
        BY <1>5, <3>3, <4>1
      <4> QED
        BY <2>1, <3>1, <4>2
    <3> QED
      BY <3>2, <3>3
  <2>2. CASE p # x /\ i = x
    <3>1. x \div 2 >= f /\ p = x \div 2
      BY <1>1, <2>2 DEF p
    <3>2. k[p] <= k[c]
      BY <1>2, <1>3, <3>1
    <3>3. m[p] = k[p]
      BY <1>5, <1>6, <2>2
    <3> QED
      BY <2>2, <3>2, <3>3
  <2>3. CASE p # x /\ i # x
    <3>1. i # c
      BY <1>2, <2>3 DEF p
    <3>2. m[p] = k[p] /\ m[i] = k[i]
      BY <1>5, <1>6, <2>3, <3>1
    <3> QED
      BY <1>4, <2>3, <3>2
  <2> QED
    BY <2>1, <2>2, <2>3
<1>7. ASSUME p = c PROVE m[c \div 2] <= m[i]
  <2>1. i # c /\ i # x
    BY <1>1, <1>2, <1>7
  <2>2. m[i] = k[i] /\ k[c] <= k[i]
    BY <1>2, <1>4, <1>5, <1>7, <2>1
  <2> QED
    BY <1>2, <2>2
<1> QED
  BY <1>6, <1>7 DEF p

\* No child of x is due before it: the nodes from f on are a heap.
LEMMA SiftedHeap ==
  ASSUME NEW n \in Nat, NEW k \in [1 .. n -> Nat], NEW f \in Nat, NEW x \in Nat,
         f >= 1, x >= f, \A i \in 2 .. n : i \div 2 = x => k[x] <= k[i],
         HeapFrom(k, n, f, x)
  PROVE  HeapFrom(k, n, f - 1, f - 1)
<1> SUFFICES ASSUME NEW i \in 2 .. n, i \div 2 >= f - 1
             PROVE  /\ i \div 2 # f - 1 => k[i \div 2] <= k[i]
                    /\ i \div 2 = f - 1 /\ (f - 1) \div 2 >= f - 1 => k[(f - 1) \div 2] <= k[i]
  BY DEF HeapFrom
<1>1. i \div 2 \in Nat /\ (i = 2 * (i \div 2) \/ i = 2 * (i \div 2) + 1)
  BY Halves
<1>2. ASSUME i \div 2 # f - 1 PROVE k[i \div 2] <= k[i]
  <2>1. i \div 2 >= f
    BY <1>1, <1>2
  <2> QED
    BY <2>1 DEF HeapFrom
<1>3. ~(i \div 2 = f - 1 /\ (f - 1) \div 2 >= f - 1)
  <2>1. f - 1 \in Nat
    OBVIOUS
  <2>2. (f - 1) \div 2 >= f - 1 => f - 1 = 0
    BY <2>1, Halves
  <2> QED
    BY <1>1, <2>2
<1> QED
  BY <1>2, <1>3

\* The root of a heap is due first.
LEMMA RootIsLeast ==
  ASSUME NEW n \in Nat, NEW k \in [1 .. n -> Nat], HeapFrom(k, n, 0, 0)
  PROVE  \A i \in 1 .. n : k[1] <= k[i]
<1> DEFINE T == {i \in 1 .. n : k[i] < k[1]}
<1>1. ASSUME T # {} PROVE FALSE
  <2>1. T \subseteq Nat
    OBVIOUS
  <2>2. PICK i \in T : \A j \in T : i <= j
    BY <1>1, <2>1, LeastNumber
  <2>3. i \in 2 .. n /\ k[i] < k[1]
    BY <2>2
  <2>4. i \div 2 \in 1 .. n /\ i \div 2 < i
    BY <2>3, Halves
  <2>5. i \div 2 \notin T
    BY <2>2, <2>4
  <2>6. k[1] <= k[i \div 2]
    BY <2>3, <2>4, <2>5
  <2>7. k[i \div 2] <= k[i]
    BY <2>3, <2>4 DEF HeapFrom
  <2> QED
    BY <2>3, <2>4, <2>6, <2>7
<1> QED
  BY <1>1

-----------------------------------------------------------------------------
LEMMA HeadType ==
  ASSUME DumpInv, NEW i \in DOMAIN pq
  PROVE  /\ DOMAIN pq = 1 .. Len(pq) /\ Len(pq) \in Nat
         /\ pq[i] \in Cursor /\ pq[i].src \in Srcs /\ pq[i].idx \in Nat \ {0}
         /\ entries[pq[i].src] \in Seq(Entry)
         /\ pq[i].idx \in DOMAIN entries[pq[i].src]
         /\ Head1(pq[i]) = entries[pq[i].src][pq[i].idx]
         /\ Head1(pq[i]) \in Entry /\ Head1(pq[i]).at \in Nat
         /\ Head1(pq[i]).src = pq[i].src
         /\ Keys(entries, pq)[i] = Head1(pq[i]).at
<1>1. /\ pq \in Seq(Cursor) /\ entries \in [Srcs -> Seq(Entry)] /\ JobOK(job)
      /\ pq[i].idx <= Len(entries[pq[i].src])
  BY DEF DumpInv, StateInv, ReadInv
<1>2. pq[i] \in Cursor /\ DOMAIN pq = 1 .. Len(pq) /\ Len(pq) \in Nat
  BY <1>1
<1>3. pq[i].src \in Srcs /\ pq[i].idx \in Nat \ {0}
  BY <1>2 DEF Cursor
<1>4. entries[pq[i].src] \in Seq(Entry)
  BY <1>1, <1>3
<1>5. pq[i].idx \in DOMAIN entries[pq[i].src]
  BY <1>1, <1>3, <1>4
<1>6. Head1(pq[i]) = entries[pq[i].src][pq[i].idx]
  BY DEF Head1
<1>7. Head1(pq[i]) \in Entry
  BY <1>4, <1>5, <1>6
<1>8. Head1(pq[i]).at \in Nat
  BY <1>7, TimeFacts DEF Entry
<1>9. Head1(pq[i]).src = pq[i].src
  <2>1. Head1(pq[i]) \in Range(entries[pq[i].src])
    BY <1>5, <1>6 DEF Range
  <2>2. Head1(pq[i]) \in EntriesOf(pq[i].src)
    BY <1>3, <2>1 DEF DumpInv, ReadInv
  <2> QED
    BY <1>1, <1>3, <2>2, EntriesType
<1>10. Keys(entries, pq)[i] = Head1(pq[i]).at
  BY <1>2, <1>6 DEF Keys
<1> QED
  BY <1>2, <1>3, <1>4, <1>5, <1>6, <1>7, <1>8, <1>9, <1>10

LEMMA KeysType ==
  ASSUME DumpInv
  PROVE  Keys(entries, pq) \in [1 .. Len(pq) -> Nat] /\ Len(pq) \in Nat
                              /\ DOMAIN pq = 1 .. Len(pq)
<1>1. Len(pq) \in Nat /\ DOMAIN pq = 1 .. Len(pq)
  BY DEF DumpInv, StateInv
<1>2. \A i \in 1 .. Len(pq) : entries[pq[i].src][pq[i].idx].at \in Nat
  BY <1>1, HeadType
<1> QED
  BY <1>1, <1>2 DEF Keys

\* The steps of container/heap only move cursors about.
LEMMA CursorsMove ==
  ASSUME DumpInv, pc \in {"read", "sift"}, pc' \in {"sift", "merge"}, todo = {},
         UNCHANGED <<job, todo, entries, out, written, code>>,
         pq' \in Seq(Cursor), from' \in Nat, node' \in Nat,
         \A i \in DOMAIN pq' : \E j \in DOMAIN pq : pq'[i] = pq[j],
         \A i \in DOMAIN pq : \E j \in DOMAIN pq' : pq'[j] = pq[i],
         \A i, j \in DOMAIN pq' : pq'[i].src = pq'[j].src => i = j
  PROVE  StateInv' /\ ReadInv' /\ OrderInv' /\ CompleteInv'
<1>1. /\ Srcs' = Srcs /\ Entry' = Entry /\ Cursor' = Cursor
      /\ \A x : EntriesOf(x)' = EntriesOf(x)
  BY SameJob
<1>2. StateInv /\ ReadInv /\ OrderInv /\ CompleteInv
  BY DEF DumpInv
<1>3. /\ job' = job /\ todo' = todo /\ entries' = entries /\ out' = out
      /\ written' = written /\ code' = code
  OBVIOUS
<1>4. StateInv'
  <2>1. pc' \in {"dispatch", "args", "open", "read", "sift", "merge", "close", "done"}
    OBVIOUS
  <2> QED
    BY <1>1, <1>2, <1>3, <2>1 DEF StateInv
<1>5. ReadInv'
  <2>1. ASSUME NEW i \in DOMAIN pq' PROVE pq'[i].idx <= Len(entries[pq'[i].src])
    BY <1>2 DEF ReadInv
  <2>2. \A s \in Srcs : InOrder(entries[s])
                        /\ Range(entries[s]) = IF s \in todo THEN {} ELSE EntriesOf(s)
    BY <1>2 DEF ReadInv
  <2>3. \A s \in Srcs' : Range(entries'[s]) = IF s \in todo' THEN {} ELSE EntriesOf(s)'
    BY <1>1, <1>3, <2>2
  <2>4. \A s \in Srcs' : InOrder(entries'[s])
    BY <1>1, <1>3, <2>2
  <2>5. \A i \in DOMAIN pq' : pq'[i].idx <= Len(entries'[pq'[i].src])
    BY <1>3, <2>1
  <2>6. todo' = {}
    BY <1>3
  <2> QED
    BY <2>3, <2>4, <2>5, <2>6 DEF ReadInv
<1>6. OrderInv'
  <2>1. Enc(out)' = Enc(out)
    BY <1>3
  <2>2. ASSUME NEW k \in DOMAIN Enc(out), NEW i \in DOMAIN pq'
        PROVE  Follows(Enc(out)[k], entries[pq'[i].src][pq'[i].idx])
    <3>1. PICK j \in DOMAIN pq : pq'[i] = pq[j]
      OBVIOUS
    <3>2. Follows(Enc(out)[k], Head1(pq[j]))
      BY <1>2, <3>1 DEF OrderInv
    <3> QED
      BY <3>1, <3>2 DEF Head1
  <2>3. \A i, j \in DOMAIN Enc(out) : i < j => Follows(Enc(out)[i], Enc(out)[j])
    BY <1>2 DEF OrderInv
  <2>4. pc' \notin {"dispatch", "args", "open", "read"}
    OBVIOUS
  <2>5. \A k \in DOMAIN Enc(out)', i \in DOMAIN pq' : Follows(Enc(out)'[k], Head1(pq[i])')
    BY <1>3, <2>1, <2>2 DEF Head1
  <2>6. \A i, j \in DOMAIN Enc(out)' : i < j => Follows(Enc(out)'[i], Enc(out)'[j])
    BY <2>1, <2>3
  <2> QED
    BY <2>4, <2>5, <2>6 DEF OrderInv
<1>7. CompleteInv'
  <2>1. ASSUME NEW s, NEW k PROVE Passed(pq', s, k) <=> Passed(pq, s, k)
    BY DEF Passed
  <2>2. (~out.err => /\ \A s \in Srcs : \A k \in DOMAIN entries[s] :
                            entries[s][k] \in Range(Enc(out)) <=> Passed(pq', s, k)
                     /\ written = Len(Enc(out)))
    BY <1>2, <2>1 DEF CompleteInv
  <2>3. (~out.err => /\ \A s \in Srcs : \A k \in DOMAIN entries[s] :
                            entries[s][k] \in Range(Enc(out)) <=> Passed(pq, s, k)
                     /\ written = Len(Enc(out)))'
    BY <1>1, <1>3, <2>2
  <2>4. /\ (Range(Enc(out)) \subseteq UNION {Range(entries[s]) : s \in Srcs})'
        /\ (job.max > 0 => written <= job.max)'
    BY <1>1, <1>2, <1>3 DEF CompleteInv
  <2>5. (pc \notin {"close", "done"} => code = -1 /\ ~out.err)'
    BY <1>2, <1>3 DEF CompleteInv
  <2>6. (job.cmd # "dump" => pc \in {"dispatch", "done"})'
    BY <1>2, <1>3 DEF CompleteInv
  <2>7. pc' \notin {"close", "done"}
    OBVIOUS
  <2> QED
    BY <2>3, <2>4, <2>5, <2>6, <2>7 DEF CompleteInv
<1> QED
  BY <1>4, <1>5, <1>6, <1>7

LEMMA DownShape ==
  ASSUME NEW i \in Nat, DownFrom(i)
  PROVE  /\ from' = i /\ node' = i /\ from' \in Nat /\ node' \in Nat
         /\ pc' \in {"sift", "merge"}
         /\ pc' = "sift" => i >= 1
         /\ pc' = "merge" => i = 0
  BY DEF DownFrom

LEMMA HeapInitStep ==
  ASSUME DumpInv, HeapInit
  PROVE  DumpInv'
<1>1. /\ pc = "read" /\ todo = {} /\ DownFrom(Len(pq) \div 2)
      /\ UNCHANGED <<job, todo, entries, pq, out, written, code>>
  BY DEF HeapInit
<1>2. Len(pq) \in Nat /\ pq \in Seq(Cursor)
      /\ \A i, j \in DOMAIN pq : pq[i].src = pq[j].src => i = j
  BY DEF DumpInv, StateInv, ReadInv
<1>3. Len(pq) \div 2 \in Nat
  BY <1>2, Halves
<1>4. /\ from' = Len(pq) \div 2 /\ node' = Len(pq) \div 2 /\ from' \in Nat /\ node' \in Nat
      /\ pc' \in {"sift", "merge"}
      /\ pc' = "sift" => from' >= 1
      /\ pc' = "merge" => from' = 0
  BY <1>1, <1>3, DownShape
<1>5. StateInv' /\ ReadInv' /\ OrderInv' /\ CompleteInv'
  BY <1>1, <1>2, <1>4, CursorsMove
<1>6. HeapFrom(Keys(entries, pq), Len(pq), Len(pq) \div 2, Len(pq) \div 2)
  <2> DEFINE n == Len(pq)
             k == Keys(entries, pq)
  <2> SUFFICES ASSUME NEW i \in 2 .. n, i \div 2 >= n \div 2
               PROVE  i \div 2 = n \div 2 /\ ~((n \div 2) \div 2 >= n \div 2)
    BY DEF HeapFrom
  <2>1. n \in Nat /\ n \div 2 \in Nat /\ (n = 2 * (n \div 2) \/ n = 2 * (n \div 2) + 1)
    BY <1>2, Halves
  <2>2. i \div 2 \in Nat /\ (i = 2 * (i \div 2) \/ i = 2 * (i \div 2) + 1)
    BY <2>1, Halves
  <2>3. n \div 2 >= 1
    BY <2>1
  <2> QED
    BY <2>1, <2>2, <2>3, Halves
<1>7. HeapInv'
  BY <1>1, <1>4, <1>6 DEF HeapInv
<1> QED
  BY <1>5, <1>7 DEF DumpInv

\* LeastChild and TooLow, in terms of the keys.
LEMMA ChildShape ==
  ASSUME DumpInv, NEW x \in Nat, x >= 1, NEW k, k = Keys(entries, pq),
         NEW n, n = Len(pq), NEW c, c = LeastChild(x)
  PROVE  /\ c \in Nat /\ (c = 2 * x \/ c = 2 * x + 1)
         /\ 2 * x <= n => c <= n /\ \A i \in 2 .. n : i \div 2 = x => k[c] <= k[i]
         /\ TooLow(x) => c <= n /\ k[c] < k[x]
         /\ ~TooLow(x) => \A i \in 2 .. n : i \div 2 = x => k[x] <= k[i]
<1>1. k \in [1 .. n -> Nat] /\ n \in Nat /\ DOMAIN pq = 1 .. n
  BY KeysType
<1>2. \A i, j \in 1 .. n : Less(pq, i, j) <=> k[i] < k[j]
  BY <1>1, HeadType DEF Less
<1>3. c = IF 2 * x + 1 <= n /\ Less(pq, 2 * x + 1, 2 * x) THEN 2 * x + 1 ELSE 2 * x
  BY DEF LeastChild
<1>4. TooLow(x) <=> 2 * x <= n /\ Less(pq, c, x)
  BY DEF TooLow
<1>5. c \in Nat /\ (c = 2 * x \/ c = 2 * x + 1)
  BY <1>3
<1>6. \A i \in 2 .. n : i \div 2 = x => i = 2 * x \/ i = 2 * x + 1
  BY Halves
<1>7. ASSUME 2 * x <= n
      PROVE  c <= n /\ c \in 1 .. n /\ x \in 1 .. n
             /\ \A i \in 2 .. n : i \div 2 = x => k[c] <= k[i]
  <2>1. 2 * x \in 1 .. n /\ x \in 1 .. n /\ (2 * x + 1 <= n => 2 * x + 1 \in 1 .. n)
    BY <1>1, <1>7
  <2>2. CASE 2 * x + 1 <= n
    <3>1. c = IF k[2 * x + 1] < k[2 * x] THEN 2 * x + 1 ELSE 2 * x
      BY <1>2, <1>3, <2>1, <2>2
    <3> QED
      BY <1>1, <1>6, <2>1, <2>2, <3>1
  <2>3. CASE ~(2 * x + 1 <= n)
    <3>1. c = 2 * x
      BY <1>3, <2>3
    <3>2. \A i \in 2 .. n : i \div 2 = x => i = c
      BY <1>1, <1>6, <2>3, <3>1
    <3>3. k[c] \in Nat
      BY <1>1, <2>1, <3>1
    <3> QED
      BY <2>1, <3>1, <3>2, <3>3
  <2> QED
    BY <2>2, <2>3
<1>8. TooLow(x) => c <= n /\ k[c] < k[x]
  BY <1>2, <1>4, <1>7
<1>9. ASSUME ~TooLow(x), NEW i \in 2 .. n, i \div 2 = x
      PROVE  k[x] <= k[i]
  <2>1. 2 * x <= n
    BY <1>1, <1>6, <1>9
  <2>2. k[c] <= k[i] /\ c \in 1 .. n /\ x \in 1 .. n
    BY <1>7, <1>9, <2>1
  <2>3. ~(k[c] < k[x])
    BY <1>2, <1>4, <1>9, <2>1, <2>2
  <2>4. k[c] \in Nat /\ k[x] \in Nat /\ k[i] \in Nat
    BY <1>1, <2>2
  <2> QED
    BY <2>2, <2>3, <2>4
<1> QED
  BY <1>5, <1>7, <1>8, <1>9

LEMMA SiftedStep ==
  ASSUME DumpInv, Sifted
  PROVE  DumpInv'
<1> DEFINE n == Len(pq)
           k == Keys(entries, pq)
<1>1. /\ pc = "sift" /\ ~TooLow(node) /\ DownFrom(from - 1)
      /\ UNCHANGED <<job, todo, entries, pq, out, written, code>>
  BY DEF Sifted
<1>2. /\ pq \in Seq(Cursor) /\ from \in Nat /\ node \in Nat /\ todo = {}
      /\ from >= 1 /\ node >= from /\ HeapFrom(k, n, from, node)
      /\ \A i, j \in DOMAIN pq : pq[i].src = pq[j].src => i = j
  BY <1>1 DEF DumpInv, StateInv, ReadInv, HeapInv
<1>3. k \in [1 .. n -> Nat] /\ n \in Nat
  BY KeysType
<1>4. from - 1 \in Nat /\ node >= 1
  BY <1>2
<1>5. /\ from' = from - 1 /\ node' = from - 1 /\ from' \in Nat /\ node' \in Nat
      /\ pc' \in {"sift", "merge"}
      /\ pc' = "sift" => from - 1 >= 1
      /\ pc' = "merge" => from - 1 = 0
  BY <1>1, <1>4, DownShape
<1>6. StateInv' /\ ReadInv' /\ OrderInv' /\ CompleteInv'
  BY <1>1, <1>2, <1>5, CursorsMove
<1>7. \A i \in 2 .. n : i \div 2 = node => k[node] <= k[i]
  BY <1>1, <1>2, <1>4, ChildShape
<1> HIDE DEF n, k
<1>8. HeapFrom(k, n, from - 1, from - 1)
  BY <1>2, <1>3, <1>7, SiftedHeap
<1>9. HeapFrom(Keys(entries, pq)', Len(pq)', from', node')
  BY <1>1, <1>5, <1>8 DEF n, k
<1>10. HeapInv'
  BY <1>4, <1>5, <1>9 DEF HeapInv
<1> QED
  BY <1>6, <1>10 DEF DumpInv

LEMMA SiftStep ==
  ASSUME DumpInv, Sift
  PROVE  DumpInv'
<1> DEFINE n == Len(pq)
           k == Keys(entries, pq)
           m == Keys(entries, pq')
           c == LeastChild(node)
<1>1. /\ pc = "sift" /\ pc' = "sift" /\ TooLow(node) /\ pq' = Swap(pq, node, c)
      /\ node' = c /\ from' = from
      /\ UNCHANGED <<job, todo, entries, out, written, code>>
  BY DEF Sift
<1>2. /\ pq \in Seq(Cursor) /\ from \in Nat /\ node \in Nat /\ todo = {}
      /\ from >= 1 /\ node >= from /\ HeapFrom(k, n, from, node)
      /\ \A i, j \in DOMAIN pq : pq[i].src = pq[j].src => i = j
  BY <1>1 DEF DumpInv, StateInv, ReadInv, HeapInv
<1>3. k \in [1 .. n -> Nat] /\ n \in Nat /\ DOMAIN pq = 1 .. n
  BY KeysType
<1>4. node >= 1
  BY <1>2
<1>5. /\ c \in Nat /\ (c = 2 * node \/ c = 2 * node + 1) /\ c <= n /\ k[c] < k[node]
      /\ \A i \in 2 .. n : i \div 2 = node => k[c] <= k[i]
  <2>1. 2 * node <= n
    BY <1>1 DEF TooLow
  <2> QED
    BY <1>1, <1>2, <1>4, <2>1, ChildShape
<1>6. node \in 1 .. n /\ c \in 1 .. n /\ node # c
  BY <1>2, <1>3, <1>4, <1>5
<1> HIDE DEF c
<1>7. /\ pq' \in Seq(Cursor) /\ Len(pq') = n /\ DOMAIN pq' = 1 .. n
      /\ pq'[node] = pq[c] /\ pq'[c] = pq[node]
      /\ \A i \in 1 .. n : i # node /\ i # c => pq'[i] = pq[i]
  <2>1. pq \in [1 .. n -> Cursor]
    BY <1>2
  <2>2. pq' = [pq EXCEPT ![node] = pq[c], ![c] = pq[node]]
    BY <1>1 DEF Swap
  <2>3. /\ pq' \in [1 .. n -> Cursor] /\ pq'[node] = pq[c] /\ pq'[c] = pq[node]
        /\ \A i \in 1 .. n : i # node /\ i # c => pq'[i] = pq[i]
    BY <1>6, <2>1, <2>2
  <2>4. pq' \in Seq(Cursor)
    BY <1>3, <2>3
  <2>5. Len(pq') = n /\ DOMAIN pq' = 1 .. n
    BY <1>3, <2>3, <2>4, LenProperties
  <2> QED
    BY <2>3, <2>4, <2>5
<1>8. \A i \in DOMAIN pq' : \E j \in DOMAIN pq : pq'[i] = pq[j]
  BY <1>3, <1>6, <1>7
<1>9. \A i \in DOMAIN pq : \E j \in DOMAIN pq' : pq'[j] = pq[i]
  BY <1>3, <1>6, <1>7
<1>10. \A i, j \in DOMAIN pq' : pq'[i].src = pq'[j].src => i = j
  <2> SUFFICES ASSUME NEW i \in 1 .. n, NEW j \in 1 .. n, pq'[i].src = pq'[j].src
               PROVE  i = j
    BY <1>7
  <2> DEFINE w(a) == IF a = node THEN c ELSE IF a = c THEN node ELSE a
  <2>1. pq'[i] = pq[w(i)] /\ pq'[j] = pq[w(j)] /\ w(i) \in 1 .. n /\ w(j) \in 1 .. n
    BY <1>6, <1>7
  <2>2. w(i) = w(j)
    BY <1>2, <1>3, <2>1
  <2> QED
    BY <1>6, <2>2
<1>11. StateInv' /\ ReadInv' /\ OrderInv' /\ CompleteInv'
  <2>1. from' \in Nat /\ node' \in Nat /\ pc \in {"read", "sift"} /\ pc' \in {"sift", "merge"}
    BY <1>1, <1>2, <1>5
  <2> QED
    BY <1>1, <1>2, <1>7, <1>8, <1>9, <1>10, <2>1, CursorsMove
<1>12. /\ m \in [1 .. n -> Nat] /\ m[node] = k[c] /\ m[c] = k[node]
       /\ \A i \in 1 .. n : i # node /\ i # c => m[i] = k[i]
  <2>1. \A i \in 1 .. n : k[i] = entries[pq[i].src][pq[i].idx].at
    BY DEF Keys
  <2>2. m = [i \in 1 .. n |-> entries[pq'[i].src][pq'[i].idx].at]
    BY <1>7 DEF Keys
  <2> HIDE DEF m, k
  <2>3. m[node] = k[c] /\ m[c] = k[node] /\ \A i \in 1 .. n : i # node /\ i # c => m[i] = k[i]
    BY <1>6, <1>7, <2>1, <2>2
  <2>4. \A i \in 1 .. n : m[i] \in Nat
    BY <1>3, <1>6, <2>3
  <2> QED
    BY <2>2, <2>3, <2>4
<1> HIDE DEF k, m, n
<1>13. HeapFrom(m, n, from, c)
  BY <1>2, <1>3, <1>5, <1>12, SiftHeap
<1>14. HeapInv'
  <2>1. HeapFrom(Keys(entries', pq'), Len(pq'), from', node')
    BY <1>1, <1>7, <1>13 DEF m
  <2>2. from' >= 1 /\ node' >= from'
    BY <1>1, <1>2, <1>5
  <2> QED
    BY <1>1, <2>1, <2>2 DEF HeapInv
<1> QED
  BY <1>11, <1>14 DEF DumpInv

-----------------------------------------------------------------------------
\* The root moves on, or the last cursor takes the place of an exhausted one.
LEMMA AdvanceShape ==
  ASSUME DumpInv, pq # <<>>, NEW n, n = Len(pq), NEW a, a = Advance,
         NEW c, c = [src |-> pq[1].src, idx |-> pq[1].idx + 1]
  PROVE  /\ n \in Nat /\ n >= 1 /\ a \in Seq(Cursor) /\ c \in Cursor
         /\ c.src = pq[1].src /\ c.idx = pq[1].idx + 1
         /\ \/ /\ c.idx > Len(entries[c.src]) /\ Len(a) = n - 1 /\ DOMAIN a = 1 .. n - 1
               /\ \A i \in 1 .. n - 1 : a[i] = pq[IF i = 1 THEN n ELSE i]
            \/ /\ c.idx <= Len(entries[c.src]) /\ Len(a) = n /\ DOMAIN a = 1 .. n
               /\ a[1] = c /\ \A i \in 2 .. n : a[i] = pq[i]
<1>1. pq \in Seq(Cursor) /\ n \in Nat /\ n # 0 /\ pq \in [1 .. n -> Cursor] /\ DOMAIN pq = 1 .. n
  BY DEF DumpInv, StateInv
<1>2. 1 \in DOMAIN pq /\ n >= 1
  BY <1>1
<1>3. pq[1] \in Cursor /\ pq[1].src \in Srcs /\ pq[1].idx \in Nat /\ entries[pq[1].src] \in Seq(Entry)
  BY <1>2, HeadType
<1>4. c \in Cursor /\ c.src = pq[1].src /\ c.idx = pq[1].idx + 1
  BY <1>3 DEF Cursor
<1>5. Len(entries[c.src]) \in Nat /\ c.idx \in Nat
  BY <1>3, <1>4
<1> DEFINE moved == [pq EXCEPT ![1].idx = @ + 1]
<1>6. /\ moved \in [1 .. n -> Cursor] /\ moved[1] = c
      /\ \A i \in 2 .. n : moved[i] = pq[i]
  <2>1. [pq[1] EXCEPT !.idx = pq[1].idx + 1] = c
    BY <1>3 DEF Cursor
  <2>2. moved = [pq EXCEPT ![1] = c]
    BY <2>1
  <2> QED
    BY <1>1, <1>2, <1>4, <2>2
<1>7. a = IF moved[1].idx > Len(entries[moved[1].src])
          THEN SubSeq(Swap(moved, 1, Len(moved)), 1, Len(moved) - 1) ELSE moved
  BY DEF Advance
<1> HIDE DEF moved
<1>8. moved \in Seq(Cursor) /\ Len(moved) = n /\ DOMAIN moved = 1 .. n
  <2>1. moved \in Seq(Cursor)
    BY <1>1, <1>6
  <2> QED
    BY <1>1, <1>6, <2>1, LenProperties
<1>9. CASE c.idx > Len(entries[c.src])
  <2> DEFINE w == Swap(moved, 1, n)
  <2>1. a = SubSeq(w, 1, n - 1)
    BY <1>6, <1>7, <1>8, <1>9
  <2>2. w = [moved EXCEPT ![1] = moved[n], ![n] = moved[1]]
    BY DEF Swap
  <2> HIDE DEF w
  <2>3. w \in [1 .. n -> Cursor]
    <3>1. 1 \in 1 .. n /\ n \in 1 .. n
      BY <1>1, <1>2
    <3>2. moved[1] \in Cursor /\ moved[n] \in Cursor
      BY <1>6, <3>1
    <3> QED
      BY <1>6, <2>2, <3>1, <3>2
  <2>4. \A i \in 1 .. n - 1 : w[i] = moved[IF i = 1 THEN n ELSE i]
    BY <1>1, <1>2, <1>6, <2>2
  <2>5. w \in Seq(Cursor) /\ Len(w) = n
    <3>1. w \in Seq(Cursor)
      BY <1>1, <2>3
    <3> QED
      BY <1>1, <2>3, <3>1, LenProperties
  <2>6. /\ a \in Seq(Cursor) /\ Len(a) = n - 1 /\ DOMAIN a = 1 .. n - 1
        /\ \A i \in 1 .. n - 1 : a[i] = w[i]
    <3>1. PICK m \in Nat : m = n - 1
      BY <1>1, <1>2
    <3>2. m <= Len(w)
      BY <1>1, <2>5, <3>1
    <3>3. a = SubSeq(w, 1, m)
      BY <2>1, <3>1
    <3>4. a \in Seq(Cursor) /\ Len(a) = m /\ \A i \in 1 .. m : a[i] = w[i]
      BY <2>5, <3>2, <3>3
    <3>5. DOMAIN a = 1 .. m
      BY <3>4
    <3> QED
      BY <3>1, <3>4, <3>5
  <2>7. \A i \in 1 .. n - 1 : a[i] = pq[IF i = 1 THEN n ELSE i]
    <3> SUFFICES ASSUME NEW i \in 1 .. n - 1 PROVE a[i] = pq[IF i = 1 THEN n ELSE i]
      OBVIOUS
    <3>1. PICK x : x = IF i = 1 THEN n ELSE i
      OBVIOUS
    <3>2. x \in 2 .. n
      BY <1>1, <3>1
    <3>3. a[i] = moved[x]
      BY <2>4, <2>6, <3>1
    <3> QED
      BY <1>6, <3>1, <3>2, <3>3
  <2> QED
    BY <1>1, <1>2, <1>4, <1>9, <2>6, <2>7
<1>10. CASE c.idx <= Len(entries[c.src])
  <2>1. a = moved
    BY <1>5, <1>6, <1>7, <1>10
  <2> QED
    BY <1>1, <1>2, <1>4, <1>6, <1>8, <1>10, <2>1
<1> QED
  BY <1>5, <1>9, <1>10

LEMMA AdvanceFacts ==
  ASSUME DumpInv, pq # <<>>, pc = "merge", NEW n, n = Len(pq), NEW a, a = Advance,
         NEW c, c = [src |-> pq[1].src, idx |-> pq[1].idx + 1]
  PROVE  /\ n \in Nat /\ n >= 1 /\ a \in Seq(Cursor) /\ c \in Cursor
         /\ c.src = pq[1].src /\ c.idx = pq[1].idx + 1
         /\ \A i \in DOMAIN a : \/ \E j \in 2 .. n : a[i] = pq[j]
                                \/ a[i] = c /\ c.idx <= Len(entries[c.src])
         /\ \A j \in 2 .. n : \E i \in DOMAIN a : a[i] = pq[j]
         /\ c.idx <= Len(entries[c.src]) => \E i \in DOMAIN a : a[i] = c
         /\ \A i, j \in DOMAIN a : a[i].src = a[j].src => i = j
         /\ HeapFrom(Keys(entries, a), Len(a), 1, 1)
<1>1. /\ n \in Nat /\ n >= 1 /\ a \in Seq(Cursor) /\ c \in Cursor
      /\ c.src = pq[1].src /\ c.idx = pq[1].idx + 1
  BY AdvanceShape
<1>2. /\ DOMAIN pq = 1 .. n /\ Keys(entries, pq) \in [1 .. n -> Nat]
      /\ \A i, j \in 1 .. n : pq[i].src = pq[j].src => i = j
      /\ HeapFrom(Keys(entries, pq), n, 0, 0)
  <2>1. DOMAIN pq = 1 .. n /\ Keys(entries, pq) \in [1 .. n -> Nat]
    BY KeysType
  <2>2. \A i, j \in DOMAIN pq : pq[i].src = pq[j].src => i = j
    BY DEF DumpInv, ReadInv
  <2>3. HeapFrom(Keys(entries, pq), n, 0, 0)
    BY DEF DumpInv, HeapInv
  <2> QED
    BY <2>1, <2>2, <2>3
<1>3. Len(entries[c.src]) \in Nat /\ c.idx \in Nat
  <2>1. 1 \in DOMAIN pq
    BY <1>1, <1>2
  <2>2. entries[pq[1].src] \in Seq(Entry) /\ pq[1].idx \in Nat
    BY <2>1, HeadType
  <2> QED
    BY <1>1, <2>2
<1>4. \A i \in DOMAIN a \ {1} : i \in 2 .. n /\ a[i] = pq[i]
  BY <1>1, AdvanceShape
<1>5. HeapFrom(Keys(entries, a), Len(a), 1, 1)
  <2> SUFFICES ASSUME NEW i \in 2 .. Len(a), i \div 2 >= 1, i \div 2 # 1
               PROVE  Keys(entries, a)[i \div 2] <= Keys(entries, a)[i]
    <3>1. ~(1 \div 2 >= 1)
      OBVIOUS
    <3> QED
      BY <3>1 DEF HeapFrom
  <2>1. Len(a) \in Nat /\ DOMAIN a = 1 .. Len(a)
    BY <1>1
  <2>2. i \div 2 \in DOMAIN a \ {1} /\ i \in DOMAIN a \ {1} /\ i \div 2 >= 0
    BY <2>1, Halves
  <2>3. i \in 2 .. n /\ a[i] = pq[i] /\ i \div 2 \in 2 .. n /\ a[i \div 2] = pq[i \div 2]
    BY <1>4, <2>2
  <2>4. /\ Keys(entries, a)[i] = Keys(entries, pq)[i]
        /\ Keys(entries, a)[i \div 2] = Keys(entries, pq)[i \div 2]
    BY <1>1, <2>1, <2>2, <2>3 DEF Keys
  <2>5. Keys(entries, pq)[i \div 2] <= Keys(entries, pq)[i]
    BY <1>2, <2>2, <2>3 DEF HeapFrom
  <2> QED
    BY <2>4, <2>5
<1>6. CASE /\ c.idx > Len(entries[c.src]) /\ Len(a) = n - 1 /\ DOMAIN a = 1 .. n - 1
           /\ \A i \in 1 .. n - 1 : a[i] = pq[IF i = 1 THEN n ELSE i]
  <2> DEFINE w(i) == IF i = 1 THEN n ELSE i
  <2>1. \A i \in DOMAIN a : w(i) \in 2 .. n /\ a[i] = pq[w(i)]
    BY <1>1, <1>6
  <2>2. ASSUME NEW j \in 2 .. n PROVE \E i \in DOMAIN a : a[i] = pq[j]
    <3>1. CASE j = n
      <4>1. 1 \in DOMAIN a /\ a[1] = pq[n]
        BY <1>1, <1>6, <2>2, <3>1
      <4> QED
        BY <3>1, <4>1
    <3>2. CASE j # n
      <4>1. j \in DOMAIN a /\ a[j] = pq[j]
        BY <1>1, <1>6, <2>2, <3>2
      <4> QED
        BY <4>1
    <3> QED
      BY <3>1, <3>2
  <2>3. ASSUME NEW i \in DOMAIN a, NEW j \in DOMAIN a, a[i].src = a[j].src
        PROVE  i = j
    <3>1. w(i) = w(j)
      BY <1>1, <1>2, <2>1, <2>3
    <3> QED
      BY <1>1, <1>6, <3>1
  <2>4. ~(c.idx <= Len(entries[c.src]))
    BY <1>3, <1>6
  <2> QED
    BY <1>1, <1>5, <2>1, <2>2, <2>3, <2>4
<1>7. CASE /\ c.idx <= Len(entries[c.src]) /\ Len(a) = n /\ DOMAIN a = 1 .. n
           /\ a[1] = c /\ \A i \in 2 .. n : a[i] = pq[i]
  <2>1. \A i \in DOMAIN a : a[i].src = pq[i].src
    BY <1>1, <1>7
  <2>2. \A i, j \in DOMAIN a : a[i].src = a[j].src => i = j
    BY <1>2, <1>7, <2>1
  <2>3. ASSUME NEW i \in DOMAIN a
        PROVE  (\E j \in 2 .. n : a[i] = pq[j]) \/ (a[i] = c /\ c.idx <= Len(entries[c.src]))
    BY <1>1, <1>7
  <2>4. 1 \in DOMAIN a
    BY <1>1, <1>7
  <2>5. ASSUME NEW j \in 2 .. n PROVE \E i \in DOMAIN a : a[i] = pq[j]
    BY <1>1, <1>7
  <2> QED
    BY <1>1, <1>5, <1>7, <2>2, <2>3, <2>4, <2>5
<1> QED
  BY <1>6, <1>7, AdvanceShape

\* The same, of the cursors after a step that moves the root on.
LEMMA Advanced ==
  ASSUME DumpInv, pq # <<>>, pc = "merge", pq' = Advance,
         NEW c, c = [src |-> pq[1].src, idx |-> pq[1].idx + 1]
  PROVE  /\ pq' \in Seq(Cursor)
         /\ c.src = pq[1].src /\ c.idx = pq[1].idx + 1
         /\ \A i \in DOMAIN pq' : \/ \E j \in 2 .. Len(pq) : pq'[i] = pq[j]
                                  \/ pq'[i] = c /\ c.idx <= Len(entries[c.src])
         /\ \A j \in 2 .. Len(pq) : \E i \in DOMAIN pq' : pq'[i] = pq[j]
         /\ c.idx <= Len(entries[c.src]) => \E i \in DOMAIN pq' : pq'[i] = c
         /\ \A i, j \in DOMAIN pq' : pq'[i].src = pq'[j].src => i = j
         /\ HeapFrom(Keys(entries, pq'), Len(pq'), 1, 1)
<1>1. PICK n : n = Len(pq)
  OBVIOUS
<1>2. PICK a : a = Advance
  OBVIOUS
<1>3. /\ a \in Seq(Cursor)
      /\ c.src = pq[1].src /\ c.idx = pq[1].idx + 1
      /\ \A i \in DOMAIN a : \/ \E j \in 2 .. n : a[i] = pq[j]
                             \/ a[i] = c /\ c.idx <= Len(entries[c.src])
      /\ \A j \in 2 .. n : \E i \in DOMAIN a : a[i] = pq[j]
      /\ c.idx <= Len(entries[c.src]) => \E i \in DOMAIN a : a[i] = c
      /\ \A i, j \in DOMAIN a : a[i].src = a[j].src => i = j
      /\ HeapFrom(Keys(entries, a), Len(a), 1, 1)
  BY <1>1, <1>2, AdvanceFacts
<1>4. pq' = a
  BY <1>2
<1> QED
  BY <1>1, <1>3, <1>4

-----------------------------------------------------------------------------
LEMMA EntryShape ==
  ASSUME DumpInv, NEW s \in Srcs, NEW k \in DOMAIN entries[s]
  PROVE  /\ entries[s] \in Seq(Entry) /\ k \in Nat /\ k <= Len(entries[s])
         /\ DOMAIN entries[s] = 1 .. Len(entries[s])
         /\ entries[s][k] \in Entry /\ entries[s][k].src = s
         /\ entries[s][k] \in Range(entries[s])
         /\ \A l \in DOMAIN entries[s] : k < l => Before(entries[s][k], entries[s][l])
<1>1. entries[s] \in Seq(Entry) /\ JobOK(job)
  BY DEF DumpInv, StateInv
<1>2. /\ DOMAIN entries[s] = 1 .. Len(entries[s]) /\ k \in Nat /\ k <= Len(entries[s])
      /\ entries[s][k] \in Entry
  BY <1>1
<1>3. entries[s][k] \in Range(entries[s])
  BY DEF Range
<1>4. entries[s][k] \in EntriesOf(s)
  BY <1>3 DEF DumpInv, ReadInv
<1>5. entries[s][k].src = s
  BY <1>1, <1>4, EntriesType
<1>6. \A l \in DOMAIN entries[s] : k < l => Before(entries[s][k], entries[s][l])
  BY DEF DumpInv, ReadInv, InOrder
<1> QED
  BY <1>1, <1>2, <1>3, <1>5, <1>6

LEMMA EntryFields ==
  ASSUME NEW a \in Entry
  PROVE  a.at \in Nat /\ a.line \in Nat /\ a.src \in Srcs
  BY TimeFacts DEF Entry

LEMMA FollowsOn ==
  ASSUME NEW a \in Entry, NEW b \in Entry, NEW c \in Entry, Before(b, c)
  PROVE  /\ b # c /\ Follows(b, c) /\ b.at <= c.at
         /\ Follows(a, b) /\ b.src = c.src => Follows(a, c)
<1>1. /\ a.at \in Nat /\ a.line \in Nat /\ b.at \in Nat /\ b.line \in Nat
      /\ c.at \in Nat /\ c.line \in Nat
  BY EntryFields
<1>2. b.at < c.at \/ (b.at = c.at /\ b.line < c.line)
  BY DEF Before
<1>3. b # c
  BY <1>1, <1>2
<1>4. Follows(b, c) /\ b.at <= c.at
  BY <1>1, <1>2 DEF Follows
<1>5. ASSUME Follows(a, b), b.src = c.src PROVE Follows(a, c)
  <2>1. a.at <= b.at /\ (a.src = b.src /\ a.at = b.at => a.line < b.line)
    BY <1>5 DEF Follows
  <2>2. a.at <= c.at
    BY <1>1, <1>2, <2>1
  <2>3. a.src = c.src /\ a.at = c.at => a.line < c.line
    BY <1>1, <1>2, <1>5, <2>1
  <2> QED
    BY <2>2, <2>3 DEF Follows
<1> QED
  BY <1>3, <1>4, <1>5

LEMMA AppendShape ==
  ASSUME NEW S, NEW E \in Seq(S), NEW e \in S, NEW F, F = Append(E, e)
  PROVE  /\ Len(E) \in Nat /\ DOMAIN E = 1 .. Len(E)
         /\ Len(F) = Len(E) + 1 /\ DOMAIN F = 1 .. Len(E) + 1
         /\ F[Len(E) + 1] = e /\ \A k \in DOMAIN E : F[k] = E[k]
         /\ \A k \in DOMAIN F : k \in DOMAIN E \/ k = Len(E) + 1
<1>1. /\ Len(E) \in Nat /\ DOMAIN E = 1 .. Len(E)
      /\ Len(F) = Len(E) + 1 /\ DOMAIN F = 1 .. Len(E) + 1
      /\ F[Len(E) + 1] = e /\ \A k \in DOMAIN E : F[k] = E[k]
  OBVIOUS
<1>2. \A k \in DOMAIN F : k \in DOMAIN E \/ k = Len(E) + 1
  BY <1>1
<1> QED
  BY <1>1, <1>2

LEMMA AppendRange ==
  ASSUME NEW S, NEW E \in Seq(S), NEW e \in S, NEW F, F = Append(E, e), NEW x
  PROVE  x \in Range(F) <=> x \in Range(E) \/ x = e
<1>1. /\ Len(E) \in Nat /\ DOMAIN E = 1 .. Len(E) /\ DOMAIN F = 1 .. Len(E) + 1
      /\ F[Len(E) + 1] = e /\ \A k \in DOMAIN E : F[k] = E[k]
      /\ \A k \in DOMAIN F : k \in DOMAIN E \/ k = Len(E) + 1
  BY AppendShape
<1>2. \A k \in DOMAIN E : k \in DOMAIN F
  BY <1>1
<1>3. Len(E) + 1 \in DOMAIN F
  BY <1>1
<1>4. ASSUME x \in Range(F) PROVE x \in Range(E) \/ x = e
  <2>1. PICK k \in DOMAIN F : x = F[k]
    BY <1>4 DEF Range
  <2>2. CASE k \in DOMAIN E
    BY <1>1, <2>1, <2>2 DEF Range
  <2>3. CASE k = Len(E) + 1
    BY <1>1, <2>1, <2>3
  <2> QED
    BY <1>1, <2>2, <2>3
<1>5. ASSUME x \in Range(E) PROVE x \in Range(F)
  <2>1. PICK k \in DOMAIN E : x = E[k]
    BY <1>5 DEF Range
  <2> QED
    BY <1>1, <1>2, <2>1 DEF Range
<1>6. e \in Range(F)
  BY <1>1, <1>3 DEF Range
<1> QED
  BY <1>4, <1>5, <1>6

\* What MergeOne does, in the terms of the invariant.
LEMMA MergeShape ==
  ASSUME DumpInv, MergeOne
  PROVE  /\ pc = "merge" /\ pq # <<>> /\ todo = {} /\ ~out.err /\ ~Capped
         /\ UNCHANGED <<job, todo, entries, code>>
         /\ pc' = "sift" /\ from' = 1 /\ node' = 1
         /\ written' = written + 1 /\ pq' = Advance
         /\ OutOK(job, Entry, out') /\ ~out'.err
         /\ Enc(out') = Append(Enc(out), Head1(pq[1]))
         /\ 1 \in DOMAIN pq /\ Enc(out) \in Seq(Entry) /\ Head1(pq[1]) \in Entry
<1>1. /\ pc = "merge" /\ pq # <<>> /\ ~Capped /\ UNCHANGED <<job, todo, entries, code>>
      /\ DownFrom(1) /\ written' = written + 1 /\ pq' = Advance
      /\ out' \in Encoded(Head1(pq[1])) /\ ~out'.err
  BY DEF MergeOne
<1>2. todo = {} /\ ~out.err /\ JobOK(job) /\ OutOK(job, Entry, out) /\ pq \in Seq(Cursor)
  BY <1>1 DEF DumpInv, StateInv, ReadInv, CompleteInv
<1>3. 1 \in DOMAIN pq
  BY <1>1, <1>2
<1>4. Head1(pq[1]) \in Entry
  BY <1>3, HeadType
<1>5. OutOK(job, Entry, out') /\ Enc(out') = Append(Enc(out), Head1(pq[1]))
  BY <1>1, <1>2, <1>4, EncodedShape
<1>6. Enc(out) \in Seq(Entry)
  BY <1>2, EncType DEF OutOK
<1>7. pc' = "sift" /\ from' = 1 /\ node' = 1
  BY <1>1 DEF DownFrom
<1> QED
  BY <1>1, <1>2, <1>3, <1>4, <1>5, <1>6, <1>7

LEMMA MergeOrder ==
  ASSUME DumpInv, MergeOne
  PROVE  OrderInv'
<1> DEFINE e == Head1(pq[1])
           E == Enc(out)
           F == Enc(out')
           n == Len(pq)
<1>c. PICK c : c = [src |-> pq[1].src, idx |-> pq[1].idx + 1]
  OBVIOUS
<1>1. /\ pc = "merge" /\ pq # <<>> /\ entries' = entries /\ pc' = "sift" /\ pq' = Advance
      /\ F = Append(E, e) /\ 1 \in DOMAIN pq /\ E \in Seq(Entry) /\ e \in Entry
  BY MergeShape
<1>2. /\ Len(E) \in Nat /\ DOMAIN E = 1 .. Len(E) /\ DOMAIN F = 1 .. Len(E) + 1
      /\ F[Len(E) + 1] = e /\ \A k \in DOMAIN E : F[k] = E[k] /\ E[k] \in Entry
      /\ \A k \in DOMAIN F : k \in DOMAIN E \/ k = Len(E) + 1
  BY <1>1, AppendShape
<1>3. /\ \A i, j \in DOMAIN E : i < j => Follows(E[i], E[j])
      /\ \A k \in DOMAIN E, i \in DOMAIN pq : Follows(E[k], Head1(pq[i]))
  BY DEF DumpInv, OrderInv
<1>4. /\ c.src = pq[1].src /\ c.idx = pq[1].idx + 1 /\ pq[1].idx \in Nat \ {0}
      /\ pq[1].src \in Srcs /\ pq[1].idx \in DOMAIN entries[pq[1].src]
      /\ e = entries[pq[1].src][pq[1].idx] /\ e.src = pq[1].src
  BY <1>1, <1>c, HeadType, Advanced
<1>5. /\ DOMAIN pq = 1 .. n /\ n \in Nat
      /\ \A i, j \in DOMAIN pq : pq[i].src = pq[j].src => i = j
  BY <1>1, KeysType DEF DumpInv, ReadInv
<1>6. \A i \in DOMAIN pq' : \/ \E j \in 2 .. n : pq'[i] = pq[j]
                            \/ pq'[i] = c /\ c.idx <= Len(entries[c.src])
  BY <1>1, <1>c, Advanced
<1>7. \A j \in DOMAIN pq : e.at <= Head1(pq[j]).at
  <2>1. Keys(entries, pq) \in [1 .. n -> Nat] /\ HeapFrom(Keys(entries, pq), n, 0, 0)
    BY <1>1, KeysType DEF DumpInv, HeapInv
  <2>2. \A j \in 1 .. n : Keys(entries, pq)[1] <= Keys(entries, pq)[j]
    BY <1>5, <2>1, RootIsLeast
  <2> QED
    BY <1>1, <1>5, <2>2, HeadType
<1> HIDE DEF e, E, F, n
<1>8. ASSUME NEW i \in DOMAIN F, NEW j \in DOMAIN F, i < j
      PROVE  Follows(F[i], F[j])
  <2>1. i \in DOMAIN E
    BY <1>2, <1>8
  <2>2. CASE j \in DOMAIN E
    BY <1>2, <1>3, <1>8, <2>1, <2>2
  <2>3. CASE j = Len(E) + 1
    <3>1. Follows(E[i], e)
      BY <1>1, <1>3, <2>1 DEF e
    <3> QED
      BY <1>2, <2>1, <2>3, <3>1
  <2> QED
    BY <1>2, <2>2, <2>3
<1>9. ASSUME NEW k \in DOMAIN F, NEW i \in DOMAIN pq'
      PROVE  Follows(F[k], entries[pq'[i].src][pq'[i].idx])
  <2>1. ASSUME NEW j \in 2 .. n, pq'[i] = pq[j]
        PROVE  Follows(F[k], Head1(pq[j]))
    <3>1. j \in DOMAIN pq /\ j # 1
      BY <1>5, <2>1
    <3>2. CASE k \in DOMAIN E
      BY <1>2, <1>3, <3>1, <3>2
    <3>3. CASE k = Len(E) + 1
      <4>1. Head1(pq[j]).src = pq[j].src
        BY <3>1, HeadType
      <4>2. e.src # Head1(pq[j]).src
        BY <1>1, <1>4, <1>5, <3>1, <4>1
      <4>3. Follows(e, Head1(pq[j]))
        BY <1>7, <3>1, <4>2 DEF Follows
      <4> QED
        BY <1>2, <3>3, <4>3
    <3> QED
      BY <1>2, <3>2, <3>3
  <2>2. ASSUME pq'[i] = c, c.idx <= Len(entries[c.src])
        PROVE  Follows(F[k], entries[c.src][c.idx])
    <3>1. DOMAIN entries[c.src] = 1 .. Len(entries[c.src]) /\ Len(entries[c.src]) \in Nat
      BY <1>4, EntryShape
    <3>2. c.idx \in DOMAIN entries[c.src]
      BY <1>4, <2>2, <3>1
    <3>3. PICK y : y = entries[c.src][c.idx]
      OBVIOUS
    <3>4. y \in Entry /\ y.src = c.src
      BY <1>4, <3>2, <3>3, EntryShape
    <3>5. Before(e, y)
      <4>1. pq[1].idx < c.idx
        BY <1>4
      <4> QED
        BY <1>4, <3>2, <3>3, <4>1, EntryShape
    <3>6. CASE k \in DOMAIN E
      <4>1. Follows(E[k], e)
        BY <1>1, <1>3, <3>6 DEF e
      <4> QED
        BY <1>1, <1>2, <1>4, <3>3, <3>4, <3>5, <3>6, <4>1, FollowsOn
    <3>7. CASE k = Len(E) + 1
      BY <1>1, <1>2, <3>3, <3>4, <3>5, <3>7, FollowsOn
    <3> QED
      BY <1>2, <3>6, <3>7
  <2> QED
    BY <1>6, <2>1, <2>2 DEF Head1
<1>10. Enc(out)' = F
  BY DEF F
<1> QED
  BY <1>1, <1>8, <1>9, <1>10 DEF OrderInv, Head1

LEMMA MergeComplete ==
  ASSUME DumpInv, MergeOne
  PROVE  CompleteInv'
<1> DEFINE e == Head1(pq[1])
           E == Enc(out)
           F == Enc(out')
           n == Len(pq)
           t == pq[1].src
<1>c. PICK c : c = [src |-> pq[1].src, idx |-> pq[1].idx + 1]
  OBVIOUS
<1>1. /\ pc = "merge" /\ pq # <<>> /\ ~out.err /\ ~Capped
      /\ entries' = entries /\ job' = job /\ code' = code
      /\ pc' = "sift" /\ pq' = Advance /\ written' = written + 1 /\ ~out'.err
      /\ F = Append(E, e) /\ 1 \in DOMAIN pq /\ E \in Seq(Entry) /\ e \in Entry
  BY MergeShape
<1> HIDE DEF e, E, F
<1>2. Len(F) = Len(E) + 1 /\ \A x : x \in Range(F) <=> x \in Range(E) \/ x = e
  <2>0. PICK g \in Seq(Entry), y \in Entry : g = E /\ y = e
    BY <1>1
  <2>1. PICK f : g = E /\ y = e /\ f = F
    BY <2>0
  <2>2. f = Append(g, y)
    BY <1>1, <2>1
  <2>3. Len(f) = Len(g) + 1
    BY <2>2, AppendShape
  <2>4. \A x : x \in Range(f) <=> x \in Range(g) \/ x = y
    BY <2>2, AppendRange
  <2> QED
    BY <2>1, <2>3, <2>4
<1> USE DEF e, E, F
<1>3. /\ Range(E) \subseteq UNION {Range(entries[s]) : s \in Srcs}
      /\ \A s \in Srcs : \A k \in DOMAIN entries[s] :
            entries[s][k] \in Range(E) <=> Passed(pq, s, k)
      /\ written = Len(E) /\ job.max \in Int /\ written \in Nat /\ code = -1
      /\ job.cmd = "dump"
  BY <1>1 DEF DumpInv, CompleteInv, StateInv, JobOK
<1>4. /\ c.src = t /\ c.idx = pq[1].idx + 1 /\ pq[1].idx \in Nat \ {0}
      /\ t \in Srcs /\ pq[1].idx \in DOMAIN entries[t]
      /\ e = entries[t][pq[1].idx] /\ e.src = t
  BY <1>1, <1>c, HeadType, Advanced
<1>5. /\ DOMAIN pq = 1 .. n /\ n \in Nat
      /\ \A i, j \in DOMAIN pq : pq[i].src = pq[j].src => i = j
  BY <1>1, KeysType DEF DumpInv, ReadInv
<1>6. /\ \A i \in DOMAIN pq' : \/ \E j \in 2 .. n : pq'[i] = pq[j]
                               \/ pq'[i] = c /\ c.idx <= Len(entries[c.src])
      /\ \A j \in 2 .. n : \E i \in DOMAIN pq' : pq'[i] = pq[j]
      /\ c.idx <= Len(entries[c.src]) => \E i \in DOMAIN pq' : pq'[i] = c
  BY <1>1, <1>c, Advanced
<1>7. \A j \in 2 .. n : j \in DOMAIN pq /\ pq[j].src # t
  BY <1>1, <1>5
<1>8. Range(F) \subseteq UNION {Range(entries[s]) : s \in Srcs}
  <2>1. e \in Range(entries[t])
    BY <1>4, EntryShape
  <2> QED
    BY <1>2, <1>3, <1>4, <2>1
<1> HIDE DEF e, E, F, n, t
<1>9. ASSUME NEW s \in Srcs, NEW k \in DOMAIN entries[s], s # t
      PROVE  entries[s][k] \in Range(F) <=> Passed(pq', s, k)
  <2>1. entries[s][k] # e
    BY <1>4, <1>9, EntryShape
  <2>2. Passed(pq', s, k) <=> Passed(pq, s, k)
    <3>1. ASSUME Passed(pq, s, k), NEW i \in DOMAIN pq', pq'[i].src = s
          PROVE  pq'[i].idx > k
      <4>1. PICK j \in 2 .. n : pq'[i] = pq[j]
        BY <1>4, <1>6, <1>9, <3>1
      <4> QED
        BY <1>7, <3>1, <4>1 DEF Passed
    <3>2. ASSUME Passed(pq', s, k), NEW j \in DOMAIN pq, pq[j].src = s
          PROVE  pq[j].idx > k
      <4>1. j \in 2 .. n
        <5>1. j # 1
          BY <1>9, <3>2 DEF t
        <5> QED
          BY <1>5, <5>1
      <4>2. PICK i \in DOMAIN pq' : pq'[i] = pq[j]
        BY <1>6, <4>1
      <4> QED
        BY <3>2, <4>2 DEF Passed
    <3> QED
      BY <3>1, <3>2 DEF Passed
  <2> QED
    BY <1>2, <1>3, <2>1, <2>2
<1>10. ASSUME NEW k \in DOMAIN entries[t]
       PROVE  entries[t][k] \in Range(F) <=> Passed(pq', t, k)
  <2>1. k \in Nat /\ k <= Len(entries[t]) /\ Len(entries[t]) \in Nat
    <3>1. entries[t] \in Seq(Entry)
      BY <1>4, EntryShape
    <3> QED
      BY <1>4, <3>1, EntryShape
  <2>2. Passed(pq, t, k) <=> pq[1].idx > k
    BY <1>1, <1>5 DEF Passed, t
  <2>3. Passed(pq', t, k) <=> c.idx > k
    <3>1. ASSUME c.idx > k, NEW i \in DOMAIN pq', pq'[i].src = t
          PROVE  pq'[i].idx > k
      BY <1>6, <1>7, <3>1
    <3>2. ASSUME Passed(pq', t, k) PROVE c.idx > k
      <4>1. CASE c.idx <= Len(entries[c.src])
        BY <1>4, <1>6, <3>2, <4>1 DEF Passed
      <4>2. CASE ~(c.idx <= Len(entries[c.src]))
        BY <1>4, <2>1, <4>2
      <4> QED
        BY <4>1, <4>2
    <3> QED
      BY <3>1, <3>2 DEF Passed
  <2>4. entries[t][k] = e <=> k = pq[1].idx
    <3>1. ASSUME k # pq[1].idx PROVE entries[t][k] # e
      <4>1. entries[t][k] \in Entry
        BY <1>4, EntryShape
      <4>2. CASE k < pq[1].idx
        <5>1. Before(entries[t][k], e)
          BY <1>4, <4>2, EntryShape
        <5> QED
          BY <1>1, <4>1, <5>1, FollowsOn
      <4>3. CASE pq[1].idx < k
        <5>1. Before(e, entries[t][k])
          BY <1>4, <4>3, EntryShape
        <5> QED
          BY <1>1, <4>1, <5>1, FollowsOn
      <4> QED
        BY <1>4, <2>1, <3>1, <4>2, <4>3
    <3> QED
      BY <1>4, <3>1
  <2>5. c.idx > k <=> pq[1].idx > k \/ k = pq[1].idx
    BY <1>4, <2>1
  <2> QED
    BY <1>2, <1>3, <1>4, <2>2, <2>3, <2>4, <2>5
<1>11. \A s \in Srcs : \A k \in DOMAIN entries[s] :
            entries[s][k] \in Range(F) <=> Passed(pq', s, k)
  BY <1>9, <1>10
<1>12. job.max > 0 => written + 1 <= job.max
  BY <1>1, <1>3 DEF Capped
<1>13. Enc(out)' = F /\ Srcs' = Srcs
  BY <1>1, SameJob DEF F
<1>14. (Range(Enc(out)) \subseteq UNION {Range(entries[s]) : s \in Srcs})'
  BY <1>1, <1>8, <1>13
<1>15. (\A s \in Srcs : \A k \in DOMAIN entries[s] :
            entries[s][k] \in Range(Enc(out)) <=> Passed(pq, s, k))'
  BY <1>1, <1>11, <1>13
<1>16. /\ (written = Len(Enc(out)))' /\ (job.max > 0 => written <= job.max)'
       /\ (pc \notin {"close", "done"} => code = -1 /\ ~out.err)'
       /\ job'.cmd = "dump" /\ pc' \notin {"close", "done"}
  BY <1>1, <1>2, <1>3, <1>12, <1>13
<1> QED
  BY <1>14, <1>15, <1>16 DEF CompleteInv

LEMMA MergeOneStep ==
  ASSUME DumpInv, MergeOne
  PROVE  DumpInv'
<1> DEFINE n == Len(pq)
<1>c. PICK c : c = [src |-> pq[1].src, idx |-> pq[1].idx + 1]
  OBVIOUS
<1>1. /\ pc = "merge" /\ pq # <<>> /\ todo = {}
      /\ UNCHANGED <<job, todo, entries, code>>
      /\ pc' = "sift" /\ pq' = Advance /\ from' = 1 /\ node' = 1 /\ written' = written + 1
      /\ OutOK(job, Entry, out')
  BY MergeShape
<1>2. /\ pq' \in Seq(Cursor)
      /\ \A i \in DOMAIN pq' : \/ \E j \in 2 .. n : pq'[i] = pq[j]
                               \/ pq'[i] = c /\ c.idx <= Len(entries[c.src])
      /\ \A i, j \in DOMAIN pq' : pq'[i].src = pq'[j].src => i = j
      /\ HeapFrom(Keys(entries, pq'), Len(pq'), 1, 1)
  BY <1>1, <1>c, Advanced
<1>3. /\ Srcs' = Srcs /\ Entry' = Entry /\ Cursor' = Cursor
      /\ \A x : EntriesOf(x)' = EntriesOf(x)
  BY <1>1, SameJob
<1>4. StateInv /\ ReadInv
  BY DEF DumpInv
<1>5. StateInv'
  <2>1. /\ pc' \in {"dispatch", "args", "open", "read", "sift", "merge", "close", "done"}
        /\ from' \in Nat /\ node' \in Nat
    BY <1>1
  <2>2. written' \in Nat
    BY <1>1, <1>4 DEF StateInv
  <2>3. OutOK(job', Entry', out')
    BY <1>1, <1>3
  <2> QED
    BY <1>1, <1>2, <1>3, <1>4, <2>1, <2>2, <2>3 DEF StateInv
<1>6. ReadInv'
  <2>1. ASSUME NEW i \in DOMAIN pq' PROVE pq'[i].idx <= Len(entries[pq'[i].src])
    <3>1. DOMAIN pq = 1 .. n /\ n \in Nat
      BY KeysType
    <3>2. \A j \in 2 .. n : pq[j].idx <= Len(entries[pq[j].src])
      BY <1>4, <3>1 DEF ReadInv
    <3> QED
      BY <1>2, <3>2
  <2>2. \A s \in Srcs : InOrder(entries[s])
                        /\ Range(entries[s]) = IF s \in todo THEN {} ELSE EntriesOf(s)
    BY <1>4 DEF ReadInv
  <2>3. \A s \in Srcs' : Range(entries'[s]) = IF s \in todo' THEN {} ELSE EntriesOf(s)'
    BY <1>1, <1>3, <2>2
  <2>4. \A s \in Srcs' : InOrder(entries'[s])
    BY <1>1, <1>3, <2>2
  <2>5. \A i \in DOMAIN pq' : pq'[i].idx <= Len(entries'[pq'[i].src])
    BY <1>1, <2>1
  <2>6. todo' = {}
    BY <1>1
  <2> QED
    BY <1>2, <2>3, <2>4, <2>5, <2>6 DEF ReadInv
<1>7. HeapInv'
  BY <1>1, <1>2 DEF HeapInv
<1> QED
  BY <1>5, <1>6, <1>7, MergeOrder, MergeComplete DEF DumpInv

-----------------------------------------------------------------------------
\* Merge and runDump come to their end: at most the end of the output is lost.
LEMMA EndStep ==
  ASSUME DumpInv, pc \in {"merge", "close"}, pc' \in {"close", "done"},
         UNCHANGED <<job, todo, entries, heap, written>>,
         OutOK(job, Entry, out'), PrefixOf(Enc(out'), Enc(out)),
         ~out'.err => ~out.err /\ Enc(out') = Enc(out),
         code' \in {-1, 0, 2, 4},
         code' = 0 => pq = <<>> \/ Capped,
         pc' = "done" /\ code' = 0 /\ ~out'.err => out'.gz = <<>> /\ out'.buf = <<>>
  PROVE  DumpInv'
<1>1. /\ job' = job /\ todo' = todo /\ entries' = entries /\ pq' = pq /\ from' = from
      /\ node' = node /\ written' = written
  BY DEF heap
<1>2. /\ Srcs' = Srcs /\ Entry' = Entry /\ Cursor' = Cursor
      /\ \A x : EntriesOf(x)' = EntriesOf(x)
  BY <1>1, SameJob
<1>3. /\ StateInv /\ ReadInv /\ OrderInv /\ CompleteInv /\ todo = {} /\ job.cmd = "dump"
      /\ OutOK(job, Entry, out)
  BY DEF DumpInv, StateInv, ReadInv, CompleteInv
<1>4. Enc(out) \in Seq(Entry) /\ Enc(out') \in Seq(Entry)
  BY <1>3, EncType DEF OutOK
<1>5. PICK E \in Seq(Entry), F \in Seq(Entry) : E = Enc(out) /\ F = Enc(out')
  BY <1>4
<1>6. /\ \A k \in DOMAIN F : k \in DOMAIN E /\ F[k] = E[k]
      /\ DOMAIN F = 1 .. Len(F)
  <2>1. Len(F) <= Len(E) /\ \A k \in 1 .. Len(F) : F[k] = E[k]
    BY <1>5 DEF PrefixOf
  <2>2. Len(E) \in Nat /\ Len(F) \in Nat /\ DOMAIN E = 1 .. Len(E) /\ DOMAIN F = 1 .. Len(F)
    OBVIOUS
  <2> QED
    BY <2>1, <2>2
<1>7. Enc(out)' = F
  BY <1>5
<1>8. StateInv'
  <2>1. pc' \in {"dispatch", "args", "open", "read", "sift", "merge", "close", "done"}
    OBVIOUS
  <2>2. OutOK(job', Entry', out')
    BY <1>1, <1>2
  <2> QED
    BY <1>1, <1>2, <1>3, <2>1, <2>2 DEF StateInv
<1>9. ReadInv'
  <2>1. \A s \in Srcs' : Range(entries'[s]) = IF s \in todo' THEN {} ELSE EntriesOf(s)'
    BY <1>1, <1>2, <1>3 DEF ReadInv
  <2>2. todo' = {}
    BY <1>1, <1>3
  <2>3. \A s \in Srcs' : InOrder(entries'[s])
    BY <1>1, <1>2, <1>3 DEF ReadInv
  <2>4. /\ \A i \in DOMAIN pq' : pq'[i].idx <= Len(entries'[pq'[i].src])
        /\ \A i, j \in DOMAIN pq' : pq'[i].src = pq'[j].src => i = j
    BY <1>1, <1>3 DEF ReadInv
  <2> QED
    BY <2>1, <2>2, <2>3, <2>4, Zenon DEF ReadInv
<1>10. HeapInv'
  BY DEF HeapInv
<1>11. OrderInv'
  <2>1. /\ \A i, j \in DOMAIN E : i < j => Follows(E[i], E[j])
        /\ \A k \in DOMAIN E, i \in DOMAIN pq : Follows(E[k], Head1(pq[i]))
    BY <1>3, <1>5 DEF OrderInv
  <2>2. \A i, j \in DOMAIN F : i < j => Follows(F[i], F[j])
    BY <1>6, <2>1
  <2>3. \A k \in DOMAIN F, i \in DOMAIN pq : Follows(F[k], Head1(pq[i]))
    BY <1>6, <2>1
  <2>4. \A k \in DOMAIN F, i \in DOMAIN pq' : Follows(F[k], Head1(pq[i])')
    BY <1>1, <2>3 DEF Head1
  <2> QED
    BY <1>7, <2>2, <2>4 DEF OrderInv
<1>12. CompleteInv'
  <2>1. \A x \in Range(F) : x \in Range(E)
    BY <1>6 DEF Range
  <2>2. Range(E) \subseteq UNION {Range(entries[s]) : s \in Srcs}
    BY <1>3, <1>5 DEF CompleteInv
  <2>3. (Range(Enc(out)) \subseteq UNION {Range(entries[s]) : s \in Srcs})'
    <3>1. Range(F) \subseteq UNION {Range(entries[s]) : s \in Srcs}
      BY <2>1, <2>2
    <3> QED
      BY <1>1, <1>2, <1>7, <3>1
  <2>4. ASSUME ~out'.err
        PROVE  /\ \A s \in Srcs : \A k \in DOMAIN entries[s] :
                    entries[s][k] \in Range(F) <=> Passed(pq, s, k)
               /\ written = Len(F)
    <3>1. ~out.err /\ F = E
      BY <1>5, <2>4
    <3> QED
      BY <1>3, <1>5, <3>1 DEF CompleteInv
  <2>5. (~out.err => /\ \A s \in Srcs : \A k \in DOMAIN entries[s] :
                            entries[s][k] \in Range(Enc(out)) <=> Passed(pq, s, k)
                     /\ written = Len(Enc(out)))'
    BY <1>1, <1>2, <1>7, <2>4
  <2>6. (job.max > 0 => written <= job.max)'
    BY <1>1, <1>3 DEF CompleteInv
  <2>7. /\ job'.cmd = "dump" /\ pc' \in {"close", "done"}
        /\ code' = 0 => todo' = {} /\ (pq' = <<>> \/ Capped')
    BY <1>1, <1>3 DEF Capped
  <2>8. (pc = "done" /\ code = 0 /\ job.cmd = "dump" /\ ~out.err =>
            out.gz = <<>> /\ out.buf = <<>>)'
    OBVIOUS
  <2> QED
    BY <2>3, <2>5, <2>6, <2>7, <2>8 DEF CompleteInv
<1> QED
  BY <1>8, <1>9, <1>10, <1>11, <1>12 DEF DumpInv

\* The three ways there.
LEMMA LastSteps ==
  ASSUME DumpInv, MergeFails \/ MergeEnds \/ CloseOutput
  PROVE  DumpInv'
<1>1. JobOK(job) /\ OutOK(job, Entry, out) /\ out \in Outputs(Entry) /\ pq \in Seq(Cursor)
      /\ code \in {-1, 0, 2, 4}
  BY DEF DumpInv, StateInv, OutOK
<1>2. Enc(out) \in Seq(Entry) /\ PrefixOf(Enc(out), Enc(out))
  BY <1>1, EncType, PrefixFacts
<1>3. CASE MergeFails
  <2>1. /\ pc = "merge" /\ pc' = "close" /\ code' = 4 /\ pq # <<>>
        /\ UNCHANGED <<job, todo, entries, heap, written>>
        /\ out' = out \/ (out' \in Encoded(Head1(pq[1])) /\ out'.err)
    BY <1>3 DEF MergeFails
  <2>2. ~out.err
    BY <2>1 DEF DumpInv, CompleteInv
  <2>3. /\ OutOK(job, Entry, out') /\ PrefixOf(Enc(out'), Enc(out))
        /\ ~out'.err => Enc(out') = Enc(out)
    <3>1. CASE out' = out
      BY <1>1, <1>2, <3>1
    <3>2. CASE out' \in Encoded(Head1(pq[1])) /\ out'.err
      <4>1. 1 \in DOMAIN pq
        BY <1>1, <2>1
      <4>2. Head1(pq[1]) \in Entry
        BY <4>1, HeadType
      <4> QED
        BY <1>1, <2>2, <3>2, <4>2, EncodedShape
    <3> QED
      BY <2>1, <3>1, <3>2
  <2> QED
    BY <2>1, <2>2, <2>3, EndStep
<1>4. CASE MergeEnds
  <2>1. /\ pc = "merge" /\ pc' = "close" /\ code' = 0 /\ (pq = <<>> \/ Capped) /\ out' = out
        /\ UNCHANGED <<job, todo, entries, heap, written>>
    BY <1>4 DEF MergeEnds
  <2>2. ~out.err
    BY <2>1 DEF DumpInv, CompleteInv
  <2> QED
    BY <1>1, <1>2, <2>1, <2>2, EndStep
<1>5. CASE CloseOutput
  <2>1. /\ pc = "close" /\ pc' = "done" /\ code' = code /\ out' \in Closed
        /\ UNCHANGED <<job, todo, entries, heap, written>>
    BY <1>5 DEF CloseOutput
  <2>2. job.cmd = "dump" /\ (code = 0 => pq = <<>> \/ Capped)
    BY <2>1 DEF DumpInv, CompleteInv
  <2>3. /\ OutOK(job, Entry, out') /\ PrefixOf(Enc(out'), Enc(out))
        /\ out.err => out'.err
        /\ ~out'.err => Enc(out') = Enc(out) /\ out'.buf = <<>> /\ out'.gz = <<>>
    BY <1>1, <2>1, ClosedShape
  <2> QED
    BY <1>1, <2>1, <2>2, <2>3, EndStep
<1> QED
  BY <1>3, <1>4, <1>5

LEMMA StutterStep ==
  ASSUME DumpInv, UNCHANGED vars
  PROVE  DumpInv'
<1>1. /\ job' = job /\ todo' = todo /\ entries' = entries /\ pq' = pq /\ from' = from
      /\ node' = node /\ written' = written /\ out' = out /\ pc' = pc /\ code' = code
  BY DEF vars, heap
<1>2. /\ Srcs' = Srcs /\ Entry' = Entry /\ Cursor' = Cursor
      /\ \A x : EntriesOf(x)' = EntriesOf(x)
  BY <1>1, SameJob
<1>3. StateInv'
  BY <1>1, <1>2 DEF DumpInv, StateInv
<1>4. ReadInv'
  <2>1. \A s \in Srcs' : Range(entries'[s]) = IF s \in todo' THEN {} ELSE EntriesOf(s)'
    BY <1>1, <1>2 DEF DumpInv, ReadInv
  <2> QED
    BY <1>1, <1>2, <2>1 DEF DumpInv, ReadInv
<1>5. HeapInv'
  BY <1>1 DEF DumpInv, HeapInv
<1>6. OrderInv'
  BY <1>1 DEF DumpInv, OrderInv, Head1
<1>7. CompleteInv'
  BY <1>1, <1>2 DEF DumpInv, CompleteInv, Capped
<1> QED
  BY <1>3, <1>4, <1>5, <1>6, <1>7 DEF DumpInv

\* The invariant is inductive.
LEMMA DumpInvHolds == Spec => []DumpInv
<1>1. DumpInv /\ [Next]_vars => DumpInv'
  BY EarlyStep, ReadStep, HeapInitStep, SiftStep, SiftedStep, MergeOneStep, LastSteps,
     StutterStep DEF Next
<1> QED
  BY <1>1, InitInv, PTL DEF Spec

-----------------------------------------------------------------------------
\* The output is in order of time, for every set of sources, contents, windows
\* and outputs, however many cursors the heap of Merge holds: no cursor is ever
\* compared past its entries, and the heap is one whenever its root is used.
THEOREM DumpIsSorted == Spec => []DumpSorted
<1> SUFFICES ASSUME DumpInv PROVE DumpSorted
  <2>1. DumpInv => DumpSorted
    OBVIOUS
  <2> QED
    BY <2>1, DumpInvHolds, PTL
<1>1. StateInv /\ ReadInv /\ HeapInv /\ OrderInv
  BY DEF DumpInv
<1>2. Encoding = Enc(out)
  BY DEF Encoding, Enc
<1>3. DumpTypeOK
  <2>1. out \in Outputs(Entry) /\ Len(out.buf) <= BufCap
    BY <1>1 DEF StateInv, OutOK
  <2>2. Encoding \in Seq(Entry)
    BY <1>2, <2>1, EncType
  <2>3. Range(pq) \subseteq [src : Srcs, idx : Nat \ {0}]
    <3>1. \A i \in DOMAIN pq : pq[i] \in Cursor
      BY <1>1 DEF StateInv
    <3> QED
      BY <3>1 DEF Range, Cursor
  <2> QED
    BY <1>1, <2>1, <2>2, <2>3 DEF DumpTypeOK, StateInv
<1>4. HeapOrdered
  <2>1. \A i \in DOMAIN pq : pq[i].idx <= Len(entries[pq[i].src])
    BY <1>1 DEF ReadInv
  <2>2. ASSUME pc = "merge", NEW i \in DOMAIN pq \ {1}
        PROVE  Head1(pq[i \div 2]).at <= Head1(pq[i]).at
    <3>1. DOMAIN pq = 1 .. Len(pq) /\ Len(pq) \in Nat
      BY KeysType
    <3>2. i \in 2 .. Len(pq) /\ i \div 2 \in 1 .. Len(pq) /\ i \div 2 # 0 /\ i \div 2 >= 0
      BY <3>1, Halves
    <3>3. Keys(entries, pq)[i \div 2] <= Keys(entries, pq)[i]
      BY <1>1, <2>2, <3>2 DEF HeapInv, HeapFrom
    <3> QED
      BY <3>1, <3>2, <3>3, HeadType
  <2> QED
    BY <2>1, <2>2 DEF HeapOrdered
<1>5. \A i, j \in DOMAIN Encoding :
        i < j => /\ Encoding[i].at <= Encoding[j].at
                 /\ Encoding[i].src = Encoding[j].src /\ Encoding[i].at = Encoding[j].at
                        => Encoding[i].line < Encoding[j].line
  BY <1>1, <1>2 DEF OrderInv, Follows
<1> QED
  BY <1>3, <1>4, <1>5 DEF DumpSorted

-----------------------------------------------------------------------------
\* A dump whose output could be opened fails only when a write to that output
\* fails or one of its sources holds a time JSON cannot hold; no source that
\* is broken, slow or empty makes it fail.
THEOREM DumpNeverAborts == Spec => []DumpAborts
<1>1. Init => DumpAborts
  BY DEF Init, DumpAborts
<1>2. ASSUME DumpInv, DumpAborts, [Next]_vars
      PROVE  DumpAborts'
  <2>1. job' = job
    BY <1>2, JobStays
  <2>2. CASE code' = code /\ out' = out
    BY <1>2, <2>1, <2>2 DEF DumpAborts, Srcs, Kinds
  <2>3. CASE Dispatch \/ Args \/ OpenOutput
    <3>1. (code' = code /\ out' = out) \/ (job.cmd = "dump" /\ code' = 4 => ~job.creatable)
      BY <1>2, <2>3, EarlyShape, Zenon
    <3> QED
      BY <2>1, <2>2, <3>1 DEF DumpAborts
  <2>4. CASE ReadSource \/ captureTimeout \/ HeapInit \/ Sift \/ Sifted \/ UNCHANGED vars
    BY <2>2, <2>4, Zenon DEF ReadSource, captureTimeout, HeapInit, Sift, Sifted, vars
  <2>5. CASE MergeOne
    <3>1. code' = code /\ code = -1
      BY <1>2, <2>5 DEF MergeOne, DumpInv, CompleteInv
    <3> QED
      BY <3>1 DEF DumpAborts
  <2>6. CASE MergeFails
    <3>1. CASE Head1(pq[1]).at = Far
      <4>1. 1 \in DOMAIN pq
        BY <1>2, <2>6 DEF MergeFails, DumpInv, StateInv
      <4>2. PICK s \in Srcs : \E k \in DOMAIN entries[s] : Head1(pq[1]) = entries[s][k]
        BY <1>2, <4>1, HeadType
      <4>3. Head1(pq[1]) \in Range(entries[s])
        BY <4>2 DEF Range
      <4>4. Head1(pq[1]) \in EntriesOf(s) /\ JobOK(job)
        BY <1>2, <4>3 DEF DumpInv, ReadInv, StateInv
      <4>5. PICK i \in DOMAIN job.holds[s] : job.holds[s][i] = Far
        BY <3>1, <4>4, EntriesType
      <4>6. Far \in Range(job.holds[s])
        BY <4>5 DEF Range
      <4> QED
        BY <2>1, <4>2, <4>6 DEF DumpAborts, Srcs, Kinds
    <3>2. CASE Head1(pq[1]).at # Far
      BY <2>6, <3>2 DEF MergeFails, DumpAborts
    <3> QED
      BY <3>1, <3>2
  <2>7. CASE MergeEnds
    BY <2>7 DEF MergeEnds, DumpAborts
  <2>8. CASE CloseOutput
    <3>1. code' = code /\ out' \in Closed
      BY <2>8 DEF CloseOutput
    <3>2. JobOK(job) /\ OutOK(job, Entry, out)
      BY <1>2 DEF DumpInv, StateInv
    <3>3. out.err => out'.err
      BY <3>1, <3>2, ClosedShape
    <3> QED
      BY <1>2, <2>1, <3>1, <3>3 DEF DumpAborts, Srcs, Kinds
  <2> QED
    BY <1>2, <2>3, <2>4, <2>5, <2>6, <2>7, <2>8 DEF Next
<1> QED
  BY <1>1, <1>2, DumpInvHolds, PTL DEF Spec

-----------------------------------------------------------------------------
(***************************************************************************)
(* What was asked for, and what was written.                               *)
(***************************************************************************)
LEMMA WantedIsRead ==
  ASSUME JobOK(job), Until % 2 = 0
  PROVE  Wanted = UNION {EntriesOf(s) : s \in Srcs}
<1>1. Since \in Nat /\ Until \in Nat /\ Kinds \in Seq(AllKinds)
  BY DEF JobOK, Since, Until, Kinds
<1>2. WholeSecond(Until) = Until /\ WholeSecond(Since) \in Nat /\ WholeSecond(Since) <= Since
  BY <1>1 DEF WholeSecond
<1> DEFINE All(s)  == {[src |-> s, line |-> i, at |-> LinesOf(s)[i]] : i \in DOMAIN LinesOf(s)}
           Asked(t) == (Since = 0 \/ Since <= t) /\ (Until = 0 \/ t <= Until)
<1>3. ASSUME NEW s \in Srcs
      PROVE  ~Failed(s) <=> IF Kinds[s] \in {"file", "kmsg"} THEN job.ends[s] # "open"
                                                           ELSE job.ends[s] = "eof"
  <2>1. Kinds[s] \in AllKinds
    BY <1>1 DEF Srcs
  <2> QED
    BY <2>1 DEF Failed, RunDmesgFails, captureCommandFails, AllKinds
<1>4. \A s \in Srcs : LinesOf(s) \in Seq(Line)
  <2> SUFFICES ASSUME NEW s \in Srcs PROVE LinesOf(s) \in Seq(Line)
    OBVIOUS
  <2>1. PICK h \in Seq(Line) : job.holds[s] = h
    BY DEF JobOK, Srcs, Kinds
  <2>2. LinesOf(s) = h \/ (h # <<>> /\ LinesOf(s) = SubSeq(h, 1, Len(h) - 1))
    BY <2>1 DEF LinesOf
  <2>3. ASSUME h # <<>> PROVE SubSeq(h, 1, Len(h) - 1) \in Seq(Line)
    <3>a. Len(h) \in Nat /\ Len(h) # 0
      BY <2>3
    <3>1. PICK m \in Nat : m = Len(h) - 1
      BY <3>a
    <3>2. m <= Len(h)
      BY <3>a, <3>1
    <3>3. SubSeq(h, 1, m) \in Seq(Line)
      BY <3>2
    <3> QED
      BY <3>1, <3>3
  <2> QED
    BY <2>2, <2>3
<1>5. ASSUME NEW s \in Srcs, NEW e
      PROVE  e \in EntriesOf(s) <=> ~Failed(s) /\ e \in All(s) /\ e.at # Bad /\ Asked(e.at)
  <2>1. ASSUME NEW i \in DOMAIN LinesOf(s), LinesOf(s)[i] # Bad
        PROVE  /\ Passes(LinesOf(s)[i]) <=> Asked(LinesOf(s)[i])
               /\ Asked(LinesOf(s)[i]) => JournalHas(LinesOf(s)[i])
    <3>1. LinesOf(s)[i] \in Nat
      <4>1. LinesOf(s)[i] \in Line
        BY <1>4, <2>1
      <4> QED
        BY <2>1, <4>1, TimeFacts DEF Line
    <3>2. PICK t \in Nat : t = LinesOf(s)[i]
      BY <3>1
    <3>3. Passes(t) <=> Asked(t)
      BY <1>1 DEF Passes
    <3>4. Asked(t) => JournalHas(t)
      BY <1>1, <1>2 DEF JournalHas
    <3> QED
      BY <3>2, <3>3, <3>4
  <2>2. e \in EntriesOf(s) <=>
            ~Failed(s) /\ \E i \in DOMAIN LinesOf(s) :
                /\ LinesOf(s)[i] # Bad /\ Passes(LinesOf(s)[i])
                /\ Kinds[s] = "journal" => JournalHas(LinesOf(s)[i])
                /\ e = [src |-> s, line |-> i, at |-> LinesOf(s)[i]]
    BY DEF EntriesOf, ReadEntries
  <2>3. e \in All(s) /\ e.at # Bad /\ Asked(e.at) <=>
            \E i \in DOMAIN LinesOf(s) :
                /\ LinesOf(s)[i] # Bad /\ Asked(LinesOf(s)[i])
                /\ e = [src |-> s, line |-> i, at |-> LinesOf(s)[i]]
    <3> HIDE DEF Asked
    <3> QED
      OBVIOUS
  <2> HIDE DEF Asked, All
  <2> QED
    BY <2>1, <2>2, <2>3
<1>6. \A e : e \in Wanted <=> \E s \in Srcs : e \in EntriesOf(s)
  <2>1. \A e : e \in Wanted <=>
            /\ \E s \in Srcs :
                  /\ IF Kinds[s] \in {"file", "kmsg"} THEN job.ends[s] # "open"
                                                     ELSE job.ends[s] = "eof"
                  /\ e \in All(s)
            /\ e.at # Bad /\ Asked(e.at)
    <3> HIDE DEF All
    <3> QED
      BY DEF Wanted, All
  <2> HIDE DEF Asked, All
  <2> QED
    BY <1>3, <1>5, <2>1
<1> QED
  BY <1>6

LEMMA WantedFinite ==
  ASSUME JobOK(job), Until % 2 = 0
  PROVE  IsFiniteSet(Wanted) /\ Cardinality(Wanted) \in Nat
<1> DEFINE T == {EntriesOf(s) : s \in Srcs}
           f == [s \in Srcs |-> EntriesOf(s)]
<1>1. IsFiniteSet(Srcs)
  <2>1. Srcs = 1 .. Len(Kinds) /\ Len(Kinds) \in Nat
    BY DEF JobOK, Srcs, Kinds
  <2> QED
    BY <2>1, FS_Interval
<1>2. f \in Surjection(Srcs, T)
  BY DEF Surjection
<1>3. IsFiniteSet(T)
  BY <1>1, <1>2, FS_Surjection
<1>4. \A X \in T : IsFiniteSet(X)
  BY EntriesFinite
<1>5. IsFiniteSet(UNION T)
  BY <1>3, <1>4, FS_UNION
<1>6. IsFiniteSet(Wanted)
  BY <1>5, WantedIsRead
<1> QED
  BY <1>6, FS_CardinalityType

\* Nothing is written twice.
LEMMA NoneTwice ==
  ASSUME NEW E \in Seq(Entry), \A i, j \in DOMAIN E : i < j => Follows(E[i], E[j])
  PROVE  IsFiniteSet(Range(E)) /\ Cardinality(Range(E)) = Len(E)
<1>1. Len(E) \in Nat /\ DOMAIN E = 1 .. Len(E) /\ E \in [1 .. Len(E) -> Entry]
  OBVIOUS
<1>2. ASSUME NEW i \in 1 .. Len(E), NEW j \in 1 .. Len(E), E[i] = E[j]
      PROVE  i = j
  <2>1. E[i].line \in Nat /\ E[i].at \in Nat
    BY <1>1, EntryFields
  <2>2. ~Follows(E[i], E[j]) /\ ~Follows(E[j], E[i])
    BY <1>2, <2>1 DEF Follows
  <2> QED
    BY <1>1, <2>2
<1>3. E \in [1 .. Len(E) -> Range(E)]
  BY <1>1 DEF Range
<1>4. E \in Surjection(1 .. Len(E), Range(E))
  BY <1>1, <1>3 DEF Range, Surjection
<1>5. E \in Injection(1 .. Len(E), Range(E))
  BY <1>2, <1>3, Fun_IsInj
<1>6. IsFiniteSet(1 .. Len(E)) /\ Cardinality(1 .. Len(E)) = Len(E)
  BY <1>1, FS_Interval
<1> QED
  BY <1>4, <1>5, <1>6, FS_Surjection

\* A dump that ends with exit code 0 has written every entry it was asked for
\* exactly once, or, with --max-lines, that many of them and none that is later
\* than one it left out: no broken or empty source takes others with it.
THEOREM DumpIsComplete == Spec => []DumpComplete
<1> SUFFICES ASSUME DumpInv PROVE DumpComplete
  <2>1. DumpInv => DumpComplete
    OBVIOUS
  <2> QED
    BY <2>1, DumpInvHolds, PTL
<1> SUFFICES ASSUME pc = "done", job.cmd = "dump", code = 0, ~out.err, Until % 2 = 0
             PROVE  /\ Range(out.file) \subseteq Wanted
                    /\ Len(out.file) = Cardinality(Range(out.file))
                    /\ Cardinality(Range(out.file)) =
                          IF job.max > 0 /\ job.max < Cardinality(Wanted)
                          THEN job.max ELSE Cardinality(Wanted)
                    /\ \A a \in Range(out.file), b \in Wanted \ Range(out.file) : a.at <= b.at
  BY DEF DumpComplete
<1>1. /\ JobOK(job) /\ out \in Outputs(Entry) /\ job.max \in Int /\ written \in Nat
  BY DEF DumpInv, StateInv, JobOK, OutOK
<1>2. /\ Range(Enc(out)) \subseteq UNION {Range(entries[s]) : s \in Srcs}
      /\ \A s \in Srcs : \A k \in DOMAIN entries[s] :
            entries[s][k] \in Range(Enc(out)) <=> Passed(pq, s, k)
      /\ written = Len(Enc(out))
      /\ job.max > 0 => written <= job.max
      /\ todo = {} /\ (pq = <<>> \/ Capped)
      /\ out.gz = <<>> /\ out.buf = <<>>
  BY DEF DumpInv, CompleteInv
<1>3. out.file = Enc(out) /\ out.file \in Seq(Entry)
  <2>1. PICK f \in Seq(Entry) : out.file = f
    BY <1>1, EncType
  <2>2. f \o <<>> \o <<>> = f
    OBVIOUS
  <2> QED
    BY <1>2, <2>1, <2>2 DEF Enc
<1>4. PICK E \in Seq(Entry) : E = out.file
  BY <1>3
<1>5. \A s \in Srcs : Range(entries[s]) = EntriesOf(s)
  BY <1>2 DEF DumpInv, ReadInv
<1>6. Wanted = UNION {EntriesOf(s) : s \in Srcs}
  BY <1>1, WantedIsRead
<1>7. IsFiniteSet(Wanted) /\ Cardinality(Wanted) \in Nat
  BY <1>1, WantedFinite
<1>8. Range(E) \subseteq Wanted
  BY <1>2, <1>3, <1>4, <1>5, <1>6
<1>9. Cardinality(Range(E)) = Len(E) /\ Len(E) = written
  <2>1. \A i, j \in DOMAIN E : i < j => Follows(E[i], E[j])
    BY <1>3, <1>4 DEF DumpInv, OrderInv
  <2> QED
    BY <1>2, <1>3, <1>4, <2>1, NoneTwice
<1>10. /\ Cardinality(Range(E)) <= Cardinality(Wanted)
       /\ Wanted \subseteq Range(E) => Cardinality(Range(E)) = Cardinality(Wanted)
  <2>1. Cardinality(Range(E)) <= Cardinality(Wanted)
    BY <1>7, <1>8, FS_Subset
  <2>2. Wanted \subseteq Range(E) => Wanted = Range(E)
    BY <1>8
  <2> QED
    BY <2>1, <2>2
<1>11. ASSUME NEW b \in Wanted
       PROVE  \E s \in Srcs : \E k \in DOMAIN entries[s] :
                 b = entries[s][k] /\ (b \in Range(E) <=> Passed(pq, s, k))
  <2>1. PICK s \in Srcs : b \in EntriesOf(s)
    BY <1>6
  <2>2. b \in Range(entries[s])
    BY <1>5, <2>1
  <2>3. PICK k \in DOMAIN entries[s] : b = entries[s][k]
    BY <2>2 DEF Range
  <2> QED
    BY <1>2, <1>3, <1>4, <2>3
<1>12. Cardinality(Range(E)) = IF job.max > 0 /\ job.max < Cardinality(Wanted)
                               THEN job.max ELSE Cardinality(Wanted)
  <2>1. CASE pq = <<>>
    <3>1. \A s, k : Passed(pq, s, k)
      BY <2>1 DEF Passed
    <3>2. Wanted \subseteq Range(E)
      BY <1>11, <3>1
    <3>3. written = Cardinality(Wanted)
      BY <1>9, <1>10, <3>2
    <3> QED
      BY <1>1, <1>2, <1>7, <1>9, <3>3
  <2>2. CASE Capped
    <3>1. job.max > 0 /\ written = job.max
      BY <1>1, <1>2, <2>2 DEF Capped
    <3> QED
      BY <1>1, <1>7, <1>9, <1>10, <3>1
  <2> QED
    BY <1>2, <2>1, <2>2
<1>13. ASSUME NEW a \in Range(E), NEW b \in Wanted \ Range(E)
       PROVE  a.at <= b.at
  <2>1. PICK x \in DOMAIN E : a = E[x]
    BY <1>13 DEF Range
  <2>2. PICK s \in Srcs : \E k \in DOMAIN entries[s] : b = entries[s][k] /\ ~Passed(pq, s, k)
    BY <1>11, <1>13
  <2>3. PICK k \in DOMAIN entries[s] : b = entries[s][k] /\ ~Passed(pq, s, k)
    BY <2>2
  <2>4. PICK i \in DOMAIN pq : pq[i].src = s /\ ~(pq[i].idx > k)
    BY <2>3 DEF Passed
  <2>5. /\ pq[i].idx \in Nat /\ pq[i].idx \in DOMAIN entries[s]
        /\ Head1(pq[i]) = entries[s][pq[i].idx] /\ Head1(pq[i]) \in Entry
    BY <2>4, HeadType
  <2>6. k \in Nat /\ b \in Entry
    BY <2>3, EntryShape
  <2>7. Head1(pq[i]).at <= b.at
    <3>1. CASE pq[i].idx = k
      BY <2>3, <2>5, <2>6, <3>1, EntryFields
    <3>2. CASE pq[i].idx < k
      <4>1. Before(Head1(pq[i]), b)
        BY <2>3, <2>5, <3>2, EntryShape
      <4> QED
        BY <2>5, <2>6, <4>1, FollowsOn
    <3> QED
      BY <2>4, <2>5, <2>6, <3>1, <3>2
  <2>8. a.at <= Head1(pq[i]).at
    <3>1. Follows(Enc(out)[x], Head1(pq[i]))
      BY <1>3, <1>4, <2>1, <2>4 DEF DumpInv, OrderInv
    <3> QED
      BY <1>3, <1>4, <2>1, <3>1 DEF Follows
  <2>9. a.at \in Nat /\ Head1(pq[i]).at \in Nat /\ b.at \in Nat
    BY <2>1, <2>5, <2>6, EntryFields
  <2> QED
    BY <2>7, <2>8, <2>9
<1> QED
  BY <1>4, <1>8, <1>9, <1>12, <1>13
=============================================================================
