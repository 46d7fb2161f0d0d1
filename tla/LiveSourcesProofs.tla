-------------------------- MODULE LiveSourcesProofs --------------------------
(***************************************************************************)
(* Proofs about the live sources (internal/source/source.go, journal.go    *)
(* and kmsg_linux.go) running side by side over one sink: every entry that *)
(* a source hands to emit is in one place (EmitOnce), the journal's        *)
(* records are whole and complete (JournalWhole), and the kernel source    *)
(* skips only what it must (KMsgNoSkip).                                   *)
(***************************************************************************)
EXTENDS LiveSources, SequenceTheorems, FiniteSetTheorems, TLAPS

-----------------------------------------------------------------------------
Line  == Nat \X Nat
Entry == [source : Emitters, lines : Seq(Line)]

\* The number of the record an entry was made of.
Num(e) == e.lines[1][1]

EntriesOK ==
    /\ sink \in Seq(Entry) /\ received \in Seq(Entry)
    /\ emitting \in [Emitters -> Seq(Entry)]
    /\ handed \in [Emitters -> Seq(Entry)]
    /\ phase \in [Emitters -> {"idle", "try", "wait"}]
    /\ lost \subseteq Entry /\ IsFiniteSet(lost)
    /\ drops = Cardinality(lost)
    /\ receiving \in BOOLEAN

\* A channel buffers up to its capacity, and nothing while its reader waits.
Channel ==
    /\ Len(sink) <= SinkCap
    /\ receiving => sink = <<>>

\* A call of emit holds one entry.
Calls ==
    \A c \in Emitters :
        /\ phase[c] = "idle" => emitting[c] = <<>>
        /\ phase[c] # "idle" => emitting[c] = <<emitting[c][1]>>

\* An entry that was handed over is with its call (em), sent (snt) or dropped
\* (lst), in one of them only, and sent once.
Once(em, snt, lst, hd) ==
    /\ \A c \in Emitters : \A x \in Range(hd[c]) :
           x.source = c /\ x \in Range(em[c]) \cup Range(snt) \cup lst
    /\ \A c \in Emitters : \A x \in Range(em[c]) :
           x \in Range(hd[c]) /\ x \notin Range(snt) /\ x \notin lst
    /\ \A x \in Range(snt) \cup lst : x \in Range(hd[x.source])
    /\ \A x \in Range(snt) : x \notin lst
    /\ \A i, j \in 1 .. Len(snt) : snt[i] = snt[j] => i = j

OnePlace == Once(emitting, Sent, lost, handed)

EmitInv == EntriesOK /\ Channel /\ Calls /\ OnePlace

-----------------------------------------------------------------------------
\* The entries of h carry growing record numbers below pos.
Growing(h, pos) ==
    /\ \A i \in 1 .. Len(h) : Num(h[i]) \in Nat /\ Num(h[i]) < pos
    /\ \A i, j \in 1 .. Len(h) : i < j => Num(h[i]) < Num(h[j])

\* Record n is between the first and the current position if and only if it
\* was handed over, overwritten or refused.
Accounted(h, first, pos, over) ==
    \A n \in Nat :
        (first <= n /\ n < pos) <=>
            \/ \E i \in 1 .. Len(h) : Num(h[i]) = n
            \/ n \in over
            \/ n \in Garbled /\ first <= n /\ n < pos

KMsgInv ==
    /\ KMsgTypeOK
    /\ kfirst \in Nat
    /\ overrun \subseteq Nat
    /\ kpc # "emit" => phase[KMsg] = "idle"
    /\ kpc = "start" => handed[KMsg] = <<>> /\ overrun = {}
    /\ Growing(handed[KMsg], kpos)
    /\ kpc \notin {"start", "done"} =>
           kfirst <= kpos /\ Accounted(handed[KMsg], kfirst, kpos, overrun)

-----------------------------------------------------------------------------
\* The parts the parser takes.
Taken == (1 .. MaxParts) \ Refused

\* The r lines of part q + 1 that have been read.
Collected(q, r) ==
    IF r = 0 THEN <<>>
    ELSE IF r = 1 THEN <<<<q + 1, 1>>>>
    ELSE <<<<q + 1, 1>>, <<q + 1, 2>>>>

\* Of the w lines written, those not in pipe p are read: q parts and the
\* lines b of the next one.
ReadSoFar(q, r, w, p, b) ==
    /\ w = 3 * q + r + Len(p)
    /\ b = Collected(q, r)
    /\ \A k \in 1 .. Len(p) : p[k] = LineAt(3 * q + r + k)

\* The parts handed over are those up to n that the parser takes.
HandedUpTo(h, n) ==
    /\ \A i \in 1 .. Len(h) : Num(h[i]) \in 1 .. n
    /\ \A m \in (1 .. n) \ Refused : \E i \in 1 .. Len(h) : Num(h[i]) = m

\* consume has returned, or is in the emit after EOF.
AtEnd == jpc \in {"last", "wait", "done"}

\* The i-th entry handed over: a whole part, or the one the child died in.
WholeOrCut(h, i, cut) ==
    \/ h[i].lines = <<<<Num(h[i]), 1>>, <<Num(h[i]), 2>>>>
    \/ cut /\ i = Len(h) /\ h[i].lines = <<<<Num(h[i]), 1>>>>

\* How far the journal source is: q parts and r lines.
Progress(q, r) ==
    /\ ReadSoFar(q, r, wrote, pipe, buf)
    /\ ~AtEnd => HandedUpTo(handed[Journal], q)
    /\ AtEnd /\ ~done /\ jret # "readErr" =>
           pipe = <<>> /\ HandedUpTo(handed[Journal], IF r = 0 THEN q ELSE q + 1)

JournalInv ==
    /\ JournalTypeOK
    /\ done \in BOOLEAN
    /\ pipe \in Seq(Line) /\ buf \in Seq(Line)
    /\ jpc \notin {"emit", "last"} => phase[Journal] = "idle"
    /\ jpc = "start" => child = "none"
    /\ child = "none" => jpc \in {"start", "done"} /\ wrote = 0
    /\ child = "ok" => wrote = Total
    /\ AtEnd /\ child = "runs" => done
    /\ jret = "readErr" => jpc = "done"
    /\ \A i \in 1 .. Len(handed[Journal]) :
           /\ WholeOrCut(handed[Journal], i, child = "failed" /\ AtEnd)
           /\ Num(handed[Journal][i]) \in Taken
    /\ \E q \in Nat, r \in 0 .. 2 : Progress(q, r)

LiveInv == EmitInv /\ KMsgInv /\ JournalInv

-----------------------------------------------------------------------------
(* Sequences and their elements.                                           *)

\* An element of a sequence is at one of its positions, and appending adds one.
LEMMA RangeFacts ==
    ASSUME NEW S, NEW s \in Seq(S)
    PROVE  /\ Range(s) = {s[i] : i \in 1 .. Len(s)}
           /\ Range(s) \subseteq S
           /\ \A x \in S : Range(Append(s, x)) = Range(s) \cup {x}
  <1>1. DOMAIN s = 1 .. Len(s)
    OBVIOUS
  <1>2. \A i \in 1 .. Len(s) : s[i] \in S
    OBVIOUS
  <1>3. Range(s) = {s[i] : i \in 1 .. Len(s)}
    BY <1>1 DEF Range
  <1>4. ASSUME NEW x \in S
        PROVE  Range(Append(s, x)) = Range(s) \cup {x}
    <2>1. DOMAIN Append(s, x) = 1 .. Len(s) + 1 /\ Len(s) \in Nat
      BY AppendProperties
    <2>2. \A i \in 1 .. Len(s) : Append(s, x)[i] = s[i]
      BY AppendProperties
    <2>3. Append(s, x)[Len(s) + 1] = x
      BY AppendProperties
    <2>4. Range(Append(s, x)) = {Append(s, x)[i] : i \in 1 .. Len(s) + 1}
      BY <2>1 DEF Range
    <2>5. 1 .. Len(s) + 1 = (1 .. Len(s)) \cup {Len(s) + 1}
      BY <2>1
    <2> QED
      BY <1>3, <2>2, <2>3, <2>4, <2>5, Zenon
  <1> QED
    BY <1>2, <1>3, <1>4

\* The empty call holds nothing and a call with entry x holds x.
LEMMA RangeOfCall == Range(<<>>) = {} /\ \A x : Range(<<x>>) = {x}
  <1>1. Range(<<>>) = {}
    BY DEF Range
  <1>2. ASSUME NEW x
        PROVE  Range(<<x>>) = {x}
    <2>1. DOMAIN <<x>> = {1} /\ <<x>>[1] = x
      OBVIOUS
    <2> QED
      BY <2>1 DEF Range
  <1> QED
    BY <1>1, <1>2

-----------------------------------------------------------------------------
(* Emit: the ways an entry moves.                                          *)

\* A call with a new entry.
LEMMA OnceCall ==
    ASSUME NEW em \in [Emitters -> Seq(Entry)], NEW snt, NEW lst,
           NEW hd \in [Emitters -> Seq(Entry)], Once(em, snt, lst, hd),
           NEW c \in Emitters, NEW e \in Entry, e.source = c,
           em[c] = <<>>, e \notin Range(hd[c])
    PROVE  Once([em EXCEPT ![c] = <<e>>], snt, lst, [hd EXCEPT ![c] = Append(@, e)])
  <1> DEFINE em2 == [em EXCEPT ![c] = <<e>>]
             hd2 == [hd EXCEPT ![c] = Append(@, e)]
  <1>1. Range(em2[c]) = {e} /\ Range(em[c]) = {}
    BY RangeOfCall
  <1>2. \A d \in Emitters : d # c => em2[d] = em[d] /\ hd2[d] = hd[d]
    OBVIOUS
  <1>3. Range(hd2[c]) = Range(hd[c]) \cup {e}
    <2>1. hd2[c] = Append(hd[c], e) /\ hd[c] \in Seq(Entry)
      OBVIOUS
    <2> QED
      BY <2>1, RangeFacts
  <1> HIDE DEF em2, hd2
  <1>4. e \notin Range(snt) /\ e \notin lst
    BY Zenon DEF Once
  <1>5. \A d \in Emitters : \A x \in Range(hd2[d]) :
           x.source = d /\ x \in Range(em2[d]) \cup Range(snt) \cup lst
    <2> TAKE d \in Emitters
    <2> TAKE x \in Range(hd2[d])
    <2>1. CASE d = c
      <3>1. x = e \/ x \in Range(hd[c])
        BY <2>1, <1>3, Zenon
      <3>2. x \in Range(hd[c]) => x.source = c /\ x \in Range(snt) \cup lst
        BY <1>1, Zenon DEF Once
      <3> QED
        BY <2>1, <3>1, <3>2, <1>1, Zenon
    <2>2. CASE d # c
      BY <2>2, <1>2, Zenon DEF Once
    <2> QED
      BY <2>1, <2>2
  <1>6. \A d \in Emitters : \A x \in Range(em2[d]) :
           x \in Range(hd2[d]) /\ x \notin Range(snt) /\ x \notin lst
    <2> TAKE d \in Emitters
    <2> TAKE x \in Range(em2[d])
    <2>1. CASE d = c
      BY <2>1, <1>1, <1>3, <1>4, Zenon
    <2>2. CASE d # c
      BY <2>2, <1>2, Zenon DEF Once
    <2> QED
      BY <2>1, <2>2
  <1>8. \A x \in Range(snt) \cup lst : x \in Range(hd2[x.source])
    <2> TAKE x \in Range(snt) \cup lst
    <2>1. x \in Range(hd[x.source])
      BY Zenon DEF Once
    <2>2. CASE x.source = c
      BY <2>1, <2>2, <1>3, Zenon
    <2>3. CASE x.source # c
      <3>1. hd2[x.source] = hd[x.source]
        BY <2>3 DEF hd2
      <3> QED
        BY <2>1, <3>1
    <2> QED
      BY <2>2, <2>3
  <1> QED
    BY <1>5, <1>6, <1>8, Zenon DEF Once, em2, hd2

\* The call of emit ends with its entry sent.
LEMMA OnceSend ==
    ASSUME NEW em \in [Emitters -> Seq(Entry)], NEW snt \in Seq(Entry), NEW lst,
           NEW hd, Once(em, snt, lst, hd),
           NEW c \in Emitters, NEW e \in Entry, em[c] = <<e>>
    PROVE  Once([em EXCEPT ![c] = <<>>], Append(snt, e), lst, hd)
  <1> DEFINE em2 == [em EXCEPT ![c] = <<>>]
             snt2 == Append(snt, e)
  <1>1. Range(em2[c]) = {} /\ Range(em[c]) = {e}
    BY RangeOfCall
  <1>2. \A d \in Emitters : d # c => em2[d] = em[d]
    OBVIOUS
  <1>3. Range(snt2) = Range(snt) \cup {e}
    BY RangeFacts
  <1>4. e \notin Range(snt) /\ e \notin lst /\ e \in Range(hd[c]) /\ e.source = c
    BY <1>1, Zenon DEF Once
  <1>5. \A i, j \in 1 .. Len(snt2) : snt2[i] = snt2[j] => i = j
    <2>1. \A i \in 1 .. Len(snt) : snt2[i] = snt[i] /\ snt[i] # e
      BY <1>4, RangeFacts
    <2>2. Len(snt2) = Len(snt) + 1 /\ snt2[Len(snt) + 1] = e /\ Len(snt) \in Nat
      BY AppendProperties
    <2>3. \A i, j \in 1 .. Len(snt) : snt[i] = snt[j] => i = j
      BY Zenon DEF Once
    <2> HIDE DEF snt2
    <2> QED
      BY <2>1, <2>2, <2>3
  <1> HIDE DEF em2, snt2
  <1>6. \A d \in Emitters : \A x \in Range(hd[d]) :
           x.source = d /\ x \in Range(em2[d]) \cup Range(snt2) \cup lst
    BY <1>1, <1>2, <1>3, Zenon DEF Once
  <1>7. \A d \in Emitters : \A x \in Range(em2[d]) :
           x \in Range(hd[d]) /\ x \notin Range(snt2) /\ x \notin lst
    <2> TAKE d \in Emitters
    <2> TAKE x \in Range(em2[d])
    <2>1. d # c /\ x \in Range(em[d])
      BY <1>1, <1>2, Zenon
    <2>2. x \in Range(hd[d]) /\ x.source = d /\ x \notin Range(snt) /\ x \notin lst
      BY <2>1, Zenon DEF Once
    <2> QED
      BY <1>3, <1>4, <2>1, <2>2, Zenon
  <1>8. \A x \in Range(snt2) \cup lst : x \in Range(hd[x.source])
    BY <1>3, <1>4, Zenon DEF Once
  <1>9. \A x \in Range(snt2) : x \notin lst
    BY <1>3, <1>4, Zenon DEF Once
  <1> QED
    BY <1>5, <1>6, <1>7, <1>8, <1>9, Zenon DEF Once, em2, snt2

\* The call of emit ends with its entry given up.
LEMMA OnceDrop ==
    ASSUME NEW em \in [Emitters -> Seq(Entry)], NEW snt, NEW lst,
           NEW hd, Once(em, snt, lst, hd),
           NEW c \in Emitters, NEW e \in Entry, em[c] = <<e>>
    PROVE  /\ Once([em EXCEPT ![c] = <<>>], snt, lst \cup {e}, hd)
           /\ e \notin lst
  <1> DEFINE em2 == [em EXCEPT ![c] = <<>>]
             lst2 == lst \cup {e}
  <1>1. Range(em2[c]) = {} /\ Range(em[c]) = {e}
    BY RangeOfCall
  <1>2. \A d \in Emitters : d # c => em2[d] = em[d]
    OBVIOUS
  <1>4. e \notin Range(snt) /\ e \notin lst /\ e \in Range(hd[c]) /\ e.source = c
    BY <1>1, Zenon DEF Once
  <1> HIDE DEF em2
  <1>6. \A d \in Emitters : \A x \in Range(hd[d]) :
           x.source = d /\ x \in Range(em2[d]) \cup Range(snt) \cup lst2
    BY <1>1, <1>2, Zenon DEF Once
  <1>7. \A d \in Emitters : \A x \in Range(em2[d]) :
           x \in Range(hd[d]) /\ x \notin Range(snt) /\ x \notin lst2
    <2> TAKE d \in Emitters
    <2> TAKE x \in Range(em2[d])
    <2>1. d # c /\ x \in Range(em[d])
      BY <1>1, <1>2, Zenon
    <2>2. x \in Range(hd[d]) /\ x.source = d /\ x \notin Range(snt) /\ x \notin lst
      BY <2>1, Zenon DEF Once
    <2> QED
      BY <1>4, <2>1, <2>2, Zenon
  <1>8. \A x \in Range(snt) \cup lst2 : x \in Range(hd[x.source])
    BY <1>4, Zenon DEF Once
  <1>9. \A x \in Range(snt) : x \notin lst2
    BY <1>4, Zenon DEF Once
  <1>10. \A i, j \in 1 .. Len(snt) : snt[i] = snt[j] => i = j
    BY Zenon DEF Once
  <1> HIDE DEF lst2
  <1> QED
    BY <1>4, <1>6, <1>7, <1>8, <1>9, <1>10, Zenon DEF Once, em2, lst2

-----------------------------------------------------------------------------
(* Every step of emit and of the sink's reader preserves EmitInv.          *)

\* A source calls emit with an entry it has not handed over before.
LEMMA CallEmitKeepsEmitInv ==
    ASSUME EmitInv, NEW c \in Emitters, NEW lines \in Seq(Line), phase[c] = "idle",
           [source |-> c, lines |-> lines] \notin Range(handed[c]),
           CallEmit(c, lines)
    PROVE  EmitInv'
  <1> DEFINE e == [source |-> c, lines |-> lines]
  <1>1. e \in Entry /\ e.source = c
    BY DEF Entry
  <1>2. EntriesOK'
    <2>1. <<e>> \in Seq(Entry)
      BY <1>1
    <2>2. Append(handed[c], e) \in Seq(Entry)
      BY <1>1 DEF EmitInv, EntriesOK
    <2> HIDE DEF e
    <2>3. emitting' \in [Emitters -> Seq(Entry)] /\ handed' \in [Emitters -> Seq(Entry)]
      BY <2>1, <2>2 DEF EmitInv, EntriesOK, CallEmit, e
    <2>4. phase' \in [Emitters -> {"idle", "try", "wait"}]
      BY DEF EmitInv, EntriesOK, CallEmit
    <2>5. UNCHANGED <<sink, receiving, drops, received, lost>>
      BY DEF CallEmit
    <2> QED
      BY <2>3, <2>4, <2>5 DEF EmitInv, EntriesOK
  <1>3. Channel'
    BY DEF EmitInv, Channel, CallEmit
  <1>4. Calls'
    <2> SUFFICES ASSUME NEW d \in Emitters
                 PROVE  /\ phase'[d] = "idle" => emitting'[d] = <<>>
                        /\ phase'[d] # "idle" => emitting'[d] = <<emitting'[d][1]>>
      BY DEF Calls
    <2>1. CASE d = c
      <3>1. emitting'[c] = <<e>> /\ phase'[c] = "try"
        BY DEF CallEmit, EmitInv, EntriesOK
      <3> HIDE DEF e
      <3> QED
        BY <2>1, <3>1
    <2>2. CASE d # c
      BY <2>2 DEF CallEmit, EmitInv, EntriesOK, Calls
    <2> QED
      BY <2>1, <2>2
  <1>5. OnePlace'
    <2>1. emitting[c] = <<>>
      BY DEF EmitInv, Calls
    <2>2. Sent' = Sent /\ lost' = lost
      BY DEF CallEmit, Sent
    <2>3. emitting' = [emitting EXCEPT ![c] = <<e>>]
          /\ handed' = [handed EXCEPT ![c] = Append(@, e)]
      BY DEF CallEmit
    <2>4. e \notin Range(handed[c])
      OBVIOUS
    <2>5. emitting \in [Emitters -> Seq(Entry)] /\ handed \in [Emitters -> Seq(Entry)]
          /\ Once(emitting, Sent, lost, handed)
      BY DEF EmitInv, EntriesOK, OnePlace
    <2> HIDE DEF e
    <2>6. Once([emitting EXCEPT ![c] = <<e>>], Sent, lost,
               [handed EXCEPT ![c] = Append(@, e)])
      BY <1>1, <2>1, <2>4, <2>5, OnceCall
    <2> QED
      BY <2>2, <2>3, <2>6, Zenon DEF OnePlace
  <1> QED
    BY <1>2, <1>3, <1>4, <1>5 DEF EmitInv

\* A running call holds an entry.
LEMMA HeldEntry ==
    ASSUME EmitInv, NEW c \in Emitters, phase[c] # "idle"
    PROVE  \E e \in Entry : emitting[c] = <<e>> /\ e = emitting[c][1]
  <1>1. emitting[c] = <<emitting[c][1]>> /\ emitting[c] \in Seq(Entry)
    BY DEF EmitInv, Calls, EntriesOK
  <1>2. 1 \in 1 .. Len(emitting[c])
    BY <1>1
  <1>3. emitting[c][1] \in Entry
    BY <1>1, <1>2
  <1> QED
    BY <1>1, <1>3, Zenon

\* A call that returns leaves Calls true.
LEMMA ReturnedKeepsCalls ==
    ASSUME EmitInv, NEW c \in Emitters, Returned(c)
    PROVE  /\ Calls'
           /\ emitting' \in [Emitters -> Seq(Entry)]
           /\ phase' \in [Emitters -> {"idle", "try", "wait"}]
           /\ \A d \in Emitters : phase[d] = "idle" => phase'[d] = "idle"
  <1>1. <<>> \in Seq(Entry)
    BY EmptySeq, Zenon
  <1>2. emitting' \in [Emitters -> Seq(Entry)]
    BY <1>1 DEF EmitInv, EntriesOK, Returned
  <1>3. phase' \in [Emitters -> {"idle", "try", "wait"}]
    BY DEF EmitInv, EntriesOK, Returned
  <1>4. \A d \in Emitters : d = c => phase'[d] = "idle" /\ emitting'[d] = <<>>
    BY DEF EmitInv, EntriesOK, Returned
  <1>5. \A d \in Emitters : d # c => phase'[d] = phase[d] /\ emitting'[d] = emitting[d]
    BY DEF EmitInv, EntriesOK, Returned
  <1>6. Calls'
    BY <1>4, <1>5 DEF EmitInv, Calls
  <1> QED
    BY <1>2, <1>3, <1>4, <1>5, <1>6

\* A send, to the waiting reader or into the buffer.
LEMMA SendKeepsEmitInv ==
    ASSUME EmitInv, NEW c \in Emitters, Send(c)
    PROVE  /\ EmitInv' /\ handed' = handed
           /\ \A d \in Emitters : phase[d] = "idle" => phase'[d] = "idle"
  <1>1. phase[c] # "idle" /\ Returned(c) /\ handed' = handed
        /\ lost' = lost /\ drops' = drops /\ receiving' = FALSE
    BY DEF Send
  <1>2. PICK e \in Entry : emitting[c] = <<e>>
    BY <1>1, HeldEntry
  <1>3. sink \in Seq(Entry) /\ received \in Seq(Entry) /\ Sent \in Seq(Entry)
    BY ConcatProperties DEF EmitInv, EntriesOK, Sent
  <1>4. /\ sink' \in Seq(Entry) /\ received' \in Seq(Entry)
        /\ Len(sink') <= SinkCap
        /\ received' \o sink' = Append(received \o sink, e)
    <2>1. CASE receiving
      <3>1. sink = <<>> /\ sink' = sink /\ received' = received \o <<e>>
        BY <1>2, <2>1 DEF Send, EmitInv, Channel
      <3>2. received' = Append(received, e) /\ received' \in Seq(Entry)
        BY <1>3, <3>1, AppendIsConcat, AppendProperties
      <3>3. received \o sink = received /\ received' \o sink' = received'
        BY <1>3, <3>1, <3>2, ConcatEmptySeq
      <3>4. Len(sink') <= SinkCap
        BY <3>1 DEF EmitInv, Channel
      <3> QED
        BY <1>3, <3>1, <3>2, <3>3, <3>4
    <2>2. CASE ~receiving
      <3>1. sink' = sink \o <<e>> /\ received' = received /\ Len(sink) < SinkCap
        BY <1>2, <2>2 DEF Send, CanSend
      <3>2. <<e>> \in Seq(Entry) /\ sink' = Append(sink, e)
        BY <1>3, <3>1, AppendIsConcat
      <3>3. sink' \in Seq(Entry) /\ Len(sink') = Len(sink) + 1
        BY <1>3, <3>2, AppendProperties
      <3>4. Len(sink') <= SinkCap
        BY <1>3, <3>1, <3>3, EmitConstants
      <3>5. received \o (sink \o <<e>>) = (received \o sink) \o <<e>>
        BY <1>3, <3>2, ConcatAssociative
      <3>6. (received \o sink) \o <<e>> = Append(received \o sink, e)
        BY <1>3, AppendIsConcat DEF Sent
      <3> QED
        BY <1>3, <3>1, <3>3, <3>4, <3>5, <3>6, Zenon
    <2> QED
      BY <2>1, <2>2
  <1>5. EntriesOK'
    BY <1>1, <1>4, ReturnedKeepsCalls DEF EmitInv, EntriesOK
  <1>6. Channel'
    BY <1>1, <1>4 DEF Channel
  <1>7. OnePlace'
    <2>1. emitting' = [emitting EXCEPT ![c] = <<>>]
      BY <1>1 DEF Returned
    <2>2. Once([emitting EXCEPT ![c] = <<>>], Append(Sent, e), lost, handed)
      BY <1>2, <1>3, OnceSend DEF EmitInv, EntriesOK, OnePlace
    <2>3. Sent' = Append(Sent, e)
      BY <1>4, Zenon DEF Sent
    <2> QED
      BY <1>1, <2>1, <2>2, <2>3, Zenon DEF OnePlace
  <1> QED
    BY <1>1, <1>5, <1>6, <1>7, ReturnedKeepsCalls DEF EmitInv

\* A call that gives up.
LEMMA GiveUpKeepsEmitInv ==
    ASSUME EmitInv, NEW c \in Emitters, GiveUp(c)
    PROVE  /\ EmitInv' /\ handed' = handed
           /\ \A d \in Emitters : phase[d] = "idle" => phase'[d] = "idle"
  <1>1. phase[c] # "idle" /\ Returned(c) /\ handed' = handed /\ drops' = drops + 1
        /\ lost' = lost \cup Range(emitting[c]) /\ UNCHANGED <<sink, receiving, received>>
    BY DEF GiveUp
  <1>2. PICK e \in Entry : emitting[c] = <<e>>
    BY <1>1, HeldEntry
  <1>3. lost' = lost \cup {e}
    BY <1>1, <1>2, RangeOfCall
  <1>4. Once([emitting EXCEPT ![c] = <<>>], Sent, lost \cup {e}, handed) /\ e \notin lost
    BY <1>2, OnceDrop DEF EmitInv, EntriesOK, OnePlace
  <1>5. EntriesOK'
    <2>1. IsFiniteSet(lost) /\ drops = Cardinality(lost) /\ lost \subseteq Entry
      BY DEF EmitInv, EntriesOK
    <2>2. IsFiniteSet(lost') /\ Cardinality(lost') = Cardinality(lost) + 1
      BY <1>3, <1>4, <2>1, FS_AddElement
    <2>3. drops' = Cardinality(lost')
      BY <1>1, <2>1, <2>2
    <2> QED
      BY <1>1, <1>3, <2>1, <2>2, <2>3, ReturnedKeepsCalls DEF EmitInv, EntriesOK
  <1>6. Channel'
    BY <1>1 DEF EmitInv, Channel
  <1>7. OnePlace'
    <2>1. emitting' = [emitting EXCEPT ![c] = <<>>]
      BY <1>1 DEF Returned
    <2>2. Sent' = Sent
      BY <1>1 DEF Sent
    <2> QED
      BY <1>1, <1>3, <1>4, <2>1, <2>2, Zenon DEF OnePlace
  <1> QED
    BY <1>1, <1>5, <1>6, <1>7, ReturnedKeepsCalls DEF EmitInv

\* The first select finds no room.
LEMMA StartTimerKeepsEmitInv ==
    ASSUME EmitInv, NEW c \in Emitters, StartTimer(c)
    PROVE  /\ EmitInv' /\ handed' = handed
           /\ \A d \in Emitters : phase[d] = "idle" => phase'[d] = "idle"
  <1>1. UNCHANGED <<sink, receiving, emitting, drops, received, lost, handed>>
    BY DEF StartTimer
  <1>2. phase' \in [Emitters -> {"idle", "try", "wait"}]
    BY DEF StartTimer, EmitInv, EntriesOK
  <1>3. \A d \in Emitters : phase[d] = "idle" <=> phase'[d] = "idle"
    BY DEF StartTimer, EmitInv, EntriesOK
  <1>4. EntriesOK' /\ Channel'
    BY <1>1, <1>2 DEF EmitInv, EntriesOK, Channel
  <1>5. Calls'
    BY <1>1, <1>3 DEF EmitInv, Calls
  <1>6. OnePlace'
    BY <1>1 DEF EmitInv, OnePlace, Sent
  <1> QED
    BY <1>1, <1>3, <1>4, <1>5, <1>6 DEF EmitInv

\* The sink's reader takes an entry or begins to wait.
LEMMA ReceiveKeepsEmitInv ==
    ASSUME EmitInv, Receive
    PROVE  EmitInv' /\ handed' = handed /\ phase' = phase
  <1>1. UNCHANGED <<emitting, phase, drops, lost, handed>>
    BY DEF Receive
  <1>2. sink \in Seq(Entry) /\ received \in Seq(Entry) /\ Len(sink) <= SinkCap
    BY DEF EmitInv, EntriesOK, Channel
  <1>3. /\ sink' \in Seq(Entry) /\ received' \in Seq(Entry)
        /\ Len(sink') <= SinkCap
        /\ receiving' \in BOOLEAN
        /\ receiving' => sink' = <<>>
        /\ received' \o sink' = received \o sink
    <2>1. CASE sink = <<>>
      BY <1>2, <2>1 DEF Receive
    <2>2. CASE sink # <<>>
      <3>1. /\ received' = Append(received, Head(sink))
            /\ sink' = Tail(sink)
            /\ receiving' = FALSE
        BY <2>2, Zenon DEF Receive, EmitInv, EntriesOK
      <3>2. Head(sink) \in Entry /\ sink' \in Seq(Entry) /\ Len(sink') = Len(sink) - 1
        BY <1>2, <2>2, <3>1, HeadTailProperties
      <3>3. received' \in Seq(Entry)
        BY <1>2, <3>1, <3>2, AppendProperties
      <3>4. Len(sink') <= SinkCap
        BY <1>2, <3>2, EmitConstants
      <3>5. <<Head(sink)>> \in Seq(Entry) /\ sink = <<Head(sink)>> \o sink'
        <4>1. <<Head(sink)>> \in Seq(Entry)
          BY <3>2
        <4>2. sink = <<Head(sink)>> \o Tail(sink)
          BY <1>2, <2>2
        <4> QED
          BY <4>1, <4>2, <3>1
      <3>6. received' = received \o <<Head(sink)>>
        BY <1>2, <3>1, <3>2, AppendIsConcat
      <3>7. (received \o <<Head(sink)>>) \o sink' = received \o (<<Head(sink)>> \o sink')
        BY <1>2, <3>2, <3>5, ConcatAssociative
      <3> QED
        BY <3>1, <3>2, <3>3, <3>4, <3>5, <3>6, <3>7, Zenon
    <2> QED
      BY <2>1, <2>2
  <1>4. EntriesOK' /\ Channel' /\ Calls'
    BY <1>1, <1>3 DEF EmitInv, EntriesOK, Channel, Calls
  <1>5. Sent' = Sent
    BY <1>3, Zenon DEF Sent
  <1>6. OnePlace'
    BY <1>1, <1>5 DEF EmitInv, OnePlace
  <1> QED
    BY <1>1, <1>4, <1>6 DEF EmitInv

\* A step that does not touch emit.
LEMMA IdleKeepsEmitInv == ASSUME EmitInv, UNCHANGED emitVars PROVE EmitInv'
  BY DEF EmitInv, EntriesOK, Channel, Calls, OnePlace, Sent, emitVars

-----------------------------------------------------------------------------
(* The kernel source.                                                      *)

\* Steps of the others leave the kernel source where it is.
LEMMA OthersKeepKMsgInv ==
    ASSUME KMsgInv, UNCHANGED kmsgVars, handed'[KMsg] = handed[KMsg],
           phase[KMsg] = "idle" => phase'[KMsg] = "idle"
    PROVE  KMsgInv'
  <1>1. kpc' = kpc /\ kret' = kret /\ kpos' = kpos /\ klast' = klast
        /\ kfirst' = kfirst /\ overrun' = overrun
    BY DEF kmsgVars
  <1>2. Growing(handed'[KMsg], kpos')
    BY <1>1, Zenon DEF KMsgInv
  <1>3. kpc' \notin {"start", "done"} =>
           kfirst' <= kpos' /\ Accounted(handed'[KMsg], kfirst', kpos', overrun')
    BY <1>1, Zenon DEF KMsgInv
  <1>4. KMsgTypeOK'
    BY <1>1 DEF KMsgInv, KMsgTypeOK
  <1>5. kpc' # "emit" => phase'[KMsg] = "idle"
    BY <1>1 DEF KMsgInv
  <1> QED
    BY <1>1, <1>2, <1>3, <1>4, <1>5 DEF KMsgInv

\* The steps that hand nothing over.
LEMMA QuietKMsgStep ==
    ASSUME EmitInv, KMsgInv, UNCHANGED emitVars,
           \/ KMsgStart \/ KMsgCheck(done) \/ KMsgOverrun \/ KMsgAgain
           \/ KMsgPoll(done) \/ KMsgEmitted \/ KernelLogs \/ KMsgReadFails
    PROVE  KMsgInv'
  <1>1. handed' = handed /\ phase' = phase
    BY DEF emitVars
  <1>2. /\ kpc \in {"start", "check", "read", "poll", "emit", "done"}
        /\ kret \in {"none", "nil", "err"}
        /\ kpos \in Nat /\ klast \in Nat /\ kfirst \in Nat /\ overrun \subseteq Nat
    BY DEF KMsgInv, KMsgTypeOK
  <1>3. Oldest \in Nat
    BY <1>2, KMsgConstants DEF Oldest
  <1>4. CASE KMsgStart
    <2>1. kpc = "start" /\ handed[KMsg] = <<>> /\ overrun = {} /\ phase[KMsg] = "idle"
          /\ overrun' = overrun /\ klast' = klast
      BY <1>4 DEF KMsgStart, KMsgInv
    <2>2. Growing(handed'[KMsg], kpos')
      BY <1>1, <2>1 DEF Growing
    <2>3. CASE kpc' = "check" /\ kret' = kret /\ kfirst' = kpos' /\ kpos' \in Nat
      <3>1. kfirst' <= kpos'
        BY <2>3
      <3>2. Accounted(handed'[KMsg], kfirst', kpos', overrun')
        BY <1>1, <2>1, <2>3 DEF Accounted
      <3>3. KMsgTypeOK'
        BY <1>2, <2>1, <2>3 DEF KMsgTypeOK
      <3> QED
        BY <1>1, <2>1, <2>2, <2>3, <3>1, <3>2, <3>3 DEF KMsgInv
    <2>4. CASE kpc' = "done" /\ kret' = "err" /\ kfirst' = kfirst /\ kpos' = kpos
      <3>1. KMsgTypeOK'
        BY <1>2, <2>1, <2>4 DEF KMsgTypeOK
      <3> QED
        BY <1>1, <1>2, <2>1, <2>2, <2>4, <3>1 DEF KMsgInv
    <2> QED
      BY <1>2, <1>3, <1>4, <2>3, <2>4 DEF KMsgStart
  <1>5. CASE KMsgOverrun
    <2>1. kpc = "read" /\ kpos < Oldest /\ overrun' = overrun \cup kpos .. Oldest - 1
          /\ kpos' = Oldest /\ kpc' = "check" /\ UNCHANGED <<klast, kret, kfirst>>
      BY <1>5 DEF KMsgOverrun
    <2>2. /\ phase[KMsg] = "idle" /\ kfirst <= kpos
          /\ Growing(handed[KMsg], kpos)
          /\ Accounted(handed[KMsg], kfirst, kpos, overrun)
      BY <2>1 DEF KMsgInv
    <2>3. \A i \in 1 .. Len(handed[KMsg]) :
             Num(handed[KMsg][i]) \in Nat /\ Num(handed[KMsg][i]) < Oldest
      <3> TAKE i \in 1 .. Len(handed[KMsg])
      <3>1. Num(handed[KMsg][i]) \in Nat /\ Num(handed[KMsg][i]) < kpos
        BY <2>2 DEF Growing
      <3> QED
        BY <1>2, <1>3, <2>1, <3>1
    <2>4. Growing(handed'[KMsg], kpos')
      BY <1>1, <2>1, <2>2, <2>3 DEF Growing
    <2>5. Accounted(handed'[KMsg], kfirst', kpos', overrun')
      <3> SUFFICES ASSUME NEW n \in Nat
                   PROVE  (kfirst <= n /\ n < Oldest) <=>
                            \/ \E i \in 1 .. Len(handed[KMsg]) : Num(handed[KMsg][i]) = n
                            \/ n \in overrun'
                            \/ n \in Garbled /\ kfirst <= n /\ n < Oldest
        BY <1>1, <2>1 DEF Accounted
      <3>1. n \in overrun' <=> n \in overrun \/ (kpos <= n /\ n < Oldest)
        BY <1>2, <1>3, <2>1
      <3>2. (kfirst <= n /\ n < kpos) <=>
                \/ \E i \in 1 .. Len(handed[KMsg]) : Num(handed[KMsg][i]) = n
                \/ n \in overrun
                \/ n \in Garbled /\ kfirst <= n /\ n < kpos
        BY <2>2 DEF Accounted
      <3> QED
        BY <1>2, <1>3, <2>1, <2>2, <3>1, <3>2
    <2>6. overrun' \subseteq Nat /\ kfirst' <= kpos'
      BY <1>2, <1>3, <2>1, <2>2
    <2>7. KMsgTypeOK'
      BY <1>2, <1>3, <2>1 DEF KMsgTypeOK
    <2> QED
      BY <1>1, <1>2, <2>1, <2>2, <2>4, <2>5, <2>6, <2>7 DEF KMsgInv
  <1>6. CASE \/ KMsgCheck(done) \/ KMsgAgain \/ KMsgPoll(done)
             \/ KMsgEmitted \/ KernelLogs \/ KMsgReadFails
    <2>1. UNCHANGED <<kpos, kfirst, overrun>>
      BY <1>6 DEF KMsgCheck, KMsgAgain, KMsgPoll, KMsgEmitted, KernelLogs, KMsgReadFails
    <2>2. kpc' \in {kpc, "check", "read", "poll", "done"}
      BY <1>6 DEF KMsgCheck, KMsgAgain, KMsgPoll, KMsgEmitted, KernelLogs, KMsgReadFails
    <2>3. kpc' = kpc \/ kpc \notin {"start", "done"}
      BY <1>6 DEF KMsgCheck, KMsgAgain, KMsgPoll, KMsgEmitted, KernelLogs, KMsgReadFails
    <2>4. kret' \in {"none", "nil", "err"}
      BY <1>2, <1>6
      DEF KMsgCheck, KMsgAgain, KMsgPoll, KMsgEmitted, KernelLogs, KMsgReadFails
    <2>5. klast' \in Nat
      BY <1>2, <1>6
      DEF KMsgCheck, KMsgAgain, KMsgPoll, KMsgEmitted, KernelLogs, KMsgReadFails
    <2>6. kpc' # "emit" => phase'[KMsg] = "idle"
      BY <1>1, <1>6
      DEF KMsgCheck, KMsgAgain, KMsgPoll, KMsgEmitted, KernelLogs, KMsgReadFails, KMsgInv
    <2>7. KMsgTypeOK'
      BY <1>2, <2>1, <2>2, <2>4, <2>5 DEF KMsgTypeOK
    <2>8. Growing(handed'[KMsg], kpos')
      BY <1>1, <2>1 DEF KMsgInv
    <2>9. kpc' \notin {"start", "done"} =>
           kfirst' <= kpos' /\ Accounted(handed'[KMsg], kfirst', kpos', overrun')
      BY <1>1, <2>1, <2>3 DEF KMsgInv
    <2>10. kpc' = "start" => handed'[KMsg] = <<>> /\ overrun' = {}
      BY <1>1, <2>1, <2>2 DEF KMsgInv
    <2> QED
      BY <1>2, <2>1, <2>6, <2>7, <2>8, <2>9, <2>10 DEF KMsgInv
  <1> QED
    BY <1>4, <1>5, <1>6

\* The next record goes to the end of the list.
LEMMA NextRecord ==
    ASSUME NEW h \in Seq(Entry), NEW e \in Entry, NEW n \in Nat, Num(e) = n,
           \A i \in 1 .. Len(h) : Num(h[i]) \in Nat /\ Num(h[i]) < n
    PROVE  /\ e \notin Range(h)
           /\ Growing(h, n) => Growing(Append(h, e), n + 1)
           /\ \A m : (\E i \in 1 .. Len(Append(h, e)) : Num(Append(h, e)[i]) = m)
                        <=> m = n \/ \E i \in 1 .. Len(h) : Num(h[i]) = m
  <1> DEFINE h2 == Append(h, e)
  <1>1. e \notin Range(h)
    <2> SUFFICES ASSUME NEW i \in 1 .. Len(h), e = h[i]
                 PROVE  FALSE
      BY RangeFacts
    <2>1. Num(h[i]) < n /\ Num(h[i]) = n
      OBVIOUS
    <2> QED
      BY <2>1
  <1>2. Len(h2) = Len(h) + 1 /\ Len(h) \in Nat /\ h2[Len(h) + 1] = e
    BY AppendProperties
  <1>3. \A i \in 1 .. Len(h) : h2[i] = h[i]
    BY AppendProperties
  <1> HIDE DEF h2
  <1>4. \A i \in 1 .. Len(h) : Num(h2[i]) = Num(h[i])
    BY <1>3, Zenon
  <1>5. Num(h2[Len(h) + 1]) = n
    BY <1>2, Zenon
  <1>6. ASSUME Growing(h, n)
        PROVE  Growing(h2, n + 1)
    <2>1. \A i, j \in 1 .. Len(h) : i < j => Num(h[i]) < Num(h[j])
      BY <1>6, Zenon DEF Growing
    <2>2. \A i \in 1 .. Len(h2) : Num(h2[i]) \in Nat /\ Num(h2[i]) < n + 1
      <3> TAKE i \in 1 .. Len(h2)
      <3>1. CASE i = Len(h) + 1
        BY <1>5, <3>1
      <3>2. CASE i \in 1 .. Len(h)
        BY <1>4, <3>2
      <3> QED
        BY <1>2, <3>1, <3>2
    <2>3. \A i, j \in 1 .. Len(h2) : i < j => Num(h2[i]) < Num(h2[j])
      <3> SUFFICES ASSUME NEW i \in 1 .. Len(h2), NEW j \in 1 .. Len(h2), i < j
                   PROVE  Num(h2[i]) < Num(h2[j])
        OBVIOUS
      <3>1. i \in 1 .. Len(h)
        BY <1>2
      <3>2. CASE j = Len(h) + 1
        BY <1>4, <1>5, <3>1, <3>2
      <3>3. CASE j \in 1 .. Len(h)
        BY <1>4, <2>1, <3>1, <3>3
      <3> QED
        BY <1>2, <3>2, <3>3
    <2> QED
      BY <2>2, <2>3 DEF Growing
  <1>7. ASSUME NEW m
        PROVE  (\E i \in 1 .. Len(h2) : Num(h2[i]) = m)
                   <=> m = n \/ \E i \in 1 .. Len(h) : Num(h[i]) = m
    <2>1. 1 .. Len(h2) = (1 .. Len(h)) \cup {Len(h) + 1}
      BY <1>2
    <2> QED
      BY <1>4, <1>5, <2>1, Zenon
  <1> QED
    BY <1>1, <1>6, <1>7 DEF h2

\* A record read: the parser refuses it, or it is the next entry.
LEMMA KMsgReadKeepsInv ==
    ASSUME EmitInv, KMsgInv, KMsgRead
    PROVE  /\ EmitInv' /\ KMsgInv'
           /\ \A d \in Emitters : d # KMsg => handed'[d] = handed[d] /\ phase'[d] = phase[d]
  <1>1. /\ kpc = "read" /\ kpos' = kpos + 1
        /\ UNCHANGED <<klast, kret, kfirst, overrun>>
    BY DEF KMsgRead
  <1>2. /\ kpc \in {"start", "check", "read", "poll", "emit", "done"}
        /\ kret \in {"none", "nil", "err"}
        /\ kpos \in Nat /\ klast \in Nat /\ kfirst \in Nat /\ overrun \subseteq Nat
    BY DEF KMsgInv, KMsgTypeOK
  <1>3. /\ phase[KMsg] = "idle" /\ kfirst <= kpos
        /\ Growing(handed[KMsg], kpos)
        /\ Accounted(handed[KMsg], kfirst, kpos, overrun)
    BY <1>1 DEF KMsgInv
  <1>4. handed[KMsg] \in Seq(Entry) /\ KMsg \in Emitters
    BY KMsgConstants DEF EmitInv, EntriesOK
  <1>5. /\ \A i \in 1 .. Len(handed[KMsg]) :
             Num(handed[KMsg][i]) \in Nat /\ Num(handed[KMsg][i]) < kpos
        /\ \A i, j \in 1 .. Len(handed[KMsg]) :
             i < j => Num(handed[KMsg][i]) < Num(handed[KMsg][j])
    BY <1>3 DEF Growing
  <1>6. \A n \in Nat : (kfirst <= n /\ n < kpos) <=>
            \/ \E i \in 1 .. Len(handed[KMsg]) : Num(handed[KMsg][i]) = n
            \/ n \in overrun
            \/ n \in Garbled /\ kfirst <= n /\ n < kpos
    BY <1>3 DEF Accounted
  <1>7. CASE kpos \in Garbled
    <2>1. kpc' = "check" /\ UNCHANGED emitVars
      BY <1>7 DEF KMsgRead
    <2>2. handed' = handed /\ phase' = phase
      BY <2>1 DEF emitVars
    <2>3. Growing(handed[KMsg], kpos + 1)
      BY <1>2, <1>5 DEF Growing
    <2>4. Accounted(handed[KMsg], kfirst, kpos + 1, overrun)
      <3> SUFFICES ASSUME NEW n \in Nat
                   PROVE  (kfirst <= n /\ n < kpos + 1) <=>
                            \/ \E i \in 1 .. Len(handed[KMsg]) : Num(handed[KMsg][i]) = n
                            \/ n \in overrun
                            \/ n \in Garbled /\ kfirst <= n /\ n < kpos + 1
        BY DEF Accounted
      <3> QED
        BY <1>2, <1>3, <1>6, <1>7
    <2>5. KMsgTypeOK'
      BY <1>1, <1>2, <2>1 DEF KMsgTypeOK
    <2>6. Growing(handed'[KMsg], kpos') /\ Accounted(handed'[KMsg], kfirst', kpos', overrun')
      BY <1>1, <2>2, <2>3, <2>4, Zenon
    <2>7. kfirst' <= kpos' /\ kfirst' \in Nat /\ overrun' \subseteq Nat
      BY <1>1, <1>2, <1>3
    <2>8. KMsgInv'
      BY <1>3, <2>1, <2>2, <2>5, <2>6, <2>7 DEF KMsgInv
    <2> QED
      BY <2>1, <2>2, <2>8, IdleKeepsEmitInv
  <1>8. CASE kpos \notin Garbled
    <2> DEFINE lines == <<<<kpos, 1>>>>
               e == [source |-> KMsg, lines |-> lines]
    <2>1. kpc' = "emit" /\ CallEmit(KMsg, lines)
      BY <1>8 DEF KMsgRead
    <2>2. lines \in Seq(Line)
      BY <1>2 DEF Line
    <2>3. Num(e) = kpos
      BY DEF Num
    <2>4. e \in Entry
      BY <1>4, <2>2 DEF Entry
    <2>5. handed' = [handed EXCEPT ![KMsg] = Append(@, e)]
          /\ phase' = [phase EXCEPT ![KMsg] = "try"]
      BY <2>1 DEF CallEmit
    <2> HIDE DEF lines
    <2>6. e \notin Range(handed[KMsg]) => EmitInv'
      BY <1>3, <1>4, <2>1, <2>2, CallEmitKeepsEmitInv
    <2> HIDE DEF e
    <2>7. handed'[KMsg] = Append(handed[KMsg], e)
      BY <1>4, <2>5 DEF EmitInv, EntriesOK
    <2>8. /\ e \notin Range(handed[KMsg])
          /\ Growing(handed'[KMsg], kpos + 1)
          /\ \A m : (\E i \in 1 .. Len(handed'[KMsg]) : Num(handed'[KMsg][i]) = m)
                       <=> m = kpos \/ \E i \in 1 .. Len(handed[KMsg]) : Num(handed[KMsg][i]) = m
      <3> DEFINE h == handed[KMsg]
      <3>1. h \in Seq(Entry) /\ Growing(h, kpos)
            /\ \A i \in 1 .. Len(h) : Num(h[i]) \in Nat /\ Num(h[i]) < kpos
        BY <1>3, <1>4, <1>5
      <3>2. handed'[KMsg] = Append(h, e)
        BY <2>7
      <3> HIDE DEF h
      <3>3. /\ e \notin Range(h)
            /\ Growing(Append(h, e), kpos + 1)
            /\ \A m : (\E i \in 1 .. Len(Append(h, e)) : Num(Append(h, e)[i]) = m)
                         <=> m = kpos \/ \E i \in 1 .. Len(h) : Num(h[i]) = m
        BY <1>2, <2>3, <2>4, <3>1, NextRecord
      <3> QED
        BY <3>2, <3>3, Zenon DEF h
    <2>9. Accounted(handed'[KMsg], kfirst, kpos + 1, overrun)
      <3> SUFFICES ASSUME NEW n \in Nat
                   PROVE  (kfirst <= n /\ n < kpos + 1) <=>
                            \/ \E i \in 1 .. Len(handed'[KMsg]) : Num(handed'[KMsg][i]) = n
                            \/ n \in overrun
                            \/ n \in Garbled /\ kfirst <= n /\ n < kpos + 1
        BY Zenon DEF Accounted
      <3>1. (\E i \in 1 .. Len(handed'[KMsg]) : Num(handed'[KMsg][i]) = n)
               <=> n = kpos \/ \E i \in 1 .. Len(handed[KMsg]) : Num(handed[KMsg][i]) = n
        BY <2>8, Zenon
      <3> QED
        BY <1>2, <1>3, <1>6, <3>1
    <2>10. KMsgTypeOK'
      BY <1>1, <1>2, <2>1 DEF KMsgTypeOK
    <2>11. Growing(handed'[KMsg], kpos') /\ Accounted(handed'[KMsg], kfirst', kpos', overrun')
      BY <1>1, <2>8, <2>9, Zenon
    <2>12. kfirst' <= kpos' /\ kfirst' \in Nat /\ overrun' \subseteq Nat
      BY <1>1, <1>2, <1>3
    <2>13. KMsgInv'
      BY <2>1, <2>10, <2>11, <2>12 DEF KMsgInv
    <2>14. \A d \in Emitters : d # KMsg => handed'[d] = handed[d] /\ phase'[d] = phase[d]
      BY <2>5 DEF EmitInv, EntriesOK
    <2> QED
      BY <2>6, <2>8, <2>13, <2>14
  <1> QED
    BY <1>7, <1>8

-----------------------------------------------------------------------------
(* The journal source.                                                     *)

\* The lines of the export, record by record.
LEMMA LinesOfRecord ==
    ASSUME NEW q \in Nat
    PROVE  /\ LineAt(3 * q + 1) = <<q + 1, 1>>
           /\ LineAt(3 * q + 2) = <<q + 1, 2>>
           /\ LineAt(3 * q + 3) = <<q + 1, Blank>>
  <1>1. (3 * q + 1) % 3 = 1 /\ (3 * q + 1) \div 3 = q
    OBVIOUS
  <1>2. (3 * q + 2) % 3 = 2 /\ (3 * q + 2) \div 3 = q
    OBVIOUS
  <1>3. (3 * q + 3) % 3 = 0 /\ (3 * q + 3) \div 3 = q + 1
    OBVIOUS
  <1> QED
    BY <1>1, <1>2, <1>3 DEF LineAt

\* What a record looks like when r of its lines are read.
LEMMA CollectedFacts ==
    ASSUME NEW q \in Nat
    PROVE  /\ Collected(q, 0) = <<>>
           /\ Collected(q, 1) = <<<<q + 1, 1>>>>
           /\ Collected(q, 2) = <<<<q + 1, 1>>, <<q + 1, 2>>>>
           /\ \A r \in 0 .. 2 : Collected(q, r) \in Seq(Line)
           /\ \A r \in 1 .. 2 : Collected(q, r) # <<>> /\ Collected(q, r)[1][1] = q + 1
  <1>1. Collected(q, 0) = <<>> /\ Collected(q, 1) = <<<<q + 1, 1>>>>
        /\ Collected(q, 2) = <<<<q + 1, 1>>, <<q + 1, 2>>>>
    BY DEF Collected
  <1>2. <<q + 1, 1>> \in Line /\ <<q + 1, 2>> \in Line
    BY DEF Line
  <1>3. <<>> \in Seq(Line) /\ <<<<q + 1, 1>>>> \in Seq(Line)
        /\ <<<<q + 1, 1>>, <<q + 1, 2>>>> \in Seq(Line)
    BY <1>2
  <1>4. \A r \in 0 .. 2 : r = 0 \/ r = 1 \/ r = 2
    OBVIOUS
  <1>5. \A r \in 1 .. 2 : r = 1 \/ r = 2
    OBVIOUS
  <1>6. \A r \in 0 .. 2 : Collected(q, r) \in Seq(Line)
    BY <1>1, <1>3, <1>4, Zenon
  <1>7. <<<<q + 1, 1>>>> # <<>> /\ <<<<q + 1, 1>>>>[1][1] = q + 1
        /\ <<<<q + 1, 1>>, <<q + 1, 2>>>> # <<>>
        /\ <<<<q + 1, 1>>, <<q + 1, 2>>>>[1][1] = q + 1
    OBVIOUS
  <1>8. \A r \in 1 .. 2 : Collected(q, r) # <<>> /\ Collected(q, r)[1][1] = q + 1
    BY <1>1, <1>5, <1>7, Zenon
  <1> QED
    BY <1>1, <1>6, <1>8

\* An entry that was whole, or cut, stays so when more entries may be cut.
LEMMA CutGrows ==
    ASSUME NEW h, NEW i, NEW a, NEW b, WholeOrCut(h, i, a), a => b
    PROVE  WholeOrCut(h, i, b)
  BY Zenon DEF WholeOrCut

\* The parts of JournalInv.
LEMMA JournalParts ==
    ASSUME JournalInv
    PROVE  /\ jpc \in {"start", "check", "read", "emit", "last", "wait", "done"}
           /\ child \in {"none", "runs", "ok", "failed"}
           /\ wrote \in Nat /\ wrote <= Total /\ Total \in Nat
           /\ jret \in {"none", "nil", "err", "readErr"}
           /\ done \in BOOLEAN
           /\ pipe \in Seq(Line) /\ buf \in Seq(Line)
  <1>1. Total \in Nat
    BY JournalConstants DEF Total
  <1> QED
    BY <1>1 DEF JournalInv, JournalTypeOK

\* Steps of the others, and the cancellation, leave the journal source as it is.
LEMMA OthersKeepJournalInv ==
    ASSUME JournalInv, UNCHANGED journalVars, handed'[Journal] = handed[Journal],
           phase[Journal] = "idle" => phase'[Journal] = "idle",
           done' \in BOOLEAN, done => done'
    PROVE  JournalInv'
  <1>1. jpc' = jpc /\ buf' = buf /\ pipe' = pipe /\ child' = child
        /\ wrote' = wrote /\ jret' = jret
    BY DEF journalVars
  <1>2. JournalTypeOK' /\ pipe' \in Seq(Line) /\ buf' \in Seq(Line) /\ (AtEnd' <=> AtEnd)
    BY <1>1 DEF JournalInv, JournalTypeOK, AtEnd
  <1>3. PICK q \in Nat, r \in 0 .. 2 : Progress(q, r)
    BY DEF JournalInv
  <1>4. Progress(q, r)'
    <2>1. ReadSoFar(q, r, wrote', pipe', buf')
      BY <1>1, <1>3, Zenon DEF Progress
    <2>2. ~AtEnd' => HandedUpTo(handed'[Journal], q)
      BY <1>2, <1>3, Zenon DEF Progress
    <2>3. AtEnd' /\ ~done' /\ jret' # "readErr" =>
             pipe' = <<>> /\ HandedUpTo(handed'[Journal], IF r = 0 THEN q ELSE q + 1)
      BY <1>1, <1>2, <1>3, Zenon DEF Progress
    <2> QED
      BY <2>1, <2>2, <2>3, Zenon DEF Progress
  <1>5. \A i \in 1 .. Len(handed'[Journal]) :
           /\ WholeOrCut(handed'[Journal], i, child' = "failed" /\ AtEnd')
           /\ Num(handed'[Journal][i]) \in Taken
    BY <1>1, <1>2, CutGrows, Zenon DEF JournalInv
  <1>6. /\ jpc' \notin {"emit", "last"} => phase'[Journal] = "idle"
        /\ jpc' = "start" => child' = "none"
        /\ child' = "none" => jpc' \in {"start", "done"} /\ wrote' = 0
        /\ child' = "ok" => wrote' = Total
        /\ AtEnd' /\ child' = "runs" => done'
        /\ jret' = "readErr" => jpc' = "done"
    BY <1>1, <1>2, Zenon DEF JournalInv, Total
  <1>7. \E a \in Nat, b \in 0 .. 2 : Progress(a, b)'
    BY <1>4
  <1> QED
    BY <1>2, <1>5, <1>6, <1>7, Zenon DEF JournalInv

\* The steps of the journal source and its child that hand nothing over.
LEMMA QuietJournalStep ==
    ASSUME EmitInv, JournalInv, UNCHANGED emitVars,
           \/ JournalStart \/ ChildWrites \/ ChildEnds \/ ChildKilled \/ JournalCheck
           \/ JournalEmitted \/ JournalWait \/ JournalReadFails
    PROVE  JournalInv'
  <1> USE DEF JournalStart, ChildWrites, ChildEnds, ChildKilled, JournalCheck,
              JournalEmitted, JournalWait, JournalReadFails
  <1>1. handed' = handed /\ phase' = phase
    BY DEF emitVars
  <1>2. done' = done /\ buf' = buf
    OBVIOUS
  <1>3. PICK q \in Nat, r \in 0 .. 2 : Progress(q, r)
    BY DEF JournalInv
  <1>4. /\ ReadSoFar(q, r, wrote, pipe, buf)
        /\ ~AtEnd => HandedUpTo(handed[Journal], q)
        /\ AtEnd /\ ~done /\ jret # "readErr" =>
             pipe = <<>> /\ HandedUpTo(handed[Journal], IF r = 0 THEN q ELSE q + 1)
    BY <1>3, Zenon DEF Progress
  <1>5. wrote = 3 * q + r + Len(pipe) /\ Len(pipe) \in Nat
    BY <1>4, JournalParts DEF ReadSoFar
  <1>6. /\ jpc' \in {"start", "check", "read", "emit", "last", "wait", "done"}
        /\ child' \in {"none", "runs", "ok", "failed"}
        /\ jret' \in {"none", "nil", "err", "readErr"}
    BY JournalParts
  <1>7. wrote' \in 0 .. Total
    BY JournalParts
  <1>8. (pipe' = pipe /\ wrote' = wrote) \/ ChildWrites
    OBVIOUS
  <1>9. ChildWrites => LineAt(wrote + 1) \in Line
    BY JournalParts DEF LineAt, Line, Blank
  <1>10. pipe' \in Seq(Line) /\ buf' \in Seq(Line)
    BY <1>2, <1>8, <1>9, JournalParts, AppendProperties
  <1>11. AtEnd => AtEnd'
    BY DEF AtEnd
  <1>12. child = "failed" => child' = "failed"
    BY DEF JournalInv
  <1>13. \A i \in 1 .. Len(handed'[Journal]) :
           /\ WholeOrCut(handed'[Journal], i, child' = "failed" /\ AtEnd')
           /\ Num(handed'[Journal][i]) \in Taken
    BY <1>1, <1>11, <1>12, CutGrows, Zenon DEF JournalInv
  <1>14. ReadSoFar(q, r, wrote', pipe', buf')
    <2>1. CASE ChildWrites
      <3>1. pipe' = Append(pipe, LineAt(wrote + 1)) /\ wrote' = wrote + 1
        BY <2>1
      <3>2. Len(pipe') = Len(pipe) + 1
            /\ (\A k \in 1 .. Len(pipe) : pipe'[k] = pipe[k])
            /\ pipe'[Len(pipe) + 1] = LineAt(wrote + 1)
        BY <1>9, <2>1, <3>1, JournalParts, AppendProperties
      <3>3. wrote' = 3 * q + r + Len(pipe')
        BY <1>5, <3>1, <3>2
      <3>4. ASSUME NEW k \in 1 .. Len(pipe')
            PROVE  pipe'[k] = LineAt(3 * q + r + k)
        <4>1. CASE k = Len(pipe) + 1
          <5>1. wrote + 1 = 3 * q + r + k
            BY <1>5, <4>1
          <5> QED
            BY <3>2, <4>1, <5>1
        <4>2. CASE k \in 1 .. Len(pipe)
          BY <1>4, <3>2, <4>2 DEF ReadSoFar
        <4> QED
          BY <1>5, <3>2, <4>1, <4>2
      <3> QED
        BY <1>2, <1>4, <3>3, <3>4 DEF ReadSoFar
    <2>2. CASE pipe' = pipe /\ wrote' = wrote
      BY <1>2, <1>4, <2>2
    <2> QED
      BY <1>8, <2>1, <2>2
  <1>15. ~AtEnd' => HandedUpTo(handed'[Journal], q)
    BY <1>1, <1>4, <1>11, Zenon
  <1>16. AtEnd' /\ ~done' /\ jret' # "readErr" =>
            pipe' = <<>> /\ HandedUpTo(handed'[Journal], IF r = 0 THEN q ELSE q + 1)
    <2> SUFFICES ASSUME AtEnd', ~done', jret' # "readErr"
                 PROVE  pipe' = <<>> /\ HandedUpTo(handed'[Journal], IF r = 0 THEN q ELSE q + 1)
      BY Zenon
    <2>1. CASE AtEnd
      <3>1. jret # "readErr"
        BY <2>1 DEF JournalInv, AtEnd
      <3>2. ~ChildWrites
        BY <2>1, <1>2 DEF JournalInv
      <3> QED
        BY <1>1, <1>2, <1>4, <1>8, <2>1, <3>1, <3>2, Zenon
    <2>2. CASE ~AtEnd
      <3>1. jpc = "start" /\ pipe' = pipe
        BY <2>2, <1>2, JournalParts DEF AtEnd
      <3>2. wrote = 0
        BY <3>1 DEF JournalInv
      <3>3. r = 0 /\ Len(pipe) = 0
        BY <1>5, <3>2
      <3>4. pipe = <<>>
        BY <3>3, JournalParts
      <3> QED
        BY <1>1, <1>4, <2>2, <3>1, <3>3, <3>4, Zenon
    <2> QED
      BY <2>1, <2>2
  <1>17. Progress(q, r)'
    BY <1>14, <1>15, <1>16, Zenon DEF Progress
  <1>18. /\ jpc' \notin {"emit", "last"} => phase'[Journal] = "idle"
         /\ jpc' = "start" => child' = "none"
    BY <1>1 DEF JournalInv
  <1>19. /\ child' = "none" => jpc' \in {"start", "done"} /\ wrote' = 0
         /\ jret' = "readErr" => jpc' = "done"
    BY DEF JournalInv
  <1>20. child' = "ok" => wrote' = Total'
    BY DEF JournalInv, Total
  <1>21. AtEnd' /\ child' = "runs" => done'
    BY DEF JournalInv, AtEnd
  <1>22. JournalTypeOK'
    BY <1>6, <1>7 DEF JournalTypeOK, Total
  <1>23. \E a \in Nat, b \in 0 .. 2 : Progress(a, b)'
    BY <1>17
  <1>24. done' \in BOOLEAN
    BY <1>2, JournalParts
  <1> HIDE DEF JournalStart, ChildWrites, ChildEnds, ChildKilled, JournalCheck,
              JournalEmitted, JournalWait, JournalReadFails
  <1> QED
    BY <1>10, <1>13, <1>18, <1>19, <1>20, <1>21, <1>22, <1>23, <1>24, Zenon DEF JournalInv

\* Part q + 1 goes to the end of the list, unless the parser refuses it.
LEMMA HandedNext ==
    ASSUME NEW h \in Seq(Entry), NEW q \in Nat, HandedUpTo(h, q)
    PROVE  /\ q + 1 \in Refused => HandedUpTo(h, q + 1)
           /\ \A e \in Entry : Num(e) = q + 1 =>
                  e \notin Range(h) /\ HandedUpTo(Append(h, e), q + 1)
  <1>1. \A i \in 1 .. Len(h) : Num(h[i]) \in 1 .. q
    BY DEF HandedUpTo
  <1>2. \A m \in (1 .. q) \ Refused : \E i \in 1 .. Len(h) : Num(h[i]) = m
    BY DEF HandedUpTo
  <1>3. 1 .. q + 1 = (1 .. q) \cup {q + 1} /\ q + 1 \in Nat
    OBVIOUS
  <1>4. ASSUME q + 1 \in Refused
        PROVE  HandedUpTo(h, q + 1)
    BY <1>1, <1>2, <1>3, <1>4, Zenon DEF HandedUpTo
  <1>5. ASSUME NEW e \in Entry, Num(e) = q + 1
        PROVE  e \notin Range(h) /\ HandedUpTo(Append(h, e), q + 1)
    <2> DEFINE h2 == Append(h, e)
    <2>1. \A i \in 1 .. Len(h) : Num(h[i]) \in Nat /\ Num(h[i]) < q + 1
      BY <1>1
    <2>2. /\ e \notin Range(h)
          /\ \A m : (\E i \in 1 .. Len(h2) : Num(h2[i]) = m)
                       <=> m = q + 1 \/ \E i \in 1 .. Len(h) : Num(h[i]) = m
      BY <1>3, <1>5, <2>1, NextRecord
    <2> HIDE DEF h2
    <2>3. \A i \in 1 .. Len(h2) : Num(h2[i]) \in 1 .. q + 1
      <3> TAKE i \in 1 .. Len(h2)
      <3>1. Num(h2[i]) = q + 1 \/ \E j \in 1 .. Len(h) : Num(h[j]) = Num(h2[i])
        BY <2>2, Zenon
      <3>2. Num(h2[i]) = q + 1 \/ Num(h2[i]) \in 1 .. q
        BY <1>1, <3>1, Zenon
      <3> QED
        BY <1>3, <3>2, Zenon
    <2>4. \A m \in (1 .. q + 1) \ Refused : \E i \in 1 .. Len(h2) : Num(h2[i]) = m
      <3> TAKE m \in (1 .. q + 1) \ Refused
      <3>1. m = q + 1 \/ m \in (1 .. q) \ Refused
        BY <1>3, Zenon
      <3>2. m = q + 1 \/ \E i \in 1 .. Len(h) : Num(h[i]) = m
        BY <1>2, <3>1, Zenon
      <3> QED
        BY <2>2, <3>2, Zenon
    <2> QED
      BY <2>2, <2>3, <2>4 DEF HandedUpTo, h2
  <1> QED
    BY <1>4, <1>5

\* emitRecord: the part q + 1, of which r lines were collected.
LEMMA EmitRecordFacts ==
    ASSUME EmitInv, NEW q \in Nat, NEW r \in 1 .. 2, NEW after, NEW meanwhile,
           EmitRecord(Collected(q, r), after, meanwhile), q + 1 \in 1 .. MaxParts,
           phase[Journal] = "idle", HandedUpTo(handed[Journal], q),
           \A i \in 1 .. Len(handed[Journal]) :
               WholeOrCut(handed[Journal], i, FALSE) /\ Num(handed[Journal][i]) \in Taken
    PROVE  /\ EmitInv'
           /\ \/ jpc' = after /\ phase'[Journal] = "idle"
              \/ jpc' = meanwhile
           /\ HandedUpTo(handed'[Journal], q + 1)
           /\ \A i \in 1 .. Len(handed'[Journal]) :
                WholeOrCut(handed'[Journal], i, r = 1) /\ Num(handed'[Journal][i]) \in Taken
           /\ \A d \in Emitters : d # Journal => handed'[d] = handed[d] /\ phase'[d] = phase[d]
  <1> DEFINE rec == Collected(q, r)
             e == [source |-> Journal, lines |-> rec]
             h == handed[Journal]
  <1>1. rec \in Seq(Line) /\ rec[1][1] = q + 1
    BY CollectedFacts
  <1>2. Journal \in Emitters /\ h \in Seq(Entry)
    BY JournalConstants DEF EmitInv, EntriesOK
  <1>3. CASE q + 1 \in Refused
    <2>1. jpc' = after /\ UNCHANGED emitVars
      BY <1>1, <1>3 DEF EmitRecord
    <2>2. handed' = handed /\ phase' = phase
      BY <2>1 DEF emitVars
    <2>3. HandedUpTo(handed'[Journal], q + 1)
      BY <1>2, <1>3, <2>2, HandedNext
    <2>4. \A i \in 1 .. Len(handed'[Journal]) :
             WholeOrCut(handed'[Journal], i, r = 1) /\ Num(handed'[Journal][i]) \in Taken
      BY <2>2, CutGrows, Zenon
    <2> QED
      BY <2>1, <2>2, <2>3, <2>4, IdleKeepsEmitInv
  <1>4. CASE q + 1 \notin Refused
    <2>1. jpc' = meanwhile /\ CallEmit(Journal, rec)
      BY <1>1, <1>4 DEF EmitRecord
    <2>2. handed' = [handed EXCEPT ![Journal] = Append(@, e)]
          /\ phase' = [phase EXCEPT ![Journal] = "try"]
      BY <2>1 DEF CallEmit
    <2>3. e \in Entry /\ e.lines = rec
      BY <1>1, <1>2 DEF Entry
    <2>4. Num(e) = q + 1
      BY <1>1, <2>3 DEF Num
    <2>5. e \notin Range(h) => EmitInv'
      BY <1>1, <1>2, <2>1, CallEmitKeepsEmitInv
    <2>6. h2:: handed'[Journal] = Append(h, e)
      BY <1>2, <2>2 DEF EmitInv, EntriesOK
    <2>7. \A d \in Emitters : d # Journal => handed'[d] = handed[d] /\ phase'[d] = phase[d]
      BY <2>2 DEF EmitInv, EntriesOK
    <2> HIDE DEF e
    <2>8. e \notin Range(h) /\ HandedUpTo(Append(h, e), q + 1)
      BY <1>2, <2>3, <2>4, HandedNext
    <2>9. \A i \in 1 .. Len(Append(h, e)) :
             WholeOrCut(Append(h, e), i, r = 1) /\ Num(Append(h, e)[i]) \in Taken
      <3> DEFINE g == Append(h, e)
      <3>1. Len(g) = Len(h) + 1 /\ Len(h) \in Nat /\ g[Len(h) + 1] = e
            /\ \A i \in 1 .. Len(h) : g[i] = h[i]
        BY <1>2, <2>3, AppendProperties
      <3> SUFFICES ASSUME NEW i \in 1 .. Len(g)
                   PROVE  WholeOrCut(g, i, r = 1) /\ Num(g[i]) \in Taken
        OBVIOUS
      <3> HIDE DEF g
      <3>2. CASE i \in 1 .. Len(h)
        <4>1. WholeOrCut(h, i, FALSE) /\ Num(h[i]) \in Taken /\ g[i] = h[i]
          BY <3>1, <3>2
        <4> QED
          BY <4>1, Zenon DEF WholeOrCut
      <3>3. CASE i = Len(h) + 1
        <4>1. g[i] = e /\ Num(g[i]) = q + 1 /\ i = Len(g)
          BY <2>4, <3>1, <3>3
        <4>2. r = 1 \/ r = 2
          OBVIOUS
        <4>3. CASE r = 1
          <5>1. e.lines = <<<<q + 1, 1>>>>
            BY <2>3, <4>3, CollectedFacts
          <5> QED
            BY <1>4, <4>1, <4>3, <5>1, Zenon DEF WholeOrCut, Taken
        <4>4. CASE r = 2
          <5>1. e.lines = <<<<q + 1, 1>>, <<q + 1, 2>>>>
            BY <2>3, <4>4, CollectedFacts
          <5> QED
            BY <1>4, <4>1, <5>1, Zenon DEF WholeOrCut, Taken
        <4> QED
          BY <4>2, <4>3, <4>4
      <3> QED
        BY <3>1, <3>2, <3>3
    <2> HIDE DEF h
    <2> QED
      BY <2>1, <2>5, <2>6, <2>7, <2>8, <2>9, Zenon
  <1> QED
    BY <1>3, <1>4

\* A part grows line by line.
LEMMA AppendOne == \A x, y : Append(<<>>, x) = <<x>> /\ Append(<<x>>, y) = <<x, y>>
  <1> TAKE x, y
  <1> DEFINE S == {x, y}
  <1>1. <<>> \in Seq(S) /\ <<x>> \in Seq(S) /\ <<x, y>> \in Seq(S) /\ x \in S /\ y \in S
    OBVIOUS
  <1>2. Append(<<>>, x) = <<x>>
    <2>1. Append(<<>>, x) = <<>> \o <<x>>
      BY <1>1, AppendIsConcat
    <2> QED
      BY <1>1, <2>1, ConcatEmptySeq
  <1>3. Append(<<x>>, y) = <<x, y>>
    <2> DEFINE s == Append(<<x>>, y)
    <2>1. s \in Seq(S) /\ Len(s) = 2 /\ s[1] = x /\ s[2] = y
      BY <1>1, AppendProperties
    <2>2. Len(<<x, y>>) = 2 /\ <<x, y>>[1] = x /\ <<x, y>>[2] = y
      OBVIOUS
    <2> HIDE DEF s
    <2>3. \A i \in 1 .. 2 : s[i] = <<x, y>>[i]
      BY <2>1, <2>2
    <2> QED
      BY <1>1, <2>1, <2>2, <2>3, SeqEqual DEF s
  <1> QED
    BY <1>2, <1>3

\* Before the end of the output every entry is whole.
LEMMA WholeBeforeEnd ==
    ASSUME JournalInv, ~AtEnd
    PROVE  \A i \in 1 .. Len(handed[Journal]) :
               WholeOrCut(handed[Journal], i, FALSE) /\ Num(handed[Journal][i]) \in Taken
  BY CutGrows, Zenon DEF JournalInv

\* A line read: it is collected, or the blank one ends the part.
LEMMA JournalReadKeepsInv ==
    ASSUME EmitInv, JournalInv, JournalRead
    PROVE  /\ EmitInv' /\ JournalInv'
           /\ \A d \in Emitters : d # Journal => handed'[d] = handed[d] /\ phase'[d] = phase[d]
  <1>1. /\ jpc = "read" /\ pipe # <<>> /\ pipe' = Tail(pipe)
        /\ UNCHANGED <<child, wrote, jret, done>>
    BY DEF JournalRead
  <1>2. ~AtEnd /\ phase[Journal] = "idle" /\ child # "none"
    BY <1>1 DEF AtEnd, JournalInv
  <1>3. PICK q \in Nat, r \in 0 .. 2 : Progress(q, r)
    BY DEF JournalInv
  <1>4. ReadSoFar(q, r, wrote, pipe, buf) /\ HandedUpTo(handed[Journal], q)
    BY <1>2, <1>3, Zenon DEF Progress
  <1>5. /\ pipe' \in Seq(Line) /\ Len(pipe') = Len(pipe) - 1 /\ Len(pipe) \in Nat
        /\ \A k \in 1 .. Len(pipe') : pipe'[k] = pipe[k + 1]
        /\ Head(pipe) = pipe[1] /\ 1 \in 1 .. Len(pipe)
    <2>1. pipe \in Seq(Line)
      BY JournalParts
    <2> QED
      BY <1>1, <2>1, HeadTailProperties
  <1>6. /\ wrote = 3 * q + r + Len(pipe) /\ buf = Collected(q, r)
        /\ \A k \in 1 .. Len(pipe) : pipe[k] = LineAt(3 * q + r + k)
    BY <1>4 DEF ReadSoFar
  <1>7. Head(pipe) = LineAt(3 * q + r + 1)
    BY <1>5, <1>6
  \* where the source is afterwards, from a and b
  <1>8. ASSUME NEW a \in Nat, NEW b \in 0 .. 2, 3 * a + b = 3 * q + r + 1,
               buf' = Collected(a, b), HandedUpTo(handed'[Journal], a),
               EmitInv', jpc' \in {"check", "emit"},
               jpc' = "check" => phase'[Journal] = "idle",
               \A i \in 1 .. Len(handed'[Journal]) :
                 WholeOrCut(handed'[Journal], i, FALSE) /\ Num(handed'[Journal][i]) \in Taken
        PROVE  JournalInv'
    <2>1. wrote' = 3 * a + b + Len(pipe')
      <3>1. wrote = 3 * a + b + (Len(pipe) - 1)
        <4>1. 3 * a + b = 3 * q + r + 1
          BY <1>8
        <4>2. Len(pipe) \in Nat /\ wrote = 3 * q + r + Len(pipe)
          BY <1>5, <1>6
        <4> QED
          BY <4>1, <4>2
      <3> QED
        BY <1>1, <1>5, <3>1, Zenon
    <2>2. ASSUME NEW k \in 1 .. Len(pipe')
          PROVE  pipe'[k] = LineAt(3 * a + b + k)
      <3>1. k + 1 \in 1 .. Len(pipe) /\ 3 * q + r + (k + 1) = 3 * a + b + k
        BY <1>5, <1>8
      <3>2. pipe'[k] = pipe[k + 1]
        BY <1>5
      <3>3. pipe[k + 1] = LineAt(3 * q + r + (k + 1))
        BY <1>6, <3>1
      <3> QED
        BY <3>1, <3>2, <3>3
    <2>3. ReadSoFar(a, b, wrote', pipe', buf')
      BY <1>8, <2>1, <2>2 DEF ReadSoFar
    <2>4. ~AtEnd'
      BY <1>8 DEF AtEnd
    <2>5. Progress(a, b)'
      BY <1>8, <2>3, <2>4, Zenon DEF Progress
    <2>6. \E x \in Nat, y \in 0 .. 2 : Progress(x, y)'
      BY <2>5
    <2>7. \A i \in 1 .. Len(handed'[Journal]) :
             /\ WholeOrCut(handed'[Journal], i, child' = "failed" /\ AtEnd')
             /\ Num(handed'[Journal][i]) \in Taken
      BY <1>8, CutGrows, Zenon
    <2>8. buf' \in Seq(Line)
      BY <1>8, CollectedFacts
    <2>9. JournalTypeOK'
      BY <1>1, <1>8 DEF JournalInv, JournalTypeOK, Total
    <2>10. /\ jpc' \notin {"emit", "last"} => phase'[Journal] = "idle"
           /\ jpc' = "start" => child' = "none"
           /\ child' = "none" => jpc' \in {"start", "done"} /\ wrote' = 0
           /\ jret' = "readErr" => jpc' = "done"
      BY <1>1, <1>2, <1>8 DEF JournalInv
    <2>11. /\ child' = "ok" => wrote' = Total
           /\ AtEnd' /\ child' = "runs" => done'
           /\ done' \in BOOLEAN
      BY <1>1, <2>4 DEF JournalInv
    <2> QED
      BY <1>5, <2>6, <2>7, <2>8, <2>9, <2>10, <2>11, Zenon DEF JournalInv, Total
  <1>9. \A i \in 1 .. Len(handed[Journal]) :
           WholeOrCut(handed[Journal], i, FALSE) /\ Num(handed[Journal][i]) \in Taken
    BY <1>2, WholeBeforeEnd
  <1>10. CASE r \in 0 .. 1
    <2>1. (r = 0 => Head(pipe) = <<q + 1, 1>>) /\ (r = 1 => Head(pipe) = <<q + 1, 2>>)
      BY <1>7, LinesOfRecord
    <2>2. (r = 0 \/ r = 1) /\ Head(pipe)[2] # Blank
      BY <1>10, <2>1 DEF Blank
    <2>3. buf' = Append(buf, Head(pipe)) /\ jpc' = "check" /\ UNCHANGED emitVars
      BY <2>2 DEF JournalRead
    <2>4. handed' = handed /\ phase' = phase
      BY <2>3 DEF emitVars
    <2>5. buf' = Collected(q, r + 1)
      <3>1. /\ Append(<<>>, <<q + 1, 1>>) = <<<<q + 1, 1>>>>
            /\ Append(<<<<q + 1, 1>>>>, <<q + 1, 2>>) = <<<<q + 1, 1>>, <<q + 1, 2>>>>
        BY AppendOne, Zenon
      <3>2. CASE r = 0
        <4>1. buf = <<>>
          BY <1>6, <3>2, CollectedFacts, Zenon
        <4>2. buf' = <<<<q + 1, 1>>>>
          BY <2>1, <2>3, <3>1, <3>2, <4>1, Zenon
        <4>3. r + 1 = 1
          BY <3>2
        <4> QED
          BY <4>2, <4>3, CollectedFacts, Zenon
      <3>3. CASE r = 1
        <4>1. buf = <<<<q + 1, 1>>>>
          BY <1>6, <3>3, CollectedFacts, Zenon
        <4>2. buf' = <<<<q + 1, 1>>, <<q + 1, 2>>>>
          BY <2>1, <2>3, <3>1, <3>3, <4>1, Zenon
        <4>3. r + 1 = 2
          BY <3>3
        <4> QED
          BY <4>2, <4>3, CollectedFacts, Zenon
      <3> QED
        BY <2>2, <3>2, <3>3
    <2>6. r + 1 \in 0 .. 2 /\ 3 * q + (r + 1) = 3 * q + r + 1
      BY <1>10
    <2>7. EmitInv'
      BY <2>3, IdleKeepsEmitInv
    <2>8. HandedUpTo(handed'[Journal], q)
      BY <1>4, <2>4
    <2>9. \A i \in 1 .. Len(handed'[Journal]) :
             WholeOrCut(handed'[Journal], i, FALSE) /\ Num(handed'[Journal][i]) \in Taken
      BY <1>9, <2>4
    <2>10. JournalInv'
      BY <1>2, <1>8, <2>3, <2>4, <2>5, <2>6, <2>7, <2>8, <2>9
    <2> QED
      BY <2>4, <2>7, <2>10
  <1>11. CASE r = 2
    <2>1. Head(pipe) = <<q + 1, Blank>>
      BY <1>7, <1>11, LinesOfRecord
    <2>2. buf # <<>> /\ r \in 1 .. 2
      BY <1>6, <1>11, CollectedFacts
    <2>3. EmitRecord(Collected(q, r), "check", "emit") /\ buf' = <<>>
      BY <1>6, <2>1, <2>2 DEF JournalRead
    <2>4. /\ EmitInv'
          /\ \/ jpc' = "check" /\ phase'[Journal] = "idle"
             \/ jpc' = "emit"
          /\ HandedUpTo(handed'[Journal], q + 1)
          /\ \A i \in 1 .. Len(handed'[Journal]) :
               WholeOrCut(handed'[Journal], i, r = 1) /\ Num(handed'[Journal][i]) \in Taken
          /\ \A d \in Emitters : d # Journal => handed'[d] = handed[d] /\ phase'[d] = phase[d]
      <3>1. q + 1 \in 1 .. MaxParts
        BY <1>5, <1>6, <1>11, JournalConstants, JournalParts DEF Total
      <3> QED
        BY <1>2, <1>4, <1>9, <2>2, <2>3, <3>1, EmitRecordFacts
    <2>5. \A i \in 1 .. Len(handed'[Journal]) :
             WholeOrCut(handed'[Journal], i, FALSE) /\ Num(handed'[Journal][i]) \in Taken
      <3>1. r = 1 => FALSE
        BY <1>11
      <3> QED
        BY <2>4, <3>1, CutGrows, Zenon
    <2>6. q + 1 \in Nat /\ 0 \in 0 .. 2 /\ 3 * (q + 1) + 0 = 3 * q + r + 1
      BY <1>11
    <2>7. buf' = Collected(q + 1, 0)
      BY <2>3, <2>6, CollectedFacts
    <2>8. jpc' \in {"check", "emit"} /\ (jpc' = "check" => phase'[Journal] = "idle")
      BY <2>4
    <2>9. JournalInv'
      BY <1>8, <2>4, <2>5, <2>6, <2>7, <2>8
    <2> QED
      BY <2>4, <2>9
  <1> QED
    BY <1>10, <1>11

\* The end of the output: what is collected is the last part.
LEMMA JournalEOFKeepsInv ==
    ASSUME EmitInv, JournalInv, JournalEOF
    PROVE  /\ EmitInv' /\ JournalInv'
           /\ \A d \in Emitters : d # Journal => handed'[d] = handed[d] /\ phase'[d] = phase[d]
  <1>1. /\ jpc = "read" /\ pipe = <<>> /\ child \in {"ok", "failed"}
        /\ UNCHANGED <<buf, pipe, child, wrote, jret, done>>
    BY DEF JournalEOF
  <1>2. ~AtEnd /\ phase[Journal] = "idle"
    BY <1>1 DEF AtEnd, JournalInv
  <1>3. PICK q \in Nat, r \in 0 .. 2 : Progress(q, r)
    BY DEF JournalInv
  <1>4. ReadSoFar(q, r, wrote, pipe, buf) /\ HandedUpTo(handed[Journal], q)
    BY <1>2, <1>3, Zenon DEF Progress
  <1>5. \A i \in 1 .. Len(handed[Journal]) :
           WholeOrCut(handed[Journal], i, FALSE) /\ Num(handed[Journal][i]) \in Taken
    BY <1>2, WholeBeforeEnd
  <1>6. buf = Collected(q, r) /\ wrote = 3 * q + r
    <2>1. Len(pipe) = 0
      BY <1>1
    <2> QED
      BY <1>4, <2>1 DEF ReadSoFar
  \* a part of one line is cut: the child failed
  <1>7. r = 1 => child = "failed"
    <2>1. child = "ok" => 3 * q + r = 3 * MaxParts
      BY <1>6 DEF JournalInv, Total
    <2>2. MaxParts \in Nat
      BY JournalConstants
    <2>3. 3 * q + 1 # 3 * MaxParts
      BY <2>2
    <2> QED
      BY <1>1, <2>1, <2>3
  <1>8. ASSUME EmitInv', jpc' \in {"wait", "last"},
               jpc' = "wait" => phase'[Journal] = "idle",
               HandedUpTo(handed'[Journal], IF r = 0 THEN q ELSE q + 1),
               \A i \in 1 .. Len(handed'[Journal]) :
                 WholeOrCut(handed'[Journal], i, r = 1) /\ Num(handed'[Journal][i]) \in Taken
        PROVE  JournalInv'
    <2>1. AtEnd'
      BY <1>8 DEF AtEnd
    <2>2. ReadSoFar(q, r, wrote', pipe', buf')
      BY <1>1, <1>4
    <2>3. Progress(q, r)'
      BY <1>1, <1>8, <2>1, <2>2, Zenon DEF Progress
    <2>4. \E x \in Nat, y \in 0 .. 2 : Progress(x, y)'
      BY <2>3
    <2>5. \A i \in 1 .. Len(handed'[Journal]) :
             /\ WholeOrCut(handed'[Journal], i, child' = "failed" /\ AtEnd')
             /\ Num(handed'[Journal][i]) \in Taken
      <3>1. r = 1 => child' = "failed" /\ AtEnd'
        BY <1>1, <1>7, <2>1
      <3> QED
        BY <1>8, <3>1, CutGrows, Zenon
    <2>6. JournalTypeOK'
      BY <1>1, <1>8 DEF JournalInv, JournalTypeOK, Total
    <2>7. pipe' \in Seq(Line) /\ buf' \in Seq(Line) /\ done' \in BOOLEAN
      BY <1>1, JournalParts
    <2>8. /\ jpc' \notin {"emit", "last"} => phase'[Journal] = "idle"
          /\ jpc' = "start" => child' = "none"
          /\ child' = "none" => jpc' \in {"start", "done"} /\ wrote' = 0
          /\ jret' = "readErr" => jpc' = "done"
          /\ child' = "ok" => wrote' = Total
          /\ AtEnd' /\ child' = "runs" => done'
      BY <1>1, <1>8 DEF JournalInv
    <2> QED
      BY <2>4, <2>5, <2>6, <2>7, <2>8, Zenon DEF JournalInv, Total
  <1>9. CASE r = 0
    <2>1. buf = <<>>
      BY <1>6, <1>9, CollectedFacts, Zenon
    <2>2. jpc' = "wait" /\ UNCHANGED emitVars
      BY <2>1 DEF JournalEOF
    <2>3. handed' = handed /\ phase' = phase
      BY <2>2 DEF emitVars
    <2>4. EmitInv'
      BY <2>2, IdleKeepsEmitInv
    <2>5. \A i \in 1 .. Len(handed'[Journal]) :
             WholeOrCut(handed'[Journal], i, r = 1) /\ Num(handed'[Journal][i]) \in Taken
      BY <1>5, <2>3, CutGrows, Zenon
    <2>6. HandedUpTo(handed'[Journal], IF r = 0 THEN q ELSE q + 1)
      BY <1>4, <1>9, <2>3
    <2>7. JournalInv'
      BY <1>2, <1>8, <2>2, <2>3, <2>4, <2>5, <2>6
    <2> QED
      BY <2>3, <2>4, <2>7
  <1>10. CASE r \in 1 .. 2
    <2>1. buf # <<>>
      BY <1>6, <1>10, CollectedFacts
    <2>2. EmitRecord(Collected(q, r), "wait", "last")
      BY <1>6, <2>1 DEF JournalEOF
    <2>3. /\ EmitInv'
          /\ \/ jpc' = "wait" /\ phase'[Journal] = "idle"
             \/ jpc' = "last"
          /\ HandedUpTo(handed'[Journal], q + 1)
          /\ \A i \in 1 .. Len(handed'[Journal]) :
               WholeOrCut(handed'[Journal], i, r = 1) /\ Num(handed'[Journal][i]) \in Taken
          /\ \A d \in Emitters : d # Journal => handed'[d] = handed[d] /\ phase'[d] = phase[d]
      <3>1. q + 1 \in 1 .. MaxParts
        BY <1>6, <1>10, JournalConstants, JournalParts DEF Total
      <3> QED
        BY <1>2, <1>4, <1>5, <1>10, <2>2, <3>1, EmitRecordFacts
    <2>4. HandedUpTo(handed'[Journal], IF r = 0 THEN q ELSE q + 1)
      BY <1>10, <2>3
    <2>5. jpc' \in {"wait", "last"} /\ (jpc' = "wait" => phase'[Journal] = "idle")
      BY <2>3
    <2>6. JournalInv'
      BY <1>8, <2>3, <2>4, <2>5
    <2> QED
      BY <2>3, <2>6
  <1> QED
    BY <1>9, <1>10

-----------------------------------------------------------------------------
(* The system.                                                             *)

LEMMA LiveInvInit == Init => LiveInv
  <1> SUFFICES ASSUME Init
               PROVE  LiveInv
    OBVIOUS
  <1> USE DEF Init, EmitInit, JournalInit, KMsgInit
  <1>1. <<>> \in Seq(Entry) /\ <<>> \in Seq(Line)
    BY EmptySeq, Zenon
  <1>2. \A c \in Emitters : emitting[c] = <<>> /\ handed[c] = <<>> /\ phase[c] = "idle"
    OBVIOUS
  <1>3. IsFiniteSet({}) /\ Cardinality({}) = 0
    BY FS_EmptySet
  <1>4. EntriesOK
    BY <1>1, <1>3 DEF EntriesOK
  <1>5. Channel
    BY EmitConstants DEF Channel
  <1>6. Calls
    BY <1>2 DEF Calls
  <1>7. Sent = <<>>
    BY <1>1, ConcatEmptySeq DEF Sent
  <1>8. OnePlace
    <2>1. Range(Sent) = {} /\ Len(Sent) = 0
      BY <1>7, RangeOfCall
    <2>2. \A c \in Emitters : Range(emitting[c]) = {} /\ Range(handed[c]) = {}
      BY <1>2, RangeOfCall
    <2>3. \A i \in 1 .. Len(Sent) : FALSE
      BY <2>1
    <2>4. lost = {}
      OBVIOUS
    <2> QED
      BY <2>1, <2>2, <2>3, <2>4, Zenon DEF OnePlace, Once
  <1>9. KMsgInv
    <2>1. handed[KMsg] = <<>> /\ phase[KMsg] = "idle"
      BY <1>2, KMsgConstants
    <2>2. Growing(handed[KMsg], kpos)
      BY <2>1 DEF Growing
    <2> QED
      BY <2>1, <2>2 DEF KMsgInv, KMsgTypeOK
  <1>10. JournalInv
    <2>1. handed[Journal] = <<>> /\ phase[Journal] = "idle"
      BY <1>2, JournalConstants
    <2>2. Total \in Nat
      BY JournalConstants DEF Total
    <2>3. ReadSoFar(0, 0, wrote, pipe, buf)
      BY DEF ReadSoFar, Collected
    <2>4. HandedUpTo(handed[Journal], 0)
      BY <2>1 DEF HandedUpTo
    <2>5. ~AtEnd
      BY DEF AtEnd
    <2>6. Progress(0, 0)
      BY <2>3, <2>4, <2>5, Zenon DEF Progress
    <2>7. \E q \in Nat, r \in 0 .. 2 : Progress(q, r)
      BY <2>6
    <2>8. JournalTypeOK
      BY <2>2 DEF JournalTypeOK
    <2>9. \A i \in 1 .. Len(handed[Journal]) : FALSE
      BY <2>1
    <2>10. pipe \in Seq(Line) /\ buf \in Seq(Line) /\ done \in BOOLEAN
      BY <1>1
    <2> QED
      BY <2>1, <2>5, <2>7, <2>8, <2>9, <2>10 DEF JournalInv
  <1> QED
    BY <1>4, <1>5, <1>6, <1>8, <1>9, <1>10 DEF LiveInv, EmitInv

LEMMA LiveInvNext == LiveInv /\ [Next]_vars => LiveInv'
  <1> SUFFICES ASSUME LiveInv, [Next]_vars
               PROVE  LiveInv'
    OBVIOUS
  <1>0. EmitInv /\ KMsgInv /\ JournalInv /\ Journal \in Emitters /\ KMsg \in Emitters
        /\ done \in BOOLEAN
    BY JournalConstants, KMsgConstants DEF LiveInv, JournalInv
  <1>1. CASE Cancel
    <2>1. UNCHANGED <<emitVars, journalVars, kmsgVars>> /\ done' = TRUE
      BY <1>1 DEF Cancel
    <2>2. handed' = handed /\ phase' = phase
      BY <2>1 DEF emitVars
    <2> QED
      BY <1>0, <2>1, <2>2, IdleKeepsEmitInv, OthersKeepKMsgInv, OthersKeepJournalInv
      DEF LiveInv
  <1>2. CASE JournalRuns \/ JournalWorld
    <2>1. UNCHANGED kmsgVars
      BY <1>2 DEF JournalRuns, JournalWorld
    <2>2. /\ EmitInv' /\ JournalInv'
          /\ handed'[KMsg] = handed[KMsg] /\ phase'[KMsg] = phase[KMsg]
      <3>1. CASE JournalRead
        BY <1>0, <3>1, JournalReadKeepsInv, TwoSources
      <3>2. CASE JournalEOF
        BY <1>0, <3>2, JournalEOFKeepsInv, TwoSources
      <3>3. CASE \/ JournalStart \/ ChildWrites \/ ChildEnds \/ ChildKilled \/ JournalCheck
                 \/ JournalEmitted \/ JournalWait \/ JournalReadFails
        <4>1. UNCHANGED emitVars
          BY <3>3 DEF JournalStart, ChildWrites, ChildEnds, ChildKilled, JournalCheck,
                      JournalEmitted, JournalWait, JournalReadFails
        <4>2. handed' = handed /\ phase' = phase
          BY <4>1 DEF emitVars
        <4> QED
          BY <1>0, <3>3, <4>1, <4>2, IdleKeepsEmitInv, QuietJournalStep
      <3> QED
        BY <1>2, <3>1, <3>2, <3>3 DEF JournalRuns, JournalWorld, JournalStep
    <2> QED
      BY <1>0, <2>1, <2>2, OthersKeepKMsgInv DEF LiveInv
  <1>3. CASE KMsgRuns \/ KMsgWorld
    <2>1. UNCHANGED <<journalVars, done>>
      BY <1>3 DEF KMsgRuns, KMsgWorld
    <2>2. /\ EmitInv' /\ KMsgInv'
          /\ handed'[Journal] = handed[Journal] /\ phase'[Journal] = phase[Journal]
      <3>1. CASE KMsgRead
        BY <1>0, <3>1, KMsgReadKeepsInv, TwoSources
      <3>2. CASE \/ KMsgStart \/ KMsgCheck(done) \/ KMsgOverrun \/ KMsgAgain
                 \/ KMsgPoll(done) \/ KMsgEmitted \/ KernelLogs \/ KMsgReadFails
        <4>1. UNCHANGED emitVars
          BY <3>2 DEF KMsgStart, KMsgCheck, KMsgOverrun, KMsgAgain,
                      KMsgPoll, KMsgEmitted, KernelLogs, KMsgReadFails
        <4>2. handed' = handed /\ phase' = phase
          BY <4>1 DEF emitVars
        <4> QED
          BY <1>0, <3>2, <4>1, <4>2, IdleKeepsEmitInv, QuietKMsgStep
      <3> QED
        BY <1>3, <3>1, <3>2 DEF KMsgRuns, KMsgWorld, KMsgStep
    <2> QED
      BY <1>0, <2>1, <2>2, OthersKeepJournalInv DEF LiveInv
  <1>4. ASSUME NEW c \in Emitters, EmitRuns(c)
        PROVE  LiveInv'
    <2>1. UNCHANGED <<journalVars, kmsgVars, done>> /\ (Send(c) \/ StartTimer(c) \/ GiveUp(c))
      BY <1>4 DEF EmitRuns, EmitStep
    <2>2. /\ EmitInv' /\ handed' = handed
          /\ \A d \in Emitters : phase[d] = "idle" => phase'[d] = "idle"
      BY <1>0, <2>1, SendKeepsEmitInv, StartTimerKeepsEmitInv, GiveUpKeepsEmitInv
    <2> QED
      BY <1>0, <2>1, <2>2, OthersKeepKMsgInv, OthersKeepJournalInv DEF LiveInv
  <1>5. CASE Reader
    <2>1. UNCHANGED <<journalVars, kmsgVars, done>> /\ Receive
      BY <1>5 DEF Reader
    <2>2. EmitInv' /\ handed' = handed /\ phase' = phase
      BY <1>0, <2>1, ReceiveKeepsEmitInv
    <2> QED
      BY <1>0, <2>1, <2>2, OthersKeepKMsgInv, OthersKeepJournalInv DEF LiveInv
  <1>6. CASE UNCHANGED vars
    <2>1. UNCHANGED <<emitVars, journalVars, kmsgVars, done>>
      BY <1>6 DEF vars
    <2>2. handed' = handed /\ phase' = phase
      BY <2>1 DEF emitVars
    <2> QED
      BY <1>0, <2>1, <2>2, IdleKeepsEmitInv, OthersKeepKMsgInv, OthersKeepJournalInv
      DEF LiveInv
  <1> QED
    BY <1>1, <1>2, <1>3, <1>4, <1>5, <1>6 DEF Next

LEMMA LiveInvariant == Spec => []LiveInv
  <1> QED
    BY LiveInvInit, LiveInvNext, PTL DEF Spec

\* A sequence without repetitions has as many elements as positions.
LEMMA DistinctCount ==
    ASSUME NEW S, NEW s \in Seq(S), \A i, j \in 1 .. Len(s) : s[i] = s[j] => i = j
    PROVE  Cardinality(Range(s)) = Len(s)
  <1>1. Len(s) \in Nat /\ DOMAIN s = 1 .. Len(s) /\ s \in [1 .. Len(s) -> S]
    OBVIOUS
  <1>2. Range(s) = {s[i] : i \in 1 .. Len(s)}
    BY RangeFacts
  <1>3. s \in [1 .. Len(s) -> Range(s)]
    BY <1>1, <1>2
  <1>4. s \in Surjection(1 .. Len(s), Range(s))
    BY <1>2, <1>3 DEF Surjection
  <1>5. s \in Injection(1 .. Len(s), Range(s))
    BY <1>1, <1>3 DEF Injection, IsInjective
  <1>6. IsFiniteSet(1 .. Len(s)) /\ Cardinality(1 .. Len(s)) = Len(s)
    BY <1>1, FS_Interval
  <1> QED
    BY <1>4, <1>5, <1>6, FS_Surjection

\* MakeBoundedEmit, for any number of sources, any capacity of the sink and
\* any reader: each entry handed to emit is with its call, sent once, or
\* counted as dropped, and in one of the three only.
THEOREM LiveEmitOnce == Spec => []EmitOnce
  <1>1. LiveInv => EmitOnce
    <2> SUFFICES ASSUME LiveInv
                 PROVE  EmitOnce
      OBVIOUS
    <2>1. EmitInv
      BY DEF LiveInv
    <2>2. EmitTypeOK
      <3>1. \A c \in Emitters : Len(emitting[c]) = IF phase[c] = "idle" THEN 0 ELSE 1
        <4> TAKE c \in Emitters
        <4>1. CASE phase[c] = "idle"
          BY <2>1, <4>1 DEF EmitInv, Calls
        <4>2. CASE phase[c] # "idle"
          <5>1. PICK e \in Entry : emitting[c] = <<e>>
            BY <2>1, <4>2, HeldEntry
          <5> QED
            BY <4>2, <5>1
        <4> QED
          BY <4>1, <4>2
      <3>2. drops \in Nat
        BY <2>1, FS_CardinalityType DEF EmitInv, EntriesOK
      <3> QED
        BY <2>1, <3>1, <3>2 DEF EmitTypeOK, EmitInv, EntriesOK, Channel
    <2>3. drops = Cardinality(lost)
      BY <2>1 DEF EmitInv, EntriesOK
    <2>4. Cardinality(Range(Sent)) = Len(Sent)
      <3>1. Sent \in Seq(Entry)
        BY <2>1, ConcatProperties DEF EmitInv, EntriesOK, Sent
      <3>2. \A i, j \in 1 .. Len(Sent) : Sent[i] = Sent[j] => i = j
        BY <2>1, Zenon DEF EmitInv, OnePlace, Once
      <3> QED
        BY <3>1, <3>2, DistinctCount
    <2>5. ASSUME NEW c \in Emitters, NEW x \in Range(handed[c])
          PROVE  Cardinality({p \in {"running", "sent", "dropped"} :
                        \/ p = "running" /\ x \in Range(emitting[c])
                        \/ p = "sent" /\ x \in Range(Sent)
                        \/ p = "dropped" /\ x \in lost}) = 1
      <3> DEFINE P == {p \in {"running", "sent", "dropped"} :
                        \/ p = "running" /\ x \in Range(emitting[c])
                        \/ p = "sent" /\ x \in Range(Sent)
                        \/ p = "dropped" /\ x \in lost}
      <3>1. x \in Range(emitting[c]) \cup Range(Sent) \cup lost
        BY <2>1, Zenon DEF EmitInv, OnePlace, Once
      <3>2. x \in Range(emitting[c]) => x \notin Range(Sent) /\ x \notin lost
        BY <2>1, Zenon DEF EmitInv, OnePlace, Once
      <3>3. x \in Range(Sent) => x \notin lost
        BY <2>1, Zenon DEF EmitInv, OnePlace, Once
      <3>4. \E p : P = {p}
        <4>1. CASE x \in Range(emitting[c])
          <5>1. P = {"running"}
            BY <3>2, <4>1
          <5> QED
            BY <5>1
        <4>2. CASE x \in Range(Sent)
          <5>1. P = {"sent"}
            BY <3>2, <3>3, <4>2
          <5> QED
            BY <5>1
        <4>3. CASE x \in lost
          <5>1. P = {"dropped"}
            BY <3>2, <3>3, <4>3
          <5> QED
            BY <5>1
        <4> QED
          BY <3>1, <4>1, <4>2, <4>3
      <3> HIDE DEF P
      <3>5. Cardinality(P) = 1
        BY <3>4, FS_Singleton
      <3> QED
        BY <3>5 DEF P
    <2> QED
      BY <2>2, <2>3, <2>4, <2>5 DEF EmitOnce
  <1> QED
    BY LiveInvariant, <1>1, PTL

\* KMsgSource.Run, for any ring size, any number of records and any pace of
\* the kernel: what lies between two records it emits was refused by the
\* parser or overwritten by the kernel.
THEOREM LiveKMsgNoSkip == Spec => []KMsgNoSkip
  <1>1. LiveInv => KMsgNoSkip
    <2> SUFFICES ASSUME LiveInv
                 PROVE  KMsgNoSkip
      OBVIOUS
    <2> DEFINE h == handed[KMsg]
               number == [i \in DOMAIN h |-> h[i].lines[1][1]]
    <2>1. KMsgInv /\ KMsgTypeOK /\ h \in Seq(Entry) /\ kfirst \in Nat /\ kpos \in Nat
          /\ overrun \subseteq Nat
      BY KMsgConstants DEF LiveInv, EmitInv, EntriesOK, KMsgInv, KMsgTypeOK
    <2>2. DOMAIN h = 1 .. Len(h) /\ Len(h) \in Nat
      BY <2>1
    <2>3. DOMAIN number = 1 .. Len(h) /\ \A i \in 1 .. Len(h) : number[i] = Num(h[i])
      BY <2>2 DEF Num
    <2>4. Growing(h, kpos)
      BY <2>1 DEF KMsgInv
    <2> HIDE DEF number
    <2>5. Range(number) = {Num(h[i]) : i \in 1 .. Len(h)}
      BY <2>3, Zenon DEF Range
    <2> HIDE DEF h
    <2>6. \A i, j \in DOMAIN number : i < j => number[i] < number[j]
      BY <2>3, <2>4 DEF Growing
    <2>7. ASSUME kpc \notin {"start", "done"}
          PROVE  kfirst .. kpos - 1 = Range(number) \cup overrun
                                       \cup (Garbled \cap kfirst .. kpos - 1)
      <3>1. Accounted(h, kfirst, kpos, overrun)
        BY <2>1, <2>7 DEF KMsgInv, h
      <3>2. \A n \in Nat : n \in kfirst .. kpos - 1 <=> kfirst <= n /\ n < kpos
        BY <2>1
      <3>3. \A n \in Nat : n \in Range(number) <=> \E i \in 1 .. Len(h) : Num(h[i]) = n
        BY <2>5, Zenon
      <3>4. \A n \in Range(number) : n \in Nat
        BY <2>4, <2>5 DEF Growing
      <3>5. \A n \in kfirst .. kpos - 1 : n \in Nat
        BY <2>1
      <3>6. \A n \in Nat : n \in kfirst .. kpos - 1 <=>
                n \in Range(number) \/ n \in overrun \/ n \in Garbled \cap kfirst .. kpos - 1
        BY <3>1, <3>2, <3>3, Zenon DEF Accounted
      <3> QED
        BY <2>1, <3>4, <3>5, <3>6
    <2> QED
      BY <2>1, <2>6, <2>7 DEF KMsgNoSkip, number, h
  <1> QED
    BY LiveInvariant, <1>1, PTL

\* A part without a blank line inside its record is the whole record.
LEMMA UnbrokenRecord ==
    ASSUME NEW p \in 1 .. MaxParts, {p - 1, p} \cap Inside = {}
    PROVE  Range(<<<<p, 1>>, <<p, 2>>>>) = RecordLines(p)
  <1>1. ASSUME NEW x \in 1 .. MaxParts
        PROVE  SameRecord(p, x) <=> x = p
    <2>1. p \in Nat /\ x \in Nat
      BY JournalConstants
    <2>2. CASE x = p
      BY <2>1, <2>2 DEF SameRecord
    <2>3. CASE x > p
      <3>1. p \in p .. x - 1
        BY <2>1, <2>3
      <3> QED
        BY <2>1, <2>3, <3>1 DEF SameRecord
    <2>4. CASE x < p
      <3>1. p - 1 \in x .. p - 1
        BY <2>1, <2>4
      <3> QED
        BY <2>1, <2>4, <3>1 DEF SameRecord
    <2> QED
      BY <2>1, <2>2, <2>3, <2>4
  <1>2. {x \in 1 .. MaxParts : SameRecord(p, x)} = {p}
    BY <1>1, Zenon
  <1>3. RecordLines(p) = {<<p, 1>>, <<p, 2>>}
    <2>1. RecordLines(p) = {<<q, l>> : q \in {p}, l \in {1, 2}}
      BY <1>2 DEF RecordLines
    <2> QED
      BY <2>1
  <1>4. Range(<<<<p, 1>>, <<p, 2>>>>) = {<<p, 1>>, <<p, 2>>}
    BY DEF Range
  <1> QED
    BY <1>3, <1>4

\* JournalSource.consume, for a journal and a pipe of any size: the lines of
\* two records never end up in one entry, a record is cut only by a child that
\* dies or by a blank line inside it, and a run that ends by itself has emitted
\* all there was.
THEOREM LiveJournalWhole == Spec => []JournalWhole
  <1>1. LiveInv => JournalWhole
    <2> SUFFICES ASSUME LiveInv
                 PROVE  JournalWhole
      OBVIOUS
    <2> DEFINE h == handed[Journal]
    <2>1. JournalInv /\ JournalTypeOK /\ h \in Seq(Entry)
      BY JournalConstants DEF LiveInv, EmitInv, EntriesOK, JournalInv
    <2>2. DOMAIN h = 1 .. Len(h) /\ Range(h) = {h[i] : i \in 1 .. Len(h)}
      BY <2>1, RangeFacts
    <2>3. \A i \in 1 .. Len(h) :
             WholeOrCut(h, i, child = "failed" /\ AtEnd) /\ Num(h[i]) \in Taken
      BY <2>1, Zenon DEF JournalInv
    <2> HIDE DEF h
    <2>4. ASSUME NEW i \in DOMAIN h
          PROVE  LET rec == h[i].lines
                     p == rec[1][1]
                 IN  \/ /\ rec = <<<<p, 1>>, <<p, 2>>>>
                        /\ {p - 1, p} \cap Inside = {} => Range(rec) = RecordLines(p)
                     \/ /\ child = "failed"
                        /\ i = Len(h)
                        /\ rec = <<<<p, 1>>>>
      <3>1. WholeOrCut(h, i, child = "failed" /\ AtEnd) /\ Num(h[i]) \in 1 .. MaxParts
        BY <2>2, <2>3, Zenon DEF Taken
      <3>2. PICK p \in 1 .. MaxParts : p = Num(h[i])
        BY <3>1
      <3>3. \/ h[i].lines = <<<<p, 1>>, <<p, 2>>>>
            \/ child = "failed" /\ i = Len(h) /\ h[i].lines = <<<<p, 1>>>>
        BY <3>1, <3>2, Zenon DEF WholeOrCut
      <3>4. {p - 1, p} \cap Inside = {} => Range(<<<<p, 1>>, <<p, 2>>>>) = RecordLines(p)
        BY UnbrokenRecord
      <3>5. h[i].lines[1][1] = p
        BY <3>2 DEF Num
      <3> QED
        BY <3>3, <3>4, <3>5, Zenon
    <2>5. ASSUME jpc = "done", ~done, jret # "readErr"
          PROVE  {x.lines[1][1] : x \in Range(h)} = {LineAt(n)[1] : n \in 1 .. wrote} \ Refused
      <3>1. PICK q \in Nat, r \in 0 .. 2 : Progress(q, r)
        BY <2>1 DEF JournalInv
      <3>2. AtEnd
        BY <2>5 DEF AtEnd
      <3>3. ReadSoFar(q, r, wrote, pipe, buf) /\ pipe = <<>>
            /\ HandedUpTo(h, IF r = 0 THEN q ELSE q + 1)
        BY <2>5, <3>1, <3>2, Zenon DEF Progress, h
      <3>4. wrote = 3 * q + r
        <4>1. Len(pipe) = 0
          BY <3>3
        <4> QED
          BY <3>3, <4>1 DEF ReadSoFar
      <3> DEFINE last == IF r = 0 THEN q ELSE q + 1
      <3>5. last \in Nat /\ HandedUpTo(h, last)
        BY <3>3
      <3>6. {x.lines[1][1] : x \in Range(h)} = {Num(h[i]) : i \in 1 .. Len(h)}
        BY <2>2, Zenon DEF Num
      <3> HIDE DEF last
      <3>7. {Num(h[i]) : i \in 1 .. Len(h)} = (1 .. last) \ Refused
        BY <2>3, <3>5, Zenon DEF HandedUpTo, Taken
      <3>8. \A n \in 1 .. wrote : LineAt(n)[1] \in 1 .. last
        <4> TAKE n \in 1 .. wrote
        <4>1. LineAt(n)[1] = IF n % 3 = 0 THEN n \div 3 ELSE n \div 3 + 1
          BY DEF LineAt
        <4>2. n \in Nat /\ 1 <= n /\ n <= 3 * q + r
          BY <3>4
        <4> QED
          BY <4>1, <4>2 DEF last
      <3>9. ASSUME NEW m \in 1 .. last
            PROVE  \E n \in 1 .. wrote : LineAt(n)[1] = m
        <4>1. m - 1 \in Nat /\ 3 * (m - 1) + 1 \in 1 .. wrote
          BY <3>4 DEF last
        <4>2. LineAt(3 * (m - 1) + 1) = <<(m - 1) + 1, 1>>
          BY <4>1, LinesOfRecord
        <4>3. LineAt(3 * (m - 1) + 1)[1] = m
          BY <4>2
        <4> QED
          BY <4>1, <4>3
      <3>10. {LineAt(n)[1] : n \in 1 .. wrote} = 1 .. last
        BY <3>8, <3>9, Zenon
      <3> QED
        BY <3>6, <3>7, <3>10, Zenon
    <2> QED
      BY <2>1, <2>4, <2>5, Zenon DEF JournalWhole, h
  <1> QED
    BY LiveInvariant, <1>1, PTL
=============================================================================
