---------------------------- MODULE BatcherProofs ----------------------------
(***************************************************************************)
(* Proofs about internal/pipeline/batcher.go over the ring it drains: from *)
(* Push to the end of a Flush call no entry is lost, duplicated or         *)
(* reordered, every batch respects its bounds, and the batcher sleeps      *)
(* without a token on nothing but what a full batch left behind.           *)
(*                                                                         *)
(* The ring's invariant is reused whole: every step of Run is a step of    *)
(* the ring or leaves it alone, except that DrainBegin calls PopBatch with *)
(* the room left in the batch, which BatchBeginOK covers for any number.   *)
(***************************************************************************)
EXTENDS Batcher, RingBufferProofs, SequenceTheorems

\* Every entry Push accepted is counted as dropped, was handed to Flush, is
\* inside the Flush call, pending, inside PopBatch, or still in the ring.
PipelineConserves ==
    accepted = drops + Len(handed) + Len(batch) + Len(pending) + InFlight + size

\* Flush receives the entries in the order Push accepted them, none twice.
FlushedInOrder ==
    \A i, j \in 1 .. Len(handed) : i < j => handed[i].id < handed[j].id

-----------------------------------------------------------------------------
\* Only Run calls PopBatch, with the room left in the batch, and PopBatch
\* never collects more than that.
DrainOK ==
    /\ op = "batch" <=> bpc = "draining"
    /\ bpc = "draining" => Len(pending) + want = BatchSize /\ Len(moved) <= want

\* Where pending may be full, and where it must be.
RoomOK ==
    /\ Len(pending) <= BatchSize
    /\ bpc \in {"drain", "draining", "select"} => Len(pending) < BatchSize
    /\ bpc = "flush" /\ branch = "size" => Len(pending) = BatchSize
    /\ bpc = "flushing" => pending = <<>>
    /\ bpc # "flushing" => batch = <<>>

\* The interval branch only flushes; a drain has one of the other reasons.
BranchOK == bpc \in {"drain", "draining", "check"} => branch \in {"size", "final"}

\* When a drain returns with entries left in the ring and no token to announce
\* them, it has filled the batch.
LeftBehindOK == bpc = "check" /\ size > 0 /\ ~notify => Len(pending) = BatchSize

BatchInv ==
    /\ RingInv
    /\ NothingSlips
    /\ BatchBounds
    /\ SleepsOnlyAfterFullBatch
    /\ DrainOK
    /\ RoomOK
    /\ BranchOK
    /\ LeftBehindOK

-----------------------------------------------------------------------------
\* Appending to the last of two concatenated sequences of entries.
LEMMA ConcatEntries ==
    \A s, t, u \in Seq(Entry) : (s \o t) \o u = s \o (t \o u)
BY ConcatAssociative

LEMMA BInitOK == BInit => BatchInv
<1> SUFFICES ASSUME BInit PROVE BatchInv
  OBVIOUS
<1>1. RingInv /\ TypeOK
  BY InitOK DEF BInit, RingInv
<1>2. NothingSlips
  BY DEF BInit, Init, NothingSlips
<1>3. op = "none" /\ size = 0
  BY DEF BInit, Init
<1>4. BTypeOK
  <2>1. /\ bpc = "drain" /\ branch = "size" /\ timer = "armed"
        /\ cancelled \in BOOLEAN
        /\ pending = <<>> /\ batch = <<>> /\ handed = <<>>
    BY DEF BInit
  <2>2. <<>> \in Seq(Entry)
    OBVIOUS
  <2> QED BY <1>1, <2>1, <2>2 DEF BTypeOK
<1>5. Len(pending) < BatchSize
  BY BatchSizeAssumption DEF BInit
<1> QED BY <1>1, <1>2, <1>3, <1>4, <1>5, BatchSizeAssumption
        DEF BInit, BatchInv, BatchBounds, SleepsOnlyAfterFullBatch,
            DrainOK, RoomOK, BranchOK, LeftBehindOK

\* The steps that leave the ring's fields alone.
LEMMA OwnStepOK ==
    ASSUME BatchInv,
           Check \/ FlushNothing \/ FlushBegin \/ FlushEnd \/ SelectStop
             \/ SelectTimer \/ TimerFires \/ Cancel \/ UNCHANGED batchVars
    PROVE  BatchInv'
<1> USE BatchSizeAssumption
<1>1. UNCHANGED ringVars
  BY DEF Check, FlushNothing, FlushBegin, FlushEnd, SelectStop, SelectTimer,
         TimerFires, Cancel, batchVars
<1>2. RingInv'
  BY <1>1, NextOK DEF BatchInv
<1>3. TypeOK'
  BY <1>2 DEF RingInv
<1>4. /\ BTypeOK /\ taken \in Seq(Entry) /\ handed \in Seq(Entry)
      /\ pending \in Seq(Entry) /\ batch \in Seq(Entry) /\ size \in Nat
      /\ Len(pending) \in Nat
  BY DEF BatchInv, BatchBounds, BTypeOK, TypeOK
<1>5. taken = handed \o batch \o pending
  BY DEF BatchInv, NothingSlips
<1>6. /\ UNCHANGED <<taken, op, size, notify, want, moved>>
  BY <1>1 DEF ringVars
<1>7. CASE Check
  <2>1. UNCHANGED <<branch, pending, batch, timer, cancelled, handed>>
    BY <1>7 DEF Check
  <2>2. bpc = "check" /\ bpc' \in {"flush", "select"}
    BY <1>7 DEF Check
  <2>3. bpc' = "select" => Len(pending) < BatchSize
    BY <1>4, <1>7 DEF Check
  <2>4. bpc' = "flush" /\ branch = "size" => Len(pending) >= BatchSize
    BY <1>4, <1>7 DEF Check
  <2>5. bpc' = "select" /\ size > 0 => notify
    BY <2>2, <2>3, <1>4 DEF BatchInv, LeftBehindOK
  <2> QED BY <1>2, <1>3, <1>4, <1>5, <1>6, <2>1, <2>2, <2>3, <2>4, <2>5
          DEF BatchInv, NothingSlips, BatchBounds, BTypeOK, DrainOK, RoomOK,
              BranchOK, LeftBehindOK, SleepsOnlyAfterFullBatch
<1>8. CASE FlushNothing
  BY <1>2, <1>3, <1>4, <1>5, <1>6, <1>8
     DEF FlushNothing, AfterFlush, BatchInv, NothingSlips, BatchBounds, BTypeOK,
         DrainOK, RoomOK, BranchOK, LeftBehindOK, SleepsOnlyAfterFullBatch
<1>9. CASE FlushBegin
  <2>1. batch = <<>>
    BY <1>9 DEF FlushBegin, BatchInv, RoomOK
  <2>2. handed \o batch \o pending = handed \o pending \o <<>>
    BY <1>4, <2>1
  <2>3. Len(pending) \in 1 .. BatchSize
    BY <1>4, <1>9 DEF FlushBegin, BatchInv, RoomOK
  <2> QED BY <1>2, <1>3, <1>4, <1>5, <1>6, <1>9, <2>2, <2>3
          DEF FlushBegin, BatchInv, NothingSlips, BatchBounds, BTypeOK,
              DrainOK, RoomOK, BranchOK, LeftBehindOK, SleepsOnlyAfterFullBatch
<1>10. CASE FlushEnd
  <2>1. pending = <<>>
    BY <1>10 DEF FlushEnd, BatchInv, RoomOK
  <2>2. /\ handed \o batch \o pending = (handed \o batch) \o <<>> \o <<>>
        /\ handed \o batch \in Seq(Entry)
    BY <1>4, <2>1
  <2> QED BY <1>2, <1>3, <1>4, <1>5, <1>6, <1>10, <2>1, <2>2
          DEF FlushEnd, AfterFlush, BatchInv, NothingSlips, BatchBounds, BTypeOK,
              DrainOK, RoomOK, BranchOK, LeftBehindOK, SleepsOnlyAfterFullBatch
<1>11. CASE SelectStop \/ SelectTimer
  BY <1>2, <1>3, <1>4, <1>5, <1>6, <1>11
     DEF SelectStop, SelectTimer, BatchInv, NothingSlips, BatchBounds, BTypeOK,
         DrainOK, RoomOK, BranchOK, LeftBehindOK, SleepsOnlyAfterFullBatch
<1>12. CASE TimerFires \/ Cancel \/ UNCHANGED batchVars
  <2>1. UNCHANGED <<bpc, branch, pending, batch, handed>>
    BY <1>12 DEF TimerFires, Cancel, batchVars, ownVars
  <2>2. timer' \in {"armed", "fired", "idle"} /\ cancelled' \in BOOLEAN
    BY <1>4, <1>12 DEF TimerFires, Cancel, batchVars, ownVars, BTypeOK
  <2> QED BY <1>2, <1>3, <1>4, <1>5, <1>6, <2>1, <2>2
          DEF BatchInv, NothingSlips, BatchBounds, BTypeOK,
              DrainOK, RoomOK, BranchOK, LeftBehindOK, SleepsOnlyAfterFullBatch
<1> QED BY <1>7, <1>8, <1>9, <1>10, <1>11, <1>12

\* The steps of the ring's other clients: producers and Close.
LEMMA ClientStepOK ==
    ASSUME BatchInv, Producer \/ Closer
    PROVE  BatchInv'
<1> USE BatchSizeAssumption
<1>1. UNCHANGED ownVars
  BY DEF Producer, Closer
<1>2. RingInv'
  BY NextOK DEF BatchInv, Producer, Closer, Next
<1>3. TypeOK'
  BY <1>2 DEF RingInv
<1>4. UNCHANGED taken
  BY DEF Producer, Closer, Push, PushBegin, PushEvict, PushStore, Close
<1>5. op # "batch" /\ op' # "batch"
  BY DEF Producer, Closer, Push, PushBegin, PushEvict, PushStore, Close
<1>6. bpc # "draining"
  BY <1>5 DEF BatchInv, DrainOK
<1>7. size > 0 \/ notify' \/ ~(size' > 0)
  <2>1. size \in Nat /\ size' \in Nat
    BY <1>3 DEF BatchInv, RingInv, TypeOK
  <2> QED BY <2>1 DEF Producer, Closer, Push, PushBegin, PushEvict, PushStore,
              Close, RemoveHead
<1>8. notify => notify'
  BY DEF Producer, Closer, Push, PushBegin, PushEvict, PushStore, Close
<1>9. (size' > 0 /\ ~notify') => (size > 0 /\ ~notify)
  BY <1>7, <1>8
<1> QED BY <1>1, <1>2, <1>3, <1>4, <1>5, <1>6, <1>9
        DEF ownVars, BatchInv, NothingSlips, BatchBounds, BTypeOK,
            DrainOK, RoomOK, BranchOK, LeftBehindOK, SleepsOnlyAfterFullBatch

\* The steps of drain, and the receive of the token.
LEMMA DrainStepOK ==
    ASSUME BatchInv, DrainBegin \/ DrainPop \/ DrainEnd \/ SelectNotify
    PROVE  BatchInv'
<1> USE BatchSizeAssumption
<1>1. /\ BTypeOK /\ taken \in Seq(Entry) /\ handed \in Seq(Entry)
      /\ pending \in Seq(Entry) /\ batch \in Seq(Entry) /\ size \in Nat
      /\ Len(pending) \in Nat /\ moved \in Seq(Entry) /\ Len(moved) \in Nat
      /\ want \in Nat
  BY DEF BatchInv, BatchBounds, BTypeOK, TypeOK
<1>2. CASE DrainBegin
  <2>1. Len(pending) < BatchSize
    BY <1>2 DEF DrainBegin, BatchInv, RoomOK
  <2>2. RingInv'
    <3>1. BatchSize - Len(pending) \in Nat
      BY <1>1, <2>1
    <3> QED BY <3>1, <1>2, BatchBeginOK DEF DrainBegin, BatchInv
  <2>3. TypeOK'
    BY <2>2 DEF RingInv
  <2>4. moved' = <<>>
    BY <1>2 DEF DrainBegin, BatchBegin, BatchInv, RingInv, OperationOK
  <2>5. /\ want' = BatchSize - Len(pending) /\ op' = "batch"
        /\ UNCHANGED taken
    BY <1>2 DEF DrainBegin, BatchBegin
  <2>6. bpc = "drain" /\ bpc' = "draining"
        /\ UNCHANGED <<branch, pending, batch, timer, cancelled, handed>>
    BY <1>2 DEF DrainBegin
  <2> QED BY <1>1, <2>1, <2>2, <2>3, <2>4, <2>5, <2>6
          DEF BatchInv, NothingSlips, BatchBounds, BTypeOK,
              DrainOK, RoomOK, BranchOK, LeftBehindOK, SleepsOnlyAfterFullBatch
<1>3. CASE DrainPop
  <2>1. RingInv'
    BY <1>3, NextOK DEF DrainPop, PopBatch, Next, BatchInv
  <2>2. TypeOK'
    BY <2>1 DEF RingInv
  <2>3. UNCHANGED <<taken, op, want>> /\ UNCHANGED ownVars /\ bpc = "draining"
    BY <1>3 DEF DrainPop, BatchPop
  <2>4. Len(moved') <= want
    BY <1>1, <1>3 DEF DrainPop, BatchPop
  <2> QED BY <1>1, <2>1, <2>2, <2>3, <2>4
          DEF ownVars, BatchInv, NothingSlips, BatchBounds, BTypeOK,
              DrainOK, RoomOK, BranchOK, LeftBehindOK, SleepsOnlyAfterFullBatch
<1>4. CASE DrainEnd
  <2>1. RingInv'
    BY <1>4, NextOK DEF DrainEnd, PopBatch, Next, BatchInv
  <2>2. TypeOK'
    BY <2>1 DEF RingInv
  <2>3. /\ bpc = "draining" /\ bpc' = "check" /\ op' = "none"
        /\ UNCHANGED <<branch, batch, timer, cancelled, handed, size, notify>>
        /\ pending' = pending \o moved /\ taken' = taken \o moved
    BY <1>4 DEF DrainEnd, BatchEnd
  <2>4. /\ pending' \in Seq(Entry)
        /\ Len(pending') = Len(pending) + Len(moved)
    BY <1>1, <2>3
  <2>5. Len(pending) + want = BatchSize /\ Len(moved) <= want
    BY <2>3 DEF BatchInv, DrainOK
  <2>6. size > 0 => Len(moved) = want
    BY <1>1, <1>4, <2>5 DEF DrainEnd, BatchEnd
  <2>7. taken' = handed' \o batch' \o pending'
    <3>1. taken = (handed \o batch) \o pending /\ handed \o batch \in Seq(Entry)
      BY <1>1 DEF BatchInv, NothingSlips
    <3>2. ((handed \o batch) \o pending) \o moved
            = (handed \o batch) \o (pending \o moved)
      BY <1>1, <3>1, ConcatEntries
    <3>3. handed' = handed /\ batch' = batch
      BY <2>3
    <3> QED BY <2>3, <3>1, <3>2, <3>3, Zenon
  <2> QED BY <1>1, <2>1, <2>2, <2>3, <2>4, <2>5, <2>6, <2>7
          DEF BatchInv, NothingSlips, BatchBounds, BTypeOK,
              DrainOK, RoomOK, BranchOK, LeftBehindOK, SleepsOnlyAfterFullBatch
<1>5. CASE SelectNotify
  <2>1. RingInv'
    BY <1>5, NextOK DEF SelectNotify, Next, BatchInv
  <2>2. TypeOK'
    BY <2>1 DEF RingInv
  <2>3. /\ bpc = "select" /\ bpc' = "drain" /\ branch' = "size"
        /\ UNCHANGED <<pending, batch, timer, cancelled, handed, size, taken, op,
                       want, moved>>
    BY <1>5 DEF SelectNotify, TakeNotify
  <2> QED BY <1>1, <2>1, <2>2, <2>3
          DEF BatchInv, NothingSlips, BatchBounds, BTypeOK,
              DrainOK, RoomOK, BranchOK, LeftBehindOK, SleepsOnlyAfterFullBatch
<1> QED BY <1>2, <1>3, <1>4, <1>5

LEMMA BNextOK == BatchInv /\ [BNext]_batchVars => BatchInv'
BY OwnStepOK, ClientStepOK, DrainStepOK DEF BNext, Run

LEMMA BatcherInvariant == BSpec => []BatchInv
<1> QED BY BInitOK, BNextOK, PTL DEF BSpec

-----------------------------------------------------------------------------
\* Between the ring and the Flush callback no entry is lost, duplicated or
\* reordered, however drains, flushes, ticks, evictions and Close interleave.
THEOREM BatcherLosesNothing == BSpec => []NothingSlips
<1>1. BatchInv => NothingSlips
  BY DEF BatchInv
<1> QED BY <1>1, BatcherInvariant, PTL

\* Flush is called with 1 to BatchSize entries, exactly BatchSize on the size
\* trigger, and drain never calls PopBatch with no room.
THEOREM BatcherBounds == BSpec => []BatchBounds
<1>1. BatchInv => BatchBounds
  BY DEF BatchInv
<1> QED BY <1>1, BatcherInvariant, PTL

\* The only entries the batcher can sleep on without a token are those behind
\* a batch that was full: nothing is pending then.
THEOREM BatcherSleeps == BSpec => []SleepsOnlyAfterFullBatch
<1>1. BatchInv => SleepsOnlyAfterFullBatch
  BY DEF BatchInv
<1> QED BY <1>1, BatcherInvariant, PTL

\* From Push to Flush nothing is lost silently: every accepted entry is counted
\* in Drops() or accounted for in exactly one place of the pipeline.
THEOREM PipelineAccounts == BSpec => []PipelineConserves
<1>1. BatchInv => PipelineConserves
  <2> SUFFICES ASSUME BatchInv PROVE PipelineConserves
    OBVIOUS
  <2>1. handed \in Seq(Entry) /\ batch \in Seq(Entry) /\ pending \in Seq(Entry)
    BY DEF BatchInv, BatchBounds, BTypeOK
  <2>2. Len(taken) = Len(handed) + Len(batch) + Len(pending)
    BY <2>1 DEF BatchInv, NothingSlips
  <2>3. /\ Conservation /\ drops \in Nat /\ size \in Nat /\ InFlight \in Nat
        /\ Len(handed) \in Nat /\ Len(batch) \in Nat /\ Len(pending) \in Nat
    BY <2>1 DEF BatchInv, RingInv, TypeOK, InFlight
  <2> QED BY <2>2, <2>3 DEF Conservation, PipelineConserves
<1> QED BY <1>1, BatcherInvariant, PTL

\* The Flush calls together deliver entries in the order Push accepted them,
\* and none twice.
THEOREM PipelineInOrder == BSpec => []FlushedInOrder
<1>1. BatchInv => FlushedInOrder
  <2> SUFFICES ASSUME BatchInv, NEW i \in 1 .. Len(handed),
                      NEW j \in 1 .. Len(handed), i < j
               PROVE  handed[i].id < handed[j].id
    BY DEF FlushedInOrder
  <2>1. handed \in Seq(Entry) /\ batch \in Seq(Entry) /\ pending \in Seq(Entry)
    BY DEF BatchInv, BatchBounds, BTypeOK
  <2>2. taken = (handed \o batch) \o pending
    BY DEF BatchInv, NothingSlips
  <2>3. /\ i \in DOMAIN taken /\ j \in DOMAIN taken
        /\ taken[i] = handed[i] /\ taken[j] = handed[j]
    BY <2>1, <2>2
  <2> QED BY <2>3 DEF BatchInv, RingInv, InOrderDelivery
<1> QED BY <1>1, BatcherInvariant, PTL
=============================================================================
