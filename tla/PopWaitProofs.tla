--------------------------- MODULE PopWaitProofs ---------------------------
(***************************************************************************)
(* Proofs about the blocking consumer of internal/pipeline/ring.go: no     *)
(* wakeup is lost between PopWait's failed TryPop and its select, and it   *)
(* gives up only over a ring that is closed and drained.  They rest on the *)
(* ring's own invariant, which the consumer's steps preserve because each  *)
(* is a step of the ring or leaves it alone.                               *)
(***************************************************************************)
EXTENDS PopWait, RingBufferProofs

\* PopWait returns nil only for a done context or a ring that is closed and
\* drained; it never abandons an entry that Close left readable.
NilMeansDrained ==
    wpc = "nil" => cancelled \/ (closed /\ size = 0)

\* A ring is not closed while a Push is inside the lock, so nothing is stored
\* after Close.
NoPushAfterClose == op = "push" => ~closed

\* The last TryPop is tried only once the ring is closed.
LastMeansClosed == wpc = "last" => closed

WaitInv ==
    /\ RingInv
    /\ NoLostWakeup
    /\ NoPushAfterClose
    /\ LastMeansClosed
    /\ NilMeansDrained

-----------------------------------------------------------------------------
\* Every step of the composition is one of the ring, or leaves it alone.
LEMMA RingStep == [WNext]_waitVars => [Next]_ringVars
BY DEF WNext, waitVars, Consumer, Call, ReturnEntry, FindEmpty, SelectCtx,
       SelectClosed, SelectNotify, LastEmpty, Producer, Closer, Cancel, Next

\* The consumer starts outside PopWait, over an empty ring.
LEMMA WInitOK == WInit => WaitInv
<1> SUFFICES ASSUME WInit PROVE WaitInv
  OBVIOUS
<1>1. RingInv
  BY InitOK DEF WInit
<1>2. TypeOK
  BY <1>1 DEF RingInv
<1> QED BY <1>1, <1>2 DEF WInit, Init, WaitInv, WTypeOK, NoLostWakeup, NoPushAfterClose,
                LastMeansClosed, NilMeansDrained

LEMMA WNextOK == WaitInv /\ [WNext]_waitVars => WaitInv'
<1> SUFFICES ASSUME WaitInv, [WNext]_waitVars PROVE WaitInv'
  OBVIOUS
<1>1. RingInv' /\ TypeOK'
  BY RingStep, NextOK DEF WaitInv, RingInv
<1>2. /\ TypeOK /\ WTypeOK
      /\ size \in Nat
  BY DEF WaitInv, RingInv, NoLostWakeup, WTypeOK, TypeOK
<1> USE DEF WaitInv, NoLostWakeup, NoPushAfterClose, LastMeansClosed, NilMeansDrained
<1>3. CASE Call \/ Cancel
  <2>1. UNCHANGED ringVars /\ (cancelled => cancelled') /\ cancelled' \in BOOLEAN
    BY <1>2, <1>3 DEF Call, Cancel, WTypeOK
  <2>2. UNCHANGED wpc \/ wpc' = "try"
    BY <1>3 DEF Call, Cancel
  <2> QED BY <1>1, <1>2, <2>1, <2>2 DEF WTypeOK, ringVars
<1>4. CASE ReturnEntry
  BY <1>1, <1>2, <1>4 DEF ReturnEntry, TryPop, RemoveHead, WTypeOK
<1>5. CASE FindEmpty \/ LastEmpty
  BY <1>1, <1>2, <1>5 DEF FindEmpty, LastEmpty, WTypeOK, ringVars
<1>6. CASE SelectCtx \/ SelectClosed
  BY <1>1, <1>2, <1>6 DEF SelectCtx, SelectClosed, WTypeOK, ringVars
<1>7. CASE SelectNotify
  BY <1>1, <1>2, <1>7 DEF SelectNotify, TakeNotify, WTypeOK
<1>8. CASE Producer
  <2>1. UNCHANGED <<wpc, cancelled, closed>>
    BY <1>8 DEF Producer, Push, PushBegin, PushEvict, PushStore
  <2>2. CASE \E cost \in Costs : PushBegin(cost)
    BY <1>1, <1>2, <2>1, <2>2 DEF PushBegin, WTypeOK
  <2>3. CASE PushEvict
    <3>1. ~closed /\ size' = size - 1 /\ size' \in Nat /\ op' = op /\ notify' = notify
      BY <1>1, <2>3 DEF PushEvict, RemoveHead, TypeOK
    <3> QED BY <1>1, <1>2, <2>1, <3>1 DEF WTypeOK
  <2>4. CASE PushStore
    BY <1>1, <1>2, <2>1, <2>4 DEF PushStore, WTypeOK
  <2> QED BY <1>8, <2>2, <2>3, <2>4 DEF Producer, Push
<1>9. CASE Closer
  BY <1>1, <1>2, <1>9 DEF Closer, Close, WTypeOK
<1>10. CASE UNCHANGED waitVars
  BY <1>1, <1>2, <1>10 DEF waitVars, ringVars, WTypeOK
<1> QED BY <1>3, <1>4, <1>5, <1>6, <1>7, <1>8, <1>9, <1>10 DEF WNext, Consumer

LEMMA WaitInvariant == WSpec => []WaitInv
<1> QED BY WInitOK, WNextOK, PTL DEF WSpec

-----------------------------------------------------------------------------
\* No lost wakeup: PopWait never sleeps in its select over a buffered entry
\* without a token or a close to wake it, however pushes, evictions, Close and
\* cancellation fall between its TryPop and its select.
THEOREM WaitNeverMissed == WSpec => []NoLostWakeup
<1>1. WaitInv => NoLostWakeup
  BY DEF WaitInv
<1> QED BY <1>1, WaitInvariant, PTL

\* PopWait gives up only for a done context or over a ring that is closed and
\* empty, so whatever Close leaves readable is read.
THEOREM WaitDrains == WSpec => []NilMeansDrained
<1>1. WaitInv => NilMeansDrained
  BY DEF WaitInv
<1> QED BY <1>1, WaitInvariant, PTL
=============================================================================
