---------------------------- MODULE MCRingBuffer ----------------------------
(***************************************************************************)
(* Model-checking module for RingBuffer, and the refinement that shows the *)
(* ring to implement DropOldestQueue.                                      *)
(***************************************************************************)
EXTENDS RingBuffer

\* What buf holds, oldest first.
Window == [i \in 1 .. size |-> buf[Slot(i - 1)]]

\* The abstract queue: while an operation is inside the lock, what it has
\* taken off the head has not left the queue yet.
AbstractQueue == moved \o Window

Queue == INSTANCE DropOldestQueue WITH
            queue     <- AbstractQueue,
            isClosed  <- closed,
            signal    <- notify,
            dropped   <- IF op = "push" THEN drops - Len(moved) ELSE drops,
            delivered <- taken,
            count     <- accepted

\* The ring's operations are atomic, first in first out, and Push evicts the
\* least number of oldest entries that makes the new one fit; and what is atomic
\* to the abstract queue ends, also for an entry larger than the byte cap.
ImplementsQueue == Queue!QSpec /\ LockReleased
=============================================================================
