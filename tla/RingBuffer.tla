----------------------------- MODULE RingBuffer -----------------------------
(***************************************************************************)
(* internal/pipeline/ring.go: the bounded in-memory FIFO between the       *)
(* sources (producers) and the batcher (consumer), under its most general  *)
(* client: any number of producers pushing entries of any cost, and        *)
(* consumers that pop one entry or a batch, receive the notify token and   *)
(* close the ring, in any order.                                           *)
(*                                                                         *)
(* The mutex r.mu is the variable op: it says which operation holds the    *)
(* lock.  The loops of Push and PopBatch run one iteration per step under  *)
(* the lock, because drops is atomic and can be read between two of them;  *)
(* every other operation is one critical section and one step.             *)
(*                                                                         *)
(* A log entry is its identity (the position at which it was accepted) and *)
(* its approxBytes cost.  Identity 0 is the nil pointer.                   *)
(***************************************************************************)
EXTENDS Integers, Sequences

CONSTANTS
    MaxEntries,     \* r.maxEntries, the length of r.buf
    MaxBytes,       \* r.maxBytes; a value <= 0 disables the byte cap
    Costs,          \* the values approxBytes takes on the pushed entries
    PopSizes,       \* the arguments PopBatch is called with
    MaxPushes       \* bound of the model: the number of accepted entries

ASSUME MaxEntriesAssumption == MaxEntries \in Nat \ {0}
ASSUME MaxBytesAssumption   == MaxBytes \in Int
ASSUME CostsAssumption      == Costs \subseteq Nat \ {0}
ASSUME PopSizesAssumption   == PopSizes \subseteq Nat \ {0}
ASSUME MaxPushesAssumption  == MaxPushes \in Nat

VARIABLES
    buf,        \* r.buf
    head,       \* r.head
    size,       \* r.size
    bytes,      \* r.bytes
    closed,     \* r.closed, and whether r.closedC is closed
    notify,     \* whether the channel r.notify (capacity 1) holds its token
    drops,      \* r.drops
    op,         \* the operation inside r.mu: "none", "push" or "batch"
    arg,        \* the entry a running Push stores
    want,       \* the maxN of a running PopBatch
    moved,      \* what the running operation has taken off the head so far;
                \* for PopBatch its local out
    accepted,   \* history: the number of entries stored by Push
    taken,      \* history: the entries returned to consumers, in order
    cum         \* history: cum[n] is the total cost of the first n entries

ringVars == <<buf, head, size, bytes, closed, notify, drops, op, arg, want,
              moved, accepted, taken, cum>>

Slots == 0 .. MaxEntries - 1
Entry == [id : Nat, cost : Nat]
Nil   == [id |-> 0, cost |-> 0]

-----------------------------------------------------------------------------
approxBytes(e) == e.cost

\* The slot of the i-th oldest buffered entry, i counted from 0.
Slot(i) == (head + i) % MaxEntries

\* NewRingBuffer
Init ==
    /\ buf = [s \in Slots |-> Nil]
    /\ head = 0
    /\ size = 0
    /\ bytes = 0
    /\ closed = FALSE
    /\ notify = FALSE
    /\ drops = 0
    /\ op = "none"
    /\ arg = Nil
    /\ want = 0
    /\ moved = <<>>
    /\ accepted = 0
    /\ taken = <<>>
    /\ cum = [n \in {0} |-> 0]

\* Mutant of RemoveHead: head is not advanced.
RemoveHeadStays ==
    /\ buf' = [buf EXCEPT ![head] = Nil]
    /\ head' = head
    /\ size' = size - 1
    /\ bytes' = bytes - approxBytes(buf[head])

\* The four assignments that TryPop, PopBatch and Push's eviction share.
RemoveHead ==
    /\ buf' = [buf EXCEPT ![head] = Nil]
    /\ head' = (head + 1) % MaxEntries
    /\ size' = size - 1
    /\ bytes' = bytes - approxBytes(buf[head])

\* Mutants of MustEvict: one entry too many is kept; the new entry's cost is
\* not counted; one entry too many is evicted.
MustEvictLate(cost) ==
    \/ size > MaxEntries
    \/ MaxBytes > 0 /\ bytes + cost > MaxBytes /\ size > 0

MustEvictOldCost(cost) ==
    \/ size + 1 > MaxEntries
    \/ MaxBytes > 0 /\ bytes > MaxBytes /\ size > 0

MustEvictEarly(cost) ==
    \/ size + 1 >= MaxEntries /\ size > 0
    \/ MaxBytes > 0 /\ bytes + cost > MaxBytes /\ size > 0

\* The condition of Push's eviction loop.
MustEvict(cost) ==
    \/ size + 1 > MaxEntries
    \/ MaxBytes > 0 /\ bytes + cost > MaxBytes /\ size > 0

\* Push acquires the lock.  On a closed ring it returns false and changes
\* nothing, and Push(nil) returns before the lock: both are stuttering steps.
PushBegin(cost) ==
    /\ op = "none"
    /\ ~closed
    /\ accepted < MaxPushes
    /\ op' = "push"
    /\ arg' = [id |-> accepted + 1, cost |-> cost]
    /\ UNCHANGED <<buf, head, size, bytes, closed, notify, drops, want, moved,
                   accepted, taken, cum>>

\* Mutant of PushEvict: the drop is not counted.
PushEvictUncounted ==
    /\ op = "push"
    /\ MustEvict(arg.cost)
    /\ RemoveHead
    /\ moved' = Append(moved, buf[head])
    /\ UNCHANGED <<closed, notify, drops, op, arg, want, accepted, taken, cum>>

\* One iteration of the eviction loop.
PushEvict ==
    /\ op = "push"
    /\ MustEvict(arg.cost)
    /\ RemoveHead
    /\ drops' = drops + 1
    /\ moved' = Append(moved, buf[head])
    /\ UNCHANGED <<closed, notify, op, arg, want, accepted, taken, cum>>

\* Mutant of PushStore: no signal.
PushStoreSilent ==
    /\ op = "push"
    /\ ~MustEvict(arg.cost)
    /\ buf' = [buf EXCEPT ![Slot(size)] = arg]
    /\ size' = size + 1
    /\ bytes' = bytes + arg.cost
    /\ op' = "none"
    /\ arg' = Nil
    /\ moved' = <<>>
    /\ accepted' = accepted + 1
    /\ cum' = [n \in 0 .. accepted + 1 |->
                 IF n <= accepted THEN cum[n] ELSE cum[accepted] + arg.cost]
    /\ UNCHANGED <<head, closed, notify, drops, want, taken>>

\* The loop is over: store at the tail, signal without blocking, unlock.
PushStore ==
    /\ op = "push"
    /\ ~MustEvict(arg.cost)
    /\ buf' = [buf EXCEPT ![Slot(size)] = arg]
    /\ size' = size + 1
    /\ bytes' = bytes + arg.cost
    /\ notify' = TRUE
    /\ op' = "none"
    /\ arg' = Nil
    /\ moved' = <<>>
    /\ accepted' = accepted + 1
    /\ cum' = [n \in 0 .. accepted + 1 |->
                 IF n <= accepted THEN cum[n] ELSE cum[accepted] + arg.cost]
    /\ UNCHANGED <<head, closed, drops, want, taken>>

\* TryPop on a non-empty ring; on an empty one it only reads.
TryPop ==
    /\ op = "none"
    /\ size > 0
    /\ RemoveHead
    /\ taken' = Append(taken, buf[head])
    /\ UNCHANGED <<closed, notify, drops, op, arg, want, moved, accepted, cum>>

\* PopBatch(maxN): lock, the loop, and the return of out.
BatchBegin(maxN) ==
    /\ op = "none"
    /\ op' = "batch"
    /\ want' = maxN
    /\ UNCHANGED <<buf, head, size, bytes, closed, notify, drops, arg, moved,
                   accepted, taken, cum>>

\* Mutant of BatchPop: the batch is built back to front.
BatchPopReversed ==
    /\ op = "batch"
    /\ Len(moved) < want
    /\ size > 0
    /\ RemoveHead
    /\ moved' = <<buf[head]>> \o moved
    /\ UNCHANGED <<closed, notify, drops, op, arg, want, accepted, taken, cum>>

BatchPop ==
    /\ op = "batch"
    /\ Len(moved) < want
    /\ size > 0
    /\ RemoveHead
    /\ moved' = Append(moved, buf[head])
    /\ UNCHANGED <<closed, notify, drops, op, arg, want, accepted, taken, cum>>

BatchEnd ==
    /\ op = "batch"
    /\ Len(moved) >= want \/ size = 0
    /\ op' = "none"
    /\ want' = 0
    /\ moved' = <<>>
    /\ taken' = taken \o moved
    /\ UNCHANGED <<buf, head, size, bytes, closed, notify, drops, arg,
                   accepted, cum>>

\* Close is idempotent: on a closed ring it changes nothing.
Close ==
    /\ op = "none"
    /\ ~closed
    /\ closed' = TRUE
    /\ UNCHANGED <<buf, head, size, bytes, notify, drops, op, arg, want, moved,
                   accepted, taken, cum>>

\* A consumer receives from the channel Notify() returns.  No lock is needed.
TakeNotify ==
    /\ notify
    /\ notify' = FALSE
    /\ UNCHANGED <<buf, head, size, bytes, closed, drops, op, arg, want, moved,
                   accepted, taken, cum>>

-----------------------------------------------------------------------------
Push == (\E cost \in Costs : PushBegin(cost)) \/ PushEvict \/ PushStore

PopBatch == (\E maxN \in PopSizes : BatchBegin(maxN)) \/ BatchPop \/ BatchEnd

Next == Push \/ TryPop \/ PopBatch \/ Close \/ TakeNotify

\* Whoever holds the lock neither blocks nor waits inside it.
HolderSteps == PushEvict \/ PushStore \/ BatchPop \/ BatchEnd

Spec == Init /\ [][Next]_ringVars

FairSpec == Spec /\ WF_ringVars(HolderSteps)

-----------------------------------------------------------------------------
\* Every variable of the ring keeps its type; in particular head stays inside
\* buf, size inside the capacity and bytes never goes below zero.
TypeOK ==
    /\ buf \in [Slots -> Entry]
    /\ head \in Slots
    /\ size \in 0 .. MaxEntries
    /\ bytes \in Nat
    /\ closed \in BOOLEAN
    /\ notify \in BOOLEAN
    /\ drops \in Nat
    /\ op \in {"none", "push", "batch"}
    /\ arg \in Entry
    /\ want \in Nat
    /\ moved \in Seq(Entry)
    /\ accepted \in Nat
    /\ taken \in Seq(Entry)
    /\ cum \in [0 .. accepted -> Nat]

\* The entries a PopBatch has removed and not yet returned.
InFlight == IF op = "batch" THEN Len(moved) ELSE 0

\* Nothing is lost silently: every entry Push accepted is buffered, was
\* returned to a consumer, is about to be, or was counted in Drops().
Conservation == accepted = drops + Len(taken) + InFlight + size

\* Overflow drops the oldest: whatever was evicted and popped, in whatever
\* order, the ring holds exactly the newest entries, oldest first from head.
HoldsNewest ==
    \A i \in 0 .. size - 1 : buf[Slot(i)].id = accepted - size + 1 + i

\* The byte cap is never exceeded; the one exception, which the loop's
\* r.size > 0 makes, is a single entry that alone is larger than the cap.
ByteCap == MaxBytes > 0 => bytes <= MaxBytes \/ size <= 1

\* Consumers receive entries in the order Push accepted them and none twice,
\* across any mix of TryPop and PopBatch, and before whatever is buffered.
InOrderDelivery ==
    /\ \A i, j \in DOMAIN taken : i < j => taken[i].id < taken[j].id
    /\ \A i \in DOMAIN taken : taken[i].id <= accepted - size

\* The lock is always released: the eviction loop terminates, also for an
\* entry larger than the byte cap and for a ring of one slot.
LockReleased == (op # "none") ~> (op = "none")
=============================================================================
