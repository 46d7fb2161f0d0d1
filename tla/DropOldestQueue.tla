--------------------------- MODULE DropOldestQueue ---------------------------
(***************************************************************************)
(* What internal/pipeline/ring.go promises its clients: a FIFO queue whose *)
(* operations are atomic, that makes room for a new entry by dropping the  *)
(* least number of oldest ones.  No slots, no indices, no loops.           *)
(***************************************************************************)
EXTENDS Integers, Sequences, FiniteSets

CONSTANTS MaxEntries, MaxBytes, Costs, PopSizes

VARIABLES
    queue,      \* the buffered entries, oldest first
    isClosed,   \* Close has been called
    signal,     \* a push has happened since the last receive from Notify()
    dropped,    \* the number of entries dropped for capacity
    delivered,  \* the entries returned to consumers, in order
    count       \* the number of entries accepted

queueVars == <<queue, isClosed, signal, dropped, delivered, count>>

\* The bytes of q, each as the position of its entry and its number there.
Bytes(q) == UNION {{i} \X (1 .. q[i].cost) : i \in 1 .. Len(q)}

Weight(q) == Cardinality(Bytes(q))

\* An entry of the given cost can be appended to q: there is a free place, and
\* the byte cap is respected unless the entry is alone.
Fits(q, cost) ==
    /\ Len(q) < MaxEntries
    /\ MaxBytes > 0 => (q = <<>> \/ Weight(q) + cost <= MaxBytes)

\* q without its k oldest entries.
Without(q, k) == SubSeq(q, k + 1, Len(q))

QInit ==
    /\ queue = <<>>
    /\ isClosed = FALSE
    /\ signal = FALSE
    /\ dropped = 0
    /\ delivered = <<>>
    /\ count = 0

QPush(cost) ==
    /\ ~isClosed
    /\ \E k \in 0 .. Len(queue) :
         /\ Fits(Without(queue, k), cost)
         /\ \A j \in 0 .. k - 1 : ~Fits(Without(queue, j), cost)
         /\ queue' = Append(Without(queue, k),
                            [id |-> count + 1, cost |-> cost])
         /\ dropped' = dropped + k
    /\ signal' = TRUE
    /\ count' = count + 1
    /\ UNCHANGED <<isClosed, delivered>>

QPop(maxN) ==
    LET n == IF Len(queue) < maxN THEN Len(queue) ELSE maxN
    IN  /\ delivered' = delivered \o SubSeq(queue, 1, n)
        /\ queue' = Without(queue, n)
        /\ UNCHANGED <<isClosed, signal, dropped, count>>

QClose ==
    /\ isClosed' = TRUE
    /\ UNCHANGED <<queue, signal, dropped, delivered, count>>

QTakeSignal ==
    /\ signal
    /\ signal' = FALSE
    /\ UNCHANGED <<queue, isClosed, dropped, delivered, count>>

QNext ==
    \/ \E cost \in Costs : QPush(cost)
    \/ \E maxN \in PopSizes \cup {1} : QPop(maxN)
    \/ QClose
    \/ QTakeSignal

QSpec == QInit /\ [][QNext]_queueVars
=============================================================================
