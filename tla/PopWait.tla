------------------------------- MODULE PopWait -------------------------------
(***************************************************************************)
(* RingBuffer.PopWait (internal/pipeline/ring.go): one consumer that calls *)
(* the blocking pop in a loop until it returns nil, racing producers, the  *)
(* cancellation of its context and Close.  TryPop and the select are       *)
(* separate steps: anything may happen between them.                       *)
(***************************************************************************)
EXTENDS RingBuffer

VARIABLES
    wpc,        \* "call", "try", "select", "last" (the TryPop of the closedC
                \* case) or "nil" (PopWait has returned nil)
    cancelled   \* ctx is done

waitVars == <<ringVars, wpc, cancelled>>

WInit ==
    /\ Init
    /\ wpc = "call"
    /\ cancelled = FALSE

\* The caller enters PopWait.
Call ==
    /\ wpc = "call"
    /\ wpc' = "try"
    /\ UNCHANGED <<ringVars, cancelled>>

\* TryPop found an entry; PopWait returns it from the loop or the last try.
ReturnEntry ==
    /\ wpc \in {"try", "last"}
    /\ TryPop
    /\ wpc' = "call"
    /\ UNCHANGED cancelled

\* TryPop found the ring empty: drained, or time to wait.
FindEmpty ==
    /\ wpc = "try"
    /\ op = "none"
    /\ size = 0
    /\ wpc' = IF closed THEN "nil" ELSE "select"
    /\ UNCHANGED <<ringVars, cancelled>>

SelectCtx ==
    /\ wpc = "select"
    /\ cancelled
    /\ wpc' = "nil"
    /\ UNCHANGED <<ringVars, cancelled>>

SelectClosed ==
    /\ wpc = "select"
    /\ closed
    /\ wpc' = "last"
    /\ UNCHANGED <<ringVars, cancelled>>

\* Mutant of SelectNotify: it waits again without trying.
SelectNotifyWaits ==
    /\ wpc = "select"
    /\ TakeNotify
    /\ UNCHANGED <<wpc, cancelled>>

SelectNotify ==
    /\ wpc = "select"
    /\ TakeNotify
    /\ wpc' = "try"
    /\ UNCHANGED cancelled

\* Mutant of LastEmpty: back to the select.
LastEmptyRetries ==
    /\ wpc = "last"
    /\ op = "none"
    /\ size = 0
    /\ wpc' = "select"
    /\ UNCHANGED <<ringVars, cancelled>>

\* The TryPop of the closedC case found the ring empty.
LastEmpty ==
    /\ wpc = "last"
    /\ op = "none"
    /\ size = 0
    /\ wpc' = "nil"
    /\ UNCHANGED <<ringVars, cancelled>>

Consumer ==
    \/ Call \/ ReturnEntry \/ FindEmpty
    \/ SelectCtx \/ SelectClosed \/ SelectNotify \/ LastEmpty

Cancel ==
    /\ ~cancelled
    /\ cancelled' = TRUE
    /\ UNCHANGED <<ringVars, wpc>>

Producer == Push /\ UNCHANGED <<wpc, cancelled>>

Closer == Close /\ UNCHANGED <<wpc, cancelled>>

WNext == Consumer \/ Producer \/ Closer \/ Cancel

\* The consumer's goroutine and whoever holds the lock keep running.  The lock
\* is free infinitely often, and sync.Mutex hands it to a waiter in the end.
WSpec ==
    /\ WInit
    /\ [][WNext]_waitVars
    /\ WF_waitVars((PushEvict \/ PushStore) /\ UNCHANGED <<wpc, cancelled>>)
    /\ SF_waitVars(Consumer)

-----------------------------------------------------------------------------
WTypeOK ==
    /\ TypeOK
    /\ wpc \in {"call", "try", "select", "last", "nil"}
    /\ cancelled \in BOOLEAN

\* No lost wakeup: PopWait never sleeps in its select on a ring that holds an
\* entry unless the token of that entry's push, or the close, will wake it.
NoLostWakeup ==
    /\ WTypeOK
    /\ wpc = "select" /\ size > 0 => notify \/ closed

\* Every accepted entry is returned by PopWait or evicted, unless the context
\* is cancelled.
AllConsumed ==
    \A n \in 1 .. MaxPushes :
        (accepted >= n) ~> (Len(taken) + drops >= n \/ cancelled)

\* Close ends the consumer's loop, and no earlier than it has read what was
\* buffered: PopWait never abandons an entry that Close left readable.
ConsumerEnds == closed ~> (wpc = "nil" /\ (cancelled \/ size = 0))
=============================================================================
