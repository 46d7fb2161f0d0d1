------------------------------- MODULE Batcher -------------------------------
(***************************************************************************)
(* internal/pipeline/batcher.go: the goroutine that drains the ring into   *)
(* batches and hands each to the Flush callback, composed with the ring,   *)
(* its producers, the interval timer, the cancellation of ctx and Close.   *)
(*                                                                         *)
(* Receiving in the select, PopBatch, and the two ends of a Flush call are *)
(* steps of their own, so pushes, evictions, Close, cancellation and the   *)
(* timer interleave with them.  The Flush callback takes arbitrarily long  *)
(* and returns nil or an error: Run only logs the error, so both outcomes  *)
(* are the same step here.  It is assumed not to panic.                    *)
(***************************************************************************)
EXTENDS RingBuffer

CONSTANT BatchSize      \* b.cfg.BatchSize

ASSUME BatchSizeAssumption == BatchSize \in Nat \ {0}

VARIABLES
    bpc,        \* where Run is: "drain", "draining", "check", "select",
                \* "flush", "flushing" or "done"
    branch,     \* why it drains or flushes: "size", "interval" or "final"
    pending,    \* pending
    batch,      \* the batch inside the Flush call
    timer,      \* "armed", "fired" (timer.C holds a tick) or "idle"
    cancelled,  \* ctx is done
    handed      \* history: the entries whose Flush call has returned

ownVars   == <<bpc, branch, pending, batch, timer, cancelled, handed>>
batchVars == <<ringVars, ownVars>>

\* Run's prologue: the timer is armed and the first drain is due.
BInit ==
    /\ Init
    /\ bpc = "drain"
    /\ branch = "size"
    /\ pending = <<>>
    /\ batch = <<>>
    /\ timer = "armed"
    /\ cancelled = FALSE
    /\ handed = <<>>

-----------------------------------------------------------------------------
\* Mutants of DrainBegin: the room already taken is ignored; one entry per
\* notification.
DrainBeginFull ==
    /\ bpc = "drain"
    /\ BatchBegin(BatchSize)
    /\ bpc' = "draining"
    /\ UNCHANGED <<branch, pending, batch, timer, cancelled, handed>>

DrainBeginOne ==
    /\ bpc = "drain"
    /\ BatchBegin(1)
    /\ bpc' = "draining"
    /\ UNCHANGED <<branch, pending, batch, timer, cancelled, handed>>

\* drain: PopBatch(BatchSize - len(pending)), then append.
DrainBegin ==
    /\ bpc = "drain"
    /\ BatchBegin(BatchSize - Len(pending))
    /\ bpc' = "draining"
    /\ UNCHANGED <<branch, pending, batch, timer, cancelled, handed>>

DrainPop ==
    /\ bpc = "draining"
    /\ BatchPop
    /\ UNCHANGED ownVars

\* Mutant of DrainEnd: pending is overwritten.
DrainEndOverwrites ==
    /\ bpc = "draining"
    /\ BatchEnd
    /\ pending' = moved
    /\ bpc' = "check"
    /\ UNCHANGED <<branch, batch, timer, cancelled, handed>>

DrainEnd ==
    /\ bpc = "draining"
    /\ BatchEnd
    /\ pending' = pending \o moved
    /\ bpc' = "check"
    /\ UNCHANGED <<branch, batch, timer, cancelled, handed>>

\* After a drain: the shutdown branches always flush, the others only a full
\* batch.
Check ==
    /\ bpc = "check"
    /\ bpc' = IF branch = "final" \/ Len(pending) >= BatchSize
                THEN "flush" ELSE "select"
    /\ UNCHANGED <<ringVars, branch, pending, batch, timer, cancelled, handed>>

\* Mutant of AfterFlush: the timer is not reset.
AfterFlushNoReset ==
    /\ bpc' = IF branch = "final" THEN "done" ELSE "select"
    /\ UNCHANGED timer

\* Where Run goes after flush: the shutdown branches return, the others call
\* resetTimer, which discards a tick nobody received, and select again.
AfterFlush ==
    IF branch = "final"
      THEN bpc' = "done" /\ UNCHANGED timer
      ELSE bpc' = "select" /\ timer' = "armed"

\* flush returns at once when nothing is pending.
FlushNothing ==
    /\ bpc = "flush"
    /\ pending = <<>>
    /\ AfterFlush
    /\ UNCHANGED <<ringVars, branch, pending, batch, cancelled, handed>>

\* flush calls cfg.Flush, which is set; without one Run drops every batch.
FlushBegin ==
    /\ bpc = "flush"
    /\ pending # <<>>
    /\ batch' = pending
    /\ pending' = <<>>
    /\ bpc' = "flushing"
    /\ UNCHANGED <<ringVars, branch, timer, cancelled, handed>>

FlushEnd ==
    /\ bpc = "flushing"
    /\ handed' = handed \o batch
    /\ batch' = <<>>
    /\ AfterFlush
    /\ UNCHANGED <<ringVars, branch, pending, cancelled>>

\* Mutant of SelectStop: only the context ends Run.
SelectStopCtxOnly ==
    /\ bpc = "select"
    /\ cancelled
    /\ branch' = "final"
    /\ bpc' = "drain"
    /\ UNCHANGED <<ringVars, pending, batch, timer, cancelled, handed>>

\* The select: any ready case may be chosen.
SelectStop ==
    /\ bpc = "select"
    /\ cancelled \/ closed
    /\ branch' = "final"
    /\ bpc' = "drain"
    /\ UNCHANGED <<ringVars, pending, batch, timer, cancelled, handed>>

SelectTimer ==
    /\ bpc = "select"
    /\ timer = "fired"
    /\ timer' = "idle"
    /\ branch' = "interval"
    /\ bpc' = "flush"
    /\ UNCHANGED <<ringVars, pending, batch, cancelled, handed>>

SelectNotify ==
    /\ bpc = "select"
    /\ TakeNotify
    /\ branch' = "size"
    /\ bpc' = "drain"
    /\ UNCHANGED <<pending, batch, timer, cancelled, handed>>

Run ==
    \/ DrainBegin \/ DrainPop \/ DrainEnd \/ Check
    \/ FlushNothing \/ FlushBegin \/ FlushEnd
    \/ SelectStop \/ SelectTimer \/ SelectNotify

-----------------------------------------------------------------------------
\* The environment: the runtime's timer, the producers, and shutdown.
TimerFires ==
    /\ timer = "armed"
    /\ timer' = "fired"
    /\ UNCHANGED <<ringVars, bpc, branch, pending, batch, cancelled, handed>>

Cancel ==
    /\ ~cancelled
    /\ cancelled' = TRUE
    /\ UNCHANGED <<ringVars, bpc, branch, pending, batch, timer, handed>>

Producer == Push /\ UNCHANGED ownVars

Closer == Close /\ UNCHANGED ownVars

BNext == Run \/ TimerFires \/ Producer \/ Closer \/ Cancel

\* The batcher's goroutine, a producer inside the lock and the runtime's timer
\* keep running; the lock is handed to a waiter in the end (strong fairness of
\* DrainBegin), and select chooses uniformly among the ready cases, so one that
\* stays ready is chosen in the end (strong fairness of the three cases).
BFairness ==
    /\ WF_batchVars(Run)
    /\ WF_batchVars(TimerFires)
    /\ WF_batchVars((PushEvict \/ PushStore) /\ UNCHANGED ownVars)
    /\ SF_batchVars(DrainBegin)
    /\ SF_batchVars(SelectStop)
    /\ SF_batchVars(SelectTimer)
    /\ SF_batchVars(SelectNotify)

BSpec == BInit /\ [][BNext]_batchVars /\ BFairness

-----------------------------------------------------------------------------
BTypeOK ==
    /\ TypeOK
    /\ bpc \in {"drain", "draining", "check", "select", "flush", "flushing",
                "done"}
    /\ branch \in {"size", "interval", "final"}
    /\ pending \in Seq(Entry)
    /\ batch \in Seq(Entry)
    /\ timer \in {"armed", "fired", "idle"}
    /\ cancelled \in BOOLEAN
    /\ handed \in Seq(Entry)

\* Between the ring and the Flush callback no entry is lost, duplicated or
\* reordered, however flushes, drains, ticks and evictions interleave.
NothingSlips == taken = handed \o batch \o pending

\* Flush is called with 1 to BatchSize entries, and exactly BatchSize when the
\* size trigger called it; and a full pending never reaches the select, where
\* PopBatch(0) would consume the token for nothing.
BatchBounds ==
    /\ BTypeOK
    /\ bpc = "flushing" =>
        /\ Len(batch) \in 1 .. BatchSize
        /\ branch = "size" => Len(batch) = BatchSize
    /\ bpc \in {"drain", "select"} => Len(pending) < BatchSize

\* The only entries the batcher can sleep on, with no token to wake it, are the
\* ones behind a batch that was full: then nothing is pending.
SleepsOnlyAfterFullBatch ==
    bpc = "select" /\ size > 0 /\ ~notify => pending = <<>>

\* What is pending reaches Flush: the interval timer is honoured however many
\* notifications compete with it.
PendingFlushed == (pending # <<>>) ~> (pending = <<>>)

\* A closed ring or a done context ends Run, however busy it is, and Run's
\* return leaves nothing behind that it has popped.
RunEnds == (cancelled \/ closed) ~> (bpc = "done" /\ handed = taken)

-----------------------------------------------------------------------------
\* "Multiple pushes between reads coalesce; consumers must drain in a loop":
\* while the daemon runs, every accepted entry is handed to Flush or evicted.
EveryEntryFlushed ==
    \A n \in 1 .. MaxPushes :
        (accepted >= n) ~>
            (Len(handed) + drops >= n \/ cancelled \/ closed)
=============================================================================
