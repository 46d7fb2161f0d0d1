----------------------------- MODULE LiveSources -----------------------------
(***************************************************************************)
(* The journal and the kernel source side by side, each a goroutine, with  *)
(* one sink behind their emit callbacks and one context to stop them.      *)
(***************************************************************************)
EXTENDS JournalSource, KMsgSource

ASSUME TwoSources == Journal # KMsg

vars == <<emitVars, journalVars, kmsgVars, done>>

Init ==
    /\ EmitInit
    /\ JournalInit
    /\ KMsgInit
    /\ done = FALSE

Cancel ==
    /\ ~done
    /\ done' = TRUE
    /\ UNCHANGED <<emitVars, journalVars, kmsgVars>>

JournalRuns == JournalStep /\ UNCHANGED kmsgVars
JournalWorld == (ChildWrites \/ ChildEnds \/ ChildKilled \/ JournalReadFails) /\ UNCHANGED kmsgVars
KMsgRuns == KMsgStep(done) /\ UNCHANGED <<journalVars, done>>
KMsgWorld == (KernelLogs \/ KMsgReadFails) /\ UNCHANGED <<journalVars, done>>
EmitRuns(c) == EmitStep(c) /\ UNCHANGED <<journalVars, kmsgVars, done>>
Reader == Receive /\ UNCHANGED <<journalVars, kmsgVars, done>>

Next ==
    \/ Cancel
    \/ JournalRuns \/ JournalWorld
    \/ KMsgRuns \/ KMsgWorld
    \/ \E c \in Emitters : EmitRuns(c)
    \/ Reader

\* Goroutines keep running, timers fire and exec.CommandContext kills the
\* child; nothing is assumed of the child, the kernel or the sink's reader.
Spec ==
    /\ Init
    /\ [][Next]_vars
    /\ WF_vars(JournalRuns)
    /\ WF_vars(KMsgRuns)
    /\ \A c \in Emitters : WF_vars(EmitRuns(c))
    /\ WF_vars(ChildKilled /\ UNCHANGED kmsgVars)

-----------------------------------------------------------------------------
\* Once the context is done both sources return: from a read of a child that
\* says nothing, from an emit whose sink nobody reads, and from a kernel log
\* that never falls silent.  Excepted is a kernel source that Go's poller has
\* waiting in Read for a record that never comes.
SourcesStop ==
    /\ done ~> (jpc = "done")
    /\ done ~> (kpc = "done" \/ (polled /\ kpc = "read" /\ kpos > klast))
=============================================================================
