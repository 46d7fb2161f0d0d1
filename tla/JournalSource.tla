---------------------------- MODULE JournalSource ----------------------------
(***************************************************************************)
(* JournalSource (internal/source/journal.go): Run starts journalctl, and  *)
(* consume cuts its output at the blank lines and emits one entry per      *)
(* part.  A part is two lines here.  The export format ends a record with  *)
(* a blank line, but writes a field of several lines, or a binary one, as  *)
(* it is: an empty line in it, or a length whose first byte is a newline,  *)
(* is a blank line inside the record, which then has several parts.  The   *)
(* child writes line by line into a pipe, may die between any two, and is  *)
(* killed when the context is done.                                        *)
(***************************************************************************)
EXTENDS BoundedEmit

CONSTANTS
    Journal,        \* the emitter's name
    MaxParts,       \* bound: parts in the journal
    Inside,         \* the parts whose blank line is inside a record
    Refused,        \* parts the parser refuses
    PipeCap,        \* bound: lines that fit the pipe
    FromBeginning   \* argv leaves -f out: the child ends after the last record

ASSUME JournalConstants ==
    /\ Journal \in Emitters
    /\ MaxParts \in Nat /\ PipeCap \in Nat
    /\ FromBeginning \in BOOLEAN

VARIABLES
    jpc,     \* "start", "check", "read", "emit", "last" (the emit after EOF),
             \* "wait" (cmd.Wait) or "done"
    buf,     \* lines of the part being collected
    pipe,    \* lines in the pipe
    child,   \* "none", "runs", "ok" or "failed": journalctl
    wrote,   \* lines the child has written; each third one is blank
    jret,    \* what Run returned: "none", "nil", "err" or "readErr"
    done     \* ctx is done

journalVars == <<jpc, buf, pipe, child, wrote, jret>>

Blank == 0
Total == 3 * MaxParts

\* The n-th line of the export, as [part, line].
LineAt(n) == IF n % 3 = 0 THEN <<n \div 3, Blank>> ELSE <<n \div 3 + 1, n % 3>>

JournalInit ==
    /\ jpc = "start"
    /\ buf = <<>>
    /\ pipe = <<>>
    /\ child = "none"
    /\ wrote = 0
    /\ jret = "none"

\* cmd.Start, which may fail.
JournalStart ==
    /\ jpc = "start"
    /\ \/ /\ child' = "runs"
          /\ jpc' = "check"
          /\ UNCHANGED jret
       \/ /\ jpc' = "done"
          /\ jret' = "err"
          /\ UNCHANGED child
    /\ UNCHANGED <<buf, pipe, wrote, done, emitVars>>

ChildWrites ==
    /\ child = "runs"
    /\ wrote < Total
    /\ Len(pipe) < PipeCap
    /\ wrote' = wrote + 1
    /\ pipe' = Append(pipe, LineAt(wrote + 1))
    /\ UNCHANGED <<jpc, buf, child, jret, done, emitVars>>

\* The child is done, without -f; or it fails; or exec.CommandContext kills it.
ChildEnds ==
    /\ child = "runs"
    /\ \/ FromBeginning /\ wrote = Total /\ child' = "ok"
       \/ child' = "failed"
    /\ UNCHANGED <<jpc, buf, pipe, wrote, jret, done, emitVars>>

ChildKilled ==
    /\ child = "runs"
    /\ done
    /\ child' = "failed"
    /\ UNCHANGED <<jpc, buf, pipe, wrote, jret, done, emitVars>>

\* The select at the top of consume's loop.
JournalCheck ==
    /\ jpc = "check"
    /\ jpc' = IF done THEN "wait" ELSE "read"
    /\ UNCHANGED <<buf, pipe, child, wrote, jret, done, emitVars>>

\* emitRecord(rec) and what follows it: pc after an entry the parser refused,
\* pc while emit runs.
EmitRecord(rec, after, meanwhile) ==
    IF rec[1][1] \in Refused
    THEN jpc' = after /\ UNCHANGED emitVars
    ELSE jpc' = meanwhile /\ CallEmit(Journal, rec)

\* Mutant of JournalRead: the line before the blank one is left out.
JournalReadCuts ==
    /\ jpc = "read"
    /\ pipe # <<>>
    /\ pipe' = Tail(pipe)
    /\ IF Head(pipe)[2] = Blank /\ buf # <<>>
       THEN EmitRecord(Front(buf), "check", "emit") /\ buf' = <<>>
       ELSE /\ buf' = IF Head(pipe)[2] = Blank THEN buf ELSE Append(buf, Head(pipe))
            /\ jpc' = "check"
            /\ UNCHANGED emitVars
    /\ UNCHANGED <<child, wrote, jret, done>>

\* ReadString returned a line: a blank one, wherever it stands, ends the part.
JournalRead ==
    /\ jpc = "read"
    /\ pipe # <<>>
    /\ pipe' = Tail(pipe)
    /\ IF Head(pipe)[2] = Blank /\ buf # <<>>
       THEN EmitRecord(buf, "check", "emit") /\ buf' = <<>>
       ELSE /\ buf' = IF Head(pipe)[2] = Blank THEN buf ELSE Append(buf, Head(pipe))
            /\ jpc' = "check"
            /\ UNCHANGED emitVars
    /\ UNCHANGED <<child, wrote, jret, done>>

\* ReadString returned io.EOF: the rest is a part too.
JournalEOF ==
    /\ jpc = "read"
    /\ pipe = <<>>
    /\ child \in {"ok", "failed"}
    /\ IF buf # <<>> THEN EmitRecord(buf, "wait", "last")
       ELSE jpc' = "wait" /\ UNCHANGED emitVars
    /\ UNCHANGED <<buf, pipe, child, wrote, jret, done>>

\* emit has returned.
JournalEmitted ==
    /\ jpc \in {"emit", "last"}
    /\ phase[Journal] = "idle"
    /\ jpc' = IF jpc = "emit" THEN "check" ELSE "wait"
    /\ UNCHANGED <<buf, pipe, child, wrote, jret, done, emitVars>>

\* cmd.Wait: an exit code other than 0, or a kill, is an error.
JournalWait ==
    /\ jpc = "wait"
    /\ child \in {"ok", "failed"}
    /\ jret' = IF child = "ok" THEN "nil" ELSE "err"
    /\ jpc' = "done"
    /\ UNCHANGED <<buf, pipe, child, wrote, done, emitVars>>

\* Any other error of the read: the child is killed and Run returns.
JournalReadFails ==
    /\ jpc = "read"
    /\ child' = "failed"
    /\ jpc' = "done"
    /\ jret' = "readErr"
    /\ UNCHANGED <<buf, pipe, wrote, done, emitVars>>

JournalStep ==
    \/ JournalStart \/ JournalCheck \/ JournalRead \/ JournalEOF
    \/ JournalEmitted \/ JournalWait

-----------------------------------------------------------------------------
JournalTypeOK ==
    /\ jpc \in {"start", "check", "read", "emit", "last", "wait", "done"}
    /\ child \in {"none", "runs", "ok", "failed"}
    /\ wrote \in 0 .. Total
    /\ jret \in {"none", "nil", "err", "readErr"}

\* The parts of one record have only blank lines inside it between them.
SameRecord(p, q) == (p .. q - 1) \cup (q .. p - 1) \subseteq Inside

\* The lines of the record that part p belongs to.
RecordLines(p) == {<<q, l>> : q \in {x \in 1 .. MaxParts : SameRecord(p, x)}, l \in {1, 2}}

\* Records are not mixed up: an entry has lines of one part in their order, all
\* of them unless the child died inside it; and these are all lines of the
\* record, unless the record has a blank line inside.  A source that ends by
\* itself has emitted every part of which the child wrote anything, the last
\* one also without its blank line.
JournalWhole ==
    /\ JournalTypeOK
    /\ \A i \in DOMAIN handed[Journal] :
        LET rec == handed[Journal][i].lines
            p == rec[1][1]
        IN  \/ /\ rec = <<<<p, 1>>, <<p, 2>>>>
               /\ {p - 1, p} \cap Inside = {} => Range(rec) = RecordLines(p)
            \/ /\ child = "failed"
               /\ i = Len(handed[Journal])
               /\ rec = <<<<p, 1>>>>
    /\ jpc = "done" /\ ~done /\ jret # "readErr" =>
        {x.lines[1][1] : x \in Range(handed[Journal])}
            = {LineAt(n)[1] : n \in 1 .. wrote} \ Refused
=============================================================================
