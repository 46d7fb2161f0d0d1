-------------------------------- MODULE Dump --------------------------------
(***************************************************************************)
(* One-shot mode: dispatch and runDump (cmd/blackboxd), the sources,       *)
(* Merge with its heap of cursors, and the output (internal/oneshot,       *)
(* internal/source/dmesg.go).  A log line is the time it parses to, or Bad *)
(* for one the parser refuses; Far is a time that JSON cannot hold (a      *)
(* journal's __REALTIME_TIMESTAMP may be any int64, and time.Parse takes   *)
(* an offset of 24 hours).  Half a second is the unit of time.             *)
(***************************************************************************)
EXTENDS Integers, Sequences, FiniteSets, Functions

CONSTANTS
    LastTime,   \* bound: times are 1 .. LastTime, 0 is Go's zero time
    Selections, \* the sources a command line may ask for: sequences over
                \* "file", "kmsg", "dmesg", "journal", in this order
    Contents,   \* what a source may hold: a set of sequences of lines
    Ends,       \* how reading may end: "eof", "open" (cannot be opened or
                \* started), "midway" (the read or the program fails),
                \* "hangs" (neither data nor an end: a FIFO, a wedged program)
    Windows,    \* pairs of --since and --until; 0 is unset
    MaxLines,   \* values of --max-lines
    Rooms,      \* how many entries the output has room for
    BufCap      \* entries that fit bufio.Writer's buffer

Far == LastTime + 1
Bad == -1

VARIABLES
    job,      \* the command line and its surroundings, fixed
    pc,       \* "dispatch", "args", "open", "read", "sift", "merge", "close",
              \* "done"
    todo,     \* sources that Merge has not read yet
    entries,  \* source -> entries read, sorted
    pq,       \* mergeHeap: a sequence of cursors [src, idx]
    from,     \* the node heap.Init, heap.Pop or heap.Fix called down for
    node,     \* down's i
    out,      \* [buf, gz, file : entries, err : a write has failed]
    written,  \* entries handed to the encoder without error
    code      \* exit code, -1 while running

heap == <<pq, from, node>>
vars == <<job, pc, todo, entries, heap, out, written, code>>

\* How the sources of a selection end: at most one is broken.
EndsOf(kinds) ==
    {f \in [DOMAIN kinds -> Ends] :
        Cardinality({s \in DOMAIN kinds : f[s] # "eof"}) <= 1}

\* What they hold: times since boot end in years that JSON can hold.
HoldsOf(kinds) ==
    {f \in [DOMAIN kinds -> Contents] :
        \A s \in DOMAIN kinds : Far \in Range(f[s]) => kinds[s] # "kmsg"}

Jobs ==
    UNION {[cmd : {"dump"}, kinds : {k},
            holds : HoldsOf(k), ends : EndsOf(k),
            window : Windows, max : MaxLines,
            bad : {FALSE}, gzip : BOOLEAN, creatable : {TRUE}, room : Rooms] :
                k \in Selections}

Kinds == job.kinds
Srcs == DOMAIN Kinds
Since == job.window[1]
Until == job.window[2]

AJob == CHOOSE j \in Jobs : j.kinds # <<>>

ASSUME DumpConstants ==
    /\ LastTime \in Nat
    /\ Selections \subseteq Seq({"file", "kmsg", "dmesg", "journal"})
    /\ Contents \subseteq Seq({Bad} \cup 0 .. Far)
    /\ Ends \subseteq {"eof", "open", "midway", "hangs"}
    /\ Windows \subseteq Nat \X Nat
    /\ MaxLines \subseteq Int
    /\ Rooms \subseteq Nat
    /\ BufCap \in Nat \ {0}
    /\ \E j \in Jobs : j.kinds # <<>>

\* Command lines that do not get as far as Merge.
Shortcuts ==
    {[AJob EXCEPT !.cmd = c] : c \in {"", "--config", "version", "help", "dump -x"}}
    \cup {[AJob EXCEPT !.bad = TRUE], [AJob EXCEPT !.creatable = FALSE]}

Init ==
    /\ job \in Jobs \cup Shortcuts
    /\ pc = "dispatch"
    /\ todo = Srcs
    /\ entries = [s \in Srcs |-> <<>>]
    /\ pq = <<>>
    /\ from = 0
    /\ node = 0
    /\ out = [buf |-> <<>>, gz |-> <<>>, file |-> <<>>, err |-> FALSE]
    /\ written = 0
    /\ code = -1

Finish(c) ==
    /\ code' = c
    /\ pc' = "done"
    /\ UNCHANGED <<job, todo, entries, heap, out, written>>

\* dispatch: service mode is not wired; an unknown flag is a usage error.  The
\* subcommand validate is runValidate of module Config.
Dispatch ==
    /\ pc = "dispatch"
    /\ CASE job.cmd = "dump" ->
                pc' = "args" /\ UNCHANGED <<job, todo, entries, heap, out, written, code>>
         [] job.cmd \in {"version", "help"} -> Finish(0)
         [] job.cmd = "dump -x" -> Finish(2)
         [] OTHER -> Finish(4)

\* buildOneshotFilter and buildOneshotSources: a --since or --until that does
\* not parse, or no source at all, is a usage error.
Args ==
    /\ pc = "args"
    /\ IF job.bad \/ Srcs = {}
       THEN Finish(2)
       ELSE pc' = "open" /\ UNCHANGED <<job, todo, entries, heap, out, written, code>>

OpenOutput ==
    /\ pc = "open"
    /\ IF job.creatable
       THEN pc' = "read" /\ UNCHANGED <<job, todo, entries, heap, out, written, code>>
       ELSE Finish(4)

-----------------------------------------------------------------------------
\* Mutant of Passes: the upper bound is exclusive.
PassesExclusive(at) ==
    /\ Since # 0 => at >= Since
    /\ Until # 0 => at < Until

\* Filter.Passes
Passes(at) ==
    /\ Since # 0 => at >= Since
    /\ Until # 0 => at <= Until

\* RFC 3339 without a fraction, the form in which journalctl gets the bounds.
WholeSecond(t) == t - (t % 2)

\* journalctl's own --since and --until.
JournalHas(at) ==
    /\ Since # 0 => at >= WholeSecond(Since)
    /\ Until # 0 => at <= WholeSecond(Until)

\* What reaches the parser: of a journal, what stands between two empty lines.  A
\* file that cannot be read on is a shorter file.
LinesOf(s) ==
    LET held == job.holds[s]
    IN  IF Kinds[s] \in {"file", "kmsg"} /\ job.ends[s] = "midway" /\ held # <<>>
        THEN SubSeq(held, 1, Len(held) - 1) ELSE held

\* RunDmesg's error: the start, a read or the exit code of dmesg.  The entries
\* it returns along with the last of these are not used.
RunDmesgFails(s) == job.ends[s] # "eof"

\* captureCommand's: journalctl cannot be run, fails, or is killed after 30 s;
\* what it has written by then is thrown away.
captureCommandFails(s) == job.ends[s] # "eof"

\* Read does not return by itself: a read of /dev/kmsg blocks once the kernel's
\* ring has been read.
Hangs(s) == job.ends[s] = "hangs" \/ (Kinds[s] = "kmsg" /\ job.ends[s] = "eof")

\* Read returns an error.
Failed(s) ==
    CASE Kinds[s] = "dmesg" -> RunDmesgFails(s)
      [] Kinds[s] = "journal" -> captureCommandFails(s)
      [] OTHER -> job.ends[s] = "open"

\* The entries Read returns.
ReadEntries(s) ==
    LET lines == LinesOf(s)
        kept == {i \in DOMAIN lines :
                    /\ lines[i] # Bad
                    /\ Passes(lines[i])
                    /\ Kinds[s] = "journal" => JournalHas(lines[i])}
    IN  {[src |-> s, line |-> i, at |-> lines[i]] : i \in kept}

\* Mutant of Before: equal times come out last line first.
BeforeUnstable(a, b) == a.at < b.at \/ (a.at = b.at /\ a.line > b.line)

\* The order sort.SliceStable gives the entries of one source.
Before(a, b) == a.at < b.at \/ (a.at = b.at /\ a.line < b.line)

\* The entries in that order; there is one such sequence.
SliceStable(S) ==
    {q \in [1 .. Cardinality(S) -> S] :
        /\ Range(q) = S
        /\ \A i, j \in DOMAIN q : i < j => Before(q[i], q[j])}

\* Merge takes the entries of s and gives them a cursor.
TakeEntries(s) ==
    /\ \E q \in SliceStable(ReadEntries(s)) : entries' = [entries EXCEPT ![s] = q]
    /\ pq' = Append(pq, [src |-> s, idx |-> 1])

\* The source Merge reads: they are read one after the other.
Reading == CHOOSE x \in todo : \A y \in todo : x <= y

\* Mutant of ReadSource: the first source that fails ends the dump.
ReadSourceAborts ==
    /\ pc = "read"
    /\ todo # {}
    /\ LET s == Reading
       IN  IF Failed(s)
           THEN Finish(4)
           ELSE /\ todo' = todo \ {s}
                /\ IF ReadEntries(s) = {} THEN UNCHANGED <<entries, pq>> ELSE TakeEntries(s)
                /\ UNCHANGED <<job, pc, from, node, out, written, code>>

\* One turn of Merge's first loop, when Read returns: a source that fails is
\* skipped, an empty one gets no cursor.
ReadSource ==
    /\ pc = "read"
    /\ todo # {}
    /\ LET s == Reading
       IN  /\ ~Hangs(s)
           /\ todo' = todo \ {s}
           /\ IF Failed(s) \/ ReadEntries(s) = {}
              THEN UNCHANGED <<entries, pq>>
              ELSE TakeEntries(s)
    /\ UNCHANGED <<job, pc, from, node, out, written, code>>

\* Mutant of captureTimeout: the command runs without a deadline.
captureForever == FALSE

\* captureCommand's 30 s are over and journalctl is killed: that turn of the
\* loop ends with its error.  Nothing ends a read of a file, or dmesg, which
\* runs under context.Background.
captureTimeout ==
    /\ pc = "read"
    /\ todo # {}
    /\ Hangs(Reading)
    /\ Kinds[Reading] = "journal"
    /\ todo' = todo \ {Reading}
    /\ UNCHANGED <<job, pc, entries, heap, out, written, code>>

-----------------------------------------------------------------------------
\* mergeHeap, over container/heap with the first index 1.
Head1(c) == entries[c.src][c.idx]

Less(h, i, j) == Head1(h[i]).at < Head1(h[j]).at

Swap(h, i, j) == [h EXCEPT ![i] = h[j], ![j] = h[i]]

\* container/heap: down(pq, i, Len(pq)) begins, and ends before Merge goes on.
DownFrom(i) ==
    /\ from' = i
    /\ node' = i
    /\ pc' = IF i = 0 THEN "merge" ELSE "sift"

\* heap.Init calls down for every node that has children, the last one first.
HeapInit ==
    /\ pc = "read"
    /\ todo = {}
    /\ DownFrom(Len(pq) \div 2)
    /\ UNCHANGED <<job, todo, entries, pq, out, written, code>>

\* The child of node i that is due first.
LeastChild(i) ==
    IF 2 * i + 1 <= Len(pq) /\ Less(pq, 2 * i + 1, 2 * i) THEN 2 * i + 1 ELSE 2 * i

\* That child is due before node i.
TooLow(i) == 2 * i <= Len(pq) /\ Less(pq, LeastChild(i), i)

\* One turn of down's loop, and the one that leaves it.
Sift ==
    /\ pc = "sift"
    /\ TooLow(node)
    /\ pq' = Swap(pq, node, LeastChild(node))
    /\ node' = LeastChild(node)
    /\ UNCHANGED <<job, pc, todo, entries, from, out, written, code>>

Sifted ==
    /\ pc = "sift"
    /\ ~TooLow(node)
    /\ DownFrom(from - 1)
    /\ UNCHANGED <<job, todo, entries, pq, out, written, code>>

\* What the output takes of xs before it is full.
Fits(o, xs) == SubSeq(xs, 1, IF Len(xs) < job.room - Len(o.file) THEN Len(xs)
                             ELSE job.room - Len(o.file))

\* xs is written to the file or to stdout.
Store(o, xs) ==
    [o EXCEPT !.file = @ \o Fits(o, xs), !.err = @ \/ Len(Fits(o, xs)) < Len(xs)]

\* bufio.Writer.Flush; gzip.Writer takes what it is given and may keep it.  An
\* error sticks and nothing is written after it.
Flushes(o) ==
    IF o.err THEN {o}
    ELSE IF job.gzip
         THEN {[o EXCEPT !.gz = @ \o o.buf, !.buf = <<>>],
               Store([o EXCEPT !.gz = <<>>, !.buf = <<>>], o.gz \o o.buf)}
         ELSE {Store([o EXCEPT !.buf = <<>>], o.buf)}

\* The buffer is flushed first when the entry does not fit.
Encoded(e) ==
    {IF o.err THEN o ELSE [o EXCEPT !.buf = Append(@, e)] :
        o \in IF Len(out.buf) = BufCap THEN Flushes(out) ELSE {out}}

\* The root's entry was written: the root moves on to its next entry, or is
\* taken out by heap.Pop, which puts the last element in its place.  Down then
\* starts from the root, as in heap.Fix(0), whose up has nowhere to go.
Advance ==
    LET moved == [pq EXCEPT ![1].idx = @ + 1]
    IN  IF moved[1].idx > Len(entries[moved[1].src])
        THEN SubSeq(Swap(moved, 1, Len(moved)), 1, Len(moved) - 1)
        ELSE moved

Capped == job.max > 0 /\ written >= job.max

\* One turn of Merge's second loop that writes an entry.
MergeOne ==
    /\ pc = "merge"
    /\ pq # <<>>
    /\ ~Capped
    /\ Head1(pq[1]).at # Far
    /\ \E o \in Encoded(Head1(pq[1])) :
        /\ ~o.err
        /\ out' = o
    /\ written' = written + 1
    /\ pq' = Advance
    /\ DownFrom(1)
    /\ UNCHANGED <<job, todo, entries, code>>

\* Encode fails, for the time or for the output: Merge and runDump return.
MergeFails ==
    /\ pc = "merge"
    /\ pq # <<>>
    /\ ~Capped
    /\ IF Head1(pq[1]).at = Far THEN out' = out
       ELSE \E o \in Encoded(Head1(pq[1])) : o.err /\ out' = o
    /\ code' = 4
    /\ pc' = "close"
    /\ UNCHANGED <<job, todo, entries, heap, written>>

\* Merge returns; runDump reports the count.
MergeEnds ==
    /\ pc = "merge"
    /\ pq = <<>> \/ Capped
    /\ code' = 0
    /\ pc' = "close"
    /\ UNCHANGED <<job, todo, entries, heap, out, written>>

\* writerCloser.Close: flush, then every closer; gzip.Writer.Close writes what
\* it holds.  After an error of one the others still run.
Closed == {IF o.err THEN o ELSE Store([o EXCEPT !.gz = <<>>], o.gz) : o \in Flushes(out)}

\* The deferred Close, whose error runDump does not look at.
CloseOutput ==
    /\ pc = "close"
    /\ out' \in Closed
    /\ pc' = "done"
    /\ UNCHANGED <<job, todo, entries, heap, written, code>>

Next ==
    \/ Dispatch \/ Args \/ OpenOutput
    \/ ReadSource \/ captureTimeout \/ HeapInit \/ Sift \/ Sifted
    \/ MergeOne \/ MergeFails \/ MergeEnds
    \/ CloseOutput

\* A single goroutine that the scheduler keeps running.
Spec == Init /\ [][Next]_vars /\ WF_vars(Next)

-----------------------------------------------------------------------------
Entry == [src : Srcs, line : Nat, at : 0 .. Far]

\* All that was encoded, wherever it is by now.
Encoding == out.file \o out.gz \o out.buf

DumpTypeOK ==
    /\ pc \in {"dispatch", "args", "open", "read", "sift", "merge", "close", "done"}
    /\ todo \subseteq Srcs
    /\ \A s \in Srcs : entries[s] \in Seq(Entry)
    /\ Range(pq) \subseteq [src : Srcs, idx : Nat \ {0}]
    /\ Encoding \in Seq(Entry)
    /\ Len(out.buf) <= BufCap
    /\ written \in Nat
    /\ code \in {-1, 0, 2, 4}

\* While Merge runs no cursor is exhausted, which would make Less index past
\* the entries, and no cursor is due before the one it hangs from.
HeapOrdered ==
    /\ pc \in {"sift", "merge"} =>
            \A i \in DOMAIN pq : pq[i].idx <= Len(entries[pq[i].src])
    /\ pc = "merge" =>
            \A i \in DOMAIN pq \ {1} : Head1(pq[i \div 2]).at <= Head1(pq[i]).at

\* "merges chronologically": the output is in order of time, and lines of one
\* source with the same time keep the source's order, whatever the sources hold.
DumpSorted ==
    /\ DumpTypeOK
    /\ HeapOrdered
    /\ \A i, j \in DOMAIN Encoding :
        i < j => /\ Encoding[i].at <= Encoding[j].at
                 /\ Encoding[i].src = Encoding[j].src /\ Encoding[i].at = Encoding[j].at
                        => Encoding[i].line < Encoding[j].line

\* The entries a dump is asked for: every line of a readable source that
\* parses and lies between the bounds, the bounds included.
Wanted ==
    {e \in UNION {{[src |-> s, line |-> i, at |-> LinesOf(s)[i]] : i \in DOMAIN LinesOf(s)} :
                    s \in {x \in Srcs : IF Kinds[x] \in {"file", "kmsg"}
                                        THEN job.ends[x] # "open"
                                        ELSE job.ends[x] = "eof"}} :
        /\ e.at # Bad
        /\ Since = 0 \/ Since <= e.at
        /\ Until = 0 \/ e.at <= Until}

\* A dump that ends with exit code 0 has written every entry it was asked for
\* exactly once, or with --max-lines that many, none later than one left out:
\* no broken source, empty source or refused line takes others with it.
\* Excepted: an --until within a second, which journalctl gets rounded down,
\* and an output that is full when Close flushes it, which goes unreported.
DumpComplete ==
    pc = "done" /\ job.cmd = "dump" /\ code = 0 /\ ~out.err /\ Until % 2 = 0 =>
        LET got == Range(out.file)
        IN  /\ got \subseteq Wanted
            /\ Len(out.file) = Cardinality(got)
            /\ Cardinality(got) = IF job.max > 0 /\ job.max < Cardinality(Wanted)
                                  THEN job.max ELSE Cardinality(Wanted)
            /\ \A a \in got, b \in Wanted \ got : a.at <= b.at

\* "one broken source must not abort the whole dump": once its output is open
\* a dump fails only for that output or for a time that JSON cannot hold.
DumpAborts ==
    code = 4 /\ job.cmd = "dump" /\ job.creatable =>
        out.err \/ \E s \in Srcs : Far \in Range(job.holds[s])

\* Merge waits for a source that never ends and that has no deadline.
Stuck == pc = "read" /\ todo # {} /\ Hangs(Reading) /\ Kinds[Reading] # "journal"

\* "a wedged journalctl can't block dump indefinitely": a dump comes to its end,
\* or to a source that hangs, which is /dev/kmsg, dmesg or a file, never
\* journalctl; whatever else its sources and its output do.
DumpEnds == <>(pc = "done" \/ Stuck)
=============================================================================
