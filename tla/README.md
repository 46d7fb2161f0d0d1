# A TLA+ verification of blackboxd

blackboxd collects log lines on an embedded Linux device, parses them, buffers
them in memory, batches them and publishes the batches over MQTT; when the
broker is unreachable the batches go to a bounded spool on disk and are replayed
later.  This directory holds TLA+ models of the parts that carry that promise,
the TLC configurations that check them on small instances, and TLAPS proofs of
the theorems that hold for every value of the constants.

Paths below are relative to the root of the repository.

## 1. Inventory

The data path, left to right:

    sources --emit--> parser --> rate limiter --> ring --> batcher --Flush-->
        serialiser --> SpooledPublisher --> MQTT publisher
                             |  ^
                             v  | replay goroutine
                           disk spool

| component | state it keeps | operations | concurrency, failure, ordering |
|---|---|---|---|
| ring buffer (`internal/pipeline/ring.go`) | circular array, head, size, byte count, closed flag, one-token notify channel, drop counter | `Push`, `TryPop`, `PopWait`, `PopBatch`, `Close`, `Notify`, `Drops`, `Len` | many producers, one consumer, one mutex; overflow evicts the oldest; the notify token coalesces |
| batcher (`internal/pipeline/batcher.go`) | `pending`, an interval timer | `Run` | select over ctx, closed ring, timer and notify; the size trigger races the interval trigger and shutdown |
| spool and spooled publisher (`internal/transport/spool.go`) | files in a directory, name sequence number, drop counter, `liveBusy` | `Append`, `List`, `Read`, `Delete`, evict, `Publish`, `Run`/`replayOnce` | live publishes and the replay goroutine share one lock but not the listing; any system call may fail; the process may crash between any two |
| MQTT publisher (`internal/transport/mqtt.go`) | the autopaho connection | `Publish`, `Close` | timeouts, reason codes; a late acknowledgement makes a delivered message look failed |
| rate limiter (`internal/pipeline/rate.go`) | a token bucket per source | `Allow` | refill arithmetic, a clock that may step back |
| serialiser (`internal/pipeline/serialize.go`) | none | `Serialize` | none |
| file source and offset store (`internal/source/file.go`, `offset.go`) | open file, inode, offset, saved offset | `Run`, `drain`, `checkRotation`, `Load`, `Save` | rotation and truncation race with reading; a crash between emitting and saving |
| bounded emit (`internal/source/source.go`) | a drop counter, a sink channel shared by all sources | the emit closure | the budget's timer races a reader that may be slow or gone |
| kernel and journal sources (`internal/source/kmsg_*.go`, `dmesg.go`, `journal.go`) | a position in the kernel's ring; a subprocess, its pipe and the record being collected | `Run`, `consume`, `emitRecord`, `RunDmesg` | overrun of the kernel ring, a child that dies inside a record, cancellation in a read or in an emit |
| one-shot dump (`internal/oneshot/`, `cmd/blackboxd/dump.go`) | a heap of source cursors, the buffered output | `Read` of each source, `Merge`, `OpenOutput`, `Close` | order of a k-way merge over unordered inputs; broken sources; a full output |
| parsers (`internal/parser/`) | none | `Parse` of five formats, `Level`'s JSON | bounds of hand-written scanners, int64 limits |
| configuration (`internal/config/`) | none after start-up | `Load`, `applyDefaults`, `Validate` | order of the checks; what is accepted must be buildable |
| security checks (`internal/security/`) | none | `ValidatePath`, mode checks, `ParsePin`, `BuildClientTLS` | textual prefixes, file types |
| command line (`cmd/blackboxd/main.go`) | none | `dispatch`, `runDump`, `runValidate`; service mode is not wired | exit codes |

What makes each part correct, and where the code is exposed, is the list
`hazards` of `PROJECT.json`: each entry names the line and the properties that
cover it, or says why none does yet.  In short:

* ring: nothing accepted disappears uncounted; overflow drops the *oldest*;
  order is kept; the byte count never drifts; a waiting consumer always wakes;
* batcher: nothing is lost, duplicated or reordered between the ring and
  `Flush`; a batch never exceeds its size; the interval is honoured; shutdown
  ends `Run`;
* spool: a batch accepted by `Publish` reaches the broker, stays on disk, or is
  counted as dropped, across crashes, failing calls and outages; duplicates only
  where something failed; replay in order; the cap holds; the spool drains;
* file source: no line lost or repeated over rotation and restart, beyond what
  the comments concede;
* dump: the output is sorted and complete, a broken source costs only itself,
  and the dump ends once its sources have;
* rate limiter: never more than burst plus rate times the length of any window,
  and nothing refused before that, also when the clock is set back;
* journal, kernel ring and emit: records in order and once, and whole where the
  framing allows it; every entry sent or counted as dropped; cancellation stops the source;
* parsers: the lines of the grammar and what a few named liberties add, with every
  field in its place;
* configuration and checks: what is accepted can be built and run; no path leads
  out of the allowed directories; devices never share a topic.

## 2. Modules

| module | what it models |
|---|---|
| `RingBuffer` | `ring.go` under its most general client |
| `DropOldestQueue` | what the ring promises: an atomic sequence that drops its oldest elements |
| `MCRingBuffer` | the ring, the refinement mapping to the queue, for TLC |
| `PopWait` | the blocking consumer of `ring.go`, composed with the ring |
| `Batcher` | `batcher.go`, composed with the ring, its producers and its timer |
| `SpooledPublisher` | `spool.go`: `Append` with eviction, `Publish`, the replay goroutine, over an external broker |
| `MCSpool` | payload lengths and the symmetry set for TLC |
| `FileSource` | `file.go` and `offset.go`, against a writer and logrotate |
| `RateLimiter` | `rate.go`, with callers that read the clock before they take the lock |
| `BoundedEmit` | the emit closure of `source.go` and its sink |
| `JournalSource`, `KMsgSource` | `journal.go` with journalctl and its pipe; `kmsg_linux.go` with the kernel's ring; both extend `BoundedEmit` |
| `LiveSources` | the two sources side by side on one sink, under one context |
| `Dump`, `MCDump` | the one-shot mode from `dispatch` to the exit code |
| `Parsers`, `Config` | the functions of `internal/parser`; of `internal/config` and `internal/security`, with what the constructors require |
| `PureFunctions` | calls of those functions with every input of bounded sets |
| `RingBufferProofs`, `PopWaitProofs`, `BatcherProofs` | proofs about the ring, its refinement, and the two consumers composed with it; the last two extend the first |
| `SpooledPublisherProofs`, `RateLimiterProofs`, `FileSourceProofs`, `LiveSourcesProofs`, `DumpProofs` | proofs about the modules of those names |

Definitions whose comment calls them a *mutant* are deliberately wrong variants
of the definition that follows them.  They are used in no specification; each
shows that the property it belongs to notices that mistake.

### RingBuffer

`buf`, `head`, `size`, `bytes`, `closed`, `notify`, `drops` are the fields of the
Go struct.  `op` is the mutex: which operation is inside it.  `Push` is
`PushBegin` (lock, closed check), `PushEvict` (one iteration of the eviction
loop) and `PushStore` (store, signal, unlock); `PopBatch` is `BatchBegin`,
`BatchPop`, `BatchEnd`; the other operations are one critical section each.
The loops are split because `drops` is atomic and may be read inside them.
A log entry is its identity (the position at which it was accepted) and its
`approxBytes` cost.  `accepted`, `taken` and `cum` are history.  A `Push` on a
closed ring and `Push(nil)` change nothing.

`DropOldestQueue` is the abstract specification: a sequence `queue`, an atomic
counter and three actions.  The refinement mapping takes the buffered entries in
slot order; the linearisation point of `Push` is its store, of `PopBatch` its
end.

### PopWait and Batcher

Both extend `RingBuffer` and add the program counter of one goroutine.  In
`PopWait`, `TryPop` and the `select` are separate steps, so every push, eviction,
`Close` and cancellation may fall between them.  In `Batcher`, receiving in the
`select`, each loop iteration of `PopBatch`, and the two ends of a `Flush` call
are separate.  Whether `Flush` returns an error does not matter to `Run`, which
logs it and goes on.  `timer` distinguishes armed, fired with an unread tick, and
idle; `resetTimer` discards an unread tick.

### SpooledPublisher

A step is what lies between two points at which another goroutine or a crash can
intervene: taking `liveBusy`, one upstream publish, one system call, one loop
iteration.  A file is `[ns, seq, tmp, body, size]`: the two numbers its name is
made of, whether the name ends in `.tmp`, the payload it holds and its length.
`Older` orders names; the fixed-width decimal formatting makes the order of the
names that of the pairs.  The upstream is external: it succeeds, fails, or
delivers and then reports a failure (`"lateAck"`).  `Crash` keeps the directory
and resets everything the process holds.  `StepBack` sets the wall clock back.
`Create` assumes that no name is ever met twice: that takes the same nanosecond
*and* the same sequence number.

`FaultKinds` and `MaxFaults` say which calls may fail and how often: creating the
file, write/fsync/close/rename (`"append"`, with the clean-up removal failing or
not), reading the directory, removing during eviction, reading and deleting
during replay.  `configured` says whether the publisher was given a spool at all.

### FileSource

Outside the process a writer appends lines (whole, or cut between two writes),
logrotate renames the file, creates a new one and truncates it, and the writer
keeps its old descriptor until it reopens.  A byte is the line it belongs to,
its position there, and whether it is the newline.  An inode number may be used
again once no name and no descriptor has it; `epoch` tells apart the contents a
number has had, which only the properties see.

A step of the source is one system call or what it does with its buffer between
two: `Fill` is one `read(2)` of `bufio.Reader.ReadSlice`; `LineRead`,
`LineTooLong`, `DiscardMore`, `DiscardEnd` are the cases of `readLine` and
`discardThroughNewline`, each with the `consumeLine` that follows; `StatSame`,
`StatTruncated`, `StatRotated` and `Reopen` are `checkRotation`, cut between its
`Stat` and its `Open`.  `pos` is the descriptor's position, `offset` the counter
the code keeps.  `Save` replaces the record in one step because the code renames
a finished file; a failed `Save` leaves the record alone, so the tick is then a
`Poll` and the stop a `Crash`.  `Available` reads as much as there is, as a read
of a regular file does.

### RateLimiter

A bucket is `[tokens, last]`, or `NoBucket` before its first call.  Tokens are
counted in parts of `Scale` to a token, so that a fraction of a second refills a
fraction of a token; float64 rounding is left out.  `Allow` is one action, the
code holds its mutex throughout, but the caller has read the clock before
(`ReadClock`), so calls of two callers may reach the bucket in the other order;
`StepBack` sets the clock back.  `granted` and `seen` are history: the times of
the grants of a source, and the latest time its bucket has been shown.

### BoundedEmit, JournalSource, KMsgSource, LiveSources

A call of emit is `CallEmit` (a part of the source's step), then `Send`,
`StartTimer` or `GiveUp`: the two selects of the closure.  When the timer has
fired and there is room, either may happen, as in Go.  The sink is a channel;
its reader is external and may stop for good.  `handed`, `received` and `lost`
are history.

journalctl writes lines into a pipe; it may die after any line and is killed when
the context is done.  A line is written whole.  What stands between two blank
lines is a *part* of two lines, because a blank line is all the source looks at:
it may end a record, or stand inside one, in a field of several lines or a binary
one, which the export format writes as it is.  `Inside` says after which parts the
blank line is of that kind, so a record is one part or several.  The kernel's ring
keeps the newest `KRing` records, and a reader that has been overtaken gets EPIPE
once and goes on at the oldest.  `polled` says whether Go's poller watches the
descriptor: then a read of an empty ring parks the goroutine and EAGAIN is never
seen.

### Dump

One action per stage: `Dispatch`, `Args`, `OpenOutput`, one `ReadSource` for each
source that returns, `HeapInit`, one `MergeOne` per entry, `MergeFails` or
`MergeEnds`, and `CloseOutput`.  The command line and what surrounds it (`job`) is
chosen at the start and never changes.  A source may also never return (`Hangs`):
/dev/kmsg, a FIFO given as a file, a `dmesg` or journalctl that neither writes nor
ends.  Only journalctl has a deadline, after which `captureTimeout` gives it up;
`Merge` reads one source after the other, so any other hanging one stops the dump.
The heap is container/heap's algorithm over a sequence of cursors: `from` is the
node that `Init`, `Pop` or `Fix` called `down` for and `node` is `down`'s `i`;
`Sift` is one turn of `down`'s loop, which swaps a cursor with its lesser child
(`LeastChild`), and `Sifted` its return, after which `Init` goes on at the node
before and a merge takes the next entry.  `sort.SliceStable` is defined by what it
returns, the one sequence in order in which equal times keep their places.  The
output is three places an encoded entry can be in: bufio's buffer, gzip's state,
the file; gzip may pass on or keep what it is given.

### Parsers, Config, PureFunctions

These functions have no state; they are operators with the names of the code, and
`PureFunctions` applies each to every member of a bounded set and compares the
result with a definition that is written differently: a grammar, a permutation,
arithmetic without a limit.  A line is a sequence of tokens; a timestamp is one
token that is well formed or not; a number is a sequence of digits, with the signs
and overflows of `strconv.Atoi`.  The grammar is that of the comments in the code;
`Mended` spells out which other lines the RFC 5424 parser takes, so that the
comparison is exact in both directions.  A path is text, a sequence of "/", "."
and letters: `Clean` and the prefix test of `CheckUnderAllowlist` work on it as
the code does, and the property compares them with a walk over names.  In `Config`
a step of the validation yields the set of errors it can report: loops over Go
maps have no order.  `Unvalidated` names what passes the validation and is refused
by a constructor later (`NewSpool`, `NewSource`, `BuildClientTLS`, `Build`,
`normalizeBrokerURL`).  A file is its type, mode and owner. TOML is one flag;
sizes, rates and durations, which nothing refuses, are left out.

## 3. Runs

| run | bounds | what it shows |
|---|---|---|
| `ring` | 3 slots, byte cap 4, costs 1, 2, 5, 5 pushes | `TypeOK`, `Conservation`, `HoldsNewest`, `ByteCap`, `InOrderDelivery`; `ImplementsQueue`: the ring refines `DropOldestQueue` and every operation ends |
| `popwait` | 2 slots, 5 pushes | `NoLostWakeup`; everything accepted is consumed (`AllConsumed`); `Close` ends the loop, once the ring is drained (`ConsumerEnds`) |
| `batcher` | 4 slots, batches of 2, 6 pushes | `NothingSlips` between ring and `Flush`; `BatchBounds` with room at every drain; `SleepsOnlyAfterFullBatch`; `PendingFlushed` by the interval; `RunEnds` with nothing left in hand |
| `batcher_stranded` | as above | `EveryEntryFlushed` is *violated*: entries behind a full batch stay in the ring |
| `spool_safety` | 2 callers, 3 payloads of lengths 1, 2, 2, the last refused by the broker, cap 3, one fault of any kind, one crash, the clock set back once, with and without a spool | `AtLeastOnce`, `LossesCounted`, `DuplicatesPaidFor`, `CapEnforced`, `Chronological` replay (while the clock is not set back), `NilMeansKept` |
| `spool_live` | 1 caller, 3 payloads, one crash, the clock set back once, flapping broker | `EventuallyDelivered`: everything accepted is delivered and the spool drains |
| `file_lines` | lines of 2 and 5 over a buffer of 2, a discard limit of 4, 2 rotations, a truncation, one stop or crash | `OffsetExact`, `NoSkip`, `NoRepeat` by one process, `RecordsAreLines` |
| `file_live` | 2 lines in one or two writes, 2 rotations, a truncation, a failed read, `FromBeginning` | `CatchesUp`: the source ends up at the end of the file at the path |
| `rate` | 2 callers, 2 sources, rate 1, burst 2, half tokens, 5 calls, the clock set back once | no window exceeds the rate (`WindowBound`); nothing is refused early, and one source does not cost another (`RefusedOnlyAtLimit`) |
| `sources` | 3 parts of 2 journal records (the second has an empty line inside), the first refused, a pipe of 1 line; 3 kernel records over a ring of 2, the first refused; a sink of 1 | each entry is sent or counted, never both (`EmitOnce`); no entry mixes journal records, only a dying child or an empty line inside cuts one, and none is missing (`JournalWhole`); kernel records come in order and are skipped only when overwritten (`KMsgNoSkip`); both sources stop (`SourcesStop`) |
| `dump` | 4 sources (2 files, dmesg, journal), or the kernel ring and the journal, up to 3 lines each, at most one of them broken or hanging, a buffer of 2 entries, an output with room for 1 or for all, with and without gzip, filter and line cap | the heap is ordered and the output sorted (`DumpSorted`); it is complete (`DumpComplete`); a broken source aborts nothing (`DumpAborts`); the dump ends, unless it reads /dev/kmsg, or a file or a dmesg that never ends (`DumpEnds`) |
| `functions` | lines of up to 6 tokens, RFC 5424 headers of 6 fields, records of 3 lines, paths of 8 characters, configurations that differ from a good one in 2 fields | the parsers accept their grammar, the named liberties and nothing else, and times that fit (`ParsersExact`); the order of journal fields does not matter, and SYSLOG_IDENTIFIER wins over _COMM (`JournaldOrderFree`); no path leads out of the allowed directories (`PathsContained`); what validation accepts is refused later only for the reasons `Unvalidated` names, and has topics of its own (`ConfigSound`) |

A property is a conjunction of named parts where several facts make one idea:
`ParsersExact` has a part per parser, `ConfigSound` one per promise of the
configuration, `DumpSorted` rests on `HeapOrdered`, and one invariant of each
run carries the type invariant of its module (`BTypeOK` in `BatchBounds`,
`EmitTypeOK` in `EmitOnce` and so on).  The types of the spool and of the rate
limiter are theorems (section 4).

Why the bounds are enough to meet the interesting cases: in `ring` the array
wraps, both reasons to evict occur, one push evicts several entries, and one
entry exceeds the cap alone; in `batcher` one token stands for more than two
batches; in `spool_safety` the cap is one below the total, so eviction competes
with replay over a listing that is already stale, and a single fault or crash
falls at every step; in the file runs a second rotation can fall between `Stat`
and `Open`, a line fills the buffer exactly or overflows it twice, and a crash
can fall between any two system calls.  Two faults of the spool at once are left
to the theorems, which bound neither.  In `rate` a call with an old reading
meets a bucket that was shown a later one, and a burst is used up, partly
refilled and used up again.  In `sources` the kernel overtakes a reader that
waits in emit, the child dies after either line of a part, and a
record is cut by the empty line inside it.  In `dump` a
root with three children's worth of cursors sinks two levels, equal times meet
from several sources and within one, and the output fills in `Merge` as well as
in `Close`.  In `functions` the lengths are the smallest at which every case of
a scanner is followed by one more token; `MaxInt` is 1023 and a unit 100
nanoseconds, so that the conversion can overflow.  The constants whose comments say "bound of
the model" are the only bounds; the number of payloads is finite because each is
published once.  `ReuseInodes` is off in all runs: it makes the state space ten
times larger; `NoSkip` excepts what it adds, and section 5 says what it does to
`CatchesUp`.

`CHECK_DEADLOCK FALSE` stands where the system may stop: a closed or cancelled
consumer is done, a stopped source may stay down, a dump or a function call ends,
the bounded clock and the bounded calls of the rate limiter run out, and a
publisher whose payloads are all handled and whose spool is empty has nothing to
do.  The ring itself never stops within its bounds without `Close` or a token, so
it is checked for deadlock.

Symmetry is used in `spool_safety` only, over the callers, which no property
tells apart; no liveness is checked there.

### Fairness

* Whoever holds a mutex keeps running (weak fairness of the steps inside it):
  neither the ring nor `Append` blocks on another goroutine inside its lock.
* A waiter for a mutex gets it in the end (strong fairness of acquisition):
  `sync.Mutex` switches to starvation mode after a millisecond.
* `select` picks uniformly among the ready cases, so a case that is ready again
  and again is chosen in the end (strong fairness of the three cases of
  `Batcher.Run`; `PopWait`'s consumer as a whole).
* The runtime's timers fire (weak fairness of `TimerFires`, of `Tick`, and of
  the waits among the file source's steps).  Whoever restarts the source is part
  of `Source`; "it stays up" is a premise of `CatchesUp`.
* An upstream publish ends: `publishTimeout` is 30 s.
* A dump is one goroutine that keeps running; the goroutines of the live sources
  and of their emits do too, the budget's timer fires, and `exec.CommandContext`
  kills the child once the context is done.  Nothing is assumed of the child, the
  kernel or the reader of the sink.
* Nothing is assumed of producers, `Close`, cancellation, crashes, or the broker;
  "the broker stays reachable" is a premise of the liveness properties.

## 4. Theorems

All proofs are checked by TLAPS with Z3, Zenon and LS4.  They hold for every
capacity, cap, cost, set of callers, payloads, sources and inodes, for lines,
files, pipes and kernel rings of any size, and for any number of faults, crashes,
rotations and clock steps.  They assume only the named `ASSUME`s of the modules,
which TLC evaluates on every run: positive capacity, costs, pop sizes, batch
size, buffer and line lengths; distinct special values; a finite set of
payloads; a sink capacity that is a natural number, zero included; two different
names for the two live sources; for the dump, sets of lines, windows and rooms of
the right kind, and at least one command line that asks for a source.

Each theorem `Spec => []P` comes from an inductive invariant that TLC checked on
the run's instance first.  What the invariants add to the properties is the
content of the proofs:

**Ring** (`RingBufferProofs`).  `RingTypeCorrect`, `RingDropsOldest`
(`HoldsNewest`, `FreeSlotsNil`), `RingConserves` (`Conservation`), `RingBytes`
(`BytesExact`, `ByteCap`), `RingInOrder` (`InOrderDelivery`).  `RingInv` adds the
*window*: the buffered entries are exactly the positions
`accepted - size + 1 .. accepted`, each with the cost that the prefix sums `cum`
give that position, free slots are nil, and a running `PopBatch` has taken the
positions just below the window.  The byte count is then a difference of two
prefix sums, so no induction over the array is needed.  Lemmas on `%` say that
advancing the head shifts slots by one and that the slots of distinct positions
differ.

**The ring implements the queue** (`RingImplementsQueue`, the safety half of
`ImplementsQueue`).  The abstract queue is what the running operation has taken
off the head, followed by the window read slot by slot.  Removing the head under
the lock therefore changes nothing (`RemoveIsInvisible`); `PushStore`, `TryPop`,
`BatchEnd`, `Close` and `TakeNotify` are the steps of `DropOldestQueue`.
`RefInv` adds to `RingInv` that the byte count is the weight of the window
(`Weighed`) and that each entry evicted so far had to go (`HalfDone`): no shorter
prefix would have made the new entry fit, which is the minimality `QPush` asks
for.  The weight of a queue is the cardinality of its set of bytes, so that its
value after an append or a removal is a fact about finite sets.

**PopWait** (`PopWaitProofs`).  `WaitNeverMissed` (`NoLostWakeup`) and
`WaitDrains` (a nil means a done context or a closed, empty ring).  The
composition reuses `RingInv`; added is that no `Push` is inside the lock of a
closed ring, so nothing is stored behind the last `TryPop`.

**Batcher** (`BatcherProofs`).  `BatcherLosesNothing` (`NothingSlips`),
`BatcherBounds` (`BatchBounds`), `BatcherSleeps` (`SleepsOnlyAfterFullBatch`).
`BatchInv` adds which places of `Run` hold the ring's lock and how much room a
drain asks for, where `pending` may be full, and that a drain that leaves entries
behind without a token has filled the batch.  Together with the ring's theorems
they give two results about the pipeline as a whole, which no run states:
`PipelineAccounts`, every accepted entry is dropped and counted or is in one place
from ring to `Flush`, and `PipelineInOrder`, `Flush` sees acceptance order.

**Spool** (`SpooledPublisherProofs`).  `SpoolTypeCorrect`, `SpoolAtLeastOnce`
(`AtLeastOnce`), `SpoolSerialised` (at most one goroutine is between taking and
releasing `liveBusy`).  The invariant says that whoever is inside `Publish` holds
the lock with a payload at hand, that the file `mine` is in the directory under
the name it was created with, that from the rename on the payload is in the
directory, was delivered or was evicted, and that the replay goroutine deletes
only a file whose payload it has delivered.

**Spool, counting and order** (`SpooledPublisherProofs`).
* `LifeInv`: one call, one file and one rank per payload; the file the replay has
  at hand is still in the spool, although its listing was taken without the lock.
* `SpoolChronological` (`Chronological`): `OrderInv` adds that the order of names
  is the order of renames while the clock is not set back, and that a file the
  replay does not have on its stale list was delivered or came after all of them.
* `SpoolLossesCounted` (`LossesCounted`): evictions are counted until a restart.
* `SpoolCapEnforced` (`CapEnforced`): outside the part of `Append` behind its
  write the total is within the cap.
* `SpoolNilMeansKept` (`NilMeansKept`, an action property): eviction reaches the
  file just written last.
* `SpoolDuplicates` (`DuplicatesPaidFor`): a ledger.  `Debt` is the set of
  payloads that were delivered and may be delivered again; duplicates made plus
  debt never exceed faults plus crashes.

**Rate limiter** (`RateLimiterProofs`).  `RateTypeCorrect` (`RateTypeOK`),
`WindowBounded` (`WindowBound`), `NothingRefusedEarly` (`RefusedOnlyAtLimit`).
`WindowBound` speaks of every pair of grants and says nothing of the tokens in
between.  The inductive invariant is a ledger: for each past grant `i`, the
tokens in the bucket and what was granted since `i` add up to at most the
capacity plus what the time since `i` has refilled; and the bucket's `last` is
the latest time it was shown, which is what makes a clock that steps back
harmless.  The converse needs it the other way round: what is missing in the
bucket has been granted.

**File source** (`FileSourceProofs`).
* `FileOffsetExact` (`OffsetExact`): `FileInv` says what each place of `Run` finds
  in the fields, and that the descriptor stands behind offset, discarded and
  buffered bytes, exactly so before a failed read.
* `FileNoSkip` (`NoSkip`): `SkipInv` adds that an epoch is given once and is newer
  than any the source or its saved offset knows, that the buffer is the part of
  the file between offset and descriptor, and that the counted part of the open
  file, of the file its inode number belongs to, and of the saved one is covered.
  The three differ after a race of `Stat` and `Open`.
* `FileNoRepeat` (`NoRepeat`): `RepeatInv` adds that no byte is written twice, and
  that what is emitted, held and still to be read are apart.
* `FileRecordsAreLines` (`RecordsAreLines`), assuming `LinesFit`: writes hold whole
  lines, and none is longer than `MaxLineBytes + MaxDiscard`.  Both are needed, as
  section 5 says (`file.go:243`, `file.go:272`).  `LinesInv` adds to `SkipInv` that
  the offset is where a line ends: in the file that is open, in the one its inode
  number belongs to by now, and in the one the saved offset is for.  While
  `readLine` discards, what it has kept and skipped is the beginning of a single
  line, so it cannot reach its limit before the newline.

**Live sources** (`LiveSourcesProofs`), for the composition of both sources over
one sink.
* `LiveEmitOnce` (`EmitOnce`): an entry handed over is with its call, sent or
  dropped, in one of them only; needs that the entries of a source are distinct,
  which comes from the two invariants below.
* `LiveKMsgNoSkip` (`KMsgNoSkip`): the numbers handed over grow, and a record
  between the first and the current position was handed over, overwritten or
  refused.
* `LiveJournalWhole` (`JournalWhole`): the lines written are those of `q` parts,
  of the one being collected, and of the pipe, in this order; what was handed over
  are the parts up to `q` that the parser takes.  So an entry never holds lines of
  two records, and holds less than one only behind a child that died or at an
  empty line inside it.

**Dump** (`DumpProofs`), for any number of sources and entries.  `DumpIsSorted`
(`DumpSorted`), `DumpNeverAborts` (`DumpAborts`), `DumpIsComplete`
(`DumpComplete`).  `DumpInv` has five parts:
* `StateInv`, `ReadInv`: what each stage finds; the entries of a source that was
  read are what `SliceStable` makes of the lines that pass.
* `HeapInv`: while `down` is at work the cursors are a heap from node `from` on,
  with one exception, the node that is sinking, whose children already are in
  order with its parent (`HeapFrom`).  One turn moves the exception (`SiftHeap`),
  the last removes it (`SiftedHeap`).  That the root of a heap is its least
  element is shown by the smallest node that is less than the root
  (`RootIsLeast`), so no induction over the heap is needed.
* `OrderInv`: the next entry of every cursor comes after the last one encoded.
* `CompleteInv`: an entry is encoded just when its cursor has moved past it, and
  none twice.  With `WantedIsRead`, the lines a dump should show are the entries
  read, and the count of the encoded ones follows from the cardinality theorems.

### Only model-checked

* All liveness, which is outside the prover's reach: `AllConsumed`,
  `ConsumerEnds`, `PendingFlushed`, `RunEnds`, `EventuallyDelivered`, `CatchesUp`,
  `SourcesStop`, `DumpEnds`, and `LockReleased`, the other half of
  `ImplementsQueue`.
* `ParsersExact`, `JournaldOrderFree` and `PathsContained`: what a scanner or
  `Clean`, a fold over the segments, computes for inputs of every length is an
  induction over data, which is outside the prover's reach too.
* `ConfigSound`: its inputs are a fixed set of deviations from one good
  configuration, which the run exhausts; a proof would show nothing more.

## 5. Findings and observations

Where the code disagrees with what its comments say, a run shows it:

* `batcher.go:78`: `drain` pops one batch per token and the interval case does
  not drain, so entries behind a full batch wait for the next push
  (`batcher_stranded`).  `ring.go:22-24` asks consumers to drain in a loop.

The following came up as counterexamples, or as premises, while the properties
were stated.  They
are the reason for a premise or for the choice of a constant, and come back when
that is changed:

* `batcher.go:97`: the shutdown branches drain one batch and return; what the
  ring holds beyond it is lost (`size = 0` fails when `bpc = "done"`).
* `spool.go:307`: `replayOnce` stops at the first error and the next tick begins
  at the same file, so a payload the broker always refuses blocks every file
  behind it (`EventuallyDelivered` with a payload in `Rejected`).
* `file.go:347`: the offset is saved for lines that are still in the ring or in a
  batch, so a crash loses them, although `offset.go:10-11` says at-least-once.
  `NoSkip` counts an emitted line as read.
* `file.go:243`: a line caught between two writes becomes two records
  (`RecordsAreLines` with `WholeLines = FALSE`).
* `dump.go:69`: `dump --kmsg`, as in the example of the repository's README, reads
  /dev/kmsg to its EOF, which never comes: the dump hangs before anything is
  written.  So does one over a FIFO given as a file, and one whose `dmesg` neither
  writes nor ends: `sources.go:129` runs it under `context.Background()`, without the
  30 s that journalctl gets (`DumpEnds` without its exception `Stuck`).
* `journal.go:110` and `sources.go:100`: a record ends at the first empty line, also
  at one inside a field of several lines or a binary field, which the export
  format puts there and whose form `journald.go:4-8` describes.  The record becomes
  two entries, or the second half is refused (`JournalWhole` without `Inside`).
* `main.go:124`: the error of the deferred `Close` is dropped; with a full disk the
  dump reports success over a cut file (`DumpComplete` without `~out.err`).
* `dump.go:95-98`: the bounds reach journalctl as whole seconds, so an `--until`
  with a fraction leaves out the journal's entries of its last second
  (`DumpComplete` without `Until % 2 = 0`).
* `kmsg_linux.go:64`: Go's poller takes over the non-blocking descriptor, so a read
  at the end of the ring does not return EAGAIN and cancellation is noticed at
  the next record only (`SourcesStop` without its exception).
* `journal.go:92`: a cancelled source returns the kill of its child as an error;
  with `FromBeginning` the child is started without `-f` and ends at the last
  record.
* `load.go`: `min_priority`, the options of parsers, an empty `state_dir`
  (`spool.go:39`), an empty name of a source and the rest of the broker's URL are
  not looked at, though the constructors refuse bad ones; malformed PEM is left to
  the TLS builder, as `load.go:256-257` says (`AcceptedStarts` without
  `Unvalidated`).  `qos_logs = 0` becomes 1; certificates are only stat'ed where
  the comment says "readable".
* `paths.go:52`: the prefix "/" admits only "/".
* `syslog_rfc5424.go:51`: any token is taken for the VERSION, where the grammar in
  line 5 has one to three digits; a message may follow STRUCTURED-DATA without the
  space of line 3 (`-a`, `[x]a`); characters that are not printable pass in the
  header; a PROCID "-5" becomes a negative PID (`RFC5424Exact` without `Mended`).
* `syslog_rfc5424.go:160`: a backslash escapes outside quotes too, where an SD-ID may
  hold one.
* `oneshot.go:84`: a time that JSON cannot hold ends the dump with an error: a
  journal's __REALTIME_TIMESTAMP of any int64, or an RFC 3339 offset of 24 hours,
  which `time.Parse` takes (`DumpAborts` without its exception).
* `syslog_bsd.go:153`: the option `strict` has no effect.
* `journald.go:38`: a record without PRIORITY is reported as an emergency, the zero
  value of `Level`.
* `spool.go:91`: a payload larger than the cap is evicted by its own `Append`,
  with everything older, and `Publish` returns nil (`NilMeansKept` without its
  exception, and `MaxBytes` below a length).  The same happens when an older file cannot be
  removed, or when the clock was set back and the newest file has the oldest
  name, hence that property's premises.
* `spool.go:64`: names start with the wall clock; after it was set back, replay
  is not chronological (`Chronological` without its premise `stepBacks = 0`).
* `file.go:328`: the inode comes from the `Stat`, the file from a later `Open`;
  after a second rotation in between, a file is read twice (`NoRepeat` without
  its premise `~raced`).
* `file.go:322`: the old file is closed before the new one is open; when that
  open fails and the inode number is used again, the source reads a closed file
  for ever (`CatchesUp` with `ReuseInodes`).
* `file.go:272`: after the discard limit the tail of the line becomes a record
  (`RecordsAreLines` with a line longer than `MaxLineBytes + MaxDiscard`).
* `file.go:252`: a failed read gives up what was buffered and leaves the offset
  behind the descriptor; a truncation after it may go unnoticed (`CatchesUp`
  without `readErrors = 0`).

## 6. Not modelled, and why

* A `Flush` that panics or is nil (`batcher.go:68-71` then drops every batch); topics,
  qos and the retain flag; log output.
* An `Info` that fails during eviction (`spool.go:152-155`: the file is neither
  counted nor removed): live publishes and the replay remove files under one lock,
  so only an I/O error or another program can cause it.
* The framing of the one-shot journal (`sources.go:100`): a "line" of a journal in
  `Dump` is what stands between two empty lines, section 5.
* Power loss: a crash keeps what system calls have returned.  The code syncs the
  file but not the directory, so a rename may be undone by a power loss.
* Symbolic links at the tailed path, and glob expansion.  A truncation hidden by
  new data, and a saved inode number that now belongs to another file, are in the
  model, but the source cannot see them, so the properties except them.
* JSON and gzip encoding and the batch serialiser; cryptography, of which a
  certificate's fingerprint is a name; TOML; the recovery of panics.
* The MQTT connection: connect, keep-alive, will and status messages are
  autopaho's, and appear as a broker that is reachable or not.
* `kmsg_other.go`, which only refuses; log output of every part.
* Service mode is not wired in `cmd/blackboxd` yet; how the parts are composed is
  taken from `internal/integration/chaos_test.go`.

## 7. Plan

All parts with logic of their own are modelled, and every safety property of the
components that keep state across steps is proved.  What is left:

1. `Batcher` composed with `SpooledPublisher`: the final flush under a context
   that is already done.
2. `ConfigSound` over all configurations instead of deviations from a good one,
   which would make it worth a proof.
