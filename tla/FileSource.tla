----------------------------- MODULE FileSource -----------------------------
(***************************************************************************)
(* internal/source/file.go and offset.go: the goroutine that tails one     *)
(* file, follows its rotation and truncation, and saves its offset, over a *)
(* process that stops, crashes and restarts.                               *)
(*                                                                         *)
(* Outside the process a writer appends to the file at the path and        *)
(* logrotate renames, recreates and truncates it.  A step of the source is *)
(* one system call, or what it does with the bytes of its bufio.Reader     *)
(* between two of them.                                                    *)
(*                                                                         *)
(* A byte is the line it belongs to, its position there and whether it is  *)
(* the newline, so every byte ever written is distinct.  An inode number   *)
(* stands for the file that has it; epoch tells apart the contents a       *)
(* number has had, which the source cannot see.  Symbolic links are left   *)
(* out: the path is a regular file or missing.                             *)
(***************************************************************************)
EXTENDS Integers, Sequences, FiniteSets, SequencesExt

CONSTANTS
    MaxLineBytes,   \* cfg.MaxLineBytes, the size of the bufio.Reader
    MaxDiscard,     \* maxDiscardBytes
    FromBeginning,  \* cfg.FromBeginning
    LineLengths,    \* the lengths of the lines written, newline included
    WholeLines,     \* whether one write(2) always holds whole lines
    Unparsable,     \* the lines the parser refuses
    ReuseInodes,    \* whether the number of a deleted file is used again
    MaxLines,       \* bound of the model: lines written
    MaxRotations,   \* bound of the model: renames of the file
    MaxTruncations, \* bound of the model: truncations of the file
    MaxReadErrors,  \* bound of the model: failed reads
    MaxStops        \* bound of the model: stops and crashes

ASSUME FileConstants ==
    /\ MaxLineBytes \in Nat \ {0}
    /\ MaxDiscard \in Nat \ {0}
    /\ FromBeginning \in BOOLEAN
    /\ LineLengths \subseteq Nat \ {0}
    /\ WholeLines \in BOOLEAN
    /\ Unparsable \subseteq Nat
    /\ ReuseInodes \in BOOLEAN
    /\ MaxLines \in Nat /\ MaxRotations \in Nat /\ MaxTruncations \in Nat
    /\ MaxReadErrors \in Nat /\ MaxStops \in Nat

VARIABLES
    \* the file system and the writer
    path,       \* the inode at cfg.Path, or NoFile
    wfd,        \* the inode the writer has open
    data,       \* data[i]: the content of the file with inode i
    epoch,      \* epoch[i]: which content that is, 0 before it is created
    kept,       \* the inodes that rotated siblings hold
    line,       \* the number of lines begun
    left,       \* how many bytes of the last line are still to be written
    saved,      \* the record of the OffsetStore
    \* the process
    pc,         \* where Run is
    fd,         \* the inode s.current has open, or NoFile when it is closed
    curIno,     \* s.curIno
    offset,     \* s.offset
    pos,        \* the position of the file descriptor
    buf,        \* the unread bytes of s.reader
    first,      \* readLine's first, while it discards the rest of the line
    discarded,  \* discardThroughNewline's n
    statIno,    \* checkRotation's ino
    emitted,    \* the records handed to emit by this process
    \* history and bounds
    fdEpoch,    \* the content the source believes it is reading
    seen,       \* bytes that were consumed, by any process
    passed,     \* bytes that were skipped because there was no saved offset
    raced,      \* the path changed between checkRotation's Stat and its Open
    rotations, truncations, readErrors, stops

disk   == <<path, wfd, data, epoch, kept, line, left>>
proc   == <<pc, fd, curIno, offset, pos, buf, first, discarded, statIno,
            emitted>>
hist   == <<fdEpoch, seen, passed, raced>>
bounds == <<rotations, truncations, readErrors, stops>>
vars   == <<disk, saved, proc, hist, bounds>>

NoFile == 0
Inodes == 1 .. MaxRotations + 1
Byte   == [line : Nat, at : Nat, nl : BOOLEAN]

\* Load's results: no record (inode 0), a record, or one it cannot parse.
NoOffset == [inode |-> 0, offset |-> 0, epoch |-> 0, valid |-> TRUE]

-----------------------------------------------------------------------------
\* The process is down, the file exists, and no offset was ever saved.
Init ==
    /\ path = 1
    /\ wfd = 1
    /\ data = [i \in Inodes |-> <<>>]
    /\ epoch = [i \in Inodes |-> IF i = 1 THEN 1 ELSE 0]
    /\ kept = {}
    /\ line = 0
    /\ left = 0
    /\ saved = NoOffset
    /\ pc = "down"
    /\ fd = NoFile
    /\ curIno = 0
    /\ offset = 0
    /\ pos = 0
    /\ buf = <<>>
    /\ first = <<>>
    /\ discarded = 0
    /\ statIno = 0
    /\ emitted = <<>>
    /\ fdEpoch = 0
    /\ seen = {}
    /\ passed = {}
    /\ raced = FALSE
    /\ rotations = 0
    /\ truncations = 0
    /\ readErrors = 0
    /\ stops = 0

-----------------------------------------------------------------------------
\* The writer: n bytes of line l, of length len, from position k on.
Bytes(l, len, k, n) ==
    [i \in 1 .. n |-> [line |-> l, at |-> k + i - 1, nl |-> k + i - 1 = len]]

\* A new line is written, whole or only its first n bytes.
WriteLine ==
    /\ left = 0
    /\ line < MaxLines
    /\ line' = line + 1
    /\ \E len \in LineLengths : \E n \in 1 .. len :
         /\ WholeLines => n = len
         /\ data' = [data EXCEPT ![wfd] = @ \o Bytes(line + 1, len, 1, n)]
         /\ left' = len - n
    /\ UNCHANGED <<path, wfd, epoch, kept, saved, proc, hist, bounds>>

\* The rest of the line follows.
WriteRest ==
    /\ left > 0
    /\ data' = [data EXCEPT ![wfd] =
                  @ \o LET k == Last(@).at + 1
                       IN  Bytes(line, Last(@).at + left, k, left)]
    /\ left' = 0
    /\ UNCHANGED <<path, wfd, epoch, kept, line, saved, proc, hist, bounds>>

\* logrotate renames the file; its sibling is kept or deleted.  The writer
\* still has the old file open.
Rename ==
    /\ path # NoFile
    /\ rotations < MaxRotations
    /\ rotations' = rotations + 1
    /\ path' = NoFile
    /\ kept' \in {kept \cup {path}, IF ReuseInodes THEN kept ELSE kept \cup {path}}
    /\ UNCHANGED <<wfd, data, epoch, line, left, saved, proc, hist, truncations,
                   readErrors, stops>>

\* A new file is created: its inode is one that no name and no descriptor has.
Create ==
    /\ path = NoFile
    /\ \E i \in Inodes \ (kept \cup {fd, wfd}) :
         /\ ~ReuseInodes => i = rotations + 1
         /\ path' = i
         /\ data' = [data EXCEPT ![i] = <<>>]
         /\ epoch' = [epoch EXCEPT ![i] = 1 + rotations + truncations]
    /\ UNCHANGED <<wfd, kept, line, left, saved, proc, hist, bounds>>

\* The writer is told to open the new file.
WriterReopen ==
    /\ path \notin {NoFile, wfd}
    /\ left = 0
    /\ wfd' = path
    /\ UNCHANGED <<path, data, epoch, kept, line, left, saved, proc, hist, bounds>>

\* copytruncate, between two lines.
Truncate ==
    /\ path # NoFile
    /\ left = 0
    /\ truncations < MaxTruncations
    /\ truncations' = truncations + 1
    /\ data' = [data EXCEPT ![path] = <<>>]
    /\ epoch' = [epoch EXCEPT ![path] = 2 + rotations + truncations]
    /\ UNCHANGED <<path, wfd, kept, line, left, saved, proc, hist, rotations,
                   readErrors, stops>>

Environment ==
    WriteLine \/ WriteRest \/ Rename \/ Create \/ WriterReopen \/ Truncate

-----------------------------------------------------------------------------
\* openInitial's start offset in a file of the given inode and size.
StartOffset(ino, len) ==
    IF FromBeginning THEN 0
    ELSE IF ~saved.valid \/ saved.inode = 0 THEN len
    ELSE IF saved.inode = ino /\ saved.offset <= len THEN saved.offset
    ELSE 0

\* Whether that offset is the saved one.
Resumes(ino, len) ==
    ~FromBeginning /\ saved.valid /\ saved.inode = ino /\ saved.offset <= len

\* Run is called: openInitial.  When the path is missing Run returns an error.
OpenInitial ==
    /\ pc = "down"
    /\ path # NoFile
    /\ LET len == Len(data[path]) IN
         /\ offset' = StartOffset(path, len)
         /\ fdEpoch' = IF Resumes(path, len) THEN saved.epoch ELSE epoch[path]
         /\ passed' = IF saved = NoOffset /\ ~FromBeginning
                        THEN passed \cup Range(data[path]) ELSE passed
    /\ fd' = path
    /\ curIno' = path
    /\ pos' = offset'
    /\ buf' = <<>>
    /\ pc' = "drain"
    /\ UNCHANGED <<disk, saved, first, discarded, statIno, emitted, seen, raced,
                   bounds>>

-----------------------------------------------------------------------------
\* What ReadSlice finds in the buffer.
HasNewline == \E i \in DOMAIN buf : buf[i].nl
Full       == Len(buf) >= MaxLineBytes
Reading    == pc \in {"drain", "discard"} /\ ~HasNewline /\ ~Full
Available  == IF fd = NoFile \/ pos >= Len(data[fd]) THEN <<>>
              ELSE SubSeq(data[fd], pos + 1, Len(data[fd]))
AtEOF      == Reading /\ fd # NoFile /\ Available = <<>>

\* One read(2) of ReadSlice, into the free part of the buffer.
Fill ==
    /\ Reading
    /\ Available # <<>>
    /\ LET free == MaxLineBytes - Len(buf)
           got  == SubSeq(Available, 1, IF Len(Available) < free
                                          THEN Len(Available) ELSE free)
       IN  /\ buf' = buf \o got
           /\ pos' = pos + Len(got)
    /\ UNCHANGED <<disk, saved, pc, fd, curIno, offset, first, discarded,
                   statIno, emitted, hist, bounds>>

\* The bytes ReadSlice returns: through the newline, or all it has.
Slice ==
    IF HasNewline
      THEN SubSeq(buf, 1, CHOOSE i \in DOMAIN buf :
                            buf[i].nl /\ \A j \in 1 .. i - 1 : ~buf[j].nl)
      ELSE buf

Rest == SubSeq(buf, Len(Slice) + 1, Len(buf))

\* consumeLine: cut the record, parse it and emit it.  The record notes whether
\* the file was still the one the source believed it was reading.
ConsumeLine(bytes, truncated) ==
    emitted' = IF Head(bytes).line \in Unparsable THEN emitted
               ELSE Append(emitted,
                      [bytes |-> bytes, truncated |-> truncated,
                       sure |-> readErrors = 0 /\ fdEpoch = epoch[fd]])

\* readLine returns a line, or what there is of one at the end of the file.
LineRead ==
    /\ pc = "drain"
    /\ HasNewline \/ (AtEOF /\ buf # <<>>)
    /\ buf' = Rest
    /\ offset' = offset + Len(Slice)
    /\ seen' = seen \cup Range(Slice)
    /\ ConsumeLine(Slice, FALSE)
    /\ pc' = "drain"
    /\ UNCHANGED <<disk, saved, fd, curIno, pos, first, discarded, statIno,
                   fdEpoch, passed, raced, bounds>>

\* Mutant of LineTooLong: the rest of the line is not discarded.
LineTooLongKeepsRest ==
    /\ pc = "drain"
    /\ Full /\ ~HasNewline
    /\ buf' = <<>>
    /\ offset' = offset + Len(buf)
    /\ seen' = seen \cup Range(buf)
    /\ ConsumeLine(buf, TRUE)
    /\ UNCHANGED <<disk, saved, pc, fd, curIno, pos, first, discarded, statIno,
                   fdEpoch, passed, raced, bounds>>

\* The line fills the buffer: keep it and discard the rest of the line.
LineTooLong ==
    /\ pc = "drain"
    /\ Full /\ ~HasNewline
    /\ first' = buf
    /\ buf' = <<>>
    /\ offset' = offset + Len(buf)
    /\ seen' = seen \cup Range(buf)
    /\ discarded' = 0
    /\ pc' = "discard"
    /\ UNCHANGED <<disk, saved, fd, curIno, pos, statIno, emitted, fdEpoch,
                   passed, raced, bounds>>

\* An iteration of discardThroughNewline that meets another full buffer.
DiscardMore ==
    /\ pc = "discard"
    /\ Full /\ ~HasNewline
    /\ discarded + Len(buf) < MaxDiscard
    /\ discarded' = discarded + Len(buf)
    /\ buf' = <<>>
    /\ seen' = seen \cup Range(buf)
    /\ UNCHANGED <<disk, saved, pc, fd, curIno, offset, pos, first, statIno,
                   emitted, fdEpoch, passed, raced, bounds>>

\* Mutant of DiscardEnd: the full buffers it skipped are not counted.
DiscardEndMiscounts ==
    /\ pc = "discard"
    /\ \/ HasNewline
       \/ AtEOF
       \/ Full /\ discarded + Len(buf) >= MaxDiscard
    /\ offset' = offset + Len(Slice)
    /\ seen' = seen \cup Range(Slice)
    /\ buf' = Rest
    /\ ConsumeLine(first, TRUE)
    /\ first' = <<>>
    /\ discarded' = 0
    /\ pc' = "drain"
    /\ UNCHANGED <<disk, saved, fd, curIno, pos, statIno, fdEpoch, passed, raced,
                   bounds>>

\* It meets the newline, the end of the file, or its limit; readLine returns.
DiscardEnd ==
    /\ pc = "discard"
    /\ \/ HasNewline
       \/ AtEOF
       \/ Full /\ discarded + Len(buf) >= MaxDiscard
    /\ offset' = offset + discarded + Len(Slice)
    /\ seen' = seen \cup Range(Slice)
    /\ buf' = Rest
    /\ ConsumeLine(first, TRUE)
    /\ first' = <<>>
    /\ discarded' = 0
    /\ pc' = "drain"
    /\ UNCHANGED <<disk, saved, fd, curIno, pos, statIno, fdEpoch, passed, raced,
                   bounds>>

\* readLine finds nothing more: drain returns nil.
DrainEnd ==
    /\ pc = "drain"
    /\ AtEOF /\ buf = <<>>
    /\ pc' = "stat"
    /\ UNCHANGED <<disk, saved, fd, curIno, offset, pos, buf, first, discarded,
                   statIno, emitted, hist, bounds>>

\* A read fails, as every read of a closed file does.  ReadSlice gives up what
\* it had buffered; drain returns the error, which Run logs.
ReadError ==
    /\ Reading
    /\ \/ fd = NoFile /\ UNCHANGED readErrors
       \/ /\ fd # NoFile
          /\ readErrors < MaxReadErrors
          /\ readErrors' = readErrors + 1
    /\ offset' = IF pc = "discard" THEN offset + discarded + Len(buf) ELSE offset
    /\ buf' = <<>>
    /\ first' = <<>>
    /\ discarded' = 0
    /\ pc' = "stat"
    /\ UNCHANGED <<disk, saved, fd, curIno, pos, statIno, emitted, hist,
                   rotations, truncations, stops>>

-----------------------------------------------------------------------------
\* checkRotation, its Stat: the path is missing or unchanged, was truncated, or
\* holds another file.
StatSame ==
    /\ pc = "stat"
    /\ path = NoFile \/ (path = curIno /\ Len(data[path]) >= offset)
    /\ pc' = "sleep"
    /\ UNCHANGED <<disk, saved, fd, curIno, offset, pos, buf, first, discarded,
                   statIno, emitted, hist, bounds>>

\* Mutants of StatTruncated: off by one; the descriptor is not moved.
StatTruncatedOffByOne ==
    /\ pc = "stat"
    /\ path # NoFile /\ path = curIno /\ fd # NoFile /\ Len(data[path]) <= offset
    /\ offset' = 0
    /\ pos' = 0
    /\ buf' = <<>>
    /\ fdEpoch' = epoch[fd]
    /\ pc' = "sleep"
    /\ UNCHANGED <<disk, saved, fd, curIno, first, discarded, statIno, emitted,
                   seen, passed, raced, bounds>>

StatTruncatedNoSeek ==
    /\ pc = "stat"
    /\ path # NoFile /\ path = curIno /\ fd # NoFile /\ Len(data[path]) < offset
    /\ offset' = 0
    /\ buf' = <<>>
    /\ fdEpoch' = epoch[fd]
    /\ pc' = "sleep"
    /\ UNCHANGED <<disk, saved, fd, curIno, pos, first, discarded, statIno,
                   emitted, seen, passed, raced, bounds>>

\* Seek to 0 with a fresh reader; on a closed file the seek fails.
StatTruncated ==
    /\ pc = "stat"
    /\ path # NoFile /\ path = curIno /\ Len(data[path]) < offset
    /\ IF fd = NoFile
         THEN UNCHANGED <<offset, pos, buf, fdEpoch>>
         ELSE /\ offset' = 0
              /\ pos' = 0
              /\ buf' = <<>>
              /\ fdEpoch' = epoch[fd]
    /\ pc' = "sleep"
    /\ UNCHANGED <<disk, saved, fd, curIno, first, discarded, statIno, emitted,
                   seen, passed, raced, bounds>>

StatRotated ==
    /\ pc = "stat"
    /\ path # NoFile /\ path # curIno
    /\ statIno' = path
    /\ pc' = "reopen"
    /\ UNCHANGED <<disk, saved, fd, curIno, offset, pos, buf, first, discarded,
                   emitted, hist, bounds>>

\* Close the old file and open whatever is at the path now.
Reopen ==
    /\ pc = "reopen"
    /\ fd' = path
    /\ IF path = NoFile
         THEN UNCHANGED <<curIno, offset, pos, buf, fdEpoch>>
         ELSE /\ curIno' = statIno
              /\ offset' = 0
              /\ pos' = 0
              /\ buf' = <<>>
              /\ fdEpoch' = epoch[path]
    /\ raced' = (raced \/ path # statIno)
    /\ statIno' = 0
    /\ pc' = "sleep"
    /\ UNCHANGED <<disk, saved, first, discarded, emitted, seen, passed, bounds>>

-----------------------------------------------------------------------------
\* Mutant of Save: written in place, so that it can be left incomplete.
SaveInPlace ==
    \E complete \in BOOLEAN :
        saved' = [inode |-> curIno, offset |-> offset, epoch |-> fdEpoch,
                  valid |-> complete]

\* Save replaces the record atomically.  A Save that fails leaves it alone and
\* is only logged: then SaveTick does what Poll does, and Stop what Crash does.
Save ==
    saved' = [inode |-> curIno, offset |-> offset, epoch |-> fdEpoch,
              valid |-> TRUE]

\* Run's second select: the save ticker or the poll interval.
SaveTick ==
    /\ pc = "sleep"
    /\ Save
    /\ pc' = "drain"
    /\ UNCHANGED <<disk, fd, curIno, offset, pos, buf, first, discarded, statIno,
                   emitted, hist, bounds>>

Poll ==
    /\ pc = "sleep"
    /\ pc' = "drain"
    /\ UNCHANGED <<disk, saved, fd, curIno, offset, pos, buf, first, discarded,
                   statIno, emitted, hist, bounds>>

\* The process is gone, with everything in its memory.
Exit ==
    /\ stops < MaxStops
    /\ stops' = stops + 1
    /\ pc' = "down"
    /\ fd' = NoFile
    /\ curIno' = 0
    /\ offset' = 0
    /\ pos' = 0
    /\ statIno' = 0
    /\ fdEpoch' = 0
    /\ buf' = <<>>
    /\ first' = <<>>
    /\ discarded' = 0
    /\ emitted' = <<>>
    /\ raced' = FALSE

\* ctx is done: Run notices in drain's loop or in one of its selects, saves and
\* returns.  What a readLine has buffered is not in the offset, so noticing
\* before readLine or after its first reads is the same.
Stop ==
    /\ pc \in {"drain", "sleep"}
    /\ Save
    /\ Exit
    /\ UNCHANGED <<disk, seen, passed, rotations, truncations, readErrors>>

\* The process is killed.
Crash ==
    /\ pc # "down"
    /\ Exit
    /\ UNCHANGED <<disk, saved, seen, passed, rotations, truncations, readErrors>>

Source ==
    \/ OpenInitial \/ Fill \/ LineRead \/ LineTooLong
    \/ DiscardMore \/ DiscardEnd \/ DrainEnd \/ ReadError
    \/ StatSame \/ StatTruncated \/ StatRotated \/ Reopen
    \/ SaveTick \/ Poll

Next == Source \/ Environment \/ Stop \/ Crash

Spec == Init /\ [][Next]_vars

\* The goroutine keeps running; its waits are timers.
FairSpec == Spec /\ WF_vars(Source)

-----------------------------------------------------------------------------
DiskTypeOK ==
    /\ path \in Inodes \cup {NoFile} /\ wfd \in Inodes
    /\ data \in [Inodes -> Seq(Byte)]
    /\ epoch \in [Inodes -> Nat]
    /\ kept \subseteq Inodes
    /\ line \in Nat /\ left \in Nat

SavedTypeOK ==
    saved \in [inode : Inodes \cup {0}, offset : Nat, epoch : Nat, valid : BOOLEAN]

ReaderTypeOK ==
    /\ pc \in {"down", "drain", "discard", "stat", "reopen", "sleep"}
    /\ fd \in Inodes \cup {NoFile}
    /\ curIno \in Inodes \cup {0} /\ statIno \in Inodes \cup {0}
    /\ offset \in Nat /\ pos \in Nat
    /\ fdEpoch \in Nat

BufferTypeOK ==
    /\ buf \in Seq(Byte) /\ Len(buf) <= MaxLineBytes
    /\ first \in Seq(Byte) /\ Len(first) <= MaxLineBytes
    /\ discarded \in 0 .. MaxDiscard

RecordsTypeOK ==
    /\ emitted \in Seq([bytes : Seq(Byte), truncated : BOOLEAN, sure : BOOLEAN])
    /\ seen \subseteq Byte /\ passed \subseteq Byte
    /\ raced \in BOOLEAN

TypeOK ==
    DiskTypeOK /\ SavedTypeOK /\ ReaderTypeOK /\ BufferTypeOK /\ RecordsTypeOK

\* The offset, a sum of slice lengths, is where the descriptor stands less what
\* is buffered, after any mix of lines, discards, rotations and truncations;
\* and no reader is ever replaced while it holds bytes already read.
OffsetExact ==
    /\ TypeOK
    /\ pc \in {"stat", "reopen", "sleep"} => buf = <<>>
    /\ readErrors = 0 /\ fd # NoFile /\ pc \in {"drain", "stat", "reopen", "sleep"}
         => pos = offset + Len(buf)

\* No byte is skipped: everything before the offset was consumed by this process
\* or an earlier one, or preceded the first start, through any rotations, stops
\* and crashes; unless a truncation was hidden by new data or the saved inode
\* number now belongs to another file, which the source cannot tell.
NoSkip ==
    fd # NoFile /\ fdEpoch = epoch[fd] /\ readErrors = 0 =>
        \A i \in 1 .. offset : data[fd][i] \in seen \cup passed

\* No byte is emitted twice by one process, unless the path changed between
\* checkRotation's Stat and its Open.
NoRepeat ==
    ~raced =>
        \A i, j \in DOMAIN emitted :
            i # j => Range(emitted[i].bytes) \cap Range(emitted[j].bytes) = {}

\* A record handed to the parser is one line: it starts where a line starts and
\* ends with its newline, or is the capped first part of an oversized line.
RecordsAreLines ==
    \A i \in DOMAIN emitted : emitted[i].sure =>
        LET r == emitted[i] IN
        /\ Head(r.bytes).at = 1
        /\ Last(r.bytes).nl # r.truncated
        /\ r.truncated => Len(r.bytes) = MaxLineBytes

\* A rotation, a truncation or a path that is missing for a while is followed:
\* once the source stays up and the file stays, the source reads that file to
\* its end.  Excepted is a failed read: what it gives up stays uncounted, and a
\* truncation after it may not be noticed.
CatchesUp ==
    <>[](pc # "down" /\ path # NoFile /\ readErrors = 0)
        => <>[](path # NoFile /\ fd = path /\ pos = Len(data[path]))

=============================================================================
