--------------------------- MODULE FileSourceProofs ---------------------------
(***************************************************************************)
(* Proofs about internal/source/file.go and offset.go: the offset is exact *)
(* (OffsetExact), no byte is skipped (NoSkip), none is emitted twice       *)
(* (NoRepeat) and every record is a line (RecordsAreLines), for every      *)
(* file, every line length and every interleaving of the source with the   *)
(* writer, logrotate, stops and crashes.                                   *)
(***************************************************************************)
EXTENDS FileSource, SequenceTheorems, WellFoundedInduction, TLAPS

-----------------------------------------------------------------------------
Counters ==
    /\ rotations \in Nat /\ truncations \in Nat
    /\ readErrors \in Nat /\ stops \in Nat

\* The writer goes on with the line it began, in the file it began it in.
WriterMidLine ==
    left > 0 => data[wfd] # <<>> /\ data[wfd][Len(data[wfd])].line = line

\* What each place of Run finds in the source's fields.
Places ==
    /\ pc = "down" => /\ fd = NoFile /\ curIno = 0 /\ offset = 0 /\ fdEpoch = 0
                      /\ emitted = <<>> /\ ~raced
    /\ pc # "down" => curIno # 0
    /\ pc = "reopen" => statIno # 0
    /\ pc # "discard" => discarded = 0 /\ first = <<>>
    /\ pc \notin {"drain", "discard"} => buf = <<>>
    /\ fd = NoFile => buf = <<>> /\ discarded = 0

\* The descriptor stands behind what is consumed, skipped and buffered; a
\* failed read gives up bytes and leaves it further on.
Taken == offset + discarded + Len(buf)

Position ==
    fd # NoFile => Taken <= pos /\ (readErrors = 0 => pos = Taken)

FileInv ==
    /\ TypeOK
    /\ Counters
    /\ WriterMidLine
    /\ Places
    /\ Position

-----------------------------------------------------------------------------
\* An epoch is given once, and is newer than every one the source or its saved
\* offset knows of.
Epochs ==
    /\ path # NoFile => epoch[path] > 0
    /\ \A i, j \in Inodes : epoch[i] = epoch[j] /\ epoch[i] > 0 => i = j
    /\ \A i \in Inodes : epoch[i] <= 1 + rotations + truncations
    /\ fdEpoch <= 1 + rotations + truncations
    /\ saved.epoch <= 1 + rotations + truncations
    /\ path = NoFile =>
        /\ \A i \in Inodes : epoch[i] <= rotations + truncations
        /\ fdEpoch <= rotations + truncations
        /\ saved.epoch <= rotations + truncations

\* The first n bytes of a file are among those that were consumed or passed over.
Covered(file, known, n) ==
    /\ n <= Len(file)
    /\ \A k \in 1 .. n : file[k] \in known

Known == seen \cup passed

\* What the source has counted, skipped bytes that readLine will count included.
Counted == offset + discarded

\* b is what the file holds from position n + 1 on.
Matches(file, n, b) ==
    \A k \in 1 .. Len(b) : b[k] = file[n + k]

\* After a lost race of checkRotation's Stat and Open, the inode number the
\* source goes by is not that of the content it reads.
MistakenIno ==
    fd # NoFile /\ curIno # fd => epoch[curIno] # fdEpoch

\* What the source has counted of the file it reads, and of the file it would
\* save an offset for.
CoveredNow ==
    readErrors = 0 =>
        /\ fd # NoFile /\ epoch[fd] = fdEpoch => Covered(data[fd], Known, Counted)
        /\ curIno # 0 /\ epoch[curIno] = fdEpoch => Covered(data[curIno], Known, Counted)

\* The buffer is the part of the file between the offset and the descriptor.
BufferIsFile ==
    readErrors = 0 /\ fd # NoFile /\ epoch[fd] = fdEpoch =>
        /\ pos <= Len(data[fd])
        /\ Matches(data[fd], Counted, buf)

CoveredSaved ==
    /\ saved.valid
    /\ saved.inode = 0 => saved = NoOffset
    /\ readErrors = 0 /\ saved.inode # 0 /\ epoch[saved.inode] = saved.epoch =>
           Covered(data[saved.inode], Known, saved.offset)

SkipInv ==
    /\ FileInv
    /\ Epochs
    /\ MistakenIno
    /\ CoveredNow
    /\ BufferIsFile
    /\ CoveredSaved

-----------------------------------------------------------------------------
\* Every byte of a line not yet complete comes before what is still to be
\* written of it.
Old(b) ==
    /\ b.line <= line
    /\ left > 0 /\ b.line = line => b.at <= data[wfd][Len(data[wfd])].at

\* The bytes this process has handed on, or has in its hands.
Emitted == UNION {Range(emitted[n].bytes) : n \in DOMAIN emitted}
Held    == Emitted \cup Range(first) \cup Range(buf)

\* No byte is written twice.
Fresh ==
    /\ \A i \in Inodes : \A k \in 1 .. Len(data[i]) : Old(data[i][k])
    /\ \A b \in Held : Old(b)
    /\ \A i, j \in Inodes : \A k \in 1 .. Len(data[i]) : \A m \in 1 .. Len(data[j]) :
           data[i][k] = data[j][m] => i = j /\ k = m

\* What the source holds is there once.
HeldOnce ==
    /\ \A k, m \in 1 .. Len(buf) : buf[k] = buf[m] => k = m
    /\ \A k \in 1 .. Len(buf) : buf[k] \notin Emitted \cup Range(first)
    /\ \A k \in 1 .. Len(first) : first[k] \notin Emitted

\* What the source may still read is new to it: the file behind the descriptor,
\* a file it has yet to open, and all of a file that became shorter.
Ahead ==
    ~raced /\ pc # "down" =>
        /\ fd = curIno
        /\ \A k \in 1 .. Len(data[fd]) :
               k > pos \/ pos > Len(data[fd]) => data[fd][k] \notin Held
        /\ path \notin {NoFile, fd} =>
               \A k \in 1 .. Len(data[path]) : data[path][k] \notin Held

RepeatInv ==
    /\ FileInv
    /\ Fresh
    /\ ~raced => HeldOnce
    /\ Ahead
    /\ pc = "reopen" => statIno # curIno
    /\ NoRepeat

-----------------------------------------------------------------------------
LEMMA InodeFacts == Inodes \subseteq Nat /\ 1 \in Inodes /\ 0 \notin Inodes
  BY FileConstants DEF Inodes

\* Among the positions of a sequence that satisfy something, there is a first.
LEMMA LeastPosition ==
  ASSUME NEW T, T \subseteq Nat, T # {}
  PROVE  \E i \in T : \A j \in T : i <= j
<1> DEFINE R == OpToRel(<, Nat)
<1>1. IsWellFoundedOn(R, Nat)
  BY NatLessThanWellFounded
<1> HIDE DEF R
<1>2. PICK i \in T : \A j \in T : <<j, i>> \notin R
  BY <1>1, WFMin, Zenon
<1>3. ASSUME NEW j \in T PROVE i <= j
  <2>1. <<j, i>> \notin R
    BY <1>2
  <2>2. <<j, i>> \in Nat \X Nat
    OBVIOUS
  <2>3. ~(j < i)
    BY <2>1, <2>2 DEF R, OpToRel
  <2> QED
    BY <2>3
<1> QED
  BY <1>3

\* The writer's bytes: n of them, all of line l, from position k on.
AreBytes(b, l, k, n) ==
    /\ b \in Seq(Byte)
    /\ Len(b) = n
    /\ \A i \in 1 .. n : b[i].line = l /\ b[i].at = k + i - 1

LEMMA BytesShape ==
  ASSUME NEW l \in Nat, NEW len \in Nat, NEW k \in Nat, k > 0, NEW n \in Nat
  PROVE  AreBytes(Bytes(l, len, k, n), l, k, n)
<1> DEFINE f == [i \in 1 .. n |-> [line |-> l, at |-> k + i - 1, nl |-> k + i - 1 = len]]
<1>1. ASSUME NEW i \in 1 .. n PROVE f[i] \in Byte
  <2>1. k + i - 1 \in Nat
    OBVIOUS
  <2>2. (k + i - 1 = len) \in BOOLEAN
    OBVIOUS
  <2> QED
    BY <2>1, <2>2 DEF Byte
<1>2. f \in [1 .. n -> Byte]
  BY <1>1
<1>3. f \in Seq(Byte) /\ Len(f) = n
  BY <1>2
<1> QED
  BY <1>3 DEF Bytes, AreBytes

\* What readLine takes from the buffer and what it leaves are its two parts.
LEMMA SliceShape ==
  ASSUME buf \in Seq(Byte)
  PROVE  /\ Slice \in Seq(Byte) /\ Rest \in Seq(Byte)
         /\ Len(Slice) <= Len(buf) /\ Len(Rest) = Len(buf) - Len(Slice)
         /\ \A k \in 1 .. Len(Slice) : Slice[k] = buf[k]
         /\ \A k \in 1 .. Len(Rest) : Rest[k] = buf[Len(Slice) + k]
         /\ ~HasNewline => Slice = buf /\ Rest = <<>>
         /\ HasNewline => Slice # <<>>
<1>1. CASE HasNewline
  <2> DEFINE T == {i \in DOMAIN buf : buf[i].nl}
             First(i) == buf[i].nl /\ \A j \in 1 .. i - 1 : ~buf[j].nl
             at == CHOOSE i \in DOMAIN buf : First(i)
  <2>1. T # {} /\ T \subseteq Nat
    BY <1>1 DEF HasNewline
  <2>2. PICK i \in T : \A j \in T : i <= j
    BY <2>1, LeastPosition
  <2>3. i \in DOMAIN buf /\ First(i)
    BY <2>2
  <2>4. at \in DOMAIN buf
    BY <2>3
  <2>5. Slice = SubSeq(buf, 1, at)
    BY <1>1 DEF Slice
  <2> HIDE DEF at
  <2>6. at \in 1 .. Len(buf)
    BY <2>4
  <2>7. Slice \in Seq(Byte) /\ Len(Slice) = at /\ \A k \in 1 .. at : Slice[k] = buf[k]
    BY <2>5, <2>6
  <2>8. Rest = SubSeq(buf, at + 1, Len(buf))
    BY <2>7 DEF Rest
  <2>9. /\ Rest \in Seq(Byte) /\ Len(Rest) = Len(buf) - at
        /\ \A k \in 1 .. Len(Rest) : Rest[k] = buf[at + k]
    BY <2>6, <2>8
  <2> QED
    BY <1>1, <2>6, <2>7, <2>9
<1>2. CASE ~HasNewline
  <2>1. Slice = buf
    BY <1>2 DEF Slice
  <2>2. Rest = SubSeq(buf, Len(buf) + 1, Len(buf))
    BY <2>1 DEF Rest
  <2>3. Rest = <<>>
    BY <2>2
  <2> QED
    BY <1>2, <2>1, <2>3
<1> QED
  BY <1>1, <1>2

\* What one read(2) gets: as much of the file as there is, and fits the buffer.
Got ==
    LET free == MaxLineBytes - Len(buf)
    IN  SubSeq(Available, 1, IF Len(Available) < free THEN Len(Available) ELSE free)

LEMMA GotShape ==
  ASSUME TypeOK, Reading, Available # <<>>
  PROVE  /\ fd \in Inodes
         /\ Got \in Seq(Byte)
         /\ Len(Got) <= MaxLineBytes - Len(buf)
         /\ pos + Len(Got) <= Len(data[fd])
         /\ \A k \in 1 .. Len(Got) : Got[k] = data[fd][pos + k]
<1>1. fd \in Inodes /\ fd # NoFile /\ pos < Len(data[fd])
  BY DEF Available, TypeOK, DiskTypeOK, ReaderTypeOK
<1>2. data[fd] \in Seq(Byte) /\ pos \in Nat /\ Len(buf) < MaxLineBytes
  BY <1>1, FileConstants DEF TypeOK, DiskTypeOK, ReaderTypeOK, BufferTypeOK, Reading, Full
<1>3. Available = SubSeq(data[fd], pos + 1, Len(data[fd]))
  BY <1>1 DEF Available
<1>4. /\ Available \in Seq(Byte) /\ Len(Available) = Len(data[fd]) - pos
      /\ \A k \in 1 .. Len(Available) : Available[k] = data[fd][pos + k]
  BY <1>1, <1>2, <1>3
<1> DEFINE n == IF Len(Available) < MaxLineBytes - Len(buf)
                THEN Len(Available) ELSE MaxLineBytes - Len(buf)
<1>a. Len(buf) \in Nat
  BY DEF TypeOK, BufferTypeOK
<1>b. MaxLineBytes \in Nat
  BY FileConstants
<1>c. Len(Available) \in Nat
  BY <1>4
<1>5. n \in Nat /\ n <= Len(Available) /\ n <= MaxLineBytes - Len(buf)
  BY <1>2, <1>a, <1>b, <1>c
<1>6. Got = SubSeq(Available, 1, n)
  BY DEF Got
<1> HIDE DEF n
<1>7. Got \in Seq(Byte) /\ Len(Got) = n /\ \A k \in 1 .. n : Got[k] = Available[k]
  BY <1>4, <1>5, <1>6
<1>8. ASSUME NEW k \in 1 .. Len(Got) PROVE Got[k] = data[fd][pos + k]
  <2>1. k \in 1 .. n /\ k \in 1 .. Len(Available)
    BY <1>5, <1>7, <1>c
  <2> QED
    BY <2>1, <1>4, <1>7
<1>9. pos + Len(Got) <= Len(data[fd])
  <2>1. Len(data[fd]) \in Nat
    BY <1>2
  <2> QED
    BY <2>1, <1>2, <1>4, <1>5, <1>7
<1> QED
  BY <1>1, <1>5, <1>7, <1>8, <1>9

-----------------------------------------------------------------------------
\* The writer's two steps append bytes of the newest line to the file it has open.
Appends(new) ==
    /\ new \in Seq(Byte) /\ new # <<>>
    /\ data' = [data EXCEPT ![wfd] = @ \o new]
    /\ \A k \in 1 .. Len(new) : new[k].line = line'
    /\ \A k, m \in 1 .. Len(new) : new[k].at = new[m].at => k = m
    /\ \A k \in 1 .. Len(new) : new[k].at <= new[Len(new)].at
    /\ \/ line' = line + 1
       \/ /\ line' = line /\ left > 0 /\ left' = 0
          /\ \A k \in 1 .. Len(new) : new[k].at > data[wfd][Len(data[wfd])].at

LEMMA NewBytes ==
  ASSUME NEW new, NEW l \in Nat, NEW k \in Nat, NEW n \in Nat, n > 0,
         AreBytes(new, l, k, n)
  PROVE  /\ new \in Seq(Byte) /\ new # <<>>
         /\ \A i \in 1 .. Len(new) : new[i].line = l
         /\ \A i, m \in 1 .. Len(new) : new[i].at = new[m].at => i = m
         /\ \A i \in 1 .. Len(new) : new[i].at <= new[Len(new)].at
         /\ \A i \in 1 .. Len(new) : new[i].at >= k
<1>1. new \in Seq(Byte) /\ Len(new) = n
  BY DEF AreBytes
<1>2. ASSUME NEW i \in 1 .. n
      PROVE  new[i].line = l /\ new[i].at = k + i - 1
  BY <1>2 DEF AreBytes
<1>3. new # <<>>
  BY <1>1
<1>4. n \in 1 .. n
  OBVIOUS
<1>5. ASSUME NEW i \in 1 .. n
      PROVE  new[i].at <= new[n].at /\ new[i].at >= k
  BY <1>2, <1>4
<1>6. ASSUME NEW i \in 1 .. n, NEW m \in 1 .. n, new[i].at = new[m].at
      PROVE  i = m
  BY <1>2, <1>6
<1> QED
  BY <1>1, <1>2, <1>3, <1>5, <1>6

LEMMA WriteShape ==
  ASSUME TypeOK, WriterMidLine, WriteLine \/ WriteRest
  PROVE  /\ \E new : Appends(new)
         /\ line' \in Nat /\ left' \in Nat
<1>1. CASE WriteLine
  <2>0. PICK len \in LineLengths : \E n \in 1 .. len :
              /\ data' = [data EXCEPT ![wfd] = @ \o Bytes(line + 1, len, 1, n)]
              /\ left' = len - n
    BY <1>1 DEF WriteLine
  <2>1. PICK n \in 1 .. len :
              /\ data' = [data EXCEPT ![wfd] = @ \o Bytes(line + 1, len, 1, n)]
              /\ left' = len - n
    BY <2>0
  <2>2. len \in Nat /\ n \in Nat /\ n > 0 /\ line' = line + 1 /\ line' \in Nat
    BY <1>1, FileConstants DEF WriteLine, TypeOK, DiskTypeOK
  <2> DEFINE new == Bytes(line', len, 1, n)
  <2>3. AreBytes(new, line', 1, n)
    BY <2>2, BytesShape
  <2>4. left' \in Nat
    BY <2>1, <2>2
  <2>5. data' = [data EXCEPT ![wfd] = @ \o new]
    BY <2>1, <2>2
  <2> HIDE DEF new
  <2>6. Appends(new)
    BY <2>2, <2>3, <2>5, NewBytes DEF Appends
  <2> QED
    BY <2>2, <2>4, <2>6
<1>2. CASE WriteRest
  <2> DEFINE last == data[wfd][Len(data[wfd])]
  <2>1. /\ left > 0 /\ left \in Nat /\ left' = 0 /\ line' = line /\ line \in Nat
        /\ wfd \in Inodes /\ data[wfd] \in Seq(Byte)
    BY <1>2 DEF WriteRest, TypeOK, DiskTypeOK
  <2>2. data[wfd] # <<>>
    BY <2>1 DEF WriterMidLine
  <2>3. last \in Byte
    BY <2>1, <2>2
  <2>4. Last(data[wfd]) = last
    BY DEF Last
  <2> DEFINE new == Bytes(line, last.at + left, last.at + 1, left)
  <2>5. data' = [data EXCEPT ![wfd] = @ \o new]
    BY <1>2, <2>4 DEF WriteRest
  <2>6. last.at \in Nat
    BY <2>3 DEF Byte
  <2> HIDE DEF last
  <2>7. last.at + left \in Nat /\ last.at + 1 \in Nat /\ last.at + 1 > 0
    BY <2>1, <2>6
  <2>8. AreBytes(new, line, last.at + 1, left)
    BY <2>1, <2>7, BytesShape
  <2> HIDE DEF new
  <2>9. /\ new \in Seq(Byte) /\ new # <<>>
        /\ \A i \in 1 .. Len(new) : new[i].line = line
        /\ \A i, m \in 1 .. Len(new) : new[i].at = new[m].at => i = m
        /\ \A i \in 1 .. Len(new) : new[i].at <= new[Len(new)].at
        /\ \A i \in 1 .. Len(new) : new[i].at >= last.at + 1
    BY <2>1, <2>7, <2>8, NewBytes
  <2>10. ASSUME NEW i \in 1 .. Len(new) PROVE new[i].at > last.at
    <3>1. new[i] \in Byte
      BY <2>9
    <3>2. new[i].at \in Nat
      BY <3>1 DEF Byte
    <3> QED
      BY <2>6, <2>9, <3>2
  <2>11. Appends(new)
    BY <2>1, <2>5, <2>9, <2>10 DEF Appends, last
  <2> QED
    BY <2>1, <2>11
<1> QED
  BY <1>1, <1>2

\* So the file grows, and every other file is as it was.
LEMMA WriteGrows ==
  ASSUME TypeOK, WriterMidLine, WriteLine \/ WriteRest
  PROVE  /\ data' \in [Inodes -> Seq(Byte)]
         /\ \A i \in Inodes : Len(data[i]) <= Len(data'[i])
         /\ \A i \in Inodes : \A k \in 1 .. Len(data[i]) : data'[i][k] = data[i][k]
<1>1. PICK new : new \in Seq(Byte) /\ data' = [data EXCEPT ![wfd] = @ \o new]
  BY WriteShape DEF Appends
<1>2. data \in [Inodes -> Seq(Byte)] /\ wfd \in Inodes
  BY DEF TypeOK, DiskTypeOK
<1>3. data[wfd] \o new \in Seq(Byte)
  BY <1>1, <1>2
<1>4. data' \in [Inodes -> Seq(Byte)]
  BY <1>1, <1>2, <1>3
<1>5. ASSUME NEW i \in Inodes
      PROVE  /\ Len(data[i]) <= Len(data'[i])
             /\ \A k \in 1 .. Len(data[i]) : data'[i][k] = data[i][k]
  <2>1. CASE i = wfd
    <3>1. data'[i] = data[i] \o new /\ data[i] \in Seq(Byte)
      BY <1>1, <1>2, <2>1
    <3> QED
      BY <1>1, <3>1
  <2>2. CASE i # wfd
    <3>1. data'[i] = data[i] /\ data[i] \in Seq(Byte)
      BY <1>1, <1>2, <2>2
    <3> QED
      BY <3>1
  <2> QED
    BY <2>1, <2>2
<1> QED
  BY <1>4, <1>5

-----------------------------------------------------------------------------
LEMMA RangeShape ==
  ASSUME NEW S, NEW s \in Seq(S)
  PROVE  /\ Range(s) \subseteq S
         /\ \A b : b \in Range(s) <=> \E k \in 1 .. Len(s) : b = s[k]
<1>1. DOMAIN s = 1 .. Len(s)
  OBVIOUS
<1>2. \A b : b \in Range(s) <=> \E k \in 1 .. Len(s) : b = s[k]
  BY <1>1 DEF Range
<1> QED
  BY <1>2

LEMMA ConsumeLineType ==
  ASSUME RecordsTypeOK, NEW bytes \in Seq(Byte), NEW t \in BOOLEAN,
         ConsumeLine(bytes, t)
  PROVE  emitted' \in Seq([bytes : Seq(Byte), truncated : BOOLEAN, sure : BOOLEAN])
<1> DEFINE R == [bytes : Seq(Byte), truncated : BOOLEAN, sure : BOOLEAN]
           r == [bytes |-> bytes, truncated |-> t,
                 sure |-> readErrors = 0 /\ fdEpoch = epoch[fd]]
<1>1. (readErrors = 0 /\ fdEpoch = epoch[fd]) \in BOOLEAN
  OBVIOUS
<1>2. r \in R
  BY <1>1, Zenon
<1>3. emitted' = emitted \/ emitted' = Append(emitted, r)
  BY DEF ConsumeLine
<1>4. emitted \in Seq(R)
  BY DEF RecordsTypeOK
<1> HIDE DEF R, r
<1>5. emitted' \in Seq(R)
  BY <1>2, <1>3, <1>4
<1> QED
  BY <1>5 DEF R

\* The environment leaves the process, its saved offset and its history alone.
LEMMA EnvironmentKeepsFileInv ==
  ASSUME FileInv, Environment
  PROVE  FileInv'
<1> USE DEF FileInv
<1>1. DiskTypeOK /\ Counters
  BY DEF TypeOK
<1>2. DiskTypeOK' /\ Counters' /\ WriterMidLine'
  <2>1. CASE WriteLine \/ WriteRest
    <3>1. data' \in [Inodes -> Seq(Byte)]
      BY <2>1, WriteGrows
    <3>2. UNCHANGED <<path, wfd, epoch, kept, rotations, truncations, readErrors, stops>>
      BY <2>1 DEF WriteLine, WriteRest, bounds
    <3>3. line' \in Nat /\ left' \in Nat
      BY <2>1, WriteShape
    <3>4. PICK new : Appends(new)
      BY <2>1, WriteShape
    <3>5. data'[wfd] = data[wfd] \o new /\ new \in Seq(Byte) /\ new # <<>>
          /\ data[wfd] \in Seq(Byte)
      BY <1>1, <3>4 DEF Appends, DiskTypeOK
    <3>6. /\ data'[wfd] # <<>>
          /\ data'[wfd][Len(data'[wfd])] = new[Len(new)]
          /\ Len(new) \in 1 .. Len(new)
      BY <3>5
    <3>7. data'[wfd][Len(data'[wfd])].line = line'
      BY <3>4, <3>6 DEF Appends
    <3> QED
      BY <1>1, <3>1, <3>2, <3>3, <3>6, <3>7 DEF DiskTypeOK, Counters, WriterMidLine
  <2>2. CASE Rename
    BY <1>1, <2>2 DEF Rename, DiskTypeOK, Counters, WriterMidLine
  <2>3. CASE Create
    <3>1. PICK i \in Inodes \ (kept \cup {fd, wfd}) :
              /\ path' = i
              /\ data' = [data EXCEPT ![i] = <<>>]
              /\ epoch' = [epoch EXCEPT ![i] = 1 + rotations + truncations]
      BY <2>3 DEF Create
    <3>2. data' \in [Inodes -> Seq(Byte)] /\ data'[wfd] = data[wfd]
      BY <1>1, <3>1 DEF DiskTypeOK
    <3>3. epoch' \in [Inodes -> Nat]
      BY <1>1, <3>1 DEF DiskTypeOK, Counters
    <3> QED
      BY <1>1, <2>3, <3>1, <3>2, <3>3 DEF Create, bounds, DiskTypeOK, Counters, WriterMidLine
  <2>4. CASE WriterReopen
    BY <1>1, <2>4 DEF WriterReopen, bounds, DiskTypeOK, Counters, WriterMidLine
  <2>5. CASE Truncate
    <3>1. path \in Inodes /\ left = 0
      BY <1>1, <2>5 DEF Truncate, DiskTypeOK
    <3>2. data' \in [Inodes -> Seq(Byte)]
      BY <1>1, <2>5, <3>1 DEF Truncate, DiskTypeOK
    <3>3. epoch' \in [Inodes -> Nat]
      BY <1>1, <2>5, <3>1 DEF Truncate, DiskTypeOK, Counters
    <3> QED
      BY <1>1, <2>5, <3>1, <3>2, <3>3 DEF Truncate, DiskTypeOK, Counters, WriterMidLine
  <2> QED
    BY <2>1, <2>2, <2>3, <2>4, <2>5 DEF Environment
<1>3. UNCHANGED <<saved, proc, hist>> /\ UNCHANGED readErrors
  BY DEF Environment, WriteLine, WriteRest, Rename, Create, WriterReopen, Truncate, bounds
<1>4. SavedTypeOK' /\ ReaderTypeOK' /\ BufferTypeOK' /\ RecordsTypeOK'
  BY <1>3 DEF TypeOK, SavedTypeOK, ReaderTypeOK, BufferTypeOK, RecordsTypeOK, proc, hist
<1>5. Places' /\ Position'
  BY <1>3 DEF Places, Position, Taken, proc, hist
<1> QED
  BY <1>2, <1>4, <1>5 DEF TypeOK

\* A step that leaves the disk and the counters alone needs only the reader's
\* side of the invariant.
LEMMA ReaderSuffices ==
  ASSUME FileInv, UNCHANGED disk, Counters', SavedTypeOK', ReaderTypeOK',
         BufferTypeOK', RecordsTypeOK', Places', Position'
  PROVE  FileInv'
<1>1. DiskTypeOK'
  BY DEF FileInv, TypeOK, DiskTypeOK, disk
<1>2. WriterMidLine'
  BY DEF FileInv, WriterMidLine, disk
<1> QED
  BY <1>1, <1>2 DEF FileInv, TypeOK

LEMMA OpenInitialKeepsFileInv ==
  ASSUME FileInv, OpenInitial
  PROVE  FileInv'
<1>1. DiskTypeOK /\ SavedTypeOK /\ ReaderTypeOK /\ BufferTypeOK /\ RecordsTypeOK /\ Counters /\ Places
  BY DEF FileInv, TypeOK
<1> DEFINE len == Len(data[path])
<1>2. path \in Inodes /\ data[path] \in Seq(Byte) /\ len \in Nat
  BY <1>1 DEF OpenInitial, DiskTypeOK
<1>3. saved.offset \in Nat /\ saved.epoch \in Nat
  BY <1>1 DEF SavedTypeOK
<1>4. StartOffset(path, len) \in Nat
  BY <1>2, <1>3 DEF StartOffset
<1>5. /\ offset' = StartOffset(path, len) /\ pos' = offset' /\ pc' = "drain"
      /\ fd' = path /\ curIno' = path /\ buf' = <<>>
      /\ fdEpoch' \in {saved.epoch, epoch[path]}
      /\ passed' \in {passed, passed \cup Range(data[path])}
      /\ UNCHANGED <<disk, saved, first, discarded, statIno, emitted, seen, raced, bounds>>
  BY DEF OpenInitial
<1> HIDE DEF len
<1>6. Counters' /\ SavedTypeOK'
  BY <1>1, <1>5 DEF Counters, SavedTypeOK, bounds
<1>7. ReaderTypeOK'
  BY <1>1, <1>2, <1>3, <1>4, <1>5 DEF ReaderTypeOK, DiskTypeOK
<1>8. BufferTypeOK'
  BY <1>1, <1>5, FileConstants DEF BufferTypeOK
<1>9. RecordsTypeOK'
  BY <1>1, <1>2, <1>5, RangeShape DEF RecordsTypeOK
<1>10. Places'
  BY <1>1, <1>2, <1>5, InodeFacts DEF Places, OpenInitial, NoFile
<1>11. Position'
  BY <1>1, <1>4, <1>5 DEF Position, Taken, Places, OpenInitial
<1> QED
  BY <1>5, <1>6, <1>7, <1>8, <1>9, <1>10, <1>11, ReaderSuffices

LEMMA FillKeepsFileInv ==
  ASSUME FileInv, Fill
  PROVE  FileInv'
<1>1. DiskTypeOK /\ SavedTypeOK /\ ReaderTypeOK /\ BufferTypeOK /\ RecordsTypeOK /\ Counters /\ Places
  BY DEF FileInv, TypeOK
<1>2. /\ buf' = buf \o Got /\ pos' = pos + Len(Got)
      /\ UNCHANGED <<disk, saved, pc, fd, curIno, offset, first, discarded,
                     statIno, emitted, hist, bounds>>
  BY DEF Fill, Got
<1>3. /\ fd \in Inodes /\ Got \in Seq(Byte) /\ Len(Got) <= MaxLineBytes - Len(buf)
  BY GotShape DEF FileInv, Fill
<1>4. buf' \in Seq(Byte) /\ Len(buf') = Len(buf) + Len(Got) /\ Len(Got) \in Nat /\ Len(buf) \in Nat
  BY <1>1, <1>2, <1>3 DEF BufferTypeOK
<1>5. Counters' /\ SavedTypeOK' /\ RecordsTypeOK'
  BY <1>1, <1>2 DEF Counters, SavedTypeOK, RecordsTypeOK, bounds, hist
<1>6. ReaderTypeOK'
  BY <1>1, <1>2, <1>4 DEF ReaderTypeOK, hist
<1>7. BufferTypeOK'
  BY <1>1, <1>2, <1>3, <1>4, FileConstants DEF BufferTypeOK
<1>8. Places'
  BY <1>1, <1>2, <1>3, InodeFacts DEF Places, Fill, Reading, NoFile, hist
<1>9. Position'
  <2>1. Position /\ offset \in Nat /\ discarded \in Nat /\ pos \in Nat
    BY <1>1 DEF FileInv, ReaderTypeOK, BufferTypeOK
  <2>2. Taken' = offset + discarded + (Len(buf) + Len(Got))
    BY <1>2, <1>4, Zenon DEF Taken
  <2>3. Taken' = Taken + Len(Got) /\ Taken \in Nat
    BY <1>4, <2>1, <2>2 DEF Taken
  <2>4. pos' = pos + Len(Got) /\ fd' = fd /\ readErrors' = readErrors
    BY <1>2 DEF bounds
  <2> QED
    BY <1>4, <2>1, <2>3, <2>4 DEF Position
<1> QED
  BY <1>2, <1>5, <1>6, <1>7, <1>8, <1>9, ReaderSuffices

LEMMA LineReadKeepsFileInv ==
  ASSUME FileInv, LineRead
  PROVE  FileInv'
<1>1. DiskTypeOK /\ SavedTypeOK /\ ReaderTypeOK /\ BufferTypeOK /\ RecordsTypeOK /\ Counters /\ Places
  BY DEF FileInv, TypeOK
<1>2. /\ pc = "drain" /\ buf' = Rest /\ offset' = offset + Len(Slice)
      /\ seen' = seen \cup Range(Slice) /\ ConsumeLine(Slice, FALSE) /\ pc' = "drain"
      /\ UNCHANGED <<disk, saved, fd, curIno, pos, first, discarded, statIno,
                     fdEpoch, passed, raced, bounds>>
  BY DEF LineRead
<1>3. /\ Slice \in Seq(Byte) /\ Rest \in Seq(Byte)
      /\ Len(Slice) <= Len(buf) /\ Len(Rest) = Len(buf) - Len(Slice)
      /\ buf \in Seq(Byte)
  BY <1>1, SliceShape DEF BufferTypeOK
<1>4. Len(Slice) \in Nat /\ Len(Rest) \in Nat /\ Len(buf) \in Nat
  BY <1>3
<1>5. Counters' /\ SavedTypeOK'
  BY <1>1, <1>2 DEF Counters, SavedTypeOK, bounds
<1>6. ReaderTypeOK'
  BY <1>1, <1>2, <1>4 DEF ReaderTypeOK
<1>7. BufferTypeOK'
  BY <1>1, <1>2, <1>3, <1>4, FileConstants DEF BufferTypeOK
<1>8. RecordsTypeOK'
  <2>1. emitted' \in Seq([bytes : Seq(Byte), truncated : BOOLEAN, sure : BOOLEAN])
    BY <1>1, <1>2, <1>3, ConsumeLineType
  <2>2. Range(Slice) \subseteq Byte
    BY <1>3, RangeShape
  <2> QED
    BY <1>1, <1>2, <2>1, <2>2 DEF RecordsTypeOK
<1>9. Places'
  <2>1. fd = NoFile => buf' = <<>>
    <3>1. fd = NoFile => Len(Rest) = 0
      BY <1>1, <1>3, <1>4 DEF Places
    <3> QED
      BY <1>2, <1>3, <3>1
  <2> QED
    BY <1>1, <1>2, <2>1 DEF Places
<1>10. Position'
  <2>1. Position /\ offset \in Nat /\ discarded \in Nat /\ pos \in Nat
    BY <1>1 DEF FileInv, ReaderTypeOK, BufferTypeOK
  <2> QED
    BY <1>2, <1>3, <1>4, <2>1 DEF Position, Taken, bounds
<1> QED
  BY <1>2, <1>5, <1>6, <1>7, <1>8, <1>9, <1>10, ReaderSuffices

LEMMA LineTooLongKeepsFileInv ==
  ASSUME FileInv, LineTooLong
  PROVE  FileInv'
<1>1. DiskTypeOK /\ SavedTypeOK /\ ReaderTypeOK /\ BufferTypeOK /\ RecordsTypeOK /\ Counters /\ Places
  BY DEF FileInv, TypeOK
<1>2. /\ pc = "drain" /\ Full /\ first' = buf /\ buf' = <<>> /\ offset' = offset + Len(buf)
      /\ seen' = seen \cup Range(buf) /\ discarded' = 0 /\ pc' = "discard"
      /\ UNCHANGED <<disk, saved, fd, curIno, pos, statIno, emitted, fdEpoch,
                     passed, raced, bounds>>
  BY DEF LineTooLong
<1>3. buf \in Seq(Byte) /\ Len(buf) \in Nat
  BY <1>1 DEF BufferTypeOK
<1>4. Counters' /\ SavedTypeOK'
  BY <1>1, <1>2 DEF Counters, SavedTypeOK, bounds
<1>5. ReaderTypeOK'
  BY <1>1, <1>2, <1>3 DEF ReaderTypeOK
<1>6. BufferTypeOK'
  BY <1>1, <1>2, <1>3, FileConstants DEF BufferTypeOK
<1>7. RecordsTypeOK'
  <2>1. Range(buf) \subseteq Byte
    BY <1>3, RangeShape
  <2> QED
    BY <1>1, <1>2, <2>1 DEF RecordsTypeOK
<1>8. Places'
  BY <1>1, <1>2 DEF Places
<1>9. Position'
  <2>1. Position /\ offset \in Nat /\ discarded = 0 /\ pos \in Nat
    BY <1>1, <1>2 DEF FileInv, ReaderTypeOK, Places
  <2> QED
    BY <1>2, <1>3, <2>1 DEF Position, Taken, bounds
<1> QED
  BY <1>2, <1>4, <1>5, <1>6, <1>7, <1>8, <1>9, ReaderSuffices

LEMMA DiscardMoreKeepsFileInv ==
  ASSUME FileInv, DiscardMore
  PROVE  FileInv'
<1>1. DiskTypeOK /\ SavedTypeOK /\ ReaderTypeOK /\ BufferTypeOK /\ RecordsTypeOK /\ Counters /\ Places
  BY DEF FileInv, TypeOK
<1>2. /\ pc = "discard" /\ discarded + Len(buf) < MaxDiscard
      /\ discarded' = discarded + Len(buf) /\ buf' = <<>>
      /\ seen' = seen \cup Range(buf)
      /\ UNCHANGED <<disk, saved, pc, fd, curIno, offset, pos, first, statIno,
                     emitted, fdEpoch, passed, raced, bounds>>
  BY DEF DiscardMore
<1>3. buf \in Seq(Byte) /\ Len(buf) \in Nat
  BY <1>1 DEF BufferTypeOK
<1>4. Counters' /\ SavedTypeOK' /\ ReaderTypeOK'
  BY <1>1, <1>2 DEF Counters, SavedTypeOK, ReaderTypeOK, bounds
<1>6. BufferTypeOK'
  BY <1>1, <1>2, <1>3, FileConstants DEF BufferTypeOK
<1>7. RecordsTypeOK'
  <2>1. Range(buf) \subseteq Byte
    BY <1>3, RangeShape
  <2> QED
    BY <1>1, <1>2, <2>1 DEF RecordsTypeOK
<1>8. Places'
  <2>1. fd = NoFile => discarded' = 0
    BY <1>1, <1>2 DEF Places
  <2> QED
    BY <1>1, <1>2, <2>1 DEF Places
<1>9. Position'
  <2>1. Position /\ offset \in Nat /\ discarded \in Nat /\ pos \in Nat
    BY <1>1, <1>2 DEF FileInv, ReaderTypeOK, BufferTypeOK
  <2>2. Len(buf') = 0
    BY <1>2
  <2> QED
    BY <1>2, <1>3, <2>1, <2>2 DEF Position, Taken, bounds
<1> QED
  BY <1>2, <1>4, <1>6, <1>7, <1>8, <1>9, ReaderSuffices

LEMMA DiscardEndKeepsFileInv ==
  ASSUME FileInv, DiscardEnd
  PROVE  FileInv'
<1>1. DiskTypeOK /\ SavedTypeOK /\ ReaderTypeOK /\ BufferTypeOK /\ RecordsTypeOK /\ Counters /\ Places
  BY DEF FileInv, TypeOK
<1>2. /\ pc = "discard" /\ buf' = Rest /\ offset' = offset + discarded + Len(Slice)
      /\ seen' = seen \cup Range(Slice) /\ ConsumeLine(first, TRUE) /\ pc' = "drain"
      /\ first' = <<>> /\ discarded' = 0
      /\ UNCHANGED <<disk, saved, fd, curIno, pos, statIno, fdEpoch, passed, raced,
                     bounds>>
  BY DEF DiscardEnd
<1>3. /\ Slice \in Seq(Byte) /\ Rest \in Seq(Byte)
      /\ Len(Slice) <= Len(buf) /\ Len(Rest) = Len(buf) - Len(Slice)
      /\ buf \in Seq(Byte) /\ first \in Seq(Byte)
  BY <1>1, SliceShape DEF BufferTypeOK
<1>4. Len(Slice) \in Nat /\ Len(Rest) \in Nat /\ Len(buf) \in Nat /\ discarded \in Nat
  BY <1>1, <1>3 DEF BufferTypeOK
<1>5. Counters' /\ SavedTypeOK'
  BY <1>1, <1>2 DEF Counters, SavedTypeOK, bounds
<1>6. ReaderTypeOK'
  BY <1>1, <1>2, <1>4 DEF ReaderTypeOK
<1>7. BufferTypeOK'
  BY <1>1, <1>2, <1>3, <1>4, FileConstants DEF BufferTypeOK
<1>8. RecordsTypeOK'
  <2>1. emitted' \in Seq([bytes : Seq(Byte), truncated : BOOLEAN, sure : BOOLEAN])
    BY <1>1, <1>2, <1>3, ConsumeLineType
  <2>2. Range(Slice) \subseteq Byte
    BY <1>3, RangeShape
  <2> QED
    BY <1>1, <1>2, <2>1, <2>2 DEF RecordsTypeOK
<1>9. Places'
  <2>1. fd = NoFile => buf' = <<>>
    <3>1. fd = NoFile => Len(Rest) = 0
      BY <1>1, <1>3, <1>4 DEF Places
    <3> QED
      BY <1>2, <1>3, <3>1
  <2> QED
    BY <1>1, <1>2, <2>1 DEF Places
<1>10. Position'
  <2>1. Position /\ offset \in Nat /\ discarded \in Nat /\ pos \in Nat
    BY <1>1 DEF FileInv, ReaderTypeOK, BufferTypeOK
  <2>2. Taken' = (offset + discarded + Len(Slice)) + 0 + Len(Rest)
    BY <1>2, Zenon DEF Taken
  <2>3. Taken' = Taken
    BY <1>3, <1>4, <2>1, <2>2 DEF Taken
  <2> QED
    BY <1>2, <2>1, <2>3 DEF Position, bounds
<1> QED
  BY <1>2, <1>5, <1>6, <1>7, <1>8, <1>9, <1>10, ReaderSuffices

LEMMA ReadErrorKeepsFileInv ==
  ASSUME FileInv, ReadError
  PROVE  FileInv'
<1>1. DiskTypeOK /\ SavedTypeOK /\ ReaderTypeOK /\ BufferTypeOK /\ RecordsTypeOK /\ Counters /\ Places
  BY DEF FileInv, TypeOK
<1>2. /\ Reading
      /\ \/ fd = NoFile /\ readErrors' = readErrors
         \/ fd # NoFile /\ readErrors' = readErrors + 1
      /\ offset' = IF pc = "discard" THEN offset + discarded + Len(buf) ELSE offset
      /\ buf' = <<>> /\ first' = <<>> /\ discarded' = 0 /\ pc' = "stat"
      /\ UNCHANGED <<disk, saved, fd, curIno, pos, statIno, emitted, hist,
                     rotations, truncations, stops>>
  BY DEF ReadError
<1>3. buf \in Seq(Byte) /\ Len(buf) \in Nat /\ discarded \in Nat /\ offset \in Nat
  BY <1>1 DEF BufferTypeOK, ReaderTypeOK
<1>4. Counters' /\ SavedTypeOK' /\ RecordsTypeOK'
  BY <1>1, <1>2 DEF Counters, SavedTypeOK, RecordsTypeOK, hist
<1>5. ReaderTypeOK'
  BY <1>1, <1>2, <1>3 DEF ReaderTypeOK, hist
<1>6. BufferTypeOK'
  BY <1>1, <1>2, FileConstants DEF BufferTypeOK
<1>7. Places'
  BY <1>1, <1>2 DEF Places, Reading
<1>8. Position'
  <2>1. Position /\ pos \in Nat /\ (fd # NoFile => readErrors' # 0)
    BY <1>1, <1>2 DEF FileInv, ReaderTypeOK, Counters
  <2>2. fd # NoFile => offset' <= pos
    BY <1>2, <1>3, <2>1 DEF Position, Taken
  <2>3. Len(buf') = 0 /\ discarded' = 0 /\ offset' \in Nat /\ pos' = pos /\ fd' = fd
    BY <1>2, <1>5 DEF ReaderTypeOK
  <2>4. Taken' = offset' + 0 + 0
    BY <2>3, Zenon DEF Taken
  <2>a. \A n \in Nat : n + 0 + 0 = n
    OBVIOUS
  <2>5. Taken' = offset'
    BY <2>3, <2>4, <2>a, Zenon
  <2> QED
    BY <2>1, <2>2, <2>3, <2>5 DEF Position
<1> QED
  BY <1>2, <1>4, <1>5, <1>6, <1>7, <1>8, ReaderSuffices

\* checkRotation and the save and poll timers find the buffer empty.
LEMMA BetweenDrainsKeepsFileInv ==
  ASSUME FileInv,
         DrainEnd \/ StatSame \/ StatTruncated \/ StatRotated \/ SaveTick \/ Poll
  PROVE  FileInv'
<1>1. DiskTypeOK /\ SavedTypeOK /\ ReaderTypeOK /\ BufferTypeOK /\ RecordsTypeOK /\ Counters /\ Places
  BY DEF FileInv, TypeOK
<1>2. /\ UNCHANGED <<disk, fd, curIno, first, discarded, emitted, seen, passed, raced, bounds>>
      /\ buf = <<>> /\ buf' = <<>> /\ pc \in {"drain", "stat", "sleep"}
  BY <1>1 DEF DrainEnd, StatSame, StatTruncated, StatRotated, SaveTick, Poll, Places, hist
<1>3. Counters' /\ RecordsTypeOK'
  BY <1>1, <1>2 DEF Counters, RecordsTypeOK, bounds
<1>4. BufferTypeOK'
  BY <1>1, <1>2, FileConstants DEF BufferTypeOK
<1>5. SavedTypeOK'
  <2>1. CASE SaveTick
    BY <1>1, <2>1 DEF SaveTick, Save, SavedTypeOK, ReaderTypeOK
  <2>2. CASE ~SaveTick
    BY <1>1, <2>2 DEF DrainEnd, StatSame, StatTruncated, StatRotated, Poll, SavedTypeOK
  <2> QED
    BY <2>1, <2>2
<1>6. ReaderTypeOK' /\ Places' /\ Position'
  <2> USE DEF Position, Taken
  <2>0. Position /\ InodeFacts
    BY InodeFacts DEF FileInv
  <2>1. CASE DrainEnd
    BY <1>1, <1>2, <2>0, <2>1 DEF DrainEnd, hist, bounds, ReaderTypeOK, Places
  <2>2. CASE StatSame
    BY <1>1, <1>2, <2>0, <2>2 DEF StatSame, hist, bounds, ReaderTypeOK, Places
  <2>3. CASE StatTruncated
    <3>1. /\ \/ UNCHANGED <<offset, pos, fdEpoch>>
             \/ offset' = 0 /\ pos' = 0 /\ fdEpoch' \in Nat
          /\ pc' = "sleep" /\ pc = "stat" /\ UNCHANGED <<statIno, readErrors>>
      BY <1>1, <2>3 DEF StatTruncated, ReaderTypeOK, DiskTypeOK, bounds
    <3>2. ReaderTypeOK'
      BY <1>1, <1>2, <3>1 DEF ReaderTypeOK
    <3>3. Places'
      BY <1>1, <1>2, <3>1 DEF Places
    <3>4. discarded = 0 /\ Len(buf) = 0 /\ Len(buf') = 0
      BY <1>1, <1>2, <3>1 DEF Places
    <3>5. Position'
      BY <1>2, <2>0, <3>1, <3>4 DEF Position, Taken
    <3> QED
      BY <3>2, <3>3, <3>5
  <2>4. CASE StatRotated
    BY <1>1, <1>2, <2>0, <2>4 DEF StatRotated, hist, bounds, ReaderTypeOK, Places, DiskTypeOK, NoFile
  <2>5. CASE SaveTick
    BY <1>1, <1>2, <2>0, <2>5 DEF SaveTick, hist, bounds, ReaderTypeOK, Places
  <2>6. CASE Poll
    BY <1>1, <1>2, <2>0, <2>6 DEF Poll, hist, bounds, ReaderTypeOK, Places
  <2> QED
    BY <2>1, <2>2, <2>3, <2>4, <2>5, <2>6
<1> QED
  BY <1>2, <1>3, <1>4, <1>5, <1>6, ReaderSuffices

LEMMA ReopenKeepsFileInv ==
  ASSUME FileInv, Reopen
  PROVE  FileInv'
<1>1. DiskTypeOK /\ SavedTypeOK /\ ReaderTypeOK /\ BufferTypeOK /\ RecordsTypeOK /\ Counters /\ Places
  BY DEF FileInv, TypeOK
<1>2. /\ pc = "reopen" /\ fd' = path /\ statIno' = 0 /\ pc' = "sleep"
      /\ \/ path = NoFile /\ UNCHANGED <<curIno, offset, pos, buf, fdEpoch>>
         \/ path # NoFile /\ curIno' = statIno /\ offset' = 0 /\ pos' = 0 /\ buf' = <<>>
            /\ fdEpoch' = epoch[path]
      /\ UNCHANGED <<disk, saved, first, discarded, emitted, seen, passed, bounds>>
  BY DEF Reopen
<1>3. buf = <<>> /\ buf' = <<>> /\ discarded = 0
  BY <1>1, <1>2 DEF Places
<1>4. Counters' /\ SavedTypeOK'
  BY <1>1, <1>2 DEF Counters, SavedTypeOK, bounds
<1>5. RecordsTypeOK'
  <2>1. raced' \in BOOLEAN
    BY Zenon DEF Reopen
  <2> QED
    BY <1>1, <1>2, <2>1 DEF RecordsTypeOK
<1>6. BufferTypeOK'
  BY <1>1, <1>2, <1>3, FileConstants DEF BufferTypeOK
<1>7. ReaderTypeOK'
  <2>1. path # NoFile => path \in Inodes /\ epoch[path] \in Nat
    BY <1>1 DEF DiskTypeOK
  <2>2. fd' \in Inodes \cup {NoFile} /\ fdEpoch' \in Nat /\ curIno' \in Inodes \cup {0}
    BY <1>1, <1>2, <2>1 DEF ReaderTypeOK
  <2>3. offset' \in Nat /\ pos' \in Nat
    BY <1>1, <1>2 DEF ReaderTypeOK
  <2> QED
    BY <1>2, <2>2, <2>3 DEF ReaderTypeOK
<1>8. Places'
  BY <1>1, <1>2, <1>3 DEF Places
<1>9. Position'
  <2>1. Len(buf') = 0 /\ discarded' = 0
    BY <1>2, <1>3
  <2> QED
    BY <1>2, <2>1 DEF Position, Taken
<1> QED
  BY <1>2, <1>4, <1>5, <1>6, <1>7, <1>8, <1>9, ReaderSuffices

LEMMA ExitKeepsFileInv ==
  ASSUME FileInv, Stop \/ Crash
  PROVE  FileInv'
<1>1. DiskTypeOK /\ SavedTypeOK /\ ReaderTypeOK /\ BufferTypeOK /\ RecordsTypeOK /\ Counters
  BY DEF FileInv, TypeOK
<1>2. Exit /\ UNCHANGED <<disk, seen, passed, rotations, truncations, readErrors>>
  BY DEF Stop, Crash
<1>3. SavedTypeOK'
  <2>1. CASE Stop
    BY <1>1, <2>1 DEF Stop, Save, SavedTypeOK, ReaderTypeOK
  <2>2. CASE Crash
    BY <1>1, <2>2 DEF Crash, SavedTypeOK
  <2> QED
    BY <2>1, <2>2
<1>4. Counters'
  BY <1>1, <1>2 DEF Counters, Exit
<1>5. ReaderTypeOK'
  BY <1>2 DEF Exit, ReaderTypeOK, NoFile
<1>6. BufferTypeOK'
  BY <1>2, FileConstants DEF Exit, BufferTypeOK
<1>8. RecordsTypeOK'
  <2>1. emitted' = <<>> /\ raced' = FALSE /\ seen' = seen /\ passed' = passed
    BY <1>2 DEF Exit
  <2> QED
    BY <1>1, <2>1, EmptySeq, Zenon DEF RecordsTypeOK
<1>7. Places' /\ Position'
  BY <1>2 DEF Exit, Places, Position, Taken, NoFile
<1> QED
  BY <1>2, <1>3, <1>4, <1>5, <1>6, <1>7, <1>8, ReaderSuffices

LEMMA FileInvInit == Init => FileInv
<1> SUFFICES ASSUME Init PROVE FileInv
  OBVIOUS
<1>1. DiskTypeOK
  BY InodeFacts DEF Init, DiskTypeOK
<1>2. SavedTypeOK
  BY DEF Init, SavedTypeOK, NoOffset
<1>3. ReaderTypeOK /\ BufferTypeOK
  BY FileConstants DEF Init, ReaderTypeOK, BufferTypeOK, NoFile
<1>5. RecordsTypeOK
  <2>1. emitted = <<>> /\ raced = FALSE /\ seen = {} /\ passed = {}
    BY DEF Init
  <2> QED
    BY <2>1, EmptySeq, Zenon DEF RecordsTypeOK
<1>4. Counters /\ WriterMidLine /\ Places /\ Position
  BY DEF Init, Counters, WriterMidLine, Places, Position, Taken, NoFile
<1> QED
  BY <1>1, <1>2, <1>3, <1>4, <1>5 DEF FileInv, TypeOK

LEMMA FileInvNext == FileInv /\ [Next]_vars => FileInv'
<1> SUFFICES ASSUME FileInv, [Next]_vars PROVE FileInv'
  OBVIOUS
<1>1. CASE Source
  BY <1>1, OpenInitialKeepsFileInv, FillKeepsFileInv, LineReadKeepsFileInv,
     LineTooLongKeepsFileInv, DiscardMoreKeepsFileInv, DiscardEndKeepsFileInv,
     ReadErrorKeepsFileInv, BetweenDrainsKeepsFileInv, ReopenKeepsFileInv DEF Source
<1>2. CASE Environment
  BY <1>2, EnvironmentKeepsFileInv
<1>3. CASE Stop \/ Crash
  BY <1>3, ExitKeepsFileInv
<1>4. CASE UNCHANGED vars
  <2>1. UNCHANGED <<disk, saved, proc, hist, bounds>>
    BY <1>4 DEF vars
  <2>2. Counters' /\ Places' /\ Position'
    BY <2>1 DEF FileInv, Counters, Places, Position, Taken, proc, hist, bounds
  <2>3. SavedTypeOK' /\ ReaderTypeOK' /\ BufferTypeOK' /\ RecordsTypeOK'
    BY <2>1 DEF FileInv, TypeOK, SavedTypeOK, ReaderTypeOK, BufferTypeOK, RecordsTypeOK, proc, hist
  <2> QED
    BY <2>1, <2>2, <2>3, ReaderSuffices
<1> QED
  BY <1>1, <1>2, <1>3, <1>4 DEF Next

\* The offset that drain sums up from the lengths of what readLine returned is
\* where the descriptor stands less what is still buffered, whatever lines,
\* discards, rotations, truncations, stops and crashes came before; and no
\* reader is replaced while it holds bytes already read.
THEOREM FileOffsetExact == Spec => []OffsetExact
<1>1. FileInv => OffsetExact
  <2> SUFFICES ASSUME FileInv PROVE OffsetExact
    OBVIOUS
  <2>1. pc \in {"stat", "reopen", "sleep"} => buf = <<>>
    BY DEF FileInv, Places
  <2>2. ASSUME readErrors = 0, fd # NoFile, pc \in {"drain", "stat", "reopen", "sleep"}
        PROVE  pos = offset + Len(buf)
    <3>1. discarded = 0 /\ pos = offset + discarded + Len(buf)
      BY <2>2 DEF FileInv, Places, Position, Taken
    <3>2. offset \in Nat
      BY DEF FileInv, TypeOK, ReaderTypeOK
    <3> QED
      BY <3>1, <3>2
  <2> QED
    BY <2>1, <2>2 DEF FileInv, OffsetExact
<1> QED
  BY <1>1, FileInvInit, FileInvNext, PTL DEF Spec

-----------------------------------------------------------------------------
LEMMA CoveredGrows ==
  ASSUME NEW f \in Seq(Byte), NEW g \in Seq(Byte), NEW S, NEW T, NEW n \in Nat,
         Covered(f, S, n), S \subseteq T, Len(f) <= Len(g),
         \A k \in 1 .. Len(f) : g[k] = f[k]
  PROVE  Covered(g, T, n)
<1>1. n <= Len(f) /\ Len(f) \in Nat /\ Len(g) \in Nat
  BY DEF Covered
<1>2. ASSUME NEW k \in 1 .. n PROVE g[k] \in T
  <2>1. k \in 1 .. Len(f)
    BY <1>1
  <2> QED
    BY <2>1 DEF Covered
<1> QED
  BY <1>1, <1>2 DEF Covered

LEMMA MatchesGrows ==
  ASSUME NEW f \in Seq(Byte), NEW g \in Seq(Byte), NEW n \in Nat,
         NEW b \in Seq(Byte), Matches(f, n, b), n + Len(b) <= Len(f),
         \A k \in 1 .. Len(f) : g[k] = f[k]
  PROVE  Matches(g, n, b)
<1> SUFFICES ASSUME NEW k \in 1 .. Len(b) PROVE b[k] = g[n + k]
  BY DEF Matches
<1>1. n + k \in 1 .. Len(f)
  OBVIOUS
<1> QED
  BY <1>1 DEF Matches

\* Consuming the first m bytes of the buffer.
LEMMA ConsumeCovers ==
  ASSUME NEW f \in Seq(Byte), NEW b \in Seq(Byte), NEW n \in Nat, NEW S, NEW T,
         NEW m \in Nat, m <= Len(b), NEW r \in Seq(Byte),
         Matches(f, n, b), n + Len(b) <= Len(f), Covered(f, S, n), S \subseteq T,
         \A k \in 1 .. m : b[k] \in T,
         Len(r) = Len(b) - m, \A k \in 1 .. Len(r) : r[k] = b[m + k]
  PROVE  Covered(f, T, n + m) /\ Matches(f, n + m, r)
<1>1. Len(b) \in Nat /\ Len(f) \in Nat
  OBVIOUS
<1>2. ASSUME NEW k \in 1 .. n + m PROVE f[k] \in T
  <2>1. CASE k <= n
    <3>1. k \in 1 .. n
      BY <2>1
    <3> QED
      BY <3>1 DEF Covered
  <2>2. CASE k > n
    <3>1. k - n \in 1 .. m /\ k - n \in 1 .. Len(b) /\ n + (k - n) = k
      BY <1>1, <2>2
    <3>2. b[k - n] = f[n + (k - n)]
      BY <3>1 DEF Matches
    <3> QED
      BY <3>1, <3>2
  <2> QED
    BY <2>1, <2>2
<1>3. ASSUME NEW k \in 1 .. Len(r) PROVE r[k] = f[n + m + k]
  <2>1. m + k \in 1 .. Len(b) /\ n + (m + k) = n + m + k
    BY <1>1
  <2>2. b[m + k] = f[n + (m + k)]
    BY <2>1 DEF Matches
  <2> QED
    BY <2>1, <2>2
<1>4. n + m <= Len(f)
  BY <1>1
<1> QED
  BY <1>2, <1>3, <1>4 DEF Covered, Matches

\* One more read(2) appended to the buffer.
LEMMA FillMatches ==
  ASSUME NEW f \in Seq(Byte), NEW b \in Seq(Byte), NEW c \in Seq(Byte), NEW n \in Nat,
         Matches(f, n, b), Matches(f, n + Len(b), c)
  PROVE  Matches(f, n, b \o c)
<1> SUFFICES ASSUME NEW k \in 1 .. Len(b \o c) PROVE (b \o c)[k] = f[n + k]
  BY DEF Matches
<1>1. Len(b) \in Nat /\ Len(c) \in Nat /\ Len(b \o c) = Len(b) + Len(c)
  OBVIOUS
<1>2. CASE k <= Len(b)
  <2>1. k \in 1 .. Len(b) /\ (b \o c)[k] = b[k]
    BY <1>1, <1>2
  <2> QED
    BY <2>1 DEF Matches
<1>3. CASE k > Len(b)
  <2>1. k - Len(b) \in 1 .. Len(c) /\ (b \o c)[k] = c[k - Len(b)]
    BY <1>1, <1>3
  <2>2. c[k - Len(b)] = f[n + Len(b) + (k - Len(b))]
    BY <2>1 DEF Matches
  <2>3. n + Len(b) + (k - Len(b)) = n + k
    BY <1>1
  <2> QED
    BY <2>1, <2>2, <2>3
<1> QED
  BY <1>1, <1>2, <1>3

-----------------------------------------------------------------------------
\* The parts of SkipInv about the running source, and about the saved offset.
RunInv == MistakenIno /\ CoveredNow /\ BufferIsFile

LEMMA CountedFacts ==
  ASSUME FileInv
  PROVE  /\ Counted \in Nat /\ Len(buf) \in Nat /\ buf \in Seq(Byte)
         /\ Taken = Counted + Len(buf)
         /\ fd # NoFile => fd \in Inodes
         /\ curIno # 0 => curIno \in Inodes
         /\ \A i \in Inodes : data[i] \in Seq(Byte)
<1>1. offset \in Nat /\ discarded \in Nat /\ buf \in Seq(Byte)
  BY DEF FileInv, TypeOK, ReaderTypeOK, BufferTypeOK
<1>2. Len(buf) \in Nat
  BY <1>1
<1>3. /\ fd # NoFile => fd \in Inodes
      /\ curIno # 0 => curIno \in Inodes
      /\ \A i \in Inodes : data[i] \in Seq(Byte)
  BY DEF FileInv, TypeOK, ReaderTypeOK, DiskTypeOK
<1> QED
  BY <1>1, <1>2, <1>3 DEF Counted, Taken

\* A step of the source that takes m bytes from the buffer, possibly none.
LEMMA ConsumeKeepsRunInv ==
  ASSUME FileInv, RunInv, NEW m \in Nat, m <= Len(buf),
         Counted' = Counted + m, buf' \in Seq(Byte), Len(buf') = Len(buf) - m,
         \A k \in 1 .. Len(buf') : buf'[k] = buf[m + k],
         \A k \in 1 .. m : buf[k] \in seen', seen \subseteq seen',
         passed' = passed,
         UNCHANGED <<disk, fd, curIno, pos, fdEpoch, readErrors>>
  PROVE  RunInv'
<1>1. /\ Counted \in Nat /\ Len(buf) \in Nat /\ buf \in Seq(Byte)
      /\ Taken = Counted + Len(buf)
      /\ fd # NoFile => fd \in Inodes
      /\ curIno # 0 => curIno \in Inodes
      /\ \A i \in Inodes : data[i] \in Seq(Byte)
  BY CountedFacts
<1>2. data' = data /\ epoch' = epoch
  BY DEF disk
<1>3. Known \subseteq Known' /\ \A k \in 1 .. m : buf[k] \in Known'
  BY DEF Known
<1>4. MistakenIno'
  BY <1>2 DEF RunInv, MistakenIno
<1>5. ASSUME readErrors = 0, fd # NoFile, epoch[fd] = fdEpoch
      PROVE  /\ Covered(data[fd], Known', Counted + m)
             /\ pos <= Len(data[fd]) /\ Matches(data[fd], Counted + m, buf')
  <2>1. /\ Covered(data[fd], Known, Counted) /\ pos <= Len(data[fd])
        /\ Matches(data[fd], Counted, buf)
    BY <1>5 DEF RunInv, CoveredNow, BufferIsFile
  <2>2. pos = Counted + Len(buf)
    BY <1>1, <1>5 DEF FileInv, Position
  <2>3. data[fd] \in Seq(Byte) /\ Counted + Len(buf) <= Len(data[fd])
    BY <1>1, <1>5, <2>1, <2>2
  <2> QED
    BY <1>1, <1>3, <2>1, <2>3, ConsumeCovers
<1>6. ASSUME readErrors = 0, curIno # 0, epoch[curIno] = fdEpoch
      PROVE  Covered(data[curIno], Known', Counted + m)
  <2>1. CASE fd # NoFile
    <3>1. curIno = fd
      BY <1>6, <2>1 DEF RunInv, MistakenIno
    <3> QED
      BY <1>5, <1>6, <2>1, <3>1
  <2>2. CASE fd = NoFile
    <3>1. m = 0 /\ Counted + m = Counted
      BY <1>1, <2>2 DEF FileInv, Places
    <3>2. Covered(data[curIno], Known, Counted)
      BY <1>6 DEF RunInv, CoveredNow
    <3>3. data[curIno] \in Seq(Byte)
      BY <1>1, <1>6
    <3>4. \A k \in 1 .. Len(data[curIno]) : data[curIno][k] = data[curIno][k]
      OBVIOUS
    <3>5. Len(data[curIno]) <= Len(data[curIno])
      BY <3>3
    <3> QED
      BY <1>1, <1>3, <3>1, <3>2, <3>3, <3>4, <3>5, CoveredGrows
  <2> QED
    BY <2>1, <2>2
<1>7. CoveredNow'
  BY <1>2, <1>5, <1>6 DEF CoveredNow
<1>8. BufferIsFile'
  BY <1>2, <1>5 DEF BufferIsFile
<1> QED
  BY <1>4, <1>7, <1>8 DEF RunInv

LEMMA FillKeepsRunInv ==
  ASSUME FileInv, RunInv, Fill
  PROVE  RunInv'
<1>1. /\ Counted \in Nat /\ Len(buf) \in Nat /\ buf \in Seq(Byte)
      /\ Taken = Counted + Len(buf)
      /\ fd # NoFile => fd \in Inodes
      /\ \A i \in Inodes : data[i] \in Seq(Byte)
  BY CountedFacts
<1>2. /\ buf' = buf \o Got /\ pos' = pos + Len(Got)
      /\ UNCHANGED <<data, epoch, fd, curIno, fdEpoch, readErrors, seen, passed, offset, discarded>>
  BY DEF Fill, Got, disk, hist, bounds
<1>3. /\ Got \in Seq(Byte) /\ pos + Len(Got) <= Len(data[fd])
      /\ \A k \in 1 .. Len(Got) : Got[k] = data[fd][pos + k]
  BY GotShape DEF FileInv, Fill
<1>4. Counted' = Counted /\ Known' = Known
  BY <1>2 DEF Counted, Known
<1>5. MistakenIno' /\ CoveredNow'
  BY <1>2, <1>4 DEF RunInv, MistakenIno, CoveredNow
<1>6. ASSUME readErrors = 0, fd # NoFile, epoch[fd] = fdEpoch
      PROVE  Matches(data[fd], Counted, buf \o Got)
  <2>1. pos = Counted + Len(buf)
    BY <1>1, <1>6 DEF FileInv, Position
  <2>2. Matches(data[fd], Counted, buf) /\ Matches(data[fd], Counted + Len(buf), Got)
    BY <1>3, <1>6, <2>1 DEF RunInv, BufferIsFile, Matches
  <2> QED
    BY <1>1, <1>3, <1>6, <2>2, FillMatches
<1>7. BufferIsFile'
  BY <1>2, <1>3, <1>4, <1>6 DEF BufferIsFile
<1> QED
  BY <1>5, <1>7 DEF RunInv

\* readLine, with and without a discard.
LEMMA ReadLineKeepsRunInv ==
  ASSUME FileInv, RunInv, LineRead \/ LineTooLong \/ DiscardMore \/ DiscardEnd
  PROVE  RunInv'
<1>1. /\ Len(buf) \in Nat /\ buf \in Seq(Byte) /\ offset \in Nat /\ discarded \in Nat
  BY CountedFacts DEF FileInv, TypeOK, ReaderTypeOK, BufferTypeOK
<1>2. /\ Slice \in Seq(Byte) /\ Rest \in Seq(Byte)
      /\ Len(Slice) <= Len(buf) /\ Len(Rest) = Len(buf) - Len(Slice)
      /\ \A k \in 1 .. Len(Slice) : Slice[k] = buf[k]
      /\ \A k \in 1 .. Len(Rest) : Rest[k] = buf[Len(Slice) + k]
  BY <1>1, SliceShape
<1>3. Len(Slice) \in Nat
  BY <1>2
<1>4. /\ UNCHANGED <<disk, fd, curIno, pos, fdEpoch, readErrors>> /\ passed' = passed
  BY DEF LineRead, LineTooLong, DiscardMore, DiscardEnd, bounds
<1>5. CASE LineRead \/ DiscardEnd
  <2>1. buf' = Rest /\ seen' = seen \cup Range(Slice)
    BY <1>5 DEF LineRead, DiscardEnd
  <2>2. Counted' = Counted + Len(Slice)
    <3>1. CASE LineRead
      <4>1. Counted' = (offset + Len(Slice)) + discarded
        BY <3>1, Zenon DEF LineRead, Counted
      <4> QED
        BY <1>1, <1>3, <4>1 DEF Counted
    <3>2. CASE DiscardEnd
      <4>1. Counted' = (offset + discarded + Len(Slice)) + 0
        BY <3>2, Zenon DEF DiscardEnd, Counted
      <4> QED
        BY <1>1, <1>3, <4>1 DEF Counted
    <3> QED
      BY <1>5, <3>1, <3>2
  <2>3. ASSUME NEW k \in 1 .. Len(Slice) PROVE buf[k] \in seen'
    BY <1>2, <2>1, RangeShape
  <2> QED
    BY <1>2, <1>3, <1>4, <2>1, <2>2, <2>3, ConsumeKeepsRunInv
<1>6. CASE LineTooLong \/ DiscardMore
  <2>1. buf' = <<>> /\ seen' = seen \cup Range(buf)
    BY <1>6 DEF LineTooLong, DiscardMore
  <2>2. Counted' = Counted + Len(buf)
    <3>1. CASE LineTooLong
      <4>1. discarded = 0
        BY <3>1 DEF LineTooLong, FileInv, Places
      <4>2. Counted' = (offset + Len(buf)) + 0
        BY <3>1, Zenon DEF LineTooLong, Counted
      <4> QED
        BY <1>1, <4>1, <4>2 DEF Counted
    <3>2. CASE DiscardMore
      <4>1. Counted' = offset + (discarded + Len(buf))
        BY <3>2, Zenon DEF DiscardMore, Counted
      <4> QED
        BY <1>1, <4>1 DEF Counted
    <3> QED
      BY <1>6, <3>1, <3>2
  <2>3. ASSUME NEW k \in 1 .. Len(buf) PROVE buf[k] \in seen'
    BY <1>1, <2>1, RangeShape
  <2>4. buf' \in Seq(Byte) /\ Len(buf') = Len(buf) - Len(buf)
        /\ \A k \in 1 .. Len(buf') : buf'[k] = buf[Len(buf) + k]
    BY <1>1, <2>1
  <2> QED
    BY <1>1, <1>4, <2>1, <2>2, <2>3, <2>4, ConsumeKeepsRunInv
<1> QED
  BY <1>5, <1>6

\* Nothing is taken from the buffer.
LEMMA IdleKeepsRunInv ==
  ASSUME FileInv, RunInv,
         UNCHANGED <<disk, fd, curIno, pos, buf, offset, discarded, fdEpoch, seen,
                     passed, readErrors>>
  PROVE  RunInv'
<1>1. Counted' = Counted /\ Known' = Known /\ data' = data /\ epoch' = epoch
  BY DEF Counted, Known, disk
<1> QED
  BY <1>1 DEF RunInv, MistakenIno, CoveredNow, BufferIsFile

LEMMA ReadErrorKeepsRunInv ==
  ASSUME FileInv, RunInv, ReadError
  PROVE  RunInv'
<1>1. UNCHANGED <<disk, fd, curIno, pos, fdEpoch, seen, passed>> /\ buf' = <<>> /\ discarded' = 0
  BY DEF ReadError, hist
<1>2. CASE fd = NoFile
  <2>1. readErrors' = readErrors /\ buf = <<>> /\ discarded = 0 /\ Len(buf) = 0
    BY <1>2 DEF ReadError, FileInv, Places
  <2>2. offset \in Nat
    BY DEF FileInv, TypeOK, ReaderTypeOK
  <2>3. offset' = offset
    BY <2>1, <2>2 DEF ReadError
  <2> QED
    BY <1>1, <2>1, <2>3, IdleKeepsRunInv
<1>3. CASE fd # NoFile
  <2>1. readErrors' # 0
    BY <1>3 DEF ReadError, FileInv, Counters
  <2>2. data' = data /\ epoch' = epoch
    BY <1>1 DEF disk
  <2> QED
    BY <1>1, <2>1, <2>2 DEF RunInv, MistakenIno, CoveredNow, BufferIsFile
<1> QED
  BY <1>2, <1>3

\* A file read from its start: nothing of it is counted yet.
LEMMA FreshStart ==
  ASSUME NEW f \in Seq(Byte), NEW S
  PROVE  Covered(f, S, 0) /\ Matches(f, 0, <<>>)
  BY DEF Covered, Matches

LEMMA StatTruncatedKeepsRunInv ==
  ASSUME FileInv, Epochs, RunInv, StatTruncated
  PROVE  RunInv'
<1>1. /\ UNCHANGED <<disk, fd, curIno, discarded, seen, passed, readErrors>>
      /\ path # NoFile /\ path = curIno /\ pc = "stat"
  BY DEF StatTruncated, bounds
<1>2. CASE fd = NoFile
  <2>1. UNCHANGED <<offset, pos, buf, fdEpoch>>
    BY <1>2 DEF StatTruncated
  <2> QED
    BY <1>1, <2>1, IdleKeepsRunInv
<1>3. CASE fd # NoFile
  <2>1. offset' = 0 /\ pos' = 0 /\ buf' = <<>> /\ fdEpoch' = epoch[fd]
    BY <1>3 DEF StatTruncated
  <2>2. data' = data /\ epoch' = epoch /\ discarded = 0
    BY <1>1 DEF disk, FileInv, Places
  <2>3. Counted' = 0
    <3>1. Counted' = 0 + 0
      BY <1>1, <2>1, <2>2, Zenon DEF Counted
    <3> QED
      BY <3>1
  <2>4. fd \in Inodes /\ curIno \in Inodes /\ data[fd] \in Seq(Byte) /\ data[curIno] \in Seq(Byte)
    BY <1>1, <1>3, CountedFacts DEF FileInv, Places
  <2>5. curIno # fd => epoch[curIno] # epoch[fd]
    BY <1>1, <2>4 DEF Epochs
  <2>6. /\ Covered(data[fd], Known', 0) /\ Covered(data[curIno], Known', 0)
        /\ Matches(data[fd], 0, <<>>) /\ 0 <= Len(data[fd])
    BY <2>4, FreshStart
  <2> QED
    BY <1>1, <2>1, <2>2, <2>3, <2>5, <2>6 DEF RunInv, MistakenIno, CoveredNow, BufferIsFile
<1> QED
  BY <1>2, <1>3

LEMMA ReopenKeepsRunInv ==
  ASSUME FileInv, Epochs, RunInv, Reopen
  PROVE  RunInv'
<1>1. /\ UNCHANGED <<disk, discarded, seen, passed, readErrors>>
      /\ fd' = path /\ pc = "reopen"
  BY DEF Reopen, bounds
<1>2. /\ data' = data /\ epoch' = epoch /\ Known' = Known /\ discarded = 0 /\ statIno \in Inodes
  BY <1>1 DEF disk, Known, FileInv, Places, TypeOK, ReaderTypeOK
<1>3. CASE path = NoFile
  <2>1. UNCHANGED <<curIno, offset, pos, buf, fdEpoch>>
    BY <1>3 DEF Reopen
  <2>2. Counted' = Counted
    BY <1>1, <2>1 DEF Counted
  <2> QED
    BY <1>1, <1>2, <1>3, <2>1, <2>2 DEF RunInv, MistakenIno, CoveredNow, BufferIsFile
<1>4. CASE path # NoFile
  <2>1. curIno' = statIno /\ offset' = 0 /\ pos' = 0 /\ buf' = <<>> /\ fdEpoch' = epoch[path]
    BY <1>4 DEF Reopen
  <2>2. Counted' = 0
    <3>1. Counted' = 0 + 0
      BY <1>1, <1>2, <2>1, Zenon DEF Counted
    <3> QED
      BY <3>1
  <2>3. path \in Inodes /\ data[path] \in Seq(Byte) /\ data[statIno] \in Seq(Byte)
    BY <1>2, <1>4 DEF FileInv, TypeOK, DiskTypeOK
  <2>4. statIno # path => epoch[statIno] # epoch[path]
    BY <1>2, <1>4, <2>3 DEF Epochs
  <2>5. /\ Covered(data[path], Known, 0) /\ Covered(data[statIno], Known, 0)
        /\ Matches(data[path], 0, <<>>) /\ 0 <= Len(data[path])
    BY <2>3, FreshStart
  <2> QED
    BY <1>1, <1>2, <2>1, <2>2, <2>4, <2>5 DEF RunInv, MistakenIno, CoveredNow, BufferIsFile
<1> QED
  BY <1>3, <1>4

\* openInitial resumes where the saved offset says, when that is of this file.
LEMMA OpenInitialKeepsRunInv ==
  ASSUME FileInv, Epochs, CoveredSaved, OpenInitial
  PROVE  RunInv'
<1> DEFINE len == Len(data[path])
           start == StartOffset(path, len)
<1>1. /\ path # NoFile /\ fd' = path /\ curIno' = path /\ offset' = start /\ pos' = start
      /\ buf' = <<>> /\ seen' = seen /\ pc = "down"
      /\ UNCHANGED <<disk, discarded, readErrors>>
      /\ fdEpoch' = (IF Resumes(path, len) THEN saved.epoch ELSE epoch[path])
      /\ passed' = IF saved = NoOffset /\ ~FromBeginning
                        THEN passed \cup Range(data[path]) ELSE passed
  BY DEF OpenInitial, bounds
<1>2. path \in Inodes /\ data[path] \in Seq(Byte) /\ len \in Nat /\ discarded = 0
  BY <1>1 DEF FileInv, TypeOK, DiskTypeOK, Places
<1>3. saved.offset \in Nat /\ saved.valid /\ path # 0
  BY <1>1 DEF FileInv, TypeOK, SavedTypeOK, CoveredSaved, NoFile
<1>4. data' = data /\ epoch' = epoch
  BY <1>1 DEF disk
<1>5. Known \subseteq Known'
  BY <1>1 DEF Known
<1>6. start \in Nat /\ start <= len
  BY <1>2, <1>3 DEF StartOffset
<1>7. ASSUME readErrors = 0, epoch[path] = fdEpoch'
      PROVE  Covered(data[path], Known', start)
  <2>1. CASE Resumes(path, len)
    <3>1. saved.inode = path /\ start = saved.offset /\ fdEpoch' = saved.epoch
      BY <1>1, <1>3, <2>1 DEF Resumes, StartOffset
    <3>2. Covered(data[path], Known, start)
      BY <1>3, <1>7, <3>1 DEF CoveredSaved
    <3>3. Len(data[path]) <= Len(data[path])
          /\ \A k \in 1 .. Len(data[path]) : data[path][k] = data[path][k]
      BY <1>2
    <3> HIDE DEF start
    <3> QED
      BY <1>2, <1>5, <1>6, <3>2, <3>3, CoveredGrows
  <2>2. CASE ~Resumes(path, len)
    <3>1. CASE start = 0
      BY <1>2, <3>1, FreshStart
    <3>2. CASE start # 0
      <4>1. ~FromBeginning /\ saved.inode = 0 /\ start = len
        BY <1>3, <2>2, <3>2 DEF Resumes, StartOffset
      <4>2. saved = NoOffset
        BY <4>1 DEF CoveredSaved
      <4>3. passed' = passed \cup Range(data[path])
        BY <1>1, <4>1, <4>2
      <4>4. ASSUME NEW k \in 1 .. len PROVE data[path][k] \in Known'
        BY <1>2, <4>3, RangeShape DEF Known
      <4> QED
        BY <1>2, <4>1, <4>4 DEF Covered
    <3> QED
      BY <3>1, <3>2
  <2> QED
    BY <2>1, <2>2
<1> HIDE DEF start
<1>8. Counted' = start
  <2>1. Counted' = start + 0
    BY <1>1, <1>2, Zenon DEF Counted
  <2> QED
    BY <1>6, <2>1
<1>9. Matches(data[path], start, <<>>)
  BY DEF Matches
<1> QED
  BY <1>1, <1>4, <1>6, <1>7, <1>8, <1>9 DEF RunInv, MistakenIno, CoveredNow, BufferIsFile

LEMMA ExitKeepsRunInv ==
  ASSUME FileInv, Stop \/ Crash
  PROVE  RunInv'
<1>1. fd' = NoFile /\ curIno' = 0
  BY DEF Stop, Crash, Exit
<1> QED
  BY <1>1 DEF RunInv, MistakenIno, CoveredNow, BufferIsFile

-----------------------------------------------------------------------------
\* What was saved stays true while the file is there, and a new Save stores
\* what the source has counted of the file it takes it for.
LEMMA SourceKeepsSaved ==
  ASSUME FileInv, CoveredSaved, saved' = saved, UNCHANGED disk,
         seen \subseteq seen', passed \subseteq passed',
         readErrors' = 0 => readErrors = 0
  PROVE  CoveredSaved'
<1>1. data' = data /\ epoch' = epoch
  BY DEF disk
<1>2. saved.inode # 0 => saved.inode \in Inodes /\ data[saved.inode] \in Seq(Byte)
  BY DEF FileInv, TypeOK, SavedTypeOK, DiskTypeOK
<1>3. saved.offset \in Nat
  BY DEF FileInv, TypeOK, SavedTypeOK
<1>4. Known \subseteq Known'
  BY DEF Known
<1>5. ASSUME readErrors' = 0, saved.inode # 0, epoch[saved.inode] = saved.epoch
      PROVE  Covered(data[saved.inode], Known', saved.offset)
  <2>1. Covered(data[saved.inode], Known, saved.offset)
    BY <1>5 DEF CoveredSaved
  <2>2. Len(data[saved.inode]) <= Len(data[saved.inode])
        /\ \A k \in 1 .. Len(data[saved.inode]) : data[saved.inode][k] = data[saved.inode][k]
    BY <1>2, <1>5
  <2> QED
    BY <1>2, <1>3, <1>4, <1>5, <2>1, <2>2, CoveredGrows
<1> QED
  BY <1>1, <1>5 DEF CoveredSaved

LEMMA SaveKeepsSaved ==
  ASSUME FileInv, RunInv, Save, pc \in {"drain", "sleep"},
         UNCHANGED <<disk, seen, passed, readErrors>>
  PROVE  CoveredSaved'
<1>1. data' = data /\ epoch' = epoch /\ Known' = Known
  BY DEF disk, Known
<1>2. saved'.inode = curIno /\ saved'.offset = offset /\ saved'.epoch = fdEpoch /\ saved'.valid = TRUE
  BY DEF Save
<1>3. curIno # 0 /\ discarded = 0 /\ offset \in Nat
  BY DEF FileInv, Places, TypeOK, ReaderTypeOK
<1>4. Counted = offset
  BY <1>3 DEF Counted
<1>5. readErrors = 0 /\ epoch[curIno] = fdEpoch => Covered(data[curIno], Known, offset)
  BY <1>3, <1>4 DEF RunInv, CoveredNow
<1> QED
  BY <1>1, <1>2, <1>3, <1>5 DEF CoveredSaved

\* The source learns epochs from the file system and from its saved offset.
LEMMA SourceKeepsEpochs ==
  ASSUME FileInv, Epochs, UNCHANGED <<disk, rotations, truncations>>,
         \/ fdEpoch' \in {0, fdEpoch, saved.epoch}
         \/ \E i \in Inodes : fdEpoch' = epoch[i],
         saved'.epoch \in {saved.epoch, fdEpoch}
  PROVE  Epochs'
<1>1. path' = path /\ epoch' = epoch
  BY DEF disk
<1>2. /\ fdEpoch \in Nat /\ saved.epoch \in Nat /\ rotations \in Nat /\ truncations \in Nat
      /\ \A i \in Inodes : epoch[i] \in Nat
  BY DEF FileInv, TypeOK, ReaderTypeOK, SavedTypeOK, DiskTypeOK, Counters
<1>3. fdEpoch' <= 1 + rotations + truncations /\ (path = NoFile => fdEpoch' <= rotations + truncations)
  BY <1>2 DEF Epochs
<1>4. saved'.epoch <= 1 + rotations + truncations /\ (path = NoFile => saved'.epoch <= rotations + truncations)
  BY <1>2 DEF Epochs
<1>5. rotations' = rotations /\ truncations' = truncations
  OBVIOUS
<1> QED
  BY <1>1, <1>3, <1>4, <1>5, Zenon DEF Epochs

LEMMA SourceKeepsSkipInv ==
  ASSUME SkipInv, Source
  PROVE  SkipInv'
<1>1. FileInv /\ Epochs /\ RunInv /\ CoveredSaved
  BY DEF SkipInv, RunInv
<1>2. FileInv'
  BY <1>1, FileInvNext DEF Next
<1>3. UNCHANGED <<disk, rotations, truncations>>
  BY DEF Source, OpenInitial, Fill, LineRead, LineTooLong, DiscardMore, DiscardEnd, DrainEnd,
     ReadError, StatSame, StatTruncated, StatRotated, Reopen, SaveTick, Poll, bounds
<1>4. RunInv'
  <2>1. CASE OpenInitial
    BY <1>1, <2>1, OpenInitialKeepsRunInv
  <2>2. CASE Fill
    BY <1>1, <2>2, FillKeepsRunInv
  <2>3. CASE LineRead \/ LineTooLong \/ DiscardMore \/ DiscardEnd
    BY <1>1, <2>3, ReadLineKeepsRunInv
  <2>4. CASE ReadError
    BY <1>1, <2>4, ReadErrorKeepsRunInv
  <2>5. CASE StatTruncated
    BY <1>1, <2>5, StatTruncatedKeepsRunInv
  <2>6. CASE Reopen
    BY <1>1, <2>6, ReopenKeepsRunInv
  <2>7. CASE DrainEnd \/ StatSame \/ StatRotated \/ SaveTick \/ Poll
    <3>1. UNCHANGED <<disk, fd, curIno, pos, buf, offset, discarded, fdEpoch, seen,
                      passed, readErrors>>
      BY <2>7 DEF DrainEnd, StatSame, StatRotated, SaveTick, Poll, hist, bounds
    <3> QED
      BY <1>1, <3>1, IdleKeepsRunInv
  <2> QED
    BY <2>1, <2>2, <2>3, <2>4, <2>5, <2>6, <2>7 DEF Source
<1>5. CoveredSaved'
  <2>1. CASE SaveTick
    <3>1. Save /\ pc = "sleep" /\ UNCHANGED <<disk, seen, passed, readErrors>>
      BY <2>1 DEF SaveTick, hist, bounds
    <3> QED
      BY <1>1, <3>1, SaveKeepsSaved
  <2>2. CASE ~SaveTick
    <3>1. saved' = saved /\ seen \subseteq seen' /\ passed \subseteq passed'
      BY <2>2 DEF Source, OpenInitial, Fill, LineRead, LineTooLong, DiscardMore, DiscardEnd,
         DrainEnd, ReadError, StatSame, StatTruncated, StatRotated, Reopen, Poll, hist
    <3>2. readErrors' = readErrors \/ readErrors' = readErrors + 1
      BY <2>2 DEF Source, OpenInitial, Fill, LineRead, LineTooLong, DiscardMore, DiscardEnd,
         DrainEnd, ReadError, StatSame, StatTruncated, StatRotated, Reopen, Poll, bounds
    <3>3. readErrors' = 0 => readErrors = 0
      BY <1>1, <3>2 DEF FileInv, Counters
    <3> QED
      BY <1>1, <1>3, <3>1, <3>3, SourceKeepsSaved
  <2> QED
    BY <2>1, <2>2
<1>6. Epochs'
  <2>1. \/ fdEpoch' \in {0, fdEpoch, saved.epoch}
        \/ \E i \in Inodes : fdEpoch' = epoch[i]
    <3>1. CASE OpenInitial
      <4>1. path \in Inodes /\ fdEpoch' \in {saved.epoch, epoch[path]}
        BY <1>1, <3>1 DEF OpenInitial, FileInv, TypeOK, DiskTypeOK
      <4> QED
        BY <4>1
    <3>2. CASE StatTruncated
      <4>1. fdEpoch' = fdEpoch \/ (fd \in Inodes /\ fdEpoch' = epoch[fd])
        BY <1>1, <3>2 DEF StatTruncated, FileInv, TypeOK, ReaderTypeOK
      <4> QED
        BY <4>1
    <3>3. CASE Reopen
      <4>1. fdEpoch' = fdEpoch \/ (path \in Inodes /\ fdEpoch' = epoch[path])
        BY <1>1, <3>3 DEF Reopen, FileInv, TypeOK, DiskTypeOK
      <4> QED
        BY <4>1
    <3>4. CASE ~OpenInitial /\ ~StatTruncated /\ ~Reopen
      <4>1. fdEpoch' = fdEpoch
        BY <3>4 DEF Source, Fill, LineRead, LineTooLong, DiscardMore, DiscardEnd,
           DrainEnd, ReadError, StatSame, StatRotated, SaveTick, Poll, hist
      <4> QED
        BY <4>1
    <3> QED
      BY <3>1, <3>2, <3>3, <3>4
  <2>2. saved'.epoch \in {saved.epoch, fdEpoch}
    <3>1. CASE SaveTick
      BY <3>1 DEF SaveTick, Save
    <3>2. CASE ~SaveTick
      <4>1. saved' = saved
        BY <3>2 DEF Source, OpenInitial, Fill, LineRead, LineTooLong, DiscardMore, DiscardEnd,
           DrainEnd, ReadError, StatSame, StatTruncated, StatRotated, Reopen, Poll
      <4> QED
        BY <4>1
    <3> QED
      BY <3>1, <3>2
  <2> QED
    BY <1>1, <1>3, <2>1, <2>2, SourceKeepsEpochs
<1> QED
  BY <1>2, <1>4, <1>5, <1>6 DEF SkipInv, RunInv

LEMMA ExitKeepsSkipInv ==
  ASSUME SkipInv, Stop \/ Crash
  PROVE  SkipInv'
<1>1. FileInv /\ Epochs /\ RunInv /\ CoveredSaved
  BY DEF SkipInv, RunInv
<1>2. FileInv' /\ RunInv'
  BY <1>1, FileInvNext, ExitKeepsRunInv DEF Next
<1>3. /\ UNCHANGED <<disk, seen, passed, rotations, truncations, readErrors>>
      /\ fdEpoch' = 0
  BY DEF Stop, Crash, Exit
<1>4. CASE Stop
  <2>1. Save /\ pc \in {"drain", "sleep"} /\ saved'.epoch = fdEpoch
    BY <1>4 DEF Stop, Save
  <2>2. CoveredSaved' /\ Epochs'
    BY <1>1, <1>3, <2>1, SaveKeepsSaved, SourceKeepsEpochs
  <2> QED
    BY <1>2, <2>2 DEF SkipInv, RunInv
<1>5. CASE Crash
  <2>1. saved' = saved
    BY <1>5 DEF Crash
  <2>2. CoveredSaved' /\ Epochs'
    BY <1>1, <1>3, <2>1, SourceKeepsSaved, SourceKeepsEpochs
  <2> QED
    BY <1>2, <2>2 DEF SkipInv, RunInv
<1> QED
  BY <1>4, <1>5

\* A file that is created or emptied gets an epoch nobody knows yet.
LEMMA NewContentKeepsSkipInv ==
  ASSUME SkipInv, FileInv', NEW i \in Inodes, NEW e \in Nat,
         data' = [data EXCEPT ![i] = <<>>], epoch' = [epoch EXCEPT ![i] = e],
         path' = i, e = 1 + rotations' + truncations',
         rotations <= rotations', truncations <= truncations',
         e > fdEpoch, e > saved.epoch, \A j \in Inodes : e > epoch[j],
         UNCHANGED <<saved, proc, hist, readErrors>>
  PROVE  SkipInv'
<1>1. /\ epoch \in [Inodes -> Nat] /\ data \in [Inodes -> Seq(Byte)]
      /\ fdEpoch \in Nat /\ saved.epoch \in Nat /\ i # NoFile
  BY InodeFacts DEF SkipInv, FileInv, TypeOK, DiskTypeOK, ReaderTypeOK, SavedTypeOK, NoFile
<1>2. /\ epoch'[i] = e
      /\ \A j \in Inodes : j # i => epoch'[j] = epoch[j] /\ data'[j] = data[j]
  BY <1>1
<1>3. /\ UNCHANGED <<fd, curIno, offset, discarded, buf, pos, fdEpoch, seen, passed>>
      /\ Counted' = Counted /\ Known' = Known
  BY DEF proc, hist, Counted, Known
<1>4. /\ fd # NoFile => fd \in Inodes
      /\ curIno # 0 => curIno \in Inodes
      /\ saved.inode # 0 => saved.inode \in Inodes
  BY DEF SkipInv, FileInv, TypeOK, ReaderTypeOK, SavedTypeOK
<1>5. /\ \A j \in Inodes : epoch'[j] = fdEpoch => j # i /\ epoch[j] = fdEpoch /\ data'[j] = data[j]
      /\ \A j \in Inodes : epoch'[j] = saved.epoch => j # i /\ epoch[j] = saved.epoch /\ data'[j] = data[j]
  BY <1>1, <1>2
<1>6. MistakenIno'
  <2>1. ASSUME fd # NoFile, curIno # fd PROVE epoch'[curIno] # fdEpoch
    <3>1. CASE curIno # 0
      BY <1>4, <1>5, <2>1, <3>1 DEF SkipInv, MistakenIno
    <3>2. CASE curIno = 0
      <4>1. pc = "down"
        BY <3>2 DEF SkipInv, FileInv, Places
      <4>2. fd = NoFile
        BY <4>1 DEF SkipInv, FileInv, Places
      <4> QED
        BY <2>1, <4>2
    <3> QED
      BY <3>1, <3>2
  <2> QED
    BY <1>3, <2>1 DEF MistakenIno
<1>7. CoveredNow' /\ BufferIsFile' /\ CoveredSaved'
  BY <1>3, <1>4, <1>5 DEF SkipInv, CoveredNow, BufferIsFile, CoveredSaved
<1>8. Epochs'
  <2>1. \A j, k \in Inodes : epoch'[j] = epoch'[k] /\ epoch'[j] > 0 => j = k
    BY <1>1, <1>2 DEF SkipInv, Epochs
  <2>2. \A j \in Inodes : epoch'[j] <= e
    BY <1>1, <1>2
  <2>3. e > 0 /\ fdEpoch' <= e /\ saved'.epoch <= e
    BY <1>1, <1>3
  <2> QED
    BY <1>1, <1>2, <2>1, <2>2, <2>3 DEF Epochs
<1> QED
  BY <1>6, <1>7, <1>8 DEF SkipInv

LEMMA EnvironmentKeepsSkipInv ==
  ASSUME SkipInv, Environment
  PROVE  SkipInv'
<1>1. FileInv /\ FileInv'
  BY EnvironmentKeepsFileInv DEF SkipInv
<1>2. UNCHANGED <<saved, proc, hist>> /\ UNCHANGED readErrors
  BY DEF Environment, WriteLine, WriteRest, Rename, Create, WriterReopen, Truncate, bounds
<1>3. /\ UNCHANGED <<fd, curIno, offset, discarded, buf, pos, fdEpoch, seen, passed>>
      /\ Counted' = Counted /\ Known' = Known
  BY <1>2 DEF proc, hist, Counted, Known
<1>4. /\ fd # NoFile => fd \in Inodes /\ data[fd] \in Seq(Byte)
      /\ curIno # 0 => curIno \in Inodes /\ data[curIno] \in Seq(Byte)
      /\ saved.inode # 0 => saved.inode \in Inodes /\ data[saved.inode] \in Seq(Byte)
      /\ saved.offset \in Nat /\ saved.epoch \in Nat /\ fdEpoch \in Nat
      /\ rotations \in Nat /\ truncations \in Nat
      /\ path # NoFile => path \in Inodes
      /\ \A j \in Inodes : epoch[j] \in Nat
  BY <1>1 DEF FileInv, TypeOK, ReaderTypeOK, SavedTypeOK, DiskTypeOK, Counters
<1>5. CASE WriteLine \/ WriteRest
  <2>1. /\ \A i \in Inodes : data'[i] \in Seq(Byte)
        /\ \A i \in Inodes : Len(data[i]) <= Len(data'[i])
        /\ \A i \in Inodes : \A k \in 1 .. Len(data[i]) : data'[i][k] = data[i][k]
    BY <1>1, <1>5, WriteGrows DEF FileInv
  <2>2. UNCHANGED <<path, epoch, rotations, truncations>>
    BY <1>5 DEF WriteLine, WriteRest, bounds
  <2>3. Epochs' /\ MistakenIno'
    BY <1>2, <1>3, <2>2 DEF SkipInv, Epochs, MistakenIno
  <2>4. ASSUME NEW i \in Inodes, data[i] \in Seq(Byte), NEW n \in Nat, Covered(data[i], Known, n)
        PROVE  Covered(data'[i], Known, n)
    BY <2>1, <2>4, CoveredGrows
  <2>5. Counted \in Nat /\ buf \in Seq(Byte) /\ Taken = Counted + Len(buf)
    BY <1>1, CountedFacts
  <2>6. CoveredNow'
    BY <1>2, <1>3, <1>4, <2>2, <2>4, <2>5 DEF SkipInv, CoveredNow
  <2>7. CoveredSaved'
    BY <1>2, <1>3, <1>4, <2>2, <2>4 DEF SkipInv, CoveredSaved
  <2>8. BufferIsFile'
    <3>1. ASSUME readErrors = 0, fd # NoFile, epoch[fd] = fdEpoch
          PROVE  pos <= Len(data'[fd]) /\ Matches(data'[fd], Counted, buf)
      <4>1. pos <= Len(data[fd]) /\ Matches(data[fd], Counted, buf)
        BY <3>1 DEF SkipInv, BufferIsFile
      <4>2. pos = Counted + Len(buf) /\ pos \in Nat
        BY <1>1, <2>5, <3>1 DEF FileInv, Position, TypeOK, ReaderTypeOK
      <4>3. data'[fd] \in Seq(Byte) /\ Len(data[fd]) <= Len(data'[fd])
            /\ Len(data[fd]) \in Nat /\ Len(data'[fd]) \in Nat
        BY <1>4, <2>1, <3>1
      <4>4. \A k \in 1 .. Len(data[fd]) : data'[fd][k] = data[fd][k]
        BY <1>4, <2>1, <3>1
      <4>5. Matches(data'[fd], Counted, buf)
        BY <1>4, <2>5, <3>1, <4>1, <4>2, <4>3, <4>4, MatchesGrows
      <4> QED
        BY <4>1, <4>2, <4>3, <4>5
    <3> QED
      BY <1>2, <1>3, <2>2, <3>1 DEF BufferIsFile
  <2> QED
    BY <1>1, <2>3, <2>6, <2>7, <2>8 DEF SkipInv
<1>6. CASE Rename \/ WriterReopen
  <2>1. UNCHANGED <<data, epoch>>
    BY <1>6 DEF Rename, WriterReopen
  <2>2. MistakenIno' /\ CoveredNow' /\ BufferIsFile' /\ CoveredSaved'
    BY <1>2, <1>3, <2>1 DEF SkipInv, MistakenIno, CoveredNow, BufferIsFile, CoveredSaved
  <2>3. Epochs'
    <3>1. CASE Rename
      BY <1>2, <1>3, <1>4, <2>1, <3>1 DEF Rename, SkipInv, Epochs, NoFile
    <3>2. CASE WriterReopen
      BY <1>2, <1>3, <1>4, <2>1, <3>2 DEF WriterReopen, SkipInv, Epochs, bounds
    <3> QED
      BY <1>6, <3>1, <3>2
  <2> QED
    BY <1>1, <2>2, <2>3 DEF SkipInv
<1>7. CASE Create
  <2>1. PICK i \in Inodes :
              /\ path' = i
              /\ data' = [data EXCEPT ![i] = <<>>]
              /\ epoch' = [epoch EXCEPT ![i] = 1 + rotations + truncations]
    BY <1>7 DEF Create
  <2>2. rotations' = rotations /\ truncations' = truncations /\ path = NoFile
    BY <1>7 DEF Create, bounds
  <2> DEFINE e == 1 + rotations + truncations
  <2>3. /\ e \in Nat /\ e > fdEpoch /\ e > saved.epoch /\ \A j \in Inodes : e > epoch[j]
        /\ rotations <= rotations' /\ truncations <= truncations'
    BY <1>4, <2>2 DEF SkipInv, Epochs
  <2> HIDE DEF e
  <2>4. e = 1 + rotations' + truncations' /\ epoch' = [epoch EXCEPT ![i] = e]
    BY <2>1, <2>2, Zenon DEF e
  <2> QED
    BY <1>1, <1>2, <2>1, <2>3, <2>4, NewContentKeepsSkipInv
<1>8. CASE Truncate
  <2>1. /\ path \in Inodes /\ path' = path
        /\ data' = [data EXCEPT ![path] = <<>>]
        /\ epoch' = [epoch EXCEPT ![path] = 2 + rotations + truncations]
        /\ rotations' = rotations /\ truncations' = truncations + 1
    BY <1>4, <1>8 DEF Truncate
  <2> DEFINE e == 2 + rotations + truncations
  <2>2. /\ e \in Nat /\ e > fdEpoch /\ e > saved.epoch /\ \A j \in Inodes : e > epoch[j]
        /\ rotations <= rotations' /\ truncations <= truncations'
    BY <1>4, <2>1 DEF SkipInv, Epochs
  <2>3. e = 1 + rotations + (truncations + 1)
    BY <1>4
  <2> HIDE DEF e
  <2>4. e = 1 + rotations' + truncations'
    BY <2>1, <2>3, Zenon
  <2>5. epoch' = [epoch EXCEPT ![path] = e]
    BY <2>1 DEF e
  <2> QED
    BY <1>1, <1>2, <2>1, <2>2, <2>4, <2>5, NewContentKeepsSkipInv
<1> QED
  BY <1>5, <1>6, <1>7, <1>8 DEF Environment

LEMMA SkipInvInit == Init => SkipInv
<1> SUFFICES ASSUME Init PROVE SkipInv
  OBVIOUS
<1>1. FileInv
  BY FileInvInit
<1>2. Epochs
  BY InodeFacts DEF Init, Epochs, NoOffset, NoFile
<1>3. MistakenIno /\ CoveredNow /\ BufferIsFile
  BY DEF Init, MistakenIno, CoveredNow, BufferIsFile, NoFile
<1>4. CoveredSaved
  BY DEF Init, CoveredSaved, NoOffset
<1> QED
  BY <1>1, <1>2, <1>3, <1>4 DEF SkipInv

LEMMA SkipInvNext == SkipInv /\ [Next]_vars => SkipInv'
<1> SUFFICES ASSUME SkipInv, [Next]_vars PROVE SkipInv'
  OBVIOUS
<1>1. CASE UNCHANGED vars
  <2>1. FileInv'
    BY FileInvNext DEF SkipInv
  <2>2. UNCHANGED <<disk, saved, proc, hist, bounds>>
    BY <1>1 DEF vars
  <2>3. Counted' = Counted /\ Known' = Known
    BY <2>2 DEF proc, hist, Counted, Known
  <2> QED
    BY <2>1, <2>2, <2>3 DEF SkipInv, Epochs, MistakenIno, CoveredNow, BufferIsFile, CoveredSaved,
       disk, proc, hist, bounds
<1> QED
  BY <1>1, SourceKeepsSkipInv, EnvironmentKeepsSkipInv, ExitKeepsSkipInv DEF Next

\* No byte before the offset is skipped: each was consumed, by this process or
\* by one that was stopped or killed before, or preceded the very first start.
THEOREM FileNoSkip == Spec => []NoSkip
<1>1. SkipInv => NoSkip
  <2> SUFFICES ASSUME SkipInv, fd # NoFile, fdEpoch = epoch[fd], readErrors = 0,
                      NEW i \in 1 .. offset
               PROVE  data[fd][i] \in seen \cup passed
    BY DEF NoSkip
  <2>1. Covered(data[fd], Known, Counted)
    BY DEF SkipInv, CoveredNow
  <2>2. offset \in Nat /\ discarded \in Nat
    BY DEF SkipInv, FileInv, TypeOK, ReaderTypeOK, BufferTypeOK
  <2>3. i \in 1 .. Counted
    BY <2>2 DEF Counted
  <2> QED
    BY <2>1, <2>3 DEF Covered, Known
<1> QED
  BY <1>1, SkipInvInit, SkipInvNext, PTL DEF Spec

-----------------------------------------------------------------------------
Disjoint(records) ==
    \A i, j \in DOMAIN records :
        i # j => Range(records[i].bytes) \cap Range(records[j].bytes) = {}

LEMMA EmittedFacts ==
  ASSUME FileInv
  PROVE  /\ \A b : b \in Emitted <=> \E n \in 1 .. Len(emitted) : b \in Range(emitted[n].bytes)
         /\ Held \subseteq Byte
         /\ first \in Seq(Byte) /\ buf \in Seq(Byte)
         /\ \A i \in Inodes : data[i] \in Seq(Byte)
<1> DEFINE R == [bytes : Seq(Byte), truncated : BOOLEAN, sure : BOOLEAN]
<1>1. emitted \in Seq(R) /\ first \in Seq(Byte) /\ buf \in Seq(Byte)
  BY DEF FileInv, TypeOK, RecordsTypeOK, BufferTypeOK
<1>2. \A n \in 1 .. Len(emitted) : emitted[n].bytes \in Seq(Byte)
  <2>1. \A r \in R : r.bytes \in Seq(Byte)
    BY Zenon
  <2> HIDE DEF R
  <2>2. \A n \in 1 .. Len(emitted) : emitted[n] \in R
    BY <1>1
  <2> QED
    BY <2>1, <2>2
<1>3. DOMAIN emitted = 1 .. Len(emitted)
  <2> HIDE DEF R
  <2> QED
    BY <1>1
<1> HIDE DEF R
<1>4. \A b : b \in Emitted <=> \E n \in 1 .. Len(emitted) : b \in Range(emitted[n].bytes)
  BY <1>3, Zenon DEF Emitted
<1>5. Emitted \subseteq Byte
  BY <1>2, <1>4, RangeShape
<1>6. Range(first) \subseteq Byte /\ Range(buf) \subseteq Byte
  BY <1>1, RangeShape
<1>7. \A i \in Inodes : data[i] \in Seq(Byte)
  BY DEF FileInv, TypeOK, DiskTypeOK
<1> QED
  BY <1>1, <1>4, <1>5, <1>6, <1>7 DEF Held

\* emit adds one record, or none when the parser refuses the line.
LEMMA ConsumeEmits ==
  ASSUME FileInv, FileInv', NEW bytes \in Seq(Byte), NEW t \in BOOLEAN,
         ConsumeLine(bytes, t)
  PROVE  /\ Emitted' \subseteq Emitted \cup Range(bytes)
         /\ Disjoint(emitted) /\ Range(bytes) \cap Emitted = {} => Disjoint(emitted')
<1> DEFINE R == [bytes : Seq(Byte), truncated : BOOLEAN, sure : BOOLEAN]
           r == [bytes |-> bytes, truncated |-> t,
                 sure |-> readErrors = 0 /\ fdEpoch = epoch[fd]]
<1>1. emitted' = emitted \/ emitted' = Append(emitted, r)
  BY DEF ConsumeLine
<1>2. r.bytes = bytes
  OBVIOUS
<1>3. emitted \in Seq(R)
  BY DEF FileInv, TypeOK, RecordsTypeOK
<1>4. /\ \A b : b \in Emitted <=> \E n \in 1 .. Len(emitted) : b \in Range(emitted[n].bytes)
      /\ \A b : b \in Emitted' <=> \E n \in 1 .. Len(emitted') : b \in Range(emitted'[n].bytes)
  <2>1. \A b : b \in Emitted' <=> \E n \in 1 .. Len(emitted') : b \in Range(emitted'[n].bytes)
    <3>1. DOMAIN emitted' = 1 .. Len(emitted')
      <4>1. emitted' \in Seq(R)
        BY DEF FileInv, TypeOK, RecordsTypeOK
      <4> HIDE DEF R
      <4> QED
        BY <4>1
    <3> QED
      BY <3>1, Zenon DEF Emitted
  <2> QED
    BY <2>1, EmittedFacts
<1> HIDE DEF R, r
<1>5. CASE emitted' = emitted
  BY <1>4, <1>5
<1>6. CASE emitted' = Append(emitted, r)
  <2>1. /\ Len(emitted) \in Nat /\ Len(emitted') = Len(emitted) + 1
        /\ DOMAIN emitted' = 1 .. Len(emitted) + 1 /\ DOMAIN emitted = 1 .. Len(emitted)
    BY <1>3, <1>6
  <2>2. /\ \A n \in 1 .. Len(emitted) : emitted'[n] = emitted[n]
        /\ emitted'[Len(emitted) + 1] = r
    BY <1>3, <1>6
  <2>3. ASSUME NEW b \in Emitted' PROVE b \in Emitted \cup Range(bytes)
    <3>1. PICK n \in 1 .. Len(emitted) + 1 : b \in Range(emitted'[n].bytes)
      BY <1>4, <2>1, <2>3
    <3>2. CASE n \in 1 .. Len(emitted)
      BY <1>4, <2>2, <3>1, <3>2
    <3>3. CASE n = Len(emitted) + 1
      BY <1>2, <2>2, <3>1, <3>3
    <3> QED
      BY <2>1, <3>2, <3>3
  <2>4. ASSUME Disjoint(emitted), Range(bytes) \cap Emitted = {},
               NEW i \in DOMAIN emitted', NEW j \in DOMAIN emitted', i # j
        PROVE  Range(emitted'[i].bytes) \cap Range(emitted'[j].bytes) = {}
    <3>1. CASE i \in 1 .. Len(emitted) /\ j \in 1 .. Len(emitted)
      BY <2>1, <2>2, <2>4, <3>1 DEF Disjoint
    <3>2. CASE i \in 1 .. Len(emitted) /\ j = Len(emitted) + 1
      <4>1. Range(emitted'[i].bytes) \subseteq Emitted
        BY <1>4, <2>2, <3>2
      <4> QED
        BY <1>2, <2>2, <2>4, <3>2, <4>1
    <3>3. CASE j \in 1 .. Len(emitted) /\ i = Len(emitted) + 1
      <4>1. Range(emitted'[j].bytes) \subseteq Emitted
        BY <1>4, <2>2, <3>3
      <4> QED
        BY <1>2, <2>2, <2>4, <3>3, <4>1
    <3> QED
      BY <2>1, <2>4, <3>1, <3>2, <3>3
  <2> QED
    BY <2>3, <2>4 DEF Disjoint
<1> QED
  BY <1>1, <1>5, <1>6

\* A step of the source that reads nothing new keeps what is ahead of it new.
LEMMA HeldShrinks ==
  ASSUME RepeatInv, Held' \subseteq Held, UNCHANGED disk
  PROVE  Fresh'
<1>1. \A b : Old(b)' <=> Old(b)
  BY DEF Old, disk
<1>2. data' = data
  BY DEF disk
<1> QED
  BY <1>1, <1>2 DEF RepeatInv, Fresh

LEMMA AheadStays ==
  ASSUME RepeatInv, Held' \subseteq Held, UNCHANGED <<disk, fd, curIno, pos, raced>>,
         pc # "down"
  PROVE  Ahead'
<1>1. data' = data /\ path' = path
  BY DEF disk
<1>2. ASSUME ~raced
      PROVE  /\ fd = curIno
             /\ \A k \in 1 .. Len(data[fd]) :
                    k > pos \/ pos > Len(data[fd]) => data[fd][k] \notin Held'
             /\ path \notin {NoFile, fd} =>
                    \A k \in 1 .. Len(data[path]) : data[path][k] \notin Held'
  BY <1>2 DEF RepeatInv, Ahead
<1> QED
  BY <1>1, <1>2 DEF Ahead

LEMMA LineReadKeepsRepeatInv ==
  ASSUME RepeatInv, LineRead
  PROVE  RepeatInv'
<1>1. FileInv /\ FileInv'
  BY LineReadKeepsFileInv DEF RepeatInv
<1>2. /\ first \in Seq(Byte) /\ buf \in Seq(Byte) /\ first = <<>>
      /\ Slice \in Seq(Byte) /\ Rest \in Seq(Byte)
      /\ Len(Slice) <= Len(buf) /\ Len(Rest) = Len(buf) - Len(Slice)
      /\ \A k \in 1 .. Len(Slice) : Slice[k] = buf[k]
      /\ \A k \in 1 .. Len(Rest) : Rest[k] = buf[Len(Slice) + k]
  BY <1>1, EmittedFacts, SliceShape DEF LineRead, FileInv, Places
<1>3. /\ pc = "drain" /\ pc' = "drain" /\ buf' = Rest /\ first' = first
      /\ UNCHANGED <<disk, fd, curIno, pos, raced>> /\ ConsumeLine(Slice, FALSE)
  BY DEF LineRead
<1>4. /\ Emitted' \subseteq Emitted \cup Range(Slice)
      /\ Disjoint(emitted) /\ Range(Slice) \cap Emitted = {} => Disjoint(emitted')
  BY <1>1, <1>2, <1>3, ConsumeEmits
<1>5. Len(Slice) \in Nat /\ Len(Rest) \in Nat /\ Len(buf) \in Nat
  BY <1>2
<1>6. Range(Slice) \subseteq Range(buf) /\ Range(Rest) \subseteq Range(buf)
  <2>1. ASSUME NEW b \in Range(Slice) PROVE b \in Range(buf)
    <3>1. PICK k \in 1 .. Len(Slice) : b = Slice[k]
      BY <1>2, <2>1, RangeShape
    <3>2. k \in 1 .. Len(buf) /\ b = buf[k]
      BY <1>2, <1>5, <3>1
    <3> QED
      BY <1>2, <3>2, RangeShape
  <2>2. ASSUME NEW b \in Range(Rest) PROVE b \in Range(buf)
    <3>1. PICK k \in 1 .. Len(Rest) : b = Rest[k]
      BY <1>2, <2>2, RangeShape
    <3>2. Len(Slice) + k \in 1 .. Len(buf) /\ b = buf[Len(Slice) + k]
      BY <1>2, <1>5, <3>1
    <3> QED
      BY <1>2, <3>2, RangeShape
  <2> QED
    BY <2>1, <2>2
<1>7. Held' \subseteq Held
  BY <1>3, <1>4, <1>6 DEF Held
<1>8. Fresh' /\ Ahead'
  BY <1>3, <1>7, HeldShrinks, AheadStays
<1>9. ASSUME ~raced PROVE HeldOnce' /\ Disjoint(emitted')
  <2>1. HeldOnce /\ Disjoint(emitted)
    BY <1>9 DEF RepeatInv, NoRepeat, Disjoint
  <2>2. \A k, m \in 1 .. Len(Rest) : Rest[k] = Rest[m] => k = m
    <3> SUFFICES ASSUME NEW k \in 1 .. Len(Rest), NEW m \in 1 .. Len(Rest), Rest[k] = Rest[m]
                 PROVE  k = m
      OBVIOUS
    <3>1. Len(Slice) + k \in 1 .. Len(buf) /\ Len(Slice) + m \in 1 .. Len(buf)
      BY <1>2, <1>5
    <3>2. buf[Len(Slice) + k] = buf[Len(Slice) + m]
      BY <1>2
    <3>3. Len(Slice) + k = Len(Slice) + m
      BY <2>1, <3>1, <3>2 DEF HeldOnce
    <3> QED
      BY <1>5, <3>3
  <2>3. ASSUME NEW k \in 1 .. Len(Rest) PROVE Rest[k] \notin Emitted'
    <3>1. Len(Slice) + k \in 1 .. Len(buf) /\ Rest[k] = buf[Len(Slice) + k]
      BY <1>2, <1>5
    <3>2. Rest[k] \notin Emitted
      BY <2>1, <3>1 DEF HeldOnce
    <3>3. ASSUME Rest[k] \in Range(Slice) PROVE FALSE
      <4>1. PICK m \in 1 .. Len(Slice) : Rest[k] = Slice[m]
        BY <1>2, <3>3, RangeShape
      <4>2. m \in 1 .. Len(buf) /\ buf[m] = buf[Len(Slice) + k]
        BY <1>2, <1>5, <3>1, <4>1
      <4>3. m = Len(Slice) + k
        BY <2>1, <3>1, <4>2 DEF HeldOnce
      <4> QED
        BY <1>5, <4>3
    <3> QED
      BY <1>4, <3>2, <3>3
  <2>4. Range(Slice) \cap Emitted = {}
    <3>1. ASSUME NEW b \in Range(Slice) PROVE b \notin Emitted
      <4>1. PICK k \in 1 .. Len(buf) : b = buf[k]
        BY <1>2, <1>6, <3>1, RangeShape
      <4> QED
        BY <2>1, <4>1 DEF HeldOnce
    <3> QED
      BY <3>1
  <2>5. Range(first) = {} /\ Len(first) = 0
    BY <1>2 DEF Range
  <2> QED
    BY <1>3, <1>4, <2>1, <2>2, <2>3, <2>4, <2>5 DEF HeldOnce
<1> QED
  BY <1>1, <1>3, <1>8, <1>9 DEF RepeatInv, NoRepeat, Disjoint

LEMMA DiscardEndKeepsRepeatInv ==
  ASSUME RepeatInv, DiscardEnd
  PROVE  RepeatInv'
<1>1. FileInv /\ FileInv'
  BY DiscardEndKeepsFileInv DEF RepeatInv
<1>2. /\ first \in Seq(Byte) /\ buf \in Seq(Byte)
      /\ Slice \in Seq(Byte) /\ Rest \in Seq(Byte)
      /\ Len(Slice) <= Len(buf) /\ Len(Rest) = Len(buf) - Len(Slice)
      /\ \A k \in 1 .. Len(Rest) : Rest[k] = buf[Len(Slice) + k]
  BY <1>1, EmittedFacts, SliceShape
<1>3. /\ pc = "discard" /\ pc' = "drain" /\ buf' = Rest /\ first' = <<>>
      /\ UNCHANGED <<disk, fd, curIno, pos, raced>> /\ ConsumeLine(first, TRUE)
  BY DEF DiscardEnd
<1>4. /\ Emitted' \subseteq Emitted \cup Range(first)
      /\ Disjoint(emitted) /\ Range(first) \cap Emitted = {} => Disjoint(emitted')
  BY <1>1, <1>2, <1>3, ConsumeEmits
<1>5. Len(Slice) \in Nat /\ Len(Rest) \in Nat /\ Len(buf) \in Nat
  BY <1>2
<1>6. ASSUME NEW k \in 1 .. Len(Rest)
      PROVE  Len(Slice) + k \in 1 .. Len(buf) /\ Rest[k] = buf[Len(Slice) + k]
  BY <1>2, <1>5
<1>7. Range(Rest) \subseteq Range(buf) /\ Range(first') = {} /\ Len(first') = 0
  <2>1. ASSUME NEW b \in Range(Rest) PROVE b \in Range(buf)
    <3>1. PICK k \in 1 .. Len(Rest) : b = Rest[k]
      BY <1>2, <2>1, RangeShape
    <3> QED
      BY <1>2, <1>6, <3>1, RangeShape
  <2>2. Range(first') = {} /\ Len(first') = 0
    BY <1>3 DEF Range
  <2> QED
    BY <2>1, <2>2
<1>8. Held' \subseteq Held
  BY <1>3, <1>4, <1>7 DEF Held
<1>9. Fresh' /\ Ahead'
  BY <1>3, <1>8, HeldShrinks, AheadStays
<1>10. ASSUME ~raced PROVE HeldOnce' /\ Disjoint(emitted')
  <2>1. HeldOnce /\ Disjoint(emitted)
    BY <1>10 DEF RepeatInv, NoRepeat, Disjoint
  <2>2. \A k, m \in 1 .. Len(Rest) : Rest[k] = Rest[m] => k = m
    <3> SUFFICES ASSUME NEW k \in 1 .. Len(Rest), NEW m \in 1 .. Len(Rest), Rest[k] = Rest[m]
                 PROVE  k = m
      OBVIOUS
    <3>1. Len(Slice) + k = Len(Slice) + m
      BY <1>6, <2>1 DEF HeldOnce
    <3> QED
      BY <1>5, <3>1
  <2>3. ASSUME NEW k \in 1 .. Len(Rest) PROVE Rest[k] \notin Emitted'
    BY <1>4, <1>6, <2>1 DEF HeldOnce
  <2>4. Range(first) \cap Emitted = {}
    BY <1>2, <2>1, RangeShape DEF HeldOnce
  <2> QED
    BY <1>3, <1>4, <1>7, <2>1, <2>2, <2>3, <2>4 DEF HeldOnce
<1> QED
  BY <1>1, <1>3, <1>9, <1>10 DEF RepeatInv, NoRepeat, Disjoint

\* The buffer moves to first, or is dropped.
LEMMA DropKeepsRepeatInv ==
  ASSUME RepeatInv, LineTooLong \/ DiscardMore \/ ReadError
  PROVE  RepeatInv'
<1>1. FileInv /\ FileInv'
  BY LineTooLongKeepsFileInv, DiscardMoreKeepsFileInv, ReadErrorKeepsFileInv DEF RepeatInv
<1>2. first \in Seq(Byte) /\ buf \in Seq(Byte)
  BY <1>1, EmittedFacts
<1>3. /\ pc \in {"drain", "discard"} /\ pc' \in {"discard", "stat"} /\ buf' = <<>>
      /\ first' \in {first, buf, <<>>}
      /\ UNCHANGED <<disk, fd, curIno, pos, raced, emitted>>
  BY DEF LineTooLong, DiscardMore, ReadError, Reading, hist
<1>4. Emitted' = Emitted /\ Range(<<>>) = {} /\ Len(<<>>) = 0
  BY <1>3 DEF Emitted, Range
<1>5. Held' \subseteq Held
  BY <1>3, <1>4 DEF Held
<1>6. Fresh' /\ Ahead'
  BY <1>3, <1>5, HeldShrinks, AheadStays
<1>7. ASSUME ~raced PROVE HeldOnce'
  <2>1. HeldOnce
    BY <1>7 DEF RepeatInv
  <2>2. \A k \in 1 .. Len(first') : first'[k] \notin Emitted
    <3>1. CASE first' = first
      BY <2>1, <3>1 DEF HeldOnce
    <3>2. CASE first' = buf
      BY <2>1, <3>2 DEF HeldOnce
    <3>3. CASE first' = <<>>
      BY <1>4, <3>3
    <3> QED
      BY <1>3, <3>1, <3>2, <3>3
  <2> QED
    BY <1>3, <1>4, <2>2 DEF HeldOnce
<1> QED
  BY <1>1, <1>3, <1>6, <1>7 DEF RepeatInv, NoRepeat

\* One read(2): the bytes behind the descriptor are new.
LEMMA FillKeepsRepeatInv ==
  ASSUME RepeatInv, Fill
  PROVE  RepeatInv'
<1>1. FileInv /\ FileInv'
  BY FillKeepsFileInv DEF RepeatInv
<1>2. /\ first \in Seq(Byte) /\ buf \in Seq(Byte) /\ \A i \in Inodes : data[i] \in Seq(Byte)
  BY <1>1, EmittedFacts
<1>3. /\ buf' = buf \o Got /\ pos' = pos + Len(Got) /\ pc' = pc /\ pc \in {"drain", "discard"}
      /\ UNCHANGED <<disk, fd, curIno, first, emitted, raced>>
  BY DEF Fill, Got, Reading, hist
<1>4. /\ fd \in Inodes /\ Got \in Seq(Byte) /\ pos + Len(Got) <= Len(data[fd])
      /\ \A k \in 1 .. Len(Got) : Got[k] = data[fd][pos + k]
  BY <1>1, GotShape DEF FileInv, Fill
<1>5. /\ Len(Got) \in Nat /\ Len(buf) \in Nat /\ pos \in Nat /\ Len(data[fd]) \in Nat
      /\ data' = data /\ path' = path
  BY <1>1, <1>2, <1>3, <1>4 DEF FileInv, TypeOK, ReaderTypeOK, disk
<1>6. ASSUME NEW k \in 1 .. Len(Got)
      PROVE  pos + k \in 1 .. Len(data[fd]) /\ Got[k] = data[fd][pos + k]
  BY <1>4, <1>5
<1>7. /\ Len(buf') = Len(buf) + Len(Got)
      /\ \A k \in 1 .. Len(buf) : buf'[k] = buf[k]
      /\ \A k \in Len(buf) + 1 .. Len(buf) + Len(Got) : buf'[k] = Got[k - Len(buf)]
  BY <1>2, <1>3, <1>4
<1>8. ASSUME NEW k \in 1 .. Len(buf')
      PROVE  \/ k \in 1 .. Len(buf) /\ buf'[k] = buf[k]
             \/ k - Len(buf) \in 1 .. Len(Got) /\ buf'[k] = Got[k - Len(buf)]
  BY <1>5, <1>7
<1>9. Emitted' = Emitted /\ buf' \in Seq(Byte)
  BY <1>2, <1>3, <1>4 DEF Emitted
<1>10. ASSUME NEW b \in Held' PROVE b \in Held \/ \E k \in 1 .. Len(Got) : b = Got[k]
  <2>1. CASE b \in Range(buf')
    <3>1. PICK k \in 1 .. Len(buf') : b = buf'[k]
      BY <1>9, <2>1, RangeShape
    <3>2. CASE k \in 1 .. Len(buf) /\ buf'[k] = buf[k]
      BY <1>2, <3>1, <3>2, RangeShape DEF Held
    <3>3. CASE k - Len(buf) \in 1 .. Len(Got) /\ buf'[k] = Got[k - Len(buf)]
      BY <3>1, <3>3
    <3> QED
      BY <1>8, <3>2, <3>3
  <2>2. CASE b \notin Range(buf')
    BY <1>3, <1>9, <1>10, <2>2 DEF Held
  <2> QED
    BY <2>1, <2>2
<1>11. Fresh'
  <2>1. \A b : Old(b)' <=> Old(b)
    BY <1>3 DEF Old, disk
  <2>2. ASSUME NEW b \in Held' PROVE Old(b)
    <3>1. CASE b \in Held
      BY <3>1 DEF RepeatInv, Fresh
    <3>2. CASE \E k \in 1 .. Len(Got) : b = Got[k]
      BY <1>4, <1>6, <3>2 DEF RepeatInv, Fresh
    <3> QED
      BY <1>10, <2>2, <3>1, <3>2
  <2> QED
    BY <1>5, <2>1, <2>2 DEF RepeatInv, Fresh
<1>12. ASSUME ~raced
       PROVE  \A k \in 1 .. Len(Got) : Got[k] \notin Held
  <2>1. \A k \in 1 .. Len(data[fd]) : k > pos => data[fd][k] \notin Held
    BY <1>3, <1>12 DEF RepeatInv, Ahead
  <2>2. ASSUME NEW k \in 1 .. Len(Got) PROVE Got[k] \notin Held
    <3>1. pos + k \in 1 .. Len(data[fd]) /\ Got[k] = data[fd][pos + k] /\ pos + k > pos
      BY <1>5, <1>6
    <3> QED
      BY <2>1, <3>1
  <2> QED
    BY <2>2
<1>13. Ahead'
  <2>1. ASSUME ~raced
        PROVE  /\ fd = curIno
               /\ \A k \in 1 .. Len(data[fd]) : k > pos' => data[fd][k] \notin Held'
               /\ path \notin {NoFile, fd} =>
                      \A k \in 1 .. Len(data[path]) : data[path][k] \notin Held'
    <3>1. fd = curIno
      BY <1>3, <2>1 DEF RepeatInv, Ahead
    <3>2. ASSUME NEW k \in 1 .. Len(data[fd]), k > pos' PROVE data[fd][k] \notin Held'
      <4>1. data[fd][k] \notin Held
        BY <1>3, <1>5, <2>1, <3>2 DEF RepeatInv, Ahead
      <4>2. ASSUME NEW m \in 1 .. Len(Got), data[fd][k] = Got[m] PROVE FALSE
        <5>1. k = pos + m
          BY <1>4, <1>6, <4>2 DEF RepeatInv, Fresh
        <5> QED
          BY <1>3, <1>5, <3>2, <5>1
      <4> QED
        BY <1>10, <4>1, <4>2
    <3>3. ASSUME path \notin {NoFile, fd}, NEW k \in 1 .. Len(data[path])
          PROVE  data[path][k] \notin Held'
      <4>0. path \in Inodes
        BY <1>1, <3>3 DEF FileInv, TypeOK, DiskTypeOK
      <4>1. data[path][k] \notin Held
        BY <1>3, <2>1, <3>3 DEF RepeatInv, Ahead
      <4>2. ASSUME NEW m \in 1 .. Len(Got), data[path][k] = Got[m] PROVE FALSE
        BY <1>4, <1>6, <3>3, <4>0, <4>2 DEF RepeatInv, Fresh
      <4> QED
        BY <1>10, <4>1, <4>2
    <3> QED
      BY <3>1, <3>2, <3>3
  <2>2. pos' <= Len(data[fd]) /\ pos' \in Nat
    BY <1>3, <1>4, <1>5
  <2> QED
    BY <1>3, <1>5, <2>1, <2>2 DEF Ahead
<1>14. ASSUME ~raced PROVE HeldOnce'
  <2>1. HeldOnce
    BY <1>14 DEF RepeatInv
  <2>2. ASSUME NEW k \in 1 .. Len(buf'), NEW m \in 1 .. Len(buf'), buf'[k] = buf'[m]
        PROVE  k = m
    <3>1. CASE k \in 1 .. Len(buf) /\ m \in 1 .. Len(buf)
      BY <1>7, <2>1, <2>2, <3>1 DEF HeldOnce
    <3>2. CASE k \in 1 .. Len(buf) /\ m - Len(buf) \in 1 .. Len(Got)
      <4>1. buf'[k] \in Held /\ buf'[m] \notin Held
        BY <1>2, <1>5, <1>7, <1>8, <1>12, <1>14, <3>2, RangeShape DEF Held
      <4> QED
        BY <2>2, <4>1
    <3>3. CASE m \in 1 .. Len(buf) /\ k - Len(buf) \in 1 .. Len(Got)
      <4>1. buf'[m] \in Held /\ buf'[k] \notin Held
        BY <1>2, <1>5, <1>7, <1>8, <1>12, <1>14, <3>3, RangeShape DEF Held
      <4> QED
        BY <2>2, <4>1
    <3>4. CASE k - Len(buf) \in 1 .. Len(Got) /\ m - Len(buf) \in 1 .. Len(Got)
      <4> DEFINE u == k - Len(buf)  v == m - Len(buf)
      <4>0. /\ k \in Len(buf) + 1 .. Len(buf) + Len(Got) /\ m \in Len(buf) + 1 .. Len(buf) + Len(Got)
            /\ u \in 1 .. Len(Got) /\ v \in 1 .. Len(Got)
        BY <1>5, <3>4
      <4>1. buf'[k] = Got[u] /\ buf'[m] = Got[v]
        BY <1>7, <4>0
      <4>a. u = v => k = m
        BY <1>5
      <4> HIDE DEF u, v
      <4>b. /\ pos + u \in 1 .. Len(data[fd]) /\ Got[u] = data[fd][pos + u]
            /\ pos + v \in 1 .. Len(data[fd]) /\ Got[v] = data[fd][pos + v]
        BY <1>6, <4>0
      <4>c. \A x, y \in 1 .. Len(data[fd]) : data[fd][x] = data[fd][y] => x = y
        BY <1>4 DEF RepeatInv, Fresh
      <4>d. data[fd][pos + u] = data[fd][pos + v]
        BY <2>2, <4>1, <4>b
      <4>2. pos + u = pos + v
        BY <4>b, <4>c, <4>d, Zenon
      <4>3. u = v
        BY <1>5, <4>0, <4>2
      <4> QED
        BY <4>3, <4>a
    <3> QED
      BY <1>8, <3>1, <3>2, <3>3, <3>4
  <2>3. ASSUME NEW k \in 1 .. Len(buf') PROVE buf'[k] \notin Emitted \cup Range(first)
    <3>1. CASE k \in 1 .. Len(buf) /\ buf'[k] = buf[k]
      BY <2>1, <3>1 DEF HeldOnce
    <3>2. CASE k - Len(buf) \in 1 .. Len(Got) /\ buf'[k] = Got[k - Len(buf)]
      BY <1>12, <1>14, <3>2 DEF Held
    <3> QED
      BY <1>8, <3>1, <3>2
  <2> QED
    BY <1>3, <1>9, <2>1, <2>2, <2>3 DEF HeldOnce
<1> QED
  BY <1>1, <1>3, <1>11, <1>13, <1>14 DEF RepeatInv, NoRepeat

\* openInitial starts with nothing in hand; a process that is gone has nothing.
LEMMA StartKeepsRepeatInv ==
  ASSUME RepeatInv, OpenInitial \/ Stop \/ Crash
  PROVE  RepeatInv'
<1>1. FileInv /\ FileInv'
  BY OpenInitialKeepsFileInv, ExitKeepsFileInv DEF RepeatInv
<1>2. emitted' = <<>> /\ first' = <<>> /\ buf' = <<>> /\ raced' = FALSE
  BY <1>1 DEF OpenInitial, Stop, Crash, Exit, FileInv, Places
<1>3. UNCHANGED disk /\ pc' \in {"drain", "down"} /\ (pc' = "drain" => fd' = path /\ curIno' = path)
  BY DEF OpenInitial, Stop, Crash, Exit
<1>4. Range(<<>>) = {} /\ Len(<<>>) = 0 /\ DOMAIN <<>> = {}
  BY DEF Range
<1>5. Emitted' = {}
  BY <1>2, <1>4 DEF Emitted
<1>6. Held' = {}
  BY <1>2, <1>4, <1>5 DEF Held
<1>7. Fresh'
  BY <1>3, <1>6, HeldShrinks
<1>8. Ahead'
  BY <1>3, <1>6 DEF Ahead, disk
<1>9. HeldOnce'
  BY <1>2, <1>4 DEF HeldOnce
<1>10. NoRepeat'
  BY <1>2, <1>4 DEF NoRepeat
<1> QED
  BY <1>1, <1>3, <1>7, <1>8, <1>9, <1>10 DEF RepeatInv

\* Between two drains the buffer is empty and nothing is emitted.
LEMMA RotationKeepsRepeatInv ==
  ASSUME RepeatInv,
         DrainEnd \/ StatSame \/ StatTruncated \/ StatRotated \/ Reopen \/ SaveTick \/ Poll
  PROVE  RepeatInv'
<1>1. FileInv /\ FileInv'
  BY BetweenDrainsKeepsFileInv, ReopenKeepsFileInv DEF RepeatInv
<1>2. buf = <<>> /\ buf' = <<>> /\ pc \in {"drain", "stat", "reopen", "sleep"}
  BY <1>1 DEF DrainEnd, StatSame, StatTruncated, StatRotated, Reopen, SaveTick, Poll, FileInv, Places
<1>3. UNCHANGED <<disk, first, emitted>>
  BY DEF DrainEnd, StatSame, StatTruncated, StatRotated, Reopen, SaveTick, Poll
<1>4. Emitted' = Emitted /\ Held' = Held /\ buf' = buf
  BY <1>2, <1>3 DEF Emitted, Held
<1>5. Fresh' /\ HeldOnce' = HeldOnce
  BY <1>2, <1>3, <1>4, HeldShrinks DEF HeldOnce
<1>6. (raced' = FALSE) => ~raced
  BY DEF DrainEnd, StatSame, StatTruncated, StatRotated, Reopen, SaveTick, Poll, hist
<1>7. raced' \in BOOLEAN /\ raced \in BOOLEAN
  BY <1>1 DEF FileInv, TypeOK, RecordsTypeOK
<1>8. ~raced' => ~raced
  BY <1>6, <1>7, Zenon
<1>9. (~raced' => HeldOnce') /\ NoRepeat'
  BY <1>3, <1>5, <1>8 DEF RepeatInv, NoRepeat
<1>10. pc' = "reopen" => statIno' # curIno'
  BY <1>2 DEF DrainEnd, StatSame, StatTruncated, StatRotated, Reopen, SaveTick, Poll
<1>11. Ahead'
  <2>1. CASE DrainEnd \/ StatSame \/ StatRotated \/ SaveTick \/ Poll
    <3>1. UNCHANGED <<disk, fd, curIno, pos, raced>>
      BY <2>1 DEF DrainEnd, StatSame, StatRotated, SaveTick, Poll, hist
    <3> QED
      BY <1>2, <1>4, <3>1, AheadStays
  <2>2. CASE StatTruncated /\ fd = NoFile
    <3>1. UNCHANGED <<disk, fd, curIno, pos, raced>>
      BY <2>2 DEF StatTruncated
    <3> QED
      BY <1>2, <1>4, <3>1, AheadStays
  <2>3. CASE StatTruncated /\ fd # NoFile
    <3>1. /\ UNCHANGED <<disk, fd, curIno, raced>> /\ pos' = 0 /\ path = curIno
          /\ Len(data[path]) < offset
      BY <2>3 DEF StatTruncated
    <3>2. ASSUME ~raced
          PROVE  fd = curIno /\ \A k \in 1 .. Len(data[fd]) : data[fd][k] \notin Held
      <4>1. /\ fd = curIno
            /\ \A k \in 1 .. Len(data[fd]) : pos > Len(data[fd]) => data[fd][k] \notin Held
        BY <1>2, <3>2 DEF RepeatInv, Ahead
      <4>2. Taken <= pos /\ Taken = Counted + Len(buf)
        BY <1>1, <2>3, CountedFacts DEF FileInv, Position
      <4>3. offset <= pos /\ offset \in Nat /\ pos \in Nat
        <5>1. offset \in Nat /\ discarded \in Nat /\ pos \in Nat /\ Len(buf) \in Nat
          BY <1>1, CountedFacts DEF FileInv, TypeOK, ReaderTypeOK, BufferTypeOK
        <5> QED
          BY <4>2, <5>1 DEF Counted
      <4>4. Len(data[fd]) \in Nat
        BY <1>1, <2>3, CountedFacts
      <4>5. pos > Len(data[fd])
        BY <3>1, <4>1, <4>3, <4>4
      <4> QED
        BY <4>1, <4>5
    <3> QED
      BY <1>4, <3>1, <3>2 DEF Ahead, disk
  <2>4. CASE Reopen
    <3>1. UNCHANGED disk /\ fd' = path /\ pc = "reopen"
      BY <2>4 DEF Reopen
    <3>2. ASSUME ~raced'
          PROVE  /\ path # NoFile /\ curIno' = path
                 /\ \A k \in 1 .. Len(data[path]) : data[path][k] \notin Held
      <4>1. path = statIno
        BY <2>4, <3>2, Zenon DEF Reopen
      <4>2. statIno # 0 /\ statIno # curIno
        BY <1>1, <3>1 DEF FileInv, Places, RepeatInv
      <4>3. path # NoFile /\ curIno' = path
        BY <2>4, <4>1, <4>2 DEF Reopen, NoFile
      <4>4. fd = curIno
        BY <1>8, <3>1, <3>2 DEF RepeatInv, Ahead
      <4>5. path \notin {NoFile, fd}
        BY <4>1, <4>2, <4>3, <4>4
      <4> QED
        BY <1>8, <3>1, <3>2, <4>3, <4>5 DEF RepeatInv, Ahead
    <3> QED
      BY <1>4, <3>1, <3>2 DEF Ahead, disk
  <2> QED
    BY <2>1, <2>2, <2>3, <2>4
<1> QED
  BY <1>1, <1>5, <1>9, <1>10, <1>11 DEF RepeatInv

\* The writer never writes a byte that is in a file or in the source's hands.
LEMMA WriteIsNew ==
  ASSUME RepeatInv, NEW new, Appends(new)
  PROVE  \A b \in Byte : Old(b) => \A k \in 1 .. Len(new) : b # new[k]
<1> SUFFICES ASSUME NEW b \in Byte, Old(b), NEW k \in 1 .. Len(new), b = new[k]
             PROVE  FALSE
  OBVIOUS
<1>1. b.line \in Nat /\ b.at \in Nat /\ line \in Nat
  BY DEF Byte, RepeatInv, FileInv, TypeOK, DiskTypeOK
<1>2. b.line = line' /\ b.line <= line
  BY DEF Appends, Old
<1>3. CASE line' = line + 1
  BY <1>1, <1>2, <1>3
<1>4. CASE line' = line /\ left > 0 /\ \A m \in 1 .. Len(new) : new[m].at > data[wfd][Len(data[wfd])].at
  <2> DEFINE last == data[wfd][Len(data[wfd])]
  <2>1. b.at <= last.at /\ b.at > last.at
    BY <1>2, <1>4 DEF Old
  <2>2. last.at \in Nat
    <3>1. data[wfd] \in Seq(Byte) /\ data[wfd] # <<>>
      BY <1>4 DEF RepeatInv, FileInv, TypeOK, DiskTypeOK, WriterMidLine
    <3>2. last \in Byte
      BY <3>1
    <3> QED
      BY <3>2 DEF Byte
  <2> HIDE DEF last
  <2> QED
    BY <1>1, <2>1, <2>2
<1> QED
  BY <1>3, <1>4 DEF Appends

LEMMA WriteKeepsFresh ==
  ASSUME RepeatInv, FileInv', NEW new, Appends(new), UNCHANGED <<path, wfd, proc, hist>>
  PROVE  Fresh' /\ Ahead'
<1>1. /\ wfd \in Inodes /\ data \in [Inodes -> Seq(Byte)] /\ line \in Nat /\ left \in Nat
      /\ new \in Seq(Byte) /\ new # <<>> /\ data' = [data EXCEPT ![wfd] = @ \o new]
  BY DEF RepeatInv, FileInv, TypeOK, DiskTypeOK, Appends
<1>2. Held' = Held /\ Held \subseteq Byte
  <2>1. Held' = Held
    BY DEF Held, Emitted, proc
  <2> QED
    BY <2>1, EmittedFacts DEF RepeatInv
<1>3. ASSUME NEW i \in Inodes, NEW k \in 1 .. Len(data'[i])
      PROVE  \/ k \in 1 .. Len(data[i]) /\ data'[i][k] = data[i][k]
             \/ /\ i = wfd /\ k - Len(data[i]) \in 1 .. Len(new)
                /\ data'[i][k] = new[k - Len(data[i])]
  <2>1. CASE i = wfd
    <3>1. data'[i] = data[i] \o new /\ data[i] \in Seq(Byte)
      BY <1>1, <2>1
    <3> QED
      BY <1>1, <2>1, <3>1
  <2>2. CASE i # wfd
    BY <1>1, <1>3, <2>2
  <2> QED
    BY <2>1, <2>2
<1>4. /\ data'[wfd][Len(data'[wfd])] = new[Len(new)] /\ Len(new) \in Nat
      /\ Len(data'[wfd]) = Len(data[wfd]) + Len(new)
  BY <1>1
<1>5. ASSUME NEW i \in Inodes, NEW k \in 1 .. Len(data[i]) PROVE data[i][k] \in Byte /\ Old(data[i][k])
  BY <1>1 DEF RepeatInv, Fresh
<1>6. ASSUME NEW b \in Byte, Old(b) PROVE Old(b)' /\ b.line \in Nat
  <2>1. b.line \in Nat /\ b.line <= line
    BY <1>6 DEF Byte, Old
  <2>2. CASE line' = line + 1
    <3>1. b.line <= line' /\ b.line # line'
      BY <1>1, <2>1, <2>2
    <3> QED
      BY <2>1, <3>1 DEF Old
  <2>3. CASE line' = line /\ left' = 0
    BY <2>1, <2>3 DEF Old
  <2> QED
    BY <2>1, <2>2, <2>3 DEF Appends
<1>7. ASSUME NEW m \in 1 .. Len(new) PROVE Old(new[m])'
  <2>1. new[m].line = line' /\ new[m].at <= new[Len(new)].at
    BY DEF Appends
  <2>2. line' \in Nat /\ wfd' = wfd
    BY DEF FileInv, TypeOK, DiskTypeOK
  <2> QED
    BY <1>4, <2>1, <2>2 DEF Old
<1>8. (\A i \in Inodes : \A k \in 1 .. Len(data[i]) : Old(data[i][k]))'
  <2> SUFFICES ASSUME NEW i \in Inodes, NEW k \in 1 .. Len(data'[i]), NEW b, b = data'[i][k]
               PROVE  Old(b)'
    BY DEF Old
  <2>1. CASE k \in 1 .. Len(data[i]) /\ b = data[i][k]
    <3>1. b \in Byte /\ Old(b)
      BY <1>5, <2>1
    <3> QED
      BY <1>6, <3>1
  <2>2. CASE k - Len(data[i]) \in 1 .. Len(new) /\ b = new[k - Len(data[i])]
    <3>1. PICK m \in 1 .. Len(new) : b = new[m]
      BY <2>2
    <3>2. Old(new[m])'
      BY <1>7
    <3> QED
      BY <3>1, <3>2
  <2> QED
    BY <1>3, <2>1, <2>2
<1>9. \A b \in Held' : Old(b)'
  BY <1>2, <1>6 DEF RepeatInv, Fresh
<1>10. \A b \in Byte : Old(b) => \A k \in 1 .. Len(new) : b # new[k]
  BY WriteIsNew
<1>11. ASSUME NEW i \in Inodes, NEW j \in Inodes,
              NEW k \in 1 .. Len(data'[i]), NEW m \in 1 .. Len(data'[j]),
              data'[i][k] = data'[j][m]
       PROVE  i = j /\ k = m
  <2> DEFINE b == data'[i][k]  x == k - Len(data[i])  y == m - Len(data[j])
  <2>1. \/ k \in 1 .. Len(data[i]) /\ b = data[i][k]
        \/ i = wfd /\ x \in 1 .. Len(new) /\ b = new[x]
    BY <1>3
  <2>2. \/ m \in 1 .. Len(data[j]) /\ b = data[j][m]
        \/ j = wfd /\ y \in 1 .. Len(new) /\ b = new[y]
    BY <1>3, <1>11
  <2>3. i = j /\ x = y => k = m
    BY <1>1
  <2> HIDE DEF b, x, y
  <2>4. CASE k \in 1 .. Len(data[i]) /\ b = data[i][k]
    <3>1. b \in Byte /\ Old(b)
      BY <1>5, <2>4
    <3>2. m \in 1 .. Len(data[j]) /\ b = data[j][m]
      BY <1>10, <2>2, <3>1
    <3>3. data[i][k] = data[j][m]
      BY <2>4, <3>2
    <3> QED
      BY <2>4, <3>2, <3>3 DEF RepeatInv, Fresh
  <2>5. CASE i = wfd /\ x \in 1 .. Len(new) /\ b = new[x]
    <3>1. ASSUME m \in 1 .. Len(data[j]), b = data[j][m] PROVE FALSE
      <4>1. b \in Byte /\ Old(b)
        BY <1>5, <3>1
      <4> QED
        BY <1>10, <2>5, <4>1
    <3>2. j = wfd /\ y \in 1 .. Len(new) /\ b = new[y]
      BY <2>2, <3>1
    <3>3. \A u, v \in 1 .. Len(new) : new[u].at = new[v].at => u = v
      BY DEF Appends
    <3>4. x = y
      BY <2>5, <3>2, <3>3
    <3> QED
      BY <2>3, <2>5, <3>2, <3>4
  <2> QED
    BY <2>1, <2>4, <2>5
<1>12. ASSUME NEW i \in Inodes, NEW k \in 1 .. Len(data'[i]), data'[i][k] \in Held
       PROVE  k \in 1 .. Len(data[i]) /\ data'[i][k] = data[i][k]
  <2>1. data'[i][k] \in Byte /\ Old(data'[i][k])
    BY <1>2, <1>12 DEF RepeatInv, Fresh
  <2> QED
    BY <1>3, <1>10, <2>1
<1>13. \A i \in Inodes : Len(data[i]) \in Nat /\ Len(data'[i]) \in Nat /\ Len(data[i]) <= Len(data'[i])
  <2>1. ASSUME NEW i \in Inodes PROVE Len(data[i]) \in Nat /\ Len(data'[i]) \in Nat /\ Len(data[i]) <= Len(data'[i])
    <3>1. CASE i = wfd
      BY <1>1, <1>4, <3>1
    <3>2. CASE i # wfd
      BY <1>1, <3>2
    <3> QED
      BY <3>1, <3>2
  <2> QED
    BY <2>1
<1>14. Ahead'
  <2>1. UNCHANGED <<fd, curIno, pos, raced, pc>>
    BY DEF proc, hist
  <2>2. ASSUME ~raced, pc # "down"
        PROVE  /\ fd = curIno
               /\ \A k \in 1 .. Len(data'[fd]) :
                      k > pos \/ pos > Len(data'[fd]) => data'[fd][k] \notin Held
               /\ path \notin {NoFile, fd} =>
                      \A k \in 1 .. Len(data'[path]) : data'[path][k] \notin Held
    <3>1. fd = curIno /\ fd \in Inodes /\ pos \in Nat
      BY <2>2 DEF RepeatInv, Ahead, FileInv, Places, TypeOK, ReaderTypeOK
    <3>2. ASSUME NEW k \in 1 .. Len(data'[fd]), k > pos \/ pos > Len(data'[fd]),
                 data'[fd][k] \in Held
          PROVE  FALSE
      <4>1. k \in 1 .. Len(data[fd]) /\ data'[fd][k] = data[fd][k]
        BY <1>12, <3>1, <3>2
      <4>2. k > pos \/ pos > Len(data[fd])
        BY <1>13, <3>1, <3>2
      <4> QED
        BY <2>2, <3>2, <4>1, <4>2 DEF RepeatInv, Ahead
    <3>3. ASSUME path \notin {NoFile, fd}, NEW k \in 1 .. Len(data'[path]),
                 data'[path][k] \in Held
          PROVE  FALSE
      <4>1. path \in Inodes
        BY <3>3 DEF RepeatInv, FileInv, TypeOK, DiskTypeOK
      <4>2. k \in 1 .. Len(data[path]) /\ data'[path][k] = data[path][k]
        BY <1>12, <3>3, <4>1
      <4> QED
        BY <2>2, <3>3, <4>2 DEF RepeatInv, Ahead
    <3> QED
      BY <3>1, <3>2, <3>3
  <2> QED
    BY <1>2, <2>1, <2>2 DEF Ahead
<1> QED
  BY <1>8, <1>9, <1>11, <1>14 DEF Fresh

\* A file that is created or emptied between two lines holds nothing.
LEMMA EmptyKeepsFresh ==
  ASSUME RepeatInv, NEW i \in Inodes, data' = [data EXCEPT ![i] = <<>>],
         path' = i, i # wfd \/ left = 0,
         UNCHANGED <<line, left, wfd, proc, hist>>
  PROVE  Fresh' /\ Ahead'
<1>1. /\ data \in [Inodes -> Seq(Byte)] /\ wfd \in Inodes
  BY DEF RepeatInv, FileInv, TypeOK, DiskTypeOK
<1>2. /\ data'[i] = <<>> /\ Len(data'[i]) = 0
      /\ \A j \in Inodes : j # i => data'[j] = data[j]
  BY <1>1
<1>3. Held' = Held
  BY DEF Held, Emitted, proc
<1>4. \A b : Old(b) => Old(b)'
  BY <1>1, <1>2 DEF Old
<1>5. Fresh'
  BY <1>2, <1>3, <1>4 DEF RepeatInv, Fresh
<1>6. Ahead'
  <2>1. UNCHANGED <<fd, curIno, pos, raced, pc>>
    BY DEF proc, hist
  <2>2. pc # "down" /\ ~raced => fd = curIno /\ fd \in Inodes
    BY DEF RepeatInv, Ahead, FileInv, Places, TypeOK, ReaderTypeOK
  <2> QED
    BY <1>2, <1>3, <2>1, <2>2 DEF RepeatInv, Ahead
<1> QED
  BY <1>5, <1>6

LEMMA EnvironmentKeepsRepeatInv ==
  ASSUME RepeatInv, Environment
  PROVE  RepeatInv'
<1>1. FileInv /\ FileInv'
  BY EnvironmentKeepsFileInv DEF RepeatInv
<1>2. UNCHANGED <<saved, proc, hist>>
  BY DEF Environment, WriteLine, WriteRest, Rename, Create, WriterReopen, Truncate
<1>3. /\ UNCHANGED <<fd, curIno, pos, raced, pc, statIno, emitted, buf, first>>
      /\ Emitted' = Emitted /\ Held' = Held
  BY <1>2 DEF proc, hist, Emitted, Held
<1>4. (~raced' => HeldOnce') /\ NoRepeat' /\ (pc' = "reopen" => statIno' # curIno')
  BY <1>3 DEF RepeatInv, HeldOnce, NoRepeat
<1>5. Fresh' /\ Ahead'
  <2>1. CASE WriteLine \/ WriteRest
    <3>1. PICK new : Appends(new)
      BY <1>1, <2>1, WriteShape DEF FileInv
    <3>2. UNCHANGED <<path, wfd>>
      BY <2>1 DEF WriteLine, WriteRest
    <3> QED
      BY <1>1, <1>2, <3>1, <3>2, WriteKeepsFresh
  <2>2. CASE Rename
    <3>1. path' = NoFile /\ UNCHANGED <<data, wfd, line, left>>
      BY <2>2 DEF Rename
    <3>2. \A b : Old(b)' <=> Old(b)
      BY <3>1 DEF Old
    <3> QED
      BY <1>3, <3>1, <3>2 DEF RepeatInv, Fresh, Ahead
  <2>3. CASE WriterReopen
    <3>1. UNCHANGED <<data, path, line, left>> /\ left = 0
      BY <2>3 DEF WriterReopen
    <3>2. \A b : Old(b)' <=> Old(b)
      BY <3>1 DEF Old
    <3> QED
      BY <1>3, <3>1, <3>2 DEF RepeatInv, Fresh, Ahead
  <2>4. CASE Create
    <3>1. PICK i \in Inodes \ (kept \cup {fd, wfd}) :
              path' = i /\ data' = [data EXCEPT ![i] = <<>>]
      BY <2>4 DEF Create
    <3>2. UNCHANGED <<line, left, wfd>>
      BY <2>4 DEF Create
    <3> QED
      BY <1>2, <3>1, <3>2, EmptyKeepsFresh
  <2>5. CASE Truncate
    <3>1. /\ path \in Inodes /\ path' = path /\ left = 0
          /\ data' = [data EXCEPT ![path] = <<>>] /\ UNCHANGED <<line, left, wfd>>
      BY <1>1, <2>5 DEF Truncate, FileInv, TypeOK, DiskTypeOK
    <3> QED
      BY <1>2, <3>1, EmptyKeepsFresh
  <2> QED
    BY <2>1, <2>2, <2>3, <2>4, <2>5 DEF Environment
<1> QED
  BY <1>1, <1>4, <1>5 DEF RepeatInv

LEMMA RepeatInvInit == Init => RepeatInv
<1> SUFFICES ASSUME Init PROVE RepeatInv
  OBVIOUS
<1>1. FileInv
  BY FileInvInit
<1>2. /\ emitted = <<>> /\ first = <<>> /\ buf = <<>> /\ pc = "down"
      /\ \A i \in Inodes : data[i] = <<>>
  BY DEF Init
<1>3. Range(<<>>) = {} /\ Len(<<>>) = 0 /\ DOMAIN <<>> = {}
  BY DEF Range
<1>4. Held = {}
  BY <1>2, <1>3 DEF Held, Emitted
<1>5. Fresh
  BY <1>2, <1>3, <1>4 DEF Fresh
<1> QED
  BY <1>1, <1>2, <1>3, <1>5 DEF RepeatInv, HeldOnce, Ahead, NoRepeat

LEMMA RepeatInvNext == RepeatInv /\ [Next]_vars => RepeatInv'
<1> SUFFICES ASSUME RepeatInv, [Next]_vars PROVE RepeatInv'
  OBVIOUS
<1>1. CASE UNCHANGED vars
  <2>1. FileInv'
    BY FileInvNext DEF RepeatInv
  <2>2. UNCHANGED <<disk, saved, proc, hist, bounds>>
    BY <1>1 DEF vars
  <2>3. /\ UNCHANGED <<fd, curIno, pos, raced, pc, statIno, emitted, buf, first, data, path>>
        /\ Emitted' = Emitted /\ Held' = Held
    BY <2>2 DEF disk, proc, hist, Emitted, Held
  <2>4. Fresh'
    BY <2>2, <2>3, HeldShrinks
  <2>5. Ahead'
    BY <2>3 DEF RepeatInv, Ahead
  <2> QED
    BY <2>1, <2>3, <2>4, <2>5 DEF RepeatInv, HeldOnce, NoRepeat
<1>2. CASE Source
  BY <1>2, LineReadKeepsRepeatInv, DiscardEndKeepsRepeatInv, DropKeepsRepeatInv,
     FillKeepsRepeatInv, StartKeepsRepeatInv, RotationKeepsRepeatInv DEF Source
<1>3. CASE Stop \/ Crash
  BY <1>3, StartKeepsRepeatInv
<1> QED
  BY <1>1, <1>2, <1>3, EnvironmentKeepsRepeatInv DEF Next

\* No byte is emitted twice by one process, through rotations, truncations,
\* discarded lines and failed reads, unless the path changed between
\* checkRotation's Stat and its Open.
THEOREM FileNoRepeat == Spec => []NoRepeat
<1>1. RepeatInv => NoRepeat
  BY DEF RepeatInv
<1> QED
  BY <1>1, RepeatInvInit, RepeatInvNext, PTL DEF Spec

-----------------------------------------------------------------------------
\* What makes records lines: writes hold whole lines, and no line is longer
\* than what readLine keeps and skips of one.
Longest  == MaxLineBytes + MaxDiscard
LinesFit == WholeLines /\ \A n \in LineLengths : n <= Longest

\* A line ends at position n of a file.
Aligned(f, n) == n = 0 \/ (n <= Len(f) /\ f[n].nl)

\* The m bytes from position n + 1 on are of one line, and start it.
InLine(f, n, m) ==
    /\ Aligned(f, n)
    /\ n + m <= Len(f)
    /\ \A k \in n + 1 .. n + m : ~f[k].nl

\* The byte at position k is where its number says, counted from the end of
\* the line before.
Numbered(f, k) ==
    /\ f[k].at \in 1 .. k
    /\ InLine(f, k - f[k].at, f[k].at - 1)
    /\ ~f[k].nl => f[k].at < Longest

WholeFile(f) ==
    /\ \A k \in 1 .. Len(f) : Numbered(f, k)
    /\ Aligned(f, Len(f))

WholeFiles == left = 0 /\ \A i \in Inodes : WholeFile(data[i])

\* Between two lines the offset is where a line ends, in the file the source
\* reads and in the one it would save an offset for.
AlignedNow ==
    readErrors = 0 /\ pc # "discard" =>
        /\ fd # NoFile /\ epoch[fd] = fdEpoch => Aligned(data[fd], offset)
        /\ curIno # 0 /\ epoch[curIno] = fdEpoch => Aligned(data[curIno], offset)

\* While it discards, what it has counted is the beginning of one line.
Discarding ==
    pc = "discard" =>
        /\ fd # NoFile
        /\ Len(first) = MaxLineBytes
        /\ readErrors = 0 /\ epoch[fd] = fdEpoch =>
            /\ first[1].at = 1 /\ ~first[MaxLineBytes].nl
            /\ offset >= MaxLineBytes
            /\ InLine(data[fd], offset - MaxLineBytes, MaxLineBytes + discarded)

AlignedSaved ==
    readErrors = 0 /\ saved.inode # 0 /\ epoch[saved.inode] = saved.epoch =>
        Aligned(data[saved.inode], saved.offset)

LinesInv ==
    /\ SkipInv
    /\ WholeFiles
    /\ AlignedNow
    /\ Discarding
    /\ AlignedSaved
    /\ RecordsAreLines
-----------------------------------------------------------------------------
\* A file that only grows keeps the ends of its lines.
LEMMA LinesGrow ==
  ASSUME NEW f \in Seq(Byte), NEW g \in Seq(Byte), Len(f) <= Len(g),
         \A k \in 1 .. Len(f) : g[k] = f[k]
  PROVE  /\ \A n \in Nat : Aligned(f, n) => Aligned(g, n)
         /\ \A n \in Nat : \A m \in Nat : InLine(f, n, m) => InLine(g, n, m)
<1>1. Len(f) \in Nat /\ Len(g) \in Nat
  OBVIOUS
<1>2. ASSUME NEW n \in Nat, Aligned(f, n)
      PROVE  Aligned(g, n)
  <2>1. CASE n = 0
    BY <2>1 DEF Aligned
  <2>2. CASE n # 0
    <3>1. n \in 1 .. Len(f) /\ f[n].nl
      BY <1>1, <1>2, <2>2 DEF Aligned
    <3> QED
      BY <1>1, <3>1 DEF Aligned
  <2> QED
    BY <2>1, <2>2
<1>3. ASSUME NEW n \in Nat, NEW m \in Nat, InLine(f, n, m)
      PROVE  InLine(g, n, m)
  <2>1. Aligned(g, n) /\ n + m <= Len(g)
    BY <1>1, <1>2, <1>3 DEF InLine
  <2>2. ASSUME NEW k \in n + 1 .. n + m PROVE ~g[k].nl
    <3>1. k \in 1 .. Len(f)
      BY <1>1, <1>3 DEF InLine
    <3> QED
      BY <1>3, <3>1 DEF InLine
  <2> QED
    BY <2>1, <2>2 DEF InLine
<1> QED
  BY <1>2, <1>3

\* The number of a byte is its distance from where its line starts.
LEMMA LineAt ==
  ASSUME NEW f \in Seq(Byte), WholeFile(f), NEW n \in Nat, NEW m \in Nat \ {0},
         Aligned(f, n), n + m <= Len(f),
         \A k \in n + 1 .. n + m - 1 : ~f[k].nl
  PROVE  f[n + m].at = m
<1> DEFINE at == f[n + m].at
           s  == n + m - at
<1>1. n + m \in 1 .. Len(f) /\ Len(f) \in Nat
  OBVIOUS
<1>2. Numbered(f, n + m)
  BY <1>1 DEF WholeFile
<1>3. at \in 1 .. n + m /\ InLine(f, s, at - 1)
  BY <1>2 DEF Numbered
<1> HIDE DEF at
<1>4. at \in Nat /\ s \in Nat /\ s < n + m
  BY <1>3
<1>5. ~(s < n)
  <2>1. SUFFICES ASSUME s < n PROVE FALSE
    OBVIOUS
  <2>2. n \in s + 1 .. s + (at - 1)
    BY <1>4, <2>1
  <2>3. ~f[n].nl
    BY <1>3, <2>2 DEF InLine
  <2> QED
    BY <1>4, <2>1, <2>3 DEF Aligned
<1>6. ~(s > n)
  <2>1. SUFFICES ASSUME s > n PROVE FALSE
    OBVIOUS
  <2>2. s \in n + 1 .. n + m - 1
    BY <1>4, <2>1
  <2>3. s # 0 /\ Aligned(f, s)
    BY <1>3, <1>4, <2>1 DEF InLine
  <2>4. f[s].nl
    BY <2>3 DEF Aligned
  <2> QED
    BY <2>2, <2>4
<1>7. at = m
  BY <1>4, <1>5, <1>6
<1> QED
  BY <1>7 DEF at

LEMMA EmptyWhole == WholeFile(<<>>)
  BY DEF WholeFile, Aligned

\* The writer appends a whole line.
LEMMA WriteWhole ==
  ASSUME NEW f \in Seq(Byte), WholeFile(f), NEW l \in Nat, NEW len \in Nat \ {0},
         len <= Longest
  PROVE  WholeFile(f \o Bytes(l, len, 1, len))
<1> DEFINE new == Bytes(l, len, 1, len)
           g   == f \o new
<1>1. ASSUME NEW i \in 1 .. len
      PROVE  new[i] = [line |-> l, at |-> 1 + i - 1, nl |-> 1 + i - 1 = len]
  BY DEF Bytes
<1>2. ASSUME NEW i \in 1 .. len
      PROVE  new[i].at = i /\ (new[i].nl <=> i = len)
  <2>1. 1 + i - 1 = i
    OBVIOUS
  <2>2. new[i] = [line |-> l, at |-> i, nl |-> i = len]
    BY <1>1, <2>1, Zenon
  <2>3. new[i].at = i /\ new[i].nl = (i = len)
    BY <2>2
  <2> QED
    BY <2>3
<1>3. AreBytes(new, l, 1, len)
  BY BytesShape
<1>4. new \in Seq(Byte) /\ Len(new) = len
  BY <1>3 DEF AreBytes
<1> HIDE DEF new
<1>5. /\ g \in Seq(Byte) /\ Len(g) = Len(f) + len /\ Len(f) \in Nat
      /\ \A k \in 1 .. Len(f) : g[k] = f[k]
      /\ \A i \in 1 .. len : g[Len(f) + i] = new[i]
  BY <1>4
<1> HIDE DEF g
<1>6. ASSUME NEW i \in 1 .. len
      PROVE  g[Len(f) + i].at = i /\ (g[Len(f) + i].nl <=> i = len)
  BY <1>2, <1>5
<1>7. /\ \A n \in Nat : Aligned(f, n) => Aligned(g, n)
      /\ \A n \in Nat : \A m \in Nat : InLine(f, n, m) => InLine(g, n, m)
  <2>1. Len(f) <= Len(g)
    BY <1>5
  <2> QED
    BY <1>5, <2>1, LinesGrow
<1>8. Aligned(g, Len(f))
  BY <1>5, <1>7 DEF WholeFile
<1>9. ASSUME NEW k \in 1 .. Len(g)
      PROVE  Numbered(g, k)
  <2>1. CASE k <= Len(f)
    <3>1. k \in 1 .. Len(f) /\ g[k] = f[k]
      BY <1>5, <2>1
    <3>2. /\ f[k].at \in 1 .. k /\ InLine(f, k - f[k].at, f[k].at - 1)
          /\ ~f[k].nl => f[k].at < Longest
      BY <3>1 DEF WholeFile, Numbered
    <3>3. k - f[k].at \in Nat /\ f[k].at - 1 \in Nat
      BY <3>2
    <3>4. InLine(g, k - f[k].at, f[k].at - 1)
      BY <1>7, <3>2, <3>3
    <3> QED
      BY <3>1, <3>2, <3>4 DEF Numbered
  <2>2. CASE k > Len(f)
    <3> DEFINE i == k - Len(f)
    <3>1. i \in 1 .. len /\ k = Len(f) + i
      BY <1>5, <2>2
    <3> HIDE DEF i
    <3>2. g[k].at = i /\ (g[k].nl <=> i = len)
      BY <1>6, <3>1
    <3>3. ASSUME NEW j \in Len(f) + 1 .. Len(f) + (i - 1)
          PROVE  ~g[j].nl
      <4>1. j - Len(f) \in 1 .. len /\ j - Len(f) # len /\ Len(f) + (j - Len(f)) = j
        BY <1>5, <3>1
      <4> QED
        BY <1>6, <4>1
    <3>4. InLine(g, Len(f), i - 1)
      BY <1>5, <1>8, <3>1, <3>3 DEF InLine
    <3>5. k - i = Len(f) /\ i \in 1 .. k
      BY <1>5, <3>1
    <3>6. ~g[k].nl => i < Longest
      <4>1. ~g[k].nl => i < len
        BY <3>1, <3>2
      <4>2. Longest \in Nat
        BY FileConstants DEF Longest
      <4> QED
        BY <3>1, <4>1, <4>2
    <3> QED
      BY <3>2, <3>4, <3>5, <3>6 DEF Numbered
  <2> QED
    BY <1>5, <2>1, <2>2
<1>10. Aligned(g, Len(g))
  <2>1. g[Len(f) + len].nl
    <3>1. len \in 1 .. len
      OBVIOUS
    <3> QED
      BY <1>6, <3>1
  <2> QED
    BY <1>5, <2>1 DEF Aligned
<1>11. WholeFile(g)
  BY <1>9, <1>10 DEF WholeFile
<1> QED
  BY <1>11 DEF g, new

\* ReadSlice returns through the newline.
LEMMA SliceEnds ==
  ASSUME buf \in Seq(Byte), HasNewline
  PROVE  /\ Len(Slice) \in 1 .. Len(buf)
         /\ buf[Len(Slice)].nl
<1> DEFINE T == {i \in DOMAIN buf : buf[i].nl}
           First(i) == buf[i].nl /\ \A j \in 1 .. i - 1 : ~buf[j].nl
           at == CHOOSE i \in DOMAIN buf : First(i)
<1>1. T # {} /\ T \subseteq Nat
  BY DEF HasNewline
<1>2. PICK i \in T : \A j \in T : i <= j
  BY <1>1, LeastPosition
<1>3. i \in DOMAIN buf /\ First(i)
  BY <1>2
<1>4. at \in DOMAIN buf /\ First(at)
  BY <1>3
<1>5. Slice = SubSeq(buf, 1, at)
  BY DEF Slice
<1>6. buf[at].nl
  BY <1>4
<1>7. at \in 1 .. Len(buf)
  BY <1>4
<1> HIDE DEF at
<1>8. Len(Slice) = at
  BY <1>5, <1>7
<1> QED
  BY <1>6, <1>7, <1>8

\* What the buffer holds up to a newline, read from where a line starts, is a
\* line and ends where the next one starts.
LEMMA TakesLine ==
  ASSUME NEW f \in Seq(Byte), NEW b \in Seq(Byte), NEW n \in Nat,
         Matches(f, n, b), n + Len(b) <= Len(f), NEW m \in 1 .. Len(b), b[m].nl
  PROVE  /\ Aligned(f, n + m)
         /\ WholeFile(f) /\ Aligned(f, n) => b[1].at = 1
<1>1. Len(b) \in Nat /\ Len(f) \in Nat /\ 1 \in 1 .. Len(b)
  OBVIOUS
<1>2. b[m] = f[n + m] /\ b[1] = f[n + 1]
  BY <1>1 DEF Matches
<1>3. Aligned(f, n + m)
  BY <1>1, <1>2 DEF Aligned
<1>4. ASSUME WholeFile(f), Aligned(f, n)
      PROVE  f[n + 1].at = 1
  <2>1. n + 1 <= Len(f) /\ \A k \in n + 1 .. n + 1 - 1 : ~f[k].nl
    BY <1>1
  <2> QED
    BY <1>4, <2>1, LineAt
<1> QED
  BY <1>2, <1>3, <1>4

\* A file of whole lines has no newline missing at its end.
LEMMA NoPartialLine ==
  ASSUME NEW f \in Seq(Byte), NEW b \in Seq(Byte), NEW n \in Nat, WholeFile(f),
         Matches(f, n, b), n + Len(b) = Len(f), Len(b) > 0
  PROVE  \E k \in 1 .. Len(b) : b[k].nl
<1>1. Len(b) \in Nat /\ Len(f) \in Nat /\ Len(b) \in 1 .. Len(b)
  OBVIOUS
<1>2. b[Len(b)] = f[Len(f)]
  BY <1>1 DEF Matches
<1>3. f[Len(f)].nl
  BY <1>1 DEF WholeFile, Aligned
<1> QED
  BY <1>1, <1>2, <1>3

\* A buffer without a newline goes on with the line.
LEMMA LineGoesOn ==
  ASSUME NEW f \in Seq(Byte), NEW b \in Seq(Byte), NEW n \in Nat, NEW m \in Nat,
         InLine(f, n, m), Matches(f, n + m, b), n + m + Len(b) <= Len(f),
         \A k \in 1 .. Len(b) : ~b[k].nl
  PROVE  InLine(f, n, m + Len(b))
<1>1. Len(b) \in Nat /\ Len(f) \in Nat /\ n + (m + Len(b)) <= Len(f)
  OBVIOUS
<1>2. ASSUME NEW k \in n + 1 .. n + (m + Len(b))
      PROVE  ~f[k].nl
  <2>1. CASE k <= n + m
    <3>1. k \in n + 1 .. n + m
      BY <2>1
    <3> QED
      BY <3>1 DEF InLine
  <2>2. CASE k > n + m
    <3>1. k - (n + m) \in 1 .. Len(b) /\ n + m + (k - (n + m)) = k
      BY <1>1, <2>2
    <3>2. b[k - (n + m)] = f[k]
      BY <3>1 DEF Matches
    <3> QED
      BY <3>1, <3>2
  <2> QED
    BY <2>1, <2>2
<1> QED
  BY <1>1, <1>2 DEF InLine

\* No line goes on for longer than the discard.
LEMMA LineEnds ==
  ASSUME NEW f \in Seq(Byte), WholeFile(f), NEW n \in Nat, NEW m \in Nat \ {0},
         InLine(f, n, m)
  PROVE  m < Longest /\ n + m # Len(f)
<1>1. Len(f) \in Nat /\ Aligned(f, n) /\ n + m <= Len(f)
  BY DEF InLine
<1>2. n + m \in n + 1 .. n + m /\ n + m \in 1 .. Len(f)
  BY <1>1
<1>3. ~f[n + m].nl
  BY <1>2 DEF InLine
<1>4. \A k \in n + 1 .. n + m - 1 : ~f[k].nl
  BY DEF InLine
<1>5. f[n + m].at = m
  BY <1>1, <1>4, LineAt
<1>6. m < Longest
  BY <1>2, <1>3, <1>5 DEF WholeFile, Numbered
<1>7. n + m # Len(f)
  BY <1>1, <1>3 DEF WholeFile, Aligned
<1> QED
  BY <1>6, <1>7
-----------------------------------------------------------------------------
\* consumeLine is given a line.
IsLine(r) ==
    r.sure =>
        /\ Head(r.bytes).at = 1
        /\ Last(r.bytes).nl # r.truncated
        /\ r.truncated => Len(r.bytes) = MaxLineBytes

LEMMA ConsumeRecords ==
  ASSUME RecordsTypeOK, RecordsAreLines, NEW bytes \in Seq(Byte), bytes # <<>>,
         NEW t \in BOOLEAN, ConsumeLine(bytes, t),
         readErrors = 0 /\ fdEpoch = epoch[fd] =>
             /\ bytes[1].at = 1
             /\ bytes[Len(bytes)].nl <=> ~t
             /\ t => Len(bytes) = MaxLineBytes
  PROVE  RecordsAreLines'
<1> DEFINE sure == readErrors = 0 /\ fdEpoch = epoch[fd]
           r == [bytes |-> bytes, truncated |-> t, sure |-> sure]
           R == [bytes : Seq(Byte), truncated : BOOLEAN, sure : BOOLEAN]
<1>1. emitted \in Seq(R) /\ \A i \in DOMAIN emitted : IsLine(emitted[i])
  BY DEF RecordsTypeOK, RecordsAreLines, IsLine
<1>2. emitted' = emitted \/ emitted' = Append(emitted, r)
  BY DEF ConsumeLine
<1>3. r \in R
  BY Zenon
<1>4. r.bytes = bytes /\ r.truncated = t /\ r.sure = sure
  BY Zenon
<1>5. sure => bytes[1].at = 1 /\ (bytes[Len(bytes)].nl <=> ~t) /\ (t => Len(bytes) = MaxLineBytes)
  OBVIOUS
<1>6. Head(bytes) = bytes[1] /\ Last(bytes) = bytes[Len(bytes)]
  BY DEF Last
<1>7. bytes[Len(bytes)] \in Byte
  BY SMT
<1>8. bytes[Len(bytes)].nl \in BOOLEAN
  BY <1>7 DEF Byte
<1> HIDE DEF r, R, sure
<1>9. (bytes[Len(bytes)].nl <=> ~t) => Last(bytes).nl # t
  BY <1>6, <1>8, Zenon
<1>10. IsLine(r)
  BY <1>4, <1>5, <1>6, <1>9, Zenon DEF IsLine
<1>11. ASSUME NEW i \in DOMAIN emitted'
       PROVE  IsLine(emitted'[i])
  <2>1. CASE emitted' = emitted
    BY <1>1, <1>11, <2>1, Zenon
  <2>2. CASE emitted' = Append(emitted, r)
    <3>1. CASE i \in DOMAIN emitted
      <4>1. emitted'[i] = emitted[i]
        BY <1>1, <1>3, <2>2, <3>1
      <4> QED
        BY <1>1, <3>1, <4>1, Zenon
    <3>2. CASE i \notin DOMAIN emitted
      <4>1. emitted'[i] = r
        BY <1>1, <1>3, <2>2, <3>2
      <4> QED
        BY <1>10, <4>1, Zenon
    <3> QED
      BY <3>1, <3>2
  <2> QED
    BY <1>2, <2>1, <2>2
<1> QED
  BY <1>11, Zenon DEF RecordsAreLines, IsLine

\* The source reads the content it believes it reads.
Sure == readErrors = 0 /\ fd # NoFile /\ epoch[fd] = fdEpoch

LEMMA SureFacts ==
  ASSUME LinesInv, Sure
  PROVE  /\ data[fd] \in Seq(Byte) /\ WholeFile(data[fd])
         /\ Matches(data[fd], Counted, buf)
         /\ Counted \in Nat /\ Counted + Len(buf) <= Len(data[fd])
         /\ pos = Counted + Len(buf)
<1>1. FileInv /\ BufferIsFile /\ WholeFiles
  BY DEF LinesInv, SkipInv
<1>2. fd \in Inodes /\ data[fd] \in Seq(Byte) /\ Counted \in Nat /\ Taken = Counted + Len(buf)
  BY <1>1, CountedFacts DEF Sure
<1>3. pos = Counted + Len(buf)
  BY <1>1, <1>2 DEF Sure, FileInv, Position
<1>4. pos <= Len(data[fd]) /\ Matches(data[fd], Counted, buf)
  BY <1>1 DEF Sure, BufferIsFile
<1>5. WholeFile(data[fd])
  BY <1>1, <1>2 DEF WholeFiles
<1> QED
  BY <1>2, <1>3, <1>4, <1>5

\* Where a file of whole lines ends, nothing is left in the buffer.
LEMMA SureAtEOF ==
  ASSUME LinesInv, Sure, AtEOF
  PROVE  buf = <<>> /\ Counted = Len(data[fd])
<1>1. /\ data[fd] \in Seq(Byte) /\ WholeFile(data[fd])
      /\ Matches(data[fd], Counted, buf)
      /\ Counted \in Nat /\ Counted + Len(buf) <= Len(data[fd])
      /\ pos = Counted + Len(buf)
  BY SureFacts
<1>2. buf \in Seq(Byte) /\ ~HasNewline /\ Available = <<>> /\ fd # NoFile
  BY DEF LinesInv, SkipInv, FileInv, TypeOK, BufferTypeOK, AtEOF, Reading
<1>3. Len(buf) \in Nat /\ Len(data[fd]) \in Nat /\ pos \in Nat
  BY <1>1, <1>2
<1>4. ~(pos < Len(data[fd]))
  <2>1. SUFFICES ASSUME pos < Len(data[fd]) PROVE FALSE
    OBVIOUS
  <2>2. Available = SubSeq(data[fd], pos + 1, Len(data[fd]))
    BY <1>2, <1>3, <2>1 DEF Available
  <2>3. Len(Available) = Len(data[fd]) - pos
    BY <1>1, <1>3, <2>1, <2>2
  <2> QED
    BY <1>2, <1>3, <2>1, <2>3
<1>5. Counted + Len(buf) = Len(data[fd])
  BY <1>1, <1>3, <1>4
<1>6. ~(Len(buf) > 0)
  <2>1. SUFFICES ASSUME Len(buf) > 0 PROVE FALSE
    OBVIOUS
  <2>2. \E k \in 1 .. Len(buf) : buf[k].nl
    BY <1>1, <1>2, <1>5, <2>1, NoPartialLine
  <2> QED
    BY <1>2, <2>2 DEF HasNewline
<1>7. buf = <<>>
  BY <1>2, <1>3, <1>6
<1> QED
  BY <1>1, <1>3, <1>5, <1>7

\* A step that reads the same file on, and stands at the end of a line after it.
LEMMA LineDone ==
  ASSUME LinesInv, UNCHANGED <<disk, fd, curIno, fdEpoch, readErrors>>, pc' # "discard",
         fd # NoFile, Sure => Aligned(data[fd], offset')
  PROVE  AlignedNow' /\ Discarding'
<1>1. data' = data /\ epoch' = epoch
  BY DEF disk
<1>2. MistakenIno
  BY DEF LinesInv, SkipInv
<1> QED
  BY <1>1, <1>2 DEF AlignedNow, Discarding, MistakenIno, Sure

LEMMA LineReadKeepsLines ==
  ASSUME LinesInv, LineRead
  PROVE  AlignedNow' /\ Discarding' /\ RecordsAreLines'
<1>1. /\ FileInv /\ RecordsTypeOK /\ buf \in Seq(Byte) /\ offset \in Nat
      /\ AlignedNow /\ RecordsAreLines /\ Places
  BY DEF LinesInv, SkipInv, FileInv, TypeOK, ReaderTypeOK, BufferTypeOK
<1>2. /\ UNCHANGED <<disk, fd, curIno, fdEpoch, readErrors>> /\ pc = "drain" /\ pc' = "drain"
      /\ offset' = offset + Len(Slice) /\ ConsumeLine(Slice, FALSE)
      /\ HasNewline \/ (AtEOF /\ buf # <<>>)
  BY DEF LineRead, bounds
<1>3. buf # <<>>
  BY <1>1, <1>2 DEF HasNewline
<1>4. fd # NoFile
  BY <1>1, <1>3 DEF Places
<1>5. Counted = offset
  BY <1>1, <1>2 DEF Places, Counted
<1>6. /\ Slice \in Seq(Byte) /\ \A k \in 1 .. Len(Slice) : Slice[k] = buf[k]
      /\ ~HasNewline => Slice = buf
      /\ HasNewline => Slice # <<>>
  BY <1>1, SliceShape
<1>7. Slice # <<>>
  BY <1>3, <1>6
<1>8. ASSUME Sure
      PROVE  /\ Aligned(data[fd], offset')
             /\ Slice[1].at = 1 /\ Slice[Len(Slice)].nl
  <2>1. HasNewline
    BY <1>2, <1>8, SureAtEOF
  <2>2. Len(Slice) \in 1 .. Len(buf) /\ buf[Len(Slice)].nl
    BY <1>1, <2>1, SliceEnds
  <2>3. /\ data[fd] \in Seq(Byte) /\ WholeFile(data[fd])
        /\ Matches(data[fd], offset, buf)
        /\ offset + Len(buf) <= Len(data[fd])
    BY <1>5, <1>8, SureFacts
  <2>4. Aligned(data[fd], offset)
    BY <1>1, <1>2, <1>8 DEF AlignedNow, Sure
  <2>5. Aligned(data[fd], offset') /\ buf[1].at = 1
    BY <1>1, <1>2, <2>2, <2>3, <2>4, TakesLine
  <2>6. 1 \in 1 .. Len(Slice) /\ Len(Slice) \in 1 .. Len(Slice)
    BY <2>2
  <2>7. Slice[1] = buf[1] /\ Slice[Len(Slice)] = buf[Len(Slice)]
    BY <1>6, <2>6
  <2> QED
    BY <2>2, <2>5, <2>7
<1>9. RecordsAreLines'
  BY <1>1, <1>2, <1>4, <1>6, <1>7, <1>8, ConsumeRecords DEF Sure
<1> QED
  BY <1>2, <1>4, <1>8, <1>9, LineDone

LEMMA LineTooLongKeepsLines ==
  ASSUME LinesInv, LineTooLong
  PROVE  AlignedNow' /\ Discarding' /\ RecordsAreLines'
<1>1. /\ FileInv /\ buf \in Seq(Byte) /\ offset \in Nat /\ Len(buf) <= MaxLineBytes
      /\ AlignedNow /\ RecordsAreLines /\ Places /\ MaxLineBytes \in Nat \ {0}
  BY FileConstants DEF LinesInv, SkipInv, FileInv, TypeOK, ReaderTypeOK, BufferTypeOK
<1>2. /\ UNCHANGED <<disk, fd, curIno, fdEpoch, readErrors, emitted>>
      /\ pc = "drain" /\ pc' = "discard" /\ first' = buf /\ discarded' = 0
      /\ offset' = offset + Len(buf) /\ Full /\ ~HasNewline
  BY DEF LineTooLong, bounds
<1>3. Len(buf) = MaxLineBytes
  BY <1>1, <1>2 DEF Full
<1>4. fd # NoFile
  BY <1>1, <1>3 DEF Places
<1>5. Counted = offset
  BY <1>1, <1>2 DEF Places, Counted
<1>6. \A k \in 1 .. Len(buf) : ~buf[k].nl
  BY <1>1, <1>2 DEF HasNewline
<1>7. data' = data /\ epoch' = epoch
  BY <1>2 DEF disk
<1>8. ASSUME Sure
      PROVE  /\ buf[1].at = 1 /\ InLine(data[fd], offset, MaxLineBytes)
  <2>1. /\ data[fd] \in Seq(Byte) /\ WholeFile(data[fd])
        /\ Matches(data[fd], offset, buf)
        /\ offset + Len(buf) <= Len(data[fd])
    BY <1>5, <1>8, SureFacts
  <2>2. Aligned(data[fd], offset)
    BY <1>1, <1>2, <1>8 DEF AlignedNow, Sure
  <2>3. /\ InLine(data[fd], offset, 0) /\ offset + 0 = offset
        /\ 0 + Len(buf) = MaxLineBytes /\ offset + 0 + Len(buf) <= Len(data[fd])
    BY <1>1, <1>3, <2>1, <2>2 DEF InLine
  <2>4. InLine(data[fd], offset, MaxLineBytes)
    BY <1>1, <1>6, <2>1, <2>3, LineGoesOn
  <2>5. /\ offset + 1 <= Len(data[fd])
        /\ \A k \in offset + 1 .. offset + 1 - 1 : ~data[fd][k].nl
    BY <1>1, <1>3, <2>1
  <2>6. data[fd][offset + 1].at = 1
    BY <1>1, <2>1, <2>2, <2>5, LineAt
  <2>7. 1 \in 1 .. Len(buf)
    BY <1>1, <1>3
  <2>8. buf[1] = data[fd][offset + 1]
    BY <2>1, <2>7 DEF Matches
  <2> QED
    BY <2>4, <2>6, <2>8
<1>9. ~buf[MaxLineBytes].nl
  BY <1>1, <1>3, <1>6
<1>10. offset' \in Nat /\ offset' >= MaxLineBytes /\ offset' - MaxLineBytes = offset
  BY <1>1, <1>2, <1>3
<1>11. MaxLineBytes + 0 = MaxLineBytes
  BY <1>1
<1>12. Discarding'
  BY <1>2, <1>3, <1>4, <1>7, <1>8, <1>9, <1>10, <1>11 DEF Discarding, Sure
<1>13. AlignedNow'
  BY <1>2 DEF AlignedNow
<1>14. RecordsAreLines'
  BY <1>1, <1>2, Zenon DEF RecordsAreLines
<1> QED
  BY <1>12, <1>13, <1>14

\* While it discards, the buffer goes on with the line.
LEMMA DiscardFacts ==
  ASSUME LinesInv, Sure, pc = "discard", ~HasNewline
  PROVE  /\ offset - MaxLineBytes \in Nat
         /\ InLine(data[fd], offset - MaxLineBytes, MaxLineBytes + discarded + Len(buf))
<1>1. /\ buf \in Seq(Byte) /\ offset \in Nat /\ discarded \in Nat /\ MaxLineBytes \in Nat
      /\ Discarding
  BY FileConstants DEF LinesInv, SkipInv, FileInv, TypeOK, ReaderTypeOK, BufferTypeOK
<1>2. /\ offset >= MaxLineBytes
      /\ InLine(data[fd], offset - MaxLineBytes, MaxLineBytes + discarded)
  BY <1>1 DEF Discarding, Sure
<1>3. /\ data[fd] \in Seq(Byte) /\ Matches(data[fd], Counted, buf)
      /\ Counted + Len(buf) <= Len(data[fd])
  BY SureFacts
<1> DEFINE n == offset - MaxLineBytes
           m == MaxLineBytes + discarded
<1>4. n \in Nat /\ m \in Nat /\ Counted = n + m
  BY <1>1, <1>2 DEF Counted
<1>5. \A k \in 1 .. Len(buf) : ~buf[k].nl
  BY <1>1 DEF HasNewline
<1>6. InLine(data[fd], n, m)
  BY <1>2
<1> HIDE DEF n, m
<1>7. InLine(data[fd], n, m + Len(buf))
  BY <1>1, <1>3, <1>4, <1>5, <1>6, LineGoesOn
<1> QED
  BY <1>4, <1>7 DEF n, m

LEMMA DiscardMoreKeepsLines ==
  ASSUME LinesInv, DiscardMore
  PROVE  AlignedNow' /\ Discarding' /\ RecordsAreLines'
<1>1. /\ buf \in Seq(Byte) /\ offset \in Nat /\ discarded \in Nat /\ MaxLineBytes \in Nat
      /\ Discarding /\ RecordsAreLines /\ Len(buf) \in Nat
  BY FileConstants DEF LinesInv, SkipInv, FileInv, TypeOK, ReaderTypeOK, BufferTypeOK
<1>2. /\ UNCHANGED <<disk, fd, curIno, fdEpoch, readErrors, emitted, pc, first, offset>>
      /\ pc = "discard" /\ discarded' = discarded + Len(buf) /\ ~HasNewline
  BY DEF DiscardMore, bounds
<1>3. data' = data /\ epoch' = epoch
  BY <1>2 DEF disk
<1>4. Sure => InLine(data[fd], offset - MaxLineBytes, MaxLineBytes + discarded + Len(buf))
  BY <1>2, DiscardFacts
<1>5. MaxLineBytes + discarded' = MaxLineBytes + discarded + Len(buf)
  BY <1>1, <1>2
<1>6. Discarding'
  BY <1>1, <1>2, <1>3, <1>4, <1>5 DEF Discarding, Sure
<1>7. AlignedNow'
  BY <1>2 DEF AlignedNow
<1>8. RecordsAreLines'
  BY <1>1, <1>2, Zenon DEF RecordsAreLines
<1> QED
  BY <1>6, <1>7, <1>8

LEMMA DiscardEndKeepsLines ==
  ASSUME LinesInv, DiscardEnd
  PROVE  AlignedNow' /\ Discarding' /\ RecordsAreLines'
<1>1. /\ FileInv /\ RecordsTypeOK /\ buf \in Seq(Byte) /\ offset \in Nat /\ discarded \in Nat
      /\ MaxLineBytes \in Nat \ {0} /\ MaxDiscard \in Nat /\ first \in Seq(Byte)
      /\ Discarding /\ RecordsAreLines /\ Len(buf) \in Nat
  BY FileConstants DEF LinesInv, SkipInv, FileInv, TypeOK, ReaderTypeOK, BufferTypeOK
<1>2. /\ UNCHANGED <<disk, fd, curIno, fdEpoch, readErrors>> /\ pc = "discard" /\ pc' = "drain"
      /\ offset' = offset + discarded + Len(Slice) /\ ConsumeLine(first, TRUE)
      /\ HasNewline \/ AtEOF \/ (Full /\ discarded + Len(buf) >= MaxDiscard)
  BY DEF DiscardEnd, bounds
<1>3. fd # NoFile /\ Len(first) = MaxLineBytes
  BY <1>1, <1>2 DEF Discarding
<1>4. first # <<>>
  BY <1>1, <1>3
<1>5. Sure => first[1].at = 1 /\ ~first[MaxLineBytes].nl
  BY <1>1, <1>2 DEF Discarding, Sure
<1>6. RecordsAreLines'
  BY <1>1, <1>2, <1>3, <1>4, <1>5, ConsumeRecords DEF Sure
<1>7. ASSUME Sure
      PROVE  Aligned(data[fd], offset')
  <2>1. /\ data[fd] \in Seq(Byte) /\ WholeFile(data[fd])
        /\ Matches(data[fd], Counted, buf)
        /\ Counted \in Nat /\ Counted + Len(buf) <= Len(data[fd])
    BY <1>7, SureFacts
  <2> DEFINE n == offset - MaxLineBytes
             m == MaxLineBytes + discarded + Len(buf)
  <2>2. HasNewline
    <3>1. SUFFICES ASSUME ~HasNewline PROVE FALSE
      OBVIOUS
    <3>2. n \in Nat /\ InLine(data[fd], n, m)
      BY <1>2, <1>7, <3>1, DiscardFacts
    <3>3. m \in Nat \ {0} /\ n + m = Counted + Len(buf)
      BY <1>1, <3>2 DEF Counted
    <3> HIDE DEF n, m
    <3>4. m < Longest /\ n + m # Len(data[fd])
      BY <2>1, <3>2, <3>3, LineEnds
    <3>5. CASE AtEOF
      <4>1. buf = <<>> /\ Counted = Len(data[fd])
        BY <1>7, <3>5, SureAtEOF
      <4>2. Counted + Len(buf) = Counted
        BY <2>1, <4>1
      <4> QED
        BY <3>3, <3>4, <4>1, <4>2
    <3>6. CASE discarded + Len(buf) >= MaxDiscard
      BY <1>1, <3>4, <3>6 DEF m, Longest
    <3> QED
      BY <1>2, <3>1, <3>5, <3>6
  <2>3. Len(Slice) \in 1 .. Len(buf) /\ buf[Len(Slice)].nl
    BY <1>1, <2>2, SliceEnds
  <2>4. Aligned(data[fd], Counted + Len(Slice))
    BY <1>1, <2>1, <2>3, TakesLine
  <2>5. Counted + Len(Slice) = offset'
    BY <1>2 DEF Counted
  <2> QED
    BY <2>4, <2>5
<1> QED
  BY <1>2, <1>3, <1>6, <1>7, LineDone
\* A step that keeps its place in the file.
LEMMA IdleKeepsLines ==
  ASSUME LinesInv, emitted' = emitted, offset' = offset,
         UNCHANGED <<disk, fd, curIno, fdEpoch, readErrors>>,
         \/ pc # "discard" /\ pc' # "discard"
         \/ UNCHANGED <<pc, first, discarded>>
  PROVE  AlignedNow' /\ Discarding' /\ RecordsAreLines'
<1>1. AlignedNow /\ Discarding /\ RecordsAreLines
  BY DEF LinesInv
<1>2. data' = data /\ epoch' = epoch
  BY DEF disk
<1>3. RecordsAreLines'
  BY <1>1, Zenon DEF RecordsAreLines
<1>4. CASE pc # "discard" /\ pc' # "discard"
  BY <1>1, <1>2, <1>3, <1>4 DEF AlignedNow, Discarding
<1>5. CASE UNCHANGED <<pc, first, discarded>>
  BY <1>1, <1>2, <1>3, <1>5 DEF AlignedNow, Discarding
<1> QED
  BY <1>4, <1>5

LEMMA ReadErrorKeepsLines ==
  ASSUME LinesInv, ReadError
  PROVE  AlignedNow' /\ Discarding' /\ RecordsAreLines'
<1>1. /\ FileInv /\ Discarding /\ RecordsAreLines /\ readErrors \in Nat
  BY DEF LinesInv, SkipInv, FileInv, Counters
<1>2. UNCHANGED <<disk, fd, curIno, fdEpoch, emitted>> /\ pc' = "stat"
  BY DEF ReadError, hist
<1>3. CASE fd = NoFile
  <2>1. pc # "discard"
    BY <1>1, <1>3 DEF Discarding
  <2>2. offset' = offset /\ readErrors' = readErrors
    BY <1>3, <2>1 DEF ReadError
  <2>3. pc' # "discard"
    BY <1>2
  <2> QED
    BY <1>2, <2>1, <2>2, <2>3, IdleKeepsLines
<1>4. CASE fd # NoFile
  <2>1. readErrors' # 0
    BY <1>1, <1>4 DEF ReadError
  <2>2. RecordsAreLines'
    BY <1>1, <1>2, Zenon DEF RecordsAreLines
  <2> QED
    BY <1>2, <2>1, <2>2 DEF AlignedNow, Discarding
<1> QED
  BY <1>3, <1>4

\* A file read from its start, or the same file still.
LEMMA RestartKeepsLines ==
  ASSUME LinesInv, StatTruncated \/ Reopen
  PROVE  AlignedNow' /\ Discarding' /\ RecordsAreLines'
<1>1. /\ AlignedNow /\ RecordsAreLines
  BY DEF LinesInv
<1>2. UNCHANGED <<disk, emitted, readErrors>> /\ pc' = "sleep" /\ pc # "discard"
  BY DEF StatTruncated, Reopen, bounds
<1>3. RecordsAreLines' /\ Discarding'
  BY <1>1, <1>2, Zenon DEF RecordsAreLines, Discarding
<1>4. data' = data /\ epoch' = epoch
  BY <1>2 DEF disk
<1>5. CASE offset' = 0
  BY <1>3, <1>5 DEF AlignedNow, Aligned
<1>6. CASE offset' # 0
  <2>1. UNCHANGED <<curIno, offset, fdEpoch>> /\ fd' = NoFile
    BY <1>6 DEF StatTruncated, Reopen
  <2> QED
    BY <1>1, <1>2, <1>3, <1>4, <2>1 DEF AlignedNow
<1> QED
  BY <1>5, <1>6

\* openInitial resumes at the end of a line, or skips to one.
LEMMA OpenInitialKeepsLines ==
  ASSUME LinesInv, OpenInitial
  PROVE  AlignedNow' /\ Discarding' /\ RecordsAreLines'
<1> DEFINE len == Len(data[path])
           start == StartOffset(path, len)
<1>1. /\ path # NoFile /\ fd' = path /\ curIno' = path /\ offset' = start
      /\ pc' = "drain"
      /\ UNCHANGED <<disk, emitted, readErrors>>
      /\ fdEpoch' = (IF Resumes(path, len) THEN saved.epoch ELSE epoch[path])
  BY DEF OpenInitial, bounds
<1>2. /\ WholeFiles /\ AlignedSaved /\ saved.valid /\ RecordsAreLines
      /\ path \in Inodes /\ path # 0
  BY <1>1 DEF LinesInv, SkipInv, CoveredSaved, FileInv, TypeOK, DiskTypeOK, NoFile
<1>3. RecordsAreLines' /\ Discarding'
  BY <1>1, <1>2, Zenon DEF RecordsAreLines, Discarding
<1>4. data' = data /\ epoch' = epoch
  BY <1>1 DEF disk
<1>5. ASSUME readErrors = 0, epoch[path] = fdEpoch'
      PROVE  Aligned(data[path], start)
  <2>1. CASE Resumes(path, len)
    <3>1. saved.inode = path /\ start = saved.offset /\ fdEpoch' = saved.epoch
      BY <1>1, <1>2, <2>1 DEF Resumes, StartOffset
    <3> QED
      BY <1>2, <1>5, <3>1 DEF AlignedSaved
  <2>2. CASE ~Resumes(path, len)
    <3>1. start = 0 \/ start = len
      BY <1>2, <2>2 DEF Resumes, StartOffset
    <3>2. Aligned(data[path], len) /\ Aligned(data[path], 0)
      BY <1>2 DEF WholeFiles, WholeFile, Aligned
    <3> QED
      BY <3>1, <3>2
  <2> QED
    BY <2>1, <2>2
<1> HIDE DEF start
<1>6. AlignedNow'
  BY <1>1, <1>4, <1>5 DEF AlignedNow
<1> QED
  BY <1>3, <1>6

LEMMA SourceKeepsLines ==
  ASSUME LinesInv, Source
  PROVE  AlignedNow' /\ Discarding' /\ RecordsAreLines'
<1>1. CASE OpenInitial
  BY <1>1, OpenInitialKeepsLines
<1>2. CASE LineRead
  BY <1>2, LineReadKeepsLines
<1>3. CASE LineTooLong
  BY <1>3, LineTooLongKeepsLines
<1>4. CASE DiscardMore
  BY <1>4, DiscardMoreKeepsLines
<1>5. CASE DiscardEnd
  BY <1>5, DiscardEndKeepsLines
<1>6. CASE ReadError
  BY <1>6, ReadErrorKeepsLines
<1>7. CASE StatTruncated \/ Reopen
  BY <1>7, RestartKeepsLines
<1>8. CASE Fill \/ DrainEnd \/ StatSame \/ StatRotated \/ SaveTick \/ Poll
  <2>1. /\ emitted' = emitted /\ offset' = offset
        /\ UNCHANGED <<disk, fd, curIno, fdEpoch, readErrors>>
    BY <1>8 DEF Fill, DrainEnd, StatSame, StatRotated, SaveTick, Poll, hist, bounds
  <2>2. \/ pc # "discard" /\ pc' # "discard"
        \/ UNCHANGED <<pc, first, discarded>>
    BY <1>8 DEF Fill, DrainEnd, StatSame, StatRotated, SaveTick, Poll
  <2> QED
    BY <2>1, <2>2, IdleKeepsLines
<1> QED
  BY <1>1, <1>2, <1>3, <1>4, <1>5, <1>6, <1>7, <1>8 DEF Source

\* The saved offset is of the end of a line.
LEMMA SaveKeepsLines ==
  ASSUME LinesInv, UNCHANGED disk, readErrors' = 0 => readErrors = 0,
         \/ saved' = saved
         \/ Save /\ pc \in {"drain", "sleep"}
  PROVE  AlignedSaved'
<1>1. data' = data /\ epoch' = epoch
  BY DEF disk
<1>2. AlignedSaved /\ AlignedNow
  BY DEF LinesInv
<1>3. CASE saved' = saved
  BY <1>1, <1>2, <1>3 DEF AlignedSaved
<1>4. CASE Save /\ pc \in {"drain", "sleep"}
  <2>1. saved'.inode = curIno /\ saved'.offset = offset /\ saved'.epoch = fdEpoch
    BY <1>4 DEF Save
  <2> QED
    BY <1>1, <1>2, <1>4, <2>1 DEF AlignedSaved, AlignedNow
<1> QED
  BY <1>3, <1>4

LEMMA ProcessKeepsLines ==
  ASSUME LinesInv, SkipInv', Source \/ Stop \/ Crash
  PROVE  LinesInv'
<1>1. UNCHANGED disk
  BY DEF Stop, Crash, Source, OpenInitial, Fill, LineRead, LineTooLong, DiscardMore, DiscardEnd,
     DrainEnd, ReadError, StatSame, StatTruncated, StatRotated, Reopen, SaveTick, Poll
<1>2. WholeFiles'
  BY <1>1 DEF LinesInv, WholeFiles, disk
<1>3. readErrors' = 0 => readErrors = 0
  <2>1. readErrors \in Nat
    BY DEF LinesInv, SkipInv, FileInv, Counters
  <2>2. readErrors' \in {readErrors, readErrors + 1}
    <3>1. CASE ReadError
      BY <3>1 DEF ReadError
    <3>2. CASE ~ReadError
      BY <3>2 DEF Stop, Crash, Source, OpenInitial, Fill, LineRead, LineTooLong, DiscardMore,
         DiscardEnd, DrainEnd, StatSame, StatTruncated, StatRotated, Reopen, SaveTick, Poll, bounds
    <3> QED
      BY <3>1, <3>2
  <2> QED
    BY <2>1, <2>2
<1>4. \/ saved' = saved
      \/ Save /\ pc \in {"drain", "sleep"}
  BY DEF Stop, Crash, Source, OpenInitial, Fill, LineRead, LineTooLong, DiscardMore, DiscardEnd,
     DrainEnd, ReadError, StatSame, StatTruncated, StatRotated, Reopen, SaveTick, Poll
<1>5. AlignedSaved'
  BY <1>1, <1>3, <1>4, SaveKeepsLines
<1>6. AlignedNow' /\ Discarding' /\ RecordsAreLines'
  <2>1. CASE Source
    BY <2>1, SourceKeepsLines
  <2>2. CASE Stop \/ Crash
    <3>1. fd' = NoFile /\ curIno' = 0 /\ pc' = "down" /\ emitted' = <<>>
      BY <2>2 DEF Stop, Crash, Exit
    <3>2. RecordsAreLines'
      BY <3>1 DEF RecordsAreLines
    <3> QED
      BY <3>1, <3>2 DEF AlignedNow, Discarding
  <2> QED
    BY <2>1, <2>2
<1> QED
  BY <1>2, <1>5, <1>6 DEF LinesInv
\* The content an epoch stands for only grows.
Grows(e) ==
    \A j \in Inodes : epoch'[j] = e =>
        /\ epoch[j] = e
        /\ data'[j] \in Seq(Byte) /\ Len(data[j]) <= Len(data'[j])
        /\ \A k \in 1 .. Len(data[j]) : data'[j][k] = data[j][k]

LEMMA GrowingKeepsLines ==
  ASSUME LinesInv, UNCHANGED <<saved, proc, hist, readErrors>>,
         Grows(fdEpoch), Grows(saved.epoch)
  PROVE  AlignedNow' /\ Discarding' /\ AlignedSaved' /\ RecordsAreLines'
<1>1. UNCHANGED <<pc, fd, curIno, offset, first, discarded, emitted, fdEpoch>>
  BY DEF proc, hist
<1>2. /\ fd # NoFile => fd \in Inodes
      /\ curIno # 0 => curIno \in Inodes
      /\ saved.inode # 0 => saved.inode \in Inodes
      /\ saved.offset \in Nat /\ offset \in Nat /\ discarded \in Nat /\ MaxLineBytes \in Nat
      /\ \A j \in Inodes : data[j] \in Seq(Byte)
  BY FileConstants DEF LinesInv, SkipInv, FileInv, TypeOK, ReaderTypeOK, BufferTypeOK,
     SavedTypeOK, DiskTypeOK
<1>3. ASSUME NEW e, Grows(e), NEW j \in Inodes, epoch'[j] = e
      PROVE  /\ epoch[j] = e
             /\ \A n \in Nat : Aligned(data[j], n) => Aligned(data'[j], n)
             /\ \A n \in Nat : \A m \in Nat : InLine(data[j], n, m) => InLine(data'[j], n, m)
  BY <1>2, <1>3, LinesGrow DEF Grows
<1>4. AlignedNow'
  BY <1>1, <1>2, <1>3 DEF LinesInv, AlignedNow
<1>5. AlignedSaved'
  BY <1>2, <1>3 DEF LinesInv, AlignedSaved
<1>6. Discarding'
  <2>1. SUFFICES ASSUME pc = "discard" PROVE Discarding'
    BY <1>1 DEF Discarding
  <2>2. /\ fd # NoFile /\ fd \in Inodes /\ Len(first) = MaxLineBytes
        /\ readErrors = 0 /\ epoch[fd] = fdEpoch =>
            /\ first[1].at = 1 /\ ~first[MaxLineBytes].nl
            /\ offset >= MaxLineBytes
            /\ InLine(data[fd], offset - MaxLineBytes, MaxLineBytes + discarded)
    BY <1>2, <2>1 DEF LinesInv, Discarding
  <2>3. ASSUME readErrors = 0, epoch'[fd] = fdEpoch
        PROVE  /\ first[1].at = 1 /\ ~first[MaxLineBytes].nl
               /\ offset >= MaxLineBytes
               /\ InLine(data'[fd], offset - MaxLineBytes, MaxLineBytes + discarded)
    <3>1. epoch[fd] = fdEpoch
      BY <1>3, <2>2, <2>3
    <3>2. offset - MaxLineBytes \in Nat /\ MaxLineBytes + discarded \in Nat
      BY <1>2, <2>2, <2>3, <3>1
    <3> QED
      BY <1>3, <2>2, <2>3, <3>1, <3>2
  <2> QED
    BY <1>1, <2>2, <2>3 DEF Discarding
<1>7. RecordsAreLines'
  BY <1>1, Zenon DEF LinesInv, RecordsAreLines
<1> QED
  BY <1>4, <1>5, <1>6, <1>7

\* A new content has an epoch that nobody knows yet.
LEMMA NewContentGrows ==
  ASSUME SkipInv, NEW i \in Inodes, NEW e \in Nat,
         data' = [data EXCEPT ![i] = <<>>], epoch' = [epoch EXCEPT ![i] = e],
         e > fdEpoch, e > saved.epoch
  PROVE  Grows(fdEpoch) /\ Grows(saved.epoch)
<1>1. /\ epoch \in [Inodes -> Nat] /\ data \in [Inodes -> Seq(Byte)]
      /\ fdEpoch \in Nat /\ saved.epoch \in Nat
  BY DEF SkipInv, FileInv, TypeOK, DiskTypeOK, ReaderTypeOK, SavedTypeOK
<1>2. ASSUME NEW j \in Inodes, j # i
      PROVE  /\ epoch'[j] = epoch[j] /\ data'[j] = data[j] /\ data[j] \in Seq(Byte)
             /\ Len(data[j]) <= Len(data[j])
  BY <1>1, <1>2
<1>3. epoch'[i] # fdEpoch /\ epoch'[i] # saved.epoch
  BY <1>1
<1> QED
  BY <1>2, <1>3 DEF Grows

LEMMA EnvironmentKeepsLines ==
  ASSUME LinesFit, LinesInv, SkipInv', Environment
  PROVE  LinesInv'
<1>1. /\ SkipInv /\ FileInv /\ TypeOK /\ WriterMidLine /\ WholeFiles /\ Epochs
  BY DEF LinesInv, SkipInv, FileInv
<1>2. UNCHANGED <<saved, proc, hist, readErrors>>
  BY DEF Environment, WriteLine, WriteRest, Rename, Create, WriterReopen, Truncate, bounds
<1>3. /\ data \in [Inodes -> Seq(Byte)] /\ wfd \in Inodes /\ line \in Nat /\ left = 0
      /\ \A j \in Inodes : WholeFile(data[j]) /\ data[j] \in Seq(Byte)
      /\ saved.epoch \in Nat /\ fdEpoch \in Nat
      /\ rotations \in Nat /\ truncations \in Nat
      /\ path # NoFile => path \in Inodes
      /\ \A j \in Inodes : Len(data[j]) <= Len(data[j])
  BY <1>1 DEF TypeOK, DiskTypeOK, SavedTypeOK, ReaderTypeOK, WholeFiles, FileInv, Counters
<1>4. WholeFiles' /\ Grows(fdEpoch) /\ Grows(saved.epoch)
  <2>1. CASE WriteLine
    <3>1. PICK len \in LineLengths : \E n \in 1 .. len :
              /\ WholeLines => n = len
              /\ data' = [data EXCEPT ![wfd] = @ \o Bytes(line + 1, len, 1, n)]
              /\ left' = len - n
      BY <2>1 DEF WriteLine
    <3>2. len \in Nat \ {0} /\ len <= Longest /\ len - len = 0 /\ line + 1 \in Nat
      BY <1>3, FileConstants DEF LinesFit
    <3>3. data' = [data EXCEPT ![wfd] = @ \o Bytes(line + 1, len, 1, len)] /\ left' = len - len
      BY <3>1 DEF LinesFit
    <3> DEFINE new == Bytes(line + 1, len, 1, len)
    <3>4. ASSUME NEW j \in Inodes PROVE data'[j] = IF j = wfd THEN data[wfd] \o new ELSE data[j]
      BY <1>3, <3>3
    <3>5. WholeFile(data[wfd] \o new)
      BY <1>3, <3>2, WriteWhole
    <3> HIDE DEF new
    <3>6. WholeFiles'
      BY <1>3, <3>2, <3>3, <3>4, <3>5 DEF WholeFiles
    <3>7. epoch' = epoch
      BY <2>1 DEF WriteLine
    <3>8. /\ data' \in [Inodes -> Seq(Byte)]
          /\ \A i \in Inodes : Len(data[i]) <= Len(data'[i])
          /\ \A i \in Inodes : \A k \in 1 .. Len(data[i]) : data'[i][k] = data[i][k]
      BY <1>1, <2>1, WriteGrows
    <3>9. ASSUME NEW e PROVE Grows(e)
      BY <3>7, <3>8 DEF Grows
    <3> QED
      BY <3>6, <3>9
  <2>2. CASE WriteRest
    BY <1>3, <2>2 DEF WriteRest
  <2>3. CASE Rename \/ WriterReopen
    <3>1. UNCHANGED <<data, epoch, left>>
      BY <2>3 DEF Rename, WriterReopen
    <3>2. ASSUME NEW e PROVE Grows(e)
      BY <1>3, <3>1 DEF Grows
    <3> QED
      BY <1>1, <3>1, <3>2 DEF WholeFiles
  <2>4. CASE Create \/ Truncate
    <3>1. \E i \in Inodes : \E e \in Nat :
              /\ data' = [data EXCEPT ![i] = <<>>] /\ epoch' = [epoch EXCEPT ![i] = e]
              /\ e > fdEpoch /\ e > saved.epoch
      <4>1. CASE Create
        <5>1. PICK i \in Inodes :
                  /\ data' = [data EXCEPT ![i] = <<>>]
                  /\ epoch' = [epoch EXCEPT ![i] = 1 + rotations + truncations]
          BY <4>1 DEF Create
        <5>2. /\ 1 + rotations + truncations \in Nat
              /\ 1 + rotations + truncations > fdEpoch
              /\ 1 + rotations + truncations > saved.epoch
          BY <1>1, <1>3, <4>1 DEF Create, Epochs
        <5> QED
          BY <5>1, <5>2
      <4>2. CASE Truncate
        <5>1. /\ path \in Inodes
              /\ data' = [data EXCEPT ![path] = <<>>]
              /\ epoch' = [epoch EXCEPT ![path] = 2 + rotations + truncations]
          BY <1>3, <4>2 DEF Truncate
        <5>2. /\ 2 + rotations + truncations \in Nat
              /\ 2 + rotations + truncations > fdEpoch
              /\ 2 + rotations + truncations > saved.epoch
          BY <1>1, <1>3 DEF Epochs
        <5> QED
          BY <5>1, <5>2
      <4> QED
        BY <2>4, <4>1, <4>2
    <3>2. PICK i \in Inodes, e \in Nat :
              /\ data' = [data EXCEPT ![i] = <<>>] /\ epoch' = [epoch EXCEPT ![i] = e]
              /\ e > fdEpoch /\ e > saved.epoch
      BY <3>1
    <3>3. Grows(fdEpoch) /\ Grows(saved.epoch)
      BY <1>1, <3>2, NewContentGrows
    <3>4. left' = left
      BY <2>4 DEF Create, Truncate
    <3>5. \A j \in Inodes : data'[j] = IF j = i THEN <<>> ELSE data[j]
      BY <1>3, <3>2
    <3>6. WholeFiles'
      BY <1>3, <3>4, <3>5, EmptyWhole DEF WholeFiles
    <3> QED
      BY <3>3, <3>6
  <2> QED
    BY <2>1, <2>2, <2>3, <2>4 DEF Environment
<1>5. AlignedNow' /\ Discarding' /\ AlignedSaved' /\ RecordsAreLines'
  BY <1>2, <1>4, GrowingKeepsLines
<1> QED
  BY <1>4, <1>5 DEF LinesInv

LEMMA LinesInvInit == Init => LinesInv
<1> SUFFICES ASSUME Init PROVE LinesInv
  OBVIOUS
<1>1. SkipInv
  BY SkipInvInit
<1>2. WholeFiles
  <2>1. left = 0 /\ \A i \in Inodes : data[i] = <<>>
    BY DEF Init
  <2> QED
    BY <2>1, EmptyWhole DEF WholeFiles
<1>3. AlignedNow /\ Discarding /\ AlignedSaved /\ RecordsAreLines
  BY DEF Init, AlignedNow, Discarding, AlignedSaved, RecordsAreLines, NoFile, NoOffset
<1> QED
  BY <1>1, <1>2, <1>3 DEF LinesInv

LEMMA LinesInvNext ==
  ASSUME LinesFit, LinesInv, [Next]_vars
  PROVE  LinesInv'
<1>1. SkipInv'
  BY SkipInvNext DEF LinesInv
<1>2. CASE UNCHANGED vars
  <2>1. UNCHANGED <<disk, saved, proc, hist, bounds>>
    BY <1>2 DEF vars
  <2>2. RecordsAreLines'
    BY <2>1, Zenon DEF proc, LinesInv, RecordsAreLines
  <2> QED
    BY <1>1, <2>1, <2>2 DEF LinesInv, WholeFiles, AlignedNow, Discarding, AlignedSaved,
       disk, proc, hist, bounds
<1> QED
  BY <1>1, <1>2, ProcessKeepsLines, EnvironmentKeepsLines DEF Next

\* Every record handed to the parser is one line of the file, or the capped
\* first part of a line that is too long: readLine, discardThroughNewline, the
\* saved offset and the reopening of the file always come back to where a line
\* starts, through rotations, truncations, stops and crashes.  This needs a
\* writer that writes whole lines, none longer than what readLine keeps and
\* skips of one.
THEOREM FileRecordsAreLines ==
  ASSUME LinesFit
  PROVE  Spec => []RecordsAreLines
<1>1. Init => LinesInv
  BY LinesInvInit
<1>2. LinesInv /\ [Next]_vars => LinesInv'
  BY LinesInvNext
<1>3. LinesInv => RecordsAreLines
  BY DEF LinesInv
<1> QED
  BY <1>1, <1>2, <1>3, PTL DEF Spec
=============================================================================
