------------------------------- MODULE Parsers -------------------------------
(***************************************************************************)
(* The parsers of internal/parser as operators.  A line is a sequence of   *)
(* tokens: single characters, and "TIME" for a well-formed timestamp and   *)
(* "BOM" for the UTF-8 byte order mark.  What a parser returns is a record *)
(* with err = "nil", or Fail(e) for an error.                              *)
(***************************************************************************)
EXTENDS Integers, Sequences, SequencesExt, FiniteSetsExt

CONSTANTS
    MaxInt,   \* the largest int64
    NsPerUnit \* nanoseconds in the unit of a record's timestamp

ASSUME ParserAssumption == MaxInt \in Nat /\ NsPerUnit \in Nat \ {0}

Fail(e) == [err |-> e]

\* strings.IndexByte, 0 when there is none; the rest of s from i on.
IndexByte(s, c) == SelectInSeq(s, LAMBDA x : x = c)
From(s, i) == SubSeq(s, i, Len(s))
StartsWith(s, c) == s # <<>> /\ s[1] = c

\* strings.TrimLeft(s, " ")
TrimSpaces(s) ==
    LET at == SelectInSeq(s, LAMBDA x : x # " ")
    IN  IF at = 0 THEN <<>> ELSE From(s, at)

Digits == <<"0", "1", "2", "3", "4", "5", "6", "7", "8", "9">>
IsDigit(c) == \E i \in 1 .. 10 : Digits[i] = c
Decimal(ds) ==
    FoldLeft(LAMBDA n, c : n * 10 + (CHOOSE i \in 0 .. 9 : Digits[i + 1] = c), 0, ds)

AllDigits(s) == s # <<>> /\ \A i \in DOMAIN s : IsDigit(s[i])

\* strconv.Atoi: digits after at most one sign, within the range of an int; the
\* number, as a set that is empty for an error.
Atoi(s) ==
    LET ds == IF StartsWith(s, "-") \/ StartsWith(s, "+") THEN Tail(s) ELSE s
    IN  IF ~AllDigits(ds) THEN {}
        ELSE {IF StartsWith(s, "-") THEN -Decimal(ds) ELSE Decimal(ds)}
                \cap (-(MaxInt + 1) .. MaxInt)

\* A field that keeps its zero value when there is no number for it.
NumberOrZero(ns) == IF ns = {} THEN 0 ELSE Min(ns)

-----------------------------------------------------------------------------
(* syslog_common.go and parser.go *)

maxPriority == 191

\* "<NNN>": the loop looks at four characters after the bracket at most.
parsePriorityField(s) ==
    LET closes == {i \in 2 .. Len(s) : i <= 5 /\ s[i] = ">"}
        ds == SubSeq(s, 2, Min(closes) - 1)
        prio == Decimal(ds)
    IN  IF Len(s) < 3 \/ s[1] # "<" THEN Fail("format")
        ELSE IF closes = {} \/ ~AllDigits(ds) \/ prio > maxPriority THEN Fail("priority")
        ELSE [err |-> "nil", rest |-> From(s, Min(closes) + 1),
              facility |-> prio \div 8, severity |-> prio % 8]

LevelNames == <<"emerg", "alert", "crit", "error", "warn", "notice", "info", "debug">>

\* Levels are 0 .. 7, LevelEmergency first; anything else becomes a warning.
severityToLevel(severity) == IF severity \in 0 .. 7 THEN severity ELSE 4

\* Level.String, the wire form, and UnmarshalJSON, which also takes the
\* numbers and two synonyms; -1 stands for its error.
LevelString(l) == IF l \in 0 .. 7 THEN LevelNames[l + 1] ELSE "unknown"
UnmarshalLevel(w) ==
    CASE w = "err" -> 3
      [] w = "warning" -> 4
      [] \E i \in 1 .. 8 : w = LevelNames[i] \/ w = Digits[i] ->
            CHOOSE l \in 0 .. 7 : w = LevelNames[l + 1] \/ w = Digits[l + 1]
      [] OTHER -> -1

trimTrailingNewline(line) ==
    LET cut == IF line # <<>> /\ Last(line) = "\n" THEN Front(line) ELSE line
    IN  IF cut # <<>> /\ Last(cut) = "\r" THEN Front(cut) ELSE cut

-----------------------------------------------------------------------------
(* syslog_rfc5424.go *)

takeUntilSpace(s) ==
    LET at == IndexByte(s, " ")
    IN  CASE s = <<>> -> Fail("truncated")
          [] at = 1 -> Fail("format")
          [] at = 0 -> [err |-> "nil", rest |-> <<>>, token |-> s]
          [] OTHER -> [err |-> "nil", rest |-> From(s, at + 1), token |-> SubSeq(s, 1, at - 1)]

\* Mutant of elementEnd: a backslash escapes nothing.
elementEndNoEscape(s, i) ==
    LET scan[j \in 1 .. Len(s) + 1, quoted \in BOOLEAN] ==
            IF j > Len(s) THEN 0
            ELSE IF s[j] = "\"" THEN scan[j + 1, ~quoted]
            ELSE IF s[j] = "]" /\ ~quoted THEN j
            ELSE scan[j + 1, quoted]
    IN  scan[i + 1, FALSE]

\* The inner loop of readStructuredData: where the element that begins at i
\* ends, 0 when it does not.  A backslash escapes the next character.
elementEnd(s, i) ==
    LET scan[j \in 1 .. Len(s) + 1, quoted \in BOOLEAN] ==
            IF j > Len(s) THEN 0
            ELSE IF s[j] = "\\" /\ j < Len(s) THEN scan[j + 2, quoted]
            ELSE IF s[j] = "\"" THEN scan[j + 1, ~quoted]
            ELSE IF s[j] = "]" /\ ~quoted THEN j
            ELSE scan[j + 1, quoted]
    IN  scan[i + 1, FALSE]

readStructuredData(s) ==
    LET end[i \in 1 .. Len(s) + 1] ==   \* after the elements from i on, 0 if one is open
            IF i > Len(s) \/ s[i] # "[" THEN i
            ELSE IF elementEnd(s, i) = 0 THEN 0 ELSE end[elementEnd(s, i) + 1]
    IN  CASE s = <<>> -> Fail("truncated")
          [] StartsWith(s, "-") -> [err |-> "nil", rest |-> Tail(s), sd |-> <<"-">>]
          [] StartsWith(s, "[") /\ end[1] # 0 ->
                [err |-> "nil", rest |-> From(s, end[1]), sd |-> SubSeq(s, 1, end[1] - 1)]
          [] OTHER -> Fail("format")

nilIfDash(s) == IF s = <<"-">> THEN <<>> ELSE s

\* VERSION to MSGID; the timestamp, the second one, is parsed on the way.
headerFields(s) ==
    FoldLeft(LAMBDA acc, n :
                IF acc.err # "nil" THEN acc
                ELSE LET t == takeUntilSpace(acc.rest)
                     IN  IF t.err # "nil" THEN t
                         ELSE IF n = 2 /\ t.token \notin {<<"-">>, <<"TIME">>} THEN Fail("format")
                         ELSE [err |-> "nil", rest |-> t.rest, tokens |-> Append(acc.tokens, t.token)],
             [err |-> "nil", rest |-> s, tokens |-> <<>>], <<1, 2, 3, 4, 5, 6>>)

\* Parse; the VERSION is skipped, and a PROCID that is not a number gives 0.
ParseRFC5424(line) ==
    LET pri == parsePriorityField(trimTrailingNewline(line))
        h == headerFields(pri.rest)
        sd == readStructuredData(h.rest)
        spaced == IF StartsWith(sd.rest, " ") THEN Tail(sd.rest) ELSE sd.rest
    IN  IF trimTrailingNewline(line) = <<>> THEN Fail("truncated")
        ELSE IF pri.err # "nil" THEN pri
        ELSE IF h.err # "nil" THEN h
        ELSE IF sd.err # "nil" THEN sd
        ELSE [err |-> "nil",
              timed |-> h.tokens[2] # <<"-">>,
              level |-> severityToLevel(pri.severity),
              facility |-> pri.facility,
              hostname |-> nilIfDash(h.tokens[3]),
              process |-> nilIfDash(h.tokens[4]),
              pid |-> NumberOrZero(Atoi(h.tokens[5])),
              message |-> IF StartsWith(spaced, "BOM") THEN Tail(spaced) ELSE spaced,
              sd |-> nilIfDash(sd.sd)]

-----------------------------------------------------------------------------
(* syslog_bsd.go *)

\* "TAG[PID]: MESSAGE"; the option strict makes no difference.
splitTagAndMessage(s) ==
    LET end == SelectInSeq(s, LAMBDA x : x \in {"[", ":", " "})
        rest == From(s, end)
        close == IF StartsWith(rest, "[") THEN IndexByte(rest, "]") ELSE 0
        pid == Atoi(SubSeq(rest, 2, close - 1)) \cap Nat
        after == From(rest, close + 1)
    IN  IF end = 0 THEN [tag |-> s, pid |-> 0, message |-> <<>>]
        ELSE [tag |-> SubSeq(s, 1, end - 1),
              pid |-> NumberOrZero(pid),
              message |-> TrimSpaces(IF StartsWith(after, ":") THEN Tail(after) ELSE after)]

noHost(rest) == IndexByte(rest, " ") <= 1

\* A timestamp that is not one is cut short or malformed, by its length.
ParseBSD(line) ==
    LET pri == parsePriorityField(trimTrailingNewline(line))
        stamped == StartsWith(pri.rest, "TIME") /\ StartsWith(Tail(pri.rest), " ")
        rest == From(pri.rest, 3)
        hostEnd == IndexByte(rest, " ")
    IN  IF trimTrailingNewline(line) = <<>> THEN Fail("truncated")
        ELSE IF pri.err # "nil" THEN pri
        ELSE IF ~StartsWith(pri.rest, "TIME") THEN Fail("timestamp")
        ELSE IF ~stamped \/ noHost(rest) THEN Fail("format")
        ELSE [err |-> "nil", level |-> severityToLevel(pri.severity), facility |-> pri.facility,
              hostname |-> SubSeq(rest, 1, hostEnd - 1)]
             @@ splitTagAndMessage(From(rest, hostEnd + 1))

-----------------------------------------------------------------------------
(* journald.go: a record is a sequence of lines [key, val]; key is "" for a  *)
(* line without a name before its "="                                        *)

\* Numbers that values may be.
NumberOf(v) == IF v = "3" THEN 3 ELSE IF v = "9" THEN 9 ELSE -1

\* Mutant of assignJournaldField: whichever name of the process comes last.
assignJournaldFieldLast(e, l) ==
    IF l.key \in {"SYSLOG_IDENTIFIER", "_COMM"} THEN [e EXCEPT !.process = l.val]
    ELSE IF l.key = "MESSAGE" THEN [e EXCEPT !.message = l.val] ELSE e

assignJournaldField(e, l) ==
    CASE l.key = "MESSAGE" -> [e EXCEPT !.message = l.val]
      [] l.key = "PRIORITY" ->
            IF NumberOf(l.val) \in 0 .. 7 THEN [e EXCEPT !.level = severityToLevel(NumberOf(l.val))] ELSE e
      [] l.key = "_HOSTNAME" -> [e EXCEPT !.hostname = l.val]
      [] l.key \in {"_PID", "SYSLOG_FACILITY", "__REALTIME_TIMESTAMP"} ->
            IF NumberOf(l.val) # -1 THEN [e EXCEPT !.numbers[l.key] = NumberOf(l.val)] ELSE e
      [] l.key = "SYSLOG_IDENTIFIER" -> [e EXCEPT !.process = l.val]
      [] l.key = "_COMM" -> IF e.process = "" THEN [e EXCEPT !.process = l.val] ELSE e
      [] OTHER -> [e EXCEPT !.fields = {f \in @ : f.key # l.key} \cup {l}]

\* A record without PRIORITY keeps Level's zero value, LevelEmergency.
NoJournalEntry ==
    [err |-> "nil", message |-> "", level |-> 0, hostname |-> "", process |-> "", fields |-> {},
     numbers |-> [k \in {"_PID", "SYSLOG_FACILITY", "__REALTIME_TIMESTAMP"} |-> 0]]

ParseJournald(rec) ==
    LET e == FoldLeft(LAMBDA acc, l : IF l.key = "" THEN acc ELSE assignJournaldField(acc, l),
                      NoJournalEntry, rec)
    IN  IF rec = <<>> THEN Fail("truncated")
        ELSE IF e.message = "" /\ e.fields = {} THEN Fail("format") ELSE e

-----------------------------------------------------------------------------
(* kmsg.go and dmesg.go: the numbers of a record that has been cut at its   *)
(* separators; Unparsed is one that strconv refuses.                         *)

Unparsed == -2

\* maxUsec and maxSecs: what a time.Duration can hold.
maxUnits == MaxInt \div NsPerUnit

\* int64 arithmetic wraps around.
Wrap(n) == ((n + MaxInt + 1) % (2 * (MaxInt + 1))) - (MaxInt + 1)

\* When the record was logged, in nanoseconds after boot; no boot time, no time.
SinceBoot(units, booted) == IF booted THEN Wrap(units * NsPerUnit) ELSE 0

\* r.parts is the number of header fields before the ";", 0 without one.
ParseKMsg(r) ==
    CASE r.parts < 4 -> Fail("format")
      [] r.pri \notin 0 .. maxPriority -> Fail("priority")
      [] r.time < 0 \/ r.time > maxUnits -> Fail("format")
      [] OTHER -> [err |-> "nil", time |-> SinceBoot(r.time, r.booted),
                   level |-> severityToLevel(r.pri % 8), facility |-> r.pri \div 8]

\* r.parts is 0 when a bracket is missing; an ISO time needs no boot time.
ParseDmesg(r) ==
    CASE r.parts = 0 \/ r.time = Unparsed -> Fail("format")
      [] r.iso -> [err |-> "nil", time |-> r.time, level |-> 6]
      [] r.time < 0 \/ r.time > maxUnits -> Fail("format")
      [] OTHER -> [err |-> "nil", time |-> SinceBoot(r.time, r.booted), level |-> 6]
=============================================================================
