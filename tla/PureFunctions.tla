---------------------------- MODULE PureFunctions ----------------------------
(***************************************************************************)
(* The pure functions of the parsers and of the configuration, called once *)
(* for every input of a bounded set and compared with a definition of what *)
(* they are for: the grammars in the comments of the code, or what the     *)
(* code behind them relies on.                                             *)
(***************************************************************************)
EXTENDS Parsers, Config

CONSTANTS
    PriLen,   \* bounds: lengths of the lines that are enumerated
    SDLen,
    TagLen,
    BSDLen,
    TailLen,  \* what follows the header of an RFC 5424 line
    RecLen,   \* lines of a journal record
    PathLen   \* length of a path

VARIABLES
    fn,      \* the function that is called
    input,
    result,
    called

vars == <<fn, input, result, called>>

-----------------------------------------------------------------------------
(* Inputs *)

PriTokens == {"<", ">", "0", "1", "9", "x"}
SDTokens == {"[", "]", "\"", "\\", "a"}
TagTokens == {"a", "1", "-", "[", "]", ":", " "}
BSDTokens == {"TIME", " ", "a", ":", "\n"}
TailTokens == {"[", "]", "-", " ", "a", "BOM", "\n"}

\* The six fields before STRUCTURED-DATA; "\t" is not printable.
Headers ==
    {<<>>, <<"1">>, <<"x">>, <<"1", "1", "1", "1">>} \X {<<>>, <<"-">>, <<"a">>, <<"TIME">>}
    \X {<<>>, <<"-">>, <<"a">>, <<"\t">>} \X {<<"-">>, <<"a">>}
    \X {<<>>, <<"a">>, <<"-">>, <<"1", "9">>, <<"-", "5">>, <<"9", "9", "9", "9">>} \X {<<>>, <<"-">>}

Joined(fields) == FoldLeft(LAMBDA line, f : line \o f \o <<" ">>, <<"<", "1", "9", ">">>, fields)

\* Every header with little after it, and much after a good one.
Lines5424 ==
    {[fields |-> h, tail |-> t] : h \in Headers, t \in BoundedSeq(TailTokens, 1)}
    \cup {[fields |-> <<<<"1">>, <<"TIME">>, <<"a">>, <<"-">>, <<"1", "9">>, <<"-">>>>, tail |-> t] :
            t \in BoundedSeq(TailTokens, TailLen)}

\* A line that breaks off after some of its fields.
Cut5424 == {[fields |-> SubSeq(h, 1, n), tail |-> <<>>] : h \in Headers, n \in 0 .. 5}

LineOf(r) ==
    IF Len(r.fields) = 6 THEN Joined(r.fields) \o r.tail ELSE Front(Joined(r.fields))

JournalKeys == {"", "MESSAGE", "PRIORITY", "_PID", "SYSLOG_IDENTIFIER", "_COMM", "UNIT"}
JournalLines == [key : JournalKeys, val : {"", "x", "3", "9"}]

KernelRecords ==
    [parts : {0, 3, 4, 5}, pri : {-2, -1, 0, 13, 191, 192}, time : -2 .. maxUnits + 3,
     iso : BOOLEAN, booted : BOOLEAN]

\* Of "l" and "." every name and every dot segment can be written.
PathTokens == {"/", ".", "l"}
Prefixes1 ==
    {<<"/">>, <<"/", "l">>, <<"/", "l", "/">>, <<"/", "l", "/", "l">>, <<"/", "l", "/", ".", ".">>,
     <<"/", ".", "l">>, <<"l">>, <<>>}

Path(names) == FoldLeft(LAMBDA p, n : p \o <<"/", n>>, <<>>, names)

\* A configuration that is accepted, and its surroundings.
Good ==
    [deviceID |-> <<"a">>, tenant |-> <<"b">>, logLevel |-> "",
     stateDir |-> Path(<<"var", "lib", "blackboxd">>),
     prefixes |-> {}, toml |-> TRUE, unknown |-> {},
     parsers |-> <<[type |-> "journald", options |-> TRUE], [type |-> "syslog_bsd", options |-> TRUE]>>,
     sources |-> {[name |-> "s", type |-> "journal", parser |-> 1,
                   path |-> Path(<<"var", "log", "journal">>), minPriority |-> 4]},
     broker |-> [scheme |-> "tls", wellFormed |-> TRUE],
     cert |-> Path(<<"etc", "cert">>), key |-> Path(<<"etc", "key">>), ca |-> Path(<<"etc", "ca">>),
     pin |-> NoPin, qosLogs |-> 0, qosHeartbeat |-> 0]

GoodDisk ==
    [config |-> [type |-> "file", mode |-> \o644, mine |-> FALSE],
     stateDir |-> [type |-> "dir", mode |-> \o700, mine |-> TRUE],
     key |-> [type |-> "file", mode |-> \o600, mine |-> TRUE],
     cert |-> [type |-> "link", mode |-> \o644, mine |-> FALSE],
     ca |-> [type |-> "file", mode |-> \o644, mine |-> FALSE],
     caPEM |-> TRUE, pairPEM |-> TRUE]

Up == <<"/", ".", ".">>

ASource == CHOOSE s \in Good.sources : TRUE

\* What may be different in each field.
Variant ==
    [deviceID |-> {<<>>, <<"a", "/", "b">>, <<"b">>, [i \in 1 .. 64 |-> "a"], [i \in 1 .. 65 |-> "a"]},
     tenant |-> {<<>>, <<"b", "/", "a">>, <<"b", "a">>},
     logLevel |-> {"debug", "loud"},
     stateDir |-> {NoPath, Path(<<"var", "lib">>),
                   Path(<<"var", "log">>) \o Up \o Path(<<"lib", "blackboxd", "x">>)},
     prefixes |-> {{<<"/">>}, {Path(<<"var">>)}, {Path(<<"opt">>), Path(<<"var", "log">>)}},
     toml |-> {FALSE},
     unknown |-> {{<<"bufer">>}, {<<"parsers", "a", "strict">>}, {<<"parsers">>}},
     parsers |-> {<<>>, <<[type |-> "", options |-> TRUE]>>, <<[type |-> "json", options |-> TRUE]>>,
                  <<[type |-> "kmsg", options |-> FALSE]>>},
     sources |-> {{}, {[ASource EXCEPT !.parser = 3]}, {[ASource EXCEPT !.type = "dmesg"]},
                  {[ASource EXCEPT !.type = "kmsg", !.path = NoPath]}, {[ASource EXCEPT !.path = NoPath]},
                  {ASource, [ASource EXCEPT !.type = "", !.path = Path(<<"etc">>)],
                   [ASource EXCEPT !.type = "file", !.path = Path(<<"var", "log">>) \o Up \o Path(<<"etc">>)]},
                  {[ASource EXCEPT !.minPriority = 8]}, {[ASource EXCEPT !.name = ""]}},
     broker |-> [scheme : {"", "tcp", "TLS", "ssl", "mqtts"}, wellFormed : BOOLEAN],
     cert |-> {NoPath, <<"cert">>},
     key |-> {NoPath}, ca |-> {NoPath, Up \o Path(<<"ca">>)},
     pin |-> {[nibbles |-> n, hex |-> h, set |-> TRUE] : n \in {0, 63, 64}, h \in BOOLEAN},
     qosLogs |-> {1, 3}, qosHeartbeat |-> {2, 3}]

Infos ==
    [type : {"none", "file", "dir", "link"}, mode : {\o600, \o640, \o622, \o664, \o700}, mine : BOOLEAN]

\* Up to two deviations in the file, or one on disk or in the arguments.
LoadInputs ==
    UNION {{[args |-> 1, c |-> [Good EXCEPT ![f] = v, ![g] = w], disk |-> GoodDisk] :
                v \in Variant[f], w \in Variant[g]} : f, g \in DOMAIN Variant}
    \cup {[args |-> 1, c |-> Good, disk |-> [GoodDisk EXCEPT ![f] = i]] :
            f \in {"config", "stateDir", "key", "cert", "ca"}, i \in Infos}
    \cup {[args |-> 1, c |-> Good, disk |-> [GoodDisk EXCEPT ![f] = FALSE]] : f \in {"caPEM", "pairPEM"}}
    \cup {[args |-> n, c |-> Good, disk |-> GoodDisk] : n \in {0, 2}}

-----------------------------------------------------------------------------
Init ==
    /\ \/ fn = "priority" /\ input \in BoundedSeq(PriTokens, PriLen)
       \/ fn = "sd" /\ input \in BoundedSeq(SDTokens, SDLen)
       \/ fn = "rfc5424" /\ input \in Lines5424 \cup Cut5424
       \/ fn = "tag" /\ input \in BoundedSeq(TagTokens, TagLen)
       \/ fn = "bsd" /\ input \in BoundedSeq(BSDTokens, BSDLen)
       \/ fn = "journald" /\ input \in BoundedSeq(JournalLines, RecLen)
       \/ fn \in {"kmsg", "dmesg"} /\ input \in KernelRecords
       \/ fn = "path" /\ \E p \in BoundedSeq(PathTokens, PathLen), a \in Prefixes1 :
                            input = [path |-> p, allow |-> {a}]
       \/ fn = "load" /\ input \in LoadInputs
    /\ result = <<>>
    /\ called = FALSE

Call(f, r) ==
    /\ fn = f
    /\ ~called
    /\ called' = TRUE
    /\ result' = r
    /\ UNCHANGED <<fn, input>>

Next ==
    \/ Call("priority", parsePriorityField(input))
    \/ Call("sd", readStructuredData(input))
    \/ Call("rfc5424", ParseRFC5424(LineOf(input)))
    \/ Call("tag", splitTagAndMessage(input))
    \/ Call("bsd", ParseBSD(<<"<", "1", "9", ">">> \o input))
    \/ Call("journald", ParseJournald(input))
    \/ Call("kmsg", ParseKMsg(input))
    \/ Call("dmesg", ParseDmesg(input))
    \/ Call("path", ValidatePath(input.path, input.allow))
    \/ Call("load", [full |-> runValidate(input.args, input.c, input.disk, FALSE),
                     schema |-> runValidate(input.args, input.c, input.disk, TRUE)])

Spec == Init /\ [][Next]_vars

-----------------------------------------------------------------------------
(* What the functions are for *)

Returned(f) == called /\ fn = f

\* The sequences of at most n tokens that are made of members of L.
Star(L, n) ==
    LET of[k \in 0 .. n] ==
            IF k = 0 THEN {<<>>}
            ELSE UNION {{x \o y : x \in {w \in L : Len(w) = i}, y \in of[k - i]} : i \in 1 .. k}
    IN  UNION {of[k] : k \in 0 .. n}

Between(a, L, b) == {<<a>> \o x \o <<b>> : x \in L}
One(S) == {<<c>> : c \in S}

\* "PRI is 1-3 ASCII digits between angle brackets", up to 191.  What it says
\* survives the way through Level and its JSON name: the level a receiver
\* reads is the priority modulo 8.
PriorityExact ==
    Returned("priority") =>
        LET digits == {k \in 1 .. 3 : /\ Len(input) >= k + 2
                                      /\ input[1] = "<" /\ input[k + 2] = ">"
                                      /\ \A i \in 2 .. k + 1 : input[i] \in {"0", "1", "9"}}
            n == Decimal(SubSeq(input, 2, Max(digits) + 1))
        IN  IF digits # {} /\ n <= 191
            THEN /\ result.err = "nil"
                 /\ result.rest = From(input, Max(digits) + 3)
                 /\ UnmarshalLevel(LevelString(severityToLevel(result.severity))) = n % 8
                 /\ result.facility = n \div 8
            ELSE result.err # "nil"

\* STRUCTURED-DATA of RFC 5424 with the inside of an element left open: no
\* bracket ends it between quotes or after a backslash.
SDChars == SDTokens \cup TailTokens
Escapes == {<<"\\", c>> : c \in SDChars}
Quoted == Between("\"", Star(One(SDChars \ {"\"", "\\"}) \cup Escapes, SDLen - 4), "\"")
Elements == Between("[", Star(One(SDChars \ {"]", "\"", "\\"}) \cup Escapes \cup Quoted, SDLen - 2), "]")
StructuredData == {<<"-">>} \cup (Star(Elements, SDLen) \ {<<>>})

\* Where the structured data at the start of s ends, 0 if there is none or a
\* further element is left open.
SDEnd(s) ==
    LET ends == {k \in 1 .. Len(s) : SubSeq(s, 1, k) \in StructuredData}
    IN  IF ends = {} \/ (s[1] = "[" /\ StartsWith(From(s, Max(ends) + 1), "[")) THEN 0 ELSE Max(ends)

\* readStructuredData takes all elements and nothing else, whatever brackets,
\* quotes and backslashes they are made of, and refuses one that is left open.
StructuredDataExact ==
    Returned("sd") =>
        IF SDEnd(input) = 0 THEN result.err # "nil"
        ELSE result = [err |-> "nil", sd |-> SubSeq(input, 1, SDEnd(input)),
                       rest |-> From(input, SDEnd(input) + 1)]

\* The grammar at the head of syslog_rfc5424.go.
InGrammar(f, tail) ==
    /\ Len(f) = 6
    /\ Len(f[1]) \in 1 .. 3 /\ Range(f[1]) \subseteq {"1"}
    /\ f[2] \in {<<"-">>, <<"TIME">>}
    /\ \A i \in 3 .. 6 : f[i] # <<>> /\ "\t" \notin Range(f[i])
    /\ \/ tail \in StructuredData
       \/ \E k \in DOMAIN tail : tail[k] = " " /\ SubSeq(tail, 1, k - 1) \in StructuredData

\* What the parser forgives: any word for a VERSION, characters that are not
\* printable, and a message that follows STRUCTURED-DATA without a space.
Mended(f, tail) ==
    LET end == SDEnd(tail)
    IN  <<[i \in DOMAIN f |-> CASE i = 1 /\ f[1] # <<>> -> <<"1">>
                                [] f[i] = <<"\t">> -> <<"a">>
                                [] OTHER -> f[i]],
          IF end = 0 \/ end = Len(tail) \/ tail[end + 1] = " " THEN tail
          ELSE SubSeq(tail, 1, end) \o <<" ">> \o From(tail, end + 1)>>

\* Every line of the grammar is accepted; what else is accepted is one of its
\* lines once those three liberties are mended, and nothing more.  Every field
\* of an accepted line is where it belongs, the message is what follows, less
\* one space and one BOM, and the pid is the number PROCID is, if any.
RFC5424Exact ==
    Returned("rfc5424") =>
        LET f == input.fields
            tail == trimTrailingNewline(input.tail)
            after == From(tail, SDEnd(tail) + 1)
        IN  /\ InGrammar(f, tail) => result.err = "nil"
            /\ result.err = "nil" <=> InGrammar(Mended(f, tail)[1], Mended(f, tail)[2])
            /\ result.err = "nil" =>
                /\ result.timed = (f[2] = <<"TIME">>)
                /\ <<result.hostname, result.process>> = <<nilIfDash(f[3]), nilIfDash(f[4])>>
                /\ result.pid = CASE f[5] = <<"1", "9">> -> 19 [] f[5] = <<"-", "5">> -> -5 [] OTHER -> 0
                /\ \E space \in {<<>>, <<" ">>}, bom \in {<<>>, <<"BOM">>} :
                    /\ after = space \o bom \o result.message
                    /\ space = <<>> => ~StartsWith(after, " ")
                    /\ bom = <<>> => ~StartsWith(result.message, "BOM")

\* A pair of brackets with what it holds.
Brackets == Between("[", Star(One(TagTokens \ {"]"}), TagLen - 2), "]")

\* "TAG[PID]: MESSAGE": the tag ends at the first bracket, colon or space;
\* between it and the message nothing is dropped but one pair of brackets that
\* is closed, a colon and spaces, and all of these are; the pid is the number
\* in the brackets, and 0 for none or a negative one.
TagExact ==
    Returned("tag") =>
        \E bracket \in {<<>>} \cup Brackets, colon \in {<<>>, <<":">>}, n \in 0 .. TagLen :
            LET left == [i \in 1 .. n |-> " "] \o result.message
                digits == SubSeq(bracket, 2, Len(bracket) - 1)
            IN  /\ input = result.tag \o bracket \o colon \o left
                /\ Range(result.tag) \cap {"[", ":", " "} = {}
                /\ bracket = <<>> => ~(StartsWith(colon \o left, "[") /\ "]" \in Range(left))
                /\ colon = <<>> => ~StartsWith(left, ":")
                /\ ~StartsWith(result.message, " ")
                /\ result.pid = IF digits # <<>> /\ Range(digits) = {"1"}
                                THEN <<1, 11, 111>>[Len(digits)] ELSE 0

\* A BSD line is accepted just when a timestamp, a space, a host name and a
\* space follow the priority; the host is the whole word.
BSDExact ==
    Returned("bsd") =>
        LET body == trimTrailingNewline(input)
            hosts == {k \in 1 .. Len(body) - 3 : /\ body[1] = "TIME" /\ body[2] = " " /\ body[k + 3] = " "
                                                 /\ \A i \in 3 .. k + 2 : body[i] # " "}
        IN  IF hosts = {} THEN result.err # "nil"
            ELSE /\ result.err = "nil"
                 /\ result.hostname = SubSeq(body, 3, Max(hosts) + 2)
                 /\ <<result.level, result.facility>> = <<3, 2>>

\* A kernel timestamp is refused just when it does not fit a time.Duration;
\* one that is accepted is not changed by the conversion to nanoseconds.
KernelTimesFit ==
    \/ Returned("kmsg") /\ input.parts >= 4 /\ input.pri \in 0 .. 191
    \/ Returned("dmesg") /\ input.parts # 0 /\ ~input.iso
    =>      IF input.time >= 0 /\ input.time * NsPerUnit <= MaxInt
            THEN result.err = "nil" /\ (input.booted => result.time = input.time * NsPerUnit)
            ELSE result.err # "nil"

\* Every text parser takes the lines of the grammar it is for, and of others
\* only those that are named here; what it returns is what the line says.
ParsersExact ==
    /\ PriorityExact
    /\ StructuredDataExact
    /\ RFC5424Exact
    /\ TagExact
    /\ BSDExact
    /\ KernelTimesFit

\* journalctl promises no order of the fields: a record whose fields have
\* different names and values that are not empty gives the same entry in any
\* order, and the process is SYSLOG_IDENTIFIER or, without one, _COMM.
JournaldOrderFree ==
    /\ Returned("journald")
    /\ \A i, j \in DOMAIN input : i # j => input[i].key # input[j].key
    /\ \A i \in DOMAIN input : input[i].val # ""
    => /\ \A p \in Permutations(DOMAIN input) :
            ParseJournald([i \in DOMAIN input |-> input[p[i]]]) = result
       /\ LET named(k) == {input[i].val : i \in {x \in DOMAIN input : input[x].key = k}}
          IN  result.err = "nil" =>
                {result.process} = CASE named("SYSLOG_IDENTIFIER") # {} -> named("SYSLOG_IDENTIFIER")
                                     [] named("_COMM") # {} -> named("_COMM")
                                     [] OTHER -> {""}

\* The names that lead from the root to the file an absolute path is for: those
\* that no ".." takes back.  From such a name on there are at every point more
\* names than "..".
NamesIn(p) ==
    LET segs == Split(p)
        up == {i \in DOMAIN segs : segs[i] = <<".", ".">>}
        names == DOMAIN segs \ (up \cup {i \in DOMAIN segs : segs[i] \in {<<>>, <<".">>}})
        stay == {i \in names : \A j \in i .. Len(segs) :
                    Cardinality(names \cap (i .. j)) > Cardinality(up \cap (i .. j))}
    IN  [k \in 1 .. Cardinality(stay) |->
            segs[CHOOSE i \in stay : Cardinality({x \in stay : x <= i}) = k]]

\* A path is accepted just when the file it is for is the one the prefix is
\* for or lies below it, component by component: no ".." leads out, no sibling
\* whose name is longer is let in, no way of writing either makes a difference.
\* The prefix "/" allows itself only, and a relative one nothing.
PathsContained ==
    Returned("path") =>
        LET a == CHOOSE x \in input.allow : TRUE
        IN  result = {} <=> /\ StartsWith(input.path, "/") /\ StartsWith(a, "/")
                            /\ IsPrefix(NamesIn(a), NamesIn(input.path))
                            /\ NamesIn(a) = <<>> => NamesIn(input.path) = <<>>

\* "--skip-fs-checks limits it to schema-only": what validate accepts it also
\* accepts with the flag, and what the flag lets through is a matter of files.
SkipOnlyWidens ==
    Returned("load") =>
        /\ result.full = {0} => result.schema = {0}
        /\ result.schema = {0} /\ result.full # {0} => input.disk # GoodDisk

\* What the validation lets through and no component can be built from: files
\* that are not read or do not hold certificates, the host of the broker's
\* URL, options of parsers, a source without a name, min_priority, and a
\* state_dir that is left out.
Unvalidated(c, disk) ==
    \/ ~disk.caPEM \/ ~disk.pairPEM
    \/ ~c.broker.wellFormed
    \/ \E i \in DOMAIN c.parsers : ~c.parsers[i].options
    \/ \E s \in c.sources : s.name = "" \/ (s.type = "journal" /\ s.minPriority \notin 0 .. 7)
    \/ c.stateDir = NoPath

\* "callers must not continue past a non-nil error", and past a nil one they
\* can: from a configuration that is accepted every component can be built,
\* apart from Unvalidated, each of which is caught by a constructor at last.
AcceptedStarts ==
    Returned("load") /\ result.full = {0} =>
        LET c == applyDefaults(input.c)
        IN  Unvalidated(c, input.disk) <=>
                ~(/\ normalizeBrokerURL(c.broker) = {}
                  /\ NewTopics(c.tenant, c.deviceID) # {}
                  /\ BuildClientTLS(c, input.disk) = {"ok"}
                  /\ NewSpool(c.stateDir) = {}
                  /\ \A i \in DOMAIN c.parsers : Build(c.parsers[i]) = {}
                  /\ \A s \in c.sources : NewSource(s) = {})

\* Two devices never share a topic: the tenant and the device of an accepted
\* configuration can be told from each of its topics.
TopicsApart ==
    Returned("load") /\ result.schema = {0} =>
        \A t \in Variant.tenant \cup {Good.tenant}, d \in Variant.deviceID \cup {Good.deviceID} :
            IDPattern(t) /\ IDPattern(d) /\ <<t, d>> # <<input.c.tenant, input.c.deviceID>> =>
                NewTopics(t, d) \cap NewTopics(input.c.tenant, input.c.deviceID) = {}

\* What load, validate and the constructors promise each other.
ConfigSound ==
    /\ SkipOnlyWidens
    /\ AcceptedStarts
    /\ TopicsApart
=============================================================================
