-------------------------------- MODULE Config --------------------------------
(***************************************************************************)
(* Loading and validating the configuration (internal/config), the checks  *)
(* it calls (internal/security), and what the constructors that get the    *)
(* accepted values require of them.  A path is text: a sequence of "/",    *)
(* "." and pieces of names.  What a step of the validation can report is a *)
(* set of errors, "insecure" for those that wrap ErrInsecure: a loop over  *)
(* a map stops at any of its violations.                                   *)
(***************************************************************************)
EXTENDS Integers, Sequences, SequencesExt, FiniteSets

Unless(ok, e) == IF ok THEN {} ELSE {e}

\* The first step that reports something decides.
First(steps) ==
    LET n == SelectInSeq(steps, LAMBDA errs : errs # {})
    IN  IF n = 0 THEN {"ok"} ELSE steps[n]

-----------------------------------------------------------------------------
(* paths.go *)

NoPath == <<>>

IsAbs(p) == IsPrefix(<<"/">>, p)

\* strings.Split(p, "/")
Split(p) ==
    FoldLeft(LAMBDA segs, c : IF c = "/" THEN Append(segs, <<>>)
                              ELSE Append(Front(segs), Append(Last(segs), c)),
             <<<<>>>>, p)

\* filepath.Clean; ".." at the root is the root.
Clean(p) ==
    LET dotdot == <<".", ".">>
        segs == FoldLeft(LAMBDA up, s :
                            IF s \in {<<>>, <<".">>} THEN up
                            ELSE IF s # dotdot THEN Append(up, s)
                            ELSE IF up # <<>> /\ Last(up) # dotdot THEN Front(up)
                            ELSE IF IsAbs(p) THEN up ELSE Append(up, s),
                         <<>>, Split(p))
        joined == FoldLeft(LAMBDA text, s : text \o <<"/">> \o s, <<>>, segs)
    IN  CASE segs = <<>> -> IF IsAbs(p) THEN <<"/">> ELSE <<".">>
          [] IsAbs(p) -> joined
          [] OTHER -> Tail(joined)

DefaultAllowedPrefixes ==
    {<<"/", "var", "/", "log">>, <<"/", "var", "/", "log", "/", "journal">>,
     <<"/", "var", "/", "lib", "/", "blackboxd">>, <<"/", "dev", "/", "kmsg">>,
     <<"/", "run", "/", "log", "/", "journal">>}

CanonicalizePath(p) ==
    [err |-> Unless(/\ p # NoPath
                    /\ IsAbs(Clean(p))
                    /\ ~Contains(Split(Clean(p)), <<".", ".">>), "insecure"),
     path |-> Clean(p)]

\* Mutant of CheckUnderAllowlist: the prefix is compared without a separator.
CheckUnderAllowlistSibling(cleaned, prefixes) ==
    Unless(\E raw \in prefixes : IsPrefix(Clean(raw), cleaned), "insecure")

CheckUnderAllowlist(cleaned, prefixes) ==
    Unless(\E raw \in prefixes :
              LET p == Clean(raw)
              IN  cleaned = p \/ IsPrefix(p \o <<"/">>, cleaned),
           "insecure")

ValidatePath(p, prefixes) ==
    First(<<CanonicalizePath(p).err, CheckUnderAllowlist(CanonicalizePath(p).path, prefixes)>>)
        \ {"ok"}

-----------------------------------------------------------------------------
(* modes.go: info is [type, mode, mine], as Lstat reports it; a "link" leads  *)
(* to a regular file.                                                        *)

groupOrWorldWritable(mode) == (mode \div 16) % 2 = 1 \/ (mode \div 2) % 2 = 1

CheckConfigMode(info) == Unless(info.type = "file" /\ ~groupOrWorldWritable(info.mode), "insecure")
CheckKeyMode(info) == Unless(info.type = "file" /\ info.mode = \o600 /\ info.mine, "insecure")
CheckStateDirMode(info) == Unless(info.type = "dir" /\ info.mode = \o700 /\ info.mine, "insecure")

-----------------------------------------------------------------------------
(* pin.go and tls.go *)

NoPin == [nibbles |-> 0, hex |-> TRUE, set |-> FALSE]

\* Separators and case are gone; 64 hexadecimal digits are left.
ParsePin(pin) == Unless(pin.set /\ pin.hex /\ pin.nibbles = 64, "insecure")

\* caPEM and pairPEM: the files can be read and hold certificates, and a key
\* that belongs to the client's.
BuildClientTLS(c, disk) ==
    First(<<Unless(NoPath \notin {c.ca, c.cert, c.key} /\ disk.caPEM /\ disk.pairPEM, "insecure"),
            IF c.pin.set THEN ParsePin(c.pin) ELSE {}>>)

-----------------------------------------------------------------------------
(* load.go and config.go *)

\* A letter stands for every allowed character.
IDPattern(id) == Len(id) \in 1 .. 64 /\ Range(id) \subseteq {"a", "b"}

RegisteredNames == {"syslog_bsd", "syslog_rfc5424", "journald", "kmsg", "dmesg"}

allowlist(c) == IF c.prefixes = {} THEN DefaultAllowedPrefixes ELSE c.prefixes

validLogLevel(s) == s \in {"debug", "info", "warn", "error"}

\* Zero means the default.  The sizes, rates and intervals are left out: nothing
\* refuses one, and every constructor has a default for those it cannot use.
applyDefaults(c) ==
    [c EXCEPT !.logLevel = IF @ = "" THEN "info" ELSE @, !.qosLogs = IF @ = 0 THEN 1 ELSE @]

validateParsers(c) ==
    IF c.parsers = <<>> THEN {"invalid"}
    ELSE UNION {Unless(c.parsers[i].type \in RegisteredNames, "invalid") : i \in DOMAIN c.parsers}

\* One turn of validateSources; parsers are named by their place.
validateSource(c, s) ==
    First(<<Unless(s.parser \in DOMAIN c.parsers, "invalid"),
            CASE s.type \in {"file", "journal"} /\ s.path = NoPath -> {"invalid"}
              [] s.type \in {"file", "journal"} -> ValidatePath(s.path, allowlist(c))
              [] s.type = "kmsg" -> {}
              [] OTHER -> {"invalid"}>>) \ {"ok"}

\* Mutant of secureScheme: any scheme.
secureSchemeAny(s) == s # ""

secureScheme(s) == s \in {"tls", "ssl", "mqtts"}

validateTransport(c, disk, skip) ==
    First(<<Unless(c.broker.scheme # "", "invalid"),
            Unless(secureScheme(c.broker.scheme), "insecure"),
            Unless(NoPath \notin {c.cert, c.key, c.ca}, "insecure"),
            UNION {CanonicalizePath(p).err : p \in {c.cert, c.key, c.ca}},
            Unless(c.qosLogs <= 2 /\ c.qosHeartbeat <= 2, "invalid"),
            IF skip THEN {} ELSE CheckKeyMode(disk.key),
            Unless(skip \/ {disk.cert.type, disk.ca.type} \subseteq {"file", "link"}, "invalid"),
            IF c.pin.set THEN ParsePin(c.pin) ELSE {}>>) \ {"ok"}

Validate(c, disk, skip) ==
    First(<<Unless(IDPattern(c.deviceID), "insecure"),
            Unless(IDPattern(c.tenant), "insecure"),
            Unless(validLogLevel(c.logLevel), "invalid"),
            IF c.stateDir = NoPath THEN {} ELSE ValidatePath(c.stateDir, allowlist(c)),
            IF c.stateDir = NoPath \/ skip THEN {} ELSE CheckStateDirMode(disk.stateDir),
            validateParsers(c),
            UNION {validateSource(c, s) : s \in c.sources},
            validateTransport(c, disk, skip)>>)

\* Load and Parse; keys the schema does not know are let through below
\* [parsers.NAME] only.
Load(c, disk, skip) ==
    First(<<IF skip THEN {} ELSE CheckConfigMode(disk.config),
            Unless(disk.config.type \in {"file", "link"} /\ c.toml, "invalid"),
            Unless(\A k \in c.unknown : Len(k) >= 2 /\ k[1] = "parsers", "invalid"),
            Validate(applyDefaults(c), disk, skip) \ {"ok"}>>)

\* runValidate: every error is exit code 3, a bad command line 2.
runValidate(args, c, disk, skip) ==
    IF args # 1 THEN {2} ELSE {IF r = "ok" THEN 0 ELSE 3 : r \in Load(c, disk, skip)}

-----------------------------------------------------------------------------
(* What is built from an accepted configuration. *)

\* registry.go, Build: the factories of the syslog and kernel parsers parse an
\* option of theirs.
Build(p) == Unless(p.type \in RegisteredNames /\ p.options, "invalid")

\* What NewFileSource, NewKMsgSource and NewJournalSource require; the name is
\* the key of the source's table.
NewSource(s) ==
    Unless(/\ s.name # ""
           /\ s.type = "file" => s.path # NoPath
           /\ s.type = "journal" => s.minPriority \in 0 .. 7, "invalid")

\* The spool is kept in state_dir, which may be left out.
NewSpool(dir) == Unless(dir # NoPath, "invalid")

\* mqtt.go: url.Parse, then the scheme in any case.
normalizeBrokerURL(u) ==
    Unless(u.wellFormed /\ u.scheme \in {"tls", "TLS", "ssl", "mqtts"}, "invalid")

\* transport.go; the four topics differ in their last part.
NewTopics(tenant, device) ==
    IF <<>> \in {tenant, device} THEN {}
    ELSE {<<"blackbox", "/", "v1", "/">> \o tenant \o <<"/">> \o device \o <<"/", leaf>> :
            leaf \in {"logs", "status", "heartbeat", "metrics"}}
=============================================================================
