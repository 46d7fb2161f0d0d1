------------------------------ MODULE KMsgSource ------------------------------
(***************************************************************************)
(* KMsgSource (internal/source/kmsg_linux.go): Run reads /dev/kmsg record  *)
(* by record.  The kernel keeps the newest KRing records; a reader that    *)
(* has been overtaken gets EPIPE and goes on at the oldest record.  At the *)
(* end of the ring a read fails with EAGAIN, unless Go's poller watches    *)
(* the descriptor: then os.File.Read parks the goroutine until there is a  *)
(* record and does not return EAGAIN.  Both are modelled.                  *)
(***************************************************************************)
EXTENDS BoundedEmit

CONSTANTS
    KMsg,         \* the emitter's name
    MaxKMsgs,     \* bound: records the kernel writes
    KRing,        \* records the kernel's ring holds
    Garbled,      \* records the parser refuses
    FromOldest    \* the source's FromBeginning

ASSUME KMsgConstants ==
    /\ KMsg \in Emitters
    /\ MaxKMsgs \in Nat /\ KRing \in Nat \ {0}
    /\ FromOldest \in BOOLEAN

VARIABLES
    kpc,      \* "start", "check", "read", "poll", "emit" or "done"
    klast,    \* the number of the newest record
    kpos,     \* the next record to read
    kret,     \* what Run returned: "none", "nil" or "err"
    polled,   \* Go's poller watches the descriptor
    kfirst,   \* history: where reading began
    overrun   \* history: records overwritten before they were read

kmsgVars == <<kpc, klast, kpos, kret, polled, kfirst, overrun>>

Oldest == IF klast > KRing THEN klast - KRing + 1 ELSE 1

KMsgInit ==
    /\ kpc = "start"
    /\ klast \in 0 .. 1
    /\ kpos = 0
    /\ kret = "none"
    /\ polled \in BOOLEAN
    /\ kfirst = 0
    /\ overrun = {}

KernelLogs ==
    /\ klast < MaxKMsgs
    /\ klast' = klast + 1
    /\ UNCHANGED <<kpc, kpos, kret, polled, kfirst, overrun, emitVars>>

\* Open, and the seek to the end, which may fail with a warning.
KMsgStart ==
    /\ kpc = "start"
    /\ \/ /\ kpos' \in {Oldest} \cup (IF FromOldest THEN {} ELSE {klast + 1})
          /\ kfirst' = kpos'
          /\ kpc' = "check"
          /\ UNCHANGED kret
       \/ /\ kpc' = "done"
          /\ kret' = "err"
          /\ UNCHANGED <<kpos, kfirst>>
    /\ UNCHANGED <<klast, polled, overrun, emitVars>>

\* The select at the top of the loop.
KMsgCheck(done) ==
    /\ kpc = "check"
    /\ kpc' = IF done THEN "done" ELSE "read"
    /\ kret' = IF done THEN "nil" ELSE kret
    /\ UNCHANGED <<klast, kpos, polled, kfirst, overrun, emitVars>>

\* Mutant of KMsgOverrun: it resyncs at the newest record.
KMsgOverrunToEnd ==
    /\ kpc = "read"
    /\ kpos < Oldest
    /\ overrun' = overrun \cup kpos .. Oldest - 1
    /\ kpos' = klast
    /\ kpc' = "check"
    /\ UNCHANGED <<klast, kret, polled, kfirst, emitVars>>

\* EPIPE; the kernel has moved the reader to the oldest record.
KMsgOverrun ==
    /\ kpc = "read"
    /\ kpos < Oldest
    /\ overrun' = overrun \cup kpos .. Oldest - 1
    /\ kpos' = Oldest
    /\ kpc' = "check"
    /\ UNCHANGED <<klast, kret, polled, kfirst, emitVars>>

\* A record; one the parser refuses is skipped.
KMsgRead ==
    /\ kpc = "read"
    /\ kpos \in Oldest .. klast
    /\ kpos' = kpos + 1
    /\ IF kpos \in Garbled
       THEN kpc' = "check" /\ UNCHANGED emitVars
       ELSE kpc' = "emit" /\ CallEmit(KMsg, <<<<kpos, 1>>>>)
    /\ UNCHANGED <<klast, kret, polled, kfirst, overrun>>

\* EAGAIN: wait for the poll interval.
KMsgAgain ==
    /\ kpc = "read"
    /\ kpos > klast
    /\ ~polled
    /\ kpc' = "poll"
    /\ UNCHANGED <<klast, kpos, kret, polled, kfirst, overrun, emitVars>>

KMsgPoll(done) ==
    /\ kpc = "poll"
    /\ \/ done /\ kpc' = "done" /\ kret' = "nil"
       \/ kpc' = "check" /\ UNCHANGED kret
    /\ UNCHANGED <<klast, kpos, polled, kfirst, overrun, emitVars>>

\* emit has returned.
KMsgEmitted ==
    /\ kpc = "emit"
    /\ phase[KMsg] = "idle"
    /\ kpc' = "check"
    /\ UNCHANGED <<klast, kpos, kret, polled, kfirst, overrun, emitVars>>

\* Any other error ends Run.
KMsgReadFails ==
    /\ kpc = "read"
    /\ kpc' = "done"
    /\ kret' = "err"
    /\ UNCHANGED <<klast, kpos, polled, kfirst, overrun, emitVars>>

KMsgStep(done) ==
    \/ KMsgStart \/ KMsgCheck(done) \/ KMsgOverrun \/ KMsgRead
    \/ KMsgAgain \/ KMsgPoll(done) \/ KMsgEmitted

-----------------------------------------------------------------------------
KMsgTypeOK ==
    /\ kpc \in {"start", "check", "read", "poll", "emit", "done"}
    /\ kret \in {"none", "nil", "err"}
    /\ kpos \in Nat /\ klast \in Nat

\* Records are emitted in the kernel's order and none twice, and those between
\* two of them were refused by the parser or overwritten by the kernel.
KMsgNoSkip ==
    LET number == [i \in DOMAIN handed[KMsg] |-> handed[KMsg][i].lines[1][1]]
    IN  /\ KMsgTypeOK
        /\ \A i, j \in DOMAIN number : i < j => number[i] < number[j]
        /\ kpc \notin {"start", "done"} =>
            kfirst .. kpos - 1 = Range(number) \cup overrun
                                 \cup (Garbled \cap kfirst .. kpos - 1)
=============================================================================
