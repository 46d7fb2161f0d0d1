----------------------------- MODULE BoundedEmit -----------------------------
(***************************************************************************)
(* The Emit closure of MakeBoundedEmit (internal/source/source.go): a send *)
(* that is tried once, then waited for up to the block budget, then given  *)
(* up and counted.  The sink is a Go channel with some capacity, 0 for an  *)
(* unbuffered one, shared by all sources; its reader may stop reading.     *)
(***************************************************************************)
EXTENDS Integers, Sequences, SequencesExt, FiniteSets

CONSTANTS
    Emitters,  \* the source goroutines
    SinkCap    \* capacity of the channel

ASSUME EmitConstants == SinkCap \in Nat

VARIABLES
    sink,       \* what the channel buffers
    receiving,  \* the reader waits for a sender
    emitting,   \* source -> the entries its call of emit holds: none or one
    phase,      \* source -> "idle", "try" or "wait": where in emit it is
    drops,      \* the counter
    received,   \* history: what the reader got
    lost,       \* history: the entries given up
    handed      \* history: source -> the entries it called emit with

emitVars == <<sink, receiving, emitting, phase, drops, received, lost, handed>>

EmitInit ==
    /\ sink = <<>>
    /\ receiving = FALSE
    /\ emitting = [c \in Emitters |-> <<>>]
    /\ phase = [c \in Emitters |-> "idle"]
    /\ drops = 0
    /\ received = <<>>
    /\ lost = {}
    /\ handed = [c \in Emitters |-> <<>>]

\* Source c calls emit with the entry of a record that consists of lines, each
\* a pair of the record's number and the line's; part of a step of c.
CallEmit(c, lines) ==
    /\ emitting' = [emitting EXCEPT ![c] = <<[source |-> c, lines |-> lines]>>]
    /\ phase' = [phase EXCEPT ![c] = "try"]
    /\ handed' = [handed EXCEPT ![c] = Append(@, [source |-> c, lines |-> lines])]
    /\ UNCHANGED <<sink, receiving, drops, received, lost>>

CanSend == receiving \/ Len(sink) < SinkCap

Returned(c) ==
    /\ emitting' = [emitting EXCEPT ![c] = <<>>]
    /\ phase' = [phase EXCEPT ![c] = "idle"]

\* The entry goes to the waiting reader or into the channel's buffer; either
\* of the two selects does this.
Send(c) ==
    /\ phase[c] \in {"try", "wait"}
    /\ CanSend
    /\ IF receiving
       THEN received' = received \o emitting[c] /\ UNCHANGED sink
       ELSE sink' = sink \o emitting[c] /\ UNCHANGED received
    /\ receiving' = FALSE
    /\ Returned(c)
    /\ UNCHANGED <<drops, lost, handed>>

\* The first select found no room; the timer of blockBudget starts.
StartTimer(c) ==
    /\ phase[c] = "try"
    /\ ~CanSend
    /\ phase' = [phase EXCEPT ![c] = "wait"]
    /\ UNCHANGED <<sink, receiving, emitting, drops, received, lost, handed>>

\* Mutant of GiveUp: the entry is counted and still sent when there is room.
GiveUpAndSend(c) ==
    /\ phase[c] = "wait"
    /\ drops' = drops + 1
    /\ lost' = lost \cup Range(emitting[c])
    /\ sink' = IF Len(sink) < SinkCap THEN sink \o emitting[c] ELSE sink
    /\ Returned(c)
    /\ UNCHANGED <<receiving, received, handed>>

\* Mutant of GiveUp: no budget, it waits until there is room.
GiveUpNever(c) == FALSE /\ GiveUpAndSend(c)

\* The timer fires first; or at the same time, when select may pick either.
GiveUp(c) ==
    /\ phase[c] = "wait"
    /\ drops' = drops + 1
    /\ lost' = lost \cup Range(emitting[c])
    /\ Returned(c)
    /\ UNCHANGED <<sink, receiving, received, handed>>

\* The reader receives what is buffered or begins to wait.
Receive ==
    /\ ~receiving
    /\ IF sink = <<>>
       THEN receiving' = TRUE /\ UNCHANGED <<sink, received>>
       ELSE /\ received' = Append(received, Head(sink))
            /\ sink' = Tail(sink)
            /\ UNCHANGED receiving
    /\ UNCHANGED <<emitting, phase, drops, lost, handed>>

EmitStep(c) == Send(c) \/ StartTimer(c) \/ GiveUp(c)

-----------------------------------------------------------------------------
EmitTypeOK ==
    /\ Len(sink) <= SinkCap
    /\ receiving \in BOOLEAN
    /\ phase \in [Emitters -> {"idle", "try", "wait"}]
    /\ \A c \in Emitters : Len(emitting[c]) = IF phase[c] = "idle" THEN 0 ELSE 1
    /\ drops \in Nat

\* What has been sent, oldest first.
Sent == received \o sink

\* Each entry a source hands to emit is in one place: with the call that is
\* still running, sent, or counted as dropped, whoever wins the race between
\* the budget's timer and the reader.
EmitOnce ==
    /\ EmitTypeOK
    /\ drops = Cardinality(lost)
    /\ Cardinality(Range(Sent)) = Len(Sent)
    /\ \A c \in Emitters : \A x \in Range(handed[c]) :
        Cardinality({p \in {"running", "sent", "dropped"} :
                        \/ p = "running" /\ x \in Range(emitting[c])
                        \/ p = "sent" /\ x \in Range(Sent)
                        \/ p = "dropped" /\ x \in lost}) = 1
=============================================================================
