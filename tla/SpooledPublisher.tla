-------------------------- MODULE SpooledPublisher --------------------------
(***************************************************************************)
(* internal/transport/spool.go: the disk spool and the publisher that      *)
(* falls back on it, with its replay goroutine, over a broker that comes   *)
(* and goes and a process that crashes and restarts.                       *)
(*                                                                         *)
(* A step is what happens between two points at which another goroutine or *)
(* a crash can intervene: taking liveBusy, one upstream publish, one       *)
(* system call on the spool directory, one iteration of a loop.  The mutex *)
(* s.mu of Append is not a variable: Append runs only under liveBusy.      *)
(*                                                                         *)
(* A file is its name (the nanosecond and the sequence number it is made   *)
(* of, and whether it ends in .tmp), the payload in it and its length.     *)
(* The upstream Publisher is external: it delivers or fails, or delivers   *)
(* and reports a failure (the acknowledgement came too late).              *)
(***************************************************************************)
EXTENDS Integers, FiniteSets

CONSTANTS
    Callers,        \* goroutines that call Publish (the batcher's Flush)
    Payloads,       \* the batches; Publish is called once with each
    Length,         \* Length[p] is the length of payload p
    Rejected,       \* payloads the broker refuses whenever it is asked
    MaxBytes,       \* s.maxBytes
    MayStop,        \* whether ctx may end the replay goroutine
    FaultKinds,     \* which calls may fail although the broker is up
    MaxFaults,      \* bound of the model: how often they fail
    MaxCrashes,     \* bound of the model: crashes of the process
    MaxStepBacks,   \* bound of the model: times the wall clock is set back
    NoOne, Replayer, NoPayload

ASSUME SpoolConstants ==
    /\ NoOne # Replayer
    /\ NoOne \notin Callers /\ Replayer \notin Callers
    /\ NoPayload \notin Payloads
    /\ IsFiniteSet(Payloads)
    /\ Length \in [Payloads -> Nat \ {0}]
    /\ Rejected \subseteq Payloads
    /\ MaxBytes \in Nat \ {0}
    /\ MayStop \in BOOLEAN
    /\ MaxFaults \in Nat /\ MaxCrashes \in Nat /\ MaxStepBacks \in Nat

VARIABLES
    \* durable
    dir,        \* the files of the spool directory
    \* outside the process
    up,         \* the broker is reachable
    clock,      \* time.Now().UnixNano(), in steps that matter
    delivered,  \* how often the broker has received each payload
    \* the process
    configured, \* s.spool is not nil
    liveBusy,   \* who holds s.liveBusy
    pc,         \* where each caller is in Publish
    cur,        \* the payload each caller publishes
    seq,        \* s.seq
    drops,      \* s.drops
    mine,       \* the file the running Append is writing
    stuck,      \* files the running evict could not remove
    rpc,        \* where the replay goroutine is
    todo,       \* the files of its List it has not handled yet
    \* history and bounds
    used,       \* payloads Publish was called with
    accepted,   \* payloads Publish returned nil for
    evicted,    \* payloads whose file evict has removed
    rank,       \* rank[p] = n: p was the n-th payload spooled; 0: never
    faults, crashes, stepBacks

procVars == <<liveBusy, pc, cur, seq, drops, mine, stuck, rpc, todo>>
histVars == <<used, accepted, evicted, rank>>
bounds   == <<configured, faults, crashes, stepBacks>>
vars     == <<dir, up, clock, delivered, procVars, histVars, bounds>>

File == [ns : Nat, seq : Nat, tmp : BOOLEAN, body : Payloads, size : Nat]

-----------------------------------------------------------------------------
\* The order of the file names: %020d-%010d compares as a pair of numbers.
Older(f, g) == f.ns < g.ns \/ (f.ns = g.ns /\ f.seq < g.seq)

\* Mutant of IsOldest: the files are sorted newest first.
IsNewest(f, D) == f \in D /\ \A g \in D : g = f \/ Older(g, f)

IsOldest(f, D) == f \in D /\ \A g \in D : g = f \/ Older(f, g)

\* List: what is not a .tmp file.
Spooled(D) == {f \in D : ~f.tmp}

Bodies(D) == {f.body : f \in Spooled(D)}

\* The bytes of the files: <<f, k>> is the k-th byte of f.
BytesOf(D) == UNION {{f} \X (1 .. f.size) : f \in D}

\* evict's total.
Total(D) == Cardinality(BytesOf(D))

\* One of the calls in k fails.
Fault(k) ==
    /\ k \in FaultKinds
    /\ faults < MaxFaults
    /\ faults' = faults + 1
    /\ UNCHANGED <<configured, crashes, stepBacks>>

\* NewSpool on an empty directory, NewSpooledPublisher, Run started.
Init ==
    /\ dir = {}
    /\ up \in BOOLEAN
    /\ clock = 0
    /\ delivered = [p \in Payloads |-> 0]
    /\ configured \in BOOLEAN
    /\ liveBusy = NoOne
    /\ pc = [c \in Callers |-> "idle"]
    /\ cur = [c \in Callers |-> NoPayload]
    /\ seq = 0
    /\ drops = 0
    /\ mine = {}
    /\ stuck = {}
    /\ rpc = "idle"
    /\ todo = {}
    /\ used = {}
    /\ accepted = {}
    /\ evicted = {}
    /\ rank = [p \in Payloads |-> 0]
    /\ faults = 0
    /\ crashes = 0
    /\ stepBacks = 0

-----------------------------------------------------------------------------
\* The external upstream: what one publish of p may do.
Delivers(p) == delivered' = [delivered EXCEPT ![p] = @ + 1]

\* It succeeds.
UpstreamOK(p) ==
    /\ up
    /\ p \notin Rejected
    /\ Delivers(p)
    /\ UNCHANGED bounds

\* It fails: no connection, a reason code >= 0x80, or no answer within
\* publishTimeout to a packet the broker did receive.
UpstreamError(p) ==
    \/ (~up \/ p \in Rejected) /\ UNCHANGED <<delivered, bounds>>
    \/ up /\ p \notin Rejected /\ Fault("upstream") /\ UNCHANGED delivered
    \/ up /\ p \notin Rejected /\ Fault("lateAck") /\ Delivers(p)

-----------------------------------------------------------------------------
\* Publish(ctx, topic, payload, qos, retain)
Publish(c, p) ==
    /\ pc[c] = "idle"
    /\ p \notin used
    /\ used' = used \cup {p}
    /\ pc' = [pc EXCEPT ![c] = "lock"]
    /\ cur' = [cur EXCEPT ![c] = p]
    /\ UNCHANGED <<dir, up, clock, delivered, liveBusy, seq, drops, mine, stuck,
                   rpc, todo, accepted, evicted, rank, bounds>>

Lock(c) ==
    /\ pc[c] = "lock"
    /\ liveBusy = NoOne
    /\ liveBusy' = c
    /\ pc' = [pc EXCEPT ![c] = "upstream"]
    /\ UNCHANGED <<dir, up, clock, delivered, cur, seq, drops, mine, stuck, rpc,
                   todo, histVars, bounds>>

\* Publish returns, and its deferred Unlock runs.
Return(c) ==
    /\ liveBusy' = NoOne
    /\ pc' = [pc EXCEPT ![c] = "idle"]
    /\ cur' = [cur EXCEPT ![c] = NoPayload]
    /\ mine' = {}
    /\ stuck' = {}

ReturnNil(c) == Return(c) /\ accepted' = accepted \cup {cur[c]}

ReturnError(c) == Return(c) /\ UNCHANGED accepted

PublishLive(c) ==
    /\ pc[c] = "upstream"
    /\ UpstreamOK(cur[c])
    /\ ReturnNil(c)
    /\ UNCHANGED <<dir, up, clock, seq, drops, rpc, todo, used, evicted, rank>>

PublishFailed(c) ==
    /\ pc[c] = "upstream"
    /\ UpstreamError(cur[c])
    /\ \/ /\ configured
          /\ pc' = [pc EXCEPT ![c] = "create"]
          /\ UNCHANGED <<liveBusy, cur, mine, stuck, accepted>>
       \/ ~configured /\ ReturnError(c)
    /\ UNCHANGED <<dir, up, clock, seq, drops, rpc, todo, used, evicted, rank>>

-----------------------------------------------------------------------------
\* Append: take the next name and create the .tmp file.  The clock may or may
\* not have moved since the last file; no name is ever met again, because a
\* restarted process would have to hit the nanosecond and the number of an
\* existing file.
Create(c) ==
    /\ pc[c] = "create"
    /\ seq' = seq + 1
    /\ clock' \in {clock, clock + 1}
    /\ \/ /\ \A f \in dir : f.ns # clock' \/ f.seq # seq'
          /\ mine' = {[ns |-> clock', seq |-> seq', tmp |-> TRUE,
                       body |-> cur[c], size |-> 0]}
          /\ dir' = dir \cup mine'
          /\ pc' = [pc EXCEPT ![c] = "write"]
          /\ UNCHANGED <<liveBusy, cur, stuck, accepted, bounds>>
       \/ Fault("create") /\ ReturnError(c) /\ UNCHANGED dir
    /\ UNCHANGED <<up, delivered, drops, rpc, todo, used, evicted, rank>>

\* A failed write, fsync, close or rename: remove the .tmp file, whose removal
\* may fail as well, and give up.
AbandonTmp(c) ==
    /\ Fault("append")
    /\ dir' \in {dir \ mine, dir}
    /\ ReturnError(c)
    /\ UNCHANGED rank

\* Write, fsync and close the .tmp file.
Write(c) ==
    /\ pc[c] = "write"
    /\ \/ /\ mine' = {[f EXCEPT !.size = Length[f.body]] : f \in mine}
          /\ dir' = (dir \ mine) \cup mine'
          /\ pc' = [pc EXCEPT ![c] = "rename"]
          /\ UNCHANGED <<liveBusy, cur, stuck, accepted, rank, bounds>>
       \/ AbandonTmp(c)
    /\ UNCHANGED <<up, clock, delivered, seq, drops, rpc, todo, used, evicted>>

\* Rename it to its final name: from here on it is replayed.
Rename(c) ==
    /\ pc[c] = "rename"
    /\ \/ /\ mine' = {[f EXCEPT !.tmp = FALSE] : f \in mine}
          /\ dir' = (dir \ mine) \cup mine'
          /\ pc' = [pc EXCEPT ![c] = "readdir"]
          /\ rank' = [rank EXCEPT ![cur[c]] =
                        1 + Cardinality({p \in Payloads : rank[p] > 0})]
          /\ UNCHANGED <<liveBusy, cur, stuck, accepted, bounds>>
       \/ AbandonTmp(c)
    /\ UNCHANGED <<up, clock, delivered, seq, drops, rpc, todo, used, evicted>>

\* evict reads the directory; Append only logs that it could not.
ReadDir(c) ==
    /\ pc[c] = "readdir"
    /\ \/ /\ pc' = [pc EXCEPT ![c] = "evict"]
          /\ UNCHANGED <<liveBusy, cur, mine, stuck, accepted, bounds>>
       \/ Fault("readdir") /\ ReturnNil(c)
    /\ UNCHANGED <<dir, up, clock, delivered, seq, drops, rpc, todo, used,
                   evicted, rank>>

\* Mutant of Evict: the drop is not counted.
EvictUncounted(c) ==
    /\ pc[c] = "evict"
    /\ Total(dir) > MaxBytes
    /\ \E f \in dir :
         /\ IsOldest(f, dir \ stuck)
         /\ dir' = dir \ {f}
         /\ evicted' = IF f.tmp THEN evicted ELSE evicted \cup {f.body}
    /\ UNCHANGED <<up, clock, delivered, liveBusy, pc, cur, seq, drops, mine,
                   stuck, rpc, todo, used, accepted, rank, bounds>>

\* One iteration of evict's loop, which counts and removes .tmp files too.
Evict(c) ==
    /\ pc[c] = "evict"
    /\ Total(dir) > MaxBytes
    /\ \E f \in dir :
         /\ IsOldest(f, dir \ stuck)
         /\ \/ /\ dir' = dir \ {f}
               /\ drops' = drops + 1
               /\ evicted' = IF f.tmp THEN evicted ELSE evicted \cup {f.body}
               /\ UNCHANGED <<stuck, bounds>>
            \/ /\ Fault("remove")
               /\ stuck' = stuck \cup {f}
               /\ UNCHANGED <<dir, drops, evicted>>
    /\ UNCHANGED <<up, clock, delivered, liveBusy, pc, cur, seq, mine, rpc, todo,
                   used, accepted, rank>>

\* Mutant of EvictDone: evict stops before the total is under the cap.
EvictDoneEarly(c) ==
    /\ pc[c] = "evict"
    /\ ReturnNil(c)
    /\ UNCHANGED <<dir, up, clock, delivered, seq, drops, rpc, todo, used,
                   evicted, rank, bounds>>

\* evict is over: the total is under the cap, or every file was tried.
EvictDone(c) ==
    /\ pc[c] = "evict"
    /\ Total(dir) <= MaxBytes \/ dir \subseteq stuck
    /\ ReturnNil(c)
    /\ UNCHANGED <<dir, up, clock, delivered, seq, drops, rpc, todo, used,
                   evicted, rank, bounds>>

Caller(c) ==
    \/ Lock(c) \/ PublishLive(c) \/ PublishFailed(c)
    \/ Create(c) \/ Write(c) \/ Rename(c)
    \/ ReadDir(c) \/ Evict(c) \/ EvictDone(c)

-----------------------------------------------------------------------------
\* Run's ticker fires: replayOnce lists the spool, without a lock.
Tick ==
    /\ rpc = "idle"
    /\ configured
    /\ Spooled(dir) # {}
    /\ todo' = Spooled(dir)
    /\ rpc' = "next"
    /\ UNCHANGED <<dir, up, clock, delivered, liveBusy, pc, cur, seq, drops, mine,
                   stuck, histVars, bounds>>

\* The next file of the list: take liveBusy.
ReplayNext ==
    /\ rpc = "next"
    /\ \/ todo = {} /\ rpc' = "idle" /\ UNCHANGED liveBusy
       \/ /\ todo # {}
          /\ liveBusy = NoOne
          /\ liveBusy' = Replayer
          /\ rpc' = "read"
    /\ UNCHANGED <<dir, up, clock, delivered, pc, cur, seq, drops, mine, stuck,
                   todo, histVars, bounds>>

\* Mutant of Bail: the goroutine ends.
BailForGood ==
    /\ liveBusy' = NoOne
    /\ rpc' = "stopped"
    /\ todo' = {}

\* replayOnce unlocks and returns: the rest of the list waits for the next tick.
Bail ==
    /\ liveBusy' = NoOne
    /\ rpc' = "idle"
    /\ todo' = {}

\* Read; the file may be gone, evicted since the List.
ReplayRead ==
    /\ rpc = "read"
    /\ \E f \in todo :
         /\ IsOldest(f, todo)
         /\ \/ /\ f \in dir
               /\ rpc' = "publish"
               /\ UNCHANGED <<liveBusy, todo, bounds>>
            \/ f \notin dir /\ Bail /\ UNCHANGED bounds
            \/ f \in dir /\ Fault("read") /\ Bail
    /\ UNCHANGED <<dir, up, clock, delivered, pc, cur, seq, drops, mine, stuck,
                   histVars>>

\* Mutant of ReplayPublish: the file is deleted although the publish failed.
ReplayPublishCareless ==
    /\ rpc = "publish"
    /\ \E f \in todo :
         /\ IsOldest(f, todo)
         /\ UpstreamOK(f.body) \/ UpstreamError(f.body)
    /\ rpc' = "delete"
    /\ UNCHANGED <<dir, up, clock, liveBusy, pc, cur, seq, drops, mine, stuck,
                   todo, histVars>>

ReplayPublish ==
    /\ rpc = "publish"
    /\ \E f \in todo :
         /\ IsOldest(f, todo)
         /\ \/ UpstreamOK(f.body) /\ rpc' = "delete" /\ UNCHANGED <<liveBusy, todo>>
            \/ UpstreamError(f.body) /\ Bail
    /\ UNCHANGED <<dir, up, clock, pc, cur, seq, drops, mine, stuck, histVars>>

\* Mutant of ReplayDelete: the file stays.
ReplayDeleteForgotten ==
    /\ rpc = "delete"
    /\ \E f \in todo : IsOldest(f, todo) /\ todo' = todo \ {f}
    /\ liveBusy' = NoOne
    /\ rpc' = "next"
    /\ UNCHANGED <<dir, up, clock, delivered, pc, cur, seq, drops, mine, stuck,
                   histVars, bounds>>

\* Delete, whose failure is only logged, and go on with the next file.
ReplayDelete ==
    /\ rpc = "delete"
    /\ \E f \in todo :
         /\ IsOldest(f, todo)
         /\ \/ dir' = dir \ {f} /\ UNCHANGED bounds
            \/ Fault("delete") /\ UNCHANGED dir
         /\ todo' = todo \ {f}
    /\ liveBusy' = NoOne
    /\ rpc' = "next"
    /\ UNCHANGED <<up, clock, delivered, pc, cur, seq, drops, mine, stuck,
                   histVars>>

Replay == Tick \/ ReplayNext \/ ReplayRead \/ ReplayPublish \/ ReplayDelete

\* ctx is done: Run returns from its select, replayOnce from its loop.
ReplayStop ==
    /\ MayStop
    /\ rpc \in {"idle", "next"}
    /\ rpc' = "stopped"
    /\ todo' = {}
    /\ UNCHANGED <<dir, up, clock, delivered, liveBusy, pc, cur, seq, drops, mine,
                   stuck, histVars, bounds>>

-----------------------------------------------------------------------------
Outage ==
    /\ up' = ~up
    /\ UNCHANGED <<dir, clock, delivered, procVars, histVars, bounds>>

\* The process dies and is started again: only the directory survives.
Crash ==
    /\ crashes < MaxCrashes
    /\ crashes' = crashes + 1
    /\ clock' = clock + 1
    /\ liveBusy' = NoOne
    /\ pc' = [c \in Callers |-> "idle"]
    /\ cur' = [c \in Callers |-> NoPayload]
    /\ seq' = 0
    /\ drops' = 0
    /\ mine' = {}
    /\ stuck' = {}
    /\ rpc' = "idle"
    /\ todo' = {}
    /\ UNCHANGED <<dir, up, delivered, configured, histVars, faults, stepBacks>>

\* The wall clock is set back, as NTP does on a device without an RTC battery.
StepBack ==
    /\ stepBacks < MaxStepBacks
    /\ clock > 0
    /\ stepBacks' = stepBacks + 1
    /\ clock' = clock - 1
    /\ UNCHANGED <<dir, up, delivered, configured, procVars, histVars, faults,
                   crashes>>

Next ==
    \/ \E c \in Callers : Caller(c) \/ \E p \in Payloads : Publish(c, p)
    \/ Replay
    \/ ReplayStop
    \/ Outage
    \/ Crash
    \/ StepBack

Spec == Init /\ [][Next]_vars

\* Goroutines keep running, every upstream call ends (publishTimeout) and the
\* ticker keeps ticking.  sync.Mutex is fair to a waiter in the end (its
\* starvation mode), hence the strong fairness of the two acquisitions.
Fairness ==
    /\ \A c \in Callers : WF_vars(Caller(c)) /\ SF_vars(Lock(c))
    /\ WF_vars(Replay)
    /\ SF_vars(ReplayNext)

FairSpec == Spec /\ Fairness

-----------------------------------------------------------------------------
TypeOK ==
    /\ dir \subseteq File
    /\ up \in BOOLEAN
    /\ clock \in Nat
    /\ delivered \in [Payloads -> Nat]
    /\ configured \in BOOLEAN
    /\ liveBusy \in Callers \cup {Replayer, NoOne}
    /\ pc \in [Callers -> {"idle", "lock", "upstream", "create", "write",
                           "rename", "readdir", "evict"}]
    /\ cur \in [Callers -> Payloads \cup {NoPayload}]
    /\ seq \in Nat
    /\ drops \in Nat
    /\ mine \subseteq File
    /\ stuck \subseteq File
    /\ rpc \in {"idle", "next", "read", "publish", "delete", "stopped"}
    /\ todo \subseteq File
    /\ used \subseteq Payloads
    /\ accepted \subseteq Payloads
    /\ evicted \subseteq Payloads
    /\ rank \in [Payloads -> Nat]
    /\ faults \in Nat /\ crashes \in Nat /\ stepBacks \in Nat

\* At-least-once across restarts: a payload Publish returned nil for has
\* reached the broker, or its file is in the spool, or it was evicted; no
\* crash, failed call or interleaving of live publish and replay loses it.
AtLeastOnce ==
    \A p \in accepted : delivered[p] > 0 \/ p \in Bodies(dir) \/ p \in evicted

\* Publish returns nil if either path succeeded: at the moment it returns, the
\* payload has reached the broker or is in the spool.  Excepted are the cases in
\* which evict removes the file just written: an older one could not be removed,
\* the clock was set back and the newest file has the oldest name, or the payload
\* alone is larger than the cap.
NilMeansKept ==
    [][faults' = 0 /\ stepBacks = 0 =>
         \A p \in accepted' \ accepted :
             \/ delivered'[p] > 0
             \/ p \in Bodies(dir')
             \/ Length[p] > MaxBytes]_vars

\* Nothing is lost silently: as many accepted payloads as are gone, neither
\* delivered nor spooled, are counted in Drops(), which restarts from zero.
LossesCounted ==
    crashes = 0 =>
        Cardinality({p \in accepted : delivered[p] = 0 /\ p \notin Bodies(dir)})
            <= drops

\* The deliveries after the first: <<p, k>> is the k-th delivery of p.
Duplicates == UNION {{p} \X (2 .. delivered[p]) : p \in Payloads}

\* Every duplicate is paid for by a crash, a failed system call or a late
\* acknowledgement of its own: a payload is delivered exactly once while calls of
\* the upstream publisher either succeed or fail outright.
DuplicatesPaidFor == Cardinality(Duplicates) <= faults + crashes

\* Replay is chronological: a file is replayed only when every file spooled
\* before it is gone from the spool or was delivered.  The names carry the wall
\* clock, so this is promised only while the clock is not set back.
Chronological ==
    stepBacks = 0 /\ rpc = "publish" =>
        \A f \in todo : IsOldest(f, todo) =>
            \A g \in Spooled(dir) :
                rank[g.body] < rank[f.body] => delivered[g.body] > 0

\* The size cap is enforced before Append returns.
CapEnforced ==
    liveBusy = NoOne /\ faults = 0 /\ crashes = 0 => Total(dir) <= MaxBytes

\* Once the broker stays reachable and refuses nothing, everything Publish
\* accepted is delivered unless it is evicted first, and the spool is emptied,
\* whatever live traffic competes for liveBusy.
EventuallyDelivered ==
    <>[]up /\ Rejected = {} =>
        /\ \A p \in Payloads :
              (p \in accepted) ~> (delivered[p] > 0 \/ p \in evicted)
        /\ []<>(Spooled(dir) = {})
=============================================================================
