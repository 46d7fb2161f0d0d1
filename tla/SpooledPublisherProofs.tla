----------------------- MODULE SpooledPublisherProofs -----------------------
(***************************************************************************)
(* Proof that the spooled publisher of internal/transport/spool.go keeps   *)
(* every accepted payload at least once, for any number of callers and     *)
(* payloads, any lengths and cap, and any number of crashes, failed calls  *)
(* and clock steps.                                                        *)
(*                                                                         *)
(* AtLeastOnce alone is not inductive: whether Publish may return nil is   *)
(* decided while it is inside Append, and whether a file may be deleted is *)
(* decided by the publish before.  The invariant carries both facts over   *)
(* the steps in between.                                                   *)
(***************************************************************************)
EXTENDS SpooledPublisher, FiniteSetTheorems, TLAPS

\* What AtLeastOnce says of one payload.
Kept(p) == delivered[p] > 0 \/ p \in Bodies(dir) \/ p \in evicted

\* Only the holder of liveBusy is past its Lock.
Serialised ==
    /\ \A c \in Callers : pc[c] \notin {"idle", "lock"} => liveBusy = c
    /\ rpc \in {"read", "publish", "delete"} => liveBusy = Replayer

\* A caller inside Publish has a payload.
PayloadAtHand == \A c \in Callers : pc[c] # "idle" => cur[c] \in Payloads

\* Until it is renamed, the file of a running Append is a .tmp file of the
\* directory that holds the caller's payload.
TmpInPlace ==
    \A c \in Callers : pc[c] \in {"write", "rename"} =>
        /\ mine # {}
        /\ mine \subseteq dir
        /\ \A f \in mine : f.tmp /\ f.body = cur[c]

\* Once it is renamed, the payload is in the spool, or was replayed or evicted.
SafeBeforeReturn ==
    \A c \in Callers : pc[c] \in {"readdir", "evict"} => Kept(cur[c])

\* The file about to be deleted has been delivered.
DeliveredBeforeDelete ==
    rpc = "delete" =>
        \A f \in todo : IsOldest(f, todo) => delivered[f.body] > 0

SpoolInv ==
    /\ TypeOK
    /\ Serialised
    /\ PayloadAtHand
    /\ TmpInPlace
    /\ SafeBeforeReturn
    /\ DeliveredBeforeDelete
    /\ AtLeastOnce

-----------------------------------------------------------------------------
\* The file names are totally ordered, so a set of files has one oldest file.
LEMMA OldestUnique ==
    ASSUME NEW D \in SUBSET File, NEW f, NEW g, IsOldest(f, D), IsOldest(g, D)
    PROVE  f = g
<1>1. f \in File /\ g \in File
  BY DEF IsOldest
<1>2. f.ns \in Nat /\ g.ns \in Nat /\ f.seq \in Nat /\ g.seq \in Nat
  BY <1>1 DEF File
<1>3. f = g \/ (Older(f, g) /\ Older(g, f))
  BY DEF IsOldest
<1>4. ~(Older(f, g) /\ Older(g, f))
  BY <1>2 DEF Older
<1> QED BY <1>3, <1>4

\* What a publish to the upstream, or a failed call, leaves of the types.
LEMMA UpstreamTypes ==
    ASSUME TypeOK, NEW p \in Payloads, UpstreamOK(p) \/ UpstreamError(p)
    PROVE  /\ delivered' \in [Payloads -> Nat]
           /\ \A q \in Payloads : delivered[q] <= delivered'[q]
           /\ configured' \in BOOLEAN
           /\ faults' \in Nat /\ crashes' \in Nat /\ stepBacks' \in Nat
<1>1. /\ delivered \in [Payloads -> Nat] /\ configured \in BOOLEAN
      /\ faults \in Nat /\ crashes \in Nat /\ stepBacks \in Nat
  BY DEF TypeOK
<1>2. (UNCHANGED delivered) \/ Delivers(p)
  BY DEF UpstreamOK, UpstreamError
<1>3. (UNCHANGED bounds) \/ Fault("upstream") \/ Fault("lateAck")
  BY DEF UpstreamOK, UpstreamError, bounds
<1>4. /\ delivered' \in [Payloads -> Nat]
      /\ \A q \in Payloads : delivered[q] <= delivered'[q]
  BY <1>1, <1>2 DEF Delivers
<1>5. /\ configured' \in BOOLEAN
      /\ faults' \in Nat /\ crashes' \in Nat /\ stepBacks' \in Nat
  BY <1>1, <1>3 DEF Fault, bounds
<1> QED BY <1>4, <1>5

-----------------------------------------------------------------------------
LEMMA InitOK == Init => SpoolInv
<1> SUFFICES ASSUME Init PROVE SpoolInv
  OBVIOUS
<1>1. TypeOK
  BY DEF Init, TypeOK
<1>2. Serialised /\ PayloadAtHand /\ TmpInPlace
  BY DEF Init, Serialised, PayloadAtHand, TmpInPlace
<1>3. SafeBeforeReturn /\ DeliveredBeforeDelete /\ AtLeastOnce
  BY DEF Init, SafeBeforeReturn, DeliveredBeforeDelete, AtLeastOnce
<1> QED BY <1>1, <1>2, <1>3 DEF SpoolInv

\* Types are preserved.
LEMMA TypesPreserved ==
    ASSUME TypeOK, PayloadAtHand, [Next]_vars
    PROVE  TypeOK'
<1> USE SpoolConstants DEF TypeOK
<1>1. ASSUME NEW c \in Callers, NEW p \in Payloads, Publish(c, p) PROVE TypeOK'
  BY <1>1 DEF Publish, bounds
<1>2. ASSUME NEW c \in Callers, Lock(c) PROVE TypeOK'
  BY <1>2 DEF Lock, histVars, bounds
<1>3. ASSUME NEW c \in Callers, PublishLive(c) PROVE TypeOK'
  <2>1. cur[c] \in Payloads
    BY <1>3 DEF PublishLive, PayloadAtHand
  <2>2. /\ delivered' \in [Payloads -> Nat]
        /\ configured' \in BOOLEAN
        /\ faults' \in Nat /\ crashes' \in Nat /\ stepBacks' \in Nat
    BY <1>3, <2>1, UpstreamTypes DEF PublishLive
  <2> QED BY <1>3, <2>1, <2>2 DEF PublishLive, ReturnNil, Return
<1>4. ASSUME NEW c \in Callers, PublishFailed(c) PROVE TypeOK'
  <2>1. cur[c] \in Payloads
    BY <1>4 DEF PublishFailed, PayloadAtHand
  <2>2. /\ delivered' \in [Payloads -> Nat]
        /\ configured' \in BOOLEAN
        /\ faults' \in Nat /\ crashes' \in Nat /\ stepBacks' \in Nat
    BY <1>4, <2>1, UpstreamTypes DEF PublishFailed
  <2> QED BY <1>4, <2>1, <2>2 DEF PublishFailed, ReturnError, Return
<1>5. ASSUME NEW c \in Callers, Create(c) PROVE TypeOK'
  <2>1. cur[c] \in Payloads
    BY <1>5 DEF Create, PayloadAtHand
  <2>2. seq' \in Nat /\ clock' \in Nat
    BY <1>5 DEF Create
  <2>3. [ns |-> clock', seq |-> seq', tmp |-> TRUE, body |-> cur[c], size |-> 0]
            \in File
    BY <2>1, <2>2 DEF File
  <2>4. dir' \subseteq File /\ mine' \subseteq File
    BY <1>5, <2>3 DEF Create, ReturnError, Return
  <2> QED BY <1>5, <2>1, <2>2, <2>4
          DEF Create, Fault, ReturnError, Return, bounds
<1>6. ASSUME NEW c \in Callers, Write(c) PROVE TypeOK'
  <2>1. \A f \in mine : [f EXCEPT !.size = Length[f.body]] \in File
    <3> SUFFICES ASSUME NEW f \in File
                 PROVE  [f EXCEPT !.size = Length[f.body]] \in File
      OBVIOUS
    <3>1. f.body \in Payloads
      BY DEF File
    <3>2. Length[f.body] \in Nat
      BY <3>1
    <3> QED BY <3>2 DEF File
  <2>2. dir' \subseteq File /\ mine' \subseteq File
    BY <1>6, <2>1 DEF Write, AbandonTmp, ReturnError, Return
  <2> QED BY <1>6, <2>2 DEF Write, AbandonTmp, Fault, ReturnError, Return, bounds
<1>7. ASSUME NEW c \in Callers, Rename(c) PROVE TypeOK'
  <2>1. \A f \in mine : [f EXCEPT !.tmp = FALSE] \in File
    <3> SUFFICES ASSUME NEW f \in File
                 PROVE  [f EXCEPT !.tmp = FALSE] \in File
      OBVIOUS
    <3> QED BY Zenon DEF File
  <2>2. dir' \subseteq File /\ mine' \subseteq File
    BY <1>7, <2>1 DEF Rename, AbandonTmp, ReturnError, Return
  <2>3. rank' \in [Payloads -> Nat]
    <3>1. IsFiniteSet({p \in Payloads : rank[p] > 0})
      BY FS_Subset
    <3>2. Cardinality({p \in Payloads : rank[p] > 0}) \in Nat
      BY <3>1, FS_CardinalityType
    <3> QED BY <1>7, <3>2 DEF Rename, AbandonTmp
  <2> QED BY <1>7, <2>2, <2>3
          DEF Rename, AbandonTmp, Fault, ReturnError, Return, bounds
<1>8. ASSUME NEW c \in Callers, ReadDir(c) PROVE TypeOK'
  <2>1. cur[c] \in Payloads
    BY <1>8 DEF ReadDir, PayloadAtHand
  <2> QED BY <1>8, <2>1 DEF ReadDir, Fault, ReturnNil, Return, bounds
<1>9. ASSUME NEW c \in Callers, Evict(c) PROVE TypeOK'
  <2>1. \A f \in dir : f.body \in Payloads
    BY DEF File
  <2>2. /\ dir' \subseteq File /\ stuck' \subseteq File
        /\ drops' \in Nat /\ evicted' \subseteq Payloads
    BY <1>9, <2>1 DEF Evict
  <2>3. /\ configured' \in BOOLEAN
        /\ faults' \in Nat /\ crashes' \in Nat /\ stepBacks' \in Nat
    BY <1>9 DEF Evict, Fault, bounds
  <2> QED BY <1>9, <2>2, <2>3 DEF Evict
<1>10. ASSUME NEW c \in Callers, EvictDone(c) PROVE TypeOK'
  <2>1. cur[c] \in Payloads
    BY <1>10 DEF EvictDone, PayloadAtHand
  <2> QED BY <1>10, <2>1 DEF EvictDone, ReturnNil, Return, bounds
<1>11. CASE Tick \/ ReplayNext \/ ReplayRead \/ ReplayStop
  <2>1. todo' \subseteq File
    BY <1>11 DEF Tick, ReplayNext, ReplayRead, ReplayStop, Bail, Spooled
  <2>2. liveBusy' \in Callers \cup {Replayer, NoOne}
    BY <1>11 DEF Tick, ReplayNext, ReplayRead, ReplayStop, Bail
  <2>3. /\ configured' \in BOOLEAN
        /\ faults' \in Nat /\ crashes' \in Nat /\ stepBacks' \in Nat
    BY <1>11 DEF Tick, ReplayNext, ReplayRead, ReplayStop, Fault, bounds
  <2> QED BY <1>11, <2>1, <2>2, <2>3
          DEF Tick, ReplayNext, ReplayRead, ReplayStop, Bail, histVars
<1>12. CASE ReplayPublish
  <2>1. PICK f \in todo : /\ \/ UpstreamOK(f.body) /\ rpc' = "delete"
                                  /\ UNCHANGED <<liveBusy, todo>>
                             \/ UpstreamError(f.body) /\ Bail
    BY <1>12 DEF ReplayPublish
  <2>2. f.body \in Payloads
    BY DEF File
  <2>3. /\ delivered' \in [Payloads -> Nat]
        /\ configured' \in BOOLEAN
        /\ faults' \in Nat /\ crashes' \in Nat /\ stepBacks' \in Nat
    BY <2>1, <2>2, UpstreamTypes
  <2> QED BY <1>12, <2>1, <2>3 DEF ReplayPublish, Bail, histVars
<1>13. CASE ReplayDelete
  <2>1. dir' \subseteq File /\ todo' \subseteq File
    BY <1>13 DEF ReplayDelete
  <2>2. /\ configured' \in BOOLEAN
        /\ faults' \in Nat /\ crashes' \in Nat /\ stepBacks' \in Nat
    BY <1>13 DEF ReplayDelete, Fault, bounds
  <2> QED BY <1>13, <2>1, <2>2 DEF ReplayDelete, histVars
<1>14. CASE Outage
  BY <1>14 DEF Outage, procVars, histVars, bounds
<1>15. CASE Crash
  BY <1>15 DEF Crash, histVars
<1>16. CASE StepBack
  BY <1>16 DEF StepBack, procVars, histVars
<1>17. CASE UNCHANGED vars
  BY <1>17 DEF vars, procVars, histVars, bounds
<1> QED BY <1>1, <1>2, <1>3, <1>4, <1>5, <1>6, <1>7, <1>8, <1>9, <1>10, <1>11,
           <1>12, <1>13, <1>14, <1>15, <1>16, <1>17 DEF Next, Caller, Replay

-----------------------------------------------------------------------------
\* The control part: who holds liveBusy, and what Append has in its hands.
LEMMA ControlPreserved ==
    ASSUME SpoolInv, [Next]_vars
    PROVE  Serialised' /\ PayloadAtHand' /\ TmpInPlace'
<1> USE SpoolConstants DEF SpoolInv, TypeOK, Serialised, PayloadAtHand, TmpInPlace
<1>1. ASSUME NEW c \in Callers, NEW p \in Payloads, Publish(c, p)
      PROVE  Serialised' /\ PayloadAtHand' /\ TmpInPlace'
  BY <1>1 DEF Publish
<1>2. ASSUME NEW c \in Callers, Lock(c)
      PROVE  Serialised' /\ PayloadAtHand' /\ TmpInPlace'
  BY <1>2 DEF Lock
<1>3. ASSUME NEW c \in Callers, PublishLive(c)
      PROVE  Serialised' /\ PayloadAtHand' /\ TmpInPlace'
  BY <1>3 DEF PublishLive, ReturnNil, Return
<1>4. ASSUME NEW c \in Callers, PublishFailed(c)
      PROVE  Serialised' /\ PayloadAtHand' /\ TmpInPlace'
  BY <1>4 DEF PublishFailed, ReturnError, Return
<1>5. ASSUME NEW c \in Callers, Create(c)
      PROVE  Serialised' /\ PayloadAtHand' /\ TmpInPlace'
  <2>1. Serialised' /\ PayloadAtHand'
    BY <1>5 DEF Create, ReturnError, Return
  <2>2. \A d \in Callers : pc'[d] \in {"write", "rename"} => d = c
    BY <1>5 DEF Create, ReturnError, Return
  <2>3. ASSUME pc'[c] = "write"
        PROVE  /\ mine' # {} /\ mine' \subseteq dir'
               /\ \A f \in mine' : f.tmp /\ f.body = cur'[c]
    <3> DEFINE new == [ns |-> clock', seq |-> seq', tmp |-> TRUE,
                       body |-> cur[c], size |-> 0]
    <3>1. mine' = {new} /\ dir' = dir \cup mine' /\ cur' = cur
      BY <1>5, <2>3 DEF Create, ReturnError, Return
    <3>2. new.tmp /\ new.body = cur[c]
      OBVIOUS
    <3> HIDE DEF new
    <3> QED BY <3>1, <3>2, Zenon
  <2>4. TmpInPlace'
    <3>1. pc'[c] # "rename"
      BY <1>5 DEF Create, ReturnError, Return
    <3> QED BY <2>2, <2>3, <3>1
  <2> QED BY <2>1, <2>4
<1>6. ASSUME NEW c \in Callers, Write(c)
      PROVE  Serialised' /\ PayloadAtHand' /\ TmpInPlace'
  <2>1. Serialised' /\ PayloadAtHand'
    BY <1>6 DEF Write, AbandonTmp, ReturnError, Return
  <2>2. \A d \in Callers : pc'[d] \in {"write", "rename"} => d = c
    BY <1>6 DEF Write, AbandonTmp, ReturnError, Return
  <2>3. ASSUME pc'[c] \in {"write", "rename"}
        PROVE  /\ mine' # {} /\ mine' \subseteq dir'
               /\ \A f \in mine' : f.tmp /\ f.body = cur'[c]
    <3>1. /\ mine' = {[f EXCEPT !.size = Length[f.body]] : f \in mine}
          /\ dir' = (dir \ mine) \cup mine' /\ cur' = cur
      BY <1>6, <2>3 DEF Write, AbandonTmp, ReturnError, Return
    <3>2. mine # {} /\ mine \subseteq File
             /\ \A f \in mine : f.tmp /\ f.body = cur[c]
      BY <1>6 DEF Write
    <3>3. ASSUME NEW f \in File
          PROVE  /\ [f EXCEPT !.size = Length[f.body]].tmp = f.tmp
                 /\ [f EXCEPT !.size = Length[f.body]].body = f.body
      BY DEF File
    <3>4. ASSUME NEW g \in mine' PROVE g.tmp /\ g.body = cur'[c]
      <4>1. PICK f \in mine : g = [f EXCEPT !.size = Length[f.body]]
        BY <3>1
      <4>2. f \in File /\ f.tmp /\ f.body = cur[c]
        BY <3>2
      <4>3. g.tmp = f.tmp /\ g.body = f.body
        BY <3>3, <4>1, <4>2
      <4> QED BY <3>1, <4>2, <4>3
    <3>5. mine' # {}
      <4>1. PICK f \in mine : TRUE
        BY <3>2
      <4>2. [f EXCEPT !.size = Length[f.body]] \in mine'
        BY <3>1, <4>1
      <4> QED BY <4>2
    <3> QED BY <3>1, <3>4, <3>5
  <2>4. TmpInPlace'
    BY <2>2, <2>3
  <2> QED BY <2>1, <2>4
<1>7. ASSUME NEW c \in Callers, Rename(c)
      PROVE  Serialised' /\ PayloadAtHand' /\ TmpInPlace'
  BY <1>7 DEF Rename, AbandonTmp, ReturnError, Return
<1>8. ASSUME NEW c \in Callers, ReadDir(c)
      PROVE  Serialised' /\ PayloadAtHand' /\ TmpInPlace'
  BY <1>8 DEF ReadDir, ReturnNil, Return
<1>9. ASSUME NEW c \in Callers, Evict(c)
      PROVE  Serialised' /\ PayloadAtHand' /\ TmpInPlace'
  BY <1>9 DEF Evict
<1>10. ASSUME NEW c \in Callers, EvictDone(c)
       PROVE  Serialised' /\ PayloadAtHand' /\ TmpInPlace'
  BY <1>10 DEF EvictDone, ReturnNil, Return
<1>11. CASE Tick \/ ReplayStop
  BY <1>11 DEF Tick, ReplayStop
<1>12. CASE ReplayNext
  BY <1>12 DEF ReplayNext
<1>13. CASE ReplayRead
  BY <1>13 DEF ReplayRead, Bail
<1>14. CASE ReplayPublish
  BY <1>14 DEF ReplayPublish, Bail
<1>15. CASE ReplayDelete
  BY <1>15 DEF ReplayDelete
<1>16. CASE Outage \/ StepBack
  BY <1>16 DEF Outage, StepBack, procVars
<1>17. CASE Crash
  BY <1>17 DEF Crash
<1>18. CASE UNCHANGED vars
  BY <1>18 DEF vars, procVars
<1> QED BY <1>1, <1>2, <1>3, <1>4, <1>5, <1>6, <1>7, <1>8, <1>9, <1>10, <1>11,
           <1>12, <1>13, <1>14, <1>15, <1>16, <1>17, <1>18
        DEF Next, Caller, Replay

-----------------------------------------------------------------------------
\* A payload stays kept when deliveries only grow and every file that leaves
\* the spool was delivered or is recorded as evicted.
LEMMA KeptStays ==
    ASSUME TypeOK, TypeOK', NEW p \in Payloads, Kept(p),
           \A q \in Payloads : delivered[q] <= delivered'[q],
           evicted \subseteq evicted',
           \A f \in Spooled(dir) :
               f \in dir' \/ delivered'[f.body] > 0 \/ f.body \in evicted'
    PROVE  Kept(p)'
<1>1. delivered \in [Payloads -> Nat] /\ delivered' \in [Payloads -> Nat]
  BY DEF TypeOK
<1>2. CASE delivered[p] > 0
  <2>1. delivered'[p] > 0
    BY <1>1, <1>2
  <2> QED BY <2>1 DEF Kept
<1>3. CASE p \in Bodies(dir)
  <2>1. PICK f \in Spooled(dir) : f.body = p
    BY <1>3 DEF Bodies
  <2>2. f \in dir' => f \in Spooled(dir')
    BY DEF Spooled
  <2> QED BY <2>1, <2>2 DEF Kept, Bodies
<1>4. CASE p \in evicted
  BY <1>4 DEF Kept
<1> QED BY <1>2, <1>3, <1>4 DEF Kept

\* No step of the system takes a delivery back.
LEMMA DeliveriesGrow ==
    ASSUME SpoolInv, [Next]_vars
    PROVE  \A q \in Payloads : delivered[q] <= delivered'[q]
<1>1. TypeOK /\ PayloadAtHand
  BY DEF SpoolInv
<1>2. CASE UNCHANGED delivered
  BY <1>1, <1>2 DEF TypeOK
<1>3. ASSUME NEW c \in Callers, PublishLive(c) \/ PublishFailed(c)
      PROVE  \A q \in Payloads : delivered[q] <= delivered'[q]
  <2>1. cur[c] \in Payloads
    BY <1>1, <1>3 DEF PublishLive, PublishFailed, PayloadAtHand
  <2> QED BY <1>1, <1>3, <2>1, UpstreamTypes DEF PublishLive, PublishFailed
<1>4. CASE ReplayPublish
  <2>1. PICK f \in todo : UpstreamOK(f.body) \/ UpstreamError(f.body)
    BY <1>4 DEF ReplayPublish
  <2>2. f.body \in Payloads
    BY <1>1 DEF TypeOK, File
  <2> QED BY <1>1, <2>1, <2>2, UpstreamTypes
<1> QED BY <1>2, <1>3, <1>4
        DEF Next, Caller, Replay, vars, Publish, Lock, Create, Write, Rename,
            ReadDir, Evict, EvictDone, Tick, ReplayNext, ReplayRead,
            ReplayDelete, ReplayStop, Outage, Crash, StepBack

\* A file leaves the spool only after its delivery or as a recorded eviction.
LEMMA FilesAccounted ==
    ASSUME SpoolInv, [Next]_vars
    PROVE  /\ evicted \subseteq evicted'
           /\ \A f \in Spooled(dir) :
                f \in dir' \/ delivered'[f.body] > 0 \/ f.body \in evicted'
<1> DEFINE Goal == /\ evicted \subseteq evicted'
                   /\ \A f \in Spooled(dir) :
                        f \in dir' \/ delivered'[f.body] > 0 \/ f.body \in evicted'
<1>1. CASE UNCHANGED <<dir, evicted>>
  BY <1>1 DEF Spooled
<1>2. ASSUME NEW c \in Callers, Create(c) PROVE Goal
  BY <1>2 DEF Create, Spooled
<1>3. ASSUME NEW c \in Callers, Write(c) \/ Rename(c) PROVE Goal
  <2>1. \A f \in mine : f.tmp
    BY <1>3 DEF Write, Rename, SpoolInv, TmpInPlace
  <2>2. dir \ mine \subseteq dir' /\ evicted' = evicted
    BY <1>3 DEF Write, Rename, AbandonTmp
  <2> QED BY <2>1, <2>2, Zenon DEF Spooled
<1>4. ASSUME NEW c \in Callers, Evict(c) PROVE Goal
  <2>1. PICK f \in dir :
          \/ /\ dir' = dir \ {f}
             /\ evicted' = IF f.tmp THEN evicted ELSE evicted \cup {f.body}
          \/ UNCHANGED <<dir, evicted>>
    BY <1>4 DEF Evict
  <2> QED BY <2>1, Zenon DEF Spooled
<1>5. CASE ReplayDelete
  <2>1. PICK f \in todo : /\ IsOldest(f, todo)
                          /\ dir' = dir \ {f} \/ UNCHANGED dir
    BY <1>5 DEF ReplayDelete
  <2>2. delivered[f.body] > 0 /\ delivered' = delivered /\ evicted' = evicted
    BY <1>5, <2>1 DEF ReplayDelete, SpoolInv, DeliveredBeforeDelete, histVars
  <2> QED BY <2>1, <2>2 DEF Spooled
<1> QED BY <1>1, <1>2, <1>3, <1>4, <1>5
        DEF Next, Caller, Replay, vars, histVars, Publish, Lock, PublishLive,
            PublishFailed, ReadDir, EvictDone, Tick, ReplayNext, ReplayRead,
            ReplayPublish, ReplayStop, Outage, Crash, StepBack

\* Nothing kept is ever lost.
LEMMA NothingLost ==
    ASSUME SpoolInv, [Next]_vars
    PROVE  \A p \in Payloads : Kept(p) => Kept(p)'
<1>1. TypeOK /\ TypeOK'
  BY TypesPreserved DEF SpoolInv
<1> QED BY <1>1, KeptStays, DeliveriesGrow, FilesAccounted

\* A renamed file is in the spool.
LEMMA RenameKeeps ==
    ASSUME SpoolInv, NEW c \in Callers, Rename(c), pc'[c] = "readdir"
    PROVE  cur[c] \in Bodies(dir')
<1>1. /\ mine' = {[f EXCEPT !.tmp = FALSE] : f \in mine}
      /\ dir' = (dir \ mine) \cup mine'
  BY DEF Rename, AbandonTmp, ReturnError, Return, SpoolInv, TypeOK
<1>2. PICK f \in mine : f.body = cur[c] /\ f \in File
  BY DEF SpoolInv, TmpInPlace, Rename, TypeOK
<1> DEFINE g == [f EXCEPT !.tmp = FALSE]
<1>3. g \in dir'
  BY <1>1, <1>2
<1>4. g.body = cur[c] /\ ~g.tmp
  BY <1>2, Zenon DEF File
<1> HIDE DEF g
<1> QED BY <1>3, <1>4 DEF Bodies, Spooled

\* A caller is about to return, or returns, only with a kept payload.
LEMMA SafePreserved ==
    ASSUME SpoolInv, [Next]_vars
    PROVE  SafeBeforeReturn' /\ AtLeastOnce'
<1> DEFINE Goal == SafeBeforeReturn' /\ AtLeastOnce'
<1>1. \A p \in Payloads : Kept(p) => Kept(p)'
  BY NothingLost
<1>2. /\ accepted \subseteq Payloads
      /\ \A p \in accepted : Kept(p)
      /\ \A c \in Callers : pc[c] # "idle" => cur[c] \in Payloads
      /\ \A c \in Callers : pc[c] \in {"readdir", "evict"} => Kept(cur[c])
      /\ pc \in [Callers -> {"idle", "lock", "upstream", "create", "write",
                             "rename", "readdir", "evict"}]
  BY DEF SpoolInv, TypeOK, AtLeastOnce, Kept, PayloadAtHand, SafeBeforeReturn
<1>3. ASSUME \A p \in accepted' : p \in accepted \/ Kept(p)' PROVE AtLeastOnce'
  BY <1>1, <1>2, <1>3 DEF AtLeastOnce, Kept
<1>4. ASSUME \A c \in Callers : pc'[c] \in {"readdir", "evict"} =>
                 \/ pc[c] \in {"readdir", "evict"} /\ cur'[c] = cur[c]
                 \/ Kept(cur[c])'
      PROVE  SafeBeforeReturn'
  <2> SUFFICES ASSUME NEW c \in Callers, pc'[c] \in {"readdir", "evict"}
               PROVE  Kept(cur[c])'
    BY DEF SafeBeforeReturn, Kept
  <2>1. CASE pc[c] \in {"readdir", "evict"} /\ cur'[c] = cur[c]
    <3>1. cur[c] \in Payloads /\ Kept(cur[c])
      BY <1>2, <2>1
    <3>2. \A p \in Payloads : Kept(p) =>
            delivered'[p] > 0 \/ p \in Bodies(dir') \/ p \in evicted'
      BY <1>1 DEF Kept
    <3> QED BY <2>1, <3>1, <3>2 DEF Kept
  <2> QED BY <1>4, <2>1
<1>5. ASSUME NEW c \in Callers, PublishLive(c) PROVE Goal
  <2>1. cur[c] \in Payloads
    BY <1>2, <1>5 DEF PublishLive
  <2>2. delivered'[cur[c]] > 0
    BY <1>5, <2>1 DEF PublishLive, UpstreamOK, Delivers, SpoolInv, TypeOK
  <2>3. \A p \in accepted' : p \in accepted \/ Kept(p)'
    BY <1>5, <2>2 DEF PublishLive, ReturnNil, Kept
  <2>4. \A d \in Callers : pc'[d] \in {"readdir", "evict"} =>
            pc[d] \in {"readdir", "evict"} /\ cur'[d] = cur[d]
    BY <1>2, <1>5 DEF PublishLive, ReturnNil, Return, SpoolInv, TypeOK
  <2> QED BY <1>3, <1>4, <2>3, <2>4
<1>6. ASSUME NEW c \in Callers, ReadDir(c) \/ EvictDone(c) PROVE Goal
  <2>1. cur[c] \in Payloads /\ Kept(cur[c])
    BY <1>2, <1>6 DEF ReadDir, EvictDone
  <2>2. accepted' \subseteq accepted \cup {cur[c]}
    BY <1>6 DEF ReadDir, EvictDone, ReturnNil
  <2>3. \A p \in accepted' : p \in accepted \/ Kept(p)'
    BY <1>1, <2>1, <2>2
  <2>4. \A d \in Callers : pc'[d] \in {"readdir", "evict"} =>
            pc[d] \in {"readdir", "evict"} /\ cur'[d] = cur[d]
    BY <1>2, <1>6 DEF ReadDir, EvictDone, ReturnNil, Return, SpoolInv, TypeOK
  <2> QED BY <1>3, <1>4, <2>3, <2>4
<1>7. ASSUME NEW c \in Callers, Rename(c) PROVE Goal
  <2>1. accepted' = accepted
    BY <1>7 DEF Rename, AbandonTmp, ReturnError
  <2>2. ASSUME NEW d \in Callers, pc'[d] \in {"readdir", "evict"}
        PROVE  \/ pc[d] \in {"readdir", "evict"} /\ cur'[d] = cur[d]
               \/ Kept(cur[d])'
    <3>1. CASE d = c
      <4>1. pc'[c] = "readdir" /\ cur' = cur
        BY <1>2, <1>7, <2>2, <3>1 DEF Rename, AbandonTmp, ReturnError, Return
      <4>2. cur[c] \in Bodies(dir')
        BY <1>7, <4>1, RenameKeeps
      <4> QED BY <3>1, <4>1, <4>2 DEF Kept
    <3>2. CASE d # c
      BY <1>2, <1>7, <2>2, <3>2
         DEF Rename, AbandonTmp, ReturnError, Return, SpoolInv, TypeOK
    <3> QED BY <3>1, <3>2
  <2> QED BY <1>3, <1>4, <2>1, <2>2
<1>8. CASE Crash
  <2>1. accepted' = accepted /\ \A d \in Callers : pc'[d] = "idle"
    BY <1>8 DEF Crash, histVars
  <2> QED BY <1>3, <1>4, <2>1
<1>9. ASSUME /\ accepted' = accepted
             /\ \A d \in Callers : pc'[d] \in {"readdir", "evict"} =>
                    pc[d] \in {"readdir", "evict"} /\ cur'[d] = cur[d]
      PROVE  Goal
  BY <1>3, <1>4, <1>9
<1>10. ASSUME NEW c \in Callers, NEW p \in Payloads, Publish(c, p) PROVE Goal
  BY <1>2, <1>9, <1>10 DEF Publish, SpoolInv, TypeOK
<1>11. ASSUME NEW c \in Callers,
              Lock(c) \/ PublishFailed(c) \/ Create(c) \/ Write(c) \/ Evict(c)
       PROVE  Goal
  BY <1>2, <1>9, <1>11
     DEF Lock, PublishFailed, Create, Write, Evict, AbandonTmp, ReturnError,
         Return, histVars, SpoolInv, TypeOK
<1>12. CASE Replay \/ ReplayStop \/ Outage \/ StepBack \/ UNCHANGED vars
  BY <1>9, <1>12
     DEF Replay, Tick, ReplayNext, ReplayRead, ReplayPublish, ReplayDelete,
         ReplayStop, Outage, StepBack, vars, procVars, histVars
<1> QED BY <1>5, <1>6, <1>7, <1>8, <1>10, <1>11, <1>12 DEF Next, Caller

\* The replay reaches its Delete only through a successful publish of the file.
LEMMA DeletePreserved ==
    ASSUME SpoolInv, [Next]_vars
    PROVE  DeliveredBeforeDelete'
<1>1. /\ todo \in SUBSET File
      /\ delivered \in [Payloads -> Nat]
      /\ delivered' \in [Payloads -> Nat]
  BY TypesPreserved DEF SpoolInv, TypeOK
<1>2. CASE ReplayPublish
  <2> SUFFICES ASSUME rpc' = "delete", NEW g \in todo', IsOldest(g, todo')
               PROVE  delivered'[g.body] > 0
    BY DEF DeliveredBeforeDelete
  <2>1. PICK f \in todo : /\ IsOldest(f, todo)
                          /\ UpstreamOK(f.body)
                          /\ todo' = todo
    BY <1>2 DEF ReplayPublish, Bail
  <2>2. f = g
    BY <1>1, <2>1, OldestUnique
  <2>3. f.body \in Payloads
    BY <1>1 DEF File
  <2> QED BY <1>1, <2>1, <2>2, <2>3 DEF UpstreamOK, Delivers
<1>3. CASE rpc' # "delete"
  BY <1>3 DEF DeliveredBeforeDelete
<1>4. CASE rpc' = rpc /\ todo' = todo
  <2>1. \A q \in Payloads : delivered[q] <= delivered'[q]
    BY DeliveriesGrow
  <2>2. \A f \in todo : f.body \in Payloads
    BY <1>1 DEF File
  <2> QED BY <1>1, <1>4, <2>1, <2>2
          DEF SpoolInv, DeliveredBeforeDelete, IsOldest
<1> QED BY <1>2, <1>3, <1>4
        DEF Next, Caller, Replay, vars, procVars, Publish, Lock, PublishLive,
            PublishFailed, Create, Write, Rename, ReadDir, Evict, EvictDone,
            Tick, ReplayNext, ReplayRead, ReplayDelete, ReplayStop, Bail,
            Outage, Crash, StepBack

-----------------------------------------------------------------------------
\* The invariant holds in every reachable state.
LEMMA SpoolInvariant == Spec => []SpoolInv
<1>1. SpoolInv /\ [Next]_vars => SpoolInv'
  BY TypesPreserved, ControlPreserved, SafePreserved, DeletePreserved DEF SpoolInv
<1> QED BY <1>1, InitOK, PTL DEF Spec

\* Type correctness of the spooled publisher.
THEOREM SpoolTypeCorrect == Spec => []TypeOK
<1>1. SpoolInv => TypeOK
  BY DEF SpoolInv
<1> QED BY <1>1, SpoolInvariant, PTL

\* At-least-once across restarts: whatever crashes, I/O errors, late
\* acknowledgements and clock steps happen, a payload Publish returned nil for
\* was delivered, is in the spool, or was evicted for the size cap.
THEOREM SpoolAtLeastOnce == Spec => []AtLeastOnce
<1>1. SpoolInv => AtLeastOnce
  BY DEF SpoolInv
<1> QED BY <1>1, SpoolInvariant, PTL

\* liveBusy serialises live publishes and the replay: two goroutines are never
\* both past their Lock.
THEOREM SpoolSerialised == Spec => []Serialised
<1>1. SpoolInv => Serialised
  BY DEF SpoolInv
<1> QED BY <1>1, SpoolInvariant, PTL

-----------------------------------------------------------------------------
(***************************************************************************)
(* The promises that count or order: losses are counted, duplicates are    *)
(* paid for by a fault, the size cap holds when Append returns, replay is  *)
(* chronological, and a nil from Publish means that the payload is kept.   *)
(*                                                                         *)
(* They extend the invariant above with the life of one payload (one call  *)
(* of Publish, one file, one rank), with the order of the names, which     *)
(* follows the clock and the sequence number, and with a ledger of the     *)
(* deliveries that may still be repeated.                                  *)
(***************************************************************************)
\* One call of Publish per payload: what a caller has in hand is nobody else's,
\* is not ranked before its Rename, and not delivered before its publish.
OncePerPayload ==
    /\ \A c \in Callers : pc[c] # "idle" => cur[c] \in used
    /\ \A c, d \in Callers :
           pc[c] # "idle" /\ pc[d] # "idle" /\ c # d => cur[c] # cur[d]
    /\ \A p \in Payloads : rank[p] > 0 \/ delivered[p] > 0 => p \in used
    /\ \A c \in Callers :
           pc[c] \in {"lock", "upstream"} => delivered[cur[c]] = 0
    /\ \A c \in Callers :
           pc[c] \in {"lock", "upstream", "create", "write", "rename"} =>
               rank[cur[c]] = 0

\* A spooled file was renamed once, and no payload has two.
OneFilePerPayload ==
    /\ \A f \in todo : ~f.tmp /\ rank[f.body] > 0
    /\ \A f \in Spooled(dir) : rank[f.body] > 0
    /\ \A f, g \in Spooled(dir) : f.body = g.body => f = g

\* A running Append has one file, which holds its payload; it is complete from
\* the Rename on.
AppendOwnsFile ==
    \A c \in Callers : pc[c] \in {"write", "rename", "readdir", "evict"} =>
        /\ \A f, g \in mine : f = g
        /\ \A f \in mine : f.body = cur[c]
        /\ pc[c] # "write" => \A f \in mine : f.size = Length[f.body]
        /\ pc[c] \in {"readdir", "evict"} => mine # {} /\ \A f \in mine : ~f.tmp

\* The file the replay publishes or deletes is in the spool: eviction would
\* need liveBusy.
ReplayAtHand ==
    rpc \in {"publish", "delete"} =>
        \A f \in todo : IsOldest(f, todo) => f \in dir

LifeInv ==
    /\ SpoolInv
    /\ OncePerPayload
    /\ OneFilePerPayload
    /\ AppendOwnsFile
    /\ ReplayAtHand

-----------------------------------------------------------------------------
Ranked == {p \in Payloads : rank[p] > 0}

\* Ranks are given out one by one.
RankBound == \A p \in Payloads : rank[p] <= Cardinality(Ranked)

\* While the clock is not set back, the newest file has the newest name and the
\* order of the names is the order of the Renames.
NamesOrdered ==
    stepBacks = 0 =>
        /\ \A f \in dir \cup todo :
               f.ns < clock \/ (f.ns = clock /\ f.seq <= seq)
        /\ \A c \in Callers : pc[c] \in {"write", "rename", "readdir", "evict"} =>
               \A f \in (dir \cup todo) \ mine : \A m \in mine : Older(f, m)
        /\ \A f, g \in Spooled(dir \cup todo) :
               rank[f.body] < rank[g.body] => Older(f, g)

\* A file that the replay does not have on its list was delivered, or was
\* spooled after every file of the list.
BehindReplay ==
    rpc \in {"next", "read", "publish", "delete"} =>
        \A g \in Spooled(dir) \ todo :
            delivered[g.body] > 0 \/ \A f \in todo : rank[f.body] < rank[g.body]

OrderInv == RankBound /\ NamesOrdered /\ BehindReplay

-----------------------------------------------------------------------------
\* Every eviction of a payload is counted, until a restart forgets the count.
EvictionsCounted == crashes = 0 => Cardinality(evicted) <= drops

\* Outside the part of Append that follows the write, the cap holds.
CapOutsideAppend ==
    /\ IsFiniteSet(BytesOf(dir))
    /\ faults = 0 => stuck = {}
    /\ /\ faults = 0 /\ crashes = 0
       /\ \A c \in Callers : pc[c] \notin {"rename", "readdir", "evict"}
       => Total(dir) <= MaxBytes

\* Until Append returns, evict has not touched the file it has just written.
OwnFileKept ==
    faults = 0 /\ stepBacks = 0 =>
        \A c \in Callers :
            pc[c] \in {"readdir", "evict"} /\ Length[cur[c]] <= MaxBytes =>
                mine \subseteq dir

-----------------------------------------------------------------------------
\* The payloads a publish may still be made of.
Outstanding ==
    Bodies(dir) \cup
        {cur[c] : c \in {d \in Callers : pc[d] \in {"create", "write", "rename"}}}

\* The payload whose file is about to be deleted after its delivery.
Settling ==
    IF rpc = "delete" THEN {f.body : f \in {g \in todo : IsOldest(g, todo)}}
                      ELSE {}

\* The duplicates still to come: delivered payloads that may be delivered again.
Debt == {p \in Payloads : delivered[p] > 0 /\ p \in Outstanding} \ Settling

\* What there is to pay duplicates with.
Paid == faults + crashes

\* Duplicates that happened or may still happen were paid for by a fault.
LedgerBalanced ==
    /\ IsFiniteSet(Duplicates)
    /\ Cardinality(Duplicates) + Cardinality(Debt) <= Paid

-----------------------------------------------------------------------------
\* What a failed call does to the counters of the model.
LEMMA FaultCounts ==
    ASSUME NEW k, Fault(k)
    PROVE  faults' = faults + 1 /\ UNCHANGED <<configured, crashes, stepBacks>>
BY DEF Fault

\* What a publish to the upstream does to the deliveries.
LEMMA UpstreamDelivers ==
    ASSUME TypeOK, NEW p \in Payloads, UpstreamOK(p) \/ UpstreamError(p)
    PROVE  /\ \A q \in Payloads : q # p => delivered'[q] = delivered[q]
           /\ UNCHANGED <<crashes, stepBacks>>
<1>1. (UNCHANGED delivered) \/ Delivers(p)
  BY DEF UpstreamOK, UpstreamError
<1>2. (UNCHANGED bounds) \/ Fault("upstream") \/ Fault("lateAck")
  BY DEF UpstreamOK, UpstreamError, bounds
<1> QED BY <1>1, <1>2, FaultCounts DEF Delivers, bounds, TypeOK

LEMMA LifeInitOK == Init => LifeInv
<1> SUFFICES ASSUME Init PROVE LifeInv
  OBVIOUS
<1>1. SpoolInv
  BY InitOK
<1>2. OncePerPayload
  BY DEF Init, OncePerPayload
<1>3. OneFilePerPayload /\ AppendOwnsFile /\ ReplayAtHand
  BY DEF Init, OneFilePerPayload, AppendOwnsFile, ReplayAtHand, Spooled
<1> QED BY <1>1, <1>2, <1>3 DEF LifeInv

\* The steps that leave the history and what the callers do alone.
CallersIdle == UNCHANGED <<pc, cur, used, rank, delivered>>

LEMMA OncePreserved ==
    ASSUME LifeInv, [Next]_vars
    PROVE  OncePerPayload'
<1> USE SpoolConstants DEF LifeInv, SpoolInv, TypeOK, PayloadAtHand, OncePerPayload
<1>1. ASSUME NEW c \in Callers, NEW p \in Payloads, Publish(c, p)
      PROVE  OncePerPayload'
  BY <1>1 DEF Publish
<1>2. ASSUME NEW c \in Callers, Lock(c) PROVE OncePerPayload'
  BY <1>2 DEF Lock, histVars
<1>3. ASSUME NEW c \in Callers, PublishLive(c) PROVE OncePerPayload'
  <2>1. /\ cur[c] \in Payloads
        /\ \A q \in Payloads : q # cur[c] => delivered'[q] = delivered[q]
    BY <1>3, UpstreamDelivers DEF PublishLive
  <2> QED BY <1>3, <2>1 DEF PublishLive, ReturnNil, Return
<1>4. ASSUME NEW c \in Callers, PublishFailed(c) PROVE OncePerPayload'
  <2>1. /\ cur[c] \in Payloads
        /\ \A q \in Payloads : q # cur[c] => delivered'[q] = delivered[q]
    BY <1>4, UpstreamDelivers DEF PublishFailed
  <2> QED BY <1>4, <2>1 DEF PublishFailed, ReturnError, Return
<1>5. ASSUME NEW c \in Callers, Create(c) PROVE OncePerPayload'
  BY <1>5 DEF Create, ReturnError, Return
<1>6. ASSUME NEW c \in Callers, Write(c) PROVE OncePerPayload'
  BY <1>6 DEF Write, AbandonTmp, ReturnError, Return
<1>7. ASSUME NEW c \in Callers, Rename(c) PROVE OncePerPayload'
  <2>1. /\ cur[c] \in Payloads
        /\ \A q \in Payloads : q # cur[c] => rank'[q] = rank[q]
    BY <1>7 DEF Rename, AbandonTmp
  <2> QED BY <1>7, <2>1 DEF Rename, AbandonTmp, ReturnError, Return
<1>8. ASSUME NEW c \in Callers, ReadDir(c) PROVE OncePerPayload'
  BY <1>8 DEF ReadDir, ReturnNil, Return
<1>9. ASSUME NEW c \in Callers, EvictDone(c) PROVE OncePerPayload'
  BY <1>9 DEF EvictDone, ReturnNil, Return
<1>10. CASE CallersIdle
  BY <1>10 DEF CallersIdle
<1>11. CASE ReplayPublish
  <2>1. PICK f \in todo : UpstreamOK(f.body) \/ UpstreamError(f.body)
    BY <1>11 DEF ReplayPublish
  <2>2. f.body \in Payloads
    BY DEF File
  <2>3. \A q \in Payloads : q # f.body => delivered'[q] = delivered[q]
    BY <2>1, <2>2, UpstreamDelivers
  <2>4. rank[f.body] > 0
    BY DEF OneFilePerPayload
  <2>5. UNCHANGED <<pc, cur, used, rank>>
    BY <1>11 DEF ReplayPublish, histVars
  <2> QED BY <2>2, <2>3, <2>4, <2>5
<1>12. CASE Crash
  BY <1>12 DEF Crash, histVars
<1> QED BY <1>1, <1>2, <1>3, <1>4, <1>5, <1>6, <1>7, <1>8, <1>9, <1>10, <1>11, <1>12
        DEF Next, Caller, Replay, CallersIdle, Evict, Tick, ReplayNext, ReplayRead,
            ReplayDelete, ReplayStop, Outage, StepBack, vars, procVars, histVars

-----------------------------------------------------------------------------
\* The file of a running Append before and after its write.
LEMMA WrittenFile ==
    ASSUME LifeInv, NEW c \in Callers, Write(c), pc'[c] = "rename"
    PROVE  \E m, n \in File :
             /\ mine = {m} /\ mine' = {n} /\ m \in dir /\ m.tmp /\ n.tmp
             /\ n.ns = m.ns /\ n.seq = m.seq /\ m.body = cur[c] /\ n.body = cur[c]
             /\ n.size = Length[n.body]
             /\ dir' = (dir \ {m}) \cup {n} /\ cur' = cur /\ rank' = rank
<1>1. /\ mine' = {[f EXCEPT !.size = Length[f.body]] : f \in mine}
      /\ dir' = (dir \ mine) \cup mine' /\ cur' = cur /\ rank' = rank
      /\ pc[c] = "write"
  BY DEF Write, AbandonTmp, ReturnError, Return, LifeInv, SpoolInv, TypeOK
<1>2. PICK m \in mine : mine = {m}
  BY <1>1 DEF LifeInv, SpoolInv, TmpInPlace, AppendOwnsFile
<1>3. m \in File /\ m \in dir /\ m.tmp /\ m.body = cur[c]
  BY <1>1, <1>2 DEF LifeInv, SpoolInv, TmpInPlace, TypeOK
<1> DEFINE n == [m EXCEPT !.size = Length[m.body]]
<1>4. /\ n \in File /\ n.ns = m.ns /\ n.seq = m.seq /\ n.tmp = m.tmp
      /\ n.body = m.body /\ n.size = Length[m.body]
  <2>1. m.body \in Payloads
    BY <1>3 DEF File
  <2>2. Length[m.body] \in Nat
    BY <2>1, SpoolConstants
  <2> QED BY <1>3, <2>2 DEF File
<1>5. mine' = {n}
  BY <1>1, <1>2
<1> HIDE DEF n
<1> QED BY <1>1, <1>2, <1>3, <1>4, <1>5

\* The same for the rename.
LEMMA RenamedFile ==
    ASSUME LifeInv, NEW c \in Callers, Rename(c), pc'[c] = "readdir"
    PROVE  \E m, n \in File :
             /\ mine = {m} /\ mine' = {n} /\ m \in dir /\ m.tmp /\ ~n.tmp
             /\ n.ns = m.ns /\ n.seq = m.seq /\ m.body = cur[c] /\ n.body = cur[c]
             /\ n.size = Length[n.body]
             /\ dir' = (dir \ {m}) \cup {n} /\ cur' = cur
             /\ rank' = [rank EXCEPT ![cur[c]] = 1 + Cardinality(Ranked)]
<1>1. /\ mine' = {[f EXCEPT !.tmp = FALSE] : f \in mine}
      /\ dir' = (dir \ mine) \cup mine' /\ cur' = cur
      /\ rank' = [rank EXCEPT ![cur[c]] = 1 + Cardinality(Ranked)]
      /\ pc[c] = "rename"
  BY DEF Rename, AbandonTmp, ReturnError, Return, LifeInv, SpoolInv, TypeOK, Ranked
<1>2. PICK m \in mine : mine = {m}
  BY <1>1 DEF LifeInv, SpoolInv, TmpInPlace, AppendOwnsFile
<1>3. /\ m \in File /\ m \in dir /\ m.tmp /\ m.body = cur[c]
      /\ m.size = Length[m.body]
  BY <1>1, <1>2 DEF LifeInv, SpoolInv, TmpInPlace, TypeOK, AppendOwnsFile
<1> DEFINE n == [m EXCEPT !.tmp = FALSE]
<1>4. /\ n \in File /\ n.ns = m.ns /\ n.seq = m.seq /\ ~n.tmp
      /\ n.body = m.body /\ n.size = m.size
  BY <1>3, Zenon DEF File
<1>5. mine' = {n}
  BY <1>1, <1>2
<1> HIDE DEF n
<1> QED BY <1>1, <1>2, <1>3, <1>4, <1>5

\* A payload keeps the rank it was given.
LEMMA RankStays ==
    ASSUME LifeInv, [Next]_vars
    PROVE  \A p \in Payloads : rank[p] > 0 => rank'[p] = rank[p]
<1>1. CASE UNCHANGED rank
  BY <1>1
<1>2. ASSUME NEW c \in Callers, Rename(c)
      PROVE  \A p \in Payloads : rank[p] > 0 => rank'[p] = rank[p]
  <2>1. cur[c] \in Payloads /\ rank[cur[c]] = 0 /\ rank \in [Payloads -> Nat]
    BY <1>2 DEF Rename, LifeInv, SpoolInv, PayloadAtHand, OncePerPayload, TypeOK
  <2> QED BY <1>2, <2>1 DEF Rename, AbandonTmp
<1> QED BY <1>1, <1>2
        DEF Next, Caller, Replay, vars, histVars, Publish, Lock, PublishLive,
            PublishFailed, Create, Write, AbandonTmp, ReadDir, Evict, EvictDone,
            Tick, ReplayNext, ReplayRead, ReplayPublish, ReplayDelete, ReplayStop,
            Outage, Crash, StepBack

\* A file enters the spool only by the Rename of an Append.
LEMMA SpoolGrows ==
    ASSUME LifeInv, [Next]_vars
    PROVE  \/ Spooled(dir') \subseteq Spooled(dir)
           \/ \E c \in Callers : Rename(c) /\ pc'[c] = "readdir"
<1> DEFINE Goal == \/ Spooled(dir') \subseteq Spooled(dir)
                   \/ \E c \in Callers : Rename(c) /\ pc'[c] = "readdir"
<1>1. CASE dir' \subseteq dir
  BY <1>1 DEF Spooled
<1>2. ASSUME NEW c \in Callers, Create(c) PROVE Goal
  <2>1. CASE UNCHANGED dir
    BY <2>1 DEF Spooled
  <2>2. CASE ~(UNCHANGED dir)
    <3> DEFINE new == [ns |-> clock', seq |-> seq', tmp |-> TRUE,
                       body |-> cur[c], size |-> 0]
    <3>1. dir' = dir \cup {new}
      BY <1>2, <2>2 DEF Create
    <3>2. new.tmp
      OBVIOUS
    <3> HIDE DEF new
    <3> QED BY <3>1, <3>2, Zenon DEF Spooled
  <2> QED BY <2>1, <2>2
<1>3. ASSUME NEW c \in Callers, Write(c) PROVE Goal
  <2>1. CASE pc'[c] = "rename"
    <3>1. PICK m, n \in File : n.tmp /\ dir' = (dir \ {m}) \cup {n}
      BY <1>3, <2>1, WrittenFile
    <3> QED BY <3>1, Zenon DEF Spooled
  <2>2. CASE pc'[c] # "rename"
    <3>1. dir' \subseteq dir
      BY <1>3, <2>2 DEF Write, AbandonTmp, LifeInv, SpoolInv, TypeOK
    <3> QED BY <1>1, <3>1
  <2> QED BY <2>1, <2>2
<1>4. ASSUME NEW c \in Callers, Rename(c) PROVE Goal
  <2>1. CASE pc'[c] = "readdir"
    BY <1>4, <2>1
  <2>2. CASE pc'[c] # "readdir"
    <3>1. dir' \subseteq dir
      BY <1>4, <2>2 DEF Rename, AbandonTmp, LifeInv, SpoolInv, TypeOK
    <3> QED BY <1>1, <3>1
  <2> QED BY <2>1, <2>2
<1> QED BY <1>1, <1>2, <1>3, <1>4
        DEF Next, Caller, Replay, vars, Publish, Lock, PublishLive,
            PublishFailed, ReadDir, Evict, EvictDone,
            Tick, ReplayNext, ReplayRead, ReplayPublish, ReplayDelete, ReplayStop,
            Outage, Crash, StepBack

\* The replay's list only shrinks, until the next Tick.
LEMMA ListShrinks ==
    ASSUME [Next]_vars
    PROVE  todo' \subseteq todo \/ Tick
BY DEF Next, Caller, Replay, vars, procVars, Publish, Lock, PublishLive,
       PublishFailed, Create, Write, Rename, ReadDir, Evict, EvictDone,
       ReplayNext, ReplayRead, ReplayPublish, ReplayDelete, ReplayStop, Bail,
       Outage, Crash, StepBack

LEMMA OneFilePreserved ==
    ASSUME LifeInv, [Next]_vars
    PROVE  OneFilePerPayload'
<1>1. /\ TypeOK /\ OneFilePerPayload
      /\ \A f \in dir \cup todo : f.body \in Payloads
  BY DEF LifeInv, SpoolInv, TypeOK, File
<1>2. \A p \in Payloads : rank[p] > 0 => rank'[p] = rank[p]
  BY RankStays
<1>3. \A f \in todo' : ~f.tmp /\ rank'[f.body] > 0
  <2>1. CASE todo' \subseteq todo
    BY <1>1, <1>2, <2>1 DEF OneFilePerPayload
  <2>2. CASE Tick
    <3>1. todo' = Spooled(dir) /\ rank' = rank
      BY <2>2 DEF Tick, histVars
    <3> QED BY <1>1, <3>1 DEF OneFilePerPayload, Spooled
  <2> QED BY <2>1, <2>2, ListShrinks
<1>4. CASE Spooled(dir') \subseteq Spooled(dir)
  BY <1>1, <1>2, <1>3, <1>4 DEF OneFilePerPayload, Spooled
<1>5. ASSUME NEW c \in Callers, Rename(c), pc'[c] = "readdir"
      PROVE  OneFilePerPayload'
  <2>1. PICK m, n \in File :
             /\ ~n.tmp /\ n.body = cur[c] /\ dir' = (dir \ {m}) \cup {n}
             /\ rank' = [rank EXCEPT ![cur[c]] = 1 + Cardinality(Ranked)]
    BY <1>5, RenamedFile
  <2>2. cur[c] \in Payloads /\ rank[cur[c]] = 0 /\ rank \in [Payloads -> Nat]
    BY <1>5 DEF Rename, LifeInv, SpoolInv, PayloadAtHand, OncePerPayload, TypeOK
  <2>3. rank'[cur[c]] > 0
    <3>1. Cardinality(Ranked) \in Nat
      BY SpoolConstants, FS_Subset, FS_CardinalityType DEF Ranked
    <3> QED BY <2>1, <2>2, <3>1
  <2>4. \A f \in Spooled(dir') : f = n \/ f \in Spooled(dir)
    BY <2>1 DEF Spooled
  <2>5. \A f \in Spooled(dir) : f.body # cur[c] /\ f.body \in Payloads /\ rank[f.body] > 0
    BY <1>1, <2>2 DEF OneFilePerPayload, Spooled
  <2>6. \A f \in Spooled(dir') : rank'[f.body] > 0
    BY <1>2, <2>1, <2>3, <2>4, <2>5
  <2>7. \A f, g \in Spooled(dir') : f.body = g.body => f = g
    BY <1>1, <2>1, <2>4, <2>5 DEF OneFilePerPayload
  <2> QED BY <1>3, <2>6, <2>7 DEF OneFilePerPayload
<1> QED BY <1>4, <1>5, SpoolGrows

LEMMA OwnsFilePreserved ==
    ASSUME LifeInv, [Next]_vars
    PROVE  AppendOwnsFile'
<1> USE SpoolConstants DEF LifeInv, SpoolInv, TypeOK, Serialised, AppendOwnsFile
<1>1. ASSUME NEW c \in Callers, NEW p \in Payloads, Publish(c, p)
      PROVE  AppendOwnsFile'
  BY <1>1 DEF Publish
<1>2. ASSUME NEW c \in Callers, Lock(c) \/ PublishLive(c) \/ PublishFailed(c)
      PROVE  AppendOwnsFile'
  <2>1. pc[c] \notin {"write", "rename", "readdir", "evict"}
        /\ pc'[c] \notin {"write", "rename", "readdir", "evict"}
    BY <1>2 DEF Lock, PublishLive, PublishFailed, ReturnNil, ReturnError, Return
  <2>2. \A d \in Callers : d # c => pc'[d] = pc[d]
    BY <1>2 DEF Lock, PublishLive, PublishFailed, ReturnNil, ReturnError, Return
  <2>3. \A d \in Callers : pc'[d] \notin {"write", "rename", "readdir", "evict"}
    BY <1>2, <2>1, <2>2 DEF Lock, PublishLive, PublishFailed
  <2> QED BY <2>3
<1>3. ASSUME NEW c \in Callers, Create(c) PROVE AppendOwnsFile'
  <2>1. \A d \in Callers : d # c =>
            pc'[d] \notin {"write", "rename", "readdir", "evict"}
    BY <1>3 DEF Create, ReturnError, Return
  <2>2. pc'[c] \in {"write", "idle"}
    BY <1>3 DEF Create, ReturnError, Return
  <2>3. ASSUME pc'[c] = "write"
        PROVE  (\A f, g \in mine' : f = g) /\ \A f \in mine' : f.body = cur'[c]
    <3> DEFINE new == [ns |-> clock', seq |-> seq', tmp |-> TRUE,
                       body |-> cur[c], size |-> 0]
    <3>1. mine' = {new} /\ cur' = cur
      BY <1>3, <2>3 DEF Create, ReturnError, Return
    <3>2. new.body = cur[c]
      OBVIOUS
    <3> HIDE DEF new
    <3> QED BY <3>1, <3>2, Zenon
  <2> QED BY <2>1, <2>2, <2>3
<1>4. ASSUME NEW c \in Callers, Write(c) PROVE AppendOwnsFile'
  <2>1. \A d \in Callers : d # c =>
            pc'[d] \notin {"write", "rename", "readdir", "evict"}
    BY <1>4 DEF Write, AbandonTmp, ReturnError, Return
  <2>2. pc'[c] \in {"rename", "idle"}
    BY <1>4 DEF Write, AbandonTmp, ReturnError, Return
  <2>3. ASSUME pc'[c] = "rename"
        PROVE  /\ \A f, g \in mine' : f = g
               /\ \A f \in mine' : f.body = cur'[c] /\ f.size = Length[f.body]
    BY <1>4, <2>3, WrittenFile
  <2> QED BY <2>1, <2>2, <2>3
<1>5. ASSUME NEW c \in Callers, Rename(c) PROVE AppendOwnsFile'
  <2>1. \A d \in Callers : d # c =>
            pc'[d] \notin {"write", "rename", "readdir", "evict"}
    BY <1>5 DEF Rename, AbandonTmp, ReturnError, Return
  <2>2. pc'[c] \in {"readdir", "idle"}
    BY <1>5 DEF Rename, AbandonTmp, ReturnError, Return
  <2>3. ASSUME pc'[c] = "readdir"
        PROVE  /\ mine' # {} /\ \A f, g \in mine' : f = g
               /\ \A f \in mine' : f.body = cur'[c] /\ f.size = Length[f.body] /\ ~f.tmp
    BY <1>5, <2>3, RenamedFile
  <2> QED BY <2>1, <2>2, <2>3
<1>6. ASSUME NEW c \in Callers, ReadDir(c) \/ EvictDone(c) PROVE AppendOwnsFile'
  <2>1. \A d \in Callers : d # c =>
            pc'[d] \notin {"write", "rename", "readdir", "evict"}
    BY <1>6 DEF ReadDir, EvictDone, ReturnNil, Return
  <2>2. /\ pc'[c] \in {"evict", "idle"}
        /\ pc'[c] = "evict" => pc[c] = "readdir" /\ UNCHANGED <<mine, cur>>
    BY <1>6 DEF ReadDir, EvictDone, ReturnNil, Return
  <2> QED BY <2>1, <2>2
<1>7. CASE UNCHANGED <<pc, cur, mine>>
  BY <1>7
<1>8. CASE Crash
  BY <1>8 DEF Crash
<1> QED BY <1>1, <1>2, <1>3, <1>4, <1>5, <1>6, <1>7, <1>8
        DEF Next, Caller, Replay, Evict, Tick, ReplayNext, ReplayRead, ReplayPublish,
            ReplayDelete, ReplayStop, Outage, StepBack, vars, procVars

\* While the replay is past its Read no Append runs, so no file disappears.
LEMMA AtHandPreserved ==
    ASSUME LifeInv, [Next]_vars
    PROVE  ReplayAtHand'
<1>1. CASE rpc' \notin {"publish", "delete"}
  BY <1>1 DEF ReplayAtHand
<1>2. CASE ReplayRead /\ rpc' \in {"publish", "delete"}
  <2>1. PICK f \in todo : IsOldest(f, todo) /\ f \in dir /\ todo' = todo /\ dir' = dir
    BY <1>2 DEF ReplayRead, Bail
  <2> QED BY <2>1, OldestUnique DEF ReplayAtHand, LifeInv, SpoolInv, TypeOK
<1>3. CASE ReplayPublish /\ rpc' \in {"publish", "delete"}
  <2>1. todo' = todo /\ dir' = dir /\ rpc = "publish"
    BY <1>3 DEF ReplayPublish, Bail
  <2> QED BY <2>1 DEF ReplayAtHand, LifeInv
<1>4. CASE /\ rpc' = rpc /\ rpc \in {"publish", "delete"} /\ todo' = todo
           /\ dir \subseteq dir'
  BY <1>4 DEF ReplayAtHand, LifeInv, IsOldest
<1>5. ASSUME NEW c \in Callers, Create(c) \/ Write(c) \/ Rename(c) \/ Evict(c)
      PROVE  rpc \notin {"publish", "delete"} /\ rpc' = rpc
  <2>1. liveBusy = c /\ c # Replayer
    BY <1>5, SpoolConstants DEF Create, Write, Rename, Evict, LifeInv, SpoolInv, Serialised
  <2> QED BY <1>5, <2>1 DEF Create, Write, Rename, Evict, LifeInv, SpoolInv, Serialised
<1> QED BY <1>1, <1>2, <1>3, <1>4, <1>5
        DEF Next, Caller, Replay, vars, procVars, Publish, Lock, PublishLive,
            PublishFailed, ReadDir, EvictDone, Tick, ReplayNext, ReplayDelete,
            ReplayStop, Outage, Crash, StepBack

LEMMA LifeStep == LifeInv /\ [Next]_vars => LifeInv'
<1>1. SpoolInv /\ [Next]_vars => SpoolInv'
  BY TypesPreserved, ControlPreserved, SafePreserved, DeletePreserved DEF SpoolInv
<1> QED BY <1>1, OncePreserved, OneFilePreserved, OwnsFilePreserved, AtHandPreserved
        DEF LifeInv

-----------------------------------------------------------------------------
LEMMA RankBoundPreserved ==
    ASSUME LifeInv, RankBound, [Next]_vars
    PROVE  RankBound'
<1>1. CASE UNCHANGED rank
  BY <1>1 DEF RankBound, Ranked
<1>2. ASSUME NEW c \in Callers, Rename(c), ~(UNCHANGED rank) PROVE RankBound'
  <2>1. rank' = [rank EXCEPT ![cur[c]] = 1 + Cardinality(Ranked)]
    BY <1>2 DEF Rename, AbandonTmp, Ranked
  <2>2. cur[c] \in Payloads /\ rank[cur[c]] = 0 /\ rank \in [Payloads -> Nat]
    BY <1>2 DEF Rename, LifeInv, SpoolInv, PayloadAtHand, OncePerPayload, TypeOK
  <2>3. IsFiniteSet(Ranked) /\ Cardinality(Ranked) \in Nat
    BY SpoolConstants, FS_Subset, FS_CardinalityType DEF Ranked
  <2>4. Ranked' = Ranked \cup {cur[c]} /\ cur[c] \notin Ranked
    <3>1. \A p \in Payloads : rank'[p] > 0 <=> p = cur[c] \/ rank[p] > 0
      BY <2>1, <2>2, <2>3
    <3>2. Ranked' = {p \in Payloads : rank'[p] > 0}
      BY DEF Ranked
    <3> QED BY <2>2, <3>1, <3>2 DEF Ranked
  <2>5. Cardinality(Ranked') = Cardinality(Ranked) + 1
    BY <2>3, <2>4, FS_AddElement
  <2> QED BY <2>1, <2>2, <2>3, <2>5 DEF RankBound
<1> QED BY <1>1, <1>2
        DEF Next, Caller, Replay, vars, histVars, Publish, Lock, PublishLive,
            PublishFailed, Create, Write, AbandonTmp, ReadDir, Evict, EvictDone,
            Tick, ReplayNext, ReplayRead, ReplayPublish, ReplayDelete, ReplayStop,
            Outage, Crash, StepBack

\* The states in which Append has a file of its own.
InAppend == {"write", "rename", "readdir", "evict"}

\* A step that makes no file: names only disappear, and the next name does not
\* get older.
MakesNoFile ==
    /\ dir' \cup todo' \subseteq dir \cup todo
    /\ \A c \in Callers : pc'[c] \in InAppend => pc[c] \in InAppend /\ mine' = mine
    /\ rank' = rank
    /\ clock' > clock \/ (clock' = clock /\ seq' >= seq)

LEMMA StepKinds ==
    ASSUME LifeInv, [Next]_vars
    PROVE  \/ MakesNoFile
           \/ \E c \in Callers : Create(c) /\ pc'[c] = "write"
           \/ \E c \in Callers : Write(c) /\ pc'[c] = "rename"
           \/ \E c \in Callers : Rename(c) /\ pc'[c] = "readdir"
           \/ StepBack
<1> DEFINE Goal == \/ MakesNoFile
                   \/ \E c \in Callers : Create(c) /\ pc'[c] = "write"
                   \/ \E c \in Callers : Write(c) /\ pc'[c] = "rename"
                   \/ \E c \in Callers : Rename(c) /\ pc'[c] = "readdir"
                   \/ StepBack
<1> USE SpoolConstants DEF LifeInv, SpoolInv, TypeOK, Serialised, MakesNoFile, InAppend
<1>1. ASSUME NEW c \in Callers, NEW p \in Payloads, Publish(c, p) PROVE Goal
  BY <1>1 DEF Publish
<1>2. ASSUME NEW c \in Callers, Lock(c) PROVE Goal
  BY <1>2 DEF Lock, histVars
<1>3. ASSUME NEW c \in Callers, PublishLive(c) PROVE Goal
  BY <1>3 DEF PublishLive, ReturnNil, Return
<1>4. ASSUME NEW c \in Callers, PublishFailed(c) PROVE Goal
  BY <1>4 DEF PublishFailed, ReturnError, Return
<1>5. ASSUME NEW c \in Callers, Create(c), pc'[c] # "write" PROVE Goal
  BY <1>5 DEF Create, ReturnError, Return
<1>6. ASSUME NEW c \in Callers, Write(c), pc'[c] # "rename" PROVE Goal
  BY <1>6 DEF Write, AbandonTmp, ReturnError, Return
<1>7. ASSUME NEW c \in Callers, Rename(c), pc'[c] # "readdir" PROVE Goal
  BY <1>7 DEF Rename, AbandonTmp, ReturnError, Return
<1>8. ASSUME NEW c \in Callers, ReadDir(c) PROVE Goal
  BY <1>8 DEF ReadDir, ReturnNil, Return
<1>9. ASSUME NEW c \in Callers, Evict(c) PROVE Goal
  BY <1>9 DEF Evict
<1>10. ASSUME NEW c \in Callers, EvictDone(c) PROVE Goal
  BY <1>10 DEF EvictDone, ReturnNil, Return
<1>11. CASE Tick \/ ReplayNext \/ ReplayRead \/ ReplayPublish \/ ReplayDelete \/ ReplayStop
  BY <1>11 DEF Tick, ReplayNext, ReplayRead, ReplayPublish, ReplayDelete, ReplayStop,
               Bail, Spooled, histVars
<1>12. CASE Outage
  BY <1>12 DEF Outage, procVars, histVars
<1>13. CASE Crash
  BY <1>13 DEF Crash, histVars
<1>14. CASE UNCHANGED vars
  BY <1>14 DEF vars, procVars, histVars
<1> QED BY <1>1, <1>2, <1>3, <1>4, <1>5, <1>6, <1>7, <1>8, <1>9, <1>10, <1>11,
           <1>12, <1>13, <1>14 DEF Next, Caller, Replay

LEMMA NamesPreserved ==
    ASSUME LifeInv, RankBound, NamesOrdered, [Next]_vars
    PROVE  NamesOrdered'
<1>1. /\ TypeOK /\ TypeOK' /\ stepBacks \in Nat /\ clock \in Nat /\ clock' \in Nat
      /\ seq \in Nat /\ seq' \in Nat
      /\ rank \in [Payloads -> Nat] /\ pc \in [Callers -> {"idle", "lock", "upstream",
            "create", "write", "rename", "readdir", "evict"}]
      /\ \A f \in dir \cup todo \cup mine : f \in File
  BY LifeStep DEF LifeInv, SpoolInv, TypeOK
<1>2. \A f \in File : f.ns \in Nat /\ f.seq \in Nat /\ f.body \in Payloads
  BY DEF File
<1>3. CASE stepBacks # 0 \/ StepBack
  <2>1. stepBacks' # 0
    <3>1. UNCHANGED stepBacks \/ stepBacks' = stepBacks + 1
      BY UpstreamDelivers, FaultCounts
         DEF Next, Caller, Replay, vars, bounds, Publish, Lock, PublishLive,
             PublishFailed, Create, Write, Rename, AbandonTmp, ReadDir, Evict, EvictDone,
             Tick, ReplayNext, ReplayRead, ReplayPublish, ReplayDelete, ReplayStop,
             Outage, Crash, StepBack, UpstreamOK, UpstreamError
    <3>2. StepBack => stepBacks' = stepBacks + 1
      BY DEF StepBack
    <3> QED BY <1>1, <1>3, <3>1, <3>2
  <2> QED BY <2>1 DEF NamesOrdered
<1>4. CASE stepBacks = 0
  <2>1. /\ \A f \in dir \cup todo :
               f.ns < clock \/ (f.ns = clock /\ f.seq <= seq)
        /\ \A c \in Callers : pc[c] \in InAppend =>
               \A f \in (dir \cup todo) \ mine : \A m \in mine : Older(f, m)
        /\ \A f, g \in Spooled(dir \cup todo) :
               rank[f.body] < rank[g.body] => Older(f, g)
    BY <1>4 DEF NamesOrdered, InAppend
  <2>2. CASE MakesNoFile
    <3>1. \A f \in dir' \cup todo' :
               f.ns < clock' \/ (f.ns = clock' /\ f.seq <= seq')
      BY <1>1, <1>2, <2>1, <2>2 DEF MakesNoFile
    <3>2. \A c \in Callers : pc'[c] \in InAppend =>
               \A f \in (dir' \cup todo') \ mine' : \A m \in mine' : Older(f, m)
      BY <2>1, <2>2 DEF MakesNoFile
    <3>3. \A f, g \in Spooled(dir' \cup todo') :
               rank'[f.body] < rank'[g.body] => Older(f, g)
      BY <2>1, <2>2 DEF MakesNoFile, Spooled
    <3> QED BY <3>1, <3>2, <3>3 DEF NamesOrdered, InAppend
  <2>3. ASSUME NEW c \in Callers, Create(c), pc'[c] = "write" PROVE NamesOrdered'
    <3> DEFINE new == [ns |-> clock', seq |-> seq', tmp |-> TRUE,
                       body |-> cur[c], size |-> 0]
    <3>1. /\ mine' = {new} /\ dir' = dir \cup {new}
          /\ clock' \in {clock, clock + 1} /\ seq' = seq + 1
          /\ UNCHANGED <<todo, rank>>
      BY <1>1, <2>3 DEF Create, ReturnError, Return
    <3>2. new.tmp /\ new.ns = clock' /\ new.seq = seq'
      OBVIOUS
    <3> HIDE DEF new
    <3>3. \A f \in dir \cup todo :
            f.ns < clock' \/ (f.ns = clock' /\ f.seq < seq')
      BY <1>1, <1>2, <2>1, <3>1
    <3>4. \A f \in dir' \cup todo' :
               f.ns < clock' \/ (f.ns = clock' /\ f.seq <= seq')
      BY <1>1, <1>2, <3>1, <3>2, <3>3
    <3>5. \A f \in (dir' \cup todo') \ mine' : \A m \in mine' : Older(f, m)
      BY <1>1, <3>1, <3>2, <3>3 DEF Older
    <3>6. Spooled(dir' \cup todo') \subseteq Spooled(dir \cup todo)
      BY <3>1, <3>2, Zenon DEF Spooled
    <3> QED BY <2>1, <3>1, <3>4, <3>5, <3>6 DEF NamesOrdered
  <2>4. ASSUME NEW c \in Callers, Write(c), pc'[c] = "rename" PROVE NamesOrdered'
    <3>1. PICK m, n \in File :
             /\ mine = {m} /\ mine' = {n} /\ m \in dir /\ m.tmp /\ n.tmp
             /\ n.ns = m.ns /\ n.seq = m.seq
             /\ dir' = (dir \ {m}) \cup {n} /\ cur' = cur /\ rank' = rank
      BY <2>4, WrittenFile
    <3>2. UNCHANGED <<todo, clock, seq>> /\ pc[c] \in InAppend
      BY <2>4 DEF Write, InAppend
    <3>3. m \notin todo
      BY <3>1 DEF LifeInv, OneFilePerPayload
    <3>4. \A f \in dir' \cup todo' :
               f.ns < clock' \/ (f.ns = clock' /\ f.seq <= seq')
      BY <2>1, <3>1, <3>2
    <3>5. \A f \in (dir' \cup todo') \ mine' : Older(f, m)
      BY <2>1, <3>1, <3>2, <3>3
    <3>6. \A f : Older(f, m) => Older(f, n)
      BY <3>1 DEF Older
    <3>7. Spooled(dir' \cup todo') \subseteq Spooled(dir \cup todo)
      BY <3>1, <3>2, Zenon DEF Spooled
    <3> QED BY <2>1, <3>1, <3>4, <3>5, <3>6, <3>7 DEF NamesOrdered
  <2>5. ASSUME NEW c \in Callers, Rename(c), pc'[c] = "readdir" PROVE NamesOrdered'
    <3>1. PICK m, n \in File :
             /\ mine = {m} /\ mine' = {n} /\ m \in dir /\ m.tmp /\ ~n.tmp
             /\ n.ns = m.ns /\ n.seq = m.seq /\ n.body = cur[c]
             /\ dir' = (dir \ {m}) \cup {n}
             /\ rank' = [rank EXCEPT ![cur[c]] = 1 + Cardinality(Ranked)]
      BY <2>5, RenamedFile
    <3>2. UNCHANGED <<todo, clock, seq>> /\ pc[c] \in InAppend
      BY <2>5 DEF Rename, InAppend
    <3>3. m \notin todo
      BY <3>1 DEF LifeInv, OneFilePerPayload
    <3>4. \A f \in dir' \cup todo' :
               f.ns < clock' \/ (f.ns = clock' /\ f.seq <= seq')
      BY <2>1, <3>1, <3>2
    <3>5. \A f \in (dir' \cup todo') \ mine' : Older(f, n)
      <4>1. \A f \in (dir' \cup todo') \ mine' : Older(f, m)
        BY <2>1, <3>1, <3>2, <3>3
      <4>2. \A f : Older(f, m) => Older(f, n)
        BY <3>1 DEF Older
      <4> QED BY <4>1, <4>2
    <3>6. \A f \in Spooled(dir' \cup todo') : f = n \/ f \in Spooled(dir \cup todo)
      BY <3>1, <3>2, Zenon DEF Spooled
    <3>7. \A f \in Spooled(dir \cup todo) :
            /\ f.body \in Payloads /\ f.body # cur[c]
            /\ rank'[f.body] = rank[f.body] /\ rank'[f.body] < rank'[cur[c]]
      <4>1. cur[c] \in Payloads /\ rank[cur[c]] = 0
        BY <2>5 DEF Rename, LifeInv, SpoolInv, PayloadAtHand, OncePerPayload
      <4>2. \A f \in Spooled(dir \cup todo) : f.body \in Payloads /\ rank[f.body] > 0
        BY <1>1, <1>2 DEF LifeInv, OneFilePerPayload, Spooled
      <4>3. Cardinality(Ranked) \in Nat
        BY SpoolConstants, FS_Subset, FS_CardinalityType DEF Ranked
      <4> QED BY <1>1, <3>1, <4>1, <4>2, <4>3 DEF RankBound
    <3>8. ASSUME NEW f \in Spooled(dir' \cup todo'), NEW g \in Spooled(dir' \cup todo'),
                 rank'[f.body] < rank'[g.body]
          PROVE  Older(f, g)
      <4>1. rank' \in [Payloads -> Nat] /\ cur[c] \in Payloads
        BY <1>1, <2>5 DEF TypeOK, Rename, LifeInv, SpoolInv, PayloadAtHand
      <4>2. CASE f = n
        <5>1. rank'[cur[c]] < rank'[g.body]
          BY <3>1, <3>8, <4>2
        <5>2. g.body = cur[c] \/ (g.body \in Payloads /\ rank'[g.body] < rank'[cur[c]])
          BY <3>1, <3>6, <3>7
        <5>3. rank'[cur[c]] \in Nat /\ (g.body \in Payloads => rank'[g.body] \in Nat)
          BY <4>1
        <5> QED BY <5>1, <5>2, <5>3
      <4>3. CASE f # n /\ g = n
        <5>1. f \in (dir' \cup todo') \ mine'
          BY <3>1, <4>3 DEF Spooled
        <5> QED BY <3>5, <4>3, <5>1
      <4>4. CASE f # n /\ g # n
        BY <2>1, <3>6, <3>7, <3>8, <4>4
      <4> QED BY <4>2, <4>3, <4>4
    <3> QED BY <3>1, <3>4, <3>5, <3>8 DEF NamesOrdered
  <2> QED BY <1>3, <2>2, <2>3, <2>4, <2>5, StepKinds
<1> QED BY <1>3, <1>4

LEMMA BehindPreserved ==
    ASSUME LifeInv, RankBound, BehindReplay, [Next]_vars
    PROVE  BehindReplay'
<1>1. /\ rank \in [Payloads -> Nat] /\ delivered \in [Payloads -> Nat]
      /\ delivered' \in [Payloads -> Nat] /\ todo \in SUBSET File
      /\ \A f \in dir \cup todo : f.body \in Payloads
  BY LifeStep DEF LifeInv, SpoolInv, TypeOK, File
<1>2. \A p \in Payloads : rank[p] > 0 => rank'[p] = rank[p]
  BY RankStays
<1>3. \A p \in Payloads : delivered[p] > 0 => delivered'[p] > 0
  <2>1. \A q \in Payloads : delivered[q] <= delivered'[q]
    BY DeliveriesGrow DEF LifeInv
  <2> QED BY <1>1, <2>1
<1>4. /\ \A f \in todo : rank[f.body] > 0
      /\ \A f \in Spooled(dir) : rank[f.body] > 0 /\ f.body \in Payloads
  BY <1>1 DEF LifeInv, OneFilePerPayload, Spooled
<1>5. CASE rpc' \notin {"next", "read", "publish", "delete"}
  BY <1>5 DEF BehindReplay
<1>6. CASE Tick
  <2>1. todo' = Spooled(dir) /\ dir' = dir
    BY <1>6 DEF Tick
  <2> QED BY <2>1 DEF BehindReplay
<1>7. CASE ReplayDelete
  <2>1. PICK f \in todo : IsOldest(f, todo) /\ todo' = todo \ {f} /\ dir' \subseteq dir
    BY <1>7 DEF ReplayDelete
  <2>2. /\ rpc = "delete" /\ delivered' = delivered /\ rank' = rank
    BY <1>7 DEF ReplayDelete, histVars
  <2>3. delivered[f.body] > 0
    BY <2>1, <2>2 DEF LifeInv, SpoolInv, DeliveredBeforeDelete
  <2>4. Spooled(dir') \subseteq Spooled(dir)
    BY <2>1 DEF Spooled
  <2> QED BY <2>1, <2>2, <2>3, <2>4 DEF BehindReplay
<1>8. ASSUME rpc \in {"next", "read", "publish", "delete"}, todo' = todo
      PROVE  BehindReplay'
  <2>1. ASSUME NEW g \in Spooled(dir) \ todo
        PROVE  delivered'[g.body] > 0 \/ \A f \in todo : rank'[f.body] < rank'[g.body]
    BY <1>1, <1>2, <1>3, <1>4, <1>8 DEF BehindReplay
  <2>2. CASE Spooled(dir') \subseteq Spooled(dir)
    BY <1>8, <2>1, <2>2 DEF BehindReplay
  <2>3. ASSUME NEW c \in Callers, Rename(c), pc'[c] = "readdir" PROVE BehindReplay'
    <3>1. PICK m, n \in File :
             /\ ~n.tmp /\ n.body = cur[c] /\ dir' = (dir \ {m}) \cup {n}
             /\ rank' = [rank EXCEPT ![cur[c]] = 1 + Cardinality(Ranked)]
      BY <2>3, RenamedFile
    <3>2. cur[c] \in Payloads
      BY <2>3 DEF Rename, LifeInv, SpoolInv, PayloadAtHand
    <3>3. Cardinality(Ranked) \in Nat
      BY SpoolConstants, FS_Subset, FS_CardinalityType DEF Ranked
    <3>4. \A f \in todo : rank'[f.body] < rank'[n.body]
      BY <1>1, <1>2, <1>4, <3>1, <3>2, <3>3 DEF RankBound
    <3>5. \A g \in Spooled(dir') : g = n \/ g \in Spooled(dir)
      BY <3>1 DEF Spooled
    <3> QED BY <1>8, <2>1, <3>4, <3>5 DEF BehindReplay
  <2> QED BY <2>2, <2>3, SpoolGrows
<1>9. \/ rpc' \notin {"next", "read", "publish", "delete"}
      \/ Tick \/ ReplayDelete
      \/ rpc \in {"next", "read", "publish", "delete"} /\ todo' = todo
  BY DEF Next, Caller, Replay, vars, procVars, Publish, Lock, PublishLive,
         PublishFailed, Create, Write, Rename, ReadDir, Evict, EvictDone,
         ReplayNext, ReplayRead, ReplayPublish, ReplayStop, Bail, Outage, Crash,
         StepBack
<1> QED BY <1>5, <1>6, <1>7, <1>8, <1>9

LEMMA OrderInitOK == Init => OrderInv
<1> SUFFICES ASSUME Init PROVE OrderInv
  OBVIOUS
<1>1. RankBound
  <2>1. \A p \in Payloads : rank[p] = 0
    BY DEF Init
  <2>2. Cardinality(Ranked) \in Nat
    BY SpoolConstants, FS_Subset, FS_CardinalityType DEF Ranked
  <2> QED BY <2>1, <2>2 DEF RankBound
<1>2. NamesOrdered
  BY DEF Init, NamesOrdered, Spooled
<1>3. BehindReplay
  BY DEF Init, BehindReplay, Spooled
<1> QED BY <1>1, <1>2, <1>3 DEF OrderInv

LEMMA OrderInvariant == Spec => [](LifeInv /\ OrderInv)
<1>1. LifeInv /\ OrderInv /\ [Next]_vars => LifeInv' /\ OrderInv'
  BY LifeStep, RankBoundPreserved, NamesPreserved, BehindPreserved DEF OrderInv
<1> QED BY <1>1, LifeInitOK, OrderInitOK, PTL DEF Spec

\* Replay is chronological: while the wall clock is not set back, a file is
\* published only when every file spooled before it is gone from the spool or
\* was delivered, whatever is appended, evicted or fails in between.
THEOREM SpoolChronological == Spec => []Chronological
<1>1. LifeInv /\ OrderInv => Chronological
  <2> SUFFICES ASSUME LifeInv, OrderInv, stepBacks = 0, rpc = "publish",
                      NEW f \in todo, IsOldest(f, todo),
                      NEW g \in Spooled(dir), rank[g.body] < rank[f.body]
               PROVE  delivered[g.body] > 0
    BY DEF Chronological
  <2>1. /\ f \in File /\ g \in File /\ rank \in [Payloads -> Nat]
    BY DEF LifeInv, SpoolInv, TypeOK, Spooled
  <2>2. /\ f.body \in Payloads /\ g.body \in Payloads
        /\ f.ns \in Nat /\ g.ns \in Nat /\ f.seq \in Nat /\ g.seq \in Nat
    BY <2>1 DEF File
  <2>3. CASE g \notin todo
    <3>1. ~(rank[f.body] < rank[g.body])
      BY <2>1, <2>2
    <3> QED BY <2>3, <3>1 DEF OrderInv, BehindReplay
  <2>4. CASE g \in todo
    <3>1. f \in Spooled(dir \cup todo) /\ g \in Spooled(dir \cup todo)
      BY <2>4 DEF Spooled, LifeInv, OneFilePerPayload
    <3>2. Older(g, f)
      BY <3>1 DEF OrderInv, NamesOrdered
    <3>3. g = f \/ Older(f, g)
      BY <2>4 DEF IsOldest
    <3>4. ~(Older(f, g) /\ Older(g, f)) /\ g # f
      BY <2>1, <2>2 DEF Older
    <3> QED BY <3>2, <3>3, <3>4
  <2> QED BY <2>3, <2>4
<1> QED BY <1>1, OrderInvariant, PTL

-----------------------------------------------------------------------------
\* Adding one element to a finite set.
LEMMA CardAdd ==
    ASSUME NEW S, IsFiniteSet(S), NEW x
    PROVE  /\ IsFiniteSet(S \cup {x})
           /\ Cardinality(S) \in Nat /\ Cardinality(S \cup {x}) \in Nat
           /\ Cardinality(S \cup {x}) <= Cardinality(S) + 1
<1>1. /\ IsFiniteSet(S \cup {x})
      /\ Cardinality(S \cup {x}) =
            IF x \in S THEN Cardinality(S) ELSE Cardinality(S) + 1
  BY FS_AddElement
<1>2. Cardinality(S) \in Nat
  BY FS_CardinalityType
<1> QED BY <1>1, <1>2

LEMMA EvictionsPreserved ==
    ASSUME SpoolInv, EvictionsCounted, [Next]_vars
    PROVE  EvictionsCounted'
<1>1. /\ IsFiniteSet(evicted) /\ Cardinality(evicted) \in Nat /\ drops \in Nat
      /\ crashes \in Nat
  BY SpoolConstants, FS_Subset, FS_CardinalityType DEF SpoolInv, TypeOK
<1>2. CASE Crash
  BY <1>1, <1>2 DEF Crash, EvictionsCounted
<1>3. ASSUME NEW c \in Callers, Evict(c) PROVE EvictionsCounted'
  <2>1. crashes' = crashes
    BY <1>3, FaultCounts DEF Evict, bounds
  <2>2. PICK f : \/ drops' = drops + 1 /\ evicted' \in {evicted, evicted \cup {f}}
                 \/ UNCHANGED <<drops, evicted>>
    <3>1. PICK f \in dir :
            \/ /\ drops' = drops + 1
               /\ evicted' = IF f.tmp THEN evicted ELSE evicted \cup {f.body}
            \/ UNCHANGED <<drops, evicted>>
      BY <1>3 DEF Evict
    <3>2. \/ drops' = drops + 1 /\ evicted' \in {evicted, evicted \cup {f.body}}
          \/ UNCHANGED <<drops, evicted>>
      BY <3>1, Zenon
    <3> QED BY <3>2
  <2>3. /\ Cardinality(evicted \cup {f}) <= Cardinality(evicted) + 1
        /\ Cardinality(evicted \cup {f}) \in Nat
    BY <1>1, CardAdd
  <2>4. \/ drops' = drops + 1 /\ Cardinality(evicted') = Cardinality(evicted)
        \/ drops' = drops + 1 /\ Cardinality(evicted') = Cardinality(evicted \cup {f})
        \/ drops' = drops /\ Cardinality(evicted') = Cardinality(evicted)
    BY <2>2
  <2> QED BY <1>1, <2>1, <2>3, <2>4 DEF EvictionsCounted
<1>4. CASE UNCHANGED <<drops, evicted>> /\ (crashes' = 0 => crashes = 0)
  BY <1>4 DEF EvictionsCounted
<1>5. Crash \/ crashes' = crashes
  BY FaultCounts DEF Next, Caller, Replay, vars, bounds, Publish, Lock, PublishLive,
         PublishFailed, Create, Write, Rename, AbandonTmp, ReadDir, Evict, EvictDone,
         Tick, ReplayNext, ReplayRead, ReplayPublish, ReplayDelete, ReplayStop,
         Outage, StepBack, UpstreamOK, UpstreamError
<1> QED BY <1>2, <1>3, <1>4, <1>5
        DEF Next, Caller, Replay, vars, procVars, histVars, Publish, Lock, PublishLive,
            PublishFailed, Create, Write, Rename, ReadDir, EvictDone,
            Tick, ReplayNext, ReplayRead, ReplayPublish, ReplayDelete, ReplayStop,
            Outage, StepBack

\* Nothing is lost silently: as many accepted payloads as are gone, neither
\* delivered nor spooled, are counted in Drops() since the last start.
THEOREM SpoolLossesCounted == Spec => []LossesCounted
<1>1. Init => EvictionsCounted
  BY FS_EmptySet DEF Init, EvictionsCounted
<1>2. SpoolInv /\ EvictionsCounted => LossesCounted
  <2> SUFFICES ASSUME SpoolInv, EvictionsCounted, crashes = 0
               PROVE  Cardinality({p \in accepted :
                          delivered[p] = 0 /\ p \notin Bodies(dir)}) <= drops
    BY DEF LossesCounted
  <2> DEFINE Gone == {p \in accepted : delivered[p] = 0 /\ p \notin Bodies(dir)}
  <2>1. Gone \subseteq evicted
    BY DEF SpoolInv, AtLeastOnce, TypeOK
  <2>2. IsFiniteSet(evicted)
    BY SpoolConstants, FS_Subset DEF SpoolInv, TypeOK
  <2>3. Cardinality(Gone) <= Cardinality(evicted)
    BY <2>1, <2>2, FS_Subset
  <2>4. Cardinality(Gone) \in Nat /\ Cardinality(evicted) \in Nat /\ drops \in Nat
    BY <2>1, <2>2, FS_Subset, FS_CardinalityType DEF SpoolInv, TypeOK
  <2> QED BY <2>3, <2>4 DEF EvictionsCounted
<1> QED BY <1>1, <1>2, SpoolInvariant, EvictionsPreserved, PTL DEF Spec

-----------------------------------------------------------------------------
\* The bytes of a smaller directory, and of one more file.
LEMMA BytesSubset ==
    ASSUME NEW D, NEW E, BytesOf(E) \subseteq BytesOf(D), IsFiniteSet(BytesOf(D))
    PROVE  /\ IsFiniteSet(BytesOf(E))
           /\ Total(E) \in Nat /\ Total(D) \in Nat /\ Total(E) <= Total(D)
BY FS_Subset, FS_CardinalityType DEF Total

LEMMA BytesMonotone ==
    ASSUME NEW D, NEW E \in SUBSET D
    PROVE  BytesOf(E) \subseteq BytesOf(D)
BY DEF BytesOf

LEMMA BytesOfOne ==
    ASSUME NEW f \in File
    PROVE  /\ IsFiniteSet(BytesOf({f}))
           /\ Total({f}) = f.size
<1>1. f.size \in Nat
  BY DEF File
<1>2. BytesOf({f}) = {f} \X (1 .. f.size)
  BY DEF BytesOf
<1>3. IsFiniteSet(1 .. f.size) /\ Cardinality(1 .. f.size) = f.size
  BY <1>1, FS_Interval
<1>4. IsFiniteSet({f}) /\ Cardinality({f}) = 1
  BY FS_Singleton
<1>5. /\ IsFiniteSet({f} \X (1 .. f.size))
      /\ Cardinality({f} \X (1 .. f.size)) = 1 * f.size
  BY <1>3, <1>4, FS_Product
<1>6. 1 * f.size = f.size
  BY <1>1
<1>7. Total({f}) = Cardinality({f} \X (1 .. f.size))
  BY <1>2, Zenon DEF Total
<1> QED BY <1>2, <1>5, <1>6, <1>7, Zenon

\* Only a fault leaves a file that evict could not remove; nothing takes a fault
\* or a crash back.
LEMMA CountersGrow ==
    ASSUME TypeOK, [Next]_vars
    PROVE  /\ faults' = 0 => faults = 0
           /\ crashes' = 0 => crashes = 0
           /\ stepBacks' = 0 => stepBacks = 0
<1>1. /\ faults' \in {faults, faults + 1}
      /\ crashes' \in {crashes, crashes + 1}
      /\ stepBacks' \in {stepBacks, stepBacks + 1}
  BY FaultCounts DEF Next, Caller, Replay, vars, bounds, Publish, Lock, PublishLive,
         PublishFailed, Create, Write, Rename, AbandonTmp, ReadDir, Evict, EvictDone,
         Tick, ReplayNext, ReplayRead, ReplayPublish, ReplayDelete, ReplayStop,
         Outage, Crash, StepBack, UpstreamOK, UpstreamError
<1> QED BY <1>1 DEF TypeOK

LEMMA CapPreserved ==
    ASSUME LifeInv, CapOutsideAppend, [Next]_vars
    PROVE  CapOutsideAppend'
<1> DEFINE Quiet == \A c \in Callers : pc[c] \notin {"rename", "readdir", "evict"}
<1>1. /\ TypeOK /\ Serialised /\ MaxBytes \in Nat /\ faults \in Nat /\ crashes \in Nat
      /\ pc \in [Callers -> {"idle", "lock", "upstream",
            "create", "write", "rename", "readdir", "evict"}]
      /\ IsFiniteSet(BytesOf(dir))
      /\ faults = 0 => stuck = {}
      /\ faults = 0 /\ crashes = 0 /\ Quiet => Total(dir) <= MaxBytes
  BY SpoolConstants DEF LifeInv, SpoolInv, TypeOK, CapOutsideAppend
<1>2. /\ faults' = 0 => faults = 0
      /\ crashes' = 0 => crashes = 0
  BY <1>1, CountersGrow
<1>3. faults' = 0 => stuck' = {}
  <2>1. stuck' = stuck \/ stuck' = {} \/ faults' = faults + 1
    BY FaultCounts
       DEF Next, Caller, Replay, vars, procVars, Publish, Lock, PublishLive,
           PublishFailed, Create, Write, Rename, AbandonTmp, ReturnNil, ReturnError, Return,
           ReadDir, Evict, EvictDone, Tick, ReplayNext, ReplayRead, ReplayPublish,
           ReplayDelete, ReplayStop, Outage, Crash, StepBack
  <2> QED BY <1>1, <1>2, <2>1
<1>4. ASSUME BytesOf(dir') \subseteq BytesOf(dir),
             faults' = 0 /\ crashes' = 0 /\ Quiet' => Quiet \/ Total(dir) <= MaxBytes
      PROVE  CapOutsideAppend'
  <2>1. /\ IsFiniteSet(BytesOf(dir')) /\ Total(dir') \in Nat /\ Total(dir) \in Nat
        /\ Total(dir') <= Total(dir)
    BY <1>1, <1>4, BytesSubset
  <2>2. faults' = 0 /\ crashes' = 0 /\ Quiet' => Total(dir') <= MaxBytes
    BY <1>1, <1>2, <1>4, <2>1
  <2> QED BY <1>3, <2>1, <2>2 DEF CapOutsideAppend
<1>5. ASSUME NEW c \in Callers, Create(c) PROVE CapOutsideAppend'
  <2>1. Quiet
    BY <1>1, <1>5 DEF Create, Serialised
  <2>2. BytesOf(dir') \subseteq BytesOf(dir)
    <3>1. CASE UNCHANGED dir
      BY <3>1
    <3>2. CASE ~(UNCHANGED dir)
      <4> DEFINE new == [ns |-> clock', seq |-> seq', tmp |-> TRUE,
                         body |-> cur[c], size |-> 0]
      <4>1. dir' = dir \cup {new}
        BY <1>5, <3>2 DEF Create
      <4>2. new.size = 0
        OBVIOUS
      <4> HIDE DEF new
      <4>3. 1 .. new.size = {}
        BY <4>2
      <4> QED BY <4>1, <4>3 DEF BytesOf
    <3> QED BY <3>1, <3>2
  <2> QED BY <1>4, <2>1, <2>2
<1>6. ASSUME NEW c \in Callers, Write(c) PROVE CapOutsideAppend'
  <2>1. CASE pc'[c] = "rename"
    <3>1. PICK m, n \in File : dir' = (dir \ {m}) \cup {n}
      BY <1>6, <2>1, WrittenFile
    <3>2. BytesOf(dir') \subseteq BytesOf(dir) \cup BytesOf({n})
      BY <3>1 DEF BytesOf
    <3>3. IsFiniteSet(BytesOf(dir) \cup BytesOf({n}))
      BY <1>1, BytesOfOne, FS_Union
    <3>4. IsFiniteSet(BytesOf(dir'))
      BY <3>2, <3>3, FS_Subset
    <3>5. ~Quiet'
      BY <2>1
    <3> QED BY <1>3, <3>4, <3>5 DEF CapOutsideAppend
  <2>2. CASE pc'[c] # "rename"
    <3>1. dir' \subseteq dir /\ faults' = faults + 1
      BY <1>1, <1>6, <2>2, FaultCounts DEF Write, AbandonTmp
    <3> QED BY <1>1, <1>4, <3>1, BytesMonotone
  <2> QED BY <2>1, <2>2
<1>7. ASSUME NEW c \in Callers, Rename(c) PROVE CapOutsideAppend'
  <2>1. CASE pc'[c] = "readdir"
    <3>1. PICK m, n \in File : dir' = (dir \ {m}) \cup {n}
      BY <1>7, <2>1, RenamedFile
    <3>2. BytesOf(dir') \subseteq BytesOf(dir) \cup BytesOf({n})
      BY <3>1 DEF BytesOf
    <3>3. IsFiniteSet(BytesOf(dir) \cup BytesOf({n}))
      BY <1>1, BytesOfOne, FS_Union
    <3>4. IsFiniteSet(BytesOf(dir'))
      BY <3>2, <3>3, FS_Subset
    <3>5. ~Quiet'
      BY <2>1
    <3> QED BY <1>3, <3>4, <3>5 DEF CapOutsideAppend
  <2>2. CASE pc'[c] # "readdir"
    <3>1. dir' \subseteq dir /\ faults' = faults + 1
      BY <1>1, <1>7, <2>2, FaultCounts DEF Rename, AbandonTmp
    <3> QED BY <1>1, <1>4, <3>1, BytesMonotone
  <2> QED BY <2>1, <2>2
<1>8. ASSUME NEW c \in Callers, EvictDone(c) PROVE CapOutsideAppend'
  <2>1. UNCHANGED dir
    BY <1>8 DEF EvictDone
  <2>2. faults' = 0 => Total(dir) <= MaxBytes
    <3>1. Total({}) = 0
      BY FS_EmptySet DEF Total, BytesOf
    <3>2. Total(dir) <= MaxBytes \/ dir \subseteq stuck
      BY <1>8 DEF EvictDone
    <3>3. faults' = 0 /\ dir \subseteq stuck => dir = {}
      BY <1>1, <1>2
    <3> QED BY <1>1, <3>1, <3>2, <3>3
  <2> QED BY <1>4, <2>1, <2>2
<1>9. ASSUME NEW c \in Callers, ReadDir(c) PROVE CapOutsideAppend'
  <2>1. UNCHANGED dir /\ (faults' = faults + 1 \/ pc'[c] = "evict")
    BY <1>1, <1>9, FaultCounts DEF ReadDir
  <2>2. faults' = 0 => ~Quiet'
    BY <1>1, <2>1
  <2> QED BY <1>4, <2>1, <2>2
<1>10. ASSUME NEW c \in Callers, Evict(c) PROVE CapOutsideAppend'
  <2>1. dir' \subseteq dir /\ pc' = pc
    BY <1>10 DEF Evict
  <2> QED BY <1>4, <2>1, BytesMonotone
<1>11. CASE /\ dir' \subseteq dir
            /\ \A c \in Callers : pc[c] \in {"rename", "readdir", "evict"} => pc'[c] = pc[c]
  BY <1>4, <1>11, BytesMonotone
<1>12. CASE Crash
  <2>1. dir' = dir /\ crashes' # 0
    BY <1>1, <1>12 DEF Crash
  <2> QED BY <1>4, <2>1
<1>13. ASSUME NEW c \in Callers,
              Lock(c) \/ PublishLive(c) \/ PublishFailed(c) \/ \E p \in Payloads : Publish(c, p)
       PROVE  /\ dir' \subseteq dir
              /\ \A d \in Callers : pc[d] \in {"rename", "readdir", "evict"} => pc'[d] = pc[d]
  BY <1>1, <1>13 DEF Lock, PublishLive, PublishFailed, Publish, ReturnNil, ReturnError,
                     Return
<1> QED BY <1>5, <1>6, <1>7, <1>8, <1>9, <1>10, <1>11, <1>12, <1>13
        DEF Next, Caller, Replay, vars, procVars, Tick, ReplayNext, ReplayRead,
            ReplayPublish, ReplayDelete, ReplayStop, Outage, StepBack

\* The size cap is enforced before Append returns: with no failed call and no
\* restart in between, nobody who holds liveBusy next finds the spool above it.
THEOREM SpoolCapEnforced == Spec => []CapEnforced
<1>1. Init => CapOutsideAppend
  <2> SUFFICES ASSUME Init PROVE CapOutsideAppend
    OBVIOUS
  <2>1. BytesOf(dir) = {}
    BY DEF Init, BytesOf
  <2>2. IsFiniteSet(BytesOf(dir)) /\ Total(dir) = 0
    BY <2>1, FS_EmptySet DEF Total
  <2> QED BY <2>2, SpoolConstants DEF Init, CapOutsideAppend
<1>2. LifeInv /\ CapOutsideAppend => CapEnforced
  <2> SUFFICES ASSUME LifeInv, CapOutsideAppend, liveBusy = NoOne, faults = 0, crashes = 0
               PROVE  Total(dir) <= MaxBytes
    BY DEF CapEnforced
  <2>1. \A c \in Callers : pc[c] \notin {"rename", "readdir", "evict"}
    BY SpoolConstants DEF LifeInv, SpoolInv, Serialised
  <2> QED BY <2>1 DEF CapOutsideAppend
<1> QED BY <1>1, <1>2, OrderInvariant, CapPreserved, PTL DEF Spec

-----------------------------------------------------------------------------
LEMMA OwnFilePreserved ==
    ASSUME LifeInv, OrderInv, CapOutsideAppend, OwnFileKept, [Next]_vars
    PROVE  OwnFileKept'
<1> SUFFICES ASSUME faults' = 0, stepBacks' = 0, NEW d \in Callers,
                    pc'[d] \in {"readdir", "evict"}, Length[cur'[d]] <= MaxBytes
             PROVE  mine' \subseteq dir'
  BY DEF OwnFileKept
<1>1. /\ TypeOK /\ Serialised /\ AppendOwnsFile /\ faults \in Nat
      /\ pc \in [Callers -> {"idle", "lock", "upstream",
            "create", "write", "rename", "readdir", "evict"}]
      /\ dir \in SUBSET File /\ mine \in SUBSET File
  BY DEF LifeInv, SpoolInv, TypeOK
<1>2. faults = 0 /\ stepBacks = 0
  BY <1>1, CountersGrow
<1>3. CASE Rename(d)
  <2>1. pc'[d] = "readdir"
    BY <1>1, <1>3 DEF Rename, AbandonTmp, ReturnError, Return
  <2> QED BY <1>3, <2>1, RenamedFile
<1>4. CASE Evict(d)
  <2>1. stuck = {}
    BY <1>2 DEF CapOutsideAppend
  <2>2. /\ pc[d] = "evict" /\ Total(dir) > MaxBytes /\ UNCHANGED <<pc, cur, mine>>
    BY <1>4 DEF Evict
  <2>3. PICK f \in dir : IsOldest(f, dir) /\ (dir' = dir \ {f} \/ dir' = dir)
    <3>1. dir \ {} = dir
      OBVIOUS
    <3> QED BY <1>4, <2>1, <3>1 DEF Evict
  <2>4. mine \subseteq dir
    BY <1>2, <2>2 DEF OwnFileKept
  <2>5. f \notin mine
    <3> SUFFICES ASSUME f \in mine PROVE FALSE
      OBVIOUS
    <3>1. mine = {f} /\ f.body = cur[d] /\ f.size = Length[f.body] /\ f \in File
      BY <1>1, <2>2 DEF AppendOwnsFile
    <3>2. \A g \in dir : g = f
      <4> SUFFICES ASSUME NEW g \in dir, g # f PROVE FALSE
        OBVIOUS
      <4>1. Older(g, f)
        BY <1>2, <2>2, <3>1 DEF OrderInv, NamesOrdered
      <4>2. Older(f, g)
        BY <2>3 DEF IsOldest
      <4>3. f.ns \in Nat /\ g.ns \in Nat /\ f.seq \in Nat /\ g.seq \in Nat
        BY <1>1, <3>1 DEF File
      <4> QED BY <4>1, <4>2, <4>3 DEF Older
    <3>3. dir = {f}
      BY <3>2
    <3>4. Total(dir) = f.size
      BY <3>1, <3>3, BytesOfOne
    <3>5. Length[f.body] <= MaxBytes
      BY <2>2, <3>1
    <3>6. Length[f.body] \in Nat /\ MaxBytes \in Nat
      BY <3>1, SpoolConstants DEF File
    <3> QED BY <2>2, <3>1, <3>4, <3>5, <3>6
  <2> QED BY <2>2, <2>3, <2>4, <2>5
<1>5. CASE /\ pc[d] \in {"readdir", "evict"} /\ cur'[d] = cur[d]
           /\ mine' = mine /\ dir' = dir
  BY <1>2, <1>5 DEF OwnFileKept
<1>6. ASSUME NEW c \in Callers, c # d, Caller(c) PROVE FALSE
  <2>1. pc'[d] = pc[d]
    BY <1>1, <1>6 DEF Caller, Lock, PublishLive, PublishFailed, Create, Write, Rename,
          AbandonTmp, ReadDir, Evict, EvictDone, ReturnNil, ReturnError, Return
  <2>2. liveBusy = d
    BY <1>1, <2>1 DEF Serialised
  <2>3. d # NoOne
    BY SpoolConstants
  <2> QED BY <1>1, <1>6, <2>2, <2>3 DEF Serialised, Caller, Lock, PublishLive,
          PublishFailed, Create, Write, Rename, ReadDir, Evict, EvictDone
<1>7. CASE Caller(d)
  <2>1. CASE Lock(d) \/ PublishLive(d) \/ PublishFailed(d) \/ Create(d) \/ Write(d)
             \/ EvictDone(d)
    BY <1>1, <2>1 DEF Lock, PublishLive, PublishFailed, Create, Write, AbandonTmp,
             EvictDone, ReturnNil, ReturnError, Return
  <2>2. CASE ReadDir(d)
    BY <1>1, <1>5, <2>2 DEF ReadDir, ReturnNil, Return
  <2> QED BY <1>3, <1>4, <1>7, <2>1, <2>2 DEF Caller
<1>8. ASSUME NEW c \in Callers, NEW p \in Payloads, Publish(c, p)
      PROVE  mine' \subseteq dir'
  BY <1>1, <1>5, <1>8 DEF Publish, TypeOK
<1>9. CASE ReplayDelete
  <2>1. pc[d] \in {"readdir", "evict"} /\ rpc = "delete"
    BY <1>9 DEF ReplayDelete
  <2>2. d = Replayer
    BY <1>1, <2>1 DEF Serialised
  <2> QED BY <2>2, SpoolConstants
<1>10. CASE Crash
  BY <1>10 DEF Crash
<1>11. CASE Tick \/ ReplayNext \/ ReplayRead \/ ReplayPublish \/ ReplayStop \/ Outage
             \/ StepBack \/ UNCHANGED vars
  BY <1>5, <1>11 DEF Tick, ReplayNext, ReplayRead, ReplayPublish, ReplayStop, Outage,
           StepBack, vars, procVars
<1> QED BY <1>6, <1>7, <1>8, <1>9, <1>10, <1>11 DEF Next, Replay

LEMMA KeptInvariant ==
    Spec => [](LifeInv /\ OrderInv /\ CapOutsideAppend /\ OwnFileKept)
<1>1. Init => CapOutsideAppend /\ OwnFileKept
  <2> SUFFICES ASSUME Init PROVE CapOutsideAppend /\ OwnFileKept
    OBVIOUS
  <2>1. BytesOf(dir) = {}
    BY DEF Init, BytesOf
  <2>2. IsFiniteSet(BytesOf(dir)) /\ Total(dir) = 0
    BY <2>1, FS_EmptySet DEF Total
  <2> QED BY <2>2, SpoolConstants DEF Init, CapOutsideAppend, OwnFileKept
<1> QED BY <1>1, OrderInvariant, CapPreserved, OwnFilePreserved, PTL DEF Spec

\* A nil from Publish means kept: without failed calls and clock steps, at the
\* moment Publish returns nil the payload has reached the broker or is in the
\* spool, unless it alone is larger than the cap.
THEOREM SpoolNilMeansKept == Spec => NilMeansKept
<1> DEFINE KeptStep == faults' = 0 /\ stepBacks = 0 =>
                         \A p \in accepted' \ accepted :
                             \/ delivered'[p] > 0
                             \/ p \in Bodies(dir')
                             \/ Length[p] > MaxBytes
<1>1. ASSUME LifeInv, OwnFileKept, [Next]_vars PROVE [KeptStep]_vars
  <2> SUFFICES ASSUME faults' = 0, stepBacks = 0, NEW p \in accepted' \ accepted
               PROVE  \/ delivered'[p] > 0
                      \/ p \in Bodies(dir')
                      \/ Length[p] > MaxBytes
    OBVIOUS
  <2>1. /\ TypeOK /\ AppendOwnsFile /\ delivered \in [Payloads -> Nat] /\ faults \in Nat
        /\ faults = 0
    BY <1>1, CountersGrow DEF LifeInv, SpoolInv, TypeOK
  <2>2. PICK c \in Callers : /\ p = cur[c]
                             /\ PublishLive(c) \/ ReadDir(c) \/ EvictDone(c)
    BY <1>1 DEF Next, Caller, Replay, vars, histVars, Publish, Lock, PublishLive,
         PublishFailed, Create, Write, Rename, AbandonTmp, ReadDir, Evict, EvictDone,
         ReturnNil, ReturnError, Tick, ReplayNext, ReplayRead, ReplayPublish,
         ReplayDelete, ReplayStop, Outage, Crash, StepBack
  <2>3. p \in Payloads
    BY <1>1, <2>2 DEF PublishLive, ReadDir, EvictDone, LifeInv, SpoolInv, PayloadAtHand
  <2>4. CASE PublishLive(c)
    BY <2>1, <2>2, <2>3, <2>4 DEF PublishLive, UpstreamOK, Delivers
  <2>5. CASE ReadDir(c)
    <3>1. faults' = faults + 1
      BY <2>5, FaultCounts DEF ReadDir
    <3> QED BY <2>1, <3>1
  <2>6. CASE EvictDone(c)
    <3>1. pc[c] = "evict" /\ dir' = dir
      BY <2>6 DEF EvictDone
    <3>2. CASE Length[p] <= MaxBytes
      <4>1. mine \subseteq dir
        BY <1>1, <2>1, <2>2, <3>1, <3>2 DEF OwnFileKept
      <4>2. PICK f \in mine : ~f.tmp /\ f.body = p
        BY <2>1, <2>2, <3>1 DEF AppendOwnsFile
      <4> QED BY <3>1, <4>1, <4>2 DEF Bodies, Spooled
    <3>3. CASE ~(Length[p] <= MaxBytes)
      <4>1. Length[p] \in Nat /\ MaxBytes \in Nat
        BY <2>3, SpoolConstants
      <4> QED BY <3>3, <4>1
    <3> QED BY <3>2, <3>3
  <2> QED BY <2>2, <2>4, <2>5, <2>6
<1> QED BY <1>1, KeptInvariant, PTL DEF Spec, NilMeansKept

-----------------------------------------------------------------------------
\* A delivery is a duplicate unless it is the first.
LEMMA DeliveryCounts ==
    ASSUME TypeOK, NEW p \in Payloads, Delivers(p)
    PROVE  /\ delivered[p] = 0 => Duplicates' = Duplicates
           /\ \E x : Duplicates' \subseteq Duplicates \cup {x}
<1>1. /\ delivered \in [Payloads -> Nat]
      /\ delivered' = [delivered EXCEPT ![p] = delivered[p] + 1]
  BY DEF TypeOK, Delivers
<1>2. \A q \in Payloads : q # p => delivered'[q] = delivered[q]
  BY <1>1
<1>3. delivered'[p] = delivered[p] + 1 /\ delivered[p] \in Nat
  BY <1>1
<1>4. 2 .. delivered'[p] \subseteq (2 .. delivered[p]) \cup {delivered[p] + 1}
  BY <1>3
<1>5. delivered[p] = 0 => 2 .. delivered'[p] = {} /\ 2 .. delivered[p] = {}
  BY <1>3
<1>6. Duplicates' = UNION {{q} \X (2 .. delivered'[q]) : q \in Payloads}
  BY DEF Duplicates
<1>7. ASSUME delivered[p] = 0 PROVE Duplicates' = Duplicates
  <2>1. \A q \in Payloads : 2 .. delivered'[q] = 2 .. delivered[q]
    BY <1>2, <1>5, <1>7
  <2> QED BY <1>6, <2>1 DEF Duplicates
<1>8. Duplicates' \subseteq Duplicates \cup {<<p, delivered[p] + 1>>}
  <2> SUFFICES ASSUME NEW z \in Duplicates'
               PROVE  z \in Duplicates \/ z = <<p, delivered[p] + 1>>
    OBVIOUS
  <2>1. PICK q \in Payloads : z \in {q} \X (2 .. delivered'[q])
    BY <1>6
  <2>2. PICK k \in 2 .. delivered'[q] : z = <<q, k>>
    BY <2>1
  <2>3. k \in 2 .. delivered[q] \/ (q = p /\ k = delivered[p] + 1)
    BY <1>2, <1>4, <2>2
  <2>4. k \in 2 .. delivered[q] => z \in {q} \X (2 .. delivered[q])
    BY <2>2
  <2> QED BY <2>2, <2>3, <2>4 DEF Duplicates
<1> QED BY <1>7, <1>8

\* The arithmetic of one entry of the ledger: n is what it holds, t what was paid.
LEMMA EntrySum ==
    ASSUME NEW n \in Nat, NEW t \in Nat, NEW n1 \in Nat, NEW t1 \in Nat, n <= t
    PROVE  /\ n1 <= n /\ t <= t1 => n1 <= t1
           /\ n1 <= n + 1 /\ t + 1 <= t1 => n1 <= t1
OBVIOUS

LEMMA PaidType ==
    ASSUME TypeOK, TypeOK'
    PROVE  Paid \in Nat /\ Paid' \in Nat
<1>1. \A m, n \in Nat : m + n \in Nat
  OBVIOUS
<1>2. faults \in Nat /\ crashes \in Nat /\ faults' \in Nat /\ crashes' \in Nat
  BY DEF TypeOK
<1> QED BY <1>1, <1>2, Zenon DEF Paid

\* The two entries of the ledger that a step may make.
LEMMA LedgerKept ==
    ASSUME LedgerBalanced, TypeOK, TypeOK', Duplicates' = Duplicates,
           NEW x, Debt' \subseteq Debt \cup {x},
           \/ Debt' \subseteq Debt /\ Paid <= Paid'
           \/ Paid + 1 <= Paid'
    PROVE  LedgerBalanced'
<1>1. /\ IsFiniteSet(Debt)
      /\ Paid \in Nat /\ Paid' \in Nat
  BY SpoolConstants, FS_Subset, PaidType DEF Debt
<1>2. /\ IsFiniteSet(Debt \cup {x}) /\ Cardinality(Debt) \in Nat
      /\ Cardinality(Debt \cup {x}) \in Nat
      /\ Cardinality(Debt \cup {x}) <= Cardinality(Debt) + 1
  BY <1>1, CardAdd
<1>3. /\ Cardinality(Debt') <= Cardinality(Debt \cup {x})
      /\ Cardinality(Debt') \in Nat
  BY <1>2, FS_Subset, FS_CardinalityType
<1>4. Debt' \subseteq Debt => Cardinality(Debt') <= Cardinality(Debt)
  BY <1>1, FS_Subset
<1>5. IsFiniteSet(Duplicates) /\ Cardinality(Duplicates) \in Nat
  BY FS_CardinalityType DEF LedgerBalanced
<1>6. Cardinality(Duplicates) + Cardinality(Debt) <= Paid
  BY DEF LedgerBalanced
<1>7. Cardinality(Duplicates) + Cardinality(Debt') <= Paid'
  <2> DEFINE n == Cardinality(Duplicates) + Cardinality(Debt)
             n1 == Cardinality(Duplicates) + Cardinality(Debt')
  <2>1. n \in Nat /\ n1 \in Nat /\ n <= Paid /\ n1 <= n + 1
    BY <1>1, <1>2, <1>3, <1>5, <1>6
  <2>2. Debt' \subseteq Debt => n1 <= n
    BY <1>2, <1>3, <1>4, <1>5
  <2>3. (Debt' \subseteq Debt /\ Paid <= Paid') \/ Paid + 1 <= Paid'
    OBVIOUS
  <2> HIDE DEF n, n1
  <2>4. n1 <= Paid'
    BY <1>1, <2>1, <2>2, <2>3, EntrySum
  <2> QED BY <2>4 DEF n1
<1>8. IsFiniteSet(Duplicates') /\ Cardinality(Duplicates') = Cardinality(Duplicates)
  BY <1>5
<1> QED BY <1>7, <1>8 DEF LedgerBalanced

LEMMA LedgerPaid ==
    ASSUME LedgerBalanced, TypeOK, TypeOK', NEW x, Duplicates' \subseteq Duplicates \cup {x},
           Debt' \subseteq Debt,
           \/ /\ \E p \in Debt : Debt' \subseteq Debt \ {p}
              /\ Paid <= Paid'
           \/ Paid + 1 <= Paid'
    PROVE  LedgerBalanced'
<1>1. /\ IsFiniteSet(Debt)
      /\ Paid \in Nat /\ Paid' \in Nat
  BY SpoolConstants, FS_Subset, PaidType DEF Debt
<1>2. /\ IsFiniteSet(Duplicates) /\ Cardinality(Duplicates) \in Nat
      /\ Cardinality(Debt) \in Nat
  BY <1>1, FS_CardinalityType DEF LedgerBalanced
<1>3. /\ IsFiniteSet(Duplicates \cup {x})
      /\ Cardinality(Duplicates \cup {x}) \in Nat
      /\ Cardinality(Duplicates \cup {x}) <= Cardinality(Duplicates) + 1
  BY <1>2, CardAdd
<1>4. /\ IsFiniteSet(Duplicates') /\ Cardinality(Duplicates') \in Nat
      /\ Cardinality(Duplicates') <= Cardinality(Duplicates \cup {x})
  BY <1>3, FS_Subset, FS_CardinalityType
<1>5. Cardinality(Debt') \in Nat /\ Cardinality(Debt') <= Cardinality(Debt)
  BY <1>1, FS_Subset, FS_CardinalityType
<1>6. ASSUME NEW p \in Debt, Debt' \subseteq Debt \ {p}
      PROVE  Cardinality(Debt') <= Cardinality(Debt) - 1
  <2>1. IsFiniteSet(Debt \ {p}) /\ Cardinality(Debt \ {p}) = Cardinality(Debt) - 1
    BY <1>1, <1>6, FS_RemoveElement
  <2> QED BY <1>6, <2>1, FS_Subset
<1>7. Cardinality(Duplicates) + Cardinality(Debt) <= Paid
  BY DEF LedgerBalanced
<1>8. CASE Paid + 1 <= Paid'
  <2>1. Cardinality(Duplicates') + Cardinality(Debt') <= Paid'
    <3> DEFINE n == Cardinality(Duplicates) + Cardinality(Debt)
               n1 == Cardinality(Duplicates') + Cardinality(Debt')
    <3>1. n \in Nat /\ n1 \in Nat /\ n <= Paid /\ n1 <= n + 1
      BY <1>1, <1>2, <1>3, <1>4, <1>5, <1>7
    <3>2. Paid + 1 <= Paid'
      BY <1>8
    <3> HIDE DEF n, n1
    <3>3. n1 <= Paid'
      BY <1>1, <3>1, <3>2, EntrySum
    <3> QED BY <3>3 DEF n1
  <2> QED BY <1>4, <2>1 DEF LedgerBalanced
<1>9. CASE /\ \E p \in Debt : Debt' \subseteq Debt \ {p}
           /\ Paid <= Paid'
  <2>1. Cardinality(Debt') <= Cardinality(Debt) - 1
    BY <1>6, <1>9
  <2>2. Cardinality(Duplicates') + Cardinality(Debt') <= Paid'
    <3> DEFINE n == Cardinality(Duplicates) + Cardinality(Debt)
               n1 == Cardinality(Duplicates') + Cardinality(Debt')
    <3>1. n \in Nat /\ n1 \in Nat /\ n <= Paid /\ n1 <= n
      BY <1>1, <1>2, <1>3, <1>4, <1>5, <1>7, <2>1
    <3>2. Paid <= Paid'
      BY <1>9
    <3> HIDE DEF n, n1
    <3>3. n1 <= Paid'
      BY <1>1, <3>1, <3>2, EntrySum
    <3> QED BY <3>3 DEF n1
  <2> QED BY <1>4, <2>2 DEF LedgerBalanced
<1> QED BY <1>8, <1>9

\* A failed call and a crash pay for one duplicate each; nothing is paid back.
LEMMA PaidGrows ==
    ASSUME TypeOK, [Next]_vars
    PROVE  /\ Paid <= Paid'
           /\ faults' = faults + 1 \/ crashes' = crashes + 1 => Paid + 1 <= Paid'
<1>1. faults \in Nat /\ crashes \in Nat
  BY DEF TypeOK
<1>2. \/ faults' = faults /\ crashes' = crashes
      \/ faults' = faults + 1 /\ crashes' = crashes
      \/ faults' = faults /\ crashes' = crashes + 1
  BY FaultCounts DEF Next, Caller, Replay, vars, bounds, Publish, Lock, PublishLive,
         PublishFailed, Create, Write, Rename, AbandonTmp, ReadDir, Evict, EvictDone,
         Tick, ReplayNext, ReplayRead, ReplayPublish, ReplayDelete, ReplayStop,
         Outage, Crash, StepBack, UpstreamOK, UpstreamError
<1>3. CASE faults' = faults /\ crashes' = crashes
  <2>1. Paid' = Paid
    BY <1>3 DEF Paid
  <2> QED BY <1>1, <1>3, <2>1 DEF Paid
<1>4. CASE faults' = faults + 1 /\ crashes' = crashes
  <2>1. Paid' = (faults + 1) + crashes
    BY <1>4, Zenon DEF Paid
  <2> QED BY <1>1, <2>1 DEF Paid
<1>5. CASE faults' = faults /\ crashes' = crashes + 1
  <2>1. Paid' = faults + (crashes + 1)
    BY <1>5, Zenon DEF Paid
  <2> QED BY <1>1, <2>1 DEF Paid
<1> QED BY <1>2, <1>3, <1>4, <1>5

\* What a live publish has in hand is in no other hands and in no file.
LEMMA HandedOnce ==
    ASSUME LifeInv, NEW c \in Callers,
           pc[c] \in {"lock", "upstream", "create", "write", "rename"}
    PROVE  /\ cur[c] \in Payloads
           /\ cur[c] \notin Bodies(dir)
           /\ \A d \in Callers : d # c /\ pc[d] # "idle" => cur[d] # cur[c]
<1>1. cur[c] \in Payloads /\ rank[cur[c]] = 0
  BY DEF LifeInv, SpoolInv, PayloadAtHand, OncePerPayload
<1>2. cur[c] \notin Bodies(dir)
  <2>1. \A f \in Spooled(dir) : rank[f.body] > 0
    BY DEF LifeInv, OneFilePerPayload
  <2>2. \A f \in Spooled(dir) : f.body # cur[c]
    BY <1>1, <2>1
  <2> QED BY <2>2 DEF Bodies
<1>3. \A d \in Callers : d # c /\ pc[d] # "idle" => cur[d] # cur[c]
  BY DEF LifeInv, OncePerPayload
<1> QED BY <1>1, <1>2, <1>3

\* The payloads in a smaller spool, and after the rename of an Append.
LEMMA BodiesChange ==
    ASSUME LifeInv, [Next]_vars
    PROVE  \/ Bodies(dir') \subseteq Bodies(dir)
           \/ \E c \in Callers : /\ Rename(c) /\ pc'[c] = "readdir"
                                /\ Bodies(dir') \subseteq Bodies(dir) \cup {cur[c]}
<1>1. CASE Spooled(dir') \subseteq Spooled(dir)
  BY <1>1 DEF Bodies
<1>2. ASSUME NEW c \in Callers, Rename(c), pc'[c] = "readdir"
      PROVE  Bodies(dir') \subseteq Bodies(dir) \cup {cur[c]}
  <2>1. PICK m, n \in File : n.body = cur[c] /\ dir' = (dir \ {m}) \cup {n}
    BY <1>2, RenamedFile
  <2>2. \A f \in Spooled(dir') : f = n \/ f \in Spooled(dir)
    BY <2>1 DEF Spooled
  <2> QED BY <2>1, <2>2 DEF Bodies
<1> QED BY <1>1, <1>2, SpoolGrows

\* Only a failed live publish hands Append a payload.
LEMMA OutstandingGrows ==
    ASSUME LifeInv, [Next]_vars
    PROVE  \/ Outstanding' \subseteq Outstanding
           \/ \E c \in Callers : /\ PublishFailed(c)
                                /\ Outstanding' \subseteq Outstanding \cup {cur[c]}
<1> DEFINE Hands == {d \in Callers : pc[d] \in {"create", "write", "rename"}}
           Held  == {cur[c] : c \in Hands}
           Held1 == {cur'[c] : c \in {d \in Callers : pc'[d] \in {"create", "write", "rename"}}}
<1>1. Outstanding = Bodies(dir) \cup Held /\ Outstanding' = Bodies(dir') \cup Held1
  BY DEF Outstanding
<1>2. /\ pc \in [Callers -> {"idle", "lock", "upstream", "create", "write",
                             "rename", "readdir", "evict"}]
      /\ cur \in [Callers -> Payloads \cup {NoPayload}]
  BY DEF LifeInv, SpoolInv, TypeOK
<1>3. ASSUME NEW c \in Callers, PublishFailed(c)
      PROVE  Outstanding' \subseteq Outstanding \cup {cur[c]}
  <2>1. \A d \in Callers : pc'[d] \in {"create", "write", "rename"} =>
            d = c \/ (d \in Hands /\ cur'[d] = cur[d])
    BY <1>2, <1>3 DEF PublishFailed, ReturnError, Return
  <2>2. pc'[c] \in {"create", "write", "rename"} => cur'[c] = cur[c]
    BY <1>2, <1>3 DEF PublishFailed, ReturnError, Return
  <2>3. Held1 \subseteq Held \cup {cur[c]}
    BY <2>1, <2>2
  <2>4. dir' = dir
    BY <1>3 DEF PublishFailed
  <2> QED BY <1>1, <2>3, <2>4
<1>4. ASSUME \A c \in Callers : ~PublishFailed(c)
      PROVE  /\ \A d \in Callers : pc'[d] \in {"create", "write", "rename"} =>
                    d \in Hands /\ cur'[d] = cur[d]
             /\ Held1 \subseteq Held
  <2>1. ASSUME NEW c \in Callers, NEW p \in Payloads, Publish(c, p)
        PROVE  \A d \in Callers : pc'[d] \in {"create", "write", "rename"} =>
                    d \in Hands /\ cur'[d] = cur[d]
    BY <1>2, <2>1 DEF Publish
  <2>2. ASSUME NEW c \in Callers, Caller(c)
        PROVE  \A d \in Callers : pc'[d] \in {"create", "write", "rename"} =>
                    d \in Hands /\ cur'[d] = cur[d]
    <3>1. \A d \in Callers : d # c => pc'[d] = pc[d] /\ cur'[d] = cur[d]
      BY <1>2, <1>4, <2>2
         DEF Caller, Lock, PublishLive, Create, Write, Rename, AbandonTmp,
             ReadDir, Evict, EvictDone, ReturnNil, ReturnError, Return
    <3>2. pc'[c] \in {"create", "write", "rename"} => c \in Hands /\ cur'[c] = cur[c]
      BY <1>2, <1>4, <2>2
         DEF Caller, Lock, PublishLive, Create, Write, Rename, AbandonTmp,
             ReadDir, Evict, EvictDone, ReturnNil, ReturnError, Return
    <3> QED BY <3>1, <3>2
  <2>3. CASE Crash
    BY <2>3 DEF Crash
  <2>4. CASE UNCHANGED <<pc, cur>>
    BY <2>4
  <2>5. \A d \in Callers : pc'[d] \in {"create", "write", "rename"} =>
                    d \in Hands /\ cur'[d] = cur[d]
    BY <2>1, <2>2, <2>3, <2>4
       DEF Next, Replay, vars, procVars, Tick, ReplayNext, ReplayRead, ReplayPublish,
           ReplayDelete, ReplayStop, Outage, StepBack
  <2> QED BY <2>5
<1>5. ASSUME NEW c \in Callers, Rename(c) PROVE cur[c] \in Held
  BY <1>5 DEF Rename
<1> QED BY <1>1, <1>3, <1>4, <1>5, BodiesChange

LEMMA LedgerPreserved ==
    ASSUME LifeInv, LedgerBalanced, [Next]_vars
    PROVE  LedgerBalanced'
<1> DEFINE Goal == LedgerBalanced'
<1>1. /\ TypeOK /\ TypeOK' /\ delivered \in [Payloads -> Nat] /\ todo \in SUBSET File
      /\ faults \in Nat /\ crashes \in Nat
      /\ \A f \in todo : f.body \in Payloads
  BY LifeStep DEF LifeInv, SpoolInv, TypeOK, File
<1>2. /\ Paid <= Paid'
      /\ faults' = faults + 1 \/ crashes' = crashes + 1 => Paid + 1 <= Paid'
  BY <1>1, PaidGrows
<1>3. ASSUME UNCHANGED delivered, NEW x, Debt' \subseteq Debt \cup {x},
             Debt' \subseteq Debt \/ Paid + 1 <= Paid'
      PROVE  Goal
  <2>1. Duplicates' = Duplicates
    BY <1>3 DEF Duplicates
  <2> QED BY <1>1, <1>2, <1>3, <2>1, LedgerKept
<1>4. ASSUME UNCHANGED delivered, Debt' \subseteq Debt PROVE Goal
  <2>1. Debt' \subseteq Debt \cup {0}
    BY <1>4
  <2> QED BY <1>3, <1>4, <2>1
<1>5. ASSUME NEW c \in Callers, PublishLive(c) PROVE Goal
  <2>1. /\ cur[c] \in Payloads /\ cur[c] \notin Bodies(dir)
        /\ \A d \in Callers : d # c /\ pc[d] # "idle" => cur[d] # cur[c]
    BY <1>5, HandedOnce DEF PublishLive
  <2>2. /\ Delivers(cur[c]) /\ UNCHANGED <<dir, rpc, todo>>
        /\ pc'[c] = "idle" /\ \A d \in Callers : d # c => pc'[d] = pc[d] /\ cur'[d] = cur[d]
    BY <1>1, <1>5 DEF PublishLive, UpstreamOK, ReturnNil, Return, TypeOK
  <2>3. delivered[cur[c]] = 0
    BY <1>5 DEF PublishLive, LifeInv, OncePerPayload
  <2>4. Duplicates' = Duplicates
    BY <1>1, <2>1, <2>2, <2>3, DeliveryCounts
  <2>5. cur[c] \notin Outstanding'
    BY <2>1, <2>2 DEF Outstanding
  <2>6. Outstanding' \subseteq Outstanding
    <3>1. \A d \in Callers : pc'[d] \in {"create", "write", "rename"} =>
              pc[d] \in {"create", "write", "rename"} /\ cur'[d] = cur[d]
      BY <2>2
    <3> QED BY <2>2, <3>1 DEF Outstanding
  <2>7. \A q \in Payloads : q # cur[c] => delivered'[q] = delivered[q]
    BY <1>1, <2>1, <2>2 DEF Delivers
  <2>8. Settling' = Settling
    BY <2>2 DEF Settling, IsOldest
  <2>9. Debt' \subseteq Debt
    BY <2>5, <2>6, <2>7, <2>8 DEF Debt
  <2>10. Debt' \subseteq Debt \cup {0}
    BY <2>9
  <2> QED BY <1>1, <1>2, <2>4, <2>9, <2>10, LedgerKept
<1>6. ASSUME NEW c \in Callers, PublishFailed(c) PROVE Goal
  <2>1. /\ cur[c] \in Payloads /\ delivered[cur[c]] = 0
        /\ UNCHANGED <<dir, rpc, todo>>
    BY <1>6, HandedOnce DEF PublishFailed, LifeInv, OncePerPayload
  <2>2. Outstanding' \subseteq Outstanding \cup {cur[c]}
    <3>1. \A d \in Callers : PublishFailed(d) => d = c
      BY <1>6 DEF PublishFailed, LifeInv, SpoolInv, Serialised
    <3> QED BY <3>1, OutstandingGrows
  <2>3. Settling' = Settling
    BY <2>1 DEF Settling, IsOldest
  <2>4. CASE UNCHANGED delivered
    <3>1. Debt' \subseteq Debt
      BY <2>1, <2>2, <2>3, <2>4 DEF Debt
    <3> QED BY <1>4, <2>4, <3>1
  <2>5. CASE Fault("lateAck") /\ Delivers(cur[c])
    <3>1. Duplicates' = Duplicates
      BY <1>1, <2>1, <2>5, DeliveryCounts
    <3>2. \A q \in Payloads : q # cur[c] => delivered'[q] = delivered[q]
      BY <1>1, <2>1, <2>5 DEF Delivers
    <3>3. Debt' \subseteq Debt \cup {cur[c]}
      BY <2>2, <2>3, <3>2 DEF Debt
    <3>4. Paid + 1 <= Paid'
      BY <1>2, <2>5, FaultCounts
    <3> QED BY <1>1, <3>1, <3>3, <3>4, LedgerKept
  <2> QED BY <1>6, <2>4, <2>5 DEF PublishFailed, UpstreamError
<1>7. CASE ReplayPublish
  <2>1. PICK f \in todo :
          /\ IsOldest(f, todo)
          /\ \/ UpstreamOK(f.body) /\ rpc' = "delete" /\ UNCHANGED <<liveBusy, todo>>
             \/ UpstreamError(f.body) /\ Bail
    BY <1>7 DEF ReplayPublish
  <2>2. f.body \in Payloads /\ rpc = "publish" /\ UNCHANGED <<dir, pc, cur>>
    BY <1>1, <1>7 DEF ReplayPublish
  <2>3. f.body \in Outstanding
    <3>1. f \in Spooled(dir)
      BY <2>1, <2>2 DEF LifeInv, ReplayAtHand, OneFilePerPayload, Spooled
    <3> QED BY <3>1 DEF Outstanding, Bodies
  <2>4. Outstanding' = Outstanding /\ Settling = {}
    BY <2>2 DEF Outstanding, Settling, Bodies, Spooled
  <2>5. delivered[f.body] > 0 => f.body \in Debt
    BY <2>2, <2>3, <2>4 DEF Debt
  <2>6. CASE UNCHANGED delivered
    <3>1. Debt' \subseteq Debt
      BY <2>4, <2>6 DEF Debt
    <3> QED BY <1>4, <2>6, <3>1
  <2>7. CASE UpstreamOK(f.body) /\ rpc' = "delete" /\ UNCHANGED todo
    <3>1. Delivers(f.body)
      BY <2>7 DEF UpstreamOK
    <3>2. f.body \in Settling'
      BY <2>1, <2>7 DEF Settling, IsOldest
    <3>3. \A q \in Payloads : q # f.body => delivered'[q] = delivered[q]
      BY <1>1, <2>2, <3>1 DEF Delivers
    <3>4. Debt' \subseteq Debt \ {f.body}
      BY <2>4, <3>2, <3>3 DEF Debt
    <3>5. CASE delivered[f.body] = 0
      <4>1. Duplicates' = Duplicates
        BY <1>1, <2>2, <3>1, <3>5, DeliveryCounts
      <4>2. Debt' \subseteq Debt /\ Debt' \subseteq Debt \cup {0}
        BY <3>4
      <4> QED BY <1>1, <1>2, <4>1, <4>2, LedgerKept
    <3>6. CASE delivered[f.body] # 0
      <4>1. f.body \in Debt
        BY <1>1, <2>2, <2>5, <3>6
      <4>2. PICK x : Duplicates' \subseteq Duplicates \cup {x}
        BY <1>1, <2>2, <3>1, DeliveryCounts
      <4>3. Debt' \subseteq Debt
        BY <3>4
      <4> QED BY <1>1, <1>2, <3>4, <4>1, <4>2, <4>3, LedgerPaid
    <3> QED BY <3>5, <3>6
  <2>8. CASE Fault("lateAck") /\ Delivers(f.body)
    <3>1. Paid + 1 <= Paid'
      BY <1>2, <2>8, FaultCounts
    <3>2. \A q \in Payloads : q # f.body => delivered'[q] = delivered[q]
      BY <1>1, <2>2, <2>8 DEF Delivers
    <3>3. Debt' \subseteq Debt \cup {f.body}
      BY <2>4, <3>2 DEF Debt
    <3>4. CASE delivered[f.body] = 0
      <4>1. Duplicates' = Duplicates
        BY <1>1, <2>2, <2>8, <3>4, DeliveryCounts
      <4> QED BY <1>1, <3>1, <3>3, <4>1, LedgerKept
    <3>5. CASE delivered[f.body] # 0
      <4>1. f.body \in Debt
        BY <1>1, <2>2, <2>5, <3>5
      <4>2. PICK x : Duplicates' \subseteq Duplicates \cup {x}
        BY <1>1, <2>2, <2>8, DeliveryCounts
      <4>3. Debt' \subseteq Debt
        BY <3>3, <4>1
      <4> QED BY <1>1, <3>1, <4>2, <4>3, LedgerPaid
    <3> QED BY <3>4, <3>5
  <2> QED BY <2>1, <2>6, <2>7, <2>8 DEF UpstreamError
<1>8. CASE ReplayDelete
  <2>1. PICK f \in todo :
          /\ IsOldest(f, todo)
          /\ dir' = dir \ {f} \/ (Fault("delete") /\ UNCHANGED dir)
    BY <1>8 DEF ReplayDelete
  <2>2. rpc = "delete" /\ UNCHANGED <<delivered, pc, cur>>
    BY <1>8 DEF ReplayDelete
  <2>3. Settling = {f.body}
    <3>1. {g \in todo : IsOldest(g, todo)} = {f}
      BY <1>1, <2>1, OldestUnique
    <3> QED BY <2>2, <3>1 DEF Settling
  <2>4. Outstanding' \subseteq Outstanding
    BY <2>1, <2>2 DEF Outstanding, Bodies, Spooled
  <2>5. Debt' \subseteq Debt \cup {f.body}
    BY <2>2, <2>3, <2>4 DEF Debt
  <2>6. CASE dir' = dir \ {f}
    <3>1. f \in Spooled(dir) /\ rank[f.body] > 0
      BY <2>1, <2>2 DEF LifeInv, ReplayAtHand, OneFilePerPayload, Spooled
    <3>2. f.body \notin Bodies(dir')
      <4>1. \A g \in Spooled(dir') : g \in Spooled(dir) /\ g # f
        BY <2>6 DEF Spooled
      <4>2. \A g \in Spooled(dir') : g.body # f.body
        BY <3>1, <4>1 DEF LifeInv, OneFilePerPayload
      <4> QED BY <4>2 DEF Bodies
    <3>3. \A c \in Callers : pc'[c] \in {"create", "write", "rename"} => cur'[c] # f.body
      BY <2>2, <3>1 DEF LifeInv, OncePerPayload
    <3>4. f.body \notin Outstanding'
      BY <3>2, <3>3 DEF Outstanding
    <3>5. f.body \notin Debt'
      BY <3>4 DEF Debt
    <3> QED BY <1>4, <2>2, <2>5, <3>5
  <2>7. CASE Fault("delete")
    <3>1. Paid + 1 <= Paid'
      BY <1>2, <2>7, FaultCounts
    <3> QED BY <1>3, <2>2, <2>5, <3>1
  <2> QED BY <2>1, <2>6, <2>7
<1>9. CASE Crash
  <2>1. UNCHANGED <<dir, delivered>> /\ crashes' = crashes + 1
        /\ \A c \in Callers : pc'[c] = "idle"
    BY <1>9 DEF Crash
  <2>2. Outstanding' \subseteq Outstanding
    BY <2>1 DEF Outstanding
  <2>3. PICK x : Settling \subseteq {x}
    <3>1. CASE \E f \in todo : IsOldest(f, todo)
      <4>1. PICK f \in todo : IsOldest(f, todo)
        BY <3>1
      <4>2. {g \in todo : IsOldest(g, todo)} = {f}
        BY <1>1, <4>1, OldestUnique
      <4> QED BY <4>2 DEF Settling
    <3>2. CASE ~\E f \in todo : IsOldest(f, todo)
      BY <3>2 DEF Settling
    <3> QED BY <3>1, <3>2
  <2>4. Debt' \subseteq Debt \cup {x}
    BY <2>1, <2>2, <2>3 DEF Debt
  <2> QED BY <1>2, <1>3, <2>1, <2>4
<1>10. ASSUME UNCHANGED delivered, \A c \in Callers : ~PublishFailed(c),
              (rpc' = rpc /\ todo' = todo) \/ rpc # "delete"
       PROVE  Goal
  <2>1. Outstanding' \subseteq Outstanding
    BY <1>10, OutstandingGrows
  <2>2. Settling \subseteq Settling'
    BY <1>10 DEF Settling, IsOldest
  <2>3. Debt' \subseteq Debt
    BY <1>10, <2>1, <2>2 DEF Debt
  <2> QED BY <1>4, <1>10, <2>3
<1> QED BY <1>5, <1>6, <1>7, <1>8, <1>9, <1>10
        DEF Next, Caller, Replay, vars, procVars, Publish, Lock, Create, Write, Rename,
            ReadDir, Evict, EvictDone, Tick, ReplayNext, ReplayRead, ReplayStop, Outage,
            StepBack

\* Every duplicate is paid for: the deliveries beyond the first of any payload
\* are at most as many as crashes, failed system calls and late acknowledgements,
\* so that delivery is exactly-once while publishes only fail outright.
THEOREM SpoolDuplicates == Spec => []DuplicatesPaidFor
<1>1. Init => LedgerBalanced
  <2> SUFFICES ASSUME Init PROVE LedgerBalanced
    OBVIOUS
  <2>1. \A p \in Payloads : delivered[p] = 0
    BY DEF Init
  <2>2. \A p \in Payloads : 2 .. delivered[p] = {}
    BY <2>1
  <2>3. Duplicates = {}
    BY <2>2 DEF Duplicates
  <2>4. Debt = {}
    BY <2>1 DEF Debt
  <2>5. IsFiniteSet({}) /\ Cardinality({}) = 0
    BY FS_EmptySet
  <2>6. Paid = 0
    BY DEF Init, Paid
  <2> QED BY <2>3, <2>4, <2>5, <2>6 DEF LedgerBalanced
<1>2. LifeInv /\ LedgerBalanced => DuplicatesPaidFor
  <2> SUFFICES ASSUME LifeInv, LedgerBalanced PROVE DuplicatesPaidFor
    OBVIOUS
  <2>1. IsFiniteSet(Debt)
    BY SpoolConstants, FS_Subset DEF Debt
  <2>2. Cardinality(Debt) \in Nat /\ Cardinality(Duplicates) \in Nat
    BY <2>1, FS_CardinalityType DEF LedgerBalanced
  <2>3. faults \in Nat /\ crashes \in Nat
    BY DEF LifeInv, SpoolInv, TypeOK
  <2> QED BY <2>2, <2>3 DEF LedgerBalanced, DuplicatesPaidFor, Paid
<1> QED BY <1>1, <1>2, OrderInvariant, LedgerPreserved, PTL DEF Spec
=============================================================================
