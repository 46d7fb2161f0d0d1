-------------------------- MODULE RingBufferProofs --------------------------
(***************************************************************************)
(* Proofs that the ring of internal/pipeline/ring.go is a drop-oldest FIFO *)
(* with exact accounting, for every capacity, byte cap and set of costs.   *)
(*                                                                         *)
(* The inductive invariant relates the circular indices to the history:    *)
(* the i-th slot after head holds the entry accepted - size + 1 + i, at    *)
(* the cost the history recorded for it, and every other slot is nil.      *)
(* The second half shows, step by step, that the ring implements           *)
(* DropOldestQueue.                                                        *)
(***************************************************************************)
EXTENDS MCRingBuffer, SequenceTheorems, FiniteSetTheorems, TLAPS

\* The cost stored with each buffered entry is the one it was accepted at.
WindowCosts ==
    \A i \in 0 .. size - 1 :
        buf[Slot(i)].cost = cum[accepted - size + 1 + i] - cum[accepted - size + i]

\* Costs are not negative, so the running totals never decrease.
CumMonotone ==
    \A m, n \in 0 .. accepted : m <= n => cum[m] <= cum[n]

\* The entry inside a running Push is the next one; a free lock leaves nothing
\* half done.
OperationOK ==
    /\ op = "push" => arg.id = accepted + 1
    /\ op = "none" => moved = <<>>

\* What a running PopBatch has collected continues what was returned before.
FlightInOrder ==
    op = "batch" =>
        /\ \A i, j \in 1 .. Len(moved) : i < j => moved[i].id < moved[j].id
        /\ \A i \in 1 .. Len(taken) : \A j \in 1 .. Len(moved) :
               taken[i].id < moved[j].id
        /\ \A j \in 1 .. Len(moved) : moved[j].id <= accepted - size

\* Popping and evicting nil the slot out, so the ring keeps no entry alive
\* beyond the ones it buffers.
FreeSlotsNil ==
    \A i \in size .. MaxEntries - 1 : buf[Slot(i)] = Nil

\* The incrementally maintained byte count is the cost of the buffered
\* entries, which are the newest ones, after any mix of pushes and pops.
BytesExact == bytes = cum[accepted] - cum[accepted - size]

\* The indices and the buffered window: the part every removal preserves.
WindowInv ==
    /\ HoldsNewest
    /\ FreeSlotsNil
    /\ WindowCosts
    /\ BytesExact
    /\ CumMonotone
    /\ ByteCap

RingInv ==
    /\ TypeOK
    /\ Conservation
    /\ WindowInv
    /\ OperationOK
    /\ InOrderDelivery
    /\ FlightInOrder

-----------------------------------------------------------------------------
\* Reduction modulo the capacity of the sums the code forms.
LEMMA ModBelow ==
    ASSUME NEW a \in 0 .. MaxEntries - 1
    PROVE  a % MaxEntries = a
BY MaxEntriesAssumption

LEMMA ModAbove ==
    ASSUME NEW a \in MaxEntries .. 2 * MaxEntries - 1
    PROVE  a % MaxEntries = a - MaxEntries
BY MaxEntriesAssumption

\* Slot(i) without the modulus.
LEMMA SlotValue ==
    ASSUME head \in Slots, NEW i \in 0 .. MaxEntries
    PROVE  /\ Slot(i) = IF head + i < MaxEntries THEN head + i
                                                 ELSE head + i - MaxEntries
           /\ Slot(i) \in Slots
<1>1. CASE head + i < MaxEntries
  <2>1. (head + i) % MaxEntries = head + i
    BY <1>1, ModBelow, MaxEntriesAssumption DEF Slots
  <2> QED BY <2>1, <1>1, MaxEntriesAssumption DEF Slot, Slots
<1>2. CASE ~(head + i < MaxEntries)
  <2>1. (head + i) % MaxEntries = head + i - MaxEntries
    BY <1>2, ModAbove, MaxEntriesAssumption DEF Slots
  <2> QED BY <2>1, <1>2, MaxEntriesAssumption DEF Slot, Slots
<1> QED BY <1>1, <1>2

\* Two positions of the ring are two slots, and position 0 is the head.
LEMMA SlotInjective ==
    ASSUME head \in Slots,
           NEW i \in 0 .. MaxEntries - 1, NEW j \in 0 .. MaxEntries - 1
    PROVE  /\ i # j => Slot(i) # Slot(j)
           /\ Slot(0) = head
<1>1. Slot(i) = IF head + i < MaxEntries THEN head + i ELSE head + i - MaxEntries
  BY SlotValue, MaxEntriesAssumption
<1>2. Slot(j) = IF head + j < MaxEntries THEN head + j ELSE head + j - MaxEntries
  BY SlotValue, MaxEntriesAssumption
<1>3. Slot(0) = IF head + 0 < MaxEntries THEN head + 0 ELSE head + 0 - MaxEntries
  BY SlotValue, MaxEntriesAssumption
<1> QED BY <1>1, <1>2, <1>3, MaxEntriesAssumption DEF Slots

\* Advancing head shifts every position by one.
LEMMA SlotShift ==
    ASSUME head \in Slots, head' = (head + 1) % MaxEntries,
           NEW i \in 0 .. MaxEntries - 1
    PROVE  /\ head' \in Slots
           /\ (head' + i) % MaxEntries = Slot(i + 1)
<1>1. Slot(i + 1) = IF head + (i + 1) < MaxEntries THEN head + (i + 1)
                                          ELSE head + (i + 1) - MaxEntries
  BY SlotValue, MaxEntriesAssumption
<1>2. head' = IF head + 1 < MaxEntries THEN head + 1 ELSE 0
  <2>1. Slot(1) = IF head + 1 < MaxEntries THEN head + 1
                                           ELSE head + 1 - MaxEntries
    BY SlotValue, MaxEntriesAssumption
  <2> QED BY <2>1, MaxEntriesAssumption DEF Slot, Slots
<1>3. head' \in Slots
  BY <1>2, MaxEntriesAssumption DEF Slots
<1>4. CASE head' + i < MaxEntries
  <2>1. (head' + i) % MaxEntries = head' + i
    BY <1>3, <1>4, ModBelow, MaxEntriesAssumption DEF Slots
  <2> QED BY <2>1, <1>1, <1>2, <1>3, <1>4, MaxEntriesAssumption DEF Slots
<1>5. CASE ~(head' + i < MaxEntries)
  <2>1. (head' + i) % MaxEntries = head' + i - MaxEntries
    BY <1>3, <1>5, ModAbove, MaxEntriesAssumption DEF Slots
  <2> QED BY <2>1, <1>1, <1>2, <1>3, <1>5, MaxEntriesAssumption DEF Slots
<1> QED BY <1>3, <1>4, <1>5

\* The identities in a sequence of entries are numbers.
LEMMA EntryIds ==
    ASSUME NEW s \in Seq(Entry)
    PROVE  \A i \in 1 .. Len(s) : s[i] \in Entry /\ s[i].id \in Nat
<1>1. \A i \in 1 .. Len(s) : s[i] \in Entry
  OBVIOUS
<1>2. \A e \in Entry : e.id \in Nat
  BY DEF Entry
<1> QED BY <1>1, <1>2

\* A sequence of increasing identities below a bound, extended by the bound.
LEMMA AppendInOrder ==
    ASSUME NEW s \in Seq(Entry), NEW e \in Entry, NEW b \in Nat,
           e.id = b + 1,
           \A i, j \in 1 .. Len(s) : i < j => s[i].id < s[j].id,
           \A i \in 1 .. Len(s) : s[i].id <= b
    PROVE  /\ \A i, j \in 1 .. Len(Append(s, e)) :
                 i < j => Append(s, e)[i].id < Append(s, e)[j].id
           /\ \A i \in 1 .. Len(Append(s, e)) : Append(s, e)[i].id <= b + 1
<1>1. /\ Len(Append(s, e)) = Len(s) + 1
      /\ Append(s, e)[Len(s) + 1] = e
      /\ \A i \in 1 .. Len(s) : Append(s, e)[i] = s[i]
  OBVIOUS
<1>2. Len(s) \in Nat
  OBVIOUS
<1>3. \A i \in 1 .. Len(s) : s[i].id \in Nat
  BY EntryIds
<1> DEFINE t == Append(s, e)
<1>4. \A i \in 1 .. Len(t) : i \in 1 .. Len(s) \/ i = Len(s) + 1
  BY <1>1, <1>2
<1>5. \A i \in 1 .. Len(t) : t[i].id <= b + 1
  BY <1>1, <1>3, <1>4
<1>6. ASSUME NEW i \in 1 .. Len(t), NEW j \in 1 .. Len(t), i < j
      PROVE  t[i].id < t[j].id
  <2>1. i \in 1 .. Len(s)
    BY <1>1, <1>2, <1>6
  <2>2. CASE j \in 1 .. Len(s)
    BY <1>1, <1>6, <2>1, <2>2
  <2>3. CASE j = Len(s) + 1
    BY <1>1, <1>3, <2>1, <2>3
  <2> QED BY <1>4, <2>2, <2>3
<1> QED BY <1>5, <1>6

-----------------------------------------------------------------------------
\* The oldest buffered entry: its identity, and that bytes covers its cost.
LEMMA HeadEntry ==
    ASSUME RingInv, size > 0
    PROVE  /\ buf[head] \in Entry
           /\ buf[head].id = accepted - size + 1
           /\ buf[head].cost = cum[accepted - size + 1] - cum[accepted - size]
           /\ accepted - size \in 0 .. accepted
           /\ accepted - size + 1 \in 0 .. accepted
<1>1. /\ head \in Slots
      /\ size \in 1 .. MaxEntries
      /\ buf \in [Slots -> Entry]
      /\ accepted \in Nat
      /\ drops \in Nat
  BY DEF RingInv, TypeOK
<1>2. Slot(0) = head
  BY <1>1, SlotInjective, MaxEntriesAssumption
<1>3. Len(taken) \in Nat /\ InFlight \in Nat
  BY DEF RingInv, TypeOK, InFlight
<1>4. accepted - size \in 0 .. accepted /\ accepted - size + 1 \in 0 .. accepted
  BY <1>1, <1>3 DEF RingInv, Conservation
<1>5. 0 \in 0 .. size - 1
  BY <1>1
<1>6. /\ buf[Slot(0)].id = accepted - size + 1 + 0
      /\ buf[Slot(0)].cost = cum[accepted - size + 1 + 0] - cum[accepted - size + 0]
  BY <1>5 DEF RingInv, WindowInv, HoldsNewest, WindowCosts
<1> QED BY <1>1, <1>2, <1>4, <1>6

\* Removing the head, in a pop or an eviction, keeps the window.
LEMMA RemoveHeadOK ==
    ASSUME RingInv, size > 0, RemoveHead, UNCHANGED <<accepted, cum>>
    PROVE  /\ buf' \in [Slots -> Entry]
           /\ head' \in Slots
           /\ size' \in 0 .. MaxEntries
           /\ size' = size - 1
           /\ bytes' \in Nat
           /\ WindowInv'
<1> DEFINE e == buf[head]
<1>1. /\ head \in Slots
      /\ size \in 1 .. MaxEntries
      /\ buf \in [Slots -> Entry]
      /\ accepted \in Nat
      /\ bytes \in Nat
      /\ cum \in [0 .. accepted -> Nat]
  BY DEF RingInv, TypeOK
<1>2. /\ buf' = [buf EXCEPT ![head] = Nil]
      /\ head' = (head + 1) % MaxEntries
      /\ size' = size - 1
      /\ bytes' = bytes - e.cost
      /\ accepted' = accepted
      /\ cum' = cum
  BY DEF RemoveHead, approxBytes
<1>3. /\ e \in Entry
      /\ e.cost = cum[accepted - size + 1] - cum[accepted - size]
      /\ accepted - size \in 0 .. accepted
      /\ accepted - size + 1 \in 0 .. accepted
  BY HeadEntry
<1>4. Nil \in Entry
  BY DEF Nil, Entry
<1>5. buf' \in [Slots -> Entry]
  BY <1>1, <1>2, <1>4
<1>6. head' \in Slots
  BY <1>1, <1>2, SlotShift, MaxEntriesAssumption
<1>7. size' \in 0 .. MaxEntries /\ size' = size - 1
  BY <1>1, <1>2, MaxEntriesAssumption
<1>8. bytes' = cum[accepted] - cum[accepted - size']
  <2>1. bytes = cum[accepted] - cum[accepted - size]
    BY DEF RingInv, WindowInv, BytesExact
  <2>2. accepted - size' = accepted - size + 1
    BY <1>1, <1>7
  <2>3. cum[accepted] \in Nat /\ cum[accepted - size] \in Nat
            /\ cum[accepted - size + 1] \in Nat
    BY <1>1, <1>3
  <2> QED BY <1>2, <1>3, <2>1, <2>2, <2>3
<1>9. bytes' \in Nat /\ bytes' <= bytes
  <2>1. cum[accepted - size + 1] <= cum[accepted]
    BY <1>1, <1>3 DEF RingInv, WindowInv, CumMonotone
  <2>2. accepted - size' = accepted - size + 1
    BY <1>1, <1>7
  <2>3. e.cost \in Nat
    BY <1>3 DEF Entry
  <2> QED BY <1>1, <1>2, <1>3, <1>8, <2>1, <2>2, <2>3
<1>10. \A i \in 0 .. MaxEntries - 1 :
          (head' + i) % MaxEntries = Slot(i + 1)
  BY <1>1, <1>2, SlotShift
<1>11. \A i \in 1 .. MaxEntries - 1 : buf'[Slot(i)] = buf[Slot(i)]
  <2> SUFFICES ASSUME NEW i \in 1 .. MaxEntries - 1
               PROVE  buf'[Slot(i)] = buf[Slot(i)]
    OBVIOUS
  <2>1. Slot(i) # head
    <3>1. i \in 0 .. MaxEntries - 1 /\ 0 \in 0 .. MaxEntries - 1 /\ i # 0
      BY MaxEntriesAssumption
    <3> QED BY <1>1, <3>1, SlotInjective
  <2>2. Slot(i) \in Slots
    BY <1>1, SlotValue, MaxEntriesAssumption
  <2> QED BY <1>1, <1>2, <2>1, <2>2
<1>12. HoldsNewest' /\ WindowCosts'
  <2> SUFFICES ASSUME NEW i \in 0 .. size' - 1
               PROVE  /\ buf'[(head' + i) % MaxEntries].id
                            = accepted - size' + 1 + i
                      /\ buf'[(head' + i) % MaxEntries].cost
                            = cum[accepted - size' + 1 + i] - cum[accepted - size' + i]
    BY <1>2 DEF HoldsNewest, WindowCosts, Slot
  <2>1. i \in 0 .. MaxEntries - 1 /\ i + 1 \in 1 .. MaxEntries - 1
            /\ i + 1 \in 0 .. size - 1
    BY <1>1, <1>7, MaxEntriesAssumption
  <2>2. buf'[(head' + i) % MaxEntries] = buf[Slot(i + 1)]
    BY <2>1, <1>10, <1>11
  <2>3. /\ buf[Slot(i + 1)].id = accepted - size + 1 + (i + 1)
        /\ buf[Slot(i + 1)].cost
             = cum[accepted - size + 1 + (i + 1)] - cum[accepted - size + (i + 1)]
    BY <2>1 DEF RingInv, WindowInv, HoldsNewest, WindowCosts
  <2>4. /\ accepted - size' + 1 + i = accepted - size + 1 + (i + 1)
        /\ accepted - size' + i = accepted - size + (i + 1)
    BY <1>1, <1>7
  <2> QED BY <2>2, <2>3, <2>4
<1>13. FreeSlotsNil'
  <2> SUFFICES ASSUME NEW i \in size' .. MaxEntries - 1
               PROVE  buf'[(head' + i) % MaxEntries] = Nil
    BY DEF FreeSlotsNil, Slot
  <2>1. (head' + i) % MaxEntries = Slot(i + 1)
    BY <1>7, <1>10
  <2>2. CASE i + 1 < MaxEntries
    <3>1. i + 1 \in size .. MaxEntries - 1 /\ i + 1 \in 1 .. MaxEntries - 1
      BY <1>1, <1>7, <2>2, MaxEntriesAssumption
    <3>2. buf[Slot(i + 1)] = Nil
      BY <3>1 DEF RingInv, WindowInv, FreeSlotsNil
    <3> QED BY <2>1, <3>1, <3>2, <1>11
  <2>3. CASE i + 1 = MaxEntries
    <3>1. Slot(MaxEntries) = head
      BY <1>1, SlotValue, MaxEntriesAssumption DEF Slots
    <3> QED BY <2>1, <2>3, <3>1, <1>1, <1>2
  <2> QED BY <2>2, <2>3, <1>7, MaxEntriesAssumption
<1>14. BytesExact' /\ CumMonotone'
  <2>1. BytesExact'
    BY <1>2, <1>8 DEF BytesExact
  <2>2. CumMonotone'
    BY <1>2 DEF CumMonotone, RingInv, WindowInv
  <2> QED BY <2>1, <2>2
<1>15. ByteCap'
  BY <1>1, <1>7, <1>9, MaxBytesAssumption DEF ByteCap, RingInv, WindowInv
<1> QED BY <1>5, <1>6, <1>7, <1>9, <1>12, <1>13, <1>14, <1>15 DEF WindowInv

-----------------------------------------------------------------------------
\* A new ring satisfies the invariant.
LEMMA InitOK == Init => RingInv
<1> SUFFICES ASSUME Init PROVE RingInv
  OBVIOUS
<1>1. TypeOK
  <2>1. Nil \in Entry
    BY DEF Nil, Entry
  <2>2. cum \in [0 .. accepted -> Nat]
    BY DEF Init
  <2>3. buf \in [Slots -> Entry] /\ head \in Slots /\ size \in 0 .. MaxEntries
    BY <2>1, MaxEntriesAssumption DEF Init, Slots
  <2>4. moved \in Seq(Entry) /\ taken \in Seq(Entry)
    BY DEF Init
  <2> QED BY <2>1, <2>2, <2>3, <2>4 DEF Init, TypeOK
<1>2. Conservation
  BY DEF Init, Conservation, InFlight
<1>3. WindowInv
  <2>1. FreeSlotsNil
    <3> SUFFICES ASSUME NEW i \in size .. MaxEntries - 1
                 PROVE  buf[Slot(i)] = Nil
      BY DEF FreeSlotsNil
    <3>1. Slot(i) \in Slots
      BY <1>1, SlotValue, MaxEntriesAssumption DEF TypeOK
    <3> QED BY <3>1 DEF Init
  <2>2. HoldsNewest /\ WindowCosts
    BY DEF Init, HoldsNewest, WindowCosts
  <2>3. BytesExact /\ CumMonotone
    BY DEF Init, BytesExact, CumMonotone
  <2>4. ByteCap
    BY DEF Init, ByteCap
  <2> QED BY <2>1, <2>2, <2>3, <2>4 DEF WindowInv
<1>4. OperationOK /\ InOrderDelivery /\ FlightInOrder
  BY DEF Init, OperationOK, InOrderDelivery, FlightInOrder
<1> QED BY <1>1, <1>2, <1>3, <1>4 DEF RingInv

\* The window does not depend on the lock, the channel or the counters.
LEMMA WindowFrame ==
    ASSUME WindowInv, UNCHANGED <<buf, head, size, bytes, accepted, cum>>
    PROVE  WindowInv'
BY DEF WindowInv, HoldsNewest, FreeSlotsNil, WindowCosts, BytesExact,
       CumMonotone, ByteCap, Slot

\* Storing at the tail extends the window by the next entry.
LEMMA StoreOK ==
    ASSUME RingInv, PushStore
    PROVE  /\ buf' \in [Slots -> Entry]
           /\ size' \in 0 .. MaxEntries
           /\ size' = size + 1
           /\ bytes' \in Nat
           /\ accepted' = accepted + 1
           /\ cum' \in [0 .. accepted' -> Nat]
           /\ WindowInv'
<1>1. /\ head \in Slots
      /\ size \in 0 .. MaxEntries
      /\ buf \in [Slots -> Entry]
      /\ accepted \in Nat
      /\ bytes \in Nat
      /\ cum \in [0 .. accepted -> Nat]
      /\ arg \in Entry
      /\ arg.cost \in Nat
  BY DEF RingInv, TypeOK, Entry
<1>2. /\ buf' = [buf EXCEPT ![Slot(size)] = arg]
      /\ head' = head
      /\ size' = size + 1
      /\ bytes' = bytes + arg.cost
      /\ accepted' = accepted + 1
      /\ cum' = [n \in 0 .. accepted + 1 |->
                   IF n <= accepted THEN cum[n] ELSE cum[accepted] + arg.cost]
  BY DEF PushStore
<1>3. size \in 0 .. MaxEntries - 1 /\ size' \in 0 .. MaxEntries
  BY <1>1, <1>2, MaxEntriesAssumption DEF PushStore, MustEvict
<1>4. Slot(size) \in Slots
  BY <1>1, SlotValue, MaxEntriesAssumption
<1>5. buf' \in [Slots -> Entry]
  BY <1>1, <1>2, <1>4
<1>6. cum' \in [0 .. accepted' -> Nat]
  BY <1>1, <1>2
<1>7. /\ \A n \in 0 .. accepted : cum'[n] = cum[n]
      /\ cum'[accepted + 1] = cum[accepted] + arg.cost
  BY <1>1, <1>2
<1>8. accepted - size \in 0 .. accepted
  <2>1. Len(taken) \in Nat /\ InFlight \in Nat /\ drops \in Nat
    BY DEF RingInv, TypeOK, InFlight
  <2> QED BY <1>1, <2>1 DEF RingInv, Conservation
<1>9. \A i \in 0 .. MaxEntries - 1 : i # size => buf'[Slot(i)] = buf[Slot(i)]
  <2> SUFFICES ASSUME NEW i \in 0 .. MaxEntries - 1, i # size
               PROVE  buf'[Slot(i)] = buf[Slot(i)]
    OBVIOUS
  <2>1. Slot(i) # Slot(size)
    BY <1>1, <1>3, SlotInjective
  <2>2. Slot(i) \in Slots
    BY <1>1, SlotValue, MaxEntriesAssumption
  <2> QED BY <1>1, <1>2, <2>1, <2>2
<1>10. HoldsNewest' /\ WindowCosts'
  <2> SUFFICES ASSUME NEW i \in 0 .. size' - 1
               PROVE  /\ buf'[Slot(i)].id = accepted - size + 1 + i
                      /\ buf'[Slot(i)].cost
                           = cum'[accepted - size + 1 + i] - cum'[accepted - size + i]
    <3>1. accepted' - size' = accepted - size
      BY <1>1, <1>2
    <3> QED BY <1>2, <3>1 DEF HoldsNewest, WindowCosts, Slot
  <2>1. CASE i = size
    <3>1. buf'[Slot(i)] = arg
      BY <1>1, <1>2, <1>4, <2>1
    <3>2. arg.id = accepted + 1
      BY DEF RingInv, OperationOK, PushStore
    <3>3. accepted - size + 1 + i = accepted + 1 /\ accepted - size + i = accepted
      BY <1>1, <2>1
    <3>4. arg.cost = cum'[accepted + 1] - cum'[accepted]
      BY <1>1, <1>7
    <3> QED BY <3>1, <3>2, <3>3, <3>4
  <2>2. CASE i # size
    <3>1. i \in 0 .. size - 1 /\ i \in 0 .. MaxEntries - 1
      BY <1>2, <1>3, <2>2, MaxEntriesAssumption
    <3>2. /\ accepted - size + 1 + i \in 0 .. accepted
          /\ accepted - size + i \in 0 .. accepted
      BY <1>1, <1>8, <3>1
    <3>3. buf'[Slot(i)] = buf[Slot(i)]
      BY <1>9, <2>2, <3>1
    <3>4. /\ buf[Slot(i)].id = accepted - size + 1 + i
          /\ buf[Slot(i)].cost
               = cum[accepted - size + 1 + i] - cum[accepted - size + i]
      BY <3>1 DEF RingInv, WindowInv, HoldsNewest, WindowCosts
    <3> QED BY <1>7, <3>2, <3>3, <3>4
  <2> QED BY <2>1, <2>2
<1>11. FreeSlotsNil'
  <2> SUFFICES ASSUME NEW i \in size' .. MaxEntries - 1
               PROVE  buf'[Slot(i)] = Nil
    BY <1>2 DEF FreeSlotsNil, Slot
  <2>1. i \in size .. MaxEntries - 1 /\ i \in 0 .. MaxEntries - 1 /\ i # size
    BY <1>1, <1>2, MaxEntriesAssumption
  <2> QED BY <1>9, <2>1 DEF RingInv, WindowInv, FreeSlotsNil
<1>12. BytesExact'
  <2>1. bytes = cum[accepted] - cum[accepted - size]
    BY DEF RingInv, WindowInv, BytesExact
  <2>2. accepted' - size' = accepted - size
    BY <1>1, <1>2
  <2>3. cum[accepted] \in Nat /\ cum[accepted - size] \in Nat
    BY <1>1, <1>8
  <2> QED BY <1>1, <1>2, <1>7, <1>8, <2>1, <2>2, <2>3 DEF BytesExact
<1>13. CumMonotone'
  <2> SUFFICES ASSUME NEW m \in 0 .. accepted + 1, NEW n \in 0 .. accepted + 1,
                      m <= n
               PROVE  cum'[m] <= cum'[n]
    BY <1>2 DEF CumMonotone
  <2>1. \A a, b \in 0 .. accepted : a <= b => cum[a] <= cum[b]
    BY DEF RingInv, WindowInv, CumMonotone
  <2>2. CASE n <= accepted
    BY <1>1, <1>7, <2>1, <2>2
  <2>3. CASE n = accepted + 1 /\ m <= accepted
    <3>1. cum[m] <= cum[accepted] /\ cum[m] \in Nat /\ cum[accepted] \in Nat
      BY <1>1, <2>1, <2>3
    <3> QED BY <1>1, <1>7, <2>3, <3>1
  <2>4. CASE n = accepted + 1 /\ m = accepted + 1
    <3>1. cum'[n] \in Nat
      BY <1>1, <1>2, <1>6
    <3> QED BY <2>4, <3>1
  <2> QED BY <1>1, <2>2, <2>3, <2>4
<1>14. ByteCap'
  BY <1>1, <1>2, MaxBytesAssumption DEF ByteCap, PushStore, MustEvict
<1>15. bytes' \in Nat
  BY <1>1, <1>2
<1> QED BY <1>2, <1>3, <1>5, <1>6, <1>10, <1>11, <1>12, <1>13, <1>14, <1>15
        DEF WindowInv

\* PopBatch may be called with any number of entries, zero included.
LEMMA BatchBeginOK ==
    ASSUME RingInv, NEW maxN \in Nat, BatchBegin(maxN)
    PROVE  RingInv'
<1>1. /\ TypeOK /\ Conservation /\ WindowInv /\ OperationOK
      /\ InOrderDelivery /\ FlightInOrder
  BY DEF RingInv
<1>2. moved = <<>>
  BY <1>1 DEF BatchBegin, OperationOK
<1>3. TypeOK'
  BY <1>1 DEF BatchBegin, TypeOK
<1>4. Conservation'
  BY <1>1, <1>2 DEF BatchBegin, Conservation, InFlight
<1>5. WindowInv'
  BY <1>1, WindowFrame DEF BatchBegin
<1>6. OperationOK' /\ InOrderDelivery' /\ FlightInOrder'
  BY <1>1, <1>2 DEF BatchBegin, OperationOK, InOrderDelivery, FlightInOrder
<1> QED BY <1>3, <1>4, <1>5, <1>6 DEF RingInv

\* The invariant is inductive.
LEMMA NextOK == RingInv /\ [Next]_ringVars => RingInv'
<1> SUFFICES ASSUME RingInv, [Next]_ringVars PROVE RingInv'
  OBVIOUS
<1>1. /\ TypeOK /\ Conservation /\ WindowInv /\ OperationOK
      /\ InOrderDelivery /\ FlightInOrder
  BY DEF RingInv
<1>2. ASSUME NEW cost \in Costs, PushBegin(cost) PROVE RingInv'
  <2>1. cost \in Nat
    BY CostsAssumption
  <2>2. TypeOK'
    BY <1>1, <1>2, <2>1 DEF PushBegin, TypeOK, Entry
  <2>3. Conservation'
    BY <1>1, <1>2 DEF PushBegin, Conservation, InFlight
  <2>4. WindowInv'
    BY <1>1, <1>2, WindowFrame DEF PushBegin
  <2>5. OperationOK' /\ InOrderDelivery' /\ FlightInOrder'
    BY <1>1, <1>2 DEF PushBegin, OperationOK, InOrderDelivery, FlightInOrder
  <2> QED BY <2>2, <2>3, <2>4, <2>5 DEF RingInv
<1>3. CASE PushEvict
  <2>1. size > 0
    BY <1>1, <1>3, MaxEntriesAssumption DEF PushEvict, MustEvict, TypeOK
  <2>2. /\ buf' \in [Slots -> Entry]
        /\ head' \in Slots
        /\ size' \in 0 .. MaxEntries
        /\ size' = size - 1
        /\ bytes' \in Nat
        /\ WindowInv'
    BY <1>3, <2>1, RemoveHeadOK DEF PushEvict
  <2>3. buf[head] \in Entry
    BY <2>1, HeadEntry
  <2>4. TypeOK'
    BY <1>1, <1>3, <2>2, <2>3 DEF PushEvict, TypeOK
  <2>5. Conservation'
    BY <1>1, <1>3, <2>2 DEF PushEvict, Conservation, InFlight, TypeOK
  <2>6. OperationOK' /\ FlightInOrder'
    BY <1>1, <1>3 DEF PushEvict, OperationOK, FlightInOrder
  <2>7. InOrderDelivery'
    <3>1. taken \in Seq(Entry) /\ taken' = taken /\ accepted' = accepted
      BY <1>1, <1>3 DEF PushEvict, TypeOK
    <3>2. \A i \in DOMAIN taken : taken[i].id \in Nat
      BY <3>1, EntryIds
    <3>3. accepted \in Nat /\ size \in Int /\ size' = size - 1
      BY <1>1, <2>2, MaxEntriesAssumption DEF TypeOK
    <3> QED BY <1>1, <3>1, <3>2, <3>3 DEF InOrderDelivery
  <2> QED BY <2>2, <2>4, <2>5, <2>6, <2>7 DEF RingInv
<1>4. CASE PushStore
  <2>1. /\ buf' \in [Slots -> Entry]
        /\ size' \in 0 .. MaxEntries
        /\ size' = size + 1
        /\ bytes' \in Nat
        /\ accepted' = accepted + 1
        /\ cum' \in [0 .. accepted' -> Nat]
        /\ WindowInv'
    BY <1>4, StoreOK
  <2>2. TypeOK'
    <3>1. Nil \in Entry
      BY DEF Nil, Entry
    <3> QED BY <1>1, <1>4, <2>1, <3>1 DEF PushStore, TypeOK
  <2>3. Conservation'
    BY <1>1, <1>4, <2>1 DEF PushStore, Conservation, InFlight, TypeOK
  <2>4. OperationOK' /\ FlightInOrder'
    BY <1>1, <1>4 DEF PushStore, OperationOK, FlightInOrder
  <2>5. InOrderDelivery'
    <3>1. accepted' - size' = accepted - size
      BY <1>1, <2>1 DEF TypeOK
    <3> QED BY <1>1, <1>4, <3>1 DEF PushStore, InOrderDelivery
  <2> QED BY <2>1, <2>2, <2>3, <2>4, <2>5 DEF RingInv
<1>5. CASE TryPop
  <2>1. size > 0 /\ op = "none"
    BY <1>5 DEF TryPop
  <2>2. /\ buf' \in [Slots -> Entry]
        /\ head' \in Slots
        /\ size' \in 0 .. MaxEntries
        /\ size' = size - 1
        /\ bytes' \in Nat
        /\ WindowInv'
    BY <1>5, <2>1, RemoveHeadOK DEF TryPop
  <2>3. buf[head] \in Entry /\ buf[head].id = accepted - size + 1
    BY <2>1, HeadEntry
  <2>4. TypeOK'
    BY <1>1, <1>5, <2>2, <2>3 DEF TryPop, TypeOK
  <2>5. Conservation'
    BY <1>1, <1>5, <2>2, <2>3 DEF TryPop, Conservation, InFlight, TypeOK
  <2>6. OperationOK' /\ FlightInOrder'
    BY <1>1, <1>5 DEF TryPop, OperationOK, FlightInOrder
  <2>7. InOrderDelivery'
    <3> DEFINE t == Append(taken, buf[head])
    <3>1. taken \in Seq(Entry) /\ accepted - size \in Nat
      BY <1>1, <2>1, HeadEntry DEF TypeOK
    <3>2. /\ \A i, j \in 1 .. Len(taken) : i < j => taken[i].id < taken[j].id
          /\ \A i \in 1 .. Len(taken) : taken[i].id <= accepted - size
      BY <1>1, <3>1 DEF InOrderDelivery
    <3>3. /\ \A i, j \in 1 .. Len(t) : i < j => t[i].id < t[j].id
          /\ \A i \in 1 .. Len(t) : t[i].id <= accepted - size + 1
      BY <3>1, <3>2, <2>3, AppendInOrder
    <3>4. taken' = t /\ t \in Seq(Entry)
      BY <1>5, <2>3, <3>1 DEF TryPop
    <3>5. accepted' - size' = accepted - size + 1
      BY <1>1, <1>5, <2>2, MaxEntriesAssumption DEF TryPop, TypeOK
    <3> QED BY <3>3, <3>4, <3>5 DEF InOrderDelivery
  <2> QED BY <2>2, <2>4, <2>5, <2>6, <2>7 DEF RingInv
<1>6. ASSUME NEW maxN \in PopSizes, BatchBegin(maxN) PROVE RingInv'
  BY <1>6, BatchBeginOK, PopSizesAssumption
<1>7. CASE BatchPop
  <2>1. size > 0 /\ op = "batch" /\ op' = "batch"
    BY <1>7 DEF BatchPop
  <2>2. /\ buf' \in [Slots -> Entry]
        /\ head' \in Slots
        /\ size' \in 0 .. MaxEntries
        /\ size' = size - 1
        /\ bytes' \in Nat
        /\ WindowInv'
    BY <1>7, <2>1, RemoveHeadOK DEF BatchPop
  <2>3. buf[head] \in Entry /\ buf[head].id = accepted - size + 1
    BY <2>1, HeadEntry
  <2>4. TypeOK'
    BY <1>1, <1>7, <2>2, <2>3 DEF BatchPop, TypeOK
  <2>5. Conservation'
    BY <1>1, <1>7, <2>1, <2>2, <2>3 DEF BatchPop, Conservation, InFlight, TypeOK
  <2>6. OperationOK'
    BY <2>1 DEF OperationOK
  <2>9. taken \in Seq(Entry) /\ taken' = taken /\ accepted' = accepted
    BY <1>1, <1>7 DEF BatchPop, TypeOK
  <2>10. \A i \in DOMAIN taken : taken[i].id \in Nat
    BY <2>9, EntryIds
  <2>11. accepted \in Nat /\ size \in Int /\ size' = size - 1
    BY <1>1, <2>2, MaxEntriesAssumption DEF TypeOK
  <2>7. InOrderDelivery'
    BY <1>1, <2>9, <2>10, <2>11 DEF InOrderDelivery
  <2>8. FlightInOrder'
    <3> DEFINE m == Append(moved, buf[head])
    <3>1. /\ \A i, j \in 1 .. Len(moved) : i < j => moved[i].id < moved[j].id
          /\ \A i \in 1 .. Len(taken) : \A j \in 1 .. Len(moved) :
                 taken[i].id < moved[j].id
          /\ \A j \in 1 .. Len(moved) : moved[j].id <= accepted - size
      BY <1>1, <2>1 DEF FlightInOrder
    <3>2. moved \in Seq(Entry) /\ accepted - size \in Nat
      BY <1>1, <2>1, HeadEntry DEF TypeOK
    <3>3. /\ \A i, j \in 1 .. Len(m) : i < j => m[i].id < m[j].id
          /\ \A j \in 1 .. Len(m) : m[j].id <= accepted - size + 1
      BY <3>1, <3>2, <2>3, AppendInOrder
    <3>4. /\ Len(m) = Len(moved) + 1
          /\ m[Len(moved) + 1] = buf[head]
          /\ \A j \in 1 .. Len(moved) : m[j] = moved[j]
          /\ Len(moved) \in Nat
      BY <3>2, <2>3
    <3>5. \A i \in 1 .. Len(taken) : taken[i].id < accepted - size + 1
      BY <1>1, <2>9, <2>10, <2>11 DEF InOrderDelivery
    <3>6. \A i \in 1 .. Len(taken) : \A j \in 1 .. Len(m) :
                 taken[i].id < m[j].id
      <4> SUFFICES ASSUME NEW i \in 1 .. Len(taken), NEW j \in 1 .. Len(m)
                   PROVE  taken[i].id < m[j].id
        OBVIOUS
      <4>1. CASE j = Len(moved) + 1
        BY <4>1, <3>4, <3>5, <2>3
      <4>2. CASE j \in 1 .. Len(moved)
        BY <4>2, <3>1, <3>4
      <4> QED BY <3>4, <4>1, <4>2
    <3>7. moved' = m /\ accepted' - size' = accepted - size + 1
      BY <1>7, <2>9, <2>11 DEF BatchPop
    <3> QED BY <3>3, <3>6, <3>7, <2>9 DEF FlightInOrder
  <2> QED BY <2>2, <2>4, <2>5, <2>6, <2>7, <2>8 DEF RingInv
<1>8. CASE BatchEnd
  <2>1. TypeOK'
    BY <1>1, <1>8 DEF BatchEnd, TypeOK
  <2>2. Conservation'
    BY <1>1, <1>8 DEF BatchEnd, Conservation, InFlight, TypeOK
  <2>3. WindowInv'
    BY <1>1, <1>8, WindowFrame DEF BatchEnd
  <2>4. OperationOK' /\ FlightInOrder'
    BY <1>8 DEF BatchEnd, OperationOK, FlightInOrder
  <2>5. InOrderDelivery'
    <3> DEFINE t == taken \o moved
    <3>1. taken \in Seq(Entry) /\ moved \in Seq(Entry) /\ t \in Seq(Entry)
      BY <1>1 DEF TypeOK
    <3>2. /\ Len(t) = Len(taken) + Len(moved)
          /\ Len(taken) \in Nat
          /\ Len(moved) \in Nat
          /\ \A i \in 1 .. Len(taken) : t[i] = taken[i]
          /\ \A i \in 1 .. Len(t) : i > Len(taken) => t[i] = moved[i - Len(taken)]
      BY <3>1
    <3>3. /\ \A i, j \in 1 .. Len(taken) : i < j => taken[i].id < taken[j].id
          /\ \A i \in 1 .. Len(taken) : taken[i].id <= accepted - size
      BY <1>1, <3>1 DEF InOrderDelivery
    <3>4. /\ \A i, j \in 1 .. Len(moved) : i < j => moved[i].id < moved[j].id
          /\ \A i \in 1 .. Len(taken) : \A j \in 1 .. Len(moved) :
                 taken[i].id < moved[j].id
          /\ \A j \in 1 .. Len(moved) : moved[j].id <= accepted - size
      BY <1>1, <1>8 DEF BatchEnd, FlightInOrder
    <3>5. \A i \in 1 .. Len(t) :
            i > Len(taken) => i - Len(taken) \in 1 .. Len(moved)
      BY <3>2
    <3>6. \A i, j \in 1 .. Len(t) : i < j => t[i].id < t[j].id
      <4> SUFFICES ASSUME NEW i \in 1 .. Len(t), NEW j \in 1 .. Len(t), i < j
                   PROVE  t[i].id < t[j].id
        OBVIOUS
      <4>1. CASE j <= Len(taken)
        <5>1. i \in 1 .. Len(taken) /\ j \in 1 .. Len(taken)
          BY <3>2, <4>1
        <5> QED BY <3>2, <3>3, <5>1
      <4>2. CASE j > Len(taken) /\ i <= Len(taken)
        <5>1. i \in 1 .. Len(taken) /\ j - Len(taken) \in 1 .. Len(moved)
          BY <3>2, <3>5, <4>2
        <5> QED BY <3>2, <3>4, <4>2, <5>1
      <4>3. CASE i > Len(taken)
        <5>1. /\ j > Len(taken)
              /\ i - Len(taken) < j - Len(taken)
              /\ i - Len(taken) \in 1 .. Len(moved)
              /\ j - Len(taken) \in 1 .. Len(moved)
          BY <3>2, <4>3
        <5> QED BY <3>2, <3>4, <4>3, <5>1
      <4> QED BY <3>2, <4>1, <4>2, <4>3
    <3>7. \A i \in 1 .. Len(t) : t[i].id <= accepted - size
      <4> SUFFICES ASSUME NEW i \in 1 .. Len(t)
                   PROVE  t[i].id <= accepted - size
        OBVIOUS
      <4>1. CASE i <= Len(taken)
        <5>1. i \in 1 .. Len(taken)
          BY <3>2, <4>1
        <5> QED BY <3>2, <3>3, <5>1
      <4>2. CASE i > Len(taken)
        <5>1. i - Len(taken) \in 1 .. Len(moved)
          BY <3>2, <4>2
        <5> QED BY <3>2, <3>4, <4>2, <5>1
      <4> QED BY <3>2, <4>1, <4>2
    <3>8. taken' = t /\ accepted' = accepted /\ size' = size
      BY <1>8 DEF BatchEnd
    <3> QED BY <3>1, <3>6, <3>7, <3>8 DEF InOrderDelivery
  <2> QED BY <2>1, <2>2, <2>3, <2>4, <2>5 DEF RingInv
<1>9. CASE Close \/ TakeNotify \/ UNCHANGED ringVars
  <2>1. TypeOK'
    BY <1>1, <1>9 DEF Close, TakeNotify, ringVars, TypeOK
  <2>2. Conservation'
    BY <1>1, <1>9 DEF Close, TakeNotify, ringVars, Conservation, InFlight
  <2>3. WindowInv'
    BY <1>1, <1>9, WindowFrame DEF Close, TakeNotify, ringVars
  <2>4. OperationOK' /\ InOrderDelivery' /\ FlightInOrder'
    BY <1>1, <1>9
       DEF Close, TakeNotify, ringVars, OperationOK, InOrderDelivery, FlightInOrder
  <2> QED BY <2>1, <2>2, <2>3, <2>4 DEF RingInv
<1> QED BY <1>2, <1>3, <1>4, <1>5, <1>6, <1>7, <1>8, <1>9
        DEF Next, Push, PopBatch

\* The inductive invariant holds in every reachable state of the ring.
LEMMA RingInvariant == Spec => []RingInv
<1> QED BY InitOK, NextOK, PTL DEF Spec

-----------------------------------------------------------------------------
\* Type correctness: head stays inside buf, size inside the capacity and the
\* byte count never goes negative, whatever the order of pushes and pops.
THEOREM RingTypeCorrect == Spec => []TypeOK
<1>1. RingInv => TypeOK
  BY DEF RingInv
<1> QED BY <1>1, RingInvariant, PTL

\* The ring always holds exactly the newest entries, oldest first, and every
\* other slot of buf is nil: Push drops the oldest and nothing else.
THEOREM RingDropsOldest == Spec => [](HoldsNewest /\ FreeSlotsNil)
<1>1. RingInv => HoldsNewest /\ FreeSlotsNil
  BY DEF RingInv, WindowInv
<1> QED BY <1>1, RingInvariant, PTL

\* Every accepted entry is buffered, returned, in a batch being collected, or
\* counted in Drops().
THEOREM RingConserves == Spec => []Conservation
<1>1. RingInv => Conservation
  BY DEF RingInv
<1> QED BY <1>1, RingInvariant, PTL

\* The byte count is exact, and the cap is exceeded only by a lone entry.
THEOREM RingBytes == Spec => [](BytesExact /\ ByteCap)
<1>1. RingInv => BytesExact /\ ByteCap
  BY DEF RingInv, WindowInv
<1> QED BY <1>1, RingInvariant, PTL

\* Consumers receive entries in acceptance order, none twice, across any mix
\* of TryPop, PopBatch and evictions.
THEOREM RingInOrder == Spec => []InOrderDelivery
<1>1. RingInv => InOrderDelivery
  BY DEF RingInv
<1> QED BY <1>1, RingInvariant, PTL

-----------------------------------------------------------------------------
(* The ring implements DropOldestQueue.                                    *)

\* What an operation inside the lock has established so far: the entries it
\* evicted had to go, each of them; the batch it collects is not full.
HalfDone ==
    /\ op = "push" =>
         /\ arg.cost \in Costs /\ ~closed
         /\ \A j \in 0 .. Len(moved) - 1 :
                ~Queue!Fits(Queue!Without(AbstractQueue, j), arg.cost)
    /\ op = "batch" => want \in PopSizes /\ Len(moved) <= want

\* The byte count is the weight of what is buffered.
Weighed == IsFiniteSet(Queue!Bytes(Window)) /\ Queue!Weight(Window) = bytes

RefInv == RingInv /\ Weighed /\ HalfDone

\* The weight of a queue is the number of its bytes.
LEMMA WeightIs == \A q : Queue!Weight(q) = Cardinality(Queue!Bytes(q))
<1>1. \A S : Queue!Cardinality(S) = Cardinality(S)
  BY DEF Queue!Cardinality, Cardinality
<1> QED BY <1>1, Zenon DEF Queue!Weight

\* The empty queue weighs nothing.
LEMMA WeightOfEmpty == IsFiniteSet(Queue!Bytes(<<>>)) /\ Queue!Weight(<<>>) = 0
<1>1. Queue!Bytes(<<>>) = {}
  BY DEF Queue!Bytes
<1> QED BY <1>1, FS_EmptySet, WeightIs

\* The bytes of one entry.
LEMMA WeightOfOne ==
    ASSUME NEW i, NEW c \in Nat
    PROVE  IsFiniteSet({i} \X (1 .. c)) /\ Cardinality({i} \X (1 .. c)) = c
<1>1. IsFiniteSet({i}) /\ Cardinality({i}) = 1
  BY FS_Singleton
<1>2. IsFiniteSet(1 .. c) /\ Cardinality(1 .. c) = c
  BY FS_Interval
<1>3. IsFiniteSet({i} \X (1 .. c))
      /\ Cardinality({i} \X (1 .. c)) = Cardinality({i}) * Cardinality(1 .. c)
  BY <1>1, <1>2, FS_Product
<1>4. 1 * c = c
  OBVIOUS
<1> QED BY <1>1, <1>2, <1>3, <1>4

\* An entry at the end adds its cost.
LEMMA WeightOfAppend ==
    ASSUME NEW s \in Seq(Entry), NEW e \in Entry, IsFiniteSet(Queue!Bytes(s))
    PROVE  /\ IsFiniteSet(Queue!Bytes(Append(s, e)))
           /\ Queue!Weight(Append(s, e)) = Queue!Weight(s) + e.cost
<1> DEFINE t == Append(s, e)
           n == Len(s) + 1
           E == {n} \X (1 .. e.cost)
<1>1. Len(t) = n /\ Len(s) \in Nat /\ t[n] = e /\ e.cost \in Nat
  BY AppendProperties DEF Entry
<1>2. \A i \in 1 .. Len(s) : t[i] = s[i]
  BY AppendProperties
<1>3. 1 .. Len(t) = (1 .. Len(s)) \cup {n} /\ n \notin 1 .. Len(s)
  BY <1>1
<1> HIDE DEF t, n
<1>4. Queue!Bytes(t) = Queue!Bytes(s) \cup E
  <2> DEFINE B(i) == {i} \X (1 .. t[i].cost)
             C(i) == {i} \X (1 .. s[i].cost)
  <2>1. Queue!Bytes(t) = UNION {B(i) : i \in 1 .. Len(t)}
    BY DEF Queue!Bytes
  <2>2. Queue!Bytes(s) = UNION {C(i) : i \in 1 .. Len(s)}
    BY DEF Queue!Bytes
  <2>3. B(n) = E /\ \A i \in 1 .. Len(s) : B(i) = C(i)
    BY <1>1, <1>2
  <2> HIDE DEF B, C, E
  <2> QED BY <1>3, <2>1, <2>2, <2>3
<1>5. Queue!Bytes(s) \cap E = {}
  <2>1. \A p \in Queue!Bytes(s) : p[1] \in 1 .. Len(s)
    BY DEF Queue!Bytes
  <2>2. \A p \in E : p[1] = n
    OBVIOUS
  <2> QED BY <1>3, <2>1, <2>2
<1>6. IsFiniteSet(E) /\ Cardinality(E) = e.cost
  BY <1>1, WeightOfOne
<1>7. Cardinality(Queue!Bytes(s)) \in Nat
  BY FS_CardinalityType
<1>8. IsFiniteSet(Queue!Bytes(s) \cup E)
      /\ Cardinality(Queue!Bytes(s) \cup E)
           = Cardinality(Queue!Bytes(s)) + Cardinality(E) - Cardinality({})
  <2> HIDE DEF E
  <2> QED BY <1>5, <1>6, FS_Union
<1>9. Cardinality({}) = 0
  BY FS_EmptySet
<1> HIDE DEF E
<1>10. Cardinality(Queue!Bytes(s) \cup E) = Cardinality(Queue!Bytes(s)) + e.cost
  BY <1>1, <1>6, <1>7, <1>8, <1>9
<1> QED BY <1>4, <1>8, <1>10, WeightIs DEF t

\* Without its first entry a sequence weighs that much less.
LEMMA WeightOfTail ==
    ASSUME NEW s \in Seq(Entry), s # <<>>, IsFiniteSet(Queue!Bytes(s))
    PROVE  /\ IsFiniteSet(Queue!Bytes(Tail(s)))
           /\ Queue!Weight(Tail(s)) = Queue!Weight(s) - s[1].cost
<1> DEFINE t == Tail(s)
           E == {1} \X (1 .. s[1].cost)
           D == Queue!Bytes(s) \ E
<1>1. Len(t) = Len(s) - 1 /\ Len(s) \in Nat /\ Len(s) >= 1 /\ s[1] \in Entry
  BY HeadTailProperties
<1>2. \A i \in 1 .. Len(t) : t[i] = s[i + 1]
  BY HeadTailProperties
<1>3. s[1].cost \in Nat
  BY <1>1 DEF Entry
<1> HIDE DEF t
<1>4. \A p \in Queue!Bytes(t) :
         <<p[1] + 1, p[2]>> \in D /\ p = <<p[1], p[2]>> /\ p[1] \in Nat
  <2> SUFFICES ASSUME NEW i \in 1 .. Len(t), NEW u \in 1 .. t[i].cost
               PROVE  <<i + 1, u>> \in D
    BY DEF Queue!Bytes
  <2>1. i + 1 \in 1 .. Len(s) /\ u \in 1 .. s[i + 1].cost /\ i + 1 # 1
    BY <1>1, <1>2
  <2>2. <<i + 1, u>> \in Queue!Bytes(s)
    BY <2>1 DEF Queue!Bytes
  <2> QED BY <2>1, <2>2
<1>5. \A d \in D : /\ d[1] \in Nat /\ d = <<d[1], d[2]>>
                   /\ <<d[1] - 1, d[2]>> \in Queue!Bytes(t)
  <2> SUFFICES ASSUME NEW i \in 1 .. Len(s), NEW u \in 1 .. s[i].cost, <<i, u>> \notin E
               PROVE  <<i - 1, u>> \in Queue!Bytes(t)
    BY DEF Queue!Bytes
  <2>1. i # 1
    OBVIOUS
  <2>2. i - 1 \in 1 .. Len(t) /\ (i - 1) + 1 = i
    BY <1>1, <2>1
  <2>3. u \in 1 .. t[i - 1].cost
    BY <1>2, <2>2
  <2> QED BY <2>2, <2>3 DEF Queue!Bytes
<1> HIDE DEF D
<1> DEFINE f == [d \in D |-> <<d[1] - 1, d[2]>>]
<1>6. f \in Bijection(D, Queue!Bytes(t))
  <2>1. f \in [D -> Queue!Bytes(t)]
    BY <1>5
  <2>2. f \in Injection(D, Queue!Bytes(t))
    <3>1. ASSUME NEW a \in D, NEW b \in D, f[a] = f[b]
          PROVE  a = b
      <4>1. a[1] \in Nat /\ b[1] \in Nat /\ a[1] - 1 = b[1] - 1 /\ a[2] = b[2]
        BY <1>5, <3>1
      <4>2. a[1] = b[1]
        BY <4>1
      <4>3. a = <<a[1], a[2]>> /\ b = <<b[1], b[2]>>
        BY <1>5
      <4> QED BY <4>1, <4>2, <4>3, Zenon
    <3> QED BY <2>1, <3>1 DEF Injection, IsInjective
  <2>3. f \in Surjection(D, Queue!Bytes(t))
    <3>1. ASSUME NEW p \in Queue!Bytes(t)
          PROVE  \E d \in D : f[d] = p
      <4>1. <<p[1] + 1, p[2]>> \in D /\ p = <<p[1], p[2]>> /\ p[1] \in Nat
        BY <1>4
      <4>2. f[<<p[1] + 1, p[2]>>] = <<(p[1] + 1) - 1, p[2]>>
        BY <4>1
      <4>3. (p[1] + 1) - 1 = p[1]
        BY <4>1
      <4> QED BY <4>1, <4>2, <4>3
    <3> QED BY <2>1, <3>1 DEF Surjection
  <2> QED BY <2>2, <2>3 DEF Bijection
<1>7. IsFiniteSet(D)
  BY FS_Subset DEF D
<1>8. IsFiniteSet(Queue!Bytes(t)) /\ Cardinality(Queue!Bytes(t)) = Cardinality(D)
  <2>1. ExistsBijection(D, Queue!Bytes(t))
    BY <1>6 DEF ExistsBijection
  <2> QED BY <1>7, <2>1, FS_Bijection
<1>9. E \subseteq Queue!Bytes(s)
  <2>1. 1 \in 1 .. Len(s)
    BY <1>1
  <2> QED BY <2>1, Zenon DEF Queue!Bytes
<1>10. IsFiniteSet(E) /\ Cardinality(E) = s[1].cost
  BY <1>3, WeightOfOne
<1> HIDE DEF E
<1>11. Queue!Bytes(s) = D \cup E /\ D \cap E = {}
  BY <1>9 DEF D
<1>12. Cardinality(Queue!Bytes(s)) = Cardinality(D) + Cardinality(E) - Cardinality({})
  BY <1>7, <1>10, <1>11, FS_Union
<1>13. Cardinality({}) = 0 /\ Cardinality(D) \in Nat
  BY <1>7, FS_EmptySet, FS_CardinalityType
<1>14. Cardinality(D) = Cardinality(Queue!Bytes(s)) - s[1].cost
  BY <1>3, <1>10, <1>12, <1>13
<1> QED BY <1>8, <1>14, WeightIs DEF t

\* Taking the front off a concatenation.
LEMMA WithoutFront ==
    ASSUME NEW m \in Seq(Entry), NEW w \in Seq(Entry)
    PROVE  /\ Queue!Without(m \o w, Len(m)) = w
           /\ SubSeq(m \o w, 1, Len(m)) = m
           /\ Len(m \o w) = Len(m) + Len(w)
<1> DEFINE q == m \o w
<1>1. q \in Seq(Entry) /\ Len(q) = Len(m) + Len(w) /\ Len(m) \in Nat /\ Len(w) \in Nat
  BY ConcatProperties
<1>2. \A i \in 1 .. Len(m) + Len(w) : q[i] = IF i <= Len(m) THEN m[i] ELSE w[i - Len(m)]
  BY ConcatProperties
<1> HIDE DEF q
<1>3. SubSeq(q, 1, Len(m)) = m
  <2> DEFINE a == SubSeq(q, 1, Len(m))
  <2>1. a \in Seq(Entry) /\ Len(a) = Len(m) /\ \A i \in 1 .. Len(m) : a[i] = q[i]
    BY <1>1, SubSeqProperties
  <2> HIDE DEF a
  <2>2. \A i \in 1 .. Len(a) : a[i] = m[i]
    BY <1>1, <1>2, <2>1
  <2> QED BY <2>1, <2>2, SeqEqual DEF a
<1>4. SubSeq(q, Len(m) + 1, Len(q)) = w
  <2> DEFINE b == SubSeq(q, Len(m) + 1, Len(q))
  <2>1. b \in Seq(Entry) /\ Len(b) = Len(w)
        /\ \A i \in 1 .. Len(w) : b[i] = q[Len(m) + i]
    BY <1>1, SubSeqProperties
  <2> HIDE DEF b
  <2>2. ASSUME NEW i \in 1 .. Len(b)
        PROVE  b[i] = w[i]
    <3>1. Len(m) + i \in 1 .. Len(m) + Len(w) /\ ~(Len(m) + i <= Len(m))
          /\ (Len(m) + i) - Len(m) = i /\ i \in 1 .. Len(w)
      BY <1>1, <2>1
    <3>2. q[Len(m) + i] = w[(Len(m) + i) - Len(m)]
      BY <1>2, <3>1
    <3> QED BY <2>1, <3>1, <3>2
  <2> QED BY <2>1, <2>2, SeqEqual DEF b
<1> QED BY <1>1, <1>3, <1>4 DEF Queue!Without, q

\* What slots hold from slot h on, n of them.
WindowOf(b, h, n) == [i \in 1 .. n |-> b[(h + (i - 1)) % MaxEntries]]

LEMMA WindowOfSeq ==
    ASSUME NEW b \in [Slots -> Entry], NEW h \in Slots, NEW n \in 0 .. MaxEntries
    PROVE  /\ WindowOf(b, h, n) \in Seq(Entry) /\ Len(WindowOf(b, h, n)) = n
           /\ \A i \in 1 .. n : WindowOf(b, h, n)[i] = b[(h + (i - 1)) % MaxEntries]
<1>1. n \in Nat
  OBVIOUS
<1>2. \A i \in 1 .. n : b[(h + (i - 1)) % MaxEntries] \in Entry
  <2> TAKE i \in 1 .. n
  <2>1. (h + (i - 1)) % MaxEntries \in Slots
    BY MaxEntriesAssumption DEF Slots
  <2> QED BY <2>1
<1> QED BY <1>1, <1>2 DEF WindowOf

\* The window of the ring, and the queue it stands for.
LEMMA WindowSeq ==
    ASSUME RingInv
    PROVE  /\ Window = WindowOf(buf, head, size)
           /\ Window \in Seq(Entry) /\ Len(Window) = size /\ size \in Nat
           /\ \A i \in 1 .. size : Window[i] = buf[Slot(i - 1)]
           /\ moved \in Seq(Entry) /\ AbstractQueue \in Seq(Entry)
           /\ size > 0 => Window # <<>> /\ Window[1] = buf[head]
<1>1. TypeOK /\ size \in Nat /\ size <= MaxEntries
  BY MaxEntriesAssumption DEF RingInv, TypeOK
<1>2. Window = WindowOf(buf, head, size)
  BY DEF Window, WindowOf, Slot
<1>3. Window \in Seq(Entry) /\ Len(Window) = size
      /\ \A i \in 1 .. size : Window[i] = buf[Slot(i - 1)]
  BY <1>1, <1>2, WindowOfSeq DEF TypeOK, Slot
<1>4. moved \in Seq(Entry)
  BY <1>1 DEF TypeOK
<1>5. AbstractQueue \in Seq(Entry)
  BY <1>3, <1>4, ConcatProperties DEF AbstractQueue
<1>6. ASSUME size > 0
      PROVE  Window # <<>> /\ Window[1] = buf[head]
  <2>1. head \in Slots /\ 0 \in 0 .. MaxEntries - 1
    BY <1>1, MaxEntriesAssumption DEF TypeOK
  <2>2. Slot(0) = head
    BY <2>1, SlotInjective
  <2>3. Window[1] = buf[Slot(1 - 1)] /\ 1 - 1 = 0
    BY <1>1, <1>3, <1>6
  <2>4. Window # <<>>
    BY <1>3, <1>6
  <2> QED BY <2>2, <2>3, <2>4
<1> QED BY <1>1, <1>2, <1>3, <1>4, <1>5, <1>6

\* Removing the head takes the first entry off the window.
LEMMA WindowRemove ==
    ASSUME RingInv, size > 0, RemoveHead, UNCHANGED <<accepted, cum>>
    PROVE  Window' = Tail(Window)
<1>1. TypeOK /\ size \in 1 .. MaxEntries
  BY MaxEntriesAssumption DEF RingInv, TypeOK
<1>2. buf' \in [Slots -> Entry] /\ head' \in Slots /\ size' = size - 1
      /\ size' \in 0 .. MaxEntries
  BY RemoveHeadOK
<1> DEFINE w == WindowOf(buf', head', size')
<1>3. Window' = w
  BY DEF Window, WindowOf, Slot
<1>4. w \in Seq(Entry) /\ Len(w) = size'
      /\ \A i \in 1 .. size' : w[i] = buf'[(head' + (i - 1)) % MaxEntries]
  BY <1>2, WindowOfSeq
<1>5. Tail(Window) \in Seq(Entry) /\ Len(Tail(Window)) = size - 1
      /\ \A i \in 1 .. size - 1 : Tail(Window)[i] = Window[i + 1]
  BY WindowSeq, HeadTailProperties
<1> HIDE DEF w
<1>6. ASSUME NEW i \in 1 .. size - 1
      PROVE  w[i] = Tail(Window)[i]
  <2>1. i \in 0 .. MaxEntries - 1 /\ i - 1 \in 0 .. MaxEntries - 1 /\ i # 0
        /\ 0 \in 0 .. MaxEntries - 1 /\ (i - 1) + 1 = i /\ (i + 1) - 1 = i
        /\ i + 1 \in 1 .. size
    BY <1>1, MaxEntriesAssumption
  <2>2. (head' + (i - 1)) % MaxEntries = Slot(i)
    BY <1>1, <2>1, SlotShift DEF TypeOK, RemoveHead
  <2>3. Slot(i) # head /\ Slot(i) \in Slots
    <3>1. head \in Slots /\ i \in 0 .. MaxEntries
      BY <1>1, <2>1, MaxEntriesAssumption DEF TypeOK
    <3>2. Slot(i) # Slot(0) /\ Slot(0) = head
      BY <2>1, <3>1, SlotInjective
    <3>3. Slot(i) \in Slots
      BY <3>1, SlotValue
    <3> QED BY <3>2, <3>3
  <2>4. buf'[Slot(i)] = buf[Slot(i)]
    BY <1>1, <2>3 DEF RemoveHead, TypeOK
  <2>5. w[i] = buf[Slot(i)]
    BY <1>2, <1>4, <2>2, <2>4
  <2>6. Window[i + 1] = buf[Slot((i + 1) - 1)]
    BY <2>1, WindowSeq
  <2> QED BY <1>5, <2>1, <2>5, <2>6
<1> QED BY <1>2, <1>3, <1>4, <1>5, <1>6, SeqEqual

\* Storing at the tail puts the new entry behind the window.
LEMMA WindowStore ==
    ASSUME RingInv, PushStore
    PROVE  Window' = Append(Window, arg) /\ arg \in Entry
<1>1. TypeOK /\ size \in 0 .. MaxEntries /\ arg \in Entry /\ head' = head
  BY DEF RingInv, TypeOK, PushStore
<1>2. buf' \in [Slots -> Entry] /\ size' = size + 1 /\ size' \in 0 .. MaxEntries
  BY StoreOK
<1> DEFINE w == WindowOf(buf', head', size')
           v == Append(Window, arg)
<1>3. Window' = w
  BY DEF Window, WindowOf, Slot
<1>4. w \in Seq(Entry) /\ Len(w) = size'
      /\ \A i \in 1 .. size' : w[i] = buf'[(head' + (i - 1)) % MaxEntries]
  BY <1>1, <1>2, WindowOfSeq DEF TypeOK
<1>5. v \in Seq(Entry) /\ Len(v) = size + 1 /\ v[size + 1] = arg
      /\ \A i \in 1 .. size : v[i] = Window[i]
  BY <1>1, WindowSeq, AppendProperties
<1>6. buf' = [buf EXCEPT ![Slot(size)] = arg]
  BY DEF PushStore
<1> HIDE DEF w, v
<1>7. ASSUME NEW i \in 1 .. size + 1
      PROVE  w[i] = v[i]
  <2>1. i - 1 \in 0 .. MaxEntries - 1 /\ size \in 0 .. MaxEntries - 1
    BY <1>1, <1>2, MaxEntriesAssumption
  <2>2. Slot(i - 1) \in Slots /\ Slot(size) \in Slots
        /\ (i - 1 # size => Slot(i - 1) # Slot(size))
    BY <1>1, <2>1, SlotInjective, SlotValue, MaxEntriesAssumption DEF TypeOK
  <2>3. w[i] = buf'[Slot(i - 1)]
    BY <1>1, <1>2, <1>4 DEF Slot
  <2>4. CASE i = size + 1
    <3>1. i - 1 = size
      BY <1>1, <2>4
    <3> QED BY <1>1, <1>5, <1>6, <2>2, <2>3, <2>4, <3>1 DEF TypeOK
  <2>5. CASE i # size + 1
    <3>1. i \in 1 .. size /\ i - 1 # size
      BY <1>1, <2>5
    <3>2. buf'[Slot(i - 1)] = buf[Slot(i - 1)]
      BY <1>1, <1>6, <2>2, <3>1 DEF TypeOK
    <3> QED BY <1>5, <2>3, <3>1, <3>2, WindowSeq
  <2> QED BY <2>4, <2>5
<1>8. \A i \in 1 .. Len(w) : w[i] = v[i]
  BY <1>2, <1>4, <1>7
<1>9. w = v
  BY <1>2, <1>4, <1>5, <1>8, SeqEqual
<1> QED BY <1>1, <1>3, <1>9 DEF v

\* The condition of the eviction loop says that the entry does not fit.
LEMMA MustEvictMeans ==
    ASSUME RingInv, Weighed, NEW c \in Nat
    PROVE  MustEvict(c) <=> ~Queue!Fits(Window, c)
<1>1. Len(Window) = size /\ size \in Nat /\ Queue!Weight(Window) = bytes /\ bytes \in Nat
      /\ (Window = <<>> <=> size = 0)
  BY WindowSeq DEF Weighed, RingInv, TypeOK
<1>2. Queue!Fits(Window, c) <=>
        /\ size < MaxEntries
        /\ MaxBytes > 0 => (size = 0 \/ bytes + c <= MaxBytes)
  BY <1>1, Zenon DEF Queue!Fits
<1> QED BY <1>1, <1>2, MaxEntriesAssumption, MaxBytesAssumption DEF MustEvict

\* Steps that leave what is buffered alone.
LEMMA QueueFrame ==
    ASSUME UNCHANGED <<buf, head, size, moved>>
    PROVE  Window' = Window /\ AbstractQueue' = AbstractQueue
BY DEF AbstractQueue, Window, Slot

LEMMA WeighedFrame ==
    ASSUME Weighed, Window' = Window, bytes' = bytes
    PROVE  Weighed'
BY DEF Weighed

\* The part of the queue that an operation has not removed yet.
LEMMA QueueParts ==
    ASSUME RingInv
    PROVE  /\ Queue!Without(AbstractQueue, Len(moved)) = Window
           /\ SubSeq(AbstractQueue, 1, Len(moved)) = moved
           /\ Len(AbstractQueue) = Len(moved) + size
           /\ Len(moved) \in Nat /\ size \in Nat
BY WindowSeq, WithoutFront DEF AbstractQueue

\* An entry taken off the head under the lock is still in the queue.
LEMMA RemoveIsInvisible ==
    ASSUME RingInv, Weighed, size > 0, RemoveHead, UNCHANGED <<accepted, cum>>,
           moved' = Append(moved, buf[head])
    PROVE  AbstractQueue' = AbstractQueue /\ Weighed' /\ Len(moved') = Len(moved) + 1
<1>1. /\ Window \in Seq(Entry) /\ Window # <<>> /\ Window[1] = buf[head]
      /\ moved \in Seq(Entry)
  BY WindowSeq
<1>2. Window' = Tail(Window)
  BY WindowRemove
<1>3. buf[head] \in Entry /\ Tail(Window) \in Seq(Entry) /\ <<buf[head]>> \in Seq(Entry)
  <2>1. buf[head] \in Entry
    BY HeadEntry
  <2> QED BY <1>1, <2>1, HeadTailProperties
<1>4. Window = <<buf[head]>> \o Tail(Window)
  <2>1. Len(Window) \in Nat /\ Len(Window) >= 1
    BY <1>1
  <2>2. SubSeq(Window, 1, Len(Window)) = <<Window[1]>> \o SubSeq(Window, 1 + 1, Len(Window))
    BY <1>1, <2>1, SubSeqRecursiveFirst
  <2>3. SubSeq(Window, 1, Len(Window)) = Window /\ Tail(Window) = SubSeq(Window, 2, Len(Window))
    BY <1>1, SubSeqFull, TailIsSubSeq
  <2> QED BY <1>1, <2>2, <2>3
<1>5. moved' = moved \o <<buf[head]>>
  BY <1>1, <1>3, AppendIsConcat
<1>6. (moved \o <<buf[head]>>) \o Tail(Window) = moved \o (<<buf[head]>> \o Tail(Window))
  BY <1>1, <1>3, ConcatAssociative
<1>7. AbstractQueue' = AbstractQueue
  <2>1. AbstractQueue' = moved' \o Window'
    BY DEF AbstractQueue
  <2> QED BY <1>2, <1>4, <1>5, <1>6, <2>1, Zenon DEF AbstractQueue
<1>8. Weighed'
  <2>1. IsFiniteSet(Queue!Bytes(Tail(Window)))
        /\ Queue!Weight(Tail(Window)) = Queue!Weight(Window) - buf[head].cost
    BY <1>1, WeightOfTail DEF Weighed
  <2>2. bytes' = bytes - buf[head].cost
    BY DEF RemoveHead, approxBytes
  <2> QED BY <1>2, <2>1, <2>2 DEF Weighed
<1>9. Len(moved') = Len(moved) + 1
  BY <1>1, <1>3, AppendProperties
<1> QED BY <1>7, <1>8, <1>9

LEMMA RefInit == Init => RefInv /\ Queue!QInit
<1> SUFFICES ASSUME Init PROVE RefInv /\ Queue!QInit
  OBVIOUS
<1>1. RingInv
  BY InitOK
<1>2. size = 0 /\ moved = <<>> /\ bytes = 0 /\ op = "none"
  BY DEF Init
<1>3. Window = <<>> /\ AbstractQueue = <<>>
  <2>1. Window = <<>>
    BY <1>1, <1>2, WindowSeq
  <2> QED BY <1>1, <1>2, <2>1, WindowSeq, ConcatEmptySeq DEF AbstractQueue
<1>4. Weighed
  BY <1>2, <1>3, WeightOfEmpty DEF Weighed
<1>5. HalfDone
  BY <1>2 DEF HalfDone
<1>6. Queue!QInit
  BY <1>2, <1>3 DEF Queue!QInit, Init
<1> QED BY <1>1, <1>4, <1>5, <1>6 DEF RefInv

\* The steps of Push: only the store is seen outside the lock.
LEMMA RefPushBegin ==
    ASSUME RefInv, NEW cost \in Costs, PushBegin(cost)
    PROVE  Weighed' /\ HalfDone' /\ UNCHANGED Queue!queueVars
<1>1. /\ op = "none" /\ ~closed /\ op' = "push"
      /\ arg' = [id |-> accepted + 1, cost |-> cost]
      /\ UNCHANGED <<buf, head, size, bytes, closed, notify, drops, moved, accepted, taken>>
  BY DEF PushBegin
<1>2. moved = <<>> /\ drops \in Nat
  BY <1>1 DEF RefInv, RingInv, OperationOK, TypeOK
<1>3. Weighed' /\ AbstractQueue' = AbstractQueue
  BY <1>1, QueueFrame, WeighedFrame DEF RefInv
<1>4. HalfDone'
  <2>1. arg'.cost = cost /\ Len(moved') = 0 /\ ~closed'
    BY <1>1, <1>2
  <2>2. \A j \in 0 .. Len(moved') - 1 : FALSE
    BY <2>1
  <2> QED BY <1>1, <2>1, <2>2, Zenon DEF HalfDone
<1>5. drops' - Len(moved') = drops
  BY <1>1, <1>2
<1> QED BY <1>1, <1>3, <1>4, <1>5 DEF Queue!queueVars

LEMMA RefPushEvict ==
    ASSUME RefInv, PushEvict
    PROVE  Weighed' /\ HalfDone' /\ UNCHANGED Queue!queueVars
<1>1. /\ op = "push" /\ MustEvict(arg.cost) /\ RemoveHead /\ drops' = drops + 1
      /\ moved' = Append(moved, buf[head])
      /\ UNCHANGED <<closed, notify, op, arg, want, accepted, taken, cum>>
  BY DEF PushEvict
<1>2. /\ RingInv /\ Weighed /\ TypeOK /\ arg.cost \in Nat /\ drops \in Nat /\ size \in Nat
      /\ arg.cost \in Costs /\ ~closed
      /\ \A j \in 0 .. Len(moved) - 1 :
           ~Queue!Fits(Queue!Without(AbstractQueue, j), arg.cost)
  BY <1>1 DEF RefInv, RingInv, TypeOK, Entry, HalfDone
<1>3. size > 0
  BY <1>1, <1>2, MaxEntriesAssumption DEF MustEvict
<1>4. AbstractQueue' = AbstractQueue /\ Weighed' /\ Len(moved') = Len(moved) + 1
  BY <1>1, <1>2, <1>3, RemoveIsInvisible
<1>5. Queue!Without(AbstractQueue, Len(moved)) = Window /\ Len(moved) \in Nat
  BY <1>2, QueueParts
<1>6. ~Queue!Fits(Window, arg.cost)
  BY <1>1, <1>2, MustEvictMeans
<1>7. ASSUME NEW j \in 0 .. Len(moved') - 1
      PROVE  ~Queue!Fits(Queue!Without(AbstractQueue, j), arg.cost)
  <2>1. j = Len(moved) \/ j \in 0 .. Len(moved) - 1
    BY <1>4, <1>5
  <2> QED BY <1>2, <1>5, <1>6, <2>1, Zenon
<1>8. HalfDone'
  BY <1>1, <1>2, <1>4, <1>7, Zenon DEF HalfDone
<1>9. drops' - Len(moved') = drops - Len(moved)
  BY <1>1, <1>2, <1>4, <1>5
<1> QED BY <1>1, <1>4, <1>8, <1>9 DEF Queue!queueVars

LEMMA RefPushStore ==
    ASSUME RefInv, PushStore
    PROVE  Weighed' /\ HalfDone' /\ Queue!QPush(arg.cost) /\ arg.cost \in Costs
<1>1. /\ op = "push" /\ ~MustEvict(arg.cost) /\ op' = "none" /\ moved' = <<>>
      /\ bytes' = bytes + arg.cost /\ notify' = TRUE /\ accepted' = accepted + 1
      /\ UNCHANGED <<closed, drops, taken>>
  BY DEF PushStore
<1>2. /\ RingInv /\ Weighed /\ arg \in Entry /\ arg.cost \in Nat /\ drops \in Nat
      /\ arg.cost \in Costs /\ ~closed /\ arg.id = accepted + 1
      /\ \A j \in 0 .. Len(moved) - 1 :
           ~Queue!Fits(Queue!Without(AbstractQueue, j), arg.cost)
  BY <1>1 DEF RefInv, RingInv, TypeOK, Entry, HalfDone, OperationOK
<1>3. Window' = Append(Window, arg) /\ Window \in Seq(Entry)
  BY <1>2, WindowStore, WindowSeq
<1>4. Weighed'
  <2>1. IsFiniteSet(Queue!Bytes(Append(Window, arg)))
        /\ Queue!Weight(Append(Window, arg)) = Queue!Weight(Window) + arg.cost
    BY <1>2, <1>3, WeightOfAppend DEF Weighed
  <2> QED BY <1>1, <1>2, <1>3, <2>1 DEF Weighed
<1>5. AbstractQueue' = Append(Window, arg)
  <2>1. AbstractQueue' = <<>> \o Window'
    BY <1>1 DEF AbstractQueue
  <2>2. Append(Window, arg) \in Seq(Entry)
    BY <1>2, <1>3, AppendProperties
  <2> QED BY <1>3, <2>1, <2>2, ConcatEmptySeq
<1>6. Queue!Without(AbstractQueue, Len(moved)) = Window /\ Len(moved) \in Nat
      /\ Len(moved) \in 0 .. Len(AbstractQueue)
  BY <1>2, QueueParts
<1>7. Queue!Fits(Window, arg.cost)
  BY <1>1, <1>2, MustEvictMeans
<1>8. arg = [id |-> accepted + 1, cost |-> arg.cost]
  BY <1>2 DEF Entry
<1>9. (IF op' = "push" THEN drops' - Len(moved') ELSE drops')
        = (IF op = "push" THEN drops - Len(moved) ELSE drops) + Len(moved)
  BY <1>1, <1>2, <1>6
<1>10. Queue!QPush(arg.cost)
  BY <1>1, <1>2, <1>5, <1>6, <1>7, <1>8, <1>9, Zenon DEF Queue!QPush
<1>11. HalfDone'
  BY <1>1 DEF HalfDone
<1> QED BY <1>2, <1>4, <1>10, <1>11

\* The entry TryPop returns is the first of the queue.
LEMMA RefTryPop ==
    ASSUME RefInv, TryPop
    PROVE  Weighed' /\ HalfDone' /\ Queue!QPop(1)
<1>1. /\ op = "none" /\ size > 0 /\ RemoveHead /\ taken' = Append(taken, buf[head])
      /\ UNCHANGED <<closed, notify, drops, op, moved, accepted, cum>>
  BY DEF TryPop
<1>2. RingInv /\ Weighed /\ moved = <<>> /\ taken \in Seq(Entry) /\ buf[head] \in Entry
  BY <1>1, HeadEntry DEF RefInv, RingInv, OperationOK, TypeOK
<1>3. /\ Window \in Seq(Entry) /\ Window # <<>> /\ Window[1] = buf[head]
      /\ Len(Window) = size /\ size \in Nat
  BY <1>1, <1>2, WindowSeq
<1>4. Window' = Tail(Window) /\ Tail(Window) \in Seq(Entry)
  BY <1>1, <1>2, <1>3, WindowRemove, HeadTailProperties
<1>5. AbstractQueue = Window /\ AbstractQueue' = Tail(Window)
  <2>1. AbstractQueue' = <<>> \o Window'
    BY <1>1, <1>2 DEF AbstractQueue
  <2>2. AbstractQueue = <<>> \o Window
    BY <1>2 DEF AbstractQueue
  <2> QED BY <1>3, <1>4, <2>1, <2>2, ConcatEmptySeq
<1>6. Weighed'
  <2>1. IsFiniteSet(Queue!Bytes(Tail(Window)))
        /\ Queue!Weight(Tail(Window)) = Queue!Weight(Window) - buf[head].cost
    BY <1>2, <1>3, WeightOfTail DEF Weighed
  <2>2. bytes' = bytes - buf[head].cost
    BY <1>1 DEF RemoveHead, approxBytes
  <2> QED BY <1>2, <1>4, <2>1, <2>2 DEF Weighed
<1>7. HalfDone'
  BY <1>1 DEF HalfDone
<1>8. (IF Len(AbstractQueue) < 1 THEN Len(AbstractQueue) ELSE 1) = 1
  BY <1>1, <1>3, <1>5
<1>9. Queue!Without(AbstractQueue, 1) = Tail(Window)
  BY <1>3, <1>5, TailIsSubSeq DEF Queue!Without
<1>10. taken \o SubSeq(AbstractQueue, 1, 1) = Append(taken, buf[head])
  <2>1. SubSeq(AbstractQueue, 1, 1) = <<buf[head]>>
    <3> DEFINE s == SubSeq(Window, 1, 1)
    <3>1. s \in Seq(Entry) /\ Len(s) = 1 /\ s[1] = buf[head]
      BY <1>1, <1>3, SubSeqProperties
    <3>2. <<buf[head]>> \in Seq(Entry) /\ Len(<<buf[head]>>) = 1 /\ <<buf[head]>>[1] = buf[head]
      BY <1>2
    <3> HIDE DEF s
    <3>3. \A i \in 1 .. Len(s) : s[i] = <<buf[head]>>[i]
      BY <3>1, <3>2
    <3>4. s = <<buf[head]>>
      BY <3>1, <3>2, <3>3, SeqEqual
    <3> QED BY <1>5, <3>4 DEF s
  <2> QED BY <1>2, <2>1, AppendIsConcat
<1>11. UNCHANGED <<closed, notify, IF op = "push" THEN drops - Len(moved) ELSE drops, accepted>>
  BY <1>1
<1>12. Queue!QPop(1)
  BY <1>1, <1>5, <1>8, <1>9, <1>10, <1>11, Zenon DEF Queue!QPop
<1> QED BY <1>6, <1>7, <1>12

\* The steps of PopBatch: only the return is seen outside the lock.
LEMMA RefBatchBegin ==
    ASSUME RefInv, NEW maxN \in PopSizes, BatchBegin(maxN)
    PROVE  Weighed' /\ HalfDone' /\ UNCHANGED Queue!queueVars
<1>1. /\ op = "none" /\ op' = "batch" /\ want' = maxN
      /\ UNCHANGED <<buf, head, size, bytes, closed, notify, drops, moved, accepted, taken>>
  BY DEF BatchBegin
<1>2. moved = <<>> /\ maxN \in Nat
  BY <1>1, PopSizesAssumption DEF RefInv, RingInv, OperationOK
<1>3. Weighed' /\ AbstractQueue' = AbstractQueue
  BY <1>1, QueueFrame, WeighedFrame DEF RefInv
<1>4. Len(moved') <= maxN
  BY <1>1, <1>2
<1>5. HalfDone'
  BY <1>1, <1>4 DEF HalfDone
<1> QED BY <1>1, <1>3, <1>5 DEF Queue!queueVars

LEMMA RefBatchPop ==
    ASSUME RefInv, BatchPop
    PROVE  Weighed' /\ HalfDone' /\ UNCHANGED Queue!queueVars
<1>1. /\ op = "batch" /\ Len(moved) < want /\ size > 0 /\ RemoveHead
      /\ moved' = Append(moved, buf[head])
      /\ UNCHANGED <<closed, notify, drops, op, arg, want, accepted, taken, cum>>
  BY DEF BatchPop
<1>2. RingInv /\ Weighed /\ want \in PopSizes /\ want \in Nat
  BY <1>1 DEF RefInv, RingInv, TypeOK, HalfDone
<1>3. AbstractQueue' = AbstractQueue /\ Weighed' /\ Len(moved') = Len(moved) + 1
  BY <1>1, <1>2, RemoveIsInvisible
<1>4. Len(moved') <= want
  BY <1>1, <1>2, <1>3, QueueParts
<1>5. HalfDone'
  BY <1>1, <1>2, <1>4 DEF HalfDone
<1> QED BY <1>1, <1>3, <1>5 DEF Queue!queueVars

LEMMA RefBatchEnd ==
    ASSUME RefInv, BatchEnd
    PROVE  Weighed' /\ HalfDone' /\ Queue!QPop(want) /\ want \in PopSizes
<1>1. /\ op = "batch" /\ (Len(moved) >= want \/ size = 0) /\ op' = "none"
      /\ moved' = <<>> /\ taken' = taken \o moved
      /\ UNCHANGED <<buf, head, size, bytes, closed, notify, drops, accepted>>
  BY DEF BatchEnd
<1>2. RingInv /\ Weighed /\ want \in PopSizes /\ want \in Nat /\ Len(moved) <= want
  BY <1>1 DEF RefInv, RingInv, TypeOK, HalfDone
<1>3. /\ Queue!Without(AbstractQueue, Len(moved)) = Window
      /\ SubSeq(AbstractQueue, 1, Len(moved)) = moved
      /\ Len(AbstractQueue) = Len(moved) + size
      /\ Len(moved) \in Nat /\ size \in Nat
  BY <1>2, QueueParts
<1>4. Window' = Window /\ Window \in Seq(Entry)
  BY <1>1, <1>2, WindowSeq DEF Window, Slot
<1>5. AbstractQueue' = Window
  <2>1. AbstractQueue' = <<>> \o Window'
    BY <1>1 DEF AbstractQueue
  <2> QED BY <1>4, <2>1, ConcatEmptySeq
<1>6. Weighed'
  BY <1>1, <1>2, <1>4, WeighedFrame
<1>7. HalfDone'
  BY <1>1 DEF HalfDone
<1>8. (IF Len(AbstractQueue) < want THEN Len(AbstractQueue) ELSE want) = Len(moved)
  <2>1. \A m, z, w \in Nat : m <= w /\ (m >= w \/ z = 0)
          => (IF m + z < w THEN m + z ELSE w) = m
    OBVIOUS
  <2>2. (IF Len(moved) + size < want THEN Len(moved) + size ELSE want) = Len(moved)
    BY <1>1, <1>2, <1>3, <2>1, Zenon
  <2> QED BY <1>3, <2>2, Zenon
<1>9. UNCHANGED <<closed, notify, IF op = "push" THEN drops - Len(moved) ELSE drops, accepted>>
  BY <1>1
<1>10. Queue!QPop(want)
  BY <1>1, <1>3, <1>5, <1>8, <1>9, Zenon DEF Queue!QPop
<1> QED BY <1>2, <1>6, <1>7, <1>10

LEMMA RefClose ==
    ASSUME RefInv, Close
    PROVE  Weighed' /\ HalfDone' /\ Queue!QClose
<1>1. /\ op = "none" /\ closed' = TRUE
      /\ UNCHANGED <<buf, head, size, bytes, notify, drops, op, moved, accepted, taken>>
  BY DEF Close
<1>2. Weighed' /\ AbstractQueue' = AbstractQueue
  BY <1>1, QueueFrame, WeighedFrame DEF RefInv
<1>3. HalfDone'
  BY <1>1 DEF HalfDone
<1> QED BY <1>1, <1>2, <1>3 DEF Queue!QClose

\* A receive from Notify() may come between any two steps of an operation.
LEMMA RefTakeNotify ==
    ASSUME RefInv, TakeNotify
    PROVE  Weighed' /\ HalfDone' /\ Queue!QTakeSignal
<1>1. /\ notify /\ notify' = FALSE
      /\ UNCHANGED <<buf, head, size, bytes, closed, drops, op, arg, want, moved, accepted, taken>>
  BY DEF TakeNotify
<1>2. Weighed' /\ AbstractQueue' = AbstractQueue
  BY <1>1, QueueFrame, WeighedFrame DEF RefInv
<1>3. HalfDone'
  BY <1>1, <1>2, Zenon DEF RefInv, HalfDone
<1> QED BY <1>1, <1>2, <1>3 DEF Queue!QTakeSignal

LEMMA RefStutter ==
    ASSUME RefInv, UNCHANGED ringVars
    PROVE  Weighed' /\ HalfDone' /\ UNCHANGED Queue!queueVars
<1>1. UNCHANGED <<buf, head, size, bytes, closed, notify, drops, op, arg, want, moved,
                  accepted, taken>>
  BY DEF ringVars
<1>2. Weighed' /\ AbstractQueue' = AbstractQueue
  BY <1>1, QueueFrame, WeighedFrame DEF RefInv
<1>3. HalfDone'
  BY <1>1, <1>2, Zenon DEF RefInv, HalfDone
<1> QED BY <1>1, <1>2, <1>3 DEF Queue!queueVars

\* Every step of the ring is a step of the queue or leaves it alone.
LEMMA RefNext == RefInv /\ [Next]_ringVars => RefInv' /\ [Queue!QNext]_(Queue!queueVars)
<1> SUFFICES ASSUME RefInv, [Next]_ringVars
             PROVE  RefInv' /\ [Queue!QNext]_(Queue!queueVars)
  OBVIOUS
<1>1. RingInv'
  BY NextOK DEF RefInv
<1>2. Weighed' /\ HalfDone' /\ [Queue!QNext]_(Queue!queueVars)
  <2>1. CASE \E cost \in Costs : PushBegin(cost)
    BY <2>1, RefPushBegin
  <2>2. CASE PushEvict
    BY <2>2, RefPushEvict
  <2>3. CASE PushStore
    BY <2>3, RefPushStore DEF Queue!QNext
  <2>4. CASE TryPop
    BY <2>4, RefTryPop DEF Queue!QNext
  <2>5. CASE \E maxN \in PopSizes : BatchBegin(maxN)
    BY <2>5, RefBatchBegin
  <2>6. CASE BatchPop
    BY <2>6, RefBatchPop
  <2>7. CASE BatchEnd
    BY <2>7, RefBatchEnd DEF Queue!QNext
  <2>8. CASE Close
    BY <2>8, RefClose DEF Queue!QNext
  <2>9. CASE TakeNotify
    BY <2>9, RefTakeNotify DEF Queue!QNext
  <2>10. CASE UNCHANGED ringVars
    BY <2>10, RefStutter
  <2> QED BY <2>1, <2>2, <2>3, <2>4, <2>5, <2>6, <2>7, <2>8, <2>9, <2>10
          DEF Next, Push, PopBatch
<1> QED BY <1>1, <1>2 DEF RefInv

\* The safety half of ImplementsQueue: seen from outside the lock, every Push,
\* TryPop, PopBatch, Close and receive of ring.go is one atomic operation of a
\* first-in first-out queue, and Push drops the least number of oldest entries
\* that makes the new one fit, for every capacity, byte cap and set of costs.
THEOREM RingImplementsQueue == Spec => Queue!QSpec
<1> QED BY RefInit, RefNext, PTL DEF Spec, Queue!QSpec
=============================================================================
