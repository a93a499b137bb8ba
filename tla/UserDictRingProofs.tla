------------------------- MODULE UserDictRingProofs -------------------------
(***************************************************************************)
(* Proofs about UserDictRing, for every ring size of at least two, every   *)
(* set of signatures and every set of values: the ring never reads a slot  *)
(* no save has written, and it implements the bounded queue SignatureFifo. *)
(***************************************************************************)
EXTENDS UserDictRing, SequenceTheorems, WellFoundedInduction, TLAPS

\* A non-empty set of naturals has a least element, which is what Min chooses.
LEMMA MinProperties ==
  ASSUME NEW S \in SUBSET Nat, S # {}
  PROVE  Min(S) \in S /\ \A y \in S : Min(S) <= y
<1>1. PICK x \in S : \A y \in S : ~(<<y, x>> \in OpToRel(<, Nat))
  BY NatLessThanWellFounded, WFMin
<1>2. ASSUME NEW y \in S, y < x PROVE FALSE
  <2>1. <<y, x>> \in Nat \X Nat /\ <<y, x>>[1] < <<y, x>>[2]
    BY <1>2
  <2>2. <<y, x>> \in OpToRel(<, Nat)
    BY <2>1, Zenon DEF OpToRel
  <2>. QED  BY <2>2, <1>1
<1>3. \A y \in S : x <= y
  BY <1>2
<1>. QED  BY <1>3 DEF Min

\* Where the ring's slots lie: the k-th slot in use is a slot of the array, different
\* from tail, and different indexes are different slots.
LEMMA SlotProperties ==
  ASSUME TypeOK
  PROVE  /\ Used \in 0..(Size - 1)
         /\ \A k \in 0..(Used - 1) : Slot(k) \in Slots /\ Slot(k) # tail
         /\ \A j, k \in 0..(Used - 1) : Slot(j) = Slot(k) => j = k
         /\ Wrap(tail + 1) \in Slots /\ Wrap(head + 1) \in Slots
BY SizeAssumption DEF TypeOK, Used, Slot, Wrap, Slots

\* A save into a ring with a free slot besides tail: the queue grows at its end.
LEMMA SlotsAfterGrowth ==
  ASSUME TypeOK, head' = head, tail' = Wrap(tail + 1), tail' # head
  PROVE  /\ Used' = Used + 1 /\ Used < Size - 1
         /\ \A k \in 0..(Used - 1) : Slot(k)' = Slot(k)
         /\ \A k \in Nat : k = Used => Slot(k)' = tail
BY SizeAssumption DEF TypeOK, Used, Slot, Wrap, Slots

\* A save into a full ring: head moves on, and every remaining entry is one place nearer to it.
LEMMA SlotsAfterEviction ==
  ASSUME TypeOK, tail' = Wrap(tail + 1), tail' = head, head' = Wrap(head + 1)
  PROVE  /\ Used = Size - 1 /\ Used' = Size - 1
         /\ \A k \in 0..(Size - 3) : Slot(k)' = Slot(k + 1)
         /\ Slot(Size - 2)' = tail
BY SizeAssumption DEF TypeOK, Used, Slot, Wrap, Slots

\* An empty ring has no slot in use.
LEMMA InitRing == Init => RingInv
BY SizeAssumption DEF Init, RingInv, TypeOK, UsedSlotsWritten, Used, Slots

\* A save writes the slot it brings into use.
LEMMA SaveRing ==
  ASSUME RingInv, NEW sig \in Signature, NEW val \in Value, Save(sig, val)
  PROVE  RingInv'
<1>. USE DEF RingInv
<1>1. TypeOK'
  BY SlotProperties DEF Save, TypeOK, Slots
<1>2. /\ signatures'[tail] = sig /\ values'[tail] = val
      /\ \A s \in Slots : s # tail => /\ signatures'[s] = signatures[s]
                                      /\ values'[s] = values[s]
  BY DEF Save, TypeOK
<1>3. CASE Wrap(tail + 1) # head
  <2>1. head' = head /\ tail' = Wrap(tail + 1) /\ tail' # head
    BY <1>3 DEF Save
  <2>2. /\ Used' = Used + 1 /\ Used < Size - 1
        /\ \A k \in 0..(Used - 1) : Slot(k)' = Slot(k)
        /\ \A k \in Nat : k = Used => Slot(k)' = tail
    BY <2>1, SlotsAfterGrowth
  <2>3. ASSUME NEW k \in 0..(Used' - 1)
        PROVE  signatures'[Slot(k)'] \in Signature /\ values'[Slot(k)'] \in Value
    <3>1. CASE k = Used
      BY <3>1, <2>2, <1>2
    <3>2. CASE k # Used
      <4>1. k \in 0..(Used - 1)
        BY <3>2, <2>2, SlotProperties
      <4>. QED  BY <4>1, <2>2, <1>2, SlotProperties DEF UsedSlotsWritten
    <3>. QED  BY <3>1, <3>2
  <2>. QED  BY <1>1, <2>3 DEF UsedSlotsWritten
<1>4. CASE Wrap(tail + 1) = head
  <2>1. tail' = Wrap(tail + 1) /\ tail' = head /\ head' = Wrap(head + 1)
    BY <1>4 DEF Save
  <2>2. /\ Used = Size - 1 /\ Used' = Size - 1
        /\ \A k \in 0..(Size - 3) : Slot(k)' = Slot(k + 1)
        /\ Slot(Size - 2)' = tail
    BY <2>1, SlotsAfterEviction
  <2>3. ASSUME NEW k \in 0..(Used' - 1)
        PROVE  signatures'[Slot(k)'] \in Signature /\ values'[Slot(k)'] \in Value
    <3>1. CASE k = Size - 2
      BY <3>1, <2>2, <1>2
    <3>2. CASE k # Size - 2
      <4>1. k \in 0..(Size - 3) /\ k + 1 \in 0..(Used - 1)
        BY <3>2, <2>2, SizeAssumption
      <4>. QED  BY <4>1, <2>2, <1>2, SlotProperties DEF UsedSlotsWritten
    <3>. QED  BY <3>1, <3>2
  <2>. QED  BY <1>1, <2>3 DEF UsedSlotsWritten
<1>. QED  BY <1>3, <1>4

\* A lookup returns the value of a slot in use, or none.
LEMMA LoadRing ==
  ASSUME RingInv, NEW sig \in Signature, Load(sig)
  PROVE  RingInv'
<1>. DEFINE hits == {k \in 0..(Used - 1) : signatures[Slot(k)] = sig}
<1>1. hits # {} => Min(hits) \in 0..(Used - 1)
  <2>1. hits \in SUBSET Nat
    OBVIOUS
  <2>. QED  BY <2>1, MinProperties
<1>2. answer' \in SUBSET Value
  BY <1>1 DEF Load, RingInv, UsedSlotsWritten
<1>. QED  BY <1>2 DEF Load, RingInv, TypeOK, UsedSlotsWritten, Used, Slot

\* A reset is a new start.
LEMMA ResetRing == RingInv /\ Reset => RingInv'
BY SizeAssumption DEF Reset, RingInv, TypeOK, UsedSlotsWritten, Used, Slots

\* The ring's indexes stay inside its arrays, and a lookup only ever reads slots a save has
\* written since the last reset.
THEOREM RingCorrect == Spec => []RingInv
<1>1. RingInv /\ [Next]_vars => RingInv'
  <2>. SUFFICES ASSUME RingInv, [Next]_vars PROVE RingInv'
    OBVIOUS
  <2>1. CASE \E sig \in Signature, val \in Value : Save(sig, val)
    BY <2>1, SaveRing
  <2>2. CASE \E sig \in Signature : Load(sig)
    BY <2>2, LoadRing
  <2>3. CASE Reset
    BY <2>3, ResetRing
  <2>4. CASE UNCHANGED vars
    BY <2>4 DEF vars, RingInv, TypeOK, UsedSlotsWritten, Used, Slot
  <2>. QED  BY <2>1, <2>2, <2>3, <2>4 DEF Next
<1>. QED  BY <1>1, InitRing, PTL DEF Spec

---------------------------------------------------------------------------
\* A signature with its value.
Entry == [sig : Signature, val : Value]

ContentIsUsedSlots ==
  /\ Content \in Seq(Entry) /\ Len(Content) = Used
  /\ \A k \in 1..Used :
       Content[k] = [sig |-> signatures[Slot(k - 1)], val |-> values[Slot(k - 1)]]

\* The queue a ring stands for is a sequence of entries, one for each slot in use.
LEMMA ContentProperties == RingInv => ContentIsUsedSlots
<1>. SUFFICES ASSUME RingInv PROVE ContentIsUsedSlots
  OBVIOUS
<1>. DEFINE e(k) == [sig |-> signatures[Slot(k - 1)], val |-> values[Slot(k - 1)]]
<1>1. Used \in Nat
  BY SlotProperties DEF RingInv
<1>2. \A k \in 1..Used : e(k) \in Entry
  <2>1. \A k \in 1..Used : k - 1 \in 0..(Used - 1)
    BY <1>1
  <2>. QED  BY <2>1 DEF RingInv, UsedSlotsWritten, Entry
<1>3. Content = [k \in 1..Used |-> e(k)]
  BY DEF Content
<1>. HIDE DEF e
<1>4. Content \in Seq(Entry)
  BY <1>1, <1>2, <1>3
<1>5. Len(Content) = Used
  BY <1>1, <1>3
<1>. QED  BY <1>3, <1>4, <1>5 DEF e, ContentIsUsedSlots

\* A lookup in the ring, from head on, and in the queue, from the oldest on, agree.
LEMMA LookupAgrees ==
  ASSUME RingInv, NEW sig \in Signature, Load(sig)
  PROVE  answer' = Fifo!Lookup(Content, sig)
<1>. DEFINE hits == {k \in 0..(Used - 1) : signatures[Slot(k)] = sig}
            at == {i \in 1..Len(Content) : Content[i].sig = sig}
<1>1. Used \in Nat
  BY SlotProperties DEF RingInv
<1>2. at = {i \in 1..Used : signatures[Slot(i - 1)] = sig}
  BY ContentProperties DEF ContentIsUsedSlots
<1>3. hits \in SUBSET Nat /\ at \in SUBSET Nat
  BY <1>1, <1>2
<1>4. \A k \in hits : k + 1 \in at
  <2>. TAKE k \in hits
  <2>1. k \in 0..(Used - 1) /\ k + 1 \in 1..Used /\ (k + 1) - 1 = k
    BY <1>1
  <2>. QED  BY <2>1, <1>2
<1>5. \A i \in at : i - 1 \in hits
  BY <1>1, <1>2
<1>6. CASE hits = {}
  <2>1. at = {}
    BY <1>5, <1>6
  <2>. QED  BY <2>1, <1>6 DEF Load, Fifo!Lookup, Fifo!FirstOf
<1>7. CASE hits # {}
  <2>1. at # {}
    BY <1>4, <1>7
  <2>2. Min(hits) \in hits /\ \A k \in hits : Min(hits) <= k
    BY <1>3, <1>7, MinProperties
  <2>3. Min(at) \in at /\ \A i \in at : Min(at) <= i
    BY <1>3, <2>1, MinProperties
  <2>4. Min(at) = Min(hits) + 1
    <3>1. Min(at) <= Min(hits) + 1
      BY <2>2, <2>3, <1>4
    <3>2. Min(hits) <= Min(at) - 1
      BY <2>2, <2>3, <1>5
    <3>3. Min(at) \in Nat /\ Min(hits) \in Nat
      BY <2>2, <2>3, <1>3
    <3>. QED  BY <3>1, <3>2, <3>3
  <2>5. Fifo!FirstOf(Content, sig) = Min(at) /\ Min(at) # 0
    <3>1. Min(at) # 0
      BY <2>3, <1>2, <1>1
    <3>2. Fifo!Min(at) = Min(at)
      BY Zenon DEF Fifo!Min, Min
    <3>3. Fifo!FirstOf(Content, sig) = IF at = {} THEN 0 ELSE Fifo!Min(at)
      BY Zenon DEF Fifo!FirstOf
    <3>. QED  BY <3>1, <3>2, <3>3, <2>1
  <2>6. Fifo!Lookup(Content, sig) = {Content[Min(at)].val}
    BY <2>5 DEF Fifo!Lookup
  <2>7. Min(at) \in 1..Used /\ Min(at) - 1 = Min(hits)
    BY <2>2, <2>3, <2>4, <1>2, <1>3
  <2>8. Content[Min(at)].val = values[Slot(Min(hits))]
    <3>1. Content[Min(at)] = [sig |-> signatures[Slot(Min(at) - 1)],
                              val |-> values[Slot(Min(at) - 1)]]
      BY <2>7, ContentProperties DEF ContentIsUsedSlots
    <3>. QED  BY <3>1, <2>7
  <2>. QED  BY <2>6, <2>8, <1>7 DEF Load
<1>. QED  BY <1>6, <1>7

\* A save appends to the queue, and drops its oldest entry exactly when it is full.
LEMMA SavePushes ==
  ASSUME RingInv, NEW sig \in Signature, NEW val \in Value, Save(sig, val)
  PROVE  Content' = Fifo!Push(Content, [sig |-> sig, val |-> val], Size - 1)
<1>. DEFINE entry == [sig |-> sig, val |-> val]
<1>1. RingInv'
  BY SaveRing
<1>2. /\ Content \in Seq(Entry) /\ Len(Content) = Used
      /\ \A k \in 1..Used :
           Content[k] = [sig |-> signatures[Slot(k - 1)], val |-> values[Slot(k - 1)]]
  BY ContentProperties DEF ContentIsUsedSlots
<1>3. /\ Content' \in Seq(Entry) /\ Len(Content') = Used'
      /\ \A k \in 1..Used' :
           Content'[k] = [sig |-> signatures'[Slot(k - 1)'], val |-> values'[Slot(k - 1)']]
  <2>1. ContentIsUsedSlots'
    BY <1>1, ContentProperties, PTL
  <2>. QED  BY <2>1 DEF ContentIsUsedSlots
<1>4. /\ signatures'[tail] = sig /\ values'[tail] = val
      /\ \A s \in Slots : s # tail => /\ signatures'[s] = signatures[s]
                                      /\ values'[s] = values[s]
  BY DEF Save, RingInv, TypeOK
<1>5. entry \in Entry
  BY DEF Entry
<1>6. Used \in 0..(Size - 1) /\ \A k \in 0..(Used - 1) : Slot(k) \in Slots /\ Slot(k) # tail
  BY SlotProperties DEF RingInv
<1>7. CASE Wrap(tail + 1) # head
  <2>1. head' = head /\ tail' = Wrap(tail + 1) /\ tail' # head
    BY <1>7 DEF Save
  <2>2. /\ Used' = Used + 1 /\ Used < Size - 1
        /\ \A k \in 0..(Used - 1) : Slot(k)' = Slot(k)
        /\ \A k \in Nat : k = Used => Slot(k)' = tail
    BY <2>1, SlotsAfterGrowth DEF RingInv
  <2>3. Fifo!Push(Content, entry, Size - 1) = Append(Content, entry)
    BY <2>2, <1>2 DEF Fifo!Push
  <2>4. /\ Append(Content, entry) \in Seq(Entry) /\ Len(Append(Content, entry)) = Used + 1
        /\ \A k \in 1..Used : Append(Content, entry)[k] = Content[k]
        /\ Append(Content, entry)[Used + 1] = entry
    BY <1>2, <1>5, AppendProperties
  <2>5. ASSUME NEW k \in 1..(Used + 1) PROVE Content'[k] = Append(Content, entry)[k]
    <3>1. Content'[k] = [sig |-> signatures'[Slot(k - 1)'], val |-> values'[Slot(k - 1)']]
      BY <1>3, <2>2
    <3>2. CASE k = Used + 1
      <4>1. k - 1 \in Nat /\ k - 1 = Used
        BY <3>2, <1>6
      <4>2. Slot(k - 1)' = tail
        BY <4>1, <2>2
      <4>. QED  BY <4>2, <3>1, <3>2, <2>4, <1>4
    <3>3. CASE k # Used + 1
      <4>1. k \in 1..Used /\ k - 1 \in 0..(Used - 1)
        BY <3>3, <1>6
      <4>2. Slot(k - 1)' = Slot(k - 1) /\ Slot(k - 1) \in Slots /\ Slot(k - 1) # tail
        BY <4>1, <2>2, <1>6
      <4>. QED  BY <4>1, <4>2, <3>1, <2>4, <1>2, <1>4
    <3>. QED  BY <3>2, <3>3
  <2>. QED  BY <2>2, <2>3, <2>4, <2>5, <1>3, SeqEqual
<1>8. CASE Wrap(tail + 1) = head
  <2>1. tail' = Wrap(tail + 1) /\ tail' = head /\ head' = Wrap(head + 1)
    BY <1>8 DEF Save
  <2>2. /\ Used = Size - 1 /\ Used' = Size - 1
        /\ \A k \in 0..(Size - 3) : Slot(k)' = Slot(k + 1)
        /\ Slot(Size - 2)' = tail
    BY <2>1, SlotsAfterEviction DEF RingInv
  <2>. DEFINE rest == Tail(Content)
  <2>3. Fifo!Push(Content, entry, Size - 1) = Append(rest, entry)
    BY <2>2, <1>2, SizeAssumption DEF Fifo!Push
  <2>4. /\ rest \in Seq(Entry) /\ Len(rest) = Size - 2
        /\ \A k \in 1..(Size - 2) : rest[k] = Content[k + 1]
    <3>1. Content # <<>>
      BY <2>2, <1>2, SizeAssumption, EmptySeq
    <3>. QED  BY <3>1, <2>2, <1>2, SizeAssumption, HeadTailProperties
  <2>. HIDE DEF rest
  <2>5. /\ Append(rest, entry) \in Seq(Entry) /\ Len(Append(rest, entry)) = Size - 1
        /\ \A k \in 1..(Size - 2) : Append(rest, entry)[k] = rest[k]
        /\ Append(rest, entry)[Size - 1] = entry
    BY <2>4, <1>5, SizeAssumption, AppendProperties
  <2>6. ASSUME NEW k \in 1..(Size - 1) PROVE Content'[k] = Append(rest, entry)[k]
    <3>1. Content'[k] = [sig |-> signatures'[Slot(k - 1)'], val |-> values'[Slot(k - 1)']]
      BY <1>3, <2>2
    <3>2. CASE k = Size - 1
      <4>1. k - 1 = Size - 2
        BY <3>2, SizeAssumption
      <4>2. Slot(k - 1)' = tail
        BY <4>1, <2>2
      <4>. QED  BY <4>2, <3>1, <3>2, <2>5, <1>4
    <3>3. CASE k # Size - 1
      <4>1. k \in 1..(Size - 2) /\ k + 1 \in 1..Used /\ k - 1 \in 0..(Size - 3)
            /\ k \in 0..(Used - 1) /\ (k + 1) - 1 = k /\ (k - 1) + 1 = k
        BY <3>3, <2>2, SizeAssumption
      <4>2. Slot(k - 1)' = Slot(k) /\ Slot(k) \in Slots /\ Slot(k) # tail
        BY <4>1, <2>2, <1>6
      <4>3. Content[k + 1] = [sig |-> signatures[Slot(k)], val |-> values[Slot(k)]]
        BY <4>1, <1>2
      <4>. QED  BY <4>1, <4>2, <4>3, <3>1, <2>4, <2>5, <1>4
    <3>. QED  BY <3>2, <3>3
  <2>. QED  BY <2>2, <2>3, <2>5, <2>6, <1>3, SeqEqual
<1>. QED  BY <1>7, <1>8

\* The ring buffer implements the bounded queue, for every number of slots.
THEOREM RingImplementsFifo == Spec => ImplementsFifo
<1>1. Init => Fifo!Init
  <2>. SUFFICES ASSUME Init PROVE Content = <<>> /\ answer = {}
    BY DEF Fifo!Init
  <2>1. RingInv /\ Used = 0
    BY InitRing, SizeAssumption DEF Init, Used
  <2>2. Content \in Seq(Entry) /\ Len(Content) = 0
    BY <2>1, ContentProperties DEF ContentIsUsedSlots
  <2>. QED  BY <2>2, EmptySeq DEF Init
<1>2. RingInv /\ [Next]_vars => [Fifo!Next]_Fifo!vars
  <2>. SUFFICES ASSUME RingInv, [Next]_vars PROVE Fifo!Next \/ UNCHANGED Fifo!vars
    OBVIOUS
  <2>1. CASE \E sig \in Signature, val \in Value : Save(sig, val)
    <3>1. PICK sig \in Signature, val \in Value : Save(sig, val)
      BY <2>1
    <3>2. Content' = Fifo!Push(Content, [sig |-> sig, val |-> val], Size - 1)
      BY <3>1, SavePushes
    <3>3. Fifo!Save(sig, val)
      BY <3>1, <3>2 DEF Fifo!Save, Save
    <3>. QED  BY <3>3 DEF Fifo!Next
  <2>2. CASE \E sig \in Signature : Load(sig)
    <3>1. PICK sig \in Signature : Load(sig)
      BY <2>2
    <3>2. answer' = Fifo!Lookup(Content, sig)
      BY <3>1, LookupAgrees
    <3>3. Content' = Content
      BY <3>1 DEF Load, Content, Used, Slot
    <3>4. Fifo!Load(sig)
      BY <3>2, <3>3 DEF Fifo!Load
    <3>. QED  BY <3>4 DEF Fifo!Next
  <2>3. CASE Reset
    <3>1. RingInv' /\ Used' = 0 /\ UNCHANGED answer
      BY <2>3, ResetRing DEF Reset, Used
    <3>2. Content' \in Seq(Entry) /\ Len(Content') = 0
      <4>1. ContentIsUsedSlots'
        BY <3>1, ContentProperties, PTL
      <4>. QED  BY <4>1, <3>1 DEF ContentIsUsedSlots
    <3>3. Content' = <<>>
      BY <3>2, EmptySeq
    <3>. QED  BY <3>1, <3>3 DEF Fifo!Next, Fifo!Reset
  <2>4. CASE UNCHANGED vars
    BY <2>4 DEF vars, Content, Used, Slot, Fifo!vars
  <2>. QED  BY <2>1, <2>2, <2>3, <2>4 DEF Next
<1>. QED  BY <1>1, <1>2, RingCorrect, PTL DEF Spec, ImplementsFifo, Fifo!Spec
=============================================================================
