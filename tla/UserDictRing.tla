---------------------------- MODULE UserDictRing ----------------------------
(***************************************************************************)
(* One ring buffer of the user dictionary's lookup caches: caches_[len-1]  *)
(* (struct UserDictCache, Size = kUserDictCacheSize) or                    *)
(* miss_caches_[len-1] (UserDictMissCache, Size = kUserDictMissCacheSize). *)
(* The slots from head up to, not including, tail are in use, so the ring  *)
(* never holds more than Size - 1 entries.                                 *)
(***************************************************************************)
EXTENDS Integers, Sequences, FiniteSetsExt

CONSTANTS
  Signature,  \* the initial letters of a query
  Value,      \* a range [start, count]; the miss cache stores none
  Size,       \* slots of the ring
  Zero        \* what memset leaves in a slot

ASSUME SizeAssumption == Size \in Nat /\ Size >= 2

VARIABLES
  signatures, \* [0..Size-1 -> Signature \cup {Zero}]
  values,     \* [0..Size-1 -> Value \cup {Zero}]: offsets[] and lengths[]
  head, tail,
  answer      \* what the last load returned

vars == <<signatures, values, head, tail, answer>>

Slots == 0..(Size - 1)

\* The wrap-around of an index that was just advanced: i >= Size, i -= Size.
Wrap(i) == IF i >= Size THEN i - Size ELSE i

\* Slots in use and the k-th of them, counted from head.
Used == IF tail >= head THEN tail - head ELSE tail + Size - head
Slot(k) == Wrap(head + k)

---------------------------------------------------------------------------
\* reset_cache, reset_miss_cache.
Init ==
  /\ signatures = [i \in Slots |-> Zero]
  /\ values = [i \in Slots |-> Zero]
  /\ head = 0 /\ tail = 0
  /\ answer = {}

\* Mutant: only the head is set back.
ResetKeepsTail ==
  /\ signatures' = [i \in Slots |-> Zero]
  /\ values' = [i \in Slots |-> Zero]
  /\ head' = 0
  /\ UNCHANGED <<tail, answer>>

Reset ==
  /\ signatures' = [i \in Slots |-> Zero]
  /\ values' = [i \in Slots |-> Zero]
  /\ head' = 0 /\ tail' = 0
  /\ UNCHANGED answer

\* save_cache, save_miss_cache: write at tail, advance it, drop the oldest when full.
Save(sig, val) ==
  LET next == Wrap(tail + 1) IN
  /\ signatures' = [signatures EXCEPT ![tail] = sig]
  /\ values' = [values EXCEPT ![tail] = val]
  /\ head' = IF next = head THEN Wrap(head + 1) ELSE head
  /\ tail' = next
  /\ UNCHANGED answer

\* Mutant: the slot at tail is looked at as well.
LoadPastTail(sig) ==
  LET hits == {k \in 0..Used : signatures[Slot(k)] = sig} IN
  /\ answer' = IF hits = {} THEN {} ELSE {values[Slot(Min(hits))]}
  /\ UNCHANGED <<signatures, values, head, tail>>

\* load_cache, load_miss_cache: the first slot, from head on, with this signature.
Load(sig) ==
  LET hits == {k \in 0..(Used - 1) : signatures[Slot(k)] = sig} IN
  /\ answer' = IF hits = {} THEN {} ELSE {values[Slot(Min(hits))]}
  /\ UNCHANGED <<signatures, values, head, tail>>

Next ==
  \/ \E sig \in Signature, val \in Value : Save(sig, val)
  \/ \E sig \in Signature : Load(sig)
  \/ Reset

Spec == Init /\ [][Next]_vars

---------------------------------------------------------------------------
TypeOK ==
  /\ signatures \in [Slots -> Signature \cup {Zero}]
  /\ values \in [Slots -> Value \cup {Zero}]
  /\ head \in Slots /\ tail \in Slots
  /\ answer \in SUBSET Value

\* Every slot in use was written by a save: a zeroed slot is never taken for an entry
\* (load_cache compares signatures alone, and an all-zero signature is a legal array value).
UsedSlotsWritten ==
  \A k \in 0..(Used - 1) :
    signatures[Slot(k)] \in Signature /\ values[Slot(k)] \in Value

RingInv == TypeOK /\ UsedSlotsWritten

\* The ring as the queue it stands for.
Content ==
  [k \in 1..Used |-> [sig |-> signatures[Slot(k - 1)], val |-> values[Slot(k - 1)]]]

Fifo == INSTANCE SignatureFifo WITH fifo <- Content, Capacity <- Size - 1

\* The ring of the code is the queue of the last Size - 1 saves: no save, however often the
\* indexes wrap, loses an entry early, keeps one too long, or makes a load return another's value.
ImplementsFifo == Fifo!Spec
=============================================================================
