--------------------------- MODULE SpellingTable ---------------------------
(***************************************************************************)
(* The hash table in which the dictionary builder collects the spellings   *)
(* it meets.  A spelling is the sequence of its character codes: capitals, *)
(* and a small h after C, S and Z.  The operators work on the image of a   *)
(* SpellingTable object,                                                   *)
(*   [raw |-> raw_spellings_, num |-> spelling_num_, frozen |-> frozen_],  *)
(* with <<>> in the free slots.  The frequencies and the scores made of    *)
(* them are left out.                                                      *)
(***************************************************************************)
EXTENDS Integers, SequencesExt

CONSTANT HashLen   \* spelling_max_num_, the prime get_odd_next makes of the size asked for

ASSUME HashLenAssumption == HashLen \in Nat \ {0}

\* kNotSupportList: HM, HNG, NG.
NotSupported == {<<72, 77>>, <<72, 78, 71>>, <<78, 71>>}

\* strcmp(a, b) < 0
StrLess(a, b) ==
  \E i \in 1..Len(a) + 1 :
    /\ i <= Len(b)
    /\ \A j \in 1..i - 1 : a[j] = b[j]
    /\ i <= Len(a) => a[i] < b[i]

---------------------------------------------------------------------------
InitTable ==
  [raw |-> [pos \in 0..HashLen - 1 |-> <<>>], num |-> 0, frozen |-> FALSE]

\* The sum of the first n characters.
CharSum(str, n) ==
  LET sum[k \in 0..n] == IF k = 0 THEN 0 ELSE sum[k-1] + str[k]
  IN sum[n]

\* get_hash_pos
HashPos(str) == CharSum(str, Len(str)) % HashLen

\* The slots in the order hash_pos_next visits them.
Probe(str, k) == (HashPos(str) + 123 * k) % HashLen

\* The number of steps after which a probe meets str or a free slot, HashLen when
\* it comes back to where it began.
Steps(tb, str) ==
  Min({HashLen} \cup
      {k \in 0..HashLen - 1 : tb.raw[Probe(str, k)] \in {str, <<>>}})

\* Mutant: the first slot is taken whoever sits in it.
PutNoProbe(tb, str) ==
  IF tb.frozen \/ str \in NotSupported THEN [ok |-> FALSE, table |-> tb]
  ELSE [ok |-> TRUE, table |-> [tb EXCEPT !.raw[HashPos(str)] = str, !.num = @ + 1]]

PutSpelling(tb, str) ==
  LET k == Steps(tb, str)
      pos == Probe(str, k)
  IN IF tb.frozen \/ str \in NotSupported \/ k = HashLen THEN [ok |-> FALSE, table |-> tb]
     ELSE IF tb.raw[pos] = str THEN [ok |-> TRUE, table |-> tb]
     ELSE [ok |-> TRUE,
           table |-> [tb EXCEPT !.raw[pos] = str, !.num = @ + 1]]

\* A probe that gives up at the first slot taken by another spelling is a lost put.
Contain(tb, str) ==
  LET k == Steps(tb, str)
  IN /\ ~tb.frozen
     /\ k < HashLen
     /\ tb.raw[Probe(str, k)] = str

\* Sorted, the free slots last; only the first spelling_num_ are handed out.
Arrange(tb) ==
  LET all == [i \in 1..HashLen |-> tb.raw[i - 1]]
      Before(a, b) == a # <<>> /\ (b = <<>> \/ StrLess(a, b))
  IN SubSeq(SortSeq(all, Before), 1, tb.num)
=============================================================================
