-------------------------- MODULE UserDictReclaim --------------------------
(***************************************************************************)
(* What reclaim selects.  Sync fills the dictionary up to its limit, the   *)
(* user removes a lemma, and reclaim gives up a percentage of the entries. *)
(* The selection is a heap of the entries taken so far; a heap of three    *)
(* and four entries is where shift_down compares children.                 *)
(***************************************************************************)
EXTENDS UserDictIndex

CONSTANTS
  Limit,      \* limit_lemma_count: the lemmas reclaim works on
  Grades,     \* the scores of lemmas, as times of their last use
  Ratios,     \* the reclaim ratios set_limit is called with
  Lemma(_),   \* the k-th lemma put
  EmptyDict   \* the image after the load of a file without lemmas

ASSUME RatioAssumption == \A ratio \in Ratios : ratio \in 1..99

VARIABLES
  dict,
  reclaimed   \* whether reclaim was called

vars == <<dict, reclaimed>>

Init == dict = EmptyDict /\ reclaimed = FALSE

\* put_lemma_no_sync of a lemma that is not in the dictionary.
Put(grade) ==
  /\ ~reclaimed /\ Len(dict.offsets) < Limit
  /\ dict' = AppendALemma(dict, Lemma(Len(dict.offsets) + 1), [lmt |-> grade, freq |-> 1])
  /\ UNCHANGED reclaimed

\* remove_lemma, of one lemma at most.
RemoveLemma(i) ==
  /\ ~reclaimed /\ Len(dict.offsets) = Limit /\ dict.free_count = 0
  /\ dict' = RemoveLemmaByOffsetIndex(dict, i)
  /\ UNCHANGED reclaimed

\* set_limit and reclaim, when the dictionary is at its limit.
ReclaimAt(ratio) ==
  /\ ~reclaimed /\ Len(dict.offsets) = Limit
  /\ dict' = Reclaim([dict EXCEPT !.limit.ratio = ratio])
  /\ reclaimed' = TRUE

Next ==
  \/ \E grade \in Grades : Put(grade)
  \/ \E i \in 1..Limit : RemoveLemma(i)
  \/ \E ratio \in Ratios : ReclaimAt(ratio)

Spec == Init /\ [][Next]_vars

---------------------------------------------------------------------------
Score(i) == dict.offsets[i].score
Live(d) == {i \in Indexes(d) : ~d.offsets[i].removed}
Evicted == Live(dict) \ Live(dict')

\* reclaim evicts the lowest scores, though the heap compares only some of the entries: one of
\* the lowest entries is always among the selected, and where no two entries score the same, no
\* lemma kept scores below one that is evicted.  With equal scores that fails, because shift_down
\* stops at equal children.
EvictsLowest ==
  [][\A ratio \in Ratios : ReclaimAt(ratio) =>
       /\ \E i \in Indexes(dict) : /\ dict'.offsets[i].removed
                                   /\ \A j \in Indexes(dict) : ~ScoreLess(Score(j), Score(i))
       /\ (\A i, j \in Indexes(dict) : Score(i) = Score(j) => i = j) =>
            \A gone \in Evicted, kept \in Live(dict') : ScoreLess(Score(gone), Score(kept))]_vars

\* reclaim gives up the percentage it is asked for, whatever the scores: it selects no entry twice,
\* and an entry that is removed already counts as one of the selected (userdict.h:
\* "how much percentage will be reclaimed").
ReclaimsShare ==
  [][\A ratio \in Ratios : ReclaimAt(ratio) =>
       LET share == (Limit * ratio) \div 100
       IN /\ Cardinality(Live(dict')) <= Limit - share
          /\ Cardinality(Evicted) <= share]_vars
=============================================================================
