--------------------------- MODULE UserDictIndex ---------------------------
(***************************************************************************)
(* The in-memory image of an open user dictionary and what the code does   *)
(* to it, as operators from one image to the next: searching, appending,   *)
(* removing, reclaiming, defragmenting, and the sync list.  UserDict makes *)
(* its actions of these.                                                   *)
(*                                                                         *)
(* An image d has the fields                                               *)
(*   state             how much differs from the file                      *)
(*   lemmas            byte position -> lemma: the block lemmas_           *)
(*   lemma_size        bytes of it in use                                  *)
(*   offsets           the sorted index: offsets_, scores_ and ids_, which *)
(*                     every operation permutes alike, as one sequence of  *)
(*                     [pos, removed, score, id]                           *)
(*   by_id             offsets_by_id_ (start_id_ is 1)                     *)
(*   predicts          sequence of [pos, removed]                          *)
(*   syncs             positions queued for synchronization                *)
(*   syncs_null        syncs_ is NULL while put_lemma_no_sync runs         *)
(*   count_left, size_left, free_count, free_size, limit                   *)
(*   cache, miss       per lemma length: the lookup caches                 *)
(* A score is [lmt, freq]: build_score packs the time above the frequency. *)
(* Indexes count from 1, and 0 is the code's -1.                           *)
(***************************************************************************)
EXTENDS UserDictLemma, SequencesExt, SignatureQueue

CONSTANTS
  kUserDictPreAlloc,      \* lemmas there is room for after a load
  kUserDictAverageNchar,  \* characters each of them is given room for
  kUserDictCacheSize,     \* slots of the range cache, one of them never used
  kUserDictMissCacheSize, \* slots of the miss cache, one of them never used
  kUserDictMaxFrequency,
  kMaxLemmaSize,
  Garbage                 \* a sync entry nobody wrote

\* UserDictState, in the order the code compares them.
USER_DICT_NONE == 0
USER_DICT_SYNC == 1
USER_DICT_SYNC_DIRTY == 2
USER_DICT_SCORE_DIRTY == 3
USER_DICT_OFFSET_DIRTY == 4
USER_DICT_LEMMA_DIRTY == 5
USER_DICT_DEFRAGMENTED == 6

\* Mutant: a change that needs less to be written lowers the level.
DirtyLowers(d, level) == [d EXCEPT !.state = level]

\* if (state_ < level) state_ = level.
Dirty(d, level) == [d EXCEPT !.state = Max({@, level})]

Indexes(d) == 1..Len(d.offsets)
LemmaOf(d, i) == d.lemmas[d.offsets[i].pos]
SpellOf(d, i) == LemmaOf(d, i).spell
NcharOf(d, i) == Len(SpellOf(d, i))
BytesOf(d, pos) == LemmaBytes(Len(d.lemmas[pos].spell))
BytesAt(d) == [pos \in DOMAIN d.lemmas |-> BytesOf(d, pos)]

ScoreLess(s, t) == s.lmt < t.lmt \/ (s.lmt = t.lmt /\ s.freq < t.freq)

\* kUserDictPreAlloc * (2 + (kUserDictAverageNchar << 2)).
PreAllocBytes == kUserDictPreAlloc * LemmaBytes(kUserDictAverageNchar)

---------------------------------------------------------------------------
\* Mutant: an equal entry sends the search to the right.
LocateLastInOffsets(d, q) ==
  Bisect(Len(d.offsets),
         {i \in Indexes(d) : FuzzyCompare(SpellOf(d, i), NcharOf(d, i), q) <= 0},
         {i \in Indexes(d) : IsFuzzyPrefix(SpellOf(d, i), q)})

\* locate_first_in_offsets: not the first match but the last prefix match the search visited.
LocateFirstInOffsets(d, q) ==
  Bisect(Len(d.offsets),
         {i \in Indexes(d) : FuzzyCompare(SpellOf(d, i), NcharOf(d, i), q) < 0},
         {i \in Indexes(d) : IsFuzzyPrefix(SpellOf(d, i), q)})

\* locate_where_to_insert_in_predicts: the index compared is offsets_, not predicts_.
LocateWhereToInsertInPredicts(d, word) ==
  LET last == Bisect(Len(d.offsets),
                     {i \in Indexes(d) : CompareWords(LemmaOf(d, i).word, word) < 0},
                     {i \in Indexes(d) : CompareWords(LemmaOf(d, i).word, word) <= 0})
  IN IF last = 0 THEN Len(d.offsets) ELSE last

---------------------------------------------------------------------------
NoCache == [n \in 1..kMaxLemmaSize |-> <<>>]

\* Mutants: one of the two caches survives a change of the index.
CacheInitKeepsRanges(d) == [d EXCEPT !.miss = NoCache]
CacheInitKeepsMisses(d) == [d EXCEPT !.cache = NoCache]

\* cache_init.
CacheInit(d) == [d EXCEPT !.cache = NoCache, !.miss = NoCache]

\* cache_push.  A range is [start, count].
PushRange(d, q, range) ==
  [d EXCEPT !.cache[Len(q.sig)] =
     Push(@, [sig |-> q.sig, val |-> range], kUserDictCacheSize - 1)]
PushMiss(d, q) ==
  [d EXCEPT !.miss[Len(q.sig)] =
     Push(@, [sig |-> q.sig, val |-> [start |-> 0, count |-> 0]], kUserDictMissCacheSize - 1)]

\* Mutant: removed entries are seen.
WholeRange(d, range) == range.start..(range.start + range.count - 1)

\* A search skips the entries with the removed flag.
LiveIn(d, range) ==
  {i \in range.start..(range.start + range.count - 1) : ~d.offsets[i].removed}

\* locate_in_offsets: the index of a lemma that is not removed, or 0.  The length compared is the
\* argument's, so a stored lemma that only begins with the argument is found as well.
LocateInOffsets(d, lemma) ==
  LET n == Len(lemma.spell)
      q == SearchFor(lemma.spell)
      cached == Lookup(d.cache[n], q.sig)
      range == IF cached # {} THEN CHOOSE r \in cached : TRUE
               ELSE LET first == LocateFirstInOffsets(d, q)
                    IN [start |-> first, count |-> Len(d.offsets) + 1 - first]
      live == LiveIn(d, range)
      stops == {i \in live : cached = {} /\ FuzzyCompare(SpellOf(d, i), n, q) # 0}
      found == {i \in live : /\ EqualSpell(SpellOf(d, i), n, q)
                             /\ SubSeq(LemmaOf(d, i).word, 1, n) = lemma.word
                             /\ \A s \in stops : i < s}
  IN IF range.start = 0 \/ found = {} THEN 0 ELSE Min(found)

\* _get_lpis: what a lookup returns, a set of indexes, whether longer lemmas begin with the
\* query (need_extend), and the image it leaves.
GetLpis(d, q, lpi_max) ==
  LET n == Len(q.sig)
      missed == Lookup(d.miss[n], q.sig) # {}
      cached == Lookup(d.cache[n], q.sig)
      first == LocateFirstInOffsets(d, q)
      range == IF cached # {} THEN CHOOSE r \in cached : TRUE
               ELSE [start |-> first, count |-> Len(d.offsets) + 1 - first]
      end == range.start + range.count
      live == LiveIn(d, range)
      hits == {i \in live : EqualSpell(SpellOf(d, i), NcharOf(d, i), q)}
      \* the loop ends after the lemma that no longer fits, or before the one after the last hit
      breaks == {i \in live : \/ ~IsFuzzyPrefix(SpellOf(d, i), q)
                              \/ cached = {} /\ FuzzyCompare(SpellOf(d, i), NcharOf(d, i), q) # 0
                              \/ i \in hits /\ Cardinality(hits \cap (range.start..i)) = lpi_max}
      stop == Min({end} \cup {i + 1 : i \in breaks})
  IN IF missed THEN [found |-> {}, need |-> FALSE, dict |-> d]
     ELSE IF range.start = 0 THEN [found |-> {}, need |-> FALSE, dict |-> PushMiss(d, q)]
     ELSE [found |-> hits \cap (range.start..(stop - 1)),
           need |-> \E i \in live : i < stop /\ IsPrefixSpell(SpellOf(d, i), q),
           dict  |-> IF cached # {} THEN d
                     ELSE PushRange(d, q, [start |-> range.start, count |-> stop - range.start])]

---------------------------------------------------------------------------
\* A lemma written into the block.
WithBlock(lemmas, at, lemma) ==
  [pos \in DOMAIN lemmas \cup {at} |-> IF pos = at THEN lemma ELSE lemmas[pos]]

\* append_a_lemma: at the end of the block, under the next id, before the first index entry
\* that does not compare below it.
AppendALemma(d, lemma, score) ==
  LET n == Len(d.offsets)
      id == n + 1
      bytes == LemmaBytes(Len(lemma.spell))
      q == SearchFor(lemma.spell)
      notBelow == {i \in 1..n : FuzzyCompare(SpellOf(d, i), NcharOf(d, i), q) >= 0}
      at == Min(notBelow \cup {n + 1})
      d1 == [d EXCEPT
               !.lemmas = WithBlock(@, d.lemma_size, lemma),
               !.lemma_size = @ + bytes,
               !.offsets = InsertAt(@, at, [pos |-> d.lemma_size, removed |-> FALSE,
                                            score |-> score, id |-> id]),
               !.by_id = Append(@, d.lemma_size),
               !.count_left = @ - 1,
               !.size_left = @ - bytes]
      j == LocateWhereToInsertInPredicts(d1, lemma.word)
      d2 == [d1 EXCEPT !.predicts = InsertAt(@, j, [pos |-> d.lemma_size, removed |-> FALSE])]
  IN CacheInit(Dirty(d2, USER_DICT_LEMMA_DIRTY))

\* Mutant: an id is taken for an index.
QueueLemmaByIndex(d, id) == [d EXCEPT !.syncs = Append(@, d.offsets[id].pos)]

\* queue_lemma_for_sync.
QueueLemmaForSync(d, id) == [d EXCEPT !.syncs = Append(@, d.by_id[id])]

\* remove_lemma_from_sync_list: only the first entry, and the last one takes its place.
RemoveLemmaFromSyncList(d, pos) ==
  LET at == {k \in DOMAIN d.syncs : d.syncs[k] = pos}
  IN IF at = {} THEN d
     ELSE [d EXCEPT !.syncs = Front([d.syncs EXCEPT ![Min(at)] = Last(d.syncs)])]

\* Mutant: the predict list keeps a removed lemma.
PredictListUnchanged(d, pos) == d

\* remove_lemma_from_predict_list.
RemoveLemmaFromPredictList(d, pos) ==
  LET at == {k \in DOMAIN d.predicts : d.predicts[k].pos = pos}
  IN [d EXCEPT !.predicts = [@ EXCEPT ![Min(at)].removed = TRUE]]

\* remove_lemma_by_offset_index.
RemoveLemmaByOffsetIndex(d, i) ==
  LET pos == d.offsets[i].pos
      d1 == RemoveLemmaFromPredictList(RemoveLemmaFromSyncList(d, pos), pos)
  IN Dirty([d1 EXCEPT !.offsets[i].removed = TRUE,
                      !.free_count = @ + 1,
                      !.free_size = @ + BytesOf(d, pos)],
           USER_DICT_OFFSET_DIRTY)

---------------------------------------------------------------------------
\* reclaim.  A heap is a sequence of [score, index]; its root should hold the largest score.
Above(heap, c, p) == ScoreLess(heap[p].score, heap[c].score)

\* Mutant: the left child goes first, whether or not the right one scores above it.
DownLeft(h) ==
  {c \in {2 * h.par, 2 * h.par + 1} :
     /\ c <= Len(h.heap) /\ Above(h.heap, c, h.par)
     /\ c = 2 * h.par \/ ~Above(h.heap, 2 * h.par, h.par)}

\* The child that a round of shift_down swaps with the parent, as a set: the one that scores above
\* the parent and above its sibling, so there is none when the two score the same.
Down(h) ==
  LET children == {c \in {2 * h.par, 2 * h.par + 1} : c <= Len(h.heap)}
  IN {c \in children : /\ Above(h.heap, c, h.par)
                       /\ \A sibling \in children \ {c} : Above(h.heap, c, sibling)}

\* Mutant: swap forgets to write the parent into the child's place.
SwapHalf(heap, par, c) == [heap EXCEPT ![par] = heap[c]]

Swap(heap, par, c) == [heap EXCEPT ![c] = heap[par], ![par] = heap[c]]

\* shift_down: one round of its loop, from [heap, par, done].
ShiftStep(h) ==
  IF h.done \/ Down(h) = {} THEN [h EXCEPT !.done = TRUE]
  ELSE LET c == CHOOSE c \in Down(h) : TRUE
       IN [heap |-> Swap(h.heap, h.par, c), par |-> c, done |-> FALSE]

ShiftDown(heap, i) ==
  LET round[k \in 0..Len(heap)] ==
        IF k = 0 THEN [heap |-> heap, par |-> i, done |-> i > Len(heap)]
        ELSE ShiftStep(round[k-1])
  IN round[Len(heap)].heap

\* The indexes reclaim selects: its heap starts with the first rc entries, and every later
\* entry that scores below the root takes the root's place.  Removed entries take part.
Selected(d, rc) ==
  LET Pair(i) == [score |-> d.offsets[i].score, index |-> i]
      half == (rc + 1) \div 2 + 1
      heapify[k \in 0..half] ==
        IF k = 0 THEN [i \in 1..rc |-> Pair(i)] ELSE ShiftDown(heapify[k-1], half + 1 - k)
      Offer(heap, i) == IF ScoreLess(d.offsets[i].score, heap[1].score)
                        THEN ShiftDown([heap EXCEPT ![1] = Pair(i)], 1) ELSE heap
      offer[k \in 0..Len(d.offsets) - rc] ==
        IF k = 0 THEN heapify[half] ELSE Offer(offer[k-1], rc + k)
  IN [i \in 1..rc |-> offer[Len(d.offsets) - rc][i].index]

\* A ratio of 100 is an assertion failure in the code; set_limit never gets it from Sync.
Reclaim(d) ==
  LET rc == (Len(d.offsets) * d.limit.ratio) \div 100
      selected == Selected(d, rc)
      after[k \in 0..rc] ==
        IF k = 0 THEN d ELSE RemoveLemmaByOffsetIndex(after[k-1], selected[k])
  IN IF rc = 0 THEN d ELSE after[rc]

RemovedPositions(d) == {d.offsets[i].pos : i \in {i \in Indexes(d) : d.offsets[i].removed}}

\* The bytes that the blocks at the given positions take before pos.
SumBefore(bytes, positions, pos) ==
  LET sum[p \in 0..pos] ==
        IF p = 0 THEN 0
        ELSE sum[p-1] + (IF p - 1 \in positions THEN bytes[p-1] ELSE 0)
  IN sum[pos]

\* Mutant: the two header bytes of a removed lemma stay.
GoneWithoutHeader(d, pos) ==
  LET removed == RemovedPositions(d)
  IN SumBefore(BytesAt(d), removed, pos) - 2 * Cardinality({p \in removed : p < pos})

\* How far defragment moves what begins at pos: the bytes of the removed lemmas before it.
Gone(d, pos) == SumBefore(BytesAt(d), RemovedPositions(d), pos)

\* The entries without the removed flag, in their order.
LiveEntries(entries) ==
  LET live == {i \in 1..Len(entries) : ~entries[i].removed}
      Rank(i) == Cardinality(live \cap (1..i))
  IN [k \in 1..Cardinality(live) |-> entries[CHOOSE i \in live : Rank(i) = k]]

\* defragment: live entries keep their order and get the ids 1, 2, ...; the block closes up,
\* and whatever pointed into a live lemma follows it.  A sync entry of a removed lemma stays.
Defragment(d) ==
  LET removed == RemovedPositions(d)
      gone(pos) == Gone(d, pos)
      live == LiveEntries(d.offsets)
      offsets == [i \in 1..Len(live) |->
                    [live[i] EXCEPT !.pos = @ - gone(@), !.id = i]]
      predicts == LiveEntries(d.predicts)
      old == [pos \in {e.pos : e \in ToSet(offsets)} |->
                CHOOSE p \in {e.pos : e \in ToSet(live)} : p - gone(p) = pos]
      inUse == UNION {e.pos..(e.pos + BytesOf(d, e.pos) - 1) : e \in ToSet(live)}
      size == d.lemma_size - gone(d.lemma_size)
  IN IF removed = {} THEN d
     ELSE [d EXCEPT
             !.offsets = offsets,
             !.by_id = [i \in 1..Len(live) |-> offsets[i].pos],
             !.predicts = [i \in 1..Len(predicts) |-> [predicts[i] EXCEPT !.pos = @ - gone(@)]],
             !.lemmas = [pos \in DOMAIN old |-> d.lemmas[old[pos]]],
             !.syncs = [k \in DOMAIN @ |->
                          IF d.syncs[k] \in inUse THEN @[k] - gone(@[k]) ELSE @[k]],
             !.lemma_size = size,
             !.size_left = @ + gone(d.lemma_size),
             !.free_count = 0, !.free_size = 0,
             !.state = USER_DICT_DEFRAGMENTED]

---------------------------------------------------------------------------
\* get_sync_lemmas_in_utf16le_string_from_beginning: whether entry k has a text.  An entry whose
\* lemma is not found scores 0, and a frequency of 0 formats to nothing; such entries are skipped.
\* An entry that points at no lemma reads whatever bytes are there: wild has those that give a text.
HasText(d, wild, k) ==
  \/ k \in wild
  \/ /\ d.syncs[k] \in DOMAIN d.lemmas
     /\ LET i == LocateInOffsets(d, d.lemmas[d.syncs[k]])
        IN i # 0 /\ d.offsets[i].score.freq > 0

WildSyncs(d) == {k \in DOMAIN d.syncs : d.syncs[k] \notin DOMAIN d.lemmas}

\* The entries written into a buffer with room for at most room lemmas.
SyncTexts(d, wild, room) ==
  LET texts == {k \in DOMAIN d.syncs : HasText(d, wild, k)}
  IN {k \in texts : Cardinality(texts \cap (1..k)) <= room}

\* Mutant: the range to clear includes its end.
ClearSyncLemmasInclusive(d, last) ==
  Dirty([d EXCEPT !.syncs = SubSeq(@, Min({last + 1, Len(@)}) + 1, Len(@))],
        USER_DICT_SYNC_DIRTY)

\* clear_sync_lemmas(0, last).
ClearSyncLemmas(d, last) ==
  Dirty([d EXCEPT !.syncs = SubSeq(@, Min({last, Len(@)}) + 1, Len(@))], USER_DICT_SYNC_DIRTY)
=============================================================================
