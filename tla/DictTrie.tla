------------------------------ MODULE DictTrie ------------------------------
(***************************************************************************)
(* The trie of the system dictionary and the extending of it, one spelling *)
(* at a time.  A dictionary is                                             *)
(*   [t, list, le0, ge1, lmaIdx, topNum, index, psb]                       *)
(* t the spelling trie, list the word list, le0 the root and its sons, ge1 *)
(* the nodes below, lmaIdx the ids of lma_idx_buf_, index the first-level  *)
(* index, psb[id] the score of a lemma.  A node is                         *)
(*   [spl, son, sons, homo, homos]: son and homo are offsets from 0.       *)
(*                                                                         *)
(* ms is the image of the parsing marks and mile stones of the object:     *)
(* [marks, stones, bad] without the blank mile stone 0.  bad says that a   *)
(* mile stone was written behind the end of its array.                     *)
(***************************************************************************)
EXTENDS DictList

CONSTANTS
  kMaxMileStone,     \* mile stones, the unused number 0 among them
  kMaxParsingMark,
  kMaxExtendBuf      \* MAX_EXTENDBUF_LEN

ASSUME PoolAssumption == {kMaxMileStone, kMaxParsingMark, kMaxExtendBuf} \subseteq Nat \ {0}

Le0(d, off) == d.le0[off + 1]
Ge1(d, off) == d.ge1[off + 1]

---------------------------------------------------------------------------
\* The first-level index load_dict fills: a spelling that begins no lemma gets the place
\* of the last son before it, those behind the last son the place after it.
LoadIndex(t, le0) ==
  LET ids == kFullSplIdStart..kFullSplIdStart + SpellingNum(t)
      sonsOf == 1..Len(le0) - 1                   \* offsets of the sons of the root
      at(id) == {p \in sonsOf : le0[p + 1].spl = id}
      below(id) == {p \in sonsOf : le0[p + 1].spl < id}
      end == Len(le0) - 1
  IN [id \in ids |->
        IF at(id) # {} THEN Max(at(id))
        ELSE IF id > le0[end + 1].spl THEN end + 1
        ELSE Max({0} \cup below(id))]

\* The lemmas of a node as score items, in the order of the buffer.
NodeLpis(d, node, len) ==
  [h \in 1..node.homos |->
     LET id == d.lmaIdx[node.homo + h] IN [id |-> id, psb |-> d.psb[id], len |-> len]]

\* fill_lpi_buffer behind a buffer already holding lpis.
FillLpiBuffer(lpis, max, d, node, len) ==
  IF Len(lpis) >= max THEN lpis
  ELSE SubSeq(lpis \o NodeLpis(d, node, len), 1, Min({max, Len(lpis) + node.homos}))

---------------------------------------------------------------------------
NoMileStones == [marks |-> <<>>, stones |-> <<>>, bad |-> FALSE]

\* reset_milestones
ResetMilestones(ms, step, h) ==
  IF step = 0 THEN NoMileStones
  ELSE IF h \in 1..Len(ms.stones)
    THEN [ms EXCEPT !.stones = SubSeq(@, 1, h - 1),
                    !.marks = SubSeq(@, 1, ms.stones[h].start)]
  ELSE ms

\* Room is asked for mile stones and marks when a mark is stored.
RoomForMark(ms) == Len(ms.stones) + 1 < kMaxMileStone /\ Len(ms.marks) < kMaxParsingMark

\* The sons of the root that extend_dict0 and get_lpis visit for full ids from..from+num-1.
RootSons(d, from, num) ==
  LET range == d.index[from]..d.index[from + num] - 1
      stop == {p \in range : Le0(d, p).spl >= from + num - 1}
  IN IF stop = {} THEN range ELSE {p \in range : p <= Min(stop)}

\* extend_dict0: splid is the id typed, from and num the full ids it stands for.  A
\* result is [ms, handle, lpis, ok]; ok: every son met was in the range asked for.
ExtendDict0(d, ms, splid, from, num, cached, max) ==
  LET sons == SetToSortSeq(RootSons(d, from, num), <)
      listed == {p \in ToSet(sons) : ~(IsHalfIdYunmu(splid) /\ p # d.index[from])}
      lpis == FoldLeft(LAMBDA acc, p : IF p \in listed THEN FillLpiBuffer(acc, max, d, Le0(d, p), 1)
                                       ELSE acc, <<>>, sons)
      first == {p \in ToSet(sons) : Le0(d, p).spl = from}
      marked == first # {} /\ RoomForMark(ms)
  IN [ms |-> IF ~marked THEN ms
             ELSE [ms EXCEPT !.marks = Append(@, [off |-> Min(first), num |-> num]),
                             !.stones = Append(@, [start |-> Len(ms.marks), num |-> 1])],
      handle |-> IF marked THEN Len(ms.stones) + 1 ELSE 0,
      lpis |-> IF cached THEN <<>> ELSE lpis,
      ok |-> \A p \in ToSet(sons) : Le0(d, p).spl \in from..from + num - 1]

\* The sons of a node whose spelling is in the range, in order: extend_dict1 and 2 keep
\* them as one mark, for sons are sorted by spelling.
SonsInRange(d, node, from, num) ==
  {p \in node.son..node.son + node.sons - 1 : Ge1(d, p).spl \in from..from + num - 1}

\* The nodes a mark stands for; level is the number of spellings that lead to them.
MarkNodes(d, mark, level) ==
  [k \in 1..mark.num |-> IF level = 1 THEN Le0(d, mark.off + k - 1)
                         ELSE Ge1(d, mark.off + k - 1)]

\* The marks of a mile stone, and the nodes behind them.  A mark that had no room is
\* read from a slot never written, which stands for no nodes here.
MarksOf(ms, h) ==
  LET stone == ms.stones[h]
  IN SubSeq(ms.marks, stone.start + 1, Min({stone.start + stone.num, Len(ms.marks)}))

NodesAt(d, ms, h, level) ==
  LET marks == MarksOf(ms, h)
  IN FlattenSeq([k \in DOMAIN marks |-> MarkNodes(d, marks[k], level)])

\* Mutant: a mark is kept for the first node only.
ExtendNodeOnce(d, r, node, level, from, num, max) ==
  LET sons == SonsInRange(d, node, from, num)
  IN IF sons = {} \/ r.count > 0 THEN r
     ELSE [ms |-> [r.ms EXCEPT !.marks = Append(@, [off |-> Min(sons), num |-> Cardinality(sons)])],
           lpis |-> FoldLeft(LAMBDA acc, p : FillLpiBuffer(acc, max, d, Ge1(d, p), level + 1),
                             r.lpis, SetToSortSeq(sons, <)),
           start |-> Len(r.ms.marks),
           count |-> 1]

\* extend_dict1 and extend_dict2, from the nodes of a mile stone that level spellings
\* lead to.  A mark is stored while there is room, counted in any case, and the mile
\* stone is written without asking for room.
ExtendNode(d, r, node, level, from, num, max) ==
  LET sons == SonsInRange(d, node, from, num)
      order == SetToSortSeq(sons, <)
      stored == RoomForMark(r.ms)
  IN IF sons = {} THEN r
     ELSE [ms |-> IF ~stored THEN r.ms
                  ELSE [r.ms EXCEPT !.marks = Append(@, [off |-> Min(sons),
                                                         num |-> Cardinality(sons)])],
           lpis |-> FoldLeft(LAMBDA acc, p : FillLpiBuffer(acc, max, d, Ge1(d, p), level + 1),
                             r.lpis, order),
           start |-> IF stored /\ r.count = 0 THEN Len(r.ms.marks) ELSE r.start,
           count |-> r.count + 1]

\* start is left over from an earlier use of the slot when the first mark had no room.
ExtendDict12(d, ms, h, level, from, num, max) ==
  CHOOSE res \in
    {IF r.count = 0 THEN [ms |-> ms, handle |-> 0, lpis |-> r.lpis, ok |-> TRUE]
     ELSE [ms |-> [r.ms EXCEPT !.stones = Append(@, [start |-> r.start, num |-> r.count]),
                               !.bad = @ \/ Len(ms.stones) + 1 >= kMaxMileStone],
           handle |-> Len(ms.stones) + 1, lpis |-> r.lpis, ok |-> TRUE] :
       r \in {FoldLeft(LAMBDA acc, node : ExtendNode(d, acc, node, level, from, num, max),
                       [ms |-> ms, lpis |-> <<>>, start |-> 0, count |-> 0],
                       NodesAt(d, ms, h, level))}} : TRUE

\* extend_dict: level is the number of spellings already extended.
ExtendDict(d, ms, h, level, splid, from, num, cached, max) ==
  IF h = 0 THEN ExtendDict0(d, ms, splid, from, num, cached, max)
  ELSE ExtendDict12(d, ms, h, level, from, num, max)

---------------------------------------------------------------------------
\* The full ids an id stands for.
FullRange(t, id) ==
  IF IsHalfId(id) THEN HalfToFull(t, id) ELSE [start |-> id, num |-> 1]

\* One step of get_lpis: the nodes in the range, at most kMaxExtendBuf of them.
ExtendAll(d, nodes, range) ==
  LET found == FlattenSeq([k \in DOMAIN nodes |->
                 LET order == SetToSortSeq(SonsInRange(d, nodes[k], range.start, range.num), <)
                 IN [i \in DOMAIN order |-> Ge1(d, order[i])]])
  IN SubSeq(found, 1, Min({kMaxExtendBuf, Len(found)}))

\* get_lpis: the nodes that a string of ids leads to, and their lemmas, at most max.
NodesFor(d, ids) ==
  LET r1 == FullRange(d.t, ids[1])
      sons == SetToSortSeq(RootSons(d, r1.start, r1.num), <)
      level1 == [k \in 1..Min({kMaxExtendBuf, Len(sons)}) |-> Le0(d, sons[k])]
  IN FoldLeft(LAMBDA acc, k : ExtendAll(d, acc, FullRange(d.t, ids[k])),
              level1, [i \in 1..Len(ids) - 1 |-> i + 1])

TrieLpis(d, ids, max) ==
  LET n == Len(ids)
      most == IF n = 1 /\ IsHalfIdYunmu(ids[1]) THEN 1 ELSE kMaxExtendBuf
      Fill(acc, node) == FillLpiBuffer(acc, max, d, node, n)
  IN IF n > kMaxLemmaSize THEN <<>>
     ELSE CHOOSE lpis \in {FoldLeft(Fill, <<>>, SubSeq(nodes, 1, Min({most, Len(nodes)}))) :
                            nodes \in {NodesFor(d, ids)}} : TRUE

\* Mutant: any lemma behind the ids will do.
TryExtendAny(d, ids, id) ==
  LET leaf == FoldLeft(LAMBDA nodes, k : ExtendAll(d, nodes, [start |-> ids[k], num |-> 1]),
                       <<Le0(d, d.index[ids[1]])>>, [i \in 1..Len(ids) - 1 |-> i + 1])
  IN \E k \in DOMAIN leaf : leaf[k].homos > 0

\* try_extend: full ids lead to the lemma.
TryExtend(d, ids, id) ==
  LET n == Len(ids)
      leaf == FoldLeft(LAMBDA nodes, k : ExtendAll(d, nodes, [start |-> ids[k], num |-> 1]),
                       <<Le0(d, d.index[ids[1]])>>, [i \in 1..n - 1 |-> i + 1])
  IN \E k \in DOMAIN leaf : \E h \in 1..leaf[k].homos : d.lmaIdx[leaf[k].homo + h] = id

\* get_lemma_splids: half ids of given are completed by the spellings of the characters,
\* and the first combination under which the trie holds the lemma is taken.  given is
\* <<>> when the caller has none (arg_valid is false).
ChoicesFor(d, word, given) ==
  [k \in DOMAIN word |->
     IF given # <<>> /\ IsFullId(d.t, given[k]) THEN <<given[k]>>
     ELSE SplIdsForHanzi(d.t, d.list, word[k], IF given = <<>> THEN 0 ELSE given[k])]

\* Of two combinations of choices: the first position changes fastest.
TriedBefore(choices, a, b) ==
  LET rank(ids, k) == CHOOSE i \in DOMAIN choices[k] : choices[k][i] = ids[k]
  IN \E k \in DOMAIN choices :
       /\ rank(a, k) < rank(b, k)
       /\ \A j \in DOMAIN choices : j > k => rank(a, j) = rank(b, j)

LemmaSplIds(d, id, given) ==
  CHOOSE r \in UNION
    {{IF good = {} THEN <<>>
      ELSE CHOOSE a \in good : \A b \in good \ {a} : TriedBefore(choices, a, b) :
        good \in {{ids \in [DOMAIN choices -> UNION {ToSet(choices[k]) : k \in DOMAIN choices}] :
                    /\ ids # <<>>
                    /\ \A k \in DOMAIN choices : ids[k] \in ToSet(choices[k])
                    /\ TryExtend(d, ids, id)}}} :
     choices \in {ChoicesFor(d, GetLemmaStr(d.list, id, kMaxLemmaSize + 1), given)}} : TRUE

\* predict_top_lmas: the words of the top list that fit a prediction.
PredictTopLmas(d, room) ==
  LET top == SubSeq(d.lmaIdx, Len(d.lmaIdx) - d.topNum + 1, Len(d.lmaIdx))
      words == [i \in DOMAIN top |-> GetLemmaStr(d.list, top[i], kMaxLemmaSize - 1)]
      said == SelectSeq(words, LAMBDA w : w # <<>>)
  IN SubSeq(said, 1, Min({room, Len(said)}))
=============================================================================
