--------------------------- MODULE DictConstruct ---------------------------
(***************************************************************************)
(* What build_dict makes of the lemmas read: the spelling trie, the ids of *)
(* the lemmas, the word list, the lemma trie and the list of the most      *)
(* frequent lemmas; load_dict adds the first-level index.                  *)
(* A lemma is [word, freq, spell]; the build adds ids, the full spelling   *)
(* ids, and id, the lemma id.                                              *)
(***************************************************************************)
EXTENDS DictTrie

CONSTANTS
  kTopScoreLemmaNum,
  Psb(_)               \* the score NGram gives a frequency: the higher, the lower

\* The full id of a spelling: what the parser finds, a half id as its first full id.
FullIdOf(t, str) ==
  LET ids == SplstrToIdxs(t, str, 2).ids
  IN IF ids = <<>> THEN 0
     ELSE IF IsHalfId(ids[1]) THEN HalfToFull(t, ids[1]).start ELSE ids[1]

\* The assertion that every spelling is one syllable, and a half id has full ids.
SpellingsParse(t, ls) ==
  \A i \in DOMAIN ls : \A k \in DOMAIN ls[i].spell :
    /\ Len(SplstrToIdxs(t, ls[i].spell[k], 2).ids) = 1
    /\ FullIdOf(t, ls[i].spell[k]) # 0

WithSplIds(t, ls) ==
  [i \in DOMAIN ls |-> [word |-> ls[i].word, freq |-> ls[i].freq, spell |-> ls[i].spell,
                        ids |-> [k \in DOMAIN ls[i].spell |-> FullIdOf(t, ls[i].spell[k])]]]

\* cmp_lemma_entry_hzs: length, then characters.  Entries of one word keep their order.
HzsBefore(a, b) ==
  \/ Len(a.word) < Len(b.word)
  \/ Len(a.word) = Len(b.word) /\ WordLess(a.word, b.word)

\* Sorting is stable: entries that compare equal may come in any order, and this is one.
SortBy(seq, Before(_, _)) ==
  LET n == Len(seq)
      place(i) == Cardinality({j \in 1..n : \/ Before(seq[j], seq[i])
                                            \/ ~Before(seq[i], seq[j]) /\ j < i}) + 1
  IN [k \in 1..n |-> seq[CHOOSE i \in 1..n : place(i) = k]]

\* sort_lemmas_by_hz: every entry gets an id of its own, entries of one word too.
SortLemmasByHz(ls) ==
  LET sorted == SortBy(ls, HzsBefore)
  IN [i \in DOMAIN sorted |-> [id |-> i, word |-> sorted[i].word, freq |-> sorted[i].freq,
                               spell |-> sorted[i].spell, ids |-> sorted[i].ids]]

\* build_scis: the pairs of a character and a full id, by character, half id and full id.
BuildScis(t, ls) ==
  LET pairs == UNION {{[hz |-> ls[i].word[k], half |-> FullToHalf(t, ls[i].ids[k]),
                        full |-> ls[i].ids[k]] : k \in DOMAIN ls[i].word} : i \in DOMAIN ls}
      Before(a, b) ==
        \/ a.hz < b.hz
        \/ a.hz = b.hz /\ a.half < b.half
        \/ a.hz = b.hz /\ a.half = b.half /\ a.full < b.full
  IN SetToSortSeq(pairs, Before)

\* compare_py: the ids, a lemma before those it begins; then the higher frequency.
PyBefore(a, b) ==
  \/ WordLess(a.ids, b.ids)
  \/ a.ids = b.ids /\ a.freq > b.freq

\* get_top_lemmas, one lemma: from the end of the list, which grows while it has room,
\* items move one place back until the item two places before is more frequent.  At
\* least one item moves: in a full list the last one is lost, and the one before it takes
\* its place even if it is more frequent than the lemma.
TopTurn(top, l) ==
  LET n == Min({Len(top) + 1, kTopScoreLemmaNum})
      place == Max({p \in 1..n - 1 : p = 1 \/ top[p - 1].freq > l.freq})
  IN IF top # <<>> /\ l.freq > Last(top).freq
       THEN [p \in 1..n |-> IF p < place THEN top[p] ELSE IF p = place THEN l ELSE top[p - 1]]
     ELSE IF Len(top) < kTopScoreLemmaNum THEN Append(top, l)
     ELSE top

GetTopLemmas(ls) == FoldLeft(TopTurn, <<>>, ls)

---------------------------------------------------------------------------
\* construct_subset: b is [le0, ge1, homos, todo], what has been laid down so far and the
\* sons to construct next, a stack in place of the recursion.  A son [first, last, level, off]
\* is a run of the sorted lemmas ls that share a spelling at its level, and its node is the one
\* at the offset off, in le0 at level 0, then in ge1.
BlankNode == [spl |-> 0, son |-> 0, sons |-> 0, homo |-> 0, homos |-> 0]

\* The runs of one spelling id at a level, in order.
RunsOf(ls, first, last, level) ==
  LET starts == {i \in first..last :
                   i = first \/ ls[i].ids[level + 1] # ls[i - 1].ids[level + 1]}
      order == SetToSortSeq(starts, <)
  IN [k \in DOMAIN order |->
        [first |-> order[k],
         last |-> IF k = Len(order) THEN last ELSE order[k + 1] - 1]]

\* The lemmas of a run that end with its spelling; they come first.
HomosOf(ls, run, level) ==
  Cardinality({i \in run.first..run.last : Len(ls[i].ids) = level + 1})

\* The lemmas from first to last share their first level spellings, and parent is the offset
\* of the node these lead to: it gets a blank son for every run, to be constructed before
\* what is to be constructed already.
ConstructSubset(b, ls, first, last, level, parent) ==
  LET runs == RunsOf(ls, first, last, level)
      n == Len(runs)
      start == IF level = 0 THEN Len(b.le0) ELSE Len(b.ge1)
      blanks == [k \in 1..n |-> BlankNode]
      sons == [k \in 1..n |-> [first |-> runs[k].first, last |-> runs[k].last,
                               level |-> level, off |-> start + k - 1]]
      sized == [b EXCEPT !.le0 = IF level = 0 THEN @ \o blanks ELSE @,
                         !.ge1 = IF level = 0 THEN @ ELSE @ \o blanks,
                         !.todo = sons \o @]
  IN IF level >= kMaxLemmaSize THEN b
     ELSE IF level <= 1
     THEN [sized EXCEPT !.le0[parent + 1].son = start, !.le0[parent + 1].sons = n]
     ELSE [sized EXCEPT !.ge1[parent + 1].son = start, !.ge1[parent + 1].sons = n]

\* The next son: its node, its homophones, and the lemmas that go on below it.
ConstructSon(b, ls) ==
  LET son == Head(b.todo)
      homos == HomosOf(ls, son, son.level)
      node == [BlankNode EXCEPT !.spl = ls[son.first].ids[son.level + 1],
                                !.homo = Len(b.homos), !.homos = homos]
      laid == [(IF son.level = 0 THEN [b EXCEPT !.le0[son.off + 1] = node]
                ELSE [b EXCEPT !.ge1[son.off + 1] = node])
               EXCEPT !.homos = @ \o [k \in 1..homos |-> ls[son.first + k - 1].id],
                      !.todo = Tail(@)]
  IN IF b.todo = <<>> THEN b
     ELSE IF son.last - son.first + 1 > homos
     THEN ConstructSubset(laid, ls, son.first + homos, son.last, son.level + 1, son.off)
     ELSE laid

\* Every spelling of a lemma makes at most one son.
ConstructAll(ls) ==
  FoldLeft(LAMBDA b, k : ConstructSon(b, ls),
           ConstructSubset([le0 |-> <<BlankNode>>, ge1 |-> <<>>, homos |-> <<>>, todo |-> <<>>],
                           ls, 1, Len(ls), 0, 0),
           [k \in 1..Len(ls) * kMaxLemmaSize |-> k])

\* The lemma trie with the index load_dict gives it; byHz are the lemmas in the order of
\* their ids, byPy the same in the order of their spellings.
TrieOf(t, list, byHz, byPy) ==
  LET top == GetTopLemmas(byPy)
  IN CHOOSE d \in
       {[t |-> t, list |-> list, le0 |-> b.le0, ge1 |-> b.ge1,
         lmaIdx |-> b.homos \o [k \in DOMAIN top |-> top[k].id],
         topNum |-> Len(top),
         index |-> LoadIndex(t, b.le0),
         psb |-> [i \in DOMAIN byHz |-> Psb(byHz[i].freq)]] :
           b \in {ConstructAll(byPy)}} : TRUE

\* build_dict, save_dict and load_dict, from the sorted spellings and the lemmas read; all
\* letters are enabled in ShouZiMu mode.
BuiltFrom(spl, ls) ==
  CHOOSE r \in UNION
    {UNION {{[ok |-> SpellingsParse(t, ls) /\ list.ok, lemmas |-> byHz,
              dict |-> TrieOf(t, list, byHz, SortBy(byHz, PyBefore))] :
               list \in {InitList(BuildScis(t, byHz), [i \in DOMAIN byHz |-> byHz[i].word])}} :
              byHz \in {SortLemmasByHz(WithSplIds(t, ls))}} :
       t \in {Construct(spl, SzmChars)}} : TRUE
=============================================================================
