---------------------------- MODULE MatrixDecode ----------------------------
(***************************************************************************)
(* The decoding of MatrixSearch: the matrix with one row for every letter, *)
(* the pool of its nodes, the pool of dictionary match infos (dmi) and the *)
(* extending of both by a letter.  The operators work on the image s of a  *)
(* MatrixSearch object and what it uses, with the fields                   *)
(*   pys, dec          the string typed and how much of it is decoded      *)
(*   nd, dmi           the used parts of the two pools                     *)
(*   rows              the rows from 0 on that were ever written; blank is *)
(*                     mtrx_nd_fixed of the others                         *)
(*   splStart, splId, splNum, lmaStart, lmaId, lmaNum                      *)
(*                     the segmentation of the best sentence; behind their *)
(*                     numbers the arrays keep what they held before       *)
(*   fixHz, fixLma, no1   how much of it the user fixed                    *)
(*   c, cMode          the composing phrase, and dmi_c_phrase_             *)
(*   lpi               the first lpi_total_ of lpi_items_                  *)
(*   ms                mile stones of the system dictionary                *)
(*   cache             the LpiCache                                        *)
(*   dict              the system dictionary, never changed                *)
(*   user              the user dictionary: [id, spell, word] in the order *)
(*                     of its index                                        *)
(*   dead              the place of the assertion that failed, "" if none  *)
(* Positions count from 0; NoPos is -1 or NULL, Garbage never initialized. *)
(* Scores are whole numbers; no two lemmas of the dictionary have the same.*)
(***************************************************************************)
EXTENDS DictTrie, LpiCache, UserDictLemma

CONSTANTS
  Dict,                \* the system dictionary
  kMaxRowNum, kMaxNodeARow, kMtrxNdPoolSize, kDmiPoolSize, kMaxPinyinSize, kMaxLmaPsbItems,
  PRUMING_SCORE,
  kUserDictIdStart, kLemmaIdComposing,
  UserPsb              \* the score of every user lemma

\* The limits of the two pools and of a row, as the code defines them.
ASSUME MatrixAssumption ==
  /\ kMaxNodeARow \in Nat \ {0} /\ kMtrxNdPoolSize \in Nat /\ kMaxNodeARow < kMtrxNdPoolSize
  /\ PRUMING_SCORE \in Nat

NoPos == -1
Garbage == -2

At(seq, i) == seq[i + 1]
\* An element that may never have been written.
Read(seq, i) == IF i < Len(seq) THEN At(seq, i) ELSE Garbage
\* An array written at i: what lies between its end and i was never written.
Overlay(seq, i, new) ==
  [j \in 1..Max({Len(seq), i + Len(new)}) |->
     IF j > i /\ j <= i + Len(new) THEN new[j - i]
     ELSE IF j <= Len(seq) THEN seq[j] ELSE Garbage]
PutAt(seq, i, v) == Overlay(seq, i, <<v>>)
Upto(n) == [i \in 1..n |-> i]

Dead(s) == s.dead # ""
Die(s, where) == IF Dead(s) THEN s ELSE [s EXCEPT !.dead = where]

---------------------------------------------------------------------------
\* The user dictionary, as far as the decoder calls it.

\* The query for ids typed, of which half ids stand for several full ids.
QueryFor(t, ids) ==
  PrepareLocate([k \in DOMAIN ids |->
                   LET r == FullRange(t, ids[k]) IN r.start..r.start + r.num - 1])

\* _get_lpis: the lemmas of the ids, and whether one met on the way goes on behind them.
UserLpis(s, ids) ==
  LET Compare(q, i) == FuzzyCompare(s.user[i].spell, Len(s.user[i].spell), q)
      Visited(q, first) ==
        IF first = 0 THEN <<>>
        ELSE LET other == {i \in first..Len(s.user) : Compare(q, i) # 0}
             IN SubSeq(s.user, first, Min({Len(s.user)} \cup other))
      Item(e) == [id |-> e.id, psb |-> UserPsb, len |-> Len(ids)]
  IN CHOOSE r \in UNION {UNION
       {{[found |-> [i \in DOMAIN hits |-> Item(hits[i])],
          need |-> \E i \in DOMAIN visited : IsPrefixSpell(visited[i].spell, q)] :
           hits \in {SelectSeq(visited, LAMBDA e : EqualSpell(e.spell, Len(e.spell), q))}} :
          visited \in {Visited(q, Bisect(Len(s.user), {i \in DOMAIN s.user : Compare(q, i) < 0},
                          {i \in DOMAIN s.user : IsFuzzyPrefix(s.user[i].spell, q)}))}} :
         q \in {QueryFor(s.dict.t, ids)}} : TRUE

\* put_lemma: a new lemma goes before the first that does not compare below it.
PutUser(user, word, spell) ==
  LET q == SearchFor(spell)
      notBelow == {i \in DOMAIN user : FuzzyCompare(user[i].spell, Len(user[i].spell), q) >= 0}
  IN IF \E i \in DOMAIN user : user[i].word = word /\ user[i].spell = spell THEN user
     ELSE InsertAt(user, Min(notBelow \cup {Len(user) + 1}),
                   [id |-> kUserDictIdStart + Len(user), spell |-> spell, word |-> word])

IsSystemLemma(id) == id \in 1..kUserDictIdStart - 1
IsUserLemma(id) == id >= kUserDictIdStart /\ id < kLemmaIdComposing

UserLemma(s, id) == CHOOSE e \in ToSet(s.user) : e.id = id

\* get_lemma_str, into a buffer of max characters.
LemmaStr(s, id, max) ==
  IF IsSystemLemma(id) THEN GetLemmaStr(s.dict.list, id, max)
  ELSE IF id = 0 THEN <<>>
  ELSE LET word == IF IsUserLemma(id) THEN UserLemma(s, id).word
                   ELSE SubSeq(s.c.chn, 1, At(s.c.sub, s.c.num))
       IN SubSeq(word, 1, Min({Len(word), max - 1}))

---------------------------------------------------------------------------
\* Rows, nodes and dmis.

Row(s, r) == s.rows[r + 1]
Node(s, p) == s.nd[p + 1]
Dmi(s, p) == s.dmi[p + 1]

FixedOf(s, r) == IF r < Len(s.rows) THEN Row(s, r).fixed ELSE s.blank

EndOfNodes(s, r) == Row(s, r).ndPos + Row(s, r).ndNum
EndOfDmis(s, r) == Row(s, r).dmiPos + Row(s, r).dmiNum

\* Where the part the user has not fixed begins.
FixedStart(s) == At(s.splStart, s.fixHz)

\* prepare_add_char: 0 is the splitter, 1 any other character that is no letter.
CanAdd(s, ch) == s.dec < kMaxRowNum - 1 /\ (IsLetter(ch) \/ ch = 0) /\ Len(s.dmi) < kDmiPoolSize

\* What was in mtrx_nd_fixed stays there.
PrepareAddChar(s, ch) ==
  [s EXCEPT !.pys = PutAt(@, s.dec, ch),
            !.dec = @ + 1,
            !.rows = PutAt(@, s.dec + 1, [ndPos |-> Len(s.nd), ndNum |-> 0, dmiPos |-> Len(s.dmi),
                                          dmiNum |-> 0, full |-> FALSE,
                                          fixed |-> FixedOf(s, s.dec + 1)])]

\* The dmis from the root to one, and the spelling ids they were extended by.
Chain(s, p) ==
  IF p = NoPos THEN <<>>
  ELSE LET n == Dmi(s, p).level
           up[k \in 1..n] == IF k = n THEN p ELSE Dmi(s, up[k + 1]).fr
       IN [k \in 1..n |-> up[k]]

SplIdsOf(s, p) == LET ps == Chain(s, p) IN [k \in DOMAIN ps |-> Dmi(s, ps[k]).spl]

\* fill_dmi: the dmi that goes on from p (NoPos: from the root) by ext letters.
NewDmi(s, p, splid, ext, sys, usr) ==
  [h0 |-> sys, h1 |-> usr, fr |-> p, spl |-> splid, c |-> s.cMode,
   level |-> 1 + (IF p = NoPos THEN 0 ELSE Dmi(s, p).level),
   len |-> ext + (IF p = NoPos THEN 0 ELSE Dmi(s, p).len)]

\* qsort with cmp_lpi_with_psb
SortByPsb(lpis) == SortSeq(lpis, LAMBDA a, b : a.psb < b.psb)

\* extend_dmi_c: the ids of the composing phrase, and nothing else; its handles are never set.
ExtendDmiC(s, p, ids, ext) ==
  LET pos == Len(ids)
  IN IF pos > s.c.length \/ Last(ids) # s.c.splIds[pos] THEN [s EXCEPT !.lpi = <<>>]
     ELSE [s EXCEPT !.dmi = Append(@, NewDmi(s, p, Last(ids), ext, 0, 0)),
                    !.lpi = IF pos = s.c.length
                            THEN <<[id |-> kLemmaIdComposing, psb |-> 0, len |-> 0]>> ELSE <<>>]

\* extend_dmi: the ids of p and one more, in both dictionaries.  A pool that is full leaves
\* lpi_total_ as it was.
ExtendDmi(s, p, ids, ext) ==
  LET root == p = NoPos
      splid == Last(ids)
      range == FullRange(s.dict.t, splid)
      cached == root /\ IsCached(s.cache, splid)
      from0 == IF root THEN 0 ELSE Dmi(s, p).h0
      from1 == IF root THEN 0 ELSE Dmi(s, p).h1
  IN IF Len(s.dmi) >= kDmiPoolSize THEN s
     ELSE IF s.cMode THEN ExtendDmiC(s, p, ids, ext)
     ELSE CHOOSE r \in
       {LET both == (IF sys.handle > 0 THEN sys.lpis ELSE <<>>) \o usr.found
            h1 == IF usr.found # <<>> \/ usr.need THEN 1 ELSE 0
            sorted == SortByPsb(both)
            keep == ~cached /\ both # <<>> /\ root /\ IsHalfId(splid)
            cache == IF keep THEN PutCache(s.cache, splid, sorted) ELSE s.cache
        IN IF ~sys.ok THEN Die(s, "extend_dict0 sons in range")
           ELSE IF root /\ sys.handle = 0 THEN Die(s, "extend_dmi 0 != handles[0]")
           ELSE [s EXCEPT !.ms = sys.ms,
                          !.dmi = IF sys.handle = 0 /\ h1 = 0 THEN @
                                  ELSE Append(@, NewDmi(s, p, splid, ext, sys.handle, h1)),
                          !.cache = cache,
                          !.lpi = IF cached \/ keep THEN GetCache(cache, splid, kMaxLmaPsbItems)
                                  ELSE sorted] :
          sys \in {IF root \/ from0 > 0
                   THEN ExtendDict(s.dict, s.ms, from0, Len(ids) - 1, splid, range.start, range.num,
                                   cached, kMaxLmaPsbItems)
                   ELSE [ms |-> s.ms, handle |-> 0, lpis |-> <<>>, ok |-> TRUE]},
          usr \in {IF root \/ from1 > 0 THEN UserLpis(s, ids)
                   ELSE [found |-> <<>>, need |-> FALSE]}} : TRUE

\* Mutant: a row keeps every node.
InsertNodeAlways(nodes, node, ndPos) ==
  InsertAt(nodes, Cardinality({i \in DOMAIN nodes : nodes[i].score <= node.score}) + 1, node)

\* Mutant: a node goes behind all others.
InsertNodeLast(nodes, node, ndPos) ==
  IF Len(nodes) >= kMaxNodeARow \/ ndPos + Len(nodes) >= kMtrxNdPoolSize THEN nodes
  ELSE Append(nodes, node)

\* A node goes behind those that score no worse, and a row keeps the best.
InsertNode(nodes, node, ndPos) ==
  LET place == Cardinality({i \in DOMAIN nodes : nodes[i].score <= node.score}) + 1
      longer == InsertAt(nodes, place, node)
  IN IF place > Len(nodes) /\ (Len(nodes) >= kMaxNodeARow \/ ndPos + Len(nodes) >= kMtrxNdPoolSize)
     THEN nodes
     ELSE SubSeq(longer, 1, Min({kMaxNodeARow, Len(longer)}))

\* The node of a lemma behind the node at p.
NodeFor(s, p, lpi, dmiFr, row) ==
  [id |-> lpi.id, score |-> Node(s, p).score + lpi.psb, from |-> p, dmi |-> dmiFr, step |-> row]

\* The turn of lemma k: the first that is far worse than the best of the row ends the loop.
NodeTurn(w, node, k, pos) ==
  IF w.stop \/ (k > 1 /\ node.score - PRUMING_SCORE > w.nodes[1].score)
  THEN [w EXCEPT !.stop = TRUE]
  ELSE [w EXCEPT !.nodes = InsertNode(@, node, pos)]

\* extend_mtrx_nd: from the node at p, by the lemmas, to a row.  used is what
\* mtrx_nd_pool_used_ says, which an unfinished row is not yet part of.
ExtendMtrxNd(s, p, lpis, dmiFr, row, used) ==
  LET pos == Row(s, row).ndPos
      n == IF Node(s, p).step = 0 THEN Min({kMaxNodeARow, Len(lpis)}) ELSE Len(lpis)
      after[k \in 0..n] ==
        IF k = 0
        THEN [nodes |-> SubSeq(s.nd, pos + 1, EndOfNodes(s, row)), stop |-> FALSE]
        ELSE NodeTurn(after[k - 1], NodeFor(s, p, lpis[k], dmiFr, row), k, pos)
      unfixed == [s EXCEPT !.rows[row + 1].fixed = NoPos]
  IN IF used >= kMtrxNdPoolSize - kMaxNodeARow THEN unfixed
     ELSE LET nodes == after[n].nodes
          IN [unfixed EXCEPT !.nd = SubSeq(@, 1, pos) \o nodes, !.rows[row + 1].ndNum = Len(nodes)]

---------------------------------------------------------------------------
\* add_char_qwerty.  a is [s, longest, matched, stop].

\* Mutant: a dmi may reach into the fixed part.
MayExtendFixed(a, p, old, ext) ==
  LET s == a.s
  IN IF p = NoPos THEN a.longest > ext => Row(s, old).full
     ELSE /\ Dmi(s, p).c => s.cMode
          /\ a.longest > ext => ~IsHalfId(Dmi(s, p).spl)
          /\ Dmi(s, p).level < (IF s.cMode THEN kMaxRowNum ELSE kMaxLemmaSize)

\* Whether a dmi of the old row (NoPos: the root) may be extended by ext letters: not if it
\* reaches into the fixed part, was made for a composing phrase, would split what a longer
\* spelling took ("g ao", "z h"), or is as long as a lemma may be.
MayExtend(a, p, old, ext) ==
  LET s == a.s
  IN IF p = NoPos THEN a.longest > ext => Row(s, old).full
     ELSE /\ s.fixHz > 0 => old - Dmi(s, p).len >= FixedStart(s)
          /\ Dmi(s, p).c => s.cMode
          /\ a.longest > ext => ~IsHalfId(Dmi(s, p).spl)
          /\ Dmi(s, p).level < (IF s.cMode THEN kMaxRowNum ELSE kMaxLemmaSize)

\* Mutant: the row where the dmi ends.
EndRow(s, p, old) == old

\* The row where the spellings of a dmi of the old row begin.
StartRow(s, p, old) == IF p = NoPos THEN old ELSE old - Dmi(s, p).len

\* One dmi is extended by splid, and the paths that end where it began by its lemmas.
ExtendFrom(a, p, splid, ext) ==
  LET s == a.s
      old == s.dec - ext
      fr == StartRow(s, p, old)
  IN IF Dead(s) \/ ~MayExtend(a, p, old, ext) THEN a
     ELSE CHOOSE b \in
       {LET new == Len(e.dmi) - Len(s.dmi)
            s1 == [e EXCEPT !.rows[s.dec + 1].dmiNum = @ + new,
                            !.rows[s.dec + 1].full = @ \/ (new > 0 /\ ~IsHalfId(splid))]
            n == IF e.lpi = <<>> THEN 0 ELSE Row(s, fr).ndNum
            Turn(s2, k) == ExtendMtrxNd(s2, Row(s, fr).ndPos + k - 1, e.lpi, Len(s.dmi), s.dec,
                                        Row(s, s.dec).ndPos)
        IN IF Dead(e) THEN [a EXCEPT !.s = e]
           ELSE [a EXCEPT !.s = FoldLeft(Turn, s1, Upto(n)),
                          !.longest = IF @ = 0 /\ n > 0 THEN ext ELSE @] :
          e \in {ExtendDmi(s, p, Append(SplIdsOf(s, p), splid), ext)}} : TRUE

\* The last ext letters are taken for one spelling: a full one below a path that ended in half
\* ids only ends the search.
ExtendLen(a, ext) ==
  LET s == a.s
      old == s.dec - ext
      str == SubSeq(s.pys, old + 1, s.dec)
  IN IF Dead(s) \/ a.stop \/ old < FixedStart(s) THEN a
     ELSE IF ext > 1 /\ a.longest # 0 /\ ~Row(s, old).full THEN [a EXCEPT !.stop = TRUE]
     ELSE IF Row(s, old).ndNum = 0 /\ ~s.cMode THEN a
     ELSE LET splid == SplidByStr(s.dict.t, str)
              a1 == [a EXCEPT !.matched = @ \/ SplstrToIdxs(s.dict.t, str, 2).pre]
              n == Row(s, old).dmiNum
              from(k) == IF k > n THEN NoPos ELSE Row(s, old).dmiPos + k - 1
          IN IF splid = 0 THEN a1
             ELSE FoldLeft(LAMBDA b, k : ExtendFrom(b, from(k), splid, ext), a1, Upto(n + 1))

\* add_char: a letter that leaves no path and begins no spelling is refused; its row is left.
AddChar(s, ch) ==
  IF Dead(s) \/ ~CanAdd(s, ch) THEN [s |-> s, ok |-> FALSE]
  ELSE CHOOSE r \in
    {[s |-> a.s, ok |-> a.s.cMode \/ Row(a.s, a.s.dec).ndNum # 0 \/ a.matched] :
       a \in {FoldLeft(LAMBDA b, k : ExtendLen(b, kMaxPinyinSize + 2 - k),
                       [s |-> PrepareAddChar(s, ch), longest |-> 0, matched |-> FALSE,
                        stop |-> FALSE], Upto(kMaxPinyinSize + 1))}} : TRUE

\* The letters typed from one place on, until one is refused.
DecodeRest(s, from) ==
  FoldLeft(LAMBDA w, p :
             IF w.stop THEN w
             ELSE CHOOSE v \in {[s |-> IF r.ok THEN r.s ELSE [r.s EXCEPT !.dec = p],
                                 stop |-> ~r.ok] :
                                  r \in {AddChar(w.s, At(w.s.pys, p))}} : TRUE,
           [s |-> s, stop |-> FALSE], [k \in 1..Max({0, Len(s.pys) - from}) |-> from + k - 1]).s

\* The letters from one place to before another, every one of which must be accepted.
Redecode(s, from, to, where) ==
  FoldLeft(LAMBDA t, p :
             IF Dead(t) THEN t
             ELSE CHOOSE v \in {IF r.ok THEN r.s ELSE Die(r.s, where) :
                                  r \in {AddChar(t, At(t.pys, p))}} : TRUE,
           s, [k \in 1..Max({0, to - from}) |-> from + k - 1])

---------------------------------------------------------------------------
\* get_spl_start_id

\* The nodes of the best path behind the fixed part, first to last.
BestPath(s, last) ==
  LET path[p \in 0..Len(s.nd) - 1] ==
        IF p = 0 \/ (s.fixHz > 0 /\ Node(s, p).step <= FixedStart(s)) THEN <<>>
        ELSE Append(path[Node(s, p).from], p)
  IN path[last]

\* Where the spellings of the lemma at a node end.
EndsOf(s, p) ==
  LET ps == Chain(s, Node(s, p).dmi)
  IN [k \in DOMAIN ps |-> Node(s, p).step - (Dmi(s, Last(ps)).len - Dmi(s, ps[k]).len)]

\* The last spelling boundary at which a node is fixed.
LastFixed(s) ==
  Max({0} \cup {i \in 1..s.splNum : FixedOf(s, At(s.splStart, i)) # NoPos})

Segmented(s) ==
  LET path == BestPath(s, Row(s, s.dec).ndPos)
      ids == FlattenSeq([k \in DOMAIN path |-> SplIdsOf(s, Node(s, path[k]).dmi)])
      ends == FlattenSeq([k \in DOMAIN path |-> EndsOf(s, path[k])])
      base == IF s.fixLma = 0 THEN 0 ELSE At(s.lmaStart, s.fixLma)
      sum[k \in 0..Len(path)] ==
        IF k = 0 THEN base
        ELSE sum[k - 1] + Len(Chain(s, Node(s, path[k]).dmi))
             + (IF k = Len(path) THEN s.fixHz - base ELSE 0)
  IN [s EXCEPT !.splStart = Overlay(@, s.fixHz + 1, ends),
               !.splId = Overlay(@, s.fixHz, ids),
               !.splNum = s.fixHz + Len(ids),
               !.lmaStart = Overlay(PutAt(@, 0, 0), s.fixLma + 1, [k \in DOMAIN path |-> sum[k]]),
               !.lmaId = Overlay(@, s.fixLma, [k \in DOMAIN path |-> Node(s, path[k]).id]),
               !.lmaNum = s.fixLma + Len(path)]

GetSplStartId(s) ==
  IF Dead(s) THEN s
  ELSE IF s.dec = 0 \/ Row(s, s.dec).ndNum = 0
    THEN [s EXCEPT !.splNum = 0, !.lmaNum = 0, !.splStart = PutAt(@, 0, 0),
                   !.lmaStart = PutAt(@, 0, 0)]
  ELSE CHOOSE r \in
    {IF \E i \in LastFixed(t)..t.splNum : FixedOf(t, At(t.splStart, i)) = Garbage
     THEN Die(t, "uninitialized mtrx_nd_fixed")
     ELSE [t EXCEPT !.fixHz = LastFixed(t)] : t \in {Segmented(s)}} : TRUE
=============================================================================
