---------------------------- MODULE MatrixSearch ----------------------------
(***************************************************************************)
(* The operations of MatrixSearch on its image im: searching a string,     *)
(* deleting from it, fixing candidates, taking a choice back, predicting.  *)
(* A client calls one after the other; a failing assertion ends the        *)
(* process, here im.dead.                                                  *)
(***************************************************************************)
EXTENDS MatrixDecode

CONSTANTS
  InitialUser,         \* the user dictionary loaded
  Strings,             \* the strings a client searches
  MaxSplNum,           \* the most spellings search leaves in a string
  Blank,               \* what mtrx_nd_fixed of a row never written holds: NoPos or Garbage
  MaxCalls             \* bound on the calls of a client

ASSUME SearchAssumption ==
  /\ \A py \in Strings : py \in Seq(Nat) /\ Len(py) < kMaxRowNum
  /\ MaxSplNum \in Nat /\ MaxCalls \in Nat
  /\ \A i \in DOMAIN InitialUser : InitialUser[i].id \in
                                    kUserDictIdStart..kUserDictIdStart + Len(InitialUser) - 1
  /\ Blank \in {NoPos, Garbage}

VARIABLES
  im,
  followed,            \* history: no call relied on an outdated segmentation, see Stale
  calls
vars == <<im, followed, calls>>

---------------------------------------------------------------------------
\* Candidates.

\* The ids of the nodes from the start to p.
RECURSIVE PathIds(_, _)
PathIds(m, p) == IF p = NoPos THEN <<>> ELSE Append(PathIds(m, Node(m, p).from), Node(m, p).id)

\* get_candidate0 into a buffer of max characters, of which the fixed ones are not written if
\* skip is fixed_hzs_ and not 0.  len is what it returns before the fixed ones are taken off.
Sentence(m, max, skip) ==
  LET Turn(w, id) ==
        CHOOSE v \in
          {IF w.failed \/ id = 0 THEN w
           ELSE IF str = <<>> \/ max - Len(w.all) + skip <= Len(str) THEN [w EXCEPT !.failed = TRUE]
           ELSE [w EXCEPT !.all = @ \o str,
                          !.text = IF Len(w.all) >= skip THEN @ \o str ELSE @] :
             str \in {LemmaStr(m, id, kMaxLemmaSize + 1)}} : TRUE
      start == [all |-> <<>>, text |-> <<>>, failed |-> FALSE]
  IN IF m.dec = 0 \/ Row(m, m.dec).ndNum = 0 THEN [start EXCEPT !.failed = TRUE]
     ELSE FoldLeft(Turn, start, PathIds(m, Row(m, m.dec).ndPos))

\* get_candidate_num
CandidateNum(m) ==
  IF m.dec = 0 \/ Row(m, m.dec).ndNum = 0 THEN 0 ELSE 1 + Len(m.lpi)

\* qsort with cmp_lpsi_with_str or cmp_lpi_with_hanzi: a merge sort, which keeps the order of
\* equal items.
SortByStr(items) ==
  LET order == SetToSortSeq(DOMAIN items,
                            LAMBDA a, b : \/ WordLess(items[a].str, items[b].str)
                                          \/ items[a].str = items[b].str /\ a < b)
  IN [k \in DOMAIN items |-> items[order[k]]]

\* Mutant: only the sentence is compared with.
RepeatsStay(items, fullsent) == SelectSeq(items, LAMBDA item : item.str # fullsent)

\* The sorted items without the sentence and without repeats.  An item is compared with the one
\* before it, kept or not; if it is better, it replaces the last one kept.
WithoutRepeats(items, fullsent) ==
  LET Turn(kept, k) ==
        LET repeats == k > 1 /\ items[k - 1].str = items[k].str
        IN IF \/ items[k].str = fullsent
              \/ repeats /\ items[k].psb >= items[k - 1].psb THEN kept
           ELSE IF repeats THEN [kept EXCEPT ![Len(kept)] = items[k]]
           ELSE Append(kept, items[k])
  IN FoldLeft(Turn, <<>>, Upto(Len(items)))

\* get_lpis: the lemmas of the ids in both dictionaries, at most room; those of several
\* characters must fit a second time behind themselves, with their strings.
GetLpis(m, ids, room, fullsent, sortByPsb) ==
  CHOOSE r \in
    {LET n == IF Len(ids) > 1 THEN Min({Len(all), ((room - Len(all)) * 8) \div 28}) ELSE Len(all)
         named == [k \in 1..n |-> [id |-> all[k].id, psb |-> all[k].psb, len |-> all[k].len,
                                   str |-> LemmaStr(m, all[k].id, kMaxLemmaSize + 1)]]
         left == WithoutRepeats(SortByStr(named), fullsent)
         kept == [k \in DOMAIN left |-> [id |-> left[k].id, psb |-> left[k].psb,
                                         len |-> left[k].len]]
     IN IF sortByPsb THEN SortByPsb(kept) ELSE kept :
       all \in {SubSeq(both, 1, Min({room, Len(both)})) :
                  both \in {TrieLpis(m.dict, ids, room) \o UserLpis(m, ids).found}}} : TRUE

\* qsort with cmp_lpi_with_unified_psb
SortByUnifiedPsb(lpis) == SortSeq(lpis, LAMBDA a, b : a.psb * b.len < b.psb * a.len)

\* The sentence no lemma is compared with.
NoText == <<NoPos>>

\* prepare_candidates: the longest lemmas first, then all shorter ones.  When the last letter
\* has no node there are no spellings, and nothing of what is then looked up is a candidate.
PrepareCandidates(m) ==
  LET n == Min({kMaxLemmaSize, m.splNum - m.fixHz})
      sent == Sentence(m, kMaxLemmaSize + 1, m.fixHz)
      len == Len(sent.all) - m.fixHz
      full == IF sent.failed \/ len < 0 \/ len > kMaxLemmaSize THEN NoText ELSE sent.text
      ids(size) == SubSeq(m.splId, m.fixHz + 1, m.fixHz + size)
      Turn(w, k) ==
        CHOOSE v \in
          {[first |-> IF k = 1 THEN g ELSE w.first,
            rest |-> IF k = 1 THEN <<>> ELSE w.rest \o g,
            full |-> IF g = <<>> THEN w.full ELSE NoText] :
             g \in {GetLpis(m, ids(n + 1 - k), kMaxLmaPsbItems - Len(w.first) - Len(w.rest),
                            w.full, k = 1)}} : TRUE
  IN IF Dead(m) THEN m
     ELSE IF m.fixHz > m.splNum THEN [m EXCEPT !.lpi = <<>>]
     ELSE CHOOSE r \in
       {[m EXCEPT !.lpi = w.first \o SortByUnifiedPsb(w.rest)] :
          w \in {FoldLeft(Turn, [first |-> <<>>, rest |-> <<>>, full |-> full], Upto(n))}} : TRUE

---------------------------------------------------------------------------
\* Resetting.

ZeroRow == [ndPos |-> 0, ndNum |-> 0, dmiPos |-> 0, dmiNum |-> 0, full |-> FALSE, fixed |-> NoPos]
StartNode == [id |-> 0, score |-> 0, from |-> NoPos, dmi |-> NoPos, step |-> 0]

\* reset_search0
Reset0(m) ==
  [m EXCEPT !.dec = 0, !.nd = <<StartNode>>, !.dmi = <<>>,
            !.rows = PutAt(@, 0, [ZeroRow EXCEPT !.ndNum = 1, !.full = TRUE, !.fixed = 0]),
            !.lmaStart = PutAt(@, 0, 0), !.splStart = PutAt(@, 0, 0),
            !.fixLma = 0, !.fixHz = 0, !.ms = NoMileStones]

\* Mutant: those of the row itself go, too.
ForgetRow(m, r) ==
  IF m.dec > r /\ Row(m, r).dmiNum > 0
  THEN [m EXCEPT !.ms = ResetMilestones(@, r, Dmi(m, Row(m, r).dmiPos).h0)]
  ELSE m

\* The mile stones made behind row r are given up, those of the next row's first dmi on.
ForgetBehind(m, r) ==
  IF m.dec > r /\ Row(m, r + 1).dmiNum > 0
  THEN [m EXCEPT !.ms = ResetMilestones(@, r, Dmi(m, Row(m, r + 1).dmiPos).h0)]
  ELSE m

\* The pools end with row r; clear: without its nodes.
CutTo(m, r, clear) ==
  [m EXCEPT !.dec = r,
            !.dmi = SubSeq(@, 1, EndOfDmis(m, r)),
            !.nd = SubSeq(@, 1, EndOfNodes(m, IF clear THEN r - 1 ELSE r)),
            !.rows[r + 1].ndNum = IF clear THEN 0 ELSE @]

\* The composing phrase is decoded, and fixed as the first lemma.
FixPhrase(m, len, where) ==
  CHOOSE r \in
    {IF Dead(t) THEN t
     ELSE LET to == At(t.splStart, t.c.length)
          IN [t EXCEPT !.cMode = FALSE, !.lmaNum = 1, !.fixLma = 1, !.no1 = PutAt(@, 0, 0),
                       !.fixHz = t.c.length, !.lmaStart = PutAt(@, 1, t.c.length),
                       !.lmaId = PutAt(@, 0, kLemmaIdComposing),
                       !.rows[to + 1].fixed = Row(t, to).ndPos] :
       t \in {Redecode([Reset0(m) EXCEPT !.cMode = TRUE], 0, len, where)}} : TRUE

\* The composing phrase loses what is behind a letter in its string.
CutPhrase(c, ch) ==
  LET at == {<<sub, spl>> \in (0..c.num - 1) \X (0..c.length - 1) :
               /\ At(c.sub, sub) <= spl /\ spl < At(c.sub, sub + 1)
               /\ At(c.splStart, spl) <= ch /\ ch < At(c.splStart, spl + 1)}
      sub == (CHOOSE x \in at : TRUE)[1]
      spl == (CHOOSE x \in at : TRUE)[2]
  IN IF at = {} THEN c
     ELSE [c EXCEPT !.chn = SubSeq(@, 1, spl), !.sub = PutAt(@, sub + 1, spl), !.length = spl,
                    !.num = IF spl = At(c.sub, sub) THEN sub ELSE sub + 1]

\* What is fixed up to a place stays so; the letters from there on are decoded again.
FixUpTo(m, ch, clearFixed, clearMtrx) ==
  LET f0 == IF clearFixed THEN ch - 1 ELSE ch
      f == Max({0} \cup {r \in 0..f0 : Row(m, r).fixed # NoPos})
      reach(starts, place) == {i \in 0..Len(starts) - 1 : At(starts, i) >= place}
      hz == Min(reach(m.splStart, f))
      lma == Min(reach(m.lmaStart, hz))
  IN IF Row(m, f).fixed = Garbage THEN Die(m, "uninitialized mtrx_nd_fixed")
     ELSE IF reach(m.splStart, f) = {} \/ At(m.splStart, hz) # f
       THEN Die(m, "reset_search spl_start_")
     ELSE IF reach(m.lmaStart, hz) = {} \/ At(m.lmaStart, lma) # hz
       THEN Die(m, "reset_search lma_start_")
     ELSE FoldLeft(LAMBDA t, p : AddChar(t, At(m.pys, p)).s,
                   CutTo(ForgetBehind([m EXCEPT !.fixHz = hz, !.fixLma = lma], f),
                         f, clearMtrx /\ f = ch),
                   [k \in 1..ch - f |-> f + k - 1])

\* reset_search(ch_pos, clear_fixed_this_step, false, clear_mtrx_this_step); no caller clears
\* dmis.
Reset(m, ch, clearFixed, clearMtrx) ==
  LET phrase == At(m.lmaId, 0) = kLemmaIdComposing
      t == CutTo(ForgetBehind(m, ch), ch, clearMtrx)
      cut == [t EXCEPT !.c = CutPhrase(@, ch)]
  IN IF ch > m.dec \/ ch >= kMaxRowNum THEN m
     ELSE IF ch = 0 THEN Reset0(m)
     ELSE IF m.fixHz = 0 THEN t
     ELSE IF ~phrase \/ At(m.splStart, m.c.length) <= ch THEN FixUpTo(t, ch, clearFixed, clearMtrx)
     ELSE FixPhrase(cut, At(m.splStart, cut.c.length), "reset_search add_char")

---------------------------------------------------------------------------
\* search

\* A string of too many spellings loses letters until it has few enough.
RECURSIVE Shorten(_, _)
Shorten(m, len) ==
  IF Dead(m) \/ m.splNum <= MaxSplNum THEN m
  ELSE Shorten(GetSplStartId([Reset(m, len - 1, FALSE, FALSE) EXCEPT
                                !.pys = SubSeq(@, 1, len - 1)]), len - 1)

\* Mutant: the end of the new string is no difference.
SameUpToEnd(m, py) ==
  Min({i \in 0..Min({m.dec, Len(py)}) - 1 : At(py, i) # At(m.pys, i)} \cup {m.dec})

\* How much of what is decoded is in the new string.
SameUpTo(m, py) ==
  Min({i \in 0..m.dec - 1 : i >= Len(py) \/ At(py, i) # At(m.pys, i)} \cup {m.dec})

Search(m, py) ==
  LET ch == SameUpTo(m, py)
  IN CHOOSE r \in UNION
       {{PrepareCandidates(Shorten(GetSplStartId(u), Len(py))) :
           u \in {DecodeRest([t EXCEPT !.pys = py], ch)}} :
          t \in {Reset(m, ch, ch # m.dec, FALSE)}} : TRUE

---------------------------------------------------------------------------
\* delsearch

\* del_in_pys
DelInPys(pys, start, len) == SubSeq(pys, 1, start) \o SubSeq(pys, start + len + 1, Len(pys))

\* The new sub lemmas of the phrase: those fixed behind it, or all when there is no phrase.
Merged(m, pos) ==
  LET bp == IF At(m.lmaId, 0) = kLemmaIdComposing THEN 1 ELSE 0
      c == IF bp = 1 THEN m.c ELSE [m.c EXCEPT !.num = 0]
      start(p) == At(m.lmaStart, p) - (IF At(m.lmaStart, p) > pos THEN 1 ELSE 0)
      subs == [k \in 1..m.fixLma - bp + 1 |-> start(bp + k - 1)]
      strs == [k \in 1..m.fixLma - bp |-> LemmaStr(m, At(m.lmaId, bp + k - 1), kMaxRowNum)]
      text == FlattenSeq(strs)
  IN [c |-> [c EXCEPT !.sub = Overlay(@, c.num, subs), !.num = c.num + m.fixLma - bp,
                      !.chn = Overlay(@, subs[1], text), !.length = Len(text)],
      ok |-> \A k \in DOMAIN strs :
               Len(strs[k]) = At(m.lmaStart, bp + k) - At(m.lmaStart, bp + k - 1)]

\* A sub lemma that lost its only character goes, those behind it move up.
WithoutEmptySub(c) ==
  LET empty == {p \in 1..c.num : At(c.sub, p - 1) = At(c.sub, p)}
  IN IF empty = {} THEN c
     ELSE [c EXCEPT !.num = @ - 1,
                    !.sub = [k \in DOMAIN @ |-> IF k >= Min(empty) /\ k <= c.num
                                                THEN c.sub[k + 1] ELSE c.sub[k]]]

\* Mutant: the characters behind it do not move up.
WithoutLast(c, pos) == [c EXCEPT !.length = @ - 1]

\* The phrase without its character at pos.
WithoutCharacter(c, pos) == [c EXCEPT !.chn = DelInPys(@, pos, 1), !.length = @ - 1]

\* merge_fixed_lmas: the spelling at pos goes from the segmentation, and its character from the
\* phrase all fixed lemmas become.
MergeFixedLmas(m, pos) ==
  LET len == At(m.splStart, pos + 1) - At(m.splStart, pos)
      n == m.splNum - 1
      starts == [k \in 1..n + 1 |-> IF k <= pos THEN m.splStart[k] ELSE m.splStart[k + 1] - len]
      ids == [k \in 1..n |-> IF k <= pos THEN m.splId[k] ELSE m.splId[k + 1]]
      t == [m EXCEPT !.splNum = n, !.splStart = Overlay(@, 0, starts), !.splId = Overlay(@, 0, ids),
                     !.c.splIds = Overlay(@, 0, ids), !.c.splStart = Overlay(@, 0, starts)]
      new == m.fixLma > 1 \/ At(m.lmaId, 0) # kLemmaIdComposing
      merged == IF new THEN Merged(t, pos)
                ELSE [ok |-> TRUE,
                      c |-> [t.c EXCEPT !.sub = [k \in DOMAIN @ |->
                        IF k <= t.c.num + 1 /\ @[k] > pos THEN @[k] - 1 ELSE @[k]]]]
      c == merged.c
      deleted == WithoutEmptySub(WithoutCharacter(c, pos))
  IN IF m.fixLma = 0 THEN m
     ELSE IF ~merged.ok THEN Die(t, "merge_fixed_lmas lma_len")
     ELSE IF new /\ c.length # At(t.lmaStart, t.fixLma) THEN Die(t, "merge_fixed_lmas phrase_len")
     ELSE IF c.length = 0 THEN Die(t, "merge_fixed_lmas empty")
     ELSE IF c.length = 1 THEN [t EXCEPT !.c = c, !.fixLma = 0]
     ELSE [t EXCEPT !.c = deleted]

\* What becomes of the fixed part: the letters of the phrase to decode again, or 0, and the
\* place the rest is decoded from.
DelPlan(m, pos, inIds, clearFixed) ==
  LET fixedEnd == At(m.splStart, At(m.lmaStart, m.fixLma))
      unlock == pos = fixedEnd /\ At(m.lmaId, 0) = kLemmaIdComposing /\ clearFixed
      lessSub == [m EXCEPT !.c.num = @ - 1, !.c.length = At(m.c.sub, m.c.num - 1)]
      len == At(m.splStart, pos + 1) - At(m.splStart, pos)
      behind == pos >= At(m.lmaStart, m.fixLma)
      keep == fixedEnd - len
  IN IF ~inIds /\ ~unlock
       THEN [s |-> [m EXCEPT !.pys = DelInPys(@, pos, 1)], phrase |-> 0, from |-> pos]
     ELSE IF ~inIds /\ m.c.num = 0
       THEN [s |-> Die(m, "delsearch sublma_num"), phrase |-> 0, from |-> 0]
     ELSE IF ~inIds
       THEN LET upto == At(m.splStart, lessSub.c.length)
            IN [s |-> [lessSub EXCEPT !.pys = DelInPys(@, pos, 1)], phrase |-> upto, from |-> upto]
     ELSE LET t == [m EXCEPT !.pys = DelInPys(@, At(m.splStart, pos), len)]
          IN IF behind THEN [s |-> t, phrase |-> 0, from |-> At(m.splStart, pos)]
             ELSE IF keep = 0 THEN [s |-> t, phrase |-> 0, from |-> 0]
             ELSE [s |-> MergeFixedLmas(t, pos), phrase |-> keep, from |-> keep]

PhraseFits(m, len) == m.c.length > 0 /\ len = At(m.c.splStart, At(m.c.sub, m.c.num))

\* delsearch: the letter or, inIds, the spelling at pos goes.
DelSearch(m, pos, inIds, clearFixed) ==
  LET undecoded == m.dec <= pos
      late == [s |-> [m EXCEPT !.pys = DelInPys(@, pos, 1)], phrase |-> 0, from |-> m.dec]
      Prepared(d) ==
        IF undecoded \/ Dead(d.s) THEN d.s
        ELSE IF d.phrase = 0 THEN Reset(d.s, d.from, clearFixed, FALSE)
        ELSE IF ~PhraseFits(d.s, d.phrase) THEN Die(d.s, "delsearch c_phrase_")
        ELSE FixPhrase(d.s, d.phrase, "delsearch add_char")
  IN IF \/ ~undecoded /\ inIds /\ m.splNum <= pos
        \/ /\ ~undecoded /\ ~inIds
           /\ m.fixLma > 0 /\ pos < At(m.splStart, At(m.lmaStart, m.fixLma)) THEN m
     ELSE CHOOSE r \in
       {PrepareCandidates(GetSplStartId(DecodeRest(Prepared(d), d.from))) :
          d \in {IF undecoded THEN late ELSE DelPlan(m, pos, inIds, clearFixed)}} : TRUE

---------------------------------------------------------------------------
\* choose

\* get_lemma_splids: ids that are all full stay as they are.  A phrase with half ids has none.
SplIdsOfLemma(m, id, given) ==
  IF \A k \in DOMAIN given : ~IsHalfId(given[k]) THEN given
  ELSE IF IsSystemLemma(id) THEN LemmaSplIds(m.dict, id, given)
  ELSE IF IsUserLemma(id) THEN UserLemma(m, id).spell
  ELSE <<>>

\* The characters of lemma p of the sentence, and the ids they were typed with.
LemmaLen(m, p) == At(m.lmaStart, p + 1) - At(m.lmaStart, p)

\* Mutant: the ids at the start.
FirstIds(m, p) == SubSeq(m.splId, 1, LemmaLen(m, p))
IdsTyped(m, p) == SubSeq(m.splId, At(m.lmaStart, p) + 1, At(m.lmaStart, p) + LemmaLen(m, p))

\* add_lma_to_userdict: lemmas from fr to before to become one user lemma.
AddLma(m, fr, to) ==
  LET part == [k \in 1..to - fr |-> fr + k - 1]
  IN IF to - fr <= 1 THEN m
     ELSE CHOOSE r \in
       {IF \E k \in DOMAIN part : \/ Len(strs[k]) # LemmaLen(m, part[k])
                                  \/ Len(ids[k]) # LemmaLen(m, part[k])
        THEN m
        ELSE IF Len(FlattenSeq(ids)) > kMaxLemmaSize THEN Die(m, "add_lma_to_userdict spl_id_fr")
        ELSE [m EXCEPT !.user = PutUser(@, FlattenSeq(strs), FlattenSeq(ids))] :
          strs \in {[k \in DOMAIN part |->
                       LemmaStr(m, At(m.lmaId, part[k]), kMaxLemmaSize + 1)]},
          ids \in {[k \in DOMAIN part |->
                      SplIdsOfLemma(m, At(m.lmaId, part[k]), IdsTyped(m, part[k]))]}} : TRUE

\* try_add_cand0_to_userdict: the fixed lemmas, in pieces no longer than a lemma may be; a piece
\* is added if one of its lemmas was not the first choice.
TryAddCand0(m) ==
  LET Turn(w, p) ==
        LET split == At(m.lmaStart, p + 1) - At(m.lmaStart, w.fr) > kMaxLemmaSize
        IN [s |-> IF split /\ w.modified THEN AddLma(w.s, w.fr, p) ELSE w.s,
            fr |-> IF split THEN p ELSE w.fr,
            modified |-> (w.modified /\ ~split) \/ At(m.no1, p) = 0]
  IN IF Dead(m) \/ m.fixHz = 0 \/ CandidateNum(m) # 1 THEN m
     ELSE IF \E p \in 0..m.fixLma - 1 : Read(m.no1, p) = Garbage
       THEN Die(m, "uninitialized fixed_lmas_no1_")
     ELSE CHOOSE r \in
       {IF At(m.lmaStart, m.fixLma) - At(m.lmaStart, w.fr) > 1 /\ w.modified
        THEN AddLma(w.s, w.fr, m.fixLma) ELSE w.s :
          w \in {FoldLeft(Turn, [s |-> m, fr |-> 0, modified |-> FALSE],
                          [k \in 1..m.fixLma |-> k - 1])}} : TRUE

\* The nodes in use: what is behind them in the pool is left over.
NodesUsed(m) == 0..Len(m.nd) - 1

\* The code would go on with a left-over node; TypeOK says that no run gets there.
LeftOver == "a left-over node is used"

\* match_dmi: the dmi of a row that is made of the ids, else one whose last half is.
MatchDmi(m, row, from, n) ==
  LET dmis == [k \in 1..Row(m, row).dmiNum |-> Row(m, row).dmiPos + k - 1]
      ids(p) == Reverse(SplIdsOf(m, p))
      exact == {k \in DOMAIN dmis : SplIdsOf(m, dmis[k]) = SubSeq(m.splId, from + 1, from + n)}
      half == {k \in DOMAIN dmis :
                 \A i \in DOMAIN ids(dmis[k]) : 2 * (i - 1) < Len(ids(dmis[k])) =>
                   from + n - i >= 0 /\ ids(dmis[k])[i] = At(m.splId, from + n - i)}
  IN IF m.dec < row THEN NoPos
     ELSE IF exact # {} THEN dmis[Min(exact)]
     ELSE IF half # {} THEN dmis[Min(half)]
     ELSE NoPos

\* The first candidate fixes the whole sentence.  The count of a user lemma is left out.
ChooseSentence(m) ==
  LET row == At(m.splStart, m.splNum)
      rest == [k \in 1..Max({0, m.lmaNum - m.fixLma}) |-> 1]
      t == [m EXCEPT !.fixHz = m.splNum, !.rows[row + 1].fixed = Row(m, row).ndPos,
                     !.no1 = Overlay(@, m.fixLma, rest), !.fixLma = m.lmaNum, !.lpi = <<>>]
  IN IF m.lmaNum = 1 THEN t ELSE TryAddCand0(t)

\* Whether the item was the first choice; not known without a segmentation to compare with.
WasFirst(m, item) ==
  LET id == Read(m.lmaId, m.fixLma)
  IN IF id = Garbage THEN Garbage ELSE IF id = item.id THEN 1 ELSE 0

\* The lemma is fixed at row to behind the lemmas fixed before.
FixLemma(m, item, from, to, dmiFr) ==
  CHOOSE r \in
    {[t EXCEPT !.rows[to + 1].fixed = Row(t, to).ndPos,
               !.nd = SubSeq(@, 1, EndOfNodes(t, to)),
               !.no1 = PutAt(@, m.fixLma, WasFirst(m, item)),
               !.lmaId = PutAt(@, m.fixLma, item.id),
               !.lmaStart = PutAt(@, m.fixLma + 1, At(m.lmaStart, m.fixLma) + item.len),
               !.fixLma = @ + 1, !.fixHz = @ + item.len] :
       t \in {ExtendMtrxNd([m EXCEPT !.rows[to + 1].ndNum = 0], Row(m, from).fixed, <<item>>, dmiFr,
                           to, Len(m.nd))}} : TRUE

\* choose, another candidate.
ChooseLemma(m, item) ==
  LET from == At(m.splStart, m.fixHz)
      to == At(m.splStart, m.fixHz + item.len)
      Fixed(t) ==
        LET dmiFr == MatchDmi(t, to, t.fixHz, item.len)
        IN IF Dead(t) THEN t
           ELSE IF dmiFr = NoPos THEN Die(t, "choose step_to_dmi_fr")
           ELSE IF Row(t, from).fixed = NoPos THEN Die(t, "extend_mtrx_nd mtrx_nd")
           ELSE IF Row(t, from).fixed \notin NodesUsed(t) THEN Die(t, LeftOver)
           ELSE Redecode(FixLemma(t, item, from, to, dmiFr), to, m.dec, "choose add_char")
  IN CHOOSE r \in
       {IF t.fixHz < t.splNum THEN PrepareCandidates(t) ELSE TryAddCand0([t EXCEPT !.lpi = <<>>]) :
          t \in {Fixed(Reset(m, to, FALSE, TRUE))}} : TRUE

\* choose: 0 is the sentence, then come the items of lpi_items_.
Choose(m, cand) == IF cand = 0 THEN ChooseSentence(m) ELSE ChooseLemma(m, m.lpi[cand])

\* Mutant: the row where the lemma of a node ends.
RowOfEnd(m, end) == Node(m, end).step

\* The row where the lemma of a node begins.
RowOfStart(m, end) == Node(m, Node(m, end).from).step

\* cancel_last_choice
CancelLastChoice(m) ==
  LET end == FixedOf(m, FixedStart(m))
      to == RowOfStart(m, end)
      less == [m EXCEPT !.fixHz = IF to > 0 THEN @ - Dmi(m, Node(m, end).dmi).level ELSE 0]
  IN IF m.dec = 0 \/ m.fixHz = 0 THEN m
     ELSE IF end = NoPos THEN Die(m, "cancel_last_choice end_node")
     ELSE IF end \notin NodesUsed(m) THEN Die(m, LeftOver)
     ELSE IF Node(m, end).from = NoPos THEN Die(m, "cancel_last_choice from")
     ELSE CHOOSE r \in
       {PrepareCandidates(Redecode(t, to, Len(m.pys), "cancel_last_choice add_char")) :
          t \in {Reset(less, to, FALSE, FALSE)}} : TRUE

---------------------------------------------------------------------------
\* get_predicts: the array of predicted items is share_buf_, so filling it with zeros
\* overwrites both pools and all rows; the numbers that go with them stay.
ZeroBuffers(m) ==
  [m EXCEPT !.nd = [p \in DOMAIN @ |-> [StartNode EXCEPT !.dmi = 0]],
            !.dmi = [p \in DOMAIN @ |-> [h0 |-> 0, h1 |-> 0, fr |-> 0, spl |-> 0, c |-> FALSE,
                                         level |-> 0, len |-> 0]],
            !.rows = [r \in DOMAIN @ |-> ZeroRow],
            !.blank = NoPos]

---------------------------------------------------------------------------
\* The operations.

\* Rows that are not decoded keep only mtrx_nd_fixed: add_char sets the rest before it is read.
Settled(m) ==
  [m EXCEPT !.rows = [r \in DOMAIN @ |-> IF r <= m.dec + 1 THEN @[r]
                                         ELSE [ZeroRow EXCEPT !.fixed = m.rows[r].fixed]]]

InitImage ==
  Reset0([pys |-> <<>>, dec |-> 0, nd |-> <<>>, dmi |-> <<>>, rows |-> <<>>, blank |-> Blank,
          splStart |-> <<0>>, splId |-> <<>>, splNum |-> 0,
          lmaStart |-> <<0>>, lmaId |-> <<0>>, lmaNum |-> 0,
          fixHz |-> 0, fixLma |-> 0, no1 |-> <<>>,
          c |-> [chn |-> <<>>, sub |-> <<0>>, num |-> 0, length |-> 0, splIds |-> <<>>,
                 splStart |-> <<0>>],
          cMode |-> FALSE, lpi |-> <<>>, ms |-> NoMileStones, cache |-> NothingCached,
          dict |-> Dict, user |-> InitialUser, dead |-> ""])

\* After a failed assertion only what failed is kept.
Becomes(m) ==
  /\ calls < MaxCalls /\ ~Dead(im)
  /\ im' = IF Dead(m) THEN [InitImage EXCEPT !.dead = m.dead] ELSE Settled(m)
  /\ calls' = calls + 1

\* choose and cancel_last_choice decode again but leave the segmentation of the sentence before:
\* im_get_spl_start_pos would bring it up to date.  The next call may rely on it as it is.
Stale(m) == GetSplStartId(m) # m
Relies(relies) == followed' = (followed /\ ~(relies /\ Stale(im)))

Init == im = InitImage /\ followed = TRUE /\ calls = 0

ImSearch == \E py \in Strings : Becomes(Search(im, py)) /\ Relies(im.fixHz > 0)
ImDelSearchAt(pos, inIds, clearFixed) ==
  Becomes(DelSearch(im, pos, inIds, clearFixed)) /\ Relies(inIds \/ im.fixHz > 0)
ImDelSearch ==
  \E pos \in 0..Len(im.pys) - 1 : \E inIds \in BOOLEAN : \E clearFixed \in BOOLEAN :
    ImDelSearchAt(pos, inIds, clearFixed)
ImResetSearch == Becomes(Reset0(im)) /\ followed' = TRUE
ImGetSplStartPos == Becomes(GetSplStartId(im)) /\ UNCHANGED followed
ImChoose ==
  \E cand \in 0..CandidateNum(im) - 1 : Becomes(Choose(im, cand)) /\ Relies(TRUE)
ImCancelLastChoice == Becomes(CancelLastChoice(im)) /\ Relies(TRUE)
ImGetPredicts == Becomes(ZeroBuffers(im)) /\ UNCHANGED followed

Next ==
  \/ ImSearch
  \/ ImDelSearch
  \/ ImResetSearch
  \/ ImGetSplStartPos
  \/ ImChoose
  \/ ImCancelLastChoice
  \/ ImGetPredicts

Spec == Init /\ [][Next]_vars

---------------------------------------------------------------------------
\* Properties.  They are about images with a matrix: alive, and not overwritten by get_predicts.

Live(m) == ~Dead(m) /\ Row(m, 0).ndNum = 1

\* The image is one of the type: pools within their sizes, positions within the strings, and
\* the assertions the matrix was built with hold.
TypeOK ==
  /\ calls \in 0..MaxCalls
  /\ im.dec \in 0..Len(im.pys) /\ Len(im.pys) < kMaxRowNum
  /\ Len(im.nd) \in 0..kMtrxNdPoolSize /\ Len(im.dmi) \in 0..kDmiPoolSize
  /\ \A r \in 0..Len(im.rows) - 1 : /\ Row(im, r).ndNum \in 0..kMaxNodeARow
                                    /\ Row(im, r).fixed \in {NoPos, Garbage} \cup Nat
  /\ Len(im.lpi) <= kMaxLmaPsbItems
  /\ ~im.cMode \/ Dead(im)
  /\ im.dead # LeftOver

\* Every path of the matrix can be followed to the start: a node of a row leaves from a node of
\* the row where its lemma begins, and its dmi belongs to the row; a dmi begins where its
\* predecessor says.
PathsLinked ==
  Live(im) => \A r \in 1..im.dec :
    /\ \A p \in Row(im, r).ndPos..EndOfNodes(im, r) - 1 :
         LET node == Node(im, p)
             d == Dmi(im, node.dmi)
             start == r - d.len
         IN /\ p < Len(im.nd) /\ node.step = r
            /\ node.dmi \in Row(im, r).dmiPos..EndOfDmis(im, r) - 1
            /\ node.from \in Row(im, start).ndPos..EndOfNodes(im, start) - 1
    /\ \A q \in Row(im, r).dmiPos..EndOfDmis(im, r) - 1 :
         LET d == Dmi(im, q)
             before == IF d.fr = NoPos THEN 0 ELSE Dmi(im, d.fr).len
             mid == r - (d.len - before)
         IN /\ q < Len(im.dmi) /\ before < d.len /\ d.len <= r
            /\ d.fr # NoPos => d.fr \in Row(im, mid).dmiPos..EndOfDmis(im, mid) - 1

\* The mile stone of a dmi stands for exactly the words that begin with its spellings.
MileStonesLive ==
  Live(im) => \A r \in 1..im.dec : \A q \in Row(im, r).dmiPos..EndOfDmis(im, r) - 1 :
    LET d == Dmi(im, q)
    IN d.h0 > 0 => /\ d.h0 <= Len(im.ms.stones)
                   /\ ToSet(NodesAt(im.dict, im.ms, d.h0, d.level))
                      = ToSet(NodesFor(im.dict, SplIdsOf(im, q)))

\* The cheapest lemma of a dmi, none: NoPos.
Cheapest(ids) ==
  CHOOSE psb \in {IF lpis = <<>> THEN NoPos ELSE Min({lpis[k].psb : k \in DOMAIN lpis}) :
                  lpis \in {TrieLpis(im.dict, ids, kMaxLmaPsbItems) \o UserLpis(im, ids).found}} :
    TRUE

\* The first node of every row behind the fixed part has the least score a path over the dmis
\* can have, whatever was kept, cached or decoded again.
ScoresAreBest ==
  Live(im) => \A r \in FixedStart(im) + 1..im.dec :
    \E costs \in {{Node(im, Row(im, r - Dmi(im, x[1]).len).ndPos).score + x[2] :
                    x \in {y \in {<<q, Cheapest(SplIdsOf(im, q))>> :
                                  q \in Row(im, r).dmiPos..EndOfDmis(im, r) - 1} :
                             /\ r - Dmi(im, y[1]).len >= FixedStart(im)
                             /\ Row(im, r - Dmi(im, y[1]).len).ndNum > 0
                             /\ y[2] # NoPos}}} :
      IF Row(im, r).ndNum = 0 THEN costs = {}
      ELSE Node(im, Row(im, r).ndPos).score = Min(costs)

\* What a client is shown.
View(m) == [dec |-> m.dec, lpi |-> m.lpi, sent |-> Sentence(m, kMaxRowNum, 0),
            splNum |-> m.splNum, starts |-> SubSeq(m.splStart, 1, m.splNum + 1)]

PhraseFixed(m) == m.fixLma > 0 /\ At(m.lmaId, 0) = kLemmaIdComposing

\* The letters changed and nothing is fixed: what is shown is what a first search of the letters
\* shows.
LettersDecide ==
  /\ im'.pys # im.pys /\ followed' /\ Live(im') /\ im'.dec > 0 /\ im'.fixHz = 0
  => \A m \in {im'} : View(m) = View(Search([InitImage EXCEPT !.user = m.user], m.pys))

\* When letters were typed or deleted and nothing is fixed, the letters alone decide what is
\* shown: not the letters typed before, what was chosen and taken back, or the cache.  A search
\* that cuts a composing phrase is left out: reset_search then decodes the phrase that is left and
\* never the letters behind it that the two strings have in common.
SameAsFresh == [][~PhraseFixed(im) => LettersDecide]_vars

\* The text the user fixed.  choose may count a lemma as fixed that stands for no spelling.
FixedText(m) ==
  FlattenSeq([k \in 1..m.fixLma |-> IF At(m.lmaStart, k) = At(m.lmaStart, k - 1) THEN <<>>
                                    ELSE LemmaStr(m, At(m.lmaId, k - 1), kMaxRowNum)])

\* The first candidate, and the part of it that is not fixed.
Text(m) == Sentence(m, kMaxRowNum, 0).text
Unfixed(m) == SubSeq(Text(m), m.fixHz + 1, Len(Text(m)))

\* The text the user fixed begins the first candidate.
ChosenTextKept ==
  followed /\ Live(im) /\ im.dec > 0 /\ im.fixHz > 0 => IsPrefix(FixedText(im), Text(im))

\* A spelling of the fixed part is deleted: of the text fixed, its character alone goes.
DeletesOneCharacter ==
  \A pos \in 0..im.fixHz - 1 : \A clearFixed \in BOOLEAN :
    ImDelSearchAt(pos, TRUE, clearFixed) /\ Live(im) /\ Live(im') /\ im'.dec > 0 =>
      \A m \in {im'} : IsPrefix(DelInPys(SubSeq(Text(im), 1, im.fixHz), pos, 1), Text(m))

\* Deleting a spelling from what was chosen leaves the rest of the text as it was shown, through
\* the merge of all fixed lemmas into one phrase and decoding that again.
DeletionKeepsText == [][followed' => DeletesOneCharacter]_vars

\* The same whatever the client calls before: pinyinime.h says of im_choose that it makes the
\* candidate fixed, and does not ask for im_get_spl_start_pos after it.  With the segmentation of
\* before, choose fixes other lemmas than those of the sentence shown.
ChoiceFixesShown == [][DeletesOneCharacter]_vars

\* The texts shown behind the first candidate, and those of both dictionaries for the first
\* unfixed spellings.
Listed(m) == [k \in DOMAIN m.lpi |-> LemmaStr(m, m.lpi[k].id, kMaxLemmaSize + 1)]
WordsFor(m, ids) ==
  UNION {{LemmaStr(m, lpis[i].id, kMaxLemmaSize + 1) : i \in DOMAIN lpis} :
           lpis \in {TrieLpis(m.dict, ids, kMaxLmaPsbItems) \o UserLpis(m, ids).found}}
Offered(m) ==
  UNION {WordsFor(m, SubSeq(m.splId, m.fixHz + 1, m.fixHz + n)) :
           n \in 1..Min({kMaxLemmaSize, m.splNum - m.fixHz})}

\* A search, a deletion or a choice lists the words of both dictionaries for the spellings that
\* come next, each text once, without the unfixed part of the first candidate.  Left out: a last
\* letter that has no node, a choice after which the segmentation is outdated, and the lemma of
\* the last id, which has no string.
CandidatesExact ==
  [][(im'.pys # im.pys \/ ImChoose) /\ followed' /\ Live(im') /\ im'.dec > 0 =>
       \A m \in {im'} : \A listed \in {Listed(m)} :
         m.fixHz = m.splNum \/ Stale(m) \/ Sentence(m, kMaxRowNum, 0).failed \/
           /\ \A j, k \in DOMAIN listed : listed[j] = listed[k] /\ listed[j] # <<>> => j = k
           /\ ToSet(listed) \ {<<>>} = Offered(m) \ {<<>>, Unfixed(m)}]_vars

\* Taking a choice back reverts it (pinyinime.h): as many spellings are fixed as before, with the
\* same text, and, if no lemma was learned, the client is shown what it was shown before the
\* choice.  Left out: a phrase cut to no character is still counted as a fixed lemma.
CancelUndoes ==
  [][/\ ImChoose /\ followed' /\ Live(im')
     /\ im'.fixHz > im.fixHz
     /\ im.fixHz = 0 => im.fixLma = 0
     =>
       \A m \in {im'} : \A back \in {CancelLastChoice(m)} :
         /\ ~Dead(back) /\ back.fixHz = im.fixHz /\ FixedText(back) = FixedText(im)
         /\ m.user = im.user => View(GetSplStartId(back)) = View(im)]_vars

\* A lemma the user dictionary learns is part of the sentence chosen, and its full spellings
\* are some of what was typed.
LearnedWasShown ==
  [][im'.user # im.user /\ followed' =>
       \A m \in {im'} : \A e \in ToSet(m.user) \ ToSet(im.user) :
         \E i \in 0..m.splNum - Len(e.word) :
           /\ SubSeq(Text(m), i + 1, i + Len(e.word)) = e.word
           /\ \A k \in DOMAIN e.spell :
                LET range == FullRange(m.dict.t, At(m.splId, i + k - 1))
                IN e.spell[k] \in range.start..range.start + range.num - 1]_vars
=============================================================================
