---------------------------- MODULE SpellingTrie ----------------------------
(***************************************************************************)
(* The spelling trie and the parser that cuts a string of letters into     *)
(* spelling ids.                                                           *)
(*                                                                         *)
(* A node of the trie is the string that leads to it.  A node that ends a  *)
(* spelling has the full id 30 + the place of the spelling in the sorted   *)
(* buffer; a node of an initial letter, or of Ch, Sh and Zh, has the half  *)
(* id of all the spellings below it instead.  Characters are ASCII codes,  *)
(* a small h after C, S and Z; 0 stands for any code that is no letter,    *)
(* which splits.                                                           *)
(***************************************************************************)
EXTENDS Integers, SequencesExt

kFullSplIdStart == 30

\* is_yunmu_char: A, E, O.  is_szm_char: every letter but I, U, V.
Yunmu == {65, 69, 79}
SzmChars == (65..90) \ {73, 85, 86}

\* is_valid_spl_char, is_same_spl_char
IsLetter(ch) == ch \in (65..90) \cup (97..122)
SameChar(a, b) == a - b \in {0, 32, -32}

---------------------------------------------------------------------------
\* The strings of the nodes, the root excepted.
NodesOf(buf) == UNION {{SubSeq(buf[i], 1, k) : k \in 1..Len(buf[i])} : i \in DOMAIN buf}

\* The items of the sorted buffer below a node.
ItemsBelow(buf, p) == {i \in DOMAIN buf : IsPrefix(p, buf[i])}

\* The half id of a letter: Ch, Sh and Zh have ids of their own behind C, S and Z.
LetterId(c) == (c - 64) + (IF c > 67 THEN 1 ELSE 0) + (IF c > 83 THEN 1 ELSE 0)
PartId(c) == CASE c = 67 -> 4 [] c = 83 -> 21 [] c = 90 -> 29 [] OTHER -> 0

\* The half id construct_spellings_subset gives a node, 0 for none.  The last node of
\* the first level, whose letter is end, asks szm_is_enabled, the others is_szm_char.
HalfIdOf(szm, end, p) ==
  IF Len(p) = 1 /\ p[1] \in (IF p[1] = end THEN szm ELSE SzmChars) THEN LetterId(p[1])
  ELSE IF Len(p) = 2 /\ p[2] = 104 THEN PartId(p[1])
  ELSE 0

\* The id of a node: the half id replaces the full id of a spelling that ends here.
SplIdOf(buf, half, p) ==
  LET first == Min(ItemsBelow(buf, p))
  IN IF half # 0 THEN half
     ELSE IF buf[first] = p THEN kFullSplIdStart + first - 1
     ELSE 0

\* construct: szm is the set of letters enabled in ShouZiMu mode.  A half id stands for
\* the items below its node (h2f_start_, h2f_num_).
Construct(buf, szm) ==
  LET nodes == NodesOf(buf)
      end == Last(buf)[1]
      half == [p \in nodes |-> HalfIdOf(szm, end, p)]
      below == [h \in 0..kFullSplIdStart - 1 |->
                  UNION {ItemsBelow(buf, p) : p \in {p \in nodes : half[p] = h /\ h # 0}}]
  IN [buf |-> buf, szm |-> szm,
      idx |-> [p \in nodes |-> SplIdOf(buf, half[p], p)],
      h2fNum |-> [h \in DOMAIN below |-> Cardinality(below[h])],
      h2fStart |-> [h \in DOMAIN below |->
                      IF below[h] = {} THEN 0 ELSE kFullSplIdStart - 1 + Min(below[h])]]

SpellingNum(t) == Len(t.buf)

---------------------------------------------------------------------------
IsHalfId(id) == id \in 1..kFullSplIdStart - 1
IsFullId(t, id) == id \in kFullSplIdStart..kFullSplIdStart + SpellingNum(t) - 1

\* kHalfId2Sc_: the letter of a half id; Ch, Sh, Zh are written c, s, z.
HalfIdChar(h) ==
  CASE h = 4 -> 99 [] h = 21 -> 115 [] h = 29 -> 122
    [] OTHER -> CHOOSE c \in 65..90 : LetterId(c) = h

IsHalfIdYunmu(id) == IsHalfId(id) /\ HalfIdChar(id) \in Yunmu

\* The full ids a half id stands for, as first id and number.
HalfToFull(t, h) == [start |-> t.h2fStart[h], num |-> t.h2fNum[h]]

\* build_f2h fills f2h_ half id by half id: the last one that covers a full id stays.
FullToHalf(t, f) ==
  Max({0} \cup {h \in 1..kFullSplIdStart - 1 :
                  f - t.h2fStart[h] \in 0..t.h2fNum[h] - 1})

\* half_full_compatible: Zh/Ch/Sh go with Z/C/S.
HalfFullCompatible(t, h, f) ==
  LET own == FullToHalf(t, f)
      Upper(c) == IF c >= 97 THEN c - 32 ELSE c
  IN own = h \/ (own # 0 /\ Upper(HalfIdChar(own)) = HalfIdChar(h))

\* if_valid_id_update: the id a node may end a syllable with, 0 when it may not.
ValidIdUpdate(t, id) ==
  IF id >= kFullSplIdStart THEN id
  ELSE IF id = 0 THEN 0
  ELSE IF HalfIdChar(id) > 90 \/ HalfIdChar(id) \in t.szm THEN id
  ELSE IF HalfIdChar(id) \in Yunmu THEN t.h2fStart[id]
  ELSE 0

\* get_spelling_str
SpellingStr(t, id) ==
  IF id >= kFullSplIdStart THEN t.buf[id - kFullSplIdStart + 1]
  ELSE IF HalfIdChar(id) > 90 THEN <<HalfIdChar(id) - 32, 104>>
  ELSE <<HalfIdChar(id)>>

---------------------------------------------------------------------------
\* The id of the node a walk stands on; the root has none.
IdAt(t, path) == IF path = <<>> THEN 0 ELSE ValidIdUpdate(t, t.idx[path])

\* The first son whose character is the given one.
SonsFor(t, path, ch) ==
  {p \in DOMAIN t.idx : /\ Len(p) = Len(path) + 1
                        /\ IsPrefix(path, p)
                        /\ SameChar(Last(p), ch)}

FirstSon(sons) == CHOOSE p \in sons : \A q \in sons : Last(p) <= Last(q)

\* One turn of the loop of splstr_to_idxs.  w: pos the place in the string, path the
\* node, ids and starts the result, split: the last character was a splitter,
\* more: the walk goes on.
ParseTurn(t, str, max, w) ==
  LET ch == str[w.pos + 1]
      id == IdAt(t, w.path)
      sons == SonsFor(t, w.path, ch)
      Emit(to) == [w EXCEPT !.ids = Append(@, id), !.path = <<>>, !.pos = to,
                            !.starts = Append(@, to),
                            !.more = Len(w.ids) + 1 < max]
  IN IF ~w.more \/ w.pos >= Len(str) THEN w
     ELSE IF ~IsLetter(ch) THEN
       IF id # 0 THEN [Emit(w.pos + 1) EXCEPT !.split = TRUE]
       ELSE IF w.split
         THEN [w EXCEPT !.pos = @ + 1, !.starts[Len(w.ids) + 1] = w.pos + 1]
       ELSE [w EXCEPT !.more = FALSE]
     ELSE IF sons # {} THEN [w EXCEPT !.path = FirstSon(sons), !.pos = @ + 1,
                                      !.split = FALSE]
     ELSE IF id # 0 THEN [Emit(w.pos) EXCEPT !.split = FALSE]
     ELSE [w EXCEPT !.more = FALSE, !.split = FALSE]

\* splstr_to_idxs: the ids, the place where each begins and where the last ends, and
\* whether the last one may still grow (last_is_pre).
SplstrToIdxs(t, str, max) ==
  IF str = <<>> \/ max = 0 \/ ~IsLetter(str[1]) THEN [ids |-> <<>>, starts |-> <<0>>, pre |-> FALSE]
  ELSE
    LET start == [pos |-> 0, path |-> <<>>, ids |-> <<>>, starts |-> <<0>>,
                  split |-> FALSE, more |-> TRUE]
    IN CHOOSE r \in
         {IF ~w.more THEN [ids |-> w.ids, starts |-> w.starts, pre |-> FALSE]
          ELSE IF IdAt(t, w.path) = 0
            THEN [ids |-> w.ids, starts |-> w.starts, pre |-> ~w.split]
          ELSE [ids |-> Append(w.ids, IdAt(t, w.path)),
                starts |-> Append(w.starts, w.pos), pre |-> ~w.split] :
            w \in {FoldLeft(LAMBDA v, i : ParseTurn(t, str, max, v), start,
                            [i \in 1..2 * Len(str) |-> i])}} : TRUE

\* Mutant: the last id is left as it is.
SplstrToIdxsHalf(t, str, max) ==
  LET r == SplstrToIdxs(t, str, max)
      n == Len(r.ids)
  IN [r EXCEPT !.ids = [i \in 1..n |-> IF i < n /\ IsHalfIdYunmu(@[i]) THEN t.h2fStart[@[i]]
                                       ELSE @[i]]]

\* splstr_to_idxs_f and splstr16_to_idxs_f: a one-letter final becomes a full id.
SplstrToIdxsF(t, str, max) ==
  CHOOSE idxs \in
    {[r EXCEPT
        !.ids = [i \in DOMAIN @ |-> IF IsHalfIdYunmu(@[i]) THEN t.h2fStart[@[i]] ELSE @[i]],
        !.pre = @ /\ ~(r.ids # <<>> /\ IsHalfIdYunmu(Last(r.ids)))] :
       r \in {SplstrToIdxs(t, str, max)}} : TRUE

\* get_splid_by_str: the one id that takes the whole string, or 0.
SplidByStr(t, str) ==
  CHOOSE id \in {IF Len(r.ids) = 1 /\ r.starts[2] = Len(str) THEN r.ids[1] ELSE 0 :
                 r \in {SplstrToIdxs(t, str, 2)}} : TRUE

\* get_splid_by_str_f
SplidByStrF(t, str) ==
  CHOOSE f \in {IF IsHalfIdYunmu(id) THEN t.h2fStart[id] ELSE id :
                id \in {SplidByStr(t, str)}} : TRUE
=============================================================================
