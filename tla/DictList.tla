------------------------------ MODULE DictList ------------------------------
(***************************************************************************)
(* The list of the words of the system dictionary: their characters in one *)
(* buffer, ordered by length and then by characters, and for every length  *)
(* the place and the id of its first word.  A list is                      *)
(*   [buf, startPos, startId, scis]                                        *)
(* where scis holds the pairs of a character and a spelling that occur,    *)
(* with the half id of the spelling.  Characters are positive numbers;     *)
(* words are sequences of them.                                            *)
(***************************************************************************)
EXTENDS SpellingTrie

CONSTANT kMaxLemmaSize

ASSUME LemmaSizeAssumption == kMaxLemmaSize \in Nat \ {0}

\* cmp_hanzis_n, utf16_strcmp
WordLess(a, b) ==
  \E i \in 1..Len(b) :
    /\ i <= Len(a) + 1
    /\ \A j \in 1..i - 1 : a[j] = b[j]
    /\ i <= Len(a) => a[i] < b[i]

---------------------------------------------------------------------------
\* calculate_size over the sorted words.  The first word counts as one of length 1
\* whatever its length is, and a length no word has takes over the start of the length
\* before it.
SizeTurn(w, len) ==
  IF len = w.len
  THEN [w EXCEPT !.size = @ + len, !.ids = @ + 1]
  ELSE [len |-> len, size |-> w.size + len, ids |-> w.ids + 1,
        startPos |-> [n \in 0..kMaxLemmaSize |->
           IF n = len - 1 THEN w.size
           ELSE IF n \in w.len..len - 2 THEN w.startPos[w.len - 1]
           ELSE w.startPos[n]],
        startId |-> [n \in 0..kMaxLemmaSize |->
           IF n = len - 1 THEN w.ids + 1
           ELSE IF n \in w.len..len - 2 THEN w.startId[w.len - 1]
           ELSE w.startId[n]]]

\* The ends of the last lengths; start_id_ ends with the last id, not behind it.
CalculateSize(words) ==
  LET first == [len |-> 1, size |-> 1, ids |-> 1,
                startPos |-> [n \in 0..kMaxLemmaSize |-> 0],
                startId |-> [n \in 0..kMaxLemmaSize |-> IF n = 0 THEN 1 ELSE 0]]
      w == FoldLeft(LAMBDA v, word : SizeTurn(v, Len(word)), first, Tail(words))
  IN [startPos |-> [n \in 0..kMaxLemmaSize |-> IF n >= w.len THEN w.size ELSE w.startPos[n]],
      startId |-> [n \in 0..kMaxLemmaSize |-> IF n >= w.len THEN w.ids ELSE w.startId[n]]]

\* init_list: ok is the assertion of fill_list that the words fill the buffer.
InitList(scis, words) ==
  LET size == CalculateSize(words)
      buf == FlattenSeq(words)
  IN [buf |-> buf, scis |-> scis,
      startPos |-> size.startPos, startId |-> size.startId,
      ok |-> Len(buf) = size.startPos[kMaxLemmaSize]]

---------------------------------------------------------------------------
\* The word of len characters at place pos of the buffer.
WordAt(l, pos, len) == SubSeq(l.buf, pos + 1, pos + len)

\* The places where the words of a length begin.
PlacesOf(l, len) ==
  {l.startPos[len - 1] + k * len :
     k \in 0..((l.startPos[len] - l.startPos[len - 1]) \div len) - 1}

\* Mutant: the word found last, not the first.
FindPosLast(l, hzs, len) ==
  LET found == {p \in PlacesOf(l, len) : SubSeq(WordAt(l, p, len), 1, Len(hzs)) = hzs}
  IN IF found = {} THEN -1 ELSE Max(found)

\* find_pos_startedbyhzs: the first word of the length that begins with hzs, -1 if none.
FindPosStartedByHzs(l, hzs, len) ==
  LET found == {p \in PlacesOf(l, len) : SubSeq(WordAt(l, p, len), 1, Len(hzs)) = hzs}
  IN IF found = {} THEN -1 ELSE Min(found)

\* get_lemma_str into a buffer of max characters, the end mark among them.
GetLemmaStr(l, id, max) ==
  LET fits == {len \in 1..kMaxLemmaSize :
                 l.startId[len - 1] <= id /\ id < l.startId[len]}
  IN IF id >= l.startId[kMaxLemmaSize] \/ fits = {} THEN <<>>
     ELSE LET len == Min(fits)
          IN IF len > max - 1 THEN <<>>
             ELSE WordAt(l, l.startPos[len - 1] + (id - l.startId[len - 1]) * len, len)

\* get_lemma_id; the assertion that the word found is behind the begin of the buffer fails for the
\* first word of the list.
AssertionFails == -1

ListLemmaId(l, word) ==
  LET pos == FindPosStartedByHzs(l, word, Len(word))
  IN IF Len(word) > kMaxLemmaSize \/ pos < 0 THEN 0
     ELSE IF pos = 0 THEN AssertionFails
     ELSE l.startId[Len(word) - 1] + (pos - l.startPos[Len(word) - 1]) \div Len(word)

\* get_splids_for_hanzi: the full ids of a character whose half id is the one asked for;
\* if there are none, those it is compatible with.  Half id 0 asks for all.
SplIdsForHanzi(t, l, hz, half) ==
  LET own == SelectSeq(l.scis, LAMBDA s : s.hz = hz)
      strict == SelectSeq(own, LAMBDA s : half \in {0, s.half})
      wide == SelectSeq(own, LAMBDA s : HalfFullCompatible(t, half, s.full))
      chosen == IF strict # <<>> THEN strict ELSE wide
  IN [i \in DOMAIN chosen |-> chosen[i].full]

\* The places of the words of a length that begin with hzs: predict starts at the one
\* find_pos_startedbyhzs returns and goes on while words begin so.
PlacesStartedBy(l, hzs, len) ==
  LET first == FindPosStartedByHzs(l, hzs, len)
      Begin(p) == SubSeq(WordAt(l, p, len), 1, Len(hzs)) = hzs
  IN IF first < 0 THEN {}
     ELSE {p \in PlacesOf(l, len) : p >= first /\ \A q \in PlacesOf(l, len) :
                                                   q \in first..p => Begin(q)}

\* predict: the continuations of the words that begin with hzs, shorter words first, at
\* most room of them, without those already in the caller's buffer.
ListPredict(l, hzs, used, room) ==
  LET Rest(len) ==
        LET places == SetToSortSeq(PlacesStartedBy(l, hzs, len), <)
        IN [i \in DOMAIN places |-> SubSeq(WordAt(l, places[i], len), Len(hzs) + 1, len)]
      all == FlattenSeq([k \in 1..kMaxLemmaSize - Len(hzs) |-> Rest(Len(hzs) + k)])
  IN SelectSeq(SubSeq(all, 1, Min({room, Len(all)})), LAMBDA w : w \notin used)
=============================================================================
