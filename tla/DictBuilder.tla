---------------------------- MODULE DictBuilder ----------------------------
(***************************************************************************)
(* The building of the system dictionary.  read_raw_dict reads the lexicon *)
(* line by line: a line may be dropped, at places where some of its        *)
(* spellings are already in the spelling table.  build_dict then builds    *)
(* the dictionary from the table and the lemmas, as DictConstruct says.    *)
(*                                                                         *)
(* A line is [word, freq, gbk, spell, rest]: the characters, the           *)
(* frequency, whether a character lies outside of GB2312, the spellings    *)
(* and whether tokens are left over behind them.  Spellings are what       *)
(* format_spelling_str makes of them: capitals, with a small h after C, S  *)
(* and Z.  A valid Hanzi list is not given, so the GBK mark decides.       *)
(***************************************************************************)
EXTENDS DictConstruct, SpellingTable

CONSTANTS
  Lines,               \* the lines a lexicon may have
  MaxLines,            \* the length of a lexicon
  MaxRawLemma,         \* longer words are not read: 4
  MinPhraseFreq        \* rarer phrases are not read: 60

\* The tokens of a line are never empty, and read_raw_dict stops at a line with fewer spellings
\* than characters.  Characters are 16-bit codes.
ASSUME LinesAssumption ==
  \A line \in Lines :
    /\ line.spell \in Seq(Seq(Nat)) /\ \A k \in 1..Len(line.spell) : line.spell[k] # <<>>
    /\ line.word \in Seq(Nat) /\ Len(line.word) = Len(line.spell)

ASSUME MaxLinesAssumption == MaxLines \in Nat

VARIABLES
  table,    \* spl_table_
  lemmas,   \* lemma_arr_, the entries read so far: [word, freq, spell]; the build adds
            \* ids, the full spelling ids, and id, the lemma id
  lines,    \* how many lines were read
  dict,     \* the dictionary built, NoDict before
  phase     \* "read", "built", "failed" (an assertion or an error ended the build)

vars == <<table, lemmas, lines, dict, phase>>

NoDict == [none |-> TRUE]

---------------------------------------------------------------------------
\* Reading

\* The conditions on a line before its spellings are looked at.
Accepted(line) ==
  /\ Len(line.word) <= Min({kMaxLemmaSize, MaxRawLemma})
  /\ Len(line.word) > 1 => line.freq >= MinPhraseFreq
  /\ ~line.gbk

\* The first n spellings go into the table one by one until one is refused.
PutFirst(tb, spell, n) ==
  LET after[k \in 0..n] ==
        IF k = 0 THEN [ok |-> TRUE, table |-> tb]
        ELSE IF after[k-1].ok THEN PutSpelling(after[k-1].table, spell[k]) ELSE after[k-1]
  IN after[n]

PutSpellings(tb, spell) == PutFirst(tb, spell, Len(spell))

\* read_raw_dict, one line.
ReadLine(line) ==
  LET put == PutSpellings(table, line.spell)
  IN /\ phase = "read"
     /\ lines < MaxLines
     /\ lines' = lines + 1
     /\ table' = IF Accepted(line) THEN put.table ELSE table
     /\ lemmas' = IF Accepted(line) /\ put.ok /\ ~line.rest
                  THEN Append(lemmas, [word |-> line.word, freq |-> line.freq,
                                       spell |-> line.spell])
                  ELSE lemmas
     /\ UNCHANGED <<dict, phase>>

---------------------------------------------------------------------------
\* Mutant: a failed assertion leaves the build going.
BuildAnyway ==
  /\ phase = "read"
  /\ lines > 0
  /\ phase' = "built"
  /\ UNCHANGED <<table, lemmas, dict, lines>>

BuildDict ==
  /\ phase = "read"
  /\ lines > 0
  /\ IF lemmas = <<>>
     THEN /\ phase' = "failed"
          /\ UNCHANGED <<table, lemmas, dict>>
     ELSE \E r \in {BuiltFrom(Arrange(table), lemmas)} :
            /\ phase' = IF r.ok THEN "built" ELSE "failed"
            /\ dict' = IF r.ok THEN r.dict ELSE NoDict
            /\ lemmas' = IF r.ok THEN r.lemmas ELSE lemmas
            /\ table' = [table EXCEPT !.frozen = TRUE]
  /\ UNCHANGED lines

Init ==
  /\ table = InitTable
  /\ lemmas = <<>>
  /\ lines = 0
  /\ dict = NoDict
  /\ phase = "read"

Next == (\E line \in Lines : ReadLine(line)) \/ BuildDict

Spec == Init /\ [][Next]_vars
---------------------------------------------------------------------------
(***************************************************************************)
(* PROPERTIES                                                              *)
(***************************************************************************)
Built == phase = "built"

Ids == DOMAIN dict.psb

\* Whether some lemma begins with a spelling, and whether the first-level index has no
\* gap at either end of the full ids an id stands for.
Begins(f) == \E p \in 2..Len(dict.le0) : dict.le0[p].spl = f

GoodStart(id) ==
  LET r == FullRange(dict.t, id)
  IN /\ Begins(r.start)
     /\ \/ Begins(r.start + r.num)
        \/ \A p \in DOMAIN dict.le0 : dict.le0[p].spl < r.start + r.num

\* Every length up to the longest has a word, and the first word has length 1.
NoSkippedLength == \A i \in Ids : \A n \in 1..Len(lemmas[i].word) :
                     \E j \in Ids : Len(lemmas[j].word) = n

TypeOK ==
  /\ table.num \in 0..HashLen
  /\ DOMAIN table.raw = 0..HashLen - 1
  /\ \A i \in DOMAIN lemmas : Len(lemmas[i].word) = Len(lemmas[i].spell)
  /\ lines \in 0..MaxLines
  /\ phase \in {"read", "built", "failed"}
  /\ (dict = NoDict) = (phase # "built")

\* The hash table neither loses nor doubles a spelling however the puts collide: every
\* spelling of a lemma read is found again, every entry sits where its own probe finds it,
\* and the number of entries is the count (put_spelling, contain).
TableFindsAll ==
  /\ ~table.frozen =>
       \A i \in DOMAIN lemmas : \A k \in DOMAIN lemmas[i].spell : Contain(table, lemmas[i].spell[k])
  /\ \A pos \in DOMAIN table.raw :
       table.raw[pos] # <<>> =>
         \E k \in 0..HashLen - 1 :
           Probe(table.raw[pos], k) = pos /\ Steps(table, table.raw[pos]) = k
  /\ table.num = Cardinality({pos \in DOMAIN table.raw : table.raw[pos] # <<>>})

\* The ids under which a lemma can be typed in full, syllable by syllable.
Typings(ids) == {q \in [DOMAIN ids -> UNION {{f, FullToHalf(dict.t, f)} : f \in ToSet(ids)}] :
                   \A k \in DOMAIN ids : q[k] \in {ids[k], FullToHalf(dict.t, ids[k])}}

\* Whether a string of ids stands for the full ids of a lemma; a one-letter final alone
\* stands for its own spelling only.
Matches(q, ids) ==
  /\ Len(q) = Len(ids)
  /\ \A k \in DOMAIN q :
       LET r == FullRange(dict.t, q[k]) IN ids[k] \in r.start..r.start + r.num - 1
  /\ Len(q) = 1 /\ IsHalfIdYunmu(q[1]) => ids[1] = dict.t.h2fStart[q[1]]

\* What the trie returns when it is extended spelling by spelling as the decoder does.
Extended(q) ==
  LET r[k \in 0..Len(q)] ==
        IF k = 0 THEN [ms |-> NoMileStones, handle |-> 0, lpis |-> <<>>, ok |-> TRUE]
        ELSE IF k > 1 /\ r[k-1].handle = 0 THEN [r[k-1] EXCEPT !.lpis = <<>>]
        ELSE LET range == FullRange(dict.t, q[k])
             IN ExtendDict(dict, r[k-1].ms, r[k-1].handle, k - 1, q[k], range.start, range.num,
                           FALSE, 50)
  IN r[Len(q)]

LpiIds(lpis) == {lpis[i].id : i \in DOMAIN lpis}

\* Looking up a string of full and half ids finds exactly the lemmas whose spellings it
\* stands for, once each, whether all at once (get_lpis) or extending spelling by
\* spelling (extend_dict0, 1 and 2), where the first-level index has no gap.
LookupsAgree ==
  Built =>
    \A q \in UNION {Typings(lemmas[i].ids) : i \in Ids} :
      LET found == TrieLpis(dict, q, 50)
          wanted == {i \in Ids : Matches(q, lemmas[i].ids)}
      IN GoodStart(q[1]) =>
           /\ LpiIds(found) = wanted
           /\ Len(found) = Cardinality(wanted)
           /\ LpiIds(Extended(q).lpis) = wanted

\* The parser takes back what the trie spells: the spellings of a lemma, typed in small
\* letters with splitters between them, are cut into its spellings again (splstr_to_idxs_f,
\* get_spelling_str), and each alone is one id (get_splid_by_str_f).
Typed(spell) ==
  LET Small(str) == [k \in DOMAIN str |-> IF str[k] <= 90 THEN str[k] + 32 ELSE str[k]]
  IN FlattenSeq([k \in DOMAIN spell |-> (IF k = 1 THEN <<>> ELSE <<0>>) \o Small(spell[k])])

ParserRoundTrip ==
  Built =>
    \A i \in DOMAIN lemmas :
      LET r == SplstrToIdxsF(dict.t, Typed(lemmas[i].spell), 9)
      IN /\ [k \in DOMAIN r.ids |-> SpellingStr(dict.t, r.ids[k])] = lemmas[i].spell
         /\ r.ids = lemmas[i].ids
         /\ Last(r.starts) = Len(Typed(lemmas[i].spell))
         /\ \A k \in DOMAIN r.ids :
              SplidByStrF(dict.t, Typed(<<lemmas[i].spell[k]>>)) = lemmas[i].ids[k]

\* The word list gives back the word of every id but the last, and from the word an id of
\* the same word, except for the first word, which fails the assertion of get_lemma_id; and the spellings of the
\* characters, tried out against the trie, lead back to the spellings the lemma was read with,
\* or to the first of several readings of the same half ids (get_lemma_str, get_lemma_id,
\* get_lemma_splids).
IdOf(word) == ListLemmaId(dict.list, word)

WordsAgree ==
  Built /\ NoSkippedLength =>
    \A i \in Ids \ {Max(Ids)} :
      LET word == GetLemmaStr(dict.list, i, kMaxLemmaSize + 1)
          halves == [k \in DOMAIN word |-> FullToHalf(dict.t, lemmas[i].ids[k])]
          readings == ToSet(SplIdsForHanzi(dict.t, dict.list, word[1], 0))
      IN /\ word = lemmas[i].word
         /\ word # lemmas[1].word => IdOf(word) \in Ids /\ lemmas[IdOf(word)].word = word
         /\ (\A f \in readings : Begins(f)) =>
              /\ LemmaSplIds(dict, i, <<>>) = lemmas[i].ids
              /\ LemmaSplIds(dict, i, halves) = lemmas[i].ids

\* The predictions for a history are the rest of the words that begin with it (predict); those
\* for none hold a most frequent word, unless it is the last, which has no string
\* (predict_top_lmas, get_top_lemmas).
PredictionsComplete ==
  Built /\ NoSkippedLength =>
    /\ \A i \in Ids : \A n \in 1..Len(lemmas[i].word) - 1 :
         LET hzs == SubSeq(lemmas[i].word, 1, n)
         IN ToSet(ListPredict(dict.list, hzs, {}, 50)) =
              {SubSeq(lemmas[j].word, n + 1, Len(lemmas[j].word)) :
                 j \in {j \in Ids : /\ Len(lemmas[j].word) > n
                                    /\ SubSeq(lemmas[j].word, 1, n) = hzs}}
    /\ \E i \in Ids :
         /\ \A j \in Ids : lemmas[j].freq <= lemmas[i].freq
         /\ i = Max(Ids) \/ lemmas[i].word \in ToSet(PredictTopLmas(dict, 50))

=============================================================================
