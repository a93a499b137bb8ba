-------------------------- MODULE UserDictMapProofs --------------------------
(***************************************************************************)
(* The user dictionary implements UserDictMap: what each of its operations *)
(* does to the lemmas and scores an image stands for and to those queued   *)
(* for synchronization, in memory and in the file.                         *)
(***************************************************************************)
EXTENDS UserDictProofs

\* The longer of two lemmas begins with all of the shorter.
Begins(x, y) ==
  /\ Len(x.spell) <= Len(y.spell)
  /\ \A k \in 1..Len(x.spell) : y.spell[k] = x.spell[k] /\ y.word[k] = x.word[k]

\* No lemma begins another: without this a put may take the longer for the shorter one.
NoLemmaBeginsAnother == \A x, y \in Lemmas : Begins(x, y) => x = y

\* The entries that count: those without the removed flag.
Live(d) == {i \in Indexes(d) : ~d.offsets[i].removed}

---------------------------------------------------------------------------
\* locate_in_offsets finds the lemma, exactly where it is in the index without the removed flag.
LEMMA LocateExact ==
  ASSUME NoLemmaBeginsAnother, NEW d, Sound(d), Searchable(d), NEW lemma \in Lemmas,
         NEW i, i = LocateInOffsets(d, lemma)
  PROVE  \/ i = 0 /\ Absent(d, lemma)
         \/ i \in Live(d) /\ LemmaOf(d, i) = lemma /\ i # 0
<1> DEFINE n == Len(lemma.spell)
           q == SearchFor(lemma.spell)
           range == RangeOf(d, n, q)
           cached == Lookup(d.cache[n], q.sig)
           live == LiveIn(d, range)
           stops == {j \in live : cached = {} /\ FuzzyCompare(SpellOf(d, j), n, q) # 0}
           found == {j \in live : /\ EqualSpell(SpellOf(d, j), n, q)
                                  /\ SubSeq(LemmaOf(d, j).word, 1, n) = lemma.word
                                  /\ \A s \in stops : j < s}
<1>1. n \in 1..kMaxLemmaSize
  BY InputsAssumption
<1>2. LocateInOffsets(d, lemma) = IF range.start = 0 \/ found = {} THEN 0 ELSE Min(found)
  BY DEF LocateInOffsets, RangeOf
<1>3. /\ BlockSound(d) /\ IndexSound(d) /\ CachesSound(d)
      /\ Sorted(d) /\ CachesTrue(d)
  BY DEF Sound, Searchable, Ordered
<1>4. PICK m \in Nat : m = Len(d.offsets) /\ Indexes(d) = 1..m
  BY <1>3, IndexLen DEF Indexes
<1>5. /\ lemma.spell \in Seq(DOMAIN Initial) /\ lemma.word \in Seq(Nat)
      /\ Len(lemma.word) = n
  BY SpellingsAssumption
<1>6. /\ q.sig = Letters(lemma.spell) /\ q.sig \in Seq(Nat) /\ Len(q.sig) = n
      /\ q.match = [k \in 1..n |-> {lemma.spell[k]}]
  BY <1>5, LettersOf, SearchForLetters
<1> HIDE DEF n, q
<1>7. range.start \in Nat /\ range.count \in Nat /\ range.start + range.count <= m + 1
  BY <1>1, <1>3, <1>4, RangeInIndex
<1>8. range.start # 0 => LongIn(d, q.sig, range)
  BY <1>1, <1>3, <1>6, RangeCovers
<1>9. ASSUME range.start # 0, NEW j \in found
      PROVE  j \in Live(d) /\ LemmaOf(d, j) = lemma /\ j \in 1..m
  <2>1. /\ j \in range.start..(range.start + range.count - 1) /\ ~d.offsets[j].removed
        /\ EqualSpell(SpellOf(d, j), n, q) /\ SubSeq(LemmaOf(d, j).word, 1, n) = lemma.word
    BY DEF LiveIn
  <2> HIDE DEF range, found
  <2>2. j \in 1..m /\ range.start <= j /\ j < range.start + range.count
    BY <1>7, <1>9, <2>1
  <2>3. j \in Indexes(d)
    BY <1>4, <2>2
  <2>4. n <= Len(SigAt(d, j))
    BY <1>6, <1>8, <1>9, <2>2, <2>3, Zenon DEF LongIn
  <2>5. LemmaOf(d, j) \in Lemmas /\ SpellOf(d, j) \in Seq(DOMAIN Initial)
    BY <1>3, <2>3, EntryTypes
  <2>6. Len(SigAt(d, j)) = Len(SpellOf(d, j))
    BY <2>5, LettersOf, Zenon DEF SigAt
  <2> DEFINE w == LemmaOf(d, j).word
             s == LemmaOf(d, j).spell
  <2>7. w \in Seq(Nat) /\ Len(w) = Len(s) /\ s = SpellOf(d, j)
    BY <2>5, SpellingsAssumption DEF SpellOf
  <2>8. n <= Len(s) /\ n \in Nat
    BY <1>1, <2>4, <2>6, <2>7
  <2> HIDE DEF w
  <2>9. \A k \in 1..n : s[k] = lemma.spell[k]
    <3>1. Len(q.match) = n
      BY <1>1, <1>6
    <3> HIDE DEF s
    <3> QED BY <1>6, <2>1, <2>7, <3>1 DEF EqualSpell
  <2>10. \A k \in 1..n : w[k] = lemma.word[k]
    <3>1. SubSeq(w, 1, n) = lemma.word
      BY <2>1 DEF w
    <3>2. n <= Len(w)
      BY <2>7, <2>8
    <3> HIDE DEF s
    <3>3. \A k \in 1..n : SubSeq(w, 1, n)[k] = w[k]
      BY <2>7, <2>8, <3>2
    <3> QED BY <3>1, <3>3
  <2>11. Begins(lemma, LemmaOf(d, j))
    BY <2>8, <2>9, <2>10 DEF Begins, n, w
  <2>12. LemmaOf(d, j) = lemma
    BY <2>5, <2>11 DEF NoLemmaBeginsAnother
  <2> QED BY <2>1, <2>2, <2>3, <2>12 DEF Live
<1> HIDE DEF found, range
<1>10. CASE range.start = 0 \/ found = {}
  <2>1. i = 0
    BY <1>2, <1>10
  <2> QED BY <2>1, MissedIsAbsent
<1>11. CASE ~(range.start = 0 \/ found = {})
  <2>1. i = Min(found)
    BY <1>2, <1>11
  <2>2. found \in SUBSET Nat
    BY <1>9, <1>11
  <2>3. i \in found
    BY <1>11, <2>1, <2>2, MinNat
  <2> QED BY <1>9, <1>11, <2>3
<1> QED
  BY <1>10, <1>11

---------------------------------------------------------------------------
\* What an image stands for, in parts.
Entry(d, i) == [lemma |-> LemmaOf(d, i), score |-> d.offsets[i].score]
EntriesOf(d) == {Entry(d, i) : i \in Live(d)}
LiveLemmas(d) == {LemmaOf(d, i) : i \in Live(d)}
Listed(d) == {d.lemmas[pos] : pos \in ToSet(d.syncs) \cap DOMAIN d.lemmas}

\* Copy is made of these parts, and it is never the value of a closed dictionary.
LEMMA CopyParts ==
  ASSUME NEW d
  PROVE  /\ Copy(d) = [entries |-> EntriesOf(d), queue |-> Listed(d) \cap LiveLemmas(d)]
         /\ Copy(d).entries = EntriesOf(d) /\ Copy(d).queue = Listed(d) \cap LiveLemmas(d)
         /\ Map!Known(Copy(d)) = LiveLemmas(d) /\ Copy(d) # NoDict
<1>1. Copy(d) = [entries |-> EntriesOf(d), queue |-> Listed(d) \cap LiveLemmas(d)]
  BY DEF Copy, EntriesOf, LiveLemmas, Listed, Entry, Live
<1>2. Map!Known(Copy(d)) = LiveLemmas(d)
  <2>1. Map!Known(Copy(d)) = {e.lemma : e \in EntriesOf(d)}
    BY <1>1 DEF Map!Known
  <2>2. \A i \in Live(d) : Entry(d, i).lemma = LemmaOf(d, i)
    BY DEF Entry
  <2> QED BY <2>1, <2>2 DEF EntriesOf, LiveLemmas
<1>3. Copy(d) # NoDict
  <2>1. "entries" \in DOMAIN Copy(d)
    BY <1>1
  <2>2. "entries" \notin DOMAIN NoDict
    BY DEF NoDict
  <2> QED BY <2>1, <2>2
<1> QED
  BY <1>1, <1>2, <1>3

\* Equal indexes, blocks and sync lists stand for the same.
LEMMA SameCopy ==
  ASSUME NEW d, NEW r, r.offsets = d.offsets, r.lemmas = d.lemmas, r.syncs = d.syncs
  PROVE  Copy(r) = Copy(d)
  BY DEF Copy, LemmaOf, Indexes

\* A load of what an image is in the file stands for what the image stood for.
LEMMA LoadCopy ==
  ASSUME NEW d, IndexSound(d), NEW f, f.offsets = FlagsOf(d), f.scores = ScoresOf(d),
         f.lemmas = d.lemmas, f.syncs = d.syncs
  PROVE  Copy(Load(f)) = Copy(d)
<1>1. PICK n \in Nat : n = Len(d.offsets) /\ Indexes(d) = 1..n
  BY IndexLen DEF Indexes
<1>2. d.offsets \in [1..n -> IndexRecords(n)]
  BY <1>1 DEF IndexSound, IndexRecords
<1>3. /\ f.offsets = [i \in 1..n |-> [pos |-> d.offsets[i].pos, removed |-> d.offsets[i].removed]]
      /\ f.scores = [i \in 1..n |-> d.offsets[i].score]
  BY <1>1 DEF FlagsOf, FlagOf, ScoresOf
<1>4. f.offsets \in [1..n -> FlagRecords] /\ f.scores \in [1..n -> Scores]
  <2>1. \A i \in 1..n : d.offsets[i] \in IndexRecords(n)
    BY <1>2
  <2>2. \A i \in 1..n : [pos |-> d.offsets[i].pos, removed |-> d.offsets[i].removed] \in FlagRecords
    BY <2>1 DEF IndexRecords, FlagRecords
  <2>3. \A i \in 1..n : d.offsets[i].score \in Scores
    BY <2>1 DEF IndexRecords
  <2> QED BY <1>3, <2>2, <2>3
<1> DEFINE r == Load(f)
<1>5. Loaded(f, n, r)
  BY <1>4, LoadFields
<1> HIDE DEF r
<1>6. /\ Indexes(r) = 1..n /\ r.lemmas = d.lemmas /\ r.syncs = d.syncs
      /\ \A i \in 1..n : /\ r.offsets[i].pos = d.offsets[i].pos
                         /\ r.offsets[i].removed = d.offsets[i].removed
                         /\ r.offsets[i].score = d.offsets[i].score
  <2>1. Indexes(r) = 1..n /\ r.lemmas = d.lemmas /\ r.syncs = d.syncs
    BY <1>5 DEF Loaded
  <2>2. \A i \in 1..n : r.offsets[i] = [pos |-> f.offsets[i].pos, removed |-> f.offsets[i].removed,
                                        score |-> f.scores[i], id |-> i]
    BY <1>5 DEF Loaded
  <2>3. \A i \in 1..n : /\ f.offsets[i].pos = d.offsets[i].pos
                         /\ f.offsets[i].removed = d.offsets[i].removed
                         /\ f.scores[i] = d.offsets[i].score
    BY <1>3
  <2>4. ASSUME NEW i \in 1..n
        PROVE  /\ r.offsets[i].pos = d.offsets[i].pos
               /\ r.offsets[i].removed = d.offsets[i].removed
               /\ r.offsets[i].score = d.offsets[i].score
    <3>1. r.offsets[i] = [pos |-> f.offsets[i].pos, removed |-> f.offsets[i].removed,
                          score |-> f.scores[i], id |-> i]
      BY <2>2
    <3> QED BY <2>3, <3>1
  <2> QED BY <2>1, <2>4
<1>7. /\ Live(r) = Live(d)
      /\ \A i \in Live(d) : LemmaOf(r, i) = LemmaOf(d, i) /\ Entry(r, i) = Entry(d, i)
  BY <1>1, <1>6 DEF Live, LemmaOf, Entry
<1>8. EntriesOf(r) = EntriesOf(d) /\ LiveLemmas(r) = LiveLemmas(d) /\ Listed(r) = Listed(d)
  BY <1>6, <1>7 DEF EntriesOf, LiveLemmas, Listed
<1> QED
  BY <1>8, CopyParts DEF r

\* Writing an image leaves a valid file that stands for what the image stood for.
LEMMA WrittenCopy ==
  ASSUME ~FileSound(NoFile), NEW d, Storable(d), NEW f, FileSound(f), Saved(d, f),
         d.syncs_null = FALSE \/ d.syncs = <<>>, NEW w, w = WriteBack(d, f)
  PROVE  /\ FileSound(w) /\ Validated(w) = w /\ Copy(Load(w)) = Copy(d)
<1>1. IndexSound(d) /\ d.state \in USER_DICT_SYNC..USER_DICT_DEFRAGMENTED
  BY DEF Storable, CountersSound
<1>2. CASE d.state = USER_DICT_SYNC
  <2>1. w = f
    BY <1>2, WriteBackCases
  <2>2. f.offsets = FlagsOf(d) /\ f.scores = ScoresOf(d) /\ f.lemmas = d.lemmas /\ f.syncs = d.syncs
    BY <1>2 DEF Saved, USER_DICT_SYNC, USER_DICT_SCORE_DIRTY, USER_DICT_OFFSET_DIRTY,
                USER_DICT_LEMMA_DIRTY
  <2>3. Copy(Load(f)) = Copy(d)
    BY <1>1, <2>2, LoadCopy
  <2> QED BY <2>1, <2>3 DEF Validated
<1>3. CASE d.state # USER_DICT_SYNC
  <2>1. w = FileOf(d)
    BY <1>3, WriteBackCases
  <2>2. FileSound(w)
    BY <2>1, StoredFile
  <2>3. w.offsets = FlagsOf(d) /\ w.scores = ScoresOf(d) /\ w.lemmas = d.lemmas /\ w.syncs = d.syncs
    BY <2>1 DEF FileOf
  <2>4. Copy(Load(w)) = Copy(d)
    BY <1>1, <2>3, LoadCopy
  <2> QED BY <2>2, <2>4 DEF Validated
<1> QED
  BY <1>2, <1>3

\* flush_cache changes nothing of what the image stands for, and the file stands for the same.
LEMMA FlushCopy ==
  ASSUME ~FileSound(NoFile), NEW d, Storable(d), NEW f, FileSound(f), Saved(d, f),
         d.syncs_null = FALSE \/ d.syncs = <<>>, NEW r, r = FlushCache(d, f)
  PROVE  /\ r.dict = Load(r.file) /\ Validated(r.file) = r.file
         /\ Copy(r.dict) = Copy(d)
<1> DEFINE w == WriteBack(d, f)
<1>1. FileSound(w) /\ Validated(w) = w /\ Copy(Load(w)) = Copy(d)
  BY WrittenCopy
<1>2. r = [dict |-> Load(Validated(w)), file |-> Validated(w)]
  BY DEF FlushCache
<1> HIDE DEF w
<1> QED
  BY <1>1, <1>2

---------------------------------------------------------------------------
\* The index of r is that of d with one lemma's score set, at j.
EntrySet(d, r, j, lemma, score) ==
  /\ j \in Live(r) /\ Entry(r, j) = [lemma |-> lemma, score |-> score]
  /\ \A i \in Live(r) : i # j =>
       \E k \in Live(d) : Entry(r, i) = Entry(d, k) /\ LemmaOf(d, k) # lemma
  /\ \A k \in Live(d) : LemmaOf(d, k) # lemma => \E i \in Live(r) : Entry(r, i) = Entry(d, k)

LEMMA SetEntries ==
  ASSUME NEW d, NEW r, NEW j, NEW lemma, NEW score, EntrySet(d, r, j, lemma, score)
  PROVE  /\ EntriesOf(r) = Map!Set(EntriesOf(d), lemma, score)
         /\ LiveLemmas(r) = LiveLemmas(d) \cup {lemma}
<1> DEFINE new == [lemma |-> lemma, score |-> score]
           others == {e \in EntriesOf(d) : e.lemma # lemma}
<1> USE DEF EntrySet
<1>1. \A x, k : Entry(x, k).lemma = LemmaOf(x, k)
  BY DEF Entry
<1>2. Map!Set(EntriesOf(d), lemma, score) = others \cup {new}
  BY DEF Map!Set
<1>3. EntriesOf(r) \subseteq others \cup {new}
  <2> SUFFICES ASSUME NEW i \in Live(r), Entry(r, i) # new PROVE Entry(r, i) \in others
    BY DEF EntriesOf
  <2>1. PICK k \in Live(d) : Entry(r, i) = Entry(d, k) /\ LemmaOf(d, k) # lemma
    OBVIOUS
  <2> QED BY <1>1, <2>1 DEF EntriesOf
<1>4. others \cup {new} \subseteq EntriesOf(r)
  <2> SUFFICES ASSUME NEW k \in Live(d), Entry(d, k).lemma # lemma
               PROVE  Entry(d, k) \in EntriesOf(r)
    BY DEF EntriesOf
  <2>1. PICK i \in Live(r) : Entry(r, i) = Entry(d, k)
    BY <1>1
  <2> QED BY <2>1 DEF EntriesOf
<1>5. /\ LiveLemmas(r) = {e.lemma : e \in EntriesOf(r)}
      /\ LiveLemmas(d) = {e.lemma : e \in EntriesOf(d)}
  BY <1>1 DEF EntriesOf, LiveLemmas
<1>6. new.lemma = lemma
  OBVIOUS
<1> HIDE DEF new
<1>7. LiveLemmas(r) = LiveLemmas(d) \cup {lemma}
  BY <1>3, <1>4, <1>5, <1>6
<1> QED
  BY <1>2, <1>3, <1>4, <1>7 DEF new

\* A new score of a live entry.
LEMMA RescoreCopy ==
  ASSUME NEW d, Sound(d), Single(d), NEW i \in Live(d), NEW score \in Scores, NEW r,
         r = Rescored(d, i, score)
  PROVE  /\ Copy(r) = [entries |-> Map!Set(Copy(d).entries, LemmaOf(d, i), score),
                       queue |-> Copy(d).queue]
         /\ r.lemmas = d.lemmas /\ r.syncs = d.syncs /\ LiveLemmas(r) = LiveLemmas(d)
         /\ Live(r) = Live(d) /\ LemmaOf(r, i) = LemmaOf(d, i)
         /\ Keeps(d, r, {"state", "offsets"})
<1>1. PICK n \in Nat : n = Len(d.offsets) /\ Indexes(d) = 1..n
  BY IndexLen DEF Indexes, Sound
<1>2. d.offsets \in [1..n -> IndexRecords(n)] /\ i \in 1..n
  BY <1>1 DEF IndexSound, IndexRecords, Sound, Live
<1>3. /\ Keeps(d, r, {"state", "offsets"})
      /\ r.offsets = [d.offsets EXCEPT ![i] = [@ EXCEPT !.score = score]]
  BY <1>1, <1>2, ScoreFields
<1>4. r.lemmas = d.lemmas /\ r.syncs = d.syncs
  BY <1>3 DEF Keeps, Fields
<1>5. /\ Len(r.offsets) = n /\ \A k \in 1..n : k # i => r.offsets[k] = d.offsets[k]
      /\ r.offsets[i] = [d.offsets[i] EXCEPT !.score = score]
  <2>1. r.offsets \in [1..n -> IndexRecords(n)]
    <3>1. [d.offsets[i] EXCEPT !.score = score] \in IndexRecords(n)
      BY <1>2 DEF IndexRecords
    <3> QED BY <1>2, <1>3, <3>1
  <2>2. Len(r.offsets) = n
    BY <2>1
  <2> QED BY <1>2, <1>3, <2>2
<1>6. d.offsets[i] \in IndexRecords(n)
  BY <1>2
<1>7. /\ r.offsets[i].pos = d.offsets[i].pos /\ r.offsets[i].removed = d.offsets[i].removed
      /\ r.offsets[i].score = score
  BY <1>5, <1>6 DEF IndexRecords
<1>8. Live(r) = Live(d) /\ \A k \in 1..n : LemmaOf(r, k) = LemmaOf(d, k)
  BY <1>1, <1>4, <1>5, <1>7 DEF Live, LemmaOf, Indexes
<1>9. \A k \in Live(d) : k # i => Entry(r, k) = Entry(d, k) /\ LemmaOf(d, k) # LemmaOf(d, i)
  BY <1>1, <1>5, <1>8 DEF Live, Entry, Single
<1>10. Entry(r, i) = [lemma |-> LemmaOf(d, i), score |-> score]
  BY <1>2, <1>7, <1>8 DEF Entry
<1>11. EntriesOf(r) = Map!Set(EntriesOf(d), LemmaOf(d, i), score)
  <2>1. EntrySet(d, r, i, LemmaOf(d, i), score)
    BY <1>8, <1>9, <1>10 DEF EntrySet
  <2> QED BY <2>1, SetEntries
<1>12. LiveLemmas(r) = LiveLemmas(d)
  BY <1>1, <1>8 DEF LiveLemmas, Live
<1>13. Listed(r) = Listed(d)
  BY <1>4 DEF Listed
<1>14. /\ Copy(r) = [entries |-> EntriesOf(r), queue |-> Listed(r) \cap LiveLemmas(r)]
       /\ Copy(d).entries = EntriesOf(d) /\ Copy(d).queue = Listed(d) \cap LiveLemmas(d)
  BY CopyParts
<1>15. Copy(r) = [entries |-> Map!Set(Copy(d).entries, LemmaOf(d, i), score),
                  queue |-> Copy(d).queue]
  BY <1>11, <1>12, <1>13, <1>14, Zenon
<1> QED
  BY <1>2, <1>3, <1>4, <1>8, <1>12, <1>15, Zenon

---------------------------------------------------------------------------
\* An element appended to a list is one more element of it.
LEMMA AppendedElements ==
  ASSUME NEW V, NEW s \in Seq(V), NEW e
  PROVE  ToSet(Append(s, e)) = ToSet(s) \cup {e}
<1>1. PICK n \in Nat : n = Len(s) /\ DOMAIN s = 1..n
  OBVIOUS
<1>2. DOMAIN Append(s, e) = 1..n + 1 /\ Append(s, e)[n + 1] = e
      /\ \A i \in 1..n : Append(s, e)[i] = s[i]
  BY <1>1
<1>3. 1..n + 1 = (1..n) \cup {n + 1}
  BY <1>1
<1> QED
  BY <1>1, <1>2, <1>3 DEF ToSet

\* queue_lemma_for_sync: a live lemma is queued.
LEMMA QueueCopy ==
  ASSUME NEW d, NEW V, d.syncs \in Seq(V), NEW pos \in DOMAIN d.lemmas,
         d.lemmas[pos] \in LiveLemmas(d), NEW r, r.offsets = d.offsets, r.lemmas = d.lemmas,
         r.syncs = Append(d.syncs, pos)
  PROVE  /\ EntriesOf(r) = EntriesOf(d) /\ LiveLemmas(r) = LiveLemmas(d)
         /\ Copy(r) = [entries |-> Copy(d).entries,
                       queue |-> Copy(d).queue \cup {d.lemmas[pos]}]
<1>1. ToSet(r.syncs) = ToSet(d.syncs) \cup {pos}
  BY AppendedElements
<1>2. Listed(r) = Listed(d) \cup {d.lemmas[pos]}
  BY <1>1 DEF Listed
<1>3. /\ Live(r) = Live(d)
      /\ \A i \in Live(d) : LemmaOf(r, i) = LemmaOf(d, i) /\ Entry(r, i) = Entry(d, i)
  BY DEF Live, LemmaOf, Entry, Indexes
<1>4. EntriesOf(r) = EntriesOf(d) /\ LiveLemmas(r) = LiveLemmas(d)
  BY <1>3 DEF EntriesOf, LiveLemmas
<1>5. Listed(r) \cap LiveLemmas(r) = (Listed(d) \cap LiveLemmas(d)) \cup {d.lemmas[pos]}
  BY <1>2, <1>4
<1>6. /\ Copy(r) = [entries |-> EntriesOf(r), queue |-> Listed(r) \cap LiveLemmas(r)]
      /\ Copy(d).entries = EntriesOf(d) /\ Copy(d).queue = Listed(d) \cap LiveLemmas(d)
  BY CopyParts
<1> QED
  BY <1>4, <1>5, <1>6, Zenon

\* append_a_lemma: one more entry, and the lemma is queued only if a sync entry that pointed
\* past the block now points at it.
Appended(d, lemma, score, r) ==
  /\ Copy(r).entries = Map!Set(Copy(d).entries, lemma, score)
  /\ Copy(r).queue \in {Copy(d).queue, Copy(d).queue \cup {lemma}}
  /\ LiveLemmas(r) = LiveLemmas(d) \cup {lemma}
  /\ d.lemma_size \in DOMAIN r.lemmas /\ r.lemmas[d.lemma_size] = lemma
  /\ r.by_id[Len(r.by_id)] = d.lemma_size
  /\ r.syncs = d.syncs /\ r.syncs_null = d.syncs_null
  /\ r.count_left = d.count_left - 1
  /\ r.size_left = d.size_left - LemmaBytes(Len(lemma.spell))

LEMMA AppendCopy ==
  ASSUME NEW d, Sound(d), Len(d.offsets) < MaxLemmas, NEW lemma \in Lemmas, Absent(d, lemma),
         NEW score \in Scores, NEW r, r = AppendALemma(d, lemma, score)
  PROVE  Appended(d, lemma, score, r)
<1> DEFINE n == Len(d.offsets)
           e == NewEntry(d, score)
           size == d.lemma_size
<1>1. PICK at, j \in 1..Len(d.offsets) + 1 :
        /\ Keeps(d, r, {"state", "lemmas", "lemma_size", "offsets", "by_id", "predicts",
                        "count_left", "size_left", "cache", "miss"})
        /\ r.lemmas = WithBlock(d.lemmas, d.lemma_size, lemma)
        /\ r.lemma_size = d.lemma_size + LemmaBytes(Len(lemma.spell))
        /\ r.offsets = InsertAt(d.offsets, at, NewEntry(d, score))
        /\ r.by_id = Append(d.by_id, d.lemma_size)
        /\ r.predicts = InsertAt(d.predicts, j, FlagOf(NewEntry(d, score)))
        /\ r.count_left = d.count_left - 1
        /\ r.size_left = d.size_left - LemmaBytes(Len(lemma.spell))
        /\ r.cache = NoCache
        /\ r.state = IF d.state >= USER_DICT_LEMMA_DIRTY THEN d.state ELSE USER_DICT_LEMMA_DIRTY
        /\ at = InsertPlace(d, lemma) /\ r.miss = NoCache
  BY AppendFields
<1>2. BlockSound(d) /\ IndexSound(d) /\ n \in Nat /\ n < MaxLemmas
  BY IndexLen DEF Sound
<1>3. BlockGrown(d, r) /\ size \notin DOMAIN d.lemmas
  BY <1>1, <1>2, AppendedBlock, Zenon
<1>4. /\ DOMAIN r.lemmas = DOMAIN d.lemmas \cup {size}
      /\ \A p \in DOMAIN d.lemmas : r.lemmas[p] = d.lemmas[p]
  BY <1>3 DEF BlockGrown
<1>5. r.lemmas[size] = lemma
  BY <1>1 DEF WithBlock
<1>6. IndexGrows(d, at, score, r)
  BY <1>1, <1>3, <1>4 DEF IndexGrows
<1>7. /\ IndexSound(r) /\ Len(r.offsets) = n + 1
      /\ Grown(IndexRecords(n + 1), n, d.offsets, at, e, r.offsets)
  <2>1. at \in 1..n + 1
    BY <1>1
  <2>2. /\ IndexSound(r) /\ Len(r.offsets) = n + 1
        /\ Grown(IndexRecords(n + 1), n, d.offsets, at, NewEntry(d, score), r.offsets)
    BY <1>2, <1>6, <2>1, AppendedIndex, Zenon
  <2> QED BY <2>2
<1>8. r.by_id[Len(r.by_id)] = size
  <2>1. d.by_id \in [1..n -> Nat] /\ size \in Nat
    BY <1>2 DEF IndexSound, BlockSound, Indexes
  <2>2. Extended(n, d.by_id, size, r.by_id)
    BY <1>1, <1>2, <2>1, AppendedEntry
  <2> QED BY <2>2 DEF Extended
<1>9. r.syncs = d.syncs /\ r.syncs_null = d.syncs_null
  BY <1>1 DEF Keeps, Fields
<1>10. e.pos = size /\ e.removed = FALSE /\ e.score = score
  BY DEF NewEntry
<1> HIDE DEF e, size
<1>11. /\ Indexes(r) = 1..n + 1 /\ Indexes(d) = 1..n /\ at \in 1..n + 1
       /\ r.offsets[at] = e
       /\ \A k \in 1..n + 1 : k # at => \E i \in 1..n : r.offsets[k] = d.offsets[i]
       /\ \A i \in 1..n : \E k \in 1..n + 1 : k # at /\ r.offsets[k] = d.offsets[i]
  BY <1>1, <1>7 DEF Grown, Indexes
<1>12. \A i \in 1..n : d.offsets[i].pos \in DOMAIN d.lemmas
  BY <1>2, <1>11 DEF IndexSound
<1> HIDE DEF n
<1>13. at \in Live(r) /\ Entry(r, at) = [lemma |-> lemma, score |-> score]
  BY <1>5, <1>10, <1>11 DEF Live, Entry, LemmaOf
<1>14. ASSUME NEW k \in 1..n + 1, NEW i \in 1..n, r.offsets[k] = d.offsets[i]
       PROVE  Entry(r, k) = Entry(d, i) /\ (k \in Live(r) <=> i \in Live(d))
  BY <1>4, <1>11, <1>12, <1>14 DEF Live, Entry, LemmaOf
<1>15. \A k \in Live(d) : LemmaOf(d, k) # lemma
  BY DEF Absent, Live
<1>16. \A k \in Live(r) : k # at
         => \E i \in Live(d) : Entry(r, k) = Entry(d, i) /\ LemmaOf(d, i) # lemma
  <2> SUFFICES ASSUME NEW k \in Live(r), k # at
               PROVE  \E i \in Live(d) : Entry(r, k) = Entry(d, i) /\ LemmaOf(d, i) # lemma
    OBVIOUS
  <2>1. k \in 1..n + 1
    BY <1>11 DEF Live
  <2>2. PICK i \in 1..n : r.offsets[k] = d.offsets[i]
    BY <1>11, <2>1
  <2> QED BY <1>14, <1>15, <2>1, <2>2
<1>17. \A i \in Live(d) : LemmaOf(d, i) # lemma => \E k \in Live(r) : Entry(r, k) = Entry(d, i)
  <2> SUFFICES ASSUME NEW i \in Live(d) PROVE \E k \in Live(r) : Entry(r, k) = Entry(d, i)
    OBVIOUS
  <2>1. i \in 1..n
    BY <1>11 DEF Live
  <2>2. PICK k \in 1..n + 1 : r.offsets[k] = d.offsets[i]
    BY <1>11, <2>1
  <2> QED BY <1>14, <2>1, <2>2
<1>18. /\ EntriesOf(r) = Map!Set(EntriesOf(d), lemma, score)
       /\ LiveLemmas(r) = LiveLemmas(d) \cup {lemma}
  <2>1. EntrySet(d, r, at, lemma, score)
    BY <1>13, <1>16, <1>17 DEF EntrySet
  <2> QED BY <2>1, SetEntries
<1>19. Listed(r) = Listed(d) \cup (IF size \in ToSet(d.syncs) THEN {lemma} ELSE {})
  BY <1>3, <1>4, <1>5, <1>9 DEF Listed
<1>20. lemma \notin LiveLemmas(d)
  BY <1>15 DEF LiveLemmas
<1>21. Listed(r) \cap LiveLemmas(r) \in
         {Listed(d) \cap LiveLemmas(d), (Listed(d) \cap LiveLemmas(d)) \cup {lemma}}
  <2> DEFINE more == IF size \in ToSet(d.syncs) THEN {lemma} ELSE {}
  <2>1. more \in {{}, {lemma}}
    OBVIOUS
  <2> HIDE DEF more
  <2> QED BY <1>18, <1>19, <1>20, <2>1 DEF more
<1> QED
  BY <1>1, <1>4, <1>5, <1>8, <1>9, <1>18, <1>21, CopyParts DEF Appended, size

---------------------------------------------------------------------------
\* One entry less is live, and the others are as before.
Dropped(d, i, r) ==
  /\ Indexes(r) = Indexes(d) /\ Live(r) = Live(d) \ {i}
  /\ \A k \in Indexes(d) : LemmaOf(r, k) = LemmaOf(d, k) /\ Entry(r, k) = Entry(d, k)

\* remove_lemma_by_offset_index, of an entry that is live or not.
LEMMA RemoveDrops ==
  ASSUME NEW d, Sound(d), NEW i \in Indexes(d), NEW r, r = RemoveLemmaByOffsetIndex(d, i)
  PROVE  /\ Dropped(d, i, r) /\ r.lemmas = d.lemmas
         /\ LeavesOut(d.syncs, r.syncs, d.offsets[i].pos)
<1>1. /\ Keeps(d, r, {"state", "offsets", "predicts", "syncs", "free_count", "free_size"})
      /\ r.offsets = Marked(d.offsets, i)
      /\ LeavesOut(d.syncs, r.syncs, d.offsets[i].pos)
  BY RemoveFields
<1>2. r.lemmas = d.lemmas
  BY <1>1 DEF Keeps, Fields
<1>3. PICK n \in Nat : /\ n = Len(d.offsets) /\ Indexes(d) = 1..n
                    /\ d.offsets \in [1..n -> IndexRecords(n)]
  <2>1. IndexSound(d)
    BY DEF Sound
  <2>2. PICK n \in Nat : n = Len(d.offsets)
    BY <2>1, IndexLen
  <2> QED BY <2>1, <2>2 DEF IndexSound, Indexes, IndexRecords
<1>4. /\ r.offsets \in [1..n -> IndexRecords(n)]
      /\ \A k \in 1..n : k # i => r.offsets[k] = d.offsets[k]
      /\ r.offsets[i] = [pos |-> d.offsets[i].pos, removed |-> TRUE,
                         score |-> d.offsets[i].score, id |-> d.offsets[i].id]
  BY <1>1, <1>3, MarkedEntries
<1>5. Len(r.offsets) = n
  BY <1>1, <1>3 DEF Marked
<1>6. \A k \in 1..n : /\ r.offsets[k].pos = d.offsets[k].pos
                      /\ r.offsets[k].score = d.offsets[k].score
                      /\ k # i => r.offsets[k].removed = d.offsets[k].removed
  BY <1>3, <1>4
<1>7. r.offsets[i].removed
  BY <1>4
<1>8. Indexes(r) = Indexes(d) /\ Live(r) = Live(d) \ {i}
  BY <1>3, <1>5, <1>6, <1>7 DEF Live, Indexes
<1>9. \A k \in Indexes(d) : LemmaOf(r, k) = LemmaOf(d, k) /\ Entry(r, k) = Entry(d, k)
  BY <1>2, <1>3, <1>6 DEF LemmaOf, Entry
<1> QED
  BY <1>1, <1>2, <1>8, <1>9 DEF Dropped

\* Removing a lemma takes it out of the entries and of the queue.
LEMMA RemoveCopy ==
  ASSUME NEW d, Sound(d), Single(d), NEW i \in Live(d), NEW lemma, lemma = LemmaOf(d, i),
         NEW r, r = RemoveLemmaByOffsetIndex(d, i)
  PROVE  Copy(r) = [entries |-> {e \in Copy(d).entries : e.lemma # lemma},
                    queue |-> Copy(d).queue \ {lemma}]
<1>1. i \in Indexes(d)
  BY DEF Live
<1>2. /\ Dropped(d, i, r) /\ r.lemmas = d.lemmas
      /\ LeavesOut(d.syncs, r.syncs, d.offsets[i].pos)
  BY <1>1, RemoveDrops
<1>3. \A k \in Live(d) : k # i => LemmaOf(d, k) # lemma
  BY DEF Live, Single
<1>4. /\ Live(r) = Live(d) \ {i} /\ Live(d) \subseteq Indexes(d)
      /\ \A k \in Live(d) : /\ LemmaOf(r, k) = LemmaOf(d, k)
                            /\ Entry(r, k) = Entry(d, k) /\ Entry(d, k).lemma = LemmaOf(d, k)
  BY <1>2 DEF Dropped, Live, Entry
<1>5. EntriesOf(r) = {e \in EntriesOf(d) : e.lemma # lemma}
  BY <1>3, <1>4 DEF EntriesOf
<1>6. LiveLemmas(r) = LiveLemmas(d) \ {lemma}
  BY <1>3, <1>4 DEF LiveLemmas
<1>7. d.lemmas[d.offsets[i].pos] = lemma
  BY DEF LemmaOf
<1>8. Listed(r) \subseteq Listed(d) /\ Listed(d) \subseteq Listed(r) \cup {lemma}
  BY <1>2, <1>7 DEF LeavesOut, Listed
<1>9. Listed(r) \cap LiveLemmas(r) = (Listed(d) \cap LiveLemmas(d)) \ {lemma}
  BY <1>6, <1>8
<1>10. /\ Copy(r) = [entries |-> EntriesOf(r), queue |-> Listed(r) \cap LiveLemmas(r)]
       /\ Copy(d).entries = EntriesOf(d) /\ Copy(d).queue = Listed(d) \cap LiveLemmas(d)
  BY CopyParts
<1> QED
  BY <1>5, <1>9, <1>10, Zenon

\* What is left of an image after some of its entries were removed.
Left(d, r) ==
  /\ EntriesOf(r) \subseteq EntriesOf(d)
  /\ EntriesOf(r) = {e \in EntriesOf(d) : e.lemma \in LiveLemmas(r)}

\* reclaim: the lemmas it leaves keep their scores.
LEMMA ReclaimLeft ==
  ASSUME NEW d, Sound(d), Single(d), NEW r, r = Reclaim(d)
  PROVE  Left(d, r) /\ Sound(r) /\ r.lemmas = d.lemmas
<1>1. PICK n \in Nat : n = Len(d.offsets)
  BY IndexLen DEF Sound
<1>2. PICK rc, s, g : Reclaims(d, n, rc, s, g) /\ r = g[rc]
  BY <1>1, ReclaimSteps
<1>3. /\ rc \in Nat /\ rc \in 0..n /\ s \in [1..rc -> 1..n]
      /\ g[0] = d /\ \A k \in 0..rc-1 : g[k+1] = RemoveLemmaByOffsetIndex(g[k], s[k+1])
  BY <1>2 DEF Reclaims
<1> DEFINE After(x) == /\ Sound(x) /\ Indexes(x) = Indexes(d) /\ Live(x) \subseteq Live(d)
                       /\ \A i \in Indexes(d) : /\ LemmaOf(x, i) = LemmaOf(d, i)
                                                /\ Entry(x, i) = Entry(d, i)
                       /\ x.lemmas = d.lemmas
           T == {k \in 0..rc : After(g[k])}
<1>4. 0 \in T
  BY <1>3
<1>5. ASSUME NEW k \in 0..rc-1, k \in T PROVE k + 1 \in T
  <2> DEFINE x == g[k]
             i == s[k+1]
             y == g[k+1]
  <2>1. After(x)
    BY <1>5
  <2>2. k + 1 \in 1..rc /\ k + 1 \in 0..rc
    BY <1>3
  <2>3. i \in 1..n
    BY <1>3, <2>2
  <2>4. y = RemoveLemmaByOffsetIndex(x, i)
    BY <1>3
  <2> HIDE DEF x, y, i
  <2>5. i \in Indexes(x)
    BY <1>1, <2>1, <2>3 DEF Indexes
  <2>6. Sound(y)
    BY <2>1, <2>4, <2>5, RemoveSound
  <2>7. Dropped(x, i, y) /\ y.lemmas = x.lemmas
    BY <2>1, <2>4, <2>5, RemoveDrops
  <2>8. After(y)
    BY <2>1, <2>6, <2>7 DEF Dropped
  <2> HIDE DEF After
  <2> QED BY <2>2, <2>8 DEF y
<1> HIDE DEF T
<1>6. \A k \in 0..rc : k \in T
  BY <1>3, <1>4, <1>5, UpTo
<1>7. After(r)
  BY <1>2, <1>3, <1>6 DEF T
<1>8. \A i \in Live(d) : Entry(d, i).lemma = LemmaOf(d, i)
  BY DEF Entry
<1>9. Live(d) \subseteq Indexes(d)
  BY DEF Live
<1>10. EntriesOf(r) \subseteq {e \in EntriesOf(d) : e.lemma \in LiveLemmas(r)}
  BY <1>7, <1>8, <1>9 DEF EntriesOf, LiveLemmas
<1>11. ASSUME NEW i \in Live(d), LemmaOf(d, i) \in LiveLemmas(r) PROVE Entry(d, i) \in EntriesOf(r)
  <2>1. PICK k \in Live(r) : LemmaOf(r, k) = LemmaOf(d, i)
    BY <1>11 DEF LiveLemmas
  <2>2. k \in Live(d) /\ LemmaOf(d, k) = LemmaOf(d, i)
    BY <1>7, <1>9, <2>1
  <2>3. k = i
    BY <2>2 DEF Single, Live
  <2> QED BY <1>7, <1>9, <2>1, <2>2, <2>3 DEF EntriesOf
<1>12. {e \in EntriesOf(d) : e.lemma \in LiveLemmas(r)} \subseteq EntriesOf(r)
  BY <1>8, <1>11 DEF EntriesOf
<1> QED
  BY <1>7, <1>10, <1>12 DEF Left

\* defragment: every live lemma is still there, with its score.
LEMMA DefragmentCopy ==
  ASSUME NEW d, Sound(d), NEW r, r = Defragment(d)
  PROVE  EntriesOf(r) = EntriesOf(d)
<1>1. CASE RemovedPositions(d) = {}
  <2>1. r = d
    BY <1>1 DEF Defragment
  <2> QED BY <2>1
<1>2. CASE RemovedPositions(d) # {}
  <2>1. PICK n \in Nat : n = Len(d.offsets) /\ Indexes(d) = 1..n
    BY IndexLen DEF Sound, Indexes
  <2>2. PICK m, at : DefragmentLists(d, n, m, at, r)
    BY <1>2, <2>1, DefragmentLeaves, Zenon
  <2>3. /\ m \in 0..n /\ at \in [1..m -> 1..n]
        /\ \A k \in 1..m : d.offsets[at[k]].pos \in Kept(d) /\ d.offsets[at[k]].removed = FALSE
        /\ \A p \in Kept(d) : \E k \in 1..m : d.offsets[at[k]].pos = p
    BY <2>2 DEF DefragmentLists, IndexSqueezed, Survivors
  <2>4. r.offsets = [k \in 1..m |-> [pos |-> Closed(d, d.offsets[at[k]].pos), removed |-> FALSE,
                                     score |-> d.offsets[at[k]].score, id |-> k]]
    BY <2>2, Zenon DEF DefragmentLists, IndexSqueezed
  <2>5. \A p \in Kept(d) : r.lemmas[Closed(d, p)] = d.lemmas[p]
    BY <2>2 DEF DefragmentLists, BlockSqueezed
  <2>6. Indexes(r) = 1..m
    BY <2>3, <2>4 DEF Indexes
  <2>7. ASSUME NEW k \in 1..m PROVE at[k] \in Live(d) /\ Entry(r, k) = Entry(d, at[k])
    <3>1. at[k] \in Live(d)
      BY <2>1, <2>3 DEF Live
    <3>2. /\ r.offsets[k].pos = Closed(d, d.offsets[at[k]].pos)
          /\ r.offsets[k].score = d.offsets[at[k]].score
      BY <2>4
    <3>3. LemmaOf(r, k) = LemmaOf(d, at[k])
      BY <2>3, <2>5, <3>2 DEF LemmaOf
    <3> QED BY <3>1, <3>2, <3>3 DEF Entry
  <2>8. Live(r) = 1..m
    BY <2>4, <2>6 DEF Live
  <2>9. ASSUME NEW i \in Live(d) PROVE \E k \in 1..m : at[k] = i
    <3>1. /\ \A j \in Indexes(d) : d.offsets[i].pos = d.offsets[j].pos => i = j
          /\ d.offsets[i].pos \in DOMAIN d.lemmas /\ i \in Indexes(d)
      BY DEF Live, Sound, IndexSound
    <3>2. d.offsets[i].pos \notin RemovedPositions(d)
      <4>1. \A j \in Indexes(d) : d.offsets[j].removed => j # i
        BY DEF Live
      <4> QED BY <3>1, <4>1 DEF RemovedPositions
    <3>3. PICK k \in 1..m : d.offsets[at[k]].pos = d.offsets[i].pos
      BY <2>3, <3>1, <3>2 DEF Kept
    <3>4. at[k] \in Indexes(d)
      BY <2>1, <2>3
    <3> QED BY <3>1, <3>3, <3>4
  <2> QED BY <2>7, <2>8, <2>9 DEF EntriesOf
<1> QED
  BY <1>1, <1>2

---------------------------------------------------------------------------
\* What _put_lemma does: it rescores the lemma, or finds no room under the limit, or appends the
\* lemma to an image with room for it.
PutSteps(d, f, lemma, score, r) ==
  \/ \E i \in Live(d) : /\ LemmaOf(d, i) = lemma
                        /\ r = [dict |-> Rescored(d, i, score), file |-> f, ok |-> TRUE]
  \/ Absent(d, lemma) /\ r = [dict |-> d, file |-> f, ok |-> FALSE]
  \/ /\ Absent(d, lemma)
     /\ \E room, added :
          /\ room = IF Full(d, lemma) THEN FlushCache(d, f) ELSE [dict |-> d, file |-> f]
          /\ HasRoom(room, lemma) /\ Absent(room.dict, lemma)
          /\ added = AppendALemma(room.dict, lemma, score)
          /\ r = [dict |-> IF added.syncs_null THEN added
                           ELSE QueueLemmaForSync(added, Len(added.by_id)),
                  file |-> room.file, ok |-> TRUE]

LEMMA PutTakes ==
  ASSUME NoLemmaBeginsAnother, NEW d, Sound(d), Accounted(d), Searchable(d),
         NEW f, FileSound(f), Saved(d, f), OrderedFile(f),
         NEW lemma \in Lemmas, NEW score \in Scores,
         Len(d.offsets) < MaxLemmas, d.syncs_null \in BOOLEAN,
         d.syncs_null = FALSE => Len(d.syncs) < MaxSyncs,
         NEW r, r = PutLemma_(d, f, lemma, score)
  PROVE  PutSteps(d, f, lemma, score, r)
<1> DEFINE i == LocateInOffsets(d, lemma)
           room == IF Full(d, lemma) THEN FlushCache(d, f) ELSE [dict |-> d, file |-> f]
           added == AppendALemma(room.dict, lemma, score)
           grown == IF added.syncs_null THEN added ELSE QueueLemmaForSync(added, Len(added.by_id))
<1>1. r = IF i # 0 THEN [dict |-> Rescored(d, i, score), file |-> f, ok |-> TRUE]
          ELSE IF OverLimit(d, lemma) THEN [dict |-> d, file |-> f, ok |-> FALSE]
          ELSE [dict |-> grown, file |-> room.file, ok |-> TRUE]
  BY DEF PutLemma_, Rescored
<1>2. \/ i = 0 /\ Absent(d, lemma)
      \/ i \in Live(d) /\ LemmaOf(d, i) = lemma /\ i # 0
  BY LocateExact
<1>3. HasRoom(room, lemma)
  BY RoomSound
<1>4. Absent(d, lemma) => Absent(room.dict, lemma)
  BY RoomSearchable
<1> HIDE DEF i
<1>5. CASE i # 0
  <2>1. r = [dict |-> Rescored(d, i, score), file |-> f, ok |-> TRUE]
    BY <1>1, <1>5
  <2> QED BY <1>2, <1>5, <2>1 DEF PutSteps
<1>6. CASE i = 0 /\ OverLimit(d, lemma)
  <2>1. r = [dict |-> d, file |-> f, ok |-> FALSE]
    BY <1>1, <1>6
  <2> QED BY <1>2, <1>6, <2>1 DEF PutSteps
<1>7. CASE i = 0 /\ ~OverLimit(d, lemma)
  <2>1. r = [dict |-> grown, file |-> room.file, ok |-> TRUE]
    BY <1>1, <1>7
  <2>2. Absent(d, lemma) /\ Absent(room.dict, lemma)
    BY <1>2, <1>4, <1>7
  <2>3. \E x, y : /\ x = room /\ HasRoom(x, lemma) /\ Absent(x.dict, lemma)
                  /\ y = AppendALemma(x.dict, lemma, score)
                  /\ r = [dict |-> IF y.syncs_null THEN y ELSE QueueLemmaForSync(y, Len(y.by_id)),
                          file |-> x.file, ok |-> TRUE]
    BY <1>3, <2>1, <2>2
  <2> QED BY <2>2, <2>3 DEF PutSteps
<1> QED
  BY <1>5, <1>6, <1>7

\* A put in terms of what image and file stand for: a put at the limit changes nothing, and the
\* file changes only by a flush.
PutMeans(d, f, lemma, score, r) ==
  \/ r.dict = d /\ r.file = f
  \/ /\ Copy(r.dict) = [entries |-> Map!Set(Copy(d).entries, lemma, score),
                        queue |-> IF lemma \in LiveLemmas(d) THEN Copy(d).queue
                                  ELSE Copy(d).queue \cup {lemma}]
     /\ Copy(Load(Validated(r.file))) \in {Copy(Load(Validated(f))), Copy(d)}

LEMMA PutCopy ==
  ASSUME NoLemmaBeginsAnother, ~FileSound(NoFile),
         NEW d, Sound(d), Accounted(d), Searchable(d),
         NEW f, FileSound(f), Saved(d, f), OrderedFile(f),
         NEW lemma \in Lemmas, NEW score \in Scores,
         Len(d.offsets) < MaxLemmas, d.syncs_null = FALSE, Len(d.syncs) < MaxSyncs,
         NEW r, r = PutLemma_(d, f, lemma, score)
  PROVE  PutMeans(d, f, lemma, score, r)
<1>1. PutSteps(d, f, lemma, score, r)
  BY PutTakes
<1>2. CASE \E i \in Live(d) : /\ LemmaOf(d, i) = lemma
                              /\ r = [dict |-> Rescored(d, i, score), file |-> f, ok |-> TRUE]
  <2>1. PICK i \in Live(d) : /\ LemmaOf(d, i) = lemma
                             /\ r = [dict |-> Rescored(d, i, score), file |-> f, ok |-> TRUE]
    BY <1>2
  <2>2. Single(d)
    BY DEF Searchable, Ordered
  <2>3. r.dict = Rescored(d, i, score) /\ r.file = f
    BY <2>1
  <2>4. Copy(r.dict) = [entries |-> Map!Set(Copy(d).entries, LemmaOf(d, i), score),
                        queue |-> Copy(d).queue]
    BY <2>2, <2>3, RescoreCopy
  <2>5. lemma \in LiveLemmas(d)
    BY <2>1 DEF LiveLemmas
  <2> QED BY <2>1, <2>3, <2>4, <2>5 DEF PutMeans
<1>3. CASE Absent(d, lemma) /\ r = [dict |-> d, file |-> f, ok |-> FALSE]
  BY <1>3 DEF PutMeans
<1>4. CASE /\ Absent(d, lemma)
           /\ \E room, added :
                /\ room = IF Full(d, lemma) THEN FlushCache(d, f) ELSE [dict |-> d, file |-> f]
                /\ HasRoom(room, lemma) /\ Absent(room.dict, lemma)
                /\ added = AppendALemma(room.dict, lemma, score)
                /\ r = [dict |-> IF added.syncs_null THEN added
                                 ELSE QueueLemmaForSync(added, Len(added.by_id)),
                        file |-> room.file, ok |-> TRUE]
  <2>1. PICK room, added :
          /\ room = IF Full(d, lemma) THEN FlushCache(d, f) ELSE [dict |-> d, file |-> f]
          /\ HasRoom(room, lemma) /\ Absent(room.dict, lemma)
          /\ added = AppendALemma(room.dict, lemma, score)
          /\ r = [dict |-> IF added.syncs_null THEN added
                           ELSE QueueLemmaForSync(added, Len(added.by_id)),
                  file |-> room.file, ok |-> TRUE]
    BY <1>4
  <2> DEFINE x == room.dict
  <2>2. /\ Copy(x) = Copy(d)
        /\ Copy(Load(Validated(room.file))) \in {Copy(Load(Validated(f))), Copy(d)}
    <3>1. CASE Full(d, lemma)
      <4>1. room = FlushCache(d, f) /\ Storable(d)
        BY <2>1, <3>1 DEF Storable, Sound
      <4>2. /\ room.dict = Load(room.file) /\ Validated(room.file) = room.file
            /\ Copy(room.dict) = Copy(d)
        BY <4>1, FlushCopy
      <4> QED BY <4>2
    <3>2. CASE ~Full(d, lemma)
      BY <2>1, <3>2
    <3> QED BY <3>1, <3>2
  <2>3. x.syncs_null = FALSE
    BY <2>1, RoomSound
  <2>4. /\ Sound(x) /\ Accounted(x) /\ FileSound(room.file) /\ Saved(x, room.file)
        /\ Len(x.offsets) < MaxLemmas
        /\ x.count_left > 0 /\ LemmaBytes(Len(lemma.spell)) <= x.size_left
        /\ Len(x.syncs) < MaxSyncs
    BY <2>1, <2>3 DEF HasRoom
  <2>5. room.file.lemma_size \in Nat
    BY <2>4, LoadSound
  <2>6. Absent(x, lemma) /\ added = AppendALemma(x, lemma, score)
    BY <2>1
  <2> HIDE DEF x
  <2>7. Sound(added)
    BY <2>4, <2>5, <2>6, AppendSound
  <2>8. Appended(x, lemma, score, added)
    BY <2>4, <2>6, AppendCopy
  <2> DEFINE pos == x.lemma_size
             y == QueueLemmaForSync(added, Len(added.by_id))
  <2>9. /\ pos \in DOMAIN added.lemmas /\ added.lemmas[pos] = lemma
        /\ lemma \in LiveLemmas(added) /\ added.by_id[Len(added.by_id)] = pos
        /\ added.syncs_null = FALSE
        /\ Copy(added).entries = Map!Set(Copy(x).entries, lemma, score)
        /\ Copy(added).queue \in {Copy(x).queue, Copy(x).queue \cup {lemma}}
    BY <2>3, <2>8 DEF Appended
  <2>10. added.syncs \in Seq(SyncEntries) /\ Fields \subseteq DOMAIN added
    BY <2>7 DEF Sound, CountersSound, SyncEntries
  <2>11. y.offsets = added.offsets /\ y.lemmas = added.lemmas /\ y.syncs = Append(added.syncs, pos)
    BY <2>9, <2>10 DEF QueueLemmaForSync, Fields
  <2>12. r.dict = y /\ r.file = room.file
    BY <2>1, <2>9
  <2> HIDE DEF y, pos
  <2>13. Copy(y) = [entries |-> Copy(added).entries, queue |-> Copy(added).queue \cup {lemma}]
    BY <2>9, <2>10, <2>11, QueueCopy
  <2>14. Copy(added).queue \cup {lemma} = Copy(d).queue \cup {lemma}
    BY <2>2, <2>9
  <2>15. Copy(added).entries = Map!Set(Copy(d).entries, lemma, score)
    BY <2>2, <2>9
  <2>16. lemma \notin LiveLemmas(d)
    BY <1>4 DEF Absent, LiveLemmas, Live
  <2>17. Copy(r.dict) = [entries |-> Map!Set(Copy(d).entries, lemma, score),
                         queue |-> Copy(d).queue \cup {lemma}]
    BY <2>12, <2>13, <2>14, <2>15, Zenon
  <2>18. Copy(Load(Validated(r.file))) \in {Copy(Load(Validated(f))), Copy(d)}
    BY <2>2, <2>12
  <2> QED BY <2>16, <2>17, <2>18 DEF PutMeans
<1> QED
  BY <1>1, <1>2, <1>3, <1>4 DEF PutSteps

---------------------------------------------------------------------------
\* There is still room allocated in advance for each of the lemmas left to merge.
MergeRoom(d) == d.size_left >= d.count_left * LemmaBytes(kUserDictAverageNchar)

\* The room counted for a lemma on the average is enough for the longest.
AverageIsLongest == kMaxLemmaSize <= kUserDictAverageNchar

LEMMA AverageFits ==
  ASSUME AverageIsLongest, NEW lemma \in Lemmas
  PROVE  /\ LemmaBytes(Len(lemma.spell)) \in Nat /\ LemmaBytes(kUserDictAverageNchar) \in Nat
         /\ LemmaBytes(Len(lemma.spell)) <= LemmaBytes(kUserDictAverageNchar)
<1>1. /\ Len(lemma.spell) \in 1..kMaxLemmaSize /\ kMaxLemmaSize \in Nat
      /\ kUserDictAverageNchar \in Nat /\ kMaxLemmaSize <= kUserDictAverageNchar
  BY SizesAssumption, InputsAssumption DEF AverageIsLongest
<1> DEFINE n == Len(lemma.spell)
<1>2. n \in Nat /\ n <= kUserDictAverageNchar
  BY <1>1
<1> HIDE DEF n
<1>3. 2 + 4 * n \in Nat /\ 2 + 4 * kUserDictAverageNchar \in Nat
      /\ 2 + 4 * n <= 2 + 4 * kUserDictAverageNchar
  BY <1>1, <1>2
<1> QED
  BY <1>3 DEF LemmaBytes, n

\* Room for one lemma more.
LEMMA RoomTaken ==
  ASSUME NEW b \in Nat, NEW c \in Nat, c > 0, NEW s \in Nat, s >= c * b, NEW n \in Nat, n <= b
  PROVE  s >= n /\ s - n >= (c - 1) * b
<1>1. (c - 1) * b = c * b - b
  OBVIOUS
<1>2. (c - 1) * b >= 0
  OBVIOUS
<1>3. c * b \in Int
  OBVIOUS
<1> QED
  BY <1>1, <1>2, <1>3

\* One pass of put_lemma_no_sync, in terms of what the image stands for.
Tried(d, lemma, score, r) ==
  /\ \/ /\ r.ok
        /\ Copy(r.dict).entries = Map!Set(Copy(d).entries, lemma, score)
        /\ Copy(r.dict).queue \in {Copy(d).queue, Copy(d).queue \cup {lemma}}
     \/ ~r.ok /\ lemma \notin LiveLemmas(d) /\ Copy(r.dict) = Copy(d)
  /\ MergeRoom(d) => MergeRoom(r.dict)

LEMMA TryCopy ==
  ASSUME NoLemmaBeginsAnother, AverageIsLongest,
         NEW d, Sound(d), Accounted(d), Searchable(d),
         NEW f, FileSound(f), Saved(d, f), OrderedFile(f),
         NEW lemma \in Lemmas, NEW score \in Scores,
         Len(d.offsets) < MaxLemmas, ~Full(d, lemma),
         NEW r, r = PutWithoutSyncs(d, f, lemma, score)
  PROVE  Tried(d, lemma, score, r) /\ r.file = f
<1> DEFINE hidden == [d EXCEPT !.syncs_null = TRUE]
           p == PutLemma_(hidden, f, lemma, score)
           back == RestoreSyncs(p.dict, d.syncs)
<1>1. r = [p EXCEPT !.dict = RestoreSyncs(@, d.syncs)]
  BY DEF PutWithoutSyncs
<1>2. Fields \subseteq DOMAIN d /\ CountersSound(d) /\ CachesSound(d)
  BY DEF Sound
<1>3. Keeps(d, hidden, {"syncs_null"}) /\ hidden.syncs_null = TRUE
  BY <1>2 DEF Keeps, Fields
<1> HIDE DEF hidden
<1>4. /\ hidden.offsets = d.offsets /\ hidden.syncs = d.syncs /\ hidden.lemmas = d.lemmas
      /\ hidden.count_left = d.count_left /\ hidden.size_left = d.size_left
  BY <1>3 DEF Keeps, Fields
<1>5. Sound(hidden) /\ Accounted(hidden) /\ Saved(hidden, f)
  BY <1>3, HiddenSound
<1>6. Searchable(hidden)
  <2>1. Keeps(d, hidden, {"syncs", "syncs_null", "state", "limit"})
    BY <1>3 DEF Keeps
  <2> QED BY <2>1, FrameSearchable
<1>7. /\ Len(hidden.offsets) < MaxLemmas /\ hidden.syncs_null \in BOOLEAN
      /\ (hidden.syncs_null = FALSE => Len(hidden.syncs) < MaxSyncs)
  BY <1>3, <1>4
<1>8. Put(hidden, f, p)
  BY <1>5, <1>7, PutSound
<1>9. PutSteps(hidden, f, lemma, score, p)
  BY <1>5, <1>6, <1>7, PutTakes
<1> HIDE DEF p
<1>10. /\ p = [dict |-> p.dict, file |-> p.file, ok |-> p.ok] /\ p.ok \in BOOLEAN
       /\ Sound(p.dict)
  BY <1>8 DEF Put
<1>11. r.dict = back /\ r.file = p.file /\ r.ok = p.ok
  BY <1>1, <1>10
<1>12. Fields \subseteq DOMAIN p.dict
  BY <1>10 DEF Sound
<1>13. /\ back.offsets = p.dict.offsets /\ back.lemmas = p.dict.lemmas
       /\ back.count_left = p.dict.count_left /\ back.size_left = p.dict.size_left
       /\ back.syncs = [k \in DOMAIN p.dict.syncs |->
                          IF k \in DOMAIN d.syncs THEN d.syncs[k] ELSE Garbage]
  BY <1>12 DEF RestoreSyncs, Fields
<1> HIDE DEF back
<1>14. ASSUME p.dict.syncs = d.syncs PROVE back.syncs = p.dict.syncs
  <2>1. d.syncs = [k \in DOMAIN d.syncs |-> d.syncs[k]]
    BY <1>2 DEF CountersSound
  <2> QED BY <1>13, <1>14, <2>1
<1>15. ASSUME p.dict.syncs = d.syncs
       PROVE  Copy(back) = Copy(p.dict) /\ (MergeRoom(p.dict) => MergeRoom(back))
  BY <1>13, <1>14, <1>15, SameCopy DEF MergeRoom
<1>16. Copy(hidden) = Copy(d)
  BY <1>4, SameCopy
<1>17. /\ LiveLemmas(hidden) = LiveLemmas(d) /\ (MergeRoom(d) => MergeRoom(hidden))
       /\ ~Full(hidden, lemma)
  <2>1. LiveLemmas(hidden) = LiveLemmas(d)
    BY <1>4 DEF LiveLemmas, Live, LemmaOf, Indexes
  <2> QED BY <1>4, <2>1 DEF MergeRoom, Full
<1>18. CASE \E i \in Live(hidden) :
              /\ LemmaOf(hidden, i) = lemma
              /\ p = [dict |-> Rescored(hidden, i, score), file |-> f, ok |-> TRUE]
  <2>1. PICK i \in Live(hidden) :
               /\ LemmaOf(hidden, i) = lemma
               /\ p = [dict |-> Rescored(hidden, i, score), file |-> f, ok |-> TRUE]
    BY <1>18
  <2>2. Single(hidden)
    BY <1>6 DEF Searchable, Ordered
  <2>3. p.dict = Rescored(hidden, i, score) /\ p.file = f /\ p.ok = TRUE
    BY <2>1
  <2>4. /\ Copy(p.dict) = [entries |-> Map!Set(Copy(hidden).entries, LemmaOf(hidden, i), score),
                           queue |-> Copy(hidden).queue]
        /\ p.dict.syncs = hidden.syncs /\ Keeps(hidden, p.dict, {"state", "offsets"})
    BY <1>5, <2>2, <2>3, RescoreCopy
  <2>5. p.dict.count_left = d.count_left /\ p.dict.size_left = d.size_left
    BY <1>4, <2>4 DEF Keeps, Fields
  <2>6. p.dict.syncs = d.syncs
    BY <1>4, <2>4
  <2>7. Copy(back) = Copy(p.dict) /\ (MergeRoom(p.dict) => MergeRoom(back))
    BY <1>15, <2>6
  <2>8. MergeRoom(d) => MergeRoom(back)
    BY <2>5, <2>7 DEF MergeRoom
  <2>9. /\ Copy(back).entries = Map!Set(Copy(d).entries, lemma, score)
        /\ Copy(back).queue = Copy(d).queue
    BY <1>16, <2>1, <2>4, <2>7
  <2> QED BY <1>11, <2>3, <2>8, <2>9 DEF Tried
<1>19. CASE Absent(hidden, lemma) /\ p = [dict |-> hidden, file |-> f, ok |-> FALSE]
  <2>1. p.dict = hidden /\ p.file = f /\ p.ok = FALSE
    BY <1>19
  <2>2. Copy(back) = Copy(d) /\ (MergeRoom(d) => MergeRoom(back))
    BY <1>4, <1>15, <1>16, <1>17, <2>1
  <2>3. lemma \notin LiveLemmas(d)
    BY <1>17, <1>19 DEF Absent, LiveLemmas, Live
  <2> QED BY <1>11, <2>1, <2>2, <2>3 DEF Tried
<1>20. CASE /\ Absent(hidden, lemma)
            /\ \E room, added :
                 /\ room = IF Full(hidden, lemma) THEN FlushCache(hidden, f)
                           ELSE [dict |-> hidden, file |-> f]
                 /\ HasRoom(room, lemma) /\ Absent(room.dict, lemma)
                 /\ added = AppendALemma(room.dict, lemma, score)
                 /\ p = [dict |-> IF added.syncs_null THEN added
                                  ELSE QueueLemmaForSync(added, Len(added.by_id)),
                         file |-> room.file, ok |-> TRUE]
  <2>1. PICK room, added :
          /\ room = IF Full(hidden, lemma) THEN FlushCache(hidden, f)
                    ELSE [dict |-> hidden, file |-> f]
          /\ HasRoom(room, lemma) /\ Absent(room.dict, lemma)
          /\ added = AppendALemma(room.dict, lemma, score)
          /\ p = [dict |-> IF added.syncs_null THEN added
                           ELSE QueueLemmaForSync(added, Len(added.by_id)),
                  file |-> room.file, ok |-> TRUE]
    BY <1>20
  <2>7. room.dict = hidden /\ room.file = f
    BY <1>17, <2>1
  <2>8. added = AppendALemma(hidden, lemma, score)
    BY <2>1, <2>7
  <2>2. Appended(hidden, lemma, score, added)
    BY <1>5, <1>7, <1>20, <2>8, AppendCopy
  <2>3. /\ added.syncs = d.syncs /\ added.syncs_null = TRUE
        /\ added.count_left = d.count_left - 1
        /\ added.size_left = d.size_left - LemmaBytes(Len(lemma.spell))
        /\ Copy(added).entries = Map!Set(Copy(d).entries, lemma, score)
        /\ Copy(added).queue \in {Copy(d).queue, Copy(d).queue \cup {lemma}}
    BY <1>3, <1>4, <1>16, <2>2 DEF Appended
  <2>4. p.dict = added /\ p.file = f /\ p.ok = TRUE
    BY <2>1, <2>3, <2>7
  <2>5. Copy(back) = Copy(added) /\ (MergeRoom(added) => MergeRoom(back))
    BY <1>15, <2>3, <2>4
  <2>6. ASSUME MergeRoom(d) PROVE MergeRoom(added)
    <3>1. d.count_left \in Nat /\ d.count_left > 0 /\ d.size_left \in Nat
      <4>1. hidden.count_left > 0
        BY <2>1, <2>7 DEF HasRoom
      <4>2. kUserDictPreAlloc \in Nat
        BY SizesAssumption
      <4> QED BY <1>2, <1>4, <4>1, <4>2 DEF CountersSound
    <3>2. /\ LemmaBytes(Len(lemma.spell)) \in Nat /\ LemmaBytes(kUserDictAverageNchar) \in Nat
          /\ LemmaBytes(Len(lemma.spell)) <= LemmaBytes(kUserDictAverageNchar)
      BY AverageFits
    <3>3. d.size_left - LemmaBytes(Len(lemma.spell))
            >= (d.count_left - 1) * LemmaBytes(kUserDictAverageNchar)
      BY <2>6, <3>1, <3>2, RoomTaken DEF MergeRoom
    <3> QED BY <2>3, <3>3 DEF MergeRoom
  <2> QED BY <1>11, <2>3, <2>4, <2>5, <2>6 DEF Tried
<1> QED
  BY <1>9, <1>18, <1>19, <1>20 DEF PutSteps

\* With room allocated in advance for one more lemma of average length, none is too long.
LEMMA MergeNeverFull ==
  ASSUME AverageIsLongest, NEW d, Sound(d), MergeRoom(d), d.count_left > 0, NEW lemma \in Lemmas
  PROVE  ~Full(d, lemma)
<1>1. d.count_left \in Nat /\ d.size_left \in Nat
  BY SizesAssumption DEF Sound, CountersSound
<1>2. /\ LemmaBytes(Len(lemma.spell)) \in Nat /\ LemmaBytes(kUserDictAverageNchar) \in Nat
      /\ LemmaBytes(Len(lemma.spell)) <= LemmaBytes(kUserDictAverageNchar)
  BY AverageFits
<1>3. d.size_left >= LemmaBytes(Len(lemma.spell))
  BY <1>1, <1>2, RoomTaken DEF MergeRoom
<1> QED
  BY <1>1, <1>2, <1>3 DEF Full

\* The image after reclaim, defragment and flush: what is left of the lemmas, as saved, and all
\* the room of a load.
RoomMade(d, lemma, room) ==
  /\ Sound(room.dict) /\ Accounted(room.dict) /\ FileSound(room.file)
  /\ Saved(room.dict, room.file) /\ Len(room.dict.offsets) < MaxLemmas
  /\ SearchableOver(room) /\ ~Full(room.dict, lemma) /\ MergeRoom(room.dict)
  /\ Copy(Load(Validated(room.file))) = Copy(room.dict)
  /\ \E kept : EntriesOf(room.dict) = {e \in EntriesOf(d) : e.lemma \in kept}

LEMMA RoomCopy ==
  ASSUME ~FileSound(NoFile), NEW d, Sound(d), Accounted(d), Searchable(d), d.syncs_null = FALSE,
         NEW f, FileSound(f), Saved(d, f), OrderedFile(f), NEW lemma \in Lemmas,
         Len(d.offsets) < MaxLemmas, NEW room, room = FlushCache(Defragment(Reclaim(d)), f)
  PROVE  RoomMade(d, lemma, room)
<1> DEFINE reclaimed == Reclaim(d)
           closed == Defragment(reclaimed)
<1>1. RoomAgain(closed, f, room)
  BY RoomAgainSound
<1>2. Sound(reclaimed) /\ Alike(d, reclaimed) /\ Ordered(d) /\ Single(d)
  BY ReclaimAlike DEF Searchable, Ordered
<1>3. Left(d, reclaimed)
  BY <1>2, ReclaimLeft
<1>4. reclaimed.syncs_null = FALSE /\ Saved(reclaimed, f)
      /\ (Accounted(reclaimed) \/ RemovedPositions(reclaimed) # {})
  BY ReclaimSound DEF Trimmed
<1>5. closed.syncs_null = FALSE
  <2> HIDE DEF reclaimed
  <2> QED BY <1>2, <1>4, DefragmentSound
<1>6. Ordered(closed)
  <2>1. Ordered(reclaimed)
    BY <1>2, AlikeOrdered
  <2> HIDE DEF reclaimed
  <2> QED BY <1>2, <2>1, DefragmentOrdered
<1>7. EntriesOf(closed) = EntriesOf(reclaimed)
  <2> HIDE DEF reclaimed
  <2> QED BY <1>2, DefragmentCopy
<1>8. /\ Storable(closed) /\ Saved(closed, f)
      /\ Sound(room.dict) /\ Accounted(room.dict) /\ FileSound(room.file)
      /\ Saved(room.dict, room.file) /\ Len(room.dict.offsets) < MaxLemmas
  BY <1>1 DEF RoomAgain
<1> HIDE DEF closed
<1>9. room = FlushCache(closed, f)
  BY DEF closed
<1>10. SearchableOver(room)
  BY <1>6, <1>8, <1>9, FlushSearchable DEF SearchableOver
<1>11. /\ room.dict = Load(room.file) /\ Validated(room.file) = room.file
       /\ Copy(room.dict) = Copy(closed)
  BY <1>5, <1>8, <1>9, FlushCopy
<1>12. room.dict.count_left = kUserDictPreAlloc /\ room.dict.size_left = PreAllocBytes
  BY <1>11 DEF Load
<1>13. ~Full(room.dict, lemma)
  <2>1. kUserDictPreAlloc \in Nat \ {0}
    BY SizesAssumption
  <2>2. /\ LemmaBytes(Len(lemma.spell)) \in Nat /\ PreAllocBytes \in Nat
        /\ LemmaBytes(Len(lemma.spell)) <= PreAllocBytes
    BY LemmaFits
  <2> QED BY <1>12, <2>1, <2>2 DEF Full
<1>14. MergeRoom(room.dict)
  <2>1. kUserDictPreAlloc * LemmaBytes(kUserDictAverageNchar) \in Int
    <3>1. 2 + 4 * kUserDictAverageNchar \in Int /\ kUserDictPreAlloc \in Int
      BY SizesAssumption
    <3> DEFINE b == 2 + 4 * kUserDictAverageNchar
    <3>2. b \in Int
      BY <3>1
    <3> HIDE DEF b
    <3>3. kUserDictPreAlloc * b \in Int
      BY <3>1, <3>2
    <3> QED BY <3>3 DEF LemmaBytes, b
  <2> DEFINE all == kUserDictPreAlloc * LemmaBytes(kUserDictAverageNchar)
  <2>2. room.dict.size_left = all /\ room.dict.count_left * LemmaBytes(kUserDictAverageNchar) = all
    BY <1>12 DEF PreAllocBytes
  <2> HIDE DEF all
  <2>3. all >= all
    BY <2>1 DEF all
  <2> QED BY <2>2, <2>3 DEF MergeRoom
<1>15. EntriesOf(room.dict) = EntriesOf(closed)
  BY <1>11, CopyParts
<1>16. EntriesOf(room.dict) = {e \in EntriesOf(d) : e.lemma \in LiveLemmas(reclaimed)}
  BY <1>3, <1>7, <1>15 DEF Left
<1> QED
  BY <1>8, <1>10, <1>11, <1>13, <1>14, <1>16 DEF RoomMade

\* put_lemma_no_sync in terms of what image and file stand for: at the limit lemmas may go, the
\* rest is saved, and the lemma is merged or left out.
MergeMeans(d, f, lemma, score, r) ==
  \/ /\ Copy(r.dict).entries = Map!Set(Copy(d).entries, lemma, score)
     /\ Copy(r.dict).queue \in {Copy(d).queue, Copy(d).queue \cup {lemma}}
     /\ r.file = f
  \/ \E evicted \in SUBSET LiveLemmas(d) :
       LET left == {e \in Copy(d).entries : e.lemma \notin evicted} IN
       /\ lemma \notin LiveLemmas(d)
       /\ Copy(r.dict).entries \in {left, Map!Set(left, lemma, score)}
       /\ Copy(Load(Validated(r.file))).entries = left

LEMMA MergeCopy ==
  ASSUME NoLemmaBeginsAnother, AverageIsLongest, ~FileSound(NoFile),
         NEW d, Sound(d), Accounted(d), Searchable(d), d.syncs_null = FALSE,
         NEW f, FileSound(f), Saved(d, f), OrderedFile(f),
         NEW lemma \in Lemmas, NEW score \in Scores, Len(d.offsets) < MaxLemmas,
         MergeRoom(d), d.count_left > 0, NEW r \in PutLemmaNoSync(d, f, lemma, score)
  PROVE  MergeMeans(d, f, lemma, score, r) /\ MergeRoom(r.dict)
<1> DEFINE first == PutWithoutSyncs(d, f, lemma, score)
           room == FlushCache(Defragment(Reclaim(first.dict)), first.file)
           second == PutWithoutSyncs(room.dict, room.file, lemma, score)
<1>1. (first.ok /\ r = first) \/ (~first.ok /\ r = second)
  BY DEF PutLemmaNoSync
<1>2. PutHidden(d, first) /\ SearchableOver(first)
  BY PutWithoutSyncsSound, PutWithoutSyncsSearchable
<1>3. Tried(d, lemma, score, first) /\ first.file = f
  BY MergeNeverFull, TryCopy
<1> HIDE DEF first
<1>4. /\ Sound(first.dict) /\ Accounted(first.dict) /\ FileSound(first.file)
      /\ Saved(first.dict, first.file) /\ first.dict.syncs_null = FALSE
      /\ ~first.ok => Len(first.dict.offsets) < MaxLemmas
      /\ Searchable(first.dict) /\ OrderedFile(first.file)
  BY <1>2 DEF PutHidden, SearchableOver
<1>5. CASE first.ok /\ r = first
  BY <1>3, <1>5 DEF Tried, MergeMeans
<1>6. CASE ~first.ok /\ r = second
  <2>1. Copy(first.dict) = Copy(d) /\ lemma \notin LiveLemmas(d)
    BY <1>3, <1>6 DEF Tried
  <2>2. RoomMade(first.dict, lemma, room)
    BY <1>4, <1>6, RoomCopy
  <2> HIDE DEF room
  <2>3. /\ Sound(room.dict) /\ Accounted(room.dict) /\ FileSound(room.file)
        /\ Saved(room.dict, room.file) /\ Len(room.dict.offsets) < MaxLemmas
        /\ Searchable(room.dict) /\ OrderedFile(room.file)
        /\ ~Full(room.dict, lemma) /\ MergeRoom(room.dict)
        /\ Copy(Load(Validated(room.file))) = Copy(room.dict)
    BY <2>2 DEF RoomMade, SearchableOver
  <2>4. Tried(room.dict, lemma, score, second) /\ second.file = room.file
    BY <2>3, TryCopy
  <2> HIDE DEF second
  <2>5. PICK kept : EntriesOf(room.dict) = {e \in EntriesOf(first.dict) : e.lemma \in kept}
    BY <2>2 DEF RoomMade
  <2> DEFINE evicted == LiveLemmas(d) \ kept
             left == {e \in Copy(d).entries : e.lemma \notin evicted}
  <2>6. EntriesOf(first.dict) = Copy(d).entries
    BY <2>1, CopyParts
  <2>7. \A e \in Copy(d).entries : e.lemma \in LiveLemmas(d)
    <3>1. \A i \in Live(d) : Entry(d, i).lemma = LemmaOf(d, i)
      BY DEF Entry
    <3> QED BY <3>1, CopyParts DEF EntriesOf, LiveLemmas
  <2>8. Copy(room.dict).entries = left
    <3>1. Copy(room.dict).entries = {e \in Copy(d).entries : e.lemma \in kept}
      BY <2>5, <2>6, CopyParts
    <3> QED BY <2>7, <3>1
  <2> HIDE DEF left
  <2>9. Copy(second.dict).entries \in {left, Map!Set(left, lemma, score)}
    BY <2>4, <2>8 DEF Tried
  <2>10. Copy(Load(Validated(second.file))).entries = left
    BY <2>3, <2>4, <2>8
  <2>11. MergeRoom(second.dict)
    BY <2>3, <2>4 DEF Tried
  <2>12. /\ Copy(r.dict).entries \in {left, Map!Set(left, lemma, score)}
         /\ Copy(Load(Validated(r.file))).entries = left /\ MergeRoom(r.dict)
    BY <1>6, <2>9, <2>10, <2>11
  <2>13. evicted \in SUBSET LiveLemmas(d) /\ left = {e \in Copy(d).entries : e.lemma \notin evicted}
    BY DEF left
  <2> HIDE DEF evicted
  <2>14. MergeMeans(d, f, lemma, score, r)
    BY <2>1, <2>12, <2>13 DEF MergeMeans
  <2> QED BY <2>12, <2>14
<1> QED
  BY <1>1, <1>5, <1>6

---------------------------------------------------------------------------
\* Of a set of numbers, the k-th one counted or an earlier one is among those counted.
LEMMA CountedFirst ==
  ASSUME NEW n \in Nat, NEW all \in SUBSET (1..n), NEW room \in Nat,
         NEW t, t = {k \in all : Cardinality(all \cap (1..k)) <= room},
         NEW k \in all, k <= Cardinality(t)
  PROVE  k \in t
<1>1. ASSUME NEW j \in 1..n
      PROVE  /\ IsFiniteSet(all \cap (1..j)) /\ Cardinality(all \cap (1..j)) \in Nat
             /\ IsFiniteSet(1..j - 1) /\ Cardinality(1..j - 1) = j - 1
  <2>1. IsFiniteSet(1..j) /\ IsFiniteSet(1..j - 1) /\ Cardinality(1..j - 1) = j - 1
    <3>1. 1 \in Int /\ j \in Int /\ j - 1 \in Int /\ j - 1 >= 0
      OBVIOUS
    <3>2. IsFiniteSet(1..j)
      BY <3>1, FS_Interval
    <3> DEFINE i == j - 1
    <3>3. i \in Int /\ i >= 0
      BY <3>1
    <3> HIDE DEF i
    <3>4. IsFiniteSet(1..i) /\ Cardinality(1..i) = IF 1 > i THEN 0 ELSE i - 1 + 1
      BY <3>3, FS_Interval
    <3>5. Cardinality(1..i) = i
      BY <3>3, <3>4
    <3> QED BY <3>2, <3>4, <3>5 DEF i
  <2>2. IsFiniteSet(all \cap (1..j))
    BY <2>1, FS_Subset
  <2> QED BY <2>1, <2>2, FS_CardinalityType
<1>2. SUFFICES ASSUME k \notin t PROVE FALSE
  OBVIOUS
<1>3. Cardinality(all \cap (1..k)) > room
  <2>1. k \in 1..n
    OBVIOUS
  <2>2. Cardinality(all \cap (1..k)) \in Nat
    BY <1>1, <2>1
  <2>3. ~(Cardinality(all \cap (1..k)) <= room)
    BY <1>2
  <2> QED BY <2>2, <2>3
<1>4. ASSUME NEW m \in t PROVE m \in 1..k - 1
  <2>1. m \in all /\ Cardinality(all \cap (1..m)) <= room /\ m \in 1..n /\ k \in 1..n
    OBVIOUS
  <2>2. SUFFICES ASSUME m >= k PROVE FALSE
    BY <2>1
  <2>3. all \cap (1..k) \in SUBSET (all \cap (1..m))
    BY <2>1, <2>2
  <2>4. Cardinality(all \cap (1..k)) <= Cardinality(all \cap (1..m))
    BY <1>1, <2>1, <2>3, FS_Subset
  <2>5. Cardinality(all \cap (1..k)) \in Nat /\ Cardinality(all \cap (1..m)) \in Nat
    BY <1>1, <2>1
  <2> QED BY <1>3, <2>1, <2>4, <2>5
<1>5. Cardinality(t) <= k - 1
  <2>1. t \in SUBSET (1..k - 1)
    BY <1>4
  <2>2. k \in 1..n
    OBVIOUS
  <2>3. IsFiniteSet(1..k - 1) /\ Cardinality(1..k - 1) = k - 1
    BY <1>1, <2>2
  <2> QED BY <2>1, <2>3, FS_Subset
<1>6. Cardinality(t) \in Nat
  <2>1. IsFiniteSet(1..n)
    BY FS_Interval
  <2>2. t \in SUBSET (1..n)
    OBVIOUS
  <2>3. IsFiniteSet(t)
    BY <2>1, <2>2, FS_Subset
  <2> QED BY <2>3, FS_CardinalityType
<1>7. k \in Nat
  OBVIOUS
<1> QED
  BY <1>5, <1>6, <1>7

\* Every score has a frequency of at least 1, as a score of 0 would have no text.
ScoresPacked(copy) ==
  \A e \in copy.entries : e.score \in [lmt : Times, freq : 1..kUserDictMaxFrequency]

\* What was sent are the first entries of the sync list, but for those without a text.
SentFirst(d, texts) ==
  /\ texts \subseteq DOMAIN d.syncs
  /\ \A k \in DOMAIN d.syncs :
       /\ k <= Cardinality(texts) /\ d.syncs[k] \in DOMAIN d.lemmas
       /\ d.lemmas[d.syncs[k]] \in LiveLemmas(d)
       => k \in texts

\* The lemmas of the texts given to the client.
SentOf(d, texts) == {d.lemmas[d.syncs[k]] : k \in texts \ WildSyncs(d)}

\* get_sync_lemmas_in_utf16le_string_from_beginning: what it gives out is queued, and it leaves
\* no live lemma behind.
LEMMA TextsCopy ==
  ASSUME NoLemmaBeginsAnother, NEW d, Sound(d), Searchable(d), ScoresPacked(Copy(d)),
         NEW wild \in SUBSET WildSyncs(d), NEW room \in Nat,
         NEW texts, texts = SyncTexts(d, wild, room)
  PROVE  SentFirst(d, texts) /\ SentOf(d, texts) \subseteq Copy(d).queue
<1> DEFINE all == {k \in DOMAIN d.syncs : HasText(d, wild, k)}
<1>1. texts = {k \in all : Cardinality(all \cap (1..k)) <= room}
  BY DEF SyncTexts
<1>2. PICK c \in Nat : c = Len(d.syncs) /\ DOMAIN d.syncs = 1..c
  <2>1. d.syncs \in Seq(SyncEntries)
    BY DEF Sound, CountersSound, SyncEntries
  <2>2. Len(d.syncs) \in Nat /\ DOMAIN d.syncs = 1..Len(d.syncs)
    BY <2>1
  <2> QED BY <2>2, Zenon
<1>3. all \subseteq 1..c /\ \A k \in all : HasText(d, wild, k)
  BY <1>2
<1>4. d.lemmas \in [DOMAIN d.lemmas -> Lemmas]
  BY DEF Sound, BlockSound
<1>5. ASSUME NEW k \in DOMAIN d.syncs, d.syncs[k] \in DOMAIN d.lemmas,
             d.lemmas[d.syncs[k]] \in LiveLemmas(d)
      PROVE  k \in all
  <2> DEFINE lemma == d.lemmas[d.syncs[k]]
             i == LocateInOffsets(d, lemma)
  <2>1. lemma \in Lemmas
    BY <1>4, <1>5
  <2>2. ~Absent(d, lemma)
    BY <1>5 DEF LiveLemmas, Live, Absent
  <2>3. \/ i = 0 /\ Absent(d, lemma)
        \/ i \in Live(d) /\ LemmaOf(d, i) = lemma /\ i # 0
    BY <2>1, LocateExact
  <2>4. i \in Live(d) /\ i # 0
    BY <2>2, <2>3
  <2> HIDE DEF i
  <2>5. Entry(d, i) \in Copy(d).entries /\ Entry(d, i).score = d.offsets[i].score
    BY <2>4, CopyParts DEF EntriesOf, Entry
  <2>6. d.offsets[i].score \in [lmt : Times, freq : 1..kUserDictMaxFrequency]
    BY <2>5 DEF ScoresPacked
  <2>7. d.offsets[i].score.freq > 0
    BY <2>6, SizesAssumption
  <2>8. HasText(d, wild, k)
    BY <1>5, <2>4, <2>7 DEF HasText, i
  <2> QED BY <2>8
<1>6. ASSUME NEW k \in texts \ WildSyncs(d)
      PROVE  d.syncs[k] \in DOMAIN d.lemmas /\ d.lemmas[d.syncs[k]] \in Copy(d).queue
  <2> DEFINE lemma == d.lemmas[d.syncs[k]]
             i == LocateInOffsets(d, lemma)
  <2>1. k \in all /\ k \notin wild /\ k \in DOMAIN d.syncs
    BY <1>1, <1>2, <1>3, <1>6
  <2>2. d.syncs[k] \in DOMAIN d.lemmas /\ i # 0
    BY <1>3, <2>1 DEF HasText
  <2>3. lemma \in Lemmas
    BY <1>4, <2>2
  <2>4. \/ i = 0 /\ Absent(d, lemma)
        \/ i \in Live(d) /\ LemmaOf(d, i) = lemma /\ i # 0
    BY <2>3, LocateExact
  <2> HIDE DEF i
  <2>5. lemma \in LiveLemmas(d)
    BY <2>2, <2>4 DEF LiveLemmas
  <2>6. lemma \in Listed(d)
    BY <2>1, <2>2 DEF Listed, ToSet
  <2> QED BY <2>2, <2>5, <2>6, CopyParts
<1> HIDE DEF all
<1>7. ASSUME NEW k \in DOMAIN d.syncs, k <= Cardinality(texts), d.syncs[k] \in DOMAIN d.lemmas,
             d.lemmas[d.syncs[k]] \in LiveLemmas(d)
      PROVE  k \in texts
  <2>1. k \in all
    BY <1>5, <1>7
  <2> QED BY <1>1, <1>3, <1>7, <2>1, CountedFirst
<1>8. SentFirst(d, texts)
  BY <1>1, <1>2, <1>3, <1>7 DEF SentFirst
<1>9. SentOf(d, texts) \subseteq Copy(d).queue
  BY <1>6 DEF SentOf
<1> QED
  BY <1>8, <1>9

\* clear_sync_lemmas(0, last_count_): nothing leaves the queue but what was sent.
LEMMA ClearCopy ==
  ASSUME NEW d, Sound(d), NEW texts, SentFirst(d, texts),
         NEW r, r = ClearSyncLemmas(d, Cardinality(texts))
  PROVE  \E done \in SUBSET SentOf(d, texts) :
           Copy(r) = [entries |-> Copy(d).entries, queue |-> Copy(d).queue \ done]
<1> DEFINE last == Min({Cardinality(texts), Len(d.syncs)})
           rest == SubSeq(d.syncs, last + 1, Len(d.syncs))
           x == [d EXCEPT !.syncs = rest]
<1>1. Fields \subseteq DOMAIN d /\ d.syncs \in Seq(SyncEntries)
  BY DEF Sound, CountersSound, SyncEntries
<1>2. PICK c \in Nat : c = Len(d.syncs) /\ DOMAIN d.syncs = 1..c
  <2>1. Len(d.syncs) \in Nat /\ DOMAIN d.syncs = 1..Len(d.syncs)
    BY <1>1
  <2> QED BY <2>1, Zenon
<1>3. r = Dirty(x, USER_DICT_SYNC_DIRTY)
  BY <1>1 DEF ClearSyncLemmas, Fields
<1>4. /\ last \in 0..c /\ last <= Cardinality(texts) /\ Cardinality(texts) \in Nat
  <2>1. IsFiniteSet(texts)
    <3>1. IsFiniteSet(1..c)
      BY FS_Interval
    <3>2. texts \in SUBSET (1..c)
      BY <1>2 DEF SentFirst
    <3> QED BY <3>1, <3>2, FS_Subset
  <2>2. Cardinality(texts) \in Nat
    BY <2>1, FS_CardinalityType
  <2> DEFINE S == {Cardinality(texts), c}
  <2>3. S \in SUBSET Nat /\ S # {} /\ c \in S /\ Cardinality(texts) \in S
    BY <2>2
  <2> HIDE DEF S
  <2>4. Min(S) \in S /\ Min(S) <= c /\ Min(S) <= Cardinality(texts)
    BY <2>3, MinNat
  <2>5. Min(S) \in Nat
    BY <2>3, <2>4
  <2> QED BY <1>2, <2>2, <2>4, <2>5 DEF S
<1> HIDE DEF last
<1>5. rest = [k \in 1..c - last |-> d.syncs[k + last]]
  BY <1>1, <1>2, <1>4
<1> HIDE DEF rest
<1>6. x.offsets = d.offsets /\ x.lemmas = d.lemmas /\ x.syncs = rest /\ Fields \subseteq DOMAIN x
  BY <1>1 DEF Fields
<1> HIDE DEF x
<1>7. r.offsets = d.offsets /\ r.lemmas = d.lemmas /\ r.syncs = rest
  <2>1. Keeps(x, r, {"state"})
    BY <1>3, <1>6, DirtyKeeps
  <2> QED BY <1>6, <2>1 DEF Keeps, Fields
<1>8. /\ DOMAIN rest = 1..c - last
      /\ \A k \in 1..c - last : k + last \in DOMAIN d.syncs /\ rest[k] = d.syncs[k + last]
  BY <1>2, <1>4, <1>5
<1>9. /\ Live(r) = Live(d)
      /\ \A i \in Live(d) : LemmaOf(r, i) = LemmaOf(d, i) /\ Entry(r, i) = Entry(d, i)
  BY <1>7 DEF Live, LemmaOf, Entry, Indexes
<1>10. EntriesOf(r) = EntriesOf(d) /\ LiveLemmas(r) = LiveLemmas(d)
  BY <1>9 DEF EntriesOf, LiveLemmas
<1>11. ToSet(rest) \subseteq ToSet(d.syncs)
  BY <1>8 DEF ToSet
<1>12. Listed(r) \subseteq Listed(d)
  BY <1>7, <1>11 DEF Listed
<1>13. ASSUME NEW e \in Listed(d) \cap LiveLemmas(d), e \notin Listed(r)
       PROVE  e \in SentOf(d, texts)
  <2>1. PICK pos \in ToSet(d.syncs) \cap DOMAIN d.lemmas : e = d.lemmas[pos]
    BY <1>13 DEF Listed
  <2>2. PICK k \in 1..c : pos = d.syncs[k]
    BY <1>2, <2>1 DEF ToSet
  <2>3. k <= last
    <3> SUFFICES ASSUME k > last PROVE FALSE
      BY <1>4
    <3>1. k - last \in 1..c - last /\ k - last + last = k
      BY <1>4
    <3>2. rest[k - last] = pos
      BY <1>8, <2>2, <3>1
    <3>3. pos \in ToSet(r.syncs)
      BY <1>7, <1>8, <3>1, <3>2 DEF ToSet
    <3> QED BY <1>7, <1>13, <2>1, <3>3 DEF Listed
  <2>4. k <= Cardinality(texts)
    BY <1>4, <2>3
  <2>5. k \in texts
    BY <1>2, <1>13, <2>1, <2>2, <2>4 DEF SentFirst
  <2>6. k \notin WildSyncs(d)
    BY <2>1, <2>2 DEF WildSyncs
  <2> QED BY <2>1, <2>2, <2>5, <2>6 DEF SentOf
<1> DEFINE done == (Listed(d) \cap LiveLemmas(d)) \ Listed(r)
<1>14. done \in SUBSET SentOf(d, texts)
  BY <1>13
<1>15. Listed(r) \cap LiveLemmas(r) = (Listed(d) \cap LiveLemmas(d)) \ done
  BY <1>10, <1>12
<1>16. /\ Copy(r) = [entries |-> EntriesOf(r), queue |-> Listed(r) \cap LiveLemmas(r)]
       /\ Copy(d).entries = EntriesOf(d) /\ Copy(d).queue = Listed(d) \cap LiveLemmas(d)
  BY CopyParts
<1> HIDE DEF done
<1>17. Copy(r) = [entries |-> Copy(d).entries, queue |-> Copy(d).queue \ done]
  BY <1>10, <1>15, <1>16, Zenon
<1> QED
  BY <1>14, <1>17

---------------------------------------------------------------------------
\* The invariant of the refinement, and the refinement mapping.
MapInv ==
  /\ SearchInv
  /\ ScoresPacked(Copy(Load(Validated(file))))
  /\ Opened => ScoresPacked(Copy(dict))
  /\ role # "sync" => got = {}
  /\ role = "sync" => MergeRoom(dict) /\ SentFirst(dict, got)

MapMem == IF role # "none" THEN Copy(dict) ELSE NoDict
MapDisk == Copy(Load(Validated(file)))
MapSent == IF role # "none" THEN SentOf(dict, got) ELSE {}

\* The map, and what MapInv says besides SearchInv, after a step.
LEMMA PrimedMap ==
  /\ MapMem' = IF role' # "none" THEN Copy(dict') ELSE NoDict
  /\ MapDisk' = Copy(Load(Validated(file')))
  /\ MapSent' = IF role' # "none" THEN SentOf(dict', got') ELSE {}
<1>1. MapMem' = IF role' # "none" THEN Copy(dict') ELSE NoDict
  BY DEF MapMem, Copy, LemmaOf, Indexes, ToSet, NoDict, USER_DICT_NONE
<1>2. MapDisk' = Copy(Load(Validated(file')))
  BY DEF MapDisk, Copy, LemmaOf, Indexes, ToSet, Load, Validated, EmptyFile, NoLimit, NoCache,
         PreAllocBytes, LemmaBytes, USER_DICT_SYNC
<1>3. MapSent' = IF role' # "none" THEN SentOf(dict', got') ELSE {}
  BY DEF MapSent, SentOf, WildSyncs
<1> QED
  BY <1>1, <1>2, <1>3

\* MapInv after a step, from the values after it.
LEMMA PrimedInv ==
  ASSUME SearchInv', ScoresPacked(MapDisk'), role' # "none" => ScoresPacked(MapMem'),
         role' # "sync" => got' = {},
         role' = "sync" => MergeRoom(dict') /\ SentFirst(dict', got')
  PROVE  MapInv'
<1>1. /\ MapDisk' = Copy(Load(Validated(file)))'
      /\ MapMem' = IF role' # "none" THEN Copy(dict)' ELSE NoDict'
  BY DEF MapDisk, MapMem
<1>2. ScoresPacked(Copy(Load(Validated(file))))'
  BY <1>1 DEF ScoresPacked
<1>3. Opened' => ScoresPacked(Copy(dict))'
  BY <1>1 DEF ScoresPacked, Opened
<1>4. (role # "sync" => got = {})'
  OBVIOUS
<1>5. (role = "sync" => MergeRoom(dict) /\ SentFirst(dict, got))'
  BY DEF MergeRoom, SentFirst, LiveLemmas, Live, LemmaOf, Indexes, LemmaBytes
<1> QED
  BY <1>2, <1>3, <1>4, <1>5 DEF MapInv

\* The steps of the map, in terms of the mapping.
MapScores == [lmt : Times, freq : 1..kUserDictMaxFrequency]

LEMMA MapSteps ==
  /\ Map!Init = (MapMem = NoDict /\ MapDisk = [entries |-> {}, queue |-> {}] /\ MapSent = {})
  /\ Map!Open = (MapMem = NoDict /\ MapMem' = MapDisk /\ MapSent' = {} /\ MapDisk' = MapDisk)
  /\ \A lemma, score :
       Map!Put(lemma, score) =
         (/\ MapMem # NoDict
          /\ MapMem' = [entries |-> Map!Set(MapMem.entries, lemma, score),
                        queue   |-> IF lemma \in Map!Known(MapMem) THEN MapMem.queue
                                    ELSE MapMem.queue \cup {lemma}]
          /\ MapDisk' \in {MapDisk, MapMem} /\ MapSent' = MapSent)
  /\ \A lemma, score :
       Map!Update(lemma, score) =
         (/\ MapMem # NoDict /\ lemma \in Map!Known(MapMem)
          /\ MapMem' = [entries |-> Map!Set(MapMem.entries, lemma, score),
                        queue |-> MapMem.queue \cup {lemma}]
          /\ MapDisk' = MapDisk /\ MapSent' = MapSent)
  /\ \A lemma :
       Map!Remove(lemma) =
         (/\ MapMem # NoDict
          /\ MapMem' = [entries |-> {e \in MapMem.entries : e.lemma # lemma},
                        queue |-> MapMem.queue \ {lemma}]
          /\ MapDisk' = MapDisk /\ MapSent' = MapSent)
  /\ Map!Save = (MapMem # NoDict /\ MapDisk' = MapMem /\ MapMem' = MapMem /\ MapSent' = MapSent)
  /\ Map!Close = (MapMem # NoDict /\ MapDisk' = MapMem /\ MapMem' = NoDict /\ MapSent' = {})
  /\ Map!Crash = (MapMem # NoDict /\ MapDisk' = MapDisk /\ MapMem' = NoDict /\ MapSent' = {})
  /\ Map!Send = (/\ MapMem # NoDict /\ MapSent' \in SUBSET MapMem.queue
                 /\ MapMem' = MapMem /\ MapDisk' = MapDisk)
  /\ Map!ClearSent =
       (/\ MapMem # NoDict
        /\ \E done \in SUBSET MapSent : MapMem' = [MapMem EXCEPT !.queue = @ \ done]
        /\ MapSent' = {}
        /\ MapDisk' = MapDisk)
  /\ (UNCHANGED Map!vars) = (MapMem' = MapMem /\ MapDisk' = MapDisk /\ MapSent' = MapSent)
  BY DEF Map!Init, Map!Open, Map!Put, Map!Flushed, Map!Update, Map!Remove, Map!Save, Map!Close,
         Map!Crash, Map!Send, Map!ClearSent, Map!vars, MapMem, MapDisk, MapSent, SentOf, Opened

LEMMA MapMerges ==
  ASSUME NEW lemma, NEW score
  PROVE
       Map!Merge(lemma, score) =
         (/\ MapMem # NoDict
          /\ \/ /\ MapMem'.entries = Map!Set(MapMem.entries, lemma, score)
                /\ MapMem'.queue \in {MapMem.queue, MapMem.queue \cup {lemma}}
                /\ MapDisk' \in {MapDisk, MapMem}
             \/ \E evicted \in SUBSET Map!Known(MapMem) :
                  LET left == {e \in MapMem.entries : e.lemma \notin evicted} IN
                  /\ lemma \notin Map!Known(MapMem)
                  /\ MapMem'.entries \in {left, Map!Set(left, lemma, score)}
                  /\ MapDisk'.entries = left
          /\ MapSent' = MapSent)
  BY DEF Map!Merge, Map!Flushed, MapMem, MapDisk, MapSent, SentOf, Opened

\* What is known of an open dictionary between two actions.
LEMMA MapOpened ==
  ASSUME MapInv, role # "none"
  PROVE  /\ Image(dict, file) /\ Searchable(dict) /\ OrderedFile(file)
         /\ Sound(dict) /\ Single(dict) /\ Accounted(dict) /\ Storable(dict)
         /\ FileSound(file) /\ Saved(dict, file) /\ dict.syncs_null = FALSE
         /\ MapMem = Copy(dict) /\ MapMem # NoDict /\ MapSent = SentOf(dict, got)
         /\ Map!Known(MapMem) = LiveLemmas(dict)
         /\ ScoresPacked(MapMem) /\ ScoresPacked(MapDisk)
         /\ role # "sync" => got = {}
<1>1. Image(dict, file) /\ Searchable(dict) /\ OrderedFile(file)
  BY OpenSearch DEF MapInv
<1>2. /\ Sound(dict) /\ Accounted(dict) /\ FileSound(file) /\ Saved(dict, file)
      /\ dict.syncs_null = FALSE
  BY <1>1 DEF Image
<1>3. Single(dict) /\ Storable(dict)
  BY <1>1, <1>2 DEF Searchable, Ordered, Storable, Sound
<1>4. MapMem = Copy(dict) /\ MapSent = SentOf(dict, got)
  BY DEF MapMem, MapSent
<1>5. ScoresPacked(MapMem) /\ ScoresPacked(MapDisk) /\ (role # "sync" => got = {})
  BY <1>4 DEF MapInv, Opened, MapDisk
<1> QED
  BY <1>1, <1>2, <1>3, <1>4, <1>5, CopyParts

\* Scores stay packed where an entry is an old one or has a packed score.
LEMMA PackedSome ==
  ASSUME NEW a, NEW b, ScoresPacked(a),
         \A e \in b.entries : e \in a.entries \/ e.score \in MapScores
  PROVE  ScoresPacked(b)
  BY DEF ScoresPacked, MapScores

\* Nothing was sent where got is empty.
LEMMA NothingSent ==
  ASSUME NEW d, Sound(d)
  PROVE  SentOf(d, {}) = {} /\ SentFirst(d, {})
<1>1. SentOf(d, {}) = {}
  BY DEF SentOf
<1>2. d.syncs \in Seq(SyncEntries)
  BY DEF Sound, CountersSound, SyncEntries
<1>3. \A k \in DOMAIN d.syncs : ~(k <= 0)
  BY <1>2
<1>4. Cardinality({}) = 0
  BY FS_EmptySet
<1> QED
  BY <1>1, <1>3, <1>4 DEF SentFirst

---------------------------------------------------------------------------
\* What the server sends is a frequency the dictionary can store, and not 0, which has no text.
ScoresInRange == kUserDictMaxFrequency >= 1 /\ Counts \subseteq 1..kUserDictMaxFrequency

\* What the refinement needs of the constants.  Each part is there for a way in which the code
\* departs from the map where it fails: a put takes a longer lemma for its beginning, a merge
\* past the preallocated room flushes while the sync list is hidden, a lookup cut short leaves a
\* false range in the cache, an entry without a text stays behind in the sync list.  The code's
\* sizes satisfy AverageIsLongest (8 and 8), and no image is the file that is not valid.
MapAssumption ==
  /\ NoLemmaBeginsAnother /\ AverageIsLongest /\ RoomForAll /\ ScoresInRange
  /\ MergePastRoom = FALSE /\ ~FileSound(NoFile)

\* Opening: mem becomes what the file stands for.
LEMMA OpenMaps ==
  ASSUME MapInv, NEW r \in {"ime", "sync"}, Open(r)
  PROVE  Map!Open /\ MapInv'
<1> DEFINE x == Load(file')
<1>1. /\ role = "none" /\ role' = r /\ got' = got /\ file' = Validated(file)
      /\ dict' = IF r = "sync" THEN SetLimit(x, SyncLimit) ELSE x
  BY DEF Open
<1>2. SearchInv'
  BY OpenSearches DEF MapInv
<1>3. FileSound(Validated(file)) /\ got = {}
  BY <1>1 DEF MapInv, SearchInv, UserDictInv
<1>4. Validated(file') = file'
  BY <1>1 DEF Validated
<1>5. Sound(x) /\ x.count_left = kUserDictPreAlloc /\ x.size_left = PreAllocBytes
  BY <1>1, <1>3, LoadSound
<1>6. /\ dict'.offsets = x.offsets /\ dict'.lemmas = x.lemmas /\ dict'.syncs = x.syncs
      /\ dict'.count_left = x.count_left /\ dict'.size_left = x.size_left
  BY <1>1, <1>5 DEF SetLimit, Sound, Fields
<1> HIDE DEF x
<1>7. Copy(dict') = Copy(x)
  BY <1>6, SameCopy
<1>8. /\ MapMem = NoDict /\ MapSent = {} /\ MapDisk = Copy(x)
      /\ MapMem' = Copy(x) /\ MapDisk' = Copy(x) /\ MapSent' = {}
  <2>1. MapMem = NoDict /\ MapSent = {}
    BY <1>1 DEF MapMem, MapSent
  <2>2. MapDisk = Copy(x)
    BY <1>1 DEF MapDisk, x
  <2>3. MapMem' = Copy(x) /\ MapDisk' = Copy(x)
    BY <1>1, <1>4, <1>7, PrimedMap DEF x
  <2>4. MapSent' = SentOf(dict', got')
    BY <1>1, PrimedMap
  <2> QED BY <1>1, <1>3, <2>1, <2>2, <2>3, <2>4 DEF SentOf
<1>9. Map!Open
  BY <1>8, MapSteps
<1>10. MergeRoom(dict') /\ SentFirst(dict', got')
  <2>1. MergeRoom(dict')
    <3>1. dict'.size_left = dict'.count_left * LemmaBytes(kUserDictAverageNchar)
      BY <1>5, <1>6, Zenon DEF PreAllocBytes
    <3>2. dict'.size_left \in Nat
      BY <1>5, <1>6 DEF Sound, CountersSound
    <3> QED BY <3>1, <3>2 DEF MergeRoom
  <2>2. SentFirst(x, {})
    BY <1>5, NothingSent
  <2>3. SentFirst(dict', {})
    BY <1>6, <2>2 DEF SentFirst, LiveLemmas, Live, LemmaOf, Indexes
  <2> QED BY <1>1, <1>3, <2>1, <2>3
<1>11. ScoresPacked(MapDisk') /\ ScoresPacked(MapMem')
  BY <1>8 DEF MapInv, MapDisk
<1>12. MapInv'
  BY <1>1, <1>2, <1>3, <1>10, <1>11, PrimedInv
<1> QED
  BY <1>9, <1>12

\* Closing, and the end of the process: mem is saved, or it is gone.
LEMMA CloseMaps ==
  ASSUME MapAssumption, MapInv
  PROVE  Close => Map!Close /\ MapInv'
<1> SUFFICES ASSUME Close PROVE Map!Close /\ MapInv'
  OBVIOUS
<1>1. /\ role # "none" /\ role' = "none" /\ got' = {} /\ file' = WriteBack(dict, file)
  BY DEF Close
<1>2. SearchInv'
  BY CloseSearches DEF MapInv
<1>3. Validated(file') = file' /\ Copy(Load(file')) = Copy(dict)
  BY <1>1, MapOpened, WrittenCopy DEF MapAssumption
<1>4. MapMem = Copy(dict) /\ MapMem # NoDict /\ ScoresPacked(MapMem)
  BY <1>1, MapOpened
<1>5. MapDisk' = MapMem /\ MapMem' = NoDict /\ MapSent' = {}
  BY <1>1, <1>3, <1>4, PrimedMap
<1>6. Map!Close
  BY <1>4, <1>5, MapSteps
<1>7. MapInv'
  BY <1>1, <1>2, <1>4, <1>5, PrimedInv
<1> QED
  BY <1>6, <1>7

LEMMA CrashMaps ==
  ASSUME MapInv
  PROVE  Crash => Map!Crash /\ MapInv'
<1> SUFFICES ASSUME Crash PROVE Map!Crash /\ MapInv'
  OBVIOUS
<1>1. /\ role # "none" /\ role' = "none" /\ got' = {} /\ file' = file
  BY DEF Crash
<1>2. SearchInv'
  BY CloseSearches DEF MapInv
<1>3. MapMem # NoDict /\ ScoresPacked(MapDisk)
  BY <1>1, MapOpened
<1>4. MapDisk' = MapDisk /\ MapMem' = NoDict /\ MapSent' = {}
  BY <1>1, PrimedMap DEF MapDisk
<1>5. Map!Crash
  BY <1>3, <1>4, MapSteps
<1>6. MapInv'
  BY <1>1, <1>2, <1>3, <1>4, PrimedInv
<1> QED
  BY <1>5, <1>6

\* A flush saves; mem stays what it was, though the ids are new.
LEMMA FlushMaps ==
  ASSUME MapAssumption, MapInv
  PROVE  Flush => Map!Save /\ MapInv'
<1> SUFFICES ASSUME Flush PROVE Map!Save /\ MapInv'
  OBVIOUS
<1> DEFINE r == FlushCache(dict, file)
<1>1. role = "ime" /\ role' = role /\ got' = got /\ dict' = r.dict /\ file' = r.file
  BY DEF Flush
<1>2. SearchInv'
  BY FlushSearches DEF MapInv
<1>3. r.dict = Load(r.file) /\ Validated(r.file) = r.file /\ Copy(r.dict) = Copy(dict)
  BY <1>1, MapOpened, FlushCopy DEF MapAssumption
<1>4. MapMem = Copy(dict) /\ MapMem # NoDict /\ ScoresPacked(MapMem) /\ got = {}
  BY <1>1, MapOpened
<1> HIDE DEF r
<1>5. MapDisk' = MapMem /\ MapMem' = MapMem
  BY <1>1, <1>3, <1>4, PrimedMap
<1>6. MapSent' = {} /\ MapSent = {}
  BY <1>1, <1>4, PrimedMap DEF SentOf, MapSent
<1>7. Map!Save
  BY <1>4, <1>5, <1>6, MapSteps
<1>8. MapInv'
  BY <1>1, <1>2, <1>4, <1>5, PrimedInv
<1> QED
  BY <1>7, <1>8

\* A lookup changes nothing but the caches.
LEMMA LookupMaps ==
  ASSUME MapAssumption, MapInv, NEW q \in Queries, NEW lpi_max \in LpiMaxs, Lookup_(q, lpi_max)
  PROVE  UNCHANGED Map!vars /\ MapInv'
<1> DEFINE x == GetLpis(dict, q, lpi_max)
<1>1. role = "ime" /\ role' = role /\ got' = got /\ file' = file /\ dict' = x.dict
  BY DEF Lookup_
<1>2. SearchInv'
  BY LookupSearches DEF MapInv, MapAssumption
<1>3. /\ Sound(dict) /\ MapMem = Copy(dict) /\ ScoresPacked(MapMem) /\ ScoresPacked(MapDisk)
      /\ got = {}
  BY <1>1, MapOpened
<1>4. x.dict.offsets = dict.offsets /\ x.dict.lemmas = dict.lemmas /\ x.dict.syncs = dict.syncs
  BY <1>3 DEF GetLpis, PushMiss, PushRange, Sound, Fields
<1> HIDE DEF x
<1>5. MapMem' = MapMem /\ MapDisk' = MapDisk
  BY <1>1, <1>3, <1>4, SameCopy, PrimedMap DEF MapDisk
<1>6. MapSent' = {} /\ MapSent = {}
  BY <1>1, <1>3, PrimedMap DEF SentOf, MapSent
<1>7. UNCHANGED Map!vars
  BY <1>5, <1>6, MapSteps
<1>8. MapInv'
  BY <1>1, <1>2, <1>3, <1>5, PrimedInv
<1> QED
  BY <1>7, <1>8

\* A lemma is removed with its entries in the queue.
LEMMA RemoveLemmaMaps ==
  ASSUME MapAssumption, MapInv, NEW id, RemoveLemma(id)
  PROVE  (\E lemma \in Lemmas : Map!Remove(lemma)) /\ MapInv'
<1> DEFINE lemma == dict.lemmas[dict.by_id[id]]
           i == LocateInOffsets(dict, lemma)
<1>1. /\ role = "ime" /\ role' = role /\ got' = got /\ file' = file /\ i # 0
      /\ dict' = RemoveLemmaByOffsetIndex(dict, i) /\ id \in DOMAIN dict.by_id
  BY DEF RemoveLemma
<1>2. SearchInv'
  BY RemoveLemmaSearches DEF MapInv
<1>3. /\ Sound(dict) /\ Searchable(dict) /\ Single(dict) /\ MapMem = Copy(dict)
      /\ MapMem # NoDict /\ ScoresPacked(MapMem) /\ ScoresPacked(MapDisk) /\ got = {}
  BY <1>1, MapOpened
<1>4. lemma \in Lemmas
  BY <1>1, <1>3, LemmaOfId
<1> HIDE DEF lemma
<1>5. i \in Live(dict) /\ LemmaOf(dict, i) = lemma
  BY <1>1, <1>3, <1>4, LocateExact DEF MapAssumption
<1> HIDE DEF i
<1>6. Copy(dict') = [entries |-> {e \in MapMem.entries : e.lemma # lemma},
                     queue |-> MapMem.queue \ {lemma}]
  BY <1>1, <1>3, <1>5, RemoveCopy
<1>7. MapMem' = Copy(dict') /\ MapDisk' = MapDisk /\ MapSent' = {} /\ MapSent = {}
  BY <1>1, <1>3, PrimedMap DEF MapDisk, MapSent, SentOf
<1>8. Map!Remove(lemma)
  BY <1>3, <1>6, <1>7, MapSteps
<1>9. ScoresPacked(MapMem')
  BY <1>3, <1>6, <1>7, PackedSome
<1>10. MapInv'
  BY <1>1, <1>2, <1>3, <1>7, <1>9, PrimedInv
<1> QED
  BY <1>4, <1>8, <1>10

\* A new score, and the lemma joins the queue.
LEMMA UpdateLemmaMaps ==
  ASSUME MapAssumption, MapInv, NEW id, NEW lmt \in Times, UpdateLemma(id, lmt)
  PROVE  (\E lemma \in Lemmas, score \in MapScores : Map!Update(lemma, score)) /\ MapInv'
<1> DEFINE lemma == dict.lemmas[dict.by_id[id]]
           i == LocateInOffsets(dict, lemma)
           freq == Min({dict.offsets[i].score.freq + 1, kUserDictMaxFrequency})
           score == [lmt |-> lmt, freq |-> freq]
           x == Rescored(dict, i, score)
           pos == dict.offsets[i].pos
<1>1. /\ role = "ime" /\ role' = role /\ got' = got /\ file' = file /\ i # 0
      /\ dict' = QueueLemmaForSync(x, dict.offsets[i].id) /\ id \in DOMAIN dict.by_id
  BY DEF UpdateLemma, Rescored
<1>2. SearchInv'
  BY UpdateLemmaSearches DEF MapInv
<1>3. /\ Sound(dict) /\ Searchable(dict) /\ Single(dict) /\ MapMem = Copy(dict)
      /\ MapMem # NoDict /\ ScoresPacked(MapMem) /\ ScoresPacked(MapDisk) /\ got = {}
      /\ Map!Known(MapMem) = LiveLemmas(dict)
  BY <1>1, MapOpened
<1>4. lemma \in Lemmas
  BY <1>1, <1>3, LemmaOfId
<1> HIDE DEF lemma
<1>5. i \in Live(dict) /\ LemmaOf(dict, i) = lemma
  BY <1>1, <1>3, <1>4, LocateExact DEF MapAssumption
<1> HIDE DEF i
<1>6. i \in Indexes(dict)
  BY <1>5 DEF Live
<1>7. score \in Scores /\ score \in MapScores
  <2>1. dict.offsets[i].score \in Scores
    BY <1>3, <1>6 DEF Sound, IndexSound
  <2>2. dict.offsets[i].score.freq \in Nat
    BY <2>1 DEF Scores
  <2>3. kUserDictMaxFrequency \in Nat /\ kUserDictMaxFrequency >= 1
    BY SizesAssumption DEF MapAssumption, ScoresInRange
  <2>4. freq \in 1..kUserDictMaxFrequency
    <3> DEFINE a == dict.offsets[i].score.freq + 1
    <3>1. a \in Nat /\ a >= 1
      BY <2>2
    <3> HIDE DEF a
    <3>2. Min({a, kUserDictMaxFrequency}) \in {a, kUserDictMaxFrequency}
          /\ Min({a, kUserDictMaxFrequency}) <= kUserDictMaxFrequency
      BY <2>3, <3>1, MinNat
    <3> QED BY <2>3, <3>1, <3>2 DEF a
  <2> HIDE DEF freq
  <2> QED BY <1>3, <1>6, <2>4, RaisedScore DEF MapScores, freq
<1> HIDE DEF score
<1>8. /\ Copy(x) = [entries |-> Map!Set(MapMem.entries, lemma, score), queue |-> MapMem.queue]
      /\ x.lemmas = dict.lemmas /\ x.syncs = dict.syncs /\ LiveLemmas(x) = LiveLemmas(dict)
      /\ Keeps(dict, x, {"state", "offsets"})
  BY <1>3, <1>5, <1>7, RescoreCopy
<1> HIDE DEF x
<1>9. /\ lemma = dict.lemmas[pos] /\ pos \in DOMAIN dict.lemmas
      /\ dict.by_id[dict.offsets[i].id] = pos /\ lemma \in LiveLemmas(dict)
  BY <1>3, <1>5, <1>6 DEF LemmaOf, Sound, IndexSound, LiveLemmas
<1> HIDE DEF pos
<1>10. x.by_id = dict.by_id /\ "syncs" \in DOMAIN x
  BY <1>8 DEF Keeps, Fields
<1>11. /\ dict'.offsets = x.offsets /\ dict'.lemmas = x.lemmas
       /\ dict'.syncs = Append(x.syncs, pos)
  BY <1>1, <1>9, <1>10 DEF QueueLemmaForSync
<1>12. x.syncs \in Seq(SyncEntries)
  BY <1>3, <1>8 DEF Sound, CountersSound, SyncEntries
<1>13. Copy(dict') = [entries |-> Copy(x).entries, queue |-> Copy(x).queue \cup {lemma}]
  BY <1>8, <1>9, <1>11, <1>12, QueueCopy
<1>14. Copy(dict') = [entries |-> Map!Set(MapMem.entries, lemma, score),
                      queue |-> MapMem.queue \cup {lemma}]
  BY <1>8, <1>13
<1>15. MapMem' = Copy(dict') /\ MapDisk' = MapDisk /\ MapSent' = {} /\ MapSent = {}
  BY <1>1, <1>3, PrimedMap DEF MapDisk, MapSent, SentOf
<1>16. Map!Update(lemma, score)
  BY <1>3, <1>9, <1>14, <1>15, MapSteps
<1>17. ScoresPacked(MapMem')
  <2>1. \A e \in MapMem'.entries : e \in MapMem.entries \/ e.score \in MapScores
    BY <1>7, <1>14, <1>15 DEF Map!Set
  <2> QED BY <1>3, <2>1, PackedSome
<1>18. MapInv'
  BY <1>1, <1>2, <1>3, <1>15, <1>17, PrimedInv
<1> QED
  BY <1>4, <1>7, <1>16, <1>18

\* A put, or nothing where a limit refuses it.
LEMMA PutLemmaMaps ==
  ASSUME MapAssumption, MapInv, NEW lemma \in Lemmas, NEW lmt \in Times, PutLemma(lemma, lmt)
  PROVE  /\ (\E score \in MapScores : Map!Put(lemma, score)) \/ UNCHANGED Map!vars
         /\ MapInv'
<1> DEFINE score == [lmt |-> lmt, freq |-> 1]
           r == PutLemma_(dict, file, lemma, score)
<1>1. /\ role = "ime" /\ role' = role /\ got' = got /\ dict' = r.dict /\ file' = r.file
      /\ Len(dict.offsets) < MaxLemmas /\ Len(dict.syncs) < MaxSyncs
  BY DEF PutLemma
<1>2. SearchInv'
  BY PutLemmaSearches DEF MapInv
<1>3. /\ Sound(dict) /\ Accounted(dict) /\ Searchable(dict) /\ dict.syncs_null = FALSE
      /\ FileSound(file) /\ Saved(dict, file) /\ OrderedFile(file)
  BY <1>1, MapOpened
<1>4. /\ MapMem = Copy(dict) /\ MapMem # NoDict /\ got = {}
      /\ ScoresPacked(MapMem) /\ ScoresPacked(MapDisk) /\ Map!Known(MapMem) = LiveLemmas(dict)
  BY <1>1, MapOpened
<1>5. score \in Scores /\ score \in MapScores
  BY SizesAssumption DEF Scores, MapScores, MapAssumption, ScoresInRange
<1> HIDE DEF score
<1>6. PutMeans(dict, file, lemma, score, r)
  BY <1>1, <1>3, <1>5, PutCopy DEF MapAssumption
<1> HIDE DEF r
<1>7. /\ MapMem' = Copy(dict') /\ MapDisk' = Copy(Load(Validated(file')))
      /\ MapSent' = {} /\ MapSent = {}
  BY <1>1, <1>4, PrimedMap DEF MapSent, SentOf
<1>8. CASE dict' = dict /\ file' = file
  <2>1. MapMem' = MapMem /\ MapDisk' = MapDisk
    BY <1>4, <1>7, <1>8 DEF MapDisk
  <2>2. UNCHANGED Map!vars
    BY <1>7, <2>1, MapSteps
  <2>3. MapInv'
    BY <1>1, <1>2, <1>4, <2>1, PrimedInv
  <2> QED BY <2>2, <2>3
<1>9. CASE /\ Copy(r.dict) = [entries |-> Map!Set(Copy(dict).entries, lemma, score),
                              queue |-> IF lemma \in LiveLemmas(dict) THEN Copy(dict).queue
                                        ELSE Copy(dict).queue \cup {lemma}]
           /\ Copy(Load(Validated(r.file))) \in {Copy(Load(Validated(file))), Copy(dict)}
  <2>1. /\ MapMem' = [entries |-> Map!Set(MapMem.entries, lemma, score),
                      queue |-> IF lemma \in Map!Known(MapMem) THEN MapMem.queue
                                ELSE MapMem.queue \cup {lemma}]
        /\ MapDisk' \in {MapDisk, MapMem}
    BY <1>1, <1>4, <1>7, <1>9, Zenon DEF MapDisk
  <2>2. Map!Put(lemma, score)
    BY <1>4, <1>7, <2>1, MapSteps
  <2>3. ScoresPacked(MapMem') /\ ScoresPacked(MapDisk')
    <3>1. \A e \in MapMem'.entries : e \in MapMem.entries \/ e.score \in MapScores
      BY <1>5, <2>1 DEF Map!Set
    <3>2. ScoresPacked(MapMem')
      BY <1>4, <3>1, PackedSome
    <3> QED BY <1>4, <2>1, <3>2
  <2>4. MapInv'
    BY <1>1, <1>2, <1>4, <2>3, PrimedInv
  <2> QED BY <1>5, <2>2, <2>4
<1> QED
  BY <1>1, <1>6, <1>8, <1>9 DEF PutMeans

\* An open dictionary is sound after a step.
LEMMA OpenSound ==
  ASSUME SearchInv', role' # "none"
  PROVE  Sound(dict')
<1>1. Sound(dict)'
  BY DEF SearchInv, UserDictInv, Opened
<1> QED
  BY <1>1 DEF Sound, BlockSound, IndexSound, PredictsSound, CachesSound, CountersSound, Indexes,
              BytesAt, BytesOf, Tiled, FlagOf, LemmaBytes, Scores, Fields

\* The client is given entries of the queue.
LEMMA SyncGetMaps ==
  ASSUME MapAssumption, MapInv, NEW room \in Rooms, SyncGet(room)
  PROVE  Map!Send /\ MapInv'
<1>1. role = "sync" /\ role' = role /\ file' = file
  BY DEF SyncGet
<1>2. PICK wild \in SUBSET WildSyncs(dict) :
        /\ got' = SyncTexts(dict, wild, room)
        /\ dict' = IF got' = {} THEN dict ELSE Dirty(dict, USER_DICT_SYNC_DIRTY)
  BY DEF SyncGet
<1>3. SearchInv'
  BY SyncSearches DEF MapInv
<1>4. /\ Sound(dict) /\ Searchable(dict) /\ MapMem = Copy(dict) /\ MapMem # NoDict
      /\ ScoresPacked(MapMem) /\ ScoresPacked(MapDisk)
  BY <1>1, MapOpened
<1>5. room \in Nat
  BY InputsAssumption
<1>6. SentFirst(dict, got') /\ SentOf(dict, got') \subseteq Copy(dict).queue
  BY <1>2, <1>4, <1>5, TextsCopy DEF MapAssumption
<1>7. /\ dict'.offsets = dict.offsets /\ dict'.lemmas = dict.lemmas /\ dict'.syncs = dict.syncs
      /\ dict'.count_left = dict.count_left /\ dict'.size_left = dict.size_left
  <2>1. Fields \subseteq DOMAIN dict
    BY <1>4 DEF Sound
  <2>2. Keeps(dict, Dirty(dict, USER_DICT_SYNC_DIRTY), {"state"})
    BY <2>1, DirtyKeeps
  <2>3. dict' = dict \/ dict' = Dirty(dict, USER_DICT_SYNC_DIRTY)
    BY <1>2
  <2> QED BY <2>2, <2>3 DEF Keeps, Fields
<1>8. MapMem' = MapMem /\ MapDisk' = MapDisk
  BY <1>1, <1>4, <1>7, SameCopy, PrimedMap DEF MapDisk
<1>9. MapSent' = SentOf(dict, got')
  BY <1>1, <1>7, PrimedMap DEF SentOf, WildSyncs
<1>10. Map!Send
  BY <1>4, <1>6, <1>8, <1>9, MapSteps
<1>11. MergeRoom(dict') /\ SentFirst(dict', got')
  BY <1>1, <1>6, <1>7 DEF MapInv, MergeRoom, SentFirst, LiveLemmas, Live, LemmaOf, Indexes
<1>12. MapInv'
  BY <1>1, <1>3, <1>4, <1>8, <1>11, PrimedInv
<1> QED
  BY <1>10, <1>12

\* Clearing drops sent entries, and no others, from the queue.
LEMMA SyncClearMaps ==
  ASSUME MapInv
  PROVE  SyncClear => Map!ClearSent /\ MapInv'
<1> SUFFICES ASSUME SyncClear PROVE Map!ClearSent /\ MapInv'
  OBVIOUS
<1>1. /\ role = "sync" /\ role' = role /\ file' = file /\ got' = {}
      /\ dict' = ClearSyncLemmas(dict, Cardinality(got))
  BY DEF SyncClear
<1>2. SearchInv'
  BY SyncSearches DEF MapInv
<1>3. /\ Sound(dict) /\ MapMem = Copy(dict) /\ MapMem # NoDict /\ MapSent = SentOf(dict, got)
      /\ ScoresPacked(MapMem) /\ ScoresPacked(MapDisk)
  BY <1>1, MapOpened
<1>4. MergeRoom(dict) /\ SentFirst(dict, got)
  BY <1>1 DEF MapInv
<1>5. PICK done \in SUBSET SentOf(dict, got) :
        Copy(dict') = [entries |-> Copy(dict).entries, queue |-> Copy(dict).queue \ done]
  BY <1>1, <1>3, <1>4, ClearCopy
<1>6. MapMem' = Copy(dict') /\ MapDisk' = MapDisk
  BY <1>1, PrimedMap DEF MapDisk
<1>7. Sound(dict')
  BY <1>1, <1>2, OpenSound
<1>8. MapSent' = {} /\ SentFirst(dict', got')
  BY <1>1, <1>7, NothingSent, PrimedMap
<1>9. MapMem' = [MapMem EXCEPT !.queue = @ \ done]
  <2>1. MapMem = [entries |-> EntriesOf(dict), queue |-> Listed(dict) \cap LiveLemmas(dict)]
    BY <1>3, CopyParts
  <2> QED BY <1>3, <1>5, <1>6, <2>1, SMTT(30)
<1>10. Map!ClearSent
  BY <1>3, <1>5, <1>6, <1>8, <1>9, MapSteps
<1>11. MergeRoom(dict')
  <2> DEFINE rest == SubSeq(dict.syncs, Min({Cardinality(got), Len(dict.syncs)}) + 1,
                            Len(dict.syncs))
             x == [dict EXCEPT !.syncs = rest]
  <2>1. Fields \subseteq DOMAIN dict
    BY <1>3 DEF Sound
  <2>2. dict' = Dirty(x, USER_DICT_SYNC_DIRTY)
    BY <1>1, <2>1 DEF ClearSyncLemmas, Fields
  <2> HIDE DEF rest
  <2>3. /\ Fields \subseteq DOMAIN x /\ x.count_left = dict.count_left
        /\ x.size_left = dict.size_left
    BY <2>1 DEF Fields
  <2> HIDE DEF x
  <2>4. Keeps(x, dict', {"state"})
    BY <2>2, <2>3, DirtyKeeps
  <2>5. dict'.count_left = dict.count_left /\ dict'.size_left = dict.size_left
    BY <2>3, <2>4 DEF Keeps, Fields
  <2> QED BY <1>4, <2>5 DEF MergeRoom
<1>12. ScoresPacked(MapMem')
  BY <1>3, <1>5, <1>6, PackedSome
<1>13. MapInv'
  BY <1>1, <1>2, <1>3, <1>6, <1>8, <1>11, <1>12, PrimedInv
<1> QED
  BY <1>10, <1>13

\* One lemma of a merge: it takes its score, or others make room for it at the limit.
LEMMA SyncPutMaps ==
  ASSUME MapAssumption, MapInv, NEW lemma \in Lemmas, NEW freq \in Counts, NEW lmt \in Times,
         SyncPut(lemma, freq, lmt)
  PROVE  (\E score \in MapScores : Map!Merge(lemma, score)) /\ MapInv'
<1> DEFINE score == [lmt |-> lmt, freq |-> freq]
<1>1. /\ role = "sync" /\ role' = role /\ got = {} /\ got' = got
      /\ Len(dict.offsets) < MaxLemmas /\ dict.count_left > 0
  BY DEF SyncPut, MapAssumption
<1>2. PICK r \in PutLemmaNoSync(dict, file, lemma, score) : dict' = r.dict /\ file' = r.file
  BY DEF SyncPut
<1>3. SearchInv'
  BY SyncPutSearches DEF MapInv
<1>4. /\ Sound(dict) /\ Accounted(dict) /\ Searchable(dict) /\ dict.syncs_null = FALSE
      /\ FileSound(file) /\ Saved(dict, file) /\ OrderedFile(file)
  BY <1>1, MapOpened
<1>5. /\ MapMem = Copy(dict) /\ MapMem # NoDict
      /\ ScoresPacked(MapMem) /\ ScoresPacked(MapDisk) /\ Map!Known(MapMem) = LiveLemmas(dict)
  BY <1>1, MapOpened
<1>6. score \in Scores /\ score \in MapScores
  BY SizesAssumption DEF Scores, MapScores, MapAssumption, ScoresInRange
<1> HIDE DEF score
<1>7. MergeRoom(dict)
  BY <1>1 DEF MapInv
<1>8. MergeMeans(dict, file, lemma, score, r) /\ MergeRoom(r.dict)
  BY <1>1, <1>2, <1>4, <1>6, <1>7, MergeCopy DEF MapAssumption
<1>9. /\ MapMem' = Copy(r.dict) /\ MapDisk' = Copy(Load(Validated(r.file)))
  BY <1>1, <1>2, PrimedMap
<1>10. Sound(dict')
  BY <1>1, <1>3, OpenSound
<1>11. MapSent' = {} /\ MapSent = {} /\ SentFirst(dict', got')
  BY <1>1, <1>10, NothingSent, PrimedMap DEF MapSent, SentOf
<1>12. MergeRoom(dict')
  BY <1>2, <1>8
<1>13. CASE /\ Copy(r.dict).entries = Map!Set(Copy(dict).entries, lemma, score)
            /\ Copy(r.dict).queue \in {Copy(dict).queue, Copy(dict).queue \cup {lemma}}
            /\ r.file = file
  <2>1. /\ MapMem'.entries = Map!Set(MapMem.entries, lemma, score)
        /\ MapMem'.queue \in {MapMem.queue, MapMem.queue \cup {lemma}}
        /\ MapDisk' \in {MapDisk, MapMem}
    BY <1>5, <1>9, <1>13 DEF MapDisk
  <2>2. Map!Merge(lemma, score)
    BY <1>5, <1>11, <2>1, MapMerges
  <2>3. \A e \in MapMem'.entries : e \in MapMem.entries \/ e.score \in MapScores
    BY <1>6, <2>1 DEF Map!Set
  <2>4. ScoresPacked(MapMem') /\ ScoresPacked(MapDisk')
    BY <1>5, <2>1, <2>3, PackedSome
  <2>5. MapInv'
    BY <1>1, <1>3, <1>11, <1>12, <2>4, PrimedInv
  <2> QED BY <1>6, <2>2, <2>5
<1>14. CASE \E evicted \in SUBSET LiveLemmas(dict) :
              LET left == {e \in Copy(dict).entries : e.lemma \notin evicted} IN
              /\ lemma \notin LiveLemmas(dict)
              /\ Copy(r.dict).entries \in {left, Map!Set(left, lemma, score)}
              /\ Copy(Load(Validated(r.file))).entries = left
  <2> DEFINE Without(gone) == {e \in MapMem.entries : e.lemma \notin gone}
  <2>1. PICK evicted \in SUBSET Map!Known(MapMem) :
          /\ lemma \notin Map!Known(MapMem)
          /\ MapMem'.entries \in {Without(evicted), Map!Set(Without(evicted), lemma, score)}
          /\ MapDisk'.entries = Without(evicted)
    BY <1>5, <1>9, <1>14
  <2>2. Map!Merge(lemma, score)
    BY <1>5, <1>11, <2>1, MapMerges
  <2>3. /\ \A e \in MapMem'.entries : e \in MapMem.entries \/ e.score \in MapScores
        /\ \A e \in MapDisk'.entries : e \in MapMem.entries
    BY <1>6, <2>1 DEF Map!Set
  <2>4. ScoresPacked(MapMem') /\ ScoresPacked(MapDisk')
    BY <1>5, <2>3, PackedSome
  <2>5. MapInv'
    BY <1>1, <1>3, <1>11, <1>12, <2>4, PrimedInv
  <2> QED BY <1>6, <2>2, <2>5
<1> QED
  BY <1>8, <1>13, <1>14 DEF MergeMeans

---------------------------------------------------------------------------
\* The empty file stands for no lemmas.
LEMMA InitMaps ==
  ASSUME Init, SearchInv
  PROVE  Map!Init /\ MapInv
<1>1. dict = NoDict /\ file = NoFile /\ role = "none" /\ got = {}
  BY DEF Init
<1>2. MapMem = NoDict /\ MapSent = {}
  BY <1>1 DEF MapMem, MapSent
<1>3. MapDisk = [entries |-> {}, queue |-> {}]
  <2> DEFINE x == Load(EmptyFile)
  <2>1. MapDisk = Copy(x)
    BY <1>1 DEF MapDisk, Validated
  <2>2. Indexes(x) = {}
    <3>1. EmptyFile.offsets = <<>>
      BY DEF EmptyFile
    <3>2. x.offsets = [i \in {} |-> 0]
      BY <3>1 DEF Load
    <3>3. x.offsets = <<>>
      BY <3>2
    <3> QED BY <3>3 DEF Indexes
  <2> HIDE DEF x
  <2>3. Live(x) = {}
    BY <2>2 DEF Live
  <2>4. EntriesOf(x) = {} /\ LiveLemmas(x) = {}
    BY <2>3 DEF EntriesOf, LiveLemmas
  <2> QED BY <2>1, <2>4, CopyParts
<1>4. Map!Init
  BY <1>2, <1>3, MapSteps
<1>5. ScoresPacked(MapDisk)
  BY <1>3 DEF ScoresPacked
<1>6. MapInv
  BY <1>1, <1>5 DEF MapInv, MapDisk, Opened
<1> QED
  BY <1>4, <1>6

\* Every step of the dictionary is a step of the map, or none.
LEMMA StepMaps ==
  ASSUME MapAssumption, MapInv, [Next]_vars
  PROVE  [Map!Next]_(Map!vars) /\ MapInv'
<1> DEFINE Step == Map!Next \/ UNCHANGED Map!vars
<1>1. ASSUME NEW r \in {"ime", "sync"}, Open(r) PROVE Step /\ MapInv'
  BY <1>1, OpenMaps DEF Map!Next
<1>2. CASE Close
  BY <1>2, CloseMaps DEF Map!Next
<1>3. CASE Crash
  BY <1>3, CrashMaps DEF Map!Next
<1>4. CASE Flush
  BY <1>4, FlushMaps DEF Map!Next
<1>5. CASE SyncClear
  BY <1>5, SyncClearMaps DEF Map!Next
<1>6. ASSUME NEW lemma \in Lemmas, NEW lmt \in Times, PutLemma(lemma, lmt)
      PROVE  Step /\ MapInv'
  <2>1. (\E score \in MapScores : Map!Put(lemma, score)) \/ UNCHANGED Map!vars
    BY <1>6, PutLemmaMaps
  <2>2. MapInv'
    BY <1>6, PutLemmaMaps
  <2> QED BY <2>1, <2>2 DEF Map!Next, MapScores
<1>7. ASSUME NEW lemma \in Lemmas, NEW lmt \in Times, NEW freq \in Counts,
             SyncPut(lemma, freq, lmt)
      PROVE  Step /\ MapInv'
  <2>1. (\E score \in MapScores : Map!Merge(lemma, score)) /\ MapInv'
    BY <1>7, SyncPutMaps
  <2> QED BY <2>1 DEF Map!Next, MapScores
<1>8. ASSUME NEW id \in 1..MaxLemmas, RemoveLemma(id) PROVE Step /\ MapInv'
  <2>1. (\E lemma \in Lemmas : Map!Remove(lemma)) /\ MapInv'
    BY <1>8, RemoveLemmaMaps
  <2> QED BY <2>1 DEF Map!Next
<1>9. ASSUME NEW id \in 1..MaxLemmas, NEW lmt \in Times, UpdateLemma(id, lmt)
      PROVE  Step /\ MapInv'
  <2>1. (\E lemma \in Lemmas, score \in MapScores : Map!Update(lemma, score)) /\ MapInv'
    BY <1>9, UpdateLemmaMaps
  <2> QED BY <2>1 DEF Map!Next, MapScores
<1>10. ASSUME NEW q \in Queries, NEW lpi_max \in LpiMaxs, Lookup_(q, lpi_max)
       PROVE  Step /\ MapInv'
  BY <1>10, LookupMaps
<1>11. ASSUME NEW room \in Rooms, SyncGet(room) PROVE Step /\ MapInv'
  BY <1>11, SyncGetMaps DEF Map!Next
<1>12. CASE UNCHANGED vars
  <2>1. dict' = dict /\ file' = file /\ role' = role /\ got' = got
    BY <1>12 DEF vars
  <2>2. MapMem' = MapMem /\ MapDisk' = MapDisk /\ MapSent' = MapSent
    BY <2>1 DEF MapMem, MapDisk, MapSent
  <2>3. MapInv'
    BY <2>1 DEF MapInv, SearchInv, UserDictInv, Opened
  <2> QED BY <2>2, <2>3, MapSteps
<1>13. Step /\ MapInv'
  BY <1>1, <1>2, <1>3, <1>4, <1>5, <1>6, <1>7, <1>8, <1>9, <1>10, <1>11, <1>12 DEF Next
<1> QED
  BY <1>13

\* What the refinement stands on holds in every state: besides the order of the index and the
\* truth of the caches, every score has a text, the room allocated in advance lasts for the
\* lemmas left to merge, and clear_last_got counts exactly what get_lemmas gave out, but for
\* entries of the sync list that stand for no lemma.
THEOREM MapInvariant ==
  ASSUME MapAssumption
  PROVE  Spec => []MapInv
<1>1. Init /\ SearchInv => MapInv
  BY InitMaps
<1>2. MapInv /\ [Next]_vars => MapInv'
  BY StepMaps
<1>3. Spec => []SearchInv
  BY SearchInvariant DEF MapAssumption
<1> QED
  BY <1>1, <1>2, <1>3, PTL DEF Spec

\* The dictionary implements the map: puts, updates, removals, merges, lookups, saves, reloads
\* and crashes do to the lemmas, their scores and the sync queue what UserDictMap says, whatever
\* the positions, ids, caches and dirty levels are.
THEOREM MapImplemented ==
  ASSUME MapAssumption
  PROVE  Spec => ImplementsMap
<1>1. Init /\ MapInv => Map!Init
  BY InitMaps DEF MapInv
<1>2. MapInv /\ [Next]_vars => [Map!Next]_(Map!vars)
  BY StepMaps
<1> QED
  BY <1>1, <1>2, MapInvariant, PTL DEF Spec, ImplementsMap, Map!Spec
=============================================================================
