--------------------------- MODULE UserDictProofs ---------------------------
(***************************************************************************)
(* The inductive invariant of the user dictionary over its file, and what  *)
(* follows from it for every value of the constants: the parallel arrays   *)
(* agree, the free space is counted right, and a close saves the whole     *)
(* image although it writes a part of the file only.  The index stays in   *)
(* the order the searches rely on and the caches never hide an entry, so   *)
(* that a put finds the lemma it should update and a lookup finds all the  *)
(* query matches.                                                          *)
(***************************************************************************)
EXTENDS UserDictIndexProofs

\* A dirty level is one of the six.
LEMMA States ==
  ASSUME NEW d, CountersSound(d)
  PROVE  d.state \in {USER_DICT_SYNC, USER_DICT_SYNC_DIRTY, USER_DICT_SCORE_DIRTY,
                      USER_DICT_OFFSET_DIRTY, USER_DICT_LEMMA_DIRTY, USER_DICT_DEFRAGMENTED}
BY DEF CountersSound, USER_DICT_SYNC, USER_DICT_SYNC_DIRTY, USER_DICT_SCORE_DIRTY,
       USER_DICT_OFFSET_DIRTY, USER_DICT_LEMMA_DIRTY, USER_DICT_DEFRAGMENTED

\* The block of a write: what the write leaves out is in the file already.
LEMMA BlockWritten ==
  ASSUME NEW d, BlockSound(d), CountersSound(d), NEW f, Saved(d, f), f.lemma_size \in Nat,
         DOMAIN f.lemmas \subseteq Nat, f.lemmas = [p \in DOMAIN f.lemmas |-> f.lemmas[p]],
         d.state < USER_DICT_DEFRAGMENTED
  PROVE  LET need_write == PreAllocBytes - d.size_left
             kept == {pos \in DOMAIN f.lemmas : pos < d.lemma_size - need_write}
         IN [pos \in kept \cup {p \in DOMAIN d.lemmas : p >= d.lemma_size - need_write} |->
               IF pos \in kept THEN f.lemmas[pos] ELSE d.lemmas[pos]] = d.lemmas
<1> DEFINE need_write == PreAllocBytes - d.size_left
           kept == {pos \in DOMAIN f.lemmas : pos < d.lemma_size - need_write}
           rest == {p \in DOMAIN d.lemmas : p >= d.lemma_size - need_write}
<1>1. /\ d.lemma_size = f.lemma_size + need_write
      /\ DOMAIN f.lemmas = {pos \in DOMAIN d.lemmas : pos < f.lemma_size}
      /\ \A pos \in DOMAIN f.lemmas : f.lemmas[pos] = d.lemmas[pos]
  BY DEF Saved
<1>2. PreAllocBytes \in Int /\ d.size_left \in Int
  BY SizesAssumption, SMTT(30) DEF CountersSound, PreAllocBytes, LemmaBytes
<1>3. d.lemma_size - need_write = f.lemma_size
  <2> HIDE DEF PreAllocBytes
  <2> QED BY <1>1, <1>2
<1>4. kept = DOMAIN f.lemmas
  <2>1. ASSUME NEW pos \in DOMAIN f.lemmas PROVE pos < d.lemma_size - need_write
    <3>1. pos < f.lemma_size
      BY <1>1
    <3> HIDE DEF need_write
    <3> QED BY <1>3, <3>1
  <2> HIDE DEF need_write
  <2> QED BY <2>1
<1>5. rest = {p \in DOMAIN d.lemmas : p >= f.lemma_size}
  <2> HIDE DEF need_write
  <2> QED BY <1>3
<1> HIDE DEF kept, rest, need_write
<1>6. kept \cup rest = DOMAIN d.lemmas
  <2>1. DOMAIN d.lemmas \subseteq Nat
    BY DEF BlockSound
  <2>2. \A p \in DOMAIN d.lemmas : p < f.lemma_size \/ p >= f.lemma_size
    BY <2>1
  <2> QED BY <1>1, <1>4, <1>5, <2>2
<1>7. \A pos \in DOMAIN d.lemmas :
        (IF pos \in kept THEN f.lemmas[pos] ELSE d.lemmas[pos]) = d.lemmas[pos]
  BY <1>1, <1>4
<1>8. d.lemmas = [pos \in DOMAIN d.lemmas |-> d.lemmas[pos]]
  BY DEF BlockSound
<1>9. [pos \in kept \cup rest |-> IF pos \in kept THEN f.lemmas[pos] ELSE d.lemmas[pos]] = d.lemmas
  BY <1>6, <1>7, <1>8
<1> QED
  BY <1>9 DEF kept, rest, need_write

\* A write of an image that was changed since the load leaves the whole image in the file.
LEMMA WriteBackAll ==
  ASSUME NEW d, BlockSound(d), CountersSound(d), NEW f, Saved(d, f), f.lemma_size \in Nat,
         DOMAIN f.lemmas \subseteq Nat, f.lemmas = [p \in DOMAIN f.lemmas |-> f.lemmas[p]],
         d.state # USER_DICT_SYNC, ~(d.syncs_null /\ d.syncs # <<>>)
  PROVE  WriteBack(d, f) = FileOf(d)
<1> DEFINE need_write == PreAllocBytes - d.size_left
           kept == {pos \in DOMAIN f.lemmas : pos < d.lemma_size - need_write}
           tail == [pos \in kept \cup {p \in DOMAIN d.lemmas : p >= d.lemma_size - need_write} |->
                      IF pos \in kept THEN f.lemmas[pos] ELSE d.lemmas[pos]]
           block == IF d.state = USER_DICT_DEFRAGMENTED THEN d.lemmas
                    ELSE IF d.state < USER_DICT_LEMMA_DIRTY THEN f.lemmas ELSE tail
           offsets == IF d.state >= USER_DICT_OFFSET_DIRTY
                      THEN [i \in Indexes(d) |-> [pos |-> d.offsets[i].pos,
                                                  removed |-> d.offsets[i].removed]]
                      ELSE f.offsets
           predicts == IF d.state >= USER_DICT_OFFSET_DIRTY THEN d.predicts ELSE f.predicts
           scores == IF d.state >= USER_DICT_SCORE_DIRTY
                     THEN [i \in Indexes(d) |-> d.offsets[i].score] ELSE f.scores
<1>1. d.state \in {USER_DICT_SYNC_DIRTY, USER_DICT_SCORE_DIRTY, USER_DICT_OFFSET_DIRTY,
                   USER_DICT_LEMMA_DIRTY, USER_DICT_DEFRAGMENTED}
  BY States
<1>2. d.state \in Int /\ d.state # USER_DICT_NONE
  BY <1>1 DEF USER_DICT_NONE, USER_DICT_SYNC_DIRTY, USER_DICT_SCORE_DIRTY,
              USER_DICT_OFFSET_DIRTY, USER_DICT_LEMMA_DIRTY, USER_DICT_DEFRAGMENTED
<1>3. WriteBack(d, f) =
        [lemmas |-> block, lemma_size |-> d.lemma_size, offsets |-> offsets,
         predicts |-> predicts, scores |-> scores, syncs |-> d.syncs,
         free_count |-> d.free_count, free_size |-> d.free_size, limit |-> d.limit]
  BY <1>2 DEF WriteBack
<1>4. block = d.lemmas
  <2>1. CASE d.state = USER_DICT_DEFRAGMENTED
    BY <2>1
  <2>2. CASE d.state < USER_DICT_LEMMA_DIRTY
    <3>1. d.state # USER_DICT_DEFRAGMENTED
      BY <1>2, <2>2 DEF USER_DICT_LEMMA_DIRTY, USER_DICT_DEFRAGMENTED
    <3>2. f.lemmas = d.lemmas
      BY <2>2 DEF Saved
    <3> HIDE DEF tail
    <3> QED BY <2>2, <3>1, <3>2
  <2>3. CASE ~(d.state < USER_DICT_LEMMA_DIRTY) /\ d.state # USER_DICT_DEFRAGMENTED
    <3>1. d.state < USER_DICT_DEFRAGMENTED
      BY <1>1, <2>3 DEF USER_DICT_SYNC_DIRTY, USER_DICT_SCORE_DIRTY, USER_DICT_OFFSET_DIRTY,
                        USER_DICT_LEMMA_DIRTY, USER_DICT_DEFRAGMENTED
    <3>2. tail = d.lemmas
      BY <3>1, BlockWritten
    <3> HIDE DEF tail
    <3> QED BY <2>3, <3>2
  <2> HIDE DEF block
  <2> QED BY <2>1, <2>2, <2>3
<1>5. offsets = FlagsOf(d)
  <2>1. CASE d.state >= USER_DICT_OFFSET_DIRTY
    BY <2>1 DEF FlagsOf, FlagOf
  <2>2. CASE ~(d.state >= USER_DICT_OFFSET_DIRTY)
    <3>1. d.state < USER_DICT_OFFSET_DIRTY
      BY <1>2, <2>2 DEF USER_DICT_OFFSET_DIRTY
    <3>2. f.offsets = FlagsOf(d)
      BY <3>1 DEF Saved
    <3> QED BY <2>2, <3>2
  <2> QED BY <2>1, <2>2
<1>6. predicts = d.predicts
  <2>1. CASE d.state >= USER_DICT_OFFSET_DIRTY
    BY <2>1
  <2>2. CASE ~(d.state >= USER_DICT_OFFSET_DIRTY)
    <3>1. d.state < USER_DICT_OFFSET_DIRTY
      BY <1>2, <2>2 DEF USER_DICT_OFFSET_DIRTY
    <3>2. f.predicts = d.predicts
      BY <3>1 DEF Saved
    <3> QED BY <2>2, <3>2
  <2> QED BY <2>1, <2>2
<1>7. scores = ScoresOf(d)
  <2>1. CASE d.state >= USER_DICT_SCORE_DIRTY
    BY <2>1 DEF ScoresOf
  <2>2. CASE ~(d.state >= USER_DICT_SCORE_DIRTY)
    <3>1. d.state < USER_DICT_SCORE_DIRTY
      BY <1>2, <2>2 DEF USER_DICT_SCORE_DIRTY
    <3>2. f.scores = ScoresOf(d)
      BY <3>1 DEF Saved
    <3> QED BY <2>2, <3>2
  <2> QED BY <2>1, <2>2
<1> HIDE DEF block, offsets, predicts, scores
<1> QED
  BY <1>3, <1>4, <1>5, <1>6, <1>7 DEF FileOf
---------------------------------------------------------------------------
\* What a load makes of a file with n lemmas.
Loaded(f, n, r) ==
  /\ Fields \subseteq DOMAIN r /\ r.state = USER_DICT_SYNC /\ r.lemmas = f.lemmas
  /\ r.lemma_size = f.lemma_size /\ r.predicts = f.predicts /\ r.syncs = f.syncs
  /\ r.syncs_null = FALSE /\ r.count_left = kUserDictPreAlloc
  /\ r.size_left = PreAllocBytes /\ r.free_count = f.free_count
  /\ r.free_size = f.free_size /\ r.limit = f.limit /\ r.cache = NoCache
  /\ r.offsets = [i \in 1..n |-> [pos |-> f.offsets[i].pos, removed |-> f.offsets[i].removed,
                                  score |-> f.scores[i], id |-> i]]
  /\ r.by_id = [i \in 1..n |-> f.offsets[i].pos]
  /\ r.offsets \in [1..n -> IndexRecords(n)] /\ Len(r.offsets) = n /\ Indexes(r) = 1..n

\* The fields of the image a load gives.
LEMMA LoadFields ==
  ASSUME NEW f, NEW n \in Nat, f.offsets \in [1..n -> FlagRecords], f.scores \in [1..n -> Scores],
         NEW r, r = Load(f)
  PROVE  Loaded(f, n, r)
<1>1. DOMAIN f.offsets = 1..n
  OBVIOUS
<1>2. /\ Fields \subseteq DOMAIN r /\ r.state = USER_DICT_SYNC /\ r.lemmas = f.lemmas
      /\ r.lemma_size = f.lemma_size /\ r.predicts = f.predicts /\ r.syncs = f.syncs
      /\ r.syncs_null = FALSE /\ r.count_left = kUserDictPreAlloc
      /\ r.size_left = PreAllocBytes /\ r.free_count = f.free_count
      /\ r.free_size = f.free_size /\ r.limit = f.limit /\ r.cache = NoCache
  BY DEF Load, Fields
<1>3. /\ r.offsets = [i \in 1..n |-> [pos |-> f.offsets[i].pos, removed |-> f.offsets[i].removed,
                                      score |-> f.scores[i], id |-> i]]
      /\ r.by_id = [i \in 1..n |-> f.offsets[i].pos]
  BY <1>1 DEF Load
<1>4. \A i \in 1..n : [pos |-> f.offsets[i].pos, removed |-> f.offsets[i].removed,
                       score |-> f.scores[i], id |-> i] \in IndexRecords(n)
  BY DEF FlagRecords, IndexRecords
<1> DEFINE t == r.offsets
<1>5. t \in [1..n -> IndexRecords(n)]
  BY <1>3, <1>4
<1> HIDE DEF t
<1>6. Len(t) = n
  BY <1>5
<1> QED
  BY <1>2, <1>3, <1>5, <1>6 DEF Loaded, Indexes, t

\* Empty caches lie in every index.
LEMMA NoCacheSound ==
  ASSUME NEW r, r.cache = NoCache
  PROVE  CachesSound(r)
<1>1. r.cache \in [1..kMaxLemmaSize -> {<<>>}]
  BY DEF NoCache
<1> DEFINE V == [sig : {q.sig : q \in Queries}, val : [start : Nat \ {0}, count : Nat]]
<1>2. \A m \in 1..kMaxLemmaSize : r.cache[m] = <<>> /\ Len(r.cache[m]) = 0
  BY <1>1
<1>3. r.cache \in [1..kMaxLemmaSize -> Seq(V)]
  <2> HIDE DEF V
  <2>1. {<<>>} \subseteq Seq(V)
    OBVIOUS
  <2> QED BY <1>1, <2>1
<1>4. \A m \in 1..kMaxLemmaSize : 1..Len(r.cache[m]) = {}
  BY <1>2
<1> QED
  BY <1>3, <1>4 DEF CachesSound

\* A load of the file that holds the whole of an image gives a sound image with fresh ids.
LEMMA StoredFile ==
  ASSUME NEW d, Storable(d), NEW f, f = FileOf(d)
  PROVE  FileSound(f) /\ Load(f).syncs = d.syncs /\ Len(Load(f).offsets) = Len(d.offsets)
<1>1. PICK n \in Nat : n = Len(d.offsets) /\ n <= MaxLemmas
  BY IndexLen DEF Storable
<1>2. Indexes(d) = 1..n
  BY <1>1 DEF Indexes
<1>3. /\ BlockSound(d) /\ IndexSound(d) /\ PredictsSound(d) /\ CountersSound(d) /\ Accounted(d)
  BY DEF Storable
<1>4. /\ f.lemmas = d.lemmas /\ f.lemma_size = d.lemma_size /\ f.offsets = FlagsOf(d)
      /\ f.predicts = d.predicts /\ f.scores = ScoresOf(d) /\ f.syncs = d.syncs
      /\ f.free_count = d.free_count /\ f.free_size = d.free_size /\ f.limit = d.limit
      /\ f = [lemmas |-> f.lemmas, lemma_size |-> f.lemma_size, offsets |-> f.offsets,
              predicts |-> f.predicts, scores |-> f.scores, syncs |-> f.syncs,
              free_count |-> f.free_count, free_size |-> f.free_size, limit |-> f.limit]
  BY DEF FileOf
<1>5. d.offsets \in [1..n -> IndexRecords(n)]
  BY <1>1, <1>2, <1>3 DEF IndexSound, IndexRecords
<1>6. /\ f.offsets = [i \in 1..n |-> FlagOf(d.offsets[i])]
      /\ f.scores = [i \in 1..n |-> d.offsets[i].score]
  BY <1>2, <1>4 DEF FlagsOf, ScoresOf
<1>7. f.offsets \in [1..n -> FlagRecords] /\ f.scores \in [1..n -> Scores]
  <2>1. \A i \in 1..n : FlagOf(d.offsets[i]) \in FlagRecords /\ d.offsets[i].score \in Scores
    BY <1>5 DEF FlagRecords, IndexRecords, FlagOf
  <2> QED BY <1>6, <2>1
<1> DEFINE r == Load(f)
<1>8. /\ Fields \subseteq DOMAIN r /\ r.state = USER_DICT_SYNC /\ r.lemmas = f.lemmas
      /\ r.lemma_size = f.lemma_size /\ r.predicts = f.predicts /\ r.syncs = f.syncs
      /\ r.count_left = kUserDictPreAlloc
      /\ r.size_left = PreAllocBytes /\ r.free_count = f.free_count
      /\ r.free_size = f.free_size /\ r.limit = f.limit /\ r.cache = NoCache
      /\ r.offsets = [i \in 1..n |-> [pos |-> f.offsets[i].pos, removed |-> f.offsets[i].removed,
                                      score |-> f.scores[i], id |-> i]]
      /\ r.by_id = [i \in 1..n |-> f.offsets[i].pos]
      /\ r.offsets \in [1..n -> IndexRecords(n)] /\ Len(r.offsets) = n /\ Indexes(r) = 1..n
  <2>1. f.offsets \in [1..n -> FlagRecords]
    BY <1>7
  <2>2. f.scores \in [1..n -> Scores]
    BY <1>7
  <2>3. Loaded(f, n, r)
    BY <2>1, <2>2, LoadFields
  <2> HIDE DEF r
  <2> QED BY <2>3 DEF Loaded
<1> HIDE DEF r
<1>9. \A i \in 1..n : /\ r.offsets[i].pos = d.offsets[i].pos /\ r.offsets[i].id = i
                      /\ r.offsets[i].removed = d.offsets[i].removed
                      /\ r.by_id[i] = d.offsets[i].pos
                      /\ FlagOf(r.offsets[i]) = FlagOf(d.offsets[i])
  <2>1. \A i \in 1..n :
          /\ r.offsets[i] = [pos |-> f.offsets[i].pos, removed |-> f.offsets[i].removed,
                             score |-> f.scores[i], id |-> i]
          /\ r.by_id[i] = f.offsets[i].pos
    BY <1>8
  <2>2. \A i \in 1..n : /\ f.offsets[i].pos = d.offsets[i].pos
                         /\ f.offsets[i].removed = d.offsets[i].removed
    BY <1>6 DEF FlagOf
  <2>3. ASSUME NEW i \in 1..n
        PROVE  /\ r.offsets[i].pos = d.offsets[i].pos /\ r.offsets[i].id = i
               /\ r.offsets[i].removed = d.offsets[i].removed
               /\ r.by_id[i] = d.offsets[i].pos
    <3>1. /\ r.offsets[i] = [pos |-> f.offsets[i].pos, removed |-> f.offsets[i].removed,
                             score |-> f.scores[i], id |-> i]
          /\ r.by_id[i] = f.offsets[i].pos
      BY <2>1
    <3> QED BY <2>2, <3>1
  <2> QED BY <2>3 DEF FlagOf
<1>10. BlockSound(r) /\ BytesAt(r) = BytesAt(d)
  <2>1. r.lemmas = d.lemmas /\ r.lemma_size = d.lemma_size
    BY <1>4, <1>8
  <2> QED BY <1>3, <2>1, BlockKept
<1>11. IndexSound(r)
  <2>1. /\ DOMAIN d.lemmas = {d.offsets[i].pos : i \in 1..n}
        /\ \A i, j \in 1..n : d.offsets[i].pos = d.offsets[j].pos => i = j
    BY <1>2, <1>3 DEF IndexSound
  <2>2. DOMAIN r.lemmas = {r.offsets[i].pos : i \in 1..n}
    BY <1>4, <1>8, <1>9, <2>1, SMTT(30)
  <2>3. \A i, j \in 1..n : r.offsets[i].pos = r.offsets[j].pos => i = j
    BY <1>9, <2>1
  <2>4. \A i, j \in 1..n : r.offsets[i].id = r.offsets[j].id => i = j
    BY <1>9
  <2>5. \A id \in 1..n : \E i \in 1..n : r.offsets[i].id = id
    BY <1>9
  <2>6. r.by_id \in [1..n -> Nat]
    BY <1>7, <1>8 DEF FlagRecords
  <2>7. \A i \in 1..n : r.by_id[r.offsets[i].id] = r.offsets[i].pos
    BY <1>9
  <2>8. n \in 0..MaxLemmas
    BY <1>1, SizesAssumption
  <2> QED BY <1>8, <2>2, <2>3, <2>4, <2>5, <2>6, <2>7, <2>8 DEF IndexSound, IndexRecords
<1>12. PredictsSound(r)
  <2>1. r.predicts = d.predicts /\ Indexes(r) = Indexes(d)
    BY <1>2, <1>4, <1>8
  <2>2. \A i \in Indexes(d) : FlagOf(r.offsets[i]) = FlagOf(d.offsets[i])
    BY <1>2, <1>9
  <2> QED BY <1>3, <2>1, <2>2, PredictsKept
<1>13. CachesSound(r)
  BY <1>8, NoCacheSound
<1>14. CountersSound(r)
  <2>1. PreAllocBytes \in Nat /\ kUserDictPreAlloc \in 0..kUserDictPreAlloc
    BY SizesAssumption DEF PreAllocBytes, LemmaBytes
  <2>2. USER_DICT_SYNC \in USER_DICT_SYNC..USER_DICT_DEFRAGMENTED
    BY DEF USER_DICT_SYNC, USER_DICT_DEFRAGMENTED
  <2> HIDE DEF PreAllocBytes
  <2> QED BY <1>3, <1>4, <1>8, <2>1, <2>2 DEF CountersSound
<1>15. Accounted(r)
  <2>1. RemovedPositions(r) = RemovedPositions(d)
    <3>1. RemovedPositions(r) = {r.offsets[i].pos : i \in {i \in 1..n : r.offsets[i].removed}}
      BY <1>8 DEF RemovedPositions
    <3>2. RemovedPositions(d) = {d.offsets[i].pos : i \in {i \in 1..n : d.offsets[i].removed}}
      BY <1>2 DEF RemovedPositions
    <3> QED BY <1>9, <3>1, <3>2
  <2> QED BY <1>3, <1>4, <1>8, <1>10, <2>1 DEF Accounted
<1>16. Sound(r)
  BY <1>8, <1>10, <1>11, <1>12, <1>13, <1>14 DEF Sound
<1>17. Len(f.offsets) = n
  BY <1>7
<1>18. FileSound(f)
  BY <1>4, <1>7, <1>15, <1>16, <1>17 DEF FileSound, FlagRecords, r
<1> QED
  BY <1>1, <1>4, <1>8, <1>18 DEF r

\* What a sound file is made of.
LEMMA FileParts ==
  ASSUME NEW f, FileSound(f)
  PROVE  \E n \in Nat : /\ f.offsets \in [1..n -> FlagRecords] /\ f.scores \in [1..n -> Scores]
                        /\ Len(f.offsets) = n
<1>1. PICK n \in Nat : n = Len(f.offsets)
  BY Zenon DEF FileSound
<1> QED
  BY <1>1 DEF FileSound, FlagRecords

\* A load gives a sound image that has all it has in common with the file.
LEMMA LoadSound ==
  ASSUME NEW f, FileSound(f), NEW r, r = Load(f)
  PROVE  /\ Sound(r) /\ Accounted(r) /\ r.syncs_null = FALSE /\ Saved(r, f)
         /\ r.count_left = kUserDictPreAlloc /\ r.size_left = PreAllocBytes
         /\ r.state = USER_DICT_SYNC /\ r.limit = f.limit /\ r.syncs = f.syncs
         /\ f.lemma_size \in Nat /\ DOMAIN f.lemmas \subseteq Nat
         /\ f.lemmas = [p \in DOMAIN f.lemmas |-> f.lemmas[p]]
<1>1. PICK n \in Nat : f.offsets \in [1..n -> FlagRecords] /\ f.scores \in [1..n -> Scores]
  BY FileParts
<1>2. /\ r.state = USER_DICT_SYNC /\ r.lemmas = f.lemmas
      /\ r.lemma_size = f.lemma_size /\ r.predicts = f.predicts /\ r.syncs = f.syncs
      /\ r.syncs_null = FALSE /\ r.count_left = kUserDictPreAlloc
      /\ r.size_left = PreAllocBytes /\ r.free_count = f.free_count
      /\ r.free_size = f.free_size /\ r.limit = f.limit
      /\ r.offsets = [i \in 1..n |-> [pos |-> f.offsets[i].pos, removed |-> f.offsets[i].removed,
                                      score |-> f.scores[i], id |-> i]]
      /\ Indexes(r) = 1..n
  <2>1. f.offsets \in [1..n -> FlagRecords]
    BY <1>1
  <2>2. f.scores \in [1..n -> Scores]
    BY <1>1
  <2>3. Loaded(f, n, r)
    BY <2>1, <2>2, LoadFields
  <2> QED BY <2>3 DEF Loaded
<1>3. Sound(r) /\ Accounted(r)
  BY DEF FileSound
<1>4. f.scores = ScoresOf(r)
  <2>1. \A i \in 1..n : r.offsets[i].score = f.scores[i]
    BY <1>2
  <2>2. f.scores = [i \in 1..n |-> f.scores[i]]
    BY <1>1
  <2> QED BY <1>2, <2>1, <2>2 DEF ScoresOf
<1>5. f.offsets = FlagsOf(r)
  <2>1. \A i \in 1..n : f.offsets[i] = FlagOf(r.offsets[i])
    <3>1. ASSUME NEW i \in 1..n PROVE f.offsets[i] = FlagOf(r.offsets[i])
      <4>1. f.offsets[i] = [pos |-> f.offsets[i].pos, removed |-> f.offsets[i].removed]
        BY <1>1 DEF FlagRecords
      <4>2. r.offsets[i].pos = f.offsets[i].pos /\ r.offsets[i].removed = f.offsets[i].removed
        BY <1>2
      <4> QED BY <4>1, <4>2 DEF FlagOf
    <3> QED BY <3>1
  <2> QED BY <1>1, <1>2, <2>1 DEF FlagsOf
<1>6. BlockSound(r)
  BY <1>3 DEF Sound
<1>7. /\ f.lemma_size \in Nat /\ DOMAIN f.lemmas \subseteq Nat
      /\ f.lemmas = [p \in DOMAIN f.lemmas |-> f.lemmas[p]]
  BY <1>2, <1>6 DEF BlockSound
<1>8. DOMAIN f.lemmas = {pos \in DOMAIN f.lemmas : pos < f.lemma_size}
  BY <1>2, <1>6, SoundBlocks
<1>9. /\ r.size_left <= PreAllocBytes
      /\ r.lemma_size = f.lemma_size + (PreAllocBytes - r.size_left)
  <2>1. PreAllocBytes \in Nat
    BY SizesAssumption DEF PreAllocBytes, LemmaBytes
  <2> HIDE DEF PreAllocBytes
  <2> QED BY <1>2, <1>7, <2>1
<1>10. Saved(r, f)
  BY <1>2, <1>4, <1>5, <1>8, <1>9 DEF Saved
<1> QED
  BY <1>2, <1>3, <1>7, <1>10

\* The file reset writes is sound, and holds nothing.
LEMMA EmptyFileSound ==
  FileSound(EmptyFile) /\ Len(Load(EmptyFile).offsets) = 0 /\ Load(EmptyFile).syncs = <<>>
<1> DEFINE f == EmptyFile
           r == Load(f)
<1>1. /\ f.lemmas = <<>> /\ f.lemma_size = 0 /\ f.offsets = <<>> /\ f.predicts = <<>>
      /\ f.scores = <<>> /\ f.syncs = <<>> /\ f.free_count = 0 /\ f.free_size = 0
      /\ f.limit = NoLimit
      /\ f = [lemmas |-> f.lemmas, lemma_size |-> f.lemma_size, offsets |-> f.offsets,
              predicts |-> f.predicts, scores |-> f.scores, syncs |-> f.syncs,
              free_count |-> f.free_count, free_size |-> f.free_size, limit |-> f.limit]
  BY DEF EmptyFile
<1> HIDE DEF f
<1>2. 1..0 = {}
  OBVIOUS
<1>3. f.offsets \in [1..0 -> FlagRecords] /\ f.scores \in [1..0 -> Scores]
  <2>1. <<>> \in [1..0 -> FlagRecords] /\ <<>> \in [1..0 -> Scores]
    OBVIOUS
  <2> QED BY <1>1, <2>1
<1>4. Loaded(f, 0, r)
  <2>1. f.offsets \in [1..0 -> FlagRecords]
    BY <1>3
  <2>2. f.scores \in [1..0 -> Scores]
    BY <1>3
  <2> HIDE DEF r
  <2>3. 0 \in Nat /\ r = Load(f)
    BY DEF r
  <2> QED BY <2>1, <2>2, <2>3, LoadFields
<1> HIDE DEF r
<1>5. /\ Fields \subseteq DOMAIN r /\ r.state = USER_DICT_SYNC /\ r.lemmas = <<>>
      /\ r.lemma_size = 0 /\ r.predicts = <<>> /\ r.syncs = <<>>
      /\ r.count_left = kUserDictPreAlloc
      /\ r.size_left = PreAllocBytes /\ r.free_count = 0
      /\ r.free_size = 0 /\ r.limit = NoLimit /\ r.cache = NoCache
      /\ r.offsets \in [1..0 -> IndexRecords(0)] /\ Len(r.offsets) = 0 /\ Indexes(r) = {}
  BY <1>1, <1>2, <1>4 DEF Loaded
<1>6. r.by_id \in [{} -> Nat]
  BY <1>2, <1>4 DEF Loaded
<1>7. DOMAIN r.lemmas = {} /\ r.lemmas \in [{} -> Lemmas]
  <2>1. DOMAIN <<>> = {} /\ <<>> \in [{} -> Lemmas]
    BY <1>2
  <2> QED BY <1>5, <2>1
<1>8. BlockSound(r)
  <2>1. DOMAIN BytesAt(r) = {}
    BY <1>7 DEF BytesAt
  <2>2. Tiled(BytesAt(r), 0)
    BY <2>1 DEF Tiled
  <2> QED BY <1>5, <1>7, <2>2 DEF BlockSound
<1>9. IndexSound(r)
  <2>1. 0 \in 0..MaxLemmas
    BY SizesAssumption
  <2>2. DOMAIN r.lemmas = {r.offsets[i].pos : i \in {}}
    BY <1>7
  <2>3. r.offsets \in [Indexes(r) -> IndexRecords(0)]
    BY <1>2, <1>5
  <2> HIDE DEF IndexRecords
  <2>4. r.offsets \in [Indexes(r) -> [pos : Nat, removed : BOOLEAN, score : Scores, id : Indexes(r)]]
    BY <1>2, <1>5, <2>3 DEF IndexRecords
  <2> QED BY <1>5, <1>6, <2>1, <2>2, <2>4 DEF IndexSound
<1>10. PredictsSound(r)
  <2>1. Len(r.predicts) = 0
    BY <1>5
  <2>2. r.predicts \in [1..0 -> [pos : Nat, removed : BOOLEAN]]
    <3>1. <<>> \in [1..0 -> [pos : Nat, removed : BOOLEAN]]
      OBVIOUS
    <3> QED BY <1>5, <3>1
  <2> QED BY <1>2, <1>5, <2>1, <2>2 DEF PredictsSound
<1>11. CachesSound(r)
  BY <1>5, NoCacheSound
<1>12. CountersSound(r)
  <2>1. PreAllocBytes \in Nat /\ kUserDictPreAlloc \in 0..kUserDictPreAlloc /\ MaxSyncs \in Nat
    BY SizesAssumption DEF PreAllocBytes, LemmaBytes
  <2>2. USER_DICT_SYNC \in USER_DICT_SYNC..USER_DICT_DEFRAGMENTED
    BY DEF USER_DICT_SYNC, USER_DICT_DEFRAGMENTED
  <2>3. NoLimit \in [count : Nat, size : Nat, ratio : 0..99]
    BY DEF NoLimit
  <2>4. <<>> \in Seq(Int \cup {Garbage}) /\ Len(<<>>) = 0
    OBVIOUS
  <2> HIDE DEF PreAllocBytes
  <2> QED BY <1>5, <2>1, <2>2, <2>3, <2>4 DEF CountersSound
<1>13. Accounted(r)
  <2>1. RemovedPositions(r) = {}
    BY <1>5 DEF RemovedPositions
  <2>2. Cardinality({}) = 0
    BY FS_EmptySet
  <2>3. SumBefore(BytesAt(r), {}, 0) = 0
    <3>1. 0 \in Nat /\ \A x \in {} : BytesAt(r)[x] \in Nat
      OBVIOUS
    <3> QED BY <3>1, SumStep
  <2> QED BY <1>5, <2>1, <2>2, <2>3 DEF Accounted
<1>14. Sound(r)
  BY <1>5, <1>8, <1>9, <1>10, <1>11, <1>12 DEF Sound
<1>15. FileSound(f)
  <2>1. Len(f.offsets) = 0
    BY <1>1
  <2>2. f.offsets \in [1..0 -> [pos : Nat, removed : BOOLEAN]]
    BY <1>3 DEF FlagRecords
  <2> QED BY <1>1, <1>3, <1>13, <1>14, <2>1, <2>2 DEF FileSound, r
<1> QED
  BY <1>5, <1>15 DEF f, r

\* A load never fails to give a sound file.
LEMMA ValidatedSound ==
  ASSUME NEW f, f = NoFile \/ FileSound(f)
  PROVE  FileSound(Validated(f))
BY EmptyFileSound DEF Validated

---------------------------------------------------------------------------
\* A write leaves a file a load can read: the whole image, or, from a null sync list, nothing.
LEMMA WriteBackCases ==
  ASSUME NEW d, Storable(d), NEW f, FileSound(f), Saved(d, f)
  PROVE  /\ d.state = USER_DICT_SYNC => WriteBack(d, f) = f
         /\ d.state # USER_DICT_SYNC /\ d.syncs_null /\ d.syncs # <<>> => WriteBack(d, f) = NoFile
         /\ d.state # USER_DICT_SYNC /\ ~(d.syncs_null /\ d.syncs # <<>>) =>
              WriteBack(d, f) = FileOf(d)
<1>1. BlockSound(d) /\ CountersSound(d)
  BY DEF Storable
<1>2. /\ f.lemma_size \in Nat /\ DOMAIN f.lemmas \subseteq Nat
      /\ f.lemmas = [p \in DOMAIN f.lemmas |-> f.lemmas[p]]
  BY LoadSound
<1>3. d.state = USER_DICT_SYNC => WriteBack(d, f) = f
  BY DEF WriteBack
<1>4. ASSUME d.state # USER_DICT_SYNC, d.syncs_null, d.syncs # <<>>
      PROVE  WriteBack(d, f) = NoFile
  <2>1. d.state # USER_DICT_NONE
    BY <1>1, States DEF USER_DICT_NONE, USER_DICT_SYNC, USER_DICT_SYNC_DIRTY,
       USER_DICT_SCORE_DIRTY, USER_DICT_OFFSET_DIRTY, USER_DICT_LEMMA_DIRTY,
       USER_DICT_DEFRAGMENTED
  <2> QED BY <1>4, <2>1 DEF WriteBack
<1>5. d.state # USER_DICT_SYNC /\ ~(d.syncs_null /\ d.syncs # <<>>) => WriteBack(d, f) = FileOf(d)
  BY <1>1, <1>2, WriteBackAll
<1> QED
  BY <1>3, <1>4, <1>5

\* flush_cache gives a sound image of a sound file, with as many entries at most.
LEMMA FlushSound ==
  ASSUME NEW d, Storable(d), NEW f, FileSound(f), Saved(d, f), NEW r, r = FlushCache(d, f)
  PROVE  /\ FileSound(r.file) /\ r.dict = Load(r.file)
         /\ Len(r.dict.offsets) <= Len(d.offsets)
         /\ Len(r.dict.syncs) <= Len(d.syncs)
         /\ d.state # USER_DICT_SYNC /\ d.syncs_null = TRUE => r.dict.syncs = <<>>
<1> DEFINE w == WriteBack(d, f)
           v == Validated(w)
<1>1. r.file = v /\ r.dict = Load(v)
  BY DEF FlushCache
<1>2. PICK n \in Nat : n = Len(d.offsets) /\ n <= MaxLemmas
  BY IndexLen DEF Storable
<1>3. PICK c \in Nat : c = Len(d.syncs)
  <2>1. Len(d.syncs) \in Nat
    BY DEF Storable, CountersSound
  <2> QED BY <2>1, Zenon
<1>4. Indexes(d) = 1..n
  BY <1>2 DEF Indexes
<1> HIDE DEF w
<1> DEFINE Good(x) ==
             /\ FileSound(x) /\ Len(Load(x).offsets) <= n /\ Len(Load(x).syncs) <= c
             /\ d.state # USER_DICT_SYNC /\ d.syncs_null = TRUE => Load(x).syncs = <<>>
<1>5. Good(EmptyFile)
  <2>1. Len(<<>>) = 0
    OBVIOUS
  <2> QED BY <2>1, EmptyFileSound
<1>6. w = NoFile \/ Good(w)
  <2>1. CASE d.state = USER_DICT_SYNC
    <3>1. w = f
      BY <2>1, WriteBackCases DEF w
    <3>2. f.syncs = d.syncs /\ f.offsets = FlagsOf(d)
      BY <2>1 DEF Saved, USER_DICT_SYNC, USER_DICT_OFFSET_DIRTY
    <3>3. PICK m \in Nat : f.offsets \in [1..m -> FlagRecords] /\ f.scores \in [1..m -> Scores]
      BY FileParts
    <3>4. m = n
      <4>1. DOMAIN f.offsets = 1..n
        BY <1>4, <3>2 DEF FlagsOf
      <4>2. DOMAIN f.offsets = 1..m
        BY <3>3
      <4> QED BY <4>1, <4>2
    <3>5. Loaded(f, m, Load(f))
      <4>1. f.offsets \in [1..m -> FlagRecords]
        BY <3>3
      <4>2. f.scores \in [1..m -> Scores]
        BY <3>3
      <4> QED BY <4>1, <4>2, LoadFields
    <3>6. Len(Load(f).offsets) = n /\ Load(f).syncs = d.syncs
      BY <3>2, <3>4, <3>5 DEF Loaded
    <3> QED BY <1>3, <2>1, <3>1, <3>6
  <2>2. CASE d.state # USER_DICT_SYNC /\ d.syncs_null /\ d.syncs # <<>>
    BY <2>2, WriteBackCases DEF w
  <2>3. CASE d.state # USER_DICT_SYNC /\ ~(d.syncs_null /\ d.syncs # <<>>)
    <3>1. w = FileOf(d)
      BY <2>3, WriteBackCases DEF w
    <3>2. FileSound(w) /\ Load(w).syncs = d.syncs /\ Len(Load(w).offsets) = Len(d.offsets)
      BY <3>1, StoredFile
    <3>3. d.syncs_null = TRUE => d.syncs = <<>>
      BY <2>3
    <3> QED BY <1>2, <1>3, <3>2, <3>3
  <2> QED BY <2>1, <2>2, <2>3
<1>7. Good(v)
  BY <1>5, <1>6 DEF Validated
<1> QED
  BY <1>1, <1>2, <1>3, <1>7
---------------------------------------------------------------------------
\* Ranges that lie in the index still do when neither changes.
LEMMA CachesKept ==
  ASSUME NEW d, NEW r, CachesSound(d), r.cache = d.cache, Len(r.offsets) = Len(d.offsets)
  PROVE  CachesSound(r)
BY DEF CachesSound

\* A lemma of an image that is dirty already is queued: one more entry of the sync list.
LEMMA QueueSound ==
  ASSUME NEW d, Sound(d), Accounted(d), NEW f, Saved(d, f), NEW id \in Indexes(d),
         d.state # USER_DICT_SYNC, Len(d.syncs) < MaxSyncs, NEW r, r = QueueLemmaForSync(d, id)
  PROVE  /\ Sound(r) /\ Accounted(r) /\ Saved(r, f)
         /\ r.syncs_null = d.syncs_null /\ r.state = d.state
<1>1. Fields \subseteq DOMAIN d /\ CountersSound(d) /\ IndexSound(d) /\ CachesSound(d)
  BY DEF Sound
<1>2. Keeps(d, r, {"syncs"}) /\ r.syncs = Append(d.syncs, d.by_id[id])
  BY <1>1 DEF QueueLemmaForSync, Keeps, Fields
<1>3. /\ r.state = d.state /\ r.syncs_null = d.syncs_null /\ r.offsets = d.offsets
      /\ r.limit = d.limit /\ r.cache = d.cache
  BY <1>2 DEF Keeps, Fields
<1>4. Keeps(d, r, {"syncs", "syncs_null", "state", "miss", "limit", "cache"})
  BY <1>2 DEF Keeps
<1>5. d.by_id[id] \in SyncEntries
  BY <1>1 DEF IndexSound, SyncEntries
<1>6. d.syncs \in Seq(SyncEntries)
  BY <1>1 DEF CountersSound, SyncEntries
<1> HIDE DEF SyncEntries
<1>7. r.syncs \in Seq(SyncEntries) /\ Len(r.syncs) <= MaxSyncs
  <2>1. r.syncs \in Seq(SyncEntries) /\ Len(r.syncs) = Len(d.syncs) + 1
    BY <1>2, <1>5, <1>6
  <2>2. Len(d.syncs) \in Nat
    BY <1>6
  <2> QED BY <2>1, <2>2, SizesAssumption
<1>8. CachesSound(r)
  BY <1>1, <1>3, CachesKept
<1>9. /\ r.state \in USER_DICT_SYNC..USER_DICT_DEFRAGMENTED /\ r.state >= d.state
      /\ r.limit \in [count : Nat, size : Nat, ratio : 0..99]
  BY <1>1, <1>3 DEF CountersSound, USER_DICT_SYNC, USER_DICT_DEFRAGMENTED
<1>10. r.state = USER_DICT_SYNC => r.syncs = d.syncs
  BY <1>3
<1> QED
  BY <1>3, <1>4, <1>7, <1>8, <1>9, <1>10, FrameSound

\* An image with room for a lemma, over its file.
HasRoom(x, lemma) ==
  /\ Sound(x.dict) /\ Accounted(x.dict) /\ FileSound(x.file) /\ Saved(x.dict, x.file)
  /\ Len(x.dict.offsets) < MaxLemmas
  /\ x.dict.count_left > 0 /\ LemmaBytes(Len(lemma.spell)) <= x.dict.size_left
  /\ x.dict.syncs_null \in BOOLEAN
  /\ x.dict.syncs_null = FALSE => Len(x.dict.syncs) < MaxSyncs

\* A lemma is not longer than what every load leaves room for.
LEMMA LemmaFits ==
  ASSUME NEW lemma \in Lemmas
  PROVE  /\ LemmaBytes(Len(lemma.spell)) \in Nat /\ PreAllocBytes \in Nat
         /\ LemmaBytes(Len(lemma.spell)) <= PreAllocBytes
<1>1. Len(lemma.spell) \in 1..kMaxLemmaSize /\ kMaxLemmaSize \in Nat
  BY InputsAssumption, SizesAssumption
<1> DEFINE n == Len(lemma.spell)
<1>2. PICK m \in 1..kMaxLemmaSize : m = n
  BY <1>1, Zenon
<1>3. LemmaBytes(m) \in Nat /\ LemmaBytes(m) <= LemmaBytes(kMaxLemmaSize)
  BY <1>1, <1>2 DEF LemmaBytes
<1>4. PreAllocBytes \in Nat /\ LemmaBytes(kMaxLemmaSize) <= PreAllocBytes
  BY SizesAssumption DEF PreAllocBytes, LemmaBytes
<1>5. LemmaBytes(kMaxLemmaSize) \in Nat
  BY <1>1 DEF LemmaBytes
<1> HIDE DEF LemmaBytes, PreAllocBytes, n
<1>6. LemmaBytes(m) <= PreAllocBytes
  BY <1>3, <1>4, <1>5
<1> QED
  BY <1>2, <1>3, <1>4, <1>6 DEF n

\* An image as it was loaded has room for every lemma.
LEMMA FullIsDirty ==
  ASSUME NEW d, Sound(d), NEW f, Saved(d, f), f.lemma_size \in Nat, NEW lemma \in Lemmas,
         Full(d, lemma)
  PROVE  d.state # USER_DICT_SYNC
<1> SUFFICES ASSUME d.state = USER_DICT_SYNC
             PROVE  FALSE
  OBVIOUS
<1>1. /\ d.size_left <= PreAllocBytes
      /\ d.lemma_size = f.lemma_size + (PreAllocBytes - d.size_left)
      /\ f.lemma_size = d.lemma_size /\ d.count_left = kUserDictPreAlloc
  BY DEF Saved, USER_DICT_SYNC, USER_DICT_LEMMA_DIRTY, USER_DICT_DEFRAGMENTED
<1>2. d.size_left \in Nat
  BY DEF Sound, CountersSound
<1> DEFINE bytes == LemmaBytes(Len(lemma.spell))
<1>3. bytes \in Nat /\ PreAllocBytes \in Nat /\ bytes <= PreAllocBytes
  BY LemmaFits
<1>4. d.count_left = 0 \/ d.size_left < bytes
  BY DEF Full
<1> HIDE DEF bytes, PreAllocBytes
<1>5. d.size_left = PreAllocBytes
  BY <1>1, <1>2, <1>3
<1> QED
  BY <1>1, <1>2, <1>3, <1>4, <1>5, SizesAssumption

\* When what load allocated is used up, a flush makes room for the lemma of a put.
LEMMA RoomSound ==
  ASSUME NEW d, Sound(d), Accounted(d), NEW f, FileSound(f), Saved(d, f), NEW lemma \in Lemmas,
         Len(d.offsets) < MaxLemmas, d.syncs_null \in BOOLEAN,
         d.syncs_null = FALSE => Len(d.syncs) < MaxSyncs,
         NEW r, r = (IF Full(d, lemma) THEN FlushCache(d, f) ELSE [dict |-> d, file |-> f])
  PROVE  HasRoom(r, lemma) /\ (d.syncs_null = FALSE => r.dict.syncs_null = FALSE)
<1> DEFINE bytes == LemmaBytes(Len(lemma.spell))
<1>1. bytes \in Nat /\ PreAllocBytes \in Nat /\ bytes <= PreAllocBytes
  BY LemmaFits
<1>2. CountersSound(d) /\ IndexSound(d)
  BY DEF Sound
<1>3. CASE ~Full(d, lemma)
  <2>1. r.dict = d /\ r.file = f
    BY <1>3
  <2>2. d.count_left # 0 /\ ~(d.size_left < bytes)
    BY <1>3 DEF Full
  <2>3. d.count_left \in Nat /\ d.size_left \in Nat
    BY <1>2, SizesAssumption DEF CountersSound
  <2> HIDE DEF bytes
  <2>4. d.count_left > 0 /\ bytes <= d.size_left
    BY <1>1, <2>2, <2>3
  <2> QED BY <2>1, <2>4 DEF HasRoom, bytes
<1>4. CASE Full(d, lemma)
  <2>1. r = FlushCache(d, f)
    BY <1>4
  <2>2. Storable(d)
    BY DEF Storable, Sound
  <2>3. f.lemma_size \in Nat
    BY LoadSound
  <2>4. d.state # USER_DICT_SYNC
    BY <1>4, <2>3, FullIsDirty
  <2>5. /\ FileSound(r.file) /\ r.dict = Load(r.file)
        /\ Len(r.dict.offsets) <= Len(d.offsets)
        /\ Len(r.dict.syncs) <= Len(d.syncs)
        /\ d.syncs_null = TRUE => r.dict.syncs = <<>>
    BY <2>1, <2>2, <2>4, FlushSound
  <2> DEFINE g == r.file
             x == r.dict
  <2> HIDE DEF g, x
  <2>6. /\ Sound(r.dict) /\ Accounted(r.dict) /\ r.dict.syncs_null = FALSE
        /\ Saved(r.dict, r.file)
        /\ r.dict.count_left = kUserDictPreAlloc /\ r.dict.size_left = PreAllocBytes
    <3>1. FileSound(g) /\ x = Load(g)
      BY <2>5 DEF g, x
    <3>2. /\ Sound(x) /\ Accounted(x) /\ x.syncs_null = FALSE /\ Saved(x, g)
          /\ x.count_left = kUserDictPreAlloc /\ x.size_left = PreAllocBytes
      BY <3>1, LoadSound
    <3> QED BY <3>2 DEF g, x
  <2>7. IndexSound(r.dict) /\ CountersSound(r.dict)
    BY <2>6 DEF Sound
  <2>8. PICK n \in Nat : n = Len(d.offsets) /\ n <= MaxLemmas
    BY <1>2, IndexLen
  <2>9. PICK m \in Nat : m = Len(r.dict.offsets) /\ m <= MaxLemmas
    BY <2>7, IndexLen
  <2>10. Len(r.dict.offsets) < MaxLemmas
    BY <2>5, <2>8, <2>9, SizesAssumption
  <2>11. Len(r.dict.syncs) < MaxSyncs
    <3>1. CASE d.syncs_null = TRUE
      <4>1. Len(<<>>) = 0
        OBVIOUS
      <4>2. r.dict.syncs = <<>>
        BY <2>5, <3>1
      <4> QED BY <4>1, <4>2, SizesAssumption
    <3>2. CASE d.syncs_null = FALSE
      <4>1. PICK c \in Nat : c = Len(d.syncs)
        <5>1. Len(d.syncs) \in Nat
          BY <1>2 DEF CountersSound
        <5> QED BY <5>1, Zenon
      <4>2. PICK e \in Nat : e = Len(r.dict.syncs)
        <5>1. Len(r.dict.syncs) \in Nat
          BY <2>7 DEF CountersSound
        <5> QED BY <5>1, Zenon
      <4>3. c < MaxSyncs /\ e <= c
        BY <2>5, <3>2, <4>1, <4>2
      <4> QED BY <4>2, <4>3, SizesAssumption
    <3> QED BY <3>1, <3>2
  <2>12. r.dict.count_left > 0 /\ bytes <= r.dict.size_left
    BY <1>1, <2>6, SizesAssumption
  <2> QED BY <2>5, <2>6, <2>10, <2>11, <2>12 DEF HasRoom
<1> QED
  BY <1>3, <1>4

\* What _put_lemma leaves: r is its result on the image d over the file f.
Put(d, f, r) ==
  /\ r = [dict |-> r.dict, file |-> r.file, ok |-> r.ok] /\ r.ok \in BOOLEAN
  /\ Sound(r.dict) /\ Accounted(r.dict) /\ FileSound(r.file) /\ Saved(r.dict, r.file)
  /\ ~r.ok => r.dict = d /\ r.file = f
  /\ r.ok => r.dict.state # USER_DICT_SYNC
  /\ d.syncs_null = FALSE => r.dict.syncs_null = FALSE

\* A put keeps image and file sound, a flush in the middle of it included; a put that fails
\* leaves both alone.
LEMMA PutSound ==
  ASSUME NEW d, Sound(d), Accounted(d), NEW f, FileSound(f), Saved(d, f),
         NEW lemma \in Lemmas, NEW score \in Scores,
         Len(d.offsets) < MaxLemmas, d.syncs_null \in BOOLEAN,
         d.syncs_null = FALSE => Len(d.syncs) < MaxSyncs,
         NEW r, r = PutLemma_(d, f, lemma, score)
  PROVE  Put(d, f, r)
<1> DEFINE i == LocateInOffsets(d, lemma)
           room == IF Full(d, lemma) THEN FlushCache(d, f) ELSE [dict |-> d, file |-> f]
           added == AppendALemma(room.dict, lemma, score)
           queued == QueueLemmaForSync(added, Len(added.by_id))
           old == Rescored(d, i, score)
           grown == IF added.syncs_null THEN added ELSE queued
<1>1. r = IF i # 0 THEN [dict |-> old, file |-> f, ok |-> TRUE]
          ELSE IF OverLimit(d, lemma) THEN [dict |-> d, file |-> f, ok |-> FALSE]
          ELSE [dict |-> grown, file |-> room.file, ok |-> TRUE]
  BY DEF PutLemma_, Rescored
<1>2. i = 0 \/ (i \in Indexes(d) /\ d.offsets[i].removed = FALSE)
  BY LocateSpec
<1>3. HasRoom(room, lemma) /\ (d.syncs_null = FALSE => room.dict.syncs_null = FALSE)
  BY RoomSound
<1> HIDE DEF i, room, added, queued, old, grown
<1>4. CASE i # 0
  <2>1. i \in Indexes(d) /\ old = Rescored(d, i, score)
    BY <1>2, <1>4 DEF old
  <2>2. /\ Sound(old) /\ Accounted(old) /\ Saved(old, f)
        /\ old.syncs_null = d.syncs_null /\ old.state # USER_DICT_SYNC
    BY <2>1, ScoreSound
  <2>3. r = [dict |-> old, file |-> f, ok |-> TRUE]
    BY <1>1, <1>4
  <2> QED BY <2>2, <2>3 DEF Put
<1>5. CASE i = 0 /\ OverLimit(d, lemma)
  <2>1. r = [dict |-> d, file |-> f, ok |-> FALSE]
    BY <1>1, <1>5
  <2> QED BY <2>1 DEF Put
<1>6. CASE i = 0 /\ ~OverLimit(d, lemma)
  <2>1. r = [dict |-> grown, file |-> room.file, ok |-> TRUE]
    BY <1>1, <1>6
  <2>2. /\ Sound(room.dict) /\ Accounted(room.dict) /\ FileSound(room.file)
        /\ Saved(room.dict, room.file) /\ Len(room.dict.offsets) < MaxLemmas
        /\ room.dict.count_left > 0 /\ LemmaBytes(Len(lemma.spell)) <= room.dict.size_left
        /\ room.dict.syncs_null \in BOOLEAN
        /\ room.dict.syncs_null = FALSE => Len(room.dict.syncs) < MaxSyncs
    BY <1>3 DEF HasRoom
  <2>3. room.file.lemma_size \in Nat
    BY <2>2, LoadSound
  <2>4. /\ Sound(added) /\ Accounted(added) /\ Saved(added, room.file)
        /\ added.syncs_null = room.dict.syncs_null /\ added.syncs = room.dict.syncs
        /\ Len(added.by_id) \in Indexes(added) /\ added.state >= USER_DICT_LEMMA_DIRTY
    BY <2>2, <2>3, AppendSound DEF added
  <2>5. added.state # USER_DICT_SYNC
    BY <2>4 DEF USER_DICT_SYNC, USER_DICT_LEMMA_DIRTY
  <2>6. CASE added.syncs_null
    <3>1. grown = added
      BY <2>6 DEF grown
    <3> QED BY <1>3, <2>1, <2>2, <2>4, <2>5, <2>6, <3>1 DEF Put
  <2>7. CASE ~added.syncs_null
    <3>1. grown = queued
      BY <2>7 DEF grown
    <3>2. Len(added.syncs) < MaxSyncs
      BY <2>2, <2>4, <2>7
    <3>3. queued = QueueLemmaForSync(added, Len(added.by_id))
      BY DEF queued
    <3>4. /\ Sound(queued) /\ Accounted(queued) /\ Saved(queued, room.file)
          /\ queued.syncs_null = added.syncs_null /\ queued.state = added.state
      BY <2>4, <2>5, <3>2, <3>3, QueueSound
    <3> QED BY <1>3, <2>1, <2>2, <2>4, <2>5, <3>1, <3>4 DEF Put
  <2> QED BY <2>6, <2>7
<1> QED
  BY <1>4, <1>5, <1>6

\* What put_lemma_no_sync leaves.
PutHidden(d, r) ==
  /\ r.ok \in BOOLEAN
  /\ Sound(r.dict) /\ Accounted(r.dict) /\ FileSound(r.file) /\ Saved(r.dict, r.file)
  /\ r.dict.syncs_null = FALSE
  /\ ~r.ok => Len(r.dict.offsets) = Len(d.offsets)

\* Hiding the sync list keeps an image sound.
LEMMA HiddenSound ==
  ASSUME NEW d, Sound(d), Accounted(d), NEW f, Saved(d, f),
         NEW r, Keeps(d, r, {"syncs_null"})
  PROVE  Sound(r) /\ Accounted(r) /\ Saved(r, f)
<1>1. Fields \subseteq DOMAIN d /\ CountersSound(d) /\ CachesSound(d)
  BY DEF Sound
<1>2. /\ r.state = d.state /\ r.offsets = d.offsets /\ r.syncs = d.syncs
      /\ r.limit = d.limit /\ r.cache = d.cache
  BY DEF Keeps, Fields
<1>3. Keeps(d, r, {"syncs", "syncs_null", "state", "miss", "limit", "cache"})
  BY DEF Keeps
<1>4. CachesSound(r)
  BY <1>1, <1>2, CachesKept
<1>5. /\ r.limit \in [count : Nat, size : Nat, ratio : 0..99]
      /\ r.syncs \in Seq(SyncEntries) /\ Len(r.syncs) <= MaxSyncs
      /\ r.state \in USER_DICT_SYNC..USER_DICT_DEFRAGMENTED /\ r.state >= d.state
  BY <1>1, <1>2 DEF CountersSound, SyncEntries, USER_DICT_SYNC, USER_DICT_DEFRAGMENTED
<1>6. r.state = USER_DICT_SYNC => r.syncs = d.syncs
  BY <1>2
<1> QED
  BY <1>3, <1>4, <1>5, <1>6, FrameSound

\* One pass of put_lemma_no_sync keeps image and file sound although the sync list is hidden
\* from it and may be longer or shorter when it comes back.
LEMMA PutWithoutSyncsSound ==
  ASSUME NEW d, Sound(d), Accounted(d), NEW f, FileSound(f), Saved(d, f),
         NEW lemma \in Lemmas, NEW score \in Scores, Len(d.offsets) < MaxLemmas,
         NEW r, r = PutWithoutSyncs(d, f, lemma, score)
  PROVE  PutHidden(d, r)
<1> DEFINE hidden == [d EXCEPT !.syncs_null = TRUE]
           p == PutLemma_(hidden, f, lemma, score)
           back == RestoreSyncs(p.dict, d.syncs)
<1>1. r = [p EXCEPT !.dict = RestoreSyncs(@, d.syncs)]
  BY DEF PutWithoutSyncs
<1>2. Fields \subseteq DOMAIN d /\ CountersSound(d) /\ CachesSound(d)
  BY DEF Sound
<1>3. Keeps(d, hidden, {"syncs_null"}) /\ hidden.syncs_null = TRUE
  BY <1>2 DEF Keeps, Fields
<1> HIDE DEF hidden
<1>4. /\ hidden.state = d.state /\ hidden.offsets = d.offsets /\ hidden.syncs = d.syncs
      /\ hidden.limit = d.limit /\ hidden.cache = d.cache
  BY <1>3 DEF Keeps, Fields
<1>5. Sound(hidden) /\ Accounted(hidden) /\ Saved(hidden, f)
  BY <1>3, HiddenSound
<1>6. Put(hidden, f, p)
  <2>1. Len(hidden.offsets) < MaxLemmas /\ hidden.syncs_null \in BOOLEAN
        /\ (hidden.syncs_null = FALSE => Len(hidden.syncs) < MaxSyncs)
    BY <1>3, <1>4
  <2> QED BY <1>5, <2>1, PutSound
<1> HIDE DEF p
<1>7. /\ p = [dict |-> p.dict, file |-> p.file, ok |-> p.ok] /\ p.ok \in BOOLEAN
      /\ Sound(p.dict) /\ Accounted(p.dict) /\ FileSound(p.file) /\ Saved(p.dict, p.file)
      /\ ~p.ok => p.dict = hidden /\ p.file = f
      /\ p.ok => p.dict.state # USER_DICT_SYNC
  BY <1>6 DEF Put
<1>8. r.dict = back /\ r.file = p.file /\ r.ok = p.ok
  BY <1>1, <1>7
<1>9. Fields \subseteq DOMAIN p.dict /\ CountersSound(p.dict) /\ CachesSound(p.dict)
  BY <1>7 DEF Sound
<1>10. /\ Keeps(p.dict, back, {"syncs", "syncs_null"}) /\ back.syncs_null = FALSE
       /\ back.syncs = [k \in DOMAIN p.dict.syncs |->
                          IF k \in DOMAIN d.syncs THEN d.syncs[k] ELSE Garbage]
  BY <1>9 DEF RestoreSyncs, Keeps, Fields
<1> HIDE DEF back
<1>11. /\ back.state = p.dict.state /\ back.offsets = p.dict.offsets
       /\ back.limit = p.dict.limit /\ back.cache = p.dict.cache
  BY <1>10 DEF Keeps, Fields
<1>12. back.syncs \in Seq(SyncEntries) /\ Len(back.syncs) <= MaxSyncs
  <2>1. d.syncs \in Seq(SyncEntries) /\ p.dict.syncs \in Seq(SyncEntries)
    BY <1>2, <1>9 DEF CountersSound, SyncEntries
  <2>2. Garbage \in SyncEntries
    BY DEF SyncEntries
  <2> HIDE DEF SyncEntries
  <2>3. PICK c \in Nat : c = Len(p.dict.syncs) /\ c <= MaxSyncs
    <3>1. Len(p.dict.syncs) \in Nat /\ Len(p.dict.syncs) <= MaxSyncs
      BY <1>9 DEF CountersSound
    <3> QED BY <3>1, Zenon
  <2>4. DOMAIN p.dict.syncs = 1..c
    BY <2>1, <2>3
  <2>5. \A k \in DOMAIN d.syncs : d.syncs[k] \in SyncEntries
    BY <2>1
  <2>6. back.syncs \in [1..c -> SyncEntries]
    BY <1>10, <2>2, <2>4, <2>5
  <2> QED BY <2>3, <2>6
<1>13. back.state = USER_DICT_SYNC => back.syncs = p.dict.syncs
  <2>1. ASSUME back.state = USER_DICT_SYNC PROVE back.syncs = p.dict.syncs
    <3>1. p.dict = hidden
      BY <1>7, <1>11, <2>1
    <3>2. p.dict.syncs = d.syncs
      BY <1>4, <3>1
    <3>3. d.syncs = [k \in DOMAIN d.syncs |-> d.syncs[k]]
      BY <1>2 DEF CountersSound
    <3> QED BY <1>10, <3>2, <3>3
  <2> QED BY <2>1
<1>14. Sound(back) /\ Accounted(back) /\ Saved(back, p.file)
  <2>1. Keeps(p.dict, back, {"syncs", "syncs_null", "state", "miss", "limit", "cache"})
    BY <1>10 DEF Keeps
  <2>2. CachesSound(back)
    BY <1>9, <1>11, CachesKept
  <2>3. /\ back.limit \in [count : Nat, size : Nat, ratio : 0..99]
        /\ back.state \in USER_DICT_SYNC..USER_DICT_DEFRAGMENTED /\ back.state >= p.dict.state
    BY <1>9, <1>11 DEF CountersSound, USER_DICT_SYNC, USER_DICT_DEFRAGMENTED
  <2> QED BY <1>7, <1>12, <1>13, <2>1, <2>2, <2>3, FrameSound
<1>15. ~r.ok => Len(r.dict.offsets) = Len(d.offsets)
  BY <1>4, <1>7, <1>8, <1>11
<1> QED
  BY <1>7, <1>8, <1>10, <1>14, <1>15 DEF PutHidden

\* Image and file after put_lemma_no_sync made room at the limit: closed is the image that
\* reclaim and defragment left over the file f, room what the flush made of it.
RoomAgain(closed, f, room) ==
  /\ Storable(closed) /\ Saved(closed, f)
  /\ Sound(room.dict) /\ Accounted(room.dict) /\ FileSound(room.file)
  /\ Saved(room.dict, room.file) /\ Len(room.dict.offsets) < MaxLemmas

\* They are sound, although the reclaim may select an entry twice.
LEMMA RoomAgainSound ==
  ASSUME NEW d, Sound(d), Accounted(d), NEW f, FileSound(f), Saved(d, f),
         Len(d.offsets) < MaxLemmas,
         NEW closed, closed = Defragment(Reclaim(d)), NEW room, room = FlushCache(closed, f)
  PROVE  RoomAgain(closed, f, room)
<1> DEFINE reclaimed == Reclaim(d)
<1>1. /\ Trimmed(d, f, reclaimed)
      /\ Accounted(reclaimed) \/ RemovedPositions(reclaimed) # {}
  BY ReclaimSound
<1>2. closed = Defragment(reclaimed)
  OBVIOUS
<1> HIDE DEF reclaimed
<1>3. /\ Sound(reclaimed) /\ Saved(reclaimed, f)
      /\ Len(reclaimed.offsets) = Len(d.offsets)
  BY <1>1 DEF Trimmed
<1>4. /\ Storable(closed) /\ Saved(closed, f)
      /\ Len(closed.offsets) <= Len(reclaimed.offsets)
  BY <1>1, <1>2, <1>3, DefragmentSound
<1>5. /\ FileSound(room.file) /\ room.dict = Load(room.file)
      /\ Len(room.dict.offsets) <= Len(closed.offsets)
  BY <1>4, FlushSound
<1>6. Sound(room.dict) /\ Accounted(room.dict) /\ Saved(room.dict, room.file)
  BY <1>5, LoadSound
<1>7. Len(room.dict.offsets) < MaxLemmas
  <2>1. IndexSound(d) /\ IndexSound(closed) /\ IndexSound(room.dict)
    BY <1>4, <1>6 DEF Sound, Storable
  <2>2. PICK n \in Nat : n = Len(d.offsets)
    BY <2>1, IndexLen
  <2>3. PICK m \in Nat : m = Len(closed.offsets)
    BY <2>1, IndexLen
  <2>4. PICK k \in Nat : k = Len(room.dict.offsets)
    BY <2>1, IndexLen
  <2>5. m <= n /\ k <= m /\ n < MaxLemmas
    BY <1>3, <1>4, <1>5, <2>2, <2>3, <2>4
  <2> QED BY <2>4, <2>5, SizesAssumption
<1> QED
  BY <1>4, <1>5, <1>6, <1>7 DEF RoomAgain

\* put_lemma_no_sync keeps image and file sound: at the limit, after a reclaim that may select
\* an entry twice, a defragmentation and a flush as well.
LEMMA PutLemmaNoSyncSound ==
  ASSUME NEW d, Sound(d), Accounted(d), NEW f, FileSound(f), Saved(d, f), d.syncs_null = FALSE,
         NEW lemma \in Lemmas, NEW score \in Scores, Len(d.offsets) < MaxLemmas,
         NEW r \in PutLemmaNoSync(d, f, lemma, score)
  PROVE  /\ Sound(r.dict) /\ Accounted(r.dict) /\ FileSound(r.file) /\ Saved(r.dict, r.file)
         /\ r.dict.syncs_null = FALSE
<1> DEFINE first == PutWithoutSyncs(d, f, lemma, score)
           reclaimed == Reclaim(first.dict)
           closed == Defragment(reclaimed)
           room == FlushCache(closed, first.file)
           second == PutWithoutSyncs(room.dict, room.file, lemma, score)
<1>1. r = first \/ (~first.ok /\ r = second)
  BY DEF PutLemmaNoSync
<1>2. PutHidden(d, first)
  BY PutWithoutSyncsSound
<1> HIDE DEF first
<1>3. /\ Sound(first.dict) /\ Accounted(first.dict) /\ FileSound(first.file)
      /\ Saved(first.dict, first.file) /\ first.dict.syncs_null = FALSE
      /\ ~first.ok => Len(first.dict.offsets) = Len(d.offsets)
  BY <1>2 DEF PutHidden
<1>4. ASSUME ~first.ok PROVE PutHidden(room.dict, second)
  <2>1. RoomAgain(closed, first.file, room)
    BY <1>3, <1>4, RoomAgainSound
  <2> HIDE DEF room
  <2> QED BY <2>1, PutWithoutSyncsSound DEF RoomAgain
<1> HIDE DEF second, room
<1> QED
  BY <1>1, <1>3, <1>4 DEF PutHidden
---------------------------------------------------------------------------
\* An image over its file between two actions.
Image(d, f) ==
  Sound(d) /\ Accounted(d) /\ d.syncs_null = FALSE /\ FileSound(f) /\ Saved(d, f)

\* An image over its file that differs in sync list, limit or dirty level only.
LEMMA SyncsSound ==
  ASSUME NEW d, NEW f, Image(d, f), NEW r, Keeps(d, r, {"syncs", "limit", "state"}),
         r.limit \in [count : Nat, size : Nat, ratio : 0..99],
         r.syncs \in Seq(SyncEntries), Len(r.syncs) <= MaxSyncs,
         r.state \in USER_DICT_SYNC..USER_DICT_DEFRAGMENTED, r.state >= d.state,
         r.state = USER_DICT_SYNC => r.syncs = d.syncs
  PROVE  Image(r, f)
<1>1. Sound(d) /\ Accounted(d) /\ d.syncs_null = FALSE /\ FileSound(f) /\ Saved(d, f)
  BY DEF Image
<1>2. r.syncs_null = FALSE /\ r.cache = d.cache /\ r.offsets = d.offsets
  BY <1>1 DEF Keeps, Fields
<1>3. Keeps(d, r, {"syncs", "syncs_null", "state", "miss", "limit", "cache"})
  BY DEF Keeps
<1>4. CachesSound(d)
  BY <1>1 DEF Sound
<1>5. CachesSound(r)
  BY <1>2, <1>4, CachesKept
<1>6. Sound(r) /\ Accounted(r) /\ Saved(r, f)
  BY <1>1, <1>3, <1>5, FrameSound
<1> QED
  BY <1>1, <1>2, <1>6 DEF Image

\* Opening: a load of whatever file there is, by Sync with its limit.
LEMMA OpenKeeps ==
  ASSUME UserDictInv, NEW r \in {"ime", "sync"}, Open(r)
  PROVE  UserDictInv'
<1>1. FileSound(Validated(file))
  BY DEF UserDictInv
<1>2. FileSound(file') /\ role' = r /\ got' = got
  BY <1>1 DEF Open
<1> DEFINE x == Load(file')
<1>3. Image(x, file')
  BY <1>2, LoadSound DEF Image
<1>4. Sound(x) /\ x.state = USER_DICT_SYNC
  BY <1>2, LoadSound
<1>5. dict' = IF r = "sync" THEN SetLimit(x, SyncLimit) ELSE x
  BY DEF Open
<1> HIDE DEF x
<1>6. Image(SetLimit(x, SyncLimit), file')
  <2> DEFINE y == SetLimit(x, SyncLimit)
  <2>1. Fields \subseteq DOMAIN x /\ CountersSound(x)
    BY <1>4 DEF Sound
  <2>2. Keeps(x, y, {"limit"}) /\ y.limit = SyncLimit
    BY <2>1 DEF SetLimit, Keeps, Fields
  <2> HIDE DEF y
  <2>3. y.syncs = x.syncs /\ y.state = x.state
    BY <2>2 DEF Keeps, Fields
  <2>4. Keeps(x, y, {"syncs", "limit", "state"})
    BY <2>2 DEF Keeps
  <2>5. y.limit \in [count : Nat, size : Nat, ratio : 0..99]
    BY <2>2, InputsAssumption
  <2>6. /\ y.syncs \in Seq(SyncEntries) /\ Len(y.syncs) <= MaxSyncs
        /\ y.state \in USER_DICT_SYNC..USER_DICT_DEFRAGMENTED /\ y.state >= x.state
    BY <2>1, <2>3 DEF CountersSound, SyncEntries, USER_DICT_SYNC, USER_DICT_DEFRAGMENTED
  <2> QED BY <1>3, <2>3, <2>4, <2>5, <2>6, SyncsSound DEF y
<1>7. Image(dict', file')
  BY <1>3, <1>5, <1>6
<1>8. FileSound(Validated(file'))
  BY <1>2, ValidatedSound
<1> QED
  BY <1>2, <1>7, <1>8 DEF UserDictInv, Image, Opened

\* Closing: the write leaves a file the next load can read.
LEMMA CloseKeeps ==
  ASSUME UserDictInv, Close
  PROVE  UserDictInv'
<1>1. /\ Sound(dict) /\ Accounted(dict) /\ dict.syncs_null = FALSE
      /\ FileSound(file) /\ Saved(dict, file)
  BY DEF UserDictInv, Close, Opened
<1>2. Storable(dict)
  BY <1>1 DEF Storable, Sound
<1>3. WriteBack(dict, file) = file \/ WriteBack(dict, file) = FileOf(dict)
  BY <1>1, <1>2, WriteBackCases
<1>4. FileSound(FileOf(dict))
  BY <1>2, StoredFile
<1>5. FileSound(file')
  BY <1>1, <1>3, <1>4 DEF Close
<1>6. FileSound(Validated(file'))
  BY <1>5, ValidatedSound
<1> QED
  BY <1>6 DEF UserDictInv, Close, Opened

\* A crash leaves the file as it is.
LEMMA CrashKeeps ==
  ASSUME UserDictInv, Crash
  PROVE  UserDictInv'
BY DEF UserDictInv, Crash, Opened, Validated

\* What the invariant says while the dictionary is open, and what suffices for it.
LEMMA OpenImage ==
  /\ UserDictInv /\ role # "none" => Image(dict, file)
  /\ UserDictInv /\ role # "none" /\ Image(dict', file') /\ role' = role
       /\ got' \in SUBSET (1..MaxSyncs) => UserDictInv'
<1>1. ASSUME UserDictInv, role # "none" PROVE Image(dict, file)
  BY <1>1 DEF UserDictInv, Opened, Image
<1>2. ASSUME UserDictInv, role # "none", Image(dict', file'), role' = role,
             got' \in SUBSET (1..MaxSyncs)
      PROVE  UserDictInv'
  <2>1. FileSound(file')
    BY <1>2 DEF Image
  <2>2. FileSound(Validated(file'))
    BY <2>1, ValidatedSound
  <2> QED BY <1>2, <2>2 DEF UserDictInv, Opened, Image
<1> QED
  BY <1>1, <1>2

\* A put of the decoder.
LEMMA PutLemmaKeeps ==
  ASSUME UserDictInv, NEW lemma \in Lemmas, NEW lmt \in Times, PutLemma(lemma, lmt)
  PROVE  UserDictInv'
<1> DEFINE score == [lmt |-> lmt, freq |-> 1]
           r == PutLemma_(dict, file, lemma, score)
<1>1. Image(dict, file) /\ got \in SUBSET (1..MaxSyncs)
  BY OpenImage DEF PutLemma, UserDictInv
<1>2. score \in Scores
  BY DEF Scores
<1> HIDE DEF score
<1>3. Put(dict, file, r)
  <2>1. /\ Sound(dict) /\ Accounted(dict) /\ dict.syncs_null = FALSE
        /\ FileSound(file) /\ Saved(dict, file)
    BY <1>1 DEF Image
  <2>2. Len(dict.offsets) < MaxLemmas /\ Len(dict.syncs) < MaxSyncs
    BY DEF PutLemma
  <2> QED BY <1>2, <2>1, <2>2, PutSound
<1>4. dict' = r.dict /\ file' = r.file /\ role' = role /\ got' = got
  BY DEF PutLemma, score
<1> HIDE DEF r
<1>5. Image(dict', file')
  BY <1>1, <1>3, <1>4 DEF Put, Image
<1> QED
  BY <1>1, <1>4, <1>5, OpenImage DEF PutLemma

\* The lemma an id stands for.
LEMMA LemmaOfId ==
  ASSUME NEW d, Sound(d), NEW id \in DOMAIN d.by_id
  PROVE  d.lemmas[d.by_id[id]] \in Lemmas
<1>1. IndexSound(d) /\ BlockSound(d)
  BY DEF Sound
<1>2. id \in Indexes(d)
  BY <1>1 DEF IndexSound
<1>3. PICK i \in Indexes(d) : d.offsets[i].id = id
  BY <1>1, <1>2 DEF IndexSound
<1>4. d.by_id[id] = d.offsets[i].pos
  BY <1>1, <1>3 DEF IndexSound
<1>5. d.by_id[id] \in DOMAIN d.lemmas
  <2>1. DOMAIN d.lemmas = {d.offsets[j].pos : j \in Indexes(d)}
    BY <1>1 DEF IndexSound
  <2> QED BY <1>4, <2>1
<1> QED
  BY <1>1, <1>5 DEF BlockSound

\* A score with one more use is a score.
LEMMA RaisedScore ==
  ASSUME NEW d, Sound(d), NEW i \in Indexes(d), NEW lmt \in Times
  PROVE  [lmt |-> lmt, freq |-> Min({d.offsets[i].score.freq + 1, kUserDictMaxFrequency})] \in Scores
<1>1. d.offsets[i].score.freq \in Nat
  BY DEF Sound, IndexSound, Scores
<1> DEFINE S == {d.offsets[i].score.freq + 1, kUserDictMaxFrequency}
<1>2. S \in SUBSET Nat /\ S # {}
  BY <1>1, SizesAssumption
<1> HIDE DEF S
<1>3. Min(S) \in S
  BY <1>2, MinNat
<1>4. Min(S) \in Nat
  BY <1>2, <1>3
<1> QED
  BY <1>4 DEF Scores, S

\* A new score for a lemma the user chose again.
LEMMA UpdateLemmaKeeps ==
  ASSUME UserDictInv, NEW id, NEW lmt \in Times, UpdateLemma(id, lmt)
  PROVE  UserDictInv'
<1> DEFINE i == LocateInOffsets(dict, dict.lemmas[dict.by_id[id]])
           freq == Min({dict.offsets[i].score.freq + 1, kUserDictMaxFrequency})
           score == [lmt |-> lmt, freq |-> freq]
           x == Rescored(dict, i, score)
<1>1. Image(dict, file) /\ got \in SUBSET (1..MaxSyncs)
  BY OpenImage DEF UpdateLemma, UserDictInv
<1>2. Sound(dict) /\ Accounted(dict) /\ FileSound(file) /\ Saved(dict, file)
  BY <1>1 DEF Image
<1>3. i # 0 /\ dict' = QueueLemmaForSync(x, dict.offsets[i].id)
  BY DEF UpdateLemma, Rescored
<1>4. dict.lemmas[dict.by_id[id]] \in Lemmas
  BY <1>2, LemmaOfId DEF UpdateLemma
<1>5. i \in Indexes(dict)
  BY <1>2, <1>3, <1>4, LocateSpec
<1> HIDE DEF i
<1>6. score \in Scores
  BY <1>2, <1>5, RaisedScore
<1> HIDE DEF score
<1>7. /\ Sound(x) /\ Accounted(x) /\ Saved(x, file) /\ x.syncs_null = dict.syncs_null
      /\ x.syncs = dict.syncs /\ x.state # USER_DICT_SYNC /\ Indexes(x) = Indexes(dict)
  BY <1>2, <1>5, <1>6, ScoreSound
<1> HIDE DEF x
<1>8. dict.offsets[i].id \in Indexes(x)
  BY <1>2, <1>5, <1>7 DEF Sound, IndexSound
<1>9. Len(x.syncs) < MaxSyncs
  BY <1>7 DEF UpdateLemma
<1>10. Sound(dict') /\ Accounted(dict') /\ Saved(dict', file) /\ dict'.syncs_null = x.syncs_null
  BY <1>3, <1>7, <1>8, <1>9, QueueSound
<1>11. file' = file /\ role' = role /\ got' = got /\ role # "none"
  BY DEF UpdateLemma
<1>12. Image(dict', file')
  BY <1>1, <1>2, <1>7, <1>10, <1>11 DEF Image
<1> QED
  BY <1>1, <1>11, <1>12, OpenImage

\* A lemma is removed.
LEMMA RemoveLemmaKeeps ==
  ASSUME UserDictInv, NEW id, RemoveLemma(id)
  PROVE  UserDictInv'
<1> DEFINE i == LocateInOffsets(dict, dict.lemmas[dict.by_id[id]])
<1>1. Image(dict, file) /\ got \in SUBSET (1..MaxSyncs)
  BY OpenImage DEF RemoveLemma, UserDictInv
<1>2. Sound(dict) /\ Accounted(dict) /\ FileSound(file) /\ Saved(dict, file)
  BY <1>1 DEF Image
<1>3. i # 0 /\ dict' = RemoveLemmaByOffsetIndex(dict, i)
  BY DEF RemoveLemma
<1>4. dict.lemmas[dict.by_id[id]] \in Lemmas
  BY <1>2, LemmaOfId DEF RemoveLemma
<1>5. i \in Indexes(dict) /\ dict.offsets[i].removed = FALSE
  BY <1>2, <1>3, <1>4, LocateSpec
<1> HIDE DEF i
<1>6. Sound(dict') /\ Saved(dict', file) /\ dict'.syncs_null = dict.syncs_null
  BY <1>2, <1>3, <1>5, RemoveSound
<1>7. Accounted(dict')
  BY <1>2, <1>3, <1>5, RemoveAccounted
<1>8. file' = file /\ role' = role /\ got' = got /\ role # "none"
  BY DEF RemoveLemma
<1>9. Image(dict', file')
  BY <1>1, <1>2, <1>6, <1>7, <1>8 DEF Image
<1> QED
  BY <1>1, <1>8, <1>9, OpenImage

\* A lookup changes the caches at most.
LEMMA LookupKeeps ==
  ASSUME UserDictInv, NEW q \in Queries, NEW lpi_max, Lookup_(q, lpi_max)
  PROVE  UserDictInv'
<1>1. Image(dict, file) /\ got \in SUBSET (1..MaxSyncs)
  BY OpenImage DEF Lookup_, UserDictInv
<1>2. Sound(dict) /\ Accounted(dict) /\ FileSound(file) /\ Saved(dict, file)
  BY <1>1 DEF Image
<1>3. dict' = GetLpis(dict, q, lpi_max).dict
  BY DEF Lookup_
<1>4. Sound(dict') /\ Accounted(dict') /\ Saved(dict', file) /\ dict'.syncs_null = dict.syncs_null
  BY <1>2, <1>3, LookupSound
<1>5. file' = file /\ role' = role /\ got' = got /\ role # "none"
  BY DEF Lookup_
<1>6. Image(dict', file')
  BY <1>1, <1>2, <1>4, <1>5 DEF Image
<1> QED
  BY <1>1, <1>5, <1>6, OpenImage

\* A flush.
LEMMA FlushKeeps ==
  ASSUME UserDictInv, Flush
  PROVE  UserDictInv'
<1> DEFINE r == FlushCache(dict, file)
<1>1. Image(dict, file) /\ got \in SUBSET (1..MaxSyncs)
  BY OpenImage DEF Flush, UserDictInv
<1>2. Storable(dict) /\ FileSound(file) /\ Saved(dict, file)
  BY <1>1 DEF Image, Storable, Sound
<1>3. dict' = r.dict /\ file' = r.file /\ role' = role /\ got' = got /\ role # "none"
  BY DEF Flush
<1>4. FileSound(r.file) /\ r.dict = Load(r.file)
  BY <1>2, FlushSound
<1> DEFINE g == r.file
           x == r.dict
<1> HIDE DEF r, g, x
<1>5. Image(dict', file')
  <2>1. FileSound(g) /\ x = Load(g)
    BY <1>4 DEF g, x
  <2>2. Sound(x) /\ Accounted(x) /\ x.syncs_null = FALSE /\ Saved(x, g)
    BY <2>1, LoadSound
  <2>3. dict' = x /\ file' = g
    BY <1>3 DEF g, x
  <2> QED BY <2>1, <2>2, <2>3 DEF Image
<1> QED
  BY <1>1, <1>3, <1>5, OpenImage

\* A lemma that synchronization merges.
LEMMA SyncPutKeeps ==
  ASSUME UserDictInv, NEW lemma \in Lemmas, NEW freq \in Counts, NEW lmt \in Times,
         SyncPut(lemma, freq, lmt)
  PROVE  UserDictInv'
<1> DEFINE score == [lmt |-> lmt, freq |-> freq]
<1>1. Image(dict, file) /\ got \in SUBSET (1..MaxSyncs)
  BY OpenImage DEF SyncPut, UserDictInv
<1>2. score \in Scores
  BY InputsAssumption DEF Scores
<1>3. PICK r \in PutLemmaNoSync(dict, file, lemma, score) : dict' = r.dict /\ file' = r.file
  BY DEF SyncPut
<1> HIDE DEF score
<1>4. /\ Sound(r.dict) /\ Accounted(r.dict) /\ FileSound(r.file) /\ Saved(r.dict, r.file)
      /\ r.dict.syncs_null = FALSE
  <2>1. Len(dict.offsets) < MaxLemmas
    BY DEF SyncPut
  <2> QED BY <1>1, <1>2, <2>1, PutLemmaNoSyncSound DEF Image
<1>5. role' = role /\ got' = got /\ role # "none"
  BY DEF SyncPut
<1>6. Image(dict', file')
  BY <1>3, <1>4 DEF Image
<1> QED
  BY <1>1, <1>5, <1>6, OpenImage

\* A dirty level of the sync list.
LEMMA SyncDirty ==
  ASSUME NEW d, CountersSound(d), Fields \subseteq DOMAIN d, NEW r,
         r = Dirty(d, USER_DICT_SYNC_DIRTY)
  PROVE  /\ Keeps(d, r, {"state"})
         /\ r.state \in USER_DICT_SYNC..USER_DICT_DEFRAGMENTED /\ r.state >= d.state
         /\ r.state # USER_DICT_SYNC
<1>1. d.state \in USER_DICT_SYNC..USER_DICT_DEFRAGMENTED
  BY DEF CountersSound
<1>2. USER_DICT_SYNC_DIRTY \in USER_DICT_SYNC..USER_DICT_DEFRAGMENTED
  BY DEF USER_DICT_SYNC, USER_DICT_SYNC_DIRTY, USER_DICT_DEFRAGMENTED
<1>3. r.state = IF d.state >= USER_DICT_SYNC_DIRTY THEN d.state ELSE USER_DICT_SYNC_DIRTY
  BY <1>1, <1>2, DirtyState
<1>4. Keeps(d, r, {"state"})
  BY DirtyKeeps
<1> QED
  BY <1>1, <1>3, <1>4 DEF USER_DICT_SYNC, USER_DICT_SYNC_DIRTY, USER_DICT_DEFRAGMENTED

\* Sync reads the lemmas to send.
LEMMA SyncGetKeeps ==
  ASSUME UserDictInv, NEW room, SyncGet(room)
  PROVE  UserDictInv'
<1> DEFINE r == Dirty(dict, USER_DICT_SYNC_DIRTY)
<1>1. Image(dict, file) /\ got \in SUBSET (1..MaxSyncs)
  BY OpenImage DEF SyncGet, UserDictInv
<1>2. Fields \subseteq DOMAIN dict /\ CountersSound(dict)
  BY <1>1 DEF Image, Sound
<1>3. dict.syncs \in Seq(SyncEntries) /\ Len(dict.syncs) <= MaxSyncs
  BY <1>2 DEF CountersSound, SyncEntries
<1>4. role' = role /\ file' = file /\ role # "none"
  BY DEF SyncGet
<1>5. PICK wild \in SUBSET WildSyncs(dict) :
        /\ got' = SyncTexts(dict, wild, room)
        /\ dict' = IF SyncTexts(dict, wild, room) = {} THEN dict ELSE r
  BY DEF SyncGet
<1> HIDE DEF r, SyncEntries
<1>6. got' \in SUBSET (1..MaxSyncs)
  <2>1. got' \subseteq DOMAIN dict.syncs
    BY <1>5 DEF SyncTexts
  <2>2. DOMAIN dict.syncs = 1..Len(dict.syncs) /\ Len(dict.syncs) \in Nat
    BY <1>3
  <2>3. 1..Len(dict.syncs) \subseteq 1..MaxSyncs
    BY <1>3, <2>2, SizesAssumption
  <2> QED BY <2>1, <2>2, <2>3
<1>7. Image(r, file)
  <2>1. /\ Keeps(dict, r, {"state"})
        /\ r.state \in USER_DICT_SYNC..USER_DICT_DEFRAGMENTED /\ r.state >= dict.state
        /\ r.state # USER_DICT_SYNC
    BY <1>2, SyncDirty DEF r
  <2>2. r.syncs = dict.syncs /\ r.limit = dict.limit
    BY <2>1 DEF Keeps, Fields
  <2>3. Keeps(dict, r, {"syncs", "limit", "state"})
    BY <2>1 DEF Keeps
  <2>4. r.limit \in [count : Nat, size : Nat, ratio : 0..99]
    BY <1>2, <2>2 DEF CountersSound
  <2>5. r.state = USER_DICT_SYNC => r.syncs = dict.syncs
    BY <2>1
  <2>6. r.syncs \in Seq(SyncEntries) /\ Len(r.syncs) <= MaxSyncs
    BY <1>3, <2>2
  <2> QED BY <1>1, <2>1, <2>3, <2>4, <2>5, <2>6, SyncsSound
<1>8. Image(dict', file')
  BY <1>1, <1>4, <1>5, <1>7
<1> QED
  BY <1>4, <1>6, <1>8, OpenImage

\* The rest of a sequence from a place on.
LEMMA RestOfSequence ==
  ASSUME NEW V, NEW s \in Seq(V), NEW m \in 0..Len(s)
  PROVE  SubSeq(s, m + 1, Len(s)) \in Seq(V) /\ Len(SubSeq(s, m + 1, Len(s))) <= Len(s)
<1>1. PICK n \in Nat : n = Len(s)
  <2>1. Len(s) \in Nat
    OBVIOUS
  <2> QED BY <2>1, Zenon
<1> DEFINE t == SubSeq(s, m + 1, Len(s))
<1>2. t = [k \in 1..n - m |-> s[k + m]]
  BY <1>1
<1>3. \A k \in 1..n - m : s[k + m] \in V
  BY <1>1
<1>4. t \in [1..n - m -> V]
  BY <1>2, <1>3
<1>5. n - m \in Nat /\ n - m <= n
  BY <1>1
<1> HIDE DEF t
<1>6. t \in Seq(V) /\ Len(t) = n - m
  BY <1>4, <1>5
<1> QED
  BY <1>1, <1>5, <1>6 DEF t

\* Sync clears what was sent.
LEMMA SyncClearKeeps ==
  ASSUME UserDictInv, SyncClear
  PROVE  UserDictInv'
<1> DEFINE last == Min({Cardinality(got), Len(dict.syncs)})
           rest == SubSeq(dict.syncs, last + 1, Len(dict.syncs))
           x == [dict EXCEPT !.syncs = rest]
           r == Dirty(x, USER_DICT_SYNC_DIRTY)
<1>1. Image(dict, file) /\ got \in SUBSET (1..MaxSyncs)
  BY OpenImage DEF SyncClear, UserDictInv
<1>2. Fields \subseteq DOMAIN dict /\ CountersSound(dict)
  BY <1>1 DEF Image, Sound
<1>3. PICK c \in Nat : c = Len(dict.syncs) /\ c <= MaxSyncs
  <2>1. Len(dict.syncs) \in Nat /\ Len(dict.syncs) <= MaxSyncs
    BY <1>2 DEF CountersSound
  <2> QED BY <2>1, Zenon
<1>4. dict.syncs \in Seq(SyncEntries)
  BY <1>2 DEF CountersSound, SyncEntries
<1>5. dict' = r
  <2>1. "syncs" \in DOMAIN dict
    BY <1>2 DEF Fields
  <2> QED BY <2>1 DEF SyncClear, ClearSyncLemmas
<1>6. last \in 0..Len(dict.syncs)
  <2>1. IsFiniteSet(got)
    <3>1. IsFiniteSet(1..MaxSyncs)
      BY SizesAssumption, FS_Interval
    <3> QED BY <1>1, <3>1, FS_Subset
  <2>2. Cardinality(got) \in Nat
    BY <2>1, FS_CardinalityType
  <2> DEFINE S == {Cardinality(got), c}
  <2>3. S \in SUBSET Nat /\ S # {} /\ c \in S
    BY <2>2
  <2> HIDE DEF S
  <2>4. Min(S) \in S /\ Min(S) <= c
    BY <2>3, MinNat
  <2>5. Min(S) \in Nat
    BY <2>3, <2>4
  <2> QED BY <1>3, <2>4, <2>5 DEF S
<1> HIDE DEF last
<1>7. rest \in Seq(SyncEntries) /\ Len(rest) <= c
  BY <1>3, <1>4, <1>6, RestOfSequence
<1> HIDE DEF rest
<1>8. Keeps(dict, x, {"syncs"}) /\ x.syncs = rest
  BY <1>2 DEF Keeps, Fields
<1> HIDE DEF x
<1>9. Fields \subseteq DOMAIN x /\ x.state = dict.state /\ x.limit = dict.limit
  BY <1>8 DEF Keeps, Fields
<1>10. x.state \in USER_DICT_SYNC..USER_DICT_DEFRAGMENTED
  BY <1>2, <1>9 DEF CountersSound
<1>11. USER_DICT_SYNC_DIRTY \in USER_DICT_SYNC..USER_DICT_DEFRAGMENTED
  BY DEF USER_DICT_SYNC, USER_DICT_SYNC_DIRTY, USER_DICT_DEFRAGMENTED
<1>12. Keeps(x, r, {"state"})
       /\ r.state = IF x.state >= USER_DICT_SYNC_DIRTY THEN x.state ELSE USER_DICT_SYNC_DIRTY
  <2>1. Keeps(x, r, {"state"})
    BY <1>9, DirtyKeeps
  <2>2. r.state = IF x.state >= USER_DICT_SYNC_DIRTY THEN x.state ELSE USER_DICT_SYNC_DIRTY
    BY <1>9, <1>10, <1>11, DirtyState
  <2> QED BY <2>1, <2>2
<1> HIDE DEF r
<1>13. /\ r.state \in USER_DICT_SYNC..USER_DICT_DEFRAGMENTED /\ r.state >= dict.state
       /\ r.state # USER_DICT_SYNC
  BY <1>9, <1>10, <1>12 DEF USER_DICT_SYNC, USER_DICT_SYNC_DIRTY, USER_DICT_DEFRAGMENTED
<1>14. r.syncs = rest /\ r.limit = dict.limit
  BY <1>8, <1>9, <1>12 DEF Keeps, Fields
<1>15. Keeps(dict, r, {"syncs", "limit", "state"})
  BY <1>8, <1>12 DEF Keeps
<1>16. Image(r, file)
  <2>1. r.limit \in [count : Nat, size : Nat, ratio : 0..99]
    BY <1>2, <1>14 DEF CountersSound
  <2>2. Len(r.syncs) <= MaxSyncs
    <3>1. Len(rest) \in Nat
      BY <1>7
    <3>2. PICK e \in Nat : e = Len(rest)
      BY <3>1, Zenon
    <3> QED BY <1>3, <1>7, <1>14, <3>2, SizesAssumption
  <2>3. r.syncs \in Seq(SyncEntries) /\ (r.state = USER_DICT_SYNC => r.syncs = dict.syncs)
    BY <1>7, <1>13, <1>14
  <2> QED BY <1>1, <1>13, <1>15, <2>1, <2>2, <2>3, SyncsSound
<1>17. role' = role /\ file' = file /\ got' = {} /\ role # "none"
  BY DEF SyncClear
<1>18. got' \in SUBSET (1..MaxSyncs)
  BY <1>17
<1> QED
  BY <1>5, <1>16, <1>17, <1>18, OpenImage

---------------------------------------------------------------------------
\* It holds of a file that is missing.
LEMMA InitKeeps ==
  Init => UserDictInv
<1> SUFFICES ASSUME Init PROVE UserDictInv
  OBVIOUS
<1>1. FileSound(Validated(file))
  BY ValidatedSound DEF Init
<1> QED
  BY <1>1 DEF Init, UserDictInv, Opened

\* The invariant holds in every state: every action of the input method and of Sync keeps it.
THEOREM Invariant == Spec => []UserDictInv
<1>1. Init => UserDictInv
  BY InitKeeps
<1>2. UserDictInv /\ [Next]_vars => UserDictInv'
  <2> SUFFICES ASSUME UserDictInv, [Next]_vars PROVE UserDictInv'
    OBVIOUS
  <2>1. ASSUME NEW r \in {"ime", "sync"}, Open(r) PROVE UserDictInv'
    BY <2>1, OpenKeeps
  <2>2. CASE Close
    BY <2>2, CloseKeeps
  <2>3. CASE Crash
    BY <2>3, CrashKeeps
  <2>4. CASE Flush
    BY <2>4, FlushKeeps
  <2>5. CASE SyncClear
    BY <2>5, SyncClearKeeps
  <2>6. ASSUME NEW lemma \in Lemmas, NEW lmt \in Times, PutLemma(lemma, lmt) PROVE UserDictInv'
    BY <2>6, PutLemmaKeeps
  <2>7. ASSUME NEW lemma \in Lemmas, NEW lmt \in Times, NEW freq \in Counts,
               SyncPut(lemma, freq, lmt)
        PROVE  UserDictInv'
    BY <2>7, SyncPutKeeps
  <2>8. ASSUME NEW id \in 1..MaxLemmas, RemoveLemma(id) PROVE UserDictInv'
    BY <2>8, RemoveLemmaKeeps
  <2>9. ASSUME NEW id \in 1..MaxLemmas, NEW lmt \in Times, UpdateLemma(id, lmt) PROVE UserDictInv'
    BY <2>9, UpdateLemmaKeeps
  <2>10. ASSUME NEW q \in Queries, NEW lpi_max \in LpiMaxs, Lookup_(q, lpi_max) PROVE UserDictInv'
    BY <2>10, LookupKeeps
  <2>11. ASSUME NEW room \in Rooms, SyncGet(room) PROVE UserDictInv'
    BY <2>11, SyncGetKeeps
  <2>12. CASE UNCHANGED vars
    BY <2>12 DEF vars, UserDictInv, Opened
  <2> QED
    BY <2>1, <2>2, <2>3, <2>4, <2>5, <2>6, <2>7, <2>8, <2>9, <2>10, <2>11, <2>12 DEF Next
<1> QED
  BY <1>1, <1>2, PTL DEF Spec
---------------------------------------------------------------------------
\* A sequence without repetition has as many elements as places.
LEMMA InjectiveDistinct ==
  ASSUME NEW n \in Nat, NEW V, NEW s \in [1..n -> V], \A i, j \in 1..n : s[i] = s[j] => i = j
  PROVE  Distinct(s) /\ IsFiniteSet(ToSet(s)) /\ Cardinality(ToSet(s)) = n
<1>1. Len(s) = n
  OBVIOUS
<1>2. ToSet(s) = {s[i] : i \in 1..n}
  BY DEF ToSet
<1>3. s \in [1..n -> ToSet(s)]
  BY <1>2
<1>4. s \in Surjection(1..n, ToSet(s))
  <2>1. \A x \in ToSet(s) : \E i \in 1..n : s[i] = x
    BY <1>2
  <2> QED BY <1>3, <2>1 DEF Surjection
<1>5. s \in Injection(1..n, ToSet(s))
  BY <1>3 DEF Injection, IsInjective
<1>6. IsFiniteSet(1..n) /\ Cardinality(1..n) = n
  BY FS_Interval
<1>7. IsFiniteSet(ToSet(s)) /\ Cardinality(ToSet(s)) = Cardinality(1..n)
  BY <1>4, <1>5, <1>6, FS_Surjection
<1> QED
  BY <1>1, <1>6, <1>7 DEF Distinct

\* Where the lemmas of an index begin: distinct places, no more than the index has entries.
LEMMA PositionsDistinct ==
  ASSUME NEW d, IndexSound(d)
  PROVE  /\ Distinct([i \in Indexes(d) |-> d.offsets[i].pos])
         /\ IsFiniteSet(DOMAIN d.lemmas) /\ Cardinality(DOMAIN d.lemmas) = Len(d.offsets)
<1>1. PICK n \in Nat : n = Len(d.offsets)
  BY IndexLen
<1>2. Indexes(d) = 1..n
  BY <1>1 DEF Indexes
<1> DEFINE s == [i \in 1..n |-> d.offsets[i].pos]
<1>3. /\ DOMAIN d.lemmas = {d.offsets[i].pos : i \in 1..n}
      /\ \A i, j \in 1..n : d.offsets[i].pos = d.offsets[j].pos => i = j
      /\ \A i \in 1..n : d.offsets[i].pos \in Nat
  BY <1>2 DEF IndexSound
<1>4. s \in [1..n -> Nat] /\ \A i, j \in 1..n : s[i] = s[j] => i = j
  BY <1>3
<1>5. ToSet(s) = DOMAIN d.lemmas
  BY <1>3 DEF ToSet
<1> HIDE DEF s
<1>6. Distinct(s) /\ IsFiniteSet(ToSet(s)) /\ Cardinality(ToSet(s)) = n
  BY <1>4, InjectiveDistinct
<1> QED
  BY <1>1, <1>2, <1>5, <1>6 DEF s

\* The block is not longer than the longest lemmas would make it.
LEMMA BlockBounded ==
  ASSUME NEW d, Sound(d)
  PROVE  d.lemma_size \in Nat /\ d.lemma_size <= MaxLemmas * LemmaBytes(kMaxLemmaSize)
<1> DEFINE M == LemmaBytes(kMaxLemmaSize)
           L == DOMAIN d.lemmas
<1>1. BlockSound(d) /\ IndexSound(d)
  BY DEF Sound
<1>2. /\ Blocks(BytesAt(d), d.lemma_size) /\ DOMAIN BytesAt(d) = L
      /\ \A p \in L : /\ BytesAt(d)[p] = BytesOf(d, p) /\ BytesOf(d, p) \in 1..M
                      /\ p \in Nat
  BY <1>1, SoundBlocks
<1>3. d.lemma_size \in Nat /\ M \in Nat
  BY <1>1, SizesAssumption DEF BlockSound, LemmaBytes
<1> HIDE DEF M
<1>4. \A p \in L : BytesAt(d)[p] \in 0..M
  BY <1>2, <1>3
<1>5. SumBefore(BytesAt(d), L, d.lemma_size) = d.lemma_size
  BY <1>2, SumIsCut DEF Cuts
<1>6. IsFiniteSet(L) /\ Cardinality(L) = Len(d.offsets)
  BY <1>1, PositionsDistinct
<1>7. L \in SUBSET Nat
  BY <1>2
<1>8. d.lemma_size <= M * Cardinality(L)
  BY <1>3, <1>4, <1>5, <1>6, <1>7, SumBounded
<1>9. PICK n \in Nat : n = Len(d.offsets) /\ n <= MaxLemmas /\ MaxLemmas \in Nat
  BY <1>1, IndexLen
<1>10. M * n <= MaxLemmas * M
  BY <1>3, <1>9
<1>11. M * n \in Nat /\ MaxLemmas * M \in Nat
  BY <1>3, <1>9
<1> QED
  BY <1>3, <1>6, <1>8, <1>9, <1>10, <1>11 DEF M

\* The type invariant follows from the inductive one.
LEMMA InvariantTypes ==
  UserDictInv => TypeOK
<1> SUFFICES ASSUME UserDictInv PROVE TypeOK
  OBVIOUS
<1>1. /\ role \in {"none", "ime", "sync"} /\ got \in SUBSET (1..MaxSyncs)
      /\ ~Opened => dict = NoDict
  BY DEF UserDictInv
<1>2. ASSUME Opened
      PROVE  /\ dict.state \in USER_DICT_SYNC..USER_DICT_DEFRAGMENTED
             /\ dict.offsets \in Seq(IndexEntries)
             /\ dict.count_left \in 0..kUserDictPreAlloc
             /\ dict.size_left \in Nat
             /\ ~dict.syncs_null
  <2>1. Sound(dict) /\ dict.syncs_null = FALSE
    BY <1>2 DEF UserDictInv
  <2>2. CountersSound(dict) /\ IndexSound(dict) /\ BlockSound(dict)
    BY <2>1 DEF Sound
  <2>3. PICK n \in Nat : n = Len(dict.offsets) /\ n <= MaxLemmas /\ MaxLemmas \in Nat
    BY <2>2, IndexLen
  <2>4. Indexes(dict) = 1..n
    BY <2>3 DEF Indexes
  <2>5. ASSUME NEW i \in 1..n PROVE dict.offsets[i] \in IndexEntries
    <3> DEFINE e == dict.offsets[i]
    <3>1. e \in [pos : Nat, removed : BOOLEAN, score : Scores, id : 1..n]
      BY <2>2, <2>4 DEF IndexSound
    <3>2. e.pos \in DOMAIN dict.lemmas
      <4>1. DOMAIN dict.lemmas = {dict.offsets[j].pos : j \in 1..n}
        BY <2>2, <2>4 DEF IndexSound
      <4> QED BY <4>1
    <3>3. e.pos \in Nat /\ e.pos < dict.lemma_size
      BY <2>2, <3>2, SoundBlocks
    <3>4. /\ dict.lemma_size \in Nat
          /\ dict.lemma_size <= MaxLemmas * LemmaBytes(kMaxLemmaSize)
      BY <2>1, BlockBounded
    <3>5. MaxLemmas * LemmaBytes(kMaxLemmaSize) \in Nat
      BY <2>3, SizesAssumption DEF LemmaBytes
    <3>6. e.pos \in Bytes
      <4> DEFINE top == MaxLemmas * LemmaBytes(kMaxLemmaSize)
      <4> HIDE DEF top, e
      <4>1. e.pos \in 0..top
        BY <3>3, <3>4, <3>5 DEF top
      <4> QED BY <4>1 DEF Bytes, top
    <3>7. e.id \in 1..MaxLemmas
      BY <2>3, <3>1
    <3> HIDE DEF e
    <3>8. e \in IndexEntries
      BY <3>1, <3>6, <3>7 DEF IndexEntries
    <3> QED BY <3>8 DEF e
  <2>6. dict.offsets \in [1..n -> IndexEntries]
    BY <2>2, <2>4, <2>5 DEF IndexSound
  <2>7. dict.offsets \in Seq(IndexEntries)
    <3> HIDE DEF IndexEntries
    <3> QED BY <2>6
  <2> QED BY <2>1, <2>2, <2>7 DEF CountersSound
<1> QED
  BY <1>1, <1>2 DEF TypeOK

\* The parallel arrays agree whenever the dictionary is sound.
LEMMA SoundAgrees ==
  ASSUME NEW d, Sound(d)
  PROVE  LET listed == {[pos |-> e.pos, removed |-> e.removed] : e \in ToSet(d.offsets)}
             ends == {pos + BytesOf(d, pos) : pos \in DOMAIN d.lemmas}
         IN /\ {e.pos : e \in listed} = DOMAIN d.lemmas
            /\ ToSet(d.predicts) = listed
            /\ Distinct(d.predicts) /\ Distinct([i \in Indexes(d) |-> d.offsets[i].pos])
            /\ {d.offsets[i].id : i \in Indexes(d)} = Indexes(d)
            /\ \A i \in Indexes(d) : d.by_id[d.offsets[i].id] = d.offsets[i].pos
            /\ DOMAIN d.lemmas \cup {d.lemma_size} = ends \cup {0}
<1> DEFINE listed == {[pos |-> e.pos, removed |-> e.removed] : e \in ToSet(d.offsets)}
           ends == {pos + BytesOf(d, pos) : pos \in DOMAIN d.lemmas}
<1>1. IndexSound(d) /\ BlockSound(d) /\ PredictsSound(d)
  BY DEF Sound
<1>2. PICK n \in Nat : n = Len(d.offsets)
  BY <1>1, IndexLen
<1>3. Indexes(d) = 1..n /\ Len(d.predicts) = n
  BY <1>1, <1>2, PredictsLen DEF Indexes
<1>4. ToSet(d.offsets) = {d.offsets[i] : i \in 1..n}
  BY <1>1, <1>3 DEF IndexSound, ToSet
<1>5. listed = {FlagOf(d.offsets[i]) : i \in 1..n}
  BY <1>4 DEF FlagOf
<1>6. DOMAIN d.lemmas = {d.offsets[i].pos : i \in 1..n}
  BY <1>1, <1>3 DEF IndexSound
<1> HIDE DEF listed
<1>7. {e.pos : e \in listed} = DOMAIN d.lemmas
  <2>1. \A i \in 1..n : FlagOf(d.offsets[i]).pos = d.offsets[i].pos
    BY DEF FlagOf
  <2> QED BY <1>5, <1>6, <2>1
<1> DEFINE s == d.predicts
           o(i) == d.offsets[i]
<1>8. /\ s \in [1..n -> [pos : Nat, removed : BOOLEAN]]
      /\ \A k \in 1..n : \E i \in 1..n : s[k] = FlagOf(o(i))
      /\ \A i \in 1..n : \E k \in 1..n : s[k] = FlagOf(o(i))
      /\ \A k, m \in 1..n : s[k].pos = s[m].pos => k = m
  BY <1>1, <1>3, ZenonT(60) DEF PredictsSound
<1> HIDE DEF s, o
<1>9. ToSet(s) = {s[k] : k \in 1..n}
  BY <1>8 DEF ToSet
<1>10. ToSet(s) = listed
  <2>1. listed = {FlagOf(o(i)) : i \in 1..n}
    BY <1>5 DEF o
  <2>2. ASSUME NEW x \in ToSet(s) PROVE x \in listed
    BY <1>8, <1>9, <2>1
  <2>3. ASSUME NEW x \in listed PROVE x \in ToSet(s)
    BY <1>8, <1>9, <2>1
  <2> QED BY <2>2, <2>3
<1>11. Distinct(s)
  BY <1>8, InjectiveDistinct
<1>12. Distinct([i \in Indexes(d) |-> d.offsets[i].pos])
  BY <1>1, PositionsDistinct
<1>13. {d.offsets[i].id : i \in Indexes(d)} = Indexes(d)
  <2>1. /\ \A i \in 1..n : d.offsets[i].id \in 1..n
        /\ \A id \in 1..n : \E i \in 1..n : d.offsets[i].id = id
    BY <1>1, <1>3 DEF IndexSound
  <2> QED BY <1>3, <2>1
<1>14. \A i \in Indexes(d) : d.by_id[d.offsets[i].id] = d.offsets[i].pos
  BY <1>1 DEF IndexSound
<1>15. DOMAIN d.lemmas \cup {d.lemma_size} = ends \cup {0}
  <2>1. /\ DOMAIN BytesAt(d) = DOMAIN d.lemmas
        /\ \A p \in DOMAIN d.lemmas : BytesAt(d)[p] = BytesOf(d, p)
    BY <1>1, SoundBlocks
  <2> DEFINE b == BytesAt(d)
             cuts == DOMAIN b \cup {d.lemma_size}
  <2>2. Tiled(b, d.lemma_size)
    BY <1>1 DEF BlockSound
  <2> HIDE DEF b
  <2>3. /\ 0 \in cuts
        /\ \A p \in DOMAIN b : p + b[p] \in cuts
        /\ \A q \in cuts : q = 0 \/ \E p \in DOMAIN b : p + b[p] = q
    BY <2>2 DEF Tiled
  <2>4. ends = {p + b[p] : p \in DOMAIN b}
    BY <2>1 DEF b
  <2>5. cuts = DOMAIN d.lemmas \cup {d.lemma_size}
    BY <2>1 DEF b
  <2> HIDE DEF cuts, ends
  <2>6. ASSUME NEW q \in cuts PROVE q \in ends \cup {0}
    BY <2>3, <2>4
  <2>7. ASSUME NEW q \in ends \cup {0} PROVE q \in cuts
    BY <2>3, <2>4
  <2> QED BY <2>5, <2>6, <2>7
<1> QED
  BY <1>7, <1>10, <1>11, <1>12, <1>13, <1>14, <1>15 DEF listed, s

\* A close leaves the whole image in the file but for the limit.
LEMMA ImageWritten ==
  ASSUME NEW d, NEW f, Image(d, f)
  PROVE  [WriteBack(d, f) EXCEPT !.limit = d.limit] = FileOf(d)
<1>1. Storable(d) /\ FileSound(f) /\ Saved(d, f) /\ d.syncs_null = FALSE
  BY DEF Image, Storable, Sound
<1>2. CASE d.state = USER_DICT_SYNC
  <2>1. WriteBack(d, f) = f
    BY <1>1, <1>2, WriteBackCases
  <2>2. /\ f.syncs = d.syncs /\ f.free_count = d.free_count /\ f.free_size = d.free_size
        /\ f.scores = ScoresOf(d) /\ f.offsets = FlagsOf(d) /\ f.predicts = d.predicts
        /\ f.lemmas = d.lemmas /\ f.lemma_size = d.lemma_size
    BY <1>1, <1>2 DEF Saved, USER_DICT_SYNC, USER_DICT_SCORE_DIRTY, USER_DICT_OFFSET_DIRTY,
                      USER_DICT_LEMMA_DIRTY
  <2>3. f = [lemmas |-> f.lemmas, lemma_size |-> f.lemma_size, offsets |-> f.offsets,
             predicts |-> f.predicts, scores |-> f.scores, syncs |-> f.syncs,
             free_count |-> f.free_count, free_size |-> f.free_size, limit |-> f.limit]
    BY <1>1 DEF FileSound
  <2>4. [f EXCEPT !.limit = d.limit] =
          [lemmas |-> f.lemmas, lemma_size |-> f.lemma_size, offsets |-> f.offsets,
           predicts |-> f.predicts, scores |-> f.scores, syncs |-> f.syncs,
           free_count |-> f.free_count, free_size |-> f.free_size, limit |-> d.limit]
    BY <2>3
  <2> QED BY <2>1, <2>2, <2>4 DEF FileOf
<1>3. CASE d.state # USER_DICT_SYNC
  <2>1. WriteBack(d, f) = FileOf(d)
    BY <1>1, <1>3, WriteBackCases
  <2>2. [FileOf(d) EXCEPT !.limit = d.limit] = FileOf(d)
    BY DEF FileOf
  <2> QED BY <2>1, <2>2
<1> QED
  BY <1>2, <1>3

---------------------------------------------------------------------------
\* The type invariant holds of every state, for every size of index and sync list.
THEOREM TypeCorrect == Spec => []TypeOK
<1>1. Spec => []UserDictInv
  BY Invariant
<1>2. UserDictInv => TypeOK
  BY InvariantTypes
<1> QED
  BY <1>1, <1>2, PTL

\* offsets_, predicts_, ids_, offsets_by_id_ and the lemma block agree in every state, whatever
\* is inserted, removed, reclaimed, defragmented, written back and loaded again.
THEOREM ArraysAgree == Spec => []IndexesAgree
<1>1. Spec => []UserDictInv
  BY Invariant
<1>2. UserDictInv => IndexesAgree
  <2> SUFFICES ASSUME UserDictInv, Opened PROVE IndexesAgree
    BY DEF IndexesAgree
  <2>1. Sound(dict)
    BY DEF UserDictInv
  <2> QED BY <2>1, SoundAgrees DEF IndexesAgree
<1> QED
  BY <1>1, <1>2, PTL

\* free_count_ and free_size_ are what the removed entries hold in every state.
THEOREM FreeSpaceAccounted == Spec => []FreeAccounting
<1>1. Spec => []UserDictInv
  BY Invariant
<1>2. UserDictInv => FreeAccounting
  BY DEF UserDictInv, FreeAccounting, Accounted
<1> QED
  BY <1>1, <1>2, PTL

\* A close in any state would save the whole image: no dirty level is ever too low for what has
\* changed since the load.
THEOREM CloseSavesAll == Spec => []WritesAll
<1>1. Spec => []UserDictInv
  BY Invariant
<1>2. UserDictInv => WritesAll
  <2> SUFFICES ASSUME UserDictInv, Opened PROVE WritesAll
    BY DEF WritesAll
  <2>1. Image(dict, file)
    BY OpenImage DEF Opened
  <2> QED BY <2>1, ImageWritten DEF WritesAll
<1> QED
  BY <1>1, <1>2, PTL

---------------------------------------------------------------------------
\* The initial letters of a spelling, which is the signature it is sorted and cached by.
Letters(spell) == [i \in 1..Len(spell) |-> Initial[spell[i]]]

\* The order of the index: shorter signatures first, those of one length by their letters.
SigLess(s, t) ==
  \/ Len(s) < Len(t)
  \/ Len(s) = Len(t) /\ \E k \in 1..Len(s) : s[k] < t[k] /\ \A j \in 1..k - 1 : s[j] = t[j]

\* The signature of an entry of the index.
SigAt(d, i) == Letters(SpellOf(d, i))

\* The index is sorted.
Sorted(d) == \A i, j \in Indexes(d) : i < j => ~SigLess(SigAt(d, j), SigAt(d, i))

\* No two entries without the removed flag are of one lemma.
Single(d) ==
  \A i, j \in Indexes(d) :
    ~d.offsets[i].removed /\ ~d.offsets[j].removed /\ LemmaOf(d, i) = LemmaOf(d, j) => i = j

Ordered(d) == Sorted(d) /\ Single(d)

\* A range that reaches from the first entry of a signature over all of them.
Covers(d, sig, range) ==
  \A i \in Indexes(d) : SigAt(d, i) = sig =>
    /\ range.start <= i /\ i < range.start + range.count
    /\ \A j \in range.start..i : SigAt(d, j) = sig

\* A range none of whose entries is shorter than the signature.
LongIn(d, sig, range) ==
  \A i \in Indexes(d) :
    range.start <= i /\ i < range.start + range.count => Len(sig) <= Len(SigAt(d, i))

\* The entries of the miss cache: a signature and no range.
Misses == Seq([sig : {q.sig : q \in Queries}, val : {[start |-> 0, count |-> 0]}])

\* What the caches say is true of the index.
CachesTrue(d) ==
  /\ d.miss \in [1..kMaxLemmaSize -> Misses]
  /\ \A n \in 1..kMaxLemmaSize : \A k \in 1..Len(d.cache[n]) :
       /\ Covers(d, d.cache[n][k].sig, d.cache[n][k].val)
       /\ LongIn(d, d.cache[n][k].sig, d.cache[n][k].val)
  /\ \A n \in 1..kMaxLemmaSize : \A k \in 1..Len(d.miss[n]) :
       \A i \in Indexes(d) : SigAt(d, i) # d.miss[n][k].sig

\* What the searches rely on.
Searchable(d) == Ordered(d) /\ CachesTrue(d)

\* The next load of the file gives an ordered index.
OrderedFile(f) == Ordered(Load(Validated(f)))

\* The inductive invariant of the searches.
SearchInv == UserDictInv /\ OrderedFile(file) /\ (Opened => Searchable(dict))

\* The decoder asks with room for more lemmas than there are.
RoomForAll == \A m \in LpiMaxs : m \in Nat /\ m > MaxLemmas

---------------------------------------------------------------------------
\* Two signatures of n letters are equal, or differ first at some letter.
LEMMA FirstDifference ==
  ASSUME NEW n \in Nat, NEW s \in [1..n -> Nat], NEW t \in [1..n -> Nat], s # t
  PROVE  \E k \in 1..n : s[k] # t[k] /\ \A j \in 1..k - 1 : s[j] = t[j]
<1> DEFINE T == {k \in 1..n : s[k] # t[k]}
<1>1. T # {}
  OBVIOUS
<1>2. T \in SUBSET Nat
  OBVIOUS
<1>3. PICK k \in T : \A j \in T : k <= j
  <2> HIDE DEF T
  <2> QED BY <1>1, <1>2, LeastNat
<1>4. k \in 1..n /\ s[k] # t[k]
  OBVIOUS
<1>5. ASSUME NEW j \in 1..k - 1 PROVE s[j] = t[j]
  <2>1. j \in 1..n /\ ~(k <= j)
    BY <1>4
  <2>2. j \notin T
    BY <1>3, <2>1
  <2> QED BY <2>1, <2>2
<1> QED
  BY <1>4, <1>5

\* A signature as a function on its places.
LEMMA SigFunction ==
  ASSUME NEW s \in Seq(Nat)
  PROVE  \E n \in Nat : n = Len(s) /\ s \in [1..n -> Nat]
OBVIOUS

\* The order of signatures is total, and no two signatures are below each other.
LEMMA SigTotal ==
  ASSUME NEW s \in Seq(Nat), NEW t \in Seq(Nat)
  PROVE  /\ SigLess(s, t) \/ s = t \/ SigLess(t, s)
         /\ ~(SigLess(s, t) /\ SigLess(t, s))
<1>1. PICK n \in Nat : n = Len(s) /\ s \in [1..n -> Nat]
  BY SigFunction
<1>2. PICK m \in Nat : m = Len(t) /\ t \in [1..m -> Nat]
  BY SigFunction
<1>3. CASE n # m
  <2>1. (SigLess(s, t) <=> n < m) /\ (SigLess(t, s) <=> m < n)
    <3>1. ~(Len(s) = Len(t)) /\ ~(Len(t) = Len(s))
      BY <1>1, <1>2, <1>3
    <3>2. (SigLess(s, t) <=> Len(s) < Len(t)) /\ (SigLess(t, s) <=> Len(t) < Len(s))
      BY <3>1, Zenon DEF SigLess
    <3> QED BY <1>1, <1>2, <3>2, Zenon
  <2>2. (n < m \/ m < n) /\ ~(n < m /\ m < n)
    BY <1>3
  <2> QED BY <2>1, <2>2, Zenon
<1>4. CASE n = m
  <2>1. SigLess(s, t) <=> \E k \in 1..n : s[k] < t[k] /\ \A j \in 1..k - 1 : s[j] = t[j]
    BY <1>1, <1>2, <1>4 DEF SigLess
  <2>2. SigLess(t, s) <=> \E k \in 1..n : t[k] < s[k] /\ \A j \in 1..k - 1 : t[j] = s[j]
    BY <1>1, <1>2, <1>4 DEF SigLess
  <2>3. ASSUME s # t PROVE SigLess(s, t) \/ SigLess(t, s)
    <3>1. s \in [1..n -> Nat] /\ t \in [1..n -> Nat]
      BY <1>1, <1>2, <1>4
    <3>2. PICK k \in 1..n : s[k] # t[k] /\ \A j \in 1..k - 1 : s[j] = t[j]
      BY <2>3, <3>1, FirstDifference, Zenon
    <3>3. s[k] < t[k] \/ t[k] < s[k]
      BY <1>1, <3>1, <3>2
    <3> QED BY <2>1, <2>2, <3>2, <3>3
  <2>4. ASSUME SigLess(s, t), SigLess(t, s) PROVE FALSE
    <3>1. t \in [1..n -> Nat]
      BY <1>2, <1>4
    <3>2. PICK k \in 1..n : s[k] < t[k] /\ \A j \in 1..k - 1 : s[j] = t[j]
      BY <2>1, <2>4
    <3>3. PICK l \in 1..n : t[l] < s[l] /\ \A j \in 1..l - 1 : t[j] = s[j]
      BY <2>2, <2>4
    <3>4. k < l \/ l < k \/ k = l
      OBVIOUS
    <3> QED BY <1>1, <3>1, <3>2, <3>3, <3>4
  <2> QED BY <2>3, <2>4
<1> QED
  BY <1>3, <1>4

\* A signature that is not above another, which is not above a third, is not above the third.
LEMMA SigTransitive ==
  ASSUME NEW s \in Seq(Nat), NEW t \in Seq(Nat), NEW u \in Seq(Nat), SigLess(s, t), ~SigLess(u, t)
  PROVE  SigLess(s, u)
<1>1. PICK n \in Nat : n = Len(s) /\ s \in [1..n -> Nat]
  BY SigFunction
<1>2. PICK m \in Nat : m = Len(t) /\ t \in [1..m -> Nat]
  BY SigFunction
<1>3. PICK h \in Nat : h = Len(u) /\ u \in [1..h -> Nat]
  BY SigFunction
<1>4. n <= m /\ m <= h
  <2>1. n < m \/ n = m
    BY <1>1, <1>2, Zenon DEF SigLess
  <2>2. ~(h < m)
    BY <1>2, <1>3, Zenon DEF SigLess
  <2> QED BY <2>1, <2>2
<1>5. CASE n < h
  BY <1>1, <1>3, <1>5 DEF SigLess
<1>6. CASE n = h
  <2>1. n = m /\ n = h
    BY <1>4, <1>6
  <2>2. PICK k \in 1..n : s[k] < t[k] /\ \A j \in 1..k - 1 : s[j] = t[j]
    BY <1>1, <1>2, <2>1 DEF SigLess
  <2>3. \A x \in 1..n : ~(u[x] < t[x] /\ \A j \in 1..x - 1 : u[j] = t[j])
    BY <1>1, <1>2, <1>3, <2>1 DEF SigLess
  <2>4. t \in [1..n -> Nat] /\ u \in [1..n -> Nat]
    BY <1>2, <1>3, <2>1
  <2>5. CASE t = u
    BY <2>2, <2>5, <1>1, <1>3, <2>1 DEF SigLess
  <2>6. CASE t # u
    <3>1. PICK l \in 1..n : t[l] # u[l] /\ \A j \in 1..l - 1 : t[j] = u[j]
      BY <2>4, <2>6, FirstDifference, ZenonT(60)
    <3>2. t[l] < u[l]
      <4>1. \A j \in 1..l - 1 : u[j] = t[j]
        BY <3>1, Zenon
      <4>2. ~(u[l] < t[l])
        BY <2>3, <4>1, Zenon
      <4> QED BY <2>4, <3>1, <4>2
    <3>3. \E x \in 1..n : s[x] < u[x] /\ \A j \in 1..x - 1 : s[j] = u[j]
      <4>1. CASE k <= l
        <5>1. s[k] < u[k]
          BY <1>1, <2>2, <2>4, <3>1, <3>2, <4>1
        <5>2. \A j \in 1..k - 1 : s[j] = u[j]
          BY <2>2, <3>1, <4>1
        <5> QED BY <5>1, <5>2
      <4>2. CASE l < k
        <5>1. s[l] < u[l]
          BY <2>2, <3>2, <4>2
        <5>2. \A j \in 1..l - 1 : s[j] = u[j]
          BY <2>2, <3>1, <4>2
        <5> QED BY <5>1, <5>2
      <4> QED BY <4>1, <4>2
    <3> QED BY <1>1, <1>3, <2>1, <3>3 DEF SigLess
  <2> QED BY <2>5, <2>6
<1> QED
  BY <1>4, <1>5, <1>6

---------------------------------------------------------------------------
\* The letters of a spelling, one for each full id.
LEMMA LettersOf ==
  ASSUME NEW spell \in Seq(DOMAIN Initial)
  PROVE  /\ Letters(spell) \in Seq(Nat) /\ Len(Letters(spell)) = Len(spell)
         /\ \A i \in 1..Len(spell) : Letters(spell)[i] = Initial[spell[i]]
<1>1. PICK n \in Nat : n = Len(spell) /\ spell \in [1..n -> DOMAIN Initial]
  OBVIOUS
<1>2. \A i \in 1..n : Initial[spell[i]] \in Nat
  BY <1>1, InitialAssumption
<1>3. Letters(spell) = [i \in 1..n |-> Initial[spell[i]]]
  BY <1>1 DEF Letters
<1>4. Letters(spell) \in [1..n -> Nat]
  BY <1>2, <1>3
<1> QED
  BY <1>1, <1>3, <1>4

\* The query a lemma's own spelling makes has the letters of the spelling for its signature.
LEMMA SearchForLetters ==
  ASSUME NEW spell \in Seq(DOMAIN Initial)
  PROVE  /\ SearchFor(spell).sig = Letters(spell)
         /\ SearchFor(spell).match = [i \in 1..Len(spell) |-> {spell[i]}]
<1>1. PICK n \in Nat : n = Len(spell)
  OBVIOUS
<1> DEFINE ids == [i \in 1..n |-> {spell[i]}]
<1>2. SearchFor(spell).match = ids
  BY <1>1 DEF SearchFor, PrepareLocate
<1>3. SearchFor(spell).sig = [i \in 1..Len(ids) |-> Initial[CHOOSE id \in ids[i] : TRUE]]
  BY <1>1 DEF SearchFor, PrepareLocate
<1>4. Len(ids) = n
  OBVIOUS
<1>5. ASSUME NEW i \in 1..n PROVE (CHOOSE id \in ids[i] : TRUE) = spell[i]
  BY <1>5
<1> HIDE DEF ids
<1>6. SearchFor(spell).sig = [i \in 1..n |-> Initial[spell[i]]]
  BY <1>3, <1>4, <1>5
<1> QED
  BY <1>1, <1>2, <1>6 DEF Letters, ids

\* fuzzy_compare_spell_id, given the length of its lemma, compares signatures.
LEMMA CompareLetters ==
  ASSUME NEW spell \in Seq(DOMAIN Initial), NEW q, q.sig \in Seq(Nat)
  PROVE  /\ FuzzyCompare(spell, Len(spell), q) < 0 <=> SigLess(Letters(spell), q.sig)
         /\ FuzzyCompare(spell, Len(spell), q) = 0 <=> Letters(spell) = q.sig
         /\ FuzzyCompare(spell, Len(spell), q) \in {-1, 0, 1}
<1> DEFINE a == Letters(spell)
           b == q.sig
           c == FuzzyCompare(spell, Len(spell), q)
           differ == {i \in 1..Len(b) : Initial[spell[i]] # b[i]}
<1>1. PICK n \in Nat : n = Len(b) /\ b \in [1..n -> Nat]
  BY SigFunction
<1>2. PICK m \in Nat : m = Len(spell) /\ m = Len(a) /\ a \in [1..m -> Nat]
  <2>1. PICK m \in Nat : m = Len(a) /\ a \in [1..m -> Nat]
    BY LettersOf, SigFunction
  <2> QED BY <2>1, LettersOf
<1>3. a \in Seq(Nat) /\ \A i \in 1..m : a[i] = Initial[spell[i]]
  BY <1>2, LettersOf
<1>4. c = IF m < n THEN -1
          ELSE IF m > n THEN 1
          ELSE IF differ = {} THEN 0
          ELSE IF Initial[spell[Min(differ)]] > b[Min(differ)] THEN 1 ELSE -1
  BY <1>1, <1>2 DEF FuzzyCompare
<1> HIDE DEF a, b, c
<1>total. (SigLess(a, b) \/ a = b \/ SigLess(b, a)) /\ ~(SigLess(a, b) /\ SigLess(b, a))
  <2>1. b \in Seq(Nat)
    BY DEF b
  <2> QED BY <1>3, <2>1, SigTotal
<1>self. ~SigLess(a, a)
  BY <1>3, SigTotal
<1>5. CASE m < n
  <2>1. c = -1
    BY <1>4, <1>5
  <2>2. SigLess(a, b)
    BY <1>1, <1>2, <1>5, Zenon DEF SigLess
  <2>3. a # b
    BY <1>self, <2>2
  <2> QED BY <2>1, <2>2, <2>3 DEF a, b, c
<1>6. CASE m > n
  <2>1. c = 1
    BY <1>4, <1>6
  <2>2. SigLess(b, a)
    <3>1. n < m
      BY <1>6
    <3> QED BY <1>1, <1>2, <3>1, Zenon DEF SigLess
  <2>3. a # b /\ ~SigLess(a, b)
    BY <1>self, <1>total, <2>2
  <2> QED BY <2>1, <2>3 DEF a, b, c
<1>7. CASE m = n
  <2>1. differ = {i \in 1..n : a[i] # b[i]}
    BY <1>1, <1>3, <1>7
  <2>2. CASE differ = {}
    <3>1. c = 0
      BY <1>4, <1>7, <2>2
    <3>2. a = b
      BY <1>1, <1>2, <1>7, <2>1, <2>2
    <3> QED BY <1>self, <3>1, <3>2 DEF a, b, c
  <2>3. CASE differ # {}
    <3> DEFINE k == Min(differ)
    <3>1. differ \in SUBSET Nat
      BY <2>1
    <3>2. k \in differ /\ \A x \in differ : k <= x
      <4> HIDE DEF differ
      <4> QED BY <2>3, <3>1, MinNat
    <3>3. k \in 1..n /\ a[k] # b[k]
      BY <2>1, <3>2
    <3>4. ASSUME NEW j \in 1..k - 1 PROVE a[j] = b[j]
      <4>1. j \in 1..n /\ ~(k <= j)
        BY <3>3
      <4>2. j \notin differ
        BY <3>2, <4>1
      <4> QED BY <2>1, <4>1, <4>2
    <3>5. c = IF a[k] > b[k] THEN 1 ELSE -1
      BY <1>3, <1>4, <1>7, <2>3, <3>3
    <3> HIDE DEF k, differ
    <3>6. a[k] \in Nat /\ b[k] \in Nat
      BY <1>1, <1>2, <1>7, <3>3
    <3>7. a # b
      BY <3>3
    <3>8. CASE a[k] > b[k]
      <4>1. b[k] < a[k] /\ \A j \in 1..k - 1 : b[j] = a[j]
        BY <3>4, <3>6, <3>8
      <4>2. Len(b) = Len(a) /\ k \in 1..Len(b)
        BY <1>1, <1>2, <1>7, <3>3
      <4>3. SigLess(b, a)
        BY <4>1, <4>2, Zenon DEF SigLess
      <4>4. c = 1
        BY <3>5, <3>8
      <4> QED BY <1>total, <3>7, <4>3, <4>4 DEF a, b, c
    <3>9. CASE ~(a[k] > b[k])
      <4>1. a[k] < b[k] /\ \A j \in 1..k - 1 : a[j] = b[j]
        BY <3>3, <3>4, <3>6, <3>9
      <4>2. Len(a) = Len(b) /\ k \in 1..Len(a)
        BY <1>1, <1>2, <1>7, <3>3
      <4>3. SigLess(a, b)
        BY <4>1, <4>2, Zenon DEF SigLess
      <4>4. c = -1
        BY <3>5, <3>9
      <4> QED BY <3>7, <4>3, <4>4 DEF a, b, c
    <3> QED BY <3>8, <3>9
  <2> QED BY <2>2, <2>3
<1>8. m < n \/ m > n \/ m = n
  OBVIOUS
<1> QED
  BY <1>5, <1>6, <1>7, <1>8, Zenon

\* A lemma whose letters the query begins is not below the query, and one that is as long has just
\* those letters.
LEMMA PrefixLetters ==
  ASSUME NEW spell \in Seq(DOMAIN Initial), NEW q, q.sig \in Seq(Nat)
  PROVE  /\ IsFuzzyPrefix(spell, q) => ~SigLess(Letters(spell), q.sig)
         /\ Letters(spell) = q.sig => IsFuzzyPrefix(spell, q)
         /\ Letters(spell) = q.sig => FuzzyCompare(spell, Len(q.sig), q) = 0
<1> DEFINE a == Letters(spell)
           b == q.sig
<1>1. PICK n \in Nat : n = Len(b) /\ b \in [1..n -> Nat]
  BY SigFunction
<1>2. PICK m \in Nat : m = Len(spell) /\ m = Len(a) /\ a \in [1..m -> Nat]
  <2>1. PICK m \in Nat : m = Len(a) /\ a \in [1..m -> Nat]
    BY LettersOf, SigFunction
  <2> QED BY <2>1, LettersOf
<1>3. a \in Seq(Nat) /\ \A i \in 1..m : a[i] = Initial[spell[i]]
  BY <1>2, LettersOf
<1>4. IsFuzzyPrefix(spell, q) <=> m >= n /\ \A i \in 1..n : Initial[spell[i]] = b[i]
  BY <1>1, <1>2 DEF IsFuzzyPrefix
<1> HIDE DEF a
<1>5. ASSUME IsFuzzyPrefix(spell, q), SigLess(a, b) PROVE FALSE
  <2>1. m >= n /\ \A i \in 1..n : a[i] = b[i]
    BY <1>3, <1>4, <1>5
  <2>2. ~(m < n)
    BY <2>1
  <2>3. PICK k \in 1..Len(a) : Len(a) = Len(b) /\ a[k] < b[k]
    BY <1>1, <1>2, <1>5, <2>2, Zenon DEF SigLess
  <2>4. k \in 1..n /\ b[k] \in Nat
    BY <1>1, <1>2, <2>3
  <2> QED BY <2>1, <2>3, <2>4
<1>6. ASSUME a = b PROVE IsFuzzyPrefix(spell, q)
  BY <1>1, <1>2, <1>3, <1>4, <1>6
<1>7. ASSUME a = b PROVE FuzzyCompare(spell, Len(q.sig), q) = 0
  <2>1. Len(spell) = Len(q.sig)
    BY <1>1, <1>2, <1>7
  <2> QED BY <1>7, <2>1, CompareLetters DEF a
<1> QED
  BY <1>5, <1>6, <1>7 DEF a

---------------------------------------------------------------------------
\* The search finds an index where those below it end, if it is a hit and no index below is one.
LEMMA BisectFindsFirst ==
  ASSUME NEW n \in Nat, NEW below, NEW hits, NEW b \in 1..n, b \in hits,
         \A i \in 1..n : i \in below <=> i < b, \A i \in 1..n : i < b => i \notin hits
  PROVE  Bisect(n, below, hits) = b
<1> DEFINE Mid(s) == (s.begin + s.end) \div 2
           Turn(s) == IF s.begin > s.end THEN s
                      ELSE [begin |-> IF Mid(s) \in below THEN Mid(s) + 1 ELSE s.begin,
                            end   |-> IF Mid(s) \in below THEN s.end ELSE Mid(s) - 1,
                            last  |-> IF Mid(s) \in hits THEN Mid(s) ELSE s.last]
           start == [begin |-> 1, end |-> n, last |-> 0]
           f == CHOOSE f : f = [k \in 0..n |-> IF k = 0 THEN start ELSE Turn(f[k-1])]
           S == [begin : 1..n + 1, end : 0..n, last : 0..n]
           turn == [k \in 1..n |-> [s \in S |-> Turn(s)]]
           \* after k turns b lies in what is left, or was the last hit
           Left(s, k) == /\ s \in S /\ s.begin <= b /\ b <= s.end + 1
                         /\ b = s.end + 1 => s.last = b
                         /\ s.begin > s.end \/ s.end - s.begin + 1 <= n - k
<1>1. Bisect(n, below, hits) = f[n].last
  BY DEF Bisect
<1>2. start \in S /\ Left(start, 0)
  OBVIOUS
<1>mid. ASSUME NEW s \in S, ~(s.begin > s.end)
        PROVE  Mid(s) \in s.begin..s.end /\ Mid(s) \in 1..n
  <2>1. s.begin \in 1..n + 1 /\ s.end \in 0..n
    OBVIOUS
  <2> QED BY <1>mid, <2>1
<1>3. ASSUME NEW s \in S PROVE Turn(s) \in S
  <2>1. CASE s.begin > s.end
    BY <2>1
  <2>2. CASE ~(s.begin > s.end)
    <3>1. Mid(s) \in 1..n /\ s.begin \in 1..n + 1 /\ s.end \in 0..n /\ s.last \in 0..n
      BY <1>mid, <2>2
    <3> HIDE DEF Mid
    <3> QED BY <2>2, <3>1
  <2> QED BY <2>1, <2>2
<1>4. ASSUME NEW s, NEW k \in 0..n - 1, Left(s, k) PROVE Left(Turn(s), k + 1)
  <2>1. s \in S /\ Turn(s) \in S
    BY <1>3, <1>4
  <2>2. CASE s.begin > s.end
    BY <1>4, <2>2
  <2>3. CASE ~(s.begin > s.end)
    <3>1. Mid(s) \in s.begin..s.end /\ Mid(s) \in 1..n
      BY <1>mid, <2>1, <2>3
    <3>2. s.begin \in 1..n + 1 /\ s.end \in 0..n /\ s.last \in 0..n
      BY <2>1
    <3> HIDE DEF Mid
    <3>3. /\ Turn(s).begin = IF Mid(s) \in below THEN Mid(s) + 1 ELSE s.begin
          /\ Turn(s).end = IF Mid(s) \in below THEN s.end ELSE Mid(s) - 1
          /\ Turn(s).last = IF Mid(s) \in hits THEN Mid(s) ELSE s.last
      BY <2>3
    <3> HIDE DEF Turn, S
    <3>4. /\ s.begin <= b /\ b <= s.end + 1 /\ (b = s.end + 1 => s.last = b)
          /\ s.end - s.begin + 1 <= n - k
      BY <1>4, <2>3
    <3>5. CASE Mid(s) \in below
      <4>1. Mid(s) < b /\ Mid(s) \notin hits
        BY <3>1, <3>5
      <4> QED BY <2>1, <3>1, <3>2, <3>3, <3>4, <3>5, <4>1
    <3>6. CASE Mid(s) \notin below
      <4>1. b <= Mid(s)
        BY <3>1, <3>6
      <4>2. b = Mid(s) => Turn(s).last = b
        BY <3>3
      <4> QED BY <2>1, <3>1, <3>2, <3>3, <3>4, <3>6, <4>1, <4>2
    <3> QED BY <3>5, <3>6
  <2> QED BY <2>2, <2>3
<1> HIDE DEF start, Turn
<1>5. PICK g : Run(n, S, start, turn, g)
  <2>1. turn \in [1..n -> [S -> S]]
    BY <1>3
  <2> HIDE DEF turn, S
  <2>2. HasRun(n, S, start, turn)
    BY <1>2, <2>1, TurnsExist DEF Turns
  <2> QED BY <2>2 DEF HasRun
<1>6. g \in [0..n -> S] /\ g[0] = start /\ \A k \in 1..n : g[k] = Turn(g[k-1])
  <2>1. \A k \in 1..n : \A s \in S : turn[k][s] = Turn(s)
    OBVIOUS
  <2> HIDE DEF turn, S
  <2>2. ASSUME NEW k \in 1..n PROVE g[k] = Turn(g[k-1])
    <3>1. g[k-1] \in S /\ g[k] = turn[k][g[k-1]]
      BY <1>5 DEF Run
    <3> QED BY <2>1, <3>1
  <2> QED BY <1>5, <2>2 DEF Run
<1>7. g = [k \in 0..n |-> IF k = 0 THEN start ELSE Turn(g[k-1])]
  <2> HIDE DEF S
  <2> QED BY <1>6
<1>8. f = [k \in 0..n |-> IF k = 0 THEN start ELSE Turn(f[k-1])]
  BY <1>7
<1> HIDE DEF f
<1>9. Left(f[n], n)
  <2> DEFINE T == {k \in 0..n : Left(f[k], k)}
  <2>1. 0 \in T
    <3> HIDE DEF Left
    <3> QED BY <1>2, <1>8
  <2>2. ASSUME NEW k \in 0..n-1, k \in T PROVE k + 1 \in T
    <3>1. k + 1 \in 0..n /\ f[k+1] = Turn(f[k])
      BY <1>8
    <3> HIDE DEF Left
    <3> QED BY <1>4, <2>2, <3>1
  <2> HIDE DEF T
  <2>3. \A k \in 0..n : k \in T
    BY <2>1, <2>2, UpTo
  <2> HIDE DEF Left
  <2> QED BY <2>3 DEF T
<1>10. f[n].begin \in Nat /\ f[n].end \in Nat /\ f[n].begin > f[n].end
  BY <1>9
<1> QED
  BY <1>1, <1>9, <1>10

---------------------------------------------------------------------------
\* The entries of a sound index are of lemmas, with spellings and signatures.
LEMMA EntryTypes ==
  ASSUME NEW d, BlockSound(d), IndexSound(d)
  PROVE  /\ \E n \in Nat : n = Len(d.offsets) /\ n <= MaxLemmas /\ Indexes(d) = 1..n
         /\ \A i \in Indexes(d) :
              /\ LemmaOf(d, i) \in Lemmas
              /\ SpellOf(d, i) \in Seq(DOMAIN Initial) /\ NcharOf(d, i) = Len(SpellOf(d, i))
              /\ SigAt(d, i) \in Seq(Nat)
<1>1. PICK n \in Nat : n = Len(d.offsets) /\ n <= MaxLemmas
  BY IndexLen
<1>2. ASSUME NEW i \in Indexes(d)
      PROVE  /\ LemmaOf(d, i) \in Lemmas
             /\ SpellOf(d, i) \in Seq(DOMAIN Initial) /\ NcharOf(d, i) = Len(SpellOf(d, i))
             /\ SigAt(d, i) \in Seq(Nat)
  <2>1. d.offsets[i].pos \in DOMAIN d.lemmas
    BY ZenonT(60) DEF IndexSound
  <2>2. d.lemmas \in [DOMAIN d.lemmas -> Lemmas]
    BY DEF BlockSound
  <2>3. LemmaOf(d, i) \in Lemmas
    BY <2>1, <2>2 DEF LemmaOf
  <2>4. SpellOf(d, i) \in Seq(DOMAIN Initial)
    BY <2>3, SpellingsAssumption, Zenon DEF SpellOf
  <2> QED BY <2>3, <2>4, LettersOf, Zenon DEF NcharOf, SigAt
<1> QED
  BY <1>1, <1>2 DEF Indexes

\* The search that fills a range begins at the first entry with the letters of the query, if there
\* is one, although it stops at any entry they begin.
LEMMA FirstFound ==
  ASSUME NEW d, BlockSound(d), IndexSound(d), Sorted(d), NEW q, q.sig \in Seq(Nat),
         NEW i \in Indexes(d), SigAt(d, i) = q.sig,
         NEW first, first = LocateFirstInOffsets(d, q)
  PROVE  first \in 1..i /\ \A j \in first..i : SigAt(d, j) = q.sig
<1> DEFINE below == {j \in Indexes(d) : FuzzyCompare(SpellOf(d, j), NcharOf(d, j), q) < 0}
           hits == {j \in Indexes(d) : IsFuzzyPrefix(SpellOf(d, j), q)}
           T == {j \in Indexes(d) : ~SigLess(SigAt(d, j), q.sig)}
<1>1. PICK n \in Nat : n = Len(d.offsets) /\ Indexes(d) = 1..n
  BY EntryTypes
<1>2. \A j \in Indexes(d) : SigAt(d, j) \in Seq(Nat)
  BY EntryTypes
<1>3. first = Bisect(n, below, hits)
  BY <1>1, Zenon DEF LocateFirstInOffsets
<1>4. ASSUME NEW j \in Indexes(d)
      PROVE  /\ j \in below <=> SigLess(SigAt(d, j), q.sig)
             /\ j \in hits => ~SigLess(SigAt(d, j), q.sig)
             /\ SigAt(d, j) = q.sig => j \in hits
  <2>1. SpellOf(d, j) \in Seq(DOMAIN Initial) /\ NcharOf(d, j) = Len(SpellOf(d, j))
    BY EntryTypes
  <2> QED BY <2>1, CompareLetters, PrefixLetters, Zenon DEF SigAt
<1> HIDE DEF below, hits
<1>5. \A j, k \in Indexes(d) : j < k => ~SigLess(SigAt(d, k), SigAt(d, j))
  BY DEF Sorted
<1>6. PICK b \in T : \A j \in T : b <= j
  <2>1. T \in SUBSET Nat
    BY <1>1
  <2>2. i \in T
    BY SigTotal
  <2> HIDE DEF T
  <2> QED BY <2>1, <2>2, LeastNat
<1>7. b \in 1..n /\ b \in Indexes(d) /\ ~SigLess(SigAt(d, b), q.sig)
  BY <1>1
<1>8. b <= i
  BY SigTotal, <1>6
<1>9. ASSUME NEW j \in b..i PROVE j \in Indexes(d) /\ SigAt(d, j) = q.sig
  <2>1. j \in Indexes(d)
    BY <1>1, <1>7
  <2>2. ~SigLess(SigAt(d, j), q.sig)
    <3>1. j = b \/ b < j
      BY <1>7
    <3>2. CASE j = b
      BY <1>7, <3>2
    <3>3. CASE b < j
      <4>1. ~SigLess(SigAt(d, j), SigAt(d, b))
        BY <1>5, <1>7, <2>1, <3>3, Zenon
      <4> QED BY <1>2, <1>7, <2>1, <4>1, SigTransitive, Zenon
    <3> QED BY <3>1, <3>2, <3>3
  <2>3. ~SigLess(q.sig, SigAt(d, j))
    <3>1. j = i \/ j < i
      BY <1>1
    <3>2. CASE j = i
      BY <3>2, SigTotal
    <3>3. CASE j < i
      BY <1>5, <2>1, <3>3, Zenon
    <3> QED BY <3>1, <3>2, <3>3
  <2> QED BY <1>2, <2>1, <2>2, <2>3, SigTotal, Zenon
<1>10. b \in b..i
  BY <1>1, <1>7, <1>8
<1>11. b \in hits
  BY <1>4, <1>9, <1>10
<1>12. ASSUME NEW j \in 1..n PROVE (j \in below <=> j < b) /\ (j < b => j \notin hits)
  <2>1. j \in Indexes(d)
    BY <1>1
  <2>2. CASE j < b
    <3>1. ~(b <= j)
      BY <1>7, <2>2
    <3>2. SigLess(SigAt(d, j), q.sig)
      BY <1>6, <2>1, <3>1
    <3> QED BY <1>4, <2>1, <2>2, <3>2
  <2>3. CASE ~(j < b)
    <3>1. j = b \/ b < j
      BY <1>7, <2>3
    <3>2. ~SigLess(SigAt(d, j), q.sig)
      <4>1. CASE j = b
        BY <1>7, <4>1
      <4>2. CASE b < j
        <5>1. ~SigLess(SigAt(d, j), SigAt(d, b))
          BY <1>5, <1>7, <2>1, <4>2, Zenon
        <5> QED BY <1>2, <1>7, <2>1, <5>1, SigTransitive, Zenon
      <4> QED BY <3>1, <4>1, <4>2
    <3> QED BY <1>4, <2>1, <2>3, <3>2
  <2> QED BY <2>2, <2>3
<1>13. first = b
  <2> HIDE DEF T
  <2> QED BY <1>3, <1>7, <1>11, <1>12, BisectFindsFirst
<1> QED
  BY <1>1, <1>7, <1>8, <1>9, <1>13

\* What a lookup returns is the value of an entry with the signature.
LEMMA LookedUp ==
  ASSUME NEW s, NEW m \in Nat, m = Len(s), NEW sig, NEW val \in Lookup(s, sig)
  PROVE  \E k \in 1..m : s[k].sig = sig /\ s[k].val = val
<1> DEFINE at == {i \in 1..m : s[i].sig = sig}
<1>1. FirstOf(s, sig) # 0 /\ val = s[FirstOf(s, sig)].val
  BY DEF Lookup
<1>2. at # {} /\ FirstOf(s, sig) = Min(at)
  BY <1>1 DEF FirstOf
<1>3. Min(at) \in at
  <2>1. at \in SUBSET Nat
    OBVIOUS
  <2> HIDE DEF at
  <2> QED BY <1>2, <2>1, MinNat
<1> QED
  BY <1>1, <1>2, <1>3

\* A range looked up in a cache that tells the truth covers the entries with the signature, and no
\* entry has a signature that is looked up as missing.
LEMMA CachesTell ==
  ASSUME NEW d, IndexSound(d), CachesSound(d), CachesTrue(d), NEW n \in 1..kMaxLemmaSize, NEW sig
  PROVE  /\ \A range \in Lookup(d.cache[n], sig) : Covers(d, sig, range) /\ LongIn(d, sig, range)
         /\ Lookup(d.miss[n], sig) # {} => \A i \in Indexes(d) : SigAt(d, i) # sig
<1>1. ASSUME NEW range \in Lookup(d.cache[n], sig)
      PROVE  Covers(d, sig, range) /\ LongIn(d, sig, range)
  <2> DEFINE V == [sig : {q.sig : q \in Queries}, val : [start : Nat \ {0}, count : Nat]]
  <2>1. PICK m \in Nat : m = Len(d.cache[n])
    <3>1. d.cache[n] \in Seq(V)
      BY DEF CachesSound
    <3> HIDE DEF V
    <3>2. Len(d.cache[n]) \in Nat
      BY <3>1
    <3> QED BY <3>2, Zenon
  <2> HIDE DEF V
  <2>2. PICK k \in 1..m : d.cache[n][k].sig = sig /\ d.cache[n][k].val = range
    BY <2>1, LookedUp
  <2>3. k \in 1..Len(d.cache[n])
    BY <2>1
  <2>4. /\ Covers(d, d.cache[n][k].sig, d.cache[n][k].val)
        /\ LongIn(d, d.cache[n][k].sig, d.cache[n][k].val)
    BY <2>3, Zenon DEF CachesTrue
  <2> QED BY <2>2, <2>4
<1>2. ASSUME Lookup(d.miss[n], sig) # {} PROVE \A i \in Indexes(d) : SigAt(d, i) # sig
  <2>1. PICK m \in Nat : m = Len(d.miss[n])
    <3>1. d.miss[n] \in Misses
      BY DEF CachesTrue
    <3> QED BY <3>1 DEF Misses
  <2>2. PICK val : val \in Lookup(d.miss[n], sig)
    BY <1>2
  <2>3. PICK k \in 1..m : d.miss[n][k].sig = sig
    BY <2>1, <2>2, LookedUp
  <2>4. k \in 1..Len(d.miss[n])
    BY <2>1
  <2>5. \A i \in Indexes(d) : SigAt(d, i) # d.miss[n][k].sig
    BY <2>4, Zenon DEF CachesTrue
  <2> QED BY <2>3, <2>5
<1> QED
  BY <1>1, <1>2

\* A search that fills a range begins at an entry the letters of the query begin, and no entry
\* from there on is shorter than the query.
LEMMA StartsLong ==
  ASSUME NEW d, BlockSound(d), IndexSound(d), Sorted(d), NEW q, q.sig \in Seq(Nat),
         NEW first, first = LocateFirstInOffsets(d, q), first # 0,
         NEW i \in Indexes(d), first <= i
  PROVE  Len(q.sig) <= Len(SigAt(d, i))
<1> DEFINE below == {j \in Indexes(d) : FuzzyCompare(SpellOf(d, j), NcharOf(d, j), q) < 0}
           hits == {j \in Indexes(d) : IsFuzzyPrefix(SpellOf(d, j), q)}
<1>1. PICK n \in Nat : n = Len(d.offsets) /\ Indexes(d) = 1..n
  BY EntryTypes
<1>2. first = Bisect(n, below, hits)
  BY <1>1, Zenon DEF LocateFirstInOffsets
<1>3. first \in 0..n /\ first \in hits
  <2> HIDE DEF below, hits
  <2> QED BY <1>2, BisectType
<1>4. first \in Indexes(d) /\ IsFuzzyPrefix(SpellOf(d, first), q)
  BY <1>3
<1>5. /\ SpellOf(d, first) \in Seq(DOMAIN Initial)
      /\ SigAt(d, first) \in Seq(Nat) /\ SigAt(d, i) \in Seq(Nat)
  BY <1>4, EntryTypes
<1>6. Len(SigAt(d, first)) = Len(SpellOf(d, first))
  BY <1>5, LettersOf, Zenon DEF SigAt
<1>7. Len(q.sig) <= Len(SigAt(d, first))
  BY <1>4, <1>6 DEF IsFuzzyPrefix
<1>8. Len(SigAt(d, first)) <= Len(SigAt(d, i))
  <2>1. CASE i = first
    BY <1>5, <2>1
  <2>2. CASE i # first
    <3>1. first < i
      BY <1>1, <1>3, <2>2
    <3>2. ~SigLess(SigAt(d, i), SigAt(d, first))
      BY <1>4, <3>1, Zenon DEF Sorted
    <3> QED BY <1>5, <3>2 DEF SigLess
  <2> QED BY <2>1, <2>2
<1> QED
  BY <1>5, <1>7, <1>8

\* The range a search looks through covers the entries with the letters of the query, there is
\* one if there are such entries, and it has no shorter ones.
LEMMA RangeCovers ==
  ASSUME NEW d, BlockSound(d), IndexSound(d), CachesSound(d), Sorted(d), CachesTrue(d),
         NEW q, q.sig \in Seq(Nat), NEW n \in 1..kMaxLemmaSize
  PROVE  /\ Covers(d, q.sig, RangeOf(d, n, q))
         /\ \A i \in Indexes(d) : SigAt(d, i) = q.sig => RangeOf(d, n, q).start # 0
         /\ RangeOf(d, n, q).start # 0 => LongIn(d, q.sig, RangeOf(d, n, q))
<1> DEFINE cached == Lookup(d.cache[n], q.sig)
           range == RangeOf(d, n, q)
           first == LocateFirstInOffsets(d, q)
<1>1. CASE cached # {}
  <2>1. range = CHOOSE r \in cached : TRUE
    BY <1>1 DEF RangeOf
  <2>2. range \in cached
    <3> HIDE DEF cached, range
    <3> QED BY <1>1, <2>1
  <2>3. Covers(d, q.sig, range) /\ LongIn(d, q.sig, range)
    BY <2>2, CachesTell, Zenon
  <2>4. range.start # 0
    BY <2>2, CachedRange
  <2> QED BY <2>3, <2>4
<1>2. CASE cached = {}
  <2>1. PICK m \in Nat : m = Len(d.offsets) /\ Indexes(d) = 1..m
    BY EntryTypes
  <2>2. range.start = first /\ range.count = m + 1 - first
    BY <1>2, <2>1 DEF RangeOf
  <2> HIDE DEF range, first
  <2>3. ASSUME NEW i \in Indexes(d), SigAt(d, i) = q.sig
        PROVE  /\ range.start # 0 /\ range.start <= i /\ i < range.start + range.count
               /\ \A j \in range.start..i : SigAt(d, j) = q.sig
    <3>1. first \in 1..i /\ \A j \in first..i : SigAt(d, j) = q.sig
      BY <2>3, FirstFound DEF first
    <3> QED BY <2>1, <2>2, <3>1
  <2>4. ASSUME range.start # 0, NEW i \in Indexes(d), range.start <= i
        PROVE  Len(q.sig) <= Len(SigAt(d, i))
    BY <2>2, <2>4, StartsLong DEF first
  <2> QED BY <2>3, <2>4 DEF Covers, LongIn, range
<1> QED
  BY <1>1, <1>2

---------------------------------------------------------------------------
\* locate_in_offsets finds an entry of the lemma, if there is one without the removed flag: none of
\* the entries it passes has other letters, so it does not stop before.
LEMMA LocateFinds ==
  ASSUME NEW d, Sound(d), Sorted(d), CachesTrue(d), NEW lemma \in Lemmas,
         NEW i \in Indexes(d), ~d.offsets[i].removed, LemmaOf(d, i) = lemma
  PROVE  LocateInOffsets(d, lemma) # 0
<1> DEFINE n == Len(lemma.spell)
           q == SearchFor(lemma.spell)
           range == RangeOf(d, n, q)
           cached == Lookup(d.cache[n], q.sig)
           live == LiveIn(d, range)
           stops == {j \in live : cached = {} /\ FuzzyCompare(SpellOf(d, j), n, q) # 0}
           found == {j \in live : /\ EqualSpell(SpellOf(d, j), n, q)
                                  /\ SubSeq(LemmaOf(d, j).word, 1, n) = lemma.word
                                  /\ \A s \in stops : j < s}
<1>1. n \in 1..kMaxLemmaSize
  BY InputsAssumption
<1>2. LocateInOffsets(d, lemma) = IF range.start = 0 \/ found = {} THEN 0 ELSE Min(found)
  BY DEF LocateInOffsets, RangeOf
<1>3. BlockSound(d) /\ IndexSound(d) /\ CachesSound(d)
  BY DEF Sound
<1>4. PICK m \in Nat : m = Len(d.offsets) /\ Indexes(d) = 1..m
  BY <1>3, EntryTypes
<1>5. /\ lemma.spell \in Seq(DOMAIN Initial) /\ lemma.word \in Seq(Nat)
      /\ Len(lemma.word) = n
  BY SpellingsAssumption
<1>6. /\ q.sig = Letters(lemma.spell) /\ q.sig \in Seq(Nat) /\ Len(q.sig) = n
      /\ q.match = [k \in 1..n |-> {lemma.spell[k]}]
  BY <1>5, LettersOf, SearchForLetters
<1>7. SigAt(d, i) = q.sig /\ SpellOf(d, i) = lemma.spell
  BY <1>6 DEF SigAt, SpellOf
<1>8. EqualSpell(SpellOf(d, i), n, q)
  <2>1. Len(q.match) = n
    BY <1>1, <1>6
  <2> HIDE DEF q
  <2> QED BY <1>6, <1>7, <2>1 DEF EqualSpell
<1>9. SubSeq(LemmaOf(d, i).word, 1, n) = lemma.word
  BY <1>1, <1>5
<1> HIDE DEF n, q
<1>10. range.start \in Nat /\ range.count \in Nat /\ range.start + range.count <= m + 1
  BY <1>1, <1>3, <1>4, RangeInIndex
<1>11. Covers(d, q.sig, range) /\ range.start # 0
  BY <1>1, <1>3, <1>6, <1>7, RangeCovers
<1>12. /\ range.start <= i /\ i < range.start + range.count
       /\ \A j \in range.start..i : SigAt(d, j) = q.sig
  BY <1>7, <1>11, Zenon DEF Covers
<1> HIDE DEF range
<1>13. i \in live
  BY <1>4, <1>10, <1>12 DEF LiveIn
<1>14. ASSUME NEW j \in stops PROVE i < j
  <2>1. j \in range.start..(range.start + range.count - 1) /\ FuzzyCompare(SpellOf(d, j), n, q) # 0
    BY DEF LiveIn
  <2>2. j \in Indexes(d)
    BY <1>4, <1>10, <1>11, <2>1
  <2>3. SpellOf(d, j) \in Seq(DOMAIN Initial)
    BY <1>3, <2>2, EntryTypes
  <2>4. SigAt(d, j) # q.sig
    BY <1>6, <2>1, <2>3, PrefixLetters, Zenon DEF SigAt
  <2>5. ~(j \in range.start..i)
    BY <1>12, <2>4, Zenon
  <2> QED BY <1>4, <1>10, <2>1, <2>5
<1>15. i \in found
  BY <1>8, <1>9, <1>13, <1>14
<1>16. found \subseteq 1..m
  BY <1>10, <1>11 DEF LiveIn
<1> HIDE DEF found
<1>17. Min(found) \in found
  <2>1. found \in SUBSET Nat
    BY <1>16
  <2> QED BY <1>15, <2>1, MinNat
<1>18. Min(found) # 0
  BY <1>16, <1>17
<1> QED
  BY <1>2, <1>11, <1>15, <1>18

---------------------------------------------------------------------------
\* A lemma the query matches has the letters of the query.
LEMMA MatchLetters ==
  ASSUME NEW spell \in Seq(DOMAIN Initial), NEW q \in Queries, EqualSpell(spell, Len(spell), q)
  PROVE  Letters(spell) = q.sig
<1>1. PICK n \in Nat : n = Len(q.sig) /\ q.sig \in [1..n -> Nat]
  BY SpellingsAssumption, SigFunction
<1>2. Len(q.match) = n /\ \A k \in 1..n : \A id \in q.match[k] : Initial[id] = q.sig[k]
  BY <1>1, SpellingsAssumption
<1>3. Len(spell) = n /\ \A k \in 1..n : spell[k] \in q.match[k]
  BY <1>2 DEF EqualSpell
<1>4. \A k \in 1..n : Initial[spell[k]] = q.sig[k]
  BY <1>2, <1>3
<1>5. Letters(spell) = [k \in 1..n |-> q.sig[k]]
  BY <1>3, <1>4 DEF Letters
<1> QED
  BY <1>1, <1>5

\* The query of an entry of the index, looked up.
Learns(d, q, r) ==
  \/ r = d
  \/ r = PushMiss(d, q) /\ \A i \in Indexes(d) : SigAt(d, i) # q.sig
  \/ \E range : r = PushRange(d, q, range) /\ Covers(d, q.sig, range) /\ LongIn(d, q.sig, range)

\* _get_lpis with room for more lemmas than there are finds the entries that match, and what it
\* puts into the caches is true.
LEMMA LookupFinds ==
  ASSUME NEW d, Sound(d), Sorted(d), CachesTrue(d), NEW q \in Queries,
         NEW lpi_max \in Nat, lpi_max > MaxLemmas, NEW x, x = GetLpis(d, q, lpi_max)
  PROVE  x.found = Matching(d, q) /\ Learns(d, q, x.dict)
<1> DEFINE n == Len(q.sig)
           missed == Lookup(d.miss[n], q.sig) # {}
           cached == Lookup(d.cache[n], q.sig)
           range == RangeOf(d, n, q)
           end == range.start + range.count
           live == LiveIn(d, range)
           hits == {i \in live : EqualSpell(SpellOf(d, i), NcharOf(d, i), q)}
           breaks == {i \in live : \/ ~IsFuzzyPrefix(SpellOf(d, i), q)
                                   \/ cached = {} /\ FuzzyCompare(SpellOf(d, i), NcharOf(d, i), q) # 0
                                   \/ i \in hits /\ Cardinality(hits \cap (range.start..i)) = lpi_max}
           stops == {end} \cup {i + 1 : i \in breaks}
           pushed == [start |-> range.start, count |-> Min(stops) - range.start]
           found == hits \cap (range.start..(Min(stops) - 1))
           need == \E i \in live : i < Min(stops) /\ IsPrefixSpell(SpellOf(d, i), q)
<1>1. x = IF missed THEN [found |-> {}, need |-> FALSE, dict |-> d]
          ELSE IF range.start = 0 THEN [found |-> {}, need |-> FALSE, dict |-> PushMiss(d, q)]
          ELSE [found |-> found, need |-> need,
                dict |-> IF cached # {} THEN d ELSE PushRange(d, q, pushed)]
  BY DEF GetLpis, RangeOf
<1> HIDE DEF need, pushed, found
<1>2. n \in 1..kMaxLemmaSize /\ q.sig \in Seq(Nat)
  BY InputsAssumption, SpellingsAssumption
<1>3. BlockSound(d) /\ IndexSound(d) /\ CachesSound(d)
  BY DEF Sound
<1>4. PICK m \in Nat : m = Len(d.offsets) /\ m <= MaxLemmas /\ Indexes(d) = 1..m
  BY <1>3, EntryTypes
<1>5. range.start \in Nat /\ range.count \in Nat /\ range.start + range.count <= m + 1
  BY <1>2, <1>3, <1>4, RangeInIndex
<1>6. /\ Covers(d, q.sig, range)
      /\ \A i \in Indexes(d) : SigAt(d, i) = q.sig => range.start # 0
      /\ range.start # 0 => LongIn(d, q.sig, range)
  BY <1>2, <1>3, RangeCovers
<1>7. missed => \A i \in Indexes(d) : SigAt(d, i) # q.sig
  BY <1>2, <1>3, CachesTell
<1>8. ASSUME NEW i \in Indexes(d)
      PROVE  /\ EqualSpell(SpellOf(d, i), NcharOf(d, i), q) => SigAt(d, i) = q.sig
             /\ SigAt(d, i) = q.sig => /\ IsFuzzyPrefix(SpellOf(d, i), q)
                                       /\ FuzzyCompare(SpellOf(d, i), NcharOf(d, i), q) = 0
  <2>1. SpellOf(d, i) \in Seq(DOMAIN Initial) /\ NcharOf(d, i) = Len(SpellOf(d, i))
    BY <1>3, EntryTypes
  <2>2. EqualSpell(SpellOf(d, i), NcharOf(d, i), q) => SigAt(d, i) = q.sig
    BY <2>1, MatchLetters, Zenon DEF SigAt
  <2>3. SigAt(d, i) = q.sig => /\ IsFuzzyPrefix(SpellOf(d, i), q)
                               /\ FuzzyCompare(SpellOf(d, i), NcharOf(d, i), q) = 0
    BY <1>2, <2>1, PrefixLetters, CompareLetters, Zenon DEF SigAt
  <2> QED BY <2>2, <2>3
<1>none. ASSUME \A i \in Indexes(d) : SigAt(d, i) # q.sig PROVE Matching(d, q) = {}
  BY <1>8, <1>none, Zenon DEF Matching
<1> HIDE DEF n, missed, cached, range
<1>9. CASE missed
  <2>1. x.found = {} /\ x.dict = d
    BY <1>1, <1>9
  <2> QED BY <1>7, <1>9, <1>none, <2>1 DEF Learns
<1>10. CASE ~missed /\ range.start = 0
  <2>1. x.found = {} /\ x.dict = PushMiss(d, q)
    BY <1>1, <1>10
  <2>2. \A i \in Indexes(d) : SigAt(d, i) # q.sig
    BY <1>6, <1>10, Zenon
  <2> QED BY <1>none, <2>1, <2>2, Zenon DEF Learns
<1>11. CASE ~missed /\ range.start # 0
  <2>1. x.found = found /\ x.dict = IF cached # {} THEN d ELSE PushRange(d, q, pushed)
    BY <1>1, <1>11
  <2>2. live \subseteq 1..m /\ live \subseteq range.start..range.start + range.count - 1
    BY <1>5, <1>11 DEF LiveIn
  <2>3. ASSUME NEW S, S \subseteq 1..m PROVE Cardinality(S) # lpi_max
    <3>1. IsFiniteSet(1..m) /\ Cardinality(1..m) = m
      BY FS_Interval
    <3>2. IsFiniteSet(S) /\ Cardinality(S) <= Cardinality(1..m)
      BY <2>3, <3>1, FS_Subset, Zenon
    <3>3. Cardinality(S) \in Nat
      BY <3>2, FS_CardinalityType, Zenon
    <3>4. MaxLemmas \in Nat
      BY SizesAssumption
    <3> QED BY <1>4, <3>1, <3>2, <3>3, <3>4
  \* no break before an entry with the letters
  <2>4. ASSUME NEW i \in Indexes(d), SigAt(d, i) = q.sig
        PROVE  /\ range.start <= i /\ i < end /\ i \in Nat
               /\ \A j \in range.start..i : SigAt(d, j) = q.sig
               /\ \A j \in breaks : i < j + 1
    <3>1. /\ range.start <= i /\ i < range.start + range.count
          /\ \A j \in range.start..i : SigAt(d, j) = q.sig
      BY <1>6, <2>4, Zenon DEF Covers
    <3>2. ASSUME NEW j \in breaks PROVE i < j + 1
      <4>1. j \in Indexes(d) /\ range.start <= j
        BY <1>4, <1>5, <2>2
      <4>2. CASE SigAt(d, j) # q.sig
        <5>1. ~(j \in range.start..i)
          BY <3>1, <4>2, Zenon
        <5> QED BY <1>4, <1>5, <4>1, <5>1
      <4>3. CASE SigAt(d, j) = q.sig
        <5>1. IsFuzzyPrefix(SpellOf(d, j), q) /\ FuzzyCompare(SpellOf(d, j), NcharOf(d, j), q) = 0
          BY <1>8, <4>1, <4>3, Zenon
        <5>2. hits \cap (range.start..j) \subseteq 1..m
          BY <2>2
        <5>3. Cardinality(hits \cap (range.start..j)) # lpi_max
          BY <2>3, <5>2, Zenon
        <5> HIDE DEF hits
        <5> QED BY <5>1, <5>3
      <4> QED BY <4>2, <4>3
    <3> HIDE DEF breaks
    <3>3. i \in Nat /\ i < end
      BY <1>4, <3>1
    <3> QED BY <3>1, <3>2, <3>3, Zenon
  <2>5. breaks \subseteq live
    OBVIOUS
  <2>6. hits = {i \in live : EqualSpell(SpellOf(d, i), NcharOf(d, i), q)}
    OBVIOUS
  <2> HIDE DEF breaks, hits
  <2>7. Min(stops) \in stops /\ \A y \in stops : Min(stops) <= y
    <3>1. stops \in SUBSET Nat
      BY <1>5, <2>2, <2>5
    <3>2. stops # {}
      OBVIOUS
    <3> HIDE DEF stops
    <3> QED BY <3>1, <3>2, MinNat, Zenon
  <2>8. Min(stops) \in Nat /\ Min(stops) <= end
    BY <1>5, <2>2, <2>5, <2>7
  <2>9. ASSUME NEW i \in Indexes(d), SigAt(d, i) = q.sig PROVE i < Min(stops)
    <3>1. /\ i < end /\ i \in Nat /\ \A j \in breaks : i < j + 1
      BY <2>4, <2>9, Zenon
    <3> QED BY <2>7, <3>1
  <2> HIDE DEF stops
  <2>10. found = Matching(d, q)
    <3>1. ASSUME NEW i \in Matching(d, q) PROVE i \in found
      <4>1. /\ i \in Indexes(d) /\ ~d.offsets[i].removed
            /\ EqualSpell(SpellOf(d, i), NcharOf(d, i), q)
        BY DEF Matching
      <4>2. SigAt(d, i) = q.sig
        BY <1>8, <4>1, Zenon
      <4>3. range.start <= i /\ i < end /\ i \in Nat /\ i < Min(stops)
        BY <2>4, <2>9, <4>1, <4>2, Zenon
      <4>4. i \in live
        BY <1>5, <4>1, <4>3 DEF LiveIn
      <4> QED BY <1>5, <2>6, <2>8, <4>1, <4>3, <4>4 DEF found
    <3>2. ASSUME NEW i \in found PROVE i \in Matching(d, q)
      <4>1. i \in live /\ EqualSpell(SpellOf(d, i), NcharOf(d, i), q)
        BY <2>6 DEF found
      <4>2. i \in Indexes(d) /\ ~d.offsets[i].removed
        BY <1>4, <2>2, <4>1 DEF LiveIn
      <4> QED BY <4>1, <4>2 DEF Matching
    <3> QED BY <3>1, <3>2
  <2>11. Covers(d, q.sig, pushed)
    <3>1. ASSUME NEW i \in Indexes(d), SigAt(d, i) = q.sig
          PROVE  /\ pushed.start <= i /\ i < pushed.start + pushed.count
                 /\ \A j \in pushed.start..i : SigAt(d, j) = q.sig
      <4>1. pushed.start = range.start /\ pushed.start + pushed.count = Min(stops)
        BY <1>5, <2>8 DEF pushed
      <4> QED BY <2>4, <2>9, <3>1, <4>1
    <3> QED BY <3>1 DEF Covers
  <2>12. LongIn(d, q.sig, pushed)
    <3>1. pushed.start = range.start /\ pushed.start + pushed.count = Min(stops)
      BY <1>5, <2>8 DEF pushed
    <3>2. ASSUME NEW i \in Indexes(d), pushed.start <= i, i < pushed.start + pushed.count
          PROVE  range.start <= i /\ i < range.start + range.count
      BY <1>4, <1>5, <2>8, <3>1, <3>2
    <3>3. LongIn(d, q.sig, range)
      BY <1>6, <1>11
    <3> HIDE DEF pushed
    <3> QED BY <3>2, <3>3 DEF LongIn
  <2> QED BY <2>1, <2>10, <2>11, <2>12 DEF Learns
<1> QED
  BY <1>9, <1>10, <1>11

---------------------------------------------------------------------------
\* The index r lists the lemmas d does, some of them removed since.
Alike(d, r) ==
  /\ Indexes(r) = Indexes(d)
  /\ \A i \in Indexes(d) : /\ LemmaOf(r, i) = LemmaOf(d, i)
                           /\ ~r.offsets[i].removed => ~d.offsets[i].removed

\* Such an index has the same signatures, and is as well ordered.
LEMMA AlikeOrdered ==
  ASSUME NEW d, NEW r, Alike(d, r)
  PROVE  /\ \A i \in Indexes(d) : SigAt(r, i) = SigAt(d, i)
         /\ Ordered(d) => Ordered(r)
<1>1. ASSUME NEW i \in Indexes(d) PROVE SigAt(r, i) = SigAt(d, i)
  BY Zenon DEF Alike, SigAt, SpellOf
<1>2. Indexes(r) = Indexes(d)
  BY DEF Alike
<1>3. ASSUME Sorted(d) PROVE Sorted(r)
  BY <1>1, <1>2, <1>3 DEF Sorted
<1>4. ASSUME Single(d) PROVE Single(r)
  BY <1>4, Zenon DEF Single, Alike
<1> QED
  BY <1>1, <1>3, <1>4 DEF Ordered

\* The caches of the one are true of the other.
LEMMA AlikeTrue ==
  ASSUME NEW d, IndexSound(d), CachesSound(d), CachesTrue(d), NEW r, Alike(d, r),
         r.cache = d.cache, r.miss = d.miss
  PROVE  CachesTrue(r)
<1>1. Indexes(r) = Indexes(d) /\ \A i \in Indexes(d) : SigAt(r, i) = SigAt(d, i)
  BY AlikeOrdered DEF Alike
<1>2. PICK m \in Nat : m = Len(d.offsets) /\ Indexes(d) = 1..m
  BY IndexLen DEF Indexes
<1>3. ASSUME NEW n \in 1..kMaxLemmaSize, NEW k \in 1..Len(r.cache[n])
      PROVE  /\ Covers(r, r.cache[n][k].sig, r.cache[n][k].val)
             /\ LongIn(r, r.cache[n][k].sig, r.cache[n][k].val)
  <2> DEFINE range == d.cache[n][k].val
             sig == d.cache[n][k].sig
  <2>1. k \in 1..Len(d.cache[n])
    BY <1>3
  <2>2. Covers(d, sig, range) /\ LongIn(d, sig, range)
    BY <2>1, Zenon DEF CachesTrue
  <2>3. range.start \in Nat \ {0}
    <3> DEFINE W == [sig : {q.sig : q \in Queries}, val : [start : Nat \ {0}, count : Nat]]
    <3>1. d.cache[n] \in Seq(W)
      BY DEF CachesSound
    <3>2. \A e \in W : e.val.start \in Nat \ {0}
      OBVIOUS
    <3> HIDE DEF W
    <3>3. d.cache[n][k] \in W
      BY <2>1, <3>1
    <3> QED BY <3>2, <3>3 DEF range
  <2> HIDE DEF range, sig
  <2>4. ASSUME NEW i \in Indexes(r), SigAt(r, i) = sig
        PROVE  /\ range.start <= i /\ i < range.start + range.count
               /\ \A j \in range.start..i : SigAt(r, j) = sig
    <3>1. i \in Indexes(d) /\ SigAt(d, i) = sig
      BY <1>1, <2>4
    <3>2. /\ range.start <= i /\ i < range.start + range.count
          /\ \A j \in range.start..i : SigAt(d, j) = sig
      BY <2>2, <3>1, Zenon DEF Covers
    <3>3. \A j \in range.start..i : j \in Indexes(d)
      BY <1>2, <2>3, <3>1
    <3> QED BY <1>1, <3>2, <3>3
  <2>5. Covers(r, sig, range)
    BY <2>4 DEF Covers
  <2>6. LongIn(r, sig, range)
    BY <1>1, <2>2 DEF LongIn
  <2> QED BY <2>5, <2>6 DEF sig, range
<1>4. ASSUME NEW n \in 1..kMaxLemmaSize, NEW k \in 1..Len(r.miss[n]), NEW i \in Indexes(r)
      PROVE  SigAt(r, i) # r.miss[n][k].sig
  <2>1. k \in 1..Len(d.miss[n]) /\ i \in Indexes(d)
    BY <1>1, <1>4
  <2>2. SigAt(d, i) # d.miss[n][k].sig
    BY <2>1, Zenon DEF CachesTrue
  <2> QED BY <1>1, <2>1, <2>2
<1>5. r.miss \in [1..kMaxLemmaSize -> Misses]
  BY DEF CachesTrue
<1> QED
  BY <1>3, <1>4, <1>5 DEF CachesTrue

\* Caches that were emptied say nothing.
LEMMA CachesReset ==
  ASSUME NEW r, r.cache = NoCache, r.miss = NoCache
  PROVE  CachesTrue(r)
<1>1. \A n \in 1..kMaxLemmaSize : NoCache[n] = << >> /\ Len(NoCache[n]) = 0
  BY DEF NoCache
<1>2. NoCache \in [1..kMaxLemmaSize -> Misses]
  BY DEF NoCache, Misses
<1>3. \A n \in 1..kMaxLemmaSize : 1..Len(NoCache[n]) = {}
  BY <1>1
<1> QED
  BY <1>2, <1>3, Zenon DEF CachesTrue

\* What a lookup puts into the caches keeps them true.
LEMMA LookupTrue ==
  ASSUME NEW d, Sound(d), Ordered(d), CachesTrue(d), NEW q \in Queries, NEW r, Learns(d, q, r)
  PROVE  Ordered(r) /\ CachesTrue(r)
<1> DEFINE n == Len(q.sig)
<1>1. n \in 1..kMaxLemmaSize
  BY InputsAssumption
<1>2. IndexSound(d) /\ CachesSound(d) /\ Fields \subseteq DOMAIN d
  BY DEF Sound
<1>3. Alike(d, d)
  BY DEF Alike
<1>4. CASE r = d
  BY <1>4
<1>5. CASE r = PushMiss(d, q) /\ \A i \in Indexes(d) : SigAt(d, i) # q.sig
  <2> DEFINE V == [sig : {p.sig : p \in Queries}, val : {[start |-> 0, count |-> 0]}]
             e == [sig |-> q.sig, val |-> [start |-> 0, count |-> 0]]
             s == d.miss[n]
             t == Push(s, e, kUserDictMissCacheSize - 1)
  <2>1. e \in V /\ d.miss \in [1..kMaxLemmaSize -> Seq(V)] /\ s \in Seq(V)
    BY <1>1 DEF CachesTrue, Misses
  <2>2. Pushed(V, s, e, t)
    <3>1. kUserDictMissCacheSize - 1 \in Nat \ {0}
      BY SizesAssumption
    <3> HIDE DEF V, e, s
    <3> QED BY <2>1, <3>1, PushType
  <2>3. r.miss = [d.miss EXCEPT ![n] = t] /\ r.cache = d.cache
    BY <1>2, <1>5 DEF PushMiss, Fields
  <2>4. r.offsets = d.offsets /\ r.lemmas = d.lemmas
    BY <1>2, <1>5 DEF PushMiss, Fields
  <2>5. Alike(d, r)
    BY <2>4 DEF Alike, Indexes, LemmaOf
  <2>6. Indexes(r) = Indexes(d) /\ \A i \in Indexes(d) : SigAt(r, i) = SigAt(d, i)
    BY <2>5, AlikeOrdered DEF Alike
  <2>7. e.sig = q.sig
    OBVIOUS
  <2> HIDE DEF e, t, s
  <2>8. r.miss \in [1..kMaxLemmaSize -> Misses]
    <3>1. t \in Seq(V)
      BY <2>2 DEF Pushed
    <3> QED BY <1>1, <2>1, <2>3, <3>1 DEF Misses
  <2> HIDE DEF V
  <2>9. ASSUME NEW l \in 1..kMaxLemmaSize, NEW k \in 1..Len(r.miss[l]), NEW i \in Indexes(r)
        PROVE  SigAt(r, i) # r.miss[l][k].sig
    <3>1. CASE l = n
      <4>1. r.miss[l] = t
        BY <1>1, <2>1, <2>3, <3>1
      <4>2. r.miss[l][k] = e \/ \E j \in 1..Len(s) : r.miss[l][k] = s[j]
        BY <2>2, <2>9, <4>1 DEF Pushed
      <4>3. CASE r.miss[l][k] = e
        BY <1>5, <2>6, <2>7, <4>3
      <4>4. CASE \E j \in 1..Len(s) : r.miss[l][k] = s[j]
        <5>1. PICK j \in 1..Len(s) : r.miss[l][k] = s[j]
          BY <4>4
        <5>2. SigAt(d, i) # d.miss[n][j].sig
          BY <1>1, <2>6, <5>1, Zenon DEF CachesTrue, s
        <5> QED BY <2>6, <5>1, <5>2 DEF s
      <4> QED BY <4>2, <4>3, <4>4
    <3>2. CASE l # n
      <4>1. r.miss[l] = d.miss[l]
        BY <1>1, <2>1, <2>3, <3>2
      <4>2. SigAt(d, i) # d.miss[l][k].sig
        BY <2>6, <4>1, Zenon DEF CachesTrue
      <4> QED BY <2>6, <4>1, <4>2
    <3> QED BY <3>1, <3>2
  <2>10. ASSUME NEW l \in 1..kMaxLemmaSize, NEW k \in 1..Len(r.cache[l])
         PROVE  /\ Covers(r, r.cache[l][k].sig, r.cache[l][k].val)
                /\ LongIn(r, r.cache[l][k].sig, r.cache[l][k].val)
    <3>1. /\ Covers(d, r.cache[l][k].sig, r.cache[l][k].val)
          /\ LongIn(d, r.cache[l][k].sig, r.cache[l][k].val)
      BY <2>3, Zenon DEF CachesTrue
    <3>2. Covers(r, r.cache[l][k].sig, r.cache[l][k].val)
      BY <2>4, <3>1 DEF Covers, SigAt, SpellOf, LemmaOf, Indexes
    <3>3. LongIn(r, r.cache[l][k].sig, r.cache[l][k].val)
      BY <2>6, <3>1, Zenon DEF LongIn
    <3> QED BY <3>2, <3>3
  <2> QED BY <2>5, <2>8, <2>9, <2>10, AlikeOrdered DEF CachesTrue
<1>6. CASE \E range : /\ r = PushRange(d, q, range)
                      /\ Covers(d, q.sig, range) /\ LongIn(d, q.sig, range)
  <2>1. PICK range : /\ r = PushRange(d, q, range)
                     /\ Covers(d, q.sig, range) /\ LongIn(d, q.sig, range)
    BY <1>6
  <2> DEFINE e == [sig |-> q.sig, val |-> range]
             s == d.cache[n]
             t == Push(s, e, kUserDictCacheSize - 1)
             W == {e} \cup {s[j] : j \in 1..Len(s)}
  <2>2. r.cache = [d.cache EXCEPT ![n] = t] /\ r.miss = d.miss
    BY <1>2, <2>1 DEF PushRange, Fields
  <2>3. r.offsets = d.offsets /\ r.lemmas = d.lemmas
    BY <1>2, <2>1 DEF PushRange, Fields
  <2>4. Alike(d, r)
    BY <2>3 DEF Alike, Indexes, LemmaOf
  <2>5. \A i : SigAt(r, i) = SigAt(d, i)
    BY <2>3 DEF SigAt, SpellOf, LemmaOf
  <2>6. Indexes(r) = Indexes(d)
    BY <2>3 DEF Indexes
  <2>7. e.sig = q.sig /\ e.val = range
    OBVIOUS
  <2>8. \E m \in Nat : s \in [1..m -> W] /\ Len(s) = m
    <3>1. d.cache[n] \in Seq([sig : {p.sig : p \in Queries},
                              val : [start : Nat \ {0}, count : Nat]])
      BY <1>1, <1>2 DEF CachesSound
    <3>2. PICK m \in Nat : m = Len(s) /\ s = [j \in 1..m |-> s[j]]
      BY <3>1
    <3>3. \A j \in 1..m : s[j] \in W
      BY <3>2
    <3> HIDE DEF W, s
    <3> QED BY <3>2, <3>3
  <2>9. Pushed(W, s, e, t)
    <3>1. kUserDictCacheSize - 1 \in Nat \ {0}
      BY SizesAssumption
    <3>2. e \in W
      OBVIOUS
    <3> HIDE DEF W, e, s
    <3>3. s \in Seq(W)
      BY <2>8
    <3> QED BY <3>1, <3>2, <3>3, PushType
  <2> HIDE DEF e, t, s, W
  <2>10. ASSUME NEW l \in 1..kMaxLemmaSize, NEW k \in 1..Len(r.cache[l])
         PROVE  /\ Covers(d, r.cache[l][k].sig, r.cache[l][k].val)
                /\ LongIn(d, r.cache[l][k].sig, r.cache[l][k].val)
    <3>0. DOMAIN d.cache = 1..kMaxLemmaSize
      BY <1>2 DEF CachesSound
    <3>1. CASE l = n
      <4>1. r.cache[l] = t
        BY <1>1, <2>2, <3>0, <3>1
      <4>2. r.cache[l][k] = e \/ \E j \in 1..Len(s) : r.cache[l][k] = s[j]
        BY <2>9, <2>10, <4>1 DEF Pushed
      <4>3. CASE r.cache[l][k] = e
        BY <2>1, <2>7, <4>3
      <4>4. CASE \E j \in 1..Len(s) : r.cache[l][k] = s[j]
        <5>1. PICK j \in 1..Len(s) : r.cache[l][k] = s[j]
          BY <4>4
        <5>2. /\ Covers(d, d.cache[n][j].sig, d.cache[n][j].val)
              /\ LongIn(d, d.cache[n][j].sig, d.cache[n][j].val)
          BY <1>1, <5>1, Zenon DEF CachesTrue, s
        <5> QED BY <5>1, <5>2 DEF s
      <4> QED BY <4>2, <4>3, <4>4
    <3>2. CASE l # n
      <4>1. r.cache[l] = d.cache[l]
        BY <1>1, <2>2, <3>0, <3>2
      <4> QED BY <4>1, Zenon DEF CachesTrue
    <3> QED BY <3>1, <3>2
  <2>11. ASSUME NEW l \in 1..kMaxLemmaSize, NEW k \in 1..Len(r.cache[l])
         PROVE  /\ Covers(r, r.cache[l][k].sig, r.cache[l][k].val)
                /\ LongIn(r, r.cache[l][k].sig, r.cache[l][k].val)
    <3> DEFINE c == r.cache[l][k].sig
               v == r.cache[l][k].val
    <3>1. Covers(d, c, v) /\ LongIn(d, c, v)
      BY <2>10
    <3> HIDE DEF c, v
    <3>2. Covers(r, c, v)
      BY <2>5, <2>6, <3>1 DEF Covers
    <3>3. LongIn(r, c, v)
      BY <2>5, <2>6, <3>1 DEF LongIn
    <3> QED BY <3>2, <3>3 DEF c, v
  <2>12. r.miss \in [1..kMaxLemmaSize -> Misses]
    BY <2>2 DEF CachesTrue
  <2>13. ASSUME NEW l \in 1..kMaxLemmaSize, NEW k \in 1..Len(r.miss[l]), NEW i \in Indexes(r)
         PROVE  SigAt(r, i) # r.miss[l][k].sig
    <3>1. SigAt(d, i) # d.miss[l][k].sig
      BY <2>2, <2>6, <2>13, Zenon DEF CachesTrue
    <3> QED BY <2>2, <2>5, <3>1
  <2> QED BY <2>4, <2>11, <2>12, <2>13, AlikeOrdered DEF CachesTrue
<1> QED
  BY <1>4, <1>5, <1>6 DEF Learns

---------------------------------------------------------------------------
\* An image with the index and the block of another lists the same lemmas.
LEMMA SameIndex ==
  ASSUME NEW d, NEW r, r.offsets = d.offsets, r.lemmas = d.lemmas
  PROVE  Alike(d, r)
BY DEF Alike, Indexes, LemmaOf

\* An index that lists the same lemmas as another that lists those of a third.
LEMMA AlikeTransitive ==
  ASSUME NEW d, NEW e, NEW r, Alike(d, e), Alike(e, r)
  PROVE  Alike(d, r)
BY Zenon DEF Alike

\* An image that lists the same lemmas and has the same caches can be searched as well.
LEMMA AlikeSearchable ==
  ASSUME NEW d, Sound(d), Searchable(d), NEW r, Alike(d, r), r.cache = d.cache, r.miss = d.miss
  PROVE  Searchable(r)
<1>1. IndexSound(d) /\ CachesSound(d) /\ Ordered(d) /\ CachesTrue(d)
  BY DEF Sound, Searchable
<1> QED
  BY <1>1, AlikeOrdered, AlikeTrue DEF Searchable

\* A change that keeps index, block and caches.
LEMMA FrameSearchable ==
  ASSUME NEW d, Sound(d), Searchable(d), NEW r,
         Keeps(d, r, {"syncs", "syncs_null", "state", "limit"})
  PROVE  Searchable(r)
<1>1. r.offsets = d.offsets /\ r.lemmas = d.lemmas /\ r.cache = d.cache /\ r.miss = d.miss
  BY DEF Keeps, Fields
<1> QED
  BY <1>1, SameIndex, AlikeSearchable

\* A new score changes no lemma of the index.
LEMMA ScoreSearchable ==
  ASSUME NEW d, Sound(d), Searchable(d), NEW i \in Indexes(d), NEW score \in Scores, NEW r,
         r = Rescored(d, i, score)
  PROVE  Searchable(r)
<1>1. /\ r.lemmas = d.lemmas /\ r.cache = d.cache /\ r.miss = d.miss
      /\ r.offsets = [d.offsets EXCEPT ![i] = [@ EXCEPT !.score = score]]
  <2>1. Keeps(d, r, {"state", "offsets"})
    BY ScoreFields
  <2>2. r.offsets = [d.offsets EXCEPT ![i] = [@ EXCEPT !.score = score]]
    BY ScoreFields
  <2> QED BY <2>1, <2>2 DEF Keeps, Fields
<1>2. PICK n \in Nat : n = Len(d.offsets) /\ Indexes(d) = 1..n /\ d.offsets \in [1..n -> IndexRecords(n)]
  <2>1. IndexSound(d)
    BY DEF Sound
  <2>2. PICK n \in Nat : n = Len(d.offsets)
    BY <2>1, IndexLen
  <2> QED BY <2>1, <2>2 DEF IndexSound, Indexes, IndexRecords
<1>3. /\ Len(r.offsets) = n
      /\ \A j \in 1..n : /\ r.offsets[j].pos = d.offsets[j].pos
                         /\ r.offsets[j].removed = d.offsets[j].removed
  BY <1>1, <1>2 DEF IndexRecords
<1>4. Alike(d, r)
  BY <1>1, <1>2, <1>3 DEF Alike, Indexes, LemmaOf
<1> QED
  BY <1>1, <1>4, AlikeSearchable

\* Removing an entry changes its flag only.
LEMMA RemoveAlike ==
  ASSUME NEW d, Sound(d), NEW i \in Indexes(d), NEW r, r = RemoveLemmaByOffsetIndex(d, i)
  PROVE  Alike(d, r) /\ r.cache = d.cache /\ r.miss = d.miss
<1>1. /\ r.lemmas = d.lemmas /\ r.cache = d.cache /\ r.miss = d.miss
      /\ r.offsets = Marked(d.offsets, i)
  <2>1. /\ Keeps(d, r, {"state", "offsets", "predicts", "syncs", "free_count", "free_size"})
        /\ r.offsets = Marked(d.offsets, i)
    BY RemoveFields
  <2> QED BY <2>1 DEF Keeps, Fields
<1>2. PICK n \in Nat : n = Len(d.offsets) /\ Indexes(d) = 1..n /\ d.offsets \in [1..n -> IndexRecords(n)]
  <2>1. IndexSound(d)
    BY DEF Sound
  <2>2. PICK n \in Nat : n = Len(d.offsets)
    BY <2>1, IndexLen
  <2> QED BY <2>1, <2>2 DEF IndexSound, Indexes, IndexRecords
<1>3. /\ r.offsets \in [1..n -> IndexRecords(n)]
      /\ \A k \in 1..n : k # i => r.offsets[k] = d.offsets[k]
      /\ r.offsets[i] = [pos |-> d.offsets[i].pos, removed |-> TRUE,
                         score |-> d.offsets[i].score, id |-> d.offsets[i].id]
  BY <1>1, <1>2, MarkedEntries
<1>4. Len(r.offsets) = n
  BY <1>1, <1>2 DEF Marked
<1>5. \A k \in 1..n : /\ r.offsets[k].pos = d.offsets[k].pos
                      /\ ~r.offsets[k].removed => ~d.offsets[k].removed
  BY <1>3
<1>6. Alike(d, r)
  BY <1>1, <1>2, <1>4, <1>5 DEF Alike, Indexes, LemmaOf
<1> QED
  BY <1>1, <1>6

\* What is loaded of a file an image was written to lists the lemmas of the image.
LEMMA LoadAlike ==
  ASSUME NEW d, Storable(d), NEW r, r = Load(FileOf(d))
  PROVE  Alike(d, r) /\ r.cache = NoCache /\ r.miss = NoCache
<1> DEFINE f == FileOf(d)
<1>1. FileSound(f) /\ Len(r.offsets) = Len(d.offsets)
  BY StoredFile
<1>2. PICK n \in Nat : /\ f.offsets \in [1..n -> FlagRecords] /\ f.scores \in [1..n -> Scores]
                       /\ Len(f.offsets) = n
  <2> HIDE DEF f
  <2> QED BY <1>1, FileParts
<1>3. Loaded(f, n, r)
  <2> HIDE DEF f
  <2>1. r = Load(f)
    BY DEF f
  <2> QED BY <1>2, <2>1, LoadFields
<1>4. f.lemmas = d.lemmas /\ f.offsets = FlagsOf(d)
  BY DEF FileOf
<1>5. r.cache = NoCache /\ r.miss = NoCache
  BY DEF Load
<1>6. /\ r.lemmas = f.lemmas /\ Len(r.offsets) = n /\ Indexes(r) = 1..n
      /\ \A i \in 1..n : /\ r.offsets[i].pos = f.offsets[i].pos
                         /\ r.offsets[i].removed = f.offsets[i].removed
  <2> HIDE DEF f
  <2> QED BY <1>3 DEF Loaded
<1> HIDE DEF f
<1>7. Indexes(d) = 1..n
  BY <1>1, <1>6 DEF Indexes
<1>8. \A i \in 1..n : /\ r.offsets[i].pos = d.offsets[i].pos
                      /\ r.offsets[i].removed = d.offsets[i].removed
  BY <1>4, <1>6, <1>7 DEF FlagsOf, FlagOf
<1>9. Alike(d, r)
  BY <1>4, <1>6, <1>7, <1>8 DEF Alike, LemmaOf
<1> QED
  BY <1>5, <1>9

\* The empty file is ordered.
LEMMA EmptyOrdered ==
  Ordered(Load(EmptyFile)) /\ Indexes(Load(EmptyFile)) = {}
<1>1. Indexes(Load(EmptyFile)) = {}
  BY EmptyFileSound DEF Indexes
<1> QED
  BY <1>1, Zenon DEF Ordered, Sorted, Single

---------------------------------------------------------------------------
\* The index has no entry of a lemma without the removed flag.
Absent(d, lemma) == \A i \in Indexes(d) : ~d.offsets[i].removed => LemmaOf(d, i) # lemma

\* An index that lists the same lemmas has none either.
LEMMA AlikeAbsent ==
  ASSUME NEW d, NEW r, Alike(d, r), NEW lemma, Absent(d, lemma)
  PROVE  Absent(r, lemma)
BY Zenon DEF Alike, Absent

\* A file validated twice is as validated once.
LEMMA ValidatedOnce ==
  ASSUME NEW f, OrderedFile(f)
  PROVE  OrderedFile(Validated(f))
BY Zenon DEF OrderedFile, Validated

\* close_dict and flush_cache leave a file whose next load is ordered.
LEMMA WriteOrdered ==
  ASSUME NEW d, Storable(d), Ordered(d), NEW f, FileSound(f), Saved(d, f), OrderedFile(f),
         NEW w, w = WriteBack(d, f)
  PROVE  /\ OrderedFile(w)
         /\ \A lemma : Absent(d, lemma) /\ d.state # USER_DICT_SYNC => Absent(Load(Validated(w)), lemma)
<1>1. CASE d.state = USER_DICT_SYNC
  <2>1. w = f
    BY <1>1, WriteBackCases
  <2> QED BY <1>1, <2>1
<1>2. CASE w = NoFile
  <2>1. Validated(w) = EmptyFile
    BY <1>2 DEF Validated
  <2>2. \A lemma : Absent(Load(EmptyFile), lemma)
    BY EmptyOrdered DEF Absent
  <2> QED BY <2>1, <2>2, EmptyOrdered DEF OrderedFile
<1>3. CASE w = FileOf(d) /\ w # NoFile
  <2>1. Validated(w) = FileOf(d)
    BY <1>3 DEF Validated
  <2>2. Alike(d, Load(FileOf(d)))
    BY LoadAlike
  <2>3. Ordered(Load(FileOf(d)))
    BY <2>2, AlikeOrdered
  <2>4. \A lemma : Absent(d, lemma) => Absent(Load(FileOf(d)), lemma)
    BY <2>2, AlikeAbsent
  <2> QED BY <2>1, <2>3, <2>4 DEF OrderedFile
<1>4. d.state # USER_DICT_SYNC => w = NoFile \/ w = FileOf(d)
  BY WriteBackCases
<1> QED
  BY <1>1, <1>2, <1>3, <1>4

\* What flush_cache loads can be searched.
LEMMA FlushSearchable ==
  ASSUME NEW d, Storable(d), Ordered(d), NEW f, FileSound(f), Saved(d, f), OrderedFile(f),
         NEW r, r = FlushCache(d, f)
  PROVE  /\ Searchable(r.dict) /\ OrderedFile(r.file)
         /\ \A lemma : Absent(d, lemma) /\ d.state # USER_DICT_SYNC => Absent(r.dict, lemma)
<1> DEFINE w == WriteBack(d, f)
<1>1. r.file = Validated(w) /\ r.dict = Load(Validated(w))
  BY DEF FlushCache
<1>2. /\ OrderedFile(w)
      /\ \A lemma : Absent(d, lemma) /\ d.state # USER_DICT_SYNC => Absent(Load(Validated(w)), lemma)
  BY WriteOrdered
<1> HIDE DEF w
<1>3. r.dict.cache = NoCache /\ r.dict.miss = NoCache
  BY <1>1 DEF Load
<1>4. CachesTrue(r.dict)
  BY <1>3, CachesReset
<1>5. OrderedFile(r.file)
  BY <1>1, <1>2, ValidatedOnce
<1> QED
  BY <1>1, <1>2, <1>4, <1>5 DEF Searchable, OrderedFile

---------------------------------------------------------------------------
\* reclaim only removes.
LEMMA ReclaimAlike ==
  ASSUME NEW d, Sound(d), NEW r, r = Reclaim(d)
  PROVE  Sound(r) /\ Alike(d, r)
<1>1. PICK n \in Nat : n = Len(d.offsets)
  BY IndexLen DEF Sound
<1>2. PICK rc, s, g : Reclaims(d, n, rc, s, g) /\ r = g[rc]
  BY <1>1, ReclaimSteps
<1>3. /\ rc \in Nat /\ rc \in 0..n /\ s \in [1..rc -> 1..n]
      /\ g[0] = d /\ \A k \in 0..rc-1 : g[k+1] = RemoveLemmaByOffsetIndex(g[k], s[k+1])
  BY <1>2 DEF Reclaims
<1> DEFINE T == {k \in 0..rc : Sound(g[k]) /\ Alike(d, g[k])}
<1>4. 0 \in T
  <2>1. Alike(d, d)
    BY SameIndex
  <2> QED BY <1>3, <2>1
<1>5. ASSUME NEW k \in 0..rc-1, k \in T PROVE k + 1 \in T
  <2> DEFINE x == g[k]
             i == s[k+1]
             y == g[k+1]
  <2>1. Sound(x) /\ Alike(d, x)
    BY <1>5
  <2>2. k + 1 \in 1..rc /\ k + 1 \in 0..rc
    BY <1>3
  <2>3. i \in 1..n
    BY <1>3, <2>2
  <2>4. y = RemoveLemmaByOffsetIndex(x, i)
    BY <1>3
  <2> HIDE DEF x, y, i
  <2>5. i \in Indexes(x)
    BY <1>1, <2>1, <2>3 DEF Alike, Indexes
  <2>6. Sound(y)
    BY <2>1, <2>4, <2>5, RemoveSound
  <2>7. Alike(x, y)
    BY <2>1, <2>4, <2>5, RemoveAlike
  <2>8. Alike(d, y)
    BY <2>1, <2>7, AlikeTransitive
  <2> QED BY <2>2, <2>6, <2>8 DEF y
<1> HIDE DEF T
<1>6. \A k \in 0..rc : k \in T
  BY <1>3, <1>4, <1>5, UpTo
<1>7. rc \in T
  BY <1>3, <1>6
<1> QED
  BY <1>2, <1>7 DEF T

\* defragment keeps the entries without the removed flag in their order, with their lemmas.
LEMMA DefragmentOrdered ==
  ASSUME NEW d, Sound(d), Ordered(d), NEW r, r = Defragment(d)
  PROVE  Ordered(r) /\ \A lemma : Absent(d, lemma) => Absent(r, lemma)
<1>1. CASE RemovedPositions(d) = {}
  <2>1. r = d
    BY <1>1 DEF Defragment
  <2> QED BY <2>1
<1>2. CASE RemovedPositions(d) # {}
  <2>1. PICK n \in Nat : n = Len(d.offsets) /\ Indexes(d) = 1..n
    BY IndexLen DEF Sound, Indexes
  <2>2. PICK m, at : DefragmentLists(d, n, m, at, r)
    BY <1>2, <2>1, DefragmentLeaves, Zenon
  <2>3. /\ m \in 0..n /\ at \in [1..m -> 1..n]
        /\ \A k, l \in 1..m : k < l => at[k] < at[l]
        /\ \A k, l \in 1..m : at[k] = at[l] => k = l
        /\ \A k \in 1..m : d.offsets[at[k]].pos \in Kept(d) /\ d.offsets[at[k]].removed = FALSE
    BY <2>2 DEF DefragmentLists, IndexSqueezed, Survivors
  <2>4. r.offsets = [k \in 1..m |-> [pos |-> Closed(d, d.offsets[at[k]].pos), removed |-> FALSE,
                                     score |-> d.offsets[at[k]].score, id |-> k]]
    BY <2>2, Zenon DEF DefragmentLists, IndexSqueezed
  <2>5. \A p \in Kept(d) : r.lemmas[Closed(d, p)] = d.lemmas[p]
    BY <2>2 DEF DefragmentLists, BlockSqueezed
  <2>6. Indexes(r) = 1..m
    BY <2>3, <2>4 DEF Indexes
  <2>7. ASSUME NEW k \in 1..m
        PROVE  /\ at[k] \in Indexes(d) /\ ~d.offsets[at[k]].removed
               /\ LemmaOf(r, k) = LemmaOf(d, at[k]) /\ SigAt(r, k) = SigAt(d, at[k])
    <3>1. at[k] \in Indexes(d) /\ ~d.offsets[at[k]].removed
      BY <2>1, <2>3
    <3>2. r.offsets[k].pos = Closed(d, d.offsets[at[k]].pos)
      BY <2>4
    <3>3. LemmaOf(r, k) = LemmaOf(d, at[k])
      BY <2>3, <2>5, <3>2 DEF LemmaOf
    <3> QED BY <3>1, <3>3 DEF SigAt, SpellOf
  <2>8. Sorted(r)
    <3>1. ASSUME NEW k \in 1..m, NEW l \in 1..m, k < l PROVE ~SigLess(SigAt(r, l), SigAt(r, k))
      <4>1. at[k] < at[l]
        BY <2>3, <3>1
      <4>2. ~SigLess(SigAt(d, at[l]), SigAt(d, at[k]))
        BY <2>7, <4>1, Zenon DEF Ordered, Sorted
      <4> QED BY <2>7, <4>2
    <3> QED BY <2>6, <3>1 DEF Sorted
  <2>9. Single(r)
    <3>1. ASSUME NEW k \in 1..m, NEW l \in 1..m, LemmaOf(r, k) = LemmaOf(r, l) PROVE k = l
      <4>1. LemmaOf(d, at[k]) = LemmaOf(d, at[l])
        BY <2>7, <3>1
      <4>2. at[k] = at[l]
        BY <2>7, <4>1, Zenon DEF Ordered, Single
      <4> QED BY <2>3, <4>2
    <3> QED BY <2>6, <3>1 DEF Single
  <2>10. ASSUME NEW lemma, Absent(d, lemma) PROVE Absent(r, lemma)
    <3>1. ASSUME NEW k \in 1..m PROVE LemmaOf(r, k) # lemma
      <4>1. LemmaOf(d, at[k]) # lemma
        BY <2>7, <2>10, Zenon DEF Absent
      <4> QED BY <2>7, <4>1
    <3> QED BY <2>6, <3>1 DEF Absent
  <2> QED BY <2>8, <2>9, <2>10 DEF Ordered
<1> QED
  BY <1>1, <1>2

---------------------------------------------------------------------------
\* The entries before the place of a lemma are below it, and the one at the place is not.
LEMMA PlaceOrdered ==
  ASSUME NEW d, Sound(d), NEW n \in Nat, n = Len(d.offsets), NEW lemma \in Lemmas,
         NEW at, at = InsertPlace(d, lemma)
  PROVE  /\ at \in 1..n + 1
         /\ \A i \in 1..at - 1 : SigLess(SigAt(d, i), Letters(lemma.spell))
         /\ at <= n => ~SigLess(SigAt(d, at), Letters(lemma.spell))
<1> DEFINE q == SearchFor(lemma.spell)
           notBelow == {i \in 1..n : FuzzyCompare(SpellOf(d, i), NcharOf(d, i), q) >= 0}
           S == notBelow \cup {n + 1}
<1>1. BlockSound(d) /\ IndexSound(d) /\ Indexes(d) = 1..n
  BY DEF Sound, Indexes
<1>2. q.sig = Letters(lemma.spell) /\ q.sig \in Seq(Nat)
  <2>1. lemma.spell \in Seq(DOMAIN Initial)
    BY SpellingsAssumption
  <2>2. SearchFor(lemma.spell).sig = Letters(lemma.spell)
    BY <2>1, SearchForLetters, Zenon
  <2>3. Letters(lemma.spell) \in Seq(Nat)
    BY <2>1, LettersOf, Zenon
  <2> QED BY <2>2, <2>3
<1>3. at = Min(S)
  BY DEF InsertPlace
<1>4. S \in SUBSET Nat /\ S # {} /\ S \subseteq 1..n + 1
  OBVIOUS
<1>5. Min(S) \in S /\ \A x \in S : Min(S) <= x
  <2> HIDE DEF S
  <2> QED BY <1>4, MinNat
<1>6. ASSUME NEW i \in 1..n PROVE i \in notBelow <=> ~SigLess(SigAt(d, i), q.sig)
  <2>1. SpellOf(d, i) \in Seq(DOMAIN Initial) /\ NcharOf(d, i) = Len(SpellOf(d, i))
    BY <1>1, EntryTypes
  <2> DEFINE c == FuzzyCompare(SpellOf(d, i), NcharOf(d, i), q)
  <2>2. c \in {-1, 0, 1} /\ (c < 0 <=> SigLess(SigAt(d, i), q.sig))
    BY <1>2, <2>1, CompareLetters, Zenon DEF SigAt
  <2>3. i \in notBelow <=> c >= 0
    OBVIOUS
  <2> HIDE DEF c, notBelow
  <2>4. c >= 0 <=> ~(c < 0)
    BY <2>2
  <2> QED BY <2>2, <2>3, <2>4
<1> HIDE DEF notBelow, q
<1>7. ASSUME NEW i \in 1..at - 1 PROVE SigLess(SigAt(d, i), q.sig)
  <2>1. at \in 1..n + 1 /\ \A x \in notBelow : at <= x
    BY <1>3, <1>4, <1>5
  <2>2. i \in 1..n /\ ~(at <= i)
    BY <2>1
  <2> QED BY <1>6, <2>1, <2>2
<1>8. ASSUME at <= n PROVE ~SigLess(SigAt(d, at), q.sig)
  <2>1. at \in 1..n /\ at \in notBelow
    BY <1>3, <1>4, <1>5, <1>8
  <2> QED BY <1>6, <2>1
<1> QED
  BY <1>2, <1>3, <1>4, <1>5, <1>7, <1>8

\* append_a_lemma keeps the index ordered, if the lemma was not there, and empties the caches.
LEMMA AppendSearchable ==
  ASSUME NEW d, Sound(d), Ordered(d), NEW lemma \in Lemmas, Absent(d, lemma),
         NEW score \in Scores, NEW r, r = AppendALemma(d, lemma, score)
  PROVE  Searchable(r)
<1> DEFINE e == NewEntry(d, score)
           sig == Letters(lemma.spell)
<1>1. BlockSound(d) /\ IndexSound(d)
  BY DEF Sound
<1>2. PICK n \in Nat : n = Len(d.offsets) /\ Indexes(d) = 1..n
  BY <1>1, EntryTypes
<1>3. PICK at : /\ at \in 1..n + 1 /\ at = InsertPlace(d, lemma)
                /\ r.offsets = InsertAt(d.offsets, at, e)
                /\ r.lemmas = WithBlock(d.lemmas, d.lemma_size, lemma)
                /\ r.lemma_size = d.lemma_size + LemmaBytes(Len(lemma.spell))
                /\ r.cache = NoCache /\ r.miss = NoCache
  <2>1. \A i \in Nat : i = Len(d.offsets) => 1..Len(d.offsets) + 1 = 1..i + 1
    OBVIOUS
  <2> QED BY <1>2, <2>1, AppendFields
<1>4. /\ d.lemma_size \in Nat /\ d.lemma_size \notin DOMAIN d.lemmas /\ BlockGrown(d, r)
  BY <1>1, <1>3, AppendedBlock
<1>5. /\ r.lemmas[d.lemma_size] = lemma
      /\ \A p \in DOMAIN d.lemmas : r.lemmas[p] = d.lemmas[p]
  <2>1. r.lemmas[d.lemma_size] = lemma
    BY <1>3 DEF WithBlock
  <2> QED BY <1>4, <2>1 DEF BlockGrown
<1>6. /\ \A i \in 1..n : SigAt(d, i) \in Seq(Nat) /\ d.offsets[i].pos \in DOMAIN d.lemmas
      /\ sig \in Seq(Nat)
  <2>1. \A i \in 1..n : SigAt(d, i) \in Seq(Nat)
    BY <1>1, <1>2, EntryTypes
  <2>2. \A i \in 1..n : d.offsets[i].pos \in DOMAIN d.lemmas
    BY <1>1, <1>2, Zenon DEF IndexSound
  <2>3. sig \in Seq(Nat)
    BY SpellingsAssumption, LettersOf
  <2> QED BY <2>1, <2>2, <2>3
<1>7. /\ \A i \in 1..at - 1 : SigLess(SigAt(d, i), sig)
      /\ at <= n => ~SigLess(SigAt(d, at), sig)
  BY <1>2, <1>3, PlaceOrdered
<1>8. r.offsets = Inserted(d.offsets, n, at, e)
  <2> DEFINE V == {d.offsets[i] : i \in 1..n} \cup {e}
  <2>1. d.offsets \in [1..n -> V] /\ e \in V
    <3>1. d.offsets \in [1..n -> IndexRecords(n)]
      BY <1>1, <1>2 DEF IndexSound, IndexRecords
    <3> QED BY <3>1
  <2> HIDE DEF V, e
  <2>2. n \in Nat /\ at \in 1..n + 1
    BY <1>2, <1>3
  <2>3. /\ InsertAt(d.offsets, at, e) = Inserted(d.offsets, n, at, e)
        /\ Inserted(d.offsets, n, at, e) \in [1..n + 1 -> V]
    BY <2>1, <2>2, InsertAtSpec
  <2> QED BY <1>3, <2>3
<1>9. Indexes(r) = 1..n + 1
  BY <1>8 DEF Inserted, Indexes
\* the entry k of the new index was the entry Back(k), or is the new one
<1> DEFINE Back(k) == IF k < at THEN k ELSE k - 1
<1>10. ASSUME NEW k \in 1..n + 1, k # at
       PROVE  /\ Back(k) \in 1..n /\ r.offsets[k] = d.offsets[Back(k)]
              /\ LemmaOf(r, k) = LemmaOf(d, Back(k)) /\ SigAt(r, k) = SigAt(d, Back(k))
  <2>1. Back(k) \in 1..n
    BY <1>3, <1>10
  <2>2. r.offsets[k] = d.offsets[Back(k)]
    BY <1>3, <1>8, <1>10 DEF Inserted
  <2> HIDE DEF Back
  <2>3. LemmaOf(r, k) = LemmaOf(d, Back(k))
    BY <1>5, <1>6, <2>1, <2>2 DEF LemmaOf
  <2> QED BY <2>1, <2>2, <2>3 DEF SigAt, SpellOf
<1>11. LemmaOf(r, at) = lemma /\ SigAt(r, at) = sig
  <2>1. r.offsets[at] = e
    BY <1>3, <1>8 DEF Inserted
  <2>2. e.pos = d.lemma_size
    BY DEF NewEntry
  <2>3. LemmaOf(r, at) = lemma
    BY <1>5, <2>1, <2>2 DEF LemmaOf
  <2> QED BY <2>3 DEF SigAt, SpellOf
<1>back. ASSUME NEW k \in 1..n + 1, NEW l \in 1..n + 1
         PROVE  /\ k # at /\ l # at /\ k < l => Back(k) < Back(l)
                /\ k # at /\ l # at /\ Back(k) = Back(l) => k = l
                /\ k < at => Back(k) = k
                /\ k > at => Back(k) >= at /\ at <= n
  BY <1>3
<1> HIDE DEF Back, e, sig
<1>12. Sorted(r)
  <2>1. ASSUME NEW k \in 1..n + 1, NEW l \in 1..n + 1, k < l
        PROVE  ~SigLess(SigAt(r, l), SigAt(r, k))
    <3>1. CASE k # at /\ l # at
      <4>1. Back(k) \in Indexes(d) /\ Back(l) \in Indexes(d) /\ Back(k) < Back(l)
        BY <1>2, <1>10, <1>back, <2>1, <3>1
      <4>2. ~SigLess(SigAt(d, Back(l)), SigAt(d, Back(k)))
        BY <4>1, Zenon DEF Ordered, Sorted
      <4> QED BY <1>10, <3>1, <4>2
    <3>2. CASE l = at
      <4>1. k \in 1..at - 1 /\ k # at /\ k < at /\ k \in 1..n
        BY <1>3, <2>1, <3>2
      <4>2. SigAt(r, k) = SigAt(d, k)
        BY <1>10, <1>back, <4>1
      <4>3. SigLess(SigAt(d, k), sig)
        BY <1>7, <4>1
      <4>4. ~SigLess(sig, SigAt(d, k))
        BY <1>6, <4>1, <4>3, SigTotal
      <4> QED BY <1>11, <3>2, <4>2, <4>4
    <3>3. CASE k = at
      <4> DEFINE m == Back(l)
      <4>1. l # at /\ l > at
        BY <1>3, <2>1, <3>3
      <4>2. m \in 1..n /\ SigAt(r, l) = SigAt(d, m)
        BY <1>10, <4>1
      <4>3. m >= at /\ at <= n
        BY <1>back, <4>1
      <4> HIDE DEF m
      <4>4. at \in 1..n /\ ~SigLess(SigAt(d, at), sig)
        BY <1>3, <1>7, <4>3
      <4>5. ~SigLess(SigAt(d, m), sig)
        <5>1. CASE m = at
          BY <4>4, <5>1
        <5>2. CASE m # at
          <6>1. at < m
            BY <1>3, <4>2, <4>3, <5>2
          <6>2. ~SigLess(SigAt(d, m), SigAt(d, at))
            BY <1>2, <4>2, <4>4, <6>1, Zenon DEF Ordered, Sorted
          <6> QED BY <1>6, <4>2, <4>4, <6>2, SigTransitive, Zenon
        <5> QED BY <5>1, <5>2
      <4> QED BY <1>11, <3>3, <4>2, <4>5
    <3> QED BY <3>1, <3>2, <3>3
  <2> QED BY <1>9, <2>1 DEF Sorted
<1>13. Single(r)
  <2>1. ASSUME NEW k \in 1..n + 1, k # at, ~r.offsets[k].removed PROVE LemmaOf(r, k) # lemma
    <3>1. Back(k) \in Indexes(d) /\ ~d.offsets[Back(k)].removed
      BY <1>2, <1>10, <2>1
    <3>2. LemmaOf(d, Back(k)) # lemma
      BY <3>1, Zenon DEF Absent
    <3> QED BY <1>10, <2>1, <3>2
  <2>2. ASSUME NEW k \in 1..n + 1, NEW l \in 1..n + 1, ~r.offsets[k].removed,
               ~r.offsets[l].removed, LemmaOf(r, k) = LemmaOf(r, l)
        PROVE  k = l
    <3>1. CASE k = at \/ l = at
      BY <1>11, <2>1, <2>2, <3>1
    <3>2. CASE k # at /\ l # at
      <4>1. /\ Back(k) \in Indexes(d) /\ ~d.offsets[Back(k)].removed
            /\ Back(l) \in Indexes(d) /\ ~d.offsets[Back(l)].removed
            /\ LemmaOf(d, Back(k)) = LemmaOf(d, Back(l))
        BY <1>2, <1>10, <2>2, <3>2
      <4>2. Back(k) = Back(l)
        BY <4>1, Zenon DEF Ordered, Single
      <4> QED BY <1>back, <3>2, <4>2
    <3> QED BY <3>1, <3>2
  <2> QED BY <1>9, <2>2 DEF Single
<1>14. CachesTrue(r)
  BY <1>3, CachesReset
<1> QED
  BY <1>12, <1>13, <1>14 DEF Searchable, Ordered

---------------------------------------------------------------------------
\* Image and file of a put can be searched, now and after a load.
SearchableOver(x) == Searchable(x.dict) /\ OrderedFile(x.file)

\* A put that misses a lemma is right: the index has no entry of it.
LEMMA MissedIsAbsent ==
  ASSUME NEW d, Sound(d), Searchable(d), NEW lemma \in Lemmas, LocateInOffsets(d, lemma) = 0
  PROVE  Absent(d, lemma)
BY LocateFinds DEF Absent, Searchable, Ordered

\* The flush that makes room for a lemma keeps the index ordered and brings no lemma back.
LEMMA RoomSearchable ==
  ASSUME NEW d, Sound(d), Accounted(d), Searchable(d), NEW f, FileSound(f), Saved(d, f),
         OrderedFile(f), NEW lemma \in Lemmas, Absent(d, lemma),
         NEW r, r = (IF Full(d, lemma) THEN FlushCache(d, f) ELSE [dict |-> d, file |-> f])
  PROVE  SearchableOver(r) /\ Absent(r.dict, lemma)
<1>1. CASE ~Full(d, lemma)
  BY <1>1 DEF SearchableOver
<1>2. CASE Full(d, lemma)
  <2>1. f.lemma_size \in Nat
    BY LoadSound
  <2>2. d.state # USER_DICT_SYNC
    BY <1>2, <2>1, FullIsDirty
  <2>3. Storable(d) /\ Ordered(d) /\ r = FlushCache(d, f)
    BY <1>2 DEF Storable, Sound, Searchable
  <2> QED BY <2>2, <2>3, FlushSearchable DEF SearchableOver
<1> QED
  BY <1>1, <1>2

\* A lemma queued for synchronization leaves index and caches alone.
LEMMA QueueSearchable ==
  ASSUME NEW d, Sound(d), Searchable(d), NEW id, NEW r, r = QueueLemmaForSync(d, id)
  PROVE  Searchable(r)
<1>1. Fields \subseteq DOMAIN d
  BY DEF Sound
<1>2. Keeps(d, r, {"syncs", "syncs_null", "state", "limit"})
  BY <1>1 DEF QueueLemmaForSync, Keeps, Fields
<1> QED
  BY <1>2, FrameSearchable

\* _put_lemma keeps the index ordered and its lemmas single: it adds only what is not there.
LEMMA PutSearchable ==
  ASSUME NEW d, Sound(d), Accounted(d), Searchable(d),
         NEW f, FileSound(f), Saved(d, f), OrderedFile(f),
         NEW lemma \in Lemmas, NEW score \in Scores,
         Len(d.offsets) < MaxLemmas, d.syncs_null \in BOOLEAN,
         d.syncs_null = FALSE => Len(d.syncs) < MaxSyncs,
         NEW r, r = PutLemma_(d, f, lemma, score)
  PROVE  SearchableOver(r)
<1> DEFINE i == LocateInOffsets(d, lemma)
           room == IF Full(d, lemma) THEN FlushCache(d, f) ELSE [dict |-> d, file |-> f]
           added == AppendALemma(room.dict, lemma, score)
           queued == QueueLemmaForSync(added, Len(added.by_id))
           old == Rescored(d, i, score)
           grown == IF added.syncs_null THEN added ELSE queued
<1>1. r = IF i # 0 THEN [dict |-> old, file |-> f, ok |-> TRUE]
          ELSE IF OverLimit(d, lemma) THEN [dict |-> d, file |-> f, ok |-> FALSE]
          ELSE [dict |-> grown, file |-> room.file, ok |-> TRUE]
  BY DEF PutLemma_, Rescored
<1>2. i = 0 \/ (i \in Indexes(d) /\ d.offsets[i].removed = FALSE)
  BY LocateSpec
<1>3. HasRoom(room, lemma)
  BY RoomSound
<1>4. i = 0 => SearchableOver(room) /\ Absent(room.dict, lemma)
  <2>1. ASSUME i = 0 PROVE Absent(d, lemma)
    BY <2>1, MissedIsAbsent
  <2> QED BY <2>1, RoomSearchable
<1> HIDE DEF i, room, added, queued, old, grown
<1>5. CASE i # 0
  <2>1. i \in Indexes(d) /\ old = Rescored(d, i, score)
    BY <1>2, <1>5 DEF old
  <2>2. Searchable(old)
    BY <2>1, ScoreSearchable
  <2> QED BY <1>1, <1>5, <2>2 DEF SearchableOver
<1>6. CASE i = 0 /\ OverLimit(d, lemma)
  BY <1>1, <1>6 DEF SearchableOver
<1>7. CASE i = 0 /\ ~OverLimit(d, lemma)
  <2>1. r.dict = grown /\ r.file = room.file
    BY <1>1, <1>7
  <2>2. Searchable(room.dict) /\ OrderedFile(room.file) /\ Absent(room.dict, lemma)
    BY <1>4, <1>7 DEF SearchableOver
  <2>3. /\ Sound(room.dict) /\ Accounted(room.dict) /\ FileSound(room.file)
        /\ Saved(room.dict, room.file) /\ Len(room.dict.offsets) < MaxLemmas
        /\ room.dict.count_left > 0 /\ LemmaBytes(Len(lemma.spell)) <= room.dict.size_left
    BY <1>3 DEF HasRoom
  <2>4. room.file.lemma_size \in Nat
    BY <2>3, LoadSound
  <2>5. Sound(added)
    BY <2>3, <2>4, AppendSound DEF added
  <2>6. Ordered(room.dict)
    BY <2>2 DEF Searchable
  <2>7. Searchable(added)
    BY <2>2, <2>3, <2>6, AppendSearchable DEF added
  <2>8. Searchable(queued)
    BY <2>5, <2>7, QueueSearchable DEF queued
  <2> QED BY <2>1, <2>2, <2>7, <2>8 DEF SearchableOver, grown
<1> QED
  BY <1>5, <1>6, <1>7

\* One pass of put_lemma_no_sync does as well: hiding the sync list hides no lemma.
LEMMA PutWithoutSyncsSearchable ==
  ASSUME NEW d, Sound(d), Accounted(d), Searchable(d),
         NEW f, FileSound(f), Saved(d, f), OrderedFile(f),
         NEW lemma \in Lemmas, NEW score \in Scores, Len(d.offsets) < MaxLemmas,
         NEW r, r = PutWithoutSyncs(d, f, lemma, score)
  PROVE  SearchableOver(r)
<1> DEFINE hidden == [d EXCEPT !.syncs_null = TRUE]
           p == PutLemma_(hidden, f, lemma, score)
           back == RestoreSyncs(p.dict, d.syncs)
<1>1. r = [p EXCEPT !.dict = RestoreSyncs(@, d.syncs)]
  BY DEF PutWithoutSyncs
<1>2. Fields \subseteq DOMAIN d /\ CountersSound(d) /\ CachesSound(d)
  BY DEF Sound
<1>3. Keeps(d, hidden, {"syncs_null"}) /\ hidden.syncs_null = TRUE
  BY <1>2 DEF Keeps, Fields
<1> HIDE DEF hidden
<1>4. Sound(hidden) /\ Accounted(hidden) /\ Saved(hidden, f)
  BY <1>3, HiddenSound
<1>5. Searchable(hidden)
  <2>1. Keeps(d, hidden, {"syncs", "syncs_null", "state", "limit"})
    BY <1>3 DEF Keeps
  <2> QED BY <2>1, FrameSearchable
<1>6. /\ Len(hidden.offsets) < MaxLemmas /\ hidden.syncs_null \in BOOLEAN
      /\ (hidden.syncs_null = FALSE => Len(hidden.syncs) < MaxSyncs)
  BY <1>3 DEF Keeps, Fields
<1>7. Put(hidden, f, p)
  BY <1>4, <1>6, PutSound
<1>8. SearchableOver(p)
  BY <1>4, <1>5, <1>6, PutSearchable
<1> HIDE DEF p
<1>9. p = [dict |-> p.dict, file |-> p.file, ok |-> p.ok] /\ Sound(p.dict)
  BY <1>7 DEF Put
<1>10. r.dict = back /\ r.file = p.file
  BY <1>1, <1>9
<1>11. Keeps(p.dict, back, {"syncs", "syncs_null", "state", "limit"})
  <2>1. Fields \subseteq DOMAIN p.dict
    BY <1>9 DEF Sound
  <2> QED BY <2>1 DEF RestoreSyncs, Keeps, Fields
<1> HIDE DEF back
<1>12. Searchable(back)
  BY <1>8, <1>9, <1>11, FrameSearchable DEF SearchableOver
<1> QED
  BY <1>8, <1>10, <1>12 DEF SearchableOver

\* put_lemma_no_sync as well: reclaim, defragment and flush neither disorder the index nor
\* bring a lemma back.
LEMMA PutLemmaNoSyncSearchable ==
  ASSUME NEW d, Sound(d), Accounted(d), Searchable(d),
         NEW f, FileSound(f), Saved(d, f), OrderedFile(f), d.syncs_null = FALSE,
         NEW lemma \in Lemmas, NEW score \in Scores, Len(d.offsets) < MaxLemmas,
         NEW r \in PutLemmaNoSync(d, f, lemma, score)
  PROVE  SearchableOver(r)
<1> DEFINE first == PutWithoutSyncs(d, f, lemma, score)
           reclaimed == Reclaim(first.dict)
           closed == Defragment(reclaimed)
           room == FlushCache(closed, first.file)
           second == PutWithoutSyncs(room.dict, room.file, lemma, score)
<1>1. r = first \/ (~first.ok /\ r = second)
  BY DEF PutLemmaNoSync
<1>2. PutHidden(d, first) /\ SearchableOver(first)
  BY PutWithoutSyncsSound, PutWithoutSyncsSearchable
<1> HIDE DEF first
<1>3. /\ Sound(first.dict) /\ Accounted(first.dict) /\ FileSound(first.file)
      /\ Saved(first.dict, first.file)
      /\ ~first.ok => Len(first.dict.offsets) = Len(d.offsets)
      /\ Ordered(first.dict) /\ OrderedFile(first.file)
  BY <1>2 DEF PutHidden, SearchableOver, Searchable
<1>4. ASSUME ~first.ok PROVE SearchableOver(second)
  <2>1. RoomAgain(closed, first.file, room)
    BY <1>3, <1>4, RoomAgainSound
  <2>2. Sound(reclaimed) /\ Alike(first.dict, reclaimed)
    BY <1>3, ReclaimAlike
  <2>3. Ordered(reclaimed)
    BY <1>3, <2>2, AlikeOrdered
  <2>4. Ordered(closed)
    BY <2>2, <2>3, DefragmentOrdered
  <2>5. Storable(closed) /\ Saved(closed, first.file)
    BY <2>1 DEF RoomAgain
  <2> HIDE DEF closed
  <2>6. SearchableOver(room)
    BY <1>3, <2>4, <2>5, FlushSearchable DEF SearchableOver
  <2> HIDE DEF room
  <2> QED BY <2>1, <2>6, PutWithoutSyncsSearchable DEF RoomAgain, SearchableOver
<1> HIDE DEF second, room
<1> QED
  BY <1>1, <1>2, <1>4

---------------------------------------------------------------------------
\* What the invariant says while the dictionary is open, and what suffices for it.
LEMMA OpenSearch ==
  /\ SearchInv /\ role # "none" => Image(dict, file) /\ Searchable(dict) /\ OrderedFile(file)
  /\ UserDictInv' /\ Searchable(dict') /\ OrderedFile(file') => SearchInv'
<1>1. ASSUME SearchInv, role # "none"
      PROVE  Image(dict, file) /\ Searchable(dict) /\ OrderedFile(file)
  BY <1>1, OpenImage DEF SearchInv, Opened
<1>2. ASSUME UserDictInv', Searchable(dict'), OrderedFile(file') PROVE SearchInv'
  BY <1>2 DEF SearchInv, OrderedFile, Searchable, Ordered, Sorted, Single, CachesTrue, Covers,
              SigAt, SpellOf, LemmaOf, Indexes
<1> QED
  BY <1>1, <1>2

\* Opening: the caches are empty, and a limit hides nothing.
LEMMA OpenSearches ==
  ASSUME SearchInv, NEW r \in {"ime", "sync"}, Open(r)
  PROVE  SearchInv'
<1> DEFINE x == Load(file')
<1>1. UserDictInv' /\ FileSound(Validated(file)) /\ OrderedFile(file)
  BY OpenKeeps DEF SearchInv, UserDictInv
<1>2. /\ file' = Validated(file) /\ x = Load(Validated(file))
      /\ dict' = IF r = "sync" THEN SetLimit(x, SyncLimit) ELSE x
  BY DEF Open
<1>3. Sound(x)
  BY <1>1, <1>2, LoadSound
<1>4. OrderedFile(file')
  BY <1>1, <1>2, ValidatedOnce
<1>5. Searchable(x)
  <2>1. x.cache = NoCache /\ x.miss = NoCache
    BY DEF Load
  <2>2. Ordered(x)
    BY <1>1, <1>2 DEF OrderedFile
  <2> HIDE DEF x
  <2> QED BY <2>1, <2>2, CachesReset DEF Searchable
<1> HIDE DEF x
<1>6. Searchable(SetLimit(x, SyncLimit))
  <2>1. Keeps(x, SetLimit(x, SyncLimit), {"syncs", "syncs_null", "state", "limit"})
    BY <1>3 DEF Sound, SetLimit, Keeps, Fields
  <2> QED BY <1>3, <1>5, <2>1, FrameSearchable
<1>7. Searchable(dict')
  BY <1>2, <1>5, <1>6
<1> QED
  BY <1>1, <1>4, <1>7, OpenSearch

\* Closing, or the end of the process: the next load finds an ordered index.
LEMMA CloseSearches ==
  ASSUME SearchInv, Close \/ Crash
  PROVE  SearchInv'
<1>1. UserDictInv'
  BY CloseKeeps, CrashKeeps DEF SearchInv
<1>2. role # "none" /\ role' = "none"
  BY DEF Close, Crash
<1>3. Image(dict, file) /\ Searchable(dict) /\ OrderedFile(file)
  BY <1>2, OpenSearch
<1>4. file' = file \/ file' = WriteBack(dict, file)
  BY DEF Close, Crash
<1>5. Storable(dict) /\ FileSound(file) /\ Saved(dict, file) /\ Ordered(dict)
  BY <1>3 DEF Image, Storable, Sound, Searchable
<1>6. OrderedFile(file')
  BY <1>3, <1>4, <1>5, WriteOrdered
<1> QED
  BY <1>1, <1>2, <1>6 DEF SearchInv, Opened, OrderedFile, Ordered, Sorted, Single, SigAt, SpellOf,
                         LemmaOf, Indexes

\* A flush.
LEMMA FlushSearches ==
  ASSUME SearchInv, Flush
  PROVE  SearchInv'
<1>1. UserDictInv'
  BY FlushKeeps DEF SearchInv
<1>2. Image(dict, file) /\ Searchable(dict) /\ OrderedFile(file)
  BY OpenSearch DEF Flush
<1>3. Storable(dict) /\ FileSound(file) /\ Saved(dict, file) /\ Ordered(dict)
  BY <1>2 DEF Image, Storable, Sound, Searchable
<1> DEFINE r == FlushCache(dict, file)
<1>4. dict' = r.dict /\ file' = r.file
  BY DEF Flush
<1>5. Searchable(r.dict) /\ OrderedFile(r.file)
  BY <1>2, <1>3, FlushSearchable
<1> QED
  BY <1>1, <1>4, <1>5, OpenSearch

\* A put of the decoder.
LEMMA PutLemmaSearches ==
  ASSUME SearchInv, NEW lemma \in Lemmas, NEW lmt \in Times, PutLemma(lemma, lmt)
  PROVE  SearchInv'
<1> DEFINE score == [lmt |-> lmt, freq |-> 1]
           r == PutLemma_(dict, file, lemma, score)
<1>1. UserDictInv'
  BY PutLemmaKeeps DEF SearchInv
<1>2. Image(dict, file) /\ Searchable(dict) /\ OrderedFile(file)
  BY OpenSearch DEF PutLemma
<1>3. score \in Scores /\ Len(dict.offsets) < MaxLemmas /\ Len(dict.syncs) < MaxSyncs
  BY DEF Scores, PutLemma
<1>4. dict' = r.dict /\ file' = r.file
  BY DEF PutLemma
<1> HIDE DEF score
<1>5. SearchableOver(r)
  BY <1>2, <1>3, PutSearchable DEF Image
<1> QED
  BY <1>1, <1>4, <1>5, OpenSearch DEF SearchableOver

\* A lemma that synchronization merges.
LEMMA SyncPutSearches ==
  ASSUME SearchInv, NEW lemma \in Lemmas, NEW freq \in Counts, NEW lmt \in Times,
         SyncPut(lemma, freq, lmt)
  PROVE  SearchInv'
<1> DEFINE score == [lmt |-> lmt, freq |-> freq]
<1>1. UserDictInv'
  BY SyncPutKeeps DEF SearchInv
<1>2. Image(dict, file) /\ Searchable(dict) /\ OrderedFile(file)
  BY OpenSearch DEF SyncPut
<1>3. score \in Scores /\ Len(dict.offsets) < MaxLemmas
  BY InputsAssumption DEF Scores, SyncPut
<1>4. PICK r \in PutLemmaNoSync(dict, file, lemma, score) : dict' = r.dict /\ file' = r.file
  BY DEF SyncPut
<1> HIDE DEF score
<1>5. SearchableOver(r)
  BY <1>2, <1>3, <1>4, PutLemmaNoSyncSearchable DEF Image
<1> QED
  BY <1>1, <1>4, <1>5, OpenSearch DEF SearchableOver

\* A lemma is removed.
LEMMA RemoveLemmaSearches ==
  ASSUME SearchInv, NEW id, RemoveLemma(id)
  PROVE  SearchInv'
<1> DEFINE i == LocateInOffsets(dict, dict.lemmas[dict.by_id[id]])
<1>1. UserDictInv'
  BY RemoveLemmaKeeps DEF SearchInv
<1>2. Image(dict, file) /\ Searchable(dict) /\ OrderedFile(file)
  BY OpenSearch DEF RemoveLemma
<1>3. Sound(dict)
  BY <1>2 DEF Image
<1>4. i # 0 /\ dict' = RemoveLemmaByOffsetIndex(dict, i) /\ file' = file
  BY DEF RemoveLemma
<1>5. dict.lemmas[dict.by_id[id]] \in Lemmas
  BY <1>3, LemmaOfId DEF RemoveLemma
<1>6. i \in Indexes(dict)
  BY <1>3, <1>4, <1>5, LocateSpec
<1> HIDE DEF i
<1>7. Alike(dict, dict') /\ dict'.cache = dict.cache /\ dict'.miss = dict.miss
  BY <1>3, <1>4, <1>6, RemoveAlike
<1>8. Searchable(dict')
  BY <1>2, <1>3, <1>7, AlikeSearchable
<1> QED
  BY <1>1, <1>2, <1>4, <1>8, OpenSearch

\* A new score for a lemma the user chose again.
LEMMA UpdateLemmaSearches ==
  ASSUME SearchInv, NEW id, NEW lmt \in Times, UpdateLemma(id, lmt)
  PROVE  SearchInv'
<1> DEFINE i == LocateInOffsets(dict, dict.lemmas[dict.by_id[id]])
           freq == Min({dict.offsets[i].score.freq + 1, kUserDictMaxFrequency})
           score == [lmt |-> lmt, freq |-> freq]
           x == Rescored(dict, i, score)
<1>1. UserDictInv'
  BY UpdateLemmaKeeps DEF SearchInv
<1>2. Image(dict, file) /\ Searchable(dict) /\ OrderedFile(file)
  BY OpenSearch DEF UpdateLemma
<1>3. Sound(dict) /\ Accounted(dict)
  BY <1>2 DEF Image
<1>4. i # 0 /\ dict' = QueueLemmaForSync(x, dict.offsets[i].id) /\ file' = file
  BY DEF UpdateLemma, Rescored
<1>5. dict.lemmas[dict.by_id[id]] \in Lemmas
  BY <1>3, LemmaOfId DEF UpdateLemma
<1>6. i \in Indexes(dict)
  BY <1>3, <1>4, <1>5, LocateSpec
<1> HIDE DEF i
<1>7. score \in Scores
  BY <1>3, <1>6, RaisedScore
<1> HIDE DEF score
<1>8. Sound(x) /\ Searchable(x)
  BY <1>2, <1>3, <1>6, <1>7, ScoreSound, ScoreSearchable
<1> HIDE DEF x
<1>9. Searchable(dict')
  BY <1>4, <1>8, QueueSearchable
<1> QED
  BY <1>1, <1>2, <1>4, <1>9, OpenSearch

\* A lookup puts into the caches what is true.
LEMMA LookupSearches ==
  ASSUME RoomForAll, SearchInv, NEW q \in Queries, NEW lpi_max \in LpiMaxs, Lookup_(q, lpi_max)
  PROVE  SearchInv'
<1> DEFINE x == GetLpis(dict, q, lpi_max)
<1>1. UserDictInv'
  BY LookupKeeps DEF SearchInv
<1>2. Image(dict, file) /\ Searchable(dict) /\ OrderedFile(file)
  BY OpenSearch DEF Lookup_
<1>3. Sound(dict) /\ Ordered(dict) /\ Sorted(dict) /\ CachesTrue(dict)
  BY <1>2 DEF Image, Searchable, Ordered
<1>4. lpi_max \in Nat /\ lpi_max > MaxLemmas
  BY DEF RoomForAll
<1>5. dict' = x.dict /\ file' = file
  BY DEF Lookup_
<1>6. Learns(dict, q, x.dict)
  BY <1>3, <1>4, LookupFinds
<1> HIDE DEF x
<1>7. Searchable(dict')
  BY <1>3, <1>5, <1>6, LookupTrue DEF Searchable
<1> QED
  BY <1>1, <1>2, <1>5, <1>7, OpenSearch

\* Reading and clearing the sync list.
LEMMA SyncSearches ==
  ASSUME SearchInv, (\E room : SyncGet(room)) \/ SyncClear
  PROVE  SearchInv'
<1>1. UserDictInv'
  BY SyncGetKeeps, SyncClearKeeps DEF SearchInv
<1>2. role = "sync" /\ file' = file
  BY DEF SyncGet, SyncClear
<1>3. Image(dict, file) /\ Searchable(dict) /\ OrderedFile(file)
  BY <1>2, OpenSearch
<1>4. Sound(dict) /\ Fields \subseteq DOMAIN dict
  BY <1>3 DEF Image, Sound
<1>5. Keeps(dict, dict', {"syncs", "syncs_null", "state", "limit"})
  <2> DEFINE changed == {"syncs", "syncs_null", "state", "limit"}
             rest == SubSeq(dict.syncs, Min({Cardinality(got), Len(dict.syncs)}) + 1,
                            Len(dict.syncs))
             x == [dict EXCEPT !.syncs = rest]
  <2>1. dict' = dict \/ dict' = Dirty(dict, USER_DICT_SYNC_DIRTY)
          \/ dict' = Dirty(x, USER_DICT_SYNC_DIRTY)
    <3>1. "syncs" \in DOMAIN dict
      BY <1>4 DEF Fields
    <3> QED BY <3>1 DEF SyncGet, SyncClear, ClearSyncLemmas
  <2>2. Keeps(dict, x, {"syncs"})
    <3> HIDE DEF rest
    <3> QED BY <1>4 DEF Keeps, Fields
  <2> HIDE DEF x
  <2>3. Fields \subseteq DOMAIN x
    BY <2>2 DEF Keeps
  <2>4. /\ Keeps(dict, Dirty(dict, USER_DICT_SYNC_DIRTY), {"state"})
        /\ Keeps(x, Dirty(x, USER_DICT_SYNC_DIRTY), {"state"})
    BY <1>4, <2>3, DirtyKeeps
  <2> QED BY <1>4, <2>1, <2>2, <2>4 DEF Keeps, Fields
<1>6. Searchable(dict')
  BY <1>3, <1>4, <1>5, FrameSearchable
<1> QED
  BY <1>1, <1>2, <1>3, <1>6, OpenSearch

---------------------------------------------------------------------------
\* Where every lookup has room for all lemmas, the index is ordered and the caches are true in
\* every state: every action of the input method and of Sync keeps them so.
THEOREM SearchInvariant ==
  ASSUME RoomForAll
  PROVE  Spec => []SearchInv
<1>1. Init => SearchInv
  <2> SUFFICES ASSUME Init PROVE SearchInv
    OBVIOUS
  <2>1. Validated(file) = EmptyFile
    BY DEF Init, Validated
  <2>2. OrderedFile(file)
    BY <2>1, EmptyOrdered DEF OrderedFile
  <2>3. UserDictInv /\ ~Opened
    BY InitKeeps DEF Init, Opened
  <2> QED BY <2>2, <2>3 DEF SearchInv
<1>2. SearchInv /\ [Next]_vars => SearchInv'
  <2> SUFFICES ASSUME SearchInv, [Next]_vars PROVE SearchInv'
    OBVIOUS
  <2>1. ASSUME NEW r \in {"ime", "sync"}, Open(r) PROVE SearchInv'
    BY <2>1, OpenSearches
  <2>2. CASE Close \/ Crash
    BY <2>2, CloseSearches
  <2>3. CASE Flush
    BY <2>3, FlushSearches
  <2>4. CASE SyncClear
    BY <2>4, SyncSearches
  <2>5. ASSUME NEW lemma \in Lemmas, NEW lmt \in Times, PutLemma(lemma, lmt) PROVE SearchInv'
    BY <2>5, PutLemmaSearches
  <2>6. ASSUME NEW lemma \in Lemmas, NEW lmt \in Times, NEW freq \in Counts,
               SyncPut(lemma, freq, lmt)
        PROVE  SearchInv'
    BY <2>6, SyncPutSearches
  <2>7. ASSUME NEW id \in 1..MaxLemmas, RemoveLemma(id) PROVE SearchInv'
    BY <2>7, RemoveLemmaSearches
  <2>8. ASSUME NEW id \in 1..MaxLemmas, NEW lmt \in Times, UpdateLemma(id, lmt) PROVE SearchInv'
    BY <2>8, UpdateLemmaSearches
  <2>9. ASSUME NEW q \in Queries, NEW lpi_max \in LpiMaxs, Lookup_(q, lpi_max) PROVE SearchInv'
    BY <2>9, LookupSearches
  <2>10. ASSUME NEW room \in Rooms, SyncGet(room) PROVE SearchInv'
    BY <2>10, SyncSearches
  <2>11. CASE UNCHANGED vars
    <3>1. dict' = dict /\ file' = file /\ role' = role /\ got' = got
      BY <2>11 DEF vars
    <3> QED BY <3>1 DEF SearchInv, UserDictInv, Opened
  <2> QED
    BY <2>1, <2>2, <2>3, <2>4, <2>5, <2>6, <2>7, <2>8, <2>9, <2>10, <2>11 DEF Next
<1> QED
  BY <1>1, <1>2, PTL DEF Spec

\* A put never misses the entry it should update: no lemma is in the dictionary twice, whatever
\* lookups have left in the caches, if they have room for all lemmas.
THEOREM NoLemmaTwice ==
  ASSUME RoomForAll
  PROVE  Spec => []NoDuplicateLemma
<1>1. Spec => []SearchInv
  BY SearchInvariant
<1>2. SearchInv => NoDuplicateLemma
  BY DEF SearchInv, NoDuplicateLemma, Searchable, Ordered, Single
<1> QED
  BY <1>1, <1>2, PTL

\* A lookup with room for all lemmas finds every lemma the query matches and no other.
THEOREM LookupsComplete ==
  ASSUME RoomForAll
  PROVE  Spec => []LookupsFindAll
<1>1. Spec => []SearchInv
  BY SearchInvariant
<1>2. SearchInv => LookupsFindAll
  <2> SUFFICES ASSUME SearchInv, Opened, NEW q \in Queries
               PROVE  GetLpis(dict, q, MaxLemmas + 1).found = Matching(dict, q)
    BY DEF LookupsFindAll
  <2>1. Sound(dict) /\ Sorted(dict) /\ CachesTrue(dict)
    BY DEF SearchInv, UserDictInv, Searchable, Ordered
  <2>2. MaxLemmas + 1 \in Nat /\ MaxLemmas + 1 > MaxLemmas
    BY SizesAssumption
  <2> QED BY <2>1, <2>2, LookupFinds
<1> QED
  BY <1>1, <1>2, PTL
=============================================================================
