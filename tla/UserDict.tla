------------------------------ MODULE UserDict ------------------------------
(***************************************************************************)
(* One user dictionary over its file, used in turn by the input method and *)
(* by the synchronization client (Sync), the only two programs that open   *)
(* it.  Here they never have it open at once; UserDictShare is about that. *)
(* A write of the file is one step and the next load sees all of it.       *)
(***************************************************************************)
EXTENDS UserDictIndex

CONSTANTS
  Lemmas,        \* lemmas the user can enter
  Queries,       \* queries of the decoder (PrepareLocate applied to ids)
  LpiMaxs,       \* room for results the decoder calls with
  Times,         \* values of time(NULL), at score resolution
  Counts,        \* frequencies the synchronization server sends
  Rooms,         \* lemmas that fit into the client's buffer
  MergePastRoom, \* whether one synchronization adds more lemmas than were preallocated
  SyncLimit,     \* the limit Sync::begin sets
  NoFile,        \* a file that is missing or not valid
  MaxLemmas,     \* bound: entries of the index
  MaxSyncs       \* bound: entries of the sync list

\* The sizes the code is built with leave room for the longest lemma after every load, and a
\* lemma has as many characters as spellings.
ASSUME SizesAssumption ==
  /\ kUserDictPreAlloc \in Nat \ {0} /\ kUserDictAverageNchar \in Nat
  /\ kUserDictCacheSize \in Nat \ {0, 1} /\ kUserDictMissCacheSize \in Nat \ {0, 1}
  /\ kUserDictMaxFrequency \in Nat
  /\ kMaxLemmaSize \in Nat /\ LemmaBytes(kMaxLemmaSize) <= PreAllocBytes
  /\ MaxLemmas \in Nat /\ MaxSyncs \in Nat \ {0}

ASSUME InputsAssumption ==
  /\ \A lemma \in Lemmas : Len(lemma.spell) \in 1..kMaxLemmaSize
  /\ \A q \in Queries : Len(q.sig) \in 1..kMaxLemmaSize
  /\ Counts \subseteq Nat /\ Rooms \subseteq Nat
  /\ SyncLimit \in [count : Nat, size : Nat, ratio : 0..99]

\* A lemma has one full id for each character, and the ids that an id of a query stands for
\* begin with one letter.
ASSUME SpellingsAssumption ==
  /\ \A lemma \in Lemmas :
       /\ lemma.spell \in Seq(DOMAIN Initial) /\ lemma.word \in Seq(Nat)
       /\ Len(lemma.word) = Len(lemma.spell)
  /\ \A q \in Queries :
       /\ q.sig \in Seq(Nat) /\ Len(q.match) = Len(q.sig)
       /\ \A k \in 1..Len(q.sig) : \A id \in q.match[k] :
            id \in DOMAIN Initial /\ Initial[id] = q.sig[k]

VARIABLES
  dict,          \* the image, or NoDict
  file,          \* the file, or NoFile
  role,          \* who has the dictionary open: "none", "ime" or "sync"
  got            \* entries of the last get_lemmas; their number is Sync's last_count_

vars == <<dict, file, role, got>>

NoDict == [state |-> USER_DICT_NONE]
NoLimit == [count |-> 0, size |-> 0, ratio |-> 0]

\* reset: a file without lemmas and without limits.
EmptyFile ==
  [lemmas |-> <<>>, lemma_size |-> 0, offsets |-> <<>>, predicts |-> <<>>, scores |-> <<>>,
   syncs |-> <<>>, free_count |-> 0, free_size |-> 0, limit |-> NoLimit]

---------------------------------------------------------------------------
\* load_dict begins with validate, and reset where that fails.
Validated(f) == IF f = NoFile THEN EmptyFile ELSE f

\* load: the ids are given anew, in index order, and there is room for kUserDictPreAlloc lemmas.
Load(f) ==
  [state |-> USER_DICT_SYNC,
   lemmas |-> f.lemmas, lemma_size |-> f.lemma_size,
   offsets |-> [i \in DOMAIN f.offsets |->
                  [pos |-> f.offsets[i].pos, removed |-> f.offsets[i].removed,
                   score |-> f.scores[i], id |-> i]],
   by_id |-> [i \in DOMAIN f.offsets |-> f.offsets[i].pos],
   predicts |-> f.predicts,
   syncs |-> f.syncs, syncs_null |-> FALSE,
   count_left |-> kUserDictPreAlloc, size_left |-> PreAllocBytes,
   free_count |-> f.free_count, free_size |-> f.free_size, limit |-> f.limit,
   cache |-> NoCache, miss |-> NoCache]

\* write_back and the write_back_* it dispatches to: each dirty level writes a longer tail of
\* the file, and what it leaves out stays as the file has it.  Writing the sync list from a null
\* pointer fails and leaves the file too short.
WriteBack(d, f) ==
  LET need_write == PreAllocBytes - d.size_left
      kept == {pos \in DOMAIN f.lemmas : pos < d.lemma_size - need_write}
      block == IF d.state = USER_DICT_DEFRAGMENTED THEN d.lemmas
               ELSE IF d.state < USER_DICT_LEMMA_DIRTY THEN f.lemmas
               ELSE [pos \in kept \cup {p \in DOMAIN d.lemmas : p >= d.lemma_size - need_write} |->
                       IF pos \in kept THEN f.lemmas[pos] ELSE d.lemmas[pos]]
      written(level, new, old) == IF d.state >= level THEN new ELSE old
  IN IF d.state \in {USER_DICT_NONE, USER_DICT_SYNC} THEN f
     ELSE IF d.syncs_null /\ d.syncs # <<>> THEN NoFile
     ELSE [lemmas |-> block, lemma_size |-> d.lemma_size,
           offsets |-> written(USER_DICT_OFFSET_DIRTY,
                               [i \in Indexes(d) |-> [pos |-> d.offsets[i].pos,
                                                      removed |-> d.offsets[i].removed]],
                               f.offsets),
           predicts |-> written(USER_DICT_OFFSET_DIRTY, d.predicts, f.predicts),
           scores |-> written(USER_DICT_SCORE_DIRTY,
                              [i \in Indexes(d) |-> d.offsets[i].score], f.scores),
           syncs |-> d.syncs,
           free_count |-> d.free_count, free_size |-> d.free_size, limit |-> d.limit]

\* flush_cache: close_dict, then load_dict of the same file, then cache_init.
FlushCache(d, f) ==
  LET f1 == Validated(WriteBack(d, f)) IN [dict |-> Load(f1), file |-> f1]

---------------------------------------------------------------------------
\* set_limit: no dirty level, so a new limit reaches the file with the next other change.
SetLimit(d, limit) == [d EXCEPT !.limit = limit]

OverLimit(d, lemma) ==
  \/ d.limit.count > 0 /\ Len(d.offsets) >= d.limit.count
  \/ d.limit.size > 0 /\ d.lemma_size + LemmaBytes(Len(lemma.spell)) > d.limit.size

\* Mutant: off by one.
FullTooLate(d, lemma) == d.count_left < 0 \/ d.size_left < 0

\* No room is left of what load allocated in advance.
Full(d, lemma) == d.count_left = 0 \/ d.size_left < LemmaBytes(Len(lemma.spell))

\* _put_lemma: the new image and file, and whether an id was returned.
PutLemma_(d, f, lemma, score) ==
  LET i == LocateInOffsets(d, lemma)
      room == IF Full(d, lemma) THEN FlushCache(d, f) ELSE [dict |-> d, file |-> f]
      added == AppendALemma(room.dict, lemma, score)
  IN IF i # 0
     THEN [dict |-> Dirty([d EXCEPT !.offsets[i].score = score], USER_DICT_SCORE_DIRTY),
           file |-> f, ok |-> TRUE]
     ELSE IF OverLimit(d, lemma) THEN [dict |-> d, file |-> f, ok |-> FALSE]
     ELSE [dict |-> IF added.syncs_null THEN added
                    ELSE QueueLemmaForSync(added, Len(added.by_id)),
           file |-> room.file, ok |-> TRUE]

\* syncs_ = syncs_bak: the count stays, the entries are those of the old array again.
RestoreSyncs(d, bak) ==
  [d EXCEPT !.syncs_null = FALSE,
            !.syncs = [k \in DOMAIN @ |-> IF k \in DOMAIN bak THEN bak[k] ELSE Garbage]]

\* One pass of put_lemma_no_sync.
PutWithoutSyncs(d, f, lemma, score) ==
  LET r == PutLemma_([d EXCEPT !.syncs_null = TRUE], f, lemma, score)
  IN [r EXCEPT !.dict = RestoreSyncs(@, d.syncs)]

\* put_lemma_no_sync: at the limit, reclaim, defragment and flush, and try once more.  Its one
\* result, as a set.
PutLemmaNoSync(d, f, lemma, score) ==
  LET Try(r) == PutWithoutSyncs(r.dict, r.file, lemma, score)
      Room(r) == {FlushCache(d2, r.file) : d2 \in {Defragment(d1) : d1 \in {Reclaim(r.dict)}}}
  IN UNION {IF first.ok THEN {first} ELSE {Try(r) : r \in Room(first)} :
              first \in {Try([dict |-> d, file |-> f])}}

---------------------------------------------------------------------------
Init == dict = NoDict /\ file = NoFile /\ role = "none" /\ got = {}

\* load_dict by the decoder, or by Sync::begin, which also sets its limit.
Open(r) ==
  /\ role = "none"
  /\ file' = Validated(file)
  /\ dict' = IF r = "sync" THEN SetLimit(Load(file'), SyncLimit) ELSE Load(file')
  /\ role' = r
  /\ UNCHANGED got

\* close_dict, also by Sync::finish.
Close ==
  /\ role # "none"
  /\ file' = WriteBack(dict, file)
  /\ dict' = NoDict /\ role' = "none" /\ got' = {}

\* The process ends without closing.
Crash ==
  /\ role # "none"
  /\ dict' = NoDict /\ role' = "none" /\ got' = {}
  /\ UNCHANGED file

PutLemma(lemma, lmt) ==
  /\ role = "ime"
  /\ Len(dict.offsets) < MaxLemmas /\ Len(dict.syncs) < MaxSyncs
  /\ LET r == PutLemma_(dict, file, lemma, [lmt |-> lmt, freq |-> 1])
     IN dict' = r.dict /\ file' = r.file
  /\ UNCHANGED <<role, got>>

\* update_lemma(id, 1, true).
UpdateLemma(id, lmt) ==
  /\ role = "ime" /\ id \in DOMAIN dict.by_id
  /\ Len(dict.syncs) < MaxSyncs
  /\ LET i == LocateInOffsets(dict, dict.lemmas[dict.by_id[id]])
         freq == Min({dict.offsets[i].score.freq + 1, kUserDictMaxFrequency})
     IN /\ i # 0
        /\ dict' = QueueLemmaForSync(
                     Dirty([dict EXCEPT !.offsets[i].score = [lmt |-> lmt, freq |-> freq]],
                           USER_DICT_SCORE_DIRTY),
                     dict.offsets[i].id)
  /\ UNCHANGED <<file, role, got>>

RemoveLemma(id) ==
  /\ role = "ime" /\ id \in DOMAIN dict.by_id
  /\ LET i == LocateInOffsets(dict, dict.lemmas[dict.by_id[id]])
     IN i # 0 /\ dict' = RemoveLemmaByOffsetIndex(dict, i)
  /\ UNCHANGED <<file, role, got>>

\* get_lpis and extend_dict.
Lookup_(q, lpi_max) ==
  /\ role = "ime"
  /\ dict' = GetLpis(dict, q, lpi_max).dict
  /\ UNCHANGED <<file, role, got>>

\* flush_cache, which the decoder calls when the input method is idle.
Flush ==
  /\ role = "ime"
  /\ LET r == FlushCache(dict, file) IN dict' = r.dict /\ file' = r.file
  /\ UNCHANGED <<role, got>>

\* One lemma of Sync::put_lemmas; sync.h has them all before the first get_lemmas.
SyncPut(lemma, freq, lmt) ==
  /\ role = "sync" /\ got = {}
  /\ Len(dict.offsets) < MaxLemmas
  /\ dict.count_left > 0 \/ MergePastRoom
  /\ \E r \in PutLemmaNoSync(dict, file, lemma, [lmt |-> lmt, freq |-> freq]) :
       dict' = r.dict /\ file' = r.file
  /\ UNCHANGED <<role, got>>

\* Sync::get_lemmas.
SyncGet(room) ==
  /\ role = "sync"
  /\ \E wild \in SUBSET WildSyncs(dict) :
       LET texts == SyncTexts(dict, wild, room) IN
       /\ got' = texts
       /\ dict' = IF texts = {} THEN dict ELSE Dirty(dict, USER_DICT_SYNC_DIRTY)
  /\ UNCHANGED <<file, role>>

\* Sync::clear_last_got.
SyncClear ==
  /\ role = "sync"
  /\ dict' = ClearSyncLemmas(dict, Cardinality(got))
  /\ got' = {}
  /\ UNCHANGED <<file, role>>

Next ==
  \/ \E r \in {"ime", "sync"} : Open(r)
  \/ Close \/ Crash \/ Flush \/ SyncClear
  \/ \E lemma \in Lemmas, lmt \in Times :
       \/ PutLemma(lemma, lmt)
       \/ \E freq \in Counts : SyncPut(lemma, freq, lmt)
  \/ \E id \in 1..MaxLemmas :
       RemoveLemma(id) \/ \E lmt \in Times : UpdateLemma(id, lmt)
  \/ \E q \in Queries, lpi_max \in LpiMaxs : Lookup_(q, lpi_max)
  \/ \E room \in Rooms : SyncGet(room)

Spec == Init /\ [][Next]_vars

---------------------------------------------------------------------------
\* The image as its abstract meaning: live lemmas with their scores, and those queued for sync.
Copy(d) ==
  LET live == {i \in Indexes(d) : ~d.offsets[i].removed}
  IN [entries |-> {[lemma |-> LemmaOf(d, i), score |-> d.offsets[i].score] : i \in live},
      queue |-> {d.lemmas[pos] : pos \in ToSet(d.syncs) \cap DOMAIN d.lemmas}
                  \cap {LemmaOf(d, i) : i \in live}]

Opened == role # "none"

Bytes == 0..(MaxLemmas * LemmaBytes(kMaxLemmaSize))
Scores == [lmt : Times, freq : Nat]
IndexEntries == [pos : Bytes, removed : BOOLEAN, score : Scores, id : 1..MaxLemmas]

TypeOK ==
  /\ role \in {"none", "ime", "sync"}
  /\ got \in SUBSET (1..MaxSyncs)
  /\ ~Opened => dict = NoDict
  /\ Opened => /\ dict.state \in USER_DICT_SYNC..USER_DICT_DEFRAGMENTED
               /\ dict.offsets \in Seq(IndexEntries)
               /\ dict.count_left \in 0..kUserDictPreAlloc
               /\ dict.size_left \in Nat
               /\ ~dict.syncs_null

Distinct(s) == Cardinality(ToSet(s)) = Len(s)

\* The parallel arrays stay consistent: offsets_, predicts_ and offsets_by_id_ list the same
\* lemmas with the same removed flags, ids_ numbers them without gaps, and the lemmas they point
\* at fill the block without overlap, whatever is inserted, removed, written back and reloaded.
IndexesAgree ==
  Opened =>
    LET listed == {[pos |-> e.pos, removed |-> e.removed] : e \in ToSet(dict.offsets)}
        ends == {pos + BytesOf(dict, pos) : pos \in DOMAIN dict.lemmas}
    IN /\ {e.pos : e \in listed} = DOMAIN dict.lemmas
       /\ ToSet(dict.predicts) = listed
       /\ Distinct(dict.predicts) /\ Distinct([i \in Indexes(dict) |-> dict.offsets[i].pos])
       /\ {dict.offsets[i].id : i \in Indexes(dict)} = Indexes(dict)
       /\ \A i \in Indexes(dict) : dict.by_id[dict.offsets[i].id] = dict.offsets[i].pos
       /\ DOMAIN dict.lemmas \cup {dict.lemma_size} = ends \cup {0}

\* free_count and free_size are what the removed entries hold, across removals, reclaims (which
\* select removed entries again) and reloads.
FreeAccounting ==
  Opened =>
    LET removed == RemovedPositions(dict)
    IN /\ dict.free_count = Cardinality(removed)
       /\ dict.free_size = SumBefore(BytesAt(dict), removed, dict.lemma_size)

\* Closing saves the whole image: what a write leaves out, because no dirty level asks for it or
\* because it was there at the load, is in the file already; only a limit set without any
\* other change does not reach it.
FlagOf(entry) == [pos |-> entry.pos, removed |-> entry.removed]
FlagsOf(d) == [i \in Indexes(d) |-> FlagOf(d.offsets[i])]
ScoresOf(d) == [i \in Indexes(d) |-> d.offsets[i].score]
FileOf(d) ==
  [lemmas |-> d.lemmas, lemma_size |-> d.lemma_size, offsets |-> FlagsOf(d),
   predicts |-> d.predicts, scores |-> ScoresOf(d), syncs |-> d.syncs,
   free_count |-> d.free_count, free_size |-> d.free_size, limit |-> d.limit]

WritesAll == Opened => [WriteBack(dict, file) EXCEPT !.limit = dict.limit] = FileOf(dict)

\* A lemma is in the dictionary once: a put never misses the entry it should update, through
\* whatever range a lookup left in the caches.  (atomdictbase.h: a lemma is added only if it
\* does not exist.)
NoDuplicateLemma ==
  Opened => \A i, j \in Indexes(dict) :
    ~dict.offsets[i].removed /\ ~dict.offsets[j].removed /\ LemmaOf(dict, i) = LemmaOf(dict, j)
      => i = j

KnownLemmas(d) == {e.lemma : e \in Copy(d).entries}

\* What atomdictbase.h says of put_lemma: a lemma that does not exist is added (no limit is set
\* in the run).  A put of a lemma that begins a longer one can take the longer one for it.
PutAddsIfAbsent ==
  [][\A lemma \in Lemmas, lmt \in Times : PutLemma(lemma, lmt) => lemma \in KnownLemmas(dict')]_vars

\* What sync.h says of put_lemmas: they are merged into the local dictionary, so no lemma of it
\* goes (no limit is reached in the run).  A merge that needs more room than was preallocated
\* flushes while the sync list is hidden, and that write destroys the file.
MergeKeepsLemmas ==
  [][\A lemma \in Lemmas, freq \in Counts, lmt \in Times :
       SyncPut(lemma, freq, lmt) => KnownLemmas(dict) \subseteq KnownLemmas(dict')]_vars

Matching(d, q) ==
  {i \in Indexes(d) : ~d.offsets[i].removed /\ EqualSpell(SpellOf(d, i), NcharOf(d, i), q)}

\* A lookup with room enough finds every lemma the query matches and nothing else: the binary
\* search, the range cache, the miss cache and the early breaks never lose one.
LookupsFindAll ==
  Opened => \A q \in Queries :
    GetLpis(dict, q, MaxLemmas + 1).found = Matching(dict, q)

\* What atomdictbase.h says of extend_dict: the mile stone is 0 only if it fails, so that a
\* lemma is reached by extending its spelling id by id.  A lookup looks at one longer lemma only,
\* and that one may have the letters of the query but another spelling.
ExtendsToEveryLemma ==
  Opened => \A i \in Indexes(dict) : \A n \in 1..NcharOf(dict, i) - 1 :
    ~dict.offsets[i].removed =>
      GetLpis(dict, SearchFor(SubSeq(SpellOf(dict, i), 1, n)), MaxLemmas + 1).need

---------------------------------------------------------------------------
\* The inductive invariant: what holds of the image and of the file between two actions.

\* Blocks of the given lengths, by where they begin, fill size bytes without gaps or overlaps.
Tiled(bytes, size) ==
  LET cuts == DOMAIN bytes \cup {size}
  IN /\ 0 \in cuts
     /\ \A p \in DOMAIN bytes : bytes[p] > 0 /\ p + bytes[p] \in cuts /\ p + bytes[p] <= size
     /\ \A q \in cuts : q = 0 \/ \E p \in DOMAIN bytes : p + bytes[p] = q
     /\ \A p, q \in DOMAIN bytes : p < q => p + bytes[p] <= q

BlockSound(d) ==
  /\ d.lemma_size \in Nat
  /\ DOMAIN d.lemmas \subseteq Nat /\ d.lemmas \in [DOMAIN d.lemmas -> Lemmas]
  /\ Tiled(BytesAt(d), d.lemma_size)

IndexSound(d) ==
  /\ Len(d.offsets) \in 0..MaxLemmas
  /\ d.offsets \in [Indexes(d) -> [pos : Nat, removed : BOOLEAN, score : Scores, id : Indexes(d)]]
  /\ DOMAIN d.lemmas = {d.offsets[i].pos : i \in Indexes(d)}
  /\ \A i, j \in Indexes(d) : d.offsets[i].pos = d.offsets[j].pos => i = j
  /\ \A i, j \in Indexes(d) : d.offsets[i].id = d.offsets[j].id => i = j
  /\ \A id \in Indexes(d) : \E i \in Indexes(d) : d.offsets[i].id = id
  /\ d.by_id \in [Indexes(d) -> Nat]
  /\ \A i \in Indexes(d) : d.by_id[d.offsets[i].id] = d.offsets[i].pos

PredictsSound(d) ==
  LET predicted == 1..Len(d.predicts)
  IN /\ Len(d.predicts) \in Nat
     /\ d.predicts \in [predicted -> [pos : Nat, removed : BOOLEAN]]
     /\ \A k \in predicted : \E i \in Indexes(d) : d.predicts[k] = FlagOf(d.offsets[i])
     /\ \A i \in Indexes(d) : \E k \in predicted : d.predicts[k] = FlagOf(d.offsets[i])
     /\ \A k, m \in predicted : d.predicts[k].pos = d.predicts[m].pos => k = m

\* A cached range lies in the index.
CachesSound(d) ==
  /\ d.cache \in [1..kMaxLemmaSize ->
                    Seq([sig : {q.sig : q \in Queries}, val : [start : Nat \ {0}, count : Nat]])]
  /\ \A n \in 1..kMaxLemmaSize : \A k \in 1..Len(d.cache[n]) :
       d.cache[n][k].val.start + d.cache[n][k].val.count <= Len(d.offsets) + 1

CountersSound(d) ==
  /\ d.count_left \in 0..kUserDictPreAlloc /\ d.size_left \in Nat
  /\ d.syncs \in Seq(Int \cup {Garbage}) /\ Len(d.syncs) <= MaxSyncs
  /\ d.limit \in [count : Nat, size : Nat, ratio : 0..99]
  /\ d.state \in USER_DICT_SYNC..USER_DICT_DEFRAGMENTED

Fields == {"state", "lemmas", "lemma_size", "offsets", "by_id", "predicts", "syncs", "syncs_null",
           "count_left", "size_left", "free_count", "free_size", "limit", "cache", "miss"}

Sound(d) ==
  /\ Fields \subseteq DOMAIN d
  /\ BlockSound(d) /\ IndexSound(d) /\ PredictsSound(d) /\ CachesSound(d) /\ CountersSound(d)

Accounted(d) ==
  /\ d.free_count = Cardinality(RemovedPositions(d))
  /\ d.free_size = SumBefore(BytesAt(d), RemovedPositions(d), d.lemma_size)

FileSound(f) ==
  /\ f = [lemmas |-> f.lemmas, lemma_size |-> f.lemma_size, offsets |-> f.offsets,
          predicts |-> f.predicts, scores |-> f.scores, syncs |-> f.syncs,
          free_count |-> f.free_count, free_size |-> f.free_size, limit |-> f.limit]
  /\ Len(f.offsets) \in Nat
  /\ f.offsets \in [1..Len(f.offsets) -> [pos : Nat, removed : BOOLEAN]]
  /\ f.scores \in [1..Len(f.offsets) -> Scores]
  /\ Sound(Load(f)) /\ Accounted(Load(f))

\* What an image that is not dirty enough to write a part of the file has in common with it.
Saved(d, f) ==
  /\ d.state = USER_DICT_SYNC =>
       f.syncs = d.syncs /\ f.free_count = d.free_count /\ f.free_size = d.free_size
  /\ d.state < USER_DICT_SCORE_DIRTY => f.scores = ScoresOf(d)
  /\ d.state < USER_DICT_OFFSET_DIRTY => f.offsets = FlagsOf(d) /\ f.predicts = d.predicts
  /\ d.state < USER_DICT_LEMMA_DIRTY =>
       /\ f.lemmas = d.lemmas /\ f.lemma_size = d.lemma_size
       /\ d.count_left = kUserDictPreAlloc
  /\ d.state < USER_DICT_DEFRAGMENTED =>
       /\ d.size_left <= PreAllocBytes
       /\ d.lemma_size = f.lemma_size + (PreAllocBytes - d.size_left)
       /\ DOMAIN f.lemmas = {pos \in DOMAIN d.lemmas : pos < f.lemma_size}
       /\ \A pos \in DOMAIN f.lemmas : f.lemmas[pos] = d.lemmas[pos]

UserDictInv ==
  /\ role \in {"none", "ime", "sync"}
  /\ got \in SUBSET (1..MaxSyncs)
  /\ FileSound(Validated(file))
  /\ ~Opened => dict = NoDict
  /\ Opened => /\ Sound(dict) /\ Accounted(dict) /\ dict.syncs_null = FALSE
               /\ FileSound(file) /\ Saved(dict, file)

---------------------------------------------------------------------------
Map == INSTANCE UserDictMap WITH
  Lemma <- Lemmas, Score <- [lmt : Times, freq : 1..kUserDictMaxFrequency], Closed <- NoDict,
  mem <- IF Opened THEN Copy(dict) ELSE NoDict,
  disk <- Copy(Load(Validated(file))),
  sent <- IF Opened THEN {dict.lemmas[dict.syncs[k]] : k \in got \ WildSyncs(dict)} ELSE {}

\* The dictionary is a map from lemmas to scores and a set of lemmas to send, saved as a whole:
\* positions, indexes, caches, dirty levels, partial writes, reloads in the middle of a put,
\* defragmentation and duplicate sync entries never show, and nothing leaves the queue unsent.
ImplementsMap == Map!Spec
=============================================================================
