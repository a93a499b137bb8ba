# Verification of libgooglepinyin

TLA+ models of the Pinyin input method engine in `src/src` and `src/include`, the TLC runs that
check them and the TLAPS proofs about them.

## 1. The system

An input method calls a C API over one decoder. The decoder looks up spellings in a read-only
system dictionary and in the user's own dictionary, which learns from what the user chooses, is
kept in a file, and is synchronized with a server by a client in another thread.

| component | code | state it keeps | operations | hard behaviours |
|---|---|---|---|---|
| C API | `pinyinime.cpp` | one global `MatrixSearch` | `im_search`, `im_delsearch`, `im_choose`, ... forward to it | none of its own |
| MatrixSearch | `matrixsearch.cpp` | letters typed, matrix rows, node and dmi pools, spelling boundaries, fixed lemmas, composing phrase, candidates | search, delsearch, reset_search, choose, cancel_last_choice, get_predicts | long call sequences that keep five arrays in step; results that must not depend on what was typed before; pools and rows at their limit |
| UserDict | `userdict.cpp` | lemma block, sorted index with scores and ids, table by id, predict list, sync list, counters, two lookup caches, dirty level; the file | load, close, flush, put, update, remove, lookup, reclaim, defragment | positions kept in five places; partial write-back; a put that flushes in its middle; crash; stale caches |
| the shared file | `userdict.cpp` globals | `g_mutex_`, `g_last_update_`; each object's `load_time_` | validate, reset, load, write_back | two threads, unlocked parts of load_dict |
| Sync | `sync.cpp` | a `UserDict` of its own, `last_count_` | begin, put_lemmas, get_lemmas, clear_last_got, finish | what leaves the sync list was sent; limits reached in a merge |
| DictTrie | `dicttrie.cpp` | trie (read-only), milestone and mark pools | extend_dict, reset_milestones, get_lpis, get_lemma_splids | two ways to look up that must agree; mile stones given back too early; pools at their limit |
| DictList | `dictlist.cpp` | words by length (read-only) | word of an id, id of a word, spellings of a character, predictions | binary searches over packed words; the last id |
| LpiCache | `lpicache.cpp` | results per half spelling id | put_cache, get_cache | never invalidated |
| SpellingTrie, SpellingParser | `spellingtrie.cpp`, `splparser.cpp` | trie and id tables (read-only) | get ids, split letters | longest match, half and full ids |
| NGram | `ngram.cpp` | k-means codebook | convert_psb | floating point |
| utilities | `searchutility.cpp`, `utf16*.cpp`, `mystdlib.cpp` | a bump allocator | comparisons, buffers | - |
| builder | `dictbuilder.cpp`, `spellingtable.cpp`, `tools/` | spelling table, entries of the lexicon | read_raw_dict, build_dict | lines dropped half-way, collisions in the table, levels of the trie |

The decoder (`MatrixSearch`) asks both dictionaries through one interface, `AtomDictBase`, to extend
a path by a spelling; each answers with a *mile stone* from which the next spelling goes on, and with
the lemmas that end there. It keeps one matrix row for each letter, so that a letter typed or deleted
only changes the last rows. All of it runs in one thread; only the user dictionary's file is shared.

UserDict is where the engine keeps what it must not lose, where threads meet and where crashes
matter. What makes it correct:

- the decoder and the synchronization see one map from lemmas to scores, saved as a whole;
- the parallel arrays describe the same lemmas after every insertion, removal and move;
- lookups find all they should, whatever the caches hold;
- at a limit as many lemmas go as was asked for, those with the lowest scores;
- nothing leaves the sync list unsent;
- two objects over one file do not overwrite each other's saved work.

What makes the decoder correct:

- rows, nodes, dictionary matches and mile stones refer to each other's live parts after every
  reset, and the first node of a row is the best there is;
- what is shown depends on the letters alone, not on the way they were typed;
- what the user chose stays as it is shown, also when a part of it is deleted, a choice can be taken
  back, what is learned was shown, and the candidates are the words there are, once each.

What makes the system dictionary correct: whatever lexicon it is built from, the spelling table, the
parser, the trie, the word list and the predictions give back the lexicon, and the two ways of
looking up give the same.

`PROJECT.json` lists the hazards at their lines, with the properties that cover them.

## 2. Modules

| module | models | checked or proved by |
|---|---|---|
| `UserDictLemma` | lemmas, queries and the comparison functions (no state) | through `UserDict` |
| `SignatureQueue`, `SignatureFifo` | what a lookup cache promises: a bounded queue | - |
| `UserDictRing` | the ring buffers of the caches, slot by slot | run `ring`, `UserDictRingProofs` |
| `UserDictIndex` | the image in memory and the operations on it, as operators | through `UserDict` |
| `UserDictReclaim` | what `reclaim` selects from a dictionary at its limit | run `reclaim` |
| `UserDictMap` | what the dictionary promises: a map in memory, a copy on disk, a queue to send | through `UserDict`; `UserDictMapProofs` |
| `UserDict` | the dictionary over its file: actions of the decoder, of Sync, and crashes | runs `life`, `prefix`, `truncated`, `merge`, `extend`; `UserDictProofs`, `UserDictMapProofs` |
| `UserDictShare` | several objects over one file, thread by thread | runs `share`, `share_lost`, `UserDictShareProofs` |
| `SpellingTable` | the hash table of spellings (no state of its own) | through `DictBuilder` |
| `SpellingTrie` | the trie of spellings, its half and full ids, the parser (constant once built) | through `DictBuilder` and `MatrixSearch` |
| `DictList` | the words by length, their lookups, predictions | through both |
| `DictTrie` | the lemma trie, its lookups, the pools of mile stones and marks, as operators | through both |
| `DictConstruct` | the build of all of these from lemmas and spellings | through both |
| `DictBuilder` | reading a lexicon line by line and building the dictionary | run `dictionary`, `DictBuilderProofs` |
| `LpiCache` | the cache of results for half spellings | through `MatrixSearch` |
| `MatrixDecode` | the image of the decoder: matrix, pools, extending by a letter | through `MatrixSearch`; `MatrixDecodeProofs` |
| `MatrixSearch` | the calls of a client on the decoder, with both dictionaries | runs `decoder`, `stale_choice` |
| `Basics` | lemmas: least numbers, values that are computed turn by turn, insertion into a list | used by the proofs about `UserDict`, `DictBuilder` and `MatrixDecode` |
| `UserDictIndexProofs` | lemmas: the binary search, where lemmas lie in the block, and what each operation of `UserDictIndex` does to a sound image | used by the next two |
| `UserDictProofs` | the inductive invariant of `UserDict` and four theorems from it; that searches and caches are right, and two theorems from that | `tlapm` |
| `UserDictMapProofs` | that the dictionary implements `UserDictMap` | `tlapm` |
| `DictBuilderProofs` | that the spelling table finds all it was given, and that every lemma gets one id | `tlapm` |
| `MatrixDecodeProofs` | that a row of the matrix keeps the best | `tlapm` |
| `UserDictRingProofs`, `UserDictShareProofs` | the ring buffers and the shared file | `tlapm` |

How state and actions correspond to the code:

- **UserDictRing** has one ring: `signatures`, `values` (`offsets[]` and `lengths[]`), `head` and
  `tail`. `Save`, `Load`, `Reset` are `save_cache`/`save_miss_cache`, `load_cache`/`load_miss_cache`
  and `reset_cache`/`reset_miss_cache`; the two caches differ in their size and in that the miss
  cache stores no range. `UserDictIndex` uses the abstract queue of `SignatureQueue` in its place,
  which `ImplementsFifo` justifies.
- **UserDictIndex** keeps the byte position of every lemma, because positions are what the index, the
  table by id, the predict list and the sync list share and what defragment changes. `offsets_`,
  `scores_` and `ids_`, which every operation permutes alike, are one sequence of records. The three
  binary searches are one operator `Bisect`, a recursive function, with the comparison as a
  parameter. Removing shifts nothing and only flags, as in the code. The operators follow the code
  where it is surprising: `locate_in_offsets` compares with the argument's length;
  `locate_where_to_insert_in_predicts` searches the index, not the predict list; the heap of reclaim
  stops at equal children; the sync list may hold an entry twice or point at no lemma.
- **UserDict** has `dict` (the image), `file`, `role` (who has it open) and `got` (what the last
  `get_lemmas` returned). Each action is a whole call. `PutLemma_` contains the flush in the middle
  of a put, `PutLemmaNoSync` the hidden sync list and the reclaim, defragment, flush and retry at the
  limit. `WriteBack` writes exactly what the dirty level makes the code write and leaves the rest of
  the file as it is. `Crash` ends the process between two calls.
- **UserDictShare** has a program counter for each object, one step for each stretch of code
  between two points where another thread can come in: validate and reset without the lock, load
  with `pthread_mutex_trylock` (refused, failing or read), the time stamp after the lock is released, the comparison in
  `_get_lpis`, the wait in `close_dict`, the beginning and the end of a write. What a copy holds is a
  set of edits. `UserDict::state` also takes the lock and gives it back without a change; `CheckLock`
  and `Check` stand for it.
- **DictBuilder** has the spelling table, the lemmas read, and the dictionary once built. `ReadLine` is
  one round of `read_raw_dict`, with every place where a line is dropped, some of them after part of
  its spellings went into the table. `BuildDict` is the rest of `build_dict`: it arranges the table,
  builds the spelling trie, gives the lemmas their ids and builds word list, trie and top list, in
  `DictConstruct`. A failed assertion or error is the phase `failed`.
- **DictTrie** has the trie as two sequences of nodes, level 0 and the levels below, as in the code;
  sons are found by scanning from `son_1st_off`. The pools of mile stones and marks are a value that
  `ExtendDict` takes and returns, the counters checked where the code checks them.
- **MatrixDecode** has the decoder as one record, the image `im`: its fields are those of the class,
  and the header of the module lists them. `matrix_` is the sequence of rows that were ever written;
  a row not written yet is `Blank`, which says what `mtrx_nd_fixed` has there. Pools are sequences up
  to `mtrx_nd_pool_used_` and `dmi_pool_used_`; what a reset cuts off is gone. The arrays of the
  segmentation keep what is behind their number, because `choose` and `cancel_last_choice` read it.
  A read of memory never written (`Garbage`) or a failed assertion ends the behaviour (`dead` names the
  place); the properties say nothing of what follows. The system dictionary is part of the image so
  that TLC builds it once. Several operators write `CHOOSE r \in {...} : TRUE` over a set of one value:
  TLC then computes that value once.
- **MatrixSearch** has `im`, `followed` and the number of `calls`. Each action is a call of the C API
  with its whole effect. A client asks for the segmentation after a call (`ImGetSplStartPos`) or does
  not. `choose` and `cancel_last_choice` leave the segmentation of the sentence before, which is
  *outdated* where `get_spl_start_id` would now compute another (`Stale`). `followed` is a history
  variable: no call so far relied on an outdated segmentation. A call that changes nothing, a
  second choice where the segmentation is still the right one, and every search or deletion while
  nothing is fixed keep it true. `SortByStr` and `WithoutRepeats` are the sort of `get_lpis` and its
  comparison of each item with the one before; `myqsort` is `qsort`, which
  leaves the order of equal items open, and the model takes the order of a merge sort. The code asserts that `mtrx_nd_fixed` and `end_node` are not NULL; a
  pointer behind the nodes in use would be followed, and the model ends there (`LeftOver`). `TypeOK`
  says that no run gets to such a node.
  Learning a lemma appends it to the decoder's user dictionary, which `UserDict` models in full.

Constants that the code fixes (cache sizes, preallocated room, maximum frequency) are CONSTANTS; the
runs use the code's cache sizes and smaller values for the rest.

## 3. Runs

| run | question | instance |
|---|---|---|
| `ring` | do the ring buffers implement the queue of the last saves? | 4 slots (the real size), 3 signatures, 2 values: every filling and every position of head and tail |
| `life` | do all operations together implement the map, with crashes, and can the caches hide a lemma or make a put add it twice? | 3 lemmas, two of them with one signature; a half query that matches those two and a full one, with room for all results; room for 2 puts before a flush; up to 3 index entries and 2 sync entries; from the first synchronization on a limit of 2 lemmas, half of them reclaimed (110946 states) |
| `reclaim` | which lemmas does the heap of reclaim select? | 5 lemmas, every sequence of 5 scores (ties too), one of them removed or none, 3 or 4 entries selected (41406 states) |
| `share` | do two objects keep each other's work, apart from the two races? | 2 objects, 2 edits, a clock of 3 readings that may repeat |
| `dictionary` | do all parts of a dictionary agree with the lexicon it was built from? | every sequence of up to 4 of 11 lines; a table of 5 places; 2 top lemmas (12411 states) |
| `decoder` | do the arrays stay in step, and is the client shown what it should be? | 5 calls on the strings gana, gan, gg and ggg; 5 spellings, 11 lemmas of one or two characters, one of them learned as well; 3 nodes in a row (11319 states) |
| `prefix`, `truncated`, `merge`, `share_lost`, `extend`, `stale_choice` | statements of comments that the code does not keep (section 6) | as small as shows it |

What the properties say:

- `ImplementsMap`: every step of the dictionary is a step of `UserDictMap` or changes nothing there.
  Reloads in the middle of a put, ids given anew, partial writes, duplicate and dangling sync
  entries do not show; a crash loses only what was not saved, and nothing leaves the queue unsent.
- `IndexesAgree`, `FreeAccounting`: index, table by id, predict list, block and free counters agree.
- `WritesAll`: in every state, closing would leave the whole image in the file, although the dirty
  level makes the code write a part of it only.
- `NoDuplicateLemma`, `LookupsFindAll`: put and lookup find what is there.
- `EvictsLowest`: an entry with the lowest score is always among those `reclaim` selects, and, where no two
  entries score the same, no lemma kept scores below an evicted one. `ReclaimsShare`: whatever the
  scores, it selects as many different entries as the ratio asks for.
- `ShareInv`: the lock has one owner, exactly where the code holds it; who writes is newer than the
  last update; a copy that may be written holds all that the file holds; saved edits stay unless one
  of two races happened. `FlushEnds`: a close that waits for the lock ends.
- `TableFindsAll`: the spelling table loses and doubles no spelling, however they collide and
  whichever line is dropped half-way.
- `LookupsAgree`: `get_lpis` all at once and `extend_dict` spelling by spelling find exactly the lemmas
  a string of half and full ids stands for, once each.
- `ParserRoundTrip`, `WordsAgree`, `PredictionsComplete`: what the parser, the word list and the
  predictions return is what the lexicon has, the exceptions of section 6 aside. Of the list of the
  most frequent lemmas only the best is claimed to be there, because the list may be out of order.
- `PathsLinked`, `MileStonesLive`: every node and match leads back to the first row through live parts,
  and its mile stone stands for exactly the words that begin with its spellings.
- `ScoresAreBest`: the first node of every row has the least score of all paths over the matches,
  although rows keep only a few nodes and skip what is too far behind.
- `SameAsFresh`: candidates, sentence and segmentation after any calls are those of a new decoder
  that is given the same letters at once.
- `CandidatesExact`: after a search, a deletion or a choice the candidates behind the first are the words of both
  dictionaries for the spellings that come next, each text once, without the text of the first
  candidate's unfixed part. Repeats do arise: one word is in both dictionaries.
- `ChosenTextKept`: what was fixed begins the first candidate. `DeletionKeepsText`: deleting a spelling
  of the fixed part takes its character out of the text shown and nothing else.
- `CancelUndoes`: a choice taken back leaves as many spellings fixed as before it, with the same text, so
  that every earlier choice stays; and if nothing was learned, the client is shown what it was shown
  before the choice. The cancel must not die.
- `LearnedWasShown`: what is learned is a part of the sentence chosen, with spellings that stand for
  what was typed.

`LearnedWasShown`, `ChosenTextKept`, `CandidatesExact`, `DeletionKeepsText`, `SameAsFresh` and `CancelUndoes` speak of clients no
call of which relied on an outdated segmentation (`followed`). What happens to the others is what `ChoiceFixesShown`
says, `DeletionKeepsText` without that condition, and run `stale_choice` shows it violated. `SameAsFresh` leaves out a search
that cuts a composing phrase, and `CandidatesExact` the candidates after a cancel; section 6 says why.

Why the bounds are enough: 3 lemmas give two equal signatures and a different one, so an insertion
can come before, between and behind; with room for 2, the third put flushes inside the put; 3 index
entries include a removed one between two live ones, so that defragment moves lemmas; 2 sync entries
can be the same lemma twice. The decoder may have put a third lemma before the first synchronization
sets the limit of 2; after it, every merge of a third one reclaims. 2 objects and 2 edits are the smallest sharing in which one object can
write over another, and 3 readings of the clock give a load before, at and after an update.
4 lines give a word with two readings, a character with two spellings, and words of three lengths
that begin each other; 5 places for 5 spellings make the table collide, wrap and fill up; the
order of lines matters only to the table and to ties, and the run tries all orders. 5 calls give
search, segmentation, choice, another choice or a deletion, and the search, cancel or second choice
after it, which is where composing phrases are made, merged and cut; gana splits as ga-na and
gan-a, so that choices move the boundary; gg and ggg have half ids only, which the `LpiCache` serves;
5 scores of 5 lemmas are every order and every pattern of ties, and a heap of 4 has two levels below its
root and a node with a single child; 3 nodes
in a row are fewer than gana has, so that some are dropped. The decoder's model and the
dictionary's were also run against the compiled library, on the same lexicons and random sequences of
calls, and showed the same candidates, sentences and segmentation.
`MaxCalls` and `MaxLines` bound the client and the lexicon; the runs `decoder`, `stale_choice` and
`dictionary` end there, and run `reclaim` with the one reclaim, which is why their
deadlock check is off. `MaxLemmas`, `MaxSyncs` and `MaxNow` bound the index, the sync list and the
clock and are not in the code. The runs with a user dictionary check deadlock as well: it can always be opened or closed.

Assumptions of the run `decoder`: no two lemmas have the same score (the code leaves the order of
ties to `qsort`), and a user lemma's score is a constant.

Assumptions of the run `life`: Sync puts all it has before it gets, as `sync.h` describes;
one synchronization fits into the preallocated room (`MergePastRoom = FALSE`; run `merge` is about
the other case), lookups have room for all results (`truncated` is about the other case), and no
lemma begins another (`prefix`).

Fairness: `FairSpec` lets every thread go on with the call it is in (weak fairness of `Step`), which
any scheduler that does not starve a thread gives. The lock needs more: another object may take and
release `g_mutex_` again and again, so `CloseLock` has strong fairness, that is,
`pthread_mutex_lock` returns to a thread that finds the mutex free infinitely often. Nothing is
assumed of the users: they need not open, change, look up or close anything.

## 4. Proofs

Every theorem holds for every value of the constants that its named assumptions allow.

| theorem | module | states |
|---|---|---|
| `RingCorrect`, `RingImplementsFifo` | `UserDictRingProofs` | the ring buffers stay in their arrays and implement the queue |
| `ShareCorrect`, `SavedEditsStay` | `UserDictShareProofs` | who shares the file keeps what was saved, the two races aside |
| `Invariant` | `UserDictProofs` | `UserDictInv`, the inductive invariant of the user dictionary and its file |
| `TypeCorrect`, `ArraysAgree`, `FreeSpaceAccounted`, `CloseSavesAll` | `UserDictProofs` | `TypeOK`, `IndexesAgree`, `FreeAccounting`, `WritesAll` of `UserDict` |
| `SearchInvariant` | `UserDictProofs` | `SearchInv`, the inductive invariant of the searches |
| `NoLemmaTwice`, `LookupsComplete` | `UserDictProofs` | `NoDuplicateLemma`, `LookupsFindAll` |
| `MapInvariant`, `MapImplemented` | `UserDictMapProofs` | `MapInv`, the inductive invariant of the refinement, and `ImplementsMap` |
| `TableAlwaysFindsAll`, `BuilderTypeOK` | `DictBuilderProofs` | `TableFindsAll`, `TypeOK` of `DictBuilder` |
| `EveryLemmaHasOneId` | `DictBuilderProofs` | `IdsGiven`: a build gives every lemma one id, in the order of the words |
| `RowKeepsBest` | `MatrixDecodeProofs` | what `extend_mtrx_nd` keeps and what it may drop |

**UserDictRingProofs** (assumption: `Size` is a natural number of at least 2). `TypeOK` alone is
not enough for a later lookup: that a slot in use was written is the second half of the invariant.
A save is split into a ring with a free slot besides `tail` and a full ring, where the head moves
(`SlotsAfterGrowth`, `SlotsAfterEviction`: how the k-th slot in use moves). The steps of the
refinement are that a save pushes (`SavePushes`), that the first slot with a signature from the head
on is the oldest entry with it (`LookupAgrees`), and that a reset empties.

**UserDictShareProofs** (assumptions: `Nobody` is not an object; the bound of the clock is a natural
number), for any number of objects and edits. That nothing saved is lost is not inductive. It needs
that a copy about to be written holds all the file does (`CurrentInv`), for which the time
comparison must be right, for which nobody else may stamp an update while one object compares or
writes (`LockInv`, `WritingInv`) and no time lies in the future (`TimeInv`). Each of these is a lemma
with one step per action. `SavedEditsStay` follows: a saved edit leaves the file only by one of the
two races named in `LostOnlyByRace`.

**UserDictProofs**. Assumptions, all in `UserDict`: `SizesAssumption` (both caches have at least two
slots, what a load preallocates fits the longest lemma) and `InputsAssumption` (lemmas and queries
have 1 to `kMaxLemmaSize` spellings; the client's buffer holds a natural number of lemmas; the limit Sync sets has a ratio below 100, as `reclaim` asserts
and `sync.cpp` gives it). The properties are not inductive. That index, table by id and predict list
name the same lemmas says nothing of the next reload, nor of what `defragment` needs. `UserDictInv`
says of the image that its blocks tile the lemma buffer (`Tiled`), that index, ids and predict list
are lists of them without repetition (`IndexSound`, `PredictsSound`), that cached ranges lie in the
index (`CachesSound`), and that the free counters are the sums they should be (`Accounted`). It says
the same of what the next load would make of the file (`FileSound`), and it says what a not so dirty
image has in common with the file (`Saved`): each dirty level is a promise about what need not be
written. `Saved` is what makes a partial write the whole image (`WriteBackAll`), and so what makes a
load give a sound image again. The argument for one action is a lemma about its operator over any
sound image (`AppendSound`, `RemoveSound`, `ReclaimSound`, `DefragmentSound`, `FlushSound`,
`PutSound`, `PutLemmaNoSyncSound`), then a lemma about the step. Two of them break an invariant in the
middle: `reclaim` can select one entry twice, so the counters are wrong until `defragment` sets them
to 0, which it does only if some entry is removed, so that the lemma about `reclaim` ends in *accounted
for, or something is removed*; and `put_lemma_no_sync` hides the sync list from a flush, so that the
list restored afterwards has other entries than the one in the file.

The second half of the module adds `SpellingsAssumption` (as many characters as spellings; the ids that a
place of a query stands for begin with its letter, as `prepare_locate` makes them) and, as a hypothesis
of its three theorems, `RoomForAll`: every lookup has room for more lemmas than there are. Without
it both properties fail, which run `truncated` shows on a lookup with room for one. `SearchInv` adds to
`UserDictInv` that the index is sorted by length and letters (`Sorted`), that no lemma is live twice
(`Single`), that a cached range begins at the first entry of its signature and reaches over the last
(`Covers`), that a signature in the miss cache has no entry (`CachesTrue`), and that all this will be
so after the next load (`OrderedFile`). None of them stands alone: a put adds a lemma only if the
search missed it, the search is right only on a sorted index with true caches (`LocateFinds`), the
range a lookup caches is right only if the index is sorted, and an insertion, which empties the
caches, keeps the index sorted. `BisectFindsFirst` is the binary search that remembers the last
prefix match it met: on a sorted index that is the first entry of the signature. `LocateFinds` needs
this also for the early break of the loop. It says that an entry of the lemma is found, not that
the entry found is one of the lemma, which is false (run `prefix`).

**UserDictMapProofs** proves the refinement: an image stands for its live lemmas with their scores
and for the lemmas of its sync list that are live (`Copy`), a file for what the next load makes of it,
and every step of `UserDict` is a step of `UserDictMap` or none. Each operation has a lemma about what
it does to the copy of any sound image (`PutCopy`, `RemoveCopy`, `RescoreCopy`, `FlushCopy`,
`DefragmentCopy`, `MergeCopy`, `TextsCopy`, `ClearCopy`), and each action one that names its step of
the map (`PutLemmaMaps`, `SyncPutMaps` and so on). `LocateExact` is the fact on which most rest: a
search for a lemma finds the entry of that lemma, not only some entry. It needs that a cached range
lists no lemma shorter than its signature, which is a part of `CachesTrue`.

`MapInv` adds three facts to `SearchInv`, and without any of them a step is lost. Every score has a
frequency of at least 1 (`ScoresPacked`): an entry that scores 0 gives no text, is skipped by
`get_lemmas`, and what `clear_last_got` then drops is not what was sent. The entries that were sent are
the first ones of the list, but for those that stand for no lemma (`SentFirst`): `clear_last_got` is
given only their number. And the room allocated in advance lasts for the lemmas left to merge
(`MergeRoom`): a merge that flushed would write the file while its sync list is hidden.

The hypotheses, together `MapAssumption`, are about inputs, and all hold in the run `life`.
Three of them are exactly what a run with an expected violation breaks:

| hypothesis | why | broken in run |
|---|---|---|
| `NoLemmaBeginsAnother` | `locate_in_offsets` compares as many characters as its argument has, so a put of a lemma that begins another can take that one for it | `prefix` |
| `RoomForAll` | a lookup cut short caches a range that is too short | `truncated` |
| `MergePastRoom = FALSE` | a synchronization adds no more lemmas than `kUserDictPreAlloc`; past that it flushes while the sync list is hidden | `merge` |
| `AverageIsLongest` | `kUserDictAverageNchar` is at least `kMaxLemmaSize`, both 8 in the code: otherwise the bytes end before the count | - |
| `ScoresInRange` | the server sends frequencies from 1 to `kUserDictMaxFrequency` | - |
| `~FileSound(NoFile)` | the file that is missing or not valid is not a sound one | - |

**DictBuilderProofs** (assumptions: `LinesAssumption`, a line has as many spellings as characters,
none of them empty, and its characters are numbers; `MaxLinesAssumption`, `HashLenAssumption`): a
spelling that was put is met by as many probes from its hash as the put made, whatever collided
before it. The invariant `TableInv` says that all the places probed before were taken and stay so.
`BuilderSound` adds the lemmas: before the build they are entries of the lexicon whose spellings the
table has, afterwards words and spellings of equal length. `EveryLemmaHasOneId` is about the sort of
the build. The order of words (`WordOrder`) is total, but two lemmas may have the same word, so a sort
by counting those below would give an id twice; `Place` counts the ties before as well, and
`PlacesExist` shows that the places are those of a permutation. `DictList` looks words up by halving and
relies on that order.

**MatrixDecodeProofs** (assumption: `MatrixAssumption`, a row has room for a node and less than the
pool, and the pruning score is a natural number, as `matrixsearch.h` and `matrixsearch.cpp` define
them) is about `extend_mtrx_nd`, which cuts in three ways: a row keeps `kMaxNodeARow` nodes, the loop
breaks at the first lemma worse than the best node by more than `PRUMING_SCORE`, and from the start
only `kMaxNodeARow` lemmas are looked at. `RowKeepsBest`: an old node is lost only from a row that is then
full of nodes that score no worse, and a lemma is left out only from such a row or if it is too
much worse; nothing else enters the row, which stays in order and in the pool, and the rest of the
matrix is untouched. The invariant of the loop is `Extended`. Two of its parts are what the two
shortcuts rest on: once the loop has stopped all later lemmas are too much worse, because the list is
sorted; and until then the first k nodes of the row score no worse than lemma k, so that after `kMaxNodeARow` turns there is
no room for a worse one. It is a theorem about the operator: its hypotheses `HoldsRow` (the row is in
order and in the pool) and `SortedItems` (the lemmas come best first) hold where a row is extended: `ExtendFrom`
extends the last row, empty at first, by lemmas just sorted, and `FixLemma` an emptied row by one
lemma. `HoldsRow` is part of the conclusion, so one extension leaves what the next needs. A pool that
is used up ends all extending, which the hypothesis about `used` leaves out.

Induction. The library's induction theorems take an operator as a parameter, which no installed
prover can instantiate. `Basics` states what the proofs need in its place: a set of natural numbers
that is not empty has a least element (`LeastNat`), a set with 0 and every successor has all numbers
up to a bound (`UpTo`). The loops of the code are recursive functions over `0..n`: that such a function
exists and what holds of all its rounds is shown with `UpTo` over the set of rounds of which it holds.

Model-checked only:

- `EvictsLowest` and `ReclaimsShare`: that the heap is one is an invariant of a loop over a tree in a
  sequence. With equal scores the order of eviction is not claimed: from three entries to reclaim
  on, of the scores 1, 3, 3 and 2 the heap keeps the 2 and drops both 3s, since `shift_down` stops at
  equal children. No comment says what reclaim does with ties, so this is not listed in section 6;
- what is said of the dictionary built (`LookupsAgree`, `ParserRoundTrip`, `WordsAgree`,
  `PredictionsComplete`): trees and lists that folds over operators build and other folds read; each
  fold needs an induction of its own over data, which takes an operator as a parameter;
- the invariants of `MatrixSearch`: beyond a row, which `RowKeepsBest` is about, they are about chains of
  pointers through both pools and about the segmentation read from them, through calls that are
  folds over letters and over dmis; two of the operators (`PathIds`, `Shorten`) are RECURSIVE, on which
  the SMT backend gives up;
- `FlushEnds`: liveness under fairness is out of the prover's reach;
- `PutAddsIfAbsent`, `MergeKeepsLemmas`, `ExtendsToEveryLemma`, `NothingLost` and
  `ChoiceFixesShown` do not hold.

## 5. Not modelled

- In UserDict: `total_nfreq` and `translate_score` (they only scale the scores shown to the decoder),
  the text search of `predict`, parsing and formatting of the synchronization text (a lemma either
  has a text or not), and failing allocations. A crash falls between two calls, not inside a write.
  `defragment` reads one element behind the index when the arrays are full; the value is not used.
- The comparison of `load_time_` in a lookup and the failing reload are in `UserDictShare` only: in
  `UserDict` the dictionary is open once at a time.
- Undefined reads: a sync entry that points at no lemma makes `get_lemmas` read whatever bytes are
  there; the model lets it give a text or not (`wild`).
- In UserDictShare the clock is never set back (two readings may be equal), and a write that a reset
  spoiled leaves any part of the writer's edits, in a file that validates or not. Both races are then
  marked (`slipped`), so nothing is claimed of what follows.
- In the decoder: scores are whole numbers given as constants, since `NGram` and the compensation for
  the length of a path (`sys_score_compensation_` and its like) are floating-point numerics; the
  hit counts of user lemmas (`update_lemma`) and `update_dict_freq`; the special case of *xi'an*
  (`set_xi_an_switch`), off by default; which predictions are made and in which order, beyond what
  `get_predicts` does to the buffer; opening, closing, flushing. The user dictionary of the decoder
  keeps its ids: reloads belong to `UserDict`.
- In the system dictionary: the finals (`ym` ids) of spellings and their scores, the switches that
  allow a letter as an initial, reading UTF-16, the list of valid characters, writing and reading the
  dictionary's file (the index that `load_dict` computes is modelled), `get_splids_parallel`, which
  nothing calls, and the parser's twin for 16-bit letters.
- Memory behind the pools: the counters of mile stones, marks, nodes and matches are checked where
  the code checks them, but no run fills a pool.
- All components without a module in `PROJECT.json`, for the reasons given there.

## 6. Where code and comments differ

- `prefix`: `atomdictbase.h` says of `put_lemma` that a lemma that does not exist is added. A lemma
  that begins a stored longer one is taken for it: `locate_in_offsets` compares with its argument's
  length. The longer one's score changes instead.
- `truncated`: `_get_lpis` caches the range it walked even if it stopped because the caller had no
  more room. The next put of a lemma behind the end of that range adds it a second time.
- `merge`: `put_lemma_no_sync` hides the sync list by a null pointer; when the put has to flush and
  the list is not empty, the write fails halfway and the next load resets the file.
- `share_lost`: the comment on `g_mutex_` says file load and write are thread-safe by it; validate,
  reset and the time stamp of a load run without it.
- `extend`: `atomdictbase.h` says that `extend_dict` returns 0 if it fails. A lookup in the user
  dictionary looks at one longer lemma only to decide whether something goes on; if that one has the
  letters of the query but another spelling, 0 is returned although the lemma behind it goes on.
- `stale_choice`: `pinyinime.h` says that `im_choose` makes a candidate fixed. `choose` and
  `cancel_last_choice` use the segmentation and the lemmas as the last `get_spl_start` left them. A client that does
  not ask for them between two choices, or between a cancel and a choice, fixes other lemmas
  than those of the sentence it was shown. It may also learn text it did not see, or make the code
  read elements never written.

Met while modelling the decoder and the system dictionary, kept in the models as the code has it, and
left out of the properties where they say so:

- `get_lemma_id` asserts that the word found stands behind the begin of the buffer. The
  first word of the list stands at the begin, and the assertion fails. `WordsAgree` leaves that word
  out. The only caller, `inner_predict`, asks for words of two and more characters, so it meets the
  case only in a list without one-character words.
- A comment in `prepare_candidates` says that a lemma that is the unfixed part of the
  sentence is not listed. After a cancel the candidates are made for the segmentation before it, and
  the sentence can stand among them.
- `pinyinime.h` says that a search goes on from the end of the common prefix, like adding
  letters one by one. When the common prefix ends inside the composing phrase, `reset_search` decodes
  only the phrase that is left, the letters between are never decoded, and the result is shorter.
- The comment in `choose` that the whole sentence is added as a user lemma holds only if some lemma of
  it was not the first choice.
- `get_predicts` zeroes a buffer it shares with the candidates; a choice after it takes lemma 0.
- `delsearch` counts `c_phrase_.sublma_num` below zero if the phrase has no sub-lemma left, and some
  sequences of choices and deletions fail the assertions of `merge_fixed_lmas`, `choose` and
  `extend_dmi`.
- `get_top_lemmas`, once its list is full, moves the last but one element without comparing it with the
  new lemma. The list is then out of order, later lemmas are compared with the wrong one, and only its
  best lemma is certain, where `dictdef.h` speaks of the items with the highest score.
- The last id of a dictionary has no word: `get_lemma_str` compares with `start_id_` of the next
  length, which is that id. `dictlist.h` says it gets the string for the given id.
- The index of the first spellings points at the spelling before where no lemma begins with one, while
  `dicttrie.h` says that the son of a spelling is found there. A range of spellings that begins or ends
  in such a gap may find less, or the wrong spelling; `LookupsAgree` names the condition (`GoodStart`).
- A word list whose lengths have a gap gives ids of the longer words to the wrong length
  (`NoSkippedLength`).

## 7. Plan

What is left, in this order:

1. `UserDictFile`: the single writes of `write_back_*` with a crash between any two, composed with
   `validate`, `reset` and `load`: which file states a restart can find.
2. Proofs: the pools of mile stones as lemmas over operators.
3. `UserDictScore`: packing of scores and times in 32 bits, the clamp of `update_lemma`,
   `total_nfreq`, `utf16le_atoll` and `utf16le_lltoa`, as operators checked over bounded inputs.
4. The decoder over `UserDict` in place of its own list of user lemmas, with reloads that give new
   ids; predictions; strings with more spellings than fit; pools that fill.
