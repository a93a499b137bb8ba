SPECIFICATION Spec
CONSTANTS
  Initial <- MCInitial
  kUserDictPreAlloc = 2
  kUserDictAverageNchar = 2
  kUserDictCacheSize = 4
  kUserDictMissCacheSize = 7
  kUserDictMaxFrequency = 2
  kMaxLemmaSize = 2
  Garbage = Garbage
  Lemmas <- ThreeLemmas
  Queries <- MCQueries
  LpiMaxs = {9}
  Times = {0}
  Counts = {2}
  Rooms = {1, 2}
  MergePastRoom = FALSE
  SyncLimit <- AtTwo
  NoFile = NoFile
  MaxLemmas = 3
  MaxSyncs = 2
INVARIANTS TypeOK IndexesAgree FreeAccounting WritesAll NoDuplicateLemma LookupsFindAll
PROPERTIES ImplementsMap
