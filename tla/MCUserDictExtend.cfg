SPECIFICATION Spec
CONSTANTS
  Initial <- MCInitial
  kUserDictPreAlloc = 2
  kUserDictAverageNchar = 2
  kUserDictCacheSize = 4
  kUserDictMissCacheSize = 7
  kUserDictMaxFrequency = 1
  kMaxLemmaSize = 2
  Garbage = Garbage
  Lemmas <- ThreeLemmas
  Queries <- MCQueries
  LpiMaxs = {9}
  Times = {0}
  Counts = {1}
  Rooms = {1, 2}
  MergePastRoom = FALSE
  SyncLimit <- NeverReached
  NoFile = NoFile
  MaxLemmas = 4
  MaxSyncs = 1
INVARIANT ExtendsToEveryLemma
