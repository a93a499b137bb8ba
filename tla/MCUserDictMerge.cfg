SPECIFICATION Spec
CONSTANTS
  Initial <- MCInitial
  kUserDictPreAlloc = 2
  kUserDictAverageNchar = 2
  kUserDictCacheSize = 4
  kUserDictMissCacheSize = 7
  kUserDictMaxFrequency = 2
  kMaxLemmaSize = 2
  Garbage = Garbage
  Lemmas <- ThreeLemmas
  Queries = {}
  LpiMaxs = {}
  Times = {0}
  Counts = {2}
  Rooms = {1, 2}
  MergePastRoom = TRUE
  SyncLimit <- NeverReached
  NoFile = NoFile
  MaxLemmas = 4
  MaxSyncs = 2
PROPERTY MergeKeepsLemmas
