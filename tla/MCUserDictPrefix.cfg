SPECIFICATION Spec
CONSTANTS
  Initial <- MCInitial
  kUserDictPreAlloc = 2
  kUserDictAverageNchar = 3
  kUserDictCacheSize = 4
  kUserDictMissCacheSize = 7
  kUserDictMaxFrequency = 2
  kMaxLemmaSize = 3
  Garbage = Garbage
  Lemmas <- PrefixLemmas
  Queries = {}
  LpiMaxs = {}
  Times = {0}
  Counts = {2}
  Rooms = {1, 2}
  MergePastRoom = FALSE
  SyncLimit <- NeverReached
  NoFile = NoFile
  MaxLemmas = 3
  MaxSyncs = 2
PROPERTY PutAddsIfAbsent
