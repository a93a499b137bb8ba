SPECIFICATION Spec
CONSTANTS
  Initial <- MCInitial
  kUserDictPreAlloc = 10
  kUserDictAverageNchar = 1
  kUserDictCacheSize = 4
  kUserDictMissCacheSize = 7
  kUserDictMaxFrequency = 2
  kMaxLemmaSize = 1
  Garbage = Garbage
  Limit = 5
  Grades = {1, 2, 3, 4, 5}
  Ratios = {60, 80}
  Lemma <- MCLemma
  EmptyDict <- MCEmptyDict
PROPERTIES EvictsLowest ReclaimsShare
CHECK_DEADLOCK FALSE
