SPECIFICATION Spec
CONSTANTS
  kMaxLemmaSize = 2
  kMaxMileStone = 100
  kMaxParsingMark = 600
  kMaxExtendBuf = 200
  kMaxLpiCachePerId = 15
  Initial <- MCInitial
  Dict <- MCDict
  kTopScoreLemmaNum = 2
  Psb <- MCPsb
  kMaxRowNum = 40
  kMaxNodeARow = 3
  kMtrxNdPoolSize = 200
  kDmiPoolSize = 800
  kMaxPinyinSize = 6
  kMaxLmaPsbItems = 1450
  PRUMING_SCORE = 8000
  kUserDictIdStart = 100
  kLemmaIdComposing = 200
  UserPsb = 35
  InitialUser <- MCUser
  Strings <- MCStrings
  MaxSplNum = 26
  Blank <- NoPos
  MaxCalls = 5
CHECK_DEADLOCK FALSE
INVARIANTS
  TypeOK
  PathsLinked
  MileStonesLive
  ScoresAreBest
  ChosenTextKept
PROPERTIES
  SameAsFresh
  CandidatesExact
  DeletionKeepsText
  CancelUndoes
  LearnedWasShown
