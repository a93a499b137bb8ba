SPECIFICATION Spec
CONSTANTS
  kMaxLemmaSize = 8
  kMaxMileStone = 100
  kMaxParsingMark = 600
  kMaxExtendBuf = 200
  HashLen = 5
  Lines <- MCLines
  MaxLines = 4
  kTopScoreLemmaNum = 2
  MaxRawLemma = 4
  MinPhraseFreq = 60
  Psb <- MCPsb
INVARIANTS
  TypeOK
  TableFindsAll
  LookupsAgree
  ParserRoundTrip
  WordsAgree
  PredictionsComplete
CHECK_DEADLOCK FALSE
