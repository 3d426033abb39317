CONSTANTS
  Arches = {"x64", "arm64"}
  INPUTMAX = 3
  UintSpan = 4
  Code <- MCCode
  lfiv_verify <- MCVerify
  CommandLines <- MCCommandLines
SPECIFICATION FairSpec
INVARIANTS
  TypeOK
  OutcomesExact
  StatusExact
  EveryFileJudged
  LeaksAreRejections
PROPERTY
  ImplementsBatch
