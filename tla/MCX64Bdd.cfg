CONSTANTS
  BITS = 2
  BUF = 3
  Tables <- MCTables
  Codes <- MCCodes
SPECIFICATION FairSpec
INVARIANTS
  TypeOK
  ReadsInBounds
  StackBounded
  LengthsExact
PROPERTY
  ImplementsLengths
CHECK_DEADLOCK FALSE
