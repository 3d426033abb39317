CONSTANTS
  CTXREG_TP_OFFSET = 16
  Word <- MCWord
  da64_decode <- MCDecode
  AddrSpan <- MCAddrSpan
  Calls <- AllCalls
SPECIFICATION FairSpec
CHECK_DEADLOCK FALSE
INVARIANTS
  TypeOK
  SuiteAgrees
  BoxMonotone
  VerdictExact
  ReportsExact
  AssertsPass
  PassComposes
PROPERTIES
  ImplementsVerdict
