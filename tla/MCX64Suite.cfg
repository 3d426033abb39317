CONSTANTS
  BundleSize = 32
  CTXREG_TP_OFFSET = 16
  Calls <- SuiteCalls
SPECIFICATION Spec
CHECK_DEADLOCK FALSE
INVARIANTS
  TypeOK
  SuiteAgrees
