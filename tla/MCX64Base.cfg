CONSTANTS
  BundleSize = 32
  CTXREG_TP_OFFSET = 16
  Calls <- BaseCalls
SPECIFICATION ExecSpec
CHECK_DEADLOCK FALSE
INVARIANTS
  BaseKept
