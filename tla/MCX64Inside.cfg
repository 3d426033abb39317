CONSTANTS
  BundleSize = 32
  CTXREG_TP_OFFSET = 16
  Calls <- InsideCalls
SPECIFICATION ExecSpec
CHECK_DEADLOCK FALSE
INVARIANTS
  StaysInside
