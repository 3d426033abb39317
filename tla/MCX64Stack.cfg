CONSTANTS
  BundleSize = 32
  CTXREG_TP_OFFSET = 16
  Calls <- StackCalls
SPECIFICATION ExecSpec
CHECK_DEADLOCK FALSE
INVARIANTS
  StackKept
