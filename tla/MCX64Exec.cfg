CONSTANTS
  BundleSize = 4
  CTXREG_TP_OFFSET = 16
  Calls <- MCCalls
SPECIFICATION ExecSpec
CHECK_DEADLOCK FALSE
INVARIANTS
  ExecTypeOK
  OnlyChecked
  NeverEscapes
  BaseKeptIfCounted
  StackKeptIfWritten
  InsideIfWritten
