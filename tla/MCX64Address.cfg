CONSTANTS
  BundleSize = 4
  CTXREG_TP_OFFSET = 16
  Calls <- LayoutCalls
SPECIFICATION Spec
CHECK_DEADLOCK FALSE
INVARIANTS
  AddrIsVaddrPlusOffset
