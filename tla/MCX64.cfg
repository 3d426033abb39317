CONSTANTS
  BundleSize = 4
  CTXREG_TP_OFFSET = 16
  Calls <- AllCalls
SPECIFICATION FairSpec
CHECK_DEADLOCK FALSE
INVARIANTS
  AddrTracks
  ArrivalsAreUnits
  CallsReturn
  CutsPass
  VerdictExact
  AssertMeansDisagreement
PROPERTIES
  ImplementsVerdict
