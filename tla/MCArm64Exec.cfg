CONSTANTS
  CTXREG_TP_OFFSET = 16
  Word <- MCWord
  da64_decode <- MCDecode
  Programs <- MCPrograms
SPECIFICATION Spec
INVARIANTS
  TypeOK
  ReservedKept
  AccessesInside
  FullStaysInside
  StoresStayInsideIfX30Kept
PROPERTIES
  FullLandsClean
