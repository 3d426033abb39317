CONSTANTS
  CTXREG_TP_OFFSET = 16
  Word <- MCWord
  da64_decode <- MCDecode
  Programs <- StoresPrograms
SPECIFICATION Spec
INVARIANTS
  CleanWhereGuarded
