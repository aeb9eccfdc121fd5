\* Killed between truncating the result file and writing it.
SPECIFICATION Spec
CONSTANTS
  Req = {"a.h"}
  Keys <- MCKeys
  KeyOf <- MCKeyOf
  Kind <- MCKind
  SizeOrder <- MCShortOrder
  Procs = {p1, p2}
  NoCacheValues = {""}
  None = None
  DeleteTmp = FALSE
  Overlap = FALSE
  CrashAt = {"write"}
INVARIANTS HeaderPrintsBit
