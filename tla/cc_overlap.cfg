\* Tests run twice at once, against the documented discipline.
SPECIFICATION FairSpec
CONSTANTS
  Req = {"sizeof long", "mytest"}
  Keys <- MCKeys
  KeyOf <- MCKeyOf
  Kind <- MCKind
  SizeOrder <- MCShortOrder
  Procs = {p1, p2}
  NoCacheValues = {""}
  None = None
  DeleteTmp = TRUE
  Overlap = TRUE
  CrashAt = {}
PROPERTIES Terminates
