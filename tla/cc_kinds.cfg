\* One of every kind of test, its real rounds, two processes.
SPECIFICATION OneSpec
CONSTANTS
  Req = {"func2 poll", "type off_t", "sizeof long", "dlopen dl", "mytest", "gawk", "cc"}
  Keys <- MCKeys
  KeyOf <- MCKeyOf
  Kind <- MCKind
  SizeOrder <- MCFullOrder
  Procs = {p1, p2}
  NoCacheValues = {"", "1"}
  None = None
  DeleteTmp = TRUE
  Overlap = FALSE
  CrashAt = {}
INVARIANTS TypeOK NoLitter
PROPERTIES MemoSpec
