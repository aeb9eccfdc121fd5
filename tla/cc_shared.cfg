\* Two header tests whose files have the same name; killed anywhere but
\* inside the write of the result.
SPECIFICATION Spec
CONSTANTS
  Req = {"sys/b.h", "sys_b.h"}
  Keys <- MCKeys
  KeyOf <- MCKeyOf
  Kind <- MCKind
  SizeOrder <- MCShortOrder
  Procs = {p1, p2}
  NoCacheValues = {"", "1"}
  None = None
  DeleteTmp = FALSE
  Overlap = FALSE
  CrashAt <- AllButWrite
INVARIANTS OwnSource
PROPERTIES MemoSpec
