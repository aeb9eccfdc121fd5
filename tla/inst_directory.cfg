\* A directory has the name of the file that is installed.
SPECIFICATION Spec
CONSTANTS
  s1 = s1
  i1 = i1
  i2 = i2
  s2 = s2
  t1 = t1
  t2 = t2
  Sources = {s1, s2}
  Targets = {t1, t2}
  Procs = {p1}
  Inodes = {i1, i2, i3, i4, i5, i6}
  Base <- MCBase
  Requests <- MCRequests
  SourceInode <- MCSourceInode
  InitialInode <- MCInitialInode
  InitialTargets <- SomeDirectory
  MayKill = FALSE
INVARIANTS OriginalFilename
CHECK_DEADLOCK FALSE
