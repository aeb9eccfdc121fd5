\* Two installers at a time, failures and kills; a target may be
\* a hard or a symbolic link to a source.
SPECIFICATION Spec
CONSTANTS
  s1 = s1
  i1 = i1
  i2 = i2
  s2 = s2
  t1 = t1
  t2 = t2
  Sources = {s1, s2}
  Targets = {t1, t2}
  Procs = {p1, p2}
  Inodes = {i1, i2, i3, i4, i5, i6}
  Base <- MCBase
  Requests <- MCRequests
  SourceInode <- MCSourceInode
  InitialInode <- MCInitialInode
  InitialTargets <- FilesAndLinks
  MayKill = TRUE
INVARIANTS TypeOK NoLitter OwnCopy
PROPERTIES AtomicSpec
CHECK_DEADLOCK FALSE
SYMMETRY Symmetric
