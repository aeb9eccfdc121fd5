\* Eight goals, two jobs, with and without -k.
SPECIFICATION FairSpec
CONSTANTS
  Dirs <- MCDirs
  Existing = {"libs/pub", "libs/int", "prog", "libs/old"}
  Tails <- MCTails
  Graphs <- MCGraphs
  Default <- MCDefault
  NoSubdir = {"libs/old"}
  InternalLibs = {"int"}
  NoDeps <- MCNoDeps
  Targets = {"all", "install", "test"}
  MkInstall = TRUE
  Jobs = 2
  Goals <- MCGoals
INVARIANTS TypeOK Ordered Excluded Complete
PROPERTIES Ends
