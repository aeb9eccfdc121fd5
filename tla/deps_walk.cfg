\* Every graph over four projects.
SPECIFICATION FairSpec
CONSTANTS
  Projects = {prog, libA, libB, libC}
  Asked = {prog}
  Graphs <- MCGraphs
INVARIANTS TypeOK LinkOrder Once Complete
PROPERTIES Ends
CHECK_DEADLOCK FALSE
