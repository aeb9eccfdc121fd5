\* Lists of each of the six kinds, two of them with three elements, loops
\* included; trees of up to eight keys, one of them twice, six in a splay tree.
\* Files of up to four parts, the second line of a call may fail; three streams and two slots; buffers of up to
\* four bytes; two bytes to encode; sizes of a machine with few bits; two
\* signals, three of them from outside, calls and handlers four deep.
SPECIFICATION MCSpec
CONSTANTS
  NULL = NULL
  Junk = Junk
  Heads = {h1, h2}
  Nodes = {e1, e2, e3}
  Kinds <- MCKinds
  Elms <- MCElms
  Key <- MCKey
  Node = Node
  TreeKinds <- MCTreeKinds
  Params <- MCParams
  Ordinary = {"a"}
  MaxParts = 4
  FaultLines = {1, 2}
  Streams = {s1, s2, s3}
  MaxLines = 2
  Lengths = {1, 5}
  Failing = {0, 1, 2}
  Sizes = {0, 2, 5}
  BUFSIZ = 4
  FILEBUF_POOL_ITEMS = 2
  None = None
  MaxSiz = 4
  Pieces <- MCPieces
  MaxText = 4
  nv <- MCNames
  VisBytes <- MCVisBytes
  VisFlags <- MCVisFlags
  VisExtra = {35}
  MaxString = 2
  Limits = {0, 1, 2, 3, 5}
  SQRT_SIZE_MAX = 3
  NoBlock = NoBlock
  IntMax = 7
  Texts <- MCTexts
  Bounds <- MCBounds
  Amounts <- MCAmounts
  HnLengths = {4, 5, 6, 8}
  SuffixLens = {0, 1}
  Scales <- MCScales
  HnFlags <- MCHnFlags
  Sigs = {SIGTSTP, SIGTERM}
  Fatal = {SIGTERM}
  MaxDepth = 4
  MaxArrivals = 3
INVARIANTS Chained Checked Sorted Balanced Answers
           LinesRight LinesKept StringsRight VisRight NumbersRight
PROPERTIES Visited DefaultRaised
CHECK_DEADLOCK FALSE
