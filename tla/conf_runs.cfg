\* A library that checks what a program requires, which requires a package
\* of pkg-config too; interrupts and changes.
SPECIFICATION FairSpec
CONSTANTS
  Projects = {"lib", "prog"}
  Items <- RunItems
  Keys <- MCKeys
  Vars <- MCVars
  CheckVars <- MCCheckVars
  Result <- MCResult
  DeleteKeys <- MCDeleteKeys
  Fragment <- MCFragment
  Inline <- MCInline
  Guarded <- MCGuarded
  Paths <- MCPaths
  Checked <- LibChecks
  Required <- ProgRequires
  Preset <- NoPreset
  MayFail <- MCMayFail
  OrDefine = {}
  CustomCache <- NoCustomCache
  OwnCacheDir = FALSE
  None = None
  MayKill = TRUE
INVARIANTS TypeOK NegativesNotCached Coherent
PROPERTIES BlamedOnce FixAndRetry
