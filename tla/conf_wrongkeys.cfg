\* MKC_FUNC_OR_DEFINE.htobe32 = yes, MKC_CUSTOM_CACHE.mytest = mycache,
\* and a type checked twice, in one project; a package in another; both
\* have the same MKC_CACHEDIR in their makefiles and none in the environment.
SPECIFICATION Spec
CONSTANTS
  Projects = {"prog", "app"}
  Items <- WrongAndChecked
  Keys <- MCKeys
  Vars <- MCVars
  CheckVars <- MCCheckVars
  Result <- MCResult
  DeleteKeys <- MCDeleteKeys
  Fragment <- MCFragment
  Inline <- MCInline
  Guarded <- MCGuarded
  Paths <- MCPaths
  Checked <- OneChecks
  Required <- BothRequire
  Preset <- NoPreset
  MayFail <- MCMayFail
  OrDefine = {"htobe32"}
  CustomCache <- MyCache
  OwnCacheDir = TRUE
  None = None
  MayKill = FALSE
INVARIANTS SomeNotCached
