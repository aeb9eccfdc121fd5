\* Strings of any length over 29 bytes; fifteen sets of flags.
SPECIFICATION FairSpec
CONSTANTS
  Bytes <- MCBytes
  FlagSets <- MCFlagSets
  Extra = {35, 97}
  nv <- MCNames
INVARIANTS NothingLost
PROPERTIES RoundTrip Taken
CHECK_DEADLOCK FALSE
