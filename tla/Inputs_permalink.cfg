SPECIFICATION Spec
CONSTANTS
  MaxArgs = 1
  Arguments <- MCArguments
  Sites <- MCSites
  Sections <- MCSections
  Slugs <- MCSlugs
INVARIANT RejectedOutputKeyStopsTheBuild
CHECK_DEADLOCK FALSE
