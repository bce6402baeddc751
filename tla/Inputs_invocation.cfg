SPECIFICATION Spec
CONSTANTS
  MaxArgs = 3
  Arguments <- MCArguments
  Sites <- MCSites
  Sections <- MCSections
  Slugs <- MCSlugs
INVARIANTS
  InvocationIsAnswered
  ConfigIsUsable
  PermalinksAreSafe
  EntryIsItsSource
  EntriesAreOrdered
CHECK_DEADLOCK FALSE
