SPECIFICATION Spec
CONSTANTS
  None = None
  Old = Old
  Nodes <- MCNodes
  Root = "root"
  Names <- MCNames
  EntryName <- FoldCase
  Up = ".."
  LinkMax = 3
  FoldName <- FoldCase
  RootDirs <- MCRootDirs
  ConfigPath <- MCConfig
  Starts <- MCStarts
  MaxFaults = 1
INVARIANTS InputsAreSafe OutputsFit PruneIsExact PrunePredicted
PROPERTIES PruneStaysInside
