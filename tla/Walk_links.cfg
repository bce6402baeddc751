SPECIFICATION Spec
CONSTANTS
  None = None
  Old = Old
  Nodes <- MCNodes
  Root = "root"
  Names <- MCNames
  EntryName <- MCEntryName
  Up = ".."
  LinkMax = 3
  ByteOrder <- MCByteOrder
  Trees <- WalkTrees
  Searches <- WalkSearches
INVARIANTS ListIsExact PrefersRealPaths
