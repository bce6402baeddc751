SPECIFICATION Spec
CONSTANTS
  None = None
  FoldName <- LowerCase
  Marks = {pending, written}
  Pending = pending
  Paths <- MCPaths
  Labels = {a, b}
  MaxEntries = 3
  Digits = {0, 1}
  HashDigits = 1
  Hash <- MCHash
INVARIANTS IndexIsSound
PROPERTIES EntriesStay ImplementsManifest
