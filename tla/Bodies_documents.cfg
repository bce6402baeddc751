SPECIFICATION Spec
CONSTANTS
  Documents <- MCDocuments
  MaxDepth = 6
  MaxSpans = 2
  MaxCode = 3
CHECK_DEADLOCK FALSE
INVARIANTS
  BodyIsWellFormed
  MarkedTextIsWrittenOnce
  NameIsWrittenOnce
  CoderefsMarkTheirLines
