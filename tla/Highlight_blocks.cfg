\* Two threads look up, parse and write code blocks of two grammars.
CONSTANTS
  t1 = t1
  t2 = t2
  c = c
  broken = broken
  Threads = {t1, t2}
  Grammars = {c, broken}
  Broken = {broken}
  NoGrammar = NoGrammar
  Code <- MCCode
  Matches <- MCMatches
  Sizes = {0, 1}
  Slots = 1
  LenMax = 3
  ReportMax = 1
  MaxBlocks <- MCMaxBlocks
  MaxCalls <- MCMaxCalls
  MaxCaptures <- MCMaxCaptures
SPECIFICATION Spec
INVARIANTS
  QueriesAreCompiledOnce
  MemoryIsSound
  SpansFollowCaptures
PROPERTIES
  QueriesStay
  EveryBlockIsWritten
CHECK_DEADLOCK FALSE
