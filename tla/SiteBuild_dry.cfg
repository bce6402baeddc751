SPECIFICATION FairSpec
CONSTANTS
  None = None
  Torn = Torn
  Sources <- MCSources
  Bodies <- AllBodies
  Drafts <- MCDrafts
  OutOf <- MCOutOf
  LinkOf <- MCLinkOf
  AssetLinkers <- MCAssetLinkers
  Templates <- MCTemplates
  ContentTemplate = "page"
  IndexTemplate = "index"
  Partial = "partial"
  TemplateBodies <- MCTemplateBodies
  Includers <- MCIncluders
  ListReaders <- MCListReaders
  Recipes = {"r1"}
  Assets = {"a1"}
  Index = "index.html"
  Starts <- DryStarts
  FirstStamps <- MCFirstStamps
  Modes <- AllModes
  Edits = {"source", "output", "rename", "template"}
  MaxClock = 1
  MaxFaults = 1
  TemplateOrder <- MCTemplateOrder
  AllowCut = FALSE
INVARIANTS DryRunPredicts NothingToDo BuildCorrect CacheSound
PROPERTIES BuildEnds
