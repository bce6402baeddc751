SPECIFICATION Spec
CONSTANTS
  None = None
  Torn = Torn
  Sources <- MCSources
  Bodies <- PathBodies
  Drafts <- MCDrafts
  OutOf <- MCOutOf
  LinkOf <- MCLinkOf
  AssetLinkers <- MCAssetLinkers
  Templates <- MCTemplates
  ContentTemplate = "page"
  IndexTemplate = "index"
  Partial = "partial"
  TemplateBodies <- MCTemplateBodies
  Includers <- MCIncluders
  ListReaders <- MCListReaders
  Recipes = {"r1", "r2"}
  Assets = {"a1", "a2"}
  Index = "index.html"
  Starts <- LinkStarts
  FirstStamps <- MCFirstStamps
  Modes <- RealModes
  Edits = {"source", "rename", "swap", "template", "create", "output", "config", "asset"}
  MaxClock = 2
  MaxFaults = 0
  TemplateOrder <- MCTemplateOrder
  AllowCut = FALSE
INVARIANTS TypeOK BuildCorrect CacheSound
PROPERTIES ChangesAreChecked
