SPECIFICATION Spec
CONSTANTS
  None = None
  Torn = Torn
  Sources <- MCSources
  Bodies <- SlugBodies
  Drafts <- MCDrafts
  OutOf <- MCOutOf
  LinkOf <- MCLinkOf
  AssetLinkers = {}
  Templates <- MCTemplates
  ContentTemplate = "page"
  IndexTemplate = "index"
  Partial = "partial"
  TemplateBodies <- MCTemplateBodies
  Includers <- MCIncluders
  ListReaders <- MCListReaders
  Recipes = {"r1"}
  Assets = {"a1"}
  Index = "index.html"
  Starts <- SlugStarts
  FirstStamps <- MCFirstStamps
  Modes <- RealModes
  Edits = {"swap"}
  MaxClock = 1
  MaxFaults = 0
  TemplateOrder <- MCTemplateOrder
  AllowCut = FALSE
INVARIANTS LinksAreCurrent
