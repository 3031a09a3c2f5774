\* Pages of one row and histories of two, beside up to three edits.
CONSTANTS
  MaxIds = 4
  Ranks = {"Customer", "Supplier"}
  Natives = {"res.partner"}
  PageLimit = 1
  Variants = {1, 2, 3}
  Template <- TemplateSome
  Links <- SomeLinks
  Codes = {"P-1", "P-2"}
  FanOut = 1
  FewestRows = 2
  Posts <- SomePosts
  Dates = {1, 2}
  ChangesLimit = 2
  FirstPartners <- SomePartners
  FirstCodes <- CodesSome
  None = None
  MaxEdits = 3
SPECIFICATION Spec
INVARIANTS PagesComplete GetInScope SkuTrue ChangesWhole
