\* Nothing is ingested: the technician has no book to pin.
SPECIFICATION PlaybookSpec
CONSTANTS
  Pdfs = {"corolla.pdf"}
  Trees = {"corolla"}
  Folder <- MCFolder
  Contents = {"first", "second"}
  PageTexts <- MCPageTexts
  Bad = Bad
  ImagesOnly = ImagesOnly
  Ingesters = {"i1"}
  EmbedModel <- MCEmbedModel
  Batch = 2
  MaxIngests = 0
  MaxSources = 0
  Technicians = {"ann"}
  Shops = {"garage"}
  Freelance = Freelance
  ShopOf <- MCShopOf
  Cars = {"vin1", "vin2"}
  Built <- MCBuilt
  Unnamed = Unnamed
  NoRow = NoRow
  Covers <- MCCovers
  ServerModel = "bge"
  Builders = {"b1"}
  MaxJobs = 2
  MaxBuilds = 1
INVARIANT MatchesAreSamePlatform
CHECK_DEADLOCK FALSE
