SPECIFICATION CloudSpec
CONSTANTS
  \* Accounts
  Emails = {"root", "ada"}
  Root = "root"
  Requests = {"r1", "r2"}
  Limit = 2
  Window = 3
  MaxClock = 4
  \* VehicleDecode
  Unknown = Unknown
  Names = {"toyota", "lexus", "corolla", "2008"}
  Answers <- MCAnswers
  Hints <- MCHints
  Plate <- MCPlate
  NoVehicle = NoVehicle
  NoDecode = NoDecode
  Calls = {"c1", "c2"}
  MaxCalls = 3
  \* ImportedReports
  Scopes = {"garage", "bob"}
  NoScope = NoScope
  Uploads = {"u1", "u2"}
  Downloads = {"d1"}
  MaxReports = 2
  \* ServerStart
  Procs = {"p1", "p2"}
  Files <- MCFiles
  Creates = {"001", "013"}
  Vector = "010"
  Resize = "011"
  Model = "012"
  Cards = {"volts"}
  Admins = {"a", "b"}
  Launches <- MCLaunches
  MaxStarts = 3
  \* ActionCatalog
  Titles = {"meter", "manual", "erase"}
  TitleWords <- MCTitleWords
  Fold <- MCFold
  Dropped = Dropped
  ActionKinds = {"test"}
  Playbooks <- MCPlaybooks
  Observers = {"o1", "o2"}
  Writers = {"w1", "w2"}
  MaxVariants = 1
  MaxGuides = 1
  MaxBegun = 3
  \* Manuals
  Pdfs = {"corolla.pdf"}
  Trees = {"corolla"}
  Folder <- MCFolder
  Contents = {"first", "second"}
  PageTexts <- MCPageTexts
  Bad = Bad
  ImagesOnly = ImagesOnly
  Ingesters = {"i1", "i2"}
  EmbedModel <- MCEmbedModel
  Batch = 2
  MaxIngests = 2
  MaxSources = 3
  \* PlaybookBuild
  Technicians = {"ann", "bob", "cid"}
  Shops = {"garage"}
  Freelance = Freelance
  ShopOf <- MCShopOf
  Cars = {"vin1", "vin2"}
  Built <- MCBuilt
  Unnamed = Unnamed
  NoRow = NoRow
  Covers <- MCCovers
  ServerModel = "bge"
  Builders = {"b1"}
  MaxJobs = 2
  MaxBuilds = 1
INVARIANTS
  TypeOK
  OneOpenTicket
  LeftBehindOnlyByRace
  VehicleBeforeRows
  FiledReportOpens
  AppliedOnce
  ReadyMeansMigrated
  OneRowPerMorph
  LinksOfLastSave
  VectorsOfTheIndex
  PromptInScope
  CosineOneModel
PROPERTIES
  DeskKeepsPromise
  NamesStay
  ManualStays
CHECK_DEADLOCK FALSE
