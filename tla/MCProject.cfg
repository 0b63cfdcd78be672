SPECIFICATION Spec
CONSTANTS
  w1 = w1
  w2 = w2
  Workers <- MCWorkers
  Processes = {w2}
  Tools = {tool}
  Libraries = {library}
  Summed = {tool}
  MaxJobs <- MCJobs
  MaxEdits = 1
  MaxFaults = 1
  Configs <- MCConfigs
  Declarations <- MCDeclarations
  UserPaths <- MCUserPaths
  MaxUserFiles = 2
  MaxIOFaults = 2
  CommandLines <- MCCommandLines
  Stores <- MCStores
  Paths = {"a", "b", "g", "h"}
  MaxSignals = 3
  Catalog <- MCCatalog
  TakesInterface <- MCTakesInterface
  Contracts <- MCContracts
  Home = "home"
  Base <- MCBase
  PackageName <- MCPackageName
  Suffixed <- MCSuffixed
  FileTexts <- MCFileTexts
  MaxChanges = 3
INVARIANTS
  EditsSurvive
  AllOrNothing
  OnlyOwnIsRemoved
  NothingOutlives
  ExitIsTrue
  LookupsAgree
  OffersHold
CHECK_DEADLOCK FALSE
