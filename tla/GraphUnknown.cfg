SPECIFICATION Spec
CONSTANTS
  j1 = j1
  j2 = j2
  j3 = j3
  Jobs <- ThreeJobs
  Runs <- ThreeJobs
  Nobody = Nobody
  Absent = Absent
  None = None
  Blank = Blank
  Unlisted = "UNKNOWN"
  Tickers <- AllTickers
  Commodities = {"GAS"}
  Events = {"STRAIT", "EVT1", "EVT2"}
  Names <- AllNames
  Curated <- CuratedNames
  Registered = {"CHIP", "FAB"}
  Filers = {"CHIP", "FAB"}
  Extractions <- PrivateExtractions
  Priced = {"FAB", "CHIP"}
  SeedCompanies <- Companies
  SeedCommodities <- CommodityData
  SeedDepends <- DependsData
  SeedRequires <- RequiresData
  SeedEvents <- EventData
  Expected <- ExpectedTraces
  MaxScripts = 1
  KnownCompanies <- ParserCompanies
  KnownCommodities <- ParserCommodities
  Anchors = {None, "CHIP"}
  Batches <- ArticleBatches
  MaxQueries = 1
  Kinds = {"edgar", "trace"}
  TraceTargets = {"CHIP"}
  HopLimits = {2}
CHECK_DEADLOCK FALSE
INVARIANTS TracedIsStated
