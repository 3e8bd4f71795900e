SPECIFICATION FairSpec
CONSTANTS
  j1 = j1
  j2 = j2
  j3 = j3
  Jobs <- TwoJobs
  Runs <- TwoJobs
  Nobody = Nobody
  Absent = Absent
  None = None
  Blank = Blank
  Unlisted = "UNKNOWN"
  Tickers <- Listed
  Commodities = {"GAS"}
  Events = {"STRAIT", "EVT1", "EVT2"}
  Names <- AllNames
  Curated <- CuratedNames
  Registered = {"CHIP"}
  Filers = {"CHIP", "CAR"}
  Extractions <- ModelExtractions
  Priced = {"FAB", "CHIP"}
  SeedCompanies <- Companies
  SeedCommodities <- CommodityData
  SeedDepends <- DependsData
  SeedRequires <- RequiresData
  SeedEvents <- EventData
  Expected <- ExpectedTraces
  MaxScripts = 1
  KnownCompanies <- ParserCompanies
  KnownCommodities <- ParserCommodities
  Anchors = {None, "CHIP"}
  Batches <- ArticleBatches
  MaxQueries = 1
  Kinds = {"edgar", "calibration", "seed", "news", "trace"}
  TraceTargets = {"FAB", "GAS"}
  HopLimits = {2}
CHECK_DEADLOCK FALSE
INVARIANTS TypeOK SeedComplete NewCountedOnce IngestedIsLinked LostOnlyToGraph AnchorAlwaysTraced
PROPERTIES KnowledgeKept TraceFindsDownstream EveryRequestEnds
