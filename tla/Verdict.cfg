SPECIFICATION FairSpec
CONSTANTS
  a1 = a1
  None = None
  Analyses <- OneAnalysis
  Streaming <- OneAnalysis
  Verdicts = {"STRONG BUY", "SELL", "HOLD"}
  Prices = {100, 102, 103}
  FirstWait = 1
  SecondWait = 2
  InfoEnabled = FALSE
  PriceCanFail = TRUE
  WriteCanFail = TRUE
  MaxRestarts = 1
  MaxTime = 3
CHECK_DEADLOCK FALSE
INVARIANTS TypeOK ChecksAreRight
PROPERTIES ImplementsLedger ScheduledEnds
