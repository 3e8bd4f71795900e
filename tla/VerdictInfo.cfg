SPECIFICATION Spec
CONSTANTS
  a1 = a1
  None = None
  Analyses <- OneAnalysis
  Streaming <- NoAnalysis
  Verdicts = {"STRONG BUY"}
  Prices = {100}
  FirstWait = 1
  SecondWait = 2
  InfoEnabled = TRUE
  PriceCanFail = FALSE
  WriteCanFail = FALSE
  MaxRestarts = 0
  MaxTime = 1
CHECK_DEADLOCK FALSE
INVARIANTS RecordedIsScheduled
