SPECIFICATION FairSpec
CONSTANTS
  Queries <- AskedFor
  MaxUnderWay = 2
  None = None
  Failed = Failed
CHECK_DEADLOCK FALSE
INVARIANTS TypeOK VerdictFollowsEvidence WinnerHasAdvantage ShownIsRecorded
PROPERTIES AnalysisEnds
