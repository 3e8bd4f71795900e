SPECIFICATION Spec
CONSTANTS
  good = good
  bad = bad
  Keys <- MCKeys
  ValidKey = good
  Limit = 3
  Window = 3
  MaxTime = 8
INVARIANTS
  TypeOK
  WindowBound
  RejectedOnlyWhenFull
  LiveAdmissionsKept
