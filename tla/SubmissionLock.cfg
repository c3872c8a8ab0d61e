SPECIFICATION FairSpec
CONSTANTS
  Requests = {r1, r2, r3}
  Questions = {q1}
  Options = {A}
  Blank = Blank
  Ungraded = Ungraded
  MinTime = 1
  MaxTime = 1
  SpentBound = 2
  Hard = TRUE
  BackendSubmits = FALSE
  Faults = {"content"}
INVARIANTS OneHolder LockHasHolder
PROPERTIES LockIsReleased
