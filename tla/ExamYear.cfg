SPECIFICATION Spec
CONSTANTS
  r1 = r1
  r2 = r2
  s1 = s1
  s2 = s2
  s3 = s3
  st1 = st1
  Runs = {r1, r2}
  Sessions = {s1, s2, s3}
  RunOf <- SecondRun
  StudentOf <- OneStudent
  Attempts = {a1, a2}
  Lockers = {k1}
  QueryLimit = 2
  Deleted = Deleted
SYMMETRY Symmetry
INVARIANTS OneLiveSession RetryIsComplete
PROPERTIES LockedYearIsFinal
CHECK_DEADLOCK FALSE
