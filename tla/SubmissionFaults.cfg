SPECIFICATION Spec
CONSTANTS
  Requests = {r1, r2}
  Questions = {q1}
  Options = {A, B}
  Blank = Blank
  Ungraded = Ungraded
  MinTime = 1
  MaxTime = 2
  SpentBound = 3
  Hard = TRUE
  BackendSubmits = TRUE
  Faults = {"crash", "storage", "ackLost", "content"}
SYMMETRY Interchangeable
INVARIANTS GradeMatchesSheet RepliesAgree GradeIsTimely
PROPERTIES ImplementsContract
