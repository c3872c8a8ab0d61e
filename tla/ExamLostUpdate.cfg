SPECIFICATION Spec
CONSTANTS
  q1 = q1
  q2 = q2
  A = A
  Questions = {q1, q2}
  Options = {A}
  Unanswered = Unanswered
  Absent = Absent
  Interval = 1
  MaxBatch = 2
  Tolerance = 1
  FirstQuestion = q1
  Deadline = 3
  Horizon = 4
  MaxFlights = 2
  MaxWrites = 2
  MaxLosses = 0
  MaxEvents = 4
CHECK_DEADLOCK FALSE
INVARIANTS GradedIsShown
