SPECIFICATION Spec
CONSTANTS
  q1 = q1
  q2 = q2
  A = A
  Questions = {q1, q2}
  Options = {A}
  Unanswered = Unanswered
  Absent = Absent
  Interval = 1
  MaxBatch = 1
  Tolerance = 0
  FirstQuestion = q1
  Deadline = 2
  Horizon = 2
  MaxFlights = 2
  MaxWrites = 2
  MaxLosses = 1
  MaxEvents = 3
INVARIANTS TypeOK AnsweredOnceIsKept TimeCountedOnce TimeWithinElapsed FlushedBeforePost
PROPERTIES ImplementsRecord
CHECK_DEADLOCK FALSE
