SPECIFICATION Spec
CONSTANTS
  s1 = s1
  s2 = s2
  run = run
  st1 = st1
  st2 = st2
  q1 = q1
  q2 = q2
  None = None
  Sessions = {s1, s2}
  RunDoc <- OneRun
  StudentDoc <- TwoStudents
  QuestionDocs <- SharedQuestion
  Executions = 2
  Redelivered = {s1}
INVARIANTS UsageIsExact EffectsInOrder InsightIncludesSession QuestionsTogether AloneCountedOnce
CHECK_DEADLOCK FALSE
