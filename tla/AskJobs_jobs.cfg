CONSTANTS
  j1 = j1
  j2 = j2
  j3 = j3
  t1 = t1
  t2 = t2
  s1 = s1
  None = None
  Jobs = {j1, j2, j3}
  Threads = {t1, t2}
  Sessions = {s1}
  LongQuestions = {j3}
SPECIFICATION JobsSpec
INVARIANTS
  OneAskPerConversation
  ShownTurnIsTheSentOne
  LoginExcludesJobs
PROPERTIES
  EveryJobFinishes
CHECK_DEADLOCK FALSE
