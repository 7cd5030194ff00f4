CONSTANTS
  c1 = c1
  c2 = c2
  None = None
  NoFile = NoFile
  Callers = {c1, c2}
  Actors = {"dash", "cli", c1, c2}
  NumIds = 2
  NumLogins = 2
  Identity <- OnePerson
  MaxTrouble = 2
  MaxSessions = 1
  MaxCommands = 1
SYMMETRY SameRequests
SPECIFICATION Spec
INVARIANTS
  RegisteredHasItsFiles
  AnswersStayTrue
  TokenSpentOnce
PROPERTIES
  NewLoginSurvives
CHECK_DEADLOCK FALSE
