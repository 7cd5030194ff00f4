CONSTANTS
  a1 = a1
  a2 = a2
  Asks = {a1, a2}
  Limits = {1, 2}
  MaxLaunches = 2
  RecoveryIsOn = TRUE
SPECIFICATION Spec
INVARIANTS
  AdmissionsBalance
  ProfileGuarded
  FuturesHaveAnOwner
PROPERTIES
  StaysWithinLimit
  EveryCallEnds
CHECK_DEADLOCK FALSE
