CONSTANTS
  a1 = a1
  a2 = a2
  s1 = s1
  s2 = s2
  None = None
  Asks = {a1, a2}
  Followed = {a1}
  Targets = {"composer", "send"}
  Selectors = {s1, s2}
  Seed = s1
  Threshold = 2
  MaxMoves = 2
SPECIFICATION Spec
INVARIANTS
  EvidenceIsHonest
  PendingHasAProver
  HealerRespectsBreaker
CHECK_DEADLOCK FALSE
