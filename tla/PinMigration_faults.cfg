\* Two requests of one session, with every fault around them.
SPECIFICATION FairSpec
CONSTANTS
  Requests = {r1, r2}
  Accounts = {a, b}
  Nobody = Nobody
  Faults = {"transport", "remove", "evict", "expire", "cancel", "store"}
  MaxFaults = 2
CHECK_DEADLOCK FALSE
INVARIANTS InFlightExact BarrierMeansDurable CancellationsLeaveNothing
PROPERTIES OnlyReservedMoves EveryRequestEnds
