\* Enables, exits, shutdowns, crashes and restarts around two requests.
SPECIFICATION FairSpec
CONSTANTS
  Requests = {r1, r2}
  OtherModes = {"disabled", "fallback"}
  NoEpoch = NoEpoch
  WaitLimit = 4
  MaxOps = 5
  MaxEpoch = 5
CHECK_DEADLOCK FALSE
INVARIANTS RequestsKeepTheirEpoch RoutedEpochIsDurable
PROPERTIES TransitionsEnd EveryRequestIsAnswered
