CONSTANTS
  None = None
  Provider = Provider
  LongIds <- Long
  Calls = {1, 2}
  MaxOutput = 5
  Pieces = 1
  Reveals <- Told
  Interleaved = {"message"}
SPECIFICATION Spec
INVARIANTS
  CallsReachTheClientWhole
  NothingLostOrRepeated
PROPERTIES
  StreamIsWellFormed
CHECK_DEADLOCK FALSE
