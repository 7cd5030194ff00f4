\* Every operation, with failing and retried attempts, a crash and a reopening.
SPECIFICATION FairSpec
CONSTANTS
  PinKeys = {k1}
  AccountKeys = {}
  Incarnations = {i1}
  EpochBarrier = EpochBarrier
  None = None
  Kinds = {"upsert", "delete", "touch", "rotate", "invalidate", "deleteIncarnation", "restore"}
  MaxSeq = 3
  MaxFailures = 2
  MaxEpoch = 1
  MaxLives = 2
CHECK_DEADLOCK FALSE
INVARIANTS NoWaiterForgotten NoResurrection
PROPERTIES AppliedInOrder OkMeansApplied EveryWriteSettles
