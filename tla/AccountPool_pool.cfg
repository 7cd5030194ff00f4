SPECIFICATION Spec
CONSTANTS
  acct1 = acct1
  acct2 = acct2
  cli = cli
  r1 = r1
  r2 = r2
  NoAccount = NoAccount
  NoReply = NoReply
  Modes = {"disabled", "fallback", "balanced"}
  Registration <- MCRegistration
  Ambient <- MCAmbient
  Serving = acct2
  Requests <- MCRequests
  Initially <- MCInitially
  Asks <- MCAsks
  Replies <- MCReplies
  RecordSizes <- MCRecordSizes
  Polls <- MCPolls
  FreshExact = 0
  FreshPlus5 = 1
  FreshPlus10 = 2
  GateMaxAge = 1
  MinCooldown = 1
  MaxCooldown = 3
  DefaultCooldown = 2
  RestoreMin = 1
  MaxBytes = 3
  RecordCap = 2
  TornBytes = 1
  MaxQuotas = 2
  MaxEvents = 2
CHECK_DEADLOCK FALSE
INVARIANTS
  ObedientClientIsServed
  LogIsSound
PROPERTIES
  AcknowledgedCooldownHolds
  EveryUsableAccountTried
