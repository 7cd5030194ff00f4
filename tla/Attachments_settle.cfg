CONSTANTS
  f1 = f1
  f2 = f2
  Files = {f1, f2}
  MaxResponses = 5
SPECIFICATION AttachmentsSpec
PROPERTIES
  OnlyCompleteEvidencePasses
CHECK_DEADLOCK FALSE
