SPECIFICATION Spec
CONSTANTS
  PRAM = PRAM
  CRAM = CRAM
  OFREG = OFREG
  Nobody = Nobody
  Images <- OneImage
  Order <- OneOrder
  Streams = 2
  Requests = {}
  FaultKinds = {"fail", "partial", "silent"}
  MaxFaults = 1
INVARIANT PrepareVerifies
CHECK_DEADLOCK FALSE
