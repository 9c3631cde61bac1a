SPECIFICATION Spec
CONSTANTS
  PRAM = PRAM
  CRAM = CRAM
  OFREG = OFREG
  Nobody = Nobody
  Images <- MCImages
  Order <- MCOrder
  Streams = 2
  Requests = {"MUTE", "UNMUTE", "VOL14", "VOL28", "DAC_OFF", "HIZ"}
  FaultKinds = {"fail", "partial", "silent"}
  MaxFaults = 2
INVARIANTS
  TypeOK
  RunsVerified
  FlagAgrees
  ClosedMeansStopped
  StoppedMeansQuiet
PROPERTY MuteOrder
CHECK_DEADLOCK FALSE
