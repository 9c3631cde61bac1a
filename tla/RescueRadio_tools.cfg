SPECIFICATION Spec
CONSTANTS
  Arguments <- MCArguments
  U32 = 65536
  MaxEvents = 1
  MaxErrors = 1
  MaxOrphans = 1
  MaxStations = 2
  Cycles = 1
  Seconds = 1
INVARIANTS
  TypeOK
  SuccessMeansScanned
PROPERTIES
  AnswersMatch
  CountsWhatWasFound
