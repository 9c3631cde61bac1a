SPECIFICATION Spec
CONSTANTS
  Length = 5
  PERIOD = 2
  PERIODS = 2
  Channels = {"left"}
  BlockMeans = {0, 3}
  MaxXruns = 1
  MaxPcmErrors = 1
  Wanted <- MCWanted
  Drivers <- MCDrivers
  MaxRouteErrors = 1
INVARIANTS
  TypeOK
  PassMeansGapless
  MeanError
  SoakPassMeansBoth
  RouteComplete
