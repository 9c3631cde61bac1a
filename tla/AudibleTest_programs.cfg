SPECIFICATION FairSpec
CONSTANTS
  Programs = {"audible_test", "channel", "melody", "music", "sweep", "sweep_high",
              "mute_ab", "dac_mute_ab", "analog_boundary", "lineout_volume",
              "lineout_selfcheck", "i2s_clock_ab"}
  Late = {0, 256}
  Stalls = {5120, 25600}
  MaxStalls = 1
  MaxFaults = 1
INVARIANTS
  TypeOK
  StatusTells
  GentleAtPeak32
PROPERTIES
  EndsQuietly
  Ends
CHECK_DEADLOCK FALSE
