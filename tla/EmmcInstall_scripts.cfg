\* All four scripts in any order, with failing commands, interrupts and
\* power cuts.
SPECIFICATION FairSpec
CONSTANTS
  MaxFaults = 3
INVARIANTS
  TypeOK
  EndsAsReported
PROPERTIES
  WritesInOrder
  RestoreRepairs
