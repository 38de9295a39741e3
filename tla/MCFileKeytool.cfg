SPECIFICATION Spec
CONSTANTS
  Procs = {p1, p2}
  MaxSeeds = 3
PROPERTY KeytoolNeverOverwrites
CHECK_DEADLOCK FALSE
