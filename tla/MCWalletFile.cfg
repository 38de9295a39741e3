SPECIFICATION Spec
CONSTANTS
  Procs = {p1, p2}
  MaxSeeds = 2
SYMMETRY Symmetry
  
PROPERTIES DoneIsDone
CHECK_DEADLOCK FALSE
