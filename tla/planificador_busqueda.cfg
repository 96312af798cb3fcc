SPECIFICATION FairSpec
CONSTANTS
  N = 3
  NNodos = 3
  Base = 1
  Arranques <- SoloClock
  MaxBloques = 4
  MaxTareas = 0
  MaxDisp = 0
PROPERTIES
  BusquedaTermina
CHECK_DEADLOCK FALSE
