SPECIFICATION FairSpec
CONSTANTS
  N = 3
  NNodos = 4
  Base = 1
  Arranques <- VariosArranques
  MaxBloques = 4
  MaxTareas = 0
  MaxDisp = 0
INVARIANTS
  TypeOK
  PlanCorrecto
  BusquedaSana
PROPERTIES
  ImplementaAsignacion
  VueltaTermina
CHECK_DEADLOCK FALSE
