SPECIFICATION FairSpec
CONSTANTS
  m1 = m1
  m2 = m2
  Masters <- UnMaster
  Nodos = {1, 2, 3}
  Caidos = {3}
  NBloques = 3
  Archivo <- ArchivoTres
  NrosCopia <- Nros
  Basuras <- Basura
  MaxFallos = 2
INVARIANTS
  FinRGConRegistro
  TareasContadas
PROPERTIES
  JobTermina
  RLTrasTransformaciones
  ImplementaTrabajo
CHECK_DEADLOCK FALSE
