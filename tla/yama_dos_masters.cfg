SPECIFICATION Spec
CONSTANTS
  m1 = m1
  m2 = m2
  Masters <- DosMasters
  Nodos = {1, 2}
  Caidos = {}
  NBloques = 1
  Archivo <- ArchivosDos
  NrosCopia <- Nros
  Basuras <- Basura
  MaxFallos = 1
INVARIANTS
  FinTConRegistro
PROPERTIES
  TransformacionOkEsFinal
CHECK_DEADLOCK FALSE
