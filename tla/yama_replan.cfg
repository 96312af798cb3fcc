SPECIFICATION FairSpec
CONSTANTS
  m1 = m1
  m2 = m2
  Masters <- UnMaster
  Nodos = {1, 2}
  Caidos = {}
  NBloques = 1
  Archivo <- ArchivoUno
  NrosCopia <- Nros
  Basuras <- Basura
  MaxFallos = 1
PROPERTIES
  ReplanSeEjecuta
CHECK_DEADLOCK FALSE
