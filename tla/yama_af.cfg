SPECIFICATION FairSpec
CONSTANTS
  m1 = m1
  m2 = m2
  Masters <- UnMaster
  Nodos = {1, 2}
  Caidos = {2}
  NBloques = 1
  Archivo <- ArchivoUno
  NrosCopia <- Nros
  Basuras <- Basura
  MaxFallos = 1
PROPERTIES
  AFSeConfirma
CHECK_DEADLOCK FALSE
