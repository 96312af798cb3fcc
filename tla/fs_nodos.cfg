SPECIFICATION FairSpec
CONSTANTS
  n1 = n1
  n2 = n2
  yama1 = yama1
  Nodos = {n1, n2}
  Yama = yama1
  Previos <- Arranques
  MaxHilos = 3
  MaxBajas = 1
INVARIANTS
  TypeOK
  SoloConocidos
  SocketPropio
  TotalesCompletos
  YamaAlDia
PROPERTIES
  EstableLlega
CONSTRAINT PocasCosas
CHECK_DEADLOCK FALSE
