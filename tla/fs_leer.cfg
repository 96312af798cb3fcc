SPECIFICATION FairSpec
CONSTANTS
  n1 = n1
  n2 = n2
  fa = fa
  fb = fb
  fc = fc
  r1 = r1
  r2 = r2
  otra = otra
  Nodos <- MCNodos
  Total = 4
  Archivos <- MCArchivos
  Copias <- MCCopias
  Rutas <- MCRutas
  Otra = otra
  Comandos <- MCComandos
  MaxComandos = 3
  MaxFallos = 2
INVARIANTS
  TypeOK
  Md5Correcto
  
PROPERTIES
  
  LecturaTermina
CHECK_DEADLOCK FALSE
