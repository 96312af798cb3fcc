SPECIFICATION Spec
CONSTANTS
  x = x
  y = y
  Lugares = 3
  Nombres = {x, y}
  Rutas <- MCRutas
  Archivos = {x, y}
  Basuras <- MCBasuras
  MaxComandos = 4
INVARIANTS
  TypeOK
  EncontradoPorIndice
  ArchivosConDirectorio
PROPERTIES
  CrearSoloAgrega
CHECK_DEADLOCK FALSE
