SPECIFICATION FairSpec
CONSTANTS
  consola = consola
  w1 = w1
  n1 = n1
  n2 = n2
  n3 = n3
  Consola = consola
  Workers = {w1}
  Nodos = {n1, n2, n3}
  Orden <- Orden3
  Total = 3
  Ocupados <- Vacios
  Pedidos <- PedidosDos
  Resultados <- ConErrores
  MaxFallos = 1
INVARIANTS
  UnaEnVuelo
  CopiasSeparadas
  MetadataCompleta
PROPERTIES
  ImplementaAlmacenamiento
  AlmacenaTermina
CHECK_DEADLOCK FALSE
