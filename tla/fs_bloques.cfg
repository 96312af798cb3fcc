SPECIFICATION FairSpecBloques
CONSTANTS
  consola = consola
  w1 = w1
  n1 = n1
  n2 = n2
  n3 = n3
  Consola = consola
  Workers = {w1}
  Nodos = {n1, n2, n3}
  Orden <- Orden3
  Total = 2
  Ocupados <- Vacios
  Pedidos <- PedidosUnoYUno
  Resultados <- ConErrores
  MaxFallos = 1
  MaxOrdenes = 2
CONSTRAINT DosCosas

  
  
PROPERTIES
  BloquesTermina
CHECK_DEADLOCK FALSE
