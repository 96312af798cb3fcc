SPECIFICATION Spec
CONSTANTS
  m1 = m1
  m2 = m2
  n1 = n1
  n2 = n2
  n3 = n3
  r1 = r1
  r2 = r2
  r3 = r3
  Masters = {m1, m2}
  Bloques <- BloquesDos
  Otros <- OtrosDos
  Rondas <- RondasDos
SYMMETRY Iguales
CONSTRAINT UnoCruza
INVARIANTS
  TypeOK
  CompletoSinCruces
  SinDuplicados
  TransformacionPropia
  AlmacenadoEntero
CHECK_DEADLOCK FALSE
