SPECIFICATION MmuSpec
CONSTANTS
  p1 = p1  p2 = p2  c1 = c1  c2 = c2  d1 = d1
  Pid = {p1}
  Cpu = {c1}
  Nadie = Nadie
  NULL = NULL
  ENTRADAS_POR_TABLA = 2
  CANTIDAD_NIVELES = 2
  Desplazamiento = {d1}
  Dato = {0}
  Segundos = 2
  Puntual = TRUE
  Config <- ConfigDeTres
  Paginas <- Cuatro
  Marcos = 4
  Byte = 1
  Valor <- MCValor
  Cero <- CeroDe
INVARIANTS EntradasEnOrden VictimaDebida RecorridoExacto
CHECK_DEADLOCK FALSE
