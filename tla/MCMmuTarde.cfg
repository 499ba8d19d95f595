SPECIFICATION MmuSpec
CONSTANTS
  p1 = p1  p2 = p2  c1 = c1  c2 = c2  d1 = d1
  Pid = {p1, p2}
  Cpu = {c1}
  Nadie = Nadie
  NULL = NULL
  ENTRADAS_POR_TABLA = 2
  CANTIDAD_NIVELES = 1
  Desplazamiento = {d1}
  Dato = {0, 1}
  Segundos = 0
  Puntual = FALSE
  Config <- ConfigDeUna
  Paginas <- DosYUna
  Marcos = 3
  Byte = 1
  Valor <- MCValor
  Cero <- CeroDe
PROPERTIES VolcadoVigente
CHECK_DEADLOCK FALSE
