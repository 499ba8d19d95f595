SPECIFICATION SpecJusta
CONSTANTS
  p1 = p1  p2 = p2  p3 = p3
  Pid = {p1, p2, p3}
  Tamanio <- Tamanios
  Total = 2
  Bloqueos = 1
INVARIANTS FichasLargo SinAvisoPerdido
PROPERTIES EntraOSeAtasca
CHECK_DEADLOCK FALSE
