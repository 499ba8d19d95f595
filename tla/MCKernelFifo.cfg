SPECIFICATION Spec
CONSTANTS
  p1 = p1  p2 = p2  p3 = p3  d1 = d1  d2 = d2  disco = disco
  Pid = {p1, p2, p3}
  Cpu = {c1, c2}
  Dispositivo = {d1, d2}
  Nombre = {disco}
  NombreDe <- MCNombreDe
  Presentes = {d1, d2}
  Fallan = {d1, d2}
  Tamanio <- MCTamanio
  Marcos = 2
  MaxSyscalls = 1
  Algoritmo = "FIFO"
INVARIANTS TypeOK FichasReady FichasCpu FichasNuevo ColasYEstado UnidadesYEstado BloqueadosYEstado ResidenciaYEstado DispositivoExclusivo EsperaJustificada
PROPERTIES  SinAdelantos ImplementaCiclo
CHECK_DEADLOCK FALSE
