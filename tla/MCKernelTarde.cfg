SPECIFICATION FairSpec
CONSTANTS
  p1 = p1  p2 = p2  p3 = p3  d1 = d1  d2 = d2  disco = disco
  Pid = {p1, p2, p3}
  Cpu = {c1}
  Dispositivo = {d1, d2}
  Nombre = {disco}
  NombreDe <- MCNombreDe
  Presentes = {d1}
  Fallan = {}
  Tamanio <- MCTamanio
  Marcos = 2
  MaxSyscalls = 1
  Algoritmo = "SJF"
PROPERTIES Termina
CHECK_DEADLOCK FALSE
