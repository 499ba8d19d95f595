SPECIFICATION FairSpec
CONSTANTS
  Pid = {0, 1, 2}
  Cpu = {c1, c2}
  MaxSyscalls = 0
  MaxDesalojos = 2
  Nada = Nada  OK = OK
  Puntual = TRUE
INVARIANTS InterrumpidosConReemplazo UnSoloEjecutor 
PROPERTIES DesalojoTermina NoSeDuerme
CHECK_DEADLOCK FALSE
