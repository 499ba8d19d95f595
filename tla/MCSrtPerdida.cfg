SPECIFICATION FairSpec
CONSTANTS
  Pid = {0, 1}
  Cpu = {c1}
  MaxSyscalls = 0
  MaxDesalojos = 1
  Nada = Nada  OK = OK
  Puntual = FALSE
PROPERTIES DesalojoTermina
CHECK_DEADLOCK FALSE
