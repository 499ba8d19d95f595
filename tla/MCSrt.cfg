SPECIFICATION Spec
CONSTANTS
  Pid = {0, 1, 2}
  Cpu = {c1, c2}
  MaxSyscalls = 1
  MaxDesalojos = 2
  Puntual = FALSE
  Nada = Nada  OK = OK
SYMMETRY Simetria
INVARIANTS UnaPorCpu CadaUnoEnSuLugar DesalojoEnCurso SinPunteroNulo FichasCpu
CHECK_DEADLOCK FALSE
