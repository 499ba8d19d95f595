SPECIFICATION Spec
CONSTANTS
  p1 = p1  p2 = p2  p3 = p3  a = a  b = b
  Pid = {p1, p2, p3}
  Paginas <- MCPaginas
  Marcos = 2
  Byte = 2
  Valor = {a, b}
  Cero = a
INVARIANTS MarcosRepartidos SlotsRepartidos SwapAcotado
PROPERTIES ImplementaVirtual
CHECK_DEADLOCK FALSE
