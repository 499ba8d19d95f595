----------------------------- MODULE MCMemoria -----------------------------
EXTENDS MemoriaProps

CONSTANTS p1, p2, p3, a, b

MCPaginas == [p \in Pid |-> IF p = p1 THEN 2 ELSE 1]
=============================================================================
