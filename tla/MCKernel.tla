------------------------------ MODULE MCKernel ------------------------------
EXTENDS KernelProps

CONSTANTS p1, p2, p3, d1, d2, disco

\* p2 fills memoria by itself, so that admission has to wait.
MCTamanio == [p \in Pid |-> IF p = p2 THEN 2 ELSE 1]
MCNombreDe == [d \in Dispositivo |-> disco]
=============================================================================
