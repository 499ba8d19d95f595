------------------------------- MODULE MCMmu -------------------------------
EXTENDS MmuProps

CONSTANTS p1, p2, c1, c2, d1

MCValor == [Desplazamiento -> Dato]
CeroDe == [d \in Desplazamiento |-> 0]

Configuracion(n, a, m, b) ==
    [entradas_cache |-> n, algoritmo_cache |-> a,
     entradas_tlb |-> m, algoritmo_tlb |-> b]

\* Two processes: the first has one page more than the cache and the TLB.
DosYUna == [p \in Pid |-> IF p = p1 THEN 2 ELSE 1]

ConfigDeUna == {Configuracion(1, "CLOCK-M", 1, "FIFO"),
                Configuracion(0, "CLOCK", 1, "LRU")}

\* One process: a page more than a cache of three and than a TLB of two.
Cuatro == [p \in Pid |-> 4]

ConfigDeTres == {Configuracion(3, "CLOCK", 0, "FIFO"),
                 Configuracion(3, "CLOCK-M", 0, "FIFO"),
                 Configuracion(2, "CLOCK-M", 2, "FIFO"),
                 Configuracion(0, "CLOCK", 2, "LRU")}
=============================================================================
