--------------------------- MODULE TablaDePaginas ---------------------------
(***************************************************************************)
(* The multilevel page table of a process, as memoria makes it and walks   *)
(* it: a table is the sequence of its entries, which are tables but for    *)
(* those of the last level, which are pages.  A page is its nro_pagina;    *)
(* the frame that nro_pagina has is tabla of module Memoria.  Sources:     *)
(* memoria/src/tablas.c, the loops over a table in marcos.c, manejo_swap.c *)
(* and lectura_escritura.c, and obtener_lista_accesos in cpu/src/cpu.c.    *)
(*                                                                         *)
(* e is ENTRADAS_POR_TABLA and n is CANTIDAD_NIVELES of a configuration.   *)
(***************************************************************************)
EXTENDS Integers, Sequences, SequencesExt

CONSTANT NULL

ASSUME TablaAssumption == NULL \notin Nat

\* The pages that a whole table of n levels has: e to the n.
CapacidadDe(e, n) ==
    LET potencia[i \in 0..n] == IF i = 0 THEN 1 ELSE e * potencia[i - 1]
    IN  potencia[n]

\* The loop of a table made when there are k pages: it adds what the level
\* below makes (hijo) while it has room and pages are left.
Entradas(e, hijo, total, k) ==
    LET hasta[i \in 0..e] ==
          IF i = 0 THEN [nodo |-> <<>>, contador |-> k]
          ELSE LET t == hasta[i - 1] IN
               IF t.contador = total THEN t
               ELSE [nodo |-> Append(t.nodo, hijo[t.contador].nodo),
                     contador |-> hijo[t.contador].contador]
    IN  hasta

\* What each level makes when there are k pages, a table or below the last
\* one a page, and how many pages there are then.
Nodos(e, n, total) ==
    LET crear[nivel \in 1..(n + 1)] ==
          [k \in 0..(total - 1) |->
             IF nivel = n + 1 THEN [nodo |-> k, contador |-> k + 1]
             ELSE Entradas(e, crear[nivel + 1], total, k)[e]]
    IN  crear

\* crear_tabla_multinivel for a process of total pages.
CrearTabla(e, n, total) ==
    IF total = 0 THEN NULL ELSE Nodos(e, n, total)[1][0].nodo

\* The pages of a table in the order in which the loops over it find them:
\* asignar_marcos_a_tabla, the copies to and from swap, the dump and
\* liberar_tablas.
Hojas(n, raiz) ==
    LET bajar[nivel \in 1..n] ==
          IF nivel = 1 THEN raiz ELSE FlattenSeq(bajar[nivel - 1])
    IN  bajar[n]

\* Faulty variant: the levels from the last one on.
AccesosAlReves(e, n, nro_pagina) ==
    [i \in 1..n |-> (nro_pagina \div CapacidadDe(e, i - 1)) % e]

\* obtener_lista_accesos of the CPU: the entry to take in each level.
Accesos(e, n, nro_pagina) ==
    [i \in 1..n |-> (nro_pagina \div CapacidadDe(e, n - i)) % e]

\* The tables that a walk goes through, from the root on.
Camino(n, raiz, accesos) ==
    LET actual[i \in 0..n] ==
          IF i = 0 THEN raiz ELSE actual[i - 1][accesos[i] + 1]
    IN  actual

\* Faulty variant: the last entry of a table counts as beyond it.
BuscarSinLaUltima(n, raiz, accesos) ==
    LET actual == Camino(n, raiz, accesos)
    IN  IF \A i \in 1..n : accesos[i] + 1 < Len(actual[i - 1])
        THEN actual[n] ELSE NULL

\* buscar_pagina, which is asked of tables that exist: NULL as soon as an
\* entry is beyond its table.
BuscarPagina(n, raiz, accesos) ==
    LET actual == Camino(n, raiz, accesos)
    IN  IF \A i \in 1..n : accesos[i] < Len(actual[i - 1])
        THEN actual[n] ELSE NULL

-----------------------------------------------------------------------------
\* In a table for total pages, the loops find the pages in order, the entries
\* that a CPU cuts out of a nro_pagina lead to that page and no other, and
\* those of a nro_pagina beyond the last one lead nowhere.
TablaExacta(e, n, total) ==
    LET raiz == CrearTabla(e, n, total) IN
    /\ Hojas(n, raiz) = [k \in 1..total |-> k - 1]
    /\ \A nro \in 0..(CapacidadDe(e, n) - 1) :
          BuscarPagina(n, raiz, Accesos(e, n, nro))
             = IF nro < total THEN nro ELSE NULL
=============================================================================
