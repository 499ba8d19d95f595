---------------------------- MODULE MemoriaProps ----------------------------
(***************************************************************************)
(* What memoria promises.                                                  *)
(***************************************************************************)
EXTENDS Memoria

\* Every used frame belongs to exactly one page of one process in memory, and
\* no frame is kept by a process that is in swap or gone: frames are neither
\* shared nor lost by creation, swapping and finishing (marcos.c:64-84,
\* manejo_swap.c:82-102 and 197-215, tablas.c:79-85).
MarcosRepartidos ==
    /\ \A p \in procesos_memoria :
          /\ DOMAIN tabla[p] = 1..Paginas[p]
          /\ \A i \in 1..Paginas[p] : tabla[p][i] \in bit_marcos
          /\ \A i, j \in 1..Paginas[p] :
                i # j => tabla[p][i] # tabla[p][j]
    /\ \A p, q \in procesos_memoria :
          p # q => Imagen(tabla[p]) \cap Imagen(tabla[q]) = {}
    /\ \A m \in bit_marcos :
          \E p \in procesos_memoria : m \in Imagen(tabla[p])
    /\ \A p \in Pid \ procesos_memoria : Imagen(tabla[p]) \subseteq {-1}

\* No process is in both lists, none that was never created is in one.
ListasDisjuntas ==
    /\ procesos_memoria \cap procesos_swap = {}
    /\ procesos_memoria \cup procesos_swap \subseteq creados

\* A process has as many slots of the swap file as pages while it is swapped
\* out, and none otherwise, however it left: by coming back or by ending
\* (manejo_swap.c:52-73 and 166-188, atencion_a_kernel.c:126-138).
SlotsRepartidos ==
    /\ \A p \in Pid : Cardinality(SlotsDe(p)) =
                         IF p \in procesos_swap THEN Paginas[p] ELSE 0
    /\ Len(swapfile) = Len(lista_swap)

\* The pages of the processes of S.
PaginasDe(S) == UNION {{p} \X (1..Paginas[p]) : p \in S}

\* Holes are used again: the swap file never has more slots than the pages
\* of all the processes that were ever created, however often they come and
\* go (obtener_espacios_swap, manejo_swap.c:52-80).
SwapAcotado == Len(lista_swap) <= Cardinality(PaginasDe(creados))

\* memoria implements the pages that processes see, with their contents in
\* frames or in the slots of the swap file.
ContenidoDe(p) ==
    IF p \in procesos_memoria
    THEN [i \in 1..Paginas[p] |-> espacio_usuario[tabla[p][i]]]
    ELSE IF p \in procesos_swap
    THEN LET g == CHOOSE g \in PrimerosDe(SlotsDe(p), Paginas[p]) : TRUE
         IN  [i \in 1..Paginas[p] |-> swapfile[g[i]]]
    ELSE <<>>

Virtual == INSTANCE MemoriaVirtual WITH
              contenido <- [p \in Pid |-> ContenidoDe(p)],
              vivos <- procesos_memoria \cup procesos_swap
ImplementaVirtual == Virtual!Spec
=============================================================================
