------------------------------ MODULE Memoria ------------------------------
(***************************************************************************)
(* The memoria module: frames, page tables, the swap file and the requests *)
(* of the kernel and of the CPUs.  Sources: memoria/src/atencion_a_kernel, *)
(* marcos, tablas, proceso, manejo_swap, lectura_escritura.                *)
(*                                                                         *)
(* Grain of atomicity.  The kernel makes every request with mutex_pcb held *)
(* and waits for the answer, so its requests never overlap; those of the   *)
(* CPUs do overlap them, but they only touch frames of running processes,  *)
(* which no request of the kernel moves.  One request is one action.       *)
(*                                                                         *)
(* Data.  The contents of a page is one value.  A page table is its        *)
(* sequence of leaves: the levels above only number them.  A process is    *)
(* measured in pages.                                                      *)
(***************************************************************************)
EXTENDS Integers, Sequences, FiniteSets

CONSTANTS
    Pid,
    Paginas,    \* the pages of each process
    Marcos,     \* marcos_totales: TAM_MEMORIA / TAM_PAGINA
    Byte,       \* the bits of a byte of bit_marcos: 8 in the code
    Valor,      \* what a page may hold
    Cero        \* what calloc leaves in it

ASSUME MemoriaAssumption ==
    /\ Paginas \in [Pid -> Nat]
    /\ Marcos \in Nat /\ Byte \in Nat \ {0}
    /\ Cero \in Valor
    /\ -1 \notin Pid

VARIABLES
    bit_marcos,         \* the frames marked as used
    espacio_usuario,    \* the contents of each frame
    procesos_memoria, procesos_swap,
    creados,            \* pids are never used twice
    tabla,              \* marco_asignado of each page; <<>> without a table
    lista_swap,         \* the pid that holds each slot of the file, or -1
    swapfile,           \* the contents of each slot
    volcado             \* the last dump file

marcoVars == <<bit_marcos, espacio_usuario, tabla>>
listaVars == <<procesos_memoria, procesos_swap, creados>>
swapVars  == <<lista_swap, swapfile>>
vars == <<marcoVars, listaVars, swapVars, volcado>>

\* bit_marcos has whole bytes: with a number of frames that is no multiple
\* of Byte, the bits left over are frames that do not exist.
Bits == Byte * ((Marcos + Byte - 1) \div Byte)
Marco == 0..(Bits - 1)

TypeOK ==
    /\ bit_marcos \in SUBSET Marco
    /\ espacio_usuario \in [Marco -> Valor]
    /\ procesos_memoria \in SUBSET Pid
    /\ procesos_swap \in SUBSET Pid
    /\ creados \in SUBSET Pid
    /\ tabla \in [Pid -> Seq(Marco \cup {-1})]
    /\ lista_swap \in Seq(Pid \cup {-1})
    /\ swapfile \in Seq(Valor)
    /\ volcado \in Seq(Valor)

Init ==
    /\ bit_marcos = {}
    /\ espacio_usuario = [m \in Marco |-> Cero]
    /\ procesos_memoria = {} /\ procesos_swap = {} /\ creados = {}
    /\ tabla = [p \in Pid |-> <<>>]
    /\ lista_swap = <<>> /\ swapfile = <<>> /\ volcado = <<>>

-----------------------------------------------------------------------------
Imagen(f) == {f[i] : i \in DOMAIN f}

\* Faulty variant: n members of S in any order.
CualesquieraDe(S, n) ==
    {f \in [1..n -> S] : \A i, j \in 1..n : i # j => f[i] # f[j]}

\* Faulty variant: what the search finds is not marked as taken.
PrimeroRepetido(S, n) ==
    {f \in [1..n -> S] : \A i \in 1..n, x \in S : f[i] <= x}

\* The n smallest members of S from the smallest on: what n searches of the
\* first free bit, the first hole or the first slot of a pid return.
PrimerosDe(S, n) ==
    {f \in [1..n -> S] :
        /\ \A i, j \in 1..n : i < j => f[i] < f[j]
        /\ \A x \in S, i \in 1..n : x < f[i] => x \in Imagen(f)}

Libres == Marco \ bit_marcos

\* cantidad_de_marcos_libres against the pages of p.
Alcanza(p) == Cardinality(Libres) >= Paginas[p]

-----------------------------------------------------------------------------
(* Requests of the kernel *)

\* INICIAR_PROCESO: crear_proceso and asignar_marcos_a_tabla.  With no room
\* it only answers SIN_ESPACIO.
IniciarProceso(p) ==
    /\ p \notin creados
    /\ Alcanza(p)
    /\ \E f \in PrimerosDe(Libres, Paginas[p]) :
          /\ tabla' = [tabla EXCEPT ![p] = f]
          /\ bit_marcos' = bit_marcos \cup Imagen(f)
    /\ procesos_memoria' = procesos_memoria \cup {p}
    /\ creados' = creados \cup {p}
    /\ UNCHANGED <<espacio_usuario, procesos_swap, swapVars, volcado>>

\* obtener_desplazamientos_swap gives back the slots of p.
SinSlotsDe(p) ==
    [i \in DOMAIN lista_swap |-> IF lista_swap[i] = p THEN -1
                                 ELSE lista_swap[i]]

\* Faulty variant: the slots of a swapped-out process are not given back.
FinSinSoltarSwap(p) ==
    /\ p \in procesos_memoria \cup procesos_swap
    /\ procesos_memoria' = procesos_memoria \ {p}
    /\ procesos_swap' = procesos_swap \ {p}
    /\ bit_marcos' = bit_marcos \ Imagen(tabla[p])
    /\ tabla' = [tabla EXCEPT ![p] = <<>>]
    /\ UNCHANGED <<espacio_usuario, creados, swapVars, volcado>>

\* FINALIZAR_PROCESO of a process in memory or in swap.
FinProceso(p) ==
    /\ p \in procesos_memoria \cup procesos_swap
    /\ procesos_memoria' = procesos_memoria \ {p}
    /\ IF p \in procesos_memoria
       THEN UNCHANGED <<procesos_swap, lista_swap>>
       ELSE /\ procesos_swap' = procesos_swap \ {p}
            /\ lista_swap' = SinSlotsDe(p)
    /\ bit_marcos' = bit_marcos \ Imagen(tabla[p])
    /\ tabla' = [tabla EXCEPT ![p] = <<>>]
    /\ UNCHANGED <<espacio_usuario, creados, swapfile, volcado>>

\* The slots where n pages may go: the holes, and the end of the list.
Huecos(n) ==
    {i \in 1..(Len(lista_swap) + n) :
        i > Len(lista_swap) \/ lista_swap[i] = -1}

\* Faulty variant: the pages always go to the end of the file.
EspaciosAlFinal(n) ==
    {[k \in 1..n |-> Len(lista_swap) + k]}

\* obtener_espacios_swap: the first holes, then new slots.
EspaciosSwap(n) == PrimerosDe(Huecos(n), n)

\* SWAP of a blocked process: each page is copied to its slot, in order, its
\* frame is freed and marco_asignado becomes -1.
EnviarASwap(p) ==
    LET n == Paginas[p] IN
    /\ p \in procesos_memoria
    /\ \E g \in EspaciosSwap(n),
          fin \in Len(lista_swap)..(Len(lista_swap) + n) :
          /\ DOMAIN lista_swap \cup Imagen(g) = 1..fin
          /\ lista_swap' = [i \in 1..fin |->
                 IF i \in Imagen(g) THEN p ELSE lista_swap[i]]
          /\ swapfile' = [i \in 1..fin |->
                 IF i \in Imagen(g)
                 THEN espacio_usuario[tabla[p][CHOOSE k \in 1..n : g[k] = i]]
                 ELSE swapfile[i]]
    /\ bit_marcos' = bit_marcos \ Imagen(tabla[p])
    /\ tabla' = [tabla EXCEPT ![p] = [i \in 1..n |-> -1]]
    /\ procesos_swap' = procesos_swap \cup {p}
    /\ procesos_memoria' = procesos_memoria \ {p}
    /\ UNCHANGED <<espacio_usuario, creados, volcado>>

SlotsDe(p) == {i \in DOMAIN lista_swap : lista_swap[i] = p}

\* VUELTA_SWAP: every page gets a free frame and the contents of the slot
\* that comes next in the file.
SacarDeSwap(p) ==
    LET n == Paginas[p] IN
    /\ p \in procesos_swap
    /\ Alcanza(p)
    /\ \E f \in PrimerosDe(Libres, n), g \in PrimerosDe(SlotsDe(p), n) :
          /\ tabla' = [tabla EXCEPT ![p] = f]
          /\ bit_marcos' = bit_marcos \cup Imagen(f)
          /\ espacio_usuario' = [m \in Marco |->
                 IF m \in Imagen(f)
                 THEN swapfile[g[CHOOSE k \in 1..n : f[k] = m]]
                 ELSE espacio_usuario[m]]
    /\ lista_swap' = SinSlotsDe(p)
    /\ procesos_memoria' = procesos_memoria \cup {p}
    /\ procesos_swap' = procesos_swap \ {p}
    /\ UNCHANGED <<creados, swapfile, volcado>>

\* Faulty variant: the pages are looked for from the last one on.
VolcarAlReves(p) ==
    /\ p \in procesos_memoria
    /\ volcado' = [i \in 1..Paginas[p] |->
                      espacio_usuario[tabla[p][Paginas[p] + 1 - i]]]
    /\ UNCHANGED <<marcoVars, listaVars, swapVars>>

\* DUMP_MEMORY: the frames of the page table, in its order, to a new file.
DumpDeMemoria(p) ==
    /\ p \in procesos_memoria
    /\ volcado' = [i \in 1..Paginas[p] |-> espacio_usuario[tabla[p][i]]]
    /\ UNCHANGED <<marcoVars, listaVars, swapVars>>

-----------------------------------------------------------------------------
(* Requests of the CPUs *)

\* ESCRIBIR_MEMORIA in the frame that PEDIR_MARCO gives for page i.  (The
\* other requests of a CPU change nothing but counters.)
EscribirEspacio(p, i, v) ==
    /\ p \in procesos_memoria
    /\ espacio_usuario' = [espacio_usuario EXCEPT ![tabla[p][i]] = v]
    /\ UNCHANGED <<bit_marcos, tabla, listaVars, swapVars, volcado>>

-----------------------------------------------------------------------------
Next ==
    \E p \in Pid :
       \/ IniciarProceso(p) \/ FinProceso(p)
       \/ EnviarASwap(p) \/ SacarDeSwap(p) \/ DumpDeMemoria(p)
       \/ \E i \in 1..Paginas[p], v \in Valor : EscribirEspacio(p, i, v)

Spec == Init /\ [][Next]_vars
=============================================================================
