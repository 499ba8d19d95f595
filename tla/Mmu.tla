-------------------------------- MODULE Mmu --------------------------------
(***************************************************************************)
(* How the CPUs reach memory: the page cache with CLOCK or CLOCK-M, the    *)
(* TLB with FIFO or LRU, the instructions READ and WRITE, and the flush of *)
(* both when a process leaves, composed with module Memoria.  Sources:     *)
(* cpu/src/cpu.c, cache.c, tlb.c.                                          *)
(*                                                                         *)
(* Grain of atomicity.  An instruction talks only about frames of its own  *)
(* process, which nobody else touches while it runs: it is one action.     *)
(* The flush comes after the kernel has its answer (cpu.c:184 and 207), so *)
(* each page it writes is an action of its own, and requests of the kernel *)
(* about the same process fall in between unless Puntual.                  *)
(*                                                                         *)
(* Page i of a process has nro_pagina i - 1.                               *)
(***************************************************************************)
EXTENDS Memoria, TablaDePaginas

CONSTANTS
    ENTRADAS_POR_TABLA, CANTIDAD_NIVELES,   \* of the configuration
    Cpu,
    Nadie,              \* no process
    Desplazamiento,     \* the places of a page that WRITE tells apart
    Dato,               \* what WRITE puts in one of them
    Config,             \* the configuration files a CPU may have
    Segundos,           \* bound: the last second of the clock of the TLB
    Puntual             \* TRUE: what the kernel does with a process that left
                        \* a CPU reaches memoria after the flush of that CPU

\* The pages that a table may number.
Capacidad == CapacidadDe(ENTRADAS_POR_TABLA, CANTIDAD_NIVELES)

ASSUME MmuAssumption ==
    /\ ENTRADAS_POR_TABLA \in Nat \ {0} /\ CANTIDAD_NIVELES \in Nat \ {0}
    /\ Config \subseteq [entradas_cache : Nat, entradas_tlb : Nat,
                         algoritmo_cache : {"CLOCK", "CLOCK-M"},
                         algoritmo_tlb : {"FIFO", "LRU"}]
    /\ Valor = [Desplazamiento -> Dato]
    /\ Segundos \in Nat /\ Puntual \in BOOLEAN
    /\ Nadie \notin Pid
    /\ \A p \in Pid : Paginas[p] <= Capacidad

VARIABLES
    config,             \* the configuration of each CPU
    contexto,           \* the process whose context it has, or Nadie
    vaciando,           \* it gave the context back and has not finished with it
    cache, puntero_clock,
    tlb,
    ahora,              \* time(NULL)
    caido               \* memoria died: it used a process or a page it has not

cpuVars == <<config, contexto, vaciando, cache, puntero_clock, tlb, ahora>>
mmuVars == <<vars, cpuVars, caido>>

Entrada == [pid : Pid, pagina : Nat, contenido : Valor, marco : Marco,
            bit_uso : BOOLEAN, bit_modificado : BOOLEAN]

EntradaTlb == [pid : Pid, pagina : Nat, marco : Marco, timestamp : 0..Segundos]

MmuTypeOK ==
    /\ config \in [Cpu -> Config]
    /\ contexto \in [Cpu -> Pid \cup {Nadie}]
    /\ vaciando \in [Cpu -> BOOLEAN]
    /\ \A c \in Cpu : vaciando[c] => contexto[c] # Nadie
    /\ cache \in [Cpu -> Seq(Entrada)]
    /\ puntero_clock \in [Cpu -> Nat]
    /\ tlb \in [Cpu -> Seq(EntradaTlb)]
    /\ ahora \in 0..Segundos
    /\ caido \in BOOLEAN

MmuInit ==
    /\ Init
    /\ config \in [Cpu -> Config]
    /\ contexto = [c \in Cpu |-> Nadie]
    /\ vaciando = [c \in Cpu |-> FALSE]
    /\ cache = [c \in Cpu |-> <<>>]
    /\ puntero_clock = [c \in Cpu |-> 0]
    /\ tlb = [c \in Cpu |-> <<>>]
    /\ ahora = 0
    /\ caido = FALSE

-----------------------------------------------------------------------------
\* The place of page i of p in a cache or a TLB, if it is there: the first
\* that a search from the front finds.
Lugar(lista, p, i) ==
    {k \in DOMAIN lista :
        /\ lista[k].pid = p /\ lista[k].pagina = i
        /\ \A j \in 1..(k - 1) : lista[j].pid # p \/ lista[j].pagina # i}

\* The places of the entries of p, as limpiar_..._por_pid finds them.
LugaresDe(lista, p) == {k \in DOMAIN lista : lista[k].pid = p}

-----------------------------------------------------------------------------
(* The TLB *)

\* FIFO removes the front; LRU the first of those with the oldest second.
VictimaTlb(c) ==
    IF config[c].algoritmo_tlb = "FIFO" THEN 1
    ELSE CHOOSE k \in DOMAIN tlb[c] :
            \A j \in DOMAIN tlb[c] :
               /\ tlb[c][k].timestamp <= tlb[c][j].timestamp
               /\ j < k => tlb[c][k].timestamp < tlb[c][j].timestamp

\* Faulty variant: a second entry for a page that has one.
AgregarSiempreATlb(c, p, i, m) ==
    LET nueva == [pid |-> p, pagina |-> i, marco |-> m, timestamp |-> ahora]
        queda == IF Len(tlb[c]) >= config[c].entradas_tlb
                 THEN RemoveAt(tlb[c], VictimaTlb(c)) ELSE tlb[c]
    IN  IF config[c].entradas_tlb = 0 THEN tlb[c] ELSE Append(queda, nueva)

\* The TLB after page i of p was translated to frame m: buscar_en_tlb renews
\* the entry it finds, agregar_a_tlb makes one after a miss.
TlbTras(c, p, i, m) ==
    LET hallada == Lugar(tlb[c], p, i)
        nueva == [pid |-> p, pagina |-> i, marco |-> m, timestamp |-> ahora]
        queda == IF Len(tlb[c]) >= config[c].entradas_tlb
                 THEN RemoveAt(tlb[c], VictimaTlb(c)) ELSE tlb[c]
    IN  IF config[c].entradas_tlb = 0 THEN tlb[c]
        ELSE IF hallada = {} THEN Append(queda, nueva)
        ELSE [k \in DOMAIN tlb[c] |->
                IF k \in hallada THEN [tlb[c][k] EXCEPT !.timestamp = ahora]
                ELSE tlb[c][k]]

TablaDe ==
    [p \in Pid |->
        CrearTabla(ENTRADAS_POR_TABLA, CANTIDAD_NIVELES, Paginas[p])]

\* atender_peticion_marco: the nro_pagina that the walk finds, or NULL.
PedirPagina(p, i) ==
    BuscarPagina(CANTIDAD_NIVELES, TablaDe[p],
                 Accesos(ENTRADAS_POR_TABLA, CANTIDAD_NIVELES, i - 1))

\* The frame of page i of p: that of the TLB, or the answer to PEDIR_MARCO.
Traducir(c, p, i) ==
    IF Lugar(tlb[c], p, i) # {}
    THEN {tlb[c][k].marco : k \in Lugar(tlb[c], p, i)}
    ELSE {tabla[p][h + 1] : h \in {PedirPagina(p, i)} \ {NULL}}

-----------------------------------------------------------------------------
(* The cache *)

\* The entry that a replacement visits after v steps of its pointer.
Visita(c, v) ==
    ((puntero_clock[c] + v) % config[c].entradas_cache) + 1

\* CLOCK stops at the first entry with bit_uso down, and puts down the bits
\* it passes, so the second turn stops where it starts.
EligeClock(c, v) ==
    v = config[c].entradas_cache \/ ~cache[c][Visita(c, v)].bit_uso

\* Faulty variant: turns two and four also look for unmodified entries.
EligeClockMSinTurnos(c, v) ==
    LET n == config[c].entradas_cache
        e == cache[c][Visita(c, v)]
    IN  v >= 4 * n \/ ((e.bit_uso => v >= 2 * n) /\ ~e.bit_modificado)

\* CLOCK-M: turns one and three look for an entry that is neither used nor
\* modified, turns two and four for one modified and not used; turn two puts
\* the bits down.  After four turns any entry is good, and is not written.
EligeClockM(c, v) ==
    LET n == config[c].entradas_cache
        e == cache[c][Visita(c, v)]
        busca_modificada == v \in n..(2 * n - 1) \cup 3 * n..(4 * n - 1)
    IN  \/ v >= 4 * n
        \/ /\ e.bit_uso => v >= 2 * n
           /\ e.bit_modificado <=> busca_modificada

Elige(c, v) ==
    IF config[c].algoritmo_cache = "CLOCK" THEN EligeClock(c, v)
    ELSE EligeClockM(c, v)

\* The number of steps to the victim.
Pasos(c) ==
    CHOOSE v \in 0..(4 * config[c].entradas_cache) :
       Elige(c, v) /\ \A w \in 0..(v - 1) : ~Elige(c, w)

\* The entries whose bit_uso is down after v steps.
Bajadas(c, v) ==
    LET desde == IF config[c].algoritmo_cache = "CLOCK" THEN 0
                 ELSE config[c].entradas_cache
    IN  {Visita(c, w) : w \in desde..(v - 1)}

\* Whether the victim is written: when it is modified, but for the last
\* resort of CLOCK-M.
SeEscribe(c, v) ==
    /\ cache[c][Visita(c, v)].bit_modificado
    /\ \/ config[c].algoritmo_cache = "CLOCK"
       \/ v < 4 * config[c].entradas_cache

\* Faulty variant: the pointer does not turn.
AvanceSinVuelta(c, v) == puntero_clock[c] + v + 1

Avance(c, v) == (puntero_clock[c] + v + 1) % config[c].entradas_cache

\* agregar_a_cache.
AgregarACache(c, nueva) ==
    LET n == config[c].entradas_cache
        v == Pasos(c)
        victima == Visita(c, v)
    IN  IF Len(cache[c]) < n
        THEN /\ cache' = [cache EXCEPT ![c] = Append(cache[c], nueva)]
             /\ UNCHANGED <<puntero_clock, espacio_usuario>>
        ELSE /\ cache' = [cache EXCEPT ![c] =
                    [k \in DOMAIN cache[c] |->
                        IF k = victima THEN nueva
                        ELSE IF k \in Bajadas(c, v)
                        THEN [cache[c][k] EXCEPT !.bit_uso = FALSE]
                        ELSE cache[c][k]]]
             /\ puntero_clock' =
                    [puntero_clock EXCEPT ![c] = Avance(c, v)]
             /\ espacio_usuario' =
                    IF SeEscribe(c, v)
                    THEN [espacio_usuario EXCEPT
                            ![cache[c][victima].marco] =
                                cache[c][victima].contenido]
                    ELSE espacio_usuario

-----------------------------------------------------------------------------
(* Instructions.  d and x are the place and the datum of WRITE. *)

\* The page is in the cache: memoria does not know.
LeerEnCache(c, i) ==
    \E k \in Lugar(cache[c], contexto[c], i) :
       /\ cache' = [cache EXCEPT ![c][k].bit_uso = TRUE]
       /\ UNCHANGED <<vars, config, contexto, vaciando, puntero_clock, tlb, ahora>>

\* Faulty variant: buscar_contenido_cache is called without modificado.
EscribirEnCacheSinMarcar(c, i, d, x) ==
    \E k \in Lugar(cache[c], contexto[c], i) :
       /\ cache' = [cache EXCEPT ![c][k].bit_uso = TRUE,
                                 ![c][k].contenido[d] = x]
       /\ UNCHANGED <<vars, config, contexto, vaciando, puntero_clock, tlb, ahora>>

EscribirEnCache(c, i, d, x) ==
    \E k \in Lugar(cache[c], contexto[c], i) :
       /\ cache' = [cache EXCEPT ![c][k].bit_uso = TRUE,
                                 ![c][k].bit_modificado = TRUE,
                                 ![c][k].contenido[d] = x]
       /\ UNCHANGED <<vars, config, contexto, vaciando, puntero_clock, tlb, ahora>>

\* The page is not there: it is translated, and brought if there is a cache.
Traer(c, i, contenido, modificado, m) ==
    /\ tlb' = [tlb EXCEPT ![c] = TlbTras(c, contexto[c], i, m)]
    /\ AgregarACache(c, [pid |-> contexto[c], pagina |-> i, marco |-> m,
                         contenido |-> contenido, bit_uso |-> TRUE,
                         bit_modificado |-> modificado])
    /\ UNCHANGED <<config, contexto, vaciando, ahora,
                   bit_marcos, tabla, listaVars, swapVars, volcado>>

LeerDeMemoria(c, i) ==
    /\ Lugar(cache[c], contexto[c], i) = {}
    /\ \E m \in Traducir(c, contexto[c], i) :
          IF config[c].entradas_cache > 0
          THEN Traer(c, i, espacio_usuario[m], FALSE, m)
          ELSE /\ tlb' = [tlb EXCEPT ![c] = TlbTras(c, contexto[c], i, m)]
               /\ UNCHANGED <<vars, config, contexto, vaciando, cache,
                              puntero_clock, ahora>>

EscribirEnMemoria(c, i, d, x) ==
    /\ Lugar(cache[c], contexto[c], i) = {}
    /\ \E m \in Traducir(c, contexto[c], i) :
          LET pagina == [espacio_usuario[m] EXCEPT ![d] = x] IN
          IF config[c].entradas_cache > 0
          THEN Traer(c, i, pagina, TRUE, m)
          ELSE /\ tlb' = [tlb EXCEPT ![c] = TlbTras(c, contexto[c], i, m)]
               /\ espacio_usuario' = [espacio_usuario EXCEPT ![m] = pagina]
               /\ UNCHANGED <<config, contexto, vaciando, cache, puntero_clock,
                              ahora, bit_marcos, tabla, listaVars, swapVars,
                              volcado>>

\* READ and WRITE of page i of the running process.
Instruccion(c) ==
    /\ contexto[c] # Nadie /\ ~vaciando[c]
    /\ \E i \in 1..Paginas[contexto[c]] :
          \/ LeerEnCache(c, i) \/ LeerDeMemoria(c, i)
          \/ \E d \in Desplazamiento, x \in Dato :
                EscribirEnCache(c, i, d, x) \/ EscribirEnMemoria(c, i, d, x)

\* READ or WRITE of a page that the process has not and its table could
\* number: memoria takes the frame of the page that the walk did not find.
\* (A process with no page at all has no table, and is answered frame -1:
\* what the CPU does with it is undefined and is not here.)
InstruccionFueraDeRango(c) ==
    /\ contexto[c] # Nadie /\ ~vaciando[c] /\ Paginas[contexto[c]] # 0
    /\ \E i \in 1..Capacidad :
          /\ Lugar(cache[c], contexto[c], i) = {}
          /\ Traducir(c, contexto[c], i) = {}
    /\ caido' = TRUE
    /\ UNCHANGED <<vars, cpuVars>>

-----------------------------------------------------------------------------
(* A process comes and goes *)

\* A CPU still works for p; when Puntual, its flush counts too.
Ocupa(c, p) == contexto[c] = p /\ (vaciando[c] => Puntual)

\* The main loop receives a context.  The kernel only runs what is in memory
\* and runs nowhere else.
RecibirContexto(c, p) ==
    /\ contexto[c] = Nadie
    /\ p \in procesos_memoria
    /\ \A k \in Cpu : ~Ocupa(k, p)
    /\ contexto' = [contexto EXCEPT ![c] = p]
    /\ UNCHANGED <<vars, config, vaciando, cache, puntero_clock, tlb, ahora>>

\* Faulty variant: limpiar_tlb_por_pid is not called.
DevolverConTlb(c) ==
    /\ contexto[c] # Nadie /\ ~vaciando[c]
    /\ vaciando' = [vaciando EXCEPT ![c] = TRUE]
    /\ UNCHANGED <<vars, config, contexto, cache, puntero_clock, tlb, ahora>>

\* enviar_contexto_a_kernel has its answer; then limpiar_tlb_por_pid: what
\* is not of the process stays, in its order.
DevolverContexto(c) ==
    LET quedan == DOMAIN tlb[c] \ LugaresDe(tlb[c], contexto[c]) IN
    /\ contexto[c] # Nadie /\ ~vaciando[c]
    /\ vaciando' = [vaciando EXCEPT ![c] = TRUE]
    /\ \E g \in PrimerosDe(quedan, Cardinality(quedan)) :
          tlb' = [tlb EXCEPT ![c] = [k \in DOMAIN g |-> tlb[c][g[k]]]]
    /\ UNCHANGED <<vars, config, contexto, cache, puntero_clock, ahora>>

\* Faulty variant: limpiar_cache_por_pid is not called.
TerminarSinVaciar(c) ==
    /\ vaciando[c] /\ contexto' = [contexto EXCEPT ![c] = Nadie]
    /\ vaciando' = [vaciando EXCEPT ![c] = FALSE]
    /\ UNCHANGED <<vars, config, cache, puntero_clock, tlb, ahora, caido>>

\* limpiar_cache_por_pid, from the last entry on, and then the context is
\* freed.  puntero_clock stays where it is.  memoria looks for the process of
\* the page and dies if it has none.
VaciarCache(c) ==
    LET suyas == LugaresDe(cache[c], contexto[c]) IN
    /\ vaciando[c]
    /\ \/ /\ suyas = {}
          /\ contexto' = [contexto EXCEPT ![c] = Nadie]
          /\ vaciando' = [vaciando EXCEPT ![c] = FALSE]
          /\ UNCHANGED <<vars, cache, caido>>
       \/ \E k \in suyas :
             LET e == cache[c][k] IN
             /\ \A j \in suyas : j <= k
             /\ cache' = [cache EXCEPT ![c] = RemoveAt(cache[c], k)]
             /\ caido' = (e.bit_modificado /\ e.pid \notin procesos_memoria)
             /\ espacio_usuario' =
                    IF e.bit_modificado /\ ~caido'
                    THEN [espacio_usuario EXCEPT ![e.marco] = e.contenido]
                    ELSE espacio_usuario
             /\ UNCHANGED <<contexto, vaciando, bit_marcos, tabla, listaVars,
                            swapVars, volcado>>
    /\ UNCHANGED <<config, puntero_clock, tlb, ahora>>

-----------------------------------------------------------------------------
\* A request of the kernel about a process that no CPU works for.
PedidoDelKernel(p) ==
    /\ \A c \in Cpu : ~Ocupa(c, p)
    /\ \/ IniciarProceso(p) \/ FinProceso(p)
       \/ EnviarASwap(p) \/ SacarDeSwap(p) \/ DumpDeMemoria(p)
    /\ UNCHANGED cpuVars

\* The clock of the TLB only tells seconds: any number of instructions
\* happens in one.
PasaUnSegundo ==
    /\ ahora < Segundos
    /\ ahora' = ahora + 1
    /\ UNCHANGED <<vars, config, contexto, vaciando, cache, puntero_clock, tlb>>

MmuNext ==
    /\ ~caido
    /\ \/ \E c \in Cpu : VaciarCache(c) \/ InstruccionFueraDeRango(c)
       \/ /\ \/ \E c \in Cpu : Instruccion(c) \/ DevolverContexto(c)
             \/ \E c \in Cpu, p \in Pid : RecibirContexto(c, p)
             \/ \E p \in Pid : PedidoDelKernel(p)
             \/ PasaUnSegundo
          /\ UNCHANGED caido

MmuSpec == MmuInit /\ [][MmuNext]_mmuVars
=============================================================================
