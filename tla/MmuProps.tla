------------------------------ MODULE MmuProps ------------------------------
(***************************************************************************)
(* What a process sees of memory through its CPU.                          *)
(***************************************************************************)
EXTENDS Mmu

\* No page has two entries.
SinRepetidas(lista) ==
    \A j, k \in DOMAIN lista :
       j # k => <<lista[j].pid, lista[j].pagina>> # <<lista[k].pid, lista[k].pagina>>

\* The frame of an entry is that of the page table.
Vigente(e) == e.pagina \in DOMAIN tabla[e.pid] /\ tabla[e.pid][e.pagina] = e.marco

\* The classes in which the algorithms choose a victim, the best first.
Clase(e) == (IF e.bit_uso THEN 2 ELSE 0) + (IF e.bit_modificado THEN 1 ELSE 0)

Peor(c, e) ==
    IF config[c].algoritmo_cache = "CLOCK" THEN (IF e.bit_uso THEN 1 ELSE 0)
    ELSE Clase(e)

\* Page i of p as p would read it now: from the cache of its CPU, or from the
\* frame its CPU would use, or from the swap file.
Vista(p) ==
    IF p \in procesos_memoria
    THEN [i \in 1..Paginas[p] |->
            LET c == CHOOSE c \in Cpu : contexto[c] = p
            IN  IF \A k \in Cpu : contexto[k] # p
                THEN espacio_usuario[tabla[p][i]]
                ELSE IF Lugar(cache[c], p, i) # {}
                THEN cache[c][CHOOSE k \in Lugar(cache[c], p, i) : TRUE].contenido
                ELSE espacio_usuario[CHOOSE m \in Traducir(c, p, i) : TRUE]]
    ELSE IF p \in procesos_swap
    THEN LET g == CHOOSE g \in PrimerosDe(SlotsDe(p), Paginas[p]) : TRUE
         IN  [i \in 1..Paginas[p] |-> swapfile[g[i]]]
    ELSE <<>>

Visible == INSTANCE MemoriaVirtual WITH
              contenido <- [p \in Pid |-> Vista(p)],
              vivos <- procesos_memoria \cup procesos_swap

-----------------------------------------------------------------------------
\* A CPU holds in its cache and its TLB only pages of the process whose
\* context it has: reemplazar_con_clock writes a victim with the pid of the
\* page that comes in (cache.c:37 and 65), and the next process must not
\* find what the last one left (cpu.c:238-244).
SoloDelContexto ==
    \A c \in Cpu :
       /\ \A k \in DOMAIN cache[c] : cache[c][k].pid = contexto[c]
       /\ \A k \in DOMAIN tlb[c] : tlb[c][k].pid = contexto[c] /\ ~vaciando[c]

\* The cache and the TLB have at most the configured entries, one for each
\* page, and puntero_clock, which no flush resets, is a place of the cache
\* whenever it is used (cache.c:34 and 53, tlb.c:38).
EntradasEnOrden ==
    \A c \in Cpu :
       /\ Len(cache[c]) <= config[c].entradas_cache
       /\ Len(tlb[c]) <= config[c].entradas_tlb
       /\ SinRepetidas(cache[c]) /\ SinRepetidas(tlb[c])
       /\ cache[c] # <<>> => puntero_clock[c] < config[c].entradas_cache

\* The frames that a CPU remembers are those of the page table of memoria,
\* after any number of trips of the process to swap and back, and while the
\* flush lasts (tlb.c:63-72, cache.c:137-150).
MarcosVigentes ==
    \A c \in Cpu : /\ \A k \in DOMAIN tlb[c] : Vigente(tlb[c][k])
                   /\ \A k \in DOMAIN cache[c] : Vigente(cache[c][k])

\* The victim that the turns of a full cache find (cache.c:32-84) is the one
\* the algorithm promises: CLOCK takes the first entry not used, or the one
\* at the pointer; CLOCK-M the first of the best class present, of not used
\* and not modified, not used, not modified, and the rest.  In particular
\* CLOCK-M never resorts to the fifth turn, which would lose a modified page.
VictimaDebida ==
    \A c \in Cpu :
       LET n == config[c].entradas_cache
           valor(v) == Peor(c, cache[c][Visita(c, v)])
           v == Pasos(c)
       IN  n > 0 /\ Len(cache[c]) = n =>
              /\ \A w \in 0..(n - 1) : valor(v) <= valor(w)
              /\ \A w \in 0..((v % n) - 1) : valor(v) < valor(w)
              /\ cache[c][Visita(c, v)].bit_modificado => SeEscribe(c, v)

\* While the flush of a CPU comes before what the kernel does with its
\* process, memoria dies of one thing alone: a running process used a page
\* that it has not (buscar_pagina returns NULL and atencion_a_cpu.c:122 does
\* not look).  A process that fills its table cannot do it, and no flush
\* does it (lectura_escritura.c looks for the process of the page).
CaidaDebida ==
    [][caido' # caido =>
         \E c \in Cpu : /\ contexto[c] # Nadie /\ ~vaciando[c]
                        /\ Len(tabla[contexto[c]]) < Capacidad]_mmuVars

\* The walk of its table leads each page of a process to itself.
CaminosExactos ==
    \A p \in Pid : \A i \in 1..Paginas[p] : PedirPagina(p, i) = i - 1

\* Tables of any shape up to three levels of three entries.
FormasExactas ==
    \A e \in 1..3, n \in 1..3 : \A total \in 1..CapacidadDe(e, n) :
       TablaExacta(e, n, total)

\* A CPU reaches a page of a process in memory, through its TLB or not, at
\* the frame that memoria gave it when it last came in: whatever the shape of
\* the table and the number of pages, the entries computed from nro_pagina
\* (cpu.c:679-690) lead to that page and no other, a nro_pagina beyond the
\* last leads nowhere, and the loops over the table, which give the frames,
\* the slots of the swap file and the pages of a dump (marcos.c:64-84,
\* manejo_swap.c:82-102), find the pages in order.
RecorridoExacto ==
    /\ CaminosExactos
    /\ \A c \in Cpu, p \in procesos_memoria : \A i \in 1..Paginas[p] :
          Traducir(c, p, i) = {tabla[p][i]}
    /\ FormasExactas

\* The process reads what it last wrote, whatever was cached, replaced,
\* flushed and swapped since, and a dump writes it: with the contents taken
\* from the cache first, then through the TLB, the CPUs and memoria implement
\* the pages that processes see.
VistaConstante == Visible!Spec

\* "Dump de memoria exitoso" (atencion_a_kernel.c:167): a new dump is what
\* the process sees.
VolcadoVigente ==
    [][volcado' # volcado => \E p \in Pid : volcado' = Vista(p)]_mmuVars
=============================================================================
