------------------------------- MODULE Kernel -------------------------------
(***************************************************************************)
(* The kernel module without preemption: the FIFO and SJF short-term       *)
(* planners, the FIFO long-term planner, the dispatch handlers             *)
(* (EXIT, IO, INIT_PROC, DUMP_MEMORY), the IO devices and the suspension   *)
(* threads.  Sources: kernel/src/scheduler.c, kernel.c, estructuras.c.     *)
(*                                                                         *)
(* Grain of atomicity.  Every handler and every planner iteration runs     *)
(* between the acquisition and the release of mutex_pcb and of the mutexes *)
(* of the lists it touches, so each one is a single action; the semaphore  *)
(* waits that precede it are actions of their own (hence corto, largo).    *)
(* Requests to memoria are synchronous and made under mutex_pcb, so the    *)
(* answer belongs to the same action.                                      *)
(*                                                                         *)
(* Data.  A process is a member of Pid; its size is counted in frames; the *)
(* burst estimates of SJF are times, so SJF may pick any ready process.    *)
(***************************************************************************)
EXTENDS Integers, Sequences, FiniteSets, SequencesExt

CONSTANTS
    Pid,            \* the processes that may ever be created
    Cpu,            \* the CPU modules that may connect
    Dispositivo,    \* the IO modules that may connect
    Nombre,         \* the device names that programs mention
    NombreDe,       \* the name each IO module registers with
    Presentes,      \* the IO modules that are connected when planning starts
    Fallan,         \* the IO modules that may disconnect
    Tamanio,        \* the frames each process needs
    Marcos,         \* the frames of memoria
    MaxSyscalls,    \* bound: blocking system calls (IO, DUMP) per process
    Algoritmo       \* ALGORITMO_CORTO_PLAZO: "FIFO" or "SJF"

ASSUME KernelAssumption ==
    /\ IsFiniteSet(Pid) /\ IsFiniteSet(Cpu)
    /\ NombreDe \in [Dispositivo -> Nombre]
    /\ Presentes \subseteq Dispositivo
    /\ Fallan \subseteq Dispositivo
    /\ Marcos \in Nat
    /\ Tamanio \in [Pid -> 0..Marcos]
    /\ MaxSyscalls \in Nat
    /\ Algoritmo \in {"FIFO", "SJF"}

VARIABLES
    estado,             \* pcb->estado; "SIN_CREAR" before crear_proceso,
                        \* "LIBERADO" once finalizar_proceso freed the pcb
    queue_new, queue_ready, queue_susp_ready,
    unidades,           \* lista_procesos_ejecutando
    conexiones,         \* sockets of each CPU that identificar_cpu has seen
    libres,             \* the CPUs with esta_libre = 1
    proceso_ready, cpu_libre, nuevo_proceso, espacio_memoria,  \* semaphores
    corto, largo,       \* where the planner threads are
    dispositivos,       \* lista_dispositivos_io
    disp_libres,        \* the devices with esta_libre = true
    identificando,      \* listed devices whose identificar_io still has to
                        \* call comprobar_cola_bloqueados
    sin_conectar,       \* IO modules that have not connected yet
    esperando_io,       \* diccionario_esperando_io
    ejecutando_io,      \* diccionario_ejecutando_io
    pedidos,            \* PETICION_IO messages each IO module has to serve
    temporizadores,     \* comprobar_suspendido threads asleep on each pcb
    residentes,         \* memoria's procesos_memoria
    en_swap,            \* memoria's procesos_swap
    syscalls            \* blocking system calls left in each program

colas     == <<queue_new, queue_ready, queue_susp_ready>>
cpuVars   == <<unidades, conexiones, libres>>
semaforos == <<proceso_ready, cpu_libre, nuevo_proceso, espacio_memoria>>
hilos     == <<corto, largo>>
ioVars    == <<dispositivos, disp_libres, identificando, sin_conectar,
               esperando_io, ejecutando_io, pedidos>>
memVars   == <<residentes, en_swap>>
vars      == <<estado, colas, cpuVars, semaforos, hilos, ioVars,
               temporizadores, memVars, syscalls>>

Estados == {"SIN_CREAR", "NEW", "READY", "EXEC", "BLOCKED", "SUSP_BLOCKED",
            "SUSP_READY", "EXIT", "LIBERADO"}
Terminado(p) == estado[p] \in {"EXIT", "LIBERADO"}
Unidad    == [proceso: Pid, cpu: Cpu]
EnIo      == [pcb: Pid, dispositivo: Dispositivo]

TypeOK ==
    /\ estado \in [Pid -> Estados]
    /\ queue_new \in Seq(Pid)
    /\ queue_ready \in Seq(Pid)
    /\ queue_susp_ready \in Seq(Pid)
    /\ unidades \in SUBSET Unidad
    /\ conexiones \in [Cpu -> 0..2]
    /\ libres \in SUBSET Cpu
    /\ proceso_ready \in Nat
    /\ cpu_libre \in Nat
    /\ nuevo_proceso \in Nat
    /\ espacio_memoria \in Nat
    /\ corto \in {"proceso_ready", "cpu_libre", "planificar"}
    /\ largo \in {"nuevo_proceso", "planificar", "espacio_memoria"}
    /\ dispositivos \in SUBSET Dispositivo
    /\ disp_libres \in SUBSET Dispositivo
    /\ identificando \in SUBSET Dispositivo
    /\ sin_conectar \in SUBSET Dispositivo
    /\ esperando_io \in [Nombre -> Seq(Pid)]
    /\ ejecutando_io \in [Nombre -> Seq(EnIo)]
    /\ pedidos \in [Dispositivo -> Seq(Pid)]
    /\ temporizadores \in [Pid -> Nat]
    /\ residentes \in SUBSET Pid
    /\ en_swap \in SUBSET Pid
    /\ syscalls \in [Pid -> 0..MaxSyscalls]

(***************************************************************************)
(* Every semaphore starts at 0 and main creates the first process before   *)
(* it starts the planners.                                                 *)
(***************************************************************************)
Init ==
    /\ \E p \in Pid :
          /\ estado = [q \in Pid |-> IF q = p THEN "NEW" ELSE "SIN_CREAR"]
          /\ queue_new = <<p>>
    /\ queue_ready = <<>> /\ queue_susp_ready = <<>>
    /\ unidades = {} /\ libres = {}
    /\ conexiones = [c \in Cpu |-> 0]
    /\ proceso_ready = 0 /\ cpu_libre = 0
    /\ nuevo_proceso = 1 /\ espacio_memoria = 0
    /\ corto = "proceso_ready" /\ largo = "nuevo_proceso"
    /\ dispositivos = Presentes /\ disp_libres = Presentes
    /\ identificando = {} /\ sin_conectar = Dispositivo \ Presentes
    /\ esperando_io = [n \in Nombre |-> <<>>]
    /\ ejecutando_io = [n \in Nombre |-> <<>>]
    /\ pedidos = [d \in Dispositivo |-> <<>>]
    /\ temporizadores = [p \in Pid |-> 0]
    /\ residentes = {} /\ en_swap = {}
    /\ syscalls = [p \in Pid |-> MaxSyscalls]

-----------------------------------------------------------------------------
(* memoria, as the kernel sees it *)

\* The pages of the processes of S: each takes a frame.
PaginasDe(S) == UNION {{q} \X (1..Tamanio[q]) : q \in S}

\* Faulty variant: the frames of the process that enters are not counted.
HayEspacioSinContarlo(p) == Cardinality(PaginasDe(residentes)) <= Marcos

\* INICIAR_PROCESO and VUELTA_SWAP answer OK iff the frames suffice.
HayEspacio(p) ==
    Cardinality(PaginasDe(residentes)) + Tamanio[p] <= Marcos

\* FINALIZAR_PROCESO frees the frames or the swap slots of the processes S.
LiberarMemoria(S) ==
    /\ residentes' = residentes \ S
    /\ en_swap' = en_swap \ S

-----------------------------------------------------------------------------
(* Helpers of the kernel *)

\* Faulty variant: no signal of proceso_ready.
PonerEnReadySinAviso(p) ==
    /\ estado' = [estado EXCEPT ![p] = "READY"]
    /\ queue_ready' = Append(queue_ready, p)
    /\ UNCHANGED proceso_ready

\* Faulty variant: list_add_in_index(queue_ready, 0, proceso).
PonerPrimeroEnReady(p) ==
    /\ estado' = [estado EXCEPT ![p] = "READY"]
    /\ queue_ready' = <<p>> \o queue_ready
    /\ proceso_ready' = proceso_ready + 1

\* poner_en_ready, outside SRT.
PonerEnReady(p) ==
    /\ estado' = [estado EXCEPT ![p] = "READY"]
    /\ queue_ready' = Append(queue_ready, p)
    /\ proceso_ready' = proceso_ready + 1

UnidadesDe(p) == {u \in unidades : u.proceso = p}

\* Faulty variant: liberar_cpu without the signal of cpu_libre.
SacarSinAvisar(p) ==
    /\ unidades' = unidades \ UnidadesDe(p)
    /\ libres' = libres \cup {u.cpu : u \in UnidadesDe(p)}
    /\ UNCHANGED cpu_libre

\* sacar_proceso_ejecucion: outside SRT every unit is EJECUTANDO, so each
\* one that leaves frees its CPU.
SacarProcesoEjecucion(p) ==
    /\ unidades' = unidades \ UnidadesDe(p)
    /\ libres' = libres \cup {u.cpu : u \in UnidadesDe(p)}
    /\ cpu_libre' = cpu_libre + Cardinality(UnidadesDe(p))

\* Faulty variant: the long-term planner is not told of the freed memory.
FinalizarSinAvisar(S) ==
    /\ LiberarMemoria(S)
    /\ estado' = [q \in Pid |-> IF q \in S THEN "LIBERADO" ELSE estado[q]]
    /\ UNCHANGED espacio_memoria

\* finalizar_proceso of every process of S: memoria forgets it, the pcb is
\* freed and the long-term planner is told once per process.
FinalizarProcesos(S) ==
    /\ LiberarMemoria(S)
    /\ estado' = [q \in Pid |-> IF q \in S THEN "LIBERADO" ELSE estado[q]]
    /\ espacio_memoria' = espacio_memoria + Cardinality(S)

DispositivosDe(n) == {d \in dispositivos : NombreDe[d] = n}

\* Faulty variant: the device is freed whoever waits for it.
LiberarSinMirarCola(d, enIo, cola) ==
    LET n == NombreDe[d] IN
    /\ disp_libres' = disp_libres \cup {d}
    /\ ejecutando_io' = [ejecutando_io EXCEPT ![n] = enIo]
    /\ pedidos' = [pedidos EXCEPT ![d] = cola]
    /\ UNCHANGED esperando_io

\* comprobar_cola_bloqueados(d), run when list enIo is what runs under d's
\* name and cola what d still has to serve.  The branch that takes a waiting
\* process leaves esta_libre as it was.
ComprobarColaBloqueados(d, enIo, cola) ==
    LET n == NombreDe[d] IN
    IF esperando_io[n] # <<>>
    THEN LET p == Head(esperando_io[n]) IN
         /\ esperando_io' = [esperando_io EXCEPT ![n] = Tail(@)]
         /\ ejecutando_io' = [ejecutando_io EXCEPT
                ![n] = Append(enIo, [pcb |-> p, dispositivo |-> d])]
         /\ pedidos' = [pedidos EXCEPT ![d] = Append(cola, p)]
         /\ UNCHANGED disp_libres
    ELSE /\ disp_libres' = disp_libres \cup {d}
         /\ ejecutando_io' = [ejecutando_io EXCEPT ![n] = enIo]
         /\ pedidos' = [pedidos EXCEPT ![d] = cola]
         /\ UNCHANGED esperando_io

-----------------------------------------------------------------------------
(* Short-term planner: planificar_corto_plazo_FIFO and _SJF *)

\* Faulty variant: sem_trywait, whose failure is not looked at.
EsperarSinBloquear ==
    /\ corto = "proceso_ready"
    /\ proceso_ready' = proceso_ready - 1
    /\ corto' = "cpu_libre"
    /\ UNCHANGED <<estado, colas, cpuVars, cpu_libre, nuevo_proceso,
                   espacio_memoria, largo, ioVars, temporizadores, memVars,
                   syscalls>>

EsperarProcesoReady ==
    /\ corto = "proceso_ready" /\ proceso_ready > 0
    /\ proceso_ready' = proceso_ready - 1
    /\ corto' = "cpu_libre"
    /\ UNCHANGED <<estado, colas, cpuVars, cpu_libre, nuevo_proceso,
                   espacio_memoria, largo, ioVars, temporizadores, memVars,
                   syscalls>>

EsperarCpuLibre ==
    /\ corto = "cpu_libre" /\ cpu_libre > 0
    /\ cpu_libre' = cpu_libre - 1
    /\ corto' = "planificar"
    /\ UNCHANGED <<estado, colas, cpuVars, proceso_ready, nuevo_proceso,
                   espacio_memoria, largo, ioVars, temporizadores, memVars,
                   syscalls>>

\* The positions the algorithm may remove: the head, or after list_sort any
\* process, the estimates being times.
Elegibles == IF Algoritmo = "FIFO" THEN {1} ELSE DOMAIN queue_ready

\* Faulty variant: esta_libre is not cleared.
EjecutarSinOcupar(p, c) ==
    /\ unidades' = unidades \cup {[proceso |-> p, cpu |-> c]}
    /\ estado' = [estado EXCEPT ![p] = "EXEC"]
    /\ UNCHANGED libres

\* poner_en_ejecucion of a ready process on a free CPU.  (INIT_PROC calls it
\* for a process that has its unit already: nothing changes.)
PonerEnEjecucion(p, c) ==
    /\ libres' = libres \ {c}
    /\ unidades' = unidades \cup {[proceso |-> p, cpu |-> c]}
    /\ estado' = [estado EXCEPT ![p] = "EXEC"]

\* One iteration under the mutexes.  buscar_cpu_libre keeps the last free CPU
\* of the list; the list order is not kept here, so any free one may be it.
PlanificarCorto ==
    /\ corto = "planificar"
    /\ corto' = "proceso_ready"
    /\ IF queue_ready # <<>> /\ libres # {}
       THEN /\ \E c \in libres, i \in Elegibles :
                  /\ PonerEnEjecucion(queue_ready[i], c)
                  /\ queue_ready' = RemoveAt(queue_ready, i)
            /\ UNCHANGED proceso_ready
       ELSE /\ proceso_ready' =
                  IF queue_ready # <<>> /\ Algoritmo = "FIFO"
                  THEN proceso_ready + 1 ELSE proceso_ready
            /\ UNCHANGED <<estado, queue_ready, unidades, libres>>
    /\ UNCHANGED <<queue_new, queue_susp_ready, conexiones, cpu_libre,
                   nuevo_proceso, espacio_memoria, largo, ioVars,
                   temporizadores, memVars, syscalls>>

-----------------------------------------------------------------------------
(* Long-term planner: planificar_largo_plazo_FIFO *)

EsperarNuevoProceso ==
    /\ largo = "nuevo_proceso" /\ nuevo_proceso > 0
    /\ nuevo_proceso' = nuevo_proceso - 1
    /\ largo' = "planificar"
    /\ UNCHANGED <<estado, colas, cpuVars, proceso_ready, cpu_libre,
                   espacio_memoria, corto, ioVars, temporizadores, memVars,
                   syscalls>>

\* Faulty variant: the token of the process that stays is lost.
SinEspacioSinFicha ==
    /\ largo' = "espacio_memoria"
    /\ UNCHANGED <<estado, colas, memVars, proceso_ready, nuevo_proceso>>

\* No room for the process at the head: its token goes back and the thread
\* waits for memory to be freed.  comprobar_suspendido_ready, which the code
\* may start here, signals only if a semaphore is negative: never.
SinEspacio ==
    /\ nuevo_proceso' = nuevo_proceso + 1
    /\ largo' = "espacio_memoria"
    /\ UNCHANGED <<estado, colas, memVars, proceso_ready>>

\* Faulty variant: the process is read with list_get and never removed.
VueltaSwapSinSacar ==
    LET p == Head(queue_susp_ready) IN
    IF HayEspacio(p)
    THEN /\ residentes' = residentes \cup {p}
         /\ en_swap' = en_swap \ {p}
         /\ PonerEnReady(p)
         /\ largo' = "nuevo_proceso"
         /\ UNCHANGED <<queue_new, queue_susp_ready, nuevo_proceso>>
    ELSE SinEspacio

\* vuelta_swap of the head of queue_susp_ready.
VueltaSwap ==
    LET p == Head(queue_susp_ready) IN
    IF HayEspacio(p)
    THEN /\ residentes' = residentes \cup {p}
         /\ en_swap' = en_swap \ {p}
         /\ queue_susp_ready' = Tail(queue_susp_ready)
         /\ PonerEnReady(p)
         /\ largo' = "nuevo_proceso"
         /\ UNCHANGED <<queue_new, nuevo_proceso>>
    ELSE SinEspacio

\* espacio_en_memoria of the head of queue_new.
EspacioEnMemoria ==
    LET p == Head(queue_new) IN
    IF HayEspacio(p)
    THEN /\ residentes' = residentes \cup {p}
         /\ queue_new' = Tail(queue_new)
         /\ PonerEnReady(p)
         /\ largo' = "nuevo_proceso"
         /\ UNCHANGED <<queue_susp_ready, en_swap, nuevo_proceso>>
    ELSE SinEspacio

\* Faulty variant: new processes are looked at first.
PlanificarNuevosPrimero ==
    /\ largo = "planificar"
    /\ IF queue_new # <<>> THEN EspacioEnMemoria
       ELSE IF queue_susp_ready # <<>> THEN VueltaSwap
       ELSE /\ largo' = "nuevo_proceso"
            /\ UNCHANGED <<estado, colas, memVars, proceso_ready,
                           nuevo_proceso>>
    /\ UNCHANGED <<cpuVars, cpu_libre, espacio_memoria, corto, ioVars,
                   temporizadores, syscalls>>

PlanificarLargo ==
    /\ largo = "planificar"
    /\ IF queue_susp_ready # <<>> THEN VueltaSwap
       ELSE IF queue_new # <<>> THEN EspacioEnMemoria
       ELSE /\ largo' = "nuevo_proceso"
            /\ UNCHANGED <<estado, colas, memVars, proceso_ready,
                           nuevo_proceso>>
    /\ UNCHANGED <<cpuVars, cpu_libre, espacio_memoria, corto, ioVars,
                   temporizadores, syscalls>>

EsperarEspacioMemoria ==
    /\ largo = "espacio_memoria" /\ espacio_memoria > 0
    /\ espacio_memoria' = espacio_memoria - 1
    /\ largo' = "nuevo_proceso"
    /\ UNCHANGED <<estado, colas, cpuVars, proceso_ready, cpu_libre,
                   nuevo_proceso, corto, ioVars, temporizadores, memVars,
                   syscalls>>

-----------------------------------------------------------------------------
(* CPUs: identificar_cpu and the messages of esperar_dispatch *)

\* The first of the two connections of a CPU lists it as free; the second
\* one only starts its esperar_dispatch thread.
IdentificarCpu(c) ==
    /\ conexiones[c] < 2
    /\ conexiones' = [conexiones EXCEPT ![c] = @ + 1]
    /\ IF conexiones[c] = 0
       THEN /\ libres' = libres \cup {c}
            /\ cpu_libre' = cpu_libre + 1
       ELSE UNCHANGED <<libres, cpu_libre>>
    /\ UNCHANGED <<estado, colas, unidades, proceso_ready, nuevo_proceso,
                   espacio_memoria, hilos, ioVars, temporizadores, memVars,
                   syscalls>>

\* A CPU runs the process of its unit and its messages reach the kernel once
\* both its sockets are known.
Ejecuta(c, p) ==
    /\ [proceso |-> p, cpu |-> c] \in unidades
    /\ conexiones[c] = 2

\* FINALIZADO: the EXIT instruction.
Finalizado(c, p) ==
    /\ Ejecuta(c, p)
    /\ SacarProcesoEjecucion(p)
    /\ FinalizarProcesos({p})
    /\ UNCHANGED <<colas, conexiones, proceso_ready, nuevo_proceso, hilos,
                   ioVars, temporizadores, syscalls>>

\* Faulty variant: esta_libre stays true.
IoSinOcupar(p, d) ==
    LET n == NombreDe[d] IN
    /\ ejecutando_io' = [ejecutando_io EXCEPT
           ![n] = Append(@, [pcb |-> p, dispositivo |-> d])]
    /\ pedidos' = [pedidos EXCEPT ![d] = Append(@, p)]
    /\ UNCHANGED <<disp_libres, esperando_io>>

\* CAUSA_IO with a free device of the name: the request goes out at once.
IoDispositivoLibre(p, d) ==
    LET n == NombreDe[d] IN
    /\ ejecutando_io' = [ejecutando_io EXCEPT
           ![n] = Append(@, [pcb |-> p, dispositivo |-> d])]
    /\ pedidos' = [pedidos EXCEPT ![d] = Append(@, p)]
    /\ disp_libres' = disp_libres \ {d}
    /\ UNCHANGED esperando_io

\* CAUSA_IO with every device of the name busy: the process queues up.
IoEsperar(p, n) ==
    /\ esperando_io' = [esperando_io EXCEPT ![n] = Append(@, p)]
    /\ UNCHANGED <<disp_libres, ejecutando_io, pedidos>>

\* Either way the process blocks and a comprobar_suspendido thread starts.
Bloquear(p) ==
    /\ estado' = [estado EXCEPT ![p] = "BLOCKED"]
    /\ temporizadores' = [temporizadores EXCEPT ![p] = @ + 1]
    /\ UNCHANGED <<memVars, espacio_memoria>>

CausaIo(c, p, n) ==
    /\ Ejecuta(c, p)
    /\ syscalls[p] > 0
    /\ syscalls' = [syscalls EXCEPT ![p] = @ - 1]
    /\ SacarProcesoEjecucion(p)
    /\ IF DispositivosDe(n) = {}
       THEN /\ FinalizarProcesos({p})
            /\ UNCHANGED <<disp_libres, esperando_io, ejecutando_io, pedidos,
                           temporizadores>>
       ELSE /\ Bloquear(p)
            /\ IF DispositivosDe(n) \cap disp_libres = {}
               THEN IoEsperar(p, n)
               ELSE \E d \in DispositivosDe(n) \cap disp_libres :
                       IoDispositivoLibre(p, d)
    /\ UNCHANGED <<colas, conexiones, proceso_ready, nuevo_proceso, hilos,
                   dispositivos, identificando, sin_conectar>>

\* INIT_PROC: crear_proceso; the caller goes on, its context being sent back.
InitProc(c, p, q) ==
    /\ Ejecuta(c, p)
    /\ estado[q] = "SIN_CREAR"
    /\ estado' = [estado EXCEPT ![q] = "NEW"]
    /\ queue_new' = Append(queue_new, q)
    /\ nuevo_proceso' = nuevo_proceso + 1
    /\ UNCHANGED <<queue_ready, queue_susp_ready, cpuVars, proceso_ready,
                   cpu_libre, espacio_memoria, hilos, ioVars, temporizadores,
                   memVars, syscalls>>

\* MEMORY_DUMP, answered within the handler.  When it fails the process ends
\* here, its pcb is kept and queue_exit, which nobody reads, gets it.
MemoryDump(c, p, exito) ==
    /\ Ejecuta(c, p)
    /\ syscalls[p] > 0
    /\ syscalls' = [syscalls EXCEPT ![p] = @ - 1]
    /\ SacarProcesoEjecucion(p)
    /\ IF exito
       THEN /\ PonerEnReady(p)
            /\ UNCHANGED <<memVars, espacio_memoria>>
       ELSE /\ estado' = [estado EXCEPT ![p] = "EXIT"]
            /\ LiberarMemoria({p})
            /\ espacio_memoria' = espacio_memoria + 1
            /\ UNCHANGED <<queue_ready, proceso_ready>>
    /\ UNCHANGED <<queue_new, queue_susp_ready, conexiones, nuevo_proceso,
                   hilos, ioVars, temporizadores>>

-----------------------------------------------------------------------------
(* IO modules *)

\* identificar_io lists the device as free (without mutex_lista_dispositivos)
\* and starts its thread; it looks at the waiting queue in a later step.
IdentificarIo(d) ==
    /\ d \in sin_conectar
    /\ sin_conectar' = sin_conectar \ {d}
    /\ dispositivos' = dispositivos \cup {d}
    /\ disp_libres' = disp_libres \cup {d}
    /\ identificando' = identificando \cup {d}
    /\ UNCHANGED <<estado, colas, cpuVars, semaforos, hilos, esperando_io,
                   ejecutando_io, pedidos, temporizadores, memVars, syscalls>>

RevisarColaAlIdentificar(d) ==
    /\ d \in identificando
    /\ identificando' = identificando \ {d}
    /\ ComprobarColaBloqueados(d, ejecutando_io[NombreDe[d]], pedidos[d])
    /\ UNCHANGED <<estado, colas, cpuVars, semaforos, hilos, dispositivos,
                   sin_conectar, temporizadores, memVars, syscalls>>

\* The entries of p in what runs under name n.
EntradasDe(n, p) ==
    {k \in DOMAIN ejecutando_io[n] : ejecutando_io[n][k].pcb = p}

\* Faulty variant: the suspended state is not looked at.
DesbloquearSinMirar(p) ==
    /\ PonerEnReady(p)
    /\ UNCHANGED <<queue_susp_ready, nuevo_proceso, espacio_memoria>>

\* A process whose IO ended goes to READY, or to SUSP_READY if it had been
\* swapped out meanwhile.
Desbloquear(p) ==
    IF estado[p] = "SUSP_BLOCKED"
    THEN /\ estado' = [estado EXCEPT ![p] = "SUSP_READY"]
         /\ queue_susp_ready' = Append(queue_susp_ready, p)
         /\ nuevo_proceso' = nuevo_proceso + 1
         /\ espacio_memoria' = espacio_memoria + 1
         /\ UNCHANGED <<queue_ready, proceso_ready>>
    ELSE /\ PonerEnReady(p)
         /\ UNCHANGED <<queue_susp_ready, nuevo_proceso, espacio_memoria>>

\* FINALIZACION_IO: device d answers its oldest request.  A process that is
\* no longer listed is ignored; buscar_proceso_en_io returns the first match.
FinalizacionIo(d) ==
    /\ d \in dispositivos /\ pedidos[d] # <<>>
    /\ LET n == NombreDe[d]
           p == Head(pedidos[d])
           ks == EntradasDe(n, p)
       IN  IF ks = {}
           THEN /\ pedidos' = [pedidos EXCEPT ![d] = Tail(@)]
                /\ UNCHANGED <<estado, queue_ready, queue_susp_ready,
                       proceso_ready, nuevo_proceso, espacio_memoria,
                       disp_libres, esperando_io, ejecutando_io>>
           ELSE \E k \in ks :
                /\ \A j \in ks : k <= j
                /\ Desbloquear(p)
                /\ ComprobarColaBloqueados(d,
                       RemoveAt(ejecutando_io[n], k), Tail(pedidos[d]))
    /\ UNCHANGED <<queue_new, cpuVars, cpu_libre, hilos, dispositivos,
                   identificando, sin_conectar, temporizadores, memVars,
                   syscalls>>

\* The loop of the disconnection handler removes an entry of d and then skips
\* the one that moved into its place: of each run of consecutive entries of d
\* it removes the 1st, the 3rd, the 5th...
Alcanza(lista, d, k) ==
    \E j \in 1..k :
       /\ \A i \in j..k : lista[i].dispositivo = d
       /\ j = 1 \/ lista[j - 1].dispositivo # d
       /\ (k - j) % 2 = 0

Alcanzados(lista, d) == {k \in DOMAIN lista : Alcanza(lista, d, k)}

\* The list r keeps the entries of lista at the positions D, in their order.
SeQuedaCon(r, lista, D) ==
    \E f \in [1..Len(r) -> DOMAIN lista] :
       /\ Range(f) = D
       /\ \A i, j \in 1..Len(r) : i < j => f[i] < f[j]
       /\ \A i \in 1..Len(r) : r[i] = lista[f[i]]

\* Faulty variant: those that wait are finalised and stay in the queue.
FinalizarSinVaciar(n) ==
    /\ FinalizarProcesos(ToSet(esperando_io[n])
                         \cup {e.pcb : e \in ToSet(ejecutando_io[n])})
    /\ ejecutando_io' = [ejecutando_io EXCEPT ![n] = <<>>]
    /\ UNCHANGED esperando_io

\* The device was the last of its name: all that waits or runs is finalised.
FinalizarTodos(n) ==
    /\ FinalizarProcesos(ToSet(esperando_io[n])
                         \cup {e.pcb : e \in ToSet(ejecutando_io[n])})
    /\ esperando_io' = [esperando_io EXCEPT ![n] = <<>>]
    /\ ejecutando_io' = [ejecutando_io EXCEPT ![n] = <<>>]

\* Others of its name remain: what ran on d is finalised.
FinalizarLosDe(d) ==
    LET n == NombreDe[d]
        lista == ejecutando_io[n]
    IN  /\ FinalizarProcesos({lista[k].pcb : k \in Alcanzados(lista, d)})
        /\ \E r \in BoundedSeq(ToSet(lista), Len(lista)) :
              /\ SeQuedaCon(r, lista, DOMAIN lista \ Alcanzados(lista, d))
              /\ ejecutando_io' = [ejecutando_io EXCEPT ![n] = r]
        /\ UNCHANGED esperando_io

\* Case -1 of escuchar_socket_io.  (A device lost before identificar_io has
\* looked at its queue would be used after its free: not modelled.)
DesconectarIo(d) ==
    /\ d \in Fallan /\ d \in dispositivos \ identificando
    /\ dispositivos' = dispositivos \ {d}
    /\ disp_libres' = disp_libres \ {d}
    /\ pedidos' = [pedidos EXCEPT ![d] = <<>>]
    /\ IF DispositivosDe(NombreDe[d]) = {d}
       THEN FinalizarTodos(NombreDe[d])
       ELSE FinalizarLosDe(d)
    /\ UNCHANGED <<colas, cpuVars, proceso_ready, cpu_libre, nuevo_proceso,
                   hilos, identificando, sin_conectar, temporizadores, syscalls>>

-----------------------------------------------------------------------------
(* comprobar_suspendido, when its sleep ends *)

\* The thread of a pcb that was freed reads freed memory: it finds EXIT still
\* there, or another pcb that malloc placed at the same address.
Apuntados(p) == IF estado[p] = "LIBERADO" THEN Pid ELSE {p}

ComprobarSuspendido(p) ==
    /\ temporizadores[p] > 0
    /\ temporizadores' = [temporizadores EXCEPT ![p] = @ - 1]
    /\ \E q \in Apuntados(p) :
          IF estado[q] = "BLOCKED"
          THEN /\ residentes' = residentes \ {q}
               /\ en_swap' = en_swap \cup {q}
               /\ estado' = [estado EXCEPT ![q] = "SUSP_BLOCKED"]
               /\ espacio_memoria' = espacio_memoria + 1
          ELSE UNCHANGED <<residentes, en_swap, estado, espacio_memoria>>
    /\ UNCHANGED <<colas, cpuVars, proceso_ready, cpu_libre, nuevo_proceso,
                   hilos, ioVars, syscalls>>

-----------------------------------------------------------------------------
Planificadores ==
    \/ EsperarProcesoReady \/ EsperarCpuLibre \/ PlanificarCorto
    \/ EsperarNuevoProceso \/ PlanificarLargo \/ EsperarEspacioMemoria

\* What CPU c may send next.
MensajeDe(c) ==
    \E p \in Pid :
       \/ Finalizado(c, p)
       \/ \E n \in Nombre : CausaIo(c, p, n)
       \/ \E q \in Pid : InitProc(c, p, q)
       \/ \E exito \in BOOLEAN : MemoryDump(c, p, exito)

Next ==
    \/ Planificadores
    \/ \E c \in Cpu : IdentificarCpu(c) \/ MensajeDe(c)
    \/ \E d \in Dispositivo :
          \/ IdentificarIo(d) \/ RevisarColaAlIdentificar(d)
          \/ FinalizacionIo(d) \/ DesconectarIo(d)
    \/ \E p \in Pid : ComprobarSuspendido(p)

Spec == Init /\ [][Next]_vars

\* Threads are scheduled, CPUs connect and run their programs, which are
\* finite; IO modules answer; sleeps end.  Nothing forces a device to connect
\* or to disconnect.
Justicia ==
    /\ WF_vars(EsperarProcesoReady) /\ WF_vars(EsperarCpuLibre)
    /\ WF_vars(PlanificarCorto)
    /\ WF_vars(EsperarNuevoProceso) /\ WF_vars(PlanificarLargo)
    /\ WF_vars(EsperarEspacioMemoria)
    /\ \A c \in Cpu : WF_vars(IdentificarCpu(c)) /\ WF_vars(MensajeDe(c))
    /\ \A d \in Dispositivo :
          WF_vars(FinalizacionIo(d)) /\ WF_vars(RevisarColaAlIdentificar(d))
    /\ \A p \in Pid : WF_vars(ComprobarSuspendido(p))

FairSpec == Spec /\ Justicia
=============================================================================
