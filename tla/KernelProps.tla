----------------------------- MODULE KernelProps -----------------------------
(***************************************************************************)
(* What the kernel without preemption promises.                            *)
(***************************************************************************)
EXTENDS Kernel

Uno(b) == IF b THEN 1 ELSE 0
ConEstado(E) == {p \in Pid : estado[p] \in E}
SinRepetidos(s) == \A i, j \in DOMAIN s : i # j => s[i] # s[j]

-----------------------------------------------------------------------------
\* Every process in queue_ready has exactly one token, in proceso_ready or
\* taken by the short-term planner: no ready process is forgotten and the
\* planner never finds the queue empty (scheduler.c:5-24, 648).
FichasReady ==
    proceso_ready + Uno(corto # "proceso_ready") = Len(queue_ready)

\* Every free CPU has exactly one token, in cpu_libre or in the planner's
\* hands: a planner with both tokens always finds a CPU, so the branches that
\* drop the token of a CPU are dead (scheduler.c:6-20, estructuras.c:238-241,
\* kernel.c:484-488).
FichasCpu ==
    cpu_libre + Uno(corto = "planificar") = Cardinality(libres)

\* Every process waiting for admission, new or swapped out, has exactly one
\* token in nuevo_proceso or in the long-term planner's hands, failures and
\* retries included (scheduler.c:312-402, kernel.c:660, 745).
FichasNuevo ==
    nuevo_proceso + Uno(largo = "planificar")
        = Len(queue_new) + Len(queue_susp_ready)

\* The three queues hold exactly the processes in the state of the queue,
\* each once: no handler leaves a process in two places or in none
\* (poner_en_ready, crear_proceso, the FINALIZACION_IO handler).
ColasYEstado ==
    /\ ToSet(queue_new) = ConEstado({"NEW"}) /\ SinRepetidos(queue_new)
    /\ ToSet(queue_ready) = ConEstado({"READY"})
    /\ SinRepetidos(queue_ready)
    /\ ToSet(queue_susp_ready) = ConEstado({"SUSP_READY"})
    /\ SinRepetidos(queue_susp_ready)

\* Every connected CPU is free or runs exactly one unit, never both: no CPU
\* is given two processes and none is lost busy (poner_en_ejecucion,
\* liberar_cpu, identificar_cpu).
CpusRepartidas ==
    /\ {u.cpu : u \in unidades} \cap libres = {}
    /\ {u.cpu : u \in unidades} \cup libres
           = {c \in Cpu : conexiones[c] > 0}
    /\ \A u, v \in unidades : u.cpu = v.cpu => u = v

\* ... and a process has one execution unit iff it is in EXEC: none runs on
\* two CPUs (poner_en_ejecucion, sacar_proceso_ejecucion).
UnidadesYEstado ==
    /\ CpusRepartidas
    /\ {u.proceso : u \in unidades} = ConEstado({"EXEC"})
    /\ \A u, v \in unidades : u.proceso = v.proceso => u = v

\* The processes of a name: those that wait and those that run on a device.
EnNombre(n) == esperando_io[n] \o [k \in DOMAIN ejecutando_io[n] |->
                                      ejecutando_io[n][k].pcb]

\* The processes blocked, suspended or not, are those in the IO queues, each
\* once and under one name, whatever connects or disconnects.
BloqueadosYEstado ==
    /\ UNION {ToSet(EnNombre(n)) : n \in Nombre}
           = ConEstado({"BLOCKED", "SUSP_BLOCKED"})
    /\ \A n \in Nombre : SinRepetidos(EnNombre(n))
    /\ \A m, n \in Nombre :
          m # n => ToSet(EnNombre(m)) \cap ToSet(EnNombre(n)) = {}

\* memoria holds in frames the processes that are ready, running or blocked,
\* and in swap the suspended ones, and they fit: a process never becomes
\* ready while in swap, and swapping, finishing, failing and losing a device
\* all give the memory back (scheduler.c:588-641, 721-746, kernel.c:749-768).
ResidenciaYEstado ==
    /\ residentes = ConEstado({"READY", "EXEC", "BLOCKED"})
    /\ en_swap = ConEstado({"SUSP_BLOCKED", "SUSP_READY"})
    /\ Cardinality(PaginasDe(residentes)) <= Marcos

\* A device is free iff it serves nothing, and otherwise serves exactly the
\* one process listed as running on it (kernel.c:323-349, scheduler.c:748).
DispositivoExclusivo ==
    \A d \in dispositivos :
       LET suyos == {e \in ToSet(ejecutando_io[NombreDe[d]]) :
                        e.dispositivo = d}
       IN  IF d \in disp_libres
           THEN pedidos[d] = <<>> /\ suyos = {}
           ELSE /\ Len(pedidos[d]) = 1
                /\ suyos = {[pcb |-> Head(pedidos[d]), dispositivo |-> d]}

\* A process waits for a device only while some device of that name exists
\* and all of them are busy.
EsperaJustificada ==
    \A n \in Nombre : esperando_io[n] # <<>> =>
       /\ DispositivosDe(n) # {}
       /\ DispositivosDe(n) \cap disp_libres = {}

-----------------------------------------------------------------------------
\* A new process is admitted only when no swapped-out process waits to come
\* back (scheduler.c:320, 356).
SuspendidosPrimero ==
    [][\A p \in Pid : estado[p] = "NEW" /\ estado'[p] = "READY"
                         => queue_susp_ready = <<>>]_vars

\* A process that is ready keeps its place: no step other than its dispatch
\* moves it back or takes it out of queue_ready.
Posicion(s, p) == CHOOSE i \in DOMAIN s : s[i] = p

SinAdelantos ==
    [][\A p \in ToSet(queue_ready) :
          estado'[p] = "EXEC" \/ /\ p \in ToSet(queue_ready')
                                 /\ Posicion(queue_ready', p)
                                        <= Posicion(queue_ready, p)]_vars

\* Every process that is created ends: no wake-up of a planner is lost, no
\* process is starved by the swapped-out ones, no device queue is forgotten.
Termina == \A p \in Pid : estado[p] = "NEW" ~> Terminado(p)

-----------------------------------------------------------------------------
\* The process life cycle that all of this implements.
Ciclo == INSTANCE CicloDeVida WITH
            estado <- [p \in Pid |-> IF estado[p] = "LIBERADO" THEN "EXIT"
                                     ELSE estado[p]]
ImplementaCiclo == Ciclo!Spec
=============================================================================
