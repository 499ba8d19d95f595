-------------------------------- MODULE Pmcp --------------------------------
(***************************************************************************)
(* The long-term planner PMCP, smallest process first, and the two threads *)
(* that tell it when to look again.  Sources: kernel/src/scheduler.c and   *)
(* the signals of kernel/src/kernel.c that the three of them wait for.     *)
(*                                                                         *)
(* Three mutexes are signals here, locked by one thread and unlocked by    *)
(* another: unlocking one that is free does nothing.                       *)
(*                                                                         *)
(* Grain of atomicity.  What runs under mutex_pcb is one action, and so is *)
(* every wait; a signal goes with the step before it.                      *)
(*                                                                         *)
(* Data.  queue_new and queue_susp_ready are the processes in those        *)
(* states: their order does not matter, since they are sorted before they  *)
(* are used.  MEMORIA is every state with pages in memory but BLOCKED.     *)
(***************************************************************************)
EXTENDS Integers, FiniteSets, FiniteSetsExt

CONSTANTS
    Pid,
    Tamanio,        \* tamanio_proceso
    Total,          \* what fits in memory
    Bloqueos        \* bound: how often all the processes together do IO

ASSUME PmcpAssumption ==
    /\ IsFiniteSet(Pid)
    /\ Total \in Nat /\ Bloqueos \in Nat
    /\ Tamanio \in [Pid -> 1..Total]

VARIABLES
    estado,
    bloqueos,                                   \* IO operations so far
    largo_plazo, espacio_memoria,               \* semaphores
    check_susp_ready, proceso_suspendido_ready,
    comprobar_memoria, mutex_susp_o_memoria,    \* mutexes: TRUE is locked
    mutex_sem_espacio_memoria,
    planificador, espacio, suspendidos          \* where each thread is

semaforos == <<largo_plazo, espacio_memoria, check_susp_ready,
               proceso_suspendido_ready>>
mutexes == <<comprobar_memoria, mutex_susp_o_memoria,
             mutex_sem_espacio_memoria>>
hilos == <<planificador, espacio, suspendidos>>
vars == <<estado, bloqueos, semaforos, mutexes, hilos>>

Estado == {"NO_CREADO", "NEW", "MEMORIA", "BLOCKED", "SUSP_BLOCKED",
           "SUSP_READY", "EXIT"}

TypeOK ==
    /\ estado \in [Pid -> Estado]
    /\ bloqueos \in 0..Bloqueos
    /\ largo_plazo \in Nat /\ espacio_memoria \in Nat
    /\ check_susp_ready \in Nat /\ proceso_suspendido_ready \in Nat
    /\ comprobar_memoria \in BOOLEAN /\ mutex_susp_o_memoria \in BOOLEAN
    /\ mutex_sem_espacio_memoria \in BOOLEAN
    /\ planificador \in {"largo_plazo", "susp_ready", "new", "sin_lugar",
                         "susp_o_memoria", "sem_espacio", "espacio_memoria"}
    /\ espacio \in {"comprobar", "sem_espacio", "espacio_memoria", "avisar"}
    /\ suspendidos \in {"check", "suspendido_ready"}

\* The planner has locked comprobar_memoria and started both threads.
Init ==
    /\ estado = [p \in Pid |-> "NO_CREADO"] /\ bloqueos = 0
    /\ largo_plazo = 0 /\ espacio_memoria = 0
    /\ check_susp_ready = 0 /\ proceso_suspendido_ready = 0
    /\ comprobar_memoria = TRUE
    /\ mutex_susp_o_memoria = FALSE /\ mutex_sem_espacio_memoria = FALSE
    /\ planificador = "largo_plazo"
    /\ espacio = "comprobar" /\ suspendidos = "check"

-----------------------------------------------------------------------------
En(e) == {p \in Pid : estado[p] = e}

Residentes == En("MEMORIA") \cup En("BLOCKED")

\* The pages of the processes of S.
Ocupan(S) == MapThenSumSet(LAMBDA r : Tamanio[r], S)

\* memoria has room for p: what espacio_en_memoria and vuelta_swap ask.
Entra(p) == Tamanio[p] + Ocupan(Residentes) <= Total

\* What list_sort with proceso_es_mas_chico leaves in front.
MasChicos(cola) == {p \in cola : \A q \in cola : Tamanio[p] <= Tamanio[q]}

Pasa(p, e) == estado' = [estado EXCEPT ![p] = e]

-----------------------------------------------------------------------------
(* planificar_largo_plazo_PMCP *)

EsperarLargoPlazo ==
    /\ planificador = "largo_plazo" /\ largo_plazo > 0
    /\ largo_plazo' = largo_plazo - 1
    /\ planificador' = "susp_ready"
    /\ UNCHANGED <<estado, bloqueos, espacio_memoria, check_susp_ready,
                   proceso_suspendido_ready, mutexes, espacio, suspendidos>>

\* The queue is looked at with mutex_queue_susp_ready held, which is let go
\* before queue_new is looked at.
RevisarSuspendidos ==
    /\ planificador = "susp_ready"
    /\ \/ /\ En("SUSP_READY") = {}
          /\ planificador' = "new"
          /\ UNCHANGED <<estado, largo_plazo>>
       \/ \E p \in MasChicos(En("SUSP_READY")) :
             IF Entra(p)
             THEN /\ Pasa(p, "MEMORIA")
                  /\ planificador' = "largo_plazo"
                  /\ UNCHANGED largo_plazo
             ELSE /\ largo_plazo' = largo_plazo + 1
                  /\ planificador' = "sem_espacio"
                  /\ UNCHANGED estado
    /\ UNCHANGED <<bloqueos, espacio_memoria, check_susp_ready,
                   proceso_suspendido_ready, mutexes, espacio, suspendidos>>

RevisarNuevos ==
    /\ planificador = "new"
    /\ \/ /\ En("NEW") = {}
          /\ planificador' = "largo_plazo"
          /\ UNCHANGED estado
       \/ \E p \in MasChicos(En("NEW")) :
             IF Entra(p)
             THEN Pasa(p, "MEMORIA") /\ planificador' = "largo_plazo"
             ELSE planificador' = "sin_lugar" /\ UNCHANGED estado
    /\ UNCHANGED <<bloqueos, semaforos, mutexes, espacio, suspendidos>>

\* Faulty variant: the token of the process that stays in NEW is not given
\* back.
AvisarSinDevolver ==
    /\ planificador = "sin_lugar"
    /\ comprobar_memoria' = FALSE
    /\ check_susp_ready' = check_susp_ready + 1
    /\ planificador' = "susp_o_memoria"
    /\ UNCHANGED <<estado, bloqueos, largo_plazo, espacio_memoria,
                   proceso_suspendido_ready, mutex_susp_o_memoria,
                   mutex_sem_espacio_memoria, espacio, suspendidos>>

\* Faulty variant: only the thread of the swapped-out is asked to tell.
AvisarAUno ==
    /\ planificador = "sin_lugar"
    /\ check_susp_ready' = check_susp_ready + 1
    /\ largo_plazo' = largo_plazo + 1
    /\ planificador' = "susp_o_memoria"
    /\ UNCHANGED <<estado, bloqueos, espacio_memoria,
                   proceso_suspendido_ready, mutexes, espacio, suspendidos>>

\* esperar: both threads are asked to tell.
Avisar ==
    /\ planificador = "sin_lugar"
    /\ comprobar_memoria' = FALSE
    /\ check_susp_ready' = check_susp_ready + 1
    /\ largo_plazo' = largo_plazo + 1
    /\ planificador' = "susp_o_memoria"
    /\ UNCHANGED <<estado, bloqueos, espacio_memoria,
                   proceso_suspendido_ready, mutex_susp_o_memoria,
                   mutex_sem_espacio_memoria, espacio, suspendidos>>

EsperarSuspOMemoria ==
    /\ planificador = "susp_o_memoria" /\ ~mutex_susp_o_memoria
    /\ mutex_susp_o_memoria' = TRUE
    /\ planificador' = "largo_plazo"
    /\ UNCHANGED <<estado, bloqueos, semaforos, comprobar_memoria,
                   mutex_sem_espacio_memoria, espacio, suspendidos>>

TomarSemEspacio ==
    /\ planificador = "sem_espacio" /\ ~mutex_sem_espacio_memoria
    /\ mutex_sem_espacio_memoria' = TRUE
    /\ planificador' = "espacio_memoria"
    /\ UNCHANGED <<estado, bloqueos, semaforos, comprobar_memoria,
                   mutex_susp_o_memoria, espacio, suspendidos>>

EsperarEspacioMemoria ==
    /\ planificador = "espacio_memoria" /\ espacio_memoria > 0
    /\ espacio_memoria' = espacio_memoria - 1
    /\ mutex_sem_espacio_memoria' = FALSE
    /\ planificador' = "largo_plazo"
    /\ UNCHANGED <<estado, bloqueos, largo_plazo, check_susp_ready,
                   proceso_suspendido_ready, comprobar_memoria,
                   mutex_susp_o_memoria, espacio, suspendidos>>

Planificador ==
    \/ EsperarLargoPlazo \/ RevisarSuspendidos \/ RevisarNuevos
    \/ Avisar \/ EsperarSuspOMemoria
    \/ TomarSemEspacio \/ EsperarEspacioMemoria

-----------------------------------------------------------------------------
(* comprobar_espacio.  What it does if espacio_memoria is below zero never *)
(* happens: sem_getvalue gives no less than zero.                          *)

EspacioEsperaPedido ==
    /\ espacio = "comprobar" /\ ~comprobar_memoria
    /\ comprobar_memoria' = TRUE
    /\ espacio' = "sem_espacio"
    /\ UNCHANGED <<estado, bloqueos, semaforos, mutex_susp_o_memoria,
                   mutex_sem_espacio_memoria, planificador, suspendidos>>

EspacioTomaSem ==
    /\ espacio = "sem_espacio" /\ ~mutex_sem_espacio_memoria
    /\ mutex_sem_espacio_memoria' = TRUE
    /\ espacio' = "espacio_memoria"
    /\ UNCHANGED <<estado, bloqueos, semaforos, comprobar_memoria,
                   mutex_susp_o_memoria, planificador, suspendidos>>

EspacioEsperaEspacio ==
    /\ espacio = "espacio_memoria" /\ espacio_memoria > 0
    /\ espacio_memoria' = espacio_memoria - 1
    /\ mutex_sem_espacio_memoria' = FALSE
    /\ espacio' = "avisar"
    /\ UNCHANGED <<estado, bloqueos, largo_plazo, check_susp_ready,
                   proceso_suspendido_ready, comprobar_memoria,
                   mutex_susp_o_memoria, planificador, suspendidos>>

EspacioAvisa ==
    /\ espacio = "avisar"
    /\ mutex_susp_o_memoria' = FALSE
    /\ espacio' = "comprobar"
    /\ UNCHANGED <<estado, bloqueos, semaforos, comprobar_memoria,
                   mutex_sem_espacio_memoria, planificador, suspendidos>>

ComprobarEspacio ==
    \/ EspacioEsperaPedido \/ EspacioTomaSem
    \/ EspacioEsperaEspacio \/ EspacioAvisa

-----------------------------------------------------------------------------
(* comprobar_procesos_suspendidos *)

SuspendidosEsperaPedido ==
    /\ suspendidos = "check" /\ check_susp_ready > 0
    /\ check_susp_ready' = check_susp_ready - 1
    /\ suspendidos' = "suspendido_ready"
    /\ UNCHANGED <<estado, bloqueos, largo_plazo, espacio_memoria,
                   proceso_suspendido_ready, mutexes, planificador, espacio>>

SuspendidosAvisa ==
    /\ suspendidos = "suspendido_ready" /\ proceso_suspendido_ready > 0
    /\ proceso_suspendido_ready' = proceso_suspendido_ready - 1
    /\ mutex_susp_o_memoria' = FALSE
    /\ suspendidos' = "check"
    /\ UNCHANGED <<estado, bloqueos, largo_plazo, espacio_memoria,
                   check_susp_ready, comprobar_memoria,
                   mutex_sem_espacio_memoria, planificador, espacio>>

ComprobarSuspendidos == SuspendidosEsperaPedido \/ SuspendidosAvisa

-----------------------------------------------------------------------------
(* What the rest of the kernel does to the planner *)

\* crear_proceso.
Crear(p) ==
    /\ estado[p] = "NO_CREADO"
    /\ Pasa(p, "NEW")
    /\ largo_plazo' = largo_plazo + 1
    /\ UNCHANGED <<bloqueos, espacio_memoria, check_susp_ready,
                   proceso_suspendido_ready, mutexes, hilos>>

\* CAUSA_IO.
Bloquear(p) ==
    /\ estado[p] = "MEMORIA" /\ bloqueos < Bloqueos
    /\ Pasa(p, "BLOCKED")
    /\ bloqueos' = bloqueos + 1
    /\ UNCHANGED <<semaforos, mutexes, hilos>>

\* comprobar_suspendido, after its delay.
Suspender(p) ==
    /\ estado[p] = "BLOCKED"
    /\ Pasa(p, "SUSP_BLOCKED")
    /\ espacio_memoria' = espacio_memoria + 1
    /\ largo_plazo' = largo_plazo + 1
    /\ UNCHANGED <<bloqueos, check_susp_ready, proceso_suspendido_ready,
                   mutexes, hilos>>

\* FINALIZACION_IO.
FinalizarIO(p) ==
    /\ \/ /\ estado[p] = "BLOCKED"
          /\ Pasa(p, "MEMORIA")
          /\ UNCHANGED semaforos
       \/ /\ estado[p] = "SUSP_BLOCKED"
          /\ Pasa(p, "SUSP_READY")
          /\ proceso_suspendido_ready' = proceso_suspendido_ready + 1
          /\ espacio_memoria' = espacio_memoria + 1
          /\ largo_plazo' = largo_plazo + 1
          /\ UNCHANGED check_susp_ready
    /\ UNCHANGED <<bloqueos, mutexes, hilos>>

\* finalizar_proceso of one that runs, or of one whose device disconnects.
Finalizar(p) ==
    /\ estado[p] \in {"MEMORIA", "BLOCKED", "SUSP_BLOCKED"}
    /\ Pasa(p, "EXIT")
    /\ espacio_memoria' = espacio_memoria + 1
    /\ largo_plazo' = largo_plazo + 1
    /\ UNCHANGED <<bloqueos, check_susp_ready, proceso_suspendido_ready,
                   mutexes, hilos>>

\* Faulty variant: a dump that fails signals nobody.
FallarDumpEnSilencio(p) ==
    /\ estado[p] = "MEMORIA"
    /\ Pasa(p, "EXIT")
    /\ UNCHANGED <<bloqueos, semaforos, mutexes, hilos>>

\* MEMORY_DUMP that fails: largo_plazo is not signalled.
FallarDump(p) ==
    /\ estado[p] = "MEMORIA"
    /\ Pasa(p, "EXIT")
    /\ espacio_memoria' = espacio_memoria + 1
    /\ UNCHANGED <<bloqueos, largo_plazo, check_susp_ready,
                   proceso_suspendido_ready, mutexes, hilos>>

-----------------------------------------------------------------------------
Next ==
    \/ Planificador \/ ComprobarEspacio \/ ComprobarSuspendidos
    \/ \E p \in Pid :
          \/ Crear(p) \/ Bloquear(p) \/ Suspender(p) \/ FinalizarIO(p)
          \/ Finalizar(p) \/ FallarDump(p)

Spec == Init /\ [][Next]_vars

\* The three threads are scheduled, operations end, and so do processes, one
\* way or another.
Justa ==
    /\ WF_vars(Planificador) /\ WF_vars(ComprobarEspacio)
    /\ WF_vars(ComprobarSuspendidos)
    /\ \A p \in Pid : WF_vars(FinalizarIO(p) \/ Finalizar(p))

SpecJusta == Spec /\ Justa
=============================================================================
