---------------------------- MODULE KernelLocks ----------------------------
(***************************************************************************)
(* The sections of code of the threads of the kernel: which mutexes each   *)
(* takes, in which order, which data it uses under them and which mutexes  *)
(* it unlocks.  Sources: kernel/src/kernel.c, scheduler.c, estructuras.c.  *)
(*                                                                         *)
(* The mutexes that one thread locks for another to unlock are signals and *)
(* are not here: desalojando is in module Srt, and comprobar_memoria,      *)
(* mutex_susp_o_memoria and mutex_sem_espacio_memoria in module Pmcp.  The *)
(* waits for semaphores hold no mutex.  mutex_x is "x" here.               *)
(***************************************************************************)
EXTENDS Integers, Sequences, SequencesExt

CONSTANT LargoPlazo     \* ALGORITMO_INGRESO_A_READY: "FIFO" or "PMCP"

Nada == "nada"          \* no mutex

\* The order in which the code takes them.
Orden == <<"queue_susp_ready", "queue_new", "queue_ready", "queue_exit",
           "queue_block", "lista_cpus", "procesos_ejecutando",
           "lista_dispositivos_io", "pcb", "diccionario_esperando_io",
           "diccionario_ejecutando_io", "pid_inc", "creacion_hilos">>

MutexDelKernel == ToSet(Orden)

RangoDelKernel ==
    [m \in MutexDelKernel |->
        Len(Orden) - CHOOSE i \in DOMAIN Orden : Orden[i] = m]

DatoDelKernel == {"queue_susp_ready", "queue_new", "queue_ready", "queue_exit",
                  "cpus", "ejecutando", "dispositivos", "diccionarios",
                  "procesos", "memoria", "pid"}

\* "procesos" is the state, the queue and the timers of the PCBs.  Their
\* program counter is not here: esperar_dispatch writes it with no mutex
\* (kernel.c:191; module Srt says what that does).
\*
\* The FIFO planner unlocks mutex_queue_susp_ready for others, so it is not
\* what protects its queue.
GuardiaCon(largo) ==
    [d \in DatoDelKernel |->
        CASE d = "queue_susp_ready" ->
                IF largo = "FIFO" THEN "queue_ready" ELSE d
          [] d = "cpus" -> "lista_cpus"
          [] d = "ejecutando" -> "procesos_ejecutando"
          [] d = "dispositivos" -> "lista_dispositivos_io"
          [] d = "diccionarios" -> "queue_block"
          [] d \in {"procesos", "memoria"} -> "pcb"
          [] d = "pid" -> "pid_inc"
          [] OTHER -> d]

-----------------------------------------------------------------------------
Tomando(ms) == [i \in DOMAIN ms |-> [toma |-> ms[i], usa |-> {}, suelta |-> {}]]
Usando(ds) == <<[toma |-> Nada, usa |-> ds, suelta |-> {}]>>
Soltando(ms) == <<[toma |-> Nada, usa |-> {}, suelta |-> ToSet(ms)]>>

\* Mutexes are taken, data used and the mutexes let go.
Bajo(ms, ds) == Tomando(ms) \o Usando(ds) \o Soltando(ms)

\* What poner_en_ready, poner_en_ejecucion and sacar_proceso_ejecucion use.
Ejecucion == {"cpus", "ejecutando", "procesos"}

-----------------------------------------------------------------------------
(* The planners *)

\* planificar_corto_plazo_FIFO, _SJF and _SJF_desalojo.
CortoPlazo ==
    Bajo(<<"queue_ready", "lista_cpus", "procesos_ejecutando", "pcb">>,
         {"queue_ready"} \cup Ejecucion)

\* comprobar_desalojo.
Desalojo ==
    Bajo(<<"queue_ready", "procesos_ejecutando", "pcb">>,
         {"queue_ready", "ejecutando", "procesos"})

MutexLargoFIFO == <<"queue_susp_ready", "queue_new", "queue_ready",
                    "lista_cpus", "procesos_ejecutando", "pcb">>

\* planificar_largo_plazo_FIFO with a process to bring back from swap: it
\* unlocks mutex_queue_susp_ready before vuelta_swap and again at the end.
FIFOVuelve ==
    Tomando(MutexLargoFIFO) \o Usando({"queue_susp_ready"})
    \o Soltando(<<"queue_susp_ready">>)
    \o Usando({"memoria", "queue_susp_ready", "queue_ready"} \cup Ejecucion)
    \o Soltando(MutexLargoFIFO)

\* planificar_largo_plazo_FIFO with a new process.  (With neither it would
\* let go of nothing: KernelProps!FichasNuevo says it does not come here.)
FIFONuevo ==
    Bajo(MutexLargoFIFO, {"memoria", "queue_susp_ready", "queue_new",
                          "queue_ready"} \cup Ejecucion)

\* planificar_largo_plazo_PMCP with a process to bring back from swap.
PMCPVuelve ==
    LET resto == <<"queue_ready", "lista_cpus", "procesos_ejecutando", "pcb">>
    IN  Tomando(<<"queue_susp_ready">>) \o Usando({"queue_susp_ready"})
        \o Tomando(resto)
        \o Usando({"memoria", "queue_susp_ready", "queue_ready"} \cup Ejecucion)
        \o Soltando(<<"queue_susp_ready">> \o resto)

\* planificar_largo_plazo_PMCP with no process to bring back from swap.
PMCPNuevo ==
    Bajo(<<"queue_susp_ready">>, {"queue_susp_ready"})
    \o Bajo(<<"queue_new", "queue_ready", "lista_cpus", "procesos_ejecutando",
              "pcb">>,
            {"memoria", "queue_new", "queue_ready"} \cup Ejecucion)

\* comprobar_suspendido.
Suspension == Bajo(<<"queue_block", "pcb">>, {"memoria", "procesos"})

-----------------------------------------------------------------------------
(* esperar_dispatch: every message looks its process up first. *)

Buscar == Bajo(<<"procesos_ejecutando">>, {"ejecutando"})

Interrupcion ==
    Buscar \o Bajo(<<"queue_ready", "lista_cpus", "procesos_ejecutando", "pcb">>,
                   {"queue_ready"} \cup Ejecucion)

Finalizado ==
    Buscar \o Bajo(<<"queue_exit", "lista_cpus", "procesos_ejecutando", "pcb">>,
                   {"memoria"} \cup Ejecucion)

CausaIO ==
    Buscar \o Bajo(<<"queue_block", "lista_cpus", "procesos_ejecutando",
                     "lista_dispositivos_io", "pcb", "diccionario_esperando_io",
                     "diccionario_ejecutando_io">>,
                   {"dispositivos", "diccionarios", "memoria"} \cup Ejecucion)
    \o Bajo(<<"creacion_hilos">>, {})

\* crear_proceso locks mutex_pid_inc in pcb_create.
InitProc ==
    LET resto == <<"queue_new", "lista_cpus", "procesos_ejecutando", "pcb">>
    IN  Buscar \o Tomando(resto) \o Usando(Ejecucion)
        \o Bajo(<<"pid_inc">>, {"pid"})
        \o Usando({"queue_new"}) \o Soltando(resto)

MemoryDump ==
    Buscar \o Bajo(<<"queue_ready", "queue_exit", "lista_cpus",
                     "procesos_ejecutando", "pcb">>,
                   {"queue_ready", "queue_exit", "memoria"} \cup Ejecucion)

-----------------------------------------------------------------------------
(* Devices and connections *)

FinalizacionIO ==
    Bajo(<<"queue_susp_ready", "queue_ready", "queue_block", "lista_cpus",
           "procesos_ejecutando", "lista_dispositivos_io", "pcb",
           "diccionario_esperando_io", "diccionario_ejecutando_io">>,
         {"queue_susp_ready", "queue_ready", "dispositivos", "diccionarios"}
            \cup Ejecucion)

\* The device disconnects: the dictionaries are used without their mutexes.
Desconexion ==
    Bajo(<<"queue_block", "procesos_ejecutando", "lista_dispositivos_io", "pcb">>,
         {"dispositivos", "diccionarios", "memoria", "procesos"})

\* identificar_io: the list of devices is used without its mutex.
ConectarIO ==
    LET dicc == <<"diccionario_esperando_io", "diccionario_ejecutando_io">>
    IN  Usando({"dispositivos"}) \o Bajo(dicc, {"diccionarios"})
        \o Bajo(<<"creacion_hilos">>, {})
        \o Bajo(dicc, {"dispositivos", "diccionarios"})

\* identificar_cpu, for the first and for the second connection of a CPU.
ConectarCpu ==
    {Bajo(<<"lista_cpus">>, {"cpus"}),
     Tomando(<<"lista_cpus">>) \o Usando({"cpus"})
        \o Bajo(<<"creacion_hilos">>, {}) \o Soltando(<<"lista_cpus">>)}

-----------------------------------------------------------------------------
SeccionesCon(largo) ==
    [corto       |-> {CortoPlazo},
     desalojo    |-> {Desalojo},
     largo       |-> IF largo = "FIFO" THEN {FIFOVuelve, FIFONuevo}
                     ELSE {PMCPVuelve, PMCPNuevo},
     suspension  |-> {Suspension},
     despacho    |-> {Interrupcion, Finalizado, CausaIO, InitProc, MemoryDump},
     io          |-> {FinalizacionIO, Desconexion},
     conectar_io |-> {ConectarIO},
     conectar_cpu |-> ConectarCpu]

SeccionesDelKernel == SeccionesCon(LargoPlazo)
GuardiaDelKernel == GuardiaCon(LargoPlazo)
RolDelKernel == DOMAIN SeccionesDelKernel

\* identificar_io takes no mutex of the data it uses.
RolSinGuardia == {"conectar_io"}
=============================================================================
