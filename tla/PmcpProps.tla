----------------------------- MODULE PmcpProps -----------------------------
(***************************************************************************)
(* What the three threads of PMCP owe to the processes that wait.          *)
(***************************************************************************)
EXTENDS Pmcp

\* The processes out of memory that the planner is to bring in.
Esperan == En("NEW") \cup En("SUSP_READY")

\* The planner has spent a token of largo_plazo and not yet given it back.
EnRonda == planificador \in {"susp_ready", "new", "sin_lugar"}

\* comprobar_espacio and comprobar_procesos_suspendidos wait for a signal.
EspacioDuerme ==
    \/ espacio = "comprobar" /\ comprobar_memoria
    \/ espacio = "sem_espacio" /\ mutex_sem_espacio_memoria
    \/ espacio = "espacio_memoria" /\ espacio_memoria = 0

SuspendidosDuerme ==
    \/ suspendidos = "check" /\ check_susp_ready = 0
    \/ suspendidos = "suspendido_ready" /\ proceso_suspendido_ready = 0

-----------------------------------------------------------------------------
\* There is a round of the planner for each process that waits: largo_plazo
\* is signalled for every arrival (scheduler.c:734, kernel.c:663 and 746) and
\* every failed round gives its own back (scheduler.c:452, 486), so the dump
\* that fails without a signal of its own (kernel.c:443) does no harm.
FichasLargo ==
    largo_plazo + (IF EnRonda THEN 1 ELSE 0) >= Cardinality(Esperan)

\* The mutexes used as signals lose no wake-up of a planner that found no
\* room for a new process (scheduler.c:484-487): if all three threads sleep,
\* no swapped-out process is ready, a new process really has no room, and
\* comprobar_espacio is the one that waits for memory.
SinAvisoPerdido ==
    /\ planificador = "susp_o_memoria" /\ mutex_susp_o_memoria
    /\ EspacioDuerme /\ SuspendidosDuerme
    => /\ En("SUSP_READY") = {}
       /\ \E p \in En("NEW") : ~Entra(p)
       /\ espacio = "espacio_memoria"

\* Whoever waits is brought in, unless the planner sleeps for ever where it
\* waits for memory for a swapped-out process (scheduler.c:453-454): every
\* other wait of the three threads ends.
EntraOSeAtasca ==
    \A p \in Pid :
       p \in Esperan ~> \/ p \notin Esperan
                        \/ [](planificador \in {"sem_espacio", "espacio_memoria"})

\* A swapped-out process that is ready comes back: "Aviso que hay proceso en
\* suspendido ready" (scheduler.c:548), and a planner without room waits
\* "que algun proceso finalice" (scheduler.c:352).
VuelveDeSwap ==
    \A p \in Pid : estado[p] = "SUSP_READY" ~> estado[p] # "SUSP_READY"
=============================================================================
