------------------------------ MODULE SrtProps ------------------------------
(***************************************************************************)
(* What preemption promises.  The properties of the first part hold however*)
(* late an interrupt comes; those of the second need Puntual, but for      *)
(* NoSeDuerme and PlanificadorDespierto, which it rests on.                *)
(***************************************************************************)
EXTENDS Srt

PorReemplazar == {i \in DOMAIN unidades : unidades[i].modo = "AEJECUTAR"}

\* A busy CPU has exactly one process to run, now or once the preempted one
\* has left, and a free one has none: buscar_cpu_libre, sacar_proceso_ejecucion
\* and comprobar_desalojo, each in its thread, agree on who has a CPU.
\* estructuras.c 172-252, scheduler.c 137-156.
UnaPorCpu ==
    \A c \in Cpu :
       Cardinality(UnidadesEn(c, "EJECUTANDO") \cup UnidadesEn(c, "AEJECUTAR"))
           = IF c \in libres THEN 0 ELSE 1

\* No process is in queue_ready twice, nor there and on a CPU, and pcb->estado
\* tells which: a process taken from the queue to replace another stays READY
\* until the CPU answers, and is not lost meanwhile.
\* scheduler.c 86-89, 139-154, 643-697; kernel.c 221-241.
CadaUnoEnSuLugar ==
    \A p \in Pid :
       /\ queue_ready[p] + Cardinality({i \in DOMAIN unidades :
                                           unidades[i].proceso = p}) <= 1
       /\ UnidadesDe(p) # {} =>
             estado[p] = IF \E u \in UnidadesDe(p) : u.modo = "AEJECUTAR"
                            THEN "READY" ELSE "EXEC"
       /\ estado[p] = "READY" => queue_ready[p] = 1 \/ UnidadesDe(p) # {}
       /\ estado[p] = "EXEC" => UnidadesDe(p) # {}
       /\ queue_ready[p] = 1 => estado[p] = "READY"

\* The mutex desalojando, locked by one thread and unlocked by another, is
\* locked exactly while one replacement waits for its CPU, so there are never
\* two preemptions at a time.  scheduler.c 125-172, kernel.c 246.
DesalojoEnCurso ==
    /\ desalojando <=> PorReemplazar # {}
    /\ Cardinality(PorReemplazar) <= 1

\* The handlers of dispatch never follow a null pointer: a process that makes
\* a system call has a unit when it is looked up, even if it was chosen to be
\* preempted, and an INTERRUPCION finds a process to run.
\* kernel.c 183-192, 229-238, 277-283, 401-406, 425.
HaySyscall(c) == despacho[c] # Nada /\ despacho[c].motivo \in Syscalls
SinPunteroNulo ==
    \A c \in Cpu :
       /\ HaySyscall(c) => despacho[c].hallado
       /\ despacho[c] # Nada /\ despacho[c].motivo = "INTERRUPCION" =>
             UnidadesEn(c, "AEJECUTAR") # {}

\* cpu_libre, with the token that the planner holds, counts the free CPUs: the
\* planner that finds no process gives its token back, and a preempted process
\* that leaves by itself does not free the CPU of its replacement.
\* scheduler.c 66, 103; estructuras.c 231-252.
FichasCpu ==
    cpu_libre + (IF corto = "planificar" THEN 1 ELSE 0) = Cardinality(libres)

-----------------------------------------------------------------------------
\* A unit INTERRUMPIDO is alone on its CPU and has a replacement: no process
\* is left INTERRUMPIDO when the preemption it was chosen for is over, where
\* no handler would look for it again.  kernel.c 205-228.
InterrumpidosConReemplazo ==
    \A c \in Cpu :
       /\ UnidadesEn(c, "INTERRUMPIDO") # {} =>
             UnidadesEn(c, "AEJECUTAR") # {}
       /\ Cardinality(UnidadesEn(c, "INTERRUMPIDO")) <= 1

\* The CPUs that execute p, or have its context on the way.
EjecutanA(p) ==
    {c \in Cpu : \/ fase[c] \in {"ejecutando", "colgada"} /\ contexto[c].pid = p
                 \/ fase[c] = "control" /\ contexto[c].pc = 0
                       /\ contexto[c].pid = p
                 \/ \E i \in DOMAIN a_cpu[c] :
                       a_cpu[c][i] # OK /\ a_cpu[c][i].pid = p}

\* No two CPUs execute one process, whatever contexts are sent for a start,
\* for the return of INIT_PROC and for a replacement.
\* scheduler.c 89, 671-676; kernel.c 238, 406; cpu.c 166-205.
UnSoloEjecutor == \A p \in Pid : Cardinality(EjecutanA(p)) <= 1

\* A process in queue_ready will go on from an instruction of its program: the
\* -1 by which the CPU ends its cycle is never stored as its program counter.
\* kernel.c 191, cpu.c 186, 199 and the system calls of 303-357.
Retoma == \A p \in Listos : program_counter[p] = 0

\* A preemption that was decided is carried out: the CPU answers and the mutex
\* desalojando is unlocked.  scheduler.c 125-155, cpu.c 182-201, kernel.c 246.
DesalojoTermina == desalojando ~> ~desalojando

\* The system does not fall asleep: with every CPU free, a ready process gets
\* one of them.  scheduler.c 64-107, estructuras.c 240, 251.
NoSeDuerme == (Listos # {} /\ libres = Cpu) ~> (Listos = {} \/ libres # Cpu)
\* What NoSeDuerme rests on: whatever semaphore the planner waits for has been
\* signalled if a process is ready, for the first one if all CPUs are free
\* besides; with both tokens it finds a CPU, so that the branch which gives
\* proceso_ready back is dead.  scheduler.c 64-107, 653; estructuras.c 240, 251.
PlanificadorDespierto ==
    /\ corto = "principal" /\ Listos # {} /\ libres = Cpu =>
          planificacion_principal > 0
    /\ corto = "proceso_ready" /\ Listos # {} => proceso_ready > 0
    /\ corto = "cpu_libre" /\ libres # {} => cpu_libre > 0
    /\ corto = "planificar" => libres # {}

\* INTERRUPCION has been sent by CPU c and not handled.
Interrumpio(c) ==
    \/ a_kernel[c] # Nada /\ a_kernel[c].motivo = "INTERRUPCION"
    \/ despacho[c] # Nada /\ despacho[c].motivo = "INTERRUPCION"

\* What DesalojoTermina rests on: while desalojando is locked, the CPU of the
\* process to replace has the interrupt coming while it executes, has the flag
\* set before it looks at it, with the answer to its call on the way, or has
\* sent INTERRUPCION; it is never on its way back to waiting for a context,
\* where main erases the flag.  cpu.c 82-88, 182-201; scheduler.c 137-156.
DesalojoEnCamino ==
    desalojando =>
       \E c \in Cpu :
          /\ UnidadesEn(c, "AEJECUTAR") # {}
          /\ \/ fase[c] = "ejecutando"
                   /\ (interrupciones[c] > 0 \/ flag_interrupcion[c])
             \/ fase[c] = "control" /\ flag_interrupcion[c]
             \/ /\ fase[c] = "respuesta" /\ flag_interrupcion[c]
                /\ \/ a_kernel[c] # Nada \/ despacho[c] # Nada
                   \/ a_cpu[c] # <<>>
             \/ fase[c] = "respuesta_int" /\ Interrumpio(c)
=============================================================================
