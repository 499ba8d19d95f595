-------------------------------- MODULE Srt ---------------------------------
(***************************************************************************)
(* Preemption: the SRT short-term planner, the thread that looks for a     *)
(* process to preempt, the dispatch threads of the kernel and the CPU      *)
(* modules they talk to over the dispatch and the interrupt connections.   *)
(* Sources: kernel/src/scheduler.c, kernel.c, estructuras.c, cpu/src/cpu.c.*)
(*                                                                         *)
(* Grain of atomicity.  A kernel thread's step is what it does under       *)
(* mutex_pcb and the mutexes of the lists it touches.  esperar_dispatch    *)
(* looks the pid up, and stores the program counter, under another mutex   *)
(* before the handler takes those: two steps.  The mutex `desalojando` is  *)
(* kept from one thread's step to another's, so it is a variable.          *)
(*                                                                         *)
(* Data.  Estimates are times, so any ready process may be the shortest    *)
(* and any running one longer than it.  A program counter is either within *)
(* the program (0) or -1.  The memory always suffices, devices always exist*)
(* and blocked processes are not suspended: what happens otherwise is in   *)
(* Kernel.  The CPU reads the first word of an answer: when it is that of a*)
(* context, the words left, which main drops one by one as unknown         *)
(* operations, are not kept in a_cpu (no pid or counter has the number of  *)
(* CONTEXTO_PROCESO, 24).                                                  *)
(*                                                                         *)
(* Puntual.  Nothing in the code orders an interrupt with the messages of  *)
(* the process it is for: FALSE is the code.  TRUE assumes that preemption *)
(* is decided when every CPU executes or waits, with nothing on its way,   *)
(* that the CPU has the interrupt before it starts another instruction, and*)
(* that this instruction is not a system call other than EXIT.             *)
(***************************************************************************)
EXTENDS Integers, Sequences, FiniteSets, SequencesExt, FiniteSetsExt

CONSTANTS
    Pid,            \* the processes that may ever be created
    Cpu,            \* the CPU modules, all connected
    MaxSyscalls,    \* bound: blocking system calls (IO, DUMP) in all
    MaxDesalojos,   \* bound: preemptions
    Nada,           \* no message, no context
    OK,             \* the answer of the kernel to a message
    Puntual         \* interrupts strike between ordinary instructions

ASSUME SrtAssumption ==
    /\ IsFiniteSet(Pid) /\ Pid \subseteq Nat /\ Pid # {}
    /\ IsFiniteSet(Cpu)
    /\ MaxSyscalls \in Nat /\ MaxDesalojos \in Nat
    /\ Puntual \in BOOLEAN

VARIABLES
    estado,             \* pcb->estado, as in Kernel
    program_counter,    \* pcb->program_counter
    queue_new,
    queue_ready,        \* how many times each process is in the list, which
                        \* is always sorted before it is used
    unidades,           \* lista_procesos_ejecutando
    libres,             \* the CPUs with esta_libre = 1
    planificacion_principal, proceso_ready, cpu_libre, check_desalojo,
    desalojando,        \* whether the mutex desalojando is locked
    corto,              \* where planificar_corto_plazo_SJF_desalojo is
    desalojador,        \* where comprobar_desalojo is
    desalojos,          \* preemptions decided so far
    syscalls,           \* blocking system calls left in the programs
    despacho,           \* what each esperar_dispatch thread is handling
    a_kernel,           \* the message each CPU has sent by dispatch
    a_cpu,              \* dispatch connection of each CPU, kernel to CPU
    interrupciones,     \* INTERRUPCION_CPU not read yet by each CPU
    flag_interrupcion,  \* of each CPU
    fase,               \* where the main thread of each CPU is
    contexto            \* the context each CPU is executing

colas     == <<queue_new, queue_ready>>
semaforos == <<planificacion_principal, proceso_ready, cpu_libre,
               check_desalojo>>
hilos     == <<corto, desalojador, desalojando, desalojos>>
kernelVars == <<estado, colas, unidades, libres, semaforos, hilos>>
cpuVars   == <<flag_interrupcion, fase, contexto>>
canales   == <<a_kernel, a_cpu, interrupciones>>
vars      == <<kernelVars, program_counter, syscalls, despacho, canales,
               cpuVars>>

Estados  == {"SIN_CREAR", "NEW", "READY", "EXEC", "BLOCKED", "LIBERADO"}
Modos    == {"EJECUTANDO", "INTERRUMPIDO", "AEJECUTAR"}
Unidad   == [proceso: Pid, cpu: Cpu, modo: Modos]
Syscalls == {"EXIT", "IO", "INIT_PROC", "DUMP_MEMORY"}
Contexto == [pid: Pid, pc: {0, -1}]
Mensaje  == [pid: Pid, pc: {0, -1}, motivo: Syscalls \cup {"INTERRUPCION"}]
Atencion == [pid: Pid, motivo: Syscalls \cup {"INTERRUPCION"},
             hallado: BOOLEAN]
Fases    == {"reset", "esperando", "ejecutando", "respuesta", "control",
             "respuesta_int", "colgada"}

ASSUME MensajesAssumption ==
    /\ Nada \notin Contexto \cup Mensaje \cup Atencion
    /\ OK \notin Contexto

TypeOK ==
    /\ estado \in [Pid -> Estados]
    /\ program_counter \in [Pid -> {0, -1}]
    /\ queue_new \in Seq(Pid)
    /\ queue_ready \in [Pid -> Nat]
    /\ unidades \in Seq(Unidad)
    /\ libres \in SUBSET Cpu
    /\ planificacion_principal \in Nat /\ proceso_ready \in Nat
    /\ cpu_libre \in Nat /\ check_desalojo \in Nat
    /\ desalojando \in BOOLEAN
    /\ corto \in {"principal", "proceso_ready", "cpu_libre", "planificar"}
    /\ desalojador \in {"check_desalojo", "desalojando"}
    /\ desalojos \in 0..MaxDesalojos
    /\ syscalls \in 0..MaxSyscalls
    /\ despacho \in [Cpu -> Atencion \cup {Nada}]
    /\ a_kernel \in [Cpu -> Mensaje \cup {Nada}]
    /\ a_cpu \in [Cpu -> Seq(Contexto \cup {OK})]
    /\ interrupciones \in [Cpu -> Nat]
    /\ flag_interrupcion \in [Cpu -> BOOLEAN]
    /\ fase \in [Cpu -> Fases]
    /\ contexto \in [Cpu -> Contexto \cup {Nada}]

\* main has created the first process; the CPUs wait for a context.
Init ==
    /\ estado = [p \in Pid |-> IF p = Min(Pid) THEN "NEW" ELSE "SIN_CREAR"]
    /\ queue_new = <<Min(Pid)>>
    /\ program_counter = [p \in Pid |-> 0]
    /\ queue_ready = [p \in Pid |-> 0]
    /\ unidades = <<>> /\ libres = Cpu
    /\ planificacion_principal = 0 /\ proceso_ready = 0
    /\ cpu_libre = Cardinality(Cpu) /\ check_desalojo = 0
    /\ desalojando = FALSE /\ desalojos = 0
    /\ corto = "principal" /\ desalojador = "check_desalojo"
    /\ syscalls = MaxSyscalls
    /\ despacho = [c \in Cpu |-> Nada]
    /\ a_kernel = [c \in Cpu |-> Nada]
    /\ a_cpu = [c \in Cpu |-> <<>>]
    /\ interrupciones = [c \in Cpu |-> 0]
    /\ flag_interrupcion = [c \in Cpu |-> FALSE]
    /\ fase = [c \in Cpu |-> "esperando"]
    /\ contexto = [c \in Cpu |-> Nada]

-----------------------------------------------------------------------------
(* Helpers of the kernel *)

Listos == {p \in Pid : queue_ready[p] > 0}
\* Faulty variant: only the units EJECUTANDO are looked at.
UnidadesEjecutandoDe(p) ==
    {u \in ToSet(unidades) : u.proceso = p /\ u.modo = "EJECUTANDO"}

UnidadesDe(p) == {u \in ToSet(unidades) : u.proceso = p}
LugaresDe(p) == {i \in DOMAIN unidades : unidades[i].proceso = p}
UnidadesEn(c, modo) ==
    {i \in DOMAIN unidades : unidades[i].cpu = c /\ unidades[i].modo = modo}

\* What poner_en_ready does besides changing the state, when the CPUs free at
\* that moment are ls.
AgregarAReady(p, ls) ==
    /\ queue_ready' = [queue_ready EXCEPT ![p] = @ + 1]
    /\ proceso_ready' = proceso_ready + 1
    /\ check_desalojo' = IF ls = {} THEN check_desalojo + 1
                                    ELSE check_desalojo

\* The CPUs that sacar_proceso_ejecucion(p) frees: the unit of a process that
\* is being preempted leaves its CPU busy, for the one that replaces it.
CpusQueLibera(p) ==
    {u.cpu : u \in {v \in UnidadesDe(p) : v.modo = "EJECUTANDO"}}

\* Faulty variant: buscar_por_cpu, every unit of the CPU leaves.
SacarPorCpu(p) ==
    LET cs == {u.cpu : u \in UnidadesDe(p)} IN
    /\ unidades' = SelectSeq(unidades, LAMBDA u : u.cpu \notin cs)
    /\ libres' = libres \cup cs
    /\ cpu_libre' = cpu_libre + Cardinality(cs)

\* sacar_proceso_ejecucion, but for its signal of planificacion_principal.
\* The loop goes on after the unit it removes, and finds no other: a process
\* has one at most.
SacarProcesoEjecucion(p) ==
    /\ unidades' = IF UnidadesDe(p) = {} THEN unidades
                   ELSE RemoveAt(unidades, Min(LugaresDe(p)))
    /\ libres' = libres \cup CpusQueLibera(p)
    /\ cpu_libre' = cpu_libre + Cardinality(CpusQueLibera(p))

ContextoDe(p) == [pid |-> p, pc |-> program_counter[p]]
Enviar(c, ms) == a_cpu' = [a_cpu EXCEPT ![c] = @ \o ms]

-----------------------------------------------------------------------------
(* planificar_corto_plazo_SJF_desalojo *)

EsperarPrincipal ==
    /\ corto = "principal" /\ planificacion_principal > 0
    /\ planificacion_principal' = planificacion_principal - 1
    /\ corto' = "proceso_ready"
    /\ UNCHANGED <<estado, colas, unidades, libres, proceso_ready, cpu_libre,
                   check_desalojo, desalojador, desalojando, desalojos,
                   program_counter, syscalls, despacho, canales, cpuVars>>

EsperarProcesoReady ==
    /\ corto = "proceso_ready" /\ proceso_ready > 0
    /\ proceso_ready' = proceso_ready - 1
    /\ corto' = "cpu_libre"
    /\ UNCHANGED <<estado, colas, unidades, libres, planificacion_principal,
                   cpu_libre, check_desalojo, desalojador, desalojando,
                   desalojos, program_counter, syscalls, despacho, canales,
                   cpuVars>>

EsperarCpuLibre ==
    /\ corto = "cpu_libre" /\ cpu_libre > 0
    /\ cpu_libre' = cpu_libre - 1
    /\ corto' = "planificar"
    /\ UNCHANGED <<estado, colas, unidades, libres, planificacion_principal,
                   proceso_ready, check_desalojo, desalojador, desalojando,
                   desalojos, program_counter, syscalls, despacho, canales,
                   cpuVars>>

\* Faulty variant: esta_libre is not cleared.
EjecutarSinOcupar(p, c) ==
    /\ Enviar(c, <<ContextoDe(p)>>)
    /\ unidades' = Append(unidades,
           [proceso |-> p, cpu |-> c, modo |-> "EJECUTANDO"])
    /\ estado' = [estado EXCEPT ![p] = "EXEC"]
    /\ UNCHANGED libres

\* poner_en_ejecucion of a ready process on a free CPU: the context goes out
\* always, the unit is made only for a process that has none.
PonerEnEjecucion(p, c) ==
    /\ Enviar(c, <<ContextoDe(p)>>)
    /\ IF UnidadesDe(p) = {}
       THEN /\ libres' = libres \ {c}
            /\ unidades' = Append(unidades,
                   [proceso |-> p, cpu |-> c, modo |-> "EJECUTANDO"])
            /\ estado' = [estado EXCEPT ![p] = "EXEC"]
       ELSE UNCHANGED <<libres, unidades, estado>>

\* Faulty variant: list_get instead of list_remove.
PlanificarSinSacar ==
    /\ corto = "planificar" /\ corto' = "principal"
    /\ IF Listos # {} /\ libres # {}
       THEN \E p \in Listos, c \in libres : PonerEnEjecucion(p, c)
       ELSE UNCHANGED <<estado, unidades, libres, a_cpu>>
    /\ UNCHANGED <<colas, semaforos, desalojador, desalojando, desalojos,
                   program_counter, syscalls, despacho, a_kernel,
                   interrupciones, cpuVars>>

\* Faulty variant: the token of the CPU is not given back.
PlanificarSinDevolver ==
    /\ corto = "planificar" /\ corto' = "principal"
    /\ IF Listos # {} /\ libres # {}
       THEN \E p \in Listos, c \in libres :
               /\ queue_ready' = [queue_ready EXCEPT ![p] = @ - 1]
               /\ PonerEnEjecucion(p, c)
       ELSE UNCHANGED <<estado, queue_ready, unidades, libres, a_cpu>>
    /\ UNCHANGED <<queue_new, semaforos, desalojador, desalojando, desalojos,
                   program_counter, syscalls, despacho, a_kernel,
                   interrupciones, cpuVars>>

PlanificarCorto ==
    /\ corto = "planificar"
    /\ corto' = "principal"
    /\ IF Listos # {} /\ libres # {}
       THEN /\ \E p \in Listos, c \in libres :
                  /\ queue_ready' = [queue_ready EXCEPT ![p] = @ - 1]
                  /\ PonerEnEjecucion(p, c)
            /\ UNCHANGED <<proceso_ready, cpu_libre>>
       ELSE /\ proceso_ready' = IF Listos # {} THEN proceso_ready + 1
                                               ELSE proceso_ready
            /\ cpu_libre' = IF Listos = {} THEN cpu_libre + 1 ELSE cpu_libre
            /\ UNCHANGED <<estado, queue_ready, unidades, libres, a_cpu>>
    /\ UNCHANGED <<queue_new, planificacion_principal, check_desalojo,
                   desalojador, desalojando, desalojos, program_counter,
                   syscalls, despacho, a_kernel, interrupciones, cpuVars>>

-----------------------------------------------------------------------------
(* comprobar_desalojo *)

EsperarCheckDesalojo ==
    /\ desalojador = "check_desalojo" /\ check_desalojo > 0
    /\ check_desalojo' = check_desalojo - 1
    /\ desalojador' = "desalojando"
    /\ UNCHANGED <<estado, colas, unidades, libres, planificacion_principal,
                   proceso_ready, cpu_libre, corto, desalojando, desalojos,
                   program_counter, syscalls, despacho, canales, cpuVars>>

\* CPU c executes or waits and nothing it sent or was sent is on its way.
EnReposo(c) ==
    /\ fase[c] \in {"esperando", "ejecutando"}
    /\ a_cpu[c] = <<>> /\ a_kernel[c] = Nada /\ despacho[c] = Nada

\* Faulty variant: list_get without list_remove_element.
DesalojarSinSacar(r, i) ==
    /\ interrupciones' = [interrupciones EXCEPT ![unidades[i].cpu] = @ + 1]
    /\ unidades' = Append([unidades EXCEPT ![i].modo = "INTERRUMPIDO"],
           [proceso |-> r, cpu |-> unidades[i].cpu, modo |-> "AEJECUTAR"])
    /\ desalojando' = TRUE
    /\ desalojos' = desalojos + 1
    /\ UNCHANGED queue_ready

\* Faulty variant: the mutex is unlocked in every case.
DesalojarSinRetener(r, i) ==
    /\ queue_ready' = [queue_ready EXCEPT ![r] = @ - 1]
    /\ interrupciones' = [interrupciones EXCEPT ![unidades[i].cpu] = @ + 1]
    /\ unidades' = Append([unidades EXCEPT ![i].modo = "INTERRUMPIDO"],
           [proceso |-> r, cpu |-> unidades[i].cpu, modo |-> "AEJECUTAR"])
    /\ desalojos' = desalojos + 1
    /\ UNCHANGED desalojando

\* The process of the i-th unit is interrupted for the ready process r; the
\* mutex stays locked until the CPU answers.  proceso_ready keeps r's token.
Desalojar(r, i) ==
    /\ queue_ready' = [queue_ready EXCEPT ![r] = @ - 1]
    /\ interrupciones' = [interrupciones EXCEPT ![unidades[i].cpu] = @ + 1]
    /\ unidades' = Append([unidades EXCEPT ![i].modo = "INTERRUMPIDO"],
           [proceso |-> r, cpu |-> unidades[i].cpu, modo |-> "AEJECUTAR"])
    /\ desalojando' = TRUE
    /\ desalojos' = desalojos + 1

\* The shortest ready process is compared with the units EJECUTANDO; it may
\* be shorter than none of them.
ComprobarDesalojo ==
    /\ desalojador = "desalojando" /\ ~desalojando
    /\ Puntual => \A c \in Cpu : EnReposo(c)
    /\ desalojador' = "check_desalojo"
    /\ \/ \E r \in Listos, i \in DOMAIN unidades :
             /\ unidades[i].modo = "EJECUTANDO"
             /\ desalojos < MaxDesalojos
             /\ Desalojar(r, i)
       \/ UNCHANGED <<queue_ready, interrupciones, unidades, desalojando,
                      desalojos>>
    /\ UNCHANGED <<estado, queue_new, libres, semaforos, corto,
                   program_counter, syscalls, despacho, a_kernel, a_cpu,
                   cpuVars>>

-----------------------------------------------------------------------------
(* The long-term planner and the devices, as seen from here *)

\* A new process gets its memory and becomes ready.
Admitir ==
    /\ queue_new # <<>>
    /\ LET p == Head(queue_new) IN
       /\ estado' = [estado EXCEPT ![p] = "READY"]
       /\ AgregarAReady(p, libres)
    /\ queue_new' = Tail(queue_new)
    /\ planificacion_principal' = planificacion_principal + 1
    /\ UNCHANGED <<unidades, libres, cpu_libre, hilos, program_counter,
                   syscalls, despacho, canales, cpuVars>>

\* The IO of a blocked process ends: the planner is signalled twice.
FinalizacionIo(p) ==
    /\ estado[p] = "BLOCKED"
    /\ estado' = [estado EXCEPT ![p] = "READY"]
    /\ AgregarAReady(p, libres)
    /\ planificacion_principal' = planificacion_principal + 2
    /\ UNCHANGED <<queue_new, unidades, libres, cpu_libre, hilos,
                   program_counter, syscalls, despacho, canales, cpuVars>>

-----------------------------------------------------------------------------
(* esperar_dispatch *)

\* The message of CPU c is read and its pid looked up: what it says of the
\* program counter is stored if the process has a unit on any CPU.
RecibirDispatch(c) ==
    /\ despacho[c] = Nada /\ a_kernel[c] # Nada
    /\ LET m == a_kernel[c]
           hallado == UnidadesDe(m.pid) # {}
       IN  /\ despacho' = [despacho EXCEPT ![c] = [pid |-> m.pid,
                  motivo |-> m.motivo, hallado |-> hallado]]
           /\ program_counter' =
                  IF hallado THEN [program_counter EXCEPT ![m.pid] = m.pc]
                             ELSE program_counter
    /\ a_kernel' = [a_kernel EXCEPT ![c] = Nada]
    /\ UNCHANGED <<kernelVars, syscalls, a_cpu, interrupciones, cpuVars>>

\* The thread of CPU c handles the system call i of p.  The handlers use the
\* pcb that was looked up without testing it.
Atiende(c, p, i) ==
    /\ despacho[c] = [pid |-> p, motivo |-> i, hallado |-> TRUE]
    /\ despacho' = [despacho EXCEPT ![c] = Nada]

\* INTERRUPCION: the last unit of the CPU that is INTERRUMPIDO, if the pid
\* was found, goes back to ready without a signal of planificacion_principal;
\* the last one AEJECUTAR takes the CPU; desalojando is unlocked.
Interrupcion(c) ==
    /\ despacho[c] # Nada /\ despacho[c].motivo = "INTERRUPCION"
    /\ despacho' = [despacho EXCEPT ![c] = Nada]
    /\ UnidadesEn(c, "AEJECUTAR") # {}
    /\ LET j == Max(UnidadesEn(c, "AEJECUTAR"))
           q == unidades[j].proceso
           lista == [unidades EXCEPT ![j].modo = "EJECUTANDO"]
       IN  /\ Enviar(c, <<OK, ContextoDe(q)>>)
           /\ IF despacho[c].hallado /\ UnidadesEn(c, "INTERRUMPIDO") # {}
              THEN LET i == Max(UnidadesEn(c, "INTERRUMPIDO"))
                       p == unidades[i].proceso
                   IN  /\ estado' = [estado EXCEPT ![p] = "READY",
                                                   ![q] = "EXEC"]
                       /\ AgregarAReady(p, libres)
                       /\ unidades' = RemoveAt(lista, i)
              ELSE /\ estado' = [estado EXCEPT ![q] = "EXEC"]
                   /\ unidades' = lista
                   /\ UNCHANGED <<queue_ready, proceso_ready,
                                  check_desalojo>>
    /\ desalojando' = FALSE
    /\ UNCHANGED <<queue_new, libres, planificacion_principal, cpu_libre,
                   corto, desalojador, desalojos, program_counter, syscalls,
                   a_kernel, interrupciones, cpuVars>>

\* Faulty variant: planificacion_principal is not signalled.
FinalizadoSinAvisar(c, p) ==
    /\ Atiende(c, p, "EXIT")
    /\ Enviar(c, <<OK>>)
    /\ SacarProcesoEjecucion(p)
    /\ estado' = [estado EXCEPT ![p] = "LIBERADO"]
    /\ UNCHANGED <<colas, planificacion_principal, proceso_ready,
                   check_desalojo, hilos, program_counter, syscalls,
                   a_kernel, interrupciones, cpuVars>>

\* FINALIZADO.
Finalizado(c, p) ==
    /\ Atiende(c, p, "EXIT")
    /\ Enviar(c, <<OK>>)
    /\ SacarProcesoEjecucion(p)
    /\ planificacion_principal' = planificacion_principal + 1
    /\ estado' = [estado EXCEPT ![p] = "LIBERADO"]
    /\ UNCHANGED <<colas, proceso_ready, check_desalojo, hilos,
                   program_counter, syscalls, a_kernel, interrupciones,
                   cpuVars>>

\* CAUSA_IO.
CausaIo(c, p) ==
    /\ Atiende(c, p, "IO")
    /\ Enviar(c, <<OK>>)
    /\ SacarProcesoEjecucion(p)
    /\ planificacion_principal' = planificacion_principal + 1
    /\ estado' = [estado EXCEPT ![p] = "BLOCKED"]
    /\ UNCHANGED <<colas, proceso_ready, check_desalojo, hilos,
                   program_counter, syscalls, a_kernel, interrupciones,
                   cpuVars>>

SinCrear == {p \in Pid : estado[p] = "SIN_CREAR"}

\* INIT_PROC: crear_proceso takes the next pid.  The caller's context is
\* sent back unless its CPU has been interrupted.
InitProc(c, p) ==
    /\ Atiende(c, p, "INIT_PROC")
    /\ SinCrear # {}
    /\ estado' = [estado EXCEPT ![Min(SinCrear)] = "NEW"]
    /\ queue_new' = Append(queue_new, Min(SinCrear))
    /\ IF UnidadesEn(c, "INTERRUMPIDO") = {}
       THEN Enviar(c, <<OK, ContextoDe(p)>>)
       ELSE Enviar(c, <<OK>>)
    /\ UNCHANGED <<queue_ready, unidades, libres, semaforos, hilos,
                   program_counter, syscalls, a_kernel, interrupciones,
                   cpuVars>>

\* MEMORY_DUMP: the process is out of its CPU before poner_en_ready looks for
\* a free one.  When the dump fails the process ends.
MemoryDump(c, p, exito) ==
    /\ Atiende(c, p, "DUMP_MEMORY")
    /\ Enviar(c, <<OK>>)
    /\ SacarProcesoEjecucion(p)
    /\ IF exito
       THEN /\ estado' = [estado EXCEPT ![p] = "READY"]
            /\ AgregarAReady(p, libres \cup CpusQueLibera(p))
            /\ planificacion_principal' = planificacion_principal + 2
       ELSE /\ estado' = [estado EXCEPT ![p] = "LIBERADO"]
            /\ planificacion_principal' = planificacion_principal + 1
            /\ UNCHANGED <<queue_ready, proceso_ready, check_desalojo>>
    /\ UNCHANGED <<queue_new, hilos, program_counter, syscalls, a_kernel,
                   interrupciones, cpuVars>>

-----------------------------------------------------------------------------
(* CPU *)

\* escuchar_interrupt: it cannot set the flag while the main thread, which
\* holds mutex_interrupt, waits for the answer to INTERRUPCION.
LlegaInterrupcion(c) ==
    /\ interrupciones[c] > 0 /\ fase[c] # "respuesta_int"
    /\ interrupciones' = [interrupciones EXCEPT ![c] = @ - 1]
    /\ flag_interrupcion' = [flag_interrupcion EXCEPT ![c] = TRUE]
    /\ UNCHANGED <<kernelVars, program_counter, syscalls, despacho, a_kernel,
                   a_cpu, fase, contexto>>

\* The top of main's loop.
Reiniciar(c) ==
    /\ fase[c] = "reset"
    /\ flag_interrupcion' = [flag_interrupcion EXCEPT ![c] = FALSE]
    /\ fase' = [fase EXCEPT ![c] = "esperando"]
    /\ UNCHANGED <<kernelVars, program_counter, syscalls, despacho, canales,
                   contexto>>

\* main reads an operation: a context, or an answer nobody took, which it
\* drops as unknown.  memoria does not answer the request of instruction -1.
RecibirContexto(c) ==
    /\ fase[c] = "esperando" /\ a_cpu[c] # <<>>
    /\ a_cpu' = [a_cpu EXCEPT ![c] = Tail(@)]
    /\ LET m == Head(a_cpu[c]) IN
       IF m = OK
       THEN /\ fase' = [fase EXCEPT ![c] = "reset"]
            /\ UNCHANGED contexto
       ELSE /\ fase' = [fase EXCEPT
                   ![c] = IF m.pc = -1 THEN "colgada" ELSE "ejecutando"]
            /\ contexto' = [contexto EXCEPT ![c] = m]
    /\ UNCHANGED <<kernelVars, program_counter, syscalls, despacho, a_kernel,
                   interrupciones, flag_interrupcion>>

\* With Puntual an interrupt is seen before the next instruction begins.
PuedeEjecutar(c) ==
    /\ fase[c] = "ejecutando"
    /\ Puntual => interrupciones[c] = 0

\* NOOP, GOTO, READ, WRITE.
EjecutarComun(c) ==
    /\ PuedeEjecutar(c)
    /\ fase' = [fase EXCEPT ![c] = "control"]
    /\ UNCHANGED <<kernelVars, program_counter, syscalls, despacho, canales,
                   flag_interrupcion, contexto>>

\* The CPUs whose INIT_PROC has not been handled: bounds what may be created.
EnCreacion ==
    {c \in Cpu : \/ a_kernel[c] # Nada /\ a_kernel[c].motivo = "INIT_PROC"
                 \/ despacho[c] # Nada /\ despacho[c].motivo = "INIT_PROC"}

\* A system call of the process on c.  With Puntual a process that has been
\* interrupted may end, but makes no other call.
EjecutarSyscall(c, i) ==
    /\ PuedeEjecutar(c)
    /\ i = "INIT_PROC" =>
          Cardinality(SinCrear) > Cardinality(EnCreacion)
    /\ Puntual /\ flag_interrupcion[c] => i = "EXIT"
    /\ IF i \in {"IO", "DUMP_MEMORY"}
       THEN syscalls > 0 /\ syscalls' = syscalls - 1
       ELSE UNCHANGED syscalls
    /\ a_kernel' = [a_kernel EXCEPT
           ![c] = [pid |-> contexto[c].pid, pc |-> 0, motivo |-> i]]
    /\ fase' = [fase EXCEPT ![c] = "respuesta"]
    /\ UNCHANGED <<kernelVars, program_counter, despacho, a_cpu,
                   interrupciones, flag_interrupcion, contexto>>

\* The answer to a system call, whatever it is, and program_counter = -1.
RecibirRespuesta(c) ==
    /\ fase[c] = "respuesta" /\ a_cpu[c] # <<>>
    /\ a_cpu' = [a_cpu EXCEPT ![c] = Tail(@)]
    /\ contexto' = [contexto EXCEPT ![c].pc = -1]
    /\ fase' = [fase EXCEPT ![c] = "control"]
    /\ UNCHANGED <<kernelVars, program_counter, syscalls, despacho, a_kernel,
                   interrupciones, flag_interrupcion>>

\* Faulty variant: the flag is not looked at after a system call, as in the
\* condition that the code has commented out.
ControlarSoloComunes(c) ==
    /\ fase[c] = "control"
    /\ IF flag_interrupcion[c] /\ contexto[c].pc # -1
       THEN /\ a_kernel' = [a_kernel EXCEPT ![c] =
                   [pid |-> contexto[c].pid, pc |-> contexto[c].pc,
                    motivo |-> "INTERRUPCION"]]
            /\ fase' = [fase EXCEPT ![c] = "respuesta_int"]
       ELSE /\ fase' = [fase EXCEPT ![c] =
                   IF contexto[c].pc = -1 THEN "reset" ELSE "ejecutando"]
            /\ UNCHANGED a_kernel
    /\ UNCHANGED <<kernelVars, program_counter, syscalls, despacho, a_cpu,
                   interrupciones, flag_interrupcion, contexto>>

\* Faulty variant: program_counter = -1, which ends the loop, comes first.
ControlarTrasCortar(c) ==
    /\ fase[c] = "control"
    /\ IF flag_interrupcion[c]
       THEN /\ a_kernel' = [a_kernel EXCEPT ![c] =
                   [pid |-> contexto[c].pid, pc |-> -1,
                    motivo |-> "INTERRUPCION"]]
            /\ fase' = [fase EXCEPT ![c] = "respuesta_int"]
       ELSE /\ fase' = [fase EXCEPT ![c] =
                   IF contexto[c].pc = -1 THEN "reset" ELSE "ejecutando"]
            /\ UNCHANGED a_kernel
    /\ UNCHANGED <<kernelVars, program_counter, syscalls, despacho, a_cpu,
                   interrupciones, flag_interrupcion, contexto>>

\* After every instruction, system calls included, the flag is looked at.
ControlarInterrupcion(c) ==
    /\ fase[c] = "control"
    /\ IF flag_interrupcion[c]
       THEN /\ a_kernel' = [a_kernel EXCEPT ![c] =
                   [pid |-> contexto[c].pid, pc |-> contexto[c].pc,
                    motivo |-> "INTERRUPCION"]]
            /\ fase' = [fase EXCEPT ![c] = "respuesta_int"]
       ELSE /\ fase' = [fase EXCEPT ![c] =
                   IF contexto[c].pc = -1 THEN "reset" ELSE "ejecutando"]
            /\ UNCHANGED a_kernel
    /\ UNCHANGED <<kernelVars, program_counter, syscalls, despacho, a_cpu,
                   interrupciones, flag_interrupcion, contexto>>

\* The answer to INTERRUPCION, which may be a context that was on its way:
\* the rest of it is then dropped by main as unknown operations.
RecibirRespuestaInterrupcion(c) ==
    /\ fase[c] = "respuesta_int" /\ a_cpu[c] # <<>>
    /\ a_cpu' = [a_cpu EXCEPT ![c] = Tail(@)]
    /\ flag_interrupcion' = [flag_interrupcion EXCEPT ![c] = FALSE]
    /\ fase' = [fase EXCEPT ![c] = "reset"]
    /\ UNCHANGED <<kernelVars, program_counter, syscalls, despacho, a_kernel,
                   interrupciones, contexto>>

-----------------------------------------------------------------------------
Planificador == \/ EsperarPrincipal \/ EsperarProcesoReady
                \/ EsperarCpuLibre \/ PlanificarCorto
Desalojador  == EsperarCheckDesalojo \/ ComprobarDesalojo

\* What the handler of CPU c does.
Handler(c) ==
    \/ Interrupcion(c)
    \/ \E p \in Pid :
          \/ Finalizado(c, p) \/ CausaIo(c, p) \/ InitProc(c, p)
          \/ \E exito \in BOOLEAN : MemoryDump(c, p, exito)

\* The main thread of CPU c, but for the choice of an instruction.
MainCpu(c) == \/ Reiniciar(c) \/ RecibirContexto(c) \/ RecibirRespuesta(c)
              \/ ControlarInterrupcion(c) \/ RecibirRespuestaInterrupcion(c)

Ejecutar(c) == EjecutarComun(c) \/ \E i \in Syscalls : EjecutarSyscall(c, i)

Next ==
    \/ Planificador \/ Desalojador \/ Admitir
    \/ \E p \in Pid : FinalizacionIo(p)
    \/ \E c \in Cpu : \/ RecibirDispatch(c) \/ Handler(c)
                      \/ LlegaInterrupcion(c) \/ MainCpu(c) \/ Ejecutar(c)

Spec == Init /\ [][Next]_vars

\* Every thread of the kernel and of the CPUs is scheduled and devices
\* answer; a program need not end.
Justicia ==
    /\ WF_vars(Planificador) /\ WF_vars(Desalojador) /\ WF_vars(Admitir)
    /\ \A p \in Pid : WF_vars(FinalizacionIo(p))
    /\ \A c \in Cpu :
          /\ WF_vars(RecibirDispatch(c)) /\ WF_vars(Handler(c))
          /\ WF_vars(LlegaInterrupcion(c)) /\ WF_vars(MainCpu(c))
          /\ WF_vars(Ejecutar(c))

FairSpec == Spec /\ Justicia
=============================================================================
