# TP-SSOO in TLA+

A verification development of the operating-systems simulator of this
repository: a kernel that plans processes, CPUs that run them, a memory server
with frames and a swap file, and input/output modules, each a program that
talks to the others over TCP. The modules here are translated from the C code
under `src/`; TLC checks them on small instances and TLAPS proves most of what
they promise for every size. Names of variables and actions are those of the
code wherever TLA+ allows it.

## 1. Inventory

### Components, their state and their operations

| component | source | state | operations |
|---|---|---|---|
| kernel: processes and queues | `kernel/src/estructuras.*`, `semaforos.c` | pcb states, `queue_new`, `queue_ready`, `queue_susp_ready`, running units, CPUs, devices, dictionaries of waiting and running IO, counting semaphores, 13 mutexes | push, remove, search |
| short-term planner | `scheduler.c` 3-286, 643-710 | the planner thread, `proceso_ready`, `cpu_libre`, `desalojando` | FIFO, SJF, SRT with preemption |
| long-term planner | `scheduler.c` 310-641 | the planner thread(s), `nuevo_proceso`, `espacio_memoria` | FIFO, PMCP |
| dispatch | `kernel.c` 163-459 | one thread for each CPU | EXIT, IO, INIT_PROC, DUMP_MEMORY, INTERRUPCION |
| devices | `kernel.c` 581-726, `scheduler.c` 712-771 | one thread for each device | identification, end of an operation, disconnection |
| suspension | `scheduler.c` 721-746 | one sleeping thread for each block | SWAP of a process blocked too long |
| CPU | `cpu/src/cpu.c` | context, interrupt flag | fetch, execute, context given back, flush |
| cache, TLB | `cpu/src/cache.c`, `tlb.c` | entries, `puntero_clock`, timestamps | search, replacement (CLOCK, CLOCK-M; FIFO, LRU), flush |
| memoria: frames and processes | `memoria/src/marcos.c`, `proceso.c`, `atencion_a_kernel.c` | bit map of frames, two lists of processes | INICIAR_PROCESO, FINALIZAR_PROCESO |
| memoria: page tables | `tablas.c` | a tree for each process | build, walk, free |
| memoria: swap | `manejo_swap.c` | `lista_swap`, the file | SWAP, VUELTA_SWAP |
| memoria: user space | `lectura_escritura.c`, `atencion_a_cpu.c` | `espacio_usuario` | LEER, ESCRIBIR, PEDIR_MARCO, DUMP |
| io | `io/src/main.c` | none but its socket | one operation at a time |
| utils | `utils/src/utils/socket.c` | none | packets and handshake |

### How they interact

A CPU has two connections to the kernel (dispatch and interrupt) and one to
memoria. The kernel sends a context to a CPU; the CPU runs instructions that it
asks memoria for, until one needs the kernel; it sends the context back, waits
for the answer, and only then flushes its TLB and its cache. The kernel makes
each request to memoria on a connection of its own, holding `mutex_pcb`, and
waits for the answer. A device has one connection and one operation at a time.
Inside the kernel the threads meet through semaphores: whoever makes a process
ready signals `proceso_ready`, whoever frees a CPU `cpu_libre`, whoever frees
memory `espacio_memoria`; a planner waits for tokens first and takes the
mutexes of the lists after.

### What is hard

* Tokens and lists are changed by different threads: a token too many makes a
  planner take a process that is not there, one too few stops the system.
* A process blocked on a device may at the same time end its operation, be
  suspended by its timer, and lose its device.
* A timer outlives the block it was made for, and even its pcb.
* The device loop of a disconnection removes entries of the list it walks.
* A device can be used by one thread before the thread that identifies it has
  finished with it.
* Frames are given and taken by creation, swapping, return and end; slots of
  the swap file have holes and are used again in another order.
* The CPU's copies of pages and translations must die with the context, and the
  modified ones must reach memoria before anybody else looks at the frame.
* PMCP: three threads wake each other up with mutexes that one locks and another
  unlocks, and two of them wait for the same semaphore.
* The thirteen mutexes: handlers take up to nine of them one by one, and the FIFO
  planner unlocks one that another thread may hold.
* A page number is cut into one index per level by the CPU and walked by memoria,
  each with its own configuration of levels and entries; an index beyond a table
  that is not full has no page.
* Preemption: a process chosen to be interrupted may leave its CPU by itself, and
  the interrupt then crosses the message that makes it useless; the lock of the
  preemption passes from thread to thread; a counter of -1 that ends the cycle of
  the CPU travels in the same field as a real one.

`PROJECT.json` lists each of these at its line under `hazards`, with the
properties that cover it or the reason why none does yet.

### What makes each component correct

* planners: each token stands for exactly one process or one CPU; no process
  is in two places; none is forgotten; swapped-out processes go before new ones;
* devices: a device serves one process; nobody waits while a device is free;
* suspension: who is in memory and who is in swap follows from the state;
* PMCP: no wake-up is lost and whoever waits is brought in;
* locks: no circle of waits, and no datum used by two threads at once;
* memoria: a page number leads to its own leaf; frames and slots are neither shared nor lost, contents survive;
* preemption: a decision is carried out once, the preempted process resumes where
  it was, the replacement gets that CPU and no other;
* CPU: what is read is what was last written, and the copies never outlive the
  process.

## 2. The modules

| module | what it is |
|---|---|
| `Kernel` | planners FIFO and SJF, long-term FIFO, dispatch, devices, suspension |
| `KernelProps` | its properties |
| `CicloDeVida` | abstract: the life of the processes, memory that fits, at most one running per CPU |
| `KernelProofs` | theorems about `Kernel`: types, tokens of the semaphores, where each process is, devices, order; that it implements `CicloDeVida` |
| `Memoria` | frames, page tables, swap file, requests |
| `MemoriaProps` | its properties |
| `MemoriaVirtual` | abstract: every process has pages that only it changes |
| `MemoriaProofs` | theorems about `Memoria`: frames, swap file; that it implements `MemoriaVirtual` |
| `Mmu` | CPUs with cache and TLB, composed with `Memoria` |
| `MmuProps` | its properties; implements `MemoriaVirtual` too |
| `MmuProofs` | theorems about `Mmu`, which rest on those of `MemoriaProofs` and `TablaProofs` |
| `TablaDePaginas` | the tree of page tables: how it is built and walked, and the indices of the CPU |
| `TablaProofs` | that the table and its walk are exact, for every shape and number of pages |
| `Srt` | the SRT planner, the preempting thread, dispatch and the CPUs with their two connections |
| `SrtProps` | its properties |
| `SrtProofs` | theorems about `Srt` |
| `Pmcp` | the long-term planner PMCP with the two threads that wake it up |
| `PmcpProps` | its properties |
| `PmcpProofs` | theorems about `Pmcp` |
| `Cerrojos` | threads that run sections under mutexes, for any sections |
| `CerrojosProps` | its properties |
| `KernelLocks` | the sections of the kernel's threads, which instantiate `Cerrojos` |
| `CerrojosProofs` | theorems about `Cerrojos` |
| `Listas` | lemmas about sets of numbers and lists, for several of the above |
| `MCKernel`, `MCMemoria`, `MCMmu`, `MCSrt`, `MCPmcp`, `MCLocks` | instances for TLC |

### Kernel

A handler or a planner iteration runs between the acquisition and the release
of `mutex_pcb` and of the mutexes of the lists it touches, so each is one
action, with all the functions it calls: `Finalizado`, `CausaIo`, `InitProc`,
`MemoryDump` are the cases of `esperar_dispatch`, `FinalizacionIo` and
`DesconectarIo` those of `escuchar_socket_io`, `ComprobarSuspendido` the end of
the sleep of a suspension thread. What is *not* under one lock is not one
action: a planner takes its semaphores in actions of their own (`corto` and
`largo` say where its thread is), and the identification of a device has the two
steps that the code has (`IdentificarIo`, `RevisarColaAlIdentificar`).
The answer of memoria belongs to the action, since the request is synchronous
and made under `mutex_pcb`; memoria is reduced to who is in it (`residentes`,
`en_swap`) and what fits. The thread of a freed pcb reads freed memory, so
`ComprobarSuspendido` then acts on any process (`Apuntados`).

Abstracted: burst estimates (SJF picks any ready process), sizes (in frames),
programs (any sequence of system calls, at most `MaxSyscalls` that block).

### Memoria

One request, one action: `IniciarProceso`, `FinProceso`, `EnviarASwap`,
`SacarDeSwap`, `DumpDeMemoria` from the kernel, `EscribirEspacio` from a CPU.
The contents of a page is one value; a page table is the sequence of its leaves;
`PrimerosDe` stands for the searches of the first free bit, the first hole and
the first slot of a process. `Bits` keeps the rounding of the bit map to bytes.

### Mmu

`Instruccion` is a READ or a WRITE with everything it does: cache first, then
TLB or PEDIR_MARCO, replacement with its write-back, insertion. The loops of
CLOCK and CLOCK-M are written by what they compute: `EligeClock(c, v)` and
`EligeClockM(c, v)` say whether the loop stops at its step `v`, `Pasos` is the
first such step (`Elige` is the loop of the configured algorithm), `Bajadas` the
bits it cleared on the way, `SeEscribe` whether it writes the victim. `DevolverContexto` is the answer of the kernel and the flush of
the TLB; `VaciarCache` flushes one page of the cache per step, since each is a
message of its own. The requests of the kernel are those of `Memoria`, about a
process that no CPU works for (`Ocupa`).

A translation that the TLB does not have asks memoria for the page:
`PedirPagina` walks the table that `TablaDePaginas!CrearTabla` built by the indices
that `Accesos` cuts out of its number, and `tabla` of `Memoria` has the frame of the
leaf it finds. The operators of `TablaDePaginas` take the shape of a table, its number
of entries `e` and of levels `n`, as parameters, so that one definition is checked and
proved for all shapes; `Mmu` uses them with the constants `ENTRADAS_POR_TABLA` and
`CANTIDAD_NIVELES`. A table that no page is left for is never made, since the loop of the
level above stops first, so the walk meets no null subtable. `RecorridoExacto` says that
the walk leads each page to itself and the TLB to the same frame. A READ or WRITE of a
page that the process has not, but that its number of levels can name, is
`InstruccionFueraDeRango`: `buscar_pagina` returns NULL, the caller does not look, and
memoria dies (`caido`). A number beyond the
capacity of the table would name another page of the same process and is not an
input here: `MmuAssumption` keeps processes within it. The levels and the entries
are one constant each, though the CPU and memoria read each its own file.

`Puntual` is an assumption on the environment that the code does *not* enforce:
that whatever the kernel does with a process after it left a CPU reaches memoria
when that CPU has finished its flush. What a process sees of its pages is `Vista`: its cache first, then the frame its TLB or
memoria gives, or the swap file; `VistaConstante` says that it implements
`MemoriaVirtual`. With `Puntual = TRUE` the properties of coherence hold; with `FALSE`, which is the code as it is, the run `mmu_tarde`
shows what breaks.

### Srt

The other short-term planner, with both ends of the wire. In the kernel:
`planificar_corto_plazo_SJF_desalojo` by its three waits and its decision
(`corto`), `comprobar_desalojo` (`desalojador`), with `desalojando` a variable
because one thread locks it and another unlocks it, and each `esperar_dispatch` in
two steps: `RecibirDispatch` looks the process up and stores its program counter,
then the handler (`Interrupcion`, `Finalizado`, `CausaIo`, `InitProc`,
`MemoryDump`) takes its locks. In the CPU: the main thread by its place (`fase`),
the thread that listens for interrupts (`LlegaInterrupcion`), and the connections,
`a_kernel`, `a_cpu` and `interrupciones`. `RecibirRespuesta` takes whatever comes
first, as `recv` does, so a context on its way can pass for an answer. A CPU that
receives the counter -1 hangs, since memoria does not answer for that instruction.

Long-term planning, memory and devices are reduced to what makes a process ready
(`Admitir`, `FinalizacionIo`); `Kernel` has them in full. Estimates depend on
times, so any ready process may be shorter than any running one.

`Puntual = FALSE` is the code. `Puntual = TRUE` is an assumption that the code
does not enforce: an interrupt is sent when nothing else is on its way, and
strikes its process between ordinary instructions, or at its EXIT. The
properties of consistency hold in both; those that say that a preemption does its
work hold only in the second, and the first has three ways of breaking them: the
lost interrupt of the run `srt_perdida`; an INTERRUPCION that names a process
already gone, which leaves another one INTERRUMPIDO for ever
(`InterrumpidosConReemplazo`); and one sent after a system call other than EXIT,
whose -1 is stored if the process has a unit again (`Retoma`), either because the
call was INIT_PROC or because the process came back on another CPU meanwhile.

### Pmcp

The thread of `planificar_largo_plazo_PMCP` by its waits (`planificador`), and those
of `comprobar_espacio` and `comprobar_procesos_suspendidos` by theirs (`espacio`,
`suspendidos`). `comprobar_memoria`, `mutex_susp_o_memoria` and
`mutex_sem_espacio_memoria` are variables that say whether each is locked, because one
thread locks what another unlocks. `RevisarSuspendidos` and `RevisarNuevos` are two
steps, since the code lets go of `mutex_queue_susp_ready` in between; `Avisar` is the
signal to both threads after a new process that does not fit.

The rest of the kernel appears by what these threads see of it: a process is new, in
memory, blocked, swapped out, ready to come back or finished, and each change signals
what the handler signals, the dump that fails included, which signals no
`largo_plazo`. The third thread of the source, `comprobar_procesos_nuevos`, is never
started (`scheduler.c:415`) and is left out: a smaller process that is created while
the planner sleeps for memory waits with the others.

### Cerrojos and KernelLocks

`Kernel`, `Srt` and `Pmcp` take what runs under mutexes as one step. These two modules
are about that assumption. `Cerrojos` has the threads, the mutexes and the steps of a
section: take a mutex, use data, unlock mutexes, whoever has them, as
`pthread_mutex_unlock` of a default mutex does. `KernelLocks` writes each function of
the kernel that takes a mutex as such a section: `FIFOVuelve`, `CausaIO`,
`Desconexion`... `Bajo(ms, ds)` is the common form, `Orden` the order in which all of
them take mutexes, `GuardiaCon` the mutex that protects each datum. For the queue of
the swapped-out it is `mutex_queue_ready` under FIFO, whose planner unlocks
`mutex_queue_susp_ready` twice (`scheduler.c:325` and 337), and `mutex_queue_susp_ready`
under PMCP.

Two uses of data are not under the mutex that the others take. `identificar_io` adds
to the list of devices without any and fills the dictionaries under mutexes that the
end of another device does not take (`RolSinGuardia`). `esperar_dispatch` writes the
program counter with none (`kernel.c:191`), which is no datum of `KernelLocks`; what
comes of it is in `Srt` (`Retoma`).

## 3. Runs

| run | instance | shows |
|---|---|---|
| `kernel_fifo` | 3 processes (one fills memory alone), 2 CPUs, 2 devices of one name, both may be lost, 2 frames, 1 blocking call each | the invariants of tokens, queues, units, blocked processes, memory and devices; order of admission; order of `queue_ready`; implements `CicloDeVida` |
| `kernel_tarde` | SJF, 1 CPU, a device that connects while processes run, none lost; fair | every process ends |
| `memoria` | 3 processes of 2, 1, 1 pages, 2 frames, 2 values | frames and slots; a swap file no longer than the pages of all the processes ever created; contents |
| `mmu` | 2 processes of 2 and 1 pages, 3 frames; cache 1 with CLOCK-M and TLB 1, or TLB 1 alone | flush, translations, coherence through swap; memoria dies of a page out of range alone |
| `mmu_reemplazo` | 1 process of 4 pages; cache 3 with each CLOCK, cache 2 with TLB 2, or TLB 2 with LRU | the victims of the replacement loops, sizes; every page is reached at the frame that memoria gave it, in tables of any shape up to 3 levels of 3 entries |
| `mmu_tarde` | as `mmu`, not `Puntual` | **violation**: a dump misses what the process wrote |
| `srt` | 3 processes, 2 CPUs, 2 preemptions, 1 IO or dump; interrupts at any time; CPUs symmetric | units, queue, tokens, the lock of the preemption, no null pointer |
| `srt_puntual` | 3 processes, 2 CPUs, 2 preemptions, no IO, `Puntual`; fair | preemptions are carried out, nobody is lost, run twice or resumed at -1; the system does not fall asleep |
| `srt_perdida` | 2 processes, 1 CPU, 1 preemption; fair | **violation**: a preemption that never ends |
| `pmcp` | 3 processes of 1, 1 and 2 pages, memory of 2, one IO operation; fair | a round of the planner for each that waits; no lost wake-up; whoever waits comes in or the planner sleeps for ever at one known place |
| `pmcp_espera` | the same | **violation**: that place is reached: a swapped-out process never comes back |
| `locks` | 3 threads of any roles, one of each planner, 13 mutexes, FIFO; symmetric | no circle of waits, no datum used by two threads |

Why these bounds: `kernel_fifo` has more processes than CPUs and than frames, so
queues, waits for memory, suspension and return all happen; two devices of one
name make the skipping loop and the choice of a device matter, and one blocking
call per process is enough for a stale timer to find its process in every state.
In `memoria` the file gets holes, and slots in an order other than the frames.
In `mmu` the third frame lets a process come back to other frames. In
`mmu_reemplazo` a cache of three entries goes through the four turns of CLOCK-M;
contents are one value there, and two in `mmu`. `Segundos` bounds the clock of
the TLB, `MaxSyscalls` the blocking calls of a program.

In `srt` three processes are enough for both CPUs to be busy with a third one ready;
two preemptions let the second meet what the first left behind. `MaxSyscalls` is the number of IO and
dumps of all processes together; EXIT and INIT_PROC are free. `srt_puntual` has
none: its question is the preemption itself, and its state space with fairness is
explored without symmetry, which TLC does not support for liveness.

In `pmcp` the process of two pages fills the memory, so that either small one keeps it
out; one IO operation is enough for a process to be swapped out and to compete with
new ones for the way back. In `locks` a circle of two or of three can close and two
threads of one role can meet; that no longer circle closes with more threads, and that
PMCP is as good as FIFO, is what the theorems of `CerrojosProofs` say, whose assumptions
about the sections TLC evaluates for both planners (`LosDosPlanificadores` of
`MCLocks`).

Deadlock is checked in `locks`, whose threads never end. It is not checked in the
others: every one of these systems may stop, when all processes have ended.

### Fairness

`kernel_tarde` and the temporal properties of `Srt` need it. In `Kernel`, `Justicia` is weak fairness of every
planner step, of each CPU's next message, of each device's answer and of the
second half of its identification, and of the end of each sleep. Threads are
POSIX threads that block only in `sem_wait`, `recv`, `sleep` and mutexes; programs
are finite here, as in the tests without a `GOTO` loop; a device answers after its
sleep. Nothing is assumed of the connection of a device, and none is lost in that
run. A mutex that is acquired is always released in the sections modelled.

In `Srt`, `Justicia` is weak fairness of each thread of the kernel, of both threads
of each CPU and of the device of each blocked process. It does not make a program
end: a process may execute ordinary instructions for ever.

In `Pmcp`, `Justa` is weak fairness of each of the three threads and, for each process
in memory or swapped out, of its end or of the end of its IO: programs and operations
are finite. Nothing forces a process to be created, to do IO or to be suspended. A
thread that waits for a mutex may be passed over only while the mutex is locked:
only one other thread competes for each, so weak fairness is enough.

### Disagreements found

1. `mmu_tarde`. The CPU answers `DUMP_MEMORY`, `IO` or a preemption first and
   writes its modified pages afterwards, while the kernel goes on as soon as it
   has the context. The dump that memoria calls "exitoso" may hold old pages. In
   the same window a swapped-out or finished process makes memoria use a process
   it cannot find (`caido` in the model).
2. `srt_perdida`. The CPU clears its interrupt flag when it goes to wait for a
   context. An interrupt that arrives after the last check of a process that leaves
   by itself is erased, nobody sends INTERRUPCION, and the kernel keeps the CPU
   busy and `desalojando` locked for ever.
3. `pmcp_espera`. The planner waits for `espacio_memoria` on behalf of a swapped-out
   process while `comprobar_espacio` waits for the same semaphore on behalf of a new one
   that has already come in. The last process to finish signals once; if
   `comprobar_espacio` takes the token, it unlocks a mutex that nobody waits for, and
   the planner sleeps for ever with the memory empty.

Two more were met while modelling and have no run, since no text of the repository
says otherwise. `identificar_io` lists a device as free and looks at the queue in a
second critical section, `comprobar_cola_bloqueados`, that marks it free again when
nobody waits: a process that asked for it in between is served by a device marked
free, and the next one is sent to it as well. And a preempted process becomes ready
without a signal to the planner (`scheduler.c:653`): if a CPU was freed in between it
stays idle with a process ready, and what does hold is `NoSeDuerme`, that with *all*
CPUs free a ready process gets one.

## 4. Proofs

`tlapm` proves all of what follows for every value of the constants that meets the
named assumptions: `KernelAssumption`, `MemoriaAssumption`, `PmcpAssumption`,
`SrtAssumption`, `MensajesAssumption`, `MmuAssumption`, `TablaAssumption`,
`CerrojosAssumption` and `GuardiaAssumption`. They say that the sets of processes, CPUs
and frames are what the code makes them: finite, with sizes that are numbers.
`MensajesAssumption` says that the values that stand for no message and for the answer
of the kernel are not contexts. `MmuAssumption` keeps each process within what its table
can number, in tables of at least one entry and one level; `TablaAssumption` says that
NULL is no page. Two groups of theorems have a hypothesis of their own, stated in the
theorem: `Puntual` and `[]NadieTarde`, explained below.

### Kernel

`TypeCorrect`: the type invariant is inductive by itself, one lemma for each action
(`Tipo...`). It contains that no semaphore goes below zero. `FichasReadyConservadas`,
`FichasCpuConservadas`, `FichasNuevoConservadas`: the three counts of tokens. None is
inductive alone. `Fichas` is their conjunction with `CpusRepartidas`, that every
connected CPU is free or has one unit: without it `SacarProcesoEjecucion` could free a
CPU that was free and signal twice for one. `PlanificadorEncuentra` uses the counts the
other way: a planner with both tokens has a ready process and a free CPU, so
`PlanificarCorto` always takes its main branch, and the branches that would lose a token
are dead. That is `PlanificadorNuncaEnVano`; `CpusBienRepartidas` is the other conjunct.

The second half of `KernelProofs` is about where each process is. `ColasSegunEstado`,
`UnidadesSegunEstado`, `BloqueadosSegunEstado` and `ResidenciaSegunEstado` say that its
state, the queue, unit or device list that holds it and its place in memoria agree.
Each handler finds a process through one list and moves it to another; that it is not
already there follows from its state, so only the conjunction of all (`Procesos`, with
the types and the counts: `Todo`) is inductive. The stale timer of a suspension is where
this matters: it acts on whatever process it finds, and is harmless because that process
is blocked, hence in one list of one device.

`KernelImplementaCiclo` is the refinement: every step of `Kernel` is a step of
`CicloDeVida` or leaves the states alone. `SiempreSuspendidosPrimero` and
`NadieSeAdelanta` are the two action properties of order: of admission, and of
`queue_ready`.

`CadaDispositivoUnProceso` (a device serves one process) and `NadieEsperaDeMas` (nobody
waits while a device of that name is free) come from `Servicio`. Both have the
hypothesis `[]NadieTarde`, that no device is between the two steps of its
identification, because without it they are false: see the first of the two
disagreements that have no run, at the end of section 3. The instance of `kernel_tarde`,
with its late device, allows states that violate both. `TodosPresentes` says when the
hypothesis holds: when all devices are connected at the start, as in `kernel_fifo`.

### Memoria

`MemoriaTipada` and `MarcosBienRepartidos`. The invariant `Inv` is type correctness,
`ListasDisjuntas` (no process in both lists) and `MarcosRepartidos`. `ListasDisjuntas`
is needed because `IniciarProceso` must not give a second table to a process that has
one, and `SacarDeSwap` must find one without frames. `Primeros` states what a search of
the first `n` returns; `TomaMarcos` and `DejaMarcos` are the two ways in which requests
change the owners of frames.

`SlotsBienRepartidos` and `SwapSiempreAcotado` are about the swap file (`InvSwap`). That
the file stays bounded needs the first: the file grows only when no hole is left, and
then every slot of it belongs to a page of a process in swap. `PaginasVirtuales` is the
refinement of `MemoriaVirtual`. `InvVirtual` adds that the pages of a process in swap
can be found in order (`PrimerosDe` is not empty), and `PrimerosUnicos`, that there is one
way to find them: writing the pages of one process to the first holes and reading them
from its first slots gives them back in order, wherever the holes were.

### Mmu

`InvCpu` is about the lists of each CPU and needs no hypothesis. It gives `NadaAjeno`
(only entries of the process whose context it has), `SiempreEnOrden` (one entry for
each page, no more than configured, the pointer within the cache) and
`SiempreVictimaDebida`: for any number of entries CLOCK stops at the first entry not
used and CLOCK-M, within four turns, at the first of the best class, so its fifth turn,
which would lose a modified page, is dead code.

The rest assumes `Puntual`, without which it is false (`mmu_tarde`). The invariant is
`InvMmu`: that of memoria (`InvVirtual`), `InvCpu`, and `Fieles`: a process with a CPU is
in memory and has that CPU alone, the frames its CPU remembers are those of its table,
and an entry of the cache not modified holds what its frame holds.
`MarcosSiempreVigentes` follows at once, and with the theorem about tables below
`CadaPaginaEnSuMarco` (`RecorridoExacto`): a hit of the TLB and a walk give the same
frame.

`CpusImplementanPedidos`, `MmuSpec => Spec`, says that whatever the CPUs do is for
memoria a sequence of its own requests, so that every theorem of `MemoriaProofs` holds of
the composed system. `LoEscritoSeLee` is the refinement of `MemoriaVirtual` by what
processes see. A READ or a WRITE may hit, bring a page, evict another and write it back
at once; its proof does not follow those cases into the refinement but passes through
two relations: `CacheTras`, what the step does to the entries of the cache and to the
frames, and `EsVista`, what a process sees through them. `VolcadoAlDia` is the
property that `mmu_tarde` violates, proved under `Puntual`, and
`SoloMuerePorUnaPaginaAjena` says that memoria dies of nothing but a page out of range.

### Tables of pages

`TablasExactas`, for any number `e` of entries, `n` of levels and any number of pages
that fit: the loops over the table find its pages in order, the entries that a CPU cuts
out of a page number lead to that page, and those of a number beyond the last page lead
nowhere. The table, the walk, the loops and the power are recursive functions. For each,
a first lemma (`HayPotencia`, `HayHasta`, `HayCrear`, `HayCamino`, `HayAplanar`,
`HayBajar`) shows that some function has its equation, extending one by a value at a time;
the definition chooses one, and what its values are is a second induction. The induction
theorems of the library take an operator as a parameter, which the installed provers
cannot instantiate: `InduccionHasta`, `InduccionDesde` and `InduccionDesdeUno` speak of a
set instead, the set of the numbers for which the formula holds, and rest on the least
and the greatest member of what is left out (`HayMenor`, `HayMayor`).

The argument has one fact for each direction. Going down, a table of a level made when
there are `k` pages has its `j`-th entry iff `k + (j - 1) * c < total`, where `c` is what an
entry of that level holds, and that entry is what the level below makes at that number
(`Tramo`, by induction on the entries inside one on the levels). Then the walk keeps that
the number of pages before the table it has reached is `nro_pagina` rounded down to a
multiple of `c`: `EntradaDeNivel` is the arithmetic of the digits, and `nro < total` is
what all indices being in range comes to (`BuscarExacto`). The loops keep that the level
they have flattened holds the nodes at the multiples of `c` below `total` (`Completo`),
which at the pages, where `c` is 1, is the claim (`HojasExactas`). The power itself is
mathematical here: in the code `divisor` is an `int`.

### Srt

The units of the kernel change when a CPU answers, so what they are worth depends on
what travels between both. The inductive invariant `Inv` has three parts. `Reparto`:
units, states, queue, free CPUs and the lock `desalojando` agree. `Aviso`: an interrupt
is in one place at a time, the wire, the flag of the CPU or the message INTERRUPCION, and
while it is in any the process it makes room for waits. `Canal`: what the connection
holds in each phase of the CPU and of its dispatch thread; it allows the crossings
that the code allows, a context taken for the answer among them (`TrasRespuesta`,
`TrasResto`).

From it, however late the interrupts come: `TiposDeSrt`, `CpusRepartidas`,
`ProcesosEnSuLugar`, `UnDesalojoPorVez`, `SinPunteroNuloNunca`, and
`FichasPorCpuLibre`. Under `Puntual`, without which they are false (section 2, Srt):
`NingunoSinReemplazo`, `NadieEnDosCpus` and `SiempreRetoma`. `InvPuntual` adds to `Inv`
where a CPU is between the interrupt and the answer of the kernel (`Relevando`), that at
most one process is INTERRUMPIDO for a CPU (`UnRelevo`), that a process in execution is
run, asked for or on its way (`Activo`), and that -1 never travels with a context
(`Contadores`).

Two more say what the liveness properties rest on, the part of them that a proof can
reach. `PlanificadorSiempreDespierto`, without `Puntual`: the planner never sleeps over a
ready process with every CPU free. `planificacion_principal` alone does not count the ready
processes, because the INTERRUPCION handler makes one ready without a signal; the
invariant `AvisosListos` adds the busy CPUs, each of which will signal when its process
leaves, and counts the process that a preemption under way will make ready, for which
another left the queue. With only *one* CPU free the statement is false (section 3).
`NingunDesalojoSeOlvida`, with `Puntual`: while `desalojando` is locked,
the CPU concerned executes with the interrupt coming or seen, finishes a call or an
instruction with the flag up, or has sent INTERRUPCION. What the runs add is that
under fairness these pending steps are taken.

### Pmcp

`PmcpTipado`, and `FichasLargoConservadas`: the planner never sleeps on `largo_plazo`
while a process waits. `FichasLargo` is not inductive: a round that finds `queue_new`
empty spends its token on nobody. `RondaDeNuevos` says why that does no harm: in that
round there was no swapped-out process when it looked, so there is a token for each
that became ready since.

`NingunAvisoSePierde` (`SinAvisoPerdido`) follows what happened since the planner looked:
`SuspendidosAvisados` a process that came back, `NuevosAvisados` memory that was freed.
Either has its semaphore up, or the thread that took the token is about to unlock
`mutex_susp_o_memoria`, or has unlocked it. `Encargados` says that each of those threads
was asked to tell (`Avisar` releases both) and has not told yet; `Turno`, that whoever has
`mutex_sem_espacio_memoria` is waiting for memory, so `comprobar_espacio` cannot be stuck
behind nobody.

### Cerrojos

`NuncaEnCirculo` and `DatosSiempreExcluidos`, for any threads, mutexes and sections.
`CerrojosAssumption` asks that each section take its mutexes in order and unlock later
what it took; `GuardiaAssumption` that it use data under their mutex and unlock no such
mutex that it does not hold. TLC evaluates both for the sections of the kernel. The
invariant has two halves, because a mutex may be unlocked by a thread that does not have
it: `Retenidos`, whoever has a mutex took it in the section it runs and has not unlocked
it since, and `Guardados`, the converse, for the mutexes that protect data. From the
first, a thread that waits for one that waits does so for a mutex of a higher rank
(`EsperasEnOrden`); a circle would have no lowest rank. From the second, two threads that
use one datum would both have its mutex.

### Only model-checked

* Liveness under fairness, which the prover does not do: `Termina`, `EntraOSeAtasca`,
  `DesalojoTermina`, `NoSeDuerme`. Of the last two the safety part is proved
  (`NingunDesalojoSeOlvida`, `PlanificadorSiempreDespierto`). The runs that show
  violations are TLC's as well.
* That a `Puntual` kernel or a configuration without late devices is what one runs:
  those are hypotheses on the environment, and the runs `mmu_tarde`, `srt_perdida` and
  `kernel_tarde` show what happens without them.

## 5. Not modelled

* The estimates of SJF and SRT: any ready process may be the shortest. So it is not
  seen that `actualizar_estimaciones` subtracts the same time again and again.
* CPUs that disconnect: the code does nothing sensible, the process stays running.
* Failures to open or write files; the kernel's own end.
* Fetch of instructions, NOOP and GOTO: they change no state that another part sees.
* Offsets within a page but for those `Desplazamiento` tells apart, and accesses that
  cross a page, which programs must not make.
* Sockets, packets, configuration, logs: no state is shared through them.

## 6. Plan

1. `Kernel`, `Memoria`, `Pmcp`, `Cerrojos`, `Mmu` with `TablaDePaginas`, `Srt`, with their
   runs: done.
2. Proofs of every invariant, action property and refinement that the runs check: done.
3. Left to TLC for good: the liveness properties.
