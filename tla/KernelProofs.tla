---------------------------- MODULE KernelProofs ----------------------------
(***************************************************************************)
(* Proofs about the kernel without preemption, for every number of         *)
(* processes, CPUs, devices and frames: type correctness, the conservation *)
(* of the tokens that the planners wait for, and where each process is:    *)
(* its state, the queue that holds it, the CPU or the device that serves   *)
(* it and its place in memoria always agree, so that the kernel implements *)
(* the life cycle of module CicloDeVida.                                   *)
(*                                                                         *)
(* None of the facts about places is inductive alone: a handler finds its  *)
(* process through one list and moves it to another, so that the process   *)
(* is not already in the second is known from its state, which the other   *)
(* conjuncts tie to the first.                                             *)
(***************************************************************************)
EXTENDS KernelProps, Listas

(***************************************************************************)
(* Lemmas about data.                                                      *)
(***************************************************************************)

\* The units of a process are as many as the CPUs they are on.
LEMMA UnidadesProps ==
    ASSUME TypeOK, KernelAssumption, NEW p \in Pid
    PROVE  LET cs == {u.cpu : u \in UnidadesDe(p)}
           IN  /\ cs \subseteq Cpu
               /\ IsFiniteSet(cs)
               /\ Cardinality(UnidadesDe(p)) \in Nat
               /\ Cardinality(UnidadesDe(p)) = Cardinality(cs)
<1> DEFINE us == UnidadesDe(p)
           cs == {u.cpu : u \in us}
           f == [u \in us |-> u.cpu]
<1>1. us \subseteq Unidad /\ \A u \in us : u.proceso = p
  BY DEF TypeOK, UnidadesDe
<1>2. cs \subseteq Cpu
  BY <1>1 DEF Unidad
<1>3. \A u, v \in us : u.cpu = v.cpu => u = v
  BY <1>1 DEF Unidad
<1>4. f \in Bijection(us, cs)
  <2> HIDE DEF us
  <2> QED BY <1>3 DEF Bijection, Injection, IsInjective, Surjection
<1>5. f \in Injection(us, cs) /\ IsFiniteSet(cs)
  BY <1>2, <1>4, FS_Subset DEF KernelAssumption, Bijection
<1>6. IsFiniteSet(us)
  <2> HIDE DEF us, cs, f
  <2> QED BY <1>5, FS_Injection
<1>7. Cardinality(cs) = Cardinality(us)
  <2> HIDE DEF us, cs, f
  <2> QED BY <1>4, <1>6, FS_Bijection DEF ExistsBijection
<1>8. Cardinality(us) \in Nat
  <2> HIDE DEF us
  <2> QED BY <1>6, FS_CardinalityType
<1> QED BY <1>2, <1>5, <1>7, <1>8

(***************************************************************************)
(* Type correctness.                                                       *)
(***************************************************************************)

LEMMA TipoInit == KernelAssumption /\ Init => TypeOK
BY DEF KernelAssumption, Init, TypeOK, Estados

LEMMA TipoEsperas ==
    ASSUME TypeOK,
           EsperarProcesoReady \/ EsperarCpuLibre \/ EsperarNuevoProceso
              \/ EsperarEspacioMemoria
    PROVE  TypeOK'
BY DEF TypeOK, EsperarProcesoReady, EsperarCpuLibre, EsperarNuevoProceso,
       EsperarEspacioMemoria, colas, cpuVars, ioVars, memVars

LEMMA TipoPlanificarCorto ==
    ASSUME TypeOK, PlanificarCorto
    PROVE  TypeOK'
<1>1. CASE queue_ready # <<>> /\ libres # {}
  <2>1. PICK c \in libres, i \in Elegibles :
          /\ PonerEnEjecucion(queue_ready[i], c)
          /\ queue_ready' = RemoveAt(queue_ready, i)
    BY <1>1 DEF PlanificarCorto
  <2>2. i \in DOMAIN queue_ready
    BY <1>1, LenProperties, EmptySeq DEF TypeOK, Elegibles
  <2>3. queue_ready' \in Seq(Pid) /\ queue_ready[i] \in Pid
    BY <2>1, <2>2, RemoveAtProps, ElementOfSeq, LenProperties DEF TypeOK
  <2> QED
    BY <1>1, <2>1, <2>3, SMTT(30)
       DEF TypeOK, PlanificarCorto, PonerEnEjecucion, Unidad, Estados, ioVars,
           memVars
<1>2. CASE ~(queue_ready # <<>> /\ libres # {})
  BY <1>2, SMTT(30) DEF TypeOK, PlanificarCorto, ioVars, memVars
<1> QED BY <1>1, <1>2

LEMMA TipoPonerEnReady ==
    ASSUME TypeOK, NEW p \in Pid, PonerEnReady(p)
    PROVE  /\ estado' \in [Pid -> Estados]
           /\ queue_ready' \in Seq(Pid)
           /\ proceso_ready' \in Nat
<1>1. Append(queue_ready, p) \in Seq(Pid)
  BY AppendProperties DEF TypeOK
<1> QED
  BY <1>1 DEF TypeOK, PonerEnReady, Estados

LEMMA TipoPlanificarLargo ==
    ASSUME TypeOK, PlanificarLargo
    PROVE  TypeOK'
<1> DEFINE Cambios ==
        /\ estado' \in [Pid -> Estados]
        /\ queue_new' \in Seq(Pid) /\ queue_ready' \in Seq(Pid)
        /\ queue_susp_ready' \in Seq(Pid)
        /\ residentes' \in SUBSET Pid /\ en_swap' \in SUBSET Pid
        /\ proceso_ready' \in Nat /\ nuevo_proceso' \in Nat
        /\ largo' \in {"nuevo_proceso", "planificar", "espacio_memoria"}
<1>1. ASSUME SinEspacio PROVE Cambios
  BY <1>1 DEF TypeOK, SinEspacio, colas, memVars
<1>2. ASSUME queue_susp_ready # <<>>, VueltaSwap, ~SinEspacio PROVE Cambios
  <2> DEFINE p == Head(queue_susp_ready)
  <2>1. p \in Pid /\ Tail(queue_susp_ready) \in Seq(Pid)
    BY <1>2, HeadTailProperties DEF TypeOK
  <2>2. /\ residentes' = residentes \cup {p} /\ en_swap' = en_swap \ {p}
        /\ queue_susp_ready' = Tail(queue_susp_ready)
        /\ PonerEnReady(p)
        /\ largo' = "nuevo_proceso"
        /\ queue_new' = queue_new /\ nuevo_proceso' = nuevo_proceso
    BY <1>2 DEF VueltaSwap
  <2>3. /\ estado' \in [Pid -> Estados] /\ queue_ready' \in Seq(Pid)
        /\ proceso_ready' \in Nat
    BY <2>1, <2>2, TipoPonerEnReady
  <2> QED
    BY <2>1, <2>2, <2>3 DEF TypeOK
<1>3. ASSUME queue_new # <<>>, EspacioEnMemoria, ~SinEspacio PROVE Cambios
  <2> DEFINE p == Head(queue_new)
  <2>1. p \in Pid /\ Tail(queue_new) \in Seq(Pid)
    BY <1>3, HeadTailProperties DEF TypeOK
  <2>2. /\ residentes' = residentes \cup {p} /\ en_swap' = en_swap
        /\ queue_new' = Tail(queue_new)
        /\ PonerEnReady(p)
        /\ largo' = "nuevo_proceso"
        /\ queue_susp_ready' = queue_susp_ready
        /\ nuevo_proceso' = nuevo_proceso
    BY <1>3 DEF EspacioEnMemoria
  <2>3. /\ estado' \in [Pid -> Estados] /\ queue_ready' \in Seq(Pid)
        /\ proceso_ready' \in Nat
    BY <2>1, <2>2, TipoPonerEnReady
  <2> QED
    BY <2>1, <2>2, <2>3 DEF TypeOK
<1>4. ASSUME queue_susp_ready = <<>>, queue_new = <<>> PROVE Cambios
  BY <1>4 DEF TypeOK, PlanificarLargo, colas, memVars
<1>5. Cambios
  BY <1>1, <1>2, <1>3, <1>4 DEF PlanificarLargo
<1> QED
  BY <1>5 DEF TypeOK, PlanificarLargo, cpuVars, ioVars

LEMMA TipoIdentificarCpu ==
    ASSUME TypeOK, NEW c \in Cpu, IdentificarCpu(c)
    PROVE  TypeOK'
<1>1. conexiones' \in [Cpu -> 0..2]
  <2>1. conexiones[c] \in 0..2 /\ conexiones[c] < 2
    BY DEF TypeOK, IdentificarCpu
  <2>2. conexiones[c] + 1 \in 0..2
    BY <2>1
  <2> QED BY <2>2 DEF TypeOK, IdentificarCpu
<1>2. libres' \in SUBSET Cpu /\ cpu_libre' \in Nat
  BY DEF TypeOK, IdentificarCpu
<1> QED
  BY <1>1, <1>2
     DEF TypeOK, IdentificarCpu, colas, hilos, ioVars, memVars

\* The processes that FinalizarProcesos ends are finitely many.
LEMMA TipoFinalizar ==
    ASSUME TypeOK, KernelAssumption, NEW S \in SUBSET Pid,
           FinalizarProcesos(S)
    PROVE  /\ estado' \in [Pid -> Estados]
           /\ espacio_memoria' \in Nat
           /\ residentes' \in SUBSET Pid
           /\ en_swap' \in SUBSET Pid
<1>1. Cardinality(S) \in Nat
  BY FS_Subset, FS_CardinalityType DEF KernelAssumption
<1> QED
  BY <1>1 DEF TypeOK, FinalizarProcesos, LiberarMemoria, Estados

LEMMA TipoSacar ==
    ASSUME TypeOK, KernelAssumption, NEW p \in Pid,
           SacarProcesoEjecucion(p)
    PROVE  /\ unidades' \in SUBSET Unidad
           /\ libres' \in SUBSET Cpu
           /\ cpu_libre' \in Nat
<1>1. /\ {u.cpu : u \in UnidadesDe(p)} \subseteq Cpu
      /\ Cardinality(UnidadesDe(p)) \in Nat
  BY UnidadesProps
<1> QED
  BY <1>1 DEF TypeOK, SacarProcesoEjecucion

LEMMA TipoFinalizado ==
    ASSUME TypeOK, KernelAssumption, NEW c \in Cpu, NEW p \in Pid,
           Finalizado(c, p)
    PROVE  TypeOK'
<1>1. SacarProcesoEjecucion(p) /\ FinalizarProcesos({p})
  BY DEF Finalizado
<1> QED
  BY <1>1, TipoSacar, TipoFinalizar
     DEF TypeOK, Finalizado, colas, hilos, ioVars

LEMMA TipoCausaIo ==
    ASSUME TypeOK, KernelAssumption, NEW c \in Cpu, NEW p \in Pid,
           NEW n \in Nombre, CausaIo(c, p, n)
    PROVE  TypeOK'
<1>1. /\ unidades' \in SUBSET Unidad /\ libres' \in SUBSET Cpu
      /\ cpu_libre' \in Nat
  BY TipoSacar DEF CausaIo
<1>2. syscalls' \in [Pid -> 0..MaxSyscalls]
  BY DEF TypeOK, CausaIo, KernelAssumption
<1>3. CASE DispositivosDe(n) = {}
  <2>1. FinalizarProcesos({p})
    BY <1>3 DEF CausaIo
  <2> QED
    BY <1>1, <1>2, <1>3, <2>1, TipoFinalizar DEF TypeOK, CausaIo, colas, hilos
<1>4. CASE DispositivosDe(n) # {}
  <2>1. /\ estado' \in [Pid -> Estados]
        /\ temporizadores' \in [Pid -> Nat]
        /\ residentes' \in SUBSET Pid /\ en_swap' \in SUBSET Pid
        /\ espacio_memoria' \in Nat
    <3>1. Bloquear(p)
      BY <1>4 DEF CausaIo
    <3>2. temporizadores[p] + 1 \in Nat
      BY DEF TypeOK
    <3> QED BY <3>1, <3>2 DEF TypeOK, Bloquear, Estados, memVars
  <2>2. /\ disp_libres' \in SUBSET Dispositivo
        /\ esperando_io' \in [Nombre -> Seq(Pid)]
        /\ ejecutando_io' \in [Nombre -> Seq(EnIo)]
        /\ pedidos' \in [Dispositivo -> Seq(Pid)]
    <3>1. CASE IoEsperar(p, n)
      BY <3>1 DEF TypeOK, IoEsperar
    <3>2. CASE \E d \in DispositivosDe(n) : IoDispositivoLibre(p, d)
      <4>1. PICK d \in DispositivosDe(n) : IoDispositivoLibre(p, d)
        BY <3>2
      <4>2. d \in Dispositivo /\ NombreDe[d] = n
        BY DEF TypeOK, DispositivosDe
      <4>3. [pcb |-> p, dispositivo |-> d] \in EnIo
        BY <4>2 DEF EnIo
      <4> QED BY <4>1, <4>2, <4>3 DEF TypeOK, IoDispositivoLibre
    <3> QED BY <1>4, <3>1, <3>2 DEF CausaIo
  <2> QED
    BY <1>1, <1>2, <2>1, <2>2 DEF TypeOK, CausaIo, colas, hilos
<1> QED BY <1>3, <1>4

LEMMA TipoInitProc ==
    ASSUME TypeOK, NEW c \in Cpu, NEW p \in Pid, NEW q \in Pid,
           InitProc(c, p, q)
    PROVE  TypeOK'
<1>1. Append(queue_new, q) \in Seq(Pid)
  BY AppendProperties DEF TypeOK
<1> QED
  BY <1>1 DEF TypeOK, InitProc, Estados, cpuVars, hilos, ioVars, memVars

\* The result of a dump is one of two.
LEMMA Booleano == \A b \in BOOLEAN : b = TRUE \/ b = FALSE
OBVIOUS

LEMMA TipoMemoryDump ==
    ASSUME TypeOK, KernelAssumption, NEW c \in Cpu, NEW p \in Pid,
           NEW exito \in BOOLEAN, MemoryDump(c, p, exito)
    PROVE  TypeOK'
<1>1. /\ unidades' \in SUBSET Unidad /\ libres' \in SUBSET Cpu
      /\ cpu_libre' \in Nat
  BY TipoSacar DEF MemoryDump
<1>2. syscalls' \in [Pid -> 0..MaxSyscalls]
  BY DEF TypeOK, MemoryDump, KernelAssumption
<1>3. /\ UNCHANGED <<queue_new, queue_susp_ready, conexiones, nuevo_proceso>>
      /\ UNCHANGED <<corto, largo, temporizadores>>
      /\ UNCHANGED <<dispositivos, disp_libres, identificando, sin_conectar>>
      /\ UNCHANGED <<esperando_io, ejecutando_io, pedidos>>
  BY DEF MemoryDump, hilos, ioVars
<1>4. CASE exito = TRUE
  <2>1. PonerEnReady(p) /\ UNCHANGED <<memVars, espacio_memoria>>
    BY <1>4 DEF MemoryDump
  <2> QED
    BY <1>1, <1>2, <1>3, <2>1, TipoPonerEnReady DEF TypeOK, memVars
<1>5. CASE exito = FALSE
  <2>1. /\ estado' = [estado EXCEPT ![p] = "EXIT"]
        /\ residentes' = residentes \ {p} /\ en_swap' = en_swap \ {p}
        /\ espacio_memoria' = espacio_memoria + 1
        /\ queue_ready' = queue_ready /\ proceso_ready' = proceso_ready
    BY <1>5 DEF MemoryDump, LiberarMemoria
  <2>2. estado' \in [Pid -> Estados]
    BY <2>1 DEF TypeOK, Estados
  <2>3. /\ residentes' \in SUBSET Pid /\ en_swap' \in SUBSET Pid
        /\ espacio_memoria' \in Nat /\ queue_ready' \in Seq(Pid)
        /\ proceso_ready' \in Nat
    BY <2>1 DEF TypeOK
  <2> QED
    BY <1>1, <1>2, <1>3, <2>2, <2>3 DEF TypeOK
<1>6. exito = TRUE \/ exito = FALSE
  BY Booleano, Zenon
<1> QED BY <1>4, <1>5, <1>6, Zenon

LEMMA TipoIdentificarIo ==
    ASSUME TypeOK, NEW d \in Dispositivo, IdentificarIo(d)
    PROVE  TypeOK'
BY DEF TypeOK, IdentificarIo, colas, cpuVars, semaforos, hilos, memVars

\* What comprobar_cola_bloqueados writes is well typed.
LEMMA TipoComprobarCola ==
    ASSUME TypeOK, KernelAssumption, NEW d \in Dispositivo,
           NEW enIo \in Seq(EnIo), NEW cola \in Seq(Pid),
           ComprobarColaBloqueados(d, enIo, cola)
    PROVE  /\ disp_libres' \in SUBSET Dispositivo
           /\ esperando_io' \in [Nombre -> Seq(Pid)]
           /\ ejecutando_io' \in [Nombre -> Seq(EnIo)]
           /\ pedidos' \in [Dispositivo -> Seq(Pid)]
<1> DEFINE n == NombreDe[d]
           p == Head(esperando_io[n])
<1>1. n \in Nombre /\ esperando_io[n] \in Seq(Pid)
  BY DEF TypeOK, KernelAssumption
<1>2. CASE esperando_io[n] # <<>>
  <2>1. p \in Pid /\ Tail(esperando_io[n]) \in Seq(Pid)
    BY <1>1, <1>2, HeadTailProperties
  <2>2. [pcb |-> p, dispositivo |-> d] \in EnIo
    BY <2>1 DEF EnIo
  <2>3. /\ Append(enIo, [pcb |-> p, dispositivo |-> d]) \in Seq(EnIo)
        /\ Append(cola, p) \in Seq(Pid)
    BY <2>1, <2>2, AppendProperties
  <2>4. /\ esperando_io' = [esperando_io EXCEPT ![n] = Tail(@)]
        /\ ejecutando_io' = [ejecutando_io EXCEPT
               ![n] = Append(enIo, [pcb |-> p, dispositivo |-> d])]
        /\ pedidos' = [pedidos EXCEPT ![d] = Append(cola, p)]
        /\ disp_libres' = disp_libres
    BY <1>2 DEF ComprobarColaBloqueados
  <2> QED
    BY <1>1, <2>1, <2>3, <2>4 DEF TypeOK
<1>3. CASE esperando_io[n] = <<>>
  BY <1>1, <1>3 DEF TypeOK, ComprobarColaBloqueados
<1> QED BY <1>2, <1>3

LEMMA TipoRevisarCola ==
    ASSUME TypeOK, KernelAssumption, NEW d \in Dispositivo,
           RevisarColaAlIdentificar(d)
    PROVE  TypeOK'
<1>1. /\ ejecutando_io[NombreDe[d]] \in Seq(EnIo)
      /\ pedidos[d] \in Seq(Pid)
  BY DEF TypeOK, KernelAssumption
<1>2. ComprobarColaBloqueados(d, ejecutando_io[NombreDe[d]], pedidos[d])
  BY DEF RevisarColaAlIdentificar
<1> QED
  BY <1>1, <1>2, TipoComprobarCola
     DEF TypeOK, RevisarColaAlIdentificar, colas, cpuVars, semaforos, hilos,
         memVars

LEMMA TipoDesbloquear ==
    ASSUME TypeOK, NEW p \in Pid, Desbloquear(p)
    PROVE  /\ estado' \in [Pid -> Estados]
           /\ queue_ready' \in Seq(Pid) /\ queue_susp_ready' \in Seq(Pid)
           /\ proceso_ready' \in Nat /\ nuevo_proceso' \in Nat
           /\ espacio_memoria' \in Nat
<1>1. CASE estado[p] = "SUSP_BLOCKED"
  <2>1. Append(queue_susp_ready, p) \in Seq(Pid)
    BY AppendProperties DEF TypeOK
  <2>2. /\ estado' = [estado EXCEPT ![p] = "SUSP_READY"]
        /\ queue_susp_ready' = Append(queue_susp_ready, p)
        /\ nuevo_proceso' = nuevo_proceso + 1
        /\ espacio_memoria' = espacio_memoria + 1
        /\ queue_ready' = queue_ready /\ proceso_ready' = proceso_ready
    BY <1>1 DEF Desbloquear
  <2>3. estado' \in [Pid -> Estados]
    BY <2>2 DEF TypeOK, Estados
  <2> QED BY <2>1, <2>2, <2>3 DEF TypeOK
<1>2. CASE estado[p] # "SUSP_BLOCKED"
  BY <1>2, TipoPonerEnReady DEF TypeOK, Desbloquear
<1> QED BY <1>1, <1>2

LEMMA TipoFinalizacionIo ==
    ASSUME TypeOK, KernelAssumption, NEW d \in Dispositivo,
           FinalizacionIo(d)
    PROVE  TypeOK'
<1> DEFINE n == NombreDe[d]
           p == Head(pedidos[d])
           ks == EntradasDe(n, p)
<1>1. /\ n \in Nombre /\ p \in Pid /\ Tail(pedidos[d]) \in Seq(Pid)
      /\ ejecutando_io[n] \in Seq(EnIo)
  BY HeadTailProperties DEF TypeOK, FinalizacionIo, KernelAssumption
<1>2. CASE ks = {}
  BY <1>1, <1>2
     DEF TypeOK, FinalizacionIo, cpuVars, hilos, memVars
<1>3. CASE ks # {}
  <2>1. PICK k \in ks :
          /\ Desbloquear(p)
          /\ ComprobarColaBloqueados(d, RemoveAt(ejecutando_io[n], k),
                                     Tail(pedidos[d]))
    BY <1>3 DEF FinalizacionIo
  <2>2. RemoveAt(ejecutando_io[n], k) \in Seq(EnIo)
    BY <1>1, RemoveAtProps DEF EntradasDe
  <2>3. /\ disp_libres' \in SUBSET Dispositivo
        /\ esperando_io' \in [Nombre -> Seq(Pid)]
        /\ ejecutando_io' \in [Nombre -> Seq(EnIo)]
        /\ pedidos' \in [Dispositivo -> Seq(Pid)]
    BY <1>1, <2>1, <2>2, TipoComprobarCola
  <2>4. /\ estado' \in [Pid -> Estados]
        /\ queue_ready' \in Seq(Pid) /\ queue_susp_ready' \in Seq(Pid)
        /\ proceso_ready' \in Nat /\ nuevo_proceso' \in Nat
        /\ espacio_memoria' \in Nat
    BY <1>1, <2>1, TipoDesbloquear
  <2> QED
    BY <2>3, <2>4 DEF TypeOK, FinalizacionIo, cpuVars, hilos, memVars
<1> QED BY <1>2, <1>3

LEMMA TipoDesconectarIo ==
    ASSUME TypeOK, KernelAssumption, NEW d \in Dispositivo, DesconectarIo(d)
    PROVE  TypeOK'
<1> DEFINE n == NombreDe[d]
           lista == ejecutando_io[n]
<1>1. n \in Nombre /\ esperando_io[n] \in Seq(Pid) /\ lista \in Seq(EnIo)
  BY DEF TypeOK, KernelAssumption
<1>2. \A k \in DOMAIN lista : lista[k] \in EnIo /\ lista[k].pcb \in Pid
  <2>1. \A k \in DOMAIN lista : lista[k] \in EnIo
    BY <1>1, LenProperties, ElementOfSeq
  <2>2. \A e \in EnIo : e.pcb \in Pid
    BY DEF EnIo
  <2> QED BY <2>1, <2>2
<1> DEFINE Io ==
        /\ esperando_io' \in [Nombre -> Seq(Pid)]
        /\ ejecutando_io' \in [Nombre -> Seq(EnIo)]
<1>3. ASSUME FinalizarTodos(n)
      PROVE  Io /\ \E S \in SUBSET Pid : FinalizarProcesos(S)
  <2>1. ToSet(esperando_io[n]) \cup {e.pcb : e \in ToSet(lista)} \in SUBSET Pid
    BY <1>1, <1>2, LenProperties, ElementOfSeq DEF ToSet
  <2>2. <<>> \in Seq(Pid) /\ <<>> \in Seq(EnIo)
    OBVIOUS
  <2> QED BY <1>1, <1>3, <2>1, <2>2 DEF TypeOK, FinalizarTodos
<1>4. ASSUME FinalizarLosDe(d)
      PROVE  Io /\ \E S \in SUBSET Pid : FinalizarProcesos(S)
  <2>1. {lista[k].pcb : k \in Alcanzados(lista, d)} \in SUBSET Pid
    BY <1>2 DEF Alcanzados
  <2>2. PICK r \in BoundedSeq(ToSet(lista), Len(lista)) :
          ejecutando_io' = [ejecutando_io EXCEPT ![n] = r]
    BY <1>4 DEF FinalizarLosDe
  <2>3. PICK m \in 0..Len(lista) : r \in [1..m -> ToSet(lista)]
    BY <2>2 DEF BoundedSeq, SeqOf
  <2>4. \A e \in ToSet(lista) : e \in EnIo
    BY <1>2 DEF ToSet
  <2>5. m \in Nat /\ r \in [1..m -> EnIo]
    BY <1>1, <2>3, <2>4, LenProperties
  <2>6. r \in Seq(EnIo)
    BY <2>5, SeqDef
  <2> QED
    BY <1>1, <1>4, <2>1, <2>2, <2>6 DEF TypeOK, FinalizarLosDe
<1>5. Io /\ \E S \in SUBSET Pid : FinalizarProcesos(S)
  BY <1>3, <1>4 DEF DesconectarIo
<1>6. PICK S \in SUBSET Pid : FinalizarProcesos(S)
  BY <1>5
<1>7. /\ estado' \in [Pid -> Estados] /\ espacio_memoria' \in Nat
      /\ residentes' \in SUBSET Pid /\ en_swap' \in SUBSET Pid
  BY <1>6, TipoFinalizar
<1>8. /\ dispositivos' \in SUBSET Dispositivo
      /\ disp_libres' \in SUBSET Dispositivo
      /\ pedidos' \in [Dispositivo -> Seq(Pid)]
  <2>1. <<>> \in Seq(Pid)
    OBVIOUS
  <2> QED BY <2>1 DEF TypeOK, DesconectarIo
<1> QED
  BY <1>5, <1>7, <1>8 DEF TypeOK, DesconectarIo, colas, cpuVars, hilos

LEMMA TipoComprobarSuspendido ==
    ASSUME TypeOK, NEW p \in Pid, ComprobarSuspendido(p)
    PROVE  TypeOK'
<1>1. temporizadores' \in [Pid -> Nat]
  <2>1. temporizadores[p] \in Nat /\ temporizadores[p] > 0
    BY DEF TypeOK, ComprobarSuspendido
  <2>2. temporizadores[p] - 1 \in Nat
    BY <2>1
  <2> QED BY <2>2 DEF TypeOK, ComprobarSuspendido
<1>2. /\ estado' \in [Pid -> Estados] /\ espacio_memoria' \in Nat
      /\ residentes' \in SUBSET Pid /\ en_swap' \in SUBSET Pid
  <2>1. PICK q \in Apuntados(p) :
          IF estado[q] = "BLOCKED"
          THEN /\ residentes' = residentes \ {q}
               /\ en_swap' = en_swap \cup {q}
               /\ estado' = [estado EXCEPT ![q] = "SUSP_BLOCKED"]
               /\ espacio_memoria' = espacio_memoria + 1
          ELSE UNCHANGED <<residentes, en_swap, estado, espacio_memoria>>
    BY DEF ComprobarSuspendido
  <2>2. q \in Pid
    BY DEF Apuntados
  <2>3. [estado EXCEPT ![q] = "SUSP_BLOCKED"] \in [Pid -> Estados]
    BY <2>2 DEF TypeOK, Estados
  <2>4. CASE estado[q] = "BLOCKED"
    <3>1. /\ residentes' = residentes \ {q} /\ en_swap' = en_swap \cup {q}
          /\ estado' = [estado EXCEPT ![q] = "SUSP_BLOCKED"]
          /\ espacio_memoria' = espacio_memoria + 1
      BY <2>1, <2>4
    <3> QED BY <2>2, <2>3, <3>1 DEF TypeOK
  <2>5. CASE estado[q] # "BLOCKED"
    <3>1. UNCHANGED <<residentes, en_swap, estado, espacio_memoria>>
      BY <2>1, <2>5
    <3> QED BY <3>1 DEF TypeOK
  <2> QED BY <2>4, <2>5
<1> QED
  BY <1>1, <1>2
     DEF TypeOK, ComprobarSuspendido, colas, cpuVars, hilos, ioVars

LEMMA TipoSinCambios ==
    ASSUME TypeOK, UNCHANGED vars
    PROVE  TypeOK'
BY DEF TypeOK, vars, colas, cpuVars, semaforos, hilos, ioVars, memVars

LEMMA TipoPaso ==
    ASSUME TypeOK, KernelAssumption, [Next]_vars
    PROVE  TypeOK'
<1>1. CASE Planificadores
  BY <1>1, TipoEsperas, TipoPlanificarCorto, TipoPlanificarLargo
     DEF Planificadores
<1>2. ASSUME NEW c \in Cpu, IdentificarCpu(c) \/ MensajeDe(c)
      PROVE  TypeOK'
  BY <1>2, TipoIdentificarCpu, TipoFinalizado, TipoCausaIo, TipoInitProc,
     TipoMemoryDump DEF MensajeDe
<1>3. ASSUME NEW d \in Dispositivo,
             IdentificarIo(d) \/ RevisarColaAlIdentificar(d)
                \/ FinalizacionIo(d) \/ DesconectarIo(d)
      PROVE  TypeOK'
  BY <1>3, TipoIdentificarIo, TipoRevisarCola, TipoFinalizacionIo,
     TipoDesconectarIo
<1>4. ASSUME NEW p \in Pid, ComprobarSuspendido(p)
      PROVE  TypeOK'
  BY <1>4, TipoComprobarSuspendido
<1>5. CASE UNCHANGED vars
  BY <1>5, TipoSinCambios
<1> QED
  BY <1>1, <1>2, <1>3, <1>4, <1>5 DEF Next

\* Every variable keeps its type: no semaphore goes below zero, no list holds
\* anything but processes of the system.
THEOREM TypeCorrect == Spec => []TypeOK
<1>1. Init => TypeOK
  BY KernelAssumption, TipoInit
<1>2. TypeOK /\ [Next]_vars => TypeOK'
  BY KernelAssumption, TipoPaso
<1> QED
  BY <1>1, <1>2, PTL DEF Spec

(***************************************************************************)
(* The tokens of the planners.  FichasCpu is not inductive alone: a CPU    *)
(* that sacar_proceso_ejecucion gives back must not be free already, which *)
(* CpusRepartidas says, and one that identificar_cpu lists must be new.    *)
(***************************************************************************)
Fichas == FichasReady /\ FichasCpu /\ FichasNuevo /\ CpusRepartidas

LEMMA LibresFinito ==
    ASSUME TypeOK, KernelAssumption
    PROVE  IsFiniteSet(libres) /\ Cardinality(libres) \in Nat
BY FS_Subset, FS_CardinalityType DEF TypeOK, KernelAssumption

LEMMA Longitudes ==
    ASSUME TypeOK
    PROVE  /\ Len(queue_new) \in Nat /\ Len(queue_ready) \in Nat
           /\ Len(queue_susp_ready) \in Nat
BY LenProperties DEF TypeOK

LEMMA FichasInit == Init => Fichas
<1> SUFFICES ASSUME Init PROVE Fichas
  OBVIOUS
<1>2. PICK p \in Pid : queue_new = <<p>>
  BY DEF Init
<1>3. Len(queue_new) = 1
  BY <1>2
<1>4. FichasReady /\ FichasNuevo
  BY <1>3 DEF Init, FichasReady, FichasNuevo, Uno
<1>5. FichasCpu
  <2>1. Cardinality({}) = 0
    BY FS_EmptySet
  <2> QED BY <2>1 DEF Init, FichasCpu, Uno
<1>6. CpusRepartidas
  <2>1. unidades = {} /\ libres = {}
    BY DEF Init
  <2>2. \A c \in Cpu : conexiones[c] = 0
    BY DEF Init
  <2>3. {c \in Cpu : conexiones[c] > 0} = {}
    BY <2>2
  <2> QED BY <2>1, <2>3 DEF CpusRepartidas
<1> QED BY <1>4, <1>5, <1>6 DEF Fichas

LEMMA FichasEsperas ==
    ASSUME TypeOK, Fichas,
           EsperarProcesoReady \/ EsperarCpuLibre \/ EsperarNuevoProceso
              \/ EsperarEspacioMemoria
    PROVE  Fichas'
<1>1. UNCHANGED <<queue_new, queue_ready, queue_susp_ready, unidades,
                  conexiones, libres>>
  BY DEF EsperarProcesoReady, EsperarCpuLibre, EsperarNuevoProceso,
         EsperarEspacioMemoria, colas, cpuVars
<1>2. CpusRepartidas'
  BY <1>1 DEF Fichas, CpusRepartidas
<1>3. proceso_ready' + Uno(corto' # "proceso_ready")
         = proceso_ready + Uno(corto # "proceso_ready")
  BY DEF TypeOK, Uno, EsperarProcesoReady, EsperarCpuLibre,
         EsperarNuevoProceso, EsperarEspacioMemoria
<1>4. cpu_libre' + Uno(corto' = "planificar")
         = cpu_libre + Uno(corto = "planificar")
  BY DEF TypeOK, Uno, EsperarProcesoReady, EsperarCpuLibre,
         EsperarNuevoProceso, EsperarEspacioMemoria
<1>5. nuevo_proceso' + Uno(largo' = "planificar")
         = nuevo_proceso + Uno(largo = "planificar")
  BY DEF TypeOK, Uno, EsperarProcesoReady, EsperarCpuLibre,
         EsperarNuevoProceso, EsperarEspacioMemoria
<1> QED
  BY <1>1, <1>2, <1>3, <1>4, <1>5
     DEF Fichas, FichasReady, FichasCpu, FichasNuevo

\* With both tokens in its hands the planner finds a process and a CPU.
LEMMA PlanificadorEncuentra ==
    ASSUME TypeOK, KernelAssumption, Fichas, corto = "planificar"
    PROVE  queue_ready # <<>> /\ libres # {}
<1>1. proceso_ready + 1 = Len(queue_ready)
  BY DEF Fichas, FichasReady, Uno
<1>2. queue_ready # <<>>
  BY <1>1, EmptySeq DEF TypeOK
<1>3. cpu_libre + 1 = Cardinality(libres)
  BY DEF Fichas, FichasCpu, Uno
<1>4. libres # {}
  <2>1. Cardinality({}) = 0
    BY FS_EmptySet
  <2>2. cpu_libre + 1 # 0
    BY DEF TypeOK
  <2> QED BY <1>3, <2>1, <2>2
<1> QED BY <1>2, <1>4

LEMMA FichasPlanificarCorto ==
    ASSUME TypeOK, KernelAssumption, Fichas, PlanificarCorto
    PROVE  Fichas'
<1>1. queue_ready # <<>> /\ libres # {} /\ corto = "planificar"
      /\ corto' = "proceso_ready"
  BY PlanificadorEncuentra DEF PlanificarCorto
<1>2. PICK c \in libres, i \in Elegibles :
        /\ PonerEnEjecucion(queue_ready[i], c)
        /\ queue_ready' = RemoveAt(queue_ready, i)
  BY <1>1 DEF PlanificarCorto
<1>3. i \in DOMAIN queue_ready
  BY <1>1, LenProperties, EmptySeq DEF TypeOK, Elegibles
<1>4. FichasReady'
  <2>1. Len(queue_ready') = Len(queue_ready) - 1
    BY <1>2, <1>3, RemoveAtProps DEF TypeOK
  <2>2. proceso_ready' = proceso_ready
    BY <1>1 DEF PlanificarCorto
  <2>3. Len(queue_ready) \in Nat
    BY LenProperties DEF TypeOK
  <2> QED
    BY <1>1, <2>1, <2>2, <2>3 DEF TypeOK, Fichas, FichasReady, Uno
<1>5. FichasCpu'
  <2>1. libres' = libres \ {c}
    BY <1>2 DEF PonerEnEjecucion
  <2>2. Cardinality(libres') = Cardinality(libres) - 1
    BY <2>1, FS_RemoveElement, LibresFinito
  <2>3. cpu_libre' = cpu_libre
    BY DEF PlanificarCorto
  <2> QED
    BY <1>1, <2>2, <2>3, LibresFinito DEF TypeOK, Fichas, FichasCpu, Uno
<1>6. FichasNuevo'
  BY DEF Fichas, FichasNuevo, PlanificarCorto
<1>7. CpusRepartidas'
  <2>1. /\ unidades' = unidades \cup {[proceso |-> queue_ready[i], cpu |-> c]}
        /\ libres' = libres \ {c}
        /\ conexiones' = conexiones
    BY <1>2 DEF PonerEnEjecucion, PlanificarCorto
  <2>2. \A u \in unidades : u.cpu # c
    BY DEF Fichas, CpusRepartidas
  <2>3. {u.cpu : u \in unidades'} = {u.cpu : u \in unidades} \cup {c}
    <3> DEFINE e == [proceso |-> queue_ready[i], cpu |-> c]
    <3>1. e.cpu = c /\ unidades' = unidades \cup {e}
      BY <2>1
    <3> QED BY <3>1
  <2>4. \A u, v \in unidades' : u.cpu = v.cpu => u = v
    BY <2>1, <2>2 DEF Fichas, CpusRepartidas
  <2> QED
    BY <2>1, <2>3, <2>4 DEF Fichas, CpusRepartidas
<1> QED BY <1>4, <1>5, <1>6, <1>7 DEF Fichas

\* poner_en_ready gives the short-term planner a token.
LEMMA FichasPonerEnReady ==
    ASSUME TypeOK, Fichas, NEW p \in Pid, PonerEnReady(p),
           corto' = corto
    PROVE  FichasReady'
<1>1. Len(queue_ready') = Len(queue_ready) + 1
  BY AppendProperties DEF TypeOK, PonerEnReady
<1>2. proceso_ready' = proceso_ready + 1 /\ proceso_ready \in Nat
  BY DEF TypeOK, PonerEnReady
<1> DEFINE u == Uno(corto # "proceso_ready")
<1>3. u \in Nat /\ proceso_ready + u = Len(queue_ready)
  BY DEF Fichas, FichasReady, Uno
<1>4. Uno(corto' # "proceso_ready") = u
  OBVIOUS
<1> HIDE DEF u
<1> QED
  BY <1>1, <1>2, <1>3, <1>4, Longitudes DEF FichasReady

LEMMA FichasPlanificarLargo ==
    ASSUME TypeOK, KernelAssumption, Fichas, PlanificarLargo
    PROVE  Fichas'
<1>1. UNCHANGED <<unidades, conexiones, libres, cpu_libre, corto>>
  BY DEF PlanificarLargo, cpuVars
<1>2. FichasCpu' /\ CpusRepartidas'
  BY <1>1 DEF Fichas, FichasCpu, CpusRepartidas
<1>3. largo = "planificar"
  BY DEF PlanificarLargo
<1>4. nuevo_proceso + 1 = Len(queue_new) + Len(queue_susp_ready)
  BY <1>3 DEF Fichas, FichasNuevo, Uno
<1>5. ASSUME SinEspacio PROVE FichasReady' /\ FichasNuevo'
  BY <1>1, <1>3, <1>4, <1>5
     DEF TypeOK, Fichas, FichasReady, FichasNuevo, SinEspacio, Uno, colas
<1>6. ASSUME NEW p \in Pid, PonerEnReady(p)
      PROVE  FichasReady'
  BY <1>1, <1>6, FichasPonerEnReady
<1>7. ASSUME queue_susp_ready # <<>>, VueltaSwap, ~SinEspacio
      PROVE  FichasReady' /\ FichasNuevo'
  <2>1. /\ Head(queue_susp_ready) \in Pid
        /\ Len(Tail(queue_susp_ready)) = Len(queue_susp_ready) - 1
    BY <1>7, HeadTailProperties DEF TypeOK
  <2>2. /\ queue_susp_ready' = Tail(queue_susp_ready)
        /\ PonerEnReady(Head(queue_susp_ready))
        /\ largo' = "nuevo_proceso"
        /\ queue_new' = queue_new /\ nuevo_proceso' = nuevo_proceso
    BY <1>7 DEF VueltaSwap
  <2> QED
    BY <1>4, <1>6, <2>1, <2>2, Longitudes DEF TypeOK, FichasNuevo, Uno
<1>8. ASSUME queue_new # <<>>, EspacioEnMemoria, ~SinEspacio
      PROVE  FichasReady' /\ FichasNuevo'
  <2>1. /\ Head(queue_new) \in Pid
        /\ Len(Tail(queue_new)) = Len(queue_new) - 1
    BY <1>8, HeadTailProperties DEF TypeOK
  <2>2. /\ queue_new' = Tail(queue_new)
        /\ PonerEnReady(Head(queue_new))
        /\ largo' = "nuevo_proceso"
        /\ queue_susp_ready' = queue_susp_ready
        /\ nuevo_proceso' = nuevo_proceso
    BY <1>8 DEF EspacioEnMemoria
  <2> QED
    BY <1>4, <1>6, <2>1, <2>2, Longitudes DEF TypeOK, FichasNuevo, Uno
<1>9. ~(queue_susp_ready = <<>> /\ queue_new = <<>>)
  BY <1>4 DEF TypeOK
<1> QED
  BY <1>2, <1>5, <1>7, <1>8, <1>9 DEF Fichas, PlanificarLargo

LEMMA FichasIdentificarCpu ==
    ASSUME TypeOK, KernelAssumption, Fichas, NEW c \in Cpu,
           IdentificarCpu(c)
    PROVE  Fichas'
<1>1. /\ conexiones' = [conexiones EXCEPT ![c] = @ + 1]
      /\ UNCHANGED <<queue_new, queue_ready, queue_susp_ready, unidades,
                     proceso_ready, nuevo_proceso, corto, largo>>
  BY DEF IdentificarCpu, colas, hilos
<1>2. FichasReady' /\ FichasNuevo'
  BY <1>1 DEF Fichas, FichasReady, FichasNuevo
<1>3. conexiones[c] \in 0..2 /\ conexiones \in [Cpu -> 0..2]
  BY DEF TypeOK
<1>4. CASE conexiones[c] = 0
  <2>1. libres' = libres \cup {c} /\ cpu_libre' = cpu_libre + 1
    BY <1>4 DEF IdentificarCpu
  <2>2. c \notin {x \in Cpu : conexiones[x] > 0}
    BY <1>4
  <2>3. c \notin libres /\ c \notin {u.cpu : u \in unidades}
    BY <2>2 DEF Fichas, CpusRepartidas
  <2>4. Cardinality(libres') = Cardinality(libres) + 1
    BY <2>1, <2>3, FS_AddElement, LibresFinito
  <2>5. FichasCpu'
    BY <1>1, <2>1, <2>4, LibresFinito DEF TypeOK, Fichas, FichasCpu, Uno
  <2>6. {x \in Cpu : conexiones'[x] > 0}
          = {x \in Cpu : conexiones[x] > 0} \cup {c}
    BY <1>1, <1>3
  <2>7. CpusRepartidas'
    BY <1>1, <2>1, <2>3, <2>6 DEF Fichas, CpusRepartidas
  <2> QED BY <1>2, <2>5, <2>7 DEF Fichas
<1>5. CASE conexiones[c] # 0
  <2>1. libres' = libres /\ cpu_libre' = cpu_libre
    BY <1>5 DEF IdentificarCpu
  <2>2. {x \in Cpu : conexiones'[x] > 0} = {x \in Cpu : conexiones[x] > 0}
    BY <1>1, <1>3, <1>5
  <2>3. CpusRepartidas'
    BY <1>1, <2>1, <2>2 DEF Fichas, CpusRepartidas
  <2> QED BY <1>1, <1>2, <2>1, <2>3 DEF Fichas, FichasCpu
<1> QED BY <1>4, <1>5

\* A process that leaves its CPU gives back one token for each CPU it frees.
LEMMA FichasSacar ==
    ASSUME TypeOK, KernelAssumption, Fichas, NEW p \in Pid,
           SacarProcesoEjecucion(p), conexiones' = conexiones, corto' = corto
    PROVE  FichasCpu' /\ CpusRepartidas'
<1> DEFINE us == UnidadesDe(p)
           cs == {u.cpu : u \in us}
<1>1. /\ IsFiniteSet(cs) /\ Cardinality(us) = Cardinality(cs)
      /\ Cardinality(us) \in Nat
  BY UnidadesProps
<1>2. us \subseteq unidades
  BY DEF UnidadesDe
<1>3. /\ unidades' = unidades \ us /\ libres' = libres \cup cs
      /\ cpu_libre' = cpu_libre + Cardinality(us)
  BY DEF SacarProcesoEjecucion
<1>4. libres \cap cs = {}
  BY <1>2 DEF Fichas, CpusRepartidas
<1> HIDE DEF us
<1>5. \A u \in unidades' : u.cpu \notin cs
  BY <1>2, <1>3 DEF Fichas, CpusRepartidas
<1>6. {u.cpu : u \in unidades'} \cup cs = {u.cpu : u \in unidades}
  BY <1>2, <1>3
<1>7. {u.cpu : u \in unidades'} \cap cs = {}
  BY <1>5
<1>8. \A u, v \in unidades' : u.cpu = v.cpu => u = v
  BY <1>3 DEF Fichas, CpusRepartidas
<1> HIDE DEF cs
<1>9. Cardinality(libres') = Cardinality(libres) + Cardinality(cs)
  <2>1. Cardinality(libres \cap cs) = 0
    BY <1>4, FS_EmptySet
  <2>2. Cardinality(libres \cup cs)
           = Cardinality(libres) + Cardinality(cs) - Cardinality(libres \cap cs)
    BY <1>1, FS_Union, LibresFinito
  <2>3. Cardinality(libres) \in Nat /\ Cardinality(cs) \in Nat
    BY <1>1, LibresFinito
  <2> QED
    BY <1>3, <2>1, <2>2, <2>3
<1>10. FichasCpu'
  BY <1>1, <1>3, <1>9, LibresFinito, SMTT(30)
     DEF TypeOK, Fichas, FichasCpu, Uno
<1>11. CpusRepartidas'
  BY <1>3, <1>6, <1>7, <1>8 DEF Fichas, CpusRepartidas
<1> QED BY <1>10, <1>11

LEMMA FichasMensajes ==
    ASSUME TypeOK, KernelAssumption, Fichas, NEW c \in Cpu, MensajeDe(c)
    PROVE  Fichas'
<1>1. ASSUME NEW p \in Pid, Finalizado(c, p)
      PROVE  Fichas'
  <2>1. FichasCpu' /\ CpusRepartidas'
    BY <1>1, FichasSacar DEF Finalizado, hilos
  <2> QED
    BY <1>1, <2>1
       DEF Finalizado, Fichas, FichasReady, FichasNuevo, colas, hilos
<1>2. ASSUME NEW p \in Pid, NEW n \in Nombre, CausaIo(c, p, n)
      PROVE  Fichas'
  <2>1. FichasCpu' /\ CpusRepartidas'
    BY <1>2, FichasSacar DEF CausaIo, hilos
  <2> QED
    BY <1>2, <2>1
       DEF CausaIo, Fichas, FichasReady, FichasNuevo, colas, hilos
<1>3. ASSUME NEW p \in Pid, NEW q \in Pid, InitProc(c, p, q)
      PROVE  Fichas'
  <2>1. Len(queue_new') = Len(queue_new) + 1
    BY <1>3, AppendProperties DEF TypeOK, InitProc
  <2>2. FichasNuevo'
    BY <1>3, <2>1, Longitudes, SMTT(30)
       DEF TypeOK, Fichas, FichasNuevo, InitProc, Uno, hilos
  <2> QED
    BY <1>3, <2>2
       DEF Fichas, FichasReady, FichasCpu, CpusRepartidas, InitProc, cpuVars,
           hilos
<1>4. ASSUME NEW p \in Pid, NEW exito \in BOOLEAN, MemoryDump(c, p, exito)
      PROVE  Fichas'
  <2>1. FichasCpu' /\ CpusRepartidas'
    BY <1>4, FichasSacar DEF MemoryDump, hilos
  <2>2. FichasNuevo'
    BY <1>4 DEF MemoryDump, Fichas, FichasNuevo, hilos
  <2>3. corto' = corto
    BY <1>4 DEF MemoryDump, hilos
  <2>4. CASE exito
    <3>1. PonerEnReady(p)
      BY <1>4, <2>4 DEF MemoryDump
    <3> QED BY <2>1, <2>2, <2>3, <3>1, FichasPonerEnReady DEF Fichas
  <2>5. CASE ~exito
    BY <1>4, <2>1, <2>2, <2>3, <2>5 DEF MemoryDump, Fichas, FichasReady
  <2> QED BY <2>4, <2>5
<1> QED BY <1>1, <1>2, <1>3, <1>4 DEF MensajeDe

\* What the actions of the devices keep.
LEMMA FichasSinCpu ==
    ASSUME Fichas, UNCHANGED <<cpuVars, cpu_libre, hilos>>,
           FichasReady', FichasNuevo'
    PROVE  Fichas'
BY DEF Fichas, FichasCpu, CpusRepartidas, cpuVars, hilos

\* FINALIZACION_IO gives a token to the planner whose queue takes the process.
LEMMA FichasDesbloquear ==
    ASSUME TypeOK, Fichas, NEW p \in Pid, Desbloquear(p),
           UNCHANGED <<queue_new, hilos>>
    PROVE  FichasReady' /\ FichasNuevo'
<1>1. CASE estado[p] = "SUSP_BLOCKED"
  <2>1. /\ queue_susp_ready' = Append(queue_susp_ready, p)
        /\ nuevo_proceso' = nuevo_proceso + 1
        /\ queue_ready' = queue_ready /\ proceso_ready' = proceso_ready
    BY <1>1 DEF Desbloquear
  <2>2. Len(queue_susp_ready') = Len(queue_susp_ready) + 1
    BY <2>1, AppendProperties DEF TypeOK
  <2>3. FichasNuevo'
    BY <2>1, <2>2, Longitudes DEF TypeOK, Fichas, FichasNuevo, Uno, hilos
  <2> QED BY <2>1, <2>3 DEF Fichas, FichasReady, hilos
<1>2. CASE estado[p] # "SUSP_BLOCKED"
  <2>1. /\ queue_ready' = Append(queue_ready, p)
        /\ proceso_ready' = proceso_ready + 1
        /\ queue_susp_ready' = queue_susp_ready
        /\ nuevo_proceso' = nuevo_proceso
    BY <1>2 DEF Desbloquear, PonerEnReady
  <2>2. Len(queue_ready') = Len(queue_ready) + 1
    BY <2>1, AppendProperties DEF TypeOK
  <2>3. FichasReady'
    BY <2>1, <2>2, Longitudes DEF TypeOK, Fichas, FichasReady, Uno, hilos
  <2> QED BY <2>1, <2>3 DEF Fichas, FichasNuevo, hilos
<1> QED BY <1>1, <1>2

LEMMA FichasIo ==
    ASSUME TypeOK, KernelAssumption, Fichas, NEW d \in Dispositivo,
           IdentificarIo(d) \/ RevisarColaAlIdentificar(d)
              \/ FinalizacionIo(d) \/ DesconectarIo(d)
    PROVE  Fichas'
<1>1. CASE IdentificarIo(d)
  BY <1>1
     DEF IdentificarIo, Fichas, FichasReady, FichasCpu, FichasNuevo,
         CpusRepartidas, colas, cpuVars, semaforos, hilos
<1>2. CASE RevisarColaAlIdentificar(d)
  BY <1>2
     DEF RevisarColaAlIdentificar, Fichas, FichasReady, FichasCpu,
         FichasNuevo, CpusRepartidas, colas, cpuVars, semaforos, hilos
<1>3. CASE FinalizacionIo(d)
  <2>1. UNCHANGED <<queue_new, cpuVars, cpu_libre, hilos>>
    BY <1>3 DEF FinalizacionIo
  <2>2. Head(pedidos[d]) \in Pid
    BY <1>3, HeadTailProperties DEF TypeOK, FinalizacionIo
  <2>3. CASE Desbloquear(Head(pedidos[d]))
    BY <2>1, <2>2, <2>3, FichasDesbloquear, FichasSinCpu
  <2>4. CASE ~Desbloquear(Head(pedidos[d]))
    <3>1. UNCHANGED <<queue_ready, queue_susp_ready, proceso_ready,
                      nuevo_proceso>>
      BY <1>3, <2>4 DEF FinalizacionIo
    <3>2. FichasReady' /\ FichasNuevo'
      BY <2>1, <3>1 DEF Fichas, FichasReady, FichasNuevo, hilos
    <3> QED BY <2>1, <3>2, FichasSinCpu
  <2> QED BY <2>3, <2>4
<1>4. CASE DesconectarIo(d)
  BY <1>4
     DEF DesconectarIo, Fichas, FichasReady, FichasCpu, FichasNuevo,
         CpusRepartidas, colas, cpuVars, hilos
<1> QED BY <1>1, <1>2, <1>3, <1>4

LEMMA FichasPaso ==
    ASSUME TypeOK, KernelAssumption, Fichas, [Next]_vars
    PROVE  Fichas'
<1>1. CASE Planificadores
  BY <1>1, FichasEsperas, FichasPlanificarCorto, FichasPlanificarLargo
     DEF Planificadores
<1>2. ASSUME NEW c \in Cpu, IdentificarCpu(c) \/ MensajeDe(c)
      PROVE  Fichas'
  BY <1>2, FichasIdentificarCpu, FichasMensajes
<1>3. ASSUME NEW d \in Dispositivo,
             IdentificarIo(d) \/ RevisarColaAlIdentificar(d)
                \/ FinalizacionIo(d) \/ DesconectarIo(d)
      PROVE  Fichas'
  BY <1>3, FichasIo
<1>4. ASSUME NEW p \in Pid, ComprobarSuspendido(p)
      PROVE  Fichas'
  BY <1>4
     DEF ComprobarSuspendido, Fichas, FichasReady, FichasCpu, FichasNuevo,
         CpusRepartidas, colas, cpuVars, hilos
<1>5. CASE UNCHANGED vars
  BY <1>5
     DEF vars, Fichas, FichasReady, FichasCpu, FichasNuevo, CpusRepartidas,
         colas, cpuVars, semaforos, hilos
<1> QED
  BY <1>1, <1>2, <1>3, <1>4, <1>5 DEF Next

LEMMA FichasSiempre == Spec => [](TypeOK /\ Fichas)
<1>1. Init => TypeOK /\ Fichas
  BY KernelAssumption, TipoInit, FichasInit
<1>2. TypeOK /\ Fichas /\ [Next]_vars => TypeOK' /\ Fichas'
  BY KernelAssumption, TipoPaso, FichasPaso
<1> QED
  BY <1>1, <1>2, PTL DEF Spec

\* Every ready process has one token of proceso_ready, whatever handlers put
\* it there, for any number of processes, CPUs and devices.
THEOREM FichasReadyConservadas == Spec => []FichasReady
<1>1. TypeOK /\ Fichas => FichasReady
  BY DEF Fichas
<1> QED
  BY <1>1, FichasSiempre, PTL

\* Every free CPU has one token of cpu_libre.
THEOREM FichasCpuConservadas == Spec => []FichasCpu
<1>1. TypeOK /\ Fichas => FichasCpu
  BY DEF Fichas
<1> QED
  BY <1>1, FichasSiempre, PTL

\* Every process that waits for admission has one token of nuevo_proceso: the
\* long-term planner never takes a token for nothing.
THEOREM FichasNuevoConservadas == Spec => []FichasNuevo
<1>1. TypeOK /\ Fichas => FichasNuevo
  BY DEF Fichas
<1> QED
  BY <1>1, FichasSiempre, PTL

\* Every connected CPU is either free or runs exactly one process.
THEOREM CpusBienRepartidas == Spec => []CpusRepartidas
<1>1. TypeOK /\ Fichas => CpusRepartidas
  BY DEF Fichas
<1> QED
  BY <1>1, FichasSiempre, PTL

\* A short-term planner that holds its two tokens finds a process and a CPU:
\* the branches of planificar_corto_plazo_FIFO (scheduler.c:13-20) that give
\* a token back, and those of _SJF that drop it, are never taken.
THEOREM PlanificadorNuncaEnVano ==
    Spec => [](corto = "planificar" => queue_ready # <<>> /\ libres # {})
<1>1. TypeOK /\ Fichas
         => (corto = "planificar" => queue_ready # <<>> /\ libres # {})
  BY KernelAssumption, PlanificadorEncuentra
<1> QED
  BY <1>1, FichasSiempre, PTL

-----------------------------------------------------------------------------
(* Lists without repetitions. *)

LEMMA ListaAppend ==
    ASSUME NEW S, NEW s \in Seq(S), NEW x \in S
    PROVE  /\ ToSet(Append(s, x)) = ToSet(s) \cup {x}
           /\ SinRepetidos(s) /\ x \notin ToSet(s)
                 => SinRepetidos(Append(s, x))
<1>1. /\ Len(s) \in Nat /\ DOMAIN s = 1..Len(s)
      /\ DOMAIN Append(s, x) = 1..(Len(s) + 1)
      /\ Append(s, x)[Len(s) + 1] = x
      /\ \A i \in 1..Len(s) : Append(s, x)[i] = s[i]
  BY LenProperties, AppendProperties
<1>2. \A i \in DOMAIN Append(s, x) : i \in DOMAIN s \/ i = Len(s) + 1
  BY <1>1
<1> QED
  BY <1>1, <1>2 DEF ToSet, SinRepetidos

LEMMA ListaTail ==
    ASSUME NEW S, NEW s \in Seq(S), s # <<>>, SinRepetidos(s)
    PROVE  /\ Head(s) \in ToSet(s) /\ Head(s) \in S
           /\ ToSet(Tail(s)) = ToSet(s) \ {Head(s)}
           /\ SinRepetidos(Tail(s))
<1>1. /\ Len(s) \in Nat /\ Len(s) > 0 /\ DOMAIN s = 1..Len(s)
      /\ Head(s) = s[1] /\ s[1] \in S
      /\ DOMAIN Tail(s) = 1..(Len(s) - 1)
      /\ \A i \in 1..(Len(s) - 1) : Tail(s)[i] = s[i + 1]
  <2>1. Len(s) \in Nat /\ DOMAIN s = 1..Len(s) /\ Len(s) # 0
    BY LenProperties, EmptySeq
  <2>2. /\ Tail(s) \in Seq(S) /\ Len(Tail(s)) = Len(s) - 1
        /\ \A i \in 1..Len(Tail(s)) : Tail(s)[i] = s[i + 1]
    BY HeadTailProperties
  <2>3. DOMAIN Tail(s) = 1..(Len(s) - 1)
    BY <2>2, LenProperties
  <2>4. s[1] \in S
    BY <2>1, ElementOfSeq
  <2> QED
    BY <2>1, <2>2, <2>3, <2>4
<1>2. ASSUME NEW i \in DOMAIN s, i # 1
      PROVE  \E j \in DOMAIN Tail(s) : s[i] = Tail(s)[j]
  <2>1. i - 1 \in DOMAIN Tail(s) /\ Tail(s)[i - 1] = s[(i - 1) + 1]
    BY <1>1, <1>2
  <2>2. (i - 1) + 1 = i
    BY <1>1
  <2> QED
    BY <2>1, <2>2
<1>3. ASSUME NEW i \in DOMAIN Tail(s)
      PROVE  \E j \in DOMAIN s : j # 1 /\ Tail(s)[i] = s[j]
  <2>1. i + 1 \in DOMAIN s /\ i + 1 # 1 /\ Tail(s)[i] = s[i + 1]
    BY <1>1
  <2> QED
    BY <2>1
<1>4. ASSUME NEW i \in DOMAIN Tail(s), NEW j \in DOMAIN Tail(s), i # j
      PROVE  Tail(s)[i] # Tail(s)[j]
  <2>1. /\ i + 1 \in DOMAIN s /\ j + 1 \in DOMAIN s /\ i + 1 # j + 1
        /\ Tail(s)[i] = s[i + 1] /\ Tail(s)[j] = s[j + 1]
    BY <1>1, <1>4
  <2> QED
    BY <2>1 DEF SinRepetidos
<1>5. 1 \in DOMAIN s /\ Head(s) \in ToSet(s) /\ Head(s) \in S
  BY <1>1 DEF ToSet
<1>6. ToSet(Tail(s)) \subseteq ToSet(s) \ {Head(s)}
  BY <1>1, <1>3, <1>5 DEF ToSet, SinRepetidos
<1>7. ToSet(s) \ {Head(s)} \subseteq ToSet(Tail(s))
  BY <1>1, <1>2 DEF ToSet
<1> QED
  BY <1>4, <1>5, <1>6, <1>7 DEF SinRepetidos

LEMMA ListaSinUno ==
    ASSUME NEW S, NEW s \in Seq(S), NEW i \in DOMAIN s, SinRepetidos(s)
    PROVE  /\ ToSet(RemoveAt(s, i)) = ToSet(s) \ {s[i]}
           /\ SinRepetidos(RemoveAt(s, i))
<1>1. ASSUME NEW j \in DOMAIN RemoveAt(s, i)
      PROVE  RemoveAt(s, i)[j] \in ToSet(s) \ {s[i]}
  BY ListaRemoveAt DEF ToSet, SinRepetidos
<1>2. ASSUME NEW k \in DOMAIN s, s[k] # s[i]
      PROVE  s[k] \in ToSet(RemoveAt(s, i))
  BY <1>2, ListaRemoveAt DEF ToSet
<1>3. SinRepetidos(RemoveAt(s, i))
  BY ListaRemoveAt DEF SinRepetidos
<1> QED
  BY <1>1, <1>2, <1>3 DEF ToSet

-----------------------------------------------------------------------------
(* Queues against states.  e is the state of every process.                *)

Con(e, E) == {p \in Pid : e[p] \in E}

\* Queue q holds the processes in state a, each once.
Cola(q, e, a) == ToSet(q) = Con(e, {a}) /\ SinRepetidos(q)

LEMMA ColaAppend ==
    ASSUME NEW e \in [Pid -> Estados], NEW q \in Seq(Pid), NEW a, NEW p \in Pid,
           Cola(q, e, a), e[p] # a
    PROVE  Cola(Append(q, p), [e EXCEPT ![p] = a], a)
<1>1. p \notin ToSet(q)
  BY DEF Cola, Con
<1>2. ToSet(Append(q, p)) = ToSet(q) \cup {p} /\ SinRepetidos(Append(q, p))
  BY <1>1, ListaAppend DEF Cola
<1>3. Con([e EXCEPT ![p] = a], {a}) = Con(e, {a}) \cup {p}
  BY DEF Con
<1> QED
  BY <1>2, <1>3 DEF Cola

LEMMA ColaAjena ==
    ASSUME NEW e \in [Pid -> Estados], NEW q, NEW a, NEW b, NEW p \in Pid,
           Cola(q, e, a), e[p] # a, b # a
    PROVE  Cola(q, [e EXCEPT ![p] = b], a)
BY DEF Cola, Con

LEMMA ColaTail ==
    ASSUME NEW e \in [Pid -> Estados], NEW q \in Seq(Pid), NEW a, NEW b,
           Cola(q, e, a), q # <<>>, b # a
    PROVE  /\ Head(q) \in Pid /\ e[Head(q)] = a
           /\ Cola(Tail(q), [e EXCEPT ![Head(q)] = b], a)
<1>1. /\ Head(q) \in ToSet(q) /\ Head(q) \in Pid
      /\ ToSet(Tail(q)) = ToSet(q) \ {Head(q)} /\ SinRepetidos(Tail(q))
  BY ListaTail DEF Cola
<1>2. e[Head(q)] = a
  BY <1>1 DEF Cola, Con
<1>3. Con([e EXCEPT ![Head(q)] = b], {a}) = Con(e, {a}) \ {Head(q)}
  BY <1>1 DEF Con
<1> QED
  BY <1>1, <1>2, <1>3 DEF Cola

LEMMA ColaSinUno ==
    ASSUME NEW e \in [Pid -> Estados], NEW q \in Seq(Pid), NEW a, NEW b,
           NEW i \in DOMAIN q, Cola(q, e, a), b # a
    PROVE  /\ q[i] \in Pid /\ e[q[i]] = a
           /\ Cola(RemoveAt(q, i), [e EXCEPT ![q[i]] = b], a)
<1>1. /\ ToSet(RemoveAt(q, i)) = ToSet(q) \ {q[i]}
      /\ SinRepetidos(RemoveAt(q, i))
  BY ListaSinUno DEF Cola
<1>2. q[i] \in ToSet(q)
  BY DEF ToSet
<1>3. q[i] \in Pid /\ e[q[i]] = a
  BY <1>2 DEF Cola, Con
<1>4. Con([e EXCEPT ![q[i]] = b], {a}) = Con(e, {a}) \ {q[i]}
  BY <1>3 DEF Con
<1> QED
  BY <1>1, <1>3, <1>4 DEF Cola

\* finalizar_proceso of the processes of S.
Libera(e, S) == [q \in Pid |-> IF q \in S THEN "LIBERADO" ELSE e[q]]

LEMMA ColaLibera ==
    ASSUME NEW e \in [Pid -> Estados], NEW q, NEW a, NEW S \in SUBSET Pid,
           Cola(q, e, a), \A p \in S : e[p] # a, a # "LIBERADO"
    PROVE  Cola(q, Libera(e, S), a)
BY DEF Cola, Con, Libera

-----------------------------------------------------------------------------
(* Execution units against states. *)

Ejecutan(us, e) ==
    /\ {u.proceso : u \in us} = Con(e, {"EXEC"})
    /\ \A u, v \in us : u.proceso = v.proceso => u = v

LEMMA EjecutanMas ==
    ASSUME NEW e \in [Pid -> Estados], NEW us, NEW p \in Pid, NEW c,
           Ejecutan(us, e), e[p] # "EXEC"
    PROVE  Ejecutan(us \cup {[proceso |-> p, cpu |-> c]},
                    [e EXCEPT ![p] = "EXEC"])
<1> DEFINE x == [proceso |-> p, cpu |-> c]
<1>1. x.proceso = p
  OBVIOUS
<1> HIDE DEF x
<1>2. \A u \in us : u.proceso # p
  BY DEF Ejecutan, Con
<1>3. {u.proceso : u \in us \cup {x}} = {u.proceso : u \in us} \cup {p}
  BY <1>1
<1>4. Con([e EXCEPT ![p] = "EXEC"], {"EXEC"}) = Con(e, {"EXEC"}) \cup {p}
  BY DEF Con
<1>5. \A u, v \in us \cup {x} : u.proceso = v.proceso => u = v
  BY <1>1, <1>2 DEF Ejecutan
<1>6. Ejecutan(us \cup {x}, [e EXCEPT ![p] = "EXEC"])
  BY <1>3, <1>4, <1>5 DEF Ejecutan
<1> QED
  BY <1>6 DEF x

LEMMA EjecutanMenos ==
    ASSUME NEW e \in [Pid -> Estados], NEW us, NEW p \in Pid, NEW b,
           Ejecutan(us, e), b # "EXEC"
    PROVE  Ejecutan(us \ {u \in us : u.proceso = p}, [e EXCEPT ![p] = b])
<1>1. {u.proceso : u \in us \ {u \in us : u.proceso = p}}
         = {u.proceso : u \in us} \ {p}
  OBVIOUS
<1>2. Con([e EXCEPT ![p] = b], {"EXEC"}) = Con(e, {"EXEC"}) \ {p}
  BY DEF Con
<1> QED
  BY <1>1, <1>2 DEF Ejecutan

LEMMA EjecutanAjeno ==
    ASSUME NEW e \in [Pid -> Estados], NEW us, NEW p \in Pid, NEW b,
           Ejecutan(us, e), e[p] # "EXEC", b # "EXEC"
    PROVE  Ejecutan(us, [e EXCEPT ![p] = b])
BY DEF Ejecutan, Con

LEMMA EjecutanLibera ==
    ASSUME NEW e \in [Pid -> Estados], NEW us, NEW S \in SUBSET Pid,
           Ejecutan(us, e), \A p \in S : e[p] # "EXEC"
    PROVE  Ejecutan(us, Libera(e, S))
BY DEF Ejecutan, Con, Libera

-----------------------------------------------------------------------------
(* Device queues against states.  w is what waits under each name and r    *)
(* what runs.                                                              *)

Pcbs(s) == {x.pcb : x \in ToSet(s)}
SinPcbRepetido(s) == \A i, j \in DOMAIN s : i # j => s[i].pcb # s[j].pcb

\* What waits and what runs under one name.
Separados(s, t) == /\ SinRepetidos(s) /\ SinPcbRepetido(t)
                   /\ ToSet(s) \cap Pcbs(t) = {}

DeNombre(w, r, n) == ToSet(w[n]) \cup Pcbs(r[n])

Bloquean(w, r, e) ==
    /\ \A n \in Nombre : Separados(w[n], r[n])
    /\ \A m, n \in Nombre : m # n
                            => DeNombre(w, r, m) \cap DeNombre(w, r, n) = {}
    /\ UNION {DeNombre(w, r, n) : n \in Nombre}
           = Con(e, {"BLOCKED", "SUSP_BLOCKED"})

\* A request p to d is listed last.
LEMMA PcbsAppend ==
    ASSUME NEW t \in Seq(EnIo), NEW p \in Pid, NEW d \in Dispositivo
    PROVE  LET x == [pcb |-> p, dispositivo |-> d]
           IN  /\ Pcbs(Append(t, x)) = Pcbs(t) \cup {p}
               /\ SinPcbRepetido(t) /\ p \notin Pcbs(t)
                     => SinPcbRepetido(Append(t, x))
<1> DEFINE x == [pcb |-> p, dispositivo |-> d]
<1>1. x \in EnIo /\ x.pcb = p
  BY DEF EnIo
<1> HIDE DEF x
<1>2. ToSet(Append(t, x)) = ToSet(t) \cup {x}
  BY <1>1, ListaAppend
<1>3. Pcbs(Append(t, x)) = Pcbs(t) \cup {p}
  BY <1>1, <1>2 DEF Pcbs
<1>4. ASSUME SinPcbRepetido(t), p \notin Pcbs(t)
      PROVE  SinPcbRepetido(Append(t, x))
  <2>1. /\ Len(t) \in Nat /\ DOMAIN t = 1..Len(t)
        /\ DOMAIN Append(t, x) = 1..(Len(t) + 1)
        /\ Append(t, x)[Len(t) + 1] = x
        /\ \A i \in 1..Len(t) : Append(t, x)[i] = t[i]
    BY <1>1, LenProperties, AppendProperties
  <2>2. \A i \in DOMAIN Append(t, x) : i \in DOMAIN t \/ i = Len(t) + 1
    BY <2>1
  <2>3. \A i \in DOMAIN t : t[i].pcb # p
    BY <1>4 DEF Pcbs, ToSet
  <2> QED
    BY <1>1, <1>4, <2>1, <2>2, <2>3 DEF SinPcbRepetido
<1> QED
  BY <1>3, <1>4 DEF x

\* comprobar_cola_bloqueados: the first that waits begins to run.
LEMMA SeparadosPasa ==
    ASSUME NEW s \in Seq(Pid), NEW t \in Seq(EnIo), NEW d \in Dispositivo,
           Separados(s, t), s # <<>>
    PROVE  LET u == Append(t, [pcb |-> Head(s), dispositivo |-> d])
           IN  /\ Separados(Tail(s), u)
               /\ ToSet(Tail(s)) \cup Pcbs(u) = ToSet(s) \cup Pcbs(t)
<1> DEFINE p == Head(s)
           u == Append(t, [pcb |-> p, dispositivo |-> d])
<1>1. /\ p \in ToSet(s) /\ p \in Pid /\ ToSet(Tail(s)) = ToSet(s) \ {p}
      /\ SinRepetidos(Tail(s))
  BY ListaTail DEF Separados
<1>2. Pcbs(u) = Pcbs(t) \cup {p} /\ SinPcbRepetido(u)
  BY <1>1, PcbsAppend DEF Separados
<1> HIDE DEF p, u
<1>3. Separados(Tail(s), u)
      /\ ToSet(Tail(s)) \cup Pcbs(u) = ToSet(s) \cup Pcbs(t)
  BY <1>1, <1>2 DEF Separados
<1> QED
  BY <1>3 DEF p, u

\* An IO ends: its entry leaves the list.
LEMMA SeparadosSinUno ==
    ASSUME NEW s, NEW t \in Seq(EnIo), NEW k \in DOMAIN t, Separados(s, t)
    PROVE  /\ Separados(s, RemoveAt(t, k))
           /\ ToSet(s) \cup Pcbs(RemoveAt(t, k))
                 = (ToSet(s) \cup Pcbs(t)) \ {t[k].pcb}
<1> DEFINE u == RemoveAt(t, k)
<1>1. \A j \in DOMAIN u : \E i \in DOMAIN t : i # k /\ u[j] = t[i]
  BY ListaRemoveAt
<1>2. \A i \in DOMAIN t : i # k => \E j \in DOMAIN u : u[j] = t[i]
  BY ListaRemoveAt
<1>3. \A j, l \in DOMAIN u : j # l =>
         \E i, m \in DOMAIN t : i # m /\ u[j] = t[i] /\ u[l] = t[m]
  BY ListaRemoveAt
<1> HIDE DEF u
<1>4. SinPcbRepetido(u)
  BY <1>3 DEF Separados, SinPcbRepetido
<1>5. Pcbs(u) \subseteq Pcbs(t) \ {t[k].pcb}
  BY <1>1 DEF Separados, SinPcbRepetido, Pcbs, ToSet
<1>6. Pcbs(t) \ {t[k].pcb} \subseteq Pcbs(u)
  <2>1. ASSUME NEW i \in DOMAIN t, t[i].pcb # t[k].pcb
        PROVE  t[i].pcb \in Pcbs(u)
    <3>1. PICK j \in DOMAIN u : u[j] = t[i]
      BY <2>1, <1>2
    <3> QED
      BY <3>1 DEF Pcbs, ToSet
  <2> QED
    BY <2>1 DEF Pcbs, ToSet
<1>7. t[k].pcb \notin ToSet(s)
  <2>1. t[k].pcb \in Pcbs(t)
    BY DEF Pcbs, ToSet
  <2> QED
    BY <2>1 DEF Separados
<1>8. Separados(s, u)
  BY <1>4, <1>5 DEF Separados
<1>9. ToSet(s) \cup Pcbs(u) = (ToSet(s) \cup Pcbs(t)) \ {t[k].pcb}
  BY <1>5, <1>6, <1>7
<1> QED
  BY <1>8, <1>9 DEF u

\* A device is lost: the entries at the positions of A leave the list.
LEMMA SeparadosQueda ==
    ASSUME NEW s, NEW t, NEW A \in SUBSET DOMAIN t, NEW u,
           DOMAIN u = 1..Len(u), Separados(s, t), SeQuedaCon(u, t, DOMAIN t \ A)
    PROVE  /\ Separados(s, u)
           /\ ToSet(s) \cup Pcbs(u)
                 = (ToSet(s) \cup Pcbs(t)) \ {t[k].pcb : k \in A}
<1>1. PICK f \in [DOMAIN u -> DOMAIN t] :
         /\ Range(f) = DOMAIN t \ A
         /\ \A i, j \in DOMAIN u : i < j => f[i] < f[j]
         /\ \A i \in DOMAIN u : u[i] = t[f[i]]
  BY DEF SeQuedaCon
<1>2. \A j \in DOMAIN u : f[j] \in DOMAIN t \ A /\ u[j] = t[f[j]]
  BY <1>1 DEF Range
<1>3. \A i \in DOMAIN t \ A : \E j \in DOMAIN u : u[j] = t[i]
  BY <1>1 DEF Range
<1> DEFINE B == {t[k].pcb : k \in A}
<1>4. \A k \in DOMAIN t : t[k].pcb \in B <=> k \in A
  BY DEF Separados, SinPcbRepetido
<1>5. \A k \in DOMAIN t : t[k].pcb \in Pcbs(t) /\ t[k].pcb \notin ToSet(s)
  BY DEF Separados, Pcbs, ToSet
<1>6. B \cap ToSet(s) = {}
  BY <1>5
<1> HIDE DEF B
<1>7. Pcbs(u) \subseteq Pcbs(t) \ B
  BY <1>2, <1>4 DEF Pcbs, ToSet
<1>8. Pcbs(t) \ B \subseteq Pcbs(u)
  <2>1. ASSUME NEW i \in DOMAIN t, t[i].pcb \notin B
        PROVE  t[i].pcb \in Pcbs(u)
    <3>1. PICK j \in DOMAIN u : u[j] = t[i]
      BY <2>1, <1>3, <1>4
    <3> QED
      BY <3>1 DEF Pcbs, ToSet
  <2> QED
    BY <2>1 DEF Pcbs, ToSet
<1>9. SinPcbRepetido(u)
  <2> SUFFICES ASSUME NEW i \in DOMAIN u, NEW j \in DOMAIN u, i # j
               PROVE  u[i].pcb # u[j].pcb
    BY DEF SinPcbRepetido
  <2>1. i \in Int /\ j \in Int
    OBVIOUS
  <2>2. f[i] # f[j]
    <3>1. f[i] < f[j] \/ f[j] < f[i]
      BY <1>1, <2>1
    <3> QED
      BY <3>1, <1>2
  <2> QED
    BY <1>2, <2>2 DEF Separados, SinPcbRepetido
<1>10. Separados(s, u) /\ ToSet(s) \cup Pcbs(u) = (ToSet(s) \cup Pcbs(t)) \ B
  BY <1>6, <1>7, <1>8, <1>9 DEF Separados
<1> QED
  BY <1>10 DEF B

\* What changes under name n alone: X leaves it and Y comes to it.
CambianListas(w, r, w2, r2, n, X, Y) ==
    /\ \A m \in Nombre : m # n => w2[m] = w[m] /\ r2[m] = r[m]
    /\ Separados(w2[n], r2[n])
    /\ X \subseteq DeNombre(w, r, n)
    /\ DeNombre(w2, r2, n) = (DeNombre(w, r, n) \ X) \cup Y

CambianBloqueados(e, e2, X, Y) ==
    /\ Y \cap Con(e, {"BLOCKED", "SUSP_BLOCKED"}) = {}
    /\ Con(e2, {"BLOCKED", "SUSP_BLOCKED"})
          = (Con(e, {"BLOCKED", "SUSP_BLOCKED"}) \ X) \cup Y

LEMMA BloqueanCambia ==
    ASSUME NEW w, NEW r, NEW e, NEW w2, NEW r2, NEW e2, NEW n \in Nombre,
           NEW X, NEW Y, Bloquean(w, r, e),
           CambianListas(w, r, w2, r2, n, X, Y),
           CambianBloqueados(e, e2, X, Y)
    PROVE  Bloquean(w2, r2, e2)
<1> DEFINE D(m) == DeNombre(w, r, m)
           D2(m) == DeNombre(w2, r2, m)
           B == Con(e, {"BLOCKED", "SUSP_BLOCKED"})
<1>1. /\ \A m, k \in Nombre : m # k => D(m) \cap D(k) = {}
      /\ UNION {D(m) : m \in Nombre} = B
  BY DEF Bloquean
<1>2. \A m \in Nombre : m # n => D2(m) = D(m)
  BY DEF DeNombre, CambianListas
<1>3. D2(n) = (D(n) \ X) \cup Y /\ X \subseteq D(n) /\ Y \cap B = {}
  BY DEF CambianListas, CambianBloqueados
<1>4. Con(e2, {"BLOCKED", "SUSP_BLOCKED"}) = (B \ X) \cup Y
  BY DEF CambianBloqueados
<1>5. \A m \in Nombre : Separados(w2[m], r2[m])
  BY DEF Bloquean, CambianListas
<1> HIDE DEF D, D2, B
<1>6. \A m, k \in Nombre : m # k => D2(m) \cap D2(k) = {}
  <2> SUFFICES ASSUME NEW m \in Nombre, NEW k \in Nombre, m # k, NEW x,
                      x \in D2(m), x \in D2(k)
               PROVE  FALSE
    OBVIOUS
  <2>1. \A j \in Nombre : D(j) \subseteq B
    BY <1>1
  <2> QED
    BY <2>1, <1>1, <1>2, <1>3
<1>7. UNION {D2(m) : m \in Nombre} = (B \ X) \cup Y
  <2>1. ASSUME NEW m \in Nombre, NEW x \in D2(m) PROVE x \in (B \ X) \cup Y
    BY <1>1, <1>2, <1>3
  <2>2. ASSUME NEW x \in B \ X PROVE \E m \in Nombre : x \in D2(m)
    BY <1>1, <1>2, <1>3
  <2>3. ASSUME NEW x \in Y PROVE \E m \in Nombre : x \in D2(m)
    BY <1>3
  <2> QED
    BY <2>1, <2>2, <2>3
<1>8. /\ \A m, k \in Nombre : m # k =>
            DeNombre(w2, r2, m) \cap DeNombre(w2, r2, k) = {}
      /\ UNION {DeNombre(w2, r2, m) : m \in Nombre} = (B \ X) \cup Y
  BY <1>6, <1>7 DEF D2
<1> QED
  BY <1>4, <1>5, <1>8 DEF Bloquean

\* The same lists, with the same processes blocked.
LEMMA BloqueanIgual ==
    ASSUME NEW w, NEW r, NEW e, NEW e2, Bloquean(w, r, e),
           Con(e2, {"BLOCKED", "SUSP_BLOCKED"})
              = Con(e, {"BLOCKED", "SUSP_BLOCKED"})
    PROVE  Bloquean(w, r, e2)
BY DEF Bloquean

-----------------------------------------------------------------------------
(* memoria against states. *)

Residen(r, s, e) == /\ r = Con(e, {"READY", "EXEC", "BLOCKED"})
                    /\ s = Con(e, {"SUSP_BLOCKED", "SUSP_READY"})

Cabe(S) == Cardinality(PaginasDe(S)) <= Marcos

LEMMA PaginasFinitas ==
    ASSUME NEW S \in SUBSET Pid
    PROVE  /\ IsFiniteSet(PaginasDe(S))
           /\ Cardinality(PaginasDe(S)) \in Nat
<1> DEFINE F == {{p} \X (1..Tamanio[p]) : p \in S}
           f == [p \in S |-> {p} \X (1..Tamanio[p])]
<1>1. f \in Surjection(S, F)
  BY DEF Surjection
<1>2. IsFiniteSet(F)
  <2>1. IsFiniteSet(S)
    BY KernelAssumption, FS_Subset
  <2> HIDE DEF f, F
  <2> QED
    BY <1>1, <2>1, FS_Surjection
<1>3. ASSUME NEW p \in S PROVE IsFiniteSet({p} \X (1..Tamanio[p]))
  <2>1. IsFiniteSet({p})
    BY FS_Singleton
  <2>2. Tamanio[p] \in Int
    BY KernelAssumption
  <2>3. IsFiniteSet(1..Tamanio[p])
    BY <2>2, FS_Interval
  <2> QED
    BY <2>1, <2>3, FS_Product
<1>4. \A T \in F : IsFiniteSet(T)
  BY <1>3
<1>5. IsFiniteSet(UNION F)
  <2> HIDE DEF F
  <2> QED
    BY <1>2, <1>4, FS_UNION
<1>6. IsFiniteSet(PaginasDe(S))
  BY <1>5 DEF PaginasDe
<1> QED
  BY <1>6, FS_CardinalityType

\* Whoever leaves makes room.
LEMMA CabenMenos ==
    ASSUME NEW S \in SUBSET Pid, NEW T \in SUBSET S, Cabe(S)
    PROVE  Cabe(T)
<1>1. PaginasDe(T) \in SUBSET PaginasDe(S)
  BY DEF PaginasDe
<1>2. /\ IsFiniteSet(PaginasDe(S)) /\ Cardinality(PaginasDe(S)) \in Nat
      /\ Cardinality(PaginasDe(T)) \in Nat
  BY PaginasFinitas
<1>3. Cardinality(PaginasDe(T)) <= Cardinality(PaginasDe(S))
  BY <1>1, <1>2, FS_Subset
<1> QED
  BY <1>2, <1>3, KernelAssumption DEF Cabe

\* A process that enters adds its pages.
LEMMA CabeOtro ==
    ASSUME NEW S \in SUBSET Pid, NEW p \in Pid,
           Cardinality(PaginasDe(S)) + Tamanio[p] <= Marcos
    PROVE  Cabe(S \cup {p})
<1> DEFINE A == PaginasDe(S)
           B == {p} \X (1..Tamanio[p])
<1>1. PaginasDe(S \cup {p}) = A \cup B
  BY DEF PaginasDe
<1>2. IsFiniteSet(A) /\ Cardinality(A) \in Nat
  BY PaginasFinitas
<1>3. Tamanio[p] \in Nat
  BY KernelAssumption
<1>4. IsFiniteSet(B) /\ Cardinality(B) = Tamanio[p]
  <2>1. IsFiniteSet({p}) /\ Cardinality({p}) = 1
    BY FS_Singleton
  <2>2. IsFiniteSet(1..Tamanio[p]) /\ Cardinality(1..Tamanio[p]) = Tamanio[p]
    BY <1>3, FS_Interval
  <2>3. IsFiniteSet(B)
    BY <2>1, <2>2, FS_Product, Zenon
  <2>4. Cardinality(B) = Cardinality({p}) * Cardinality(1..Tamanio[p])
    BY <2>1, <2>2, FS_Product, Zenon
  <2> QED
    BY <1>3, <2>1, <2>2, <2>3, <2>4
<1> HIDE DEF A, B
<1>5. /\ Cardinality(A \cup B)
            = Cardinality(A) + Cardinality(B) - Cardinality(A \cap B)
      /\ Cardinality(A \cap B) \in Nat
  <2>1. IsFiniteSet(A \cap B)
    BY <1>2, FS_Intersection
  <2>2. Cardinality(A \cap B) \in Nat
    BY <2>1, FS_CardinalityType
  <2>3. Cardinality(A \cup B)
         = Cardinality(A) + Cardinality(B) - Cardinality(A \cap B)
    BY <1>2, <1>4, FS_Union
  <2> QED
    BY <2>2, <2>3
<1>6. Cardinality(A) + Tamanio[p] <= Marcos
  BY DEF A
<1>7. Marcos \in Nat
  BY KernelAssumption
<1>8. Cardinality(A \cup B) <= Marcos
  BY <1>2, <1>3, <1>4, <1>5, <1>6, <1>7
<1> QED
  BY <1>1, <1>8 DEF Cabe

-----------------------------------------------------------------------------
(* The invariant. *)

Procesos ==
    /\ Cola(queue_new, estado, "NEW")
    /\ Cola(queue_ready, estado, "READY")
    /\ Cola(queue_susp_ready, estado, "SUSP_READY")
    /\ Ejecutan(unidades, estado)
    /\ Bloquean(esperando_io, ejecutando_io, estado)
    /\ Residen(residentes, en_swap, estado)
    /\ Cabe(residentes)

Todo == TypeOK /\ Fichas /\ Procesos

LEMMA ProcesosInit == Init => Procesos
<1> SUFFICES ASSUME Init PROVE Procesos
  OBVIOUS
<1>1. PICK p \in Pid :
         /\ estado = [q \in Pid |-> IF q = p THEN "NEW" ELSE "SIN_CREAR"]
         /\ queue_new = <<p>>
  BY DEF Init
<1>2. /\ queue_ready = <<>> /\ queue_susp_ready = <<>> /\ unidades = {}
      /\ residentes = {} /\ en_swap = {}
      /\ \A n \in Nombre : esperando_io[n] = <<>> /\ ejecutando_io[n] = <<>>
  BY DEF Init
<1>3. Cola(queue_new, estado, "NEW")
  BY <1>1 DEF Cola, Con, ToSet, SinRepetidos
<1>4. \A E : "NEW" \notin E /\ "SIN_CREAR" \notin E => Con(estado, E) = {}
  BY <1>1 DEF Con
<1>5. /\ Con(estado, {"READY"}) = {} /\ Con(estado, {"SUSP_READY"}) = {}
      /\ Con(estado, {"EXEC"}) = {}
      /\ Con(estado, {"BLOCKED", "SUSP_BLOCKED"}) = {}
      /\ Con(estado, {"READY", "EXEC", "BLOCKED"}) = {}
      /\ Con(estado, {"SUSP_BLOCKED", "SUSP_READY"}) = {}
  BY <1>4
<1>6. ToSet(<<>>) = {} /\ SinRepetidos(<<>>) /\ SinPcbRepetido(<<>>)
  BY DEF ToSet, SinRepetidos, SinPcbRepetido
<1>7. /\ Cola(queue_ready, estado, "READY")
      /\ Cola(queue_susp_ready, estado, "SUSP_READY")
  BY <1>2, <1>5, <1>6 DEF Cola
<1>8. Ejecutan(unidades, estado)
  BY <1>2, <1>5 DEF Ejecutan
<1>9. Bloquean(esperando_io, ejecutando_io, estado)
  <2>1. Pcbs(<<>>) = {}
    BY <1>6 DEF Pcbs
  <2>2. \A n \in Nombre : /\ Separados(esperando_io[n], ejecutando_io[n])
                          /\ DeNombre(esperando_io, ejecutando_io, n) = {}
    BY <1>2, <1>6, <2>1 DEF Separados, DeNombre
  <2> QED
    BY <1>5, <2>2 DEF Bloquean
<1>10. Residen(residentes, en_swap, estado)
  BY <1>2, <1>5 DEF Residen
<1>11. Cabe(residentes)
  <2>1. PaginasDe({}) = {}
    BY DEF PaginasDe
  <2>2. Cardinality({}) = 0
    BY FS_EmptySet
  <2>3. Marcos \in Nat
    BY KernelAssumption
  <2>4. Cardinality(PaginasDe(residentes)) = 0
    BY <1>2, <2>1, <2>2
  <2> QED
    BY <2>3, <2>4 DEF Cabe
<1> QED
  BY <1>3, <1>7, <1>8, <1>9, <1>10, <1>11 DEF Procesos

\* Nothing that the invariant speaks of changes.
LEMMA ProcesosIgual ==
    ASSUME Procesos,
           UNCHANGED <<estado, colas, unidades, esperando_io, ejecutando_io,
                       memVars>>
    PROVE  Procesos'
<1>1. UNCHANGED <<estado, queue_new, queue_ready, queue_susp_ready, unidades,
                  esperando_io, ejecutando_io, residentes, en_swap>>
  BY DEF colas, memVars
<1> QED
  BY <1>1 DEF Procesos

-----------------------------------------------------------------------------
(* The planners. *)

LEMMA ProcesosPlanificarCorto ==
    ASSUME Todo, PlanificarCorto
    PROVE  Procesos'
<1>1. TypeOK /\ Procesos /\ estado \in [Pid -> Estados]
      /\ queue_ready \in Seq(Pid)
  BY DEF Todo, TypeOK
<1>2. UNCHANGED <<queue_new, queue_susp_ready, esperando_io, ejecutando_io,
                  residentes, en_swap>>
  BY DEF PlanificarCorto, ioVars, memVars
<1>3. CASE queue_ready # <<>> /\ libres # {}
  <2>1. PICK c \in libres, i \in Elegibles :
          /\ PonerEnEjecucion(queue_ready[i], c)
          /\ queue_ready' = RemoveAt(queue_ready, i)
    BY <1>3 DEF PlanificarCorto
  <2>2. i \in DOMAIN queue_ready
    BY <1>1, <1>3, LenProperties, EmptySeq DEF Elegibles
  <2> DEFINE p == queue_ready[i]
             e2 == [estado EXCEPT ![p] = "EXEC"]
  <2>3. /\ p \in Pid /\ estado[p] = "READY"
        /\ Cola(RemoveAt(queue_ready, i), e2, "READY")
    BY <1>1, <2>2, ColaSinUno DEF Procesos
  <2>4. /\ estado' = e2
        /\ unidades' = unidades \cup {[proceso |-> p, cpu |-> c]}
    BY <2>1 DEF PonerEnEjecucion
  <2> HIDE DEF p
  <2>5. Cola(queue_new, e2, "NEW") /\ Cola(queue_susp_ready, e2, "SUSP_READY")
    BY <1>1, <2>3, ColaAjena DEF Procesos
  <2>6. Ejecutan(unidades \cup {[proceso |-> p, cpu |-> c]}, e2)
    BY <1>1, <2>3, EjecutanMas DEF Procesos
  <2>7. Bloquean(esperando_io, ejecutando_io, e2)
    <3>1. Con(e2, {"BLOCKED", "SUSP_BLOCKED"})
             = Con(estado, {"BLOCKED", "SUSP_BLOCKED"})
      BY <1>1, <2>3 DEF Con
    <3> QED
      BY <1>1, <3>1, BloqueanIgual DEF Procesos
  <2>8. Residen(residentes, en_swap, e2)
    BY <1>1, <2>3 DEF Procesos, Residen, Con
  <2> QED
    BY <1>1, <1>2, <2>1, <2>3, <2>4, <2>5, <2>6, <2>7, <2>8 DEF Procesos
<1>4. CASE ~(queue_ready # <<>> /\ libres # {})
  BY <1>1, <1>2, <1>4, ProcesosIgual DEF PlanificarCorto, colas, memVars
<1> QED
  BY <1>3, <1>4

\* A process enters main memory and goes to READY.
LEMMA ProcesosEntra ==
    ASSUME Todo, NEW p \in Pid, estado[p] \in {"NEW", "SUSP_READY"},
           HayEspacio(p), PonerEnReady(p),
           residentes' = residentes \cup {p}, en_swap' = en_swap \ {p},
           Cola(queue_new', [estado EXCEPT ![p] = "READY"], "NEW"),
           Cola(queue_susp_ready', [estado EXCEPT ![p] = "READY"],
                "SUSP_READY"),
           UNCHANGED <<unidades, esperando_io, ejecutando_io>>
    PROVE  Procesos'
<1> DEFINE e2 == [estado EXCEPT ![p] = "READY"]
<1>1. TypeOK /\ Procesos /\ estado \in [Pid -> Estados]
      /\ queue_ready \in Seq(Pid) /\ residentes \in SUBSET Pid
  BY DEF Todo, TypeOK
<1>2. estado' = e2 /\ queue_ready' = Append(queue_ready, p)
  BY DEF PonerEnReady
<1>3. Cola(Append(queue_ready, p), e2, "READY")
  BY <1>1, ColaAppend DEF Procesos
<1>4. Ejecutan(unidades, e2)
  BY <1>1, EjecutanAjeno DEF Procesos
<1>5. Bloquean(esperando_io, ejecutando_io, e2)
  <2>1. Con(e2, {"BLOCKED", "SUSP_BLOCKED"})
           = Con(estado, {"BLOCKED", "SUSP_BLOCKED"})
    BY <1>1 DEF Con
  <2> QED
    BY <1>1, <2>1, BloqueanIgual DEF Procesos
<1>6. Residen(residentes \cup {p}, en_swap \ {p}, e2)
  BY <1>1 DEF Procesos, Residen, Con
<1>7. Cabe(residentes \cup {p})
  BY <1>1, CabeOtro DEF HayEspacio
<1> QED
  BY <1>2, <1>3, <1>4, <1>5, <1>6, <1>7 DEF Procesos

LEMMA ProcesosPlanificarLargo ==
    ASSUME Todo, PlanificarLargo
    PROVE  Procesos'
<1>1. TypeOK /\ Procesos /\ estado \in [Pid -> Estados]
      /\ queue_new \in Seq(Pid) /\ queue_susp_ready \in Seq(Pid)
      /\ en_swap \in SUBSET Pid
  BY DEF Todo, TypeOK
<1>2. UNCHANGED <<unidades, esperando_io, ejecutando_io>>
  BY DEF PlanificarLargo, cpuVars, ioVars
<1>3. ASSUME SinEspacio PROVE Procesos'
  BY <1>1, <1>2, <1>3, ProcesosIgual DEF SinEspacio
<1>4. ASSUME queue_susp_ready # <<>>, VueltaSwap, ~SinEspacio PROVE Procesos'
  <2> DEFINE p == Head(queue_susp_ready)
  <2>1. /\ HayEspacio(p) /\ PonerEnReady(p)
        /\ residentes' = residentes \cup {p} /\ en_swap' = en_swap \ {p}
        /\ queue_susp_ready' = Tail(queue_susp_ready)
        /\ queue_new' = queue_new
    BY <1>4 DEF VueltaSwap
  <2>2. /\ p \in Pid /\ estado[p] = "SUSP_READY"
        /\ Cola(Tail(queue_susp_ready), [estado EXCEPT ![p] = "READY"],
                "SUSP_READY")
    <3>1. Cola(queue_susp_ready, estado, "SUSP_READY")
      BY <1>1 DEF Procesos
    <3>2. /\ estado \in [Pid -> Estados] /\ queue_susp_ready \in Seq(Pid)
          /\ queue_susp_ready # <<>> /\ "READY" # "SUSP_READY"
      BY <1>1, <1>4
    <3> QED
      BY <3>1, <3>2, ColaTail, Zenon
  <2> HIDE DEF p
  <2>3. Cola(queue_new, [estado EXCEPT ![p] = "READY"], "NEW")
    BY <1>1, <2>2, ColaAjena DEF Procesos
  <2> QED
    BY <1>2, <2>1, <2>2, <2>3, ProcesosEntra
<1>5. ASSUME queue_susp_ready = <<>>, queue_new # <<>>, EspacioEnMemoria,
             ~SinEspacio
      PROVE  Procesos'
  <2> DEFINE p == Head(queue_new)
  <2>1. /\ HayEspacio(p) /\ PonerEnReady(p)
        /\ residentes' = residentes \cup {p} /\ en_swap' = en_swap
        /\ queue_new' = Tail(queue_new)
        /\ queue_susp_ready' = queue_susp_ready
    BY <1>5 DEF EspacioEnMemoria
  <2>2. /\ p \in Pid /\ estado[p] = "NEW"
        /\ Cola(Tail(queue_new), [estado EXCEPT ![p] = "READY"], "NEW")
    BY <1>1, <1>5, ColaTail DEF Procesos
  <2> HIDE DEF p
  <2>3. Cola(queue_susp_ready, [estado EXCEPT ![p] = "READY"], "SUSP_READY")
    BY <1>1, <2>2, ColaAjena DEF Procesos
  <2>4. en_swap' = en_swap \ {p}
    BY <1>1, <2>1, <2>2 DEF Procesos, Residen, Con
  <2> QED
    BY <1>2, <2>1, <2>2, <2>3, <2>4, ProcesosEntra
<1>6. ASSUME queue_susp_ready = <<>>, queue_new = <<>> PROVE Procesos'
  BY <1>1, <1>2, <1>6, ProcesosIgual DEF PlanificarLargo
<1> QED
  BY <1>3, <1>4, <1>5, <1>6 DEF PlanificarLargo

-----------------------------------------------------------------------------
(* The messages of the CPUs. *)

LEMMA EjecutaEnExec ==
    ASSUME Todo, NEW c, NEW p \in Pid, Ejecuta(c, p)
    PROVE  estado[p] = "EXEC"
<1> DEFINE x == [proceso |-> p, cpu |-> c]
<1>1. x \in unidades /\ x.proceso = p
  BY DEF Ejecuta
<1> HIDE DEF x
<1>2. p \in {u.proceso : u \in unidades}
  BY <1>1
<1> QED
  BY <1>2 DEF Todo, Procesos, Ejecutan, Con

\* A running process ends.
LEMMA ProcesosTermina ==
    ASSUME Todo, NEW p \in Pid, estado[p] = "EXEC",
           NEW b \in {"EXIT", "LIBERADO"}, estado' = [estado EXCEPT ![p] = b],
           SacarProcesoEjecucion(p), LiberarMemoria({p}),
           UNCHANGED <<colas, esperando_io, ejecutando_io>>
    PROVE  Procesos'
<1> DEFINE e2 == [estado EXCEPT ![p] = b]
<1>1. /\ Procesos /\ estado \in [Pid -> Estados]
      /\ residentes \in SUBSET Pid
      /\ b # "NEW" /\ b # "READY" /\ b # "SUSP_READY" /\ b # "EXEC"
  BY DEF Todo, TypeOK
<1>2. /\ unidades' = unidades \ {u \in unidades : u.proceso = p}
      /\ residentes' = residentes \ {p} /\ en_swap' = en_swap \ {p}
      /\ UNCHANGED <<queue_new, queue_ready, queue_susp_ready>>
  BY DEF SacarProcesoEjecucion, UnidadesDe, LiberarMemoria, colas
<1>3. /\ Cola(queue_new, e2, "NEW") /\ Cola(queue_ready, e2, "READY")
      /\ Cola(queue_susp_ready, e2, "SUSP_READY")
  BY <1>1, ColaAjena DEF Procesos
<1>4. Ejecutan(unidades \ {u \in unidades : u.proceso = p}, e2)
  BY <1>1, EjecutanMenos DEF Procesos
<1>5. Bloquean(esperando_io, ejecutando_io, e2)
  <2>1. Con(e2, {"BLOCKED", "SUSP_BLOCKED"})
           = Con(estado, {"BLOCKED", "SUSP_BLOCKED"})
    BY <1>1 DEF Con
  <2> QED
    BY <1>1, <2>1, BloqueanIgual DEF Procesos
<1>6. Residen(residentes \ {p}, en_swap \ {p}, e2)
  BY <1>1 DEF Procesos, Residen, Con
<1>7. Cabe(residentes \ {p})
  BY <1>1, CabenMenos DEF Procesos
<1> QED
  BY <1>2, <1>3, <1>4, <1>5, <1>6, <1>7 DEF Procesos

LEMMA LiberaUno ==
    ASSUME NEW e \in [Pid -> Estados], NEW p \in Pid
    PROVE  Libera(e, {p}) = [e EXCEPT ![p] = "LIBERADO"]
BY DEF Libera

LEMMA ProcesosFinalizar ==
    ASSUME Todo, NEW p \in Pid, estado[p] = "EXEC",
           SacarProcesoEjecucion(p), FinalizarProcesos({p}),
           UNCHANGED <<colas, esperando_io, ejecutando_io>>
    PROVE  Procesos'
<1>1. estado' = Libera(estado, {p}) /\ estado \in [Pid -> Estados]
  BY DEF FinalizarProcesos, Libera, Todo, TypeOK
<1>2. estado' = [estado EXCEPT ![p] = "LIBERADO"]
  BY <1>1, LiberaUno
<1> QED
  BY <1>2, ProcesosTermina DEF FinalizarProcesos

\* A running process blocks: it is listed under the name of its device.
LEMMA ProcesosBloquear ==
    ASSUME Todo, NEW p \in Pid, estado[p] = "EXEC", NEW n \in Nombre,
           SacarProcesoEjecucion(p), Bloquear(p), UNCHANGED colas,
           \A m \in Nombre : m # n => /\ esperando_io'[m] = esperando_io[m]
                                      /\ ejecutando_io'[m] = ejecutando_io[m],
           \/ /\ esperando_io'[n] = Append(esperando_io[n], p)
              /\ ejecutando_io'[n] = ejecutando_io[n]
           \/ /\ esperando_io'[n] = esperando_io[n]
              /\ \E d \in Dispositivo :
                    ejecutando_io'[n] = Append(ejecutando_io[n],
                                               [pcb |-> p, dispositivo |-> d])
    PROVE  Procesos'
<1> DEFINE e2 == [estado EXCEPT ![p] = "BLOCKED"]
           w == esperando_io[n]
           r == ejecutando_io[n]
<1>1. /\ Procesos /\ estado \in [Pid -> Estados]
      /\ w \in Seq(Pid) /\ r \in Seq(EnIo)
  BY DEF Todo, TypeOK
<1>2. /\ unidades' = unidades \ {u \in unidades : u.proceso = p}
      /\ estado' = e2
      /\ UNCHANGED <<queue_new, queue_ready, queue_susp_ready, residentes,
                     en_swap>>
  BY DEF SacarProcesoEjecucion, UnidadesDe, Bloquear, colas, memVars
<1>3. /\ Cola(queue_new, e2, "NEW") /\ Cola(queue_ready, e2, "READY")
      /\ Cola(queue_susp_ready, e2, "SUSP_READY")
  BY <1>1, ColaAjena DEF Procesos
<1>4. Ejecutan(unidades \ {u \in unidades : u.proceso = p}, e2)
  BY <1>1, EjecutanMenos DEF Procesos
<1>5. Residen(residentes, en_swap, e2)
  BY <1>1 DEF Procesos, Residen, Con
<1>6. /\ Separados(w, r) /\ p \notin ToSet(w) \cup Pcbs(r)
  <2>1. /\ Separados(w, r)
        /\ DeNombre(esperando_io, ejecutando_io, n)
              \subseteq Con(estado, {"BLOCKED", "SUSP_BLOCKED"})
    BY <1>1 DEF Procesos, Bloquean
  <2>2. p \notin Con(estado, {"BLOCKED", "SUSP_BLOCKED"})
    BY DEF Con
  <2> QED
    BY <2>1, <2>2 DEF DeNombre
<1>7. /\ Separados(esperando_io'[n], ejecutando_io'[n])
      /\ ToSet(esperando_io'[n]) \cup Pcbs(ejecutando_io'[n])
            = (ToSet(w) \cup Pcbs(r)) \cup {p}
  <2>1. CASE /\ esperando_io'[n] = Append(w, p) /\ ejecutando_io'[n] = r
    <3>1. ToSet(Append(w, p)) = ToSet(w) \cup {p} /\ SinRepetidos(Append(w, p))
      BY <1>1, <1>6, ListaAppend DEF Separados
    <3> QED
      BY <2>1, <3>1, <1>6 DEF Separados
  <2>2. ASSUME NEW d \in Dispositivo, esperando_io'[n] = w,
               ejecutando_io'[n] = Append(r, [pcb |-> p, dispositivo |-> d])
        PROVE  /\ Separados(esperando_io'[n], ejecutando_io'[n])
               /\ ToSet(esperando_io'[n]) \cup Pcbs(ejecutando_io'[n])
                     = (ToSet(w) \cup Pcbs(r)) \cup {p}
    <3> DEFINE u == Append(r, [pcb |-> p, dispositivo |-> d])
    <3>1. Pcbs(u) = Pcbs(r) \cup {p} /\ SinPcbRepetido(u)
      BY <1>1, <1>6, PcbsAppend DEF Separados
    <3> HIDE DEF u
    <3>2. Separados(w, u) /\ ToSet(w) \cup Pcbs(u)
            = (ToSet(w) \cup Pcbs(r)) \cup {p}
      BY <1>6, <3>1 DEF Separados
    <3> QED
      BY <2>2, <3>2 DEF u
  <2> QED
    BY <2>1, <2>2
<1>8. Bloquean(esperando_io', ejecutando_io', e2)
  <2>1. CambianBloqueados(estado, e2, {}, {p})
    BY <1>1 DEF Con, CambianBloqueados
  <2>2. CambianListas(esperando_io, ejecutando_io, esperando_io',
                      ejecutando_io', n, {}, {p})
    BY <1>7 DEF CambianListas, DeNombre
  <2>3. Bloquean(esperando_io, ejecutando_io, estado)
    BY <1>1 DEF Procesos
  <2> HIDE DEF e2
  <2> QED
    BY <2>1, <2>2, <2>3, BloqueanCambia
<1> QED
  BY <1>1, <1>2, <1>3, <1>4, <1>5, <1>8 DEF Procesos

LEMMA ProcesosCausaIo ==
    ASSUME Todo, NEW c \in Cpu, NEW p \in Pid, NEW n \in Nombre,
           CausaIo(c, p, n)
    PROVE  Procesos'
<1>1. estado[p] = "EXEC" /\ SacarProcesoEjecucion(p) /\ UNCHANGED colas
  BY EjecutaEnExec DEF CausaIo
<1>2. CASE DispositivosDe(n) = {}
  BY <1>1, <1>2, ProcesosFinalizar DEF CausaIo
<1>3. CASE DispositivosDe(n) # {}
  <2>1. Bloquear(p)
    BY <1>3 DEF CausaIo
  <2>2. /\ esperando_io \in [Nombre -> Seq(Pid)]
        /\ ejecutando_io \in [Nombre -> Seq(EnIo)]
    BY DEF Todo, TypeOK
  <2>3. CASE IoEsperar(p, n)
    <3>1. /\ \A m \in Nombre : m # n => /\ esperando_io'[m] = esperando_io[m]
                                        /\ ejecutando_io'[m] = ejecutando_io[m]
          /\ esperando_io'[n] = Append(esperando_io[n], p)
          /\ ejecutando_io'[n] = ejecutando_io[n]
      BY <2>2, <2>3 DEF IoEsperar
    <3> QED
      BY <1>1, <2>1, <3>1, ProcesosBloquear
  <2>4. ASSUME NEW d \in DispositivosDe(n), IoDispositivoLibre(p, d)
        PROVE  Procesos'
    <3>1. d \in Dispositivo /\ NombreDe[d] = n
      BY DEF DispositivosDe, Todo, TypeOK
    <3>2. /\ \A m \in Nombre : m # n => /\ esperando_io'[m] = esperando_io[m]
                                        /\ ejecutando_io'[m] = ejecutando_io[m]
          /\ esperando_io'[n] = esperando_io[n]
          /\ ejecutando_io'[n] = Append(ejecutando_io[n],
                                        [pcb |-> p, dispositivo |-> d])
      BY <2>2, <2>4, <3>1 DEF IoDispositivoLibre
    <3> QED
      BY <1>1, <2>1, <3>1, <3>2, ProcesosBloquear
  <2> QED
    BY <1>3, <2>3, <2>4 DEF CausaIo
<1> QED
  BY <1>2, <1>3

LEMMA ProcesosInitProc ==
    ASSUME Todo, NEW c \in Cpu, NEW p \in Pid, NEW q \in Pid,
           InitProc(c, p, q)
    PROVE  Procesos'
<1> DEFINE e2 == [estado EXCEPT ![q] = "NEW"]
<1>1. /\ Procesos /\ estado \in [Pid -> Estados] /\ queue_new \in Seq(Pid)
      /\ estado[q] = "SIN_CREAR"
  BY DEF Todo, TypeOK, InitProc
<1>2. /\ estado' = e2 /\ queue_new' = Append(queue_new, q)
      /\ UNCHANGED <<queue_ready, queue_susp_ready, unidades, esperando_io,
                     ejecutando_io, residentes, en_swap>>
  BY DEF InitProc, cpuVars, ioVars, memVars
<1>3. Cola(Append(queue_new, q), e2, "NEW")
  BY <1>1, ColaAppend DEF Procesos
<1>4. Cola(queue_ready, e2, "READY") /\ Cola(queue_susp_ready, e2, "SUSP_READY")
  BY <1>1, ColaAjena DEF Procesos
<1>5. Ejecutan(unidades, e2)
  BY <1>1, EjecutanAjeno DEF Procesos
<1>6. Bloquean(esperando_io, ejecutando_io, e2)
  <2>1. Con(e2, {"BLOCKED", "SUSP_BLOCKED"})
           = Con(estado, {"BLOCKED", "SUSP_BLOCKED"})
    BY <1>1 DEF Con
  <2> QED
    BY <1>1, <2>1, BloqueanIgual DEF Procesos
<1>7. Residen(residentes, en_swap, e2)
  BY <1>1 DEF Procesos, Residen, Con
<1> QED
  BY <1>1, <1>2, <1>3, <1>4, <1>5, <1>6, <1>7 DEF Procesos

LEMMA ProcesosMemoryDump ==
    ASSUME Todo, NEW c \in Cpu, NEW p \in Pid, NEW exito \in BOOLEAN,
           MemoryDump(c, p, exito)
    PROVE  Procesos'
<1>1. /\ estado[p] = "EXEC" /\ SacarProcesoEjecucion(p)
      /\ UNCHANGED <<queue_new, queue_susp_ready, esperando_io, ejecutando_io>>
  BY EjecutaEnExec DEF MemoryDump, ioVars
<1>2. CASE exito = TRUE
  <2> DEFINE e2 == [estado EXCEPT ![p] = "READY"]
  <2>1. PonerEnReady(p) /\ UNCHANGED <<residentes, en_swap>>
    BY <1>2 DEF MemoryDump, memVars
  <2>2. estado' = e2 /\ queue_ready' = Append(queue_ready, p)
    BY <2>1 DEF PonerEnReady
  <2>3. Procesos /\ estado \in [Pid -> Estados] /\ queue_ready \in Seq(Pid)
    BY DEF Todo, TypeOK
  <2>4. Cola(Append(queue_ready, p), e2, "READY")
    BY <1>1, <2>3, ColaAppend DEF Procesos
  <2>5. Cola(queue_new, e2, "NEW") /\ Cola(queue_susp_ready, e2, "SUSP_READY")
    BY <1>1, <2>3, ColaAjena DEF Procesos
  <2>6. unidades' = unidades \ {u \in unidades : u.proceso = p}
    BY <1>1 DEF SacarProcesoEjecucion, UnidadesDe
  <2>7. Ejecutan(unidades \ {u \in unidades : u.proceso = p}, e2)
    BY <2>3, EjecutanMenos DEF Procesos
  <2>8. Bloquean(esperando_io, ejecutando_io, e2)
    <3>1. Con(e2, {"BLOCKED", "SUSP_BLOCKED"})
             = Con(estado, {"BLOCKED", "SUSP_BLOCKED"})
      BY <1>1, <2>3 DEF Con
    <3> QED
      BY <2>3, <3>1, BloqueanIgual DEF Procesos
  <2>9. Residen(residentes, en_swap, e2)
    BY <1>1, <2>3 DEF Procesos, Residen, Con
  <2> QED
    BY <1>1, <2>1, <2>2, <2>3, <2>4, <2>5, <2>6, <2>7, <2>8, <2>9 DEF Procesos
<1>3. CASE exito = FALSE
  <2>1. /\ estado' = [estado EXCEPT ![p] = "EXIT"] /\ LiberarMemoria({p})
        /\ UNCHANGED queue_ready
    BY <1>3 DEF MemoryDump
  <2> QED
    BY <1>1, <2>1, ProcesosTermina DEF colas
<1>4. exito = TRUE \/ exito = FALSE
  BY Booleano, Zenon
<1> QED
  BY <1>2, <1>3, <1>4, Zenon

LEMMA ProcesosMensaje ==
    ASSUME Todo, NEW c \in Cpu, MensajeDe(c)
    PROVE  Procesos'
<1>1. ASSUME NEW p \in Pid, Finalizado(c, p) PROVE Procesos'
  <2>1. estado[p] = "EXEC"
    BY <1>1, EjecutaEnExec DEF Finalizado
  <2> QED
    BY <1>1, <2>1, ProcesosFinalizar DEF Finalizado, ioVars
<1> QED
  BY <1>1, ProcesosCausaIo, ProcesosInitProc, ProcesosMemoryDump DEF MensajeDe

-----------------------------------------------------------------------------
(* The devices. *)

\* comprobar_cola_bloqueados, when t runs under the name of d: who waits may
\* begin to run, and the processes of the name stay the same.
LEMMA ComprobarColaMueve ==
    ASSUME Todo, NEW n \in Nombre, NEW d \in Dispositivo, NombreDe[d] = n,
           NEW t \in Seq(EnIo), NEW cola, Separados(esperando_io[n], t),
           ComprobarColaBloqueados(d, t, cola)
    PROVE  /\ \A m \in Nombre : m # n => /\ esperando_io'[m] = esperando_io[m]
                                         /\ ejecutando_io'[m] = ejecutando_io[m]
           /\ Separados(esperando_io'[n], ejecutando_io'[n])
           /\ DeNombre(esperando_io', ejecutando_io', n)
                 = ToSet(esperando_io[n]) \cup Pcbs(t)
<1> DEFINE s == esperando_io[n]
           u == Append(t, [pcb |-> Head(s), dispositivo |-> d])
<1>1. /\ esperando_io \in [Nombre -> Seq(Pid)]
      /\ ejecutando_io \in [Nombre -> Seq(EnIo)] /\ s \in Seq(Pid)
  BY DEF Todo, TypeOK
<1>2. CASE s # <<>>
  <2>1. /\ Separados(Tail(s), u)
        /\ ToSet(Tail(s)) \cup Pcbs(u) = ToSet(s) \cup Pcbs(t)
    BY <1>1, <1>2, SeparadosPasa
  <2>2. /\ esperando_io' = [esperando_io EXCEPT ![n] = Tail(s)]
        /\ ejecutando_io' = [ejecutando_io EXCEPT ![n] = u]
    BY <1>2 DEF ComprobarColaBloqueados
  <2>3. /\ \A m \in Nombre : m # n => /\ esperando_io'[m] = esperando_io[m]
                                      /\ ejecutando_io'[m] = ejecutando_io[m]
        /\ esperando_io'[n] = Tail(s) /\ ejecutando_io'[n] = u
    BY <1>1, <2>2
  <2> QED
    BY <2>1, <2>3 DEF DeNombre
<1>3. CASE s = <<>>
  <2>1. /\ esperando_io' = esperando_io
        /\ ejecutando_io' = [ejecutando_io EXCEPT ![n] = t]
    BY <1>3 DEF ComprobarColaBloqueados
  <2> QED
    BY <1>1, <2>1 DEF DeNombre
<1> QED
  BY <1>2, <1>3

LEMMA ProcesosRevisarCola ==
    ASSUME Todo, NEW d \in Dispositivo, RevisarColaAlIdentificar(d)
    PROVE  Procesos'
<1> DEFINE n == NombreDe[d]
           t == ejecutando_io[n]
<1>1. /\ Procesos /\ n \in Nombre /\ t \in Seq(EnIo)
  BY KernelAssumption DEF Todo, TypeOK
<1>2. /\ ComprobarColaBloqueados(d, t, pedidos[d])
      /\ UNCHANGED <<estado, queue_new, queue_ready, queue_susp_ready,
                     unidades, residentes, en_swap>>
  BY DEF RevisarColaAlIdentificar, colas, cpuVars, memVars
<1>3. Separados(esperando_io[n], t)
  BY <1>1 DEF Procesos, Bloquean
<1>4. /\ \A m \in Nombre : m # n => /\ esperando_io'[m] = esperando_io[m]
                                    /\ ejecutando_io'[m] = ejecutando_io[m]
      /\ Separados(esperando_io'[n], ejecutando_io'[n])
      /\ DeNombre(esperando_io', ejecutando_io', n)
            = ToSet(esperando_io[n]) \cup Pcbs(t)
  <2>1. NombreDe[d] = n
    OBVIOUS
  <2>2. ComprobarColaBloqueados(d, t, pedidos[d])
    BY <1>2
  <2> HIDE DEF n, t
  <2> QED
    BY <1>1, <1>3, <2>1, <2>2, ComprobarColaMueve
<1>5. CambianListas(esperando_io, ejecutando_io, esperando_io',
                    ejecutando_io', n, {}, {})
  BY <1>4 DEF CambianListas, DeNombre
<1>6. CambianBloqueados(estado, estado', {}, {})
  BY <1>2 DEF CambianBloqueados
<1>7. Bloquean(esperando_io', ejecutando_io', estado')
  <2>1. Bloquean(esperando_io, ejecutando_io, estado)
    BY <1>1 DEF Procesos
  <2> HIDE DEF n
  <2> QED
    BY <1>1, <1>5, <1>6, <2>1, BloqueanCambia
<1> QED
  BY <1>1, <1>2, <1>7 DEF Procesos

\* A blocked process leaves the lists of its device.
LEMMA ProcesosDesbloquear ==
    ASSUME Todo, NEW p \in Pid, estado[p] \in {"BLOCKED", "SUSP_BLOCKED"},
           Desbloquear(p), NEW n \in Nombre,
           CambianListas(esperando_io, ejecutando_io, esperando_io',
                         ejecutando_io', n, {p}, {}),
           UNCHANGED <<queue_new, unidades, memVars>>
    PROVE  Procesos'
<1> DEFINE a == IF estado[p] = "BLOCKED" THEN "READY" ELSE "SUSP_READY"
           e2 == [estado EXCEPT ![p] = a]
<1>1. /\ Procesos /\ estado \in [Pid -> Estados]
      /\ queue_ready \in Seq(Pid) /\ queue_susp_ready \in Seq(Pid)
      /\ UNCHANGED <<queue_new, unidades, residentes, en_swap>>
  BY DEF Todo, TypeOK, memVars
<1>2. /\ estado' = e2 /\ estado[p] # "READY" /\ estado[p] # "SUSP_READY"
      /\ estado[p] # "NEW" /\ estado[p] # "EXEC"
      /\ a \in {"READY", "SUSP_READY"}
  BY DEF Desbloquear, PonerEnReady
<1>3. /\ Cola(queue_ready', e2, "READY")
      /\ Cola(queue_susp_ready', e2, "SUSP_READY")
  <2>1. CASE estado[p] = "BLOCKED"
    <3>1. /\ queue_ready' = Append(queue_ready, p)
          /\ queue_susp_ready' = queue_susp_ready
          /\ e2 = [estado EXCEPT ![p] = "READY"]
      BY <2>1 DEF Desbloquear, PonerEnReady
    <3> QED
      BY <1>1, <1>2, <3>1, ColaAppend, ColaAjena DEF Procesos
  <2>2. CASE estado[p] = "SUSP_BLOCKED"
    <3>1. /\ queue_susp_ready' = Append(queue_susp_ready, p)
          /\ queue_ready' = queue_ready
          /\ e2 = [estado EXCEPT ![p] = "SUSP_READY"]
      BY <2>2 DEF Desbloquear
    <3> QED
      BY <1>1, <1>2, <3>1, ColaAppend, ColaAjena DEF Procesos
  <2> QED
    BY <2>1, <2>2
<1>4. Cola(queue_new, e2, "NEW")
  BY <1>1, <1>2, ColaAjena DEF Procesos
<1>5. Ejecutan(unidades, e2)
  BY <1>1, <1>2, EjecutanAjeno DEF Procesos
<1>6. Residen(residentes, en_swap, e2)
  BY <1>1 DEF Procesos, Residen, Con
<1>7. CambianBloqueados(estado, e2, {p}, {})
  BY <1>1, <1>2 DEF CambianBloqueados, Con
<1>8. Bloquean(esperando_io', ejecutando_io', e2)
  <2>1. Bloquean(esperando_io, ejecutando_io, estado)
    BY <1>1 DEF Procesos
  <2> HIDE DEF e2
  <2> QED
    BY <1>7, <2>1, BloqueanCambia
<1> HIDE DEF e2
<1> QED
  BY <1>1, <1>2, <1>3, <1>4, <1>5, <1>6, <1>8 DEF Procesos

LEMMA ProcesosFinalizacionIo ==
    ASSUME Todo, NEW d \in Dispositivo, FinalizacionIo(d)
    PROVE  Procesos'
<1> DEFINE n == NombreDe[d]
           p == Head(pedidos[d])
           t == ejecutando_io[n]
           ks == EntradasDe(n, p)
<1>1. /\ Procesos /\ n \in Nombre /\ t \in Seq(EnIo)
  BY KernelAssumption DEF Todo, TypeOK
<1>2. UNCHANGED <<queue_new, unidades, memVars>>
  BY DEF FinalizacionIo, cpuVars
<1>3. CASE ks = {}
  BY <1>1, <1>2, <1>3, ProcesosIgual DEF FinalizacionIo, colas
<1>4. CASE ks # {}
  <2>1. PICK k \in ks :
          /\ Desbloquear(p)
          /\ ComprobarColaBloqueados(d, RemoveAt(t, k), Tail(pedidos[d]))
    BY <1>4 DEF FinalizacionIo
  <2>2. k \in DOMAIN t /\ t[k].pcb = p
    BY DEF EntradasDe
  <2>3. p \in Pid
    BY HeadTailProperties DEF Todo, TypeOK, FinalizacionIo
  <2>4. Separados(esperando_io[n], t)
    BY <1>1 DEF Procesos, Bloquean
  <2> DEFINE u == RemoveAt(t, k)
  <2>5. /\ Separados(esperando_io[n], u) /\ u \in Seq(EnIo)
        /\ ToSet(esperando_io[n]) \cup Pcbs(u)
              = (ToSet(esperando_io[n]) \cup Pcbs(t)) \ {p}
    BY <1>1, <2>2, <2>4, SeparadosSinUno, RemoveAtProps
  <2>6. /\ \A m \in Nombre : m # n => /\ esperando_io'[m] = esperando_io[m]
                                      /\ ejecutando_io'[m] = ejecutando_io[m]
        /\ Separados(esperando_io'[n], ejecutando_io'[n])
        /\ DeNombre(esperando_io', ejecutando_io', n)
              = ToSet(esperando_io[n]) \cup Pcbs(u)
    <3>1. NombreDe[d] = n
      OBVIOUS
    <3>2. ComprobarColaBloqueados(d, u, Tail(pedidos[d]))
      BY <2>1
    <3> HIDE DEF n, t, u, p, ks
    <3> QED
      BY <1>1, <2>5, <3>1, <3>2, ComprobarColaMueve
  <2>7. p \in DeNombre(esperando_io, ejecutando_io, n)
    BY <2>2 DEF DeNombre, Pcbs, ToSet
  <2>8. estado[p] \in {"BLOCKED", "SUSP_BLOCKED"}
    BY <1>1, <2>7 DEF Procesos, Bloquean, Con
  <2>9. CambianListas(esperando_io, ejecutando_io, esperando_io',
                      ejecutando_io', n, {p}, {})
    BY <2>5, <2>6, <2>7 DEF CambianListas, DeNombre
  <2>10. Desbloquear(p)
    BY <2>1
  <2> HIDE DEF n, t, u, p, ks
  <2> QED
    BY <1>1, <1>2, <2>3, <2>8, <2>9, <2>10, ProcesosDesbloquear
<1> QED
  BY <1>3, <1>4

\* The processes of S, blocked all of them, are finalised and leave the lists
\* of their device.
LEMMA ProcesosFinalizarVarios ==
    ASSUME Todo, NEW S \in SUBSET Pid, FinalizarProcesos(S), NEW n \in Nombre,
           CambianListas(esperando_io, ejecutando_io, esperando_io',
                         ejecutando_io', n, S, {}),
           UNCHANGED <<colas, unidades>>
    PROVE  Procesos'
<1> DEFINE e2 == Libera(estado, S)
<1>1. /\ Procesos /\ estado \in [Pid -> Estados] /\ residentes \in SUBSET Pid
      /\ UNCHANGED <<queue_new, queue_ready, queue_susp_ready, unidades>>
  BY DEF Todo, TypeOK, colas
<1>2. \A p \in S : estado[p] \in {"BLOCKED", "SUSP_BLOCKED"}
  BY <1>1 DEF Procesos, Bloquean, CambianListas, Con
<1>3. /\ estado' = e2 /\ residentes' = residentes \ S
      /\ en_swap' = en_swap \ S
  BY DEF FinalizarProcesos, Libera, LiberarMemoria
<1>4. /\ Cola(queue_new, e2, "NEW") /\ Cola(queue_ready, e2, "READY")
      /\ Cola(queue_susp_ready, e2, "SUSP_READY")
  <2>1. \A p \in S : /\ estado[p] # "NEW" /\ estado[p] # "READY"
                     /\ estado[p] # "SUSP_READY"
    BY <1>2
  <2> QED
    BY <1>1, <2>1, ColaLibera DEF Procesos
<1>5. Ejecutan(unidades, e2)
  <2>1. \A p \in S : estado[p] # "EXEC"
    BY <1>2
  <2> QED
    BY <1>1, <2>1, EjecutanLibera DEF Procesos
<1>6. Residen(residentes \ S, en_swap \ S, e2)
  BY <1>1, <1>2 DEF Procesos, Residen, Con, Libera
<1>7. Cabe(residentes \ S)
  BY <1>1, CabenMenos DEF Procesos
<1>8. CambianBloqueados(estado, e2, S, {})
  BY <1>1, <1>2 DEF CambianBloqueados, Con, Libera
<1>9. Bloquean(esperando_io', ejecutando_io', e2)
  <2>1. Bloquean(esperando_io, ejecutando_io, estado)
    BY <1>1 DEF Procesos
  <2> HIDE DEF e2
  <2> QED
    BY <1>8, <2>1, BloqueanCambia
<1> HIDE DEF e2
<1> QED
  BY <1>1, <1>3, <1>4, <1>5, <1>6, <1>7, <1>9 DEF Procesos

LEMMA ProcesosFinalizarTodos ==
    ASSUME Todo, NEW n \in Nombre, FinalizarTodos(n),
           UNCHANGED <<colas, unidades>>
    PROVE  Procesos'
<1> DEFINE S == ToSet(esperando_io[n])
                \cup {e.pcb : e \in ToSet(ejecutando_io[n])}
<1>1. /\ Procesos /\ esperando_io \in [Nombre -> Seq(Pid)]
      /\ ejecutando_io \in [Nombre -> Seq(EnIo)]
  BY DEF Todo, TypeOK
<1>2. S = DeNombre(esperando_io, ejecutando_io, n)
  BY DEF DeNombre, Pcbs
<1>3. S \in SUBSET Pid
  BY <1>1, <1>2 DEF Procesos, Bloquean, Con
<1>4. FinalizarProcesos(S)
  BY DEF FinalizarTodos
<1> HIDE DEF S
<1>5. /\ \A m \in Nombre : m # n => /\ esperando_io'[m] = esperando_io[m]
                                    /\ ejecutando_io'[m] = ejecutando_io[m]
      /\ esperando_io'[n] = <<>> /\ ejecutando_io'[n] = <<>>
  BY <1>1 DEF FinalizarTodos
<1>6. /\ ToSet(<<>>) = {} /\ Pcbs(<<>>) = {} /\ Separados(<<>>, <<>>)
  <2>1. ToSet(<<>>) = {} /\ SinRepetidos(<<>>) /\ SinPcbRepetido(<<>>)
    BY DEF ToSet, SinRepetidos, SinPcbRepetido
  <2>2. Pcbs(<<>>) = {}
    BY <2>1 DEF Pcbs
  <2> QED
    BY <2>1, <2>2 DEF Separados
<1>7. CambianListas(esperando_io, ejecutando_io, esperando_io',
                    ejecutando_io', n, S, {})
  BY <1>2, <1>5, <1>6 DEF CambianListas, DeNombre
<1> QED
  BY <1>3, <1>4, <1>7, ProcesosFinalizarVarios

\* The list that FinalizarLosDe leaves is a sequence.
LEMMA QuedaLista ==
    ASSUME NEW t \in Seq(EnIo), NEW r \in BoundedSeq(ToSet(t), Len(t))
    PROVE  r \in Seq(EnIo) /\ Len(r) \in Nat /\ DOMAIN r = 1..Len(r)
<1>1. PICK m \in 0..Len(t) : r \in [1..m -> ToSet(t)]
  BY DEF BoundedSeq, SeqOf
<1>2. \A e \in ToSet(t) : e \in EnIo
  <2>1. \A k \in DOMAIN t : t[k] \in EnIo
    BY LenProperties, ElementOfSeq
  <2> QED
    BY <2>1 DEF ToSet
<1>3. m \in Nat /\ r \in [1..m -> EnIo]
  BY <1>1, <1>2, LenProperties
<1>4. r \in Seq(EnIo)
  BY <1>3, SeqDef
<1> QED
  BY <1>4, LenProperties

LEMMA ProcesosFinalizarLosDe ==
    ASSUME Todo, NEW d \in Dispositivo, FinalizarLosDe(d),
           UNCHANGED <<colas, unidades>>
    PROVE  Procesos'
<1> DEFINE n == NombreDe[d]
           s == esperando_io[n]
           t == ejecutando_io[n]
           A == Alcanzados(t, d)
           S == {t[k].pcb : k \in A}
<1>1. /\ Procesos /\ esperando_io \in [Nombre -> Seq(Pid)]
      /\ ejecutando_io \in [Nombre -> Seq(EnIo)] /\ n \in Nombre
      /\ t \in Seq(EnIo)
  BY KernelAssumption DEF Todo, TypeOK
<1>2. A \in SUBSET DOMAIN t
  BY DEF Alcanzados
<1>3. FinalizarProcesos(S)
  BY DEF FinalizarLosDe
<1>4. PICK r \in BoundedSeq(ToSet(t), Len(t)) :
         /\ SeQuedaCon(r, t, DOMAIN t \ A)
         /\ ejecutando_io' = [ejecutando_io EXCEPT ![n] = r]
  BY DEF FinalizarLosDe
<1>5. esperando_io' = esperando_io
  BY DEF FinalizarLosDe
<1>6. DOMAIN r = 1..Len(r)
  BY <1>1, QuedaLista
<1>7. S \subseteq DeNombre(esperando_io, ejecutando_io, n)
  BY <1>2 DEF DeNombre, Pcbs, ToSet
<1>8. Separados(s, t)
  BY <1>1 DEF Procesos, Bloquean
<1>9. /\ Separados(s, r)
      /\ ToSet(s) \cup Pcbs(r) = (ToSet(s) \cup Pcbs(t)) \ S
  <2> HIDE DEF t, s, A, n
  <2> QED
    BY <1>2, <1>4, <1>6, <1>8, SeparadosQueda DEF S
<1>10. S \in SUBSET Pid
  BY <1>1, <1>7 DEF Procesos, Bloquean, Con
<1>11. /\ \A m \in Nombre : m # n => /\ esperando_io'[m] = esperando_io[m]
                                     /\ ejecutando_io'[m] = ejecutando_io[m]
       /\ esperando_io'[n] = s /\ ejecutando_io'[n] = r
  BY <1>1, <1>4, <1>5
<1>12. CambianListas(esperando_io, ejecutando_io, esperando_io',
                     ejecutando_io', n, S, {})
  <2> HIDE DEF S
  <2> QED
    BY <1>7, <1>9, <1>11 DEF CambianListas, DeNombre
<1> HIDE DEF S, n
<1> QED
  BY <1>1, <1>3, <1>10, <1>12, ProcesosFinalizarVarios

LEMMA ProcesosDesconectarIo ==
    ASSUME Todo, NEW d \in Dispositivo, DesconectarIo(d)
    PROVE  Procesos'
<1>1. NombreDe[d] \in Nombre /\ UNCHANGED <<colas, unidades>>
  BY KernelAssumption DEF DesconectarIo, cpuVars
<1> QED
  BY <1>1, ProcesosFinalizarTodos, ProcesosFinalizarLosDe DEF DesconectarIo

-----------------------------------------------------------------------------
(* The suspension threads, and every step. *)

LEMMA ProcesosComprobarSuspendido ==
    ASSUME Todo, NEW p \in Pid, ComprobarSuspendido(p)
    PROVE  Procesos'
<1>1. /\ Procesos /\ estado \in [Pid -> Estados] /\ residentes \in SUBSET Pid
      /\ UNCHANGED <<queue_new, queue_ready, queue_susp_ready, unidades,
                     esperando_io, ejecutando_io>>
  BY DEF Todo, TypeOK, ComprobarSuspendido, colas, cpuVars, ioVars
<1>2. PICK q \in Apuntados(p) :
         IF estado[q] = "BLOCKED"
         THEN /\ residentes' = residentes \ {q}
              /\ en_swap' = en_swap \cup {q}
              /\ estado' = [estado EXCEPT ![q] = "SUSP_BLOCKED"]
         ELSE UNCHANGED <<residentes, en_swap, estado>>
  BY DEF ComprobarSuspendido
<1>3. q \in Pid
  BY DEF Apuntados
<1>4. CASE estado[q] = "BLOCKED"
  <2> DEFINE e2 == [estado EXCEPT ![q] = "SUSP_BLOCKED"]
  <2>1. /\ residentes' = residentes \ {q} /\ en_swap' = en_swap \cup {q}
        /\ estado' = e2
    BY <1>2, <1>4
  <2>2. /\ Cola(queue_new, e2, "NEW") /\ Cola(queue_ready, e2, "READY")
        /\ Cola(queue_susp_ready, e2, "SUSP_READY")
    BY <1>1, <1>3, <1>4, ColaAjena DEF Procesos
  <2>3. Ejecutan(unidades, e2)
    BY <1>1, <1>3, <1>4, EjecutanAjeno DEF Procesos
  <2>4. Bloquean(esperando_io, ejecutando_io, e2)
    <3>1. Con(e2, {"BLOCKED", "SUSP_BLOCKED"})
             = Con(estado, {"BLOCKED", "SUSP_BLOCKED"})
      BY <1>1, <1>3, <1>4 DEF Con
    <3> QED
      BY <1>1, <3>1, BloqueanIgual DEF Procesos
  <2>5. Residen(residentes \ {q}, en_swap \cup {q}, e2)
    BY <1>1, <1>3, <1>4 DEF Procesos, Residen, Con
  <2>6. Cabe(residentes \ {q})
    BY <1>1, CabenMenos DEF Procesos
  <2> QED
    BY <1>1, <2>1, <2>2, <2>3, <2>4, <2>5, <2>6 DEF Procesos
<1>5. CASE estado[q] # "BLOCKED"
  BY <1>1, <1>2, <1>5 DEF Procesos
<1> QED
  BY <1>4, <1>5

LEMMA ProcesosPaso ==
    ASSUME Todo, [Next]_vars
    PROVE  Procesos'
<1>1. CASE Planificadores
  BY <1>1, ProcesosIgual, ProcesosPlanificarCorto, ProcesosPlanificarLargo
     DEF Planificadores, EsperarProcesoReady, EsperarCpuLibre,
         EsperarNuevoProceso, EsperarEspacioMemoria, Todo, cpuVars, ioVars
<1>2. ASSUME NEW c \in Cpu, IdentificarCpu(c) PROVE Procesos'
  BY <1>2, ProcesosIgual DEF IdentificarCpu, Todo, cpuVars, ioVars
<1>3. ASSUME NEW d \in Dispositivo, IdentificarIo(d) PROVE Procesos'
  BY <1>3, ProcesosIgual DEF IdentificarIo, Todo, cpuVars
<1>4. CASE UNCHANGED vars
  BY <1>4, ProcesosIgual DEF vars, Todo, cpuVars, ioVars
<1> QED
  BY <1>1, <1>2, <1>3, <1>4, ProcesosMensaje, ProcesosRevisarCola,
     ProcesosFinalizacionIo, ProcesosDesconectarIo,
     ProcesosComprobarSuspendido
     DEF Next

LEMMA TodoSiempre == Spec => []Todo
<1>1. Init => Todo
  BY KernelAssumption, TipoInit, FichasInit, ProcesosInit DEF Todo
<1>2. Todo /\ [Next]_vars => Todo'
  BY KernelAssumption, TipoPaso, FichasPaso, ProcesosPaso DEF Todo
<1> QED
  BY <1>1, <1>2, PTL DEF Spec

-----------------------------------------------------------------------------
(* What the run kernel_fifo checks of a small instance. *)

\* The three queues hold exactly the processes in their state, each once,
\* whatever the planners, the CPUs and the devices do, in any order
\* (poner_en_ready, crear_proceso, escuchar_socket_io).
THEOREM ColasSegunEstado == Spec => []ColasYEstado
<1>1. Todo => ColasYEstado
  BY DEF Todo, Procesos, ColasYEstado, Cola, Con, ConEstado
<1> QED
  BY <1>1, TodoSiempre, PTL

\* A process is in EXEC iff one CPU, and only one, runs it, and that CPU is
\* not free (poner_en_ejecucion, sacar_proceso_ejecucion, liberar_cpu).
THEOREM UnidadesSegunEstado == Spec => []UnidadesYEstado
<1>1. Todo => UnidadesYEstado
  BY DEF Todo, Procesos, Fichas, UnidadesYEstado, Ejecutan, Con, ConEstado
<1> QED
  BY <1>1, TodoSiempre, PTL

\* memoria holds in frames the processes that are ready, running or blocked
\* and in swap the suspended ones, and they fit in its frames
\* (espacio_en_memoria, vuelta_swap, comprobar_suspendido, finalizar_proceso).
THEOREM ResidenciaSegunEstado == Spec => []ResidenciaYEstado
<1>1. Todo => ResidenciaYEstado
  BY DEF Todo, Procesos, ResidenciaYEstado, Residen, Con, ConEstado, Cabe
<1> QED
  BY <1>1, TodoSiempre, PTL

\* The processes of a list of a device, in their order.
LEMMA ListaDePcbs ==
    ASSUME NEW t \in Seq(EnIo), SinPcbRepetido(t)
    PROVE  LET u == [k \in DOMAIN t |-> t[k].pcb]
           IN  u \in Seq(Pid) /\ ToSet(u) = Pcbs(t) /\ SinRepetidos(u)
<1> DEFINE u == [k \in DOMAIN t |-> t[k].pcb]
<1>1. Len(t) \in Nat /\ DOMAIN t = 1..Len(t)
  BY LenProperties
<1>2. \A k \in DOMAIN t : t[k].pcb \in Pid
  <2>1. \A k \in DOMAIN t : t[k] \in EnIo
    BY <1>1, ElementOfSeq
  <2> QED
    BY <2>1 DEF EnIo
<1>3. u \in [1..Len(t) -> Pid]
  BY <1>1, <1>2
<1>4. u \in Seq(Pid)
  BY <1>1, <1>3, SeqDef
<1>5. DOMAIN u = DOMAIN t /\ \A k \in DOMAIN t : u[k] = t[k].pcb
  OBVIOUS
<1> HIDE DEF u
<1>6. ToSet(u) = Pcbs(t) /\ SinRepetidos(u)
  BY <1>5 DEF ToSet, Pcbs, SinPcbRepetido, SinRepetidos
<1> QED
  BY <1>4, <1>6 DEF u

LEMMA ListaConcat ==
    ASSUME NEW s \in Seq(Pid), NEW u \in Seq(Pid), SinRepetidos(s),
           SinRepetidos(u), ToSet(s) \cap ToSet(u) = {}
    PROVE  ToSet(s \o u) = ToSet(s) \cup ToSet(u) /\ SinRepetidos(s \o u)
<1>1. /\ Len(s) \in Nat /\ Len(u) \in Nat
      /\ DOMAIN s = 1..Len(s) /\ DOMAIN u = 1..Len(u)
      /\ DOMAIN (s \o u) = 1..(Len(s) + Len(u))
      /\ \A i \in 1..(Len(s) + Len(u)) :
            (s \o u)[i] = IF i <= Len(s) THEN s[i] ELSE u[i - Len(s)]
  BY LenProperties, ConcatProperties
<1>2. \A i \in DOMAIN (s \o u) :
         \/ i \in DOMAIN s /\ (s \o u)[i] = s[i]
         \/ i - Len(s) \in DOMAIN u /\ (s \o u)[i] = u[i - Len(s)]
  BY <1>1
<1>3. \A i \in DOMAIN s : i \in DOMAIN (s \o u) /\ (s \o u)[i] = s[i]
  BY <1>1
<1>4. \A i \in DOMAIN u : /\ i + Len(s) \in DOMAIN (s \o u)
                          /\ (s \o u)[i + Len(s)] = u[i]
  <2>1. \A i \in DOMAIN u : /\ i + Len(s) \in 1..(Len(s) + Len(u))
                            /\ ~(i + Len(s) <= Len(s))
                            /\ (i + Len(s)) - Len(s) = i
    BY <1>1
  <2> QED
    BY <1>1, <2>1
<1>5. ToSet(s \o u) = ToSet(s) \cup ToSet(u)
  <2>1. ToSet(s \o u) \subseteq ToSet(s) \cup ToSet(u)
    BY <1>2 DEF ToSet
  <2>2. ToSet(s) \subseteq ToSet(s \o u)
    BY <1>3 DEF ToSet
  <2>3. ToSet(u) \subseteq ToSet(s \o u)
    BY <1>4 DEF ToSet
  <2> QED
    BY <2>1, <2>2, <2>3
<1>6. SinRepetidos(s \o u)
  <2> SUFFICES ASSUME NEW i \in DOMAIN (s \o u), NEW j \in DOMAIN (s \o u),
                      i # j, (s \o u)[i] = (s \o u)[j]
               PROVE  FALSE
    BY DEF SinRepetidos
  <2>1. i \in Int /\ j \in Int
    BY <1>1
  <2>2. \A k \in DOMAIN s : s[k] \in ToSet(s)
    BY DEF ToSet
  <2>3. \A k \in DOMAIN u : u[k] \in ToSet(u)
    BY DEF ToSet
  <2>4. i \in DOMAIN s /\ j \in DOMAIN s => FALSE
    BY <1>3 DEF SinRepetidos
  <2>5. i - Len(s) # j - Len(s)
    BY <1>1, <2>1
  <2> QED
    BY <1>2, <2>2, <2>3, <2>4, <2>5 DEF SinRepetidos
<1> QED
  BY <1>5, <1>6

\* The processes blocked, suspended or not, are those in the queues of the
\* devices, each once and under one name, whatever device connects, answers
\* or is lost (the DISPATCH handler of IO, escuchar_socket_io).
THEOREM BloqueadosSegunEstado == Spec => []BloqueadosYEstado
<1>1. Todo => BloqueadosYEstado
  <2> SUFFICES ASSUME Todo PROVE BloqueadosYEstado
    OBVIOUS
  <2>1. /\ esperando_io \in [Nombre -> Seq(Pid)]
        /\ ejecutando_io \in [Nombre -> Seq(EnIo)]
        /\ Bloquean(esperando_io, ejecutando_io, estado)
    BY DEF Todo, TypeOK, Procesos
  <2>2. ASSUME NEW n \in Nombre
        PROVE  /\ ToSet(EnNombre(n)) = DeNombre(esperando_io, ejecutando_io, n)
               /\ SinRepetidos(EnNombre(n))
    <3> DEFINE s == esperando_io[n]
               t == ejecutando_io[n]
               u == [k \in DOMAIN t |-> t[k].pcb]
    <3>1. s \in Seq(Pid) /\ t \in Seq(EnIo) /\ Separados(s, t)
      BY <2>1 DEF Bloquean
    <3>2. u \in Seq(Pid) /\ ToSet(u) = Pcbs(t) /\ SinRepetidos(u)
      BY <3>1, ListaDePcbs DEF Separados
    <3>3. EnNombre(n) = s \o u
      BY DEF EnNombre
    <3>4. DeNombre(esperando_io, ejecutando_io, n) = ToSet(s) \cup Pcbs(t)
      BY DEF DeNombre
    <3> HIDE DEF s, t, u
    <3> QED
      BY <3>1, <3>2, <3>3, <3>4, ListaConcat DEF Separados
  <2>3. UNION {ToSet(EnNombre(n)) : n \in Nombre}
           = ConEstado({"BLOCKED", "SUSP_BLOCKED"})
    <3>1. UNION {ToSet(EnNombre(n)) : n \in Nombre}
             = UNION {DeNombre(esperando_io, ejecutando_io, n) : n \in Nombre}
      BY <2>2
    <3> QED
      BY <2>1, <3>1 DEF Bloquean, Con, ConEstado
  <2>4. \A m, n \in Nombre :
           m # n => ToSet(EnNombre(m)) \cap ToSet(EnNombre(n)) = {}
    BY <2>1, <2>2 DEF Bloquean
  <2> QED
    BY <2>2, <2>3, <2>4 DEF BloqueadosYEstado
<1> QED
  BY <1>1, TodoSiempre, PTL

-----------------------------------------------------------------------------
(* The devices and who they serve.  This holds while no IO module connects *)
(* late: a module that connects with processes waiting takes the first of  *)
(* them and stays listed as free, which happens in the instance of the run *)
(* kernel_tarde.                                                           *)

NadieTarde == identificando = {}

\* The entries of d in list t.
Suyos(t, d) == {x \in ToSet(t) : x.dispositivo = d}

\* Device d is free and serves nobody, or serves the one process it was sent.
Sirve(d, ls, ped, r) ==
    IF d \in ls
    THEN ped[d] = <<>> /\ Suyos(r[NombreDe[d]], d) = {}
    ELSE /\ Len(ped[d]) = 1
         /\ Suyos(r[NombreDe[d]], d)
               = {[pcb |-> Head(ped[d]), dispositivo |-> d]}

\* Nobody waits for a name without devices, or with a free one.
Espera(ds, ls, w) ==
    \A n \in Nombre : w[n] # <<>> =>
       /\ \E d \in ds : NombreDe[d] = n
       /\ \A d \in ds : NombreDe[d] = n => d \notin ls

Servicio ==
    /\ \A d \in dispositivos : Sirve(d, disp_libres, pedidos, ejecutando_io)
    /\ Espera(dispositivos, disp_libres, esperando_io)

LEMMA ServicioDice ==
    Servicio /\ TypeOK => DispositivoExclusivo /\ EsperaJustificada
BY DEF Servicio, Sirve, Suyos, Espera, DispositivoExclusivo,
       EsperaJustificada, DispositivosDe, TypeOK

\* An entry of another device joins or leaves the list: d does not notice.
LEMMA SuyosAppend ==
    ASSUME NEW t \in Seq(EnIo), NEW p \in Pid, NEW d \in Dispositivo, NEW c
    PROVE  Suyos(Append(t, [pcb |-> p, dispositivo |-> d]), c)
              = Suyos(t, c) \cup (IF c = d THEN {[pcb |-> p, dispositivo |-> d]}
                                  ELSE {})
<1> DEFINE x == [pcb |-> p, dispositivo |-> d]
<1>1. x \in EnIo /\ x.dispositivo = d
  BY DEF EnIo
<1> HIDE DEF x
<1>2. ToSet(Append(t, x)) = ToSet(t) \cup {x}
  BY <1>1, ListaAppend
<1>3. Suyos(Append(t, x), c) = Suyos(t, c) \cup (IF c = d THEN {x} ELSE {})
  BY <1>1, <1>2 DEF Suyos
<1> QED
  BY <1>3 DEF x

LEMMA SuyosRemoveAt ==
    ASSUME NEW t \in Seq(EnIo), NEW k \in DOMAIN t, SinPcbRepetido(t), NEW c
    PROVE  Suyos(RemoveAt(t, k), c) = Suyos(t, c) \ {t[k]}
<1> DEFINE u == RemoveAt(t, k)
<1>1. \A j \in DOMAIN u : \E i \in DOMAIN t : i # k /\ u[j] = t[i]
  BY ListaRemoveAt
<1>2. \A i \in DOMAIN t : i # k => \E j \in DOMAIN u : u[j] = t[i]
  BY ListaRemoveAt
<1> HIDE DEF u
<1>3. ToSet(u) \subseteq ToSet(t) \ {t[k]}
  BY <1>1 DEF ToSet, SinPcbRepetido
<1>4. ToSet(t) \ {t[k]} \subseteq ToSet(u)
  <2>1. ASSUME NEW i \in DOMAIN t, t[i] # t[k] PROVE t[i] \in ToSet(u)
    <3>1. PICK j \in DOMAIN u : u[j] = t[i]
      BY <2>1, <1>2
    <3> QED
      BY <3>1 DEF ToSet
  <2> QED
    BY <2>1 DEF ToSet
<1>5. ToSet(u) = ToSet(t) \ {t[k]}
  BY <1>3, <1>4
<1> QED
  BY <1>5 DEF Suyos, u

\* The handler that a lost device d leaves: only entries of d go.
Perdio(t, d, r) == /\ DOMAIN r = 1..Len(r)
                   /\ SeQuedaCon(r, t, DOMAIN t \ Alcanzados(t, d))

IgualParaOtros(t, d, r) == \A c : c # d => Suyos(r, c) = Suyos(t, c)

LEMMA SuyosQueda ==
    ASSUME NEW t \in Seq(EnIo), NEW d, NEW r, Perdio(t, d, r)
    PROVE  IgualParaOtros(t, d, r)
<1> SUFFICES ASSUME NEW c, c # d PROVE Suyos(r, c) = Suyos(t, c)
  BY DEF IgualParaOtros
<1> DEFINE A == Alcanzados(t, d)
<1>1. PICK f \in [DOMAIN r -> DOMAIN t] :
         /\ Range(f) = DOMAIN t \ A
         /\ \A i \in DOMAIN r : r[i] = t[f[i]]
  BY DEF SeQuedaCon, Perdio
<1>2. \A j \in DOMAIN r : f[j] \in DOMAIN t /\ r[j] = t[f[j]]
  BY <1>1
<1>3. \A i \in DOMAIN t \ A : \E j \in DOMAIN r : r[j] = t[i]
  BY <1>1 DEF Range
<1>4. \A k \in A : t[k].dispositivo = d
  <2> SUFFICES ASSUME NEW k \in A PROVE t[k].dispositivo = d
    OBVIOUS
  <2>1. k \in DOMAIN t /\ Alcanza(t, d, k)
    BY DEF Alcanzados
  <2>2. k \in Int
    BY <2>1, LenProperties
  <2>3. PICK j \in 1..k : \A i \in j..k : t[i].dispositivo = d
    BY <2>1 DEF Alcanza
  <2> QED
    BY <2>2, <2>3
<1> HIDE DEF A
<1>5. Suyos(r, c) \subseteq Suyos(t, c)
  BY <1>2 DEF Suyos, ToSet
<1>6. ASSUME NEW i \in DOMAIN t, t[i].dispositivo = c
      PROVE  t[i] \in Suyos(r, c)
  <2>1. i \notin A
    BY <1>4, <1>6
  <2>2. PICK j \in DOMAIN r : r[j] = t[i]
    BY <2>1, <1>3
  <2> QED
    BY <2>2, <1>6 DEF Suyos, ToSet
<1>7. Suyos(t, c) \subseteq Suyos(r, c)
  BY <1>6 DEF Suyos, ToSet
<1> QED
  BY <1>5, <1>7

\* The other devices serve whom they served.
MismosAjenos(d, r, r2) ==
    \A c \in Dispositivo :
       c # d => Suyos(r2[NombreDe[c]], c) = Suyos(r[NombreDe[c]], c)

Ajenos(d, ls, ped, r, ls2, ped2, r2) ==
    /\ \A c \in Dispositivo : c # d => /\ (c \in ls2) <=> (c \in ls)
                                     /\ ped2[c] = ped[c]
    /\ MismosAjenos(d, r, r2)

LEMMA SirvenAjenos ==
    ASSUME NEW d, NEW ls, NEW ped, NEW r, NEW ls2, NEW ped2, NEW r2,
           Ajenos(d, ls, ped, r, ls2, ped2, r2),
           NEW c \in Dispositivo, c # d, Sirve(c, ls, ped, r)
    PROVE  Sirve(c, ls2, ped2, r2)
BY DEF Ajenos, MismosAjenos, Sirve

\* The list of d's name becomes t and the request p to d.
Agrega(r, r2, d, t, p) ==
    r2 = [r EXCEPT ![NombreDe[d]] = Append(t, [pcb |-> p, dispositivo |-> d])]

\* List t differs from that of d's name in entries of d alone.
Parecida(d, r, t) ==
    \A c \in Dispositivo : c # d => Suyos(t, c) = Suyos(r[NombreDe[d]], c)

LEMMA AjenosLista ==
    ASSUME NEW d \in Dispositivo, NEW r, r \in [Nombre -> Seq(EnIo)], NEW r2,
           NEW t, r2 = [r EXCEPT ![NombreDe[d]] = t], Parecida(d, r, t)
    PROVE  MismosAjenos(d, r, r2)
<1> SUFFICES ASSUME NEW c \in Dispositivo, c # d
             PROVE  Suyos(r2[NombreDe[c]], c) = Suyos(r[NombreDe[c]], c)
  BY DEF MismosAjenos
<1> DEFINE n == NombreDe[d]
           m == NombreDe[c]
<1>1. n \in Nombre /\ m \in Nombre /\ r2 = [r EXCEPT ![n] = t]
  BY KernelAssumption
<1>2. Suyos(t, c) = Suyos(r[n], c)
  BY DEF Parecida
<1>3. CASE m = n
  BY <1>1, <1>2, <1>3
<1>4. CASE m # n
  BY <1>1, <1>4
<1> QED
  BY <1>3, <1>4

LEMMA AjenosAppend ==
    ASSUME NEW d \in Dispositivo, NEW p \in Pid, NEW r,
           r \in [Nombre -> Seq(EnIo)], NEW r2, NEW t \in Seq(EnIo),
           Agrega(r, r2, d, t, p), Parecida(d, r, t)
    PROVE  MismosAjenos(d, r, r2)
<1> DEFINE x == [pcb |-> p, dispositivo |-> d]
<1>1. r2 = [r EXCEPT ![NombreDe[d]] = Append(t, x)]
  BY DEF Agrega
<1>2. ASSUME NEW c \in Dispositivo, c # d
      PROVE  Suyos(Append(t, x), c) = Suyos(r[NombreDe[d]], c)
  <2>1. Suyos(Append(t, x), c)
           = Suyos(t, c) \cup (IF c = d THEN {x} ELSE {})
    BY SuyosAppend
  <2>2. Suyos(t, c) = Suyos(r[NombreDe[d]], c)
    BY <1>2 DEF Parecida
  <2> HIDE DEF x
  <2> QED
    BY <1>2, <2>1, <2>2
<1> HIDE DEF x
<1>3. Parecida(d, r, Append(t, x))
  BY <1>2 DEF Parecida
<1> QED
  BY <1>1, <1>3, AjenosLista

\* A list with one request.
LEMMA ListaDeUno ==
    /\ \A p : Len(Append(<<>>, p)) = 1 /\ Head(Append(<<>>, p)) = p
    /\ \A s \in Seq(Pid) : Len(s) = 1 => Tail(s) = <<>>
<1>1. ASSUME NEW p PROVE Len(Append(<<>>, p)) = 1 /\ Head(Append(<<>>, p)) = p
  OBVIOUS
<1>2. ASSUME NEW s \in Seq(Pid), Len(s) = 1 PROVE Tail(s) = <<>>
  <2>1. s # <<>>
    BY <1>2, EmptySeq
  <2>2. Tail(s) \in Seq(Pid) /\ Len(Tail(s)) = 0
    BY <1>2, <2>1, HeadTailProperties
  <2> QED
    BY <2>2, EmptySeq
<1> QED
  BY <1>1, <1>2

LEMMA ServicioIgual ==
    ASSUME Servicio,
           UNCHANGED <<dispositivos, disp_libres, pedidos, ejecutando_io,
                       esperando_io>>
    PROVE  Servicio'
BY DEF Servicio, Sirve, Espera

\* Device d, the only one that changes, serves again or is lost.
LEMMA ServicioCambia ==
    ASSUME Servicio, TypeOK, NEW d \in Dispositivo,
           Ajenos(d, disp_libres, pedidos, ejecutando_io, disp_libres',
                  pedidos', ejecutando_io'),
           dispositivos' \subseteq dispositivos,
           d \in dispositivos' => Sirve(d, disp_libres', pedidos',
                                        ejecutando_io'),
           Espera(dispositivos', disp_libres', esperando_io')
    PROVE  Servicio'
<1>1. ASSUME NEW c \in dispositivos', c # d
      PROVE  Sirve(c, disp_libres', pedidos', ejecutando_io')
  <2>1. c \in Dispositivo /\ Sirve(c, disp_libres, pedidos, ejecutando_io)
    BY DEF Servicio, TypeOK
  <2> QED
    BY <1>1, <2>1, SirvenAjenos
<1>2. \A c \in dispositivos' :
         Sirve(c, disp_libres', pedidos', ejecutando_io')
  BY <1>1
<1> QED
  BY <1>2 DEF Servicio

LEMMA ServicioCausaIo ==
    ASSUME Todo, Servicio, NEW c \in Cpu, NEW p \in Pid, NEW n \in Nombre,
           CausaIo(c, p, n)
    PROVE  Servicio'
<1>1. /\ TypeOK /\ esperando_io \in [Nombre -> Seq(Pid)]
      /\ ejecutando_io \in [Nombre -> Seq(EnIo)]
      /\ pedidos \in [Dispositivo -> Seq(Pid)]
      /\ dispositivos' = dispositivos
  BY DEF Todo, TypeOK, CausaIo
<1>2. CASE DispositivosDe(n) = {}
  BY <1>1, <1>2, ServicioIgual DEF CausaIo
<1>3. CASE DispositivosDe(n) # {} /\ DispositivosDe(n) \cap disp_libres = {}
  <2>1. /\ UNCHANGED <<disp_libres, ejecutando_io, pedidos>>
        /\ \A m \in Nombre : m # n => esperando_io'[m] = esperando_io[m]
    BY <1>1, <1>3 DEF CausaIo, IoEsperar
  <2>2. Espera(dispositivos', disp_libres', esperando_io')
    BY <1>1, <1>3, <2>1 DEF Espera, Servicio, DispositivosDe
  <2> QED
    BY <1>1, <2>1, <2>2 DEF Servicio, Sirve
<1>4. ASSUME NEW d \in DispositivosDe(n) \cap disp_libres,
             IoDispositivoLibre(p, d)
      PROVE  Servicio'
  <2> DEFINE x == [pcb |-> p, dispositivo |-> d]
             t == ejecutando_io[n]
  <2>1. d \in dispositivos /\ d \in disp_libres /\ NombreDe[d] = n
        /\ d \in Dispositivo /\ t \in Seq(EnIo)
    BY <1>1 DEF DispositivosDe, TypeOK
  <2>2. pedidos[d] = <<>> /\ Suyos(t, d) = {}
    BY <2>1 DEF Servicio, Sirve
  <2>3. /\ ejecutando_io' = [ejecutando_io EXCEPT ![n] = Append(t, x)]
        /\ pedidos' = [pedidos EXCEPT ![d] = Append(pedidos[d], p)]
        /\ disp_libres' = disp_libres \ {d}
        /\ esperando_io' = esperando_io
    BY <1>4, <2>1 DEF IoDispositivoLibre
  <2>4. Ajenos(d, disp_libres, pedidos, ejecutando_io, disp_libres',
               pedidos', ejecutando_io')
    <3>1. MismosAjenos(d, ejecutando_io, ejecutando_io')
      <4>1. Parecida(d, ejecutando_io, t)
        BY <2>1 DEF Parecida
      <4>2. Agrega(ejecutando_io, ejecutando_io', d, t, p)
        BY <2>1, <2>3 DEF Agrega
      <4> HIDE DEF t
      <4> QED
        BY <1>1, <2>1, <4>1, <4>2, AjenosAppend
    <3>2. ASSUME NEW e \in Dispositivo, e # d
          PROVE  pedidos'[e] = pedidos[e]
                 /\ (e \in disp_libres' <=> e \in disp_libres)
      BY <1>1, <2>3, <3>2
    <3> QED
      BY <3>1, <3>2 DEF Ajenos
  <2>5. Sirve(d, disp_libres', pedidos', ejecutando_io')
    <3>1. pedidos'[d] = Append(<<>>, p) /\ d \notin disp_libres'
      BY <1>1, <2>1, <2>2, <2>3
    <3>2. ejecutando_io'[NombreDe[d]] = Append(t, x)
      BY <1>1, <2>1, <2>3
    <3>3. Suyos(Append(t, x), d) = Suyos(t, d) \cup (IF d = d THEN {x} ELSE {})
      <4> HIDE DEF t
      <4> QED
        BY <2>1, SuyosAppend
    <3>4. Suyos(Append(t, x), d) = {x}
      BY <2>2, <3>3
    <3>5. Len(pedidos'[d]) = 1 /\ Head(pedidos'[d]) = p
      BY <3>1, ListaDeUno
    <3> HIDE DEF t
    <3> QED
      BY <3>1, <3>2, <3>4, <3>5 DEF Sirve
  <2>6. Espera(dispositivos', disp_libres', esperando_io')
    BY <1>1, <2>3 DEF Servicio, Espera
  <2> HIDE DEF x, t
  <2> QED
    BY <1>1, <2>1, <2>4, <2>5, <2>6, ServicioCambia
<1> QED
  BY <1>2, <1>3, <1>4 DEF CausaIo

\* A device that ended looks at who waits for its name.
LEMMA ServicioComprobarCola ==
    ASSUME Todo, Servicio, NEW d \in dispositivos, d \notin disp_libres,
           NEW n \in Nombre, NombreDe[d] = n, NEW t \in Seq(EnIo),
           Suyos(t, d) = {},
           \A c \in Dispositivo : c # d =>
              Suyos(t, c) = Suyos(ejecutando_io[n], c),
           ComprobarColaBloqueados(d, t, <<>>), UNCHANGED dispositivos
    PROVE  Servicio'
<1>1. /\ TypeOK /\ esperando_io \in [Nombre -> Seq(Pid)]
      /\ ejecutando_io \in [Nombre -> Seq(EnIo)]
      /\ pedidos \in [Dispositivo -> Seq(Pid)] /\ d \in Dispositivo
      /\ NombreDe \in [Dispositivo -> Nombre]
  BY KernelAssumption DEF Todo, TypeOK
<1>2. CASE esperando_io[n] # <<>>
  <2> DEFINE p == Head(esperando_io[n])
             x == [pcb |-> p, dispositivo |-> d]
  <2>1. p \in Pid
    BY <1>1, <1>2, HeadTailProperties
  <2>2. /\ esperando_io' = [esperando_io EXCEPT ![n] = Tail(esperando_io[n])]
        /\ ejecutando_io' = [ejecutando_io EXCEPT ![n] = Append(t, x)]
        /\ pedidos' = [pedidos EXCEPT ![d] = Append(<<>>, p)]
        /\ disp_libres' = disp_libres
    BY <1>2 DEF ComprobarColaBloqueados
  <2>3. Ajenos(d, disp_libres, pedidos, ejecutando_io, disp_libres',
               pedidos', ejecutando_io')
    <3>1. MismosAjenos(d, ejecutando_io, ejecutando_io')
      <4>1. Parecida(d, ejecutando_io, t)
        BY DEF Parecida
      <4>2. Agrega(ejecutando_io, ejecutando_io', d, t, p)
        BY <2>2 DEF Agrega
      <4> HIDE DEF p
      <4> QED
        BY <1>1, <2>1, <4>1, <4>2, AjenosAppend
    <3>2. ASSUME NEW e \in Dispositivo, e # d
          PROVE  pedidos'[e] = pedidos[e]
      BY <1>1, <2>2, <3>2
    <3> QED
      BY <2>2, <3>1, <3>2 DEF Ajenos
  <2>4. Sirve(d, disp_libres', pedidos', ejecutando_io')
    <3> HIDE DEF p
    <3>1. pedidos'[d] = Append(<<>>, p) /\ d \notin disp_libres'
      BY <1>1, <2>2
    <3>2. ejecutando_io'[NombreDe[d]] = Append(t, x)
      BY <1>1, <2>2
    <3>3. Suyos(Append(t, x), d) = Suyos(t, d) \cup (IF d = d THEN {x} ELSE {})
      BY <1>1, <2>1, SuyosAppend
    <3>4. Suyos(Append(t, x), d) = {x}
      BY <3>3
    <3>5. Len(pedidos'[d]) = 1 /\ Head(pedidos'[d]) = p
      BY <3>1, ListaDeUno
    <3> QED
      BY <3>1, <3>2, <3>4, <3>5 DEF Sirve
  <2>5. Espera(dispositivos', disp_libres', esperando_io')
    <3>1. \A m \in Nombre : esperando_io'[m] # <<>> => esperando_io[m] # <<>>
      BY <1>1, <1>2, <2>2
    <3> QED
      BY <2>2, <3>1 DEF Servicio, Espera
  <2> HIDE DEF p, x
  <2> QED
    BY <1>1, <2>3, <2>4, <2>5, ServicioCambia
<1>3. CASE esperando_io[n] = <<>>
  <2>1. /\ disp_libres' = disp_libres \cup {d}
        /\ ejecutando_io' = [ejecutando_io EXCEPT ![n] = t]
        /\ pedidos' = [pedidos EXCEPT ![d] = <<>>]
        /\ esperando_io' = esperando_io
    BY <1>3 DEF ComprobarColaBloqueados
  <2>2. Ajenos(d, disp_libres, pedidos, ejecutando_io, disp_libres',
               pedidos', ejecutando_io')
    <3>1. MismosAjenos(d, ejecutando_io, ejecutando_io')
      <4>1. Parecida(d, ejecutando_io, t)
        BY DEF Parecida
      <4>2. ejecutando_io' = [ejecutando_io EXCEPT ![NombreDe[d]] = t]
        BY <2>1
      <4> QED
        BY <1>1, <4>1, <4>2, AjenosLista
    <3>2. ASSUME NEW e \in Dispositivo, e # d
          PROVE  pedidos'[e] = pedidos[e]
                 /\ (e \in disp_libres' <=> e \in disp_libres)
      BY <1>1, <2>1, <3>2
    <3> QED
      BY <3>1, <3>2 DEF Ajenos
  <2>3. Sirve(d, disp_libres', pedidos', ejecutando_io')
    BY <1>1, <2>1 DEF Sirve
  <2>4. Espera(dispositivos', disp_libres', esperando_io')
    BY <1>3, <2>1 DEF Servicio, Espera
  <2> QED
    BY <1>1, <2>2, <2>3, <2>4, ServicioCambia
<1> QED
  BY <1>2, <1>3

LEMMA ServicioFinalizacionIo ==
    ASSUME Todo, Servicio, NEW d \in Dispositivo, FinalizacionIo(d)
    PROVE  Servicio'
<1> DEFINE n == NombreDe[d]
           p == Head(pedidos[d])
           t == ejecutando_io[n]
           ks == EntradasDe(n, p)
           x == [pcb |-> p, dispositivo |-> d]
<1>1. /\ d \in dispositivos /\ pedidos[d] # <<>> /\ n \in Nombre
      /\ t \in Seq(EnIo) /\ pedidos[d] \in Seq(Pid)
      /\ dispositivos' = dispositivos
  BY KernelAssumption DEF Todo, TypeOK, FinalizacionIo
<1>2. d \notin disp_libres /\ Len(pedidos[d]) = 1 /\ Suyos(t, d) = {x}
  BY <1>1 DEF Servicio, Sirve
<1>3. SinPcbRepetido(t)
  BY <1>1 DEF Todo, Procesos, Bloquean, Separados
<1>4. PICK i \in DOMAIN t : t[i] = x
  BY <1>2 DEF Suyos, ToSet
<1>5. t[i].pcb = p /\ t[i].dispositivo = d
  BY <1>4
<1>6. ks = {i}
  BY <1>3, <1>5 DEF EntradasDe, SinPcbRepetido
<1>7. ComprobarColaBloqueados(d, RemoveAt(t, i), Tail(pedidos[d]))
  BY <1>6 DEF FinalizacionIo
<1>8. ComprobarColaBloqueados(d, RemoveAt(t, i), <<>>)
  BY <1>1, <1>2, <1>7, ListaDeUno
<1> DEFINE u == RemoveAt(t, i)
<1>9. u \in Seq(EnIo) /\ \A c : Suyos(u, c) = Suyos(t, c) \ {x}
  <2>1. \A c : Suyos(u, c) = Suyos(t, c) \ {t[i]}
    BY <1>1, <1>3, SuyosRemoveAt
  <2> QED
    BY <1>1, <1>4, <2>1, RemoveAtProps
<1>10. Suyos(u, d) = {}
  BY <1>2, <1>9
<1>11. \A c \in Dispositivo : c # d => Suyos(u, c) = Suyos(ejecutando_io[n], c)
  <2>1. \A c \in Dispositivo : c # d => x \notin Suyos(t, c)
    BY DEF Suyos
  <2> QED
    BY <1>9, <2>1
<1>12. NombreDe[d] = n /\ ComprobarColaBloqueados(d, u, <<>>)
  BY <1>8
<1> HIDE DEF n, p, t, u, x, ks
<1> QED
  BY <1>1, <1>2, <1>9, <1>10, <1>11, <1>12, ServicioComprobarCola

LEMMA ServicioDesconectarIo ==
    ASSUME Todo, Servicio, NEW d \in Dispositivo, DesconectarIo(d)
    PROVE  Servicio'
<1> DEFINE n == NombreDe[d]
           t == ejecutando_io[n]
<1>1. /\ TypeOK /\ esperando_io \in [Nombre -> Seq(Pid)]
      /\ ejecutando_io \in [Nombre -> Seq(EnIo)]
      /\ pedidos \in [Dispositivo -> Seq(Pid)]
      /\ dispositivos \subseteq Dispositivo
      /\ NombreDe \in [Dispositivo -> Nombre] /\ n \in Nombre
  BY KernelAssumption DEF Todo, TypeOK
<1>2. /\ dispositivos' = dispositivos \ {d} /\ d \in dispositivos
      /\ disp_libres' = disp_libres \ {d}
      /\ pedidos' = [pedidos EXCEPT ![d] = <<>>]
  BY DEF DesconectarIo
<1>3. \A c \in Dispositivo :
         c # d => /\ (c \in disp_libres') <=> (c \in disp_libres)
                  /\ pedidos'[c] = pedidos[c]
  BY <1>1, <1>2
<1>4. CASE DispositivosDe(n) = {d}
  <2>1. /\ esperando_io' = [esperando_io EXCEPT ![n] = <<>>]
        /\ ejecutando_io' = [ejecutando_io EXCEPT ![n] = <<>>]
    BY <1>4 DEF DesconectarIo, FinalizarTodos
  <2>2. \A c \in dispositivos' : c \in dispositivos /\ c # d /\ NombreDe[c] # n
    BY <1>2, <1>4 DEF DispositivosDe
  <2>3. ASSUME NEW c \in dispositivos'
        PROVE  Sirve(c, disp_libres', pedidos', ejecutando_io')
    <3>1. /\ c \in Dispositivo /\ c # d /\ NombreDe[c] # n
          /\ Sirve(c, disp_libres, pedidos, ejecutando_io)
      BY <1>1, <2>2 DEF Servicio
    <3>2. ejecutando_io'[NombreDe[c]] = ejecutando_io[NombreDe[c]]
      BY <1>1, <2>1, <3>1
    <3> QED
      BY <1>3, <3>1, <3>2 DEF Sirve
  <2>4. Espera(dispositivos', disp_libres', esperando_io')
    <3> SUFFICES ASSUME NEW m \in Nombre, esperando_io'[m] # <<>>
                 PROVE  /\ \E e \in dispositivos' : NombreDe[e] = m
                        /\ \A e \in dispositivos' :
                              NombreDe[e] = m => e \notin disp_libres'
      BY DEF Espera
    <3>1. m # n /\ esperando_io[m] # <<>>
      BY <1>1, <2>1
    <3>2. PICK e \in dispositivos : NombreDe[e] = m
      BY <3>1 DEF Servicio, Espera
    <3>3. e \in dispositivos'
      BY <1>2, <3>1, <3>2
    <3> QED
      BY <1>2, <3>1, <3>2, <3>3 DEF Servicio, Espera
  <2> QED
    BY <2>3, <2>4 DEF Servicio
<1>5. CASE DispositivosDe(n) # {d}
  <2>1. PICK r \in BoundedSeq(ToSet(t), Len(t)) :
           /\ SeQuedaCon(r, t, DOMAIN t \ Alcanzados(t, d))
           /\ ejecutando_io' = [ejecutando_io EXCEPT ![n] = r]
    BY <1>5 DEF DesconectarIo, FinalizarLosDe
  <2>2. esperando_io' = esperando_io
    BY <1>5 DEF DesconectarIo, FinalizarLosDe
  <2>3. t \in Seq(EnIo) /\ DOMAIN r = 1..Len(r)
    BY <1>1, QuedaLista
  <2>4. Parecida(d, ejecutando_io, r)
    <3>1. t \in Seq(EnIo) /\ Perdio(t, d, r)
      BY <2>1, <2>3 DEF Perdio
    <3>2. IgualParaOtros(t, d, r)
      <4> HIDE DEF t
      <4> QED
        BY <3>1, SuyosQueda
    <3> QED
      BY <3>2 DEF Parecida, IgualParaOtros
  <2>5. MismosAjenos(d, ejecutando_io, ejecutando_io')
    <3>1. ejecutando_io' = [ejecutando_io EXCEPT ![NombreDe[d]] = r]
      BY <2>1
    <3> QED
      BY <1>1, <2>4, <3>1, AjenosLista
  <2>6. Ajenos(d, disp_libres, pedidos, ejecutando_io, disp_libres',
               pedidos', ejecutando_io')
    BY <1>3, <2>5 DEF Ajenos
  <2>7. Espera(dispositivos', disp_libres', esperando_io')
    <3>1. PICK e \in dispositivos : NombreDe[e] = n /\ e # d
      BY <1>2, <1>5 DEF DispositivosDe
    <3>2. \A m \in Nombre : (\E c \in dispositivos : NombreDe[c] = m)
                               => \E c \in dispositivos' : NombreDe[c] = m
      BY <1>2, <3>1
    <3> QED
      BY <1>2, <2>2, <3>2 DEF Servicio, Espera
  <2> QED
    BY <1>1, <1>2, <2>6, <2>7, ServicioCambia
<1> QED
  BY <1>4, <1>5

LEMMA ServicioPaso ==
    ASSUME Todo, Servicio, NadieTarde, NadieTarde', [Next]_vars
    PROVE  Servicio'
<1>1. CASE Planificadores
  BY <1>1, ServicioIgual
     DEF Planificadores, EsperarProcesoReady, EsperarCpuLibre, PlanificarCorto,
         EsperarNuevoProceso, PlanificarLargo, EsperarEspacioMemoria, ioVars
<1>2. ASSUME NEW c \in Cpu, IdentificarCpu(c) PROVE Servicio'
  BY <1>2, ServicioIgual DEF IdentificarCpu, ioVars
<1>3. ASSUME NEW c \in Cpu, MensajeDe(c) PROVE Servicio'
  <2>1. ASSUME UNCHANGED ioVars PROVE Servicio'
    BY <2>1, ServicioIgual DEF ioVars
  <2>2. ASSUME NEW p \in Pid, NEW n \in Nombre, CausaIo(c, p, n)
        PROVE  Servicio'
    BY <2>2, ServicioCausaIo
  <2> QED
    BY <1>3, <2>1, <2>2 DEF MensajeDe, Finalizado, InitProc, MemoryDump
<1>4. ASSUME NEW d \in Dispositivo,
             IdentificarIo(d) \/ RevisarColaAlIdentificar(d)
      PROVE  FALSE
  BY <1>4 DEF IdentificarIo, RevisarColaAlIdentificar, NadieTarde
<1>5. ASSUME NEW p \in Pid, ComprobarSuspendido(p) PROVE Servicio'
  BY <1>5, ServicioIgual DEF ComprobarSuspendido, ioVars
<1>6. CASE UNCHANGED vars
  BY <1>6, ServicioIgual DEF vars, ioVars
<1> QED
  BY <1>1, <1>2, <1>3, <1>4, <1>5, <1>6, ServicioFinalizacionIo,
     ServicioDesconectarIo DEF Next

LEMMA ServicioInit == Init => Servicio
<1> SUFFICES ASSUME Init PROVE Servicio
  OBVIOUS
<1>1. /\ dispositivos = Presentes /\ disp_libres = Presentes
      /\ \A n \in Nombre : esperando_io[n] = <<>> /\ ejecutando_io[n] = <<>>
      /\ \A d \in Dispositivo : pedidos[d] = <<>>
  BY DEF Init
<1>2. \A d \in Presentes : d \in Dispositivo /\ NombreDe[d] \in Nombre
  BY KernelAssumption
<1>3. \A d : Suyos(<<>>, d) = {}
  BY DEF Suyos, ToSet
<1> QED
  BY <1>1, <1>2, <1>3 DEF Servicio, Sirve, Espera

LEMMA ServicioSiempre == Spec /\ []NadieTarde => []Servicio
<1>1. Init => Servicio
  BY ServicioInit
<1>2. Todo /\ Servicio /\ NadieTarde /\ NadieTarde' /\ [Next]_vars => Servicio'
  BY ServicioPaso
<1> QED
  BY <1>1, <1>2, TodoSiempre, PTL DEF Spec

\* While no IO module connects late, a listed device is free and serves
\* nobody, or serves exactly the one process listed on it, also when devices
\* are lost (comprobar_cola_bloqueados, escuchar_socket_io).
THEOREM CadaDispositivoUnProceso ==
    Spec /\ []NadieTarde => []DispositivoExclusivo
<1>1. Servicio /\ Todo => DispositivoExclusivo
  BY ServicioDice DEF Todo
<1> QED
  BY <1>1, ServicioSiempre, TodoSiempre, PTL

\* While no IO module connects late, a process waits only if every device of
\* the name is busy and there is one: nobody is left behind by a device that
\* ends or is lost (comprobar_cola_bloqueados, escuchar_socket_io).
THEOREM NadieEsperaDeMas == Spec /\ []NadieTarde => []EsperaJustificada
<1>1. Servicio /\ Todo => EsperaJustificada
  BY ServicioDice DEF Todo
<1> QED
  BY <1>1, ServicioSiempre, TodoSiempre, PTL

\* The hypothesis, when every IO module is connected from the start: what the
\* run kernel_fifo has.
THEOREM TodosPresentes == Presentes = Dispositivo /\ Spec => []NadieTarde
<1> DEFINE Nadie == sin_conectar = {} /\ identificando = {}
<1> SUFFICES ASSUME Presentes = Dispositivo PROVE Spec => []NadieTarde
  OBVIOUS
<1>1. Init => Nadie
  BY DEF Init
<1>2. Nadie /\ [Next]_vars => Nadie'
  <2> SUFFICES ASSUME Nadie, [Next]_vars PROVE Nadie'
    OBVIOUS
  <2>1. ASSUME UNCHANGED <<sin_conectar, identificando>> PROVE Nadie'
    BY <2>1
  <2>2. CASE Planificadores
    BY <2>1, <2>2
       DEF Planificadores, EsperarProcesoReady, EsperarCpuLibre,
           PlanificarCorto, EsperarNuevoProceso, PlanificarLargo,
           EsperarEspacioMemoria, ioVars
  <2>3. ASSUME NEW c \in Cpu, IdentificarCpu(c) \/ MensajeDe(c) PROVE Nadie'
    BY <2>1, <2>3
       DEF IdentificarCpu, MensajeDe, Finalizado, CausaIo, InitProc,
           MemoryDump, ioVars
  <2>4. ASSUME NEW d \in Dispositivo,
               IdentificarIo(d) \/ RevisarColaAlIdentificar(d)
                  \/ FinalizacionIo(d) \/ DesconectarIo(d)
        PROVE  Nadie'
    BY <2>1, <2>4
       DEF IdentificarIo, RevisarColaAlIdentificar, FinalizacionIo,
           DesconectarIo
  <2>5. ASSUME NEW p \in Pid, ComprobarSuspendido(p) PROVE Nadie'
    BY <2>1, <2>5 DEF ComprobarSuspendido, ioVars
  <2>6. CASE UNCHANGED vars
    BY <2>1, <2>6 DEF vars, ioVars
  <2> QED
    BY <2>2, <2>3, <2>4, <2>5, <2>6 DEF Next
<1>3. Nadie => NadieTarde
  BY DEF NadieTarde
<1> QED
  BY <1>1, <1>2, <1>3, PTL DEF Spec

-----------------------------------------------------------------------------
(* The life cycle that the kernel implements. *)

\* The state that a user sees: a freed pcb is a process that ended.
Visto(e) == [p \in Pid |-> IF e[p] = "LIBERADO" THEN "EXIT" ELSE e[p]]

EstadosVistos == Estados \ {"LIBERADO"}

\* The cardinality that module CicloDeVida takes from FiniteSets.
LEMMA CardinalDelCiclo ==
    ASSUME NEW S PROVE Ciclo!Cardinality(S) = Cardinality(S)
BY DEF Ciclo!Cardinality, Cardinality

\* A step that moves process p from a to b is that step of the cycle.
LEMMA PasaEnCiclo ==
    ASSUME NEW p \in Pid, NEW a \in EstadosVistos, NEW b \in EstadosVistos,
           estado \in [Pid -> Estados], estado[p] = a,
           estado' = [estado EXCEPT ![p] = b]
    PROVE  Ciclo!Pasa(p, a, b)
<1>1. /\ Visto(estado)[p] = a
      /\ Visto([estado EXCEPT ![p] = b]) = [Visto(estado) EXCEPT ![p] = b]
  BY DEF Visto, EstadosVistos, Estados
<1> QED
  BY <1>1 DEF Ciclo!Pasa, Visto

\* The processes of S end.
LEMMA TerminanEnCiclo ==
    ASSUME Todo, NEW S \in SUBSET Pid, FinalizarProcesos(S),
           \A p \in S : estado[p] \in {"EXEC", "BLOCKED", "SUSP_BLOCKED"}
    PROVE  Ciclo!Next
<1>1. estado \in [Pid -> Estados] /\ estado' = Libera(estado, S)
      /\ residentes' = residentes \ S /\ en_swap' = en_swap \ S
  BY DEF Todo, TypeOK, FinalizarProcesos, Libera, LiberarMemoria
<1>2. Visto(estado')
         = [p \in Pid |-> IF p \in S THEN "EXIT" ELSE Visto(estado)[p]]
  BY <1>1 DEF Visto, Libera
<1>3. \A p \in S : Visto(estado)[p] \in {"EXEC", "BLOCKED", "SUSP_BLOCKED"}
  BY DEF Visto
<1>4. Ciclo!Terminar(S)
  BY <1>1, <1>2, <1>3 DEF Ciclo!Terminar, Visto
<1> QED
  BY <1>4 DEF Ciclo!Next

\* The process at the head of a queue enters: it fits.
LEMMA EntraEnCiclo ==
    ASSUME Todo, NEW p \in Pid, estado[p] \in {"NEW", "SUSP_READY"},
           estado[p] = "NEW" => queue_susp_ready = <<>>,
           HayEspacio(p), PonerEnReady(p),
           residentes' = residentes \cup {p}, en_swap' = en_swap \ {p}
    PROVE  Ciclo!Next
<1>1. estado \in [Pid -> Estados] /\ estado' = [estado EXCEPT ![p] = "READY"]
      /\ residentes \in SUBSET Pid
  BY DEF Todo, TypeOK, PonerEnReady
<1>2. Ciclo!Caben(residentes')
  <2>1. Cabe(residentes \cup {p})
    BY <1>1, CabeOtro DEF HayEspacio
  <2>2. Cabe(residentes')
    BY <2>1
  <2> QED
    BY <2>2, CardinalDelCiclo DEF Ciclo!Caben, Cabe, PaginasDe
<1>3. CASE estado[p] = "NEW"
  <2>1. Ciclo!Pasa(p, "NEW", "READY")
    BY <1>1, <1>3, PasaEnCiclo DEF EstadosVistos, Estados
  <2>2. \A q \in Pid : Visto(estado)[q] # "SUSP_READY"
    <3>1. ToSet(queue_susp_ready) = {}
      BY <1>3 DEF ToSet
    <3> QED
      BY <3>1 DEF Todo, Procesos, Cola, Con, Visto
  <2>3. Ciclo!Entrar(p)
    BY <1>2, <2>1, <2>2 DEF Ciclo!Entrar, Visto
  <2> QED
    BY <2>3 DEF Ciclo!Next
<1>4. CASE estado[p] = "SUSP_READY"
  <2>1. Ciclo!Pasa(p, "SUSP_READY", "READY")
    BY <1>1, <1>4, PasaEnCiclo DEF EstadosVistos, Estados
  <2>2. Ciclo!Entrar(p)
    BY <1>2, <2>1 DEF Ciclo!Entrar
  <2> QED
    BY <2>2 DEF Ciclo!Next
<1> QED
  BY <1>3, <1>4

\* While a CPU is free, fewer processes run than CPUs there are.
LEMMA QuedaCpu ==
    ASSUME Todo, NEW c \in libres
    PROVE  Cardinality(Con(estado, {"EXEC"})) < Cardinality(Cpu)
<1> DEFINE C == Con(estado, {"EXEC"})
           f == [p \in C |-> (CHOOSE u \in unidades : u.proceso = p).cpu]
<1>1. /\ CpusRepartidas /\ libres \subseteq Cpu /\ unidades \subseteq Unidad
      /\ C = {u.proceso : u \in unidades} /\ IsFiniteSet(Cpu)
  BY KernelAssumption DEF Todo, Fichas, Procesos, Ejecutan, TypeOK
<1>2. ASSUME NEW p \in C
      PROVE  \E u \in unidades : u.proceso = p /\ f[p] = u.cpu
                                 /\ u.cpu \in Cpu \ {c}
  <2>1. \E u \in unidades : u.proceso = p
    BY <1>1
  <2> DEFINE u == CHOOSE v \in unidades : v.proceso = p
  <2>2. u \in unidades /\ u.proceso = p /\ f[p] = u.cpu
    BY <2>1
  <2> HIDE DEF u, f
  <2>3. u.cpu \in Cpu
    BY <1>1, <2>2 DEF Unidad
  <2>4. u.cpu # c
    BY <1>1, <2>2 DEF CpusRepartidas
  <2> QED
    BY <2>2, <2>3, <2>4
<1> HIDE DEF C
<1>3. f \in Injection(C, Cpu \ {c})
  <2>1. DOMAIN f = C /\ \A p \in C : f[p] \in Cpu \ {c}
    BY <1>2
  <2>2. \A p, q \in C : f[p] = f[q] => p = q
    BY <1>1, <1>2 DEF CpusRepartidas
  <2> HIDE DEF f
  <2>3. f \in [C -> Cpu \ {c}]
    <3>1. f = [p \in C |-> f[p]]
      BY <2>1 DEF f
    <3> QED
      BY <2>1, <3>1
  <2> QED
    BY <2>2, <2>3 DEF Injection, IsInjective
<1>4. /\ IsFiniteSet(Cpu \ {c}) /\ c \in Cpu
      /\ Cardinality(Cpu \ {c}) = Cardinality(Cpu) - 1
  BY <1>1, FS_RemoveElement
<1> HIDE DEF f
<1>5. IsFiniteSet(C) /\ Cardinality(C) <= Cardinality(Cpu \ {c})
  BY <1>3, <1>4, FS_Injection
<1>6. Cardinality(C) \in Nat /\ Cardinality(Cpu) \in Nat
  BY <1>1, <1>5, FS_CardinalityType
<1> QED
  BY <1>4, <1>5, <1>6 DEF C

LEMMA QuietoEnCiclo ==
    ASSUME UNCHANGED <<estado, residentes, en_swap>>
    PROVE  UNCHANGED Ciclo!cvars
BY DEF Ciclo!cvars

LEMMA CortoEnCiclo ==
    ASSUME Todo, PlanificarCorto
    PROVE  Ciclo!Next \/ UNCHANGED Ciclo!cvars
<1>1. /\ estado \in [Pid -> Estados] /\ queue_ready \in Seq(Pid)
      /\ Cola(queue_ready, estado, "READY")
      /\ UNCHANGED <<residentes, en_swap>>
  BY DEF Todo, TypeOK, Procesos, PlanificarCorto, memVars
<1>2. CASE queue_ready # <<>> /\ libres # {}
  <2>1. PICK c \in libres, i \in Elegibles : PonerEnEjecucion(queue_ready[i], c)
    BY <1>2 DEF PlanificarCorto
  <2>2. i \in DOMAIN queue_ready
    BY <1>1, <1>2, LenProperties, EmptySeq DEF Elegibles
  <2>3. PICK p \in Pid : p = queue_ready[i] /\ estado[p] = "READY"
    BY <1>1, <2>2 DEF Cola, Con, ToSet
  <2>4. estado' = [estado EXCEPT ![p] = "EXEC"]
    BY <2>1, <2>3 DEF PonerEnEjecucion
  <2>5. Ciclo!Pasa(p, "READY", "EXEC")
    BY <1>1, <2>3, <2>4, PasaEnCiclo DEF EstadosVistos, Estados
  <2>6. Cardinality(Ciclo!Corriendo) < Cardinality(Cpu)
    <3>1. Ciclo!Corriendo = Con(estado, {"EXEC"})
      BY DEF Ciclo!Corriendo, Con
    <3> QED
      BY <3>1, QuedaCpu
  <2>7. Ciclo!Correr(p)
    BY <1>1, <2>5, <2>6, CardinalDelCiclo DEF Ciclo!Correr
  <2> QED
    BY <2>3, <2>7 DEF Ciclo!Next
<1>3. CASE ~(queue_ready # <<>> /\ libres # {})
  BY <1>1, <1>3, QuietoEnCiclo DEF PlanificarCorto
<1> QED
  BY <1>2, <1>3

LEMMA LargoEnCiclo ==
    ASSUME Todo, PlanificarLargo
    PROVE  Ciclo!Next \/ UNCHANGED Ciclo!cvars
<1>1. /\ queue_new \in Seq(Pid) /\ queue_susp_ready \in Seq(Pid)
      /\ Cola(queue_new, estado, "NEW")
      /\ Cola(queue_susp_ready, estado, "SUSP_READY")
      /\ en_swap = Con(estado, {"SUSP_BLOCKED", "SUSP_READY"})
  BY DEF Todo, TypeOK, Procesos, Residen
<1>2. ASSUME SinEspacio PROVE UNCHANGED Ciclo!cvars
  BY <1>2, QuietoEnCiclo DEF SinEspacio, memVars
<1>3. ASSUME queue_susp_ready # <<>>, VueltaSwap, ~SinEspacio PROVE Ciclo!Next
  <2> DEFINE p == Head(queue_susp_ready)
  <2>1. /\ HayEspacio(p) /\ PonerEnReady(p)
        /\ residentes' = residentes \cup {p} /\ en_swap' = en_swap \ {p}
    BY <1>3 DEF VueltaSwap
  <2>2. p \in ToSet(queue_susp_ready)
    BY <1>1, <1>3, ListaTail DEF Cola
  <2>3. p \in Pid /\ estado[p] = "SUSP_READY"
    BY <1>1, <2>2 DEF Cola, Con
  <2> HIDE DEF p
  <2> QED
    BY <2>1, <2>3, EntraEnCiclo
<1>4. ASSUME queue_susp_ready = <<>>, queue_new # <<>>, EspacioEnMemoria,
             ~SinEspacio
      PROVE  Ciclo!Next
  <2> DEFINE p == Head(queue_new)
  <2>1. /\ HayEspacio(p) /\ PonerEnReady(p)
        /\ residentes' = residentes \cup {p} /\ en_swap' = en_swap
    BY <1>4 DEF EspacioEnMemoria
  <2>2. p \in ToSet(queue_new)
    BY <1>1, <1>4, ListaTail DEF Cola
  <2>3. p \in Pid /\ estado[p] = "NEW"
    BY <1>1, <2>2 DEF Cola, Con
  <2> HIDE DEF p
  <2>4. en_swap' = en_swap \ {p}
    BY <1>1, <2>1, <2>3 DEF Con
  <2> QED
    BY <1>4, <2>1, <2>3, <2>4, EntraEnCiclo
<1>5. ASSUME queue_susp_ready = <<>>, queue_new = <<>>
      PROVE  UNCHANGED Ciclo!cvars
  BY <1>5, QuietoEnCiclo DEF PlanificarLargo, memVars
<1> QED
  BY <1>2, <1>3, <1>4, <1>5 DEF PlanificarLargo

LEMMA MensajeEnCiclo ==
    ASSUME Todo, NEW c \in Cpu, MensajeDe(c)
    PROVE  Ciclo!Next
<1>1. estado \in [Pid -> Estados]
  BY DEF Todo, TypeOK
<1>2. ASSUME NEW p \in Pid, estado[p] = "EXEC", FinalizarProcesos({p})
      PROVE  Ciclo!Next
  BY <1>2, TerminanEnCiclo
<1>3. ASSUME NEW p \in Pid, estado[p] = "EXEC", NEW b \in {"READY", "BLOCKED"},
             estado' = [estado EXCEPT ![p] = b],
             UNCHANGED <<residentes, en_swap>>
      PROVE  Ciclo!Next
  <2>1. Ciclo!Pasa(p, "EXEC", b)
    BY <1>1, <1>3, PasaEnCiclo DEF EstadosVistos, Estados
  <2>2. Ciclo!Soltar(p)
    BY <1>3, <2>1 DEF Ciclo!Soltar
  <2> QED
    BY <2>2 DEF Ciclo!Next
<1>4. ASSUME NEW p \in Pid, Finalizado(c, p) PROVE Ciclo!Next
  BY <1>2, <1>4, EjecutaEnExec DEF Finalizado
<1>5. ASSUME NEW p \in Pid, NEW n \in Nombre, CausaIo(c, p, n) PROVE Ciclo!Next
  <2>1. estado[p] = "EXEC"
    BY <1>5, EjecutaEnExec DEF CausaIo
  <2>2. CASE DispositivosDe(n) = {}
    BY <1>2, <1>5, <2>1, <2>2 DEF CausaIo
  <2>3. CASE DispositivosDe(n) # {}
    BY <1>3, <1>5, <2>1, <2>3 DEF CausaIo, Bloquear, memVars
  <2> QED
    BY <2>2, <2>3
<1>6. ASSUME NEW p \in Pid, NEW q \in Pid, InitProc(c, p, q) PROVE Ciclo!Next
  <2>1. estado[p] = "EXEC"
    BY <1>6, EjecutaEnExec DEF InitProc
  <2>2. p \in Ciclo!Corriendo
    BY <2>1 DEF Ciclo!Corriendo
  <2>3. Ciclo!Pasa(q, "SIN_CREAR", "NEW")
    <3>1. /\ estado[q] = "SIN_CREAR"
          /\ estado' = [estado EXCEPT ![q] = "NEW"]
      BY <1>6 DEF InitProc
    <3> QED
      BY <1>1, <3>1, PasaEnCiclo DEF EstadosVistos, Estados
  <2>4. Ciclo!Crear(q)
    BY <1>6, <2>2, <2>3 DEF Ciclo!Crear, InitProc, memVars
  <2> QED
    BY <2>4 DEF Ciclo!Next
<1>7. ASSUME NEW p \in Pid, NEW exito \in BOOLEAN, MemoryDump(c, p, exito)
      PROVE  Ciclo!Next
  <2>1. estado[p] = "EXEC"
    BY <1>7, EjecutaEnExec DEF MemoryDump
  <2>2. CASE exito = TRUE
    <3>1. /\ estado' = [estado EXCEPT ![p] = "READY"]
          /\ UNCHANGED <<residentes, en_swap>>
      BY <1>7, <2>2 DEF MemoryDump, PonerEnReady, memVars
    <3> QED
      BY <1>3, <2>1, <3>1
  <2>3. CASE exito = FALSE
    <3>1. /\ estado' = [estado EXCEPT ![p] = "EXIT"]
          /\ residentes' = residentes \ {p} /\ en_swap' = en_swap \ {p}
      BY <1>7, <2>3 DEF MemoryDump, LiberarMemoria
    <3>2. /\ Visto(estado') = [q \in Pid |-> IF q \in {p} THEN "EXIT"
                                             ELSE Visto(estado)[q]]
          /\ Visto(estado)[p] = "EXEC"
      BY <1>1, <2>1, <3>1 DEF Visto
    <3>3. Ciclo!Terminar({p})
      BY <3>1, <3>2 DEF Ciclo!Terminar, Visto
    <3> QED
      BY <3>3 DEF Ciclo!Next
  <2>4. exito = TRUE \/ exito = FALSE
    BY Booleano, Zenon
  <2> QED
    BY <2>2, <2>3, <2>4, Zenon
<1> QED
  BY <1>4, <1>5, <1>6, <1>7 DEF MensajeDe

\* Who is listed under a name is blocked.
LEMMA ListadoBloqueado ==
    ASSUME Todo, NEW n \in Nombre,
           NEW p \in DeNombre(esperando_io, ejecutando_io, n)
    PROVE  p \in Pid /\ estado[p] \in {"BLOCKED", "SUSP_BLOCKED"}
BY DEF Todo, Procesos, Bloquean, Con

LEMMA FinalizacionEnCiclo ==
    ASSUME Todo, NEW d \in Dispositivo, FinalizacionIo(d)
    PROVE  Ciclo!Next \/ UNCHANGED Ciclo!cvars
<1> DEFINE n == NombreDe[d]
           t == ejecutando_io[n]
           ks == EntradasDe(n, Head(pedidos[d]))
<1>1. /\ n \in Nombre /\ estado \in [Pid -> Estados]
      /\ UNCHANGED <<residentes, en_swap>>
  BY KernelAssumption DEF Todo, TypeOK, FinalizacionIo, memVars
<1>2. CASE ks = {}
  BY <1>1, <1>2, QuietoEnCiclo DEF FinalizacionIo
<1>3. CASE ks # {}
  <2>1. PICK k \in ks : Desbloquear(Head(pedidos[d]))
    BY <1>3 DEF FinalizacionIo
  <2>2. Head(pedidos[d]) \in DeNombre(esperando_io, ejecutando_io, n)
    BY DEF EntradasDe, DeNombre, Pcbs, ToSet
  <2>3. PICK p \in Pid : /\ p = Head(pedidos[d])
                         /\ estado[p] \in {"BLOCKED", "SUSP_BLOCKED"}
    BY <1>1, <2>2, ListadoBloqueado
  <2>4. \/ Ciclo!Pasa(p, "BLOCKED", "READY")
        \/ Ciclo!Pasa(p, "SUSP_BLOCKED", "SUSP_READY")
    <3>1. CASE estado[p] = "BLOCKED"
      <4>1. estado' = [estado EXCEPT ![p] = "READY"]
        BY <2>1, <2>3, <3>1 DEF Desbloquear, PonerEnReady
      <4> QED
        BY <1>1, <2>3, <3>1, <4>1, PasaEnCiclo DEF EstadosVistos, Estados
    <3>2. CASE estado[p] = "SUSP_BLOCKED"
      <4>1. estado' = [estado EXCEPT ![p] = "SUSP_READY"]
        BY <2>1, <2>3, <3>2 DEF Desbloquear
      <4> QED
        BY <1>1, <2>3, <3>2, <4>1, PasaEnCiclo DEF EstadosVistos, Estados
    <3> QED
      BY <2>3, <3>1, <3>2
  <2>5. Ciclo!Despertar(p)
    BY <1>1, <2>4 DEF Ciclo!Despertar
  <2> QED
    BY <2>3, <2>5 DEF Ciclo!Next
<1> QED
  BY <1>2, <1>3

LEMMA DesconectarEnCiclo ==
    ASSUME Todo, NEW d \in Dispositivo, DesconectarIo(d)
    PROVE  Ciclo!Next
<1> DEFINE n == NombreDe[d]
           t == ejecutando_io[n]
<1>1. n \in Nombre
  BY KernelAssumption
<1>2. ASSUME NEW S, S \subseteq DeNombre(esperando_io, ejecutando_io, n),
             FinalizarProcesos(S)
      PROVE  Ciclo!Next
  <2>1. \A p \in S : p \in Pid /\ estado[p] \in {"BLOCKED", "SUSP_BLOCKED"}
    BY <1>1, <1>2, ListadoBloqueado
  <2> QED
    BY <1>2, <2>1, TerminanEnCiclo
<1>3. CASE FinalizarTodos(n)
  <2> DEFINE S == ToSet(esperando_io[n]) \cup {e.pcb : e \in ToSet(t)}
  <2>1. S \subseteq DeNombre(esperando_io, ejecutando_io, n)
    BY DEF DeNombre, Pcbs
  <2>2. FinalizarProcesos(S)
    BY <1>3 DEF FinalizarTodos
  <2> QED
    BY <1>2, <2>1, <2>2
<1>4. CASE FinalizarLosDe(d)
  <2> DEFINE S == {t[k].pcb : k \in Alcanzados(t, d)}
  <2>1. S \subseteq DeNombre(esperando_io, ejecutando_io, n)
    BY DEF DeNombre, Pcbs, ToSet, Alcanzados
  <2>2. FinalizarProcesos(S)
    BY <1>4 DEF FinalizarLosDe
  <2> QED
    BY <1>2, <2>1, <2>2
<1> QED
  BY <1>3, <1>4 DEF DesconectarIo

LEMMA SuspendidoEnCiclo ==
    ASSUME Todo, NEW p \in Pid, ComprobarSuspendido(p)
    PROVE  Ciclo!Next \/ UNCHANGED Ciclo!cvars
<1>1. PICK q \in Apuntados(p) :
         IF estado[q] = "BLOCKED"
         THEN /\ residentes' = residentes \ {q}
              /\ en_swap' = en_swap \cup {q}
              /\ estado' = [estado EXCEPT ![q] = "SUSP_BLOCKED"]
         ELSE UNCHANGED <<residentes, en_swap, estado>>
  BY DEF ComprobarSuspendido
<1>2. q \in Pid /\ estado \in [Pid -> Estados]
  BY DEF Apuntados, Todo, TypeOK
<1>3. CASE estado[q] = "BLOCKED"
  <2>1. Ciclo!Pasa(q, "BLOCKED", "SUSP_BLOCKED")
    BY <1>1, <1>2, <1>3, PasaEnCiclo DEF EstadosVistos, Estados
  <2>2. Ciclo!Suspender(q)
    BY <1>1, <1>3, <2>1 DEF Ciclo!Suspender
  <2> QED
    BY <1>2, <2>2 DEF Ciclo!Next
<1>4. CASE estado[q] # "BLOCKED"
  BY <1>1, <1>4, QuietoEnCiclo
<1> QED
  BY <1>3, <1>4

LEMMA PasoEnCiclo ==
    ASSUME Todo, [Next]_vars
    PROVE  [Ciclo!Next]_(Ciclo!cvars)
<1>1. CASE Planificadores
  <2>1. CASE PlanificarCorto
    BY <2>1, CortoEnCiclo
  <2>2. CASE PlanificarLargo
    BY <2>2, LargoEnCiclo
  <2>3. CASE \/ EsperarProcesoReady \/ EsperarCpuLibre \/ EsperarNuevoProceso
             \/ EsperarEspacioMemoria
    BY <2>3, QuietoEnCiclo
       DEF EsperarProcesoReady, EsperarCpuLibre, EsperarNuevoProceso,
           EsperarEspacioMemoria, memVars
  <2> QED
    BY <1>1, <2>1, <2>2, <2>3 DEF Planificadores
<1>2. ASSUME NEW c \in Cpu, IdentificarCpu(c) PROVE UNCHANGED Ciclo!cvars
  BY <1>2, QuietoEnCiclo DEF IdentificarCpu, memVars
<1>3. ASSUME NEW d \in Dispositivo,
             IdentificarIo(d) \/ RevisarColaAlIdentificar(d)
      PROVE  UNCHANGED Ciclo!cvars
  BY <1>3, QuietoEnCiclo DEF IdentificarIo, RevisarColaAlIdentificar, memVars
<1>4. CASE UNCHANGED vars
  BY <1>4, QuietoEnCiclo DEF vars, memVars
<1> QED
  BY <1>1, <1>2, <1>3, <1>4, MensajeEnCiclo, FinalizacionEnCiclo,
     DesconectarEnCiclo, SuspendidoEnCiclo DEF Next

\* The kernel, with its queues, tokens, devices and threads, implements the
\* life cycle of the processes: they enter only if they fit and new ones only
\* if no swapped-out one waits, and no more run than there are CPUs.
THEOREM KernelImplementaCiclo == Spec => ImplementaCiclo
<1>1. Init => Ciclo!Init
  <2> SUFFICES ASSUME Init PROVE Ciclo!Init
    OBVIOUS
  <2>1. PICK p \in Pid :
          estado = [q \in Pid |-> IF q = p THEN "NEW" ELSE "SIN_CREAR"]
    BY DEF Init
  <2>2. Visto(estado) = [q \in Pid |-> IF q = p THEN "NEW" ELSE "SIN_CREAR"]
    BY <2>1 DEF Visto
  <2> QED
    BY <2>2 DEF Init, Ciclo!Init, Visto
<1>2. Todo /\ [Next]_vars => [Ciclo!Next]_(Ciclo!cvars)
  BY PasoEnCiclo
<1> QED
  BY <1>1, <1>2, TodoSiempre, PTL DEF Spec, ImplementaCiclo, Ciclo!Spec

-----------------------------------------------------------------------------
(* What a step may never do. *)

\* No step admits a new process while a swapped-out one waits to come back
\* (planificar_largo_plazo_FIFO).
THEOREM SiempreSuspendidosPrimero == Spec => SuspendidosPrimero
<1> DEFINE Paso == \A p \in Pid : estado[p] = "NEW" /\ estado'[p] = "READY"
                                     => queue_susp_ready = <<>>
<1>1. ASSUME Todo, [Next]_vars, NEW p \in Pid,
             estado[p] = "NEW", estado'[p] = "READY"
      PROVE  queue_susp_ready = <<>>
  <2>1. [Ciclo!Next]_(Ciclo!cvars)
    BY <1>1, PasoEnCiclo
  <2>2. Visto(estado)[p] = "NEW" /\ Visto(estado')[p] = "READY"
    BY <1>1 DEF Visto
  <2>3. ASSUME NEW q \in Pid, NEW a, NEW b, Ciclo!Pasa(q, a, b)
        PROVE  a = "NEW" /\ b = "READY"
    <3>1. /\ Visto(estado)[q] = a
          /\ Visto(estado') = [Visto(estado) EXCEPT ![q] = b]
      BY <2>3 DEF Ciclo!Pasa, Visto
    <3>2. Visto(estado) = [r \in Pid |-> Visto(estado)[r]]
      BY DEF Visto
    <3> QED
      BY <2>2, <3>1, <3>2
  <2>4. ASSUME NEW S \in SUBSET Pid, Ciclo!Terminar(S) PROVE FALSE
    <3>1. Visto(estado') = [r \in Pid |-> IF r \in S THEN "EXIT"
                                          ELSE Visto(estado)[r]]
      BY <2>4 DEF Ciclo!Terminar, Visto
    <3> QED
      BY <2>2, <3>1
  <2>5. PICK q \in Pid : Ciclo!Entrar(q)
    <3>1. ASSUME UNCHANGED Ciclo!cvars PROVE FALSE
      <4>1. Visto(estado') = Visto(estado)
        BY <3>1 DEF Ciclo!cvars, Visto
      <4> QED
        BY <2>2, <4>1
    <3>2. ASSUME NEW q \in Pid, Ciclo!Crear(q) PROVE FALSE
      BY <2>3, <3>2 DEF Ciclo!Crear
    <3>3. ASSUME NEW q \in Pid, Ciclo!Correr(q) PROVE FALSE
      BY <2>3, <3>3 DEF Ciclo!Correr
    <3>4. ASSUME NEW q \in Pid, Ciclo!Soltar(q) PROVE FALSE
      BY <2>3, <3>4 DEF Ciclo!Soltar
    <3>5. ASSUME NEW q \in Pid, Ciclo!Suspender(q) PROVE FALSE
      BY <2>3, <3>5 DEF Ciclo!Suspender
    <3>6. ASSUME NEW q \in Pid, Ciclo!Despertar(q) PROVE FALSE
      BY <2>3, <3>6 DEF Ciclo!Despertar
    <3> QED
      BY <2>1, <2>4, <3>1, <3>2, <3>3, <3>4, <3>5, <3>6 DEF Ciclo!Next
  <2>6. \A r \in Pid : Visto(estado)[r] # "SUSP_READY"
    BY <2>3, <2>5 DEF Ciclo!Entrar, Visto
  <2>7. ToSet(queue_susp_ready) = {}
    BY <1>1, <2>6 DEF Todo, Procesos, Cola, Con, Visto
  <2>8. queue_susp_ready \in Seq(Pid)
    BY <1>1 DEF Todo, TypeOK
  <2>9. ASSUME queue_susp_ready # <<>> PROVE FALSE
    <3>1. 1 \in DOMAIN queue_susp_ready
      BY <2>8, <2>9, LenProperties, EmptySeq
    <3> QED
      BY <2>7, <3>1 DEF ToSet
  <2> QED
    BY <2>9
<1>2. Todo /\ [Next]_vars => [Paso]_vars
  BY <1>1
<1> QED
  BY <1>2, TodoSiempre, PTL DEF Spec, SuspendidosPrimero

LEMMA PosicionUnica ==
    ASSUME NEW s, SinRepetidos(s), NEW i \in DOMAIN s
    PROVE  Posicion(s, s[i]) = i
<1>1. \E j \in DOMAIN s : s[j] = s[i]
  OBVIOUS
<1>2. Posicion(s, s[i]) \in DOMAIN s /\ s[Posicion(s, s[i])] = s[i]
  BY <1>1 DEF Posicion
<1> QED
  BY <1>2 DEF SinRepetidos

\* What a step makes of queue_ready.
LEMMA ListosCambian ==
    ASSUME Todo, [Next]_vars
    PROVE  \/ queue_ready' = queue_ready
           \/ \E p \in Pid : queue_ready' = Append(queue_ready, p)
           \/ \E i \in DOMAIN queue_ready :
                 /\ queue_ready' = RemoveAt(queue_ready, i)
                 /\ estado'[queue_ready[i]] = "EXEC"
<1> DEFINE Agrega1 == \E p \in Pid : queue_ready' = Append(queue_ready, p)
           Igual == queue_ready' = queue_ready
           Saca == \E i \in DOMAIN queue_ready :
                      /\ queue_ready' = RemoveAt(queue_ready, i)
                      /\ estado'[queue_ready[i]] = "EXEC"
<1>1. /\ queue_new \in Seq(Pid) /\ queue_ready \in Seq(Pid)
      /\ queue_susp_ready \in Seq(Pid) /\ estado \in [Pid -> Estados]
      /\ pedidos \in [Dispositivo -> Seq(Pid)]
  BY DEF Todo, TypeOK
<1>2. CASE PlanificarCorto
  <2>1. CASE queue_ready # <<>> /\ libres # {}
    <3>1. PICK c \in libres, i \in Elegibles :
             /\ PonerEnEjecucion(queue_ready[i], c)
             /\ queue_ready' = RemoveAt(queue_ready, i)
      BY <1>2, <2>1 DEF PlanificarCorto
    <3>2. i \in DOMAIN queue_ready
      BY <1>1, <2>1, LenProperties, EmptySeq DEF Elegibles
    <3>3. queue_ready[i] \in Pid
      BY <1>1, <3>2, LenProperties, ElementOfSeq
    <3>4. estado'[queue_ready[i]] = "EXEC"
      BY <1>1, <3>1, <3>3 DEF PonerEnEjecucion
    <3> QED
      BY <3>1, <3>2, <3>4
  <2>2. CASE ~(queue_ready # <<>> /\ libres # {})
    BY <1>2, <2>2 DEF PlanificarCorto
  <2> QED
    BY <2>1, <2>2
<1>3. CASE PlanificarLargo
  <2>1. queue_susp_ready # <<>> => Head(queue_susp_ready) \in Pid
    BY <1>1, HeadTailProperties
  <2>2. queue_new # <<>> => Head(queue_new) \in Pid
    BY <1>1, HeadTailProperties
  <2> QED
    BY <1>3, <2>1, <2>2
       DEF PlanificarLargo, VueltaSwap, EspacioEnMemoria, SinEspacio,
           PonerEnReady, colas
<1>4. ASSUME NEW c \in Cpu, MensajeDe(c) PROVE Agrega1 \/ Igual
  BY <1>4 DEF MensajeDe, Finalizado, CausaIo, InitProc, MemoryDump, colas,
              PonerEnReady
<1>5. ASSUME NEW d \in Dispositivo, FinalizacionIo(d) PROVE Agrega1 \/ Igual
  <2>1. Head(pedidos[d]) \in Pid
    BY <1>1, <1>5, HeadTailProperties DEF FinalizacionIo
  <2>2. CASE EntradasDe(NombreDe[d], Head(pedidos[d])) = {}
    BY <1>5, <2>2 DEF FinalizacionIo
  <2>3. CASE Desbloquear(Head(pedidos[d]))
    BY <2>1, <2>3 DEF Desbloquear, PonerEnReady
  <2> QED
    BY <1>5, <2>2, <2>3 DEF FinalizacionIo
<1>6. CASE \/ EsperarProcesoReady \/ EsperarCpuLibre \/ EsperarNuevoProceso
           \/ EsperarEspacioMemoria \/ UNCHANGED vars
  BY <1>6 DEF EsperarProcesoReady, EsperarCpuLibre, EsperarNuevoProceso,
              EsperarEspacioMemoria, vars, colas
<1>7. ASSUME NEW c \in Cpu, IdentificarCpu(c) PROVE Igual
  BY <1>7 DEF IdentificarCpu, colas
<1>8. ASSUME NEW d \in Dispositivo,
             IdentificarIo(d) \/ RevisarColaAlIdentificar(d) \/ DesconectarIo(d)
      PROVE  Igual
  BY <1>8 DEF IdentificarIo, RevisarColaAlIdentificar, DesconectarIo, colas
<1>9. ASSUME NEW p \in Pid, ComprobarSuspendido(p) PROVE Igual
  BY <1>9 DEF ComprobarSuspendido, colas
<1> QED
  BY <1>2, <1>3, <1>4, <1>5, <1>6, <1>7, <1>8, <1>9 DEF Next, Planificadores

\* A ready process that is not dispatched keeps its place or advances,
\* whatever comes to the queue and in whatever order it is dispatched
\* (poner_en_ready, planificar_corto_plazo_FIFO and _SJF).
THEOREM NadieSeAdelanta == Spec => SinAdelantos
<1> DEFINE Paso == \A p \in ToSet(queue_ready) :
                      estado'[p] = "EXEC" \/ /\ p \in ToSet(queue_ready')
                                             /\ Posicion(queue_ready', p)
                                                  <= Posicion(queue_ready, p)
<1>1. ASSUME Todo, Todo', [Next]_vars, NEW p \in ToSet(queue_ready),
             estado'[p] # "EXEC"
      PROVE  /\ p \in ToSet(queue_ready')
             /\ Posicion(queue_ready', p) <= Posicion(queue_ready, p)
  <2>1. /\ queue_ready \in Seq(Pid)
        /\ SinRepetidos(queue_ready) /\ SinRepetidos(queue_ready')
    BY <1>1 DEF Todo, TypeOK, Procesos, Cola
  <2>2. PICK k \in DOMAIN queue_ready : queue_ready[k] = p
    BY DEF ToSet
  <2>3. Len(queue_ready) \in Nat /\ DOMAIN queue_ready = 1..Len(queue_ready)
    BY <2>1, LenProperties
  <2>4. \E j \in DOMAIN queue_ready' : j <= k /\ queue_ready'[j] = p
    <3>1. CASE queue_ready' = queue_ready
      BY <2>2, <2>3, <3>1
    <3>2. ASSUME NEW q \in Pid, queue_ready' = Append(queue_ready, q)
          PROVE  k \in DOMAIN queue_ready' /\ queue_ready'[k] = p
      <4>1. /\ DOMAIN Append(queue_ready, q) = 1..(Len(queue_ready) + 1)
            /\ \A i \in 1..Len(queue_ready) :
                  Append(queue_ready, q)[i] = queue_ready[i]
        BY <2>1, AppendProperties, LenProperties
      <4> QED
        BY <2>2, <2>3, <3>2, <4>1
    <3>3. ASSUME NEW i \in DOMAIN queue_ready,
                 queue_ready' = RemoveAt(queue_ready, i),
                 estado'[queue_ready[i]] = "EXEC"
          PROVE  \E j \in DOMAIN queue_ready' : j <= k /\ queue_ready'[j] = p
      <4>1. k # i
        BY <1>1, <2>2, <3>3
      <4>2. \E j \in DOMAIN RemoveAt(queue_ready, i) :
               j <= k /\ RemoveAt(queue_ready, i)[j] = queue_ready[k]
        BY <2>1, <4>1, ListaRemoveAt
      <4> QED
        BY <2>2, <3>3, <4>2
    <3> QED
      BY <1>1, <2>3, <3>1, <3>2, <3>3, ListosCambian
  <2>5. PICK j \in DOMAIN queue_ready' : j <= k /\ queue_ready'[j] = p
    BY <2>4
  <2>6. Posicion(queue_ready, p) = k /\ Posicion(queue_ready', p) = j
    BY <2>1, <2>2, <2>5, PosicionUnica
  <2> QED
    BY <2>5, <2>6 DEF ToSet
<1>2. Todo /\ Todo' /\ [Next]_vars => [Paso]_vars
  BY <1>1
<1> QED
  BY <1>2, TodoSiempre, PTL DEF Spec, SinAdelantos
=============================================================================
