----------------------------- MODULE PmcpProofs -----------------------------
(***************************************************************************)
(* For any number of processes, of any size: the semaphores of PMCP never  *)
(* go below zero, the planner has a round for each process that waits, and *)
(* its sleep for lack of room misses no wake-up.  The last follows one     *)
(* change of the memory or of the swapped-out from the semaphore it        *)
(* signals, to the thread that takes the signal, to the mutex it unlocks.  *)
(***************************************************************************)
EXTENDS PmcpProps, TLAPS, FiniteSetTheorems

\* A planner that found no swapped-out process has a round for each that
\* became ready since, besides the round it is in.
RondaDeNuevos ==
    planificador = "new" => largo_plazo >= Cardinality(En("SUSP_READY"))

IInv == TypeOK /\ FichasLargo /\ RondaDeNuevos

-----------------------------------------------------------------------------
LEMMA EsperanFinito ==
    /\ IsFiniteSet(Esperan) /\ Cardinality(Esperan) \in Nat
    /\ IsFiniteSet(En("SUSP_READY")) /\ Cardinality(En("SUSP_READY")) \in Nat
    /\ Cardinality(En("SUSP_READY")) <= Cardinality(Esperan)
<1>1. Esperan \subseteq Pid /\ En("SUSP_READY") \subseteq Esperan
  BY DEF Esperan, En
<1>2. IsFiniteSet(Esperan)
  BY <1>1, FS_Subset, PmcpAssumption
<1>3. /\ IsFiniteSet(En("SUSP_READY"))
      /\ Cardinality(En("SUSP_READY")) <= Cardinality(Esperan)
  BY <1>1, <1>2, FS_Subset
<1>. QED  BY <1>2, <1>3, FS_CardinalityType

\* A process starts to wait: one more waits.
LEMMA EmpiezaAEsperar ==
    ASSUME TypeOK, NEW p \in Pid, NEW e \in {"NEW", "SUSP_READY"},
           p \notin Esperan, Pasa(p, e)
    PROVE  /\ Cardinality(Esperan') = Cardinality(Esperan) + 1
           /\ Cardinality(En("SUSP_READY")')
                 = Cardinality(En("SUSP_READY"))
                      + (IF e = "SUSP_READY" THEN 1 ELSE 0)
<1>1. Esperan' = Esperan \cup {p}
  BY DEF TypeOK, Pasa, Esperan, En
<1>2. Cardinality(Esperan') = Cardinality(Esperan) + 1
  BY <1>1, EsperanFinito, FS_AddElement
<1>3. CASE e = "SUSP_READY"
  <2>1. En("SUSP_READY")' = En("SUSP_READY") \cup {p}
    BY <1>3 DEF TypeOK, Pasa, En
  <2>2. p \notin En("SUSP_READY")
    BY DEF Esperan
  <2>. QED  BY <1>2, <1>3, <2>1, <2>2, EsperanFinito, FS_AddElement
<1>4. CASE e = "NEW"
  <2>1. En("SUSP_READY")' = En("SUSP_READY")
    BY <1>4 DEF TypeOK, Pasa, Esperan, En
  <2>. QED  BY <1>2, <1>4, <2>1, EsperanFinito
<1>. QED  BY <1>3, <1>4

\* A process that waited comes in: one less waits.
LEMMA DejaDeEsperar ==
    ASSUME TypeOK, NEW p \in Esperan, Pasa(p, "MEMORIA")
    PROVE  Cardinality(Esperan') = Cardinality(Esperan) - 1
<1>1. Esperan' = Esperan \ {p}
  BY DEF TypeOK, Pasa, Esperan, En
<1>. QED  BY <1>1, EsperanFinito, FS_RemoveElement

\* A process that does not wait goes where it does not wait either.
LEMMA SigueSinEsperar ==
    ASSUME TypeOK, NEW p \in Pid, NEW e \in Estado \ {"NEW", "SUSP_READY"},
           p \notin Esperan, Pasa(p, e)
    PROVE  Esperan' = Esperan /\ En("SUSP_READY")' = En("SUSP_READY")
BY DEF TypeOK, Pasa, Esperan, En

LEMMA MismosEsperan ==
    ASSUME UNCHANGED estado
    PROVE  Esperan' = Esperan /\ En("SUSP_READY")' = En("SUSP_READY")
BY DEF Esperan, En

-----------------------------------------------------------------------------
\* Type correctness in two parts: the mutexes, and all else.
MutexesTipados ==
    /\ comprobar_memoria \in BOOLEAN /\ mutex_susp_o_memoria \in BOOLEAN
    /\ mutex_sem_espacio_memoria \in BOOLEAN

RestoTipado ==
    /\ estado \in [Pid -> Estado]
    /\ bloqueos \in 0..Bloqueos
    /\ largo_plazo \in Nat /\ espacio_memoria \in Nat
    /\ check_susp_ready \in Nat /\ proceso_suspendido_ready \in Nat
    /\ planificador \in {"largo_plazo", "susp_ready", "new", "sin_lugar",
                         "susp_o_memoria", "sem_espacio", "espacio_memoria"}
    /\ espacio \in {"comprobar", "sem_espacio", "espacio_memoria", "avisar"}
    /\ suspendidos \in {"check", "suspendido_ready"}

LEMMA TiposPorPartes == TypeOK <=> MutexesTipados /\ RestoTipado
BY Zenon DEF TypeOK, MutexesTipados, RestoTipado

LEMMA TiposIniciales == Init => TypeOK
<1>. SUFFICES ASSUME Init PROVE MutexesTipados /\ RestoTipado
  BY TiposPorPartes
<1>1. MutexesTipados
  BY Zenon DEF Init, MutexesTipados
<1>2. RestoTipado
  BY PmcpAssumption DEF Init, RestoTipado, Estado
<1>. QED  BY <1>1, <1>2

LEMMA TiposDelPlanificador ==
    ASSUME TypeOK, Planificador
    PROVE  TypeOK'
<1>. USE DEF TypeOK, semaforos, mutexes
<1>1. CASE EsperarLargoPlazo
  BY <1>1 DEF EsperarLargoPlazo
<1>2. CASE RevisarSuspendidos
  <2>1. estado' \in [Pid -> Estado]
    BY <1>2 DEF RevisarSuspendidos, Pasa, Estado
  <2>2. /\ largo_plazo' \in Nat
        /\ planificador' \in {"new", "largo_plazo", "sin_lugar", "sem_espacio"}
    BY <1>2 DEF RevisarSuspendidos
  <2>. QED  BY <1>2, <2>1, <2>2 DEF RevisarSuspendidos
<1>3. CASE RevisarNuevos
  <2>1. estado' \in [Pid -> Estado]
    BY <1>3 DEF RevisarNuevos, Pasa, Estado
  <2>2. planificador' \in {"largo_plazo", "sin_lugar"}
    BY <1>3 DEF RevisarNuevos
  <2>. QED  BY <1>3, <2>1, <2>2 DEF RevisarNuevos
<1>4. CASE Avisar
  <2>1. MutexesTipados'
    BY <1>4, TiposPorPartes, Zenon DEF Avisar, MutexesTipados
  <2>2. RestoTipado'
    BY <1>4, TiposPorPartes DEF Avisar, RestoTipado
  <2>. QED  BY <2>1, <2>2, Zenon DEF MutexesTipados, RestoTipado
<1>5. CASE EsperarSuspOMemoria
  BY <1>5 DEF EsperarSuspOMemoria
<1>6. CASE TomarSemEspacio
  BY <1>6 DEF TomarSemEspacio
<1>7. CASE EsperarEspacioMemoria
  <2>1. MutexesTipados'
    BY <1>7, TiposPorPartes, Zenon DEF EsperarEspacioMemoria, MutexesTipados
  <2>2. RestoTipado'
    BY <1>7, TiposPorPartes DEF EsperarEspacioMemoria, RestoTipado
  <2>. QED  BY <2>1, <2>2, Zenon DEF MutexesTipados, RestoTipado
<1>. QED  BY <1>1, <1>2, <1>3, <1>4, <1>5, <1>6, <1>7 DEF Planificador

LEMMA TiposDeLosQueAvisan ==
    ASSUME TypeOK, ComprobarEspacio \/ ComprobarSuspendidos
    PROVE  TypeOK'
<1>. USE DEF TypeOK, semaforos, mutexes
<1>1. CASE EspacioEsperaPedido
  BY <1>1 DEF EspacioEsperaPedido
<1>2. CASE EspacioTomaSem
  BY <1>2 DEF EspacioTomaSem
<1>3. CASE EspacioEsperaEspacio
  <2>1. MutexesTipados'
    BY <1>3, TiposPorPartes, Zenon DEF EspacioEsperaEspacio, MutexesTipados
  <2>2. RestoTipado'
    BY <1>3, TiposPorPartes DEF EspacioEsperaEspacio, RestoTipado
  <2>. QED  BY <2>1, <2>2, Zenon DEF MutexesTipados, RestoTipado
<1>4. CASE EspacioAvisa
  BY <1>4 DEF EspacioAvisa
<1>5. CASE SuspendidosEsperaPedido
  BY <1>5 DEF SuspendidosEsperaPedido
<1>6. CASE SuspendidosAvisa
  <2>1. MutexesTipados'
    BY <1>6, TiposPorPartes, Zenon DEF SuspendidosAvisa, MutexesTipados
  <2>2. RestoTipado'
    BY <1>6, TiposPorPartes DEF SuspendidosAvisa, RestoTipado
  <2>. QED  BY <2>1, <2>2, Zenon DEF MutexesTipados, RestoTipado
<1>. QED  BY <1>1, <1>2, <1>3, <1>4, <1>5, <1>6
          DEF ComprobarEspacio, ComprobarSuspendidos

LEMMA TiposDelResto ==
    ASSUME TypeOK, NEW p \in Pid,
           \/ Crear(p) \/ Bloquear(p) \/ Suspender(p) \/ FinalizarIO(p)
           \/ Finalizar(p) \/ FallarDump(p)
    PROVE  TypeOK'
<1>. USE DEF TypeOK, semaforos, mutexes, hilos, Pasa, Estado
<1>1. CASE Crear(p)
  BY <1>1 DEF Crear
<1>2. CASE Bloquear(p)
  BY <1>2, PmcpAssumption DEF Bloquear
<1>3. CASE Suspender(p)
  BY <1>3 DEF Suspender
<1>4. CASE FinalizarIO(p)
  BY <1>4 DEF FinalizarIO
<1>5. CASE Finalizar(p)
  BY <1>5 DEF Finalizar
<1>6. CASE FallarDump(p)
  BY <1>6 DEF FallarDump
<1>. QED  BY <1>1, <1>2, <1>3, <1>4, <1>5, <1>6

LEMMA TiposTrasUnPaso == TypeOK /\ [Next]_vars => TypeOK'
<1>. SUFFICES ASSUME TypeOK, [Next]_vars PROVE TypeOK'
  OBVIOUS
<1>1. CASE UNCHANGED vars
  BY <1>1 DEF vars, semaforos, mutexes, hilos, TypeOK
<1>. QED  BY <1>1, TiposDelPlanificador, TiposDeLosQueAvisan, TiposDelResto
          DEF Next

\* No semaphore goes below zero, and every thread is at one of its waits.
THEOREM PmcpTipado == Spec => []TypeOK
BY TiposIniciales, TiposTrasUnPaso, PTL DEF Spec

-----------------------------------------------------------------------------
LEMMA RondasIniciales == Init => FichasLargo /\ RondaDeNuevos
<1>. SUFFICES ASSUME Init PROVE FichasLargo /\ RondaDeNuevos
  OBVIOUS
<1>1. Esperan = {}
  BY DEF Init, Esperan, En
<1>2. Cardinality(Esperan) = 0
  BY <1>1, FS_EmptySet
<1>. QED  BY <1>2 DEF Init, FichasLargo, RondaDeNuevos, EnRonda

\* The planner spends a round on a process that comes in, or on none when
\* the round was not needed, and gives it back to one that does not fit.
LEMMA RondasDelPlanificador ==
    ASSUME IInv, Planificador
    PROVE  FichasLargo' /\ RondaDeNuevos'
<1>. USE EsperanFinito DEF IInv, FichasLargo, RondaDeNuevos, EnRonda
<1>0. largo_plazo \in Nat
  BY DEF TypeOK
<1>1. CASE EsperarLargoPlazo
  BY <1>0, <1>1, MismosEsperan DEF EsperarLargoPlazo
<1>2. CASE RevisarSuspendidos
  <2>1. CASE En("SUSP_READY") = {} /\ planificador' = "new" /\ UNCHANGED <<estado, largo_plazo>>
    <3>1. Cardinality(En("SUSP_READY")') = 0
      BY <2>1, MismosEsperan, FS_EmptySet
    <3>. QED  BY <1>0, <1>2, <2>1, <3>1, MismosEsperan DEF RevisarSuspendidos
  <2>2. ASSUME NEW p \in En("SUSP_READY"), Pasa(p, "MEMORIA"),
               planificador' = "largo_plazo", UNCHANGED largo_plazo
        PROVE  FichasLargo' /\ RondaDeNuevos'
    <3>1. Cardinality(Esperan') = Cardinality(Esperan) - 1
      BY <2>2, DejaDeEsperar DEF Esperan
    <3>. QED  BY <1>0, <1>2, <2>2, <3>1 DEF RevisarSuspendidos
  <2>3. CASE /\ largo_plazo' = largo_plazo + 1 /\ planificador' = "sem_espacio"
             /\ UNCHANGED estado
    BY <1>0, <1>2, <2>3, MismosEsperan DEF RevisarSuspendidos
  <2>. QED  BY <1>2, <2>1, <2>2, <2>3 DEF RevisarSuspendidos, MasChicos
<1>3. CASE RevisarNuevos
  <2>1. CASE En("NEW") = {} /\ planificador' = "largo_plazo" /\ UNCHANGED estado
    <3>1. Esperan = En("SUSP_READY")
      BY <2>1 DEF Esperan
    <3>. QED  BY <1>0, <1>3, <2>1, <3>1, MismosEsperan
              DEF RevisarNuevos, semaforos
  <2>2. ASSUME NEW p \in En("NEW"), Pasa(p, "MEMORIA"),
               planificador' = "largo_plazo"
        PROVE  FichasLargo' /\ RondaDeNuevos'
    <3>1. Cardinality(Esperan') = Cardinality(Esperan) - 1
      BY <2>2, DejaDeEsperar DEF Esperan
    <3>. QED  BY <1>0, <1>3, <2>2, <3>1 DEF RevisarNuevos, semaforos
  <2>3. CASE planificador' = "sin_lugar" /\ UNCHANGED estado
    BY <1>0, <1>3, <2>3, MismosEsperan DEF RevisarNuevos, semaforos
  <2>. QED  BY <1>3, <2>1, <2>2, <2>3 DEF RevisarNuevos, MasChicos
<1>4. CASE Avisar
  BY <1>0, <1>4, MismosEsperan DEF Avisar
<1>5. CASE EsperarSuspOMemoria
  BY <1>5, MismosEsperan DEF EsperarSuspOMemoria, semaforos
<1>6. CASE TomarSemEspacio
  BY <1>6, MismosEsperan DEF TomarSemEspacio, semaforos
<1>7. CASE EsperarEspacioMemoria
  BY <1>7, MismosEsperan DEF EsperarEspacioMemoria
<1>. QED  BY <1>1, <1>2, <1>3, <1>4, <1>5, <1>6, <1>7 DEF Planificador

\* The threads that tell the planner touch neither its rounds nor the
\* processes.
LEMMA RondasDeLosQueAvisan ==
    ASSUME IInv, ComprobarEspacio \/ ComprobarSuspendidos
    PROVE  FichasLargo' /\ RondaDeNuevos'
<1>1. UNCHANGED <<estado, largo_plazo, planificador>>
  BY DEF ComprobarEspacio, EspacioEsperaPedido, EspacioTomaSem,
         EspacioEsperaEspacio, EspacioAvisa, ComprobarSuspendidos,
         SuspendidosEsperaPedido, SuspendidosAvisa, semaforos
<1>. QED  BY <1>1, MismosEsperan DEF IInv, FichasLargo, RondaDeNuevos, EnRonda

\* Every arrival brings a round with it.
LEMMA RondasDelResto ==
    ASSUME IInv, NEW p \in Pid,
           \/ Crear(p) \/ Bloquear(p) \/ Suspender(p) \/ FinalizarIO(p)
           \/ Finalizar(p) \/ FallarDump(p)
    PROVE  FichasLargo' /\ RondaDeNuevos'
<1>. USE EsperanFinito DEF IInv, FichasLargo, RondaDeNuevos, EnRonda
<1>0. /\ largo_plazo \in Nat
      /\ p \in Esperan <=> estado[p] \in {"NEW", "SUSP_READY"}
  BY DEF TypeOK, Esperan, En
<1>1. CASE Crear(p)
  <2>1. /\ Cardinality(Esperan') = Cardinality(Esperan) + 1
        /\ Cardinality(En("SUSP_READY")') = Cardinality(En("SUSP_READY"))
    BY <1>0, <1>1, EmpiezaAEsperar DEF Crear
  <2>. QED  BY <1>0, <1>1, <2>1 DEF Crear, hilos
<1>2. CASE FinalizarIO(p) /\ estado[p] = "SUSP_BLOCKED"
  <2>1. /\ Cardinality(Esperan') = Cardinality(Esperan) + 1
        /\ Cardinality(En("SUSP_READY")') = Cardinality(En("SUSP_READY")) + 1
    BY <1>0, <1>2, EmpiezaAEsperar DEF FinalizarIO
  <2>. QED  BY <1>0, <1>2, <2>1 DEF FinalizarIO, hilos
<1>3. CASE \/ Bloquear(p) \/ Suspender(p) \/ Finalizar(p) \/ FallarDump(p)
           \/ FinalizarIO(p) /\ estado[p] # "SUSP_BLOCKED"
  <2>1. /\ largo_plazo' >= largo_plazo /\ largo_plazo' \in Nat
        /\ UNCHANGED planificador
    BY <1>0, <1>3 DEF Bloquear, Suspender, Finalizar, FallarDump, FinalizarIO,
                      semaforos, hilos
  <2>2. \E e \in Estado \ {"NEW", "SUSP_READY"} : Pasa(p, e)
    BY <1>3 DEF Bloquear, Suspender, Finalizar, FallarDump, FinalizarIO, Estado
  <2>3. p \notin Esperan
    BY <1>0, <1>3 DEF Bloquear, Suspender, Finalizar, FallarDump, FinalizarIO
  <2>4. Esperan' = Esperan /\ En("SUSP_READY")' = En("SUSP_READY")
    BY <2>2, <2>3, SigueSinEsperar
  <2>. QED  BY <1>0, <2>1, <2>4
<1>. QED  BY <1>1, <1>2, <1>3

\* The planner never goes to sleep on largo_plazo while a process waits to be
\* brought in, however many arrive and whichever of its rounds fail.
THEOREM FichasLargoConservadas == Spec => []FichasLargo
<1>1. Init => IInv
  BY TiposIniciales, RondasIniciales DEF IInv
<1>2. IInv /\ [Next]_vars => IInv'
  <2>. SUFFICES ASSUME IInv, [Next]_vars PROVE IInv'
    OBVIOUS
  <2>1. TypeOK'
    BY TiposTrasUnPaso DEF IInv
  <2>2. CASE UNCHANGED vars
    <3>1. UNCHANGED <<estado, largo_plazo, planificador>>
      BY <2>2 DEF vars, semaforos, hilos
    <3>. QED  BY <2>1, <3>1, MismosEsperan
              DEF IInv, FichasLargo, RondaDeNuevos, EnRonda
  <2>. QED  BY <2>1, <2>2, RondasDelPlanificador, RondasDeLosQueAvisan,
               RondasDelResto DEF IInv, Next
<1>3. IInv => FichasLargo
  BY DEF IInv
<1>. QED  BY <1>1, <1>2, <1>3, PTL DEF Spec

-----------------------------------------------------------------------------
(* The wake-ups of a planner that waits for susp_o_memoria. *)

HayAviso == ~mutex_susp_o_memoria

\* A process that came back since the planner looked has a signal for the
\* thread of the swapped-out, or that thread has woken the planner.
SuspendidosAvisados ==
    planificador \in {"new", "sin_lugar", "susp_o_memoria"} =>
       En("SUSP_READY") = {} \/ proceso_suspendido_ready > 0 \/ HayAviso

\* A process that found no room does not fit yet, or the memory freed since
\* has a signal for comprobar_espacio, or that thread wakes the planner.
NuevosAvisados ==
    planificador \in {"sin_lugar", "susp_o_memoria"} =>
       \/ \E p \in En("NEW") : ~Entra(p)
       \/ espacio_memoria > 0 \/ espacio = "avisar" \/ HayAviso

\* Both threads were asked to tell, and have not told yet.
Encargados ==
    planificador = "susp_o_memoria" =>
       /\ suspendidos = "check" => check_susp_ready > 0 \/ HayAviso
       /\ espacio = "comprobar" => ~comprobar_memoria \/ HayAviso

\* Who has the turn to wait for memory is waiting for it.
Turno ==
    mutex_sem_espacio_memoria =>
       planificador = "espacio_memoria" \/ espacio = "espacio_memoria"

Avisos == SuspendidosAvisados /\ NuevosAvisados /\ Encargados /\ Turno

AvisosInv == TypeOK /\ Avisos

LEMMA AvisosIniciales == Init => Avisos
BY DEF Init, Avisos, SuspendidosAvisados, NuevosAvisados, Encargados, Turno

LEMMA AvisosBastan == AvisosInv => SinAvisoPerdido
<1>. SUFFICES ASSUME AvisosInv, planificador = "susp_o_memoria",
                     mutex_susp_o_memoria, EspacioDuerme, SuspendidosDuerme
              PROVE  /\ En("SUSP_READY") = {}
                     /\ \E p \in En("NEW") : ~Entra(p)
                     /\ espacio = "espacio_memoria"
  BY DEF SinAvisoPerdido
<1>1. ~HayAviso
  BY DEF HayAviso
<1>2. suspendidos # "check" \/ check_susp_ready > 0
  BY <1>1 DEF AvisosInv, Avisos, Encargados
<1>3. proceso_suspendido_ready = 0
  BY <1>2 DEF SuspendidosDuerme, AvisosInv, TypeOK
<1>4. espacio = "comprobar" => ~comprobar_memoria
  BY <1>1 DEF AvisosInv, Avisos, Encargados
<1>5. espacio = "sem_espacio" => ~mutex_sem_espacio_memoria
  BY DEF AvisosInv, Avisos, Turno
<1>6. espacio = "espacio_memoria" /\ espacio_memoria = 0
  BY <1>4, <1>5, Zenon DEF EspacioDuerme
<1>7. En("SUSP_READY") = {}
  BY <1>1, <1>3 DEF AvisosInv, Avisos, SuspendidosAvisados
<1>. QED  BY <1>1, <1>6, <1>7 DEF AvisosInv, Avisos, NuevosAvisados

\* With the same processes in memory the same ones fit.
LEMMA MismoLugar ==
    ASSUME Residentes' = Residentes, NEW p \in Pid
    PROVE  Entra(p)' <=> Entra(p)
BY DEF Entra

LEMMA MismoEstado ==
    ASSUME UNCHANGED estado
    PROVE  /\ En("SUSP_READY")' = En("SUSP_READY")
           /\ (\E p \in En("NEW") : ~Entra(p))'
                 <=> \E p \in En("NEW") : ~Entra(p)
<1>1. Residentes' = Residentes /\ En("NEW")' = En("NEW")
  BY DEF Residentes, En
<1>2. \A p \in Pid : Entra(p)' <=> Entra(p)
  BY <1>1, MismoLugar
<1>. QED  BY <1>1, <1>2 DEF En

\* The planner looks, does not find, and asks both threads.
LEMMA AvisosDelPlanificador ==
    ASSUME AvisosInv, Planificador
    PROVE  Avisos'
<1>. USE DEF AvisosInv, Avisos, SuspendidosAvisados, NuevosAvisados,
             Encargados, Turno, HayAviso
<1>0. /\ largo_plazo \in Nat /\ check_susp_ready \in Nat
  BY DEF TypeOK
<1>1. CASE EsperarLargoPlazo
  BY <1>1 DEF EsperarLargoPlazo, mutexes
<1>2. CASE RevisarSuspendidos
  <2>1. CASE En("SUSP_READY") = {} /\ planificador' = "new" /\ UNCHANGED estado
    BY <1>2, <2>1, MismoEstado DEF RevisarSuspendidos, mutexes
  <2>2. CASE planificador' \in {"largo_plazo", "sem_espacio"}
    BY <1>2, <2>2 DEF RevisarSuspendidos, mutexes
  <2>. QED  BY <1>2, <2>1, <2>2 DEF RevisarSuspendidos
<1>3. CASE RevisarNuevos
  <2>1. CASE planificador' = "largo_plazo"
    BY <1>3, <2>1 DEF RevisarNuevos, mutexes
  <2>2. ASSUME NEW p \in MasChicos(En("NEW")), ~Entra(p),
               planificador' = "sin_lugar", UNCHANGED estado
        PROVE  Avisos'
    <3>1. \E q \in En("NEW") : ~Entra(q)
      BY <2>2 DEF MasChicos
    <3>. QED  BY <1>3, <2>2, <3>1, MismoEstado
              DEF RevisarNuevos, semaforos, mutexes
  <2>. QED  BY <1>3, <2>1, <2>2 DEF RevisarNuevos
<1>4. CASE Avisar
  BY <1>0, <1>4, MismoEstado DEF Avisar
<1>5. CASE EsperarSuspOMemoria
  BY <1>5 DEF EsperarSuspOMemoria
<1>6. CASE TomarSemEspacio
  BY <1>6 DEF TomarSemEspacio
<1>7. CASE EsperarEspacioMemoria
  BY <1>7 DEF EsperarEspacioMemoria
<1>. QED  BY <1>1, <1>2, <1>3, <1>4, <1>5, <1>6, <1>7 DEF Planificador

\* Whoever takes the signal of a change wakes the planner later.
LEMMA AvisosDeLosQueAvisan ==
    ASSUME AvisosInv, ComprobarEspacio \/ ComprobarSuspendidos
    PROVE  Avisos'
<1>. USE DEF AvisosInv, Avisos, SuspendidosAvisados, NuevosAvisados,
             Encargados, Turno, HayAviso, semaforos
<1>1. CASE EspacioEsperaPedido
  BY <1>1, MismoEstado DEF EspacioEsperaPedido
<1>2. CASE EspacioTomaSem
  BY <1>2, MismoEstado DEF EspacioTomaSem
<1>3. CASE EspacioEsperaEspacio
  BY <1>3, MismoEstado DEF EspacioEsperaEspacio
<1>4. CASE EspacioAvisa
  BY <1>4, MismoEstado DEF EspacioAvisa
<1>5. CASE SuspendidosEsperaPedido
  BY <1>5, MismoEstado DEF SuspendidosEsperaPedido, mutexes
<1>6. CASE SuspendidosAvisa
  BY <1>6, MismoEstado DEF SuspendidosAvisa
<1>. QED  BY <1>1, <1>2, <1>3, <1>4, <1>5, <1>6
          DEF ComprobarEspacio, ComprobarSuspendidos

\* Whoever frees memory signals espacio_memoria, whoever comes back signals
\* proceso_suspendido_ready, and nobody else takes a process out of NEW.
LEMMA AvisosDelResto ==
    ASSUME AvisosInv, NEW p \in Pid,
           \/ Crear(p) \/ Bloquear(p) \/ Suspender(p) \/ FinalizarIO(p)
           \/ Finalizar(p) \/ FallarDump(p)
    PROVE  Avisos'
<1>0. /\ UNCHANGED <<mutexes, hilos, check_susp_ready>>
      /\ espacio_memoria \in Nat /\ proceso_suspendido_ready \in Nat
      /\ estado \in [Pid -> Estado]
  BY DEF AvisosInv, TypeOK, Crear, Bloquear, Suspender, FinalizarIO,
         Finalizar, FallarDump, semaforos
<1>1. Encargados' /\ Turno'
  BY <1>0 DEF AvisosInv, Avisos, Encargados, Turno, HayAviso, mutexes, hilos
<1>2. SuspendidosAvisados'
  <2>1. \/ En("SUSP_READY")' = En("SUSP_READY")
              /\ UNCHANGED proceso_suspendido_ready
        \/ proceso_suspendido_ready' = proceso_suspendido_ready + 1
    BY <1>0 DEF Crear, Bloquear, Suspender, FinalizarIO, Finalizar,
                FallarDump, Pasa, En, semaforos
  <2>. QED  BY <1>0, <2>1 DEF AvisosInv, Avisos, SuspendidosAvisados,
                              HayAviso, mutexes, hilos
<1>3. NuevosAvisados'
  <2>1. \/ espacio_memoria' = espacio_memoria + 1
        \/ /\ Residentes' = Residentes /\ En("NEW") \subseteq En("NEW")'
           /\ UNCHANGED espacio_memoria
    BY <1>0 DEF Crear, Bloquear, Suspender, FinalizarIO, Finalizar,
                FallarDump, Pasa, En, Residentes, semaforos
  <2>2. CASE espacio_memoria' = espacio_memoria + 1
    BY <1>0, <2>2 DEF NuevosAvisados
  <2>3. CASE /\ Residentes' = Residentes /\ En("NEW") \subseteq En("NEW")'
             /\ UNCHANGED espacio_memoria
    <3>1. \A q \in Pid : Entra(q)' <=> Entra(q)
      BY <2>3, MismoLugar
    <3>2. (\E q \in En("NEW") : ~Entra(q))
             => (\E q \in En("NEW") : ~Entra(q))'
      BY <2>3, <3>1 DEF En
    <3>. QED  BY <1>0, <2>3, <3>2 DEF AvisosInv, Avisos, NuevosAvisados,
                                      HayAviso, mutexes, hilos
  <2>. QED  BY <2>1, <2>2, <2>3
<1>. QED  BY <1>1, <1>2, <1>3 DEF Avisos

\* A planner that sleeps because a new process has no room is not the last
\* one to know: when both threads that could wake it sleep as well, nobody
\* came back from swap and there is still no room, for any processes, sizes
\* and number of operations.
THEOREM NingunAvisoSePierde == Spec => []SinAvisoPerdido
<1>1. Init => AvisosInv
  BY TiposIniciales, AvisosIniciales DEF AvisosInv
<1>2. AvisosInv /\ [Next]_vars => AvisosInv'
  <2>. SUFFICES ASSUME AvisosInv, [Next]_vars PROVE AvisosInv'
    OBVIOUS
  <2>1. TypeOK'
    BY TiposTrasUnPaso DEF AvisosInv
  <2>2. CASE UNCHANGED vars
    <3>1. UNCHANGED <<estado, semaforos, mutexes, hilos>>
      BY <2>2 DEF vars
    <3>. QED  BY <2>1, <3>1, MismoEstado
              DEF AvisosInv, Avisos, SuspendidosAvisados, NuevosAvisados,
                  Encargados, Turno, HayAviso, semaforos, mutexes, hilos
  <2>. QED  BY <2>1, <2>2, AvisosDelPlanificador, AvisosDeLosQueAvisan,
               AvisosDelResto DEF AvisosInv, Next
<1>3. AvisosInv => SinAvisoPerdido
  BY AvisosBastan
<1>. QED  BY <1>1, <1>2, <1>3, PTL DEF Spec
=============================================================================
