----------------------------- MODULE SrtProofs ------------------------------
(***************************************************************************)
(* Preemption for any number of processes and CPUs.  The invariants of the *)
(* first part of SrtProps hold however late the interrupts come, and those *)
(* of the second when Puntual.                                             *)
(*                                                                         *)
(* The units of the kernel change when a CPU answers, so what they are     *)
(* worth depends on what travels between both: the inductive invariant     *)
(* follows each interrupt from the planner to the CPU and back (Aviso) and *)
(* each context from the kernel to the CPU (Canal).                        *)
(***************************************************************************)
EXTENDS SrtProps, Listas

-----------------------------------------------------------------------------
(* The units and the queues: us is the set of units, e the state of every  *)
(* process, q how often it is in queue_ready, ls the free CPUs and d       *)
(* whether desalojando is locked.                                          *)

\* No two entries of a list of units are of one process.
SinDoble(s) == \A i, j \in DOMAIN s : s[i].proceso = s[j].proceso => i = j

\* CadaUnoEnSuLugar, on the set.
EnSuLugar(us, e, q) ==
    /\ \A u, v \in us : u.proceso = v.proceso => u = v
    /\ \A p \in Pid : q[p] = 0 \/ q[p] = 1
    /\ \A p \in Pid : q[p] = 1 => e[p] = "READY"
    /\ \A u \in us :
          /\ q[u.proceso] = 0
          /\ e[u.proceso] = IF u.modo = "AEJECUTAR" THEN "READY" ELSE "EXEC"
    /\ \A p \in Pid : e[p] = "READY" => q[p] = 1 \/ \E u \in us : u.proceso = p
    /\ \A p \in Pid : e[p] = "EXEC" => \E u \in us : u.proceso = p

\* A unit that is not INTERRUMPIDO has its CPU for itself, and every CPU that
\* is not free has one.
ConSuCpu(us, ls) ==
    /\ \A u \in us : u.modo # "INTERRUMPIDO" => u.cpu \notin ls
    /\ \A c \in Cpu \ ls : \E u \in us : u.cpu = c /\ u.modo # "INTERRUMPIDO"
    /\ \A u, v \in us :
          u.cpu = v.cpu /\ u.modo # "INTERRUMPIDO" /\ v.modo # "INTERRUMPIDO"
             => u = v

\* desalojando is locked while one unit is AEJECUTAR.
UnDesalojo(us, d) ==
    /\ d <=> \E u \in us : u.modo = "AEJECUTAR"
    /\ \A u, v \in us : u.modo = "AEJECUTAR" /\ v.modo = "AEJECUTAR" => u = v

Reparto(us, e, q, ls, d) ==
    EnSuLugar(us, e, q) /\ ConSuCpu(us, ls) /\ UnDesalojo(us, d)

\* A list of new processes has each once, in state NEW.
Nuevos(s, e) ==
    /\ \A i \in DOMAIN s : e[s[i]] = "NEW"
    /\ \A i, j \in DOMAIN s : s[i] = s[j] => i = j

Us == ToSet(unidades)

-----------------------------------------------------------------------------
(* What travels between the kernel and CPU c. *)

\* A process waits for the one that CPU c runs to leave.
Espera(us, c) == \E u \in us : u.cpu = c /\ u.modo = "AEJECUTAR"

\* p runs on CPU c, or is to leave it.
CorreEn(us, c, p) ==
    \E u \in us : /\ u.cpu = c /\ u.proceso = p
                  /\ \/ u.modo = "EJECUTANDO"
                     \/ u.modo = "INTERRUMPIDO" /\ Espera(us, c)

HayEspera(c) == Espera(Us, c)
Corre(c, p) == CorreEn(Us, c, p)

\* CPU c has sent INTERRUPCION and the kernel has not handled it.
PideDesalojo(c) ==
    \/ a_kernel[c] # Nada /\ a_kernel[c].motivo = "INTERRUPCION"
    \/ despacho[c] # Nada /\ despacho[c].motivo = "INTERRUPCION"

EnVuelo(c) == a_kernel[c] # Nada \/ despacho[c] # Nada

\* An interrupt is in one place at a time, the network, the flag or the
\* message INTERRUPCION, and the process it makes room for waits meanwhile.
Aviso(c) ==
    /\ PideDesalojo(c) => HayEspera(c)
    /\ flag_interrupcion[c] /\ fase[c] # "respuesta_int" =>
          HayEspera(c) /\ ~PideDesalojo(c)
    /\ interrupciones[c] > 0 =>
          /\ interrupciones[c] = 1 /\ HayEspera(c) /\ ~PideDesalojo(c)
          /\ flag_interrupcion[c] => fase[c] = "respuesta_int"

\* s is empty, or the context of a process that runs on c.
Vacio(s) == s = <<>>
UnContexto(s) == \E x \in Contexto : s = <<x>>
ParaCorrer(c, s) == \E x \in Contexto : s = <<x>> /\ Corre(c, x.pid)
TrasRespuesta(c, s) == \E x \in Contexto : s = <<OK, x>> /\ Corre(c, x.pid)
TrasResto(c, s) ==
    \E y, x \in Contexto : s = <<y, OK, x>> /\ Corre(c, x.pid)

\* A system call is on its way: the CPU waits, and its process has a unit.
CanalSyscall(c, p) ==
    /\ fase[c] = "respuesta" /\ Vacio(a_cpu[c])
    /\ Corre(c, p)

\* INTERRUPCION is on its way: the CPU has at most the context of the process
\* that it has not begun to run.
CanalDesalojo(c) ==
    \/ fase[c] = "respuesta_int" /\ (Vacio(a_cpu[c]) \/ UnContexto(a_cpu[c]))
    \/ fase[c] \in {"reset", "esperando"} /\ Vacio(a_cpu[c])

\* The CPU owes nothing to the kernel.
CanalLibre(c) ==
    \/ /\ fase[c] \in {"reset", "esperando"}
       /\ \/ Vacio(a_cpu[c]) \/ ParaCorrer(c, a_cpu[c])
          \/ TrasRespuesta(c, a_cpu[c])
    \/ /\ fase[c] \in {"ejecutando", "colgada"} /\ Vacio(a_cpu[c])
       /\ contexto[c] \in Contexto /\ Corre(c, contexto[c].pid)
    \/ /\ fase[c] = "control" /\ contexto[c] \in Contexto
       /\ IF contexto[c].pc = -1
          THEN Vacio(a_cpu[c]) \/ ParaCorrer(c, a_cpu[c])
          ELSE Vacio(a_cpu[c]) /\ Corre(c, contexto[c].pid)
    \/ /\ fase[c] = "respuesta"
       /\ a_cpu[c] = <<OK>> \/ TrasRespuesta(c, a_cpu[c])
    \/ /\ fase[c] = "respuesta_int"
       /\ TrasRespuesta(c, a_cpu[c]) \/ TrasResto(c, a_cpu[c])

Canal(c) ==
    /\ a_kernel[c] = Nada \/ despacho[c] = Nada
    /\ fase[c] = "respuesta" => contexto[c] \in Contexto
    /\ a_kernel[c] # Nada =>
          IF a_kernel[c].motivo = "INTERRUPCION" THEN CanalDesalojo(c)
          ELSE CanalSyscall(c, a_kernel[c].pid)
    /\ despacho[c] # Nada =>
          IF despacho[c].motivo = "INTERRUPCION" THEN CanalDesalojo(c)
          ELSE CanalSyscall(c, despacho[c].pid) /\ despacho[c].hallado
    /\ ~EnVuelo(c) => CanalLibre(c)

Inv ==
    /\ TypeOK /\ SinDoble(unidades) /\ Nuevos(queue_new, estado)
    /\ Reparto(Us, estado, queue_ready, libres, desalojando)
    /\ FichasCpu
    /\ \A c \in Cpu : Aviso(c) /\ Canal(c)

-----------------------------------------------------------------------------
(* The units as a set. *)

LEMMA ListaTipada ==
    ASSUME NEW S, NEW s \in Seq(S)
    PROVE  /\ Len(s) \in Nat /\ DOMAIN s = 1..Len(s)
           /\ \A i \in DOMAIN s : s[i] \in S
           /\ ToSet(s) \subseteq S
<1>1. Len(s) \in Nat /\ DOMAIN s = 1..Len(s) /\ \A i \in 1..Len(s) : s[i] \in S
  BY LenProperties, ElementOfSeq
<1> QED
  BY <1>1 DEF ToSet

LEMMA UnidadMas ==
    ASSUME NEW s \in Seq(Unidad), NEW u \in Unidad,
           SinDoble(s), \A v \in ToSet(s) : v.proceso # u.proceso
    PROVE  /\ Append(s, u) \in Seq(Unidad)
           /\ ToSet(Append(s, u)) = ToSet(s) \cup {u}
           /\ SinDoble(Append(s, u))
<1>1. /\ Len(s) \in Nat /\ DOMAIN s = 1..Len(s)
      /\ Append(s, u) \in Seq(Unidad)
      /\ DOMAIN Append(s, u) = 1..(Len(s) + 1)
      /\ Append(s, u)[Len(s) + 1] = u
      /\ \A i \in 1..Len(s) : Append(s, u)[i] = s[i]
  BY LenProperties, AppendProperties
<1>2. \A i \in DOMAIN Append(s, u) : i \in DOMAIN s \/ i = Len(s) + 1
  BY <1>1
<1>3. ToSet(Append(s, u)) = ToSet(s) \cup {u}
  BY <1>1, <1>2 DEF ToSet
<1>4. \A i \in DOMAIN s : s[i].proceso # u.proceso
  BY DEF ToSet
<1>5. SinDoble(Append(s, u))
  BY <1>1, <1>2, <1>4 DEF SinDoble
<1> QED
  BY <1>1, <1>3, <1>5

LEMMA UnidadMenos ==
    ASSUME NEW s \in Seq(Unidad), NEW i \in DOMAIN s, SinDoble(s)
    PROVE  /\ RemoveAt(s, i) \in Seq(Unidad)
           /\ ToSet(RemoveAt(s, i))
                 = {u \in ToSet(s) : u.proceso # s[i].proceso}
           /\ SinDoble(RemoveAt(s, i))
<1>1. RemoveAt(s, i) \in Seq(Unidad)
  BY RemoveAtProps
<1>2. /\ \A k \in DOMAIN s : k # i =>
            \E j \in DOMAIN RemoveAt(s, i) : RemoveAt(s, i)[j] = s[k]
      /\ \A j \in DOMAIN RemoveAt(s, i) :
            \E k \in DOMAIN s : k # i /\ RemoveAt(s, i)[j] = s[k]
      /\ \A j, l \in DOMAIN RemoveAt(s, i) : j # l =>
            \E k, m \in DOMAIN s : /\ k # m
                                   /\ RemoveAt(s, i)[j] = s[k]
                                   /\ RemoveAt(s, i)[l] = s[m]
  BY ListaRemoveAt
<1>3. ASSUME NEW u \in ToSet(RemoveAt(s, i))
      PROVE  u \in ToSet(s) /\ u.proceso # s[i].proceso
  BY <1>2 DEF ToSet, SinDoble
<1>4. ASSUME NEW u \in ToSet(s), u.proceso # s[i].proceso
      PROVE  u \in ToSet(RemoveAt(s, i))
  BY <1>2, <1>4 DEF ToSet
<1>5. SinDoble(RemoveAt(s, i))
  BY <1>2 DEF SinDoble
<1> QED
  BY <1>1, <1>3, <1>4, <1>5

\* The i-th unit changes its mode.
LEMMA UnidadCambia ==
    ASSUME NEW s \in Seq(Unidad), NEW i \in DOMAIN s, NEW m \in Modos,
           SinDoble(s)
    PROVE  LET t == [s EXCEPT ![i].modo = m]
               x == [s[i] EXCEPT !.modo = m]
           IN  /\ t \in Seq(Unidad) /\ DOMAIN t = DOMAIN s
               /\ \A k \in DOMAIN s : t[k] = IF k = i THEN x ELSE s[k]
               /\ x \in Unidad /\ x.proceso = s[i].proceso
               /\ x.cpu = s[i].cpu /\ x.modo = m
               /\ ToSet(t) = {u \in ToSet(s) : u.proceso # s[i].proceso} \cup {x}
               /\ SinDoble(t)
<1> DEFINE t == [s EXCEPT ![i].modo = m]
           x == [s[i] EXCEPT !.modo = m]
<1>1. Len(s) \in Nat /\ DOMAIN s = 1..Len(s) /\ s[i] \in Unidad
  BY ListaTipada
<1>2. x \in Unidad /\ x.proceso = s[i].proceso /\ x.cpu = s[i].cpu /\ x.modo = m
  BY <1>1 DEF Unidad
<1>3. /\ DOMAIN t = DOMAIN s
      /\ \A k \in DOMAIN s : t[k] = IF k = i THEN x ELSE s[k]
  BY <1>1
<1>4. t \in Seq(Unidad)
  <2>1. t = [s EXCEPT ![i] = x]
    OBVIOUS
  <2> QED
    BY <1>1, <1>2, <2>1, ExceptSeq
<1> HIDE DEF t, x
<1>5. SinDoble(t)
  BY <1>2, <1>3 DEF SinDoble
<1>6. ToSet(t) = {u \in ToSet(s) : u.proceso # s[i].proceso} \cup {x}
  <2>1. ASSUME NEW u \in ToSet(t)
        PROVE  u \in {v \in ToSet(s) : v.proceso # s[i].proceso} \cup {x}
    BY <1>2, <1>3 DEF ToSet, SinDoble
  <2>2. ASSUME NEW u \in ToSet(s), u.proceso # s[i].proceso
        PROVE  u \in ToSet(t)
    BY <1>3, <2>2 DEF ToSet
  <2>3. x \in ToSet(t)
    BY <1>3 DEF ToSet
  <2> QED
    BY <2>1, <2>2, <2>3
<1> QED
  BY <1>2, <1>3, <1>4, <1>5, <1>6 DEF t, x

-----------------------------------------------------------------------------
(* What each change of the units does to the distribution, and to what     *)
(* runs on each CPU.                                                       *)

Unidad0(p, c, m) == [proceso |-> p, cpu |-> c, modo |-> m]

\* Everything that ran or waited on a CPU does so after the change.
Conserva(us, vs) ==
    \A c \in Cpu : /\ Espera(us, c) => Espera(vs, c)
                   /\ \A p \in Pid : CorreEn(us, c, p) => CorreEn(vs, c, p)

\* A ready process takes a free CPU.
LEMMA RepartoEjecuta ==
    ASSUME NEW us \in SUBSET Unidad, NEW e \in [Pid -> Estados],
           NEW q \in [Pid -> Nat], NEW ls \in SUBSET Cpu, NEW d,
           NEW p \in Pid, NEW c \in ls, q[p] > 0, Reparto(us, e, q, ls, d)
    PROVE  LET u == Unidad0(p, c, "EJECUTANDO") IN
           /\ \A v \in us : v.proceso # p
           /\ Reparto(us \cup {u}, [e EXCEPT ![p] = "EXEC"],
                      [q EXCEPT ![p] = @ - 1], ls \ {c}, d)
           /\ Conserva(us, us \cup {u}) /\ CorreEn(us \cup {u}, c, p)
<1> DEFINE u == Unidad0(p, c, "EJECUTANDO")
           vs == us \cup {u}
           f == [e EXCEPT ![p] = "EXEC"]
           r == [q EXCEPT ![p] = @ - 1]
<1>1. u.proceso = p /\ u.cpu = c /\ u.modo = "EJECUTANDO"
  BY DEF Unidad0
<1>2. q[p] = 1
  BY DEF Reparto, EnSuLugar
<1>3. \A v \in us : v.proceso # p /\ v.proceso \in Pid
  BY <1>2 DEF Reparto, EnSuLugar, Unidad
<1>4. /\ f[p] = "EXEC" /\ r[p] = 0
      /\ \A x \in Pid : x # p => f[x] = e[x] /\ r[x] = q[x]
  BY <1>2
<1> HIDE DEF u, f, r
<1>5. EnSuLugar(vs, f, r)
  BY <1>1, <1>3, <1>4 DEF Reparto, EnSuLugar
<1>6. ConSuCpu(vs, ls \ {c})
  BY <1>1 DEF Reparto, ConSuCpu
<1>7. UnDesalojo(vs, d)
  BY <1>1 DEF Reparto, UnDesalojo
<1>8. Conserva(us, vs) /\ CorreEn(vs, c, p)
  BY <1>1 DEF Conserva, CorreEn, Espera
<1> QED
  BY <1>3, <1>5, <1>6, <1>7, <1>8 DEF Reparto, u, f, r

\* The process of unit u is to leave its CPU for the ready process r.
LEMMA RepartoDesaloja ==
    ASSUME NEW us \in SUBSET Unidad, NEW e \in [Pid -> Estados],
           NEW q \in [Pid -> Nat], NEW ls \in SUBSET Cpu,
           NEW r \in Pid, NEW u \in us, u.modo = "EJECUTANDO", q[r] > 0,
           Reparto(us, e, q, ls, FALSE)
    PROVE  LET x == Unidad0(u.proceso, u.cpu, "INTERRUMPIDO")
               y == Unidad0(r, u.cpu, "AEJECUTAR")
               vs == ({v \in us : v.proceso # u.proceso} \cup {x}) \cup {y}
           IN  /\ \A v \in us : v.proceso # r
               /\ Reparto(vs, e, [q EXCEPT ![r] = @ - 1], ls, TRUE)
               /\ Conserva(us, vs) /\ Espera(vs, u.cpu)
<1> DEFINE x == Unidad0(u.proceso, u.cpu, "INTERRUMPIDO")
           y == Unidad0(r, u.cpu, "AEJECUTAR")
           vs == ({v \in us : v.proceso # u.proceso} \cup {x}) \cup {y}
           s == [q EXCEPT ![r] = @ - 1]
<1>1. /\ x.proceso = u.proceso /\ x.cpu = u.cpu /\ x.modo = "INTERRUMPIDO"
      /\ y.proceso = r /\ y.cpu = u.cpu /\ y.modo = "AEJECUTAR"
  BY DEF Unidad0
<1>2. q[r] = 1 /\ e[r] = "READY"
  BY DEF Reparto, EnSuLugar
<1>3. \A v \in us : v.proceso # r /\ v.proceso \in Pid
  BY <1>2 DEF Reparto, EnSuLugar, Unidad
<1>4. /\ s[r] = 0
      /\ \A z \in Pid : z # r => s[z] = q[z]
  BY <1>2
<1> HIDE DEF x, y, s
<1>5. /\ \A v \in vs : v = x \/ v = y \/ (v \in us /\ v.proceso # u.proceso)
      /\ x \in vs /\ y \in vs
      /\ \A v \in us : v = u \/ v \in vs
  <2>1. \A v \in us : v = u \/ v.proceso # u.proceso
    BY DEF Reparto, EnSuLugar
  <2>2. \A v \in us : v = u \/ v \in vs
    BY <2>1
  <2>3. \A v \in vs : v = x \/ v = y \/ (v \in us /\ v.proceso # u.proceso)
    OBVIOUS
  <2> QED
    BY <2>2, <2>3
<1> HIDE DEF vs
<1>6. EnSuLugar(vs, e, s)
  BY <1>1, <1>2, <1>3, <1>4, <1>5 DEF Reparto, EnSuLugar
<1>7. ConSuCpu(vs, ls)
  BY <1>1, <1>5 DEF Reparto, ConSuCpu
<1>8. UnDesalojo(vs, TRUE)
  BY <1>1, <1>5 DEF Reparto, UnDesalojo
<1>9. Conserva(us, vs) /\ Espera(vs, u.cpu)
  BY <1>1, <1>5 DEF Conserva, CorreEn, Espera
<1> QED
  BY <1>3, <1>6, <1>7, <1>8, <1>9 DEF Reparto, x, y, s, vs

\* What is left when the process of unit u leaves its CPU for the state x.
Salida(us, e, q, ls, d, u, x) ==
    LET p == u.proceso
        vs == {v \in us : v.proceso # p}
        ms == ls \cup (IF u.modo = "EJECUTANDO" THEN {u.cpu} ELSE {})
        r == IF x = "READY" THEN [q EXCEPT ![p] = @ + 1] ELSE q
    IN  /\ Reparto(vs, [e EXCEPT ![p] = x], r, ms, d)
        /\ \A c \in Cpu : Espera(us, c) => Espera(vs, c)
        /\ \A c \in Cpu, z \in Pid :
              CorreEn(us, c, z) /\ z # p => CorreEn(vs, c, z)
        /\ \A c \in Cpu : CorreEn(us, c, p) => c = u.cpu
        /\ u.modo = "EJECUTANDO" => u.cpu \notin ls

\* The process of unit u, which a CPU runs, leaves it: the CPU is free unless
\* another process waits for it.
LEMMA RepartoSale ==
    ASSUME NEW us \in SUBSET Unidad, NEW e \in [Pid -> Estados],
           NEW q \in [Pid -> Nat], NEW ls \in SUBSET Cpu, NEW d,
           NEW u \in us, u.modo # "AEJECUTAR", Reparto(us, e, q, ls, d),
           NEW x \in {"BLOCKED", "LIBERADO", "READY"}
    PROVE  Salida(us, e, q, ls, d, u, x)
<1> DEFINE p == u.proceso
           vs == {v \in us : v.proceso # p}
           ms == ls \cup (IF u.modo = "EJECUTANDO" THEN {u.cpu} ELSE {})
           f == [e EXCEPT ![p] = x]
           r == IF x = "READY" THEN [q EXCEPT ![p] = @ + 1] ELSE q
<1>1. p \in Pid /\ u.cpu \in Cpu /\ q[p] = 0 /\ e[p] = "EXEC"
  BY DEF Reparto, EnSuLugar, Unidad
<1>2. /\ f[p] = x /\ r[p] = IF x = "READY" THEN 1 ELSE 0
      /\ \A z \in Pid : z # p => f[z] = e[z] /\ r[z] = q[z]
  BY <1>1
<1>3. /\ \A v \in us : v = u \/ v \in vs
      /\ \A v \in vs : v \in us /\ v.proceso # p /\ v.proceso \in Pid
  <2>1. \A v \in us : v = u \/ v.proceso # u.proceso
    BY DEF Reparto, EnSuLugar
  <2> QED
    BY <2>1 DEF Unidad
<1>4. u.modo \in Modos
  BY DEF Unidad
<1> HIDE DEF f, r, vs
<1>5. EnSuLugar(vs, f, r)
  BY <1>1, <1>2, <1>3 DEF Reparto, EnSuLugar
<1>6. ConSuCpu(vs, ms) /\ (u.modo = "EJECUTANDO" => u.cpu \notin ls)
  BY <1>3, <1>4 DEF Reparto, ConSuCpu, Modos
<1>7. UnDesalojo(vs, d)
  BY <1>3 DEF Reparto, UnDesalojo
<1>8. \A c \in Cpu : Espera(us, c) => Espera(vs, c)
  BY <1>3 DEF Espera
<1>9. /\ \A c \in Cpu, z \in Pid :
            CorreEn(us, c, z) /\ z # p => CorreEn(vs, c, z)
      /\ \A c \in Cpu : CorreEn(us, c, p) => c = u.cpu
  BY <1>3, <1>8 DEF CorreEn
<1> QED
  BY <1>5, <1>6, <1>7, <1>8, <1>9 DEF Reparto, Salida, f, r, vs

\* The process of unit y, which waited for CPU c, takes it.
LEMMA RepartoReemplaza ==
    ASSUME NEW us \in SUBSET Unidad, NEW e \in [Pid -> Estados],
           NEW q \in [Pid -> Nat], NEW ls \in SUBSET Cpu, NEW d,
           NEW y \in us, y.modo = "AEJECUTAR", Reparto(us, e, q, ls, d)
    PROVE  LET x == Unidad0(y.proceso, y.cpu, "EJECUTANDO")
               vs == {v \in us : v.proceso # y.proceso} \cup {x}
           IN  /\ Reparto(vs, [e EXCEPT ![y.proceso] = "EXEC"], q, ls, FALSE)
               /\ x \in vs /\ CorreEn(vs, y.cpu, y.proceso)
               /\ \A c \in Cpu : Espera(us, c) => c = y.cpu
               /\ \A c \in Cpu, z \in Pid :
                     CorreEn(us, c, z) /\ c # y.cpu => CorreEn(vs, c, z)
<1> DEFINE p == y.proceso
           x == Unidad0(p, y.cpu, "EJECUTANDO")
           vs == {v \in us : v.proceso # p} \cup {x}
           f == [e EXCEPT ![p] = "EXEC"]
<1>1. x.proceso = p /\ x.cpu = y.cpu /\ x.modo = "EJECUTANDO"
  BY DEF Unidad0
<1>2. p \in Pid /\ y.cpu \in Cpu /\ q[p] = 0 /\ e[p] = "READY"
  BY DEF Reparto, EnSuLugar, Unidad
<1>3. f[p] = "EXEC" /\ \A z \in Pid : z # p => f[z] = e[z]
  BY <1>2
<1> HIDE DEF x, f
<1>4. /\ \A v \in us : v = y \/ v \in vs
      /\ \A v \in vs : v = x \/ (v \in us /\ v.proceso # p /\ v.proceso \in Pid)
      /\ x \in vs
  <2>1. \A v \in us : v = y \/ v.proceso # p
    BY DEF Reparto, EnSuLugar
  <2>2. \A v \in us : v.proceso \in Pid
    BY DEF Unidad
  <2> HIDE DEF p
  <2>3. \A v \in us : v = y \/ v \in vs
    BY <2>1
  <2>4. \A v \in vs : v = x \/ (v \in us /\ v.proceso # p)
    OBVIOUS
  <2> QED
    BY <2>2, <2>3, <2>4
<1>5. \A v \in us : v.modo = "AEJECUTAR" => v = y
  BY DEF Reparto, UnDesalojo
<1> HIDE DEF vs
<1>6. EnSuLugar(vs, f, q)
  BY <1>1, <1>2, <1>3, <1>4 DEF Reparto, EnSuLugar
<1>7. ConSuCpu(vs, ls)
  BY <1>1, <1>4 DEF Reparto, ConSuCpu
<1>8. \A v \in vs : v.modo # "AEJECUTAR"
  BY <1>1, <1>4, <1>5
<1>9. UnDesalojo(vs, FALSE)
  BY <1>8 DEF UnDesalojo
<1>10. \A c \in Cpu : Espera(us, c) => c = y.cpu
  BY <1>5 DEF Espera
<1>11. /\ CorreEn(vs, y.cpu, p)
       /\ \A c \in Cpu, z \in Pid :
             CorreEn(us, c, z) /\ c # y.cpu => CorreEn(vs, c, z)
  BY <1>1, <1>4, <1>10 DEF CorreEn
<1> QED
  BY <1>4, <1>6, <1>7, <1>9, <1>10, <1>11 DEF Reparto, x, f, vs

\* A process that has no unit changes its state.
LEMMA RepartoPasa ==
    ASSUME NEW us \in SUBSET Unidad, NEW e \in [Pid -> Estados],
           NEW q \in [Pid -> Nat], NEW ls, NEW d,
           NEW p \in Pid, e[p] \in {"SIN_CREAR", "NEW", "BLOCKED"},
           NEW x \in {"NEW", "READY"}, Reparto(us, e, q, ls, d)
    PROVE  Reparto(us, [e EXCEPT ![p] = x],
                   IF x = "READY" THEN [q EXCEPT ![p] = @ + 1] ELSE q, ls, d)
<1> DEFINE f == [e EXCEPT ![p] = x]
           r == IF x = "READY" THEN [q EXCEPT ![p] = @ + 1] ELSE q
<1>1. q[p] = 0 /\ \A u \in us : u.proceso # p /\ u.proceso \in Pid
  BY DEF Reparto, EnSuLugar, Unidad
<1>2. /\ f[p] = x /\ r[p] = IF x = "READY" THEN 1 ELSE 0
      /\ \A z \in Pid : z # p => f[z] = e[z] /\ r[z] = q[z]
  BY <1>1
<1> HIDE DEF f, r
<1>3. EnSuLugar(us, f, r)
  BY <1>1, <1>2 DEF Reparto, EnSuLugar
<1> QED
  BY <1>3 DEF Reparto, f, r

-----------------------------------------------------------------------------
(* What travels between the kernel and a CPU, when others act. *)

\* Nothing about CPU c but its units changes.
MismoCanal(c) ==
    /\ a_kernel'[c] = a_kernel[c] /\ despacho'[c] = despacho[c]
    /\ a_cpu'[c] = a_cpu[c]
    /\ fase'[c] = fase[c] /\ contexto'[c] = contexto[c]

Quieta(c) ==
    /\ MismoCanal(c)
    /\ interrupciones'[c] = interrupciones[c]
    /\ flag_interrupcion'[c] = flag_interrupcion[c]

\* Whatever ran on CPU c or waited for it still does.
Sigue(c) ==
    /\ HayEspera(c) => HayEspera(c)'
    /\ \A p \in Pid : Corre(c, p) => Corre(c, p)'

LEMMA AvisoQuieto ==
    ASSUME NEW c \in Cpu, Aviso(c), PideDesalojo(c)' => PideDesalojo(c),
           interrupciones'[c] = interrupciones[c],
           flag_interrupcion'[c] = flag_interrupcion[c], fase'[c] = fase[c],
           HayEspera(c) => HayEspera(c)'
    PROVE  Aviso(c)'
BY DEF Aviso

LEMMA CanalQuieto ==
    ASSUME NEW c \in Cpu, TypeOK, Canal(c), MismoCanal(c), Sigue(c)
    PROVE  Canal(c)'
<1>1. /\ a_kernel[c] # Nada => a_kernel[c].pid \in Pid
      /\ despacho[c] # Nada => despacho[c].pid \in Pid
  BY DEF TypeOK, Mensaje, Atencion
<1>2. \A x \in Contexto : x.pid \in Pid
  BY DEF Contexto
<1>3. ASSUME CanalDesalojo(c) PROVE CanalDesalojo(c)'
  BY <1>3 DEF CanalDesalojo, MismoCanal, Vacio, UnContexto
<1>4. ASSUME NEW p \in Pid, CanalSyscall(c, p) PROVE CanalSyscall(c, p)'
  BY <1>4 DEF CanalSyscall, MismoCanal, Vacio, Sigue
<1>5. ASSUME CanalLibre(c) PROVE CanalLibre(c)'
  <2>1. /\ ParaCorrer(c, a_cpu[c]) => ParaCorrer(c, a_cpu[c])'
        /\ TrasRespuesta(c, a_cpu[c]) => TrasRespuesta(c, a_cpu[c])'
        /\ TrasResto(c, a_cpu[c]) => TrasResto(c, a_cpu[c])'
        /\ Vacio(a_cpu[c])' <=> Vacio(a_cpu[c])
    BY <1>2 DEF ParaCorrer, TrasRespuesta, TrasResto, Vacio, MismoCanal, Sigue
  <2>2. \A p \in Pid : Corre(c, p) => Corre(c, p)'
    BY DEF Sigue
  <2> QED
    BY <1>2, <1>5, <2>1, <2>2 DEF CanalLibre, MismoCanal
<1>6. /\ a_kernel'[c] = a_kernel[c] /\ despacho'[c] = despacho[c]
      /\ fase'[c] = fase[c] /\ contexto'[c] = contexto[c]
  BY DEF MismoCanal
<1> QED
  BY <1>1, <1>3, <1>4, <1>5, <1>6 DEF Canal, EnVuelo

\* The other CPUs, when only CPU c, or none, acts or is sent something.
LEMMA CanalesAjenos ==
    ASSUME Inv, NEW S \in SUBSET Cpu, \A d \in S : Quieta(d) /\ Sigue(d)
    PROVE  \A d \in S : Aviso(d)' /\ Canal(d)'
<1> SUFFICES ASSUME NEW d \in S PROVE Aviso(d)' /\ Canal(d)'
  OBVIOUS
<1>1. TypeOK /\ Aviso(d) /\ Canal(d) /\ Quieta(d) /\ Sigue(d)
  BY DEF Inv
<1>2. PideDesalojo(d)' => PideDesalojo(d)
  BY <1>1 DEF Quieta, MismoCanal, PideDesalojo
<1>3. Aviso(d)'
  BY <1>1, <1>2, AvisoQuieto DEF Quieta, MismoCanal, Sigue
<1>4. Canal(d)'
  BY <1>1, CanalQuieto DEF Quieta
<1> QED
  BY <1>3, <1>4

\* Type correctness in two parts: the kernel, and what it shares with the CPUs.
TipoNucleo ==
    /\ estado \in [Pid -> Estados]
    /\ queue_new \in Seq(Pid)
    /\ queue_ready \in [Pid -> Nat]
    /\ unidades \in Seq(Unidad)
    /\ libres \in SUBSET Cpu
    /\ planificacion_principal \in Nat /\ proceso_ready \in Nat
    /\ cpu_libre \in Nat /\ check_desalojo \in Nat
    /\ desalojando \in BOOLEAN
    /\ corto \in {"principal", "proceso_ready", "cpu_libre", "planificar"}
    /\ desalojador \in {"check_desalojo", "desalojando"}
    /\ desalojos \in 0..MaxDesalojos

TipoCanales ==
    /\ program_counter \in [Pid -> {0, -1}]
    /\ syscalls \in 0..MaxSyscalls
    /\ despacho \in [Cpu -> Atencion \cup {Nada}]
    /\ a_kernel \in [Cpu -> Mensaje \cup {Nada}]
    /\ a_cpu \in [Cpu -> Seq(Contexto \cup {OK})]
    /\ interrupciones \in [Cpu -> Nat]
    /\ flag_interrupcion \in [Cpu -> BOOLEAN]
    /\ fase \in [Cpu -> Fases]
    /\ contexto \in [Cpu -> Contexto \cup {Nada}]

LEMMA TiposPorPartes ==
    /\ TypeOK <=> TipoNucleo /\ TipoCanales
    /\ TypeOK' <=> TipoNucleo' /\ TipoCanales'
BY Zenon DEF TypeOK, TipoNucleo, TipoCanales

\* A step of CPU c leaves the kernel alone.
LEMMA PasoDeCpu ==
    ASSUME Inv, NEW c \in Cpu, UNCHANGED kernelVars, TipoCanales',
           \A d \in Cpu \ {c} : Quieta(d), Aviso(c)', Canal(c)'
    PROVE  Inv'
<1>1. Us' = Us
  BY DEF kernelVars, Us
<1>2. \A d \in Cpu \ {c} : Sigue(d)
  BY <1>1 DEF Sigue, HayEspera, Corre
<1>3. \A d \in Cpu : Aviso(d)' /\ Canal(d)'
  BY <1>2, CanalesAjenos
<1>4. TypeOK'
  <2>1. TipoNucleo
    BY TiposPorPartes DEF Inv
  <2>2. TipoNucleo'
    BY <2>1 DEF TipoNucleo, kernelVars, colas, semaforos, hilos
  <2> QED
    BY <2>2, TiposPorPartes
<1>5. /\ SinDoble(unidades)' /\ Nuevos(queue_new, estado)'
      /\ Reparto(Us, estado, queue_ready, libres, desalojando)'
      /\ FichasCpu'
  BY <1>1 DEF Inv, kernelVars, colas, semaforos, hilos, SinDoble, Nuevos,
              Reparto, EnSuLugar, ConSuCpu, UnDesalojo, FichasCpu
<1> QED
  BY <1>3, <1>4, <1>5 DEF Inv

-----------------------------------------------------------------------------
(* The words on a connection. *)

LEMMA UnirDos ==
    ASSUME NEW a, NEW b, NEW d
    PROVE  <<a>> \o <<b, d>> = <<a, b, d>>
<1> DEFINE S == {a, b, d}
           s == <<a>> \o <<b, d>>
           t == <<a, b, d>>
<1>1. <<a>> \in Seq(S) /\ <<b, d>> \in Seq(S) /\ t \in Seq(S)
  OBVIOUS
<1>2. Len(<<a>>) = 1 /\ Len(<<b, d>>) = 2 /\ Len(t) = 3
  OBVIOUS
<1>3. /\ <<a>>[1] = a /\ <<b, d>>[1] = b /\ <<b, d>>[2] = d
      /\ t[1] = a /\ t[2] = b /\ t[3] = d
  OBVIOUS
<1>4. /\ s \in Seq(S) /\ Len(s) = 3
      /\ s[1] = a /\ s[2] = b /\ s[3] = d
  BY <1>1, <1>2, <1>3, ConcatProperties
<1>5. \A i \in 1..3 : i = 1 \/ i = 2 \/ i = 3
  OBVIOUS
<1>6. \A i \in 1..3 : s[i] = t[i]
  BY <1>3, <1>4, <1>5
<1> HIDE DEF s, t, S
<1>7. s = t
  BY <1>1, <1>2, <1>4, <1>6, SeqEqual
<1> QED
  BY <1>7 DEF s, t

LEMMA Palabras ==
    ASSUME NEW a, NEW b, NEW d
    PROVE  /\ <<a>> # <<>> /\ <<a, b>> # <<>> /\ <<a, b, d>> # <<>>
           /\ Head(<<a>>) = a /\ Head(<<a, b>>) = a /\ Head(<<a, b, d>>) = a
           /\ Tail(<<a>>) = <<>> /\ Tail(<<a, b>>) = <<b>>
           /\ Tail(<<a, b, d>>) = <<b, d>>
           /\ <<>> \o <<a>> = <<a>> /\ <<>> \o <<a, b>> = <<a, b>>
           /\ <<a>> \o <<b>> = <<a, b>>
<1> DEFINE S == {a, b, d}
<1>1. /\ <<>> \in Seq(S) /\ <<a>> \in Seq(S) /\ <<b>> \in Seq(S)
      /\ <<a, b>> \in Seq(S) /\ <<b, d>> \in Seq(S) /\ <<a, b, d>> \in Seq(S)
  OBVIOUS
<1>2. /\ Len(<<a>>) = 1 /\ Len(<<a, b>>) = 2 /\ Len(<<a, b, d>>) = 3
      /\ Len(<<b, d>>) = 2 /\ Len(<<b>>) = 1 /\ Len(<<>>) = 0
  OBVIOUS
<1>3. /\ <<a>>[1] = a /\ <<a, b>>[1] = a /\ <<a, b>>[2] = b
      /\ <<a, b, d>>[1] = a /\ <<a, b, d>>[2] = b /\ <<a, b, d>>[3] = d
  OBVIOUS
<1>4. <<a>> # <<>> /\ <<a, b>> # <<>> /\ <<a, b, d>> # <<>>
  BY <1>2
<1>5. Head(<<a>>) = a
  OBVIOUS
<1>6. Head(<<a, b>>) = a
  OBVIOUS
<1>7. Head(<<a, b, d>>) = a
  OBVIOUS
<1>8. Tail(<<a>>) = <<>>
  OBVIOUS
<1>9. Tail(<<a, b>>) = <<b>>
  OBVIOUS
<1>10. Tail(<<a, b, d>>) = <<b, d>>
  OBVIOUS
<1>11. <<>> \o <<a>> = <<a>>
  OBVIOUS
<1>12. <<>> \o <<a, b>> = <<a, b>>
  OBVIOUS
<1>13. <<a>> \o <<b>> = <<a, b>>
  <2> DEFINE s == <<a>> \o <<b>>
             t == <<a, b>>
  <2>1. /\ s \in Seq(S) /\ Len(s) = 2
        /\ s[1] = a /\ s[2] = b
    BY <1>1, <1>2, <1>3, ConcatProperties
  <2>2. t \in Seq(S) /\ Len(t) = 2 /\ t[1] = a /\ t[2] = b
    BY <1>1, <1>2, <1>3
  <2>3. \A i \in 1..2 : i = 1 \/ i = 2
    OBVIOUS
  <2> HIDE DEF s, t, S
  <2>4. \A i \in 1..2 : s[i] = t[i]
    BY <2>1, <2>2, <2>3
  <2>5. s = t
    BY <2>1, <2>2, <2>4, SeqEqual
  <2> QED
    BY <2>5 DEF s, t
<1> QED
  BY <1>4, <1>5, <1>6, <1>7, <1>8, <1>9, <1>10, <1>11, <1>12, <1>13

-----------------------------------------------------------------------------
(* The steps of the CPUs. *)

LEMMA MismasUnidades ==
    ASSUME UNCHANGED unidades, NEW c \in Cpu
    PROVE  /\ HayEspera(c)' <=> HayEspera(c)
           /\ \A p : Corre(c, p)' <=> Corre(c, p)
           /\ Sigue(c)
BY DEF Sigue, HayEspera, Corre, Us

LEMMA PasoLlegaInterrupcion ==
    ASSUME Inv, NEW c \in Cpu, LlegaInterrupcion(c)
    PROVE  Inv'
<1>1. TipoCanales /\ TypeOK /\ Aviso(c) /\ Canal(c)
  BY TiposPorPartes DEF Inv
<1>2. /\ interrupciones[c] > 0 /\ fase[c] # "respuesta_int"
      /\ interrupciones' = [interrupciones EXCEPT ![c] = @ - 1]
      /\ flag_interrupcion' = [flag_interrupcion EXCEPT ![c] = TRUE]
      /\ UNCHANGED <<kernelVars, program_counter, syscalls, despacho,
                     a_kernel, a_cpu, fase, contexto>>
  BY DEF LlegaInterrupcion
<1>3. TipoCanales'
  BY <1>1, <1>2 DEF TipoCanales
<1>4. UNCHANGED unidades
  BY <1>2 DEF kernelVars
<1>5. Canal(c)'
  BY <1>1, <1>2, <1>4, MismasUnidades, CanalQuieto DEF MismoCanal
<1>6. interrupciones'[c] = 0 /\ interrupciones[c] = 1 /\ flag_interrupcion'[c]
  BY <1>1, <1>2 DEF Aviso, TipoCanales
<1>7. PideDesalojo(c)' <=> PideDesalojo(c)
  BY <1>2 DEF PideDesalojo
<1>8. Aviso(c)'
  BY <1>1, <1>2, <1>4, <1>6, <1>7, MismasUnidades DEF Aviso
<1>9. \A d \in Cpu \ {c} : Quieta(d)
  BY <1>1, <1>2 DEF Quieta, MismoCanal, TipoCanales
<1> QED
  BY <1>2, <1>3, <1>5, <1>8, <1>9, PasoDeCpu

LEMMA PasoReiniciar ==
    ASSUME Inv, NEW c \in Cpu, Reiniciar(c)
    PROVE  Inv'
<1>1. TipoCanales /\ TypeOK /\ Aviso(c) /\ Canal(c)
  BY TiposPorPartes DEF Inv
<1>2. /\ fase[c] = "reset"
      /\ flag_interrupcion' = [flag_interrupcion EXCEPT ![c] = FALSE]
      /\ fase' = [fase EXCEPT ![c] = "esperando"]
      /\ UNCHANGED <<kernelVars, program_counter, syscalls, despacho,
                     a_kernel, a_cpu, interrupciones, contexto>>
  BY DEF Reiniciar, canales
<1>3. TipoCanales'
  BY <1>1, <1>2 DEF TipoCanales, Fases
<1>4. UNCHANGED unidades
  BY <1>2 DEF kernelVars
<1>5. fase'[c] = "esperando" /\ ~flag_interrupcion'[c]
  BY <1>1, <1>2 DEF TipoCanales
<1>6. CanalDesalojo(c) => CanalDesalojo(c)'
  BY <1>2, <1>5 DEF CanalDesalojo, Vacio
<1>7. ~CanalSyscall(c, a_kernel[c].pid) /\ ~CanalSyscall(c, despacho[c].pid)
  BY <1>2 DEF CanalSyscall
<1>8. CanalLibre(c) => CanalLibre(c)'
  BY <1>2, <1>4, <1>5, MismasUnidades
     DEF CanalLibre, Vacio, ParaCorrer, TrasRespuesta
<1>9. Canal(c)'
  BY <1>1, <1>2, <1>5, <1>6, <1>7, <1>8 DEF Canal, EnVuelo
<1>10. PideDesalojo(c)' <=> PideDesalojo(c)
  BY <1>2 DEF PideDesalojo
<1>11. Aviso(c)'
  BY <1>1, <1>2, <1>4, <1>5, <1>10, MismasUnidades DEF Aviso
<1>12. \A d \in Cpu \ {c} : Quieta(d)
  BY <1>1, <1>2 DEF Quieta, MismoCanal, TipoCanales
<1> QED
  BY <1>2, <1>3, <1>9, <1>11, <1>12, PasoDeCpu

LEMMA PasoRecibirContexto ==
    ASSUME Inv, NEW c \in Cpu, RecibirContexto(c)
    PROVE  Inv'
<1>1. TipoCanales /\ TypeOK /\ Aviso(c) /\ Canal(c)
  BY TiposPorPartes DEF Inv
<1> DEFINE m == Head(a_cpu[c])
<1>2. /\ fase[c] = "esperando" /\ a_cpu[c] # <<>>
      /\ a_cpu' = [a_cpu EXCEPT ![c] = Tail(@)]
      /\ UNCHANGED <<kernelVars, program_counter, syscalls, despacho,
                     a_kernel, interrupciones, flag_interrupcion>>
  BY DEF RecibirContexto
<1>3. IF m = OK
      THEN fase' = [fase EXCEPT ![c] = "reset"] /\ contexto' = contexto
      ELSE /\ fase' = [fase EXCEPT
                  ![c] = IF m.pc = -1 THEN "colgada" ELSE "ejecutando"]
           /\ contexto' = [contexto EXCEPT ![c] = m]
  BY DEF RecibirContexto
<1>4. UNCHANGED unidades
  BY <1>2 DEF kernelVars
<1>5. ~EnVuelo(c) /\ CanalLibre(c)
  BY <1>1, <1>2 DEF Canal, EnVuelo, CanalDesalojo, CanalSyscall, Vacio
<1>6. ParaCorrer(c, a_cpu[c]) \/ TrasRespuesta(c, a_cpu[c])
  BY <1>2, <1>5 DEF CanalLibre, Vacio
<1>7. PICK x \in Contexto : /\ a_cpu[c] = <<x>> \/ a_cpu[c] = <<OK, x>>
                            /\ Corre(c, x.pid)
  BY <1>6 DEF ParaCorrer, TrasRespuesta
<1>8. a_cpu'[c] = Tail(a_cpu[c]) /\ a_cpu'[c] \in Seq(Contexto \cup {OK})
  <2>1. a_cpu'[c] = Tail(a_cpu[c])
    BY <1>1, <1>2 DEF TipoCanales
  <2>2. <<>> \in Seq(Contexto \cup {OK}) /\ <<x>> \in Seq(Contexto \cup {OK})
    OBVIOUS
  <2>3. Tail(<<x>>) = <<>> /\ Tail(<<OK, x>>) = <<x>>
    BY Palabras
  <2>4. Tail(a_cpu[c]) = <<>> \/ Tail(a_cpu[c]) = <<x>>
    BY <1>7, <2>3, Zenon
  <2> QED
    BY <2>1, <2>2, <2>4
<1>9. m = OK \/ m \in Contexto
  BY <1>7, Palabras
<1>10. TipoCanales'
  <2>1. a_cpu' \in [Cpu -> Seq(Contexto \cup {OK})]
    BY <1>1, <1>2, <1>8 DEF TipoCanales
  <2>2. fase' \in [Cpu -> Fases] /\ contexto' \in [Cpu -> Contexto \cup {Nada}]
    BY <1>1, <1>3, <1>9 DEF TipoCanales, Fases
  <2> QED
    BY <1>1, <1>2, <2>1, <2>2 DEF TipoCanales
<1>11. CanalLibre(c)'
  <2>1. CASE a_cpu[c] = <<x>>
    <3>1. m = x /\ m # OK /\ a_cpu'[c] = <<>>
      BY <2>1, <1>8, Palabras, MensajesAssumption
    <3>2. fase'[c] \in {"ejecutando", "colgada"} /\ contexto'[c] = x
      BY <1>1, <1>3, <3>1 DEF TipoCanales
    <3> QED
      BY <1>4, <1>7, <3>1, <3>2, MismasUnidades DEF CanalLibre, Vacio
  <2>2. CASE a_cpu[c] = <<OK, x>>
    <3>1. m = OK /\ a_cpu'[c] = <<x>>
      BY <2>2, <1>8, Palabras
    <3>2. fase'[c] = "reset"
      BY <1>1, <1>3, <3>1 DEF TipoCanales
    <3>3. ParaCorrer(c, a_cpu[c])'
      BY <1>4, <1>7, <3>1, MismasUnidades DEF ParaCorrer
    <3> QED
      BY <3>2, <3>3 DEF CanalLibre
  <2> QED
    BY <1>7, <2>1, <2>2
<1>12. fase'[c] \in {"reset", "ejecutando", "colgada"}
  BY <1>1, <1>3 DEF TipoCanales
<1>13. Canal(c)'
  BY <1>2, <1>5, <1>11, <1>12 DEF Canal, EnVuelo
<1>14. PideDesalojo(c)' <=> PideDesalojo(c)
  BY <1>2 DEF PideDesalojo
<1>15. Aviso(c)'
  BY <1>1, <1>2, <1>4, <1>12, <1>14, MismasUnidades DEF Aviso
<1>16. \A d \in Cpu \ {c} : Quieta(d)
  BY <1>1, <1>2, <1>3 DEF Quieta, MismoCanal, TipoCanales
<1> QED
  BY <1>2, <1>10, <1>13, <1>15, <1>16, PasoDeCpu

LEMMA PasoEjecutarComun ==
    ASSUME Inv, NEW c \in Cpu, EjecutarComun(c)
    PROVE  Inv'
<1>1. TipoCanales /\ TypeOK /\ Aviso(c) /\ Canal(c)
  BY TiposPorPartes DEF Inv
<1>2. /\ fase[c] = "ejecutando"
      /\ fase' = [fase EXCEPT ![c] = "control"]
      /\ UNCHANGED <<kernelVars, program_counter, syscalls, despacho,
                     a_kernel, a_cpu, interrupciones, flag_interrupcion,
                     contexto>>
  BY DEF EjecutarComun, PuedeEjecutar, canales
<1>3. TipoCanales'
  BY <1>1, <1>2 DEF TipoCanales, Fases
<1>4. UNCHANGED unidades
  BY <1>2 DEF kernelVars
<1>5. ~EnVuelo(c) /\ CanalLibre(c)
  BY <1>1, <1>2 DEF Canal, EnVuelo, CanalDesalojo, CanalSyscall
<1>6. Vacio(a_cpu[c]) /\ contexto[c] \in Contexto /\ Corre(c, contexto[c].pid)
  BY <1>2, <1>5 DEF CanalLibre
<1>7. fase'[c] = "control"
  BY <1>1, <1>2 DEF TipoCanales
<1>8. CanalLibre(c)'
  BY <1>2, <1>4, <1>6, <1>7, MismasUnidades DEF CanalLibre, Vacio
<1>9. Canal(c)'
  BY <1>2, <1>5, <1>7, <1>8 DEF Canal, EnVuelo
<1>10. PideDesalojo(c)' <=> PideDesalojo(c)
  BY <1>2 DEF PideDesalojo
<1>11. Aviso(c)'
  BY <1>1, <1>2, <1>4, <1>7, <1>10, MismasUnidades DEF Aviso
<1>12. \A d \in Cpu \ {c} : Quieta(d)
  BY <1>1, <1>2 DEF Quieta, MismoCanal, TipoCanales
<1> QED
  BY <1>2, <1>3, <1>9, <1>11, <1>12, PasoDeCpu

LEMMA PasoEjecutarSyscall ==
    ASSUME Inv, NEW c \in Cpu, NEW i \in Syscalls, EjecutarSyscall(c, i)
    PROVE  Inv'
<1>1. TipoCanales /\ TypeOK /\ Aviso(c) /\ Canal(c)
  BY TiposPorPartes DEF Inv
<1> DEFINE m == [pid |-> contexto[c].pid, pc |-> 0, motivo |-> i]
<1>2. /\ fase[c] = "ejecutando"
      /\ fase' = [fase EXCEPT ![c] = "respuesta"]
      /\ a_kernel' = [a_kernel EXCEPT ![c] = m]
      /\ syscalls' = syscalls \/ (syscalls > 0 /\ syscalls' = syscalls - 1)
      /\ UNCHANGED <<kernelVars, program_counter, despacho,
                     a_cpu, interrupciones, flag_interrupcion, contexto>>
  BY DEF EjecutarSyscall, PuedeEjecutar
<1>3. ~EnVuelo(c) /\ CanalLibre(c)
  BY <1>1, <1>2 DEF Canal, EnVuelo, CanalDesalojo, CanalSyscall
<1>4. Vacio(a_cpu[c]) /\ contexto[c] \in Contexto /\ Corre(c, contexto[c].pid)
  BY <1>2, <1>3 DEF CanalLibre
<1>5. /\ m \in Mensaje /\ m # Nada /\ m.pid = contexto[c].pid
      /\ m.motivo # "INTERRUPCION"
  BY <1>4, MensajesAssumption DEF Mensaje, Contexto, Syscalls
<1> HIDE DEF m
<1>6. TipoCanales'
  <2>1. a_kernel' \in [Cpu -> Mensaje \cup {Nada}] /\ fase' \in [Cpu -> Fases]
    BY <1>1, <1>2, <1>5 DEF TipoCanales, Fases
  <2>2. syscalls' \in 0..MaxSyscalls
    BY <1>1, <1>2, SrtAssumption DEF TipoCanales
  <2> QED
    BY <1>1, <1>2, <2>1, <2>2 DEF TipoCanales
<1>7. UNCHANGED unidades
  BY <1>2 DEF kernelVars
<1>8. fase'[c] = "respuesta" /\ a_kernel'[c] = m /\ despacho'[c] = Nada
  BY <1>1, <1>2, <1>3 DEF TipoCanales, EnVuelo
<1>9. CanalSyscall(c, a_kernel[c].pid)'
  BY <1>2, <1>4, <1>5, <1>7, <1>8, MismasUnidades DEF CanalSyscall, Vacio
<1>10. Canal(c)'
  BY <1>2, <1>4, <1>5, <1>8, <1>9 DEF Canal, EnVuelo
<1>11. ~PideDesalojo(c)' /\ ~PideDesalojo(c)
  BY <1>3, <1>5, <1>8 DEF PideDesalojo, EnVuelo
<1>12. Aviso(c)'
  BY <1>1, <1>2, <1>7, <1>8, <1>11, MismasUnidades DEF Aviso
<1>13. \A d \in Cpu \ {c} : Quieta(d)
  BY <1>1, <1>2 DEF Quieta, MismoCanal, TipoCanales
<1> QED
  BY <1>2, <1>6, <1>10, <1>12, <1>13, PasoDeCpu

LEMMA PasoRecibirRespuesta ==
    ASSUME Inv, NEW c \in Cpu, RecibirRespuesta(c)
    PROVE  Inv'
<1>1. TipoCanales /\ TypeOK /\ Aviso(c) /\ Canal(c)
  BY TiposPorPartes DEF Inv
<1>2. /\ fase[c] = "respuesta" /\ a_cpu[c] # <<>>
      /\ a_cpu' = [a_cpu EXCEPT ![c] = Tail(@)]
      /\ contexto' = [contexto EXCEPT ![c].pc = -1]
      /\ fase' = [fase EXCEPT ![c] = "control"]
      /\ UNCHANGED <<kernelVars, program_counter, syscalls, despacho,
                     a_kernel, interrupciones, flag_interrupcion>>
  BY DEF RecibirRespuesta
<1>3. UNCHANGED unidades
  BY <1>2 DEF kernelVars
<1>4. ~EnVuelo(c) /\ CanalLibre(c) /\ contexto[c] \in Contexto
  BY <1>1, <1>2 DEF Canal, EnVuelo, CanalDesalojo, CanalSyscall, Vacio
<1>5. a_cpu[c] = <<OK>> \/ TrasRespuesta(c, a_cpu[c])
  BY <1>2, <1>4 DEF CanalLibre
<1>6. a_cpu'[c] = Tail(a_cpu[c]) /\ fase'[c] = "control"
  BY <1>1, <1>2 DEF TipoCanales
<1>7. contexto'[c] \in Contexto /\ contexto'[c].pc = -1
  BY <1>1, <1>2, <1>4 DEF TipoCanales, Contexto
<1>8. \/ Vacio(a_cpu'[c])
      \/ \E x \in Contexto : a_cpu'[c] = <<x>> /\ Corre(c, x.pid)
  <2>1. CASE a_cpu[c] = <<OK>>
    <3>1. Tail(<<OK>>) = <<>>
      BY Palabras
    <3> QED
      BY <1>6, <2>1, <3>1, Zenon DEF Vacio
  <2>2. CASE TrasRespuesta(c, a_cpu[c])
    <3>1. PICK x \in Contexto : a_cpu[c] = <<OK, x>> /\ Corre(c, x.pid)
      BY <2>2 DEF TrasRespuesta
    <3>2. Tail(<<OK, x>>) = <<x>>
      BY Palabras
    <3> QED
      BY <1>6, <3>1, <3>2, Zenon
  <2> QED
    BY <1>5, <2>1, <2>2
<1>9. TipoCanales'
  <2>1. a_cpu'[c] \in Seq(Contexto \cup {OK})
    <3>1. /\ <<>> \in Seq(Contexto \cup {OK})
          /\ \A x \in Contexto : <<x>> \in Seq(Contexto \cup {OK})
      OBVIOUS
    <3> QED
      BY <1>8, <3>1 DEF Vacio
  <2>2. a_cpu' \in [Cpu -> Seq(Contexto \cup {OK})]
    BY <1>1, <1>2, <1>6, <2>1 DEF TipoCanales
  <2>3. fase' \in [Cpu -> Fases] /\ contexto' \in [Cpu -> Contexto \cup {Nada}]
    BY <1>1, <1>2, <1>7 DEF TipoCanales, Fases
  <2> QED
    BY <1>1, <1>2, <2>2, <2>3 DEF TipoCanales
<1>10. CanalLibre(c)'
  <2>1. Vacio(a_cpu[c])' \/ ParaCorrer(c, a_cpu[c])'
    BY <1>3, <1>8, MismasUnidades DEF ParaCorrer, Vacio
  <2> QED
    BY <1>6, <1>7, <2>1 DEF CanalLibre
<1>11. Canal(c)'
  BY <1>2, <1>4, <1>6, <1>10 DEF Canal, EnVuelo
<1>12. PideDesalojo(c)' <=> PideDesalojo(c)
  BY <1>2 DEF PideDesalojo
<1>13. Aviso(c)'
  BY <1>1, <1>2, <1>3, <1>6, <1>12, MismasUnidades DEF Aviso
<1>14. \A d \in Cpu \ {c} : Quieta(d)
  BY <1>1, <1>2 DEF Quieta, MismoCanal, TipoCanales
<1> QED
  BY <1>2, <1>9, <1>11, <1>13, <1>14, PasoDeCpu

LEMMA PasoControlarInterrupcion ==
    ASSUME Inv, NEW c \in Cpu, ControlarInterrupcion(c)
    PROVE  Inv'
<1>1. TipoCanales /\ TypeOK /\ Aviso(c) /\ Canal(c)
  BY TiposPorPartes DEF Inv
<1> DEFINE m == [pid |-> contexto[c].pid, pc |-> contexto[c].pc,
                 motivo |-> "INTERRUPCION"]
<1>2. /\ fase[c] = "control"
      /\ UNCHANGED <<kernelVars, program_counter, syscalls, despacho, a_cpu,
                     interrupciones, flag_interrupcion, contexto>>
  BY DEF ControlarInterrupcion
<1>3. IF flag_interrupcion[c]
      THEN /\ a_kernel' = [a_kernel EXCEPT ![c] = m]
           /\ fase' = [fase EXCEPT ![c] = "respuesta_int"]
      ELSE /\ fase' = [fase EXCEPT
                  ![c] = IF contexto[c].pc = -1 THEN "reset" ELSE "ejecutando"]
           /\ a_kernel' = a_kernel
  BY DEF ControlarInterrupcion
<1>4. UNCHANGED unidades
  BY <1>2 DEF kernelVars
<1>5. ~EnVuelo(c) /\ CanalLibre(c)
  BY <1>1, <1>2 DEF Canal, EnVuelo, CanalDesalojo, CanalSyscall
<1>6. /\ contexto[c] \in Contexto
      /\ IF contexto[c].pc = -1
         THEN Vacio(a_cpu[c]) \/ ParaCorrer(c, a_cpu[c])
         ELSE Vacio(a_cpu[c]) /\ Corre(c, contexto[c].pid)
  BY <1>2, <1>5 DEF CanalLibre
<1>7. m \in Mensaje /\ m # Nada /\ m.motivo = "INTERRUPCION"
  BY <1>6, MensajesAssumption DEF Mensaje, Contexto
<1> HIDE DEF m
<1>8. TipoCanales'
  <2>1. a_kernel' \in [Cpu -> Mensaje \cup {Nada}] /\ fase' \in [Cpu -> Fases]
    BY <1>1, <1>3, <1>7 DEF TipoCanales, Fases
  <2> QED
    BY <1>1, <1>2, <2>1 DEF TipoCanales
<1>9. \A d \in Cpu \ {c} : Quieta(d)
  BY <1>1, <1>2, <1>3 DEF Quieta, MismoCanal, TipoCanales
<1>10. Aviso(c)' /\ Canal(c)'
  <2>1. CASE flag_interrupcion[c]
    <3>1. /\ fase'[c] = "respuesta_int" /\ a_kernel'[c] = m
          /\ despacho'[c] = Nada
      BY <1>1, <1>2, <1>3, <1>5, <2>1 DEF TipoCanales, EnVuelo
    <3>2. Vacio(a_cpu[c]) \/ UnContexto(a_cpu[c])
      BY <1>6 DEF ParaCorrer, UnContexto
    <3>3. CanalDesalojo(c)'
      BY <1>2, <3>1, <3>2 DEF CanalDesalojo, Vacio, UnContexto
    <3>4. Canal(c)'
      BY <1>7, <3>1, <3>3 DEF Canal, EnVuelo
    <3>5. HayEspera(c) /\ ~(interrupciones[c] > 0)
      BY <1>1, <1>2, <2>1 DEF Aviso
    <3>6. HayEspera(c)' /\ ~(interrupciones'[c] > 0)
      BY <1>2, <1>4, <3>5, MismasUnidades
    <3> QED
      BY <3>1, <3>4, <3>6 DEF Aviso
  <2>2. CASE ~flag_interrupcion[c]
    <3>1. /\ fase'[c] = IF contexto[c].pc = -1 THEN "reset" ELSE "ejecutando"
          /\ a_kernel' = a_kernel /\ ~flag_interrupcion'[c]
      BY <1>1, <1>2, <1>3, <2>2 DEF TipoCanales
    <3>2. CanalLibre(c)'
      <4>1. CASE contexto[c].pc = -1
        <5>1. Vacio(a_cpu[c])' \/ ParaCorrer(c, a_cpu[c])'
          BY <1>2, <1>4, <1>6, <4>1, MismasUnidades DEF ParaCorrer, Vacio
        <5> QED
          BY <3>1, <4>1, <5>1 DEF CanalLibre
      <4>2. CASE contexto[c].pc # -1
        BY <1>2, <1>4, <1>6, <3>1, <4>2, MismasUnidades
           DEF CanalLibre, Vacio
      <4> QED
        BY <4>1, <4>2
    <3>3. Canal(c)'
      BY <1>2, <1>5, <3>1, <3>2 DEF Canal, EnVuelo
    <3>4. PideDesalojo(c)' <=> PideDesalojo(c)
      BY <1>2, <3>1 DEF PideDesalojo
    <3>5. Aviso(c)'
      BY <1>1, <1>2, <1>4, <3>1, <3>4, MismasUnidades DEF Aviso
    <3> QED
      BY <3>3, <3>5
  <2> QED
    BY <2>1, <2>2
<1> QED
  BY <1>2, <1>8, <1>9, <1>10, PasoDeCpu

LEMMA PasoRecibirRespuestaInterrupcion ==
    ASSUME Inv, NEW c \in Cpu, RecibirRespuestaInterrupcion(c)
    PROVE  Inv'
<1>1. TipoCanales /\ TypeOK /\ Aviso(c) /\ Canal(c)
  BY TiposPorPartes DEF Inv
<1>2. /\ fase[c] = "respuesta_int" /\ a_cpu[c] # <<>>
      /\ a_cpu' = [a_cpu EXCEPT ![c] = Tail(@)]
      /\ flag_interrupcion' = [flag_interrupcion EXCEPT ![c] = FALSE]
      /\ fase' = [fase EXCEPT ![c] = "reset"]
      /\ UNCHANGED <<kernelVars, program_counter, syscalls, despacho,
                     a_kernel, interrupciones, contexto>>
  BY DEF RecibirRespuestaInterrupcion
<1>3. UNCHANGED unidades
  BY <1>2 DEF kernelVars
<1>4. /\ a_cpu'[c] = Tail(a_cpu[c]) /\ fase'[c] = "reset"
      /\ ~flag_interrupcion'[c]
  BY <1>1, <1>2 DEF TipoCanales
<1>5. CanalDesalojo(c) => a_cpu'[c] = <<>>
  <2>1. \A x \in Contexto : Tail(<<x>>) = <<>>
    BY Palabras
  <2> QED
    BY <1>2, <1>4, <2>1 DEF CanalDesalojo, UnContexto, Vacio
<1>6. CanalLibre(c) =>
         \E x \in Contexto : /\ a_cpu'[c] = <<x>> \/ a_cpu'[c] = <<OK, x>>
                             /\ Corre(c, x.pid)
  <2>1. CASE TrasRespuesta(c, a_cpu[c])
    <3>1. PICK x \in Contexto : a_cpu[c] = <<OK, x>> /\ Corre(c, x.pid)
      BY <2>1 DEF TrasRespuesta
    <3>2. Tail(<<OK, x>>) = <<x>>
      BY Palabras
    <3> QED
      BY <1>4, <3>1, <3>2, Zenon
  <2>2. CASE TrasResto(c, a_cpu[c])
    <3>1. PICK y \in Contexto, x \in Contexto :
             a_cpu[c] = <<y, OK, x>> /\ Corre(c, x.pid)
      BY <2>2 DEF TrasResto
    <3>2. Tail(<<y, OK, x>>) = <<OK, x>>
      BY Palabras
    <3> QED
      BY <1>4, <3>1, <3>2, Zenon
  <2> QED
    BY <1>2, <2>1, <2>2 DEF CanalLibre
<1>7. /\ ~CanalSyscall(c, a_kernel[c].pid) /\ ~CanalSyscall(c, despacho[c].pid)
      /\ CanalDesalojo(c) \/ CanalLibre(c)
  BY <1>1, <1>2 DEF CanalSyscall, Canal, EnVuelo
<1>8. a_cpu'[c] \in Seq(Contexto \cup {OK})
  <2>1. /\ <<>> \in Seq(Contexto \cup {OK})
        /\ \A x \in Contexto : /\ <<x>> \in Seq(Contexto \cup {OK})
                               /\ <<OK, x>> \in Seq(Contexto \cup {OK})
    OBVIOUS
  <2> QED
    BY <1>5, <1>6, <1>7, <2>1
<1>9. TipoCanales'
  <2>1. a_cpu' \in [Cpu -> Seq(Contexto \cup {OK})]
    BY <1>1, <1>2, <1>4, <1>8 DEF TipoCanales
  <2>2. fase' \in [Cpu -> Fases] /\ flag_interrupcion' \in [Cpu -> BOOLEAN]
    BY <1>1, <1>2 DEF TipoCanales, Fases
  <2> QED
    BY <1>1, <1>2, <2>1, <2>2 DEF TipoCanales
<1>10. CanalDesalojo(c) => CanalDesalojo(c)'
  BY <1>4, <1>5 DEF CanalDesalojo, Vacio
<1>11. CanalLibre(c) => CanalLibre(c)'
  <2>1. CanalLibre(c) =>
           ParaCorrer(c, a_cpu[c])' \/ TrasRespuesta(c, a_cpu[c])'
    BY <1>3, <1>6, MismasUnidades DEF ParaCorrer, TrasRespuesta
  <2> QED
    BY <1>4, <2>1 DEF CanalLibre
<1>12. Canal(c)'
  BY <1>1, <1>2, <1>4, <1>7, <1>10, <1>11 DEF Canal, EnVuelo
<1>13. PideDesalojo(c)' <=> PideDesalojo(c)
  BY <1>2 DEF PideDesalojo
<1>14. Aviso(c)'
  BY <1>1, <1>2, <1>3, <1>4, <1>13, MismasUnidades DEF Aviso
<1>15. \A d \in Cpu \ {c} : Quieta(d)
  BY <1>1, <1>2 DEF Quieta, MismoCanal, TipoCanales
<1> QED
  BY <1>2, <1>9, <1>12, <1>14, <1>15, PasoDeCpu

\* esperar_dispatch reads a message: it is still on its way.
LEMMA PasoRecibirDispatch ==
    ASSUME Inv, NEW c \in Cpu, RecibirDispatch(c)
    PROVE  Inv'
<1>1. TipoCanales /\ TypeOK /\ Aviso(c) /\ Canal(c)
  BY TiposPorPartes DEF Inv
<1> DEFINE m == a_kernel[c]
           h == UnidadesDe(m.pid) # {}
           a == [pid |-> m.pid, motivo |-> m.motivo, hallado |-> h]
<1>2. /\ despacho[c] = Nada /\ m # Nada
      /\ despacho' = [despacho EXCEPT ![c] = a]
      /\ program_counter' = IF h THEN [program_counter EXCEPT ![m.pid] = m.pc]
                                 ELSE program_counter
      /\ a_kernel' = [a_kernel EXCEPT ![c] = Nada]
      /\ UNCHANGED <<kernelVars, syscalls, a_cpu, interrupciones,
                     flag_interrupcion, fase, contexto>>
  BY DEF RecibirDispatch, cpuVars
<1>3. m \in Mensaje
  BY <1>1, <1>2 DEF TipoCanales
<1>4. m.pid \in Pid /\ m.pc \in {0, -1}
  BY <1>3 DEF Mensaje
<1>5. /\ a \in Atencion /\ a # Nada /\ a.pid = m.pid /\ a.motivo = m.motivo
      /\ a.hallado <=> h
  <2>1. a \in Atencion
    BY <1>3 DEF Mensaje, Atencion
  <2> QED
    BY <2>1, MensajesAssumption
<1>6. UNCHANGED unidades
  BY <1>2 DEF kernelVars
<1>7. Corre(c, m.pid) => h
  BY DEF Corre, CorreEn, Us, UnidadesDe
<1> HIDE DEF a, h
<1>8. TipoCanales'
  <2>1. despacho' \in [Cpu -> Atencion \cup {Nada}]
    BY <1>1, <1>2, <1>5 DEF TipoCanales
  <2>2. program_counter' \in [Pid -> {0, -1}]
    BY <1>1, <1>2, <1>4 DEF TipoCanales
  <2>3. a_kernel' \in [Cpu -> Mensaje \cup {Nada}]
    BY <1>1, <1>2 DEF TipoCanales
  <2> QED
    BY <1>1, <1>2, <2>1, <2>2, <2>3 DEF TipoCanales
<1>9. despacho'[c] = a /\ a_kernel'[c] = Nada
  BY <1>1, <1>2 DEF TipoCanales
<1>10. IF m.motivo = "INTERRUPCION" THEN CanalDesalojo(c)
       ELSE CanalSyscall(c, m.pid)
  BY <1>1, <1>2 DEF Canal
<1>11. IF a.motivo = "INTERRUPCION" THEN CanalDesalojo(c)'
       ELSE CanalSyscall(c, despacho[c].pid)' /\ a.hallado
  <2>1. CanalDesalojo(c) => CanalDesalojo(c)'
    BY <1>2 DEF CanalDesalojo, Vacio, UnContexto
  <2>2. despacho'[c].pid = m.pid /\ Us' = Us
    BY <1>5, <1>6, <1>9 DEF Us
  <2>3. CanalSyscall(c, m.pid) => CanalSyscall(c, despacho[c].pid)' /\ h
    BY <1>2, <1>7, <2>2 DEF CanalSyscall, Vacio, Corre
  <2> QED
    BY <1>5, <1>10, <2>1, <2>3
<1>12. despacho'[c].motivo = a.motivo /\ despacho'[c].hallado = a.hallado
  BY <1>9
<1>13. Canal(c)'
  BY <1>1, <1>2, <1>5, <1>9, <1>11, <1>12 DEF Canal, EnVuelo
<1>14. PideDesalojo(c)' <=> PideDesalojo(c)
  BY <1>2, <1>5, <1>9 DEF PideDesalojo
<1>15. Aviso(c)'
  BY <1>1, <1>2, <1>6, <1>14, MismasUnidades DEF Aviso
<1>16. \A d \in Cpu \ {c} : Quieta(d)
  BY <1>1, <1>2 DEF Quieta, MismoCanal, TipoCanales
<1> QED
  BY <1>2, <1>8, <1>13, <1>15, <1>16, PasoDeCpu

-----------------------------------------------------------------------------
(* The steps of the kernel: S are the CPUs that notice nothing. *)

LEMMA PasoDeNucleo ==
    ASSUME Inv, TipoNucleo', TipoCanales', SinDoble(unidades)',
           Nuevos(queue_new, estado)',
           Reparto(Us, estado, queue_ready, libres, desalojando)', FichasCpu',
           NEW S \in SUBSET Cpu, \A d \in S : Quieta(d) /\ Sigue(d),
           \A d \in Cpu \ S : Aviso(d)' /\ Canal(d)'
    PROVE  Inv'
<1>1. \A d \in Cpu : Aviso(d)' /\ Canal(d)'
  BY CanalesAjenos
<1> QED
  BY <1>1, TiposPorPartes DEF Inv

\* Only CPU c is sent something.
LEMMA PasoDeNucleoCon ==
    ASSUME Inv, TipoNucleo', TipoCanales', SinDoble(unidades)',
           Nuevos(queue_new, estado)',
           Reparto(Us, estado, queue_ready, libres, desalojando)', FichasCpu',
           NEW c \in Cpu, \A d \in Cpu \ {c} : Quieta(d) /\ Sigue(d),
           Aviso(c)', Canal(c)'
    PROVE  Inv'
<1> DEFINE S == Cpu \ {c}
<1>1. S \in SUBSET Cpu /\ \A d \in Cpu \ S : d = c
  OBVIOUS
<1>2. \A d \in S : Quieta(d) /\ Sigue(d)
  OBVIOUS
<1> HIDE DEF S
<1>3. \A d \in S : Aviso(d)' /\ Canal(d)'
  BY <1>1, <1>2, CanalesAjenos
<1>4. \A d \in Cpu : Aviso(d)' /\ Canal(d)'
  BY <1>1, <1>3
<1> QED
  BY <1>4, TiposPorPartes DEF Inv

\* Only semaphores and the places of the threads change.
LEMMA PasoDeSemaforo ==
    ASSUME Inv, TipoNucleo', FichasCpu',
           UNCHANGED <<estado, queue_new, queue_ready, unidades, libres,
                       desalojando, program_counter, syscalls, despacho,
                       canales, cpuVars>>
    PROVE  Inv'
<1>1. TipoCanales'
  <2>1. TipoCanales
    BY TiposPorPartes DEF Inv
  <2> QED
    BY <2>1 DEF TipoCanales, canales, cpuVars
<1>2. /\ SinDoble(unidades)' /\ Nuevos(queue_new, estado)'
      /\ Reparto(Us, estado, queue_ready, libres, desalojando)'
  BY DEF Inv, SinDoble, Nuevos, Us, Reparto, EnSuLugar, ConSuCpu, UnDesalojo
<1>3. \A d \in Cpu : Quieta(d) /\ Sigue(d)
  BY MismasUnidades DEF Quieta, MismoCanal, canales, cpuVars
<1> QED
  BY <1>1, <1>2, <1>3, PasoDeNucleo

LEMMA PasosDeEspera ==
    ASSUME Inv, \/ EsperarPrincipal \/ EsperarProcesoReady
                \/ EsperarCpuLibre \/ EsperarCheckDesalojo
    PROVE  Inv'
<1>1. TipoNucleo /\ FichasCpu
  BY TiposPorPartes DEF Inv
<1>2. CASE EsperarPrincipal
  <2>1. TipoNucleo' /\ FichasCpu'
    BY <1>1, <1>2 DEF EsperarPrincipal, TipoNucleo, FichasCpu, colas
  <2> QED
    BY <1>2, <2>1, PasoDeSemaforo DEF EsperarPrincipal, colas
<1>3. CASE EsperarProcesoReady
  <2>1. TipoNucleo' /\ FichasCpu'
    BY <1>1, <1>3 DEF EsperarProcesoReady, TipoNucleo, FichasCpu, colas
  <2> QED
    BY <1>3, <2>1, PasoDeSemaforo DEF EsperarProcesoReady, colas
<1>4. CASE EsperarCpuLibre
  <2>1. TipoNucleo' /\ FichasCpu'
    BY <1>1, <1>4 DEF EsperarCpuLibre, TipoNucleo, FichasCpu, colas
  <2> QED
    BY <1>4, <2>1, PasoDeSemaforo DEF EsperarCpuLibre, colas
<1>5. CASE EsperarCheckDesalojo
  <2>1. TipoNucleo' /\ FichasCpu'
    BY <1>1, <1>5 DEF EsperarCheckDesalojo, TipoNucleo, FichasCpu, colas
  <2> QED
    BY <1>5, <2>1, PasoDeSemaforo DEF EsperarCheckDesalojo, colas
<1> QED
  BY <1>2, <1>3, <1>4, <1>5

\* The state of processes that are not new changes.
LEMMA NuevosQuietos ==
    ASSUME NEW s \in Seq(Pid), NEW e, NEW f, Nuevos(s, e),
           \A p \in Pid : e[p] = "NEW" => f[p] = "NEW"
    PROVE  Nuevos(s, f)
<1>1. \A i \in DOMAIN s : s[i] \in Pid
  BY ListaTipada
<1> QED
  BY <1>1 DEF Nuevos

LEMMA NuevosSale ==
    ASSUME NEW s \in Seq(Pid), NEW e \in [Pid -> Estados], NEW x,
           Nuevos(s, e), s # <<>>
    PROVE  /\ Head(s) \in Pid /\ e[Head(s)] = "NEW" /\ Tail(s) \in Seq(Pid)
           /\ Nuevos(Tail(s), [e EXCEPT ![Head(s)] = x])
<1> DEFINE p == Head(s)
           f == [e EXCEPT ![p] = x]
<1>1. /\ Len(s) \in Nat /\ DOMAIN s = 1..Len(s) /\ 1 \in DOMAIN s
      /\ \A i \in DOMAIN s : s[i] \in Pid
      /\ Head(s) = s[1]
  BY ListaTipada, EmptySeq, HeadTailProperties
<1>2. /\ Tail(s) \in Seq(Pid) /\ Len(Tail(s)) = Len(s) - 1
      /\ \A i \in 1..Len(Tail(s)) : Tail(s)[i] = s[i + 1]
  BY HeadTailProperties
<1>3. DOMAIN Tail(s) = 1..(Len(s) - 1)
  BY <1>2, LenProperties
<1>4. \A q \in Pid : q # p => f[q] = e[q]
  OBVIOUS
<1>5. \A i \in DOMAIN Tail(s) :
         i + 1 \in DOMAIN s /\ i + 1 # 1 /\ Tail(s)[i] = s[i + 1]
  BY <1>1, <1>2, <1>3
<1>6. \A i, j \in DOMAIN Tail(s) : i + 1 = j + 1 => i = j
  BY <1>1, <1>3
<1> HIDE DEF p, f
<1>7. Nuevos(Tail(s), f)
  BY <1>1, <1>4, <1>5, <1>6 DEF Nuevos, p
<1> QED
  BY <1>1, <1>2, <1>7 DEF Nuevos, p, f

LEMMA NuevosMas ==
    ASSUME NEW s \in Seq(Pid), NEW e \in [Pid -> Estados], NEW p \in Pid,
           Nuevos(s, e), e[p] # "NEW"
    PROVE  /\ Append(s, p) \in Seq(Pid)
           /\ Nuevos(Append(s, p), [e EXCEPT ![p] = "NEW"])
<1>1. /\ Len(s) \in Nat /\ DOMAIN s = 1..Len(s)
      /\ Append(s, p) \in Seq(Pid)
      /\ DOMAIN Append(s, p) = 1..(Len(s) + 1)
      /\ Append(s, p)[Len(s) + 1] = p
      /\ \A i \in 1..Len(s) : Append(s, p)[i] = s[i] /\ s[i] \in Pid
  BY LenProperties, AppendProperties, ElementOfSeq
<1>2. \A i \in DOMAIN Append(s, p) : i \in DOMAIN s \/ i = Len(s) + 1
  BY <1>1
<1>3. \A i \in DOMAIN s : s[i] # p
  BY DEF Nuevos
<1> QED
  BY <1>1, <1>2, <1>3 DEF Nuevos

\* poner_en_ready of a process that waited somewhere else.
LEMMA PasoAReady ==
    ASSUME Inv, NEW p \in Pid, estado[p] \in {"NEW", "BLOCKED"},
           estado' = [estado EXCEPT ![p] = "READY"],
           AgregarAReady(p, libres), Nuevos(queue_new, estado)',
           queue_new' \in Seq(Pid), planificacion_principal' \in Nat,
           UNCHANGED <<unidades, libres, cpu_libre, hilos, program_counter,
                       syscalls, despacho, canales, cpuVars>>
    PROVE  Inv'
<1>1. TipoNucleo /\ TipoCanales
  BY TiposPorPartes DEF Inv
<1>2. /\ queue_ready' = [queue_ready EXCEPT ![p] = @ + 1]
      /\ proceso_ready' = proceso_ready + 1
      /\ check_desalojo' \in {check_desalojo, check_desalojo + 1}
  BY DEF AgregarAReady
<1>3. TipoNucleo'
  <2>1. estado' \in [Pid -> Estados] /\ queue_ready' \in [Pid -> Nat]
    BY <1>1, <1>2 DEF TipoNucleo, Estados
  <2> QED
    BY <1>1, <1>2, <2>1 DEF TipoNucleo, hilos
<1>4. TipoCanales'
  BY <1>1 DEF TipoCanales, canales, cpuVars
<1>5. Us \in SUBSET Unidad /\ Us' = Us
  BY <1>1, ListaTipada DEF Us, TipoNucleo
<1>6. Reparto(Us, [estado EXCEPT ![p] = "READY"],
              [queue_ready EXCEPT ![p] = @ + 1], libres, desalojando)
  <2>1. \A x \in {"NEW", "READY"} :
           Reparto(Us, [estado EXCEPT ![p] = x],
                   IF x = "READY" THEN [queue_ready EXCEPT ![p] = @ + 1]
                                  ELSE queue_ready, libres, desalojando)
    <3> SUFFICES ASSUME NEW x \in {"NEW", "READY"}
                 PROVE  Reparto(Us, [estado EXCEPT ![p] = x],
                           IF x = "READY" THEN [queue_ready EXCEPT ![p] = @ + 1]
                                  ELSE queue_ready, libres, desalojando)
      OBVIOUS
    <3>1. estado[p] \in {"SIN_CREAR", "NEW", "BLOCKED"}
      OBVIOUS
    <3>2. Reparto(Us, estado, queue_ready, libres, desalojando)
      BY DEF Inv
    <3> QED
      BY <1>1, <1>5, <3>1, <3>2, RepartoPasa DEF TipoNucleo
  <2>2. "READY" \in {"NEW", "READY"}
    OBVIOUS
  <2> QED
    BY <2>1, <2>2
<1>7. Reparto(Us, estado, queue_ready, libres, desalojando)'
  BY <1>2, <1>5, <1>6, Zenon DEF hilos
<1>8. SinDoble(unidades)' /\ FichasCpu'
  BY DEF Inv, SinDoble, FichasCpu, hilos
<1>9. \A d \in Cpu : Quieta(d) /\ Sigue(d)
  BY MismasUnidades DEF Quieta, MismoCanal, canales, cpuVars
<1> QED
  BY <1>3, <1>4, <1>7, <1>8, <1>9, PasoDeNucleo

LEMMA PasoFinalizacionIo ==
    ASSUME Inv, NEW p \in Pid, FinalizacionIo(p)
    PROVE  Inv'
<1>1. TipoNucleo /\ Nuevos(queue_new, estado)
  BY TiposPorPartes DEF Inv
<1>2. /\ estado[p] = "BLOCKED" /\ estado' = [estado EXCEPT ![p] = "READY"]
      /\ AgregarAReady(p, libres) /\ queue_new' = queue_new
      /\ planificacion_principal' = planificacion_principal + 2
      /\ UNCHANGED <<unidades, libres, cpu_libre, hilos, program_counter,
                     syscalls, despacho, canales, cpuVars>>
  BY DEF FinalizacionIo
<1>3. \A q \in Pid : estado[q] = "NEW" => estado'[q] = "NEW"
  BY <1>1, <1>2 DEF TipoNucleo
<1>4. Nuevos(queue_new, estado')
  BY <1>1, <1>3, NuevosQuietos DEF TipoNucleo
<1>5. Nuevos(queue_new, estado)'
  BY <1>2, <1>4
<1>6. queue_new' \in Seq(Pid) /\ planificacion_principal' \in Nat
  BY <1>1, <1>2 DEF TipoNucleo
<1> QED
  BY <1>2, <1>5, <1>6, PasoAReady

LEMMA PasoAdmitir ==
    ASSUME Inv, Admitir
    PROVE  Inv'
<1>1. TipoNucleo /\ Nuevos(queue_new, estado)
  BY TiposPorPartes DEF Inv
<1>2. /\ queue_new # <<>>
      /\ estado' = [estado EXCEPT ![Head(queue_new)] = "READY"]
      /\ AgregarAReady(Head(queue_new), libres)
      /\ queue_new' = Tail(queue_new)
      /\ planificacion_principal' = planificacion_principal + 1
      /\ UNCHANGED <<unidades, libres, cpu_libre, hilos, program_counter,
                     syscalls, despacho, canales, cpuVars>>
  BY DEF Admitir
<1>3. /\ Head(queue_new) \in Pid /\ estado[Head(queue_new)] = "NEW"
      /\ Tail(queue_new) \in Seq(Pid)
      /\ Nuevos(Tail(queue_new), [estado EXCEPT ![Head(queue_new)] = "READY"])
  BY <1>1, <1>2, NuevosSale DEF TipoNucleo
<1>4. Nuevos(queue_new, estado)' /\ queue_new' \in Seq(Pid)
  BY <1>2, <1>3
<1>5. planificacion_principal' \in Nat
  BY <1>1, <1>2 DEF TipoNucleo
<1>6. PICK p \in Pid : p = Head(queue_new)
  BY <1>3
<1>7. /\ estado[p] \in {"NEW", "BLOCKED"} /\ AgregarAReady(p, libres)
      /\ estado' = [estado EXCEPT ![p] = "READY"]
  BY <1>2, <1>3, <1>6
<1> QED
  BY <1>2, <1>4, <1>5, <1>7, PasoAReady

-----------------------------------------------------------------------------
(* The planner and the thread that preempts. *)

\* Nothing travels to or from a free CPU but what it must drop.
LEMMA CpuLibreVacia ==
    ASSUME Inv, NEW c \in libres
    PROVE  /\ ~HayEspera(c) /\ ~EnVuelo(c)
           /\ \/ fase[c] \in {"reset", "esperando"} /\ Vacio(a_cpu[c])
              \/ /\ fase[c] = "control" /\ contexto[c] \in Contexto
                 /\ contexto[c].pc = -1 /\ Vacio(a_cpu[c])
              \/ fase[c] = "respuesta" /\ a_cpu[c] = <<OK>>
<1>1. TipoNucleo /\ TipoCanales
  BY TiposPorPartes DEF Inv
<1>2. c \in Cpu
  BY <1>1 DEF TipoNucleo
<1>3. Aviso(c) /\ Canal(c)
  BY <1>2 DEF Inv
<1>4. \A u \in Us : u.modo # "INTERRUMPIDO" => u.cpu # c
  BY DEF Inv, Reparto, ConSuCpu
<1>5. ~HayEspera(c) /\ \A p : ~Corre(c, p)
  BY <1>4 DEF HayEspera, Corre, CorreEn, Espera
<1>6. ~EnVuelo(c)
  BY <1>3, <1>5 DEF Canal, EnVuelo, Aviso, PideDesalojo, CanalSyscall
<1>7. CanalLibre(c)
  BY <1>3, <1>6 DEF Canal
<1> QED
  BY <1>5, <1>6, <1>7 DEF CanalLibre, ParaCorrer, TrasRespuesta, TrasResto

\* The context of a process that now runs is sent to a free CPU.
LEMMA EnvioACpuLibre ==
    ASSUME Inv, NEW c \in libres, NEW x \in Contexto, Enviar(c, <<x>>),
           Corre(c, x.pid)',
           UNCHANGED <<despacho, a_kernel, interrupciones, cpuVars>>
    PROVE  Aviso(c)' /\ Canal(c)' /\ a_cpu' \in [Cpu -> Seq(Contexto \cup {OK})]
<1>1. TipoNucleo /\ TipoCanales
  BY TiposPorPartes DEF Inv
<1>2. c \in Cpu
  BY <1>1 DEF TipoNucleo
<1>3. Aviso(c) /\ Canal(c)
  BY <1>2 DEF Inv
<1>4. a_cpu' = [a_cpu EXCEPT ![c] = @ \o <<x>>] /\ a_cpu'[c] = a_cpu[c] \o <<x>>
  BY <1>1, <1>2 DEF Enviar, TipoCanales
<1>5. <<>> \o <<x>> = <<x>> /\ <<OK>> \o <<x>> = <<OK, x>>
  BY Palabras
<1>6. <<x>> \in Seq(Contexto \cup {OK}) /\ <<OK, x>> \in Seq(Contexto \cup {OK})
  OBVIOUS
<1>7. \/ fase[c] \in {"reset", "esperando"} /\ a_cpu'[c] = <<x>>
      \/ /\ fase[c] = "control" /\ contexto[c] \in Contexto
         /\ contexto[c].pc = -1 /\ a_cpu'[c] = <<x>>
      \/ fase[c] = "respuesta" /\ a_cpu'[c] = <<OK, x>>
  BY <1>4, <1>5, CpuLibreVacia, Zenon DEF Vacio
<1>8. CanalLibre(c)'
  <2>1. a_cpu'[c] = <<x>> => ParaCorrer(c, a_cpu[c])'
    BY DEF ParaCorrer
  <2>2. a_cpu'[c] = <<OK, x>> => TrasRespuesta(c, a_cpu[c])'
    BY DEF TrasRespuesta
  <2> QED
    BY <1>7, <2>1, <2>2 DEF CanalLibre, cpuVars
<1>9. ~EnVuelo(c) /\ ~HayEspera(c)
  BY CpuLibreVacia
<1>10. Canal(c)'
  BY <1>3, <1>8, <1>9 DEF Canal, EnVuelo, cpuVars
<1>11. Aviso(c)'
  <2>1. ~(interrupciones[c] > 0)
    BY <1>3, <1>9 DEF Aviso
  <2>2. ~(flag_interrupcion[c] /\ fase[c] # "respuesta_int")
    BY <1>3, <1>9 DEF Aviso
  <2>3. ~PideDesalojo(c)'
    BY <1>9 DEF PideDesalojo, EnVuelo
  <2> QED
    BY <2>1, <2>2, <2>3 DEF Aviso, cpuVars
<1>12. a_cpu' \in [Cpu -> Seq(Contexto \cup {OK})]
  BY <1>1, <1>4, <1>6, <1>7 DEF TipoCanales
<1> QED
  BY <1>10, <1>11, <1>12

\* poner_en_ejecucion makes a unit for the process, which has none.
LEMMA UnidadNueva ==
    ASSUME Inv, NEW p \in Listos, NEW c \in libres, PonerEnEjecucion(p, c)
    PROVE  LET u == Unidad0(p, c, "EJECUTANDO") IN
           /\ p \in Pid /\ c \in Cpu /\ estado[p] = "READY"
           /\ Enviar(c, <<ContextoDe(p)>>) /\ libres' = libres \ {c}
           /\ estado' = [estado EXCEPT ![p] = "EXEC"]
           /\ unidades' \in Seq(Unidad) /\ SinDoble(unidades')
           /\ Us' = Us \cup {u}
           /\ Reparto(Us \cup {u}, [estado EXCEPT ![p] = "EXEC"],
                      [queue_ready EXCEPT ![p] = @ - 1], libres \ {c},
                      desalojando)
           /\ Conserva(Us, Us \cup {u}) /\ CorreEn(Us \cup {u}, c, p)
<1> DEFINE u == Unidad0(p, c, "EJECUTANDO")
<1>1. TipoNucleo
  BY TiposPorPartes DEF Inv
<1>2. /\ p \in Pid /\ queue_ready[p] > 0 /\ c \in Cpu
      /\ Us \in SUBSET Unidad /\ SinDoble(unidades)
      /\ Reparto(Us, estado, queue_ready, libres, desalojando)
  BY <1>1, ListaTipada DEF Listos, TipoNucleo, Us, Inv
<1>3. /\ \A v \in Us : v.proceso # p
      /\ Reparto(Us \cup {u}, [estado EXCEPT ![p] = "EXEC"],
                 [queue_ready EXCEPT ![p] = @ - 1], libres \ {c}, desalojando)
      /\ Conserva(Us, Us \cup {u}) /\ CorreEn(Us \cup {u}, c, p)
  BY <1>1, <1>2, RepartoEjecuta DEF TipoNucleo
<1>4. UnidadesDe(p) = {}
  BY <1>3 DEF UnidadesDe, Us
<1>5. /\ Enviar(c, <<ContextoDe(p)>>) /\ libres' = libres \ {c}
      /\ unidades' = Append(unidades, u)
      /\ estado' = [estado EXCEPT ![p] = "EXEC"]
  BY <1>4 DEF PonerEnEjecucion, Unidad0
<1>6. u \in Unidad /\ u.proceso = p
  BY <1>2 DEF Unidad0, Unidad, Modos
<1> HIDE DEF u
<1>7. /\ unidades' \in Seq(Unidad) /\ Us' = Us \cup {u}
      /\ SinDoble(unidades')
  BY <1>1, <1>2, <1>3, <1>5, <1>6, UnidadMas DEF TipoNucleo, Us
<1>8. estado[p] = "READY"
  BY <1>1, <1>2 DEF Reparto, EnSuLugar, TipoNucleo
<1> QED
  BY <1>2, <1>3, <1>5, <1>7, <1>8 DEF u

\* The planner gives the ready process p the free CPU c.
LEMMA PasoPonerEnEjecucion ==
    ASSUME Inv, NEW p \in Listos, NEW c \in libres, PonerEnEjecucion(p, c),
           corto = "planificar", corto' = "principal",
           queue_ready' = [queue_ready EXCEPT ![p] = @ - 1],
           UNCHANGED <<queue_new, semaforos, desalojador, desalojando,
                       desalojos, program_counter, syscalls, despacho,
                       a_kernel, interrupciones, cpuVars>>
    PROVE  Inv'
<1> DEFINE u == Unidad0(p, c, "EJECUTANDO")
<1>1. TipoNucleo /\ TipoCanales
  BY TiposPorPartes DEF Inv
<1>2. /\ p \in Pid /\ queue_ready[p] > 0 /\ c \in Cpu
  BY <1>1 DEF Listos, TipoNucleo
<1>3. /\ Reparto(Us \cup {u}, [estado EXCEPT ![p] = "EXEC"],
                 [queue_ready EXCEPT ![p] = @ - 1], libres \ {c}, desalojando)
      /\ Conserva(Us, Us \cup {u}) /\ CorreEn(Us \cup {u}, c, p)
      /\ estado[p] = "READY"
  BY UnidadNueva
<1>4. /\ Enviar(c, <<ContextoDe(p)>>) /\ libres' = libres \ {c}
      /\ estado' = [estado EXCEPT ![p] = "EXEC"]
  BY UnidadNueva
<1>5. /\ unidades' \in Seq(Unidad) /\ Us' = Us \cup {u}
      /\ SinDoble(unidades')
  BY UnidadNueva
<1> HIDE DEF u
<1>6. TipoNucleo'
  <2>1. estado' \in [Pid -> Estados]
    BY <1>1, <1>4 DEF TipoNucleo, Estados
  <2>2. queue_ready' \in [Pid -> Nat]
    BY <1>1, <1>2 DEF TipoNucleo
  <2> QED
    BY <1>1, <1>4, <1>5, <2>1, <2>2 DEF TipoNucleo, semaforos
<1>7. Nuevos(queue_new, estado)'
  <2>2. \A q \in Pid : estado[q] = "NEW" => estado'[q] = "NEW"
    BY <1>1, <1>3, <1>4 DEF TipoNucleo
  <2>3. Nuevos(queue_new, estado)
    BY DEF Inv
  <2>4. Nuevos(queue_new, estado')
    BY <1>1, <2>2, <2>3, NuevosQuietos DEF TipoNucleo
  <2> QED
    BY <2>4
<1>8. SinDoble(unidades)'
  BY <1>5 DEF SinDoble
<1>9. Reparto(Us, estado, queue_ready, libres, desalojando)'
  BY <1>3, <1>4, <1>5, Zenon
<1>10. FichasCpu'
  <2>1. IsFiniteSet(libres)
    BY <1>1, SrtAssumption, FS_Subset DEF TipoNucleo
  <2>2. /\ Cardinality(libres \ {c}) = Cardinality(libres) - 1
        /\ Cardinality(libres) \in Nat
    BY <2>1, FS_RemoveElement, FS_CardinalityType
  <2> QED
    BY <1>1, <1>4, <2>2 DEF Inv, FichasCpu, TipoNucleo, semaforos
<1>11. \A d \in Cpu : Sigue(d)
  BY <1>3, <1>5 DEF Sigue, Conserva, HayEspera, Corre
<1>12. \A d \in Cpu \ {c} : Quieta(d)
  BY <1>1, <1>4 DEF Quieta, MismoCanal, cpuVars, Enviar, TipoCanales
<1>13. ContextoDe(p) \in Contexto /\ ContextoDe(p).pid = p
  BY <1>1, <1>2 DEF ContextoDe, Contexto, TipoCanales
<1>14. PICK x \in Contexto : x = ContextoDe(p)
  BY <1>13
<1>15. Corre(c, x.pid)'
  BY <1>3, <1>5, <1>13, <1>14 DEF Corre
<1>16. Aviso(c)' /\ Canal(c)' /\ a_cpu' \in [Cpu -> Seq(Contexto \cup {OK})]
  BY <1>4, <1>14, <1>15, EnvioACpuLibre
<1>17. TipoCanales'
  BY <1>1, <1>16 DEF TipoCanales, cpuVars
<1> QED
  BY <1>2, <1>6, <1>7, <1>8, <1>9, <1>10, <1>11, <1>12, <1>16, <1>17,
     PasoDeNucleoCon

LEMMA PasoPlanificarCorto ==
    ASSUME Inv, PlanificarCorto
    PROVE  Inv'
<1>1. TipoNucleo /\ TipoCanales
  BY TiposPorPartes DEF Inv
<1>2. CASE Listos # {} /\ libres # {}
  <2>1. PICK p \in Listos, c \in libres :
           /\ queue_ready' = [queue_ready EXCEPT ![p] = @ - 1]
           /\ PonerEnEjecucion(p, c)
    BY <1>2 DEF PlanificarCorto
  <2> QED
    BY <1>2, <2>1, PasoPonerEnEjecucion DEF PlanificarCorto, semaforos
<1>3. CASE ~(Listos # {} /\ libres # {})
  <2>1. /\ corto = "planificar" /\ corto' = "principal"
        /\ proceso_ready' = IF Listos # {} THEN proceso_ready + 1
                                           ELSE proceso_ready
        /\ cpu_libre' = IF Listos = {} THEN cpu_libre + 1 ELSE cpu_libre
        /\ UNCHANGED <<estado, queue_ready, unidades, libres, a_cpu, queue_new,
                       planificacion_principal, check_desalojo, desalojador,
                       desalojando, desalojos, program_counter, syscalls,
                       despacho, a_kernel, interrupciones, cpuVars>>
    BY <1>3 DEF PlanificarCorto
  <2>2. TipoNucleo'
    BY <1>1, <2>1 DEF TipoNucleo
  <2>3. FichasCpu'
    <3>1. FichasCpu
      BY DEF Inv
    <3>2. ~(libres = {})
      <4>1. cpu_libre + 1 = Cardinality(libres) /\ cpu_libre \in Nat
        BY <1>1, <2>1, <3>1 DEF FichasCpu, TipoNucleo
      <4>2. Cardinality(libres) # 0
        BY <4>1
      <4>3. libres = {} => Cardinality(libres) = 0
        BY FS_EmptySet
      <4> QED
        BY <4>2, <4>3
    <3> QED
      BY <1>1, <1>3, <2>1, <3>1, <3>2 DEF FichasCpu, TipoNucleo
  <2> QED
    BY <2>1, <2>2, <2>3, PasoDeSemaforo DEF canales
<1> QED
  BY <1>2, <1>3

\* The units when the process of unit u is to leave its CPU for r.
Cesion(u, r) ==
    ({v \in Us : v.proceso # u.proceso}
        \cup {Unidad0(u.proceso, u.cpu, "INTERRUMPIDO")})
    \cup {Unidad0(r, u.cpu, "AEJECUTAR")}

LEMMA CedeCpu ==
    ASSUME Inv, NEW r \in Listos, NEW i \in DOMAIN unidades,
           unidades[i].modo = "EJECUTANDO", Desalojar(r, i), ~desalojando
    PROVE  \E u \in Us :
              /\ u \in Unidad /\ u.modo = "EJECUTANDO"
              /\ u.cpu \in Cpu /\ u.proceso \in Pid
              /\ interrupciones' = [interrupciones EXCEPT ![u.cpu] = @ + 1]
              /\ unidades' \in Seq(Unidad) /\ SinDoble(unidades')
              /\ Us' = Cesion(u, r)
              /\ Reparto(Cesion(u, r), estado,
                         [queue_ready EXCEPT ![r] = @ - 1], libres, TRUE)
              /\ Conserva(Us, Cesion(u, r)) /\ Espera(Cesion(u, r), u.cpu)
<1>1. TipoNucleo
  BY TiposPorPartes DEF Inv
<1>2. /\ unidades[i] \in Unidad /\ unidades[i] \in Us
      /\ Us \in SUBSET Unidad /\ SinDoble(unidades)
      /\ Reparto(Us, estado, queue_ready, libres, FALSE)
  <2>1. desalojando = FALSE
    BY <1>1 DEF TipoNucleo
  <2> QED
    BY <1>1, <2>1, ListaTipada DEF TipoNucleo, Us, Inv, ToSet
<1>3. PICK u \in Us : u = unidades[i]
  BY <1>2
<1>4. /\ u \in Unidad /\ u.modo = "EJECUTANDO"
      /\ u.cpu \in Cpu /\ u.proceso \in Pid
  BY <1>2, <1>3 DEF Unidad
<1>5. r \in Pid /\ queue_ready[r] > 0
  BY DEF Listos
<1> DEFINE x == Unidad0(u.proceso, u.cpu, "INTERRUMPIDO")
           y == Unidad0(r, u.cpu, "AEJECUTAR")
           ws == {v \in Us : v.proceso # u.proceso} \cup {x}
           vs == ws \cup {y}
           lista == [unidades EXCEPT ![i].modo = "INTERRUMPIDO"]
           q == [queue_ready EXCEPT ![r] = @ - 1]
<1>6. /\ \A v \in Us : v.proceso # r
      /\ Reparto(vs, estado, q, libres, TRUE)
      /\ Conserva(Us, vs) /\ Espera(vs, u.cpu)
  BY <1>1, <1>2, <1>4, <1>5, RepartoDesaloja DEF TipoNucleo
<1>7. /\ interrupciones' = [interrupciones EXCEPT ![u.cpu] = @ + 1]
      /\ unidades' = Append(lista, y)
  BY <1>3 DEF Desalojar, Unidad0
<1>8. y \in Unidad /\ y.proceso = r /\ x.proceso = u.proceso
  BY <1>4, <1>5 DEF Unidad0, Unidad, Modos
<1>9. x = [unidades[i] EXCEPT !.modo = "INTERRUMPIDO"]
  BY <1>3, <1>4 DEF Unidad0, Unidad
<1>10. lista \in Seq(Unidad) /\ ToSet(lista) = ws /\ SinDoble(lista)
  <2>1. "INTERRUMPIDO" \in Modos
    BY DEF Modos
  <2>2. unidades \in Seq(Unidad)
    BY <1>1 DEF TipoNucleo
  <2>3. /\ lista \in Seq(Unidad) /\ SinDoble(lista)
        /\ ToSet(lista) = {v \in ToSet(unidades) :
                              v.proceso # unidades[i].proceso}
                          \cup {[unidades[i] EXCEPT !.modo = "INTERRUMPIDO"]}
    BY <1>2, <2>1, <2>2, UnidadCambia
  <2> QED
    BY <1>3, <1>9, <2>3 DEF Us
<1>11. \A v \in ws : v.proceso # r
  BY <1>6, <1>8
<1> HIDE DEF x, y, lista, q
<1>12. /\ unidades' \in Seq(Unidad) /\ Us' = vs
       /\ SinDoble(unidades')
  BY <1>7, <1>8, <1>10, <1>11, UnidadMas DEF Us
<1> QED
  BY <1>4, <1>6, <1>7, <1>12 DEF Cesion, x, y, q

\* The process of the i-th unit is to leave its CPU for r.
LEMMA PasoDesalojar ==
    ASSUME Inv, NEW r \in Listos, NEW i \in DOMAIN unidades,
           unidades[i].modo = "EJECUTANDO", Desalojar(r, i),
           desalojos < MaxDesalojos, ~desalojando,
           desalojador' = "check_desalojo",
           UNCHANGED <<estado, queue_new, libres, semaforos, corto,
                       program_counter, syscalls, despacho, a_kernel, a_cpu,
                       cpuVars>>
    PROVE  Inv'
<1>1. TipoNucleo /\ TipoCanales
  BY TiposPorPartes DEF Inv
<1>2. PICK u \in Us :
         /\ u \in Unidad /\ u.modo = "EJECUTANDO"
         /\ u.cpu \in Cpu /\ u.proceso \in Pid
         /\ interrupciones' = [interrupciones EXCEPT ![u.cpu] = @ + 1]
         /\ unidades' \in Seq(Unidad) /\ SinDoble(unidades')
         /\ Us' = Cesion(u, r)
         /\ Reparto(Cesion(u, r), estado,
                    [queue_ready EXCEPT ![r] = @ - 1], libres, TRUE)
         /\ Conserva(Us, Cesion(u, r)) /\ Espera(Cesion(u, r), u.cpu)
  BY CedeCpu
<1>3. /\ r \in Pid /\ queue_ready[r] > 0
      /\ queue_ready' = [queue_ready EXCEPT ![r] = @ - 1]
      /\ desalojando' = TRUE /\ desalojos' = desalojos + 1
  BY DEF Desalojar, Listos
<1>4. TipoNucleo'
  <2>1. queue_ready' \in [Pid -> Nat]
    BY <1>1, <1>3 DEF TipoNucleo
  <2>2. desalojos' \in 0..MaxDesalojos
    BY <1>1, <1>3, SrtAssumption DEF TipoNucleo
  <2> QED
    BY <1>1, <1>2, <1>3, <2>1, <2>2 DEF TipoNucleo, semaforos
<1>5. TipoCanales'
  <2>1. interrupciones' \in [Cpu -> Nat]
    BY <1>1, <1>2 DEF TipoCanales
  <2> QED
    BY <1>1, <2>1 DEF TipoCanales, cpuVars
<1>6. /\ SinDoble(unidades)' /\ Nuevos(queue_new, estado)' /\ FichasCpu'
       /\ Reparto(Us, estado, queue_ready, libres, desalojando)'
  <2>1. Nuevos(queue_new, estado) /\ FichasCpu
    BY DEF Inv
  <2>2. Nuevos(queue_new, estado)' /\ FichasCpu'
    BY <2>1 DEF Nuevos, FichasCpu, semaforos
  <2>3. Reparto(Us, estado, queue_ready, libres, desalojando)'
    BY <1>2, <1>3, Zenon
  <2> QED
    BY <1>2, <2>2, <2>3 DEF SinDoble
<1>7. PICK c \in Cpu : c = u.cpu
  BY <1>2
<1>8. \A d \in Cpu : Sigue(d) /\ MismoCanal(d)
  BY <1>2 DEF Sigue, Conserva, HayEspera, Corre, MismoCanal, cpuVars
<1>9. \A d \in Cpu \ {c} : Quieta(d) /\ Sigue(d)
  BY <1>1, <1>2, <1>7, <1>8 DEF Quieta, TipoCanales, cpuVars
<1>10. Aviso(c) /\ Canal(c) /\ TypeOK
  BY DEF Inv
<1>11. Canal(c)'
  BY <1>8, <1>10, CanalQuieto
<1>12. ~HayEspera(c)
  BY DEF HayEspera, Espera, Inv, Reparto, UnDesalojo
<1>13. HayEspera(c)'
  BY <1>2, <1>7 DEF HayEspera
<1>14. /\ ~PideDesalojo(c) /\ ~(interrupciones[c] > 0)
       /\ flag_interrupcion[c] => fase[c] = "respuesta_int"
  BY <1>10, <1>12 DEF Aviso
<1>15. interrupciones'[c] = 1
  <2>1. interrupciones[c] = 0
    BY <1>1, <1>14 DEF TipoCanales
  <2> QED
    BY <1>1, <1>2, <1>7, <2>1 DEF TipoCanales
<1>16. PideDesalojo(c)' <=> PideDesalojo(c)
  BY DEF PideDesalojo
<1>17. Aviso(c)'
  BY <1>13, <1>14, <1>15, <1>16 DEF Aviso, cpuVars
<1> QED
  BY <1>4, <1>5, <1>6, <1>9, <1>11, <1>17, PasoDeNucleoCon

LEMMA PasoComprobarDesalojo ==
    ASSUME Inv, ComprobarDesalojo
    PROVE  Inv'
<1>1. TipoNucleo /\ FichasCpu
  BY TiposPorPartes DEF Inv
<1>2. /\ ~desalojando /\ desalojador' = "check_desalojo"
      /\ UNCHANGED <<estado, queue_new, libres, semaforos, corto,
                     program_counter, syscalls, despacho, a_kernel, a_cpu,
                     cpuVars>>
  BY DEF ComprobarDesalojo
<1>3. CASE UNCHANGED <<queue_ready, interrupciones, unidades, desalojando,
                       desalojos>>
  <2>1. TipoNucleo' /\ FichasCpu'
    BY <1>1, <1>2, <1>3 DEF TipoNucleo, FichasCpu, semaforos
  <2> QED
    BY <1>2, <1>3, <2>1, PasoDeSemaforo DEF canales
<1>4. CASE \E r \in Listos, i \in DOMAIN unidades :
              /\ unidades[i].modo = "EJECUTANDO"
              /\ desalojos < MaxDesalojos
              /\ Desalojar(r, i)
  BY <1>2, <1>4, PasoDesalojar
<1> QED
  BY <1>3, <1>4 DEF ComprobarDesalojo

-----------------------------------------------------------------------------
(* The system calls. *)

\* While the kernel handles a system call of p its CPU waits and p has a unit.
LEMMA Atendido ==
    ASSUME Inv, NEW c \in Cpu, NEW p \in Pid, NEW i \in Syscalls,
           Atiende(c, p, i)
    PROVE  /\ fase[c] = "respuesta" /\ a_cpu[c] = <<>> /\ Corre(c, p)
           /\ a_kernel[c] = Nada /\ contexto[c] \in Contexto
           /\ ~PideDesalojo(c) /\ despacho'[c] = Nada
           /\ despacho' = [despacho EXCEPT ![c] = Nada]
<1>1. TipoCanales /\ Canal(c)
  BY TiposPorPartes DEF Inv
<1> DEFINE a == [pid |-> p, motivo |-> i, hallado |-> TRUE]
<1>2. despacho[c] = a /\ despacho' = [despacho EXCEPT ![c] = Nada]
  BY DEF Atiende
<1>3. /\ a \in Atencion /\ a # Nada /\ a.motivo = i /\ a.pid = p
      /\ i # "INTERRUPCION"
  <2>1. a \in Atencion
    BY DEF Atencion
  <2>2. i # "INTERRUPCION"
    BY DEF Syscalls
  <2> QED
    BY <2>1, <2>2, MensajesAssumption
<1> HIDE DEF a
<1>4. /\ a_kernel[c] = Nada /\ despacho[c] # Nada
      /\ despacho[c].motivo = i /\ despacho[c].pid = p
  BY <1>1, <1>2, <1>3 DEF Canal
<1>5. CanalSyscall(c, despacho[c].pid)
  BY <1>1, <1>3, <1>4 DEF Canal
<1>6. fase[c] = "respuesta" /\ a_cpu[c] = <<>> /\ Corre(c, p)
  BY <1>4, <1>5 DEF CanalSyscall, Vacio
<1>7. contexto[c] \in Contexto
  BY <1>1, <1>6 DEF Canal
<1>8. ~PideDesalojo(c)
  BY <1>3, <1>4 DEF PideDesalojo
<1>9. despacho'[c] = Nada
  BY <1>1, <1>2 DEF TipoCanales
<1> QED
  BY <1>2, <1>4, <1>6, <1>7, <1>8, <1>9

\* sacar_proceso_ejecucion of a process that runs on c takes out its only unit.
LEMMA UnidadSacada ==
    ASSUME Inv, NEW c \in Cpu, NEW p \in Pid, Corre(c, p),
           SacarProcesoEjecucion(p)
    PROVE  \E u \in Us :
              /\ u.proceso = p /\ u.cpu = c /\ u.modo # "AEJECUTAR"
              /\ unidades' \in Seq(Unidad) /\ SinDoble(unidades')
              /\ Us' = {v \in Us : v.proceso # p}
              /\ CpusQueLibera(p) = IF u.modo = "EJECUTANDO" THEN {c} ELSE {}
<1>1. /\ unidades \in Seq(Unidad) /\ Us \in SUBSET Unidad
      /\ SinDoble(unidades) /\ EnSuLugar(Us, estado, queue_ready)
  <2>1. TipoNucleo
    BY TiposPorPartes DEF Inv
  <2> QED
    BY <2>1, ListaTipada DEF TipoNucleo, Us, Inv, Reparto
<1>2. PICK u \in Us : u.cpu = c /\ u.proceso = p /\ u.modo # "AEJECUTAR"
  BY DEF Corre, CorreEn
<1>3. UnidadesDe(p) = {u}
  BY <1>1, <1>2 DEF UnidadesDe, EnSuLugar, Us
<1>4. Min(LugaresDe(p)) \in LugaresDe(p)
  <2>1. Len(unidades) \in Nat /\ DOMAIN unidades = 1..Len(unidades)
    BY <1>1, ListaTipada
  <2>2. LugaresDe(p) \in SUBSET Nat /\ LugaresDe(p) # {}
    BY <1>2, <2>1 DEF LugaresDe, Us, ToSet
  <2>3. \E k \in LugaresDe(p) : \A l \in LugaresDe(p) : k <= l
    BY <2>2, HayMenor
  <2> QED
    BY <2>3 DEF Min
<1>5. PICK k \in DOMAIN unidades :
         k = Min(LugaresDe(p)) /\ unidades[k].proceso = p
  BY <1>4 DEF LugaresDe
<1>6. unidades' = RemoveAt(unidades, k)
  BY <1>3, <1>5 DEF SacarProcesoEjecucion
<1>7. /\ unidades' \in Seq(Unidad) /\ SinDoble(unidades')
      /\ Us' = {v \in Us : v.proceso # p}
  BY <1>1, <1>5, <1>6, UnidadMenos DEF Us
<1>8. CpusQueLibera(p) = IF u.modo = "EJECUTANDO" THEN {c} ELSE {}
  BY <1>2, <1>3 DEF CpusQueLibera
<1> QED
  BY <1>2, <1>7, <1>8

\* The CPUs that become free are given back to cpu_libre.
LEMMA FichasDevueltas ==
    ASSUME Inv, TipoNucleo, NEW cs \in SUBSET Cpu, NEW c \in Cpu \ libres,
           cs = {c} \/ cs = {}
    PROVE  /\ Cardinality(cs) \in Nat
           /\ Cardinality(libres \cup cs)
                 = cpu_libre + Cardinality(cs)
                      + (IF corto = "planificar" THEN 1 ELSE 0)
<1>1. IsFiniteSet(libres)
  BY SrtAssumption, FS_Subset DEF TipoNucleo
<1>2. FichasCpu /\ cpu_libre \in Nat
  BY DEF Inv, TipoNucleo
<1>3. CASE cs = {}
  <2>1. Cardinality(cs) = 0 /\ libres \cup cs = libres
    BY <1>3, FS_EmptySet
  <2> QED
    BY <1>2, <2>1 DEF FichasCpu
<1>4. CASE cs = {c}
  <2>1. Cardinality(cs) = 1
    BY <1>4, FS_Singleton
  <2>2. Cardinality(libres \cup {c}) = Cardinality(libres) + 1
    BY <1>1, FS_AddElement
  <2> QED
    BY <1>2, <1>4, <2>1, <2>2 DEF FichasCpu
<1> QED
  BY <1>3, <1>4

\* The process p leaves its CPU, for the state x.
LEMMA PasoSale ==
    ASSUME Inv, NEW c \in Cpu, NEW p \in Pid, NEW i \in Syscalls,
           Atiende(c, p, i), Enviar(c, <<OK>>), SacarProcesoEjecucion(p),
           NEW x \in {"BLOCKED", "LIBERADO", "READY"},
           estado' = [estado EXCEPT ![p] = x],
           queue_ready' = IF x = "READY" THEN [queue_ready EXCEPT ![p] = @ + 1]
                                         ELSE queue_ready,
           planificacion_principal' \in Nat, proceso_ready' \in Nat,
           check_desalojo' \in Nat,
           UNCHANGED <<queue_new, hilos, program_counter, syscalls, a_kernel,
                       interrupciones, cpuVars>>
    PROVE  Inv'
<1>1. TipoNucleo /\ TipoCanales
  BY TiposPorPartes DEF Inv
<1>2. /\ fase[c] = "respuesta" /\ a_cpu[c] = <<>> /\ Corre(c, p)
      /\ a_kernel[c] = Nada /\ contexto[c] \in Contexto
      /\ ~PideDesalojo(c) /\ despacho'[c] = Nada
      /\ despacho' = [despacho EXCEPT ![c] = Nada]
  BY Atendido
<1>3. PICK u \in Us :
         /\ u.proceso = p /\ u.cpu = c /\ u.modo # "AEJECUTAR"
         /\ unidades' \in Seq(Unidad) /\ SinDoble(unidades')
         /\ Us' = {v \in Us : v.proceso # p}
         /\ CpusQueLibera(p) = IF u.modo = "EJECUTANDO" THEN {c} ELSE {}
  BY <1>2, UnidadSacada
<1> DEFINE ms == libres \cup (IF u.modo = "EJECUTANDO" THEN {u.cpu} ELSE {})
           vs == {v \in Us : v.proceso # u.proceso}
           r == IF x = "READY" THEN [queue_ready EXCEPT ![u.proceso] = @ + 1]
                               ELSE queue_ready
<1>4. /\ Us \in SUBSET Unidad
      /\ Reparto(Us, estado, queue_ready, libres, desalojando)
  BY <1>1, ListaTipada DEF TipoNucleo, Us, Inv
<1>5. /\ Reparto(vs, [estado EXCEPT ![u.proceso] = x], r, ms, desalojando)
      /\ \A d \in Cpu : Espera(Us, d) => Espera(vs, d)
      /\ \A d \in Cpu, z \in Pid :
            CorreEn(Us, d, z) /\ z # u.proceso => CorreEn(vs, d, z)
      /\ \A d \in Cpu : CorreEn(Us, d, u.proceso) => d = u.cpu
      /\ u.modo = "EJECUTANDO" => u.cpu \notin libres
  <2>1. Salida(Us, estado, queue_ready, libres, desalojando, u, x)
    <3>1. /\ estado \in [Pid -> Estados] /\ queue_ready \in [Pid -> Nat]
          /\ libres \in SUBSET Cpu
      BY <1>1 DEF TipoNucleo
    <3>2. u \in Us /\ u.modo # "AEJECUTAR"
      BY <1>3
    <3> QED
      BY <1>4, <3>1, <3>2, RepartoSale, Zenon
  <2> QED
    BY <2>1 DEF Salida
<1>6. Us' = vs /\ libres' = ms /\ queue_ready' = r
  BY <1>3 DEF SacarProcesoEjecucion
<1> HIDE DEF ms, vs, r
<1>7. TipoNucleo' /\ FichasCpu'
  <2>1. c \notin libres \/ CpusQueLibera(p) = {}
    BY <1>3, <1>5
  <2>2. libres' = libres \cup CpusQueLibera(p)
    BY DEF SacarProcesoEjecucion
  <2>3. cpu_libre' = cpu_libre + Cardinality(CpusQueLibera(p))
    BY DEF SacarProcesoEjecucion
  <2>4. CASE CpusQueLibera(p) = {}
    <3>1. libres' = libres /\ cpu_libre' = cpu_libre
      BY <1>1, <2>2, <2>3, <2>4, FS_EmptySet DEF TipoNucleo
    <3>2. FichasCpu'
      BY <3>1 DEF Inv, FichasCpu, hilos
    <3>3. estado' \in [Pid -> Estados] /\ queue_ready' \in [Pid -> Nat]
      BY <1>1 DEF TipoNucleo, Estados
    <3> QED
      BY <1>1, <1>3, <3>1, <3>2, <3>3 DEF TipoNucleo, hilos
  <2>5. CASE CpusQueLibera(p) # {}
    <3>1. CpusQueLibera(p) = {c} /\ c \in Cpu \ libres
      BY <1>3, <2>1, <2>5
    <3>2. /\ Cardinality(CpusQueLibera(p)) \in Nat
          /\ Cardinality(libres \cup CpusQueLibera(p))
                = cpu_libre + Cardinality(CpusQueLibera(p))
                     + (IF corto = "planificar" THEN 1 ELSE 0)
      BY <1>1, <3>1, FichasDevueltas
    <3>3. FichasCpu'
      BY <2>2, <2>3, <3>2 DEF FichasCpu, hilos
    <3>4. libres' \in SUBSET Cpu /\ cpu_libre' \in Nat
      BY <1>1, <2>2, <2>3, <3>1, <3>2 DEF TipoNucleo
    <3>5. estado' \in [Pid -> Estados] /\ queue_ready' \in [Pid -> Nat]
      BY <1>1 DEF TipoNucleo, Estados
    <3> QED
      BY <1>1, <1>3, <3>3, <3>4, <3>5 DEF TipoNucleo, hilos
  <2> QED
    BY <2>4, <2>5
<1>8. Nuevos(queue_new, estado)'
  <2>1. estado[p] = "EXEC"
    BY <1>3, <1>4 DEF Reparto, EnSuLugar
  <2>2. \A q \in Pid : estado[q] = "NEW" => estado'[q] = "NEW"
    BY <1>1, <2>1 DEF TipoNucleo
  <2>3. Nuevos(queue_new, estado)
    BY DEF Inv
  <2>4. Nuevos(queue_new, estado')
    BY <1>1, <2>2, <2>3, NuevosQuietos DEF TipoNucleo
  <2> QED
    BY <2>4
<1>9. SinDoble(unidades)'
  BY <1>3 DEF SinDoble
<1>10. Reparto(Us, estado, queue_ready, libres, desalojando)'
  BY <1>3, <1>5, <1>6, Zenon DEF hilos
<1>11. \A d \in Cpu : HayEspera(d) => HayEspera(d)'
  BY <1>5, <1>6 DEF HayEspera
<1>12. \A d \in Cpu \ {c} : Sigue(d)
  BY <1>3, <1>5, <1>6, <1>11 DEF Sigue, Corre
<1>13. \A d \in Cpu \ {c} : Quieta(d)
  BY <1>1, <1>2 DEF Quieta, MismoCanal, cpuVars, Enviar, TipoCanales
<1>14. a_cpu'[c] = <<OK>>
  <2>1. a_cpu'[c] = a_cpu[c] \o <<OK>>
    BY <1>1 DEF Enviar, TipoCanales
  <2>2. <<>> \o <<OK>> = <<OK>>
    BY Palabras
  <2> QED
    BY <1>2, <2>1, <2>2
<1>15. TipoCanales'
  <2>1. a_cpu' \in [Cpu -> Seq(Contexto \cup {OK})]
    <3>1. <<OK>> \in Seq(Contexto \cup {OK})
      OBVIOUS
    <3> QED
      BY <1>1, <1>14, <3>1 DEF Enviar, TipoCanales
  <2>2. despacho' \in [Cpu -> Atencion \cup {Nada}]
    BY <1>1, <1>2 DEF TipoCanales
  <2> QED
    BY <1>1, <2>1, <2>2 DEF TipoCanales, cpuVars
<1>16. Canal(c)'
  BY <1>2, <1>14 DEF Canal, EnVuelo, CanalLibre, cpuVars
<1>17. Aviso(c)'
  <2>1. ~PideDesalojo(c)'
    BY <1>2 DEF PideDesalojo
  <2>2. Aviso(c)
    BY DEF Inv
  <2> QED
    BY <1>11, <2>1, <2>2 DEF Aviso, cpuVars
<1> QED
  BY <1>7, <1>8, <1>9, <1>10, <1>12, <1>13, <1>15, <1>16, <1>17,
     PasoDeNucleoCon

LEMMA PasosDeSalida ==
    ASSUME Inv, NEW c \in Cpu, NEW p \in Pid,
           \/ Finalizado(c, p) \/ CausaIo(c, p)
           \/ \E exito \in BOOLEAN : MemoryDump(c, p, exito)
    PROVE  Inv'
<1>1. TipoNucleo
  BY TiposPorPartes DEF Inv
<1>2. {"EXIT", "IO", "DUMP_MEMORY"} \subseteq Syscalls
  BY DEF Syscalls
<1>3. CASE Finalizado(c, p)
  <2>1. /\ Atiende(c, p, "EXIT") /\ Enviar(c, <<OK>>)
        /\ SacarProcesoEjecucion(p)
        /\ estado' = [estado EXCEPT ![p] = "LIBERADO"]
        /\ planificacion_principal' \in Nat /\ proceso_ready' \in Nat
        /\ check_desalojo' \in Nat /\ queue_ready' = queue_ready
        /\ UNCHANGED <<queue_new, hilos, program_counter, syscalls, a_kernel,
                       interrupciones, cpuVars>>
    BY <1>1, <1>3 DEF Finalizado, TipoNucleo, colas
  <2> QED
    BY <1>2, <2>1, PasoSale
<1>4. CASE CausaIo(c, p)
  <2>1. /\ Atiende(c, p, "IO") /\ Enviar(c, <<OK>>)
        /\ SacarProcesoEjecucion(p)
        /\ estado' = [estado EXCEPT ![p] = "BLOCKED"]
        /\ planificacion_principal' \in Nat /\ proceso_ready' \in Nat
        /\ check_desalojo' \in Nat /\ queue_ready' = queue_ready
        /\ UNCHANGED <<queue_new, hilos, program_counter, syscalls, a_kernel,
                       interrupciones, cpuVars>>
    BY <1>1, <1>4 DEF CausaIo, TipoNucleo, colas
  <2> QED
    BY <1>2, <2>1, PasoSale
<1>5. CASE MemoryDump(c, p, TRUE)
  <2>1. /\ Atiende(c, p, "DUMP_MEMORY") /\ Enviar(c, <<OK>>)
        /\ SacarProcesoEjecucion(p)
        /\ estado' = [estado EXCEPT ![p] = "READY"]
        /\ planificacion_principal' \in Nat /\ proceso_ready' \in Nat
        /\ check_desalojo' \in Nat
        /\ queue_ready' = [queue_ready EXCEPT ![p] = @ + 1]
        /\ UNCHANGED <<queue_new, hilos, program_counter, syscalls, a_kernel,
                       interrupciones, cpuVars>>
    BY <1>1, <1>5 DEF MemoryDump, TipoNucleo, AgregarAReady
  <2> QED
    BY <1>2, <2>1, PasoSale
<1>6. CASE MemoryDump(c, p, FALSE)
  <2>1. /\ Atiende(c, p, "DUMP_MEMORY") /\ Enviar(c, <<OK>>)
        /\ SacarProcesoEjecucion(p)
        /\ estado' = [estado EXCEPT ![p] = "LIBERADO"]
        /\ planificacion_principal' \in Nat /\ proceso_ready' \in Nat
        /\ check_desalojo' \in Nat /\ queue_ready' = queue_ready
        /\ UNCHANGED <<queue_new, hilos, program_counter, syscalls, a_kernel,
                       interrupciones, cpuVars>>
    BY <1>1, <1>6 DEF MemoryDump, TipoNucleo
  <2> QED
    BY <1>2, <2>1, PasoSale
<1> QED
  BY <1>3, <1>4, <1>5, <1>6

\* crear_proceso takes the first pid that was never used.
LEMMA PasoInitProc ==
    ASSUME Inv, NEW c \in Cpu, NEW p \in Pid, InitProc(c, p)
    PROVE  Inv'
<1>1. TipoNucleo /\ TipoCanales
  BY TiposPorPartes DEF Inv
<1>2. "INIT_PROC" \in Syscalls /\ Atiende(c, p, "INIT_PROC")
  BY DEF Syscalls, InitProc
<1>3. /\ fase[c] = "respuesta" /\ a_cpu[c] = <<>> /\ Corre(c, p)
      /\ a_kernel[c] = Nada /\ contexto[c] \in Contexto
      /\ ~PideDesalojo(c) /\ despacho'[c] = Nada
      /\ despacho' = [despacho EXCEPT ![c] = Nada]
  BY <1>2, Atendido
<1>4. Min(SinCrear) \in SinCrear
  <2>1. SinCrear \in SUBSET Nat /\ SinCrear # {}
    BY SrtAssumption DEF SinCrear, InitProc
  <2>2. \E k \in SinCrear : \A l \in SinCrear : k <= l
    BY <2>1, HayMenor
  <2> QED
    BY <2>2 DEF Min
<1>5. PICK n \in Pid : n = Min(SinCrear) /\ estado[n] = "SIN_CREAR"
  BY <1>4 DEF SinCrear
<1>6. /\ estado' = [estado EXCEPT ![n] = "NEW"]
      /\ queue_new' = Append(queue_new, n)
      /\ Enviar(c, <<OK, ContextoDe(p)>>) \/ Enviar(c, <<OK>>)
      /\ UNCHANGED <<queue_ready, unidades, libres, semaforos, hilos,
                     program_counter, syscalls, a_kernel, interrupciones,
                     cpuVars>>
  BY <1>5 DEF InitProc
<1>7. Us \in SUBSET Unidad /\ Us' = Us
  BY <1>1, <1>6, ListaTipada DEF TipoNucleo, Us
<1>8. /\ Append(queue_new, n) \in Seq(Pid)
      /\ Nuevos(Append(queue_new, n), [estado EXCEPT ![n] = "NEW"])
  <2>1. Nuevos(queue_new, estado)
    BY DEF Inv
  <2> QED
    BY <1>1, <1>5, <2>1, NuevosMas DEF TipoNucleo
<1>9. Nuevos(queue_new, estado)'
  BY <1>6, <1>8
<1>10. TipoNucleo'
  <2>1. estado' \in [Pid -> Estados]
    BY <1>1, <1>6 DEF TipoNucleo, Estados
  <2> QED
    BY <1>1, <1>6, <1>8, <2>1 DEF TipoNucleo, semaforos, hilos
<1>11. Reparto(Us, [estado EXCEPT ![n] = "NEW"], queue_ready, libres,
               desalojando)
  <2>1. estado[n] \in {"SIN_CREAR", "NEW", "BLOCKED"}
    BY <1>5
  <2>2. Reparto(Us, estado, queue_ready, libres, desalojando)
    BY DEF Inv
  <2>3. estado \in [Pid -> Estados] /\ queue_ready \in [Pid -> Nat]
    BY <1>1 DEF TipoNucleo
  <2>4. \A x \in {"NEW", "READY"} :
           Reparto(Us, [estado EXCEPT ![n] = x],
                   IF x = "READY" THEN [queue_ready EXCEPT ![n] = @ + 1]
                                  ELSE queue_ready, libres, desalojando)
    BY <1>7, <2>1, <2>2, <2>3, RepartoPasa
  <2>5. "NEW" \in {"NEW", "READY"} /\ "NEW" # "READY"
    OBVIOUS
  <2> QED
    BY <2>4, <2>5
<1>12. Reparto(Us, estado, queue_ready, libres, desalojando)'
  BY <1>6, <1>7, <1>11, Zenon DEF hilos
<1>13. SinDoble(unidades)' /\ FichasCpu'
  BY <1>6 DEF Inv, SinDoble, FichasCpu, semaforos, hilos
<1>14. \A d \in Cpu : Sigue(d)
  BY <1>6, MismasUnidades
<1>15. \A d \in Cpu \ {c} : Quieta(d)
  BY <1>1, <1>3, <1>6 DEF Quieta, MismoCanal, cpuVars, Enviar, TipoCanales
<1>16. ContextoDe(p) \in Contexto /\ ContextoDe(p).pid = p
  BY <1>1 DEF ContextoDe, Contexto, TipoCanales
<1>17. PICK x \in Contexto : x = ContextoDe(p)
  BY <1>16
<1>18. x.pid = p /\ (Enviar(c, <<OK, x>>) \/ Enviar(c, <<OK>>))
  BY <1>6, <1>16, <1>17
<1>19. a_cpu'[c] = <<OK>> \/ a_cpu'[c] = <<OK, x>>
  <2>1. a_cpu'[c] = a_cpu[c] \o <<OK>> \/ a_cpu'[c] = a_cpu[c] \o <<OK, x>>
    BY <1>1, <1>18 DEF Enviar, TipoCanales
  <2>2. <<>> \o <<OK>> = <<OK>> /\ <<>> \o <<OK, x>> = <<OK, x>>
    BY Palabras
  <2> QED
    BY <1>3, <2>1, <2>2
<1>20. TipoCanales'
  <2>1. <<OK>> \in Seq(Contexto \cup {OK}) /\ <<OK, x>> \in Seq(Contexto \cup {OK})
    OBVIOUS
  <2>2. a_cpu' \in [Cpu -> Seq(Contexto \cup {OK})]
    BY <1>1, <1>18, <1>19, <2>1 DEF Enviar, TipoCanales
  <2>3. despacho' \in [Cpu -> Atencion \cup {Nada}]
    BY <1>1, <1>3 DEF TipoCanales
  <2> QED
    BY <1>1, <1>6, <2>2, <2>3 DEF TipoCanales, cpuVars
<1>21. CanalLibre(c)'
  <2>1. Corre(c, x.pid)'
    BY <1>3, <1>7, <1>18 DEF Corre
  <2>2. a_cpu'[c] = <<OK>> \/ TrasRespuesta(c, a_cpu[c])'
    BY <1>19, <2>1 DEF TrasRespuesta
  <2> QED
    BY <1>3, <1>6, <2>2 DEF CanalLibre, cpuVars
<1>22. Canal(c)'
  BY <1>3, <1>6, <1>21 DEF Canal, EnVuelo, cpuVars
<1>23. Aviso(c)'
  <2>1. ~PideDesalojo(c)'
    BY <1>3, <1>6 DEF PideDesalojo
  <2>2. Aviso(c) /\ (HayEspera(c) => HayEspera(c)')
    BY <1>14 DEF Inv, Sigue
  <2> QED
    BY <1>6, <2>1, <2>2 DEF Aviso, cpuVars
<1> QED
  BY <1>9, <1>10, <1>12, <1>13, <1>14, <1>15, <1>20, <1>22, <1>23,
     PasoDeNucleoCon

-----------------------------------------------------------------------------
(* The answer to an interrupt. *)

\* The last of the places of a mode is one of them.
LEMMA UltimaUnidad ==
    ASSUME TipoNucleo, NEW c, NEW m, UnidadesEn(c, m) # {}
    PROVE  Max(UnidadesEn(c, m)) \in UnidadesEn(c, m)
<1>1. Len(unidades) \in Nat /\ DOMAIN unidades = 1..Len(unidades)
  BY ListaTipada DEF TipoNucleo
<1>2. UnidadesEn(c, m) \in SUBSET (0..Len(unidades))
  BY <1>1 DEF UnidadesEn
<1>3. \E x \in UnidadesEn(c, m) : \A y \in UnidadesEn(c, m) : x >= y
  BY <1>1, <1>2, HayMayor
<1> QED
  BY <1>3 DEF Max

\* What INTERRUPCION leaves when unit y takes CPU y.cpu: us are the units
\* before, vs after.
Relevo(us, vs, y) ==
    /\ CorreEn(vs, y.cpu, y.proceso)
    /\ \A c \in Cpu : Espera(us, c) => c = y.cpu
    /\ \A c \in Cpu, z \in Pid :
          CorreEn(us, c, z) /\ c # y.cpu => CorreEn(vs, c, z)

\* The unit of q, which waits for CPU c, is EJECUTANDO in the list t.
LEMMA UnidadToma ==
    ASSUME Inv, NEW c \in Cpu, NEW j \in DOMAIN unidades,
           unidades[j].cpu = c, unidades[j].modo = "AEJECUTAR"
    PROVE  LET q == unidades[j].proceso
               t == [unidades EXCEPT ![j].modo = "EJECUTANDO"]
           IN  /\ q \in Pid /\ estado[q] = "READY" /\ unidades[j] \in Us
               /\ t \in Seq(Unidad) /\ SinDoble(t) /\ DOMAIN t = DOMAIN unidades
               /\ \A k \in DOMAIN unidades : k # j => t[k] = unidades[k]
               /\ ToSet(t) = {v \in Us : v.proceso # q}
                             \cup {Unidad0(q, c, "EJECUTANDO")}
               /\ Reparto(ToSet(t), [estado EXCEPT ![q] = "EXEC"], queue_ready,
                          libres, FALSE)
               /\ Relevo(Us, ToSet(t), unidades[j])
<1> DEFINE q == unidades[j].proceso
           t == [unidades EXCEPT ![j].modo = "EJECUTANDO"]
<1>1. TipoNucleo
  BY TiposPorPartes DEF Inv
<1>2. /\ unidades \in Seq(Unidad) /\ unidades[j] \in Unidad
      /\ unidades[j] \in Us
      /\ Us \in SUBSET Unidad /\ SinDoble(unidades)
      /\ Reparto(Us, estado, queue_ready, libres, desalojando)
  BY <1>1, ListaTipada DEF TipoNucleo, Us, Inv, ToSet
<1>3. PICK y \in Us : y = unidades[j]
  BY <1>2
<1>4. y.modo = "AEJECUTAR" /\ y.cpu = c /\ y.proceso = q /\ q \in Pid
  BY <1>2, <1>3 DEF Unidad
<1>5. estado[q] = "READY"
  BY <1>2, <1>3, <1>4 DEF Reparto, EnSuLugar
<1> DEFINE x == Unidad0(y.proceso, y.cpu, "EJECUTANDO")
           vs == {v \in Us : v.proceso # y.proceso} \cup {x}
<1>6. /\ Reparto(vs, [estado EXCEPT ![y.proceso] = "EXEC"], queue_ready,
                 libres, FALSE)
      /\ CorreEn(vs, y.cpu, y.proceso)
      /\ \A d \in Cpu : Espera(Us, d) => d = y.cpu
      /\ \A d \in Cpu, z \in Pid :
            CorreEn(Us, d, z) /\ d # y.cpu => CorreEn(vs, d, z)
  <2>1. /\ estado \in [Pid -> Estados] /\ queue_ready \in [Pid -> Nat]
        /\ libres \in SUBSET Cpu
    BY <1>1 DEF TipoNucleo
  <2> QED
    BY <1>2, <1>4, <2>1, RepartoReemplaza
<1>7. x = [unidades[j] EXCEPT !.modo = "EJECUTANDO"]
  BY <1>2, <1>3 DEF Unidad0, Unidad
<1>8. /\ t \in Seq(Unidad) /\ SinDoble(t) /\ DOMAIN t = DOMAIN unidades
      /\ \A k \in DOMAIN unidades : k # j => t[k] = unidades[k]
      /\ ToSet(t) = {v \in ToSet(unidades) : v.proceso # unidades[j].proceso}
                    \cup {[unidades[j] EXCEPT !.modo = "EJECUTANDO"]}
  <2>1. "EJECUTANDO" \in Modos
    BY DEF Modos
  <2>2. /\ t \in Seq(Unidad) /\ DOMAIN t = DOMAIN unidades
        /\ \A k \in DOMAIN unidades :
              t[k] = IF k = j THEN [unidades[j] EXCEPT !.modo = "EJECUTANDO"]
                              ELSE unidades[k]
        /\ ToSet(t) = {v \in ToSet(unidades) : v.proceso # unidades[j].proceso}
                      \cup {[unidades[j] EXCEPT !.modo = "EJECUTANDO"]}
        /\ SinDoble(t)
    BY <1>2, <2>1, UnidadCambia
  <2> HIDE DEF t
  <2> QED
    BY <2>2
<1>9. ToSet(t) = vs
  BY <1>3, <1>7, <1>8 DEF Us
<1>10. ToSet(t) = {v \in Us : v.proceso # q}
                  \cup {Unidad0(q, c, "EJECUTANDO")}
  BY <1>4, <1>9
<1> HIDE DEF t, x, vs
<1>11. Relevo(Us, ToSet(t), unidades[j])
  BY <1>3, <1>6, <1>9 DEF Relevo
<1>12. Reparto(ToSet(t), [estado EXCEPT ![q] = "EXEC"], queue_ready, libres,
               FALSE)
  BY <1>3, <1>6, <1>9
<1> QED
  BY <1>2, <1>4, <1>5, <1>8, <1>10, <1>11, <1>12 DEF t

\* CPU c, which asked for it, is sent the context of the process that takes it.
LEMMA EnvioDeRelevo ==
    ASSUME Inv, NEW c \in Cpu, despacho[c] # Nada,
           despacho[c].motivo = "INTERRUPCION",
           despacho' = [despacho EXCEPT ![c] = Nada],
           NEW x \in Contexto, Enviar(c, <<OK, x>>), Corre(c, x.pid)',
           UNCHANGED <<program_counter, syscalls, a_kernel, interrupciones,
                       cpuVars>>
    PROVE  Aviso(c)' /\ Canal(c)' /\ TipoCanales'
<1>1. TipoCanales /\ Aviso(c) /\ Canal(c)
  BY TiposPorPartes DEF Inv
<1>2. a_kernel[c] = Nada /\ CanalDesalojo(c) /\ despacho'[c] = Nada
  BY <1>1 DEF Canal, TipoCanales
<1>3. a_cpu'[c] = a_cpu[c] \o <<OK, x>>
  BY <1>1 DEF Enviar, TipoCanales
<1>4. \/ /\ fase[c] \in {"reset", "esperando", "respuesta_int"}
         /\ a_cpu'[c] = <<OK, x>>
      \/ /\ fase[c] = "respuesta_int"
         /\ \E y \in Contexto : a_cpu'[c] = <<y, OK, x>>
  <2>1. <<>> \o <<OK, x>> = <<OK, x>>
    BY Palabras
  <2>2. ASSUME NEW y \in Contexto PROVE <<y>> \o <<OK, x>> = <<y, OK, x>>
    BY UnirDos
  <2>3. CASE Vacio(a_cpu[c])
    BY <1>2, <1>3, <2>1, <2>3 DEF Vacio, CanalDesalojo
  <2>4. CASE UnContexto(a_cpu[c]) /\ fase[c] = "respuesta_int"
    <3>1. PICK y \in Contexto : a_cpu[c] = <<y>>
      BY <2>4 DEF UnContexto
    <3>2. a_cpu'[c] = <<y, OK, x>>
      BY <1>3, <2>2, <3>1
    <3> QED
      BY <2>4, <3>2
  <2> QED
    BY <1>2, <2>3, <2>4 DEF CanalDesalojo
<1>5. TipoCanales'
  <2>1. /\ <<OK, x>> \in Seq(Contexto \cup {OK})
        /\ \A y \in Contexto : <<y, OK, x>> \in Seq(Contexto \cup {OK})
    OBVIOUS
  <2>2. a_cpu'[c] \in Seq(Contexto \cup {OK})
    BY <1>4, <2>1
  <2>3. a_cpu' \in [Cpu -> Seq(Contexto \cup {OK})]
    BY <1>1, <1>3, <2>2 DEF Enviar, TipoCanales
  <2>4. despacho' \in [Cpu -> Atencion \cup {Nada}]
    BY <1>1 DEF TipoCanales
  <2> QED
    BY <1>1, <2>3, <2>4 DEF TipoCanales, cpuVars
<1>6. CanalLibre(c)'
  <2>1. a_cpu'[c] = <<OK, x>> => TrasRespuesta(c, a_cpu[c])'
    BY DEF TrasRespuesta
  <2>2. (\E y \in Contexto : a_cpu'[c] = <<y, OK, x>>) => TrasResto(c, a_cpu[c])'
    BY DEF TrasResto
  <2> QED
    BY <1>4, <2>1, <2>2 DEF CanalLibre, cpuVars
<1>7. fase'[c] # "respuesta"
  BY <1>4 DEF cpuVars
<1>8. Canal(c)'
  BY <1>2, <1>6, <1>7 DEF Canal, EnVuelo
<1>9. PideDesalojo(c)
  BY DEF PideDesalojo
<1>10. /\ ~(interrupciones[c] > 0)
       /\ flag_interrupcion[c] => fase[c] = "respuesta_int"
  BY <1>1, <1>9 DEF Aviso
<1>11. ~PideDesalojo(c)'
  BY <1>2 DEF PideDesalojo
<1>12. Aviso(c)'
  BY <1>10, <1>11 DEF Aviso, cpuVars
<1> QED
  BY <1>5, <1>8, <1>12

\* What INTERRUPCION leaves when q takes CPU c: the unit of the process that
\* the handler found INTERRUMPIDO is out, and nothing changes on other CPUs.
Relevada(c, q) ==
    /\ estado' \in [Pid -> Estados] /\ queue_ready' \in [Pid -> Nat]
    /\ unidades' \in Seq(Unidad) /\ SinDoble(unidades')
    /\ proceso_ready' \in Nat /\ check_desalojo' \in Nat
    /\ \A z \in Pid : estado[z] = "NEW" => estado'[z] = "NEW"
    /\ \A z \in Pid : estado[z] = "LIBERADO" => estado'[z] = "LIBERADO"
    /\ Reparto(Us', estado', queue_ready', libres, FALSE)
    /\ \A u \in Us' : u \in Us \/ u = Unidad0(q, c, "EJECUTANDO")
    /\ \A u \in Us : u.cpu # c => u \in Us'
    /\ \/ ~despacho[c].hallado
       \/ \A u \in Us : u.cpu = c => u.modo # "INTERRUMPIDO"
       \/ \E u \in Us : u.cpu = c /\ u.modo = "INTERRUMPIDO" /\ u \notin Us'
    /\ CorreEn(Us', c, q)
    /\ \A d \in Cpu, z \in Pid :
          CorreEn(Us, d, z) /\ d # c => CorreEn(Us', d, z)

LEMMA CpuRelevada ==
    ASSUME Inv, NEW c \in Cpu, Interrupcion(c)
    PROVE  \E q \in Pid :
              Enviar(c, <<OK, ContextoDe(q)>>) /\ Relevada(c, q)
              /\ \A d \in Cpu : HayEspera(d) => d = c
<1>1. TipoNucleo /\ TipoCanales
  BY TiposPorPartes DEF Inv
<1> DEFINE mayor == Max(UnidadesEn(c, "AEJECUTAR"))
<1>2. PICK j \in DOMAIN unidades :
         /\ j = mayor
         /\ unidades[j].cpu = c /\ unidades[j].modo = "AEJECUTAR"
  <2>1. UnidadesEn(c, "AEJECUTAR") # {}
    BY DEF Interrupcion
  <2> QED
    BY <1>1, <2>1, UltimaUnidad DEF UnidadesEn
<1> DEFINE q == unidades[j].proceso
           t == [unidades EXCEPT ![j].modo = "EJECUTANDO"]
           e == [estado EXCEPT ![q] = "EXEC"]
           haySale == /\ despacho[c].hallado
                      /\ UnidadesEn(c, "INTERRUMPIDO") # {}
           i == Max(UnidadesEn(c, "INTERRUMPIDO"))
           p == unidades[i].proceso
<1>3. /\ despacho[c] # Nada /\ despacho[c].motivo = "INTERRUPCION"
      /\ despacho' = [despacho EXCEPT ![c] = Nada]
      /\ Enviar(c, <<OK, ContextoDe(q)>>)
  BY <1>2 DEF Interrupcion
<1>4. IF haySale
      THEN /\ estado' = [estado EXCEPT ![p] = "READY", ![q] = "EXEC"]
           /\ AgregarAReady(p, libres)
           /\ unidades' = RemoveAt(t, i)
      ELSE /\ estado' = e /\ unidades' = t
           /\ UNCHANGED <<queue_ready, proceso_ready, check_desalojo>>
  BY <1>2 DEF Interrupcion
<1>5. /\ q \in Pid /\ estado[q] = "READY" /\ unidades[j] \in Us
      /\ t \in Seq(Unidad) /\ SinDoble(t) /\ DOMAIN t = DOMAIN unidades
      /\ \A k \in DOMAIN unidades : k # j => t[k] = unidades[k]
      /\ Reparto(ToSet(t), e, queue_ready, libres, FALSE)
      /\ Relevo(Us, ToSet(t), unidades[j])
      /\ ToSet(t) = {v \in Us : v.proceso # q}
                    \cup {Unidad0(q, c, "EJECUTANDO")}
  BY <1>2, UnidadToma
<1>6. /\ CorreEn(ToSet(t), c, q)
      /\ \A d \in Cpu : Espera(Us, d) => d = c
      /\ \A d \in Cpu, z \in Pid :
            CorreEn(Us, d, z) /\ d # c => CorreEn(ToSet(t), d, z)
  BY <1>2, <1>5 DEF Relevo
<1>7. /\ e \in [Pid -> Estados] /\ e[q] = "EXEC"
      /\ \A z \in Pid : z # q => e[z] = estado[z]
  BY <1>1, <1>5 DEF TipoNucleo, Estados
<1>8. /\ \A u \in ToSet(t) : u \in Us \/ u = Unidad0(q, c, "EJECUTANDO")
      /\ \A u \in Us : u.cpu # c => u \in ToSet(t)
      /\ \A u, v \in Us : u.proceso = v.proceso => u = v
  <2>1. EnSuLugar(Us, estado, queue_ready)
    BY DEF Inv, Reparto
  <2>2. \A u, v \in Us : u.proceso = v.proceso => u = v
    BY <2>1 DEF EnSuLugar
  <2>3. \A u \in Us : u.cpu # c => u.proceso # q
    BY <1>2, <1>5, <2>2
  <2> HIDE DEF q, t, e
  <2> QED
    BY <1>5, <2>2, <2>3
<1> HIDE DEF mayor, q, t, e, i
<1>9. ASSUME ~haySale PROVE Relevada(c, q)
  <2>1. /\ estado' = e /\ unidades' = t
        /\ UNCHANGED <<queue_ready, proceso_ready, check_desalojo>>
    BY <1>4, <1>9
  <2>2. Us' = ToSet(t)
    BY <2>1 DEF Us
  <2>3. \/ ~despacho[c].hallado
        \/ \A u \in Us : u.cpu = c => u.modo # "INTERRUMPIDO"
    BY <1>9 DEF UnidadesEn, Us, ToSet
  <2>4. /\ \A z \in Pid : estado[z] = "NEW" => estado'[z] = "NEW"
        /\ \A z \in Pid : estado[z] = "LIBERADO" => estado'[z] = "LIBERADO"
    BY <1>5, <1>7, <2>1
  <2>5. /\ proceso_ready' \in Nat /\ check_desalojo' \in Nat
        /\ estado' \in [Pid -> Estados] /\ queue_ready' \in [Pid -> Nat]
    BY <1>1, <1>7, <2>1 DEF TipoNucleo
  <2>6. Reparto(Us', estado', queue_ready', libres, FALSE)
    BY <1>5, <2>1, <2>2, Zenon
  <2> QED
    BY <1>5, <1>6, <1>8, <2>1, <2>2, <2>3, <2>4, <2>5, <2>6 DEF Relevada
<1>10. ASSUME haySale PROVE Relevada(c, q)
  <2>1. /\ estado' = [estado EXCEPT ![p] = "READY", ![q] = "EXEC"]
        /\ AgregarAReady(p, libres) /\ unidades' = RemoveAt(t, i)
    BY <1>4, <1>10
  <2>2. /\ i \in DOMAIN unidades
        /\ unidades[i].cpu = c /\ unidades[i].modo = "INTERRUMPIDO"
    <3>1. UnidadesEn(c, "INTERRUMPIDO") # {}
      BY <1>10
    <3>2. i \in UnidadesEn(c, "INTERRUMPIDO")
      BY <1>1, <3>1, UltimaUnidad DEF i
    <3> QED
      BY <3>2 DEF UnidadesEn
  <2>3. t[i] = unidades[i] /\ i \in DOMAIN t
    BY <1>2, <1>5, <2>2
  <2>4. PICK u \in ToSet(t) : u = t[i]
    BY <2>3 DEF ToSet
  <2>5. /\ u \in Unidad /\ u.modo = "INTERRUMPIDO" /\ u.cpu = c
        /\ u.proceso = p /\ p \in Pid /\ ToSet(t) \in SUBSET Unidad
    <3>1. ToSet(t) \in SUBSET Unidad
      BY <1>5, ListaTipada
    <3>2. u \in Unidad
      BY <2>4, <3>1
    <3> QED
      BY <2>2, <2>3, <2>4, <3>1, <3>2 DEF Unidad
  <2> DEFINE vs == {v \in ToSet(t) : v.proceso # p}
  <2> HIDE DEF p
  <2>6. Salida(ToSet(t), e, queue_ready, libres, FALSE, u, "READY")
    <3>1. queue_ready \in [Pid -> Nat] /\ libres \in SUBSET Cpu
      BY <1>1 DEF TipoNucleo
    <3>2. u.modo # "AEJECUTAR"
      BY <2>5
    <3>3. "READY" \in {"BLOCKED", "LIBERADO", "READY"}
      OBVIOUS
    <3>4. ToSet(t) \in SUBSET Unidad
      BY <2>5
    <3> QED
      BY <1>5, <1>7, <3>1, <3>2, <3>3, <3>4, RepartoSale, Zenon
  <2>7. /\ Reparto(vs, [e EXCEPT ![p] = "READY"],
                   [queue_ready EXCEPT ![p] = @ + 1], libres, FALSE)
        /\ \A d \in Cpu, z \in Pid :
              CorreEn(ToSet(t), d, z) /\ z # p => CorreEn(vs, d, z)
        /\ \A d \in Cpu : CorreEn(ToSet(t), d, p) => d = c
    <3>1. libres \cup (IF u.modo = "EJECUTANDO" THEN {u.cpu} ELSE {}) = libres
      BY <2>5
    <3> QED
      BY <2>5, <2>6, <3>1 DEF Salida
  <2>8. e[p] = "EXEC" /\ p # q
    <3>1. e[u.proceso] = "EXEC"
      BY <1>5, <2>5 DEF Reparto, EnSuLugar
    <3>2. \E v \in Us : v.proceso = p /\ v.modo = "INTERRUMPIDO"
      BY <2>2, <2>3, <2>4, <2>5 DEF Us, ToSet
    <3>3. Reparto(Us, estado, queue_ready, libres, desalojando)
      BY DEF Inv
    <3>4. estado[p] = "EXEC"
      BY <3>2, <3>3 DEF Reparto, EnSuLugar
    <3> QED
      BY <1>5, <2>5, <3>1, <3>4
  <2>9. estado' = [e EXCEPT ![p] = "READY"]
    <3>1. estado \in [Pid -> Estados]
      BY <1>1 DEF TipoNucleo
    <3> QED
      BY <1>5, <2>1, <2>5, <2>8, <3>1 DEF e
  <2>10. /\ unidades' \in Seq(Unidad) /\ SinDoble(unidades') /\ Us' = vs
    <3>1. ToSet(RemoveAt(t, i)) = {v \in ToSet(t) : v.proceso # t[i].proceso}
      BY <1>5, <2>3, UnidadMenos
    <3>2. RemoveAt(t, i) \in Seq(Unidad) /\ SinDoble(RemoveAt(t, i))
      BY <1>5, <2>3, UnidadMenos
    <3>3. t[i].proceso = p
      BY <2>4, <2>5
    <3> QED
      BY <2>1, <3>1, <3>2, <3>3 DEF Us
  <2>11. /\ queue_ready' = [queue_ready EXCEPT ![p] = @ + 1]
         /\ proceso_ready' \in Nat /\ check_desalojo' \in Nat
         /\ queue_ready' \in [Pid -> Nat] /\ estado' \in [Pid -> Estados]
    <3>1. /\ queue_ready' = [queue_ready EXCEPT ![p] = @ + 1]
          /\ proceso_ready' = proceso_ready + 1
          /\ check_desalojo' \in {check_desalojo, check_desalojo + 1}
      BY <2>1 DEF AgregarAReady
    <3>2. /\ queue_ready \in [Pid -> Nat] /\ proceso_ready \in Nat
          /\ check_desalojo \in Nat
      BY <1>1 DEF TipoNucleo
    <3>3. queue_ready' \in [Pid -> Nat]
      BY <2>5, <3>1, <3>2
    <3>4. estado' \in [Pid -> Estados]
      BY <1>7, <2>5, <2>9 DEF Estados
    <3> QED
      BY <3>1, <3>2, <3>3, <3>4
  <2>12. /\ \A z \in Pid : estado[z] = "NEW" => estado'[z] = "NEW"
         /\ \A z \in Pid : estado[z] = "LIBERADO" => estado'[z] = "LIBERADO"
    BY <1>5, <1>7, <2>5, <2>8, <2>9
  <2> HIDE DEF vs
  <2>13. Reparto(Us', estado', queue_ready', libres, FALSE)
    BY <2>7, <2>9, <2>10, <2>11, Zenon
  <2>14. CorreEn(Us', c, q)
    BY <1>5, <1>6, <2>7, <2>8, <2>10
  <2>15. \A d \in Cpu, z \in Pid :
            CorreEn(Us, d, z) /\ d # c => CorreEn(Us', d, z)
    BY <1>6, <2>7, <2>10
  <2>16. PICK w \in Us : w = unidades[i]
    BY <2>2 DEF Us, ToSet
  <2>17. w.cpu = c /\ w.modo = "INTERRUMPIDO" /\ w.proceso = p
    BY <2>2, <2>3, <2>4, <2>5, <2>16
  <2>18. w \notin Us'
    BY <2>10, <2>17 DEF vs
  <2>19. \A v \in Us' : v \in Us \/ v = Unidad0(q, c, "EJECUTANDO")
    BY <1>8, <2>10 DEF vs
  <2>20. \A v \in Us : v.cpu # c => v \in Us'
    BY <1>8, <2>10, <2>17 DEF vs
  <2> QED
    BY <2>10, <2>11, <2>12, <2>13, <2>14, <2>15, <2>17, <2>18, <2>19, <2>20
       DEF Relevada
<1>11. Relevada(c, q)
  BY <1>9, <1>10
<1>12. PICK z \in Pid : z = q
  BY <1>5
<1>13. /\ Enviar(c, <<OK, ContextoDe(z)>>) /\ Relevada(c, z)
       /\ \A d \in Cpu : HayEspera(d) => d = c
  BY <1>3, <1>6, <1>11, <1>12 DEF HayEspera
<1> QED
  BY <1>13

LEMMA PasoInterrupcion ==
    ASSUME Inv, NEW c \in Cpu, Interrupcion(c)
    PROVE  Inv'
<1>1. TipoNucleo /\ TipoCanales
  BY TiposPorPartes DEF Inv
<1>2. /\ despacho[c] # Nada /\ despacho[c].motivo = "INTERRUPCION"
      /\ despacho' = [despacho EXCEPT ![c] = Nada] /\ desalojando' = FALSE
      /\ UNCHANGED <<queue_new, libres, planificacion_principal, cpu_libre,
                     corto, desalojador, desalojos, program_counter, syscalls,
                     a_kernel, interrupciones, cpuVars>>
  BY DEF Interrupcion
<1>3. PICK q \in Pid :
          /\ Enviar(c, <<OK, ContextoDe(q)>>) /\ Relevada(c, q)
          /\ \A d \in Cpu : HayEspera(d) => d = c
  BY CpuRelevada
<1>4. TipoNucleo'
  BY <1>1, <1>2, <1>3 DEF TipoNucleo, Relevada
<1>5. /\ SinDoble(unidades)' /\ FichasCpu'
       /\ Reparto(Us, estado, queue_ready, libres, desalojando)'
  <2>1. Reparto(Us, estado, queue_ready, libres, desalojando)'
    <3>1. Reparto(Us', estado', queue_ready', libres, FALSE)
      BY <1>3 DEF Relevada
    <3> QED
      BY <1>2, <3>1, Zenon
  <2>2. FichasCpu'
    BY <1>2 DEF Inv, FichasCpu
  <2> QED
    BY <1>3, <2>1, <2>2 DEF SinDoble, Relevada
<1>6. Nuevos(queue_new, estado)'
  <2>1. Nuevos(queue_new, estado)
    BY DEF Inv
  <2>2. Nuevos(queue_new, estado')
    BY <1>1, <1>3, <2>1, NuevosQuietos DEF TipoNucleo, Relevada
  <2> QED
    BY <1>2, <2>2
<1>7. \A d \in Cpu \ {c} : Sigue(d)
  BY <1>3 DEF Sigue, HayEspera, Corre, Relevada
<1>8. \A d \in Cpu \ {c} : Quieta(d)
  BY <1>1, <1>2, <1>3 DEF Quieta, MismoCanal, cpuVars, Enviar, TipoCanales
<1>9. ContextoDe(q) \in Contexto /\ ContextoDe(q).pid = q
  BY <1>1, <1>3 DEF ContextoDe, Contexto, TipoCanales
<1>10. PICK x \in Contexto : x = ContextoDe(q)
  BY <1>9
<1>11. Corre(c, x.pid)'
  BY <1>3, <1>9, <1>10 DEF Corre, Relevada
<1>12. Aviso(c)' /\ Canal(c)' /\ TipoCanales'
  <2>1. Enviar(c, <<OK, x>>)
    BY <1>3, <1>10
  <2> QED
    BY <1>2, <1>11, <2>1, EnvioDeRelevo
<1> QED
  BY <1>4, <1>5, <1>6, <1>7, <1>8, <1>12, PasoDeNucleoCon

-----------------------------------------------------------------------------
(* The invariant and what follows from it. *)

LEMMA InvInit == Init => Inv
<1> SUFFICES ASSUME Init PROVE Inv
  OBVIOUS
<1>1. Min(Pid) \in Pid
  <2>1. \E k \in Pid : \A l \in Pid : k <= l
    BY SrtAssumption, HayMenor
  <2> QED
    BY <2>1 DEF Min
<1>2. PICK m \in Pid : m = Min(Pid)
  BY <1>1
<1>3. Cardinality(Cpu) \in Nat
  BY SrtAssumption, FS_CardinalityType
<1>4. /\ estado = [p \in Pid |-> IF p = m THEN "NEW" ELSE "SIN_CREAR"]
      /\ queue_new = <<m>>
  BY <1>2 DEF Init
<1>5. queue_new \in Seq(Pid) /\ DOMAIN queue_new = {1} /\ queue_new[1] = m
  BY <1>4
<1>6. TipoNucleo
  <2>1. estado \in [Pid -> Estados]
    BY <1>4 DEF Estados
  <2>2. queue_ready \in [Pid -> Nat] /\ unidades \in Seq(Unidad)
    BY DEF Init
  <2>3. /\ libres \in SUBSET Cpu /\ planificacion_principal \in Nat
        /\ proceso_ready \in Nat /\ cpu_libre \in Nat /\ check_desalojo \in Nat
        /\ desalojando \in BOOLEAN
    BY <1>3 DEF Init
  <2>4. /\ corto \in {"principal", "proceso_ready", "cpu_libre", "planificar"}
        /\ desalojador \in {"check_desalojo", "desalojando"}
        /\ desalojos \in 0..MaxDesalojos
    BY SrtAssumption DEF Init
  <2> QED
    BY <1>5, <2>1, <2>2, <2>3, <2>4 DEF TipoNucleo
<1>7. TipoCanales
  <2>1. <<>> \in Seq(Contexto \cup {OK})
    OBVIOUS
  <2> QED
    BY <2>1, SrtAssumption DEF Init, TipoCanales, Fases
<1>8. Us = {} /\ SinDoble(unidades)
  BY DEF Init, Us, ToSet, SinDoble
<1>9. Nuevos(queue_new, estado)
  BY <1>4, <1>5 DEF Nuevos
<1>10. Reparto(Us, estado, queue_ready, libres, desalojando)
  BY <1>4, <1>8
     DEF Init, Reparto, EnSuLugar, ConSuCpu, UnDesalojo
<1>11. FichasCpu
  BY <1>3 DEF Init, FichasCpu
<1>12. ASSUME NEW c \in Cpu PROVE Aviso(c) /\ Canal(c)
  BY DEF Init, Aviso, Canal, PideDesalojo, EnVuelo, CanalLibre, Vacio
<1> QED
  BY <1>6, <1>7, <1>8, <1>9, <1>10, <1>11, <1>12, TiposPorPartes DEF Inv

LEMMA InvStep == Inv /\ [Next]_vars => Inv'
<1> SUFFICES ASSUME Inv, [Next]_vars PROVE Inv'
  OBVIOUS
<1>1. CASE Planificador \/ Desalojador
  BY <1>1, PasosDeEspera, PasoPlanificarCorto, PasoComprobarDesalojo
     DEF Planificador, Desalojador
<1>2. CASE Admitir
  BY <1>2, PasoAdmitir
<1>3. CASE \E p \in Pid : FinalizacionIo(p)
  BY <1>3, PasoFinalizacionIo
<1>4. ASSUME NEW c \in Cpu, RecibirDispatch(c) \/ Handler(c)
      PROVE  Inv'
  BY <1>4, PasoRecibirDispatch, PasoInterrupcion, PasosDeSalida, PasoInitProc
     DEF Handler
<1>5. ASSUME NEW c \in Cpu, LlegaInterrupcion(c) \/ MainCpu(c) \/ Ejecutar(c)
      PROVE  Inv'
  BY <1>5, PasoLlegaInterrupcion, PasoReiniciar, PasoRecibirContexto,
     PasoRecibirRespuesta, PasoControlarInterrupcion,
     PasoRecibirRespuestaInterrupcion, PasoEjecutarComun, PasoEjecutarSyscall
     DEF MainCpu, Ejecutar
<1>6. CASE UNCHANGED vars
  <2>1. TipoNucleo' /\ FichasCpu'
    <3>1. TipoNucleo /\ FichasCpu
      BY TiposPorPartes DEF Inv
    <3> QED
      BY <1>6, <3>1
         DEF vars, kernelVars, colas, semaforos, hilos, TipoNucleo, FichasCpu
  <2> QED
    BY <1>6, <2>1, PasoDeSemaforo DEF vars, kernelVars, colas, hilos
<1> QED
  BY <1>1, <1>2, <1>3, <1>4, <1>5, <1>6 DEF Next

\* The inductive invariant.
THEOREM InvSiempre == Spec => []Inv
<1>1. Init => Inv
  BY InvInit
<1>2. Inv /\ [Next]_vars => Inv'
  BY InvStep
<1> QED
  BY <1>1, <1>2, PTL DEF Spec

\* Every variable keeps its type.
THEOREM TiposDeSrt == Spec => []TypeOK
<1>1. Inv => TypeOK
  BY DEF Inv
<1> QED
  BY <1>1, InvSiempre, PTL

LEMMA IndicesDeUnidades ==
    ASSUME Inv
    PROVE  /\ \A i \in DOMAIN unidades :
                 unidades[i] \in Us /\ unidades[i] \in Unidad
           /\ \A u \in Us : \E i \in DOMAIN unidades : u = unidades[i]
           /\ \A i, j \in DOMAIN unidades : unidades[i] = unidades[j] => i = j
<1>1. unidades \in Seq(Unidad) /\ SinDoble(unidades)
  BY DEF Inv, TypeOK
<1> QED
  BY <1>1, ListaTipada DEF Us, ToSet, SinDoble

\* buscar_cpu_libre, sacar_proceso_ejecucion and comprobar_desalojo agree, at
\* every moment, on who has a CPU.
THEOREM CpusRepartidas == Spec => []UnaPorCpu
<1>1. ASSUME Inv PROVE UnaPorCpu
  <2> SUFFICES ASSUME NEW c \in Cpu
               PROVE  Cardinality(UnidadesEn(c, "EJECUTANDO")
                                     \cup UnidadesEn(c, "AEJECUTAR"))
                         = IF c \in libres THEN 0 ELSE 1
    BY DEF UnaPorCpu
  <2> DEFINE W == UnidadesEn(c, "EJECUTANDO") \cup UnidadesEn(c, "AEJECUTAR")
  <2>1. ConSuCpu(Us, libres)
    BY <1>1 DEF Inv, Reparto
  <2>2. \A i : i \in W <=> /\ i \in DOMAIN unidades /\ unidades[i].cpu = c
                           /\ unidades[i].modo # "INTERRUMPIDO"
    BY <1>1, IndicesDeUnidades DEF UnidadesEn, Unidad, Modos
  <2> HIDE DEF W
  <2>3. CASE c \in libres
    <3>1. W = {}
      BY <1>1, <2>1, <2>2, <2>3, IndicesDeUnidades DEF ConSuCpu
    <3> QED
      BY <2>3, <3>1, FS_EmptySet DEF W
  <2>4. CASE c \notin libres
    <3>1. PICK k \in W : TRUE
      BY <1>1, <2>1, <2>2, <2>4, IndicesDeUnidades DEF ConSuCpu
    <3>2. \A i \in W : i = k
      BY <1>1, <2>1, <2>2, <3>1, IndicesDeUnidades DEF ConSuCpu
    <3>3. W = {k}
      BY <3>1, <3>2
    <3> QED
      BY <2>4, <3>3, FS_Singleton DEF W
  <2> QED
    BY <2>3, <2>4
<1> QED
  BY <1>1, InvSiempre, PTL

\* No process is lost or duplicated by a preemption: queue_ready, the units
\* and pcb->estado tell the same.
THEOREM ProcesosEnSuLugar == Spec => []CadaUnoEnSuLugar
<1>1. ASSUME Inv PROVE CadaUnoEnSuLugar
  <2> SUFFICES ASSUME NEW p \in Pid
               PROVE  /\ queue_ready[p] + Cardinality({i \in DOMAIN unidades :
                                           unidades[i].proceso = p}) <= 1
                      /\ UnidadesDe(p) # {} =>
                            estado[p] = IF \E u \in UnidadesDe(p) :
                                              u.modo = "AEJECUTAR"
                                        THEN "READY" ELSE "EXEC"
                      /\ estado[p] = "READY" =>
                            queue_ready[p] = 1 \/ UnidadesDe(p) # {}
                      /\ estado[p] = "EXEC" => UnidadesDe(p) # {}
                      /\ queue_ready[p] = 1 => estado[p] = "READY"
    BY DEF CadaUnoEnSuLugar
  <2> DEFINE W == {i \in DOMAIN unidades : unidades[i].proceso = p}
  <2>1. EnSuLugar(Us, estado, queue_ready)
    BY <1>1 DEF Inv, Reparto
  <2>2. \A u : u \in UnidadesDe(p) <=> u \in Us /\ u.proceso = p
    BY DEF UnidadesDe, Us
  <2>3. queue_ready[p] \in {0, 1}
    BY <2>1 DEF EnSuLugar
  <2>4. queue_ready[p] + Cardinality(W) <= 1
    <3>1. CASE W = {}
      BY <2>3, <3>1, FS_EmptySet
    <3>2. CASE W # {}
      <4>1. PICK k \in W : TRUE
        BY <3>2
      <4>2. W = {k} /\ queue_ready[p] = 0
        BY <1>1, <2>1, <4>1, IndicesDeUnidades DEF EnSuLugar
      <4>3. Cardinality(W) = 1
        BY <4>2, FS_Singleton
      <4> QED
        BY <4>2, <4>3
    <3> QED
      BY <3>1, <3>2
  <2>5. UnidadesDe(p) # {} =>
           estado[p] = IF \E u \in UnidadesDe(p) : u.modo = "AEJECUTAR"
                       THEN "READY" ELSE "EXEC"
    BY <2>1, <2>2 DEF EnSuLugar
  <2>6. /\ estado[p] = "READY" => queue_ready[p] = 1 \/ UnidadesDe(p) # {}
        /\ estado[p] = "EXEC" => UnidadesDe(p) # {}
        /\ queue_ready[p] = 1 => estado[p] = "READY"
    BY <2>1, <2>2 DEF EnSuLugar
  <2> QED
    BY <2>4, <2>5, <2>6
<1> QED
  BY <1>1, InvSiempre, PTL

\* The mutex desalojando is locked exactly while one replacement waits.
THEOREM UnDesalojoPorVez == Spec => []DesalojoEnCurso
<1>1. ASSUME Inv PROVE DesalojoEnCurso
  <2>1. UnDesalojo(Us, desalojando)
    BY <1>1 DEF Inv, Reparto
  <2>2. desalojando <=> PorReemplazar # {}
    <3>1. (\E u \in Us : u.modo = "AEJECUTAR") <=> PorReemplazar # {}
      BY <1>1, IndicesDeUnidades DEF PorReemplazar
    <3> QED
      BY <2>1, <3>1 DEF UnDesalojo
  <2>3. Cardinality(PorReemplazar) <= 1
    <3>1. CASE PorReemplazar = {}
      BY <3>1, FS_EmptySet
    <3>2. CASE PorReemplazar # {}
      <4>1. PICK k \in PorReemplazar : TRUE
        BY <3>2
      <4>2. PorReemplazar = {k}
        BY <1>1, <2>1, <4>1, IndicesDeUnidades DEF PorReemplazar, UnDesalojo
      <4> QED
        BY <4>2, FS_Singleton
    <3> QED
      BY <3>1, <3>2
  <2> QED
    BY <2>2, <2>3 DEF DesalojoEnCurso
<1> QED
  BY <1>1, InvSiempre, PTL

\* The handlers of dispatch find the process they look up, and an INTERRUPCION
\* one to run, however late the CPU answers.
THEOREM SinPunteroNuloNunca == Spec => []SinPunteroNulo
<1>1. ASSUME Inv PROVE SinPunteroNulo
  <2> SUFFICES ASSUME NEW c \in Cpu
               PROVE  /\ HaySyscall(c) => despacho[c].hallado
                      /\ despacho[c] # Nada
                            /\ despacho[c].motivo = "INTERRUPCION" =>
                            UnidadesEn(c, "AEJECUTAR") # {}
    BY DEF SinPunteroNulo
  <2>1. Aviso(c) /\ Canal(c)
    BY <1>1 DEF Inv
  <2>2. HaySyscall(c) => despacho[c].hallado
    BY <2>1 DEF Canal, HaySyscall, Syscalls
  <2>3. despacho[c] # Nada /\ despacho[c].motivo = "INTERRUPCION" => HayEspera(c)
    BY <2>1 DEF Aviso, PideDesalojo
  <2>4. HayEspera(c) => UnidadesEn(c, "AEJECUTAR") # {}
    BY <1>1, IndicesDeUnidades DEF HayEspera, Espera, UnidadesEn
  <2> QED
    BY <2>2, <2>3, <2>4
<1> QED
  BY <1>1, InvSiempre, PTL

\* cpu_libre counts the free CPUs, whatever preemptions happen.
THEOREM FichasPorCpuLibre == Spec => []FichasCpu
<1>1. Inv => FichasCpu
  BY DEF Inv
<1> QED
  BY <1>1, InvSiempre, PTL

-----------------------------------------------------------------------------
(***************************************************************************)
(* The planner is awake.  A ready process is counted by proceso_ready, and *)
(* by planificacion_principal unless a busy CPU will signal it: the process*)
(* that a preemption makes ready is not signalled, but another left the    *)
(* queue for it, and while desalojando is locked one more is expected.     *)
(***************************************************************************)

Uno(b) == IF b THEN 1 ELSE 0
NListos(q) == Cardinality({p \in Pid : q[p] > 0})
NOcupadas(ls) == Cardinality(Cpu \ ls)

AvisosListos ==
    /\ NListos(queue_ready)
          <= proceso_ready + Uno(corto \in {"cpu_libre", "planificar"})
    /\ NListos(queue_ready) + Uno(desalojando)
          <= planificacion_principal + Uno(corto # "principal")
                + NOcupadas(libres)

InvDespierto == Inv /\ AvisosListos

LEMMA UnoEsUno ==
    /\ \A b : Uno(b) \in {0, 1}
    /\ \A b : b => Uno(b) = 1
    /\ \A b : ~b => Uno(b) = 0
BY DEF Uno

LEMMA CuantosListos ==
    ASSUME NEW q \in [Pid -> Nat]
    PROVE  /\ NListos(q) \in Nat
           /\ NListos(q) = 0 <=> \A p \in Pid : q[p] = 0
           /\ \A p \in Pid : NListos([q EXCEPT ![p] = @ + 1]) \in Nat
                             /\ NListos([q EXCEPT ![p] = @ + 1]) <= NListos(q) + 1
           /\ \A p \in Pid : q[p] = 1 =>
                 /\ NListos([q EXCEPT ![p] = @ - 1]) \in Nat
                 /\ NListos([q EXCEPT ![p] = @ - 1]) = NListos(q) - 1
<1> DEFINE L == {p \in Pid : q[p] > 0}
<1>1. IsFiniteSet(L) /\ Cardinality(L) \in Nat
  <2>1. L \in SUBSET Pid
    OBVIOUS
  <2>2. IsFiniteSet(L)
    BY <2>1, SrtAssumption, FS_Subset
  <2> QED
    BY <2>2, FS_CardinalityType
<1>2. NListos(q) = Cardinality(L)
  BY DEF NListos
<1>3. L = {} <=> \A p \in Pid : q[p] = 0
  OBVIOUS
<1>4. NListos(q) = 0 <=> \A p \in Pid : q[p] = 0
  BY <1>1, <1>2, <1>3, FS_EmptySet
<1>5. ASSUME NEW p \in Pid
      PROVE  /\ NListos([q EXCEPT ![p] = @ + 1]) \in Nat
             /\ NListos([q EXCEPT ![p] = @ + 1]) <= NListos(q) + 1
  <2>1. {r \in Pid : [q EXCEPT ![p] = @ + 1][r] > 0} = L \cup {p}
    OBVIOUS
  <2> HIDE DEF L
  <2>2. /\ IsFiniteSet(L \cup {p})
        /\ Cardinality(L \cup {p})
              = IF p \in L THEN Cardinality(L) ELSE Cardinality(L) + 1
    BY <1>1, FS_AddElement
  <2>3. NListos([q EXCEPT ![p] = @ + 1]) = Cardinality(L \cup {p})
    BY <2>1 DEF NListos
  <2> QED
    BY <1>1, <1>2, <2>2, <2>3
<1>6. ASSUME NEW p \in Pid, q[p] = 1
      PROVE  /\ NListos([q EXCEPT ![p] = @ - 1]) \in Nat
             /\ NListos([q EXCEPT ![p] = @ - 1]) = NListos(q) - 1
  <2>1. {r \in Pid : [q EXCEPT ![p] = @ - 1][r] > 0} = L \ {p}
    BY <1>6
  <2>2. p \in L
    BY <1>6
  <2> HIDE DEF L
  <2>3. /\ IsFiniteSet(L \ {p}) /\ Cardinality(L \ {p}) = Cardinality(L) - 1
        /\ Cardinality(L \ {p}) \in Nat
    BY <1>1, <2>2, FS_RemoveElement, FS_CardinalityType
  <2>4. NListos([q EXCEPT ![p] = @ - 1]) = Cardinality(L \ {p})
    BY <2>1 DEF NListos
  <2> QED
    BY <1>1, <1>2, <2>3, <2>4
<1> QED
  BY <1>1, <1>2, <1>4, <1>5, <1>6

LEMMA CuantasOcupadas ==
    ASSUME NEW ls \in SUBSET Cpu
    PROVE  /\ NOcupadas(ls) \in Nat
           /\ \A c \in Cpu \ ls : NOcupadas(ls) >= 1
           /\ \A c \in ls : /\ NOcupadas(ls \ {c}) \in Nat
                            /\ NOcupadas(ls \ {c}) = NOcupadas(ls) + 1
           /\ \A c \in Cpu : /\ NOcupadas(ls \cup {c}) \in Nat
                             /\ NOcupadas(ls \cup {c}) >= NOcupadas(ls) - 1
           /\ ls = Cpu => NOcupadas(ls) = 0
<1> DEFINE O == Cpu \ ls
<1>1. IsFiniteSet(O) /\ Cardinality(O) \in Nat /\ NOcupadas(ls) = Cardinality(O)
  <2>1. O \in SUBSET Cpu
    OBVIOUS
  <2>2. IsFiniteSet(O)
    BY <2>1, SrtAssumption, FS_Subset
  <2> QED
    BY <2>2, FS_CardinalityType DEF NOcupadas
<1>2. ASSUME NEW c \in O PROVE NOcupadas(ls) >= 1
  <2>1. Cardinality(O) # 0
    BY <1>1, FS_EmptySet
  <2> QED
    BY <1>1, <2>1
<1>3. ASSUME NEW c \in ls
      PROVE  /\ NOcupadas(ls \ {c}) \in Nat
             /\ NOcupadas(ls \ {c}) = NOcupadas(ls) + 1
  <2>1. Cpu \ (ls \ {c}) = O \cup {c} /\ c \notin O
    OBVIOUS
  <2> HIDE DEF O
  <2>2. Cardinality(O \cup {c}) = Cardinality(O) + 1
    BY <1>1, <2>1, FS_AddElement
  <2> QED
    BY <1>1, <2>1, <2>2 DEF NOcupadas
<1>4. ASSUME NEW c \in Cpu
      PROVE  /\ NOcupadas(ls \cup {c}) \in Nat
             /\ NOcupadas(ls \cup {c}) >= NOcupadas(ls) - 1
  <2>1. Cpu \ (ls \cup {c}) = O \ {c}
    OBVIOUS
  <2> HIDE DEF O
  <2>2. /\ IsFiniteSet(O \ {c})
        /\ Cardinality(O \ {c})
              = IF c \in O THEN Cardinality(O) - 1 ELSE Cardinality(O)
    BY <1>1, FS_RemoveElement
  <2>3. Cardinality(O \ {c}) \in Nat
    BY <2>2, FS_CardinalityType
  <2> QED
    BY <1>1, <2>1, <2>2, <2>3 DEF NOcupadas
<1>5. ls = Cpu => NOcupadas(ls) = 0
  <2>1. ls = Cpu => O = {}
    OBVIOUS
  <2> QED
    BY <1>1, <2>1, FS_EmptySet
<1> QED
  BY <1>1, <1>2, <1>3, <1>4, <1>5

\* What the counts are made of.
LEMMA TiposDeCuentas ==
    ASSUME Inv
    PROVE  /\ proceso_ready \in Nat /\ planificacion_principal \in Nat
           /\ queue_ready \in [Pid -> Nat] /\ libres \in SUBSET Cpu
           /\ NListos(queue_ready) \in Nat /\ NOcupadas(libres) \in Nat
           /\ desalojando => NOcupadas(libres) >= 1
<1>1. TipoNucleo
  BY TiposPorPartes DEF Inv
<1>2. /\ proceso_ready \in Nat /\ planificacion_principal \in Nat
      /\ queue_ready \in [Pid -> Nat] /\ libres \in SUBSET Cpu
  BY <1>1 DEF TipoNucleo
<1>3. desalojando => \E c \in Cpu : c \notin libres
  <2>1. UnDesalojo(Us, desalojando) /\ ConSuCpu(Us, libres)
    BY DEF Inv, Reparto
  <2>2. Us \in SUBSET Unidad
    BY <1>1, ListaTipada DEF TipoNucleo, Us
  <2>3. ASSUME NEW u \in Us, u.modo = "AEJECUTAR"
        PROVE  u.cpu \in Cpu /\ u.cpu \notin libres
    BY <2>1, <2>2, <2>3 DEF ConSuCpu, Unidad
  <2> QED
    BY <2>1, <2>3 DEF UnDesalojo
<1>4. desalojando => NOcupadas(libres) >= 1
  BY <1>2, <1>3, CuantasOcupadas
<1> QED
  BY <1>2, <1>4, CuantosListos, CuantasOcupadas

\* A step that neither the queue nor the planner notices.
LEMMA CuentasQuietas ==
    ASSUME AvisosListos,
           UNCHANGED <<queue_ready, libres, proceso_ready, corto, desalojando,
                       planificacion_principal>>
    PROVE  AvisosListos'
<1> USE DEF AvisosListos, NListos, NOcupadas
<1>1. (NListos(queue_ready) <= proceso_ready
          + Uno(corto \in {"cpu_libre", "planificar"}))'
  BY DEF Uno
<1>2. (NListos(queue_ready) + Uno(desalojando)
          <= planificacion_principal + Uno(corto # "principal")
                + NOcupadas(libres))'
  BY DEF Uno
<1> QED
  BY <1>1, <1>2

LEMMA DespiertoEspera ==
    ASSUME Inv, AvisosListos,
           EsperarPrincipal \/ EsperarProcesoReady \/ EsperarCpuLibre
    PROVE  AvisosListos'
<1> DEFINE n == NListos(queue_ready)
           o == NOcupadas(libres)
           d == Uno(desalojando)
<1>1. /\ proceso_ready \in Nat /\ planificacion_principal \in Nat
      /\ n \in Nat /\ o \in Nat /\ d \in {0, 1}
  BY TiposDeCuentas, UnoEsUno
<1>2. UNCHANGED <<queue_ready, libres, desalojando>>
  BY DEF EsperarPrincipal, EsperarProcesoReady, EsperarCpuLibre, colas
<1>3. n' = n /\ o' = o /\ d' = d
  BY <1>2 DEF NListos, NOcupadas, Uno
<1>4. /\ n <= proceso_ready + Uno(corto \in {"cpu_libre", "planificar"})
      /\ n + d <= planificacion_principal + Uno(corto # "principal") + o
  BY DEF AvisosListos
<1> HIDE DEF n, o, d
<1>5. CASE EsperarPrincipal
  <2>1. /\ corto = "principal" /\ corto' = "proceso_ready"
        /\ proceso_ready' = proceso_ready
        /\ planificacion_principal' = planificacion_principal - 1
    BY <1>5 DEF EsperarPrincipal
  <2>2. /\ n <= proceso_ready' + Uno(corto' \in {"cpu_libre", "planificar"})
        /\ n + d <= planificacion_principal' + Uno(corto' # "principal") + o
    BY <1>1, <1>4, <2>1 DEF Uno
  <2> QED
    BY <1>3, <2>2 DEF AvisosListos, n, o, d, Uno
<1>6. CASE EsperarProcesoReady
  <2>1. /\ corto = "proceso_ready" /\ corto' = "cpu_libre"
        /\ proceso_ready' = proceso_ready - 1
        /\ planificacion_principal' = planificacion_principal
    BY <1>6 DEF EsperarProcesoReady
  <2>2. /\ n <= proceso_ready' + Uno(corto' \in {"cpu_libre", "planificar"})
        /\ n + d <= planificacion_principal' + Uno(corto' # "principal") + o
    BY <1>1, <1>4, <2>1 DEF Uno
  <2> QED
    BY <1>3, <2>2 DEF AvisosListos, n, o, d, Uno
<1>7. CASE EsperarCpuLibre
  <2>1. /\ corto = "cpu_libre" /\ corto' = "planificar"
        /\ proceso_ready' = proceso_ready
        /\ planificacion_principal' = planificacion_principal
    BY <1>7 DEF EsperarCpuLibre
  <2>2. /\ n <= proceso_ready' + Uno(corto' \in {"cpu_libre", "planificar"})
        /\ n + d <= planificacion_principal' + Uno(corto' # "principal") + o
    BY <1>1, <1>4, <2>1 DEF Uno
  <2> QED
    BY <1>3, <2>2 DEF AvisosListos, n, o, d, Uno
<1> QED
  BY <1>5, <1>6, <1>7

\* FichasCpu: once the planner has both tokens there is a CPU for it.
LEMMA HayCpuAlPlanificar ==
    ASSUME Inv, corto = "planificar"
    PROVE  libres # {}
<1>1. cpu_libre + 1 = Cardinality(libres) /\ cpu_libre \in Nat
  BY TiposPorPartes DEF Inv, FichasCpu, TipoNucleo
<1>2. Cardinality(libres) # 0
  BY <1>1
<1> QED
  BY <1>2, FS_EmptySet

LEMMA DespiertoPlanificar ==
    ASSUME Inv, AvisosListos, PlanificarCorto
    PROVE  AvisosListos'
<1> DEFINE n == NListos(queue_ready)
           o == NOcupadas(libres)
           d == Uno(desalojando)
<1>1. /\ proceso_ready \in Nat /\ planificacion_principal \in Nat
      /\ n \in Nat /\ o \in Nat /\ d \in {0, 1}
      /\ d = 1 => o >= 1
      /\ queue_ready \in [Pid -> Nat] /\ libres \in SUBSET Cpu
  BY TiposDeCuentas DEF Uno
<1>2. /\ n <= proceso_ready + 1
      /\ n + d <= planificacion_principal + 1 + o
  BY DEF AvisosListos, PlanificarCorto, Uno
<1>3. /\ corto = "planificar" /\ corto' = "principal"
      /\ UNCHANGED <<desalojando, planificacion_principal>>
  BY DEF PlanificarCorto
<1>4. libres # {}
  BY <1>3, HayCpuAlPlanificar
<1>5. d' = d
  BY <1>3 DEF Uno
<1> HIDE DEF n, o, d
<1>6. CASE Listos # {}
  <2>1. PICK p \in Listos, c \in libres :
           /\ queue_ready' = [queue_ready EXCEPT ![p] = @ - 1]
           /\ PonerEnEjecucion(p, c) /\ proceso_ready' = proceso_ready
    BY <1>4, <1>6 DEF PlanificarCorto
  <2>2. EnSuLugar(Us, estado, queue_ready)
    BY DEF Inv, Reparto
  <2>3. p \in Pid /\ queue_ready[p] = 1
    BY <2>2 DEF Listos, EnSuLugar
  <2>4. UnidadesDe(p) = {}
    BY <2>2, <2>3 DEF EnSuLugar, UnidadesDe, Us
  <2>5. libres' = libres \ {c}
    BY <2>1, <2>4 DEF PonerEnEjecucion
  <2>6. n' \in Nat /\ n' = n - 1
    BY <1>1, <2>1, <2>3, CuantosListos DEF n
  <2>7. o' \in Nat /\ o' = o + 1
    BY <1>1, <2>5, CuantasOcupadas DEF o
  <2>8. n' <= proceso_ready' /\ n' + d' <= planificacion_principal' + o'
    BY <1>1, <1>2, <1>3, <1>5, <2>1, <2>6, <2>7
  <2>9. /\ n' <= proceso_ready' + 0
        /\ n' + d' <= planificacion_principal' + 0 + o'
    BY <1>1, <1>3, <2>1, <2>7, <2>8
  <2> QED
    BY <1>3, <2>9 DEF AvisosListos, Uno, n, o, d
<1>7. CASE Listos = {}
  <2>1. UNCHANGED <<queue_ready, libres, proceso_ready>>
    BY <1>7 DEF PlanificarCorto
  <2>2. n = 0
    BY <1>1, <1>7, CuantosListos DEF Listos, n
  <2>3. n' = n /\ o' = o
    BY <2>1 DEF n, o, NListos, NOcupadas
  <2>4. /\ n' <= proceso_ready' + 0
        /\ n' + d' <= planificacion_principal' + 0 + o'
    BY <1>1, <1>2, <1>3, <1>5, <2>1, <2>2, <2>3
  <2> QED
    BY <1>3, <2>4 DEF AvisosListos, Uno, n, o, d
<1> QED
  BY <1>6, <1>7

\* comprobar_desalojo takes a process from the queue, and no signal.
LEMMA DespiertoDesalojar ==
    ASSUME Inv, AvisosListos, ComprobarDesalojo
    PROVE  AvisosListos'
<1> DEFINE n == NListos(queue_ready)
           o == NOcupadas(libres)
           s == Uno(corto \in {"cpu_libre", "planificar"})
           t == Uno(corto # "principal")
<1>1. /\ ~desalojando
      /\ UNCHANGED <<libres, proceso_ready, planificacion_principal, corto>>
  BY DEF ComprobarDesalojo, semaforos
<1>2. /\ proceso_ready \in Nat /\ planificacion_principal \in Nat
      /\ n \in Nat /\ o \in Nat /\ s \in {0, 1} /\ t \in {0, 1}
      /\ queue_ready \in [Pid -> Nat]
  BY TiposDeCuentas DEF Uno
<1>3. n <= proceso_ready + s /\ n <= planificacion_principal + t + o
  BY <1>1, <1>2 DEF AvisosListos, Uno
<1>4. o' = o /\ s' = s /\ t' = t
  BY <1>1 DEF NOcupadas, Uno
<1> HIDE DEF n, o, s, t
<1>5. CASE UNCHANGED <<queue_ready, desalojando>>
  BY <1>1, <1>5, CuentasQuietas
<1>6. CASE ~UNCHANGED <<queue_ready, desalojando>>
  <2>1. PICK r \in Listos :
           /\ queue_ready' = [queue_ready EXCEPT ![r] = @ - 1]
           /\ desalojando' = TRUE
    BY <1>6 DEF ComprobarDesalojo, Desalojar
  <2>2. r \in Pid /\ queue_ready[r] = 1
    BY DEF Inv, Reparto, EnSuLugar, Listos
  <2>3. n' \in Nat /\ n' = n - 1
    BY <1>2, <2>1, <2>2, CuantosListos DEF n
  <2>4. Uno(desalojando)' = 1
    BY <2>1 DEF Uno
  <2>5. /\ n' <= proceso_ready' + s'
        /\ n' + 1 <= planificacion_principal' + t' + o'
    BY <1>1, <1>2, <1>3, <1>4, <2>3
  <2> QED
    BY <2>4, <2>5 DEF AvisosListos, n, o, s, t
<1> QED
  BY <1>5, <1>6

\* A step in which k processes get ready, planificacion_principal is signalled
\* m times, e CPUs are freed and b preemptions end.
Cuenta(k, m, e, b) ==
    /\ NListos(queue_ready') \in Nat /\ NOcupadas(libres') \in Nat
    /\ NListos(queue_ready') <= NListos(queue_ready) + k
    /\ proceso_ready' = proceso_ready + k
    /\ planificacion_principal' = planificacion_principal + m
    /\ corto' = corto
    /\ Uno(desalojando') = Uno(desalojando) - b
    /\ NOcupadas(libres') >= NOcupadas(libres) - e

LEMMA CuentaJusta ==
    ASSUME NEW n \in Nat, NEW o \in Nat, NEW d \in Nat, NEW t \in Nat,
           NEW pp \in Nat, NEW k \in Nat, NEW m \in Nat, NEW e \in Nat,
           NEW b \in Nat, NEW n2 \in Nat, NEW o2 \in Nat,
           n + d <= pp + t + o, n2 <= n + k, o2 >= o - e, k + e <= m + b
    PROVE  n2 + (d - b) <= pp + m + t + o2
OBVIOUS

\* It signals no less than it must.
LEMMA DespiertoCuenta ==
    ASSUME Inv, AvisosListos,
           NEW k \in Nat, NEW m \in Nat, NEW e \in Nat, NEW b \in Nat,
           Cuenta(k, m, e, b), k + e <= m + b
    PROVE  AvisosListos'
<1> DEFINE n == NListos(queue_ready)
           o == NOcupadas(libres)
           d == Uno(desalojando)
           s == Uno(corto \in {"cpu_libre", "planificar"})
           t == Uno(corto # "principal")
<1>1. /\ proceso_ready \in Nat /\ planificacion_principal \in Nat
      /\ n \in Nat /\ o \in Nat /\ d \in Nat /\ s \in Nat /\ t \in Nat
  BY TiposDeCuentas DEF Uno
<1>2. n <= proceso_ready + s /\ n + d <= planificacion_principal + t + o
  BY DEF AvisosListos
<1>3. s' = s /\ t' = t
  BY DEF Uno, Cuenta
<1>4. /\ n' \in Nat /\ n' <= n + k /\ o' \in Nat /\ o' >= o - e
      /\ d' = d - b /\ proceso_ready' = proceso_ready + k
      /\ planificacion_principal' = planificacion_principal + m
  BY DEF Uno, Cuenta
<1> HIDE DEF n, o, d, s, t
<1>5. n' <= proceso_ready' + s'
  BY <1>1, <1>2, <1>3, <1>4
<1>6. PICK n2 \in Nat, o2 \in Nat : n2 = n' /\ o2 = o'
  BY <1>4
<1>7. n2 + (d - b) <= planificacion_principal + m + t + o2
  BY <1>1, <1>2, <1>4, <1>6, CuentaJusta
<1>8. n' + d' <= planificacion_principal' + t' + o'
  BY <1>3, <1>4, <1>6, <1>7
<1> QED
  BY <1>5, <1>8 DEF AvisosListos, n, o, d, s, t

LEMMA DespiertoAReady ==
    ASSUME Inv, AvisosListos, NEW p \in Pid, AgregarAReady(p, libres),
           NEW m \in Nat \ {0},
           planificacion_principal' = planificacion_principal + m,
           UNCHANGED <<libres, hilos>>
    PROVE  AvisosListos'
<1>1. /\ queue_ready' = [queue_ready EXCEPT ![p] = @ + 1]
      /\ proceso_ready' = proceso_ready + 1
      /\ corto' = corto /\ desalojando' = desalojando /\ libres' = libres
  BY DEF AgregarAReady, hilos
<1>2. /\ NListos(queue_ready') \in Nat
      /\ NListos(queue_ready') <= NListos(queue_ready) + 1
  BY <1>1, TiposDeCuentas, CuantosListos
<1>3. /\ NOcupadas(libres') \in Nat
      /\ NOcupadas(libres') >= NOcupadas(libres) - 0
  BY <1>1, TiposDeCuentas
<1>4. Uno(desalojando') = Uno(desalojando) - 0
  BY <1>1, UnoEsUno
<1>5. Cuenta(1, m, 0, 0)
  BY <1>1, <1>2, <1>3, <1>4 DEF Cuenta
<1>6. 1 + 0 <= m + 0
  OBVIOUS
<1> QED
  BY <1>5, <1>6, DespiertoCuenta

LEMMA DespiertoReady ==
    ASSUME Inv, AvisosListos, Admitir \/ \E p \in Pid : FinalizacionIo(p)
    PROVE  AvisosListos'
<1>1. CASE Admitir
  <2>1. TipoNucleo /\ Nuevos(queue_new, estado)
    BY TiposPorPartes DEF Inv
  <2>2. queue_new # <<>>
    BY <1>1 DEF Admitir
  <2>3. Head(queue_new) \in Pid
    BY <2>1, <2>2, NuevosSale DEF TipoNucleo
  <2>4. PICK p \in Pid : p = Head(queue_new)
    BY <2>3
  <2>5. /\ AgregarAReady(p, libres)
        /\ planificacion_principal' = planificacion_principal + 1
        /\ UNCHANGED <<libres, hilos>>
    BY <1>1, <2>4 DEF Admitir
  <2> QED
    BY <2>5, DespiertoAReady
<1>2. CASE \E p \in Pid : FinalizacionIo(p)
  <2>1. PICK p \in Pid : FinalizacionIo(p)
    BY <1>2
  <2>2. /\ AgregarAReady(p, libres)
        /\ planificacion_principal' = planificacion_principal + 2
        /\ UNCHANGED <<libres, hilos>>
    BY <2>1 DEF FinalizacionIo
  <2> QED
    BY <2>2, DespiertoAReady
<1> QED
  BY <1>1, <1>2

\* Whoever frees a CPU signals.
LEMMA DespiertoSale ==
    ASSUME Inv, AvisosListos, NEW c \in Cpu, NEW p \in Pid,
           \/ Finalizado(c, p) \/ CausaIo(c, p)
           \/ \E exito \in BOOLEAN : MemoryDump(c, p, exito)
    PROVE  AvisosListos'
<1>1. PICK i \in Syscalls : Atiende(c, p, i)
  <2>1. {"EXIT", "IO", "DUMP_MEMORY"} \subseteq Syscalls
    BY DEF Syscalls
  <2> QED
    BY <2>1 DEF Finalizado, CausaIo, MemoryDump
<1>2. SacarProcesoEjecucion(p)
  BY DEF Finalizado, CausaIo, MemoryDump
<1>3. Corre(c, p)
  BY <1>1, Atendido
<1>4. CpusQueLibera(p) = {c} \/ CpusQueLibera(p) = {}
  BY <1>2, <1>3, UnidadSacada
<1>5. libres' = libres \cup {c} \/ libres' = libres
  BY <1>2, <1>4 DEF SacarProcesoEjecucion
<1>6. /\ NOcupadas(libres') \in Nat
      /\ NOcupadas(libres') >= NOcupadas(libres) - 1
  BY <1>5, TiposDeCuentas, CuantasOcupadas
<1>7. corto' = corto /\ desalojando' = desalojando
  BY DEF Finalizado, CausaIo, MemoryDump, hilos
<1>8. Uno(desalojando') = Uno(desalojando) - 0
  BY <1>7, UnoEsUno
<1>9. CASE /\ planificacion_principal' = planificacion_principal + 1
           /\ UNCHANGED <<queue_ready, proceso_ready>>
  <2>1. /\ NListos(queue_ready') \in Nat
        /\ NListos(queue_ready') <= NListos(queue_ready) + 0
        /\ proceso_ready' = proceso_ready + 0
    BY <1>9, TiposDeCuentas
  <2>2. Cuenta(0, 1, 1, 0)
    BY <1>6, <1>7, <1>8, <1>9, <2>1 DEF Cuenta
  <2> QED
    BY <2>2, DespiertoCuenta
<1>10. CASE /\ planificacion_principal' = planificacion_principal + 2
            /\ queue_ready' = [queue_ready EXCEPT ![p] = @ + 1]
            /\ proceso_ready' = proceso_ready + 1
  <2>1. /\ NListos(queue_ready') \in Nat
        /\ NListos(queue_ready') <= NListos(queue_ready) + 1
    BY <1>10, TiposDeCuentas, CuantosListos
  <2>2. Cuenta(1, 2, 1, 0)
    BY <1>6, <1>7, <1>8, <1>10, <2>1 DEF Cuenta
  <2> QED
    BY <2>2, DespiertoCuenta
<1> QED
  BY <1>9, <1>10 DEF Finalizado, CausaIo, MemoryDump, AgregarAReady, colas

\* The process that leaves for another takes the place it had in the queue.
LEMMA DespiertoInterrupcion ==
    ASSUME Inv, AvisosListos, NEW c \in Cpu, Interrupcion(c)
    PROVE  AvisosListos'
<1>1. /\ desalojando' = FALSE
      /\ UNCHANGED <<libres, planificacion_principal, corto>>
      /\ UnidadesEn(c, "AEJECUTAR") # {}
  BY DEF Interrupcion
<1>2. desalojando
  <2>1. PICK j \in DOMAIN unidades : unidades[j].modo = "AEJECUTAR"
    BY <1>1 DEF UnidadesEn
  <2>2. unidades[j] \in Us
    BY IndicesDeUnidades
  <2>3. UnDesalojo(Us, desalojando)
    BY DEF Inv, Reparto
  <2> QED
    BY <2>1, <2>2, <2>3 DEF UnDesalojo
<1>3. Uno(desalojando') = Uno(desalojando) - 1
  <2>1. Uno(desalojando) = 1
    BY <1>2, UnoEsUno
  <2>2. Uno(desalojando') = 0
    BY <1>1 DEF Uno
  <2> QED
    BY <2>1, <2>2
<1>4. /\ NOcupadas(libres') \in Nat
      /\ NOcupadas(libres') >= NOcupadas(libres) - 0
      /\ planificacion_principal' = planificacion_principal + 0
  BY <1>1, TiposDeCuentas
<1>5. CASE UNCHANGED <<queue_ready, proceso_ready>>
  <2>1. /\ NListos(queue_ready') \in Nat
        /\ NListos(queue_ready') <= NListos(queue_ready) + 0
        /\ proceso_ready' = proceso_ready + 0
    BY <1>5, TiposDeCuentas
  <2>2. Cuenta(0, 0, 0, 1)
    BY <1>1, <1>3, <1>4, <2>1 DEF Cuenta
  <2> QED
    BY <2>2, DespiertoCuenta
<1>6. CASE ~UNCHANGED <<queue_ready, proceso_ready>>
  <2>1. /\ UnidadesEn(c, "INTERRUMPIDO") # {}
        /\ AgregarAReady(
              unidades[Max(UnidadesEn(c, "INTERRUMPIDO"))].proceso, libres)
    BY <1>6 DEF Interrupcion
  <2>2. Max(UnidadesEn(c, "INTERRUMPIDO")) \in DOMAIN unidades
    <3>1. TipoNucleo
      BY TiposPorPartes DEF Inv
    <3>2. Max(UnidadesEn(c, "INTERRUMPIDO")) \in UnidadesEn(c, "INTERRUMPIDO")
      BY <2>1, <3>1, UltimaUnidad
    <3> QED
      BY <3>2 DEF UnidadesEn
  <2>3. PICK i \in DOMAIN unidades :
           AgregarAReady(unidades[i].proceso, libres)
    BY <2>1, <2>2
  <2>4. unidades[i].proceso \in Pid
    BY IndicesDeUnidades DEF Unidad
  <2>5. PICK p \in Pid : AgregarAReady(p, libres)
    BY <2>3, <2>4
  <2>6. /\ queue_ready' = [queue_ready EXCEPT ![p] = @ + 1]
        /\ proceso_ready' = proceso_ready + 1
    BY <2>5 DEF AgregarAReady
  <2>7. /\ NListos(queue_ready') \in Nat
        /\ NListos(queue_ready') <= NListos(queue_ready) + 1
    BY <2>6, TiposDeCuentas, CuantosListos
  <2>8. Cuenta(1, 0, 0, 1)
    BY <1>1, <1>3, <1>4, <2>6, <2>7 DEF Cuenta
  <2> QED
    BY <2>8, DespiertoCuenta
<1> QED
  BY <1>5, <1>6

LEMMA DespiertoInit == Init => AvisosListos
<1> SUFFICES ASSUME Init PROVE AvisosListos
  OBVIOUS
<1>1. Inv
  BY InvInit
<1>2. queue_ready \in [Pid -> Nat] /\ \A p \in Pid : queue_ready[p] = 0
  BY <1>1, TiposDeCuentas DEF Init
<1>3. NListos(queue_ready) = 0
  BY <1>2, CuantosListos
<1>4. /\ proceso_ready = 0 /\ planificacion_principal = 0
      /\ Uno(desalojando) = 0 /\ corto = "principal"
  BY DEF Init, Uno
<1>5. NOcupadas(libres) \in Nat
  BY <1>1, TiposDeCuentas
<1> QED
  BY <1>3, <1>4, <1>5 DEF AvisosListos, Uno

LEMMA DespiertoStep == Inv /\ AvisosListos /\ [Next]_vars => AvisosListos'
<1> SUFFICES ASSUME Inv, AvisosListos, [Next]_vars PROVE AvisosListos'
  OBVIOUS
<1>1. CASE Planificador
  BY <1>1, DespiertoEspera, DespiertoPlanificar DEF Planificador
<1>2. CASE ComprobarDesalojo
  BY <1>2, DespiertoDesalojar
<1>3. CASE Admitir \/ \E p \in Pid : FinalizacionIo(p)
  BY <1>3, DespiertoReady
<1>4. ASSUME NEW c \in Cpu, Interrupcion(c)
      PROVE  AvisosListos'
  BY <1>4, DespiertoInterrupcion
<1>5. ASSUME NEW c \in Cpu, NEW p \in Pid,
             \/ Finalizado(c, p) \/ CausaIo(c, p)
             \/ \E exito \in BOOLEAN : MemoryDump(c, p, exito)
      PROVE  AvisosListos'
  BY <1>5, DespiertoSale
<1>6. ASSUME UNCHANGED <<queue_ready, libres, proceso_ready, corto,
                         desalojando, planificacion_principal>>
      PROVE  AvisosListos'
  BY <1>6, CuentasQuietas
<1>7. CASE EsperarCheckDesalojo
  BY <1>6, <1>7 DEF EsperarCheckDesalojo, colas
<1>8. ASSUME NEW c \in Cpu, NEW p \in Pid, InitProc(c, p)
      PROVE  AvisosListos'
  BY <1>6, <1>8 DEF InitProc, semaforos, hilos
<1>9. ASSUME NEW c \in Cpu, UNCHANGED kernelVars
      PROVE  AvisosListos'
  BY <1>6, <1>9 DEF kernelVars, colas, semaforos, hilos
<1>10. ASSUME NEW c \in Cpu,
              \/ RecibirDispatch(c) \/ LlegaInterrupcion(c) \/ MainCpu(c)
              \/ Ejecutar(c)
       PROVE  AvisosListos'
  <2>1. UNCHANGED kernelVars
    BY <1>10 DEF RecibirDispatch, LlegaInterrupcion, MainCpu, Ejecutar,
       Reiniciar, RecibirContexto, RecibirRespuesta, ControlarInterrupcion,
       RecibirRespuestaInterrupcion, EjecutarComun, EjecutarSyscall
  <2> QED
    BY <1>9, <2>1
<1>11. CASE UNCHANGED vars
  BY <1>6, <1>11 DEF vars, kernelVars, colas, semaforos, hilos
<1> QED
  BY <1>1, <1>2, <1>3, <1>4, <1>5, <1>7, <1>8, <1>10, <1>11
     DEF Next, Desalojador, Handler

\* No signal is missing: the planner never sleeps over a ready process while
\* every CPU is free, whatever calls and preemptions cross.
THEOREM PlanificadorSiempreDespierto == Spec => []PlanificadorDespierto
<1>1. Init => InvDespierto
  BY InvInit, DespiertoInit DEF InvDespierto
<1>2. InvDespierto /\ [Next]_vars => InvDespierto'
  BY InvStep, DespiertoStep DEF InvDespierto
<1>3. ASSUME InvDespierto PROVE PlanificadorDespierto
  <2> DEFINE n == NListos(queue_ready)
  <2>1. Inv /\ AvisosListos
    BY <1>3 DEF InvDespierto
  <2>2. /\ proceso_ready \in Nat /\ planificacion_principal \in Nat
        /\ queue_ready \in [Pid -> Nat] /\ n \in Nat
        /\ libres \in SUBSET Cpu /\ Uno(desalojando) \in {0, 1}
    BY <2>1, TiposDeCuentas, UnoEsUno
  <2>3. Listos # {} => n >= 1
    <3>1. Listos # {} => n # 0
      BY <2>2, CuantosListos DEF Listos
    <3> QED
      BY <2>2, <3>1
  <2> HIDE DEF n
  <2>4. ASSUME corto = "principal", Listos # {}, libres = Cpu
        PROVE  planificacion_principal > 0
    <3>1. NOcupadas(libres) = 0
      BY <2>2, <2>4, CuantasOcupadas
    <3>2. Uno(corto # "principal") = 0
      BY <2>4 DEF Uno
    <3>3. n + Uno(desalojando) <= planificacion_principal
      BY <2>1, <2>2, <3>1, <3>2 DEF AvisosListos, n
    <3> QED
      BY <2>2, <2>3, <2>4, <3>3
  <2>5. ASSUME corto = "proceso_ready", Listos # {}
        PROVE  proceso_ready > 0
    <3>1. n <= proceso_ready
      BY <2>1, <2>2, <2>5 DEF AvisosListos, Uno, n
    <3> QED
      BY <2>2, <2>3, <2>5, <3>1
  <2>6. ASSUME corto = "cpu_libre", libres # {}
        PROVE  cpu_libre > 0
    <3>1. cpu_libre = Cardinality(libres) /\ cpu_libre \in Nat
      BY <2>1, <2>6, TiposPorPartes DEF Inv, FichasCpu, TipoNucleo
    <3>2. Cardinality(libres) # 0
      <4>1. IsFiniteSet(libres)
        BY <2>2, SrtAssumption, FS_Subset
      <4> QED
        BY <2>6, <4>1, FS_EmptySet
    <3> QED
      BY <3>1, <3>2
  <2>7. corto = "planificar" => libres # {}
    BY <2>1, HayCpuAlPlanificar
  <2> QED
    BY <2>4, <2>5, <2>6, <2>7 DEF PlanificadorDespierto
<1> QED
  BY <1>1, <1>2, <1>3, PTL DEF Spec

-----------------------------------------------------------------------------
(***************************************************************************)
(* The second part: Puntual.  An interrupt finds its process executing, so *)
(* while another waits for the CPU the invariant knows where the CPU is    *)
(* (Relevando), and every process that is EJECUTANDO is known to its CPU   *)
(* or will be (Activo).                                                    *)
(***************************************************************************)

\* The units of CPU c, and those of them that are to leave it.
DeCpu(us, c) == {u \in us : u.cpu = c}
Interrumpidas(us, c) == {u \in us : u.cpu = c /\ u.modo = "INTERRUMPIDO"}
Interrumpida(us, c, p) == \E u \in Interrumpidas(us, c) : u.proceso = p

\* One process at most is INTERRUMPIDO, and another waits for its CPU.
UnRelevo(us) ==
    \A u, v \in us :
       u.modo = "INTERRUMPIDO" =>
          Espera(us, u.cpu) /\ (v.modo = "INTERRUMPIDO" => u = v)

\* The process that CPU c ran has ended.
Termino(us, e, c, p) == Interrumpidas(us, c) = {} /\ e[p] = "LIBERADO"

\* Between the interrupt and the answer of the kernel CPU c is about to finish
\* an instruction, has ended its process, or has sent INTERRUPCION.
PideSalir(c) ==
    \/ /\ a_kernel[c] # Nada /\ a_kernel[c].motivo = "INTERRUPCION"
       /\ \/ a_kernel[c].pc = 0 /\ Interrumpida(Us, c, a_kernel[c].pid)
          \/ Termino(Us, estado, c, a_kernel[c].pid)
    \/ /\ despacho[c] # Nada /\ despacho[c].motivo = "INTERRUPCION"
       /\ despacho[c].hallado \/ Interrumpidas(Us, c) = {}

Relevando(c) ==
    \/ fase[c] = "ejecutando" /\ (interrupciones[c] > 0 \/ flag_interrupcion[c])
    \/ fase[c] = "control" /\ flag_interrupcion[c] /\ contexto[c].pc = 0
    \/ /\ fase[c] = "respuesta" /\ flag_interrupcion[c]
       /\ \/ a_kernel[c] # Nada /\ a_kernel[c].motivo = "EXIT"
          \/ despacho[c] # Nada /\ despacho[c].motivo = "EXIT"
          \/ /\ a_cpu[c] = <<OK>> /\ ~EnVuelo(c)
             /\ Termino(Us, estado, c, contexto[c].pid)
    \/ /\ fase[c] = "control" /\ flag_interrupcion[c] /\ Vacio(a_cpu[c])
       /\ Termino(Us, estado, c, contexto[c].pid)
    \/ fase[c] = "respuesta_int" /\ Vacio(a_cpu[c]) /\ PideSalir(c)

\* CPU c runs p, has asked for it a system call, or has its context coming.
Activo(c, p) ==
    \/ fase[c] = "ejecutando" /\ contexto[c].pid = p
    \/ fase[c] = "control" /\ contexto[c].pc = 0 /\ contexto[c].pid = p
    \/ a_kernel[c] # Nada /\ a_kernel[c].pid = p
    \/ despacho[c] # Nada /\ despacho[c].pid = p
    \/ \E x \in Contexto : x.pid = p /\ a_cpu[c] \in {<<x>>, <<OK, x>>}

\* A system call is of the process whose context the CPU has, and neither it
\* nor a context on its way has the counter -1.
Contadores(c) ==
    /\ fase[c] # "colgada" /\ (fase[c] = "ejecutando" => contexto[c].pc = 0)
    /\ \A x \in Contexto : a_cpu[c] \in {<<x>>, <<OK, x>>} => x.pc = 0
    /\ a_kernel[c] # Nada /\ a_kernel[c].motivo # "INTERRUPCION" =>
          a_kernel[c].pid = contexto[c].pid /\ a_kernel[c].pc = 0
    /\ despacho[c] # Nada /\ despacho[c].motivo # "INTERRUPCION" =>
          despacho[c].pid = contexto[c].pid

SinResto(s) == \A x, y \in Contexto : s # <<y, OK, x>>

Puntualidad(c) ==
    /\ Contadores(c) /\ SinResto(a_cpu[c])
    /\ HayEspera(c) => Relevando(c)
    /\ \A u \in DeCpu(Us, c) : u.modo = "EJECUTANDO" => Activo(c, u.proceso)

InvPuntual ==
    /\ Inv /\ UnRelevo(Us)
    /\ \A p \in Pid : program_counter[p] = 0
    /\ \A c \in Cpu : Puntualidad(c)

LEMMA PorCpu ==
    ASSUME NEW us, NEW vs, NEW c, DeCpu(us, c) = DeCpu(vs, c)
    PROVE  /\ Espera(us, c) <=> Espera(vs, c)
           /\ Interrumpidas(us, c) = Interrumpidas(vs, c)
           /\ \A p : Interrumpida(us, c, p) <=> Interrumpida(vs, c, p)
<1>1. \A u : u \in us /\ u.cpu = c <=> u \in vs /\ u.cpu = c
  BY DEF DeCpu
<1>2. Espera(us, c) <=> Espera(vs, c)
  BY <1>1 DEF Espera
<1>3. Interrumpidas(us, c) = Interrumpidas(vs, c)
  BY <1>1 DEF Interrumpidas
<1> QED
  BY <1>2, <1>3 DEF Interrumpida

\* A process that has ended is never anything else.
TerminadosSiguen ==
    \A p \in Pid : estado[p] = "LIBERADO" => estado'[p] = "LIBERADO"

\* A CPU that finishes a call, or whose instruction is over, has a context.
LEMMA ConContexto ==
    ASSUME NEW c \in Cpu, Inv,
           fase[c] \in {"ejecutando", "control", "respuesta"}
    PROVE  contexto[c] \in Contexto /\ contexto[c].pid \in Pid
<1>1. Canal(c)
  BY DEF Inv
<1>2. contexto[c] \in Contexto
  BY <1>1 DEF Canal, CanalLibre, EnVuelo, CanalDesalojo, CanalSyscall
<1> QED
  BY <1>2 DEF Contexto

LEMMA PuntualidadQuieta ==
    ASSUME NEW c \in Cpu, Inv, Puntualidad(c), Quieta(c), TerminadosSiguen,
           DeCpu(Us', c) = DeCpu(Us, c)
    PROVE  Puntualidad(c)'
<1>1. TipoCanales
  BY TiposPorPartes DEF Inv
<1>2. /\ a_kernel'[c] = a_kernel[c] /\ despacho'[c] = despacho[c]
      /\ a_cpu'[c] = a_cpu[c] /\ fase'[c] = fase[c]
      /\ contexto'[c] = contexto[c]
      /\ interrupciones'[c] = interrupciones[c]
      /\ flag_interrupcion'[c] = flag_interrupcion[c]
  BY DEF Quieta, MismoCanal
<1>3. /\ HayEspera(c)' <=> HayEspera(c)
      /\ Interrumpidas(Us', c) = Interrumpidas(Us, c)
      /\ \A p : Interrumpida(Us', c, p) <=> Interrumpida(Us, c, p)
  BY PorCpu DEF HayEspera
<1>4. \A p \in Pid :
         Termino(Us, estado, c, p) => Termino(Us', estado', c, p)
  BY <1>3 DEF Termino, TerminadosSiguen
<1>5. Contadores(c)' /\ SinResto(a_cpu[c])'
  BY <1>2 DEF Puntualidad, Contadores, SinResto
<1>6. \A u \in DeCpu(Us', c) :
         u.modo = "EJECUTANDO" => Activo(c, u.proceso)'
  <2>1. \A p : Activo(c, p)' <=> Activo(c, p)
    BY <1>2 DEF Activo
  <2> QED
    BY <2>1 DEF Puntualidad
<1>7. PideSalir(c) => PideSalir(c)'
  <2>1. a_kernel[c] # Nada => a_kernel[c].pid \in Pid
    BY <1>1 DEF TipoCanales, Mensaje
  <2> QED
    BY <1>2, <1>3, <1>4, <2>1 DEF PideSalir
<1>8. Relevando(c) => Relevando(c)'
  <2>1. fase[c] \in {"control", "respuesta"} => contexto[c].pid \in Pid
    BY ConContexto
  <2>2. EnVuelo(c)' <=> EnVuelo(c)
    BY <1>2 DEF EnVuelo
  <2> QED
    BY <1>2, <1>4, <1>7, <2>1, <2>2 DEF Relevando, Vacio
<1> QED
  BY <1>3, <1>5, <1>6, <1>8 DEF Puntualidad

\* Of a step that only CPU c, or nobody, notices.
LEMMA PasoPuntual ==
    ASSUME InvPuntual, Inv', UnRelevo(Us'), TerminadosSiguen,
           \A p \in Pid : program_counter'[p] = 0, NEW c \in Cpu,
           \A d \in Cpu \ {c} : Quieta(d) /\ DeCpu(Us', d) = DeCpu(Us, d),
           Puntualidad(c)'
    PROVE  InvPuntual'
<1>1. \A d \in Cpu \ {c} : Puntualidad(d)'
  BY PuntualidadQuieta DEF InvPuntual
<1>2. \A d \in Cpu : Puntualidad(d)'
  BY <1>1
<1>3. UnRelevo(Us)'
  BY DEF UnRelevo, Espera
<1> QED
  BY <1>2, <1>3 DEF InvPuntual

LEMMA PasoPuntualQuieto ==
    ASSUME InvPuntual, Inv', UNCHANGED <<unidades, program_counter>>,
           TerminadosSiguen, \A d \in Cpu : Quieta(d)
    PROVE  InvPuntual'
<1>1. Us' = Us
  BY DEF Us
<1>2. \A d \in Cpu : Puntualidad(d)'
  BY <1>1, PuntualidadQuieta DEF InvPuntual
<1>3. UnRelevo(Us)'
  BY <1>1 DEF UnRelevo, Espera, InvPuntual
<1> QED
  BY <1>2, <1>3 DEF InvPuntual

\* Of a step of CPU c.
LEMMA PasoPuntualDeCpu ==
    ASSUME InvPuntual, Inv', NEW c \in Cpu,
           UNCHANGED <<kernelVars, program_counter>>,
           \A d \in Cpu \ {c} : Quieta(d), Puntualidad(c)'
    PROVE  InvPuntual'
<1>1. Us' = Us /\ estado' = estado
  BY DEF Us, kernelVars
<1>2. UnRelevo(Us') /\ TerminadosSiguen
  BY <1>1 DEF InvPuntual, TerminadosSiguen
<1>3. \A p \in Pid : program_counter'[p] = 0
  BY DEF InvPuntual
<1>4. \A d \in Cpu \ {c} : Quieta(d) /\ DeCpu(Us', d) = DeCpu(Us, d)
  BY <1>1
<1> QED
  BY <1>2, <1>3, <1>4, PasoPuntual

\* Two contexts that make the same message are one.
LEMMA UnSoloContexto ==
    ASSUME NEW x \in Contexto, NEW y \in Contexto
    PROVE  /\ <<x>> = <<y>> => x = y
           /\ <<OK, x>> = <<OK, y>> => x = y
           /\ <<x>> # <<OK, y>> /\ <<y>> # <<OK, x>> /\ <<x>> # <<OK>>
           /\ <<OK>> # <<OK, x>> /\ <<OK, x>> # <<x>>
           /\ <<x>> # <<>> /\ <<OK, x>> # <<>>
<1>1. Head(<<x>>) = x /\ Head(<<y>>) = y /\ Head(<<OK, x>>) = OK
  BY Palabras
<1>2. Head(<<OK>>) = OK /\ Head(<<OK, y>>) = OK
  BY Palabras
<1>3. Tail(<<OK, x>>) = <<x>> /\ Tail(<<OK, y>>) = <<y>> /\ Tail(<<OK>>) = <<>>
  BY Palabras
<1>4. <<x>> # <<>> /\ <<OK, x>> # <<>>
  BY Palabras
<1>5. x # OK /\ y # OK
  BY MensajesAssumption
<1>6. /\ <<x>> = <<y>> => x = y
      /\ <<x>> # <<OK, y>> /\ <<y>> # <<OK, x>> /\ <<x>> # <<OK>>
      /\ <<OK, x>> # <<x>>
  BY <1>1, <1>2, <1>5, Zenon
<1>7. <<OK, x>> = <<OK, y>> => x = y
  BY <1>3, <1>6, Zenon
<1>8. <<OK>> # <<OK, x>>
  BY <1>3, <1>4, Zenon
<1> QED
  BY <1>4, <1>6, <1>7, <1>8

\* A short message has nothing behind it.
LEMMA MensajesCortos ==
    ASSUME NEW x
    PROVE  /\ SinResto(<<>>) /\ SinResto(<<OK>>)
           /\ SinResto(<<x>>) /\ SinResto(<<OK, x>>)
<1> SUFFICES ASSUME NEW y \in Contexto, NEW z \in Contexto
             PROVE  /\ <<>> # <<y, OK, z>> /\ <<OK>> # <<y, OK, z>>
                    /\ <<x>> # <<y, OK, z>> /\ <<OK, x>> # <<y, OK, z>>
  BY DEF SinResto
<1>1. /\ Len(<<>>) = 0 /\ Len(<<OK>>) = 1 /\ Len(<<x>>) = 1
      /\ Len(<<OK, x>>) = 2 /\ Len(<<y, OK, z>>) = 3
  OBVIOUS
<1> QED
  BY <1>1

\* A process that waits for a CPU is the only one that is not to leave it.
LEMMA SoloEspera ==
    ASSUME Inv, NEW c \in Cpu, HayEspera(c)
    PROVE  /\ \A u \in DeCpu(Us, c) : u.modo # "EJECUTANDO"
           /\ \A p : Corre(c, p) => Interrumpida(Us, c, p)
<1>1. ConSuCpu(Us, libres)
  BY DEF Inv, Reparto
<1>2. \A u \in DeCpu(Us, c) : u.modo # "EJECUTANDO"
  BY <1>1 DEF HayEspera, Espera, DeCpu, ConSuCpu
<1> QED
  BY <1>2 DEF Corre, CorreEn, Interrumpida, Interrumpidas, DeCpu

\* A process that has ended has no unit.
LEMMA SinUnidad ==
    ASSUME Inv, NEW p, estado[p] = "LIBERADO"
    PROVE  UnidadesDe(p) = {}
<1>1. EnSuLugar(Us, estado, queue_ready)
  BY DEF Inv, Reparto
<1> QED
  BY <1>1 DEF EnSuLugar, UnidadesDe, Us

LEMMA PuntualLlegaInterrupcion ==
    ASSUME InvPuntual, NEW c \in Cpu, LlegaInterrupcion(c)
    PROVE  InvPuntual'
<1>1. /\ Inv /\ TipoCanales /\ Aviso(c) /\ Puntualidad(c)
      /\ Inv' /\ TipoCanales'
  BY TiposPorPartes, PasoLlegaInterrupcion DEF InvPuntual, Inv
<1>2. /\ interrupciones[c] > 0 /\ fase[c] # "respuesta_int"
      /\ interrupciones' = [interrupciones EXCEPT ![c] = @ - 1]
      /\ flag_interrupcion' = [flag_interrupcion EXCEPT ![c] = TRUE]
      /\ UNCHANGED <<kernelVars, program_counter, syscalls, despacho,
                     a_kernel, a_cpu, fase, contexto>>
  BY DEF LlegaInterrupcion
<1>3. fase[c] = "ejecutando"
  <2>1. HayEspera(c) /\ ~flag_interrupcion[c]
    BY <1>1, <1>2 DEF Aviso
  <2> QED
    BY <1>1, <1>2, <2>1 DEF Puntualidad, Relevando
<1>4. Relevando(c)'
  BY <1>1, <1>2, <1>3 DEF Relevando, TipoCanales
<1>5. Us' = Us
  BY <1>2 DEF Us, kernelVars
<1>6. Puntualidad(c)'
  BY <1>1, <1>2, <1>4, <1>5
     DEF Puntualidad, Contadores, SinResto, Activo
<1>7. \A d \in Cpu \ {c} : Quieta(d)
  BY <1>1, <1>2 DEF Quieta, MismoCanal, TipoCanales
<1> QED
  BY <1>1, <1>2, <1>6, <1>7, PasoPuntualDeCpu

LEMMA PuntualReiniciar ==
    ASSUME InvPuntual, NEW c \in Cpu, Reiniciar(c)
    PROVE  InvPuntual'
<1>1. Inv /\ TipoCanales /\ Puntualidad(c) /\ Inv'
  BY TiposPorPartes, PasoReiniciar DEF InvPuntual, Inv
<1>2. /\ fase[c] = "reset"
      /\ flag_interrupcion' = [flag_interrupcion EXCEPT ![c] = FALSE]
      /\ fase' = [fase EXCEPT ![c] = "esperando"]
      /\ UNCHANGED <<kernelVars, program_counter, syscalls, despacho,
                     a_kernel, a_cpu, interrupciones, contexto>>
  BY DEF Reiniciar, canales
<1>3. ~HayEspera(c)
  BY <1>1, <1>2 DEF Puntualidad, Relevando
<1>4. Us' = Us
  BY <1>2 DEF Us, kernelVars
<1>5. fase'[c] = "esperando"
  BY <1>1, <1>2 DEF TipoCanales
<1>6. Puntualidad(c)'
  <2>1. ~HayEspera(c)'
    BY <1>3, <1>4 DEF HayEspera
  <2>2. \A p : Activo(c, p) => Activo(c, p)'
    BY <1>2 DEF Activo
  <2> QED
    BY <1>1, <1>2, <1>4, <1>5, <2>1, <2>2
       DEF Puntualidad, Contadores, SinResto
<1>7. \A d \in Cpu \ {c} : Quieta(d)
  BY <1>1, <1>2 DEF Quieta, MismoCanal, TipoCanales
<1> QED
  BY <1>1, <1>2, <1>6, <1>7, PasoPuntualDeCpu

LEMMA PuntualEjecutarComun ==
    ASSUME Puntual, InvPuntual, NEW c \in Cpu, EjecutarComun(c)
    PROVE  InvPuntual'
<1>1. Inv /\ TipoCanales /\ Puntualidad(c) /\ Inv'
  BY TiposPorPartes, PasoEjecutarComun DEF InvPuntual, Inv
<1>2. /\ fase[c] = "ejecutando" /\ interrupciones[c] = 0
      /\ fase' = [fase EXCEPT ![c] = "control"]
      /\ UNCHANGED <<kernelVars, program_counter, syscalls, despacho,
                     a_kernel, a_cpu, interrupciones, flag_interrupcion,
                     contexto>>
  BY DEF EjecutarComun, PuedeEjecutar, canales
<1>3. fase'[c] = "control" /\ contexto[c].pc = 0 /\ Us' = Us
  BY <1>1, <1>2 DEF TipoCanales, Puntualidad, Contadores, Us, kernelVars
<1>4. HayEspera(c)' => Relevando(c)'
  BY <1>1, <1>2, <1>3 DEF Puntualidad, Relevando, HayEspera
<1>5. Puntualidad(c)'
  <2>1. \A p : Activo(c, p) => Activo(c, p)'
    BY <1>2, <1>3 DEF Activo
  <2> QED
    BY <1>1, <1>2, <1>3, <1>4, <2>1
       DEF Puntualidad, Contadores, SinResto
<1>6. \A d \in Cpu \ {c} : Quieta(d)
  BY <1>1, <1>2 DEF Quieta, MismoCanal, TipoCanales
<1> QED
  BY <1>1, <1>2, <1>5, <1>6, PasoPuntualDeCpu

LEMMA PuntualEjecutarSyscall ==
    ASSUME Puntual, InvPuntual, NEW c \in Cpu, NEW i \in Syscalls,
           EjecutarSyscall(c, i)
    PROVE  InvPuntual'
<1>1. Inv /\ TipoCanales /\ Canal(c) /\ Puntualidad(c) /\ Inv'
  BY TiposPorPartes, PasoEjecutarSyscall DEF InvPuntual, Inv
<1> DEFINE m == [pid |-> contexto[c].pid, pc |-> 0, motivo |-> i]
<1>2. /\ fase[c] = "ejecutando" /\ interrupciones[c] = 0
      /\ flag_interrupcion[c] => i = "EXIT"
      /\ fase' = [fase EXCEPT ![c] = "respuesta"]
      /\ a_kernel' = [a_kernel EXCEPT ![c] = m]
      /\ UNCHANGED <<kernelVars, program_counter, despacho,
                     a_cpu, interrupciones, flag_interrupcion, contexto>>
  BY DEF EjecutarSyscall, PuedeEjecutar
<1>3. ~EnVuelo(c)
  BY <1>1, <1>2 DEF Canal, EnVuelo, CanalDesalojo, CanalSyscall
<1>4. /\ m # Nada /\ m.pid = contexto[c].pid /\ m.pc = 0 /\ m.motivo = i
      /\ i # "INTERRUPCION"
  <2>1. contexto[c].pid \in Pid
    BY <1>1, <1>2, ConContexto
  <2>2. m \in Mensaje /\ i # "INTERRUPCION"
    BY <2>1 DEF Mensaje, Syscalls
  <2> QED
    BY <2>2, MensajesAssumption
<1> HIDE DEF m
<1>5. fase'[c] = "respuesta" /\ a_kernel'[c] = m /\ Us' = Us
  BY <1>1, <1>2 DEF TipoCanales, Us, kernelVars
<1>6. HayEspera(c)' => Relevando(c)'
  BY <1>1, <1>2, <1>4, <1>5 DEF Puntualidad, Relevando, HayEspera
<1>7. Puntualidad(c)'
  <2>1. \A p : Activo(c, p) => Activo(c, p)'
    BY <1>2, <1>3, <1>4, <1>5 DEF Activo, EnVuelo
  <2>2. Contadores(c)'
    BY <1>1, <1>2, <1>3, <1>4, <1>5 DEF Puntualidad, Contadores, EnVuelo
  <2> QED
    BY <1>1, <1>2, <1>5, <1>6, <2>1, <2>2 DEF Puntualidad, SinResto
<1>8. \A d \in Cpu \ {c} : Quieta(d)
  BY <1>1, <1>2 DEF Quieta, MismoCanal, TipoCanales
<1> QED
  BY <1>1, <1>2, <1>7, <1>8, PasoPuntualDeCpu

LEMMA PuntualRecibirContexto ==
    ASSUME InvPuntual, NEW c \in Cpu, RecibirContexto(c)
    PROVE  InvPuntual'
<1>1. Inv /\ TipoCanales /\ Canal(c) /\ Puntualidad(c) /\ Inv'
  BY TiposPorPartes, PasoRecibirContexto DEF InvPuntual, Inv
<1> DEFINE m == Head(a_cpu[c])
<1>2. /\ fase[c] = "esperando" /\ a_cpu[c] # <<>>
      /\ a_cpu' = [a_cpu EXCEPT ![c] = Tail(@)]
      /\ UNCHANGED <<kernelVars, program_counter, syscalls, despacho,
                     a_kernel, interrupciones, flag_interrupcion>>
      /\ IF m = OK
         THEN fase' = [fase EXCEPT ![c] = "reset"] /\ contexto' = contexto
         ELSE /\ fase' = [fase EXCEPT
                     ![c] = IF m.pc = -1 THEN "colgada" ELSE "ejecutando"]
              /\ contexto' = [contexto EXCEPT ![c] = m]
  BY DEF RecibirContexto
<1>3. ~EnVuelo(c) /\ CanalLibre(c)
  BY <1>1, <1>2 DEF Canal, EnVuelo, CanalDesalojo, CanalSyscall, Vacio
<1>4. PICK x \in Contexto : a_cpu[c] = <<x>> \/ a_cpu[c] = <<OK, x>>
  BY <1>2, <1>3 DEF CanalLibre, Vacio, ParaCorrer, TrasRespuesta
<1>5. x.pc = 0 /\ x # OK
  BY <1>1, <1>4, MensajesAssumption DEF Puntualidad, Contadores
<1>6. ~HayEspera(c)
  BY <1>1, <1>2 DEF Puntualidad, Relevando
<1>7. Us' = Us /\ ~HayEspera(c)'
  BY <1>2, <1>6 DEF Us, kernelVars, HayEspera
<1>8. \A p : Activo(c, p) => p = x.pid
  BY <1>2, <1>3, <1>4, UnSoloContexto DEF Activo, EnVuelo
<1>9. Contadores(c)' /\ SinResto(a_cpu[c])' /\ Activo(c, x.pid)'
  <2>1. CASE a_cpu[c] = <<x>>
    <3>1. m = x /\ a_cpu'[c] = <<>>
      BY <1>1, <1>2, <2>1, Palabras DEF TipoCanales
    <3>2. fase'[c] = "ejecutando" /\ contexto'[c] = x
      BY <1>1, <1>2, <1>5, <3>1 DEF TipoCanales
    <3>3. \A y \in Contexto : a_cpu'[c] \notin {<<y>>, <<OK, y>>}
      BY <3>1, UnSoloContexto
    <3>4. SinResto(a_cpu'[c])
      BY <3>1, MensajesCortos
    <3>5. Contadores(c)'
      BY <1>2, <1>3, <1>5, <3>2, <3>3 DEF Contadores, EnVuelo
    <3> QED
      BY <3>2, <3>4, <3>5 DEF SinResto, Activo
  <2>2. CASE a_cpu[c] = <<OK, x>>
    <3>1. m = OK /\ a_cpu'[c] = <<x>>
      <4>1. Head(<<OK, x>>) = OK /\ Tail(<<OK, x>>) = <<x>>
        BY Palabras
      <4>2. a_cpu'[c] = Tail(a_cpu[c])
        BY <1>1, <1>2 DEF TipoCanales
      <4> QED
        BY <2>2, <4>1, <4>2
    <3>2. fase'[c] = "reset"
      BY <1>1, <1>2, <3>1 DEF TipoCanales
    <3>3. \A y \in Contexto : a_cpu'[c] \in {<<y>>, <<OK, y>>} => y = x
      BY <3>1, UnSoloContexto
    <3>4. SinResto(a_cpu'[c])
      BY <3>1, MensajesCortos
    <3>5. Contadores(c)'
      BY <1>2, <1>3, <1>5, <3>2, <3>3 DEF Contadores, EnVuelo
    <3> QED
      BY <3>1, <3>4, <3>5 DEF SinResto, Activo
  <2> QED
    BY <1>4, <2>1, <2>2
<1>10. Puntualidad(c)'
  BY <1>1, <1>7, <1>8, <1>9 DEF Puntualidad
<1>11. \A d \in Cpu \ {c} : Quieta(d)
  BY <1>1, <1>2 DEF Quieta, MismoCanal, TipoCanales
<1> QED
  BY <1>1, <1>2, <1>10, <1>11, PasoPuntualDeCpu

LEMMA PuntualRecibirRespuesta ==
    ASSUME InvPuntual, NEW c \in Cpu, RecibirRespuesta(c)
    PROVE  InvPuntual'
<1>1. Inv /\ TipoCanales /\ Canal(c) /\ Puntualidad(c) /\ Inv'
  BY TiposPorPartes, PasoRecibirRespuesta DEF InvPuntual, Inv
<1>2. /\ fase[c] = "respuesta" /\ a_cpu[c] # <<>>
      /\ a_cpu' = [a_cpu EXCEPT ![c] = Tail(@)]
      /\ contexto' = [contexto EXCEPT ![c].pc = -1]
      /\ fase' = [fase EXCEPT ![c] = "control"]
      /\ UNCHANGED <<kernelVars, program_counter, syscalls, despacho,
                     a_kernel, interrupciones, flag_interrupcion>>
  BY DEF RecibirRespuesta
<1>3. ~EnVuelo(c) /\ CanalLibre(c) /\ contexto[c] \in Contexto
  BY <1>1, <1>2 DEF Canal, EnVuelo, CanalDesalojo, CanalSyscall, Vacio
<1>4. a_cpu[c] = <<OK>> \/ \E x \in Contexto : a_cpu[c] = <<OK, x>>
  BY <1>2, <1>3 DEF CanalLibre, TrasRespuesta
<1>5. /\ a_cpu'[c] = Tail(a_cpu[c]) /\ fase'[c] = "control"
      /\ contexto'[c].pid = contexto[c].pid
      /\ Us' = Us /\ estado' = estado
  BY <1>1, <1>2, <1>3 DEF TipoCanales, Contexto, Us, kernelVars
<1>6. a_cpu[c] = <<OK>> => a_cpu'[c] = <<>>
  <2>1. Tail(<<OK>>) = <<>>
    BY Palabras
  <2> QED
    BY <1>5, <2>1
<1>7. \A x \in Contexto : a_cpu[c] = <<OK, x>> => a_cpu'[c] = <<x>>
  <2>1. \A x \in Contexto : Tail(<<OK, x>>) = <<x>>
    BY Palabras
  <2> QED
    BY <1>5, <2>1
<1>8. HayEspera(c)' => Relevando(c)'
  <2> SUFFICES ASSUME HayEspera(c) PROVE Relevando(c)'
    BY <1>5 DEF HayEspera
  <2>1. /\ flag_interrupcion[c] /\ a_cpu[c] = <<OK>>
        /\ Termino(Us, estado, c, contexto[c].pid)
    BY <1>1, <1>2, <1>3 DEF Puntualidad, Relevando, EnVuelo
  <2> QED
    BY <1>2, <1>5, <1>6, <2>1 DEF Relevando, Vacio
<1>9. \A p : Activo(c, p) => Activo(c, p)'
  <2> SUFFICES ASSUME NEW p, Activo(c, p) PROVE Activo(c, p)'
    OBVIOUS
  <2>1. PICK x \in Contexto : x.pid = p /\ a_cpu[c] \in {<<x>>, <<OK, x>>}
    BY <1>2, <1>3 DEF Activo, EnVuelo
  <2>2. a_cpu[c] = <<OK, x>>
    BY <1>4, <2>1, UnSoloContexto
  <2> QED
    BY <1>7, <2>1, <2>2 DEF Activo
<1>10. Contadores(c)' /\ SinResto(a_cpu[c])'
  <2>1. CASE a_cpu[c] = <<OK>>
    <3>1. \A y \in Contexto : a_cpu'[c] \notin {<<y>>, <<OK, y>>}
      BY <1>6, <2>1, UnSoloContexto
    <3>2. SinResto(a_cpu'[c])
      BY <1>6, <2>1, MensajesCortos
    <3> QED
      BY <1>2, <1>3, <1>5, <3>1, <3>2 DEF Contadores, EnVuelo, SinResto
  <2>2. ASSUME NEW x \in Contexto, a_cpu[c] = <<OK, x>>
        PROVE  Contadores(c)' /\ SinResto(a_cpu[c])'
    <3>1. x.pc = 0 /\ a_cpu'[c] = <<x>>
      BY <1>1, <1>7, <2>2 DEF Puntualidad, Contadores
    <3>2. \A y \in Contexto : a_cpu'[c] \in {<<y>>, <<OK, y>>} => y = x
      BY <3>1, UnSoloContexto
    <3>3. SinResto(a_cpu'[c])
      BY <3>1, MensajesCortos
    <3> QED
      BY <1>2, <1>3, <1>5, <3>1, <3>2, <3>3 DEF Contadores, EnVuelo, SinResto
  <2> QED
    BY <1>4, <2>1, <2>2
<1>11. Puntualidad(c)'
  BY <1>1, <1>5, <1>8, <1>9, <1>10 DEF Puntualidad
<1>12. \A d \in Cpu \ {c} : Quieta(d)
  BY <1>1, <1>2 DEF Quieta, MismoCanal, TipoCanales
<1> QED
  BY <1>1, <1>2, <1>11, <1>12, PasoPuntualDeCpu

LEMMA PuntualControlarInterrupcion ==
    ASSUME InvPuntual, NEW c \in Cpu, ControlarInterrupcion(c)
    PROVE  InvPuntual'
<1>1. Inv /\ TipoCanales /\ Canal(c) /\ Aviso(c) /\ Puntualidad(c) /\ Inv'
  BY TiposPorPartes, PasoControlarInterrupcion DEF InvPuntual, Inv
<1> DEFINE m == [pid |-> contexto[c].pid, pc |-> contexto[c].pc,
                 motivo |-> "INTERRUPCION"]
<1>2. /\ fase[c] = "control"
      /\ UNCHANGED <<kernelVars, program_counter, syscalls, despacho, a_cpu,
                     interrupciones, flag_interrupcion, contexto>>
      /\ IF flag_interrupcion[c]
         THEN /\ a_kernel' = [a_kernel EXCEPT ![c] = m]
              /\ fase' = [fase EXCEPT ![c] = "respuesta_int"]
         ELSE /\ fase' = [fase EXCEPT
                     ![c] = IF contexto[c].pc = -1 THEN "reset"
                                                   ELSE "ejecutando"]
              /\ a_kernel' = a_kernel
  BY DEF ControlarInterrupcion
<1>3. /\ ~EnVuelo(c) /\ CanalLibre(c)
      /\ Us' = Us /\ estado' = estado
  BY <1>1, <1>2
     DEF Canal, EnVuelo, CanalDesalojo, CanalSyscall, Us, kernelVars
<1>4. contexto[c] \in Contexto /\ contexto[c].pc \in {0, -1}
  BY <1>1, <1>2, ConContexto DEF Contexto
<1>5. \A d \in Cpu \ {c} : Quieta(d)
  BY <1>1, <1>2 DEF Quieta, MismoCanal, TipoCanales
<1>6. ASSUME flag_interrupcion[c] PROVE Puntualidad(c)'
  <2>1. m # Nada /\ m.motivo = "INTERRUPCION"
        /\ m.pid = contexto[c].pid /\ m.pc = contexto[c].pc
    <3>1. m \in Mensaje
      BY <1>4 DEF Mensaje, Contexto
    <3> QED
      BY <3>1, MensajesAssumption
  <2> HIDE DEF m
  <2>2. fase'[c] = "respuesta_int" /\ a_kernel'[c] = m /\ despacho'[c] = Nada
    BY <1>1, <1>2, <1>3, <1>6 DEF TipoCanales, EnVuelo
  <2>3. HayEspera(c)
    BY <1>1, <1>2, <1>6 DEF Aviso
  <2>4. Relevando(c)
    BY <1>1, <2>3 DEF Puntualidad
  <2>5. /\ Vacio(a_cpu[c])
        /\ \/ contexto[c].pc = 0 /\ Interrumpida(Us, c, contexto[c].pid)
           \/ Termino(Us, estado, c, contexto[c].pid)
    <3>1. CASE contexto[c].pc = 0
      <4>1. Vacio(a_cpu[c]) /\ Corre(c, contexto[c].pid)
        BY <1>2, <1>3, <3>1 DEF CanalLibre
      <4> QED
        BY <1>1, <2>3, <3>1, <4>1, SoloEspera
    <3>2. CASE contexto[c].pc # 0
      BY <1>2, <2>4, <3>2 DEF Relevando
    <3> QED
      BY <3>1, <3>2
  <2>6. Relevando(c)'
    BY <1>2, <1>3, <2>1, <2>2, <2>5 DEF Relevando, PideSalir, Vacio
  <2>7. \A u \in DeCpu(Us', c) : u.modo # "EJECUTANDO"
    BY <1>1, <1>3, <2>3, SoloEspera
  <2>8. Contadores(c)' /\ SinResto(a_cpu[c])'
    BY <1>1, <1>2, <2>1, <2>2 DEF Puntualidad, Contadores, SinResto
  <2> QED
    BY <2>6, <2>7, <2>8 DEF Puntualidad
<1>7. ASSUME ~flag_interrupcion[c] PROVE Puntualidad(c)'
  <2>1. /\ fase'[c] = IF contexto[c].pc = -1 THEN "reset" ELSE "ejecutando"
        /\ a_kernel' = a_kernel
    BY <1>1, <1>2, <1>7 DEF TipoCanales
  <2>2. ~HayEspera(c)'
    BY <1>1, <1>2, <1>3, <1>7 DEF Puntualidad, Relevando, HayEspera
  <2>3. \A p : Activo(c, p) => Activo(c, p)'
    BY <1>2, <2>1 DEF Activo
  <2>4. Contadores(c)' /\ SinResto(a_cpu[c])'
    BY <1>1, <1>2, <1>4, <2>1 DEF Puntualidad, Contadores, SinResto
  <2> QED
    BY <1>1, <1>3, <2>2, <2>3, <2>4 DEF Puntualidad
<1> QED
  BY <1>1, <1>2, <1>5, <1>6, <1>7, PasoPuntualDeCpu

LEMMA PuntualRecibirRespuestaInterrupcion ==
    ASSUME InvPuntual, NEW c \in Cpu, RecibirRespuestaInterrupcion(c)
    PROVE  InvPuntual'
<1>1. Inv /\ TipoCanales /\ Canal(c) /\ Aviso(c) /\ Puntualidad(c) /\ Inv'
  BY TiposPorPartes, PasoRecibirRespuestaInterrupcion DEF InvPuntual, Inv
<1>2. /\ fase[c] = "respuesta_int" /\ a_cpu[c] # <<>>
      /\ a_cpu' = [a_cpu EXCEPT ![c] = Tail(@)]
      /\ flag_interrupcion' = [flag_interrupcion EXCEPT ![c] = FALSE]
      /\ fase' = [fase EXCEPT ![c] = "reset"]
      /\ UNCHANGED <<kernelVars, program_counter, syscalls, despacho,
                     a_kernel, interrupciones, contexto>>
  BY DEF RecibirRespuestaInterrupcion
<1>3. Us' = Us /\ fase'[c] = "reset" /\ a_cpu'[c] = Tail(a_cpu[c])
  BY <1>1, <1>2 DEF TipoCanales, Us, kernelVars
<1>4. ~HayEspera(c)
  BY <1>1, <1>2 DEF Puntualidad, Relevando, Vacio
<1>5. ~EnVuelo(c) /\ CanalLibre(c)
  <2>1. ~PideDesalojo(c)
    BY <1>1, <1>4 DEF Aviso
  <2>2. ~EnVuelo(c)
    BY <1>1, <1>2, <2>1 DEF Canal, EnVuelo, PideDesalojo, CanalSyscall
  <2> QED
    BY <1>1, <2>2 DEF Canal
<1>6. PICK x \in Contexto : a_cpu[c] = <<OK, x>>
  BY <1>1, <1>2, <1>5
     DEF CanalLibre, TrasRespuesta, TrasResto, Puntualidad, SinResto
<1>7. x.pc = 0 /\ a_cpu'[c] = <<x>>
  <2>1. Tail(<<OK, x>>) = <<x>>
    BY Palabras
  <2> QED
    BY <1>1, <1>3, <1>6, <2>1 DEF Puntualidad, Contadores
<1>8. \A p : Activo(c, p) => Activo(c, p)'
  <2>1. \A p : Activo(c, p) => p = x.pid
    BY <1>2, <1>5, <1>6, UnSoloContexto DEF Activo, EnVuelo
  <2> QED
    BY <1>7, <2>1 DEF Activo
<1>9. Contadores(c)' /\ SinResto(a_cpu[c])'
  <2>1. \A y \in Contexto : a_cpu'[c] \in {<<y>>, <<OK, y>>} => y = x
    BY <1>7, UnSoloContexto
  <2>2. SinResto(a_cpu'[c])
    BY <1>7, MensajesCortos
  <2> QED
    BY <1>2, <1>3, <1>5, <1>7, <2>1, <2>2 DEF Contadores, EnVuelo, SinResto
<1>10. Puntualidad(c)'
  BY <1>1, <1>3, <1>4, <1>8, <1>9 DEF Puntualidad, HayEspera
<1>11. \A d \in Cpu \ {c} : Quieta(d)
  BY <1>1, <1>2 DEF Quieta, MismoCanal, TipoCanales
<1> QED
  BY <1>1, <1>2, <1>10, <1>11, PasoPuntualDeCpu

\* The message INTERRUPCION of a process that has ended stores no counter.
LEMMA PuntualRecibirDispatch ==
    ASSUME InvPuntual, NEW c \in Cpu, RecibirDispatch(c)
    PROVE  InvPuntual'
<1>1. Inv /\ TipoCanales /\ Canal(c) /\ Aviso(c) /\ Puntualidad(c) /\ Inv'
  BY TiposPorPartes, PasoRecibirDispatch DEF InvPuntual, Inv
<1> DEFINE m == a_kernel[c]
           h == UnidadesDe(m.pid) # {}
           a == [pid |-> m.pid, motivo |-> m.motivo, hallado |-> h]
<1>2. /\ despacho[c] = Nada /\ m # Nada
      /\ despacho' = [despacho EXCEPT ![c] = a]
      /\ program_counter' = IF h THEN [program_counter EXCEPT ![m.pid] = m.pc]
                                 ELSE program_counter
      /\ a_kernel' = [a_kernel EXCEPT ![c] = Nada]
      /\ UNCHANGED <<kernelVars, syscalls, a_cpu, interrupciones,
                     flag_interrupcion, fase, contexto>>
  BY DEF RecibirDispatch, cpuVars
<1>3. m \in Mensaje /\ m.pid \in Pid
  BY <1>1, <1>2 DEF TipoCanales, Mensaje
<1>4. /\ a # Nada /\ a.pid = m.pid /\ a.motivo = m.motivo /\ (a.hallado <=> h)
  <2>1. a \in Atencion
    BY <1>3 DEF Mensaje, Atencion
  <2> QED
    BY <2>1, MensajesAssumption
<1>5. Us' = Us /\ estado' = estado
  BY <1>2 DEF Us, kernelVars
<1>6. /\ Interrumpida(Us, c, m.pid) => h
      /\ Termino(Us, estado, c, m.pid) => ~h
  <2>1. Interrumpida(Us, c, m.pid) => h
    BY DEF Interrumpida, Interrumpidas, UnidadesDe, Us
  <2> QED
    BY <1>1, <2>1, SinUnidad DEF Termino
<1> HIDE DEF a, h
<1>7. despacho'[c] = a /\ a_kernel'[c] = Nada
  BY <1>1, <1>2 DEF TipoCanales
\* What an INTERRUPCION says.
<1>8. m.motivo = "INTERRUPCION" =>
         /\ HayEspera(c) /\ fase[c] = "respuesta_int" /\ Vacio(a_cpu[c])
         /\ \/ m.pc = 0 /\ Interrumpida(Us, c, m.pid)
            \/ Termino(Us, estado, c, m.pid)
  <2> SUFFICES ASSUME m.motivo = "INTERRUPCION"
               PROVE  /\ HayEspera(c) /\ fase[c] = "respuesta_int"
                      /\ Vacio(a_cpu[c])
                      /\ \/ m.pc = 0 /\ Interrumpida(Us, c, m.pid)
                         \/ Termino(Us, estado, c, m.pid)
    OBVIOUS
  <2>1. HayEspera(c) /\ CanalDesalojo(c)
    BY <1>1, <1>2 DEF Canal, Aviso, PideDesalojo
  <2>2. fase[c] = "respuesta_int" /\ Vacio(a_cpu[c]) /\ PideSalir(c)
    BY <1>1, <2>1 DEF Puntualidad, Relevando, CanalDesalojo
  <2> QED
    BY <1>2, <2>1, <2>2 DEF PideSalir
<1>9. m.motivo # "INTERRUPCION" =>
         /\ fase[c] = "respuesta" /\ m.pid = contexto[c].pid /\ m.pc = 0
         /\ HayEspera(c) => flag_interrupcion[c] /\ m.motivo = "EXIT"
  <2> SUFFICES ASSUME m.motivo # "INTERRUPCION"
               PROVE  /\ fase[c] = "respuesta" /\ m.pid = contexto[c].pid
                      /\ m.pc = 0
                      /\ HayEspera(c) =>
                            flag_interrupcion[c] /\ m.motivo = "EXIT"
    OBVIOUS
  <2>1. fase[c] = "respuesta"
    BY <1>1, <1>2 DEF Canal, CanalSyscall
  <2>2. m.pid = contexto[c].pid /\ m.pc = 0
    BY <1>1, <1>2 DEF Puntualidad, Contadores
  <2>3. HayEspera(c) => flag_interrupcion[c] /\ m.motivo = "EXIT"
    BY <1>1, <1>2, <2>1 DEF Puntualidad, Relevando, EnVuelo
  <2> QED
    BY <2>1, <2>2, <2>3
<1>10. \A p \in Pid : program_counter'[p] = 0
  <2>1. h => m.pc = 0
    BY <1>6, <1>8, <1>9
  <2> QED
    BY <1>1, <1>2, <1>3, <2>1 DEF InvPuntual, TipoCanales
<1>11. HayEspera(c)' => Relevando(c)'
  <2> SUFFICES ASSUME HayEspera(c) PROVE Relevando(c)'
    BY <1>5 DEF HayEspera
  <2>1. CASE m.motivo = "INTERRUPCION"
    <3>1. a.hallado \/ Interrumpidas(Us, c) = {}
      BY <1>4, <1>6, <1>8, <2>1 DEF Termino
    <3> QED
      BY <1>2, <1>4, <1>5, <1>7, <1>8, <2>1, <3>1
         DEF Relevando, PideSalir, Vacio
  <2>2. CASE m.motivo # "INTERRUPCION"
    BY <1>2, <1>4, <1>7, <1>9, <2>2 DEF Relevando
  <2> QED
    BY <2>1, <2>2
<1>12. Contadores(c)' /\ SinResto(a_cpu[c])'
  BY <1>1, <1>2, <1>4, <1>7, <1>9 DEF Puntualidad, Contadores, SinResto
<1>13. \A p : Activo(c, p) => Activo(c, p)'
  BY <1>2, <1>4, <1>7 DEF Activo
<1>14. Puntualidad(c)'
  BY <1>1, <1>5, <1>11, <1>12, <1>13 DEF Puntualidad
<1>15. \A d \in Cpu \ {c} : Quieta(d) /\ DeCpu(Us', d) = DeCpu(Us, d)
  BY <1>1, <1>2, <1>5 DEF Quieta, MismoCanal, TipoCanales
<1>16. UnRelevo(Us') /\ TerminadosSiguen
  BY <1>5 DEF InvPuntual, TerminadosSiguen
<1> QED
  BY <1>1, <1>10, <1>14, <1>15, <1>16, PasoPuntual

\* A context that is the only thing on its way to CPU c is of the process that
\* is EJECUTANDO there.
LEMMA ContextoEnCamino ==
    ASSUME NEW c \in Cpu, NEW x \in Contexto, x.pc = 0,
           a_cpu'[c] = <<x>> \/ a_cpu'[c] = <<OK, x>>,
           fase'[c] \notin {"ejecutando", "colgada"},
           a_kernel'[c] = Nada, despacho'[c] = Nada, ~HayEspera(c)',
           \A u \in DeCpu(Us', c) : u.modo = "EJECUTANDO" => u.proceso = x.pid
    PROVE  Puntualidad(c)'
<1>1. \A y \in Contexto : a_cpu'[c] \in {<<y>>, <<OK, y>>} => y = x
  BY UnSoloContexto
<1>2. SinResto(a_cpu'[c])
  BY MensajesCortos
<1>3. Contadores(c)'
  BY <1>1 DEF Contadores
<1>4. Activo(c, x.pid)'
  BY DEF Activo
<1>5. SinResto(a_cpu[c])'
  BY <1>2 DEF SinResto
<1> QED
  BY <1>3, <1>4, <1>5 DEF Puntualidad

\* A free CPU is sent the process it is to run.
LEMMA PuntualPonerEnEjecucion ==
    ASSUME InvPuntual, Inv', NEW p \in Listos, NEW c \in libres,
           PonerEnEjecucion(p, c),
           UNCHANGED <<program_counter, despacho, a_kernel, interrupciones,
                       cpuVars>>
    PROVE  InvPuntual'
<1> DEFINE u == Unidad0(p, c, "EJECUTANDO")
<1>1. Inv /\ TipoNucleo /\ TipoCanales /\ UnRelevo(Us)
  BY TiposPorPartes DEF InvPuntual, Inv
<1>2. /\ p \in Pid /\ c \in Cpu /\ estado[p] = "READY"
      /\ Enviar(c, <<ContextoDe(p)>>)
      /\ estado' = [estado EXCEPT ![p] = "EXEC"]
      /\ Us' = Us \cup {u}
  BY <1>1, UnidadNueva
<1>3. u.proceso = p /\ u.cpu = c /\ u.modo = "EJECUTANDO"
  BY DEF Unidad0
<1> HIDE DEF u
<1>4. ContextoDe(p) \in Contexto /\ ContextoDe(p).pid = p
       /\ ContextoDe(p).pc = 0
  BY <1>1, <1>2 DEF ContextoDe, Contexto, TipoCanales, InvPuntual
<1>5. PICK x \in Contexto : x = ContextoDe(p)
  BY <1>4
<1>6. /\ ~HayEspera(c) /\ a_kernel[c] = Nada /\ despacho[c] = Nada
      /\ fase[c] \in {"reset", "esperando", "control", "respuesta"}
      /\ a_cpu[c] = <<>> \/ a_cpu[c] = <<OK>>
  BY <1>1, CpuLibreVacia DEF EnVuelo, Vacio
<1>7. a_cpu'[c] = <<x>> \/ a_cpu'[c] = <<OK, x>>
  <2>1. <<>> \o <<x>> = <<x>> /\ <<OK>> \o <<x>> = <<OK, x>>
    BY Palabras
  <2>2. a_cpu'[c] = a_cpu[c] \o <<x>>
    BY <1>1, <1>2, <1>5 DEF Enviar, TipoCanales
  <2> QED
    BY <1>6, <2>1, <2>2
<1>8. \A v \in Us : v.modo # "INTERRUMPIDO" => v.cpu # c
  BY <1>1 DEF Inv, Reparto, ConSuCpu
<1>9. ~HayEspera(c)'
  BY <1>2, <1>3, <1>8 DEF HayEspera, Espera
<1>10. \A v \in DeCpu(Us', c) : v.modo = "EJECUTANDO" => v.proceso = x.pid
  BY <1>2, <1>3, <1>4, <1>5, <1>8 DEF DeCpu
<1>11. Puntualidad(c)'
  BY <1>2, <1>4, <1>5, <1>6, <1>7, <1>9, <1>10, ContextoEnCamino DEF cpuVars
<1>12. \A d \in Cpu \ {c} : Quieta(d) /\ DeCpu(Us', d) = DeCpu(Us, d)
  BY <1>1, <1>2, <1>3
     DEF Quieta, MismoCanal, cpuVars, Enviar, TipoCanales, DeCpu
<1>13. UnRelevo(Us')
  BY <1>1, <1>2, <1>3 DEF UnRelevo, Espera
<1>14. TerminadosSiguen
  BY <1>1, <1>2 DEF TerminadosSiguen, TipoNucleo
<1>15. \A z \in Pid : program_counter'[z] = 0
  BY DEF InvPuntual
<1> QED
  BY <1>2, <1>11, <1>12, <1>13, <1>14, <1>15, PasoPuntual

LEMMA PuntualPlanificarCorto ==
    ASSUME InvPuntual, PlanificarCorto
    PROVE  InvPuntual'
<1>1. Inv /\ Inv'
  BY PasoPlanificarCorto DEF InvPuntual
<1>2. UNCHANGED <<program_counter, despacho, a_kernel, interrupciones, cpuVars>>
  BY DEF PlanificarCorto
<1>3. CASE Listos # {} /\ libres # {}
  <2>1. PICK p \in Listos, c \in libres : PonerEnEjecucion(p, c)
    BY <1>3 DEF PlanificarCorto
  <2> QED
    BY <1>1, <1>2, <2>1, PuntualPonerEnEjecucion
<1>4. CASE ~(Listos # {} /\ libres # {})
  <2>1. UNCHANGED <<estado, unidades, a_cpu>>
    BY <1>4 DEF PlanificarCorto
  <2>2. TerminadosSiguen /\ \A d \in Cpu : Quieta(d)
    BY <1>2, <2>1 DEF TerminadosSiguen, Quieta, MismoCanal, cpuVars
  <2> QED
    BY <1>1, <1>2, <2>1, <2>2, PasoPuntualQuieto
<1> QED
  BY <1>3, <1>4

\* When every CPU is at rest, the one that is to change its process executes it.
LEMMA PuntualDesalojar ==
    ASSUME InvPuntual, Inv', NEW r \in Listos, NEW i \in DOMAIN unidades,
           unidades[i].modo = "EJECUTANDO", Desalojar(r, i), ~desalojando,
           \A d \in Cpu : EnReposo(d),
           UNCHANGED <<estado, program_counter, despacho, a_kernel, a_cpu,
                       cpuVars>>
    PROVE  InvPuntual'
<1>1. Inv /\ TipoCanales /\ UnRelevo(Us)
  BY TiposPorPartes DEF InvPuntual, Inv
<1>2. PICK u \in Us :
         /\ u \in Unidad /\ u.modo = "EJECUTANDO"
         /\ u.cpu \in Cpu /\ u.proceso \in Pid
         /\ interrupciones' = [interrupciones EXCEPT ![u.cpu] = @ + 1]
         /\ unidades' \in Seq(Unidad) /\ SinDoble(unidades')
         /\ Us' = Cesion(u, r)
         /\ Reparto(Cesion(u, r), estado,
                    [queue_ready EXCEPT ![r] = @ - 1], libres, TRUE)
         /\ Conserva(Us, Cesion(u, r)) /\ Espera(Cesion(u, r), u.cpu)
  BY <1>1, CedeCpu
<1>3. PICK c \in Cpu : c = u.cpu
  BY <1>2
<1>4. Puntualidad(c) /\ EnReposo(c)
  BY DEF InvPuntual
<1>5. fase[c] = "ejecutando"
  <2>1. Activo(c, u.proceso)
    BY <1>2, <1>3, <1>4 DEF Puntualidad, DeCpu
  <2>2. \A x \in Contexto : a_cpu[c] \notin {<<x>>, <<OK, x>>}
    BY <1>4, UnSoloContexto DEF EnReposo
  <2> QED
    BY <1>4, <2>1, <2>2 DEF Activo, EnReposo
<1>6. \A v \in Us : v.modo = "EJECUTANDO"
  <2>1. \A v \in Us : v.modo # "AEJECUTAR"
    BY <1>1 DEF Inv, Reparto, UnDesalojo
  <2>2. \A v \in Us : v.modo # "INTERRUMPIDO"
    BY <1>1, <2>1 DEF UnRelevo, Espera
  <2>3. \A v \in Us : v.modo \in Modos
    BY <1>1, IndicesDeUnidades DEF Unidad
  <2> QED
    BY <2>1, <2>2, <2>3 DEF Modos
<1> DEFINE x == Unidad0(u.proceso, u.cpu, "INTERRUMPIDO")
           y == Unidad0(r, u.cpu, "AEJECUTAR")
<1>7. /\ x.proceso = u.proceso /\ x.cpu = c /\ x.modo = "INTERRUMPIDO"
      /\ y.proceso = r /\ y.cpu = c /\ y.modo = "AEJECUTAR"
  BY <1>3 DEF Unidad0
<1>8. Us' = ({v \in Us : v.proceso # u.proceso} \cup {x}) \cup {y}
  BY <1>2 DEF Cesion
<1> HIDE DEF x, y
<1>9. \A v \in Us : v.proceso = u.proceso => v = u
  BY <1>1 DEF Inv, Reparto, EnSuLugar
<1>10. UnRelevo(Us')
  BY <1>6, <1>7, <1>8 DEF UnRelevo, Espera
<1>11. \A d \in Cpu \ {c} : DeCpu(Us', d) = DeCpu(Us, d)
  BY <1>3, <1>7, <1>8, <1>9 DEF DeCpu
<1>12. \A d \in Cpu \ {c} : Quieta(d)
  BY <1>1, <1>2, <1>3 DEF Quieta, MismoCanal, TipoCanales, cpuVars
<1>13. \A v \in DeCpu(Us', c) : v.modo # "EJECUTANDO"
  <2>1. ConSuCpu(Us', libres)
    BY <1>2 DEF Reparto
  <2> QED
    BY <1>7, <1>8, <2>1 DEF ConSuCpu, DeCpu
<1>14. Relevando(c)'
  <2>1. interrupciones'[c] > 0
    BY <1>1, <1>2, <1>3 DEF TipoCanales
  <2> QED
    BY <1>5, <2>1 DEF Relevando, cpuVars
<1>15. Contadores(c)' /\ SinResto(a_cpu[c])'
  BY <1>4 DEF Puntualidad, Contadores, SinResto, cpuVars
<1>16. Puntualidad(c)'
  BY <1>13, <1>14, <1>15 DEF Puntualidad
<1>17. TerminadosSiguen /\ \A z \in Pid : program_counter'[z] = 0
  BY DEF TerminadosSiguen, InvPuntual
<1> QED
  BY <1>10, <1>11, <1>12, <1>16, <1>17, PasoPuntual

LEMMA PuntualComprobarDesalojo ==
    ASSUME Puntual, InvPuntual, ComprobarDesalojo
    PROVE  InvPuntual'
<1>1. Inv /\ Inv'
  BY PasoComprobarDesalojo DEF InvPuntual
<1>2. /\ ~desalojando /\ \A c \in Cpu : EnReposo(c)
      /\ UNCHANGED <<estado, program_counter, despacho, a_kernel, a_cpu,
                     cpuVars>>
  BY DEF ComprobarDesalojo
<1>3. CASE UNCHANGED <<queue_ready, interrupciones, unidades, desalojando,
                       desalojos>>
  <2>1. TerminadosSiguen /\ \A d \in Cpu : Quieta(d)
    BY <1>2, <1>3 DEF TerminadosSiguen, Quieta, MismoCanal, cpuVars
  <2> QED
    BY <1>1, <1>2, <1>3, <2>1, PasoPuntualQuieto
<1>4. CASE \E r \in Listos, i \in DOMAIN unidades :
              /\ unidades[i].modo = "EJECUTANDO"
              /\ desalojos < MaxDesalojos
              /\ Desalojar(r, i)
  BY <1>1, <1>2, <1>4, PuntualDesalojar
<1> QED
  BY <1>3, <1>4 DEF ComprobarDesalojo

\* The process p leaves its CPU; if another waits for it, p has ended.
LEMMA PuntualSale ==
    ASSUME InvPuntual, Inv', NEW c \in Cpu, NEW p \in Pid, NEW i \in Syscalls,
           Atiende(c, p, i), Enviar(c, <<OK>>), SacarProcesoEjecucion(p),
           NEW x, estado' = [estado EXCEPT ![p] = x],
           i = "EXIT" => x = "LIBERADO",
           UNCHANGED <<program_counter, a_kernel, interrupciones, cpuVars>>
    PROVE  InvPuntual'
<1>1. Inv /\ TipoNucleo /\ TipoCanales /\ UnRelevo(Us) /\ Puntualidad(c)
  BY TiposPorPartes DEF InvPuntual, Inv
<1>2. /\ fase[c] = "respuesta" /\ a_cpu[c] = <<>> /\ Corre(c, p)
      /\ a_kernel[c] = Nada /\ despacho'[c] = Nada
      /\ despacho' = [despacho EXCEPT ![c] = Nada]
  BY <1>1, Atendido
<1>3. PICK u \in Us :
         /\ u.proceso = p /\ u.cpu = c /\ u.modo # "AEJECUTAR"
         /\ Us' = {v \in Us : v.proceso # p}
  BY <1>1, <1>2, UnidadSacada
<1>4. despacho[c] # Nada /\ despacho[c].pid = p /\ despacho[c].motivo = i
  <2> DEFINE a == [pid |-> p, motivo |-> i, hallado |-> TRUE]
  <2>1. a \in Atencion /\ a.pid = p /\ a.motivo = i
    BY DEF Atencion
  <2>2. despacho[c] = a
    BY DEF Atiende
  <2> HIDE DEF a
  <2> QED
    BY <2>1, <2>2, MensajesAssumption
<1>5. contexto[c].pid = p
  BY <1>1, <1>4 DEF Puntualidad, Contadores, Syscalls
<1>6. a_cpu'[c] = <<OK>>
  <2>1. a_cpu'[c] = a_cpu[c] \o <<OK>>
    BY <1>1 DEF Enviar, TipoCanales
  <2>2. <<>> \o <<OK>> = <<OK>>
    BY Palabras
  <2> QED
    BY <1>2, <2>1, <2>2
<1>7. /\ \A v \in Us : v.proceso = p => v = u
      /\ \A v, w \in Us :
            v.cpu = w.cpu /\ v.modo # "INTERRUMPIDO" /\ w.modo # "INTERRUMPIDO"
               => v = w
      /\ estado[p] = "EXEC"
  BY <1>1, <1>3 DEF Inv, Reparto, EnSuLugar, ConSuCpu
<1>8. UnRelevo(Us')
  BY <1>1, <1>3, <1>7 DEF UnRelevo, Espera
<1>9. \A d \in Cpu \ {c} : Quieta(d) /\ DeCpu(Us', d) = DeCpu(Us, d)
  <2>1. \A d \in Cpu \ {c} : Quieta(d)
    BY <1>1, <1>2 DEF Quieta, MismoCanal, cpuVars, Enviar, TipoCanales
  <2>2. \A d \in Cpu \ {c} : DeCpu(Us', d) = DeCpu(Us, d)
    BY <1>3, <1>7 DEF DeCpu
  <2> QED
    BY <2>1, <2>2
<1>10. TerminadosSiguen
  BY <1>1, <1>7 DEF TerminadosSiguen, TipoNucleo
<1>11. \A v \in DeCpu(Us', c) : v.modo # "EJECUTANDO"
  <2> SUFFICES ASSUME NEW v \in DeCpu(Us', c), v.modo = "EJECUTANDO"
               PROVE  FALSE
    OBVIOUS
  <2>1. v \in Us /\ v.cpu = c /\ v # u
    BY <1>3 DEF DeCpu
  <2>2. u.modo = "INTERRUMPIDO"
    BY <1>3, <1>7, <2>1
  <2>3. HayEspera(c)
    BY <1>1, <1>3, <2>2 DEF UnRelevo, HayEspera
  <2> QED
    BY <1>1, <2>1, <2>3, SoloEspera DEF DeCpu
<1>12. HayEspera(c)' => Relevando(c)'
  <2> SUFFICES ASSUME HayEspera(c)' PROVE Relevando(c)'
    OBVIOUS
  <2>1. HayEspera(c)
    BY <1>3 DEF HayEspera, Espera
  <2>2. flag_interrupcion[c] /\ i = "EXIT"
    <3>1. a_cpu[c] # <<OK>>
      BY <1>2, Palabras
    <3> QED
      BY <1>1, <1>2, <1>4, <2>1, <3>1 DEF Puntualidad, Relevando
  <2>3. estado'[p] = "LIBERADO"
    BY <1>1, <2>2 DEF TipoNucleo
  <2>4. Interrumpidas(Us', c) = {}
    <3>1. u.modo = "INTERRUMPIDO"
      BY <1>3, <1>7, <2>1 DEF HayEspera, Espera
    <3> QED
      BY <1>1, <1>3, <3>1 DEF UnRelevo, Interrumpidas
  <2>5. ~EnVuelo(c)'
    BY <1>2 DEF EnVuelo
  <2>6. Termino(Us', estado', c, contexto'[c].pid)
    BY <1>5, <2>3, <2>4 DEF Termino, cpuVars
  <2> QED
    BY <1>2, <1>6, <2>2, <2>5, <2>6 DEF Relevando, cpuVars
<1>13. Contadores(c)' /\ SinResto(a_cpu[c])'
  <2>1. \A y \in Contexto : a_cpu'[c] \notin {<<y>>, <<OK, y>>}
    BY <1>6, UnSoloContexto
  <2>2. SinResto(a_cpu'[c])
    BY <1>6, MensajesCortos
  <2> QED
    BY <1>2, <2>1, <2>2 DEF Contadores, SinResto, cpuVars
<1>14. Puntualidad(c)'
  BY <1>11, <1>12, <1>13 DEF Puntualidad
<1>15. \A z \in Pid : program_counter'[z] = 0
  BY DEF InvPuntual
<1> QED
  BY <1>8, <1>9, <1>10, <1>14, <1>15, PasoPuntual

LEMMA PuntualSalidas ==
    ASSUME InvPuntual, NEW c \in Cpu, NEW p \in Pid,
           \/ Finalizado(c, p) \/ CausaIo(c, p)
           \/ \E exito \in BOOLEAN : MemoryDump(c, p, exito)
    PROVE  InvPuntual'
<1>1. Inv'
  BY PasosDeSalida DEF InvPuntual
<1>2. {"EXIT", "IO", "DUMP_MEMORY"} \subseteq Syscalls
  BY DEF Syscalls
<1>3. CASE Finalizado(c, p)
  BY <1>1, <1>2, <1>3, PuntualSale DEF Finalizado
<1>4. CASE CausaIo(c, p)
  BY <1>1, <1>2, <1>4, PuntualSale DEF CausaIo
<1>5. CASE \E exito \in BOOLEAN : MemoryDump(c, p, exito)
  <2>1. PICK x : estado' = [estado EXCEPT ![p] = x]
    BY <1>5 DEF MemoryDump
  <2> QED
    BY <1>1, <1>2, <1>5, <2>1, PuntualSale DEF MemoryDump
<1> QED
  BY <1>3, <1>4, <1>5

\* No interrupt comes while INIT_PROC is handled, so the caller goes on.
LEMMA PuntualInitProc ==
    ASSUME InvPuntual, NEW c \in Cpu, NEW p \in Pid, InitProc(c, p)
    PROVE  InvPuntual'
<1>1. /\ Inv /\ TipoNucleo /\ TipoCanales /\ UnRelevo(Us) /\ Puntualidad(c)
      /\ Inv'
  BY TiposPorPartes, PasoInitProc DEF InvPuntual, Inv
<1>2. "INIT_PROC" \in Syscalls /\ Atiende(c, p, "INIT_PROC")
  BY DEF Syscalls, InitProc
<1>3. /\ fase[c] = "respuesta" /\ a_cpu[c] = <<>> /\ Corre(c, p)
      /\ a_kernel[c] = Nada /\ despacho'[c] = Nada
      /\ despacho' = [despacho EXCEPT ![c] = Nada]
  BY <1>1, <1>2, Atendido
<1>4. despacho[c] # Nada /\ despacho[c].motivo = "INIT_PROC"
  <2> DEFINE a == [pid |-> p, motivo |-> "INIT_PROC", hallado |-> TRUE]
  <2>1. a \in Atencion /\ a.motivo = "INIT_PROC"
    BY <1>2 DEF Atencion
  <2>2. despacho[c] = a
    BY <1>2 DEF Atiende
  <2> HIDE DEF a
  <2> QED
    BY <2>1, <2>2, MensajesAssumption
<1>5. /\ estado' = [estado EXCEPT ![Min(SinCrear)] = "NEW"]
      /\ UNCHANGED <<unidades, program_counter, a_kernel, interrupciones,
                     cpuVars>>
  BY DEF InitProc
<1>6. Us' = Us
  BY <1>5 DEF Us
<1>7. ~HayEspera(c)
  <2>1. a_cpu[c] # <<OK>>
    BY <1>3, Palabras
  <2> QED
    BY <1>1, <1>3, <1>4, <2>1 DEF Puntualidad, Relevando
<1>8. \A v \in Us : v.cpu = c => v.modo # "INTERRUMPIDO"
  BY <1>1, <1>7 DEF UnRelevo, HayEspera
<1>9. Enviar(c, <<OK, ContextoDe(p)>>)
  <2>1. UnidadesEn(c, "INTERRUMPIDO") = {}
    BY <1>1, <1>8, IndicesDeUnidades DEF UnidadesEn
  <2> QED
    BY <2>1 DEF InitProc
<1>10. ContextoDe(p) \in Contexto /\ ContextoDe(p).pid = p
       /\ ContextoDe(p).pc = 0
  BY <1>1 DEF ContextoDe, Contexto, TipoCanales, InvPuntual
<1>11. PICK x \in Contexto : x = ContextoDe(p)
  BY <1>10
<1>12. a_cpu'[c] = <<OK, x>>
  <2>1. a_cpu'[c] = a_cpu[c] \o <<OK, x>>
    BY <1>1, <1>9, <1>11 DEF Enviar, TipoCanales
  <2>2. <<>> \o <<OK, x>> = <<OK, x>>
    BY Palabras
  <2> QED
    BY <1>3, <2>1, <2>2
<1>13. \A v \in DeCpu(Us', c) : v.modo = "EJECUTANDO" => v.proceso = x.pid
  <2>1. PICK w \in Us : w.cpu = c /\ w.proceso = p /\ w.modo = "EJECUTANDO"
    BY <1>3, <1>8 DEF Corre, CorreEn
  <2>2. ConSuCpu(Us, libres)
    BY <1>1 DEF Inv, Reparto
  <2> QED
    BY <1>6, <1>10, <1>11, <2>1, <2>2 DEF ConSuCpu, DeCpu
<1>14. Puntualidad(c)'
  <2>1. ~HayEspera(c)'
    BY <1>6, <1>7 DEF HayEspera
  <2> QED
    BY <1>3, <1>5, <1>10, <1>11, <1>12, <1>13, <2>1, ContextoEnCamino
       DEF cpuVars
<1>15. \A d \in Cpu \ {c} : Quieta(d) /\ DeCpu(Us', d) = DeCpu(Us, d)
  BY <1>1, <1>3, <1>5, <1>6, <1>9
     DEF Quieta, MismoCanal, cpuVars, Enviar, TipoCanales
<1>16. TerminadosSiguen
  <2>1. Min(SinCrear) \in SinCrear
    <3>1. SinCrear \in SUBSET Nat /\ SinCrear # {}
      BY SrtAssumption DEF SinCrear, InitProc
    <3>2. \E k \in SinCrear : \A l \in SinCrear : k <= l
      BY <3>1, HayMenor
    <3> QED
      BY <3>2 DEF Min
  <2>2. PICK n \in SinCrear : n = Min(SinCrear)
    BY <2>1
  <2> QED
    BY <1>1, <1>5, <2>2 DEF TerminadosSiguen, TipoNucleo, SinCrear
<1>17. UnRelevo(Us') /\ \A z \in Pid : program_counter'[z] = 0
  BY <1>1, <1>5, <1>6 DEF InvPuntual
<1> QED
  BY <1>1, <1>14, <1>15, <1>16, <1>17, PasoPuntual

\* The process that waited takes the CPU, and none is left INTERRUMPIDO.
LEMMA PuntualInterrupcion ==
    ASSUME InvPuntual, NEW c \in Cpu, Interrupcion(c)
    PROVE  InvPuntual'
<1>1. /\ Inv /\ TipoCanales /\ UnRelevo(Us) /\ Puntualidad(c)
      /\ Aviso(c) /\ Canal(c) /\ Inv'
  BY TiposPorPartes, PasoInterrupcion DEF InvPuntual, Inv
<1>2. /\ despacho[c] # Nada /\ despacho[c].motivo = "INTERRUPCION"
      /\ despacho' = [despacho EXCEPT ![c] = Nada]
      /\ UNCHANGED <<libres, program_counter, a_kernel, interrupciones,
                     cpuVars>>
  BY DEF Interrupcion
<1>3. PICK q \in Pid :
         /\ Enviar(c, <<OK, ContextoDe(q)>>) /\ Relevada(c, q)
         /\ \A d \in Cpu : HayEspera(d) => d = c
  BY <1>1, CpuRelevada
<1>4. /\ HayEspera(c) /\ CanalDesalojo(c) /\ a_kernel[c] = Nada
      /\ despacho'[c] = Nada
  BY <1>1, <1>2 DEF Aviso, Canal, PideDesalojo, TipoCanales
<1>5. /\ fase[c] = "respuesta_int" /\ a_cpu[c] = <<>>
      /\ despacho[c].hallado \/ Interrumpidas(Us, c) = {}
  BY <1>1, <1>4
     DEF Puntualidad, Relevando, CanalDesalojo, PideSalir, Vacio
<1>6. /\ \A v \in Us' : v \in Us \/ v = Unidad0(q, c, "EJECUTANDO")
      /\ \A v \in Us : v.cpu # c => v \in Us'
      /\ Reparto(Us', estado', queue_ready', libres, FALSE)
      /\ TerminadosSiguen
  BY <1>3 DEF Relevada, TerminadosSiguen
<1>7. \A v \in Us : v.modo = "INTERRUMPIDO" => v.cpu = c
  <2>1. \A v \in Us : v.cpu \in Cpu
    BY <1>1, IndicesDeUnidades DEF Unidad
  <2> QED
    BY <1>1, <1>3, <2>1 DEF UnRelevo, HayEspera
<1>8. \A v \in Us' : v.modo # "INTERRUMPIDO" /\ v.modo # "AEJECUTAR"
  <2>1. \A v \in Us' : v.modo # "AEJECUTAR"
    BY <1>6 DEF Reparto, UnDesalojo
  <2>2. \A v \in Us : v.modo = "INTERRUMPIDO" => v \notin Us'
    <3>1. CASE Interrumpidas(Us, c) = {}
      BY <1>7, <3>1 DEF Interrumpidas
    <3>2. CASE \A u \in Us : u.cpu = c => u.modo # "INTERRUMPIDO"
      BY <1>7, <3>2
    <3>3. CASE \E u \in Us : u.cpu = c /\ u.modo = "INTERRUMPIDO" /\ u \notin Us'
      BY <1>1, <3>3 DEF UnRelevo
    <3> QED
      BY <1>3, <1>5, <3>1, <3>2, <3>3 DEF Relevada
  <2>3. Unidad0(q, c, "EJECUTANDO").modo # "INTERRUMPIDO"
    BY DEF Unidad0
  <2> QED
    BY <1>6, <2>1, <2>2, <2>3
<1>9. UnRelevo(Us') /\ ~HayEspera(c)'
  BY <1>8 DEF UnRelevo, HayEspera, Espera
<1>10. ContextoDe(q) \in Contexto /\ ContextoDe(q).pid = q
       /\ ContextoDe(q).pc = 0
  BY <1>1 DEF ContextoDe, Contexto, TipoCanales, InvPuntual
<1>11. PICK x \in Contexto : x = ContextoDe(q)
  BY <1>10
<1>12. a_cpu'[c] = <<OK, x>>
  <2>1. a_cpu'[c] = a_cpu[c] \o <<OK, x>>
    BY <1>1, <1>3, <1>11 DEF Enviar, TipoCanales
  <2>2. <<>> \o <<OK, x>> = <<OK, x>>
    BY Palabras
  <2> QED
    BY <1>5, <2>1, <2>2
<1>13. /\ Unidad0(q, c, "EJECUTANDO").cpu = c
       /\ Unidad0(q, c, "EJECUTANDO").proceso = q
  BY DEF Unidad0
<1>14. \A v \in DeCpu(Us', c) : v.modo = "EJECUTANDO" => v.proceso = x.pid
  <2>1. \A v \in DeCpu(Us, c) : v.modo # "EJECUTANDO"
    BY <1>1, <1>4, SoloEspera
  <2> QED
    BY <1>6, <1>10, <1>11, <1>13, <2>1 DEF DeCpu
<1>15. Puntualidad(c)'
  BY <1>2, <1>4, <1>5, <1>9, <1>10, <1>11, <1>12, <1>14, ContextoEnCamino
     DEF cpuVars
<1>16. \A d \in Cpu \ {c} : Quieta(d) /\ DeCpu(Us', d) = DeCpu(Us, d)
  <2>1. \A d \in Cpu \ {c} : Quieta(d)
    BY <1>1, <1>2, <1>3 DEF Quieta, MismoCanal, cpuVars, Enviar, TipoCanales
  <2>2. \A d \in Cpu \ {c} : DeCpu(Us', d) = DeCpu(Us, d)
    BY <1>6, <1>13 DEF DeCpu
  <2> QED
    BY <2>1, <2>2
<1>17. \A z \in Pid : program_counter'[z] = 0
  BY <1>2 DEF InvPuntual
<1> QED
  BY <1>1, <1>6, <1>9, <1>15, <1>16, <1>17, PasoPuntual

LEMMA InvPuntualInit == Init => InvPuntual
<1> SUFFICES ASSUME Init PROVE InvPuntual
  OBVIOUS
<1>1. Inv
  BY InvInit
<1>2. Us = {}
  BY DEF Init, Us, ToSet
<1>3. ASSUME NEW c \in Cpu PROVE Puntualidad(c)
  <2>1. \A x \in Contexto : <<>> \notin {<<x>>, <<OK, x>>}
    BY UnSoloContexto
  <2>2. a_cpu[c] = <<>>
    BY DEF Init
  <2>3. SinResto(a_cpu[c])
    BY <2>2, MensajesCortos
  <2>4. Contadores(c)
    BY <2>1, <2>2 DEF Init, Contadores
  <2> QED
    BY <1>2, <2>3, <2>4 DEF Puntualidad, HayEspera, Espera, DeCpu
<1>4. UnRelevo(Us) /\ \A p \in Pid : program_counter[p] = 0
  BY <1>2 DEF UnRelevo, Init
<1> QED
  BY <1>1, <1>3, <1>4 DEF InvPuntual

\* Threads that wait, and processes that become ready, change nothing here.
LEMMA PuntualQuietos ==
    ASSUME InvPuntual,
           \/ EsperarPrincipal \/ EsperarProcesoReady \/ EsperarCpuLibre
           \/ EsperarCheckDesalojo \/ Admitir
           \/ \E p \in Pid : FinalizacionIo(p)
           \/ UNCHANGED vars
    PROVE  InvPuntual'
<1>1. Inv /\ Inv' /\ TipoNucleo
  BY InvStep, TiposPorPartes
     DEF InvPuntual, Inv, Next, Planificador, Desalojador
<1>2. UNCHANGED <<unidades, program_counter, despacho, canales, cpuVars>>
  BY DEF EsperarPrincipal, EsperarProcesoReady, EsperarCpuLibre,
         EsperarCheckDesalojo, Admitir, FinalizacionIo, vars, kernelVars
<1>3. \A d \in Cpu : Quieta(d)
  BY <1>2 DEF Quieta, MismoCanal, canales, cpuVars
<1>4. TerminadosSiguen
  <2>1. CASE Admitir
    <3>1. Nuevos(queue_new, estado) /\ queue_new # <<>>
      BY <1>1, <2>1 DEF Inv, Admitir
    <3>2. Head(queue_new) \in Pid /\ estado[Head(queue_new)] = "NEW"
      BY <1>1, <3>1, NuevosSale DEF TipoNucleo
    <3>3. estado' = [estado EXCEPT ![Head(queue_new)] = "READY"]
      BY <2>1 DEF Admitir
    <3> QED
      BY <1>1, <3>2, <3>3 DEF TerminadosSiguen, TipoNucleo
  <2>2. CASE \E p \in Pid : FinalizacionIo(p)
    BY <1>1, <2>2 DEF TerminadosSiguen, TipoNucleo, FinalizacionIo
  <2>3. CASE ~Admitir /\ ~\E p \in Pid : FinalizacionIo(p)
    <3>1. estado' = estado
      BY <2>3 DEF EsperarPrincipal, EsperarProcesoReady, EsperarCpuLibre,
                  EsperarCheckDesalojo, vars, kernelVars
    <3> QED
      BY <3>1 DEF TerminadosSiguen
  <2> QED
    BY <2>1, <2>2, <2>3
<1> QED
  BY <1>1, <1>2, <1>3, <1>4, PasoPuntualQuieto

LEMMA InvPuntualStep ==
    ASSUME Puntual, InvPuntual, [Next]_vars
    PROVE  InvPuntual'
<1>1. CASE Planificador \/ Desalojador
  BY <1>1, PuntualQuietos, PuntualPlanificarCorto, PuntualComprobarDesalojo
     DEF Planificador, Desalojador
<1>2. CASE Admitir \/ (\E p \in Pid : FinalizacionIo(p)) \/ UNCHANGED vars
  BY <1>2, PuntualQuietos
<1>3. ASSUME NEW c \in Cpu, RecibirDispatch(c) \/ Handler(c)
      PROVE  InvPuntual'
  BY <1>3, PuntualRecibirDispatch, PuntualInterrupcion, PuntualSalidas,
     PuntualInitProc DEF Handler
<1>4. ASSUME NEW c \in Cpu, LlegaInterrupcion(c) \/ MainCpu(c) \/ Ejecutar(c)
      PROVE  InvPuntual'
  BY <1>4, PuntualLlegaInterrupcion, PuntualReiniciar, PuntualRecibirContexto,
     PuntualRecibirRespuesta, PuntualControlarInterrupcion,
     PuntualRecibirRespuestaInterrupcion, PuntualEjecutarComun,
     PuntualEjecutarSyscall DEF MainCpu, Ejecutar
<1> QED
  BY <1>1, <1>2, <1>3, <1>4 DEF Next

\* The inductive invariant of the second part.
THEOREM InvPuntualSiempre ==
    ASSUME Puntual
    PROVE  Spec => []InvPuntual
<1>1. Init => InvPuntual
  BY InvPuntualInit
<1>2. InvPuntual /\ [Next]_vars => InvPuntual'
  BY InvPuntualStep
<1> QED
  BY <1>1, <1>2, PTL DEF Spec

\* When interrupts strike between ordinary instructions no process is left
\* INTERRUMPIDO on a CPU after its preemption.  Without that the run
\* srt_perdida leaves one.
THEOREM NingunoSinReemplazo ==
    ASSUME Puntual
    PROVE  Spec => []InterrumpidosConReemplazo
<1>1. ASSUME InvPuntual PROVE InterrumpidosConReemplazo
  <2>1. UnRelevo(Us) /\ Inv
    BY <1>1 DEF InvPuntual
  <2> SUFFICES ASSUME NEW c \in Cpu
               PROVE  /\ UnidadesEn(c, "INTERRUMPIDO") # {} =>
                            UnidadesEn(c, "AEJECUTAR") # {}
                      /\ Cardinality(UnidadesEn(c, "INTERRUMPIDO")) <= 1
    BY DEF InterrumpidosConReemplazo
  <2> DEFINE W == UnidadesEn(c, "INTERRUMPIDO")
  <2>2. \A i : i \in W <=> /\ i \in DOMAIN unidades /\ unidades[i].cpu = c
                           /\ unidades[i].modo = "INTERRUMPIDO"
    BY DEF UnidadesEn
  <2> HIDE DEF W
  <2>3. CASE W = {}
    BY <2>3, FS_EmptySet DEF W
  <2>4. CASE W # {}
    <3>1. PICK k \in W : TRUE
      BY <2>4
    <3>2. Espera(Us, c) /\ \A i \in W : i = k
      BY <2>1, <2>2, <3>1, IndicesDeUnidades DEF UnRelevo
    <3>3. UnidadesEn(c, "AEJECUTAR") # {}
      BY <2>1, <3>2, IndicesDeUnidades DEF Espera, UnidadesEn
    <3>4. W = {k}
      BY <3>1, <3>2
    <3>5. Cardinality(W) = 1
      BY <3>4, FS_Singleton, SMTT(30)
    <3> QED
      BY <3>3, <3>5 DEF W
  <2> QED
    BY <2>3, <2>4
<1> QED
  BY <1>1, InvPuntualSiempre, PTL

\* A CPU that executes p, or has its context coming, is the one that p runs on.
LEMMA EjecutaDondeCorre ==
    ASSUME InvPuntual, NEW p \in Pid, NEW c \in EjecutanA(p)
    PROVE  c \in Cpu /\ Corre(c, p)
<1>1. c \in Cpu
  BY DEF EjecutanA
<1>2. Inv /\ Canal(c) /\ Aviso(c) /\ Puntualidad(c)
  BY <1>1 DEF InvPuntual, Inv
<1>3. CASE EnVuelo(c)
  <2>1. PideDesalojo(c) => Vacio(a_cpu[c])
    BY <1>2 DEF Aviso, Puntualidad, Relevando, Canal, CanalDesalojo,
                CanalSyscall, PideDesalojo
  <2>2. /\ Vacio(a_cpu[c])
        /\ fase[c] \notin {"ejecutando", "colgada", "control"}
    BY <1>2, <1>3, <2>1
       DEF Canal, CanalDesalojo, CanalSyscall, PideDesalojo, EnVuelo
  <2>3. DOMAIN a_cpu[c] = {}
    BY <2>2 DEF Vacio
  <2> QED
    BY <2>2, <2>3 DEF EjecutanA
<1>4. CASE ~EnVuelo(c)
  <2>1. CanalLibre(c)
    BY <1>2, <1>4 DEF Canal
  <2>2. CASE \/ fase[c] \in {"ejecutando", "colgada"} /\ contexto[c].pid = p
             \/ fase[c] = "control" /\ contexto[c].pc = 0 /\ contexto[c].pid = p
    BY <1>1, <2>1, <2>2 DEF CanalLibre
  <2>3. CASE \E i \in DOMAIN a_cpu[c] : a_cpu[c][i] # OK /\ a_cpu[c][i].pid = p
    <3>1. PICK i \in DOMAIN a_cpu[c] : a_cpu[c][i] # OK /\ a_cpu[c][i].pid = p
      BY <2>3
    <3>2. a_cpu[c] # <<>> /\ a_cpu[c] # <<OK>>
      BY <3>1
    <3>3. ParaCorrer(c, a_cpu[c]) \/ TrasRespuesta(c, a_cpu[c])
      BY <1>2, <2>1, <3>2
         DEF CanalLibre, Vacio, TrasResto, Puntualidad, SinResto
    <3>4. PICK x \in Contexto : /\ a_cpu[c] \in {<<x>>, <<OK, x>>}
                                /\ Corre(c, x.pid)
      BY <3>3 DEF ParaCorrer, TrasRespuesta
    <3>5. a_cpu[c][i] = x
      BY <3>1, <3>4
    <3> QED
      BY <1>1, <3>1, <3>4, <3>5
  <2> QED
    BY <2>2, <2>3 DEF EjecutanA
<1> QED
  BY <1>3, <1>4

\* No process is executed by two CPUs, when interrupts strike between ordinary
\* instructions, whatever contexts are sent and answered.
THEOREM NadieEnDosCpus ==
    ASSUME Puntual
    PROVE  Spec => []UnSoloEjecutor
<1>1. ASSUME InvPuntual PROVE UnSoloEjecutor
  <2> SUFFICES ASSUME NEW p \in Pid PROVE Cardinality(EjecutanA(p)) <= 1
    BY DEF UnSoloEjecutor
  <2>1. \A u, v \in Us : u.proceso = v.proceso => u = v
    BY <1>1 DEF InvPuntual, Inv, Reparto, EnSuLugar
  <2>2. \A c, d \in EjecutanA(p) : c = d
    BY <1>1, <2>1, EjecutaDondeCorre DEF Corre, CorreEn
  <2>3. CASE EjecutanA(p) = {}
    BY <2>3, FS_EmptySet
  <2>4. CASE EjecutanA(p) # {}
    <3>1. PICK c \in EjecutanA(p) : TRUE
      BY <2>4
    <3>2. EjecutanA(p) = {c}
      BY <2>2, <3>1
    <3>3. Cardinality(EjecutanA(p)) = 1
      BY <3>2, FS_Singleton
    <3> QED
      BY <3>3
  <2> QED
    BY <2>3, <2>4
<1> QED
  BY <1>1, InvPuntualSiempre, PTL

\* A ready process goes on from an instruction of its program: the counter -1
\* that ends the cycle of the CPU is never stored, when interrupts strike
\* between ordinary instructions.
THEOREM SiempreRetoma ==
    ASSUME Puntual
    PROVE  Spec => []Retoma
<1>1. InvPuntual => Retoma
  BY DEF InvPuntual, Retoma, Listos
<1> QED
  BY <1>1, InvPuntualSiempre, PTL

\* When interrupts strike between ordinary instructions, no preemption is
\* forgotten: somebody has still to do its next step.
THEOREM NingunDesalojoSeOlvida ==
    ASSUME Puntual
    PROVE  Spec => []DesalojoEnCamino
<1>1. ASSUME InvPuntual PROVE DesalojoEnCamino
  <2> SUFFICES ASSUME desalojando PROVE DesalojoEnCamino
    BY DEF DesalojoEnCamino
  <2>1. Inv /\ UnDesalojo(Us, desalojando)
    BY <1>1 DEF InvPuntual, Inv, Reparto
  <2>2. PICK i \in DOMAIN unidades : unidades[i].modo = "AEJECUTAR"
    BY <2>1, IndicesDeUnidades DEF UnDesalojo
  <2>3. PICK c \in Cpu : c = unidades[i].cpu
    BY <2>1, IndicesDeUnidades DEF Unidad
  <2>4. UnidadesEn(c, "AEJECUTAR") # {}
    BY <2>2, <2>3 DEF UnidadesEn
  <2>5. HayEspera(c)
    BY <2>1, <2>2, <2>3, IndicesDeUnidades DEF HayEspera, Espera
  <2>6. Relevando(c)
    BY <1>1, <2>5 DEF InvPuntual, Puntualidad
  <2>7. PideSalir(c) => Interrumpio(c)
    BY DEF PideSalir, Interrumpio
  <2>8. a_cpu[c] = <<OK>> => a_cpu[c] # <<>>
    OBVIOUS
  <2> QED
    BY <2>4, <2>6, <2>7, <2>8 DEF Relevando, DesalojoEnCamino
<1> QED
  BY <1>1, InvPuntualSiempre, PTL
=============================================================================
