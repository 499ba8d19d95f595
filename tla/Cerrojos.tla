------------------------------ MODULE Cerrojos ------------------------------
(***************************************************************************)
(* Threads that run sections of code under mutexes, where the sections are *)
(* a parameter: module KernelLocks has those of the kernel.  Sources:      *)
(* kernel/src/semaforos.c.                                                 *)
(*                                                                         *)
(* A section is a sequence of steps: each takes one mutex, or uses some    *)
(* data, or lets go of some mutexes, which may be held by another thread.  *)
(* A mutex that is unlocked while it is free stays free.                   *)
(***************************************************************************)
EXTENDS Integers, Sequences

CONSTANTS
    Hilo,
    Rol,            \* what a thread may be
    Reparto,        \* the roles that a set of threads may have
    Mutex, Dato,
    Ninguno,        \* no mutex, and no thread
    Secciones,      \* the sections that each role runs, one after another
    Rango,          \* the order of the mutexes, from the last one on
    Guardia,        \* the mutex that protects each datum
    SinGuardia      \* the roles that use data without their mutexes

Paso == [toma : Mutex \cup {Ninguno}, usa : SUBSET Dato, suelta : SUBSET Mutex]

\* The thread that is to take step k of section s has taken m in step i and
\* has not let go of it since.
Retiene(s, i, k, m) ==
    /\ i < k /\ s[i].toma = m
    /\ \A j \in (i + 1)..(k - 1) : m \notin s[j].suelta

\* Mutexes are taken in order, even those of the section itself, and each is
\* let go later.
EnOrden(s) ==
    /\ \A k \in DOMAIN s : \A i \in 1..(k - 1) :
          /\ s[i].toma # Ninguno /\ s[k].toma # Ninguno
          /\ Retiene(s, i, k, s[i].toma)
          => Rango[s[k].toma] < Rango[s[i].toma]
    /\ \A i \in DOMAIN s : s[i].toma # Ninguno =>
          \E k \in (i + 1)..Len(s) : s[i].toma \in s[k].suelta

\* The section uses data only while it holds their mutex.
UsaConGuardia(s, guardia) ==
    \A k \in DOMAIN s : \A d \in s[k].usa :
       \E i \in 1..(k - 1) : Retiene(s, i, k, guardia[d])

\* The section unlocks no mutex that protects data unless it holds it.
SueltaConGuardia(s, guardia) ==
    \A k \in DOMAIN s : \A d \in DOMAIN guardia : guardia[d] \in s[k].suelta =>
       \E i \in 1..(k - 1) : Retiene(s, i, k, guardia[d])

ASSUME CerrojosAssumption ==
    /\ Ninguno \notin Hilo \cup Mutex
    /\ Reparto \subseteq [Hilo -> Rol]
    /\ Rango \in [Mutex -> Nat]
    /\ \A r \in Rol : \A s \in Secciones[r] :
          /\ s \in Seq(Paso) /\ s # <<>>
          /\ \A k \in DOMAIN s : s[k].toma \in Mutex => s[k].suelta = {}
          /\ EnOrden(s)

ASSUME GuardiaAssumption ==
    /\ Guardia \in [Dato -> Mutex]
    /\ \A r \in Rol : \A s \in Secciones[r] :
          /\ SueltaConGuardia(s, Guardia)
          /\ r \notin SinGuardia => UsaConGuardia(s, Guardia)

VARIABLES
    rol,        \* what each thread is
    seccion,    \* the section it runs, <<>> before the first
    paso,       \* its next step
    dueno       \* the thread that took each mutex last, while it is locked

vars == <<rol, seccion, paso, dueno>>

TypeOK ==
    /\ rol \in Reparto
    /\ seccion \in [Hilo -> {<<>>} \cup UNION {Secciones[r] : r \in Rol}]
    /\ paso \in [Hilo -> Nat \ {0}]
    /\ \A h \in Hilo : paso[h] <= Len(seccion[h]) + 1
    /\ dueno \in [Mutex -> Hilo \cup {Ninguno}]

Init ==
    /\ rol \in Reparto
    /\ seccion = [h \in Hilo |-> <<>>]
    /\ paso = [h \in Hilo |-> 1]
    /\ dueno = [m \in Mutex |-> Ninguno]

-----------------------------------------------------------------------------
EnSeccion(h) == paso[h] \in DOMAIN seccion[h]
Actual(h) == seccion[h][paso[h]]

Avanzar(h) ==
    /\ paso' = [paso EXCEPT ![h] = @ + 1]
    /\ UNCHANGED <<rol, seccion>>

\* The signals that the thread waits for between sections are those of the
\* other modules; here any section of its role may come next.
Empezar(h) ==
    /\ ~EnSeccion(h)
    /\ \E s \in Secciones[rol[h]] : seccion' = [seccion EXCEPT ![h] = s]
    /\ paso' = [paso EXCEPT ![h] = 1]
    /\ UNCHANGED <<rol, dueno>>

\* Faulty variant: a mutex that is locked is taken all the same.
TomarSinEsperar(h) ==
    /\ EnSeccion(h)
    /\ Actual(h).toma # Ninguno
    /\ dueno' = [dueno EXCEPT ![Actual(h).toma] = h]
    /\ Avanzar(h)

\* wait_mutex.
Tomar(h) ==
    /\ EnSeccion(h)
    /\ Actual(h).toma # Ninguno /\ dueno[Actual(h).toma] = Ninguno
    /\ dueno' = [dueno EXCEPT ![Actual(h).toma] = h]
    /\ Avanzar(h)

\* Faulty variant: a section that unlocks several mutexes forgets one.
SoltarSalvoUno(h) ==
    /\ EnSeccion(h) /\ Actual(h).toma = Ninguno
    /\ \E olvidado \in Mutex :
          dueno' = [m \in Mutex |->
                       IF m \in Actual(h).suelta \ {olvidado} THEN Ninguno
                       ELSE dueno[m]]
    /\ Avanzar(h)

\* signal_mutex, of whoever took the mutex, or what is done under the mutexes.
SoltarOUsar(h) ==
    /\ EnSeccion(h) /\ Actual(h).toma = Ninguno
    /\ dueno' = [m \in Mutex |->
                    IF m \in Actual(h).suelta THEN Ninguno ELSE dueno[m]]
    /\ Avanzar(h)

Next == \E h \in Hilo : Empezar(h) \/ Tomar(h) \/ SoltarOUsar(h)

Spec == Init /\ [][Next]_vars
=============================================================================
