----------------------------- MODULE CicloDeVida -----------------------------
(***************************************************************************)
(* The life of the processes as a user of the system sees it: states, who  *)
(* is in main memory and how many run at once.  Queues, semaphores,        *)
(* devices and planner threads are gone; module Kernel implements this one.*)
(***************************************************************************)
EXTENDS Integers, FiniteSets

CONSTANTS Pid, Cpu, Tamanio, Marcos

VARIABLES estado, residentes, en_swap

cvars == <<estado, residentes, en_swap>>

CEstados == {"SIN_CREAR", "NEW", "READY", "EXEC", "BLOCKED", "SUSP_BLOCKED",
             "SUSP_READY", "EXIT"}

\* One frame per page of the processes of S.
Caben(S) == Cardinality(UNION {{q} \X (1..Tamanio[q]) : q \in S}) <= Marcos
Corriendo == {p \in Pid : estado[p] = "EXEC"}

Pasa(p, a, b) == estado[p] = a /\ estado' = [estado EXCEPT ![p] = b]

Init ==
    /\ \E p \in Pid :
          estado = [q \in Pid |-> IF q = p THEN "NEW" ELSE "SIN_CREAR"]
    /\ residentes = {} /\ en_swap = {}

\* Only a running process creates another one.
Crear(p) ==
    /\ Corriendo # {}
    /\ Pasa(p, "SIN_CREAR", "NEW") /\ UNCHANGED <<residentes, en_swap>>

\* A process starts, or comes back from swap, when it fits; a new one only
\* if no swapped-out one could go first.
Entrar(p) ==
    /\ \/ /\ Pasa(p, "NEW", "READY")
          /\ \A q \in Pid : estado[q] # "SUSP_READY"
       \/ Pasa(p, "SUSP_READY", "READY")
    /\ residentes' = residentes \cup {p} /\ Caben(residentes')
    /\ en_swap' = en_swap \ {p}

\* At most one process per CPU runs.
Correr(p) ==
    /\ Cardinality(Corriendo) < Cardinality(Cpu)
    /\ Pasa(p, "READY", "EXEC") /\ UNCHANGED <<residentes, en_swap>>

\* A dump sends the process back to READY, an IO blocks it.
Soltar(p) ==
    /\ Pasa(p, "EXEC", "READY") \/ Pasa(p, "EXEC", "BLOCKED")
    /\ UNCHANGED <<residentes, en_swap>>

Suspender(p) ==
    /\ Pasa(p, "BLOCKED", "SUSP_BLOCKED")
    /\ residentes' = residentes \ {p} /\ en_swap' = en_swap \cup {p}

Despertar(p) ==
    /\ Pasa(p, "BLOCKED", "READY") \/ Pasa(p, "SUSP_BLOCKED", "SUSP_READY")
    /\ UNCHANGED <<residentes, en_swap>>

\* A running process ends by itself; blocked ones end, several at once, when
\* the device they need is lost.
Terminar(S) ==
    /\ \A p \in S : estado[p] \in {"EXEC", "BLOCKED", "SUSP_BLOCKED"}
    /\ estado' = [p \in Pid |-> IF p \in S THEN "EXIT" ELSE estado[p]]
    /\ residentes' = residentes \ S /\ en_swap' = en_swap \ S

Next ==
    \/ \E p \in Pid : \/ Crear(p) \/ Entrar(p) \/ Correr(p) \/ Soltar(p)
                      \/ Suspender(p) \/ Despertar(p)
    \/ \E S \in SUBSET Pid : Terminar(S)

Spec == Init /\ [][Next]_cvars
=============================================================================
