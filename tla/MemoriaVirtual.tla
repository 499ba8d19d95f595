--------------------------- MODULE MemoriaVirtual ---------------------------
(***************************************************************************)
(* What memoria promises to a process: a fixed number of pages whose       *)
(* contents change only when the process writes them.  Frames, the swap    *)
(* file and the trips between them do not show; module Memoria implements  *)
(* this one.                                                               *)
(***************************************************************************)
EXTENDS Naturals

CONSTANTS Pid, Paginas, Valor

VARIABLES contenido,    \* the pages of each live process, <<>> for the others
          vivos,        \* the processes created and not finished
          creados,      \* the processes ever created
          volcado       \* what the last dump wrote

mvars == <<contenido, vivos, creados, volcado>>

Init ==
    /\ contenido = [p \in Pid |-> <<>>]
    /\ vivos = {} /\ creados = {} /\ volcado = <<>>

\* The frames are not cleared: a new process finds anything in its pages.
Crear(p) ==
    /\ p \notin creados
    /\ creados' = creados \cup {p} /\ vivos' = vivos \cup {p}
    /\ \E c \in [1..Paginas[p] -> Valor] :
          contenido' = [contenido EXCEPT ![p] = c]
    /\ UNCHANGED volcado

Terminar(p) ==
    /\ p \in vivos
    /\ vivos' = vivos \ {p}
    /\ contenido' = [contenido EXCEPT ![p] = <<>>]
    /\ UNCHANGED <<creados, volcado>>

Escribir(p, i, v) ==
    /\ p \in vivos
    /\ contenido' = [contenido EXCEPT ![p][i] = v]
    /\ UNCHANGED <<vivos, creados, volcado>>

\* A dump writes every page of the process, in order.
Volcar(p) ==
    /\ p \in vivos
    /\ volcado' = contenido[p]
    /\ UNCHANGED <<contenido, vivos, creados>>

Next == \E p \in Pid : \/ Crear(p) \/ Terminar(p) \/ Volcar(p)
                       \/ \E i \in 1..Paginas[p], v \in Valor : Escribir(p, i, v)

Spec == Init /\ [][Next]_mvars
=============================================================================
