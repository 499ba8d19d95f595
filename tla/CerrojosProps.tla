--------------------------- MODULE CerrojosProps ---------------------------
(***************************************************************************)
(* What the mutexes of the kernel are there for.                           *)
(***************************************************************************)
EXTENDS Cerrojos

\* Thread h waits for a mutex that thread g took.
EsperaA(h, g) ==
    /\ EnSeccion(h) /\ Actual(h).toma # Ninguno
    /\ dueno[Actual(h).toma] = g

\* No set of threads waits all of it for itself, nor a thread for itself:
\* the handlers take up to nine mutexes one by one (kernel.c:633-642), and
\* scheduler.c:325 unlocks one of its own twice.
SinEsperaCircular ==
    \A S \in (SUBSET Hilo) \ {{}} : \E h \in S : \A g \in S : ~EsperaA(h, g)

\* Two threads that use the same data do not do it at once, whatever
\* mutexes each took and whoever unlocked them: the queues, the lists, the
\* dictionaries, the state of the processes and the connection to memoria,
\* whose requests nothing else serialises (atencion_a_kernel.c:134).  The
\* exception is identificar_io, which adds the device to its list with no
\* mutex (kernel.c:594) and fills dictionaries that the end of another device
\* empties with other mutexes (kernel.c:688-698).
DatosExcluidos ==
    \A h, g \in Hilo :
       /\ h # g /\ EnSeccion(h) /\ EnSeccion(g)
       /\ {rol[h], rol[g]} \cap SinGuardia = {}
       => Actual(h).usa \cap Actual(g).usa = {}
=============================================================================
