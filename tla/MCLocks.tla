------------------------------ MODULE MCLocks ------------------------------
EXTENDS CerrojosProps, KernelLocks, TLC

\* There is one thread of each planner.
Unicos == {"corto", "desalojo", "largo"}

RepartoDelKernel ==
    {r \in [Hilo -> RolDelKernel] :
        \A h, g \in Hilo : h # g /\ r[h] = r[g] => r[h] \notin Unicos}

\* What Cerrojos assumes of the sections, for the two long-term planners.
ASSUME LosDosPlanificadores ==
    \A largo \in {"FIFO", "PMCP"} : \A r \in RolDelKernel :
       \A s \in SeccionesCon(largo)[r] :
          /\ EnOrden(s)
          /\ SueltaConGuardia(s, GuardiaCon(largo))
          /\ r \notin RolSinGuardia => UsaConGuardia(s, GuardiaCon(largo))

Simetria == Permutations(Hilo)
=============================================================================
