--------------------------- MODULE CerrojosProofs ---------------------------
(***************************************************************************)
(* For any threads, any mutexes and any sections that take them in order   *)
(* and use data under them: threads never wait in a circle and never use   *)
(* the same data at once.                                                  *)
(***************************************************************************)
EXTENDS CerrojosProps, TLAPS, WellFoundedInduction

\* Each thread runs a section of its role.
SeccionPropia ==
    \A h \in Hilo : seccion[h] \in {<<>>} \cup Secciones[rol[h]]

\* Whoever has a mutex took it in the section it runs.
Retenidos ==
    \A m \in Mutex, h \in Hilo : dueno[m] = h =>
       \E i \in 1..(paso[h] - 1) : Retiene(seccion[h], i, paso[h], m)

\* Whoever took a mutex that protects data, and has not unlocked it, has it.
Guardados ==
    \A h \in Hilo, d \in Dato : \A i \in 1..(paso[h] - 1) :
       Retiene(seccion[h], i, paso[h], Guardia[d]) => dueno[Guardia[d]] = h

IInv == TypeOK /\ SeccionPropia /\ Retenidos /\ Guardados

-----------------------------------------------------------------------------
\* A thread between two sections has a section of its role, or none, and its
\* step is just past the end.
LEMMA HiloTipado ==
    ASSUME TypeOK, SeccionPropia, NEW h \in Hilo
    PROVE  /\ rol[h] \in Rol
           /\ seccion[h] \in Seq(Paso)
           /\ seccion[h] = <<>> \/ seccion[h] \in Secciones[rol[h]]
           /\ paso[h] \in Nat \ {0} /\ paso[h] <= Len(seccion[h]) + 1
           /\ ~EnSeccion(h) => paso[h] = Len(seccion[h]) + 1
<1>1. rol[h] \in Rol
  BY CerrojosAssumption DEF TypeOK
<1>2. seccion[h] = <<>> \/ seccion[h] \in Secciones[rol[h]]
  BY DEF SeccionPropia
<1>3. seccion[h] \in Seq(Paso)
  <2>1. <<>> \in Seq(Paso)
    OBVIOUS
  <2>. QED  BY <2>1, <1>1, <1>2, CerrojosAssumption
<1>4. paso[h] \in Nat \ {0} /\ paso[h] <= Len(seccion[h]) + 1
  BY DEF TypeOK
<1>5. ~EnSeccion(h) => paso[h] = Len(seccion[h]) + 1
  BY <1>3, <1>4 DEF EnSeccion
<1>. QED  BY <1>1, <1>2, <1>3, <1>4, <1>5

\* A thread in a section: its step, and what is assumed of its section.
LEMMA PasoTipado ==
    ASSUME TypeOK, SeccionPropia, NEW h \in Hilo, EnSeccion(h)
    PROVE  /\ seccion[h] \in Secciones[rol[h]]
           /\ Actual(h) \in Paso
           /\ Actual(h).toma \in Mutex => Actual(h).suelta = {}
           /\ EnOrden(seccion[h])
           /\ SueltaConGuardia(seccion[h], Guardia)
           /\ rol[h] \notin SinGuardia => UsaConGuardia(seccion[h], Guardia)
<1>1. seccion[h] # <<>>
  BY DEF EnSeccion
<1>2. rol[h] \in Rol /\ seccion[h] \in Secciones[rol[h]]
  BY <1>1, HiloTipado
<1>3. Actual(h) \in Paso
  BY HiloTipado DEF Actual, EnSeccion
<1>4. /\ EnOrden(seccion[h])
      /\ Actual(h).toma \in Mutex => Actual(h).suelta = {}
  BY <1>2, CerrojosAssumption DEF Actual, EnSeccion
<1>5. /\ SueltaConGuardia(seccion[h], Guardia)
      /\ rol[h] \notin SinGuardia => UsaConGuardia(seccion[h], Guardia)
  BY <1>2, GuardiaAssumption
<1>. QED  BY <1>2, <1>3, <1>4, <1>5

\* What a thread retains after one step more.
LEMMA RetieneUnPasoMas ==
    ASSUME NEW s, NEW i \in Nat, NEW k \in Nat, NEW m
    PROVE  Retiene(s, i, k + 1, m) <=>
             \/ Retiene(s, i, k, m) /\ m \notin s[k].suelta
             \/ i = k /\ s[k].toma = m
<1>1. CASE i < k
  <2>1. (i + 1)..(k + 1 - 1) = ((i + 1)..(k - 1)) \cup {k}
    BY <1>1
  <2>. QED  BY <1>1, <2>1 DEF Retiene
<1>2. CASE i = k
  BY <1>2 DEF Retiene
<1>3. CASE i > k
  BY <1>3 DEF Retiene
<1>. QED  BY <1>1, <1>2, <1>3

-----------------------------------------------------------------------------
LEMMA InicioIInv == Init => IInv
<1>. SUFFICES ASSUME Init PROVE IInv
  OBVIOUS
<1>1. TypeOK
  BY DEF Init, TypeOK
<1>2. SeccionPropia
  BY DEF Init, SeccionPropia
<1>3. Retenidos
  BY CerrojosAssumption DEF Init, Retenidos
<1>4. Guardados
  BY DEF Init, Guardados
<1>. QED  BY <1>1, <1>2, <1>3, <1>4 DEF IInv

LEMMA EmpezarIInv ==
    ASSUME IInv, NEW g \in Hilo, Empezar(g)
    PROVE  IInv'
<1>. USE DEF IInv
<1>1. PICK s \in Secciones[rol[g]] : seccion' = [seccion EXCEPT ![g] = s]
  BY DEF Empezar
<1>2. /\ paso' = [paso EXCEPT ![g] = 1] /\ rol' = rol /\ dueno' = dueno
      /\ ~EnSeccion(g)
  BY DEF Empezar
<1>3. rol[g] \in Rol /\ s \in Seq(Paso)
  BY HiloTipado, CerrojosAssumption
<1>4. TypeOK'
  BY <1>1, <1>2, <1>3 DEF TypeOK
<1>5. SeccionPropia'
  BY <1>1, <1>2 DEF SeccionPropia, TypeOK
<1>6. \A m \in Mutex : dueno[m] # g
  <2>1. SUFFICES ASSUME NEW m \in Mutex, dueno[m] = g PROVE FALSE
    OBVIOUS
  <2>2. PICK i \in 1..(paso[g] - 1) : Retiene(seccion[g], i, paso[g], m)
    BY <2>1 DEF Retenidos
  <2>3. paso[g] = Len(seccion[g]) + 1 /\ seccion[g] \in Seq(Paso)
    BY <1>2, HiloTipado
  <2>4. i \in DOMAIN seccion[g] /\ seccion[g][i].toma = m
    BY <2>2, <2>3 DEF Retiene
  <2>5. seccion[g] # <<>>
    BY <2>4
  <2>6. EnOrden(seccion[g])
    BY <2>5, HiloTipado, CerrojosAssumption
  <2>7. PICK k \in (i + 1)..Len(seccion[g]) : m \in seccion[g][k].suelta
    BY <2>4, <2>6, CerrojosAssumption DEF EnOrden
  <2>8. k \in (i + 1)..(paso[g] - 1)
    BY <2>3, <2>7
  <2>. QED  BY <2>2, <2>7, <2>8 DEF Retiene
<1>7. Retenidos'
  BY <1>1, <1>2, <1>6 DEF Retenidos, TypeOK
<1>8. Guardados'
  <2>. SUFFICES ASSUME NEW h \in Hilo, NEW d \in Dato,
                       NEW i \in 1..(paso'[h] - 1),
                       Retiene(seccion'[h], i, paso'[h], Guardia[d])
                PROVE  dueno'[Guardia[d]] = h
    BY DEF Guardados
  <2>1. h # g
    BY <1>2 DEF TypeOK
  <2>. QED  BY <2>1, <1>1, <1>2 DEF Guardados, TypeOK
<1>. QED  BY <1>4, <1>5, <1>7, <1>8

LEMMA TomarIInv ==
    ASSUME IInv, NEW g \in Hilo, Tomar(g)
    PROVE  IInv'
<1>. USE DEF IInv
<1>. DEFINE m == Actual(g).toma
            k == paso[g]
<1>1. /\ EnSeccion(g) /\ m # Ninguno /\ dueno[m] = Ninguno
      /\ dueno' = [dueno EXCEPT ![m] = g] /\ paso' = [paso EXCEPT ![g] = k + 1]
      /\ seccion' = seccion /\ rol' = rol
  BY DEF Tomar, Avanzar
<1>2. m \in Mutex /\ Actual(g).suelta = {} /\ k \in Nat \ {0}
  BY <1>1, PasoTipado, HiloTipado DEF Paso
<1>3. TypeOK'
  <2>1. k + 1 <= Len(seccion[g]) + 1
    BY <1>1, HiloTipado DEF EnSeccion
  <2>. QED  BY <1>1, <1>2, <2>1 DEF TypeOK
<1>4. SeccionPropia'
  BY <1>1 DEF SeccionPropia
<1>5. Retenidos'
  <2>. SUFFICES ASSUME NEW n \in Mutex, NEW h \in Hilo, dueno'[n] = h
                PROVE  \E i \in 1..(paso'[h] - 1) :
                          Retiene(seccion[h], i, paso'[h], n)
    BY <1>1 DEF Retenidos
  <2>1. CASE h # g
    <3>1. n # m /\ dueno[n] = h /\ paso'[h] = paso[h]
      BY <2>1, <1>1, <1>2 DEF TypeOK
    <3>. QED  BY <3>1 DEF Retenidos
  <2>2. CASE h = g /\ n = m
    <3>1. k \in 1..(paso'[g] - 1) /\ paso'[g] = k + 1
      BY <1>1, <1>2 DEF TypeOK
    <3>2. Retiene(seccion[g], k, k + 1, m)
      BY <1>2, RetieneUnPasoMas DEF Actual
    <3>. QED  BY <2>2, <3>1, <3>2
  <2>3. CASE h = g /\ n # m
    <3>1. dueno[n] = g /\ paso'[g] = k + 1
      BY <2>3, <1>1, <1>2 DEF TypeOK
    <3>2. PICK i \in 1..(k - 1) : Retiene(seccion[g], i, k, n)
      BY <3>1 DEF Retenidos
    <3>3. Retiene(seccion[g], i, k + 1, n)
      BY <3>2, <1>2, RetieneUnPasoMas DEF Actual
    <3>4. i \in 1..(paso'[g] - 1)
      BY <3>1, <1>2
    <3>. QED  BY <2>3, <3>1, <3>3, <3>4
  <2>. QED  BY <2>1, <2>2, <2>3
<1>6. Guardados'
  <2>. SUFFICES ASSUME NEW h \in Hilo, NEW d \in Dato,
                       NEW i \in 1..(paso'[h] - 1),
                       Retiene(seccion[h], i, paso'[h], Guardia[d])
                PROVE  dueno'[Guardia[d]] = h
    BY <1>1 DEF Guardados
  <2>0. Guardia[d] \in Mutex
    BY GuardiaAssumption
  <2>1. CASE h # g
    <3>1. paso'[h] = paso[h] /\ dueno[Guardia[d]] = h
      BY <2>1, <1>1 DEF Guardados, TypeOK
    <3>2. Guardia[d] # m
      BY <3>1, <1>1, CerrojosAssumption
    <3>. QED  BY <3>1, <3>2, <1>1, <1>2, <2>0 DEF TypeOK
  <2>2. CASE h = g
    <3>1. paso'[g] = k + 1
      BY <1>1 DEF TypeOK
    <3>2. CASE i = k
      <4>1. Guardia[d] = m
        BY <3>1, <3>2, <2>2, <1>2, RetieneUnPasoMas DEF Actual, Retiene
      <4>. QED  BY <4>1, <2>2, <1>1, <1>2 DEF TypeOK
    <3>3. CASE i # k
      <4>1. i \in 1..(k - 1) /\ Retiene(seccion[g], i, k, Guardia[d])
        BY <3>1, <3>3, <2>2, <1>2, RetieneUnPasoMas
      <4>2. dueno[Guardia[d]] = g
        BY <4>1 DEF Guardados
      <4>3. Guardia[d] # m
        BY <4>2, <1>1, CerrojosAssumption
      <4>. QED  BY <4>2, <4>3, <2>2, <1>1, <1>2, <2>0 DEF TypeOK
    <3>. QED  BY <3>2, <3>3
  <2>. QED  BY <2>1, <2>2
<1>. QED  BY <1>3, <1>4, <1>5, <1>6

LEMMA SoltarIInv ==
    ASSUME IInv, NEW g \in Hilo, SoltarOUsar(g)
    PROVE  IInv'
<1>. USE DEF IInv
<1>. DEFINE k == paso[g]
            suelta == Actual(g).suelta
<1>1. /\ EnSeccion(g) /\ Actual(g).toma = Ninguno
      /\ dueno' = [m \in Mutex |-> IF m \in suelta THEN Ninguno ELSE dueno[m]]
      /\ paso' = [paso EXCEPT ![g] = k + 1]
      /\ seccion' = seccion /\ rol' = rol
  BY DEF SoltarOUsar, Avanzar
<1>2. k \in Nat \ {0}
  BY HiloTipado
<1>3. TypeOK'
  <2>1. k + 1 <= Len(seccion[g]) + 1
    BY <1>1, HiloTipado DEF EnSeccion
  <2>. QED  BY <1>1, <1>2, <2>1 DEF TypeOK
<1>4. SeccionPropia'
  BY <1>1 DEF SeccionPropia
<1>5. Retenidos'
  <2>. SUFFICES ASSUME NEW n \in Mutex, NEW h \in Hilo, dueno'[n] = h
                PROVE  \E i \in 1..(paso'[h] - 1) :
                          Retiene(seccion[h], i, paso'[h], n)
    BY <1>1 DEF Retenidos
  <2>1. n \notin suelta /\ dueno[n] = h
    BY <1>1, CerrojosAssumption
  <2>2. PICK i \in 1..(paso[h] - 1) : Retiene(seccion[h], i, paso[h], n)
    BY <2>1 DEF Retenidos
  <2>3. CASE h # g
    BY <2>2, <2>3, <1>1 DEF TypeOK
  <2>4. CASE h = g
    <3>1. Retiene(seccion[g], i, k + 1, n)
      BY <2>1, <2>2, <2>4, <1>2, RetieneUnPasoMas DEF Actual
    <3>2. paso'[g] = k + 1 /\ i \in 1..(paso'[g] - 1)
      BY <2>2, <2>4, <1>1, <1>2 DEF TypeOK
    <3>. QED  BY <2>4, <3>1, <3>2
  <2>. QED  BY <2>3, <2>4
<1>6. Guardados'
  <2>. SUFFICES ASSUME NEW h \in Hilo, NEW d \in Dato,
                       NEW i \in 1..(paso'[h] - 1),
                       Retiene(seccion[h], i, paso'[h], Guardia[d])
                PROVE  dueno'[Guardia[d]] = h
    BY <1>1 DEF Guardados
  <2>0. Guardia[d] \in Mutex
    BY GuardiaAssumption
  <2>1. CASE h # g
    <3>1. dueno[Guardia[d]] = h
      BY <2>1, <1>1 DEF Guardados, TypeOK
    <3>2. Guardia[d] \notin suelta
      <4>1. SUFFICES ASSUME Guardia[d] \in suelta PROVE FALSE
        OBVIOUS
      <4>2. k \in DOMAIN seccion[g] /\ Guardia[d] \in seccion[g][k].suelta
        BY <4>1, <1>1 DEF EnSeccion, Actual
      <4>3. d \in DOMAIN Guardia
        BY GuardiaAssumption
      <4>4. PICK j \in 1..(k - 1) : Retiene(seccion[g], j, k, Guardia[d])
        BY <4>2, <4>3, <1>1, PasoTipado DEF SueltaConGuardia
      <4>5. dueno[Guardia[d]] = g
        BY <4>4 DEF Guardados
      <4>. QED  BY <4>5, <3>1, <2>1
    <3>. QED  BY <3>1, <3>2, <1>1, <2>0
  <2>2. CASE h = g
    <3>1. paso'[g] = k + 1
      BY <1>1 DEF TypeOK
    <3>2. Retiene(seccion[g], i, k, Guardia[d]) /\ Guardia[d] \notin suelta
      <4>1. Guardia[d] # Actual(g).toma
        BY <1>1, <2>0, CerrojosAssumption
      <4>2. i \in Nat /\ Retiene(seccion[g], i, k + 1, Guardia[d])
        BY <1>1, <2>2, <3>1
      <4>. QED  BY <4>1, <4>2, <1>2, RetieneUnPasoMas DEF Actual
    <3>3. i \in 1..(k - 1)
      BY <3>2, <1>2 DEF Retiene
    <3>4. dueno[Guardia[d]] = g
      BY <3>2, <3>3 DEF Guardados
    <3>. QED  BY <3>2, <3>4, <2>2, <1>1, <2>0
  <2>. QED  BY <2>1, <2>2
<1>. QED  BY <1>3, <1>4, <1>5, <1>6

\* The invariant holds in every behaviour.
LEMMA InvarianteDeCerrojos == Spec => []IInv
<1>1. IInv /\ [Next]_vars => IInv'
  <2>. SUFFICES ASSUME IInv, [Next]_vars PROVE IInv'
    OBVIOUS
  <2>1. ASSUME NEW h \in Hilo, Empezar(h) PROVE IInv'
    BY <2>1, EmpezarIInv
  <2>2. ASSUME NEW h \in Hilo, Tomar(h) PROVE IInv'
    BY <2>2, TomarIInv
  <2>3. ASSUME NEW h \in Hilo, SoltarOUsar(h) PROVE IInv'
    BY <2>3, SoltarIInv
  <2>4. ASSUME UNCHANGED vars PROVE IInv'
    BY <2>4 DEF vars, IInv, TypeOK, SeccionPropia, Retenidos, Guardados
  <2>. QED  BY <2>1, <2>2, <2>3, <2>4 DEF Next
<1>. QED  BY InicioIInv, <1>1, PTL DEF Spec

-----------------------------------------------------------------------------
\* Whoever waits for a thread that waits too waits for a mutex of a higher
\* rank than the other one.
LEMMA EsperasEnOrden ==
    ASSUME IInv, NEW h \in Hilo, NEW g \in Hilo,
           EsperaA(h, g), EnSeccion(g), Actual(g).toma # Ninguno
    PROVE  Rango[Actual(g).toma] < Rango[Actual(h).toma]
<1>. DEFINE m == Actual(h).toma
<1>1. m \in Mutex /\ dueno[m] = g
  BY PasoTipado DEF EsperaA, IInv, Paso
<1>2. PICK i \in 1..(paso[g] - 1) : Retiene(seccion[g], i, paso[g], m)
  BY <1>1 DEF IInv, Retenidos
<1>3. seccion[g][i].toma = m /\ m # Ninguno
  BY <1>1, <1>2, CerrojosAssumption DEF Retiene
<1>4. EnOrden(seccion[g]) /\ paso[g] \in DOMAIN seccion[g]
  BY PasoTipado DEF IInv, EnSeccion
<1>. QED  BY <1>2, <1>3, <1>4 DEF EnOrden, Actual

\* However many threads there are and whichever mutexes they take, in the
\* order of Rango, no set of them waits in a circle.
THEOREM NuncaEnCirculo == Spec => []SinEsperaCircular
<1>1. IInv => SinEsperaCircular
  <2>. SUFFICES ASSUME IInv, NEW S \in (SUBSET Hilo) \ {{}},
                       \A h \in S : \E g \in S : EsperaA(h, g)
                PROVE  FALSE
    BY DEF SinEsperaCircular
  <2>. DEFINE R == {Rango[Actual(h).toma] : h \in S}
  <2>1. \A h \in S : EnSeccion(h) /\ Actual(h).toma \in Mutex
    BY PasoTipado DEF EsperaA, IInv, Paso
  <2>2. R \subseteq Nat /\ R # {}
    <3>1. \A m \in Mutex : Rango[m] \in Nat
      BY CerrojosAssumption
    <3>2. \A h \in S : Rango[Actual(h).toma] \in Nat
      BY <2>1, <3>1
    <3>3. S # {}
      OBVIOUS
    <3>. QED  BY <3>2, <3>3
  <2>3. PICK n \in R : \A r \in R : <<r, n>> \notin OpToRel(<, Nat)
    BY <2>2, NatLessThanWellFounded, WFMin
  <2>4. PICK h \in S : n = Rango[Actual(h).toma]
    OBVIOUS
  <2>5. PICK g \in S : EsperaA(h, g)
    OBVIOUS
  <2>6. Rango[Actual(g).toma] < n
    BY <2>1, <2>4, <2>5, EsperasEnOrden, CerrojosAssumption
  <2>7. Rango[Actual(g).toma] \in R /\ n \in Nat
    BY <2>2
  <2>. QED  BY <2>2, <2>3, <2>6, <2>7 DEF OpToRel
<1>. QED  BY InvarianteDeCerrojos, <1>1, PTL

\* However many threads there are, no two use the same data at once, if each
\* uses it under the mutex that protects it and unlocks no such mutex of
\* others: it may unlock those that protect nothing.
THEOREM DatosSiempreExcluidos == Spec => []DatosExcluidos
<1>1. IInv => DatosExcluidos
  <2>. SUFFICES ASSUME IInv, NEW h \in Hilo, NEW g \in Hilo, h # g,
                       EnSeccion(h), EnSeccion(g),
                       {rol[h], rol[g]} \cap SinGuardia = {},
                       NEW d \in Actual(h).usa \cap Actual(g).usa
                PROVE  FALSE
    BY DEF DatosExcluidos
  <2>1. d \in Dato
    BY PasoTipado DEF IInv, Paso
  <2>2. ASSUME NEW t \in {h, g} PROVE dueno[Guardia[d]] = t
    <3>1. UsaConGuardia(seccion[t], Guardia)
      BY PasoTipado DEF IInv
    <3>2. paso[t] \in DOMAIN seccion[t] /\ d \in seccion[t][paso[t]].usa
      BY DEF EnSeccion, Actual
    <3>3. PICK i \in 1..(paso[t] - 1) :
             Retiene(seccion[t], i, paso[t], Guardia[d])
      BY <3>1, <3>2 DEF UsaConGuardia
    <3>. QED  BY <2>1, <3>3 DEF IInv, Guardados
  <2>. QED  BY <2>2
<1>. QED  BY InvarianteDeCerrojos, <1>1, PTL

\* The mutexes, the sections and the steps keep their types.
THEOREM CerrojosTipados == Spec => []TypeOK
<1>1. IInv => TypeOK
  BY DEF IInv
<1>. QED  BY InvarianteDeCerrojos, <1>1, PTL
=============================================================================
