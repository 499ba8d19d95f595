---------------------------- MODULE MemoriaProofs ----------------------------
(***************************************************************************)
(* The frames and the swap file of memoria, for any processes, sizes and   *)
(* number of frames: frames and slots are neither lost nor shared, the     *)
(* file stays bounded, and memoria implements the pages that processes see.*)
(*                                                                         *)
(* MarcosRepartidos is inductive together with the types, with the two     *)
(* process lists being disjoint (otherwise a process would come back from  *)
(* swap over the frames it has) and with the swap file having one slot per *)
(* entry of lista_swap (otherwise a slot could be read that is not there). *)
(* InvSwap adds the slots of every process and the bound of the file.  The *)
(* bound needs the slots: the file only grows when no hole is left, and    *)
(* then each slot is a page of a process that is swapped out.              *)
(***************************************************************************)
EXTENDS MemoriaProps, Listas

Inv == /\ TypeOK
       /\ ListasDisjuntas
       /\ Len(swapfile) = Len(lista_swap)
       /\ MarcosRepartidos

\* What n first-fit searches give is an injection into the set searched.
LEMMA Primeros ==
    ASSUME NEW S \in SUBSET Int, NEW n \in Nat, NEW f \in PrimerosDe(S, n)
    PROVE  /\ f \in [1..n -> S]
           /\ \A i, j \in 1..n : i # j => f[i] # f[j]
<1>1. f \in [1..n -> S] /\ \A i, j \in 1..n : i < j => f[i] < f[j]
  BY DEF PrimerosDe
<1>2. ASSUME NEW i \in 1..n, NEW j \in 1..n, i # j
      PROVE  f[i] # f[j]
  <2>1. f[i] \in Int /\ f[j] \in Int
    BY <1>1
  <2>2. CASE i < j
    BY <1>1, <2>1, <2>2
  <2>3. CASE j < i
    BY <1>1, <2>1, <2>3
  <2> QED
    BY <1>2, <2>2, <2>3
<1> QED
  BY <1>1, <1>2

\* The frames are numbered from 0.
LEMMA MarcosEnteros == Bits \in Nat /\ Marco \subseteq Nat
<1>1. (Marcos + Byte - 1) \div Byte \in Nat
  BY MemoriaAssumption, Z3
<1> QED
  BY <1>1, MemoriaAssumption DEF Bits, Marco

LEMMA Inicio == Init => Inv
<1> SUFFICES ASSUME Init PROVE Inv
  OBVIOUS
<1>1. TypeOK
  BY MemoriaAssumption DEF Init, TypeOK
<1>2. MarcosRepartidos
  BY DEF Init, MarcosRepartidos, Imagen
<1> QED
  BY <1>1, <1>2 DEF Init, Inv, ListasDisjuntas

-----------------------------------------------------------------------------
(* A process takes free frames: its creation and its return from swap. *)

LEMMA TomaMarcos ==
    ASSUME Inv, NEW p \in Pid \ procesos_memoria,
           NEW f \in PrimerosDe(Libres, Paginas[p]),
           tabla' = [tabla EXCEPT ![p] = f],
           bit_marcos' = bit_marcos \cup Imagen(f),
           procesos_memoria' = procesos_memoria \cup {p}
    PROVE  /\ MarcosRepartidos'
           /\ tabla' \in [Pid -> Seq(Marco \cup {-1})]
           /\ bit_marcos' \in SUBSET Marco
<1> DEFINE n == Paginas[p]
<1>1. n \in Nat
  BY MemoriaAssumption
<1>2. Libres \in SUBSET Int /\ Libres \subseteq Marco
        /\ Libres \cap bit_marcos = {}
  <2>1. Libres \subseteq Marco /\ Libres \cap bit_marcos = {}
    BY DEF Libres
  <2>2. Marco \subseteq Int
    BY MarcosEnteros
  <2> QED
    BY <2>1, <2>2
<1>3. /\ f \in [1..n -> Libres]
      /\ \A i, j \in 1..n : i # j => f[i] # f[j]
  BY <1>1, <1>2, Primeros
<1>4. Imagen(f) \subseteq Libres /\ \A i \in 1..n : f[i] \in Imagen(f)
  BY <1>3 DEF Imagen
<1>5. tabla \in [Pid -> Seq(Marco \cup {-1})] /\ bit_marcos \in SUBSET Marco
  BY DEF Inv, TypeOK
<1>6. f \in Seq(Marco \cup {-1})
  <2>1. f \in [1..n -> Marco \cup {-1}]
    BY <1>2, <1>3
  <2> QED
    BY <1>1, <2>1
<1>7. /\ tabla'[p] = f
      /\ \A q \in Pid : q # p => tabla'[q] = tabla[q]
  BY <1>5
<1>8. MarcosRepartidos
  BY DEF Inv
<1>9. ASSUME NEW q \in procesos_memoria
      PROVE  Imagen(tabla[q]) \subseteq bit_marcos
  <2>1. /\ DOMAIN tabla[q] = 1..Paginas[q]
        /\ \A i \in 1..Paginas[q] : tabla[q][i] \in bit_marcos
    BY <1>8 DEF MarcosRepartidos
  <2> QED
    BY <2>1 DEF Imagen
<1>10. ASSUME NEW q \in procesos_memoria'
       PROVE  /\ DOMAIN tabla'[q] = 1..Paginas[q]
              /\ \A i \in 1..Paginas[q] : tabla'[q][i] \in bit_marcos'
              /\ \A i, j \in 1..Paginas[q] :
                    i # j => tabla'[q][i] # tabla'[q][j]
  <2>1. CASE q = p
    <3>1. tabla'[q] = f /\ n = Paginas[q]
      BY <2>1, <1>7
    <3>2. DOMAIN f = 1..n
      BY <1>3
    <3>3. \A i \in 1..n : f[i] \in bit_marcos'
      BY <1>4
    <3> QED
      BY <3>1, <3>2, <3>3, <1>3
  <2>2. CASE q # p
    <3>1. q \in procesos_memoria /\ q \in Pid
      BY <2>2 DEF Inv, TypeOK
    <3>2. tabla'[q] = tabla[q]
      BY <2>2, <3>1, <1>7
    <3>3. /\ DOMAIN tabla[q] = 1..Paginas[q]
          /\ \A i \in 1..Paginas[q] : tabla[q][i] \in bit_marcos
          /\ \A i, j \in 1..Paginas[q] : i # j => tabla[q][i] # tabla[q][j]
      BY <3>1, <1>8 DEF MarcosRepartidos
    <3> QED
      BY <3>2, <3>3
  <2> QED
    BY <2>1, <2>2
<1>11. ASSUME NEW q \in procesos_memoria', NEW r \in procesos_memoria', q # r
       PROVE  Imagen(tabla'[q]) \cap Imagen(tabla'[r]) = {}
  <2>1. procesos_memoria \subseteq Pid
    BY DEF Inv, TypeOK
  <2>2. CASE q = p
    <3>1. r \in procesos_memoria /\ tabla'[r] = tabla[r]
      BY <2>1, <2>2, <1>7, <1>11
    <3> QED
      BY <2>2, <3>1, <1>2, <1>4, <1>7, <1>9
  <2>3. CASE r = p
    <3>1. q \in procesos_memoria /\ tabla'[q] = tabla[q]
      BY <2>1, <2>3, <1>7, <1>11
    <3> QED
      BY <2>3, <3>1, <1>2, <1>4, <1>7, <1>9
  <2>4. CASE q # p /\ r # p
    <3>1. q \in procesos_memoria /\ r \in procesos_memoria
      BY <2>4
    <3>2. tabla'[q] = tabla[q] /\ tabla'[r] = tabla[r]
      BY <2>1, <2>4, <3>1, <1>7
    <3> QED
      BY <3>1, <3>2, <1>8, <1>11 DEF MarcosRepartidos
  <2> QED
    BY <2>2, <2>3, <2>4
<1>12. ASSUME NEW m \in bit_marcos'
       PROVE  \E q \in procesos_memoria' : m \in Imagen(tabla'[q])
  <2>1. CASE m \in Imagen(f)
    BY <2>1, <1>7
  <2>2. CASE m \in bit_marcos
    <3>1. PICK q \in procesos_memoria : m \in Imagen(tabla[q])
      BY <2>2, <1>8 DEF MarcosRepartidos
    <3>2. q \in Pid /\ q # p
      BY DEF Inv, TypeOK
    <3> QED
      BY <3>1, <3>2, <1>7
  <2> QED
    BY <2>1, <2>2
<1>13. ASSUME NEW q \in Pid \ procesos_memoria'
       PROVE  Imagen(tabla'[q]) \subseteq {-1}
  BY <1>7, <1>8 DEF MarcosRepartidos
<1>14. MarcosRepartidos'
  BY <1>10, <1>11, <1>12, <1>13 DEF MarcosRepartidos
<1>15. bit_marcos' \in SUBSET Marco
  BY <1>2, <1>4, <1>5
<1>16. tabla' \in [Pid -> Seq(Marco \cup {-1})]
  BY <1>5, <1>6
<1> QED
  BY <1>14, <1>15, <1>16

(* A process gives its frames back: it goes to swap or it ends. *)

LEMMA DejaMarcos ==
    ASSUME Inv, NEW p \in Pid, NEW t \in Seq(Marco \cup {-1}),
           Imagen(t) \subseteq {-1},
           tabla' = [tabla EXCEPT ![p] = t],
           bit_marcos' = bit_marcos \ Imagen(tabla[p]),
           procesos_memoria' = procesos_memoria \ {p}
    PROVE  /\ MarcosRepartidos'
           /\ tabla' \in [Pid -> Seq(Marco \cup {-1})]
           /\ bit_marcos' \in SUBSET Marco
<1>1. /\ tabla \in [Pid -> Seq(Marco \cup {-1})]
      /\ bit_marcos \in SUBSET Marco
      /\ procesos_memoria \in SUBSET Pid
  BY DEF Inv, TypeOK
<1>2. MarcosRepartidos
  BY DEF Inv
<1>3. /\ tabla'[p] = t
      /\ \A q \in Pid : q # p => tabla'[q] = tabla[q]
  BY <1>1
<1>4. ASSUME NEW q \in procesos_memoria'
      PROVE  /\ q \in procesos_memoria /\ tabla'[q] = tabla[q]
             /\ Imagen(tabla[q]) \cap Imagen(tabla[p]) = {}
  <2>1. q \in procesos_memoria /\ q # p /\ tabla'[q] = tabla[q]
    BY <1>1, <1>3
  <2>2. CASE p \in procesos_memoria
    BY <2>1, <2>2, <1>2 DEF MarcosRepartidos
  <2>3. CASE p \notin procesos_memoria
    <3>1. Imagen(tabla[p]) \subseteq {-1}
      BY <2>3, <1>2 DEF MarcosRepartidos
    <3>2. Imagen(tabla[q]) \subseteq Marco
      BY <2>1, <1>1, <1>2 DEF MarcosRepartidos, Imagen
    <3>3. -1 \notin Marco
      BY MarcosEnteros
    <3> QED
      BY <2>1, <3>1, <3>2, <3>3
  <2> QED
    BY <2>1, <2>2, <2>3
<1>5. ASSUME NEW q \in procesos_memoria'
      PROVE  /\ DOMAIN tabla'[q] = 1..Paginas[q]
             /\ \A i \in 1..Paginas[q] : tabla'[q][i] \in bit_marcos'
             /\ \A i, j \in 1..Paginas[q] :
                   i # j => tabla'[q][i] # tabla'[q][j]
  <2>1. /\ DOMAIN tabla[q] = 1..Paginas[q]
        /\ \A i \in 1..Paginas[q] : tabla[q][i] \in bit_marcos
        /\ \A i, j \in 1..Paginas[q] : i # j => tabla[q][i] # tabla[q][j]
    BY <1>2, <1>4 DEF MarcosRepartidos
  <2>2. \A i \in 1..Paginas[q] : tabla[q][i] \notin Imagen(tabla[p])
    BY <2>1, <1>4 DEF Imagen
  <2> QED
    BY <2>1, <2>2, <1>4
<1>6. ASSUME NEW q \in procesos_memoria', NEW r \in procesos_memoria', q # r
      PROVE  Imagen(tabla'[q]) \cap Imagen(tabla'[r]) = {}
  <2>1. tabla'[q] = tabla[q] /\ tabla'[r] = tabla[r]
    BY <1>4
  <2>2. q \in procesos_memoria /\ r \in procesos_memoria
    BY <1>4
  <2> QED
    BY <2>1, <2>2, <1>2, <1>6 DEF MarcosRepartidos
<1>7. ASSUME NEW m \in bit_marcos'
      PROVE  \E q \in procesos_memoria' : m \in Imagen(tabla'[q])
  <2>1. PICK q \in procesos_memoria : m \in Imagen(tabla[q])
    BY <1>2 DEF MarcosRepartidos
  <2>2. q \in Pid /\ q # p
    BY <1>1, <2>1
  <2> QED
    BY <2>1, <2>2, <1>3
<1>8. ASSUME NEW q \in Pid \ procesos_memoria'
      PROVE  Imagen(tabla'[q]) \subseteq {-1}
  BY <1>2, <1>3 DEF MarcosRepartidos
<1>9. MarcosRepartidos'
  BY <1>5, <1>6, <1>7, <1>8 DEF MarcosRepartidos
<1> QED
  BY <1>1, <1>9

-----------------------------------------------------------------------------
(* One step lemma per request. *)

LEMMA PasoIniciar ==
    ASSUME Inv, NEW p \in Pid, IniciarProceso(p) PROVE Inv'
<1> USE DEF listaVars, swapVars, marcoVars
<1>1. p \notin procesos_memoria /\ p \notin procesos_swap
  BY DEF Inv, ListasDisjuntas, IniciarProceso
<1>2. PICK f \in PrimerosDe(Libres, Paginas[p]) :
         /\ tabla' = [tabla EXCEPT ![p] = f]
         /\ bit_marcos' = bit_marcos \cup Imagen(f)
  BY DEF IniciarProceso
<1>3. procesos_memoria' = procesos_memoria \cup {p}
  BY DEF IniciarProceso
<1>4. /\ MarcosRepartidos'
      /\ tabla' \in [Pid -> Seq(Marco \cup {-1})]
      /\ bit_marcos' \in SUBSET Marco
  BY <1>1, <1>2, <1>3, TomaMarcos
<1>5. TypeOK'
  BY <1>3, <1>4 DEF Inv, TypeOK, IniciarProceso
<1>6. ListasDisjuntas' /\ Len(swapfile)' = Len(lista_swap)'
  BY <1>1 DEF Inv, ListasDisjuntas, IniciarProceso
<1> QED
  BY <1>4, <1>5, <1>6 DEF Inv

LEMMA SinSlots ==
    ASSUME Inv, NEW p \in Pid
    PROVE  /\ SinSlotsDe(p) \in Seq(Pid \cup {-1})
           /\ Len(SinSlotsDe(p)) = Len(lista_swap)
<1>1. lista_swap \in Seq(Pid \cup {-1})
  BY DEF Inv, TypeOK
<1>2. /\ DOMAIN lista_swap = 1..Len(lista_swap)
      /\ Len(lista_swap) \in Nat
      /\ \A i \in 1..Len(lista_swap) : lista_swap[i] \in Pid \cup {-1}
  BY <1>1
<1>3. SinSlotsDe(p) \in [1..Len(lista_swap) -> Pid \cup {-1}]
  BY <1>2 DEF SinSlotsDe
<1> QED
  BY <1>2, <1>3

LEMMA PasoFin ==
    ASSUME Inv, NEW p \in Pid, FinProceso(p) PROVE Inv'
<1>1. /\ tabla' = [tabla EXCEPT ![p] = <<>>]
      /\ bit_marcos' = bit_marcos \ Imagen(tabla[p])
      /\ procesos_memoria' = procesos_memoria \ {p}
      /\ UNCHANGED <<espacio_usuario, creados, swapfile, volcado>>
      /\ procesos_swap' \subseteq procesos_swap
  BY DEF FinProceso
<1>2. <<>> \in Seq(Marco \cup {-1}) /\ Imagen(<<>>) \subseteq {-1}
  BY DEF Imagen
<1>3. /\ MarcosRepartidos'
      /\ tabla' \in [Pid -> Seq(Marco \cup {-1})]
      /\ bit_marcos' \in SUBSET Marco
  BY <1>1, <1>2, DejaMarcos
<1>4. \/ lista_swap' = lista_swap
      \/ lista_swap' = SinSlotsDe(p)
  BY DEF FinProceso
<1>5. lista_swap' \in Seq(Pid \cup {-1}) /\ Len(lista_swap') = Len(lista_swap)
  BY <1>4, SinSlots DEF Inv, TypeOK
<1>6. TypeOK'
  BY <1>1, <1>3, <1>5 DEF Inv, TypeOK
<1>7. ListasDisjuntas' /\ Len(swapfile)' = Len(lista_swap)'
  BY <1>1, <1>5 DEF Inv, ListasDisjuntas
<1> QED
  BY <1>3, <1>6, <1>7 DEF Inv

\* The pages of a process in memory are in real frames.
LEMMA PaginasEnMarcos ==
    ASSUME Inv, NEW p \in procesos_memoria, NEW i \in 1..Paginas[p]
    PROVE  tabla[p][i] \in Marco /\ espacio_usuario[tabla[p][i]] \in Valor
<1>1. tabla[p][i] \in bit_marcos
  BY DEF Inv, MarcosRepartidos
<1> QED
  BY <1>1 DEF Inv, TypeOK

LEMMA PasoEnviar ==
    ASSUME Inv, NEW p \in Pid, EnviarASwap(p) PROVE Inv'
<1> DEFINE n == Paginas[p]
<1>1. p \in procesos_memoria /\ n \in Nat
  BY MemoriaAssumption DEF EnviarASwap
<1>2. PICK g \in EspaciosSwap(n),
           fin \in Len(lista_swap)..(Len(lista_swap) + n) :
         /\ DOMAIN lista_swap \cup Imagen(g) = 1..fin
         /\ lista_swap' = [i \in 1..fin |->
                IF i \in Imagen(g) THEN p ELSE lista_swap[i]]
         /\ swapfile' = [i \in 1..fin |->
                IF i \in Imagen(g)
                THEN espacio_usuario[tabla[p][CHOOSE k \in 1..n : g[k] = i]]
                ELSE swapfile[i]]
  BY DEF EnviarASwap
<1>3. /\ tabla' = [tabla EXCEPT ![p] = [i \in 1..n |-> -1]]
      /\ bit_marcos' = bit_marcos \ Imagen(tabla[p])
      /\ procesos_memoria' = procesos_memoria \ {p}
      /\ procesos_swap' = procesos_swap \cup {p}
      /\ UNCHANGED <<espacio_usuario, creados, volcado>>
  BY DEF EnviarASwap
<1>4. /\ [i \in 1..n |-> -1] \in Seq(Marco \cup {-1})
      /\ Imagen([i \in 1..n |-> -1]) \subseteq {-1}
  BY <1>1 DEF Imagen
<1>5. /\ MarcosRepartidos'
      /\ tabla' \in [Pid -> Seq(Marco \cup {-1})]
      /\ bit_marcos' \in SUBSET Marco
  BY <1>3, <1>4, DejaMarcos
<1>6. /\ Len(lista_swap) \in Nat /\ Len(swapfile) = Len(lista_swap)
      /\ DOMAIN lista_swap = 1..Len(lista_swap)
      /\ DOMAIN swapfile = 1..Len(lista_swap)
      /\ \A i \in 1..Len(lista_swap) : /\ lista_swap[i] \in Pid \cup {-1}
                                       /\ swapfile[i] \in Valor
  BY DEF Inv, TypeOK
<1>7. fin \in Nat
  BY <1>1, <1>6
<1>8. ASSUME NEW i \in 1..fin, i \notin Imagen(g)
      PROVE  i \in 1..Len(lista_swap)
  BY <1>2, <1>6, <1>8
<1>9. lista_swap' \in [1..fin -> Pid \cup {-1}]
  BY <1>2, <1>6, <1>8
<1>10. DOMAIN g = 1..n
  <2>1. n \in Nat /\ g \in PrimerosDe(Huecos(n), n)
    BY <1>1, <1>2 DEF EspaciosSwap
  <2> QED
    BY <2>1 DEF PrimerosDe
<1>11. ASSUME NEW i \in 1..fin
       PROVE  (IF i \in Imagen(g)
               THEN espacio_usuario[tabla[p][CHOOSE k \in 1..n : g[k] = i]]
               ELSE swapfile[i]) \in Valor
  <2>1. CASE i \in Imagen(g)
    <3>1. \E k \in 1..n : g[k] = i
      BY <2>1, <1>10 DEF Imagen
    <3>2. (CHOOSE k \in 1..n : g[k] = i) \in 1..n
      BY <3>1
    <3> QED
      BY <2>1, <3>2, <1>1, PaginasEnMarcos
  <2>2. CASE i \notin Imagen(g)
    BY <2>2, <1>6, <1>8
  <2> QED
    BY <2>1, <2>2
<1>12. swapfile' \in [1..fin -> Valor]
  BY <1>2, <1>11
<1>13. /\ lista_swap' \in Seq(Pid \cup {-1}) /\ swapfile' \in Seq(Valor)
       /\ Len(lista_swap') = fin /\ Len(swapfile') = fin
  BY <1>7, <1>9, <1>12
<1>14. TypeOK'
  BY <1>3, <1>5, <1>13 DEF Inv, TypeOK
<1>15. ListasDisjuntas' /\ Len(swapfile)' = Len(lista_swap)'
  BY <1>1, <1>3, <1>13 DEF Inv, ListasDisjuntas
<1> QED
  BY <1>5, <1>14, <1>15 DEF Inv

LEMMA PasoSacar ==
    ASSUME Inv, NEW p \in Pid, SacarDeSwap(p) PROVE Inv'
<1> DEFINE n == Paginas[p]
<1>1. p \in procesos_swap /\ p \notin procesos_memoria /\ n \in Nat
  BY MemoriaAssumption DEF SacarDeSwap, Inv, ListasDisjuntas
<1>2. PICK f \in PrimerosDe(Libres, n), g \in PrimerosDe(SlotsDe(p), n) :
         /\ tabla' = [tabla EXCEPT ![p] = f]
         /\ bit_marcos' = bit_marcos \cup Imagen(f)
         /\ espacio_usuario' = [m \in Marco |->
                IF m \in Imagen(f)
                THEN swapfile[g[CHOOSE k \in 1..n : f[k] = m]]
                ELSE espacio_usuario[m]]
  BY DEF SacarDeSwap
<1>3. /\ lista_swap' = SinSlotsDe(p)
      /\ procesos_memoria' = procesos_memoria \cup {p}
      /\ procesos_swap' = procesos_swap \ {p}
      /\ UNCHANGED <<creados, swapfile, volcado>>
  BY DEF SacarDeSwap
<1>4. /\ MarcosRepartidos'
      /\ tabla' \in [Pid -> Seq(Marco \cup {-1})]
      /\ bit_marcos' \in SUBSET Marco
  BY <1>1, <1>2, <1>3, TomaMarcos
<1>5. DOMAIN f = 1..n /\ g \in [1..n -> SlotsDe(p)]
  BY <1>1, <1>2 DEF PrimerosDe
<1>6. \A i \in SlotsDe(p) : swapfile[i] \in Valor
  <2>1. swapfile \in Seq(Valor) /\ lista_swap \in Seq(Pid \cup {-1})
    BY DEF Inv, TypeOK
  <2>2. DOMAIN lista_swap = 1..Len(swapfile)
    BY <2>1 DEF Inv
  <2> QED
    BY <2>1, <2>2 DEF SlotsDe
<1>7. ASSUME NEW m \in Marco
      PROVE  (IF m \in Imagen(f)
              THEN swapfile[g[CHOOSE k \in 1..n : f[k] = m]]
              ELSE espacio_usuario[m]) \in Valor
  <2>1. CASE m \in Imagen(f)
    <3>1. \E k \in 1..n : f[k] = m
      BY <2>1, <1>5 DEF Imagen
    <3>2. (CHOOSE k \in 1..n : f[k] = m) \in 1..n
      BY <3>1
    <3> QED
      BY <2>1, <3>2, <1>5, <1>6
  <2>2. CASE m \notin Imagen(f)
    BY <2>2 DEF Inv, TypeOK
  <2> QED
    BY <2>1, <2>2
<1>8. espacio_usuario' \in [Marco -> Valor]
  BY <1>2, <1>7
<1>9. /\ lista_swap' \in Seq(Pid \cup {-1})
      /\ Len(lista_swap') = Len(lista_swap)
  BY <1>3, SinSlots
<1>10. TypeOK'
  BY <1>3, <1>4, <1>8, <1>9 DEF Inv, TypeOK
<1>11. ListasDisjuntas' /\ Len(swapfile)' = Len(lista_swap)'
  BY <1>1, <1>3, <1>9 DEF Inv, ListasDisjuntas
<1> QED
  BY <1>4, <1>10, <1>11 DEF Inv

\* A step that leaves frames, tables, lists and swap alone.
LEMMA PasoQuieto ==
    ASSUME Inv, TypeOK',
           UNCHANGED <<bit_marcos, tabla, listaVars, swapVars>>
    PROVE  Inv'
<1>1. UNCHANGED <<bit_marcos, tabla, procesos_memoria, procesos_swap, creados,
                  lista_swap, swapfile>>
  BY DEF listaVars, swapVars
<1>2. MarcosRepartidos'
  <2>1. MarcosRepartidos
    BY DEF Inv
  <2> QED
    BY <1>1, <2>1 DEF MarcosRepartidos
<1>3. ListasDisjuntas' /\ (Len(swapfile) = Len(lista_swap))'
  BY <1>1 DEF Inv, ListasDisjuntas
<1> QED
  BY <1>2, <1>3 DEF Inv

LEMMA PasoDump ==
    ASSUME Inv, NEW p \in Pid, DumpDeMemoria(p) PROVE Inv'
<1> DEFINE n == Paginas[p]
<1>1. p \in procesos_memoria /\ n \in Nat
  BY MemoriaAssumption DEF DumpDeMemoria
<1>2. volcado' = [i \in 1..n |-> espacio_usuario[tabla[p][i]]]
  BY DEF DumpDeMemoria
<1>3. volcado' \in Seq(Valor)
  <2>1. volcado' \in [1..n -> Valor]
    BY <1>1, <1>2, PaginasEnMarcos
  <2> QED
    BY <1>1, <2>1
<1>4. UNCHANGED <<bit_marcos, tabla, espacio_usuario, listaVars, swapVars>>
  BY DEF DumpDeMemoria, marcoVars
<1>5. TypeOK'
  BY <1>3, <1>4 DEF Inv, TypeOK, listaVars, swapVars
<1> QED
  BY <1>4, <1>5, PasoQuieto

LEMMA PasoEscribir ==
    ASSUME Inv, NEW p \in Pid, NEW i \in 1..Paginas[p], NEW v \in Valor,
           EscribirEspacio(p, i, v)
    PROVE  Inv'
<1>1. espacio_usuario' = [espacio_usuario EXCEPT ![tabla[p][i]] = v]
  BY DEF EscribirEspacio
<1>2. espacio_usuario' \in [Marco -> Valor]
  BY <1>1 DEF Inv, TypeOK
<1>3. UNCHANGED <<bit_marcos, tabla, listaVars, swapVars, volcado>>
  BY DEF EscribirEspacio
<1>4. TypeOK'
  BY <1>2, <1>3 DEF Inv, TypeOK, listaVars, swapVars
<1> QED
  BY <1>3, <1>4, PasoQuieto

-----------------------------------------------------------------------------
LEMMA Paso == Inv /\ [Next]_vars => Inv'
<1> SUFFICES ASSUME Inv, [Next]_vars PROVE Inv'
  OBVIOUS
<1>1. CASE UNCHANGED vars
  <2>1. TypeOK'
    BY <1>1 DEF Inv, TypeOK, vars, marcoVars, listaVars, swapVars
  <2> QED
    BY <1>1, <2>1, PasoQuieto DEF vars, marcoVars
<1>2. ASSUME NEW p \in Pid, IniciarProceso(p) PROVE Inv'
  BY <1>2, PasoIniciar
<1>3. ASSUME NEW p \in Pid, FinProceso(p) PROVE Inv'
  BY <1>3, PasoFin
<1>4. ASSUME NEW p \in Pid, EnviarASwap(p) PROVE Inv'
  BY <1>4, PasoEnviar
<1>5. ASSUME NEW p \in Pid, SacarDeSwap(p) PROVE Inv'
  BY <1>5, PasoSacar
<1>6. ASSUME NEW p \in Pid, DumpDeMemoria(p) PROVE Inv'
  BY <1>6, PasoDump
<1>7. ASSUME NEW p \in Pid, NEW i \in 1..Paginas[p], NEW v \in Valor,
             EscribirEspacio(p, i, v)
      PROVE  Inv'
  BY <1>7, PasoEscribir
<1> QED
  BY <1>1, <1>2, <1>3, <1>4, <1>5, <1>6, <1>7 DEF Next

LEMMA Invariante == Spec => []Inv
<1>1. Init => Inv
  BY Inicio
<1>2. Inv /\ [Next]_vars => Inv'
  BY Paso
<1> QED
  BY <1>1, <1>2, PTL DEF Spec

\* Every variable of memoria keeps its type: no page is ever read from a
\* slot or a frame that does not exist.
THEOREM MemoriaTipada == Spec => []TypeOK
<1>1. Inv => TypeOK
  BY DEF Inv
<1> QED
  BY <1>1, Invariante, PTL

\* No frame is shared by two pages and none is lost, for any number of
\* processes, pages and frames.
THEOREM MarcosBienRepartidos == Spec => []MarcosRepartidos
<1>1. Inv => MarcosRepartidos
  BY DEF Inv
<1> QED
  BY <1>1, Invariante, PTL

-----------------------------------------------------------------------------
(* The swap file. *)

InvSwap == /\ Inv
           /\ SlotsRepartidos
           /\ IsFiniteSet(creados)
           /\ SwapAcotado

-----------------------------------------------------------------------------
(* First-fit searches and the slots that hold pages. *)

\* n first-fit searches in S have one possible result.
LEMMA PrimerosUnicos ==
    ASSUME NEW S \in SUBSET Int, NEW n \in Nat,
           NEW f \in PrimerosDe(S, n), NEW g \in PrimerosDe(S, n)
    PROVE  f = g
<1>1. /\ f \in [1..n -> S] /\ g \in [1..n -> S]
      /\ \A i, j \in 1..n : i < j => f[i] < f[j] /\ g[i] < g[j]
      /\ \A x \in S, i \in 1..n : x < f[i] => x \in Imagen(f)
      /\ \A x \in S, i \in 1..n : x < g[i] => x \in Imagen(g)
  BY DEF PrimerosDe
<1>2. \A i \in 1..n : f[i] \in S /\ g[i] \in S /\ f[i] \in Int /\ g[i] \in Int
  BY <1>1
<1> DEFINE T == {i \in 1..n : f[i] # g[i]}
<1>3. ASSUME NEW i \in 1..n, \A j \in 1..n : j < i => f[j] = g[j],
             f[i] < g[i]
      PROVE  FALSE
  <2>1. PICK j \in 1..n : g[j] = f[i]
    BY <1>1, <1>2, <1>3 DEF Imagen
  <2>2. g[j] < g[i]
    BY <1>3, <2>1
  <2>3. ~(i < j) /\ i # j
    BY <1>1, <1>2, <2>2
  <2>4. j < i
    BY <2>3
  <2>5. f[j] = f[i] /\ f[j] < f[i]
    BY <1>1, <1>3, <2>1, <2>4
  <2> QED
    BY <2>5, <1>2
<1>4. ASSUME NEW i \in 1..n, \A j \in 1..n : j < i => f[j] = g[j],
             g[i] < f[i]
      PROVE  FALSE
  <2>1. PICK j \in 1..n : f[j] = g[i]
    BY <1>1, <1>2, <1>4 DEF Imagen
  <2>2. f[j] < f[i]
    BY <1>4, <2>1
  <2>3. ~(i < j) /\ i # j
    BY <1>1, <1>2, <2>2
  <2>4. j < i
    BY <2>3
  <2>5. g[j] = g[i] /\ g[j] < g[i]
    BY <1>1, <1>4, <2>1, <2>4
  <2> QED
    BY <2>5, <1>2
<1>5. ASSUME T # {} PROVE FALSE
  <2>1. T \in SUBSET Nat
    OBVIOUS
  <2>2. PICK i \in T : \A j \in T : i <= j
    <3> HIDE DEF T
    <3> QED
      BY <1>5, <2>1, HayMenor
  <2>3. i \in 1..n /\ \A j \in 1..n : j < i => f[j] = g[j]
    BY <2>2
  <2>4. f[i] < g[i] \/ g[i] < f[i]
    BY <1>2, <2>2, <2>3
  <2> QED
    BY <1>3, <1>4, <2>3, <2>4
<1> QED
  BY <1>1, <1>5

\* The places that n searches return are n.
LEMMA ImagenContada ==
    ASSUME NEW S \in SUBSET Int, NEW n \in Nat, NEW f \in PrimerosDe(S, n)
    PROVE  Cardinality(Imagen(f)) = n
<1>1. f \in [1..n -> S] /\ \A i, j \in 1..n : i # j => f[i] # f[j]
  BY Primeros
<1>2. f \in Bijection(1..n, Imagen(f))
  BY <1>1 DEF Imagen, Bijection, Injection, IsInjective, Surjection
<1> QED
  BY <1>2, FS_CountingElements DEF ExistsBijection

\* Finitely many processes have finitely many pages.
LEMMA PaginasFinitas ==
    ASSUME NEW S \in SUBSET Pid, IsFiniteSet(S)
    PROVE  IsFiniteSet(PaginasDe(S))
<1> DEFINE F == {{p} \X (1..Paginas[p]) : p \in S}
           f == [p \in S |-> {p} \X (1..Paginas[p])]
<1>1. f \in Surjection(S, F)
  BY DEF Surjection
<1>2. IsFiniteSet(F)
  <2> HIDE DEF f, F
  <2> QED
    BY <1>1, FS_Surjection
<1>3. ASSUME NEW p \in S PROVE IsFiniteSet({p} \X (1..Paginas[p]))
  <2>1. IsFiniteSet({p})
    BY FS_Singleton
  <2>2. Paginas[p] \in Int
    BY MemoriaAssumption
  <2>3. IsFiniteSet(1..Paginas[p])
    BY <2>2, FS_Interval
  <2> QED
    BY <2>1, <2>3, FS_Product
<1>4. \A T \in F : IsFiniteSet(T)
  BY <1>3
<1>5. IsFiniteSet(UNION F)
  <2> HIDE DEF F
  <2> QED
    BY <1>2, <1>4, FS_UNION
<1> QED
  BY <1>5 DEF PaginasDe

\* More processes have at least as many pages.
LEMMA PaginasCrecen ==
    ASSUME NEW S \in SUBSET Pid, NEW T \in SUBSET S, IsFiniteSet(S)
    PROVE  /\ Cardinality(PaginasDe(T)) <= Cardinality(PaginasDe(S))
           /\ Cardinality(PaginasDe(T)) \in Nat
           /\ Cardinality(PaginasDe(S)) \in Nat
<1>1. PaginasDe(T) \in SUBSET PaginasDe(S)
  BY DEF PaginasDe
<1>2. IsFiniteSet(PaginasDe(S))
  BY PaginasFinitas
<1>3. IsFiniteSet(PaginasDe(T))
  BY <1>1, <1>2, FS_Subset
<1> QED
  BY <1>1, <1>2, <1>3, FS_Subset, FS_CardinalityType

-----------------------------------------------------------------------------
(* The slots, request by request. *)

LEMMA Listas ==
    ASSUME Inv
    PROVE  /\ Len(lista_swap) \in Nat /\ Len(swapfile) = Len(lista_swap)
           /\ DOMAIN lista_swap = 1..Len(lista_swap)
           /\ DOMAIN swapfile = 1..Len(lista_swap)
           /\ \A i \in 1..Len(lista_swap) : /\ lista_swap[i] \in Pid \cup {-1}
                                            /\ swapfile[i] \in Valor
BY DEF Inv, TypeOK

LEMMA SlotsFinitos ==
    ASSUME Inv, NEW p \in Pid
    PROVE  SlotsDe(p) \in SUBSET Nat /\ IsFiniteSet(SlotsDe(p))
<1>1. SlotsDe(p) \in SUBSET (1..Len(lista_swap)) /\ Len(lista_swap) \in Nat
  BY Listas DEF SlotsDe
<1>2. IsFiniteSet(1..Len(lista_swap))
  BY <1>1, FS_Interval
<1> QED
  BY <1>1, <1>2, FS_Subset

LEMMA SinSlotsFuera ==
    ASSUME Inv, SlotsRepartidos, NEW p \in Pid, p \notin procesos_swap
    PROVE  SlotsDe(p) = {}
<1>1. Cardinality(SlotsDe(p)) = 0
  BY DEF SlotsRepartidos
<1> QED
  BY <1>1, SlotsFinitos, FS_EmptySet

\* The slots of the others stay when those of p are given back.
LEMMA SlotsAlSoltar ==
    ASSUME Inv, NEW p \in Pid, lista_swap' = SinSlotsDe(p)
    PROVE  /\ SlotsDe(p)' = {}
           /\ \A q \in Pid : q # p => SlotsDe(q)' = SlotsDe(q)
           /\ Len(lista_swap)' = Len(lista_swap)
<1>1. /\ Len(lista_swap') = Len(lista_swap)
      /\ DOMAIN lista_swap' = DOMAIN lista_swap
      /\ \A i \in DOMAIN lista_swap :
            lista_swap'[i] = IF lista_swap[i] = p THEN -1 ELSE lista_swap[i]
  BY SinSlots, Listas DEF SinSlotsDe
<1>2. \A q \in Pid : q # -1
  BY MemoriaAssumption
<1> QED
  BY <1>1, <1>2 DEF SlotsDe

\* enviar_a_swap takes slots nobody has: p gets as many as it has pages, the
\* others keep theirs, each page is where its turn says, and the file grows
\* only if no slot of it is left free.
LEMMA SlotsAlEnviar ==
    ASSUME Inv, SlotsRepartidos, NEW p \in Pid, EnviarASwap(p)
    PROVE  \E g \in PrimerosDe(Huecos(Paginas[p]), Paginas[p]) :
              /\ SlotsDe(p)' = Imagen(g)
              /\ \A k \in 1..Paginas[p] :
                    swapfile'[g[k]] = espacio_usuario[tabla[p][k]]
              /\ \A q \in Pid : q # p =>
                    /\ SlotsDe(q)' = SlotsDe(q)
                    /\ \A i \in SlotsDe(q) : swapfile'[i] = swapfile[i]
              /\ Len(swapfile') = Len(lista_swap')
              /\ Len(lista_swap') # Len(lista_swap) =>
                    \A i \in DOMAIN lista_swap' : lista_swap'[i] \in Pid
<1> DEFINE n == Paginas[p]
           L == Len(lista_swap)
<1>1. n \in Nat /\ p \in procesos_memoria /\ p \notin procesos_swap
  BY MemoriaAssumption DEF EnviarASwap, Inv, ListasDisjuntas
<1>2. PICK g \in PrimerosDe(Huecos(n), n), fin \in L..(L + n) :
         /\ DOMAIN lista_swap \cup Imagen(g) = 1..fin
         /\ lista_swap' = [i \in 1..fin |->
                IF i \in Imagen(g) THEN p ELSE lista_swap[i]]
         /\ swapfile' = [i \in 1..fin |->
                IF i \in Imagen(g)
                THEN espacio_usuario[tabla[p][CHOOSE k \in 1..n : g[k] = i]]
                ELSE swapfile[i]]
  BY DEF EnviarASwap, EspaciosSwap
<1>3. /\ L \in Nat /\ DOMAIN lista_swap = 1..L
      /\ DOMAIN swapfile = 1..L
      /\ \A i \in 1..L : lista_swap[i] \in Pid \cup {-1}
  BY Listas
<1>4. fin \in Nat /\ 1..L \subseteq 1..fin
  BY <1>1, <1>2, <1>3
<1>5. Huecos(n) \in SUBSET Int
  BY <1>1, <1>3 DEF Huecos
<1>6. /\ g \in [1..n -> Huecos(n)]
      /\ \A i, j \in 1..n : i # j => g[i] # g[j]
      /\ \A x \in Huecos(n), i \in 1..n : x < g[i] => x \in Imagen(g)
  <2>1. \A x \in Huecos(n), i \in 1..n : x < g[i] => x \in Imagen(g)
    BY DEF PrimerosDe
  <2> QED
    BY <1>1, <1>5, <2>1, Primeros
<1>7. \A i \in Imagen(g) : i \in Huecos(n) /\ i \in 1..fin
  BY <1>2, <1>6 DEF Imagen
<1>8. \A k \in 1..n : g[k] \in Imagen(g)
  BY <1>6 DEF Imagen
<1>9. -1 \notin Pid
  BY MemoriaAssumption
<1>10. /\ DOMAIN lista_swap' = 1..fin
       /\ Len(lista_swap') = fin /\ Len(swapfile') = fin
  <2>1. /\ lista_swap' \in Seq(Pid \cup {-1})
        /\ Len(swapfile') = Len(lista_swap')
    <3>1. Inv'
      BY PasoEnviar
    <3> QED
      BY <3>1 DEF Inv, TypeOK
  <2>2. DOMAIN lista_swap' = 1..fin
    BY <1>2
  <2>3. Len(lista_swap') = fin
    BY <2>1, <2>2, <1>4
  <2> QED
    BY <2>1, <2>2, <2>3
<1>11. SlotsDe(p) = {}
  BY <1>1, SinSlotsFuera
<1>12. SlotsDe(p)' = Imagen(g)
  <2>1. ASSUME NEW i \in 1..fin, lista_swap'[i] = p, i \notin Imagen(g)
        PROVE  FALSE
    <3>1. i \in 1..L /\ lista_swap[i] = p
      BY <2>1, <1>2, <1>3
    <3> QED
      BY <3>1, <1>3, <1>11 DEF SlotsDe
  <2>2. \A i \in Imagen(g) : i \in 1..fin /\ lista_swap'[i] = p
    BY <1>2, <1>7
  <2> QED
    BY <2>1, <2>2, <1>10 DEF SlotsDe
<1>13. ASSUME NEW k \in 1..n
       PROVE  swapfile'[g[k]] = espacio_usuario[tabla[p][k]]
  <2>1. g[k] \in Imagen(g) /\ g[k] \in 1..fin
    BY <1>7, <1>8
  <2>2. (CHOOSE j \in 1..n : g[j] = g[k]) = k
    BY <1>6
  <2> QED
    BY <1>2, <2>1, <2>2
<1>14. ASSUME NEW q \in Pid, q # p
       PROVE  /\ SlotsDe(q)' = SlotsDe(q)
              /\ \A i \in SlotsDe(q) : swapfile'[i] = swapfile[i]
  <2>1. ASSUME NEW i \in SlotsDe(q)
        PROVE  /\ i \in 1..fin /\ i \notin Imagen(g)
               /\ lista_swap'[i] = q /\ swapfile'[i] = swapfile[i]
    <3>1. i \in 1..L /\ lista_swap[i] = q
      BY <1>3 DEF SlotsDe
    <3>2. i \notin Huecos(n)
      BY <3>1, <1>3, <1>9 DEF Huecos
    <3> QED
      BY <3>1, <3>2, <1>2, <1>4, <1>7
  <2>2. ASSUME NEW i \in 1..fin, lista_swap'[i] = q
        PROVE  i \in SlotsDe(q)
    <3>1. i \notin Imagen(g)
      BY <2>2, <1>2, <1>14
    <3>2. i \in 1..L /\ lista_swap[i] = q
      BY <2>2, <3>1, <1>2, <1>3
    <3> QED
      BY <3>2, <1>3 DEF SlotsDe
  <2>3. SlotsDe(q)' = {i \in 1..fin : lista_swap'[i] = q}
    BY <1>10 DEF SlotsDe
  <2> QED
    BY <2>1, <2>2, <2>3
<1>15. ASSUME fin # L, NEW i \in 1..fin
       PROVE  lista_swap'[i] \in Pid
  <2>1. fin > L /\ fin \in Imagen(g)
    <3>1. fin \in L..(L + n) /\ L \in Nat /\ n \in Nat /\ fin # L
      BY <1>1, <1>2, <1>3, <1>15
    <3>2. fin > L
      <4> HIDE DEF L, n
      <4> QED
        BY <3>1
    <3>3. fin \in 1..fin /\ fin \notin 1..L
      BY <3>2, <1>3, <1>4
    <3>4. DOMAIN lista_swap \cup Imagen(g) = 1..fin
      BY <1>2
    <3> QED
      BY <3>2, <3>3, <3>4, <1>3
  <2>2. PICK k \in 1..n : g[k] = fin
    BY <2>1, <1>6 DEF Imagen
  <2>3. CASE i \in Imagen(g)
    BY <2>3, <1>2
  <2>4. CASE i \notin Imagen(g)
    <3>1. i \in 1..L /\ lista_swap'[i] = lista_swap[i] /\ i < fin
      BY <2>1, <2>4, <1>2, <1>3
    <3>2. i \notin Huecos(n)
      BY <2>2, <2>4, <3>1, <1>6
    <3>3. lista_swap[i] # -1
      BY <3>1, <3>2, <1>1, <1>3 DEF Huecos
    <3> QED
      BY <3>1, <3>3, <1>3
  <2> QED
    BY <2>3, <2>4
<1> QED
  BY <1>10, <1>12, <1>13, <1>14, <1>15

-----------------------------------------------------------------------------
(* The invariant, request by request. *)

LEMMA InicioSwap == Init => InvSwap
<1> SUFFICES ASSUME Init PROVE InvSwap
  OBVIOUS
<1>1. Inv
  BY Inicio
<1>2. /\ lista_swap = <<>> /\ swapfile = <<>>
      /\ procesos_swap = {} /\ creados = {}
  BY DEF Init
<1>3. IsFiniteSet(creados) /\ IsFiniteSet({}) /\ Cardinality({}) = 0
  BY <1>2, FS_EmptySet
<1>4. \A p \in Pid : SlotsDe(p) = {}
  BY <1>2 DEF SlotsDe
<1>5. SlotsRepartidos
  BY <1>2, <1>3, <1>4 DEF SlotsRepartidos
<1>6. PaginasDe(creados) = {}
  BY <1>2 DEF PaginasDe
<1>7. SwapAcotado
  BY <1>2, <1>3, <1>6 DEF SwapAcotado
<1> QED
  BY <1>1, <1>3, <1>5, <1>7 DEF InvSwap

\* A step that moves no slot.
LEMMA SwapQuieto ==
    ASSUME InvSwap, Inv', UNCHANGED <<lista_swap, swapfile, procesos_swap>>,
           \/ creados' = creados
           \/ \E p \in Pid : creados' = creados \cup {p}
    PROVE  InvSwap'
<1>1. IsFiniteSet(creados) /\ creados \subseteq Pid
  BY DEF InvSwap, Inv, TypeOK
<1>2. /\ IsFiniteSet(creados') /\ creados \subseteq creados'
      /\ creados' \subseteq Pid
  BY <1>1, FS_AddElement
<1>3. \A p \in Pid : SlotsDe(p)' = SlotsDe(p)
  BY DEF SlotsDe
<1>4. SlotsRepartidos'
  <2>1. SlotsRepartidos
    BY DEF InvSwap
  <2> QED
    BY <2>1, <1>3 DEF SlotsRepartidos
<1>5. SwapAcotado'
  <2>1. Len(lista_swap) <= Cardinality(PaginasDe(creados))
    BY DEF InvSwap, SwapAcotado
  <2>2. /\ Cardinality(PaginasDe(creados)) <= Cardinality(PaginasDe(creados'))
        /\ Cardinality(PaginasDe(creados)) \in Nat
        /\ Cardinality(PaginasDe(creados')) \in Nat
    BY <1>2, PaginasCrecen
  <2>3. Len(lista_swap) \in Nat /\ lista_swap' = lista_swap
    BY Listas DEF InvSwap
  <2> QED
    BY <2>1, <2>2, <2>3 DEF SwapAcotado, PaginasDe
<1> QED
  BY <1>2, <1>4, <1>5 DEF InvSwap

\* A process leaves the swap file: it comes back or it ends.
LEMMA SwapAlSoltar ==
    ASSUME InvSwap, Inv', NEW p \in Pid, lista_swap' = SinSlotsDe(p),
           procesos_swap' = procesos_swap \ {p}, creados' = creados
    PROVE  InvSwap'
<1>1. /\ SlotsDe(p)' = {}
      /\ \A q \in Pid : q # p => SlotsDe(q)' = SlotsDe(q)
      /\ Len(lista_swap)' = Len(lista_swap)
  BY SlotsAlSoltar DEF InvSwap
<1>2. Cardinality({}) = 0
  BY FS_EmptySet
<1>3. SlotsRepartidos'
  <2>1. SlotsRepartidos
    BY DEF InvSwap
  <2>2. (Len(swapfile) = Len(lista_swap))'
    BY DEF Inv
  <2>3. ASSUME NEW q \in Pid
        PROVE  Cardinality(SlotsDe(q)') =
                  IF q \in procesos_swap' THEN Paginas[q] ELSE 0
    <3>1. CASE q = p
      BY <3>1, <1>1, <1>2
    <3>2. CASE q # p
      BY <3>2, <1>1, <2>1 DEF SlotsRepartidos
    <3> QED
      BY <3>1, <3>2
  <2> QED
    BY <2>2, <2>3 DEF SlotsRepartidos
<1>4. SwapAcotado'
  BY <1>1 DEF InvSwap, SwapAcotado
<1>5. IsFiniteSet(creados')
  BY DEF InvSwap
<1> QED
  BY <1>3, <1>4, <1>5 DEF InvSwap

SinHuecos == /\ Inv /\ SlotsRepartidos /\ IsFiniteSet(creados)
             /\ \A i \in DOMAIN lista_swap : lista_swap[i] \in Pid

\* If every slot belongs to a process in swap, the file is as long as their
\* pages: each page has one slot and each slot one page.
LEMMA UnaPaginaPorSlot == SinHuecos => SwapAcotado
<1> SUFFICES ASSUME Inv, SlotsRepartidos, IsFiniteSet(creados),
                    \A i \in DOMAIN lista_swap : lista_swap[i] \in Pid
             PROVE  SwapAcotado
  BY DEF SinHuecos
<1> DEFINE P == procesos_swap
           L == Len(lista_swap)
           b == [q \in P |->
                    CHOOSE h : h \in Bijection(1..Paginas[q], SlotsDe(q))]
           s == [x \in PaginasDe(P) |-> b[x[1]][x[2]]]
<1>1. P \subseteq creados /\ creados \subseteq Pid /\ P \subseteq Pid
  BY DEF Inv, ListasDisjuntas, TypeOK
<1>2. L \in Nat /\ DOMAIN lista_swap = 1..L
  BY Listas
<1>3. ASSUME NEW q \in P
      PROVE  b[q] \in Bijection(1..Paginas[q], SlotsDe(q))
  <2>1. IsFiniteSet(SlotsDe(q)) /\ Cardinality(SlotsDe(q)) = Paginas[q]
    BY <1>1, SlotsFinitos DEF SlotsRepartidos
  <2>2. ExistsBijection(1..Paginas[q], SlotsDe(q))
    BY <2>1, FS_CardinalityType
  <2> QED
    BY <2>2 DEF ExistsBijection
<1>4. PaginasDe(P) = {x \in P \X (UNION {1..Paginas[q] : q \in P}) :
                        x[2] \in 1..Paginas[x[1]]}
  BY DEF PaginasDe
<1>5. ASSUME NEW x \in PaginasDe(P)
      PROVE  s[x] \in 1..L
  <2>1. x[1] \in P /\ x[2] \in 1..Paginas[x[1]]
    BY <1>4
  <2>2. b[x[1]][x[2]] \in SlotsDe(x[1])
    BY <2>1, <1>3 DEF Bijection, Injection
  <2> QED
    BY <2>2, <1>2 DEF SlotsDe
<1>6. ASSUME NEW i \in 1..L
      PROVE  \E x \in PaginasDe(P) : s[x] = i
  <2> DEFINE q == lista_swap[i]
  <2>1. q \in Pid /\ i \in SlotsDe(q)
    BY <1>2 DEF SlotsDe
  <2>2. q \in P
    BY <2>1, SinSlotsFuera
  <2>3. PICK k \in 1..Paginas[q] : b[q][k] = i
    BY <2>1, <2>2, <1>3 DEF Bijection, Surjection
  <2>4. <<q, k>> \in PaginasDe(P)
    BY <2>2, <2>3 DEF PaginasDe
  <2> QED
    BY <2>3, <2>4
<1>7. s \in Surjection(PaginasDe(P), 1..L)
  BY <1>5, <1>6 DEF Surjection
<1>8. IsFiniteSet(PaginasDe(P))
  <2>1. IsFiniteSet(P)
    BY <1>1, FS_Subset
  <2> QED
    BY <2>1, <1>1, PaginasFinitas
<1>9. Cardinality(1..L) <= Cardinality(PaginasDe(P))
  <2> HIDE DEF s, P, L
  <2> QED
    BY <1>7, <1>8, FS_Surjection
<1>10. Cardinality(1..L) = L
  BY <1>2, FS_Interval
<1>11. /\ Cardinality(PaginasDe(P)) <= Cardinality(PaginasDe(creados))
       /\ Cardinality(PaginasDe(P)) \in Nat
       /\ Cardinality(PaginasDe(creados)) \in Nat
  BY <1>1, PaginasCrecen, SMTT(30)
<1> QED
  BY <1>2, <1>9, <1>10, <1>11 DEF SwapAcotado

LEMMA SwapAlEnviar ==
    ASSUME InvSwap, NEW p \in Pid, EnviarASwap(p) PROVE InvSwap'
<1> DEFINE n == Paginas[p]
<1>1. Inv /\ SlotsRepartidos /\ Inv'
  BY PasoEnviar DEF InvSwap
<1>2. PICK g \in PrimerosDe(Huecos(n), n) :
         /\ SlotsDe(p)' = Imagen(g)
         /\ \A q \in Pid : q # p => SlotsDe(q)' = SlotsDe(q)
         /\ Len(swapfile') = Len(lista_swap')
         /\ Len(lista_swap') # Len(lista_swap) =>
               \A i \in DOMAIN lista_swap' : lista_swap'[i] \in Pid
  BY <1>1, SlotsAlEnviar
<1>3. n \in Nat /\ Huecos(n) \in SUBSET Int
  BY <1>1, Listas, MemoriaAssumption DEF Huecos
<1>4. Cardinality(Imagen(g)) = n
  BY <1>3, ImagenContada
<1>5. procesos_swap' = procesos_swap \cup {p} /\ creados' = creados
  BY DEF EnviarASwap
<1>6. SlotsRepartidos'
  <2>1. ASSUME NEW q \in Pid
        PROVE  Cardinality(SlotsDe(q)') =
                  IF q \in procesos_swap' THEN Paginas[q] ELSE 0
    <3>1. CASE q = p
      BY <3>1, <1>2, <1>4, <1>5
    <3>2. CASE q # p
      BY <3>2, <1>1, <1>2, <1>5 DEF SlotsRepartidos
    <3> QED
      BY <3>1, <3>2
  <2> QED
    BY <2>1, <1>2 DEF SlotsRepartidos
<1>7. IsFiniteSet(creados')
  BY <1>5 DEF InvSwap
<1>8. SwapAcotado'
  <2>1. CASE Len(lista_swap') = Len(lista_swap)
    BY <2>1, <1>5 DEF InvSwap, SwapAcotado
  <2>2. CASE Len(lista_swap') # Len(lista_swap)
    <3>1. SinHuecos'
      BY <2>2, <1>1, <1>2, <1>6, <1>7 DEF SinHuecos
    <3> QED
      BY <3>1, UnaPaginaPorSlot, PTL
  <2> QED
    BY <2>1, <2>2
<1> QED
  BY <1>1, <1>6, <1>7, <1>8 DEF InvSwap

LEMMA PasoSwap == InvSwap /\ [Next]_vars => InvSwap'
<1> SUFFICES ASSUME InvSwap, [Next]_vars PROVE InvSwap'
  OBVIOUS
<1>1. Inv'
  BY Paso DEF InvSwap
<1>2. CASE UNCHANGED vars
  BY <1>1, <1>2, SwapQuieto DEF vars, listaVars, swapVars
<1>3. ASSUME NEW p \in Pid, IniciarProceso(p) PROVE InvSwap'
  BY <1>1, <1>3, SwapQuieto DEF IniciarProceso, swapVars
<1>4. ASSUME NEW p \in Pid, FinProceso(p) PROVE InvSwap'
  <2>1. CASE p \in procesos_memoria
    BY <1>1, <1>4, <2>1, SwapQuieto DEF FinProceso
  <2>2. CASE p \notin procesos_memoria
    BY <1>1, <1>4, <2>2, SwapAlSoltar DEF FinProceso
  <2> QED
    BY <2>1, <2>2
<1>5. ASSUME NEW p \in Pid, EnviarASwap(p) PROVE InvSwap'
  BY <1>5, SwapAlEnviar
<1>6. ASSUME NEW p \in Pid, SacarDeSwap(p) PROVE InvSwap'
  BY <1>1, <1>6, SwapAlSoltar DEF SacarDeSwap
<1>7. ASSUME NEW p \in Pid, DumpDeMemoria(p) PROVE InvSwap'
  BY <1>1, <1>7, SwapQuieto DEF DumpDeMemoria, listaVars, swapVars
<1>8. ASSUME NEW p \in Pid, NEW i \in 1..Paginas[p], NEW v \in Valor,
             EscribirEspacio(p, i, v)
      PROVE  InvSwap'
  BY <1>1, <1>8, SwapQuieto DEF EscribirEspacio, listaVars, swapVars
<1> QED
  BY <1>2, <1>3, <1>4, <1>5, <1>6, <1>7, <1>8 DEF Next

LEMMA InvarianteSwap == Spec => []InvSwap
<1>1. Init => InvSwap
  BY InicioSwap
<1>2. InvSwap /\ [Next]_vars => InvSwap'
  BY PasoSwap
<1> QED
  BY <1>1, <1>2, PTL DEF Spec

\* A process has as many slots as pages while it is swapped out and none
\* otherwise: no slot is ever lost or shared (manejo_swap.c:52-73).
THEOREM SlotsBienRepartidos == Spec => []SlotsRepartidos
<1>1. InvSwap => SlotsRepartidos
  BY DEF InvSwap
<1> QED
  BY <1>1, InvarianteSwap, PTL

\* Holes are used again: the file never outgrows the pages of the processes
\* created, for any processes and sizes (obtener_espacios_swap).
THEOREM SwapSiempreAcotado == Spec => []SwapAcotado
<1>1. InvSwap => SwapAcotado
  BY DEF InvSwap
<1> QED
  BY <1>1, InvarianteSwap, PTL

-----------------------------------------------------------------------------
(* What a process sees of its pages.  The invariant adds that the slots of *)
(* a process in swap can be numbered in the order of the file.             *)

InvVirtual == /\ InvSwap
              /\ \A q \in procesos_swap :
                    PrimerosDe(SlotsDe(q), Paginas[q]) # {}

\* The pages of a process in swap, in the order of its slots.
LEMMA ContenidoEnSwap ==
    ASSUME Inv, NEW p \in Pid, p \in procesos_swap,
           NEW g \in PrimerosDe(SlotsDe(p), Paginas[p])
    PROVE  ContenidoDe(p) = [i \in 1..Paginas[p] |-> swapfile[g[i]]]
<1> DEFINE n == Paginas[p]
           h == CHOOSE h \in PrimerosDe(SlotsDe(p), n) : TRUE
<1>1. SlotsDe(p) \in SUBSET Int /\ n \in Nat
  BY SlotsFinitos, MemoriaAssumption
<1>2. h \in PrimerosDe(SlotsDe(p), n)
  OBVIOUS
<1>3. h = g
  <2> HIDE DEF h
  <2> QED
    BY <1>1, <1>2, PrimerosUnicos
<1>4. p \notin procesos_memoria
  BY DEF Inv, ListasDisjuntas
<1>5. ContenidoDe(p) = [i \in 1..n |-> swapfile[h[i]]]
  BY <1>4 DEF ContenidoDe
<1> QED
  BY <1>3, <1>5

\* A process whose frames, or slots, keep their contents sees no change.
LEMMA ContenidoQuieto ==
    ASSUME InvVirtual, Inv', NEW q \in Pid,
           q \in procesos_memoria' <=> q \in procesos_memoria,
           q \in procesos_swap' <=> q \in procesos_swap,
           q \in procesos_memoria =>
              \A i \in 1..Paginas[q] :
                 espacio_usuario'[tabla'[q][i]] = espacio_usuario[tabla[q][i]],
           q \in procesos_swap =>
              /\ SlotsDe(q)' = SlotsDe(q)
              /\ \A i \in SlotsDe(q) : swapfile'[i] = swapfile[i]
    PROVE  ContenidoDe(q)' = ContenidoDe(q)
<1>1. CASE q \in procesos_memoria
  BY <1>1 DEF ContenidoDe
<1>2. CASE q \in procesos_swap
  <2> DEFINE n == Paginas[q]
             C(S) == CHOOSE g \in PrimerosDe(S, n) : TRUE
  <2>1. q \notin procesos_memoria /\ q \notin procesos_memoria'
    BY <1>2 DEF InvVirtual, InvSwap, Inv, ListasDisjuntas
  <2>2. C(SlotsDe(q)) \in PrimerosDe(SlotsDe(q), n)
    BY <1>2 DEF InvVirtual
  <2>3. C(SlotsDe(q)) \in [1..n -> SlotsDe(q)]
    BY <2>2 DEF PrimerosDe
  <2>4. SlotsDe(q)' = SlotsDe(q)
    BY <1>2
  <2>5. ContenidoDe(q) = [i \in 1..n |-> swapfile[C(SlotsDe(q))[i]]]
    BY <1>2, <2>1 DEF ContenidoDe
  <2>6. ContenidoDe(q)' = [i \in 1..n |-> swapfile'[C(SlotsDe(q)')[i]]]
    BY <1>2, <2>1 DEF ContenidoDe
  <2>7. ContenidoDe(q)' = [i \in 1..n |-> swapfile'[C(SlotsDe(q))[i]]]
    BY <2>4, <2>6
  <2>8. \A i \in 1..n : swapfile'[C(SlotsDe(q))[i]] = swapfile[C(SlotsDe(q))[i]]
    BY <1>2, <2>3
  <2> HIDE DEF C
  <2> QED
    BY <2>5, <2>7, <2>8
<1>3. CASE q \notin procesos_memoria \cup procesos_swap
  BY <1>3 DEF ContenidoDe
<1> QED
  BY <1>1, <1>2, <1>3

\* The places that n searches return are the first n of themselves.
LEMMA PrimerosDeSi ==
    ASSUME NEW S, NEW n \in Nat, NEW g \in PrimerosDe(S, n)
    PROVE  g \in PrimerosDe(Imagen(g), n)
<1>1. g \in [1..n -> S] /\ \A i, j \in 1..n : i < j => g[i] < g[j]
  BY DEF PrimerosDe
<1>2. g \in [1..n -> Imagen(g)]
  BY <1>1 DEF Imagen
<1> QED
  BY <1>1, <1>2 DEF PrimerosDe

LEMMA InicioVirtual == Init => InvVirtual
BY InicioSwap DEF Init, InvVirtual

LEMMA PasoVirtual == InvVirtual /\ [Next]_vars => InvVirtual'
<1> SUFFICES ASSUME InvVirtual, [Next]_vars PROVE InvVirtual'
  OBVIOUS
<1>1. InvSwap /\ InvSwap' /\ Inv /\ procesos_swap \subseteq Pid
  BY PasoSwap DEF InvVirtual, InvSwap, Inv, TypeOK
<1> SUFFICES ASSUME NEW q \in procesos_swap'
             PROVE  PrimerosDe(SlotsDe(q)', Paginas[q]) # {}
  BY <1>1 DEF InvVirtual
<1>2. ASSUME q \in procesos_swap, SlotsDe(q)' = SlotsDe(q)
      PROVE  PrimerosDe(SlotsDe(q)', Paginas[q]) # {}
  BY <1>2 DEF InvVirtual
<1>3. ASSUME UNCHANGED <<procesos_swap, lista_swap>>
      PROVE  PrimerosDe(SlotsDe(q)', Paginas[q]) # {}
  BY <1>2, <1>3 DEF SlotsDe
<1>4. ASSUME NEW p \in Pid, lista_swap' = SinSlotsDe(p),
             procesos_swap' = procesos_swap \ {p}
      PROVE  PrimerosDe(SlotsDe(q)', Paginas[q]) # {}
  BY <1>1, <1>2, <1>4, SlotsAlSoltar
<1>5. ASSUME NEW p \in Pid, EnviarASwap(p)
      PROVE  PrimerosDe(SlotsDe(q)', Paginas[q]) # {}
  <2>1. PICK g \in PrimerosDe(Huecos(Paginas[p]), Paginas[p]) :
           /\ SlotsDe(p)' = Imagen(g)
           /\ \A r \in Pid : r # p => SlotsDe(r)' = SlotsDe(r)
    BY <1>1, <1>5, SlotsAlEnviar DEF InvSwap
  <2>2. CASE q = p
    <3>1. Paginas[p] \in Nat
      BY MemoriaAssumption
    <3> QED
      BY <2>1, <2>2, <3>1, PrimerosDeSi
  <2>3. CASE q # p
    <3>1. q \in procesos_swap /\ q \in Pid
      BY <1>1, <1>5, <2>3 DEF EnviarASwap
    <3> QED
      BY <2>1, <2>3, <3>1, <1>2
  <2> QED
    BY <2>2, <2>3
<1>6. ASSUME NEW p \in Pid, FinProceso(p)
      PROVE  PrimerosDe(SlotsDe(q)', Paginas[q]) # {}
  BY <1>3, <1>4, <1>6 DEF FinProceso
<1>7. ASSUME NEW p \in Pid, SacarDeSwap(p)
      PROVE  PrimerosDe(SlotsDe(q)', Paginas[q]) # {}
  BY <1>4, <1>7 DEF SacarDeSwap
<1>8. ASSUME NEW p \in Pid,
             \/ IniciarProceso(p) \/ DumpDeMemoria(p)
             \/ \E i \in 1..Paginas[p], v \in Valor : EscribirEspacio(p, i, v)
      PROVE  PrimerosDe(SlotsDe(q)', Paginas[q]) # {}
  BY <1>3, <1>8
     DEF IniciarProceso, DumpDeMemoria, EscribirEspacio, listaVars, swapVars
<1>9. CASE UNCHANGED vars
  BY <1>3, <1>9 DEF vars, listaVars, swapVars
<1> QED
  BY <1>5, <1>6, <1>7, <1>8, <1>9 DEF Next

LEMMA InvarianteVirtual == Spec => []InvVirtual
<1>1. Init => InvVirtual
  BY InicioVirtual
<1>2. InvVirtual /\ [Next]_vars => InvVirtual'
  BY PasoVirtual
<1> QED
  BY <1>1, <1>2, PTL DEF Spec

-----------------------------------------------------------------------------
(* Each request, as the processes see it. *)

\* What the two sides of a step share: the invariants and the types.
Lados == /\ InvVirtual /\ Inv /\ Inv'
         /\ procesos_memoria \cup procesos_swap \subseteq Pid

\* A new process finds in its pages whatever the frames had.
LEMMA IniciarEsCrear ==
    ASSUME Lados, NEW p \in Pid, IniciarProceso(p) PROVE Virtual!Crear(p)
<1> DEFINE n == Paginas[p]
           c == [i \in 1..n |-> espacio_usuario[tabla'[p][i]]]
<1>1. /\ p \notin creados /\ creados' = creados \cup {p}
      /\ procesos_memoria' = procesos_memoria \cup {p}
      /\ UNCHANGED <<espacio_usuario, procesos_swap, lista_swap, swapfile,
                     volcado>>
  BY DEF IniciarProceso, swapVars
<1>2. \A q \in Pid : q # p => tabla'[q] = tabla[q]
  BY DEF IniciarProceso, Lados, Inv, TypeOK
<1>3. ContenidoDe(p)' = c
  BY <1>1 DEF ContenidoDe
<1>4. c \in [1..n -> Valor]
  <2>1. \A i \in 1..n : tabla'[p][i] \in bit_marcos'
    BY <1>1 DEF Lados, Inv, MarcosRepartidos
  <2> QED
    BY <2>1, <1>1 DEF Lados, Inv, TypeOK
<1>5. ASSUME NEW q \in Pid, q # p
      PROVE  ContenidoDe(q)' = ContenidoDe(q)
  <2>1. SlotsDe(q)' = SlotsDe(q)
    BY <1>1 DEF SlotsDe
  <2> QED
    BY <1>1, <1>2, <1>5, <2>1, ContenidoQuieto DEF Lados
<1>6. [q \in Pid |-> ContenidoDe(q)]' =
         [[q \in Pid |-> ContenidoDe(q)] EXCEPT ![p] = c]
  <2> HIDE DEF c
  <2> QED
    BY <1>3, <1>5
<1> QED
  BY <1>1, <1>4, <1>6 DEF Virtual!Crear

LEMMA FinEsTerminar ==
    ASSUME Lados, NEW p \in Pid, FinProceso(p) PROVE Virtual!Terminar(p)
<1>1. /\ p \in procesos_memoria \cup procesos_swap
      /\ procesos_memoria' = procesos_memoria \ {p}
      /\ procesos_swap' = procesos_swap \ {p}
      /\ UNCHANGED <<espacio_usuario, creados, swapfile, volcado>>
  BY DEF FinProceso, Lados, Inv, ListasDisjuntas
<1>2. \A q \in Pid : q # p => tabla'[q] = tabla[q]
  BY DEF FinProceso, Lados, Inv, TypeOK
<1>3. \A q \in Pid : q # p => SlotsDe(q)' = SlotsDe(q)
  <2>1. lista_swap' = lista_swap \/ lista_swap' = SinSlotsDe(p)
    BY DEF FinProceso
  <2>2. CASE lista_swap' = lista_swap
    BY <2>2 DEF SlotsDe
  <2>3. CASE lista_swap' = SinSlotsDe(p)
    BY <2>3, SlotsAlSoltar DEF Lados
  <2> QED
    BY <2>1, <2>2, <2>3
<1>4. ContenidoDe(p)' = <<>>
  BY <1>1 DEF ContenidoDe
<1>5. ASSUME NEW q \in Pid, q # p
      PROVE  ContenidoDe(q)' = ContenidoDe(q)
  BY <1>1, <1>2, <1>3, <1>5, ContenidoQuieto DEF Lados
<1>6. [q \in Pid |-> ContenidoDe(q)]' =
         [[q \in Pid |-> ContenidoDe(q)] EXCEPT ![p] = <<>>]
  BY <1>4, <1>5
<1>7. (procesos_memoria \cup procesos_swap)' =
         (procesos_memoria \cup procesos_swap) \ {p}
  BY <1>1
<1> QED
  BY <1>1, <1>6, <1>7 DEF Virtual!Terminar

\* The trip to swap does not show: each page is in the slot of its turn.
LEMMA EnviarNoSeVe ==
    ASSUME Lados, NEW p \in Pid, EnviarASwap(p) PROVE UNCHANGED Virtual!mvars
<1> DEFINE n == Paginas[p]
<1>1. /\ p \in procesos_memoria /\ p \notin procesos_swap
      /\ procesos_memoria' = procesos_memoria \ {p}
      /\ procesos_swap' = procesos_swap \cup {p}
      /\ UNCHANGED <<espacio_usuario, creados, volcado>>
      /\ n \in Nat
  BY MemoriaAssumption DEF EnviarASwap, Lados, Inv, ListasDisjuntas
<1>2. \A q \in Pid : q # p => tabla'[q] = tabla[q]
  BY DEF EnviarASwap, Lados, Inv, TypeOK
<1>3. PICK g \in PrimerosDe(Huecos(n), n) :
         /\ SlotsDe(p)' = Imagen(g)
         /\ \A k \in 1..n : swapfile'[g[k]] = espacio_usuario[tabla[p][k]]
         /\ \A q \in Pid : q # p =>
               /\ SlotsDe(q)' = SlotsDe(q)
               /\ \A i \in SlotsDe(q) : swapfile'[i] = swapfile[i]
  BY SlotsAlEnviar DEF Lados, InvVirtual, InvSwap
<1>4. ContenidoDe(p)' = [k \in 1..n |-> swapfile'[g[k]]]
  <2> DEFINE h == CHOOSE h \in PrimerosDe(Imagen(g), n) : TRUE
  <2>1. g \in PrimerosDe(Imagen(g), n)
    BY <1>1, PrimerosDeSi
  <2>2. h \in PrimerosDe(Imagen(g), n)
    BY <2>1
  <2>3. Imagen(g) \in SUBSET Int
    <3>1. Huecos(n) \in SUBSET Int /\ g \in [1..n -> Huecos(n)]
      BY <1>1, Listas DEF Huecos, PrimerosDe, Lados
    <3> QED
      BY <3>1 DEF Imagen
  <2>4. h = g
    <3> HIDE DEF h
    <3> QED
      BY <2>1, <2>2, <2>3, <1>1, PrimerosUnicos
  <2>5. ContenidoDe(p)' =
           LET f == CHOOSE f \in PrimerosDe(SlotsDe(p)', n) : TRUE
           IN  [i \in 1..n |-> swapfile'[f[i]]]
    BY <1>1 DEF ContenidoDe
  <2>6. ContenidoDe(p)' = [i \in 1..n |-> swapfile'[h[i]]]
    BY <2>5, <1>3
  <2> QED
    BY <2>4, <2>6
<1>5. ContenidoDe(p)' = ContenidoDe(p)
  BY <1>1, <1>3, <1>4 DEF ContenidoDe
<1>6. ASSUME NEW q \in Pid, q # p
      PROVE  ContenidoDe(q)' = ContenidoDe(q)
  BY <1>1, <1>2, <1>3, <1>6, ContenidoQuieto DEF Lados
<1>7. [q \in Pid |-> ContenidoDe(q)]' = [q \in Pid |-> ContenidoDe(q)]
  BY <1>5, <1>6
<1>8. (procesos_memoria \cup procesos_swap)' =
         procesos_memoria \cup procesos_swap
  BY <1>1
<1> QED
  BY <1>1, <1>7, <1>8 DEF Virtual!mvars

\* Nor does the way back: the slots are read in the order they were written.
LEMMA SacarNoSeVe ==
    ASSUME Lados, NEW p \in Pid, SacarDeSwap(p) PROVE UNCHANGED Virtual!mvars
<1> DEFINE n == Paginas[p]
<1>1. /\ p \in procesos_swap /\ p \notin procesos_memoria
      /\ procesos_memoria' = procesos_memoria \cup {p}
      /\ procesos_swap' = procesos_swap \ {p}
      /\ lista_swap' = SinSlotsDe(p)
      /\ UNCHANGED <<creados, swapfile, volcado>>
      /\ n \in Nat
  BY MemoriaAssumption DEF SacarDeSwap, Lados, Inv, ListasDisjuntas
<1>2. PICK f \in PrimerosDe(Libres, n), g \in PrimerosDe(SlotsDe(p), n) :
         /\ tabla' = [tabla EXCEPT ![p] = f]
         /\ espacio_usuario' = [m \in Marco |->
                IF m \in Imagen(f)
                THEN swapfile[g[CHOOSE k \in 1..n : f[k] = m]]
                ELSE espacio_usuario[m]]
  BY DEF SacarDeSwap
<1>3. /\ f \in [1..n -> Libres]
      /\ \A i, j \in 1..n : i # j => f[i] # f[j]
  <2>1. Libres \subseteq Marco
    BY DEF Libres
  <2>2. Libres \in SUBSET Int
    BY <2>1, MarcosEnteros
  <2> QED
    BY <2>2, <1>1, Primeros
<1>4. /\ tabla'[p] = f
      /\ \A q \in Pid : q # p => tabla'[q] = tabla[q]
  BY <1>2 DEF Lados, Inv, TypeOK
<1>5. ASSUME NEW k \in 1..n
      PROVE  espacio_usuario'[f[k]] = swapfile[g[k]]
  <2>1. f[k] \in Imagen(f) /\ f[k] \in Marco
    BY <1>3 DEF Imagen, Libres
  <2>2. (CHOOSE j \in 1..n : f[j] = f[k]) = k
    BY <1>3
  <2> QED
    BY <1>2, <2>1, <2>2
<1>6. ContenidoDe(p)' = ContenidoDe(p)
  <2>1. ContenidoDe(p) = [i \in 1..n |-> swapfile[g[i]]]
    BY <1>1, ContenidoEnSwap DEF Lados
  <2>2. ContenidoDe(p)' = [i \in 1..n |-> espacio_usuario'[f[i]]]
    BY <1>1, <1>4 DEF ContenidoDe
  <2> QED
    BY <1>5, <2>1, <2>2
<1>7. ASSUME NEW q \in Pid, q # p
      PROVE  ContenidoDe(q)' = ContenidoDe(q)
  <2>1. SlotsDe(q)' = SlotsDe(q)
    BY <1>1, <1>7, SlotsAlSoltar DEF Lados
  <2>2. ASSUME q \in procesos_memoria, NEW i \in 1..Paginas[q]
        PROVE  espacio_usuario'[tabla'[q][i]] = espacio_usuario[tabla[q][i]]
    <3>1. tabla[q][i] \in bit_marcos /\ tabla[q][i] \in Marco
      BY <2>2, PaginasEnMarcos DEF Lados, Inv, MarcosRepartidos
    <3>2. tabla[q][i] \notin Imagen(f)
      BY <3>1, <1>3 DEF Imagen, Libres
    <3> QED
      BY <3>1, <3>2, <1>2, <1>4, <1>7
  <2> QED
    BY <1>1, <1>7, <2>1, <2>2, ContenidoQuieto DEF Lados
<1>8. [q \in Pid |-> ContenidoDe(q)]' = [q \in Pid |-> ContenidoDe(q)]
  BY <1>6, <1>7
<1>9. (procesos_memoria \cup procesos_swap)' =
         procesos_memoria \cup procesos_swap
  BY <1>1
<1> QED
  BY <1>1, <1>8, <1>9 DEF Virtual!mvars

\* A step that changes neither contents nor lists.
LEMMA NadaCambia ==
    ASSUME UNCHANGED <<espacio_usuario, tabla, listaVars, swapVars>>
    PROVE  /\ \A q \in Pid : ContenidoDe(q)' = ContenidoDe(q)
           /\ [q \in Pid |-> ContenidoDe(q)]' = [q \in Pid |-> ContenidoDe(q)]
           /\ (procesos_memoria \cup procesos_swap)' =
                 procesos_memoria \cup procesos_swap
           /\ creados' = creados
<1>1. UNCHANGED <<espacio_usuario, tabla, procesos_memoria, procesos_swap,
                  creados, lista_swap, swapfile>>
  BY DEF listaVars, swapVars
<1>2. \A q \in Pid : SlotsDe(q)' = SlotsDe(q)
  BY <1>1 DEF SlotsDe
<1>3. ASSUME NEW q \in Pid PROVE ContenidoDe(q)' = ContenidoDe(q)
  <2>1. CASE q \in procesos_memoria \/ q \notin procesos_swap
    BY <1>1, <2>1 DEF ContenidoDe
  <2>2. CASE q \notin procesos_memoria /\ q \in procesos_swap
    <3> DEFINE C(S) == CHOOSE g \in PrimerosDe(S, Paginas[q]) : TRUE
    <3>1. ContenidoDe(q) = [i \in 1..Paginas[q] |-> swapfile[C(SlotsDe(q))[i]]]
      BY <2>2 DEF ContenidoDe
    <3>2. ContenidoDe(q)' =
             [i \in 1..Paginas[q] |-> swapfile'[C(SlotsDe(q)')[i]]]
      BY <1>1, <2>2 DEF ContenidoDe
    <3> HIDE DEF C
    <3> QED
      BY <1>1, <1>2, <3>1, <3>2
  <2> QED
    BY <2>1, <2>2
<1> QED
  BY <1>1, <1>3

LEMMA DumpEsVolcar ==
    ASSUME Lados, NEW p \in Pid, DumpDeMemoria(p) PROVE Virtual!Volcar(p)
<1>1. /\ p \in procesos_memoria
      /\ volcado' = [i \in 1..Paginas[p] |-> espacio_usuario[tabla[p][i]]]
      /\ UNCHANGED <<espacio_usuario, tabla, listaVars, swapVars>>
  BY DEF DumpDeMemoria, marcoVars
<1>2. volcado' = [q \in Pid |-> ContenidoDe(q)][p]
  BY <1>1 DEF ContenidoDe
<1> QED
  BY <1>1, <1>2, NadaCambia DEF Virtual!Volcar

\* A write to a page changes no other page of any process.
LEMMA EscribirEsEscribir ==
    ASSUME Lados, NEW p \in Pid, NEW i \in 1..Paginas[p], NEW v \in Valor,
           EscribirEspacio(p, i, v)
    PROVE  Virtual!Escribir(p, i, v)
<1>1. /\ p \in procesos_memoria
      /\ espacio_usuario' = [espacio_usuario EXCEPT ![tabla[p][i]] = v]
      /\ UNCHANGED <<tabla, procesos_memoria, procesos_swap, creados,
                     lista_swap, swapfile, volcado>>
  BY DEF EscribirEspacio, listaVars, swapVars
<1>2. tabla[p][i] \in Marco /\ espacio_usuario \in [Marco -> Valor]
  BY <1>1, PaginasEnMarcos DEF Lados, Inv, TypeOK
<1>3. MarcosRepartidos
  BY DEF Lados, Inv
<1>4. ASSUME NEW q \in procesos_memoria, NEW j \in 1..Paginas[q],
             q # p \/ j # i
      PROVE  espacio_usuario'[tabla[q][j]] = espacio_usuario[tabla[q][j]]
  <2>1. tabla[q][j] \in Marco
    BY PaginasEnMarcos DEF Lados
  <2>2. tabla[q][j] # tabla[p][i]
    <3>1. CASE q = p
      BY <3>1, <1>1, <1>3, <1>4 DEF MarcosRepartidos
    <3>2. CASE q # p
      <4>1. tabla[q][j] \in Imagen(tabla[q]) /\ tabla[p][i] \in Imagen(tabla[p])
        BY <1>1, <1>3 DEF MarcosRepartidos, Imagen
      <4> QED
        BY <4>1, <3>2, <1>1, <1>3 DEF MarcosRepartidos
    <3> QED
      BY <3>1, <3>2
  <2> QED
    BY <2>1, <2>2, <1>1, <1>2
<1>5. ContenidoDe(p)' = [ContenidoDe(p) EXCEPT ![i] = v]
  <2> DEFINE a == [j \in 1..Paginas[p] |-> espacio_usuario[tabla[p][j]]]
             b == [j \in 1..Paginas[p] |-> espacio_usuario'[tabla[p][j]]]
  <2>1. ContenidoDe(p) = a /\ ContenidoDe(p)' = b
    BY <1>1 DEF ContenidoDe
  <2>2. b[i] = v /\ \A j \in 1..Paginas[p] : j # i => b[j] = a[j]
    BY <1>1, <1>2, <1>4
  <2>3. b = [a EXCEPT ![i] = v]
    BY <2>2
  <2> QED
    BY <2>1, <2>3
<1>6. ASSUME NEW q \in Pid, q # p
      PROVE  ContenidoDe(q)' = ContenidoDe(q)
  <2>1. SlotsDe(q)' = SlotsDe(q)
    BY <1>1 DEF SlotsDe
  <2> QED
    BY <1>1, <1>4, <1>6, <2>1, ContenidoQuieto DEF Lados
<1>7. [q \in Pid |-> ContenidoDe(q)]' =
         [[q \in Pid |-> ContenidoDe(q)] EXCEPT ![p][i] = v]
  BY <1>5, <1>6
<1> QED
  BY <1>1, <1>7 DEF Virtual!Escribir

\* memoria gives every process a fixed number of pages that change only when
\* the process writes them, however often it goes to swap and comes back; a
\* dump holds exactly those pages (manejo_swap.c, lectura_escritura.c).
THEOREM PaginasVirtuales == Spec => ImplementaVirtual
<1>1. Init => Virtual!Init
  <2> SUFFICES ASSUME Init PROVE Virtual!Init
    OBVIOUS
  <2>1. \A p \in Pid : ContenidoDe(p) = <<>>
    BY DEF Init, ContenidoDe
  <2> QED
    BY <2>1 DEF Init, Virtual!Init
<1>2. InvVirtual /\ InvVirtual' /\ [Next]_vars => [Virtual!Next]_(Virtual!mvars)
  <2> SUFFICES ASSUME InvVirtual, InvVirtual', [Next]_vars
               PROVE  Virtual!Next \/ UNCHANGED Virtual!mvars
    BY DEF Virtual!mvars
  <2>1. Lados
    BY DEF Lados, InvVirtual, InvSwap, Inv, TypeOK
  <2>2. ASSUME NEW p \in Pid, IniciarProceso(p) PROVE Virtual!Next
    BY <2>1, <2>2, IniciarEsCrear DEF Virtual!Next
  <2>3. ASSUME NEW p \in Pid, FinProceso(p) PROVE Virtual!Next
    BY <2>1, <2>3, FinEsTerminar DEF Virtual!Next
  <2>4. ASSUME NEW p \in Pid, EnviarASwap(p) PROVE UNCHANGED Virtual!mvars
    BY <2>1, <2>4, EnviarNoSeVe
  <2>5. ASSUME NEW p \in Pid, SacarDeSwap(p) PROVE UNCHANGED Virtual!mvars
    BY <2>1, <2>5, SacarNoSeVe
  <2>6. ASSUME NEW p \in Pid, DumpDeMemoria(p) PROVE Virtual!Next
    BY <2>1, <2>6, DumpEsVolcar DEF Virtual!Next
  <2>7. ASSUME NEW p \in Pid, NEW i \in 1..Paginas[p], NEW v \in Valor,
               EscribirEspacio(p, i, v)
        PROVE  Virtual!Next
    BY <2>1, <2>7, EscribirEsEscribir DEF Virtual!Next
  <2>8. CASE UNCHANGED vars
    BY <2>8, NadaCambia DEF vars, marcoVars, Virtual!mvars
  <2> QED
    BY <2>2, <2>3, <2>4, <2>5, <2>6, <2>7, <2>8 DEF Next
<1> QED
  BY <1>1, <1>2, InvarianteVirtual, PTL
     DEF Spec, ImplementaVirtual, Virtual!Spec
=============================================================================
