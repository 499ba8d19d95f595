---------------------------- MODULE TablaProofs -----------------------------
(***************************************************************************)
(* Multilevel page tables of every shape: any number of entries in a       *)
(* table, any number of levels and any number of pages that fit.           *)
(*                                                                         *)
(* Induction is over sets of numbers, with the least member of what would  *)
(* be left out.  For each recursive function of module TablaDePaginas it   *)
(* is first shown that there is a function with its equation, and then     *)
(* what the values are.                                                    *)
(***************************************************************************)
EXTENDS TablaDePaginas, Listas

-----------------------------------------------------------------------------
(* Induction *)

\* From 0 up to n.
LEMMA InduccionHasta ==
    ASSUME NEW n \in Nat, NEW T, 0 \in T,
           \A i \in 0..(n - 1) : i \in T => i + 1 \in T
    PROVE  \A i \in 0..n : i \in T
<1> DEFINE mal == {i \in 0..n : i \notin T}
<1>1. ASSUME mal # {} PROVE FALSE
  <2>1. mal \in SUBSET Nat
    OBVIOUS
  <2>2. PICK x \in mal : \A y \in mal : x <= y
    BY <1>1, <2>1, HayMenor
  <2>3. x \in 1..n /\ x \notin T /\ x - 1 \in 0..(n - 1) /\ (x - 1) + 1 = x
    OBVIOUS
  <2>4. x - 1 \notin mal
    BY <2>2, <2>3
  <2> QED
    BY <2>3, <2>4
<1> QED
  BY <1>1

\* From n down to m.
LEMMA InduccionDesde ==
    ASSUME NEW m \in Nat, NEW n \in Nat, NEW T, n \in T,
           \A i \in m..(n - 1) : i + 1 \in T => i \in T
    PROVE  \A i \in m..n : i \in T
<1> DEFINE mal == {i \in m..n : i \notin T}
<1>1. ASSUME mal # {} PROVE FALSE
  <2>1. mal \in SUBSET (0..n)
    OBVIOUS
  <2>2. PICK x \in mal : \A y \in mal : x >= y
    BY <1>1, <2>1, HayMayor
  <2>3. x \in m..(n - 1) /\ x \notin T /\ x + 1 \in m..n
    OBVIOUS
  <2>4. x + 1 \notin mal
    BY <2>2, <2>3
  <2> QED
    BY <2>3, <2>4
<1> QED
  BY <1>1

-----------------------------------------------------------------------------
(* The pages of whole tables *)

EsPotencia(e, n, f) ==
    f = [i \in 0..n |-> IF i = 0 THEN 1 ELSE e * f[i - 1]]

LEMMA HayPotencia ==
    ASSUME NEW e \in Nat \ {0}, NEW n \in Nat
    PROVE  \E f : EsPotencia(e, n, f)
<1> DEFINE T == {m \in 0..n : \E f : EsPotencia(e, m, f)}
<1>1. 0 \in T
  <2>1. EsPotencia(e, 0, [i \in 0..0 |-> 1])
    BY DEF EsPotencia
  <2> QED
    BY <2>1
<1>2. ASSUME NEW m \in 0..(n - 1), m \in T
      PROVE  m + 1 \in T
  <2>1. PICK f : EsPotencia(e, m, f)
    BY <1>2
  <2> DEFINE g == [i \in 0..(m + 1) |-> IF i = m + 1 THEN e * f[m] ELSE f[i]]
  <2>2. \A i \in 0..m : f[i] = IF i = 0 THEN 1 ELSE e * f[i - 1]
    BY <2>1 DEF EsPotencia
  <2>3. ASSUME NEW i \in 0..(m + 1)
        PROVE  g[i] = IF i = 0 THEN 1 ELSE e * g[i - 1]
    BY <2>2
  <2>4. EsPotencia(e, m + 1, g)
    BY <2>3 DEF EsPotencia
  <2> QED
    BY <2>4
<1> HIDE DEF T
<1>3. n \in T
  BY <1>1, <1>2, InduccionHasta
<1> QED
  BY <1>3 DEF T

LEMMA ValorDePotencia ==
    ASSUME NEW e \in Nat \ {0}, NEW n \in Nat
    PROVE  \E f : /\ EsPotencia(e, n, f)
                  /\ CapacidadDe(e, n) = f[n]
<1> DEFINE f == CHOOSE f : EsPotencia(e, n, f)
<1>1. EsPotencia(e, n, f)
  BY HayPotencia
<1>2. CapacidadDe(e, n) = f[n]
  BY DEF CapacidadDe, EsPotencia
<1> QED
  BY <1>1, <1>2

\* e to the n.
LEMMA CapacidadProps ==
    ASSUME NEW e \in Nat \ {0}, NEW n \in Nat
    PROVE  /\ CapacidadDe(e, 0) = 1
           /\ CapacidadDe(e, n + 1) = e * CapacidadDe(e, n)
           /\ CapacidadDe(e, n) \in Nat \ {0}
<1>1. CapacidadDe(e, 0) = 1
  BY ValorDePotencia DEF EsPotencia
<1>2. PICK f : EsPotencia(e, n, f) /\ CapacidadDe(e, n) = f[n]
  BY ValorDePotencia
<1>3. PICK g : EsPotencia(e, n + 1, g) /\ CapacidadDe(e, n + 1) = g[n + 1]
  BY ValorDePotencia
<1>4. \A i \in 0..n : f[i] = IF i = 0 THEN 1 ELSE e * f[i - 1]
  BY <1>2 DEF EsPotencia
<1>5. \A i \in 0..(n + 1) : g[i] = IF i = 0 THEN 1 ELSE e * g[i - 1]
  BY <1>3 DEF EsPotencia
<1> DEFINE T == {i \in 0..n : f[i] = g[i] /\ f[i] \in Nat \ {0}}
<1>6. 0 \in T
  BY <1>4, <1>5
<1>7. ASSUME NEW i \in 0..(n - 1), i \in T
      PROVE  i + 1 \in T
  <2>1. f[i + 1] = e * f[i] /\ g[i + 1] = e * g[i]
    BY <1>4, <1>5
  <2>2. \A x \in Nat \ {0} : e * x \in Nat \ {0}
    OBVIOUS
  <2> QED
    BY <1>7, <2>1, <2>2
<1> HIDE DEF T
<1>8. n \in T
  BY <1>6, <1>7, InduccionHasta
<1>9. g[n + 1] = e * g[n]
  BY <1>5
<1> QED
  BY <1>1, <1>2, <1>3, <1>8, <1>9 DEF T

-----------------------------------------------------------------------------
(* One table *)

Menor(a, b) == IF a <= b THEN a ELSE b

LEMMA Multiplos ==
    ASSUME NEW c \in Nat \ {0}, NEW i \in Nat, NEW j \in Nat
    PROVE  /\ i * c \in Nat
           /\ (i + 1) * c = i * c + c
           /\ i <= j => i * c <= j * c
           /\ i < j => i * c + c <= j * c
<1>1. i * c \in Nat /\ (i + 1) * c = i * c + c
  OBVIOUS
<1>2. ASSUME NEW a \in Nat, NEW b \in Nat, a <= b PROVE a * c <= b * c
  <2>1. b - a \in Nat /\ (b - a) * c \in Nat /\ b * c = a * c + (b - a) * c
    BY <1>2
  <2>2. a * c \in Int /\ b * c \in Int
    OBVIOUS
  <2> QED
    BY <2>1, <2>2
<1>3. ASSUME i < j PROVE i * c + c <= j * c
  <2>1. i + 1 \in Nat /\ i + 1 <= j
    BY <1>3
  <2> QED
    BY <2>1, <1>2, <1>1
<1> QED
  BY <1>1, <1>2, <1>3

EsHasta(e, hijo, total, k, f) ==
    f = [i \in 0..e |->
          IF i = 0 THEN [nodo |-> <<>>, contador |-> k]
          ELSE IF f[i - 1].contador = total THEN f[i - 1]
          ELSE [nodo |-> Append(f[i - 1].nodo, hijo[f[i - 1].contador].nodo),
                contador |-> hijo[f[i - 1].contador].contador]]

LEMMA HayHasta ==
    ASSUME NEW e \in Nat, NEW hijo, NEW total, NEW k
    PROVE  \E f : EsHasta(e, hijo, total, k, f)
<1> DEFINE T == {m \in 0..e : \E f : EsHasta(m, hijo, total, k, f)}
           Paso(t) == IF t.contador = total THEN t
                      ELSE [nodo |-> Append(t.nodo, hijo[t.contador].nodo),
                            contador |-> hijo[t.contador].contador]
           Inicio == [nodo |-> <<>>, contador |-> k]
<1>0. \A m, f : EsHasta(m, hijo, total, k, f)
                  <=> f = [i \in 0..m |-> IF i = 0 THEN Inicio ELSE Paso(f[i - 1])]
  BY DEF EsHasta
<1> HIDE DEF Paso, Inicio
<1>1. 0 \in T
  <2> DEFINE g == [i \in 0..0 |-> Inicio]
  <2>0. g = [i \in 0..0 |-> IF i = 0 THEN Inicio ELSE Paso(g[i - 1])]
    OBVIOUS
  <2> HIDE DEF g
  <2>1. EsHasta(0, hijo, total, k, g)
    BY <2>0, <1>0
  <2> QED
    BY <2>1
<1>2. ASSUME NEW m \in 0..(e - 1), m \in T
      PROVE  m + 1 \in T
  <2>1. PICK f : EsHasta(m, hijo, total, k, f)
    BY <1>2
  <2> DEFINE g == [i \in 0..(m + 1) |-> IF i = m + 1 THEN Paso(f[m]) ELSE f[i]]
  <2>2. \A i \in 0..m : f[i] = IF i = 0 THEN Inicio ELSE Paso(f[i - 1])
    BY <2>1, <1>0
  <2>3. ASSUME NEW i \in 0..(m + 1)
        PROVE  g[i] = IF i = 0 THEN Inicio ELSE Paso(g[i - 1])
    BY <2>2
  <2>4. EsHasta(m + 1, hijo, total, k, g)
    BY <2>3, <1>0
  <2> HIDE DEF g
  <2> QED
    BY <2>4
<1> HIDE DEF T
<1>3. e \in T
  BY <1>1, <1>2, InduccionHasta
<1> QED
  BY <1>3 DEF T

\* What the loop of a table has after i entries, when the level below takes
\* c pages, or those left, for each.
Tramo(hijo, total, k, c, i, t) ==
    /\ t.contador = Menor(total, k + i * c)
    /\ t.nodo \in Seq({hijo[m].nodo : m \in 0..(total - 1)})
    /\ Len(t.nodo) <= i
    /\ \A j \in 1..i : j <= Len(t.nodo) <=> k + (j - 1) * c < total
    /\ \A j \in 1..Len(t.nodo) : t.nodo[j] = hijo[k + (j - 1) * c].nodo

LEMMA UnaEntrada ==
    ASSUME NEW total \in Nat, NEW c \in Nat \ {0}, NEW hijo,
           NEW k \in 0..(total - 1), NEW i \in Nat, NEW t,
           \A m \in 0..(total - 1) : hijo[m].contador = Menor(total, m + c),
           Tramo(hijo, total, k, c, i, t)
    PROVE  Tramo(hijo, total, k, c, i + 1,
              IF t.contador = total THEN t
              ELSE [nodo |-> Append(t.nodo, hijo[t.contador].nodo),
                    contador |-> hijo[t.contador].contador])
<1> DEFINE S == {hijo[m].nodo : m \in 0..(total - 1)}
           q == k + i * c
<1>1. /\ q \in Nat /\ k + (i + 1) * c = q + c
      /\ \A j \in 1..i : k + (j - 1) * c \in Nat /\ k + (j - 1) * c <= q
  <2>1. i * c \in Nat /\ (i + 1) * c = i * c + c
    BY Multiplos
  <2>2. ASSUME NEW j \in 1..i
        PROVE  (j - 1) * c \in Nat /\ (j - 1) * c <= i * c
    <3>1. j - 1 \in Nat /\ j - 1 <= i
      OBVIOUS
    <3> QED
      BY <3>1, Multiplos
  <2> QED
    BY <2>1, <2>2
<1>2. k + ((i + 1) - 1) * c = q
  <2>1. (i + 1) - 1 = i
    OBVIOUS
  <2> QED
    BY <2>1
<1>3. /\ t.contador = Menor(total, q)
      /\ t.nodo \in Seq(S) /\ Len(t.nodo) <= i
      /\ \A j \in 1..i : j <= Len(t.nodo) <=> k + (j - 1) * c < total
      /\ \A j \in 1..Len(t.nodo) : t.nodo[j] = hijo[k + (j - 1) * c].nodo
  BY DEF Tramo
<1>4. Len(t.nodo) \in Nat
  BY <1>3, LenProperties
<1> HIDE DEF q
<1>5. CASE t.contador = total
  <2>1. total <= q
    BY <1>1, <1>3, <1>5 DEF Menor
  <2>2. t.contador = Menor(total, k + (i + 1) * c)
    BY <2>1, <1>1, <1>5 DEF Menor
  <2>3. \A j \in 1..(i + 1) : j <= Len(t.nodo) <=> k + (j - 1) * c < total
    <3>1. ~ (i + 1 <= Len(t.nodo)) /\ ~ (q < total)
      BY <2>1, <1>1, <1>3, <1>4
    <3>2. \A j \in 1..(i + 1) : j \in 1..i \/ j = i + 1
      OBVIOUS
    <3> QED
      BY <3>1, <3>2, <1>2, <1>3
  <2>4. Len(t.nodo) <= i + 1
    BY <1>3, <1>4
  <2> QED
    BY <1>3, <1>5, <2>2, <2>3, <2>4 DEF Tramo
<1>6. CASE t.contador # total
  <2>1. t.contador = q /\ q < total
    BY <1>1, <1>3, <1>6 DEF Menor
  <2>2. \A j \in 1..i : j <= Len(t.nodo)
    BY <2>1, <1>1, <1>3
  <2>3. Len(t.nodo) = i
    BY <2>2, <1>3, <1>4
  <2> DEFINE nodo == Append(t.nodo, hijo[q].nodo)
  <2>4. hijo[q].nodo \in S
    BY <2>1, <1>1
  <2>5. /\ nodo \in Seq(S) /\ Len(nodo) = i + 1
        /\ nodo[i + 1] = hijo[q].nodo
        /\ \A j \in 1..i : nodo[j] = t.nodo[j]
    <3> HIDE DEF S
    <3>1. /\ nodo \in Seq(S) /\ Len(nodo) = Len(t.nodo) + 1
          /\ \A j \in 1..Len(t.nodo) : nodo[j] = t.nodo[j]
          /\ nodo[Len(t.nodo) + 1] = hijo[q].nodo
      BY <1>3, <2>4, AppendProperties
    <3> QED
      BY <3>1, <2>3
  <2>6. \A j \in 1..(i + 1) : j \in 1..i \/ j = i + 1
    OBVIOUS
  <2>7. \A j \in 1..(i + 1) : nodo[j] = hijo[k + (j - 1) * c].nodo
    BY <2>3, <2>5, <2>6, <1>2, <1>3
  <2>8. \A j \in 1..(i + 1) : k + (j - 1) * c < total
    BY <2>1, <2>2, <2>6, <1>2, <1>3
  <2>9. hijo[q].contador = Menor(total, k + (i + 1) * c)
    BY <2>1, <1>1
  <2> DEFINE t2 == [nodo |-> nodo, contador |-> hijo[q].contador]
  <2>10. Tramo(hijo, total, k, c, i + 1, t2)
    <3>1. t2.nodo = nodo /\ t2.contador = hijo[q].contador
      OBVIOUS
    <3>2. \A j \in 1..(i + 1) : j <= i + 1
      OBVIOUS
    <3> HIDE DEF t2, nodo
    <3>3. t2.contador = Menor(total, k + (i + 1) * c)
      BY <3>1, <2>9
    <3>4. t2.nodo \in Seq({hijo[m].nodo : m \in 0..(total - 1)})
      BY <3>1, <2>5
    <3>5. Len(t2.nodo) = i + 1
      BY <3>1, <2>5
    <3>6. \A j \in 1..(i + 1) : j <= Len(t2.nodo) <=> k + (j - 1) * c < total
      BY <3>2, <3>5, <2>8
    <3>7. \A j \in 1..Len(t2.nodo) : t2.nodo[j] = hijo[k + (j - 1) * c].nodo
      BY <3>1, <3>5, <2>7
    <3>8. Len(t2.nodo) <= i + 1
      BY <3>5
    <3> QED
      BY <3>3, <3>4, <3>6, <3>7, <3>8 DEF Tramo
  <2> QED
    BY <2>1, <2>10, <1>6
<1> QED
  BY <1>5, <1>6

LEMMA EntradasProps ==
    ASSUME NEW e \in Nat \ {0}, NEW total \in Nat, NEW c \in Nat \ {0}, NEW hijo,
           NEW k \in 0..(total - 1),
           \A m \in 0..(total - 1) : hijo[m].contador = Menor(total, m + c)
    PROVE  Tramo(hijo, total, k, c, e, Entradas(e, hijo, total, k)[e])
<1> DEFINE f == CHOOSE f : EsHasta(e, hijo, total, k, f)
           Paso(t) == IF t.contador = total THEN t
                      ELSE [nodo |-> Append(t.nodo, hijo[t.contador].nodo),
                            contador |-> hijo[t.contador].contador]
           Inicio == [nodo |-> <<>>, contador |-> k]
<1>1. EsHasta(e, hijo, total, k, f)
  BY HayHasta
<1>2. Entradas(e, hijo, total, k) = f
  BY DEF Entradas, EsHasta
<1> HIDE DEF f
<1>3. \A i \in 0..e : f[i] = IF i = 0 THEN Inicio ELSE Paso(f[i - 1])
  BY <1>1 DEF EsHasta
<1> HIDE DEF Paso
<1>0. e \in Nat
  OBVIOUS
<1> DEFINE T == {i \in 0..e : Tramo(hijo, total, k, c, i, f[i])}
<1>4. 0 \in T
  <2>1. f[0] = Inicio
    <3>1. 0 \in 0..e
      OBVIOUS
    <3> HIDE DEF Inicio
    <3> QED
      BY <3>1, <1>3
  <2>2. Inicio.nodo = <<>> /\ Inicio.contador = k
    OBVIOUS
  <2>3. 0 * c = 0 /\ k + 0 = k
    OBVIOUS
  <2>4. k = Menor(total, k + 0 * c)
    BY <2>3 DEF Menor
  <2>5. \A S : <<>> \in Seq(S) /\ Len(<<>>) = 0
    OBVIOUS
  <2>6. Tramo(hijo, total, k, c, 0, Inicio)
    BY <2>2, <2>4, <2>5 DEF Tramo
  <2> QED
    BY <2>1, <2>6
<1>5. ASSUME NEW i \in 0..(e - 1), i \in T
      PROVE  i + 1 \in T
  <2>1. f[i + 1] = Paso(f[i])
    <3>1. i + 1 \in 0..e /\ i + 1 # 0 /\ (i + 1) - 1 = i
      OBVIOUS
    <3> QED
      BY <3>1, <1>3
  <2>2. Tramo(hijo, total, k, c, i, f[i])
    BY <1>5
  <2>3. i \in Nat
    OBVIOUS
  <2>4. Tramo(hijo, total, k, c, i + 1, Paso(f[i]))
    BY <2>2, <2>3, UnaEntrada DEF Paso
  <2> QED
    BY <2>1, <2>4
<1> HIDE DEF T
<1>6. e \in T
  <2> HIDE DEF Inicio
  <2>1. \A i \in 0..e : i \in T
    BY <1>0, <1>4, <1>5, InduccionHasta
  <2>2. e \in 0..e
    BY <1>0
  <2> QED
    BY <2>1, <2>2
<1> QED
  BY <1>2, <1>6 DEF T

-----------------------------------------------------------------------------
(* The tables of every level *)

EsCrear(e, n, total, desde, f) ==
    f = [nivel \in desde..(n + 1) |->
           [k \in 0..(total - 1) |->
              IF nivel = n + 1 THEN [nodo |-> k, contador |-> k + 1]
              ELSE Entradas(e, f[nivel + 1], total, k)[e]]]

LEMMA HayCrear ==
    ASSUME NEW e \in Nat \ {0}, NEW n \in Nat \ {0}, NEW total \in Nat
    PROVE  \E f : EsCrear(e, n, total, 1, f)
<1> DEFINE T == {m \in 1..(n + 1) : \E f : EsCrear(e, n, total, m, f)}
           Nivel(nivel, hijo) ==
              [k \in 0..(total - 1) |->
                 IF nivel = n + 1 THEN [nodo |-> k, contador |-> k + 1]
                 ELSE Entradas(e, hijo, total, k)[e]]
<1>0. /\ \A m, f : EsCrear(e, n, total, m, f)
            <=> f = [nivel \in m..(n + 1) |-> Nivel(nivel, f[nivel + 1])]
      /\ \A x, y : Nivel(n + 1, x) = Nivel(n + 1, y)
  BY Zenon DEF EsCrear
<1> HIDE DEF Nivel
<1>1. n + 1 \in T
  <2> DEFINE g == [nivel \in (n + 1)..(n + 1) |-> Nivel(n + 1, 0)]
  <2>1. g = [nivel \in (n + 1)..(n + 1) |-> Nivel(nivel, g[nivel + 1])]
    BY <1>0
  <2> HIDE DEF g
  <2>2. EsCrear(e, n, total, n + 1, g)
    BY <2>1, <1>0
  <2> QED
    BY <2>2
<1>2. ASSUME NEW m \in 1..((n + 1) - 1), m + 1 \in T
      PROVE  m \in T
  <2>1. PICK f : EsCrear(e, n, total, m + 1, f)
    BY <1>2
  <2> DEFINE g == [nivel \in m..(n + 1) |->
                     IF nivel = m THEN Nivel(m, f[m + 1]) ELSE f[nivel]]
  <2>2. \A nivel \in (m + 1)..(n + 1) :
           f[nivel] = Nivel(nivel, f[nivel + 1])
    BY <2>1, <1>0
  <2>3. ASSUME NEW nivel \in m..(n + 1)
        PROVE  g[nivel] = Nivel(nivel, g[nivel + 1])
    <3>1. CASE nivel = m
      BY <3>1
    <3>2. CASE nivel # m
      <4>1. nivel \in (m + 1)..(n + 1) /\ g[nivel] = f[nivel]
        BY <3>2
      <4>2. nivel # n + 1 => g[nivel + 1] = f[nivel + 1]
        BY <3>2
      <4> HIDE DEF g
      <4>3. g[nivel] = Nivel(nivel, f[nivel + 1])
        BY <4>1, <2>2
      <4> QED
        BY <4>2, <4>3, <1>0
    <3> QED
      BY <3>1, <3>2
  <2>4. g = [nivel \in m..(n + 1) |-> Nivel(nivel, g[nivel + 1])]
    BY <2>3
  <2> HIDE DEF g
  <2>5. EsCrear(e, n, total, m, g)
    BY <2>4, <1>0
  <2>6. m \in 1..(n + 1)
    OBVIOUS
  <2> QED
    BY <2>5, <2>6
<1> HIDE DEF T
<1>3. 1 \in T
  <2>1. 1 \in Nat /\ n + 1 \in Nat /\ 1 \in 1..(n + 1)
    OBVIOUS
  <2>2. \A i \in 1..(n + 1) : i \in T
    BY <1>1, <1>2, <2>1, InduccionDesde
  <2> QED
    BY <2>1, <2>2
<1> QED
  BY <1>3 DEF T

\* The pages below an entry of the level above nivel.
Ancho(e, n, nivel) == CapacidadDe(e, n + 1 - nivel)

LEMMA AnchoProps ==
    ASSUME NEW e \in Nat \ {0}, NEW n \in Nat \ {0}
    PROVE  /\ Ancho(e, n, n + 1) = 1
           /\ Ancho(e, n, 1) = CapacidadDe(e, n)
           /\ \A nivel \in 1..n : Ancho(e, n, nivel) = e * Ancho(e, n, nivel + 1)
           /\ \A nivel \in 1..(n + 1) : Ancho(e, n, nivel) \in Nat \ {0}
<1>1. n + 1 - (n + 1) = 0 /\ n + 1 - 1 = n /\ n \in Nat
  OBVIOUS
<1>2. ASSUME NEW nivel \in 1..n
      PROVE  Ancho(e, n, nivel) = e * Ancho(e, n, nivel + 1)
  <2>1. /\ n + 1 - (nivel + 1) \in Nat
        /\ n + 1 - nivel = (n + 1 - (nivel + 1)) + 1
    OBVIOUS
  <2> QED
    BY <2>1, CapacidadProps DEF Ancho
<1>3. ASSUME NEW nivel \in 1..(n + 1)
      PROVE  Ancho(e, n, nivel) \in Nat \ {0}
  <2>1. n + 1 - nivel \in Nat
    OBVIOUS
  <2> QED
    BY <2>1, CapacidadProps DEF Ancho
<1> QED
  BY <1>1, <1>2, <1>3, CapacidadProps DEF Ancho

\* A table of a level made when there are k pages takes as many as fit in it.
LEMMA NodosProps ==
    ASSUME NEW e \in Nat \ {0}, NEW n \in Nat \ {0}, NEW total \in Nat
    PROVE  /\ \A nivel \in 1..n, k \in 0..(total - 1) :
                 Tramo(Nodos(e, n, total)[nivel + 1], total, k,
                       Ancho(e, n, nivel + 1), e, Nodos(e, n, total)[nivel][k])
           /\ \A k \in 0..(total - 1) : Nodos(e, n, total)[n + 1][k].nodo = k
<1> DEFINE N == CHOOSE f : EsCrear(e, n, total, 1, f)
<1>1. EsCrear(e, n, total, 1, N)
  BY HayCrear
<1>2. Nodos(e, n, total) = N
  BY DEF Nodos, EsCrear
<1> HIDE DEF N
<1>3. ASSUME NEW nivel \in 1..(n + 1), NEW k \in 0..(total - 1)
      PROVE  N[nivel][k] =
                IF nivel = n + 1 THEN [nodo |-> k, contador |-> k + 1]
                ELSE Entradas(e, N[nivel + 1], total, k)[e]
  <2>1. N[nivel] = [j \in 0..(total - 1) |->
                      IF nivel = n + 1 THEN [nodo |-> j, contador |-> j + 1]
                      ELSE Entradas(e, N[nivel + 1], total, j)[e]]
    BY <1>1, Zenon DEF EsCrear
  <2> QED
    BY <2>1, Zenon
<1> DEFINE Bien(nivel) ==
             \A k \in 0..(total - 1) :
                /\ N[nivel][k].contador = Menor(total, k + Ancho(e, n, nivel))
                /\ nivel = n + 1 => N[nivel][k].nodo = k
                /\ nivel # n + 1 =>
                      Tramo(N[nivel + 1], total, k, Ancho(e, n, nivel + 1), e,
                            N[nivel][k])
           T == {nivel \in 1..(n + 1) : Bien(nivel)}
<1>4. n + 1 \in T
  <2>1. n + 1 \in 1..(n + 1) /\ Ancho(e, n, n + 1) = 1
    BY AnchoProps
  <2>2. ASSUME NEW k \in 0..(total - 1)
        PROVE  /\ N[n + 1][k].contador = Menor(total, k + Ancho(e, n, n + 1))
               /\ N[n + 1][k].nodo = k
    <3>1. N[n + 1][k] = [nodo |-> k, contador |-> k + 1]
      BY <2>1, <1>3
    <3>2. N[n + 1][k].contador = k + 1 /\ N[n + 1][k].nodo = k
      BY <3>1
    <3>3. Menor(total, k + 1) = k + 1
      BY DEF Menor
    <3> QED
      BY <3>2, <3>3, <2>1
  <2>3. Bien(n + 1)
    BY <2>2
  <2> HIDE DEF Bien
  <2> QED
    BY <2>1, <2>3
<1>5. ASSUME NEW nivel \in 1..((n + 1) - 1), nivel + 1 \in T
      PROVE  nivel \in T
  <2> DEFINE c == Ancho(e, n, nivel + 1)
             hijo == N[nivel + 1]
  <2>1. /\ nivel \in 1..n /\ nivel \in 1..(n + 1) /\ nivel # n + 1
        /\ nivel + 1 \in 1..(n + 1)
    OBVIOUS
  <2>2. c \in Nat \ {0} /\ Ancho(e, n, nivel) = e * c
    BY <2>1, AnchoProps
  <2>3. Bien(nivel + 1)
    <3> HIDE DEF Bien
    <3> QED
      BY <1>5
  <2>4. \A k \in 0..(total - 1) : hijo[k].contador = Menor(total, k + c)
    BY <2>3
  <2>5. ASSUME NEW k \in 0..(total - 1)
        PROVE  /\ N[nivel][k].contador = Menor(total, k + Ancho(e, n, nivel))
               /\ Tramo(hijo, total, k, c, e, N[nivel][k])
    <3>1. N[nivel][k] = Entradas(e, hijo, total, k)[e]
      BY <2>1, <1>3
    <3> HIDE DEF c, hijo
    <3>2. Tramo(hijo, total, k, c, e, N[nivel][k])
      BY <3>1, <2>2, <2>4, EntradasProps
    <3> QED
      BY <3>2, <2>2 DEF Tramo
  <2>6. Bien(nivel)
    BY <2>1, <2>5
  <2> HIDE DEF Bien
  <2> QED
    BY <2>1, <2>6
<1> HIDE DEF T
<1>6. \A nivel \in 1..(n + 1) : nivel \in T
  <2>1. 1 \in Nat /\ n + 1 \in Nat
    OBVIOUS
  <2> QED
    BY <1>4, <1>5, <2>1, InduccionDesde
<1>7. \A nivel \in 1..(n + 1) : Bien(nivel)
  <2> HIDE DEF Bien
  <2> QED
    BY <1>6 DEF T
<1>8. /\ \A nivel \in 1..n : nivel \in 1..(n + 1) /\ nivel # n + 1
      /\ n + 1 \in 1..(n + 1)
  OBVIOUS
<1> QED
  BY <1>2, <1>7, <1>8

-----------------------------------------------------------------------------
(* The walk *)

LEMMA DivisionUnica ==
    ASSUME NEW d \in Nat \ {0}, NEW x \in Nat, NEW y \in Nat,
           NEW r \in 0..(d - 1), x = y * d + r
    PROVE  x \div d = y
<1> DEFINE q == x \div d
           s == x % d
<1>1. q \in Nat /\ s \in 0..(d - 1) /\ x = q * d + s
  OBVIOUS
<1> HIDE DEF q, s
<1>2. ASSUME q < y PROVE FALSE
  <2>1. q * d + d <= y * d /\ q * d \in Nat /\ y * d \in Nat
    BY <1>1, <1>2, Multiplos
  <2> QED
    BY <2>1, <1>1
<1>3. ASSUME y < q PROVE FALSE
  <2>1. y * d + d <= q * d /\ q * d \in Nat /\ y * d \in Nat
    BY <1>1, <1>3, Multiplos
  <2> QED
    BY <2>1, <1>1
<1>4. q = y
  BY <1>1, <1>2, <1>3
<1> QED
  BY <1>4 DEF q

\* The pages before the entry of a level that leads to page nro.
LEMMA EntradaDeNivel ==
    ASSUME NEW nro \in Nat, NEW c \in Nat \ {0}, NEW e \in Nat \ {0}
    PROVE  /\ (nro \div c) * c = (nro \div (e * c)) * (e * c)
                                   + ((nro \div c) % e) * c
           /\ (nro \div c) % e \in 0..(e - 1)
           /\ (nro \div c) * c \in Nat /\ (nro \div c) * c <= nro
           /\ ((nro \div c) % e) * c \in Nat
<1> DEFINE q == nro \div c
           r == nro % c
           q2 == q \div e
           a == q % e
           d == e * c
<1>1. q \in Nat /\ r \in 0..(c - 1) /\ nro = q * c + r
  OBVIOUS
<1> HIDE DEF q, r
<1>2. q2 \in Nat /\ a \in 0..(e - 1) /\ q = q2 * e + a
  BY <1>1
<1> HIDE DEF q2, a
<1>3. q * c = (q2 * e) * c + a * c
  <2>1. \A x, y \in Nat : (x + y) * c = x * c + y * c
    OBVIOUS
  <2>2. q2 * e \in Nat /\ a \in Nat
    BY <1>2
  <2> QED
    BY <2>1, <2>2, <1>2
<1>4. (q2 * e) * c = q2 * d /\ d \in Nat \ {0}
  BY <1>2
<1>5. q * c \in Nat /\ a * c \in Nat /\ q2 * d \in Nat
  <2>1. \A x, y \in Nat : x * y \in Nat
    OBVIOUS
  <2>2. a \in Nat
    BY <1>2
  <2> QED
    BY <2>1, <2>2, <1>1, <1>2, <1>4
<1>6. a * c + r \in 0..(d - 1)
  <2>1. a \in Nat /\ e \in Nat /\ a < e
    BY <1>2
  <2>2. a * c + c <= e * c
    BY <2>1, Multiplos
  <2> QED
    BY <2>2, <1>1, <1>4, <1>5
<1>7. nro \div d = q2
  <2>1. nro = q2 * d + (a * c + r)
    BY <1>1, <1>3, <1>4, <1>5
  <2> HIDE DEF d
  <2> QED
    BY <2>1, <1>2, <1>4, <1>6, DivisionUnica
<1>8. q * c <= nro
  BY <1>1, <1>5
<1>9. q * c = (nro \div d) * d + a * c
  BY <1>3, <1>4, <1>7
<1> QED
  BY <1>2, <1>5, <1>8, <1>9 DEF q, a

EsCamino(n, raiz, accesos, f) ==
    f = [i \in 0..n |-> IF i = 0 THEN raiz ELSE f[i - 1][accesos[i] + 1]]

LEMMA HayCamino ==
    ASSUME NEW n \in Nat, NEW raiz, NEW accesos
    PROVE  \E f : EsCamino(n, raiz, accesos, f)
<1> DEFINE T == {m \in 0..n : \E f : EsCamino(m, raiz, accesos, f)}
<1>1. 0 \in T
  <2>1. EsCamino(0, raiz, accesos, [i \in 0..0 |-> raiz])
    BY DEF EsCamino
  <2> QED
    BY <2>1
<1>2. ASSUME NEW m \in 0..(n - 1), m \in T
      PROVE  m + 1 \in T
  <2>1. PICK f : EsCamino(m, raiz, accesos, f)
    BY <1>2
  <2> DEFINE g == [i \in 0..(m + 1) |->
                     IF i = m + 1 THEN f[m][accesos[m + 1] + 1] ELSE f[i]]
  <2>2. \A i \in 0..m : f[i] = IF i = 0 THEN raiz ELSE f[i - 1][accesos[i] + 1]
    BY <2>1 DEF EsCamino
  <2>3. ASSUME NEW i \in 0..(m + 1)
        PROVE  g[i] = IF i = 0 THEN raiz ELSE g[i - 1][accesos[i] + 1]
    BY <2>2
  <2>4. EsCamino(m + 1, raiz, accesos, g)
    BY <2>3 DEF EsCamino
  <2> HIDE DEF g
  <2> QED
    BY <2>4
<1> HIDE DEF T
<1>3. n \in T
  BY <1>1, <1>2, InduccionHasta
<1> QED
  BY <1>3 DEF T

LEMMA CaminoProps ==
    ASSUME NEW n \in Nat, NEW raiz, NEW accesos
    PROVE  LET f == Camino(n, raiz, accesos) IN
           /\ f[0] = raiz
           /\ \A i \in 0..(n - 1) : f[i + 1] = f[i][accesos[i + 1] + 1]
<1> DEFINE f == CHOOSE f : EsCamino(n, raiz, accesos, f)
<1>1. EsCamino(n, raiz, accesos, f)
  BY HayCamino
<1>2. Camino(n, raiz, accesos) = f
  BY DEF Camino, EsCamino
<1> HIDE DEF f
<1>3. \A i \in 0..n : f[i] = IF i = 0 THEN raiz ELSE f[i - 1][accesos[i] + 1]
  BY <1>1 DEF EsCamino
<1>4. ASSUME NEW i \in 0..(n - 1)
      PROVE  f[i + 1] = f[i][accesos[i + 1] + 1]
  <2>1. i + 1 \in 0..n /\ i + 1 # 0 /\ (i + 1) - 1 = i
    OBVIOUS
  <2> QED
    BY <2>1, <1>3
<1>5. f[0] = raiz
  BY <1>3
<1> QED
  BY <1>2, <1>4, <1>5

\* Page nro is found when it is below total, and only then.
LEMMA BuscarExacto ==
    ASSUME NULL \notin Nat, NEW e \in Nat \ {0}, NEW n \in Nat \ {0},
           NEW total \in Nat \ {0}, NEW nro \in 0..(CapacidadDe(e, n) - 1)
    PROVE  BuscarPagina(n, CrearTabla(e, n, total), Accesos(e, n, nro))
              = IF nro < total THEN nro ELSE NULL
<1> DEFINE N == Nodos(e, n, total)
           raiz == CrearTabla(e, n, total)
           a == Accesos(e, n, nro)
           f == Camino(n, raiz, a)
           c(i) == Ancho(e, n, i + 1)
           B(i) == (nro \div c(i)) * c(i)
           Hasta(i) == \A j \in 1..i : a[j] < Len(f[j - 1])
<1>0. /\ n \in Nat /\ total \in Nat /\ nro \in Nat
      /\ nro < CapacidadDe(e, n)
  BY CapacidadProps
<1>1. /\ c(0) = CapacidadDe(e, n) /\ c(n) = 1
      /\ \A i \in 0..n : c(i) \in Nat \ {0}
      /\ \A i \in 0..(n - 1) : c(i) = e * c(i + 1)
  <2>1. 0 + 1 = 1
    OBVIOUS
  <2>2. \A i \in 0..n : i + 1 \in 1..(n + 1)
    OBVIOUS
  <2>3. \A i \in 0..(n - 1) : i + 1 \in 1..n
    OBVIOUS
  <2>4. c(0) = CapacidadDe(e, n) /\ c(n) = 1
    BY <2>1, AnchoProps
  <2>5. \A i \in 0..n : c(i) \in Nat \ {0}
    BY <2>2, AnchoProps
  <2>6. \A i \in 0..(n - 1) : c(i) = e * c(i + 1)
    BY <2>3, AnchoProps
  <2> QED
    BY <2>4, <2>5, <2>6
<1>2. \A i \in 0..(n - 1) : a[i + 1] = (nro \div c(i + 1)) % e
  <2>1. ASSUME NEW i \in 0..(n - 1)
        PROVE  a[i + 1] = (nro \div c(i + 1)) % e
    <3>1. i + 1 \in 1..n /\ n - (i + 1) = n + 1 - ((i + 1) + 1)
      OBVIOUS
    <3>2. a[i + 1] = (nro \div CapacidadDe(e, n - (i + 1))) % e
      BY <3>1 DEF Accesos
    <3>3. CapacidadDe(e, n - (i + 1)) = CapacidadDe(e, n + 1 - ((i + 1) + 1))
      BY <3>1
    <3> QED
      BY <3>2, <3>3 DEF Ancho
  <2> QED
    BY <2>1
<1>3. f[0] = N[1][0].nodo
  <2>1. f[0] = raiz
    BY <1>0, CaminoProps
  <2> QED
    BY <2>1 DEF CrearTabla
<1>4. \A i \in 0..(n - 1) : f[i + 1] = f[i][a[i + 1] + 1]
  BY <1>0, CaminoProps
<1>5. BuscarPagina(n, raiz, a) = IF Hasta(n) THEN f[n] ELSE NULL
  BY DEF BuscarPagina
<1> HIDE DEF raiz, a, f, N
<1> DEFINE Bien(i) == /\ B(i) < total => Hasta(i) /\ f[i] = N[i + 1][B(i)].nodo
                      /\ Hasta(i) => B(i) < total
           T == {i \in 0..n : Bien(i)}
<1>6. 0 \in T
  <2>1. nro \div c(0) = 0
    <3>1. nro \in 0..(c(0) - 1) /\ nro = 0 * c(0) + nro /\ c(0) \in Nat \ {0}
      BY <1>0, <1>1
    <3> HIDE DEF c
    <3> QED
      BY <3>1, <1>0, DivisionUnica
  <2>2. B(0) = 0
    BY <2>1, <1>1
  <2>3. Hasta(0)
    OBVIOUS
  <2>4. 0 + 1 = 1 /\ 0 < total /\ 0 \in 0..n
    BY <1>0
  <2> HIDE DEF Hasta, B
  <2>5. Bien(0)
    BY <2>2, <2>3, <2>4, <1>3
  <2> HIDE DEF Bien
  <2> QED
    BY <2>4, <2>5
<1>7. ASSUME NEW i \in 0..(n - 1), i \in T
      PROVE  i + 1 \in T
  <2> DEFINE d == c(i + 1)
  <2>1. Bien(i)
    <3> HIDE DEF Bien
    <3> QED
      BY <1>7
  <2>2. /\ i \in 0..n /\ i + 1 \in 0..n /\ i + 1 \in 1..n /\ i + 1 \in 1..(n + 1)
        /\ (i + 1) - 1 = i /\ i + 1 # n + 1
    OBVIOUS
  <2>3. d \in Nat \ {0} /\ c(i) = e * d /\ a[i + 1] = (nro \div d) % e
    BY <2>2, <1>1, <1>2
  <2>4. /\ B(i + 1) = B(i) + a[i + 1] * d
        /\ a[i + 1] \in 0..(e - 1)
        /\ B(i + 1) \in Nat /\ a[i + 1] * d \in Nat
    <3> HIDE DEF d
    <3>1. /\ (nro \div d) * d = (nro \div (e * d)) * (e * d)
                                   + ((nro \div d) % e) * d
          /\ (nro \div d) % e \in 0..(e - 1)
          /\ (nro \div d) * d \in Nat
          /\ ((nro \div d) % e) * d \in Nat
      BY <2>3, <1>0, EntradaDeNivel
    <3>2. B(i + 1) = (nro \div d) * d
      BY DEF d
    <3>3. B(i) = (nro \div (e * d)) * (e * d)
      BY <2>3
    <3> HIDE DEF B
    <3> QED
      BY <3>1, <3>2, <3>3, <2>3
  <2>5. B(i) \in Nat
    <3>1. c(i) \in Nat \ {0}
      BY <2>2, <1>1
    <3> HIDE DEF c
    <3> QED
      BY <3>1, <1>0, EntradaDeNivel
  <2>6. Hasta(i + 1) <=> Hasta(i) /\ a[i + 1] < Len(f[i])
    <3>1. \A j \in 1..(i + 1) : j \in 1..i \/ j = i + 1
      OBVIOUS
    <3>2. \A j \in 1..i : j \in 1..(i + 1)
      OBVIOUS
    <3>3. i + 1 \in 1..(i + 1)
      OBVIOUS
    <3> QED
      BY <3>1, <3>2, <3>3, <2>2
  <2> HIDE DEF B, Hasta, c, d
  <2>7. ASSUME B(i) < total, f[i] = N[i + 1][B(i)].nodo
        PROVE  /\ a[i + 1] < Len(f[i]) <=> B(i + 1) < total
               /\ a[i + 1] < Len(f[i])
                    => f[i + 1] = N[(i + 1) + 1][B(i + 1)].nodo
    <3> DEFINE t == N[i + 1][B(i)]
               j == a[i + 1] + 1
    <3>1. B(i) \in 0..(total - 1)
      BY <2>5, <2>7, <1>0
    <3>2. Tramo(N[(i + 1) + 1], total, B(i), d, e, t)
      BY <3>1, <2>2, <1>0, NodosProps DEF N, d, c
    <3>3. j \in 1..e /\ j - 1 = a[i + 1]
      BY <2>4
    <3>4. Len(t.nodo) \in Nat
      BY <3>2, LenProperties DEF Tramo
    <3>5. /\ j <= Len(t.nodo) <=> B(i) + (j - 1) * d < total
          /\ j <= Len(t.nodo) =>
                t.nodo[j] = N[(i + 1) + 1][B(i) + (j - 1) * d].nodo
      <4> HIDE DEF t, j
      <4>1. /\ j <= Len(t.nodo) <=> B(i) + (j - 1) * d < total
        BY <3>2, <3>3 DEF Tramo
      <4>2. ASSUME j <= Len(t.nodo) PROVE j \in 1..Len(t.nodo)
        BY <4>2, <3>3, <3>4
      <4> QED
        BY <4>1, <4>2, <3>2 DEF Tramo
    <3>6. B(i) + (j - 1) * d = B(i + 1)
      BY <3>3, <2>4
    <3>7. a[i + 1] < Len(f[i]) <=> j <= Len(t.nodo)
      <4>1. f[i] = t.nodo
        BY <2>7
      <4>2. a[i + 1] \in Int
        BY <2>4
      <4> HIDE DEF t
      <4> QED
        BY <3>4, <4>1, <4>2
    <3>8. f[i + 1] = t.nodo[j]
      BY <2>7, <1>4
    <3> QED
      BY <3>5, <3>6, <3>7, <3>8
  <2>8. B(i + 1) < total => B(i) < total
    BY <2>4, <2>5, <1>0
  <2>9. Bien(i + 1)
    BY <2>1, <2>6, <2>7, <2>8
  <2> HIDE DEF Bien
  <2> QED
    BY <2>2, <2>9
<1> HIDE DEF T
<1>8. n \in T
  <2> HIDE DEF Bien, B, Hasta, c
  <2>1. \A i \in 0..n : i \in T
    BY <1>0, <1>6, <1>7, InduccionHasta
  <2>2. n \in 0..n
    BY <1>0
  <2> QED
    BY <2>1, <2>2
<1>9. Bien(n)
  <2> HIDE DEF Bien
  <2> QED
    BY <1>8 DEF T
<1>10. B(n) = nro
  BY <1>0, <1>1
<1>11. ASSUME nro < total PROVE f[n] = nro
  <2>1. nro \in 0..(total - 1) /\ n + 1 \in 1..(n + 1)
    BY <1>0, <1>11
  <2>2. N[n + 1][nro].nodo = nro
    <3>1. Nodos(e, n, total)[n + 1][nro].nodo = nro
      BY <2>1, <1>0, NodosProps
    <3> QED
      BY <3>1 DEF N
  <2> HIDE DEF B, Hasta
  <2> QED
    BY <2>2, <1>9, <1>10, <1>11
<1>12. Hasta(n) <=> nro < total
  <2> HIDE DEF B, Hasta
  <2> QED
    BY <1>9, <1>10
<1> HIDE DEF Hasta
<1> QED
  BY <1>5, <1>11, <1>12 DEF raiz, a

-----------------------------------------------------------------------------
(* The loops over a table *)

LEMMA InduccionDesdeUno ==
    ASSUME NEW n \in Nat \ {0}, NEW T, 1 \in T,
           \A i \in 1..(n - 1) : i \in T => i + 1 \in T
    PROVE  \A i \in 1..n : i \in T
<1> DEFINE U == T \cup {0}
<1>1. 0 \in U /\ n \in Nat
  OBVIOUS
<1>2. ASSUME NEW i \in 0..(n - 1), i \in U
      PROVE  i + 1 \in U
  <2>1. CASE i = 0
    BY <2>1
  <2>2. CASE i # 0
    BY <1>2, <2>2
  <2> QED
    BY <2>1, <2>2
<1> HIDE DEF U
<1>3. \A i \in 0..n : i \in U
  BY <1>1, <1>2, InduccionHasta
<1>4. \A i \in 1..n : i \in 0..n /\ i # 0
  OBVIOUS
<1> QED
  BY <1>3, <1>4 DEF U

\* f has the first entries of a level, at most limite of them, each for c
\* pages: Completo all of them.
Primeras(hijo, total, c, limite, f) ==
    /\ f \in Seq({hijo[m].nodo : m \in 0..(total - 1)})
    /\ \A i \in Nat \ {0} :
          i <= Len(f) <=> i <= limite /\ (i - 1) * c < total
    /\ \A i \in 1..Len(f) : f[i] = hijo[(i - 1) * c].nodo

Completo(hijo, total, c, f) ==
    /\ f \in Seq({hijo[m].nodo : m \in 0..(total - 1)})
    /\ \A i \in Nat \ {0} : i <= Len(f) <=> (i - 1) * c < total
    /\ \A i \in 1..Len(f) : f[i] = hijo[(i - 1) * c].nodo

LEMMA UnaTablaMas ==
    ASSUME NEW total \in Nat, NEW c \in Nat \ {0}, NEW e \in Nat \ {0},
           NEW hijo, NEW j \in Nat, NEW f, NEW t, j * (e * c) < total,
           Primeras(hijo, total, c, j * e, f),
           Tramo(hijo, total, j * (e * c), c, e, t)
    PROVE  Primeras(hijo, total, c, (j + 1) * e, f \o t.nodo)
<1> DEFINE S == {hijo[m].nodo : m \in 0..(total - 1)}
           L == j * e
           k == j * (e * c)
           u == t.nodo
           g == f \o u
<1>1. L \in Nat /\ (j + 1) * e = L + e /\ k = L * c
  OBVIOUS
<1>2. /\ f \in Seq(S) /\ Len(f) \in Nat
      /\ \A i \in Nat \ {0} : i <= Len(f) <=> i <= L /\ (i - 1) * c < total
      /\ \A i \in 1..Len(f) : f[i] = hijo[(i - 1) * c].nodo
  BY LenProperties DEF Primeras
<1>3. /\ u \in Seq(S) /\ Len(u) \in Nat /\ Len(u) <= e
      /\ \A d \in 1..e : d <= Len(u) <=> k + (d - 1) * c < total
      /\ \A d \in 1..Len(u) : u[d] = hijo[k + (d - 1) * c].nodo
  BY LenProperties DEF Tramo
<1>4. k < total
  OBVIOUS
<1> HIDE DEF S, L, k, u
<1>5. \A i \in 1..L : (i - 1) * c < total
  <2>1. ASSUME NEW i \in 1..L PROVE (i - 1) * c < total
    <3>1. i - 1 \in Nat /\ i - 1 <= L
      BY <1>1
    <3>2. (i - 1) * c <= L * c /\ (i - 1) * c \in Nat /\ L * c \in Nat
      BY <3>1, <1>1, Multiplos
    <3> QED
      BY <3>2, <1>1, <1>4
  <2> QED
    BY <2>1
<1>6. Len(f) = L
  <2>1. ~ (L + 1 <= Len(f))
    <3>1. L + 1 \in Nat \ {0} /\ ~ (L + 1 <= L)
      BY <1>1
    <3> QED
      BY <3>1, <1>2
  <2>2. L # 0 => L <= Len(f)
    <3>1. L # 0 => L \in Nat \ {0} /\ L \in 1..L /\ L <= L
      BY <1>1
    <3> QED
      BY <3>1, <1>2, <1>5
  <2> QED
    BY <2>1, <2>2, <1>1, <1>2
<1>7. /\ g \in Seq(S) /\ Len(g) = L + Len(u)
      /\ \A i \in 1..(L + Len(u)) :
            g[i] = IF i <= L THEN f[i] ELSE u[i - L]
  <2>1. /\ g \in Seq(S) /\ Len(g) = Len(f) + Len(u)
        /\ \A i \in 1..(Len(f) + Len(u)) :
              g[i] = IF i <= Len(f) THEN f[i] ELSE u[i - Len(f)]
    BY <1>2, <1>3, ConcatProperties
  <2> HIDE DEF g
  <2> QED
    BY <2>1, <1>6
<1> HIDE DEF g
<1>8. ASSUME NEW i \in Nat \ {0}, i > L
      PROVE  /\ i - L \in Nat \ {0}
             /\ (i - 1) * c = k + ((i - L) - 1) * c
  <2>1. i - L \in Nat \ {0} /\ (i - L) - 1 \in Nat
    BY <1>1, <1>8
  <2>2. \A x, y \in Nat : (x + y) * c = x * c + y * c
    OBVIOUS
  <2>3. (L + ((i - L) - 1)) * c = L * c + ((i - L) - 1) * c
    BY <2>1, <2>2, <1>1
  <2>4. i - 1 = L + ((i - L) - 1)
    BY <1>1
  <2> QED
    BY <2>1, <2>3, <2>4, <1>1
<1>9. ASSUME NEW i \in Nat \ {0}
      PROVE  i <= Len(g) <=> i <= L + e /\ (i - 1) * c < total
  <2>1. CASE i <= L
    BY <2>1, <1>1, <1>3, <1>5, <1>7
  <2>2. CASE i > L
    <3> DEFINE d == i - L
    <3>1. d \in Nat \ {0} /\ (i - 1) * c = k + (d - 1) * c
      BY <2>2, <1>8
    <3>2. (i <= Len(g) <=> d <= Len(u)) /\ (i <= L + e <=> d <= e)
      BY <1>1, <1>3, <1>7
    <3> HIDE DEF d
    <3>3. CASE d <= e
      <4>1. d \in 1..e
        BY <3>1, <3>3
      <4> QED
        BY <4>1, <3>1, <3>2, <3>3, <1>3
    <3>4. CASE ~ (d <= e)
      <4>1. ~ (d <= Len(u))
        BY <3>1, <3>4, <1>3
      <4> QED
        BY <4>1, <3>2, <3>4
    <3> QED
      BY <3>3, <3>4
  <2> QED
    BY <2>1, <2>2, <1>1
<1>10. ASSUME NEW i \in 1..Len(g)
       PROVE  g[i] = hijo[(i - 1) * c].nodo
  <2>0. i \in 1..(L + Len(u)) /\ i \in Nat \ {0}
    BY <1>1, <1>3, <1>7
  <2>1. CASE i <= L
    <3>1. i \in 1..Len(f) /\ g[i] = f[i]
      BY <2>0, <2>1, <1>6, <1>7
    <3> QED
      BY <3>1, <1>2
  <2>2. CASE i > L
    <3>1. /\ g[i] = u[i - L] /\ i - L \in 1..Len(u)
          /\ (i - 1) * c = k + ((i - L) - 1) * c
      <4>1. ~ (i <= L)
        BY <2>0, <2>2, <1>1
      <4>2. i - L \in 1..Len(u)
        BY <2>0, <2>2, <1>1, <1>3
      <4> QED
        BY <4>1, <4>2, <2>0, <2>2, <1>7, <1>8
    <3>2. u[i - L] = hijo[k + ((i - L) - 1) * c].nodo
      BY <3>1, <1>3
    <3> QED
      BY <3>1, <3>2
  <2> QED
    BY <2>0, <2>1, <2>2, <1>1
<1>11. Primeras(hijo, total, c, L + e, g)
  BY <1>7, <1>9, <1>10 DEF Primeras, S
<1> QED
  BY <1>1, <1>11 DEF g, u

EsAplanar(s, m, f) ==
    f = [i \in 1..m |-> IF i = 1 THEN s[i] ELSE f[i - 1] \o s[i]]

LEMMA HayAplanar ==
    ASSUME NEW s, NEW n \in Nat \ {0}
    PROVE  \E f : EsAplanar(s, n, f)
<1> DEFINE T == {m \in 1..n : \E f : EsAplanar(s, m, f)}
<1>1. 1 \in T
  <2>1. EsAplanar(s, 1, [i \in 1..1 |-> s[1]])
    BY DEF EsAplanar
  <2> QED
    BY <2>1
<1>2. ASSUME NEW m \in 1..(n - 1), m \in T
      PROVE  m + 1 \in T
  <2>1. PICK f : EsAplanar(s, m, f)
    BY <1>2
  <2> DEFINE g == [i \in 1..(m + 1) |->
                     IF i = m + 1 THEN f[m] \o s[m + 1] ELSE f[i]]
  <2>2. \A i \in 1..m : f[i] = IF i = 1 THEN s[i] ELSE f[i - 1] \o s[i]
    BY <2>1 DEF EsAplanar
  <2>3. ASSUME NEW i \in 1..(m + 1)
        PROVE  g[i] = IF i = 1 THEN s[i] ELSE g[i - 1] \o s[i]
    BY <2>2
  <2>4. EsAplanar(s, m + 1, g)
    BY <2>3 DEF EsAplanar
  <2>5. m + 1 \in 1..n
    OBVIOUS
  <2> HIDE DEF g
  <2> QED
    BY <2>4, <2>5
<1> HIDE DEF T
<1>3. n \in T
  <2>1. \A i \in 1..n : i \in T
    BY <1>1, <1>2, InduccionDesdeUno
  <2> QED
    BY <2>1
<1> QED
  BY <1>3 DEF T

\* The tables of a level, one after the other, are the next level.
LEMMA Aplanar ==
    ASSUME NEW total \in Nat \ {0}, NEW c \in Nat \ {0}, NEW e \in Nat \ {0},
           NEW padre, NEW hijo, NEW s, Completo(padre, total, e * c, s),
           \A k \in 0..(total - 1) : Tramo(hijo, total, k, c, e, padre[k])
    PROVE  Completo(hijo, total, c, FlattenSeq(s))
<1> DEFINE d == e * c
           n == Len(s)
           f == CHOOSE f : EsAplanar(s, n, f)
<1>1. d \in Nat \ {0} /\ total \in Nat
  OBVIOUS
<1>2. /\ n \in Nat
      /\ \A i \in Nat \ {0} : i <= n <=> (i - 1) * d < total
      /\ \A i \in 1..n : s[i] = padre[(i - 1) * d].nodo
  BY LenProperties DEF Completo
<1> HIDE DEF d
<1>3. n \in Nat \ {0}
  <2>1. (1 - 1) * d = 0 /\ 1 \in Nat \ {0} /\ 0 < total
    BY <1>1
  <2>2. 1 <= n
    BY <2>1, <1>2
  <2> QED
    BY <2>2, <1>2
<1>4. EsAplanar(s, n, f)
  <2> HIDE DEF n
  <2> QED
    BY <1>3, HayAplanar
<1>5. FlattenSeq(s) = f[n]
  BY <1>3 DEF FlattenSeq, EsAplanar
<1> HIDE DEF n, f
<1>6. \A i \in 1..n : f[i] = IF i = 1 THEN s[i] ELSE f[i - 1] \o s[i]
  BY <1>4 DEF EsAplanar
<1>7. ASSUME NEW j \in Nat, j < n
      PROVE  /\ j * d < total /\ s[j + 1] = padre[j * d].nodo
             /\ Tramo(hijo, total, j * d, c, e, padre[j * d])
  <2>1. j + 1 \in Nat \ {0} /\ j + 1 <= n /\ j + 1 \in 1..n /\ (j + 1) - 1 = j
    BY <1>2, <1>7
  <2>2. j * d < total /\ s[j + 1] = padre[j * d].nodo
    BY <2>1, <1>2
  <2>3. j * d \in 0..(total - 1)
    <3>1. j * d \in Nat
      BY <1>1, Multiplos
    <3> QED
      BY <3>1, <2>2, <1>1
  <2> QED
    BY <2>2, <2>3
<1> DEFINE T == {j \in 1..n : Primeras(hijo, total, c, j * e, f[j])}
<1>8. 1 \in T
  <2>1. 0 * d = 0 /\ 0 * (e * c) = 0 /\ 0 * e = 0 /\ 1 * e = e /\ (0 + 1) * e = e
    BY <1>1
  <2>2. /\ 0 < total /\ s[1] = padre[0].nodo
        /\ Tramo(hijo, total, 0, c, e, padre[0])
    <3>1. 0 \in Nat /\ 0 < n /\ 0 + 1 = 1
      BY <1>3
    <3> QED
      BY <3>1, <2>1, <1>7
  <2>3. Primeras(hijo, total, c, 0, <<>>)
    <3>1. \A S : <<>> \in Seq(S) /\ Len(<<>>) = 0
      OBVIOUS
    <3>2. \A i \in Nat \ {0} : ~ (i <= 0)
      OBVIOUS
    <3>3. 1..0 = {}
      OBVIOUS
    <3> QED
      BY <3>1, <3>2, <3>3 DEF Primeras
  <2>4. Primeras(hijo, total, c, e, <<>> \o padre[0].nodo)
    <3>1. Primeras(hijo, total, c, (0 + 1) * e, <<>> \o padre[0].nodo)
      BY <2>1, <2>2, <2>3, <1>1, UnaTablaMas
    <3> QED
      BY <3>1, <2>1
  <2>5. <<>> \o padre[0].nodo = padre[0].nodo
    BY <2>2, ConcatEmptySeq DEF Tramo
  <2>6. f[1] = s[1] /\ 1 \in 1..n
    BY <1>3, <1>6
  <2> QED
    BY <2>1, <2>2, <2>4, <2>5, <2>6
<1>9. ASSUME NEW j \in 1..(n - 1), j \in T
      PROVE  j + 1 \in T
  <2>1. /\ j \in Nat /\ j < n /\ j + 1 \in 1..n /\ j + 1 # 1
        /\ (j + 1) - 1 = j
    BY <1>3
  <2>2. f[j + 1] = f[j] \o s[j + 1]
    BY <2>1, <1>6
  <2>3. /\ j * d < total /\ s[j + 1] = padre[j * d].nodo
        /\ Tramo(hijo, total, j * d, c, e, padre[j * d])
    BY <2>1, <1>7
  <2>4. Primeras(hijo, total, c, j * e, f[j])
    BY <1>9
  <2>5. Primeras(hijo, total, c, (j + 1) * e, f[j] \o padre[j * d].nodo)
    BY <2>1, <2>3, <2>4, <1>1, UnaTablaMas DEF d
  <2> QED
    BY <2>1, <2>2, <2>3, <2>5
<1> HIDE DEF T
<1>10. n \in T
  <2>1. \A j \in 1..n : j \in T
    BY <1>3, <1>8, <1>9, InduccionDesdeUno
  <2> QED
    BY <2>1, <1>3
<1>11. Primeras(hijo, total, c, n * e, f[n])
  BY <1>10 DEF T
<1>12. ASSUME NEW i \in Nat \ {0}, (i - 1) * c < total
       PROVE  i <= n * e
  <2>1. ~ (n * d < total)
    <3>1. n + 1 \in Nat \ {0} /\ ~ (n + 1 <= n) /\ (n + 1) - 1 = n
      BY <1>3
    <3> QED
      BY <3>1, <1>2
  <2>2. n * d = (n * e) * c /\ n * e \in Nat
    BY <1>3 DEF d
  <2>3. ASSUME n * e <= i - 1 PROVE FALSE
    <3>1. i - 1 \in Nat
      OBVIOUS
    <3>2. /\ (n * e) * c <= (i - 1) * c
          /\ (n * e) * c \in Nat /\ (i - 1) * c \in Nat
      BY <3>1, <2>2, <2>3, Multiplos
    <3> QED
      BY <3>2, <2>1, <2>2, <1>1, <1>12
  <2> QED
    BY <2>2, <2>3
<1>13. Completo(hijo, total, c, f[n])
  BY <1>11, <1>12 DEF Primeras, Completo
<1> QED
  BY <1>5, <1>13

EsBajar(raiz, n, f) ==
    f = [nivel \in 1..n |-> IF nivel = 1 THEN raiz ELSE FlattenSeq(f[nivel - 1])]

LEMMA HayBajar ==
    ASSUME NEW raiz, NEW n \in Nat \ {0}
    PROVE  \E f : EsBajar(raiz, n, f)
<1> DEFINE T == {m \in 1..n : \E f : EsBajar(raiz, m, f)}
<1>1. 1 \in T
  <2>1. EsBajar(raiz, 1, [i \in 1..1 |-> raiz])
    BY DEF EsBajar
  <2> QED
    BY <2>1
<1>2. ASSUME NEW m \in 1..(n - 1), m \in T
      PROVE  m + 1 \in T
  <2>1. PICK f : EsBajar(raiz, m, f)
    BY <1>2
  <2> DEFINE g == [i \in 1..(m + 1) |->
                     IF i = m + 1 THEN FlattenSeq(f[m]) ELSE f[i]]
  <2>2. \A i \in 1..m : f[i] = IF i = 1 THEN raiz ELSE FlattenSeq(f[i - 1])
    BY <2>1 DEF EsBajar
  <2>3. ASSUME NEW i \in 1..(m + 1)
        PROVE  g[i] = IF i = 1 THEN raiz ELSE FlattenSeq(g[i - 1])
    BY <2>2
  <2>4. EsBajar(raiz, m + 1, g)
    BY <2>3 DEF EsBajar
  <2>5. m + 1 \in 1..n
    OBVIOUS
  <2> HIDE DEF g
  <2> QED
    BY <2>4, <2>5
<1> HIDE DEF T
<1>3. n \in T
  <2>1. \A i \in 1..n : i \in T
    BY <1>1, <1>2, InduccionDesdeUno
  <2> QED
    BY <2>1
<1> QED
  BY <1>3 DEF T

\* The loops find every page, in order.
LEMMA HojasExactas ==
    ASSUME NEW e \in Nat \ {0}, NEW n \in Nat \ {0},
           NEW total \in 1..CapacidadDe(e, n)
    PROVE  Hojas(n, CrearTabla(e, n, total)) = [k \in 1..total |-> k - 1]
<1> DEFINE N == Nodos(e, n, total)
           raiz == N[1][0].nodo
           c(nivel) == Ancho(e, n, nivel + 1)
           f == CHOOSE f : EsBajar(raiz, n, f)
<1>1. /\ total \in Nat \ {0} /\ total \in Nat /\ n \in Nat /\ 0 \in 0..(total - 1)
      /\ CapacidadDe(e, n) \in Nat /\ total <= CapacidadDe(e, n)
  BY CapacidadProps
<1>2. CrearTabla(e, n, total) = raiz
  BY <1>1 DEF CrearTabla
<1>3. /\ \A nivel \in 1..n : c(nivel) \in Nat \ {0}
      /\ \A nivel \in 1..(n - 1) : c(nivel) = e * c(nivel + 1)
      /\ c(n) = 1 /\ CapacidadDe(e, n) = e * c(1)
  <2>1. /\ \A nivel \in 1..n : nivel + 1 \in 1..(n + 1)
        /\ \A nivel \in 1..(n - 1) : nivel + 1 \in 1..n
        /\ 1 \in 1..n
    OBVIOUS
  <2> QED
    BY <2>1, AnchoProps
<1>4. \A nivel \in 1..n, k \in 0..(total - 1) :
         Tramo(N[nivel + 1], total, k, c(nivel), e, N[nivel][k])
  BY <1>1, NodosProps
<1>5. \A k \in 0..(total - 1) : N[n + 1][k].nodo = k
  BY <1>1, NodosProps
<1> HIDE DEF N, c
<1>6. EsBajar(raiz, n, f)
  <2> HIDE DEF raiz
  <2> QED
    BY HayBajar
<1>7. Hojas(n, raiz) = f[n]
  BY DEF Hojas, EsBajar
<1> HIDE DEF f, raiz
<1>8. \A nivel \in 1..n :
         f[nivel] = IF nivel = 1 THEN raiz ELSE FlattenSeq(f[nivel - 1])
  BY <1>6 DEF EsBajar
<1> DEFINE T == {nivel \in 1..n : Completo(N[nivel + 1], total, c(nivel), f[nivel])}
<1>9. 1 \in T
  <2>1. 1 \in 1..n /\ f[1] = raiz
    BY <1>8
  <2> DEFINE t == N[1][0]
             hijo == N[1 + 1]
             d == c(1)
  <2>2. Tramo(hijo, total, 0, d, e, t)
    BY <2>1, <1>1, <1>4
  <2>3. d \in Nat \ {0} /\ total <= e * d
    BY <2>1, <1>1, <1>3
  <2>4. f[1] = t.nodo
    BY <2>1 DEF raiz
  <2> HIDE DEF t, hijo, d
  <2>5. \A j \in Nat : 0 + j * d = j * d /\ j * d \in Nat
    BY <2>3
  <2>6. ASSUME NEW i \in Nat \ {0}
        PROVE  i <= Len(t.nodo) <=> (i - 1) * d < total
    <3>1. i - 1 \in Nat /\ Len(t.nodo) \in Nat
      BY <2>2, LenProperties DEF Tramo
    <3>2. CASE i <= e
      <4>1. i \in 1..e
        BY <3>2
      <4>2. i <= Len(t.nodo) <=> 0 + (i - 1) * d < total
        BY <4>1, <2>2 DEF Tramo
      <4> QED
        BY <4>2, <3>1, <2>5
    <3>3. CASE ~ (i <= e)
      <4>1. ~ (i <= Len(t.nodo))
        <5>1. Len(t.nodo) <= e
          BY <2>2 DEF Tramo
        <5> QED
          BY <5>1, <3>1, <3>3
      <4>2. e * d <= (i - 1) * d /\ e * d \in Nat /\ (i - 1) * d \in Nat
        <5>1. e \in Nat /\ e <= i - 1
          BY <3>3
        <5> QED
          BY <5>1, <3>1, <2>3, Multiplos
      <4> QED
        BY <4>1, <4>2, <2>3, <1>1
    <3> QED
      BY <3>2, <3>3
  <2>7. ASSUME NEW i \in 1..Len(t.nodo)
        PROVE  t.nodo[i] = hijo[(i - 1) * d].nodo
    <3>1. i - 1 \in Nat
      OBVIOUS
    <3>2. t.nodo[i] = hijo[0 + (i - 1) * d].nodo
      BY <2>2 DEF Tramo
    <3> QED
      BY <3>1, <3>2, <2>5
  <2>8. Completo(hijo, total, d, t.nodo)
    BY <2>2, <2>6, <2>7 DEF Completo, Tramo
  <2> QED
    BY <2>1, <2>4, <2>8 DEF hijo, d
<1>10. ASSUME NEW nivel \in 1..(n - 1), nivel \in T
       PROVE  nivel + 1 \in T
  <2>1. /\ nivel \in 1..n /\ nivel + 1 \in 1..n /\ nivel + 1 # 1
        /\ (nivel + 1) - 1 = nivel
    OBVIOUS
  <2>2. f[nivel + 1] = FlattenSeq(f[nivel])
    BY <2>1, <1>8
  <2> DEFINE d == c(nivel + 1)
             padre == N[nivel + 1]
             hijo == N[(nivel + 1) + 1]
  <2>3. d \in Nat \ {0} /\ c(nivel) = e * d
    BY <2>1, <1>3
  <2>4. Completo(padre, total, e * d, f[nivel])
    BY <2>3, <1>10
  <2>5. \A k \in 0..(total - 1) : Tramo(hijo, total, k, d, e, padre[k])
    BY <2>1, <1>4
  <2> HIDE DEF d, padre, hijo
  <2>6. Completo(hijo, total, d, FlattenSeq(f[nivel]))
    BY <2>3, <2>4, <2>5, <1>1, Aplanar
  <2> QED
    BY <2>1, <2>2, <2>6 DEF d, hijo
<1> HIDE DEF T
<1>11. n \in T
  <2>1. \A nivel \in 1..n : nivel \in T
    BY <1>9, <1>10, InduccionDesdeUno
  <2> QED
    BY <2>1
<1> DEFINE s == f[n]
<1>12. Completo(N[n + 1], total, 1, s)
  BY <1>3, <1>11 DEF T
<1> HIDE DEF s
<1>13. /\ \A i \in Nat \ {0} : i <= Len(s) <=> i - 1 < total
       /\ \A i \in 1..Len(s) : s[i] = N[n + 1][i - 1].nodo
       /\ Len(s) \in Nat /\ s = [i \in 1..Len(s) |-> s[i]]
  <2>1. \A i \in Nat \ {0} : (i - 1) * 1 = i - 1
    OBVIOUS
  <2>2. Len(s) \in Nat /\ s \in [1..Len(s) -> {N[n + 1][m].nodo : m \in 0..(total - 1)}]
    BY <1>12, LenProperties DEF Completo
  <2>3. \A i \in 1..Len(s) : i \in Nat \ {0}
    OBVIOUS
  <2>4. s = [i \in 1..Len(s) |-> s[i]]
    BY <2>2
  <2> QED
    BY <2>1, <2>2, <2>3, <2>4, <1>12 DEF Completo
<1>14. Len(s) = total
  <2>1. total <= Len(s)
    BY <1>1, <1>13
  <2>2. ~ (total + 1 <= Len(s))
    <3>1. total + 1 \in Nat \ {0} /\ ~ ((total + 1) - 1 < total)
      BY <1>1
    <3> QED
      BY <3>1, <1>13
  <2> QED
    BY <2>1, <2>2, <1>1, <1>13
<1>15. \A i \in 1..total : s[i] = i - 1
  <2>1. \A i \in 1..total : i - 1 \in 0..(total - 1)
    BY <1>1
  <2> QED
    BY <2>1, <1>5, <1>13, <1>14
<1> QED
  BY <1>2, <1>7, <1>13, <1>14, <1>15 DEF s

\* A table of any shape leads every nro_pagina to its page and to no other,
\* and the loops over it find the pages in order (tablas.c:1-64, cpu.c:679).
THEOREM TablasExactas ==
    ASSUME NEW e \in Nat \ {0}, NEW n \in Nat \ {0},
           NEW total \in 1..CapacidadDe(e, n)
    PROVE  TablaExacta(e, n, total)
<1>1. total \in Nat \ {0}
  BY CapacidadProps
<1> QED
  BY <1>1, TablaAssumption, BuscarExacto, HojasExactas DEF TablaExacta
=============================================================================
