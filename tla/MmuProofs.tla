----------------------------- MODULE MmuProofs ------------------------------
(***************************************************************************)
(* Proofs about the CPUs and memoria together, for any number of CPUs,     *)
(* any sizes of cache and TLB and any contents.                            *)
(*                                                                         *)
(* InvCpu is about one CPU at a time and needs no hypothesis: its lists    *)
(* have one entry for each page, only of the process whose context it has, *)
(* and no more entries than configured, and the pointer is a place of the  *)
(* cache.  NadaAjeno, SiempreEnOrden and SiempreVictimaDebida follow.      *)
(*                                                                         *)
(* InvMmu adds what memoria has: its own invariant (InvVirtual), and that  *)
(* every process with a CPU is in memory and has that CPU alone, that the  *)
(* frames its CPU remembers are those of its table, and that an entry of   *)
(* the cache not modified has what its frame has (Fieles).  It rests on    *)
(* Puntual, without which runs find the contrary, and on what TablaProofs  *)
(* says of the walk of a table.  A step of a CPU is then described by what *)
(* it does to its cache (CacheTras) and to what its process sees           *)
(* (EsVista), which gives the refinements: MmuSpec implements Memoria and  *)
(* MemoriaVirtual.                                                         *)
(***************************************************************************)
EXTENDS MmuProps, MemoriaProofs, TablaProofs

\* A list of at most n entries, one for each page, all of process p.
Ordenada(lista, p, n) ==
    /\ lista \in Seq(Imagen(lista)) /\ Len(lista) <= n
    /\ \A k \in DOMAIN lista : lista[k].pid = p
    /\ SinRepetidas(lista)

\* An entry of the cache, whatever its frame and its contents are.
EsEntrada(e) ==
    e \in [pid : Pid, pagina : Nat, contenido : {e.contenido},
           marco : {e.marco}, bit_uso : BOOLEAN, bit_modificado : BOOLEAN]

EsEntradaTlb(e) ==
    e \in [pid : Pid, pagina : Nat, marco : {e.marco}, timestamp : 0..Segundos]

\* The cache of a CPU with configuration g and the context of p.
CacheSana(g, p, ch, ptr) ==
    /\ Ordenada(ch, p, g.entradas_cache)
    /\ \A k \in DOMAIN ch : EsEntrada(ch[k])
    /\ ptr \in Nat /\ (g.entradas_cache > 0 => ptr < g.entradas_cache)

TlbSana(g, p, tl) ==
    /\ Ordenada(tl, p, g.entradas_tlb)
    /\ \A k \in DOMAIN tl : EsEntradaTlb(tl[k])

CpuSana(c) ==
    /\ CacheSana(config[c], contexto[c], cache[c], puntero_clock[c])
    /\ TlbSana(config[c], contexto[c], tlb[c])
    /\ vaciando[c] => tlb[c] = <<>> /\ contexto[c] # Nadie

Formas ==
    /\ config \in [Cpu -> Config]
    /\ contexto \in [Cpu -> Pid \cup {Nadie}]
    /\ vaciando \in [Cpu -> BOOLEAN]
    /\ cache = [c \in Cpu |-> cache[c]]
    /\ puntero_clock = [c \in Cpu |-> puntero_clock[c]]
    /\ tlb = [c \in Cpu |-> tlb[c]]
    /\ ahora \in 0..Segundos

InvCpu == Formas /\ \A c \in Cpu : CpuSana(c)

-----------------------------------------------------------------------------
(* Lists of entries *)

LEMMA DeSuImagen ==
    ASSUME NEW S, NEW s \in Seq(S)
    PROVE  s \in Seq(Imagen(s))
<1>1. Len(s) \in Nat /\ s \in [1..Len(s) -> S] /\ DOMAIN s = 1..Len(s)
  BY LenProperties
<1>2. s \in [1..Len(s) -> Imagen(s)]
  BY <1>1 DEF Imagen
<1> QED
  BY <1>1, <1>2, IsASeq

LEMMA Vacia == ASSUME NEW p, NEW n \in Nat PROVE Ordenada(<<>>, p, n)
<1>1. <<>> \in Seq(Imagen(<<>>)) /\ Len(<<>>) = 0 /\ DOMAIN <<>> = {}
  BY EmptySeq
<1> QED
  BY <1>1 DEF Ordenada, SinRepetidas

\* The entries keep their process and page, whatever else changes.
LEMMA MismasClaves ==
    ASSUME NEW p, NEW n \in Nat, NEW s, NEW t, Ordenada(s, p, n),
           t = [k \in DOMAIN s |-> t[k]],
           \A k \in DOMAIN s : t[k].pid = s[k].pid /\ t[k].pagina = s[k].pagina
    PROVE  Ordenada(t, p, n) /\ Len(t) = Len(s) /\ DOMAIN t = DOMAIN s
<1>1. /\ s \in Seq(Imagen(s)) /\ Len(s) <= n
      /\ Len(s) \in Nat /\ DOMAIN s = 1..Len(s)
  BY LenProperties DEF Ordenada
<1>2. DOMAIN t = DOMAIN s
  OBVIOUS
<1>3. t \in [1..Len(s) -> Imagen(t)]
  BY <1>1, <1>2 DEF Imagen
<1>4. t \in Seq(Imagen(t))
  BY <1>1, <1>3, IsASeq
<1>5. Len(t) = Len(s)
  <2>1. Len(t) \in Nat /\ DOMAIN t = 1..Len(t)
    BY <1>4, LenProperties
  <2> QED
    BY <2>1, <1>1, <1>2
<1>6. \A k \in DOMAIN t : t[k].pid = p
  BY <1>2 DEF Ordenada
<1>7. SinRepetidas(t)
  BY <1>2 DEF Ordenada, SinRepetidas
<1> QED
  BY <1>1, <1>2, <1>4, <1>5, <1>6, <1>7 DEF Ordenada

\* list_add: the entries that were there, and the new one.
ConOtra(s, e, t) ==
    /\ \A k \in DOMAIN t : t[k] = e \/ \E j \in DOMAIN s : t[k] = s[j]
    /\ \E k \in DOMAIN t : t[k] = e
    /\ \A j \in DOMAIN s : \E k \in DOMAIN t : t[k] = s[j]

LEMMA Agregada ==
    ASSUME NEW p, NEW n \in Nat, NEW s, NEW e, Ordenada(s, p, n), Len(s) < n,
           e.pid = p, \A k \in DOMAIN s : s[k].pagina # e.pagina
    PROVE  Ordenada(Append(s, e), p, n) /\ ConOtra(s, e, Append(s, e))
<1> DEFINE t == Append(s, e)
           S == Imagen(s) \cup {e}
<1>1. /\ s \in Seq(Imagen(s))
      /\ Len(s) \in Nat /\ DOMAIN s = 1..Len(s)
      /\ \A k \in 1..Len(s) : s[k] \in Imagen(s)
  BY LenProperties, ElementOfSeq DEF Ordenada
<1>2. s \in Seq(S) /\ e \in S
  <2>1. s \in [1..Len(s) -> S]
    BY <1>1, LenProperties
  <2> QED
    BY <2>1, <1>1, IsASeq
<1> HIDE DEF S
<1>3. /\ t \in Seq(S) /\ Len(t) = Len(s) + 1
      /\ \A k \in 1..Len(s) : t[k] = s[k]
      /\ t[Len(s) + 1] = e
  BY <1>2, AppendProperties
<1> HIDE DEF t
<1>4. DOMAIN t = 1..(Len(s) + 1)
  BY <1>3, LenProperties
<1>5. t \in Seq(Imagen(t))
  BY <1>3, DeSuImagen
<1>6. \A k \in DOMAIN t : t[k].pid = p
  BY <1>1, <1>3, <1>4 DEF Ordenada
<1>7. SinRepetidas(t)
  <2> SUFFICES ASSUME NEW j \in DOMAIN t, NEW k \in DOMAIN t, j # k
               PROVE  <<t[j].pid, t[j].pagina>> # <<t[k].pid, t[k].pagina>>
    BY DEF SinRepetidas
  <2>1. CASE j \in 1..Len(s) /\ k \in 1..Len(s)
    BY <2>1, <1>1, <1>3 DEF Ordenada, SinRepetidas
  <2>2. CASE j = Len(s) + 1 /\ k \in 1..Len(s)
    BY <2>2, <1>1, <1>3
  <2>3. CASE k = Len(s) + 1 /\ j \in 1..Len(s)
    BY <2>3, <1>1, <1>3
  <2> QED
    BY <2>1, <2>2, <2>3, <1>1, <1>4
<1>8. \A k \in DOMAIN t : t[k] = e \/ \E j \in DOMAIN s : t[k] = s[j]
  BY <1>1, <1>3, <1>4
<1>9. Len(t) <= n
  BY <1>1, <1>3
<1>10. /\ \E k \in DOMAIN t : t[k] = e
       /\ \A j \in DOMAIN s : \E k \in DOMAIN t : t[k] = s[j]
  <2>1. Len(s) + 1 \in DOMAIN t /\ \A j \in DOMAIN s : j \in DOMAIN t
    BY <1>1, <1>4
  <2> QED
    BY <2>1, <1>1, <1>3
<1> QED
  BY <1>5, <1>6, <1>7, <1>8, <1>9, <1>10 DEF Ordenada, ConOtra, t

\* One entry makes room for another page, and the rest keep theirs.
LEMMA Reemplazada ==
    ASSUME NEW p, NEW n \in Nat, NEW s, NEW t, NEW v \in DOMAIN s, NEW e,
           Ordenada(s, p, n), t = [k \in DOMAIN s |-> t[k]], t[v] = e,
           e.pid = p, \A k \in DOMAIN s : s[k].pagina # e.pagina,
           \A k \in DOMAIN s \ {v} :
              t[k].pid = s[k].pid /\ t[k].pagina = s[k].pagina
    PROVE  Ordenada(t, p, n) /\ Len(t) = Len(s) /\ DOMAIN t = DOMAIN s
<1>1. /\ s \in Seq(Imagen(s)) /\ Len(s) <= n
      /\ Len(s) \in Nat /\ DOMAIN s = 1..Len(s)
  BY LenProperties DEF Ordenada
<1>2. DOMAIN t = DOMAIN s
  OBVIOUS
<1>3. t \in [1..Len(s) -> Imagen(t)]
  BY <1>1, <1>2 DEF Imagen
<1>4. t \in Seq(Imagen(t))
  BY <1>1, <1>3, IsASeq
<1>5. Len(t) = Len(s)
  <2>1. Len(t) \in Nat /\ DOMAIN t = 1..Len(t)
    BY <1>4, LenProperties
  <2> QED
    BY <2>1, <1>1, <1>2
<1>6. \A k \in DOMAIN t : t[k].pid = p
  BY <1>2 DEF Ordenada
<1>7. SinRepetidas(t)
  <2> SUFFICES ASSUME NEW j \in DOMAIN s, NEW k \in DOMAIN s, j # k
               PROVE  <<t[j].pid, t[j].pagina>> # <<t[k].pid, t[k].pagina>>
    BY <1>2 DEF SinRepetidas
  <2>1. <<s[j].pid, s[j].pagina>> # <<s[k].pid, s[k].pagina>>
    BY DEF Ordenada, SinRepetidas
  <2>2. CASE j # v /\ k # v
    BY <2>1, <2>2
  <2>3. CASE j = v
    BY <2>3
  <2>4. CASE k = v
    BY <2>4
  <2> QED
    BY <2>2, <2>3, <2>4
<1> QED
  BY <1>1, <1>2, <1>4, <1>5, <1>6, <1>7 DEF Ordenada

\* t has the entries of s but the one at v.
SinUna(s, v, t) ==
    /\ \A j \in DOMAIN t : \E k \in DOMAIN s : k # v /\ t[j] = s[k]
    /\ \A k \in DOMAIN s : k # v => \E j \in DOMAIN t : t[j] = s[k]

\* list_remove.
LEMMA Sacada ==
    ASSUME NEW p, NEW n \in Nat, NEW s, NEW v \in DOMAIN s, Ordenada(s, p, n)
    PROVE  /\ Ordenada(RemoveAt(s, v), p, n)
           /\ Len(RemoveAt(s, v)) < n
           /\ SinUna(s, v, RemoveAt(s, v))
<1> DEFINE t == RemoveAt(s, v)
           S == Imagen(s)
<1>1. s \in Seq(S) /\ Len(s) <= n /\ Len(s) \in Nat
  BY LenProperties DEF Ordenada
<1> HIDE DEF S
<1>2. t \in Seq(S) /\ Len(t) = Len(s) - 1
  BY <1>1, RemoveAtProps
<1>3. /\ \A k \in DOMAIN s : k # v => \E j \in DOMAIN t : j <= k /\ t[j] = s[k]
      /\ \A j \in DOMAIN t : \E k \in DOMAIN s : k # v /\ t[j] = s[k]
      /\ \A j, l \in DOMAIN t : j # l =>
            \E k, m \in DOMAIN s : /\ k # m /\ k # v /\ m # v
                                   /\ t[j] = s[k] /\ t[l] = s[m]
  BY <1>1, ListaRemoveAt
<1> HIDE DEF t
<1>4. t \in Seq(Imagen(t))
  BY <1>2, DeSuImagen
<1>5. \A k \in DOMAIN t : t[k].pid = p
  BY <1>3 DEF Ordenada
<1>6. SinRepetidas(t)
  <2> SUFFICES ASSUME NEW j \in DOMAIN t, NEW l \in DOMAIN t, j # l
               PROVE  <<t[j].pid, t[j].pagina>> # <<t[l].pid, t[l].pagina>>
    BY DEF SinRepetidas
  <2>1. PICK k \in DOMAIN s, m \in DOMAIN s :
           k # m /\ t[j] = s[k] /\ t[l] = s[m]
    BY <1>3
  <2>2. <<s[k].pid, s[k].pagina>> # <<s[m].pid, s[m].pagina>>
    BY <2>1 DEF Ordenada, SinRepetidas
  <2> QED
    BY <2>1, <2>2
<1>7. Len(t) <= n /\ Len(t) < n
  BY <1>1, <1>2
<1>8. Ordenada(t, p, n)
  BY <1>4, <1>5, <1>6, <1>7 DEF Ordenada
<1>9. \A k \in DOMAIN s : k # v => \E j \in DOMAIN t : t[j] = s[k]
  BY <1>3
<1> QED
  BY <1>3, <1>7, <1>8, <1>9 DEF t, SinUna

\* In an ordered list the search finds the only entry of the page.
LEMMA LugarUnico ==
    ASSUME NEW p, NEW n \in Nat, NEW s, NEW i, Ordenada(s, p, n)
    PROVE  Lugar(s, p, i) = {k \in DOMAIN s : s[k].pagina = i}
<1>1. Len(s) \in Nat /\ DOMAIN s = 1..Len(s)
  BY LenProperties DEF Ordenada
<1>2. ASSUME NEW k \in DOMAIN s, s[k].pagina = i
      PROVE  k \in Lugar(s, p, i)
  <2>1. ASSUME NEW j \in 1..(k - 1) PROVE s[j].pagina # i
    <3>1. j \in DOMAIN s /\ j # k
      BY <1>1
    <3>2. <<s[j].pid, s[j].pagina>> # <<s[k].pid, s[k].pagina>>
      BY <3>1 DEF Ordenada, SinRepetidas
    <3> QED
      BY <3>1, <3>2, <1>2 DEF Ordenada
  <2> QED
    BY <1>2, <2>1 DEF Ordenada, Lugar
<1> QED
  BY <1>2 DEF Lugar

-----------------------------------------------------------------------------
(* The TLB *)

LEMMA Capacidades ==
    ASSUME InvCpu, NEW c \in Cpu
    PROVE  /\ config[c].entradas_cache \in Nat /\ config[c].entradas_tlb \in Nat
           /\ contexto[c] # Nadie => contexto[c] \in Pid
BY MmuAssumption DEF InvCpu, Formas

\* The entry to remove is one of the TLB.
LEMMA VictimaTlbHallada ==
    ASSUME InvCpu, NEW c \in Cpu, tlb[c] # <<>>
    PROVE  VictimaTlb(c) \in DOMAIN tlb[c]
<1> DEFINE t == tlb[c]
<1>1. /\ t \in Seq(Imagen(t)) /\ Len(t) \in Nat \ {0} /\ DOMAIN t = 1..Len(t)
      /\ \A k \in DOMAIN t : t[k].timestamp \in Nat
  <2>1. CpuSana(c)
    BY DEF InvCpu
  <2>2. t \in Seq(Imagen(t)) /\ \A k \in DOMAIN t : EsEntradaTlb(t[k])
    BY <2>1 DEF CpuSana, TlbSana, Ordenada
  <2>3. \A k \in DOMAIN t : t[k].timestamp \in Nat
    BY <2>2, MmuAssumption DEF EsEntradaTlb
  <2> QED
    BY <2>2, <2>3, LenProperties, EmptySeq
<1> HIDE DEF t
<1>2. CASE config[c].algoritmo_tlb = "FIFO"
  BY <1>1, <1>2 DEF VictimaTlb, t
<1>3. CASE config[c].algoritmo_tlb # "FIFO"
  <2> DEFINE T == {t[k].timestamp : k \in DOMAIN t}
  <2>1. T \in SUBSET Nat /\ T # {}
    <3>1. 1 \in DOMAIN t
      BY <1>1
    <3> QED
      BY <3>1, <1>1
  <2>2. PICK x \in T : \A y \in T : x <= y
    BY <2>1, HayMenor
  <2> DEFINE K == {k \in DOMAIN t : t[k].timestamp = x}
  <2>3. K \in SUBSET Nat /\ K # {}
    BY <2>2, <1>1
  <2>4. PICK k \in K : \A j \in K : k <= j
    BY <2>3, HayMenor
  <2>5. ASSUME NEW j \in DOMAIN t
        PROVE  /\ t[k].timestamp <= t[j].timestamp
               /\ j < k => t[k].timestamp < t[j].timestamp
    <3>1. t[k].timestamp = x /\ k \in Nat /\ j \in Nat
      BY <2>4, <1>1
    <3>2. x <= t[j].timestamp /\ x \in Nat /\ t[j].timestamp \in Nat
      BY <2>1, <2>2, <1>1
    <3>3. j < k => t[j].timestamp # x
      BY <2>4, <3>1
    <3> QED
      BY <3>1, <3>2, <3>3
  <2>6. \E i \in DOMAIN t : \A j \in DOMAIN t :
            /\ t[i].timestamp <= t[j].timestamp
            /\ j < i => t[i].timestamp < t[j].timestamp
    BY <2>4, <2>5
  <2> QED
    BY <2>6, <1>3 DEF VictimaTlb, t
<1> QED
  BY <1>2, <1>3

\* What a translation leaves in the TLB: the entries that were there, but
\* for their second, and the one of the page.
EntradasTras(c, i, m, t) ==
    \A k \in DOMAIN t :
       \/ t[k].pagina = i /\ t[k].marco = m
       \/ \E j \in DOMAIN tlb[c] : /\ t[k].pagina = tlb[c][j].pagina
                                   /\ t[k].marco = tlb[c][j].marco

LEMMA TlbTrasSana ==
    ASSUME InvCpu, NEW c \in Cpu, contexto[c] # Nadie, NEW i \in Nat, NEW m
    PROVE  /\ TlbSana(config[c], contexto[c], TlbTras(c, contexto[c], i, m))
           /\ EntradasTras(c, i, m, TlbTras(c, contexto[c], i, m))
<1> DEFINE p == contexto[c]
           n == config[c].entradas_tlb
           s == tlb[c]
           t == TlbTras(c, p, i, m)
           nueva == [pid |-> p, pagina |-> i, marco |-> m, timestamp |-> ahora]
<1>1. n \in Nat /\ p \in Pid
  BY Capacidades
<1>2. Ordenada(s, p, n) /\ \A k \in DOMAIN s : EsEntradaTlb(s[k])
  BY DEF InvCpu, CpuSana, TlbSana
<1>3. EsEntradaTlb(nueva) /\ nueva.pid = p /\ nueva.pagina = i /\ nueva.marco = m
  BY <1>1 DEF EsEntradaTlb, InvCpu, Formas
<1>4. Lugar(s, p, i) = {k \in DOMAIN s : s[k].pagina = i}
  BY <1>1, <1>2, LugarUnico
<1>5. s \in Seq(Imagen(s)) /\ Len(s) \in Nat /\ DOMAIN s = 1..Len(s) /\ Len(s) <= n
  BY <1>2, LenProperties DEF Ordenada
<1> SUFFICES TlbSana(config[c], p, t) /\ EntradasTras(c, i, m, t)
  OBVIOUS
<1>6. CASE n = 0
  <2>1. t = s
    BY <1>6 DEF TlbTras
  <2> QED
    BY <2>1, <1>2 DEF TlbSana, EntradasTras
<1>7. CASE n # 0 /\ Lugar(s, p, i) = {}
  <2>0. \A k \in DOMAIN s : s[k].pagina # i
    BY <1>7, <1>4
  <2>1. PICK q : q = IF Len(s) >= n THEN RemoveAt(s, VictimaTlb(c)) ELSE s
    OBVIOUS
  <2>2. t = Append(q, nueva)
    BY <1>7, <2>1 DEF TlbTras
  <2> HIDE DEF t, nueva
  <2>3. /\ Ordenada(q, p, n) /\ Len(q) < n
        /\ \A j \in DOMAIN q : \E k \in DOMAIN s : q[j] = s[k]
    <3>1. CASE Len(s) >= n
      <4>1. s # <<>>
        BY <3>1, <1>5, <1>7, <1>1, EmptySeq
      <4>2. VictimaTlb(c) \in DOMAIN s
        BY <4>1, VictimaTlbHallada
      <4> HIDE DEF s, n, p
      <4> QED
        BY <3>1, <4>2, <2>1, <1>1, <1>2, Sacada DEF SinUna
    <3>2. CASE ~(Len(s) >= n)
      BY <3>2, <2>1, <1>1, <1>2, <1>5
    <3> QED
      BY <3>1, <3>2
  <2>4. \A k \in DOMAIN q : q[k].pagina # i
    BY <2>0, <2>3
  <2>5. /\ Ordenada(t, p, n)
        /\ \A k \in DOMAIN t : t[k] = nueva \/ \E j \in DOMAIN q : t[k] = q[j]
    <3>1. Ordenada(q, p, n) /\ Len(q) < n /\ n \in Nat /\ nueva.pid = p
          /\ \A k \in DOMAIN q : q[k].pagina # nueva.pagina
      BY <2>3, <2>4, <1>1, <1>3
    <3> HIDE DEF p, n, s
    <3>2. Ordenada(t, p, n) /\ ConOtra(q, nueva, t)
      BY <2>2, <3>1, Agregada, Zenon
    <3> QED
      BY <3>2 DEF ConOtra
  <2>6. \A k \in DOMAIN t : t[k] = nueva \/ \E j \in DOMAIN s : t[k] = s[j]
    <3> HIDE DEF s
    <3> QED
      BY <2>3, <2>5
  <2>7. \A k \in DOMAIN t : EsEntradaTlb(t[k])
    BY <2>6, <1>2, <1>3
  <2>8. EntradasTras(c, i, m, t)
    BY <2>6, <1>3 DEF EntradasTras
  <2> QED
    BY <2>5, <2>7, <2>8 DEF TlbSana
<1>8. CASE n # 0 /\ Lugar(s, p, i) # {}
  <2>1. t = [k \in DOMAIN s |->
                IF k \in Lugar(s, p, i) THEN [s[k] EXCEPT !.timestamp = ahora]
                ELSE s[k]]
    BY <1>8 DEF TlbTras
  <2> HIDE DEF t
  <2>2. ASSUME NEW k \in DOMAIN s
        PROVE  /\ t[k].pid = s[k].pid /\ t[k].pagina = s[k].pagina
               /\ t[k].marco = s[k].marco
               /\ EsEntradaTlb(t[k])
    <3>1. EsEntradaTlb(s[k])
      BY <1>2
    <3>2. CASE k \notin Lugar(s, p, i)
      BY <3>1, <3>2, <2>1
    <3>3. CASE k \in Lugar(s, p, i)
      <4>1. t[k] = [s[k] EXCEPT !.timestamp = ahora]
        BY <3>3, <2>1
      <4>2. ahora \in 0..Segundos
        BY DEF InvCpu, Formas
      <4> QED
        BY <3>1, <4>1, <4>2 DEF EsEntradaTlb
    <3> QED
      BY <3>2, <3>3
  <2>3. DOMAIN t = DOMAIN s /\ t = [k \in DOMAIN s |-> t[k]]
    BY <2>1
  <2>4. Ordenada(t, p, n)
    <3> HIDE DEF p, n, s
    <3> QED
      BY <1>1, <1>2, <2>2, <2>3, MismasClaves
  <2>5. EntradasTras(c, i, m, t)
    BY <2>2, <2>3 DEF EntradasTras
  <2> QED
    BY <2>2, <2>3, <2>4, <2>5 DEF TlbSana
<1> QED
  BY <1>6, <1>7, <1>8
-----------------------------------------------------------------------------
(* The turns of the pointer of the cache *)

LEMMA RestoUnico ==
    ASSUME NEW n \in Nat \ {0}, NEW d \in Int,
           NEW r \in 0..(n - 1), NEW s \in 0..(n - 1), n * d = r - s
    PROVE  r = s
<1>1. CASE d >= 1
  <2>1. n * d >= n
    BY <1>1
  <2> QED
    BY <2>1
<1>2. CASE d <= -1
  <2>1. n * d <= -n
    BY <1>2
  <2> QED
    BY <2>1
<1>3. CASE d = 0
  BY <1>3
<1> QED
  BY <1>1, <1>2, <1>3

LEMMA Division ==
    ASSUME NEW a \in Nat, NEW n \in Nat \ {0}
    PROVE  a = n * (a \div n) + (a % n) /\ a \div n \in Int /\ a % n \in 0..(n - 1)
OBVIOUS

\* A whole turn comes back to the same place.
LEMMA UnaVuelta ==
    ASSUME NEW a \in Nat, NEW n \in Nat \ {0}
    PROVE  (a + n) % n = a % n
<1> DEFINE q == a \div n
           z == (a + n) \div n
           r == a % n
           s == (a + n) % n
<1>1. a = n * q + r /\ q \in Int /\ r \in 0..(n - 1)
  BY Division
<1>2. a + n = n * z + s /\ z \in Int /\ s \in 0..(n - 1)
  <2>1. a + n \in Nat
    OBVIOUS
  <2> QED
    BY <2>1, Division
<1> HIDE DEF q, z, r, s
<1>3. n * (z - q - 1) = n * z - n * q - n
  BY <1>1, <1>2
<1>4. n * (z - q - 1) = r - s /\ z - q - 1 \in Int
  <2>1. n * z \in Int /\ n * q \in Int
    BY <1>1, <1>2
  <2> QED
    BY <1>1, <1>2, <1>3, <2>1
<1>5. r = s
  BY <1>4, <1>1, <1>2, RestoUnico
<1> QED
  BY <1>5 DEF r, s

LEMMA RestoMenor ==
    ASSUME NEW a \in Nat, NEW n \in Nat, a < n
    PROVE  a % n = a
OBVIOUS

\* A cache with all its entries in use.
Llena(c) == /\ InvCpu /\ config[c].entradas_cache > 0
            /\ Len(cache[c]) = config[c].entradas_cache

LEMMA VisitaEnCache ==
    ASSUME NEW c \in Cpu, Llena(c), NEW w \in Nat
    PROVE  /\ Visita(c, w) \in DOMAIN cache[c]
           /\ Visita(c, w) \in 1..config[c].entradas_cache
           /\ Visita(c, w + config[c].entradas_cache) = Visita(c, w)
           /\ cache[c][Visita(c, w)].bit_uso \in BOOLEAN
           /\ cache[c][Visita(c, w)].bit_modificado \in BOOLEAN
<1> DEFINE n == config[c].entradas_cache
           a == puntero_clock[c]
<1>1. n \in Nat \ {0} /\ a \in Nat
  BY Capacidades DEF Llena, InvCpu, CpuSana, CacheSana
<1>2. DOMAIN cache[c] = 1..n
  BY LenProperties DEF Llena, InvCpu, CpuSana, CacheSana, Ordenada
<1>3. \A k \in DOMAIN cache[c] :
         cache[c][k].bit_uso \in BOOLEAN /\ cache[c][k].bit_modificado \in BOOLEAN
  BY DEF Llena, InvCpu, CpuSana, CacheSana, EsEntrada
<1>4. Visita(c, w) = ((a + w) % n) + 1
  BY DEF Visita
<1>5. Visita(c, w + n) = ((a + w + n) % n) + 1
  <2>1. a + (w + n) = a + w + n
    BY <1>1
  <2> QED
    BY <2>1 DEF Visita
<1> HIDE DEF n, a
<1>6. a + w \in Nat
  BY <1>1
<1>7. (a + w) % n \in 0..(n - 1)
  BY <1>1, <1>6, Division
<1>8. Visita(c, w) \in 1..n
  BY <1>1, <1>4, <1>7
<1>9. Visita(c, w + n) = Visita(c, w)
  BY <1>1, <1>4, <1>5, <1>6, UnaVuelta
<1> QED
  BY <1>2, <1>3, <1>8, <1>9 DEF n

\* The search ends, and its result is the first place that will do.
LEMMA PasosHallados ==
    ASSUME NEW c \in Cpu, Llena(c)
    PROVE  /\ Pasos(c) \in 0..(4 * config[c].entradas_cache)
           /\ Elige(c, Pasos(c))
           /\ \A w \in 0..(Pasos(c) - 1) : ~Elige(c, w)
<1> DEFINE n == config[c].entradas_cache
           T == {v \in 0..(4 * n) : Elige(c, v)}
<1>1. n \in Nat
  BY Capacidades DEF Llena
<1>2. T # {}
  <2>1. CASE config[c].algoritmo_cache = "CLOCK"
    <3>1. n \in 0..(4 * n)
      BY <1>1
    <3>2. Elige(c, n)
      BY <2>1 DEF Elige, EligeClock
    <3> QED
      BY <3>1, <3>2
  <2>2. CASE config[c].algoritmo_cache # "CLOCK"
    <3>1. 4 * n \in 0..(4 * n) /\ 4 * n >= 4 * n
      BY <1>1
    <3>2. Elige(c, 4 * n)
      BY <2>2, <3>1 DEF Elige, EligeClockM
    <3> QED
      BY <3>1, <3>2
  <2> QED
    BY <2>1, <2>2
<1>3. T \in SUBSET Nat
  BY <1>1
<1>4. PICK v \in T : \A w \in T : v <= w
  <2> HIDE DEF T
  <2> QED
    BY <1>2, <1>3, HayMenor
<1>5. ASSUME NEW w \in 0..(v - 1) PROVE ~Elige(c, w)
  <2>1. w \in 0..(4 * n) /\ ~(v <= w)
    BY <1>1, <1>4
  <2> QED
    BY <2>1, <1>4
<1>6. \E x \in 0..(4 * n) : Elige(c, x) /\ \A w \in 0..(x - 1) : ~Elige(c, w)
  BY <1>4, <1>5
<1> QED
  BY <1>6 DEF Pasos

\* CLOCK, by the bits it visits: the first entry not used, or the one at the
\* pointer when all are.
LEMMA VictimaClock ==
    ASSUME NEW n \in Nat \ {0}, NEW U \in [Nat -> BOOLEAN], NEW v \in 0..(4 * n),
           U[n] <=> U[0],
           v = n \/ ~U[v], \A w \in 0..(v - 1) : ~(w = n \/ ~U[w])
    PROVE  /\ v \in 0..n
           /\ U[v] => \A w \in 0..(n - 1) : U[w]
           /\ \A w \in 0..((v % n) - 1) : U[w] /\ ~U[v]
<1>1. v <= n
  OBVIOUS
<1>2. v % n = IF v = n THEN 0 ELSE v
  <2>1. CASE v = n
    <3>1. (0 + n) % n = 0 % n /\ 0 % n = 0
      BY UnaVuelta, RestoMenor
    <3> QED
      BY <2>1, <3>1
  <2>2. CASE v # n
    BY <1>1, <2>2, RestoMenor
  <2> QED
    BY <2>1, <2>2
<1>3. U[v] => v = n
  OBVIOUS
<1>4. \A w \in 0..(v - 1) : U[w]
  OBVIOUS
<1> QED
  BY <1>1, <1>2, <1>3, <1>4

\* The best class present, by the turn that looks for it.
ClaseDe(u, m) == (IF u THEN 2 ELSE 0) + (IF m THEN 1 ELSE 0)

EligeTurno(n, u, m, v) ==
    \/ v >= 4 * n
    \/ /\ u => v >= 2 * n
       /\ m <=> v \in n..(2 * n - 1) \cup 3 * n..(4 * n - 1)

LEMMA TurnoDeClase ==
    ASSUME NEW n \in Nat \ {0}, NEW u \in BOOLEAN, NEW m \in BOOLEAN,
           NEW w \in 0..(n - 1)
    PROVE  EligeTurno(n, u, m, ClaseDe(u, m) * n + w)
<1>1. CASE ~u /\ ~m
  <2>1. ClaseDe(u, m) * n + w = w
    BY <1>1 DEF ClaseDe
  <2>2. ~(w >= n)
    OBVIOUS
  <2> QED
    BY <1>1, <2>1, <2>2 DEF EligeTurno
<1>2. CASE ~u /\ m
  <2>1. ClaseDe(u, m) * n + w = n + w
    BY <1>2 DEF ClaseDe
  <2>2. n + w \in n..(2 * n - 1)
    OBVIOUS
  <2> QED
    BY <1>2, <2>1, <2>2 DEF EligeTurno
<1>3. CASE u /\ ~m
  <2>1. ClaseDe(u, m) * n + w = 2 * n + w
    BY <1>3 DEF ClaseDe
  <2>2. /\ 2 * n + w >= 2 * n /\ 2 * n + w \notin n..(2 * n - 1)
        /\ 2 * n + w \notin 3 * n..(4 * n - 1)
    OBVIOUS
  <2> QED
    BY <1>3, <2>1, <2>2 DEF EligeTurno
<1>4. CASE u /\ m
  <2>1. ClaseDe(u, m) * n + w = 3 * n + w
    BY <1>4 DEF ClaseDe
  <2>2. 3 * n + w >= 2 * n /\ 3 * n + w \in 3 * n..(4 * n - 1)
    OBVIOUS
  <2> QED
    BY <1>4, <2>1, <2>2 DEF EligeTurno
<1> QED
  BY <1>1, <1>2, <1>3, <1>4

\* CLOCK-M, by the bits it visits: a victim of class t is found in turn t,
\* since an earlier turn would have found one of a better class.
LEMMA VictimaClockM ==
    ASSUME NEW n \in Nat \ {0}, NEW U \in [Nat -> BOOLEAN],
           NEW M \in [Nat -> BOOLEAN], NEW v \in 0..(4 * n),
           \A w \in Nat : (U[w + n] <=> U[w]) /\ (M[w + n] <=> M[w]),
           EligeTurno(n, U[v], M[v], v),
           \A w \in 0..(v - 1) : ~EligeTurno(n, U[w], M[w], w)
    PROVE  /\ v < 4 * n
           /\ \A w \in 0..(n - 1) : ClaseDe(U[v], M[v]) <= ClaseDe(U[w], M[w])
           /\ \A w \in 0..((v % n) - 1) :
                 ClaseDe(U[v], M[v]) < ClaseDe(U[w], M[w])
<1> DEFINE K(w) == ClaseDe(U[w], M[w])
<1>1. ASSUME NEW w \in Nat
      PROVE  /\ K(w) \in 0..3
             /\ K(n + w) = K(w) /\ K(2 * n + w) = K(w) /\ K(3 * n + w) = K(w)
  <2>1. K(w) \in 0..3
    BY DEF ClaseDe
  <2>2. /\ w + n = n + w /\ (n + w) + n = 2 * n + w /\ (2 * n + w) + n = 3 * n + w
        /\ n + w \in Nat /\ 2 * n + w \in Nat
    OBVIOUS
  <2>3. /\ U[n + w] = U[w] /\ M[n + w] = M[w]
        /\ U[2 * n + w] = U[n + w] /\ M[2 * n + w] = M[n + w]
        /\ U[3 * n + w] = U[2 * n + w] /\ M[3 * n + w] = M[2 * n + w]
    BY <2>2
  <2> QED
    BY <2>1, <2>3
<1>2. ASSUME NEW w \in 0..(n - 1)
      PROVE  v <= K(w) * n + w
  <2> DEFINE x == K(w) * n + w
  <2>1. K(w) = 0 \/ K(w) = 1 \/ K(w) = 2 \/ K(w) = 3
    BY <1>1
  <2>2. x = w \/ x = n + w \/ x = 2 * n + w \/ x = 3 * n + w
    <3> HIDE DEF K
    <3> QED
      BY <2>1
  <2>3. U[x] = U[w] /\ M[x] = M[w] /\ x \in Nat
    <3>1. /\ w + n = n + w /\ (n + w) + n = 2 * n + w
          /\ (2 * n + w) + n = 3 * n + w
          /\ w \in Nat /\ n + w \in Nat /\ 2 * n + w \in Nat /\ 3 * n + w \in Nat
      OBVIOUS
    <3>2. /\ U[n + w] = U[w] /\ M[n + w] = M[w]
          /\ U[2 * n + w] = U[n + w] /\ M[2 * n + w] = M[n + w]
          /\ U[3 * n + w] = U[2 * n + w] /\ M[3 * n + w] = M[2 * n + w]
      BY <3>1
    <3> HIDE DEF x
    <3> QED
      BY <2>2, <3>1, <3>2
  <2>4. EligeTurno(n, U[w], M[w], x)
    <3>1. U[w] \in BOOLEAN /\ M[w] \in BOOLEAN
      OBVIOUS
    <3> QED
      BY <3>1, TurnoDeClase
  <2>5. EligeTurno(n, U[x], M[x], x)
    BY <2>3, <2>4
  <2> HIDE DEF x
  <2>6. x \notin 0..(v - 1)
    BY <2>5
  <2>7. v <= x
    BY <2>3, <2>6
  <2> QED
    BY <2>7 DEF x
<1>3. v < 4 * n
  <2>1. v <= K(0) * n + 0 /\ K(0) \in 0..3
    BY <1>1, <1>2
  <2> HIDE DEF K
  <2> QED
    BY <2>1

\* v is the r-th visit of turn t.
<1>4. PICK t \in 0..3, r \in 0..(n - 1) : v = t * n + r
  <2>1. CASE v \in 0..(n - 1)
    <3>1. v = 0 * n + v
      OBVIOUS
    <3> QED
      BY <2>1, <3>1
  <2>2. CASE v \in n..(2 * n - 1)
    <3>1. v = 1 * n + (v - n) /\ v - n \in 0..(n - 1)
      BY <2>2
    <3> QED
      BY <3>1
  <2>3. CASE v \in 2 * n..(3 * n - 1)
    <3>1. v = 2 * n + (v - 2 * n) /\ v - 2 * n \in 0..(n - 1)
      BY <2>3
    <3> QED
      BY <3>1
  <2>4. CASE v \in 3 * n..(4 * n - 1)
    <3>1. v = 3 * n + (v - 3 * n) /\ v - 3 * n \in 0..(n - 1)
      BY <2>4
    <3> QED
      BY <3>1
  <2> QED
    BY <1>3, <2>1, <2>2, <2>3, <2>4
<1>5. t = 0 \/ t = 1 \/ t = 2 \/ t = 3
  OBVIOUS
<1>6. v = r \/ v = n + r \/ v = 2 * n + r \/ v = 3 * n + r
  BY <1>4, <1>5
<1>7. v % n = r
  <2>0. r \in Nat /\ r < n /\ n \in Nat
    OBVIOUS
  <2>1. r % n = r
    BY <2>0, RestoMenor
  <2>2. (r + n) % n = r % n
    BY <2>0, UnaVuelta
  <2>3. ((r + n) + n) % n = (r + n) % n
    <3>1. r + n \in Nat
      OBVIOUS
    <3> QED
      BY <3>1, UnaVuelta
  <2>4. ((r + n + n) + n) % n = (r + n + n) % n
    <3>1. r + n + n \in Nat
      OBVIOUS
    <3> QED
      BY <3>1, UnaVuelta
  <2>5. n + r = r + n /\ 2 * n + r = r + n + n /\ 3 * n + r = r + n + n + n
    OBVIOUS
  <2> QED
    BY <1>6, <2>1, <2>2, <2>3, <2>4, <2>5
<1>8. K(v) = K(r)
  BY <1>1, <1>6
<1>9. K(v) = t
  <2>1. K(v) \in 0..3 /\ (v <= K(r) * n + r)
    BY <1>1, <1>2
  <2>2. ~(v >= 4 * n)
    BY <1>3
  <2>3. /\ U[v] => v >= 2 * n
        /\ M[v] <=> v \in n..(2 * n - 1) \cup 3 * n..(4 * n - 1)
    BY <2>2 DEF EligeTurno
  <2>4. CASE t = 0
    <3>1. v = r
      BY <2>4, <1>4
    <3>2. ~(v >= 2 * n) /\ v \notin n..(2 * n - 1) \cup 3 * n..(4 * n - 1)
      BY <3>1
    <3> QED
      BY <2>3, <2>4, <3>2 DEF ClaseDe
  <2>5. CASE t = 1
    <3>1. v = n + r
      BY <2>5, <1>4
    <3>2. ~(v >= 2 * n) /\ v \in n..(2 * n - 1)
      BY <3>1
    <3> QED
      BY <2>3, <2>5, <3>2 DEF ClaseDe
  <2>6. CASE t = 2
    <3>1. v = 2 * n + r
      BY <2>6, <1>4
    <3>2. v \notin n..(2 * n - 1) \cup 3 * n..(4 * n - 1)
      BY <3>1
    <3>3. K(v) = 0 \/ K(v) = 2
      BY <2>3, <3>2 DEF ClaseDe
    <3>4. K(v) # 0
      <4> HIDE DEF K
      <4> QED
        BY <2>1, <1>8, <3>1
    <3> QED
      BY <2>6, <3>3, <3>4
  <2>7. CASE t = 3
    <3>1. v = 3 * n + r
      BY <2>7, <1>4
    <3>2. v \in 3 * n..(4 * n - 1)
      BY <3>1
    <3>3. K(v) = 1 \/ K(v) = 3
      BY <2>3, <3>2 DEF ClaseDe
    <3>4. K(v) # 1
      <4> HIDE DEF K
      <4> QED
        BY <2>1, <1>8, <3>1
    <3> QED
      BY <2>7, <3>3, <3>4
  <2> QED
    BY <1>5, <2>4, <2>5, <2>6, <2>7
<1>10. ASSUME NEW w \in 0..(n - 1)
       PROVE  t <= K(w) /\ (w < r => t < K(w))
  <2>1. K(w) \in 0..3 /\ t * n + r <= K(w) * n + w
    BY <1>1, <1>2, <1>4
  <2>2. K(w) = 0 \/ K(w) = 1 \/ K(w) = 2 \/ K(w) = 3
    BY <2>1
  <2> HIDE DEF K
  <2> QED
    BY <2>1, <2>2, <1>5
<1> HIDE DEF K
<1>11. \A w \in 0..(n - 1) : K(v) <= K(w)
  BY <1>9, <1>10
<1>12. \A w \in 0..((v % n) - 1) : K(v) < K(w)
  BY <1>7, <1>9, <1>10
<1> QED
  BY <1>3, <1>11, <1>12 DEF K

LEMMA VictimaBien == InvCpu => VictimaDebida
<1> SUFFICES ASSUME InvCpu, NEW c \in Cpu, config[c].entradas_cache > 0,
                    Len(cache[c]) = config[c].entradas_cache
             PROVE  LET n == config[c].entradas_cache
                        valor(v) == Peor(c, cache[c][Visita(c, v)])
                        v == Pasos(c)
                    IN  /\ \A w \in 0..(n - 1) : valor(v) <= valor(w)
                        /\ \A w \in 0..((v % n) - 1) : valor(v) < valor(w)
                        /\ cache[c][Visita(c, v)].bit_modificado => SeEscribe(c, v)
  BY DEF VictimaDebida
<1> DEFINE n == config[c].entradas_cache
           v == Pasos(c)
           e(w) == cache[c][Visita(c, w)]
           U == [w \in Nat |-> e(w).bit_uso]
           M == [w \in Nat |-> e(w).bit_modificado]
           valor(w) == Peor(c, e(w))
<1>1. Llena(c) /\ n \in Nat \ {0}
  BY Capacidades DEF Llena
<1>2. /\ U \in [Nat -> BOOLEAN] /\ M \in [Nat -> BOOLEAN]
      /\ \A w \in Nat : (U[w + n] <=> U[w]) /\ (M[w + n] <=> M[w])
  <2>1. ASSUME NEW w \in Nat
        PROVE  /\ e(w).bit_uso \in BOOLEAN /\ e(w).bit_modificado \in BOOLEAN
               /\ e(w + n) = e(w) /\ w + n \in Nat
    <3>1. /\ Visita(c, w + n) = Visita(c, w)
          /\ cache[c][Visita(c, w)].bit_uso \in BOOLEAN
          /\ cache[c][Visita(c, w)].bit_modificado \in BOOLEAN
      BY <1>1, VisitaEnCache, Zenon
    <3>2. w + n \in Nat
      BY <1>1
    <3> QED
      BY <3>1, <3>2
  <2> HIDE DEF e, n
  <2> QED
    BY <2>1
<1>3. v \in 0..(4 * n) /\ Elige(c, v) /\ \A w \in 0..(v - 1) : ~Elige(c, w)
  BY <1>1, PasosHallados
<1>4. v \in Nat /\ \A w \in 0..(v - 1) : w \in Nat
  BY <1>3, <1>1
<1>4a. 0 \in Nat /\ n \in Nat /\ 0..(n - 1) \subseteq Nat
       /\ 0..((v % n) - 1) \subseteq 0..(n - 1)
  <2>1. v % n \in 0..(n - 1)
    <3> HIDE DEF v, n
    <3> QED
      BY <1>1, <1>4, Division
  <2> HIDE DEF v, n
  <2> QED
    BY <1>1, <2>1
<1>5. CASE config[c].algoritmo_cache = "CLOCK"
  <2>1. \A w \in Nat : Elige(c, w) <=> (w = n \/ ~U[w])
    BY <1>5 DEF Elige, EligeClock
  <2>2. \A w \in Nat : valor(w) = IF U[w] THEN 1 ELSE 0
    BY <1>5 DEF Peor
  <2>3. M[v] => SeEscribe(c, v)
    BY <1>4, <1>5 DEF SeEscribe
  <2>4. U[n] <=> U[0]
    <3>1. 0 + n = n
      BY <1>1
    <3> HIDE DEF U, M, n
    <3> QED
      BY <1>2, <3>1
  <2> HIDE DEF U, M, n, valor
  <2>5. /\ v = n \/ ~U[v]
        /\ \A w \in 0..(v - 1) : ~(w = n \/ ~U[w])
    BY <1>3, <1>4, <2>1
  <2> HIDE DEF v
  <2>6. /\ U[v] => \A w \in 0..(n - 1) : U[w]
        /\ \A w \in 0..((v % n) - 1) : U[w] /\ ~U[v]
    BY <1>1, <1>2, <1>3, <2>4, <2>5, VictimaClock
  <2>7. \A w \in 0..(n - 1) : valor(v) <= valor(w)
    BY <2>2, <2>6, <1>4, <1>4a
  <2>8. \A w \in 0..((v % n) - 1) : valor(v) < valor(w)
    BY <2>2, <2>6, <1>4, <1>4a
  <2> QED
    BY <2>3, <2>7, <2>8, <1>4 DEF valor, v, n, M
<1>6. CASE config[c].algoritmo_cache # "CLOCK"
  <2>1. \A w \in Nat : Elige(c, w) <=> EligeTurno(n, U[w], M[w], w)
    BY <1>6 DEF Elige, EligeClockM, EligeTurno
  <2>2. \A w \in Nat : valor(w) = ClaseDe(U[w], M[w])
    BY <1>6 DEF Peor, Clase, ClaseDe
  <2>3. v < 4 * n => (M[v] => SeEscribe(c, v))
    BY <1>4, <1>6 DEF SeEscribe
  <2> HIDE DEF U, M, n, valor
  <2>4. /\ EligeTurno(n, U[v], M[v], v)
        /\ \A w \in 0..(v - 1) : ~EligeTurno(n, U[w], M[w], w)
    BY <1>3, <1>4, <2>1
  <2> HIDE DEF v
  <2>5. /\ v < 4 * n
        /\ \A w \in 0..(n - 1) : ClaseDe(U[v], M[v]) <= ClaseDe(U[w], M[w])
        /\ \A w \in 0..((v % n) - 1) :
              ClaseDe(U[v], M[v]) < ClaseDe(U[w], M[w])
    BY <1>1, <1>2, <1>3, <2>4, VictimaClockM
  <2>6. \A w \in 0..(n - 1) : valor(v) <= valor(w)
    BY <2>2, <2>5, <1>4, <1>4a
  <2>7. \A w \in 0..((v % n) - 1) : valor(v) < valor(w)
    BY <2>2, <2>5, <1>4, <1>4a
  <2> QED
    BY <2>3, <2>5, <2>6, <2>7, <1>4 DEF valor, v, n, M
<1> QED
  BY <1>5, <1>6
-----------------------------------------------------------------------------
(* agregar_a_cache *)

\* The same page with the same contents, whatever bit_uso says.
Misma(x, y) ==
    /\ x.pid = y.pid /\ x.pagina = y.pagina /\ x.marco = y.marco
    /\ x.contenido = y.contenido /\ x.bit_modificado = y.bit_modificado

\* From cache s and frames e to cache t and frames f: the entries of N come
\* in, and at most one goes, to its frame if it was modified.
CacheTras(s, t, N, e, f) ==
    \E V \in SUBSET DOMAIN s :
       /\ \A k \in DOMAIN t : \/ t[k] \in N
                              \/ \E j \in DOMAIN s \ V : Misma(t[k], s[j])
       /\ \A x \in N : \E k \in DOMAIN t : t[k] = x
       /\ \A j \in DOMAIN s \ V : \E k \in DOMAIN t : Misma(t[k], s[j])
       /\ \/ V = {} /\ f = e
          \/ \E v \in DOMAIN s :
                /\ V = {v}
                /\ f = IF s[v].bit_modificado
                       THEN [e EXCEPT ![s[v].marco] = s[v].contenido] ELSE e

\* Only what CPU c keeps changes.
SoloDe(c) ==
    /\ cache' = [d \in Cpu |-> cache'[d]]
    /\ puntero_clock' = [d \in Cpu |-> puntero_clock'[d]]
    /\ \A d \in Cpu \ {c} :
          cache'[d] = cache[d] /\ puntero_clock'[d] = puntero_clock[d]

LEMMA AgregarSana ==
    ASSUME InvCpu, NEW c \in Cpu, contexto[c] # Nadie,
           config[c].entradas_cache > 0,
           NEW nueva, EsEntrada(nueva), nueva.pid = contexto[c],
           Lugar(cache[c], contexto[c], nueva.pagina) = {},
           AgregarACache(c, nueva)
    PROVE  /\ SoloDe(c)
           /\ CacheSana(config[c], contexto[c], cache'[c], puntero_clock'[c])
           /\ CacheTras(cache[c], cache'[c], {nueva},
                        espacio_usuario, espacio_usuario')
<1> DEFINE p == contexto[c]
           n == config[c].entradas_cache
           s == cache[c]
           v == Pasos(c)
           x == Visita(c, v)
<1>1. n \in Nat \ {0} /\ p \in Pid
  BY Capacidades
<1>2. /\ Ordenada(s, p, n) /\ \A k \in DOMAIN s : EsEntrada(s[k])
      /\ puntero_clock[c] \in Nat /\ puntero_clock[c] < n
  BY DEF InvCpu, CpuSana, CacheSana
<1>3. /\ cache = [d \in Cpu |-> cache[d]]
      /\ puntero_clock = [d \in Cpu |-> puntero_clock[d]]
  BY DEF InvCpu, Formas
<1>4. \A k \in DOMAIN s : s[k].pagina # nueva.pagina
  <2>1. n \in Nat /\ Ordenada(s, p, n) /\ Lugar(s, p, nueva.pagina) = {}
    BY <1>1, <1>2
  <2> HIDE DEF s, n, p
  <2>2. Lugar(s, p, nueva.pagina) = {k \in DOMAIN s : s[k].pagina = nueva.pagina}
    BY <2>1, LugarUnico
  <2> QED
    BY <2>1, <2>2
<1>5. s \in Seq(Imagen(s)) /\ Len(s) \in Nat /\ Len(s) <= n
  BY <1>2, LenProperties DEF Ordenada
<1>6. CASE Len(s) < n
  <2>1. /\ cache' = [cache EXCEPT ![c] = Append(s, nueva)]
        /\ UNCHANGED <<puntero_clock, espacio_usuario>>
    BY <1>6 DEF AgregarACache
  <2>2. cache'[c] = Append(s, nueva) /\ SoloDe(c)
    BY <2>1, <1>3 DEF SoloDe
  <2> DEFINE t == Append(s, nueva)
  <2>3. /\ Ordenada(t, p, n)
        /\ \A k \in DOMAIN t : t[k] = nueva \/ \E j \in DOMAIN s : t[k] = s[j]
        /\ \E k \in DOMAIN t : t[k] = nueva
        /\ \A j \in DOMAIN s : \E k \in DOMAIN t : t[k] = s[j]
    <3>1. nueva.pid = p /\ n \in Nat /\ Ordenada(s, p, n)
      BY <1>1, <1>2
    <3> HIDE DEF s, n, p
    <3>2. Ordenada(t, p, n) /\ ConOtra(s, nueva, t)
      BY <3>1, <1>4, <1>6, Agregada, Zenon
    <3> QED
      BY <3>2 DEF ConOtra
  <2> HIDE DEF t
  <2>4. \A k \in DOMAIN t : EsEntrada(t[k])
    BY <2>3, <1>2
  <2>5. CacheSana(config[c], p, t, puntero_clock'[c])
    BY <2>1, <2>3, <2>4, <1>2 DEF CacheSana
  <2>6. CacheTras(s, t, {nueva}, espacio_usuario, espacio_usuario')
    <3>1. {} \in SUBSET DOMAIN s /\ DOMAIN s \ {} = DOMAIN s
      OBVIOUS
    <3> QED
      BY <3>1, <2>1, <2>3 DEF CacheTras, Misma
  <2> QED
    BY <2>2, <2>5, <2>6 DEF t
<1>7. CASE Len(s) = n
  <2> DEFINE t == [k \in DOMAIN s |->
                     IF k = x THEN nueva
                     ELSE IF k \in Bajadas(c, v)
                     THEN [s[k] EXCEPT !.bit_uso = FALSE]
                     ELSE s[k]]
  <2>1. /\ cache' = [cache EXCEPT ![c] = t]
        /\ puntero_clock' = [puntero_clock EXCEPT ![c] = Avance(c, v)]
        /\ espacio_usuario' = IF SeEscribe(c, v)
                              THEN [espacio_usuario EXCEPT
                                      ![s[x].marco] = s[x].contenido]
                              ELSE espacio_usuario
    BY <1>7, <1>1 DEF AgregarACache
  <2>2. /\ Llena(c) /\ v \in Nat
    BY <1>1, <1>7, PasosHallados DEF Llena
  <2>3. x \in DOMAIN s
    BY <2>2, VisitaEnCache
  <2>4. s[x].bit_modificado <=> SeEscribe(c, v)
    <3>1. s[x].bit_modificado => SeEscribe(c, v)
      BY <1>7, <1>1, VictimaBien DEF VictimaDebida
    <3> QED
      BY <3>1 DEF SeEscribe
  <2>5. cache'[c] = t /\ puntero_clock'[c] = Avance(c, v) /\ SoloDe(c)
    BY <2>1, <1>3 DEF SoloDe
  <2>6. Avance(c, v) \in Nat /\ Avance(c, v) < n
    <3>1. puntero_clock[c] + v + 1 \in Nat
      BY <1>2, <2>2
    <3>2. (puntero_clock[c] + v + 1) % n \in 0..(n - 1)
      BY <3>1, <1>1, Division
    <3> QED
      BY <3>2, <1>1 DEF Avance
  <2> HIDE DEF x, v
  <2>7. t[x] = nueva /\ DOMAIN t = DOMAIN s /\ t = [k \in DOMAIN s |-> t[k]]
    BY <2>3
  <2>8. ASSUME NEW k \in DOMAIN s \ {x}
        PROVE  Misma(t[k], s[k]) /\ EsEntrada(t[k])
    <3>1. EsEntrada(s[k])
      BY <1>2
    <3>2. CASE k \in Bajadas(c, v)
      <4>1. t[k] = [s[k] EXCEPT !.bit_uso = FALSE]
        BY <3>2
      <4> HIDE DEF t
      <4> QED
        BY <3>1, <4>1 DEF EsEntrada, Misma
    <3>3. CASE k \notin Bajadas(c, v)
      <4>1. t[k] = s[k]
        BY <3>3
      <4> HIDE DEF t
      <4> QED
        BY <3>1, <4>1 DEF Misma
    <3> QED
      BY <3>2, <3>3
  <2> HIDE DEF t
  <2>9. Ordenada(t, p, n)
    <3>1. \A k \in DOMAIN s \ {x} :
             t[k].pid = s[k].pid /\ t[k].pagina = s[k].pagina
      BY <2>8 DEF Misma
    <3>2. nueva.pid = p
      OBVIOUS
    <3> HIDE DEF s, n, p
    <3> QED
      BY <1>1, <1>2, <1>4, <2>3, <2>7, <3>1, <3>2, Reemplazada
  <2>10. \A k \in DOMAIN t : EsEntrada(t[k])
    BY <2>7, <2>8
  <2>11. CacheSana(config[c], p, t, puntero_clock'[c])
    BY <2>5, <2>6, <2>9, <2>10 DEF CacheSana
  <2>12. CacheTras(s, t, {nueva}, espacio_usuario, espacio_usuario')
    <3>1. espacio_usuario' = IF s[x].bit_modificado
                             THEN [espacio_usuario EXCEPT
                                     ![s[x].marco] = s[x].contenido]
                             ELSE espacio_usuario
      BY <2>1, <2>4
    <3>2. \A k \in DOMAIN t :
             t[k] = nueva \/ \E j \in DOMAIN s \ {x} : Misma(t[k], s[j])
      BY <2>7, <2>8
    <3>3. /\ \E k \in DOMAIN t : t[k] = nueva
          /\ \A j \in DOMAIN s \ {x} : \E k \in DOMAIN t : Misma(t[k], s[j])
      BY <2>3, <2>7, <2>8
    <3>4. {x} \in SUBSET DOMAIN s
      BY <2>3
    <3> HIDE DEF s
    <3> QED
      BY <2>3, <3>1, <3>2, <3>3, <3>4 DEF CacheTras
  <2> QED
    BY <2>5, <2>11, <2>12
<1> QED
  BY <1>5, <1>6, <1>7, <1>1
-----------------------------------------------------------------------------
(* The steps of the CPUs and the order of what they keep *)

LEMMA InicioCpu == MmuInit => InvCpu
<1> SUFFICES ASSUME MmuInit PROVE InvCpu
  OBVIOUS
<1>1. Formas
  BY MmuAssumption DEF MmuInit, Formas
<1>2. ASSUME NEW c \in Cpu PROVE CpuSana(c)
  <2>1. /\ config[c].entradas_cache \in Nat /\ config[c].entradas_tlb \in Nat
    BY <1>1, MmuAssumption DEF Formas
  <2>2. /\ contexto[c] = Nadie /\ cache[c] = <<>> /\ tlb[c] = <<>>
        /\ puntero_clock[c] = 0 /\ vaciando[c] = FALSE
    BY DEF MmuInit
  <2>3. /\ Ordenada(<<>>, Nadie, config[c].entradas_cache)
        /\ Ordenada(<<>>, Nadie, config[c].entradas_tlb)
    BY <2>1, Vacia
  <2>4. DOMAIN <<>> = {}
    BY EmptySeq
  <2> QED
    BY <2>1, <2>2, <2>3, <2>4 DEF CpuSana, CacheSana, TlbSana
<1> QED
  BY <1>1, <1>2 DEF InvCpu

\* A step of CPU c touches nothing of the others.
LEMMA DeUnaCpu ==
    ASSUME InvCpu, NEW c \in Cpu, Formas', CpuSana(c)',
           \A d \in Cpu \ {c} :
              /\ config'[d] = config[d] /\ contexto'[d] = contexto[d]
              /\ vaciando'[d] = vaciando[d] /\ cache'[d] = cache[d]
              /\ puntero_clock'[d] = puntero_clock[d] /\ tlb'[d] = tlb[d]
    PROVE  InvCpu'
<1>1. ASSUME NEW d \in Cpu \ {c} PROVE CpuSana(d)'
  BY DEF InvCpu, CpuSana
<1> QED
  BY <1>1 DEF InvCpu

LEMMA CpuQuieta ==
    ASSUME InvCpu, UNCHANGED <<config, contexto, vaciando, cache, puntero_clock,
                               tlb>>,
           ahora' \in 0..Segundos
    PROVE  InvCpu'
<1>1. \A c \in Cpu : CpuSana(c)'
  BY DEF InvCpu, CpuSana
<1>2. Formas'
  BY DEF InvCpu, Formas
<1> QED
  BY <1>1, <1>2 DEF InvCpu

\* A page that is in the cache: its bits and its contents may change.
LEMMA EntradaTocada ==
    ASSUME InvCpu, NEW c \in Cpu, NEW k \in DOMAIN cache[c], NEW e,
           EsEntrada(e),
           e.pid = cache[c][k].pid, e.pagina = cache[c][k].pagina,
           cache' = [cache EXCEPT ![c] = [cache[c] EXCEPT ![k] = e]],
           UNCHANGED <<config, contexto, vaciando, puntero_clock, tlb, ahora>>
    PROVE  InvCpu'
<1> DEFINE s == cache[c]
           t == [s EXCEPT ![k] = e]
           p == contexto[c]
           n == config[c].entradas_cache
<1>1. /\ Ordenada(s, p, n) /\ n \in Nat /\ \A j \in DOMAIN s : EsEntrada(s[j])
      /\ s \in Seq(Imagen(s))
  BY Capacidades DEF InvCpu, CpuSana, CacheSana, Ordenada
<1>2. cache = [d \in Cpu |-> cache[d]]
  BY DEF InvCpu, Formas
<1>3. /\ cache'[c] = t /\ cache' = [d \in Cpu |-> cache'[d]]
      /\ \A d \in Cpu \ {c} : cache'[d] = cache[d]
  BY <1>2
<1>4. /\ t = [j \in DOMAIN s |-> t[j]] /\ DOMAIN t = DOMAIN s
      /\ \A j \in DOMAIN s : t[j] = IF j = k THEN e ELSE s[j]
  OBVIOUS
<1>5. \A j \in DOMAIN s : t[j].pid = s[j].pid /\ t[j].pagina = s[j].pagina
  BY <1>4
<1>6. Ordenada(t, p, n)
  <2> HIDE DEF s, t, p, n
  <2> QED
    BY <1>1, <1>4, <1>5, MismasClaves
<1>7. \A j \in DOMAIN t : EsEntrada(t[j])
  BY <1>1, <1>4
<1> HIDE DEF t
<1>8. CpuSana(c)'
  BY <1>3, <1>6, <1>7 DEF InvCpu, CpuSana, CacheSana
<1>9. Formas'
  BY <1>3 DEF InvCpu, Formas
<1> QED
  BY <1>3, <1>8, <1>9, DeUnaCpu

LEMMA PasoLeerEnCache ==
    ASSUME InvCpu, NEW c \in Cpu, NEW i, LeerEnCache(c, i)
    PROVE  InvCpu'
<1>1. PICK k \in Lugar(cache[c], contexto[c], i) :
         /\ cache' = [cache EXCEPT ![c][k].bit_uso = TRUE]
         /\ UNCHANGED <<config, contexto, vaciando, puntero_clock, tlb, ahora>>
  BY DEF LeerEnCache
<1>2. k \in DOMAIN cache[c] /\ EsEntrada(cache[c][k])
  BY DEF Lugar, InvCpu, CpuSana, CacheSana
<1>3. PICK e : e = [cache[c][k] EXCEPT !.bit_uso = TRUE]
  OBVIOUS
<1>4. /\ EsEntrada(e) /\ e.pid = cache[c][k].pid
      /\ e.pagina = cache[c][k].pagina
  BY <1>2, <1>3 DEF EsEntrada
<1>5. cache' = [cache EXCEPT ![c] = [cache[c] EXCEPT ![k] = e]]
  BY <1>1, <1>3
<1> QED
  BY <1>1, <1>2, <1>4, <1>5, EntradaTocada

\* What WRITE makes of the entry of its page.
Escrita(e, d, x) ==
    [e EXCEPT !.bit_uso = TRUE, !.bit_modificado = TRUE, !.contenido[d] = x]

LEMMA EscrituraEnCache ==
    ASSUME InvCpu, NEW c \in Cpu, NEW i, NEW d, NEW x,
           EscribirEnCache(c, i, d, x)
    PROVE  \E k \in Lugar(cache[c], contexto[c], i) :
              /\ k \in DOMAIN cache[c] /\ EsEntrada(cache[c][k])
              /\ cache' = [cache EXCEPT ![c] =
                             [cache[c] EXCEPT ![k] = Escrita(cache[c][k], d, x)]]
              /\ UNCHANGED <<vars, config, contexto, vaciando, puntero_clock,
                             tlb, ahora>>
<1>1. PICK k \in Lugar(cache[c], contexto[c], i) :
         /\ cache' = [cache EXCEPT ![c][k].bit_uso = TRUE,
                                   ![c][k].bit_modificado = TRUE,
                                   ![c][k].contenido[d] = x]
         /\ UNCHANGED <<vars, config, contexto, vaciando, puntero_clock, tlb,
                        ahora>>
  BY DEF EscribirEnCache
<1>2. k \in DOMAIN cache[c] /\ EsEntrada(cache[c][k])
  BY DEF Lugar, InvCpu, CpuSana, CacheSana
<1>3. c \in DOMAIN cache
  BY DEF InvCpu, Formas
<1>4. cache' = [cache EXCEPT ![c] =
                  [cache[c] EXCEPT ![k] = Escrita(cache[c][k], d, x)]]
  BY <1>1, <1>2, <1>3 DEF Escrita, EsEntrada
<1> QED
  BY <1>1, <1>2, <1>4

LEMMA PasoEscribirEnCache ==
    ASSUME InvCpu, NEW c \in Cpu, NEW i, NEW d, NEW x,
           EscribirEnCache(c, i, d, x)
    PROVE  InvCpu'
<1>1. PICK k \in Lugar(cache[c], contexto[c], i) :
         /\ k \in DOMAIN cache[c] /\ EsEntrada(cache[c][k])
         /\ cache' = [cache EXCEPT ![c] =
                        [cache[c] EXCEPT ![k] = Escrita(cache[c][k], d, x)]]
         /\ UNCHANGED <<config, contexto, vaciando, puntero_clock, tlb, ahora>>
  BY EscrituraEnCache
<1>2. PICK e : e = Escrita(cache[c][k], d, x)
  OBVIOUS
<1>3. /\ EsEntrada(e) /\ e.pid = cache[c][k].pid
      /\ e.pagina = cache[c][k].pagina
  BY <1>1, <1>2 DEF EsEntrada, Escrita
<1> QED
  BY <1>1, <1>2, <1>3, EntradaTocada

\* The translation of page i to m, without a cache.
LEMMA SoloLaTlb ==
    ASSUME InvCpu, NEW c \in Cpu, contexto[c] # Nadie, NEW i \in Nat, NEW m,
           tlb' = [tlb EXCEPT ![c] = TlbTras(c, contexto[c], i, m)],
           UNCHANGED <<config, contexto, vaciando, ahora>>, SoloDe(c),
           ~vaciando[c],
           CacheSana(config[c], contexto[c], cache'[c], puntero_clock'[c])
    PROVE  InvCpu'
<1>1. tlb = [d \in Cpu |-> tlb[d]]
  BY DEF InvCpu, Formas
<1>2. /\ tlb'[c] = TlbTras(c, contexto[c], i, m) /\ tlb' = [d \in Cpu |-> tlb'[d]]
      /\ \A d \in Cpu \ {c} : tlb'[d] = tlb[d]
  BY <1>1
<1>3. TlbSana(config[c], contexto[c], tlb'[c])
  BY <1>2, TlbTrasSana
<1>4. CpuSana(c)'
  BY <1>3 DEF CpuSana
<1>5. Formas'
  BY <1>2 DEF InvCpu, Formas, SoloDe
<1> QED
  BY <1>2, <1>4, <1>5, DeUnaCpu DEF SoloDe

LEMMA PasoTraer ==
    ASSUME InvCpu, NEW c \in Cpu, contexto[c] # Nadie, ~vaciando[c],
           config[c].entradas_cache > 0, NEW i \in Nat,
           NEW contenido, NEW modificado \in BOOLEAN, NEW m,
           Lugar(cache[c], contexto[c], i) = {},
           Traer(c, i, contenido, modificado, m)
    PROVE  /\ InvCpu'
           /\ CacheTras(cache[c], cache'[c],
                        {[pid |-> contexto[c], pagina |-> i, marco |-> m,
                          contenido |-> contenido, bit_uso |-> TRUE,
                          bit_modificado |-> modificado]},
                        espacio_usuario, espacio_usuario')
<1> DEFINE nueva == [pid |-> contexto[c], pagina |-> i, marco |-> m,
                     contenido |-> contenido, bit_uso |-> TRUE,
                     bit_modificado |-> modificado]
<1>1. /\ tlb' = [tlb EXCEPT ![c] = TlbTras(c, contexto[c], i, m)]
      /\ AgregarACache(c, nueva)
      /\ UNCHANGED <<config, contexto, vaciando, ahora>>
  BY DEF Traer
<1>2. /\ EsEntrada(nueva) /\ nueva.pid = contexto[c] /\ nueva.pagina = i
  BY Capacidades DEF EsEntrada
<1> HIDE DEF nueva
<1>3. /\ SoloDe(c)
      /\ CacheSana(config[c], contexto[c], cache'[c], puntero_clock'[c])
      /\ CacheTras(cache[c], cache'[c], {nueva}, espacio_usuario, espacio_usuario')
  BY <1>1, <1>2, AgregarSana
<1>4. InvCpu'
  BY <1>1, <1>3, SoloLaTlb
<1> QED
  BY <1>3, <1>4 DEF nueva

\* Without a cache the only thing that a CPU keeps is the translation.
LEMMA SinCache ==
    ASSUME InvCpu, NEW c \in Cpu, contexto[c] # Nadie, ~vaciando[c],
           NEW i \in Nat, NEW m,
           tlb' = [tlb EXCEPT ![c] = TlbTras(c, contexto[c], i, m)],
           UNCHANGED <<config, contexto, vaciando, cache, puntero_clock, ahora>>
    PROVE  InvCpu'
<1>1. /\ SoloDe(c)
      /\ CacheSana(config[c], contexto[c], cache'[c], puntero_clock'[c])
  BY DEF SoloDe, InvCpu, Formas, CpuSana
<1> QED
  BY <1>1, SoloLaTlb

LEMMA PasoDeInstruccion ==
    ASSUME InvCpu, NEW c \in Cpu, Instruccion(c)
    PROVE  InvCpu'
<1>1. contexto[c] # Nadie /\ ~vaciando[c] /\ Paginas[contexto[c]] \in Nat
  BY Capacidades, MemoriaAssumption DEF Instruccion
<1>2. PICK i \in 1..Paginas[contexto[c]] :
         \/ LeerEnCache(c, i) \/ LeerDeMemoria(c, i)
         \/ \E d \in Desplazamiento, x \in Dato :
               EscribirEnCache(c, i, d, x) \/ EscribirEnMemoria(c, i, d, x)
  BY DEF Instruccion
<1>3. i \in Nat
  BY <1>1
<1>4. CASE LeerEnCache(c, i)
  BY <1>4, PasoLeerEnCache
<1>5. CASE LeerDeMemoria(c, i)
  <2>1. PICK m \in Traducir(c, contexto[c], i) :
           IF config[c].entradas_cache > 0
           THEN Traer(c, i, espacio_usuario[m], FALSE, m)
           ELSE /\ tlb' = [tlb EXCEPT ![c] = TlbTras(c, contexto[c], i, m)]
                /\ UNCHANGED <<config, contexto, vaciando, cache,
                               puntero_clock, ahora>>
    BY <1>5 DEF LeerDeMemoria
  <2>2. Lugar(cache[c], contexto[c], i) = {}
    BY <1>5 DEF LeerDeMemoria
  <2>3. CASE config[c].entradas_cache > 0
    <3>1. Traer(c, i, espacio_usuario[m], FALSE, m) /\ FALSE \in BOOLEAN
      BY <2>1, <2>3
    <3> QED
      BY <3>1, <2>2, <2>3, <1>1, <1>3, PasoTraer
  <2>4. CASE ~(config[c].entradas_cache > 0)
    BY <2>1, <2>4, <1>1, <1>3, SinCache
  <2> QED
    BY <2>3, <2>4
<1>6. ASSUME NEW d \in Desplazamiento, NEW x \in Dato,
             EscribirEnCache(c, i, d, x)
      PROVE  InvCpu'
  BY <1>6, PasoEscribirEnCache
<1>7. ASSUME NEW d \in Desplazamiento, NEW x \in Dato,
             EscribirEnMemoria(c, i, d, x)
      PROVE  InvCpu'
  <2>1. PICK m \in Traducir(c, contexto[c], i) :
           IF config[c].entradas_cache > 0
           THEN Traer(c, i, [espacio_usuario[m] EXCEPT ![d] = x], TRUE, m)
           ELSE /\ tlb' = [tlb EXCEPT ![c] = TlbTras(c, contexto[c], i, m)]
                /\ UNCHANGED <<config, contexto, vaciando, cache,
                               puntero_clock, ahora>>
    BY <1>7 DEF EscribirEnMemoria
  <2>2. Lugar(cache[c], contexto[c], i) = {}
    BY <1>7 DEF EscribirEnMemoria
  <2>3. CASE config[c].entradas_cache > 0
    <3>1. Traer(c, i, [espacio_usuario[m] EXCEPT ![d] = x], TRUE, m)
      BY <2>1, <2>3
    <3> QED
      BY <3>1, <2>2, <2>3, <1>1, <1>3, PasoTraer
  <2>4. CASE ~(config[c].entradas_cache > 0)
    BY <2>1, <2>4, <1>1, <1>3, SinCache
  <2> QED
    BY <2>3, <2>4
<1> QED
  BY <1>2, <1>4, <1>5, <1>6, <1>7

\* The TLB only holds what is of the process that leaves: nothing stays.
LEMMA TlbLimpia ==
    ASSUME InvCpu, NEW c \in Cpu, DevolverContexto(c)
    PROVE  tlb' = [tlb EXCEPT ![c] = <<>>]
<1> DEFINE quedan == DOMAIN tlb[c] \ LugaresDe(tlb[c], contexto[c])
<1>1. quedan = {}
  BY DEF InvCpu, CpuSana, TlbSana, Ordenada, LugaresDe
<1>2. Cardinality(quedan) = 0
  BY <1>1, FS_EmptySet
<1>3. PICK g \in PrimerosDe(quedan, Cardinality(quedan)) :
         tlb' = [tlb EXCEPT ![c] = [k \in DOMAIN g |-> tlb[c][g[k]]]]
  BY DEF DevolverContexto
<1> HIDE DEF quedan
<1>4. DOMAIN g = 1..0
  BY <1>2, <1>3 DEF PrimerosDe
<1>5. [k \in DOMAIN g |-> tlb[c][g[k]]] = <<>>
  <2>1. DOMAIN [k \in DOMAIN g |-> tlb[c][g[k]]] = {}
    BY <1>4
  <2> QED
    BY <2>1
<1> QED
  BY <1>3, <1>5

LEMMA PasoDevolver ==
    ASSUME InvCpu, NEW c \in Cpu, DevolverContexto(c)
    PROVE  InvCpu'
<1>1. /\ contexto[c] # Nadie /\ ~vaciando[c]
      /\ vaciando' = [vaciando EXCEPT ![c] = TRUE]
      /\ UNCHANGED <<config, contexto, cache, puntero_clock, ahora>>
  BY DEF DevolverContexto
<1>2. tlb' = [tlb EXCEPT ![c] = <<>>]
  BY TlbLimpia
<1>3. tlb = [d \in Cpu |-> tlb[d]] /\ vaciando \in [Cpu -> BOOLEAN]
  BY DEF InvCpu, Formas
<1>4. /\ tlb'[c] = <<>> /\ vaciando'[c] /\ tlb' = [d \in Cpu |-> tlb'[d]]
      /\ \A d \in Cpu \ {c} : tlb'[d] = tlb[d] /\ vaciando'[d] = vaciando[d]
      /\ vaciando' \in [Cpu -> BOOLEAN]
  BY <1>1, <1>2, <1>3
<1>5. TlbSana(config[c], contexto[c], <<>>)
  <2>1. DOMAIN <<>> = {}
    BY EmptySeq
  <2>2. Ordenada(<<>>, contexto[c], config[c].entradas_tlb)
    BY Vacia, Capacidades
  <2> QED
    BY <2>1, <2>2 DEF TlbSana
<1>6. CpuSana(c)'
  BY <1>1, <1>4, <1>5 DEF InvCpu, CpuSana
<1>7. Formas'
  BY <1>1, <1>4 DEF InvCpu, Formas
<1> QED
  BY <1>1, <1>4, <1>6, <1>7, DeUnaCpu

\* A list with no entry is of any process.
LEMMA DeCualquiera ==
    ASSUME NEW s, NEW p, NEW q, NEW n \in Nat, Ordenada(s, p, n), DOMAIN s = {}
    PROVE  Ordenada(s, q, n)
BY DEF Ordenada

LEMMA PasoRecibir ==
    ASSUME InvCpu, NEW c \in Cpu, NEW p \in Pid, RecibirContexto(c, p)
    PROVE  InvCpu'
<1>1. /\ contexto[c] = Nadie /\ contexto' = [contexto EXCEPT ![c] = p]
      /\ UNCHANGED <<config, vaciando, cache, puntero_clock, tlb, ahora>>
  BY DEF RecibirContexto
<1>2. CpuSana(c) /\ p # Nadie
  BY MmuAssumption DEF InvCpu
<1>3. DOMAIN cache[c] = {} /\ DOMAIN tlb[c] = {}
  <2>1. /\ \A k \in DOMAIN cache[c] :
              cache[c][k].pid = Nadie /\ cache[c][k].pid \in Pid
        /\ \A k \in DOMAIN tlb[c] :
              tlb[c][k].pid = Nadie /\ tlb[c][k].pid \in Pid
    BY <1>1, <1>2 DEF CpuSana, CacheSana, TlbSana, Ordenada, EsEntrada,
                      EsEntradaTlb
  <2> QED
    BY <2>1, MmuAssumption
<1>4. /\ contexto' \in [Cpu -> Pid \cup {Nadie}] /\ contexto'[c] = p
      /\ \A d \in Cpu \ {c} : contexto'[d] = contexto[d]
  BY <1>1 DEF InvCpu, Formas
<1>5. /\ Ordenada(cache[c], p, config[c].entradas_cache)
      /\ Ordenada(tlb[c], p, config[c].entradas_tlb)
  BY <1>2, <1>3, Capacidades, DeCualquiera DEF CpuSana, CacheSana, TlbSana
<1>6. CacheSana(config[c], p, cache[c], puntero_clock[c])
  BY <1>2, <1>5 DEF CpuSana, CacheSana
<1>7. TlbSana(config[c], p, tlb[c])
  BY <1>2, <1>5 DEF CpuSana, TlbSana
<1>8. ~vaciando[c]
  BY <1>1, <1>2 DEF CpuSana
<1>9. CpuSana(c)'
  BY <1>1, <1>2, <1>4, <1>6, <1>7, <1>8 DEF CpuSana
<1>10. Formas'
  BY <1>1, <1>4 DEF InvCpu, Formas
<1> QED
  BY <1>1, <1>4, <1>9, <1>10, DeUnaCpu

LEMMA PasoVaciar ==
    ASSUME InvCpu, NEW c \in Cpu, VaciarCache(c)
    PROVE  InvCpu'
<1>1. CpuSana(c) /\ vaciando[c] /\ UNCHANGED <<config, puntero_clock, tlb, ahora>>
  BY DEF InvCpu, VaciarCache
<1>2. tlb[c] = <<>>
  BY <1>1 DEF CpuSana
<1>3. /\ config[c].entradas_cache \in Nat /\ config[c].entradas_tlb \in Nat
  BY Capacidades
<1>4. CASE /\ LugaresDe(cache[c], contexto[c]) = {}
           /\ contexto' = [contexto EXCEPT ![c] = Nadie]
           /\ vaciando' = [vaciando EXCEPT ![c] = FALSE]
           /\ UNCHANGED <<vars, cache, caido>>
  <2>1. DOMAIN cache[c] = {}
    BY <1>1, <1>4 DEF LugaresDe, CpuSana, CacheSana, Ordenada
  <2>2. /\ contexto' \in [Cpu -> Pid \cup {Nadie}] /\ contexto'[c] = Nadie
        /\ vaciando' \in [Cpu -> BOOLEAN] /\ vaciando'[c] = FALSE
        /\ \A d \in Cpu \ {c} :
              contexto'[d] = contexto[d] /\ vaciando'[d] = vaciando[d]
    BY <1>4 DEF InvCpu, Formas
  <2>3. Ordenada(cache[c], Nadie, config[c].entradas_cache)
    BY <1>1, <1>3, <2>1, DeCualquiera DEF CpuSana, CacheSana
  <2>4. CacheSana(config[c], Nadie, cache[c], puntero_clock[c])
    BY <1>1, <2>3 DEF CpuSana, CacheSana
  <2>5. TlbSana(config[c], Nadie, tlb[c])
    <3>1. DOMAIN <<>> = {}
      BY EmptySeq
    <3>2. Ordenada(<<>>, Nadie, config[c].entradas_tlb)
      BY <1>3, Vacia
    <3> QED
      BY <1>2, <3>1, <3>2 DEF TlbSana
  <2>6. CpuSana(c)'
    BY <1>1, <1>4, <2>2, <2>4, <2>5 DEF CpuSana
  <2>7. Formas'
    BY <1>1, <1>4, <2>2 DEF InvCpu, Formas
  <2> QED
    BY <1>1, <1>4, <2>2, <2>6, <2>7, DeUnaCpu
<1>5. ASSUME NEW k \in LugaresDe(cache[c], contexto[c]),
             cache' = [cache EXCEPT ![c] = RemoveAt(cache[c], k)],
             UNCHANGED <<contexto, vaciando>>
      PROVE  InvCpu'
  <2> DEFINE s == cache[c]
             t == RemoveAt(s, k)
             p == contexto[c]
             n == config[c].entradas_cache
  <2>1. k \in DOMAIN s /\ Ordenada(s, p, n) /\ n \in Nat
    BY <1>1, <1>3 DEF LugaresDe, CpuSana, CacheSana
  <2>2. /\ Ordenada(t, p, n)
        /\ \A j \in DOMAIN t : \E i \in DOMAIN s : t[j] = s[i]
    <3> HIDE DEF s, p, n
    <3>1. Ordenada(RemoveAt(s, k), p, n) /\ SinUna(s, k, RemoveAt(s, k))
      BY <2>1, Sacada
    <3> QED
      BY <3>1 DEF SinUna
  <2> HIDE DEF t
  <2>3. \A j \in DOMAIN t : EsEntrada(t[j])
    BY <1>1, <2>2 DEF CpuSana, CacheSana
  <2>4. CacheSana(config[c], p, t, puntero_clock[c])
    BY <1>1, <2>2, <2>3 DEF CpuSana, CacheSana
  <2>5. cache = [d \in Cpu |-> cache[d]]
    BY DEF InvCpu, Formas
  <2>6. /\ cache'[c] = t /\ cache' = [d \in Cpu |-> cache'[d]]
        /\ \A d \in Cpu \ {c} : cache'[d] = cache[d]
    BY <1>5, <2>5 DEF t
  <2>7. CpuSana(c)'
    BY <1>1, <1>5, <2>4, <2>6 DEF CpuSana
  <2>8. Formas'
    BY <1>1, <1>5, <2>6 DEF InvCpu, Formas
  <2> QED
    BY <1>1, <1>5, <2>6, <2>7, <2>8, DeUnaCpu
<1> QED
  BY <1>4, <1>5, Zenon DEF VaciarCache

LEMMA PasoCpu == InvCpu /\ [MmuNext]_mmuVars => InvCpu'
<1> SUFFICES ASSUME InvCpu, [MmuNext]_mmuVars PROVE InvCpu'
  OBVIOUS
<1>0. ahora \in 0..Segundos /\ Segundos \in Nat
  BY MmuAssumption DEF InvCpu, Formas
<1>1. CASE UNCHANGED mmuVars
  BY <1>0, <1>1, CpuQuieta DEF mmuVars, cpuVars
<1>2. ASSUME NEW c \in Cpu, VaciarCache(c) PROVE InvCpu'
  BY <1>2, PasoVaciar
<1>3. ASSUME NEW c \in Cpu, InstruccionFueraDeRango(c) PROVE InvCpu'
  BY <1>0, <1>3, CpuQuieta DEF InstruccionFueraDeRango, cpuVars
<1>4. ASSUME NEW c \in Cpu, Instruccion(c) PROVE InvCpu'
  BY <1>4, PasoDeInstruccion
<1>5. ASSUME NEW c \in Cpu, DevolverContexto(c) PROVE InvCpu'
  BY <1>5, PasoDevolver
<1>6. ASSUME NEW c \in Cpu, NEW p \in Pid, RecibirContexto(c, p) PROVE InvCpu'
  BY <1>6, PasoRecibir
<1>7. ASSUME NEW p \in Pid, PedidoDelKernel(p) PROVE InvCpu'
  BY <1>0, <1>7, CpuQuieta DEF PedidoDelKernel, cpuVars
<1>8. CASE PasaUnSegundo
  <2>1. ahora' \in 0..Segundos
    BY <1>0, <1>8 DEF PasaUnSegundo
  <2> QED
    BY <2>1, <1>8, CpuQuieta DEF PasaUnSegundo
<1> QED
  BY <1>1, <1>2, <1>3, <1>4, <1>5, <1>6, <1>7, <1>8 DEF MmuNext

LEMMA InvarianteCpu == MmuSpec => []InvCpu
<1>1. MmuInit => InvCpu
  BY InicioCpu
<1>2. InvCpu /\ [MmuNext]_mmuVars => InvCpu'
  BY PasoCpu
<1> QED
  BY <1>1, <1>2, PTL DEF MmuSpec

\* A CPU holds nothing of a process whose context it has not, for any number
\* of CPUs, any sizes of cache and TLB, any algorithms and however the flush
\* of one process falls between the requests of others (cpu.c:238-244,
\* cache.c:137-150, tlb.c:63-72).
THEOREM NadaAjeno == MmuSpec => []SoloDelContexto
<1>1. InvCpu => SoloDelContexto
  <2> SUFFICES ASSUME InvCpu, NEW c \in Cpu
               PROVE  /\ \A k \in DOMAIN cache[c] : cache[c][k].pid = contexto[c]
                      /\ \A k \in DOMAIN tlb[c] :
                            tlb[c][k].pid = contexto[c] /\ ~vaciando[c]
    BY DEF SoloDelContexto
  <2>1. CpuSana(c)
    BY DEF InvCpu
  <2>2. DOMAIN <<>> = {}
    BY EmptySeq
  <2> QED
    BY <2>1, <2>2 DEF CpuSana, CacheSana, TlbSana, Ordenada
<1> QED
  BY <1>1, InvarianteCpu, PTL

\* Neither list outgrows its configuration or holds a page twice, and the
\* pointer that no flush resets is always a place of the cache (cache.c:34
\* and 53, tlb.c:38).
THEOREM SiempreEnOrden == MmuSpec => []EntradasEnOrden
<1>1. InvCpu => EntradasEnOrden
  <2> SUFFICES ASSUME InvCpu, NEW c \in Cpu
               PROVE  /\ Len(cache[c]) <= config[c].entradas_cache
                      /\ Len(tlb[c]) <= config[c].entradas_tlb
                      /\ SinRepetidas(cache[c]) /\ SinRepetidas(tlb[c])
                      /\ cache[c] # <<>> =>
                            puntero_clock[c] < config[c].entradas_cache
    BY DEF EntradasEnOrden
  <2>1. CpuSana(c)
    BY DEF InvCpu
  <2>2. config[c].entradas_cache \in Nat
    BY Capacidades
  <2>3. cache[c] # <<>> => config[c].entradas_cache > 0
    <3>1. /\ cache[c] \in Seq(Imagen(cache[c]))
          /\ Len(cache[c]) <= config[c].entradas_cache
      BY <2>1 DEF CpuSana, CacheSana, Ordenada
    <3> QED
      BY <3>1, <2>2, EmptySeq, LenProperties
  <2> QED
    BY <2>1, <2>3 DEF CpuSana, CacheSana, TlbSana, Ordenada
<1> QED
  BY <1>1, InvarianteCpu, PTL

\* The victim that the turns of a full cache find is the one the algorithm
\* promises, for a cache of any size, and CLOCK-M always finds one within its
\* four turns, so it never drops a modified page (cache.c:32-84).
THEOREM SiempreVictimaDebida == MmuSpec => []VictimaDebida
BY InvarianteCpu, VictimaBien, PTL
-----------------------------------------------------------------------------
(* What the CPUs keep is what memoria has *)

DeSuMarco(e, p) ==
    e.pagina \in 1..Paginas[p] /\ e.marco = tabla[p][e.pagina]

\* An entry that was not modified has what its frame has.
EntradaFiel(e, p) ==
    /\ DeSuMarco(e, p) /\ e.contenido \in Valor
    /\ e.bit_modificado \/ e.contenido = espacio_usuario[e.marco]

CpuFiel(c) ==
    contexto[c] # Nadie =>
       /\ contexto[c] \in procesos_memoria
       /\ \A k \in DOMAIN cache[c] : EntradaFiel(cache[c][k], contexto[c])
       /\ \A k \in DOMAIN tlb[c] : DeSuMarco(tlb[c][k], contexto[c])

UnaCpuPorProceso ==
    \A c, d \in Cpu : c # d /\ contexto[c] # Nadie => contexto[c] # contexto[d]

Fieles == (\A c \in Cpu : CpuFiel(c)) /\ UnaCpuPorProceso

InvMmu == InvVirtual /\ InvCpu /\ Fieles

\* No frame is of two pages.
LEMMA MarcosDistintos ==
    ASSUME InvVirtual, NEW p \in procesos_memoria, NEW q \in procesos_memoria,
           NEW i \in 1..Paginas[p], NEW j \in 1..Paginas[q], p # q \/ i # j
    PROVE  tabla[p][i] # tabla[q][j]
<1>1. MarcosRepartidos
  BY DEF InvVirtual, InvSwap, Inv
<1>2. CASE p = q
  BY <1>1, <1>2 DEF MarcosRepartidos
<1>3. CASE p # q
  <2>1. Imagen(tabla[p]) \cap Imagen(tabla[q]) = {}
    BY <1>1, <1>3 DEF MarcosRepartidos
  <2>2. DOMAIN tabla[p] = 1..Paginas[p] /\ DOMAIN tabla[q] = 1..Paginas[q]
    BY <1>1 DEF MarcosRepartidos
  <2>3. tabla[p][i] \in Imagen(tabla[p]) /\ tabla[q][j] \in Imagen(tabla[q])
    BY <2>2 DEF Imagen
  <2> QED
    BY <2>1, <2>3
<1> QED
  BY <1>2, <1>3

LEMMA EnSuMarco ==
    ASSUME InvVirtual, NEW p \in procesos_memoria, NEW i \in 1..Paginas[p]
    PROVE  /\ p \in Pid /\ tabla[p][i] \in Marco
           /\ espacio_usuario \in [Marco -> Valor]
           /\ espacio_usuario[tabla[p][i]] \in Valor
<1>1. Inv
  BY DEF InvVirtual, InvSwap
<1>2. tabla[p][i] \in Marco /\ espacio_usuario[tabla[p][i]] \in Valor
  BY <1>1, PaginasEnMarcos
<1> QED
  BY <1>1, <1>2 DEF Inv, TypeOK

\* No process has more pages than its table can number, so each of them is
\* at the end of its own walk (cpu.c:679, tablas.c:33).
LEMMA LosCaminosSonExactos == CaminosExactos
<1> DEFINE e == ENTRADAS_POR_TABLA
           n == CANTIDAD_NIVELES
<1>1. e \in Nat \ {0} /\ n \in Nat \ {0}
  BY MmuAssumption
<1>2. ASSUME NEW p \in Pid, NEW i \in 1..Paginas[p]
      PROVE  PedirPagina(p, i) = i - 1
  <2>1. CapacidadDe(e, n) \in Nat /\ Paginas[p] <= CapacidadDe(e, n)
    BY <1>1, CapacidadProps, MmuAssumption DEF Capacidad
  <2>2. Paginas[p] \in Nat
    BY MemoriaAssumption
  <2>3. /\ Paginas[p] \in 1..CapacidadDe(e, n)
        /\ i - 1 \in 0..(CapacidadDe(e, n) - 1) /\ i - 1 < Paginas[p]
    BY <2>1, <2>2
  <2>4. TablaExacta(e, n, Paginas[p])
    BY <1>1, <2>3, TablasExactas
  <2>5. TablaDe[p] = CrearTabla(e, n, Paginas[p])
    BY DEF TablaDe
  <2> HIDE DEF e, n
  <2>6. BuscarPagina(n, CrearTabla(e, n, Paginas[p]), Accesos(e, n, i - 1))
           = i - 1
    BY <2>3, <2>4 DEF TablaExacta
  <2> QED
    BY <2>5, <2>6 DEF PedirPagina, e, n
<1> QED
  BY <1>2 DEF CaminosExactos

LEMMA TraducirPorTabla ==
    ASSUME NEW c \in Cpu, NEW p \in Pid, NEW i \in 1..Paginas[p],
           Lugar(tlb[c], p, i) = {}
    PROVE  Traducir(c, p, i) = {tabla[p][i]}
<1>1. Paginas[p] \in Nat
  BY MemoriaAssumption
<1>2. PedirPagina(p, i) = i - 1
  BY LosCaminosSonExactos DEF CaminosExactos
<1>3. i - 1 # NULL /\ (i - 1) + 1 = i
  BY <1>1, TablaAssumption
<1>4. Traducir(c, p, i) = {tabla[p][h + 1] : h \in {PedirPagina(p, i)} \ {NULL}}
  BY DEF Traducir
<1>5. {PedirPagina(p, i)} \ {NULL} = {i - 1}
  BY <1>2, <1>3
<1>6. Traducir(c, p, i) = {tabla[p][h + 1] : h \in {i - 1}}
  BY <1>4, <1>5
<1>7. Traducir(c, p, i) = {tabla[p][(i - 1) + 1]}
  BY <1>6
<1> QED
  BY <1>3, <1>7

\* The frame of a page, from the TLB or from the walk of the table.
LEMMA TraducirBien ==
    ASSUME InvMmu, NEW c \in Cpu, contexto[c] # Nadie,
           NEW i \in 1..Paginas[contexto[c]]
    PROVE  Traducir(c, contexto[c], i) = {tabla[contexto[c]][i]}
<1> DEFINE p == contexto[c]
           L == Lugar(tlb[c], p, i)
<1>1. p \in Pid /\ Paginas[p] \in Nat
  BY Capacidades, MemoriaAssumption DEF InvMmu
<1>2. CpuFiel(c)
  BY DEF InvMmu, Fieles
<1>3. CASE L # {}
  <2>1. \A k \in L : tlb[c][k].pagina = i /\ k \in DOMAIN tlb[c]
    BY DEF Lugar
  <2>2. \A k \in L : tlb[c][k].marco = tabla[p][i]
    BY <1>2, <2>1 DEF CpuFiel, DeSuMarco
  <2>3. Traducir(c, p, i) = {tlb[c][k].marco : k \in L}
    BY <1>3 DEF Traducir
  <2> HIDE DEF L, p
  <2> QED
    BY <1>3, <2>2, <2>3 DEF p
<1>4. CASE L = {}
  BY <1>1, <1>4, TraducirPorTabla
<1> QED
  BY <1>3, <1>4

-----------------------------------------------------------------------------
(* Writing a page moves no other *)

\* CPU d keeps what it had, and memoria has kept what is behind it.
LEMMA SigueFiel ==
    ASSUME NEW d \in Cpu, CpuFiel(d), contexto'[d] = contexto[d],
           cache'[d] = cache[d], tlb'[d] = tlb[d],
           contexto[d] # Nadie =>
              /\ contexto[d] \in procesos_memoria'
              /\ tabla'[contexto[d]] = tabla[contexto[d]]
              /\ \A i \in 1..Paginas[contexto[d]] :
                    espacio_usuario'[tabla[contexto[d]][i]]
                       = espacio_usuario[tabla[contexto[d]][i]]
    PROVE  CpuFiel(d)'
BY DEF CpuFiel, EntradaFiel, DeSuMarco

\* The frames after a page of p was written in memoria, if it was.
Escribe(p, e, f) ==
    \/ f = e
    \/ \E i \in 1..Paginas[p], v \in Valor : f = [e EXCEPT ![tabla[p][i]] = v]

Intacta(q, j) == espacio_usuario'[tabla[q][j]] = espacio_usuario[tabla[q][j]]

LEMMA OtrosMarcos ==
    ASSUME InvVirtual, NEW p \in procesos_memoria, NEW q \in procesos_memoria,
           NEW i \in 1..Paginas[p], NEW j \in 1..Paginas[q], p # q \/ i # j,
           NEW v,
           espacio_usuario' = [espacio_usuario EXCEPT ![tabla[p][i]] = v]
    PROVE  Intacta(q, j)
<1>1. tabla[p][i] # tabla[q][j]
  BY MarcosDistintos
<1>2. tabla[q][j] \in Marco /\ espacio_usuario \in [Marco -> Valor]
  BY EnSuMarco
<1> QED
  BY <1>1, <1>2 DEF Intacta

\* A CPU that writes pages of its process disturbs nobody, and memoria sees
\* a request like any other.
LEMMA OtrosFieles ==
    ASSUME InvMmu, NEW c \in Cpu, NEW p, p = contexto[c], p # Nadie,
           Escribe(p, espacio_usuario, espacio_usuario'),
           UNCHANGED <<bit_marcos, tabla, listaVars, swapVars, volcado>>,
           \A d \in Cpu \ {c} : /\ contexto'[d] = contexto[d]
                                /\ cache'[d] = cache[d] /\ tlb'[d] = tlb[d]
    PROVE  /\ [Next]_vars
           /\ \A d \in Cpu \ {c} : CpuFiel(d)'
<1>1. p \in procesos_memoria /\ p \in Pid /\ InvVirtual
  BY Capacidades DEF InvMmu, Fieles, CpuFiel
<1>2. [Next]_vars
  <2>1. CASE espacio_usuario' = espacio_usuario
    BY <2>1 DEF vars, marcoVars
  <2>2. ASSUME NEW i \in 1..Paginas[p], NEW v \in Valor,
               espacio_usuario' = [espacio_usuario EXCEPT ![tabla[p][i]] = v]
        PROVE  Next
    <3>1. EscribirEspacio(p, i, v)
      BY <1>1, <2>2 DEF EscribirEspacio
    <3> QED
      BY <1>1, <3>1 DEF Next
  <2> QED
    BY <2>1, <2>2 DEF Escribe
<1>3. ASSUME NEW d \in Cpu \ {c} PROVE CpuFiel(d)'
  <2> DEFINE q == contexto[d]
  <2>1. CpuFiel(d) /\ (q # Nadie => q \in procesos_memoria /\ q # p)
    BY DEF InvMmu, Fieles, CpuFiel, UnaCpuPorProceso
  <2>2. ASSUME q # Nadie, NEW j \in 1..Paginas[q]
        PROVE  Intacta(q, j)
    <3>1. q \in procesos_memoria /\ q # p
      BY <2>1, <2>2
    <3>2. CASE espacio_usuario' = espacio_usuario
      BY <3>2 DEF Intacta
    <3>3. ASSUME NEW i \in 1..Paginas[p], NEW v \in Valor,
                 espacio_usuario' = [espacio_usuario EXCEPT ![tabla[p][i]] = v]
          PROVE  Intacta(q, j)
      <4> HIDE DEF q
      <4> QED
        BY <1>1, <3>1, <3>3, OtrosMarcos, Zenon
    <3> QED
      BY <3>2, <3>3 DEF Escribe
  <2>3. procesos_memoria' = procesos_memoria /\ tabla' = tabla
    BY DEF listaVars
  <2> QED
    BY <2>1, <2>2, <2>3, SigueFiel DEF Intacta
<1> QED
  BY <1>2, <1>3
-----------------------------------------------------------------------------
(* What the process of a CPU sees *)

\* w is what the process of CPU c sees: its cache first, then its frames.
EsVista(c, w) ==
    LET p == contexto[c] IN
    /\ w \in [1..Paginas[p] -> Valor]
    /\ \A k \in DOMAIN cache[c] : w[cache[c][k].pagina] = cache[c][k].contenido
    /\ \A i \in 1..Paginas[p] :
          \/ \E k \in DOMAIN cache[c] : cache[c][k].pagina = i
          \/ w[i] = espacio_usuario[tabla[p][i]]

\* What Vista reads for a process that CPU c has.
LEMMA VistaEn ==
    ASSUME NEW p \in procesos_memoria, NEW c \in Cpu, contexto[c] = p,
           \A d \in Cpu : contexto[d] = p => d = c
    PROVE  Vista(p) =
              [i \in 1..Paginas[p] |->
                 IF Lugar(cache[c], p, i) # {}
                 THEN cache[c][CHOOSE k \in Lugar(cache[c], p, i) : TRUE].contenido
                 ELSE espacio_usuario[CHOOSE m \in Traducir(c, p, i) : TRUE]]
<1> DEFINE Leida(d, i) ==
             IF Lugar(cache[d], p, i) # {}
             THEN cache[d][CHOOSE k \in Lugar(cache[d], p, i) : TRUE].contenido
             ELSE espacio_usuario[CHOOSE m \in Traducir(d, p, i) : TRUE]
           libre == \A k \in Cpu : contexto[k] # p
           suya == CHOOSE d \in Cpu : contexto[d] = p
<1>1. Vista(p) = [i \in 1..Paginas[p] |->
                    IF libre THEN espacio_usuario[tabla[p][i]]
                    ELSE Leida(suya, i)]
  BY DEF Vista
<1>2. suya = c
  OBVIOUS
<1>3. ~libre
  OBVIOUS
<1> HIDE DEF Leida, libre, suya
<1>4. Vista(p) = [i \in 1..Paginas[p] |-> Leida(c, i)]
  BY <1>1, <1>2, <1>3
<1> QED
  BY <1>4 DEF Leida

\* The page i that the cache of c has, or that it does not have.
LEMMA PaginaVista ==
    ASSUME InvMmu, NEW c \in Cpu, contexto[c] # Nadie,
           NEW i \in 1..Paginas[contexto[c]]
    PROVE  /\ contexto[c] \in procesos_memoria /\ contexto[c] \in Pid
           /\ i \in DOMAIN Vista(contexto[c])
           /\ DOMAIN Vista(contexto[c]) = 1..Paginas[contexto[c]]
           /\ \A k \in DOMAIN cache[c] : cache[c][k].pagina = i =>
                 Vista(contexto[c])[i] = cache[c][k].contenido
           /\ \/ \E k \in DOMAIN cache[c] : cache[c][k].pagina = i
              \/ Vista(contexto[c])[i] = espacio_usuario[tabla[contexto[c]][i]]
<1> DEFINE p == contexto[c]
           s == cache[c]
           L == Lugar(s, p, i)
           T == Traducir(c, p, i)
<1>1. p \in procesos_memoria /\ p \in Pid
  BY Capacidades DEF InvMmu, Fieles, CpuFiel
<1>2. \A d \in Cpu : contexto[d] = p => d = c
  BY DEF InvMmu, Fieles, UnaCpuPorProceso
<1>3. Vista(p) =
         [j \in 1..Paginas[p] |->
            IF Lugar(s, p, j) # {}
            THEN s[CHOOSE k \in Lugar(s, p, j) : TRUE].contenido
            ELSE espacio_usuario[CHOOSE m \in Traducir(c, p, j) : TRUE]]
  BY <1>1, <1>2, VistaEn
<1>4. /\ DOMAIN Vista(p) = 1..Paginas[p]
      /\ Vista(p)[i] = IF L # {} THEN s[CHOOSE k \in L : TRUE].contenido
                       ELSE espacio_usuario[CHOOSE m \in T : TRUE]
  BY <1>3
<1>5. Ordenada(s, p, config[c].entradas_cache)
  BY DEF InvMmu, InvCpu, CpuSana, CacheSana
<1>6. L = {k \in DOMAIN s : s[k].pagina = i}
  <2>1. config[c].entradas_cache \in Nat
    BY Capacidades DEF InvMmu
  <2> HIDE DEF s, p
  <2> QED
    BY <1>5, <2>1, LugarUnico DEF L
<1>7. \A j, k \in L : j = k
  <2>1. \A j, k \in DOMAIN s : j # k =>
           <<s[j].pid, s[j].pagina>> # <<s[k].pid, s[k].pagina>>
    BY <1>5 DEF Ordenada, SinRepetidas
  <2>2. \A k \in DOMAIN s : s[k].pid = p
    BY <1>5 DEF Ordenada
  <2> HIDE DEF s, p, L
  <2> QED
    BY <1>6, <2>1, <2>2
<1>8. T = {tabla[p][i]}
  BY TraducirBien
<1>9. (CHOOSE m \in T : TRUE) = tabla[p][i]
  BY <1>8
<1> HIDE DEF p, s, T, L
<1>10. \A k \in DOMAIN s : s[k].pagina = i => Vista(p)[i] = s[k].contenido
  <2> SUFFICES ASSUME NEW k \in DOMAIN s, s[k].pagina = i
               PROVE  Vista(p)[i] = s[k].contenido
    OBVIOUS
  <2>1. k \in L
    BY <1>6
  <2>2. (CHOOSE j \in L : TRUE) = k
    BY <2>1, <1>7
  <2> QED
    BY <1>4, <2>1, <2>2
<1>11. \/ \E k \in DOMAIN s : s[k].pagina = i
       \/ Vista(p)[i] = espacio_usuario[tabla[p][i]]
  BY <1>4, <1>6, <1>9
<1>12. i \in DOMAIN Vista(p)
  BY <1>4 DEF p
<1> QED
  BY <1>1, <1>4, <1>10, <1>11, <1>12 DEF p, s

VistaHallada(c) ==
    contexto[c] # Nadie =>
       /\ EsVista(c, Vista(contexto[c]))
       /\ \A w \in [1..Paginas[contexto[c]] -> Valor] :
             EsVista(c, w) => Vista(contexto[c]) = w

VistasHalladas == \A c \in Cpu : VistaHallada(c)

LEMMA VistaDeCpu ==
    InvMmu => VistasHalladas
<1> SUFFICES ASSUME InvMmu, NEW c \in Cpu, contexto[c] # Nadie
             PROVE  /\ EsVista(c, Vista(contexto[c]))
                    /\ \A w : EsVista(c, w) => Vista(contexto[c]) = w
  BY DEF VistasHalladas, VistaHallada
<1> DEFINE p == contexto[c]
           s == cache[c]
           u == Vista(p)
           n == Paginas[p]
<1>1. p \in procesos_memoria /\ p \in Pid /\ CpuFiel(c)
  BY Capacidades DEF InvMmu, Fieles, CpuFiel
<1>2. ASSUME NEW i \in 1..n
      PROVE  /\ \A k \in DOMAIN s : s[k].pagina = i => u[i] = s[k].contenido
             /\ \/ \E k \in DOMAIN s : s[k].pagina = i
                \/ u[i] = espacio_usuario[tabla[p][i]]
  BY PaginaVista
<1>3. \A k \in DOMAIN s : s[k].pagina \in 1..n /\ s[k].contenido \in Valor
  BY <1>1 DEF CpuFiel, EntradaFiel, DeSuMarco
<1>4. \A i \in 1..n : espacio_usuario[tabla[p][i]] \in Valor
  BY <1>1, EnSuMarco DEF InvMmu
<1>5. u = [i \in 1..n |-> u[i]]
  <2>1. \A d \in Cpu : contexto[d] = p => d = c
    BY DEF InvMmu, Fieles, UnaCpuPorProceso
  <2>2. u = [j \in 1..n |->
               IF Lugar(s, p, j) # {}
               THEN s[CHOOSE k \in Lugar(s, p, j) : TRUE].contenido
               ELSE espacio_usuario[CHOOSE m \in Traducir(c, p, j) : TRUE]]
    BY <1>1, <2>1, VistaEn
  <2> HIDE DEF u
  <2> QED
    BY <2>2
<1> HIDE DEF u, s, n
<1>6. \A i \in 1..n : u[i] \in Valor
  BY <1>2, <1>3, <1>4
<1>7. EsVista(c, u)
  <2>1. u \in [1..n -> Valor]
    BY <1>5, <1>6
  <2> QED
    BY <2>1, <1>2, <1>3 DEF EsVista, n, s
<1>8. ASSUME NEW w, EsVista(c, w) PROVE u = w
  <2>1. /\ w \in [1..n -> Valor]
        /\ \A k \in DOMAIN s : w[s[k].pagina] = s[k].contenido
        /\ \A i \in 1..n : \/ \E k \in DOMAIN s : s[k].pagina = i
                           \/ w[i] = espacio_usuario[tabla[p][i]]
    BY <1>8 DEF EsVista, n, s
  <2>2. ASSUME NEW i \in 1..n PROVE u[i] = w[i]
    <3>1. CASE \E k \in DOMAIN s : s[k].pagina = i
      <4>1. PICK k \in DOMAIN s : s[k].pagina = i
        BY <3>1
      <4> QED
        BY <4>1, <2>1, <1>2
    <3>2. CASE ~ \E k \in DOMAIN s : s[k].pagina = i
      BY <3>2, <2>1, <1>2
    <3> QED
      BY <3>1, <3>2
  <2>3. w = [i \in 1..n |-> w[i]]
    BY <2>1
  <2> QED
    BY <1>5, <2>2, <2>3
<1> QED
  BY <1>7, <1>8 DEF u

\* A process that no CPU has sees what memoria has of it.
LEMMA VistaSinCpu ==
    ASSUME NEW p \in Pid, \A c \in Cpu : contexto[c] # p
    PROVE  Vista(p) = ContenidoDe(p)
BY DEF Vista, ContenidoDe

LEMMA VistaPrima ==
    InvMmu' => VistasHalladas'
<1>1. InvMmu => VistasHalladas
  BY VistaDeCpu
<1> QED
  BY <1>1, PTL
-----------------------------------------------------------------------------
(* A cache that changes keeps what its process sees *)

\* The entries of V go, at most one, to its frame if it was modified.
Sale(s, V, e, f) ==
    \/ V = {} /\ f = e
    \/ \E v \in DOMAIN s :
          /\ V = {v}
          /\ f = IF s[v].bit_modificado
                 THEN [e EXCEPT ![s[v].marco] = s[v].contenido] ELSE e

\* The page that goes leaves its contents in its frame.
LEMMA LoQueSale ==
    ASSUME InvMmu, NEW c \in Cpu, NEW p, p = contexto[c], p # Nadie,
           NEW V \in SUBSET DOMAIN cache[c], NEW f,
           Sale(cache[c], V, espacio_usuario, f)
    PROVE  /\ Escribe(p, espacio_usuario, f)
           /\ \A v \in V :
                 f[tabla[p][cache[c][v].pagina]] = cache[c][v].contenido
           /\ \A i \in 1..Paginas[p] : (\A v \in V : cache[c][v].pagina # i) =>
                 f[tabla[p][i]] = espacio_usuario[tabla[p][i]]
<1> DEFINE s == cache[c]
           e == espacio_usuario
<1>1. /\ p \in procesos_memoria /\ InvVirtual
      /\ \A k \in DOMAIN s : EntradaFiel(s[k], p)
  BY DEF InvMmu, Fieles, CpuFiel
<1>2. CASE V = {} /\ f = e
  BY <1>2 DEF Escribe
<1>3. ASSUME NEW v \in DOMAIN s, V = {v}, ~s[v].bit_modificado, f = e
      PROVE  /\ Escribe(p, e, f)
             /\ \A w \in V : f[tabla[p][s[w].pagina]] = s[w].contenido
             /\ \A i \in 1..Paginas[p] : (\A w \in V : s[w].pagina # i) =>
                   f[tabla[p][i]] = e[tabla[p][i]]
  BY <1>1, <1>3 DEF Escribe, EntradaFiel, DeSuMarco
<1>4. ASSUME NEW v \in DOMAIN s, V = {v}, s[v].bit_modificado,
             f = [e EXCEPT ![s[v].marco] = s[v].contenido]
      PROVE  /\ Escribe(p, e, f)
             /\ \A w \in V : f[tabla[p][s[w].pagina]] = s[w].contenido
             /\ \A i \in 1..Paginas[p] : (\A w \in V : s[w].pagina # i) =>
                   f[tabla[p][i]] = e[tabla[p][i]]
  <2>1. PICK i \in 1..Paginas[p], x \in Valor :
           /\ i = s[v].pagina /\ x = s[v].contenido
           /\ s[v].marco = tabla[p][i]
    BY <1>1 DEF EntradaFiel, DeSuMarco
  <2> HIDE DEF s, e
  <2>2. f = [e EXCEPT ![tabla[p][i]] = x]
    BY <1>4, <2>1
  <2>3. tabla[p][i] \in Marco /\ e \in [Marco -> Valor]
    BY <1>1, EnSuMarco DEF e
  <2>4. \A j \in 1..Paginas[p] : j # i => tabla[p][j] # tabla[p][i]
    BY <1>1, MarcosDistintos
  <2>5. f[tabla[p][i]] = x
    BY <2>2, <2>3
  <2>6. \A j \in 1..Paginas[p] : j # i => f[tabla[p][j]] = e[tabla[p][j]]
    BY <2>2, <2>4
  <2>7. Escribe(p, e, f)
    BY <2>2 DEF Escribe
  <2> QED
    BY <1>4, <2>1, <2>5, <2>6, <2>7
<1> QED
  BY <1>2, <1>3, <1>4 DEF Sale

\* What the process sees once the pages of N came to its cache.
Traida(w, u, N) ==
    /\ u = [i \in DOMAIN w |-> u[i]]
    /\ \A x \in N : u[x.pagina] = x.contenido
    /\ \A i \in DOMAIN w : (\A x \in N : x.pagina # i) => u[i] = w[i]

LEMMA CacheFiel ==
    ASSUME InvMmu, NEW c \in Cpu, NEW p, p = contexto[c], p # Nadie,
           contexto' = contexto, tabla' = tabla,
           NEW N, \A x \in N : EntradaFiel(x, p),
           \A x \in N : \A j \in DOMAIN cache[c] : cache[c][j].pagina # x.pagina,
           CacheTras(cache[c], cache'[c], N, espacio_usuario, espacio_usuario')
    PROVE  /\ Escribe(p, espacio_usuario, espacio_usuario')
           /\ \A k \in DOMAIN cache'[c] : EntradaFiel(cache[c][k], p)'
           /\ \A w, u : EsVista(c, w) /\ Traida(w, u, N) => EsVista(c, u)'
<1> DEFINE s == cache[c]
           t == cache'[c]
           e == espacio_usuario
           f == espacio_usuario'
           n == Paginas[p]
           Fiel(x) == /\ x.pagina \in 1..n /\ x.marco = tabla[p][x.pagina]
                      /\ x.contenido \in Valor
                      /\ x.bit_modificado \/ x.contenido = f[x.marco]
<1>1. PICK V \in SUBSET DOMAIN s :
         /\ \A k \in DOMAIN t : \/ t[k] \in N
                                \/ \E j \in DOMAIN s \ V : Misma(t[k], s[j])
         /\ \A x \in N : \E k \in DOMAIN t : t[k] = x
         /\ \A j \in DOMAIN s \ V : \E k \in DOMAIN t : Misma(t[k], s[j])
         /\ Sale(s, V, e, f)
  BY DEF CacheTras, Sale
<1>2. /\ Escribe(p, e, f)
      /\ \A v \in V : f[tabla[p][s[v].pagina]] = s[v].contenido
      /\ \A i \in 1..n : (\A v \in V : s[v].pagina # i) =>
            f[tabla[p][i]] = e[tabla[p][i]]
  BY <1>1, LoQueSale
<1>3. \A k \in DOMAIN s : EntradaFiel(s[k], p)
  BY DEF InvMmu, Fieles, CpuFiel
<1>4. \A j, k \in DOMAIN s : j # k => s[j].pagina # s[k].pagina
  <2>1. Ordenada(s, p, config[c].entradas_cache)
    BY DEF InvMmu, InvCpu, CpuSana, CacheSana
  <2> HIDE DEF s
  <2> QED
    BY <2>1 DEF Ordenada, SinRepetidas
<1> HIDE DEF s, t, n
<1>5. ASSUME NEW k \in DOMAIN t PROVE Fiel(t[k])
  <2>1. CASE t[k] \in N
    <3>1. \A v \in V : s[v].pagina # t[k].pagina
      BY <1>1, <2>1 DEF s
    <3> QED
      BY <1>2, <2>1, <3>1 DEF EntradaFiel, DeSuMarco, n
  <2>2. ASSUME NEW j \in DOMAIN s \ V, Misma(t[k], s[j])
        PROVE  Fiel(t[k])
    <3>1. \A v \in V : s[v].pagina # s[j].pagina
      BY <1>1, <1>4, <2>2
    <3>2. EntradaFiel(s[j], p)
      BY <1>3
    <3> QED
      BY <1>2, <2>2, <3>1, <3>2 DEF EntradaFiel, DeSuMarco, Misma, n
  <2> QED
    BY <1>1, <2>1, <2>2
<1>6. ASSUME NEW w, NEW u, EsVista(c, w), Traida(w, u, N)
      PROVE  EsVista(c, u)'
  <2>1. /\ w \in [1..n -> Valor]
        /\ \A k \in DOMAIN s : w[s[k].pagina] = s[k].contenido
        /\ \A i \in 1..n : \/ \E k \in DOMAIN s : s[k].pagina = i
                           \/ w[i] = e[tabla[p][i]]
    BY <1>6 DEF EsVista, s, n
  <2>2. /\ DOMAIN u = 1..n
        /\ \A x \in N : u[x.pagina] = x.contenido
        /\ \A i \in 1..n : (\A x \in N : x.pagina # i) => u[i] = w[i]
    BY <1>6, <2>1 DEF Traida
  <2>3. \A x \in N : x.pagina \in 1..n /\ x.contenido \in Valor
    BY DEF EntradaFiel, DeSuMarco, n
  <2>4. u \in [1..n -> Valor]
    <3>1. ASSUME NEW i \in 1..n PROVE u[i] \in Valor
      <4>1. CASE \E x \in N : x.pagina = i
        BY <4>1, <2>2, <2>3
      <4>2. CASE ~ \E x \in N : x.pagina = i
        BY <4>2, <2>1, <2>2
      <4> QED
        BY <4>1, <4>2
    <3>2. u = [i \in 1..n |-> u[i]]
      BY <1>6, <2>1 DEF Traida
    <3> QED
      BY <3>1, <3>2
  <2>5. \A k \in DOMAIN s : s[k].pagina \in 1..n
    BY <1>3 DEF EntradaFiel, DeSuMarco, n
  <2>6. ASSUME NEW k \in DOMAIN t PROVE u[t[k].pagina] = t[k].contenido
    <3>1. CASE t[k] \in N
      BY <2>2, <3>1
    <3>2. ASSUME NEW j \in DOMAIN s \ V, Misma(t[k], s[j])
          PROVE  u[t[k].pagina] = t[k].contenido
      <4>1. \A x \in N : x.pagina # s[j].pagina
        BY DEF s
      <4> QED
        BY <3>2, <4>1, <2>1, <2>2, <2>5 DEF Misma
    <3> QED
      BY <1>1, <3>1, <3>2
  <2>7. ASSUME NEW i \in 1..n, \A k \in DOMAIN t : t[k].pagina # i
        PROVE  u[i] = f[tabla[p][i]]
    <3>1. \A x \in N : x.pagina # i
      BY <1>1, <2>7
    <3>2. u[i] = w[i]
      BY <2>2, <3>1
    <3>3. \A j \in DOMAIN s \ V : s[j].pagina # i
      BY <1>1, <2>7 DEF Misma
    <3>4. CASE \E v \in V : s[v].pagina = i
      <4>1. PICK v \in V : s[v].pagina = i
        BY <3>4
      <4>2. f[tabla[p][i]] = s[v].contenido
        BY <1>2, <4>1
      <4>3. w[i] = s[v].contenido
        BY <1>1, <2>1, <4>1
      <4> QED
        BY <3>2, <4>2, <4>3
    <3>5. CASE ~ \E v \in V : s[v].pagina = i
      <4>1. f[tabla[p][i]] = e[tabla[p][i]]
        BY <1>2, <3>5
      <4>2. ~ \E k \in DOMAIN s : s[k].pagina = i
        BY <3>3, <3>5
      <4>3. w[i] = e[tabla[p][i]]
        BY <2>1, <4>2
      <4> QED
        BY <3>2, <4>1, <4>3
    <3> QED
      BY <3>4, <3>5
  <2>8. contexto'[c] = p /\ tabla' = tabla
    OBVIOUS
  <2> QED
    BY <2>4, <2>6, <2>7, <2>8 DEF EsVista, n, t
<1>7. ASSUME NEW k \in DOMAIN t PROVE EntradaFiel(cache[c][k], p)'
  <2>1. Fiel(t[k])
    BY <1>5
  <2> QED
    BY <2>1 DEF EntradaFiel, DeSuMarco, n, t
<1> QED
  BY <1>2, <1>7, <1>6 DEF t
-----------------------------------------------------------------------------
(* A step of one CPU, as the processes see it *)

\* The process of another CPU sees what it saw.
LEMMA QuietaEnCpu ==
    ASSUME InvMmu, InvMmu', NEW d \in Cpu, NEW q,
           q = contexto[d], q # Nadie, contexto'[d] = q, cache'[d] = cache[d],
           tabla'[q] = tabla[q], \A j \in 1..Paginas[q] : Intacta(q, j)
    PROVE  Vista(q)' = Vista(q)
<1>1. VistaHallada(d)
  BY VistaDeCpu DEF VistasHalladas
<1>2. VistaHallada(d)'
  BY VistaPrima DEF VistasHalladas
<1>3. PICK w : w = Vista(q)
  OBVIOUS
<1>4. EsVista(d, w) /\ w \in [1..Paginas[q] -> Valor]
  BY <1>1, <1>3 DEF VistaHallada, EsVista
<1>5. EsVista(d, w)'
  BY <1>4 DEF EsVista, Intacta
<1>6. Vista(q)' = w
  BY <1>2, <1>4, <1>5 DEF VistaHallada
<1> QED
  BY <1>3, <1>6

\* The lists of memoria and the pages of all processes.
Vistas == [q \in Pid |-> Vista(q)]

MemoriaQuieta == UNCHANGED <<bit_marcos, tabla, listaVars, swapVars, volcado>>

\* Other CPUs keep what they had.
OtrasQuietas(c) ==
    \A d \in Cpu \ {c} : /\ contexto'[d] = contexto[d]
                         /\ cache'[d] = cache[d] /\ tlb'[d] = tlb[d]

\* A request of memoria, and a step that processes may see.
PasoVisible == [Next]_vars /\ (Visible!Next \/ UNCHANGED Visible!mvars)

LEMMA PasoConCpu ==
    ASSUME InvMmu, InvCpu', NEW c \in Cpu, NEW p, p = contexto[c], p # Nadie,
           contexto' = contexto, Escribe(p, espacio_usuario, espacio_usuario'),
           MemoriaQuieta, OtrasQuietas(c), CpuFiel(c)'
    PROVE  InvMmu' /\ [Next]_vars
<1>1. [Next]_vars /\ \A d \in Cpu \ {c} : CpuFiel(d)'
  BY OtrosFieles DEF MemoriaQuieta, OtrasQuietas
<1>2. InvVirtual'
  BY <1>1, PasoVirtual DEF InvMmu
<1>3. UnaCpuPorProceso'
  BY DEF InvMmu, Fieles, UnaCpuPorProceso
<1> QED
  BY <1>1, <1>2, <1>3 DEF InvMmu, Fieles

LEMMA VistaDeOtros ==
    ASSUME InvMmu, InvMmu', NEW c \in Cpu, NEW p,
           p = contexto[c], p # Nadie,
           contexto' = contexto, Escribe(p, espacio_usuario, espacio_usuario'),
           MemoriaQuieta, OtrasQuietas(c), NEW q \in Pid, q # p
    PROVE  Vista(q)' = Vista(q)
<1>1. p \in procesos_memoria /\ p \in Pid /\ InvVirtual
  BY Capacidades DEF InvMmu, Fieles, CpuFiel
<1>2. ASSUME q \in procesos_memoria, NEW j \in 1..Paginas[q]
      PROVE  Intacta(q, j)
  <2>1. CASE espacio_usuario' = espacio_usuario
    BY <2>1 DEF Intacta
  <2>2. ASSUME NEW i \in 1..Paginas[p], NEW v \in Valor,
               espacio_usuario' = [espacio_usuario EXCEPT ![tabla[p][i]] = v]
        PROVE  Intacta(q, j)
    BY <1>1, <1>2, <2>2, OtrosMarcos, Zenon
  <2> QED
    BY <2>1, <2>2 DEF Escribe
<1>3. tabla' = tabla /\ UNCHANGED <<listaVars, swapVars>>
  BY DEF MemoriaQuieta
<1>4. ASSUME NEW d \in Cpu, contexto[d] = q PROVE Vista(q)' = Vista(q)
  <2>1. d # c /\ q # Nadie
    BY <1>4, MmuAssumption
  <2>2. q \in procesos_memoria
    BY <1>4, <2>1 DEF InvMmu, Fieles, CpuFiel
  <2>3. cache'[d] = cache[d] /\ contexto'[d] = q
    BY <1>4, <2>1 DEF OtrasQuietas
  <2>4. \A j \in 1..Paginas[q] : Intacta(q, j)
    BY <1>2, <2>2
  <2>5. tabla'[q] = tabla[q]
    BY <1>3
  <2> QED
    BY <1>4, <2>1, <2>3, <2>4, <2>5, QuietaEnCpu
<1>5. CASE \A d \in Cpu : contexto[d] # q
  <2>1. Vista(q) = ContenidoDe(q)
    BY <1>5, VistaSinCpu
  <2>2. Vista(q)' = ContenidoDe(q)'
    BY <1>5 DEF Vista, ContenidoDe
  <2>3. ContenidoDe(q)' = ContenidoDe(q)
    <3>1. Inv' /\ InvVirtual
      BY DEF InvMmu, InvVirtual, InvSwap
    <3>2. SlotsDe(q)' = SlotsDe(q) /\ swapfile' = swapfile
      BY <1>3 DEF SlotsDe, swapVars
    <3>3. procesos_memoria' = procesos_memoria /\ procesos_swap' = procesos_swap
      BY <1>3 DEF listaVars
    <3>4. q \in procesos_memoria => \A i \in 1..Paginas[q] :
             espacio_usuario'[tabla'[q][i]] = espacio_usuario[tabla[q][i]]
      BY <1>2, <1>3 DEF Intacta
    <3> QED
      BY <3>1, <3>2, <3>3, <3>4, ContenidoQuieto
  <2> QED
    BY <2>1, <2>2, <2>3
<1> QED
  BY <1>4, <1>5

\* The process of the CPU sees what it saw, or the page it wrote.
LEMMA PasoDeVista ==
    ASSUME InvMmu, InvCpu', NEW c \in Cpu, NEW p,
           p = contexto[c], p # Nadie,
           contexto' = contexto, Escribe(p, espacio_usuario, espacio_usuario'),
           MemoriaQuieta, OtrasQuietas(c), CpuFiel(c)', NEW w, EsVista(c, w)',
           \/ w = Vista(p)
           \/ \E i \in 1..Paginas[p], v \in Valor :
                 w = [Vista(p) EXCEPT ![i] = v]
    PROVE  InvMmu' /\ PasoVisible
<1>1. p \in procesos_memoria /\ p \in Pid
  BY Capacidades DEF InvMmu, Fieles, CpuFiel
<1>2. InvMmu' /\ [Next]_vars
  BY PasoConCpu
<1>3. Vista(p)' = w
  <2>1. VistaHallada(c)'
    BY <1>2, VistaPrima DEF VistasHalladas
  <2>2. w \in [1..Paginas[p] -> Valor]
    BY DEF EsVista
  <2> QED
    BY <2>1, <2>2 DEF VistaHallada
<1>4. \A q \in Pid : q # p => Vista(q)' = Vista(q)
  BY <1>2, VistaDeOtros
<1>5. UNCHANGED <<procesos_memoria, procesos_swap, creados, volcado>>
  BY DEF MemoriaQuieta, listaVars
<1>6. CASE w = Vista(p)
  <2>1. [q \in Pid |-> Vista(q)]' = [q \in Pid |-> Vista(q)]
    BY <1>3, <1>4, <1>6
  <2> QED
    BY <1>2, <1>5, <2>1 DEF PasoVisible, Visible!mvars
<1>7. ASSUME NEW i \in 1..Paginas[p], NEW v \in Valor,
             w = [Vista(p) EXCEPT ![i] = v]
      PROVE  PasoVisible
  <2>1. [q \in Pid |-> Vista(q)]' =
           [[q \in Pid |-> Vista(q)] EXCEPT ![p][i] = v]
    BY <1>1, <1>3, <1>4, <1>7
  <2>2. Visible!Escribir(p, i, v)
    BY <1>1, <1>5, <2>1 DEF Visible!Escribir
  <2> QED
    BY <1>1, <1>2, <2>2 DEF PasoVisible, Visible!Next
<1> QED
  BY <1>2, <1>6, <1>7
-----------------------------------------------------------------------------
(* Each step of a CPU *)

\* The frames of the TLB after page i was translated to its own.
LEMMA TlbFiel ==
    ASSUME InvMmu, NEW c \in Cpu, NEW p, p = contexto[c], p # Nadie,
           NEW i \in 1..Paginas[p], NEW m, m = tabla[p][i],
           tlb' = [tlb EXCEPT ![c] = TlbTras(c, p, i, m)], tabla' = tabla
    PROVE  \A k \in DOMAIN tlb'[c] : DeSuMarco(tlb[c][k], p)'
<1>1. /\ Paginas[p] \in Nat
      /\ \A k \in DOMAIN tlb[c] : DeSuMarco(tlb[c][k], p)
  BY Capacidades, MemoriaAssumption DEF InvMmu, Fieles, CpuFiel
<1>2. EntradasTras(c, i, m, TlbTras(c, p, i, m))
  <2>1. InvCpu /\ i \in Nat
    BY <1>1 DEF InvMmu
  <2> QED
    BY <2>1, TlbTrasSana
<1>3. tlb'[c] = TlbTras(c, p, i, m)
  BY DEF InvMmu, InvCpu, Formas
<1>4. EntradasTras(c, i, m, tlb'[c])
  BY <1>2, <1>3
<1> QED
  BY <1>1, <1>4 DEF EntradasTras, DeSuMarco

LEMMA PasoDeCache ==
    ASSUME InvMmu, InvCpu', NEW c \in Cpu, NEW p,
           p = contexto[c], p # Nadie, contexto' = contexto,
           MemoriaQuieta, OtrasQuietas(c),
           NEW N, \A x \in N : EntradaFiel(x, p),
           \A x \in N : \A j \in DOMAIN cache[c] : cache[c][j].pagina # x.pagina,
           CacheTras(cache[c], cache'[c], N, espacio_usuario, espacio_usuario'),
           \A k \in DOMAIN tlb'[c] : DeSuMarco(tlb[c][k], p)',
           NEW u, Traida(Vista(p), u, N),
           \/ u = Vista(p)
           \/ \E i \in 1..Paginas[p], v \in Valor :
                 u = [Vista(p) EXCEPT ![i] = v]
    PROVE  InvMmu' /\ PasoVisible
<1>1. tabla' = tabla /\ procesos_memoria' = procesos_memoria
  BY DEF MemoriaQuieta, listaVars
<1>2. EsVista(c, Vista(p))
  BY VistaDeCpu DEF VistasHalladas, VistaHallada
<1>3. PICK w : w = Vista(p)
  OBVIOUS
<1>4. EsVista(c, w) /\ Traida(w, u, N)
  BY <1>2, <1>3
<1>5. /\ Escribe(p, espacio_usuario, espacio_usuario')
      /\ \A k \in DOMAIN cache'[c] : EntradaFiel(cache[c][k], p)'
      /\ EsVista(c, u)'
  BY <1>1, <1>4, CacheFiel
<1>6. CpuFiel(c)'
  BY <1>1, <1>5 DEF InvMmu, Fieles, CpuFiel
<1> QED
  BY <1>5, <1>6, PasoDeVista

LEMMA SinCambio ==
    ASSUME NEW w, w = [i \in DOMAIN w |-> w[i]] PROVE Traida(w, w, {})
BY DEF Traida

\* What the process sees has the pages of the process.
LEMMA FormaDeVista ==
    ASSUME InvMmu, NEW c \in Cpu, NEW p, p = contexto[c],
           p # Nadie
    PROVE  EsVista(c, Vista(p)) /\ Vista(p) \in [1..Paginas[p] -> Valor]
BY VistaDeCpu DEF VistasHalladas, VistaHallada, EsVista

\* A cache that keeps its entries, but for their bits of use.
LEMMA CacheQuieta ==
    ASSUME NEW s, NEW t, NEW e, DOMAIN t = DOMAIN s,
           \A k \in DOMAIN s : Misma(t[k], s[k])
    PROVE  CacheTras(s, t, {}, e, e)
<1>1. {} \in SUBSET DOMAIN s /\ DOMAIN s \ {} = DOMAIN s
  OBVIOUS
<1> QED
  BY <1>1 DEF CacheTras

\* Steps of a CPU that only change bits of use and forget translations.
LEMMA PasoCallado ==
    ASSUME InvMmu, InvCpu', NEW c \in Cpu, NEW p,
           p = contexto[c], p # Nadie, UNCHANGED <<vars, contexto>>,
           OtrasQuietas(c), DOMAIN cache'[c] = DOMAIN cache[c],
           \A k \in DOMAIN cache[c] : Misma(cache'[c][k], cache[c][k]),
           \A k \in DOMAIN tlb'[c] : DeSuMarco(tlb[c][k], p)'
    PROVE  InvMmu' /\ PasoVisible
<1>1. MemoriaQuieta /\ espacio_usuario' = espacio_usuario
  BY DEF vars, marcoVars, MemoriaQuieta
<1>2. CacheTras(cache[c], cache'[c], {}, espacio_usuario, espacio_usuario')
  BY <1>1, CacheQuieta
<1>3. Traida(Vista(p), Vista(p), {})
  <2>1. Vista(p) = [i \in DOMAIN Vista(p) |-> Vista(p)[i]]
    BY FormaDeVista
  <2> QED
    BY <2>1, SinCambio
<1> QED
  BY <1>1, <1>2, <1>3, PasoDeCache

LEMMA LeerEnCacheVisible ==
    ASSUME InvMmu, InvCpu', NEW c \in Cpu, contexto[c] # Nadie,
           NEW i, LeerEnCache(c, i)
    PROVE  InvMmu' /\ PasoVisible
<1>1. PICK k \in Lugar(cache[c], contexto[c], i) :
         /\ cache' = [cache EXCEPT ![c][k].bit_uso = TRUE]
         /\ UNCHANGED <<vars, config, contexto, vaciando, puntero_clock, tlb,
                        ahora>>
  BY DEF LeerEnCache
<1>2. /\ c \in DOMAIN cache /\ k \in DOMAIN cache[c]
      /\ \A j \in DOMAIN cache[c] : EsEntrada(cache[c][j])
  BY DEF Lugar, InvMmu, InvCpu, Formas, CpuSana, CacheSana
<1>3. /\ DOMAIN cache'[c] = DOMAIN cache[c]
      /\ \A j \in DOMAIN cache[c] : Misma(cache'[c][j], cache[c][j])
      /\ \A d \in Cpu \ {c} : cache'[d] = cache[d]
  <2>1. cache'[c] = [cache[c] EXCEPT ![k] = [cache[c][k] EXCEPT !.bit_uso = TRUE]]
    BY <1>1, <1>2
  <2>2. Misma([cache[c][k] EXCEPT !.bit_uso = TRUE], cache[c][k])
    BY <1>2 DEF EsEntrada, Misma
  <2>3. \A j \in DOMAIN cache[c] : Misma(cache[c][j], cache[c][j])
    BY DEF Misma
  <2>4. \A d \in Cpu \ {c} : cache'[d] = cache[d]
    BY <1>1 DEF InvMmu, InvCpu, Formas
  <2> QED
    BY <1>2, <2>1, <2>2, <2>3, <2>4
<1>4. OtrasQuietas(c)
  BY <1>1, <1>3 DEF OtrasQuietas
<1>5. \A j \in DOMAIN tlb'[c] : DeSuMarco(tlb[c][j], contexto[c])'
  BY <1>1 DEF InvMmu, Fieles, CpuFiel, DeSuMarco, vars, marcoVars
<1>6. PICK p : p = contexto[c]
  OBVIOUS
<1>7. \A j \in DOMAIN tlb'[c] : DeSuMarco(tlb[c][j], p)'
  BY <1>1, <1>5, <1>6 DEF DeSuMarco
<1> QED
  BY <1>1, <1>3, <1>4, <1>6, <1>7, PasoCallado

LEMMA DevolverVisible ==
    ASSUME InvMmu, InvCpu', NEW c \in Cpu, DevolverContexto(c)
    PROVE  InvMmu' /\ PasoVisible
<1>1. /\ contexto[c] # Nadie
      /\ UNCHANGED <<vars, config, contexto, cache, puntero_clock, ahora>>
  BY DEF DevolverContexto
<1>2. tlb' = [tlb EXCEPT ![c] = <<>>]
  BY TlbLimpia DEF InvMmu
<1>3. tlb = [d \in Cpu |-> tlb[d]] /\ DOMAIN <<>> = {}
  BY EmptySeq DEF InvMmu, InvCpu, Formas
<1>4. OtrasQuietas(c) /\ DOMAIN tlb'[c] = {}
  BY <1>1, <1>2, <1>3 DEF OtrasQuietas
<1>5. \A k \in DOMAIN cache[c] : Misma(cache'[c][k], cache[c][k])
  BY <1>1 DEF Misma
<1>6. PICK p : p = contexto[c]
  OBVIOUS
<1>7. \A k \in DOMAIN tlb'[c] : DeSuMarco(tlb[c][k], p)'
  BY <1>4
<1> QED
  BY <1>1, <1>4, <1>5, <1>6, <1>7, PasoCallado

\* The page that comes in was in its frame.
LEMMA FueraDeCache ==
    ASSUME InvMmu, NEW c \in Cpu, NEW p, p = contexto[c],
           p # Nadie, NEW i \in 1..Paginas[p], Lugar(cache[c], p, i) = {}
    PROVE  /\ Traducir(c, p, i) = {tabla[p][i]}
           /\ \A k \in DOMAIN cache[c] : cache[c][k].pagina # i
           /\ Vista(p)[i] = espacio_usuario[tabla[p][i]]
           /\ Vista(p)[i] \in Valor /\ i \in Nat
<1>1. Traducir(c, p, i) = {tabla[p][i]}
  BY TraducirBien
<1>2. /\ Ordenada(cache[c], p, config[c].entradas_cache)
      /\ config[c].entradas_cache \in Nat
  BY Capacidades DEF InvMmu, InvCpu, CpuSana, CacheSana
<1>3. \A k \in DOMAIN cache[c] : cache[c][k].pagina # i
  <2>1. Lugar(cache[c], p, i) = {k \in DOMAIN cache[c] : cache[c][k].pagina = i}
    BY <1>2, LugarUnico
  <2> QED
    BY <2>1
<1>4. EsVista(c, Vista(p)) /\ Vista(p) \in [1..Paginas[p] -> Valor]
  BY FormaDeVista
<1>5. p \in Pid /\ Paginas[p] \in Nat
  BY Capacidades, MemoriaAssumption DEF InvMmu
<1> QED
  BY <1>1, <1>3, <1>4, <1>5 DEF EsVista

LEMMA TraerVisible ==
    ASSUME InvMmu, NEW c \in Cpu, NEW p, p = contexto[c],
           p # Nadie, ~vaciando[c], config[c].entradas_cache > 0,
           NEW i \in 1..Paginas[p], Lugar(cache[c], p, i) = {},
           NEW m, m = tabla[p][i],
           NEW x \in Valor, NEW modificado \in BOOLEAN,
           modificado \/ x = espacio_usuario[m],
           Traer(c, i, x, modificado, m)
    PROVE  InvMmu' /\ PasoVisible
<1> DEFINE nueva == [pid |-> p, pagina |-> i, marco |-> m,
                     contenido |-> x, bit_uso |-> TRUE,
                     bit_modificado |-> modificado]
<1>1. /\ tlb' = [tlb EXCEPT ![c] = TlbTras(c, p, i, m)]
      /\ AgregarACache(c, nueva)
      /\ contexto' = contexto /\ MemoriaQuieta
  BY DEF Traer, MemoriaQuieta
<1>2. /\ \A k \in DOMAIN cache[c] : cache[c][k].pagina # i
      /\ Vista(p)[i] = espacio_usuario[m] /\ i \in Nat
      /\ Vista(p) \in [1..Paginas[p] -> Valor] /\ InvCpu
  BY FueraDeCache, FormaDeVista DEF InvMmu
<1>3. /\ InvCpu'
      /\ CacheTras(cache[c], cache'[c], {nueva}, espacio_usuario,
                   espacio_usuario')
  BY <1>2, PasoTraer
<1>4. EntradaFiel(nueva, p) /\ nueva.pagina = i /\ nueva.contenido = x
  BY DEF EntradaFiel, DeSuMarco
<1>5. /\ EsEntrada(nueva) /\ nueva.pid = contexto[c]
  BY <1>2, Capacidades DEF EsEntrada
<1> HIDE DEF nueva
<1>6. OtrasQuietas(c)
  <2>1. SoloDe(c)
    BY <1>1, <1>2, <1>4, <1>5, AgregarSana
  <2>2. \A d \in Cpu \ {c} : tlb'[d] = tlb[d]
    BY <1>1, <1>2 DEF InvCpu, Formas
  <2> QED
    BY <1>1, <2>1, <2>2 DEF OtrasQuietas, SoloDe
<1>7. \A k \in DOMAIN tlb'[c] : DeSuMarco(tlb[c][k], p)'
  BY <1>1, TlbFiel DEF MemoriaQuieta
<1>8. PICK u : u = [Vista(p) EXCEPT ![i] = x]
  OBVIOUS
<1>9. Traida(Vista(p), u, {nueva})
  BY <1>2, <1>4, <1>8 DEF Traida
<1>10. \E j \in 1..Paginas[p], v \in Valor : u = [Vista(p) EXCEPT ![j] = v]
  BY <1>8
<1>11. PICK N : N = {nueva}
  OBVIOUS
<1>12. /\ \A y \in N : EntradaFiel(y, p)
       /\ \A y \in N : \A j \in DOMAIN cache[c] : cache[c][j].pagina # y.pagina
       /\ CacheTras(cache[c], cache'[c], N, espacio_usuario, espacio_usuario')
       /\ Traida(Vista(p), u, N)
  BY <1>2, <1>3, <1>4, <1>9, <1>11
<1>13. InvCpu' /\ contexto' = contexto /\ MemoriaQuieta
  BY <1>1, <1>3
<1> QED
  BY <1>6, <1>7, <1>10, <1>12, <1>13, PasoDeCache

LEMMA LeerVisible ==
    ASSUME InvMmu, InvCpu', NEW c \in Cpu, NEW p,
           p = contexto[c], p # Nadie, ~vaciando[c],
           NEW i \in 1..Paginas[p], LeerDeMemoria(c, i)
    PROVE  InvMmu' /\ PasoVisible
<1>1. Lugar(cache[c], p, i) = {}
  BY DEF LeerDeMemoria
<1>2. /\ Traducir(c, p, i) = {tabla[p][i]}
      /\ espacio_usuario[tabla[p][i]] \in Valor
  BY <1>1, FueraDeCache
<1>3. PICK m : m = tabla[p][i]
  OBVIOUS
<1>4. IF config[c].entradas_cache > 0
      THEN Traer(c, i, espacio_usuario[m], FALSE, m)
      ELSE /\ tlb' = [tlb EXCEPT ![c] = TlbTras(c, p, i, m)]
           /\ UNCHANGED <<vars, config, contexto, vaciando, cache,
                          puntero_clock, ahora>>
  BY <1>2, <1>3 DEF LeerDeMemoria
<1>5. CASE config[c].entradas_cache > 0
  <2>1. PICK x : x = espacio_usuario[m]
    OBVIOUS
  <2>2. Traer(c, i, x, FALSE, m) /\ x \in Valor /\ FALSE \in BOOLEAN
    BY <1>2, <1>3, <1>4, <1>5, <2>1
  <2> QED
    BY <1>1, <1>3, <1>5, <2>1, <2>2, TraerVisible
<1>6. CASE ~(config[c].entradas_cache > 0)
  <2>1. /\ tlb' = [tlb EXCEPT ![c] = TlbTras(c, p, i, m)]
        /\ UNCHANGED <<vars, contexto, cache>>
    BY <1>4, <1>6
  <2>2. \A d \in Cpu \ {c} : tlb'[d] = tlb[d]
    BY <2>1 DEF InvMmu, InvCpu, Formas
  <2>3. OtrasQuietas(c) /\ \A k \in DOMAIN cache[c] : Misma(cache'[c][k], cache[c][k])
    BY <2>1, <2>2 DEF OtrasQuietas, Misma
  <2>4. tabla' = tabla
    BY <2>1 DEF vars, marcoVars
  <2>5. \A k \in DOMAIN tlb'[c] : DeSuMarco(tlb[c][k], p)'
    BY <1>3, <2>1, <2>4, TlbFiel
  <2> QED
    BY <2>1, <2>3, <2>5, PasoCallado
<1> QED
  BY <1>5, <1>6

LEMMA EscribirVisible ==
    ASSUME InvMmu, InvCpu', NEW c \in Cpu, NEW p,
           p = contexto[c], p # Nadie, ~vaciando[c],
           NEW i \in 1..Paginas[p], NEW d \in Desplazamiento, NEW x \in Dato,
           EscribirEnMemoria(c, i, d, x)
    PROVE  InvMmu' /\ PasoVisible
<1>1. Lugar(cache[c], p, i) = {}
  BY DEF EscribirEnMemoria
<1>2. /\ Traducir(c, p, i) = {tabla[p][i]}
      /\ espacio_usuario[tabla[p][i]] \in Valor
      /\ \A k \in DOMAIN cache[c] : cache[c][k].pagina # i
  BY <1>1, FueraDeCache
<1>3. PICK m : m = tabla[p][i]
  OBVIOUS
<1>4. PICK y : y = [espacio_usuario[m] EXCEPT ![d] = x]
  OBVIOUS
<1>5. y \in Valor
  BY <1>2, <1>3, <1>4, MmuAssumption
<1>6. IF config[c].entradas_cache > 0
      THEN Traer(c, i, y, TRUE, m)
      ELSE /\ tlb' = [tlb EXCEPT ![c] = TlbTras(c, p, i, m)]
           /\ espacio_usuario' = [espacio_usuario EXCEPT ![m] = y]
           /\ UNCHANGED <<config, contexto, vaciando, cache, puntero_clock,
                          ahora, bit_marcos, tabla, listaVars, swapVars,
                          volcado>>
  BY <1>2, <1>3, <1>4 DEF EscribirEnMemoria
<1>7. CASE config[c].entradas_cache > 0
  <2>1. Traer(c, i, y, TRUE, m) /\ TRUE \in BOOLEAN
    BY <1>6, <1>7
  <2> QED
    BY <1>1, <1>3, <1>5, <1>7, <2>1, TraerVisible
<1>8. CASE ~(config[c].entradas_cache > 0)
  <2>1. /\ tlb' = [tlb EXCEPT ![c] = TlbTras(c, p, i, m)]
        /\ espacio_usuario' = [espacio_usuario EXCEPT ![m] = y]
        /\ contexto' = contexto /\ cache' = cache /\ MemoriaQuieta
    BY <1>6, <1>8 DEF MemoriaQuieta
  <2>2. \A e \in Cpu \ {c} : tlb'[e] = tlb[e]
    BY <2>1 DEF InvMmu, InvCpu, Formas
  <2>3. OtrasQuietas(c)
    BY <2>1, <2>2 DEF OtrasQuietas
  <2>4. tabla' = tabla /\ procesos_memoria' = procesos_memoria
    BY <2>1 DEF MemoriaQuieta, listaVars
  <2>5. \A k \in DOMAIN tlb'[c] : DeSuMarco(tlb[c][k], p)'
    BY <1>3, <2>1, <2>4, TlbFiel
  <2>6. DOMAIN cache[c] = {}
    <3>1. /\ Ordenada(cache[c], p, config[c].entradas_cache)
          /\ config[c].entradas_cache \in Nat
      BY Capacidades DEF InvMmu, InvCpu, CpuSana, CacheSana
    <3>2. Len(cache[c]) \in Nat /\ DOMAIN cache[c] = 1..Len(cache[c])
      BY <3>1, LenProperties DEF Ordenada
    <3> QED
      BY <1>8, <3>1, <3>2 DEF Ordenada
  <2>7. CpuFiel(c)'
    BY <2>1, <2>4, <2>5, <2>6 DEF InvMmu, Fieles, CpuFiel
  <2>8. Escribe(p, espacio_usuario, espacio_usuario')
    BY <1>3, <1>5, <2>1 DEF Escribe
  <2>9. PICK v, w : v = Vista(p) /\ w = [Vista(p) EXCEPT ![i] = y]
    OBVIOUS
  <2>10. EsVista(c, v) /\ v \in [1..Paginas[p] -> Valor]
    BY <2>9, FormaDeVista
  <2>11. EsVista(c, w)'
    <3>1. w \in [1..Paginas[p] -> Valor] /\ w = [v EXCEPT ![i] = y]
      BY <1>5, <2>9, <2>10
    <3>2. p \in procesos_memoria /\ InvVirtual
      BY DEF InvMmu, Fieles, CpuFiel
    <3>3. ASSUME NEW j \in 1..Paginas[p]
          PROVE  w[j] = espacio_usuario'[tabla[p][j]]
      <4>1. CASE j = i
        <5>1. m \in Marco /\ espacio_usuario \in [Marco -> Valor]
          BY <1>3, <3>2, EnSuMarco
        <5> QED
          BY <1>3, <2>1, <2>10, <3>1, <4>1, <5>1
      <4>2. CASE j # i
        <5>1. Intacta(p, j)
          BY <1>3, <2>1, <3>2, <4>2, OtrosMarcos
        <5>2. v[j] = espacio_usuario[tabla[p][j]]
          BY <2>6, <2>10 DEF EsVista
        <5> QED
          BY <2>10, <3>1, <4>2, <5>1, <5>2 DEF Intacta
      <4> QED
        BY <4>1, <4>2
    <3> QED
      BY <2>1, <2>4, <2>6, <3>1, <3>3 DEF EsVista
  <2>12. \E j \in 1..Paginas[p], z \in Valor : w = [Vista(p) EXCEPT ![j] = z]
    BY <1>5, <2>9
  <2> QED
    BY <2>1, <2>3, <2>7, <2>8, <2>11, <2>12, PasoDeVista
<1> QED
  BY <1>7, <1>8

LEMMA EscribirEnCacheVisible ==
    ASSUME InvMmu, InvCpu', NEW c \in Cpu, NEW p,
           p = contexto[c], p # Nadie, NEW i \in 1..Paginas[p],
           NEW d \in Desplazamiento, NEW x \in Dato,
           EscribirEnCache(c, i, d, x)
    PROVE  InvMmu' /\ PasoVisible
<1> DEFINE s == cache[c]
<1>1. PICK k \in Lugar(s, p, i) :
         /\ k \in DOMAIN s /\ EsEntrada(s[k])
         /\ cache' = [cache EXCEPT ![c] = [s EXCEPT ![k] = Escrita(s[k], d, x)]]
         /\ UNCHANGED <<vars, contexto, tlb>>
  BY EscrituraEnCache DEF InvMmu
<1>2. UNCHANGED <<espacio_usuario, tabla, procesos_memoria>> /\ MemoriaQuieta
  BY <1>1 DEF vars, marcoVars, listaVars, MemoriaQuieta
<1>3. /\ p \in procesos_memoria /\ p \in Pid
      /\ \A j \in DOMAIN s : EntradaFiel(s[j], p)
      /\ \A j \in DOMAIN tlb[c] : DeSuMarco(tlb[c][j], p)
  BY Capacidades DEF InvMmu, Fieles, CpuFiel
<1>4. PICK y : y = [s[k].contenido EXCEPT ![d] = x]
  OBVIOUS
<1>5. y \in Valor
  <2>1. s[k].contenido \in Valor
    BY <1>1, <1>3 DEF EntradaFiel
  <2> QED
    BY <1>4, <2>1, MmuAssumption
<1>6. PICK e : e = Escrita(s[k], d, x)
  OBVIOUS
<1>7. /\ e.pid = s[k].pid /\ e.pagina = s[k].pagina /\ e.marco = s[k].marco
      /\ e.contenido = y /\ e.bit_modificado = TRUE
  BY <1>1, <1>4, <1>6 DEF EsEntrada, Escrita
<1>8. s[k].pagina = i
  BY <1>1 DEF Lugar
<1>9. \A j \in DOMAIN s : j # k => s[j].pagina # i
  <2>1. Ordenada(s, p, config[c].entradas_cache)
    BY DEF InvMmu, InvCpu, CpuSana, CacheSana
  <2> HIDE DEF s
  <2> QED
    BY <1>1, <1>8, <2>1 DEF Ordenada, SinRepetidas
<1>10. /\ DOMAIN cache'[c] = DOMAIN s /\ cache'[c][k] = e
       /\ \A j \in DOMAIN s : j # k => cache'[c][j] = s[j]
       /\ \A a \in Cpu \ {c} : cache'[a] = cache[a]
  <2>1. cache = [a \in Cpu |-> cache[a]]
    BY DEF InvMmu, InvCpu, Formas
  <2>2. cache'[c] = [s EXCEPT ![k] = e] /\ \A a \in Cpu \ {c} : cache'[a] = cache[a]
    BY <1>1, <1>6, <2>1
  <2> HIDE DEF s
  <2> QED
    BY <1>1, <2>2
<1> HIDE DEF s
<1>11. OtrasQuietas(c)
  BY <1>1, <1>10 DEF OtrasQuietas
<1>12. CpuFiel(c)'
  <2>1. ASSUME NEW j \in DOMAIN cache'[c] PROVE EntradaFiel(cache[c][j], p)'
    <3>1. CASE j = k
      BY <1>1, <1>2, <1>3, <1>5, <1>7, <1>10, <3>1 DEF EntradaFiel, DeSuMarco
    <3>2. CASE j # k
      <4>1. EntradaFiel(s[j], p) /\ cache'[c][j] = s[j]
        BY <1>3, <1>10, <3>2
      <4> QED
        BY <1>2, <4>1 DEF EntradaFiel, DeSuMarco
    <3> QED
      BY <3>1, <3>2
  <2>2. \A j \in DOMAIN tlb'[c] : DeSuMarco(tlb[c][j], p)'
    BY <1>1, <1>2, <1>3 DEF DeSuMarco
  <2> QED
    BY <1>1, <1>2, <1>3, <2>1, <2>2 DEF CpuFiel
<1>13. PICK v, w : v = Vista(p) /\ w = [Vista(p) EXCEPT ![i] = y]
  OBVIOUS
<1>14. EsVista(c, v) /\ v \in [1..Paginas[p] -> Valor]
  BY <1>13, FormaDeVista
<1>15. EsVista(c, w)'
  <2>1. w \in [1..Paginas[p] -> Valor] /\ w = [v EXCEPT ![i] = y]
    BY <1>5, <1>13, <1>14
  <2>2. ASSUME NEW j \in DOMAIN cache'[c]
        PROVE  w[cache'[c][j].pagina] = cache'[c][j].contenido
    <3>1. CASE j = k
      BY <1>7, <1>8, <1>10, <1>14, <2>1, <3>1
    <3>2. CASE j # k
      <4>1. /\ v[s[j].pagina] = s[j].contenido /\ s[j].pagina \in 1..Paginas[p]
            /\ cache'[c][j] = s[j] /\ s[j].pagina # i
        BY <1>3, <1>9, <1>10, <1>14, <3>2 DEF EsVista, EntradaFiel, DeSuMarco, s
      <4> QED
        BY <1>14, <2>1, <4>1
    <3> QED
      BY <3>1, <3>2
  <2>3. ASSUME NEW j \in 1..Paginas[p]
        PROVE  \/ \E l \in DOMAIN cache'[c] : cache'[c][l].pagina = j
               \/ w[j] = espacio_usuario'[tabla'[p][j]]
    <3>1. CASE j = i
      BY <1>1, <1>7, <1>8, <1>10, <3>1
    <3>2. ASSUME j # i, NEW l \in DOMAIN s, s[l].pagina = j
          PROVE  \E h \in DOMAIN cache'[c] : cache'[c][h].pagina = j
      BY <1>8, <1>10, <3>2
    <3>3. CASE j # i /\ v[j] = espacio_usuario[tabla[p][j]]
      BY <1>2, <1>14, <2>1, <3>3
    <3> QED
      BY <1>14, <3>1, <3>2, <3>3 DEF EsVista, s
  <2> QED
    BY <1>1, <2>1, <2>2, <2>3 DEF EsVista
<1>16. \E j \in 1..Paginas[p], z \in Valor : w = [Vista(p) EXCEPT ![j] = z]
  BY <1>5, <1>13
<1>17. contexto' = contexto /\ Escribe(p, espacio_usuario, espacio_usuario')
  BY <1>1, <1>2 DEF Escribe
<1> QED
  BY <1>2, <1>11, <1>12, <1>15, <1>16, <1>17, PasoDeVista

LEMMA InstruccionVisible ==
    ASSUME InvMmu, InvCpu', NEW c \in Cpu, Instruccion(c)
    PROVE  InvMmu' /\ PasoVisible
<1>1. PICK p : p = contexto[c]
  OBVIOUS
<1>2. PICK i \in 1..Paginas[p] :
         \/ LeerEnCache(c, i) \/ LeerDeMemoria(c, i)
         \/ \E d \in Desplazamiento, x \in Dato :
               EscribirEnCache(c, i, d, x) \/ EscribirEnMemoria(c, i, d, x)
  BY <1>1 DEF Instruccion
<1>3. p # Nadie /\ ~vaciando[c]
  BY <1>1 DEF Instruccion
<1>4. CASE LeerEnCache(c, i)
  BY <1>1, <1>3, <1>4, LeerEnCacheVisible
<1>5. CASE LeerDeMemoria(c, i)
  BY <1>1, <1>3, <1>5, LeerVisible
<1>6. ASSUME NEW d \in Desplazamiento, NEW x \in Dato,
             EscribirEnCache(c, i, d, x)
      PROVE  InvMmu' /\ PasoVisible
  BY <1>1, <1>3, <1>6, EscribirEnCacheVisible
<1>7. ASSUME NEW d \in Desplazamiento, NEW x \in Dato,
             EscribirEnMemoria(c, i, d, x)
      PROVE  InvMmu' /\ PasoVisible
  BY <1>1, <1>3, <1>7, EscribirVisible
<1> QED
  BY <1>2, <1>4, <1>5, <1>6, <1>7

\* A page of the flush goes to its frame, and memoria finds its process.
LEMMA VaciarVisible ==
    ASSUME InvMmu, InvCpu', NEW c \in Cpu, NEW p,
           p = contexto[c], p # Nadie, NEW k \in LugaresDe(cache[c], p),
           cache' = [cache EXCEPT ![c] = RemoveAt(cache[c], k)],
           caido' = (cache[c][k].bit_modificado
                       /\ cache[c][k].pid \notin procesos_memoria),
           espacio_usuario' =
              IF cache[c][k].bit_modificado /\ ~caido'
              THEN [espacio_usuario EXCEPT
                      ![cache[c][k].marco] = cache[c][k].contenido]
              ELSE espacio_usuario,
           contexto' = contexto, tlb' = tlb, MemoriaQuieta
    PROVE  InvMmu' /\ PasoVisible /\ caido' = FALSE
<1> DEFINE s == cache[c]
           t == RemoveAt(s, k)
           n == config[c].entradas_cache
<1>1. /\ k \in DOMAIN s /\ s[k].pid = p /\ Ordenada(s, p, n) /\ n \in Nat
      /\ p \in procesos_memoria /\ cache = [d \in Cpu |-> cache[d]]
  BY Capacidades
     DEF LugaresDe, InvMmu, InvCpu, Formas, CpuSana, CacheSana, Fieles, CpuFiel
<1>2. SinUna(s, k, t)
  <2> HIDE DEF s, n
  <2> QED
    BY <1>1, Sacada
<1>3. caido' = FALSE
  BY <1>1
<1>4. cache'[c] = t /\ \A d \in Cpu \ {c} : cache'[d] = cache[d]
  BY <1>1
<1> HIDE DEF t
<1>5. CacheTras(s, t, {}, espacio_usuario, espacio_usuario')
  <2>1. \A x : Misma(x, x)
    BY DEF Misma
  <2>2. {k} \in SUBSET DOMAIN s
    BY <1>1
  <2>3. espacio_usuario' =
           IF s[k].bit_modificado
           THEN [espacio_usuario EXCEPT ![s[k].marco] = s[k].contenido]
           ELSE espacio_usuario
    BY <1>3
  <2>4. /\ \A j \in DOMAIN t : \E i \in DOMAIN s \ {k} : Misma(t[j], s[i])
        /\ \A i \in DOMAIN s \ {k} : \E j \in DOMAIN t : Misma(t[j], s[i])
    BY <1>2, <2>1 DEF SinUna
  <2> HIDE DEF s
  <2> QED
    BY <1>1, <2>2, <2>3, <2>4 DEF CacheTras
<1>6. OtrasQuietas(c)
  BY <1>4 DEF OtrasQuietas
<1>7. \A j \in DOMAIN tlb'[c] : DeSuMarco(tlb[c][j], p)'
  BY DEF InvMmu, Fieles, CpuFiel, DeSuMarco, MemoriaQuieta
<1>8. Traida(Vista(p), Vista(p), {})
  <2>1. Vista(p) = [i \in DOMAIN Vista(p) |-> Vista(p)[i]]
    BY FormaDeVista
  <2> QED
    BY <2>1, SinCambio
<1>9. CacheTras(cache[c], cache'[c], {}, espacio_usuario, espacio_usuario')
  BY <1>4, <1>5 DEF s
<1> QED
  BY <1>3, <1>6, <1>7, <1>8, <1>9, PasoDeCache
-----------------------------------------------------------------------------
(* Steps that change who has a CPU *)

VistasSinCache ==
    \A c \in Cpu : contexto[c] # Nadie /\ DOMAIN cache[c] = {} =>
       Vista(contexto[c]) = ContenidoDe(contexto[c])

\* With nothing in the cache a process sees its frames.
LEMMA VistaSinCache ==
    InvMmu => VistasSinCache
<1> SUFFICES ASSUME InvMmu, NEW c \in Cpu, contexto[c] # Nadie,
                    DOMAIN cache[c] = {}
             PROVE  Vista(contexto[c]) = ContenidoDe(contexto[c])
  BY DEF VistasSinCache
<1>1. PICK p, w : p = contexto[c] /\ w = Vista(p)
  OBVIOUS
<1>2. EsVista(c, w) /\ p \in procesos_memoria
  BY <1>1, FormaDeVista DEF InvMmu, Fieles, CpuFiel
<1>3. /\ w \in [1..Paginas[p] -> Valor]
      /\ \A i \in 1..Paginas[p] : w[i] = espacio_usuario[tabla[p][i]]
  BY <1>1, <1>2 DEF EsVista
<1>4. w = [i \in 1..Paginas[p] |-> espacio_usuario[tabla[p][i]]]
  BY <1>3
<1> QED
  BY <1>1, <1>2, <1>4 DEF ContenidoDe

LEMMA VistaSinCachePrima ==
    InvMmu' => VistasSinCache'
<1>1. InvMmu => VistasSinCache
  BY VistaSinCache
<1> QED
  BY <1>1, PTL

VistaLibre == \A p \in Pid :
    (\A c \in Cpu : contexto[c] # p) => Vista(p) = ContenidoDe(p)

LEMMA VistaLibrePrima == VistaLibre /\ VistaLibre'
<1>1. VistaLibre
  BY VistaSinCpu DEF VistaLibre
<1> QED
  BY <1>1, PTL

\* A CPU with nothing in its cache takes a process or leaves it.
LEMMA CambioDeContexto ==
    ASSUME InvMmu, InvMmu', NEW c \in Cpu,
           UNCHANGED <<vars, cache, tlb>>, DOMAIN cache[c] = {},
           \A d \in Cpu \ {c} : contexto'[d] = contexto[d]
    PROVE  PasoVisible
<1>1. UNCHANGED <<espacio_usuario, tabla, listaVars, swapVars, volcado>>
  BY DEF vars, marcoVars
<1>2. /\ \A q \in Pid : ContenidoDe(q)' = ContenidoDe(q)
      /\ UNCHANGED <<procesos_memoria, procesos_swap, creados, volcado>>
  BY <1>1, NadaCambia DEF listaVars
<1>3. ASSUME NEW q \in Pid PROVE Vista(q)' = Vista(q)
  <2>1. q # Nadie
    BY MmuAssumption
  <2>2. ASSUME NEW d \in Cpu, d # c, contexto[d] = q
        PROVE  Vista(q)' = Vista(q)
    <3>1. contexto'[d] = q /\ cache'[d] = cache[d] /\ tabla'[q] = tabla[q]
      BY <1>1, <2>2
    <3>2. \A j \in 1..Paginas[q] : Intacta(q, j)
      BY <1>1 DEF Intacta
    <3> QED
      BY <2>1, <2>2, <3>1, <3>2, QuietaEnCpu
  <2>3. CASE \A d \in Cpu : d # c => contexto[d] # q
    <3>1. Vista(q) = ContenidoDe(q)
      <4>1. CASE contexto[c] = q
        BY <4>1, <2>1, VistaSinCache DEF VistasSinCache
      <4>2. CASE contexto[c] # q
        BY <4>2, <2>3, VistaLibrePrima DEF VistaLibre
      <4> QED
        BY <4>1, <4>2
    <3>2. \A d \in Cpu : d # c => contexto'[d] # q
      BY <2>3
    <3>3. Vista(q)' = ContenidoDe(q)'
      <4>1. CASE contexto'[c] = q
        BY <4>1, <2>1, VistaSinCachePrima DEF VistasSinCache
      <4>2. CASE contexto'[c] # q
        BY <4>2, <3>2, VistaLibrePrima DEF VistaLibre
      <4> QED
        BY <4>1, <4>2
    <3> QED
      BY <1>2, <3>1, <3>3
  <2> QED
    BY <2>2, <2>3
<1>4. [q \in Pid |-> Vista(q)]' = [q \in Pid |-> Vista(q)]
  BY <1>3
<1> QED
  BY <1>2, <1>4 DEF PasoVisible, Visible!mvars

LEMMA SoltarVisible ==
    ASSUME InvMmu, InvCpu', NEW c \in Cpu,
           LugaresDe(cache[c], contexto[c]) = {},
           contexto' = [contexto EXCEPT ![c] = Nadie],
           UNCHANGED <<vars, cache, tlb>>
    PROVE  InvMmu' /\ PasoVisible
<1>1. /\ contexto'[c] = Nadie
      /\ \A d \in Cpu \ {c} : contexto'[d] = contexto[d]
  BY DEF InvMmu, InvCpu, Formas
<1>2. DOMAIN cache[c] = {}
  BY DEF LugaresDe, InvMmu, InvCpu, CpuSana, CacheSana, Ordenada
<1>3. UNCHANGED <<espacio_usuario, tabla, procesos_memoria>>
  BY DEF vars, marcoVars, listaVars
<1>4. CpuFiel(c)'
  BY <1>1 DEF CpuFiel
<1>5. ASSUME NEW d \in Cpu \ {c} PROVE CpuFiel(d)'
  BY <1>1, <1>3, SigueFiel DEF InvMmu, Fieles, CpuFiel
<1>6. UnaCpuPorProceso'
  BY <1>1 DEF InvMmu, Fieles, UnaCpuPorProceso
<1>7. InvVirtual'
  BY PasoVirtual DEF InvMmu
<1>8. InvMmu'
  BY <1>4, <1>5, <1>6, <1>7 DEF InvMmu, Fieles
<1> QED
  BY <1>1, <1>2, <1>8, CambioDeContexto

LEMMA RecibirVisible ==
    ASSUME Puntual, InvMmu, InvCpu', NEW c \in Cpu,
           NEW p \in Pid, RecibirContexto(c, p)
    PROVE  InvMmu' /\ PasoVisible
<1>1. /\ contexto[c] = Nadie /\ p \in procesos_memoria /\ p # Nadie
      /\ contexto' = [contexto EXCEPT ![c] = p]
      /\ UNCHANGED <<vars, cache, tlb>>
      /\ \A k \in Cpu : contexto[k] # p
  BY MmuAssumption DEF RecibirContexto, Ocupa
<1>2. contexto'[c] = p /\ \A d \in Cpu \ {c} : contexto'[d] = contexto[d]
  BY <1>1 DEF InvMmu, InvCpu, Formas
<1>3. DOMAIN cache[c] = {} /\ DOMAIN tlb[c] = {}
  <2>1. CpuSana(c)
    BY DEF InvMmu, InvCpu
  <2>2. /\ \A k \in DOMAIN cache[c] :
              cache[c][k].pid = Nadie /\ cache[c][k].pid \in Pid
        /\ \A k \in DOMAIN tlb[c] :
              tlb[c][k].pid = Nadie /\ tlb[c][k].pid \in Pid
    BY <1>1, <2>1 DEF CpuSana, CacheSana, TlbSana, Ordenada, EsEntrada,
                      EsEntradaTlb
  <2> QED
    BY <2>2, MmuAssumption
<1>4. UNCHANGED <<espacio_usuario, tabla, procesos_memoria>>
  BY <1>1 DEF vars, marcoVars, listaVars
<1>5. CpuFiel(c)'
  BY <1>1, <1>2, <1>3, <1>4 DEF CpuFiel
<1>6. ASSUME NEW d \in Cpu \ {c} PROVE CpuFiel(d)'
  BY <1>1, <1>2, <1>4, SigueFiel DEF InvMmu, Fieles, CpuFiel
<1>7. UnaCpuPorProceso'
  BY <1>1, <1>2 DEF InvMmu, Fieles, UnaCpuPorProceso
<1>8. InvVirtual'
  BY <1>1, PasoVirtual DEF InvMmu
<1>9. InvMmu'
  BY <1>5, <1>6, <1>7, <1>8 DEF InvMmu, Fieles
<1> QED
  BY <1>1, <1>2, <1>3, <1>9, CambioDeContexto

\* The clock of the TLB, a page that is not there and a step of nobody.
LEMMA NadaSeVe ==
    ASSUME InvMmu, InvCpu',
           UNCHANGED <<vars, contexto, cache, tlb>>
    PROVE  InvMmu' /\ PasoVisible
<1>1. UNCHANGED <<espacio_usuario, tabla, listaVars, swapVars, volcado>>
  BY DEF vars, marcoVars
<1>2. /\ \A q \in Pid : ContenidoDe(q)' = ContenidoDe(q)
      /\ UNCHANGED <<procesos_memoria, procesos_swap, creados, volcado>>
  BY <1>1, NadaCambia DEF listaVars
<1>3. ASSUME NEW d \in Cpu PROVE CpuFiel(d)'
  BY <1>1, <1>2, SigueFiel DEF InvMmu, Fieles, CpuFiel
<1>4. UnaCpuPorProceso' /\ InvVirtual'
  BY PasoVirtual DEF InvMmu, Fieles, UnaCpuPorProceso
<1>5. InvMmu'
  BY <1>3, <1>4 DEF InvMmu, Fieles
<1>6. ASSUME NEW q \in Pid PROVE Vista(q)' = Vista(q)
  <2>1. ASSUME NEW d \in Cpu, contexto[d] = q PROVE Vista(q)' = Vista(q)
    <3>1. q # Nadie /\ contexto'[d] = q /\ cache'[d] = cache[d]
          /\ tabla'[q] = tabla[q] /\ \A j \in 1..Paginas[q] : Intacta(q, j)
      BY <1>1, <2>1, MmuAssumption DEF Intacta
    <3> QED
      BY <1>5, <2>1, <3>1, QuietaEnCpu
  <2>2. CASE \A d \in Cpu : contexto[d] # q
    <3>1. Vista(q) = ContenidoDe(q) /\ Vista(q)' = ContenidoDe(q)'
      BY <2>2, VistaLibrePrima DEF VistaLibre
    <3> QED
      BY <1>2, <3>1
  <2> QED
    BY <2>1, <2>2
<1>7. [q \in Pid |-> Vista(q)]' = [q \in Pid |-> Vista(q)]
  BY <1>6
<1> QED
  BY <1>2, <1>5, <1>7 DEF PasoVisible, Visible!mvars
-----------------------------------------------------------------------------
(* Requests of the kernel *)

PideElKernel(p) == \/ IniciarProceso(p) \/ FinProceso(p)
                   \/ EnviarASwap(p) \/ SacarDeSwap(p) \/ DumpDeMemoria(p)

\* A request about p leaves another process of memoria where it is.
LEMMA PedidoAjeno ==
    ASSUME InvVirtual, NEW p \in Pid, PideElKernel(p),
           NEW q \in procesos_memoria, q # p
    PROVE  /\ q \in procesos_memoria' /\ tabla'[q] = tabla[q]
           /\ \A j \in 1..Paginas[q] : Intacta(q, j)
<1>1. /\ Inv /\ q \in Pid /\ tabla = [r \in Pid |-> tabla[r]]
  BY DEF InvVirtual, InvSwap, Inv, TypeOK
<1>2. q \in procesos_memoria' /\ tabla'[q] = tabla[q]
  BY <1>1 DEF PideElKernel, IniciarProceso, FinProceso, EnviarASwap,
              SacarDeSwap, DumpDeMemoria, listaVars, marcoVars
<1>3. ASSUME NEW j \in 1..Paginas[q] PROVE Intacta(q, j)
  <2>1. CASE espacio_usuario' = espacio_usuario
    BY <2>1 DEF Intacta
  <2>2. CASE SacarDeSwap(p)
    <3>1. PICK f \in PrimerosDe(Libres, Paginas[p]),
               g \in PrimerosDe(SlotsDe(p), Paginas[p]) :
             espacio_usuario' = [m \in Marco |->
                 IF m \in Imagen(f)
                 THEN swapfile[g[CHOOSE k \in 1..Paginas[p] : f[k] = m]]
                 ELSE espacio_usuario[m]]
      BY <2>2 DEF SacarDeSwap
    <3>2. tabla[q][j] \in Marco /\ tabla[q][j] \in bit_marcos
      BY <1>1, PaginasEnMarcos DEF Inv, MarcosRepartidos
    <3>3. tabla[q][j] \notin Imagen(f)
      BY <3>2 DEF PrimerosDe, Imagen, Libres
    <3> QED
      BY <3>1, <3>2, <3>3 DEF Intacta
  <2> QED
    BY <2>1, <2>2 DEF PideElKernel, IniciarProceso, FinProceso, EnviarASwap,
                      DumpDeMemoria, marcoVars
<1> QED
  BY <1>2, <1>3

\* What the request does to the contents of p is what its process sees.
SeVe(p, x) ==
    [q \in Pid |-> Vista(q)]' = [[q \in Pid |-> Vista(q)] EXCEPT ![p] = x]

LEMMA LoMismoSeVe ==
    ASSUME NEW p \in Pid, NEW x,
           \A c \in Cpu : contexto[c] # p /\ contexto'[c] # p,
           [q \in Pid |-> ContenidoDe(q)]' =
              [[q \in Pid |-> ContenidoDe(q)] EXCEPT ![p] = x],
           \A q \in Pid : q # p =>
              \/ Vista(q)' = Vista(q)
              \/ \A c \in Cpu : contexto[c] # q /\ contexto'[c] # q
    PROVE  SeVe(p, x)
<1>1. /\ ContenidoDe(p)' = x
      /\ \A q \in Pid : q # p => ContenidoDe(q)' = ContenidoDe(q)
  BY Zenon
<1>2. Vista(p)' = x
  BY <1>1, VistaLibrePrima DEF VistaLibre
<1>3. ASSUME NEW q \in Pid, q # p PROVE Vista(q)' = Vista(q)
  BY <1>1, <1>3, VistaLibrePrima DEF VistaLibre
<1> QED
  BY <1>2, <1>3 DEF SeVe

LEMMA PedidoVisible ==
    ASSUME Puntual, InvMmu, InvCpu', NEW p \in Pid,
           PedidoDelKernel(p)
    PROVE  InvMmu' /\ PasoVisible
<1>1. /\ \A c \in Cpu : contexto[c] # p /\ contexto'[c] # p
      /\ PideElKernel(p) /\ UNCHANGED <<contexto, cache, tlb>>
  BY DEF PedidoDelKernel, Ocupa, cpuVars, PideElKernel
<1>2. [Next]_vars
  BY <1>1 DEF PideElKernel, Next
<1>3. ASSUME NEW d \in Cpu, contexto[d] # Nadie
      PROVE  /\ contexto[d] \in procesos_memoria'
             /\ tabla'[contexto[d]] = tabla[contexto[d]]
             /\ \A j \in 1..Paginas[contexto[d]] : Intacta(contexto[d], j)
  <2>1. contexto[d] \in procesos_memoria /\ contexto[d] # p /\ InvVirtual
    BY <1>1, <1>3 DEF InvMmu, Fieles, CpuFiel
  <2> QED
    BY <1>1, <2>1, PedidoAjeno
<1>4. ASSUME NEW d \in Cpu PROVE CpuFiel(d)'
  BY <1>1, <1>3, SigueFiel DEF InvMmu, Fieles, Intacta
<1>5. InvVirtual' /\ UnaCpuPorProceso'
  BY <1>1, <1>2, PasoVirtual DEF InvMmu, Fieles, UnaCpuPorProceso
<1>6. InvMmu'
  BY <1>4, <1>5 DEF InvMmu, Fieles
<1>7. Lados
  BY <1>5 DEF InvMmu, Lados, InvVirtual, InvSwap, Inv, TypeOK
<1>8. ASSUME NEW q \in Pid
      PROVE  \/ Vista(q)' = Vista(q)
             \/ \A c \in Cpu : contexto[c] # q /\ contexto'[c] # q
  <2> SUFFICES ASSUME NEW d \in Cpu, contexto[d] = q
               PROVE  Vista(q)' = Vista(q)
    BY <1>1
  <2>1. /\ q # Nadie /\ contexto'[d] = q /\ cache'[d] = cache[d]
        /\ tabla'[q] = tabla[q] /\ \A j \in 1..Paginas[q] : Intacta(q, j)
    BY <1>1, <1>3, MmuAssumption
  <2> QED
    BY <1>6, <2>1, QuietaEnCpu
<1>9. ASSUME NEW x,
             [q \in Pid |-> ContenidoDe(q)]' =
                [[q \in Pid |-> ContenidoDe(q)] EXCEPT ![p] = x]
      PROVE  SeVe(p, x)
  BY <1>1, <1>8, <1>9, LoMismoSeVe
<1>10. CASE IniciarProceso(p)
  <2>1. Virtual!Crear(p)
    BY <1>7, <1>10, IniciarEsCrear
  <2>2. PICK x \in [1..Paginas[p] -> Valor] :
           [q \in Pid |-> ContenidoDe(q)]' =
              [[q \in Pid |-> ContenidoDe(q)] EXCEPT ![p] = x]
    BY <2>1 DEF Virtual!Crear
  <2>3. SeVe(p, x)
    BY <1>9, <2>2
  <2>4. Visible!Crear(p)
    BY <2>1, <2>3 DEF Virtual!Crear, Visible!Crear, SeVe
  <2> QED
    BY <1>2, <1>6, <2>4 DEF PasoVisible, Visible!Next
<1>11. CASE FinProceso(p)
  <2>1. Virtual!Terminar(p)
    BY <1>7, <1>11, FinEsTerminar
  <2>2. SeVe(p, <<>>)
    BY <1>9, <2>1 DEF Virtual!Terminar
  <2>3. Visible!Terminar(p)
    BY <2>1, <2>2 DEF Virtual!Terminar, Visible!Terminar, SeVe
  <2> QED
    BY <1>2, <1>6, <2>3 DEF PasoVisible, Visible!Next
<1>12. CASE UNCHANGED Virtual!mvars
  <2>1. PICK x : x = ContenidoDe(p)
    OBVIOUS
  <2>2. [q \in Pid |-> ContenidoDe(q)]' = [q \in Pid |-> ContenidoDe(q)]
    BY <1>12 DEF Virtual!mvars
  <2>3. SeVe(p, x)
    BY <1>9, <2>1, <2>2
  <2>4. x = Vista(p)
    BY <1>1, <2>1, VistaLibrePrima DEF VistaLibre
  <2>5. [q \in Pid |-> Vista(q)]' = [q \in Pid |-> Vista(q)]
    BY <2>3, <2>4 DEF SeVe
  <2> QED
    BY <1>2, <1>6, <1>12, <2>5 DEF PasoVisible, Visible!mvars, Virtual!mvars
<1>13. CASE EnviarASwap(p) \/ SacarDeSwap(p)
  <2>1. UNCHANGED Virtual!mvars
    BY <1>7, <1>13, EnviarNoSeVe, SacarNoSeVe
  <2> QED
    BY <1>12, <2>1
<1>14. CASE DumpDeMemoria(p)
  <2>1. Virtual!Volcar(p)
    BY <1>7, <1>14, DumpEsVolcar
  <2>2. [q \in Pid |-> ContenidoDe(q)]' = [q \in Pid |-> ContenidoDe(q)]
    BY <2>1 DEF Virtual!Volcar
  <2>3. PICK x : x = ContenidoDe(p)
    OBVIOUS
  <2>4. SeVe(p, x)
    BY <1>9, <2>2, <2>3
  <2>5. x = Vista(p)
    BY <1>1, <2>3, VistaLibrePrima DEF VistaLibre
  <2>6. [q \in Pid |-> Vista(q)]' = [q \in Pid |-> Vista(q)]
    BY <2>4, <2>5 DEF SeVe
  <2>7. volcado' = x
    BY <2>1, <2>3 DEF Virtual!Volcar
  <2>8. Visible!Volcar(p)
    BY <2>1, <2>5, <2>6, <2>7 DEF Virtual!Volcar, Visible!Volcar
  <2> QED
    BY <1>2, <1>6, <2>8 DEF PasoVisible, Visible!Next
<1> QED
  BY <1>1, <1>10, <1>11, <1>13, <1>14 DEF PideElKernel
-----------------------------------------------------------------------------
(* The CPUs and memoria together *)

LEMMA InicioMmu == MmuInit => InvMmu /\ Visible!Init
<1> SUFFICES ASSUME MmuInit PROVE InvMmu /\ Visible!Init
  OBVIOUS
<1>1. InvVirtual /\ InvCpu
  BY InicioVirtual, InicioCpu DEF MmuInit
<1>2. \A c \in Cpu : contexto[c] = Nadie
  BY DEF MmuInit
<1>3. Fieles
  BY <1>2 DEF Fieles, CpuFiel, UnaCpuPorProceso
<1>4. \A p \in Pid : Vista(p) = <<>>
  BY DEF MmuInit, Init, Vista
<1>5. Visible!Init
  BY <1>4 DEF MmuInit, Init, Visible!Init
<1> QED
  BY <1>1, <1>3, <1>5 DEF InvMmu

\* memoria dies in one step alone.
Caida == caido' # caido =>
           \E c \in Cpu : /\ contexto[c] # Nadie /\ ~vaciando[c]
                          /\ Len(tabla[contexto[c]])
                                < Capacidad

LEMMA PasoMmu ==
    ASSUME Puntual
    PROVE  InvMmu /\ [MmuNext]_mmuVars => InvMmu' /\ PasoVisible
<1> SUFFICES ASSUME InvMmu, [MmuNext]_mmuVars PROVE InvMmu' /\ PasoVisible
  OBVIOUS
<1>0. InvCpu'
  BY PasoCpu DEF InvMmu
<1>1. CASE UNCHANGED mmuVars
  BY <1>0, <1>1, NadaSeVe DEF mmuVars, cpuVars
<1>2. ASSUME NEW c \in Cpu, VaciarCache(c) PROVE InvMmu' /\ PasoVisible
  <2>1. PICK p : p = contexto[c]
    OBVIOUS
  <2>2. p # Nadie /\ UNCHANGED <<config, puntero_clock, tlb, ahora>>
    BY <1>2, <2>1 DEF VaciarCache, InvMmu, InvCpu, CpuSana
  <2>3. CASE /\ LugaresDe(cache[c], contexto[c]) = {}
             /\ contexto' = [contexto EXCEPT ![c] = Nadie]
             /\ UNCHANGED <<vars, cache, caido>>
    BY <1>0, <2>2, <2>3, SoltarVisible
  <2>4. ASSUME NEW k \in LugaresDe(cache[c], contexto[c]),
               cache' = [cache EXCEPT ![c] = RemoveAt(cache[c], k)],
               caido' = (cache[c][k].bit_modificado
                           /\ cache[c][k].pid \notin procesos_memoria),
               espacio_usuario' =
                  IF cache[c][k].bit_modificado /\ ~caido'
                  THEN [espacio_usuario EXCEPT
                          ![cache[c][k].marco] = cache[c][k].contenido]
                  ELSE espacio_usuario,
               contexto' = contexto,
               UNCHANGED <<bit_marcos, tabla, listaVars, swapVars, volcado>>
        PROVE  InvMmu' /\ PasoVisible
    <3>1. MemoriaQuieta /\ tlb' = tlb /\ k \in LugaresDe(cache[c], p)
      BY <2>1, <2>2, <2>4 DEF MemoriaQuieta
    <3> QED
      BY <1>0, <2>1, <2>2, <2>4, <3>1, VaciarVisible
  <2> QED
    BY <1>2, <2>3, <2>4 DEF VaciarCache
<1>3. ASSUME NEW c \in Cpu, InstruccionFueraDeRango(c)
      PROVE  InvMmu' /\ PasoVisible
  BY <1>0, <1>3, NadaSeVe DEF InstruccionFueraDeRango, cpuVars
<1>4. ASSUME NEW c \in Cpu, Instruccion(c) PROVE InvMmu' /\ PasoVisible
  BY <1>0, <1>4, InstruccionVisible
<1>5. ASSUME NEW c \in Cpu, DevolverContexto(c) PROVE InvMmu' /\ PasoVisible
  BY <1>0, <1>5, DevolverVisible
<1>6. ASSUME NEW c \in Cpu, NEW p \in Pid, RecibirContexto(c, p)
      PROVE  InvMmu' /\ PasoVisible
  BY <1>0, <1>6, RecibirVisible
<1>7. ASSUME NEW p \in Pid, PedidoDelKernel(p) PROVE InvMmu' /\ PasoVisible
  BY <1>0, <1>7, PedidoVisible
<1>8. CASE PasaUnSegundo
  BY <1>0, <1>8, NadaSeVe DEF PasaUnSegundo
<1> QED
  BY <1>1, <1>2, <1>3, <1>4, <1>5, <1>6, <1>7, <1>8 DEF MmuNext

LEMMA InvarianteMmu ==
    ASSUME Puntual PROVE MmuSpec => []InvMmu
<1>1. MmuInit => InvMmu
  BY InicioMmu
<1>2. InvMmu /\ [MmuNext]_mmuVars => InvMmu'
  BY PasoMmu
<1> QED
  BY <1>1, <1>2, PTL DEF MmuSpec

\* While the flush of a CPU comes before what the kernel does with its
\* process, no frame that a CPU remembers is stale, whatever was swapped out
\* and back since (tlb.c:63-72, cache.c:137-150).
THEOREM MarcosSiempreVigentes ==
    ASSUME Puntual PROVE MmuSpec => []MarcosVigentes
<1>1. InvMmu => MarcosVigentes
  <2> SUFFICES ASSUME InvMmu, NEW c \in Cpu
               PROVE  /\ \A k \in DOMAIN tlb[c] : Vigente(tlb[c][k])
                      /\ \A k \in DOMAIN cache[c] : Vigente(cache[c][k])
    BY DEF MarcosVigentes
  <2>1. CpuSana(c) /\ CpuFiel(c) /\ InvVirtual
    BY DEF InvMmu, InvCpu, Fieles
  <2>2. /\ \A k \in DOMAIN tlb[c] :
              tlb[c][k].pid = contexto[c] /\ tlb[c][k].pid \in Pid
        /\ \A k \in DOMAIN cache[c] :
              cache[c][k].pid = contexto[c] /\ cache[c][k].pid \in Pid
    BY <2>1 DEF CpuSana, CacheSana, TlbSana, Ordenada, EsEntrada, EsEntradaTlb
  <2>3. CASE contexto[c] = Nadie
    BY <2>2, <2>3, MmuAssumption
  <2>4. CASE contexto[c] # Nadie
    <3>1. DOMAIN tabla[contexto[c]] = 1..Paginas[contexto[c]]
      BY <2>1, <2>4 DEF CpuFiel, InvVirtual, InvSwap, Inv, MarcosRepartidos
    <3> QED
      BY <2>1, <2>2, <2>4, <3>1 DEF CpuFiel, EntradaFiel, DeSuMarco, Vigente
  <2> QED
    BY <2>3, <2>4
<1> QED
  BY <1>1, InvarianteMmu, PTL

\* The CPUs with their caches ask memoria for nothing that module Memoria
\* does not expect of them: a write is always to a page of a process in
\* memory, in its own frame.  All that is proved of Memoria holds below them.
THEOREM CpusImplementanPedidos ==
    ASSUME Puntual PROVE MmuSpec => Spec
<1>1. MmuInit => Init
  BY DEF MmuInit
<1>2. InvMmu /\ [MmuNext]_mmuVars => [Next]_vars
  BY PasoMmu DEF PasoVisible
<1> QED
  BY <1>1, <1>2, InvarianteMmu, PTL DEF MmuSpec, Spec

\* The process reads what it last wrote, with caches and TLBs of any size,
\* any algorithms and any number of CPUs, whatever was replaced, flushed,
\* swapped and brought back since (cache.c, tlb.c, manejo_swap.c).
THEOREM LoEscritoSeLee ==
    ASSUME Puntual PROVE MmuSpec => VistaConstante
<1>1. MmuInit => Visible!Init
  BY InicioMmu
<1>2. InvMmu /\ [MmuNext]_mmuVars => [Visible!Next]_(Visible!mvars)
  BY PasoMmu DEF PasoVisible
<1> QED
  BY <1>1, <1>2, InvarianteMmu, PTL DEF MmuSpec, VistaConstante, Visible!Spec

\* A page of a process in memory is reached at the frame that memoria gave it
\* when it last came in, from any CPU, through its TLB or not, and whatever
\* the shape of the table (cpu.c:679-690, tablas.c:33-64, tlb.c:63-72).
THEOREM CadaPaginaEnSuMarco ==
    ASSUME Puntual PROVE MmuSpec => []RecorridoExacto
<1>1. InvMmu => RecorridoExacto
  <2> SUFFICES ASSUME InvMmu PROVE RecorridoExacto
    OBVIOUS
  <2>1. ASSUME NEW c \in Cpu, NEW p \in procesos_memoria,
               NEW i \in 1..Paginas[p]
        PROVE  Traducir(c, p, i) = {tabla[p][i]}
    <3>1. p \in Pid /\ p # Nadie
      BY MmuAssumption DEF InvMmu, InvVirtual, InvSwap, Inv, TypeOK
    <3>2. CASE Lugar(tlb[c], p, i) = {}
      BY <3>1, <3>2, TraducirPorTabla
    <3>3. CASE Lugar(tlb[c], p, i) # {}
      <4>1. PICK k \in DOMAIN tlb[c] : tlb[c][k].pid = p
        BY <3>3 DEF Lugar
      <4>2. tlb[c][k].pid = contexto[c]
        BY DEF InvMmu, InvCpu, CpuSana, TlbSana, Ordenada
      <4> QED
        BY <3>1, <4>1, <4>2, TraducirBien
    <3> QED
      BY <3>2, <3>3
  <2>2. FormasExactas
    <3>1. ASSUME NEW e \in 1..3, NEW n \in 1..3,
                 NEW total \in 1..CapacidadDe(e, n)
          PROVE  TablaExacta(e, n, total)
      <4>1. e \in Nat \ {0} /\ n \in Nat \ {0}
        OBVIOUS
      <4> QED
        BY <4>1, TablasExactas
    <3> QED
      BY <3>1 DEF FormasExactas
  <2> QED
    BY <2>1, <2>2, LosCaminosSonExactos DEF RecorridoExacto
<1> QED
  BY <1>1, InvarianteMmu, PTL

LEMMA CaidoBooleano == MmuSpec => [](caido \in BOOLEAN)
<1>1. MmuInit => caido \in BOOLEAN
  BY DEF MmuInit
<1>2. caido \in BOOLEAN /\ [MmuNext]_mmuVars => (caido \in BOOLEAN)'
  BY DEF MmuNext, mmuVars, VaciarCache, InstruccionFueraDeRango
<1> QED
  BY <1>1, <1>2, PTL DEF MmuSpec

LEMMA PasoCaida ==
    InvMmu /\ caido \in BOOLEAN /\ [MmuNext]_mmuVars => Caida
<1> SUFFICES ASSUME InvMmu, caido \in BOOLEAN, [MmuNext]_mmuVars,
                    caido' # caido
             PROVE  \E c \in Cpu : /\ contexto[c] # Nadie /\ ~vaciando[c]
                                   /\ Len(tabla[contexto[c]])
                                         < Capacidad
  BY DEF Caida
<1>1. caido = FALSE
  BY DEF MmuNext, mmuVars
<1>2. PICK c \in Cpu : VaciarCache(c) \/ InstruccionFueraDeRango(c)
  BY DEF MmuNext, mmuVars
<1>3. CASE VaciarCache(c)
  <2>1. contexto[c] # Nadie
    BY <1>3 DEF VaciarCache, InvMmu, InvCpu, CpuSana
  <2>2. contexto[c] \in procesos_memoria
    BY <2>1 DEF InvMmu, Fieles, CpuFiel
  <2>3. caido' = FALSE
    BY <1>1, <1>3, <2>2 DEF VaciarCache, LugaresDe
  <2> QED
    BY <1>1, <2>3
<1>4. CASE InstruccionFueraDeRango(c)
  <2> DEFINE p == contexto[c]
             m == Capacidad
  <2>0. m \in Nat
    BY MmuAssumption, CapacidadProps DEF Capacidad
  <2>1. p # Nadie /\ ~vaciando[c] /\ m \in Nat /\ Paginas[p] \in Nat
    BY <1>4, <2>0, Capacidades, MemoriaAssumption
       DEF InstruccionFueraDeRango, InvMmu
  <2>2. PICK i \in 1..m : Traducir(c, p, i) = {}
    BY <1>4 DEF InstruccionFueraDeRango
  <2>3. /\ p \in procesos_memoria /\ p \in Pid /\ InvVirtual
    BY <2>1, Capacidades DEF InvMmu, Fieles, CpuFiel
  <2> HIDE DEF m
  <2>4. ~(m <= Paginas[p])
    <3> SUFFICES ASSUME m <= Paginas[p] PROVE FALSE
      OBVIOUS
    <3>1. i \in 1..Paginas[p]
      BY <2>1
    <3>2. Traducir(c, p, i) = {tabla[p][i]}
      BY <2>1, <3>1, TraducirBien
    <3> QED
      BY <2>2, <3>2
  <2>5. Len(tabla[p]) = Paginas[p]
    <3>1. /\ tabla[p] \in Seq(Marco \cup {-1})
          /\ DOMAIN tabla[p] = 1..Paginas[p]
      BY <2>3 DEF InvVirtual, InvSwap, Inv, TypeOK, MarcosRepartidos
    <3> HIDE DEF p
    <3> QED
      BY <2>1, <3>1, LenProperties
  <2> QED
    BY <2>1, <2>4, <2>5 DEF m
<1> QED
  BY <1>2, <1>3, <1>4

\* memoria dies of one thing alone: a running process, whose table has room
\* for more, used a page that it has not (atencion_a_cpu.c:122).  No flush
\* ever does it (lectura_escritura.c).
THEOREM SoloMuerePorUnaPaginaAjena ==
    ASSUME Puntual PROVE MmuSpec => CaidaDebida
<1>1. InvMmu /\ caido \in BOOLEAN /\ [MmuNext]_mmuVars => Caida
  BY PasoCaida
<1> QED
  BY <1>1, InvarianteMmu, CaidoBooleano, PTL DEF MmuSpec, CaidaDebida, Caida

\* A new dump is what the process sees at that moment, not what its frames
\* have (atencion_a_kernel.c:167); run mmu_tarde shows that it needs Puntual.
THEOREM VolcadoAlDia ==
    ASSUME Puntual PROVE MmuSpec => VolcadoVigente
<1> DEFINE A == volcado' # volcado => \E p \in Pid : volcado' = Vista(p)
<1>1. PasoVisible => A
  <2> SUFFICES ASSUME PasoVisible, volcado' # volcado
               PROVE  \E p \in Pid : volcado' = Vista(p)
    OBVIOUS
  <2>1. PICK p \in Pid : Visible!Volcar(p)
    BY DEF PasoVisible, Visible!mvars, Visible!Next, Visible!Crear,
           Visible!Terminar, Visible!Escribir
  <2> QED
    BY <2>1 DEF Visible!Volcar
<1>2. InvMmu /\ [MmuNext]_mmuVars => A
  BY <1>1, PasoMmu
<1> QED
  BY <1>2, InvarianteMmu, PTL DEF MmuSpec, VolcadoVigente

LEMMA OtroConjunto ==
    ASSUME NEW S, NEW s, s \in Seq(Imagen(s)), \A k \in DOMAIN s : s[k] \in S
    PROVE  s \in Seq(S)
<1>1. Len(s) \in Nat /\ DOMAIN s = 1..Len(s) /\ s = [k \in 1..Len(s) |-> s[k]]
  BY LenProperties
<1>2. s \in [1..Len(s) -> S]
  BY <1>1
<1> QED
  BY <1>1, <1>2, IsASeq

\* Every variable of a CPU keeps its type; what its cache and its TLB hold
\* are frames that exist and contents of a page.
THEOREM CpusTipadas ==
    ASSUME Puntual PROVE MmuSpec => []MmuTypeOK
<1>1. InvMmu /\ caido \in BOOLEAN => MmuTypeOK
  <2> SUFFICES ASSUME InvMmu, caido \in BOOLEAN PROVE MmuTypeOK
    OBVIOUS
  <2>1. ASSUME NEW c \in Cpu
        PROVE  /\ cache[c] \in Seq(Entrada) /\ tlb[c] \in Seq(EntradaTlb)
               /\ puntero_clock[c] \in Nat
               /\ vaciando[c] => contexto[c] # Nadie
    <3>1. CpuSana(c) /\ CpuFiel(c) /\ InvVirtual
      BY DEF InvMmu, InvCpu, Fieles
    <3>2. /\ cache[c] \in Seq(Imagen(cache[c])) /\ tlb[c] \in Seq(Imagen(tlb[c]))
          /\ \A k \in DOMAIN cache[c] :
                EsEntrada(cache[c][k]) /\ cache[c][k].pid = contexto[c]
          /\ \A k \in DOMAIN tlb[c] :
                EsEntradaTlb(tlb[c][k]) /\ tlb[c][k].pid = contexto[c]
      BY <3>1 DEF CpuSana, CacheSana, TlbSana, Ordenada
    <3>3. /\ \A k \in DOMAIN cache[c] : cache[c][k].pid # Nadie
          /\ \A k \in DOMAIN tlb[c] : tlb[c][k].pid # Nadie
      BY <3>2, MmuAssumption DEF EsEntrada, EsEntradaTlb
    <3>4. \A i \in 1..Paginas[contexto[c]] :
             contexto[c] # Nadie => tabla[contexto[c]][i] \in Marco
      BY <3>1, EnSuMarco DEF CpuFiel
    <3>5. /\ \A k \in DOMAIN cache[c] : /\ cache[c][k].marco \in Marco
                                        /\ cache[c][k].contenido \in Valor
          /\ \A k \in DOMAIN tlb[c] : tlb[c][k].marco \in Marco
      BY <3>1, <3>2, <3>3, <3>4 DEF CpuFiel, EntradaFiel, DeSuMarco
    <3>6. /\ \A k \in DOMAIN cache[c] : cache[c][k] \in Entrada
          /\ \A k \in DOMAIN tlb[c] : tlb[c][k] \in EntradaTlb
      BY <3>2, <3>5 DEF EsEntrada, EsEntradaTlb, Entrada, EntradaTlb
    <3> QED
      BY <3>1, <3>2, <3>6, OtroConjunto DEF CpuSana, CacheSana
  <2>2. Formas
    BY DEF InvMmu, InvCpu
  <2> QED
    BY <2>1, <2>2 DEF Formas, MmuTypeOK
<1> QED
  BY <1>1, InvarianteMmu, CaidoBooleano, PTL
=============================================================================
