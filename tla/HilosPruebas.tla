---------------------------- MODULE HilosPruebas ----------------------------
(***************************************************************************)
(* Proofs about the segmented memory and the threads that use it, for any  *)
(* sizes and any numbers of patotas, of trips and of messages.             *)
(*                                                                         *)
(* First the list of segments, of any length.  A list in order (Ordenado)  *)
(* is numbered, tiles the memory and has no two free segments together.    *)
(* Creating a segment (InsertarBien), freeing one (EliminarBien) and       *)
(* compacting (CompactarBien) keep it in order, move the free bytes by the *)
(* bytes of the segment or not at all, and change what the list holds by   *)
(* one element or by the addresses.  The sums and the list that the        *)
(* compaction builds are recursive functions over the list: they are       *)
(* followed place by place with InduccionNat.                              *)
(*                                                                         *)
(* Then the memory: Sana says that the list of segments, the table of      *)
(* addresses and the list of trips agree, and each message takes a memory  *)
(* that is Sana to another (PatotaBien, TripBien, EliminarCoherente,       *)
(* CompactarSana).  Pendientes adds the bytes and the places of the trips  *)
(* that INIT_P promised, which is why INIT_T never lacks a place.          *)
(*                                                                         *)
(* Then the threads: BuenHilo says that an address that no compaction made *)
(* old is the one in the table.  Invariante is inductive, and every        *)
(* property of the run follows from it; the last section maps each step to *)
(* one of AsignadorRam.                                                    *)
(***************************************************************************)
EXTENDS HilosRam, FiniteSetTheorems, SequenceTheorems, WellFoundedInduction, TLAPS

-----------------------------------------------------------------------------
(* Induction over the naturals, for a set *)

\* A set of naturals has a smallest element.
LEMMA MenorDeNat ==
  ASSUME NEW T \in SUBSET Nat, T # {}
  PROVE  \E x \in T : \A y \in T : x <= y
<1>. DEFINE R == OpToRel(<, Nat)
<1>1. IsWellFoundedOn(R, Nat) BY NatLessThanWellFounded
<1>2. \E x \in T : \A y \in T : ~(<<y, x>> \in R)
  <2>. HIDE DEF R
  <2>. QED BY <1>1, WFMin
<1>3. PICK x \in T : \A y \in T : ~(<<y, x>> \in R) BY <1>2
<1>4. ASSUME NEW y \in T PROVE x <= y
  <2>1. ~(y < x) BY <1>3 DEF OpToRel
  <2>. QED BY <2>1
<1>. QED BY <1>4

\* Induction over the naturals, for a set: the sums and the lists that the model builds
\* recursively are followed place by place with it.
LEMMA InduccionNat ==
  ASSUME NEW S, 0 \in S, \A n \in Nat : n \in S => n + 1 \in S
  PROVE  \A n \in Nat : n \in S
<1>. DEFINE T == {n \in Nat : n \notin S}
<1>1. SUFFICES ASSUME T # {} PROVE FALSE OBVIOUS
<1>2. PICK x \in T : \A y \in T : x <= y
  <2>1. T \in SUBSET Nat OBVIOUS
  <2>. HIDE DEF T
  <2>. QED BY <1>1, <2>1, MenorDeNat
<1>3. x \in Nat /\ x # 0 /\ x - 1 \in Nat OBVIOUS
<1>4. x - 1 \in S BY <1>2, <1>3
<1>5. (x - 1) + 1 \in S BY <1>3, <1>4
<1>. QED BY <1>3, <1>5

-----------------------------------------------------------------------------
(* Sums of sizes *)

\* a segment of the list, with the type of its fields
Seg == [n_segmento : Nat, inicio : Nat, tamanio : Nat, duenio : Nat, indice : Nat, puntero : Nat]

\* The recursive sum of SumaTamanios exists: it is the last of the partial sums.
LEMMA SumaParcial ==
  ASSUME NEW s \in Seq(Seg), NEW S
  PROVE  \E f : /\ f \in [0 .. Len(s) -> Nat] /\ f[0] = 0
                /\ \A i \in 1 .. Len(s) : f[i] = f[i - 1] + (IF i \in S THEN s[i].tamanio ELSE 0)
                /\ SumaTamanios(s, S) = f[Len(s)]
<1>. DEFINE n == Len(s)
            Aporte(i) == IF i \in S THEN s[i].tamanio ELSE 0
            Hasta(k, f) == /\ f \in [0 .. k -> Nat] /\ f[0] = 0
                           /\ \A i \in 1 .. k : f[i] = f[i - 1] + Aporte(i)
            I == {k \in Nat : k <= n => \E f : Hasta(k, f)}
<1>0. n \in Nat /\ \A i \in 1 .. n : Aporte(i) \in Nat
  <2>1. \A i \in 1 .. n : s[i] \in Seg OBVIOUS
  <2>. QED BY <2>1 DEF Seg
<1>1. 0 \in I
  <2>1. Hasta(0, [i \in 0 .. 0 |-> 0]) OBVIOUS
  <2>. QED BY <2>1
<1>2. ASSUME NEW k \in Nat, k \in I PROVE k + 1 \in I
  <2>1. SUFFICES ASSUME k + 1 <= n PROVE \E f : Hasta(k + 1, f)
    <3>. HIDE DEF Hasta
    <3>. QED OBVIOUS
  <2>2. PICK f : Hasta(k, f) BY <1>2, <2>1
  <2>3. f[k] \in Nat /\ k + 1 \in 1 .. n /\ Aporte(k + 1) \in Nat BY <1>0, <2>1, <2>2
  <2>. DEFINE g == [i \in 0 .. k + 1 |-> IF i = k + 1 THEN f[k] + Aporte(k + 1) ELSE f[i]]
  <2>. HIDE DEF Aporte
  <2>4. g \in [0 .. k + 1 -> Nat] BY <2>2, <2>3
  <2>5. ASSUME NEW i \in 1 .. k + 1 PROVE g[i] = g[i - 1] + Aporte(i)
    <3>1. CASE i = k + 1
      <4>1. g[i] = f[k] + Aporte(k + 1) /\ g[i - 1] = f[k] BY <3>1
      <4>. QED BY <3>1, <4>1
    <3>2. CASE i # k + 1
      <4>1. i \in 1 .. k /\ g[i] = f[i] /\ g[i - 1] = f[i - 1] BY <3>2
      <4>. QED BY <2>2, <4>1
    <3>. QED BY <3>1, <3>2
  <2>6. g[0] = 0 BY <2>2
  <2>7. Hasta(k + 1, g) BY <2>4, <2>5, <2>6
  <2>. QED BY <2>7
<1>3. n \in I
  <2>. HIDE DEF I, n
  <2>. QED BY <1>0, <1>1, <1>2, InduccionNat
<1>4. \E f : Hasta(n, f) BY <1>0, <1>3
<1>5. PICK f : Hasta(n, f) BY <1>4
<1>. DEFINE G(g) == g = [i \in 0 .. n |-> IF i = 0 THEN 0 ELSE g[i - 1] + Aporte(i)]
<1>6. G(f) 
  <2>. HIDE DEF Aporte
  <2>. QED BY <1>5
<1>7. PICK h : h = CHOOSE g : G(g) OBVIOUS
<1>8. G(h)
  <2>. HIDE DEF G
  <2>. QED BY <1>6, <1>7
<1>9. SumaTamanios(s, S) = h[n] BY <1>7 DEF SumaTamanios
<1>10. h = f
  <2>. DEFINE J == {k \in Nat : k <= n => h[k] = f[k]}
  <2>. HIDE DEF Aporte
  <2>1. 0 \in J BY <1>5, <1>8
  <2>2. ASSUME NEW k \in Nat, k \in J PROVE k + 1 \in J
    <3>1. SUFFICES ASSUME k + 1 <= n PROVE h[k + 1] = f[k + 1] OBVIOUS
    <3>2. k + 1 \in 1 .. n /\ h[k] = f[k] BY <3>1, <2>2
    <3>3. h[k + 1] = h[k] + Aporte(k + 1) BY <1>8, <3>2
    <3>. QED BY <1>5, <3>2, <3>3
  <2>3. \A k \in Nat : k \in J
    <3>. HIDE DEF J
    <3>. QED BY <2>1, <2>2, InduccionNat
  <2>4. \A k \in 0 .. n : h[k] = f[k] BY <2>3, <1>0
  <2>. QED BY <2>4, <1>5, <1>8
<1>. QED BY <1>5, <1>9, <1>10

\* No segments have no bytes.
LEMMA SumaVacia == ASSUME NEW s \in Seq(Seg) PROVE SumaTamanios(s, {}) = 0
<1>. DEFINE n == Len(s)
<1>1. PICK f : /\ f \in [0 .. n -> Nat] /\ f[0] = 0
               /\ \A i \in 1 .. n : f[i] = f[i - 1] + (IF i \in {} THEN s[i].tamanio ELSE 0)
               /\ SumaTamanios(s, {}) = f[n]
  BY SumaParcial
<1>. DEFINE I == {k \in Nat : k <= n => f[k] = 0}
<1>2. 0 \in I BY <1>1
<1>3. ASSUME NEW k \in Nat, k \in I PROVE k + 1 \in I
  <2>1. SUFFICES ASSUME k + 1 <= n PROVE f[k + 1] = 0 OBVIOUS
  <2>2. k + 1 \in 1 .. n /\ f[k] = 0 BY <1>3, <2>1
  <2>3. f[k + 1] = f[k] + 0 BY <1>1, <2>2
  <2>. QED BY <2>2, <2>3
<1>4. n \in I
  <2>. HIDE DEF I
  <2>. QED BY <1>2, <1>3, InduccionNat
<1>. QED BY <1>1, <1>4

\* A sum of sizes is a natural.
LEMMA SumaTipo == ASSUME NEW s \in Seq(Seg), NEW S PROVE SumaTamanios(s, S) \in Nat
BY SumaParcial

\* A segment more in the sum.
LEMMA SumaMas ==
  ASSUME NEW s \in Seq(Seg), NEW S, NEW m \in 1 .. Len(s), m \notin S
  PROVE  SumaTamanios(s, S \union {m}) = SumaTamanios(s, S) + s[m].tamanio
<1>. DEFINE n == Len(s)
            T == S \union {m}
<1>0. n \in Nat /\ s[m].tamanio \in Nat
  <2>1. s[m] \in Seg OBVIOUS
  <2>. QED BY <2>1 DEF Seg
<1>1. PICK f : /\ f \in [0 .. n -> Nat] /\ f[0] = 0
               /\ \A i \in 1 .. n : f[i] = f[i - 1] + (IF i \in S THEN s[i].tamanio ELSE 0)
               /\ SumaTamanios(s, S) = f[n]
  BY SumaParcial
<1>2. PICK g : /\ g \in [0 .. n -> Nat] /\ g[0] = 0
               /\ \A i \in 1 .. n : g[i] = g[i - 1] + (IF i \in T THEN s[i].tamanio ELSE 0)
               /\ SumaTamanios(s, T) = g[n]
  <2>. HIDE DEF T
  <2>. QED BY SumaParcial
<1>. DEFINE I == {k \in Nat : k <= n => g[k] = f[k] + (IF k >= m THEN s[m].tamanio ELSE 0)}
<1>3. 0 \in I BY <1>1, <1>2
<1>4. ASSUME NEW k \in Nat, k \in I PROVE k + 1 \in I
  <2>1. SUFFICES ASSUME k + 1 <= n
                 PROVE  g[k + 1] = f[k + 1] + (IF k + 1 >= m THEN s[m].tamanio ELSE 0)
    OBVIOUS
  <2>2. k + 1 \in 1 .. n /\ f[k] \in Nat /\ g[k] \in Nat BY <1>1, <1>2, <2>1
  <2>3. g[k] = f[k] + (IF k >= m THEN s[m].tamanio ELSE 0) BY <1>4, <2>1
  <2>4. f[k + 1] = f[k] + (IF k + 1 \in S THEN s[k + 1].tamanio ELSE 0) BY <1>1, <2>2
  <2>5. g[k + 1] = g[k] + (IF k + 1 \in T THEN s[k + 1].tamanio ELSE 0) BY <1>2, <2>2
  <2>6. CASE k + 1 = m
    <3>1. g[k] = f[k] BY <2>3, <2>6, <2>2
    <3>2. f[k + 1] = f[k] BY <2>4, <2>6, <2>2
    <3>3. g[k + 1] = g[k] + s[m].tamanio BY <2>5, <2>6
    <3>. QED BY <3>1, <3>2, <3>3, <2>6
  <2>7. CASE k + 1 # m
    <3>1. k + 1 \in T <=> k + 1 \in S BY <2>7
    <3>2. k + 1 >= m <=> k >= m BY <2>7
    <3>3. s[k + 1].tamanio \in Nat
      <4>1. s[k + 1] \in Seg BY <2>2
      <4>. QED BY <4>1 DEF Seg
    <3>. HIDE DEF T
    <3>. QED BY <2>2, <2>3, <2>4, <2>5, <3>1, <3>2, <3>3, <1>0
  <2>. QED BY <2>6, <2>7
<1>5. n \in I
  <2>. HIDE DEF I
  <2>. QED BY <1>0, <1>3, <1>4, InduccionNat
<1>. QED BY <1>0, <1>1, <1>2, <1>5

\* The free bytes among the first k segments.
BytesLibres(s, k) == SumaTamanios(s, {j \in 1 .. k : EsLibre(s[j])})

\* what a segment adds to the free bytes
Aporte(x) == IF EsLibre(x) THEN x.tamanio ELSE 0

\* The free bytes up to a place are those up to the place before, and its own if it is free.
LEMMA LibresPasos ==
  ASSUME NEW s \in Seq(Seg)
  PROVE  /\ BytesLibres(s, 0) = 0
         /\ \A k \in Nat : BytesLibres(s, k) \in Nat
         /\ \A k \in 1 .. Len(s) : BytesLibres(s, k) = BytesLibres(s, k - 1) + Aporte(s[k])
<1>1. BytesLibres(s, 0) = 0
  <2>1. {j \in 1 .. 0 : EsLibre(s[j])} = {} OBVIOUS
  <2>. QED BY <2>1, SumaVacia DEF BytesLibres
<1>2. \A k \in Nat : BytesLibres(s, k) \in Nat BY SumaTipo DEF BytesLibres
<1>3. ASSUME NEW k \in 1 .. Len(s)
      PROVE  BytesLibres(s, k) = BytesLibres(s, k - 1) + Aporte(s[k])
  <2>. DEFINE antes == {j \in 1 .. k - 1 : EsLibre(s[j])}
              hasta == {j \in 1 .. k : EsLibre(s[j])}
  <2>1. BytesLibres(s, k) = SumaTamanios(s, hasta) /\ BytesLibres(s, k - 1) = SumaTamanios(s, antes)
    BY DEF BytesLibres
  <2>2. BytesLibres(s, k - 1) \in Nat BY <1>2
  <2>3. CASE EsLibre(s[k])
    <3>1. hasta = antes \union {k} /\ k \notin antes BY <2>3
    <3>. HIDE DEF hasta, antes
    <3>2. SumaTamanios(s, hasta) = SumaTamanios(s, antes) + s[k].tamanio BY <3>1, SumaMas
    <3>. QED BY <2>1, <2>3, <3>2 DEF Aporte
  <2>4. CASE ~EsLibre(s[k])
    <3>1. hasta = antes BY <2>4
    <3>2. BytesLibres(s, k) = BytesLibres(s, k - 1) BY <2>1, <3>1
    <3>3. Aporte(s[k]) = 0 BY <2>4 DEF Aporte
    <3>. QED BY <2>2, <3>2, <3>3
  <2>. QED BY <2>3, <2>4
<1>. QED BY <1>1, <1>2, <1>3

\* n places of r from b on, and n of s from a on, with the same free bytes
MismosAportes(r, b, s, a, n) == \A i \in 1 .. n : Aporte(r[b + i]) = Aporte(s[a + i])

\* Two stretches with the same free segments have the same free bytes.
LEMMA LibresTramo ==
  ASSUME NEW s \in Seq(Seg), NEW r \in Seq(Seg), NEW a \in Nat, NEW b \in Nat, NEW n \in Nat,
         a + n <= Len(s), b + n <= Len(r), MismosAportes(r, b, s, a, n)
  PROVE  BytesLibres(r, b + n) - BytesLibres(r, b) = BytesLibres(s, a + n) - BytesLibres(s, a)
<1>. DEFINE D(k) == BytesLibres(r, b + k) - BytesLibres(r, b)
                      = BytesLibres(s, a + k) - BytesLibres(s, a)
            I == {k \in Nat : k <= n => D(k)}
<1>1. 0 \in I
  <2>1. BytesLibres(r, b + 0) = BytesLibres(r, b) /\ BytesLibres(s, a + 0) = BytesLibres(s, a)
    <3>1. b + 0 = b /\ a + 0 = a OBVIOUS
    <3>. QED BY <3>1
  <2>2. BytesLibres(r, b) \in Nat /\ BytesLibres(s, a) \in Nat BY LibresPasos
  <2>3. D(0) BY <2>1, <2>2
  <2>. QED BY <2>3
<1>2. ASSUME NEW k \in Nat, k \in I PROVE k + 1 \in I
  <2>1. SUFFICES ASSUME k + 1 <= n PROVE D(k + 1) OBVIOUS
  <2>2. D(k) BY <1>2, <2>1
  <2>3. /\ b + (k + 1) \in 1 .. Len(r) /\ (b + (k + 1)) - 1 = b + k
        /\ a + (k + 1) \in 1 .. Len(s) /\ (a + (k + 1)) - 1 = a + k
    BY <2>1
  <2>4. /\ BytesLibres(r, b + (k + 1)) = BytesLibres(r, b + k) + Aporte(r[b + (k + 1)])
        /\ BytesLibres(s, a + (k + 1)) = BytesLibres(s, a + k) + Aporte(s[a + (k + 1)])
    BY <2>3, LibresPasos
  <2>5. Aporte(r[b + (k + 1)]) = Aporte(s[a + (k + 1)])
    <3>1. k + 1 \in 1 .. n BY <2>1
    <3>. QED BY <3>1 DEF MismosAportes
  <2>6. Aporte(s[a + (k + 1)]) \in Nat
    <3>1. s[a + (k + 1)] \in Seg BY <2>3
    <3>. QED BY <3>1 DEF Seg, Aporte
  <2>7. /\ BytesLibres(r, b + k) \in Nat /\ BytesLibres(s, a + k) \in Nat
        /\ BytesLibres(r, b) \in Nat /\ BytesLibres(s, a) \in Nat
    <3>1. b + k \in Nat /\ a + k \in Nat OBVIOUS
    <3>. QED BY <3>1, LibresPasos
  <2>8. PICK x, y, z, w, v : /\ x = BytesLibres(r, b + k) /\ y = BytesLibres(s, a + k)
                             /\ z = BytesLibres(r, b) /\ w = BytesLibres(s, a)
                             /\ v = Aporte(s[a + (k + 1)])
    OBVIOUS
  <2>9. BytesLibres(r, b + (k + 1)) - z = BytesLibres(s, a + (k + 1)) - w
    <3>1. x - z = y - w BY <2>2, <2>8
    <3>2. BytesLibres(r, b + (k + 1)) = x + v /\ BytesLibres(s, a + (k + 1)) = y + v
      BY <2>4, <2>5, <2>8
    <3>3. x \in Nat /\ y \in Nat /\ z \in Nat /\ w \in Nat /\ v \in Nat BY <2>6, <2>7, <2>8
    <3>4. (x + v) - z = (y + v) - w BY <3>1, <3>3
    <3>. QED BY <3>2, <3>4
  <2>. QED BY <2>8, <2>9
<1>3. n \in I
  <2>. HIDE DEF I
  <2>. QED BY <1>1, <1>2, InduccionNat
<1>. QED BY <1>3

-----------------------------------------------------------------------------
(* The order of the list *)

\* where the i-th segment ends
Fin(s, i) == IF i = 0 THEN 0 ELSE s[i].inicio + s[i].tamanio

\* The segments are numbered, one begins where the one before ends, they fill the
\* memory, only the last, when it is free, may be empty, and a free one points nowhere.
Limpio(x) == EsLibre(x) => x.indice = 0 /\ x.puntero = 0
Casi(s) ==
  /\ s \in Seq(Seg) /\ Len(s) >= 1
  /\ \A i \in 1 .. Len(s) :
       /\ s[i].n_segmento = i - 1
       /\ s[i].inicio = Fin(s, i - 1)
       /\ s[i].tamanio = 0 => EsLibre(s[i]) /\ i = Len(s)
       /\ Limpio(s[i])
  /\ Fin(s, Len(s)) = TAMANIO_MEMORIA

\* No two free segments are together.
Fundido(s) == \A i \in 1 .. Len(s) - 1 : ~(EsLibre(s[i]) /\ EsLibre(s[i + 1]))

\* what Teselado says of the list, in the form that the operations keep
Ordenado(s) == Casi(s) /\ Fundido(s)

\* The fields of a segment of the list are naturals.
LEMMA SegTipo ==
  ASSUME NEW s \in Seq(Seg), NEW i \in 1 .. Len(s)
  PROVE  /\ s[i] \in Seg
         /\ s[i].n_segmento \in Nat /\ s[i].inicio \in Nat /\ s[i].tamanio \in Nat
         /\ s[i].duenio \in Nat /\ s[i].indice \in Nat /\ s[i].puntero \in Nat
         /\ Fin(s, i) \in Nat
         /\ Aporte(s[i]) \in Nat
<1>1. s[i] \in Seg OBVIOUS
<1>2. /\ s[i].n_segmento \in Nat /\ s[i].inicio \in Nat /\ s[i].tamanio \in Nat
      /\ s[i].duenio \in Nat /\ s[i].indice \in Nat /\ s[i].puntero \in Nat
  BY <1>1 DEF Seg
<1>3. Fin(s, i) \in Nat BY <1>2 DEF Fin
<1>4. Aporte(s[i]) \in Nat BY <1>2 DEF Aporte
<1>. QED BY <1>1, <1>2, <1>3, <1>4

\* A segment begins where every one before it has ended.
LEMMA Crece ==
  ASSUME NEW s, Casi(s), NEW i \in 1 .. Len(s), NEW j \in 1 .. Len(s), i < j
  PROVE  Fin(s, i) <= s[j].inicio
<1>0. s \in Seq(Seg) BY DEF Casi
<1>. DEFINE I == {k \in Nat : i + 1 + k <= Len(s) => Fin(s, i) <= s[i + 1 + k].inicio}
<1>1. 0 \in I
  <2>1. SUFFICES ASSUME i + 1 <= Len(s) PROVE Fin(s, i) <= s[i + 1].inicio
    <3>1. i + 1 + 0 = i + 1 OBVIOUS
    <3>. QED BY <3>1
  <2>2. s[i + 1].inicio = Fin(s, i)
    <3>1. i + 1 \in 1 .. Len(s) /\ (i + 1) - 1 = i BY <2>1
    <3>. QED BY <3>1 DEF Casi
  <2>. QED BY <2>2, <1>0, SegTipo
<1>2. ASSUME NEW k \in Nat, k \in I PROVE k + 1 \in I
  <2>. DEFINE m == i + 1 + k
  <2>1. SUFFICES ASSUME m + 1 <= Len(s) PROVE Fin(s, i) <= s[m + 1].inicio
    <3>1. i + 1 + (k + 1) = m + 1 OBVIOUS
    <3>. QED BY <3>1
  <2>2. Fin(s, i) <= s[m].inicio BY <1>2, <2>1
  <2>3. m \in 1 .. Len(s) /\ m + 1 \in 1 .. Len(s) /\ (m + 1) - 1 = m /\ m # 0 BY <2>1
  <2>. HIDE DEF m
  <2>4. s[m + 1].inicio = Fin(s, m) BY <2>3 DEF Casi
  <2>5. Fin(s, m) = s[m].inicio + s[m].tamanio BY <2>3 DEF Fin
  <2>6. s[m].inicio \in Nat /\ s[m].tamanio \in Nat /\ Fin(s, i) \in Nat
    BY <2>3, <1>0, SegTipo
  <2>. QED BY <2>2, <2>4, <2>5, <2>6
<1>3. j - (i + 1) \in Nat /\ i + 1 + (j - (i + 1)) = j OBVIOUS
<1>4. j - (i + 1) \in I
  <2>. HIDE DEF I
  <2>. QED BY <1>1, <1>2, <1>3, InduccionNat
<1>. QED BY <1>3, <1>4

\* Every segment is inside the memory.
LEMMA Dentro ==
  ASSUME NEW s, Casi(s), NEW i \in 1 .. Len(s)
  PROVE  Fin(s, i) <= TAMANIO_MEMORIA /\ s[i].inicio <= TAMANIO_MEMORIA
                                      /\ s[i].tamanio <= TAMANIO_MEMORIA
<1>0. s \in Seq(Seg) /\ Len(s) \in 1 .. Len(s) /\ Fin(s, Len(s)) = TAMANIO_MEMORIA BY DEF Casi
<1>1. Fin(s, i) <= TAMANIO_MEMORIA
  <2>1. CASE i = Len(s)
    <3>1. Fin(s, i) \in Nat BY <1>0, SegTipo
    <3>. QED BY <3>1, <2>1, <1>0
  <2>2. CASE i # Len(s)
    <3>1. Fin(s, i) <= s[Len(s)].inicio BY <2>2, <1>0, Crece
    <3>2. Fin(s, Len(s)) = s[Len(s)].inicio + s[Len(s)].tamanio BY <1>0 DEF Fin
    <3>3. s[Len(s)].inicio \in Nat /\ s[Len(s)].tamanio \in Nat /\ Fin(s, i) \in Nat
      BY <1>0, SegTipo
    <3>. QED BY <3>1, <3>2, <3>3, <1>0
  <2>. QED BY <2>1, <2>2
<1>2. Fin(s, i) = s[i].inicio + s[i].tamanio BY DEF Fin
<1>3. s[i].inicio \in Nat /\ s[i].tamanio \in Nat BY <1>0, SegTipo
<1>. QED BY <1>1, <1>2, <1>3, MemoriaValida

\* No other segment begins where an occupied one does.
LEMMA InicioUnico ==
  ASSUME NEW s, Casi(s), NEW i \in 1 .. Len(s), Ocupado(s[i]),
         NEW j \in 1 .. Len(s), s[j].inicio = s[i].inicio
  PROVE  j = i
<1>0. s \in Seq(Seg) BY DEF Casi
<1>1. /\ s[i].inicio \in Nat /\ s[i].tamanio \in Nat /\ s[j].inicio \in Nat /\ s[j].tamanio \in Nat
      /\ Fin(s, i) = s[i].inicio + s[i].tamanio /\ Fin(s, j) = s[j].inicio + s[j].tamanio
  BY <1>0, SegTipo DEF Fin
<1>2. s[i].tamanio # 0 BY DEF Casi, Ocupado, EsLibre
<1>3. ASSUME i < j PROVE FALSE
  <2>1. Fin(s, i) <= s[j].inicio BY <1>3, Crece
  <2>. QED BY <2>1, <1>1, <1>2
<1>4. ASSUME j < i PROVE FALSE
  <2>1. Fin(s, j) <= s[i].inicio BY <1>4, Crece
  <2>2. s[j].tamanio # 0
    <3>1. j # Len(s) BY <1>4
    <3>. QED BY <3>1 DEF Casi
  <2>. QED BY <2>1, <2>2, <1>1
<1>. QED BY <1>3, <1>4

\* segmento_desde_inicio finds the segment of an element by its address.
LEMMA DesdeInicioUnico ==
  ASSUME NEW s, Casi(s), NEW i \in 1 .. Len(s), Ocupado(s[i])
  PROVE  DesdeInicio(s, s[i].inicio) = i
<1>0. s \in Seq(Seg) /\ DOMAIN s = 1 .. Len(s) BY DEF Casi
<1>1. {j \in DOMAIN s : s[j].inicio = s[i].inicio} = {i} BY <1>0, InicioUnico
<1>2. Min({i}) = i BY DEF Min
<1>. QED BY <1>1, <1>2 DEF DesdeInicio

-----------------------------------------------------------------------------
(* Creating a segment *)

\* The minimum of a set of naturals is in it.
LEMMA MinimoDe ==
  ASSUME NEW T \in SUBSET Nat, T # {}
  PROVE  Min(T) \in T
<1>1. \E x \in T : \A y \in T : x <= y BY MenorDeNat
<1>. QED BY <1>1 DEF Min

\* And the maximum of a bounded one.
LEMMA MaximoDe ==
  ASSUME NEW n \in Nat, NEW T \in SUBSET (0 .. n), T # {}
  PROVE  Max(T) \in T
<1>. DEFINE U == {n - x : x \in T}
<1>1. U \in SUBSET Nat /\ U # {}
  <2>1. \A x \in T : n - x \in Nat OBVIOUS
  <2>. QED BY <2>1
<1>2. PICK u \in U : \A v \in U : u <= v
  <2>. HIDE DEF U
  <2>. QED BY <1>1, MenorDeNat
<1>3. PICK x \in T : u = n - x BY <1>2
<1>4. ASSUME NEW y \in T PROVE x >= y
  <2>1. n - y \in U OBVIOUS
  <2>2. u <= n - y BY <1>2, <2>1
  <2>. QED BY <2>2, <1>3
<1>5. \E z \in T : \A y \in T : z >= y BY <1>4
<1>. QED BY <1>5 DEF Max

\* First fit and best fit choose one of the free segments that are large enough.
LEMMA ElegidoApto ==
  ASSUME NEW s \in Seq(Seg), NEW tam, Aptos(s, tam) # {}
  PROVE  Elegido(s, tam) \in Aptos(s, tam)
<1>. DEFINE aptos == Aptos(s, tam)
            menores == {i \in aptos : \A j \in aptos : s[i].tamanio <= s[j].tamanio}
            tams == {s[i].tamanio : i \in aptos}
<1>1. aptos \subseteq 1 .. Len(s) BY DEF Aptos
<1>2. aptos \in SUBSET Nat /\ aptos \in SUBSET (0 .. Len(s)) /\ aptos # {} /\ Len(s) \in Nat BY <1>1
<1>3. \A i \in aptos : s[i].tamanio \in Nat BY <1>1, SegTipo
<1>4. tams \in SUBSET Nat /\ tams # {} 
  <2>. HIDE DEF aptos
  <2>. QED BY <1>2, <1>3
<1>5. PICK x \in tams : \A y \in tams : x <= y
  <2>. HIDE DEF tams
  <2>. QED BY <1>4, MenorDeNat
<1>6. menores # {}
  <2>. HIDE DEF aptos
  <2>1. PICK i \in aptos : x = s[i].tamanio BY <1>5
  <2>2. \A j \in aptos : s[i].tamanio <= s[j].tamanio BY <1>5, <2>1
  <2>. QED BY <2>2
<1>7. menores \in SUBSET (0 .. Len(s)) /\ menores \subseteq aptos BY <1>2
<1>8. Max(menores) \in aptos
  <2>. HIDE DEF aptos, menores
  <2>. QED BY <1>2, <1>6, <1>7, MaximoDe
<1>9. Min(aptos) \in aptos
  <2>. HIDE DEF aptos
  <2>. QED BY <1>2, MinimoDe
<1>10. Elegido(s, tam) = IF criterio_seleccion = "FIRST_FIT" THEN Min(aptos) ELSE Max(menores)
  BY DEF Elegido
<1>. HIDE DEF aptos, menores
<1>11. Elegido(s, tam) \in aptos BY <1>8, <1>9, <1>10
<1>. QED BY <1>11 DEF aptos

\* Functions on 1 .. n and sequences.
LEMMA FuncionSeq ==
  ASSUME NEW U, NEW n \in Nat, NEW f \in [1 .. n -> U]
  PROVE  f \in Seq(U) /\ Len(f) = n
OBVIOUS

\* A sequence is the function of its places.
LEMMA SeqFuncion ==
  ASSUME NEW U, NEW f \in Seq(U)
  PROVE  f = [i \in 1 .. Len(f) |-> f[i]] /\ Len(f) \in Nat
OBVIOUS

\* InsertAt and RemoveAt, element by element.
LEMMA InsertarEn ==
  ASSUME NEW U, NEW s \in Seq(U), NEW e \in 1 .. Len(s), NEW x \in U
  PROVE  /\ InsertAt(s, e, x) \in Seq(U) /\ Len(InsertAt(s, e, x)) = Len(s) + 1
         /\ \A i \in 1 .. Len(s) + 1 :
              InsertAt(s, e, x)[i] = IF i < e THEN s[i] ELSE IF i = e THEN x ELSE s[i - 1]
<1>. DEFINE n == Len(s)
            a == SubSeq(s, 1, e - 1)
            b == SubSeq(s, e, n)
<1>0. n \in Nat /\ \A i \in 1 .. n : s[i] \in U BY LenProperties, ElementOfSeq
<1>1. /\ a \in Seq(U) /\ Len(a) = e - 1 /\ \A i \in 1 .. e - 1 : a[i] = s[i]
  <2>1. \A i \in 1 .. e - 1 : s[i] \in U BY <1>0
  <2>2. /\ a \in Seq(U) /\ Len(a) = IF 1 <= e - 1 THEN (e - 1) - 1 + 1 ELSE 0
        /\ \A i \in 1 .. (e - 1) - 1 + 1 : a[i] = s[1 + i - 1]
    BY <2>1, SubSeqProperties
  <2>. HIDE DEF a
  <2>3. \A i \in 1 .. e - 1 : i \in 1 .. (e - 1) - 1 + 1 /\ 1 + i - 1 = i OBVIOUS
  <2>4. Len(a) = e - 1 BY <2>2
  <2>. QED BY <2>2, <2>3, <2>4
<1>2. /\ b \in Seq(U) /\ Len(b) = n - e + 1 /\ \A i \in 1 .. n - e + 1 : b[i] = s[e + i - 1]
  <2>1. \A i \in e .. n : s[i] \in U BY <1>0
  <2>2. /\ b \in Seq(U) /\ Len(b) = IF e <= n THEN n - e + 1 ELSE 0
        /\ \A i \in 1 .. n - e + 1 : b[i] = s[e + i - 1]
    BY <2>1, <1>0, SubSeqProperties
  <2>. QED BY <2>2
<1>3. InsertAt(s, e, x) = (a \o <<x>>) \o b BY DEF InsertAt
<1>. HIDE DEF a, b, n
<1>4. <<x>> \in Seq(U) /\ Len(<<x>>) = 1 /\ <<x>>[1] = x OBVIOUS
<1>5. PICK c : c = a \o <<x>> OBVIOUS
<1>6. /\ c \in Seq(U) /\ Len(c) = e
      /\ \A i \in 1 .. e : c[i] = IF i <= e - 1 THEN a[i] ELSE <<x>>[i - (e - 1)]
  BY <1>1, <1>4, <1>5, ConcatProperties
<1>7. \A i \in 1 .. e : c[i] = IF i < e THEN s[i] ELSE x BY <1>6, <1>1, <1>4
<1>8. /\ c \o b \in Seq(U) /\ Len(c \o b) = e + (n - e + 1)
      /\ \A i \in 1 .. e + (n - e + 1) : (c \o b)[i] = IF i <= e THEN c[i] ELSE b[i - e]
  <2>1. /\ c \o b \in Seq(U) /\ Len(c \o b) = Len(c) + Len(b)
        /\ \A i \in 1 .. Len(c) + Len(b) : (c \o b)[i] = IF i <= Len(c) THEN c[i] ELSE b[i - Len(c)]
    BY <1>6, <1>2, ConcatProperties
  <2>. QED BY <2>1, <1>6, <1>2
<1>9. e + (n - e + 1) = n + 1 BY <1>0
<1>10. ASSUME NEW i \in 1 .. n + 1
       PROVE  (c \o b)[i] = IF i < e THEN s[i] ELSE IF i = e THEN x ELSE s[i - 1]
  <2>1. CASE i <= e BY <2>1, <1>7, <1>8, <1>9
  <2>2. CASE ~(i <= e)
    <3>1. i - e \in 1 .. n - e + 1 /\ e + (i - e) - 1 = i - 1 BY <2>2, <1>0
    <3>2. (c \o b)[i] = b[i - e] BY <2>2, <1>8, <1>9
    <3>3. b[i - e] = s[i - 1] BY <1>2, <3>1
    <3>. QED BY <2>2, <3>2, <3>3
  <2>. QED BY <2>1, <2>2
<1>. QED BY <1>3, <1>5, <1>8, <1>9, <1>10 DEF n

\* RemoveAt takes the place e out, and the ones after it move back.
LEMMA SacarDe ==
  ASSUME NEW U, NEW s \in Seq(U), NEW e \in 1 .. Len(s)
  PROVE  /\ RemoveAt(s, e) \in Seq(U) /\ Len(RemoveAt(s, e)) = Len(s) - 1
         /\ \A i \in 1 .. Len(s) - 1 : RemoveAt(s, e)[i] = IF i < e THEN s[i] ELSE s[i + 1]
<1>. DEFINE n == Len(s)
            a == SubSeq(s, 1, e - 1)
            b == SubSeq(s, e + 1, n)
<1>0. n \in Nat /\ \A i \in 1 .. n : s[i] \in U BY LenProperties, ElementOfSeq
<1>1. /\ a \in Seq(U) /\ Len(a) = e - 1 /\ \A i \in 1 .. e - 1 : a[i] = s[i]
  <2>1. \A i \in 1 .. e - 1 : s[i] \in U BY <1>0
  <2>2. /\ a \in Seq(U) /\ Len(a) = IF 1 <= e - 1 THEN (e - 1) - 1 + 1 ELSE 0
        /\ \A i \in 1 .. (e - 1) - 1 + 1 : a[i] = s[1 + i - 1]
    BY <2>1, SubSeqProperties
  <2>. HIDE DEF a
  <2>3. \A i \in 1 .. e - 1 : i \in 1 .. (e - 1) - 1 + 1 /\ 1 + i - 1 = i OBVIOUS
  <2>4. Len(a) = e - 1 BY <2>2
  <2>. QED BY <2>2, <2>3, <2>4
<1>2. /\ b \in Seq(U) /\ Len(b) = n - e /\ \A i \in 1 .. n - e : b[i] = s[e + i]
  <2>1. \A i \in e + 1 .. n : s[i] \in U BY <1>0
  <2>2. /\ b \in Seq(U) /\ Len(b) = IF e + 1 <= n THEN n - (e + 1) + 1 ELSE 0
        /\ \A i \in 1 .. n - (e + 1) + 1 : b[i] = s[e + 1 + i - 1]
    BY <2>1, <1>0, SubSeqProperties
  <2>. HIDE DEF b
  <2>3. n - (e + 1) + 1 = n - e BY <1>0
  <2>4. \A i \in 1 .. n - e : e + 1 + i - 1 = e + i BY <1>0
  <2>5. Len(b) = n - e BY <2>2, <1>0
  <2>. QED BY <2>2, <2>3, <2>4, <2>5
<1>3. RemoveAt(s, e) = a \o b BY DEF RemoveAt
<1>. HIDE DEF a, b, n
<1>4. /\ a \o b \in Seq(U) /\ Len(a \o b) = (e - 1) + (n - e)
      /\ \A i \in 1 .. (e - 1) + (n - e) : (a \o b)[i] = IF i <= e - 1 THEN a[i] ELSE b[i - (e - 1)]
  <2>1. /\ a \o b \in Seq(U) /\ Len(a \o b) = Len(a) + Len(b)
        /\ \A i \in 1 .. Len(a) + Len(b) : (a \o b)[i] = IF i <= Len(a) THEN a[i] ELSE b[i - Len(a)]
    BY <1>1, <1>2, ConcatProperties
  <2>. QED BY <2>1, <1>1, <1>2
<1>5. (e - 1) + (n - e) = n - 1 BY <1>0
<1>6. ASSUME NEW i \in 1 .. n - 1
       PROVE  (a \o b)[i] = IF i < e THEN s[i] ELSE s[i + 1]
  <2>1. CASE i < e BY <2>1, <1>1, <1>4, <1>5
  <2>2. CASE ~(i < e)
    <3>1. i - (e - 1) \in 1 .. n - e /\ e + (i - (e - 1)) = i + 1 BY <2>2, <1>0
    <3>2. (a \o b)[i] = b[i - (e - 1)] BY <2>2, <1>4, <1>5
    <3>3. b[i - (e - 1)] = s[i + 1] BY <1>2, <3>1
    <3>. QED BY <2>2, <3>2, <3>3
  <2>. QED BY <2>1, <2>2
<1>. QED BY <1>3, <1>4, <1>5, <1>6 DEF n

\* What crear_segmento does to the list: the new segment takes the beginning of the
\* chosen one, or all of it.
Renumerado(x, n) == [x EXCEPT !.n_segmento = n]
Resto(x, n, tam) == [x EXCEPT !.n_segmento = n, !.inicio = @ + tam, !.tamanio = @ - tam]
Cambiado(s, e, x) == [i \in 1 .. Len(s) |-> IF i = e THEN x ELSE s[i]]
Partido(s, e, x, y) ==
  [i \in 1 .. Len(s) + 1 |-> IF i < e THEN s[i]
                             ELSE IF i = e THEN x
                             ELSE IF i = e + 1 THEN y
                             ELSE Renumerado(s[i - 1], i - 1)]

\* Insertar, element by element: the chosen segment becomes the new one, or the new one
\* and what is left of it.
LEMMA InsertarForma ==
  ASSUME NEW s, Casi(s), NEW tam \in Nat \ {0}, NEW d, NEW k,
         NEW e \in 1 .. Len(s), e = Elegido(s, tam), EsLibre(s[e]), s[e].tamanio >= tam,
         NEW x, x = Segmento(e - 1, s[e].inicio, tam, d, k),
         NEW y, y = Resto(s[e], e, tam)
  PROVE  \/ s[e].tamanio = tam /\ Insertar(s, tam, d, k) = Cambiado(s, e, x)
         \/ s[e].tamanio > tam /\ Insertar(s, tam, d, k) = Partido(s, e, x, y)
<1>0. s \in Seq(Seg) /\ s[e].n_segmento = e - 1 /\ DOMAIN s = 1 .. Len(s) /\ Len(s) \in Nat BY DEF Casi
<1>. DEFINE nuevo == Segmento(e - 1, s[e].inicio, tam, d, k)
            con == InsertAt(s, e, nuevo)
            n == Len(s)
            resto == SubSeq(con, e + 2, n + 1)
            movido == [s[e] EXCEPT !.n_segmento = @ + 1, !.inicio = @ + tam, !.tamanio = @ - tam]
            cola == [i \in DOMAIN resto |-> [resto[i] EXCEPT !.n_segmento = @ + 1]]
            r == Insertar(s, tam, d, k)
            U == Seg \union {nuevo}
<1>1. Segmento(s[e].n_segmento, s[e].inicio, tam, d, k) = nuevo BY <1>0
<1>2. s[e].n_segmento + 1 = e BY <1>0
<1>4. s \in Seq(U) /\ nuevo \in U BY <1>0, SeqMonotonic
<1>5. /\ con \in Seq(U) /\ Len(con) = n + 1
      /\ \A i \in 1 .. n + 1 : con[i] = IF i < e THEN s[i] ELSE IF i = e THEN nuevo ELSE s[i - 1]
  <2>. HIDE DEF nuevo, U
  <2>. QED BY <1>4, InsertarEn
<1>6. con[e + 1] = s[e] BY <1>5
<1>7. r = SubSeq(con, 1, e) \o
             IF s[e].tamanio = tam THEN resto ELSE <<movido>> \o cola
  BY <1>1, <1>2, <1>5, <1>6 DEF Insertar
<1>8. /\ resto \in Seq(U) /\ Len(resto) = n - e
      /\ \A i \in 1 .. n - e : resto[i] = s[e + i]
  <2>. HIDE DEF con, U
  <2>1. \A i \in e + 2 .. n + 1 : con[i] \in U BY <1>5, ElementOfSeq
  <2>2. /\ resto \in Seq(U) /\ Len(resto) = IF e + 2 <= n + 1 THEN n + 1 - (e + 2) + 1 ELSE 0
        /\ \A i \in 1 .. n + 1 - (e + 2) + 1 : resto[i] = con[e + 2 + i - 1]
    <3>1. PICK a, b : a = e + 2 /\ b = n + 1 OBVIOUS
    <3>2. a \in Int /\ b \in Int /\ \A i \in a .. b : con[i] \in U BY <3>1, <2>1, <1>0
    <3>3. /\ SubSeq(con, a, b) \in Seq(U)
          /\ Len(SubSeq(con, a, b)) = IF a <= b THEN b - a + 1 ELSE 0
          /\ \A i \in 1 .. b - a + 1 : SubSeq(con, a, b)[i] = con[a + i - 1]
      BY <3>2, SubSeqProperties
    <3>. QED BY <3>1, <3>3
  <2>. HIDE DEF resto
  <2>3. Len(resto) = n - e BY <2>2, <1>0
  <2>4. ASSUME NEW i \in 1 .. n - e PROVE resto[i] = s[e + i]
    <3>1. resto[i] = con[e + 2 + i - 1] BY <2>2, <1>0
    <3>2. e + 2 + i - 1 \in 1 .. n + 1 /\ ~(e + 2 + i - 1 < e) /\ e + 2 + i - 1 # e
          /\ (e + 2 + i - 1) - 1 = e + i
      BY <1>0
    <3>. QED BY <3>1, <3>2, <1>5
  <2>. QED BY <2>2, <2>3, <2>4
<1>9. /\ SubSeq(con, 1, e) \in Seq(U) /\ Len(SubSeq(con, 1, e)) = e
      /\ \A i \in 1 .. e : SubSeq(con, 1, e)[i] = IF i < e THEN s[i] ELSE nuevo
  <2>. HIDE DEF con, U, nuevo
  <2>1. \A i \in 1 .. e : con[i] \in U BY <1>5, ElementOfSeq
  <2>2. /\ SubSeq(con, 1, e) \in Seq(U)
        /\ Len(SubSeq(con, 1, e)) = IF 1 <= e THEN e - 1 + 1 ELSE 0
        /\ \A i \in 1 .. e - 1 + 1 : SubSeq(con, 1, e)[i] = con[1 + i - 1]
    BY <2>1, <1>0, SubSeqProperties
  <2>3. ASSUME NEW i \in 1 .. e PROVE SubSeq(con, 1, e)[i] = con[i]
    <3>1. i \in 1 .. e - 1 + 1 /\ 1 + i - 1 = i OBVIOUS
    <3>. QED BY <2>2, <3>1
  <2>4. \A i \in 1 .. e : con[i] = IF i < e THEN s[i] ELSE nuevo
    <3>1. \A i \in 1 .. e : i \in 1 .. n + 1 BY <1>0
    <3>. QED BY <3>1, <1>5
  <2>5. Len(SubSeq(con, 1, e)) = e BY <2>2
  <2>. QED BY <2>2, <2>3, <2>4, <2>5
<1>10. CASE s[e].tamanio = tam
  <2>. DEFINE p == SubSeq(con, 1, e)
              f == [i \in 1 .. n |-> IF i = e THEN nuevo ELSE s[i]]
  <2>1. r = p \o resto BY <1>7, <1>10
  <2>. HIDE DEF r, p, resto, nuevo, U, con
  <2>2. /\ r \in Seq(U) /\ Len(r) = Len(p) + Len(resto)
        /\ \A i \in 1 .. Len(p) + Len(resto) : r[i] = IF i <= Len(p) THEN p[i] ELSE resto[i - Len(p)]
    <3>1. p \in Seq(U) /\ resto \in Seq(U) BY <1>8, <1>9 DEF p
    <3>. QED BY <2>1, <3>1, ConcatProperties
  <2>3. Len(p) = e /\ Len(resto) = n - e /\ \A i \in 1 .. e : p[i] = IF i < e THEN s[i] ELSE nuevo
    BY <1>8, <1>9 DEF p
  <2>4. Len(r) = n BY <2>2, <2>3, <1>0
  <2>5. ASSUME NEW i \in 1 .. n PROVE r[i] = f[i]
    <3>1. CASE i <= e BY <3>1, <2>2, <2>3, <2>5, <1>0
    <3>2. CASE ~(i <= e)
      <4>1. i - e \in 1 .. n - e /\ e + (i - e) = i BY <3>2, <1>0
      <4>2. resto[i - e] = s[i] BY <1>8, <4>1
      <4>. QED BY <3>2, <4>2, <2>2, <2>3, <1>0
    <3>. QED BY <3>1, <3>2
  <2>6. r = f
    <3>1. r = [i \in 1 .. n |-> r[i]] BY <2>2, <2>4, SeqFuncion
    <3>. QED BY <3>1, <2>5
  <2>. QED BY <1>10, <2>6 DEF r, nuevo, Cambiado
<1>11. CASE s[e].tamanio > tam
  <2>. DEFINE p == SubSeq(con, 1, e)
              q == <<movido>> \o cola
              f == [i \in 1 .. n + 1 |->
                         IF i < e THEN s[i]
                         ELSE IF i = e THEN nuevo
                         ELSE IF i = e + 1 THEN movido
                         ELSE Renumerado(s[i - 1], i - 1)]
  <2>1. r = p \o q
    <3>1. s[e].tamanio # tam BY <1>11
    <3>. QED BY <1>7, <3>1
  <2>2. movido \in U
    <3>1. s[e] \in Seg /\ s[e].n_segmento + 1 \in Nat /\ s[e].inicio + tam \in Nat
          /\ s[e].tamanio - tam \in Nat
      <4>1. /\ s[e] \in Seg /\ s[e].n_segmento \in Nat /\ s[e].inicio \in Nat
            /\ s[e].tamanio \in Nat
        BY <1>0, SegTipo
      <4>. QED BY <4>1, <1>11
    <3>2. movido \in Seg BY <3>1 DEF Seg
    <3>. QED BY <3>2
  <2>3. /\ cola \in Seq(U) /\ Len(cola) = n - e
        /\ \A i \in 1 .. n - e : cola[i] = [s[e + i] EXCEPT !.n_segmento = @ + 1]
    <3>. HIDE DEF resto, nuevo
    <3>1. DOMAIN resto = 1 .. n - e BY <1>8
    <3>2. \A i \in 1 .. n - e : cola[i] = [s[e + i] EXCEPT !.n_segmento = @ + 1] BY <1>8, <3>1
    <3>3. ASSUME NEW i \in 1 .. n - e PROVE cola[i] \in U
      <4>1. e + i \in 1 .. n BY <1>0
      <4>2. s[e + i] \in Seg /\ s[e + i].n_segmento + 1 \in Nat
        <5>1. s[e + i] \in Seg /\ s[e + i].n_segmento \in Nat BY <1>0, <4>1, SegTipo
        <5>. QED BY <5>1
      <4>3. [s[e + i] EXCEPT !.n_segmento = @ + 1] \in Seg BY <4>2 DEF Seg
      <4>. QED BY <3>2, <4>3
    <3>4. n - e \in Nat BY <1>0
    <3>5. cola \in [1 .. n - e -> U]
      <4>1. cola = [i \in 1 .. n - e |-> cola[i]] BY <3>1
      <4>. HIDE DEF cola
      <4>. QED BY <4>1, <3>3
    <3>. HIDE DEF cola, U
    <3>. QED BY <3>2, <3>4, <3>5, FuncionSeq
  <2>. HIDE DEF r, p, q, resto, nuevo, U, con, movido, cola
  <2>4. /\ q \in Seq(U) /\ Len(q) = 1 + (n - e)
        /\ \A i \in 1 .. 1 + (n - e) : q[i] = IF i <= 1 THEN movido ELSE cola[i - 1]
    <3>1. <<movido>> \in Seq(U) /\ Len(<<movido>>) = 1 /\ <<movido>>[1] = movido BY <2>2
    <3>2. /\ q \in Seq(U) /\ Len(q) = Len(<<movido>>) + Len(cola)
          /\ \A i \in 1 .. Len(<<movido>>) + Len(cola) :
               q[i] = IF i <= Len(<<movido>>) THEN <<movido>>[i] ELSE cola[i - Len(<<movido>>)]
      BY <3>1, <2>3, ConcatProperties DEF q
    <3>. QED BY <3>1, <3>2, <2>3
  <2>5. /\ r \in Seq(U) /\ Len(r) = Len(p) + Len(q)
        /\ \A i \in 1 .. Len(p) + Len(q) : r[i] = IF i <= Len(p) THEN p[i] ELSE q[i - Len(p)]
    <3>1. p \in Seq(U) BY <1>9 DEF p
    <3>. QED BY <2>1, <2>4, <3>1, ConcatProperties
  <2>6. Len(p) = e /\ \A i \in 1 .. e : p[i] = IF i < e THEN s[i] ELSE nuevo
    BY <1>9 DEF p
  <2>7. Len(r) = n + 1 BY <2>5, <2>6, <2>4, <1>0
  <2>8. ASSUME NEW i \in 1 .. n + 1 PROVE r[i] = f[i]
    <3>0. r[i] = IF i <= e THEN p[i] ELSE q[i - e] BY <2>5, <2>6, <2>7
    <3>1. CASE i <= e
      <4>1. r[i] = p[i] BY <3>0, <3>1
      <4>. QED BY <4>1, <3>1, <2>6
    <3>2. CASE i = e + 1
      <4>1. i - e = 1 /\ 1 \in 1 .. 1 + (n - e) /\ ~(i <= e) BY <3>2, <1>0
      <4>2. r[i] = q[1] BY <3>0, <4>1
      <4>3. q[1] = movido BY <4>1, <2>4
      <4>4. f[i] = movido BY <3>2
      <4>. QED BY <4>2, <4>3, <4>4
    <3>3. CASE i > e + 1
      <4>1. i - e \in 1 .. 1 + (n - e) /\ (i - e) - 1 \in 1 .. n - e /\ e + ((i - e) - 1) = i - 1
            /\ i - 1 \in 1 .. n /\ ~(i <= e) /\ ~(i - e <= 1)
        BY <3>3, <1>0
      <4>2. r[i] = q[i - e] BY <3>0, <4>1
      <4>3. q[i - e] = cola[(i - e) - 1] BY <4>1, <2>4
      <4>4. cola[(i - e) - 1] = [s[i - 1] EXCEPT !.n_segmento = @ + 1] BY <4>1, <2>3
      <4>5. s[i - 1].n_segmento + 1 = i - 1
        <5>1. s[i - 1].n_segmento = (i - 1) - 1 BY <4>1 DEF Casi
        <5>. QED BY <5>1
      <4>6. f[i] = Renumerado(s[i - 1], i - 1) BY <3>3
      <4>. QED BY <4>2, <4>3, <4>4, <4>5, <4>6 DEF Renumerado
    <3>. QED BY <3>1, <3>2, <3>3
  <2>9. r = f
    <3>1. r = [i \in 1 .. n + 1 |-> r[i]] BY <2>5, <2>7, SeqFuncion
    <3>. QED BY <3>1, <2>8
  <2>10. movido = [s[e] EXCEPT !.n_segmento = e, !.inicio = @ + tam, !.tamanio = @ - tam]
    BY <1>2 DEF movido
  <2>11. movido = y /\ nuevo = x BY <2>10 DEF Resto, nuevo
  <2>. QED BY <1>11, <2>9, <2>11 DEF r, Partido
<1>12. s[e].tamanio \in Nat BY <1>0, SegTipo
<1>. QED BY <1>10, <1>11, <1>12

\* The bytes of one segment change hands and the others stay.
LEMMA LibresUno ==
  ASSUME NEW s \in Seq(Seg), NEW r \in Seq(Seg), Len(r) = Len(s), NEW e \in 1 .. Len(s),
         \A i \in 1 .. Len(s) : i # e => Aporte(r[i]) = Aporte(s[i])
  PROVE  BytesLibres(r, Len(r)) + Aporte(s[e]) = BytesLibres(s, Len(s)) + Aporte(r[e])
<1>. DEFINE n == Len(s)
<1>0. n \in Nat OBVIOUS
<1>1. BytesLibres(r, 0 + (e - 1)) - BytesLibres(r, 0) = BytesLibres(s, 0 + (e - 1)) - BytesLibres(s, 0)
  <2>0. PICK a, m : a = 0 /\ m = e - 1 OBVIOUS
  <2>1. MismosAportes(r, a, s, a, m) BY <2>0 DEF MismosAportes
  <2>2. a \in Nat /\ m \in Nat /\ a + m <= Len(s) /\ a + m <= Len(r) BY <2>0
  <2>3. BytesLibres(r, a + m) - BytesLibres(r, a) = BytesLibres(s, a + m) - BytesLibres(s, a)
    BY <2>1, <2>2, LibresTramo
  <2>. QED BY <2>0, <2>3
<1>2. BytesLibres(r, e + (n - e)) - BytesLibres(r, e) = BytesLibres(s, e + (n - e)) - BytesLibres(s, e)
  <2>0. PICK m : m = n - e OBVIOUS
  <2>1. MismosAportes(r, e, s, e, m) BY <2>0, <1>0 DEF MismosAportes
  <2>2. e \in Nat /\ m \in Nat /\ e + m <= Len(s) /\ e + m <= Len(r) BY <2>0
  <2>3. BytesLibres(r, e + m) - BytesLibres(r, e) = BytesLibres(s, e + m) - BytesLibres(s, e)
    BY <2>1, <2>2, LibresTramo
  <2>. QED BY <2>0, <2>3
<1>3. 0 + (e - 1) = e - 1 /\ e + (n - e) = n /\ e \in 1 .. Len(r) BY <1>0
<1>4. /\ BytesLibres(r, 0) = 0 /\ BytesLibres(s, 0) = 0
      /\ BytesLibres(r, e) = BytesLibres(r, e - 1) + Aporte(r[e])
      /\ BytesLibres(s, e) = BytesLibres(s, e - 1) + Aporte(s[e])
  BY <1>3, LibresPasos
<1>5. /\ BytesLibres(r, e - 1) \in Nat /\ BytesLibres(s, e - 1) \in Nat
      /\ BytesLibres(r, n) \in Nat /\ BytesLibres(s, n) \in Nat
      /\ Aporte(r[e]) \in Nat /\ Aporte(s[e]) \in Nat
  <2>1. e - 1 \in Nat OBVIOUS
  <2>. QED BY <1>0, <1>3, <2>1, LibresPasos, SegTipo
<1>6. PICK x, y, z, w, u, v : /\ x = BytesLibres(r, e - 1) /\ y = BytesLibres(s, e - 1)
                              /\ z = BytesLibres(r, n) /\ w = BytesLibres(s, n)
                              /\ u = Aporte(r[e]) /\ v = Aporte(s[e])
  OBVIOUS
<1>7. x - 0 = y - 0 /\ z - (x + u) = w - (y + v)
  BY <1>1, <1>2, <1>3, <1>4, <1>6
<1>8. x \in Nat /\ y \in Nat /\ z \in Nat /\ w \in Nat /\ u \in Nat /\ v \in Nat BY <1>5, <1>6
<1>9. z + v = w + u BY <1>7, <1>8
<1>. QED BY <1>6, <1>9

\* A segment takes the place of two, or two the place of one.
LEMMA LibresDos ==
  ASSUME NEW s \in Seq(Seg), NEW r \in Seq(Seg), Len(r) = Len(s) + 1, NEW e \in 1 .. Len(s),
         \A i \in 1 .. e - 1 : Aporte(r[i]) = Aporte(s[i]),
         \A i \in 1 .. Len(s) : i > e => Aporte(r[i + 1]) = Aporte(s[i])
  PROVE  BytesLibres(r, Len(r)) + Aporte(s[e])
           = BytesLibres(s, Len(s)) + Aporte(r[e]) + Aporte(r[e + 1])
<1>. DEFINE n == Len(s)
<1>0. n \in Nat OBVIOUS
<1>1. BytesLibres(r, 0 + (e - 1)) - BytesLibres(r, 0) = BytesLibres(s, 0 + (e - 1)) - BytesLibres(s, 0)
  <2>0. PICK a, m : a = 0 /\ m = e - 1 OBVIOUS
  <2>1. MismosAportes(r, a, s, a, m) BY <2>0 DEF MismosAportes
  <2>2. a \in Nat /\ m \in Nat /\ a + m <= Len(s) /\ a + m <= Len(r) BY <2>0
  <2>3. BytesLibres(r, a + m) - BytesLibres(r, a) = BytesLibres(s, a + m) - BytesLibres(s, a)
    BY <2>1, <2>2, LibresTramo
  <2>. QED BY <2>0, <2>3
<1>2. BytesLibres(r, e + 1 + (n - e)) - BytesLibres(r, e + 1)
        = BytesLibres(s, e + (n - e)) - BytesLibres(s, e)
  <2>0. PICK m, b : m = n - e /\ b = e + 1 OBVIOUS
  <2>1. MismosAportes(r, b, s, e, m)
    <3>1. SUFFICES ASSUME NEW i \in 1 .. m PROVE Aporte(r[b + i]) = Aporte(s[e + i])
      BY DEF MismosAportes
    <3>2. e + i \in 1 .. n /\ e + i > e /\ (e + i) + 1 = b + i BY <2>0, <1>0
    <3>3. Aporte(r[(e + i) + 1]) = Aporte(s[e + i]) BY <3>2
    <3>. QED BY <3>2, <3>3
  <2>2. b \in Nat /\ e \in Nat /\ m \in Nat /\ e + m <= Len(s) /\ b + m <= Len(r) BY <2>0
  <2>3. BytesLibres(r, b + m) - BytesLibres(r, b) = BytesLibres(s, e + m) - BytesLibres(s, e)
    BY <2>1, <2>2, LibresTramo
  <2>. QED BY <2>0, <2>3
<1>3. 0 + (e - 1) = e - 1 /\ e + (n - e) = n /\ e + 1 + (n - e) = n + 1 BY <1>0
<1>4. /\ BytesLibres(r, 0) = 0 /\ BytesLibres(s, 0) = 0
      /\ BytesLibres(r, e) = BytesLibres(r, e - 1) + Aporte(r[e])
      /\ BytesLibres(r, e + 1) = BytesLibres(r, e) + Aporte(r[e + 1])
      /\ BytesLibres(s, e) = BytesLibres(s, e - 1) + Aporte(s[e])
  <2>1. e \in 1 .. Len(r) /\ e + 1 \in 1 .. Len(r) /\ (e + 1) - 1 = e BY <1>0
  <2>. QED BY <2>1, LibresPasos
<1>5. /\ BytesLibres(r, e - 1) \in Nat /\ BytesLibres(s, e - 1) \in Nat
      /\ BytesLibres(r, n + 1) \in Nat /\ BytesLibres(s, n) \in Nat
      /\ Aporte(r[e]) \in Nat /\ Aporte(r[e + 1]) \in Nat /\ Aporte(s[e]) \in Nat
  <2>1. e - 1 \in Nat /\ n + 1 \in Nat /\ e \in 1 .. Len(r) /\ e + 1 \in 1 .. Len(r) BY <1>0
  <2>. QED BY <1>0, <2>1, LibresPasos, SegTipo
<1>6. PICK x, y, z, w, u, v, t : /\ x = BytesLibres(r, e - 1) /\ y = BytesLibres(s, e - 1)
                                 /\ z = BytesLibres(r, n + 1) /\ w = BytesLibres(s, n)
                                 /\ u = Aporte(r[e]) /\ v = Aporte(s[e]) /\ t = Aporte(r[e + 1])
  OBVIOUS
<1>7. x - 0 = y - 0 /\ z - ((x + u) + t) = w - (y + v)
  BY <1>1, <1>2, <1>3, <1>4, <1>6
<1>8. x \in Nat /\ y \in Nat /\ z \in Nat /\ w \in Nat /\ u \in Nat /\ v \in Nat /\ t \in Nat
  BY <1>5, <1>6
<1>9. z + v = w + u + t BY <1>7, <1>8
<1>. QED BY <1>6, <1>9

\* What a list holds, without the numbers of the segments.
Cosa(x) == [inicio |-> x.inicio, tamanio |-> x.tamanio, duenio |-> x.duenio,
            indice |-> x.indice, puntero |-> x.puntero]
Contenido(s) == {Cosa(s[i]) : i \in {j \in 1 .. Len(s) : Ocupado(s[j])}}

\* The new segment takes all of the free one.
LEMMA InsertarJusto ==
  ASSUME NEW s, Ordenado(s), NEW e \in 1 .. Len(s), EsLibre(s[e]), s[e].tamanio # 0,
         NEW x \in Seg, x.n_segmento = e - 1, x.inicio = s[e].inicio,
         x.tamanio = s[e].tamanio, Ocupado(x),
         NEW r, r = Cambiado(s, e, x)
  PROVE  /\ Ordenado(r)
         /\ BytesLibres(r, Len(r)) + s[e].tamanio = BytesLibres(s, Len(s))
         /\ Contenido(r) = Contenido(s) \union {Cosa(x)}
<1>. DEFINE n == Len(s)
<1>0. s \in Seq(Seg) /\ n \in Nat BY DEF Ordenado, Casi
<1>1. /\ x \in Seg /\ x.n_segmento = e - 1 /\ x.inicio = s[e].inicio /\ x.tamanio = s[e].tamanio
      /\ Ocupado(x) /\ ~EsLibre(x)
  BY DEF Ocupado, EsLibre
<1>2. \A i \in 1 .. n : s[i] \in Seg BY <1>0
<1>3. r \in [1 .. n -> Seg] /\ r[e] = x /\ \A i \in 1 .. n : i # e => r[i] = s[i]
  BY <1>1, <1>2 DEF Cambiado
<1>4. r \in Seq(Seg) /\ Len(r) = n BY <1>0, <1>3, FuncionSeq
<1>5. \A i \in 0 .. n : Fin(r, i) = Fin(s, i) BY <1>1, <1>3 DEF Fin
<1>6. ASSUME NEW i \in 1 .. n
      PROVE  /\ r[i].n_segmento = i - 1
             /\ r[i].inicio = Fin(r, i - 1)
             /\ r[i].tamanio = 0 => EsLibre(r[i]) /\ i = n
             /\ Limpio(r[i])
  <2>0. Limpio(s[i]) /\ Limpio(x) BY <1>1 DEF Ordenado, Casi, Limpio
  <2>1. s[i].n_segmento = i - 1 /\ s[i].inicio = Fin(s, i - 1)
        /\ (s[i].tamanio = 0 => EsLibre(s[i]) /\ i = n)
    BY DEF Ordenado, Casi
  <2>2. Fin(r, i - 1) = Fin(s, i - 1)
    <3>1. i - 1 \in 0 .. n BY <1>0
    <3>. QED BY <3>1, <1>5
  <2>. QED BY <2>0, <2>1, <2>2, <1>1, <1>3
<1>7. Casi(r)
  <2>1. n >= 1 /\ Fin(r, n) = TAMANIO_MEMORIA BY <1>5, <1>0 DEF Ordenado, Casi
  <2>. HIDE DEF n
  <2>. QED BY <2>1, <1>4, <1>6 DEF Casi
<1>8. Fundido(r)
  <2>1. ASSUME NEW i \in 1 .. n - 1 PROVE ~(EsLibre(r[i]) /\ EsLibre(r[i + 1]))
    <3>1. ~(EsLibre(s[i]) /\ EsLibre(s[i + 1])) BY DEF Ordenado, Fundido
    <3>2. i \in 1 .. n /\ i + 1 \in 1 .. n BY <1>0
    <3>. QED BY <3>1, <3>2, <1>1, <1>3
  <2>. QED BY <2>1, <1>4 DEF Fundido
<1>9. BytesLibres(r, Len(r)) + s[e].tamanio = BytesLibres(s, Len(s))
  <2>1. Aporte(s[e]) = s[e].tamanio /\ Aporte(r[e]) = 0 BY <1>1, <1>3 DEF Aporte
  <2>2. BytesLibres(r, Len(r)) + Aporte(s[e]) = BytesLibres(s, Len(s)) + Aporte(r[e])
    BY <1>0, <1>3, <1>4, LibresUno
  <2>3. BytesLibres(s, Len(s)) \in Nat BY <1>0, LibresPasos
  <2>. QED BY <2>1, <2>2, <2>3
<1>10. Contenido(r) = Contenido(s) \union {Cosa(x)}
  <2>1. {j \in 1 .. Len(r) : Ocupado(r[j])} = {j \in 1 .. Len(s) : Ocupado(s[j])} \union {e}
    BY <1>1, <1>3, <1>4 DEF Ocupado, EsLibre
  <2>2. e \notin {j \in 1 .. Len(s) : Ocupado(s[j])} BY DEF Ocupado, EsLibre
  <2>. QED BY <2>1, <2>2, <1>3 DEF Contenido
<1>. QED BY <1>7, <1>8, <1>9, <1>10 DEF Ordenado

\* The new segment takes the beginning of the free one.
LEMMA InsertarParte ==
  ASSUME NEW s, Ordenado(s), NEW e \in 1 .. Len(s), EsLibre(s[e]),
         NEW tam \in Nat \ {0}, tam < s[e].tamanio,
         NEW x \in Seg, x.n_segmento = e - 1, x.inicio = s[e].inicio, x.tamanio = tam, Ocupado(x),
         NEW y \in Seg, y.n_segmento = e, y.inicio = s[e].inicio + tam,
         y.tamanio = s[e].tamanio - tam, EsLibre(y), Limpio(y),
         NEW r, r = Partido(s, e, x, y)
  PROVE  /\ Ordenado(r)
         /\ BytesLibres(r, Len(r)) + tam = BytesLibres(s, Len(s))
         /\ Contenido(r) = Contenido(s) \union {Cosa(x)}
<1>. DEFINE n == Len(s)
<1>0. s \in Seq(Seg) /\ n \in Nat BY DEF Ordenado, Casi
<1>01. s[e] \in Seg /\ s[e].inicio \in Nat /\ s[e].tamanio \in Nat /\ e - 1 \in Nat /\ e \in Nat
  BY <1>0, SegTipo
<1>1. /\ x \in Seg /\ x.n_segmento = e - 1 /\ x.inicio = s[e].inicio /\ x.tamanio = tam
      /\ Ocupado(x) /\ ~EsLibre(x)
  BY DEF Ocupado, EsLibre
<1>2. /\ y \in Seg /\ y.n_segmento = e /\ y.inicio = s[e].inicio + tam
      /\ y.tamanio = s[e].tamanio - tam /\ EsLibre(y) /\ ~Ocupado(y)
  BY DEF Ocupado, EsLibre
<1>3. \A i \in 1 .. n : Renumerado(s[i], i) \in Seg
         /\ Renumerado(s[i], i).n_segmento = i
         /\ Renumerado(s[i], i).inicio = s[i].inicio /\ Renumerado(s[i], i).tamanio = s[i].tamanio
         /\ (EsLibre(Renumerado(s[i], i)) <=> EsLibre(s[i]))
         /\ Cosa(Renumerado(s[i], i)) = Cosa(s[i])
         /\ Aporte(Renumerado(s[i], i)) = Aporte(s[i])
  <2>. SUFFICES ASSUME NEW i \in 1 .. n
                PROVE  LET z == Renumerado(s[i], i)
                       IN /\ z \in Seg /\ z.n_segmento = i
                          /\ z.inicio = s[i].inicio /\ z.tamanio = s[i].tamanio
                          /\ (EsLibre(z) <=> EsLibre(s[i]))
                          /\ Cosa(z) = Cosa(s[i]) /\ Aporte(z) = Aporte(s[i])
    BY Zenon
  <2>1. s[i] \in Seg /\ i \in Nat BY <1>0
  <2>2. PICK z : z = Renumerado(s[i], i) OBVIOUS
  <2>3. /\ z \in Seg /\ z.n_segmento = i
        /\ z.inicio = s[i].inicio /\ z.tamanio = s[i].tamanio /\ z.duenio = s[i].duenio
        /\ z.indice = s[i].indice /\ z.puntero = s[i].puntero
    BY <2>1, <2>2 DEF Renumerado, Seg
  <2>4. EsLibre(z) <=> EsLibre(s[i]) BY <2>3 DEF EsLibre
  <2>5. Cosa(z) = Cosa(s[i]) BY <2>3 DEF Cosa
  <2>6. Aporte(z) = Aporte(s[i]) BY <2>3, <2>4 DEF Aporte
  <2>. QED BY <2>2, <2>3, <2>4, <2>5, <2>6
<1>4. r \in [1 .. n + 1 -> Seg]
  <2>1. \A i \in 1 .. n + 1 : i < e \/ i = e \/ i = e + 1 \/ (i > e + 1 /\ i - 1 \in 1 .. n)
    BY <1>0
  <2>2. \A i \in 1 .. n : s[i] \in Seg BY <1>0
  <2>3. \A i \in 1 .. n + 1 : i < e => i \in 1 .. n BY <1>0
  <2>. QED BY <2>1, <2>2, <2>3, <1>1, <1>2, <1>3 DEF Partido
<1>5. r \in Seq(Seg) /\ Len(r) = n + 1 BY <1>0, <1>4, FuncionSeq
<1>6. /\ \A i \in 1 .. e - 1 : r[i] = s[i]
      /\ r[e] = x /\ r[e + 1] = y
      /\ \A i \in e + 2 .. n + 1 : r[i] = Renumerado(s[i - 1], i - 1)
  BY <1>0 DEF Partido
<1>. HIDE DEF n
<1>7. \A i \in 0 .. e - 1 : Fin(r, i) = Fin(s, i)
  <2>1. \A i \in 1 .. e - 1 : Fin(r, i) = Fin(s, i) BY <1>6 DEF Fin
  <2>2. Fin(r, 0) = Fin(s, 0) BY DEF Fin
  <2>. QED BY <2>1, <2>2
<1>8. Fin(r, e) = s[e].inicio + tam BY <1>1, <1>6 DEF Fin
<1>9. \A i \in e + 1 .. n + 1 : Fin(r, i) = Fin(s, i - 1)
  <2>1. Fin(r, e + 1) = Fin(s, e)
    <3>1. Fin(r, e + 1) = (s[e].inicio + tam) + (s[e].tamanio - tam)
      <4>1. e + 1 # 0 BY <1>01
      <4>2. Fin(r, e + 1) = y.inicio + y.tamanio BY <4>1, <1>6 DEF Fin
      <4>. QED BY <4>2, <1>2
    <3>2. Fin(s, e) = s[e].inicio + s[e].tamanio BY DEF Fin
    <3>. QED BY <3>1, <3>2, <1>01
  <2>2. ASSUME NEW i \in e + 2 .. n + 1 PROVE Fin(r, i) = Fin(s, i - 1)
    <3>1. i - 1 \in 1 .. n /\ i # 0 /\ i - 1 # 0 BY <1>0
    <3>2. Fin(r, i) = r[i].inicio + r[i].tamanio /\ Fin(s, i - 1) = s[i - 1].inicio + s[i - 1].tamanio
      BY <3>1 DEF Fin
    <3>. QED BY <3>1, <3>2, <1>3, <1>6
  <2>3. (e + 1) - 1 = e BY <1>01
  <2>4. \A i \in e + 1 .. n + 1 : i = e + 1 \/ i \in e + 2 .. n + 1 BY <1>0
  <2>. QED BY <2>1, <2>2, <2>3, <2>4
<1>10. \A i \in 1 .. n : /\ s[i].n_segmento = i - 1 /\ s[i].inicio = Fin(s, i - 1)
                         /\ s[i].tamanio = 0 => EsLibre(s[i]) /\ i = n
  BY DEF Ordenado, Casi, n
<1>11. ASSUME NEW i \in 1 .. n + 1
       PROVE  /\ r[i].n_segmento = i - 1
              /\ r[i].inicio = Fin(r, i - 1)
              /\ r[i].tamanio = 0 => EsLibre(r[i]) /\ i = n + 1
  <2>0. i - 1 \in 0 .. n /\ e \in 1 .. n BY <1>0 DEF n
  <2>1. CASE i < e
    <3>1. i \in 1 .. e - 1 /\ i \in 1 .. n /\ i - 1 \in 0 .. e - 1 /\ i # n BY <2>0, <2>1, <1>0
    <3>. QED BY <3>1, <1>6, <1>7, <1>10
  <2>2. CASE i = e
    <3>1. i \in 1 .. n /\ i - 1 \in 0 .. e - 1 BY <2>0, <2>2
    <3>2. Fin(r, i - 1) = s[e].inicio BY <3>1, <2>2, <1>7, <1>10
    <3>. QED BY <3>2, <2>2, <1>1, <1>6
  <2>3. CASE i = e + 1
    <3>1. i - 1 = e BY <2>3, <1>01
    <3>2. y.tamanio # 0 BY <1>2, <1>01
    <3>. QED BY <3>1, <3>2, <2>3, <1>2, <1>6, <1>8
  <2>4. CASE i > e + 1
    <3>1. i \in e + 2 .. n + 1 /\ i - 1 \in 1 .. n /\ i - 1 \in e + 1 .. n + 1 BY <2>4, <1>0, <2>0
    <3>2. r[i] = Renumerado(s[i - 1], i - 1) BY <3>1, <1>6
    <3>3. r[i].inicio = Fin(r, i - 1)
      <4>1. Fin(r, i - 1) = Fin(s, (i - 1) - 1) BY <3>1, <1>9
      <4>. QED BY <3>1, <3>2, <4>1, <1>3, <1>10
    <3>4. i - 1 = n => i = n + 1 BY <1>0
    <3>5. /\ r[i].n_segmento = i - 1 /\ r[i].tamanio = s[i - 1].tamanio
          /\ EsLibre(r[i]) <=> EsLibre(s[i - 1])
      BY <3>1, <3>2, <1>3
    <3>6. s[i - 1].tamanio = 0 => EsLibre(s[i - 1]) /\ i - 1 = n BY <3>1, <1>10
    <3>. QED BY <3>3, <3>4, <3>5, <3>6
  <2>. QED BY <2>1, <2>2, <2>3, <2>4, <2>0
<1>110. ASSUME NEW i \in 1 .. n + 1 PROVE Limpio(r[i])
  <2>0. e \in 1 .. n /\ \A j \in 1 .. n : Limpio(s[j]) BY DEF n, Ordenado, Casi
  <2>1. CASE i < e
    <3>1. i \in 1 .. e - 1 /\ i \in 1 .. n BY <2>0, <2>1, <1>0
    <3>. QED BY <3>1, <2>0, <1>6
  <2>2. CASE i = e BY <2>2, <1>1, <1>6 DEF Limpio
  <2>3. CASE i = e + 1 BY <2>3, <1>6
  <2>4. CASE i > e + 1
    <3>1. i \in e + 2 .. n + 1 /\ i - 1 \in 1 .. n BY <2>4, <1>0, <2>0
    <3>2. r[i] = Renumerado(s[i - 1], i - 1) /\ Limpio(s[i - 1]) BY <3>1, <1>6, <2>0
    <3>3. EsLibre(r[i]) <=> EsLibre(s[i - 1]) BY <3>1, <3>2, <1>3
    <3>4. Cosa(r[i]) = Cosa(s[i - 1]) BY <3>1, <3>2, <1>3
    <3>5. r[i].indice = s[i - 1].indice /\ r[i].puntero = s[i - 1].puntero BY <3>4 DEF Cosa
    <3>. QED BY <3>2, <3>3, <3>5 DEF Limpio
  <2>. QED BY <2>1, <2>2, <2>3, <2>4, <2>0
<1>12. Casi(r)
  <2>1. Fin(r, n + 1) = TAMANIO_MEMORIA
    <3>1. n + 1 \in e + 1 .. n + 1 /\ (n + 1) - 1 = n BY <1>0 DEF n
    <3>2. Fin(s, n) = TAMANIO_MEMORIA BY DEF n, Ordenado, Casi
    <3>. QED BY <3>1, <3>2, <1>9
  <2>2. n + 1 >= 1 BY <1>0
  <2>. QED BY <2>1, <2>2, <1>5, <1>11, <1>110 DEF Casi
<1>13. Fundido(r)
  <2>0. \A i \in 1 .. n - 1 : ~(EsLibre(s[i]) /\ EsLibre(s[i + 1])) BY DEF Ordenado, Fundido, n
  <2>1. ASSUME NEW i \in 1 .. n PROVE ~(EsLibre(r[i]) /\ EsLibre(r[i + 1]))
    <3>1. CASE i < e - 1
      <4>1. i \in 1 .. e - 1 /\ i + 1 \in 1 .. e - 1 /\ i \in 1 .. n - 1
        <5>1. e \in 1 .. n BY DEF n
        <5>. QED BY <5>1, <3>1, <1>0
      <4>. QED BY <4>1, <2>0, <1>6
    <3>2. CASE i = e - 1
      <4>1. i + 1 = e BY <3>2, <1>01
      <4>. QED BY <4>1, <1>1, <1>6
    <3>3. CASE i = e BY <3>3, <1>1, <1>6
    <3>4. CASE i = e + 1
      <4>1. i + 1 \in e + 2 .. n + 1 /\ (i + 1) - 1 = e + 1 /\ e + 1 \in 1 .. n /\ e \in 1 .. n - 1
        BY <3>4, <1>0, <1>01
      <4>2. r[i + 1] = Renumerado(s[e + 1], e + 1) BY <4>1, <1>6
      <4>3. ~EsLibre(s[e + 1]) BY <4>1, <2>0
      <4>. QED BY <4>1, <4>2, <4>3, <1>3
    <3>5. CASE i > e + 1
      <4>1. /\ i \in e + 2 .. n + 1 /\ i + 1 \in e + 2 .. n + 1 /\ i - 1 \in 1 .. n - 1
            /\ i - 1 \in 1 .. n /\ (i + 1) - 1 = i /\ (i - 1) + 1 = i
        <5>1. i \in Nat /\ n \in Nat /\ e \in Nat /\ i <= n /\ i >= e + 2 BY <3>5, <1>0, <1>01
        <5>2. i \in e + 2 .. n + 1 /\ i + 1 \in e + 2 .. n + 1 BY <5>1
        <5>3. i - 1 \in 1 .. n - 1 /\ i - 1 \in 1 .. n BY <5>1
        <5>. QED BY <5>1, <5>2, <5>3
      <4>2. r[i] = Renumerado(s[i - 1], i - 1) /\ r[i + 1] = Renumerado(s[i], i)
        BY <4>1, <1>6
      <4>3. ~(EsLibre(s[i - 1]) /\ EsLibre(s[i])) BY <4>1, <2>0
      <4>. QED BY <4>1, <4>2, <4>3, <1>3
    <3>. QED BY <3>1, <3>2, <3>3, <3>4, <3>5, <1>01
  <2>2. Len(r) - 1 = n BY <1>5, <1>0
  <2>. QED BY <2>1, <2>2 DEF Fundido
<1>14. BytesLibres(r, Len(r)) + tam = BytesLibres(s, Len(s))
  <2>1. ASSUME NEW i \in 1 .. n, i > e PROVE Aporte(r[i + 1]) = Aporte(s[i])
    <3>1. i + 1 \in e + 2 .. n + 1 /\ (i + 1) - 1 = i BY <2>1, <1>0, <1>01
    <3>2. r[i + 1] = Renumerado(s[i], i) BY <3>1, <1>6
    <3>. QED BY <3>2, <1>3
  <2>2. \A i \in 1 .. e - 1 : Aporte(r[i]) = Aporte(s[i]) BY <1>6
  <2>3. BytesLibres(r, Len(r)) + Aporte(s[e]) = BytesLibres(s, Len(s)) + Aporte(x) + Aporte(y)
    <3>1. s \in Seq(Seg) /\ r \in Seq(Seg) /\ Len(r) = Len(s) + 1 BY <1>0, <1>5 DEF n
    <3>2. \A i \in 1 .. Len(s) : i > e => Aporte(r[i + 1]) = Aporte(s[i]) BY <2>1 DEF n
    <3>3. BytesLibres(r, Len(r)) + Aporte(s[e])
            = BytesLibres(s, Len(s)) + Aporte(r[e]) + Aporte(r[e + 1])
      BY <3>1, <3>2, <2>2, LibresDos
    <3>. QED BY <3>3, <1>6
  <2>4. Aporte(s[e]) = s[e].tamanio /\ Aporte(x) = 0 /\ Aporte(y) = s[e].tamanio - tam
    BY <1>1, <1>2 DEF Aporte
  <2>5. BytesLibres(r, Len(r)) \in Nat /\ BytesLibres(s, Len(s)) \in Nat
    <3>1. Len(r) \in Nat /\ Len(s) \in Nat BY <1>0, <1>5
    <3>. QED BY <3>1, <1>0, <1>5, LibresPasos
  <2>6. PICK u, v, z : u = BytesLibres(r, Len(r)) /\ v = BytesLibres(s, Len(s)) /\ z = s[e].tamanio
    OBVIOUS
  <2>7. u + z = v + 0 + (z - tam) BY <2>3, <2>4, <2>6
  <2>8. u \in Nat /\ v \in Nat /\ z \in Nat BY <2>5, <2>6, <1>01
  <2>9. u + tam = v BY <2>7, <2>8
  <2>. QED BY <2>6, <2>9
<1>15. Contenido(r) = Contenido(s) \union {Cosa(x)}
  <2>. DEFINE O(l) == {j \in 1 .. Len(l) : Ocupado(l[j])}
  <2>0. e \in 1 .. n /\ Len(s) = n BY DEF n
  <2>1. ASSUME NEW j \in O(r) PROVE Cosa(r[j]) \in Contenido(s) \union {Cosa(x)}
    <3>0. j \in 1 .. n + 1 /\ Ocupado(r[j]) BY <1>5
    <3>1. CASE j < e
      <4>1. j \in 1 .. e - 1 /\ j \in 1 .. n BY <2>0, <3>0, <3>1, <1>0
      <4>. QED BY <2>0, <3>0, <4>1, <1>6 DEF Contenido
    <3>2. CASE j = e BY <3>2, <1>6
    <3>3. CASE j = e + 1 BY <3>0, <3>3, <1>2, <1>6
    <3>4. CASE j > e + 1
      <4>1. j \in e + 2 .. n + 1 /\ j - 1 \in 1 .. n BY <2>0, <3>0, <3>4, <1>0
      <4>2. r[j] = Renumerado(s[j - 1], j - 1) BY <4>1, <1>6
      <4>3. Ocupado(s[j - 1]) /\ Cosa(r[j]) = Cosa(s[j - 1])
        BY <3>0, <4>1, <4>2, <1>3 DEF Ocupado, EsLibre
      <4>. QED BY <2>0, <4>1, <4>3 DEF Contenido
    <3>. QED BY <3>0, <3>1, <3>2, <3>3, <3>4, <1>01
  <2>2. Cosa(x) \in Contenido(r)
    <3>1. e \in 1 .. Len(r) /\ Ocupado(r[e]) BY <2>0, <1>0, <1>1, <1>5, <1>6
    <3>. QED BY <3>1, <1>6 DEF Contenido
  <2>3. ASSUME NEW j \in O(s) PROVE Cosa(s[j]) \in Contenido(r)
    <3>0. j \in 1 .. n /\ Ocupado(s[j]) BY <2>0
    <3>1. CASE j < e
      <4>1. j \in 1 .. e - 1 /\ j \in 1 .. Len(r) BY <2>0, <3>0, <3>1, <1>0, <1>5
      <4>. QED BY <3>0, <4>1, <1>6 DEF Contenido
    <3>2. CASE j = e BY <3>0, <3>2 DEF Ocupado, EsLibre
    <3>3. CASE j > e
      <4>1. j + 1 \in e + 2 .. n + 1 /\ (j + 1) - 1 = j /\ j + 1 \in 1 .. Len(r)
        BY <2>0, <3>0, <3>3, <1>0, <1>5
      <4>2. r[j + 1] = Renumerado(s[j], j) BY <4>1, <1>6
      <4>3. Ocupado(r[j + 1]) /\ Cosa(r[j + 1]) = Cosa(s[j])
        BY <3>0, <4>2, <1>3 DEF Ocupado, EsLibre
      <4>4. Cosa(r[j + 1]) \in Contenido(r) BY <4>1, <4>3 DEF Contenido
      <4>. QED BY <4>3, <4>4
    <3>. QED BY <3>0, <3>1, <3>2, <3>3, <1>01
  <2>. QED BY <2>1, <2>2, <2>3 DEF Contenido
<1>. QED BY <1>12, <1>13, <1>14, <1>15 DEF Ordenado

\* the element of a segment just created
Nueva(ini, tam, d, k) ==
  [inicio |-> ini, tamanio |-> tam, duenio |-> d, indice |-> k, puntero |-> 0]

\* r is the list s with one more segment
Insertada(r, s, tam, d, k) ==
  /\ Ordenado(r)
  /\ BytesLibres(r, Len(r)) + tam = BytesLibres(s, Len(s))
  /\ \E ini \in Nat : Contenido(r) = Contenido(s) \union {Nueva(ini, tam, d, k)}

\* Creating a segment keeps the list in order and takes its bytes from the free ones.
LEMMA InsertarBien ==
  ASSUME NEW s, Ordenado(s), NEW tam \in Nat \ {0}, NEW d \in Nat \ {0}, NEW k \in Nat,
         Aptos(s, tam) # {}
  PROVE  Insertada(Insertar(s, tam, d, k), s, tam, d, k)
<1>. DEFINE e == Elegido(s, tam)
            r == Insertar(s, tam, d, k)
            x == Segmento(e - 1, s[e].inicio, tam, d, k)
            y == Resto(s[e], e, tam)
<1>0. Casi(s) /\ s \in Seq(Seg) /\ DOMAIN s = 1 .. Len(s) BY DEF Ordenado, Casi
<1>1. e \in 1 .. Len(s) /\ EsLibre(s[e]) /\ s[e].tamanio >= tam
  <2>1. e \in Aptos(s, tam) BY <1>0, ElegidoApto
  <2>. QED BY <2>1, <1>0 DEF Aptos
<1>2. s[e] \in Seg /\ s[e].inicio \in Nat /\ s[e].tamanio \in Nat /\ e - 1 \in Nat /\ e \in Nat
  BY <1>0, <1>1, SegTipo
<1>3. Cosa(x) = Nueva(s[e].inicio, tam, d, k) BY DEF Cosa, Nueva, Segmento
<1>30. /\ x \in Seg /\ x.n_segmento = e - 1 /\ x.inicio = s[e].inicio /\ x.tamanio = tam
       /\ Ocupado(x)
  BY <1>2 DEF Segmento, Seg, Ocupado, EsLibre
<1>31. e = Elegido(s, tam) OBVIOUS
<1>. HIDE DEF e
<1>32. PICK z : z = x OBVIOUS
<1>33. PICK w : w = y OBVIOUS
<1>. HIDE DEF r
<1>4. \/ s[e].tamanio = tam /\ r = Cambiado(s, e, z)
      \/ s[e].tamanio > tam /\ r = Partido(s, e, z, w)
  BY <1>0, <1>1, <1>31, <1>32, <1>33, InsertarForma DEF r
<1>5. CASE s[e].tamanio = tam /\ r = Cambiado(s, e, z)
  <2>1. s[e].tamanio # 0 BY <1>5
  <2>2. /\ z \in Seg /\ z.n_segmento = e - 1 /\ z.inicio = s[e].inicio /\ z.tamanio = s[e].tamanio
        /\ Ocupado(z)
    BY <1>5, <1>30, <1>32
  <2>3. /\ Ordenado(r) /\ BytesLibres(r, Len(r)) + s[e].tamanio = BytesLibres(s, Len(s))
        /\ Contenido(r) = Contenido(s) \union {Cosa(z)}
    BY <1>1, <1>5, <2>1, <2>2, InsertarJusto
  <2>. QED BY <1>2, <1>3, <1>5, <1>32, <2>3 DEF r, Insertada
<1>6. CASE s[e].tamanio > tam /\ r = Partido(s, e, z, w)
  <2>2. s[e].inicio + tam \in Nat /\ s[e].tamanio - tam \in Nat BY <1>2, <1>6
  <2>3. w \in Seg /\ w.duenio = s[e].duenio BY <2>2, <1>2, <1>33 DEF Seg, Resto
  <2>4. /\ w.n_segmento = e /\ w.inicio = s[e].inicio + tam /\ w.tamanio = s[e].tamanio - tam
    BY <1>2, <1>33 DEF Seg, Resto
  <2>5. EsLibre(w) BY <1>1, <2>3 DEF EsLibre
  <2>50. Limpio(w)
    <3>1. w.indice = s[e].indice /\ w.puntero = s[e].puntero BY <1>2, <1>33 DEF Seg, Resto
    <3>2. Limpio(s[e]) BY <1>0, <1>1 DEF Casi
    <3>. QED BY <3>1, <3>2, <1>1 DEF Limpio
  <2>6. tam < s[e].tamanio BY <1>2, <1>6
  <2>61. /\ z \in Seg /\ z.n_segmento = e - 1 /\ z.inicio = s[e].inicio /\ z.tamanio = tam
         /\ Ocupado(z)
    BY <1>30, <1>32
  <2>7. /\ Ordenado(r) /\ BytesLibres(r, Len(r)) + tam = BytesLibres(s, Len(s))
        /\ Contenido(r) = Contenido(s) \union {Cosa(z)}
    BY <1>1, <1>6, <2>61, <2>3, <2>4, <2>5, <2>50, <2>6, InsertarParte
  <2>. QED BY <1>2, <1>3, <1>32, <2>7 DEF r, Insertada
<1>. QED BY <1>4, <1>5, <1>6

-----------------------------------------------------------------------------
(* Freeing a segment *)

\* no two free segments are together, but perhaps at the places of T
FundidoMenos(s, T) ==
  \A i \in 1 .. Len(s) - 1 : i \notin T => ~(EsLibre(s[i]) /\ EsLibre(s[i + 1]))

\* Absorber, element by element.
LEMMA AbsorberForma ==
  ASSUME NEW s, Casi(s), NEW i \in 1 .. Len(s) - 1
  PROVE  Absorber(s, i) = [j \in 1 .. Len(s) - 1 |->
                             IF j < i THEN s[j]
                             ELSE IF j = i THEN [s[i] EXCEPT !.tamanio = @ + s[i + 1].tamanio]
                             ELSE Renumerado(s[j + 1], j - 1)]
<1>. DEFINE n == Len(s)
            con == RemoveAt(s, i + 1)
            f == [j \in 1 .. n - 1 |->
                             IF j < i THEN s[j]
                             ELSE IF j = i THEN [s[i] EXCEPT !.tamanio = @ + s[i + 1].tamanio]
                             ELSE Renumerado(s[j + 1], j - 1)]
<1>0. s \in Seq(Seg) /\ n \in Nat /\ i + 1 \in 1 .. n BY DEF Casi
<1>1. s[i + 1].n_segmento + 1 = i + 1
  <2>1. s[i + 1].n_segmento = (i + 1) - 1 BY <1>0 DEF Casi
  <2>. QED BY <2>1
<1>2. /\ con \in Seq(Seg) /\ Len(con) = n - 1
      /\ \A j \in 1 .. n - 1 : con[j] = IF j < i + 1 THEN s[j] ELSE s[j + 1]
  BY <1>0, SacarDe
<1>3. DOMAIN con = 1 .. n - 1 BY <1>2
<1>. DEFINE g == [j \in DOMAIN con |->
                    CASE j < i -> con[j]
                      [] j = i -> [con[j] EXCEPT !.tamanio = @ + s[i + 1].tamanio]
                      [] OTHER -> [con[j] EXCEPT !.n_segmento = @ - 1]]
<1>4. Absorber(s, i) = g BY <1>1 DEF Absorber
<1>. HIDE DEF con
<1>5. ASSUME NEW j \in 1 .. n - 1 PROVE g[j] = f[j]
  <2>1. CASE j < i BY <2>1, <1>2, <1>3
  <2>2. CASE j = i BY <2>2, <1>2, <1>3
  <2>3. CASE j > i
    <3>1. ~(j < i) /\ j # i /\ ~(j < i + 1) /\ j + 1 \in 1 .. n BY <2>3, <1>0
    <3>2. g[j] = [s[j + 1] EXCEPT !.n_segmento = @ - 1] BY <3>1, <1>2, <1>3
    <3>3. f[j] = Renumerado(s[j + 1], j - 1) BY <3>1
    <3>4. s[j + 1].n_segmento - 1 = j - 1
      <4>1. s[j + 1].n_segmento = (j + 1) - 1 BY <3>1 DEF Casi
      <4>. QED BY <4>1
    <3>. HIDE DEF f, g
    <3>. QED BY <3>2, <3>3, <3>4 DEF Renumerado
  <2>. QED BY <2>1, <2>2, <2>3
<1>6. g = f
  <2>1. g = [j \in 1 .. n - 1 |-> g[j]] BY <1>3
  <2>. HIDE DEF g
  <2>. QED BY <2>1, <1>5
<1>. QED BY <1>4, <1>6

\* The number of a segment is no part of what it holds.
LEMMA RenumeradoIgual ==
  ASSUME NEW x \in Seg, NEW m \in Nat
  PROVE  LET z == Renumerado(x, m)
         IN /\ z \in Seg /\ z.n_segmento = m
            /\ z.inicio = x.inicio /\ z.tamanio = x.tamanio
            /\ (EsLibre(z) <=> EsLibre(x))
            /\ Cosa(z) = Cosa(x) /\ Aporte(z) = Aporte(x)
<1>2. PICK z : z = Renumerado(x, m) OBVIOUS
<1>3. /\ z \in Seg /\ z.n_segmento = m
      /\ z.inicio = x.inicio /\ z.tamanio = x.tamanio /\ z.duenio = x.duenio
      /\ z.indice = x.indice /\ z.puntero = x.puntero
  BY <1>2 DEF Renumerado, Seg
<1>4. EsLibre(z) <=> EsLibre(x) BY <1>3 DEF EsLibre
<1>5. Cosa(z) = Cosa(x) BY <1>3 DEF Cosa
<1>6. Aporte(z) = Aporte(x) BY <1>3, <1>4 DEF Aporte
<1>. QED BY <1>2, <1>3, <1>4, <1>5, <1>6

\* Two free segments become one, and nothing else changes.
LEMMA AbsorberBien ==
  ASSUME NEW s, Casi(s), NEW i \in 1 .. Len(s) - 1, EsLibre(s[i]), EsLibre(s[i + 1]),
         NEW T, \A j \in T : j < i, FundidoMenos(s, T \union {i}),
         NEW r, r = Absorber(s, i)
  PROVE  /\ Casi(r) /\ FundidoMenos(r, T) /\ Len(r) = Len(s) - 1
         /\ BytesLibres(r, Len(r)) = BytesLibres(s, Len(s))
         /\ Contenido(r) = Contenido(s)
         /\ \A j \in 1 .. i - 1 : r[j] = s[j]
         /\ EsLibre(r[i])
<1>. DEFINE n == Len(s)
<1>0. s \in Seq(Seg) /\ n \in Nat /\ i \in Nat /\ 1 <= i /\ i + 1 <= n BY DEF Casi
<1>1. PICK x : x = [s[i] EXCEPT !.tamanio = @ + s[i + 1].tamanio] OBVIOUS
<1>2. \A j \in 1 .. n :
        /\ s[j] \in Seg /\ s[j].n_segmento = j - 1 /\ s[j].inicio = Fin(s, j - 1)
        /\ s[j].tamanio = 0 => EsLibre(s[j]) /\ j = n
        /\ s[j].inicio \in Nat /\ s[j].tamanio \in Nat
        /\ Fin(s, j) = s[j].inicio + s[j].tamanio
  <2>1. \A j \in 1 .. n : s[j] \in Seg /\ s[j].inicio \in Nat /\ s[j].tamanio \in Nat BY <1>0, SegTipo
  <2>2. \A j \in 1 .. n : Fin(s, j) = s[j].inicio + s[j].tamanio BY DEF Fin
  <2>. QED BY <2>1, <2>2 DEF Casi
<1>. HIDE DEF n
<1>20. i \in 1 .. n /\ i + 1 \in 1 .. n BY <1>0
<1>21. s[i] \in Seg /\ s[i].inicio \in Nat /\ s[i].tamanio \in Nat /\ s[i + 1].tamanio \in Nat
       /\ s[i].n_segmento = i - 1
  BY <1>20, <1>2
<1>3. /\ x \in Seg /\ x.n_segmento = i - 1 /\ x.inicio = s[i].inicio
      /\ x.tamanio = s[i].tamanio + s[i + 1].tamanio /\ x.duenio = s[i].duenio
  <2>1. s[i].tamanio + s[i + 1].tamanio \in Nat BY <1>21
  <2>. QED BY <1>1, <1>21, <2>1 DEF Seg
<1>4. EsLibre(x) /\ Aporte(x) = s[i].tamanio + s[i + 1].tamanio
      /\ Aporte(s[i]) = s[i].tamanio /\ Aporte(s[i + 1]) = s[i + 1].tamanio
  <2>1. EsLibre(x) BY <1>3 DEF EsLibre
  <2>. QED BY <2>1, <1>3 DEF Aporte
<1>5. r = [j \in 1 .. n - 1 |-> IF j < i THEN s[j] ELSE IF j = i THEN x
                                 ELSE Renumerado(s[j + 1], j - 1)]
  BY <1>1, AbsorberForma DEF n
<1>6. \A j \in 2 .. n : LET z == Renumerado(s[j], j - 2)
         IN /\ z \in Seg /\ z.n_segmento = j - 2
            /\ z.inicio = s[j].inicio /\ z.tamanio = s[j].tamanio
            /\ (EsLibre(z) <=> EsLibre(s[j]))
            /\ Cosa(z) = Cosa(s[j]) /\ Aporte(z) = Aporte(s[j])
  <2>1. \A j \in 2 .. n : j - 2 \in Nat /\ s[j] \in Seg BY <1>2
  <2>. QED BY <2>1, RenumeradoIgual
<1>7. /\ \A j \in 1 .. i - 1 : r[j] = s[j]
      /\ r[i] = x
      /\ \A j \in i + 1 .. n - 1 : r[j] = Renumerado(s[j + 1], (j + 1) - 2)
  <2>1. \A j \in 1 .. i - 1 : j \in 1 .. n - 1 /\ j < i BY <1>0
  <2>2. i \in 1 .. n - 1 BY <1>0
  <2>3. \A j \in i + 1 .. n - 1 : j \in 1 .. n - 1 /\ ~(j < i) /\ j # i /\ (j + 1) - 2 = j - 1
    BY <1>0
  <2>. QED BY <2>1, <2>2, <2>3, <1>5
<1>8. r \in Seq(Seg) /\ Len(r) = n - 1
  <2>1. ASSUME NEW j \in 1 .. n - 1 PROVE r[j] \in Seg
    <3>1. j \in 1 .. i - 1 \/ j = i \/ j \in i + 1 .. n - 1 BY <1>0
    <3>2. j \in 1 .. n /\ j + 1 \in 2 .. n BY <1>0
    <3>. QED BY <3>1, <3>2, <1>2, <1>3, <1>6, <1>7
  <2>2. r \in [1 .. n - 1 -> Seg] BY <2>1, <1>5
  <2>3. n - 1 \in Nat BY <1>0
  <2>. QED BY <2>2, <2>3, FuncionSeq
<1>9. \A j \in i + 1 .. n - 1 :
        /\ r[j].n_segmento = j - 1 /\ r[j].inicio = s[j + 1].inicio
        /\ r[j].tamanio = s[j + 1].tamanio
        /\ (EsLibre(r[j]) <=> EsLibre(s[j + 1]))
        /\ Cosa(r[j]) = Cosa(s[j + 1]) /\ Aporte(r[j]) = Aporte(s[j + 1])
  <2>1. \A j \in i + 1 .. n - 1 : j + 1 \in 2 .. n /\ (j + 1) - 2 = j - 1 BY <1>0
  <2>. QED BY <2>1, <1>6, <1>7
<1>10. \A j \in 0 .. i - 1 : Fin(r, j) = Fin(s, j)
  <2>1. \A j \in 1 .. i - 1 : Fin(r, j) = Fin(s, j) BY <1>7 DEF Fin
  <2>2. Fin(r, 0) = Fin(s, 0) BY DEF Fin
  <2>. QED BY <2>1, <2>2, <1>0
<1>11. \A j \in i .. n - 1 : Fin(r, j) = Fin(s, j + 1)
  <2>1. Fin(r, i) = Fin(s, i + 1)
    <3>1. Fin(r, i) = x.inicio + x.tamanio BY <1>7 DEF Fin
    <3>2. Fin(s, i + 1) = s[i + 1].inicio + s[i + 1].tamanio BY <1>20, <1>2
    <3>3. s[i + 1].inicio = s[i].inicio + s[i].tamanio
      <4>1. (i + 1) - 1 = i BY <1>0
      <4>2. s[i + 1].inicio = Fin(s, i) BY <4>1, <1>20, <1>2
      <4>. QED BY <4>2, <1>20, <1>2
    <3>. QED BY <3>1, <3>2, <3>3, <1>3, <1>21
  <2>2. ASSUME NEW j \in i + 1 .. n - 1 PROVE Fin(r, j) = Fin(s, j + 1)
    <3>1. Fin(r, j) = r[j].inicio + r[j].tamanio BY <1>0 DEF Fin
    <3>2. j + 1 \in 1 .. n BY <1>0
    <3>. QED BY <3>1, <3>2, <1>2, <1>9
  <2>3. \A j \in i .. n - 1 : j = i \/ j \in i + 1 .. n - 1 BY <1>0
  <2>. QED BY <2>1, <2>2, <2>3
<1>12. ASSUME NEW j \in 1 .. n - 1
       PROVE  /\ r[j].n_segmento = j - 1 /\ r[j].inicio = Fin(r, j - 1)
              /\ r[j].tamanio = 0 => EsLibre(r[j]) /\ j = n - 1
  <2>1. CASE j < i
    <3>1. j \in 1 .. i - 1 /\ j - 1 \in 0 .. i - 1 /\ j \in 1 .. n /\ j # n BY <2>1, <1>0
    <3>. QED BY <3>1, <1>2, <1>7, <1>10
  <2>2. CASE j = i
    <3>1. j - 1 \in 0 .. i - 1 BY <2>2, <1>0
    <3>2. s[i].tamanio # 0
      <4>1. i # n BY <1>0
      <4>. QED BY <4>1, <1>20, <1>2
    <3>3. x.tamanio # 0 BY <3>2, <1>3, <1>21
    <3>4. x.inicio = Fin(r, i - 1) BY <3>1, <2>2, <1>3, <1>20, <1>2, <1>10
    <3>. QED BY <2>2, <3>3, <3>4, <1>3, <1>7
  <2>3. CASE j > i
    <3>1. j \in i + 1 .. n - 1 /\ j + 1 \in 1 .. n /\ (j + 1) - 1 = j /\ j - 1 \in i .. n - 1
          /\ (j - 1) + 1 = j
      BY <2>3, <1>0
    <3>2. Fin(r, j - 1) = Fin(s, j)
      <4>1. Fin(r, j - 1) = Fin(s, (j - 1) + 1) BY <3>1, <1>11
      <4>. QED BY <4>1, <3>1
    <3>3. s[j + 1].inicio = Fin(s, j)
      <4>1. s[j + 1].inicio = Fin(s, (j + 1) - 1) BY <3>1, <1>2
      <4>. QED BY <4>1, <3>1
    <3>4. s[j + 1].tamanio = 0 => EsLibre(s[j + 1]) /\ j + 1 = n BY <3>1, <1>2
    <3>5. j + 1 = n => j = n - 1 BY <1>0
    <3>. QED BY <3>1, <3>2, <3>3, <3>4, <3>5, <1>9
  <2>. QED BY <2>1, <2>2, <2>3, <1>0
<1>120. ASSUME NEW j \in 1 .. n - 1 PROVE Limpio(r[j])
  <2>0. \A k \in 1 .. n : Limpio(s[k]) BY DEF n, Casi
  <2>1. CASE j < i
    <3>1. j \in 1 .. i - 1 /\ j \in 1 .. n BY <2>1, <1>0
    <3>. QED BY <3>1, <2>0, <1>7
  <2>2. CASE j = i
    <3>1. x.indice = s[i].indice /\ x.puntero = s[i].puntero BY <1>1, <1>21 DEF Seg
    <3>2. Limpio(s[i]) BY <2>0, <1>20
    <3>. QED BY <2>2, <3>1, <3>2, <1>7 DEF Limpio
  <2>3. CASE j > i
    <3>1. j \in i + 1 .. n - 1 /\ j + 1 \in 1 .. n BY <2>3, <1>0
    <3>2. (EsLibre(r[j]) <=> EsLibre(s[j + 1])) /\ Cosa(r[j]) = Cosa(s[j + 1]) BY <3>1, <1>9
    <3>3. r[j].indice = s[j + 1].indice /\ r[j].puntero = s[j + 1].puntero BY <3>2 DEF Cosa
    <3>4. Limpio(s[j + 1]) BY <3>1, <2>0
    <3>. QED BY <3>2, <3>3, <3>4 DEF Limpio
  <2>. QED BY <2>1, <2>2, <2>3, <1>0
<1>13. Casi(r)
  <2>1. Fin(r, n - 1) = TAMANIO_MEMORIA
    <3>1. n - 1 \in i .. n - 1 /\ (n - 1) + 1 = n BY <1>0
    <3>2. Fin(s, n) = TAMANIO_MEMORIA BY DEF Casi, n
    <3>3. Fin(r, n - 1) = Fin(s, (n - 1) + 1) BY <3>1, <1>11
    <3>. QED BY <3>1, <3>2, <3>3
  <2>2. n - 1 >= 1 BY <1>0
  <2>. QED BY <2>1, <2>2, <1>8, <1>12, <1>120 DEF Casi
<1>14. FundidoMenos(r, T)
  <2>0. \A j \in 1 .. n - 1 : j \notin T /\ j # i => ~(EsLibre(s[j]) /\ EsLibre(s[j + 1]))
    BY DEF FundidoMenos, n
  <2>1. ASSUME NEW j \in 1 .. n - 2, j \notin T PROVE ~(EsLibre(r[j]) /\ EsLibre(r[j + 1]))
    <3>1. CASE j < i - 1
      <4>1. j \in 1 .. i - 1 /\ j + 1 \in 1 .. i - 1 /\ j \in 1 .. n - 1 /\ j # i BY <3>1, <1>0
      <4>. QED BY <4>1, <2>0, <2>1, <1>7
    <3>2. CASE j = i - 1
      <4>1. j \in 1 .. i - 1 /\ j + 1 = i /\ j \in 1 .. n - 1 /\ j # i BY <3>2, <1>0
      <4>2. ~(EsLibre(s[j]) /\ EsLibre(s[i])) BY <4>1, <2>0, <2>1
      <4>. QED BY <4>1, <4>2, <1>7
    <3>3. CASE j >= i
      <4>1. j + 1 \in i + 1 .. n - 1 /\ j + 1 \in 1 .. n - 1 /\ j + 1 # i /\ ~(j + 1 < i)
        BY <3>3, <1>0
      <4>2. j + 1 \notin T BY <4>1
      <4>3. ~(EsLibre(s[j + 1]) /\ EsLibre(s[(j + 1) + 1])) BY <4>1, <4>2, <2>0
      <4>4. EsLibre(r[j + 1]) <=> EsLibre(s[(j + 1) + 1]) BY <4>1, <1>9
      <4>5. EsLibre(r[j]) => EsLibre(s[j + 1])
        <5>1. CASE j = i BY <5>1
        <5>2. CASE j # i
          <6>1. j \in i + 1 .. n - 1 BY <5>2, <3>3, <1>0
          <6>. QED BY <6>1, <1>9
        <5>. QED BY <5>1, <5>2
      <4>. QED BY <4>3, <4>4, <4>5
    <3>. QED BY <3>1, <3>2, <3>3, <1>0
  <2>2. Len(r) - 1 = n - 2 BY <1>8, <1>0
  <2>. QED BY <2>1, <2>2 DEF FundidoMenos
<1>15. BytesLibres(r, Len(r)) = BytesLibres(s, Len(s))
  <2>1. r \in Seq(Seg) /\ s \in Seq(Seg) /\ Len(s) = Len(r) + 1 /\ i \in 1 .. Len(r)
    BY <1>0, <1>8 DEF n
  <2>2. \A j \in 1 .. i - 1 : Aporte(s[j]) = Aporte(r[j]) BY <1>7
  <2>3. \A j \in 1 .. Len(r) : j > i => Aporte(s[j + 1]) = Aporte(r[j])
    <3>1. \A j \in 1 .. Len(r) : j > i => j \in i + 1 .. n - 1 BY <1>8, <1>0
    <3>. QED BY <3>1, <1>9
  <2>4. BytesLibres(s, Len(s)) + Aporte(r[i])
          = BytesLibres(r, Len(r)) + Aporte(s[i]) + Aporte(s[i + 1])
    BY <2>1, <2>2, <2>3, LibresDos
  <2>5. BytesLibres(r, Len(r)) \in Nat /\ BytesLibres(s, Len(s)) \in Nat
    <3>1. Len(r) \in Nat /\ Len(s) \in Nat BY <2>1
    <3>. QED BY <3>1, <2>1, LibresPasos
  <2>6. PICK u, v, y, z : u = BytesLibres(r, Len(r)) /\ v = BytesLibres(s, Len(s))
                          /\ y = s[i].tamanio /\ z = s[i + 1].tamanio
    OBVIOUS
  <2>7. v + (y + z) = u + y + z BY <2>4, <2>6, <1>4, <1>7
  <2>8. u \in Nat /\ v \in Nat /\ y \in Nat /\ z \in Nat BY <2>5, <2>6, <1>21
  <2>9. u = v BY <2>7, <2>8
  <2>. QED BY <2>6, <2>9
<1>16. Contenido(r) = Contenido(s)
  <2>. DEFINE O(l) == {j \in 1 .. Len(l) : Ocupado(l[j])}
  <2>0. Len(s) = n /\ Len(r) = n - 1 BY <1>8 DEF n
  <2>1. ASSUME NEW j \in O(r) PROVE Cosa(r[j]) \in Contenido(s)
    <3>0. j \in 1 .. n - 1 /\ Ocupado(r[j]) BY <2>0
    <3>1. CASE j < i
      <4>1. j \in 1 .. i - 1 /\ j \in 1 .. n BY <3>0, <3>1, <1>0
      <4>. QED BY <2>0, <3>0, <4>1, <1>7 DEF Contenido
    <3>2. CASE j = i BY <3>0, <3>2, <1>4, <1>7 DEF Ocupado, EsLibre
    <3>3. CASE j > i
      <4>1. j \in i + 1 .. n - 1 /\ j + 1 \in 1 .. n BY <3>0, <3>3, <1>0
      <4>2. Ocupado(s[j + 1]) /\ Cosa(r[j]) = Cosa(s[j + 1])
        BY <3>0, <4>1, <1>9 DEF Ocupado, EsLibre
      <4>. QED BY <2>0, <4>1, <4>2 DEF Contenido
    <3>. QED BY <3>0, <3>1, <3>2, <3>3, <1>0
  <2>2. ASSUME NEW j \in O(s) PROVE Cosa(s[j]) \in Contenido(r)
    <3>0. j \in 1 .. n /\ Ocupado(s[j]) BY <2>0
    <3>1. CASE j < i
      <4>1. j \in 1 .. i - 1 /\ j \in 1 .. n - 1 BY <3>0, <3>1, <1>0
      <4>. QED BY <2>0, <3>0, <4>1, <1>7 DEF Contenido
    <3>2. CASE j = i \/ j = i + 1 BY <3>0, <3>2 DEF Ocupado, EsLibre
    <3>3. CASE j > i + 1
      <4>1. j - 1 \in i + 1 .. n - 1 /\ j - 1 \in 1 .. n - 1 /\ (j - 1) + 1 = j
        BY <3>0, <3>3, <1>0
      <4>2. Ocupado(r[j - 1]) /\ Cosa(r[j - 1]) = Cosa(s[j])
        <5>1. (EsLibre(r[j - 1]) <=> EsLibre(s[(j - 1) + 1]))
              /\ Cosa(r[j - 1]) = Cosa(s[(j - 1) + 1])
          BY <4>1, <1>9
        <5>. QED BY <3>0, <4>1, <5>1 DEF Ocupado, EsLibre
      <4>3. Cosa(r[j - 1]) \in Contenido(r) BY <2>0, <4>1, <4>2 DEF Contenido
      <4>. QED BY <4>2, <4>3
    <3>. QED BY <3>0, <3>1, <3>2, <3>3, <1>0
  <2>. QED BY <2>1, <2>2 DEF Contenido
<1>. QED BY <1>4, <1>7, <1>8, <1>13, <1>14, <1>15, <1>16 DEF n
\* the content without what one segment held
Sin(C, x) == C \ {x}

\* Freeing a segment gives its bytes back; only its two borders may need merging.
LEMMA LiberarBien ==
  ASSUME NEW s, Ordenado(s), NEW i \in 1 .. Len(s), Ocupado(s[i]),
         NEW r, r = Liberar(s, i), NEW T, T = {i - 1, i},
         NEW x, x = Cosa(s[i])
  PROVE  /\ Casi(r) /\ FundidoMenos(r, T) /\ Len(r) = Len(s)
         /\ BytesLibres(r, Len(r)) = BytesLibres(s, Len(s)) + s[i].tamanio
         /\ Contenido(r) = Sin(Contenido(s), x)
         /\ EsLibre(r[i])
<1>. DEFINE n == Len(s)
<1>0. s \in Seq(Seg) /\ n \in Nat /\ Casi(s) BY DEF Ordenado, Casi
<1>1. PICK y : y = SegmentoLibre(s[i].n_segmento, s[i].inicio, s[i].tamanio) OBVIOUS
<1>2. s[i].n_segmento \in Nat /\ s[i].inicio \in Nat /\ s[i].tamanio \in Nat /\ s[i] \in Seg
  BY <1>0, SegTipo
<1>3. /\ y \in Seg /\ y.n_segmento = s[i].n_segmento /\ y.inicio = s[i].inicio
      /\ y.tamanio = s[i].tamanio /\ y.duenio = 0
  BY <1>1, <1>2 DEF SegmentoLibre, Segmento, Seg
<1>4. EsLibre(y) /\ ~Ocupado(y) /\ Aporte(y) = s[i].tamanio /\ Aporte(s[i]) = 0
  <2>1. EsLibre(y) /\ ~Ocupado(y) /\ ~EsLibre(s[i]) BY <1>3 DEF EsLibre, Ocupado
  <2>. QED BY <2>1, <1>3 DEF Aporte
<1>5. r = [s EXCEPT ![i] = y] BY <1>1 DEF Liberar
<1>6. r \in Seq(Seg) /\ Len(r) = n /\ r[i] = y /\ \A j \in 1 .. n : j # i => r[j] = s[j]
  <2>1. r \in Seq(Seg) /\ Len(r) = n BY <1>0, <1>3, <1>5
  <2>. QED BY <1>0, <1>5, <2>1
<1>7. \A j \in 0 .. n : Fin(r, j) = Fin(s, j) BY <1>3, <1>6 DEF Fin
<1>8. Casi(r)
  <2>1. ASSUME NEW j \in 1 .. n
        PROVE  /\ r[j].n_segmento = j - 1 /\ r[j].inicio = Fin(r, j - 1)
               /\ r[j].tamanio = 0 => EsLibre(r[j]) /\ j = n
    <3>1. /\ s[j].n_segmento = j - 1 /\ s[j].inicio = Fin(s, j - 1)
          /\ s[j].tamanio = 0 => EsLibre(s[j]) /\ j = n
      BY <1>0 DEF Casi
    <3>2. Fin(r, j - 1) = Fin(s, j - 1)
      <4>1. j - 1 \in 0 .. n BY <1>0
      <4>. QED BY <4>1, <1>7
    <3>. QED BY <3>1, <3>2, <1>3, <1>4, <1>6
  <2>2. n >= 1 /\ Fin(r, n) = TAMANIO_MEMORIA BY <1>0, <1>7 DEF Casi
  <2>3. \A j \in 1 .. n : Limpio(r[j])
    <3>1. Limpio(y) BY <1>1 DEF Limpio, SegmentoLibre, Segmento
    <3>2. \A j \in 1 .. n : Limpio(s[j]) BY <1>0 DEF Casi
    <3>. QED BY <3>1, <3>2, <1>6
  <2>. HIDE DEF n
  <2>. QED BY <2>1, <2>2, <2>3, <1>6 DEF Casi
<1>9. FundidoMenos(r, {i - 1, i})
  <2>1. ASSUME NEW j \in 1 .. n - 1, j \notin {i - 1, i} PROVE ~(EsLibre(r[j]) /\ EsLibre(r[j + 1]))
    <3>1. ~(EsLibre(s[j]) /\ EsLibre(s[j + 1])) BY DEF Ordenado, Fundido
    <3>2. j \in 1 .. n /\ j + 1 \in 1 .. n /\ j # i /\ j + 1 # i BY <2>1, <1>0
    <3>. QED BY <3>1, <3>2, <1>6
  <2>. QED BY <2>1, <1>6 DEF FundidoMenos
<1>10. BytesLibres(r, Len(r)) = BytesLibres(s, Len(s)) + s[i].tamanio
  <2>1. BytesLibres(r, Len(r)) + Aporte(s[i]) = BytesLibres(s, Len(s)) + Aporte(r[i])
    BY <1>0, <1>6, LibresUno
  <2>2. BytesLibres(r, Len(r)) \in Nat
    <3>1. Len(r) \in Nat BY <1>0, <1>6
    <3>. QED BY <3>1, <1>6, LibresPasos
  <2>. QED BY <2>1, <2>2, <1>4, <1>6
<1>11. Contenido(r) = Contenido(s) \ {x}
  <2>1. ASSUME NEW j \in 1 .. n, Ocupado(s[j]), Cosa(s[j]) = Cosa(s[i]) PROVE j = i
    <3>1. s[j].inicio = s[i].inicio BY <2>1 DEF Cosa
    <3>. QED BY <3>1, <1>0, InicioUnico
  <2>2. {j \in 1 .. Len(r) : Ocupado(r[j])} = {j \in 1 .. Len(s) : Ocupado(s[j])} \ {i}
    BY <1>4, <1>6
  <2>3. Contenido(r) = {Cosa(s[j]) : j \in {j \in 1 .. Len(s) : Ocupado(s[j])} \ {i}}
    BY <2>2, <1>6 DEF Contenido
  <2>. QED BY <2>1, <2>3 DEF Contenido
<1>. QED BY <1>4, <1>6, <1>8, <1>9, <1>10, <1>11 DEF Sin

\* eliminar_segmento, with its merges, keeps the list in order and takes out what the
\* segment held, and nothing else.
LEMMA EliminarBien ==
  ASSUME NEW s, Ordenado(s), NEW i \in 1 .. Len(s), Ocupado(s[i]),
         NEW r, r = eliminar_segmento(s, i), NEW x, x = Cosa(s[i])
  PROVE  /\ Ordenado(r)
         /\ BytesLibres(r, Len(r)) = BytesLibres(s, Len(s)) + s[i].tamanio
         /\ Contenido(r) = Sin(Contenido(s), x)
<1>0. s \in Seq(Seg) /\ Len(s) \in Nat /\ i \in Nat BY DEF Ordenado, Casi
<1>1. PICK l : l = Liberar(s, i) OBVIOUS
<1>11. PICK T : T = {i - 1, i} OBVIOUS
<1>2. /\ Casi(l) /\ FundidoMenos(l, T) /\ Len(l) = Len(s)
      /\ BytesLibres(l, Len(l)) = BytesLibres(s, Len(s)) + s[i].tamanio
      /\ Contenido(l) = Sin(Contenido(s), x)
      /\ \A j \in 1 .. Len(s) : j # i => l[j] = s[j]
      /\ EsLibre(l[i])
  <2>1. /\ Casi(l) /\ FundidoMenos(l, T) /\ Len(l) = Len(s)
        /\ BytesLibres(l, Len(l)) = BytesLibres(s, Len(s)) + s[i].tamanio
        /\ Contenido(l) = Sin(Contenido(s), x)
        /\ EsLibre(l[i])
    BY <1>1, <1>11, LiberarBien
  <2>2. \A j \in 1 .. Len(s) : j # i => l[j] = s[j] BY <1>0, <1>1 DEF Liberar
  <2>. QED BY <2>1, <2>2
<1>3. PICK c : c = ConSiguiente(l, i) OBVIOUS
<1>4. /\ Casi(c) /\ FundidoMenos(c, {i - 1}) /\ i <= Len(c)
      /\ BytesLibres(c, Len(c)) = BytesLibres(l, Len(l))
      /\ Contenido(c) = Contenido(l)
      /\ \A j \in 1 .. i - 1 : c[j] = l[j]
      /\ EsLibre(c[i])
  <2>1. CASE i < Len(l) /\ EsLibre(l[i + 1])
    <3>1. c = Absorber(l, i) BY <1>3, <2>1 DEF ConSiguiente
    <3>2. i \in 1 .. Len(l) - 1 BY <2>1, <1>0, <1>2
    <3>3. \A j \in {i - 1} : j < i BY <1>0
    <3>4. {i - 1} \union {i} = {i - 1, i} OBVIOUS
    <3>5. PICK U : U = {i - 1} OBVIOUS
    <3>6. FundidoMenos(l, U \union {i}) /\ \A j \in U : j < i
      BY <3>3, <3>4, <3>5, <1>2, <1>11
    <3>7. /\ Casi(c) /\ FundidoMenos(c, U) /\ Len(c) = Len(l) - 1
          /\ BytesLibres(c, Len(c)) = BytesLibres(l, Len(l))
          /\ Contenido(c) = Contenido(l)
          /\ \A j \in 1 .. i - 1 : c[j] = l[j]
          /\ EsLibre(c[i])
      BY <1>2, <2>1, <3>1, <3>2, <3>6, AbsorberBien
    <3>8. i <= Len(c) BY <3>7, <3>2, <1>0, <1>2
    <3>. QED BY <3>5, <3>7, <3>8
  <2>2. CASE ~(i < Len(l) /\ EsLibre(l[i + 1]))
    <3>1. c = l BY <1>3, <2>2 DEF ConSiguiente
    <3>2. FundidoMenos(l, {i - 1})
      <4>1. ASSUME NEW j \in 1 .. Len(l) - 1, j \notin {i - 1}
            PROVE  ~(EsLibre(l[j]) /\ EsLibre(l[j + 1]))
        <5>1. CASE j = i BY <5>1, <2>2, <1>2, <1>0
        <5>2. CASE j # i BY <5>2, <4>1, <1>2, <1>11 DEF FundidoMenos
        <5>. QED BY <5>1, <5>2
      <4>. QED BY <4>1 DEF FundidoMenos
    <3>3. i <= Len(c) BY <3>1, <1>2
    <3>. QED BY <3>1, <3>2, <3>3, <1>2
  <2>. QED BY <2>1, <2>2
<1>5. r = IF AnteriorLibre(s, i) THEN Absorber(c, i - 1) ELSE c
  BY <1>1, <1>3 DEF eliminar_segmento
<1>6. /\ Ordenado(r)
      /\ BytesLibres(r, Len(r)) = BytesLibres(c, Len(c))
      /\ Contenido(r) = Contenido(c)
  <2>1. CASE AnteriorLibre(s, i)
    <3>1. i > 1 /\ EsLibre(s[i - 1]) BY <2>1 DEF AnteriorLibre
    <3>2. PICK m : m = i - 1 OBVIOUS
    <3>3. Len(c) \in Nat BY <1>4 DEF Casi
    <3>4. m \in 1 .. Len(c) - 1 /\ m + 1 = i /\ m \in 1 .. i - 1 /\ m \in 1 .. Len(s) /\ m # i
      BY <3>1, <3>2, <3>3, <1>0, <1>4
    <3>5. EsLibre(c[m]) /\ EsLibre(c[m + 1])
      <4>1. c[m] = s[m] BY <3>4, <1>2, <1>4
      <4>. QED BY <4>1, <3>1, <3>2, <3>4, <1>4
    <3>6. PICK U : U = {} OBVIOUS
    <3>7. FundidoMenos(c, U \union {m}) /\ \A j \in U : j < m
      <4>1. U \union {m} = {i - 1} BY <3>2, <3>6
      <4>. QED BY <4>1, <3>6, <1>4
    <3>8. r = Absorber(c, m) BY <2>1, <3>2, <1>5
    <3>9. /\ Casi(r) /\ FundidoMenos(r, U)
          /\ BytesLibres(r, Len(r)) = BytesLibres(c, Len(c)) /\ Contenido(r) = Contenido(c)
      BY <3>4, <3>5, <3>7, <3>8, <1>4, AbsorberBien
    <3>10. Fundido(r) BY <3>6, <3>9 DEF Fundido, FundidoMenos
    <3>. QED BY <3>9, <3>10 DEF Ordenado
  <2>2. CASE ~AnteriorLibre(s, i)
    <3>1. r = c BY <2>2, <1>5
    <3>2. ASSUME NEW j \in 1 .. Len(c) - 1 PROVE ~(EsLibre(c[j]) /\ EsLibre(c[j + 1]))
      <4>1. CASE j = i - 1
        <5>1. i > 1 /\ j \in 1 .. i - 1 /\ j \in 1 .. Len(s) /\ j # i BY <4>1, <1>0
        <5>2. ~EsLibre(s[i - 1]) BY <5>1, <2>2 DEF AnteriorLibre
        <5>3. c[j] = s[j] BY <5>1, <1>2, <1>4
        <5>. QED BY <5>2, <5>3, <4>1
      <4>2. CASE j # i - 1 BY <4>2, <1>4 DEF FundidoMenos
      <4>. QED BY <4>1, <4>2
    <3>3. Fundido(c) BY <3>2 DEF Fundido
    <3>. QED BY <3>1, <3>3, <1>4 DEF Ordenado
  <2>. QED BY <2>1, <2>2
<1>. QED BY <1>2, <1>4, <1>6
-----------------------------------------------------------------------------
(* Compaction *)

\* The free bytes before a place are among the bytes before it.
LEMMA LibresCaben ==
  ASSUME NEW s, Casi(s), NEW m \in 0 .. Len(s)
  PROVE  BytesLibres(s, m) <= Fin(s, m) /\ BytesLibres(s, m) \in Nat /\ Fin(s, m) \in Nat
<1>. DEFINE I == {k \in Nat : k <= Len(s) => BytesLibres(s, k) <= Fin(s, k)}
<1>0. s \in Seq(Seg) /\ Len(s) \in Nat BY DEF Casi
<1>01. \A k \in 0 .. Len(s) : BytesLibres(s, k) \in Nat /\ Fin(s, k) \in Nat
  <2>1. \A k \in 1 .. Len(s) : Fin(s, k) \in Nat BY <1>0, SegTipo
  <2>2. Fin(s, 0) \in Nat BY DEF Fin
  <2>3. \A k \in 0 .. Len(s) : k = 0 \/ k \in 1 .. Len(s) BY <1>0
  <2>. QED BY <2>1, <2>2, <2>3, <1>0, LibresPasos
<1>1. 0 \in I
  <2>1. BytesLibres(s, 0) = 0 /\ Fin(s, 0) = 0 BY <1>0, LibresPasos DEF Fin
  <2>. QED BY <2>1
<1>2. ASSUME NEW k \in Nat, k \in I PROVE k + 1 \in I
  <2>1. SUFFICES ASSUME k + 1 <= Len(s) PROVE BytesLibres(s, k + 1) <= Fin(s, k + 1) OBVIOUS
  <2>2. BytesLibres(s, k) <= Fin(s, k) BY <1>2, <2>1
  <2>3. k + 1 \in 1 .. Len(s) /\ (k + 1) - 1 = k /\ k \in 0 .. Len(s) BY <2>1
  <2>4. BytesLibres(s, k + 1) = BytesLibres(s, k) + Aporte(s[k + 1])
    <3>1. BytesLibres(s, k + 1) = BytesLibres(s, (k + 1) - 1) + Aporte(s[k + 1])
      BY <2>3, <1>0, LibresPasos
    <3>. QED BY <3>1, <2>3
  <2>5. Fin(s, k + 1) = Fin(s, k) + s[k + 1].tamanio
    <3>1. Fin(s, k + 1) = s[k + 1].inicio + s[k + 1].tamanio BY <2>3 DEF Fin
    <3>2. s[k + 1].inicio = Fin(s, (k + 1) - 1) BY <2>3 DEF Casi
    <3>. QED BY <3>1, <3>2, <2>3
  <2>6. s[k + 1].tamanio \in Nat BY <2>3, <1>0, SegTipo
  <2>7. Aporte(s[k + 1]) <= s[k + 1].tamanio /\ Aporte(s[k + 1]) \in Nat BY <2>6 DEF Aporte
  <2>8. BytesLibres(s, k) \in Nat /\ Fin(s, k) \in Nat BY <2>3, <1>01
  <2>. QED BY <2>2, <2>4, <2>5, <2>6, <2>7, <2>8
<1>3. m \in I
  <2>. HIDE DEF I
  <2>1. m \in Nat BY <1>0
  <2>. QED BY <1>1, <1>2, <2>1, InduccionNat
<1>. QED BY <1>3, <1>0, <1>01

\* There are no fewer free bytes further on.
LEMMA LibresCrece ==
  ASSUME NEW s \in Seq(Seg), NEW a \in 0 .. Len(s), NEW b \in 0 .. Len(s), a <= b
  PROVE  BytesLibres(s, a) <= BytesLibres(s, b)
<1>. DEFINE I == {k \in Nat : a + k <= Len(s) => BytesLibres(s, a) <= BytesLibres(s, a + k)}
<1>0. Len(s) \in Nat /\ a \in Nat OBVIOUS
<1>1. 0 \in I
  <2>1. a + 0 = a /\ BytesLibres(s, a) \in Nat BY <1>0, LibresPasos
  <2>. QED BY <2>1
<1>2. ASSUME NEW k \in Nat, k \in I PROVE k + 1 \in I
  <2>0. PICK c : c = a + k OBVIOUS
  <2>1. SUFFICES ASSUME c + 1 <= Len(s) PROVE BytesLibres(s, a) <= BytesLibres(s, c + 1)
    <3>1. a + (k + 1) = c + 1 BY <2>0
    <3>. QED BY <3>1
  <2>2. BytesLibres(s, a) <= BytesLibres(s, c) BY <1>2, <2>0, <2>1
  <2>3. c + 1 \in 1 .. Len(s) /\ (c + 1) - 1 = c /\ c \in Nat BY <2>0, <2>1
  <2>4. BytesLibres(s, c + 1) = BytesLibres(s, (c + 1) - 1) + Aporte(s[c + 1])
    BY <2>3, LibresPasos
  <2>5. Aporte(s[c + 1]) \in Nat BY <2>3, SegTipo
  <2>6. BytesLibres(s, c) \in Nat /\ BytesLibres(s, a) \in Nat BY <2>3, <1>0, LibresPasos
  <2>. QED BY <2>2, <2>3, <2>4, <2>5, <2>6
<1>3. b - a \in I
  <2>. HIDE DEF I
  <2>1. b - a \in Nat OBVIOUS
  <2>. QED BY <1>1, <1>2, <2>1, InduccionNat
<1>4. a + (b - a) = b OBVIOUS
<1>. QED BY <1>3, <1>4

\* If one begins where the one before ends, each begins at the sum of the ones before.
LEMMA SumaHasta ==
  ASSUME NEW s \in Seq(Seg), \A i \in 1 .. Len(s) : s[i].inicio = Fin(s, i - 1),
         NEW m \in 0 .. Len(s)
  PROVE  SumaTamanios(s, 1 .. m) = Fin(s, m)
<1>. DEFINE I == {k \in Nat : k <= Len(s) => SumaTamanios(s, 1 .. k) = Fin(s, k)}
<1>1. 0 \in I
  <2>1. 1 .. 0 = {} OBVIOUS
  <2>2. SumaTamanios(s, 1 .. 0) = 0 BY <2>1, SumaVacia
  <2>. QED BY <2>2 DEF Fin
<1>2. ASSUME NEW k \in Nat, k \in I PROVE k + 1 \in I
  <2>1. SUFFICES ASSUME k + 1 <= Len(s) PROVE SumaTamanios(s, 1 .. k + 1) = Fin(s, k + 1) OBVIOUS
  <2>2. SumaTamanios(s, 1 .. k) = Fin(s, k) BY <1>2, <2>1
  <2>3. k + 1 \in 1 .. Len(s) /\ (k + 1) - 1 = k /\ k + 1 # 0 BY <2>1
  <2>4. SumaTamanios(s, 1 .. k + 1) = SumaTamanios(s, 1 .. k) + s[k + 1].tamanio
    <3>1. PICK S : S = 1 .. k OBVIOUS
    <3>2. 1 .. k + 1 = S \union {k + 1} /\ k + 1 \notin S BY <3>1
    <3>3. SumaTamanios(s, S \union {k + 1}) = SumaTamanios(s, S) + s[k + 1].tamanio
      BY <2>3, <3>2, SumaMas
    <3>. QED BY <3>1, <3>2, <3>3
  <2>5. Fin(s, k + 1) = Fin(s, (k + 1) - 1) + s[k + 1].tamanio
    <3>1. Fin(s, k + 1) = s[k + 1].inicio + s[k + 1].tamanio BY <2>3 DEF Fin
    <3>. QED BY <3>1, <2>3
  <2>. QED BY <2>2, <2>3, <2>4, <2>5
<1>3. m \in I
  <2>. HIDE DEF I
  <2>1. m \in Nat OBVIOUS
  <2>. QED BY <1>1, <1>2, <2>1, InduccionNat
<1>. QED BY <1>3

\* Where the segment at i is after the compaction.
Casa(s, i) == s[i].inicio - BytesLibres(s, i - 1)

\* The place after the compaction is inside the memory, and never to the right.
LEMMA CasaTipo ==
  ASSUME NEW s, Casi(s), NEW i \in 1 .. Len(s)
  PROVE  Casa(s, i) \in Nat /\ Casa(s, i) <= s[i].inicio
         /\ Casa(s, i) = Fin(s, i - 1) - BytesLibres(s, i - 1)
<1>0. i - 1 \in 0 .. Len(s) /\ s[i].inicio = Fin(s, i - 1) BY DEF Casi
<1>1. /\ BytesLibres(s, i - 1) <= Fin(s, i - 1) /\ BytesLibres(s, i - 1) \in Nat
      /\ Fin(s, i - 1) \in Nat
  BY <1>0, LibresCaben
<1>. QED BY <1>0, <1>1 DEF Casa

\* the free segments among the first k
Libres(s, k) == {j \in 1 .. k : EsLibre(s[j])}

\* A segment slides by the free bytes before it.
LEMMA CorrimientoEs ==
  ASSUME NEW s, Casi(s), NEW i \in 1 .. Len(s)
  PROVE  /\ Corrimiento(s, i) = BytesLibres(s, i - 1)
         /\ Anteriores(s, i) = Libres(s, i - 1)
         /\ Corrimiento(s, i) = 0 => Libres(s, i - 1) = {}
<1>0. s \in Seq(Seg) BY DEF Casi
<1>1. Corrimiento(s, i) = BytesLibres(s, i - 1) BY DEF Corrimiento, Anteriores, BytesLibres
<1>2. Anteriores(s, i) = Libres(s, i - 1) BY DEF Anteriores, Libres
<1>3. ASSUME Corrimiento(s, i) = 0, NEW j \in Libres(s, i - 1) PROVE FALSE
  <2>1. j \in 1 .. Len(s) /\ j # Len(s) /\ EsLibre(s[j]) /\ j <= i - 1 BY <1>0 DEF Libres
  <2>2. s[j].tamanio # 0 /\ s[j].tamanio \in Nat BY <2>1, <1>0, SegTipo DEF Casi
  <2>3. BytesLibres(s, j) = BytesLibres(s, j - 1) + s[j].tamanio
    BY <2>1, <1>0, LibresPasos DEF Aporte
  <2>4. BytesLibres(s, j - 1) \in Nat
    <3>1. j - 1 \in Nat BY <2>1
    <3>. QED BY <3>1, <1>0, LibresPasos
  <2>5. BytesLibres(s, j) <= BytesLibres(s, i - 1)
    <3>1. j \in 0 .. Len(s) /\ i - 1 \in 0 .. Len(s) BY <2>1
    <3>. QED BY <3>1, <2>1, <1>0, LibresCrece
  <2>. QED BY <1>1, <1>3, <2>2, <2>3, <2>4, <2>5
<1>. QED BY <1>1, <1>2, <1>3
\* the addresses of the memory
Lugares == 0 .. TAMANIO_MEMORIA

\* Nothing moves out of the memory.
LEMMA DondeTipo ==
  ASSUME NEW s, Casi(s), NEW p, NEW k, NEW antes \in Lugares
  PROVE  Donde(Mudanza(s), p, k, antes) \in Lugares
<1>. DEFINE suyos == {e.inicio : e \in {e \in Mudanza(s) : e.duenio = p /\ e.indice = k}}
<1>0. s \in Seq(Seg) /\ DOMAIN s = 1 .. Len(s) BY DEF Casi
<1>1. suyos \subseteq Lugares
  <2>1. ASSUME NEW e \in Mudanza(s) PROVE e.inicio \in Lugares
    <3>1. PICK i \in 1 .. Len(s) :
            e = [duenio |-> s[i].duenio, indice |-> s[i].indice,
                 inicio |-> s[i].inicio - Corrimiento(s, i)]
      BY <1>0 DEF Mudanza, Movidos
    <3>2. e.inicio = Casa(s, i) BY <3>1, CorrimientoEs DEF Casa
    <3>3. s[i].inicio <= TAMANIO_MEMORIA /\ s[i].inicio \in Nat BY <1>0, Dentro, SegTipo
    <3>4. Casa(s, i) \in Nat /\ Casa(s, i) <= s[i].inicio BY CasaTipo
    <3>. QED BY <3>2, <3>3, <3>4, MemoriaValida DEF Lugares
  <2>. QED BY <2>1
<1>2. Donde(Mudanza(s), p, k, antes) = IF suyos = {} THEN antes ELSE Min(suyos) BY DEF Donde
<1>. HIDE DEF suyos
<1>3. CASE suyos = {} BY <1>2, <1>3
<1>4. CASE suyos # {}
  <2>1. suyos \in SUBSET Nat BY <1>1 DEF Lugares
  <2>2. Min(suyos) \in suyos BY <2>1, <1>4, MinimoDe
  <2>. QED BY <2>2, <1>1, <1>2, <1>4
<1>. QED BY <1>3, <1>4

\* Each element has at most one segment.
Unicas(s) ==
  \A i \in 1 .. Len(s), j \in 1 .. Len(s) :
    Ocupado(s[i]) /\ s[j].duenio = s[i].duenio /\ s[j].indice = s[i].indice => j = i

\* An element with a segment goes where its segment goes.
LEMMA DondeEs ==
  ASSUME NEW s, Casi(s), Unicas(s), NEW i \in 1 .. Len(s), Ocupado(s[i])
  PROVE  Donde(Mudanza(s), s[i].duenio, s[i].indice, s[i].inicio) = Casa(s, i)
<1>. DEFINE p == s[i].duenio
            k == s[i].indice
            filas == {e \in Mudanza(s) : e.duenio = p /\ e.indice = k}
            suyos == {e.inicio : e \in filas}
            mia == [duenio |-> p, indice |-> k, inicio |-> s[i].inicio - Corrimiento(s, i)]
<1>0. s \in Seq(Seg) /\ DOMAIN s = 1 .. Len(s) BY DEF Casi
<1>1. mia.inicio = Casa(s, i) /\ mia.duenio = p /\ mia.indice = k BY CorrimientoEs DEF Casa
<1>2. ASSUME NEW e \in filas PROVE e = mia /\ i \in Movidos(s)
  <2>1. PICK j \in Movidos(s) :
          e = [duenio |-> s[j].duenio, indice |-> s[j].indice,
               inicio |-> s[j].inicio - Corrimiento(s, j)]
    BY DEF Mudanza
  <2>2. e.duenio = s[j].duenio /\ e.indice = s[j].indice BY <2>1
  <2>3. s[j].duenio = p /\ s[j].indice = k BY <1>2, <2>2
  <2>4. j \in 1 .. Len(s) BY <1>0 DEF Movidos
  <2>5. j = i BY <2>3, <2>4 DEF Unicas
  <2>. QED BY <2>1, <2>5
<1>3. Donde(Mudanza(s), p, k, s[i].inicio) = IF suyos = {} THEN s[i].inicio ELSE Min(suyos)
  BY DEF Donde
<1>4. Casa(s, i) \in Nat BY CasaTipo
<1>5. CASE i \in Movidos(s)
  <2>1. mia \in Mudanza(s) BY <1>5 DEF Mudanza
  <2>2. mia \in filas BY <2>1, <1>1
  <2>3. filas = {mia} BY <2>2, <1>2
  <2>4. suyos = {Casa(s, i)}
    <3>. HIDE DEF filas, mia
    <3>. QED BY <2>3, <1>1
  <2>5. Min({Casa(s, i)}) = Casa(s, i)
    <3>1. PICK c : c = Casa(s, i) OBVIOUS
    <3>2. {c} \in SUBSET Nat /\ {c} # {} BY <3>1, <1>4
    <3>3. Min({c}) \in {c} BY <3>2, MinimoDe
    <3>. QED BY <3>1, <3>3
  <2>. HIDE DEF suyos
  <2>. QED BY <2>4, <2>5, <1>3
<1>6. CASE i \notin Movidos(s)
  <2>1. filas = {} BY <1>2, <1>6
  <2>2. suyos = {}
    <3>. HIDE DEF filas
    <3>. QED BY <2>1
  <2>3. Corrimiento(s, i) = 0
    <3>1. Corrimiento(s, i) \in Nat BY <1>0, SumaTipo DEF Corrimiento
    <3>. QED BY <3>1, <1>0, <1>6 DEF Movidos
  <2>4. Casa(s, i) = s[i].inicio
    <3>1. s[i].inicio \in Nat BY <1>0, SegTipo
    <3>2. BytesLibres(s, i - 1) = 0 BY <2>3, CorrimientoEs
    <3>. QED BY <3>1, <3>2 DEF Casa
  <2>. HIDE DEF suyos
  <2>. QED BY <2>2, <2>4, <1>3
<1>. QED BY <1>5, <1>6

\* What has no segment does not move.
LEMMA DondeNada ==
  ASSUME NEW s, NEW p, NEW k, NEW antes,
         \A i \in DOMAIN s : Ocupado(s[i]) => ~(s[i].duenio = p /\ s[i].indice = k)
  PROVE  Donde(Mudanza(s), p, k, antes) = antes
<1>. DEFINE filas == {e \in Mudanza(s) : e.duenio = p /\ e.indice = k}
            suyos == {e.inicio : e \in filas}
<1>1. filas = {}
  <2>1. ASSUME NEW e \in Mudanza(s) PROVE ~(e.duenio = p /\ e.indice = k)
    <3>1. PICK j \in Movidos(s) :
            e = [duenio |-> s[j].duenio, indice |-> s[j].indice,
                 inicio |-> s[j].inicio - Corrimiento(s, j)]
      BY DEF Mudanza
    <3>2. e.duenio = s[j].duenio /\ e.indice = s[j].indice BY <3>1
    <3>. QED BY <3>2 DEF Movidos
  <2>. QED BY <2>1
<1>2. suyos = {}
  <2>. HIDE DEF filas
  <2>. QED BY <1>1
<1>. QED BY <1>2 DEF Donde

\* Deslizar: the segment goes home, with the number of those before it.
LEMMA DeslizarBien ==
  ASSUME NEW s, Casi(s), NEW i \in 1 .. Len(s), Ocupado(s[i]), s[i].puntero \in Lugares,
         NEW z, z = Deslizar(s, Mudanza(s), i)
  PROVE  /\ z \in Seg
         /\ z.n_segmento = i - 1 - Cardinality(Libres(s, i - 1))
         /\ z.inicio = Casa(s, i) /\ z.tamanio = s[i].tamanio
         /\ z.duenio = s[i].duenio /\ z.indice = s[i].indice
         /\ z.puntero = MoverPuntero(Mudanza(s), s[i])
<1>. DEFINE n == i - 1 - Cardinality(Libres(s, i - 1))
<1>0. s \in Seq(Seg) /\ s[i] \in Seg /\ s[i].n_segmento = i - 1 BY DEF Casi
<1>1. PICK pun : pun = MoverPuntero(Mudanza(s), s[i]) OBVIOUS
<1>2. pun \in Nat
  <2>1. pun \in Lugares BY <1>1, DondeTipo DEF MoverPuntero
  <2>. QED BY <2>1 DEF Lugares
<1>3. n \in Nat
  <2>1. Libres(s, i - 1) \subseteq 1 .. i - 1 BY DEF Libres
  <2>2. IsFiniteSet(1 .. i - 1) /\ Cardinality(1 .. i - 1) = i - 1
    <3>1. PICK m : m = i - 1 OBVIOUS
    <3>2. 1 \in Int /\ m \in Int /\ m >= 0 BY <3>1
    <3>3. IsFiniteSet(1 .. m) /\ Cardinality(1 .. m) = IF 1 > m THEN 0 ELSE m - 1 + 1
      BY <3>2, FS_Interval
    <3>. QED BY <3>1, <3>2, <3>3
  <2>3. Cardinality(Libres(s, i - 1)) <= i - 1 /\ IsFiniteSet(Libres(s, i - 1))
    BY <2>1, <2>2, FS_Subset
  <2>4. Cardinality(Libres(s, i - 1)) \in Nat BY <2>3, FS_CardinalityType
  <2>. QED BY <2>3, <2>4
<1>4. PICK t : t = [s[i] EXCEPT !.puntero = pun] OBVIOUS
<1>5. /\ t \in Seg /\ t.n_segmento = s[i].n_segmento /\ t.inicio = s[i].inicio
      /\ t.tamanio = s[i].tamanio /\ t.duenio = s[i].duenio /\ t.indice = s[i].indice
      /\ t.puntero = pun
  BY <1>0, <1>2, <1>4 DEF Seg
<1>6. z = IF Corrimiento(s, i) > 0
          THEN [t EXCEPT !.n_segmento = Renumerar(s, i), !.inicio = @ - Corrimiento(s, i)]
          ELSE t
  BY <1>1, <1>4 DEF Deslizar
<1>7. /\ Renumerar(s, i) = n
      /\ t.inicio - Corrimiento(s, i) = Casa(s, i)
  BY <1>0, <1>5, CorrimientoEs DEF Renumerar, Casa
<1>8. Casa(s, i) \in Nat BY CasaTipo
<1>9. CASE Corrimiento(s, i) > 0
  <2>1. z = [t EXCEPT !.n_segmento = n, !.inicio = Casa(s, i)] BY <1>6, <1>7, <1>9
  <2>. HIDE DEF n
  <2>2. /\ z \in Seg /\ z.n_segmento = n /\ z.inicio = Casa(s, i) /\ z.tamanio = t.tamanio
        /\ z.duenio = t.duenio /\ z.indice = t.indice /\ z.puntero = t.puntero
    BY <2>1, <1>3, <1>5, <1>8 DEF Seg
  <2>. QED BY <2>2, <1>1, <1>5 DEF n
<1>10. CASE ~(Corrimiento(s, i) > 0)
  <2>1. Corrimiento(s, i) = 0
    <3>1. Corrimiento(s, i) \in Nat BY <1>0, SumaTipo DEF Corrimiento
    <3>. QED BY <3>1, <1>10
  <2>2. z = t BY <1>6, <1>10
  <2>3. n = i - 1
    <3>1. Libres(s, i - 1) = {} BY <2>1, CorrimientoEs
    <3>2. Cardinality(Libres(s, i - 1)) = 0 BY <3>1, FS_EmptySet
    <3>. QED BY <3>2
  <2>4. Casa(s, i) = s[i].inicio
    <3>1. s[i].inicio \in Nat BY <1>0, SegTipo
    <3>. QED BY <3>1, <2>1, <1>5, <1>7
  <2>. HIDE DEF n
  <2>. QED BY <2>2, <2>3, <2>4, <1>0, <1>1, <1>5 DEF n
<1>. QED BY <1>9, <1>10
\* The list that the compaction builds exists: each prefix adds at most one segment.
LEMMA DeslizadosForma ==
  ASSUME NEW s, Casi(s), \A i \in 1 .. Len(s) : s[i].puntero \in Lugares
  PROVE  \E f : /\ f \in [0 .. Len(s) -> Seq(Seg)] /\ f[0] = <<>>
                /\ \A i \in 1 .. Len(s) :
                     f[i] = IF EsLibre(s[i]) THEN f[i - 1]
                            ELSE Append(f[i - 1], Deslizar(s, Mudanza(s), i))
                /\ Deslizados(s, Mudanza(s)) = f[Len(s)]
<1>. DEFINE n == Len(s)
            M == Mudanza(s)
            Paso(i, l) == IF EsLibre(s[i]) THEN l ELSE Append(l, Deslizar(s, M, i))
            Hasta(k, f) == /\ f \in [0 .. k -> Seq(Seg)] /\ f[0] = <<>>
                           /\ \A i \in 1 .. k : f[i] = Paso(i, f[i - 1])
            I == {k \in Nat : k <= n => \E f : Hasta(k, f)}
<1>0. n \in Nat /\ s \in Seq(Seg) BY DEF Casi
<1>01. ASSUME NEW i \in 1 .. n, NEW l \in Seq(Seg) PROVE Paso(i, l) \in Seq(Seg)
  <2>1. CASE EsLibre(s[i]) BY <2>1
  <2>2. CASE ~EsLibre(s[i])
    <3>1. Deslizar(s, M, i) \in Seg BY <2>2, DeslizarBien DEF Ocupado, EsLibre
    <3>. QED BY <2>2, <3>1
  <2>. QED BY <2>1, <2>2
<1>. HIDE DEF Paso
<1>1. 0 \in I
  <2>1. Hasta(0, [i \in 0 .. 0 |-> <<>>]) OBVIOUS
  <2>. QED BY <2>1
<1>2. ASSUME NEW k \in Nat, k \in I PROVE k + 1 \in I
  <2>1. SUFFICES ASSUME k + 1 <= n PROVE \E f : Hasta(k + 1, f)
    <3>. HIDE DEF Hasta
    <3>. QED OBVIOUS
  <2>. HIDE DEF Hasta
  <2>2. PICK f : Hasta(k, f)
    <3>1. k <= n BY <2>1, <1>0
    <3>. QED BY <3>1, <1>2
  <2>. USE DEF Hasta
  <2>3. f[k] \in Seq(Seg) /\ k + 1 \in 1 .. n BY <1>0, <2>1, <2>2
  <2>4. Paso(k + 1, f[k]) \in Seq(Seg) BY <2>3, <1>01
  <2>. DEFINE g == [i \in 0 .. k + 1 |-> IF i = k + 1 THEN Paso(k + 1, f[k]) ELSE f[i]]
  <2>5. g \in [0 .. k + 1 -> Seq(Seg)] BY <2>2, <2>4
  <2>6. ASSUME NEW i \in 1 .. k + 1 PROVE g[i] = Paso(i, g[i - 1])
    <3>1. CASE i = k + 1
      <4>1. g[i] = Paso(k + 1, f[k]) /\ g[i - 1] = f[k] BY <3>1
      <4>. QED BY <3>1, <4>1
    <3>2. CASE i # k + 1
      <4>1. i \in 1 .. k /\ g[i] = f[i] /\ g[i - 1] = f[i - 1] BY <3>2
      <4>. QED BY <2>2, <4>1
    <3>. QED BY <3>1, <3>2
  <2>7. g[0] = <<>> BY <2>2
  <2>8. Hasta(k + 1, g) BY <2>5, <2>6, <2>7
  <2>. QED BY <2>8
<1>3. n \in I
  <2>. HIDE DEF I, n
  <2>. QED BY <1>0, <1>1, <1>2, InduccionNat
<1>4. \E f : Hasta(n, f) BY <1>0, <1>3
<1>5. PICK f : Hasta(n, f) BY <1>4
<1>. DEFINE G(g) == g = [i \in 0 .. n |-> IF i = 0 THEN <<>> ELSE Paso(i, g[i - 1])]
<1>6. G(f) BY <1>5
<1>7. PICK h : h = CHOOSE g : G(g) OBVIOUS
<1>8. G(h)
  <2>. HIDE DEF G
  <2>. QED BY <1>6, <1>7
<1>9. Deslizados(s, M) = h[n]
  <2>. DEFINE H(g) == g = [i \in 0 .. n |-> IF i = 0 THEN <<>>
                                            ELSE IF EsLibre(s[i]) THEN g[i - 1]
                                            ELSE Append(g[i - 1], Deslizar(s, M, i))]
  <2>1. Deslizados(s, M) = (CHOOSE g : H(g))[n] BY DEF Deslizados
  <2>2. \A g : H(g) <=> G(g) BY DEF Paso
  <2>3. (CHOOSE g : H(g)) = (CHOOSE g : G(g))
    <3>. HIDE DEF G, H
    <3>. QED BY <2>2
  <2>. QED BY <1>7, <2>1, <2>3
<1>10. h = f
  <2>. DEFINE J == {k \in Nat : k <= n => h[k] = f[k]}
  <2>1. 0 \in J BY <1>5, <1>8
  <2>2. ASSUME NEW k \in Nat, k \in J PROVE k + 1 \in J
    <3>1. SUFFICES ASSUME k + 1 <= n PROVE h[k + 1] = f[k + 1] OBVIOUS
    <3>2. k + 1 \in 1 .. n /\ h[k] = f[k] BY <3>1, <2>2
    <3>3. h[k + 1] = Paso(k + 1, h[k]) BY <1>8, <3>2
    <3>4. f[k + 1] = Paso(k + 1, f[k]) BY <1>5, <3>2
    <3>. QED BY <3>2, <3>3, <3>4
  <2>3. \A k \in Nat : k \in J
    <3>. HIDE DEF J
    <3>. QED BY <2>1, <2>2, InduccionNat
  <2>4. \A k \in 0 .. n : h[k] = f[k] BY <2>3, <1>0
  <2>. QED BY <2>4, <1>5, <1>8
<1>. QED BY <1>5, <1>9, <1>10 DEF Paso

\* A run of occupied segments, numbered, one after another from the first byte.
Corrida(l) ==
  /\ l \in Seq(Seg)
  /\ \A i \in 1 .. Len(l) : /\ l[i].n_segmento = i - 1 /\ l[i].inicio = Fin(l, i - 1)
                            /\ l[i].tamanio # 0 /\ Ocupado(l[i])

\* A segment more at the end of a run.
LEMMA CorridaMas ==
  ASSUME NEW l, Corrida(l), NEW x \in Seg, x.n_segmento = Len(l), x.inicio = Fin(l, Len(l)),
         x.tamanio # 0, Ocupado(x), NEW r, r = Append(l, x)
  PROVE  /\ Corrida(r) /\ Len(r) = Len(l) + 1
         /\ Fin(r, Len(r)) = x.inicio + x.tamanio
         /\ Contenido(r) = Contenido(l) \union {Cosa(x)}
<1>. DEFINE n == Len(l)
<1>0. l \in Seq(Seg) /\ n \in Nat BY DEF Corrida
<1>1. /\ r \in Seq(Seg) /\ Len(r) = n + 1 /\ r[n + 1] = x /\ \A i \in 1 .. n : r[i] = l[i]
  BY <1>0
<1>2. \A i \in 0 .. n : Fin(r, i) = Fin(l, i) BY <1>1, <1>0 DEF Fin
<1>3. ASSUME NEW i \in 1 .. n + 1
      PROVE  /\ r[i].n_segmento = i - 1 /\ r[i].inicio = Fin(r, i - 1)
             /\ r[i].tamanio # 0 /\ Ocupado(r[i])
  <2>1. i - 1 \in 0 .. n BY <1>0
  <2>2. CASE i = n + 1
    <3>1. i - 1 = n BY <2>2, <1>0
    <3>. QED BY <2>2, <3>1, <2>1, <1>1, <1>2
  <2>3. CASE i # n + 1
    <3>1. i \in 1 .. n BY <2>3, <1>0
    <3>. QED BY <3>1, <2>1, <1>1, <1>2 DEF Corrida
  <2>. QED BY <2>2, <2>3
<1>4. Corrida(r) BY <1>1, <1>3 DEF Corrida
<1>5. Fin(r, Len(r)) = x.inicio + x.tamanio
  <2>1. n + 1 # 0 BY <1>0
  <2>. QED BY <2>1, <1>1 DEF Fin
<1>6. Contenido(r) = Contenido(l) \union {Cosa(x)}
  <2>1. {j \in 1 .. Len(r) : Ocupado(r[j])} = {j \in 1 .. Len(l) : Ocupado(l[j])} \union {n + 1}
    <3>1. 1 .. Len(r) = (1 .. n) \union {n + 1} BY <1>0, <1>1
    <3>. QED BY <3>1, <1>1
  <2>. QED BY <2>1, <1>0, <1>1 DEF Contenido
<1>. QED BY <1>1, <1>4, <1>5, <1>6
\* What the first k segments hold after the compaction.
Mudados(s, k) == {Cosa(Deslizar(s, Mudanza(s), i)) : i \in {j \in 1 .. k : Ocupado(s[j])}}

\* The number of free segments, place by place.
LEMMA LibresMas ==
  ASSUME NEW s \in Seq(Seg), NEW k \in Nat
  PROVE  /\ EsLibre(s[k + 1]) =>
              Cardinality(Libres(s, k + 1)) = Cardinality(Libres(s, k)) + 1
         /\ ~EsLibre(s[k + 1]) => Libres(s, k + 1) = Libres(s, k)
         /\ Cardinality(Libres(s, k)) \in Nat
<1>1. IsFiniteSet(Libres(s, k))
  <2>1. Libres(s, k) \subseteq 1 .. k BY DEF Libres
  <2>2. IsFiniteSet(1 .. k)
    <3>1. 1 \in Int /\ k \in Int OBVIOUS
    <3>. QED BY <3>1, FS_Interval
  <2>. QED BY <2>1, <2>2, FS_Subset
<1>2. k + 1 \notin Libres(s, k) BY DEF Libres
<1>3. EsLibre(s[k + 1]) => Libres(s, k + 1) = Libres(s, k) \union {k + 1} BY DEF Libres
<1>4. ~EsLibre(s[k + 1]) => Libres(s, k + 1) = Libres(s, k) BY DEF Libres
<1>5. Cardinality(Libres(s, k) \union {k + 1}) = Cardinality(Libres(s, k)) + 1
  BY <1>1, <1>2, FS_AddElement
<1>6. Cardinality(Libres(s, k)) \in Nat BY <1>1, FS_CardinalityType
<1>. QED BY <1>3, <1>4, <1>5, <1>6

\* The slid segments are a run that ends where the free bytes begin, and hold what the
\* list held, each with its new address and pointer.
LEMMA DeslizadosBien ==
  ASSUME NEW s, Casi(s), \A i \in 1 .. Len(s) : s[i].puntero \in Lugares,
         NEW l, l = Deslizados(s, Mudanza(s))
  PROVE  /\ Corrida(l)
         /\ Fin(l, Len(l)) = TAMANIO_MEMORIA - BytesLibres(s, Len(s))
         /\ Contenido(l) = Mudados(s, Len(s))
<1>. DEFINE n == Len(s)
<1>0. n \in Nat /\ s \in Seq(Seg) BY DEF Casi
<1>1. PICK f : /\ f \in [0 .. n -> Seq(Seg)] /\ f[0] = <<>>
               /\ \A i \in 1 .. n :
                    f[i] = IF EsLibre(s[i]) THEN f[i - 1]
                           ELSE Append(f[i - 1], Deslizar(s, Mudanza(s), i))
               /\ l = f[n]
  BY DeslizadosForma
<1>. DEFINE Bien(k) == /\ Corrida(f[k])
                       /\ Len(f[k]) = k - Cardinality(Libres(s, k))
                       /\ Fin(f[k], Len(f[k])) = Fin(s, k) - BytesLibres(s, k)
                       /\ Contenido(f[k]) = Mudados(s, k)
            I == {k \in Nat : k <= n => Bien(k)}
<1>2. 0 \in I
  <2>1. Corrida(f[0])
    <3>1. f[0] = <<>> /\ Len(<<>>) = 0 /\ <<>> \in Seq(Seg) BY <1>1
    <3>. QED BY <3>1 DEF Corrida
  <2>2. Libres(s, 0) = {} /\ Cardinality({}) = 0
    <3>1. 1 .. 0 = {} OBVIOUS
    <3>. QED BY <3>1, FS_EmptySet DEF Libres
  <2>3. Len(f[0]) = 0 BY <1>1
  <2>4. Fin(f[0], 0) = 0 /\ Fin(s, 0) = 0 /\ BytesLibres(s, 0) = 0
    BY <1>0, LibresPasos DEF Fin
  <2>5. Contenido(f[0]) = {} /\ Mudados(s, 0) = {}
    <3>1. 1 .. 0 = {} OBVIOUS
    <3>. QED BY <3>1, <2>3 DEF Contenido, Mudados
  <2>6. Bien(0)
    <3>1. Len(f[0]) = 0 - Cardinality(Libres(s, 0)) BY <2>2, <2>3
    <3>2. Fin(f[0], Len(f[0])) = Fin(s, 0) - BytesLibres(s, 0) BY <2>3, <2>4
    <3>. QED BY <2>1, <2>5, <3>1, <3>2
  <2>. HIDE DEF Bien
  <2>. QED BY <2>6
<1>3. ASSUME NEW k \in Nat, k \in I PROVE k + 1 \in I
  <2>1. SUFFICES ASSUME k + 1 <= n PROVE Bien(k + 1)
    <3>. HIDE DEF Bien
    <3>. QED OBVIOUS
  <2>2. Bien(k)
    <3>. HIDE DEF Bien
    <3>1. k <= n BY <2>1, <1>0
    <3>. QED BY <1>3, <3>1
  <2>3. k + 1 \in 1 .. n /\ (k + 1) - 1 = k /\ k \in 0 .. n BY <1>0, <2>1
  <2>4. f[k + 1] = IF EsLibre(s[k + 1]) THEN f[k]
                   ELSE Append(f[k], Deslizar(s, Mudanza(s), k + 1))
    BY <1>1, <2>3
  <2>5. BytesLibres(s, k + 1) = BytesLibres(s, k) + Aporte(s[k + 1])
    <3>1. BytesLibres(s, k + 1) = BytesLibres(s, (k + 1) - 1) + Aporte(s[k + 1])
      BY <2>3, <1>0, LibresPasos
    <3>. QED BY <3>1, <2>3
  <2>6. Fin(s, k + 1) = Fin(s, k) + s[k + 1].tamanio
    <3>1. Fin(s, k + 1) = s[k + 1].inicio + s[k + 1].tamanio BY <2>3 DEF Fin
    <3>2. s[k + 1].inicio = Fin(s, (k + 1) - 1) BY <2>3 DEF Casi
    <3>. QED BY <3>1, <3>2, <2>3
  <2>7. /\ BytesLibres(s, k) <= Fin(s, k) /\ BytesLibres(s, k) \in Nat /\ Fin(s, k) \in Nat
        /\ s[k + 1].tamanio \in Nat /\ Cardinality(Libres(s, k)) \in Nat
    BY <2>3, <1>0, LibresCaben, SegTipo, LibresMas
  <2>8. CASE EsLibre(s[k + 1])
    <3>1. f[k + 1] = f[k] BY <2>4, <2>8
    <3>2. Aporte(s[k + 1]) = s[k + 1].tamanio BY <2>8 DEF Aporte
    <3>3. Fin(s, k + 1) - BytesLibres(s, k + 1) = Fin(s, k) - BytesLibres(s, k)
      BY <2>5, <2>6, <2>7, <3>2
    <3>4. Cardinality(Libres(s, k + 1)) = Cardinality(Libres(s, k)) + 1
      BY <2>8, <1>0, LibresMas
    <3>5. (k + 1) - Cardinality(Libres(s, k + 1)) = k - Cardinality(Libres(s, k))
      BY <3>4, <2>7
    <3>6. Mudados(s, k + 1) = Mudados(s, k)
      <4>1. {j \in 1 .. k + 1 : Ocupado(s[j])} = {j \in 1 .. k : Ocupado(s[j])}
        BY <2>8 DEF Ocupado, EsLibre
      <4>. QED BY <4>1 DEF Mudados
    <3>. QED BY <2>2, <3>1, <3>3, <3>5, <3>6
  <2>9. CASE ~EsLibre(s[k + 1])
    <3>1. PICK x : x = Deslizar(s, Mudanza(s), k + 1) OBVIOUS
    <3>2. f[k + 1] = Append(f[k], x) BY <2>4, <2>9, <3>1
    <3>3. Ocupado(s[k + 1]) BY <2>9 DEF Ocupado, EsLibre
    <3>4. /\ x \in Seg /\ x.n_segmento = k - Cardinality(Libres(s, k))
          /\ x.inicio = Casa(s, k + 1) /\ x.tamanio = s[k + 1].tamanio
          /\ x.duenio = s[k + 1].duenio
      <4>1. PICK i : i = k + 1 OBVIOUS
      <4>2. /\ i \in 1 .. Len(s) /\ s[i].puntero \in Lugares /\ Ocupado(s[i])
            /\ x = Deslizar(s, Mudanza(s), i)
        BY <4>1, <2>3, <3>1, <3>3
      <4>3. /\ x \in Seg /\ x.n_segmento = i - 1 - Cardinality(Libres(s, i - 1))
            /\ x.inicio = Casa(s, i) /\ x.tamanio = s[i].tamanio /\ x.duenio = s[i].duenio
        BY <4>2, DeslizarBien
      <4>4. i - 1 = k BY <4>1
      <4>. QED BY <4>1, <4>3, <4>4
    <3>5. x.n_segmento = Len(f[k])
      <4>1. Len(f[k]) = k - Cardinality(Libres(s, k)) BY <2>2
      <4>. QED BY <4>1, <3>4
    <3>6. x.inicio = Fin(f[k], Len(f[k]))
      <4>1. Casa(s, k + 1) = Fin(s, (k + 1) - 1) - BytesLibres(s, (k + 1) - 1)
        BY <2>3, CasaTipo
      <4>. QED BY <4>1, <3>4, <2>2, <2>3
    <3>7. x.tamanio # 0 /\ Ocupado(x)
      <4>1. s[k + 1].tamanio # 0 BY <2>3, <2>9 DEF Casi
      <4>. QED BY <4>1, <3>3, <3>4 DEF Ocupado
    <3>8. /\ Corrida(f[k + 1]) /\ Len(f[k + 1]) = Len(f[k]) + 1
          /\ Fin(f[k + 1], Len(f[k + 1])) = x.inicio + x.tamanio
          /\ Contenido(f[k + 1]) = Contenido(f[k]) \union {Cosa(x)}
      <4>1. PICK a, r : a = f[k] /\ r = f[k + 1] OBVIOUS
      <4>2. Corrida(a) /\ r = Append(a, x) /\ x.n_segmento = Len(a) /\ x.inicio = Fin(a, Len(a))
        BY <4>1, <2>2, <3>2, <3>5, <3>6
      <4>3. x \in Seg BY <3>4
      <4>4. /\ Corrida(r) /\ Len(r) = Len(a) + 1
            /\ Fin(r, Len(r)) = x.inicio + x.tamanio
            /\ Contenido(r) = Contenido(a) \union {Cosa(x)}
        BY <4>2, <4>3, <3>7, CorridaMas
      <4>. QED BY <4>1, <4>4
    <3>9. Len(f[k + 1]) = (k + 1) - Cardinality(Libres(s, k + 1))
      <4>1. Libres(s, k + 1) = Libres(s, k) BY <2>9, <1>0, LibresMas
      <4>. QED BY <4>1, <3>8, <2>2, <2>7
    <3>10. Fin(f[k + 1], Len(f[k + 1])) = Fin(s, k + 1) - BytesLibres(s, k + 1)
      <4>1. Aporte(s[k + 1]) = 0 BY <2>9 DEF Aporte
      <4>2. x.inicio = Fin(s, k) - BytesLibres(s, k) BY <3>6, <2>2
      <4>. QED BY <4>1, <4>2, <3>4, <3>8, <2>5, <2>6, <2>7
    <3>11. Contenido(f[k + 1]) = Mudados(s, k + 1)
      <4>1. {j \in 1 .. k + 1 : Ocupado(s[j])} = {j \in 1 .. k : Ocupado(s[j])} \union {k + 1}
        BY <3>3
      <4>2. Mudados(s, k + 1) = Mudados(s, k) \union {Cosa(Deslizar(s, Mudanza(s), k + 1))}
        BY <4>1 DEF Mudados
      <4>. QED BY <4>2, <3>1, <3>8, <2>2
    <3>. QED BY <3>8, <3>9, <3>10, <3>11
  <2>. QED BY <2>8, <2>9
<1>4. Bien(n)
  <2>. HIDE DEF I, Bien, n
  <2>1. n \in I BY <1>0, <1>2, <1>3, InduccionNat
  <2>. QED BY <2>1, <1>0 DEF I
<1>5. Fin(s, n) = TAMANIO_MEMORIA BY DEF Casi
<1>. QED BY <1>1, <1>4, <1>5

\* The compaction puts the list in order, with one free segment at the end.
LEMMA CompactarBien ==
  ASSUME NEW m, NEW s, s = m.mapa, Casi(s), \A i \in 1 .. Len(s) : s[i].puntero \in Lugares,
         NEW r, r = realizar_compactacion(m).mapa
  PROVE  /\ Ordenado(r)
         /\ BytesLibres(r, Len(r)) = BytesLibres(s, Len(s))
         /\ Contenido(r) = Mudados(s, Len(s))
         /\ EsLibre(r[Len(r)]) /\ r[Len(r)].tamanio = BytesLibres(s, Len(s))
<1>0. s \in Seq(Seg) /\ Len(s) \in Nat /\ Len(s) >= 1 BY DEF Casi
<1>1. PICK l : l = Deslizados(s, Mudanza(s)) OBVIOUS
<1>2. /\ Corrida(l)
      /\ Fin(l, Len(l)) = TAMANIO_MEMORIA - BytesLibres(s, Len(s))
      /\ Contenido(l) = Mudados(s, Len(s))
  BY <1>1, DeslizadosBien
<1>3. PICK b : b = BytesLibres(s, Len(s)) OBVIOUS
<1>4. b \in Nat /\ b <= TAMANIO_MEMORIA
  <2>1. Len(s) \in 0 .. Len(s) /\ Fin(s, Len(s)) = TAMANIO_MEMORIA BY <1>0 DEF Casi
  <2>2. BytesLibres(s, Len(s)) <= Fin(s, Len(s)) /\ BytesLibres(s, Len(s)) \in Nat
    BY <2>1, LibresCaben
  <2>. QED BY <2>1, <2>2, <1>3
<1>5. l \in Seq(Seg) /\ Len(l) \in Nat /\ DOMAIN l = 1 .. Len(l)
      /\ \A i \in 1 .. Len(l) : l[i].inicio = Fin(l, i - 1)
  BY <1>2 DEF Corrida
<1>6. SumaTamanios(l, DOMAIN l) = TAMANIO_MEMORIA - b
  <2>1. PICK n : n = Len(l) OBVIOUS
  <2>2. n \in 0 .. Len(l) BY <2>1, <1>5
  <2>3. SumaTamanios(l, 1 .. n) = Fin(l, n) BY <2>2, <1>5, SumaHasta
  <2>. QED BY <2>1, <2>3, <1>2, <1>3, <1>5
<1>7. PICK t : t = TAMANIO_MEMORIA - b OBVIOUS
<1>8. t \in Nat /\ TAMANIO_MEMORIA - t = b /\ t + b = TAMANIO_MEMORIA BY <1>4, <1>7, MemoriaValida
<1>9. PICK x : x = SegmentoLibre(Len(l), t, b) OBVIOUS
<1>10. r = Append(l, x)
  <2>1. realizar_compactacion(m).mapa =
          Append(Deslizados(s, Mudanza(s)),
                 SegmentoLibre(Len(Deslizados(s, Mudanza(s))),
                   SumaTamanios(Deslizados(s, Mudanza(s)), DOMAIN Deslizados(s, Mudanza(s))),
                   TAMANIO_MEMORIA
                     - SumaTamanios(Deslizados(s, Mudanza(s)), DOMAIN Deslizados(s, Mudanza(s)))))
    BY DEF realizar_compactacion
  <2>2. r = Append(l, SegmentoLibre(Len(l), SumaTamanios(l, DOMAIN l),
                                    TAMANIO_MEMORIA - SumaTamanios(l, DOMAIN l)))
    BY <1>1, <2>1
  <2>. QED BY <2>2, <1>6, <1>7, <1>8, <1>9
<1>11. /\ x \in Seg /\ x.n_segmento = Len(l) /\ x.inicio = t /\ x.tamanio = b
       /\ EsLibre(x) /\ ~Ocupado(x)
  BY <1>4, <1>5, <1>8, <1>9 DEF SegmentoLibre, Segmento, Seg, EsLibre, Ocupado
<1>. DEFINE n == Len(l)
<1>12. /\ r \in Seq(Seg) /\ Len(r) = n + 1 /\ r[n + 1] = x /\ \A i \in 1 .. n : r[i] = l[i]
  BY <1>5, <1>10, <1>11
<1>13. \A i \in 0 .. n : Fin(r, i) = Fin(l, i) BY <1>5, <1>12 DEF Fin
<1>14. ASSUME NEW i \in 1 .. n
       PROVE  l[i].n_segmento = i - 1 /\ l[i].inicio = Fin(l, i - 1)
              /\ l[i].tamanio # 0 /\ Ocupado(l[i]) /\ ~EsLibre(l[i])
  BY <1>2 DEF Corrida, Ocupado, EsLibre
<1>15. ASSUME NEW i \in 1 .. n + 1
       PROVE  /\ r[i].n_segmento = i - 1 /\ r[i].inicio = Fin(r, i - 1)
              /\ r[i].tamanio = 0 => EsLibre(r[i]) /\ i = n + 1
  <2>0. n \in Nat BY <1>5
  <2>1. i - 1 \in 0 .. n BY <2>0
  <2>2. CASE i = n + 1
    <3>1. i - 1 = n BY <2>2, <2>0
    <3>2. Fin(r, n) = t BY <2>0, <1>2, <1>3, <1>7, <1>13
    <3>. QED BY <2>2, <3>1, <3>2, <1>11, <1>12
  <2>3. CASE i # n + 1
    <3>1. i \in 1 .. n BY <2>3, <2>0
    <3>. QED BY <3>1, <2>1, <1>12, <1>13, <1>14
  <2>. QED BY <2>2, <2>3
<1>16. Casi(r)
  <2>1. Fin(r, n + 1) = TAMANIO_MEMORIA
    <3>1. n + 1 # 0 BY <1>5
    <3>2. Fin(r, n + 1) = x.inicio + x.tamanio BY <3>1, <1>12 DEF Fin
    <3>. QED BY <3>2, <1>8, <1>11
  <2>2. n + 1 >= 1 BY <1>5
  <2>3. \A i \in 1 .. n + 1 : Limpio(r[i])
    <3>1. Limpio(x) BY <1>9 DEF Limpio, SegmentoLibre, Segmento
    <3>2. \A i \in 1 .. n + 1 : i = n + 1 \/ i \in 1 .. n BY <1>5
    <3>. QED BY <3>1, <3>2, <1>12, <1>14 DEF Limpio
  <2>. HIDE DEF n
  <2>. QED BY <2>1, <2>2, <2>3, <1>12, <1>15 DEF Casi
<1>17. Fundido(r)
  <2>1. \A i \in 1 .. Len(r) - 1 : i \in 1 .. n BY <1>5, <1>12
  <2>. HIDE DEF n
  <2>. QED BY <2>1, <1>12, <1>14 DEF Fundido
<1>18. BytesLibres(r, Len(r)) = b
  <2>1. {j \in 1 .. n : EsLibre(r[j])} = {} BY <1>12, <1>14
  <2>2. BytesLibres(r, n) = 0 BY <2>1, <1>12, SumaVacia DEF BytesLibres
  <2>3. n + 1 \in 1 .. Len(r) /\ (n + 1) - 1 = n BY <1>5, <1>12
  <2>. HIDE DEF n
  <2>4. BytesLibres(r, n + 1) = BytesLibres(r, (n + 1) - 1) + Aporte(r[n + 1])
    BY <2>3, <1>12, LibresPasos
  <2>5. Aporte(x) = b BY <1>11 DEF Aporte
  <2>. QED BY <2>2, <2>3, <2>4, <2>5, <1>4, <1>12
<1>19. Contenido(r) = Contenido(l)
  <2>1. {j \in 1 .. Len(r) : Ocupado(r[j])} = {j \in 1 .. Len(l) : Ocupado(l[j])}
    <3>1. 1 .. Len(r) = (1 .. n) \union {n + 1} BY <1>5, <1>12
    <3>. QED BY <3>1, <1>11, <1>12
  <2>. QED BY <2>1, <1>12 DEF Contenido
<1>. QED BY <1>2, <1>3, <1>11, <1>12, <1>16, <1>17, <1>18, <1>19 DEF Ordenado
-----------------------------------------------------------------------------
(* The list and the table of the addresses *)

\* the element that a segment holds, and the one that it points at
Llave(x) == <<x.duenio, x.indice>>
Destino(k) == IF k = PCB THEN TAREAS ELSE PCB

\* the element is alive, at its address and with its bytes, and if its pointer was
\* already written it leads where it should
Ubicada(x, e, V, Q) ==
  /\ Llave(x) \in DOMAIN V /\ x.tamanio = V[Llave(x)]
  /\ x.inicio = e[x.duenio][x.indice] /\ x.puntero \in Lugares
  /\ Llave(x) \in Q /\ x.indice # TAREAS => x.puntero = e[x.duenio][Destino(x.indice)]

\* The list s holds exactly the live elements, the ones in the domain of V, with
\* their bytes, where the table e says.
Coherente(s, e, V, Q) ==
  /\ Ordenado(s)
  /\ V = [v \in DOMAIN V |-> V[v]]
  /\ \A x \in Contenido(s) : Ubicada(x, e, V, Q)
  /\ \A v \in DOMAIN V : \E x \in Contenido(s) : Llave(x) = v

\* the addresses of the elements of each patota
Filas == UNION {[0 .. n + 1 -> Lugares] : n \in 1 .. MaxTripulantes}
Tabla(e) == e \in Seq(Filas)
Claves(e) == UNION {{<<p, k>> : k \in DOMAIN e[p]} : p \in 1 .. Len(e)}

\* A row of the table has the control block and the tasks, and addresses in the memory.
LEMMA FilaTipo ==
  ASSUME NEW f \in Filas
  PROVE  /\ f = [k \in DOMAIN f |-> f[k]] /\ PCB \in DOMAIN f /\ TAREAS \in DOMAIN f
         /\ DOMAIN f \subseteq 0 .. MaxTripulantes + 1
         /\ \A k \in DOMAIN f : f[k] \in Lugares
<1>1. PICK n \in 1 .. MaxTripulantes : f \in [0 .. n + 1 -> Lugares] BY DEF Filas
<1>. QED BY <1>1, MemoriaValida DEF PCB, TAREAS

\* What a list holds is in a segment of it.
LEMMA CosaTipo ==
  ASSUME NEW s, Casi(s), NEW x \in Contenido(s)
  PROVE  \E i \in 1 .. Len(s) :
           /\ Ocupado(s[i]) /\ x = Cosa(s[i]) /\ x.inicio = s[i].inicio /\ x.tamanio = s[i].tamanio
           /\ x.duenio = s[i].duenio /\ x.indice = s[i].indice /\ x.puntero = s[i].puntero
           /\ x.duenio # 0 /\ x.duenio \in Nat /\ x.indice \in Nat /\ x.puntero \in Nat
           /\ x.tamanio \in Nat \ {0} /\ x.inicio \in Nat
<1>0. s \in Seq(Seg) BY DEF Casi
<1>1. PICK i \in 1 .. Len(s) : Ocupado(s[i]) /\ x = Cosa(s[i]) BY DEF Contenido
<1>2. /\ x.inicio = s[i].inicio /\ x.tamanio = s[i].tamanio /\ x.duenio = s[i].duenio
      /\ x.indice = s[i].indice /\ x.puntero = s[i].puntero
  BY <1>1 DEF Cosa
<1>3. s[i].tamanio # 0 /\ s[i].duenio # 0 BY <1>1 DEF Casi, Ocupado, EsLibre
<1>4. /\ s[i].inicio \in Nat /\ s[i].tamanio \in Nat /\ s[i].duenio \in Nat
      /\ s[i].indice \in Nat /\ s[i].puntero \in Nat
  BY <1>0, SegTipo
<1>. QED BY <1>1, <1>2, <1>3, <1>4

\* What an occupied segment has is in the content.
LEMMA ContenidoTiene ==
  ASSUME NEW s, NEW i \in 1 .. Len(s), Ocupado(s[i])
  PROVE  /\ Cosa(s[i]) \in Contenido(s)
         /\ Cosa(s[i]).inicio = s[i].inicio /\ Cosa(s[i]).tamanio = s[i].tamanio
         /\ Cosa(s[i]).duenio = s[i].duenio /\ Cosa(s[i]).indice = s[i].indice
         /\ Cosa(s[i]).puntero = s[i].puntero
BY DEF Contenido, Cosa

\* An element has one segment, and an address is of one element.
LEMMA LlavesUnicas ==
  ASSUME NEW s, NEW e, NEW V, NEW Q, Coherente(s, e, V, Q)
  PROVE  /\ Unicas(s)
         /\ \A x, y \in Contenido(s) : x.inicio = y.inicio => x = y
         /\ \A x, y \in Contenido(s) : Llave(x) = Llave(y) => x = y
<1>0. Casi(s) BY DEF Coherente, Ordenado
<1>1. ASSUME NEW x \in Contenido(s), NEW y \in Contenido(s), x.inicio = y.inicio PROVE x = y
  <2>1. PICK i \in 1 .. Len(s) : Ocupado(s[i]) /\ x = Cosa(s[i]) /\ x.inicio = s[i].inicio
    BY <1>0, CosaTipo
  <2>2. PICK j \in 1 .. Len(s) : Ocupado(s[j]) /\ y = Cosa(s[j]) /\ y.inicio = s[j].inicio
    BY <1>0, CosaTipo
  <2>3. j = i BY <1>0, <1>1, <2>1, <2>2, InicioUnico
  <2>. QED BY <2>1, <2>2, <2>3
<1>2. ASSUME NEW x \in Contenido(s), NEW y \in Contenido(s), Llave(x) = Llave(y) PROVE x = y
  <2>1. x.duenio = y.duenio /\ x.indice = y.indice BY <1>2 DEF Llave
  <2>2. x.inicio = y.inicio BY <2>1 DEF Coherente, Ubicada
  <2>. QED BY <1>1, <2>2
<1>3. ASSUME NEW i \in 1 .. Len(s), NEW j \in 1 .. Len(s), Ocupado(s[i]),
             s[j].duenio = s[i].duenio, s[j].indice = s[i].indice
      PROVE  j = i
  <2>1. Ocupado(s[j]) BY <1>3 DEF Ocupado
  <2>2. Cosa(s[i]).inicio = Cosa(s[j]).inicio
    <3>1. /\ Ubicada(Cosa(s[i]), e, V, Q) /\ Ubicada(Cosa(s[j]), e, V, Q)
      BY <1>3, <2>1, ContenidoTiene DEF Coherente
    <3>2. Cosa(s[i]).duenio = Cosa(s[j]).duenio /\ Cosa(s[i]).indice = Cosa(s[j]).indice
      BY <1>3, <2>1, ContenidoTiene
    <3>. QED BY <3>1, <3>2 DEF Ubicada
  <2>3. s[j].inicio = s[i].inicio BY <1>3, <2>1, <2>2, ContenidoTiene
  <2>. QED BY <1>0, <1>3, <2>3, InicioUnico
<1>4. Unicas(s) BY <1>3 DEF Unicas
<1>. QED BY <1>1, <1>2, <1>4

\* Every pointer is an address of the memory, those of the free segments too.
LEMMA PunterosEnMemoria ==
  ASSUME NEW s, NEW e, NEW V, NEW Q, Coherente(s, e, V, Q), NEW i \in 1 .. Len(s)
  PROVE  s[i].puntero \in Lugares
<1>1. CASE Ocupado(s[i])
  <2>1. Ubicada(Cosa(s[i]), e, V, Q) BY <1>1, ContenidoTiene DEF Coherente
  <2>. QED BY <2>1, <1>1, ContenidoTiene DEF Ubicada
<1>2. CASE EsLibre(s[i])
  <2>1. Limpio(s[i]) BY DEF Coherente, Ordenado, Casi
  <2>2. s[i].puntero = 0 BY <2>1, <1>2 DEF Limpio
  <2>. QED BY <2>2, MemoriaValida DEF Lugares
<1>. QED BY <1>1, <1>2 DEF Ocupado, EsLibre

\* what the compaction leaves, c, of a memory with the list s and the table e
Compactada(c, s, e, V, Q) ==
  /\ Coherente(c.mapa, c.elementos, V, Q)
  /\ BytesLibres(c.mapa, Len(c.mapa)) = BytesLibres(s, Len(s))
  /\ EsLibre(c.mapa[Len(c.mapa)])
  /\ c.mapa[Len(c.mapa)].tamanio = BytesLibres(s, Len(s))
  /\ Tabla(c.elementos) /\ Len(c.elementos) = Len(e)
  /\ \A p \in 1 .. Len(e) : DOMAIN c.elementos[p] = DOMAIN e[p]
  /\ \A p \in 1 .. Len(e) : \A k \in DOMAIN e[p] :
       /\ c.elementos[p][k] = Donde(Mudanza(s), p, k, e[p][k])
       /\ <<p, k>> \notin DOMAIN V => c.elementos[p][k] = e[p][k]

\* The compaction keeps the list and the table together, and moves nothing that has
\* no segment.
LEMMA CompactarCoherente ==
  ASSUME NEW m, NEW s, s = m.mapa, NEW e, e = m.elementos, NEW V, NEW Q,
         Coherente(s, e, V, Q), Tabla(e), DOMAIN V \subseteq Claves(e),
         NEW c, c = realizar_compactacion(m)
  PROVE  Compactada(c, s, e, V, Q)
<1>0. Ordenado(s) /\ Casi(s) /\ s \in Seq(Seg) /\ DOMAIN s = 1 .. Len(s)
  BY DEF Coherente, Ordenado, Casi
<1>1. Unicas(s) BY LlavesUnicas
<1>2. \A i \in 1 .. Len(s) : s[i].puntero \in Lugares BY PunterosEnMemoria
<1>3. PICK r : r = c.mapa OBVIOUS
<1>4. /\ Ordenado(r)
      /\ BytesLibres(r, Len(r)) = BytesLibres(s, Len(s))
      /\ Contenido(r) = Mudados(s, Len(s))
      /\ EsLibre(r[Len(r)]) /\ r[Len(r)].tamanio = BytesLibres(s, Len(s))
  BY <1>0, <1>2, <1>3, CompactarBien
<1>5. PICK f : f = c.elementos OBVIOUS
<1>6. f = [p \in DOMAIN e |-> [k \in DOMAIN e[p] |-> Donde(Mudanza(s), p, k, e[p][k])]]
  BY <1>5 DEF realizar_compactacion, MoverElementos
<1>7. DOMAIN e = 1 .. Len(e) /\ Len(e) \in Nat /\ \A p \in 1 .. Len(e) : e[p] \in Filas BY DEF Tabla
<1>8. \A p \in 1 .. Len(e) : DOMAIN f[p] = DOMAIN e[p] BY <1>6, <1>7
<1>9. \A p \in 1 .. Len(e) : \A k \in DOMAIN e[p] : f[p][k] = Donde(Mudanza(s), p, k, e[p][k])
  BY <1>6, <1>7
<1>10. Tabla(f) /\ Len(f) = Len(e)
  <2>1. ASSUME NEW p \in 1 .. Len(e) PROVE f[p] \in Filas
    <3>1. PICK n \in 1 .. MaxTripulantes : e[p] \in [0 .. n + 1 -> Lugares] BY <1>7 DEF Filas
    <3>2. \A k \in 0 .. n + 1 : f[p][k] \in Lugares BY <3>1, <1>0, <1>9, DondeTipo
    <3>3. f[p] = [k \in DOMAIN e[p] |-> Donde(Mudanza(s), p, k, e[p][k])] BY <1>6, <1>7
    <3>4. f[p] \in [0 .. n + 1 -> Lugares] BY <3>1, <3>2, <3>3
    <3>. QED BY <3>4 DEF Filas
  <2>2. f = [p \in 1 .. Len(e) |-> f[p]] BY <1>6, <1>7
  <2>3. f \in [1 .. Len(e) -> Filas] BY <2>1, <2>2
  <2>. QED BY <2>3, <1>7, FuncionSeq DEF Tabla
<1>11. ASSUME NEW p \in 1 .. Len(e), NEW k \in DOMAIN e[p], <<p, k>> \notin DOMAIN V
       PROVE  f[p][k] = e[p][k]
  <2>1. ASSUME NEW i \in DOMAIN s, Ocupado(s[i]) PROVE ~(s[i].duenio = p /\ s[i].indice = k)
    <3>1. Ubicada(Cosa(s[i]), e, V, Q) /\ Llave(Cosa(s[i])) = <<s[i].duenio, s[i].indice>>
      BY <2>1, <1>0, ContenidoTiene DEF Coherente, Llave
    <3>. QED BY <3>1, <1>11 DEF Ubicada
  <2>2. Donde(Mudanza(s), p, k, e[p][k]) = e[p][k] BY <2>1, DondeNada
  <2>. QED BY <2>2, <1>9
<1>12. ASSUME NEW i \in 1 .. Len(s), Ocupado(s[i]), NEW z, z = Deslizar(s, Mudanza(s), i),
              NEW x, x = Cosa(z)
       PROVE  Ubicada(x, f, V, Q) /\ Llave(x) = Llave(Cosa(s[i]))
  <2>1. PICK d, k : d = s[i].duenio /\ k = s[i].indice OBVIOUS
  <2>2. /\ z.inicio = Casa(s, i) /\ z.tamanio = s[i].tamanio
        /\ z.duenio = d /\ z.indice = k /\ z.puntero = MoverPuntero(Mudanza(s), s[i])
    BY <1>0, <1>2, <1>12, <2>1, DeslizarBien
  <2>3. /\ x.inicio = Casa(s, i) /\ x.tamanio = s[i].tamanio
        /\ x.duenio = d /\ x.indice = k /\ x.puntero = MoverPuntero(Mudanza(s), s[i])
    BY <1>12, <2>2 DEF Cosa
  <2>4. Ubicada(Cosa(s[i]), e, V, Q) BY <1>12, ContenidoTiene DEF Coherente
  <2>5. /\ <<d, k>> \in DOMAIN V /\ s[i].tamanio = V[<<d, k>>]
        /\ s[i].inicio = e[d][k] /\ s[i].puntero \in Lugares
        /\ <<d, k>> \in Q /\ k # TAREAS => s[i].puntero = e[d][Destino(k)]
    BY <1>12, <2>1, <2>4, ContenidoTiene DEF Ubicada, Llave
  <2>6. d \in 1 .. Len(e) /\ k \in DOMAIN e[d]
    <3>1. <<d, k>> \in Claves(e) BY <2>5
    <3>. QED BY <3>1 DEF Claves
  <2>7. x.inicio = f[d][k]
    <3>1. Donde(Mudanza(s), s[i].duenio, s[i].indice, s[i].inicio) = Casa(s, i)
      BY <1>0, <1>1, <1>12, DondeEs
    <3>. QED BY <3>1, <2>1, <2>3, <2>5, <2>6, <1>9
  <2>8. x.puntero \in Lugares BY <2>3, <2>5, <1>0, DondeTipo DEF MoverPuntero
  <2>9. ASSUME <<d, k>> \in Q, k # TAREAS PROVE x.puntero = f[d][Destino(k)]
    <3>1. MoverPuntero(Mudanza(s), s[i]) = Donde(Mudanza(s), d, Destino(k), s[i].puntero)
      BY <2>1, <2>9 DEF MoverPuntero, Destino
    <3>2. Destino(k) \in DOMAIN e[d]
      <4>1. e[d] \in Filas BY <2>6, <1>7
      <4>. QED BY <4>1, FilaTipo DEF Destino
    <3>3. f[d][Destino(k)] = Donde(Mudanza(s), d, Destino(k), e[d][Destino(k)])
      BY <3>2, <2>6, <1>9
    <3>. QED BY <3>1, <3>3, <2>3, <2>5, <2>9
  <2>10. Llave(x) = <<d, k>> /\ Llave(Cosa(s[i])) = <<d, k>>
    BY <1>12, <2>1, <2>3, ContenidoTiene DEF Llave
  <2>11. /\ Llave(x) \in DOMAIN V /\ x.tamanio = V[Llave(x)]
         /\ x.inicio = f[x.duenio][x.indice] /\ x.puntero \in Lugares
    BY <2>3, <2>5, <2>7, <2>8, <2>10
  <2>12. Llave(x) \in Q /\ x.indice # TAREAS => x.puntero = f[x.duenio][Destino(x.indice)]
    BY <2>3, <2>9, <2>10
  <2>. QED BY <2>10, <2>11, <2>12 DEF Ubicada
<1>13. Coherente(r, f, V, Q)
  <2>1. ASSUME NEW x \in Contenido(r) PROVE Ubicada(x, f, V, Q)
    <3>1. PICK i \in 1 .. Len(s) : Ocupado(s[i]) /\ x = Cosa(Deslizar(s, Mudanza(s), i))
      BY <1>4 DEF Mudados
    <3>. QED BY <3>1, <1>12
  <2>2. ASSUME NEW v \in DOMAIN V PROVE \E x \in Contenido(r) : Llave(x) = v
    <3>1. PICK y \in Contenido(s) : Llave(y) = v BY DEF Coherente
    <3>2. PICK i \in 1 .. Len(s) : Ocupado(s[i]) /\ y = Cosa(s[i]) BY DEF Contenido
    <3>3. Llave(Cosa(Deslizar(s, Mudanza(s), i))) = v BY <3>1, <3>2, <1>12
    <3>4. Cosa(Deslizar(s, Mudanza(s), i)) \in Contenido(r) BY <3>2, <1>4 DEF Mudados
    <3>. QED BY <3>3, <3>4
  <2>3. V = [v \in DOMAIN V |-> V[v]] BY DEF Coherente
  <2>. QED BY <2>1, <2>2, <2>3, <1>4 DEF Coherente
<1>. QED BY <1>3, <1>4, <1>5, <1>8, <1>9, <1>10, <1>11, <1>13 DEF Compactada

-----------------------------------------------------------------------------
(* A memory in order, and what each operation does to it *)

\* the trips are where the table says
Anotados(t, e) ==
  /\ t = [h \in DOMAIN t |-> t[h]]
  /\ \A h \in DOMAIN t : /\ h = <<h[1], h[2]>> /\ h[1] \in 1 .. Len(e) /\ h[2] \in Nat
                         /\ h[2] + 1 \in DOMAIN e[h[1]] /\ t[h] = e[h[1]][h[2] + 1]

\* the memory m holds the elements of V, and the pointers of those of Q were written
Sana(m, V, Q) ==
  /\ m = [mapa |-> m.mapa, elementos |-> m.elementos, tripulantes |-> m.tripulantes]
  /\ Coherente(m.mapa, m.elementos, V, Q)
  /\ Tabla(m.elementos)
  /\ DOMAIN V \subseteq Claves(m.elementos)
  /\ Anotados(m.tripulantes, m.elementos)

\* the free bytes of the memory m
LibresDe(m) == BytesLibres(m.mapa, Len(m.mapa))

\* the same patotas and trips
MismaForma(c, m) ==
  /\ Len(c.elementos) = Len(m.elementos)
  /\ \A p \in 1 .. Len(m.elementos) : DOMAIN c.elementos[p] = DOMAIN m.elementos[p]
  /\ DOMAIN c.tripulantes = DOMAIN m.tripulantes

\* The compaction keeps the elements, the trips and the free bytes of a memory.
LEMMA CompactarSana ==
  ASSUME NEW m, NEW V, NEW Q, Sana(m, V, Q), NEW c, c = realizar_compactacion(m)
  PROVE  /\ Sana(c, V, Q) /\ MismaForma(c, m) /\ LibresDe(c) = LibresDe(m)
         /\ EsLibre(c.mapa[Len(c.mapa)])
         /\ c.mapa[Len(c.mapa)].tamanio = LibresDe(m)
<1>1. PICK s, e, t : s = m.mapa /\ e = m.elementos /\ t = m.tripulantes OBVIOUS
<1>2. Coherente(s, e, V, Q) /\ Tabla(e) /\ DOMAIN V \subseteq Claves(e) /\ Anotados(t, e)
  BY <1>1 DEF Sana
<1>3. /\ Coherente(c.mapa, c.elementos, V, Q)
      /\ BytesLibres(c.mapa, Len(c.mapa)) = BytesLibres(s, Len(s))
      /\ EsLibre(c.mapa[Len(c.mapa)])
      /\ c.mapa[Len(c.mapa)].tamanio = BytesLibres(s, Len(s))
      /\ Tabla(c.elementos) /\ Len(c.elementos) = Len(e)
      /\ \A p \in 1 .. Len(e) : DOMAIN c.elementos[p] = DOMAIN e[p]
      /\ \A p \in 1 .. Len(e) : \A k \in DOMAIN e[p] :
              c.elementos[p][k] = Donde(Mudanza(s), p, k, e[p][k])
      /\ c.tripulantes = [h \in DOMAIN t |-> Donde(Mudanza(s), h[1], h[2] + 1, t[h])]
  <2>1. s = m.mapa /\ e = m.elementos BY <1>1
  <2>2. Compactada(c, s, e, V, Q) BY <2>1, <1>2, CompactarCoherente
  <2>3. c.tripulantes = [h \in DOMAIN t |-> Donde(Mudanza(s), h[1], h[2] + 1, t[h])]
    BY <1>1 DEF realizar_compactacion
  <2>. QED BY <2>2, <2>3 DEF Compactada
<1>4. c = [mapa |-> c.mapa, elementos |-> c.elementos, tripulantes |-> c.tripulantes]
  BY DEF realizar_compactacion
<1>5. Anotados(c.tripulantes, c.elementos)
  <2>1. PICK f, u : f = c.elementos /\ u = c.tripulantes OBVIOUS
  <2>2. u = [h \in DOMAIN t |-> Donde(Mudanza(s), h[1], h[2] + 1, t[h])] BY <1>3, <2>1
  <2>3. DOMAIN u = DOMAIN t /\ u = [h \in DOMAIN u |-> u[h]] BY <2>2
  <2>4. ASSUME NEW h \in DOMAIN u
        PROVE  /\ h = <<h[1], h[2]>> /\ h[1] \in 1 .. Len(f) /\ h[2] \in Nat
               /\ h[2] + 1 \in DOMAIN f[h[1]] /\ u[h] = f[h[1]][h[2] + 1]
    <3>1. /\ h = <<h[1], h[2]>> /\ h[1] \in 1 .. Len(e) /\ h[2] \in Nat
          /\ h[2] + 1 \in DOMAIN e[h[1]] /\ t[h] = e[h[1]][h[2] + 1]
      BY <1>2, <2>3 DEF Anotados
    <3>2. PICK p, k : p = h[1] /\ k = h[2] + 1 OBVIOUS
    <3>3. p \in 1 .. Len(e) /\ k \in DOMAIN e[p] /\ t[h] = e[p][k] BY <3>1, <3>2
    <3>4. f[p][k] = Donde(Mudanza(s), p, k, e[p][k]) BY <3>3, <1>3, <2>1
    <3>5. u[h] = Donde(Mudanza(s), p, k, t[h]) BY <2>2, <2>3, <3>2
    <3>6. u[h] = f[p][k] BY <3>3, <3>4, <3>5
    <3>7. Len(f) = Len(e) /\ DOMAIN f[p] = DOMAIN e[p] BY <1>3, <2>1, <3>3
    <3>. QED BY <3>1, <3>2, <3>6, <3>7
  <2>. QED BY <2>1, <2>3, <2>4 DEF Anotados
<1>6. DOMAIN V \subseteq Claves(c.elementos)
  <2>1. PICK f : f = c.elementos OBVIOUS
  <2>2. Claves(f) = Claves(e) BY <1>3, <2>1 DEF Claves
  <2>. QED BY <1>2, <2>1, <2>2
<1>7. DOMAIN c.tripulantes = DOMAIN t BY <1>3
<1>8. Sana(c, V, Q) BY <1>3, <1>4, <1>5, <1>6 DEF Sana
<1>9. MismaForma(c, m) BY <1>1, <1>3, <1>7 DEF MismaForma
<1>. QED BY <1>1, <1>3, <1>8, <1>9 DEF LibresDe

\* If the bytes are free, there is a place for them, at worst after a compaction.
LEMMA ConLugarBien ==
  ASSUME NEW m, NEW V, NEW Q, Sana(m, V, Q),
         NEW tam \in Nat \ {0}, tam <= LibresDe(m),
         NEW c, c = ConLugar(m, tam)
  PROVE  /\ Sana(c, V, Q) /\ MismaForma(c, m) /\ LibresDe(c) = LibresDe(m)
         /\ Aptos(c.mapa, tam) # {}
         /\ Aptos(m.mapa, tam) # {} => c = m
<1>1. CASE Aptos(m.mapa, tam) # {}
  <2>1. c = m BY <1>1 DEF ConLugar
  <2>. QED BY <2>1, <1>1 DEF MismaForma
<1>2. CASE Aptos(m.mapa, tam) = {}
  <2>1. c = realizar_compactacion(m) BY <1>2 DEF ConLugar
  <2>2. /\ Sana(c, V, Q) /\ MismaForma(c, m) /\ LibresDe(c) = LibresDe(m)
        /\ EsLibre(c.mapa[Len(c.mapa)])
        /\ c.mapa[Len(c.mapa)].tamanio = LibresDe(m)
    BY <2>1, CompactarSana
  <2>3. PICK r, n : r = c.mapa /\ n = Len(r) OBVIOUS
  <2>4. r \in Seq(Seg) /\ Len(r) >= 1 BY <2>2, <2>3 DEF Sana, Coherente, Ordenado, Casi
  <2>5. n \in DOMAIN r BY <2>3, <2>4
  <2>6. r[n].tamanio >= tam /\ EsLibre(r[n])
    <3>1. r[n].tamanio \in Nat BY <2>4, <2>5, SegTipo
    <3>2. r[n].tamanio = LibresDe(m) BY <2>2, <2>3
    <3>3. EsLibre(r[n]) BY <2>2, <2>3
    <3>. QED BY <3>1, <3>2, <3>3
  <2>7. n \in Aptos(r, tam) BY <2>5, <2>6 DEF Aptos
  <2>. QED BY <1>2, <2>2, <2>3, <2>7
<1>. QED BY <1>1, <1>2

-----------------------------------------------------------------------------
(* Creating a segment *)

\* An element of the table.
LEMMA ClaveEs ==
  ASSUME NEW e, NEW p, NEW k
  PROVE  <<p, k>> \in Claves(e) <=> p \in 1 .. Len(e) /\ k \in DOMAIN e[p]
BY DEF Claves

\* InicioDe finds an element
Empieza(s, d, k, ini) ==
  /\ \E i \in 1 .. Len(s) : s[i].duenio = d /\ s[i].indice = k
  /\ \A i \in 1 .. Len(s) : s[i].duenio = d /\ s[i].indice = k => s[i].inicio = ini

\* InicioDe answers the address of the element that the list has.
LEMMA InicioDeEs ==
  ASSUME NEW s \in Seq(Seg), NEW d, NEW k, NEW ini, Empieza(s, d, k, ini)
  PROVE  InicioDe(s, d, k) = ini
<1>. DEFINE T == {i \in DOMAIN s : s[i].duenio = d /\ s[i].indice = k}
<1>1. DOMAIN s = 1 .. Len(s) /\ Len(s) \in Nat OBVIOUS
<1>2. T # {} /\ T \in SUBSET Nat BY <1>1 DEF Empieza
<1>3. Min(T) \in T BY <1>2, MinimoDe
<1>4. s[Min(T)].inicio = ini BY <1>3, <1>1 DEF Empieza
<1>. QED BY <1>4 DEF InicioDe

\* And of a live element it is the one in the table.
LEMMA InicioDeVivo ==
  ASSUME NEW s, NEW e, NEW V, NEW Q, Coherente(s, e, V, Q), NEW d \in Nat \ {0}, NEW k,
         <<d, k>> \in DOMAIN V
  PROVE  InicioDe(s, d, k) = e[d][k]
<1>0. Casi(s) /\ s \in Seq(Seg) BY DEF Coherente, Ordenado, Casi
<1>1. PICK x \in Contenido(s) : Llave(x) = <<d, k>> BY DEF Coherente
<1>2. PICK i \in 1 .. Len(s) : x.duenio = s[i].duenio /\ x.indice = s[i].indice
  BY <1>0, <1>1, CosaTipo
<1>3. s[i].duenio = d /\ s[i].indice = k BY <1>1, <1>2 DEF Llave
<1>4. ASSUME NEW j \in 1 .. Len(s), s[j].duenio = d, s[j].indice = k
      PROVE  s[j].inicio = e[d][k]
  <2>1. Ocupado(s[j]) BY <1>4 DEF Ocupado
  <2>2. Ubicada(Cosa(s[j]), e, V, Q) BY <2>1, ContenidoTiene DEF Coherente
  <2>. QED BY <2>1, <2>2, <1>4, ContenidoTiene DEF Ubicada
<1>5. PICK ini : ini = e[d][k] OBVIOUS
<1>6. Empieza(s, d, k, ini) BY <1>3, <1>4, <1>5 DEF Empieza
<1>. QED BY <1>0, <1>5, <1>6, InicioDeEs

\* the pointers that lead to the element k of patota d were not written yet
SinPuntero(Q, d, k) ==
  /\ <<d, k>> \notin Q
  /\ \A j : <<d, j>> \in Q => j = TAREAS \/ Destino(j) # k

\* the list r and the table f have tam bytes more than the list s
Agregada(r, f, s, W, Q, tam, ini) ==
  /\ Coherente(r, f, W, Q) /\ ini \in Lugares
  /\ BytesLibres(r, Len(r)) + tam = BytesLibres(s, Len(s))

\* The new segment, and the table with its address.
LEMMA CrearCoherente ==
  ASSUME NEW s, NEW e, NEW V, NEW Q, Coherente(s, e, V, Q), Tabla(e), DOMAIN V \subseteq Claves(e),
         NEW tam \in Nat \ {0}, Aptos(s, tam) # {},
         NEW d, NEW k, <<d, k>> \in Claves(e), <<d, k>> \notin DOMAIN V,
         SinPuntero(Q, d, k),
         NEW r, r = Insertar(s, tam, d, k), NEW ini, ini = InicioDe(r, d, k),
         NEW f, f = [e EXCEPT ![d][k] = ini],
         NEW W, W = Agregado(V, <<d, k>>, tam)
  PROVE  Agregada(r, f, s, W, Q, tam, ini)
<1>0. Ordenado(s) /\ Casi(s) /\ s \in Seq(Seg) BY DEF Coherente, Ordenado, Casi
<1>1. d \in 1 .. Len(e) /\ k \in DOMAIN e[d] /\ e[d] \in Filas /\ Len(e) \in Nat
      /\ DOMAIN e = 1 .. Len(e)
  BY ClaveEs DEF Tabla
<1>2. d \in Nat \ {0} BY <1>1
<1>3. k \in Nat
  <2>1. DOMAIN e[d] \subseteq 0 .. MaxTripulantes + 1 BY <1>1, FilaTipo
  <2>. QED BY <2>1, <1>1, MemoriaValida
<1>4. /\ Ordenado(r)
      /\ BytesLibres(r, Len(r)) + tam = BytesLibres(s, Len(s))
      /\ \E q \in Nat : Contenido(r) = Contenido(s) \union {Nueva(q, tam, d, k)}
  <2>1. Insertada(Insertar(s, tam, d, k), s, tam, d, k) BY <1>0, <1>2, <1>3, InsertarBien
  <2>. QED BY <2>1 DEF Insertada
<1>5. PICK q \in Nat : Contenido(r) = Contenido(s) \union {Nueva(q, tam, d, k)} BY <1>4
<1>6. PICK x : x = Nueva(q, tam, d, k) OBVIOUS
<1>7. /\ x.inicio = q /\ x.tamanio = tam /\ x.duenio = d /\ x.indice = k /\ x.puntero = 0
      /\ Llave(x) = <<d, k>>
  BY <1>6 DEF Nueva, Llave
<1>8. x \in Contenido(r) BY <1>5, <1>6
<1>9. Casi(r) /\ r \in Seq(Seg) BY <1>4 DEF Ordenado, Casi
<1>10. PICK i \in 1 .. Len(r) : /\ x.inicio = r[i].inicio /\ x.duenio = r[i].duenio
                                /\ x.indice = r[i].indice
  BY <1>8, <1>9, CosaTipo
<1>11. ASSUME NEW y \in Contenido(s) PROVE Llave(y) \in DOMAIN V /\ Llave(y) # <<d, k>>
  BY DEF Coherente, Ubicada
<1>12. ASSUME NEW j \in 1 .. Len(r), r[j].duenio = d, r[j].indice = k PROVE r[j].inicio = q
  <2>1. Ocupado(r[j]) BY <1>12, <1>2 DEF Ocupado
  <2>2. Cosa(r[j]) \in Contenido(r) /\ Llave(Cosa(r[j])) = <<d, k>>
    BY <2>1, <1>12, ContenidoTiene DEF Llave
  <2>3. Cosa(r[j]) = x BY <2>2, <1>11, <1>5, <1>6
  <2>. QED BY <2>1, <2>3, <1>7, ContenidoTiene
<1>13. ini = q
  <2>1. r[i].duenio = d /\ r[i].indice = k BY <1>7, <1>10
  <2>2. Empieza(r, d, k, q) BY <2>1, <1>12 DEF Empieza
  <2>3. InicioDe(r, d, k) = q BY <2>2, <1>9, InicioDeEs
  <2>. QED BY <2>3
<1>14. ini \in Lugares
  <2>1. r[i].inicio <= TAMANIO_MEMORIA /\ r[i].inicio \in Nat BY <1>9, Dentro, SegTipo
  <2>2. ini = r[i].inicio BY <1>7, <1>10, <1>13
  <2>. QED BY <2>1, <2>2, MemoriaValida DEF Lugares
<1>15. e[d] = [j \in DOMAIN e[d] |-> e[d][j]] BY <1>1, FilaTipo
<1>16. f[d][k] = ini BY <1>1, <1>15
<1>17. ASSUME NEW p \in 1 .. Len(e), NEW j, <<p, j>> # <<d, k>> PROVE f[p][j] = e[p][j]
  BY <1>17, <1>1, <1>15
<1>18. DOMAIN W = DOMAIN V \union {<<d, k>>} /\ W = [v \in DOMAIN W |-> W[v]] BY DEF Agregado
<1>19. W[<<d, k>>] = tam BY DEF Agregado
<1>20. ASSUME NEW v \in DOMAIN V PROVE W[v] = V[v] /\ v \in DOMAIN W BY DEF Agregado
<1>21. Ubicada(x, f, W, Q)
  <2>1. Llave(x) \in DOMAIN W BY <1>7, <1>18
  <2>2. x.tamanio = W[Llave(x)] BY <1>7, <1>19
  <2>3. x.inicio = f[x.duenio][x.indice] BY <1>7, <1>13, <1>16
  <2>4. x.puntero \in Lugares BY <1>7, MemoriaValida DEF Lugares
  <2>5. Llave(x) \notin Q BY <1>7 DEF SinPuntero
  <2>. QED BY <2>1, <2>2, <2>3, <2>4, <2>5 DEF Ubicada
<1>22. ASSUME NEW y \in Contenido(s) PROVE Ubicada(y, f, W, Q)
  <2>1. /\ Llave(y) \in DOMAIN V /\ y.tamanio = V[Llave(y)]
        /\ y.inicio = e[y.duenio][y.indice] /\ y.puntero \in Lugares
        /\ Llave(y) \in Q /\ y.indice # TAREAS => y.puntero = e[y.duenio][Destino(y.indice)]
    BY DEF Coherente, Ubicada
  <2>2. PICK p, j : p = y.duenio /\ j = y.indice OBVIOUS
  <2>3. Llave(y) = <<p, j>> /\ <<p, j>> # <<d, k>> BY <2>2, <1>11 DEF Llave
  <2>4. p \in 1 .. Len(e) BY <2>1, <2>3, ClaveEs
  <2>5. f[p][j] = e[p][j] BY <2>3, <2>4, <1>17
  <2>6. W[Llave(y)] = V[Llave(y)] /\ Llave(y) \in DOMAIN W BY <2>1, <1>20
  <2>7. ASSUME Llave(y) \in Q, j # TAREAS PROVE y.puntero = f[p][Destino(j)]
    <3>1. y.puntero = e[p][Destino(j)] BY <2>1, <2>2, <2>7
    <3>2. <<p, Destino(j)>> # <<d, k>> BY <2>3, <2>7 DEF SinPuntero
    <3>. QED BY <3>1, <3>2, <2>4, <1>17
  <2>. QED BY <2>1, <2>2, <2>5, <2>6, <2>7 DEF Ubicada
<1>23. ASSUME NEW y \in Contenido(r) PROVE Ubicada(y, f, W, Q) BY <1>5, <1>6, <1>21, <1>22
<1>24. ASSUME NEW v \in DOMAIN W PROVE \E y \in Contenido(r) : Llave(y) = v
  <2>1. CASE v = <<d, k>> BY <2>1, <1>7, <1>8
  <2>2. CASE v \in DOMAIN V
    <3>1. PICK y \in Contenido(s) : Llave(y) = v BY <2>2 DEF Coherente
    <3>. QED BY <3>1, <1>5
  <2>. QED BY <2>1, <2>2, <1>18
<1>. QED BY <1>4, <1>14, <1>18, <1>23, <1>24 DEF Coherente, Agregada

\* no trip of the list is the element k of patota d
SinTrip(t, d, k) == \A h \in DOMAIN t : ~(h[1] = d /\ h[2] + 1 = k)

\* r is the memory m with the element k of patota d, of tam bytes, and c what
\* crear_segmento answered, before its address is written in the table
Creada(r, c, m, W, Q, tam, d, k) ==
  /\ Sana(r, W, Q) /\ MismaForma(r, m) /\ LibresDe(r) + tam = LibresDe(m)
  /\ r.mapa = c.mapa /\ r.tripulantes = c.tripulantes
  /\ c = [mapa |-> c.mapa, elementos |-> c.elementos, tripulantes |-> c.tripulantes]
  /\ Tabla(c.elementos) /\ r.elementos = [c.elementos EXCEPT ![d][k] = InicioDe(c.mapa, d, k)]
  /\ InicioDe(c.mapa, d, k) \in Lugares
  /\ r.elementos[d][k] = InicioDe(c.mapa, d, k)
  /\ ~SinLugar(m, tam)
  /\ Aptos(m.mapa, tam) # {} => c.elementos = m.elementos

\* crear_segmento of an element that fits in the free bytes never stops for lack of a
\* place, wherever those bytes are, and leaves the element where the table will say.
LEMMA CrearBien ==
  ASSUME NEW m, NEW V, NEW Q, Sana(m, V, Q),
         NEW tam \in Nat \ {0}, tam <= LibresDe(m),
         NEW d, NEW k, <<d, k>> \in Claves(m.elementos), <<d, k>> \notin DOMAIN V,
         SinPuntero(Q, d, k), SinTrip(m.tripulantes, d, k),
         NEW c, c = crear_segmento(m, tam, d, k),
         NEW r, r = [c EXCEPT !.elementos[d][k] = InicioDe(c.mapa, d, k)],
         NEW W, W = Agregado(V, <<d, k>>, tam)
  PROVE  Creada(r, c, m, W, Q, tam, d, k)
<1>1. PICK b : b = ConLugar(m, tam) OBVIOUS
<1>2. /\ Sana(b, V, Q) /\ MismaForma(b, m) /\ LibresDe(b) = LibresDe(m)
      /\ Aptos(b.mapa, tam) # {}
      /\ Aptos(m.mapa, tam) # {} => b = m
  BY <1>1, ConLugarBien
<1>3. PICK s, e, t : s = b.mapa /\ e = b.elementos /\ t = b.tripulantes OBVIOUS
<1>4. b = [mapa |-> s, elementos |-> e, tripulantes |-> t] BY <1>2, <1>3 DEF Sana
<1>5. PICK z : z = Insertar(s, tam, d, k) OBVIOUS
<1>6. c = [mapa |-> z, elementos |-> e, tripulantes |-> t]
  <2>1. c = [b EXCEPT !.mapa = Insertar(@, tam, d, k)] BY <1>1 DEF crear_segmento
  <2>. QED BY <2>1, <1>4, <1>5
<1>7. PICK ini : ini = InicioDe(z, d, k) OBVIOUS
<1>8. PICK f : f = [e EXCEPT ![d][k] = ini] OBVIOUS
<1>9. InicioDe(c.mapa, d, k) = ini BY <1>6, <1>7
<1>10. r = [mapa |-> z, elementos |-> f, tripulantes |-> t]
  <2>1. r = [c EXCEPT !.elementos[d][k] = ini] BY <1>9
  <2>. QED BY <2>1, <1>6, <1>8
<1>11. Coherente(s, e, V, Q) /\ Tabla(e) /\ DOMAIN V \subseteq Claves(e) /\ Anotados(t, e)
  BY <1>2, <1>3 DEF Sana
<1>12. /\ Len(e) = Len(m.elementos) /\ \A p \in 1 .. Len(e) : DOMAIN e[p] = DOMAIN m.elementos[p]
       /\ DOMAIN t = DOMAIN m.tripulantes
  BY <1>2, <1>3 DEF MismaForma
<1>13. Claves(e) = Claves(m.elementos) BY <1>12 DEF Claves
<1>14. <<d, k>> \in Claves(e) BY <1>13
<1>15. /\ Coherente(z, f, W, Q) /\ ini \in Lugares
       /\ BytesLibres(z, Len(z)) + tam = BytesLibres(s, Len(s))
  <2>1. Aptos(s, tam) # {} BY <1>2, <1>3
  <2>2. Agregada(z, f, s, W, Q, tam, ini)
    BY <2>1, <1>5, <1>7, <1>8, <1>11, <1>14, CrearCoherente
  <2>. QED BY <2>2 DEF Agregada
<1>16. d \in 1 .. Len(e) /\ k \in DOMAIN e[d] /\ e[d] \in Filas /\ Len(e) \in Nat
       /\ DOMAIN e = 1 .. Len(e) /\ e \in Seq(Filas)
  BY <1>11, <1>14, ClaveEs DEF Tabla
<1>17. e[d] = [j \in DOMAIN e[d] |-> e[d][j]] BY <1>16, FilaTipo
<1>18. f[d][k] = ini BY <1>8, <1>16, <1>17
<1>19. ASSUME NEW p \in 1 .. Len(e), NEW j, <<p, j>> # <<d, k>> PROVE f[p][j] = e[p][j]
  BY <1>8, <1>19, <1>16, <1>17
<1>20. DOMAIN f = 1 .. Len(e) /\ \A p \in 1 .. Len(e) : DOMAIN f[p] = DOMAIN e[p]
  <2>1. DOMAIN f = 1 .. Len(e) BY <1>8, <1>16
  <2>2. f[d] = [e[d] EXCEPT ![k] = ini] BY <1>8, <1>16
  <2>3. \A p \in 1 .. Len(e) : p # d => f[p] = e[p] BY <1>8, <1>16
  <2>4. DOMAIN f[d] = DOMAIN e[d] BY <2>2, <1>17
  <2>. QED BY <2>1, <2>3, <2>4
<1>21. Tabla(f) /\ Len(f) = Len(e)
  <2>1. PICK n \in 1 .. MaxTripulantes : e[d] \in [0 .. n + 1 -> Lugares] BY <1>16 DEF Filas
  <2>2. f[d] = [e[d] EXCEPT ![k] = ini] BY <1>8, <1>16
  <2>3. f[d] \in [0 .. n + 1 -> Lugares] BY <2>1, <2>2, <1>15
  <2>4. f[d] \in Filas BY <2>3 DEF Filas
  <2>5. \A p \in 1 .. Len(e) : e[p] \in Filas BY <1>16
  <2>6. \A p \in 1 .. Len(e) : p # d => f[p] = e[p] BY <1>8, <1>16
  <2>7. \A p \in 1 .. Len(e) : f[p] \in Filas BY <2>4, <2>5, <2>6
  <2>8. f = [p \in 1 .. Len(e) |-> f[p]] BY <1>8, <1>16
  <2>9. f \in [1 .. Len(e) -> Filas] BY <2>7, <2>8
  <2>. QED BY <2>9, <1>16, FuncionSeq DEF Tabla
<1>22. Anotados(t, f)
  <2>1. ASSUME NEW h \in DOMAIN t
        PROVE  /\ h = <<h[1], h[2]>> /\ h[1] \in 1 .. Len(f) /\ h[2] \in Nat
               /\ h[2] + 1 \in DOMAIN f[h[1]] /\ t[h] = f[h[1]][h[2] + 1]
    <3>1. /\ h = <<h[1], h[2]>> /\ h[1] \in 1 .. Len(e) /\ h[2] \in Nat
          /\ h[2] + 1 \in DOMAIN e[h[1]] /\ t[h] = e[h[1]][h[2] + 1]
      BY <1>11 DEF Anotados
    <3>2. PICK p, j : p = h[1] /\ j = h[2] + 1 OBVIOUS
    <3>3. ~(p = d /\ j = k) BY <3>2, <1>12 DEF SinTrip
    <3>4. f[p][j] = e[p][j] BY <3>1, <3>2, <3>3, <1>19
    <3>. QED BY <3>1, <3>2, <3>4, <1>20, <1>21
  <2>2. t = [h \in DOMAIN t |-> t[h]] BY <1>11 DEF Anotados
  <2>. QED BY <2>1, <2>2 DEF Anotados
<1>23. DOMAIN W \subseteq Claves(f)
  <2>1. Claves(f) = Claves(e) BY <1>20, <1>21 DEF Claves
  <2>2. DOMAIN W = DOMAIN V \union {<<d, k>>} BY DEF Agregado
  <2>. QED BY <2>1, <2>2, <1>11, <1>14
<1>24. r.mapa = z /\ r.elementos = f /\ r.tripulantes = t BY <1>10
<1>25. c.mapa = z /\ c.elementos = e /\ c.tripulantes = t BY <1>6
<1>26. r = [mapa |-> r.mapa, elementos |-> r.elementos, tripulantes |-> r.tripulantes]
  BY <1>10, <1>24
<1>27. Sana(r, W, Q) BY <1>15, <1>21, <1>22, <1>23, <1>24, <1>26 DEF Sana
<1>28. MismaForma(r, m) BY <1>12, <1>20, <1>21, <1>24 DEF MismaForma
<1>29. LibresDe(r) + tam = LibresDe(m) BY <1>2, <1>3, <1>15, <1>24 DEF LibresDe
<1>30. ~SinLugar(m, tam) BY <1>1, <1>2 DEF SinLugar
<1>31. Aptos(m.mapa, tam) # {} => c.elementos = m.elementos BY <1>2, <1>3, <1>25
<1>32. c = [mapa |-> c.mapa, elementos |-> c.elementos, tripulantes |-> c.tripulantes]
  BY <1>6, <1>25
<1>33. r.elementos = [c.elementos EXCEPT ![d][k] = InicioDe(c.mapa, d, k)]
  BY <1>8, <1>9, <1>24, <1>25
<1>34. InicioDe(c.mapa, d, k) \in Lugares /\ r.elementos[d][k] = InicioDe(c.mapa, d, k)
  BY <1>9, <1>15, <1>18, <1>24
<1>35. Tabla(c.elementos) BY <1>11, <1>25
<1>. QED BY <1>24, <1>25, <1>27, <1>28, <1>29, <1>30, <1>31, <1>32, <1>33, <1>34, <1>35
         DEF Creada

-----------------------------------------------------------------------------
(* Writing a pointer and freeing a segment *)

\* the segment of a live element
LEMMA SegmentoVivo ==
  ASSUME NEW s, NEW e, NEW V, NEW Q, Coherente(s, e, V, Q), NEW d, NEW k,
         <<d, k>> \in DOMAIN V
  PROVE  \E i \in 1 .. Len(s) :
           /\ Ocupado(s[i]) /\ s[i].duenio = d /\ s[i].indice = k
           /\ s[i].inicio = e[d][k] /\ s[i].tamanio = V[<<d, k>>]
           /\ DesdeInicio(s, e[d][k]) = i
<1>0. Casi(s) /\ s \in Seq(Seg) BY DEF Coherente, Ordenado, Casi
<1>1. PICK x \in Contenido(s) : Llave(x) = <<d, k>> BY DEF Coherente
<1>2. PICK i \in 1 .. Len(s) :
         /\ Ocupado(s[i]) /\ x.duenio = s[i].duenio /\ x.indice = s[i].indice
         /\ x.inicio = s[i].inicio /\ x.tamanio = s[i].tamanio
  BY <1>0, <1>1, CosaTipo
<1>3. Ubicada(x, e, V, Q) BY DEF Coherente
<1>4. x.duenio = d /\ x.indice = k BY <1>1 DEF Llave
<1>5. s[i].inicio = e[d][k] /\ s[i].tamanio = V[<<d, k>>] BY <1>1, <1>2, <1>3, <1>4 DEF Ubicada
<1>6. DesdeInicio(s, s[i].inicio) = i BY <1>0, <1>2, DesdeInicioUnico
<1>. QED BY <1>2, <1>4, <1>5, <1>6

\* one more element whose pointer leads where it should
Con(Q, v) == Q \union {v}

\* val is where the element k of patota d has to point
Lleva(e, d, k, val) == k # TAREAS => val = e[d][Destino(k)]

\* P has none but the elements of Q, and the element k of patota d if val is where it
\* has to point
Escrito(P, Q, e, d, k, val) ==
  /\ \A v \in P : v \in Q \/ v = <<d, k>>
  /\ <<d, k>> \in P => Lleva(e, d, k, val)

\* Something is written in the pointer of the element k of patota d: the other pointers
\* lead where they did.
LEMMA ApuntarBien ==
  ASSUME NEW s, NEW e, NEW V, NEW Q, Coherente(s, e, V, Q), NEW d, NEW k,
         <<d, k>> \in DOMAIN V,
         NEW val \in Lugares, NEW ini, ini = e[d][k],
         NEW r, r = Apuntar(s, ini, val), NEW P, Escrito(P, Q, e, d, k, val)
  PROVE  Coherente(r, e, V, P) /\ BytesLibres(r, Len(r)) = BytesLibres(s, Len(s))
<1>0. Casi(s) /\ Fundido(s) /\ s \in Seq(Seg) BY DEF Coherente, Ordenado, Casi
<1>1. PICK i \in 1 .. Len(s) :
         /\ Ocupado(s[i]) /\ s[i].duenio = d /\ s[i].indice = k
         /\ s[i].inicio = e[d][k] /\ s[i].tamanio = V[<<d, k>>]
         /\ DesdeInicio(s, e[d][k]) = i
  BY SegmentoVivo
<1>2. DOMAIN s = 1 .. Len(s) /\ Len(s) \in Nat /\ s[i] \in Seg BY <1>0, <1>1
<1>3. PICK y : y = [s[i] EXCEPT !.puntero = val] OBVIOUS
<1>4. val \in Nat BY MemoriaValida DEF Lugares
<1>5. /\ y \in Seg /\ y.n_segmento = s[i].n_segmento /\ y.inicio = s[i].inicio
      /\ y.tamanio = s[i].tamanio /\ y.duenio = s[i].duenio /\ y.indice = s[i].indice
      /\ y.puntero = val
  BY <1>2, <1>3, <1>4 DEF Seg
<1>6. r = [s EXCEPT ![i] = y] BY <1>1, <1>2, <1>3 DEF Apuntar
<1>7. /\ r \in Seq(Seg) /\ Len(r) = Len(s) /\ r[i] = y
      /\ \A j \in 1 .. Len(s) : j # i => r[j] = s[j]
  BY <1>0, <1>2, <1>5, <1>6
<1>8. ASSUME NEW j \in 1 .. Len(s)
      PROVE  /\ r[j].n_segmento = s[j].n_segmento /\ r[j].inicio = s[j].inicio
             /\ r[j].tamanio = s[j].tamanio /\ r[j].duenio = s[j].duenio
             /\ r[j].indice = s[j].indice
             /\ j # i => r[j].puntero = s[j].puntero
  BY <1>5, <1>7
<1>9. \A j \in 1 .. Len(s) : /\ EsLibre(r[j]) <=> EsLibre(s[j])
                             /\ Ocupado(r[j]) <=> Ocupado(s[j])
  BY <1>8 DEF EsLibre, Ocupado
<1>10. \A j \in 0 .. Len(s) : Fin(r, j) = Fin(s, j) BY <1>8 DEF Fin
<1>11. ASSUME NEW j \in 1 .. Len(s)
       PROVE  /\ r[j].n_segmento = j - 1 /\ r[j].inicio = Fin(r, j - 1)
              /\ r[j].tamanio = 0 => EsLibre(r[j]) /\ j = Len(s)
              /\ Limpio(r[j])
  <2>1. /\ s[j].n_segmento = j - 1 /\ s[j].inicio = Fin(s, j - 1)
        /\ s[j].tamanio = 0 => EsLibre(s[j]) /\ j = Len(s)
        /\ Limpio(s[j])
    BY <1>0 DEF Casi
  <2>2. j - 1 \in 0 .. Len(s) BY <1>2
  <2>3. Fin(r, j - 1) = Fin(s, j - 1) BY <2>2, <1>10
  <2>4. Limpio(r[j])
    <3>1. CASE j = i BY <3>1, <1>1, <1>9 DEF Limpio, EsLibre, Ocupado
    <3>2. CASE j # i BY <3>2, <1>7, <2>1
    <3>. QED BY <3>1, <3>2
  <2>. QED BY <2>1, <2>3, <2>4, <1>8, <1>9
<1>12. Casi(r)
  <2>1. Fin(r, Len(r)) = TAMANIO_MEMORIA
    <3>1. Fin(s, Len(s)) = TAMANIO_MEMORIA BY <1>0 DEF Casi
    <3>. QED BY <3>1, <1>2, <1>7, <1>10
  <2>2. Len(r) >= 1 BY <1>0, <1>7 DEF Casi
  <2>. QED BY <2>1, <2>2, <1>7, <1>11 DEF Casi
<1>13. Fundido(r)
  <2>1. ASSUME NEW j \in 1 .. Len(r) - 1 PROVE ~(EsLibre(r[j]) /\ EsLibre(r[j + 1]))
    <3>1. j \in 1 .. Len(s) /\ j + 1 \in 1 .. Len(s) /\ j \in 1 .. Len(s) - 1 BY <1>2, <1>7
    <3>. QED BY <3>1, <1>0, <1>9 DEF Fundido
  <2>. QED BY <2>1 DEF Fundido
<1>14. BytesLibres(r, Len(r)) = BytesLibres(s, Len(s))
  <2>1. \A j \in 1 .. Len(s) : Aporte(r[j]) = Aporte(s[j]) BY <1>8, <1>9 DEF Aporte
  <2>2. BytesLibres(r, Len(r)) + Aporte(s[i]) = BytesLibres(s, Len(s)) + Aporte(r[i])
    BY <1>0, <1>7, <2>1, LibresUno
  <2>3. Aporte(s[i]) \in Nat /\ Aporte(r[i]) = Aporte(s[i]) BY <1>0, <2>1, SegTipo
  <2>4. BytesLibres(r, Len(r)) \in Nat /\ BytesLibres(s, Len(s)) \in Nat
    BY <1>0, <1>2, <1>7, LibresPasos
  <2>. QED BY <2>2, <2>3, <2>4
<1>15. ASSUME NEW x \in Contenido(r) PROVE Ubicada(x, e, V, P)
  <2>1. PICK j \in 1 .. Len(r) :
           /\ Ocupado(r[j]) /\ x.inicio = r[j].inicio /\ x.tamanio = r[j].tamanio
           /\ x.duenio = r[j].duenio /\ x.indice = r[j].indice /\ x.puntero = r[j].puntero
    BY <1>12, CosaTipo
  <2>2. j \in 1 .. Len(s) /\ Ocupado(s[j]) BY <2>1, <1>7, <1>9
  <2>3. PICK z : z = Cosa(s[j]) OBVIOUS
  <2>4. Ubicada(z, e, V, Q) BY <2>2, <2>3, ContenidoTiene DEF Coherente
  <2>5. /\ x.inicio = z.inicio /\ x.tamanio = z.tamanio /\ x.duenio = z.duenio
        /\ x.indice = z.indice /\ z.puntero = s[j].puntero
    BY <2>1, <2>2, <2>3, <1>8, ContenidoTiene
  <2>6. Llave(x) = Llave(z) BY <2>5 DEF Llave
  <2>7. CASE j = i
    <3>1. x.puntero = val BY <2>1, <2>7, <1>5, <1>7
    <3>2. x.duenio = d /\ x.indice = k BY <2>1, <2>7, <1>1, <1>8
    <3>3. Llave(x) = <<d, k>> BY <3>2 DEF Llave
    <3>4. x.indice # TAREAS /\ <<d, k>> \in P => x.puntero = e[x.duenio][Destino(x.indice)]
      BY <3>1, <3>2 DEF Escrito, Lleva
    <3>. QED BY <3>1, <3>3, <3>4, <2>4, <2>5, <2>6 DEF Ubicada
  <2>8. CASE j # i
    <3>1. x.puntero = z.puntero BY <2>1, <2>2, <2>5, <2>8, <1>8
    <3>2. Llave(x) # <<d, k>>
      <4>1. Unicas(s) BY LlavesUnicas
      <4>2. ~(s[j].duenio = d /\ s[j].indice = k) BY <4>1, <1>1, <2>2, <2>8 DEF Unicas
      <4>3. x.duenio = s[j].duenio /\ x.indice = s[j].indice BY <2>1, <2>2, <1>8
      <4>. QED BY <4>2, <4>3 DEF Llave
    <3>3. Llave(x) \in P => Llave(z) \in Q BY <3>2, <2>6 DEF Escrito
    <3>. QED BY <3>1, <3>3, <2>4, <2>5, <2>6 DEF Ubicada
  <2>. QED BY <2>7, <2>8
<1>16. ASSUME NEW v \in DOMAIN V PROVE \E x \in Contenido(r) : Llave(x) = v
  <2>1. PICK z \in Contenido(s) : Llave(z) = v BY DEF Coherente
  <2>2. PICK j \in 1 .. Len(s) : /\ Ocupado(s[j]) /\ z.duenio = s[j].duenio
                                 /\ z.indice = s[j].indice
    BY <1>0, CosaTipo
  <2>3. j \in 1 .. Len(r) /\ Ocupado(r[j]) BY <2>2, <1>7, <1>9
  <2>4. Cosa(r[j]) \in Contenido(r) BY <2>3, ContenidoTiene
  <2>5. Cosa(r[j]).duenio = s[j].duenio /\ Cosa(r[j]).indice = s[j].indice
    BY <2>2, <2>3, <1>8, ContenidoTiene
  <2>6. Llave(Cosa(r[j])) = v BY <2>1, <2>2, <2>5 DEF Llave
  <2>. QED BY <2>4, <2>6
<1>17. V = [v \in DOMAIN V |-> V[v]] BY DEF Coherente
<1>18. Coherente(r, e, V, P) BY <1>12, <1>13, <1>15, <1>16, <1>17 DEF Coherente, Ordenado
<1>. QED BY <1>14, <1>18

\* one live element less
Menos(V, v) == [w \in DOMAIN V \ {v} |-> V[w]]

\* Freeing the segment of a live element leaves the other elements as they were.
LEMMA EliminarCoherente ==
  ASSUME NEW s, NEW e, NEW V, NEW Q, Coherente(s, e, V, Q), NEW d, NEW k,
         <<d, k>> \in DOMAIN V,
         NEW i, i = DesdeInicio(s, e[d][k]),
         NEW r, r = eliminar_segmento(s, i), NEW W, W = Menos(V, <<d, k>>)
  PROVE  /\ Coherente(r, e, W, Q)
         /\ BytesLibres(r, Len(r)) = BytesLibres(s, Len(s)) + V[<<d, k>>]
<1>0. Casi(s) /\ Ordenado(s) BY DEF Coherente, Ordenado
<1>1. /\ i \in 1 .. Len(s) /\ Ocupado(s[i]) /\ s[i].duenio = d /\ s[i].indice = k
      /\ s[i].tamanio = V[<<d, k>>]
  BY SegmentoVivo
<1>2. PICK x : x = Cosa(s[i]) OBVIOUS
<1>3. /\ Ordenado(r)
      /\ BytesLibres(r, Len(r)) = BytesLibres(s, Len(s)) + s[i].tamanio
      /\ Contenido(r) = Sin(Contenido(s), x)
  BY <1>0, <1>1, <1>2, EliminarBien
<1>4. x \in Contenido(s) /\ Llave(x) = <<d, k>> BY <1>1, <1>2, ContenidoTiene DEF Llave
<1>5. DOMAIN W = DOMAIN V \ {<<d, k>>} /\ W = [v \in DOMAIN W |-> W[v]]
      /\ \A v \in DOMAIN W : W[v] = V[v]
  BY DEF Menos
<1>6. \A y \in Contenido(s) : Llave(y) = <<d, k>> => y = x BY <1>4, LlavesUnicas
<1>7. ASSUME NEW y \in Contenido(r) PROVE Ubicada(y, e, W, Q)
  <2>1. y \in Contenido(s) /\ y # x BY <1>3 DEF Sin
  <2>2. Ubicada(y, e, V, Q) BY <2>1 DEF Coherente
  <2>3. Llave(y) \in DOMAIN W
    <3>1. Llave(y) \in DOMAIN V BY <2>2 DEF Ubicada
    <3>2. Llave(y) # <<d, k>> BY <2>1, <1>6
    <3>. QED BY <3>1, <3>2, <1>5
  <2>4. W[Llave(y)] = V[Llave(y)] BY <2>3, <1>5
  <2>. QED BY <2>2, <2>3, <2>4 DEF Ubicada
<1>8. ASSUME NEW v \in DOMAIN W PROVE \E y \in Contenido(r) : Llave(y) = v
  <2>1. v \in DOMAIN V /\ v # <<d, k>> BY <1>5
  <2>2. PICK y \in Contenido(s) : Llave(y) = v BY <2>1 DEF Coherente
  <2>3. y # x BY <2>1, <2>2, <1>4
  <2>. QED BY <2>2, <2>3, <1>3 DEF Sin
<1>9. Coherente(r, e, W, Q) BY <1>3, <1>5, <1>7, <1>8 DEF Coherente
<1>. QED BY <1>1, <1>3, <1>9

-----------------------------------------------------------------------------
(* The elements of a new patota *)

\* z is the memory m with one more patota in the table
ConFila(z, m, fila) ==
  /\ z.mapa = m.mapa /\ z.tripulantes = m.tripulantes
  /\ Len(z.elementos) = Len(m.elementos) + 1
  /\ z.elementos[Len(m.elementos) + 1] = fila
  /\ \A p \in 1 .. Len(m.elementos) : z.elementos[p] = m.elementos[p]

\* The row of a new patota, before it has segments.
LEMMA FilaNueva ==
  ASSUME NEW m, NEW V, NEW Q, Sana(m, V, Q), NEW fila \in Filas,
         NEW z, z = [m EXCEPT !.elementos = Append(@, fila)]
  PROVE  Sana(z, V, Q) /\ ConFila(z, m, fila) /\ LibresDe(z) = LibresDe(m)
<1>1. PICK s, e, t : s = m.mapa /\ e = m.elementos /\ t = m.tripulantes OBVIOUS
<1>2. m = [mapa |-> s, elementos |-> e, tripulantes |-> t] BY <1>1 DEF Sana
<1>3. PICK f : f = Append(e, fila) OBVIOUS
<1>4. z = [mapa |-> s, elementos |-> f, tripulantes |-> t] BY <1>2, <1>3
<1>5. z.mapa = s /\ z.elementos = f /\ z.tripulantes = t BY <1>4
<1>6. Coherente(s, e, V, Q) /\ Tabla(e) /\ DOMAIN V \subseteq Claves(e) /\ Anotados(t, e)
  BY <1>1 DEF Sana
<1>7. e \in Seq(Filas) /\ Len(e) \in Nat BY <1>6 DEF Tabla
<1>8. /\ f \in Seq(Filas) /\ Len(f) = Len(e) + 1 /\ f[Len(e) + 1] = fila
      /\ \A p \in 1 .. Len(e) : f[p] = e[p]
  BY <1>3, <1>7
<1>9. \A p \in 1 .. Len(e) : p \in 1 .. Len(f) BY <1>7, <1>8
<1>10. ASSUME NEW x \in Contenido(s) PROVE Ubicada(x, f, V, Q)
  <2>1. Ubicada(x, e, V, Q) BY <1>6 DEF Coherente
  <2>2. Llave(x) \in Claves(e) BY <2>1, <1>6 DEF Ubicada
  <2>3. x.duenio \in 1 .. Len(e) BY <2>2, ClaveEs DEF Llave
  <2>4. f[x.duenio] = e[x.duenio] BY <2>3, <1>8
  <2>. QED BY <2>1, <2>4 DEF Ubicada
<1>11. Coherente(s, f, V, Q) BY <1>6, <1>10 DEF Coherente
<1>12. ASSUME NEW v \in Claves(e) PROVE v \in Claves(f)
  <2>1. PICK p \in 1 .. Len(e) : \E k \in DOMAIN e[p] : v = <<p, k>> BY DEF Claves
  <2>2. PICK k \in DOMAIN e[p] : v = <<p, k>> BY <2>1
  <2>3. f[p] = e[p] /\ p \in 1 .. Len(f) BY <1>8, <1>9
  <2>4. k \in DOMAIN f[p] BY <2>3
  <2>. QED BY <2>2, <2>3, <2>4, ClaveEs
<1>13. DOMAIN V \subseteq Claves(f) BY <1>6, <1>12
<1>14. Anotados(t, f)
  <2>1. ASSUME NEW h \in DOMAIN t
        PROVE  /\ h = <<h[1], h[2]>> /\ h[1] \in 1 .. Len(f) /\ h[2] \in Nat
               /\ h[2] + 1 \in DOMAIN f[h[1]] /\ t[h] = f[h[1]][h[2] + 1]
    <3>1. /\ h = <<h[1], h[2]>> /\ h[1] \in 1 .. Len(e) /\ h[2] \in Nat
          /\ h[2] + 1 \in DOMAIN e[h[1]] /\ t[h] = e[h[1]][h[2] + 1]
      BY <1>6 DEF Anotados
    <3>2. f[h[1]] = e[h[1]] /\ h[1] \in 1 .. Len(f) BY <3>1, <1>8, <1>9
    <3>. QED BY <3>1, <3>2
  <2>2. t = [h \in DOMAIN t |-> t[h]] BY <1>6 DEF Anotados
  <2>. QED BY <2>1, <2>2 DEF Anotados
<1>15. z = [mapa |-> z.mapa, elementos |-> z.elementos, tripulantes |-> z.tripulantes]
  BY <1>4, <1>5
<1>16. Tabla(f) BY <1>8 DEF Tabla
<1>17. Sana(z, V, Q) BY <1>5, <1>11, <1>13, <1>14, <1>15, <1>16 DEF Sana
<1>18. ConFila(z, m, fila) BY <1>1, <1>5, <1>8 DEF ConFila
<1>. QED BY <1>1, <1>5, <1>17, <1>18 DEF LibresDe

\* And so they do in the memory.
LEMMA ApuntarSana ==
  ASSUME NEW m, NEW V, NEW Q, Sana(m, V, Q), NEW d, NEW k, <<d, k>> \in DOMAIN V,
         NEW val \in Lugares, NEW ini, ini = m.elementos[d][k],
         NEW z, z = [m EXCEPT !.mapa = Apuntar(@, ini, val)],
         NEW P, Escrito(P, Q, m.elementos, d, k, val)
  PROVE  /\ Sana(z, V, P) /\ LibresDe(z) = LibresDe(m)
         /\ z.elementos = m.elementos /\ z.tripulantes = m.tripulantes
<1>1. PICK s, e, t : s = m.mapa /\ e = m.elementos /\ t = m.tripulantes OBVIOUS
<1>2. m = [mapa |-> s, elementos |-> e, tripulantes |-> t] BY <1>1 DEF Sana
<1>3. ini = e[d][k] BY <1>1
<1>4. PICK r : r = Apuntar(s, ini, val) OBVIOUS
<1>5. z = [mapa |-> r, elementos |-> e, tripulantes |-> t] BY <1>1, <1>2, <1>3, <1>4
<1>6. z.mapa = r /\ z.elementos = e /\ z.tripulantes = t BY <1>5
<1>7. Coherente(s, e, V, Q) BY <1>1 DEF Sana
<1>8. Escrito(P, Q, e, d, k, val) BY <1>1
<1>9. Coherente(r, e, V, P) /\ BytesLibres(r, Len(r)) = BytesLibres(s, Len(s))
  BY <1>3, <1>4, <1>7, <1>8, ApuntarBien
<1>10. z = [mapa |-> z.mapa, elementos |-> z.elementos, tripulantes |-> z.tripulantes]
  BY <1>5, <1>6
<1>11. Sana(z, V, P) BY <1>1, <1>6, <1>9, <1>10 DEF Sana
<1>. QED BY <1>1, <1>6, <1>9, <1>11 DEF LibresDe

\* The tasks have no pointer.
LEMMA SanaTareas ==
  ASSUME NEW m, NEW V, NEW Q, Sana(m, V, Q), NEW P,
         \A d, k : <<d, k>> \in P => <<d, k>> \in Q \/ k = TAREAS
  PROVE  Sana(m, V, P)
<1>1. PICK s, e : s = m.mapa /\ e = m.elementos OBVIOUS
<1>2. Coherente(s, e, V, Q) BY <1>1 DEF Sana
<1>3. ASSUME NEW x \in Contenido(s) PROVE Ubicada(x, e, V, P)
  <2>1. Ubicada(x, e, V, Q) BY <1>2 DEF Coherente
  <2>2. Llave(x) \in P /\ x.indice # TAREAS => Llave(x) \in Q BY DEF Llave
  <2>. QED BY <2>1, <2>2 DEF Ubicada
<1>4. Coherente(s, e, V, P) BY <1>2, <1>3 DEF Coherente
<1>. QED BY <1>1, <1>4 DEF Sana

\* r is what the acceptance of a patota leaves of the memory m
Aceptada(r, m, nueva, conPcb, W, P, tareas) ==
  /\ Sana(r, W, P) /\ MismaForma(r, nueva)
  /\ LibresDe(r) + TAMANIO_PATOTA + tareas = LibresDe(m)
  /\ ~SinLugar(nueva, TAMANIO_PATOTA) /\ ~SinLugar(conPcb, tareas)
  /\ Aptos(nueva.mapa, TAMANIO_PATOTA) # {} /\ Aptos(conPcb.mapa, tareas) # {} =>
       \A q \in 1 .. Len(m.elementos) : r.elementos[q] = m.elementos[q]

\* the steps of iniciar_patota
Alta(m, fila, tareas, p, nueva, pcb, conPcb, todo, a, b, r) ==
  /\ p = Len(m.elementos) + 1
  /\ nueva = [m EXCEPT !.elementos = Append(@, fila)]
  /\ pcb = crear_segmento(nueva, TAMANIO_PATOTA, p, PCB)
  /\ conPcb = [pcb EXCEPT !.elementos[p][PCB] = InicioDe(pcb.mapa, p, PCB)]
  /\ todo = crear_segmento(conPcb, tareas, p, TAREAS)
  /\ a = InicioDe(todo.mapa, p, PCB) /\ b = InicioDe(todo.mapa, p, TAREAS)
  /\ r = [todo EXCEPT !.elementos[p][PCB] = a, !.elementos[p][TAREAS] = b,
                      !.mapa = Apuntar(@, a, b)]

\* iniciar_patota in a memory with room: both segments are created, the second may move the
\* first, and the pointer of the control block is written with the address it has in the end.
LEMMA PatotaBien ==
  ASSUME NEW m, NEW V, NEW Q, Sana(m, V, Q),
         NEW fila \in Filas, NEW tareas \in Nat \ {0},
         TAMANIO_PATOTA + tareas <= LibresDe(m),
         NEW p, NEW nueva, NEW pcb, NEW conPcb, NEW todo, NEW a, NEW b, NEW r,
         Alta(m, fila, tareas, p, nueva, pcb, conPcb, todo, a, b, r),
         \A k : <<p, k>> \notin Q,
         NEW U, U = Agregado(V, <<p, PCB>>, TAMANIO_PATOTA),
         NEW W, W = Agregado(U, <<p, TAREAS>>, tareas),
         NEW P, P = Con(Q, <<p, PCB>>)
  PROVE  Aceptada(r, m, nueva, conPcb, W, P, tareas)
<1>0. p = Len(m.elementos) + 1 BY DEF Alta
<1>01. nueva = [m EXCEPT !.elementos = Append(@, fila)] BY DEF Alta
<1>02. pcb = crear_segmento(nueva, TAMANIO_PATOTA, p, PCB) BY DEF Alta
<1>03. conPcb = [pcb EXCEPT !.elementos[p][PCB] = InicioDe(pcb.mapa, p, PCB)] BY DEF Alta
<1>04. todo = crear_segmento(conPcb, tareas, p, TAREAS) BY DEF Alta
<1>05. a = InicioDe(todo.mapa, p, PCB) BY DEF Alta
<1>06. b = InicioDe(todo.mapa, p, TAREAS) BY DEF Alta
<1>07. r = [todo EXCEPT !.elementos[p][PCB] = a, !.elementos[p][TAREAS] = b,
                       !.mapa = Apuntar(@, a, b)]
  BY DEF Alta
<1>1. Sana(nueva, V, Q) /\ ConFila(nueva, m, fila) /\ LibresDe(nueva) = LibresDe(m)
  BY <1>01, FilaNueva
<1>2. LibresDe(m) \in Nat /\ TAMANIO_PATOTA \in Nat \ {0} /\ Len(m.elementos) \in Nat
  <2>1. m.mapa \in Seq(Seg) BY DEF Sana, Coherente, Ordenado, Casi
  <2>2. Len(m.elementos) \in Nat BY DEF Sana, Tabla
  <2>. QED BY <2>1, <2>2, LibresPasos, MemoriaValida DEF LibresDe
<1>3. /\ Len(nueva.elementos) = p /\ nueva.elementos[p] = fila
      /\ nueva.tripulantes = m.tripulantes
      /\ p \in 1 .. p /\ p \in Nat \ {0}
  BY <1>0, <1>1, <1>2 DEF ConFila
<1>4. PCB \in DOMAIN fila /\ TAREAS \in DOMAIN fila BY FilaTipo
<1>5. <<p, PCB>> \in Claves(nueva.elementos) /\ <<p, TAREAS>> \in Claves(nueva.elementos)
  BY <1>3, <1>4, ClaveEs
<1>6. ASSUME NEW j PROVE <<p, j>> \notin DOMAIN V
  <2>1. DOMAIN V \subseteq Claves(m.elementos) BY DEF Sana
  <2>2. ~(p \in 1 .. Len(m.elementos)) BY <1>0, <1>2
  <2>. QED BY <2>1, <2>2, ClaveEs
<1>7. SinPuntero(Q, p, PCB) /\ SinPuntero(Q, p, TAREAS) BY DEF SinPuntero
<1>8. \A k : SinTrip(nueva.tripulantes, p, k)
  <2>1. ASSUME NEW h \in DOMAIN m.tripulantes PROVE h[1] # p
    <3>1. h[1] \in 1 .. Len(m.elementos) BY DEF Sana, Anotados
    <3>. QED BY <3>1, <1>0, <1>2
  <2>. QED BY <2>1, <1>3 DEF SinTrip
<1>9. TAMANIO_PATOTA <= LibresDe(nueva) /\ TAMANIO_PATOTA \in Nat \ {0} BY <1>1, <1>2
<1>10. Creada(conPcb, pcb, nueva, U, Q, TAMANIO_PATOTA, p, PCB)
  BY <1>02, <1>03, <1>1, <1>5, <1>6, <1>7, <1>8, <1>9, CrearBien
<1>11. /\ Sana(conPcb, U, Q) /\ MismaForma(conPcb, nueva)
       /\ LibresDe(conPcb) + TAMANIO_PATOTA = LibresDe(nueva)
       /\ ~SinLugar(nueva, TAMANIO_PATOTA)
  BY <1>10 DEF Creada
<1>12. LibresDe(conPcb) \in Nat
  <2>1. conPcb.mapa \in Seq(Seg) BY <1>11 DEF Sana, Coherente, Ordenado, Casi
  <2>. QED BY <2>1, LibresPasos DEF LibresDe
<1>13. tareas <= LibresDe(conPcb) BY <1>1, <1>2, <1>11, <1>12
<1>14. DOMAIN U = DOMAIN V \union {<<p, PCB>>} BY DEF Agregado
<1>15. <<p, TAREAS>> \notin DOMAIN U BY <1>6, <1>14 DEF PCB, TAREAS
<1>16. /\ <<p, TAREAS>> \in Claves(conPcb.elementos)
       /\ \A k : SinTrip(conPcb.tripulantes, p, k)
  <2>1. Claves(conPcb.elementos) = Claves(nueva.elementos) BY <1>11 DEF MismaForma, Claves
  <2>2. DOMAIN conPcb.tripulantes = DOMAIN nueva.tripulantes BY <1>11 DEF MismaForma
  <2>. QED BY <2>1, <2>2, <1>5, <1>8 DEF SinTrip
<1>17. PICK rr : rr = [todo EXCEPT !.elementos[p][TAREAS] = InicioDe(todo.mapa, p, TAREAS)]
  OBVIOUS
<1>18. Creada(rr, todo, conPcb, W, Q, tareas, p, TAREAS)
  BY <1>04, <1>11, <1>13, <1>15, <1>16, <1>7, <1>17, CrearBien
<1>19. /\ Sana(rr, W, Q) /\ MismaForma(rr, conPcb) /\ LibresDe(rr) + tareas = LibresDe(conPcb)
       /\ rr.mapa = todo.mapa /\ rr.tripulantes = todo.tripulantes
       /\ todo = [mapa |-> todo.mapa, elementos |-> todo.elementos,
                  tripulantes |-> todo.tripulantes]
       /\ Tabla(todo.elementos) /\ rr.elementos = [todo.elementos EXCEPT ![p][TAREAS] = b]
       /\ b \in Lugares /\ rr.elementos[p][TAREAS] = b
       /\ ~SinLugar(conPcb, tareas)
  BY <1>18, <1>06 DEF Creada
<1>20. DOMAIN W = DOMAIN U \union {<<p, TAREAS>>} BY DEF Agregado
<1>21. <<p, PCB>> \in DOMAIN W BY <1>14, <1>20
<1>22. a = rr.elementos[p][PCB]
  <2>1. Coherente(rr.mapa, rr.elementos, W, Q) BY <1>19 DEF Sana
  <2>2. InicioDe(rr.mapa, p, PCB) = rr.elementos[p][PCB] BY <2>1, <1>3, <1>21, InicioDeVivo
  <2>. QED BY <2>2, <1>05, <1>19
<1>23. PICK f, g : f = todo.elementos /\ g = rr.elementos OBVIOUS
<1>24. /\ p \in DOMAIN f /\ f[p] = [k \in DOMAIN f[p] |-> f[p][k]]
       /\ PCB \in DOMAIN f[p] /\ TAREAS \in DOMAIN f[p] /\ DOMAIN f = 1 .. Len(f)
  <2>1. f \in Seq(Filas) BY <1>19, <1>23 DEF Tabla
  <2>2. g = [f EXCEPT ![p][TAREAS] = b] BY <1>19, <1>23
  <2>3. DOMAIN g = DOMAIN f BY <2>1, <2>2
  <2>4. g \in Seq(Filas) BY <1>19, <1>23 DEF Sana, Tabla
  <2>5. Len(g) = p BY <1>3, <1>11, <1>19, <1>23 DEF MismaForma
  <2>6. p \in DOMAIN f BY <2>3, <2>4, <2>5, <1>3
  <2>7. f[p] \in Filas /\ DOMAIN f = 1 .. Len(f) BY <2>1, <2>6
  <2>. QED BY <2>6, <2>7, FilaTipo
<1>25. g = [f EXCEPT ![p][PCB] = a, ![p][TAREAS] = b]
  <2>1. g = [f EXCEPT ![p][TAREAS] = b] BY <1>19, <1>23
  <2>2. f[p][PCB] = a
    <3>1. g[p] = [f[p] EXCEPT ![TAREAS] = b] BY <2>1, <1>24
    <3>2. g[p][PCB] = f[p][PCB] BY <3>1, <1>24 DEF PCB, TAREAS
    <3>. QED BY <3>2, <1>22, <1>23
  <2>3. [f[p] EXCEPT ![PCB] = a] = f[p] BY <2>2, <1>24
  <2>5. f = [q \in DOMAIN f |-> f[q]]
    <3>1. f \in Seq(Filas) BY <1>19, <1>23 DEF Tabla
    <3>. QED BY <3>1, <1>24, SeqFuncion
  <2>4. [f EXCEPT ![p][PCB] = a] = f BY <2>3, <2>5, <1>24
  <2>. QED BY <2>1, <2>4
<1>26. r = [rr EXCEPT !.mapa = Apuntar(@, a, b)]
  <2>1. rr = [mapa |-> rr.mapa, elementos |-> g, tripulantes |-> rr.tripulantes]
    BY <1>19, <1>23 DEF Sana
  <2>2. todo = [mapa |-> rr.mapa, elementos |-> f, tripulantes |-> rr.tripulantes]
    BY <1>19, <1>23
  <2>3. r = [mapa |-> Apuntar(rr.mapa, a, b), elementos |-> g, tripulantes |-> rr.tripulantes]
    BY <2>2, <1>07, <1>25
  <2>. QED BY <2>1, <2>3, <1>22
<1>27. Lleva(rr.elementos, p, PCB, b) BY <1>19 DEF Lleva, Destino
<1>28. Escrito(P, Q, rr.elementos, p, PCB, b) BY <1>27 DEF Escrito, Con
<1>29. /\ Sana(r, W, P) /\ LibresDe(r) = LibresDe(rr)
       /\ r.elementos = rr.elementos /\ r.tripulantes = rr.tripulantes
  <2>1. Sana(rr, W, Q) /\ b \in Lugares BY <1>19
  <2>. QED BY <2>1, <1>21, <1>22, <1>26, <1>28, ApuntarSana
<1>31. MismaForma(r, nueva) BY <1>11, <1>19, <1>29 DEF MismaForma
<1>32. LibresDe(r) + TAMANIO_PATOTA + tareas = LibresDe(m)
  <2>1. LibresDe(r) \in Nat
    <3>1. r.mapa \in Seq(Seg) BY <1>29 DEF Sana, Coherente, Ordenado, Casi
    <3>. QED BY <3>1, LibresPasos DEF LibresDe
  <2>. QED BY <2>1, <1>1, <1>2, <1>11, <1>12, <1>19, <1>29
<1>33. ASSUME Aptos(nueva.mapa, TAMANIO_PATOTA) # {}, Aptos(conPcb.mapa, tareas) # {},
              NEW q \in 1 .. Len(m.elementos)
       PROVE  r.elementos[q] = m.elementos[q]
  <2>1. q # p BY <1>0, <1>2
  <2>2. pcb.elementos = nueva.elementos /\ Tabla(pcb.elementos)
        /\ conPcb.elementos = [pcb.elementos EXCEPT ![p][PCB] = InicioDe(pcb.mapa, p, PCB)]
    BY <1>03, <1>10, <1>33 DEF Creada
  <2>3. PICK e : e = nueva.elementos OBVIOUS
  <2>4. q \in DOMAIN e /\ e[q] = m.elementos[q]
    <3>1. e \in Seq(Filas) BY <2>2, <2>3 DEF Tabla
    <3>2. q \in 1 .. Len(e) BY <1>0, <1>2, <1>3, <2>3
    <3>. QED BY <3>1, <3>2, <1>1, <2>3 DEF ConFila
  <2>5. conPcb.elementos[q] = e[q] BY <2>1, <2>2, <2>3, <2>4
  <2>6. todo.elementos = conPcb.elementos BY <1>18, <1>33 DEF Creada
  <2>7. g[q] = f[q]
    <3>1. g = [f EXCEPT ![p][TAREAS] = b] BY <1>19, <1>23
    <3>2. q \in DOMAIN f
      <4>1. DOMAIN conPcb.elementos = DOMAIN e BY <2>2, <2>3
      <4>. QED BY <4>1, <2>4, <2>6, <1>23
    <3>. QED BY <3>1, <3>2, <2>1
  <2>. QED BY <2>4, <2>5, <2>6, <2>7, <1>23, <1>29
<1>. QED BY <1>11, <1>19, <1>29, <1>31, <1>32, <1>33 DEF Aceptada

-----------------------------------------------------------------------------
(* A new trip *)

\* the steps of iniciar_tripulante
AltaTrip(m, d, t, k, c, ini, r) ==
  /\ k = t + 1
  /\ c = crear_segmento(m, TAMANIO_TRIPULANTE, d, k)
  /\ ini = InicioDe(c.mapa, d, k)
  /\ r = [c EXCEPT !.elementos[d][k] = ini,
                   !.tripulantes = Agregado(@, <<d, t>>, ini)]

\* r is what a new trip leaves of the memory m
Iniciado(r, m, W, Q, d, t) ==
  /\ Sana(r, W, Q)
  /\ LibresDe(r) + TAMANIO_TRIPULANTE = LibresDe(m)
  /\ Len(r.elementos) = Len(m.elementos)
  /\ \A p \in 1 .. Len(m.elementos) : DOMAIN r.elementos[p] = DOMAIN m.elementos[p]
  /\ DOMAIN r.tripulantes = DOMAIN m.tripulantes \union {<<d, t>>}
  /\ Aptos(m.mapa, TAMANIO_TRIPULANTE) # {} =>
       \A p \in 1 .. Len(m.elementos) : \A j : <<p, j>> # <<d, t + 1>> =>
         r.elementos[p][j] = m.elementos[p][j]

\* iniciar_tripulante in a memory with room: the trip has its segment and its place in the
\* table and in the list.
LEMMA TripBien ==
  ASSUME NEW m, NEW V, NEW Q, Sana(m, V, Q),
         TAMANIO_TRIPULANTE <= LibresDe(m),
         NEW d, NEW t \in Nat \ {0}, NEW k, NEW c, NEW ini, NEW r,
         AltaTrip(m, d, t, k, c, ini, r),
         <<d, k>> \in Claves(m.elementos), <<d, k>> \notin DOMAIN V, <<d, k>> \notin Q,
         SinTrip(m.tripulantes, d, k),
         NEW W, W = Agregado(V, <<d, k>>, TAMANIO_TRIPULANTE)
  PROVE  Iniciado(r, m, W, Q, d, t) /\ ~SinLugar(m, TAMANIO_TRIPULANTE)
<1>1. k = t + 1 /\ c = crear_segmento(m, TAMANIO_TRIPULANTE, d, k) BY DEF AltaTrip
<1>2. ini = InicioDe(c.mapa, d, k) BY DEF AltaTrip
<1>3. r = [c EXCEPT !.elementos[d][k] = ini,
                   !.tripulantes = Agregado(@, <<d, t>>, ini)]
  BY DEF AltaTrip
<1>4. k # PCB /\ k # TAREAS /\ t \in Nat BY <1>1 DEF PCB, TAREAS
<1>5. SinPuntero(Q, d, k) BY <1>4 DEF SinPuntero, Destino
<1>6. TAMANIO_TRIPULANTE \in Nat \ {0} BY MemoriaValida
<1>7. PICK rr : rr = [c EXCEPT !.elementos[d][k] = InicioDe(c.mapa, d, k)] OBVIOUS
<1>8. Creada(rr, c, m, W, Q, TAMANIO_TRIPULANTE, d, k) BY <1>1, <1>5, <1>6, <1>7, CrearBien
<1>9. /\ Sana(rr, W, Q) /\ MismaForma(rr, m)
      /\ LibresDe(rr) + TAMANIO_TRIPULANTE = LibresDe(m)
      /\ ~SinLugar(m, TAMANIO_TRIPULANTE)
      /\ ini \in Lugares /\ rr.elementos[d][k] = ini
  BY <1>2, <1>8 DEF Creada
<1>10. PICK f, g, s, u : /\ f = c.elementos /\ g = rr.elementos /\ s = rr.mapa
                         /\ u = rr.tripulantes
  OBVIOUS
<1>11. /\ c = [mapa |-> s, elementos |-> f, tripulantes |-> u]
       /\ Tabla(f) /\ g = [f EXCEPT ![d][k] = ini]
  BY <1>2, <1>8, <1>10 DEF Creada
<1>12. rr = [mapa |-> s, elementos |-> g, tripulantes |-> u] BY <1>9, <1>10 DEF Sana
<1>13. d \in 1 .. Len(m.elementos) /\ k \in DOMAIN m.elementos[d] BY ClaveEs
<1>14. /\ d \in DOMAIN f /\ d \in DOMAIN g /\ f[d] = [j \in DOMAIN f[d] |-> f[d][j]]
       /\ PCB \in DOMAIN f[d]
  <2>1. f \in Seq(Filas) /\ g \in Seq(Filas) BY <1>9, <1>10, <1>11 DEF Sana, Tabla
  <2>2. DOMAIN f = DOMAIN g BY <2>1, <1>11
  <2>3. Len(g) = Len(m.elementos) BY <1>9, <1>10 DEF MismaForma
  <2>4. d \in DOMAIN g BY <2>1, <2>3, <1>13
  <2>5. f[d] \in Filas BY <2>1, <2>2, <2>4
  <2>. QED BY <2>2, <2>4, <2>5, FilaTipo
<1>15. ASSUME NEW p \in DOMAIN f, NEW j, <<p, j>> # <<d, k>> PROVE g[p][j] = f[p][j]
  BY <1>11, <1>14, <1>15
<1>24. PICK w : w = Agregado(u, <<d, t>>, ini) OBVIOUS
<1>25. r = [mapa |-> s, elementos |-> g, tripulantes |-> w]
  <2>1. w = Agregado(c.tripulantes, <<d, t>>, ini) BY <1>11, <1>24
  <2>2. r = [c EXCEPT !.elementos[d][k] = ini, !.tripulantes = w] BY <2>1, <1>3
  <2>. QED BY <2>2, <1>11
<1>26. r.mapa = s /\ r.elementos = g /\ r.tripulantes = w BY <1>25
<1>27. /\ DOMAIN w = DOMAIN u \union {<<d, t>>} /\ w[<<d, t>>] = ini
       /\ w = [h \in DOMAIN w |-> w[h]]
       /\ \A h \in DOMAIN u : h # <<d, t>> => w[h] = u[h]
  BY <1>24 DEF Agregado
<1>28. Anotados(w, g)
  <2>1. Anotados(u, g) BY <1>9, <1>10 DEF Sana
  <2>2. ASSUME NEW h \in DOMAIN w
        PROVE  /\ h = <<h[1], h[2]>> /\ h[1] \in 1 .. Len(g) /\ h[2] \in Nat
               /\ h[2] + 1 \in DOMAIN g[h[1]] /\ w[h] = g[h[1]][h[2] + 1]
    <3>1. CASE h = <<d, t>>
      <4>1. h[1] = d /\ h[2] = t /\ h = <<h[1], h[2]>> BY <3>1
      <4>2. d \in 1 .. Len(g) /\ k \in DOMAIN g[d] BY <1>9, <1>10, <1>13 DEF MismaForma
      <4>3. w[h] = g[d][k] BY <3>1, <1>9, <1>10, <1>27
      <4>. QED BY <4>1, <4>2, <4>3, <1>1
    <3>2. CASE h # <<d, t>>
      <4>1. h \in DOMAIN u /\ w[h] = u[h] BY <3>2, <1>27
      <4>. QED BY <4>1, <2>1 DEF Anotados
    <3>. QED BY <3>1, <3>2
  <2>. QED BY <2>2, <1>27 DEF Anotados
<1>29. Sana(r, W, Q)
  <2>1. r = [mapa |-> r.mapa, elementos |-> r.elementos, tripulantes |-> r.tripulantes]
    BY <1>25, <1>26
  <2>. QED BY <2>1, <1>9, <1>10, <1>26, <1>28 DEF Sana
<1>30. LibresDe(r) = LibresDe(rr) BY <1>10, <1>26 DEF LibresDe
<1>31. /\ Len(g) = Len(m.elementos)
       /\ \A p \in 1 .. Len(m.elementos) : DOMAIN g[p] = DOMAIN m.elementos[p]
       /\ DOMAIN u = DOMAIN m.tripulantes
  BY <1>9, <1>10 DEF MismaForma
<1>32. ASSUME Aptos(m.mapa, TAMANIO_TRIPULANTE) # {},
              NEW p \in 1 .. Len(m.elementos), NEW j, <<p, j>> # <<d, t + 1>>
       PROVE  r.elementos[p][j] = m.elementos[p][j]
  <2>1. f = m.elementos BY <1>8, <1>10, <1>32 DEF Creada
  <2>2. p \in DOMAIN f BY <2>1, <1>11 DEF Tabla
  <2>. QED BY <2>1, <2>2, <1>1, <1>15, <1>26, <1>32
<1>33. DOMAIN r.tripulantes = DOMAIN m.tripulantes \union {<<d, t>>} BY <1>26, <1>27, <1>31
<1>34. Iniciado(r, m, W, Q, d, t) BY <1>9, <1>26, <1>29, <1>30, <1>31, <1>32, <1>33 DEF Iniciado
<1>. QED BY <1>9, <1>34

-----------------------------------------------------------------------------
(* The invariant of the memory *)

\* the live elements: two of each patota, and its trips
Vivas(e, t) ==
  {<<p, PCB>> : p \in 1 .. Len(e)} \union {<<p, TAREAS>> : p \in 1 .. Len(e)}
    \union {<<h[1], h[2] + 1>> : h \in DOMAIN t}

\* the memory m holds exactly the elements of V, with their bytes, and the pointers of
\* those of Q lead where they should
MemoriaDe(m, V, Q) == Sana(m, V, Q) /\ DOMAIN V = Vivas(m.elementos, m.tripulantes)

\* the thread of the trip exists, and no compaction moved the control block before
Fiel(x) == x.quien = "hilo" /\ ~x.corrido

\* the elements whose pointer leads where it should
Fieles ==
  {<<p, PCB>> : p \in 1 .. Len(elementos)}
    \union {<<h[1], h[2] + 1>> : h \in {g \in DOMAIN hilos : Fiel(hilos[g])}}

\* the trips that the discordiador has still to send have their place in the table
\* and their bytes
Pendientes ==
  /\ faltan \in 0 .. MaxTripulantes /\ nro_tripulante \in Nat \ {0}
  /\ Len(elementos) <= MaxPatotas
  /\ faltan * TAMANIO_TRIPULANTE <= LibresDe(memoria)
  /\ \A h \in DOMAIN tripulantes : h[2] # 0
  /\ faltan > 0 =>
       /\ Len(elementos) >= 1
       /\ DOMAIN elementos[Len(elementos)] = 0 .. nro_tripulante + faltan
       /\ \A h \in DOMAIN tripulantes : h[1] = Len(elementos) => h[2] < nro_tripulante

\* the inductive invariant of the memory
InvMemoria == (\E V : MemoriaDe(memoria, V, Fieles)) /\ Pendientes

\* When an element is live.
LEMMA VivaEs ==
  ASSUME NEW e, NEW t, NEW p, NEW k,
         \A h \in DOMAIN t : h = <<h[1], h[2]>> /\ h[2] \in Nat
  PROVE  /\ <<p, k>> \in Vivas(e, t) <=>
              \/ p \in 1 .. Len(e) /\ k \in {PCB, TAREAS}
              \/ \E j \in Nat : k = j + 1 /\ <<p, j>> \in DOMAIN t
<1>1. ASSUME NEW h \in DOMAIN t, <<p, k>> = <<h[1], h[2] + 1>>
      PROVE  \E j \in Nat : k = j + 1 /\ <<p, j>> \in DOMAIN t
  BY <1>1
<1>2. ASSUME NEW j \in Nat, k = j + 1, <<p, j>> \in DOMAIN t
      PROVE  <<p, k>> \in Vivas(e, t)
  <2>1. <<p, j>>[1] = p /\ <<p, j>>[2] = j OBVIOUS
  <2>. QED BY <2>1, <1>2 DEF Vivas
<1>. QED BY <1>1, <1>2 DEF Vivas

\* The types of a memory in order.
LEMMA LibresTipo ==
  ASSUME NEW m, NEW V, NEW Q, Sana(m, V, Q)
  PROVE  /\ LibresDe(m) \in Nat /\ Len(m.elementos) \in Nat /\ m.mapa \in Seq(Seg)
         /\ m.elementos \in Seq(Filas) /\ DOMAIN m.elementos = 1 .. Len(m.elementos)
<1>1. m.mapa \in Seq(Seg) BY DEF Sana, Coherente, Ordenado, Casi
<1>2. m.elementos \in Seq(Filas) BY DEF Sana, Tabla
<1>. QED BY <1>1, <1>2, LibresPasos DEF LibresDe

\* The record memoria and the variables.
LEMMA MemoriaEs ==
  /\ memoria.mapa = mapa /\ memoria.elementos = elementos /\ memoria.tripulantes = tripulantes
  /\ memoria'.mapa = mapa' /\ memoria'.elementos = elementos'
  /\ memoria'.tripulantes = tripulantes'
BY DEF memoria

\* MemoriaLibre is the free bytes of the list
LEMMA MemoriaLibreEs ==
  ASSUME NEW V, NEW Q, Sana(memoria, V, Q)
  PROVE  MemoriaLibre = LibresDe(memoria)
<1>1. mapa \in Seq(Seg) BY LibresTipo, MemoriaEs
<1>2. DOMAIN mapa = 1 .. Len(mapa) BY <1>1
<1>3. {i \in DOMAIN mapa : EsLibre(mapa[i])} = {i \in 1 .. Len(mapa) : EsLibre(mapa[i])}
  BY <1>2
<1>. QED BY <1>3, MemoriaEs DEF MemoriaLibre, LibresDe, BytesLibres

\* After Queda(r) the memory is r.
LEMMA QuedaEs ==
  ASSUME NEW r, NEW V, NEW Q, Sana(r, V, Q), Queda(r)
  PROVE  memoria' = r
<1>1. r = [mapa |-> r.mapa, elementos |-> r.elementos, tripulantes |-> r.tripulantes] BY DEF Sana
<1>2. mapa' = r.mapa /\ elementos' = r.elementos /\ tripulantes' = r.tripulantes BY DEF Queda
<1>. QED BY <1>1, <1>2 DEF memoria

\* A product, one less.
LEMMA PorMenos ==
  ASSUME NEW n \in Nat \ {0}, NEW b \in Nat
  PROVE  (n - 1) * b + b = n * b /\ b <= n * b /\ (n - 1) * b \in Nat
<1>1. (n - 1) * b + b = n * b OBVIOUS
<1>2. n - 1 \in Nat OBVIOUS
<1>3. (n - 1) * b \in Nat BY <1>2
<1>4. n * b \in Nat OBVIOUS
<1>. QED BY <1>1, <1>3, <1>4

\* The memory starts in order, empty and free.
LEMMA InicioMemoria ==
  ASSUME Init
  PROVE  /\ \A Q : MemoriaDe(memoria, <<>>, Q)
         /\ Pendientes
         /\ LibresDe(memoria) = TAMANIO_MEMORIA /\ DOMAIN <<>> = {}
<1>1. PICK s : s = mapa OBVIOUS
<1>2. s = <<SegmentoLibre(0, 0, TAMANIO_MEMORIA)>> BY <1>1 DEF Init
<1>3. PICK x : x = SegmentoLibre(0, 0, TAMANIO_MEMORIA) OBVIOUS
<1>4. /\ x \in Seg /\ x.n_segmento = 0 /\ x.inicio = 0 /\ x.tamanio = TAMANIO_MEMORIA
      /\ x.duenio = 0 /\ x.indice = 0 /\ x.puntero = 0
  BY <1>3, MemoriaValida DEF SegmentoLibre, Segmento, Seg
<1>5. s \in Seq(Seg) /\ Len(s) = 1 /\ s[1] = x BY <1>2, <1>3, <1>4
<1>6. EsLibre(x) /\ Limpio(x) BY <1>4 DEF EsLibre, Limpio
<1>7. Fin(s, 1) = TAMANIO_MEMORIA /\ Fin(s, 0) = 0 BY <1>4, <1>5, MemoriaValida DEF Fin
<1>8. Casi(s)
  <2>1. ASSUME NEW i \in 1 .. Len(s)
        PROVE  /\ s[i].n_segmento = i - 1 /\ s[i].inicio = Fin(s, i - 1)
               /\ s[i].tamanio = 0 => EsLibre(s[i]) /\ i = Len(s)
               /\ Limpio(s[i])
    <3>1. i = 1 BY <1>5
    <3>2. i - 1 = 0 BY <3>1
    <3>. QED BY <3>1, <3>2, <1>4, <1>5, <1>6, <1>7
  <2>. QED BY <2>1, <1>5, <1>7 DEF Casi
<1>9. Fundido(s) BY <1>5 DEF Fundido
<1>10. Contenido(s) = {}
  <2>1. \A j \in 1 .. Len(s) : ~Ocupado(s[j])
    <3>1. ASSUME NEW j \in 1 .. Len(s) PROVE j = 1 BY <1>5
    <3>. QED BY <3>1, <1>5, <1>6 DEF Ocupado, EsLibre
  <2>. QED BY <2>1 DEF Contenido
<1>11. elementos = <<>> /\ tripulantes = <<>> /\ faltan = 0 /\ nro_tripulante = 1 BY DEF Init
<1>12. DOMAIN <<>> = {} /\ Len(<<>>) = 0 /\ <<>> = [v \in {} |-> v] OBVIOUS
<1>13. PICK V : V = <<>> OBVIOUS
<1>14. DOMAIN V = {} /\ V = [v \in DOMAIN V |-> V[v]] BY <1>13
<1>15. \A Q : Coherente(s, elementos, V, Q)
  BY <1>8, <1>9, <1>10, <1>14 DEF Coherente, Ordenado
<1>16. Tabla(elementos) BY <1>11 DEF Tabla
<1>17. Anotados(tripulantes, elementos)
  <2>1. DOMAIN tripulantes = {} BY <1>11
  <2>2. tripulantes = [h \in DOMAIN tripulantes |-> tripulantes[h]] BY <1>11
  <2>. QED BY <2>1, <2>2 DEF Anotados
<1>18. memoria = [mapa |-> memoria.mapa, elementos |-> memoria.elementos,
                  tripulantes |-> memoria.tripulantes]
  BY DEF memoria
<1>19. \A Q : Sana(memoria, V, Q)
  <2>1. DOMAIN V \subseteq Claves(memoria.elementos) BY <1>14
  <2>. QED BY <2>1, <1>1, <1>15, <1>16, <1>17, <1>18, MemoriaEs DEF Sana
<1>20. Vivas(memoria.elementos, memoria.tripulantes) = {}
  <2>1. Len(elementos) = 0 /\ DOMAIN tripulantes = {} BY <1>11
  <2>2. 1 .. Len(elementos) = {} BY <2>1
  <2>. QED BY <2>1, <2>2, MemoriaEs DEF Vivas
<1>21. \A Q : MemoriaDe(memoria, V, Q) BY <1>14, <1>19, <1>20 DEF MemoriaDe
<1>22. LibresDe(memoria) = TAMANIO_MEMORIA
  <2>1. BytesLibres(s, 1) = BytesLibres(s, 0) + Aporte(s[1])
    <3>1. PICK k : k = 1 OBVIOUS
    <3>2. k \in 1 .. Len(s) /\ k - 1 = 0 BY <3>1, <1>5
    <3>3. BytesLibres(s, k) = BytesLibres(s, k - 1) + Aporte(s[k]) BY <3>2, <1>5, LibresPasos
    <3>. QED BY <3>1, <3>2, <3>3
  <2>2. BytesLibres(s, 0) = 0 BY <1>5, LibresPasos
  <2>3. Aporte(s[1]) = TAMANIO_MEMORIA BY <1>4, <1>5, <1>6 DEF Aporte
  <2>4. BytesLibres(s, Len(s)) = TAMANIO_MEMORIA BY <2>1, <2>2, <2>3, <1>5, MemoriaValida
  <2>. QED BY <2>4, <1>1, MemoriaEs DEF LibresDe
<1>23. Pendientes
  <2>1. Len(elementos) = 0 /\ DOMAIN tripulantes = {} BY <1>11
  <2>2. faltan * TAMANIO_TRIPULANTE = 0 BY <1>11, MemoriaValida
  <2>. QED BY <2>1, <2>2, <1>11, <1>22, MemoriaValida DEF Pendientes
<1>. QED BY <1>13, <1>14, <1>21, <1>22, <1>23

\* A compaction between messages.
LEMMA CompactarPaso ==
  ASSUME NEW V, NEW Q, MemoriaDe(memoria, V, Q), signal_compactacion
  PROVE  /\ MemoriaDe(memoria', V, Q) /\ MismaForma(memoria', memoria)
         /\ LibresDe(memoria') = LibresDe(memoria)
         /\ UNCHANGED <<nro_tripulante, faltan, caido>>
<1>1. PICK c : c = realizar_compactacion(memoria) OBVIOUS
<1>3. Sana(memoria, V, Q) BY DEF MemoriaDe
<1>4. Sana(c, V, Q) /\ MismaForma(c, memoria) /\ LibresDe(c) = LibresDe(memoria)
  BY <1>1, <1>3, CompactarSana
<1>5. memoria' = c BY <1>1, <1>4, QuedaEs DEF signal_compactacion
<1>6. Vivas(c.elementos, c.tripulantes) = Vivas(memoria.elementos, memoria.tripulantes)
  BY <1>4 DEF MismaForma, Vivas
<1>7. MemoriaDe(c, V, Q) BY <1>4, <1>6 DEF MemoriaDe
<1>. QED BY <1>4, <1>5, <1>7 DEF signal_compactacion

\* no element of Q is of a patota or a trip that is still to come
Frescas(Q) ==
  /\ \A k : <<Len(elementos) + 1, k>> \notin Q
  /\ faltan > 0 => <<Len(elementos), nro_tripulante + 1>> \notin Q

\* what the acceptance of a patota leaves
PatotaHecha(V, W, Q, n, tareas) ==
  /\ MemoriaDe(memoria', W, Con(Q, <<Len(elementos) + 1, PCB>>))
  /\ W = Agregado(Agregado(V, <<Len(elementos) + 1, PCB>>, TAMANIO_PATOTA),
                  <<Len(elementos) + 1, TAREAS>>, tareas)
  /\ LibresDe(memoria') + TAMANIO_PATOTA + tareas = LibresDe(memoria)
  /\ Len(elementos') = Len(elementos) + 1
  /\ \A p \in 1 .. Len(elementos) : DOMAIN elementos'[p] = DOMAIN elementos[p]
  /\ DOMAIN elementos'[Len(elementos) + 1] = 0 .. n + 1
  /\ DOMAIN tripulantes' = DOMAIN tripulantes
  /\ faltan' = n /\ caido' = caido
  /\ \A v \in DOMAIN V : v[1] # Len(elementos) + 1

\* where no compaction was needed
PatotaQuieta ==
  \A p \in 1 .. Len(elementos) : elementos'[p] = elementos[p]

\* The patota that Cabe accepts is created, and where no compaction was needed no other
\* element moves.
LEMMA AceptarPaso ==
  ASSUME NEW V, NEW Q, MemoriaDe(memoria, V, Q), Frescas(Q), NEW n \in 1 .. MaxTripulantes,
         NEW tareas \in TamaniosTareas, AceptarPatota(n, tareas)
  PROVE  /\ \E W : PatotaHecha(V, W, Q, n, tareas)
         /\ SinCompactar(memoria, TAMANIO_PATOTA)
              /\ SinCompactar(crear_segmento(memoria, TAMANIO_PATOTA, Len(elementos) + 1, PCB),
                              tareas)
              => PatotaQuieta
<1>. DEFINE p == Len(elementos) + 1
            nueva == [memoria EXCEPT !.elementos = Append(@, [k \in 0 .. n + 1 |-> 0])]
            pcb == crear_segmento(nueva, TAMANIO_PATOTA, p, PCB)
            conPcb == [pcb EXCEPT !.elementos[p][PCB] = InicioDe(pcb.mapa, p, PCB)]
            todo == crear_segmento(conPcb, tareas, p, TAREAS)
            a == InicioDe(todo.mapa, p, PCB)
            b == InicioDe(todo.mapa, p, TAREAS)
            r == [todo EXCEPT !.elementos[p][PCB] = a, !.elementos[p][TAREAS] = b,
                              !.mapa = Apuntar(@, a, b)]
<1>1. /\ Cabe(n, tareas) /\ faltan' = n
      /\ IF SinLugar(nueva, TAMANIO_PATOTA) \/ SinLugar(conPcb, tareas)
         THEN caido' = "sin_lugar" /\ UNCHANGED <<mapa, elementos, tripulantes>>
         ELSE Queda(r) /\ UNCHANGED caido
  BY DEF AceptarPatota
<1>2. PICK fila : fila = [k \in 0 .. n + 1 |-> 0] OBVIOUS
<1>3. fila \in Filas /\ DOMAIN fila = 0 .. n + 1
  <2>1. 0 \in Lugares BY MemoriaValida DEF Lugares
  <2>2. fila \in [0 .. n + 1 -> Lugares] BY <2>1, <1>2
  <2>. QED BY <2>2 DEF Filas
<1>4. Alta(memoria, fila, tareas, p, nueva, pcb, conPcb, todo, a, b, r)
  <2>1. p = Len(memoria.elementos) + 1 BY MemoriaEs
  <2>2. nueva = [memoria EXCEPT !.elementos = Append(@, fila)] BY <1>2
  <2>. HIDE DEF p, nueva
  <2>. QED BY <2>1, <2>2 DEF Alta
<1>5. crear_segmento(memoria, TAMANIO_PATOTA, p, PCB)
        = [ConLugar(memoria, TAMANIO_PATOTA) EXCEPT !.mapa = Insertar(@, TAMANIO_PATOTA, p, PCB)]
  BY DEF crear_segmento
<1>6. pcb = [ConLugar(nueva, TAMANIO_PATOTA) EXCEPT !.mapa = Insertar(@, TAMANIO_PATOTA, p, PCB)]
  BY DEF crear_segmento
<1>7. p = Len(elementos) + 1 OBVIOUS
<1>8. conPcb = [pcb EXCEPT !.elementos[p][PCB] = InicioDe(pcb.mapa, p, PCB)] OBVIOUS
<1>. HIDE DEF p, nueva, pcb, conPcb, todo, a, b, r
<1>9. PICK P : P = Con(Q, <<p, PCB>>) OBVIOUS
<1>10. Sana(memoria, V, Q) BY DEF MemoriaDe
<1>11. tareas \in Nat \ {0} BY MemoriaValida
<1>12. TAMANIO_PATOTA + tareas <= LibresDe(memoria)
  <2>1. TAMANIO_PATOTA + tareas + n * TAMANIO_TRIPULANTE <= LibresDe(memoria)
    BY <1>1, <1>10, MemoriaLibreEs DEF Cabe
  <2>2. n * TAMANIO_TRIPULANTE \in Nat BY MemoriaValida
  <2>3. LibresDe(memoria) \in Nat BY <1>10, LibresTipo
  <2>. QED BY <2>1, <2>2, <2>3, <1>11, MemoriaValida
<1>13. PICK U, W : /\ U = Agregado(V, <<p, PCB>>, TAMANIO_PATOTA)
                   /\ W = Agregado(U, <<p, TAREAS>>, tareas)
  OBVIOUS
<1>14. /\ Sana(r, W, P) /\ MismaForma(r, nueva)
       /\ LibresDe(r) + TAMANIO_PATOTA + tareas = LibresDe(memoria)
       /\ ~SinLugar(nueva, TAMANIO_PATOTA) /\ ~SinLugar(conPcb, tareas)
       /\ Aptos(nueva.mapa, TAMANIO_PATOTA) # {} /\ Aptos(conPcb.mapa, tareas) # {} =>
            \A q \in 1 .. Len(memoria.elementos) : r.elementos[q] = memoria.elementos[q]
  <2>1. \A k : <<p, k>> \notin Q BY <1>7 DEF Frescas
  <2>2. Aceptada(r, memoria, nueva, conPcb, W, P, tareas)
    BY <2>1, <1>3, <1>4, <1>9, <1>10, <1>11, <1>12, <1>13, PatotaBien
  <2>. QED BY <2>2 DEF Aceptada
<1>15. Queda(r) /\ caido' = caido /\ faltan' = n BY <1>1, <1>14
<1>16. /\ Sana(r, W, P) /\ MismaForma(r, nueva)
       /\ LibresDe(r) + TAMANIO_PATOTA + tareas = LibresDe(memoria)
  BY <1>14
<1>17. memoria' = r BY <1>15, <1>16, QuedaEs
<1>18. mapa' = r.mapa /\ elementos' = r.elementos /\ tripulantes' = r.tripulantes
  BY <1>15 DEF Queda
<1>19. ConFila(nueva, memoria, fila)
  <2>1. nueva = [memoria EXCEPT !.elementos = Append(@, fila)] BY <1>4 DEF Alta
  <2>. QED BY <2>1, <1>3, <1>10, FilaNueva
<1>20. Len(elementos) \in Nat /\ p \in Nat BY <1>7, <1>10, LibresTipo, MemoriaEs
<1>21. /\ Len(elementos') = p
       /\ \A q \in 1 .. Len(elementos) : DOMAIN elementos'[q] = DOMAIN elementos[q]
       /\ DOMAIN elementos'[p] = 0 .. n + 1
       /\ DOMAIN tripulantes' = DOMAIN tripulantes
  <2>1. Len(nueva.elementos) = p /\ nueva.elementos[p] = fila
        /\ nueva.tripulantes = tripulantes
        /\ \A q \in 1 .. Len(elementos) : nueva.elementos[q] = elementos[q]
    BY <1>7, <1>19, MemoriaEs DEF ConFila
  <2>2. p \in 1 .. p /\ \A q \in 1 .. Len(elementos) : q \in 1 .. p BY <1>7, <1>20
  <2>. QED BY <2>1, <2>2, <1>3, <1>16, <1>18 DEF MismaForma
<1>22. DOMAIN W = DOMAIN V \union {<<p, PCB>>, <<p, TAREAS>>} BY <1>13 DEF Agregado
<1>23. DOMAIN W = Vivas(elementos', tripulantes')
  <2>1. DOMAIN V = Vivas(elementos, tripulantes) BY MemoriaEs DEF MemoriaDe
  <2>2. 1 .. p = (1 .. Len(elementos)) \union {p} BY <1>7, <1>20
  <2>3. 1 .. Len(elementos') = (1 .. Len(elementos)) \union {p} BY <2>2, <1>21
  <2>. QED BY <2>1, <2>3, <1>21, <1>22 DEF Vivas
<1>24. MemoriaDe(memoria', W, P) BY <1>16, <1>17, <1>18, <1>23 DEF MemoriaDe
<1>25. ASSUME NEW v \in DOMAIN V PROVE v[1] # p
  <2>1. v \in Claves(elementos) BY <1>10, MemoriaEs DEF Sana
  <2>2. PICK q \in 1 .. Len(elementos) : \E k \in DOMAIN elementos[q] : v = <<q, k>>
    BY <2>1 DEF Claves
  <2>. QED BY <2>2, <1>7, <1>20
<1>26. PatotaHecha(V, W, Q, n, tareas)
  <2>1. W = Agregado(Agregado(V, <<p, PCB>>, TAMANIO_PATOTA), <<p, TAREAS>>, tareas) BY <1>13
  <2>. QED BY <2>1, <1>7, <1>9, <1>15, <1>16, <1>17, <1>21, <1>24, <1>25 DEF PatotaHecha
<1>27. ASSUME SinCompactar(memoria, TAMANIO_PATOTA),
              SinCompactar(crear_segmento(memoria, TAMANIO_PATOTA, p, PCB), tareas)
       PROVE  PatotaQuieta
  <2>1. Aptos(memoria.mapa, TAMANIO_PATOTA) # {} BY <1>27 DEF SinCompactar
  <2>2. nueva.mapa = memoria.mapa BY <1>19 DEF ConFila
  <2>3. ConLugar(memoria, TAMANIO_PATOTA) = memoria /\ ConLugar(nueva, TAMANIO_PATOTA) = nueva
    BY <2>1, <2>2 DEF ConLugar
  <2>4. PICK z : z = Insertar(memoria.mapa, TAMANIO_PATOTA, p, PCB) OBVIOUS
  <2>5. crear_segmento(memoria, TAMANIO_PATOTA, p, PCB).mapa = z
    <3>1. crear_segmento(memoria, TAMANIO_PATOTA, p, PCB) = [memoria EXCEPT !.mapa = z]
      BY <2>3, <2>4, <1>5
    <3>2. memoria = [mapa |-> memoria.mapa, elementos |-> memoria.elementos,
                     tripulantes |-> memoria.tripulantes]
      BY <1>10 DEF Sana
    <3>. QED BY <3>1, <3>2
  <2>6. conPcb.mapa = z
    <3>1. pcb = [nueva EXCEPT !.mapa = z] BY <2>2, <2>3, <2>4, <1>6
    <3>2. nueva = [memoria EXCEPT !.elementos = Append(@, fila)] BY <1>4 DEF Alta
    <3>3. memoria = [mapa |-> memoria.mapa, elementos |-> memoria.elementos,
                     tripulantes |-> memoria.tripulantes]
      BY <1>10 DEF Sana
    <3>4. nueva = [mapa |-> memoria.mapa, elementos |-> Append(memoria.elementos, fila),
                   tripulantes |-> memoria.tripulantes]
      BY <3>2, <3>3
    <3>5. pcb = [mapa |-> z, elementos |-> Append(memoria.elementos, fila),
                 tripulantes |-> memoria.tripulantes]
      BY <3>1, <3>4
    <3>. QED BY <3>5, <1>8
  <2>7. Aptos(conPcb.mapa, tareas) # {} BY <2>5, <2>6, <1>27 DEF SinCompactar
  <2>. QED BY <2>1, <2>2, <2>7, <1>14, <1>18, MemoriaEs DEF PatotaQuieta
<1>. QED BY <1>7, <1>26, <1>27

\* what a new trip leaves
TripHecho(V, W, Q, p, t) ==
  /\ MemoriaDe(memoria', W, Q)
  /\ W = Agregado(V, <<p, t + 1>>, TAMANIO_TRIPULANTE)
  /\ LibresDe(memoria') + TAMANIO_TRIPULANTE = LibresDe(memoria)
  /\ Len(elementos') = Len(elementos)
  /\ \A q \in 1 .. Len(elementos) : DOMAIN elementos'[q] = DOMAIN elementos[q]
  /\ DOMAIN tripulantes' = DOMAIN tripulantes \union {<<p, t>>}
  /\ faltan > 0 /\ faltan' = faltan - 1 /\ nro_tripulante' = t + 1 /\ caido' = caido
  /\ <<p, PCB>> \in DOMAIN V /\ <<p, t + 1>> \notin DOMAIN V /\ <<p, t>> \notin DOMAIN tripulantes
  /\ p \in 1 .. MaxPatotas /\ t \in 1 .. MaxTripulantes

\* where no compaction was needed
TripQuieto(p, t) ==
  \A q \in 1 .. Len(elementos) : \A j : <<q, j>> # <<p, t + 1>> => elementos'[q][j] = elementos[q][j]

\* INIT_T never stops for lack of a place, and where no compaction was needed no other
\* element moves.
LEMMA TripPaso ==
  ASSUME NEW V, NEW Q, MemoriaDe(memoria, V, Q), Frescas(Q), Pendientes, INIT_T,
         NEW p, p = Len(elementos), NEW t, t = nro_tripulante
  PROVE  /\ \E W : TripHecho(V, W, Q, p, t)
         /\ SinCompactar(memoria, TAMANIO_TRIPULANTE) => TripQuieto(p, t)
<1>. DEFINE k == t + 1
            c == crear_segmento(memoria, TAMANIO_TRIPULANTE, p, t + 1)
            ini == InicioDe(c.mapa, p, t + 1)
            r == [c EXCEPT !.elementos[p][t + 1] = ini,
                           !.tripulantes = Agregado(@, <<p, t>>, ini)]
<1>1. /\ faltan > 0 /\ faltan' = faltan - 1 /\ nro_tripulante' = t + 1
      /\ IF SinLugar(memoria, TAMANIO_TRIPULANTE)
         THEN caido' = "sin_lugar" /\ UNCHANGED <<mapa, elementos, tripulantes>>
         ELSE Queda(r) /\ UNCHANGED caido
  BY DEF INIT_T
<1>2. AltaTrip(memoria, p, t, k, c, ini, r) BY DEF AltaTrip
<1>3. k = t + 1 OBVIOUS
<1>. HIDE DEF k, c, ini, r
<1>4. <<p, k>> \notin Q BY <1>1, <1>3 DEF Frescas
<1>5. Sana(memoria, V, Q) /\ DOMAIN V = Vivas(elementos, tripulantes)
  BY MemoriaEs DEF MemoriaDe
<1>6. /\ Len(elementos) \in Nat /\ LibresDe(memoria) \in Nat
      /\ elementos \in Seq(Filas) /\ DOMAIN elementos = 1 .. Len(elementos)
  BY <1>5, LibresTipo, MemoriaEs
<1>7. /\ faltan \in Nat /\ faltan > 0 /\ t \in Nat \ {0} /\ p >= 1 /\ p <= MaxPatotas
      /\ faltan * TAMANIO_TRIPULANTE <= LibresDe(memoria)
      /\ DOMAIN elementos[p] = 0 .. t + faltan
      /\ \A h \in DOMAIN tripulantes : h[1] = p => h[2] < t
  BY <1>1 DEF Pendientes
<1>8. p \in 1 .. Len(elementos) /\ p \in 1 .. MaxPatotas BY <1>6, <1>7, MemoriaValida
<1>9. k \in DOMAIN elementos[p] BY <1>3, <1>7
<1>10. t \in 1 .. MaxTripulantes
  <2>1. elementos[p] \in Filas BY <1>6, <1>8
  <2>2. k \in 0 .. MaxTripulantes + 1 BY <2>1, <1>9, FilaTipo
  <2>. QED BY <2>2, <1>3, <1>7, MemoriaValida
<1>11. TAMANIO_TRIPULANTE <= LibresDe(memoria)
  <2>1. TAMANIO_TRIPULANTE <= faltan * TAMANIO_TRIPULANTE BY <1>7, PorMenos, MemoriaValida
  <2>2. faltan * TAMANIO_TRIPULANTE \in Nat BY <1>7, MemoriaValida
  <2>. QED BY <2>1, <2>2, <1>6, <1>7, MemoriaValida
<1>12. <<p, k>> \in Claves(memoria.elementos) BY <1>8, <1>9, ClaveEs, MemoriaEs
<1>13. \A h \in DOMAIN tripulantes : h = <<h[1], h[2]>> /\ h[2] \in Nat
  BY <1>5, MemoriaEs DEF Sana, Anotados
<1>14. <<p, t>> \notin DOMAIN tripulantes
  <2>1. <<p, t>>[1] = p /\ <<p, t>>[2] = t OBVIOUS
  <2>. QED BY <2>1, <1>7
<1>15. <<p, k>> \notin DOMAIN V
  <2>1. k \notin {PCB, TAREAS} BY <1>3, <1>7 DEF PCB, TAREAS
  <2>2. ASSUME NEW j \in Nat, k = j + 1 PROVE j = t BY <2>2, <1>3, <1>7
  <2>3. <<p, k>> \in Vivas(elementos, tripulantes) =>
          \E j \in Nat : k = j + 1 /\ <<p, j>> \in DOMAIN tripulantes
    BY <2>1, <1>13, VivaEs
  <2>4. ASSUME <<p, k>> \in Vivas(elementos, tripulantes) PROVE FALSE
    <3>1. PICK j \in Nat : k = j + 1 /\ <<p, j>> \in DOMAIN tripulantes BY <2>3, <2>4
    <3>. QED BY <3>1, <2>2, <1>14
  <2>. QED BY <2>4, <1>5
<1>16. SinTrip(memoria.tripulantes, p, k)
  <2>1. ASSUME NEW h \in DOMAIN tripulantes, h[1] = p, h[2] + 1 = k PROVE FALSE
    <3>1. h[2] = t BY <2>1, <1>3, <1>7, <1>13
    <3>. QED BY <3>1, <2>1, <1>13, <1>14
  <2>. QED BY <2>1, MemoriaEs DEF SinTrip
<1>17. <<p, PCB>> \in DOMAIN V BY <1>5, <1>8, <1>13, VivaEs
<1>18. PICK W : W = Agregado(V, <<p, k>>, TAMANIO_TRIPULANTE) OBVIOUS
<1>19. Iniciado(r, memoria, W, Q, p, t) /\ ~SinLugar(memoria, TAMANIO_TRIPULANTE)
  BY <1>2, <1>4, <1>5, <1>7, <1>11, <1>12, <1>15, <1>16, <1>18, TripBien
<1>20. Queda(r) /\ caido' = caido BY <1>1, <1>19
<1>21. /\ Sana(r, W, Q)
       /\ LibresDe(r) + TAMANIO_TRIPULANTE = LibresDe(memoria)
       /\ Len(r.elementos) = Len(elementos)
       /\ \A q \in 1 .. Len(elementos) : DOMAIN r.elementos[q] = DOMAIN elementos[q]
       /\ DOMAIN r.tripulantes = DOMAIN tripulantes \union {<<p, t>>}
       /\ Aptos(memoria.mapa, TAMANIO_TRIPULANTE) # {} =>
            \A q \in 1 .. Len(elementos) : \A j : <<q, j>> # <<p, t + 1>> =>
              r.elementos[q][j] = elementos[q][j]
  BY <1>19, MemoriaEs DEF Iniciado
<1>22. memoria' = r BY <1>20, <1>21, QuedaEs
<1>23. elementos' = r.elementos /\ tripulantes' = r.tripulantes BY <1>20 DEF Queda
<1>24. DOMAIN W = DOMAIN V \union {<<p, k>>} BY <1>18 DEF Agregado
<1>25. DOMAIN W = Vivas(elementos', tripulantes')
  <2>1. PICK h : h = <<p, t>> OBVIOUS
  <2>2. h[1] = p /\ h[2] = t BY <2>1
  <2>3. DOMAIN tripulantes' = DOMAIN tripulantes \union {h} BY <2>1, <1>21, <1>23
  <2>4. {<<g[1], g[2] + 1>> : g \in DOMAIN tripulantes'}
          = {<<g[1], g[2] + 1>> : g \in DOMAIN tripulantes} \union {<<p, k>>}
    BY <2>2, <2>3, <1>3
  <2>5. Len(elementos') = Len(elementos) BY <1>21, <1>23
  <2>. QED BY <2>4, <2>5, <1>5, <1>24 DEF Vivas
<1>26. MemoriaDe(memoria', W, Q) BY <1>21, <1>22, <1>23, <1>25 DEF MemoriaDe
<1>27. TripHecho(V, W, Q, p, t)
  BY <1>1, <1>3, <1>8, <1>10, <1>14, <1>15, <1>17, <1>18, <1>20, <1>21, <1>22, <1>23, <1>26
     DEF TripHecho
<1>28. SinCompactar(memoria, TAMANIO_TRIPULANTE) => TripQuieto(p, t)
  BY <1>21, <1>23 DEF SinCompactar, TripQuieto
<1>. QED BY <1>27, <1>28

\* what the expulsion of a trip leaves
TripQuitado(V, W, Q, p, t) ==
  /\ MemoriaDe(memoria', W, Q)
  /\ <<p, t + 1>> \in DOMAIN V /\ W = Menos(V, <<p, t + 1>>)
  /\ LibresDe(memoria') = LibresDe(memoria) + V[<<p, t + 1>>]
  /\ V[<<p, t + 1>>] \in Nat
  /\ tripulantes' = Restrict(tripulantes, DOMAIN tripulantes \ {<<p, t>>})
  /\ caido' = caido

\* ELIM_T frees the segment of the trip, or dies in the loop that renumbers and leaves
\* the memory as it was.
LEMMA EliminarPaso ==
  ASSUME NEW V, NEW Q, MemoriaDe(memoria, V, Q), Pendientes, NEW p, NEW t, <<p, t>> \in DOMAIN tripulantes,
         ELIM_T(p, t)
  PROVE  \/ \E W : TripQuitado(V, W, Q, p, t)
         \/ caido' = "iterador" /\ UNCHANGED memoria
<1>1. PICK i : i = DesdeInicio(mapa, elementos[p][t + 1]) OBVIOUS
<1>2. IF EliminarCae(mapa, i)
      THEN caido' = "iterador" /\ UNCHANGED <<mapa, tripulantes>>
      ELSE /\ mapa' = eliminar_segmento(mapa, i)
           /\ tripulantes' = Restrict(tripulantes, DOMAIN tripulantes \ {<<p, t>>})
           /\ UNCHANGED caido
  BY <1>1 DEF ELIM_T
<1>3. UNCHANGED elementos BY DEF ELIM_T
<1>4. CASE EliminarCae(mapa, i) BY <1>2, <1>3, <1>4 DEF memoria
<1>5. CASE ~EliminarCae(mapa, i)
  <2>1. /\ mapa' = eliminar_segmento(mapa, i)
        /\ tripulantes' = Restrict(tripulantes, DOMAIN tripulantes \ {<<p, t>>})
        /\ UNCHANGED caido
    BY <1>2, <1>5
  <2>3. PICK k : k = t + 1 OBVIOUS
  <2>4. /\ Coherente(mapa, elementos, V, Q) /\ Tabla(elementos)
        /\ DOMAIN V \subseteq Claves(elementos)
        /\ Anotados(tripulantes, elementos) /\ DOMAIN V = Vivas(elementos, tripulantes)
    BY MemoriaEs DEF MemoriaDe, Sana
  <2>5. PICK h : h = <<p, t>> OBVIOUS
  <2>6. h[1] = p /\ h[2] = t /\ h \in DOMAIN tripulantes BY <2>5
  <2>7. t \in Nat /\ t # 0 BY <2>4, <2>6 DEF Anotados, Pendientes
  <2>8. <<p, k>> \in DOMAIN V BY <2>3, <2>4, <2>6 DEF Vivas
  <2>9. PICK W : W = Menos(V, <<p, k>>) OBVIOUS
  <2>10. PICK r : r = mapa' OBVIOUS
  <2>11. /\ Coherente(r, elementos, W, Q)
         /\ BytesLibres(r, Len(r)) = BytesLibres(mapa, Len(mapa)) + V[<<p, k>>]
    <3>1. i = DesdeInicio(mapa, elementos[p][k]) BY <1>1, <2>3
    <3>2. r = eliminar_segmento(mapa, i) BY <2>1, <2>10
    <3>. QED BY <3>1, <3>2, <2>4, <2>8, <2>9, EliminarCoherente
  <2>12. DOMAIN W = DOMAIN V \ {<<p, k>>} BY <2>9 DEF Menos
  <2>14. /\ DOMAIN tripulantes' = DOMAIN tripulantes \ {h}
         /\ tripulantes' = [g \in DOMAIN tripulantes' |-> tripulantes'[g]]
         /\ \A g \in DOMAIN tripulantes' : tripulantes'[g] = tripulantes[g]
    BY <2>1, <2>5 DEF Restrict
  <2>15. Anotados(tripulantes', elementos') BY <2>4, <2>14, <1>3 DEF Anotados
  <2>16. Sana(memoria', W, Q)
    <3>1. DOMAIN W \subseteq Claves(elementos') BY <2>4, <2>12, <1>3
    <3>2. memoria' = [mapa |-> memoria'.mapa, elementos |-> memoria'.elementos,
                      tripulantes |-> memoria'.tripulantes]
      BY DEF memoria
    <3>. QED BY <3>1, <3>2, <2>4, <2>10, <2>11, <2>15, <1>3, MemoriaEs DEF Sana
  <2>17. DOMAIN W = Vivas(elementos', tripulantes')
    <3>1. ASSUME NEW g \in DOMAIN tripulantes, g # h PROVE <<g[1], g[2] + 1>> # <<p, k>>
      <4>1. g = <<g[1], g[2]>> /\ g[2] \in Nat BY <2>4 DEF Anotados
      <4>2. ~(g[1] = p /\ g[2] = t) BY <3>1, <4>1, <2>5
      <4>. QED BY <4>1, <4>2, <2>3, <2>7
    <3>2. {<<g[1], g[2] + 1>> : g \in DOMAIN tripulantes'}
            = {<<g[1], g[2] + 1>> : g \in DOMAIN tripulantes} \ {<<p, k>>}
      BY <3>1, <2>3, <2>6, <2>14
    <3>3. k # PCB /\ k # TAREAS BY <2>3, <2>7 DEF PCB, TAREAS
    <3>. QED BY <3>2, <3>3, <2>4, <2>12, <1>3 DEF Vivas
  <2>18. MemoriaDe(memoria', W, Q) BY <2>16, <2>17, MemoriaEs DEF MemoriaDe
  <2>19. LibresDe(memoria') = LibresDe(memoria) + V[<<p, k>>]
    BY <2>10, <2>11, MemoriaEs DEF LibresDe
  <2>20. V[<<p, k>>] \in Nat
    <3>1. PICK j \in 1 .. Len(mapa) : mapa[j].tamanio = V[<<p, k>>] BY <2>4, <2>8, SegmentoVivo
    <3>2. mapa \in Seq(Seg) BY <2>4 DEF Coherente, Ordenado, Casi
    <3>. QED BY <3>1, <3>2, SegTipo
  <2>21. TripQuitado(V, W, Q, p, t)
    BY <2>1, <2>3, <2>8, <2>9, <2>18, <2>19, <2>20 DEF TripQuitado
  <2>. QED BY <2>21
<1>. QED BY <1>4, <1>5

-----------------------------------------------------------------------------
(* Every message keeps the invariant of the memory *)

\* The trips of the list have their place in the table.
LEMMA TripsEnTabla ==
  ASSUME NEW V, NEW Q, MemoriaDe(memoria, V, Q)
  PROVE  /\ Len(elementos) \in Nat /\ elementos \in Seq(Filas) /\ LibresDe(memoria) \in Nat
         /\ DOMAIN elementos = 1 .. Len(elementos)
         /\ Anotados(tripulantes, elementos)
         /\ \A h \in DOMAIN tripulantes : /\ h = <<h[1], h[2]>> /\ h[1] \in 1 .. Len(elementos)
                                          /\ h[2] \in Nat /\ h[2] + 1 \in DOMAIN elementos[h[1]]
BY LibresTipo, MemoriaEs DEF MemoriaDe, Sana, Anotados

\* After INIT_P the bytes of the trips still to come are free, and their places in the
\* table are there.
LEMMA PatotaPendientes ==
  ASSUME NEW V, NEW Q, MemoriaDe(memoria, V, Q), Frescas(Q), Pendientes,
         NEW n \in 1 .. MaxTripulantes, NEW tareas \in TamaniosTareas, INIT_P(n, tareas)
  PROVE  /\ Pendientes'
         /\ \/ \E W : PatotaHecha(V, W, Q, n, tareas)
            \/ UNCHANGED <<memoria, faltan, caido>>
<1>1. faltan = 0 /\ Len(elementos) < MaxPatotas /\ nro_tripulante' = 1 BY DEF INIT_P
<1>2. CASE RechazarPatota(n, tareas)
  <2>1. UNCHANGED <<mapa, elementos, tripulantes, faltan, caido>> BY <1>2 DEF RechazarPatota
  <2>2. UNCHANGED memoria BY <2>1 DEF memoria
  <2>3. Pendientes'
    <3>1. ~(faltan' > 0) BY <1>1, <2>1
    <3>. QED BY <3>1, <1>1, <2>1, <2>2 DEF Pendientes
  <2>. QED BY <2>1, <2>2, <2>3
<1>3. CASE AceptarPatota(n, tareas)
  <2>1. PICK W : PatotaHecha(V, W, Q, n, tareas) BY <1>3, AceptarPaso
  <2>2. /\ MemoriaDe(memoria', W, Con(Q, <<Len(elementos) + 1, PCB>>))
        /\ LibresDe(memoria') + TAMANIO_PATOTA + tareas = LibresDe(memoria)
        /\ Len(elementos') = Len(elementos) + 1
        /\ DOMAIN elementos'[Len(elementos) + 1] = 0 .. n + 1
        /\ DOMAIN tripulantes' = DOMAIN tripulantes
        /\ faltan' = n
    BY <2>1 DEF PatotaHecha
  <2>3. n \in Nat /\ n > 0 /\ n <= MaxTripulantes /\ tareas \in Nat BY MemoriaValida
  <2>4. n * TAMANIO_TRIPULANTE <= LibresDe(memoria')
    <3>1. TAMANIO_PATOTA + tareas + n * TAMANIO_TRIPULANTE <= LibresDe(memoria)
      BY <1>3, MemoriaLibreEs DEF AceptarPatota, Cabe, MemoriaDe
    <3>2. LibresDe(memoria) \in Nat BY TripsEnTabla
    <3>3. LibresDe(memoria') \in Nat
      <4>1. PICK P : P = Con(Q, <<Len(elementos) + 1, PCB>>) OBVIOUS
      <4>2. Sana(memoria', W, P) BY <2>2, <4>1 DEF MemoriaDe
      <4>. QED BY <4>2, LibresTipo
    <3>4. PICK x : x = n * TAMANIO_TRIPULANTE OBVIOUS
    <3>5. x \in Nat BY <2>3, <3>4, MemoriaValida
    <3>. QED BY <2>2, <2>3, <3>1, <3>2, <3>3, <3>4, <3>5, MemoriaValida
  <2>5. \A h \in DOMAIN tripulantes : h[1] # Len(elementos) + 1 /\ h[2] # 0
    BY TripsEnTabla DEF Pendientes
  <2>6. Len(elementos) \in Nat BY TripsEnTabla
  <2>7. Len(elementos') = Len(elementos) + 1 /\ Len(elementos') <= MaxPatotas
        /\ Len(elementos') >= 1
    BY <1>1, <2>2, <2>6, MemoriaValida
  <2>8. 0 .. n + 1 = 0 .. nro_tripulante' + faltan' BY <1>1, <2>2, <2>3
  <2>9. Pendientes'
    <3>1. faltan' \in 0 .. MaxTripulantes /\ nro_tripulante' \in Nat \ {0}
      BY <1>1, <2>2, <2>3, MemoriaValida
    <3>2. faltan' * TAMANIO_TRIPULANTE <= LibresDe(memoria') BY <2>2, <2>4
    <3>3. DOMAIN elementos'[Len(elementos')] = 0 .. nro_tripulante' + faltan' BY <2>2, <2>8
    <3>4. \A h \in DOMAIN tripulantes' : h[2] # 0 /\ h[1] # Len(elementos') BY <2>2, <2>5
    <3>. QED BY <3>1, <3>2, <3>3, <3>4, <2>7 DEF Pendientes
  <2>. QED BY <2>1, <2>9
<1>. QED BY <1>2, <1>3 DEF INIT_P

\* After INIT_T those of the trips that remain.
LEMMA TripPendientes ==
  ASSUME NEW V, NEW Q, MemoriaDe(memoria, V, Q), Pendientes, NEW W, NEW p, NEW t,
         p = Len(elementos), t = nro_tripulante, TripHecho(V, W, Q, p, t)
  PROVE  Pendientes'
<1>1. /\ LibresDe(memoria') + TAMANIO_TRIPULANTE = LibresDe(memoria)
      /\ Len(elementos') = Len(elementos)
      /\ \A q \in 1 .. Len(elementos) : DOMAIN elementos'[q] = DOMAIN elementos[q]
      /\ DOMAIN tripulantes' = DOMAIN tripulantes \union {<<p, t>>}
      /\ faltan > 0 /\ faltan' = faltan - 1 /\ nro_tripulante' = t + 1
  BY DEF TripHecho
<1>2. /\ faltan \in Nat /\ faltan <= MaxTripulantes /\ t \in Nat \ {0} /\ p >= 1 /\ p <= MaxPatotas
      /\ faltan * TAMANIO_TRIPULANTE <= LibresDe(memoria)
      /\ DOMAIN elementos[p] = 0 .. t + faltan
      /\ \A h \in DOMAIN tripulantes : h[2] # 0
      /\ \A h \in DOMAIN tripulantes : h[1] = p => h[2] < t
  BY <1>1, MemoriaValida DEF Pendientes
<1>3. LibresDe(memoria) \in Nat /\ p \in Nat BY TripsEnTabla
<1>4. LibresDe(memoria') \in Nat
  <2>2. Sana(memoria', W, Q) BY DEF TripHecho, MemoriaDe
  <2>. QED BY <2>2, LibresTipo
<1>5. faltan' * TAMANIO_TRIPULANTE <= LibresDe(memoria')
  <2>1. PICK x, y : x = (faltan - 1) * TAMANIO_TRIPULANTE /\ y = faltan * TAMANIO_TRIPULANTE
    OBVIOUS
  <2>2. x + TAMANIO_TRIPULANTE = y /\ x \in Nat BY <2>1, <1>1, <1>2, PorMenos, MemoriaValida
  <2>3. y <= LibresDe(memoria) BY <2>1, <1>2
  <2>4. x <= LibresDe(memoria') BY <2>2, <2>3, <1>1, <1>3, <1>4, MemoriaValida
  <2>. QED BY <2>1, <2>4, <1>1
<1>6. DOMAIN elementos'[Len(elementos')] = 0 .. nro_tripulante' + faltan'
  <2>1. p \in 1 .. Len(elementos) BY <1>2, <1>3
  <2>2. DOMAIN elementos'[p] = 0 .. t + faltan BY <2>1, <1>1, <1>2
  <2>3. nro_tripulante' + faltan' = t + faltan BY <1>1, <1>2
  <2>. QED BY <2>2, <2>3, <1>1
<1>7. ASSUME NEW h \in DOMAIN tripulantes'
      PROVE  h[2] # 0 /\ (h[1] = p => h[2] < t + 1)
  <2>1. CASE h = <<p, t>>
    <3>1. h[2] = t BY <2>1
    <3>. QED BY <3>1, <1>2
  <2>2. CASE h \in DOMAIN tripulantes
    <3>1. h[2] \in Nat BY <2>2, TripsEnTabla
    <3>. QED BY <3>1, <2>2, <1>2
  <2>. QED BY <2>1, <2>2, <1>1
<1>8. /\ faltan' \in 0 .. MaxTripulantes /\ nro_tripulante' \in Nat \ {0}
      /\ Len(elementos') <= MaxPatotas /\ Len(elementos') >= 1
  BY <1>1, <1>2, <1>3, MemoriaValida
<1>. QED BY <1>1, <1>5, <1>6, <1>7, <1>8 DEF Pendientes

\* And after ELIM_T, which comes when none is to come.
LEMMA QuitarPendientes ==
  ASSUME NEW V, NEW Q, MemoriaDe(memoria, V, Q), Pendientes, NEW p, NEW t,
         <<p, t>> \in DOMAIN tripulantes, ELIM_T(p, t)
  PROVE  Pendientes'
<1>1. /\ faltan = 0 /\ UNCHANGED <<elementos, nro_tripulante, faltan>> BY DEF ELIM_T
<1>2. ~(faltan' > 0) /\ faltan' * TAMANIO_TRIPULANTE = 0 BY <1>1, MemoriaValida
<1>3. CASE UNCHANGED memoria
  <2>1. UNCHANGED tripulantes BY <1>3, MemoriaEs
  <2>. QED BY <2>1, <1>1, <1>3 DEF Pendientes
<1>4. ASSUME NEW W, TripQuitado(V, W, Q, p, t) PROVE Pendientes'
  <2>1. LibresDe(memoria') \in Nat
    <3>2. Sana(memoria', W, Q) BY <1>4 DEF TripQuitado, MemoriaDe
    <3>. QED BY <3>2, LibresTipo
  <2>2. DOMAIN tripulantes' \subseteq DOMAIN tripulantes BY <1>4 DEF TripQuitado, Restrict
  <2>3. faltan' * TAMANIO_TRIPULANTE <= LibresDe(memoria') BY <1>2, <2>1
  <2>4. \A h \in DOMAIN tripulantes' : h[2] # 0 BY <2>2 DEF Pendientes
  <2>. QED BY <2>3, <2>4, <1>1, <1>2 DEF Pendientes
<1>. QED BY <1>3, <1>4, EliminarPaso

\* the memory stays in order, with the pointers that led where they should, and the one
\* of a new control block
MemoriaQueda(Q) ==
  /\ Pendientes'
  /\ \E W :
       \/ MemoriaDe(memoria', W, Q) /\ Len(elementos') = Len(elementos)
       \/ /\ MemoriaDe(memoria', W, Con(Q, <<Len(elementos) + 1, PCB>>))
          /\ Len(elementos') = Len(elementos) + 1

\* Every message, and the compaction, leaves the memory so.
LEMMA MensajePaso ==
  ASSUME NEW V, NEW Q, MemoriaDe(memoria, V, Q), Pendientes,
         \/ /\ Frescas(Q)
            /\ \/ \E n \in 1 .. MaxTripulantes, tareas \in TamaniosTareas : INIT_P(n, tareas)
               \/ INIT_T
         \/ \E h \in DOMAIN tripulantes : ELIM_T(h[1], h[2])
         \/ signal_compactacion
         \/ UNCHANGED <<mapa, elementos, tripulantes, nro_tripulante, faltan>>
  PROVE  MemoriaQueda(Q)
<1>3. ASSUME NEW n \in 1 .. MaxTripulantes, NEW tareas \in TamaniosTareas, INIT_P(n, tareas),
             Frescas(Q)
      PROVE  MemoriaQueda(Q)
  <2>1. /\ Pendientes'
        /\ \/ \E W : PatotaHecha(V, W, Q, n, tareas)
           \/ UNCHANGED <<memoria, faltan, caido>>
    BY <1>3, PatotaPendientes
  <2>2. CASE UNCHANGED memoria
    <3>1. MemoriaDe(memoria', V, Q) /\ UNCHANGED elementos BY <2>2, MemoriaEs
    <3>. QED BY <2>1, <3>1 DEF MemoriaQueda
  <2>3. ASSUME NEW W, PatotaHecha(V, W, Q, n, tareas) PROVE MemoriaQueda(Q)
    BY <2>1, <2>3 DEF PatotaHecha, MemoriaQueda
  <2>. QED BY <2>1, <2>2, <2>3
<1>4. ASSUME INIT_T, Frescas(Q) PROVE MemoriaQueda(Q)
  <2>1. PICK p, t : p = Len(elementos) /\ t = nro_tripulante OBVIOUS
  <2>2. PICK W : TripHecho(V, W, Q, p, t) BY <1>4, <2>1, TripPaso
  <2>3. Pendientes' BY <2>1, <2>2, TripPendientes
  <2>4. MemoriaDe(memoria', W, Q) /\ Len(elementos') = Len(elementos) BY <2>2 DEF TripHecho
  <2>. QED BY <2>3, <2>4 DEF MemoriaQueda
<1>5. ASSUME NEW h \in DOMAIN tripulantes, ELIM_T(h[1], h[2]) PROVE MemoriaQueda(Q)
  <2>1. PICK p, t : p = h[1] /\ t = h[2] OBVIOUS
  <2>2. <<p, t>> \in DOMAIN tripulantes /\ ELIM_T(p, t) BY <1>5, <2>1, TripsEnTabla
  <2>3. Pendientes' BY <2>2, QuitarPendientes
  <2>4. \/ \E W : TripQuitado(V, W, Q, p, t)
        \/ UNCHANGED memoria
    BY <2>2, EliminarPaso
  <2>5. \E W : MemoriaDe(memoria', W, Q) BY <2>4 DEF TripQuitado
  <2>6. UNCHANGED elementos BY <1>5 DEF ELIM_T
  <2>. QED BY <2>3, <2>5, <2>6 DEF MemoriaQueda
<1>6. ASSUME signal_compactacion PROVE MemoriaQueda(Q)
  <2>1. /\ MemoriaDe(memoria', V, Q) /\ MismaForma(memoria', memoria)
        /\ LibresDe(memoria') = LibresDe(memoria)
        /\ UNCHANGED <<nro_tripulante, faltan, caido>>
    BY <1>6, CompactarPaso
  <2>2. /\ Len(elementos') = Len(elementos)
        /\ \A p \in 1 .. Len(elementos) : DOMAIN elementos'[p] = DOMAIN elementos[p]
        /\ DOMAIN tripulantes' = DOMAIN tripulantes
    BY <2>1, MemoriaEs DEF MismaForma
  <2>3. faltan > 0 => DOMAIN elementos'[Len(elementos')] = DOMAIN elementos[Len(elementos)]
    <3>1. ASSUME faltan > 0 PROVE Len(elementos) \in 1 .. Len(elementos)
      <4>1. Len(elementos) >= 1 /\ Len(elementos) \in Nat BY <3>1, TripsEnTabla DEF Pendientes
      <4>. QED BY <4>1
    <3>. QED BY <3>1, <2>2
  <2>4. Pendientes' BY <2>1, <2>2, <2>3 DEF Pendientes
  <2>. QED BY <2>1, <2>2, <2>4 DEF MemoriaQueda
<1>7. ASSUME UNCHANGED <<mapa, elementos, tripulantes, nro_tripulante, faltan>>
      PROVE  MemoriaQueda(Q)
  <2>1. UNCHANGED memoria BY <1>7 DEF memoria
  <2>2. Pendientes' BY <2>1, <1>7 DEF Pendientes
  <2>3. MemoriaDe(memoria', V, Q) BY <2>1
  <2>. QED BY <1>7, <2>2, <2>3 DEF MemoriaQueda
<1>. QED BY <1>3, <1>4, <1>5, <1>6, <1>7

-----------------------------------------------------------------------------
(* What the invariant of the memory says *)

\* The list tiles the memory.
LEMMA TeseladoVale ==
  ASSUME InvMemoria
  PROVE  Teselado
<1>1. PICK V, Q : MemoriaDe(memoria, V, Q) BY DEF InvMemoria
<1>2. Ordenado(mapa) /\ Casi(mapa) /\ Fundido(mapa) /\ mapa \in Seq(Seg)
  BY <1>1, MemoriaEs DEF MemoriaDe, Sana, Coherente, Ordenado, Casi
<1>3. Len(mapa) \in Nat BY <1>2
<1>4. ASSUME NEW i \in 1 .. Len(mapa)
      PROVE  /\ mapa[i].n_segmento = i - 1
             /\ mapa[i].inicio = SumaTamanios(mapa, 1 .. i - 1)
             /\ i = Len(mapa) => mapa[i].inicio + mapa[i].tamanio = TAMANIO_MEMORIA
             /\ i # Len(mapa) => ~(EsLibre(mapa[i]) /\ EsLibre(mapa[i + 1]))
  <2>1. mapa[i].n_segmento = i - 1 /\ mapa[i].inicio = Fin(mapa, i - 1) BY <1>2 DEF Casi
  <2>2. \A j \in 1 .. Len(mapa) : mapa[j].inicio = Fin(mapa, j - 1) BY <1>2 DEF Casi
  <2>3. PICK m : m = i - 1 OBVIOUS
  <2>4. m \in 0 .. Len(mapa) BY <2>3, <1>3
  <2>5. SumaTamanios(mapa, 1 .. m) = Fin(mapa, m) BY <2>2, <2>4, <1>2, SumaHasta
  <2>6. ASSUME i = Len(mapa) PROVE mapa[i].inicio + mapa[i].tamanio = TAMANIO_MEMORIA
    <3>1. Fin(mapa, i) = TAMANIO_MEMORIA BY <2>6, <1>2 DEF Casi
    <3>2. i # 0 OBVIOUS
    <3>. QED BY <3>1, <3>2 DEF Fin
  <2>7. ASSUME i # Len(mapa) PROVE ~(EsLibre(mapa[i]) /\ EsLibre(mapa[i + 1]))
    <3>1. i \in 1 .. Len(mapa) - 1 BY <2>7, <1>3
    <3>. QED BY <3>1, <1>2 DEF Fundido
  <2>. QED BY <2>1, <2>3, <2>5, <2>6, <2>7
<1>. QED BY <1>4 DEF Teselado

\* the live keys of the table are the ones of V
LEMMA ViveEs ==
  ASSUME NEW V, NEW Q, MemoriaDe(memoria, V, Q), NEW p \in 1 .. Len(elementos), NEW k \in DOMAIN elementos[p]
  PROVE  Vive(p, k) <=> <<p, k>> \in DOMAIN V
<1>1. elementos[p] \in Filas BY TripsEnTabla
<1>2. k \in Nat
  <2>1. DOMAIN elementos[p] \subseteq 0 .. MaxTripulantes + 1 BY <1>1, FilaTipo
  <2>. QED BY <2>1, MemoriaValida
<1>3. \A h \in DOMAIN tripulantes : h = <<h[1], h[2]>> /\ h[2] \in Nat BY TripsEnTabla
<1>4. <<p, k>> \in Vivas(elementos, tripulantes) <=>
              \/ k \in {PCB, TAREAS}
              \/ \E j \in Nat : k = j + 1 /\ <<p, j>> \in DOMAIN tripulantes
  BY <1>3, VivaEs
<1>5. DOMAIN V = Vivas(elementos, tripulantes) BY MemoriaEs DEF MemoriaDe
<1>6. (\E j \in Nat : k = j + 1 /\ <<p, j>> \in DOMAIN tripulantes)
        => <<p, k - 1>> \in DOMAIN tripulantes
  <2>1. ASSUME NEW j \in Nat, k = j + 1, <<p, j>> \in DOMAIN tripulantes
        PROVE  <<p, k - 1>> \in DOMAIN tripulantes
    <3>1. j = k - 1 BY <2>1, <1>2
    <3>. QED BY <3>1, <2>1
  <2>. QED BY <2>1
<1>7. <<p, k - 1>> \in DOMAIN tripulantes
        => \E j \in Nat : k = j + 1 /\ <<p, j>> \in DOMAIN tripulantes
  <2>1. ASSUME <<p, k - 1>> \in DOMAIN tripulantes
        PROVE  \E j \in Nat : k = j + 1 /\ <<p, j>> \in DOMAIN tripulantes
    <3>1. PICK j : j = k - 1 OBVIOUS
    <3>2. <<p, j>> \in DOMAIN tripulantes BY <2>1, <3>1
    <3>3. <<p, j>>[2] = j OBVIOUS
    <3>4. j \in Nat BY <3>2, <3>3, <1>3
    <3>5. k = j + 1 BY <3>1, <3>4, <1>2
    <3>. QED BY <3>2, <3>4, <3>5
  <2>. QED BY <2>1
<1>. QED BY <1>4, <1>5, <1>6, <1>7 DEF Vive

\* The table and the list of trips agree with the list of segments.
LEMMA UbicadosVale ==
  ASSUME InvMemoria
  PROVE  ElementosUbicados
<1>1. PICK V, Q : MemoriaDe(memoria, V, Q) BY DEF InvMemoria
<1>3. Coherente(mapa, elementos, V, Q) /\ Anotados(tripulantes, elementos)
  BY <1>1, MemoriaEs DEF MemoriaDe, Sana
<1>4. mapa \in Seq(Seg) /\ DOMAIN mapa = 1 .. Len(mapa) BY <1>3 DEF Coherente, Ordenado, Casi
<1>5. DOMAIN elementos = 1 .. Len(elementos) BY <1>1, TripsEnTabla
<1>6. ASSUME NEW p \in 1 .. Len(elementos), NEW k \in DOMAIN elementos[p], Vive(p, k)
      PROVE  \E i \in DOMAIN mapa : SegmentosDe(p, k) = {i} /\ mapa[i].inicio = elementos[p][k]
  <2>1. <<p, k>> \in DOMAIN V BY <1>1, <1>6, ViveEs
  <2>2. PICK i \in 1 .. Len(mapa) :
          /\ Ocupado(mapa[i]) /\ mapa[i].duenio = p /\ mapa[i].indice = k
          /\ mapa[i].inicio = elementos[p][k]
    BY <2>1, <1>3, SegmentoVivo
  <2>3. Unicas(mapa) BY <1>3, LlavesUnicas
  <2>4. \A j \in 1 .. Len(mapa) : mapa[j].duenio = p /\ mapa[j].indice = k => j = i
    BY <2>2, <2>3 DEF Unicas
  <2>5. SegmentosDe(p, k) = {i} BY <2>2, <2>4, <1>4 DEF SegmentosDe
  <2>. QED BY <2>2, <2>5, <1>4
<1>7. ASSUME NEW p \in 1 .. Len(elementos), NEW k \in DOMAIN elementos[p], ~Vive(p, k)
      PROVE  SegmentosDe(p, k) = {}
  <2>1. <<p, k>> \notin DOMAIN V BY <1>1, <1>7, ViveEs
  <2>2. ASSUME NEW i \in 1 .. Len(mapa), mapa[i].duenio = p, mapa[i].indice = k PROVE FALSE
    <3>1. p # 0 OBVIOUS
    <3>2. Ocupado(mapa[i]) BY <2>2, <3>1 DEF Ocupado
    <3>3. Ubicada(Cosa(mapa[i]), elementos, V, Q) BY <3>2, <1>3, ContenidoTiene DEF Coherente
    <3>4. Llave(Cosa(mapa[i])) = <<p, k>> BY <2>2, <3>2, ContenidoTiene DEF Llave
    <3>. QED BY <2>1, <3>3, <3>4 DEF Ubicada
  <2>. QED BY <2>2, <1>4 DEF SegmentosDe
<1>8. \A t \in DOMAIN tripulantes : tripulantes[t] = elementos[t[1]][t[2] + 1]
  BY <1>3 DEF Anotados
<1>. QED BY <1>5, <1>6, <1>7, <1>8 DEF ElementosUbicados

\* The pointers in the memory follow what they point at.
LEMMA PunterosVale ==
  ASSUME InvMemoria, DOMAIN tripulantes \subseteq DOMAIN hilos
  PROVE  PunterosVeraces
<1>1. PICK V, Q : Q = Fieles /\ MemoriaDe(memoria, V, Q) BY DEF InvMemoria
<1>3. Coherente(mapa, elementos, V, Q) /\ DOMAIN V = Vivas(elementos, tripulantes)
      /\ DOMAIN V \subseteq Claves(elementos)
  BY <1>1, MemoriaEs DEF MemoriaDe, Sana
<1>4. mapa \in Seq(Seg) /\ DOMAIN mapa = 1 .. Len(mapa) BY <1>3 DEF Coherente, Ordenado, Casi
<1>5. ASSUME NEW i \in 1 .. Len(mapa), Ocupado(mapa[i])
      PROVE  /\ mapa[i].duenio \in 1 .. Len(elementos) /\ mapa[i].indice \in Nat
             /\ <<mapa[i].duenio, mapa[i].indice>> \in DOMAIN V
             /\ <<mapa[i].duenio, mapa[i].indice>> \in Fieles /\ mapa[i].indice # TAREAS =>
                  mapa[i].puntero
                    = elementos[mapa[i].duenio][IF mapa[i].indice = PCB THEN TAREAS ELSE PCB]
  <2>1. PICK x : x = Cosa(mapa[i]) OBVIOUS
  <2>2. /\ x.duenio = mapa[i].duenio /\ x.indice = mapa[i].indice /\ x.puntero = mapa[i].puntero
        /\ Ubicada(x, elementos, V, Q)
    BY <2>1, <1>3, <1>5, ContenidoTiene DEF Coherente
  <2>3. Llave(x) = <<mapa[i].duenio, mapa[i].indice>> BY <2>2 DEF Llave
  <2>4. Llave(x) \in Fieles /\ x.indice # TAREAS =>
          x.puntero = elementos[x.duenio][Destino(x.indice)]
    BY <2>2, <1>1 DEF Ubicada
  <2>5. Llave(x) \in DOMAIN V /\ Llave(x) \in Claves(elementos) BY <2>2, <1>3 DEF Ubicada
  <2>6. mapa[i].duenio \in 1 .. Len(elementos) BY <2>3, <2>5, ClaveEs
  <2>7. mapa[i].indice \in Nat BY <1>4, SegTipo
  <2>. QED BY <2>2, <2>3, <2>4, <2>5, <2>6, <2>7 DEF Destino
<1>6. ASSUME NEW i \in 1 .. Len(mapa), Ocupado(mapa[i]), mapa[i].indice = PCB
      PROVE  mapa[i].puntero = elementos[mapa[i].duenio][TAREAS]
  <2>1. PICK d : d = mapa[i].duenio OBVIOUS
  <2>2. d \in 1 .. Len(elementos) BY <2>1, <1>5, <1>6
  <2>3. <<d, PCB>> \in Fieles BY <2>2 DEF Fieles
  <2>4. PCB # TAREAS BY DEF PCB, TAREAS
  <2>. QED BY <2>1, <2>3, <2>4, <1>5, <1>6
<1>7. ASSUME NEW i \in 1 .. Len(mapa), Ocupado(mapa[i]), mapa[i].indice > TAREAS,
             NEW h, h = <<mapa[i].duenio, mapa[i].indice - 1>>,
             hilos[h].quien = "hilo", ~hilos[h].corrido
      PROVE  mapa[i].puntero = elementos[mapa[i].duenio][PCB]
  <2>1. PICK d, k : d = mapa[i].duenio /\ k = mapa[i].indice OBVIOUS
  <2>2. k \in Nat /\ k # TAREAS /\ k # PCB
    <3>1. mapa[i].indice \in Nat /\ mapa[i].indice > 1 BY <1>5, <1>7 DEF TAREAS
    <3>2. k \in Nat /\ k > 1 BY <2>1, <3>1
    <3>. QED BY <3>2 DEF PCB, TAREAS
  <2>3. <<d, k>> \in Vivas(elementos, tripulantes) BY <2>1, <1>3, <1>5, <1>7
  <2>4. \A g \in DOMAIN tripulantes : g = <<g[1], g[2]>> /\ g[2] \in Nat BY <1>1, TripsEnTabla
  <2>5. PICK j \in Nat : k = j + 1 /\ <<d, j>> \in DOMAIN tripulantes
    BY <2>2, <2>3, <2>4, VivaEs
  <2>6. j = k - 1 BY <2>2, <2>5
  <2>7. h = <<d, j>> BY <2>1, <2>6, <1>7
  <2>8. h[1] = d /\ h[2] + 1 = k BY <2>5, <2>7
  <2>9. h \in DOMAIN hilos /\ Fiel(hilos[h]) BY <2>5, <2>7, <1>7 DEF Fiel
  <2>10. <<d, k>> \in Fieles BY <2>8, <2>9 DEF Fieles
  <2>. QED BY <2>1, <2>2, <2>10, <1>5, <1>7
<1>. QED BY <1>4, <1>6, <1>7 DEF PunterosVeraces

\* The memory has its types.
LEMMA TipadaVale ==
  ASSUME InvMemoria
  PROVE  MemoriaTipada
<1>1. PICK V, Q : MemoriaDe(memoria, V, Q) BY DEF InvMemoria
<1>3. Coherente(mapa, elementos, V, Q) /\ DOMAIN V \subseteq Claves(elementos)
  BY <1>1, MemoriaEs DEF MemoriaDe, Sana
<1>4. mapa \in Seq(Seg) /\ DOMAIN mapa = 1 .. Len(mapa) /\ Casi(mapa)
  BY <1>3 DEF Coherente, Ordenado, Casi
<1>5. /\ Len(elementos) \in Nat /\ elementos \in Seq(Filas)
      /\ DOMAIN elementos = 1 .. Len(elementos)
  BY <1>1, TripsEnTabla
<1>6. ASSUME NEW i \in 1 .. Len(mapa)
      PROVE  mapa[i] \in [n_segmento : Nat, inicio : Direcciones, tamanio : Direcciones,
                          duenio : 0 .. Len(elementos), indice : Indices, puntero : Direcciones]
  <2>1. /\ mapa[i] \in Seg /\ mapa[i].n_segmento \in Nat /\ mapa[i].inicio \in Nat
        /\ mapa[i].tamanio \in Nat
    BY <1>4, SegTipo
  <2>2. mapa[i].inicio \in Direcciones /\ mapa[i].tamanio \in Direcciones
    BY <2>1, <1>4, Dentro, MemoriaValida DEF Direcciones
  <2>3. mapa[i].puntero \in Direcciones BY <1>3, PunterosEnMemoria DEF Lugares, Direcciones
  <2>4. mapa[i].duenio \in 0 .. Len(elementos) /\ mapa[i].indice \in Indices
    <3>1. CASE Ocupado(mapa[i])
      <4>1. Ubicada(Cosa(mapa[i]), elementos, V, Q) BY <3>1, <1>3, ContenidoTiene DEF Coherente
      <4>2. PICK d, k : d = mapa[i].duenio /\ k = mapa[i].indice OBVIOUS
      <4>3. Llave(Cosa(mapa[i])) = <<d, k>> BY <3>1, <4>2, ContenidoTiene DEF Llave
      <4>4. <<d, k>> \in Claves(elementos) BY <4>1, <4>3, <1>3 DEF Ubicada
      <4>5. d \in 1 .. Len(elementos) /\ k \in DOMAIN elementos[d] BY <4>4, ClaveEs
      <4>6. DOMAIN elementos[d] \subseteq 0 .. MaxTripulantes + 1 BY <4>5, <1>5, FilaTipo
      <4>. QED BY <4>2, <4>5, <4>6, <1>5 DEF Indices
    <3>2. CASE EsLibre(mapa[i])
      <4>1. mapa[i].duenio = 0 BY <3>2 DEF EsLibre
      <4>2. mapa[i].indice = 0 BY <3>2, <1>4 DEF Casi, Limpio
      <4>. QED BY <4>1, <4>2, <1>5, MemoriaValida DEF Indices
    <3>. QED BY <3>1, <3>2 DEF Ocupado, EsLibre
  <2>. QED BY <2>1, <2>2, <2>3, <2>4 DEF Seg
<1>7. ASSUME NEW p \in 1 .. Len(elementos), NEW k \in DOMAIN elementos[p]
      PROVE  elementos[p][k] \in Direcciones
  <2>1. elementos[p] \in Filas BY <1>5
  <2>. QED BY <2>1, FilaTipo DEF Lugares, Direcciones
<1>8. ASSUME NEW h \in DOMAIN tripulantes
      PROVE  h \in (1 .. Len(elementos)) \X (1 .. MaxTripulantes)
  <2>1. /\ h = <<h[1], h[2]>> /\ h[1] \in 1 .. Len(elementos)
        /\ h[2] \in Nat /\ h[2] + 1 \in DOMAIN elementos[h[1]]
    BY <1>1, TripsEnTabla
  <2>2. h[2] # 0 BY DEF InvMemoria, Pendientes
  <2>3. elementos[h[1]] \in Filas BY <2>1, <1>5
  <2>4. h[2] + 1 \in 0 .. MaxTripulantes + 1 BY <2>1, <2>3, FilaTipo
  <2>5. h[2] \in 1 .. MaxTripulantes BY <2>1, <2>2, <2>4, MemoriaValida
  <2>. QED BY <2>1, <2>5
<1>9. Len(elementos) <= MaxPatotas /\ faltan \in 0 .. MaxTripulantes
  BY DEF InvMemoria, Pendientes
<1>. QED BY <1>4, <1>5, <1>6, <1>7, <1>8, <1>9 DEF MemoriaTipada

-----------------------------------------------------------------------------
(* The threads *)

\* what a walk of the list may end in
Hallazgos == {"segmento", "liberado", "nulo", "ajeno", "enlace"}

\* a thread
HiloTipo ==
  [quien : {"principal", "hilo"}, accesos : Seq({"tcb", "tareas"}),
   paso : {"quieto", "direccion", "busca", "segmento", "copia", "tareas", "liberado"},
   inicio : Direcciones, pcb : Direcciones, hallados : SUBSET Hallazgos,
   movida : BOOLEAN, corrido : BOOLEAN]

\* INIT_T still fills the trip h: what it holds of the control block is the address in the
\* table, if no compaction made it old
BuenPrincipal(h, r, e, t) ==
  /\ h \in DOMAIN t /\ r.accesos \in Seq({"tcb"}) /\ r.accesos # <<>>
  /\ r.paso \notin {"tareas", "liberado"}
  /\ ~r.corrido => r.pcb = e[h[1]][PCB]

\* What is right of the thread r of the trip h, with the table e and the list t: an
\* address that no compaction made old is the one in the table.
BuenHilo(h, r, e, t) ==
  /\ r \in HiloTipo
  /\ r.paso # "quieto" => r.accesos # <<>>
  /\ r.paso \in {"direccion", "busca"} /\ ~r.movida /\ h \in DOMAIN t =>
       r.inicio = e[h[1]][h[2] + 1]
  /\ r.paso = "tareas" /\ ~r.movida => r.inicio = e[h[1]][TAREAS]
  /\ r.quien = "principal" => BuenPrincipal(h, r, e, t)

\* the trip h has a place in the table
Situado(h, e) ==
  h = <<h[1], h[2]>> /\ h[1] \in 1 .. Len(e) /\ h[2] \in Nat \ {0} /\ h[2] + 1 \in DOMAIN e[h[1]]

\* a trip that INIT_T has not finished, or whose expulsion is not over
Raro(h) == Expulsado(h) \/ hilos[h].quien = "principal"

\* what is right of the threads: each is of a trip with a place in the table, one at most is
\* being created or expelled, and only an expelled one uses a freed segment
InvHilos ==
  /\ hilos = [h \in DOMAIN hilos |-> hilos[h]]
  /\ DOMAIN tripulantes \subseteq DOMAIN hilos
  /\ \A h \in DOMAIN hilos : Situado(h, elementos) /\ BuenHilo(h, hilos[h], elementos, tripulantes)
  /\ \A h, g \in DOMAIN hilos : Raro(h) /\ Raro(g) => h = g
  /\ caido = "no" => \A h \in DOMAIN hilos : hilos[h].paso = "liberado" => Expulsado(h)
  /\ mensajes \in 0 .. MaxMensajes
  /\ caido \in {"no", "iterador", "sin_lugar", "nulo", "ajeno", "enlace", "tarea_movida",
                "liberado", "trabado"}

\* What is right of the walk r of the trip h, with the list of trips t: it may come to a freed
\* segment only if the trip was expelled, and to none or another's only if something moved
\* besides.
Busqueda(h, r, t) ==
  /\ "liberado" \in r.hallados => h \notin DOMAIN t
  /\ "nulo" \in r.hallados \/ "ajeno" \in r.hallados => r.movida \/ h \notin DOMAIN t

\* what is right of every walk
Busquedas ==
  caido = "no" =>
    \A h \in DOMAIN hilos : hilos[h].paso = "busca" => Busqueda(h, hilos[h], tripulantes)

\* the inductive invariant
Invariante == InvMemoria /\ InvHilos /\ Busquedas /\ FallaExplicada

\* The walk of h, if it has a place in the list after the step, comes to what it did before,
\* to a freed link or to what the next list has at the address that it holds.
Sigue(h) ==
  h \in DOMAIN tripulantes' /\ hilos'[h].paso = "busca" =>
    /\ h \in DOMAIN hilos /\ h \in DOMAIN tripulantes
    /\ hilos'[h].inicio = hilos[h].inicio /\ (hilos[h].movida => hilos'[h].movida)
    /\ \A fin \in hilos'[h].hallados :
         \/ hilos[h].paso = "busca" /\ fin \in hilos[h].hallados
         \/ fin = "enlace"
         \/ fin = Hallado(h, mapa', tripulantes')

\* what every step leaves of the threads
HilosSiguen ==
  InvHilos' /\ FallaExplicada' /\ (caido' = "no" => \A h \in DOMAIN hilos' : Sigue(h))

\* no other trip than those of before has the pointer that it should
SinFielesNuevos ==
  \A g \in DOMAIN hilos' : Fiel(hilos'[g]) => g \in DOMAIN hilos /\ Fiel(hilos[g])

\* The step of the thread h leaves it as r, and the others as they were.
LEMMA UnHiloPaso ==
  ASSUME InvHilos, caido = "no", NEW h \in DOMAIN hilos, NEW r,
         BuenHilo(h, r, elementos, tripulantes),
         r.quien = "principal" => hilos[h].quien = "principal",
         r.paso = "liberado" => Expulsado(h),
         r.paso = "busca" =>
           /\ r.inicio = hilos[h].inicio /\ r.movida = hilos[h].movida
           /\ \A fin \in r.hallados : fin = Hallado(h, mapa', tripulantes'),
         hilos' = [hilos EXCEPT ![h] = r],
         UNCHANGED <<elementos, tripulantes, caido>>,
         mensajes' \in 0 .. MaxMensajes
  PROVE  HilosSiguen /\ ((Fiel(r) => Fiel(hilos[h])) => SinFielesNuevos)
<1>1. hilos = [g \in DOMAIN hilos |-> hilos[g]] BY DEF InvHilos
<1>2. /\ DOMAIN hilos' = DOMAIN hilos /\ hilos' = [g \in DOMAIN hilos' |-> hilos'[g]]
      /\ hilos'[h] = r /\ \A g \in DOMAIN hilos : g # h => hilos'[g] = hilos[g]
  BY <1>1
<1>3. DOMAIN tripulantes' \subseteq DOMAIN hilos' BY <1>2 DEF InvHilos
<1>4. ASSUME NEW g \in DOMAIN hilos'
      PROVE  Situado(g, elementos') /\ BuenHilo(g, hilos'[g], elementos', tripulantes')
  <2>1. Situado(g, elementos) /\ BuenHilo(g, hilos[g], elementos, tripulantes)
    BY <1>2, <1>4 DEF InvHilos
  <2>. QED BY <2>1, <1>2, <1>4
<1>5. \A g \in DOMAIN hilos' : Expulsado(g)' <=> Expulsado(g) BY DEF Expulsado
<1>6. \A g \in DOMAIN hilos' : Raro(g)' => Raro(g) BY <1>2, <1>5 DEF Raro
<1>7. \A f, g \in DOMAIN hilos' : Raro(f)' /\ Raro(g)' => f = g BY <1>2, <1>6 DEF InvHilos
<1>8. \A g \in DOMAIN hilos' : hilos'[g].paso = "liberado" => Expulsado(g)'
  BY <1>2, <1>5 DEF InvHilos
<1>9. InvHilos' BY <1>2, <1>3, <1>4, <1>7, <1>8 DEF InvHilos
<1>10. FallaExplicada' BY DEF FallaExplicada
<1>11. ASSUME NEW g \in DOMAIN hilos' PROVE Sigue(g)
  <2>1. CASE g = h BY <2>1, <1>2 DEF Sigue
  <2>2. CASE g # h
    <3>1. g \in DOMAIN hilos /\ hilos'[g] = hilos[g] BY <2>2, <1>2
    <3>. QED BY <3>1 DEF Sigue
  <2>. QED BY <2>1, <2>2
<1>12. (Fiel(r) => Fiel(hilos[h])) => SinFielesNuevos BY <1>2 DEF SinFielesNuevos
<1>. QED BY <1>9, <1>10, <1>11, <1>12 DEF HilosSiguen

\* The process dies of an access: nothing else changes.
LEMMA CaidaPaso ==
  ASSUME InvHilos, UNCHANGED <<elementos, tripulantes, hilos, mensajes>>,
         caido' \in {"iterador", "sin_lugar", "nulo", "ajeno", "enlace", "tarea_movida",
                     "liberado", "trabado"},
         FallaExplicada'
  PROVE  HilosSiguen /\ SinFielesNuevos
<1>1. \A g \in DOMAIN hilos' : Raro(g)' <=> Raro(g) BY DEF Raro, Expulsado
<1>2. caido' # "no" OBVIOUS
<1>3. hilos' = [g \in DOMAIN hilos' |-> hilos'[g]] /\ DOMAIN tripulantes' \subseteq DOMAIN hilos'
      /\ mensajes' \in 0 .. MaxMensajes
  BY DEF InvHilos
<1>4. \A g \in DOMAIN hilos' :
        Situado(g, elementos') /\ BuenHilo(g, hilos'[g], elementos', tripulantes')
  BY DEF InvHilos
<1>5. \A f, g \in DOMAIN hilos' : Raro(f)' /\ Raro(g)' => f = g BY <1>1 DEF InvHilos
<1>6. InvHilos' BY <1>2, <1>3, <1>4, <1>5 DEF InvHilos
<1>7. SinFielesNuevos BY DEF SinFielesNuevos
<1>. QED BY <1>2, <1>6, <1>7 DEF HilosSiguen

\* What the invariant says of one thread.
LEMMA HiloUnico ==
  ASSUME InvHilos, NEW h \in DOMAIN hilos
  PROVE  /\ hilos[h] \in HiloTipo /\ BuenHilo(h, hilos[h], elementos, tripulantes)
         /\ Situado(h, elementos)
         /\ hilos = [g \in DOMAIN hilos |-> hilos[g]]
         /\ hilos[h].accesos # <<>> => Head(hilos[h].accesos) \in {"tcb", "tareas"}
         /\ hilos[h].quien = "principal" => BuenPrincipal(h, hilos[h], elementos, tripulantes)
<1>1. BuenHilo(h, hilos[h], elementos, tripulantes) /\ Situado(h, elementos)
      /\ hilos = [g \in DOMAIN hilos |-> hilos[g]]
  BY DEF InvHilos
<1>2. hilos[h] \in HiloTipo /\
      (hilos[h].quien = "principal" => BuenPrincipal(h, hilos[h], elementos, tripulantes))
  BY <1>1 DEF BuenHilo
<1>3. hilos[h].accesos \in Seq({"tcb", "tareas"}) BY <1>2 DEF HiloTipo
<1>. QED BY <1>1, <1>2, <1>3

\* What a walk of a list that nobody edits may end in.
LEMMA HalladoTipo ==
  ASSUME NEW h, NEW s, NEW t
  PROVE  Hallado(h, s, t) \in {"segmento", "nulo", "ajeno"}
BY DEF Hallado

\* A live trip finds its segment at the address that the table gives for it.
LEMMA HallaSuyo ==
  ASSUME NEW s, NEW e, NEW V, NEW Q, Coherente(s, e, V, Q), NEW t, NEW h,
         <<h[1], h[2] + 1>> \in DOMAIN V, hilos[h].inicio = e[h[1]][h[2] + 1]
  PROVE  Hallado(h, s, t) = "segmento"
<1>1. PICK d, k : d = h[1] /\ k = h[2] + 1 OBVIOUS
<1>2. s \in Seq(Seg) /\ DOMAIN s = 1 .. Len(s) BY DEF Coherente, Ordenado, Casi
<1>3. PICK i \in 1 .. Len(s) :
        /\ s[i].duenio = d /\ s[i].indice = k /\ s[i].inicio = e[d][k]
        /\ DesdeInicio(s, e[d][k]) = i
  BY <1>1, SegmentoVivo
<1>4. PICK ini : ini = e[d][k] OBVIOUS
<1>5. hilos[h].inicio = ini BY <1>1, <1>4
<1>6. PICK L : L = {j \in DOMAIN s : s[j].inicio = ini} OBVIOUS
<1>7. i \in L BY <1>2, <1>3, <1>4, <1>6
<1>8. Min(L) = i BY <1>3, <1>4, <1>6 DEF DesdeInicio
<1>9. Propio(h, s[i], t) BY <1>1, <1>3 DEF Propio
<1>10. L = {j \in DOMAIN s : s[j].inicio = hilos[h].inicio} BY <1>5, <1>6
<1>. QED BY <1>7, <1>8, <1>9, <1>10 DEF Hallado

\* TomarSegmento waits for the mutex of the segment and starts the copy.
LEMMA PasarBien ==
  ASSUME InvHilos, caido = "no", NEW h \in DOMAIN hilos, TomarSegmento(h),
         UNCHANGED <<elementos, tripulantes>>
  PROVE  HilosSiguen /\ SinFielesNuevos
<1>1. PICK q : q = hilos[h] OBVIOUS
<1>2. q \in HiloTipo /\ BuenHilo(h, q, elementos, tripulantes)
      /\ hilos = [g \in DOMAIN hilos |-> hilos[g]]
  BY <1>1, HiloUnico
<1>3. q.paso = "segmento" /\ Pasar(h, "copia") /\ UNCHANGED mensajes
  BY <1>1 DEF TomarSegmento, EnPaso
<1>4. PICK r : r = [q EXCEPT !.paso = "copia"] OBVIOUS
<1>5. hilos' = [hilos EXCEPT ![h] = r] /\ UNCHANGED caido BY <1>1, <1>2, <1>3, <1>4 DEF Pasar
<1>6. /\ r \in HiloTipo /\ r.paso = "copia" /\ r.quien = q.quien /\ r.accesos = q.accesos
      /\ r.pcb = q.pcb /\ r.corrido = q.corrido
  BY <1>2, <1>4 DEF HiloTipo
<1>7. BuenHilo(h, r, elementos, tripulantes) BY <1>2, <1>3, <1>6 DEF BuenHilo, BuenPrincipal
<1>8. mensajes' \in 0 .. MaxMensajes BY <1>3 DEF InvHilos
<1>9. r.paso # "liberado" /\ r.paso # "busca" BY <1>6
<1>10. Fiel(r) => Fiel(hilos[h]) BY <1>1, <1>6 DEF Fiel
<1>11. r.quien = "principal" => hilos[h].quien = "principal" BY <1>1, <1>6
<1>. QED BY <1>5, <1>7, <1>8, <1>9, <1>10, <1>11, UnHiloPaso

\* The walk begins: if nobody edits the list it ends in what the list has.
LEMMA EmpezarBien ==
  ASSUME InvHilos, caido = "no", NEW h \in DOMAIN hilos, EmpezarBusqueda(h),
         UNCHANGED <<mapa, elementos, tripulantes>>
  PROVE  HilosSiguen /\ SinFielesNuevos
<1>1. PICK q : q = hilos[h] OBVIOUS
<1>2. q \in HiloTipo /\ BuenHilo(h, q, elementos, tripulantes)
      /\ hilos = [g \in DOMAIN hilos |-> hilos[g]]
  BY <1>1, HiloUnico
<1>3. q.paso = "direccion" /\ UNCHANGED <<caido, mensajes>>
  BY <1>1 DEF EmpezarBusqueda, EnPaso
<1>4. PICK fin : fin = Hallado(h, mapa, tripulantes) OBVIOUS
<1>5. fin \in Hallazgos BY <1>4, HalladoTipo DEF Hallazgos
<1>6. PICK r : r = [q EXCEPT !.paso = "busca", !.hallados = {fin}] OBVIOUS
<1>7. hilos' = [hilos EXCEPT ![h].paso = "busca", ![h].hallados = {fin}]
  BY <1>4 DEF EmpezarBusqueda
<1>8. hilos' = [hilos EXCEPT ![h] = r] BY <1>1, <1>2, <1>6, <1>7
<1>9. /\ r \in HiloTipo /\ r.paso = "busca" /\ r.quien = q.quien /\ r.accesos = q.accesos
      /\ r.pcb = q.pcb /\ r.corrido = q.corrido /\ r.inicio = q.inicio /\ r.movida = q.movida
      /\ r.hallados = {fin}
  BY <1>2, <1>5, <1>6 DEF HiloTipo
<1>10. BuenHilo(h, r, elementos, tripulantes) BY <1>2, <1>3, <1>9 DEF BuenHilo, BuenPrincipal
<1>11. mensajes' \in 0 .. MaxMensajes BY <1>3 DEF InvHilos
<1>12. r.paso # "liberado" BY <1>9
<1>13. Fiel(r) => Fiel(hilos[h]) BY <1>1, <1>9 DEF Fiel
<1>14. r.quien = "principal" => hilos[h].quien = "principal" BY <1>1, <1>9
<1>15. /\ r.inicio = hilos[h].inicio /\ r.movida = hilos[h].movida
       /\ \A f \in r.hallados : f = Hallado(h, mapa', tripulantes')
  BY <1>1, <1>4, <1>9
<1>. QED BY <1>3, <1>8, <1>10, <1>11, <1>12, <1>13, <1>14, <1>15, UnHiloPaso

\* segmento_desde_inicio finds the segment of the trip, unless it was compacted away after
\* the address was read, or the trip was expelled, or the walk stood on a freed link.
LEMMA BuscarBien ==
  ASSUME InvHilos, Busquedas, caido = "no", NEW h \in DOMAIN hilos, segmento_desde_inicio(h),
         UNCHANGED <<elementos, tripulantes>>
  PROVE  HilosSiguen /\ SinFielesNuevos
<1>1. PICK q : q = hilos[h] OBVIOUS
<1>2. q \in HiloTipo /\ BuenHilo(h, q, elementos, tripulantes)
      /\ hilos = [g \in DOMAIN hilos |-> hilos[g]]
  BY <1>1, HiloUnico
<1>3. q.paso = "busca" /\ UNCHANGED mensajes BY <1>1 DEF segmento_desde_inicio, EnPaso
<1>4. PICK fin \in q.hallados :
        IF fin \in {"segmento", "liberado"}
        THEN /\ hilos' = [hilos EXCEPT ![h].paso = fin, ![h].hallados = {}]
             /\ UNCHANGED caido
        ELSE Caer(fin)
  BY <1>1 DEF segmento_desde_inicio
<1>5. Busqueda(h, q, tripulantes) BY <1>1, <1>3 DEF Busquedas
<1>6. fin \in Hallazgos BY <1>2, <1>4 DEF HiloTipo
<1>7. CASE fin \in {"segmento", "liberado"}
  <2>1. PICK r : r = [q EXCEPT !.paso = fin, !.hallados = {}] OBVIOUS
  <2>2. hilos' = [hilos EXCEPT ![h].paso = fin, ![h].hallados = {}] /\ UNCHANGED caido
    BY <1>4, <1>7
  <2>3. hilos' = [hilos EXCEPT ![h] = r] BY <1>1, <1>2, <2>1, <2>2
  <2>4. /\ r \in HiloTipo /\ r.paso = fin /\ r.quien = q.quien /\ r.accesos = q.accesos
        /\ r.pcb = q.pcb /\ r.corrido = q.corrido
    BY <1>2, <1>7, <2>1 DEF HiloTipo
  <2>5. fin = "liberado" => h \notin DOMAIN tripulantes BY <1>4, <1>5 DEF Busqueda
  <2>6. BuenHilo(h, r, elementos, tripulantes)
    BY <1>2, <1>3, <1>7, <2>4, <2>5 DEF BuenHilo, BuenPrincipal
  <2>7. mensajes' \in 0 .. MaxMensajes BY <1>3 DEF InvHilos
  <2>8. r.paso # "busca" /\ (r.paso = "liberado" => Expulsado(h))
    BY <1>7, <2>4, <2>5 DEF Expulsado
  <2>9. Fiel(r) => Fiel(hilos[h]) BY <1>1, <2>4 DEF Fiel
  <2>10. r.quien = "principal" => hilos[h].quien = "principal" BY <1>1, <2>4
  <2>. QED BY <2>2, <2>3, <2>6, <2>7, <2>8, <2>9, <2>10, UnHiloPaso
<1>8. CASE fin \notin {"segmento", "liberado"}
  <2>1. caido' = fin /\ UNCHANGED hilos BY <1>4, <1>8 DEF Caer
  <2>2. fin \in {"nulo", "ajeno", "enlace"} BY <1>6, <1>8 DEF Hallazgos
  <2>3. fin \in {"nulo", "ajeno"} => hilos[h].movida \/ Expulsado(h)
    BY <1>1, <1>4, <1>5 DEF Busqueda, Expulsado
  <2>4. Expulsado(h)' <=> Expulsado(h) BY DEF Expulsado
  <2>5. FallaExplicada' BY <1>1, <1>3, <1>4, <2>1, <2>2, <2>3, <2>4 DEF FallaExplicada
  <2>. QED BY <1>3, <2>1, <2>2, <2>5, CaidaPaso
<1>. QED BY <1>7, <1>8

\* The access is over.  After the last one of INIT_T, the copy of the pointer, the trip has
\* its thread.
LEMMA HechoBien ==
  ASSUME InvHilos, caido = "no", NEW h \in DOMAIN hilos, hilos[h].paso # "quieto", Hecho(h),
         UNCHANGED <<elementos, tripulantes, mensajes>>
  PROVE  HilosSiguen /\ (GuardaPcb(h) \/ SinFielesNuevos)
<1>1. PICK q : q = hilos[h] OBVIOUS
<1>2. /\ q \in HiloTipo /\ BuenHilo(h, q, elementos, tripulantes)
      /\ hilos = [g \in DOMAIN hilos |-> hilos[g]]
      /\ q.quien = "principal" => BuenPrincipal(h, q, elementos, tripulantes)
  BY <1>1, HiloUnico
<1>3. PICK quedan : quedan = Tail(q.accesos) OBVIOUS
<1>4. q.accesos \in Seq({"tcb", "tareas"}) /\ q.accesos # <<>>
      /\ q.quien \in {"principal", "hilo"} /\ q.pcb \in Direcciones
  BY <1>1, <1>2 DEF BuenHilo, HiloTipo
<1>5. quedan \in Seq({"tcb", "tareas"}) BY <1>3, <1>4
<1>6. PICK u, v : /\ u = IF quedan = <<>> THEN "hilo" ELSE q.quien
                  /\ v = IF quedan = <<>> THEN 0 ELSE q.pcb
  OBVIOUS
<1>7. PICK r : r = [q EXCEPT !.quien = u, !.accesos = quedan, !.paso = "quieto", !.inicio = 0,
                             !.pcb = v, !.movida = FALSE]
  OBVIOUS
<1>8. hilos' = [hilos EXCEPT ![h].quien = u, ![h].accesos = quedan, ![h].paso = "quieto",
                             ![h].inicio = 0, ![h].pcb = v, ![h].movida = FALSE]
      /\ UNCHANGED caido
  BY <1>1, <1>3, <1>6 DEF Hecho, UltimoAcceso
<1>9. hilos' = [hilos EXCEPT ![h] = r] BY <1>1, <1>2, <1>7, <1>8
<1>10. 0 \in Direcciones BY MemoriaValida DEF Direcciones
<1>11. u \in {"principal", "hilo"} /\ v \in Direcciones BY <1>4, <1>6, <1>10
<1>12. /\ r \in HiloTipo /\ r.quien = u /\ r.paso = "quieto" /\ r.accesos = quedan
       /\ r.pcb = v /\ r.corrido = q.corrido
  BY <1>2, <1>5, <1>7, <1>10, <1>11 DEF HiloTipo
<1>13. u = "principal" => q.quien = "principal" /\ quedan # <<>> /\ v = q.pcb BY <1>6
<1>14. ASSUME u = "principal" PROVE BuenPrincipal(h, r, elementos, tripulantes)
  <2>1. BuenPrincipal(h, q, elementos, tripulantes) BY <1>2, <1>13, <1>14
  <2>2. q.accesos \in Seq({"tcb"}) BY <2>1 DEF BuenPrincipal
  <2>3. quedan \in Seq({"tcb"}) BY <2>2, <1>3, <1>4
  <2>. QED BY <2>1, <2>3, <1>12, <1>13, <1>14 DEF BuenPrincipal
<1>15. BuenHilo(h, r, elementos, tripulantes) BY <1>12, <1>14 DEF BuenHilo
<1>16. mensajes' \in 0 .. MaxMensajes BY DEF InvHilos
<1>17. r.quien = "principal" => hilos[h].quien = "principal" BY <1>1, <1>12, <1>13
<1>18. r.paso # "liberado" /\ r.paso # "busca" BY <1>12
<1>19. HilosSiguen /\ ((Fiel(r) => Fiel(hilos[h])) => SinFielesNuevos)
  BY <1>8, <1>9, <1>15, <1>16, <1>17, <1>18, UnHiloPaso
<1>20. GuardaPcb(h) \/ (Fiel(r) => Fiel(hilos[h]))
  BY <1>1, <1>3, <1>4, <1>6, <1>12 DEF GuardaPcb, UltimoAcceso, Fiel
<1>. QED BY <1>19, <1>20

\* LeerDireccion reads an address of the memory, the one of the table.
LEMMA LeerBien ==
  ASSUME InvMemoria, InvHilos, caido = "no", NEW h \in DOMAIN hilos, LeerDireccion(h),
         UNCHANGED <<elementos, tripulantes>>
  PROVE  HilosSiguen /\ SinFielesNuevos
<1>1. PICK q : q = hilos[h] OBVIOUS
<1>2. /\ q \in HiloTipo /\ Situado(h, elementos) /\ hilos = [g \in DOMAIN hilos |-> hilos[g]]
      /\ (q.accesos # <<>> => Head(q.accesos) \in {"tcb", "tareas"})
      /\ q.quien = "principal" => BuenPrincipal(h, q, elementos, tripulantes)
  BY <1>1, HiloUnico
<1>3. PICK v, w : /\ v = elementos[h[1]][Indice(h)]
                  /\ w = IF Head(q.accesos) = "tareas" THEN "tareas" ELSE "direccion"
  OBVIOUS
<1>4. PICK r : r = [q EXCEPT !.inicio = v, !.paso = w, !.movida = FALSE] OBVIOUS
<1>5. q.accesos # <<>> /\ UNCHANGED <<caido, mensajes>> BY <1>1 DEF LeerDireccion
<1>6. hilos' = [hilos EXCEPT ![h].inicio = v, ![h].paso = w, ![h].movida = FALSE]
  BY <1>1, <1>3 DEF LeerDireccion
<1>7. hilos' = [hilos EXCEPT ![h] = r] BY <1>1, <1>2, <1>4, <1>6
<1>8. /\ Indice(h) \in DOMAIN elementos[h[1]]
      /\ w = "tareas" => Indice(h) = TAREAS
      /\ w # "tareas" => Indice(h) = h[2] + 1
  <2>1. PICK V, Q : MemoriaDe(memoria, V, Q) BY DEF InvMemoria
  <2>2. elementos \in Seq(Filas) BY <2>1, TripsEnTabla
  <2>3. elementos[h[1]] \in Filas BY <2>2, <1>2 DEF Situado
  <2>4. TAREAS \in DOMAIN elementos[h[1]] BY <2>3, FilaTipo
  <2>. QED BY <2>4, <1>1, <1>2, <1>3 DEF Situado, Indice
<1>9. v \in Direcciones
  <2>1. PICK V, Q : MemoriaDe(memoria, V, Q) BY DEF InvMemoria
  <2>2. elementos \in Seq(Filas) BY <2>1, TripsEnTabla
  <2>3. elementos[h[1]] \in Filas BY <2>2, <1>2 DEF Situado
  <2>. QED BY <2>3, <1>3, <1>8, FilaTipo DEF Lugares, Direcciones
<1>10. w \in {"tareas", "direccion"} BY <1>3
<1>11. /\ r \in HiloTipo /\ r.paso = w /\ r.quien = q.quien /\ r.accesos = q.accesos
       /\ r.inicio = v /\ r.pcb = q.pcb /\ r.corrido = q.corrido
  BY <1>2, <1>4, <1>9, <1>10 DEF HiloTipo
<1>12. ASSUME q.quien = "principal" PROVE w = "direccion"
  <2>1. q.accesos \in Seq({"tcb"}) BY <1>2, <1>12 DEF BuenPrincipal
  <2>2. Head(q.accesos) = "tcb" BY <2>1, <1>5
  <2>. QED BY <2>2, <1>3
<1>13. BuenHilo(h, r, elementos, tripulantes)
  <2>1. r.quien = "principal" => BuenPrincipal(h, r, elementos, tripulantes)
    BY <1>2, <1>11, <1>12 DEF BuenPrincipal
  <2>. QED BY <2>1, <1>3, <1>5, <1>8, <1>10, <1>11 DEF BuenHilo
<1>14. mensajes' \in 0 .. MaxMensajes BY <1>5 DEF InvHilos
<1>15. r.paso # "liberado" /\ r.paso # "busca" BY <1>10, <1>11
<1>16. Fiel(r) => Fiel(hilos[h]) BY <1>1, <1>11 DEF Fiel
<1>17. r.quien = "principal" => hilos[h].quien = "principal" BY <1>1, <1>11
<1>. QED BY <1>5, <1>7, <1>13, <1>14, <1>15, <1>16, <1>17, UnHiloPaso

\* rutina_hilos takes one more message.
LEMMA RutinaBien ==
  ASSUME InvHilos, caido = "no", NEW h \in DOMAIN hilos, rutina_hilos(h),
         UNCHANGED <<elementos, tripulantes>>
  PROVE  HilosSiguen /\ SinFielesNuevos
<1>1. PICK q : q = hilos[h] OBVIOUS
<1>2. /\ q \in HiloTipo /\ hilos = [g \in DOMAIN hilos |-> hilos[g]]
      /\ q.quien = "principal" => BuenPrincipal(h, q, elementos, tripulantes)
  BY <1>1, HiloUnico
<1>3. q.paso = "quieto" /\ mensajes < MaxMensajes /\ mensajes' = mensajes + 1 /\ UNCHANGED caido
      /\ q.accesos = <<>>
  BY <1>1 DEF rutina_hilos, EnPaso
<1>4. PICK a \in NEXT_T \cup ACTU_P \cup ACTU_E : hilos' = [hilos EXCEPT ![h].accesos = a]
  BY DEF rutina_hilos
<1>5. a \in Seq({"tcb", "tareas"})
  <2>1. /\ <<"tcb">> \in Seq({"tcb", "tareas"})
        /\ <<"tcb", "tareas", "tcb">> \in Seq({"tcb", "tareas"})
        /\ <<"tcb", "tcb">> \in Seq({"tcb", "tareas"})
    OBVIOUS
  <2>2. a \in {<<"tcb">>, <<"tcb", "tareas", "tcb">>, <<"tcb", "tcb">>}
    BY Zenon DEF NEXT_T, ACTU_P, ACTU_E
  <2>. QED BY <2>1, <2>2, Zenon
<1>6. PICK r : r = [q EXCEPT !.accesos = a] OBVIOUS
<1>7. hilos' = [hilos EXCEPT ![h] = r] BY <1>1, <1>2, <1>4, <1>6
<1>8. r \in HiloTipo /\ r.paso = "quieto" /\ r.quien = q.quien /\ r.corrido = q.corrido
  BY <1>2, <1>3, <1>5, <1>6 DEF HiloTipo
<1>9. q.quien # "principal" BY <1>2, <1>3 DEF BuenPrincipal
<1>10. BuenHilo(h, r, elementos, tripulantes) BY <1>8, <1>9 DEF BuenHilo
<1>11. mensajes' \in 0 .. MaxMensajes BY <1>3, MensajesValidos DEF InvHilos
<1>12. r.paso # "liberado" /\ r.paso # "busca" BY <1>8
<1>13. Fiel(r) => Fiel(hilos[h]) BY <1>1, <1>8 DEF Fiel
<1>14. r.quien = "principal" => hilos[h].quien = "principal" BY <1>1, <1>8
<1>. QED BY <1>3, <1>7, <1>10, <1>11, <1>12, <1>13, <1>14, UnHiloPaso

\* the copy of the last access of INIT_T, which stores the pointer to the control block
Guarda(h) == Accesos(h) /\ Copiar(h) /\ GuardaPcb(h)

\* The steps of the threads leave the table and the list of trips, and but for one the
\* memory.
LEMMA AccesoQuieto ==
  ASSUME NEW h \in DOMAIN hilos, Accesos(h)
  PROVE  /\ UNCHANGED <<elementos, tripulantes, nro_tripulante, faltan>>
         /\ UNCHANGED mapa \/ Guarda(h)
<1>1. UNCHANGED <<elementos, tripulantes, nro_tripulante, faltan>> BY DEF Accesos
<1>2. UNCHANGED mapa \/ Copiar(h) BY DEF Accesos
<1>3. Copiar(h) => UNCHANGED mapa \/ GuardaPcb(h) BY DEF Copiar
<1>. QED BY <1>1, <1>2, <1>3 DEF Guarda

\* Every step of a thread keeps the invariant, and explains the fall if there is one.
LEMMA AccesoPaso ==
  ASSUME InvMemoria, InvHilos, Busquedas, caido = "no", NEW h \in DOMAIN hilos, Accesos(h)
  PROVE  HilosSiguen /\ (Guarda(h) \/ SinFielesNuevos)
<1>1. UNCHANGED <<elementos, tripulantes>> BY AccesoQuieto
<1>2. CASE LeerDireccion(h) BY <1>1, <1>2, LeerBien
<1>3. CASE segmento_desde_inicio(h) BY <1>1, <1>3, BuscarBien
<1>4. CASE TomarSegmento(h) BY <1>1, <1>4, PasarBien
<1>5. CASE Copiar(h)
  <2>1. hilos[h].paso = "copia" /\ Hecho(h) /\ UNCHANGED mensajes
    BY <1>5 DEF Copiar, EnPaso
  <2>2. HilosSiguen /\ (GuardaPcb(h) \/ SinFielesNuevos) BY <2>1, <1>1, HechoBien
  <2>. QED BY <2>2, <1>5 DEF Guarda
<1>6. ASSUME hilos[h].paso \in {"tareas", "liberado"} PROVE ~GuardaPcb(h)
  <2>1. hilos[h].quien # "principal" BY <1>6, HiloUnico DEF BuenPrincipal
  <2>. QED BY <2>1 DEF GuardaPcb
<1>7. CASE obtener_tarea(h)
  <2>1. hilos[h].paso = "tareas" /\ UNCHANGED mensajes BY <1>7 DEF obtener_tarea, EnPaso
  <2>2. CASE Hecho(h) BY <2>1, <2>2, <1>1, <1>6, HechoBien
  <2>3. ASSUME Caer("tarea_movida"), elementos[h[1]][TAREAS] # hilos[h].inicio
        PROVE  HilosSiguen /\ SinFielesNuevos
    <3>1. caido' = "tarea_movida" /\ UNCHANGED hilos BY <2>3 DEF Caer
    <3>2. hilos[h].movida BY <2>1, <2>3, HiloUnico DEF BuenHilo
    <3>3. FallaExplicada' BY <2>1, <3>1, <3>2 DEF FallaExplicada
    <3>. QED BY <1>1, <2>1, <3>1, <3>3, CaidaPaso
  <2>. QED BY <2>2, <2>3, <1>7 DEF obtener_tarea
<1>8. CASE UsarLiberado(h)
  <2>1. hilos[h].paso = "liberado" /\ UNCHANGED mensajes BY <1>8 DEF UsarLiberado, EnPaso
  <2>2. CASE Hecho(h) BY <2>1, <2>2, <1>1, <1>6, HechoBien
  <2>3. ASSUME Caer("liberado") PROVE HilosSiguen /\ SinFielesNuevos
    <3>1. caido' = "liberado" /\ UNCHANGED hilos BY <2>3 DEF Caer
    <3>2. Expulsado(h) BY <2>1 DEF InvHilos
    <3>3. Expulsado(h)' BY <3>2, <1>1 DEF Expulsado
    <3>4. FallaExplicada' BY <2>1, <3>1, <3>3 DEF FallaExplicada
    <3>. QED BY <1>1, <2>1, <3>1, <3>4, CaidaPaso
  <2>. QED BY <2>2, <2>3, <1>8 DEF UsarLiberado
<1>9. CASE rutina_hilos(h) BY <1>1, <1>9, RutinaBien
<1>10. ASSUME EmpezarBusqueda(h) PROVE HilosSiguen /\ SinFielesNuevos
  <2>1. hilos[h].paso = "direccion" BY <1>10 DEF EmpezarBusqueda, EnPaso
  <2>2. ~Copiar(h) BY <2>1 DEF Copiar, EnPaso
  <2>3. UNCHANGED mapa BY <2>2 DEF Accesos
  <2>. QED BY <2>3, <1>1, <1>10, EmpezarBien
<1>. QED BY <1>2, <1>3, <1>4, <1>5, <1>7, <1>8, <1>9, <1>10 DEF Accesos

-----------------------------------------------------------------------------
(* The messages of the main loop and the threads *)

\* the patotas and the places of their trips stay in the table
Conserva ==
  /\ Len(elementos) \in Nat /\ Len(elementos') \in Nat /\ Len(elementos) <= Len(elementos')
  /\ DOMAIN elementos = 1 .. Len(elementos)
  /\ \A p \in 1 .. Len(elementos) :
       DOMAIN elementos'[p] = DOMAIN elementos[p] /\ TAREAS \in DOMAIN elementos[p]

\* no expelled trip is in the list again, and the one that INIT_T fills stays in it
NadieVuelve ==
  \A h \in DOMAIN hilos :
    /\ h \in DOMAIN tripulantes' => h \in DOMAIN tripulantes
    /\ hilos[h].quien = "principal" => h \in DOMAIN tripulantes'

\* the threads hs are right, with the present memory
Buenos(hs) ==
  /\ DOMAIN hs = DOMAIN hilos
  /\ \A h \in DOMAIN hilos :
       BuenHilo(h, hs[h], elementos, tripulantes) /\ hs[h].quien = hilos[h].quien

\* hs are the threads, but for those of an expelled trip whose segment was freed
SoloLiberados(hs) ==
  \A h \in DOMAIN hilos :
    /\ hs[h].quien = hilos[h].quien /\ hs[h].corrido = hilos[h].corrido
    /\ hs[h].paso = "liberado" => Expulsado(h)
    /\ h \in DOMAIN tripulantes => hs[h] = hilos[h]

\* the thread s is r, told of what the step did to the trip h
Avisado(h, s, r) ==
  /\ s.paso = r.paso /\ s.quien = r.quien /\ s.inicio = r.inicio
  /\ (r.movida => s.movida) /\ (r.corrido => s.corrido)
  /\ s.paso = "busca" =>
       \A fin \in s.hallados :
         fin \in r.hallados \/ fin = "enlace" \/ fin = Hallado(h, mapa', tripulantes')

\* as are the threads hs, told of what moved
SonAvisados(as, hs) ==
  /\ DOMAIN as = DOMAIN hilos /\ as = [h \in DOMAIN as |-> as[h]]
  /\ \A h \in DOMAIN hilos :
       /\ Situado(h, elementos') /\ BuenHilo(h, as[h], elementos', tripulantes')
       /\ Avisado(h, as[h], hs[h])

\* the thread r of the trip h is told: n and z say whether something moved since it read the
\* address, and whether its control block did
Dicho(h, r, n, z) ==
  /\ n \in BOOLEAN /\ n = (r.movida \/ SeMovio)
  /\ z \in BOOLEAN /\ z = (r.corrido \/ (r.quien = "principal" /\ SeCorrio(h[1])))
ConAviso(r, n, z, hal) == [r EXCEPT !.movida = n, !.corrido = z, !.hallados = hal]

\* A thread that is told of what moved is right with the next memory.
LEMMA AvisarBien ==
  ASSUME Conserva, NEW h, NEW r, Situado(h, elementos), BuenHilo(h, r, elementos, tripulantes),
         h \in DOMAIN tripulantes' => h \in DOMAIN tripulantes,
         r.quien = "principal" => h \in DOMAIN tripulantes',
         NEW hal \in SUBSET Hallazgos,
         NEW n, NEW z, Dicho(h, r, n, z), NEW s, s = ConAviso(r, n, z, hal)
  PROVE  /\ Situado(h, elementos') /\ BuenHilo(h, s, elementos', tripulantes')
         /\ s.paso = r.paso /\ s.quien = r.quien /\ s.inicio = r.inicio
         /\ (r.movida => s.movida) /\ (r.corrido => s.corrido) /\ s.hallados = hal
<1>1. PICK b \in BOOLEAN : b = SeMovio BY Zenon DEF SeMovio
<1>2. PICK d, k, t : d = h[1] /\ k = h[2] + 1 /\ t = h[2] OBVIOUS
<1>3. /\ h = <<d, t>> /\ d \in 1 .. Len(elementos) /\ t \in Nat /\ k = t + 1 /\ k \in Nat
      /\ k \in DOMAIN elementos[d]
  BY <1>2 DEF Situado
<1>4. d \in 1 .. Len(elementos') /\ k \in DOMAIN elementos'[d] BY <1>3 DEF Conserva
<1>5. Situado(h, elementos') BY <1>2, <1>3, <1>4 DEF Situado
<1>6. PICK m, x : m = r.movida /\ x = r.corrido OBVIOUS
<1>7. r \in HiloTipo /\ m \in BOOLEAN /\ x \in BOOLEAN BY <1>6 DEF BuenHilo, HiloTipo
<1>8. n = (m \/ b) BY <1>1, <1>6 DEF Dicho
<1>9. PICK y \in BOOLEAN : y = (r.quien = "principal" /\ SeCorrio(d)) BY Zenon DEF SeCorrio
<1>10. z = (x \/ y) BY <1>2, <1>6, <1>9 DEF Dicho
<1>12. /\ s \in HiloTipo /\ s.paso = r.paso /\ s.quien = r.quien /\ s.accesos = r.accesos
       /\ s.inicio = r.inicio /\ s.movida = n /\ s.pcb = r.pcb /\ s.corrido = z
       /\ s.hallados = hal
  BY <1>7 DEF HiloTipo, Dicho, ConAviso
<1>13. ASSUME ~n
       PROVE  ~r.movida /\ elementos'[d][TAREAS] = elementos[d][TAREAS]
              /\ (h \in DOMAIN tripulantes => elementos'[d][k] = elementos[d][k])
  <2>1. ~m /\ ~b BY <1>8, <1>13
  <2>2. ASSUME NEW j \in DOMAIN elementos[d], Vive(d, j) PROVE elementos'[d][j] = elementos[d][j]
    <3>1. ~SeMovio BY <2>1, <1>1
    <3>2. d \in DOMAIN elementos BY <1>3 DEF Conserva
    <3>. QED BY <3>1, <3>2, <2>2 DEF SeMovio
  <2>3. Vive(d, TAREAS) BY DEF Vive
  <2>4. TAREAS \in DOMAIN elementos[d] BY <1>3 DEF Conserva
  <2>5. ASSUME h \in DOMAIN tripulantes PROVE Vive(d, k)
    <3>1. k - 1 = t BY <1>3
    <3>. QED BY <3>1, <2>5, <1>3 DEF Vive
  <2>6. elementos'[d][TAREAS] = elementos[d][TAREAS] BY <2>2, <2>3, <2>4
  <2>7. h \in DOMAIN tripulantes => elementos'[d][k] = elementos[d][k] BY <2>2, <2>5, <1>3
  <2>. QED BY <2>1, <2>6, <2>7, <1>6
<1>14. ASSUME s.quien = "principal" PROVE BuenPrincipal(h, s, elementos', tripulantes')
  <2>1. r.quien = "principal" /\ BuenPrincipal(h, r, elementos, tripulantes)
    BY <1>12, <1>14 DEF BuenHilo
  <2>2. h \in DOMAIN tripulantes' BY <2>1
  <2>3. ASSUME ~s.corrido PROVE s.pcb = elementos'[h[1]][PCB]
    <3>1. ~x /\ ~y BY <2>3, <1>7, <1>9, <1>10, <1>12
    <3>2. ~SeCorrio(d) BY <3>1, <2>1, <1>9
    <3>3. elementos'[d][PCB] = elementos[d][PCB] BY <3>2 DEF SeCorrio
    <3>4. r.pcb = elementos[h[1]][PCB] BY <2>1, <3>1, <1>6 DEF BuenPrincipal
    <3>. QED BY <3>3, <3>4, <1>2, <1>12
  <2>. QED BY <2>1, <2>2, <2>3, <1>12 DEF BuenPrincipal
<1>15. BuenHilo(h, s, elementos', tripulantes')
  <2>1. s.paso # "quieto" => s.accesos # <<>> BY <1>12 DEF BuenHilo
  <2>2. ASSUME s.paso \in {"direccion", "busca"}, ~s.movida, h \in DOMAIN tripulantes'
        PROVE  s.inicio = elementos'[h[1]][h[2] + 1]
    <3>1. ~n BY <2>2, <1>12
    <3>2. r.inicio = elementos[d][k] BY <2>2, <3>1, <1>2, <1>12, <1>13 DEF BuenHilo
    <3>. QED BY <3>1, <3>2, <2>2, <1>2, <1>12, <1>13
  <2>3. ASSUME s.paso = "tareas", ~s.movida PROVE s.inicio = elementos'[h[1]][TAREAS]
    <3>1. ~n BY <2>3, <1>12
    <3>2. r.inicio = elementos[d][TAREAS] BY <2>3, <3>1, <1>2, <1>12, <1>13 DEF BuenHilo
    <3>. QED BY <3>1, <3>2, <1>2, <1>12, <1>13
  <2>. QED BY <2>1, <2>2, <2>3, <1>12, <1>14 DEF BuenHilo
<1>16. (r.movida => s.movida) /\ (r.corrido => s.corrido)
  BY <1>6, <1>7, <1>8, <1>10, <1>12
<1>. QED BY <1>5, <1>12, <1>15, <1>16

\* And so are all.
LEMMA AvisadosBien ==
  ASSUME InvHilos, Conserva, NadieVuelve, NEW hs, Buenos(hs), NEW n,
         NEW as, as = Avisados(hs, n)
  PROVE  SonAvisados(as, hs)
<1>1. as = [h \in DOMAIN hilos |->
              [hs[h] EXCEPT
                 !.movida = @ \/ SeMovio,
                 !.corrido = @ \/ (hs[h].quien = "principal" /\ SeCorrio(h[1])),
                 !.hallados = IF hs[h].paso = "busca"
                              THEN @ \cup {Hallado(h, mapa', tripulantes')}
                                     \cup (IF QuitaEnlaces(n) THEN {"enlace"} ELSE {})
                              ELSE @]]
  BY DEF Avisados, Buenos
<1>2. DOMAIN as = DOMAIN hilos /\ as = [h \in DOMAIN as |-> as[h]] BY <1>1
<1>3. ASSUME NEW h \in DOMAIN hilos
      PROVE  /\ Situado(h, elementos') /\ BuenHilo(h, as[h], elementos', tripulantes')
             /\ Avisado(h, as[h], hs[h])
  <2>1. PICK r, s, fin : r = hs[h] /\ s = as[h] /\ fin = Hallado(h, mapa', tripulantes')
    OBVIOUS
  <2>2. PICK E : E = IF QuitaEnlaces(n) THEN {"enlace"} ELSE {} OBVIOUS
  <2>3. PICK hal : hal = IF r.paso = "busca" THEN r.hallados \cup {fin} \cup E ELSE r.hallados
    OBVIOUS
  <2>4. s = [r EXCEPT !.movida = @ \/ SeMovio,
                      !.corrido = @ \/ (r.quien = "principal" /\ SeCorrio(h[1])),
                      !.hallados = hal]
    BY <1>1, <2>1, <2>2, <2>3
  <2>5. fin \in Hallazgos
    <3>1. PICK w, t : w = mapa' /\ t = tripulantes' OBVIOUS
    <3>2. Hallado(h, w, t) \in Hallazgos BY HalladoTipo DEF Hallazgos
    <3>. QED BY <2>1, <3>1, <3>2
  <2>6. Situado(h, elementos) BY DEF InvHilos
  <2>7. BuenHilo(h, r, elementos, tripulantes) /\ r.quien = hilos[h].quien
    BY <2>1 DEF Buenos
  <2>8. r.hallados \subseteq Hallazgos BY <2>7 DEF BuenHilo, HiloTipo
  <2>9. "enlace" \in Hallazgos /\ E \subseteq {"enlace"} BY <2>2 DEF Hallazgos
  <2>10. hal \in SUBSET Hallazgos BY <2>3, <2>5, <2>8, <2>9
  <2>11. /\ h \in DOMAIN tripulantes' => h \in DOMAIN tripulantes
         /\ r.quien = "principal" => h \in DOMAIN tripulantes'
    BY <2>7 DEF NadieVuelve
  <2>12. r.movida \in BOOLEAN /\ r.corrido \in BOOLEAN BY <2>7 DEF BuenHilo, HiloTipo
  <2>13. PICK b \in BOOLEAN : b = SeMovio BY Zenon DEF SeMovio
  <2>14. PICK y \in BOOLEAN : y = (r.quien = "principal" /\ SeCorrio(h[1])) BY Zenon DEF SeCorrio
  <2>15. PICK m \in BOOLEAN, z \in BOOLEAN : m = (r.movida \/ b) /\ z = (r.corrido \/ y)
    BY <2>12
  <2>16. /\ m = (r.movida \/ SeMovio)
        /\ z = (r.corrido \/ (r.quien = "principal" /\ SeCorrio(h[1])))
    BY <2>13, <2>14, <2>15
  <2>17. s = ConAviso(r, m, z, hal) BY <2>4, <2>16 DEF ConAviso
  <2>18. Dicho(h, r, m, z) BY <2>15, <2>16 DEF Dicho
  <2>19. /\ Situado(h, elementos') /\ BuenHilo(h, s, elementos', tripulantes')
         /\ s.paso = r.paso /\ s.quien = r.quien /\ s.inicio = r.inicio
         /\ (r.movida => s.movida) /\ (r.corrido => s.corrido) /\ s.hallados = hal
    BY <2>17, <2>18, <2>6, <2>7, <2>10, <2>11, AvisarBien
  <2>20. \A f \in hal : f \in r.hallados \/ f = "enlace" \/ f = fin BY <2>3, <2>9
  <2>. QED BY <2>1, <2>19, <2>20 DEF Avisado
<1>. QED BY <1>2, <1>3 DEF SonAvisados

\* What a thread that was told does next follows from what it did.
LEMMA AvisadoSigue ==
  ASSUME NEW h \in DOMAIN hilos, Avisado(h, hilos'[h], hilos[h]), h \in DOMAIN tripulantes
  PROVE  Sigue(h)
BY DEF Avisado, Sigue

\* the threads after a message that expels nobody and creates nobody
LEMMA AvisadosPaso ==
  ASSUME InvHilos, caido = "no", NEW hs, SonAvisados(hilos', hs),
         DOMAIN tripulantes' = DOMAIN tripulantes, UNCHANGED <<caido, mensajes>>,
         SoloLiberados(hs)
  PROVE  HilosSiguen /\ SinFielesNuevos
<1>0. ASSUME NEW h \in DOMAIN hilos'
      PROVE  /\ h \in DOMAIN hilos /\ hilos'[h].quien = hilos[h].quien
             /\ hilos[h].corrido => hilos'[h].corrido
             /\ hilos'[h].paso = "liberado" => Expulsado(h)
             /\ Expulsado(h)' <=> Expulsado(h)
  <2>1. h \in DOMAIN hilos BY DEF SonAvisados
  <2>2. /\ hilos'[h].quien = hs[h].quien /\ hilos'[h].paso = hs[h].paso
        /\ hs[h].corrido => hilos'[h].corrido
    BY <2>1 DEF SonAvisados, Avisado
  <2>3. /\ hs[h].quien = hilos[h].quien /\ (hs[h].paso = "liberado" => Expulsado(h))
        /\ hs[h].corrido = hilos[h].corrido
    BY <2>1 DEF SoloLiberados
  <2>4. Expulsado(h)' <=> Expulsado(h) BY DEF Expulsado
  <2>. QED BY <2>1, <2>2, <2>3, <2>4
<1>1. \A h \in DOMAIN hilos' : Raro(h)' <=> Raro(h) BY <1>0 DEF Raro
<1>2. DOMAIN hilos' = DOMAIN hilos BY DEF SonAvisados
<1>3. \A f, g \in DOMAIN hilos' : Raro(f)' /\ Raro(g)' => f = g BY <1>1, <1>2 DEF InvHilos
<1>4. \A h \in DOMAIN hilos' : hilos'[h].paso = "liberado" => Expulsado(h)' BY <1>0
<1>5. hilos' = [h \in DOMAIN hilos' |-> hilos'[h]] /\ DOMAIN tripulantes' \subseteq DOMAIN hilos'
      /\ mensajes' \in 0 .. MaxMensajes
  BY <1>2 DEF InvHilos, SonAvisados
<1>6. \A g \in DOMAIN hilos' :
        Situado(g, elementos') /\ BuenHilo(g, hilos'[g], elementos', tripulantes')
  BY <1>2 DEF SonAvisados
<1>7. InvHilos' BY <1>3, <1>4, <1>5, <1>6 DEF InvHilos
<1>8. FallaExplicada' BY DEF FallaExplicada
<1>9. ASSUME NEW h \in DOMAIN hilos' PROVE Sigue(h)
  <2>1. CASE h \in DOMAIN tripulantes
    <3>1. h \in DOMAIN hilos BY <1>2
    <3>2. hs[h] = hilos[h] BY <2>1, <3>1 DEF SoloLiberados
    <3>3. Avisado(h, hilos'[h], hs[h]) BY <3>1 DEF SonAvisados
    <3>4. Avisado(h, hilos'[h], hilos[h]) BY <3>2, <3>3
    <3>. QED BY <2>1, <3>1, <3>4, AvisadoSigue
  <2>2. CASE h \notin DOMAIN tripulantes BY <2>2 DEF Sigue
  <2>. QED BY <2>1, <2>2
<1>10. SinFielesNuevos BY <1>0 DEF SinFielesNuevos, Fiel
<1>. QED BY <1>7, <1>8, <1>9, <1>10 DEF HilosSiguen

\* the rows of the table keep their places
MismasFilas == \A p \in 1 .. Len(elementos) : DOMAIN elementos'[p] = DOMAIN elementos[p]

\* The rows stay, whether or not there is a new one.
LEMMA ConservaDe ==
  ASSUME NEW V, NEW Q, MemoriaDe(memoria, V, Q), MismasFilas,
         Len(elementos') = Len(elementos) \/ Len(elementos') = Len(elementos) + 1
  PROVE  Conserva
<1>1. Len(elementos) \in Nat /\ elementos \in Seq(Filas) /\ DOMAIN elementos = 1 .. Len(elementos)
  BY TripsEnTabla
<1>2. ASSUME NEW p \in 1 .. Len(elementos) PROVE TAREAS \in DOMAIN elementos[p]
  <2>1. elementos[p] \in Filas BY <1>1
  <2>. QED BY <2>1, FilaTipo
<1>3. Len(elementos') \in Nat /\ Len(elementos) <= Len(elementos') BY <1>1
<1>. QED BY <1>1, <1>2, <1>3 DEF Conserva, MismasFilas

\* The memory of the invariant, whatever its pointers hold.
LEMMA MemoriaSola ==
  ASSUME InvMemoria
  PROVE  \E V : MemoriaDe(memoria, V, {}) /\ Frescas({})
<1>1. PICK V, Q : MemoriaDe(memoria, V, Q) BY DEF InvMemoria
<1>2. Sana(memoria, V, {}) BY <1>1, SanaTareas DEF MemoriaDe
<1>. QED BY <1>1, <1>2 DEF MemoriaDe, Frescas

\* The threads of the invariant are right.
LEMMA HilosSonBuenos ==
  ASSUME InvHilos, caido = "no"
  PROVE  Buenos(hilos) /\ SoloLiberados(hilos)
BY DEF InvHilos, Buenos, SoloLiberados

\* INIT_P and the threads.
LEMMA PatotaConHilosPaso ==
  ASSUME InvMemoria, InvHilos, caido = "no", PrincipalLibre, NEW n \in 1 .. MaxTripulantes,
         NEW tareas \in TamaniosTareas, PatotaConHilos(n, tareas), UNCHANGED mensajes
  PROVE  HilosSiguen /\ SinFielesNuevos
<1>1. PICK a : INIT_P(n, tareas) /\ hilos' = Avisados(hilos, a) BY DEF PatotaConHilos
<1>2. PICK V : MemoriaDe(memoria, V, {}) /\ Frescas({}) BY MemoriaSola
<1>3. \/ \E W : PatotaHecha(V, W, {}, n, tareas)
      \/ UNCHANGED <<memoria, faltan, caido>>
  BY <1>1, <1>2, PatotaPendientes DEF InvMemoria
<1>4. /\ MismasFilas /\ DOMAIN tripulantes' = DOMAIN tripulantes /\ caido' = caido
      /\ Len(elementos') = Len(elementos) \/ Len(elementos') = Len(elementos) + 1
  <2>1. ASSUME NEW W, PatotaHecha(V, W, {}, n, tareas)
        PROVE  /\ MismasFilas /\ DOMAIN tripulantes' = DOMAIN tripulantes /\ caido' = caido
               /\ Len(elementos') = Len(elementos) + 1
    BY <2>1 DEF PatotaHecha, MismasFilas
  <2>2. ASSUME UNCHANGED <<memoria, faltan, caido>>
        PROVE  /\ MismasFilas /\ DOMAIN tripulantes' = DOMAIN tripulantes /\ caido' = caido
               /\ Len(elementos') = Len(elementos)
    BY <2>2, MemoriaEs DEF MismasFilas
  <2>. QED BY <1>3, <2>1, <2>2
<1>5. Conserva BY <1>2, <1>4, ConservaDe
<1>6. NadieVuelve BY <1>4 DEF NadieVuelve, PrincipalLibre
<1>7. SonAvisados(hilos', hilos) BY <1>1, <1>5, <1>6, HilosSonBuenos, AvisadosBien
<1>. QED BY <1>4, <1>7, HilosSonBuenos, AvisadosPaso

\* A thread whose segment was freed is as right as it was.
LEMMA SinSegmentoBien ==
  ASSUME NEW h, NEW q, NEW e, NEW t, BuenHilo(h, q, e, t), q.quien # "principal",
         NEW r, r = SinSegmento(q)
  PROVE  BuenHilo(h, r, e, t) /\ r.quien = q.quien /\ r.corrido = q.corrido
<1>1. q \in HiloTipo BY DEF BuenHilo
<1>2. PICK w : w = IF q.paso \in {"segmento", "copia"} THEN "liberado" ELSE q.paso OBVIOUS
<1>3. PICK hal : hal = {IF fin = "segmento" THEN "liberado" ELSE fin : fin \in q.hallados}
  OBVIOUS
<1>4. r = [q EXCEPT !.paso = w, !.hallados = hal] BY <1>2, <1>3 DEF SinSegmento
<1>5. hal \in SUBSET Hallazgos
  <2>1. q.hallados \subseteq Hallazgos BY <1>1 DEF HiloTipo
  <2>. QED BY <2>1, <1>3 DEF Hallazgos
<1>6. /\ r \in HiloTipo /\ r.paso = w /\ r.quien = q.quien /\ r.accesos = q.accesos
      /\ r.inicio = q.inicio /\ r.movida = q.movida /\ r.corrido = q.corrido
  BY <1>1, <1>2, <1>4, <1>5 DEF HiloTipo
<1>. QED BY <1>2, <1>6 DEF BuenHilo

\* The compaction of SIGUSR2 and the threads: the segment that an expelled thread waits for
\* may be gone.
LEMMA CompactarConHilosPaso ==
  ASSUME InvMemoria, InvHilos, caido = "no", CompactarEntreHilos, UNCHANGED mensajes
  PROVE  HilosSiguen /\ SinFielesNuevos
<1>1. PICK V : MemoriaDe(memoria, V, {}) BY MemoriaSola
<1>2. signal_compactacion BY DEF CompactarEntreHilos
<1>3. MismaForma(memoria', memoria) /\ UNCHANGED caido BY <1>1, <1>2, CompactarPaso
<1>4. /\ MismasFilas /\ DOMAIN tripulantes' = DOMAIN tripulantes
      /\ Len(elementos') = Len(elementos)
  BY <1>3, MemoriaEs DEF MismaForma, MismasFilas
<1>5. Conserva BY <1>1, <1>4, ConservaDe
<1>6. NadieVuelve
  <2>1. ASSUME NEW h \in DOMAIN hilos, hilos[h].quien = "principal" PROVE h \in DOMAIN tripulantes
    BY <2>1, HiloUnico DEF BuenPrincipal
  <2>. QED BY <2>1, <1>4 DEF NadieVuelve
<1>7. PICK hs : hs = [h \in DOMAIN hilos |->
                        IF Expulsado(h) THEN SinSegmento(hilos[h]) ELSE hilos[h]]
  OBVIOUS
<1>8. PICK a : hilos' = Avisados(hs, a) BY <1>7 DEF CompactarEntreHilos
<1>9. ASSUME NEW h \in DOMAIN hilos
      PROVE  /\ BuenHilo(h, hs[h], elementos, tripulantes) /\ hs[h].quien = hilos[h].quien
             /\ hs[h].corrido = hilos[h].corrido
             /\ hs[h].paso = "liberado" => Expulsado(h)
             /\ h \in DOMAIN tripulantes => hs[h] = hilos[h]
  <2>1. PICK q, r : q = hilos[h] /\ r = hs[h] OBVIOUS
  <2>2. /\ BuenHilo(h, q, elementos, tripulantes)
        /\ q.quien = "principal" => BuenPrincipal(h, q, elementos, tripulantes)
    BY <2>1, HiloUnico
  <2>3. CASE Expulsado(h)
    <3>1. r = SinSegmento(q) BY <1>7, <2>1, <2>3
    <3>2. q.quien # "principal" BY <2>2, <2>3 DEF BuenPrincipal, Expulsado
    <3>3. BuenHilo(h, r, elementos, tripulantes) /\ r.quien = q.quien /\ r.corrido = q.corrido
      BY <2>2, <3>1, <3>2, SinSegmentoBien
    <3>. QED BY <2>1, <2>3, <3>3 DEF Expulsado
  <2>4. CASE ~Expulsado(h)
    <3>1. r = q BY <1>7, <2>1, <2>4
    <3>2. q.paso = "liberado" => Expulsado(h) BY <2>1 DEF InvHilos
    <3>. QED BY <2>1, <2>2, <3>1, <3>2
  <2>. QED BY <2>3, <2>4
<1>10. Buenos(hs) /\ SoloLiberados(hs) BY <1>7, <1>9 DEF Buenos, SoloLiberados
<1>11. SonAvisados(hilos', hs) BY <1>5, <1>6, <1>8, <1>10, AvisadosBien
<1>. QED BY <1>3, <1>4, <1>10, <1>11, AvisadosPaso

\* INIT_T and the threads: the new one is the only one that the main loop still fills.
LEMMA TripConHilosPaso ==
  ASSUME InvMemoria, InvHilos, caido = "no", PrincipalLibre, TripulanteConHilos,
         UNCHANGED mensajes
  PROVE  HilosSiguen /\ SinFielesNuevos
<1>1. PICK p, t : p = Len(elementos) /\ t = nro_tripulante OBVIOUS
<1>2. PICK x, as, q, pcb : /\ x = <<p, t>> /\ as = Avisados(hilos, 1)
                           /\ pcb = elementos'[p][PCB] /\ q = Hilo(Llenado, pcb)
  OBVIOUS
<1>3. INIT_T /\ hilos' = Agregado(as, x, q) BY <1>1, <1>2 DEF TripulanteConHilos
<1>4. PICK V : MemoriaDe(memoria, V, {}) /\ Frescas({}) BY MemoriaSola
<1>5. PICK W : TripHecho(V, W, {}, p, t) BY <1>1, <1>3, <1>4, TripPaso DEF InvMemoria
<1>6. /\ MismasFilas /\ Len(elementos') = Len(elementos) /\ caido' = caido
      /\ DOMAIN tripulantes' = DOMAIN tripulantes \union {x} /\ x \notin DOMAIN tripulantes
  BY <1>2, <1>5 DEF TripHecho, MismasFilas
<1>7. \A h \in DOMAIN hilos : h \in DOMAIN tripulantes /\ hilos[h].quien = "hilo"
  BY DEF PrincipalLibre, Expulsado
<1>8. Conserva BY <1>4, <1>6, ConservaDe
<1>9. NadieVuelve BY <1>7 DEF NadieVuelve
<1>10. SonAvisados(as, hilos) BY <1>2, <1>8, <1>9, HilosSonBuenos, AvisadosBien
<1>11. DOMAIN as = DOMAIN hilos /\ x \notin DOMAIN hilos BY <1>6, <1>7, <1>10 DEF SonAvisados
<1>12. /\ DOMAIN hilos' = DOMAIN hilos \union {x} /\ hilos' = [h \in DOMAIN hilos' |-> hilos'[h]]
       /\ hilos'[x] = q /\ \A h \in DOMAIN hilos : hilos'[h] = as[h]
  BY <1>3, <1>11 DEF Agregado
<1>13. pcb \in Direcciones
  <2>1. Sana(memoria', W, {}) BY <1>5 DEF TripHecho, MemoriaDe
  <2>2. elementos' \in Seq(Filas) BY <2>1, LibresTipo, MemoriaEs
  <2>3. p \in 1 .. Len(elementos')
    <3>1. <<p, PCB>> \in DOMAIN V BY <1>5 DEF TripHecho
    <3>2. DOMAIN V \subseteq Claves(elementos) BY <1>4, MemoriaEs DEF MemoriaDe, Sana
    <3>3. p \in 1 .. Len(elementos) BY <3>1, <3>2, ClaveEs
    <3>. QED BY <3>3, <1>6
  <2>4. elementos'[p] \in Filas BY <2>2, <2>3
  <2>5. PICK f : f = elementos'[p] OBVIOUS
  <2>6. f[PCB] \in Lugares BY <2>4, <2>5, FilaTipo
  <2>. QED BY <2>5, <2>6, <1>2 DEF Lugares, Direcciones
<1>14. /\ q \in HiloTipo /\ q.paso = "quieto" /\ q.quien = "principal" /\ q.accesos = Llenado
       /\ q.pcb = pcb
  <2>1. Llenado \in Seq({"tcb", "tareas"}) BY DEF Llenado
  <2>2. 0 \in Direcciones BY MemoriaValida DEF Direcciones
  <2>. QED BY <2>1, <2>2, <1>2, <1>13 DEF Hilo, HiloTipo
<1>15. BuenHilo(x, q, elementos', tripulantes')
  <2>1. Llenado \in Seq({"tcb"}) /\ Llenado # <<>>
    <3>1. Llenado \in Seq({"tcb"}) BY DEF Llenado
    <3>2. DOMAIN Llenado = 1 .. 6 BY DEF Llenado
    <3>3. 1 \in DOMAIN Llenado BY <3>2
    <3>. QED BY <3>1, <3>3
  <2>2. x[1] = p BY <1>2
  <2>3. BuenPrincipal(x, q, elementos', tripulantes')
    BY <2>1, <2>2, <1>2, <1>6, <1>14 DEF BuenPrincipal
  <2>. QED BY <2>3, <1>14 DEF BuenHilo
<1>16. Situado(x, elementos')
  <2>1. Anotados(tripulantes', elementos') BY <1>5, MemoriaEs DEF TripHecho, MemoriaDe, Sana
  <2>2. /\ x = <<x[1], x[2]>> /\ x[1] \in 1 .. Len(elementos') /\ x[2] \in Nat
        /\ x[2] + 1 \in DOMAIN elementos'[x[1]]
    BY <2>1, <1>6 DEF Anotados
  <2>3. x[2] = t BY <1>2
  <2>4. t # 0 BY <1>1 DEF InvMemoria, Pendientes
  <2>. QED BY <2>2, <2>3, <2>4 DEF Situado
<1>17. ASSUME NEW h \in DOMAIN hilos
       PROVE  /\ Situado(h, elementos') /\ BuenHilo(h, hilos'[h], elementos', tripulantes')
              /\ ~Raro(h)' /\ hilos'[h].paso # "liberado"
              /\ hilos[h].corrido => hilos'[h].corrido
              /\ Sigue(h)
  <2>1. /\ Situado(h, elementos') /\ BuenHilo(h, as[h], elementos', tripulantes')
        /\ as[h].paso = hilos[h].paso /\ as[h].quien = hilos[h].quien
        /\ hilos[h].corrido => as[h].corrido
        /\ Avisado(h, as[h], hilos[h])
    BY <1>10 DEF SonAvisados, Avisado
  <2>2. hilos[h].paso # "liberado" BY <1>7 DEF InvHilos, Expulsado
  <2>3. hilos'[h].quien = "hilo" /\ h \in DOMAIN tripulantes' BY <2>1, <1>6, <1>7, <1>12
  <2>4. ~Raro(h)' BY <2>3 DEF Raro, Expulsado
  <2>5. Avisado(h, hilos'[h], hilos[h]) BY <2>1, <1>12
  <2>6. Sigue(h) BY <2>5, <1>7, AvisadoSigue
  <2>. QED BY <2>1, <2>2, <2>4, <2>6, <1>12
<1>18. \A h \in DOMAIN hilos' :
         Situado(h, elementos') /\ BuenHilo(h, hilos'[h], elementos', tripulantes')
  BY <1>12, <1>15, <1>16, <1>17
<1>19. \A f, g \in DOMAIN hilos' : Raro(f)' /\ Raro(g)' => f = g BY <1>12, <1>17
<1>20. \A h \in DOMAIN hilos' : hilos'[h].paso # "liberado" BY <1>12, <1>14, <1>17
<1>21. DOMAIN tripulantes' \subseteq DOMAIN hilos' BY <1>6, <1>12 DEF InvHilos
<1>22. mensajes' \in 0 .. MaxMensajes BY DEF InvHilos
<1>23. InvHilos' BY <1>6, <1>12, <1>18, <1>19, <1>20, <1>21, <1>22 DEF InvHilos
<1>24. FallaExplicada' BY <1>6 DEF FallaExplicada
<1>25. \A h \in DOMAIN hilos' : Sigue(h)
  <2>1. Sigue(x) BY <1>12, <1>14 DEF Sigue
  <2>. QED BY <2>1, <1>12, <1>17
<1>26. SinFielesNuevos
  <2>1. ~Fiel(hilos'[x]) BY <1>12, <1>14 DEF Fiel
  <2>2. ASSUME NEW h \in DOMAIN hilos, Fiel(hilos'[h]) PROVE Fiel(hilos[h])
    BY <2>2, <1>7, <1>17 DEF Fiel
  <2>. QED BY <2>1, <2>2, <1>12 DEF SinFielesNuevos
<1>. QED BY <1>23, <1>24, <1>25, <1>26 DEF HilosSiguen

\* ELIM_T and the threads: the one of the expelled trip is the only one left without a
\* place in the list.
LEMMA ExpulsarConHilosPaso ==
  ASSUME InvMemoria, InvHilos, caido = "no", PrincipalLibre,
         NEW x \in DOMAIN tripulantes, ExpulsarConHilos(x[1], x[2]), UNCHANGED mensajes
  PROVE  HilosSiguen /\ SinFielesNuevos
<1>1. PICK V : MemoriaDe(memoria, V, {}) BY MemoriaSola
<1>2. PICK p, t : p = x[1] /\ t = x[2] OBVIOUS
<1>3. x = <<p, t>> BY <1>1, <1>2, TripsEnTabla
<1>4. PICK hs, a :
        /\ ELIM_T(p, t) /\ hilos' = Avisados(hs, a)
        /\ hs = hilos \/ hs = [hilos EXCEPT ![x] = SinSegmento(@)]
  <2>1. x = <<x[1], x[2]>> BY <1>2, <1>3
  <2>. QED BY <1>2, <1>3, <2>1 DEF ExpulsarConHilos
<1>5. x \in DOMAIN hilos BY DEF InvHilos
<1>6. \A h \in DOMAIN hilos : h \in DOMAIN tripulantes /\ hilos[h].quien = "hilo"
  BY DEF PrincipalLibre, Expulsado
<1>7. /\ UNCHANGED elementos
      /\ \/ caido' = caido /\ DOMAIN tripulantes' = DOMAIN tripulantes \ {x}
         \/ caido' = "iterador" /\ DOMAIN tripulantes' = DOMAIN tripulantes
  <2>1. \/ \E W : TripQuitado(V, W, {}, p, t)
        \/ caido' = "iterador" /\ UNCHANGED memoria
    <3>1. <<p, t>> \in DOMAIN tripulantes BY <1>3
    <3>. QED BY <1>1, <1>4, <3>1, EliminarPaso DEF InvMemoria
  <2>2. UNCHANGED elementos BY <1>4 DEF ELIM_T
  <2>3. ASSUME NEW W, TripQuitado(V, W, {}, p, t)
        PROVE  caido' = caido /\ DOMAIN tripulantes' = DOMAIN tripulantes \ {x}
    BY <2>3, <1>3 DEF TripQuitado, Restrict
  <2>. QED BY <2>1, <2>2, <2>3, MemoriaEs
<1>8. hilos = [g \in DOMAIN hilos |-> hilos[g]] BY DEF InvHilos
<1>9. DOMAIN hs = DOMAIN hilos /\ \A h \in DOMAIN hilos : h # x => hs[h] = hilos[h]
  BY <1>4, <1>8
<1>10. hs[x] = hilos[x] \/ hs[x] = SinSegmento(hilos[x]) BY <1>4, <1>5, <1>8
<1>11. ASSUME NEW h \in DOMAIN hilos
       PROVE  /\ BuenHilo(h, hs[h], elementos, tripulantes) /\ hs[h].quien = hilos[h].quien
              /\ hs[h].corrido = hilos[h].corrido
  <2>1. PICK q, r : q = hilos[h] /\ r = hs[h] OBVIOUS
  <2>2. BuenHilo(h, q, elementos, tripulantes) BY <2>1, HiloUnico
  <2>3. q.quien # "principal" BY <1>6, <2>1
  <2>4. r = q \/ r = SinSegmento(q) BY <1>9, <1>10, <2>1
  <2>5. r = SinSegmento(q) =>
          BuenHilo(h, r, elementos, tripulantes) /\ r.quien = q.quien /\ r.corrido = q.corrido
    BY <2>2, <2>3, SinSegmentoBien
  <2>. QED BY <2>1, <2>2, <2>4, <2>5
<1>12. Buenos(hs) BY <1>9, <1>11 DEF Buenos
<1>13. MismasFilas /\ Len(elementos') = Len(elementos) BY <1>7 DEF MismasFilas
<1>14. Conserva BY <1>1, <1>13, ConservaDe
<1>15. NadieVuelve BY <1>6, <1>7 DEF NadieVuelve
<1>16. SonAvisados(hilos', hs) BY <1>4, <1>12, <1>14, <1>15, AvisadosBien
<1>17. DOMAIN hilos' = DOMAIN hilos /\ hilos' = [h \in DOMAIN hilos' |-> hilos'[h]]
  BY <1>16 DEF SonAvisados
<1>18. ASSUME NEW h \in DOMAIN hilos
       PROVE  /\ Situado(h, elementos') /\ BuenHilo(h, hilos'[h], elementos', tripulantes')
              /\ hilos'[h].quien = "hilo" /\ (hilos[h].corrido => hilos'[h].corrido)
              /\ hilos'[h].paso = "liberado" => h = x
              /\ h # x => Sigue(h)
  <2>1. /\ Situado(h, elementos') /\ BuenHilo(h, hilos'[h], elementos', tripulantes')
        /\ Avisado(h, hilos'[h], hs[h])
    BY <1>16 DEF SonAvisados
  <2>2. /\ hilos'[h].quien = "hilo" /\ (hilos[h].corrido => hilos'[h].corrido)
        /\ hilos'[h].paso = hs[h].paso
    BY <2>1, <1>6, <1>11 DEF Avisado
  <2>3. CASE h # x
    <3>1. hs[h] = hilos[h] BY <2>3, <1>9
    <3>2. hilos[h].paso # "liberado" BY <1>6 DEF InvHilos, Expulsado
    <3>3. Sigue(h) BY <2>1, <3>1, <1>6, AvisadoSigue
    <3>. QED BY <2>1, <2>2, <3>1, <3>2, <3>3
  <2>4. CASE h = x BY <2>1, <2>2, <2>4
  <2>. QED BY <2>3, <2>4
<1>19. ASSUME NEW h \in DOMAIN hilos', h # x PROVE ~Raro(h)'
  <2>1. hilos'[h].quien = "hilo" /\ h \in DOMAIN tripulantes' BY <1>6, <1>7, <1>17, <1>18, <1>19
  <2>. QED BY <2>1 DEF Raro, Expulsado
<1>20. \A f, g \in DOMAIN hilos' : Raro(f)' /\ Raro(g)' => f = g BY <1>19
<1>21. caido' = "no" => \A h \in DOMAIN hilos' : hilos'[h].paso = "liberado" => Expulsado(h)'
  BY <1>7, <1>17, <1>18 DEF Expulsado
<1>22. DOMAIN tripulantes' \subseteq DOMAIN hilos' BY <1>7, <1>17 DEF InvHilos
<1>23. mensajes' \in 0 .. MaxMensajes BY DEF InvHilos
<1>24. InvHilos' BY <1>7, <1>17, <1>18, <1>20, <1>21, <1>22, <1>23 DEF InvHilos
<1>25. FallaExplicada' BY <1>7 DEF FallaExplicada
<1>26. caido' = "no" => \A h \in DOMAIN hilos' : Sigue(h)
  <2>1. ASSUME caido' = "no" PROVE Sigue(x)
    <3>1. x \notin DOMAIN tripulantes' BY <2>1, <1>7
    <3>. QED BY <3>1 DEF Sigue
  <2>. QED BY <2>1, <1>17, <1>18
<1>27. SinFielesNuevos BY <1>6, <1>17, <1>18 DEF SinFielesNuevos, Fiel
<1>. QED BY <1>24, <1>25, <1>26, <1>27 DEF HilosSiguen

\* The thread of the expelled trip is joined.
LEMMA CancelarPaso ==
  ASSUME InvHilos, caido = "no", CancelarExpulsado, UNCHANGED mensajes
  PROVE  HilosSiguen /\ SinFielesNuevos
<1>1. /\ UNCHANGED <<mapa, elementos, tripulantes, nro_tripulante, faltan, caido>>
      /\ \E h \in DOMAIN hilos : Cancelar(h)
  BY DEF CancelarExpulsado
<1>2. PICK x \in DOMAIN hilos : Cancelar(x) BY <1>1
<1>3. Expulsado(x) /\ hilos' = Restrict(hilos, DOMAIN hilos \ {x}) BY <1>2 DEF Cancelar
<1>4. /\ DOMAIN hilos' = DOMAIN hilos \ {x} /\ hilos' = [h \in DOMAIN hilos' |-> hilos'[h]]
      /\ \A h \in DOMAIN hilos' : hilos'[h] = hilos[h]
  BY <1>3 DEF Restrict
<1>5. DOMAIN tripulantes' \subseteq DOMAIN hilos' BY <1>1, <1>3, <1>4 DEF InvHilos, Expulsado
<1>6. \A h \in DOMAIN hilos' : Raro(h)' <=> Raro(h) BY <1>1, <1>4 DEF Raro, Expulsado
<1>7. \A f, g \in DOMAIN hilos' : Raro(f)' /\ Raro(g)' => f = g BY <1>4, <1>6 DEF InvHilos
<1>8. \A h \in DOMAIN hilos' : hilos'[h].paso = "liberado" => Expulsado(h)'
  BY <1>1, <1>4 DEF InvHilos, Expulsado
<1>9. \A h \in DOMAIN hilos' :
        Situado(h, elementos') /\ BuenHilo(h, hilos'[h], elementos', tripulantes')
  BY <1>1, <1>4 DEF InvHilos
<1>10. mensajes' \in 0 .. MaxMensajes BY DEF InvHilos
<1>11. InvHilos' BY <1>1, <1>4, <1>5, <1>7, <1>8, <1>9, <1>10 DEF InvHilos
<1>12. FallaExplicada' BY <1>1 DEF FallaExplicada
<1>13. \A h \in DOMAIN hilos' : Sigue(h) BY <1>1, <1>4 DEF Sigue
<1>14. SinFielesNuevos BY <1>4 DEF SinFielesNuevos
<1>. QED BY <1>11, <1>12, <1>13, <1>14 DEF HilosSiguen

\* The messages, and the accesses, as steps of the memory
LEMMA PasoDeMemoria ==
  ASSUME NextHilos
  PROVE  \/ /\ PrincipalLibre
            /\ \/ \E n \in 1 .. MaxTripulantes, tareas \in TamaniosTareas : INIT_P(n, tareas)
               \/ INIT_T
         \/ \E h \in DOMAIN tripulantes : ELIM_T(h[1], h[2])
         \/ signal_compactacion
         \/ UNCHANGED <<mapa, elementos, tripulantes, nro_tripulante, faltan>>
         \/ \E h \in DOMAIN hilos : Guarda(h)
<1>1. ASSUME NEW h \in DOMAIN hilos, Accesos(h)
      PROVE  \/ UNCHANGED <<mapa, elementos, tripulantes, nro_tripulante, faltan>>
             \/ Guarda(h)
  BY <1>1, AccesoQuieto
<1>2. ASSUME NEW n \in 1 .. MaxTripulantes, NEW tareas \in TamaniosTareas,
             PatotaConHilos(n, tareas)
      PROVE  INIT_P(n, tareas)
  BY <1>2 DEF PatotaConHilos
<1>3. TripulanteConHilos => INIT_T BY DEF TripulanteConHilos
<1>4. ASSUME NEW h \in DOMAIN tripulantes, ExpulsarConHilos(h[1], h[2])
      PROVE  ELIM_T(h[1], h[2])
  BY <1>4 DEF ExpulsarConHilos
<1>5. CompactarEntreHilos => signal_compactacion BY DEF CompactarEntreHilos
<1>6. CancelarExpulsado \/ CompactarEnUnaCopia =>
        UNCHANGED <<mapa, elementos, tripulantes, nro_tripulante, faltan>>
  BY DEF CancelarExpulsado, CompactarEnUnaCopia
<1>. QED BY <1>1, <1>2, <1>3, <1>4, <1>5, <1>6 DEF NextHilos, Principal

\* Every step keeps what is right of the threads.
LEMMA InvHilosPaso ==
  ASSUME InvMemoria, InvHilos, Busquedas, NextHilos
  PROVE  HilosSiguen /\ (SinFielesNuevos \/ \E h \in DOMAIN hilos : Guarda(h))
<1>1. caido = "no" BY DEF NextHilos
<1>2. \/ \E h \in DOMAIN hilos : Accesos(h)
      \/ Principal /\ UNCHANGED mensajes
      \/ (CancelarExpulsado \/ CompactarEntreHilos \/ CompactarEnUnaCopia) /\ UNCHANGED mensajes
  BY DEF NextHilos
<1>3. ASSUME NEW h \in DOMAIN hilos, Accesos(h) PROVE HilosSiguen /\ (Guarda(h) \/ SinFielesNuevos)
  BY <1>1, <1>3, AccesoPaso
<1>4. ASSUME Principal, UNCHANGED mensajes PROVE HilosSiguen /\ SinFielesNuevos
  <2>1. /\ PrincipalLibre
        /\ \/ \E n \in 1 .. MaxTripulantes, tareas \in TamaniosTareas : PatotaConHilos(n, tareas)
           \/ TripulanteConHilos
           \/ \E h \in DOMAIN tripulantes : ExpulsarConHilos(h[1], h[2])
    BY <1>4 DEF Principal
  <2>2. ASSUME NEW n \in 1 .. MaxTripulantes, NEW tareas \in TamaniosTareas,
               PatotaConHilos(n, tareas)
        PROVE  HilosSiguen /\ SinFielesNuevos
    BY <1>1, <1>4, <2>1, <2>2, PatotaConHilosPaso
  <2>3. CASE TripulanteConHilos BY <1>1, <1>4, <2>1, <2>3, TripConHilosPaso
  <2>4. ASSUME NEW h \in DOMAIN tripulantes, ExpulsarConHilos(h[1], h[2])
        PROVE  HilosSiguen /\ SinFielesNuevos
    BY <1>1, <1>4, <2>1, <2>4, ExpulsarConHilosPaso
  <2>. QED BY <2>1, <2>2, <2>3, <2>4
<1>5. ASSUME UNCHANGED mensajes, CancelarExpulsado PROVE HilosSiguen /\ SinFielesNuevos
  BY <1>1, <1>5, CancelarPaso
<1>6. ASSUME UNCHANGED mensajes, CompactarEntreHilos PROVE HilosSiguen /\ SinFielesNuevos
  BY <1>1, <1>6, CompactarConHilosPaso
<1>7. ASSUME UNCHANGED mensajes, CompactarEnUnaCopia PROVE HilosSiguen /\ SinFielesNuevos
  <2>1. caido' = "trabado" /\ UNCHANGED <<mapa, elementos, tripulantes, hilos>>
    BY <1>7 DEF CompactarEnUnaCopia, Caer
  <2>2. FallaExplicada' BY <2>1 DEF FallaExplicada
  <2>. QED BY <1>7, <2>1, <2>2, CaidaPaso
<1>. QED BY <1>2, <1>3, <1>4, <1>5, <1>6, <1>7

\* The main loop takes a message when it has filled the last trip: no pointer of a patota or
\* a trip to come is taken for right.
LEMMA FielesFrescos ==
  ASSUME NEW V, NEW Q, MemoriaDe(memoria, V, Q), Q = Fieles, Pendientes, PrincipalLibre
  PROVE  Frescas(Q)
<1>1. ASSUME NEW v \in Q
      PROVE  \/ \E p \in 1 .. Len(elementos) : v = <<p, PCB>>
             \/ \E h \in DOMAIN tripulantes : v = <<h[1], h[2] + 1>>
  <2>1. DOMAIN hilos \subseteq DOMAIN tripulantes BY DEF PrincipalLibre, Expulsado
  <2>. QED BY <2>1, <1>1 DEF Fieles
<1>2. /\ Len(elementos) \in Nat
      /\ \A h \in DOMAIN tripulantes : h[1] \in 1 .. Len(elementos) /\ h[2] \in Nat
  BY TripsEnTabla
<1>3. ASSUME NEW k, <<Len(elementos) + 1, k>> \in Q PROVE FALSE
  <2>1. PICK v : v = <<Len(elementos) + 1, k>> OBVIOUS
  <2>2. v \in Q /\ v[1] = Len(elementos) + 1 BY <2>1, <1>3
  <2>3. v[1] \in 1 .. Len(elementos) BY <1>1, <1>2, <2>2
  <2>. QED BY <2>2, <2>3, <1>2
<1>4. ASSUME faltan > 0, <<Len(elementos), nro_tripulante + 1>> \in Q PROVE FALSE
  <2>1. PICK v : v = <<Len(elementos), nro_tripulante + 1>> OBVIOUS
  <2>2. v \in Q /\ v[1] = Len(elementos) /\ v[2] = nro_tripulante + 1 BY <2>1, <1>4
  <2>3. /\ nro_tripulante \in Nat \ {0}
        /\ \A h \in DOMAIN tripulantes : h[1] = Len(elementos) => h[2] < nro_tripulante
    BY <1>4 DEF Pendientes
  <2>4. v[2] # PCB BY <2>2, <2>3 DEF PCB
  <2>5. PICK h \in DOMAIN tripulantes : v = <<h[1], h[2] + 1>> BY <1>1, <2>2, <2>4
  <2>6. h[1] = Len(elementos) /\ h[2] + 1 = nro_tripulante + 1 BY <2>2, <2>5
  <2>. QED BY <2>3, <2>6, <1>2
<1>. QED BY <1>3, <1>4 DEF Frescas

\* The copy of the pointer to the control block changes nothing else.
LEMMA GuardarPaso ==
  ASSUME NEW V, NEW Q, MemoriaDe(memoria, V, Q), InvHilos, NEW h \in DOMAIN hilos, Guarda(h),
         NEW P, Escrito(P, Q, elementos, h[1], h[2] + 1, hilos[h].pcb)
  PROVE  MemoriaDe(memoria', V, P) /\ LibresDe(memoria') = LibresDe(memoria)
<1>1. PICK d, k, val : d = h[1] /\ k = h[2] + 1 /\ val = hilos[h].pcb OBVIOUS
<1>2. hilos[h].quien = "principal" BY DEF Guarda, GuardaPcb
<1>3. h \in DOMAIN tripulantes BY <1>2, HiloUnico DEF BuenPrincipal
<1>4. val \in Lugares BY <1>1, HiloUnico DEF HiloTipo, Direcciones, Lugares
<1>5. PICK s, e, ini : s = mapa /\ e = elementos /\ ini = elementos[d][k] OBVIOUS
<1>6. PICK r : r = Apuntar(s, ini, val) OBVIOUS
<1>7. /\ mapa' = r /\ UNCHANGED <<elementos, tripulantes>>
  BY <1>1, <1>5, <1>6 DEF Guarda, Copiar, Accesos
<1>8. /\ Coherente(s, e, V, Q) /\ DOMAIN V = Vivas(elementos, tripulantes) /\ Tabla(elementos)
      /\ DOMAIN V \subseteq Claves(elementos) /\ Anotados(tripulantes, elementos)
  BY <1>5, MemoriaEs DEF MemoriaDe, Sana
<1>9. <<d, k>> \in DOMAIN V BY <1>1, <1>3, <1>8 DEF Vivas
<1>10. Escrito(P, Q, e, d, k, val) /\ ini = e[d][k] BY <1>1, <1>5
<1>11. Coherente(r, e, V, P) /\ BytesLibres(r, Len(r)) = BytesLibres(s, Len(s))
  BY <1>4, <1>6, <1>8, <1>9, <1>10, ApuntarBien
<1>12. memoria' = [mapa |-> memoria'.mapa, elementos |-> memoria'.elementos,
                   tripulantes |-> memoria'.tripulantes]
  BY DEF memoria
<1>13. Sana(memoria', V, P)
  <2>1. Coherente(memoria'.mapa, memoria'.elementos, V, P)
    BY <1>5, <1>7, <1>11, MemoriaEs
  <2>2. /\ Tabla(memoria'.elementos) /\ DOMAIN V \subseteq Claves(memoria'.elementos)
        /\ Anotados(memoria'.tripulantes, memoria'.elementos)
    BY <1>7, <1>8, MemoriaEs
  <2>. QED BY <2>1, <2>2, <1>12 DEF Sana
<1>14. DOMAIN V = Vivas(memoria'.elementos, memoria'.tripulantes) BY <1>7, <1>8, MemoriaEs
<1>15. LibresDe(memoria') = LibresDe(memoria) BY <1>5, <1>7, <1>11, MemoriaEs DEF LibresDe
<1>. QED BY <1>13, <1>14, <1>15 DEF MemoriaDe

\* What the copy writes leads to the control block, unless a compaction moved it meanwhile.
LEMMA GuardaEscrito ==
  ASSUME InvHilos, NEW h \in DOMAIN hilos, Guarda(h)
  PROVE  Escrito(Fieles', Fieles, elementos, h[1], h[2] + 1, hilos[h].pcb)
<1>1. PICK d, k, val : d = h[1] /\ k = h[2] + 1 /\ val = hilos[h].pcb OBVIOUS
<1>2. hilos[h].quien = "principal" BY DEF Guarda, GuardaPcb
<1>3. ~hilos[h].corrido => val = elementos[d][PCB] BY <1>1, <1>2, HiloUnico DEF BuenPrincipal
<1>4. h = <<h[1], h[2]>> /\ h[2] \in Nat \ {0} BY HiloUnico DEF Situado
<1>5. \A g \in DOMAIN hilos : g = <<g[1], g[2]>> /\ g[2] \in Nat BY DEF InvHilos, Situado
<1>6. UNCHANGED elementos BY DEF Guarda, Accesos
<1>7. PICK u, v, w :
        hilos' = [hilos EXCEPT ![h].quien = u, ![h].accesos = w, ![h].paso = "quieto",
                               ![h].inicio = 0, ![h].pcb = v, ![h].movida = FALSE]
  BY DEF Guarda, Copiar, Hecho
<1>8. hilos = [g \in DOMAIN hilos |-> hilos[g]] /\ hilos[h] \in HiloTipo BY HiloUnico
<1>9. /\ DOMAIN hilos' = DOMAIN hilos
      /\ \A g \in DOMAIN hilos : g # h => hilos'[g] = hilos[g]
  BY <1>7, <1>8
<1>10. hilos'[h].corrido = hilos[h].corrido
  <2>1. PICK q : q = hilos[h] OBVIOUS
  <2>2. hilos'[h] = [q EXCEPT !.quien = u, !.accesos = w, !.paso = "quieto", !.inicio = 0,
                              !.pcb = v, !.movida = FALSE]
    BY <2>1, <1>7, <1>8
  <2>. QED BY <2>1, <2>2, <1>8 DEF HiloTipo
<1>11. ASSUME NEW x \in Fieles' PROVE x \in Fieles \/ x = <<d, k>>
  <2>1. CASE \E p \in 1 .. Len(elementos') : x = <<p, PCB>> BY <2>1, <1>6 DEF Fieles
  <2>2. CASE \E g \in DOMAIN hilos' : Fiel(hilos'[g]) /\ x = <<g[1], g[2] + 1>>
    <3>1. PICK g \in DOMAIN hilos' : Fiel(hilos'[g]) /\ x = <<g[1], g[2] + 1>> BY <2>2
    <3>2. CASE g = h BY <3>1, <3>2, <1>1
    <3>3. CASE g # h
      <4>1. g \in DOMAIN hilos /\ Fiel(hilos[g]) BY <3>1, <3>3, <1>9
      <4>. QED BY <4>1, <3>1 DEF Fieles
    <3>. QED BY <3>2, <3>3
  <2>. QED BY <2>1, <2>2 DEF Fieles
<1>12. ASSUME <<d, k>> \in Fieles' PROVE Lleva(elementos, d, k, val)
  <2>1. k # PCB /\ k # TAREAS BY <1>1, <1>4 DEF PCB, TAREAS
  <2>2. PICK x : x = <<d, k>> OBVIOUS
  <2>3. x[1] = d /\ x[2] = k BY <2>2
  <2>4. ~\E p \in 1 .. Len(elementos') : x = <<p, PCB>> BY <2>1, <2>3
  <2>5. PICK g \in DOMAIN hilos' : Fiel(hilos'[g]) /\ x = <<g[1], g[2] + 1>>
    BY <1>12, <2>2, <2>4 DEF Fieles
  <2>6. g[1] = h[1] /\ g[2] + 1 = h[2] + 1 BY <2>3, <2>5, <1>1
  <2>7. g \in DOMAIN hilos /\ g[2] \in Nat BY <1>5, <1>9
  <2>8. g[2] = h[2] BY <2>6, <2>7, <1>4
  <2>9. g = h BY <2>6, <2>7, <2>8, <1>4, <1>5
  <2>10. ~hilos[h].corrido BY <2>5, <2>9, <1>10 DEF Fiel
  <2>. QED BY <2>1, <2>10, <1>3 DEF Lleva, Destino
<1>. QED BY <1>1, <1>11, <1>12 DEF Escrito

\* The memory stays in order, with the pointers that have to be right.
LEMMA InvMemoriaPaso ==
  ASSUME InvMemoria, InvHilos, NextHilos,
         SinFielesNuevos \/ \E h \in DOMAIN hilos : Guarda(h)
  PROVE  InvMemoria'
<1>1. PICK V, Q : Q = Fieles /\ MemoriaDe(memoria, V, Q) BY DEF InvMemoria
<1>2. Pendientes BY DEF InvMemoria
<1>3. ASSUME NEW h \in DOMAIN hilos, Guarda(h) PROVE InvMemoria'
  <2>1. PICK P : P = Fieles' OBVIOUS
  <2>2. Escrito(P, Q, elementos, h[1], h[2] + 1, hilos[h].pcb) BY <1>1, <1>3, <2>1, GuardaEscrito
  <2>3. MemoriaDe(memoria', V, P) /\ LibresDe(memoria') = LibresDe(memoria)
    BY <1>1, <1>3, <2>2, GuardarPaso
  <2>4. UNCHANGED <<elementos, tripulantes, nro_tripulante, faltan>>
    BY <1>3 DEF Guarda, Accesos
  <2>5. Pendientes' BY <2>3, <2>4, <1>2 DEF Pendientes
  <2>. QED BY <2>1, <2>3, <2>5 DEF InvMemoria
<1>4. ASSUME SinFielesNuevos, ~\E h \in DOMAIN hilos : Guarda(h) PROVE InvMemoria'
  <2>1. PrincipalLibre => Frescas(Q) BY <1>1, <1>2, FielesFrescos
  <2>2. \/ /\ Frescas(Q)
           /\ \/ \E n \in 1 .. MaxTripulantes, tareas \in TamaniosTareas : INIT_P(n, tareas)
              \/ INIT_T
        \/ \E h \in DOMAIN tripulantes : ELIM_T(h[1], h[2])
        \/ signal_compactacion
        \/ UNCHANGED <<mapa, elementos, tripulantes, nro_tripulante, faltan>>
    BY <2>1, <1>4, PasoDeMemoria
  <2>3. MemoriaQueda(Q) BY <2>2, <1>1, <1>2, MensajePaso
  <2>4. Pendientes' BY <2>3 DEF MemoriaQueda
  <2>5. PICK P : P = Fieles' OBVIOUS
  <2>6. Len(elementos) \in Nat BY <1>1, TripsEnTabla
  <2>7. ASSUME NEW x \in P
        PROVE  \/ x \in Q
               \/ /\ Len(elementos') = Len(elementos) + 1
                  /\ x = <<Len(elementos) + 1, PCB>>
    <3>1. CASE \E p \in 1 .. Len(elementos') : x = <<p, PCB>>
      <4>1. PICK p \in 1 .. Len(elementos') : x = <<p, PCB>> BY <3>1
      <4>2. Len(elementos') = Len(elementos) \/ Len(elementos') = Len(elementos) + 1
        BY <2>3 DEF MemoriaQueda
      <4>3. p \in 1 .. Len(elementos)
              \/ (Len(elementos') = Len(elementos) + 1 /\ p = Len(elementos) + 1)
        BY <4>2, <2>6
      <4>. QED BY <4>1, <4>3, <1>1 DEF Fieles
    <3>2. CASE \E g \in DOMAIN hilos' : Fiel(hilos'[g]) /\ x = <<g[1], g[2] + 1>>
      <4>1. \E g \in DOMAIN hilos : Fiel(hilos[g]) /\ x = <<g[1], g[2] + 1>>
        BY <3>2, <1>4 DEF SinFielesNuevos
      <4>. QED BY <4>1, <1>1 DEF Fieles
    <3>. QED BY <3>1, <3>2, <2>5, <2>7 DEF Fieles
  <2>8. ASSUME NEW W, MemoriaDe(memoria', W, Q), Len(elementos') = Len(elementos)
        PROVE  MemoriaDe(memoria', W, P)
    <3>1. \A x \in P : x \in Q BY <2>7, <2>8, <2>6
    <3>2. PICK m : m = memoria' OBVIOUS
    <3>3. Sana(m, W, Q) BY <2>8, <3>2 DEF MemoriaDe
    <3>4. Sana(m, W, P) BY <3>1, <3>3, SanaTareas
    <3>. QED BY <2>8, <3>2, <3>4 DEF MemoriaDe
  <2>9. ASSUME NEW W, MemoriaDe(memoria', W, Con(Q, <<Len(elementos) + 1, PCB>>))
        PROVE  MemoriaDe(memoria', W, P)
    <3>1. PICK C : C = Con(Q, <<Len(elementos) + 1, PCB>>) OBVIOUS
    <3>2. \A x \in P : x \in C BY <2>7, <3>1 DEF Con
    <3>3. PICK m : m = memoria' OBVIOUS
    <3>4. Sana(m, W, C) BY <2>9, <3>1, <3>3 DEF MemoriaDe
    <3>5. Sana(m, W, P) BY <3>2, <3>4, SanaTareas
    <3>. QED BY <2>9, <3>3, <3>5 DEF MemoriaDe
  <2>10. \E W : MemoriaDe(memoria', W, P) BY <2>3, <2>8, <2>9 DEF MemoriaQueda
  <2>. QED BY <2>4, <2>5, <2>10 DEF InvMemoria
<1>. QED BY <1>3, <1>4

\* Every walk of a live trip comes to its segment, if nothing moved, or to a freed link.
LEMMA BusquedasPaso ==
  ASSUME InvMemoria', InvHilos', Busquedas, caido = "no", HilosSiguen
  PROVE  Busquedas'
<1>1. ASSUME caido' = "no", NEW h \in DOMAIN hilos', hilos'[h].paso = "busca",
             h \in DOMAIN tripulantes'
      PROVE  Busqueda(h, hilos'[h], tripulantes')
  <2>1. Sigue(h) BY <1>1 DEF HilosSiguen
  <2>2. PICK r, s, e, t : r = hilos'[h] /\ s = mapa' /\ e = elementos' /\ t = tripulantes'
    OBVIOUS
  <2>3. PICK f : f = Hallado(h, s, t) OBVIOUS
  <2>4. /\ h \in DOMAIN hilos /\ h \in DOMAIN tripulantes /\ r.inicio = hilos[h].inicio
        /\ (hilos[h].movida => r.movida)
        /\ \A fin \in r.hallados : \/ hilos[h].paso = "busca" /\ fin \in hilos[h].hallados
                                   \/ fin = "enlace" \/ fin = f
    BY <1>1, <2>1, <2>2, <2>3 DEF Sigue
  <2>5. hilos[h].paso = "busca" => Busqueda(h, hilos[h], tripulantes) BY <2>4 DEF Busquedas
  <2>6. f \in {"segmento", "nulo", "ajeno"} BY <2>3, HalladoTipo
  <2>7. "liberado" \notin r.hallados BY <2>4, <2>5, <2>6 DEF Busqueda
  <2>8. ASSUME ~r.movida PROVE f = "segmento"
    <3>1. PICK V, Q : MemoriaDe(memoria', V, Q) BY DEF InvMemoria
    <3>2. Coherente(s, e, V, Q) /\ DOMAIN V = Vivas(e, t)
      BY <3>1, <2>2, MemoriaEs DEF MemoriaDe, Sana
    <3>3. <<h[1], h[2] + 1>> \in DOMAIN V BY <3>2, <1>1, <2>2 DEF Vivas
    <3>4. BuenHilo(h, r, e, t) BY <1>1, <2>2 DEF InvHilos
    <3>5. r.inicio = e[h[1]][h[2] + 1] BY <3>4, <2>2, <2>8, <1>1 DEF BuenHilo
    <3>6. hilos[h].inicio = e[h[1]][h[2] + 1] BY <3>5, <2>4
    <3>. QED BY <3>2, <3>3, <3>6, <2>3, HallaSuyo
  <2>9. "nulo" \in r.hallados \/ "ajeno" \in r.hallados => r.movida
    BY <2>4, <2>5, <2>8 DEF Busqueda
  <2>. QED BY <2>2, <2>7, <2>9 DEF Busqueda
<1>2. ASSUME NEW h \in DOMAIN hilos', h \notin DOMAIN tripulantes'
      PROVE  Busqueda(h, hilos'[h], tripulantes')
  BY <1>2 DEF Busqueda
<1>. QED BY <1>1, <1>2 DEF Busquedas

\* The invariant holds at the start.
LEMMA InvarianteInicio ==
  ASSUME InitHilos
  PROVE  Invariante
<1>1. Init /\ hilos = <<>> /\ mensajes = 0 BY DEF InitHilos
<1>2. InvMemoria
  <2>1. PICK Q : Q = Fieles OBVIOUS
  <2>2. MemoriaDe(memoria, <<>>, Q) /\ Pendientes BY <1>1, InicioMemoria
  <2>. QED BY <2>1, <2>2 DEF InvMemoria
<1>3. tripulantes = <<>> /\ caido = "no" BY <1>1 DEF Init
<1>4. DOMAIN hilos = {} /\ DOMAIN tripulantes = {} BY <1>1, <1>3
<1>5. hilos = [h \in DOMAIN hilos |-> hilos[h]] BY <1>1
<1>6. mensajes \in 0 .. MaxMensajes BY <1>1, MensajesValidos
<1>7. InvHilos BY <1>3, <1>4, <1>5, <1>6 DEF InvHilos
<1>8. FallaExplicada BY <1>3 DEF FallaExplicada
<1>9. Busquedas BY <1>4 DEF Busquedas
<1>. QED BY <1>2, <1>7, <1>8, <1>9 DEF Invariante

\* And every step keeps it.
LEMMA InvariantePaso ==
  ASSUME Invariante, [NextHilos]_varsHilos
  PROVE  Invariante'
<1>1. InvMemoria /\ InvHilos /\ Busquedas /\ FallaExplicada BY DEF Invariante
<1>2. CASE NextHilos
  <2>1. HilosSiguen /\ (SinFielesNuevos \/ \E h \in DOMAIN hilos : Guarda(h))
    BY <1>1, <1>2, InvHilosPaso
  <2>2. InvMemoria' BY <1>1, <1>2, <2>1, InvMemoriaPaso
  <2>3. InvHilos' /\ FallaExplicada' BY <2>1 DEF HilosSiguen
  <2>4. caido = "no" BY <1>2 DEF NextHilos
  <2>5. Busquedas' BY <1>1, <2>1, <2>2, <2>3, <2>4, BusquedasPaso
  <2>. QED BY <2>2, <2>3, <2>5 DEF Invariante
<1>3. CASE UNCHANGED varsHilos
  <2>1. UNCHANGED <<mapa, elementos, tripulantes, nro_tripulante, faltan, caido, hilos, mensajes>>
    BY <1>3 DEF varsHilos, vars
  <2>2. InvMemoria'
    <3>1. UNCHANGED memoria BY <2>1 DEF memoria
    <3>2. Fieles' = Fieles BY <2>1 DEF Fieles
    <3>3. PICK V, Q : Q = Fieles /\ MemoriaDe(memoria, V, Q) BY <1>1 DEF InvMemoria
    <3>4. MemoriaDe(memoria', V, Fieles') BY <3>1, <3>2, <3>3
    <3>5. Pendientes' BY <1>1, <2>1, <3>1 DEF InvMemoria, Pendientes
    <3>. QED BY <3>4, <3>5 DEF InvMemoria
  <2>3. \A h \in DOMAIN hilos : Raro(h)' <=> Raro(h) BY <2>1 DEF Raro, Expulsado
  <2>4. \A h \in DOMAIN hilos : Expulsado(h)' <=> Expulsado(h) BY <2>1 DEF Expulsado
  <2>5. InvHilos'
    <3>1. /\ hilos' = [h \in DOMAIN hilos' |-> hilos'[h]]
          /\ DOMAIN tripulantes' \subseteq DOMAIN hilos'
          /\ mensajes' \in 0 .. MaxMensajes
          /\ caido' \in {"no", "iterador", "sin_lugar", "nulo", "ajeno", "enlace",
                         "tarea_movida", "liberado", "trabado"}
      BY <1>1, <2>1 DEF InvHilos
    <3>2. \A h \in DOMAIN hilos' :
            Situado(h, elementos') /\ BuenHilo(h, hilos'[h], elementos', tripulantes')
      BY <1>1, <2>1 DEF InvHilos
    <3>3. \A h, g \in DOMAIN hilos' : Raro(h)' /\ Raro(g)' => h = g
      BY <1>1, <2>1, <2>3 DEF InvHilos
    <3>4. caido' = "no" =>
            \A h \in DOMAIN hilos' : hilos'[h].paso = "liberado" => Expulsado(h)'
      BY <1>1, <2>1, <2>4 DEF InvHilos
    <3>. QED BY <3>1, <3>2, <3>3, <3>4 DEF InvHilos
  <2>6. FallaExplicada' BY <1>1, <2>1 DEF FallaExplicada, Expulsado
  <2>7. Busquedas' BY <1>1, <2>1 DEF Busquedas
  <2>. QED BY <2>2, <2>5, <2>6, <2>7 DEF Invariante
<1>. QED BY <1>2, <1>3

\* The inductive invariant holds in every reachable state, for any sizes of memory, of
\* control block, of tasks and of trip, any number of patotas and trips, and any number of
\* messages.
THEOREM InvarianteSiempre == SpecHilos => []Invariante
<1>1. InitHilos => Invariante BY InvarianteInicio
<1>2. Invariante /\ [NextHilos]_varsHilos => Invariante' BY InvariantePaso
<1>. QED BY <1>1, <1>2, PTL DEF SpecHilos

\* The threads have their types, and one at most is being created or expelled.
LEMMA HilosTipados ==
  ASSUME Invariante
  PROVE  TypeOKHilos
<1>1. InvMemoria /\ InvHilos BY DEF Invariante
<1>2. MemoriaTipada BY <1>1, TipadaVale
<1>3. ASSUME NEW h \in DOMAIN hilos
      PROVE  /\ hilos[h].quien \in {"principal", "hilo"}
             /\ hilos[h].paso \in {"quieto", "direccion", "busca", "segmento", "copia",
                                   "tareas", "liberado"}
             /\ hilos[h].inicio \in Direcciones /\ hilos[h].pcb \in Direcciones
             /\ hilos[h].movida \in BOOLEAN /\ hilos[h].corrido \in BOOLEAN
             /\ hilos[h].hallados \subseteq {"segmento", "liberado", "nulo", "ajeno", "enlace"}
             /\ hilos[h].paso # "quieto" => hilos[h].accesos # <<>>
  <2>1. PICK q : q = hilos[h] OBVIOUS
  <2>2. q \in HiloTipo /\ BuenHilo(h, q, elementos, tripulantes) BY <1>1, <2>1, HiloUnico
  <2>3. q.paso # "quieto" => q.accesos # <<>> BY <2>2 DEF BuenHilo
  <2>. QED BY <2>1, <2>2, <2>3 DEF HiloTipo, Hallazgos
<1>4. Cardinality({h \in DOMAIN hilos : Expulsado(h) \/ hilos[h].quien = "principal"}) <= 1
  <2>1. PICK T : T = {h \in DOMAIN hilos : Expulsado(h) \/ hilos[h].quien = "principal"} OBVIOUS
  <2>2. \A h \in T : h \in DOMAIN hilos /\ Raro(h) BY <2>1 DEF Raro
  <2>3. \A f, g \in T : f = g BY <2>2, <1>1 DEF InvHilos
  <2>4. CASE T = {}
    <3>1. Cardinality(T) = 0 BY <2>4, FS_EmptySet
    <3>. QED BY <2>1, <3>1
  <2>5. CASE T # {}
    <3>1. PICK x \in T : TRUE BY <2>5
    <3>2. T = {x} BY <2>3, <3>1
    <3>3. Cardinality(T) = 1 BY <3>2, FS_Singleton
    <3>. QED BY <2>1, <3>3
  <2>. QED BY <2>4, <2>5
<1>. QED BY <1>1, <1>2, <1>3, <1>4 DEF TypeOKHilos, InvHilos

-----------------------------------------------------------------------------
(* No segment moves while a thread copies *)

\* While a thread copies, no step moves its segment: the messages that compact wait.
LEMMA CopiaQuieta ==
  ASSUME Invariante, NextHilos, NEW h \in Copian
  PROVE  elementos'[h[1]][h[2] + 1] = elementos[h[1]][h[2] + 1]
<1>1. InvMemoria /\ InvHilos /\ Pendientes BY DEF Invariante, InvMemoria
<1>2. PICK V : MemoriaDe(memoria, V, {}) /\ Frescas({}) BY <1>1, MemoriaSola
<1>3. h \in DOMAIN hilos /\ ~EsperarSegmentos BY DEF Copian, EsperarSegmentos
<1>4. h = <<h[1], h[2]>> /\ h[1] \in 1 .. Len(elementos) /\ h[2] \in Nat
  BY <1>1, <1>3 DEF InvHilos, Situado
<1>5. ASSUME NEW n \in 1 .. MaxTripulantes, NEW tareas \in TamaniosTareas,
             PatotaConHilos(n, tareas)
      PROVE  elementos'[h[1]] = elementos[h[1]]
  <2>1. INIT_P(n, tareas) /\ (Cabe(n, tareas) => PatotaEspera(tareas))
    BY <1>5 DEF PatotaConHilos
  <2>2. CASE RechazarPatota(n, tareas) BY <2>2 DEF RechazarPatota
  <2>3. CASE AceptarPatota(n, tareas)
    <3>1. Cabe(n, tareas) BY <2>3 DEF AceptarPatota
    <3>2. PatotaEspera(tareas) BY <2>1, <3>1
    <3>3. /\ SinCompactar(memoria, TAMANIO_PATOTA)
          /\ SinCompactar(crear_segmento(memoria, TAMANIO_PATOTA, Len(elementos) + 1, PCB),
                          tareas)
      BY <3>2, <1>3 DEF PatotaEspera
    <3>4. PatotaQuieta BY <1>2, <2>3, <3>3, AceptarPaso
    <3>. QED BY <3>4, <1>4 DEF PatotaQuieta
  <2>. QED BY <2>1, <2>2, <2>3 DEF INIT_P
<1>6. ASSUME PrincipalLibre, TripulanteConHilos
      PROVE  elementos'[h[1]][h[2] + 1] = elementos[h[1]][h[2] + 1]
  <2>1. INIT_T /\ SinCompactar(memoria, TAMANIO_TRIPULANTE)
    BY <1>3, <1>6 DEF TripulanteConHilos
  <2>2. PICK p, t : p = Len(elementos) /\ t = nro_tripulante OBVIOUS
  <2>3. TripQuieto(p, t) /\ \E W : TripHecho(V, W, {}, p, t)
    BY <1>1, <1>2, <2>1, <2>2, TripPaso
  <2>4. <<p, t>> \notin DOMAIN tripulantes BY <2>3 DEF TripHecho
  <2>5. h # <<p, t>> BY <2>4, <1>3, <1>6 DEF PrincipalLibre, Expulsado
  <2>6. t \in Nat BY <1>1, <2>2 DEF Pendientes
  <2>7. <<h[1], h[2] + 1>> # <<p, t + 1>> BY <2>5, <2>6, <1>4
  <2>. QED BY <2>3, <2>7, <1>4 DEF TripQuieto
<1>7. ASSUME NEW g \in DOMAIN tripulantes, ExpulsarConHilos(g[1], g[2])
      PROVE  UNCHANGED elementos
  BY <1>7 DEF ExpulsarConHilos, ELIM_T
<1>8. ASSUME NEW g \in DOMAIN hilos, Accesos(g) PROVE UNCHANGED elementos
  BY <1>8, AccesoQuieto
<1>9. CASE CancelarExpulsado \/ CompactarEnUnaCopia
  BY <1>9 DEF CancelarExpulsado, CompactarEnUnaCopia
<1>10. ~CompactarEntreHilos BY <1>3 DEF CompactarEntreHilos
<1>. QED BY <1>5, <1>6, <1>7, <1>8, <1>9, <1>10 DEF NextHilos, Principal

\* No segment moves while the thread of a trip copies into it or out of it: the compactions
\* of crear_segmento and of SIGUSR2 take the mutex of every segment first (segmentos.c).
THEOREM CopiaEstableSiempre == SpecHilos => CopiaEstable
<1>1. ASSUME Invariante, [NextHilos]_varsHilos
      PROVE  [\A h \in Copian \cap DOMAIN hilos' :
                hilos'[h].paso = "copia" => elementos'[h[1]][h[2] + 1] = elementos[h[1]][h[2] + 1]
             ]_varsHilos
  BY <1>1, CopiaQuieta
<1>. QED BY <1>1, InvarianteSiempre, PTL DEF SpecHilos, CopiaEstable

\* The types of the memory and the threads, and one thread at most that is being created or
\* expelled.
THEOREM TipoSiempre == SpecHilos => []TypeOKHilos
<1>1. Invariante => TypeOKHilos BY HilosTipados
<1>. QED BY <1>1, InvarianteSiempre, PTL

\* The segments tile the memory after any splits, merges and compactions, numbered in their
\* order and with no two free ones together (crear_segmento, eliminar_segmento,
\* realizar_compactacion).
THEOREM TeseladoSiempre == SpecHilos => []Teselado
<1>1. Invariante => Teselado BY TeseladoVale DEF Invariante
<1>. QED BY <1>1, InvarianteSiempre, PTL

\* Every live element has one segment, at the address of inicio_elementos and of
\* lista_tripulantes, and no segment belongs to anything else.
THEOREM UbicadosSiempre == SpecHilos => []ElementosUbicados
<1>1. Invariante => ElementosUbicados BY UbicadosVale DEF Invariante
<1>. QED BY <1>1, InvarianteSiempre, PTL

\* The pointers stored in the memory lead from a control block to its tasks, and from a trip
\* to its control block once its thread exists, after every compaction from then on; only a
\* trip whose control block moved while iniciar_tripulante filled it may hold another
\* (tripulante.c:26 reads what line 41 stores).
THEOREM PunterosSiempre == SpecHilos => []PunterosVeraces
<1>1. Invariante => PunterosVeraces BY PunterosVale DEF Invariante, InvHilos
<1>. QED BY <1>1, InvarianteSiempre, PTL

\* When a thread finds no segment or another's, or a task that moved, a compaction moved
\* something after it read the address; when it uses a freed segment its trip is being
\* expelled; and the only other thing that can fall is a walk that stands on a link that an
\* edit of the list freed (segmentos.c:67-73, 121, 139 take no mutex).
THEOREM FallaSiempre == SpecHilos => []FallaExplicada
<1>1. Invariante => FallaExplicada BY DEF Invariante
<1>. QED BY <1>1, InvarianteSiempre, PTL

-----------------------------------------------------------------------------
(* The memory implements the allocator *)

\* the live elements, as the refinement sees them
Vivos == [e \in {ElementoDe(i) : i \in Ocupados} |->
            mapa[CHOOSE i \in Ocupados : ElementoDe(i) = e].tamanio]

\* the same of any list
OcupadosDe(s) == {i \in DOMAIN s : Ocupado(s[i])}
ElementoEn(s, i) == <<s[i].duenio, s[i].indice>>
VivosDe(s) == [e \in {ElementoEn(s, i) : i \in OcupadosDe(s)} |->
                 s[CHOOSE i \in OcupadosDe(s) : ElementoEn(s, i) = e].tamanio]

\* They are the ones that the list holds.
LEMMA VivosDeEs ==
  ASSUME NEW s, NEW f, NEW V, NEW Q, Coherente(s, f, V, Q)
  PROVE  VivosDe(s) = V
<1>1. V = [v \in DOMAIN V |-> V[v]] BY DEF Coherente
<1>2. s \in Seq(Seg) /\ DOMAIN s = 1 .. Len(s) BY DEF Coherente, Ordenado, Casi
<1>3. Unicas(s) BY LlavesUnicas
<1>4. ASSUME NEW v \in DOMAIN V
      PROVE  \E i \in OcupadosDe(s) : ElementoEn(s, i) = v /\ s[i].tamanio = V[v]
  <2>1. PICK d, k : v = <<d, k>>
    <3>1. PICK x \in Contenido(s) : Llave(x) = v BY DEF Coherente
    <3>. QED BY <3>1 DEF Llave
  <2>2. PICK i \in 1 .. Len(s) :
          /\ Ocupado(s[i]) /\ s[i].duenio = d /\ s[i].indice = k
          /\ s[i].tamanio = V[<<d, k>>]
    BY <2>1, SegmentoVivo
  <2>. QED BY <2>1, <2>2, <1>2 DEF OcupadosDe, ElementoEn
<1>5. ASSUME NEW i \in OcupadosDe(s) PROVE ElementoEn(s, i) \in DOMAIN V
  <2>1. i \in 1 .. Len(s) /\ Ocupado(s[i]) BY <1>2 DEF OcupadosDe
  <2>2. Ubicada(Cosa(s[i]), f, V, Q) BY <2>1, ContenidoTiene DEF Coherente
  <2>3. Llave(Cosa(s[i])) = ElementoEn(s, i) BY <2>1, ContenidoTiene DEF Llave, ElementoEn
  <2>. QED BY <2>2, <2>3 DEF Ubicada
<1>6. ASSUME NEW i \in OcupadosDe(s), NEW j \in OcupadosDe(s),
             ElementoEn(s, i) = ElementoEn(s, j)
      PROVE  i = j
  <2>1. i \in 1 .. Len(s) /\ Ocupado(s[i]) /\ j \in 1 .. Len(s) /\ Ocupado(s[j])
    BY <1>2 DEF OcupadosDe
  <2>2. s[i].duenio = s[j].duenio /\ s[i].indice = s[j].indice BY <1>6 DEF ElementoEn
  <2>. QED BY <2>1, <2>2, <1>3 DEF Unicas
<1>7. {ElementoEn(s, i) : i \in OcupadosDe(s)} = DOMAIN V BY <1>4, <1>5
<1>8. ASSUME NEW v \in DOMAIN V
      PROVE  s[CHOOSE i \in OcupadosDe(s) : ElementoEn(s, i) = v].tamanio = V[v]
  <2>1. PICK i \in OcupadosDe(s) : ElementoEn(s, i) = v /\ s[i].tamanio = V[v] BY <1>4
  <2>2. PICK c : c = CHOOSE j \in OcupadosDe(s) : ElementoEn(s, j) = v OBVIOUS
  <2>3. c \in OcupadosDe(s) /\ ElementoEn(s, c) = v BY <2>1, <2>2
  <2>4. c = i BY <2>1, <2>3, <1>6
  <2>. QED BY <2>1, <2>2, <2>4
<1>. QED BY <1>1, <1>7, <1>8 DEF VivosDe

\* what the allocator sees of the memory, and of the next one
LEMMA VistaDe ==
  ASSUME NEW V, NEW Q, MemoriaDe(memoria, V, Q)
  PROVE  MemoriaLibre = LibresDe(memoria) /\ Vivos = V
<1>2. Sana(memoria, V, Q) /\ Coherente(mapa, elementos, V, Q)
  BY MemoriaEs DEF MemoriaDe, Sana
<1>3. VivosDe(mapa) = V BY <1>2, VivosDeEs
<1>4. Vivos = VivosDe(mapa)
  BY DEF Vivos, VivosDe, Ocupados, OcupadosDe, ElementoDe, ElementoEn
<1>. QED BY <1>2, <1>3, <1>4, MemoriaLibreEs

\* The same after a step.
LEMMA VistaPrimaDe ==
  ASSUME NEW W, NEW Q, MemoriaDe(memoria', W, Q)
  PROVE  MemoriaLibre' = LibresDe(memoria') /\ Vivos' = W
<1>2. Sana(memoria', W, Q) /\ Coherente(mapa', elementos', W, Q)
  BY MemoriaEs DEF MemoriaDe, Sana
<1>3. VivosDe(mapa') = W BY <1>2, VivosDeEs
<1>4. Vivos' = VivosDe(mapa')
  BY DEF Vivos, VivosDe, Ocupados, OcupadosDe, ElementoDe, ElementoEn
<1>5. mapa' \in Seq(Seg) BY <1>2 DEF Coherente, Ordenado, Casi
<1>6. {i \in DOMAIN mapa' : EsLibre(mapa'[i])} = {i \in 1 .. Len(mapa') : EsLibre(mapa'[i])}
  BY <1>5
<1>7. MemoriaLibre' = LibresDe(memoria')
  BY <1>6, MemoriaEs DEF MemoriaLibre, LibresDe, BytesLibres
<1>. QED BY <1>3, <1>4, <1>7

\* one step of the allocator, with its variables named
PasoAceptar(l, v, f, m, w, g, p, n, tareas) ==
  /\ f = 0 /\ (\A e \in DOMAIN v : e[1] # p)
  /\ TAMANIO_PATOTA + tareas + n * TAMANIO_TRIPULANTE <= l
  /\ m = l - TAMANIO_PATOTA - tareas
  /\ w = Agregado(Agregado(v, <<p, PCB>>, TAMANIO_PATOTA), <<p, TAREAS>>, tareas)
  /\ g = n

\* An accepted patota is a step of the allocator.
LEMMA AceptarImplementa ==
  ASSUME NEW p \in 1 .. MaxPatotas, NEW n \in 1 .. MaxTripulantes, NEW tareas \in TamaniosTareas,
         PasoAceptar(MemoriaLibre, Vivos, faltan, MemoriaLibre', Vivos', faltan', p, n, tareas)
  PROVE  Asignador!ANext
<1>1. Asignador!AceptarPatota(p, n, tareas)
  BY DEF PasoAceptar, Vivos, Agregado, PCB, TAREAS, Asignador!AceptarPatota, Asignador!Agregar
<1>. QED BY <1>1 DEF Asignador!ANext

\* the step of a new trip
PasoAgregar(l, v, f, m, w, g, p, t) ==
  /\ f > 0 /\ TAMANIO_TRIPULANTE <= l
  /\ <<p, PCB>> \in DOMAIN v /\ <<p, t + 1>> \notin DOMAIN v
  /\ m = l - TAMANIO_TRIPULANTE
  /\ w = Agregado(v, <<p, t + 1>>, TAMANIO_TRIPULANTE)
  /\ g = f - 1

\* A new trip is a step of the allocator.
LEMMA AgregarImplementa ==
  ASSUME NEW p \in 1 .. MaxPatotas, NEW t \in 1 .. MaxTripulantes,
         PasoAgregar(MemoriaLibre, Vivos, faltan, MemoriaLibre', Vivos', faltan', p, t)
  PROVE  Asignador!ANext
<1>1. Asignador!AgregarTripulante(p, t)
  BY DEF PasoAgregar, Vivos, Agregado, PCB, Asignador!AgregarTripulante, Asignador!Agregar
<1>. QED BY <1>1 DEF Asignador!ANext

\* the step of an expelled trip
PasoQuitar(l, v, f, m, w, g, p, t) ==
  /\ <<p, t + 1>> \in DOMAIN v
  /\ m = l + v[<<p, t + 1>>]
  /\ w = Menos(v, <<p, t + 1>>)
  /\ g = f

\* An expelled trip is a step of the allocator.
LEMMA QuitarImplementa ==
  ASSUME NEW p \in 1 .. MaxPatotas, NEW t \in 1 .. MaxTripulantes,
         PasoQuitar(MemoriaLibre, Vivos, faltan, MemoriaLibre', Vivos', faltan', p, t)
  PROVE  Asignador!ANext
<1>1. Asignador!QuitarTripulante(p, t)
  BY DEF PasoQuitar, Vivos, Menos, Asignador!QuitarTripulante, Asignador!Restrict
<1>. QED BY <1>1 DEF Asignador!ANext

\* INIT_P accepts as the allocator does, or changes nothing.
LEMMA PatotaImplementa ==
  ASSUME Invariante, NEW n \in 1 .. MaxTripulantes, NEW tareas \in TamaniosTareas,
         INIT_P(n, tareas)
  PROVE  Asignador!ANext \/ UNCHANGED <<MemoriaLibre, Vivos, faltan>>
<1>1. InvMemoria /\ Pendientes BY DEF Invariante, InvMemoria
<1>2. PICK V : MemoriaDe(memoria, V, {}) /\ Frescas({}) BY <1>1, MemoriaSola
<1>3. MemoriaLibre = LibresDe(memoria) /\ Vivos = V BY <1>2, VistaDe
<1>4. CASE RechazarPatota(n, tareas)
  <2>1. UNCHANGED <<mapa, elementos, tripulantes, faltan>> BY <1>4 DEF RechazarPatota
  <2>. QED BY <2>1 DEF MemoriaLibre, Vivos, Ocupados, ElementoDe
<1>5. CASE AceptarPatota(n, tareas)
  <2>1. PICK W : PatotaHecha(V, W, {}, n, tareas) BY <1>2, <1>5, AceptarPaso
  <2>2. PICK p, P : p = Len(elementos) + 1 /\ P = Con({}, <<p, PCB>>) OBVIOUS
  <2>3. /\ MemoriaDe(memoria', W, P)
        /\ W = Agregado(Agregado(V, <<p, PCB>>, TAMANIO_PATOTA), <<p, TAREAS>>, tareas)
        /\ LibresDe(memoria') + TAMANIO_PATOTA + tareas = LibresDe(memoria)
        /\ faltan' = n
        /\ \A v \in DOMAIN V : v[1] # p
    BY <2>1, <2>2 DEF PatotaHecha
  <2>4. MemoriaLibre' = LibresDe(memoria') /\ Vivos' = W BY <2>3, VistaPrimaDe
  <2>5. faltan = 0 /\ Len(elementos) < MaxPatotas BY DEF INIT_P
  <2>6. p \in 1 .. MaxPatotas
    <3>1. Len(elementos) \in Nat BY <1>2, TripsEnTabla
    <3>. QED BY <3>1, <2>2, <2>5, MemoriaValida
  <2>7. LibresDe(memoria) \in Nat /\ LibresDe(memoria') \in Nat
    <3>2. Sana(memoria', W, P) BY <2>3 DEF MemoriaDe
    <3>. QED BY <3>2, <1>2, TripsEnTabla, LibresTipo
  <2>8. LibresDe(memoria') = LibresDe(memoria) - TAMANIO_PATOTA - tareas
    BY <2>3, <2>7, MemoriaValida
  <2>9. TAMANIO_PATOTA + tareas + n * TAMANIO_TRIPULANTE <= MemoriaLibre
    BY <1>5 DEF AceptarPatota, Cabe
  <2>10. PasoAceptar(MemoriaLibre, Vivos, faltan, MemoriaLibre', Vivos', faltan', p, n, tareas)
    BY <1>3, <2>3, <2>4, <2>5, <2>8, <2>9 DEF PasoAceptar
  <2>. QED BY <2>6, <2>10, AceptarImplementa
<1>. QED BY <1>4, <1>5 DEF INIT_P

\* INIT_T gives the trip its bytes.
LEMMA TripImplementa ==
  ASSUME Invariante, INIT_T
  PROVE  Asignador!ANext
<1>1. InvMemoria /\ Pendientes BY DEF Invariante, InvMemoria
<1>2. PICK V : MemoriaDe(memoria, V, {}) /\ Frescas({}) BY <1>1, MemoriaSola
<1>3. MemoriaLibre = LibresDe(memoria) /\ Vivos = V BY <1>2, VistaDe
<1>4. PICK p, t : p = Len(elementos) /\ t = nro_tripulante OBVIOUS
<1>5. PICK W : TripHecho(V, W, {}, p, t) BY <1>1, <1>2, <1>4, TripPaso
<1>6. /\ MemoriaDe(memoria', W, {})
      /\ W = Agregado(V, <<p, t + 1>>, TAMANIO_TRIPULANTE)
      /\ LibresDe(memoria') + TAMANIO_TRIPULANTE = LibresDe(memoria)
      /\ faltan > 0 /\ faltan' = faltan - 1
      /\ <<p, PCB>> \in DOMAIN V /\ <<p, t + 1>> \notin DOMAIN V
      /\ p \in 1 .. MaxPatotas /\ t \in 1 .. MaxTripulantes
  BY <1>5 DEF TripHecho
<1>7. MemoriaLibre' = LibresDe(memoria') /\ Vivos' = W BY <1>6, VistaPrimaDe
<1>8. LibresDe(memoria) \in Nat /\ LibresDe(memoria') \in Nat
  <2>2. Sana(memoria', W, {}) BY <1>6 DEF MemoriaDe
  <2>. QED BY <2>2, <1>2, TripsEnTabla, LibresTipo
<1>9. /\ TAMANIO_TRIPULANTE <= LibresDe(memoria)
      /\ LibresDe(memoria') = LibresDe(memoria) - TAMANIO_TRIPULANTE
  BY <1>6, <1>8, MemoriaValida
<1>10. PasoAgregar(MemoriaLibre, Vivos, faltan, MemoriaLibre', Vivos', faltan', p, t)
  BY <1>3, <1>6, <1>7, <1>9 DEF PasoAgregar
<1>. QED BY <1>6, <1>10, AgregarImplementa

\* ELIM_T takes them back, or dies and changes nothing.
LEMMA QuitarTripImplementa ==
  ASSUME Invariante, NEW h \in DOMAIN tripulantes, ELIM_T(h[1], h[2])
  PROVE  Asignador!ANext \/ UNCHANGED <<MemoriaLibre, Vivos, faltan>>
<1>1. InvMemoria /\ Pendientes BY DEF Invariante, InvMemoria
<1>2. PICK V : MemoriaDe(memoria, V, {}) /\ Frescas({}) BY <1>1, MemoriaSola
<1>3. MemoriaLibre = LibresDe(memoria) /\ Vivos = V BY <1>2, VistaDe
<1>4. PICK p, t : p = h[1] /\ t = h[2] OBVIOUS
<1>5. <<p, t>> \in DOMAIN tripulantes /\ ELIM_T(p, t) BY <1>2, <1>4, TripsEnTabla
<1>6. UNCHANGED faltan BY <1>5 DEF ELIM_T
<1>7. \/ \E W : TripQuitado(V, W, {}, p, t)
      \/ UNCHANGED memoria
  BY <1>1, <1>2, <1>5, EliminarPaso
<1>8. ASSUME UNCHANGED memoria PROVE UNCHANGED <<MemoriaLibre, Vivos, faltan>>
  <2>1. UNCHANGED mapa BY <1>8, MemoriaEs
  <2>. QED BY <2>1, <1>6 DEF MemoriaLibre, Vivos, Ocupados, ElementoDe
<1>9. ASSUME NEW W, TripQuitado(V, W, {}, p, t) PROVE Asignador!ANext
  <2>1. /\ MemoriaDe(memoria', W, {})
        /\ <<p, t + 1>> \in DOMAIN V /\ W = Menos(V, <<p, t + 1>>)
        /\ LibresDe(memoria') = LibresDe(memoria) + V[<<p, t + 1>>]
    BY <1>9 DEF TripQuitado
  <2>2. MemoriaLibre' = LibresDe(memoria') /\ Vivos' = W BY <2>1, VistaPrimaDe
  <2>3. p \in 1 .. MaxPatotas /\ t \in 1 .. MaxTripulantes
    <3>1. MemoriaTipada BY <1>1, TipadaVale
    <3>2. DOMAIN tripulantes \subseteq (DOMAIN elementos) \X (1 .. MaxTripulantes)
      BY <3>1 DEF MemoriaTipada
    <3>3. <<p, t>> \in (DOMAIN elementos) \X (1 .. MaxTripulantes) BY <3>2, <1>5
    <3>4. p \in DOMAIN elementos /\ t \in 1 .. MaxTripulantes BY <3>3
    <3>5. DOMAIN elementos = 1 .. Len(elementos) /\ Len(elementos) \in Nat
      BY <1>2, TripsEnTabla
    <3>6. Len(elementos) <= MaxPatotas BY <1>1 DEF Pendientes
    <3>. QED BY <3>4, <3>5, <3>6, MemoriaValida
  <2>4. PasoQuitar(MemoriaLibre, Vivos, faltan, MemoriaLibre', Vivos', faltan', p, t)
    BY <1>3, <1>6, <2>1, <2>2 DEF PasoQuitar
  <2>. QED BY <2>3, <2>4, QuitarImplementa
<1>. QED BY <1>7, <1>8, <1>9

\* The allocator does not see a compaction.
LEMMA CompactarImplementa ==
  ASSUME Invariante, signal_compactacion
  PROVE  UNCHANGED <<MemoriaLibre, Vivos, faltan>>
<1>1. PICK V, Q : MemoriaDe(memoria, V, Q) BY DEF Invariante, InvMemoria
<1>2. /\ MemoriaDe(memoria', V, Q) /\ LibresDe(memoria') = LibresDe(memoria)
      /\ UNCHANGED faltan
  BY <1>1, CompactarPaso
<1>3. MemoriaLibre = LibresDe(memoria) /\ Vivos = V BY <1>1, VistaDe
<1>4. MemoriaLibre' = LibresDe(memoria') /\ Vivos' = V BY <1>2, VistaPrimaDe
<1>. QED BY <1>2, <1>3, <1>4

\* Nor the copy of a pointer.
LEMMA GuardarImplementa ==
  ASSUME Invariante, NEW h \in DOMAIN hilos, Guarda(h)
  PROVE  UNCHANGED <<MemoriaLibre, Vivos, faltan>>
<1>1. InvMemoria /\ InvHilos BY DEF Invariante
<1>2. PICK V, Q : MemoriaDe(memoria, V, Q) /\ Q = {} BY <1>1, MemoriaSola
<1>3. Escrito(Q, Q, elementos, h[1], h[2] + 1, hilos[h].pcb) BY <1>2 DEF Escrito
<1>4. MemoriaDe(memoria', V, Q) /\ LibresDe(memoria') = LibresDe(memoria)
  BY <1>1, <1>2, <1>3, GuardarPaso
<1>5. UNCHANGED faltan BY DEF Guarda, Accesos
<1>6. MemoriaLibre = LibresDe(memoria) /\ Vivos = V BY <1>2, VistaDe
<1>7. MemoriaLibre' = LibresDe(memoria') /\ Vivos' = V BY <1>4, VistaPrimaDe
<1>. QED BY <1>4, <1>5, <1>6, <1>7

\* Every step of the memory and its threads is a step of the allocator or none.
LEMMA PasoImplementa ==
  ASSUME Invariante, [NextHilos]_varsHilos
  PROVE  Asignador!ANext \/ UNCHANGED <<MemoriaLibre, Vivos, faltan>>
<1>1. ASSUME UNCHANGED <<mapa, elementos, tripulantes, nro_tripulante, faltan>>
      PROVE  UNCHANGED <<MemoriaLibre, Vivos, faltan>>
  BY <1>1 DEF MemoriaLibre, Vivos, Ocupados, ElementoDe
<1>2. CASE UNCHANGED varsHilos
  <2>1. UNCHANGED <<mapa, elementos, tripulantes, nro_tripulante, faltan>>
    BY <1>2 DEF varsHilos, vars
  <2>. QED BY <2>1, <1>1
<1>3. CASE NextHilos
  <2>1. ASSUME NEW n \in 1 .. MaxTripulantes, NEW tareas \in TamaniosTareas, INIT_P(n, tareas)
        PROVE  Asignador!ANext \/ UNCHANGED <<MemoriaLibre, Vivos, faltan>>
    BY <2>1, PatotaImplementa
  <2>2. ASSUME INIT_T PROVE Asignador!ANext BY <2>2, TripImplementa
  <2>3. ASSUME NEW h \in DOMAIN tripulantes, ELIM_T(h[1], h[2])
        PROVE  Asignador!ANext \/ UNCHANGED <<MemoriaLibre, Vivos, faltan>>
    BY <2>3, QuitarTripImplementa
  <2>4. ASSUME signal_compactacion PROVE UNCHANGED <<MemoriaLibre, Vivos, faltan>>
    BY <2>4, CompactarImplementa
  <2>5. ASSUME NEW h \in DOMAIN hilos, Guarda(h) PROVE UNCHANGED <<MemoriaLibre, Vivos, faltan>>
    BY <2>5, GuardarImplementa
  <2>. QED BY <1>1, <1>3, <2>1, <2>2, <2>3, <2>4, <2>5, PasoDeMemoria
<1>. QED BY <1>2, <1>3

\* The initial memory is the initial allocator.
LEMMA InicioImplementa ==
  ASSUME InitHilos
  PROVE  Asignador!AInit
<1>1. Init BY DEF InitHilos
<1>2. PICK V : V = <<>> OBVIOUS
<1>3. PICK Q : MemoriaDe(memoria, V, Q) BY <1>1, <1>2, InicioMemoria
<1>4. LibresDe(memoria) = TAMANIO_MEMORIA BY <1>1, InicioMemoria
<1>6. MemoriaLibre = TAMANIO_MEMORIA /\ Vivos = <<>> BY <1>2, <1>3, <1>4, VistaDe
<1>5. faltan = 0 BY <1>1 DEF Init
<1>. QED BY <1>5, <1>6 DEF Asignador!AInit, Vivos

\* The segmented memory with its threads implements the allocator: a patota is accepted when
\* its bytes are free together, and then each trip gets its own, however scattered they are
\* (iniciar_patota, iniciar_tripulante, eliminar_tripulante, realizar_compactacion).
THEOREM AsignadorImplementado == SpecHilos => ImplementaAsignador
<1>1. InitHilos => Asignador!AInit BY InicioImplementa
<1>2. Invariante /\ [NextHilos]_varsHilos
        => [Asignador!ANext]_<<MemoriaLibre, Vivos, faltan>>
  BY PasoImplementa
<1>. QED BY <1>1, <1>2, InvarianteSiempre, PTL
     DEF SpecHilos, ImplementaAsignador, Asignador!ASpec, Vivos
=============================================================================
