--------------------------- MODULE PaginasPruebas ---------------------------
(***************************************************************************)
(* Proofs about the paged memory, for any sizes of the memory, of a page   *)
(* and of the swap file, and any numbers of patotas, trips and messages.   *)
(*                                                                         *)
(* A message is a sequence of accesses that is built by joining others:    *)
(* Junta says of each of its elements which of the joined ones it comes    *)
(* from.  Tipos is the type invariant, with what the accesses are of;      *)
(* Nuevos says which trips have no thread yet, Retenciones who holds each  *)
(* semaphore and each frame, Contenidos where what was written in each     *)
(* page is.  Together they are inductive (Invariante).  Alcanza adds that  *)
(* the pages INIT_P reserved for the trips to come are still free.         *)
(***************************************************************************)
EXTENDS Paginas, FiniteSetTheorems, SequenceTheorems, WellFoundedInduction, TLAPS

-----------------------------------------------------------------------------
(* Induction over the naturals, for a set *)

\* A set of naturals has a smallest element.
LEMMA MenorDeNat ==
  ASSUME NEW T \in SUBSET Nat, T # {}
  PROVE  \E x \in T : \A y \in T : x <= y
<1>. DEFINE R == OpToRel(<, Nat)
<1>1. IsWellFoundedOn(R, Nat) BY NatLessThanWellFounded
<1>2. \E x \in T : \A y \in T : ~(<<y, x>> \in R)
  <2>. HIDE DEF R
  <2>. QED BY <1>1, WFMin
<1>3. PICK x \in T : \A y \in T : ~(<<y, x>> \in R) BY <1>2
<1>4. ASSUME NEW y \in T PROVE x <= y
  <2>1. ~(y < x) BY <1>3 DEF OpToRel
  <2>. QED BY <2>1
<1>. QED BY <1>4

\* Induction over the naturals, for a set: the sums and the lists that the model builds
\* recursively are followed place by place with it.
LEMMA InduccionNat ==
  ASSUME NEW S, 0 \in S, \A n \in Nat : n \in S => n + 1 \in S
  PROVE  \A n \in Nat : n \in S
<1>. DEFINE T == {n \in Nat : n \notin S}
<1>1. SUFFICES ASSUME T # {} PROVE FALSE OBVIOUS
<1>2. PICK x \in T : \A y \in T : x <= y
  <2>1. T \in SUBSET Nat OBVIOUS
  <2>. HIDE DEF T
  <2>. QED BY <1>1, <2>1, MenorDeNat
<1>3. x \in Nat /\ x # 0 /\ x - 1 \in Nat OBVIOUS
<1>4. x - 1 \in S BY <1>2, <1>3
<1>5. (x - 1) + 1 \in S BY <1>3, <1>4
<1>. QED BY <1>3, <1>5

-----------------------------------------------------------------------------
(* Joining sequences *)

\* f is the join of the first k sequences of x, with the sequence b and the place o in it
\* that each of its elements comes from
Junta(S, x, k, f, b, o) ==
  /\ f \in Seq(S)
  /\ b \in [1 .. Len(f) -> 1 .. k] /\ o \in [1 .. Len(f) -> Nat]
  /\ \A j \in 1 .. Len(f) : o[j] \in 1 .. Len(x[b[j]]) /\ f[j] = x[b[j]][o[j]]
  /\ \A i, j \in 1 .. Len(f) : i < j => b[i] < b[j] \/ (b[i] = b[j] /\ o[i] < o[j])
  /\ \A i \in 1 .. k : \A l \in 1 .. Len(x[i]) : \E j \in 1 .. Len(f) : b[j] = i /\ o[j] = l

\* One sequence more is joined at the end.
LEMMA JuntaMas ==
  ASSUME NEW S, NEW n \in Nat, NEW x \in [1 .. n -> Seq(S)], NEW k \in Nat, k + 1 <= n,
         NEW f, NEW b, NEW o, Junta(S, x, k, f, b, o)
  PROVE  \E c, q : Junta(S, x, k + 1, f \o x[k + 1], c, q)
<1>. DEFINE y == x[k + 1]
            g == f \o y
            l == Len(f)
            c == [j \in 1 .. l + Len(y) |-> IF j <= l THEN b[j] ELSE k + 1]
            q == [j \in 1 .. l + Len(y) |-> IF j <= l THEN o[j] ELSE j - l]
<1>1. y \in Seq(S) /\ k + 1 \in 1 .. n OBVIOUS
<1>2. f \in Seq(S) /\ l \in Nat /\ Len(y) \in Nat BY <1>1 DEF Junta
<1>3. /\ g \in Seq(S) /\ Len(g) = l + Len(y)
      /\ \A j \in 1 .. l + Len(y) : g[j] = IF j <= l THEN f[j] ELSE y[j - l]
  BY <1>1, <1>2, ConcatProperties
<1>4. /\ b \in [1 .. l -> 1 .. k] /\ o \in [1 .. l -> Nat]
      /\ \A j \in 1 .. l : o[j] \in 1 .. Len(x[b[j]]) /\ f[j] = x[b[j]][o[j]]
      /\ \A i, j \in 1 .. l : i < j => b[i] < b[j] \/ (b[i] = b[j] /\ o[i] < o[j])
      /\ \A i \in 1 .. k : \A m \in 1 .. Len(x[i]) : \E j \in 1 .. l : b[j] = i /\ o[j] = m
  BY DEF Junta
<1>. HIDE DEF y, g, l
<1>5. c \in [1 .. Len(g) -> 1 .. k + 1] /\ q \in [1 .. Len(g) -> Nat] BY <1>2, <1>3, <1>4
<1>6. ASSUME NEW j \in 1 .. Len(g) PROVE q[j] \in 1 .. Len(x[c[j]]) /\ g[j] = x[c[j]][q[j]]
  <2>1. CASE j <= l
    <3>1. j \in 1 .. l /\ c[j] = b[j] /\ q[j] = o[j] /\ g[j] = f[j] BY <1>2, <1>3, <2>1
    <3>. HIDE DEF c, q
    <3>. QED BY <1>4, <3>1
  <2>2. CASE ~(j <= l)
    <3>1. c[j] = k + 1 /\ q[j] = j - l /\ g[j] = y[j - l] /\ j - l \in 1 .. Len(y)
      BY <1>2, <1>3, <2>2
    <3>. HIDE DEF c, q
    <3>. QED BY <3>1 DEF y
  <2>. QED BY <2>1, <2>2
<1>7. ASSUME NEW i \in 1 .. Len(g), NEW j \in 1 .. Len(g), i < j
      PROVE  c[i] < c[j] \/ (c[i] = c[j] /\ q[i] < q[j])
  <2>1. CASE j <= l
    <3>1. i \in 1 .. l /\ j \in 1 .. l /\ c[i] = b[i] /\ q[i] = o[i] /\ c[j] = b[j] /\ q[j] = o[j]
      BY <1>2, <1>3, <1>7, <2>1
    <3>. HIDE DEF c, q
    <3>. QED BY <1>4, <1>7, <3>1
  <2>2. CASE i <= l /\ ~(j <= l)
    <3>1. c[i] = b[i] /\ c[j] = k + 1 /\ i \in 1 .. l BY <1>2, <1>3, <2>2
    <3>2. b[i] \in 1 .. k BY <1>4, <3>1
    <3>. QED BY <3>1, <3>2
  <2>3. CASE ~(i <= l) /\ ~(j <= l) BY <1>2, <1>3, <1>7, <2>3
  <2>. QED BY <1>2, <1>7, <2>1, <2>2, <2>3
<1>8. ASSUME NEW i \in 1 .. k + 1, NEW m \in 1 .. Len(x[i])
      PROVE  \E j \in 1 .. Len(g) : c[j] = i /\ q[j] = m
  <2>1. CASE i = k + 1
    <3>1. m \in 1 .. Len(y) BY <2>1 DEF y
    <3>2. l + m \in 1 .. Len(g) /\ ~(l + m <= l) BY <1>2, <1>3, <3>1
    <3>3. c[l + m] = k + 1 /\ q[l + m] = m BY <1>2, <1>3, <3>1, <3>2
    <3>. QED BY <2>1, <3>2, <3>3
  <2>2. CASE i # k + 1
    <3>1. i \in 1 .. k BY <2>2
    <3>2. PICK j \in 1 .. l : b[j] = i /\ o[j] = m BY <1>4, <3>1
    <3>3. j \in 1 .. Len(g) /\ c[j] = i /\ q[j] = m BY <1>2, <1>3, <3>2
    <3>. QED BY <3>3
  <2>. QED BY <2>1, <2>2
<1>9. Junta(S, x, k + 1, g, c, q)
  <2>. HIDE DEF c, q
  <2>. QED BY <1>3, <1>5, <1>6, <1>7, <1>8 DEF Junta
<1>. QED BY <1>9 DEF g, y

\* FlattenSeq joins the sequences of x in their order.
LEMMA Aplanar ==
  ASSUME NEW S, NEW n \in Nat, NEW x \in [1 .. n -> Seq(S)]
  PROVE  \E b, o : Junta(S, x, n, FlattenSeq(x), b, o)
<1>1. Len(x) = n /\ x \in Seq(Seq(S)) BY IsASeq
<1>2. CASE n = 0
  <2>1. FlattenSeq(x) = x BY <1>1, <1>2 DEF FlattenSeq
  <2>2. x = << >> BY <1>1, <1>2
  <2>3. PICK e : e = [j \in 1 .. 0 |-> 0] OBVIOUS
  <2>4. e \in [1 .. Len(<< >>) -> 1 .. 0] /\ e \in [1 .. Len(<< >>) -> Nat] BY <2>3
  <2>5. Junta(S, x, 0, << >>, e, e) BY <2>4 DEF Junta
  <2>. QED BY <1>2, <2>1, <2>2, <2>5
<1>3. CASE n # 0
  <2>. DEFINE G(g) == g = [i \in 1 .. n |-> IF i = 1 THEN x[i] ELSE g[i - 1] \o x[i]]
              P(k, g) == /\ g \in [1 .. k -> Seq(S)]
                         /\ \A i \in 1 .. k : g[i] = IF i = 1 THEN x[i] ELSE g[i - 1] \o x[i]
              I == {k \in Nat : k \in 1 .. n => \E g : P(k, g)}
  <2>1. FlattenSeq(x) = (CHOOSE g : G(g))[n] BY <1>1, <1>3 DEF FlattenSeq
  <2>2. \E g : G(g)
    <3>1. 0 \in I OBVIOUS
    <3>2. ASSUME NEW k \in Nat, k \in I PROVE k + 1 \in I
      <4>1. SUFFICES ASSUME k + 1 \in 1 .. n PROVE \E g : P(k + 1, g) OBVIOUS
      <4>2. CASE k = 0
        <5>1. PICK g : g = [i \in 1 .. 1 |-> x[1]] OBVIOUS
        <5>2. g \in [1 .. k + 1 -> Seq(S)] BY <4>1, <4>2, <5>1
        <5>3. P(k + 1, g) BY <4>2, <5>1, <5>2
        <5>. QED BY <5>3
      <4>3. CASE k # 0
        <5>0. PICK f : P(k, f)
          <6>. HIDE DEF P
          <6>. QED BY <3>2, <4>1, <4>3
        <5>1. /\ f \in [1 .. k -> Seq(S)]
              /\ \A i \in 1 .. k : f[i] = IF i = 1 THEN x[i] ELSE f[i - 1] \o x[i]
          BY <5>0
        <5>2. PICK g : g = [i \in 1 .. k + 1 |-> IF i <= k THEN f[i] ELSE f[k] \o x[k + 1]]
          OBVIOUS
        <5>3. f[k] \o x[k + 1] \in Seq(S) BY <4>1, <4>3, <5>1
        <5>4. g \in [1 .. k + 1 -> Seq(S)] BY <5>1, <5>2, <5>3
        <5>5. ASSUME NEW i \in 1 .. k + 1
              PROVE  g[i] = IF i = 1 THEN x[i] ELSE g[i - 1] \o x[i]
          <6>1. CASE i <= k
            <7>1. i \in 1 .. k /\ g[i] = f[i] BY <5>2, <6>1
            <7>2. i # 1 => g[i - 1] = f[i - 1] BY <5>2, <6>1
            <7>. QED BY <5>1, <7>1, <7>2
          <6>2. CASE i = k + 1
            <7>1. g[k + 1] = f[k] \o x[k + 1]
              <8>1. k + 1 \in 1 .. k + 1 /\ ~(k + 1 <= k) OBVIOUS
              <8>2. PICK y : y = f[k] \o x[k + 1] OBVIOUS
              <8>. QED BY <5>2, <8>1, <8>2
            <7>2. g[k] = f[k] BY <4>3, <5>2
            <7>3. i - 1 = k /\ i # 1 BY <4>3, <6>2
            <7>. QED BY <6>2, <7>1, <7>2, <7>3
          <6>. QED BY <6>1, <6>2
        <5>6. P(k + 1, g) BY <5>4, <5>5
        <5>. QED BY <5>6
      <4>. QED BY <4>2, <4>3
    <3>3. n \in I
      <4>. HIDE DEF I
      <4>. QED BY <3>1, <3>2, InduccionNat
    <3>4. PICK g : P(n, g)
      <4>. HIDE DEF P
      <4>. QED BY <1>3, <3>3
    <3>5. G(g) BY <3>4
    <3>. QED BY <3>5
  <2>3. PICK h : h = CHOOSE g : G(g) OBVIOUS
  <2>4. G(h)
    <3>. HIDE DEF G
    <3>. QED BY <2>2, <2>3
  <2>5. \A i \in 1 .. n : h[i] = IF i = 1 THEN x[i] ELSE h[i - 1] \o x[i] BY <2>4
  <2>. DEFINE J == {k \in Nat : k \in 1 .. n => \E b, o : Junta(S, x, k, h[k], b, o)}
  <2>6. 0 \in J OBVIOUS
  <2>7. ASSUME NEW k \in Nat, k \in J PROVE k + 1 \in J
    <3>1. SUFFICES ASSUME k + 1 \in 1 .. n PROVE \E b, o : Junta(S, x, k + 1, h[k + 1], b, o)
      OBVIOUS
    <3>2. CASE k = 0
      <4>1. PICK e : e = [j \in 1 .. 0 |-> 0] OBVIOUS
      <4>2. e \in [1 .. Len(<< >>) -> 1 .. 0] /\ e \in [1 .. Len(<< >>) -> Nat] BY <4>1
      <4>3. Junta(S, x, 0, << >>, e, e) BY <4>2 DEF Junta
      <4>4. \E c, q : Junta(S, x, 0 + 1, << >> \o x[0 + 1], c, q)
        <5>1. 0 \in Nat /\ 0 + 1 <= n BY <3>1, <3>2
        <5>. QED BY <4>3, <5>1, JuntaMas
      <4>5. << >> \o x[1] = x[1] BY <3>1, <3>2, ConcatEmptySeq
      <4>. QED BY <2>5, <3>1, <3>2, <4>4, <4>5
    <3>3. CASE k # 0
      <4>1. PICK b, o : Junta(S, x, k, h[k], b, o) BY <2>7, <3>1, <3>3
      <4>2. \E c, q : Junta(S, x, k + 1, h[k] \o x[k + 1], c, q)
        <5>1. k + 1 <= n BY <3>1
        <5>. QED BY <4>1, <5>1, JuntaMas
      <4>3. h[k + 1] = h[k] \o x[k + 1]
        <5>1. (k + 1) - 1 = k /\ k + 1 # 1 BY <3>3
        <5>. QED BY <2>5, <3>1, <5>1
      <4>. QED BY <4>2, <4>3
    <3>. QED BY <3>2, <3>3
  <2>8. n \in J
    <3>. HIDE DEF J
    <3>. QED BY <2>6, <2>7, InduccionNat
  <2>9. \E b, o : Junta(S, x, n, h[n], b, o) BY <1>3, <2>8
  <2>. QED BY <2>1, <2>3, <2>9
<1>. QED BY <1>2, <1>3

\* The joined sequence has the elements of the others.
LEMMA AplanarTipo ==
  ASSUME NEW S, NEW n \in Nat, NEW x \in [1 .. n -> Seq(S)]
  PROVE  FlattenSeq(x) \in Seq(S)
BY Aplanar DEF Junta

-----------------------------------------------------------------------------
(* The accesses of the messages *)

Pasos == {"arrancar", "correr", "soltar", "cancelar"}

\* the accesses and steps about the first P patotas and the trips H.  An access to a trip is
\* inside it, and has not begun: from its first page on it is absolute.
AccesosDe(P, H) ==
  {a \in [tipo : Memoria \union Pasos, p : 1 .. P, t : Nat, desde : Int, bytes : Nat, hechos : Nat] :
     /\ a.t = 0 \/ <<a.p, a.t>> \in H
     /\ a.tipo \in Pasos => a.t # 0
     /\ a.tipo \in Memoria => a.hechos < a.bytes
     /\ a.tipo \in Memoria /\ a.t # 0 =>
          a.hechos = 0 /\ a.desde >= 0 /\ a.desde + a.bytes <= TAMANIO_TRIPULANTE}

\* those of the logs and of the copies of a trip: the control blocks and the trips
Lecturas(P, H) ==
  {a \in AccesosDe(P, H) :
     /\ a.tipo \in Memoria
     /\ a.t = 0 => a.desde >= 0 /\ a.desde + a.bytes <= TAMANIO_PATOTA}

\* no thread is started by them
SinArrancar(P, H) == {a \in AccesosDe(P, H) : a.tipo # "arrancar"}

\* they are all accesses to memory
DeMemoria(P, H) == {a \in AccesosDe(P, H) : a.tipo \in Memoria}

\* The reads of the log start no thread, and sequences of them are sequences of accesses.
LEMMA LecturasSin ==
  ASSUME NEW P, NEW H
  PROVE  /\ Lecturas(P, H) \subseteq SinArrancar(P, H) /\ SinArrancar(P, H) \subseteq AccesosDe(P, H)
         /\ Seq(Lecturas(P, H)) \subseteq Seq(SinArrancar(P, H))
         /\ Seq(SinArrancar(P, H)) \subseteq Seq(AccesosDe(P, H))
<1>1. Lecturas(P, H) \subseteq SinArrancar(P, H) BY DEF Lecturas, SinArrancar, Memoria
<1>2. SinArrancar(P, H) \subseteq AccesosDe(P, H) BY DEF SinArrancar
<1>. QED BY <1>1, <1>2, SeqMonotonic

\* The constants are numbers, and the fields fit.
LEMMA Tamanios ==
  /\ TAMANIO_PAGINA \in Nat /\ TAMANIO_PAGINA > 0 /\ TAMANIO_PATOTA \in Nat /\ TAMANIO_PATOTA > 0
  /\ TAMANIO_TRIPULANTE \in Nat /\ TAMANIO_TRIPULANTE > 0
  /\ ENTERO \in Nat /\ ENTERO > 0 /\ CARACTER \in Nat /\ CARACTER > 0
  /\ TAMANIO_MEMORIA \in Nat /\ TAMANIO_SWAP \in Nat
  /\ 2 * ENTERO <= TAMANIO_PATOTA /\ 5 * ENTERO + CARACTER <= TAMANIO_TRIPULANTE
  /\ frames_en_memoria \in 1 .. frames_totales /\ frames_totales \in Nat
  /\ MaxPatotas \in Nat /\ MaxTripulantes \in Nat
  /\ TamaniosTareas \subseteq Nat /\ 0 \notin TamaniosTareas
<1>1. /\ TAMANIO_PAGINA \in Nat \ {0} /\ TAMANIO_PATOTA \in Nat \ {0} /\ TAMANIO_TRIPULANTE \in Nat \ {0}
      /\ ENTERO \in Nat \ {0} /\ CARACTER \in Nat \ {0} /\ TAMANIO_MEMORIA \in Nat /\ TAMANIO_SWAP \in Nat
      /\ MaxPatotas \in Nat /\ MaxTripulantes \in Nat
  BY PaginacionValida
<1>2. frames_totales \in Int BY <1>1 DEF frames_totales
<1>3. frames_en_memoria \in 1 .. frames_totales BY PaginacionValida
<1>4. frames_totales \in Nat BY <1>2, <1>3
<1>. QED BY <1>1, <1>3, <1>4, PaginacionValida

\* More patotas and trips have more accesses.
LEMMA AccesosMas ==
  ASSUME NEW P \in Nat, NEW Q \in Nat, P <= Q, NEW H, NEW K, H \subseteq K
  PROVE  AccesosDe(P, H) \subseteq AccesosDe(Q, K) /\ Lecturas(P, H) \subseteq Lecturas(Q, K)
<1>1. 1 .. P \subseteq 1 .. Q OBVIOUS
<1>2. AccesosDe(P, H) \subseteq AccesosDe(Q, K) BY <1>1 DEF AccesosDe
<1>. QED BY <1>2 DEF Lecturas

\* What an access is made of.
LEMMA AccesoBien ==
  ASSUME NEW P \in Nat, NEW p \in 1 .. P, NEW H, NEW t \in Nat, <<p, t>> \in H, t # 0
  PROVE  /\ \A tipo \in Memoria : \A campo \in DOMAIN Desplazamiento :
              Acceso(tipo, p, t, Desplazamiento[campo], ENTERO) \in Lecturas(P, H)
         /\ \A tipo \in Memoria : Acceso(tipo, p, t, 0, CARACTER) \in Lecturas(P, H)
         /\ \A tipo \in Pasos : Paso(tipo, p, t) \in AccesosDe(P, H)
<1>1. /\ DOMAIN Desplazamiento = {"TRIP_IP", "POS_X", "POS_Y", "INS_POINTER", "PCB_POINTER"}
      /\ Desplazamiento.TRIP_IP = 0 /\ Desplazamiento.POS_X = ENTERO + CARACTER
      /\ Desplazamiento.POS_Y = 2 * ENTERO + CARACTER
      /\ Desplazamiento.INS_POINTER = 3 * ENTERO + CARACTER
      /\ Desplazamiento.PCB_POINTER = 4 * ENTERO + CARACTER
  BY DEF Desplazamiento
<1>2. ASSUME NEW tipo \in Memoria, NEW d \in Nat, NEW b \in Nat, b > 0, d + b <= TAMANIO_TRIPULANTE
      PROVE  Acceso(tipo, p, t, d, b) \in Lecturas(P, H)
  <2>1. PICK a : a = Acceso(tipo, p, t, d, b) OBVIOUS
  <2>2. /\ a.tipo = tipo /\ a.p = p /\ a.t = t /\ a.desde = d /\ a.bytes = b /\ a.hechos = 0
        /\ a \in [tipo : Memoria \union Pasos, p : 1 .. P, t : Nat, desde : Int, bytes : Nat, hechos : Nat]
    BY <2>1 DEF Acceso
  <2>3. tipo \notin Pasos BY DEF Pasos, Memoria
  <2>4. a \in AccesosDe(P, H) BY <1>2, <2>2, <2>3 DEF AccesosDe
  <2>. QED BY <2>1, <2>2, <2>4 DEF Lecturas
<1>3. \A campo \in DOMAIN Desplazamiento :
        Desplazamiento[campo] \in Nat /\ Desplazamiento[campo] + ENTERO <= TAMANIO_TRIPULANTE
  BY <1>1, Tamanios
<1>4. ASSUME NEW tipo \in Pasos PROVE Paso(tipo, p, t) \in AccesosDe(P, H)
  <2>1. PICK a : a = Paso(tipo, p, t) OBVIOUS
  <2>2. /\ a.tipo = tipo /\ a.p = p /\ a.t = t /\ a.desde = 0 /\ a.bytes = 0 /\ a.hechos = 0
        /\ a \in [tipo : Memoria \union Pasos, p : 1 .. P, t : Nat, desde : Int, bytes : Nat, hechos : Nat]
    BY <2>1 DEF Paso, Acceso
  <2>3. tipo \notin Memoria BY DEF Pasos, Memoria
  <2>. QED BY <2>1, <2>2, <2>3 DEF AccesosDe
<1>5. CARACTER <= TAMANIO_TRIPULANTE BY Tamanios
<1>. QED BY <1>2, <1>3, <1>4, <1>5, Tamanios

\* Reading and writing a whole trip.
LEMMA TodoBien ==
  ASSUME NEW P \in Nat, NEW p \in 1 .. P, NEW H, NEW t \in Nat, <<p, t>> \in H, t # 0
  PROVE  LeerTodo(p, t) \in Seq(Lecturas(P, H)) /\ EscribirTodo(p, t) \in Seq(Lecturas(P, H))
<1>1. DOMAIN Desplazamiento = {"TRIP_IP", "POS_X", "POS_Y", "INS_POINTER", "PCB_POINTER"}
  BY DEF Desplazamiento
<1>2. "leer" \in Memoria /\ "escribir" \in Memoria /\ "estado" \in Memoria BY DEF Memoria
<1>3. \A campo \in DOMAIN Desplazamiento :
        Leer(p, t, campo) \in Lecturas(P, H) /\ Escribir(p, t, campo) \in Lecturas(P, H)
  BY <1>2, AccesoBien DEF Leer, Escribir
<1>4. LeerEstado(p, t) \in Lecturas(P, H) /\ EscribirEstado(p, t) \in Lecturas(P, H)
  BY <1>2, AccesoBien DEF LeerEstado, EscribirEstado
<1>. QED BY <1>1, <1>3, <1>4 DEF LeerTodo, EscribirTodo

\* An access to the control block.
LEMMA PcbBien ==
  ASSUME NEW P \in Nat, NEW p \in 1 .. P, NEW H
  PROVE  /\ LeerPcb(p) \in Seq(Lecturas(P, H))
         /\ Acceso("escribir", p, 0, 0, ENTERO) \in Lecturas(P, H)
         /\ Acceso("escribir", p, 0, ENTERO, ENTERO) \in Lecturas(P, H)
<1>1. ASSUME NEW tipo \in Memoria, NEW d \in {0, ENTERO} PROVE Acceso(tipo, p, 0, d, ENTERO) \in Lecturas(P, H)
  <2>1. PICK a : a = Acceso(tipo, p, 0, d, ENTERO) OBVIOUS
  <2>2. /\ a.tipo = tipo /\ a.p = p /\ a.t = 0 /\ a.desde = d /\ a.bytes = ENTERO /\ a.hechos = 0
        /\ a \in [tipo : Memoria \union Pasos, p : 1 .. P, t : Nat, desde : Int, bytes : Nat, hechos : Nat]
    BY <2>1, Tamanios DEF Acceso
  <2>3. tipo \notin Pasos BY DEF Pasos, Memoria
  <2>4. a \in AccesosDe(P, H) BY <2>2, <2>3, Tamanios DEF AccesosDe
  <2>5. d >= 0 /\ d + ENTERO <= TAMANIO_PATOTA BY Tamanios
  <2>. QED BY <2>1, <2>2, <2>4, <2>5 DEF Lecturas
<1>2. "leer" \in Memoria /\ "escribir" \in Memoria BY DEF Memoria
<1>. QED BY <1>1, <1>2 DEF LeerPcb

\* The log reads the control blocks and the trips of its list.
LEMMA LogBien ==
  ASSUME NEW c \in Nat, NEW trips \in SUBSET (Nat \X (Nat \ {0})),
         \A trip \in trips : trip[1] \in 1 .. c
  PROVE  loggear_data(c, trips) \in Seq(Lecturas(c, trips))
<1>. DEFINE S == Lecturas(c, trips)
            x == [p \in 1 .. c |-> LeerPcb(p)]
            z(p) == [t \in 1 .. MaxTripulantes |-> IF <<p, t>> \in trips THEN LeerTodo(p, t) ELSE <<>>]
            y == [p \in 1 .. c |-> FlattenSeq(z(p))]
<1>1. x \in [1 .. c -> Seq(S)]
  <2>1. \A p \in 1 .. c : LeerPcb(p) \in Seq(S) BY PcbBien
  <2>. HIDE DEF S
  <2>. QED BY <2>1
<1>2. ASSUME NEW p \in 1 .. c PROVE FlattenSeq(z(p)) \in Seq(S)
  <2>1. ASSUME NEW t \in 1 .. MaxTripulantes, <<p, t>> \in trips PROVE LeerTodo(p, t) \in Seq(S)
    <3>1. t \in Nat /\ t # 0 BY Tamanios
    <3>. QED BY <2>1, <3>1, TodoBien
  <2>2. z(p) \in [1 .. MaxTripulantes -> Seq(S)]
    <3>1. << >> \in Seq(S) OBVIOUS
    <3>. HIDE DEF S
    <3>. QED BY <2>1, <3>1
  <2>. HIDE DEF S, z
  <2>. QED BY <2>2, AplanarTipo, Tamanios
<1>3. y \in [1 .. c -> Seq(S)]
  <2>. HIDE DEF S, z
  <2>. QED BY <1>2
<1>4. loggear_data(c, trips) = FlattenSeq(x) \o FlattenSeq(y) BY DEF loggear_data
<1>. HIDE DEF S, x, y
<1>5. FlattenSeq(x) \in Seq(S) /\ FlattenSeq(y) \in Seq(S) BY <1>1, <1>3, AplanarTipo
<1>. QED BY <1>4, <1>5, ConcatProperties DEF S

-----------------------------------------------------------------------------
(* The free frames *)

\* A finite set of naturals has an element with j smaller ones.
LEMMA NumeroLibre ==
  ASSUME NEW S \in SUBSET Nat, IsFiniteSet(S), NEW k \in 1 .. Cardinality(S)
  PROVE  \E m \in S : Cardinality({l \in S : l < m}) = k - 1
<1>. DEFINE Menores(m) == {l \in S : l < m}
            I == {j \in Nat : j < Cardinality(S) => \E m \in S : Cardinality(Menores(m)) = j}
<1>1. Cardinality(S) \in Nat /\ \A m : IsFiniteSet(Menores(m)) BY FS_CardinalityType, FS_Subset
<1>2. 0 \in I
  <2>1. SUFFICES ASSUME 0 < Cardinality(S) PROVE \E m \in S : Cardinality(Menores(m)) = 0 OBVIOUS
  <2>2. S # {} BY <2>1, FS_EmptySet
  <2>3. PICK m \in S : \A y \in S : m <= y BY <2>2, MenorDeNat
  <2>4. Menores(m) = {}
    <3>1. \A y \in S : y \in Nat /\ m \in Nat /\ m <= y BY <2>3
    <3>2. \A y \in S : ~(y < m) BY <3>1
    <3>. QED BY <3>2
  <2>. QED BY <2>4, FS_EmptySet
<1>3. ASSUME NEW j \in Nat, j \in I PROVE j + 1 \in I
  <2>1. SUFFICES ASSUME j + 1 < Cardinality(S) PROVE \E m \in S : Cardinality(Menores(m)) = j + 1
    OBVIOUS
  <2>2. PICK m \in S : Cardinality(Menores(m)) = j
    <3>1. j < Cardinality(S) BY <1>1, <2>1
    <3>. HIDE DEF Menores
    <3>. QED BY <1>3, <3>1
  <2>. DEFINE Hasta == Menores(m) \union {m}
  <2>3. IsFiniteSet(Hasta) /\ Cardinality(Hasta) = j + 1
    <3>1. m \notin Menores(m) OBVIOUS
    <3>. HIDE DEF Menores
    <3>. QED BY <1>1, <2>2, <3>1, FS_AddElement
  <2>4. S \ Hasta # {}
    <3>1. Hasta \subseteq S OBVIOUS
    <3>2. S \subseteq Hasta => S = Hasta BY <3>1
    <3>. HIDE DEF Hasta
    <3>. QED BY <1>1, <2>1, <2>3, <3>2
  <2>5. PICK n \in S \ Hasta : \A y \in S \ Hasta : n <= y BY <2>4, MenorDeNat
  <2>6. Menores(n) = Hasta
    <3>1. n \in Nat /\ m \in Nat /\ m < n BY <2>5
    <3>2. ASSUME NEW l \in S PROVE l < n <=> l < m \/ l = m
      <4>1. l \in Nat BY <3>2
      <4>2. l < n => l \in Hasta BY <2>5, <3>1, <4>1
      <4>. QED BY <3>1, <4>1, <4>2
    <3>. QED BY <3>2
  <2>. QED BY <2>3, <2>5, <2>6
<1>4. \A j \in Nat : j \in I
  <2>. HIDE DEF I
  <2>. QED BY <1>2, <1>3, InduccionNat
<1>. QED BY <1>1, <1>4

\* frames are numbers from 0, and finite
LEMMA LibresFinitos ==
  ASSUME NEW marcos
  PROVE  /\ Libres(marcos) \subseteq Marcos /\ Marcos \subseteq Nat /\ Fisicos \subseteq Marcos
         /\ 0 \in Fisicos /\ IsFiniteSet(Marcos)
         /\ IsFiniteSet(Libres(marcos)) /\ Cardinality(Libres(marcos)) \in Nat
<1>1. Marcos \subseteq Nat /\ IsFiniteSet(Marcos) /\ Fisicos \subseteq Marcos /\ 0 \in Fisicos
  BY Tamanios, FS_Interval DEF Marcos, Fisicos
<1>. QED BY <1>1, FS_Subset, FS_CardinalityType DEF Libres

\* The n frames that a patota is given are free, and different.
LEMMA ElegidosBien ==
  ASSUME NEW marcos, NEW n \in Nat, n <= Cardinality(Libres(marcos))
  PROVE  /\ Elegidos(marcos, n) \in Seq(Marcos) /\ Len(Elegidos(marcos, n)) = n
         /\ Range(Elegidos(marcos, n)) \subseteq Libres(marcos)
         /\ IsFiniteSet(Range(Elegidos(marcos, n))) /\ Cardinality(Range(Elegidos(marcos, n))) = n
<1>. DEFINE S == Libres(marcos)
            e == Elegidos(marcos, n)
<1>1. S \in SUBSET Nat /\ IsFiniteSet(S) /\ S \subseteq Marcos /\ Cardinality(S) \in Nat BY LibresFinitos
<1>2. ASSUME NEW k \in 1 .. n PROVE e[k] \in S /\ Cardinality({l \in S : l < e[k]}) = k - 1
  <2>1. k \in 1 .. Cardinality(S) BY <1>1
  <2>2. \E m \in S : Cardinality({l \in S : l < m}) = k - 1 BY <1>1, <2>1, NumeroLibre
  <2>3. e[k] = CHOOSE m \in S : Cardinality({l \in S : l < m}) = k - 1 BY DEF Elegidos
  <2>. HIDE DEF S, e
  <2>. QED BY <2>2, <2>3
<1>3. e \in [1 .. n -> S]
  <2>1. e = [k \in 1 .. n |-> e[k]] BY DEF Elegidos
  <2>. HIDE DEF S, e
  <2>. QED BY <1>2, <2>1
<1>4. ASSUME NEW k \in 1 .. n, NEW j \in 1 .. n, e[k] = e[j] PROVE k = j
  <2>1. PICK m : m = e[k] OBVIOUS
  <2>2. PICK c : c = Cardinality({l \in S : l < m}) OBVIOUS
  <2>. HIDE DEF S, e
  <2>3. c = k - 1 /\ c = j - 1 BY <1>2, <1>4, <2>1, <2>2
  <2>. QED BY <2>3
<1>5. IsFiniteSet(1 .. n) /\ Cardinality(1 .. n) = n
  <2>1. IsFiniteSet(1 .. n) /\ Cardinality(1 .. n) = IF 1 > n THEN 0 ELSE n - 1 + 1 BY FS_Interval
  <2>. QED BY <2>1
<1>. DEFINE R == Range(e)
<1>6. R = {e[k] : k \in 1 .. n} BY <1>3 DEF Range
<1>. HIDE DEF e, S
<1>7. R \subseteq S BY <1>3, <1>6
<1>8. IsFiniteSet(R) BY <1>1, <1>7, FS_Subset
<1>9. e \in Bijection(1 .. n, R)
  <2>1. e \in [1 .. n -> R] BY <1>3, <1>6
  <2>2. \A y \in R : \E k \in 1 .. n : e[k] = y BY <1>6
  <2>. HIDE DEF R
  <2>. QED BY <1>4, <2>1, <2>2 DEF Bijection, Injection, Surjection, IsInjective
<1>10. Cardinality(R) = n
  <2>1. ExistsBijection(1 .. n, R) BY <1>9 DEF ExistsBijection
  <2>. HIDE DEF R
  <2>. QED BY <1>5, <1>8, <2>1, FS_Bijection
<1>11. e \in Seq(Marcos) /\ Len(e) = n
  <2>1. e \in [1 .. n -> Marcos] BY <1>1, <1>3
  <2>. QED BY <2>1
<1>. QED BY <1>7, <1>8, <1>10, <1>11 DEF e, S

-----------------------------------------------------------------------------
(* The types *)

Pcs == {"listo", "sin_hilo", "copiar", "incorporar", "libre", "reloj", "cambiar", "traer",
        "muerto_incorporar", "muerto_reloj", "muerto_cambiar", "muerto_traer"}

\* the trips that INIT_P announced
Existen ==
  {trip \in Trips : trip[1] \in 1 .. Len(patotas) /\ trip[2] \in 1 .. Len(patotas[trip[1]].inicio)}

\* the entry of a patota, of a page, and a thread
Patota == [frames : Seq(Marcos), memoria_ocupada : Int, tareas : TamaniosTareas, inicio : Seq(Int)]
Marco == [nro_real : Fisicos, presencia : BOOLEAN, duenio : 0 .. Len(patotas), modificado : BOOLEAN,
          bit_uso : BOOLEAN, semaforo_mutex : Nat]
Accesos == AccesosDe(Len(patotas), Existen)
Hilo == [pc : Pcs, accesos : Seq(Accesos), marco : Marcos, victima : Marcos, tomada : BOOLEAN]

TiposPatotas ==
  /\ patotas \in Seq(Patota) /\ Len(patotas) <= pedidos /\ pedidos \in 0 .. MaxPatotas
  /\ \A p \in DOMAIN patotas : Len(patotas[p].inicio) \in 0 .. MaxTripulantes
  /\ tripulantes \subseteq Existen
  /\ faltan \in Nat
  /\ faltan > 0 => patotas # << >> /\ faltan <= Len(patotas[Len(patotas)].inicio)

TiposMarcos ==
  /\ mapa_logico \in [Marcos -> Marco]
  /\ puntero_clock \in Fisicos /\ mutex_incorporar_marco \in 0 .. 1
  /\ datos \in [Fisicos -> SUBSET Marcos] /\ copia \in [Marcos -> BOOLEAN]

\* a thread between sem_wait and sem_post is at an access to memory, with its address
EnAcceso == {"copiar", "incorporar", "libre", "reloj", "cambiar", "traer"}
TiposHilos ==
  /\ hilos \in [Hilos -> Hilo]
  /\ \A h \in Hilos : hilos[h].pc \in EnAcceso =>
       /\ hilos[h].accesos # << >> /\ Siguiente(h).tipo \in Memoria /\ Siguiente(h).t = 0
       /\ hilos[h].pc # "copiar" => Siguiente(h).tipo # "tarea"
  /\ \A h \in Trips : \A i \in DOMAIN hilos[h].accesos : hilos[h].accesos[i].tipo \in Memoria

\* how the process dies in the middle of an access
CaidasDeAcceso == {"fuera_de_tabla", "lru", "sin_libre", "fuera_de_memoria"}

Tipos ==
  /\ TiposPatotas /\ TiposMarcos /\ TiposHilos
  /\ caida \in {"no", "sin_marco"} \union CaidasDeAcceso

\* the trips that are still to come
Sin(p, t) == <<p, t>> \notin Existen \/ (p = Len(patotas) /\ t > Len(patotas[p].inicio) - faltan)

\* They have no thread.
SinHilo ==
  /\ hilos[Principal].pc # "sin_hilo"
  /\ \A h \in Trips : Sin(h[1], h[2]) => hilos[h].pc = "sin_hilo" /\ h \notin tripulantes

\* At most one thread is about to start, of a trip that has none.
UnArranque ==
  \A i \in DOMAIN hilos[Principal].accesos :
    hilos[Principal].accesos[i].tipo = "arrancar" =>
      /\ hilos[<<hilos[Principal].accesos[i].p, hilos[Principal].accesos[i].t>>].pc = "sin_hilo"
      /\ ~Sin(hilos[Principal].accesos[i].p, hilos[Principal].accesos[i].t)
      /\ \A j \in DOMAIN hilos[Principal].accesos :
           hilos[Principal].accesos[j].tipo = "arrancar" => i = j

Nuevos == SinHilo /\ UnArranque

-----------------------------------------------------------------------------
(* What asignar_frames does *)

\* page m, given to p if it is in R
ConDuenio(m, p, R) == IF m \in R THEN [mapa_logico[m] EXCEPT !.duenio = p] ELSE mapa_logico[m]

Sumados(frames, mas) == frames \o mas

\* What asignar_frames does: n free pages become the last ones of the entry, and of patota p.
LEMMA AsignarBien ==
  ASSUME TiposPatotas, TiposMarcos, NEW p \in 1 .. Len(patotas) + 1, NEW n \in Nat,
         n <= Cardinality(Libres(mapa_logico)), NEW tabla \in Patota, asignar_frames(p, n, tabla),
         NEW e, e = Elegidos(mapa_logico, n)
  PROVE  /\ patotas' \in Seq(Patota)
         /\ p > Len(patotas) => Len(patotas') = p
         /\ p <= Len(patotas) => Len(patotas') = Len(patotas)
         /\ patotas'[p].frames = Sumados(tabla.frames, e) /\ patotas'[p].inicio = tabla.inicio
         /\ patotas'[p].memoria_ocupada = tabla.memoria_ocupada /\ patotas'[p].tareas = tabla.tareas
         /\ \A q \in 1 .. Len(patotas) : q # p => patotas'[q] = patotas[q]
         /\ e \in Seq(Marcos) /\ Len(e) = n /\ Range(e) \subseteq Libres(mapa_logico)
         /\ mapa_logico' \in [Marcos -> Marco'] /\ datos' \in [Fisicos -> SUBSET Marcos]
         /\ copia' \in [Marcos -> BOOLEAN]
         /\ \A m \in Marcos : mapa_logico'[m] = ConDuenio(m, p, Range(e))
         /\ \A m \in Marcos : copia'[m] = (copia[m] \/ m \in Range(e))
         /\ \A r \in Fisicos : datos'[r] = datos[r] \union
              {m \in Range(e) : mapa_logico[m].presencia /\ mapa_logico[m].nro_real = r}
         /\ sinMarca' = sinMarca \ Range(e)
<1>1. /\ e \in Seq(Marcos) /\ Len(e) = n /\ Range(e) \subseteq Libres(mapa_logico)
  BY ElegidosBien
<1>2. Range(e) \subseteq Marcos BY <1>1, LibresFinitos
<1>3. PICK fila : fila = [tabla EXCEPT !.frames = tabla.frames \o e] OBVIOUS
<1>4. tabla.frames \o e \in Seq(Marcos) BY <1>1, ConcatProperties DEF Patota
<1>5. /\ fila \in Patota /\ fila.frames = tabla.frames \o e /\ fila.inicio = tabla.inicio
      /\ fila.memoria_ocupada = tabla.memoria_ocupada /\ fila.tareas = tabla.tareas
  BY <1>3, <1>4 DEF Patota
<1>6. patotas' = IF p > Len(patotas) THEN Append(patotas, fila) ELSE [patotas EXCEPT ![p] = fila]
  BY <1>3 DEF asignar_frames
<1>7. patotas \in Seq(Patota) BY DEF TiposPatotas
<1>8. /\ patotas' \in Seq(Patota) /\ Len(patotas') = IF p > Len(patotas) THEN p ELSE Len(patotas)
      /\ patotas'[p] = fila
      /\ \A q \in 1 .. Len(patotas) : q # p => patotas'[q] = patotas[q]
  <2>1. CASE p > Len(patotas)
    <3>1. p = Len(patotas) + 1 BY <1>7, <2>1
    <3>. HIDE DEF Patota
    <3>. QED BY <1>5, <1>6, <1>7, <2>1, <3>1, AppendProperties
  <2>2. CASE ~(p > Len(patotas))
    <3>1. p \in 1 .. Len(patotas) BY <1>7, <2>2
    <3>. HIDE DEF Patota
    <3>. QED BY <1>5, <1>6, <1>7, <2>2, <3>1, ExceptSeq
  <2>. QED BY <2>1, <2>2
<1>9. PICK R : R = Range(e) OBVIOUS
<1>10. /\ mapa_logico' = [m \in Marcos |-> IF m \in R THEN [mapa_logico[m] EXCEPT !.duenio = p]
                                           ELSE mapa_logico[m]]
       /\ copia' = [m \in Marcos |-> copia[m] \/ m \in R]
       /\ datos' = [r \in Fisicos |-> datos[r] \union
                      {m \in R : mapa_logico[m].presencia /\ mapa_logico[m].nro_real = r}]
       /\ sinMarca' = sinMarca \ R
  BY <1>9 DEF asignar_frames
<1>11. mapa_logico' \in [Marcos -> Marco']
  <2>1. p \in 0 .. Len(patotas') /\ Len(patotas) <= Len(patotas') /\ Len(patotas) \in Nat
    BY <1>7, <1>8
  <2>2. ASSUME NEW m \in Marcos PROVE mapa_logico[m] \in Marco' /\ [mapa_logico[m] EXCEPT !.duenio = p] \in Marco'
    <3>1. mapa_logico[m] \in Marco BY DEF TiposMarcos
    <3>2. 0 .. Len(patotas) \subseteq 0 .. Len(patotas') BY <2>1
    <3>. QED BY <2>1, <3>1, <3>2 DEF Marco, Fisicos
  <2>. QED BY <1>10, <2>2
<1>12. datos' \in [Fisicos -> SUBSET Marcos] /\ copia' \in [Marcos -> BOOLEAN]
  BY <1>2, <1>9, <1>10 DEF TiposMarcos
<1>13. \A m \in Marcos : mapa_logico'[m] = ConDuenio(m, p, Range(e)) BY <1>9, <1>10 DEF ConDuenio
<1>. QED BY <1>1, <1>5, <1>8, <1>9, <1>10, <1>11, <1>12, <1>13 DEF Sumados

-----------------------------------------------------------------------------
(* The types are kept *)

\* Patotas and trips only come to be.
LEMMA Crecen ==
  ASSUME Len(patotas) \in Nat, Len(patotas') \in Nat, Len(patotas) <= Len(patotas'),
         \A p \in 1 .. Len(patotas) : Len(patotas'[p].inicio) = Len(patotas[p].inicio)
  PROVE  /\ Existen \subseteq Existen' /\ Accesos \subseteq Accesos'
         /\ Seq(Accesos) \subseteq Seq(Accesos') /\ Hilo \subseteq Hilo'
<1>1. Existen \subseteq Existen'
  <2>1. ASSUME NEW trip \in Existen PROVE trip \in Existen'
    <3>1. trip \in Trips /\ trip[1] \in 1 .. Len(patotas) /\ trip[2] \in 1 .. Len(patotas[trip[1]].inicio)
      BY DEF Existen
    <3>2. trip[1] \in 1 .. Len(patotas') BY <3>1
    <3>3. trip[2] \in 1 .. Len(patotas'[trip[1]].inicio) BY <3>1
    <3>. QED BY <3>1, <3>2, <3>3 DEF Existen
  <2>. QED BY <2>1
<1>2. Accesos \subseteq Accesos' BY <1>1, AccesosMas DEF Accesos
<1>3. Seq(Accesos) \subseteq Seq(Accesos') BY <1>2, SeqMonotonic
<1>. QED BY <1>1, <1>2, <1>3 DEF Hilo

\* One thread changes.
LEMMA UnHilo ==
  ASSUME TiposHilos, Hilo \subseteq Hilo', NEW h \in Hilos, NEW r \in Hilo',
         hilos' = [hilos EXCEPT ![h] = r],
         r.pc \in EnAcceso =>
           /\ r.accesos # << >> /\ Head(r.accesos).tipo \in Memoria /\ Head(r.accesos).t = 0
           /\ r.pc # "copiar" => Head(r.accesos).tipo # "tarea",
         h # Principal => \A i \in DOMAIN r.accesos : r.accesos[i].tipo \in Memoria
  PROVE  TiposHilos' /\ hilos'[h] = r /\ \A g \in Hilos : g # h => hilos'[g] = hilos[g]
<1>1. hilos \in [Hilos -> Hilo] BY DEF TiposHilos
<1>2. hilos'[h] = r /\ \A g \in Hilos : g # h => hilos'[g] = hilos[g] BY <1>1
<1>3. hilos' \in [Hilos -> Hilo'] BY <1>1
<1>4. ASSUME NEW g \in Hilos, hilos'[g].pc \in EnAcceso
      PROVE  /\ hilos'[g].accesos # << >> /\ Head(hilos'[g].accesos).tipo \in Memoria
             /\ Head(hilos'[g].accesos).t = 0
             /\ hilos'[g].pc # "copiar" => Head(hilos'[g].accesos).tipo # "tarea"
  <2>1. CASE g = h BY <1>2, <1>4, <2>1
  <2>2. CASE g # h BY <1>2, <1>4, <2>2 DEF TiposHilos, Siguiente
  <2>. QED BY <2>1, <2>2
<1>5. ASSUME NEW g \in Trips, NEW i \in DOMAIN hilos'[g].accesos PROVE hilos'[g].accesos[i].tipo \in Memoria
  <2>0. g \in Hilos /\ g # Principal
    <3>1. g \in Hilos /\ g[1] # 0 BY DEF Hilos, Trips
    <3>. QED BY <3>1 DEF Principal
  <2>1. CASE g = h BY <1>2, <2>0, <2>1
  <2>2. CASE g # h BY <1>2, <2>0, <2>2 DEF TiposHilos
  <2>. QED BY <2>1, <2>2
<1>. QED BY <1>2, <1>3, <1>4, <1>5 DEF TiposHilos, Siguiente

\* The first access is replaced by those of w.
LEMMA Cola ==
  ASSUME NEW S, NEW s \in Seq(S), s # << >>, NEW w \in Seq(S), NEW v, v = w \o Tail(s)
  PROVE  /\ v \in Seq(S) /\ Len(v) = Len(w) + Len(s) - 1 /\ Len(w) \in Nat /\ Len(s) \in Nat \ {0}
         /\ \A i \in 1 .. Len(v) : IF i <= Len(w) THEN i \in 1 .. Len(w) /\ v[i] = w[i]
                                   ELSE i - Len(w) + 1 \in 2 .. Len(s) /\ v[i] = s[i - Len(w) + 1]
         /\ w # << >> => v # << >> /\ Head(v) = w[1]
<1>1. PICK t : t = Tail(s) OBVIOUS
<1>2. t \in Seq(S) /\ Len(t) = Len(s) - 1 /\ \A i \in 1 .. Len(t) : t[i] = s[i + 1]
  BY <1>1, HeadTailProperties
<1>3. /\ v \in Seq(S) /\ Len(v) = Len(w) + Len(t)
      /\ \A i \in 1 .. Len(w) + Len(t) : v[i] = IF i <= Len(w) THEN w[i] ELSE t[i - Len(w)]
  BY <1>1, <1>2, ConcatProperties
<1>4. Len(w) \in Nat /\ Len(s) \in Nat /\ Len(s) # 0 OBVIOUS
<1>5. ASSUME NEW i \in 1 .. Len(v)
      PROVE  IF i <= Len(w) THEN i \in 1 .. Len(w) /\ v[i] = w[i]
             ELSE i - Len(w) + 1 \in 2 .. Len(s) /\ v[i] = s[i - Len(w) + 1]
  <2>1. CASE i <= Len(w) BY <1>2, <1>3, <1>4, <2>1
  <2>2. CASE ~(i <= Len(w))
    <3>1. i - Len(w) \in 1 .. Len(t) BY <1>2, <1>3, <1>4, <2>2
    <3>2. v[i] = t[i - Len(w)] BY <1>2, <1>3, <1>4, <2>2
    <3>3. t[i - Len(w)] = s[(i - Len(w)) + 1] BY <1>2, <3>1
    <3>4. i - Len(w) + 1 \in 2 .. Len(s) BY <1>2, <1>4, <3>1
    <3>. QED BY <2>2, <3>2, <3>3, <3>4
  <2>. QED BY <2>1, <2>2
<1>6. w # << >> => v # << >> /\ Head(v) = w[1]
  <2>1. ASSUME w # << >> PROVE Len(w) >= 1 /\ Len(v) >= 1 BY <1>2, <1>3, <1>4, <2>1
  <2>2. ASSUME w # << >> PROVE v[1] = w[1] /\ v # << >> BY <1>2, <1>3, <1>4, <2>1, <2>2
  <2>. QED BY <1>3, <2>2
<1>. QED BY <1>2, <1>3, <1>4, <1>5, <1>6

-----------------------------------------------------------------------------
(* The pages of some bytes *)

\* A bigger number of pages is not fewer bytes.
LEMMA ProductoMonotono ==
  ASSUME NEW a \in Int, NEW b \in Int, a <= b, NEW c \in Nat
  PROVE  a * c <= b * c /\ (a + 1) * c = a * c + c /\ a * c \in Int /\ b * c \in Int
<1>1. PICK d \in Nat : b = a + d
  <2>1. b - a \in Nat /\ b = a + (b - a) OBVIOUS
  <2>. QED BY <2>1
<1>2. d * c >= 0 OBVIOUS
<1>3. b * c = a * c + d * c BY <1>1
<1>. QED BY <1>2, <1>3

\* x is some whole pages and a rest.
LEMMA Division ==
  ASSUME NEW x \in Nat
  PROVE  /\ x \div TAMANIO_PAGINA \in Nat /\ x % TAMANIO_PAGINA \in 0 .. TAMANIO_PAGINA - 1
         /\ x = (x \div TAMANIO_PAGINA) * TAMANIO_PAGINA + (x % TAMANIO_PAGINA)
<1>1. TAMANIO_PAGINA \in Nat /\ TAMANIO_PAGINA > 0 BY Tamanios
<1>2. /\ x \div TAMANIO_PAGINA \in Int /\ x \div TAMANIO_PAGINA >= 0
      /\ x % TAMANIO_PAGINA \in 0 .. TAMANIO_PAGINA - 1
  BY <1>1
<1>3. PICK q : q = x \div TAMANIO_PAGINA OBVIOUS
<1>4. x % TAMANIO_PAGINA = x - TAMANIO_PAGINA * q BY <1>1, <1>3
<1>5. q \in Int /\ x % TAMANIO_PAGINA \in Int BY <1>2, <1>3
<1>6. x = q * TAMANIO_PAGINA + (x % TAMANIO_PAGINA)
  <2>1. PICK r : r = x % TAMANIO_PAGINA OBVIOUS
  <2>2. r = x - TAMANIO_PAGINA * q BY <1>4, <2>1
  <2>3. x = q * TAMANIO_PAGINA + r BY <1>1, <1>5, <2>1, <2>2
  <2>. QED BY <2>1, <2>3
<1>7. q \in Nat BY <1>2, <1>3
<1>. QED BY <1>2, <1>3, <1>6, <1>7, Zenon

Techo(x) == frames_necesarios(0, x)

\* The pages that x bytes need.
LEMMA TechoBien ==
  ASSUME NEW x \in Nat
  PROVE  /\ Techo(x) \in Nat
         /\ x <= Techo(x) * TAMANIO_PAGINA /\ Techo(x) * TAMANIO_PAGINA < x + TAMANIO_PAGINA
<1>1. PICK q : q = x \div TAMANIO_PAGINA OBVIOUS
<1>2. PICK r : r = x % TAMANIO_PAGINA OBVIOUS
<1>3. PICK P : P = TAMANIO_PAGINA OBVIOUS
<1>4. q \in Nat /\ r \in 0 .. P - 1 /\ x = q * P + r /\ P \in Nat BY <1>1, <1>2, <1>3, Division, Tamanios
<1>5. Techo(x) = q + (IF r > 0 THEN 1 ELSE 0) BY <1>1, <1>2 DEF Techo, frames_necesarios
<1>6. (q + 1) * P = q * P + P /\ q * P \in Int BY <1>4, ProductoMonotono
<1>7. CASE r > 0
  <2>1. Techo(x) = q + 1 BY <1>5, <1>7
  <2>. QED BY <1>3, <1>4, <1>6, <1>7, <2>1
<1>8. CASE ~(r > 0)
  <2>1. Techo(x) = q BY <1>4, <1>5, <1>8
  <2>. QED BY <1>3, <1>4, <1>6, <1>8, <2>1
<1>. QED BY <1>7, <1>8

\* k pages with room for x bytes are at least those that they need.
LEMMA TechoMinimo ==
  ASSUME NEW x \in Nat, NEW k \in Int, x <= k * TAMANIO_PAGINA
  PROVE  Techo(x) <= k
<1>1. PICK P : P = TAMANIO_PAGINA OBVIOUS
<1>2. PICK q : q = Techo(x) OBVIOUS
<1>3. q \in Nat /\ q * P < x + P /\ P \in Nat /\ x <= k * P BY <1>1, <1>2, TechoBien, Tamanios
<1>4. SUFFICES ASSUME k + 1 <= q PROVE FALSE BY <1>2, <1>3
<1>5. (k + 1) * P <= q * P BY <1>3, <1>4, ProductoMonotono
<1>6. (k + 1) * P = k * P + P /\ k * P \in Int /\ q * P \in Int BY <1>3, ProductoMonotono
<1>. QED BY <1>3, <1>5, <1>6

\* More bytes do not need fewer pages.
LEMMA TechoMonotono ==
  ASSUME NEW x \in Nat, NEW y \in Nat, x <= y
  PROVE  Techo(x) <= Techo(y)
<1>1. Techo(y) \in Nat /\ y <= Techo(y) * TAMANIO_PAGINA BY TechoBien
<1>2. PICK k : k = Techo(y) OBVIOUS
<1>3. k * TAMANIO_PAGINA \in Int BY <1>1, <1>2, Tamanios, ProductoMonotono
<1>4. x <= k * TAMANIO_PAGINA BY <1>1, <1>2, <1>3
<1>. QED BY <1>1, <1>2, <1>4, TechoMinimo

-----------------------------------------------------------------------------
(* The types, action by action *)

\* The log is made of accesses to the trips K.
LEMMA LogMemoria ==
  ASSUME NEW c \in Nat, NEW K \in SUBSET Trips, \A trip \in K : trip[1] \in 1 .. c,
         NEW trips \in SUBSET K
  PROVE  loggear_data(c, trips) \in Seq(DeMemoria(c, K))
<1>1. Trips \subseteq Nat \X (Nat \ {0}) BY Tamanios DEF Trips
<1>2. trips \in SUBSET (Nat \X (Nat \ {0})) /\ \A trip \in trips : trip[1] \in 1 .. c BY <1>1
<1>3. loggear_data(c, trips) \in Seq(Lecturas(c, trips)) BY <1>2, LogBien
<1>4. Lecturas(c, trips) \subseteq DeMemoria(c, K)
  <2>1. Lecturas(c, trips) \subseteq Lecturas(c, K) BY AccesosMas
  <2>. QED BY <2>1 DEF Lecturas, DeMemoria
<1>. QED BY <1>3, <1>4, SeqMonotonic

\* The reads of loggear_data start no thread.
LEMMA LogAccesos ==
  ASSUME NEW c \in Nat, NEW K \in SUBSET Trips, \A trip \in K : trip[1] \in 1 .. c,
         NEW trips \in SUBSET K
  PROVE  loggear_data(c, trips) \in Seq(SinArrancar(c, K))
<1>1. loggear_data(c, trips) \in Seq(DeMemoria(c, K)) BY LogMemoria
<1>2. DeMemoria(c, K) \subseteq SinArrancar(c, K) BY DEF DeMemoria, SinArrancar, Memoria
<1>. QED BY <1>1, <1>2, SeqMonotonic

\* no thread is about to be started, and only the main loop changes what it does
NadaArranca ==
  /\ hilos[Principal].pc # "sin_hilo"
  /\ \A i \in DOMAIN hilos[Principal].accesos : hilos[Principal].accesos[i].tipo # "arrancar"

\* nor does it do anything but access the memory
SoloMemoria == \A i \in DOMAIN hilos[Principal].accesos : hilos[Principal].accesos[i].tipo \in Memoria

\* Accesses that start no thread, place by place.
LEMMA SinArrancarNunca ==
  ASSUME NEW P, NEW H, NEW acc \in Seq(SinArrancar(P, H))
  PROVE  \A i \in DOMAIN acc : acc[i].tipo # "arrancar"
<1>1. \A i \in DOMAIN acc : acc[i] \in SinArrancar(P, H) OBVIOUS
<1>. QED BY <1>1 DEF SinArrancar

\* The trips that exist are pairs of numbers of the patotas received.
LEMMA ExistenBien ==
  ASSUME Len(patotas) \in Nat
  PROVE  Existen \in SUBSET Trips /\ \A trip \in Existen : trip[1] \in 1 .. Len(patotas)
BY DEF Existen

\* A thread that was idle begins a message.
LEMMA Empieza ==
  ASSUME TiposHilos, Hilo \subseteq Hilo', NEW h \in Hilos, Ocioso(h),
         NEW acc \in Seq(Accesos'), Empezar(h, acc),
         h # Principal => \A i \in DOMAIN acc : acc[i].tipo \in Memoria
  PROVE  /\ TiposHilos' /\ hilos'[h] = [hilos[h] EXCEPT !.accesos = acc]
         /\ hilos'[h].pc = "listo" /\ hilos'[h].accesos = acc
         /\ \A g \in Hilos : g # h => hilos'[g] = hilos[g]
<1>1. hilos[h] \in Hilo /\ hilos[h] \in Hilo' /\ hilos[h].pc = "listo" BY DEF TiposHilos, Ocioso
<1>2. PICK r : r = [hilos[h] EXCEPT !.accesos = acc] OBVIOUS
<1>3. r.pc = "listo" /\ r.accesos = acc /\ r \in Hilo' BY <1>1, <1>2 DEF Hilo
<1>4. hilos' = [hilos EXCEPT ![h] = r] BY <1>2 DEF Empezar
<1>5. r.pc \notin EnAcceso BY <1>3 DEF EnAcceso
<1>6. TiposHilos' /\ hilos'[h] = r /\ \A g \in Hilos : g # h => hilos'[g] = hilos[g]
  BY <1>3, <1>4, <1>5, UnHilo
<1>. QED BY <1>2, <1>3, <1>6

\* INIT_P
LEMMA TiposRechazo ==
  ASSUME Tipos, NEW n, NEW tareas, INIT_P(n, tareas), RechazarPatota(n, tareas)
  PROVE  Tipos' /\ NadaArranca'
<1>1. /\ UNCHANGED <<patotas, faltan, caida, pags>> /\ UNCHANGED <<tripulantes, mensajes>>
      /\ UNCHANGED <<puntero_clock, mutex_incorporar_marco, causas>>
      /\ Ocioso(Principal) /\ Empezar(Principal, loggear_data(Len(patotas), tripulantes))
      /\ pedidos < MaxPatotas /\ pedidos' = pedidos + 1
  BY DEF INIT_P, RechazarPatota, SinCambioEnMarcos
<1>2. TiposPatotas /\ TiposMarcos /\ TiposHilos BY DEF Tipos
<1>3. Len(patotas) \in Nat BY <1>2 DEF TiposPatotas
<1>4. Existen' = Existen /\ Accesos' = Accesos /\ Hilo' = Hilo BY <1>1 DEF Existen, Accesos, Hilo
<1>0. PICK acc : acc = loggear_data(Len(patotas), tripulantes) OBVIOUS
<1>5. acc \in Seq(SinArrancar(Len(patotas), Existen)) /\ acc \in Seq(Accesos')
  <2>1. acc \in Seq(SinArrancar(Len(patotas), Existen))
    BY <1>0, <1>2, <1>3, <1>4, LogAccesos, ExistenBien DEF TiposPatotas
  <2>. QED BY <1>4, <2>1, LecturasSin DEF Accesos
<1>6. Principal \in Hilos BY DEF Hilos
<1>7. TiposHilos' /\ hilos'[Principal].accesos = acc /\ hilos'[Principal].pc = "listo"
      /\ \A g \in Hilos : g # Principal => hilos'[g] = hilos[g]
  BY <1>0, <1>1, <1>2, <1>4, <1>5, <1>6, Empieza
<1>10. NadaArranca' BY <1>5, <1>7, SinArrancarNunca DEF NadaArranca
<1>8. TiposPatotas'
  <2>1. pedidos' \in 0 .. MaxPatotas /\ Len(patotas) <= pedidos' BY <1>1, <1>2, <1>3, Tamanios DEF TiposPatotas
  <2>. QED BY <1>1, <1>2, <1>4, <2>1 DEF TiposPatotas
<1>9. TiposMarcos'
  <2>1. Marco' = Marco BY <1>1 DEF Marco
  <2>. QED BY <1>1, <1>2, <2>1 DEF TiposMarcos, pags
<1>. QED BY <1>1, <1>7, <1>8, <1>9, <1>10 DEF Tipos

\* The entry of a new patota.
LEMMA FilaNueva ==
  ASSUME NEW n \in 1 .. MaxTripulantes, NEW tareas \in TamaniosTareas,
         NEW f, f = [frames |-> <<>>, memoria_ocupada |-> TAMANIO_PATOTA + tareas, tareas |-> tareas,
                     inicio |-> [t \in 1 .. n |-> 0]]
  PROVE  f \in Patota /\ f.inicio \in Seq(Int) /\ Len(f.inicio) = n
<1>1. TAMANIO_PATOTA + tareas \in Nat /\ n \in Nat BY Tamanios
<1>2. PICK g : g = [t \in 1 .. n |-> 0] OBVIOUS
<1>3. g \in Seq(Int) /\ Len(g) = n BY <1>1, <1>2
<1>4. << >> \in Seq(Marcos) OBVIOUS
<1>. QED BY <1>1, <1>2, <1>3, <1>4 DEF Patota

\* Its pages are there if those of its trips too are.
LEMMA PatotaCabe ==
  ASSUME NEW n \in 1 .. MaxTripulantes, NEW tareas \in TamaniosTareas, Cabe(n, tareas)
  PROVE  /\ frames_necesarios(0, TAMANIO_PATOTA + tareas) \in Nat
         /\ frames_necesarios(0, TAMANIO_PATOTA + tareas) <= Cardinality(Libres(mapa_logico))
<1>1. PICK x : x = TAMANIO_PATOTA + tareas OBVIOUS
<1>2. PICK lib : lib = Cardinality(Libres(mapa_logico)) OBVIOUS
<1>3. PICK todo : todo = TAMANIO_PATOTA + tareas + n * TAMANIO_TRIPULANTE OBVIOUS
<1>4. x \in Nat /\ todo \in Nat /\ x <= todo
  <2>1. n * TAMANIO_TRIPULANTE \in Int /\ n * TAMANIO_TRIPULANTE >= 0 BY Tamanios
  <2>2. TAMANIO_PATOTA + tareas \in Nat BY Tamanios
  <2>. QED BY <1>1, <1>3, <2>1, <2>2
<1>5. Techo(x) \in Nat /\ Techo(todo) \in Nat /\ Techo(x) <= Techo(todo) BY <1>4, TechoBien, TechoMonotono
<1>6. Techo(todo) <= lib BY <1>2, <1>3 DEF Cabe, Techo
<1>7. lib \in Nat BY <1>2, LibresFinitos
<1>8. Techo(x) <= lib BY <1>5, <1>6, <1>7
<1>. QED BY <1>1, <1>2, <1>5, <1>8 DEF Techo

\* INIT_P, when the patota fits.
LEMMA TiposAceptada ==
  ASSUME Tipos, NEW n \in 1 .. MaxTripulantes, NEW tareas \in TamaniosTareas, INIT_P(n, tareas),
         AceptarPatota(n, tareas)
  PROVE  Tipos' /\ NadaArranca' /\ SoloMemoria'
<1>0. PICK p : p = Len(patotas) + 1 OBVIOUS
<1>. DEFINE ocupada == TAMANIO_PATOTA + tareas
            c == frames_necesarios(0, ocupada)
            fila == [frames |-> <<>>, memoria_ocupada |-> ocupada, tareas |-> tareas,
                     inicio |-> [t \in 1 .. n |-> 0]]
            principio == <<Acceso("escribir", p, 0, 0, ENTERO), Acceso("escribir", p, 0, ENTERO, ENTERO)>>
            cargar == Acceso("cargar", p, 0, TAMANIO_PATOTA, tareas)
            acc == principio \o LeerPcb(p) \o <<cargar>> \o LeerPcb(p) \o loggear_data(p, tripulantes)
<1>1. /\ asignar_frames(p, c, fila) /\ Empezar(Principal, acc) /\ faltan' = n /\ UNCHANGED caida
      /\ UNCHANGED <<tripulantes, mensajes>> /\ Cabe(n, tareas)
      /\ UNCHANGED <<puntero_clock, mutex_incorporar_marco, causas>>
      /\ Ocioso(Principal) /\ faltan = 0
      /\ pedidos < MaxPatotas /\ pedidos' = pedidos + 1
  BY <1>0 DEF INIT_P, AceptarPatota, SinCambioEnMarcos
<1>2. TiposPatotas /\ TiposMarcos /\ TiposHilos BY DEF Tipos
<1>3. /\ patotas \in Seq(Patota) /\ Len(patotas) \in Nat /\ p \in 1 .. Len(patotas) + 1 /\ p > Len(patotas)
      /\ p = Len(patotas) + 1
  BY <1>0, <1>2 DEF TiposPatotas
<1>4. tareas \in Nat /\ tareas > 0 /\ n \in Nat /\ ocupada \in Nat BY Tamanios
<1>5. fila \in Patota /\ fila.inicio \in Seq(Int) /\ Len(fila.inicio) = n BY FilaNueva
<1>6. c \in Nat /\ c <= Cardinality(Libres(mapa_logico)) BY <1>1, PatotaCabe
<1>. HIDE DEF c
<1>7. PICK e : e = Elegidos(mapa_logico, c) OBVIOUS
<1>8. /\ patotas' \in Seq(Patota) /\ Len(patotas') = p
      /\ patotas'[p].inicio = fila.inicio
      /\ \A q \in 1 .. Len(patotas) : q # p => patotas'[q] = patotas[q]
      /\ mapa_logico' \in [Marcos -> Marco'] /\ datos' \in [Fisicos -> SUBSET Marcos]
      /\ copia' \in [Marcos -> BOOLEAN]
  <2>1. PICK f : f = fila OBVIOUS
  <2>2. asignar_frames(p, c, f) BY <1>1, <2>1
  <2>3. f \in Patota BY <1>5, <2>1
  <2>4. /\ patotas' \in Seq(Patota) /\ Len(patotas') = p /\ patotas'[p].inicio = f.inicio
        /\ \A q \in 1 .. Len(patotas) : q # p => patotas'[q] = patotas[q]
        /\ mapa_logico' \in [Marcos -> Marco'] /\ datos' \in [Fisicos -> SUBSET Marcos]
        /\ copia' \in [Marcos -> BOOLEAN]
    BY <1>2, <1>3, <1>6, <1>7, <2>2, <2>3, AsignarBien
  <2>. QED BY <2>1, <2>4
<1>9. patotas'[p].inicio = fila.inicio BY <1>8
<1>10. \A q \in 1 .. Len(patotas) : patotas'[q] = patotas[q] BY <1>3, <1>8
<1>11. Existen \subseteq Existen' /\ Hilo \subseteq Hilo'
  <2>1. Len(patotas') \in Nat /\ Len(patotas) <= Len(patotas') BY <1>3, <1>8
  <2>. QED BY <1>3, <1>10, <2>1, Crecen
<1>12. acc \in Seq(DeMemoria(p, Existen')) /\ acc \in Seq(Accesos')
  <2>1. PICK P : P = p OBVIOUS
  <2>2. P \in Nat /\ P \in 1 .. P /\ Len(patotas') = P BY <1>3, <1>8, <2>1
  <2>. DEFINE S == DeMemoria(P, Existen')
  <2>3. Seq(S) \subseteq Seq(Accesos') BY <2>2, SeqMonotonic DEF Accesos, DeMemoria
  <2>4. Existen' \in SUBSET Trips /\ \A trip \in Existen' : trip[1] \in 1 .. P
    BY <2>2 DEF Existen
  <2>5. LeerPcb(P) \in Seq(S) /\ principio \in Seq(S)
    <3>1. Lecturas(P, Existen') \subseteq S BY DEF Lecturas, DeMemoria
    <3>2. LeerPcb(P) \in Seq(Lecturas(P, Existen')) BY <2>2, PcbBien
    <3>3. Acceso("escribir", P, 0, 0, ENTERO) \in S /\ Acceso("escribir", P, 0, ENTERO, ENTERO) \in S
      BY <2>2, <3>1, PcbBien
    <3>. HIDE DEF S
    <3>4. LeerPcb(P) \in Seq(S) BY <3>1, <3>2, SeqMonotonic
    <3>. QED BY <2>1, <3>3, <3>4
  <2>6. loggear_data(P, tripulantes) \in Seq(S)
    <3>1. tripulantes \in SUBSET Existen' BY <1>2, <1>11 DEF TiposPatotas
    <3>. QED BY <2>2, <2>4, <3>1, LogMemoria
  <2>7. cargar \in S
    <3>1. PICK a : a = Acceso("cargar", P, 0, TAMANIO_PATOTA, tareas) OBVIOUS
    <3>2. /\ a.tipo = "cargar" /\ a.p = P /\ a.t = 0 /\ a.bytes = tareas /\ a.hechos = 0
          /\ a \in [tipo : Memoria \union Pasos, p : 1 .. P, t : Nat, desde : Int, bytes : Nat, hechos : Nat]
      BY <1>4, <2>2, <3>1, Tamanios DEF Acceso, Memoria
    <3>3. "cargar" \notin Pasos BY DEF Pasos
    <3>4. a \in S BY <1>4, <3>2, <3>3 DEF AccesosDe, DeMemoria, Memoria
    <3>. QED BY <2>1, <3>1, <3>4
  <2>. HIDE DEF S, cargar, principio
  <2>8. <<cargar>> \in Seq(S) BY <2>7
  <2>9. PICK x : x = principio \o LeerPcb(P) OBVIOUS
  <2>10. x \in Seq(S) BY <2>5, <2>9, ConcatProperties
  <2>11. PICK y : y = x \o <<cargar>> OBVIOUS
  <2>12. y \in Seq(S) BY <2>8, <2>10, <2>11, ConcatProperties
  <2>13. PICK z : z = y \o LeerPcb(P) OBVIOUS
  <2>14. z \in Seq(S) BY <2>5, <2>12, <2>13, ConcatProperties
  <2>15. z \o loggear_data(P, tripulantes) \in Seq(S) BY <2>6, <2>14, ConcatProperties
  <2>16. acc \in Seq(S) BY <2>1, <2>9, <2>11, <2>13, <2>15
  <2>17. S = DeMemoria(p, Existen') BY <2>1 DEF S
  <2>. HIDE DEF acc
  <2>. QED BY <2>3, <2>16, <2>17
<1>13. TiposHilos' /\ NadaArranca' /\ SoloMemoria'
  <2>1. Principal \in Hilos BY DEF Hilos
  <2>2. PICK y : y = acc OBVIOUS
  <2>3. Empezar(Principal, y) /\ y \in Seq(DeMemoria(p, Existen')) /\ y \in Seq(Accesos')
    BY <1>1, <1>12, <2>2
  <2>. HIDE DEF acc
  <2>4. TiposHilos' /\ hilos'[Principal].accesos = y /\ hilos'[Principal].pc = "listo"
    BY <1>1, <1>2, <1>11, <2>1, <2>3, Empieza
  <2>5. \A i \in DOMAIN y : y[i].tipo \in Memoria
    <3>1. \A i \in DOMAIN y : y[i] \in DeMemoria(p, Existen') BY <2>3
    <3>. QED BY <3>1 DEF DeMemoria
  <2>6. "arrancar" \notin Memoria BY DEF Memoria
  <2>. QED BY <2>4, <2>5, <2>6 DEF NadaArranca, SoloMemoria
<1>14. TiposPatotas'
  <2>1. pedidos' \in 0 .. MaxPatotas /\ Len(patotas') <= pedidos'
    <3>1. pedidos \in 0 .. MaxPatotas /\ Len(patotas) <= pedidos BY <1>2 DEF TiposPatotas
    <3>2. Len(patotas') = p BY <1>8
    <3>3. pedidos < MaxPatotas /\ pedidos' = pedidos + 1 BY <1>1
    <3>. QED BY <1>3, <3>1, <3>2, <3>3, Tamanios
  <2>2. ASSUME NEW q \in DOMAIN patotas' PROVE Len(patotas'[q].inicio) \in 0 .. MaxTripulantes
    <3>1. q \in 1 .. p BY <1>8, <2>2
    <3>2. CASE q = p BY <1>4, <1>5, <1>9, <3>2, Tamanios
    <3>3. CASE q # p
      <4>1. q \in 1 .. Len(patotas) /\ q \in DOMAIN patotas BY <1>3, <3>1, <3>3
      <4>. QED BY <1>2, <1>10, <4>1 DEF TiposPatotas
    <3>. QED BY <3>2, <3>3
  <2>3. tripulantes' \subseteq Existen' BY <1>1, <1>2, <1>11 DEF TiposPatotas
  <2>4. patotas' # << >> /\ faltan' \in Nat /\ faltan' <= Len(patotas'[Len(patotas')].inicio)
    <3>1. patotas' # << >> BY <1>3, <1>8
    <3>. HIDE DEF fila
    <3>. QED BY <1>1, <1>4, <1>5, <1>8, <1>9, <3>1
  <2>. QED BY <1>8, <2>1, <2>2, <2>3, <2>4 DEF TiposPatotas
<1>15. TiposMarcos' BY <1>1, <1>2, <1>8 DEF TiposMarcos
<1>. QED BY <1>1, <1>13, <1>14, <1>15 DEF Tipos

\* The trip that INIT_T is about, and the entry of its patota.
LEMMA TripNuevo ==
  ASSUME TiposPatotas, faltan > 0, NEW p, p = Len(patotas), NEW t, t = Len(patotas[p].inicio) - faltan + 1
  PROVE  /\ patotas \in Seq(Patota) /\ p \in Nat /\ p \in 1 .. Len(patotas) /\ p \in 1 .. MaxPatotas
         /\ patotas[p] \in Patota /\ t \in 1 .. Len(patotas[p].inicio) /\ t \in 1 .. MaxTripulantes
         /\ t \in Nat /\ t # 0 /\ <<p, t>> \in Existen /\ <<p, t>> \in Trips /\ <<p, t>> # Principal
         /\ FramesDelTrip(p) \in Nat
<1>1. patotas \in Seq(Patota) /\ faltan \in Nat /\ patotas # << >> /\ faltan <= Len(patotas[p].inicio)
  BY DEF TiposPatotas
<1>2. p \in Nat /\ p >= 1 /\ p \in 1 .. Len(patotas) BY <1>1
<1>3. p \in 1 .. MaxPatotas
  <2>1. Len(patotas) <= pedidos /\ pedidos \in 0 .. MaxPatotas BY DEF TiposPatotas
  <2>. QED BY <1>2, <2>1, Tamanios
<1>4. patotas[p] \in Patota BY <1>1, <1>2
<1>5. Len(patotas[p].inicio) \in 0 .. MaxTripulantes BY <1>2 DEF TiposPatotas
<1>6. t \in 1 .. Len(patotas[p].inicio) /\ t \in 1 .. MaxTripulantes /\ t \in Nat /\ t # 0
  BY <1>1, <1>5, Tamanios
<1>7. <<p, t>> \in Trips BY <1>3, <1>6 DEF Trips
<1>8. <<p, t>> \in Existen BY <1>2, <1>6, <1>7 DEF Existen
<1>9. <<p, t>> # Principal BY <1>6 DEF Principal
<1>10. FramesDelTrip(p) \in Nat
  <2>1. TAMANIO_TRIPULANTE \div TAMANIO_PAGINA \in Nat BY Division, Tamanios
  <2>. QED BY <2>1 DEF FramesDelTrip, frames_necesarios
<1>. QED BY <1>1, <1>2, <1>3, <1>4, <1>6, <1>7, <1>8, <1>9, <1>10

\* the entry that INIT_T gives to asignar_frames
ConTrip(p, t) ==
  [patotas[p] EXCEPT !.inicio[t] = patotas[p].memoria_ocupada, !.memoria_ocupada = @ + TAMANIO_TRIPULANTE]

\* The entry of a patota to which a trip is added.
LEMMA ConTripBien ==
  ASSUME NEW p, patotas[p] \in Patota, NEW t \in 1 .. Len(patotas[p].inicio), NEW f, f = ConTrip(p, t)
  PROVE  /\ f \in Patota /\ f.frames = patotas[p].frames /\ f.tareas = patotas[p].tareas
         /\ f.inicio = [patotas[p].inicio EXCEPT ![t] = patotas[p].memoria_ocupada]
         /\ Len(f.inicio) = Len(patotas[p].inicio)
         /\ f.memoria_ocupada = patotas[p].memoria_ocupada + TAMANIO_TRIPULANTE
<1>1. PICK r : r = patotas[p] OBVIOUS
<1>2. r.inicio \in Seq(Int) /\ r.memoria_ocupada \in Int /\ r \in Patota BY <1>1 DEF Patota
<1>3. PICK i : i = [r.inicio EXCEPT ![t] = r.memoria_ocupada] OBVIOUS
<1>4. t \in 1 .. Len(r.inicio) BY <1>1
<1>5. i \in Seq(Int) /\ Len(i) = Len(r.inicio) BY <1>2, <1>3, <1>4, ExceptSeq
<1>6. f = [r EXCEPT !.inicio = i, !.memoria_ocupada = r.memoria_ocupada + TAMANIO_TRIPULANTE]
  BY <1>1, <1>2, <1>3 DEF ConTrip, Patota
<1>7. r.memoria_ocupada + TAMANIO_TRIPULANTE \in Int BY <1>2, Tamanios
<1>8. /\ f \in Patota /\ f.frames = r.frames /\ f.tareas = r.tareas /\ f.inicio = i
      /\ f.memoria_ocupada = r.memoria_ocupada + TAMANIO_TRIPULANTE
  BY <1>2, <1>5, <1>6, <1>7 DEF Patota
<1>. QED BY <1>1, <1>3, <1>5, <1>8

\* INIT_T, with the frames that the trip needs: what changes, named.
LEMMA TripAceptado ==
  ASSUME TiposPatotas, TiposMarcos, INIT_T, NEW p, p = Len(patotas),
         NEW t, t = Len(patotas[p].inicio) - faltan + 1,
         ~(FramesDelTrip(p) > Cardinality(Libres(mapa_logico))),
         NEW e, e = Elegidos(mapa_logico, FramesDelTrip(p))
  PROVE  /\ patotas' \in Seq(Patota) /\ Len(patotas') = p
         /\ patotas'[p].frames = Sumados(patotas[p].frames, e) /\ patotas'[p].tareas = patotas[p].tareas
         /\ patotas'[p].inicio = [patotas[p].inicio EXCEPT ![t] = patotas[p].memoria_ocupada]
         /\ patotas'[p].memoria_ocupada = patotas[p].memoria_ocupada + TAMANIO_TRIPULANTE
         /\ \A q \in 1 .. Len(patotas) : Len(patotas'[q].inicio) = Len(patotas[q].inicio)
         /\ \A q \in 1 .. Len(patotas) : q # p => patotas'[q] = patotas[q]
         /\ e \in Seq(Marcos) /\ Len(e) = FramesDelTrip(p) /\ Range(e) \subseteq Libres(mapa_logico)
         /\ mapa_logico' \in [Marcos -> Marco'] /\ datos' \in [Fisicos -> SUBSET Marcos]
         /\ copia' \in [Marcos -> BOOLEAN]
         /\ \A m \in Marcos : mapa_logico'[m] = ConDuenio(m, p, Range(e))
         /\ \A m \in Marcos : copia'[m] = (copia[m] \/ m \in Range(e))
         /\ \A r \in Fisicos : datos'[r] = datos[r] \union
              {m \in Range(e) : mapa_logico[m].presencia /\ mapa_logico[m].nro_real = r}
         /\ sinMarca' = sinMarca \ Range(e)
         /\ Empezar(Principal, EscribirTodo(p, t) \o <<Paso("arrancar", p, t)>> \o loggear_data(p, tripulantes'))
         /\ tripulantes' = tripulantes \union {<<p, t>>} /\ faltan' = faltan - 1
         /\ UNCHANGED <<puntero_clock, mutex_incorporar_marco, causas, pedidos, mensajes, caida>>
<1>1. faltan > 0 /\ TiposPatotas BY DEF INIT_T
<1>2. /\ patotas \in Seq(Patota) /\ p \in 1 .. Len(patotas) + 1 /\ p \in Nat /\ p \in 1 .. Len(patotas)
      /\ patotas[p] \in Patota /\ t \in 1 .. Len(patotas[p].inicio) /\ FramesDelTrip(p) \in Nat
  <2>1. p \in Nat BY <1>1, TripNuevo
  <2>2. p \in 1 .. Len(patotas) BY <1>1, TripNuevo
  <2>3. patotas \in Seq(Patota)  BY <1>1, TripNuevo
  <2>4. patotas[p] \in Patota /\ t \in 1 .. Len(patotas[p].inicio)  BY <1>1, TripNuevo
  <2>5. FramesDelTrip(p) \in Nat  BY <1>1, TripNuevo
  <2>. QED BY <2>1, <2>2, <2>3, <2>4, <2>5
<1>3. PICK f : f = ConTrip(p, t) OBVIOUS
<1>4. PICK n : n = FramesDelTrip(p) OBVIOUS
<1>5. /\ asignar_frames(p, n, f)
      /\ Empezar(Principal, EscribirTodo(p, t) \o <<Paso("arrancar", p, t)>> \o loggear_data(p, tripulantes'))
      /\ tripulantes' = tripulantes \union {<<p, t>>} /\ faltan' = faltan - 1
      /\ UNCHANGED <<puntero_clock, mutex_incorporar_marco, causas, pedidos, mensajes, caida>>
  BY <1>3, <1>4 DEF INIT_T, ConTrip, SinCambioEnMarcos
<1>6. n <= Cardinality(Libres(mapa_logico)) /\ n \in Nat
  <2>1. Cardinality(Libres(mapa_logico)) \in Nat BY LibresFinitos
  <2>. QED BY <1>2, <1>4, <2>1
<1>7. /\ f \in Patota /\ f.frames = patotas[p].frames /\ f.tareas = patotas[p].tareas
      /\ f.inicio = [patotas[p].inicio EXCEPT ![t] = patotas[p].memoria_ocupada]
      /\ Len(f.inicio) = Len(patotas[p].inicio)
      /\ f.memoria_ocupada = patotas[p].memoria_ocupada + TAMANIO_TRIPULANTE
  BY <1>2, <1>3, ConTripBien
<1>8. p <= Len(patotas) BY <1>2
<1>9. asignar_frames(p, n, f) /\ e = Elegidos(mapa_logico, n) BY <1>4, <1>5
<1>10. /\ patotas' \in Seq(Patota) /\ Len(patotas') = p
       /\ patotas'[p].frames = Sumados(f.frames, e) /\ patotas'[p].tareas = f.tareas
       /\ patotas'[p].inicio = f.inicio /\ patotas'[p].memoria_ocupada = f.memoria_ocupada
       /\ \A q \in 1 .. Len(patotas) : q # p => patotas'[q] = patotas[q]
  <2>1. patotas' \in Seq(Patota) BY <1>2, <1>6, <1>7, <1>8, <1>9, AsignarBien
  <2>2. Len(patotas') = p BY <1>2, <1>6, <1>7, <1>8, <1>9, AsignarBien
  <2>3. patotas'[p].frames = Sumados(f.frames, e) BY <1>2, <1>6, <1>7, <1>8, <1>9, AsignarBien
  <2>4. patotas'[p].tareas = f.tareas /\ patotas'[p].inicio = f.inicio /\ patotas'[p].memoria_ocupada = f.memoria_ocupada
       BY <1>2, <1>6, <1>7, <1>8, <1>9, AsignarBien
  <2>5. \A q \in 1 .. Len(patotas) : q # p => patotas'[q] = patotas[q]
  BY <1>2, <1>6, <1>7, <1>8, <1>9, AsignarBien
  <2>. QED BY <2>1, <2>2, <2>3, <2>4, <2>5
<1>11. /\ e \in Seq(Marcos) /\ Len(e) = FramesDelTrip(p) /\ Range(e) \subseteq Libres(mapa_logico)
       /\ mapa_logico' \in [Marcos -> Marco'] /\ datos' \in [Fisicos -> SUBSET Marcos]
       /\ copia' \in [Marcos -> BOOLEAN]
       /\ \A m \in Marcos : copia'[m] = (copia[m] \/ m \in Range(e))
       /\ \A r \in Fisicos : datos'[r] = datos[r] \union
            {m \in Range(e) : mapa_logico[m].presencia /\ mapa_logico[m].nro_real = r}
       /\ sinMarca' = sinMarca \ Range(e)
  BY <1>2, <1>4, <1>6, <1>7, <1>8, <1>9, AsignarBien
<1>12. \A m \in Marcos : mapa_logico'[m] = ConDuenio(m, p, Range(e))
  BY <1>2, <1>6, <1>7, <1>8, <1>9, AsignarBien, Zenon
<1>13. \A q \in 1 .. Len(patotas) : Len(patotas'[q].inicio) = Len(patotas[q].inicio)
  <2>1. ASSUME NEW q \in 1 .. Len(patotas) PROVE Len(patotas'[q].inicio) = Len(patotas[q].inicio)
    <3>1. Len(patotas'[p].inicio) = Len(patotas[p].inicio) BY <1>7, <1>10
    <3>2. q # p => patotas'[q] = patotas[q] BY <1>10
    <3>. QED BY <3>1, <3>2
  <2>. QED BY <2>1
<1>14. patotas'[p].inicio = [patotas[p].inicio EXCEPT ![t] = patotas[p].memoria_ocupada] BY <1>7, <1>10, Zenon
<1>15. patotas'[p].frames = Sumados(patotas[p].frames, e) BY <1>7, <1>10, Zenon
<1>. QED BY <1>5, <1>7, <1>10, <1>11, <1>12, <1>13, <1>14, <1>15, Zenon

\* INIT_T
LEMMA TiposInitT ==
  ASSUME Tipos, INIT_T
  PROVE  Tipos'
<1>1. TiposPatotas /\ TiposMarcos /\ TiposHilos BY DEF Tipos
<1>2. PICK p : p = Len(patotas) OBVIOUS
<1>3. PICK t : t = Len(patotas[p].inicio) - faltan + 1 OBVIOUS
<1>4. Ocioso(Principal) /\ faltan > 0 BY DEF INIT_T
<1>5. /\ patotas \in Seq(Patota) /\ p \in Nat /\ p \in 1 .. Len(patotas)
      /\ t \in Nat /\ t # 0 /\ <<p, t>> \in Existen
  <2>1. patotas \in Seq(Patota) /\ p \in Nat /\ p \in 1 .. Len(patotas) BY <1>1, <1>2, <1>3, <1>4, TripNuevo
  <2>2. t \in Nat /\ t # 0 /\ <<p, t>> \in Existen BY <1>1, <1>2, <1>3, <1>4, TripNuevo
  <2>. QED BY <2>1, <2>2
<1>6. CASE FramesDelTrip(p) > Cardinality(Libres(mapa_logico))
  <2>1. /\ faltan' = faltan - 1 /\ tripulantes' = tripulantes \union {<<p, t>>} /\ caida' = "sin_marco"
        /\ UNCHANGED <<patotas, hilos, pags>>
        /\ UNCHANGED <<puntero_clock, mutex_incorporar_marco, causas, pedidos, mensajes>>
    BY <1>2, <1>3, <1>6 DEF INIT_T, SinCambioEnMarcos
  <2>2. Existen' = Existen /\ Accesos' = Accesos /\ Hilo' = Hilo BY <2>1 DEF Existen, Accesos, Hilo
  <2>3. TiposPatotas'
    <3>1. tripulantes' \subseteq Existen' BY <1>1, <1>5, <2>1, <2>2 DEF TiposPatotas
    <3>2. faltan' \in Nat /\ faltan' <= faltan BY <1>1, <1>4, <2>1 DEF TiposPatotas
    <3>3. patotas # << >> /\ faltan' <= Len(patotas[Len(patotas)].inicio)
      <4>1. Len(patotas[p].inicio) \in 0 .. MaxTripulantes BY <1>1, <1>5 DEF TiposPatotas
      <4>2. faltan <= Len(patotas[p].inicio) /\ faltan \in Nat BY <1>1, <1>2, <1>4 DEF TiposPatotas
      <4>. QED BY <1>1, <1>2, <1>4, <3>2, <4>1, <4>2 DEF TiposPatotas
    <3>. QED BY <1>1, <2>1, <3>1, <3>2, <3>3 DEF TiposPatotas
  <2>4. TiposMarcos'
    <3>1. Marco' = Marco BY <2>1 DEF Marco
    <3>. QED BY <1>1, <2>1, <3>1 DEF TiposMarcos, pags
  <2>5. TiposHilos' BY <1>1, <2>1, <2>2 DEF TiposHilos, Siguiente
  <2>. QED BY <2>1, <2>3, <2>4, <2>5 DEF Tipos
<1>7. CASE ~(FramesDelTrip(p) > Cardinality(Libres(mapa_logico)))
  <2>1. PICK e : e = Elegidos(mapa_logico, FramesDelTrip(p)) OBVIOUS
  <2>2. /\ patotas' \in Seq(Patota) /\ Len(patotas') = p
        /\ \A q \in 1 .. Len(patotas) : Len(patotas'[q].inicio) = Len(patotas[q].inicio)
        /\ mapa_logico' \in [Marcos -> Marco'] /\ datos' \in [Fisicos -> SUBSET Marcos]
        /\ copia' \in [Marcos -> BOOLEAN]
        /\ Empezar(Principal, EscribirTodo(p, t) \o <<Paso("arrancar", p, t)>> \o loggear_data(p, tripulantes'))
        /\ tripulantes' = tripulantes \union {<<p, t>>} /\ faltan' = faltan - 1
        /\ UNCHANGED <<puntero_clock, mutex_incorporar_marco, causas, pedidos, mensajes, caida>>
    BY <1>1, <1>2, <1>3, <1>7, <2>1, TripAceptado
  <2>3. Existen \subseteq Existen' /\ Hilo \subseteq Hilo'
    <3>1. Len(patotas) \in Nat /\ Len(patotas') \in Nat /\ Len(patotas) <= Len(patotas') BY <1>2, <1>5, <2>2
    <3>. QED BY <2>2, <3>1, Crecen
  <2>. DEFINE S == AccesosDe(p, Existen')
  <2>4. Accesos' = S BY <2>2 DEF Accesos
  <2>5. PICK acc : acc = EscribirTodo(p, t) \o <<Paso("arrancar", p, t)>> \o loggear_data(p, tripulantes') OBVIOUS
  <2>6. acc \in Seq(S)
    <3>0. p \in 1 .. p /\ <<p, t>> \in Existen' BY <1>2, <1>5, <2>3
    <3>1. EscribirTodo(p, t) \in Seq(S)
      <4>1. EscribirTodo(p, t) \in Seq(Lecturas(p, Existen')) BY <1>5, <3>0, TodoBien
      <4>2. Lecturas(p, Existen') \subseteq S BY DEF Lecturas
      <4>. HIDE DEF S
      <4>. QED BY <4>1, <4>2, SeqMonotonic
    <3>2. Paso("arrancar", p, t) \in S BY <1>5, <3>0, AccesoBien DEF Pasos
    <3>3. loggear_data(p, tripulantes') \in Seq(S) /\ loggear_data(p, tripulantes') \in Seq(SinArrancar(p, Existen'))
      <4>1. Existen' \in SUBSET Trips /\ \A trip \in Existen' : trip[1] \in 1 .. p BY <2>2 DEF Existen
      <4>2. tripulantes' \in SUBSET Existen' BY <1>1, <2>2, <2>3, <3>0 DEF TiposPatotas
      <4>3. loggear_data(p, tripulantes') \in Seq(SinArrancar(p, Existen')) BY <1>5, <4>1, <4>2, LogAccesos
      <4>. QED BY <4>3, LecturasSin
    <3>. HIDE DEF S
    <3>4. <<Paso("arrancar", p, t)>> \in Seq(S) BY <3>2
    <3>5. PICK x : x = EscribirTodo(p, t) \o <<Paso("arrancar", p, t)>> OBVIOUS
    <3>6. x \in Seq(S) BY <3>1, <3>4, <3>5, ConcatProperties
    <3>7. x \o loggear_data(p, tripulantes') \in Seq(S) BY <3>3, <3>6, ConcatProperties
    <3>. QED BY <2>5, <3>5, <3>7
  <2>7. TiposHilos'
    <3>1. Principal \in Hilos /\ Empezar(Principal, acc) BY <2>2, <2>5 DEF Hilos
    <3>2. acc \in Seq(Accesos') BY <2>4, <2>6
    <3>. QED BY <1>1, <1>4, <2>3, <3>1, <3>2, Empieza
  <2>8. TiposPatotas'
    <3>1. tripulantes' \subseteq Existen' BY <1>1, <1>5, <2>2, <2>3 DEF TiposPatotas
    <3>2. \A q \in DOMAIN patotas' : Len(patotas'[q].inicio) \in 0 .. MaxTripulantes
      <4>1. ASSUME NEW q \in DOMAIN patotas' PROVE Len(patotas'[q].inicio) \in 0 .. MaxTripulantes
        <5>1. q \in 1 .. Len(patotas) /\ q \in DOMAIN patotas BY <1>2, <1>5, <2>2
        <5>2. Len(patotas'[q].inicio) = Len(patotas[q].inicio) BY <2>2, <5>1
        <5>3. Len(patotas[q].inicio) \in 0 .. MaxTripulantes BY <1>1, <5>1 DEF TiposPatotas
        <5>. QED BY <5>2, <5>3
      <4>. QED BY <4>1
    <3>3. faltan' \in Nat /\ faltan' <= faltan /\ faltan \in Nat BY <1>1, <1>4, <2>2 DEF TiposPatotas
    <3>4. patotas' # << >> /\ faltan' <= Len(patotas'[Len(patotas')].inicio)
      <4>1. Len(patotas[p].inicio) \in 0 .. MaxTripulantes BY <1>1, <1>5 DEF TiposPatotas
      <4>2. faltan <= Len(patotas[p].inicio) BY <1>1, <1>2, <1>4 DEF TiposPatotas
      <4>3. Len(patotas'[p].inicio) = Len(patotas[p].inicio) BY <1>5, <2>2
      <4>4. Len(patotas') = p BY <2>2
      <4>5. patotas' # << >> BY <1>5, <4>4
      <4>. QED BY <3>3, <4>1, <4>2, <4>3, <4>4, <4>5
    <3>5. Len(patotas') <= pedidos' /\ pedidos' \in 0 .. MaxPatotas
      <4>1. Len(patotas') = p /\ pedidos' = pedidos BY <2>2
      <4>. QED BY <1>1, <1>2, <4>1 DEF TiposPatotas
    <3>. QED BY <2>2, <3>1, <3>2, <3>3, <3>4, <3>5 DEF TiposPatotas
  <2>9. TiposMarcos' BY <1>1, <2>2 DEF TiposMarcos
  <2>10. caida' = caida BY <2>2
  <2>. QED BY <2>7, <2>8, <2>9, <2>10 DEF Tipos
<1>. QED BY <1>6, <1>7

-----------------------------------------------------------------------------
(* The steps that leave the page tables alone *)

\* Without a change in the patotas, what is about them is as before.
LEMMA Quietos ==
  ASSUME UNCHANGED patotas
  PROVE  Existen' = Existen /\ Accesos' = Accesos /\ Hilo' = Hilo /\ Marco' = Marco
BY DEF Existen, Accesos, Hilo, Marco

\* ELIM_T
LEMMA TiposElimT ==
  ASSUME Tipos, NEW trip \in tripulantes, ELIM_T(trip[1], trip[2])
  PROVE  Tipos' /\ NadaArranca'
<1>0. PICK p : p = trip[1] OBVIOUS
<1>00. PICK t : t = trip[2] OBVIOUS
<1>. DEFINE uno(i) == LeerTodo(p, i) \o <<Paso("correr", p, i)>> \o EscribirTodo(p, i)
            x == [i \in 1 .. Len(patotas[p].inicio) |-> IF i > t /\ <<p, i>> \in tripulantes THEN uno(i) ELSE <<>>]
            fin == <<Paso("soltar", p, t), Paso("cancelar", p, t)>>
            bitacora == loggear_data(Len(patotas), tripulantes \ {<<p, t>>})
            acc == FlattenSeq(x) \o fin \o bitacora
            S == SinArrancar(Len(patotas), Existen)
<1>1. /\ Ocioso(Principal) /\ Empezar(Principal, acc)
      /\ UNCHANGED <<patotas, tripulantes, caida, pags, orden, puntero_clock, mutex_incorporar_marco, causas>>
  BY <1>0, <1>00 DEF ELIM_T, SinCambioEnMarcos
<1>2. TiposPatotas /\ TiposMarcos /\ TiposHilos BY DEF Tipos
<1>3. Existen' = Existen /\ Accesos' = Accesos /\ Hilo' = Hilo /\ Marco' = Marco BY <1>1, Quietos
<1>4. patotas \in Seq(Patota) /\ Len(patotas) \in Nat /\ tripulantes \subseteq Existen BY <1>2 DEF TiposPatotas
<1>5. /\ trip \in Existen /\ trip = <<p, t>> /\ p \in 1 .. Len(patotas) /\ t \in Nat /\ t # 0
      /\ patotas[p].inicio \in Seq(Int)
  <2>1. trip \in Trips /\ trip \in Existen BY <1>4 DEF Existen
  <2>2. trip = <<p, t>> /\ p \in 1 .. MaxPatotas /\ t \in 1 .. MaxTripulantes
    BY <1>0, <1>00, <2>1 DEF Trips
  <2>3. p \in 1 .. Len(patotas) BY <1>0, <2>1 DEF Existen
  <2>4. patotas[p] \in Patota BY <1>4, <2>3
  <2>. QED BY <2>1, <2>2, <2>3, <2>4, Tamanios DEF Patota
<1>6. ASSUME NEW i \in Nat, i # 0, <<p, i>> \in Existen PROVE uno(i) \in Seq(S)
  <2>1. LeerTodo(p, i) \in Seq(S) /\ EscribirTodo(p, i) \in Seq(S)
    <3>1. LeerTodo(p, i) \in Seq(Lecturas(Len(patotas), Existen)) BY <1>4, <1>5, <1>6, TodoBien
    <3>2. EscribirTodo(p, i) \in Seq(Lecturas(Len(patotas), Existen)) BY <1>4, <1>5, <1>6, TodoBien
    <3>3. Lecturas(Len(patotas), Existen) \subseteq S BY LecturasSin
    <3>. HIDE DEF S
    <3>. QED BY <3>1, <3>2, <3>3, SeqMonotonic
  <2>2. Paso("correr", p, i) \in S
    <3>1. Paso("correr", p, i) \in AccesosDe(Len(patotas), Existen) BY <1>4, <1>5, <1>6, AccesoBien DEF Pasos
    <3>. QED BY <3>1 DEF SinArrancar, Paso, Acceso
  <2>. HIDE DEF S
  <2>3. <<Paso("correr", p, i)>> \in Seq(S) BY <2>2
  <2>4. PICK y : y = LeerTodo(p, i) \o <<Paso("correr", p, i)>> OBVIOUS
  <2>5. y \in Seq(S) BY <2>1, <2>3, <2>4, ConcatProperties
  <2>6. y \o EscribirTodo(p, i) \in Seq(S) BY <2>1, <2>5, ConcatProperties
  <2>. QED BY <2>4, <2>6
<1>7. FlattenSeq(x) \in Seq(S)
  <2>1. PICK n : n = Len(patotas[p].inicio) OBVIOUS
  <2>2. n \in Nat BY <1>5, <2>1
  <2>3. ASSUME NEW i \in 1 .. n PROVE x[i] \in Seq(S)
    <3>1. i \in Nat /\ i # 0 BY <2>2
    <3>2. <<p, i>> \in tripulantes => <<p, i>> \in Existen BY <1>4
    <3>3. <<p, i>> \in tripulantes => uno(i) \in Seq(S)
      <4>. HIDE DEF S, uno
      <4>. QED BY <1>6, <3>1, <3>2
    <3>4. << >> \in Seq(S) OBVIOUS
    <3>5. x[i] = IF i > t /\ <<p, i>> \in tripulantes THEN uno(i) ELSE <<>> BY <2>1
    <3>. HIDE DEF S, uno, x
    <3>. QED BY <3>3, <3>4, <3>5
  <2>4. x \in [1 .. n -> Seq(S)]
    <3>1. x = [i \in 1 .. n |-> x[i]] BY <2>1
    <3>. HIDE DEF S, x
    <3>. QED BY <2>3, <3>1
  <2>. HIDE DEF S, x
  <2>. QED BY <2>2, <2>4, AplanarTipo
<1>8. fin \in Seq(S)
  <2>1. Paso("soltar", p, t) \in S /\ Paso("cancelar", p, t) \in S
    <3>1. /\ Paso("soltar", p, t) \in AccesosDe(Len(patotas), Existen)
          /\ Paso("cancelar", p, t) \in AccesosDe(Len(patotas), Existen)
      BY <1>4, <1>5, AccesoBien DEF Pasos
    <3>. QED BY <3>1 DEF SinArrancar, Paso, Acceso
  <2>. HIDE DEF S
  <2>. QED BY <2>1
<1>9. bitacora \in Seq(S)
  <2>1. Existen \in SUBSET Trips /\ \A q \in Existen : q[1] \in 1 .. Len(patotas) BY DEF Existen
  <2>2. tripulantes \ {<<p, t>>} \in SUBSET Existen BY <1>4
  <2>. QED BY <1>4, <2>1, <2>2, LogAccesos
<1>10. acc \in Seq(S) /\ acc \in Seq(Accesos')
  <2>1. Seq(S) \subseteq Seq(Accesos') BY <1>3, LecturasSin DEF Accesos
  <2>. HIDE DEF S, x, fin, bitacora
  <2>2. PICK y : y = FlattenSeq(x) \o fin OBVIOUS
  <2>3. y \in Seq(S) BY <1>7, <1>8, <2>2, ConcatProperties
  <2>4. y \o bitacora \in Seq(S) BY <1>9, <2>3, ConcatProperties
  <2>. QED BY <2>1, <2>2, <2>4
<1>11. TiposHilos' /\ NadaArranca'
  <2>1. Principal \in Hilos BY DEF Hilos
  <2>2. PICK y : y = acc OBVIOUS
  <2>3. Empezar(Principal, y) /\ y \in Seq(S) /\ y \in Seq(Accesos') BY <1>1, <1>10, <2>2
  <2>. HIDE DEF acc
  <2>4. TiposHilos' /\ hilos'[Principal].accesos = y /\ hilos'[Principal].pc = "listo"
    BY <1>1, <1>2, <1>3, <2>1, <2>3, Empieza
  <2>. QED BY <2>3, <2>4, SinArrancarNunca DEF NadaArranca
<1>12. TiposPatotas' BY <1>1, <1>2, <1>3 DEF TiposPatotas, orden
<1>13. TiposMarcos' BY <1>1, <1>2, <1>3 DEF TiposMarcos, pags
<1>14. caida' = caida BY <1>1
<1>. QED BY <1>11, <1>12, <1>13, <1>14 DEF Tipos

\* The step of the main loop that is next is about a trip that exists.
LEMMA PasoBien ==
  ASSUME TiposPatotas, TiposHilos, Le_toca(Principal, Pasos), NEW a, a = Siguiente(Principal)
  PROVE  /\ a \in Accesos /\ a.p \in 1 .. Len(patotas) /\ a.t # 0 /\ a.t \in Nat
         /\ <<a.p, a.t>> \in Existen /\ <<a.p, a.t>> \in Trips
         /\ <<a.p, a.t>> \in Hilos /\ <<a.p, a.t>> # Principal /\ Principal \in Hilos
         /\ a.t \in 1 .. Len(patotas[a.p].inicio)
<1>1. Principal \in Hilos BY DEF Hilos
<1>2. hilos[Principal].accesos \in Seq(Accesos) /\ hilos[Principal].accesos # << >>
  BY <1>1 DEF TiposHilos, Hilo, Le_toca
<1>3. a \in Accesos BY <1>2 DEF Siguiente
<1>4. a.tipo \in Pasos BY DEF Le_toca
<1>5. /\ a.t # 0 /\ <<a.p, a.t>> \in Existen /\ a.p \in 1 .. Len(patotas) /\ a.t \in Nat
  BY <1>3, <1>4 DEF Accesos, AccesosDe
<1>6. <<a.p, a.t>> \in Trips /\ a.t \in 1 .. Len(patotas[a.p].inicio) BY <1>5 DEF Existen
<1>7. <<a.p, a.t>> # Principal BY <1>5 DEF Principal
<1>8. <<a.p, a.t>> \in Hilos BY <1>6 DEF Hilos
<1>. QED BY <1>1, <1>3, <1>5, <1>6, <1>7, <1>8

\* The main loop goes on to its next access.
LEMMA Avanza ==
  ASSUME TiposHilos, Hilo \subseteq Hilo', Le_toca(Principal, Pasos), hilos' = Hecho(Principal)
  PROVE  /\ TiposHilos' /\ hilos'[Principal].accesos = Tail(hilos[Principal].accesos)
         /\ hilos'[Principal].pc = "listo"
         /\ \A g \in Hilos : g # Principal => hilos'[g] = hilos[g]
<1>1. Principal \in Hilos BY DEF Hilos
<1>2. hilos[Principal] \in Hilo /\ hilos[Principal].pc = "listo" /\ hilos[Principal].accesos # << >>
  BY <1>1 DEF TiposHilos, Le_toca
<1>3. PICK c : c = Tail(hilos[Principal].accesos) OBVIOUS
<1>4. c \in Seq(Accesos) BY <1>2, <1>3 DEF Hilo
<1>5. PICK r : r = [hilos[Principal] EXCEPT !.accesos = c] OBVIOUS
<1>6. r \in Hilo /\ r.pc = "listo" /\ r.accesos = c BY <1>2, <1>4, <1>5 DEF Hilo
<1>7. hilos' = [hilos EXCEPT ![Principal] = r] BY <1>3, <1>5 DEF Hecho
<1>8. r \in Hilo' /\ r.pc \notin EnAcceso BY <1>6 DEF EnAcceso
<1>9. TiposHilos' /\ hilos'[Principal] = r /\ \A g \in Hilos : g # Principal => hilos'[g] = hilos[g]
  BY <1>1, <1>7, <1>8, UnHilo
<1>. QED BY <1>3, <1>6, <1>9

\* The main loop goes on, and the thread g takes the state s, outside an access.
LEMMA AvanzanDos ==
  ASSUME TiposHilos, Hilo = Hilo', Le_toca(Principal, Pasos), NEW g \in Trips, NEW s \in Hilo,
         hilos' = [Hecho(Principal) EXCEPT ![g] = s], s.pc \notin EnAcceso,
         \A i \in DOMAIN s.accesos : s.accesos[i].tipo \in Memoria
  PROVE  /\ TiposHilos' /\ hilos'[Principal].accesos = Tail(hilos[Principal].accesos)
         /\ hilos'[Principal].pc = "listo" /\ hilos'[g] = s
         /\ \A h \in Hilos : h # Principal /\ h # g => hilos'[h] = hilos[h]
<1>1. Principal \in Hilos /\ g \in Hilos /\ g # Principal
  <2>1. g[1] # 0 BY DEF Trips
  <2>. QED BY <2>1 DEF Hilos, Principal
<1>2. hilos[Principal] \in Hilo /\ hilos[Principal].pc = "listo" /\ hilos[Principal].accesos # << >>
      /\ hilos \in [Hilos -> Hilo]
  BY <1>1 DEF TiposHilos, Le_toca
<1>3. PICK c : c = Tail(hilos[Principal].accesos) OBVIOUS
<1>4. c \in Seq(Accesos) BY <1>2, <1>3 DEF Hilo
<1>5. PICK r : r = [hilos[Principal] EXCEPT !.accesos = c] OBVIOUS
<1>6. r \in Hilo /\ r.pc = "listo" /\ r.accesos = c BY <1>2, <1>4, <1>5 DEF Hilo
<1>7. hilos' = [[hilos EXCEPT ![Principal] = r] EXCEPT ![g] = s] BY <1>3, <1>5 DEF Hecho
<1>8. /\ hilos'[Principal] = r /\ hilos'[g] = s /\ hilos' \in [Hilos -> Hilo]
      /\ \A h \in Hilos : h # Principal /\ h # g => hilos'[h] = hilos[h]
  BY <1>1, <1>2, <1>6, <1>7
<1>9. r.pc \notin EnAcceso BY <1>6 DEF EnAcceso
<1>10. TiposHilos'
  <2>1. ASSUME NEW h \in Hilos, hilos'[h].pc \in EnAcceso
        PROVE  /\ hilos'[h].accesos # << >> /\ Head(hilos'[h].accesos).tipo \in Memoria
               /\ Head(hilos'[h].accesos).t = 0
               /\ hilos'[h].pc # "copiar" => Head(hilos'[h].accesos).tipo # "tarea"
    <3>1. hilos'[h] = hilos[h] BY <1>8, <1>9, <2>1
    <3>. QED BY <2>1, <3>1 DEF TiposHilos, Siguiente
  <2>2. ASSUME NEW h \in Trips, NEW i \in DOMAIN hilos'[h].accesos PROVE hilos'[h].accesos[i].tipo \in Memoria
    <3>1. h \in Hilos /\ h # Principal
      <4>1. h[1] # 0 BY DEF Trips
      <4>. QED BY <4>1 DEF Hilos, Principal
    <3>2. CASE h = g BY <1>8, <2>2, <3>2
    <3>3. CASE h # g BY <1>8, <2>2, <3>1, <3>3 DEF TiposHilos
    <3>. QED BY <3>2, <3>3
  <2>. QED BY <1>8, <2>1, <2>2 DEF TiposHilos, Siguiente
<1>. QED BY <1>3, <1>6, <1>8, <1>10

\* Arrancar
LEMMA TiposArrancar ==
  ASSUME Tipos, Arrancar
  PROVE  Tipos'
<1>1. PICK a : a = Siguiente(Principal) OBVIOUS
<1>2. PICK g : g = <<a.p, a.t>> OBVIOUS
<1>3. /\ Le_toca(Principal, {"arrancar"}) /\ hilos' = [Hecho(Principal) EXCEPT ![g].pc = "listo"]
      /\ UNCHANGED <<patotas, tripulantes, caida, pags, orden, puntero_clock, mutex_incorporar_marco, causas>>
  BY <1>1, <1>2 DEF Arrancar, SinCambioEnMarcos
<1>4. TiposPatotas /\ TiposMarcos /\ TiposHilos BY DEF Tipos
<1>5. Le_toca(Principal, Pasos) BY <1>3 DEF Le_toca, Pasos
<1>6. g \in Trips /\ g # Principal /\ g \in Hilos BY <1>1, <1>2, <1>4, <1>5, PasoBien
<1>7. PICK s : s = [hilos[g] EXCEPT !.pc = "listo"] OBVIOUS
<1>8. hilos[g] \in Hilo /\ hilos \in [Hilos -> Hilo] BY <1>4, <1>6 DEF TiposHilos
<1>9. s \in Hilo /\ s.pc = "listo" /\ s.accesos = hilos[g].accesos BY <1>7, <1>8 DEF Hilo, Pcs
<1>10. hilos' = [Hecho(Principal) EXCEPT ![g] = s]
  <2>1. Hecho(Principal)[g] = hilos[g] BY <1>6, <1>8 DEF Hecho
  <2>. QED BY <1>3, <1>7, <2>1
<1>11. /\ Existen' = Existen /\ Accesos' = Accesos /\ Hilo' = Hilo /\ Marco' = Marco BY <1>3, Quietos
<1>12. TiposHilos'
  <2>1. s.pc \notin EnAcceso BY <1>9 DEF EnAcceso
  <2>2. \A i \in DOMAIN s.accesos : s.accesos[i].tipo \in Memoria BY <1>4, <1>6, <1>9 DEF TiposHilos
  <2>. QED BY <1>4, <1>5, <1>6, <1>9, <1>10, <1>11, <2>1, <2>2, AvanzanDos
<1>13. TiposPatotas' BY <1>3, <1>4, <1>11 DEF TiposPatotas, orden
<1>14. TiposMarcos' BY <1>3, <1>4, <1>11 DEF TiposMarcos, pags
<1>15. caida' = caida BY <1>3
<1>. QED BY <1>12, <1>13, <1>14, <1>15 DEF Tipos

\* Cancelar
LEMMA TiposCancelar ==
  ASSUME Tipos, Cancelar
  PROVE  Tipos'
<1>1. PICK a : a = Siguiente(Principal) OBVIOUS
<1>2. PICK g : g = <<a.p, a.t>> OBVIOUS
<1>3. PICK pc : pc = hilos[g].pc OBVIOUS
<1>4. /\ Le_toca(Principal, {"cancelar"}) /\ pc \in DOMAIN Muerto
      /\ hilos' = [Hecho(Principal) EXCEPT ![g].pc = Muerto[pc], ![g].accesos = <<>>]
      /\ UNCHANGED <<patotas, tripulantes, caida, pags, orden, puntero_clock, mutex_incorporar_marco>>
  BY <1>1, <1>2, <1>3 DEF Cancelar
<1>5. TiposPatotas /\ TiposMarcos /\ TiposHilos BY DEF Tipos
<1>6. Le_toca(Principal, Pasos) BY <1>4 DEF Le_toca, Pasos
<1>7. g \in Trips /\ g # Principal /\ g \in Hilos BY <1>1, <1>2, <1>5, <1>6, PasoBien
<1>8. PICK m : m = Muerto[pc] OBVIOUS
<1>9. m \in Pcs /\ m \notin EnAcceso BY <1>4, <1>8 DEF Muerto, Pcs, EnAcceso
<1>10. PICK s : s = [hilos[g] EXCEPT !.pc = m, !.accesos = << >>] OBVIOUS
<1>11. hilos[g] \in Hilo /\ hilos \in [Hilos -> Hilo] BY <1>5, <1>7 DEF TiposHilos
<1>12. s \in Hilo /\ s.pc = m /\ s.accesos = << >>
  <2>1. << >> \in Seq(Accesos) OBVIOUS
  <2>. QED BY <1>9, <1>10, <1>11, <2>1 DEF Hilo
<1>13. hilos' = [Hecho(Principal) EXCEPT ![g] = s]
  <2>1. Hecho(Principal)[g] = hilos[g] /\ g \in DOMAIN Hecho(Principal) BY <1>7, <1>11 DEF Hecho
  <2>. QED BY <1>4, <1>8, <1>10, <2>1
<1>14. /\ Existen' = Existen /\ Accesos' = Accesos /\ Hilo' = Hilo /\ Marco' = Marco BY <1>4, Quietos
<1>15. TiposHilos'
  <2>1. s.pc \notin EnAcceso BY <1>9, <1>12
  <2>2. \A i \in DOMAIN s.accesos : s.accesos[i].tipo \in Memoria BY <1>12
  <2>. QED BY <1>5, <1>6, <1>7, <1>12, <1>13, <1>14, <2>1, <2>2, AvanzanDos
<1>16. TiposPatotas' BY <1>4, <1>5, <1>14 DEF TiposPatotas, orden
<1>17. TiposMarcos' BY <1>4, <1>5, <1>14 DEF TiposMarcos, pags
<1>18. caida' = caida BY <1>4
<1>. QED BY <1>15, <1>16, <1>17, <1>18 DEF Tipos

-----------------------------------------------------------------------------
(* The steps that change the entry of a patota *)

\* The entry of one patota changes, and none of its trips comes or goes.
LEMMA UnaPatota ==
  ASSUME TiposPatotas, NEW p \in 1 .. Len(patotas), NEW f \in Patota, patotas' = [patotas EXCEPT ![p] = f],
         Len(f.inicio) = Len(patotas[p].inicio), tripulantes' \subseteq tripulantes,
         UNCHANGED <<faltan, pedidos>>
  PROVE  /\ TiposPatotas' /\ Existen' = Existen /\ Accesos' = Accesos /\ Hilo' = Hilo /\ Marco' = Marco
         /\ patotas'[p] = f /\ Len(patotas') = Len(patotas)
         /\ \A q \in 1 .. Len(patotas) : q # p => patotas'[q] = patotas[q]
<1>1. patotas \in Seq(Patota) /\ Len(patotas) \in Nat BY DEF TiposPatotas
<1>2. /\ patotas' \in Seq(Patota) /\ Len(patotas') = Len(patotas) /\ patotas'[p] = f
      /\ \A q \in 1 .. Len(patotas) : q # p => patotas'[q] = patotas[q]
  <2>. HIDE DEF Patota
  <2>. QED BY <1>1, ExceptSeq
<1>3. ASSUME NEW q \in 1 .. Len(patotas) PROVE Len(patotas'[q].inicio) = Len(patotas[q].inicio)
  <2>1. CASE q = p BY <1>2, <2>1
  <2>2. CASE q # p BY <1>2, <2>2
  <2>. QED BY <2>1, <2>2
<1>4. Existen' = Existen
  <2>1. ASSUME NEW trip \in Trips PROVE trip \in Existen' <=> trip \in Existen
    <3>1. CASE trip[1] \in 1 .. Len(patotas)
      <4>1. Len(patotas'[trip[1]].inicio) = Len(patotas[trip[1]].inicio) BY <1>3, <3>1
      <4>. QED BY <1>2, <4>1 DEF Existen
    <3>2. CASE trip[1] \notin 1 .. Len(patotas) BY <1>2, <3>2 DEF Existen
    <3>. QED BY <3>1, <3>2
  <2>. QED BY <2>1 DEF Existen
<1>5. Accesos' = Accesos /\ Marco' = Marco BY <1>2, <1>4 DEF Accesos, Marco
<1>6. Hilo' = Hilo BY <1>5 DEF Hilo
<1>7. TiposPatotas'
  <2>1. ASSUME NEW q \in DOMAIN patotas' PROVE Len(patotas'[q].inicio) \in 0 .. MaxTripulantes
    <3>1. q \in 1 .. Len(patotas) /\ q \in DOMAIN patotas BY <1>1, <1>2
    <3>2. Len(patotas'[q].inicio) = Len(patotas[q].inicio) BY <1>3, <3>1
    <3>. QED BY <3>1, <3>2 DEF TiposPatotas
  <2>2. tripulantes' \subseteq Existen' BY <1>4 DEF TiposPatotas
  <2>3. ASSUME faltan' > 0 PROVE patotas' # << >> /\ faltan' <= Len(patotas'[Len(patotas')].inicio)
    <3>1. patotas # << >> /\ faltan <= Len(patotas[Len(patotas)].inicio) BY <2>3 DEF TiposPatotas
    <3>2. Len(patotas) \in 1 .. Len(patotas) BY <1>1, <3>1
    <3>3. Len(patotas'[Len(patotas')].inicio) = Len(patotas[Len(patotas)].inicio) BY <1>2, <1>3, <3>2
    <3>4. patotas' # << >> BY <1>1, <1>2, <3>2
    <3>. QED BY <3>1, <3>3, <3>4
  <2>. QED BY <1>1, <1>2, <2>1, <2>2, <2>3 DEF TiposPatotas
<1>. QED BY <1>2, <1>4, <1>5, <1>6, <1>7

\* What Correr does to the entry of the patota.
LEMMA CorrerHace ==
  ASSUME Tipos, Correr, NEW a, a = Siguiente(Principal)
  PROVE  /\ a \in Accesos /\ a.p \in 1 .. Len(patotas) /\ a.t \in 1 .. Len(patotas[a.p].inicio)
         /\ <<a.p, a.t>> \in Existen /\ Le_toca(Principal, Pasos)
         /\ TiposPatotas' /\ Existen' = Existen /\ Accesos' = Accesos /\ Hilo' = Hilo /\ Marco' = Marco
         /\ Len(patotas') = Len(patotas)
         /\ patotas'[a.p].inicio = [patotas[a.p].inicio EXCEPT ![a.t] = patotas[a.p].inicio[a.t] - TAMANIO_TRIPULANTE]
         /\ patotas'[a.p].frames = patotas[a.p].frames /\ patotas'[a.p].tareas = patotas[a.p].tareas
         /\ patotas'[a.p].memoria_ocupada = patotas[a.p].memoria_ocupada
         /\ \A q \in 1 .. Len(patotas) : q # a.p => patotas'[q] = patotas[q]
<1>1. /\ Le_toca(Principal, {"correr"})
      /\ patotas' = [patotas EXCEPT ![a.p].inicio[a.t] = @ - TAMANIO_TRIPULANTE]
      /\ UNCHANGED <<tripulantes, orden>>
  BY DEF Correr
<1>2. TiposPatotas /\ TiposHilos BY DEF Tipos
<1>3. Le_toca(Principal, Pasos) BY <1>1 DEF Le_toca, Pasos
<1>4. /\ a \in Accesos /\ a.p \in 1 .. Len(patotas) /\ a.t \in 1 .. Len(patotas[a.p].inicio)
      /\ <<a.p, a.t>> \in Existen
  BY <1>2, <1>3, PasoBien
<1>5. PICK p : p = a.p OBVIOUS
<1>6. PICK t : t = a.t OBVIOUS
<1>7. PICK r : r = patotas[p] OBVIOUS
<1>8. patotas \in Seq(Patota) /\ r \in Patota
  <2>1. patotas \in Seq(Patota) BY <1>2 DEF TiposPatotas
  <2>. QED BY <1>4, <1>5, <1>7, <2>1
<1>9. PICK i : i = [r.inicio EXCEPT ![t] = r.inicio[t] - TAMANIO_TRIPULANTE] OBVIOUS
<1>10. i \in Seq(Int) /\ Len(i) = Len(r.inicio)
  <2>1. r.inicio \in Seq(Int) /\ t \in 1 .. Len(r.inicio) BY <1>4, <1>5, <1>6, <1>7, <1>8 DEF Patota
  <2>2. r.inicio[t] \in Int BY <2>1
  <2>3. r.inicio[t] - TAMANIO_TRIPULANTE \in Int BY <2>2, Tamanios
  <2>. QED BY <1>9, <2>1, <2>3, ExceptSeq
<1>11. PICK f : f = [r EXCEPT !.inicio = i] OBVIOUS
<1>12. /\ f \in Patota /\ f.inicio = i /\ f.frames = r.frames /\ f.tareas = r.tareas
       /\ f.memoria_ocupada = r.memoria_ocupada
  BY <1>8, <1>10, <1>11 DEF Patota
<1>13. patotas' = [patotas EXCEPT ![p] = f]
  BY <1>1, <1>5, <1>6, <1>7, <1>9, <1>11
<1>14. /\ TiposPatotas' /\ Existen' = Existen /\ Accesos' = Accesos /\ Hilo' = Hilo /\ Marco' = Marco
       /\ patotas'[p] = f /\ Len(patotas') = Len(patotas)
       /\ \A q \in 1 .. Len(patotas) : q # p => patotas'[q] = patotas[q]
  <2>1. p \in 1 .. Len(patotas) /\ Len(f.inicio) = Len(patotas[p].inicio)
    BY <1>4, <1>5, <1>7, <1>10, <1>12
  <2>2. tripulantes' \subseteq tripulantes /\ UNCHANGED <<faltan, pedidos>> BY <1>1 DEF orden
  <2>. QED BY <1>2, <1>12, <1>13, <2>1, <2>2, UnaPatota
<1>. QED BY <1>3, <1>4, <1>5, <1>6, <1>7, <1>9, <1>12, <1>14

\* Correr
LEMMA TiposCorrer ==
  ASSUME Tipos, Correr
  PROVE  Tipos'
<1>1. /\ hilos' = Hecho(Principal)
      /\ UNCHANGED <<tripulantes, caida, pags, orden, puntero_clock, mutex_incorporar_marco, causas>>
  BY DEF Correr, SinCambioEnMarcos
<1>2. TiposPatotas /\ TiposMarcos /\ TiposHilos BY DEF Tipos
<1>3. PICK a : a = Siguiente(Principal) OBVIOUS
<1>4. TiposPatotas' /\ Hilo' = Hilo /\ Marco' = Marco /\ Le_toca(Principal, Pasos) BY <1>3, CorrerHace
<1>5. TiposHilos' BY <1>1, <1>2, <1>4, Avanza
<1>6. TiposMarcos' BY <1>1, <1>2, <1>4 DEF TiposMarcos, pags
<1>7. caida' = caida BY <1>1
<1>. QED BY <1>4, <1>5, <1>6, <1>7 DEF Tipos

\* the frames that a patota keeps when it occupies x bytes
Quedan(p, x) == IF Techo(x) < Len(patotas[p].frames) THEN Techo(x) ELSE Len(patotas[p].frames)

\* What Soltar does to the entry of the patota.
LEMMA SoltarHace ==
  ASSUME Tipos, Soltar, NEW a, a = Siguiente(Principal), NEW x, x = patotas[a.p].memoria_ocupada - TAMANIO_TRIPULANTE
  PROVE  /\ a \in Accesos /\ a.p \in 1 .. Len(patotas) /\ a.t \in 1 .. Len(patotas[a.p].inicio)
         /\ <<a.p, a.t>> \in Existen /\ Le_toca(Principal, Pasos) /\ x \in Int
         /\ TiposPatotas' /\ Existen' = Existen /\ Accesos' = Accesos /\ Hilo' = Hilo /\ Marco' = Marco
         /\ Len(patotas') = Len(patotas)
         /\ patotas'[a.p].inicio = patotas[a.p].inicio /\ patotas'[a.p].tareas = patotas[a.p].tareas
         /\ patotas'[a.p].memoria_ocupada = x
         /\ patotas'[a.p].frames = SubSeq(patotas[a.p].frames, 1, Quedan(a.p, x))
         /\ \A q \in 1 .. Len(patotas) : q # a.p => patotas'[q] = patotas[q]
<1>1. /\ Le_toca(Principal, {"soltar"}) /\ tripulantes' = tripulantes \ {<<a.p, a.t>>}
      /\ reasignar_frames(a.p, x) /\ UNCHANGED orden
  BY DEF Soltar
<1>2. TiposPatotas /\ TiposHilos BY DEF Tipos
<1>3. Le_toca(Principal, Pasos) BY <1>1 DEF Le_toca, Pasos
<1>4. /\ a \in Accesos /\ a.p \in 1 .. Len(patotas) /\ a.t \in 1 .. Len(patotas[a.p].inicio)
      /\ <<a.p, a.t>> \in Existen
  BY <1>2, <1>3, PasoBien
<1>5. PICK p : p = a.p OBVIOUS
<1>6. PICK r : r = patotas[p] OBVIOUS
<1>7. patotas \in Seq(Patota) /\ r \in Patota
  <2>1. patotas \in Seq(Patota) BY <1>2 DEF TiposPatotas
  <2>. QED BY <1>4, <1>5, <1>6, <2>1
<1>8. x \in Int BY <1>5, <1>6, <1>7, Tamanios DEF Patota
<1>9. PICK k : k = Quedan(p, x) OBVIOUS
<1>10. PICK s : s = SubSeq(r.frames, 1, k) OBVIOUS
<1>11. s \in Seq(Marcos)
  <2>1. r.frames \in Seq(Marcos) BY <1>7 DEF Patota
  <2>2. Techo(x) \in Int
    <3>1. x \div TAMANIO_PAGINA \in Int BY <1>8, Tamanios
    <3>. QED BY <3>1 DEF Techo, frames_necesarios
  <2>3. Len(r.frames) \in Nat BY <2>1
  <2>4. k \in Int /\ k <= Len(r.frames) BY <1>6, <1>9, <2>2, <2>3 DEF Quedan
  <2>. QED BY <1>10, <2>1, <2>4, SubSeqProperties
<1>12. PICK f : f = [r EXCEPT !.memoria_ocupada = x, !.frames = s] OBVIOUS
<1>13. f \in Patota /\ f.inicio = r.inicio /\ f.tareas = r.tareas /\ f.memoria_ocupada = x /\ f.frames = s
  BY <1>7, <1>8, <1>11, <1>12 DEF Patota
<1>14. patotas' = [patotas EXCEPT ![p] = f]
  <2>1. patotas' = [patotas EXCEPT ![p].memoria_ocupada = x,
              ![p].frames = SubSeq(@, 1, IF Techo(x) < Len(@) THEN Techo(x) ELSE Len(@))]
    BY <1>1, <1>5 DEF reasignar_frames, Techo
  <2>2. p \in DOMAIN patotas BY <1>4, <1>5, <1>7
  <2>3. s = SubSeq(r.frames, 1, IF Techo(x) < Len(r.frames) THEN Techo(x) ELSE Len(r.frames))
    BY <1>6, <1>9, <1>10 DEF Quedan
  <2>. QED BY <1>6, <1>7, <1>12, <2>1, <2>2, <2>3 DEF Patota
<1>15. /\ TiposPatotas' /\ Existen' = Existen /\ Accesos' = Accesos /\ Hilo' = Hilo /\ Marco' = Marco
       /\ patotas'[p] = f /\ Len(patotas') = Len(patotas)
       /\ \A q \in 1 .. Len(patotas) : q # p => patotas'[q] = patotas[q]
  <2>1. p \in 1 .. Len(patotas) /\ Len(f.inicio) = Len(patotas[p].inicio)
    BY <1>4, <1>5, <1>6, <1>13
  <2>2. tripulantes' \subseteq tripulantes /\ UNCHANGED <<faltan, pedidos>> BY <1>1 DEF orden
  <2>. QED BY <1>2, <1>13, <1>14, <2>1, <2>2, UnaPatota
<1>. QED BY <1>3, <1>4, <1>5, <1>6, <1>8, <1>9, <1>10, <1>13, <1>15

\* Soltar
LEMMA TiposSoltar ==
  ASSUME Tipos, Soltar
  PROVE  Tipos'
<1>1. PICK a : a = Siguiente(Principal) OBVIOUS
<1>2. PICK x : x = patotas[a.p].memoria_ocupada - TAMANIO_TRIPULANTE OBVIOUS
<1>3. /\ hilos' = Hecho(Principal) /\ reasignar_frames(a.p, x)
      /\ UNCHANGED <<datos, copia, caida, puntero_clock, mutex_incorporar_marco>>
  BY <1>1, <1>2 DEF Soltar, SinCambioEnMarcos
<1>4. TiposPatotas /\ TiposMarcos /\ TiposHilos BY DEF Tipos
<1>5. TiposPatotas' /\ Hilo' = Hilo /\ Marco' = Marco /\ Le_toca(Principal, Pasos)
  BY <1>1, <1>2, SoltarHace
<1>6. TiposHilos' BY <1>3, <1>4, <1>5, Avanza
<1>7. mapa_logico' \in [Marcos -> Marco']
  <2>1. PICK R : mapa_logico' = [m \in Marcos |-> IF m \in R THEN borrar_marco(mapa_logico[m]) ELSE mapa_logico[m]]
    BY <1>3 DEF reasignar_frames
  <2>2. ASSUME NEW m \in Marcos PROVE mapa_logico[m] \in Marco /\ borrar_marco(mapa_logico[m]) \in Marco
    <3>1. mapa_logico[m] \in Marco BY <1>4 DEF TiposMarcos
    <3>2. 0 \in 0 .. Len(patotas)
      <4>1. Len(patotas) \in Nat BY <1>4 DEF TiposPatotas
      <4>. QED BY <4>1
    <3>. QED BY <3>1, <3>2 DEF Marco, borrar_marco
  <2>. QED BY <1>5, <2>1, <2>2
<1>8. TiposMarcos' BY <1>3, <1>4, <1>7 DEF TiposMarcos
<1>9. caida' = caida BY <1>3
<1>. QED BY <1>5, <1>6, <1>8, <1>9 DEF Tipos

-----------------------------------------------------------------------------
(* The messages of the trips *)

\* The address of an access is looked up.
LEMMA UbicadoBien ==
  ASSUME TiposPatotas, NEW a \in Accesos, a.tipo \in Memoria
  PROVE  /\ Ubicado(a) \in Accesos /\ Ubicado(a).t = 0 /\ Ubicado(a).tipo = a.tipo
         /\ Ubicado(a).p = a.p /\ Ubicado(a).p \in 1 .. Len(patotas)
         /\ Ubicado(a).bytes = a.bytes /\ Ubicado(a).hechos = a.hechos
         /\ Ubicado(a).desde = Direccion(a)
<1>1. /\ a \in [tipo : Memoria \union Pasos, p : 1 .. Len(patotas), t : Nat, desde : Int, bytes : Nat, hechos : Nat]
      /\ a.t = 0 \/ <<a.p, a.t>> \in Existen
      /\ a.hechos < a.bytes
  BY DEF Accesos, AccesosDe
<1>2. Direccion(a) \in Int
  <2>1. CASE a.t = 0 BY <1>1, <2>1 DEF Direccion
  <2>2. CASE a.t # 0
    <3>1. a.t \in 1 .. Len(patotas[a.p].inicio) BY <1>1, <2>2 DEF Existen
    <3>2. patotas[a.p] \in Patota BY <1>1 DEF TiposPatotas
    <3>3. patotas[a.p].inicio[a.t] \in Int BY <3>1, <3>2 DEF Patota
    <3>. QED BY <1>1, <2>2, <3>3 DEF Direccion
  <2>. QED BY <2>1, <2>2
<1>3. PICK d : d = Direccion(a) OBVIOUS
<1>4. PICK u : u = [a EXCEPT !.t = 0, !.desde = d] OBVIOUS
<1>5. /\ u \in [tipo : Memoria \union Pasos, p : 1 .. Len(patotas), t : Nat, desde : Int, bytes : Nat, hechos : Nat]
      /\ u.t = 0 /\ u.tipo = a.tipo /\ u.p = a.p /\ u.bytes = a.bytes /\ u.hechos = a.hechos /\ u.desde = d
  BY <1>1, <1>2, <1>3, <1>4
<1>6. u.tipo \notin Pasos BY <1>5 DEF Pasos, Memoria
<1>7. u \in Accesos BY <1>1, <1>5, <1>6 DEF Accesos, AccesosDe
<1>8. u = Ubicado(a) BY <1>3, <1>4 DEF Ubicado
<1>. QED BY <1>1, <1>3, <1>5, <1>7, <1>8

\* What a thread that is at an access has.
LEMMA AccesoActual ==
  ASSUME TiposHilos, NEW h \in Hilos, hilos[h].accesos # << >>
  PROVE  /\ hilos[h] \in Hilo /\ hilos[h].accesos \in Seq(Accesos) /\ Siguiente(h) \in Accesos
         /\ hilos \in [Hilos -> Hilo]
         /\ h # Principal => \A i \in DOMAIN hilos[h].accesos : hilos[h].accesos[i].tipo \in Memoria
<1>1. hilos[h] \in Hilo /\ hilos \in [Hilos -> Hilo] BY DEF TiposHilos
<1>2. hilos[h].accesos \in Seq(Accesos) BY <1>1 DEF Hilo
<1>3. h # Principal => h \in Trips BY DEF Hilos
<1>. QED BY <1>1, <1>2, <1>3 DEF Siguiente, TiposHilos

\* rutina_hilos
LEMMA TiposRutina ==
  ASSUME Tipos, Nuevos, NEW trip \in Trips, rutina_hilos(trip[1], trip[2])
  PROVE  Tipos' /\ \A g \in Hilos : g # trip => hilos'[g] = hilos[g]
<1>1. PICK p : p = trip[1] OBVIOUS
<1>2. PICK t : t = trip[2] OBVIOUS
<1>3. trip = <<p, t>> /\ p \in 1 .. MaxPatotas /\ t \in 1 .. MaxTripulantes BY <1>1, <1>2 DEF Trips
<1>4. PICK acc \in NEXT_T(p, t) \union ACTU_P(p, t) \union ACTU_E(p, t) : Empezar(trip, acc)
  BY <1>1, <1>2, <1>3 DEF rutina_hilos
<1>5. /\ Ocioso(trip) /\ UNCHANGED <<patotas, tripulantes, faltan, pedidos, caida, pags>>
      /\ UNCHANGED <<puntero_clock, mutex_incorporar_marco, causas>>
  BY <1>1, <1>2, <1>3 DEF rutina_hilos, SinCambioEnMarcos
<1>6. TiposPatotas /\ TiposMarcos /\ TiposHilos BY DEF Tipos
<1>7. trip \in Hilos /\ trip # Principal
  <2>1. trip[1] # 0 BY DEF Trips
  <2>. QED BY <2>1 DEF Hilos, Principal
<1>8. <<p, t>> \in Existen
  <2>1. hilos[trip].pc # "sin_hilo" BY <1>5 DEF Ocioso
  <2>2. ~Sin(trip[1], trip[2]) BY <2>1 DEF Nuevos, SinHilo
  <2>. QED BY <1>1, <1>2, <2>2 DEF Sin
<1>9. Existen' = Existen /\ Accesos' = Accesos /\ Hilo' = Hilo /\ Marco' = Marco BY <1>5, Quietos
<1>10. /\ p \in 1 .. Len(patotas) /\ Len(patotas) \in Nat /\ t \in Nat /\ t # 0
       /\ patotas[p].tareas \in TamaniosTareas
  <2>1. p \in 1 .. Len(patotas) BY <1>8 DEF Existen
  <2>2. patotas \in Seq(Patota) BY <1>6 DEF TiposPatotas
  <2>3. patotas[p] \in Patota BY <2>1, <2>2
  <2>. QED BY <1>3, <2>1, <2>2, <2>3, Tamanios DEF Patota
<1>. DEFINE S == {a \in Accesos : a.tipo \in Memoria}
<1>11. DOMAIN Desplazamiento = {"TRIP_IP", "POS_X", "POS_Y", "INS_POINTER", "PCB_POINTER"}
  BY DEF Desplazamiento
<1>12. "leer" \in Memoria /\ "escribir" \in Memoria /\ "estado" \in Memoria /\ "tarea" \in Memoria BY DEF Memoria
<1>13. Lecturas(Len(patotas), Existen) \subseteq S BY DEF Lecturas, Accesos
<1>14. \A campo \in DOMAIN Desplazamiento : Leer(p, t, campo) \in S /\ Escribir(p, t, campo) \in S
  BY <1>8, <1>10, <1>12, <1>13, AccesoBien DEF Leer, Escribir
<1>15. EscribirEstado(p, t) \in S BY <1>8, <1>10, <1>12, <1>13, AccesoBien DEF EscribirEstado
<1>16. Acceso("tarea", p, 0, TAMANIO_PATOTA, patotas[p].tareas) \in S
  <2>1. PICK a : a = Acceso("tarea", p, 0, TAMANIO_PATOTA, patotas[p].tareas) OBVIOUS
  <2>2. patotas[p].tareas \in Nat /\ patotas[p].tareas > 0
    <3>1. PICK x : x = patotas[p].tareas OBVIOUS
    <3>2. x \in Nat /\ x # 0 BY <1>10, <3>1, Tamanios
    <3>. QED BY <3>1, <3>2
  <2>3. /\ a.tipo = "tarea" /\ a.t = 0 /\ a.hechos = 0 /\ a.bytes = patotas[p].tareas
        /\ a \in [tipo : Memoria \union Pasos, p : 1 .. Len(patotas), t : Nat, desde : Int, bytes : Nat, hechos : Nat]
    BY <1>10, <1>12, <2>1, <2>2, Tamanios DEF Acceso
  <2>4. "tarea" \notin Pasos BY DEF Pasos
  <2>5. a \in S BY <1>12, <2>2, <2>3, <2>4 DEF Accesos, AccesosDe
  <2>. QED BY <2>1, <2>5
<1>17. acc \in Seq(S)
  <2>. HIDE DEF S
  <2>0. /\ "INS_POINTER" \in DOMAIN Desplazamiento /\ "POS_X" \in DOMAIN Desplazamiento
        /\ "POS_Y" \in DOMAIN Desplazamiento
    BY <1>11
  <2>1. ASSUME acc \in NEXT_T(p, t) PROVE acc \in Seq(S)
    <3>1. PICK x : x = Leer(p, t, "INS_POINTER") OBVIOUS
    <3>2. PICK y : y = Acceso("tarea", p, 0, TAMANIO_PATOTA, patotas[p].tareas) OBVIOUS
    <3>3. PICK z : z = Escribir(p, t, "INS_POINTER") OBVIOUS
    <3>4. x \in S /\ y \in S /\ z \in S BY <1>14, <1>16, <2>0, <3>1, <3>2, <3>3
    <3>5. acc = <<x>> \/ acc = <<x, y, z>> BY <2>1, <3>1, <3>2, <3>3 DEF NEXT_T
    <3>6. <<x>> \in Seq(S) BY <3>4
    <3>7. <<x, y, z>> \in Seq(S) BY <3>4
    <3>. QED BY <3>5, <3>6, <3>7, Zenon
  <2>2. ASSUME acc \in ACTU_P(p, t) PROVE acc \in Seq(S)
    <3>1. PICK x : x = Escribir(p, t, "POS_X") OBVIOUS
    <3>2. PICK y : y = Escribir(p, t, "POS_Y") OBVIOUS
    <3>3. x \in S /\ y \in S BY <1>14, <2>0, <3>1, <3>2
    <3>4. acc = <<x, y>> BY <2>2, <3>1, <3>2 DEF ACTU_P
    <3>. QED BY <3>3, <3>4
  <2>3. ASSUME acc \in ACTU_E(p, t) PROVE acc \in Seq(S)
    <3>1. PICK x : x = EscribirEstado(p, t) OBVIOUS
    <3>2. acc = <<x>> \/ acc = << >> BY <2>3, <3>1 DEF ACTU_E
    <3>3. x \in S BY <1>15, <3>1
    <3>4. <<x>> \in Seq(S) BY <3>3
    <3>5. << >> \in Seq(S) OBVIOUS
    <3>. QED BY <3>2, <3>4, <3>5, Zenon
  <2>. QED BY <2>1, <2>2, <2>3
<1>18. acc \in Seq(Accesos') /\ \A i \in DOMAIN acc : acc[i].tipo \in Memoria
  <2>1. S \subseteq Accesos' BY <1>9
  <2>2. \A i \in DOMAIN acc : acc[i] \in S BY <1>17
  <2>3. acc \in Seq(Accesos')
    <3>. HIDE DEF S
    <3>. QED BY <1>17, <2>1, SeqMonotonic
  <2>. QED BY <2>2, <2>3
<1>19. TiposHilos' /\ \A g \in Hilos : g # trip => hilos'[g] = hilos[g]
  BY <1>4, <1>5, <1>6, <1>7, <1>9, <1>18, Empieza
<1>20. TiposPatotas' BY <1>5, <1>6, <1>9 DEF TiposPatotas
<1>21. TiposMarcos' BY <1>5, <1>6, <1>9 DEF TiposMarcos, pags
<1>22. caida' = caida BY <1>5
<1>. QED BY <1>19, <1>20, <1>21, <1>22 DEF Tipos

\* LeerDireccion
LEMMA TiposLeer ==
  ASSUME Tipos, NEW h \in Hilos, LeerDireccion(h)
  PROVE  /\ Tipos' /\ \A g \in Hilos : g # h => hilos'[g] = hilos[g]
         /\ hilos'[h].pc = "listo"
<1>1. /\ h # Principal /\ Le_toca(h, Memoria) /\ Siguiente(h).t # 0
      /\ hilos' = [hilos EXCEPT ![h].accesos = <<Ubicado(Head(@))>> \o Tail(@)]
      /\ UNCHANGED <<patotas, tripulantes, caida, pags, orden, puntero_clock, mutex_incorporar_marco, causas>>
  BY DEF LeerDireccion, SinCambioEnMarcos
<1>2. TiposPatotas /\ TiposMarcos /\ TiposHilos BY DEF Tipos
<1>3. /\ hilos[h] \in Hilo /\ hilos[h].accesos \in Seq(Accesos) /\ Siguiente(h) \in Accesos
      /\ hilos[h].accesos # << >> /\ hilos[h].pc = "listo" /\ Siguiente(h).tipo \in Memoria
      /\ hilos \in [Hilos -> Hilo]
      /\ \A i \in DOMAIN hilos[h].accesos : hilos[h].accesos[i].tipo \in Memoria
  <2>1. hilos[h].accesos # << >> /\ hilos[h].pc = "listo" /\ Siguiente(h).tipo \in Memoria BY <1>1 DEF Le_toca
  <2>. QED BY <1>1, <1>2, <2>1, AccesoActual
<1>4. PICK u : u = Ubicado(Siguiente(h)) OBVIOUS
<1>5. u \in Accesos /\ u.tipo \in Memoria BY <1>2, <1>3, <1>4, UbicadoBien
<1>6. PICK s : s = hilos[h].accesos OBVIOUS
<1>7. PICK v : v = <<u>> \o Tail(s) OBVIOUS
<1>8. v \in Seq(Accesos) /\ \A i \in DOMAIN v : v[i].tipo \in Memoria
  <2>1. <<u>> \in Seq(Accesos) /\ Len(<<u>>) = 1 /\ <<u>>[1] = u BY <1>5
  <2>2. PICK w : w = <<u>> OBVIOUS
  <2>3. /\ v \in Seq(Accesos)
        /\ \A i \in 1 .. Len(v) : IF i <= Len(w) THEN i \in 1 .. Len(w) /\ v[i] = w[i]
                                  ELSE i - Len(w) + 1 \in 2 .. Len(s) /\ v[i] = s[i - Len(w) + 1]
    <3>1. w \in Seq(Accesos) /\ s \in Seq(Accesos) /\ s # << >> /\ v = w \o Tail(s) BY <1>3, <1>6, <1>7, <2>1, <2>2
    <3>. QED BY <3>1, Cola
  <2>4. ASSUME NEW i \in 1 .. Len(v) PROVE v[i].tipo \in Memoria
    <3>1. CASE i <= 1
      <4>1. v[i] = u BY <2>1, <2>2, <2>3, <3>1
      <4>. QED BY <1>5, <4>1
    <3>2. CASE ~(i <= 1)
      <4>1. i - 1 + 1 \in 2 .. Len(s) /\ v[i] = s[i - 1 + 1] BY <2>1, <2>2, <2>3, <3>2
      <4>2. i - 1 + 1 \in DOMAIN s BY <1>3, <1>6, <4>1
      <4>. QED BY <1>3, <1>6, <4>1, <4>2
    <3>. QED BY <3>1, <3>2
  <2>. QED BY <2>3, <2>4
<1>9. PICK r : r = [hilos[h] EXCEPT !.accesos = v] OBVIOUS
<1>10. r \in Hilo /\ r.pc = "listo" /\ r.accesos = v BY <1>3, <1>8, <1>9 DEF Hilo
<1>11. hilos' = [hilos EXCEPT ![h] = r] BY <1>1, <1>4, <1>6, <1>7, <1>9 DEF Siguiente
<1>12. Existen' = Existen /\ Accesos' = Accesos /\ Hilo' = Hilo /\ Marco' = Marco BY <1>1, Quietos
<1>13. r.pc \notin EnAcceso BY <1>10 DEF EnAcceso
<1>14. TiposHilos' /\ hilos'[h] = r /\ \A g \in Hilos : g # h => hilos'[g] = hilos[g]
  BY <1>2, <1>8, <1>10, <1>11, <1>12, <1>13, UnHilo
<1>15. TiposPatotas' BY <1>1, <1>2, <1>12 DEF TiposPatotas, orden
<1>16. TiposMarcos' BY <1>1, <1>2, <1>12 DEF TiposMarcos, pags
<1>17. caida' = caida BY <1>1
<1>. QED BY <1>10, <1>14, <1>15, <1>16, <1>17 DEF Tipos

-----------------------------------------------------------------------------
(* The steps of an access *)

\* each element of v is an access to memory, or an element of s further on
DeAntes(v, w, s) ==
  \A i \in DOMAIN v : v[i].tipo \in Memoria
    \/ (i - Len(w) + 1 \in DOMAIN s /\ i - Len(w) + 1 # 1 /\ v[i] = s[i - Len(w) + 1])

\* The first access of a thread is replaced by those of w, which are accesses to memory.
LEMMA Reemplaza ==
  ASSUME TiposHilos, NEW h \in Hilos, hilos[h].accesos # << >>, NEW w \in Seq(Accesos),
         \A i \in DOMAIN w : w[i].tipo \in Memoria, NEW v, v = w \o Tail(hilos[h].accesos)
  PROVE  /\ v \in Seq(Accesos)
         /\ h # Principal => \A i \in DOMAIN v : v[i].tipo \in Memoria
         /\ w # << >> => v # << >> /\ Head(v) = w[1]
         /\ DeAntes(v, w, hilos[h].accesos)
<1>1. PICK s : s = hilos[h].accesos OBVIOUS
<1>2. s \in Seq(Accesos) /\ s # << >> /\ (h # Principal => \A i \in DOMAIN s : s[i].tipo \in Memoria)
  BY <1>1, AccesoActual
<1>3. v = w \o Tail(s) BY <1>1
<1>4. /\ v \in Seq(Accesos)
      /\ \A i \in 1 .. Len(v) : IF i <= Len(w) THEN i \in 1 .. Len(w) /\ v[i] = w[i]
                                ELSE i - Len(w) + 1 \in 2 .. Len(s) /\ v[i] = s[i - Len(w) + 1]
      /\ w # << >> => v # << >> /\ Head(v) = w[1]
  <2>1. v \in Seq(Accesos) BY <1>2, <1>3, Cola
  <2>2. \A i \in 1 .. Len(v) : IF i <= Len(w) THEN i \in 1 .. Len(w) /\ v[i] = w[i]
                                ELSE i - Len(w) + 1 \in 2 .. Len(s) /\ v[i] = s[i - Len(w) + 1]
    BY <1>2, <1>3, Cola
  <2>3. w # << >> => v # << >> /\ Head(v) = w[1] BY <1>2, <1>3, Cola
  <2>. QED BY <2>1, <2>2, <2>3
<1>5. ASSUME NEW i \in DOMAIN v
      PROVE  v[i].tipo \in Memoria \/ (i - Len(w) + 1 \in DOMAIN s /\ i - Len(w) + 1 # 1
                                         /\ v[i] = s[i - Len(w) + 1])
  <2>0. i \in 1 .. Len(v) BY <1>4
  <2>1. CASE i <= Len(w) BY <1>4, <2>0, <2>1
  <2>2. CASE ~(i <= Len(w))
    <3>1. i - Len(w) + 1 \in 2 .. Len(s) /\ v[i] = s[i - Len(w) + 1] BY <1>4, <2>0, <2>2
    <3>2. DOMAIN s = 1 .. Len(s) /\ Len(s) \in Nat BY <1>2
    <3>3. i - Len(w) + 1 \in 1 .. Len(s) /\ i - Len(w) + 1 # 1 BY <3>1, <3>2
    <3>. QED BY <3>1, <3>2, <3>3
  <2>. QED BY <2>1, <2>2
<1>6. DeAntes(v, w, s) BY <1>5 DEF DeAntes
<1>. QED BY <1>1, <1>2, <1>4, <1>5, <1>6

\* Nothing of page n changes but its semaphore and its bit of use.
MismaPagina(n) ==
  /\ mapa_logico'[n].presencia = mapa_logico[n].presencia
  /\ mapa_logico'[n].nro_real = mapa_logico[n].nro_real
  /\ mapa_logico'[n].duenio = mapa_logico[n].duenio
  /\ mapa_logico'[n].modificado = mapa_logico[n].modificado
MismoSemaforo(n) == mapa_logico'[n].semaforo_mutex = mapa_logico[n].semaforo_mutex
\* the other threads go on as they were
LosDemas(h) == \A g \in Hilos : g # h => hilos'[g] = hilos[g]

\* the accesses that are left to a thread are those that it had, after others to memory
Corrida(h) ==
  \E d \in Int : \A i \in DOMAIN hilos'[h].accesos :
    hilos'[h].accesos[i].tipo \in Memoria
      \/ (i + d \in DOMAIN hilos[h].accesos /\ hilos'[h].accesos[i] = hilos[h].accesos[i + d])

\* A thread whose accesses stay as they are.
LEMMA CorridaMisma ==
  ASSUME TiposHilos, NEW h \in Hilos, hilos'[h].accesos = hilos[h].accesos
  PROVE  Corrida(h)
<1>1. PICK s : s = hilos[h].accesos OBVIOUS
<1>2. s \in Seq(Accesos) BY <1>1 DEF TiposHilos, Hilo
<1>3. \A i \in DOMAIN s : i + 0 \in DOMAIN s /\ s[i] = s[i + 0] BY <1>2
<1>4. 0 \in Int OBVIOUS
<1>. QED BY <1>1, <1>3, <1>4 DEF Corrida

\* A thread that replaces its next access by what is left of it.
LEMMA CorridaNueva ==
  ASSUME TiposHilos, NEW h \in Hilos, hilos[h].accesos # << >>, NEW w \in Seq(Accesos),
         \A i \in DOMAIN w : w[i].tipo \in Memoria, hilos'[h].accesos = w \o Tail(hilos[h].accesos)
  PROVE  Corrida(h)
<1>1. PICK v : v = hilos'[h].accesos OBVIOUS
<1>2. v = w \o Tail(hilos[h].accesos) BY <1>1
<1>3. v \in Seq(Accesos) BY <1>2, Reemplaza
<1>4. \A i \in DOMAIN v : v[i].tipo \in Memoria
              \/ (i - Len(w) + 1 \in DOMAIN hilos[h].accesos /\ i - Len(w) + 1 # 1
                    /\ v[i] = hilos[h].accesos[i - Len(w) + 1])
  <2>1. DeAntes(v, w, hilos[h].accesos) BY <1>2, Reemplaza
  <2>. QED BY <2>1 DEF DeAntes
<1>5. PICK d : d = 1 - Len(w) OBVIOUS
<1>6. Len(w) \in Nat /\ d \in Int BY <1>5
<1>7. \A i \in DOMAIN v : i - Len(w) + 1 = i + d
  <2>1. DOMAIN v \subseteq Nat BY <1>3
  <2>. QED BY <1>5, <1>6, <2>1
<1>8. \A i \in DOMAIN v : v[i].tipo \in Memoria
              \/ (i + d \in DOMAIN hilos[h].accesos /\ v[i] = hilos[h].accesos[i + d])
  BY <1>4, <1>7
<1>. QED BY <1>1, <1>6, <1>8 DEF Corrida

\* a wait on the semaphore of m
Restado(m) ==
  /\ mapa_logico[m].semaforo_mutex > 0
  /\ mapa_logico'[m].semaforo_mutex = mapa_logico[m].semaforo_mutex - 1
  /\ \A n \in Marcos : MismaPagina(n) /\ (n # m => MismoSemaforo(n))

\* What a wait on the semaphore of a page changes in the table.
LEMMA RestarBien ==
  ASSUME TiposMarcos, NEW m \in Marcos, Libre(m), mapa_logico' = Restar(m), Marco' = Marco
  PROVE  mapa_logico' \in [Marcos -> Marco'] /\ Restado(m)
<1>1. mapa_logico \in [Marcos -> Marco] BY DEF TiposMarcos
<1>2. mapa_logico[m] \in Marco /\ mapa_logico[m].semaforo_mutex > 0 BY <1>1 DEF Libre
<1>3. PICK x : x = [mapa_logico[m] EXCEPT !.semaforo_mutex = @ - 1] OBVIOUS
<1>4. /\ x \in Marco /\ x.semaforo_mutex = mapa_logico[m].semaforo_mutex - 1
      /\ x.presencia = mapa_logico[m].presencia /\ x.nro_real = mapa_logico[m].nro_real
      /\ x.duenio = mapa_logico[m].duenio /\ x.modificado = mapa_logico[m].modificado
  <2>1. mapa_logico[m].semaforo_mutex - 1 \in Nat BY <1>2 DEF Marco
  <2>. QED BY <1>2, <1>3, <2>1 DEF Marco
<1>5. mapa_logico' = [mapa_logico EXCEPT ![m] = x] BY <1>3 DEF Restar
<1>6. mapa_logico'[m] = x /\ \A n \in Marcos : n # m => mapa_logico'[n] = mapa_logico[n]
  BY <1>1, <1>5
<1>7. \A n \in Marcos : MismaPagina(n) /\ (n # m => MismoSemaforo(n))
  BY <1>4, <1>6 DEF MismaPagina, MismoSemaforo
<1>. QED BY <1>1, <1>2, <1>4, <1>5, <1>6, <1>7 DEF Restado

\* Tomar
TomaHecha(h, m) ==
  /\ hilos'[h].pc \in {"copiar", "incorporar"} /\ hilos'[h].marco = m
  /\ hilos'[h].pc = "incorporar" => ~mapa_logico[m].presencia
  /\ hilos'[h].pc = "copiar" /\ Head(hilos'[h].accesos).tipo # "tarea" => mapa_logico[m].presencia
  /\ Restado(m) /\ UNCHANGED caida

\* A thread waits for the semaphore of a page: the types.
LEMMA TiposTomar ==
  ASSUME Tipos, NEW h \in Hilos, Tomar(h)
  PROVE  /\ Tipos' /\ LosDemas(h) /\ Corrida(h)
         /\ \/ caida' = "fuera_de_tabla" /\ UNCHANGED <<hilos, mapa_logico>>
            \/ \E m \in Marcos : TomaHecha(h, m)
<1>1. /\ Le_toca(h, Memoria)
      /\ UNCHANGED <<puntero_clock, mutex_incorporar_marco, causas, patotas,
                     tripulantes, orden, datos, copia, sinMarca>>
  BY DEF Tomar
<1>2. TiposPatotas /\ TiposMarcos /\ TiposHilos BY DEF Tipos
<1>3. Existen' = Existen /\ Accesos' = Accesos /\ Hilo' = Hilo /\ Marco' = Marco BY <1>1, Quietos
<1>4. /\ hilos[h] \in Hilo /\ Siguiente(h) \in Accesos /\ hilos \in [Hilos -> Hilo]
      /\ hilos[h].accesos # << >> /\ hilos[h].pc = "listo" /\ Siguiente(h).tipo \in Memoria
  <2>1. hilos[h].accesos # << >> /\ hilos[h].pc = "listo" /\ Siguiente(h).tipo \in Memoria BY <1>1 DEF Le_toca
  <2>. QED BY <1>2, <2>1, AccesoActual
<1>5. PICK a : a = Ubicado(Siguiente(h)) OBVIOUS
<1>6. a \in Accesos /\ a.t = 0 /\ a.tipo \in Memoria /\ a.p \in 1 .. Len(patotas) BY <1>2, <1>4, <1>5, UbicadoBien
<1>7. PICK n : n = Pagina(a) + 1 OBVIOUS
<1>8. TiposPatotas' BY <1>1, <1>2, <1>3 DEF TiposPatotas, orden
<1>9. CASE n \notin DOMAIN patotas[a.p].frames
  <2>1. caida' = "fuera_de_tabla" /\ UNCHANGED <<hilos, mapa_logico>> BY <1>5, <1>7, <1>9 DEF Tomar
  <2>2. TiposHilos' BY <1>2, <1>3, <2>1 DEF TiposHilos, Siguiente
  <2>3. TiposMarcos' BY <1>1, <1>2, <1>3, <2>1 DEF TiposMarcos
  <2>4. Corrida(h) BY <1>2, <2>1, CorridaMisma
  <2>. QED BY <1>8, <2>1, <2>2, <2>3, <2>4 DEF Tipos, LosDemas, CaidasDeAcceso
<1>10. CASE n \in DOMAIN patotas[a.p].frames
  <2>1. PICK m : m = patotas[a.p].frames[n] OBVIOUS
  <2>2. m \in Marcos
    <3>1. patotas \in Seq(Patota) BY <1>2 DEF TiposPatotas
    <3>3. patotas[a.p] \in Patota BY <1>6, <3>1
    <3>2. patotas[a.p].frames \in Seq(Marcos) BY <3>3 DEF Patota
    <3>. QED BY <1>10, <2>1, <3>2
  <2>3. PICK v : v = <<a>> \o Tail(hilos[h].accesos) OBVIOUS
  <2>4. PICK pc : pc = IF a.tipo = "tarea" \/ mapa_logico[m].presencia THEN "copiar" ELSE "incorporar" OBVIOUS
  <2>5. /\ Libre(m) /\ mapa_logico' = Restar(m) /\ UNCHANGED caida
        /\ hilos' = [hilos EXCEPT ![h].marco = m, ![h].accesos = v, ![h].pc = pc]
    BY <1>5, <1>7, <1>10, <2>1, <2>3, <2>4 DEF Tomar
  <2>6. v \in Seq(Accesos) /\ (h # Principal => \A i \in DOMAIN v : v[i].tipo \in Memoria)
        /\ v # << >> /\ Head(v) = a
    <3>1. PICK w : w = <<a>> OBVIOUS
    <3>2. w \in Seq(Accesos) /\ (\A i \in DOMAIN w : w[i].tipo \in Memoria) /\ w # << >> /\ w[1] = a
      BY <1>6, <3>1
    <3>3. v = w \o Tail(hilos[h].accesos) BY <2>3, <3>1
    <3>4. v \in Seq(Accesos) BY <1>2, <1>4, <3>2, <3>3, Reemplaza
    <3>5. h # Principal => \A i \in DOMAIN v : v[i].tipo \in Memoria BY <1>2, <1>4, <3>2, <3>3, Reemplaza
    <3>6. v # << >> /\ Head(v) = w[1] BY <1>2, <1>4, <3>2, <3>3, Reemplaza
    <3>. QED BY <3>2, <3>4, <3>5, <3>6
  <2>7. PICK r : r = [hilos[h] EXCEPT !.marco = m, !.accesos = v, !.pc = pc] OBVIOUS
  <2>8. r \in Hilo /\ r.pc = pc /\ r.accesos = v /\ r.marco = m
    <3>1. pc \in Pcs BY <2>4 DEF Pcs
    <3>. QED BY <1>4, <2>2, <2>6, <2>7, <3>1 DEF Hilo
  <2>9. hilos' = [hilos EXCEPT ![h] = r] BY <1>4, <2>5, <2>7
  <2>10. /\ pc \in {"copiar", "incorporar"} /\ (pc = "incorporar" => ~mapa_logico[m].presencia)
         /\ (pc = "copiar" /\ a.tipo # "tarea" => mapa_logico[m].presencia)
         /\ (pc = "incorporar" => a.tipo # "tarea")
    BY <2>4
  <2>11. TiposHilos' /\ hilos'[h] = r /\ LosDemas(h)
    <3>1. r.pc \in EnAcceso =>
           /\ r.accesos # << >> /\ Head(r.accesos).tipo \in Memoria /\ Head(r.accesos).t = 0
           /\ r.pc # "copiar" => Head(r.accesos).tipo # "tarea"
      BY <1>6, <2>6, <2>8, <2>10
    <3>2. h # Principal => \A i \in DOMAIN r.accesos : r.accesos[i].tipo \in Memoria BY <2>6, <2>8
    <3>. QED BY <1>2, <1>3, <2>8, <2>9, <3>1, <3>2, UnHilo DEF LosDemas
  <2>12. mapa_logico' \in [Marcos -> Marco'] /\ Restado(m) BY <1>2, <1>3, <2>2, <2>5, RestarBien
  <2>13. TiposMarcos' BY <1>1, <1>2, <2>12 DEF TiposMarcos
  <2>14. TomaHecha(h, m) BY <2>5, <2>6, <2>8, <2>10, <2>11, <2>12 DEF TomaHecha
  <2>15. caida' = caida BY <2>5
  <2>16. Corrida(h)
    <3>1. PICK w : w = <<a>> OBVIOUS
    <3>2. w \in Seq(Accesos) /\ (\A i \in DOMAIN w : w[i].tipo \in Memoria) BY <1>6, <3>1
    <3>3. hilos'[h].accesos = w \o Tail(hilos[h].accesos) BY <2>3, <2>8, <2>11, <3>1
    <3>. QED BY <1>2, <1>4, <3>2, <3>3, CorridaNueva
  <2>. QED BY <1>8, <2>2, <2>11, <2>13, <2>14, <2>15, <2>16 DEF Tipos
<1>. QED BY <1>9, <1>10

\* incorporar_marco
IncorporaHecha(h) ==
  /\ hilos[h].pc = "incorporar" /\ mutex_incorporar_marco > 0
  /\ mutex_incorporar_marco' = mutex_incorporar_marco - 1
  /\ UNCHANGED <<puntero_clock, causas, patotas, tripulantes, orden, pags>>
  /\ \/ UNCHANGED hilos /\ caida' = "lru"
     \/ /\ hilos'[h].pc = "reloj" /\ hilos'[h].marco = hilos[h].marco /\ UNCHANGED caida
        /\ hilos'[h].accesos = hilos[h].accesos
     \/ /\ hilos'[h].pc = "libre" /\ hilos'[h].marco = hilos[h].marco /\ UNCHANGED caida
        /\ hilos'[h].accesos = hilos[h].accesos

\* It sees a free frame or looks for a victim: the types.
LEMMA TiposIncorporar ==
  ASSUME Tipos, NEW h \in Hilos, incorporar_marco(h)
  PROVE  Tipos' /\ LosDemas(h) /\ IncorporaHecha(h)
<1>1. /\ hilos[h].pc = "incorporar" /\ mutex_incorporar_marco > 0
      /\ mutex_incorporar_marco' = mutex_incorporar_marco - 1
      /\ UNCHANGED <<puntero_clock, causas, patotas, tripulantes, orden, pags>>
  BY DEF incorporar_marco
<1>2. TiposPatotas /\ TiposMarcos /\ TiposHilos BY DEF Tipos
<1>3. Existen' = Existen /\ Accesos' = Accesos /\ Hilo' = Hilo /\ Marco' = Marco BY <1>1, Quietos
<1>4. /\ hilos[h] \in Hilo /\ hilos \in [Hilos -> Hilo] /\ hilos[h].accesos # << >>
      /\ Siguiente(h).tipo \in Memoria /\ Siguiente(h).t = 0 /\ Siguiente(h).tipo # "tarea"
      /\ h # Principal => \A i \in DOMAIN hilos[h].accesos : hilos[h].accesos[i].tipo \in Memoria
  <2>1. hilos[h].pc \in EnAcceso /\ hilos[h].pc # "copiar" BY <1>1 DEF EnAcceso
  <2>2. /\ hilos[h].accesos # << >> /\ Siguiente(h).tipo \in Memoria /\ Siguiente(h).t = 0
        /\ Siguiente(h).tipo # "tarea"
    BY <1>2, <2>1 DEF TiposHilos
  <2>. QED BY <1>2, <2>2, AccesoActual
<1>5. TiposPatotas' BY <1>1, <1>2, <1>3 DEF TiposPatotas, orden
<1>6. TiposMarcos'
  <2>1. mutex_incorporar_marco' \in 0 .. 1 BY <1>1, <1>2 DEF TiposMarcos
  <2>. QED BY <1>1, <1>2, <1>3, <2>1 DEF TiposMarcos, pags
<1>7. CASE FisicosLibres # {} /\ hilos' = [hilos EXCEPT ![h].pc = "libre"] /\ UNCHANGED caida
  <2>4. PICK r : r = [hilos[h] EXCEPT !.pc = "libre"] OBVIOUS
  <2>5. r \in Hilo /\ r.pc = "libre" /\ r.accesos = hilos[h].accesos /\ r.marco = hilos[h].marco
    BY <1>4, <2>4 DEF Hilo, Pcs
  <2>6. hilos' = [hilos EXCEPT ![h] = r] BY <1>4, <1>7, <2>4
  <2>7. TiposHilos' /\ hilos'[h] = r /\ LosDemas(h)
    <3>1. r.pc \in EnAcceso =>
           /\ r.accesos # << >> /\ Head(r.accesos).tipo \in Memoria /\ Head(r.accesos).t = 0
           /\ r.pc # "copiar" => Head(r.accesos).tipo # "tarea"
      BY <1>4, <2>5 DEF Siguiente
    <3>2. h # Principal => \A i \in DOMAIN r.accesos : r.accesos[i].tipo \in Memoria BY <1>4, <2>5
    <3>. QED BY <1>2, <1>3, <2>5, <2>6, <3>1, <3>2, UnHilo DEF LosDemas
  <2>8. IncorporaHecha(h) BY <1>1, <1>7, <2>5, <2>7 DEF IncorporaHecha
  <2>. QED BY <1>5, <1>6, <1>7, <2>7, <2>8 DEF Tipos
<1>8. CASE FisicosLibres = {} /\ hilos' = [hilos EXCEPT ![h].pc = "reloj"] /\ UNCHANGED caida
  <2>4. PICK r : r = [hilos[h] EXCEPT !.pc = "reloj"] OBVIOUS
  <2>5. r \in Hilo /\ r.pc = "reloj" /\ r.accesos = hilos[h].accesos /\ r.marco = hilos[h].marco
    BY <1>4, <2>4 DEF Hilo, Pcs
  <2>6. hilos' = [hilos EXCEPT ![h] = r] BY <1>4, <1>8, <2>4
  <2>7. TiposHilos' /\ hilos'[h] = r /\ LosDemas(h)
    <3>1. r.pc \in EnAcceso =>
           /\ r.accesos # << >> /\ Head(r.accesos).tipo \in Memoria /\ Head(r.accesos).t = 0
           /\ r.pc # "copiar" => Head(r.accesos).tipo # "tarea"
      BY <1>4, <2>5 DEF Siguiente
    <3>2. h # Principal => \A i \in DOMAIN r.accesos : r.accesos[i].tipo \in Memoria BY <1>4, <2>5
    <3>. QED BY <1>2, <1>3, <2>5, <2>6, <3>1, <3>2, UnHilo DEF LosDemas
  <2>8. IncorporaHecha(h) BY <1>1, <1>8, <2>5, <2>7 DEF IncorporaHecha
  <2>. QED BY <1>5, <1>6, <1>8, <2>7, <2>8 DEF Tipos
<1>9. CASE FisicosLibres = {} /\ UNCHANGED hilos /\ caida' = "lru"
  <2>1. TiposHilos' BY <1>2, <1>3, <1>9 DEF TiposHilos, Siguiente
  <2>2. IncorporaHecha(h) BY <1>1, <1>9 DEF IncorporaHecha
  <2>. QED BY <1>5, <1>6, <1>9, <2>1, <2>2 DEF Tipos, LosDemas, CaidasDeAcceso
<1>. QED BY <1>7, <1>8, <1>9 DEF incorporar_marco

\* obtener_marco_libre_fisico
LibreHecha(h) ==
  /\ hilos[h].pc = "libre"
  /\ UNCHANGED <<puntero_clock, mutex_incorporar_marco, causas, patotas, tripulantes, orden, pags>>
  /\ \/ UNCHANGED hilos /\ caida' = "sin_libre"
     \/ /\ hilos'[h].pc = "cambiar" /\ hilos'[h].marco = hilos[h].marco /\ ~hilos'[h].tomada
        /\ hilos'[h].accesos = hilos[h].accesos /\ UNCHANGED caida

\* It takes the first free frame, if there still is one: the types.
LEMMA TiposLibre ==
  ASSUME Tipos, NEW h \in Hilos, obtener_marco_libre_fisico(h)
  PROVE  Tipos' /\ LosDemas(h) /\ LibreHecha(h)
<1>1. /\ hilos[h].pc = "libre"
      /\ UNCHANGED <<puntero_clock, mutex_incorporar_marco, causas, patotas, tripulantes, orden, pags>>
  BY DEF obtener_marco_libre_fisico, SinCambioEnMarcos
<1>2. TiposPatotas /\ TiposMarcos /\ TiposHilos BY DEF Tipos
<1>3. Existen' = Existen /\ Accesos' = Accesos /\ Hilo' = Hilo /\ Marco' = Marco BY <1>1, Quietos
<1>4. /\ hilos[h] \in Hilo /\ hilos \in [Hilos -> Hilo] /\ hilos[h].accesos # << >>
      /\ Siguiente(h).tipo \in Memoria /\ Siguiente(h).t = 0 /\ Siguiente(h).tipo # "tarea"
      /\ h # Principal => \A i \in DOMAIN hilos[h].accesos : hilos[h].accesos[i].tipo \in Memoria
  <2>1. hilos[h].pc \in EnAcceso /\ hilos[h].pc # "copiar" BY <1>1 DEF EnAcceso
  <2>2. /\ hilos[h].accesos # << >> /\ Siguiente(h).tipo \in Memoria /\ Siguiente(h).t = 0
        /\ Siguiente(h).tipo # "tarea"
    BY <1>2, <2>1 DEF TiposHilos
  <2>. QED BY <1>2, <2>2, AccesoActual
<1>5. TiposPatotas' BY <1>1, <1>2, <1>3 DEF TiposPatotas, orden
<1>6. TiposMarcos' BY <1>1, <1>2, <1>3 DEF TiposMarcos, pags
<1>7. CASE FisicosLibres # {}
  <2>1. PICK v : v = MinSet(FisicosLibres) OBVIOUS
  <2>2. v \in Marcos
    <3>1. FisicosLibres \in SUBSET Nat /\ FisicosLibres \subseteq Marcos BY LibresFinitos DEF FisicosLibres
    <3>2. \E x \in FisicosLibres : \A y \in FisicosLibres : x <= y BY <1>7, <3>1, MenorDeNat
    <3>3. v \in FisicosLibres BY <2>1, <3>2 DEF MinSet
    <3>. QED BY <3>1, <3>3
  <2>3. /\ hilos' = [hilos EXCEPT ![h].pc = "cambiar", ![h].victima = v, ![h].tomada = FALSE]
        /\ UNCHANGED caida
    BY <1>7, <2>1 DEF obtener_marco_libre_fisico
  <2>4. PICK r : r = [hilos[h] EXCEPT !.pc = "cambiar", !.victima = v, !.tomada = FALSE] OBVIOUS
  <2>5. /\ r \in Hilo /\ r.pc = "cambiar" /\ r.accesos = hilos[h].accesos /\ r.marco = hilos[h].marco
        /\ r.tomada = FALSE
    BY <1>4, <2>2, <2>4 DEF Hilo, Pcs
  <2>6. hilos' = [hilos EXCEPT ![h] = r] BY <1>4, <2>3, <2>4
  <2>7. TiposHilos' /\ hilos'[h] = r /\ LosDemas(h)
    <3>1. r.pc \in EnAcceso =>
           /\ r.accesos # << >> /\ Head(r.accesos).tipo \in Memoria /\ Head(r.accesos).t = 0
           /\ r.pc # "copiar" => Head(r.accesos).tipo # "tarea"
      BY <1>4, <2>5 DEF Siguiente
    <3>2. h # Principal => \A i \in DOMAIN r.accesos : r.accesos[i].tipo \in Memoria BY <1>4, <2>5
    <3>. QED BY <1>2, <1>3, <2>5, <2>6, <3>1, <3>2, UnHilo DEF LosDemas
  <2>8. LibreHecha(h) BY <1>1, <2>3, <2>5, <2>7 DEF LibreHecha
  <2>9. caida' = caida BY <2>3
  <2>. QED BY <1>5, <1>6, <2>7, <2>8, <2>9 DEF Tipos
<1>8. CASE FisicosLibres = {}
  <2>1. UNCHANGED hilos /\ caida' = "sin_libre" BY <1>8 DEF obtener_marco_libre_fisico
  <2>2. TiposHilos' BY <1>2, <1>3, <2>1 DEF TiposHilos, Siguiente
  <2>3. LibreHecha(h) BY <1>1, <2>1 DEF LibreHecha
  <2>. QED BY <1>5, <1>6, <2>1, <2>2, <2>3 DEF Tipos, LosDemas, CaidasDeAcceso
<1>. QED BY <1>7, <1>8

\* reemplazo_por_clock
RelojHecho(h) ==
  /\ hilos[h].pc = "reloj"
  /\ \/ UNCHANGED hilos /\ \A n \in Marcos : MismaPagina(n) /\ MismoSemaforo(n)
     \/ /\ hilos'[h].pc = "cambiar" /\ hilos'[h].marco = hilos[h].marco /\ hilos'[h].tomada
        /\ hilos'[h].victima \in Marcos /\ Restado(hilos'[h].victima)
        /\ hilos'[h].accesos = hilos[h].accesos
  /\ UNCHANGED <<mutex_incorporar_marco, causas, patotas, tripulantes, orden, caida, datos, copia, sinMarca>>

\* A turn of the clock: the types.
LEMMA TiposReloj ==
  ASSUME Tipos, NEW h \in Hilos, reemplazo_por_clock(h)
  PROVE  Tipos' /\ LosDemas(h) /\ RelojHecho(h)
<1>1. PICK m : m = puntero_clock OBVIOUS
<1>2. /\ hilos[h].pc = "reloj" /\ Libre(m) /\ puntero_clock' = Avanzar(puntero_clock)
      /\ UNCHANGED <<mutex_incorporar_marco, causas, patotas, tripulantes, orden, caida, datos, copia, sinMarca>>
  BY <1>1 DEF reemplazo_por_clock
<1>3. TiposPatotas /\ TiposMarcos /\ TiposHilos BY DEF Tipos
<1>4. Existen' = Existen /\ Accesos' = Accesos /\ Hilo' = Hilo /\ Marco' = Marco BY <1>2, Quietos
<1>5. m \in Marcos /\ puntero_clock' \in Fisicos
  <2>1. m \in Fisicos BY <1>1, <1>3 DEF TiposMarcos
  <2>2. PICK F : F = frames_en_memoria OBVIOUS
  <2>3. F \in Nat /\ F > 0
    <3>1. F \in 1 .. frames_totales /\ frames_totales \in Nat BY <2>2, Tamanios
    <3>. QED BY <3>1
  <2>4. m \in 0 .. F - 1 BY <2>1, <2>2 DEF Fisicos
  <2>5. (m + 1) % F \in 0 .. F - 1 BY <2>3, <2>4
  <2>. QED BY <1>1, <1>2, <2>1, <2>2, <2>5, LibresFinitos DEF Avanzar, Fisicos
<1>6. /\ hilos[h] \in Hilo /\ hilos \in [Hilos -> Hilo] /\ hilos[h].accesos # << >>
      /\ Siguiente(h).tipo \in Memoria /\ Siguiente(h).t = 0 /\ Siguiente(h).tipo # "tarea"
      /\ h # Principal => \A i \in DOMAIN hilos[h].accesos : hilos[h].accesos[i].tipo \in Memoria
  <2>1. hilos[h].pc \in EnAcceso /\ hilos[h].pc # "copiar" BY <1>2 DEF EnAcceso
  <2>2. /\ hilos[h].accesos # << >> /\ Siguiente(h).tipo \in Memoria /\ Siguiente(h).t = 0
        /\ Siguiente(h).tipo # "tarea"
    BY <1>3, <2>1 DEF TiposHilos
  <2>. QED BY <1>3, <2>2, AccesoActual
<1>7. TiposPatotas' BY <1>2, <1>3, <1>4 DEF TiposPatotas, orden
<1>8. mapa_logico \in [Marcos -> Marco] BY <1>3 DEF TiposMarcos
<1>9. CASE mapa_logico[m].bit_uso
  <2>1. mapa_logico' = [mapa_logico EXCEPT ![m].bit_uso = FALSE] /\ UNCHANGED hilos
    BY <1>1, <1>9 DEF reemplazo_por_clock
  <2>2. PICK x : x = [mapa_logico[m] EXCEPT !.bit_uso = FALSE] OBVIOUS
  <2>3. mapa_logico' = [mapa_logico EXCEPT ![m] = x] BY <2>1, <2>2
  <2>4. mapa_logico[m] \in Marco BY <1>5, <1>8
  <2>5. /\ x \in Marco /\ x.semaforo_mutex = mapa_logico[m].semaforo_mutex
        /\ x.presencia = mapa_logico[m].presencia /\ x.nro_real = mapa_logico[m].nro_real
        /\ x.duenio = mapa_logico[m].duenio /\ x.modificado = mapa_logico[m].modificado
    BY <2>2, <2>4 DEF Marco
  <2>6. /\ mapa_logico' \in [Marcos -> Marco'] /\ mapa_logico'[m] = x
        /\ \A n \in Marcos : n # m => mapa_logico'[n] = mapa_logico[n]
    BY <1>4, <1>5, <1>8, <2>3, <2>5
  <2>7. ASSUME NEW n \in Marcos PROVE MismaPagina(n) /\ MismoSemaforo(n)
    <3>1. CASE n = m BY <2>5, <2>6, <3>1 DEF MismaPagina, MismoSemaforo
    <3>2. CASE n # m BY <2>6, <3>2 DEF MismaPagina, MismoSemaforo
    <3>. QED BY <3>1, <3>2
  <2>8. TiposMarcos' BY <1>2, <1>3, <1>5, <2>6 DEF TiposMarcos
  <2>9. TiposHilos' BY <1>3, <1>4, <2>1 DEF TiposHilos, Siguiente
  <2>10. RelojHecho(h) BY <1>2, <2>1, <2>7 DEF RelojHecho
  <2>. QED BY <1>2, <1>7, <2>1, <2>8, <2>9, <2>10 DEF Tipos, LosDemas
<1>10. CASE ~mapa_logico[m].bit_uso
  <2>1. /\ mapa_logico' = Restar(m)
        /\ hilos' = [hilos EXCEPT ![h].pc = "cambiar", ![h].victima = m, ![h].tomada = TRUE]
    BY <1>1, <1>10 DEF reemplazo_por_clock
  <2>2. PICK r : r = [hilos[h] EXCEPT !.pc = "cambiar", !.victima = m, !.tomada = TRUE] OBVIOUS
  <2>3. /\ r \in Hilo /\ r.pc = "cambiar" /\ r.accesos = hilos[h].accesos /\ r.marco = hilos[h].marco
        /\ r.tomada = TRUE /\ r.victima = m
    BY <1>5, <1>6, <2>2 DEF Hilo, Pcs
  <2>4. hilos' = [hilos EXCEPT ![h] = r] BY <1>6, <2>1, <2>2
  <2>5. TiposHilos' /\ hilos'[h] = r /\ LosDemas(h)
    <3>1. r.pc \in EnAcceso =>
           /\ r.accesos # << >> /\ Head(r.accesos).tipo \in Memoria /\ Head(r.accesos).t = 0
           /\ r.pc # "copiar" => Head(r.accesos).tipo # "tarea"
      BY <1>6, <2>3 DEF Siguiente
    <3>2. h # Principal => \A i \in DOMAIN r.accesos : r.accesos[i].tipo \in Memoria BY <1>6, <2>3
    <3>. QED BY <1>3, <1>4, <2>3, <2>4, <3>1, <3>2, UnHilo DEF LosDemas
  <2>6. mapa_logico' \in [Marcos -> Marco'] /\ Restado(m) BY <1>2, <1>3, <1>4, <1>5, <2>1, RestarBien
  <2>7. TiposMarcos' BY <1>2, <1>3, <1>5, <2>6 DEF TiposMarcos
  <2>8. RelojHecho(h) BY <1>2, <1>5, <2>3, <2>5, <2>6 DEF RelojHecho
  <2>. QED BY <1>2, <1>7, <2>5, <2>7, <2>8 DEF Tipos
<1>. QED BY <1>9, <1>10

\* Cambiar
CambioHecho(h, m, v) ==
  /\ hilos[h].pc = "cambiar" /\ hilos'[h].pc = "traer" /\ hilos'[h].marco = m
  /\ hilos'[h].accesos = hilos[h].accesos
  /\ \A n \in Marcos : n # m /\ n # v => MismaPagina(n) /\ MismoSemaforo(n)
  /\ \A n \in Marcos : mapa_logico'[n].duenio = mapa_logico[n].duenio
  /\ mapa_logico'[m].presencia /\ mapa_logico'[m].nro_real = mapa_logico[v].nro_real
  /\ mapa_logico'[v].semaforo_mutex = mapa_logico[v].semaforo_mutex + 1
  /\ m # v => /\ MismoSemaforo(m) /\ mapa_logico'[m].modificado = mapa_logico[m].modificado
              /\ ~mapa_logico'[v].presencia
  /\ \A n \in Marcos : n # v => copia'[n] = copia[n]
  /\ copia'[v] = IF mapa_logico[v].modificado THEN v \in datos[mapa_logico[v].nro_real] ELSE copia[v]
  /\ causas' = causas \union (IF mapa_logico[v].presencia THEN {} ELSE {"ausente"})
                       \union (IF hilos[h].tomada THEN {} ELSE {"sin_tomar"})
  /\ UNCHANGED <<puntero_clock, mutex_incorporar_marco, sinMarca, datos, patotas, tripulantes, orden, caida>>

\* The frame changes hands: the types.
LEMMA TiposCambiar ==
  ASSUME Tipos, NEW h \in Hilos, Cambiar(h)
  PROVE  Tipos' /\ LosDemas(h) /\ CambioHecho(h, hilos[h].marco, hilos[h].victima)
<1>1. PICK m : m = hilos[h].marco OBVIOUS
<1>2. PICK v : v = hilos[h].victima OBVIOUS
<1>3. /\ hilos[h].pc = "cambiar" /\ copia' = hacer_backup_marco(v) /\ mapa_logico' = Entregar(m, v)
      /\ hilos' = [hilos EXCEPT ![h].pc = "traer"]
      /\ causas' = causas \union (IF mapa_logico[v].presencia THEN {} ELSE {"ausente"})
                          \union (IF hilos[h].tomada THEN {} ELSE {"sin_tomar"})
      /\ UNCHANGED <<puntero_clock, mutex_incorporar_marco, sinMarca, datos, patotas, tripulantes, orden, caida>>
  BY <1>1, <1>2 DEF Cambiar
<1>4. TiposPatotas /\ TiposMarcos /\ TiposHilos BY DEF Tipos
<1>5. Existen' = Existen /\ Accesos' = Accesos /\ Hilo' = Hilo /\ Marco' = Marco BY <1>3, Quietos
<1>6. /\ hilos[h] \in Hilo /\ hilos \in [Hilos -> Hilo] /\ hilos[h].accesos # << >>
      /\ Siguiente(h).tipo \in Memoria /\ Siguiente(h).t = 0 /\ Siguiente(h).tipo # "tarea"
      /\ h # Principal => \A i \in DOMAIN hilos[h].accesos : hilos[h].accesos[i].tipo \in Memoria
  <2>1. hilos[h].pc \in EnAcceso /\ hilos[h].pc # "copiar" BY <1>3 DEF EnAcceso
  <2>2. /\ hilos[h].accesos # << >> /\ Siguiente(h).tipo \in Memoria /\ Siguiente(h).t = 0
        /\ Siguiente(h).tipo # "tarea"
    BY <1>4, <2>1 DEF TiposHilos
  <2>. QED BY <1>4, <2>2, AccesoActual
<1>7. m \in Marcos /\ v \in Marcos BY <1>1, <1>2, <1>6 DEF Hilo
<1>8. /\ mapa_logico \in [Marcos -> Marco] /\ copia \in [Marcos -> BOOLEAN] BY <1>4 DEF TiposMarcos
<1>9. mapa_logico[v] \in Marco /\ mapa_logico[m] \in Marco BY <1>7, <1>8
<1>10. PICK x : x = [mapa_logico[v] EXCEPT !.presencia = FALSE, !.modificado = FALSE, !.semaforo_mutex = @ + 1]
  OBVIOUS
<1>11. /\ x \in Marco /\ x.presencia = FALSE /\ x.semaforo_mutex = mapa_logico[v].semaforo_mutex + 1
       /\ x.nro_real = mapa_logico[v].nro_real /\ x.duenio = mapa_logico[v].duenio
  <2>1. mapa_logico[v].semaforo_mutex + 1 \in Nat BY <1>9 DEF Marco
  <2>. QED BY <1>9, <1>10, <2>1 DEF Marco
<1>12. PICK M : M = [mapa_logico EXCEPT ![v] = x] OBVIOUS
<1>13. /\ M \in [Marcos -> Marco] /\ M[v] = x /\ \A n \in Marcos : n # v => M[n] = mapa_logico[n]
  BY <1>7, <1>8, <1>11, <1>12
<1>14. PICK y : y = [M[m] EXCEPT !.nro_real = mapa_logico[v].nro_real, !.presencia = TRUE] OBVIOUS
<1>15. /\ y \in Marco /\ y.presencia = TRUE /\ y.nro_real = mapa_logico[v].nro_real
       /\ y.semaforo_mutex = M[m].semaforo_mutex /\ y.duenio = M[m].duenio /\ y.modificado = M[m].modificado
  <2>1. M[m] \in Marco BY <1>7, <1>13
  <2>2. mapa_logico[v].nro_real \in Fisicos BY <1>9 DEF Marco
  <2>. QED BY <1>14, <2>1, <2>2 DEF Marco
<1>16. mapa_logico' = [M EXCEPT ![m] = y] BY <1>3, <1>10, <1>12, <1>14 DEF Entregar
<1>17. /\ mapa_logico' \in [Marcos -> Marco] /\ mapa_logico'[m] = y
       /\ \A n \in Marcos : n # m => mapa_logico'[n] = M[n]
  BY <1>7, <1>13, <1>15, <1>16
<1>18. \A n \in Marcos : n # m /\ n # v => mapa_logico'[n] = mapa_logico[n] BY <1>13, <1>17
<1>19. \A n \in Marcos : mapa_logico'[n].duenio = mapa_logico[n].duenio
  <2>1. ASSUME NEW n \in Marcos PROVE M[n].duenio = mapa_logico[n].duenio BY <1>11, <1>13
  <2>2. ASSUME NEW n \in Marcos PROVE mapa_logico'[n].duenio = mapa_logico[n].duenio
    <3>1. CASE n = m BY <1>15, <1>17, <2>1, <3>1
    <3>2. CASE n # m BY <1>17, <2>1, <3>2
    <3>. QED BY <3>1, <3>2
  <2>. QED BY <2>2
<1>20. mapa_logico'[v].semaforo_mutex = mapa_logico[v].semaforo_mutex + 1
  <2>1. CASE v = m BY <1>11, <1>13, <1>15, <1>17, <2>1
  <2>2. CASE v # m BY <1>7, <1>11, <1>13, <1>17, <2>2
  <2>. QED BY <2>1, <2>2
<1>21. ASSUME m # v
       PROVE  /\ mapa_logico'[m].semaforo_mutex = mapa_logico[m].semaforo_mutex
              /\ mapa_logico'[m].modificado = mapa_logico[m].modificado
              /\ ~mapa_logico'[v].presencia
  <2>1. M[m] = mapa_logico[m] /\ mapa_logico'[v] = x BY <1>7, <1>13, <1>17, <1>21
  <2>. QED BY <1>11, <1>15, <1>17, <2>1
<1>22. /\ copia' \in [Marcos -> BOOLEAN] /\ \A n \in Marcos : n # v => copia'[n] = copia[n]
       /\ copia'[v] = IF mapa_logico[v].modificado THEN v \in datos[mapa_logico[v].nro_real] ELSE copia[v]
  <2>1. PICK b : b = (v \in datos[mapa_logico[v].nro_real]) OBVIOUS
  <2>2. b \in BOOLEAN BY <2>1
  <2>3. copia' = IF mapa_logico[v].modificado THEN [copia EXCEPT ![v] = b] ELSE copia
    BY <1>3, <2>1 DEF hacer_backup_marco
  <2>4. CASE mapa_logico[v].modificado
    <3>1. copia' = [copia EXCEPT ![v] = b] BY <2>3, <2>4
    <3>2. copia' \in [Marcos -> BOOLEAN] /\ copia'[v] = b /\ \A n \in Marcos : n # v => copia'[n] = copia[n]
      BY <1>7, <1>8, <2>2, <3>1
    <3>. QED BY <2>1, <2>4, <3>2
  <2>5. CASE ~mapa_logico[v].modificado
    <3>1. copia' = copia BY <2>3, <2>5
    <3>. QED BY <1>8, <2>5, <3>1
  <2>. QED BY <2>4, <2>5
<1>23. PICK r : r = [hilos[h] EXCEPT !.pc = "traer"] OBVIOUS
<1>24. r \in Hilo /\ r.pc = "traer" /\ r.accesos = hilos[h].accesos /\ r.marco = m
  BY <1>1, <1>6, <1>23 DEF Hilo, Pcs
<1>25. hilos' = [hilos EXCEPT ![h] = r] BY <1>3, <1>6, <1>23
<1>26. TiposHilos' /\ hilos'[h] = r /\ LosDemas(h)
  <2>1. r.pc \in EnAcceso =>
           /\ r.accesos # << >> /\ Head(r.accesos).tipo \in Memoria /\ Head(r.accesos).t = 0
           /\ r.pc # "copiar" => Head(r.accesos).tipo # "tarea"
    BY <1>6, <1>24 DEF Siguiente
  <2>2. h # Principal => \A i \in DOMAIN r.accesos : r.accesos[i].tipo \in Memoria BY <1>6, <1>24
  <2>. QED BY <1>4, <1>5, <1>24, <1>25, <2>1, <2>2, UnHilo DEF LosDemas
<1>27. TiposPatotas' BY <1>3, <1>4, <1>5 DEF TiposPatotas, orden
<1>28. TiposMarcos' BY <1>3, <1>4, <1>5, <1>17, <1>22 DEF TiposMarcos
<1>29. CambioHecho(h, m, v)
  <2>1. \A n \in Marcos : n # m /\ n # v => MismaPagina(n) /\ MismoSemaforo(n)
    BY <1>18 DEF MismaPagina, MismoSemaforo
  <2>2. mapa_logico'[m].presencia /\ mapa_logico'[m].nro_real = mapa_logico[v].nro_real BY <1>15, <1>17
  <2>3. hilos'[h].pc = "traer" /\ hilos'[h].marco = m /\ hilos'[h].accesos = hilos[h].accesos BY <1>24, <1>26
  <2>. QED BY <1>3, <1>19, <1>20, <1>21, <1>22, <2>1, <2>2, <2>3 DEF CambioHecho, MismoSemaforo
<1>. QED BY <1>1, <1>2, <1>3, <1>26, <1>27, <1>28, <1>29 DEF Tipos

\* Traer
TraerHecho(h, m) ==
  /\ hilos[h].pc = "traer" /\ hilos'[h].pc = "copiar" /\ hilos'[h].marco = m
  /\ hilos'[h].accesos = hilos[h].accesos
  /\ mutex_incorporar_marco' = mutex_incorporar_marco + 1
  /\ datos'[mapa_logico[m].nro_real] = IF copia[m] THEN {m} ELSE {}
  /\ \A r \in Fisicos : r # mapa_logico[m].nro_real => datos'[r] = datos[r]
  /\ UNCHANGED <<puntero_clock, mapa_logico, copia, sinMarca, causas, patotas, tripulantes, orden, caida>>

\* The page is read from the swap file: the types.
LEMMA TiposTraer ==
  ASSUME Tipos, mutex_incorporar_marco = 0, NEW h \in Hilos, Traer(h)
  PROVE  Tipos' /\ LosDemas(h) /\ TraerHecho(h, hilos[h].marco)
<1>1. PICK m : m = hilos[h].marco OBVIOUS
<1>2. PICK d : d = IF copia[m] THEN {m} ELSE {} OBVIOUS
<1>3. PICK r0 : r0 = mapa_logico[m].nro_real OBVIOUS
<1>4. /\ hilos[h].pc = "traer" /\ datos' = [datos EXCEPT ![r0] = d]
      /\ mutex_incorporar_marco' = mutex_incorporar_marco + 1
      /\ hilos' = [hilos EXCEPT ![h].pc = "copiar"]
      /\ UNCHANGED <<puntero_clock, mapa_logico, copia, sinMarca, causas, patotas, tripulantes, orden, caida>>
  BY <1>1, <1>2, <1>3 DEF Traer
<1>5. TiposPatotas /\ TiposMarcos /\ TiposHilos BY DEF Tipos
<1>6. Existen' = Existen /\ Accesos' = Accesos /\ Hilo' = Hilo /\ Marco' = Marco BY <1>4, Quietos
<1>7. /\ hilos[h] \in Hilo /\ hilos \in [Hilos -> Hilo] /\ hilos[h].accesos # << >>
      /\ Siguiente(h).tipo \in Memoria /\ Siguiente(h).t = 0
      /\ h # Principal => \A i \in DOMAIN hilos[h].accesos : hilos[h].accesos[i].tipo \in Memoria
  <2>1. hilos[h].pc \in EnAcceso BY <1>4 DEF EnAcceso
  <2>2. hilos[h].accesos # << >> /\ Siguiente(h).tipo \in Memoria /\ Siguiente(h).t = 0
    BY <1>5, <2>1 DEF TiposHilos
  <2>. QED BY <1>5, <2>2, AccesoActual
<1>8. m \in Marcos /\ r0 \in Fisicos
  <2>1. m \in Marcos BY <1>1, <1>7 DEF Hilo
  <2>2. mapa_logico[m] \in Marco BY <1>5, <2>1 DEF TiposMarcos
  <2>. QED BY <1>3, <2>1, <2>2 DEF Marco
<1>9. /\ datos' \in [Fisicos -> SUBSET Marcos] /\ datos'[r0] = d
      /\ \A r \in Fisicos : r # r0 => datos'[r] = datos[r]
  <2>1. datos \in [Fisicos -> SUBSET Marcos] /\ d \in SUBSET Marcos BY <1>2, <1>5, <1>8 DEF TiposMarcos
  <2>. QED BY <1>4, <1>8, <2>1
<1>10. PICK r : r = [hilos[h] EXCEPT !.pc = "copiar"] OBVIOUS
<1>11. r \in Hilo /\ r.pc = "copiar" /\ r.accesos = hilos[h].accesos /\ r.marco = m
  BY <1>1, <1>7, <1>10 DEF Hilo, Pcs
<1>12. hilos' = [hilos EXCEPT ![h] = r] BY <1>4, <1>7, <1>10
<1>13. TiposHilos' /\ hilos'[h] = r /\ LosDemas(h)
  <2>1. r.pc \in EnAcceso =>
           /\ r.accesos # << >> /\ Head(r.accesos).tipo \in Memoria /\ Head(r.accesos).t = 0
           /\ r.pc # "copiar" => Head(r.accesos).tipo # "tarea"
    BY <1>7, <1>11 DEF Siguiente
  <2>2. h # Principal => \A i \in DOMAIN r.accesos : r.accesos[i].tipo \in Memoria BY <1>7, <1>11
  <2>. QED BY <1>5, <1>6, <1>11, <1>12, <2>1, <2>2, UnHilo DEF LosDemas
<1>14. TiposPatotas' BY <1>4, <1>5, <1>6 DEF TiposPatotas, orden
<1>15. TiposMarcos'
  <2>1. mutex_incorporar_marco' \in 0 .. 1 BY <1>4
  <2>. QED BY <1>4, <1>5, <1>6, <1>9, <2>1 DEF TiposMarcos
<1>16. TraerHecho(h, m) BY <1>2, <1>3, <1>4, <1>9, <1>11, <1>13 DEF TraerHecho
<1>17. caida' = caida BY <1>4
<1>. QED BY <1>1, <1>13, <1>14, <1>15, <1>16, <1>17 DEF Tipos

\* What an access has left.
LEMMA RestoBien ==
  ASSUME TiposPatotas, NEW a \in Accesos, a.tipo \in Memoria, a.t = 0
  PROVE  Resto(a) \in Seq(Accesos) /\ \A i \in DOMAIN Resto(a) : Resto(a)[i].tipo \in Memoria
<1>1. /\ a \in [tipo : Memoria \union Pasos, p : 1 .. Len(patotas), t : Nat, desde : Int, bytes : Nat, hechos : Nat]
      /\ a.hechos < a.bytes
  BY DEF Accesos, AccesosDe
<1>2. \A tipo \in Memoria : tipo \notin Pasos BY DEF Memoria, Pasos
<1>3. PICK l : l = [a EXCEPT !.tipo = "leer", !.hechos = 0] OBVIOUS
<1>4. l \in Accesos /\ l.tipo \in Memoria
  <2>1. "leer" \in Memoria BY DEF Memoria
  <2>2. /\ l \in [tipo : Memoria \union Pasos, p : 1 .. Len(patotas), t : Nat, desde : Int, bytes : Nat, hechos : Nat]
        /\ l.tipo = "leer" /\ l.t = 0 /\ l.hechos = 0 /\ l.bytes = a.bytes
    BY <1>1, <1>3, <2>1
  <2>3. l.hechos < l.bytes BY <1>1, <2>2
  <2>. QED BY <1>2, <2>1, <2>2, <2>3 DEF Accesos, AccesosDe
<1>5. PICK c : c = ConPagina(a) OBVIOUS
<1>6. PICK k : k = a.hechos + TAMANIO_PAGINA - (Byte(a) % TAMANIO_PAGINA) OBVIOUS
<1>7. k \in Nat
  <2>1. PICK b : b = Byte(a) % TAMANIO_PAGINA OBVIOUS
  <2>2. Byte(a) \in Int BY <1>1 DEF Byte
  <2>3. b \in 0 .. TAMANIO_PAGINA - 1 BY <2>1, <2>2, Tamanios
  <2>. QED BY <1>1, <1>6, <2>1, <2>3, Tamanios
<1>8. /\ c = [a EXCEPT !.hechos = k] /\ c.tipo = a.tipo /\ c.t = 0 /\ c.hechos = k /\ c.bytes = a.bytes
      /\ c \in [tipo : Memoria \union Pasos, p : 1 .. Len(patotas), t : Nat, desde : Int, bytes : Nat, hechos : Nat]
  BY <1>1, <1>5, <1>6, <1>7 DEF ConPagina
<1>9. c.hechos < a.bytes => c \in Accesos /\ c.tipo \in Memoria BY <1>2, <1>8 DEF Accesos, AccesosDe
<1>10. PICK x : x = IF a.tipo = "escribir" THEN <<l>> ELSE <<>> OBVIOUS
<1>11. PICK y : y = IF c.hechos < a.bytes THEN <<c>> ELSE <<>> OBVIOUS
<1>12. Resto(a) = x \o y BY <1>3, <1>5, <1>10, <1>11 DEF Resto
<1>. DEFINE S == {b \in Accesos : b.tipo \in Memoria}
<1>13. x \in Seq(S)
  <2>1. l \in S BY <1>4
  <2>. HIDE DEF S
  <2>2. <<l>> \in Seq(S) /\ << >> \in Seq(S) BY <2>1
  <2>. QED BY <1>10, <2>2
<1>14. y \in Seq(S)
  <2>1. c.hechos < a.bytes => c \in S BY <1>9
  <2>. HIDE DEF S
  <2>2. (c \in S => <<c>> \in Seq(S)) /\ << >> \in Seq(S) OBVIOUS
  <2>. QED BY <1>11, <2>1, <2>2
<1>15. x \o y \in Seq(S)
  <2>. HIDE DEF S
  <2>. QED BY <1>13, <1>14, ConcatProperties
<1>16. PICK z : z = Resto(a) OBVIOUS
<1>17. z \in Seq(S) BY <1>12, <1>15, <1>16
<1>18. S \subseteq Accesos OBVIOUS
<1>19. z \in Seq(Accesos)
  <2>. HIDE DEF S
  <2>. QED BY <1>17, <1>18, SeqMonotonic
<1>20. \A i \in DOMAIN z : z[i] \in S
  <2>. HIDE DEF S
  <2>. QED BY <1>17
<1>. QED BY <1>16, <1>19, <1>20

\* Copiar: the bytes fall in the frame of m, or in the next one
EnSuMarco(a, m) ==
  /\ datos' = IF a.tipo \in {"escribir", "cargar", "estado"}
              THEN [datos EXCEPT ![mapa_logico[m].nro_real] = @ \intersect {m}] ELSE datos
  /\ copia'[m] = (copia[m] /\ a.tipo \notin {"escribir", "cargar", "estado"})
  /\ \A n \in Marcos : n # m => copia'[n] = copia[n]
  /\ sinMarca' = IF a.tipo = "estado" /\ ~mapa_logico[m].modificado THEN sinMarca \union {m} ELSE sinMarca
  /\ UNCHANGED caida
EnElSiguiente(a) ==
  /\ a.tipo = "estado" /\ sinMarca \subseteq sinMarca'
  /\ \A n \in Marcos : n \notin sinMarca' =>
       /\ copia'[n] = copia[n]
       /\ mapa_logico[n].presencia => datos'[mapa_logico[n].nro_real] = datos[mapa_logico[n].nro_real]
  /\ caida' \in {"no", "fuera_de_memoria"}
CopiarHecho(h, a, m) ==
  /\ hilos[h].pc = "copiar" /\ hilos'[h].pc = "listo" /\ hilos'[h].marco = m
  /\ \A n \in Marcos : n # m => MismaPagina(n) /\ MismoSemaforo(n)
  /\ mapa_logico'[m].presencia = mapa_logico[m].presencia
  /\ mapa_logico'[m].nro_real = mapa_logico[m].nro_real
  /\ mapa_logico'[m].duenio = mapa_logico[m].duenio
  /\ mapa_logico'[m].modificado = (mapa_logico[m].modificado \/ a.tipo \in {"escribir", "cargar"})
  /\ mapa_logico'[m].semaforo_mutex = mapa_logico[m].semaforo_mutex + 1
  /\ EnSuMarco(a, m) \/ EnElSiguiente(a)
  /\ UNCHANGED <<patotas, tripulantes, orden, puntero_clock, mutex_incorporar_marco, causas>>

\* The bytes are copied and the semaphore posted: the types.
LEMMA TiposCopiar ==
  ASSUME Tipos, NEW h \in Hilos, Copiar(h)
  PROVE  Tipos' /\ LosDemas(h) /\ Corrida(h) /\ CopiarHecho(h, Siguiente(h), hilos[h].marco)
<1>1. PICK m : m = hilos[h].marco OBVIOUS
<1>2. PICK a : a = Siguiente(h) OBVIOUS
<1>3. PICK v : v = Resto(a) \o Tail(hilos[h].accesos) OBVIOUS
<1>4. PICK e : e = (a.tipo \in {"escribir", "cargar", "estado"}) OBVIOUS
<1>5. /\ hilos[h].pc = "copiar" /\ mapa_logico' = [mapa_logico EXCEPT ![m] = Usado(@, a.tipo)]
      /\ (~Desborda(a) /\ CopiarEnMarco(a, m)) \/ (Desborda(a) /\ CopiarEnSiguiente(a, m))
      /\ hilos' = [hilos EXCEPT ![h].pc = "listo", ![h].accesos = v]
      /\ UNCHANGED <<patotas, tripulantes, orden, puntero_clock, mutex_incorporar_marco, causas>>
  BY <1>1, <1>2, <1>3, <1>4 DEF Copiar, SinCambioEnMarcos, Siguiente
<1>6. TiposPatotas /\ TiposMarcos /\ TiposHilos BY DEF Tipos
<1>7. Existen' = Existen /\ Accesos' = Accesos /\ Hilo' = Hilo /\ Marco' = Marco BY <1>5, Quietos
<1>8. /\ hilos[h] \in Hilo /\ hilos \in [Hilos -> Hilo] /\ hilos[h].accesos # << >>
      /\ a \in Accesos /\ a.tipo \in Memoria /\ a.t = 0
  <2>1. hilos[h].pc \in EnAcceso BY <1>5 DEF EnAcceso
  <2>2. hilos[h].accesos # << >> /\ Siguiente(h).tipo \in Memoria /\ Siguiente(h).t = 0
    BY <1>6, <2>1 DEF TiposHilos
  <2>. QED BY <1>2, <1>6, <2>2, AccesoActual
<1>9. m \in Marcos BY <1>1, <1>8 DEF Hilo
<1>10. mapa_logico \in [Marcos -> Marco] /\ datos \in [Fisicos -> SUBSET Marcos] /\ copia \in [Marcos -> BOOLEAN]
  BY <1>6 DEF TiposMarcos
<1>11. PICK w : w = Resto(a) OBVIOUS
<1>12. w \in Seq(Accesos) /\ \A i \in DOMAIN w : w[i].tipo \in Memoria BY <1>6, <1>8, <1>11, RestoBien
<1>13. v = w \o Tail(hilos[h].accesos) BY <1>3, <1>11
<1>14. v \in Seq(Accesos) BY <1>6, <1>8, <1>12, <1>13, Reemplaza
<1>15. h # Principal => \A i \in DOMAIN v : v[i].tipo \in Memoria BY <1>6, <1>8, <1>12, <1>13, Reemplaza
<1>16. PICK r : r = [hilos[h] EXCEPT !.pc = "listo", !.accesos = v] OBVIOUS
<1>17. r \in Hilo /\ r.pc = "listo" /\ r.accesos = v /\ r.marco = m
  BY <1>1, <1>8, <1>14, <1>16 DEF Hilo, Pcs
<1>18. hilos' = [hilos EXCEPT ![h] = r] BY <1>5, <1>8, <1>16
<1>19. TiposHilos' /\ hilos'[h] = r /\ LosDemas(h)
  <2>1. r.pc \notin EnAcceso BY <1>17 DEF EnAcceso
  <2>2. h # Principal => \A i \in DOMAIN r.accesos : r.accesos[i].tipo \in Memoria BY <1>15, <1>17
  <2>. QED BY <1>6, <1>7, <1>17, <1>18, <2>1, <2>2, UnHilo DEF LosDemas
<1>20. Corrida(h)
  <2>1. hilos'[h].accesos = w \o Tail(hilos[h].accesos) BY <1>13, <1>17, <1>19
  <2>. QED BY <1>6, <1>8, <1>12, <2>1, CorridaNueva
<1>21. TiposPatotas' BY <1>5, <1>6, <1>7 DEF TiposPatotas, orden
<1>22. PICK x : x = Usado(mapa_logico[m], a.tipo) OBVIOUS
<1>23. mapa_logico[m] \in Marco BY <1>9, <1>10
<1>24. /\ x \in Marco /\ x.semaforo_mutex = mapa_logico[m].semaforo_mutex + 1
       /\ x.presencia = mapa_logico[m].presencia /\ x.nro_real = mapa_logico[m].nro_real
       /\ x.duenio = mapa_logico[m].duenio
       /\ x.modificado = (mapa_logico[m].modificado \/ a.tipo \in {"escribir", "cargar"})
  <2>1. PICK s : s = mapa_logico[m].semaforo_mutex + 1 OBVIOUS
  <2>2. PICK mod : mod = (mapa_logico[m].modificado \/ a.tipo \in {"escribir", "cargar"}) OBVIOUS
  <2>3. PICK bit : bit = (mapa_logico[m].bit_uso \/ a.tipo # "estado") OBVIOUS
  <2>4. s \in Nat /\ mod \in BOOLEAN /\ bit \in BOOLEAN
    <3>1. s \in Nat BY <1>23, <2>1 DEF Marco
    <3>2. mod \in BOOLEAN BY <2>2
    <3>3. bit \in BOOLEAN BY <2>3
    <3>. QED BY <3>1, <3>2, <3>3
  <2>5. x = [mapa_logico[m] EXCEPT !.modificado = mod, !.bit_uso = bit, !.semaforo_mutex = s]
    BY <1>22, <2>1, <2>2, <2>3 DEF Usado
  <2>6. /\ x \in Marco /\ x.semaforo_mutex = s /\ x.presencia = mapa_logico[m].presencia
        /\ x.nro_real = mapa_logico[m].nro_real /\ x.duenio = mapa_logico[m].duenio /\ x.modificado = mod
    BY <1>23, <2>4, <2>5 DEF Marco
  <2>. QED BY <2>1, <2>2, <2>6
<1>25. mapa_logico' = [mapa_logico EXCEPT ![m] = x] BY <1>5, <1>22
<1>26. /\ mapa_logico' \in [Marcos -> Marco] /\ mapa_logico'[m] = x
       /\ \A n \in Marcos : n # m => mapa_logico'[n] = mapa_logico[n]
  BY <1>9, <1>10, <1>24, <1>25
<1>27. mapa_logico[m].nro_real \in Fisicos BY <1>23 DEF Marco
<1>28. /\ copia' \in [Marcos -> BOOLEAN] /\ datos' \in [Fisicos -> SUBSET Marcos]
       /\ EnSuMarco(a, m) \/ EnElSiguiente(a)
       /\ caida' \in {caida, "no", "fuera_de_memoria"}
  <2>1. CASE CopiarEnMarco(a, m)
    <3>1. /\ datos' = IF e THEN [datos EXCEPT ![mapa_logico[m].nro_real] = @ \intersect {m}] ELSE datos
          /\ copia' = [copia EXCEPT ![m] = @ /\ ~e] /\ caida' = caida
          /\ sinMarca' = IF a.tipo = "estado" /\ ~mapa_logico[m].modificado THEN sinMarca \union {m} ELSE sinMarca
      BY <1>4, <2>1 DEF CopiarEnMarco
    <3>2. /\ copia' \in [Marcos -> BOOLEAN] /\ copia'[m] = (copia[m] /\ ~e)
          /\ \A n \in Marcos : n # m => copia'[n] = copia[n]
      <4>1. PICK b : b = (copia[m] /\ ~e) OBVIOUS
      <4>2. b \in BOOLEAN BY <4>1
      <4>3. copia' = [copia EXCEPT ![m] = b] BY <3>1, <4>1
      <4>4. /\ copia' \in [Marcos -> BOOLEAN] /\ copia'[m] = b
            /\ \A n \in Marcos : n # m => copia'[n] = copia[n]
        BY <1>9, <1>10, <4>2, <4>3
      <4>. QED BY <4>1, <4>4
    <3>3. datos' \in [Fisicos -> SUBSET Marcos] BY <1>9, <1>10, <1>27, <3>1
    <3>4. EnSuMarco(a, m)
      <4>1. CASE a.tipo \in {"escribir", "cargar", "estado"}
        <5>1. e = TRUE BY <1>4, <4>1
        <5>2. datos' = [datos EXCEPT ![mapa_logico[m].nro_real] = @ \intersect {m}] BY <3>1, <5>1
        <5>3. copia'[m] = (copia[m] /\ a.tipo \notin {"escribir", "cargar", "estado"}) BY <3>2, <4>1, <5>1
        <5>. QED BY <3>1, <3>2, <4>1, <5>2, <5>3 DEF EnSuMarco
      <4>2. CASE a.tipo \notin {"escribir", "cargar", "estado"}
        <5>1. ~e BY <1>4, <4>2
        <5>2. datos' = datos BY <3>1, <5>1
        <5>3. copia'[m] = (copia[m] /\ a.tipo \notin {"escribir", "cargar", "estado"}) BY <3>2, <4>2, <5>1
        <5>. QED BY <3>1, <3>2, <4>2, <5>2, <5>3 DEF EnSuMarco
      <4>. QED BY <4>1, <4>2
    <3>. QED BY <3>1, <3>2, <3>3, <3>4
  <2>2. CASE Desborda(a) /\ CopiarEnSiguiente(a, m)
    <3>1. PICK s : s = mapa_logico[m].nro_real + 1 OBVIOUS
    <3>2. PICK pisadas : pisadas = {n \in Marcos : mapa_logico[n].presencia /\ mapa_logico[n].nro_real = s}
      OBVIOUS
    <3>3. PICK suyas : suyas = {patotas[a.p].frames[i] : i \in DOMAIN patotas[a.p].frames \intersect {Pagina(a) + 2}}
      OBVIOUS
    <3>4. /\ datos' = [f \in Fisicos |-> IF f = s THEN datos[f] \intersect suyas ELSE datos[f]]
          /\ copia' = [n \in Marcos |-> copia[n] /\ n \notin pisadas \intersect suyas]
          /\ sinMarca' = sinMarca \union pisadas
          /\ caida' \in {"no", "fuera_de_memoria"}
      BY <2>2, <3>1, <3>2, <3>3 DEF CopiarEnSiguiente
    <3>5. datos' \in [Fisicos -> SUBSET Marcos] BY <1>10, <3>4
    <3>6. copia' \in [Marcos -> BOOLEAN]
      <4>1. \A n \in Marcos : (copia[n] /\ n \notin pisadas \intersect suyas) \in BOOLEAN OBVIOUS
      <4>. QED BY <3>4, <4>1
    <3>7. a.tipo = "estado" BY <2>2 DEF Desborda
    <3>8. ASSUME NEW n \in Marcos, n \notin sinMarca'
          PROVE  /\ copia'[n] = copia[n]
                 /\ mapa_logico[n].presencia => datos'[mapa_logico[n].nro_real] = datos[mapa_logico[n].nro_real]
      <4>1. n \notin pisadas BY <3>4, <3>8
      <4>2. copia[n] \in BOOLEAN BY <1>10
      <4>3. copia'[n] = (copia[n] /\ n \notin pisadas \intersect suyas) BY <3>4
      <4>4. copia'[n] = copia[n] BY <4>1, <4>2, <4>3
      <4>5. mapa_logico[n].nro_real \in Fisicos
        <5>1. mapa_logico[n] \in Marco BY <1>10
        <5>. QED BY <5>1 DEF Marco
      <4>. QED BY <3>2, <3>4, <4>1, <4>4, <4>5
    <3>9. EnElSiguiente(a) BY <3>4, <3>7, <3>8 DEF EnElSiguiente
    <3>. QED BY <3>4, <3>5, <3>6, <3>9
  <2>. QED BY <1>5, <2>1, <2>2
<1>29. TiposMarcos' BY <1>5, <1>6, <1>7, <1>26, <1>28 DEF TiposMarcos
<1>30. CopiarHecho(h, a, m)
  <2>1. \A n \in Marcos : n # m => MismaPagina(n) /\ MismoSemaforo(n) BY <1>26 DEF MismaPagina, MismoSemaforo
  <2>2. hilos'[h].pc = "listo" /\ hilos'[h].marco = m BY <1>17, <1>19
  <2>. QED BY <1>5, <1>24, <1>26, <1>28, <2>1, <2>2 DEF CopiarHecho
<1>31. caida' \in {caida} \union {"no", "fuera_de_memoria"} BY <1>28
<1>. QED BY <1>1, <1>2, <1>19, <1>20, <1>21, <1>29, <1>30, <1>31 DEF Tipos, CaidasDeAcceso

-----------------------------------------------------------------------------
(* The trips without a thread *)

\* No trip goes back to not having come, and none starts but by Arrancar.
LEMMA SinHiloSigue ==
  ASSUME SinHilo, hilos'[Principal].pc # "sin_hilo",
         \A g \in Trips : Sin(g[1], g[2])' => Sin(g[1], g[2]) /\ (g \in tripulantes' => g \in tripulantes),
         \A g \in Trips : Sin(g[1], g[2]) /\ hilos[g].pc = "sin_hilo" => hilos'[g].pc = "sin_hilo"
  PROVE  SinHilo'
BY DEF SinHilo

\* A step that starts no thread leaves at most one to start.
LEMMA ArranqueSigue ==
  ASSUME TiposHilos, TiposHilos', Existen' = Existen, UnArranque, Corrida(Principal),
         \A g \in Trips : Sin(g[1], g[2])' => Sin(g[1], g[2]),
         \A g \in Trips : hilos[g].pc = "sin_hilo" => hilos'[g].pc = "sin_hilo"
  PROVE  UnArranque'
<1>1. PICK s : s = hilos[Principal].accesos OBVIOUS
<1>2. PICK v : v = hilos'[Principal].accesos OBVIOUS
<1>3. Principal \in Hilos BY DEF Hilos
<1>4. s \in Seq(Accesos) /\ v \in Seq(Accesos') BY <1>1, <1>2, <1>3 DEF TiposHilos, Hilo
<1>5. PICK d \in Int : \A i \in DOMAIN v : v[i].tipo \in Memoria \/ (i + d \in DOMAIN s /\ v[i] = s[i + d])
  BY <1>1, <1>2 DEF Corrida
<1>6. "arrancar" \notin Memoria BY DEF Memoria
<1>7. ASSUME NEW i \in DOMAIN v, v[i].tipo = "arrancar"
      PROVE  hilos'[<<v[i].p, v[i].t>>].pc = "sin_hilo" /\ ~Sin(v[i].p, v[i].t)'
  <2>1. i + d \in DOMAIN s /\ v[i] = s[i + d] BY <1>5, <1>6, <1>7
  <2>2. PICK a : a = v[i] OBVIOUS
  <2>3. hilos[<<a.p, a.t>>].pc = "sin_hilo" /\ ~Sin(a.p, a.t) BY <1>1, <1>7, <2>1, <2>2 DEF UnArranque
  <2>4. <<a.p, a.t>> \in Trips
    <3>1. a \in Accesos BY <1>4, <2>1, <2>2
    <3>2. a.tipo \in Pasos BY <1>7, <2>2 DEF Pasos
    <3>3. <<a.p, a.t>> \in Existen BY <3>1, <3>2 DEF Accesos, AccesosDe
    <3>. QED BY <3>3 DEF Existen
  <2>5. hilos'[<<a.p, a.t>>].pc = "sin_hilo" BY <2>3, <2>4
  <2>6. ~Sin(a.p, a.t)' BY <2>3, <2>4
  <2>. QED BY <2>2, <2>5, <2>6
<1>8. ASSUME NEW i \in DOMAIN v, v[i].tipo = "arrancar", NEW j \in DOMAIN v, v[j].tipo = "arrancar" PROVE i = j
  <2>1. i + d \in DOMAIN s /\ v[i] = s[i + d] /\ j + d \in DOMAIN s /\ v[j] = s[j + d] BY <1>5, <1>6, <1>8
  <2>2. i + d = j + d BY <1>1, <1>8, <2>1 DEF UnArranque
  <2>3. i \in Int /\ j \in Int BY <1>4
  <2>. QED BY <1>5, <2>2, <2>3
<1>. QED BY <1>2, <1>7, <1>8 DEF UnArranque

\* With no thread to start there is at most one.
LEMMA NadaArrancaUno ==
  ASSUME NadaArranca
  PROVE  UnArranque
BY DEF NadaArranca, UnArranque

\* What is left of the main loop's accesses when it goes on to the next one.
LEMMA CorridaCola ==
  ASSUME TiposHilos, hilos[Principal].accesos # << >>, hilos'[Principal].accesos = Tail(hilos[Principal].accesos)
  PROVE  /\ Corrida(Principal)
         /\ \A i \in DOMAIN hilos'[Principal].accesos :
              /\ i + 1 \in DOMAIN hilos[Principal].accesos /\ i + 1 # 1
              /\ hilos'[Principal].accesos[i] = hilos[Principal].accesos[i + 1]
<1>1. PICK s : s = hilos[Principal].accesos OBVIOUS
<1>2. PICK v : v = hilos'[Principal].accesos OBVIOUS
<1>3. Principal \in Hilos BY DEF Hilos
<1>4. s \in Seq(Accesos) /\ s # << >> /\ v = Tail(s) BY <1>1, <1>2, <1>3 DEF TiposHilos, Hilo
<1>5. /\ v \in Seq(Accesos) /\ Len(v) = Len(s) - 1 /\ \A i \in 1 .. Len(v) : v[i] = s[i + 1] BY <1>4
<1>6. \A i \in DOMAIN v : i + 1 \in DOMAIN s /\ i + 1 # 1 /\ v[i] = s[i + 1]
  <2>1. DOMAIN v = 1 .. Len(v) /\ DOMAIN s = 1 .. Len(s) /\ Len(s) \in Nat BY <1>4, <1>5
  <2>. QED BY <1>5, <2>1
<1>7. 1 \in Int OBVIOUS
<1>8. Corrida(Principal) BY <1>1, <1>2, <1>6, <1>7 DEF Corrida
<1>. QED BY <1>1, <1>2, <1>6, <1>8

\* The steps in which the trips that exist and those to come stay the same.
LEMMA SinIgual ==
  ASSUME Existen' = Existen, Len(patotas') = Len(patotas), faltan' = faltan,
         \A q \in 1 .. Len(patotas) : Len(patotas'[q].inicio) = Len(patotas[q].inicio),
         TiposPatotas
  PROVE  \A g \in Trips : Sin(g[1], g[2])' <=> Sin(g[1], g[2])
<1>1. ASSUME NEW g \in Trips PROVE Sin(g[1], g[2])' <=> Sin(g[1], g[2])
  <2>1. CASE <<g[1], g[2]>> \notin Existen BY <2>1 DEF Sin
  <2>2. CASE <<g[1], g[2]>> \in Existen
    <3>1. g[1] \in 1 .. Len(patotas) BY <2>2 DEF Existen
    <3>2. Len(patotas'[g[1]].inicio) = Len(patotas[g[1]].inicio) BY <3>1
    <3>. QED BY <3>2 DEF Sin
  <2>. QED BY <2>1, <2>2
<1>. QED BY <1>1

\* A step of one thread, which had begun and goes on.
LEMMA NuevosPaso ==
  ASSUME Tipos, Tipos', Nuevos, NEW h \in Hilos, LosDemas(h), hilos[h].pc # "sin_hilo", hilos'[h].pc # "sin_hilo",
         h = Principal => Corrida(h), UNCHANGED <<patotas, tripulantes, faltan>>
  PROVE  Nuevos'
<1>1. TiposPatotas /\ TiposHilos /\ TiposHilos' BY DEF Tipos
<1>2. Existen' = Existen BY Quietos
<1>3. \A g \in Trips : Sin(g[1], g[2])' <=> Sin(g[1], g[2]) BY <1>1, <1>2, SinIgual
<1>4. \A g \in Hilos : hilos[g].pc = "sin_hilo" => hilos'[g].pc = "sin_hilo" BY DEF LosDemas
<1>5. Trips \subseteq Hilos /\ Principal \in Hilos BY DEF Hilos
<1>6. hilos'[Principal].pc # "sin_hilo"
  <2>1. CASE h = Principal BY <2>1
  <2>2. CASE h # Principal BY <1>5, <2>2 DEF LosDemas, Nuevos, SinHilo
  <2>. QED BY <2>1, <2>2
<1>7. SinHilo' BY <1>3, <1>4, <1>5, <1>6, SinHiloSigue DEF Nuevos
<1>8. Corrida(Principal)
  <2>1. CASE h = Principal BY <2>1
  <2>2. CASE h # Principal
    <3>1. hilos'[Principal].accesos = hilos[Principal].accesos BY <1>5, <2>2 DEF LosDemas
    <3>. QED BY <1>1, <1>5, <3>1, CorridaMisma
  <2>. QED BY <2>1, <2>2
<1>9. UnArranque' BY <1>1, <1>2, <1>3, <1>4, <1>5, <1>8, ArranqueSigue DEF Nuevos
<1>. QED BY <1>7, <1>9 DEF Nuevos

\* A step of the main loop, in which no thread starts.
LEMMA NuevosAvanza ==
  ASSUME Tipos, Tipos', Nuevos, hilos[Principal].accesos # << >>, hilos'[Principal].pc # "sin_hilo",
         hilos'[Principal].accesos = Tail(hilos[Principal].accesos),
         \A g \in Trips : hilos[g].pc = "sin_hilo" => hilos'[g].pc = "sin_hilo",
         Existen' = Existen, Len(patotas') = Len(patotas), faltan' = faltan,
         \A q \in 1 .. Len(patotas) : Len(patotas'[q].inicio) = Len(patotas[q].inicio),
         tripulantes' \subseteq tripulantes
  PROVE  Nuevos'
<1>1. TiposPatotas /\ TiposHilos /\ TiposHilos' BY DEF Tipos
<1>2. \A g \in Trips : Sin(g[1], g[2])' <=> Sin(g[1], g[2]) BY <1>1, SinIgual
<1>3. SinHilo' BY <1>2, SinHiloSigue DEF Nuevos
<1>4. Corrida(Principal) BY <1>1, CorridaCola
<1>5. UnArranque' BY <1>1, <1>2, <1>4, ArranqueSigue DEF Nuevos
<1>. QED BY <1>3, <1>5 DEF Nuevos

\* A patota that is refused.
LEMMA NuevosRechazo ==
  ASSUME Tipos, Nuevos, NEW n, NEW tareas, INIT_P(n, tareas), RechazarPatota(n, tareas)
  PROVE  Nuevos'
<1>1. /\ UNCHANGED <<patotas, faltan, tripulantes>> /\ Empezar(Principal, loggear_data(Len(patotas), tripulantes))
  BY DEF INIT_P, RechazarPatota
<1>2. TiposPatotas /\ TiposHilos BY DEF Tipos
<1>3. NadaArranca' BY TiposRechazo
<1>4. \A g \in Trips : Sin(g[1], g[2])' <=> Sin(g[1], g[2]) BY <1>1, <1>2, Quietos, SinIgual
<1>5. \A g \in Trips : hilos'[g] = hilos[g]
  <2>1. Trips \subseteq Hilos /\ Principal \notin Trips BY DEF Hilos, Trips, Principal
  <2>. QED BY <1>1, <1>2, <2>1 DEF Empezar, TiposHilos
<1>6. SinHilo' BY <1>1, <1>3, <1>4, <1>5, SinHiloSigue DEF Nuevos, NadaArranca
<1>7. UnArranque'
  <2>1. NadaArranca' => UnArranque' BY DEF NadaArranca, UnArranque
  <2>. QED BY <1>3, <2>1
<1>. QED BY <1>6, <1>7 DEF Nuevos

\* The trips of the new patota are to come.
LEMMA NuevosAceptada ==
  ASSUME Tipos, Nuevos, NEW n \in 1 .. MaxTripulantes, NEW tareas \in TamaniosTareas, INIT_P(n, tareas),
         AceptarPatota(n, tareas)
  PROVE  Nuevos'
<1>0. PICK p : p = Len(patotas) + 1 OBVIOUS
<1>. DEFINE fila == [frames |-> <<>>, memoria_ocupada |-> TAMANIO_PATOTA + tareas, tareas |-> tareas,
                     inicio |-> [t \in 1 .. n |-> 0]]
<1>1. PICK e : e = Elegidos(mapa_logico, frames_necesarios(0, TAMANIO_PATOTA + tareas)) OBVIOUS
<1>2. PICK acc : Empezar(Principal, acc) BY DEF AceptarPatota
<1>3. /\ faltan = 0 /\ faltan' = n /\ UNCHANGED tripulantes
      /\ patotas' = Append(patotas, [fila EXCEPT !.frames = @ \o e])
  <2>1. patotas \in Seq(Patota) BY DEF Tipos, TiposPatotas
  <2>2. p > Len(patotas) BY <1>0, <2>1
  <2>3. asignar_frames(p, frames_necesarios(0, TAMANIO_PATOTA + tareas), fila) BY <1>0 DEF AceptarPatota
  <2>4. patotas' = Append(patotas, [fila EXCEPT !.frames = @ \o e]) BY <1>1, <2>2, <2>3 DEF asignar_frames
  <2>. QED BY <2>4 DEF INIT_P, AceptarPatota
<1>4. TiposPatotas /\ TiposHilos BY DEF Tipos
<1>5. PICK f : f = [fila EXCEPT !.frames = @ \o e] OBVIOUS
<1>6. f.inicio = [t \in 1 .. n |-> 0] BY <1>5
<1>7. /\ Len(patotas') = Len(patotas) + 1 /\ Len(patotas) \in Nat
      /\ \A q \in 1 .. Len(patotas) : patotas'[q] = patotas[q]
      /\ patotas'[Len(patotas) + 1] = f
  <2>1. patotas' = Append(patotas, f) BY <1>3, <1>5
  <2>2. patotas \in Seq(Patota) BY <1>4 DEF TiposPatotas
  <2>. QED BY <2>1, <2>2
<1>8. Len(f.inicio) = n
  <2>1. n \in Nat BY Tamanios
  <2>. QED BY <1>6, <2>1
<1>9. ASSUME NEW g \in Trips, Sin(g[1], g[2])' PROVE Sin(g[1], g[2])
  <2>1. SUFFICES <<g[1], g[2]>> \notin Existen BY DEF Sin
  <2>2. ASSUME <<g[1], g[2]>> \in Existen PROVE FALSE
    <3>1. g[1] \in 1 .. Len(patotas) /\ g[2] \in 1 .. Len(patotas[g[1]].inicio) BY <2>2 DEF Existen
    <3>2. <<g[1], g[2]>> \in Existen'
      <4>1. g[1] \in 1 .. Len(patotas') BY <1>7, <3>1
      <4>2. g[2] \in 1 .. Len(patotas'[g[1]].inicio) BY <1>7, <3>1
      <4>3. <<g[1], g[2]>> \in Trips BY <2>2 DEF Existen
      <4>. QED BY <4>1, <4>2, <4>3 DEF Existen
    <3>3. g[1] # Len(patotas') BY <1>7, <3>1
    <3>. QED BY <1>9, <3>2, <3>3 DEF Sin
  <2>. QED BY <2>2
<1>10. NadaArranca' BY TiposAceptada
<1>11. \A g \in Trips : hilos'[g] = hilos[g]
  <2>1. Trips \subseteq Hilos /\ Principal \notin Trips BY DEF Hilos, Trips, Principal
  <2>. QED BY <1>2, <1>4, <2>1 DEF Empezar, TiposHilos
<1>12. SinHilo' BY <1>3, <1>9, <1>10, <1>11, SinHiloSigue DEF Nuevos, NadaArranca
<1>13. UnArranque'
  <2>1. NadaArranca' => UnArranque' BY DEF NadaArranca, UnArranque
  <2>. QED BY <1>10, <2>1
<1>. QED BY <1>12, <1>13 DEF Nuevos

\* An expulsion begins: who has a thread.
LEMMA NuevosElimT ==
  ASSUME Tipos, Nuevos, NEW trip \in tripulantes, ELIM_T(trip[1], trip[2])
  PROVE  Nuevos'
<1>1. PICK acc : Empezar(Principal, acc) BY DEF ELIM_T
<1>2. UNCHANGED <<patotas, faltan, tripulantes>> BY DEF ELIM_T, orden
<1>3. NadaArranca' BY TiposElimT
<1>4. TiposPatotas /\ TiposHilos BY DEF Tipos
<1>5. \A g \in Trips : Sin(g[1], g[2])' <=> Sin(g[1], g[2]) BY <1>2, <1>4, Quietos, SinIgual
<1>6. \A g \in Trips : hilos'[g] = hilos[g]
  <2>1. Trips \subseteq Hilos /\ Principal \notin Trips BY DEF Hilos, Trips, Principal
  <2>. QED BY <1>1, <1>4, <2>1 DEF Empezar, TiposHilos
<1>7. SinHilo' BY <1>2, <1>3, <1>5, <1>6, SinHiloSigue DEF Nuevos, NadaArranca
<1>8. UnArranque'
  <2>1. NadaArranca' => UnArranque' BY DEF NadaArranca, UnArranque
  <2>. QED BY <1>3, <2>1
<1>. QED BY <1>7, <1>8 DEF Nuevos

\* The elements of x and y are in S, and between them is a.
LEMMA Intercalado ==
  ASSUME NEW S, NEW x \in Seq(S), NEW y \in Seq(S), NEW a, NEW v, v = x \o <<a>> \o y
  PROVE  \A i \in DOMAIN v : v[i] \in S \/ (i = Len(x) + 1 /\ v[i] = a)
<1>. DEFINE U == S \union {a}
<1>1. PICK w : w = <<a>> OBVIOUS
<1>2. w \in Seq(U) /\ Len(w) = 1 /\ w[1] = a
  <2>1. a \in U OBVIOUS
  <2>. HIDE DEF U
  <2>. QED BY <1>1, <2>1
<1>3. x \in Seq(U) /\ y \in Seq(U)
  <2>1. S \subseteq U OBVIOUS
  <2>. HIDE DEF U
  <2>. QED BY <2>1, SeqMonotonic
<1>. HIDE DEF U
<1>4. PICK z : z = x \o w OBVIOUS
<1>5. z \in Seq(U) /\ Len(z) = Len(x) + 1 /\ \A i \in 1 .. Len(z) : z[i] = IF i <= Len(x) THEN x[i] ELSE w[i - Len(x)]
  <2>1. z \in Seq(U) /\ Len(z) = Len(x) + Len(w) BY <1>2, <1>3, <1>4, ConcatProperties
  <2>2. \A i \in 1 .. Len(x) + Len(w) : z[i] = IF i <= Len(x) THEN x[i] ELSE w[i - Len(x)]
    BY <1>2, <1>3, <1>4, ConcatProperties
  <2>. QED BY <1>2, <2>1, <2>2
<1>6. v = z \o y BY <1>1, <1>4
<1>7. v \in Seq(U) /\ Len(v) = Len(z) + Len(y) /\ \A i \in 1 .. Len(v) : v[i] = IF i <= Len(z) THEN z[i] ELSE y[i - Len(z)]
  <2>1. v \in Seq(U) /\ Len(v) = Len(z) + Len(y) BY <1>3, <1>5, <1>6, ConcatProperties
  <2>2. \A i \in 1 .. Len(z) + Len(y) : v[i] = IF i <= Len(z) THEN z[i] ELSE y[i - Len(z)]
    BY <1>3, <1>5, <1>6, ConcatProperties
  <2>. QED BY <2>1, <2>2
<1>8. Len(x) \in Nat /\ Len(y) \in Nat /\ DOMAIN v = 1 .. Len(v) BY <1>7
<1>9. ASSUME NEW i \in 1 .. Len(v) PROVE v[i] \in S \/ (i = Len(x) + 1 /\ v[i] = a)
  <2>1. CASE i <= Len(x)
    <3>1. v[i] = x[i] /\ i \in 1 .. Len(x) BY <1>5, <1>7, <1>8, <2>1
    <3>. QED BY <3>1
  <2>2. CASE i = Len(x) + 1
    <3>1. v[i] = w[1] BY <1>5, <1>7, <1>8, <2>2
    <3>. QED BY <1>2, <2>2, <3>1
  <2>3. CASE i > Len(x) + 1
    <3>1. v[i] = y[i - Len(z)] /\ i - Len(z) \in 1 .. Len(y) BY <1>5, <1>7, <1>8, <2>3
    <3>. QED BY <3>1
  <2>. QED BY <1>8, <2>1, <2>2, <2>3
<1>. QED BY <1>8, <1>9

\* The trip that INIT_T adds is about to get its thread.
LEMMA NuevosInitT ==
  ASSUME Tipos, Tipos', Nuevos, INIT_T
  PROVE  Nuevos'
<1>1. TiposPatotas /\ TiposMarcos /\ TiposHilos BY DEF Tipos
<1>2. PICK p : p = Len(patotas) OBVIOUS
<1>3. PICK t : t = Len(patotas[p].inicio) - faltan + 1 OBVIOUS
<1>4. Ocioso(Principal) /\ faltan > 0 BY DEF INIT_T
<1>5. /\ p \in Nat /\ p \in 1 .. Len(patotas) /\ t \in 1 .. Len(patotas[p].inicio) /\ <<p, t>> \in Trips
      /\ <<p, t>> \in Existen /\ t \in Nat /\ t # 0
  <2>1. p \in Nat /\ p \in 1 .. Len(patotas) BY <1>1, <1>2, <1>3, <1>4, TripNuevo
  <2>2. t \in 1 .. Len(patotas[p].inicio) /\ <<p, t>> \in Trips BY <1>1, <1>2, <1>3, <1>4, TripNuevo
  <2>3. <<p, t>> \in Existen /\ t \in Nat /\ t # 0 BY <1>1, <1>2, <1>3, <1>4, TripNuevo
  <2>. QED BY <2>1, <2>2, <2>3
<1>6. faltan' = faltan - 1 /\ tripulantes' = tripulantes \union {<<p, t>>} BY <1>2, <1>3 DEF INIT_T
<1>7. Len(patotas') = p /\ \A q \in 1 .. Len(patotas) : Len(patotas'[q].inicio) = Len(patotas[q].inicio)
  <2>1. CASE FramesDelTrip(p) > Cardinality(Libres(mapa_logico))
    <3>1. UNCHANGED patotas BY <1>2, <2>1 DEF INIT_T
    <3>. QED BY <1>2, <3>1
  <2>2. CASE ~(FramesDelTrip(p) > Cardinality(Libres(mapa_logico)))
    <3>1. PICK e : e = Elegidos(mapa_logico, FramesDelTrip(p)) OBVIOUS
    <3>. QED BY <1>1, <1>2, <1>3, <2>2, <3>1, TripAceptado
  <2>. QED BY <2>1, <2>2
<1>8. faltan \in Nat /\ Len(patotas[p].inicio) \in Nat
  <2>1. Len(patotas[p].inicio) \in 0 .. MaxTripulantes BY <1>1, <1>5 DEF TiposPatotas
  <2>. QED BY <1>1, <2>1 DEF TiposPatotas
<1>9. Existen' = Existen
  <2>1. \A g \in Trips : g[1] \in 1 .. Len(patotas) => Len(patotas'[g[1]].inicio) = Len(patotas[g[1]].inicio)
    BY <1>7
  <2>2. Len(patotas') = Len(patotas) BY <1>2, <1>7
  <2>3. \A g \in Trips : g \in Existen' <=> g \in Existen BY <2>1, <2>2 DEF Existen
  <2>4. Existen \subseteq Trips /\ Existen' \subseteq Trips BY DEF Existen
  <2>. QED BY <2>3, <2>4
<1>10. Sin(p, t)
  <2>1. t > Len(patotas[p].inicio) - faltan BY <1>3, <1>8
  <2>. QED BY <1>2, <2>1 DEF Sin
<1>11. ~Sin(p, t)'
  <2>1. ~(t > Len(patotas'[p].inicio) - faltan')
    <3>1. Len(patotas'[p].inicio) = Len(patotas[p].inicio) BY <1>5, <1>7
    <3>. QED BY <1>3, <1>6, <1>8, <3>1
  <2>. QED BY <1>5, <1>7, <1>9, <2>1 DEF Sin
<1>12. ASSUME NEW g \in Trips, Sin(g[1], g[2])' PROVE Sin(g[1], g[2]) /\ g # <<p, t>>
  <2>1. g # <<p, t>> BY <1>11, <1>12
  <2>2. CASE <<g[1], g[2]>> \notin Existen BY <2>1, <2>2 DEF Sin
  <2>3. CASE <<g[1], g[2]>> \in Existen
    <3>1. g[1] = p /\ g[2] > Len(patotas'[p].inicio) - faltan' BY <1>7, <1>9, <1>12, <2>3 DEF Sin
    <3>2. g[2] \in Nat BY Tamanios DEF Trips
    <3>3. g[2] > Len(patotas[p].inicio) - faltan BY <1>5, <1>6, <1>7, <1>8, <3>1, <3>2
    <3>. QED BY <1>2, <2>1, <3>1, <3>3 DEF Sin
  <2>. QED BY <2>2, <2>3
<1>13. hilos[<<p, t>>].pc = "sin_hilo"
  <2>1. <<p, t>>[1] = p /\ <<p, t>>[2] = t OBVIOUS
  <2>. QED BY <1>5, <1>10, <2>1 DEF Nuevos, SinHilo
<1>14. Trips \subseteq Hilos /\ Principal \notin Trips /\ Principal \in Hilos BY DEF Hilos, Trips, Principal
<1>15. CASE FramesDelTrip(p) > Cardinality(Libres(mapa_logico))
  <2>1. UNCHANGED hilos BY <1>2, <1>15 DEF INIT_T
  <2>2. SinHilo' BY <1>6, <1>12, <2>1, SinHiloSigue DEF Nuevos, SinHilo
  <2>3. DOMAIN hilos[Principal].accesos = {} BY <1>4 DEF Ocioso
  <2>4. UnArranque' BY <2>1, <2>3 DEF UnArranque
  <2>. QED BY <2>2, <2>4 DEF Nuevos
<1>16. CASE ~(FramesDelTrip(p) > Cardinality(Libres(mapa_logico)))
  <2>1. PICK a : a = Paso("arrancar", p, t) OBVIOUS
  <2>2. PICK x : x = EscribirTodo(p, t) OBVIOUS
  <2>3. PICK y : y = loggear_data(p, tripulantes') OBVIOUS
  <2>4. PICK v : v = x \o <<a>> \o y OBVIOUS
  <2>5. Empezar(Principal, v)
    <3>1. PICK e : e = Elegidos(mapa_logico, FramesDelTrip(p)) OBVIOUS
    <3>. QED BY <1>1, <1>2, <1>3, <1>16, <2>1, <2>2, <2>3, <2>4, <3>1, TripAceptado
  <2>. DEFINE S == SinArrancar(p, Existen)
  <2>6. x \in Seq(S)
    <3>1. x \in Seq(Lecturas(p, Existen)) BY <1>2, <1>5, <2>2, TodoBien
    <3>2. Lecturas(p, Existen) \subseteq S BY LecturasSin
    <3>. HIDE DEF S
    <3>. QED BY <3>1, <3>2, SeqMonotonic
  <2>7. y \in Seq(S)
    <3>1. Existen \in SUBSET Trips /\ \A trip \in Existen : trip[1] \in 1 .. p BY <1>2 DEF Existen
    <3>2. tripulantes' \in SUBSET Existen BY <1>1, <1>5, <1>6 DEF TiposPatotas
    <3>. QED BY <1>5, <2>3, <3>1, <3>2, LogAccesos
  <2>8. \A i \in DOMAIN v : v[i] \in S \/ (i = Len(x) + 1 /\ v[i] = a)
    <3>. HIDE DEF S
    <3>. QED BY <2>4, <2>6, <2>7, Intercalado
  <2>9. \A i \in DOMAIN v : v[i].tipo = "arrancar" => i = Len(x) + 1 /\ v[i] = a BY <2>8 DEF SinArrancar
  <2>10. a.p = p /\ a.t = t BY <2>1 DEF Paso, Acceso
  <2>11. /\ hilos'[Principal].accesos = v /\ hilos'[Principal].pc = hilos[Principal].pc
         /\ \A g \in Trips : hilos'[g] = hilos[g]
    <3>1. hilos \in [Hilos -> Hilo] /\ hilos[Principal] \in Hilo BY <1>1, <1>14 DEF TiposHilos
    <3>2. PICK r : r = [hilos[Principal] EXCEPT !.accesos = v] OBVIOUS
    <3>3. r.accesos = v /\ r.pc = hilos[Principal].pc BY <3>1, <3>2 DEF Hilo
    <3>4. hilos' = [hilos EXCEPT ![Principal] = r] BY <2>5, <3>2 DEF Empezar
    <3>. QED BY <1>14, <3>1, <3>3, <3>4
  <2>12. UnArranque' BY <1>5, <1>11, <1>13, <2>9, <2>10, <2>11 DEF UnArranque
  <2>13. SinHilo' BY <1>6, <1>12, <2>11, SinHiloSigue DEF Nuevos, SinHilo
  <2>. QED BY <2>12, <2>13 DEF Nuevos
<1>. QED BY <1>15, <1>16

\* Pthread_create: who has a thread.
LEMMA NuevosArrancar ==
  ASSUME Tipos, Tipos', Nuevos, Arrancar
  PROVE  Nuevos'
<1>1. PICK a : a = Siguiente(Principal) OBVIOUS
<1>2. PICK g : g = <<a.p, a.t>> OBVIOUS
<1>3. /\ Le_toca(Principal, {"arrancar"}) /\ hilos' = [Hecho(Principal) EXCEPT ![g].pc = "listo"]
      /\ UNCHANGED <<patotas, tripulantes, faltan>>
  BY <1>1, <1>2 DEF Arrancar, orden
<1>4. TiposPatotas /\ TiposHilos BY DEF Tipos
<1>5. Le_toca(Principal, Pasos) BY <1>3 DEF Le_toca, Pasos
<1>6. g \in Trips /\ g # Principal /\ g \in Hilos /\ Principal \in Hilos BY <1>1, <1>2, <1>4, <1>5, PasoBien
<1>7. PICK s : s = hilos[Principal].accesos OBVIOUS
<1>8. /\ hilos'[Principal].accesos = Tail(s) /\ hilos'[Principal].pc = hilos[Principal].pc
      /\ \A h \in Hilos : h # Principal /\ h # g => hilos'[h] = hilos[h]
  <2>1. hilos \in [Hilos -> Hilo] /\ hilos[Principal] \in Hilo BY <1>4, <1>6 DEF TiposHilos
  <2>2. PICK r : r = [hilos[Principal] EXCEPT !.accesos = Tail(s)] OBVIOUS
  <2>3. r.accesos = Tail(s) /\ r.pc = hilos[Principal].pc BY <2>1, <2>2 DEF Hilo
  <2>4. PICK k : k = [hilos[g] EXCEPT !.pc = "listo"] OBVIOUS
  <2>5. Hecho(Principal) = [hilos EXCEPT ![Principal] = r] BY <1>7, <2>2 DEF Hecho
  <2>6. hilos' = [[hilos EXCEPT ![Principal] = r] EXCEPT ![g] = k] BY <1>3, <1>6, <2>1, <2>4, <2>5
  <2>. QED BY <1>6, <2>1, <2>3, <2>6
<1>9. s \in Seq(Accesos) /\ s # << >> /\ s[1].tipo = "arrancar" /\ a = s[1] /\ 1 \in DOMAIN s
  <2>1. s \in Seq(Accesos) BY <1>4, <1>6, <1>7 DEF TiposHilos, Hilo
  <2>2. s # << >> /\ Siguiente(Principal).tipo = "arrancar" BY <1>3, <1>7 DEF Le_toca
  <2>. QED BY <1>1, <1>7, <2>1, <2>2 DEF Siguiente
<1>10. ~Sin(g[1], g[2])
  <2>1. ~Sin(a.p, a.t) BY <1>7, <1>9 DEF Nuevos, UnArranque
  <2>. QED BY <1>2, <2>1
<1>11. \A h \in Trips : Sin(h[1], h[2])' <=> Sin(h[1], h[2]) BY <1>3, <1>4, Quietos, SinIgual
<1>12. SinHilo'
  <2>1. \A h \in Trips : Sin(h[1], h[2]) /\ hilos[h].pc = "sin_hilo" => hilos'[h].pc = "sin_hilo"
    <3>1. Trips \subseteq Hilos /\ Principal \notin Trips BY DEF Hilos, Trips, Principal
    <3>. QED BY <1>8, <1>10, <3>1
  <2>2. hilos'[Principal].pc # "sin_hilo" BY <1>8 DEF Nuevos, SinHilo
  <2>. QED BY <1>3, <1>11, <2>1, <2>2, SinHiloSigue DEF Nuevos
<1>13. UnArranque'
  <2>1. \A i \in DOMAIN Tail(s) : i + 1 \in DOMAIN s /\ i + 1 # 1 /\ Tail(s)[i] = s[i + 1]
    BY <1>4, <1>7, <1>8, <1>9, CorridaCola
  <2>2. \A i \in DOMAIN Tail(s) : Tail(s)[i].tipo # "arrancar" BY <1>7, <1>9, <2>1 DEF Nuevos, UnArranque
  <2>. QED BY <1>8, <2>2 DEF UnArranque
<1>. QED BY <1>12, <1>13 DEF Nuevos

\* Pthread_cancel and pthread_join: who has a thread.
LEMMA NuevosCancelar ==
  ASSUME Tipos, Tipos', Nuevos, Cancelar
  PROVE  Nuevos'
<1>1. PICK a : a = Siguiente(Principal) OBVIOUS
<1>2. PICK g : g = <<a.p, a.t>> OBVIOUS
<1>3. PICK pc : pc = Muerto[hilos[g].pc] OBVIOUS
<1>4. /\ Le_toca(Principal, {"cancelar"}) /\ hilos[g].pc \in DOMAIN Muerto
      /\ hilos' = [Hecho(Principal) EXCEPT ![g].pc = pc, ![g].accesos = <<>>]
      /\ UNCHANGED <<patotas, tripulantes, faltan>>
  BY <1>1, <1>2, <1>3 DEF Cancelar, orden
<1>5. TiposPatotas /\ TiposHilos BY DEF Tipos
<1>6. Le_toca(Principal, Pasos) BY <1>4 DEF Le_toca, Pasos
<1>7. g \in Trips /\ g # Principal /\ g \in Hilos /\ Principal \in Hilos BY <1>1, <1>2, <1>5, <1>6, PasoBien
<1>8. PICK s : s = hilos[Principal].accesos OBVIOUS
<1>9. /\ hilos'[Principal].accesos = Tail(s) /\ hilos'[Principal].pc = hilos[Principal].pc
      /\ \A h \in Hilos : h # Principal /\ h # g => hilos'[h] = hilos[h]
  <2>1. hilos \in [Hilos -> Hilo] /\ hilos[Principal] \in Hilo BY <1>5, <1>7 DEF TiposHilos
  <2>2. PICK r : r = [hilos[Principal] EXCEPT !.accesos = Tail(s)] OBVIOUS
  <2>3. r.accesos = Tail(s) /\ r.pc = hilos[Principal].pc BY <2>1, <2>2 DEF Hilo
  <2>4. PICK k : k = [hilos[g] EXCEPT !.pc = pc, !.accesos = <<>>] OBVIOUS
  <2>5. Hecho(Principal) = [hilos EXCEPT ![Principal] = r] BY <1>8, <2>2 DEF Hecho
  <2>6. hilos' = [[hilos EXCEPT ![Principal] = r] EXCEPT ![g] = k] BY <1>4, <1>7, <2>1, <2>4, <2>5
  <2>. QED BY <1>7, <2>1, <2>3, <2>6
<1>10. s # << >> BY <1>4, <1>8 DEF Le_toca
<1>11. hilos[g].pc # "sin_hilo" BY <1>4 DEF Muerto
<1>12. \A h \in Trips : hilos[h].pc = "sin_hilo" => hilos'[h].pc = "sin_hilo"
  <2>1. Trips \subseteq Hilos /\ Principal \notin Trips BY DEF Hilos, Trips, Principal
  <2>. QED BY <1>9, <1>11, <2>1
<1>13. hilos'[Principal].pc # "sin_hilo" BY <1>9 DEF Nuevos, SinHilo
<1>14. Existen' = Existen BY <1>4, Quietos
<1>. QED BY <1>4, <1>8, <1>9, <1>10, <1>12, <1>13, <1>14, NuevosAvanza

\* A trip after the expelled one moves down: who has a thread.
LEMMA NuevosCorrer ==
  ASSUME Tipos, Tipos', Nuevos, Correr
  PROVE  Nuevos'
<1>1. hilos' = Hecho(Principal) /\ UNCHANGED <<tripulantes, faltan>> BY DEF Correr, orden
<1>2. TiposPatotas /\ TiposHilos BY DEF Tipos
<1>3. PICK a : a = Siguiente(Principal) OBVIOUS
<1>4. /\ Le_toca(Principal, Pasos) /\ Existen' = Existen /\ Len(patotas') = Len(patotas) /\ Hilo' = Hilo
      /\ a.p \in 1 .. Len(patotas)
      /\ patotas'[a.p].inicio = [patotas[a.p].inicio EXCEPT ![a.t] = patotas[a.p].inicio[a.t] - TAMANIO_TRIPULANTE]
      /\ \A q \in 1 .. Len(patotas) : q # a.p => patotas'[q] = patotas[q]
  BY <1>3, CorrerHace
<1>5. /\ hilos'[Principal].accesos = Tail(hilos[Principal].accesos) /\ hilos'[Principal].pc = "listo"
      /\ \A g \in Hilos : g # Principal => hilos'[g] = hilos[g]
  BY <1>1, <1>2, <1>4, Avanza
<1>6. \A q \in 1 .. Len(patotas) : Len(patotas'[q].inicio) = Len(patotas[q].inicio)
  <2>1. patotas[a.p] \in Patota BY <1>2, <1>4 DEF TiposPatotas
  <2>2. PICK s : s = patotas[a.p].inicio OBVIOUS
  <2>3. s \in Seq(Int) BY <2>1, <2>2 DEF Patota
  <2>4. Len([s EXCEPT ![a.t] = s[a.t] - TAMANIO_TRIPULANTE]) = Len(s) BY <2>3
  <2>. QED BY <1>4, <2>2, <2>4
<1>7. \A g \in Trips : hilos'[g] = hilos[g]
  <2>1. Trips \subseteq Hilos /\ Principal \notin Trips BY DEF Hilos, Trips, Principal
  <2>. QED BY <1>5, <2>1
<1>8. hilos[Principal].accesos # << >> BY <1>4 DEF Le_toca
<1>. QED BY <1>1, <1>4, <1>5, <1>6, <1>7, <1>8, NuevosAvanza

\* The frames of the expelled trip are freed: who has a thread.
LEMMA NuevosSoltar ==
  ASSUME Tipos, Tipos', Nuevos, Soltar
  PROVE  Nuevos'
<1>1. hilos' = Hecho(Principal) /\ UNCHANGED faltan /\ tripulantes' \subseteq tripulantes BY DEF Soltar, orden
<1>2. TiposPatotas /\ TiposHilos BY DEF Tipos
<1>3. PICK a : a = Siguiente(Principal) OBVIOUS
<1>0. PICK x : x = patotas[a.p].memoria_ocupada - TAMANIO_TRIPULANTE OBVIOUS
<1>4. /\ Le_toca(Principal, Pasos) /\ Existen' = Existen /\ Len(patotas') = Len(patotas) /\ Hilo' = Hilo
      /\ patotas'[a.p].inicio = patotas[a.p].inicio
      /\ \A q \in 1 .. Len(patotas) : q # a.p => patotas'[q] = patotas[q]
  BY <1>0, <1>3, SoltarHace
<1>5. /\ hilos'[Principal].accesos = Tail(hilos[Principal].accesos) /\ hilos'[Principal].pc = "listo"
      /\ \A g \in Hilos : g # Principal => hilos'[g] = hilos[g]
  BY <1>1, <1>2, <1>4, Avanza
<1>6. \A q \in 1 .. Len(patotas) : Len(patotas'[q].inicio) = Len(patotas[q].inicio) BY <1>4
<1>7. \A g \in Trips : hilos'[g] = hilos[g]
  <2>1. Trips \subseteq Hilos /\ Principal \notin Trips BY DEF Hilos, Trips, Principal
  <2>. QED BY <1>5, <2>1
<1>8. hilos[Principal].accesos # << >> BY <1>4 DEF Le_toca
<1>. QED BY <1>1, <1>4, <1>5, <1>6, <1>7, <1>8, NuevosAvanza

-----------------------------------------------------------------------------
(* What the threads hold *)

\* Thread h took the semaphore of page m and did not post it.
Tiene(h, m) ==
  \/ hilos[h].pc \notin {"listo", "sin_hilo"} /\ hilos[h].marco = m
  \/ hilos[h].pc \in {"cambiar", "muerto_cambiar"} /\ hilos[h].tomada /\ hilos[h].victima = m

\* One thread at a time is past mutex_incorporar_marco, or died there.
EnSeccion == {"libre", "reloj", "cambiar", "traer", "muerto_reloj", "muerto_cambiar", "muerto_traer"}
UnoIncorpora ==
  \A h, g \in Hilos : hilos[h].pc \in EnSeccion /\ hilos[g].pc \in EnSeccion =>
                        h = g /\ mutex_incorporar_marco = 0

SemaforoBien(m) ==
  /\ mapa_logico[m].semaforo_mutex \in 0 .. 1
  /\ mapa_logico[m].semaforo_mutex = 1 => \A h \in Hilos : ~Tiene(h, m)
  /\ mapa_logico[m].semaforo_mutex = 0 => \E h \in Hilos : \A g \in Hilos : Tiene(g, m) <=> g = h
Semaforos == "sin_tomar" \notin causas => \A m \in Marcos : SemaforoBien(m)

\* Whether the page that a thread holds is in memory.
PresenciaBien(h) ==
  /\ hilos[h].pc \in {"incorporar", "libre", "reloj", "cambiar"} => ~mapa_logico[hilos[h].marco].presencia
  /\ hilos[h].pc = "traer" => mapa_logico[hilos[h].marco].presencia
  /\ hilos[h].pc = "copiar" /\ Siguiente(h).tipo # "tarea" => mapa_logico[hilos[h].marco].presencia
  /\ hilos[h].pc \in {"cambiar", "muerto_cambiar"} /\ hilos[h].tomada => hilos[h].victima # hilos[h].marco
Presencias == "sin_tomar" \notin causas => \A h \in Hilos : PresenciaBien(h)

\* Two pages in memory are in different frames.
Distintos ==
  "ausente" \notin causas =>
    \A m, n \in Marcos : m # n /\ mapa_logico[m].presencia /\ mapa_logico[n].presencia =>
                           mapa_logico[m].nro_real # mapa_logico[n].nro_real

Retenciones == UnoIncorpora /\ Semaforos /\ Presencias /\ Distintos

\* thread g holds what it held
Conserva(g) ==
  \/ hilos[g].pc \in {"listo", "sin_hilo"} /\ hilos'[g].pc \in {"listo", "sin_hilo"}
  \/ /\ hilos'[g].marco = hilos[g].marco /\ hilos'[g].victima = hilos[g].victima
     /\ hilos'[g].tomada = hilos[g].tomada
     /\ \/ hilos'[g].pc = hilos[g].pc /\ hilos'[g].accesos = hilos[g].accesos
        \/ hilos[g].pc = "incorporar" /\ hilos'[g].pc = "muerto_incorporar"
        \/ hilos[g].pc = "reloj" /\ hilos'[g].pc = "muerto_reloj"
        \/ hilos[g].pc = "cambiar" /\ hilos'[g].pc = "muerto_cambiar"
        \/ hilos[g].pc = "traer" /\ hilos'[g].pc = "muerto_traer" /\ "cancelado" \in causas'

Lugar(m) ==
  /\ mapa_logico'[m].presencia = mapa_logico[m].presencia
  /\ mapa_logico'[m].nro_real = mapa_logico[m].nro_real
  /\ mapa_logico'[m].semaforo_mutex = mapa_logico[m].semaforo_mutex

\* a step that has nothing to do with the accesses
Ajeno ==
  /\ \A g \in Hilos : Conserva(g)
  /\ mutex_incorporar_marco' = mutex_incorporar_marco /\ causas \subseteq causas'
  /\ \A m \in Marcos : Lugar(m)

\* Steps outside the accesses change nothing of what the threads hold.
LEMMA AjenoRetiene ==
  ASSUME TiposHilos, Ajeno, Retenciones
  PROVE  Retenciones'
<1>1. ASSUME NEW g \in Hilos, NEW m PROVE Tiene(g, m)' <=> Tiene(g, m)
  <2>1. Conserva(g) BY DEF Ajeno
  <2>. QED BY <2>1 DEF Conserva, Tiene
<1>2. \A g \in Hilos : hilos'[g].pc \in EnSeccion => hilos[g].pc \in EnSeccion
  <2>1. ASSUME NEW g \in Hilos, hilos'[g].pc \in EnSeccion PROVE hilos[g].pc \in EnSeccion
    <3>1. Conserva(g) BY DEF Ajeno
    <3>. QED BY <2>1, <3>1 DEF Conserva, EnSeccion
  <2>. QED BY <2>1
<1>3. UnoIncorpora' BY <1>2 DEF Ajeno, Retenciones, UnoIncorpora
<1>4. Semaforos'
  <2>1. SUFFICES ASSUME "sin_tomar" \notin causas', NEW m \in Marcos PROVE SemaforoBien(m)'
    BY DEF Semaforos
  <2>2. SemaforoBien(m) BY <2>1 DEF Ajeno, Retenciones, Semaforos
  <2>3. Lugar(m) BY DEF Ajeno
  <2>. QED BY <1>1, <2>2, <2>3 DEF SemaforoBien, Lugar
<1>5. Presencias'
  <2>1. SUFFICES ASSUME "sin_tomar" \notin causas', NEW h \in Hilos PROVE PresenciaBien(h)'
    BY DEF Presencias
  <2>2. PresenciaBien(h) BY <2>1 DEF Ajeno, Retenciones, Presencias
  <2>3. hilos[h] \in Hilo /\ hilos[h].marco \in Marcos BY DEF TiposHilos, Hilo
  <2>4. Lugar(hilos[h].marco) BY <2>3 DEF Ajeno
  <2>5. Conserva(h) BY DEF Ajeno
  <2>. QED BY <2>2, <2>4, <2>5 DEF PresenciaBien, Conserva, Lugar, Siguiente
<1>6. Distintos'
  <2>1. SUFFICES ASSUME "ausente" \notin causas', NEW m \in Marcos, NEW n \in Marcos, m # n,
                        mapa_logico'[m].presencia, mapa_logico'[n].presencia
                 PROVE  mapa_logico'[m].nro_real # mapa_logico'[n].nro_real
    BY DEF Distintos
  <2>2. Lugar(m) /\ Lugar(n) BY DEF Ajeno
  <2>. QED BY <2>1, <2>2 DEF Ajeno, Retenciones, Distintos, Lugar
<1>. QED BY <1>3, <1>4, <1>5, <1>6 DEF Retenciones

\* A step of h changes nothing of what another thread holds.
LEMMA OtroTiene ==
  ASSUME NEW h \in Hilos, LosDemas(h), NEW m
  PROVE  \A g \in Hilos : g # h => (Tiene(g, m)' <=> Tiene(g, m))
BY DEF LosDemas, Tiene

\* A wait on the semaphore of m, a post, and neither.
LEMMA SemaforoTomado ==
  ASSUME NEW h \in Hilos, LosDemas(h), NEW m, SemaforoBien(m), mapa_logico[m].semaforo_mutex > 0,
         mapa_logico'[m].semaforo_mutex = mapa_logico[m].semaforo_mutex - 1, Tiene(h, m)'
  PROVE  SemaforoBien(m)'
<1>1. mapa_logico[m].semaforo_mutex = 1 /\ mapa_logico'[m].semaforo_mutex = 0 BY DEF SemaforoBien
<1>2. \A g \in Hilos : ~Tiene(g, m) BY <1>1 DEF SemaforoBien
<1>3. \A g \in Hilos : Tiene(g, m)' <=> g = h BY <1>2, OtroTiene
<1>. QED BY <1>1, <1>3 DEF SemaforoBien

\* The post.
LEMMA SemaforoSuelto ==
  ASSUME NEW h \in Hilos, LosDemas(h), NEW m, SemaforoBien(m), Tiene(h, m), ~Tiene(h, m)',
         mapa_logico'[m].semaforo_mutex = mapa_logico[m].semaforo_mutex + 1
  PROVE  SemaforoBien(m)'
<1>1. mapa_logico[m].semaforo_mutex = 0 /\ mapa_logico'[m].semaforo_mutex = 1 BY DEF SemaforoBien
<1>2. \A g \in Hilos : Tiene(g, m) <=> g = h BY <1>1 DEF SemaforoBien
<1>3. \A g \in Hilos : ~Tiene(g, m)' BY <1>2, OtroTiene
<1>. QED BY <1>1, <1>3 DEF SemaforoBien

\* Neither.
LEMMA SemaforoIgual ==
  ASSUME NEW h \in Hilos, LosDemas(h), NEW m, SemaforoBien(m), Tiene(h, m)' <=> Tiene(h, m),
         mapa_logico'[m].semaforo_mutex = mapa_logico[m].semaforo_mutex
  PROVE  SemaforoBien(m)'
<1>1. \A g \in Hilos : Tiene(g, m)' <=> Tiene(g, m) BY OtroTiene
<1>. QED BY <1>1 DEF SemaforoBien

\* Two threads do not hold the same page.
LEMMA NadieMas ==
  ASSUME NEW h \in Hilos, NEW g \in Hilos, g # h, NEW m, SemaforoBien(m), Tiene(h, m)
  PROVE  ~Tiene(g, m)
<1>1. mapa_logico[m].semaforo_mutex = 0 BY DEF SemaforoBien
<1>2. PICK k \in Hilos : \A j \in Hilos : Tiene(j, m) <=> j = k BY <1>1 DEF SemaforoBien
<1>. QED BY <1>2

\* The pages stay where they are.
LEMMA PresenciasIguales ==
  ASSUME TiposHilos, NEW h \in Hilos, LosDemas(h), \A n \in Marcos : mapa_logico'[n].presencia = mapa_logico[n].presencia,
         NEW g \in Hilos, g # h, PresenciaBien(g)
  PROVE  PresenciaBien(g)'
<1>1. hilos'[g] = hilos[g] /\ hilos[g].marco \in Marcos BY DEF LosDemas, TiposHilos, Hilo
<1>. QED BY <1>1 DEF PresenciaBien, Siguiente

\* Frames that do not change hands stay different.
LEMMA DistintosIguales ==
  ASSUME Distintos, causas' = causas,
         \A n \in Marcos : /\ mapa_logico'[n].presencia = mapa_logico[n].presencia
                           /\ mapa_logico'[n].nro_real = mapa_logico[n].nro_real
  PROVE  Distintos'
BY DEF Distintos

\* A thread waits for the semaphore of a page: who holds each page.
LEMMA RetieneTomar ==
  ASSUME Tipos, Retenciones, NEW h \in Hilos, Tomar(h)
  PROVE  Retenciones'
<1>1. TiposHilos /\ LosDemas(h) BY TiposTomar DEF Tipos
<1>2. causas' = causas /\ mutex_incorporar_marco' = mutex_incorporar_marco /\ hilos[h].pc = "listo"
  BY DEF Tomar, Le_toca
<1>3. CASE UNCHANGED <<hilos, mapa_logico>>
  BY <1>2, <1>3 DEF Retenciones, UnoIncorpora, Semaforos, SemaforoBien, Presencias, PresenciaBien, Distintos,
                    Tiene, Siguiente
<1>4. ASSUME NEW m \in Marcos, TomaHecha(h, m) PROVE Retenciones'
  <2>1. /\ hilos'[h].pc \in {"copiar", "incorporar"} /\ hilos'[h].marco = m
        /\ Restado(m) /\ \A n \in Marcos : MismaPagina(n)
    BY <1>4 DEF TomaHecha, Restado
  <2>2. \A n : Tiene(h, n)' <=> n = m BY <2>1 DEF Tiene
  <2>3. \A n : ~Tiene(h, n) BY <1>2 DEF Tiene
  <2>4. UnoIncorpora' BY <1>1, <1>2, <2>1 DEF Retenciones, UnoIncorpora, LosDemas, EnSeccion
  <2>5. Semaforos'
    <3>1. SUFFICES ASSUME "sin_tomar" \notin causas', NEW n \in Marcos PROVE SemaforoBien(n)' BY DEF Semaforos
    <3>2. SemaforoBien(n) BY <1>2, <3>1 DEF Retenciones, Semaforos
    <3>3. CASE n = m BY <1>1, <2>1, <2>2, <3>2, <3>3, SemaforoTomado DEF Restado
    <3>4. CASE n # m
      <4>1. Tiene(h, n)' <=> Tiene(h, n) BY <2>2, <2>3, <3>4
      <4>2. mapa_logico'[n].semaforo_mutex = mapa_logico[n].semaforo_mutex BY <2>1, <3>4 DEF Restado, MismoSemaforo
      <4>. QED BY <1>1, <3>2, <4>1, <4>2, SemaforoIgual
    <3>. QED BY <3>3, <3>4
  <2>6. Presencias'
    <3>1. SUFFICES ASSUME "sin_tomar" \notin causas', NEW g \in Hilos PROVE PresenciaBien(g)' BY DEF Presencias
    <3>2. PresenciaBien(g) BY <1>2, <3>1 DEF Retenciones, Presencias
    <3>3. \A n \in Marcos : mapa_logico'[n].presencia = mapa_logico[n].presencia BY <2>1 DEF MismaPagina
    <3>4. CASE g # h BY <1>1, <3>2, <3>3, <3>4, PresenciasIguales
    <3>5. CASE g = h BY <1>4, <2>1, <3>3, <3>5 DEF TomaHecha, PresenciaBien, Siguiente
    <3>. QED BY <3>4, <3>5
  <2>7. Distintos' BY <1>2, <2>1, DistintosIguales DEF Retenciones, MismaPagina
  <2>. QED BY <2>4, <2>5, <2>6, <2>7 DEF Retenciones
<1>. QED BY <1>3, <1>4, TiposTomar

\* Whoever is in the section holds mutex_incorporar_marco.
LEMMA Ocupado ==
  ASSUME UnoIncorpora, NEW h \in Hilos, hilos[h].pc \in EnSeccion
  PROVE  mutex_incorporar_marco = 0 /\ \A g \in Hilos : hilos[g].pc \in EnSeccion => g = h
BY DEF UnoIncorpora

\* It sees a free frame or looks for a victim: who holds each page.
LEMMA RetieneIncorporar ==
  ASSUME Tipos, Retenciones, NEW h \in Hilos, incorporar_marco(h)
  PROVE  Retenciones'
<1>1. TiposHilos /\ LosDemas(h) /\ IncorporaHecha(h) BY TiposIncorporar DEF Tipos
<1>2. /\ causas' = causas /\ UNCHANGED mapa_logico /\ hilos[h].pc = "incorporar"
      /\ mutex_incorporar_marco = 1 /\ mutex_incorporar_marco' = 0
  BY <1>1 DEF IncorporaHecha, pags, Tipos, TiposMarcos
<1>3. \A g \in Hilos : hilos[g].pc \notin EnSeccion BY <1>2 DEF Retenciones, UnoIncorpora
<1>4. UnoIncorpora' BY <1>1, <1>2, <1>3 DEF UnoIncorpora, LosDemas
<1>5. hilos'[h].pc \in {"incorporar", "libre", "reloj"} /\ hilos'[h].marco = hilos[h].marco
  BY <1>1, <1>2 DEF IncorporaHecha
<1>6. \A n : Tiene(h, n)' <=> Tiene(h, n) BY <1>2, <1>5 DEF Tiene
<1>7. Semaforos'
  <2>1. SUFFICES ASSUME "sin_tomar" \notin causas', NEW n \in Marcos PROVE SemaforoBien(n)' BY DEF Semaforos
  <2>2. SemaforoBien(n) BY <1>2, <2>1 DEF Retenciones, Semaforos
  <2>. QED BY <1>1, <1>2, <1>6, <2>2, SemaforoIgual
<1>8. Presencias'
  <2>1. SUFFICES ASSUME "sin_tomar" \notin causas', NEW g \in Hilos PROVE PresenciaBien(g)' BY DEF Presencias
  <2>2. PresenciaBien(g) BY <1>2, <2>1 DEF Retenciones, Presencias
  <2>3. CASE g # h BY <1>1, <1>2, <2>2, <2>3, PresenciasIguales
  <2>4. CASE g = h BY <1>2, <1>5, <2>2, <2>4 DEF PresenciaBien
  <2>. QED BY <2>3, <2>4
<1>9. Distintos' BY <1>2, DistintosIguales DEF Retenciones
<1>. QED BY <1>4, <1>7, <1>8, <1>9 DEF Retenciones

\* It takes the first free frame: who holds each page.
LEMMA RetieneLibre ==
  ASSUME Tipos, Retenciones, NEW h \in Hilos, obtener_marco_libre_fisico(h)
  PROVE  Retenciones'
<1>1. TiposHilos /\ LosDemas(h) /\ LibreHecha(h) BY TiposLibre DEF Tipos
<1>2. /\ causas' = causas /\ UNCHANGED <<mapa_logico, mutex_incorporar_marco>>
      /\ hilos[h].pc = "libre" /\ hilos[h].pc \in EnSeccion
  BY <1>1 DEF LibreHecha, pags, EnSeccion
<1>3. mutex_incorporar_marco = 0 /\ \A g \in Hilos : hilos[g].pc \in EnSeccion => g = h
  BY <1>2, Ocupado DEF Retenciones
<1>4. UnoIncorpora' BY <1>1, <1>2, <1>3 DEF UnoIncorpora, LosDemas
<1>5. hilos'[h].pc \in {"libre", "cambiar"} /\ hilos'[h].marco = hilos[h].marco
      /\ (hilos'[h].pc = "cambiar" => ~hilos'[h].tomada)
  BY <1>1, <1>2 DEF LibreHecha
<1>6. \A n : Tiene(h, n)' <=> Tiene(h, n) BY <1>2, <1>5 DEF Tiene
<1>7. Semaforos'
  <2>1. SUFFICES ASSUME "sin_tomar" \notin causas', NEW n \in Marcos PROVE SemaforoBien(n)' BY DEF Semaforos
  <2>2. SemaforoBien(n) BY <1>2, <2>1 DEF Retenciones, Semaforos
  <2>. QED BY <1>1, <1>2, <1>6, <2>2, SemaforoIgual
<1>8. Presencias'
  <2>1. SUFFICES ASSUME "sin_tomar" \notin causas', NEW g \in Hilos PROVE PresenciaBien(g)' BY DEF Presencias
  <2>2. PresenciaBien(g) BY <1>2, <2>1 DEF Retenciones, Presencias
  <2>3. CASE g # h BY <1>1, <1>2, <2>2, <2>3, PresenciasIguales
  <2>4. CASE g = h BY <1>2, <1>5, <2>2, <2>4 DEF PresenciaBien
  <2>. QED BY <2>3, <2>4
<1>9. Distintos' BY <1>2, DistintosIguales DEF Retenciones
<1>. QED BY <1>4, <1>7, <1>8, <1>9 DEF Retenciones

\* A turn of the clock: who holds each page.
LEMMA RetieneReloj ==
  ASSUME Tipos, Retenciones, NEW h \in Hilos, reemplazo_por_clock(h)
  PROVE  Retenciones'
<1>1. TiposHilos /\ LosDemas(h) /\ RelojHecho(h) BY TiposReloj DEF Tipos
<1>2. causas' = causas /\ mutex_incorporar_marco' = mutex_incorporar_marco /\ hilos[h].pc = "reloj"
  BY <1>1 DEF RelojHecho
<1>3. \A n \in Marcos : MismaPagina(n) BY <1>1 DEF RelojHecho, Restado
<1>4. hilos'[h].pc \in {"reloj", "cambiar"} /\ hilos'[h].marco = hilos[h].marco
  BY <1>1, <1>2 DEF RelojHecho
<1>5. UnoIncorpora' BY <1>1, <1>2, <1>4 DEF Retenciones, UnoIncorpora, LosDemas, EnSeccion
<1>6. Semaforos'
  <2>1. SUFFICES ASSUME "sin_tomar" \notin causas', NEW n \in Marcos PROVE SemaforoBien(n)' BY DEF Semaforos
  <2>2. SemaforoBien(n) BY <1>2, <2>1 DEF Retenciones, Semaforos
  <2>3. CASE UNCHANGED hilos /\ \A k \in Marcos : MismoSemaforo(k)
    <3>1. Tiene(h, n)' <=> Tiene(h, n) BY <2>3 DEF Tiene
    <3>. QED BY <1>1, <2>2, <2>3, <3>1, SemaforoIgual DEF MismoSemaforo
  <2>4. CASE hilos'[h].pc = "cambiar" /\ hilos'[h].tomada /\ Restado(hilos'[h].victima)
    <3>1. CASE n = hilos'[h].victima
      <4>1. Tiene(h, n)' BY <2>4, <3>1 DEF Tiene
      <4>. QED BY <1>1, <2>2, <2>4, <3>1, <4>1, SemaforoTomado DEF Restado
    <3>2. CASE n # hilos'[h].victima
      <4>1. Tiene(h, n)' <=> Tiene(h, n) BY <1>2, <1>4, <2>4, <3>2 DEF Tiene
      <4>2. mapa_logico'[n].semaforo_mutex = mapa_logico[n].semaforo_mutex BY <2>4, <3>2 DEF Restado, MismoSemaforo
      <4>. QED BY <1>1, <2>2, <4>1, <4>2, SemaforoIgual
    <3>. QED BY <3>1, <3>2
  <2>. QED BY <1>1, <2>3, <2>4 DEF RelojHecho
<1>7. Presencias'
  <2>1. SUFFICES ASSUME "sin_tomar" \notin causas', NEW g \in Hilos PROVE PresenciaBien(g)' BY DEF Presencias
  <2>2. PresenciaBien(g) BY <1>2, <2>1 DEF Retenciones, Presencias
  <2>3. \A n \in Marcos : mapa_logico'[n].presencia = mapa_logico[n].presencia BY <1>3 DEF MismaPagina
  <2>4. CASE g # h BY <1>1, <2>2, <2>3, <2>4, PresenciasIguales
  <2>5. CASE g = h
    <3>1. hilos[h].marco \in Marcos BY <1>1 DEF TiposHilos, Hilo
    <3>2. ~mapa_logico'[hilos'[h].marco].presencia BY <1>2, <1>4, <2>2, <2>3, <2>5, <3>1 DEF PresenciaBien
    <3>3. ASSUME hilos'[h].pc = "cambiar", hilos'[h].tomada PROVE hilos'[h].victima # hilos'[h].marco
      <4>1. Restado(hilos'[h].victima) /\ hilos'[h].victima \in Marcos BY <1>1, <1>2, <3>3 DEF RelojHecho
      <4>2. SemaforoBien(hilos[h].marco) BY <1>2, <2>1, <3>1 DEF Retenciones, Semaforos
      <4>3. Tiene(h, hilos[h].marco) BY <1>2 DEF Tiene
      <4>4. mapa_logico[hilos[h].marco].semaforo_mutex = 0 BY <4>2, <4>3 DEF SemaforoBien
      <4>5. mapa_logico[hilos'[h].victima].semaforo_mutex > 0 BY <4>1 DEF Restado
      <4>. QED BY <1>4, <4>4, <4>5
    <3>. QED BY <1>4, <2>5, <3>2, <3>3 DEF PresenciaBien
  <2>. QED BY <2>4, <2>5
<1>8. Distintos' BY <1>2, <1>3, DistintosIguales DEF Retenciones, MismaPagina
<1>. QED BY <1>5, <1>6, <1>7, <1>8 DEF Retenciones

\* The frame of the victim changes hands.
LEMMA RetieneCambiar ==
  ASSUME Tipos, Retenciones, NEW h \in Hilos, Cambiar(h)
  PROVE  Retenciones'
<1>1. PICK m : m = hilos[h].marco OBVIOUS
<1>2. PICK v : v = hilos[h].victima OBVIOUS
<1>3. TiposHilos /\ LosDemas(h) /\ CambioHecho(h, m, v) BY <1>1, <1>2, TiposCambiar DEF Tipos
<1>4. m \in Marcos /\ v \in Marcos BY <1>1, <1>2, <1>3 DEF TiposHilos, Hilo
<1>5. /\ hilos[h].pc = "cambiar" /\ hilos'[h].pc = "traer" /\ hilos'[h].marco = m
      /\ mutex_incorporar_marco' = mutex_incorporar_marco
  BY <1>3 DEF CambioHecho
<1>6. UnoIncorpora' BY <1>3, <1>5 DEF Retenciones, UnoIncorpora, LosDemas, EnSeccion
<1>7. ASSUME "sin_tomar" \notin causas'
      PROVE  /\ "sin_tomar" \notin causas /\ hilos[h].tomada /\ v # m /\ ~mapa_logico[m].presencia
             /\ \A n \in Marcos : SemaforoBien(n)
  <2>1. "sin_tomar" \notin causas /\ hilos[h].tomada BY <1>3, <1>7 DEF CambioHecho
  <2>2. PresenciaBien(h) /\ \A n \in Marcos : SemaforoBien(n) BY <2>1 DEF Retenciones, Presencias, Semaforos
  <2>. QED BY <1>1, <1>2, <1>5, <2>1, <2>2 DEF PresenciaBien
<1>8. Semaforos'
  <2>1. SUFFICES ASSUME "sin_tomar" \notin causas', NEW n \in Marcos PROVE SemaforoBien(n)' BY DEF Semaforos
  <2>2. SemaforoBien(n) /\ hilos[h].tomada /\ v # m BY <1>7, <2>1
  <2>3. CASE n = v
    <3>1. Tiene(h, n) BY <1>2, <1>5, <2>2, <2>3 DEF Tiene
    <3>2. ~Tiene(h, n)' BY <1>5, <2>2, <2>3 DEF Tiene
    <3>3. mapa_logico'[n].semaforo_mutex = mapa_logico[n].semaforo_mutex + 1 BY <1>3, <2>3 DEF CambioHecho
    <3>. QED BY <1>3, <2>2, <3>1, <3>2, <3>3, SemaforoSuelto
  <2>4. CASE n # v
    <3>1. Tiene(h, n)' <=> Tiene(h, n) BY <1>1, <1>2, <1>5, <2>4 DEF Tiene
    <3>2. mapa_logico'[n].semaforo_mutex = mapa_logico[n].semaforo_mutex
      BY <1>3, <2>2, <2>4 DEF CambioHecho, MismoSemaforo
    <3>. QED BY <1>3, <2>2, <3>1, <3>2, SemaforoIgual
  <2>. QED BY <2>3, <2>4
<1>9. Presencias'
  <2>1. SUFFICES ASSUME "sin_tomar" \notin causas', NEW g \in Hilos PROVE PresenciaBien(g)' BY DEF Presencias
  <2>2. v # m /\ \A n \in Marcos : SemaforoBien(n) BY <1>7, <2>1
  <2>3. PresenciaBien(g) BY <1>7, <2>1 DEF Retenciones, Presencias
  <2>4. mapa_logico'[m].presencia BY <1>3 DEF CambioHecho
  <2>5. CASE g = h BY <1>5, <2>4, <2>5 DEF PresenciaBien
  <2>6. CASE g # h
    <3>1. hilos'[g] = hilos[g] /\ hilos[g].marco \in Marcos BY <1>3, <2>6 DEF LosDemas, TiposHilos, Hilo
    <3>2. PICK k : k = hilos[g].marco OBVIOUS
    <3>3. CASE hilos[g].pc \in {"listo", "sin_hilo"}
      BY <3>1, <3>3 DEF PresenciaBien
    <3>4. CASE hilos[g].pc \notin {"listo", "sin_hilo"}
      <4>1. Tiene(g, k) BY <3>2, <3>4 DEF Tiene
      <4>2. Tiene(h, m) /\ Tiene(h, v) BY <1>1, <1>2, <1>5, <1>7, <2>1 DEF Tiene
      <4>3. k # m /\ k # v BY <1>4, <2>2, <2>6, <4>1, <4>2, NadieMas
      <4>4. mapa_logico'[k].presencia = mapa_logico[k].presencia
        BY <1>3, <3>1, <3>2, <4>3 DEF CambioHecho, MismaPagina
      <4>. QED BY <2>3, <3>1, <3>2, <4>4 DEF PresenciaBien, Siguiente
    <3>. QED BY <3>3, <3>4
  <2>. QED BY <2>5, <2>6
<1>10. Distintos'
  <2>1. SUFFICES ASSUME "ausente" \notin causas', NEW a \in Marcos, NEW b \in Marcos, a # b,
                        mapa_logico'[a].presencia, mapa_logico'[b].presencia
                 PROVE  mapa_logico'[a].nro_real # mapa_logico'[b].nro_real
    BY DEF Distintos
  <2>2. "ausente" \notin causas /\ mapa_logico[v].presencia BY <1>3, <2>1 DEF CambioHecho
  <2>3. \A x, y \in Marcos : x # y /\ mapa_logico[x].presencia /\ mapa_logico[y].presencia =>
                               mapa_logico[x].nro_real # mapa_logico[y].nro_real
    BY <2>2 DEF Retenciones, Distintos
  <2>4. mapa_logico'[m].nro_real = mapa_logico[v].nro_real /\ (m # v => ~mapa_logico'[v].presencia)
    BY <1>3 DEF CambioHecho
  <2>5. \A n \in Marcos : n # m /\ n # v => /\ mapa_logico'[n].presencia = mapa_logico[n].presencia
                                            /\ mapa_logico'[n].nro_real = mapa_logico[n].nro_real
    BY <1>3 DEF CambioHecho, MismaPagina
  <2>6. CASE a = m
    <3>1. b # m /\ b # v BY <2>1, <2>4, <2>6
    <3>. QED BY <1>4, <2>1, <2>2, <2>3, <2>4, <2>5, <2>6, <3>1
  <2>7. CASE b = m
    <3>1. a # m /\ a # v BY <2>1, <2>4, <2>7
    <3>. QED BY <1>4, <2>1, <2>2, <2>3, <2>4, <2>5, <2>7, <3>1
  <2>8. CASE a # m /\ b # m
    <3>1. a # v /\ b # v BY <2>1, <2>4, <2>8
    <3>. QED BY <2>1, <2>3, <2>5, <2>8, <3>1
  <2>. QED BY <2>6, <2>7, <2>8
<1>. QED BY <1>6, <1>8, <1>9, <1>10 DEF Retenciones

\* The page is read from the swap file: who holds each page.
LEMMA RetieneTraer ==
  ASSUME Tipos, Retenciones, NEW h \in Hilos, Traer(h)
  PROVE  Retenciones' /\ mutex_incorporar_marco = 0
<1>1. PICK m : m = hilos[h].marco OBVIOUS
<1>2. hilos[h].pc = "traer" /\ hilos[h].pc \in EnSeccion BY DEF Traer, EnSeccion
<1>3. mutex_incorporar_marco = 0 /\ \A g \in Hilos : hilos[g].pc \in EnSeccion => g = h
  BY <1>2, Ocupado DEF Retenciones
<1>4. TiposHilos /\ LosDemas(h) /\ TraerHecho(h, m) BY <1>1, <1>3, TiposTraer DEF Tipos
<1>5. hilos'[h].pc = "copiar" /\ hilos'[h].marco = m /\ UNCHANGED <<mapa_logico, causas>>
  BY <1>4 DEF TraerHecho
<1>6. UnoIncorpora'
  <2>1. \A g \in Hilos : hilos'[g].pc \notin EnSeccion BY <1>3, <1>4, <1>5 DEF LosDemas, EnSeccion
  <2>. QED BY <2>1 DEF UnoIncorpora
<1>7. \A n : Tiene(h, n)' <=> Tiene(h, n) BY <1>1, <1>2, <1>5 DEF Tiene
<1>8. Semaforos'
  <2>1. SUFFICES ASSUME "sin_tomar" \notin causas', NEW n \in Marcos PROVE SemaforoBien(n)' BY DEF Semaforos
  <2>2. SemaforoBien(n) BY <1>5, <2>1 DEF Retenciones, Semaforos
  <2>. QED BY <1>4, <1>5, <1>7, <2>2, SemaforoIgual
<1>9. Presencias'
  <2>1. SUFFICES ASSUME "sin_tomar" \notin causas', NEW g \in Hilos PROVE PresenciaBien(g)' BY DEF Presencias
  <2>2. PresenciaBien(g) BY <1>5, <2>1 DEF Retenciones, Presencias
  <2>3. CASE g # h BY <1>4, <1>5, <2>2, <2>3, PresenciasIguales
  <2>4. CASE g = h BY <1>1, <1>2, <1>5, <2>2, <2>4 DEF PresenciaBien
  <2>. QED BY <2>3, <2>4
<1>10. Distintos' BY <1>5, DistintosIguales DEF Retenciones
<1>. QED BY <1>3, <1>6, <1>8, <1>9, <1>10 DEF Retenciones

\* The bytes are copied and the semaphore posted: who holds each page.
LEMMA RetieneCopiar ==
  ASSUME Tipos, Retenciones, NEW h \in Hilos, Copiar(h)
  PROVE  Retenciones'
<1>1. PICK m : m = hilos[h].marco OBVIOUS
<1>2. PICK a : a = Siguiente(h) OBVIOUS
<1>3. TiposHilos /\ LosDemas(h) /\ CopiarHecho(h, a, m) BY <1>1, <1>2, TiposCopiar DEF Tipos
<1>4. /\ hilos[h].pc = "copiar" /\ hilos'[h].pc = "listo" /\ hilos'[h].marco = m /\ causas' = causas
      /\ mutex_incorporar_marco' = mutex_incorporar_marco
  BY <1>3 DEF CopiarHecho
<1>5. \A n \in Marcos : /\ mapa_logico'[n].presencia = mapa_logico[n].presencia
                        /\ mapa_logico'[n].nro_real = mapa_logico[n].nro_real
  BY <1>3 DEF CopiarHecho, MismaPagina
<1>6. UnoIncorpora' BY <1>3, <1>4 DEF Retenciones, UnoIncorpora, LosDemas, EnSeccion
<1>7. Semaforos'
  <2>1. SUFFICES ASSUME "sin_tomar" \notin causas', NEW n \in Marcos PROVE SemaforoBien(n)' BY DEF Semaforos
  <2>2. SemaforoBien(n) BY <1>4, <2>1 DEF Retenciones, Semaforos
  <2>3. ~Tiene(h, n)' /\ (Tiene(h, n) <=> n = m) BY <1>1, <1>4 DEF Tiene
  <2>4. CASE n = m
    <3>1. mapa_logico'[n].semaforo_mutex = mapa_logico[n].semaforo_mutex + 1 BY <1>3, <2>4 DEF CopiarHecho
    <3>. QED BY <1>3, <2>2, <2>3, <2>4, <3>1, SemaforoSuelto
  <2>5. CASE n # m
    <3>1. mapa_logico'[n].semaforo_mutex = mapa_logico[n].semaforo_mutex BY <1>3, <2>5 DEF CopiarHecho, MismoSemaforo
    <3>. QED BY <1>3, <2>2, <2>3, <2>5, <3>1, SemaforoIgual
  <2>. QED BY <2>4, <2>5
<1>8. Presencias'
  <2>1. SUFFICES ASSUME "sin_tomar" \notin causas', NEW g \in Hilos PROVE PresenciaBien(g)' BY DEF Presencias
  <2>2. PresenciaBien(g) BY <1>4, <2>1 DEF Retenciones, Presencias
  <2>3. CASE g # h BY <1>3, <1>5, <2>2, <2>3, PresenciasIguales
  <2>4. CASE g = h BY <1>4, <2>4 DEF PresenciaBien
  <2>. QED BY <2>3, <2>4
<1>9. Distintos' BY <1>4, <1>5, DistintosIguales DEF Retenciones
<1>. QED BY <1>6, <1>7, <1>8, <1>9 DEF Retenciones

-----------------------------------------------------------------------------
(* The contents of the pages *)

\* h is reading page m from the swap file
Trae(h, m) == hilos[h].pc = "traer" /\ hilos[h].marco = m
Contenido(m) ==
  /\ \A h \in Hilos : Trae(h, m) => copia[m]
  /\ (\A h \in Hilos : ~Trae(h, m)) =>
       Guardado(m) /\ (mapa_logico[m].presencia /\ ~mapa_logico[m].modificado => copia[m])
Contenidos ==
  causas = {} => \A m \in Marcos : mapa_logico[m].duenio # 0 /\ m \notin sinMarca => Contenido(m)

\* a page loses its owner, or gets its first one, or nothing happens to it
SinDuenio(m) == mapa_logico'[m].duenio = 0
Nueva(m) ==
  /\ m \notin sinMarca' /\ copia'[m]
  /\ mapa_logico[m].presencia => m \in datos'[mapa_logico[m].nro_real]
Misma(m) ==
  /\ mapa_logico'[m].duenio = mapa_logico[m].duenio
  /\ mapa_logico'[m].modificado = mapa_logico[m].modificado
  /\ copia'[m] = copia[m] /\ (m \in sinMarca' <=> m \in sinMarca)
  /\ mapa_logico[m].presencia /\ m \in datos[mapa_logico[m].nro_real] => m \in datos'[mapa_logico[m].nro_real]

\* Steps outside the accesses keep the contents of the pages.
LEMMA AjenoContenidos ==
  ASSUME Ajeno, Contenidos, \A m \in Marcos : SinDuenio(m) \/ Nueva(m) \/ Misma(m)
  PROVE  Contenidos'
<1>1. SUFFICES ASSUME causas' = {}, NEW m \in Marcos, mapa_logico'[m].duenio # 0, m \notin sinMarca'
               PROVE  Contenido(m)'
  BY DEF Contenidos
<1>2. causas = {} BY <1>1 DEF Ajeno
<1>3. \A h \in Hilos : Trae(h, m)' <=> Trae(h, m)
  <2>1. ASSUME NEW h \in Hilos PROVE Trae(h, m)' <=> Trae(h, m)
    <3>1. Conserva(h) BY DEF Ajeno
    <3>. QED BY <1>1, <3>1 DEF Conserva, Trae
  <2>. QED BY <2>1
<1>4. Lugar(m) BY DEF Ajeno
<1>5. CASE Nueva(m) BY <1>4, <1>5 DEF Nueva, Contenido, Guardado, Lugar
<1>6. CASE Misma(m)
  <2>1. Contenido(m) BY <1>1, <1>2, <1>6 DEF Contenidos, Misma
  <2>2. \A h \in Hilos : Trae(h, m)' => copia'[m] BY <1>3, <1>6, <2>1 DEF Misma, Contenido
  <2>3. ASSUME \A h \in Hilos : ~Trae(h, m)'
        PROVE  Guardado(m)' /\ (mapa_logico'[m].presencia /\ ~mapa_logico'[m].modificado => copia'[m])
    <3>1. Guardado(m) /\ (mapa_logico[m].presencia /\ ~mapa_logico[m].modificado => copia[m])
      BY <1>3, <2>1, <2>3 DEF Contenido
    <3>. QED BY <1>4, <1>6, <3>1 DEF Misma, Lugar, Guardado
  <2>. QED BY <2>2, <2>3 DEF Contenido
<1>. QED BY <1>1, <1>5, <1>6 DEF SinDuenio

\* Nothing happens to the pages.
LEMMA PaginasQuietas ==
  ASSUME UNCHANGED pags
  PROVE  \A m \in Marcos : Lugar(m) /\ Misma(m)
BY DEF pags, Lugar, Misma

\* asignar_frames gives some pages their first owner.
LEMMA AsignarPaginas ==
  ASSUME TiposMarcos, NEW p, NEW n, NEW tabla, asignar_frames(p, n, tabla)
  PROVE  \A m \in Marcos : Lugar(m) /\ (Nueva(m) \/ Misma(m))
<1>1. PICK R : R = Range(Elegidos(mapa_logico, n)) OBVIOUS
<1>2. /\ mapa_logico' = [m \in Marcos |-> IF m \in R THEN [mapa_logico[m] EXCEPT !.duenio = p] ELSE mapa_logico[m]]
      /\ copia' = [m \in Marcos |-> copia[m] \/ m \in R]
      /\ datos' = [r \in Fisicos |-> datos[r] \union {m \in R : mapa_logico[m].presencia
                                                              /\ mapa_logico[m].nro_real = r}]
      /\ sinMarca' = sinMarca \ R
  BY <1>1 DEF asignar_frames
<1>3. ASSUME NEW m \in Marcos PROVE Lugar(m) /\ (Nueva(m) \/ Misma(m))
  <2>1. mapa_logico[m] \in Marco /\ copia[m] \in BOOLEAN BY DEF TiposMarcos
  <2>2. Lugar(m) BY <1>2, <2>1 DEF Marco, Lugar
  <2>3. mapa_logico[m].nro_real \in Fisicos BY <2>1 DEF Marco
  <2>4. CASE m \in R
    <3>1. m \notin sinMarca' /\ copia'[m] BY <1>2, <2>4
    <3>2. mapa_logico[m].presencia => m \in datos'[mapa_logico[m].nro_real] BY <1>2, <2>3, <2>4
    <3>. QED BY <2>2, <3>1, <3>2 DEF Nueva
  <2>5. CASE m \notin R
    <3>1. mapa_logico'[m] = mapa_logico[m] BY <1>2, <2>5
    <3>2. copia'[m] = copia[m]
      <4>1. copia'[m] = (copia[m] \/ m \in R) BY <1>2
      <4>. QED BY <2>1, <2>5, <4>1
    <3>3. m \in sinMarca' <=> m \in sinMarca BY <1>2, <2>5
    <3>4. m \in datos[mapa_logico[m].nro_real] => m \in datos'[mapa_logico[m].nro_real] BY <1>2, <2>3
    <3>. QED BY <2>2, <3>1, <3>2, <3>3, <3>4 DEF Misma
  <2>. QED BY <2>4, <2>5
<1>. QED BY <1>3

\* The threads, when one of them begins a message, and when the main loop goes on.
LEMMA EmpezarConserva ==
  ASSUME TiposHilos, NEW h \in Hilos, Ocioso(h), NEW acc, Empezar(h, acc)
  PROVE  \A g \in Hilos : Conserva(g)
<1>1. hilos \in [Hilos -> Hilo] /\ hilos[h] \in Hilo /\ hilos[h].pc = "listo" BY DEF TiposHilos, Ocioso
<1>2. PICK r : r = [hilos[h] EXCEPT !.accesos = acc] OBVIOUS
<1>3. r.pc = "listo" BY <1>1, <1>2 DEF Hilo
<1>4. hilos' = [hilos EXCEPT ![h] = r] BY <1>2 DEF Empezar
<1>5. hilos'[h] = r /\ \A g \in Hilos : g # h => hilos'[g] = hilos[g] BY <1>1, <1>4
<1>. QED BY <1>1, <1>3, <1>5 DEF Conserva

\* The main loop goes on to its next access: every thread holds what it held.
LEMMA HechoConserva ==
  ASSUME TiposHilos, Le_toca(Principal, Pasos), hilos' = Hecho(Principal)
  PROVE  \A g \in Hilos : Conserva(g)
<1>0. Principal \in Hilos BY DEF Hilos
<1>1. hilos \in [Hilos -> Hilo] /\ hilos[Principal] \in Hilo /\ hilos[Principal].pc = "listo"
  BY <1>0 DEF TiposHilos, Le_toca
<1>2. PICK r : r = [hilos[Principal] EXCEPT !.accesos = Tail(hilos[Principal].accesos)] OBVIOUS
<1>3. r.pc = "listo" BY <1>1, <1>2 DEF Hilo
<1>4. hilos' = [hilos EXCEPT ![Principal] = r] BY <1>2 DEF Hecho
<1>5. hilos'[Principal] = r /\ \A g \in Hilos : g # Principal => hilos'[g] = hilos[g] BY <1>0, <1>1, <1>4
<1>. QED BY <1>1, <1>3, <1>5 DEF Conserva

\* The main loop goes on to its next access and changes thread g: the others hold what they held.
LEMMA DosConservan ==
  ASSUME TiposHilos, Le_toca(Principal, Pasos), NEW g \in Hilos, g # Principal, NEW s,
         hilos' = [Hecho(Principal) EXCEPT ![g] = s]
  PROVE  hilos'[g] = s /\ \A h \in Hilos : h # g => Conserva(h)
<1>0. Principal \in Hilos BY DEF Hilos
<1>1. hilos \in [Hilos -> Hilo] /\ hilos[Principal] \in Hilo /\ hilos[Principal].pc = "listo"
  BY <1>0 DEF TiposHilos, Le_toca
<1>2. PICK r : r = [hilos[Principal] EXCEPT !.accesos = Tail(hilos[Principal].accesos)] OBVIOUS
<1>3. r.pc = "listo" BY <1>1, <1>2 DEF Hilo
<1>4. hilos' = [[hilos EXCEPT ![Principal] = r] EXCEPT ![g] = s] BY <1>2 DEF Hecho
<1>5. hilos'[g] = s /\ hilos'[Principal] = r /\ \A h \in Hilos : h # Principal /\ h # g => hilos'[h] = hilos[h]
  BY <1>0, <1>1, <1>4
<1>. QED BY <1>1, <1>3, <1>5 DEF Conserva

\* what holds of the threads and the pages together
Memorias == Retenciones /\ Contenidos

\* Steps outside the accesses keep what the threads hold and the contents.
LEMMA AjenoMemorias ==
  ASSUME TiposHilos, Memorias, \A g \in Hilos : Conserva(g), mutex_incorporar_marco' = mutex_incorporar_marco,
         causas \subseteq causas', \A m \in Marcos : Lugar(m) /\ (SinDuenio(m) \/ Nueva(m) \/ Misma(m))
  PROVE  Memorias'
<1>1. Ajeno BY DEF Ajeno
<1>2. Retenciones' BY <1>1, AjenoRetiene DEF Memorias
<1>3. Contenidos' BY <1>1, AjenoContenidos DEF Memorias
<1>. QED BY <1>2, <1>3 DEF Memorias

\* INIT_P: the pages of the control block and of the tasks get their owner.
LEMMA MemoriasInitP ==
  ASSUME Tipos, Memorias, NEW n, NEW tareas, INIT_P(n, tareas)
  PROVE  Memorias'
<1>1. TiposHilos /\ TiposMarcos BY DEF Tipos
<1>2. Principal \in Hilos /\ Ocioso(Principal) /\ UNCHANGED <<mutex_incorporar_marco, causas>>
  BY DEF INIT_P, SinCambioEnMarcos, Hilos
<1>3. CASE RechazarPatota(n, tareas)
  <2>1. PICK acc : Empezar(Principal, acc) BY <1>3 DEF RechazarPatota
  <2>2. \A g \in Hilos : Conserva(g) BY <1>1, <1>2, <2>1, EmpezarConserva
  <2>3. \A m \in Marcos : Lugar(m) /\ Misma(m) BY <1>3, PaginasQuietas DEF RechazarPatota
  <2>. QED BY <1>1, <1>2, <2>2, <2>3, AjenoMemorias
<1>4. CASE AceptarPatota(n, tareas)
  <2>1. PICK acc : Empezar(Principal, acc) BY <1>4 DEF AceptarPatota
  <2>2. \A g \in Hilos : Conserva(g) BY <1>1, <1>2, <2>1, EmpezarConserva
  <2>3. PICK p, k, tabla : asignar_frames(p, k, tabla) BY <1>4 DEF AceptarPatota
  <2>4. \A m \in Marcos : Lugar(m) /\ (Nueva(m) \/ Misma(m)) BY <1>1, <2>3, AsignarPaginas
  <2>. QED BY <1>1, <1>2, <2>2, <2>4, AjenoMemorias
<1>. QED BY <1>3, <1>4 DEF INIT_P

\* INIT_T: the pages of the trip get theirs.
LEMMA MemoriasInitT ==
  ASSUME Tipos, Memorias, INIT_T
  PROVE  Memorias'
<1>1. TiposHilos /\ TiposMarcos BY DEF Tipos
<1>2. Principal \in Hilos /\ Ocioso(Principal) /\ UNCHANGED <<mutex_incorporar_marco, causas>>
  BY DEF INIT_T, SinCambioEnMarcos, Hilos
<1>3. CASE UNCHANGED <<patotas, hilos, pags>>
  <2>1. \A g \in Hilos : Conserva(g) BY <1>3 DEF Conserva
  <2>2. \A m \in Marcos : Lugar(m) /\ Misma(m) BY <1>3, PaginasQuietas
  <2>. QED BY <1>1, <1>2, <2>1, <2>2, AjenoMemorias
<1>4. CASE ~(UNCHANGED <<patotas, hilos, pags>>)
  <2>1. PICK acc : Empezar(Principal, acc) BY <1>4 DEF INIT_T
  <2>2. \A g \in Hilos : Conserva(g) BY <1>1, <1>2, <2>1, EmpezarConserva
  <2>3. PICK p, k, tabla : asignar_frames(p, k, tabla) BY <1>4 DEF INIT_T
  <2>4. \A m \in Marcos : Lugar(m) /\ (Nueva(m) \/ Misma(m)) BY <1>1, <2>3, AsignarPaginas
  <2>. QED BY <1>1, <1>2, <2>2, <2>4, AjenoMemorias
<1>. QED BY <1>3, <1>4

\* ELIM_T.
LEMMA MemoriasElimT ==
  ASSUME Tipos, Memorias, NEW p, NEW t, ELIM_T(p, t)
  PROVE  Memorias'
<1>1. TiposHilos /\ Principal \in Hilos BY DEF Tipos, Hilos
<1>2. Ocioso(Principal) /\ UNCHANGED <<pags, mutex_incorporar_marco, causas>> BY DEF ELIM_T, SinCambioEnMarcos
<1>3. PICK acc : Empezar(Principal, acc) BY DEF ELIM_T
<1>4. \A g \in Hilos : Conserva(g) BY <1>1, <1>2, <1>3, EmpezarConserva
<1>5. \A m \in Marcos : Lugar(m) /\ Misma(m) BY <1>2, PaginasQuietas
<1>. QED BY <1>1, <1>2, <1>4, <1>5, AjenoMemorias

\* A message of a trip begins.
LEMMA MemoriasRutina ==
  ASSUME Tipos, Memorias, NEW trip \in Trips, rutina_hilos(trip[1], trip[2])
  PROVE  Memorias'
<1>1. TiposHilos /\ trip \in Hilos /\ trip = <<trip[1], trip[2]>> BY DEF Tipos, Hilos, Trips
<1>2. Ocioso(trip) /\ UNCHANGED <<pags, mutex_incorporar_marco, causas>>
  BY <1>1 DEF rutina_hilos, SinCambioEnMarcos
<1>3. PICK acc : Empezar(trip, acc) BY <1>1 DEF rutina_hilos
<1>4. \A g \in Hilos : Conserva(g) BY <1>1, <1>2, <1>3, EmpezarConserva
<1>5. \A m \in Marcos : Lugar(m) /\ Misma(m) BY <1>2, PaginasQuietas
<1>. QED BY <1>1, <1>2, <1>4, <1>5, AjenoMemorias

\* Pthread_create: pages and contents.
LEMMA MemoriasArrancar ==
  ASSUME Tipos, Nuevos, Memorias, Arrancar
  PROVE  Memorias'
<1>1. PICK a : a = Siguiente(Principal) OBVIOUS
<1>2. PICK g : g = <<a.p, a.t>> OBVIOUS
<1>3. /\ Le_toca(Principal, {"arrancar"}) /\ hilos' = [Hecho(Principal) EXCEPT ![g].pc = "listo"]
      /\ UNCHANGED <<pags, mutex_incorporar_marco, causas>>
  BY <1>1, <1>2 DEF Arrancar, SinCambioEnMarcos
<1>4. TiposPatotas /\ TiposHilos BY DEF Tipos
<1>5. Le_toca(Principal, Pasos) BY <1>3 DEF Le_toca, Pasos
<1>6. g # Principal /\ g \in Hilos BY <1>1, <1>2, <1>4, <1>5, PasoBien
<1>7. hilos \in [Hilos -> Hilo] /\ hilos[g] \in Hilo BY <1>4, <1>6 DEF TiposHilos
<1>8. PICK s : s = [hilos[g] EXCEPT !.pc = "listo"] OBVIOUS
<1>9. s.pc = "listo" BY <1>7, <1>8 DEF Hilo
<1>10. hilos' = [Hecho(Principal) EXCEPT ![g] = s]
  <2>1. Hecho(Principal)[g] = hilos[g] BY <1>6, <1>7 DEF Hecho
  <2>. QED BY <1>3, <1>8, <2>1
<1>11. hilos[g].pc = "sin_hilo"
  <2>1. PICK q : q = hilos[Principal].accesos OBVIOUS
  <2>2. Principal \in Hilos BY DEF Hilos
  <2>3. q \in Seq(Accesos) /\ q # << >> BY <1>3, <1>4, <2>1, <2>2 DEF TiposHilos, Hilo, Le_toca
  <2>4. 1 \in DOMAIN q /\ a = q[1] /\ a.tipo = "arrancar" BY <1>1, <1>3, <2>1, <2>3 DEF Siguiente, Le_toca
  <2>. QED BY <1>2, <2>1, <2>4 DEF Nuevos, UnArranque
<1>12. hilos'[g] = s /\ \A h \in Hilos : h # g => Conserva(h) BY <1>4, <1>5, <1>6, <1>10, DosConservan
<1>13. Conserva(g) BY <1>9, <1>11, <1>12 DEF Conserva
<1>14. \A h \in Hilos : Conserva(h) BY <1>12, <1>13
<1>15. \A m \in Marcos : Lugar(m) /\ Misma(m) BY <1>3, PaginasQuietas
<1>. QED BY <1>3, <1>4, <1>14, <1>15, AjenoMemorias

\* Pthread_cancel and pthread_join: pages and contents.
LEMMA MemoriasCancelar ==
  ASSUME Tipos, Memorias, Cancelar
  PROVE  Memorias'
<1>1. PICK a : a = Siguiente(Principal) OBVIOUS
<1>2. PICK g : g = <<a.p, a.t>> OBVIOUS
<1>3. PICK pc : pc = hilos[g].pc OBVIOUS
<1>4. /\ Le_toca(Principal, {"cancelar"}) /\ pc \in DOMAIN Muerto
      /\ hilos' = [Hecho(Principal) EXCEPT ![g].pc = Muerto[pc], ![g].accesos = <<>>]
      /\ causas' = causas \union (IF pc = "traer" THEN {"cancelado"} ELSE {})
      /\ UNCHANGED <<pags, mutex_incorporar_marco>>
  BY <1>1, <1>2, <1>3 DEF Cancelar
<1>5. TiposPatotas /\ TiposHilos BY DEF Tipos
<1>6. Le_toca(Principal, Pasos) BY <1>4 DEF Le_toca, Pasos
<1>7. g # Principal /\ g \in Hilos BY <1>1, <1>2, <1>5, <1>6, PasoBien
<1>8. PICK m : m = Muerto[pc] OBVIOUS
<1>9. PICK s : s = [hilos[g] EXCEPT !.pc = m, !.accesos = << >>] OBVIOUS
<1>10. hilos[g] \in Hilo /\ hilos \in [Hilos -> Hilo] BY <1>5, <1>7 DEF TiposHilos
<1>11. s.pc = m /\ s.marco = hilos[g].marco /\ s.victima = hilos[g].victima /\ s.tomada = hilos[g].tomada
  BY <1>9, <1>10 DEF Hilo
<1>12. hilos' = [Hecho(Principal) EXCEPT ![g] = s]
  <2>1. Hecho(Principal)[g] = hilos[g] /\ g \in DOMAIN Hecho(Principal) BY <1>7, <1>10 DEF Hecho
  <2>. QED BY <1>4, <1>8, <1>9, <2>1
<1>13. hilos'[g] = s /\ \A h \in Hilos : h # g => Conserva(h) BY <1>5, <1>6, <1>7, <1>12, DosConservan
<1>14. Conserva(g)
  <2>1. pc \in {"listo", "incorporar", "reloj", "cambiar", "traer"} BY <1>4 DEF Muerto
  <2>2. /\ pc = "listo" => m = "sin_hilo"
        /\ pc = "incorporar" => m = "muerto_incorporar"
        /\ pc = "reloj" => m = "muerto_reloj"
        /\ pc = "cambiar" => m = "muerto_cambiar"
        /\ pc = "traer" => m = "muerto_traer"
    BY <1>8 DEF Muerto
  <2>3. pc = "traer" => "cancelado" \in causas' BY <1>4
  <2>4. hilos'[g].pc = m /\ hilos'[g].marco = hilos[g].marco /\ hilos'[g].victima = hilos[g].victima
        /\ hilos'[g].tomada = hilos[g].tomada
    BY <1>11, <1>13
  <2>. QED BY <1>3, <2>1, <2>2, <2>3, <2>4 DEF Conserva
<1>15. \A h \in Hilos : Conserva(h) BY <1>13, <1>14
<1>16. \A k \in Marcos : Lugar(k) /\ Misma(k) BY <1>4, PaginasQuietas
<1>17. mutex_incorporar_marco' = mutex_incorporar_marco /\ causas \subseteq causas' BY <1>4
<1>. QED BY <1>5, <1>15, <1>16, <1>17, AjenoMemorias

\* A trip after the expelled one moves down: pages and contents.
LEMMA MemoriasCorrer ==
  ASSUME Tipos, Memorias, Correr
  PROVE  Memorias'
<1>1. /\ Le_toca(Principal, {"correr"}) /\ hilos' = Hecho(Principal)
      /\ UNCHANGED <<pags, mutex_incorporar_marco, causas>>
  BY DEF Correr, SinCambioEnMarcos
<1>2. TiposHilos /\ Le_toca(Principal, Pasos) BY <1>1 DEF Tipos, Le_toca, Pasos
<1>3. \A g \in Hilos : Conserva(g) BY <1>1, <1>2, HechoConserva
<1>4. \A m \in Marcos : Lugar(m) /\ Misma(m) BY <1>1, PaginasQuietas
<1>. QED BY <1>1, <1>2, <1>3, <1>4, AjenoMemorias

\* The frames of the expelled trip are freed: pages and contents.
LEMMA MemoriasSoltar ==
  ASSUME Tipos, Memorias, Soltar
  PROVE  Memorias'
<1>1. /\ Le_toca(Principal, {"soltar"}) /\ hilos' = Hecho(Principal)
      /\ UNCHANGED <<datos, copia, sinMarca, mutex_incorporar_marco, causas>>
  BY DEF Soltar, SinCambioEnMarcos
<1>2. TiposHilos /\ TiposMarcos /\ Le_toca(Principal, Pasos) BY <1>1 DEF Tipos, Le_toca, Pasos
<1>3. \A g \in Hilos : Conserva(g) BY <1>1, <1>2, HechoConserva
<1>4. PICK R : mapa_logico' = [m \in Marcos |-> IF m \in R THEN borrar_marco(mapa_logico[m]) ELSE mapa_logico[m]]
  BY DEF Soltar, reasignar_frames
<1>5. ASSUME NEW m \in Marcos PROVE Lugar(m) /\ (SinDuenio(m) \/ Misma(m))
  <2>1. mapa_logico[m] \in Marco BY <1>2 DEF TiposMarcos
  <2>2. CASE m \in R BY <1>4, <2>1, <2>2 DEF borrar_marco, Marco, Lugar, SinDuenio
  <2>3. CASE m \notin R
    <3>1. mapa_logico'[m] = mapa_logico[m] BY <1>4, <2>3
    <3>. QED BY <1>1, <3>1 DEF Lugar, Misma
  <2>. QED BY <2>2, <2>3
<1>. QED BY <1>1, <1>2, <1>3, <1>5, AjenoMemorias

\* A thread reads the address of its trip: pages and contents.
LEMMA MemoriasLeer ==
  ASSUME Tipos, Memorias, NEW h \in Hilos, LeerDireccion(h)
  PROVE  Memorias'
<1>1. TiposHilos /\ hilos[h].pc = "listo" BY DEF Tipos, LeerDireccion, Le_toca
<1>2. UNCHANGED <<pags, mutex_incorporar_marco, causas>> BY DEF LeerDireccion, SinCambioEnMarcos
<1>3. hilos'[h].pc = "listo" /\ \A g \in Hilos : g # h => hilos'[g] = hilos[g] BY TiposLeer
<1>4. \A g \in Hilos : Conserva(g) BY <1>1, <1>3 DEF Conserva
<1>5. \A m \in Marcos : Lugar(m) /\ Misma(m) BY <1>2, PaginasQuietas
<1>. QED BY <1>1, <1>2, <1>4, <1>5, AjenoMemorias

\* Neither the contents nor what the threads read change.
LEMMA ContenidosIguales ==
  ASSUME Contenidos, NEW h \in Hilos, LosDemas(h), hilos[h].pc # "traer", hilos'[h].pc # "traer",
         \A n \in Marcos : MismaPagina(n), UNCHANGED <<datos, copia, sinMarca, causas>>
  PROVE  Contenidos'
<1>1. \A g \in Hilos, n \in Marcos : Trae(g, n)' <=> Trae(g, n) BY DEF LosDemas, Trae
<1>2. SUFFICES ASSUME causas' = {}, NEW m \in Marcos, mapa_logico'[m].duenio # 0, m \notin sinMarca'
               PROVE  Contenido(m)'
  BY DEF Contenidos
<1>3. MismaPagina(m) OBVIOUS
<1>4. Contenido(m) BY <1>2, <1>3 DEF Contenidos, MismaPagina
<1>. QED BY <1>1, <1>3, <1>4 DEF Contenido, Guardado, MismaPagina

\* A thread waits for the semaphore of a page: pages and contents.
LEMMA MemoriasTomar ==
  ASSUME Tipos, Memorias, NEW h \in Hilos, Tomar(h)
  PROVE  Memorias'
<1>1. Retenciones' BY RetieneTomar DEF Memorias
<1>2. hilos[h].pc = "listo" /\ UNCHANGED <<datos, copia, sinMarca, causas>> BY DEF Tomar, Le_toca
<1>3. LosDemas(h) /\ (UNCHANGED <<hilos, mapa_logico>> \/ \E m \in Marcos : TomaHecha(h, m)) BY TiposTomar
<1>4. hilos'[h].pc # "traer" /\ \A n \in Marcos : MismaPagina(n)
  <2>1. CASE UNCHANGED <<hilos, mapa_logico>> BY <1>2, <2>1 DEF MismaPagina
  <2>2. ASSUME NEW m \in Marcos, TomaHecha(h, m) PROVE hilos'[h].pc # "traer" /\ \A n \in Marcos : MismaPagina(n)
    BY <2>2 DEF TomaHecha, Restado
  <2>. QED BY <1>3, <2>1, <2>2
<1>5. Contenidos' BY <1>2, <1>3, <1>4, ContenidosIguales DEF Memorias
<1>. QED BY <1>1, <1>5 DEF Memorias

\* It sees a free frame or looks for a victim: pages and contents.
LEMMA MemoriasIncorporar ==
  ASSUME Tipos, Memorias, NEW h \in Hilos, incorporar_marco(h)
  PROVE  Memorias'
<1>1. Retenciones' BY RetieneIncorporar DEF Memorias
<1>2. LosDemas(h) /\ IncorporaHecha(h) BY TiposIncorporar
<1>3. /\ hilos[h].pc = "incorporar" /\ hilos'[h].pc # "traer"
      /\ UNCHANGED <<mapa_logico, datos, copia, sinMarca, causas>>
  BY <1>2 DEF IncorporaHecha, pags
<1>4. \A n \in Marcos : MismaPagina(n) BY <1>3 DEF MismaPagina
<1>5. Contenidos' BY <1>2, <1>3, <1>4, ContenidosIguales DEF Memorias
<1>. QED BY <1>1, <1>5 DEF Memorias

\* It takes the first free frame: pages and contents.
LEMMA MemoriasLibre ==
  ASSUME Tipos, Memorias, NEW h \in Hilos, obtener_marco_libre_fisico(h)
  PROVE  Memorias'
<1>1. Retenciones' BY RetieneLibre DEF Memorias
<1>2. LosDemas(h) /\ LibreHecha(h) BY TiposLibre
<1>3. /\ hilos[h].pc = "libre" /\ hilos'[h].pc # "traer"
      /\ UNCHANGED <<mapa_logico, datos, copia, sinMarca, causas>>
  BY <1>2 DEF LibreHecha, pags
<1>4. \A n \in Marcos : MismaPagina(n) BY <1>3 DEF MismaPagina
<1>5. Contenidos' BY <1>2, <1>3, <1>4, ContenidosIguales DEF Memorias
<1>. QED BY <1>1, <1>5 DEF Memorias

\* A turn of the clock: pages and contents.
LEMMA MemoriasReloj ==
  ASSUME Tipos, Memorias, NEW h \in Hilos, reemplazo_por_clock(h)
  PROVE  Memorias'
<1>1. Retenciones' BY RetieneReloj DEF Memorias
<1>2. LosDemas(h) /\ RelojHecho(h) BY TiposReloj
<1>3. /\ hilos[h].pc = "reloj" /\ hilos'[h].pc # "traer" /\ UNCHANGED <<datos, copia, sinMarca, causas>>
      /\ \A n \in Marcos : MismaPagina(n)
  BY <1>2 DEF RelojHecho, Restado
<1>5. Contenidos' BY <1>2, <1>3, ContenidosIguales DEF Memorias
<1>. QED BY <1>1, <1>5 DEF Memorias

\* The victim is in the swap file, and the page that comes in was there.
LEMMA MemoriasCambiar ==
  ASSUME Tipos, Memorias, NEW h \in Hilos, Cambiar(h)
  PROVE  Memorias'
<1>1. Retenciones' BY RetieneCambiar DEF Memorias
<1>2. PICK m : m = hilos[h].marco OBVIOUS
<1>3. PICK v : v = hilos[h].victima OBVIOUS
<1>4. TiposHilos /\ LosDemas(h) /\ CambioHecho(h, m, v) BY <1>2, <1>3, TiposCambiar DEF Tipos
<1>5. m \in Marcos /\ v \in Marcos BY <1>2, <1>3, <1>4 DEF TiposHilos, Hilo
<1>6. hilos[h].pc = "cambiar" /\ hilos'[h].pc = "traer" /\ hilos'[h].marco = m BY <1>4 DEF CambioHecho
<1>7. SUFFICES Contenidos' BY <1>1 DEF Memorias
<1>8. SUFFICES ASSUME causas' = {}, NEW n \in Marcos, mapa_logico'[n].duenio # 0, n \notin sinMarca'
               PROVE  Contenido(n)'
  BY DEF Contenidos
<1>9. /\ causas = {} /\ mapa_logico[v].presencia /\ hilos[h].tomada /\ n \notin sinMarca
      /\ mapa_logico[n].duenio # 0
  BY <1>4, <1>8 DEF CambioHecho
<1>10. ~mapa_logico[m].presencia /\ v # m
  <2>1. PresenciaBien(h) BY <1>9 DEF Memorias, Retenciones, Presencias
  <2>. QED BY <1>2, <1>3, <1>6, <1>9, <2>1 DEF PresenciaBien
<1>11. \A g \in Hilos : hilos[g].pc # "traer"
  <2>1. \A g \in Hilos : hilos[g].pc \in EnSeccion => g = h
    <3>1. hilos[h].pc \in EnSeccion BY <1>6 DEF EnSeccion
    <3>. QED BY <3>1, Ocupado DEF Memorias, Retenciones
  <2>. QED BY <1>6, <2>1 DEF EnSeccion
<1>12. \A g \in Hilos : Trae(g, n)' <=> g = h /\ n = m BY <1>4, <1>6, <1>11 DEF LosDemas, Trae
<1>13. Contenido(n) BY <1>9 DEF Memorias, Contenidos
<1>14. Guardado(n) /\ (mapa_logico[n].presencia /\ ~mapa_logico[n].modificado => copia[n])
  BY <1>11, <1>13 DEF Contenido, Trae
<1>15. CASE n = m
  <2>1. copia[n] BY <1>10, <1>14, <1>15 DEF Guardado
  <2>2. copia'[n] BY <1>4, <1>10, <1>15, <2>1 DEF CambioHecho
  <2>. QED BY <1>12, <1>15, <2>2 DEF Contenido
<1>16. CASE n = v
  <2>1. ~mapa_logico'[n].presencia BY <1>4, <1>10, <1>16 DEF CambioHecho
  <2>2. copia'[n] = IF mapa_logico[n].modificado THEN n \in datos[mapa_logico[n].nro_real] ELSE copia[n]
    BY <1>4, <1>16 DEF CambioHecho
  <2>3. n \in datos[mapa_logico[n].nro_real] BY <1>9, <1>14, <1>16 DEF Guardado
  <2>4. ~mapa_logico[n].modificado => copia[n] BY <1>9, <1>14, <1>16
  <2>5. copia'[n] BY <2>2, <2>3, <2>4
  <2>. QED BY <1>10, <1>12, <1>16, <2>1, <2>5 DEF Contenido, Guardado
<1>17. CASE n # m /\ n # v
  <2>1. MismaPagina(n) /\ copia'[n] = copia[n] /\ datos' = datos BY <1>4, <1>17 DEF CambioHecho
  <2>2. \A g \in Hilos : ~Trae(g, n)' BY <1>12, <1>17
  <2>. QED BY <1>14, <2>1, <2>2 DEF Contenido, Guardado, MismaPagina
<1>. QED BY <1>15, <1>16, <1>17

\* The page is read from the swap file: pages and contents.
LEMMA MemoriasTraer ==
  ASSUME Tipos, Memorias, NEW h \in Hilos, Traer(h)
  PROVE  Memorias'
<1>1. Retenciones' /\ mutex_incorporar_marco = 0 BY RetieneTraer DEF Memorias
<1>2. PICK m : m = hilos[h].marco OBVIOUS
<1>3. TiposHilos /\ TiposMarcos /\ LosDemas(h) /\ TraerHecho(h, m) BY <1>1, <1>2, TiposTraer DEF Tipos
<1>4. /\ m \in Marcos /\ hilos[h].pc = "traer" /\ hilos'[h].pc = "copiar"
      /\ UNCHANGED <<mapa_logico, copia, sinMarca, causas>>
  BY <1>2, <1>3 DEF TraerHecho, TiposHilos, Hilo
<1>5. SUFFICES Contenidos' BY <1>1 DEF Memorias
<1>6. SUFFICES ASSUME causas' = {}, NEW n \in Marcos, mapa_logico'[n].duenio # 0, n \notin sinMarca'
               PROVE  Contenido(n)'
  BY DEF Contenidos
<1>7. Contenido(n) /\ causas = {} BY <1>4, <1>6 DEF Memorias, Contenidos
<1>8. \A g \in Hilos : hilos[g].pc = "traer" => g = h
  <2>1. \A g \in Hilos : hilos[g].pc \in EnSeccion => g = h
    <3>1. hilos[h].pc \in EnSeccion BY <1>4 DEF EnSeccion
    <3>. QED BY <3>1, Ocupado DEF Memorias, Retenciones
  <2>. QED BY <2>1 DEF EnSeccion
<1>9. \A g \in Hilos : ~Trae(g, n)' BY <1>3, <1>4, <1>8 DEF LosDemas, Trae
<1>10. mapa_logico[m].presencia
  <2>1. PresenciaBien(h) BY <1>7 DEF Memorias, Retenciones, Presencias
  <2>. QED BY <1>2, <1>4, <2>1 DEF PresenciaBien
<1>11. CASE n = m
  <2>1. copia[n] BY <1>2, <1>4, <1>7, <1>11 DEF Contenido, Trae
  <2>2. n \in datos'[mapa_logico[n].nro_real] BY <1>3, <1>11, <2>1 DEF TraerHecho
  <2>. QED BY <1>4, <1>9, <2>1, <2>2 DEF Contenido, Guardado
<1>12. CASE n # m
  <2>1. \A g \in Hilos : ~Trae(g, n) BY <1>2, <1>8, <1>12 DEF Trae
  <2>2. Guardado(n) /\ (mapa_logico[n].presencia /\ ~mapa_logico[n].modificado => copia[n])
    BY <1>7, <2>1 DEF Contenido
  <2>3. mapa_logico[n].presencia => datos'[mapa_logico[n].nro_real] = datos[mapa_logico[n].nro_real]
    <3>1. mapa_logico[n].nro_real \in Fisicos
      <4>1. mapa_logico[n] \in Marco BY <1>3 DEF TiposMarcos
      <4>. QED BY <4>1 DEF Marco
    <3>2. mapa_logico[n].presencia => mapa_logico[n].nro_real # mapa_logico[m].nro_real
      BY <1>4, <1>7, <1>10, <1>12 DEF Memorias, Retenciones, Distintos
    <3>. QED BY <1>3, <3>1, <3>2 DEF TraerHecho
  <2>. QED BY <1>4, <1>9, <2>2, <2>3 DEF Contenido, Guardado
<1>. QED BY <1>11, <1>12

\* The bytes are copied and the semaphore posted: pages and contents.
LEMMA MemoriasCopiar ==
  ASSUME Tipos, Memorias, NEW h \in Hilos, Copiar(h)
  PROVE  Memorias'
<1>1. Retenciones' BY RetieneCopiar DEF Memorias
<1>2. PICK m : m = hilos[h].marco OBVIOUS
<1>3. PICK a : a = Siguiente(h) OBVIOUS
<1>4. TiposHilos /\ TiposMarcos /\ LosDemas(h) /\ CopiarHecho(h, a, m) BY <1>2, <1>3, TiposCopiar DEF Tipos
<1>5. m \in Marcos /\ hilos[h].pc = "copiar" /\ hilos'[h].pc = "listo" /\ causas' = causas
  BY <1>2, <1>4 DEF CopiarHecho, TiposHilos, Hilo
<1>6. SUFFICES Contenidos' BY <1>1 DEF Memorias
<1>7. SUFFICES ASSUME causas' = {}, NEW n \in Marcos, mapa_logico'[n].duenio # 0, n \notin sinMarca'
               PROVE  Contenido(n)'
  BY DEF Contenidos
<1>8. /\ mapa_logico'[n].duenio = mapa_logico[n].duenio /\ mapa_logico'[n].presencia = mapa_logico[n].presencia
      /\ mapa_logico'[n].nro_real = mapa_logico[n].nro_real /\ n \notin sinMarca
  BY <1>4, <1>7 DEF CopiarHecho, EnSuMarco, EnElSiguiente, MismaPagina
<1>9. Contenido(n) /\ causas = {} BY <1>5, <1>7, <1>8 DEF Memorias, Contenidos
<1>10. \A g \in Hilos : Trae(g, n)' <=> Trae(g, n) BY <1>4, <1>5 DEF LosDemas, Trae
<1>11. PICK r : r = mapa_logico[m].nro_real OBVIOUS
<1>12. mapa_logico[n].nro_real \in Fisicos /\ r \in Fisicos
  <2>1. mapa_logico[n] \in Marco /\ mapa_logico[m] \in Marco BY <1>4, <1>5 DEF TiposMarcos
  <2>. QED BY <1>11, <2>1 DEF Marco
<1>13. datos \in [Fisicos -> SUBSET Marcos] BY <1>4 DEF TiposMarcos
<1>14. CASE n = m /\ EnSuMarco(a, m)
  <2>1. \A g \in Hilos : ~Trae(g, n)
    <3>1. Tiene(h, m) /\ SemaforoBien(m) BY <1>2, <1>5, <1>9 DEF Tiene, Memorias, Retenciones, Semaforos
    <3>2. \A g \in Hilos : Trae(g, m) => Tiene(g, m) /\ g # h BY <1>5 DEF Trae, Tiene
    <3>. QED BY <1>14, <3>1, <3>2, NadieMas
  <2>2. Guardado(n) /\ (mapa_logico[n].presencia /\ ~mapa_logico[n].modificado => copia[n])
    BY <1>9, <2>1 DEF Contenido
  <2>3. CASE a.tipo \in {"escribir", "cargar", "estado"}
    <3>1. mapa_logico[n].presencia
      <4>1. PresenciaBien(h) BY <1>9 DEF Memorias, Retenciones, Presencias
      <4>2. a.tipo # "tarea" BY <2>3
      <4>. QED BY <1>2, <1>3, <1>5, <1>14, <4>1, <4>2 DEF PresenciaBien
    <3>2. n \in datos[r] BY <1>11, <1>14, <2>2, <3>1 DEF Guardado
    <3>3. datos' = [datos EXCEPT ![r] = datos[r] \intersect {m}] BY <1>4, <1>14, <1>11, <2>3 DEF CopiarHecho, EnSuMarco
    <3>4. n \in datos'[r] BY <1>12, <1>13, <1>14, <3>2, <3>3
    <3>5. mapa_logico'[n].modificado
      <4>1. CASE a.tipo \in {"escribir", "cargar"} BY <1>4, <1>14, <4>1 DEF CopiarHecho, EnSuMarco
      <4>2. CASE a.tipo = "estado"
        <5>1. mapa_logico[m].modificado BY <1>4, <1>7, <1>14, <4>2 DEF CopiarHecho, EnSuMarco
        <5>. QED BY <1>4, <1>14, <5>1 DEF CopiarHecho, EnSuMarco
      <4>. QED BY <2>3, <4>1, <4>2
    <3>. QED BY <1>8, <1>10, <1>11, <1>14, <2>1, <3>1, <3>4, <3>5 DEF Contenido, Guardado
  <2>4. CASE a.tipo \notin {"escribir", "cargar", "estado"}
    <3>1. datos' = datos BY <1>4, <1>14, <2>4 DEF CopiarHecho, EnSuMarco
    <3>2. copia[n] => copia'[n] BY <1>4, <1>14, <2>4 DEF CopiarHecho, EnSuMarco
    <3>3. mapa_logico[n].modificado => mapa_logico'[n].modificado BY <1>4, <1>14 DEF CopiarHecho, EnSuMarco
    <3>. QED BY <1>8, <1>10, <2>1, <2>2, <3>1, <3>2, <3>3 DEF Contenido, Guardado
  <2>. QED BY <2>3, <2>4
<1>15. CASE n # m /\ EnSuMarco(a, m)
  <2>1. mapa_logico'[n].modificado = mapa_logico[n].modificado /\ copia'[n] = copia[n]
    BY <1>4, <1>15 DEF CopiarHecho, EnSuMarco, MismaPagina
  <2>2. mapa_logico[n].presencia => datos'[mapa_logico[n].nro_real] = datos[mapa_logico[n].nro_real]
    <3>1. CASE a.tipo \in {"escribir", "cargar", "estado"}
      <4>1. mapa_logico[m].presencia
        <5>1. PresenciaBien(h) BY <1>9 DEF Memorias, Retenciones, Presencias
        <5>2. a.tipo # "tarea" BY <3>1
        <5>. QED BY <1>2, <1>3, <1>5, <5>1, <5>2 DEF PresenciaBien
      <4>2. mapa_logico[n].presencia => mapa_logico[n].nro_real # r
        BY <1>5, <1>9, <1>11, <1>15, <4>1 DEF Memorias, Retenciones, Distintos
      <4>3. datos' = [datos EXCEPT ![r] = datos[r] \intersect {m}] BY <1>4, <1>15, <1>11, <3>1 DEF CopiarHecho, EnSuMarco
      <4>. QED BY <1>12, <1>13, <4>2, <4>3
    <3>2. CASE a.tipo \notin {"escribir", "cargar", "estado"} BY <1>4, <1>15, <3>2 DEF CopiarHecho, EnSuMarco
    <3>. QED BY <3>1, <3>2
  <2>. QED BY <1>8, <1>9, <1>10, <2>1, <2>2 DEF Contenido, Guardado
<1>16. CASE EnElSiguiente(a)
  <2>1. /\ copia'[n] = copia[n]
        /\ mapa_logico[n].presencia => datos'[mapa_logico[n].nro_real] = datos[mapa_logico[n].nro_real]
    BY <1>7, <1>16 DEF EnElSiguiente
  <2>2. a.tipo \notin {"escribir", "cargar"} BY <1>16 DEF EnElSiguiente
  <2>3. mapa_logico'[n].modificado <=> mapa_logico[n].modificado
    BY <1>4, <2>2 DEF CopiarHecho, MismaPagina
  <2>. QED BY <1>8, <1>9, <1>10, <2>1, <2>3 DEF Contenido, Guardado
<1>. QED BY <1>4, <1>14, <1>15, <1>16 DEF CopiarHecho

-----------------------------------------------------------------------------
(* The invariant *)

Invariante == Tipos /\ Nuevos /\ Memorias

\* The memory just started.
LEMMA InvarianteInit ==
  ASSUME Init
  PROVE  Invariante
<1>1. /\ patotas = << >> /\ tripulantes = {} /\ faltan = 0 /\ pedidos = 0 /\ puntero_clock = 0
      /\ mutex_incorporar_marco = 1 /\ sinMarca = {} /\ causas = {} /\ caida = "no"
      /\ datos = [r \in Fisicos |-> {r}] /\ copia = [m \in Marcos |-> TRUE]
      /\ mapa_logico = [m \in Marcos |->
           [nro_real |-> IF m \in Fisicos THEN m ELSE 0, presencia |-> m \in Fisicos,
            duenio |-> 0, modificado |-> FALSE, bit_uso |-> FALSE, semaforo_mutex |-> 1]]
      /\ hilos = [h \in Hilos |-> [pc |-> IF h = Principal THEN "listo" ELSE "sin_hilo",
                               accesos |-> <<>>, marco |-> 0, victima |-> 0, tomada |-> FALSE]]
  BY DEF Init
<1>2. Fisicos \subseteq Marcos /\ 0 \in Fisicos /\ 0 \in Marcos BY Tamanios DEF Fisicos, Marcos
<1>3. Existen = {} BY <1>1 DEF Existen
<1>4. \A m \in Marcos : /\ mapa_logico[m].presencia = (m \in Fisicos) /\ mapa_logico[m].duenio = 0
                        /\ mapa_logico[m].semaforo_mutex = 1 /\ mapa_logico[m] \in Marco
                        /\ m \in Fisicos => mapa_logico[m].nro_real = m
  <2>1. Len(patotas) = 0 BY <1>1
  <2>2. 0 \in 0 .. Len(patotas) /\ 1 \in Nat BY <2>1
  <2>. QED BY <1>1, <1>2, <2>2 DEF Marco
<1>5. \A h \in Hilos : /\ hilos[h].pc = (IF h = Principal THEN "listo" ELSE "sin_hilo") /\ hilos[h].accesos = << >>
                       /\ hilos[h] \in Hilo
  <2>1. << >> \in Seq(Accesos) /\ "listo" \in Pcs /\ "sin_hilo" \in Pcs BY DEF Pcs
  <2>. QED BY <1>1, <1>2, <2>1 DEF Hilo
<1>6. Principal \in Hilos /\ Trips \subseteq Hilos /\ Principal \notin Trips BY DEF Hilos, Trips, Principal
<1>7. TiposPatotas
  <2>1. patotas \in Seq(Patota) /\ Len(patotas) = 0 /\ DOMAIN patotas = {} BY <1>1
  <2>2. 0 \in 0 .. MaxPatotas BY Tamanios
  <2>. QED BY <1>1, <2>1, <2>2 DEF TiposPatotas
<1>8. TiposMarcos
  <2>1. mapa_logico \in [Marcos -> Marco] BY <1>1, <1>4
  <2>2. datos \in [Fisicos -> SUBSET Marcos] /\ copia \in [Marcos -> BOOLEAN] BY <1>1, <1>2
  <2>. QED BY <1>1, <1>2, <2>1, <2>2 DEF TiposMarcos
<1>9. TiposHilos
  <2>1. hilos \in [Hilos -> Hilo] BY <1>1, <1>5
  <2>. QED BY <1>5, <1>6, <2>1 DEF TiposHilos, EnAcceso
<1>10. Nuevos
  <2>1. SinHilo BY <1>1, <1>5, <1>6 DEF SinHilo
  <2>2. UnArranque BY <1>5, <1>6 DEF UnArranque
  <2>. QED BY <2>1, <2>2 DEF Nuevos
<1>11. Retenciones
  <2>1. UnoIncorpora BY <1>5 DEF UnoIncorpora, EnSeccion
  <2>2. Semaforos
    <3>1. \A h \in Hilos, m \in Marcos : ~Tiene(h, m) BY <1>5 DEF Tiene
    <3>. QED BY <1>4, <3>1 DEF Semaforos, SemaforoBien
  <2>3. Presencias BY <1>5 DEF Presencias, PresenciaBien
  <2>4. Distintos BY <1>4 DEF Distintos
  <2>. QED BY <2>1, <2>2, <2>3, <2>4 DEF Retenciones
<1>12. Contenidos BY <1>4 DEF Contenidos
<1>. QED BY <1>1, <1>7, <1>8, <1>9, <1>10, <1>11, <1>12 DEF Invariante, Tipos, Memorias

\* A step of an access, of any thread.
LEMMA InvarianteAcceso ==
  ASSUME Invariante, NEW h \in Hilos,
         \/ LeerDireccion(h) \/ Tomar(h) \/ incorporar_marco(h)
         \/ obtener_marco_libre_fisico(h) \/ reemplazo_por_clock(h) \/ Cambiar(h) \/ Traer(h) \/ Copiar(h)
  PROVE  Invariante'
<1>1. Tipos /\ Nuevos /\ Memorias /\ TiposHilos BY DEF Invariante, Tipos
<1>2. CASE LeerDireccion(h)
  <2>1. Tipos' /\ LosDemas(h) /\ hilos'[h].pc = "listo" BY <1>1, <1>2, TiposLeer DEF LosDemas
  <2>2. /\ UNCHANGED <<patotas, tripulantes, faltan>> /\ hilos[h].pc # "sin_hilo" /\ h # Principal
    BY <1>2 DEF LeerDireccion, Le_toca, orden
  <2>3. Nuevos' BY <1>1, <2>1, <2>2, NuevosPaso
  <2>. QED BY <1>1, <1>2, <2>1, <2>3, MemoriasLeer DEF Invariante
<1>3. CASE Tomar(h)
  <2>1. Tipos' /\ LosDemas(h) /\ Corrida(h) BY <1>1, <1>3, TiposTomar
  <2>2. UNCHANGED <<patotas, tripulantes, faltan>> /\ hilos[h].pc = "listo" BY <1>3 DEF Tomar, Le_toca, orden
  <2>3. hilos'[h].pc # "sin_hilo"
    <3>1. CASE UNCHANGED hilos BY <2>2, <3>1
    <3>2. ASSUME NEW m \in Marcos, TomaHecha(h, m) PROVE hilos'[h].pc # "sin_hilo" BY <3>2 DEF TomaHecha
    <3>. QED BY <1>1, <1>3, <3>1, <3>2, TiposTomar
  <2>4. Nuevos' BY <1>1, <2>1, <2>2, <2>3, NuevosPaso
  <2>. QED BY <1>1, <1>3, <2>1, <2>4, MemoriasTomar DEF Invariante
<1>4. CASE incorporar_marco(h)
  <2>1. Tipos' /\ LosDemas(h) /\ IncorporaHecha(h) BY <1>1, <1>4, TiposIncorporar
  <2>2. /\ UNCHANGED <<patotas, tripulantes, faltan>> /\ hilos[h].pc = "incorporar"
        /\ hilos'[h].accesos = hilos[h].accesos /\ hilos'[h].pc # "sin_hilo"
    BY <2>1 DEF IncorporaHecha, orden
  <2>3. Corrida(h) BY <1>1, <2>2, CorridaMisma
  <2>4. Nuevos' BY <1>1, <2>1, <2>2, <2>3, NuevosPaso
  <2>. QED BY <1>1, <1>4, <2>1, <2>4, MemoriasIncorporar DEF Invariante
<1>5. CASE reemplazo_por_clock(h)
  <2>1. Tipos' /\ LosDemas(h) /\ RelojHecho(h) BY <1>1, <1>5, TiposReloj
  <2>2. /\ UNCHANGED <<patotas, tripulantes, faltan>> /\ hilos[h].pc = "reloj"
        /\ hilos'[h].accesos = hilos[h].accesos /\ hilos'[h].pc # "sin_hilo"
    BY <2>1 DEF RelojHecho, orden
  <2>3. Corrida(h) BY <1>1, <2>2, CorridaMisma
  <2>4. Nuevos' BY <1>1, <2>1, <2>2, <2>3, NuevosPaso
  <2>. QED BY <1>1, <1>5, <2>1, <2>4, MemoriasReloj DEF Invariante
<1>6. CASE Cambiar(h)
  <2>1. Tipos' /\ LosDemas(h) /\ CambioHecho(h, hilos[h].marco, hilos[h].victima) BY <1>1, <1>6, TiposCambiar
  <2>2. /\ UNCHANGED <<patotas, tripulantes, faltan>> /\ hilos[h].pc = "cambiar"
        /\ hilos'[h].accesos = hilos[h].accesos /\ hilos'[h].pc # "sin_hilo"
    BY <2>1 DEF CambioHecho, orden
  <2>3. Corrida(h) BY <1>1, <2>2, CorridaMisma
  <2>4. Nuevos' BY <1>1, <2>1, <2>2, <2>3, NuevosPaso
  <2>. QED BY <1>1, <1>6, <2>1, <2>4, MemoriasCambiar DEF Invariante
<1>7. CASE Traer(h)
  <2>0. mutex_incorporar_marco = 0 BY <1>1, <1>7, RetieneTraer DEF Memorias
  <2>1. Tipos' /\ LosDemas(h) /\ TraerHecho(h, hilos[h].marco) BY <1>1, <1>7, <2>0, TiposTraer
  <2>2. /\ UNCHANGED <<patotas, tripulantes, faltan>> /\ hilos[h].pc = "traer"
        /\ hilos'[h].accesos = hilos[h].accesos /\ hilos'[h].pc # "sin_hilo"
    BY <2>1 DEF TraerHecho, orden
  <2>3. Corrida(h) BY <1>1, <2>2, CorridaMisma
  <2>4. Nuevos' BY <1>1, <2>1, <2>2, <2>3, NuevosPaso
  <2>. QED BY <1>1, <1>7, <2>1, <2>4, MemoriasTraer DEF Invariante
<1>8. CASE Copiar(h)
  <2>1. Tipos' /\ LosDemas(h) /\ Corrida(h) /\ CopiarHecho(h, Siguiente(h), hilos[h].marco)
    BY <1>1, <1>8, TiposCopiar
  <2>2. UNCHANGED <<patotas, tripulantes, faltan>> /\ hilos[h].pc = "copiar" /\ hilos'[h].pc = "listo"
    BY <2>1 DEF CopiarHecho, orden
  <2>4. Nuevos' BY <1>1, <2>1, <2>2, NuevosPaso
  <2>. QED BY <1>1, <1>8, <2>1, <2>4, MemoriasCopiar DEF Invariante
<1>9. CASE obtener_marco_libre_fisico(h)
  <2>1. Tipos' /\ LosDemas(h) /\ LibreHecha(h) BY <1>1, <1>9, TiposLibre
  <2>2. /\ UNCHANGED <<patotas, tripulantes, faltan>> /\ hilos[h].pc = "libre"
        /\ hilos'[h].accesos = hilos[h].accesos /\ hilos'[h].pc # "sin_hilo"
    BY <2>1 DEF LibreHecha, orden
  <2>3. Corrida(h) BY <1>1, <2>2, CorridaMisma
  <2>4. Nuevos' BY <1>1, <2>1, <2>2, <2>3, NuevosPaso
  <2>. QED BY <1>1, <1>9, <2>1, <2>4, MemoriasLibre DEF Invariante
<1>. QED BY <1>2, <1>3, <1>4, <1>5, <1>6, <1>7, <1>8, <1>9

\* Every step keeps the invariant.
LEMMA InvarianteNext ==
  ASSUME Invariante, Next
  PROVE  Invariante'
<1>1. Tipos /\ Nuevos /\ Memorias BY DEF Invariante
<1>2. ASSUME NEW n \in 1 .. MaxTripulantes, NEW tareas \in TamaniosTareas, INIT_P(n, tareas) PROVE Invariante'
  <2>1. CASE RechazarPatota(n, tareas)
    BY <1>1, <1>2, <2>1, TiposRechazo, NuevosRechazo, MemoriasInitP DEF Invariante
  <2>2. CASE AceptarPatota(n, tareas)
    BY <1>1, <1>2, <2>2, TiposAceptada, NuevosAceptada, MemoriasInitP DEF Invariante
  <2>. QED BY <1>2, <2>1, <2>2 DEF INIT_P
<1>3. CASE INIT_T
  <2>1. Tipos' BY <1>1, <1>3, TiposInitT
  <2>. QED BY <1>1, <1>3, <2>1, NuevosInitT, MemoriasInitT DEF Invariante
<1>4. ASSUME NEW trip \in tripulantes, ELIM_T(trip[1], trip[2]) PROVE Invariante'
  BY <1>1, <1>4, TiposElimT, NuevosElimT, MemoriasElimT DEF Invariante
<1>5. CASE Arrancar
  <2>1. Tipos' BY <1>1, <1>5, TiposArrancar
  <2>. QED BY <1>1, <1>5, <2>1, NuevosArrancar, MemoriasArrancar DEF Invariante
<1>6. CASE Correr
  <2>1. Tipos' BY <1>1, <1>6, TiposCorrer
  <2>. QED BY <1>1, <1>6, <2>1, NuevosCorrer, MemoriasCorrer DEF Invariante
<1>7. CASE Soltar
  <2>1. Tipos' BY <1>1, <1>7, TiposSoltar
  <2>. QED BY <1>1, <1>7, <2>1, NuevosSoltar, MemoriasSoltar DEF Invariante
<1>8. CASE Cancelar
  <2>1. Tipos' BY <1>1, <1>8, TiposCancelar
  <2>. QED BY <1>1, <1>8, <2>1, NuevosCancelar, MemoriasCancelar DEF Invariante
<1>9. ASSUME NEW trip \in Trips, rutina_hilos(trip[1], trip[2]) PROVE Invariante'
  <2>1. /\ trip \in Hilos /\ trip # Principal /\ trip = <<trip[1], trip[2]>>
    <3>1. trip[1] # 0 BY DEF Trips
    <3>. QED BY <3>1 DEF Hilos, Principal, Trips
  <2>2. Tipos' /\ LosDemas(trip) BY <1>1, <1>9, TiposRutina DEF LosDemas
  <2>3. hilos[trip].pc = "listo" /\ UNCHANGED <<patotas, tripulantes, faltan>>
    BY <1>9, <2>1 DEF rutina_hilos, Ocioso
  <2>4. hilos'[trip].pc = "listo"
    <3>1. PICK acc : Empezar(trip, acc) BY <1>9, <2>1 DEF rutina_hilos
    <3>2. hilos \in [Hilos -> Hilo] /\ hilos[trip] \in Hilo BY <1>1, <2>1 DEF Tipos, TiposHilos
    <3>3. PICK r : r = [hilos[trip] EXCEPT !.accesos = acc] OBVIOUS
    <3>4. r.pc = "listo" BY <2>3, <3>2, <3>3 DEF Hilo
    <3>5. hilos' = [hilos EXCEPT ![trip] = r] BY <3>1, <3>3 DEF Empezar
    <3>. QED BY <2>1, <3>2, <3>4, <3>5
  <2>5. Nuevos' BY <1>1, <2>1, <2>2, <2>3, <2>4, NuevosPaso
  <2>. QED BY <1>1, <1>9, <2>2, <2>5, MemoriasRutina DEF Invariante
<1>10. ASSUME NEW h \in Hilos,
              \/ LeerDireccion(h) \/ Tomar(h) \/ incorporar_marco(h)
              \/ obtener_marco_libre_fisico(h) \/ reemplazo_por_clock(h) \/ Cambiar(h) \/ Traer(h) \/ Copiar(h)
       PROVE  Invariante'
  BY <1>10, InvarianteAcceso
<1>. QED BY <1>2, <1>3, <1>4, <1>5, <1>6, <1>7, <1>8, <1>9, <1>10 DEF Next

\* So does a stutter.
LEMMA InvarianteQuieto ==
  ASSUME Invariante, UNCHANGED vars
  PROVE  Invariante'
<1>1. /\ UNCHANGED <<mapa_logico, puntero_clock, mutex_incorporar_marco, patotas, tripulantes, hilos>>
      /\ UNCHANGED <<faltan, pedidos, mensajes, datos, copia, sinMarca, causas, caida>>
  BY DEF vars, orden
<1>2. Existen' = Existen /\ Accesos' = Accesos /\ Hilo' = Hilo /\ Marco' = Marco BY <1>1, Quietos
<1>3. Tipos' BY <1>1, <1>2 DEF Invariante, Tipos, TiposPatotas, TiposMarcos, TiposHilos, Siguiente
<1>4. Nuevos' BY <1>1, <1>2 DEF Invariante, Nuevos, SinHilo, UnArranque, Sin
<1>5. \A g \in Hilos : Conserva(g) BY <1>1 DEF Conserva
<1>6. \A m \in Marcos : Lugar(m) /\ Misma(m) BY <1>1 DEF Lugar, Misma
<1>7. Memorias' BY <1>1, <1>5, <1>6, AjenoMemorias DEF Invariante, Tipos
<1>. QED BY <1>3, <1>4, <1>7 DEF Invariante

\* The inductive invariant, for every memory, page and swap size and any number of patotas,
\* trips and messages: the types, who has a thread, who holds each page and where the contents
\* of each page are, whatever is expelled and replaced.
THEOREM PaginasInvariante == Spec => []Invariante
<1>1. Init => Invariante BY InvarianteInit
<1>2. Invariante /\ [Next]_vars => Invariante' BY InvarianteNext, InvarianteQuieto
<1>. QED BY <1>1, <1>2, PTL DEF Spec

\* The page tables, the frames and the threads have their types whatever the messages,
\* the expulsions and the order of the accesses.
THEOREM PaginasTypeOK == Spec => []TypeOK
<1>1. Invariante => TypeOK
  <2>1. SUFFICES ASSUME Invariante PROVE TypeOK OBVIOUS
  <2>2. TiposPatotas /\ TiposMarcos /\ caida \in {"no", "sin_marco"} \union CaidasDeAcceso
    BY <2>1 DEF Invariante, Tipos
  <2>3. tripulantes \subseteq Trips BY <2>2 DEF TiposPatotas, Existen
  <2>. QED BY <2>2, <2>3 DEF TypeOK, TiposMarcos, Marco, CaidasDeAcceso
<1>. QED BY <1>1, PaginasInvariante, PTL

\* Until a free frame is taken, whose semaphore is posted without having been taken, a page
\* has one user, or none and its semaphore free, whatever is expelled and whatever is replaced.
THEOREM PaginasUnoPorPagina == Spec => []UnoPorPagina
<1>1. Invariante => UnoPorPagina
  <2>1. SUFFICES ASSUME Invariante, "sin_tomar" \notin causas, NEW m \in Marcos
                 PROVE  mapa_logico[m].semaforo_mutex + Cardinality(Tienen(m)) = 1
    BY DEF UnoPorPagina
  <2>2. SemaforoBien(m) BY <2>1 DEF Invariante, Memorias, Retenciones, Semaforos
  <2>3. \A h \in Hilos : h \in Tienen(m) <=> Tiene(h, m) BY DEF Tienen, Tiene
  <2>4. Tienen(m) \subseteq Hilos BY DEF Tienen
  <2>5. CASE mapa_logico[m].semaforo_mutex = 1
    <3>1. Tienen(m) = {} BY <2>2, <2>3, <2>4, <2>5 DEF SemaforoBien
    <3>2. Cardinality(Tienen(m)) = 0 BY <3>1, FS_EmptySet
    <3>. QED BY <2>5, <3>2
  <2>6. CASE mapa_logico[m].semaforo_mutex = 0
    <3>1. PICK h \in Hilos : \A g \in Hilos : Tiene(g, m) <=> g = h BY <2>2, <2>6 DEF SemaforoBien
    <3>2. Tienen(m) = {h} BY <2>3, <2>4, <3>1
    <3>3. Cardinality(Tienen(m)) = 1 BY <3>2, FS_Singleton
    <3>. QED BY <2>6, <3>3
  <2>. QED BY <2>2, <2>5, <2>6 DEF SemaforoBien
<1>. QED BY <1>1, PaginasInvariante, PTL

\* Two pages are in one frame only after a victim was taken that had already left memory.
THEOREM PaginasCompartido == Spec => []CompartidoExplicado
<1>1. Invariante => CompartidoExplicado
  <2>1. SUFFICES ASSUME Invariante, "ausente" \notin causas PROVE Compartidos = {}
    BY DEF CompartidoExplicado
  <2>2. Distintos BY <2>1 DEF Invariante, Memorias, Retenciones
  <2>. QED BY <2>1, <2>2 DEF Distintos, Compartidos, EnMemoria
<1>. QED BY <1>1, PaginasInvariante, PTL

\* Until a victim is taken wrongly, or a thread is cancelled while it reads a page, the
\* contents of a page are in its frame or in the swap file, unless actualizar_estado wrote
\* in that page without marking it: where its trip begins, or in the frame after that one.
THEOREM PaginasNadaSePierde == Spec => []NadaSePierde
<1>1. Invariante => NadaSePierde
  <2>1. SUFFICES ASSUME Invariante, causas = {}, NEW m \in Marcos \ (sinMarca \union EnCamino),
                        mapa_logico[m].duenio # 0
                 PROVE  Guardado(m)
    BY DEF NadaSePierde
  <2>2. Contenido(m) BY <2>1 DEF Invariante, Memorias, Contenidos
  <2>3. \A h \in Hilos : ~Trae(h, m) BY <2>1 DEF EnCamino, Trae
  <2>. QED BY <2>2, <2>3 DEF Contenido
<1>. QED BY <1>1, PaginasInvariante, PTL

-----------------------------------------------------------------------------
(* The pages that INIT_P counted *)

\* More than k - 1 whole pages of bytes need k pages.
LEMMA TechoMayor ==
  ASSUME NEW x \in Nat, NEW k \in Int, (k - 1) * TAMANIO_PAGINA < x
  PROVE  k <= Techo(x)
<1>1. PICK P : P = TAMANIO_PAGINA OBVIOUS
<1>2. PICK q : q = Techo(x) OBVIOUS
<1>3. PICK j : j = k - 1 OBVIOUS
<1>4. q \in Nat /\ x <= q * P /\ P \in Nat /\ j * P < x /\ j \in Int BY <1>1, <1>2, <1>3, TechoBien, Tamanios
<1>5. SUFFICES ASSUME q <= j PROVE FALSE BY <1>2, <1>3, <1>4
<1>6. q * P <= j * P /\ q * P \in Int /\ j * P \in Int BY <1>4, <1>5, ProductoMonotono
<1>. QED BY <1>4, <1>6

\* What INIT_T counts for a trip is no more than what the bytes of the trip add to
\* the pages of its patota.
LEMMA PaginasDelTrip ==
  ASSUME NEW u \in Nat
  PROVE  /\ frames_necesarios(TAMANIO_PAGINA - (u % TAMANIO_PAGINA), TAMANIO_TRIPULANTE) \in Nat
         /\ frames_necesarios(TAMANIO_PAGINA - (u % TAMANIO_PAGINA), TAMANIO_TRIPULANTE)
              <= Techo(u + TAMANIO_TRIPULANTE) - Techo(u)
<1>1. PICK P : P = TAMANIO_PAGINA OBVIOUS
<1>2. PICK T : T = TAMANIO_TRIPULANTE OBVIOUS
<1>3. PICK a : a = u \div P OBVIOUS
<1>4. PICK b : b = u % P OBVIOUS
<1>5. PICK c : c = T \div P OBVIOUS
<1>6. PICK d : d = T % P OBVIOUS
<1>7. P \in Nat /\ P > 0 /\ T \in Nat BY <1>1, <1>2, Tamanios
<1>8. a \in Nat /\ b \in 0 .. P - 1 /\ u = a * P + b BY <1>1, <1>3, <1>4, Division
<1>9. c \in Nat /\ d \in 0 .. P - 1 /\ T = c * P + d BY <1>1, <1>5, <1>6, <1>7, Division
<1>10. PICK n : n = c + (IF d > P - b THEN 1 ELSE 0) OBVIOUS
<1>11. frames_necesarios(TAMANIO_PAGINA - (u % TAMANIO_PAGINA), TAMANIO_TRIPULANTE) = n
  BY <1>1, <1>2, <1>4, <1>5, <1>6, <1>10 DEF frames_necesarios
<1>12. PICK s : s = a + c OBVIOUS
<1>13. PICK y : y = u + T OBVIOUS
<1>14. PICK f : f = Techo(u) OBVIOUS
<1>15. PICK g : g = Techo(y) OBVIOUS
<1>16. s \in Nat /\ y \in Nat /\ f \in Nat /\ g \in Nat
  BY <1>7, <1>8, <1>9, <1>12, <1>13, <1>14, <1>15, TechoBien
<1>17. a * P \in Int /\ c * P \in Int /\ s * P = a * P + c * P
  <2>1. a * P \in Int /\ c * P \in Int BY <1>7, <1>8, <1>9, ProductoMonotono
  <2>2. (a + c) * P = a * P + c * P BY <1>7, <1>8, <1>9
  <2>. QED BY <1>12, <2>1, <2>2
<1>18. y = s * P + (b + d) /\ s * P \in Int BY <1>7, <1>8, <1>9, <1>13, <1>17
<1>19. f <= a + 1 /\ (b = 0 => f <= a)
  <2>1. (a + 1) * P = a * P + P BY <1>7, <1>8, ProductoMonotono
  <2>2. u <= (a + 1) * P BY <1>7, <1>8, <1>17, <2>1
  <2>3. f <= a + 1 BY <1>1, <1>8, <1>14, <2>2, TechoMinimo
  <2>4. b = 0 => u <= a * P BY <1>8, <1>17
  <2>5. b = 0 => f <= a BY <1>1, <1>8, <1>14, <2>4, TechoMinimo
  <2>. QED BY <2>3, <2>5
<1>20. \A k \in Int : (k - 1) * P < y => k <= g BY <1>1, <1>15, <1>16, TechoMayor
<1>21. n <= g - f
  <2>1. CASE d > P - b
    <3>1. (s + 1) * P = s * P + P BY <1>7, <1>16, ProductoMonotono
    <3>2. (s + 1) * P < y BY <1>7, <1>8, <1>9, <1>18, <2>1, <3>1
    <3>3. s + 2 \in Int /\ (s + 2) - 1 = s + 1 BY <1>16
    <3>4. s + 2 <= g BY <1>20, <3>2, <3>3
    <3>5. n = c + 1 BY <1>10, <2>1
    <3>. QED BY <1>8, <1>9, <1>12, <1>16, <1>19, <3>4, <3>5
  <2>2. CASE ~(d > P - b)
    <3>1. n = c BY <1>9, <1>10, <2>2
    <3>2. CASE b = 0
      <4>1. s <= g
        <5>1. PICK k : k = s - 1 OBVIOUS
        <5>2. k \in Int /\ (k + 1) * P = k * P + P /\ k * P \in Int BY <1>7, <1>16, <5>1, ProductoMonotono
        <5>3. k + 1 = s BY <1>16, <5>1
        <5>4. k * P < y BY <1>7, <1>8, <1>9, <1>18, <5>2, <5>3
        <5>. QED BY <1>16, <1>20, <5>1, <5>4
      <4>. QED BY <1>8, <1>9, <1>12, <1>16, <1>19, <3>1, <3>2, <4>1
    <3>3. CASE b # 0
      <4>1. s * P < y BY <1>7, <1>8, <1>9, <1>18, <3>3
      <4>2. s + 1 \in Int /\ (s + 1) - 1 = s BY <1>16
      <4>3. s + 1 <= g BY <1>20, <4>1, <4>2
      <4>. QED BY <1>8, <1>9, <1>12, <1>16, <1>19, <3>1, <4>3
    <3>. QED BY <3>2, <3>3
  <2>. QED BY <2>1, <2>2
<1>22. n \in Nat BY <1>9, <1>10
<1>. QED BY <1>2, <1>11, <1>13, <1>14, <1>15, <1>21, <1>22

\* while trips are still to come the main loop accesses memory or starts a thread
SoloAvance ==
  \A i \in DOMAIN hilos[Principal].accesos :
    hilos[Principal].accesos[i].tipo \in Memoria \union {"arrancar"}

\* the pages that the last patota still needs for the trips to come are free
Reservadas(ocupada, trips) ==
  /\ ocupada \in Nat
  /\ Techo(ocupada + trips * TAMANIO_TRIPULANTE) - Techo(ocupada) <= Cardinality(Libres(mapa_logico))
Reserva ==
  faltan > 0 => Reservadas(patotas[Len(patotas)].memoria_ocupada, faltan) /\ SoloAvance

\* no page changes owner
MismosDuenios == \A m \in Marcos : mapa_logico'[m].duenio = mapa_logico[m].duenio

\* A step of a message.
LEMMA ReservaSigue ==
  ASSUME Reserva, UNCHANGED <<patotas, faltan>>, Corrida(Principal), MismosDuenios
  PROVE  Reserva'
<1>1. SUFFICES ASSUME faltan > 0
               PROVE  Reservadas(patotas[Len(patotas)].memoria_ocupada, faltan)' /\ SoloAvance'
  BY DEF Reserva
<1>2. PICK u : u = patotas[Len(patotas)].memoria_ocupada OBVIOUS
<1>3. Reservadas(u, faltan) /\ SoloAvance BY <1>1, <1>2 DEF Reserva
<1>4. Libres(mapa_logico') = Libres(mapa_logico) BY DEF Libres, MismosDuenios
<1>5. /\ u \in Nat
      /\ Techo(u + faltan * TAMANIO_TRIPULANTE) - Techo(u) <= Cardinality(Libres(mapa_logico'))
  BY <1>3, <1>4 DEF Reservadas
<1>6. /\ patotas'[Len(patotas')].memoria_ocupada = u /\ faltan' = faltan BY <1>2
<1>7. Reservadas(patotas[Len(patotas)].memoria_ocupada, faltan)' BY <1>5, <1>6 DEF Reservadas
<1>8. SoloAvance'
  <2>1. PICK d \in Int : \A i \in DOMAIN hilos'[Principal].accesos :
          hilos'[Principal].accesos[i].tipo \in Memoria
            \/ (i + d \in DOMAIN hilos[Principal].accesos
                  /\ hilos'[Principal].accesos[i] = hilos[Principal].accesos[i + d])
    BY DEF Corrida
  <2>. QED BY <1>3, <2>1 DEF SoloAvance
<1>. QED BY <1>7, <1>8

\* A patota is given n free pages: that many less are free.
LEMMA QuedanLibres ==
  ASSUME TiposMarcos, NEW p \in Nat, p # 0, NEW R, R \subseteq Libres(mapa_logico),
         \A m \in Marcos : mapa_logico'[m] = ConDuenio(m, p, R)
  PROVE  Cardinality(Libres(mapa_logico')) = Cardinality(Libres(mapa_logico)) - Cardinality(R)
<1>1. PICK L : L = Libres(mapa_logico) OBVIOUS
<1>2. IsFiniteSet(L) /\ R \subseteq L /\ L \subseteq Marcos BY <1>1, LibresFinitos
<1>3. Libres(mapa_logico') = L \ R
  <2>1. ASSUME NEW m \in Marcos PROVE mapa_logico'[m].duenio = 0 <=> m \in L \ R
    <3>1. mapa_logico[m] \in Marco BY DEF TiposMarcos
    <3>2. mapa_logico'[m] = ConDuenio(m, p, R) BY <2>1
    <3>3. m \in L <=> mapa_logico[m].duenio = 0 BY <1>1 DEF Libres
    <3>4. CASE m \in R
      <4>1. PICK x : x = [mapa_logico[m] EXCEPT !.duenio = p] OBVIOUS
      <4>2. x.duenio = p BY <3>1, <4>1 DEF Marco
      <4>3. mapa_logico'[m] = x BY <3>2, <3>4, <4>1 DEF ConDuenio
      <4>. QED BY <3>4, <4>2, <4>3
    <3>5. CASE m \notin R BY <3>2, <3>3, <3>5 DEF ConDuenio
    <3>. QED BY <3>4, <3>5
  <2>. QED BY <1>2, <2>1 DEF Libres
<1>4. L \cap R = R BY <1>2
<1>5. Cardinality(L \ R) = Cardinality(L) - Cardinality(L \cap R) BY <1>2, FS_Difference
<1>. QED BY <1>1, <1>3, <1>4, <1>5

\* INIT_P counts the pages of the trips too.
LEMMA ReservaAceptada ==
  ASSUME Tipos, NEW n \in 1 .. MaxTripulantes, NEW tareas \in TamaniosTareas, INIT_P(n, tareas),
         AceptarPatota(n, tareas)
  PROVE  Reserva'
<1>1. PICK p : p = Len(patotas) + 1 OBVIOUS
<1>2. PICK u : u = TAMANIO_PATOTA + tareas OBVIOUS
<1>3. PICK c : c = frames_necesarios(0, u) OBVIOUS
<1>4. PICK f : f = [frames |-> <<>>, memoria_ocupada |-> u, tareas |-> tareas, inicio |-> [t \in 1 .. n |-> 0]]
  OBVIOUS
<1>5. PICK e : e = Elegidos(mapa_logico, c) OBVIOUS
<1>6. /\ asignar_frames(p, c, f) /\ faltan' = n /\ Cabe(n, tareas)
  BY <1>1, <1>2, <1>3, <1>4 DEF AceptarPatota
<1>7. TiposPatotas /\ TiposMarcos BY DEF Tipos
<1>8. /\ patotas \in Seq(Patota) /\ Len(patotas) \in Nat /\ p \in 1 .. Len(patotas) + 1 /\ p > Len(patotas)
      /\ p \in Nat /\ p # 0 /\ u \in Nat
  BY <1>1, <1>2, <1>7, Tamanios DEF TiposPatotas
<1>9. f \in Patota /\ f.memoria_ocupada = u
  <2>1. f \in Patota BY <1>2, <1>4, FilaNueva
  <2>. QED BY <1>4, <2>1
<1>10. c \in Nat /\ c <= Cardinality(Libres(mapa_logico)) BY <1>2, <1>3, <1>6, PatotaCabe
<1>11. /\ Len(patotas') = p /\ patotas'[p].memoria_ocupada = u
       /\ \A m \in Marcos : mapa_logico'[m] = ConDuenio(m, p, Range(e))
  <2>1. Len(patotas') = p BY <1>5, <1>6, <1>7, <1>8, <1>9, <1>10, AsignarBien
  <2>2. patotas'[p].memoria_ocupada = f.memoria_ocupada
    BY <1>5, <1>6, <1>7, <1>8, <1>9, <1>10, AsignarBien
  <2>3. \A m \in Marcos : mapa_logico'[m] = ConDuenio(m, p, Range(e))
    <3>1. p \in 1 .. Len(patotas) + 1 /\ f \in Patota /\ asignar_frames(p, c, f) BY <1>6, <1>8, <1>9
    <3>2. c \in Nat /\ c <= Cardinality(Libres(mapa_logico)) BY <1>10
    <3>. QED BY <1>5, <1>7, <3>1, <3>2, AsignarBien
  <2>. QED BY <1>9, <2>1, <2>2, <2>3
<1>12. Range(e) \subseteq Libres(mapa_logico) /\ Cardinality(Range(e)) = c BY <1>5, <1>10, ElegidosBien
<1>13. Cardinality(Libres(mapa_logico')) = Cardinality(Libres(mapa_logico)) - c
  BY <1>7, <1>8, <1>11, <1>12, QuedanLibres
<1>14. PICK l : l = Cardinality(Libres(mapa_logico)) OBVIOUS
<1>15. l \in Nat BY <1>14, LibresFinitos
<1>16. PICK todo : todo = u + n * TAMANIO_TRIPULANTE OBVIOUS
<1>17. Techo(todo) <= l BY <1>2, <1>6, <1>14, <1>16 DEF Cabe, Techo
<1>18. todo \in Nat
  <2>1. n * TAMANIO_TRIPULANTE \in Int /\ n * TAMANIO_TRIPULANTE >= 0 BY Tamanios
  <2>. QED BY <1>8, <1>16, <2>1
<1>19. Techo(todo) \in Nat /\ c = Techo(u) BY <1>3, <1>18, TechoBien DEF Techo
<1>20. Techo(todo) - Techo(u) <= l - c BY <1>10, <1>15, <1>17, <1>19
<1>21. Reservadas(u, n)' BY <1>8, <1>13, <1>14, <1>16, <1>20 DEF Reservadas, Techo, frames_necesarios
<1>22. SoloAvance'
  <2>1. SoloMemoria' BY TiposAceptada
  <2>. QED BY <2>1 DEF SoloMemoria, SoloAvance
<1>. QED BY <1>6, <1>11, <1>21, <1>22 DEF Reserva

\* INIT_T finds the pages that it counts, and leaves those of the trips after it.
LEMMA ReservaInitT ==
  ASSUME Tipos, Reserva, INIT_T
  PROVE  Reserva' /\ caida' = caida
<1>1. PICK p : p = Len(patotas) OBVIOUS
<1>2. PICK t : t = Len(patotas[p].inicio) - faltan + 1 OBVIOUS
<1>3. TiposPatotas /\ TiposMarcos /\ TiposHilos BY DEF Tipos
<1>4. faltan > 0 /\ faltan \in Nat /\ Ocioso(Principal) BY <1>3 DEF INIT_T, TiposPatotas
<1>5. PICK u : u = patotas[p].memoria_ocupada OBVIOUS
<1>6. PICK l : l = Cardinality(Libres(mapa_logico)) OBVIOUS
<1>7. PICK T : T = TAMANIO_TRIPULANTE OBVIOUS
<1>8. T \in Nat /\ l \in Nat BY <1>6, <1>7, Tamanios, LibresFinitos
<1>9. u \in Nat /\ Techo(u + faltan * T) - Techo(u) <= l
  BY <1>1, <1>4, <1>5, <1>6, <1>7 DEF Reserva, Reservadas
<1>10. PICK n : n = FramesDelTrip(p) OBVIOUS
<1>11. n \in Nat /\ n <= Techo(u + T) - Techo(u)
  <2>1. n = frames_necesarios(TAMANIO_PAGINA - (u % TAMANIO_PAGINA), TAMANIO_TRIPULANTE)
    BY <1>5, <1>10 DEF FramesDelTrip, EspacioOcupado
  <2>. QED BY <1>7, <1>9, <2>1, PaginasDelTrip
<1>12. PICK q : q = faltan - 1 OBVIOUS
<1>13. PICK r : r = q * T OBVIOUS
<1>14. q \in Nat /\ r \in Nat /\ faltan * T = r + T
  <2>1. q \in Nat /\ faltan = q + 1 BY <1>4, <1>12
  <2>2. (q + 1) * T = q * T + T /\ q * T \in Int BY <1>8, <2>1, ProductoMonotono
  <2>3. q * T >= 0 BY <1>8, <2>1
  <2>. QED BY <1>13, <2>1, <2>2, <2>3
<1>15. PICK v : v = u + T OBVIOUS
<1>16. v \in Nat /\ v + r \in Nat /\ u + faltan * T = v + r /\ v <= v + r BY <1>8, <1>9, <1>14, <1>15
<1>17. Techo(u) \in Nat /\ Techo(v) \in Nat /\ Techo(v + r) \in Nat /\ Techo(v) <= Techo(v + r)
  BY <1>9, <1>16, TechoBien, TechoMonotono
<1>18. n <= l /\ Techo(v + r) - Techo(v) <= l - n
  <2>1. Techo(v + r) - Techo(u) <= l BY <1>9, <1>16
  <2>2. n <= Techo(v) - Techo(u) BY <1>11, <1>15
  <2>. QED BY <1>8, <1>11, <1>17, <2>1, <2>2
<1>19. ~(FramesDelTrip(p) > Cardinality(Libres(mapa_logico))) BY <1>6, <1>8, <1>10, <1>11, <1>18
<1>20. PICK e : e = Elegidos(mapa_logico, FramesDelTrip(p)) OBVIOUS
<1>21. /\ Len(patotas') = p /\ patotas'[p].memoria_ocupada = v /\ faltan' = q /\ UNCHANGED caida
       /\ Empezar(Principal, EscribirTodo(p, t) \o <<Paso("arrancar", p, t)>> \o loggear_data(p, tripulantes'))
       /\ tripulantes' = tripulantes \union {<<p, t>>}
  <2>1. /\ Len(patotas') = p /\ patotas'[p].memoria_ocupada = patotas[p].memoria_ocupada + TAMANIO_TRIPULANTE
        /\ faltan' = faltan - 1 /\ UNCHANGED caida
    BY <1>1, <1>2, <1>3, <1>19, <1>20, TripAceptado
  <2>2. Empezar(Principal, EscribirTodo(p, t) \o <<Paso("arrancar", p, t)>> \o loggear_data(p, tripulantes'))
    BY <1>1, <1>2, <1>3, <1>19, <1>20, TripAceptado
  <2>3. tripulantes' = tripulantes \union {<<p, t>>} BY <1>1, <1>2, <1>3, <1>19, <1>20, TripAceptado
  <2>. QED BY <1>5, <1>7, <1>12, <1>15, <2>1, <2>2, <2>3
<1>22. \A m \in Marcos : mapa_logico'[m] = ConDuenio(m, p, Range(e))
  <2>1. PICK tabla : asignar_frames(p, n, tabla) BY <1>1, <1>10, <1>19 DEF INIT_T
  <2>2. PICK R : R = Range(e) OBVIOUS
  <2>3. mapa_logico' = [m \in Marcos |-> IF m \in R THEN [mapa_logico[m] EXCEPT !.duenio = p] ELSE mapa_logico[m]]
    BY <1>10, <1>20, <2>1, <2>2 DEF asignar_frames
  <2>. QED BY <2>2, <2>3 DEF ConDuenio
<1>23. Cardinality(Libres(mapa_logico')) = l - n
  <2>1. Range(e) \subseteq Libres(mapa_logico) /\ Cardinality(Range(e)) = n
    BY <1>6, <1>10, <1>11, <1>18, <1>20, ElegidosBien
  <2>2. p \in Nat /\ p # 0
    <3>1. p \in Nat /\ p \in 1 .. Len(patotas) BY <1>1, <1>2, <1>3, <1>4, TripNuevo
    <3>. QED BY <3>1
  <2>. QED BY <1>3, <1>6, <1>22, <2>1, <2>2, QuedanLibres
<1>24. Reservadas(v, q)' BY <1>7, <1>13, <1>16, <1>18, <1>23 DEF Reservadas, Techo, frames_necesarios
<1>25. SoloAvance'
  <2>1. /\ p \in Nat /\ p \in 1 .. p /\ t \in Nat /\ t # 0 /\ <<p, t>> \in Existen
    <3>1. p \in Nat /\ p \in 1 .. Len(patotas) BY <1>1, <1>2, <1>3, <1>4, TripNuevo
    <3>2. t \in Nat /\ t # 0 /\ <<p, t>> \in Existen BY <1>1, <1>2, <1>3, <1>4, TripNuevo
    <3>. QED BY <3>1, <3>2
  <2>2. PICK A : A = EscribirTodo(p, t) OBVIOUS
  <2>3. PICK B : B = loggear_data(p, tripulantes') OBVIOUS
  <2>4. PICK b : b = Paso("arrancar", p, t) OBVIOUS
  <2>. DEFINE S == [tipo : Memoria \union {"arrancar"}, p : Nat, t : Nat, desde : Int, bytes : Nat, hechos : Nat]
  <2>5. DeMemoria(p, Existen) \subseteq S
    <3>1. ASSUME NEW a \in DeMemoria(p, Existen) PROVE a \in S
      <4>1. /\ a \in [tipo : Memoria \union Pasos, p : 1 .. p, t : Nat, desde : Int, bytes : Nat, hechos : Nat]
            /\ a.tipo \in Memoria
        BY DEF DeMemoria, AccesosDe
      <4>. QED BY <2>1, <4>1
    <3>. QED BY <3>1
  <2>6. A \in Seq(S)
    <3>1. A \in Seq(Lecturas(p, Existen)) BY <2>1, <2>2, TodoBien
    <3>2. Lecturas(p, Existen) \subseteq DeMemoria(p, Existen) BY DEF Lecturas, DeMemoria
    <3>. HIDE DEF S
    <3>3. Lecturas(p, Existen) \subseteq S BY <2>5, <3>2
    <3>. QED BY <3>1, <3>3, SeqMonotonic
  <2>7. B \in Seq(S)
    <3>1. tripulantes' \in SUBSET Existen BY <1>3, <1>21, <2>1 DEF TiposPatotas
    <3>2. Existen \in SUBSET Trips /\ \A trip \in Existen : trip[1] \in 1 .. p BY <1>1, <2>1, ExistenBien
    <3>3. B \in Seq(DeMemoria(p, Existen)) BY <2>1, <2>3, <3>1, <3>2, LogMemoria
    <3>. HIDE DEF S
    <3>. QED BY <2>5, <3>3, SeqMonotonic
  <2>8. b \in S BY <2>1, <2>4 DEF Paso, Acceso
  <2>. HIDE DEF S
  <2>9. PICK x : x = A \o <<b>> OBVIOUS
  <2>10. <<b>> \in Seq(S) BY <2>8
  <2>11. x \in Seq(S) BY <2>6, <2>9, <2>10, ConcatProperties
  <2>12. PICK acc : acc = x \o B OBVIOUS
  <2>13. acc \in Seq(S) BY <2>7, <2>11, <2>12, ConcatProperties
  <2>14. \A i \in DOMAIN acc : acc[i].tipo \in Memoria \union {"arrancar"}
    <3>1. \A i \in DOMAIN acc : acc[i] \in S BY <2>13
    <3>. QED BY <3>1 DEF S
  <2>15. Empezar(Principal, acc) BY <1>21, <2>2, <2>3, <2>4, <2>9, <2>12
  <2>16. hilos \in [Hilos -> Hilo] /\ Principal \in Hilos BY <1>3 DEF TiposHilos, Hilos
  <2>17. hilos'[Principal].accesos = acc
    <3>1. PICK h : h = [hilos[Principal] EXCEPT !.accesos = acc] OBVIOUS
    <3>2. hilos[Principal] \in Hilo BY <2>16
    <3>3. h.accesos = acc BY <3>1, <3>2 DEF Hilo
    <3>4. hilos' = [hilos EXCEPT ![Principal] = h] BY <2>15, <3>1 DEF Empezar
    <3>. QED BY <2>16, <3>3, <3>4
  <2>. QED BY <2>14, <2>17 DEF SoloAvance
<1>. QED BY <1>21, <1>24, <1>25 DEF Reserva

\* INIT_T has the pages that it counts, so the process never dies for one.
Alcanza == Reserva /\ caida # "sin_marco"

\* What a thread does to its accesses is nothing, or a step, of the main loop's.
LEMMA CorridaPrincipal ==
  ASSUME TiposHilos, NEW h \in Hilos, LosDemas(h), Corrida(h)
  PROVE  Corrida(Principal)
<1>1. Principal \in Hilos BY DEF Hilos
<1>2. CASE h = Principal BY <1>2
<1>3. CASE h # Principal
  <2>1. hilos'[Principal] = hilos[Principal] BY <1>1, <1>3 DEF LosDemas
  <2>. QED BY <1>1, <2>1, CorridaMisma
<1>. QED BY <1>2, <1>3

\* The steps of an access.
LEMMA ReservaAcceso ==
  ASSUME Invariante, Reserva, NEW h \in Hilos,
         \/ LeerDireccion(h) \/ Tomar(h) \/ incorporar_marco(h)
         \/ obtener_marco_libre_fisico(h) \/ reemplazo_por_clock(h) \/ Cambiar(h) \/ Traer(h) \/ Copiar(h)
  PROVE  Reserva' /\ caida' \in {caida, "no"} \union CaidasDeAcceso
<1> USE DEF CaidasDeAcceso
<1>1. Tipos /\ TiposHilos BY DEF Invariante, Tipos
<1>2. CASE LeerDireccion(h)
  <2>1. /\ h # Principal /\ UNCHANGED <<patotas, faltan, caida, mapa_logico>>
    BY <1>2 DEF LeerDireccion, orden, pags
  <2>2. \A g \in Hilos : g # h => hilos'[g] = hilos[g] BY <1>1, <1>2, TiposLeer
  <2>3. Principal \in Hilos /\ hilos'[Principal] = hilos[Principal] BY <2>1, <2>2 DEF Hilos
  <2>4. Corrida(Principal) BY <1>1, <2>3, CorridaMisma
  <2>5. MismosDuenios BY <2>1 DEF MismosDuenios
  <2>. QED BY <2>1, <2>4, <2>5, ReservaSigue
<1>3. CASE Tomar(h)
  <2>1. UNCHANGED <<patotas, faltan>> BY <1>3 DEF Tomar, orden
  <2>2. LosDemas(h) /\ Corrida(h) BY <1>1, <1>3, TiposTomar
  <2>3. Corrida(Principal) BY <1>1, <2>2, CorridaPrincipal
  <2>4. \/ caida' = "fuera_de_tabla" /\ UNCHANGED <<hilos, mapa_logico>>
        \/ \E m \in Marcos : TomaHecha(h, m)
    BY <1>1, <1>3, TiposTomar
  <2>5. MismosDuenios /\ caida' \in {caida, "fuera_de_tabla"}
    <3>1. CASE caida' = "fuera_de_tabla" /\ UNCHANGED <<hilos, mapa_logico>> BY <3>1 DEF MismosDuenios
    <3>2. ASSUME NEW m \in Marcos, TomaHecha(h, m) PROVE MismosDuenios /\ UNCHANGED caida
      BY <3>2 DEF TomaHecha, Restado, MismaPagina, MismosDuenios
    <3>. QED BY <2>4, <3>1, <3>2
  <2>6. Reserva' BY <2>1, <2>3, <2>5, ReservaSigue
  <2>. QED BY <2>5, <2>6
<1>4. CASE incorporar_marco(h)
  <2>1. LosDemas(h) /\ IncorporaHecha(h) BY <1>1, <1>4, TiposIncorporar
  <2>2. /\ UNCHANGED <<patotas, faltan, mapa_logico>> /\ hilos'[h].accesos = hilos[h].accesos
        /\ caida' \in {caida, "lru"}
    BY <2>1 DEF IncorporaHecha, orden, pags
  <2>3. Corrida(Principal) BY <1>1, <2>1, <2>2, CorridaMisma, CorridaPrincipal
  <2>4. MismosDuenios BY <2>2 DEF MismosDuenios
  <2>5. Reserva' BY <2>2, <2>3, <2>4, ReservaSigue
  <2>. QED BY <2>2, <2>5
<1>5. CASE reemplazo_por_clock(h)
  <2>1. LosDemas(h) /\ RelojHecho(h) BY <1>1, <1>5, TiposReloj
  <2>2. UNCHANGED <<patotas, faltan, caida>> /\ hilos'[h].accesos = hilos[h].accesos
    BY <2>1 DEF RelojHecho, orden
  <2>3. Corrida(Principal) BY <1>1, <2>1, <2>2, CorridaMisma, CorridaPrincipal
  <2>4. MismosDuenios BY <2>1 DEF RelojHecho, Restado, MismaPagina, MismosDuenios
  <2>. QED BY <2>2, <2>3, <2>4, ReservaSigue
<1>6. CASE Cambiar(h)
  <2>1. LosDemas(h) /\ CambioHecho(h, hilos[h].marco, hilos[h].victima) BY <1>1, <1>6, TiposCambiar
  <2>2. UNCHANGED <<patotas, faltan, caida>> /\ hilos'[h].accesos = hilos[h].accesos
    BY <2>1 DEF CambioHecho, orden
  <2>3. Corrida(Principal) BY <1>1, <2>1, <2>2, CorridaMisma, CorridaPrincipal
  <2>4. MismosDuenios BY <2>1 DEF CambioHecho, MismosDuenios
  <2>. QED BY <2>2, <2>3, <2>4, ReservaSigue
<1>7. CASE Traer(h)
  <2>0. mutex_incorporar_marco = 0 BY <1>1, <1>7, RetieneTraer DEF Invariante, Memorias
  <2>1. LosDemas(h) /\ TraerHecho(h, hilos[h].marco) BY <1>1, <1>7, <2>0, TiposTraer
  <2>2. UNCHANGED <<patotas, faltan, caida, mapa_logico>> /\ hilos'[h].accesos = hilos[h].accesos
    BY <2>1 DEF TraerHecho, orden
  <2>3. Corrida(Principal) BY <1>1, <2>1, <2>2, CorridaMisma, CorridaPrincipal
  <2>4. MismosDuenios BY <2>2 DEF MismosDuenios
  <2>. QED BY <2>2, <2>3, <2>4, ReservaSigue
<1>8. CASE Copiar(h)
  <2>1. LosDemas(h) /\ Corrida(h) /\ CopiarHecho(h, Siguiente(h), hilos[h].marco)
    BY <1>1, <1>8, TiposCopiar
  <2>2. UNCHANGED <<patotas, faltan>> BY <2>1 DEF CopiarHecho, orden
  <2>3. Corrida(Principal) BY <1>1, <2>1, CorridaPrincipal
  <2>4. MismosDuenios BY <2>1 DEF CopiarHecho, MismaPagina, MismosDuenios
  <2>5. caida' \in {caida, "no", "fuera_de_memoria"} BY <2>1 DEF CopiarHecho, EnSuMarco, EnElSiguiente
  <2>6. Reserva' BY <2>2, <2>3, <2>4, ReservaSigue
  <2>. QED BY <2>5, <2>6
<1>9. CASE obtener_marco_libre_fisico(h)
  <2>1. LosDemas(h) /\ LibreHecha(h) BY <1>1, <1>9, TiposLibre
  <2>2. /\ UNCHANGED <<patotas, faltan, mapa_logico>> /\ hilos'[h].accesos = hilos[h].accesos
        /\ caida' \in {caida, "sin_libre"}
    BY <2>1 DEF LibreHecha, orden, pags
  <2>3. Corrida(Principal) BY <1>1, <2>1, <2>2, CorridaMisma, CorridaPrincipal
  <2>4. MismosDuenios BY <2>2 DEF MismosDuenios
  <2>5. Reserva' BY <2>2, <2>3, <2>4, ReservaSigue
  <2>. QED BY <2>2, <2>5
<1>. QED BY <1>2, <1>3, <1>4, <1>5, <1>6, <1>7, <1>8, <1>9

\* No trip is still to come while the main loop is in the middle of an expulsion.
LEMMA ReservaExpulsion ==
  ASSUME TiposHilos, Reserva, Le_toca(Principal, {"correr", "soltar", "cancelar"}), faltan' = faltan
  PROVE  Reserva'
<1>1. SUFFICES ASSUME faltan > 0 PROVE FALSE BY DEF Reserva
<1>2. PICK s : s = hilos[Principal].accesos OBVIOUS
<1>3. Principal \in Hilos BY DEF Hilos
<1>4. s \in Seq(Accesos) /\ s # << >> BY <1>2, <1>3 DEF TiposHilos, Hilo, Le_toca
<1>5. 1 \in DOMAIN s /\ Siguiente(Principal) = s[1] BY <1>2, <1>4 DEF Siguiente
<1>6. s[1].tipo \in Memoria \union {"arrancar"} BY <1>1, <1>2, <1>5 DEF Reserva, SoloAvance
<1>7. s[1].tipo \in {"correr", "soltar", "cancelar"} BY <1>5 DEF Le_toca
<1>. QED BY <1>6, <1>7 DEF Memoria

\* Every step keeps the pages that were counted.
LEMMA AlcanzaNext ==
  ASSUME Invariante, Alcanza, Next
  PROVE  Alcanza'
<1>1. Tipos /\ Nuevos /\ TiposHilos /\ Reserva /\ caida # "sin_marco" BY DEF Invariante, Tipos, Alcanza
<1>2. ASSUME NEW n \in 1 .. MaxTripulantes, NEW tareas \in TamaniosTareas, INIT_P(n, tareas) PROVE Alcanza'
  <2>1. CASE RechazarPatota(n, tareas)
    <3>1. faltan = 0 /\ UNCHANGED <<faltan, caida>> BY <1>2, <2>1 DEF INIT_P, RechazarPatota
    <3>. QED BY <1>1, <3>1 DEF Alcanza, Reserva
  <2>2. CASE AceptarPatota(n, tareas)
    <3>1. Reserva' BY <1>1, <1>2, <2>2, ReservaAceptada
    <3>2. UNCHANGED caida BY <2>2 DEF AceptarPatota
    <3>. QED BY <1>1, <3>1, <3>2 DEF Alcanza
  <2>. QED BY <1>2, <2>1, <2>2 DEF INIT_P
<1>3. CASE INIT_T
  <2>1. Reserva' /\ caida' = caida BY <1>1, <1>3, ReservaInitT
  <2>. QED BY <1>1, <2>1 DEF Alcanza
<1>4. ASSUME NEW trip \in tripulantes, ELIM_T(trip[1], trip[2]) PROVE Alcanza'
  <2>1. faltan = 0 /\ UNCHANGED <<faltan, caida>> BY <1>4 DEF ELIM_T, orden
  <2>. QED BY <1>1, <2>1 DEF Alcanza, Reserva
<1>5. CASE Arrancar
  <2>1. PICK g : hilos' = [Hecho(Principal) EXCEPT ![g].pc = "listo"] BY <1>5 DEF Arrancar
  <2>2. Le_toca(Principal, {"arrancar"}) /\ UNCHANGED <<patotas, faltan, caida, mapa_logico>>
    BY <1>5 DEF Arrancar, orden, pags
  <2>3. hilos'[Principal].accesos = Tail(hilos[Principal].accesos)
    <3>1. hilos \in [Hilos -> Hilo] /\ Principal \in Hilos BY <1>1 DEF TiposHilos, Hilos
    <3>2. PICK r : r = [hilos[Principal] EXCEPT !.accesos = Tail(hilos[Principal].accesos)] OBVIOUS
    <3>3. hilos[Principal] \in Hilo BY <3>1
    <3>4. r.accesos = Tail(hilos[Principal].accesos) BY <3>2, <3>3 DEF Hilo
    <3>5. Hecho(Principal) = [hilos EXCEPT ![Principal] = r] BY <3>2 DEF Hecho
    <3>6. PICK H : H = Hecho(Principal) OBVIOUS
    <3>7. H[Principal] = r /\ DOMAIN H = Hilos BY <3>1, <3>5, <3>6
    <3>8. PICK k : k = [H[g] EXCEPT !.pc = "listo"] OBVIOUS
    <3>9. hilos' = [H EXCEPT ![g] = k] BY <2>1, <3>6, <3>8
    <3>10. g # Principal => hilos'[Principal] = r BY <3>1, <3>7, <3>9
    <3>11. g = Principal => hilos'[Principal] = k /\ k = [r EXCEPT !.pc = "listo"] BY <3>1, <3>7, <3>8, <3>9
    <3>12. [r EXCEPT !.pc = "listo"].accesos = r.accesos BY <3>2, <3>3 DEF Hilo
    <3>. QED BY <3>4, <3>10, <3>11, <3>12
  <2>4. hilos[Principal].accesos # << >> BY <2>2 DEF Le_toca
  <2>5. Corrida(Principal) BY <1>1, <2>3, <2>4, CorridaCola
  <2>6. MismosDuenios BY <2>2 DEF MismosDuenios
  <2>7. Reserva' BY <1>1, <2>2, <2>5, <2>6, ReservaSigue
  <2>. QED BY <1>1, <2>2, <2>7 DEF Alcanza
<1>6. CASE Correr
  <2>1. Le_toca(Principal, {"correr", "soltar", "cancelar"}) /\ UNCHANGED <<faltan, caida>>
    BY <1>6 DEF Correr, Le_toca, orden
  <2>. QED BY <1>1, <2>1, ReservaExpulsion DEF Alcanza
<1>7. CASE Soltar
  <2>1. Le_toca(Principal, {"correr", "soltar", "cancelar"}) /\ UNCHANGED <<faltan, caida>>
    BY <1>7 DEF Soltar, Le_toca, orden
  <2>. QED BY <1>1, <2>1, ReservaExpulsion DEF Alcanza
<1>8. CASE Cancelar
  <2>1. Le_toca(Principal, {"correr", "soltar", "cancelar"}) /\ UNCHANGED <<faltan, caida>>
    BY <1>8 DEF Cancelar, Le_toca, orden
  <2>. QED BY <1>1, <2>1, ReservaExpulsion DEF Alcanza
<1>9. ASSUME NEW trip \in Trips, rutina_hilos(trip[1], trip[2]) PROVE Alcanza'
  <2>1. UNCHANGED <<patotas, faltan, caida, mapa_logico>> BY <1>9 DEF rutina_hilos, pags
  <2>2. \A g \in Hilos : g # trip => hilos'[g] = hilos[g] BY <1>1, <1>9, TiposRutina
  <2>3. Principal \in Hilos /\ trip # Principal BY DEF Hilos, Principal, Trips
  <2>4. hilos'[Principal] = hilos[Principal] BY <2>2, <2>3
  <2>5. Corrida(Principal) BY <1>1, <2>3, <2>4, CorridaMisma
  <2>6. MismosDuenios BY <2>1 DEF MismosDuenios
  <2>7. Reserva' BY <1>1, <2>1, <2>5, <2>6, ReservaSigue
  <2>. QED BY <1>1, <2>1, <2>7 DEF Alcanza
<1>10. ASSUME NEW h \in Hilos,
              \/ LeerDireccion(h) \/ Tomar(h) \/ incorporar_marco(h)
              \/ obtener_marco_libre_fisico(h) \/ reemplazo_por_clock(h) \/ Cambiar(h) \/ Traer(h) \/ Copiar(h)
       PROVE  Alcanza'
  <2>1. Reserva' /\ caida' \in {caida, "no"} \union CaidasDeAcceso BY <1>1, <1>10, ReservaAcceso
  <2>. QED BY <1>1, <2>1 DEF Alcanza, CaidasDeAcceso
<1>. QED BY <1>2, <1>3, <1>4, <1>5, <1>6, <1>7, <1>8, <1>9, <1>10 DEF Next

\* The pages that were counted are there, in every state.
LEMMA AlcanzaSiempre == Spec => []Alcanza
<1>1. Init => Alcanza BY DEF Init, Alcanza, Reserva
<1>2. Alcanza /\ UNCHANGED vars => Alcanza'
  <2>1. SUFFICES ASSUME Alcanza, UNCHANGED vars PROVE Alcanza' OBVIOUS
  <2>2. UNCHANGED <<patotas, faltan, hilos, mapa_logico, caida>> BY <2>1 DEF vars, orden
  <2>. QED BY <2>1, <2>2 DEF Alcanza, Reserva, Reservadas, SoloAvance, Techo, frames_necesarios, Libres
<1>3. Invariante /\ Alcanza /\ [Next]_vars => Alcanza' BY <1>2, AlcanzaNext
<1>. QED BY <1>1, <1>3, PaginasInvariante, PTL DEF Spec

\* INIT_P asks once for the pages of the patota and of all its trips, and each INIT_T takes
\* its own without asking: it always finds them, whatever the trips do in between and
\* wherever in a page each one begins.
THEOREM PaginasAlcanzan == Spec => []MarcosAlcanzan
<1>1. Alcanza => MarcosAlcanzan BY DEF Alcanza, MarcosAlcanzan
<1>. QED BY <1>1, AlcanzaSiempre, PTL

==============================================================================
