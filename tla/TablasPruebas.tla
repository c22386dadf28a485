---------------------------- MODULE TablasPruebas -----------------------------
(***************************************************************************)
(* Proofs about the page tables of the RAM process, for any sizes of the   *)
(* memory and of a page, any numbers of patotas and trips, and any order   *)
(* of the expulsions: how far the table of a patota reaches.               *)
(*                                                                         *)
(* Cubierta says where the trips of a patota are, how far its table        *)
(* reaches and what the messages under way, an expulsion among them, ask   *)
(* for; Explicada is what an access past the end of a table has behind it. *)
(* They are inductive together with Invariante of PaginasPruebas.          *)
(***************************************************************************)
EXTENDS PaginasPruebas

-----------------------------------------------------------------------------
(* The length of the page tables *)

\* Of a patota that ends inside a page, INIT_T counts all the pages that a trip needs.
LEMMA PaginasJustas ==
  ASSUME NEW u \in Nat, u % TAMANIO_PAGINA # 0
  PROVE  Techo(u + TAMANIO_TRIPULANTE)
           <= Techo(u) + frames_necesarios(TAMANIO_PAGINA - (u % TAMANIO_PAGINA), TAMANIO_TRIPULANTE)
<1>1. PICK P : P = TAMANIO_PAGINA OBVIOUS
<1>2. PICK T : T = TAMANIO_TRIPULANTE OBVIOUS
<1>3. PICK a : a = u \div P OBVIOUS
<1>4. PICK b : b = u % P OBVIOUS
<1>5. PICK c : c = T \div P OBVIOUS
<1>6. PICK d : d = T % P OBVIOUS
<1>7. P \in Nat /\ P > 0 /\ T \in Nat BY <1>1, <1>2, Tamanios
<1>8. a \in Nat /\ b \in 0 .. P - 1 /\ u = a * P + b /\ b # 0 BY <1>1, <1>3, <1>4, Division
<1>9. c \in Nat /\ d \in 0 .. P - 1 /\ T = c * P + d BY <1>1, <1>5, <1>6, <1>7, Division
<1>10. PICK n : n = c + (IF d > P - b THEN 1 ELSE 0) OBVIOUS
<1>11. frames_necesarios(TAMANIO_PAGINA - (u % TAMANIO_PAGINA), TAMANIO_TRIPULANTE) = n
  BY <1>1, <1>2, <1>4, <1>5, <1>6, <1>10 DEF frames_necesarios
<1>12. PICK f : f = Techo(u) OBVIOUS
<1>13. f = a + 1 BY <1>1, <1>3, <1>4, <1>8, <1>12 DEF Techo, frames_necesarios
<1>14. PICK y : y = u + T OBVIOUS
<1>15. PICK s : s = a + c OBVIOUS
<1>16. s \in Nat /\ y \in Nat /\ n \in Nat BY <1>7, <1>8, <1>9, <1>10, <1>14, <1>15
<1>17. a * P \in Int /\ c * P \in Int /\ s * P = a * P + c * P
  <2>1. a * P \in Int /\ c * P \in Int BY <1>7, <1>8, <1>9, ProductoMonotono
  <2>2. (a + c) * P = a * P + c * P BY <1>7, <1>8, <1>9
  <2>. QED BY <1>15, <2>1, <2>2
<1>18. y = s * P + (b + d) /\ s * P \in Int BY <1>7, <1>8, <1>9, <1>14, <1>17
<1>19. PICK r : r = s + 1 OBVIOUS
<1>20. r \in Nat /\ r * P = s * P + P /\ r * P \in Int BY <1>7, <1>16, <1>19, ProductoMonotono
<1>21. Techo(y) <= f + n
  <2>1. CASE d > P - b
    <3>1. PICK q : q = r + 1 OBVIOUS
    <3>2. q \in Nat /\ q * P = r * P + P /\ q * P \in Int BY <1>7, <1>20, <3>1, ProductoMonotono
    <3>3. y <= q * P BY <1>7, <1>8, <1>9, <1>18, <1>20, <3>2
    <3>4. Techo(y) <= q BY <1>1, <1>16, <3>2, <3>3, TechoMinimo
    <3>5. q = f + n BY <1>8, <1>9, <1>10, <1>13, <1>15, <1>19, <2>1, <3>1
    <3>. QED BY <3>4, <3>5
  <2>2. CASE ~(d > P - b)
    <3>1. y <= r * P BY <1>7, <1>8, <1>9, <1>18, <1>20, <2>2
    <3>2. Techo(y) <= r BY <1>1, <1>16, <1>20, <3>1, TechoMinimo
    <3>3. r = f + n BY <1>8, <1>9, <1>10, <1>13, <1>15, <1>19, <2>2
    <3>. QED BY <3>2, <3>3
  <2>. QED BY <2>1, <2>2
<1>. QED BY <1>2, <1>11, <1>12, <1>14, <1>21

\* where the k-th trip of a patota of b bytes begins, when nobody was expelled
Puesto(b, k) == b + k * TAMANIO_TRIPULANTE

\* l pages reach the end of each of the first n trips, if none before it begins where a page does
Larga(l, b, n) ==
  \A k \in 0 .. n :
    (\A j \in 0 .. k - 1 : Puesto(b, j) % TAMANIO_PAGINA # 0) => Techo(Puesto(b, k)) <= l

\* The trips follow each other.
LEMMA PuestoBien ==
  ASSUME NEW b \in Nat, NEW k \in Nat
  PROVE  /\ Puesto(b, k) \in Nat /\ b <= Puesto(b, k)
         /\ Puesto(b, k + 1) = Puesto(b, k) + TAMANIO_TRIPULANTE
         /\ \A j \in Nat : j <= k => Puesto(b, j) <= Puesto(b, k)
         /\ \A j \in Nat : j < k => Puesto(b, j) < Puesto(b, k)
<1>1. PICK T : T = TAMANIO_TRIPULANTE OBVIOUS
<1>2. T \in Nat /\ T > 0 BY <1>1, Tamanios
<1>3. k * T \in Nat BY <1>2
<1>4. (k + 1) * T = k * T + T BY <1>2, ProductoMonotono
<1>5. ASSUME NEW j \in Nat, j <= k PROVE j * T <= k * T /\ j * T \in Int BY <1>2, <1>5, ProductoMonotono
<1>6. ASSUME NEW j \in Nat, j < k PROVE j * T < k * T
  <2>1. j + 1 \in Int /\ j + 1 <= k BY <1>6
  <2>2. (j + 1) * T <= k * T BY <1>2, <2>1, ProductoMonotono
  <2>3. (j + 1) * T = j * T + T /\ j * T \in Int BY <1>2, <1>5, <1>6, ProductoMonotono
  <2>. QED BY <1>2, <1>3, <2>2, <2>3
<1>. QED BY <1>1, <1>2, <1>3, <1>4, <1>5, <1>6 DEF Puesto

\* A patota with a trip more, and the pages that INIT_T counts for it.
LEMMA LargaMas ==
  ASSUME NEW l \in Nat, NEW b \in Nat, NEW n \in Nat, Larga(l, b, n), NEW u, u = Puesto(b, n), NEW m,
         m = l + frames_necesarios(TAMANIO_PAGINA - (u % TAMANIO_PAGINA), TAMANIO_TRIPULANTE)
  PROVE  Larga(m, b, n + 1)
<1>1. PICK c : c = frames_necesarios(TAMANIO_PAGINA - (u % TAMANIO_PAGINA), TAMANIO_TRIPULANTE) OBVIOUS
<1>2. u \in Nat /\ c \in Nat BY <1>1, PuestoBien, PaginasDelTrip
<1>3. SUFFICES ASSUME NEW k \in 0 .. n + 1, \A j \in 0 .. k - 1 : Puesto(b, j) % TAMANIO_PAGINA # 0
               PROVE  Techo(Puesto(b, k)) <= m
  BY DEF Larga
<1>4. CASE k \in 0 .. n
  <2>1. Techo(Puesto(b, k)) <= l BY <1>3, <1>4 DEF Larga
  <2>2. Techo(Puesto(b, k)) \in Nat
    <3>1. k \in Nat BY <1>3
    <3>2. Puesto(b, k) \in Nat BY <3>1, PuestoBien
    <3>. QED BY <3>2, TechoBien
  <2>. QED BY <1>1, <1>2, <2>1, <2>2
<1>5. CASE k = n + 1
  <2>1. n \in 0 .. n /\ n \in 0 .. k - 1 BY <1>5
  <2>2. \A j \in 0 .. n - 1 : Puesto(b, j) % TAMANIO_PAGINA # 0 BY <1>3, <1>5
  <2>3. Techo(u) <= l BY <2>1, <2>2 DEF Larga
  <2>4. u % TAMANIO_PAGINA # 0 BY <1>3, <2>1
  <2>5. Techo(u + TAMANIO_TRIPULANTE) <= Techo(u) + c BY <1>1, <1>2, <2>4, PaginasJustas
  <2>6. Puesto(b, k) = u + TAMANIO_TRIPULANTE BY <1>5, PuestoBien
  <2>7. Techo(u) \in Nat /\ Techo(u + TAMANIO_TRIPULANTE) \in Nat BY <1>2, TechoBien, Tamanios
  <2>. QED BY <1>1, <1>2, <2>3, <2>5, <2>6, <2>7
<1>. QED BY <1>4, <1>5

\* A patota with a trip less, and the pages that reasignar_frames leaves it.
LEMMA LargaMenos ==
  ASSUME NEW l \in Nat, NEW b \in Nat, NEW n \in Nat, Larga(l, b, n + 1), NEW m \in Nat,
         m = l \/ m = Techo(Puesto(b, n))
  PROVE  Larga(m, b, n)
<1>1. SUFFICES ASSUME NEW k \in 0 .. n, \A j \in 0 .. k - 1 : Puesto(b, j) % TAMANIO_PAGINA # 0
               PROVE  Techo(Puesto(b, k)) <= m
  BY DEF Larga
<1>2. k \in 0 .. n + 1 OBVIOUS
<1>3. Techo(Puesto(b, k)) <= l BY <1>1, <1>2 DEF Larga
<1>4. Puesto(b, k) \in Nat /\ Puesto(b, n) \in Nat /\ Puesto(b, k) <= Puesto(b, n)
  <2>1. k \in Nat /\ k <= n OBVIOUS
  <2>. QED BY <2>1, PuestoBien
<1>5. Techo(Puesto(b, k)) <= Techo(Puesto(b, n)) BY <1>4, TechoMonotono
<1>. QED BY <1>3, <1>5

\* the bytes of the control block and the tasks, and the trips that were not expelled
Base(p) == TAMANIO_PATOTA + patotas[p].tareas
Vivos(p) == {t \in 1 .. MaxTripulantes : <<p, t>> \in tripulantes}

\* The memory of a patota is that of its trips, and its table reaches the end of each.
Fila(p) ==
  /\ patotas[p].memoria_ocupada = Puesto(Base(p), Cardinality(Vivos(p)))
  /\ Larga(Len(patotas[p].frames), Base(p), Cardinality(Vivos(p)))
Filas == \A p \in 1 .. Len(patotas) : Fila(p)

\* The trips of a patota are a finite set.
LEMMA VivosBien ==
  ASSUME NEW p
  PROVE  /\ IsFiniteSet(Vivos(p)) /\ Cardinality(Vivos(p)) \in Nat /\ Cardinality(Vivos(p)) <= MaxTripulantes
         /\ \A t \in Vivos(p) : t \in Nat /\ t \in 1 .. MaxTripulantes /\ <<p, t>> \in tripulantes
<1>1. MaxTripulantes \in Nat BY Tamanios
<1>2. PICK N : N = 1 .. MaxTripulantes OBVIOUS
<1>3. IsFiniteSet(N) /\ Cardinality(N) = MaxTripulantes
  <2>1. IsFiniteSet(1 .. MaxTripulantes) BY <1>1, FS_Interval
  <2>2. Cardinality(1 .. MaxTripulantes) = IF 1 > MaxTripulantes THEN 0 ELSE MaxTripulantes - 1 + 1
    BY <1>1, FS_Interval
  <2>. QED BY <1>1, <1>2, <2>1, <2>2
<1>4. Vivos(p) \in SUBSET N BY <1>2 DEF Vivos
<1>5. IsFiniteSet(Vivos(p)) /\ Cardinality(Vivos(p)) <= Cardinality(N) BY <1>3, <1>4, FS_Subset
<1>6. Cardinality(Vivos(p)) \in Nat BY <1>5, FS_CardinalityType
<1>. QED BY <1>1, <1>3, <1>5, <1>6 DEF Vivos

\* A trip comes.
LEMMA VivosMas ==
  ASSUME NEW p, NEW t \in 1 .. MaxTripulantes, <<p, t>> \notin tripulantes,
         tripulantes' = tripulantes \union {<<p, t>>}
  PROVE  /\ Vivos(p)' = Vivos(p) \union {t} /\ Cardinality(Vivos(p)') = Cardinality(Vivos(p)) + 1
         /\ \A q : q # p => Vivos(q)' = Vivos(q)
<1>1. Vivos(p)' = Vivos(p) \union {t} BY DEF Vivos
<1>2. t \notin Vivos(p) BY DEF Vivos
<1>3. Cardinality(Vivos(p) \union {t}) = Cardinality(Vivos(p)) + 1 BY <1>2, VivosBien, FS_AddElement
<1>4. \A q : q # p => Vivos(q)' = Vivos(q) BY DEF Vivos
<1>. QED BY <1>1, <1>3, <1>4

\* A trip goes.
LEMMA VivosMenos ==
  ASSUME NEW p, NEW t, t \in Vivos(p), tripulantes' = tripulantes \ {<<p, t>>}
  PROVE  /\ Vivos(p)' = Vivos(p) \ {t} /\ Cardinality(Vivos(p)) = Cardinality(Vivos(p)') + 1
         /\ Cardinality(Vivos(p)') \in Nat
         /\ \A q : q # p => Vivos(q)' = Vivos(q)
<1>1. Vivos(p)' = Vivos(p) \ {t} BY DEF Vivos
<1>2. IsFiniteSet(Vivos(p)) /\ Cardinality(Vivos(p)) \in Nat BY VivosBien
<1>3. IsFiniteSet(Vivos(p) \ {t}) /\ Cardinality(Vivos(p) \ {t}) = Cardinality(Vivos(p)) - 1
  BY <1>2, FS_RemoveElement
<1>4. Cardinality(Vivos(p) \ {t}) \in Nat BY <1>3, FS_CardinalityType
<1>5. \A q : q # p => Vivos(q)' = Vivos(q) BY DEF Vivos
<1>. QED BY <1>1, <1>2, <1>3, <1>4, <1>5

\* The bytes of a patota are a natural.
LEMMA BaseBien ==
  ASSUME TiposPatotas, NEW p \in 1 .. Len(patotas)
  PROVE  /\ patotas[p] \in Patota /\ Base(p) \in Nat /\ Base(p) >= TAMANIO_PATOTA
         /\ Len(patotas[p].frames) \in Nat
<1>1. patotas[p] \in Patota BY DEF TiposPatotas
<1>2. patotas[p].tareas \in Nat BY <1>1, Tamanios DEF Patota
<1>3. Len(patotas[p].frames) \in Nat BY <1>1 DEF Patota
<1>. QED BY <1>1, <1>2, <1>3, Tamanios DEF Base

\* The entries that do not change, and whose trips do not, are as they were.
LEMMA FilaIgual ==
  ASSUME NEW p, Fila(p), Len(patotas'[p].frames) = Len(patotas[p].frames), patotas'[p].tareas = patotas[p].tareas,
         patotas'[p].memoria_ocupada = patotas[p].memoria_ocupada, Vivos(p)' = Vivos(p)
  PROVE  Fila(p)'
<1>1. Base(p)' = Base(p) BY DEF Base
<1>2. PICK b : b = Base(p) OBVIOUS
<1>3. PICK n : n = Cardinality(Vivos(p)) OBVIOUS
<1>4. PICK l : l = Len(patotas[p].frames) OBVIOUS
<1>5. patotas[p].memoria_ocupada = Puesto(b, n) /\ Larga(l, b, n) BY <1>2, <1>3, <1>4 DEF Fila
<1>6. /\ patotas'[p].memoria_ocupada = Puesto(b, n) /\ Base(p)' = b /\ Cardinality(Vivos(p))' = n
      /\ Len(patotas'[p].frames) = l
  BY <1>1, <1>2, <1>3, <1>4, <1>5
<1>7. Larga(Len(patotas'[p].frames), Base(p)', Cardinality(Vivos(p))') BY <1>5, <1>6
<1>8. patotas'[p].memoria_ocupada = Puesto(Base(p)', Cardinality(Vivos(p))') BY <1>6
<1>. QED BY <1>7, <1>8 DEF Fila, Larga, Puesto, Techo, frames_necesarios

\* The patota that INIT_P adds, and the others, which stay as they are.
LEMMA PatotaAceptada ==
  ASSUME TiposPatotas, TiposMarcos, NEW n \in 1 .. MaxTripulantes, NEW tareas \in TamaniosTareas,
         INIT_P(n, tareas), AceptarPatota(n, tareas),
         NEW p, p = Len(patotas) + 1, NEW u, u = TAMANIO_PATOTA + tareas
  PROVE  /\ p \in Nat /\ u \in Nat /\ Len(patotas) \in Nat /\ Len(patotas') = p
         /\ patotas'[p].memoria_ocupada = u /\ patotas'[p].tareas = tareas
         /\ Len(patotas'[p].frames) = Techo(u) /\ patotas'[p].inicio = [t \in 1 .. n |-> 0]
         /\ \A q \in 1 .. Len(patotas) : patotas'[q] = patotas[q]
         /\ UNCHANGED <<tripulantes, caida>> /\ faltan = 0 /\ faltan' = n /\ Ocioso(Principal)
<1>1. PICK c : c = frames_necesarios(0, u) OBVIOUS
<1>2. PICK f : f = [frames |-> <<>>, memoria_ocupada |-> u, tareas |-> tareas, inicio |-> [t \in 1 .. n |-> 0]]
  OBVIOUS
<1>3. PICK e : e = Elegidos(mapa_logico, c) OBVIOUS
<1>4. /\ asignar_frames(p, c, f) /\ Cabe(n, tareas) /\ UNCHANGED <<tripulantes, caida>>
      /\ faltan = 0 /\ faltan' = n /\ Ocioso(Principal)
  BY <1>1, <1>2 DEF AceptarPatota, INIT_P
<1>5. /\ patotas \in Seq(Patota) /\ Len(patotas) \in Nat /\ p \in 1 .. Len(patotas) + 1 /\ p > Len(patotas)
      /\ p \in Nat /\ u \in Nat
  BY Tamanios DEF TiposPatotas
<1>6. f \in Patota /\ f.memoria_ocupada = u /\ f.tareas = tareas /\ f.frames = << >> /\ f.inicio = [t \in 1 .. n |-> 0]
  <2>1. f \in Patota BY <1>2, FilaNueva
  <2>. QED BY <1>2, <2>1
<1>7. c \in Nat /\ c <= Cardinality(Libres(mapa_logico)) BY <1>1, <1>4, PatotaCabe
<1>8. Len(patotas') = p BY <1>3, <1>4, <1>5, <1>6, <1>7, AsignarBien
<1>9. /\ patotas'[p].memoria_ocupada = u /\ patotas'[p].tareas = tareas
      /\ patotas'[p].inicio = [t \in 1 .. n |-> 0]
  BY <1>3, <1>4, <1>5, <1>6, <1>7, AsignarBien
<1>10. \A q \in 1 .. Len(patotas) : q # p => patotas'[q] = patotas[q]
  BY <1>3, <1>4, <1>5, <1>6, <1>7, AsignarBien
<1>11. Len(patotas'[p].frames) = c
  <2>1. patotas'[p].frames = Sumados(<< >>, e) BY <1>3, <1>4, <1>5, <1>6, <1>7, AsignarBien
  <2>2. e \in Seq(Marcos) /\ Len(e) = c BY <1>3, <1>7, ElegidosBien
  <2>3. Sumados(<< >>, e) = e BY <2>2 DEF Sumados
  <2>. QED BY <2>1, <2>2, <2>3
<1>12. c = Techo(u) BY <1>1 DEF Techo
<1>. QED BY <1>4, <1>5, <1>8, <1>9, <1>10, <1>11, <1>12

\* It has no trips yet.
LEMMA VivosAceptada ==
  ASSUME TiposPatotas, NEW p, p = Len(patotas) + 1, UNCHANGED tripulantes
  PROVE  Vivos(p)' = {} /\ \A q : Vivos(q)' = Vivos(q)
<1>1. Len(patotas) \in Nat BY DEF TiposPatotas
<1>2. \A t : <<p, t>> \notin tripulantes BY <1>1 DEF TiposPatotas, Existen
<1>. QED BY <1>2 DEF Vivos

\* Its table reaches the end of its tasks.
LEMMA FilasAceptada ==
  ASSUME Tipos, Filas, NEW n \in 1 .. MaxTripulantes, NEW tareas \in TamaniosTareas, INIT_P(n, tareas),
         AceptarPatota(n, tareas)
  PROVE  Filas'
<1>1. PICK p : p = Len(patotas) + 1 OBVIOUS
<1>2. PICK u : u = TAMANIO_PATOTA + tareas OBVIOUS
<1>3. TiposPatotas /\ TiposMarcos BY DEF Tipos
<1>4. /\ p \in Nat /\ u \in Nat /\ Len(patotas) \in Nat /\ Len(patotas') = p
      /\ patotas'[p].memoria_ocupada = u /\ patotas'[p].tareas = tareas /\ Len(patotas'[p].frames) = Techo(u)
      /\ \A q \in 1 .. Len(patotas) : patotas'[q] = patotas[q]
      /\ UNCHANGED tripulantes
  <2>1. p \in Nat /\ u \in Nat /\ Len(patotas) \in Nat /\ Len(patotas') = p /\ UNCHANGED tripulantes
    BY <1>1, <1>2, <1>3, PatotaAceptada
  <2>2. patotas'[p].memoria_ocupada = u /\ patotas'[p].tareas = tareas /\ Len(patotas'[p].frames) = Techo(u)
    BY <1>1, <1>2, <1>3, PatotaAceptada
  <2>3. \A q \in 1 .. Len(patotas) : patotas'[q] = patotas[q] BY <1>1, <1>2, <1>3, PatotaAceptada
  <2>. QED BY <2>1, <2>2, <2>3
<1>5. Vivos(p)' = {} /\ \A q : Vivos(q)' = Vivos(q) BY <1>1, <1>3, <1>4, VivosAceptada
<1>6. Fila(p)'
  <2>1. Cardinality(Vivos(p)') = 0 BY <1>5, FS_EmptySet
  <2>2. Base(p)' = u BY <1>2, <1>4 DEF Base
  <2>3. Puesto(u, 0) = u /\ Larga(Techo(u), u, 0)
    <3>1. 0 * TAMANIO_TRIPULANTE = 0 BY Tamanios
    <3>2. Puesto(u, 0) = u BY <1>4, <3>1 DEF Puesto
    <3>3. Techo(u) \in Nat BY <1>4, TechoBien
    <3>4. \A k \in 0 .. 0 : k = 0 OBVIOUS
    <3>. QED BY <3>2, <3>3, <3>4 DEF Larga
  <2>. QED BY <1>4, <2>1, <2>2, <2>3 DEF Fila, Larga, Puesto, Techo, frames_necesarios
<1>7. ASSUME NEW q \in 1 .. Len(patotas) PROVE Fila(q)' BY <1>4, <1>5, FilaIgual DEF Filas
<1>. QED BY <1>1, <1>4, <1>6, <1>7 DEF Filas

\* INIT_T adds a trip at the end, and the pages that it counts.
LEMMA FilasInitT ==
  ASSUME Tipos, Nuevos, Filas, INIT_T, NEW p, p = Len(patotas),
         ~(FramesDelTrip(p) > Cardinality(Libres(mapa_logico)))
  PROVE  Filas'
<1>1. PICK t : t = Len(patotas[p].inicio) - faltan + 1 OBVIOUS
<1>2. TiposPatotas /\ TiposMarcos /\ SinHilo /\ faltan > 0 BY DEF Tipos, Nuevos, INIT_T
<1>3. PICK e : e = Elegidos(mapa_logico, FramesDelTrip(p)) OBVIOUS
<1>4. /\ p \in 1 .. Len(patotas) /\ p \in Nat /\ t \in 1 .. MaxTripulantes /\ <<p, t>> \in Trips
      /\ patotas[p] \in Patota /\ FramesDelTrip(p) \in Nat
  <2>1. p \in Nat /\ p \in 1 .. Len(patotas) BY <1>1, <1>2, TripNuevo
  <2>2. t \in 1 .. MaxTripulantes /\ <<p, t>> \in Trips BY <1>1, <1>2, TripNuevo
  <2>3. patotas[p] \in Patota /\ FramesDelTrip(p) \in Nat BY <1>1, <1>2, TripNuevo
  <2>. QED BY <2>1, <2>2, <2>3
<1>5. <<p, t>> \notin tripulantes
  <2>1. t \in Nat /\ faltan \in Nat BY <1>2, <1>4, Tamanios DEF TiposPatotas
  <2>2. Len(patotas[p].inicio) \in Nat BY <1>4 DEF Patota
  <2>3. t > Len(patotas[p].inicio) - faltan BY <1>1, <1>2, <2>1, <2>2
  <2>4. Sin(p, t) BY <2>3 DEF Sin
  <2>. QED BY <1>2, <1>4, <2>4 DEF SinHilo
<1>6. /\ Len(patotas') = p /\ tripulantes' = tripulantes \union {<<p, t>>}
      /\ patotas'[p].tareas = patotas[p].tareas
      /\ patotas'[p].memoria_ocupada = patotas[p].memoria_ocupada + TAMANIO_TRIPULANTE
      /\ patotas'[p].frames = Sumados(patotas[p].frames, e) /\ e \in Seq(Marcos) /\ Len(e) = FramesDelTrip(p)
      /\ \A q \in 1 .. Len(patotas) : q # p => patotas'[q] = patotas[q]
  <2>1. Len(patotas') = p /\ tripulantes' = tripulantes \union {<<p, t>>} BY <1>1, <1>2, <1>3, TripAceptado
  <2>2. /\ patotas'[p].tareas = patotas[p].tareas
        /\ patotas'[p].memoria_ocupada = patotas[p].memoria_ocupada + TAMANIO_TRIPULANTE
    BY <1>1, <1>2, <1>3, TripAceptado
  <2>3. patotas'[p].frames = Sumados(patotas[p].frames, e) BY <1>1, <1>2, <1>3, TripAceptado
  <2>4. e \in Seq(Marcos) /\ Len(e) = FramesDelTrip(p) BY <1>1, <1>2, <1>3, TripAceptado
  <2>5. \A q \in 1 .. Len(patotas) : q # p => patotas'[q] = patotas[q] BY <1>1, <1>2, <1>3, TripAceptado
  <2>. QED BY <2>1, <2>2, <2>3, <2>4, <2>5
<1>7. PICK n : n = Cardinality(Vivos(p)) OBVIOUS
<1>8. /\ n \in Nat /\ Cardinality(Vivos(p)') = n + 1 /\ \A q : q # p => Vivos(q)' = Vivos(q)
  BY <1>4, <1>5, <1>6, <1>7, VivosBien, VivosMas
<1>9. PICK b : b = Base(p) OBVIOUS
<1>10. PICK l : l = Len(patotas[p].frames) OBVIOUS
<1>11. b \in Nat /\ l \in Nat BY <1>2, <1>4, <1>9, <1>10, BaseBien
<1>12. PICK u : u = patotas[p].memoria_ocupada OBVIOUS
<1>13. u = Puesto(b, n) /\ Larga(l, b, n) BY <1>4, <1>7, <1>9, <1>10, <1>12 DEF Filas, Fila
<1>14. Fila(p)'
  <2>1. Len(patotas'[p].frames) = l + FramesDelTrip(p)
    <3>1. patotas[p].frames \in Seq(Marcos) BY <1>4 DEF Patota
    <3>2. Len(Sumados(patotas[p].frames, e)) = Len(patotas[p].frames) + Len(e)
      BY <1>6, <3>1, ConcatProperties DEF Sumados
    <3>. QED BY <1>6, <1>10, <3>2
  <2>2. PICK m : m = Len(patotas'[p].frames) OBVIOUS
  <2>3. m = l + frames_necesarios(TAMANIO_PAGINA - (u % TAMANIO_PAGINA), TAMANIO_TRIPULANTE)
    BY <1>12, <2>1, <2>2 DEF FramesDelTrip, EspacioOcupado
  <2>4. Larga(m, b, n + 1) BY <1>8, <1>11, <1>13, <2>3, LargaMas
  <2>5. patotas'[p].memoria_ocupada = Puesto(b, n + 1) BY <1>6, <1>8, <1>11, <1>12, <1>13, PuestoBien
  <2>6. Base(p)' = b BY <1>6, <1>9 DEF Base
  <2>. QED BY <1>8, <2>2, <2>4, <2>5, <2>6 DEF Fila, Larga, Puesto, Techo, frames_necesarios
<1>15. ASSUME NEW q \in 1 .. Len(patotas), q # p PROVE Fila(q)' BY <1>6, <1>8, <1>15, FilaIgual DEF Filas
<1>. QED BY <1>6, <1>14, <1>15 DEF Filas

\* A trip moves down: the entry keeps its pages.
LEMMA FilasCorrer ==
  ASSUME Tipos, Filas, Correr
  PROVE  Filas'
<1>1. PICK a : a = Siguiente(Principal) OBVIOUS
<1>2. /\ Len(patotas') = Len(patotas) /\ patotas'[a.p].frames = patotas[a.p].frames
      /\ patotas'[a.p].tareas = patotas[a.p].tareas
      /\ patotas'[a.p].memoria_ocupada = patotas[a.p].memoria_ocupada
      /\ \A q \in 1 .. Len(patotas) : q # a.p => patotas'[q] = patotas[q]
  BY <1>1, CorrerHace
<1>3. UNCHANGED tripulantes BY DEF Correr
<1>4. ASSUME NEW q \in 1 .. Len(patotas) PROVE Fila(q)'
  <2>1. Vivos(q)' = Vivos(q) BY <1>3 DEF Vivos
  <2>2. /\ Len(patotas'[q].frames) = Len(patotas[q].frames) /\ patotas'[q].tareas = patotas[q].tareas
        /\ patotas'[q].memoria_ocupada = patotas[q].memoria_ocupada
    BY <1>2
  <2>. QED BY <2>1, <2>2, FilaIgual DEF Filas
<1>. QED BY <1>2, <1>4 DEF Filas

\* An expelled trip gives back the pages that its patota does not need any more.
LEMMA FilasSoltar ==
  ASSUME Tipos, Filas, Soltar, NEW a, a = Siguiente(Principal), a.t \in Vivos(a.p)
  PROVE  Filas'
<1>1. PICK x : x = patotas[a.p].memoria_ocupada - TAMANIO_TRIPULANTE OBVIOUS
<1>2. PICK p : p = a.p OBVIOUS
<1>3. /\ p \in 1 .. Len(patotas) /\ x \in Int /\ Len(patotas') = Len(patotas)
      /\ patotas'[p].tareas = patotas[p].tareas /\ patotas'[p].memoria_ocupada = x
      /\ patotas'[p].frames = SubSeq(patotas[p].frames, 1, Quedan(p, x))
      /\ \A q \in 1 .. Len(patotas) : q # p => patotas'[q] = patotas[q]
  BY <1>1, <1>2, SoltarHace
<1>4. tripulantes' = tripulantes \ {<<p, a.t>>} /\ a.t \in Vivos(p) BY <1>2 DEF Soltar
<1>5. PICK n : n = Cardinality(Vivos(p)') OBVIOUS
<1>6. n \in Nat /\ Cardinality(Vivos(p)) = n + 1 /\ \A q : q # p => Vivos(q)' = Vivos(q)
  BY <1>4, <1>5, VivosMenos
<1>7. PICK b : b = Base(p) OBVIOUS
<1>8. PICK l : l = Len(patotas[p].frames) OBVIOUS
<1>9. b \in Nat /\ l \in Nat /\ patotas[p] \in Patota
  <2>1. TiposPatotas BY DEF Tipos
  <2>. QED BY <1>3, <1>7, <1>8, <2>1, BaseBien
<1>10. patotas[p].memoria_ocupada = Puesto(b, n + 1) /\ Larga(l, b, n + 1) BY <1>3, <1>6, <1>7, <1>8 DEF Filas, Fila
<1>11. x = Puesto(b, n) /\ x \in Nat
  <2>1. Puesto(b, n) \in Nat /\ Puesto(b, n + 1) = Puesto(b, n) + TAMANIO_TRIPULANTE BY <1>6, <1>9, PuestoBien
  <2>. QED BY <1>1, <1>2, <1>10, <2>1, Tamanios
<1>12. Fila(p)'
  <2>1. PICK m : m = Quedan(p, x) OBVIOUS
  <2>2. m \in Nat /\ m <= l /\ (m = l \/ m = Techo(Puesto(b, n)))
    <3>1. Techo(x) \in Nat BY <1>11, TechoBien
    <3>. QED BY <1>8, <1>9, <1>11, <2>1, <3>1 DEF Quedan
  <2>3. Len(patotas'[p].frames) = m
    <3>1. patotas[p].frames \in Seq(Marcos) BY <1>9 DEF Patota
    <3>2. Len(SubSeq(patotas[p].frames, 1, m)) = m BY <1>8, <1>9, <2>2, <3>1
    <3>. QED BY <1>3, <2>1, <3>2
  <2>4. Larga(m, b, n) BY <1>6, <1>9, <1>10, <2>2, LargaMenos
  <2>5. Base(p)' = b BY <1>3, <1>7 DEF Base
  <2>. QED BY <1>3, <1>5, <1>11, <2>3, <2>4, <2>5 DEF Fila, Larga, Puesto, Techo, frames_necesarios
<1>13. ASSUME NEW q \in 1 .. Len(patotas), q # p PROVE Fila(q)' BY <1>3, <1>6, <1>13, FilaIgual DEF Filas
<1>. QED BY <1>3, <1>12, <1>13 DEF Filas

\* Steps that leave the entries and the trips alone.
LEMMA FilasQuietas ==
  ASSUME Filas, UNCHANGED <<patotas, tripulantes>>
  PROVE  Filas'
<1>1. ASSUME NEW q \in 1 .. Len(patotas) PROVE Fila(q)'
  <2>1. Vivos(q)' = Vivos(q) BY DEF Vivos
  <2>. QED BY <2>1, FilaIgual DEF Filas
<1>. QED BY <1>1 DEF Filas

-----------------------------------------------------------------------------
(* The order of an expulsion *)

\* a is inside the first x bytes of its patota
Dentro(a, x) == 0 <= a.desde /\ a.desde + a.bytes <= x

\* The steps of an expulsion that are left in c: one trip goes, after those that are behind it
\* have moved down, once each.
EnOrden(c) ==
  /\ \A i \in DOMAIN c : c[i].tipo \in {"correr", "soltar"} => <<c[i].p, c[i].t>> \in tripulantes
  /\ \A i, j \in DOMAIN c : c[i].tipo = "soltar" =>
       /\ c[j].tipo = "correr" => j < i /\ c[j].p = c[i].p /\ c[i].t < c[j].t
       /\ c[j].tipo = "soltar" => j = i
  /\ \A i \in DOMAIN c : c[i].tipo = "correr" =>
       /\ \E j \in DOMAIN c : c[j].tipo = "soltar"
       /\ \A j \in DOMAIN c : c[j].tipo = "correr" /\ c[j].t = c[i].t => i = j

\* The accesses that are left in c are to trips that stay, or inside their patota, which
\* those after the step that frees a trip are still when it is smaller.
Alcances(c) ==
  \A i \in DOMAIN c : c[i].tipo \in Memoria =>
    /\ c[i].t # 0 =>
         /\ <<c[i].p, c[i].t>> \in tripulantes
         /\ \A j \in DOMAIN c : c[j].tipo = "soltar" => <<c[j].p, c[j].t>> # <<c[i].p, c[i].t>>
    /\ c[i].t = 0 =>
         /\ Dentro(c[i], patotas[c[i].p].memoria_ocupada)
         /\ Dentro(c[i], Base(c[i].p)) \/ \A j \in 1 .. i - 1 : c[j].tipo # "soltar"

\* a step of the expulsion of trip t of p is left
Queda(c, tipo, p, t) == \E i \in DOMAIN c : c[i].tipo = tipo /\ c[i].p = p /\ c[i].t = t

\* a sequence whose first element was replaced by those of w
Relevo(c, w, v) ==
  /\ \A i \in DOMAIN v :
       \/ i \in DOMAIN w /\ v[i] = w[i]
       \/ i > Len(w) /\ i - Len(w) + 1 \in DOMAIN c /\ i - Len(w) + 1 # 1 /\ v[i] = c[i - Len(w) + 1]
  /\ \A j \in DOMAIN c : j # 1 => j + Len(w) - 1 \in DOMAIN v /\ v[j + Len(w) - 1] = c[j]

\* Joining w and the rest of c replaces its first element.
LEMMA RelevoBien ==
  ASSUME NEW S, NEW c \in Seq(S), c # << >>, NEW w \in Seq(S), NEW v, v = w \o Tail(c)
  PROVE  Relevo(c, w, v) /\ v \in Seq(S) /\ Len(w) \in Nat
<1>1. /\ v \in Seq(S) /\ Len(v) = Len(w) + Len(c) - 1 /\ Len(w) \in Nat /\ Len(c) \in Nat \ {0}
      /\ \A i \in 1 .. Len(v) : IF i <= Len(w) THEN i \in 1 .. Len(w) /\ v[i] = w[i]
                                ELSE i - Len(w) + 1 \in 2 .. Len(c) /\ v[i] = c[i - Len(w) + 1]
  BY Cola
<1>2. DOMAIN v = 1 .. Len(v) /\ DOMAIN w = 1 .. Len(w) /\ DOMAIN c = 1 .. Len(c) BY <1>1
<1>3. ASSUME NEW i \in DOMAIN v
      PROVE  \/ i \in DOMAIN w /\ v[i] = w[i]
             \/ i > Len(w) /\ i - Len(w) + 1 \in DOMAIN c /\ i - Len(w) + 1 # 1 /\ v[i] = c[i - Len(w) + 1]
  BY <1>1, <1>2
<1>4. ASSUME NEW j \in DOMAIN c, j # 1 PROVE j + Len(w) - 1 \in DOMAIN v /\ v[j + Len(w) - 1] = c[j]
  <2>1. PICK i : i = j + Len(w) - 1 OBVIOUS
  <2>2. i \in 1 .. Len(v) /\ ~(i <= Len(w)) /\ i - Len(w) + 1 = j BY <1>1, <1>2, <1>4, <2>1
  <2>3. v[i] = c[i - Len(w) + 1] BY <1>1, <2>2
  <2>. QED BY <1>2, <2>1, <2>2, <2>3
<1>. QED BY <1>1, <1>3, <1>4 DEF Relevo

\* A step of the main loop that is not one of an expulsion leaves the order of its steps.
LEMMA OrdenRelevo ==
  ASSUME NEW S, NEW c \in Seq(S), c # << >>, NEW w \in Seq(S), NEW v \in Seq(S), Relevo(c, w, v),
         c[1].tipo \notin {"correr", "soltar"}, \A i \in DOMAIN w : w[i].tipo \in Memoria
  PROVE  /\ EnOrden(c) => EnOrden(v)
         /\ \A tipo \in {"correr", "soltar"} : \A p, t : Queda(v, tipo, p, t) <=> Queda(c, tipo, p, t)
<1>1. PICK d : d = Len(w) - 1 OBVIOUS
<1>2. d \in Int /\ DOMAIN c \subseteq Int /\ DOMAIN v \subseteq Int /\ 1 \in DOMAIN c BY <1>1
<1>3. "correr" \notin Memoria /\ "soltar" \notin Memoria BY DEF Memoria
<1>4. ASSUME NEW i \in DOMAIN v, v[i].tipo \in {"correr", "soltar"}
      PROVE  i - d \in DOMAIN c /\ v[i] = c[i - d]
  <2>1. ~(i \in DOMAIN w /\ v[i] = w[i]) BY <1>3, <1>4
  <2>2. i - Len(w) + 1 \in DOMAIN c /\ v[i] = c[i - Len(w) + 1] BY <2>1 DEF Relevo
  <2>3. i - Len(w) + 1 = i - d BY <1>1, <1>2
  <2>. QED BY <2>2, <2>3
<1>5. ASSUME NEW j \in DOMAIN c, c[j].tipo \in {"correr", "soltar"}
      PROVE  j + d \in DOMAIN v /\ v[j + d] = c[j]
  <2>1. j # 1 BY <1>5
  <2>2. j + Len(w) - 1 \in DOMAIN v /\ v[j + Len(w) - 1] = c[j] BY <2>1 DEF Relevo
  <2>3. j + Len(w) - 1 = j + d BY <1>1, <1>2
  <2>. QED BY <2>2, <2>3
<1>6. ASSUME EnOrden(c) PROVE EnOrden(v)
  <2>1. \A i \in DOMAIN v : v[i].tipo \in {"correr", "soltar"} => <<v[i].p, v[i].t>> \in tripulantes
    BY <1>4, <1>6 DEF EnOrden
  <2>2. ASSUME NEW i \in DOMAIN v, NEW j \in DOMAIN v, v[i].tipo = "soltar"
        PROVE  /\ v[j].tipo = "correr" => j < i /\ v[j].p = v[i].p /\ v[i].t < v[j].t
               /\ v[j].tipo = "soltar" => j = i
    <3>1. i - d \in DOMAIN c /\ v[i] = c[i - d] BY <1>4, <2>2
    <3>2. v[j].tipo \in {"correr", "soltar"} => j - d \in DOMAIN c /\ v[j] = c[j - d] BY <1>4
    <3>3. v[j].tipo = "correr" => j - d < i - d /\ v[j].p = v[i].p /\ v[i].t < v[j].t
      BY <1>6, <2>2, <3>1, <3>2 DEF EnOrden
    <3>4. v[j].tipo = "soltar" => j - d = i - d BY <1>6, <2>2, <3>1, <3>2 DEF EnOrden
    <3>. QED BY <1>2, <3>3, <3>4
  <2>3. ASSUME NEW i \in DOMAIN v, v[i].tipo = "correr"
        PROVE  /\ \E j \in DOMAIN v : v[j].tipo = "soltar"
               /\ \A j \in DOMAIN v : v[j].tipo = "correr" /\ v[j].t = v[i].t => i = j
    <3>1. i - d \in DOMAIN c /\ v[i] = c[i - d] BY <1>4, <2>3
    <3>2. PICK k \in DOMAIN c : c[k].tipo = "soltar" BY <1>6, <2>3, <3>1 DEF EnOrden
    <3>3. k + d \in DOMAIN v /\ v[k + d].tipo = "soltar" BY <1>5, <3>2
    <3>4. ASSUME NEW j \in DOMAIN v, v[j].tipo = "correr" /\ v[j].t = v[i].t PROVE i = j
      <4>1. j - d \in DOMAIN c /\ v[j] = c[j - d] BY <1>4, <3>4
      <4>2. i - d = j - d BY <1>6, <2>3, <3>1, <3>4, <4>1 DEF EnOrden
      <4>. QED BY <1>2, <4>2
    <3>. QED BY <3>3, <3>4
  <2>. QED BY <2>1, <2>2, <2>3 DEF EnOrden
<1>7. ASSUME NEW tipo \in {"correr", "soltar"}, NEW p, NEW t PROVE Queda(v, tipo, p, t) <=> Queda(c, tipo, p, t)
  BY <1>4, <1>5 DEF Queda
<1>. QED BY <1>6, <1>7

\* Nor does it lead the accesses that are left out of their patota, if those of w are in it.
LEMMA AlcancesRelevo ==
  ASSUME NEW S, NEW c \in Seq(S), c # << >>, NEW w \in Seq(S), NEW v \in Seq(S), Relevo(c, w, v), Alcances(c),
         c[1].tipo \notin {"correr", "soltar"},
         \A i \in DOMAIN w : /\ w[i].tipo \in Memoria /\ w[i].t = 0
                             /\ Dentro(w[i], patotas[w[i].p].memoria_ocupada)
  PROVE  Alcances(v)
<1>1. PICK d : d = Len(w) - 1 OBVIOUS
<1>2. d \in Int /\ DOMAIN c \subseteq Int /\ DOMAIN v \subseteq Int /\ Len(w) \in Int /\ DOMAIN w = 1 .. Len(w)
      /\ DOMAIN v = 1 .. Len(v) /\ DOMAIN c = 1 .. Len(c)
  BY <1>1
<1>3. "soltar" \notin Memoria BY DEF Memoria
<1>4. ASSUME NEW i \in DOMAIN v, v[i].tipo = "soltar"
      PROVE  i - d \in DOMAIN c /\ v[i] = c[i - d]
  <2>1. ~(i \in DOMAIN w /\ v[i] = w[i]) BY <1>3, <1>4
  <2>2. i - Len(w) + 1 \in DOMAIN c /\ v[i] = c[i - Len(w) + 1] BY <2>1 DEF Relevo
  <2>3. i - Len(w) + 1 = i - d BY <1>1, <1>2
  <2>. QED BY <2>2, <2>3
<1>5. SUFFICES ASSUME NEW i \in DOMAIN v, v[i].tipo \in Memoria
               PROVE  /\ v[i].t # 0 =>
                           /\ <<v[i].p, v[i].t>> \in tripulantes
                           /\ \A j \in DOMAIN v : v[j].tipo = "soltar" => <<v[j].p, v[j].t>> # <<v[i].p, v[i].t>>
                      /\ v[i].t = 0 =>
                           /\ Dentro(v[i], patotas[v[i].p].memoria_ocupada)
                           /\ Dentro(v[i], Base(v[i].p)) \/ \A j \in 1 .. i - 1 : v[j].tipo # "soltar"
  BY DEF Alcances
<1>6. CASE i \in DOMAIN w /\ v[i] = w[i]
  <2>1. ASSUME NEW j \in 1 .. i - 1 PROVE v[j].tipo # "soltar"
    <3>1. j \in DOMAIN v /\ j <= Len(w) BY <1>2, <1>6
    <3>2. j \in DOMAIN w /\ v[j] = w[j] BY <1>2, <3>1 DEF Relevo
    <3>. QED BY <1>3, <3>2
  <2>. QED BY <1>6, <2>1
<1>7. CASE i > Len(w) /\ i - Len(w) + 1 \in DOMAIN c /\ v[i] = c[i - Len(w) + 1]
  <2>1. PICK k : k = i - d OBVIOUS
  <2>2. k \in DOMAIN c /\ v[i] = c[k] BY <1>1, <1>2, <1>7, <2>1
  <2>3. ASSUME v[i].t # 0
        PROVE  /\ <<v[i].p, v[i].t>> \in tripulantes
               /\ \A j \in DOMAIN v : v[j].tipo = "soltar" => <<v[j].p, v[j].t>> # <<v[i].p, v[i].t>>
    BY <1>4, <1>5, <2>2, <2>3 DEF Alcances
  <2>4. ASSUME v[i].t = 0
        PROVE  /\ Dentro(v[i], patotas[v[i].p].memoria_ocupada)
               /\ Dentro(v[i], Base(v[i].p)) \/ \A j \in 1 .. i - 1 : v[j].tipo # "soltar"
    <3>1. Dentro(v[i], patotas[v[i].p].memoria_ocupada) BY <1>5, <2>2, <2>4 DEF Alcances
    <3>2. CASE Dentro(v[i], Base(v[i].p)) BY <3>1, <3>2
    <3>3. CASE \A j \in 1 .. k - 1 : c[j].tipo # "soltar"
      <4>1. ASSUME NEW j \in 1 .. i - 1, v[j].tipo = "soltar" PROVE FALSE
        <5>1. j \in DOMAIN v BY <1>2
        <5>2. j - d \in DOMAIN c /\ v[j] = c[j - d] BY <1>4, <4>1, <5>1
        <5>3. j - d \in 1 .. k - 1 BY <1>2, <2>1, <4>1, <5>2
        <5>. QED BY <3>3, <4>1, <5>2, <5>3
      <4>. QED BY <3>1, <4>1
    <3>4. Dentro(v[i], Base(v[i].p)) \/ \A j \in 1 .. k - 1 : c[j].tipo # "soltar"
      BY <1>5, <2>2, <2>4 DEF Alcances
    <3>. QED BY <3>2, <3>3, <3>4
  <2>. QED BY <2>3, <2>4
<1>. QED BY <1>6, <1>7 DEF Relevo

\* What is left when the first element is done.
LEMMA RelevoTail ==
  ASSUME NEW S, NEW c \in Seq(S), c # << >>, NEW v, v = Tail(c)
  PROVE  /\ v \in Seq(S) /\ 1 \in DOMAIN c /\ DOMAIN c \subseteq Nat /\ DOMAIN v \subseteq Nat \ {0}
         /\ \A i \in DOMAIN v : i + 1 \in DOMAIN c /\ v[i] = c[i + 1]
         /\ \A j \in DOMAIN c : j # 1 => j - 1 \in DOMAIN v /\ v[j - 1] = c[j]
<1>1. v \in Seq(S) /\ Len(v) = Len(c) - 1 /\ \A i \in 1 .. Len(v) : v[i] = c[i + 1]
  BY HeadTailProperties
<1>2. DOMAIN v = 1 .. Len(v) /\ DOMAIN c = 1 .. Len(c) /\ Len(c) \in Nat /\ Len(c) # 0 BY <1>1
<1>3. ASSUME NEW i \in DOMAIN v PROVE i + 1 \in DOMAIN c /\ v[i] = c[i + 1] BY <1>1, <1>2
<1>4. ASSUME NEW j \in DOMAIN c, j # 1 PROVE j - 1 \in DOMAIN v /\ v[j - 1] = c[j]
  <2>1. j - 1 \in 1 .. Len(v) /\ (j - 1) + 1 = j BY <1>1, <1>2, <1>4
  <2>2. v[j - 1] = c[(j - 1) + 1] BY <1>1, <2>1
  <2>. QED BY <1>2, <2>1, <2>2
<1>. QED BY <1>1, <1>2, <1>3, <1>4

\* After a trip moved down it is not to move down any more.
LEMMA OrdenCorrer ==
  ASSUME NEW S, NEW c \in Seq(S), c # << >>, NEW v, v = Tail(c), EnOrden(c), Alcances(c), c[1].tipo = "correr"
  PROVE  /\ EnOrden(v) /\ Alcances(v)
         /\ \A p, t : Queda(v, "soltar", p, t) <=> Queda(c, "soltar", p, t)
         /\ \A p, t : Queda(v, "correr", p, t) <=>
                        Queda(c, "correr", p, t) /\ ~(p = c[1].p /\ t = c[1].t)
         /\ \E s : Queda(c, "soltar", c[1].p, s) /\ s < c[1].t
<1>1. /\ 1 \in DOMAIN c /\ DOMAIN c \subseteq Nat /\ DOMAIN v \subseteq Nat \ {0}
      /\ \A i \in DOMAIN v : i + 1 \in DOMAIN c /\ v[i] = c[i + 1]
      /\ \A j \in DOMAIN c : j # 1 => j - 1 \in DOMAIN v /\ v[j - 1] = c[j]
  BY RelevoTail
<1>2. EnOrden(v)
  <2>1. \A i \in DOMAIN v : v[i].tipo \in {"correr", "soltar"} => <<v[i].p, v[i].t>> \in tripulantes
    BY <1>1 DEF EnOrden
  <2>2. ASSUME NEW i \in DOMAIN v, NEW j \in DOMAIN v, v[i].tipo = "soltar"
        PROVE  /\ v[j].tipo = "correr" => j < i /\ v[j].p = v[i].p /\ v[i].t < v[j].t
               /\ v[j].tipo = "soltar" => j = i
    <3>1. i + 1 \in DOMAIN c /\ v[i] = c[i + 1] /\ j + 1 \in DOMAIN c /\ v[j] = c[j + 1] BY <1>1
    <3>2. v[j].tipo = "correr" => j + 1 < i + 1 /\ v[j].p = v[i].p /\ v[i].t < v[j].t
      BY <2>2, <3>1 DEF EnOrden
    <3>3. v[j].tipo = "soltar" => j + 1 = i + 1 BY <2>2, <3>1 DEF EnOrden
    <3>. QED BY <1>1, <3>2, <3>3
  <2>3. ASSUME NEW i \in DOMAIN v, v[i].tipo = "correr"
        PROVE  /\ \E j \in DOMAIN v : v[j].tipo = "soltar"
               /\ \A j \in DOMAIN v : v[j].tipo = "correr" /\ v[j].t = v[i].t => i = j
    <3>1. i + 1 \in DOMAIN c /\ v[i] = c[i + 1] BY <1>1
    <3>2. PICK k \in DOMAIN c : c[k].tipo = "soltar" BY <2>3, <3>1 DEF EnOrden
    <3>3. k - 1 \in DOMAIN v /\ v[k - 1].tipo = "soltar" BY <1>1, <3>2
    <3>4. ASSUME NEW j \in DOMAIN v, v[j].tipo = "correr" /\ v[j].t = v[i].t PROVE i = j
      <4>1. j + 1 \in DOMAIN c /\ v[j] = c[j + 1] BY <1>1
      <4>2. i + 1 = j + 1 BY <2>3, <3>1, <3>4, <4>1 DEF EnOrden
      <4>. QED BY <1>1, <4>2
    <3>. QED BY <3>3, <3>4
  <2>. QED BY <2>1, <2>2, <2>3 DEF EnOrden
<1>3. Alcances(v)
  <2>1. ASSUME NEW i \in DOMAIN v, v[i].tipo \in Memoria, v[i].t # 0
        PROVE  /\ <<v[i].p, v[i].t>> \in tripulantes
               /\ \A j \in DOMAIN v : v[j].tipo = "soltar" => <<v[j].p, v[j].t>> # <<v[i].p, v[i].t>>
    BY <1>1, <2>1 DEF Alcances
  <2>2. ASSUME NEW i \in DOMAIN v, v[i].tipo \in Memoria, v[i].t = 0
        PROVE  /\ Dentro(v[i], patotas[v[i].p].memoria_ocupada)
               /\ Dentro(v[i], Base(v[i].p)) \/ \A j \in 1 .. i - 1 : v[j].tipo # "soltar"
    <3>1. i + 1 \in DOMAIN c /\ v[i] = c[i + 1] BY <1>1
    <3>2. /\ Dentro(v[i], patotas[v[i].p].memoria_ocupada)
          /\ Dentro(v[i], Base(v[i].p)) \/ \A j \in 1 .. (i + 1) - 1 : c[j].tipo # "soltar"
      BY <2>2, <3>1 DEF Alcances
    <3>3. ASSUME NEW j \in 1 .. i - 1 PROVE j \in DOMAIN v /\ v[j] = c[j + 1] /\ j + 1 \in 1 .. (i + 1) - 1
      <4>1. DOMAIN v = 1 .. Len(v) BY RelevoTail
      <4>2. j \in DOMAIN v BY <1>1, <4>1
      <4>. QED BY <1>1, <4>2
    <3>. QED BY <3>2, <3>3
  <2>. QED BY <2>1, <2>2 DEF Alcances
<1>4. ASSUME NEW p, NEW t PROVE Queda(v, "soltar", p, t) <=> Queda(c, "soltar", p, t)
  <2>1. ASSUME Queda(v, "soltar", p, t) PROVE Queda(c, "soltar", p, t)
    <3>1. PICK i \in DOMAIN v : v[i].tipo = "soltar" /\ v[i].p = p /\ v[i].t = t BY <2>1 DEF Queda
    <3>2. i + 1 \in DOMAIN c /\ v[i] = c[i + 1] BY <1>1
    <3>. QED BY <3>1, <3>2 DEF Queda
  <2>2. ASSUME Queda(c, "soltar", p, t) PROVE Queda(v, "soltar", p, t)
    <3>1. PICK j \in DOMAIN c : c[j].tipo = "soltar" /\ c[j].p = p /\ c[j].t = t BY <2>2 DEF Queda
    <3>2. j # 1 BY <3>1
    <3>3. j - 1 \in DOMAIN v /\ v[j - 1] = c[j] BY <1>1, <3>2
    <3>. QED BY <3>1, <3>3 DEF Queda
  <2>. QED BY <2>1, <2>2
<1>5. ASSUME NEW p, NEW t
      PROVE  Queda(v, "correr", p, t) <=> Queda(c, "correr", p, t) /\ ~(p = c[1].p /\ t = c[1].t)
  <2>1. ASSUME Queda(v, "correr", p, t) PROVE Queda(c, "correr", p, t) /\ ~(p = c[1].p /\ t = c[1].t)
    <3>1. PICK i \in DOMAIN v : v[i].tipo = "correr" /\ v[i].p = p /\ v[i].t = t BY <2>1 DEF Queda
    <3>2. i + 1 \in DOMAIN c /\ v[i] = c[i + 1] /\ i + 1 # 1 BY <1>1
    <3>3. t # c[1].t BY <1>1, <3>1, <3>2 DEF EnOrden
    <3>. QED BY <3>1, <3>2, <3>3 DEF Queda
  <2>2. ASSUME Queda(c, "correr", p, t), ~(p = c[1].p /\ t = c[1].t) PROVE Queda(v, "correr", p, t)
    <3>1. PICK j \in DOMAIN c : c[j].tipo = "correr" /\ c[j].p = p /\ c[j].t = t BY <2>2 DEF Queda
    <3>2. j # 1 BY <2>2, <3>1
    <3>. QED BY <1>1, <3>1, <3>2 DEF Queda
  <2>. QED BY <2>1, <2>2
<1>6. \E s : Queda(c, "soltar", c[1].p, s) /\ s < c[1].t
  <2>1. PICK k \in DOMAIN c : c[k].tipo = "soltar" BY <1>1 DEF EnOrden
  <2>2. c[1].p = c[k].p /\ c[k].t < c[1].t BY <1>1, <2>1 DEF EnOrden
  <2>. QED BY <2>1, <2>2 DEF Queda
<1>. QED BY <1>2, <1>3, <1>4, <1>5, <1>6

\* Without steps of an expulsion there is nothing to order.
LEMMA SinPasos ==
  ASSUME NEW v, \A i \in DOMAIN v : v[i].tipo \notin {"correr", "soltar"}
  PROVE  /\ EnOrden(v) /\ EnOrden(v)'
         /\ \A tipo \in {"correr", "soltar"} : \A p, t : ~Queda(v, tipo, p, t)
BY DEF EnOrden, Queda

\* The trip that goes is the last step, and what comes after it is the log without it.
LEMMA OrdenSoltar ==
  ASSUME NEW S, NEW c \in Seq(S), c # << >>, NEW v, v = Tail(c), EnOrden(c), Alcances(c), c[1].tipo = "soltar"
  PROVE  /\ \A i \in DOMAIN v : v[i].tipo \notin {"correr", "soltar"}
         /\ \A i \in DOMAIN v : v[i].tipo \in Memoria =>
              /\ v[i].t # 0 => <<v[i].p, v[i].t>> \in tripulantes \ {<<c[1].p, c[1].t>>}
              /\ v[i].t = 0 => Dentro(v[i], Base(v[i].p))
         /\ \A p, t : Queda(c, "soltar", p, t) <=> p = c[1].p /\ t = c[1].t
         /\ \A p, t : ~Queda(c, "correr", p, t)
<1>1. /\ 1 \in DOMAIN c /\ DOMAIN c \subseteq Nat /\ DOMAIN v \subseteq Nat \ {0}
      /\ \A i \in DOMAIN v : i + 1 \in DOMAIN c /\ v[i] = c[i + 1] /\ i + 1 # 1
  <2>1. 1 \in DOMAIN c /\ DOMAIN c \subseteq Nat /\ DOMAIN v \subseteq Nat \ {0} BY RelevoTail
  <2>2. \A i \in DOMAIN v : i + 1 \in DOMAIN c /\ v[i] = c[i + 1] BY RelevoTail
  <2>. QED BY <2>1, <2>2
<1>2. \A j \in DOMAIN c : c[j].tipo # "correr" /\ (c[j].tipo = "soltar" => j = 1)
  <2>1. ASSUME NEW j \in DOMAIN c, c[j].tipo = "correr" PROVE FALSE
    <3>1. j < 1 BY <1>1, <2>1 DEF EnOrden
    <3>2. DOMAIN c = 1 .. Len(c) OBVIOUS
    <3>. QED BY <3>1, <3>2
  <2>. QED BY <1>1, <2>1 DEF EnOrden
<1>3. \A i \in DOMAIN v : v[i].tipo \notin {"correr", "soltar"} BY <1>1, <1>2
<1>4. ASSUME NEW i \in DOMAIN v, v[i].tipo \in Memoria
      PROVE  /\ v[i].t # 0 => <<v[i].p, v[i].t>> \in tripulantes \ {<<c[1].p, c[1].t>>}
             /\ v[i].t = 0 => Dentro(v[i], Base(v[i].p))
  <2>1. v[i].t # 0 => <<v[i].p, v[i].t>> \in tripulantes \ {<<c[1].p, c[1].t>>}
    BY <1>1, <1>4 DEF Alcances
  <2>2. v[i].t = 0 => Dentro(v[i], Base(v[i].p)) \/ \A j \in 1 .. (i + 1) - 1 : c[j].tipo # "soltar"
    BY <1>1, <1>4 DEF Alcances
  <2>3. 1 \in 1 .. (i + 1) - 1 BY <1>1
  <2>. QED BY <2>1, <2>2, <2>3
<1>5. \A p, t : Queda(c, "soltar", p, t) <=> p = c[1].p /\ t = c[1].t BY <1>1, <1>2 DEF Queda
<1>6. \A p, t : ~Queda(c, "correr", p, t) BY <1>2 DEF Queda
<1>. QED BY <1>3, <1>4, <1>5, <1>6

\* A patota occupies at least its control block and its tasks.
LEMMA OcupadaBien ==
  ASSUME TiposPatotas, Filas, NEW p \in 1 .. Len(patotas)
  PROVE  patotas[p].memoria_ocupada \in Nat /\ Base(p) <= patotas[p].memoria_ocupada
<1>1. PICK b : b = Base(p) OBVIOUS
<1>2. PICK n : n = Cardinality(Vivos(p)) OBVIOUS
<1>3. b \in Nat /\ n \in Nat BY <1>1, <1>2, BaseBien, VivosBien
<1>4. patotas[p].memoria_ocupada = Puesto(b, n) BY <1>1, <1>2 DEF Filas, Fila
<1>. QED BY <1>1, <1>3, <1>4, PuestoBien

\* So it does after a step.
LEMMA OcupadaNueva ==
  ASSUME TiposPatotas', Filas', NEW p \in 1 .. Len(patotas')
  PROVE  Base(p)' <= patotas'[p].memoria_ocupada
<1>1. PICK b : b = Base(p)' OBVIOUS
<1>2. PICK n : n = Cardinality(Vivos(p)') OBVIOUS
<1>3. b \in Nat
  <2>1. patotas'[p] \in Patota' BY DEF TiposPatotas
  <2>2. patotas'[p].tareas \in Nat BY <2>1, Tamanios DEF Patota
  <2>. QED BY <1>1, <2>2, Tamanios DEF Base
<1>4. n \in Nat
  <2>1. PICK V : V = Vivos(p)' OBVIOUS
  <2>2. V \in SUBSET (1 .. MaxTripulantes) BY <2>1 DEF Vivos
  <2>3. IsFiniteSet(1 .. MaxTripulantes)
    <3>1. MaxTripulantes \in Nat /\ 1 \in Nat BY Tamanios
    <3>. QED BY <3>1, FS_Interval
  <2>4. IsFiniteSet(V) BY <2>2, <2>3, FS_Subset
  <2>. QED BY <1>2, <2>1, <2>4, FS_CardinalityType
<1>5. patotas'[p].memoria_ocupada = Puesto(b, n)
  <2>1. Fila(p)' BY DEF Filas
  <2>. QED BY <1>1, <1>2, <2>1 DEF Fila, Puesto
<1>. QED BY <1>1, <1>3, <1>4, <1>5, PuestoBien

\* The accesses of a new message of the main loop, g being the trip that it expels.
LEMMA AlcancesNuevos ==
  ASSUME TiposPatotas', Filas', NEW v, NEW g,
         \A i \in DOMAIN v :
           /\ v[i].tipo = "soltar" => <<v[i].p, v[i].t>> = g
           /\ v[i].tipo \in Memoria /\ v[i].t # 0 =>
                <<v[i].p, v[i].t>> \in tripulantes' /\ <<v[i].p, v[i].t>> # g
           /\ v[i].tipo \in Memoria /\ v[i].t = 0 =>
                v[i].p \in 1 .. Len(patotas') /\ v[i].desde \in Int /\ v[i].bytes \in Nat
                  /\ Dentro(v[i], Base(v[i].p)')
  PROVE  Alcances(v)'
<1>1. ASSUME NEW i \in DOMAIN v, v[i].tipo \in Memoria, v[i].t = 0
      PROVE  Dentro(v[i], Base(v[i].p)') /\ Dentro(v[i], patotas'[v[i].p].memoria_ocupada)
  <2>1. PICK p : p = v[i].p OBVIOUS
  <2>2. PICK b : b = Base(p)' OBVIOUS
  <2>3. PICK u : u = patotas'[p].memoria_ocupada OBVIOUS
  <2>4. p \in 1 .. Len(patotas') /\ v[i].desde \in Int /\ v[i].bytes \in Nat /\ Dentro(v[i], b) BY <1>1, <2>1, <2>2
  <2>5. b <= u BY <2>2, <2>3, <2>4, OcupadaNueva
  <2>6. patotas'[p] \in Patota' BY <2>4 DEF TiposPatotas
  <2>7. u \in Int /\ b \in Int BY <2>2, <2>3, <2>6, Tamanios DEF Patota, Base
  <2>. QED BY <2>1, <2>2, <2>3, <2>4, <2>5, <2>7 DEF Dentro
<1>2. \A i \in DOMAIN v : v[i].tipo \in Memoria /\ v[i].t # 0 =>
        /\ <<v[i].p, v[i].t>> \in tripulantes'
        /\ \A j \in DOMAIN v : v[j].tipo = "soltar" => <<v[j].p, v[j].t>> # <<v[i].p, v[i].t>>
  OBVIOUS
<1>. QED BY <1>1, <1>2 DEF Alcances, Dentro, Base

\* The accesses that are left when neither the trips nor the memory of the patotas change.
LEMMA AlcancesIguales ==
  ASSUME NEW v, Alcances(v), UNCHANGED tripulantes,
         \A i \in DOMAIN v : /\ patotas'[v[i].p].memoria_ocupada = patotas[v[i].p].memoria_ocupada
                             /\ patotas'[v[i].p].tareas = patotas[v[i].p].tareas
  PROVE  Alcances(v)'
BY DEF Alcances, Dentro, Base

-----------------------------------------------------------------------------
(* Where the trips are *)

\* what the main loop has left to do
PorHacer == hilos[Principal].accesos
Ordenado == EnOrden(PorHacer) /\ Alcances(PorHacer)

\* trip t moved down in the expulsion under way, of a trip that was before it
Corrido(p, t) ==
  (\E s : Queda(PorHacer, "soltar", p, s) /\ s < t) /\ ~Queda(PorHacer, "correr", p, t)

\* where trip t was when the expulsion under way began
Sitio(p, t) == patotas[p].inicio[t] + (IF Corrido(p, t) THEN TAMANIO_TRIPULANTE ELSE 0)

\* The trips that were not expelled are inside the memory of their patota, one after the other.
SitiosDe(p) ==
  /\ \A t \in Vivos(p) :
       Base(p) <= Sitio(p, t) /\ Sitio(p, t) + TAMANIO_TRIPULANTE <= patotas[p].memoria_ocupada
  /\ \A t, u \in Vivos(p) : t < u => Sitio(p, t) + TAMANIO_TRIPULANTE <= Sitio(p, u)
Sitios == \A p \in 1 .. Len(patotas) : SitiosDe(p)

\* The trips that came have an address.
Llegados ==
  \A p \in 1 .. Len(patotas) : \A t \in 1 .. Len(patotas[p].inicio) : patotas[p].inicio[t] = 0 <=> Sin(p, t)

\* the expulsion under way, if there is one, goes on
MismosPasos ==
  \A tipo \in {"correr", "soltar"} : \A p, t : Queda(PorHacer, tipo, p, t)' <=> Queda(PorHacer, tipo, p, t)

\* What is left to do is v.
LEMMA OrdenadoCon ==
  ASSUME NEW v, PorHacer' = v, EnOrden(v)', Alcances(v)'
  PROVE  Ordenado'
<1>1. EnOrden(PorHacer)' BY DEF EnOrden
<1>2. Alcances(PorHacer)' BY DEF Alcances, Dentro, Base
<1>. QED BY <1>1, <1>2 DEF Ordenado

\* The steps of an expulsion that v and c have left are those that are left before and after.
LEMMA PasosCon ==
  ASSUME NEW c, NEW v, PorHacer = c, PorHacer' = v,
         \A tipo \in {"correr", "soltar"} : \A p, t : Queda(v, tipo, p, t) <=> Queda(c, tipo, p, t)
  PROVE  MismosPasos
BY DEF MismosPasos, Queda

\* A trip that was not expelled is one of its patota.
LEMMA VivoExiste ==
  ASSUME TiposPatotas, NEW p, NEW t \in Vivos(p)
  PROVE  /\ p \in 1 .. Len(patotas) /\ t \in 1 .. Len(patotas[p].inicio) /\ t \in Nat
         /\ patotas[p].inicio[t] \in Int /\ Sitio(p, t) \in Int /\ Base(p) \in Nat
         /\ patotas[p].memoria_ocupada \in Int
<1>1. <<p, t>> \in Existen BY DEF Vivos, TiposPatotas
<1>2. p \in 1 .. Len(patotas) /\ t \in 1 .. Len(patotas[p].inicio) BY <1>1 DEF Existen
<1>3. patotas[p] \in Patota /\ Base(p) \in Nat BY <1>2, BaseBien
<1>4. patotas[p].inicio \in Seq(Int) /\ patotas[p].memoria_ocupada \in Int BY <1>3 DEF Patota
<1>5. patotas[p].inicio[t] \in Int BY <1>2, <1>4
<1>6. Sitio(p, t) \in Int BY <1>5, Tamanios DEF Sitio
<1>7. t \in Nat BY VivosBien
<1>. QED BY <1>2, <1>3, <1>4, <1>5, <1>6, <1>7

\* An expulsion under way is of a trip that is still in the list.
LEMMA VivoSoltar ==
  ASSUME TiposPatotas, EnOrden(PorHacer), NEW p, NEW s, Queda(PorHacer, "soltar", p, s) \/ Queda(PorHacer, "correr", p, s)
  PROVE  s \in Vivos(p)
<1>1. <<p, s>> \in tripulantes BY DEF EnOrden, Queda
<1>2. <<p, s>> \in Trips BY <1>1 DEF TiposPatotas, Existen
<1>. QED BY <1>1, <1>2 DEF Vivos, Trips

\* The address of a trip that was not expelled is inside the memory of its patota.
LEMMA InicioBien ==
  ASSUME TiposPatotas, EnOrden(PorHacer), Sitios, NEW p, NEW t \in Vivos(p)
  PROVE  /\ Base(p) <= patotas[p].inicio[t]
         /\ patotas[p].inicio[t] + TAMANIO_TRIPULANTE <= patotas[p].memoria_ocupada
<1>1. SitiosDe(p) BY VivoExiste DEF Sitios
<1>2. PICK x : x = patotas[p].inicio[t] OBVIOUS
<1>3. PICK y : y = Sitio(p, t) OBVIOUS
<1>4. PICK b : b = Base(p) OBVIOUS
<1>5. x \in Int /\ y \in Int /\ b \in Nat /\ patotas[p].memoria_ocupada \in Int BY <1>2, <1>3, <1>4, VivoExiste
<1>6. b <= y /\ y + TAMANIO_TRIPULANTE <= patotas[p].memoria_ocupada BY <1>1, <1>3, <1>4 DEF SitiosDe
<1>7. CASE Corrido(p, t)
  <2>1. y = x + TAMANIO_TRIPULANTE BY <1>2, <1>3, <1>7 DEF Sitio
  <2>2. PICK s : Queda(PorHacer, "soltar", p, s) /\ s < t BY <1>7 DEF Corrido
  <2>3. s \in Vivos(p) BY <2>2, VivoSoltar
  <2>4. PICK z : z = Sitio(p, s) OBVIOUS
  <2>5. z \in Int BY <2>3, <2>4, VivoExiste
  <2>6. b <= z /\ z + TAMANIO_TRIPULANTE <= y BY <1>1, <1>3, <1>4, <2>2, <2>3, <2>4 DEF SitiosDe
  <2>. QED BY <1>2, <1>4, <1>5, <1>6, <2>1, <2>5, <2>6, Tamanios
<1>8. CASE ~Corrido(p, t)
  <2>1. y = x BY <1>2, <1>3, <1>5, <1>8 DEF Sitio
  <2>. QED BY <1>2, <1>4, <1>6, <2>1
<1>. QED BY <1>7, <1>8

\* A trip whose address does not change, nor its part in an expulsion.
LEMMA SitioIgual ==
  ASSUME NEW p, NEW t, patotas'[p].inicio[t] = patotas[p].inicio[t], Corrido(p, t)' <=> Corrido(p, t)
  PROVE  Sitio(p, t)' = Sitio(p, t)
<1>1. CASE Corrido(p, t) BY <1>1 DEF Sitio
<1>2. CASE ~Corrido(p, t) BY <1>2 DEF Sitio
<1>. QED BY <1>1, <1>2

\* The trips of a patota that stay where they are.
LEMMA SitiosIguales ==
  ASSUME NEW p, SitiosDe(p), Vivos(p)' = Vivos(p), patotas'[p].tareas = patotas[p].tareas,
         patotas'[p].memoria_ocupada = patotas[p].memoria_ocupada, \A t \in Vivos(p) : Sitio(p, t)' = Sitio(p, t)
  PROVE  SitiosDe(p)'
<1>1. Base(p)' = Base(p) BY DEF Base
<1>. QED BY <1>1 DEF SitiosDe

\* The trips that moved down are the same while the steps that are left are.
LEMMA CorridoIgual ==
  ASSUME MismosPasos, NEW p, NEW t
  PROVE  Corrido(p, t)' <=> Corrido(p, t)
<1>1. \A s : Queda(PorHacer, "soltar", p, s)' <=> Queda(PorHacer, "soltar", p, s) BY DEF MismosPasos
<1>2. Queda(PorHacer, "correr", p, t)' <=> Queda(PorHacer, "correr", p, t) BY DEF MismosPasos
<1>. QED BY <1>1, <1>2 DEF Corrido

\* Steps that leave the entries and the trips alone, and the expulsion if there is one.
LEMMA SitiosQuietos ==
  ASSUME Sitios, MismosPasos, UNCHANGED <<patotas, tripulantes>>
  PROVE  Sitios'
<1>1. ASSUME NEW p \in 1 .. Len(patotas) PROVE SitiosDe(p)'
  <2>1. \A t \in Vivos(p) : Sitio(p, t)' = Sitio(p, t) BY CorridoIgual, SitioIgual
  <2>2. Vivos(p)' = Vivos(p) BY DEF Vivos
  <2>. QED BY <2>1, <2>2, SitiosIguales DEF Sitios
<1>. QED BY <1>1 DEF Sitios

\* A message of the main loop begins: no trip had moved down.
LEMMA NadieCorrido ==
  ASSUME PorHacer = << >>, NEW p, NEW t
  PROVE  ~Corrido(p, t)
BY DEF Corrido, Queda

\* If it is not an expulsion none will.
LEMMA PasosNinguno ==
  ASSUME PorHacer = << >>, NEW v, PorHacer' = v, \A i \in DOMAIN v : v[i].tipo \notin {"correr", "soltar"}
  PROVE  MismosPasos
<1>1. \A tipo \in {"correr", "soltar"} : \A p, t : ~Queda(PorHacer, tipo, p, t) BY DEF Queda
<1>2. \A tipo \in {"correr", "soltar"} : \A p, t : ~Queda(PorHacer, tipo, p, t)' BY DEF Queda
<1>. QED BY <1>1, <1>2 DEF MismosPasos

\* INIT_P adds a patota.
LEMMA SitiosAceptada ==
  ASSUME Tipos, Sitios, Llegados, NEW n \in 1 .. MaxTripulantes, NEW tareas \in TamaniosTareas, INIT_P(n, tareas),
         AceptarPatota(n, tareas), MismosPasos
  PROVE  Sitios' /\ Llegados'
<1>1. PICK p : p = Len(patotas) + 1 OBVIOUS
<1>2. PICK u : u = TAMANIO_PATOTA + tareas OBVIOUS
<1>3. TiposPatotas /\ TiposMarcos BY DEF Tipos
<1>4. /\ p \in Nat /\ Len(patotas) \in Nat /\ Len(patotas') = p /\ patotas'[p].inicio = [t \in 1 .. n |-> 0]
      /\ \A q \in 1 .. Len(patotas) : patotas'[q] = patotas[q]
      /\ UNCHANGED tripulantes /\ faltan = 0 /\ faltan' = n
  <2>1. p \in Nat /\ Len(patotas) \in Nat /\ Len(patotas') = p BY <1>1, <1>2, <1>3, PatotaAceptada
  <2>2. patotas'[p].inicio = [t \in 1 .. n |-> 0] BY <1>1, <1>2, <1>3, PatotaAceptada
  <2>3. \A q \in 1 .. Len(patotas) : patotas'[q] = patotas[q] BY <1>1, <1>2, <1>3, PatotaAceptada
  <2>4. UNCHANGED tripulantes /\ faltan = 0 /\ faltan' = n BY <1>1, <1>2, <1>3, PatotaAceptada
  <2>. QED BY <2>1, <2>2, <2>3, <2>4
<1>5. Vivos(p)' = {} /\ \A q : Vivos(q)' = Vivos(q) BY <1>1, <1>3, <1>4, VivosAceptada
<1>6. ASSUME NEW q \in 1 .. Len(patotas) PROVE SitiosDe(q)'
  <2>1. \A t \in Vivos(q) : Sitio(q, t)' = Sitio(q, t) BY <1>4, CorridoIgual, SitioIgual
  <2>. QED BY <1>4, <1>5, <2>1, SitiosIguales DEF Sitios
<1>7. SitiosDe(p)' BY <1>5 DEF SitiosDe
<1>8. Sitios' BY <1>1, <1>4, <1>6, <1>7 DEF Sitios
<1>9. ASSUME NEW q \in 1 .. Len(patotas), NEW t \in 1 .. Len(patotas'[q].inicio)
      PROVE  patotas'[q].inicio[t] = 0 <=> Sin(q, t)'
  <2>1. q # p /\ q # Len(patotas') BY <1>1, <1>4
  <2>2. t \in 1 .. Len(patotas[q].inicio) /\ patotas'[q].inicio = patotas[q].inicio BY <1>4
  <2>3. patotas[q].inicio[t] = 0 <=> Sin(q, t) BY <2>2 DEF Llegados
  <2>4. <<q, t>> \in Trips => <<q, t>> \in Existen /\ <<q, t>> \in Existen'
    <3>1. q \in 1 .. Len(patotas') BY <1>1, <1>4
    <3>. QED BY <2>2, <3>1 DEF Existen
  <2>5. <<q, t>> \notin Trips => <<q, t>> \notin Existen /\ <<q, t>> \notin Existen' BY DEF Existen
  <2>6. ~(t > Len(patotas[q].inicio) - faltan)
    <3>1. patotas[q] \in Patota BY <1>3 DEF TiposPatotas
    <3>2. Len(patotas[q].inicio) \in Nat BY <3>1 DEF Patota
    <3>. QED BY <1>4, <2>2, <3>2
  <2>7. Sin(q, t)' <=> Sin(q, t) BY <2>1, <2>4, <2>5, <2>6 DEF Sin
  <2>. QED BY <2>2, <2>3, <2>7
<1>10. ASSUME NEW t \in 1 .. Len(patotas'[p].inicio) PROVE patotas'[p].inicio[t] = 0 /\ Sin(p, t)'
  <2>1. n \in Nat BY Tamanios
  <2>2. Len(patotas'[p].inicio) = n BY <1>4, <2>1
  <2>3. patotas'[p].inicio[t] = 0 BY <1>4, <1>10, <2>2
  <2>4. t > Len(patotas'[p].inicio) - faltan' BY <1>4, <2>1, <2>2
  <2>. QED BY <1>4, <2>3, <2>4 DEF Sin
<1>11. Llegados'
  <2>1. ASSUME NEW q \in 1 .. Len(patotas'), NEW t \in 1 .. Len(patotas'[q].inicio)
        PROVE  patotas'[q].inicio[t] = 0 <=> Sin(q, t)'
    <3>1. CASE q = p BY <1>10, <3>1
    <3>2. CASE q # p
      <4>1. q \in 1 .. Len(patotas) BY <1>1, <1>4, <3>2
      <4>. QED BY <1>9, <4>1
    <3>. QED BY <3>1, <3>2
  <2>. QED BY <2>1 DEF Llegados
<1>. QED BY <1>8, <1>11

\* INIT_T puts a trip after the others.
LEMMA SitiosInitT ==
  ASSUME Tipos, Nuevos, Filas, Sitios, Llegados, INIT_T, NEW p, p = Len(patotas),
         ~(FramesDelTrip(p) > Cardinality(Libres(mapa_logico))), PorHacer = << >>, MismosPasos
  PROVE  Sitios' /\ Llegados'
<1>1. PICK t : t = Len(patotas[p].inicio) - faltan + 1 OBVIOUS
<1>2. TiposPatotas /\ TiposMarcos /\ SinHilo /\ faltan > 0 /\ faltan \in Nat BY DEF Tipos, Nuevos, INIT_T, TiposPatotas
<1>3. PICK e : e = Elegidos(mapa_logico, FramesDelTrip(p)) OBVIOUS
<1>4. /\ p \in 1 .. Len(patotas) /\ p \in Nat /\ t \in 1 .. MaxTripulantes /\ <<p, t>> \in Trips /\ <<p, t>> \in Existen
      /\ patotas[p] \in Patota /\ t \in 1 .. Len(patotas[p].inicio) /\ t \in Nat
  <2>1. p \in Nat /\ p \in 1 .. Len(patotas) BY <1>1, <1>2, TripNuevo
  <2>2. t \in 1 .. MaxTripulantes /\ <<p, t>> \in Trips /\ <<p, t>> \in Existen BY <1>1, <1>2, TripNuevo
  <2>3. patotas[p] \in Patota /\ t \in 1 .. Len(patotas[p].inicio) /\ t \in Nat BY <1>1, <1>2, TripNuevo
  <2>. QED BY <2>1, <2>2, <2>3
<1>5. PICK l : l = Len(patotas[p].inicio) OBVIOUS
<1>6. l \in Nat /\ patotas[p].inicio \in Seq(Int) BY <1>4, <1>5 DEF Patota
<1>7. PICK u : u = patotas[p].memoria_ocupada OBVIOUS
<1>8. u \in Nat /\ Base(p) <= u /\ Base(p) \in Nat /\ Base(p) >= TAMANIO_PATOTA BY <1>2, <1>4, <1>7, OcupadaBien, BaseBien
<1>9. /\ Len(patotas') = p /\ tripulantes' = tripulantes \union {<<p, t>>} /\ faltan' = faltan - 1
      /\ patotas'[p].tareas = patotas[p].tareas /\ patotas'[p].memoria_ocupada = u + TAMANIO_TRIPULANTE
      /\ patotas'[p].inicio = [patotas[p].inicio EXCEPT ![t] = u]
      /\ \A q \in 1 .. Len(patotas) : q # p => patotas'[q] = patotas[q]
  <2>1. Len(patotas') = p /\ tripulantes' = tripulantes \union {<<p, t>>} BY <1>1, <1>2, <1>3, TripAceptado
  <2>2. /\ patotas'[p].tareas = patotas[p].tareas
        /\ patotas'[p].memoria_ocupada = patotas[p].memoria_ocupada + TAMANIO_TRIPULANTE
    BY <1>1, <1>2, <1>3, TripAceptado
  <2>3. patotas'[p].inicio = [patotas[p].inicio EXCEPT ![t] = patotas[p].memoria_ocupada]
    BY <1>1, <1>2, <1>3, TripAceptado
  <2>4. \A q \in 1 .. Len(patotas) : q # p => patotas'[q] = patotas[q] BY <1>1, <1>2, <1>3, TripAceptado
  <2>. QED BY <1>7, <2>1, <2>2, <2>3, <2>4 DEF INIT_T
<1>10. Sin(p, t) /\ <<p, t>> \notin tripulantes
  <2>1. t > l - faltan BY <1>1, <1>2, <1>5, <1>6
  <2>2. Sin(p, t) BY <1>5, <2>1 DEF Sin
  <2>. QED BY <1>2, <1>4, <2>2 DEF SinHilo
<1>11. Vivos(p)' = Vivos(p) \union {t} /\ \A q : q # p => Vivos(q)' = Vivos(q) BY <1>4, <1>9, <1>10, VivosMas
<1>12. ASSUME NEW v \in Vivos(p) PROVE v \in Nat /\ v < t /\ Sitio(p, v)' = Sitio(p, v)
  <2>1. v \in Nat /\ <<p, v>> \in tripulantes BY VivosBien
  <2>2. <<p, v>> \in Trips BY <1>2, <2>1 DEF TiposPatotas, Existen
  <2>3. ~Sin(p, v) BY <1>2, <2>1, <2>2 DEF SinHilo
  <2>4. ~(v > l - faltan) BY <1>5, <2>3 DEF Sin
  <2>5. v < t BY <1>1, <1>2, <1>5, <1>6, <2>1, <2>4
  <2>6. patotas'[p].inicio[v] = patotas[p].inicio[v] BY <1>4, <1>6, <1>9, <2>1, <2>5
  <2>. QED BY <2>1, <2>5, <2>6, CorridoIgual, SitioIgual
<1>13. Sitio(p, t)' = u
  <2>1. ~Corrido(p, t)' BY CorridoIgual, NadieCorrido
  <2>2. patotas'[p].inicio[t] = u BY <1>4, <1>6, <1>9
  <2>. QED BY <1>8, <2>1, <2>2 DEF Sitio
<1>14. SitiosDe(p)'
  <2>1. SitiosDe(p) BY <1>4 DEF Sitios
  <2>2. PICK b : b = Base(p) OBVIOUS
  <2>3. Base(p)' = b BY <1>9, <2>2 DEF Base
  <2>4. ASSUME NEW v \in Vivos(p)
        PROVE  /\ v < t /\ b <= Sitio(p, v)' /\ Sitio(p, v)' + TAMANIO_TRIPULANTE <= u
               /\ Sitio(p, v)' + TAMANIO_TRIPULANTE <= u + TAMANIO_TRIPULANTE
    <3>1. PICK x : x = Sitio(p, v) OBVIOUS
    <3>2. x \in Int /\ Sitio(p, v)' = x BY <1>2, <1>12, <3>1, VivoExiste
    <3>3. b <= x /\ x + TAMANIO_TRIPULANTE <= u BY <1>7, <2>1, <2>2, <3>1 DEF SitiosDe
    <3>. QED BY <1>8, <1>12, <3>2, <3>3, Tamanios
  <2>5. b <= u /\ u + TAMANIO_TRIPULANTE <= u + TAMANIO_TRIPULANTE BY <1>8, <2>2, Tamanios
  <2>6. \A v \in Vivos(p)' :
          Base(p)' <= Sitio(p, v)' /\ Sitio(p, v)' + TAMANIO_TRIPULANTE <= patotas'[p].memoria_ocupada
    BY <1>9, <1>11, <1>13, <2>3, <2>4, <2>5
  <2>7. ASSUME NEW v \in Vivos(p)', NEW w \in Vivos(p)', v < w
        PROVE  Sitio(p, v)' + TAMANIO_TRIPULANTE <= Sitio(p, w)'
    <3>1. v \in Vivos(p)
      <4>1. v = t => w \in Vivos(p) /\ ~(t < w)
        <5>1. v = t => w # t BY <1>4, <2>7
        <5>2. w \in Vivos(p) => w \in Nat /\ w < t BY <1>12
        <5>. QED BY <1>4, <1>11, <2>7, <5>1, <5>2
      <4>. QED BY <1>11, <2>7, <4>1
    <3>2. CASE w = t BY <1>13, <2>4, <3>1, <3>2
    <3>3. CASE w \in Vivos(p)
      <4>1. Sitio(p, v) + TAMANIO_TRIPULANTE <= Sitio(p, w) BY <2>1, <2>7, <3>1, <3>3 DEF SitiosDe
      <4>. QED BY <1>12, <3>1, <3>3, <4>1
    <3>. QED BY <1>11, <3>2, <3>3
  <2>. QED BY <2>6, <2>7 DEF SitiosDe
<1>15. ASSUME NEW q \in 1 .. Len(patotas), q # p PROVE SitiosDe(q)'
  <2>1. patotas'[q] = patotas[q] /\ Vivos(q)' = Vivos(q) BY <1>9, <1>11, <1>15
  <2>2. \A v \in Vivos(q) : Sitio(q, v)' = Sitio(q, v) BY <2>1, CorridoIgual, SitioIgual
  <2>. QED BY <2>1, <2>2, SitiosIguales DEF Sitios
<1>16. Sitios' BY <1>9, <1>14, <1>15 DEF Sitios
<1>17. ASSUME NEW q \in 1 .. Len(patotas), NEW v \in 1 .. Len(patotas'[q].inicio)
       PROVE  patotas'[q].inicio[v] = 0 <=> Sin(q, v)'
  <2>1. Len(patotas'[q].inicio) = Len(patotas[q].inicio) /\ Len(patotas') = Len(patotas)
    <3>1. CASE q = p BY <1>6, <1>9, <3>1
    <3>2. CASE q # p BY <1>9, <3>2
    <3>. QED BY <1>9, <3>1, <3>2
  <2>2. patotas[q].inicio[v] = 0 <=> Sin(q, v) BY <2>1 DEF Llegados
  <2>3. <<q, v>> \in Existen' <=> <<q, v>> \in Existen BY <2>1 DEF Existen
  <2>4. CASE q # p
    <3>1. Sin(q, v)' <=> Sin(q, v) BY <1>9, <2>3, <2>4 DEF Sin
    <3>. QED BY <1>9, <2>2, <2>4, <3>1
  <2>5. CASE q = p /\ v = t
    <3>1. patotas'[p].inicio[t] = u /\ u # 0 BY <1>4, <1>6, <1>8, <1>9, Tamanios
    <3>2. ~Sin(p, t)'
      <4>1. <<p, t>> \in Existen' BY <1>4, <2>3, <2>5
      <4>2. Len(patotas'[p].inicio) = l BY <1>5, <2>1, <2>5
      <4>3. ~(t > l - (faltan - 1)) BY <1>1, <1>2, <1>5, <1>6
      <4>. QED BY <1>9, <4>1, <4>2, <4>3 DEF Sin
    <3>. QED BY <2>5, <3>1, <3>2
  <2>6. CASE q = p /\ v # t
    <3>1. patotas'[p].inicio[v] = patotas[p].inicio[v] BY <1>4, <1>6, <1>9, <2>1, <2>6
    <3>5. v \in Nat
      <4>1. patotas[q].inicio \in Seq(Int) /\ v \in 1 .. Len(patotas[q].inicio) BY <1>6, <2>1, <2>6
      <4>2. Len(patotas[q].inicio) \in Nat BY <4>1
      <4>. QED BY <4>1, <4>2
    <3>6. t = l - faltan + 1 /\ v # t BY <1>1, <1>5, <2>6
    <3>2. v > l - (faltan - 1) <=> v > l - faltan BY <1>2, <1>6, <3>5, <3>6
    <3>3. Len(patotas'[p].inicio) = l BY <1>5, <2>1, <2>6
    <3>4. Sin(p, v)' <=> Sin(p, v) BY <1>5, <1>9, <2>3, <2>6, <3>2, <3>3 DEF Sin
    <3>. QED BY <2>2, <2>6, <3>1, <3>4
  <2>. QED BY <2>4, <2>5, <2>6
<1>18. Llegados' BY <1>9, <1>17 DEF Llegados
<1>. QED BY <1>16, <1>18

\* A step of the main loop leaves the rest of its message.
LEMMA PasoPrincipal ==
  ASSUME TiposHilos, Hilo' = Hilo, Le_toca(Principal, Pasos), hilos' = Hecho(Principal)
  PROVE  /\ PorHacer \in Seq(Accesos) /\ PorHacer # << >> /\ PorHacer[1] = Siguiente(Principal)
         /\ PorHacer' = Tail(PorHacer) /\ 1 \in DOMAIN PorHacer
<1>1. Principal \in Hilos BY DEF Hilos
<1>2. hilos[Principal].accesos # << >> BY DEF Le_toca
<1>3. hilos[Principal].accesos \in Seq(Accesos) BY <1>1, <1>2, AccesoActual
<1>4. hilos'[Principal].accesos = Tail(hilos[Principal].accesos) BY Avanza
<1>5. Siguiente(Principal) = hilos[Principal].accesos[1] /\ 1 \in DOMAIN hilos[Principal].accesos
  BY <1>2, <1>3 DEF Siguiente
<1>. QED BY <1>2, <1>3, <1>4, <1>5 DEF PorHacer

\* The trips that are still to come are the same.
LEMMA SinQuieto ==
  ASSUME Existen' = Existen, Len(patotas') = Len(patotas), faltan' = faltan, NEW p \in 1 .. Len(patotas), NEW t,
         Len(patotas'[p].inicio) = Len(patotas[p].inicio)
  PROVE  Sin(p, t)' <=> Sin(p, t)
BY DEF Sin

\* Nobody comes and nobody moves.
LEMMA LlegadosIguales ==
  ASSUME Llegados, Existen' = Existen, Len(patotas') = Len(patotas), faltan' = faltan,
         \A q \in 1 .. Len(patotas) : patotas'[q].inicio = patotas[q].inicio
  PROVE  Llegados'
<1>1. ASSUME NEW q \in 1 .. Len(patotas'), NEW t \in 1 .. Len(patotas'[q].inicio)
      PROVE  patotas'[q].inicio[t] = 0 <=> Sin(q, t)'
  <2>1. q \in 1 .. Len(patotas) /\ patotas'[q].inicio = patotas[q].inicio OBVIOUS
  <2>2. patotas[q].inicio[t] = 0 <=> Sin(q, t) BY <2>1 DEF Llegados
  <2>3. Sin(q, t)' <=> Sin(q, t) BY <2>1, SinQuieto
  <2>. QED BY <2>1, <2>2, <2>3
<1>. QED BY <1>1 DEF Llegados

\* A trip that was not expelled came.
LEMMA VivoLlegado ==
  ASSUME TiposPatotas, SinHilo, NEW p, NEW t \in Vivos(p)
  PROVE  ~Sin(p, t)
<1>1. <<p, t>> \in tripulantes BY DEF Vivos
<1>2. <<p, t>> \in Trips BY <1>1 DEF TiposPatotas, Existen
<1>. QED BY <1>1, <1>2 DEF SinHilo

\* A trip moves down: it is where it was when the expulsion began, less the trip that goes.
LEMMA SitiosCorrer ==
  ASSUME Tipos, Nuevos, Sitios, Llegados, Ordenado, Correr
  PROVE  Sitios' /\ Llegados'
<1>1. PICK a : a = Siguiente(Principal) OBVIOUS
<1>2. PICK p : p = a.p OBVIOUS
<1>3. PICK t : t = a.t OBVIOUS
<1>4. PICK c : c = PorHacer OBVIOUS
<1>5. TiposPatotas /\ TiposHilos /\ SinHilo BY DEF Tipos, Nuevos
<1>6. a.tipo = "correr" /\ hilos' = Hecho(Principal) /\ UNCHANGED tripulantes /\ faltan' = faltan
  BY <1>1 DEF Correr, Le_toca, orden
<1>7. /\ p \in 1 .. Len(patotas) /\ t \in 1 .. Len(patotas[p].inicio)
      /\ Le_toca(Principal, Pasos) /\ Existen' = Existen /\ Hilo' = Hilo /\ Len(patotas') = Len(patotas)
      /\ patotas'[p].inicio = [patotas[p].inicio EXCEPT ![t] = patotas[p].inicio[t] - TAMANIO_TRIPULANTE]
      /\ patotas'[p].tareas = patotas[p].tareas
      /\ patotas'[p].memoria_ocupada = patotas[p].memoria_ocupada
      /\ \A q \in 1 .. Len(patotas) : q # p => patotas'[q] = patotas[q]
  <2>1. p \in 1 .. Len(patotas) /\ t \in 1 .. Len(patotas[p].inicio) BY <1>1, <1>2, <1>3, CorrerHace
  <2>2. Le_toca(Principal, Pasos) /\ Existen' = Existen /\ Hilo' = Hilo /\ Len(patotas') = Len(patotas)
    BY <1>1, CorrerHace
  <2>3. patotas'[p].inicio = [patotas[p].inicio EXCEPT ![t] = patotas[p].inicio[t] - TAMANIO_TRIPULANTE]
    BY <1>1, <1>2, <1>3, CorrerHace
  <2>4. /\ patotas'[p].tareas = patotas[p].tareas
        /\ patotas'[p].memoria_ocupada = patotas[p].memoria_ocupada
    BY <1>1, <1>2, CorrerHace
  <2>5. \A q \in 1 .. Len(patotas) : q # p => patotas'[q] = patotas[q] BY <1>1, <1>2, CorrerHace
  <2>. QED BY <2>1, <2>2, <2>3, <2>4, <2>5
<1>8. c \in Seq(Accesos) /\ c # << >> /\ c[1] = a /\ 1 \in DOMAIN c /\ PorHacer' = Tail(c)
  BY <1>1, <1>4, <1>5, <1>6, <1>7, PasoPrincipal
<1>9. PICK v : v = Tail(c) OBVIOUS
<1>10. EnOrden(c) /\ Alcances(c) BY <1>4 DEF Ordenado
<1>11. /\ \A q, u : Queda(v, "soltar", q, u) <=> Queda(c, "soltar", q, u)
       /\ \A q, u : Queda(v, "correr", q, u) <=> Queda(c, "correr", q, u) /\ ~(q = p /\ u = t)
       /\ \E s : Queda(c, "soltar", p, s) /\ s < t
  <2>1. \A q, u : Queda(v, "soltar", q, u) <=> Queda(c, "soltar", q, u)
    BY <1>6, <1>8, <1>9, <1>10, OrdenCorrer
  <2>2. \A q, u : Queda(v, "correr", q, u) <=> Queda(c, "correr", q, u) /\ ~(q = c[1].p /\ u = c[1].t)
    BY <1>6, <1>8, <1>9, <1>10, OrdenCorrer
  <2>3. \E s : Queda(c, "soltar", c[1].p, s) /\ s < c[1].t BY <1>6, <1>8, <1>9, <1>10, OrdenCorrer
  <2>. QED BY <1>2, <1>3, <1>8, <2>1, <2>2, <2>3
<1>12. ASSUME NEW q, NEW u
       PROVE  Corrido(q, u)' <=> (\E s : Queda(v, "soltar", q, s) /\ s < u) /\ ~Queda(v, "correr", q, u)
  BY <1>8, <1>9 DEF Corrido, Queda
<1>13. ASSUME NEW q, NEW u
       PROVE  Corrido(q, u) <=> (\E s : Queda(c, "soltar", q, s) /\ s < u) /\ ~Queda(c, "correr", q, u)
  BY <1>4 DEF Corrido
<1>14. Queda(c, "correr", p, t) BY <1>2, <1>3, <1>6, <1>8 DEF Queda
<1>15. ~Corrido(p, t) /\ Corrido(p, t)'
  <2>1. ~Corrido(p, t) BY <1>13, <1>14
  <2>2. Corrido(p, t)' BY <1>11, <1>12
  <2>. QED BY <2>1, <2>2
<1>16. ASSUME NEW q, NEW u, ~(q = p /\ u = t) PROVE Corrido(q, u)' <=> Corrido(q, u)
  BY <1>11, <1>12, <1>13, <1>16
<1>17. patotas[p] \in Patota /\ patotas[p].inicio \in Seq(Int) BY <1>5, <1>7, BaseBien DEF Patota
<1>18. PICK x : x = patotas[p].inicio[t] OBVIOUS
<1>19. x \in Int BY <1>7, <1>17, <1>18
<1>20. /\ patotas'[p].inicio[t] = x - TAMANIO_TRIPULANTE /\ Len(patotas'[p].inicio) = Len(patotas[p].inicio)
       /\ \A u \in 1 .. Len(patotas[p].inicio) : u # t => patotas'[p].inicio[u] = patotas[p].inicio[u]
  BY <1>7, <1>17, <1>18
<1>21. Sitio(p, t) = x /\ Sitio(p, t)' = x
  <2>1. Sitio(p, t) = x BY <1>15, <1>18, <1>19 DEF Sitio
  <2>2. Sitio(p, t)' = (x - TAMANIO_TRIPULANTE) + TAMANIO_TRIPULANTE BY <1>15, <1>20 DEF Sitio
  <2>. QED BY <1>19, <2>1, <2>2, Tamanios
<1>22. ASSUME NEW q \in 1 .. Len(patotas) PROVE SitiosDe(q)'
  <2>1. ASSUME NEW u \in Vivos(q) PROVE Sitio(q, u)' = Sitio(q, u)
    <3>1. CASE q = p /\ u = t BY <1>21, <3>1
    <3>2. CASE ~(q = p /\ u = t)
      <4>1. u \in 1 .. Len(patotas[q].inicio) BY <1>5, VivoExiste
      <4>2. patotas'[q].inicio[u] = patotas[q].inicio[u]
        <5>1. CASE q = p BY <1>20, <3>2, <4>1, <5>1
        <5>2. CASE q # p BY <1>7, <5>2
        <5>. QED BY <5>1, <5>2
      <4>. QED BY <1>16, <3>2, <4>2, SitioIgual
    <3>. QED BY <3>1, <3>2
  <2>2. Vivos(q)' = Vivos(q) BY <1>6 DEF Vivos
  <2>3. /\ patotas'[q].tareas = patotas[q].tareas
        /\ patotas'[q].memoria_ocupada = patotas[q].memoria_ocupada
    BY <1>7
  <2>. QED BY <2>1, <2>2, <2>3, SitiosIguales DEF Sitios
<1>23. Sitios' BY <1>7, <1>22 DEF Sitios
<1>24. patotas'[p].inicio[t] # 0 /\ ~Sin(p, t)
  <2>1. PICK s : Queda(c, "soltar", p, s) /\ s < t BY <1>11
  <2>2. t \in Vivos(p) BY <1>4, <1>5, <1>10, <1>14, VivoSoltar
  <2>3. s \in Vivos(p) BY <1>4, <1>5, <1>10, <2>1, VivoSoltar
  <2>4. ~Sin(p, t) BY <1>5, <2>2, VivoLlegado
  <2>5. PICK y : y = Sitio(p, s) OBVIOUS
  <2>6. PICK b : b = Base(p) OBVIOUS
  <2>7. y \in Int /\ b \in Nat BY <1>5, <2>3, <2>5, <2>6, VivoExiste
  <2>8. b >= TAMANIO_PATOTA BY <1>5, <1>7, <2>6, BaseBien
  <2>9. b <= y /\ y + TAMANIO_TRIPULANTE <= x
    <3>1. SitiosDe(p) BY <1>7 DEF Sitios
    <3>2. b <= y BY <2>3, <2>5, <2>6, <3>1 DEF SitiosDe
    <3>3. y + TAMANIO_TRIPULANTE <= x BY <1>21, <2>1, <2>2, <2>3, <2>5, <3>1 DEF SitiosDe
    <3>. QED BY <3>2, <3>3
  <2>10. x - TAMANIO_TRIPULANTE # 0 BY <1>19, <2>7, <2>8, <2>9, Tamanios
  <2>. QED BY <1>20, <2>4, <2>10
<1>25. ASSUME NEW q \in 1 .. Len(patotas), NEW u \in 1 .. Len(patotas'[q].inicio)
       PROVE  patotas'[q].inicio[u] = 0 <=> Sin(q, u)'
  <2>1. Len(patotas'[q].inicio) = Len(patotas[q].inicio)
    <3>1. CASE q = p BY <1>20, <3>1
    <3>2. CASE q # p BY <1>7, <3>2
    <3>. QED BY <3>1, <3>2
  <2>2. Sin(q, u)' <=> Sin(q, u) BY <1>6, <1>7, <2>1, SinQuieto
  <2>3. CASE q = p /\ u = t BY <1>24, <2>2, <2>3
  <2>4. CASE ~(q = p /\ u = t)
    <3>1. patotas'[q].inicio[u] = patotas[q].inicio[u]
      <4>1. CASE q = p BY <1>20, <2>1, <2>4, <4>1
      <4>2. CASE q # p BY <1>7, <4>2
      <4>. QED BY <4>1, <4>2
    <3>2. patotas[q].inicio[u] = 0 <=> Sin(q, u) BY <2>1 DEF Llegados
    <3>. QED BY <2>2, <3>1, <3>2
  <2>. QED BY <2>3, <2>4
<1>26. Llegados' BY <1>7, <1>25 DEF Llegados
<1>. QED BY <1>23, <1>26

\* The trip that goes leaves its place to the ones behind it, which have moved down.
LEMMA SitiosSoltar ==
  ASSUME Tipos, Sitios, Llegados, Ordenado, Soltar
  PROVE  /\ Sitios' /\ Llegados'
         /\ Siguiente(Principal).t \in Vivos(Siguiente(Principal).p)
<1>1. PICK a : a = Siguiente(Principal) OBVIOUS
<1>2. PICK p : p = a.p OBVIOUS
<1>3. PICK s : s = a.t OBVIOUS
<1>4. PICK c : c = PorHacer OBVIOUS
<1>5. TiposPatotas /\ TiposHilos BY DEF Tipos
<1>6. PICK z : z = patotas[p].memoria_ocupada OBVIOUS
<1>7. a.tipo = "soltar" /\ hilos' = Hecho(Principal) /\ tripulantes' = tripulantes \ {<<p, s>>} /\ faltan' = faltan
  BY <1>1, <1>2, <1>3 DEF Soltar, Le_toca, orden
<1>8. /\ p \in 1 .. Len(patotas) /\ Le_toca(Principal, Pasos) /\ Existen' = Existen /\ Hilo' = Hilo
      /\ Len(patotas') = Len(patotas)
      /\ patotas'[p].inicio = patotas[p].inicio /\ patotas'[p].tareas = patotas[p].tareas
      /\ patotas'[p].memoria_ocupada = z - TAMANIO_TRIPULANTE
      /\ \A q \in 1 .. Len(patotas) : q # p => patotas'[q] = patotas[q]
  <2>1. PICK x : x = patotas[p].memoria_ocupada - TAMANIO_TRIPULANTE OBVIOUS
  <2>2. /\ p \in 1 .. Len(patotas) /\ Le_toca(Principal, Pasos) /\ Existen' = Existen /\ Hilo' = Hilo
        /\ Len(patotas') = Len(patotas)
    BY <1>1, <1>2, <2>1, SoltarHace
  <2>3. /\ patotas'[p].inicio = patotas[p].inicio /\ patotas'[p].tareas = patotas[p].tareas
        /\ patotas'[p].memoria_ocupada = x
    BY <1>1, <1>2, <2>1, SoltarHace
  <2>4. \A q \in 1 .. Len(patotas) : q # p => patotas'[q] = patotas[q] BY <1>1, <1>2, <2>1, SoltarHace
  <2>. QED BY <1>6, <2>1, <2>2, <2>3, <2>4
<1>9. c \in Seq(Accesos) /\ c # << >> /\ c[1] = a /\ 1 \in DOMAIN c /\ PorHacer' = Tail(c)
  BY <1>1, <1>4, <1>5, <1>7, <1>8, PasoPrincipal
<1>10. PICK v : v = Tail(c) OBVIOUS
<1>11. EnOrden(c) /\ Alcances(c) BY <1>4 DEF Ordenado
<1>12. /\ \A i \in DOMAIN v : v[i].tipo \notin {"correr", "soltar"}
       /\ \A q, u : Queda(c, "soltar", q, u) <=> q = p /\ u = s
       /\ \A q, u : ~Queda(c, "correr", q, u)
  <2>1. \A i \in DOMAIN v : v[i].tipo \notin {"correr", "soltar"} BY <1>7, <1>9, <1>10, <1>11, OrdenSoltar
  <2>2. \A q, u : Queda(c, "soltar", q, u) <=> q = c[1].p /\ u = c[1].t
    BY <1>7, <1>9, <1>10, <1>11, OrdenSoltar
  <2>3. \A q, u : ~Queda(c, "correr", q, u) BY <1>7, <1>9, <1>10, <1>11, OrdenSoltar
  <2>. QED BY <1>2, <1>3, <1>9, <2>1, <2>2, <2>3
<1>13. \A q, u : ~Corrido(q, u)' BY <1>9, <1>10, <1>12 DEF Corrido, Queda
<1>14. \A u : Corrido(p, u) <=> s < u BY <1>4, <1>12 DEF Corrido
<1>15. \A q, u : q # p => ~Corrido(q, u) BY <1>4, <1>12 DEF Corrido
<1>16. s \in Vivos(p) BY <1>4, <1>5, <1>11, <1>12, VivoSoltar
<1>17. Vivos(p)' = Vivos(p) \ {s} /\ \A q : q # p => Vivos(q)' = Vivos(q) BY <1>7, <1>16, VivosMenos
<1>18. PICK b : b = Base(p) OBVIOUS
<1>19. PICK T : T = TAMANIO_TRIPULANTE OBVIOUS
<1>20. PICK y : y = Sitio(p, s) OBVIOUS
<1>21. /\ s \in Nat /\ y \in Int /\ b \in Nat /\ z \in Int /\ T \in Nat /\ T > 0
       /\ SitiosDe(p) /\ b <= y /\ y + T <= z
  <2>1. SitiosDe(p) BY <1>8 DEF Sitios
  <2>2. b <= y /\ y + T <= z BY <1>6, <1>16, <1>18, <1>19, <1>20, <2>1 DEF SitiosDe
  <2>3. s \in Nat /\ y \in Int /\ b \in Nat /\ z \in Int BY <1>5, <1>6, <1>16, <1>18, <1>20, VivoExiste
  <2>. QED BY <1>19, <2>1, <2>2, <2>3, Tamanios
<1>22. ASSUME NEW u \in Vivos(p), u # s
       PROVE  /\ u \in Nat /\ Sitio(p, u)' \in Int
              /\ s < u => Sitio(p, u) = Sitio(p, u)' + T /\ y <= Sitio(p, u)' /\ Sitio(p, u)' + T + T <= z
              /\ u < s => Sitio(p, u) = Sitio(p, u)' /\ b <= Sitio(p, u)' /\ Sitio(p, u)' + T <= y
  <2>1. PICK x : x = patotas[p].inicio[u] OBVIOUS
  <2>2. PICK r : r = Sitio(p, u) OBVIOUS
  <2>3. x \in Int /\ r \in Int /\ u \in Nat BY <1>5, <1>22, <2>1, <2>2, VivoExiste
  <2>4. Sitio(p, u)' = x
    <3>1. patotas'[p].inicio[u] = x BY <1>8, <2>1
    <3>. QED BY <1>13, <2>3, <3>1 DEF Sitio
  <2>5. b <= r /\ r + T <= z BY <1>6, <1>18, <1>19, <1>21, <1>22, <2>2 DEF SitiosDe
  <2>6. ASSUME s < u PROVE r = x + T /\ y <= x /\ x + T + T <= z
    <3>1. r = x + T BY <1>14, <1>19, <2>1, <2>2, <2>6 DEF Sitio
    <3>2. y + T <= r BY <1>16, <1>19, <1>20, <1>21, <1>22, <2>2, <2>6 DEF SitiosDe
    <3>. QED BY <1>21, <2>3, <2>5, <3>1, <3>2
  <2>7. ASSUME u < s PROVE r = x /\ b <= x /\ x + T <= y
    <3>1. ~(s < u) BY <1>21, <2>3, <2>7
    <3>2. r = x BY <1>14, <2>1, <2>2, <2>3, <3>1 DEF Sitio
    <3>3. r + T <= y BY <1>16, <1>19, <1>20, <1>21, <1>22, <2>2, <2>7 DEF SitiosDe
    <3>. QED BY <2>5, <3>2, <3>3
  <2>. QED BY <2>2, <2>3, <2>4, <2>6, <2>7
<1>23. SitiosDe(p)'
  <2>1. Base(p)' = b BY <1>8, <1>18 DEF Base
  <2>2. ASSUME NEW u \in Vivos(p)'
        PROVE  Base(p)' <= Sitio(p, u)' /\ Sitio(p, u)' + TAMANIO_TRIPULANTE <= patotas'[p].memoria_ocupada
    <3>1. u \in Vivos(p) /\ u # s BY <1>17
    <3>2. PICK x : x = Sitio(p, u)' OBVIOUS
    <3>3. /\ u \in Nat /\ x \in Int
          /\ s < u => y <= x /\ x + T + T <= z
          /\ u < s => b <= x /\ x + T <= y
      BY <1>22, <3>1, <3>2
    <3>4. b <= x /\ x + T <= z - T BY <1>21, <3>1, <3>3
    <3>. QED BY <1>8, <1>19, <2>1, <3>2, <3>4
  <2>3. ASSUME NEW u \in Vivos(p)', NEW w \in Vivos(p)', u < w
        PROVE  Sitio(p, u)' + TAMANIO_TRIPULANTE <= Sitio(p, w)'
    <3>1. u \in Vivos(p) /\ u # s /\ w \in Vivos(p) /\ w # s BY <1>17
    <3>2. PICK x : x = Sitio(p, u)' OBVIOUS
    <3>3. PICK r : r = Sitio(p, w)' OBVIOUS
    <3>4. PICK f : f = Sitio(p, u) OBVIOUS
    <3>5. PICK g : g = Sitio(p, w) OBVIOUS
    <3>6. f + T <= g BY <1>19, <1>21, <2>3, <3>1, <3>4, <3>5 DEF SitiosDe
    <3>7. /\ u \in Nat /\ x \in Int
          /\ s < u => f = x + T
          /\ u < s => f = x /\ x + T <= y
      BY <1>22, <3>1, <3>2, <3>4
    <3>8. /\ w \in Nat /\ r \in Int
          /\ s < w => g = r + T /\ y <= r
          /\ w < s => g = r
      BY <1>22, <3>1, <3>3, <3>5
    <3>9. x + T <= r
      <4>1. CASE s < u
        <5>1. s < w BY <1>21, <2>3, <3>7, <3>8, <4>1
        <5>. QED BY <1>21, <3>6, <3>7, <3>8, <4>1, <5>1
      <4>2. CASE u < s
        <5>1. CASE s < w BY <1>21, <3>7, <3>8, <4>2, <5>1
        <5>2. CASE w < s BY <1>21, <3>6, <3>7, <3>8, <4>2, <5>2
        <5>. QED BY <1>21, <3>1, <3>8, <5>1, <5>2
      <4>. QED BY <1>21, <3>1, <3>7, <4>1, <4>2
    <3>. QED BY <1>19, <3>2, <3>3, <3>9
  <2>. QED BY <2>2, <2>3 DEF SitiosDe
<1>24. ASSUME NEW q \in 1 .. Len(patotas), q # p PROVE SitiosDe(q)'
  <2>1. patotas'[q] = patotas[q] /\ Vivos(q)' = Vivos(q) BY <1>8, <1>17, <1>24
  <2>2. ASSUME NEW u \in Vivos(q) PROVE Sitio(q, u)' = Sitio(q, u)
    <3>1. ~Corrido(q, u) /\ ~Corrido(q, u)' BY <1>13, <1>15, <1>24
    <3>. QED BY <2>1, <3>1, SitioIgual
  <2>. QED BY <2>1, <2>2, SitiosIguales DEF Sitios
<1>25. Sitios' BY <1>8, <1>23, <1>24 DEF Sitios
<1>26. Llegados'
  <2>1. \A q \in 1 .. Len(patotas) : patotas'[q].inicio = patotas[q].inicio BY <1>8
  <2>. QED BY <1>7, <1>8, <2>1, LlegadosIguales
<1>. QED BY <1>1, <1>2, <1>3, <1>16, <1>25, <1>26

\* The main loop begins a message.
LEMMA EmpiezaPrincipal ==
  ASSUME TiposHilos, Ocioso(Principal), NEW v, Empezar(Principal, v)
  PROVE  PorHacer = << >> /\ PorHacer' = v
<1>1. Principal \in Hilos /\ hilos \in [Hilos -> Hilo] BY DEF Hilos, TiposHilos
<1>2. hilos[Principal] \in Hilo BY <1>1
<1>3. PICK r : r = [hilos[Principal] EXCEPT !.accesos = v] OBVIOUS
<1>4. r.accesos = v BY <1>2, <1>3 DEF Hilo
<1>5. hilos'[Principal] = r BY <1>1, <1>3 DEF Empezar
<1>. QED BY <1>4, <1>5 DEF PorHacer, Ocioso

\* The accesses of the logs and of the copies of a trip are inside the patota or relative to the trip.
LEMMA LecturaDentro ==
  ASSUME TiposPatotas', NEW H, NEW a \in Lecturas(Len(patotas'), H)
  PROVE  /\ a.tipo \in Memoria /\ a.tipo \notin {"correr", "soltar"} /\ (a.t # 0 => <<a.p, a.t>> \in H)
         /\ a.t = 0 => a.p \in 1 .. Len(patotas') /\ a.desde \in Int /\ a.bytes \in Nat /\ Dentro(a, Base(a.p)')
<1>1. /\ a.tipo \in Memoria /\ a.p \in 1 .. Len(patotas') /\ a.desde \in Int /\ a.bytes \in Nat
      /\ (a.t # 0 => <<a.p, a.t>> \in H)
      /\ a.t = 0 => a.desde >= 0 /\ a.desde + a.bytes <= TAMANIO_PATOTA
  BY DEF Lecturas, AccesosDe
<1>2. patotas'[a.p].tareas \in Nat
  <2>1. patotas'[a.p] \in Patota' BY <1>1 DEF TiposPatotas
  <2>. QED BY <2>1, Tamanios DEF Patota
<1>3. a.t = 0 => Dentro(a, Base(a.p)')
  <2>1. PICK b : b = Base(a.p)' OBVIOUS
  <2>2. b = TAMANIO_PATOTA + patotas'[a.p].tareas BY <2>1 DEF Base
  <2>3. a.t = 0 => Dentro(a, b) BY <1>1, <1>2, <2>2, Tamanios DEF Dentro
  <2>. QED BY <2>1, <2>3
<1>. QED BY <1>1, <1>3 DEF Memoria

\* what ELIM_T does with trip i
Mudar(p, i) == LeerTodo(p, i) \o <<Paso("correr", p, i)>> \o EscribirTodo(p, i)

\* m reads trip k, moves it down once, and writes it
Mudanza(m, p, k) ==
  /\ Len(m) = 13 /\ m[7].tipo = "correr"
  /\ \A l \in 1 .. 13 : m[l].p = p /\ m[l].t = k /\ (m[l].tipo \in Memoria \/ (l = 7 /\ m[l].tipo = "correr"))

\* A trip is read, moved down and written.
LEMMA MudarBien ==
  ASSUME NEW P \in Nat, NEW p \in 1 .. P, NEW H, NEW k \in Nat, <<p, k>> \in H, k # 0
  PROVE  Mudar(p, k) \in Seq(AccesosDe(P, H)) /\ Mudanza(Mudar(p, k), p, k)
<1>1. PICK x : x = LeerTodo(p, k) OBVIOUS
<1>2. PICK y : y = EscribirTodo(p, k) OBVIOUS
<1>3. PICK a : a = Paso("correr", p, k) OBVIOUS
<1>4. PICK A : A = AccesosDe(P, H) OBVIOUS
<1>5. x \in Seq(A) /\ y \in Seq(A)
  <2>1. x \in Seq(Lecturas(P, H)) /\ y \in Seq(Lecturas(P, H)) BY <1>1, <1>2, TodoBien
  <2>2. Lecturas(P, H) \subseteq A BY <1>4 DEF Lecturas
  <2>. QED BY <2>1, <2>2, SeqMonotonic
<1>6. a \in A /\ a.tipo = "correr" /\ a.p = p /\ a.t = k
  <2>1. Paso("correr", p, k) \in AccesosDe(P, H) BY AccesoBien DEF Pasos
  <2>. QED BY <1>3, <1>4, <2>1 DEF Paso, Acceso
<1>7. Len(x) = 6 /\ Len(y) = 6 /\ \A l \in 1 .. 6 : /\ x[l].p = p /\ x[l].t = k /\ x[l].tipo \in Memoria
                                                    /\ y[l].p = p /\ y[l].t = k /\ y[l].tipo \in Memoria
  BY <1>1, <1>2 DEF LeerTodo, EscribirTodo, Leer, Escribir, LeerEstado, EscribirEstado, Acceso, Memoria
<1>8. PICK w : w = <<a>> OBVIOUS
<1>9. w \in Seq(A) /\ Len(w) = 1 /\ w[1] = a BY <1>6, <1>8
<1>10. PICK g : g = x \o w OBVIOUS
<1>11. g \in Seq(A) /\ Len(g) = 7 /\ \A l \in 1 .. 7 : g[l] = IF l <= 6 THEN x[l] ELSE w[l - 6]
  <2>1. g \in Seq(A) /\ Len(g) = Len(x) + Len(w) BY <1>5, <1>9, <1>10, ConcatProperties
  <2>2. \A l \in 1 .. Len(x) + Len(w) : g[l] = IF l <= Len(x) THEN x[l] ELSE w[l - Len(x)]
    BY <1>5, <1>9, <1>10, ConcatProperties
  <2>. QED BY <1>7, <1>9, <2>1, <2>2
<1>12. PICK m : m = g \o y OBVIOUS
<1>13. m \in Seq(A) /\ Len(m) = 13 /\ \A l \in 1 .. 13 : m[l] = IF l <= 7 THEN g[l] ELSE y[l - 7]
  <2>1. m \in Seq(A) /\ Len(m) = Len(g) + Len(y) BY <1>5, <1>11, <1>12, ConcatProperties
  <2>2. \A l \in 1 .. Len(g) + Len(y) : m[l] = IF l <= Len(g) THEN g[l] ELSE y[l - Len(g)]
    BY <1>5, <1>11, <1>12, ConcatProperties
  <2>. QED BY <1>7, <1>11, <2>1, <2>2
<1>14. Mudar(p, k) = m BY <1>1, <1>2, <1>3, <1>8, <1>10, <1>12 DEF Mudar
<1>15. m[7] = a /\ \A l \in 1 .. 13 : /\ l <= 6 => l \in 1 .. 6 /\ m[l] = x[l]
                                      /\ l > 7 => l - 7 \in 1 .. 6 /\ m[l] = y[l - 7]
                                      /\ ~(l <= 6) /\ ~(l > 7) => l = 7
  <2>1. m[7] = a BY <1>9, <1>11, <1>13
  <2>2. ASSUME NEW l \in 1 .. 13, l <= 6 PROVE l \in 1 .. 6 /\ m[l] = x[l] BY <1>11, <1>13, <2>2
  <2>3. ASSUME NEW l \in 1 .. 13, l > 7 PROVE l - 7 \in 1 .. 6 /\ m[l] = y[l - 7] BY <1>13, <2>3
  <2>. QED BY <2>1, <2>2, <2>3
<1>16. ASSUME NEW l \in 1 .. 13
       PROVE  m[l].p = p /\ m[l].t = k /\ (m[l].tipo \in Memoria \/ (l = 7 /\ m[l].tipo = "correr"))
  BY <1>6, <1>7, <1>15
<1>17. Mudanza(m, p, k) BY <1>6, <1>13, <1>15, <1>16 DEF Mudanza
<1>. QED BY <1>4, <1>13, <1>14, <1>17

\* the trips of p behind t, each with its one move
Mudados(f, p, t) ==
  /\ \A i \in DOMAIN f : /\ f[i].tipo \in Memoria \union {"correr"} /\ f[i].p = p
                         /\ f[i].t \in Nat /\ t < f[i].t /\ <<p, f[i].t>> \in tripulantes
  /\ \A i, j \in DOMAIN f : f[i].tipo = "correr" /\ f[j].tipo = "correr" /\ f[i].t = f[j].t => i = j
  /\ \A k \in Vivos(p) : t < k => \E j \in DOMAIN f : f[j].tipo = "correr" /\ f[j].t = k

\* The trips behind the one that is expelled move down, each once.
LEMMA MudarTodos ==
  ASSUME TiposPatotas, NEW p \in 1 .. Len(patotas), NEW t \in Nat, NEW n, n = Len(patotas[p].inicio), NEW f,
         f = FlattenSeq([i \in 1 .. n |-> IF i > t /\ <<p, i>> \in tripulantes THEN Mudar(p, i) ELSE <<>>])
  PROVE  f \in Seq(Accesos) /\ Mudados(f, p, t)
<1>1. PICK x : x = [i \in 1 .. n |-> IF i > t /\ <<p, i>> \in tripulantes THEN Mudar(p, i) ELSE <<>>] OBVIOUS
<1>2. PICK P : P = Len(patotas) OBVIOUS
<1>3. P \in Nat /\ p \in 1 .. P /\ tripulantes \subseteq Existen /\ n \in Nat /\ Accesos = AccesosDe(P, Existen)
  <2>1. patotas[p] \in Patota BY BaseBien
  <2>2. patotas[p].inicio \in Seq(Int) BY <2>1 DEF Patota
  <2>. QED BY <1>2, <2>2 DEF TiposPatotas, Accesos
<1>4. ASSUME NEW i \in 1 .. n, i > t, <<p, i>> \in tripulantes PROVE x[i] \in Seq(Accesos) /\ Mudanza(x[i], p, i)
  <2>1. x[i] = Mudar(p, i) BY <1>1, <1>4
  <2>2. <<p, i>> \in Existen /\ i \in Nat /\ i # 0 BY <1>3, <1>4
  <2>3. Mudar(p, i) \in Seq(AccesosDe(P, Existen)) /\ Mudanza(Mudar(p, i), p, i) BY <1>3, <2>2, MudarBien
  <2>. QED BY <1>3, <2>1, <2>3
<1>5. ASSUME NEW i \in 1 .. n, ~(i > t /\ <<p, i>> \in tripulantes) PROVE x[i] = << >> BY <1>1, <1>5
<1>6. x \in [1 .. n -> Seq(Accesos)]
  <2>1. << >> \in Seq(Accesos) OBVIOUS
  <2>2. \A i \in 1 .. n : x[i] \in Seq(Accesos) BY <1>4, <1>5, <2>1
  <2>3. x = [i \in 1 .. n |-> x[i]] BY <1>1
  <2>. QED BY <2>2, <2>3
<1>7. f = FlattenSeq(x) BY <1>1
<1>8. PICK b, o : Junta(Accesos, x, n, f, b, o)
  <2>1. \E b, o : Junta(Accesos, x, n, FlattenSeq(x), b, o) BY <1>3, <1>6, Aplanar
  <2>. QED BY <1>7, <2>1
<1>9. f \in Seq(Accesos) /\ DOMAIN f = 1 .. Len(f) /\ Len(f) \in Nat BY <1>8 DEF Junta
<1>10. ASSUME NEW i \in DOMAIN f
       PROVE  /\ b[i] \in 1 .. n /\ b[i] > t /\ <<p, b[i]>> \in tripulantes /\ f[i] = x[b[i]][o[i]] /\ o[i] \in 1 .. 13
              /\ f[i].p = p /\ f[i].t = b[i] /\ (f[i].tipo \in Memoria \/ (o[i] = 7 /\ f[i].tipo = "correr"))
  <2>1. b[i] \in 1 .. n /\ o[i] \in 1 .. Len(x[b[i]]) /\ f[i] = x[b[i]][o[i]] BY <1>8, <1>9 DEF Junta
  <2>2. b[i] > t /\ <<p, b[i]>> \in tripulantes
    <3>1. ASSUME ~(b[i] > t /\ <<p, b[i]>> \in tripulantes) PROVE FALSE
      <4>1. x[b[i]] = << >> BY <1>5, <2>1, <3>1
      <4>2. Len(x[b[i]]) = 0 BY <4>1
      <4>. QED BY <2>1, <4>2
    <3>. QED BY <3>1
  <2>3. Mudanza(x[b[i]], p, b[i]) BY <1>4, <2>1, <2>2
  <2>4. o[i] \in 1 .. 13 BY <2>1, <2>3 DEF Mudanza
  <2>5. f[i].p = p /\ f[i].t = b[i] /\ (f[i].tipo \in Memoria \/ (o[i] = 7 /\ f[i].tipo = "correr"))
    BY <2>1, <2>3, <2>4 DEF Mudanza
  <2>. QED BY <2>1, <2>2, <2>4, <2>5
<1>13. ASSUME NEW i \in DOMAIN f PROVE b[i] \in Nat
  <2>1. b[i] \in 1 .. n BY <1>10
  <2>2. n \in Nat BY <1>3
  <2>. QED BY <2>1, <2>2
<1>11. ASSUME NEW i \in DOMAIN f, NEW j \in DOMAIN f, f[i].tipo = "correr", f[j].tipo = "correr", f[i].t = f[j].t
       PROVE  i = j
  <2>1. "correr" \notin Memoria BY DEF Memoria
  <2>2. b[i] = b[j] /\ o[i] = 7 /\ o[j] = 7 BY <1>10, <1>11, <2>1
  <2>3. i < j => b[i] < b[j] \/ (b[i] = b[j] /\ o[i] < o[j]) BY <1>8, <1>9 DEF Junta
  <2>4. j < i => b[j] < b[i] \/ (b[j] = b[i] /\ o[j] < o[i]) BY <1>8, <1>9 DEF Junta
  <2>5. b[i] \in Int BY <1>13
  <2>. QED BY <1>9, <2>2, <2>3, <2>4, <2>5
<1>12. ASSUME NEW k \in Vivos(p), t < k PROVE \E j \in DOMAIN f : f[j].tipo = "correr" /\ f[j].t = k
  <2>1. k \in 1 .. n /\ <<p, k>> \in tripulantes BY VivoExiste, VivosBien
  <2>0. k > t BY <1>12, VivosBien
  <2>2. x[k][7].tipo = "correr" /\ Len(x[k]) = 13 BY <1>4, <2>0, <2>1 DEF Mudanza
  <2>3. 7 \in 1 .. Len(x[k]) BY <2>2
  <2>4. PICK j \in 1 .. Len(f) : b[j] = k /\ o[j] = 7 BY <1>8, <2>1, <2>3 DEF Junta
  <2>5. f[j] = x[k][7] /\ f[j].t = k BY <1>9, <1>10, <2>4
  <2>. QED BY <1>9, <2>2, <2>4, <2>5
<1>. QED BY <1>9, <1>10, <1>11, <1>12, <1>13 DEF Mudados

\* The message of an expulsion: the trips behind move down, trip t goes, its thread ends, and
\* the log is written without it.
Expulsa(f, y, v, k, p, t) ==
  /\ k \in Nat /\ DOMAIN f = 1 .. k /\ DOMAIN v \subseteq Nat
  /\ \A i \in DOMAIN f : i \in DOMAIN v /\ v[i] = f[i]
  /\ k + 1 \in DOMAIN v /\ v[k + 1].tipo = "soltar" /\ v[k + 1].p = p /\ v[k + 1].t = t
  /\ \A i \in DOMAIN v :
       \/ i \in DOMAIN f
       \/ i = k + 1
       \/ i > k + 1 /\ v[i].tipo = "cancelar"
       \/ i > k + 1 /\ \E j \in DOMAIN y : v[i] = y[j]

\* What ELIM_T leaves to the main loop: the trips behind the expelled one move down, and it goes.
LEMMA MensajeElimT ==
  ASSUME Tipos, NEW trip \in tripulantes, ELIM_T(trip[1], trip[2]), NEW p, p = trip[1], NEW t, t = trip[2]
  PROVE  /\ PorHacer = << >>
         /\ \E f, y, v, k :
              /\ f = FlattenSeq([i \in 1 .. Len(patotas[p].inicio) |->
                       IF i > t /\ <<p, i>> \in tripulantes THEN Mudar(p, i) ELSE <<>>])
              /\ y \in Seq(Lecturas(Len(patotas), tripulantes \ {<<p, t>>}))
              /\ PorHacer' = v /\ Expulsa(f, y, v, k, p, t)
<1>1. PICK f : f = FlattenSeq([i \in 1 .. Len(patotas[p].inicio) |->
                     IF i > t /\ <<p, i>> \in tripulantes THEN Mudar(p, i) ELSE <<>>])
  OBVIOUS
<1>2. PICK y : y = loggear_data(Len(patotas), tripulantes \ {<<p, t>>}) OBVIOUS
<1>3. PICK a : a = Paso("soltar", p, t) OBVIOUS
<1>4. PICK c : c = Paso("cancelar", p, t) OBVIOUS
<1>5. PICK w : w = <<a, c>> OBVIOUS
<1>6. PICK g : g = f \o w OBVIOUS
<1>7. PICK v : v = g \o y OBVIOUS
<1>8. TiposPatotas /\ TiposHilos BY DEF Tipos
<1>9. Ocioso(Principal) /\ Empezar(Principal, v)
  BY <1>1, <1>2, <1>3, <1>4, <1>5, <1>6, <1>7 DEF ELIM_T, Mudar
<1>10. PorHacer = << >> /\ PorHacer' = v BY <1>8, <1>9, EmpiezaPrincipal
<1>11. p \in 1 .. Len(patotas) /\ t \in Nat /\ t # 0 /\ <<p, t>> \in Existen /\ Len(patotas) \in Nat
  <2>1. trip \in Existen /\ trip \in Trips BY <1>8 DEF TiposPatotas, Existen
  <2>2. trip = <<p, t>> /\ t \in 1 .. MaxTripulantes BY <2>1 DEF Trips
  <2>3. p \in 1 .. Len(patotas) BY <2>1 DEF Existen
  <2>. QED BY <1>8, <2>1, <2>2, <2>3, Tamanios DEF TiposPatotas
<1>12. f \in Seq(Accesos) BY <1>1, <1>8, <1>11, MudarTodos
<1>13. PICK L : L = Lecturas(Len(patotas), tripulantes \ {<<p, t>>}) OBVIOUS
<1>14. y \in Seq(L) /\ L \subseteq Accesos
  <2>1. tripulantes \ {<<p, t>>} \subseteq Existen /\ Trips \subseteq Nat \X (Nat \ {0})
    BY <1>8, Tamanios DEF TiposPatotas, Trips
  <2>2. /\ tripulantes \ {<<p, t>>} \in SUBSET (Nat \X (Nat \ {0}))
        /\ \A x \in tripulantes \ {<<p, t>>} : x[1] \in 1 .. Len(patotas)
    BY <2>1 DEF Existen
  <2>3. y \in Seq(L) BY <1>2, <1>11, <1>13, <2>2, LogBien
  <2>4. Lecturas(Len(patotas), tripulantes \ {<<p, t>>}) \subseteq Lecturas(Len(patotas), Existen)
    <3>1. PICK H : H = tripulantes \ {<<p, t>>} OBVIOUS
    <3>2. PICK P : P = Len(patotas) OBVIOUS
    <3>3. P \in Nat /\ P <= P /\ H \subseteq Existen BY <1>11, <2>1, <3>1, <3>2
    <3>4. Lecturas(P, H) \subseteq Lecturas(P, Existen) BY ONLY <3>3, AccesosMas
    <3>. QED BY <3>1, <3>2, <3>4
  <2>5. Lecturas(Len(patotas), Existen) \subseteq Accesos BY DEF Lecturas, Accesos
  <2>. QED BY <1>13, <2>3, <2>4, <2>5
<1>15. a \in Accesos /\ c \in Accesos /\ a.tipo = "soltar" /\ a.p = p /\ a.t = t /\ c.tipo = "cancelar"
  <2>1. Paso("soltar", p, t) \in Accesos /\ Paso("cancelar", p, t) \in Accesos
    BY <1>11, AccesoBien DEF Pasos, Accesos
  <2>. QED BY <1>3, <1>4, <2>1 DEF Paso, Acceso
<1>16. w \in Seq(Accesos) /\ Len(w) = 2 /\ w[1] = a /\ w[2] = c BY <1>5, <1>15
<1>17. y \in Seq(Accesos) BY <1>14, SeqMonotonic
<1>18. /\ g \in Seq(Accesos) /\ Len(g) = Len(f) + 2
       /\ \A i \in 1 .. Len(f) + 2 : g[i] = IF i <= Len(f) THEN f[i] ELSE w[i - Len(f)]
  <2>1. g \in Seq(Accesos) /\ Len(g) = Len(f) + Len(w) BY <1>6, <1>12, <1>16, ConcatProperties
  <2>2. \A i \in 1 .. Len(f) + Len(w) : g[i] = IF i <= Len(f) THEN f[i] ELSE w[i - Len(f)]
    BY <1>6, <1>12, <1>16, ConcatProperties
  <2>. QED BY <1>16, <2>1, <2>2
<1>19. /\ v \in Seq(Accesos) /\ Len(v) = Len(g) + Len(y)
       /\ \A i \in 1 .. Len(g) + Len(y) : v[i] = IF i <= Len(g) THEN g[i] ELSE y[i - Len(g)]
  <2>1. v \in Seq(Accesos) /\ Len(v) = Len(g) + Len(y) BY <1>7, <1>17, <1>18, ConcatProperties
  <2>2. \A i \in 1 .. Len(g) + Len(y) : v[i] = IF i <= Len(g) THEN g[i] ELSE y[i - Len(g)]
    BY <1>7, <1>17, <1>18, ConcatProperties
  <2>. QED BY <2>1, <2>2
<1>20. PICK k : k = Len(f) OBVIOUS
<1>21. PICK n : n = Len(y) OBVIOUS
<1>22. k \in Nat /\ n \in Nat /\ DOMAIN f = 1 .. k /\ DOMAIN y = 1 .. n BY <1>12, <1>17, <1>20, <1>21
<1>23. DOMAIN v = 1 .. k + 2 + n /\ Len(g) = k + 2
  <2>1. DOMAIN v = 1 .. Len(v) BY <1>19
  <2>. QED BY <1>18, <1>19, <1>20, <1>21, <2>1
<1>24. ASSUME NEW i \in DOMAIN f PROVE i \in DOMAIN v /\ v[i] = f[i]
  <2>1. i \in 1 .. k + 2 /\ i <= k + 2 /\ i <= k /\ i \in 1 .. k + 2 + n BY <1>22
  <2>2. v[i] = g[i] BY <1>19, <1>21, <1>23, <2>1
  <2>3. g[i] = f[i] BY <1>18, <1>20, <2>1
  <2>. QED BY <1>23, <2>1, <2>2, <2>3
<1>25. k + 1 \in DOMAIN v /\ v[k + 1] = a
  <2>1. k + 1 \in 1 .. k + 2 /\ k + 1 <= k + 2 /\ ~(k + 1 <= k) /\ k + 1 \in 1 .. k + 2 + n /\ (k + 1) - k = 1
    BY <1>22
  <2>2. v[k + 1] = g[k + 1] BY <1>19, <1>21, <1>23, <2>1
  <2>3. g[k + 1] = w[1] BY <1>18, <1>20, <2>1
  <2>. QED BY <1>16, <1>23, <2>1, <2>2, <2>3
<1>26. ASSUME NEW i \in DOMAIN v
       PROVE  \/ i \in DOMAIN f
              \/ i = k + 1
              \/ i > k + 1 /\ v[i].tipo = "cancelar"
              \/ i > k + 1 /\ \E j \in DOMAIN y : v[i] = y[j]
  <2>1. i \in 1 .. k + 2 + n BY <1>23
  <2>2. CASE i <= k BY <1>22, <2>1, <2>2
  <2>3. CASE i = k + 1 BY <2>3
  <2>4. CASE i = k + 2
    <3>1. i \in 1 .. k + 2 /\ i <= k + 2 /\ ~(i <= k) /\ i - k = 2 BY <1>22, <2>4
    <3>2. v[i] = g[i] BY <1>19, <1>21, <1>23, <2>1, <3>1
    <3>3. g[i] = w[2] BY <1>18, <1>20, <3>1
    <3>4. i > k + 1 BY <1>22, <2>4
    <3>. QED BY <1>15, <1>16, <3>2, <3>3, <3>4
  <2>5. CASE i > k + 2
    <3>1. ~(i <= k + 2) /\ i - (k + 2) \in 1 .. n /\ i > k + 1 BY <1>22, <2>1, <2>5
    <3>2. v[i] = y[i - (k + 2)] BY <1>19, <1>21, <1>23, <2>1, <3>1
    <3>. QED BY <1>22, <3>1, <3>2
  <2>. QED BY <1>22, <2>1, <2>2, <2>3, <2>4, <2>5
<1>27. DOMAIN v \subseteq Nat BY <1>22, <1>23
<1>28. Expulsa(f, y, v, k, p, t) BY <1>15, <1>22, <1>24, <1>25, <1>26, <1>27 DEF Expulsa
<1>29. y \in Seq(Lecturas(Len(patotas), tripulantes \ {<<p, t>>})) BY <1>13, <1>14
<1>30. \E f1, y1, v1, k1 :
              /\ f1 = FlattenSeq([i \in 1 .. Len(patotas[p].inicio) |->
                       IF i > t /\ <<p, i>> \in tripulantes THEN Mudar(p, i) ELSE <<>>])
              /\ y1 \in Seq(Lecturas(Len(patotas), tripulantes \ {<<p, t>>}))
              /\ PorHacer' = v1 /\ Expulsa(f1, y1, v1, k1, p, t)
  <2>. WITNESS f, y, v, k
  <2>. QED BY <1>1, <1>10, <1>28, <1>29
<1>. QED BY <1>10, <1>30

\* An expulsion begins with every trip behind still to run, and keeps every place.
LEMMA SitiosElimT ==
  ASSUME Tipos, Filas, Filas', TiposPatotas', Sitios, Llegados, NEW trip \in tripulantes, ELIM_T(trip[1], trip[2])
  PROVE  Ordenado' /\ Sitios' /\ Llegados'
<1>1. PICK p : p = trip[1] OBVIOUS
<1>2. PICK t : t = trip[2] OBVIOUS
<1>3. UNCHANGED <<patotas, tripulantes, faltan>> BY DEF ELIM_T, orden
<1>4. PorHacer = << >> BY <1>1, <1>2, MensajeElimT
<1>5. PICK f, y, v, k :
         /\ f = FlattenSeq([i \in 1 .. Len(patotas[p].inicio) |->
                  IF i > t /\ <<p, i>> \in tripulantes THEN Mudar(p, i) ELSE <<>>])
         /\ y \in Seq(Lecturas(Len(patotas), tripulantes \ {<<p, t>>}))
         /\ PorHacer' = v /\ Expulsa(f, y, v, k, p, t)
  BY <1>1, <1>2, MensajeElimT
<1>6. TiposPatotas BY DEF Tipos
<1>7. /\ p \in 1 .. Len(patotas) /\ t \in Nat /\ trip = <<p, t>> /\ t \in Vivos(p)
      /\ <<p, t>> \in tripulantes
  <2>1. trip \in Existen /\ trip \in Trips BY <1>6 DEF TiposPatotas, Existen
  <2>2. trip = <<p, t>> /\ t \in 1 .. MaxTripulantes BY <1>1, <1>2, <2>1 DEF Trips
  <2>3. p \in 1 .. Len(patotas) BY <1>1, <2>1 DEF Existen
  <2>. QED BY <2>2, <2>3, Tamanios DEF Vivos
<1>8. PICK n : n = Len(patotas[p].inicio) OBVIOUS
<1>9. f = FlattenSeq([i \in 1 .. n |-> IF i > t /\ <<p, i>> \in tripulantes THEN Mudar(p, i) ELSE <<>>])
  BY <1>5, <1>8
<1>29. Mudados(f, p, t) BY <1>6, <1>7, <1>8, <1>9, MudarTodos
<1>10. \A i \in DOMAIN f : /\ f[i].tipo \in Memoria \union {"correr"} /\ f[i].p = p
                           /\ f[i].t \in Nat /\ t < f[i].t /\ <<p, f[i].t>> \in tripulantes
  BY <1>29 DEF Mudados
<1>11. \A i, j \in DOMAIN f : f[i].tipo = "correr" /\ f[j].tipo = "correr" /\ f[i].t = f[j].t => i = j
  BY <1>29 DEF Mudados
<1>12. \A u \in Vivos(p) : t < u => \E j \in DOMAIN f : f[j].tipo = "correr" /\ f[j].t = u
  BY <1>29 DEF Mudados
<1>13. PICK H : H = tripulantes \ {<<p, t>>} OBVIOUS
<1>14. ASSUME NEW j \in DOMAIN y
       PROVE  /\ y[j].tipo \in Memoria /\ y[j].tipo \notin {"correr", "soltar"}
              /\ y[j].t # 0 => <<y[j].p, y[j].t>> \in H
              /\ y[j].t = 0 => /\ y[j].p \in 1 .. Len(patotas') /\ y[j].desde \in Int /\ y[j].bytes \in Nat
                               /\ Dentro(y[j], Base(y[j].p)')
  <2>1. y[j] \in Lecturas(Len(patotas'), H) BY <1>3, <1>5, <1>13
  <2>. QED BY <2>1, LecturaDentro
<1>15. Expulsa(f, y, v, k, p, t) /\ k \in Nat /\ DOMAIN f = 1 .. k BY <1>5 DEF Expulsa
<1>16. \A i \in DOMAIN v : /\ i \in DOMAIN f \/ i = k + 1 \/ v[i].tipo = "cancelar" \/ \E j \in DOMAIN y : v[i] = y[j]
                           /\ i \in DOMAIN f => v[i] = f[i]
  BY <1>15 DEF Expulsa
<1>17. k + 1 \in DOMAIN v /\ v[k + 1].tipo = "soltar" /\ v[k + 1].p = p /\ v[k + 1].t = t
  BY <1>15 DEF Expulsa
<1>18. \A i \in DOMAIN f : i \in DOMAIN v /\ v[i] = f[i] BY <1>15 DEF Expulsa
<1>19. "soltar" \notin Memoria /\ "correr" \notin Memoria /\ "cancelar" \notin Memoria BY DEF Memoria
<1>20. \A i \in DOMAIN v : v[i].tipo = "soltar" => i = k + 1 BY <1>10, <1>14, <1>16, <1>19
<1>21. \A i \in DOMAIN v : v[i].tipo = "correr" => i \in DOMAIN f /\ v[i] = f[i]
  BY <1>10, <1>14, <1>16, <1>17, <1>19
<1>22. ASSUME NEW i \in DOMAIN v, v[i].tipo \in Memoria
       PROVE  (i \in DOMAIN f /\ v[i] = f[i]) \/ \E j \in DOMAIN y : v[i] = y[j]
  BY <1>16, <1>17, <1>19, <1>22
<1>23. EnOrden(v)'
  <2>1. ASSUME NEW i \in DOMAIN v, v[i].tipo \in {"correr", "soltar"}
        PROVE  <<v[i].p, v[i].t>> \in tripulantes'
    BY <1>3, <1>7, <1>10, <1>17, <1>20, <1>21, <2>1
  <2>2. ASSUME NEW i \in DOMAIN v, NEW j \in DOMAIN v, v[i].tipo = "soltar"
        PROVE  /\ v[j].tipo = "correr" => j < i /\ v[j].p = v[i].p /\ v[i].t < v[j].t
               /\ v[j].tipo = "soltar" => j = i
    <3>1. i = k + 1 BY <1>20, <2>2
    <3>2. ASSUME v[j].tipo = "correr" PROVE j < i /\ v[j].p = v[i].p /\ v[i].t < v[j].t
      <4>1. j \in DOMAIN f /\ v[j] = f[j] BY <1>21, <3>2
      <4>2. j \in 1 .. k BY <1>15, <4>1
      <4>3. j < k + 1 BY <1>15, <4>2
      <4>4. f[j].p = p /\ t < f[j].t BY <1>10, <4>1
      <4>. QED BY <1>17, <3>1, <4>1, <4>3, <4>4
    <3>3. v[j].tipo = "soltar" => j = i BY <1>20, <3>1
    <3>. QED BY <3>2, <3>3
  <2>3. ASSUME NEW i \in DOMAIN v, v[i].tipo = "correr"
        PROVE  /\ \E j \in DOMAIN v : v[j].tipo = "soltar"
               /\ \A j \in DOMAIN v : v[j].tipo = "correr" /\ v[j].t = v[i].t => i = j
    BY <1>11, <1>17, <1>21, <2>3
  <2>. QED BY <2>1, <2>2, <2>3 DEF EnOrden
<1>24. Alcances(v)'
  <2>1. ASSUME NEW i \in DOMAIN v
        PROVE /\ v[i].tipo = "soltar" => <<v[i].p, v[i].t>> = <<p, t>>
              /\ v[i].tipo \in Memoria /\ v[i].t # 0 =>
                <<v[i].p, v[i].t>> \in tripulantes' /\ <<v[i].p, v[i].t>> # <<p, t>>
              /\ v[i].tipo \in Memoria /\ v[i].t = 0 =>
                v[i].p \in 1 .. Len(patotas') /\ v[i].desde \in Int /\ v[i].bytes \in Nat
                  /\ Dentro(v[i], Base(v[i].p)')
    <3>1. v[i].tipo = "soltar" => <<v[i].p, v[i].t>> = <<p, t>> BY <1>17, <1>20
    <3>2. CASE v[i].tipo \in Memoria
      <4>1. CASE i \in DOMAIN f /\ v[i] = f[i]
        <5>1. f[i].p = p /\ f[i].t \in Nat /\ t < f[i].t /\ <<p, f[i].t>> \in tripulantes BY <1>10, <4>1
        <5>2. f[i].t # 0 /\ f[i].t # t BY <1>7, <5>1
        <5>. QED BY <1>3, <3>1, <4>1, <5>1, <5>2
      <4>2. CASE \E j \in DOMAIN y : v[i] = y[j]
        <5>1. PICK j \in DOMAIN y : v[i] = y[j] BY <4>2
        <5>2. y[j].t # 0 => <<y[j].p, y[j].t>> \in tripulantes' /\ <<y[j].p, y[j].t>> # <<p, t>>
          BY <1>3, <1>13, <1>14
        <5>3. y[j].t = 0 => /\ y[j].p \in 1 .. Len(patotas') /\ y[j].desde \in Int /\ y[j].bytes \in Nat
                            /\ Dentro(y[j], Base(y[j].p)')
          BY <1>14
        <5>. QED BY <3>1, <5>1, <5>2, <5>3
      <4>. QED BY <1>22, <3>2, <4>1, <4>2
    <3>3. CASE v[i].tipo \notin Memoria BY <3>1, <3>3
    <3>. QED BY <3>2, <3>3
  <2>2. PICK g : g = <<p, t>> OBVIOUS
  <2>. QED BY <2>1, <2>2, AlcancesNuevos
<1>25. Ordenado' BY <1>5, <1>23, <1>24, OrdenadoCon
<1>26. ASSUME NEW q, NEW u \in Vivos(q) PROVE ~Corrido(q, u)'
  <2>1. SUFFICES ASSUME NEW s, Queda(PorHacer, "soltar", q, s)', s < u, ~Queda(PorHacer, "correr", q, u)'
                 PROVE  FALSE
    BY DEF Corrido
  <2>2. PICK i \in DOMAIN v : v[i].tipo = "soltar" /\ v[i].p = q /\ v[i].t = s BY <1>5, <2>1 DEF Queda
  <2>3. q = p /\ s = t BY <1>17, <1>20, <2>2
  <2>4. PICK j \in DOMAIN f : f[j].tipo = "correr" /\ f[j].t = u BY <1>12, <2>1, <2>3
  <2>5. j \in DOMAIN v /\ v[j] = f[j] /\ f[j].p = p BY <1>10, <1>18, <2>4
  <2>. QED BY <1>5, <2>1, <2>3, <2>4, <2>5 DEF Queda
<1>27. Sitios'
  <2>1. ASSUME NEW q \in 1 .. Len(patotas) PROVE SitiosDe(q)'
    <3>1. SitiosDe(q) /\ Vivos(q)' = Vivos(q) BY <1>3 DEF Sitios, Vivos
    <3>2. ASSUME NEW u \in Vivos(q) PROVE Sitio(q, u)' = Sitio(q, u)
      <4>1. ~Corrido(q, u)' /\ ~Corrido(q, u) BY <1>4, <1>26, NadieCorrido
      <4>. QED BY <1>3, <4>1, SitioIgual
    <3>. QED BY <1>3, <3>1, <3>2, SitiosIguales
  <2>. QED BY <1>3, <2>1 DEF Sitios
<1>28. Llegados'
  <2>1. Existen' = Existen /\ Len(patotas') = Len(patotas) BY <1>3 DEF Existen
  <2>. QED BY <1>3, <2>1, LlegadosIguales
<1>. QED BY <1>25, <1>27, <1>28

\* an access of a message that expels nobody: of a trip that is in the list, or of bytes
\* of the control block and the tasks
DelLog(a) ==
  /\ a.tipo \notin {"correr", "soltar"}
  /\ a.tipo \in Memoria /\ a.t # 0 => <<a.p, a.t>> \in tripulantes
  /\ a.tipo \in Memoria /\ a.t = 0 =>
       a.p \in 1 .. Len(patotas) /\ a.desde \in Int /\ a.bytes \in Nat /\ Dentro(a, Base(a.p))

\* The reads of the log are of that kind.
LEMMA LecturaBuena ==
  ASSUME TiposPatotas', NEW a \in Lecturas(Len(patotas'), tripulantes')
  PROVE  DelLog(a)'
<1>1. PICK H : H = tripulantes' OBVIOUS
<1>2. a \in Lecturas(Len(patotas'), H) BY <1>1
<1>3. /\ a.tipo \in Memoria /\ a.tipo \notin {"correr", "soltar"} /\ (a.t # 0 => <<a.p, a.t>> \in H)
      /\ a.t = 0 => a.p \in 1 .. Len(patotas') /\ a.desde \in Int /\ a.bytes \in Nat /\ Dentro(a, Base(a.p)')
  BY <1>2, LecturaDentro
<1>. QED BY <1>1, <1>3 DEF DelLog, Dentro, Base

\* A message that expels nobody is in order, and changes no step to do.
LEMMA OrdenadoNuevo ==
  ASSUME TiposPatotas', Filas', PorHacer = << >>, NEW v, PorHacer' = v, \A i \in DOMAIN v : DelLog(v[i])'
  PROVE  Ordenado' /\ MismosPasos
<1>1. \A i \in DOMAIN v : v[i].tipo \notin {"correr", "soltar"} BY DEF DelLog
<1>2. EnOrden(v)' BY <1>1, SinPasos
<1>3. PICK g : g = <<0, 0>> OBVIOUS
<1>4. ASSUME NEW i \in DOMAIN v
      PROVE  /\ v[i].tipo = "soltar" => <<v[i].p, v[i].t>> = g
             /\ v[i].tipo \in Memoria /\ v[i].t # 0 =>
                  <<v[i].p, v[i].t>> \in tripulantes' /\ <<v[i].p, v[i].t>> # g
             /\ v[i].tipo \in Memoria /\ v[i].t = 0 =>
                  v[i].p \in 1 .. Len(patotas') /\ v[i].desde \in Int /\ v[i].bytes \in Nat
                    /\ Dentro(v[i], Base(v[i].p)')
  BY <1>1, <1>3 DEF DelLog, Dentro, Base
<1>5. Alcances(v)' BY <1>4, AlcancesNuevos
<1>. QED BY <1>1, <1>2, <1>5, OrdenadoCon, PasosNinguno

\* A refused patota: the log of what there is.
LEMMA OrdenadoRechazo ==
  ASSUME Tipos, Tipos', Filas', NEW n, NEW tareas, INIT_P(n, tareas), RechazarPatota(n, tareas)
  PROVE  Ordenado' /\ MismosPasos /\ UNCHANGED <<patotas, tripulantes, faltan>>
<1>1. TiposPatotas /\ TiposPatotas' /\ TiposHilos BY DEF Tipos
<1>2. UNCHANGED <<patotas, tripulantes, faltan>> /\ Ocioso(Principal) BY DEF INIT_P, RechazarPatota
<1>3. PICK v : v = loggear_data(Len(patotas), tripulantes) OBVIOUS
<1>4. Empezar(Principal, v) BY <1>3 DEF RechazarPatota
<1>5. PorHacer = << >> /\ PorHacer' = v BY <1>1, <1>2, <1>4, EmpiezaPrincipal
<1>6. v \in Seq(Lecturas(Len(patotas'), tripulantes'))
  <2>1. tripulantes \subseteq Existen /\ Trips \subseteq Nat \X (Nat \ {0}) BY <1>1, Tamanios DEF TiposPatotas, Trips
  <2>2. tripulantes \in SUBSET (Nat \X (Nat \ {0})) /\ \A x \in tripulantes : x[1] \in 1 .. Len(patotas)
    BY <2>1 DEF Existen
  <2>3. Len(patotas) \in Nat BY <1>1 DEF TiposPatotas
  <2>4. v \in Seq(Lecturas(Len(patotas), tripulantes)) BY <1>3, <2>2, <2>3, LogBien
  <2>. QED BY <1>2, <2>4
<1>7. \A i \in DOMAIN v : DelLog(v[i])' BY <1>1, <1>6, LecturaBuena
<1>. QED BY <1>1, <1>2, <1>5, <1>7, OrdenadoNuevo

\* An accepted patota: its control block, its tasks and the log.
LEMMA OrdenadoAceptada ==
  ASSUME Tipos, Tipos', Filas', NEW n \in 1 .. MaxTripulantes, NEW tareas \in TamaniosTareas, INIT_P(n, tareas),
         AceptarPatota(n, tareas)
  PROVE  Ordenado' /\ MismosPasos
<1>1. PICK p : p = Len(patotas) + 1 OBVIOUS
<1>2. PICK u : u = TAMANIO_PATOTA + tareas OBVIOUS
<1>3. TiposPatotas /\ TiposPatotas' /\ TiposHilos /\ TiposMarcos BY DEF Tipos
<1>4. /\ p \in Nat /\ Len(patotas) \in Nat /\ Len(patotas') = p /\ UNCHANGED tripulantes /\ Ocioso(Principal)
      /\ patotas'[p].tareas = tareas
  <2>1. p \in Nat /\ Len(patotas) \in Nat /\ Len(patotas') = p BY <1>1, <1>2, <1>3, PatotaAceptada
  <2>2. UNCHANGED tripulantes /\ Ocioso(Principal) BY <1>1, <1>2, <1>3, PatotaAceptada
  <2>3. patotas'[p].tareas = tareas BY <1>1, <1>2, <1>3, PatotaAceptada
  <2>. QED BY <2>1, <2>2, <2>3
<1>5. PICK b : b = <<Acceso("escribir", p, 0, 0, ENTERO), Acceso("escribir", p, 0, ENTERO, ENTERO)>> OBVIOUS
<1>6. PICK a : a = Acceso("cargar", p, 0, TAMANIO_PATOTA, tareas) OBVIOUS
<1>7. PICK l : l = loggear_data(p, tripulantes) OBVIOUS
<1>8. PICK v : v = b \o LeerPcb(p) \o <<a>> \o LeerPcb(p) \o l OBVIOUS
<1>9. Empezar(Principal, v) BY <1>1, <1>5, <1>6, <1>7, <1>8 DEF AceptarPatota
<1>10. PorHacer = << >> /\ PorHacer' = v BY <1>3, <1>4, <1>9, EmpiezaPrincipal
<1>11. PICK S : S = Lecturas(p, tripulantes) \union {a} OBVIOUS
<1>12. Lecturas(p, tripulantes) \subseteq S /\ a \in S BY <1>11
<1>13. p \in 1 .. p BY <1>1, <1>4
<1>14. b \in Seq(S) /\ LeerPcb(p) \in Seq(S)
  <2>1. LeerPcb(p) \in Seq(Lecturas(p, tripulantes)) BY <1>4, <1>13, PcbBien
  <2>2. /\ Acceso("escribir", p, 0, 0, ENTERO) \in Lecturas(p, tripulantes)
        /\ Acceso("escribir", p, 0, ENTERO, ENTERO) \in Lecturas(p, tripulantes)
    BY <1>4, <1>13, PcbBien
  <2>3. LeerPcb(p) \in Seq(S) BY <1>12, <2>1, SeqMonotonic
  <2>. QED BY <1>5, <1>12, <2>2, <2>3
<1>15. l \in Seq(S)
  <2>1. tripulantes \subseteq Existen /\ Trips \subseteq Nat \X (Nat \ {0}) BY <1>3, Tamanios DEF TiposPatotas, Trips
  <2>2. tripulantes \in SUBSET (Nat \X (Nat \ {0})) /\ \A x \in tripulantes : x[1] \in 1 .. p
    BY <1>1, <1>4, <2>1 DEF Existen
  <2>3. l \in Seq(Lecturas(p, tripulantes)) BY <1>4, <1>7, <2>2, LogBien
  <2>. QED BY <1>12, <2>3, SeqMonotonic
<1>16. v \in Seq(S)
  <2>1. PICK x : x = b \o LeerPcb(p) OBVIOUS
  <2>2. x \in Seq(S) BY <1>14, <2>1, ConcatProperties
  <2>3. PICK w : w = <<a>> OBVIOUS
  <2>4. w \in Seq(S) BY <1>12, <2>3
  <2>5. PICK y : y = x \o w OBVIOUS
  <2>6. y \in Seq(S) BY <2>2, <2>4, <2>5, ConcatProperties
  <2>7. PICK z : z = y \o LeerPcb(p) OBVIOUS
  <2>8. z \in Seq(S) BY <1>14, <2>6, <2>7, ConcatProperties
  <2>9. z \o l \in Seq(S) BY <1>15, <2>8, ConcatProperties
  <2>. QED BY <1>8, <2>1, <2>3, <2>5, <2>7, <2>9
<1>17. DelLog(a)'
  <2>1. /\ a.tipo = "cargar" /\ a.p = p /\ a.t = 0 /\ a.desde = TAMANIO_PATOTA /\ a.bytes = tareas
    BY <1>6 DEF Acceso
  <2>2. Base(p)' = TAMANIO_PATOTA + tareas BY <1>4 DEF Base
  <2>3. tareas \in Nat BY Tamanios
  <2>4. 0 <= a.desde /\ a.desde + a.bytes <= Base(p)' BY <2>1, <2>2, <2>3, Tamanios
  <2>5. Dentro(a, Base(a.p))' BY <2>1, <2>4 DEF Dentro
  <2>. QED BY <1>4, <1>13, <2>1, <2>3, <2>5, Tamanios DEF DelLog
<1>18. ASSUME NEW i \in DOMAIN v PROVE DelLog(v[i])'
  <2>1. v[i] \in S BY <1>16
  <2>2. CASE v[i] = a BY <1>17, <2>2
  <2>3. CASE v[i] \in Lecturas(p, tripulantes)
    <3>1. v[i] \in Lecturas(Len(patotas'), tripulantes') BY <1>4, <2>3
    <3>. QED BY <1>3, <3>1, LecturaBuena
  <2>. QED BY <1>11, <2>1, <2>2, <2>3
<1>. QED BY <1>3, <1>10, <1>18, OrdenadoNuevo

\* A trip that enters: it is written, its thread starts, and the log.
LEMMA OrdenadoInitT ==
  ASSUME Tipos, Tipos', Filas', INIT_T, NEW p, p = Len(patotas),
         ~(FramesDelTrip(p) > Cardinality(Libres(mapa_logico)))
  PROVE  Ordenado' /\ MismosPasos /\ PorHacer = << >>
<1>1. PICK t : t = Len(patotas[p].inicio) - faltan + 1 OBVIOUS
<1>2. TiposPatotas /\ TiposPatotas' /\ TiposHilos /\ TiposMarcos /\ faltan > 0 /\ Ocioso(Principal)
  BY DEF Tipos, INIT_T
<1>3. PICK e : e = Elegidos(mapa_logico, FramesDelTrip(p)) OBVIOUS
<1>4. p \in Nat /\ p \in 1 .. Len(patotas) /\ t \in Nat /\ t # 0 /\ p \in 1 .. p
  <2>1. p \in Nat /\ p \in 1 .. Len(patotas) BY <1>1, <1>2, TripNuevo
  <2>2. t \in Nat /\ t # 0 BY <1>1, <1>2, TripNuevo
  <2>. QED BY <2>1, <2>2
<1>5. Len(patotas') = p /\ tripulantes' = tripulantes \union {<<p, t>>} BY <1>1, <1>2, <1>3, TripAceptado
<1>6. PICK a : a = Paso("arrancar", p, t) OBVIOUS
<1>7. PICK x : x = EscribirTodo(p, t) OBVIOUS
<1>8. PICK y : y = loggear_data(p, tripulantes') OBVIOUS
<1>9. PICK v : v = x \o <<a>> \o y OBVIOUS
<1>10. Empezar(Principal, v) BY <1>1, <1>2, <1>3, <1>6, <1>7, <1>8, <1>9, TripAceptado
<1>11. PorHacer = << >> /\ PorHacer' = v BY <1>2, <1>10, EmpiezaPrincipal
<1>12. PICK S : S = Lecturas(p, tripulantes') OBVIOUS
<1>13. x \in Seq(S)
  <2>1. PICK H : H = tripulantes' OBVIOUS
  <2>2. <<p, t>> \in H BY <1>5, <2>1
  <2>3. x \in Seq(Lecturas(p, H)) BY <1>4, <1>7, <2>2, TodoBien
  <2>. QED BY <1>12, <2>1, <2>3
<1>14. y \in Seq(S)
  <2>1. tripulantes' \subseteq Existen' /\ Trips \subseteq Nat \X (Nat \ {0}) BY <1>2, Tamanios DEF TiposPatotas, Trips
  <2>2. tripulantes' \in SUBSET (Nat \X (Nat \ {0})) /\ \A z \in tripulantes' : z[1] \in 1 .. p
    BY <1>5, <2>1 DEF Existen
  <2>. QED BY <1>4, <1>8, <1>12, <2>2, LogBien
<1>15. \A i \in DOMAIN v : v[i] \in S \/ v[i] = a BY <1>9, <1>13, <1>14, Intercalado
<1>16. DelLog(a)'
  <2>1. a.tipo = "arrancar" BY <1>6 DEF Paso, Acceso
  <2>2. "arrancar" \notin Memoria BY DEF Memoria
  <2>. QED BY <2>1, <2>2 DEF DelLog
<1>17. ASSUME NEW i \in DOMAIN v PROVE DelLog(v[i])'
  <2>1. CASE v[i] = a BY <1>16, <2>1
  <2>2. CASE v[i] \in S
    <3>1. v[i] \in Lecturas(Len(patotas'), tripulantes') BY <1>5, <1>12, <2>2
    <3>. QED BY <1>2, <3>1, LecturaBuena
  <2>. QED BY <1>15, <2>1, <2>2
<1>. QED BY <1>2, <1>11, <1>17, OrdenadoNuevo

\* A step of the main loop that puts accesses before the rest of its message.
LEMMA RelevoPrincipal ==
  ASSUME TiposHilos, Ordenado, UNCHANGED <<patotas, tripulantes>>, PorHacer # << >>,
         PorHacer[1].tipo \notin {"correr", "soltar"}, NEW w \in Seq(Accesos), PorHacer' = w \o Tail(PorHacer),
         \A i \in DOMAIN w : /\ w[i].tipo \in Memoria /\ w[i].t = 0
                             /\ Dentro(w[i], patotas[w[i].p].memoria_ocupada)
  PROVE  Ordenado' /\ MismosPasos
<1>1. PICK c : c = PorHacer OBVIOUS
<1>2. PICK v : v = w \o Tail(c) OBVIOUS
<1>3. PICK S : S = Accesos OBVIOUS
<1>4. c \in Seq(S) /\ c # << >> /\ w \in Seq(S) /\ PorHacer' = v
  <2>1. Principal \in Hilos BY DEF Hilos
  <2>2. hilos[Principal].accesos \in Seq(Accesos) BY <2>1 DEF TiposHilos, Hilo
  <2>. QED BY <1>1, <1>2, <1>3, <2>2 DEF PorHacer
<1>5. EnOrden(c) /\ Alcances(c) /\ c[1].tipo \notin {"correr", "soltar"} BY <1>1 DEF Ordenado
<1>6. Relevo(c, w, v) /\ v \in Seq(S) BY <1>2, <1>4, RelevoBien
<1>7. EnOrden(v) BY <1>4, <1>5, <1>6, OrdenRelevo
<1>8. \A tipo \in {"correr", "soltar"} : \A p, t : Queda(v, tipo, p, t) <=> Queda(c, tipo, p, t)
  BY <1>4, <1>5, <1>6, OrdenRelevo
<1>9. Alcances(v) BY <1>4, <1>5, <1>6, AlcancesRelevo
<1>10. EnOrden(v)' BY <1>7 DEF EnOrden
<1>11. Alcances(v)' BY <1>9 DEF Alcances, Dentro, Base
<1>12. Ordenado' BY <1>4, <1>10, <1>11, OrdenadoCon
<1>13. MismosPasos BY <1>1, <1>4, <1>8, PasosCon
<1>. QED BY <1>12, <1>13

\* A step of another thread.
LEMMA OrdenadoAjeno ==
  ASSUME Ordenado, UNCHANGED <<patotas, tripulantes>>, PorHacer' = PorHacer
  PROVE  Ordenado' /\ MismosPasos
<1>1. PICK c : c = PorHacer OBVIOUS
<1>2. EnOrden(c) /\ Alcances(c) /\ PorHacer' = c BY <1>1 DEF Ordenado
<1>3. EnOrden(c)' BY <1>2 DEF EnOrden
<1>4. Alcances(c)' BY <1>2 DEF Alcances, Dentro, Base
<1>5. Ordenado' BY <1>2, <1>3, <1>4, OrdenadoCon
<1>6. \A tipo \in {"correr", "soltar"} : \A p, t : Queda(c, tipo, p, t) <=> Queda(c, tipo, p, t) OBVIOUS
<1>7. MismosPasos BY <1>1, <1>2, <1>6, PasosCon
<1>. QED BY <1>5, <1>7

\* A step that is only taken off the message.
LEMMA OrdenadoTail ==
  ASSUME TiposHilos, Ordenado, UNCHANGED <<patotas, tripulantes>>, PorHacer # << >>,
         PorHacer[1].tipo \notin {"correr", "soltar"}, PorHacer' = Tail(PorHacer)
  PROVE  Ordenado' /\ MismosPasos
<1>1. PICK w : w = << >> OBVIOUS
<1>2. w \in Seq(Accesos) /\ DOMAIN w = {} BY <1>1
<1>3. Principal \in Hilos BY DEF Hilos
<1>4. hilos[Principal].accesos \in Seq(Accesos) BY <1>3 DEF TiposHilos, Hilo
<1>5. Tail(PorHacer) \in Seq(Accesos) BY <1>4 DEF PorHacer
<1>6. PorHacer' = w \o Tail(PorHacer) BY <1>1, <1>5
<1>. QED BY <1>2, <1>6, RelevoPrincipal

\* The step that moves a trip leaves every address that is left to read where it was.
LEMMA OrdenadoCorrer ==
  ASSUME Tipos, Ordenado, Correr
  PROVE  Ordenado'
<1>1. PICK a : a = Siguiente(Principal) OBVIOUS
<1>2. PICK c : c = PorHacer OBVIOUS
<1>3. PICK v : v = Tail(c) OBVIOUS
<1>4. TiposPatotas /\ TiposHilos BY DEF Tipos
<1>5. hilos' = Hecho(Principal) /\ UNCHANGED tripulantes /\ a.tipo = "correr" BY <1>1 DEF Correr, Le_toca
<1>6. Le_toca(Principal, Pasos) /\ Hilo' = Hilo BY <1>1, CorrerHace
<1>7. /\ patotas'[a.p].tareas = patotas[a.p].tareas /\ patotas'[a.p].memoria_ocupada = patotas[a.p].memoria_ocupada
      /\ a.p \in 1 .. Len(patotas)
  BY <1>1, CorrerHace
<1>8. \A q \in 1 .. Len(patotas) : q # a.p => patotas'[q] = patotas[q] BY <1>1, CorrerHace
<1>9. PICK S : S = Accesos OBVIOUS
<1>10. c \in Seq(S) /\ c # << >> /\ c[1] = a /\ PorHacer' = v BY <1>1, <1>2, <1>3, <1>4, <1>5, <1>6, <1>9, PasoPrincipal
<1>11. EnOrden(c) /\ Alcances(c) BY <1>2 DEF Ordenado
<1>12. c[1].tipo = "correr" BY <1>5, <1>10
<1>13. EnOrden(v) /\ Alcances(v) BY <1>3, <1>10, <1>11, <1>12, OrdenCorrer
<1>14. EnOrden(v)' BY <1>5, <1>13 DEF EnOrden
<1>15. ASSUME NEW i \in DOMAIN v
       PROVE  /\ patotas'[v[i].p].memoria_ocupada = patotas[v[i].p].memoria_ocupada
              /\ patotas'[v[i].p].tareas = patotas[v[i].p].tareas
  <2>1. v \in Seq(S) BY <1>3, <1>10
  <2>2. v[i] \in Accesos BY <1>9, <2>1
  <2>3. v[i].p \in 1 .. Len(patotas) BY <2>2 DEF Accesos, AccesosDe
  <2>. QED BY <1>7, <1>8, <2>3
<1>16. Alcances(v)' BY <1>5, <1>13, <1>15, AlcancesIguales
<1>. QED BY <1>10, <1>14, <1>16, OrdenadoCon

\* After the frames of a trip are given back no step is left, and nobody reads past
\* the control block and the tasks without the address of a trip that is left.
LEMMA OrdenadoSoltar ==
  ASSUME Tipos, Tipos', Ordenado, Filas', Soltar
  PROVE  Ordenado'
<1>1. PICK a : a = Siguiente(Principal) OBVIOUS
<1>2. PICK c : c = PorHacer OBVIOUS
<1>3. PICK v : v = Tail(c) OBVIOUS
<1>4. TiposPatotas /\ TiposHilos /\ TiposPatotas' BY DEF Tipos
<1>5. hilos' = Hecho(Principal) /\ tripulantes' = tripulantes \ {<<a.p, a.t>>} /\ a.tipo = "soltar"
  BY <1>1 DEF Soltar, Le_toca
<1>0. PICK x : x = patotas[a.p].memoria_ocupada - TAMANIO_TRIPULANTE OBVIOUS
<1>6. Le_toca(Principal, Pasos) /\ Hilo' = Hilo /\ Len(patotas') = Len(patotas) BY <1>0, <1>1, SoltarHace
<1>7. patotas'[a.p].tareas = patotas[a.p].tareas BY <1>0, <1>1, SoltarHace
<1>8. \A q \in 1 .. Len(patotas) : q # a.p => patotas'[q] = patotas[q] BY <1>0, <1>1, SoltarHace
<1>9. PICK S : S = Accesos OBVIOUS
<1>10. c \in Seq(S) /\ c # << >> /\ c[1] = a /\ PorHacer' = v BY <1>1, <1>2, <1>3, <1>4, <1>5, <1>6, <1>9, PasoPrincipal
<1>11. EnOrden(c) /\ Alcances(c) BY <1>2 DEF Ordenado
<1>12. c[1].tipo = "soltar" BY <1>5, <1>10
<1>13. \A i \in DOMAIN v : v[i].tipo \notin {"correr", "soltar"} BY <1>3, <1>10, <1>11, <1>12, OrdenSoltar
<1>14. \A i \in DOMAIN v : v[i].tipo \in Memoria =>
              /\ v[i].t # 0 => <<v[i].p, v[i].t>> \in tripulantes \ {<<c[1].p, c[1].t>>}
              /\ v[i].t = 0 => Dentro(v[i], Base(v[i].p))
  BY <1>3, <1>10, <1>11, <1>12, OrdenSoltar
<1>15. ASSUME NEW i \in DOMAIN v
       PROVE  v[i].p \in 1 .. Len(patotas') /\ v[i].desde \in Int /\ v[i].bytes \in Nat /\ Base(v[i].p)' = Base(v[i].p)
  <2>1. v \in Seq(S) BY <1>3, <1>10
  <2>2. v[i] \in Accesos BY <1>9, <2>1
  <2>3. v[i].p \in 1 .. Len(patotas) /\ v[i].desde \in Int /\ v[i].bytes \in Nat BY <2>2 DEF Accesos, AccesosDe
  <2>4. Base(v[i].p)' = Base(v[i].p) BY <1>7, <1>8, <2>3 DEF Base
  <2>. QED BY <1>6, <2>3, <2>4
<1>16. EnOrden(v)' BY <1>13, SinPasos
<1>17. PICK g : g = <<0, 0>> OBVIOUS
<1>18. ASSUME NEW i \in DOMAIN v
       PROVE  /\ v[i].tipo = "soltar" => <<v[i].p, v[i].t>> = g
              /\ v[i].tipo \in Memoria /\ v[i].t # 0 =>
                   <<v[i].p, v[i].t>> \in tripulantes' /\ <<v[i].p, v[i].t>> # g
              /\ v[i].tipo \in Memoria /\ v[i].t = 0 =>
                   v[i].p \in 1 .. Len(patotas') /\ v[i].desde \in Int /\ v[i].bytes \in Nat
                     /\ Dentro(v[i], Base(v[i].p)')
  <2>1. v[i].tipo \in Memoria /\ v[i].t # 0 =>
          <<v[i].p, v[i].t>> \in tripulantes' /\ <<v[i].p, v[i].t>> # g
    BY <1>5, <1>10, <1>14, <1>17
  <2>2. v[i].tipo \in Memoria /\ v[i].t = 0 => Dentro(v[i], Base(v[i].p)') BY <1>14, <1>15
  <2>. QED BY <1>13, <1>15, <2>1, <2>2
<1>19. Alcances(v)' BY <1>4, <1>18, AlcancesNuevos
<1>. QED BY <1>10, <1>16, <1>19, OrdenadoCon

\* What sem_wait of a page does to the accesses of a thread.
LEMMA TomarAccesos ==
  ASSUME TiposHilos, NEW h \in Hilos, Tomar(h), NEW a, a = Ubicado(Siguiente(h))
  PROVE  /\ UNCHANGED <<patotas, tripulantes, faltan>> /\ hilos[h].accesos # << >>
         /\ hilos[h].pc = "listo" /\ Siguiente(h).tipo \in Memoria /\ (h = Principal \/ Siguiente(h).t = 0)
         /\ \/ Pagina(a) + 1 \notin DOMAIN patotas[a.p].frames /\ caida' = "fuera_de_tabla" /\ UNCHANGED hilos
            \/ /\ Pagina(a) + 1 \in DOMAIN patotas[a.p].frames /\ UNCHANGED caida
               /\ hilos'[h].accesos = <<a>> \o Tail(hilos[h].accesos)
<1>1. /\ UNCHANGED <<patotas, tripulantes, faltan>> /\ Le_toca(h, Memoria) /\ (h = Principal \/ Siguiente(h).t = 0)
  BY DEF Tomar, orden
<1>2. hilos[h].accesos # << >> /\ hilos[h].pc = "listo" /\ Siguiente(h).tipo \in Memoria BY <1>1 DEF Le_toca
<1>3. hilos \in [Hilos -> Hilo] /\ hilos[h] \in Hilo BY DEF TiposHilos
<1>4. PICK n : n = Pagina(a) + 1 OBVIOUS
<1>5. CASE n \notin DOMAIN patotas[a.p].frames
  <2>1. caida' = "fuera_de_tabla" /\ UNCHANGED hilos BY <1>4, <1>5 DEF Tomar
  <2>. QED BY <1>1, <1>2, <1>4, <1>5, <2>1
<1>6. CASE n \in DOMAIN patotas[a.p].frames
  <2>1. PICK m : m = patotas[a.p].frames[n] OBVIOUS
  <2>2. PICK v : v = <<a>> \o Tail(hilos[h].accesos) OBVIOUS
  <2>3. PICK pc : pc = IF a.tipo = "tarea" \/ mapa_logico[m].presencia THEN "copiar" ELSE "incorporar" OBVIOUS
  <2>4. UNCHANGED caida /\ hilos' = [hilos EXCEPT ![h].marco = m, ![h].accesos = v, ![h].pc = pc]
    BY <1>4, <1>6, <2>1, <2>2, <2>3 DEF Tomar
  <2>5. PICK r : r = [hilos[h] EXCEPT !.marco = m, !.accesos = v, !.pc = pc] OBVIOUS
  <2>6. r.accesos = v BY <1>3, <2>5 DEF Hilo
  <2>7. hilos' = [hilos EXCEPT ![h] = r] BY <1>3, <2>4, <2>5
  <2>8. hilos'[h].accesos = v BY <1>3, <2>6, <2>7
  <2>. QED BY <1>1, <1>2, <1>4, <1>6, <2>2, <2>4, <2>8
<1>. QED BY <1>5, <1>6

\* What reading the address does.
LEMMA LeerAccesos ==
  ASSUME TiposHilos, NEW h \in Hilos, LeerDireccion(h), NEW a, a = Ubicado(Siguiente(h))
  PROVE  /\ UNCHANGED <<patotas, tripulantes, faltan>> /\ hilos[h].accesos # << >> /\ h # Principal
         /\ hilos[h].pc = "listo" /\ Siguiente(h).tipo \in Memoria /\ Siguiente(h).t # 0
         /\ hilos'[h].accesos = <<a>> \o Tail(hilos[h].accesos)
<1>1. /\ UNCHANGED <<patotas, tripulantes, faltan>> /\ Le_toca(h, Memoria) /\ h # Principal /\ Siguiente(h).t # 0
      /\ hilos' = [hilos EXCEPT ![h].accesos = <<Ubicado(Head(@))>> \o Tail(@)]
  BY DEF LeerDireccion, orden
<1>2. hilos[h].accesos # << >> /\ hilos[h].pc = "listo" /\ Siguiente(h).tipo \in Memoria BY <1>1 DEF Le_toca
<1>3. hilos \in [Hilos -> Hilo] /\ hilos[h] \in Hilo BY DEF TiposHilos
<1>4. PICK v : v = <<a>> \o Tail(hilos[h].accesos) OBVIOUS
<1>5. PICK r : r = [hilos[h] EXCEPT !.accesos = v] OBVIOUS
<1>6. r.accesos = v BY <1>3, <1>5 DEF Hilo
<1>7. hilos' = [hilos EXCEPT ![h] = r] BY <1>1, <1>4, <1>5 DEF Siguiente
<1>8. hilos'[h].accesos = v BY <1>3, <1>6, <1>7
<1>. QED BY <1>1, <1>2, <1>4, <1>8

\* What leaving a page does.
LEMMA CopiarAccesos ==
  ASSUME TiposHilos, NEW h \in Hilos, Copiar(h)
  PROVE  /\ UNCHANGED <<patotas, tripulantes, faltan>> /\ hilos[h].accesos # << >>
         /\ Siguiente(h) \in Accesos /\ Siguiente(h).tipo \in Memoria /\ Siguiente(h).t = 0
         /\ hilos'[h].accesos = Resto(Siguiente(h)) \o Tail(hilos[h].accesos)
<1>1. PICK v : v = Resto(Siguiente(h)) \o Tail(hilos[h].accesos) OBVIOUS
<1>2. /\ hilos[h].pc = "copiar" /\ hilos' = [hilos EXCEPT ![h].pc = "listo", ![h].accesos = v]
      /\ UNCHANGED <<patotas, tripulantes, faltan>>
  BY <1>1 DEF Copiar, orden, Siguiente
<1>3. hilos[h].pc \in EnAcceso BY <1>2 DEF EnAcceso
<1>4. hilos[h].accesos # << >> /\ Siguiente(h).tipo \in Memoria /\ Siguiente(h).t = 0 BY <1>3 DEF TiposHilos
<1>5. hilos \in [Hilos -> Hilo] /\ hilos[h] \in Hilo /\ Siguiente(h) \in Accesos BY <1>4, AccesoActual
<1>6. PICK r : r = [hilos[h] EXCEPT !.pc = "listo", !.accesos = v] OBVIOUS
<1>7. r.accesos = v BY <1>5, <1>6 DEF Hilo
<1>8. hilos' = [hilos EXCEPT ![h] = r] BY <1>2, <1>5, <1>6
<1>9. hilos'[h].accesos = v BY <1>5, <1>7, <1>8
<1>. QED BY <1>1, <1>2, <1>4, <1>5, <1>9

\* What is left of an access is in the same bytes.
LEMMA RestoIgual ==
  ASSUME NEW a \in Accesos, NEW i \in DOMAIN Resto(a), NEW b, b = Resto(a)[i]
  PROVE  b.p = a.p /\ b.t = a.t /\ b.desde = a.desde /\ b.bytes = a.bytes
<1>1. a \in [tipo : Memoria \union Pasos, p : 1 .. Len(patotas), t : Nat, desde : Int, bytes : Nat, hechos : Nat]
  BY DEF Accesos, AccesosDe
<1>2. PICK l : l = [a EXCEPT !.tipo = "leer", !.hechos = 0] OBVIOUS
<1>3. l.p = a.p /\ l.t = a.t /\ l.desde = a.desde /\ l.bytes = a.bytes BY <1>1, <1>2
<1>4. PICK k : k = a.hechos + TAMANIO_PAGINA - (Byte(a) % TAMANIO_PAGINA) OBVIOUS
<1>5. PICK c : c = ConPagina(a) OBVIOUS
<1>6. c = [a EXCEPT !.hechos = k] BY <1>1, <1>4, <1>5 DEF ConPagina
<1>7. c.p = a.p /\ c.t = a.t /\ c.desde = a.desde /\ c.bytes = a.bytes BY <1>1, <1>6
<1>8. PICK x : x = IF a.tipo = "escribir" THEN <<l>> ELSE <<>> OBVIOUS
<1>9. PICK y : y = IF c.hechos < a.bytes THEN <<c>> ELSE <<>> OBVIOUS
<1>10. Resto(a) = x \o y BY <1>2, <1>5, <1>8, <1>9 DEF Resto
<1>11. PICK S : S = {l, c} OBVIOUS
<1>12. l \in S /\ c \in S BY <1>11
<1>13. x \in Seq(S) /\ y \in Seq(S)
  <2>1. <<l>> \in Seq(S) /\ <<c>> \in Seq(S) BY <1>12
  <2>2. << >> \in Seq(S) OBVIOUS
  <2>. QED BY <1>8, <1>9, <2>1, <2>2
<1>14. x \o y \in Seq(S) BY <1>13, ConcatProperties
<1>15. b \in S BY <1>10, <1>14
<1>. QED BY <1>3, <1>7, <1>11, <1>15

\* The address of a trip that is in the list is inside the memory of its patota.
LEMMA UbicadoDentro ==
  ASSUME TiposPatotas, EnOrden(PorHacer), Sitios, NEW a \in Accesos, a.tipo \in Memoria,
         a.t # 0 => <<a.p, a.t>> \in tripulantes,
         a.t = 0 => Dentro(a, patotas[a.p].memoria_ocupada)
  PROVE  Dentro(Ubicado(a), patotas[a.p].memoria_ocupada)
<1>1. PICK b : b = Ubicado(a) OBVIOUS
<1>2. b.desde = Direccion(a) /\ b.bytes = a.bytes BY <1>1, UbicadoBien
<1>3. a.p \in 1 .. Len(patotas) /\ a.t \in Nat /\ a.desde \in Int /\ a.bytes \in Nat BY DEF Accesos, AccesosDe
<1>4. PICK o : o = patotas[a.p].memoria_ocupada OBVIOUS
<1>5. CASE a.t = 0
  <2>1. b.desde = a.desde BY <1>2, <1>5 DEF Direccion
  <2>. QED BY <1>1, <1>2, <1>5, <2>1 DEF Dentro
<1>6. CASE a.t # 0
  <2>1. a.desde >= 0 /\ a.desde + a.bytes <= TAMANIO_TRIPULANTE BY <1>6 DEF Accesos, AccesosDe
  <2>2. <<a.p, a.t>> \in Trips /\ <<a.p, a.t>> \in tripulantes BY <1>6 DEF TiposPatotas, Existen
  <2>3. a.t \in 1 .. MaxTripulantes BY <2>2 DEF Trips
  <2>4. a.t \in Vivos(a.p) BY <2>2, <2>3 DEF Vivos
  <2>5. PICK s : s = patotas[a.p].inicio[a.t] OBVIOUS
  <2>6. PICK g : g = Base(a.p) OBVIOUS
  <2>7. g <= s /\ s + TAMANIO_TRIPULANTE <= o BY <1>4, <2>4, <2>5, <2>6, InicioBien
  <2>8. s \in Int /\ g \in Nat /\ o \in Int BY <1>4, <2>4, <2>5, <2>6, VivoExiste
  <2>9. b.desde = s + a.desde BY <1>2, <1>6, <2>5 DEF Direccion
  <2>10. 0 <= b.desde /\ b.desde + b.bytes <= o BY <1>2, <1>3, <2>1, <2>7, <2>8, <2>9, Tamanios
  <2>. QED BY <1>1, <1>4, <2>10 DEF Dentro
<1>. QED BY <1>5, <1>6

\* The main loop always reads and writes inside the memory of a patota.
LEMMA PrincipalDentro ==
  ASSUME TiposPatotas, TiposHilos, Ordenado, Sitios, PorHacer # << >>, NEW a, a = Siguiente(Principal),
         a.tipo \in Memoria
  PROVE  a \in Accesos /\ Dentro(Ubicado(a), patotas[a.p].memoria_ocupada)
<1>1. Principal \in Hilos BY DEF Hilos
<1>2. a \in Accesos /\ PorHacer \in Seq(Accesos)
  <2>1. hilos[Principal].accesos # << >> BY DEF PorHacer
  <2>. QED BY <1>1, <2>1, AccesoActual DEF PorHacer
<1>3. 1 \in DOMAIN PorHacer /\ PorHacer[1] = a BY <1>2 DEF Siguiente, PorHacer
<1>4. EnOrden(PorHacer) /\ Alcances(PorHacer) BY DEF Ordenado
<1>5. a.t # 0 => <<a.p, a.t>> \in tripulantes BY <1>3, <1>4 DEF Alcances
<1>6. a.t = 0 => Dentro(a, patotas[a.p].memoria_ocupada) BY <1>3, <1>4 DEF Alcances
<1>. QED BY <1>2, <1>4, <1>5, <1>6, UbicadoDentro

\* The main loop takes a page, or leaves one.
LEMMA OrdenadoTomar ==
  ASSUME Tipos, Ordenado, Sitios, Tomar(Principal)
  PROVE  Ordenado' /\ MismosPasos
<1>1. TiposPatotas /\ TiposHilos /\ Principal \in Hilos BY DEF Tipos, Hilos
<1>2. PICK b : b = Siguiente(Principal) OBVIOUS
<1>3. PICK a : a = Ubicado(b) OBVIOUS
<1>4. UNCHANGED <<patotas, tripulantes>> /\ PorHacer # << >> /\ b.tipo \in Memoria
  BY <1>1, <1>2, <1>3, TomarAccesos DEF PorHacer
<1>5. b \in Accesos /\ Dentro(a, patotas[b.p].memoria_ocupada) BY <1>1, <1>2, <1>3, <1>4, PrincipalDentro
<1>6. a \in Accesos /\ a.t = 0 /\ a.tipo = b.tipo /\ a.p = b.p BY <1>1, <1>3, <1>4, <1>5, UbicadoBien
<1>7. CASE UNCHANGED hilos
  <2>1. PorHacer' = PorHacer BY <1>7 DEF PorHacer
  <2>. QED BY <1>4, <2>1, OrdenadoAjeno
<1>8. CASE hilos'[Principal].accesos = <<a>> \o Tail(hilos[Principal].accesos)
  <2>1. PICK w : w = <<a>> OBVIOUS
  <2>2. /\ w \in Seq(Accesos)
        /\ \A i \in DOMAIN w : /\ w[i].tipo \in Memoria /\ w[i].t = 0
                               /\ Dentro(w[i], patotas[w[i].p].memoria_ocupada)
    <3>1. w \in Seq(Accesos) /\ \A i \in DOMAIN w : w[i] = a BY <1>6, <2>1
    <3>. QED BY <1>4, <1>5, <1>6, <3>1
  <2>3. PorHacer' = w \o Tail(PorHacer) BY <1>8, <2>1 DEF PorHacer
  <2>4. PorHacer[1].tipo \notin {"correr", "soltar"}
    <3>1. PorHacer[1] = b
      <4>1. PorHacer \in Seq(Accesos) BY <1>1 DEF PorHacer, TiposHilos, Hilo
      <4>. QED BY <1>2, <4>1, <1>4 DEF Siguiente, PorHacer
    <3>. QED BY <1>4, <3>1 DEF Memoria
  <2>. QED BY <1>1, <1>4, <2>2, <2>3, <2>4, RelevoPrincipal
<1>. QED BY <1>1, <1>2, <1>3, <1>7, <1>8, TomarAccesos

\* The main loop leaves a page: what is left of the access is inside the patota.
LEMMA OrdenadoCopiar ==
  ASSUME Tipos, Ordenado, Copiar(Principal)
  PROVE  Ordenado' /\ MismosPasos
<1>1. TiposPatotas /\ TiposHilos /\ Principal \in Hilos BY DEF Tipos, Hilos
<1>2. PICK a : a = Siguiente(Principal) OBVIOUS
<1>3. /\ UNCHANGED <<patotas, tripulantes>> /\ PorHacer # << >> /\ a \in Accesos /\ a.tipo \in Memoria /\ a.t = 0
      /\ hilos'[Principal].accesos = Resto(a) \o Tail(hilos[Principal].accesos)
  BY <1>1, <1>2, CopiarAccesos DEF PorHacer
<1>4. PICK w : w = Resto(a) OBVIOUS
<1>5. w \in Seq(Accesos) /\ \A i \in DOMAIN w : w[i].tipo \in Memoria BY <1>1, <1>3, <1>4, RestoBien
<1>6. PorHacer \in Seq(Accesos) BY <1>1 DEF PorHacer, TiposHilos, Hilo
<1>7. 1 \in DOMAIN PorHacer /\ PorHacer[1] = a BY <1>2, <1>3, <1>6 DEF Siguiente, PorHacer
<1>8. Dentro(a, patotas[a.p].memoria_ocupada) BY <1>3, <1>7 DEF Ordenado, Alcances
<1>9. ASSUME NEW i \in DOMAIN w
      PROVE  w[i].tipo \in Memoria /\ w[i].t = 0 /\ Dentro(w[i], patotas[w[i].p].memoria_ocupada)
  <2>1. PICK b : b = w[i] OBVIOUS
  <2>2. b.p = a.p /\ b.t = a.t /\ b.desde = a.desde /\ b.bytes = a.bytes BY <1>3, <1>4, <2>1, RestoIgual
  <2>. QED BY <1>3, <1>5, <1>8, <2>1, <2>2 DEF Dentro
<1>10. PorHacer' = w \o Tail(PorHacer) BY <1>3, <1>4 DEF PorHacer
<1>11. PorHacer[1].tipo \notin {"correr", "soltar"} BY <1>3, <1>7 DEF Memoria
<1>. QED BY <1>1, <1>3, <1>5, <1>9, <1>10, <1>11, RelevoPrincipal

\* a trip that began in the memory of patota p was expelled
Bajas(p) == \E t \in DOMAIN patotas[p].inicio : patotas[p].inicio[t] # 0 /\ <<p, t>> \notin tripulantes

\* The thread of a trip asks for its own addresses, and for bytes inside the memory of
\* its patota unless a trip of it was expelled.
AccesoDeHilo(a, h) ==
  /\ a.p = h[1] /\ a.t \in {0, h[2]}
  /\ a.t = 0 => Bajas(a.p) \/ Dentro(a, patotas[a.p].memoria_ocupada)
DeHilo(h) == \A i \in DOMAIN hilos[h].accesos : AccesoDeHilo(hilos[h].accesos[i], h)
DeHilos == \A h \in Trips : DeHilo(h)

\* a patota keeps its expulsions, and its memory only shrinks with one
Sigue(p) ==
  /\ Bajas(p) => Bajas(p)'
  /\ Bajas(p)' \/ (patotas[p].memoria_ocupada \in Int /\ patotas'[p].memoria_ocupada \in Int
                     /\ patotas[p].memoria_ocupada <= patotas'[p].memoria_ocupada)

\* An access of a thread is still one of its own, if its patota keeps its memory or its expulsions.
LEMMA AccesoSigue ==
  ASSUME NEW a \in Accesos, NEW h, AccesoDeHilo(a, h), Sigue(a.p)
  PROVE  AccesoDeHilo(a, h)'
<1>1. a.p = h[1] /\ a.t \in {0, h[2]} BY DEF AccesoDeHilo
<1>2. CASE Bajas(a.p)' BY <1>1, <1>2 DEF AccesoDeHilo, Bajas
<1>3. CASE ~Bajas(a.p)'
  <2>1. ~Bajas(a.p) BY <1>3 DEF Sigue
  <2>2. PICK x : x = patotas[a.p].memoria_ocupada OBVIOUS
  <2>3. PICK y : y = patotas'[a.p].memoria_ocupada OBVIOUS
  <2>4. x \in Int /\ y \in Int /\ x <= y BY <1>3, <2>2, <2>3 DEF Sigue
  <2>5. a.desde \in Int /\ a.bytes \in Nat BY DEF Accesos, AccesosDe
  <2>6. a.t = 0 => Dentro(a, x) BY <2>1, <2>2 DEF AccesoDeHilo
  <2>7. a.t = 0 => Dentro(a, y) BY <2>4, <2>5, <2>6 DEF Dentro
  <2>8. a.t = 0 => Dentro(a, patotas[a.p].memoria_ocupada)' BY <2>3, <2>7 DEF Dentro
  <2>. QED BY <1>1, <2>8 DEF AccesoDeHilo
<1>. QED BY <1>2, <1>3

\* A thread that goes on as it was, or was cancelled.
LEMMA DeHiloSigue ==
  ASSUME TiposHilos, NEW h \in Trips, DeHilo(h), \A p \in 1 .. Len(patotas) : Sigue(p),
         hilos'[h].accesos = hilos[h].accesos \/ hilos'[h].accesos = << >>
  PROVE  DeHilo(h)'
<1>1. CASE hilos'[h].accesos = << >>
  <2>1. DOMAIN hilos'[h].accesos = {} BY <1>1
  <2>. QED BY <2>1 DEF DeHilo
<1>2. CASE hilos'[h].accesos = hilos[h].accesos
  <2>1. h \in Hilos BY DEF Hilos
  <2>2. PICK c : c = hilos[h].accesos OBVIOUS
  <2>3. c \in Seq(Accesos) BY <2>1, <2>2 DEF TiposHilos, Hilo
  <2>4. ASSUME NEW i \in DOMAIN c PROVE AccesoDeHilo(c[i], h)'
    <3>1. c[i] \in Accesos BY <2>3
    <3>2. c[i].p \in 1 .. Len(patotas) BY <3>1 DEF Accesos, AccesosDe
    <3>3. AccesoDeHilo(c[i], h) BY <2>2 DEF DeHilo
    <3>. QED BY <3>1, <3>2, <3>3, AccesoSigue
  <2>5. hilos'[h].accesos = c BY <1>2, <2>2
  <2>. QED BY <2>4, <2>5 DEF DeHilo, AccesoDeHilo, Bajas, Dentro
<1>. QED BY <1>1, <1>2

\* A patota that does not change keeps both.
LEMMA SigueIgual ==
  ASSUME TiposPatotas, UNCHANGED <<patotas, tripulantes>>, NEW p \in 1 .. Len(patotas)
  PROVE  Sigue(p)
<1>1. patotas[p].memoria_ocupada \in Int BY BaseBien DEF Patota
<1>2. Bajas(p) => Bajas(p)' BY DEF Bajas
<1>. QED BY <1>1, <1>2 DEF Sigue

\* A thread that puts accesses before the rest of its message.
LEMMA DeHiloRelevo ==
  ASSUME TiposPatotas, TiposHilos, NEW h \in Trips, DeHilo(h), UNCHANGED <<patotas, tripulantes>>,
         hilos[h].accesos # << >>, NEW w \in Seq(Accesos), hilos'[h].accesos = w \o Tail(hilos[h].accesos),
         \A i \in DOMAIN w : AccesoDeHilo(w[i], h)
  PROVE  DeHilo(h)'
<1>1. PICK c : c = hilos[h].accesos OBVIOUS
<1>2. PICK S : S = Accesos OBVIOUS
<1>3. h \in Hilos BY DEF Hilos
<1>4. c \in Seq(S) /\ w \in Seq(S) /\ c # << >> BY <1>1, <1>2, <1>3 DEF TiposHilos, Hilo
<1>5. PICK v : v = w \o Tail(c) OBVIOUS
<1>6. Relevo(c, w, v) /\ v \in Seq(S) BY <1>4, <1>5, RelevoBien
<1>7. ASSUME NEW i \in DOMAIN v PROVE AccesoDeHilo(v[i], h)'
  <2>1. AccesoDeHilo(v[i], h) BY <1>1, <1>6 DEF Relevo, DeHilo
  <2>2. v[i] \in Accesos BY <1>2, <1>6
  <2>3. v[i].p \in 1 .. Len(patotas) BY <2>2 DEF Accesos, AccesosDe
  <2>4. Sigue(v[i].p) BY <2>3, SigueIgual
  <2>. QED BY <2>1, <2>2, <2>4, AccesoSigue
<1>8. hilos'[h].accesos = v BY <1>1, <1>5
<1>. QED BY <1>7, <1>8 DEF DeHilo, AccesoDeHilo, Bajas, Dentro

\* The first access of a trip's thread.
LEMMA PrimeroDeHilo ==
  ASSUME TiposHilos, NEW h \in Trips, DeHilo(h), hilos[h].accesos # << >>, NEW a, a = Siguiente(h)
  PROVE  a \in Accesos /\ AccesoDeHilo(a, h)
<1>1. h \in Hilos BY DEF Hilos
<1>2. hilos[h].accesos \in Seq(Accesos) BY <1>1 DEF TiposHilos, Hilo
<1>3. 1 \in DOMAIN hilos[h].accesos /\ hilos[h].accesos[1] = a BY <1>2 DEF Siguiente
<1>. QED BY <1>2, <1>3 DEF DeHilo

\* A trip whose thread runs began somewhere, and if it is not in the list it was expelled.
LEMMA HiloVivo ==
  ASSUME TiposPatotas, SinHilo, Llegados, NEW h \in Trips, hilos[h].pc # "sin_hilo"
  PROVE  /\ h[1] \in 1 .. Len(patotas) /\ h[2] \in DOMAIN patotas[h[1]].inicio
         /\ h[2] \in Nat /\ h[2] # 0
         /\ <<h[1], h[2]>> \notin tripulantes => Bajas(h[1])
<1>1. ~Sin(h[1], h[2]) BY DEF SinHilo
<1>2. <<h[1], h[2]>> \in Existen BY <1>1 DEF Sin
<1>3. h[1] \in 1 .. Len(patotas) /\ h[2] \in 1 .. Len(patotas[h[1]].inicio) BY <1>2 DEF Existen
<1>4. patotas[h[1]].inicio[h[2]] # 0 BY <1>1, <1>3 DEF Llegados
<1>5. patotas[h[1]].inicio \in Seq(Int) BY <1>3, BaseBien DEF Patota
<1>6. h[2] \in DOMAIN patotas[h[1]].inicio BY <1>3, <1>5
<1>7. h[2] \in Nat /\ h[2] # 0 BY Tamanios DEF Trips
<1>. QED BY <1>3, <1>4, <1>6, <1>7 DEF Bajas

\* A thread reads the address of a trip: its own, or one that was expelled.
LEMMA DeHiloLeer ==
  ASSUME Tipos, Nuevos, Ordenado, Sitios, Llegados, NEW h \in Trips, DeHilo(h), LeerDireccion(h)
  PROVE  DeHilo(h)'
<1>1. TiposPatotas /\ TiposHilos /\ SinHilo /\ h \in Hilos BY DEF Tipos, Nuevos, Hilos
<1>2. PICK b : b = Siguiente(h) OBVIOUS
<1>3. PICK a : a = Ubicado(b) OBVIOUS
<1>4. /\ UNCHANGED <<patotas, tripulantes>> /\ hilos[h].accesos # << >> /\ hilos[h].pc = "listo"
      /\ b.tipo \in Memoria /\ b.t # 0 /\ hilos'[h].accesos = <<a>> \o Tail(hilos[h].accesos)
  BY <1>1, <1>2, <1>3, LeerAccesos
<1>5. b \in Accesos /\ AccesoDeHilo(b, h) BY <1>1, <1>2, <1>4, PrimeroDeHilo
<1>6. b.p = h[1] /\ b.t = h[2] BY <1>4, <1>5 DEF AccesoDeHilo
<1>7. a \in Accesos /\ a.t = 0 /\ a.p = b.p BY <1>1, <1>3, <1>4, <1>5, UbicadoBien
<1>8. hilos[h].pc # "sin_hilo" BY <1>4
<1>9. Bajas(a.p) \/ Dentro(a, patotas[a.p].memoria_ocupada)
  <2>1. CASE <<b.p, b.t>> \in tripulantes
    <3>1. EnOrden(PorHacer) BY DEF Ordenado
    <3>2. Dentro(a, patotas[b.p].memoria_ocupada) BY <1>1, <1>3, <1>4, <1>5, <2>1, <3>1, UbicadoDentro
    <3>. QED BY <1>7, <3>2
  <2>2. CASE <<b.p, b.t>> \notin tripulantes BY <1>1, <1>6, <1>7, <1>8, <2>2, HiloVivo
  <2>. QED BY <2>1, <2>2
<1>10. AccesoDeHilo(a, h) BY <1>6, <1>7, <1>9 DEF AccesoDeHilo
<1>11. PICK w : w = <<a>> OBVIOUS
<1>12. w \in Seq(Accesos) /\ \A i \in DOMAIN w : w[i] = a BY <1>7, <1>11
<1>. QED BY <1>1, <1>4, <1>10, <1>11, <1>12, DeHiloRelevo

\* A thread takes a page.
LEMMA DeHiloTomar ==
  ASSUME Tipos, NEW h \in Trips, DeHilo(h), Tomar(h)
  PROVE  DeHilo(h)'
<1>1. TiposPatotas /\ TiposHilos /\ h \in Hilos /\ h # Principal
  <2>1. h[1] # 0 BY DEF Trips
  <2>. QED BY <2>1 DEF Tipos, Hilos, Principal
<1>2. PICK b : b = Siguiente(h) OBVIOUS
<1>3. PICK a : a = Ubicado(b) OBVIOUS
<1>4. /\ UNCHANGED <<patotas, tripulantes>> /\ hilos[h].accesos # << >>
      /\ b.tipo \in Memoria /\ b.t = 0
      /\ UNCHANGED hilos \/ hilos'[h].accesos = <<a>> \o Tail(hilos[h].accesos)
  BY <1>1, <1>2, <1>3, TomarAccesos
<1>5. b \in Accesos /\ AccesoDeHilo(b, h) BY <1>1, <1>2, <1>4, PrimeroDeHilo
<1>6. a \in Accesos /\ a.t = 0 /\ a.p = b.p /\ a.bytes = b.bytes /\ a.desde = b.desde
  <2>1. Direccion(b) = b.desde BY <1>4 DEF Direccion
  <2>2. a \in Accesos /\ a.t = 0 /\ a.p = b.p BY <1>1, <1>3, <1>4, <1>5, UbicadoBien
  <2>3. a.bytes = b.bytes /\ a.desde = Direccion(b) BY <1>1, <1>3, <1>4, <1>5, UbicadoBien
  <2>. QED BY <2>1, <2>2, <2>3
<1>7. AccesoDeHilo(a, h) BY <1>4, <1>5, <1>6 DEF AccesoDeHilo, Dentro
<1>8. CASE UNCHANGED hilos
  <2>1. \A p \in 1 .. Len(patotas) : Sigue(p) BY <1>1, <1>4, SigueIgual
  <2>2. hilos'[h].accesos = hilos[h].accesos BY <1>8
  <2>. QED BY <1>1, <2>1, <2>2, DeHiloSigue
<1>9. CASE hilos'[h].accesos = <<a>> \o Tail(hilos[h].accesos)
  <2>1. PICK w : w = <<a>> OBVIOUS
  <2>2. w \in Seq(Accesos) /\ \A i \in DOMAIN w : w[i] = a BY <1>6, <2>1
  <2>. QED BY <1>1, <1>4, <1>7, <1>9, <2>1, <2>2, DeHiloRelevo
<1>. QED BY <1>4, <1>8, <1>9

\* A thread leaves a page, with what is left of the access.
LEMMA DeHiloCopiar ==
  ASSUME Tipos, NEW h \in Trips, DeHilo(h), Copiar(h)
  PROVE  DeHilo(h)'
<1>1. TiposPatotas /\ TiposHilos /\ h \in Hilos BY DEF Tipos, Hilos
<1>2. PICK a : a = Siguiente(h) OBVIOUS
<1>3. /\ UNCHANGED <<patotas, tripulantes>> /\ hilos[h].accesos # << >> /\ a.tipo \in Memoria /\ a.t = 0
      /\ hilos'[h].accesos = Resto(a) \o Tail(hilos[h].accesos)
  BY <1>1, <1>2, CopiarAccesos
<1>4. a \in Accesos /\ AccesoDeHilo(a, h) BY <1>1, <1>2, <1>3, PrimeroDeHilo
<1>5. PICK w : w = Resto(a) OBVIOUS
<1>6. w \in Seq(Accesos) BY <1>1, <1>3, <1>4, <1>5, RestoBien
<1>7. ASSUME NEW i \in DOMAIN w PROVE AccesoDeHilo(w[i], h)
  <2>1. PICK b : b = w[i] OBVIOUS
  <2>2. b.p = a.p /\ b.t = a.t /\ b.desde = a.desde /\ b.bytes = a.bytes BY <1>4, <1>5, <2>1, RestoIgual
  <2>3. AccesoDeHilo(b, h) BY <1>4, <2>2 DEF AccesoDeHilo, Dentro
  <2>. QED BY <2>1, <2>3
<1>. QED BY <1>1, <1>3, <1>5, <1>6, <1>7, DeHiloRelevo

\* A new message of a trip.
LEMMA DeHiloRutina ==
  ASSUME Tipos, Nuevos, Filas, Llegados, NEW trip \in Trips, rutina_hilos(trip[1], trip[2])
  PROVE  DeHilo(trip)'
<1>1. PICK p : p = trip[1] OBVIOUS
<1>2. PICK t : t = trip[2] OBVIOUS
<1>3. trip = <<p, t>> BY <1>1, <1>2 DEF Trips
<1>4. PICK acc \in NEXT_T(p, t) \union ACTU_P(p, t) \union ACTU_E(p, t) : Empezar(trip, acc)
  BY <1>1, <1>2, <1>3 DEF rutina_hilos
<1>5. Ocioso(trip) /\ UNCHANGED <<patotas, tripulantes>> BY <1>1, <1>2, <1>3 DEF rutina_hilos
<1>6. TiposPatotas /\ TiposHilos /\ SinHilo /\ trip \in Hilos BY DEF Tipos, Nuevos, Hilos
<1>7. hilos[trip].pc # "sin_hilo" BY <1>5 DEF Ocioso
<1>8. p \in 1 .. Len(patotas) /\ t \in Nat /\ t # 0 BY <1>1, <1>2, <1>6, <1>7, HiloVivo
<1>9. hilos'[trip].accesos = acc
  <2>1. hilos \in [Hilos -> Hilo] /\ hilos[trip] \in Hilo BY <1>6 DEF TiposHilos
  <2>2. PICK r : r = [hilos[trip] EXCEPT !.accesos = acc] OBVIOUS
  <2>3. r.accesos = acc BY <2>1, <2>2 DEF Hilo
  <2>4. hilos' = [hilos EXCEPT ![trip] = r] BY <1>4, <2>2 DEF Empezar
  <2>. QED BY <1>6, <2>1, <2>3, <2>4
<1>11. ASSUME NEW a, a.p = p, a.t = t PROVE AccesoDeHilo(a, trip)
  BY <1>1, <1>2, <1>8, <1>11 DEF AccesoDeHilo
<1>12. \A campo : /\ AccesoDeHilo(Leer(p, t, campo), trip) /\ AccesoDeHilo(Escribir(p, t, campo), trip)
  <2>1. TAKE campo
  <2>2. Leer(p, t, campo).p = p /\ Leer(p, t, campo).t = t BY DEF Leer, Acceso
  <2>3. Escribir(p, t, campo).p = p /\ Escribir(p, t, campo).t = t BY DEF Escribir, Acceso
  <2>. QED BY <1>11, <2>2, <2>3
<1>13. AccesoDeHilo(EscribirEstado(p, t), trip)
  <2>1. EscribirEstado(p, t).p = p /\ EscribirEstado(p, t).t = t BY DEF EscribirEstado, Acceso
  <2>. QED BY <1>11, <2>1
<1>14. AccesoDeHilo(Acceso("tarea", p, 0, TAMANIO_PATOTA, patotas[p].tareas), trip)
  <2>1. PICK a : a = Acceso("tarea", p, 0, TAMANIO_PATOTA, patotas[p].tareas) OBVIOUS
  <2>2. a.p = p /\ a.t = 0 /\ a.desde = TAMANIO_PATOTA /\ a.bytes = patotas[p].tareas BY <2>1 DEF Acceso
  <2>3. PICK o : o = patotas[p].memoria_ocupada OBVIOUS
  <2>4. PICK b : b = Base(p) OBVIOUS
  <2>5. o \in Nat /\ b <= o BY <1>6, <1>8, <2>3, <2>4, OcupadaBien
  <2>6. b = TAMANIO_PATOTA + patotas[p].tareas BY <2>4 DEF Base
  <2>7. Dentro(a, o) BY <2>2, <2>5, <2>6, Tamanios DEF Dentro
  <2>8. AccesoDeHilo(a, trip) BY <1>1, <2>2, <2>3, <2>7 DEF AccesoDeHilo
  <2>. QED BY <2>1, <2>8
<1>15. ASSUME NEW i \in DOMAIN acc PROVE AccesoDeHilo(acc[i], trip)
  <2>1. ASSUME acc \in NEXT_T(p, t) PROVE AccesoDeHilo(acc[i], trip)
    <3>1. PICK x : x = Leer(p, t, "INS_POINTER") OBVIOUS
    <3>2. PICK y : y = Acceso("tarea", p, 0, TAMANIO_PATOTA, patotas[p].tareas) OBVIOUS
    <3>3. PICK z : z = Escribir(p, t, "INS_POINTER") OBVIOUS
    <3>4. acc = <<x>> \/ acc = <<x, y, z>> BY <2>1, <3>1, <3>2, <3>3 DEF NEXT_T
    <3>5. acc[i] = x \/ acc[i] = y \/ acc[i] = z BY <3>4
    <3>. QED BY <1>12, <1>14, <3>1, <3>2, <3>3, <3>5
  <2>2. ASSUME acc \in ACTU_P(p, t) PROVE AccesoDeHilo(acc[i], trip)
    <3>1. PICK x : x = Escribir(p, t, "POS_X") OBVIOUS
    <3>2. PICK y : y = Escribir(p, t, "POS_Y") OBVIOUS
    <3>3. acc = <<x, y>> BY <2>2, <3>1, <3>2 DEF ACTU_P
    <3>4. acc[i] = x \/ acc[i] = y BY <3>3
    <3>. QED BY <1>12, <3>1, <3>2, <3>4
  <2>3. ASSUME acc \in ACTU_E(p, t) PROVE AccesoDeHilo(acc[i], trip)
    <3>1. PICK x : x = EscribirEstado(p, t) OBVIOUS
    <3>2. acc = <<x>> \/ acc = << >> BY <2>3, <3>1 DEF ACTU_E
    <3>3. acc[i] = x BY <3>2
    <3>. QED BY <1>13, <3>1, <3>3
  <2>. QED BY <1>4, <2>1, <2>2, <2>3
<1>16. ASSUME NEW i \in DOMAIN acc PROVE AccesoDeHilo(acc[i], trip)' BY <1>5, <1>15 DEF AccesoDeHilo, Bajas, Dentro
<1>. QED BY <1>9, <1>16 DEF DeHilo, AccesoDeHilo, Bajas, Dentro

\* INIT_P leaves the patotas that were there as they are.
LEMMA SigueAceptada ==
  ASSUME Tipos, NEW n \in 1 .. MaxTripulantes, NEW tareas \in TamaniosTareas, INIT_P(n, tareas),
         AceptarPatota(n, tareas), NEW q \in 1 .. Len(patotas)
  PROVE  Sigue(q)
<1>1. PICK p : p = Len(patotas) + 1 OBVIOUS
<1>2. PICK u : u = TAMANIO_PATOTA + tareas OBVIOUS
<1>3. TiposPatotas /\ TiposMarcos BY DEF Tipos
<1>4. UNCHANGED tripulantes BY <1>1, <1>2, <1>3, PatotaAceptada
<1>5. patotas'[q] = patotas[q] BY <1>1, <1>2, <1>3, PatotaAceptada
<1>6. patotas[q].memoria_ocupada \in Int BY <1>3, BaseBien DEF Patota
<1>7. Bajas(q) => Bajas(q)' BY <1>4, <1>5 DEF Bajas
<1>. QED BY <1>5, <1>6, <1>7 DEF Sigue

\* INIT_T gives its patota more memory, and expels nobody.
LEMMA SigueInitT ==
  ASSUME Tipos, Nuevos, Llegados, INIT_T, NEW p, p = Len(patotas),
         ~(FramesDelTrip(p) > Cardinality(Libres(mapa_logico))), NEW q \in 1 .. Len(patotas)
  PROVE  Sigue(q)
<1>1. PICK t : t = Len(patotas[p].inicio) - faltan + 1 OBVIOUS
<1>2. TiposPatotas /\ TiposMarcos /\ faltan > 0 /\ faltan \in Nat BY DEF Tipos, INIT_T, TiposPatotas
<1>3. PICK e : e = Elegidos(mapa_logico, FramesDelTrip(p)) OBVIOUS
<1>4. p \in 1 .. Len(patotas) /\ t \in 1 .. Len(patotas[p].inicio) /\ t \in Nat
  <2>1. p \in 1 .. Len(patotas) /\ t \in Nat BY <1>1, <1>2, TripNuevo
  <2>2. t \in 1 .. Len(patotas[p].inicio) BY <1>1, <1>2, TripNuevo
  <2>. QED BY <2>1, <2>2
<1>5. /\ patotas'[p].inicio = [patotas[p].inicio EXCEPT ![t] = patotas[p].memoria_ocupada]
      /\ patotas'[p].memoria_ocupada = patotas[p].memoria_ocupada + TAMANIO_TRIPULANTE
      /\ tripulantes' = tripulantes \union {<<p, t>>}
      /\ \A r \in 1 .. Len(patotas) : r # p => patotas'[r] = patotas[r]
  <2>1. patotas'[p].inicio = [patotas[p].inicio EXCEPT ![t] = patotas[p].memoria_ocupada]
    BY <1>1, <1>2, <1>3, TripAceptado
  <2>2. patotas'[p].memoria_ocupada = patotas[p].memoria_ocupada + TAMANIO_TRIPULANTE
    BY <1>1, <1>2, <1>3, TripAceptado
  <2>3. tripulantes' = tripulantes \union {<<p, t>>} BY <1>1, <1>2, <1>3, TripAceptado
  <2>4. \A r \in 1 .. Len(patotas) : r # p => patotas'[r] = patotas[r] BY <1>1, <1>2, <1>3, TripAceptado
  <2>. QED BY <2>1, <2>2, <2>3, <2>4
<1>6. patotas[q].memoria_ocupada \in Int /\ patotas[q].inicio \in Seq(Int) BY <1>2, BaseBien DEF Patota
<1>7. CASE q # p
  <2>1. patotas'[q] = patotas[q] BY <1>5, <1>7
  <2>2. \A u : <<q, u>> \in tripulantes' => <<q, u>> \in tripulantes BY <1>5, <1>7
  <2>3. Bajas(q) => Bajas(q)' BY <2>1, <2>2 DEF Bajas
  <2>. QED BY <1>6, <2>1, <2>3 DEF Sigue
<1>8. CASE q = p
  <2>1. patotas[p].inicio[t] = 0
    <3>1. Len(patotas[p].inicio) \in Nat BY <1>6, <1>8
    <3>2. t > Len(patotas[p].inicio) - faltan BY <1>1, <1>2, <1>4, <3>1
    <3>3. Sin(p, t) BY <3>2 DEF Sin
    <3>. QED BY <1>4, <3>3 DEF Llegados
  <2>2. ASSUME Bajas(p) PROVE Bajas(p)'
    <3>1. PICK u \in DOMAIN patotas[p].inicio : patotas[p].inicio[u] # 0 /\ <<p, u>> \notin tripulantes
      BY <2>2 DEF Bajas
    <3>2. u # t BY <2>1, <3>1
    <3>3. u \in DOMAIN patotas'[p].inicio /\ patotas'[p].inicio[u] = patotas[p].inicio[u]
      BY <1>5, <1>6, <1>8, <3>1, <3>2
    <3>4. <<p, u>> \notin tripulantes' BY <1>5, <3>1, <3>2
    <3>. QED BY <3>1, <3>3, <3>4 DEF Bajas
  <2>3. PICK x : x = patotas[p].memoria_ocupada OBVIOUS
  <2>4. x \in Int /\ patotas'[p].memoria_ocupada = x + TAMANIO_TRIPULANTE BY <1>5, <1>6, <1>8, <2>3
  <2>5. x + TAMANIO_TRIPULANTE \in Int /\ x <= x + TAMANIO_TRIPULANTE BY <2>4, Tamanios
  <2>. QED BY <1>8, <2>2, <2>3, <2>4, <2>5 DEF Sigue
<1>. QED BY <1>7, <1>8

\* Only trips that stay move down, and the memory of their patota is the same.
LEMMA SigueCorrer ==
  ASSUME Tipos, Ordenado, Correr, NEW q \in 1 .. Len(patotas)
  PROVE  Sigue(q)
<1>1. PICK a : a = Siguiente(Principal) OBVIOUS
<1>2. TiposPatotas /\ TiposHilos BY DEF Tipos
<1>3. hilos' = Hecho(Principal) /\ UNCHANGED tripulantes /\ a.tipo = "correr" BY <1>1 DEF Correr, Le_toca
<1>4. Le_toca(Principal, Pasos) /\ Hilo' = Hilo BY <1>1, CorrerHace
<1>5. PICK c : c = PorHacer OBVIOUS
<1>6. 1 \in DOMAIN c /\ c[1] = a BY <1>1, <1>2, <1>3, <1>4, <1>5, PasoPrincipal
<1>7. <<a.p, a.t>> \in tripulantes BY <1>3, <1>5, <1>6 DEF Ordenado, EnOrden
<1>8. a.p \in 1 .. Len(patotas) /\ a.t \in 1 .. Len(patotas[a.p].inicio) BY <1>1, CorrerHace
<1>9. patotas'[a.p].inicio = [patotas[a.p].inicio EXCEPT ![a.t] = patotas[a.p].inicio[a.t] - TAMANIO_TRIPULANTE]
  BY <1>1, CorrerHace
<1>10. patotas'[a.p].memoria_ocupada = patotas[a.p].memoria_ocupada BY <1>1, CorrerHace
<1>11. \A r \in 1 .. Len(patotas) : r # a.p => patotas'[r] = patotas[r] BY <1>1, CorrerHace
<1>12. patotas[q].memoria_ocupada \in Int /\ patotas[q].inicio \in Seq(Int) BY <1>2, BaseBien DEF Patota
<1>13. CASE q # a.p
  <2>1. patotas'[q] = patotas[q] BY <1>11, <1>13
  <2>2. Bajas(q) => Bajas(q)' BY <1>3, <2>1 DEF Bajas
  <2>. QED BY <1>12, <2>1, <2>2 DEF Sigue
<1>14. CASE q = a.p
  <2>1. ASSUME Bajas(q) PROVE Bajas(q)'
    <3>1. PICK u \in DOMAIN patotas[q].inicio : patotas[q].inicio[u] # 0 /\ <<q, u>> \notin tripulantes
      BY <2>1 DEF Bajas
    <3>2. u # a.t BY <1>7, <1>14, <3>1
    <3>3. u \in DOMAIN patotas'[q].inicio /\ patotas'[q].inicio[u] = patotas[q].inicio[u]
      BY <1>9, <1>12, <1>14, <3>1, <3>2
    <3>. QED BY <1>3, <3>1, <3>3 DEF Bajas
  <2>2. patotas'[q].memoria_ocupada = patotas[q].memoria_ocupada BY <1>10, <1>14
  <2>. QED BY <1>12, <2>1, <2>2 DEF Sigue
<1>. QED BY <1>13, <1>14

\* The memory of a patota shrinks with an expulsion, which it keeps.
LEMMA SigueSoltar ==
  ASSUME Tipos, Nuevos, Ordenado, Llegados, Soltar, NEW q \in 1 .. Len(patotas)
  PROVE  Sigue(q)
<1>1. PICK a : a = Siguiente(Principal) OBVIOUS
<1>0. PICK x : x = patotas[a.p].memoria_ocupada - TAMANIO_TRIPULANTE OBVIOUS
<1>2. TiposPatotas /\ TiposHilos /\ SinHilo BY DEF Tipos, Nuevos
<1>3. hilos' = Hecho(Principal) /\ tripulantes' = tripulantes \ {<<a.p, a.t>>} /\ a.tipo = "soltar"
  BY <1>1 DEF Soltar, Le_toca
<1>4. Le_toca(Principal, Pasos) /\ Hilo' = Hilo BY <1>0, <1>1, SoltarHace
<1>5. PICK c : c = PorHacer OBVIOUS
<1>6. 1 \in DOMAIN c /\ c[1] = a BY <1>1, <1>2, <1>3, <1>4, <1>5, PasoPrincipal
<1>7. <<a.p, a.t>> \in tripulantes BY <1>3, <1>5, <1>6 DEF Ordenado, EnOrden
<1>8. a.p \in 1 .. Len(patotas) /\ a.t \in 1 .. Len(patotas[a.p].inicio) BY <1>0, <1>1, SoltarHace
<1>9. patotas'[a.p].inicio = patotas[a.p].inicio BY <1>0, <1>1, SoltarHace
<1>11. \A r \in 1 .. Len(patotas) : r # a.p => patotas'[r] = patotas[r] BY <1>0, <1>1, SoltarHace
<1>12. patotas[q].memoria_ocupada \in Int /\ patotas[q].inicio \in Seq(Int) BY <1>2, BaseBien DEF Patota
<1>13. CASE q # a.p
  <2>1. patotas'[q] = patotas[q] BY <1>11, <1>13
  <2>2. Bajas(q) => Bajas(q)' BY <1>3, <2>1 DEF Bajas
  <2>. QED BY <1>12, <2>1, <2>2 DEF Sigue
<1>14. CASE q = a.p
  <2>1. ~Sin(a.p, a.t)
    <3>1. <<a.p, a.t>> \in Trips BY <1>2, <1>7 DEF TiposPatotas, Existen
    <3>2. a.t \in Vivos(a.p) BY <1>7, <3>1 DEF Vivos, Trips
    <3>. QED BY <1>2, <3>2, VivoLlegado
  <2>2. patotas[a.p].inicio[a.t] # 0 BY <1>8, <2>1 DEF Llegados
  <2>3. a.t \in DOMAIN patotas[a.p].inicio BY <1>8, <1>12, <1>14
  <2>4. <<a.p, a.t>> \notin tripulantes' BY <1>3
  <2>5. Bajas(a.p)' BY <1>9, <2>2, <2>3, <2>4 DEF Bajas
  <2>. QED BY <1>14, <2>5 DEF Sigue
<1>. QED BY <1>13, <1>14

\* The steps of the main loop leave the messages of the threads alone, or take one away.
LEMMA HilosAjenos ==
  ASSUME TiposHilos, NEW h \in Trips,
         (\E v : Empezar(Principal, v)) \/ hilos' = Hecho(Principal) \/ Arrancar \/ Cancelar
  PROVE  hilos'[h].accesos = hilos[h].accesos \/ hilos'[h].accesos = << >>
<1>1. h \in Hilos /\ h # Principal /\ hilos \in [Hilos -> Hilo] /\ hilos[h] \in Hilo
  <2>1. h[1] # 0 BY DEF Trips
  <2>. QED BY <2>1 DEF Hilos, Principal, TiposHilos
<1>2. PICK H : H = Hecho(Principal) OBVIOUS
<1>3. H[h] = hilos[h] /\ DOMAIN H = Hilos BY <1>1, <1>2 DEF Hecho
<1>4. CASE \E v : Empezar(Principal, v) BY <1>1, <1>4 DEF Empezar
<1>5. CASE hilos' = Hecho(Principal) BY <1>2, <1>3, <1>5
<1>6. CASE Arrancar
  <2>1. PICK g : hilos' = [H EXCEPT ![g].pc = "listo"] BY <1>2, <1>6 DEF Arrancar
  <2>2. PICK r : r = [H[g] EXCEPT !.pc = "listo"] OBVIOUS
  <2>3. hilos' = [H EXCEPT ![g] = r] BY <2>1, <2>2
  <2>4. CASE g = h
    <3>1. r.accesos = hilos[h].accesos BY <1>1, <1>3, <2>2, <2>4 DEF Hilo
    <3>. QED BY <1>1, <1>3, <2>3, <2>4, <3>1
  <2>5. CASE g # h BY <1>1, <1>3, <2>3, <2>5
  <2>. QED BY <2>4, <2>5
<1>7. CASE Cancelar
  <2>1. PICK g, m : hilos' = [H EXCEPT ![g].pc = m, ![g].accesos = << >>] BY <1>2, <1>7 DEF Cancelar
  <2>2. PICK r : r = [H[g] EXCEPT !.pc = m, !.accesos = << >>] OBVIOUS
  <2>4. CASE g = h
    <3>1. r.accesos = << >> BY <1>1, <1>3, <2>2, <2>4 DEF Hilo
    <3>2. hilos' = [H EXCEPT ![g] = r] BY <1>1, <1>3, <2>1, <2>2, <2>4
    <3>. QED BY <1>1, <1>3, <2>4, <3>1, <3>2
  <2>5. CASE g # h BY <1>1, <1>3, <2>1, <2>5
  <2>. QED BY <2>4, <2>5
<1>. QED BY <1>4, <1>5, <1>6, <1>7

-----------------------------------------------------------------------------
(* The invariant of the page tables *)

\* What the tables, the main loop and the threads keep, whatever the order of their steps.
Cubierta == Filas /\ Ordenado /\ Sitios /\ Llegados /\ DeHilos

\* Only what the main loop has left, or a thread, changes.
LEMMA CubiertaQuieta ==
  ASSUME Cubierta, UNCHANGED <<patotas, tripulantes, faltan>>, Ordenado', MismosPasos, DeHilos'
  PROVE  Cubierta'
<1>1. Filas /\ Sitios /\ Llegados BY DEF Cubierta
<1>2. Existen' = Existen BY Quietos
<1>3. Filas' BY <1>1, FilasQuietas
<1>4. Sitios' BY <1>1, SitiosQuietos
<1>5. Llegados' BY <1>1, <1>2, LlegadosIguales
<1>. QED BY <1>3, <1>4, <1>5 DEF Cubierta

\* A step of the main loop leaves the threads of the trips their accesses.
LEMMA DeHilosAjenos ==
  ASSUME TiposHilos, DeHilos, \A p \in 1 .. Len(patotas) : Sigue(p),
         (\E v : Empezar(Principal, v)) \/ hilos' = Hecho(Principal) \/ Arrancar \/ Cancelar
  PROVE  DeHilos'
<1>1. ASSUME NEW h \in Trips PROVE DeHilo(h)'
  <2>1. DeHilo(h) BY DEF DeHilos
  <2>2. hilos'[h].accesos = hilos[h].accesos \/ hilos'[h].accesos = << >> BY HilosAjenos
  <2>. QED BY <2>1, <2>2, DeHiloSigue
<1>. QED BY <1>1 DEF DeHilos

\* INIT_P.
LEMMA CubiertaInitP ==
  ASSUME Tipos, Tipos', Cubierta, NEW n \in 1 .. MaxTripulantes, NEW tareas \in TamaniosTareas, INIT_P(n, tareas)
  PROVE  Cubierta'
<1>1. Filas /\ Ordenado /\ Sitios /\ Llegados /\ DeHilos /\ TiposPatotas /\ TiposHilos BY DEF Cubierta, Tipos
<1>2. CASE RechazarPatota(n, tareas)
  <2>1. UNCHANGED <<patotas, tripulantes, faltan>> BY <1>2 DEF INIT_P, RechazarPatota
  <2>2. Filas' BY <1>1, <2>1, FilasQuietas
  <2>3. Ordenado' /\ MismosPasos BY <1>2, <2>2, OrdenadoRechazo
  <2>4. \E v : Empezar(Principal, v) BY <1>2 DEF RechazarPatota
  <2>5. \A p \in 1 .. Len(patotas) : Sigue(p) BY <1>1, <2>1, SigueIgual
  <2>6. DeHilos' BY <1>1, <2>4, <2>5, DeHilosAjenos
  <2>. QED BY <2>1, <2>3, <2>6, CubiertaQuieta
<1>3. CASE AceptarPatota(n, tareas)
  <2>1. Filas' BY <1>1, <1>3, FilasAceptada
  <2>2. Ordenado' /\ MismosPasos BY <1>3, <2>1, OrdenadoAceptada
  <2>3. Sitios' /\ Llegados' BY <1>1, <1>3, <2>2, SitiosAceptada
  <2>4. \E v : Empezar(Principal, v) BY <1>3 DEF AceptarPatota
  <2>5. \A p \in 1 .. Len(patotas) : Sigue(p) BY <1>3, SigueAceptada
  <2>6. DeHilos' BY <1>1, <2>4, <2>5, DeHilosAjenos
  <2>. QED BY <2>1, <2>2, <2>3, <2>6 DEF Cubierta
<1>. QED BY <1>2, <1>3 DEF INIT_P

\* INIT_T, which finds its pages.
LEMMA CubiertaInitT ==
  ASSUME Tipos, Tipos', Nuevos, Cubierta, INIT_T, caida # "sin_marco", caida' = caida
  PROVE  Cubierta'
<1>1. Filas /\ Ordenado /\ Sitios /\ Llegados /\ DeHilos /\ TiposPatotas /\ TiposHilos BY DEF Cubierta, Tipos
<1>2. PICK p : p = Len(patotas) OBVIOUS
<1>3. PICK t : t = Len(patotas[p].inicio) - faltan + 1 OBVIOUS
<1>4. ~(FramesDelTrip(p) > Cardinality(Libres(mapa_logico))) BY <1>2 DEF INIT_T
<1>5. Filas' BY <1>1, <1>2, <1>4, FilasInitT
<1>6. Ordenado' /\ MismosPasos /\ PorHacer = << >> BY <1>2, <1>4, <1>5, OrdenadoInitT
<1>7. Sitios' /\ Llegados' BY <1>1, <1>2, <1>4, <1>6, SitiosInitT
<1>8. \E v : Empezar(Principal, v)
  <2>1. PICK v : v = EscribirTodo(p, t) \o <<Paso("arrancar", p, t)>> \o loggear_data(p, tripulantes') OBVIOUS
  <2>2. Empezar(Principal, v) BY <1>2, <1>3, <1>4, <2>1 DEF INIT_T
  <2>. QED BY <2>2
<1>9. \A q \in 1 .. Len(patotas) : Sigue(q) BY <1>1, <1>2, <1>4, SigueInitT
<1>10. DeHilos' BY <1>1, <1>8, <1>9, DeHilosAjenos
<1>. QED BY <1>5, <1>6, <1>7, <1>10 DEF Cubierta

\* ELIM_T.
LEMMA CubiertaElimT ==
  ASSUME Tipos, Tipos', Cubierta, NEW trip \in tripulantes, ELIM_T(trip[1], trip[2])
  PROVE  Cubierta'
<1>1. Filas /\ Ordenado /\ Sitios /\ Llegados /\ DeHilos /\ TiposPatotas /\ TiposHilos /\ TiposPatotas'
  BY DEF Cubierta, Tipos
<1>2. UNCHANGED <<patotas, tripulantes>> BY DEF ELIM_T
<1>3. Filas' BY <1>1, <1>2, FilasQuietas
<1>4. Ordenado' /\ Sitios' /\ Llegados' BY <1>1, <1>3, SitiosElimT
<1>5. \E v : Empezar(Principal, v) BY DEF ELIM_T
<1>6. \A q \in 1 .. Len(patotas) : Sigue(q) BY <1>1, <1>2, SigueIgual
<1>7. DeHilos' BY <1>1, <1>5, <1>6, DeHilosAjenos
<1>. QED BY <1>3, <1>4, <1>7 DEF Cubierta

\* Arrancar and Cancelar change no patota, and the main loop goes on.
LEMMA PasoSimple ==
  ASSUME TiposPatotas, TiposHilos, Arrancar \/ Cancelar
  PROVE  /\ UNCHANGED <<patotas, tripulantes, faltan>> /\ PorHacer # << >>
         /\ PorHacer[1].tipo \notin {"correr", "soltar"} /\ PorHacer' = Tail(PorHacer)
<1>1. PICK a : a = Siguiente(Principal) OBVIOUS
<1>2. PICK g : g = <<a.p, a.t>> OBVIOUS
<1>3. /\ Le_toca(Principal, {"arrancar", "cancelar"}) /\ UNCHANGED <<patotas, tripulantes, faltan>>
      /\ \/ hilos' = [Hecho(Principal) EXCEPT ![g].pc = "listo"]
         \/ \E pc : hilos' = [Hecho(Principal) EXCEPT ![g].pc = pc, ![g].accesos = <<>>]
  <2>1. CASE Arrancar BY <1>1, <1>2, <2>1 DEF Arrancar, Le_toca, orden
  <2>2. CASE Cancelar
    <3>1. PICK pc : pc = Muerto[hilos[g].pc] OBVIOUS
    <3>2. hilos' = [Hecho(Principal) EXCEPT ![g].pc = pc, ![g].accesos = <<>>]
      BY <1>1, <1>2, <2>2, <3>1 DEF Cancelar
    <3>. QED BY <2>2, <3>2 DEF Cancelar, Le_toca, orden
  <2>. QED BY <2>1, <2>2
<1>4. Le_toca(Principal, Pasos) BY <1>3 DEF Le_toca, Pasos
<1>5. g \in Trips /\ g # Principal /\ g \in Hilos /\ Principal \in Hilos BY <1>1, <1>2, <1>4, PasoBien
<1>6. PICK s : s = hilos[Principal].accesos OBVIOUS
<1>7. hilos'[Principal].accesos = Tail(s)
  <2>1. hilos \in [Hilos -> Hilo] /\ hilos[Principal] \in Hilo BY <1>5 DEF TiposHilos
  <2>2. PICK r : r = [hilos[Principal] EXCEPT !.accesos = Tail(s)] OBVIOUS
  <2>3. r.accesos = Tail(s) BY <2>1, <2>2 DEF Hilo
  <2>4. Hecho(Principal) = [hilos EXCEPT ![Principal] = r] BY <1>6, <2>2 DEF Hecho
  <2>5. \E k : hilos' = [[hilos EXCEPT ![Principal] = r] EXCEPT ![g] = k]
    <3>1. CASE hilos' = [Hecho(Principal) EXCEPT ![g].pc = "listo"]
      <4>1. PICK k : k = [hilos[g] EXCEPT !.pc = "listo"] OBVIOUS
      <4>2. hilos' = [[hilos EXCEPT ![Principal] = r] EXCEPT ![g] = k] BY <1>5, <2>1, <2>4, <3>1, <4>1
      <4>. QED BY <4>2
    <3>2. ASSUME NEW pc, hilos' = [Hecho(Principal) EXCEPT ![g].pc = pc, ![g].accesos = <<>>]
          PROVE  \E k : hilos' = [[hilos EXCEPT ![Principal] = r] EXCEPT ![g] = k]
      <4>1. PICK k : k = [hilos[g] EXCEPT !.pc = pc, !.accesos = <<>>] OBVIOUS
      <4>2. hilos' = [[hilos EXCEPT ![Principal] = r] EXCEPT ![g] = k] BY <1>5, <2>1, <2>4, <3>2, <4>1
      <4>. QED BY <4>2
    <3>. QED BY <1>3, <3>1, <3>2
  <2>. QED BY <1>5, <2>1, <2>3, <2>5
<1>8. s \in Seq(Accesos) /\ s # << >> /\ s[1].tipo \in {"arrancar", "cancelar"}
  <2>1. s \in Seq(Accesos) BY <1>5, <1>6 DEF TiposHilos, Hilo
  <2>2. s # << >> /\ Siguiente(Principal).tipo \in {"arrancar", "cancelar"} BY <1>3, <1>6 DEF Le_toca
  <2>. QED BY <1>6, <2>1, <2>2 DEF Siguiente
<1>. QED BY <1>3, <1>6, <1>7, <1>8 DEF PorHacer

\* Arrancar and Cancelar.
LEMMA CubiertaSimple ==
  ASSUME Tipos, Cubierta, Arrancar \/ Cancelar
  PROVE  Cubierta'
<1>1. Ordenado /\ DeHilos /\ TiposPatotas /\ TiposHilos BY DEF Cubierta, Tipos
<1>2. /\ UNCHANGED <<patotas, tripulantes, faltan>> /\ PorHacer # << >>
      /\ PorHacer[1].tipo \notin {"correr", "soltar"} /\ PorHacer' = Tail(PorHacer)
  BY <1>1, PasoSimple
<1>3. Ordenado' /\ MismosPasos BY <1>1, <1>2, OrdenadoTail
<1>4. \A q \in 1 .. Len(patotas) : Sigue(q) BY <1>1, <1>2, SigueIgual
<1>5. DeHilos' BY <1>1, <1>4, DeHilosAjenos
<1>. QED BY <1>2, <1>3, <1>5, CubiertaQuieta

\* A trip after the expelled one moves down.
LEMMA CubiertaCorrer ==
  ASSUME Tipos, Nuevos, Cubierta, Correr
  PROVE  Cubierta'
<1>1. Filas /\ Ordenado /\ Sitios /\ Llegados /\ DeHilos /\ TiposHilos BY DEF Cubierta, Tipos
<1>2. Filas' BY <1>1, FilasCorrer
<1>3. Ordenado' BY <1>1, OrdenadoCorrer
<1>4. Sitios' /\ Llegados' BY <1>1, SitiosCorrer
<1>5. \A q \in 1 .. Len(patotas) : Sigue(q) BY <1>1, SigueCorrer
<1>6. hilos' = Hecho(Principal) BY DEF Correr
<1>7. DeHilos' BY <1>1, <1>5, <1>6, DeHilosAjenos
<1>. QED BY <1>2, <1>3, <1>4, <1>7 DEF Cubierta

\* The expelled trip's pages are freed.
LEMMA CubiertaSoltar ==
  ASSUME Tipos, Tipos', Nuevos, Cubierta, Soltar
  PROVE  Cubierta'
<1>1. Filas /\ Ordenado /\ Sitios /\ Llegados /\ DeHilos /\ TiposHilos BY DEF Cubierta, Tipos
<1>2. PICK a : a = Siguiente(Principal) OBVIOUS
<1>3. Sitios' /\ Llegados' /\ a.t \in Vivos(a.p) BY <1>1, <1>2, SitiosSoltar
<1>4. Filas' BY <1>1, <1>2, <1>3, FilasSoltar
<1>5. Ordenado' BY <1>1, <1>4, OrdenadoSoltar
<1>6. \A q \in 1 .. Len(patotas) : Sigue(q) BY <1>1, SigueSoltar
<1>7. hilos' = Hecho(Principal) BY DEF Soltar
<1>8. DeHilos' BY <1>1, <1>6, <1>7, DeHilosAjenos
<1>. QED BY <1>3, <1>4, <1>5, <1>8 DEF Cubierta

\* A thread goes on, and the others and the main loop wait.
LEMMA CubiertaHilo ==
  ASSUME TiposPatotas, TiposHilos, Cubierta, UNCHANGED <<patotas, tripulantes, faltan>>, NEW h \in Hilos, LosDemas(h),
         h = Principal => Ordenado' /\ MismosPasos,
         h # Principal => DeHilo(h)'
  PROVE  Cubierta'
<1>1. Ordenado /\ DeHilos BY DEF Cubierta
<1>2. Principal \in Hilos /\ Principal \notin Trips /\ Hilos = {Principal} \union Trips
  <2>1. \A g \in Trips : g[1] # 0 BY DEF Trips
  <2>. QED BY <2>1 DEF Hilos, Principal
<1>3. Ordenado' /\ MismosPasos
  <2>1. ASSUME h # Principal PROVE Ordenado' /\ MismosPasos
    <3>1. PorHacer' = PorHacer BY <1>2, <2>1 DEF LosDemas, PorHacer
    <3>. QED BY <1>1, <3>1, OrdenadoAjeno
  <2>. QED BY <2>1
<1>4. ASSUME NEW g \in Trips PROVE DeHilo(g)'
  <2>1. CASE g = h BY <1>2, <2>1
  <2>2. CASE g # h
    <3>1. hilos'[g].accesos = hilos[g].accesos BY <1>2, <2>2 DEF LosDemas
    <3>2. \A p \in 1 .. Len(patotas) : Sigue(p) BY SigueIgual
    <3>3. DeHilo(g) BY <1>1 DEF DeHilos
    <3>. QED BY <3>1, <3>2, <3>3, DeHiloSigue
  <2>. QED BY <2>1, <2>2
<1>5. DeHilos' BY <1>4 DEF DeHilos
<1>. QED BY <1>3, <1>5, CubiertaQuieta

\* The same, of a thread that has the accesses that it had.
LEMMA CubiertaIgual ==
  ASSUME TiposPatotas, TiposHilos, Cubierta, UNCHANGED <<patotas, tripulantes, faltan>>, NEW h \in Hilos, LosDemas(h),
         hilos'[h].accesos = hilos[h].accesos
  PROVE  Cubierta'
<1>1. Ordenado /\ DeHilos BY DEF Cubierta
<1>2. ASSUME h = Principal PROVE Ordenado' /\ MismosPasos
  <2>1. PorHacer' = PorHacer BY <1>2 DEF PorHacer
  <2>. QED BY <1>1, <2>1, OrdenadoAjeno
<1>3. ASSUME h # Principal PROVE DeHilo(h)'
  <2>1. h \in Trips BY <1>3 DEF Hilos
  <2>2. \A p \in 1 .. Len(patotas) : Sigue(p) BY SigueIgual
  <2>3. DeHilo(h) BY <1>1, <2>1 DEF DeHilos
  <2>. QED BY <2>1, <2>2, <2>3, DeHiloSigue
<1>. QED BY <1>2, <1>3, CubiertaHilo

\* The steps of an access.
LEMMA CubiertaAcceso ==
  ASSUME Invariante, Cubierta, NEW h \in Hilos,
         \/ LeerDireccion(h) \/ Tomar(h) \/ incorporar_marco(h) \/ obtener_marco_libre_fisico(h)
         \/ reemplazo_por_clock(h) \/ Cambiar(h) \/ Traer(h) \/ Copiar(h)
  PROVE  Cubierta'
<1>1. Tipos /\ Nuevos /\ TiposPatotas /\ TiposHilos BY DEF Invariante, Tipos
<1>2. Ordenado /\ Sitios /\ Llegados /\ DeHilos BY DEF Cubierta
<1>3. h # Principal => h \in Trips /\ DeHilo(h) BY <1>2 DEF Hilos, DeHilos
<1>4. CASE LeerDireccion(h)
  <2>1. LosDemas(h) BY <1>1, <1>4, TiposLeer DEF LosDemas
  <2>2. UNCHANGED <<patotas, tripulantes, faltan>> /\ h # Principal BY <1>4 DEF LeerDireccion, orden
  <2>3. DeHilo(h)' BY <1>1, <1>2, <1>3, <1>4, <2>2, DeHiloLeer
  <2>. QED BY <1>1, <2>1, <2>2, <2>3, CubiertaHilo
<1>5. CASE Tomar(h)
  <2>1. LosDemas(h) BY <1>1, <1>5, TiposTomar
  <2>2. UNCHANGED <<patotas, tripulantes, faltan>> BY <1>5 DEF Tomar, orden
  <2>3. h = Principal => Ordenado' /\ MismosPasos BY <1>1, <1>2, <1>5, OrdenadoTomar
  <2>4. h # Principal => DeHilo(h)' BY <1>1, <1>3, <1>5, DeHiloTomar
  <2>. QED BY <1>1, <2>1, <2>2, <2>3, <2>4, CubiertaHilo
<1>6. CASE incorporar_marco(h)
  <2>1. LosDemas(h) /\ IncorporaHecha(h) BY <1>1, <1>6, TiposIncorporar
  <2>2. UNCHANGED <<patotas, tripulantes, faltan>> /\ hilos'[h].accesos = hilos[h].accesos
    BY <2>1 DEF IncorporaHecha, orden
  <2>. QED BY <1>1, <2>1, <2>2, CubiertaIgual
<1>7. CASE reemplazo_por_clock(h)
  <2>1. LosDemas(h) /\ RelojHecho(h) BY <1>1, <1>7, TiposReloj
  <2>2. UNCHANGED <<patotas, tripulantes, faltan>> /\ hilos'[h].accesos = hilos[h].accesos
    BY <2>1 DEF RelojHecho, orden
  <2>. QED BY <1>1, <2>1, <2>2, CubiertaIgual
<1>8. CASE Cambiar(h)
  <2>1. LosDemas(h) /\ CambioHecho(h, hilos[h].marco, hilos[h].victima) BY <1>1, <1>8, TiposCambiar
  <2>2. UNCHANGED <<patotas, tripulantes, faltan>> /\ hilos'[h].accesos = hilos[h].accesos
    BY <2>1 DEF CambioHecho, orden
  <2>. QED BY <1>1, <2>1, <2>2, CubiertaIgual
<1>9. CASE Traer(h)
  <2>0. mutex_incorporar_marco = 0 BY <1>1, <1>9, RetieneTraer DEF Invariante, Memorias
  <2>1. LosDemas(h) /\ TraerHecho(h, hilos[h].marco) BY <1>1, <1>9, <2>0, TiposTraer
  <2>2. UNCHANGED <<patotas, tripulantes, faltan>> /\ hilos'[h].accesos = hilos[h].accesos
    BY <2>1 DEF TraerHecho, orden
  <2>. QED BY <1>1, <2>1, <2>2, CubiertaIgual
<1>10. CASE Copiar(h)
  <2>1. LosDemas(h) BY <1>1, <1>10, TiposCopiar
  <2>2. UNCHANGED <<patotas, tripulantes, faltan>> BY <1>10 DEF Copiar, orden
  <2>3. h = Principal => Ordenado' /\ MismosPasos BY <1>1, <1>2, <1>10, OrdenadoCopiar
  <2>4. h # Principal => DeHilo(h)' BY <1>1, <1>3, <1>10, DeHiloCopiar
  <2>. QED BY <1>1, <2>1, <2>2, <2>3, <2>4, CubiertaHilo
<1>11. CASE obtener_marco_libre_fisico(h)
  <2>1. LosDemas(h) /\ LibreHecha(h) BY <1>1, <1>11, TiposLibre
  <2>2. UNCHANGED <<patotas, tripulantes, faltan>> /\ hilos'[h].accesos = hilos[h].accesos
    BY <2>1 DEF LibreHecha, orden
  <2>. QED BY <1>1, <2>1, <2>2, CubiertaIgual
<1>. QED BY <1>4, <1>5, <1>6, <1>7, <1>8, <1>9, <1>10, <1>11

\* Every step keeps it.
LEMMA CubiertaNext ==
  ASSUME Invariante, Alcanza, Cubierta, Next
  PROVE  Cubierta'
<1>1. Tipos /\ Nuevos /\ TiposPatotas /\ TiposHilos /\ Reserva BY DEF Invariante, Tipos, Alcanza
<1>2. Tipos'
  <2>1. Invariante' BY InvarianteNext
  <2>. QED BY <2>1 DEF Invariante
<1>3. ASSUME NEW n \in 1 .. MaxTripulantes, NEW tareas \in TamaniosTareas, INIT_P(n, tareas) PROVE Cubierta'
  BY <1>1, <1>2, <1>3, CubiertaInitP
<1>4. CASE INIT_T
  <2>1. caida # "sin_marco" /\ caida' = caida BY <1>1, <1>4, ReservaInitT DEF Alcanza
  <2>. QED BY <1>1, <1>2, <1>4, <2>1, CubiertaInitT
<1>5. ASSUME NEW trip \in tripulantes, ELIM_T(trip[1], trip[2]) PROVE Cubierta'
  BY <1>1, <1>2, <1>5, CubiertaElimT
<1>6. CASE Arrancar \/ Cancelar BY <1>1, <1>6, CubiertaSimple
<1>7. CASE Correr BY <1>1, <1>7, CubiertaCorrer
<1>8. CASE Soltar BY <1>1, <1>2, <1>8, CubiertaSoltar
<1>9. ASSUME NEW trip \in Trips, rutina_hilos(trip[1], trip[2]) PROVE Cubierta'
  <2>1. trip \in Hilos /\ trip # Principal
    <3>1. trip[1] # 0 BY DEF Trips
    <3>. QED BY <3>1 DEF Hilos, Principal
  <2>2. LosDemas(trip) BY <1>1, <1>9, TiposRutina DEF LosDemas
  <2>3. UNCHANGED <<patotas, tripulantes, faltan>> BY <1>9 DEF rutina_hilos
  <2>4. DeHilo(trip)' BY <1>1, <1>9, DeHiloRutina DEF Cubierta
  <2>. QED BY <1>1, <2>1, <2>2, <2>3, <2>4, CubiertaHilo
<1>10. ASSUME NEW h \in Hilos,
              \/ LeerDireccion(h) \/ Tomar(h) \/ incorporar_marco(h) \/ obtener_marco_libre_fisico(h)
              \/ reemplazo_por_clock(h) \/ Cambiar(h) \/ Traer(h) \/ Copiar(h)
       PROVE  Cubierta'
  BY <1>10, CubiertaAcceso
<1>. QED BY <1>3, <1>4, <1>5, <1>6, <1>7, <1>8, <1>9, <1>10 DEF Next

\* No patota came yet.
LEMMA CubiertaInit ==
  ASSUME Init
  PROVE  Cubierta
<1>1. patotas = << >> /\ tripulantes = {} BY DEF Init
<1>2. \A h \in Hilos : hilos[h].accesos = << >> BY DEF Init
<1>3. Principal \in Hilos /\ Trips \subseteq Hilos BY DEF Hilos
<1>4. PorHacer = << >> BY <1>2, <1>3 DEF PorHacer
<1>5. Ordenado BY <1>4 DEF Ordenado, EnOrden, Alcances
<1>6. DeHilos BY <1>2, <1>3 DEF DeHilos, DeHilo
<1>. QED BY <1>1, <1>5, <1>6 DEF Cubierta, Filas, Sitios, Llegados

\* So does a stutter.
LEMMA CubiertaQuietud ==
  ASSUME Invariante, Cubierta, UNCHANGED vars
  PROVE  Cubierta'
<1>1. UNCHANGED <<patotas, tripulantes, faltan, hilos>> BY DEF vars, orden
<1>2. TiposPatotas /\ TiposHilos BY DEF Invariante, Tipos
<1>3. Principal \in Hilos /\ LosDemas(Principal) BY <1>1 DEF Hilos, LosDemas
<1>. QED BY <1>1, <1>2, <1>3, CubiertaIgual

-----------------------------------------------------------------------------
(* The accesses past the end of a page table *)

\* The table of a patota reaches as far as its memory, if no trip of it begins where a page does.
LEMMA TablaLarga ==
  ASSUME TiposPatotas, Filas, NEW p \in 1 .. Len(patotas), ~FaltaMarco(p)
  PROVE  Techo(patotas[p].memoria_ocupada) <= Len(patotas[p].frames)
<1>1. PICK b : b = Base(p) OBVIOUS
<1>2. PICK n : n = Cardinality(Vivos(p)) OBVIOUS
<1>3. b \in Nat /\ n \in Nat /\ n <= MaxTripulantes BY <1>1, <1>2, BaseBien, VivosBien
<1>4. patotas[p].memoria_ocupada = Puesto(b, n) /\ Larga(Len(patotas[p].frames), b, n)
  BY <1>1, <1>2 DEF Filas, Fila
<1>5. ASSUME NEW j \in 0 .. n - 1 PROVE Puesto(b, j) % TAMANIO_PAGINA # 0
  <2>1. j \in Nat /\ j < n /\ j \in 0 .. MaxTripulantes
    <3>1. MaxTripulantes \in Nat BY Tamanios
    <3>. QED BY <1>3, <1>5, <3>1
  <2>2. Puesto(b, j) < Puesto(b, n) BY <1>3, <2>1, PuestoBien
  <2>3. Puesto(b, j) \in Comienzos(p) BY <1>1, <2>1 DEF Puesto, Base, Comienzos
  <2>. QED BY <1>4, <2>2, <2>3 DEF FaltaMarco
<1>6. n \in 0 .. n BY <1>3
<1>. QED BY <1>4, <1>5, <1>6 DEF Larga

\* An access inside the memory of such a patota is inside its table.
LEMMA EnTabla ==
  ASSUME TiposPatotas, Filas, NEW b \in Accesos, b.tipo \in Memoria, NEW a, a = Ubicado(b),
         Dentro(a, patotas[a.p].memoria_ocupada), ~FaltaMarco(a.p)
  PROVE  Pagina(a) + 1 \in DOMAIN patotas[a.p].frames
<1>1. /\ a.p = b.p /\ a.bytes = b.bytes /\ a.hechos = b.hechos /\ a.desde \in Int
  <2>1. b.p \in 1 .. Len(patotas) /\ b \in [tipo : Memoria \union Pasos, p : 1 .. Len(patotas), t : Nat,
                                            desde : Int, bytes : Nat, hechos : Nat]
    BY DEF Accesos, AccesosDe
  <2>2. a.p = b.p /\ a.bytes = b.bytes /\ a.hechos = b.hechos BY <2>1 DEF Ubicado
  <2>3. a \in Accesos BY UbicadoBien
  <2>. QED BY <2>2, <2>3 DEF Accesos, AccesosDe
<1>2. b.p \in 1 .. Len(patotas) /\ b.bytes \in Nat /\ b.hechos \in Nat /\ b.hechos < b.bytes
  BY DEF Accesos, AccesosDe
<1>3. PICK p : p = a.p OBVIOUS
<1>4. PICK o : o = patotas[p].memoria_ocupada OBVIOUS
<1>5. p \in 1 .. Len(patotas) /\ o \in Nat BY <1>1, <1>2, <1>3, <1>4, OcupadaBien
<1>6. PICK l : l = Len(patotas[p].frames) OBVIOUS
<1>7. Techo(o) <= l /\ l \in Nat /\ patotas[p].frames \in Seq(Marcos)
  <2>1. patotas[p] \in Patota BY <1>5, BaseBien
  <2>2. patotas[p].frames \in Seq(Marcos) BY <2>1 DEF Patota
  <2>3. l \in Nat BY <1>6, <2>2
  <2>. QED BY <1>3, <1>4, <1>5, <1>6, <2>2, <2>3, TablaLarga
<1>8. PICK x : x = Byte(a) OBVIOUS
<1>9. x \in Nat /\ x < o
  <2>1. x = a.desde + a.hechos BY <1>8 DEF Byte
  <2>2. 0 <= a.desde /\ a.desde + a.bytes <= o BY <1>3, <1>4 DEF Dentro
  <2>. QED BY <1>1, <1>2, <1>5, <2>1, <2>2
<1>10. PICK q : q = x \div TAMANIO_PAGINA OBVIOUS
<1>11. PICK r : r = x % TAMANIO_PAGINA OBVIOUS
<1>12. PICK P : P = TAMANIO_PAGINA OBVIOUS
<1>13. q \in Nat /\ r \in 0 .. P - 1 /\ x = q * P + r /\ P \in Nat BY <1>9, <1>10, <1>11, <1>12, Division, Tamanios
<1>14. q * P \in Int BY <1>13, ProductoMonotono
<1>15. q * P < o BY <1>5, <1>9, <1>13, <1>14
<1>16. PICK k : k = q + 1 OBVIOUS
<1>17. k \in Int /\ k - 1 = q BY <1>13, <1>16
<1>18. k <= Techo(o) BY <1>5, <1>12, <1>15, <1>17, TechoMayor
<1>19. Techo(o) \in Nat BY <1>5, TechoBien
<1>20. k \in 1 .. l BY <1>7, <1>13, <1>16, <1>18, <1>19
<1>21. DOMAIN patotas[p].frames = 1 .. l BY <1>6, <1>7
<1>22. Pagina(a) = q BY <1>8, <1>10 DEF Pagina
<1>. QED BY <1>3, <1>16, <1>20, <1>21, <1>22

\* what is said of an access past the end of a table
Explicada ==
  caida = "fuera_de_tabla" =>
    \E p \in DOMAIN patotas :
      FaltaMarco(p) \/ (Bajas(p) /\ \E h \in Trips : h[1] = p /\ hilos[h].pc = "listo" /\ hilos[h].accesos # <<>>)

\* Only the search for the page of an access can fall past the end of a table.
LEMMA SoloTomar ==
  ASSUME Invariante, Alcanza, Next, caida' = "fuera_de_tabla"
  PROVE  \E h \in Hilos : Tomar(h) /\ caida = "no"
<1>1. caida = "no" BY DEF Next
<1>2. Tipos /\ Reserva BY DEF Invariante, Alcanza
<1>3. ASSUME NEW n \in 1 .. MaxTripulantes, NEW tareas \in TamaniosTareas, INIT_P(n, tareas) PROVE caida' = caida
  BY <1>3 DEF INIT_P, RechazarPatota, AceptarPatota
<1>4. CASE INIT_T BY <1>1, <1>2, <1>4, ReservaInitT
<1>5. ASSUME NEW trip \in tripulantes, ELIM_T(trip[1], trip[2]) PROVE caida' = caida BY <1>5 DEF ELIM_T
<1>6. CASE Arrancar \/ Correr \/ Soltar \/ Cancelar BY <1>1, <1>6 DEF Arrancar, Correr, Soltar, Cancelar
<1>7. ASSUME NEW trip \in Trips, rutina_hilos(trip[1], trip[2]) PROVE caida' = caida BY <1>7 DEF rutina_hilos
<1>8. ASSUME NEW h \in Hilos, LeerDireccion(h) PROVE caida' = caida BY <1>8 DEF LeerDireccion
<1>9. ASSUME NEW h \in Hilos, incorporar_marco(h) PROVE caida' \in {caida, "lru"} BY <1>9 DEF incorporar_marco
<1>10. ASSUME NEW h \in Hilos, reemplazo_por_clock(h) PROVE caida' = caida BY <1>10 DEF reemplazo_por_clock
<1>11. ASSUME NEW h \in Hilos, Cambiar(h) PROVE caida' = caida BY <1>11 DEF Cambiar
<1>12. ASSUME NEW h \in Hilos, Traer(h) PROVE caida' = caida BY <1>12 DEF Traer
<1>13. ASSUME NEW h \in Hilos, Copiar(h) PROVE caida' \in {caida, "no", "fuera_de_memoria"}
  BY <1>13 DEF Copiar, CopiarEnMarco, CopiarEnSiguiente
<1>14. ASSUME NEW h \in Hilos, obtener_marco_libre_fisico(h) PROVE caida' \in {caida, "sin_libre"}
  BY <1>14 DEF obtener_marco_libre_fisico
<1>15. caida' \notin {caida, "lru", "sin_libre", "fuera_de_memoria"} BY <1>1
<1>. QED BY <1>1, <1>3, <1>4, <1>5, <1>6, <1>7, <1>8, <1>9, <1>10, <1>11, <1>12, <1>13, <1>14, <1>15 DEF Next

\* An access that falls past the end of a table is of the kind that is said.
LEMMA ExplicadaNext ==
  ASSUME Invariante, Alcanza, Cubierta, Next
  PROVE  Explicada'
<1>1. Tipos /\ TiposPatotas /\ TiposHilos BY DEF Invariante, Tipos
<1>2. Filas /\ Ordenado /\ Sitios /\ DeHilos BY DEF Cubierta
<1>3. SUFFICES ASSUME caida' = "fuera_de_tabla"
               PROVE  \E p \in DOMAIN patotas' :
                        \/ FaltaMarco(p)'
                        \/ Bajas(p)' /\ \E h \in Trips : h[1] = p /\ hilos'[h].pc = "listo" /\ hilos'[h].accesos # <<>>
  BY DEF Explicada
<1>4. PICK h \in Hilos : Tomar(h) /\ caida = "no" BY <1>3, SoloTomar
<1>5. PICK b : b = Siguiente(h) OBVIOUS
<1>6. PICK a : a = Ubicado(b) OBVIOUS
<1>7. /\ UNCHANGED <<patotas, tripulantes, hilos>> /\ hilos[h].accesos # << >> /\ hilos[h].pc = "listo"
      /\ b.tipo \in Memoria /\ (h = Principal \/ b.t = 0) /\ Pagina(a) + 1 \notin DOMAIN patotas[a.p].frames
  <2>1. caida' # caida BY <1>3, <1>4
  <2>. QED BY <1>1, <1>4, <1>5, <1>6, <2>1, TomarAccesos
<1>8. b \in Accesos BY <1>1, <1>5, <1>7, AccesoActual
<1>9. a.p = b.p /\ b.p \in 1 .. Len(patotas) /\ DOMAIN patotas' = 1 .. Len(patotas)
  <2>1. a.p = b.p BY <1>1, <1>6, <1>7, <1>8, UbicadoBien
  <2>2. b.p \in 1 .. Len(patotas) BY <1>8 DEF Accesos, AccesosDe
  <2>3. patotas \in Seq(Patota) BY <1>1 DEF TiposPatotas
  <2>. QED BY <1>7, <2>1, <2>2, <2>3
<1>10. CASE FaltaMarco(a.p)
  <2>1. FaltaMarco(a.p)' BY <1>7, <1>10 DEF FaltaMarco, Comienzos
  <2>. QED BY <1>9, <2>1
<1>11. CASE ~FaltaMarco(a.p)
  <2>1. ~Dentro(a, patotas[a.p].memoria_ocupada) BY <1>1, <1>2, <1>6, <1>7, <1>8, <1>11, EnTabla
  <2>2. h # Principal
    <3>1. SUFFICES ASSUME h = Principal PROVE FALSE OBVIOUS
    <3>2. PorHacer # << >> /\ b = Siguiente(Principal) BY <1>5, <1>7, <3>1 DEF PorHacer
    <3>3. Dentro(Ubicado(b), patotas[b.p].memoria_ocupada) BY <1>1, <1>2, <1>7, <3>2, PrincipalDentro
    <3>. QED BY <1>6, <1>9, <2>1, <3>3
  <2>3. h \in Trips /\ b.t = 0 BY <1>7, <2>2 DEF Hilos
  <2>4. AccesoDeHilo(b, h)
    <3>1. DeHilo(h) BY <1>2, <2>3 DEF DeHilos
    <3>. QED BY <1>1, <1>5, <1>7, <2>3, <3>1, PrimeroDeHilo
  <2>5. a.desde = b.desde /\ a.bytes = b.bytes
    <3>1. Direccion(b) = b.desde BY <2>3 DEF Direccion
    <3>. QED BY <1>1, <1>6, <1>7, <1>8, <3>1, UbicadoBien
  <2>6. ~Dentro(b, patotas[b.p].memoria_ocupada) BY <1>9, <2>1, <2>5 DEF Dentro
  <2>7. Bajas(b.p) /\ h[1] = b.p BY <2>3, <2>4, <2>6 DEF AccesoDeHilo
  <2>8. Bajas(b.p)' BY <1>7, <2>7 DEF Bajas
  <2>. QED BY <1>7, <1>9, <2>3, <2>7, <2>8
<1>. QED BY <1>10, <1>11

\* The inductive invariant of the page tables: the memory of a patota is that of its trips, one
\* after the other, its table reaches the end of each, and the messages under way, an expulsion
\* among them, ask for nothing else.
THEOREM PaginasCubierta == Spec => [](Cubierta /\ Explicada)
<1>1. Init => Cubierta /\ Explicada BY CubiertaInit DEF Init, Explicada
<1>2. Explicada /\ UNCHANGED vars => Explicada'
  <2>1. SUFFICES ASSUME Explicada, UNCHANGED vars PROVE Explicada' OBVIOUS
  <2>2. UNCHANGED <<patotas, tripulantes, hilos, caida>> BY <2>1 DEF vars
  <2>. QED BY <2>1, <2>2 DEF Explicada, FaltaMarco, Comienzos, Bajas
<1>3. Invariante /\ Alcanza /\ Cubierta /\ Explicada /\ [Next]_vars => Cubierta' /\ Explicada'
  BY <1>2, CubiertaNext, CubiertaQuietud, ExplicadaNext
<1>. QED BY <1>1, <1>3, PaginasInvariante, AlcanzaSiempre, PTL DEF Spec

\* A page table reaches as far as the memory of its patota, unless a trip of it begins where a
\* page does; an access falls past its end only then, or from a thread that read its address
\* before a trip of the same patota was expelled.
THEOREM PaginasCubre == Spec => []TablaCubre
<1>1. Invariante /\ Cubierta /\ Explicada => TablaCubre
  <2>1. SUFFICES ASSUME Invariante, Cubierta, Explicada PROVE TablaCubre OBVIOUS
  <2>2. TiposPatotas /\ Filas BY <2>1 DEF Invariante, Tipos, Cubierta
  <2>3. DOMAIN patotas = 1 .. Len(patotas) BY <2>2 DEF TiposPatotas
  <2>4. ASSUME NEW p \in DOMAIN patotas
        PROVE  FaltaMarco(p) \/ Len(patotas[p].frames) >= frames_necesarios(0, patotas[p].memoria_ocupada)
    <3>1. SUFFICES ASSUME ~FaltaMarco(p)
                   PROVE  Len(patotas[p].frames) >= frames_necesarios(0, patotas[p].memoria_ocupada)
      OBVIOUS
    <3>2. Techo(patotas[p].memoria_ocupada) <= Len(patotas[p].frames) BY <2>2, <2>3, <3>1, TablaLarga
    <3>3. PICK c : c = frames_necesarios(0, patotas[p].memoria_ocupada) OBVIOUS
    <3>4. PICK l : l = Len(patotas[p].frames) OBVIOUS
    <3>5. c <= l BY <3>2, <3>3, <3>4 DEF Techo
    <3>6. l >= c BY <3>5
    <3>. QED BY <3>3, <3>4, <3>6
  <2>5. caida = "fuera_de_tabla" =>
          \E p \in DOMAIN patotas :
            \/ FaltaMarco(p)
            \/ /\ \E t \in DOMAIN patotas[p].inicio :
                    patotas[p].inicio[t] # 0 /\ <<p, t>> \notin tripulantes
               /\ \E h \in Trips : h[1] = p /\ hilos[h].pc = "listo" /\ hilos[h].accesos # <<>>
    BY <2>1 DEF Explicada, Bajas
  <2>. QED BY <2>4, <2>5 DEF TablaCubre
<1>. QED BY <1>1, PaginasInvariante, PaginasCubierta, PTL
=============================================================================
