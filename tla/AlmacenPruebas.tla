--------------------------- MODULE AlmacenPruebas ---------------------------
(***************************************************************************)
(* Proofs about Almacen, for any trips, resources, amounts, block size     *)
(* over 8, number of blocks, and number of messages and restarts: the      *)
(* types, the owner of each block, the bitmap, the counts of the metadata  *)
(* and the account of SIZE.                                                *)
(*                                                                         *)
(* None of them is inductive alone: they need that no thread works on the  *)
(* file of another (Exclusivos), so that what a thread read is still what  *)
(* the metadata says (Leidos), and where each loop stands (Avances).       *)
(***************************************************************************)
EXTENDS Almacen, SequenceTheorems, TLAPS

Hilo == {Libre} \cup HiloAgrega \cup HiloQuita

\* The message of a thread is about its own logbook or about a resource, and
\* only one thread at a time has a resource.
Exclusivos ==
  /\ \A t \in Atendiendo : hilo[t].archivo \in Recursos \cup {t}
  /\ \A t, u \in Atendiendo : hilo[t].archivo \in Recursos /\ hilo[u].archivo \in Recursos => t = u

\* What a thread read of a file is what its metadata still says.
Leidos == \A t \in Atendiendo : hilo[t].leido = metadata[hilo[t].archivo]

\* The loop that adds blocks.
Agregando(h) ==
  /\ Len(h.nuevos) <= Faltantes(h)
  /\ h.archivo \notin Recursos => h.cantidad \in Largos

\* The loop that gives blocks back.
Quitando(h) ==
  /\ h.size_final = SizeFinal(h.leido, h.cantidad)
  /\ h.i \in BloquesReducidos(h.size_final) + 1 .. h.leido.block_count + 1
  /\ h.resta + h.size_final = h.size

Avances ==
  \A t \in Tripulantes :
    /\ hilo[t].pc = "agrega" => Agregando(hilo[t])
    /\ hilo[t].pc = "quita" => Quitando(hilo[t])

\* The messages are long: each one goes over the end of the last block.
LargosGrandes == \A largo \in Largos : largo >= BLOCK_SIZE

\* The account of a resource is always right; the one of a logbook, while there
\* is no message so short that its SIZE is not saved.
Cuentas == \A f \in Archivos : f \in Recursos \/ LargosGrandes => metadata[f].size = saldo[f]

Duenios == UnDuenio /\ BitmapExacto

IInv ==
  /\ TypeOK /\ hilo \in [Tripulantes -> Hilo]
  /\ Exclusivos /\ Leidos /\ Avances
  /\ CuentaVeraz /\ Cuentas /\ Duenios
-----------------------------------------------------------------------------
(* Blocks and characters *)

\* The block size is a number over 8.
LEMMA Tamanio == BLOCK_SIZE \in Nat /\ BLOCK_SIZE > 8 /\ BLOCKS_AMOUNT \in Nat
  BY AlmacenValido

\* What the division of a number by the block size is.
LEMMA Division ==
  ASSUME NEW n \in Nat
  PROVE  /\ n \div BLOCK_SIZE \in Nat /\ n % BLOCK_SIZE \in 0 .. BLOCK_SIZE - 1
         /\ n = BLOCK_SIZE * (n \div BLOCK_SIZE) + (n % BLOCK_SIZE)
  BY Tamanio

\* A greater quotient is of a greater number, by a block at least.
LEMMA Cociente ==
  ASSUME NEW a \in Nat, NEW b \in Nat, a > b
  PROVE  BLOCK_SIZE * a >= BLOCK_SIZE * b + BLOCK_SIZE
<1>1. PICK k \in Nat : a = b + 1 + k
  <2>1. a - b - 1 \in Nat /\ a = b + 1 + (a - b - 1)
    OBVIOUS
  <2> QED BY <2>1
<1>2. BLOCK_SIZE * (b + 1 + k) = BLOCK_SIZE * b + BLOCK_SIZE + BLOCK_SIZE * k /\ BLOCK_SIZE * k >= 0
  BY Tamanio
<1> QED BY <1>1, <1>2, Tamanio

\* roundUp never decreases, grows with each whole block, and is 0 for 0.
LEMMA Redondeo ==
  ASSUME NEW m \in Nat, NEW n \in Nat
  PROVE  /\ roundUp(n) \in Nat
         /\ m <= n => roundUp(m) <= roundUp(n)
         /\ m + BLOCK_SIZE <= n => roundUp(m) < roundUp(n)
         /\ roundUp(0) = 0
<1> DEFINE q(k) == (k + BLOCK_SIZE - 1) \div BLOCK_SIZE
<1> DEFINE r(k) == (k + BLOCK_SIZE - 1) % BLOCK_SIZE
<1>1. ASSUME NEW k \in Nat
      PROVE  /\ q(k) \in Nat /\ r(k) \in 0 .. BLOCK_SIZE - 1
             /\ k + BLOCK_SIZE - 1 = BLOCK_SIZE * q(k) + r(k)
  <2>1. k + BLOCK_SIZE - 1 \in Nat
    BY Tamanio
  <2> QED BY <2>1, Division
<1>2. roundUp(m) = q(m) /\ roundUp(n) = q(n) /\ roundUp(0) = q(0)
  BY DEF roundUp
<1> HIDE DEF q, r
<1>3. ASSUME m <= n PROVE q(m) <= q(n)
  <2> SUFFICES ASSUME q(m) > q(n) PROVE FALSE
    BY <1>1
  <2>1. BLOCK_SIZE * q(m) >= BLOCK_SIZE * q(n) + BLOCK_SIZE
    BY <1>1, Cociente
  <2>2. BLOCK_SIZE * q(m) \in Nat /\ BLOCK_SIZE * q(n) \in Nat
    BY <1>1, Tamanio
  <2> QED BY <2>1, <2>2, <1>1, <1>3, Tamanio
<1>4. ASSUME m + BLOCK_SIZE <= n PROVE q(m) < q(n)
  <2> SUFFICES ASSUME q(m) >= q(n) PROVE FALSE
    BY <1>1
  <2>1. BLOCK_SIZE * q(m) \in Nat /\ BLOCK_SIZE * q(n) \in Nat
    BY <1>1, Tamanio
  <2>2. BLOCK_SIZE * q(m) >= BLOCK_SIZE * q(n)
    <3>1. CASE q(m) > q(n)
      <4>1. BLOCK_SIZE * q(m) >= BLOCK_SIZE * q(n) + BLOCK_SIZE
        BY <3>1, <1>1, Cociente
      <4> QED BY <4>1, <2>1, Tamanio
    <3>2. CASE q(m) = q(n)
      BY <3>2, <2>1
    <3> QED BY <3>1, <3>2, <1>1
  <2> QED BY <2>1, <2>2, <1>1, <1>4, Tamanio
<1>5. q(0) = 0
  <2> SUFFICES ASSUME q(0) > 0 PROVE FALSE
    BY <1>1
  <2>1. BLOCK_SIZE * q(0) >= BLOCK_SIZE * 0 + BLOCK_SIZE
    BY <1>1, Cociente
  <2>2. BLOCK_SIZE * 0 = 0 /\ BLOCK_SIZE * q(0) \in Nat
    BY <1>1, Tamanio
  <2> QED BY <2>1, <2>2, <1>1, Tamanio
<1> QED BY <1>1, <1>2, <1>3, <1>4, <1>5

\* At most the characters that are left fit, and at most those are erased.
LEMMA Partes ==
  ASSUME NEW resta \in Nat, NEW size \in Nat
  PROVE  /\ Caben(resta, size) \in 0 .. resta
         /\ SeBorran(resta, size) \in 0 .. resta
<1>1. size % BLOCK_SIZE \in 0 .. BLOCK_SIZE - 1
  BY Division
<1>2. BLOCK_SIZE - (size % BLOCK_SIZE) \in Nat /\ PrimerBorrado(size) \in Nat
  BY <1>1, Tamanio DEF PrimerBorrado
<1> QED BY <1>2 DEF Caben, SeBorran, Menor

\* What a removal leaves is not more than what there was.
LEMMA Quedan ==
  ASSUME NEW leido, leido.size \in Nat, NEW cantidad \in Nat
  PROVE  SizeFinal(leido, cantidad) \in Nat /\ SizeFinal(leido, cantidad) <= leido.size
  BY DEF SizeFinal

\* A list with another at its end.
LEMMA Pegado ==
  ASSUME NEW S, NEW a \in Seq(S), NEW b \in Seq(S)
  PROVE  /\ a \o b \in Seq(S) /\ Len(a \o b) = Len(a) + Len(b)
         /\ DOMAIN (a \o b) = 1 .. Len(a) + Len(b)
         /\ \A j \in 1 .. Len(a) : (a \o b)[j] = a[j]
         /\ \A j \in 1 .. Len(b) : (a \o b)[Len(a) + j] = b[j]
<1>1. a \o b \in Seq(S) /\ Len(a \o b) = Len(a) + Len(b)
  OBVIOUS
<1>2. DOMAIN (a \o b) = 1 .. Len(a) + Len(b)
  BY <1>1
<1>3. \A j \in 1 .. Len(a) : (a \o b)[j] = a[j]
  OBVIOUS
<1>4. ASSUME NEW j \in 1 .. Len(b) PROVE (a \o b)[Len(a) + j] = b[j]
  <2>1. Len(a) \in Nat /\ Len(b) \in Nat
    OBVIOUS
  <2> DEFINE k == Len(a) + j
  <2>2. k \in 1 .. Len(a) + Len(b) /\ ~(k <= Len(a)) /\ k - Len(a) = j
    BY <2>1
  <2> HIDE DEF k
  <2>3. (a \o b)[k] = IF k <= Len(a) THEN a[k] ELSE b[k - Len(a)]
    BY <2>2, ConcatProperties
  <2> QED BY <2>2, <2>3 DEF k
<1> QED BY <1>1, <1>2, <1>3, <1>4

-----------------------------------------------------------------------------
(* The threads *)

\* The program counter of a thread says which of the three it is.
LEMMA Formas ==
  ASSUME NEW h \in Hilo
  PROVE  /\ h.pc \in {"libre", "agrega", "quita"}
         /\ h.pc = "libre" => h = Libre
         /\ h.pc = "agrega" => h \in HiloAgrega
         /\ h.pc = "quita" => h \in HiloQuita
<1>1. CASE h = Libre
  BY <1>1 DEF Libre
<1>2. CASE h \in HiloAgrega
  BY <1>2 DEF HiloAgrega
<1>3. CASE h \in HiloQuita
  BY <1>3 DEF HiloQuita
<1> QED BY <1>1, <1>2, <1>3 DEF Hilo

\* The locals of a thread that adds.
LEMMA DatosAgrega ==
  ASSUME NEW h \in HiloAgrega
  PROVE  /\ h.pc = "agrega" /\ h.archivo \in Archivos /\ h.leido \in Archivo
         /\ h.cantidad \in Nat /\ h.resta \in Nat /\ h.nuevos \in Seq(Bloques)
         /\ h = [pc |-> "agrega", archivo |-> h.archivo, leido |-> h.leido,
                 cantidad |-> h.cantidad, resta |-> h.resta, nuevos |-> h.nuevos]
  BY DEF HiloAgrega

\* The locals of a thread that gives back.
LEMMA DatosQuita ==
  ASSUME NEW h \in HiloQuita
  PROVE  /\ h.pc = "quita" /\ h.archivo \in Recursos /\ h.leido \in Archivo
         /\ h.cantidad \in Nat /\ h.resta \in Nat /\ h.size_final \in Nat
         /\ h.size \in Nat /\ h.i \in Nat
         /\ h = [pc |-> "quita", archivo |-> h.archivo, leido |-> h.leido,
                 cantidad |-> h.cantidad, size_final |-> h.size_final, resta |-> h.resta,
                 size |-> h.size, i |-> h.i]
  BY DEF HiloQuita

\* A record with locals of those types is one of them.
LEMMA SonHilos ==
  ASSUME NEW m \in Archivo, NEW cantidad \in Nat, NEW resta \in Nat
  PROVE  /\ \A f \in Archivos, nuevos \in Seq(Bloques) :
              [pc |-> "agrega", archivo |-> f, leido |-> m, cantidad |-> cantidad,
               resta |-> resta, nuevos |-> nuevos] \in HiloAgrega
         /\ \A r \in Recursos, size_final, size, i \in Nat :
              [pc |-> "quita", archivo |-> r, leido |-> m, cantidad |-> cantidad,
               size_final |-> size_final, resta |-> resta, size |-> size, i |-> i] \in HiloQuita
  BY DEF HiloAgrega, HiloQuita

\* The three numbers of a metadata file.
LEMMA DatosArchivo ==
  ASSUME NEW m \in Archivo
  PROVE  m.size \in Nat /\ m.block_count \in Nat /\ m.blocks \in Seq(Bloques)
  BY DEF Archivo

\* The types of what is in memory and in the files.
LEMMA DatosAlmacen ==
  ASSUME IInv
  PROVE  /\ \A t \in Tripulantes : hilo[t] \in Hilo
         /\ \A f \in Archivos :
              /\ metadata[f] \in Archivo
              /\ metadata[f].size \in Nat /\ metadata[f].block_count \in Nat
              /\ metadata[f].blocks \in Seq(Bloques)
              /\ Len(metadata[f].blocks) = roundUp(metadata[f].size)
              /\ CantidadBloques(f, metadata[f]) = Len(metadata[f].blocks)
<1>1. hilo \in [Tripulantes -> Hilo] /\ metadata \in [Archivos -> Archivo]
  BY DEF IInv, TypeOK
<1>2. ASSUME NEW f \in Archivos
      PROVE  /\ metadata[f] \in Archivo
             /\ metadata[f].size \in Nat /\ metadata[f].block_count \in Nat
             /\ metadata[f].blocks \in Seq(Bloques)
             /\ Len(metadata[f].blocks) = roundUp(metadata[f].size)
             /\ CantidadBloques(f, metadata[f]) = Len(metadata[f].blocks)
  BY <1>1, <1>2, DatosArchivo DEF IInv, CuentaVeraz, CantidadBloques
<1> QED BY <1>1, <1>2

\* The type of the threads, one of which takes another step.
LEMMA OtroHilo ==
  ASSUME hilo \in [Tripulantes -> Hilo], NEW t \in Tripulantes, NEW h \in Hilo,
         hilo' = [hilo EXCEPT ![t] = h]
  PROVE  /\ hilo' \in [Tripulantes -> Hilo] /\ hilo'[t] = h
         /\ \A u \in Tripulantes \ {t} : hilo'[u] = hilo[u]
         /\ \A u \in Tripulantes :
              hilo'[u] = Libre \/ hilo'[u] \in HiloAgrega \/ hilo'[u] \in HiloQuita
<1>1. /\ hilo' \in [Tripulantes -> Hilo] /\ hilo'[t] = h
      /\ \A u \in Tripulantes \ {t} : hilo'[u] = hilo[u]
  OBVIOUS
<1> QED BY <1>1 DEF Hilo

\* Exclusivos, Leidos and Avances, when one thread takes a step and the others
\* still find their file as they read it.
LEMMA HiloEnOrden ==
  ASSUME IInv, NEW t \in Tripulantes, NEW h \in Hilo, hilo' = [hilo EXCEPT ![t] = h],
         h.pc # "libre" => /\ h.archivo \in Recursos \cup {t}
                           /\ h.leido = metadata'[h.archivo],
         h.pc # "libre" /\ h.archivo \in Recursos =>
           \A u \in Atendiendo \ {t} : hilo[u].archivo \notin Recursos,
         h.pc = "agrega" => Agregando(h),
         h.pc = "quita" => Quitando(h),
         \A u \in Atendiendo \ {t} : metadata'[hilo[u].archivo] = metadata[hilo[u].archivo]
  PROVE  /\ hilo' \in [Tripulantes -> Hilo] /\ Exclusivos' /\ Leidos' /\ Avances'
         /\ \A u \in Tripulantes :
              hilo'[u] = Libre \/ hilo'[u] \in HiloAgrega \/ hilo'[u] \in HiloQuita
<1>1. /\ hilo' \in [Tripulantes -> Hilo] /\ hilo'[t] = h
      /\ \A u \in Tripulantes \ {t} : hilo'[u] = hilo[u]
      /\ \A u \in Tripulantes :
           hilo'[u] = Libre \/ hilo'[u] \in HiloAgrega \/ hilo'[u] \in HiloQuita
  BY OtroHilo DEF IInv
<1>2. \A u \in Atendiendo' : (u = t /\ h.pc # "libre") \/ (u # t /\ u \in Atendiendo)
  BY <1>1 DEF Atendiendo
<1>3. Exclusivos'
  BY <1>1, <1>2 DEF IInv, Exclusivos, Atendiendo
<1>4. Leidos'
  BY <1>1, <1>2 DEF IInv, Leidos, Atendiendo
<1>5. Avances'
  BY <1>1 DEF IInv, Avances
<1> QED BY <1>1, <1>3, <1>4, <1>5

\* While a thread works on a file, no other does.
LEMMA Ajenos ==
  ASSUME IInv, NEW t \in Atendiendo, NEW u \in Atendiendo, t # u
  PROVE  hilo[t].archivo # hilo[u].archivo
<1>1. t \in Tripulantes /\ u \in Tripulantes /\ t \notin Recursos /\ u \notin Recursos
  BY AlmacenValido DEF Atendiendo
<1> QED BY <1>1 DEF IInv, Exclusivos

-----------------------------------------------------------------------------
(* The copy of the blocks *)

\* Writing and erasing leave a copy of the same addresses.
LEMMA Copia ==
  ASSUME TypeOK, NEW f \in Archivos, NEW a, NEW b, NEW c
  PROVE  /\ DOMAIN escribir_caracter_en_bloque(f, a, b, c) = Direcciones
         /\ Range(escribir_caracter_en_bloque(f, a, b, c)) \subseteq Archivos \cup {Azar, Vacio}
         /\ DOMAIN borrar_caracter_en_bloque(a, b, c) = Direcciones
         /\ Range(borrar_caracter_en_bloque(a, b, c)) \subseteq Archivos \cup {Azar, Vacio}
<1>1. \A d \in Direcciones : blocks_copy[d] \in Archivos \cup {Azar, Vacio}
  BY DEF TypeOK, Range
<1> QED BY <1>1 DEF escribir_caracter_en_bloque, borrar_caracter_en_bloque, Range

-----------------------------------------------------------------------------
(* The blocks of each file *)

\* A place that a removal under way has given back.
LEMMA Sueltos ==
  ASSUME IInv, NEW t \in Tripulantes, NEW h \in Hilo, hilo' = [hilo EXCEPT ![t] = h],
         \A j : j \in BloquesReducidos(hilo[t].size_final) + 1 .. hilo[t].i - 1 =>
           hilo[t].pc # "quita",
         \A j : j \in BloquesReducidos(h.size_final) + 1 .. h.i - 1 => h.pc # "quita"
  PROVE  \A f, j : Suelto(f, j)' <=> Suelto(f, j)
<1>1. /\ hilo'[t] = h
      /\ \A u \in Tripulantes \ {t} : hilo'[u] = hilo[u]
  BY OtroHilo DEF IInv
<1> QED BY <1>1 DEF Suelto

\* The blocks that are given to a file or taken by a thread, before and after a step.
LEMMA Enumerados ==
  /\ \A x : x \in Asignados <=>
       \/ \E f \in Archivos : \E j \in Listados(f) : x = metadata[f].blocks[j]
       \/ \E t \in Tripulantes : \E j \in Tomados(t) : x = hilo[t].nuevos[j]
  /\ \A x : x \in Asignados' <=>
       \/ \E f \in Archivos : \E j \in Listados(f)' : x = metadata'[f].blocks[j]
       \/ \E t \in Tripulantes : \E j \in Tomados(t)' : x = hilo'[t].nuevos[j]
<1>1. \A x : x \in UNION {{metadata[f].blocks[i] : i \in Listados(f)} : f \in Archivos} <=>
        \E f \in Archivos : \E j \in Listados(f) : x = metadata[f].blocks[j]
  OBVIOUS
<1>2. \A x : x \in UNION {{hilo[t].nuevos[i] : i \in Tomados(t)} : t \in Tripulantes} <=>
        \E t \in Tripulantes : \E j \in Tomados(t) : x = hilo[t].nuevos[j]
  OBVIOUS
<1>3. \A x : x \in UNION {{metadata'[f].blocks[i] : i \in Listados(f)'} : f \in Archivos} <=>
        \E f \in Archivos : \E j \in Listados(f)' : x = metadata'[f].blocks[j]
  OBVIOUS
<1>4. \A x : x \in UNION {{hilo'[t].nuevos[i] : i \in Tomados(t)'} : t \in Tripulantes} <=>
        \E t \in Tripulantes : \E j \in Tomados(t)' : x = hilo'[t].nuevos[j]
  OBVIOUS
<1> QED BY <1>1, <1>2, <1>3, <1>4 DEF Asignados

\* The owners are right when no file and no thread has another block.
LEMMA MismosLugares ==
  ASSUME Duenios, UNCHANGED <<bitmap, interrumpido, reinicios>>,
         \A f \in Archivos :
           /\ Listados(f)' = Listados(f)
           /\ \A j \in Listados(f) : metadata'[f].blocks[j] = metadata[f].blocks[j],
         \A t \in Tripulantes :
           /\ Tomados(t)' = Tomados(t)
           /\ \A j \in Tomados(t) : hilo'[t].nuevos[j] = hilo[t].nuevos[j]
  PROVE  Duenios'
<1>1. UnDuenio'
  BY DEF Duenios, UnDuenio
<1>2. ASSUME NEW x PROVE x \in Asignados' <=> x \in Asignados
  BY Enumerados
<1>3. Asignados' = Asignados
  BY <1>2
<1>4. BitmapExacto'
  BY <1>3 DEF Duenios, BitmapExacto
<1> QED BY <1>1, <1>4 DEF Duenios

\* So they are when the lists are the same and no place is given back.
LEMMA MismosBloques ==
  ASSUME Duenios, UNCHANGED <<bitmap, interrumpido, reinicios>>,
         \A f \in Archivos : metadata'[f].blocks = metadata[f].blocks,
         \A f, j : Suelto(f, j)' <=> Suelto(f, j),
         \A t \in Tripulantes :
           /\ Tomados(t)' = Tomados(t)
           /\ \A j \in Tomados(t) : hilo'[t].nuevos[j] = hilo[t].nuevos[j]
  PROVE  Duenios'
<1>1. \A f \in Archivos : Listados(f)' = Listados(f)
  BY DEF Listados
<1> QED BY <1>1, MismosLugares

-----------------------------------------------------------------------------
(* The steps *)

\* The invariant holds when the store starts on an empty mount point.
LEMMA Inicial == ASSUME Init PROVE IInv
<1>1. ArchivoVacio \in Archivo
  BY DEF ArchivoVacio, Archivo
<1>2. TypeOK /\ hilo \in [Tripulantes -> Hilo]
  <2>1. DOMAIN blocks_copy = Direcciones /\ Range(blocks_copy) \subseteq {Azar, Vacio}
    BY DEF Init, Range
  <2>2. metadata \in [Archivos -> Archivo] /\ saldo \in [Archivos -> Nat]
    BY <1>1 DEF Init
  <2>3. hilo \in [Tripulantes -> Hilo] /\ \A t \in Tripulantes : hilo[t] = Libre
    BY DEF Init, Hilo
  <2>4. interrumpido \in BOOLEAN
    BY DEF Init
  <2> QED BY <2>1, <2>2, <2>3, <2>4, AlmacenValido DEF Init, TypeOK
<1>3. \A t \in Tripulantes : hilo[t].pc = "libre"
  BY DEF Init, Libre
<1>4. Exclusivos /\ Leidos /\ Avances
  BY <1>3 DEF Exclusivos, Leidos, Avances, Atendiendo
<1>5. roundUp(0) = 0
  BY Redondeo
<1>6. CuentaVeraz /\ Cuentas
  BY <1>5 DEF Init, CuentaVeraz, Cuentas, ArchivoVacio
<1>7. /\ \A f \in Archivos : Listados(f) = {}
      /\ \A t \in Tripulantes : Tomados(t) = {}
  BY <1>3 DEF Init, Listados, ArchivoVacio, Tomados
<1>8. UnDuenio
  BY <1>7 DEF UnDuenio
<1>9. BitmapExacto
  BY <1>7 DEF BitmapExacto, Asignados, Init
<1> QED BY <1>2, <1>4, <1>6, <1>8, <1>9 DEF IInv, Duenios

\* Abrir: the metadata is read and the last block filled.
LEMMA PasoAbrir ==
  ASSUME IInv, NEW t \in Tripulantes, Puede(t), NEW f \in Recursos \cup {t},
         f \in Recursos => DispositivoLibre, NEW cantidad \in Nat,
         f \notin Recursos => cantidad \in Largos, Abrir(t, f, cantidad)
  PROVE  IInv'
<1> DEFINE h == Agregado(f, cantidad)
<1>1. /\ hilo' = [hilo EXCEPT ![t] = h] /\ pedidos' = pedidos + 1
      /\ UNCHANGED <<bitmap, metadata, caido, reinicios, saldo, interrumpido>>
  BY DEF Abrir
<1>2. f \in Archivos /\ hilo[t].pc = "libre" /\ hilo[t] \in Hilo
  BY DatosAlmacen DEF Archivos, Puede
<1>3. /\ h.pc = "agrega" /\ h.archivo = f /\ h.leido = metadata[f]
      /\ h.cantidad = cantidad /\ h.nuevos = <<>>
  BY DEF Agregado
<1>4. h \in HiloAgrega
  <2>1. Caben(cantidad, metadata[f].size) \in 0 .. cantidad
    BY <1>2, DatosAlmacen, Partes
  <2>2. \A lugar \in 0 .. cantidad : cantidad - lugar \in Nat
    OBVIOUS
  <2>3. h.resta \in Nat
    BY <2>1, <2>2 DEF Agregado
  <2>4. <<>> \in Seq(Bloques)
    OBVIOUS
  <2>5. h = [pc |-> "agrega", archivo |-> f, leido |-> metadata[f], cantidad |-> cantidad,
             resta |-> h.resta, nuevos |-> <<>>]
    BY DEF Agregado
  <2> QED BY <2>3, <2>4, <2>5, <1>2, DatosAlmacen, SonHilos
<1> HIDE DEF h
<1>5. Agregando(h)
  <2>1. roundUp(metadata[f].size) <= roundUp(metadata[f].size + cantidad)
    BY <1>2, DatosAlmacen, Redondeo
  <2>2. roundUp(metadata[f].size) \in Nat /\ roundUp(metadata[f].size + cantidad) \in Nat
    BY <1>2, DatosAlmacen, Redondeo
  <2>3. CantidadBloques(f, metadata[f]) = roundUp(metadata[f].size)
    BY <1>2, DatosAlmacen
  <2> QED BY <2>1, <2>2, <2>3, <1>3 DEF Agregando, Faltantes
<1>6. /\ hilo' \in [Tripulantes -> Hilo] /\ Exclusivos' /\ Leidos' /\ Avances'
      /\ \A u \in Tripulantes :
           hilo'[u] = Libre \/ hilo'[u] \in HiloAgrega \/ hilo'[u] \in HiloQuita
  <2>1. h \in Hilo /\ h.leido = metadata'[f]
    BY <1>1, <1>3, <1>4 DEF Hilo
  <2>2. f \in Recursos => \A u \in Atendiendo \ {t} : hilo[u].archivo \notin Recursos
    BY DEF DispositivoLibre
  <2> QED BY <2>1, <2>2, <1>1, <1>3, <1>5, HiloEnOrden
<1>7. TypeOK'
  <2>1. pedidos' \in 0 .. MaxPedidos
    BY <1>1, AlmacenValido DEF IInv, TypeOK, Puede
  <2>2. DOMAIN blocks_copy' = Direcciones /\ Range(blocks_copy') \subseteq Archivos \cup {Azar, Vacio}
    <3>1. CASE blocks_copy' = blocks_copy
      BY <3>1 DEF IInv, TypeOK
    <3>2. CASE blocks_copy' = escribir_caracter_en_bloque(f, cantidad,
                 metadata[f].blocks[CantidadBloques(f, metadata[f])], metadata[f].size)
      BY <3>2, <1>2, Copia DEF IInv
    <3> QED BY <3>1, <3>2 DEF Abrir
  <2> QED BY <2>1, <2>2, <1>1, <1>6 DEF IInv, TypeOK
<1>8. CuentaVeraz' /\ Cuentas'
  BY <1>1 DEF IInv, CuentaVeraz, Cuentas
<1>9. Duenios'
  <2>1. \A g, j : Suelto(g, j)' <=> Suelto(g, j)
    BY <1>1, <1>2, <1>3, <1>4, Sueltos DEF Hilo
  <2>2. \A u \in Tripulantes :
          /\ Tomados(u)' = Tomados(u)
          /\ \A j \in Tomados(u) : hilo'[u].nuevos[j] = hilo[u].nuevos[j]
    BY <1>1, <1>2, <1>3 DEF Tomados, IInv
  <2> QED BY <2>1, <2>2, <1>1, MismosBloques DEF IInv
<1> QED BY <1>6, <1>7, <1>8, <1>9 DEF IInv

\* proximo_bloque_libre: a free block is taken, so no file has it.
LEMMA PasoOcupar ==
  ASSUME IInv, NEW t \in Tripulantes, proximo_bloque_libre(t)
  PROVE  IInv'
<1> DEFINE h == hilo[t]
<1> DEFINE escrito == h.leido.size + h.cantidad - h.resta
<1>1. PICK bloque \in Bloques :
        /\ EsElPrimeroLibre(bloque)
        /\ bitmap' = BitmapCon(bloque)
        /\ blocks_copy' = escribir_caracter_en_bloque(h.archivo, h.resta, bloque, escrito)
        /\ hilo' = [hilo EXCEPT ![t].nuevos = Append(@, bloque),
                                ![t].resta = @ - Caben(@, escrito)]
  BY DEF proximo_bloque_libre
<1> DEFINE n == [h EXCEPT !.nuevos = Append(h.nuevos, bloque),
                          !.resta = h.resta - Caben(h.resta, escrito)]
<1>2. /\ h.pc = "agrega" /\ Len(h.nuevos) < Faltantes(h)
      /\ UNCHANGED <<metadata, caido, pedidos, reinicios, saldo, interrumpido>>
  BY DEF proximo_bloque_libre
<1>3. h \in HiloAgrega /\ t \in Atendiendo
  BY <1>2, DatosAlmacen, Formas DEF Atendiendo
<1>4. /\ h.archivo \in Archivos /\ h.leido \in Archivo /\ h.nuevos \in Seq(Bloques)
      /\ h.cantidad \in Nat /\ h.resta \in Nat /\ h.leido.size \in Nat
  BY <1>3, DatosAgrega, DatosArchivo
<1>5. /\ Append(h.nuevos, bloque) \in Seq(Bloques)
      /\ Len(Append(h.nuevos, bloque)) = Len(h.nuevos) + 1
      /\ Append(h.nuevos, bloque)[Len(h.nuevos) + 1] = bloque
      /\ \A j \in 1 .. Len(h.nuevos) : Append(h.nuevos, bloque)[j] = h.nuevos[j]
  BY <1>4
<1>6. /\ n \in HiloAgrega /\ n.pc = "agrega" /\ n.archivo = h.archivo /\ n.leido = h.leido
      /\ n.cantidad = h.cantidad /\ n.nuevos = Append(h.nuevos, bloque)
  <2>1. h.resta - Caben(h.resta, escrito) \in Nat
    <3>1. Menor(h.resta, BLOCK_SIZE - (escrito % BLOCK_SIZE)) <= h.resta
      BY <1>4, Tamanio DEF Menor
    <3>2. escrito \in Int
      BY <1>4
    <3> HIDE DEF escrito
    <3> escrito % BLOCK_SIZE \in 0 .. BLOCK_SIZE - 1
      BY <3>2, Tamanio
    <3>3. Menor(h.resta, BLOCK_SIZE - (escrito % BLOCK_SIZE)) \in Nat
      BY <3>2, <1>4, Tamanio DEF Menor
    <3> QED BY <3>1, <3>3, <1>4 DEF Caben
  <2> DEFINE resta == h.resta - Caben(h.resta, escrito)
  <2> HIDE DEF h, resta
  <2> QED BY <2>1, <1>3, <1>5 DEF HiloAgrega, resta
<1>7. hilo' = [hilo EXCEPT ![t] = n]
  BY <1>1 DEF IInv
<1> HIDE DEF n, h
<1>9. Agregando(n)
  <2>1. Faltantes(n) = Faltantes(h)
    BY <1>6 DEF Faltantes
  <2>2. Agregando(h)
    BY <1>2 DEF IInv, Avances, h
  <2>3. Faltantes(h) \in Int
    <3>1. h.leido.size + h.cantidad \in Nat /\ h.leido.block_count \in Nat
      BY <1>4, DatosArchivo
    <3>2. roundUp(h.leido.size + h.cantidad) \in Nat /\ roundUp(h.leido.size) \in Nat
      BY <3>1, <1>4, Redondeo
    <3> QED BY <3>1, <3>2 DEF Faltantes, CantidadBloques
  <2> QED BY <2>1, <2>2, <2>3, <1>2, <1>4, <1>5, <1>6 DEF Agregando
<1>10. /\ hilo' \in [Tripulantes -> Hilo] /\ Exclusivos' /\ Leidos' /\ Avances'
       /\ \A u \in Tripulantes :
            hilo'[u] = Libre \/ hilo'[u] \in HiloAgrega \/ hilo'[u] \in HiloQuita
  <2>1. n \in Hilo
    BY <1>6 DEF Hilo
  <2>2. n.archivo \in Recursos \cup {t} /\ n.leido = metadata'[n.archivo]
    BY <1>2, <1>3, <1>6 DEF IInv, Exclusivos, Leidos, h
  <2>3. n.archivo \in Recursos => \A u \in Atendiendo \ {t} : hilo[u].archivo \notin Recursos
    BY <1>3, <1>6 DEF IInv, Exclusivos, h
  <2>4. n.pc # "quita"
    BY <1>6
  <2> QED BY <2>1, <2>2, <2>3, <2>4, <1>2, <1>7, <1>9, HiloEnOrden
<1>11. /\ hilo'[t] = n
       /\ \A u \in Tripulantes \ {t} : hilo'[u] = hilo[u]
  BY <1>7 DEF IInv
<1>12. TypeOK'
  <2>1. DOMAIN blocks_copy' = Direcciones /\ Range(blocks_copy') \subseteq Archivos \cup {Azar, Vacio}
    BY <1>1, <1>4, Copia DEF IInv
  <2>2. bitmap' \subseteq Bloques
    BY <1>1 DEF IInv, TypeOK, BitmapCon
  <2> QED BY <2>1, <2>2, <1>2, <1>10 DEF IInv, TypeOK
<1>13. CuentaVeraz' /\ Cuentas'
  BY <1>2 DEF IInv, CuentaVeraz, Cuentas
<1>14. /\ \A f, j : Suelto(f, j)' <=> Suelto(f, j)
       /\ \A f \in Archivos : Listados(f)' = Listados(f)
  <2>1. \A f, j : Suelto(f, j)' <=> Suelto(f, j)
    <3>1. n \in Hilo
      BY <1>6 DEF Hilo
    <3>2. n.pc # "quita" /\ hilo[t].pc # "quita"
      BY <1>2, <1>6 DEF h
    <3> QED BY <3>1, <3>2, <1>7, Sueltos
  <2> QED BY <2>1, <1>2 DEF Listados
<1>15. /\ Tomados(t)' = Tomados(t) \cup {Len(h.nuevos) + 1}
       /\ Tomados(t) = 1 .. Len(h.nuevos)
       /\ \A u \in Tripulantes \ {t} : Tomados(u)' = Tomados(u)
       /\ hilo'[t].nuevos[Len(h.nuevos) + 1] = bloque
       /\ \A u \in Tripulantes : \A j \in Tomados(u) : hilo'[u].nuevos[j] = hilo[u].nuevos[j]
  <2>1. Tomados(t) = 1 .. Len(h.nuevos)
    BY <1>2, <1>4 DEF Tomados, h
  <2>2. Tomados(t)' = 1 .. Len(h.nuevos) + 1
    BY <1>5, <1>6, <1>11 DEF Tomados
  <2>3. 1 .. Len(h.nuevos) + 1 = (1 .. Len(h.nuevos)) \cup {Len(h.nuevos) + 1}
    BY <1>4
  <2>4. \A u \in Tripulantes \ {t} : Tomados(u)' = Tomados(u)
    BY <1>11 DEF Tomados
  <2>5. hilo'[t].nuevos[Len(h.nuevos) + 1] = bloque
    BY <1>5, <1>6, <1>11
  <2>6. \A u \in Tripulantes : \A j \in Tomados(u) : hilo'[u].nuevos[j] = hilo[u].nuevos[j]
    BY <2>1, <1>5, <1>6, <1>11 DEF h
  <2> QED BY <2>1, <2>2, <2>3, <2>4, <2>5, <2>6
<1>16. Asignados' = Asignados \cup {bloque}
  BY <1>2, <1>14, <1>15, Enumerados
<1>17. bitmap' = bitmap \cup {bloque} /\ bloque \notin bitmap
  BY <1>1 DEF BitmapCon, EsElPrimeroLibre, Libres
<1>18. BitmapExacto'
  BY <1>2, <1>16, <1>17 DEF IInv, Duenios, BitmapExacto
<1>19. UnDuenio'
  <2> SUFFICES ASSUME ~interrumpido PROVE UnDuenio'
    BY <1>2 DEF UnDuenio
  <2>1. UnDuenio /\ bloque \notin Asignados
    BY <1>17 DEF IInv, Duenios, BitmapExacto
  <2>2. \A f \in Archivos : \A j \in Listados(f) : metadata[f].blocks[j] # bloque
    BY <2>1, Enumerados
  <2>3. \A u \in Tripulantes : \A j \in Tomados(u) : hilo[u].nuevos[j] # bloque
    BY <2>1, Enumerados
  <2>4. \A f, g \in Archivos : \A j \in Listados(f)', k \in Listados(g)' :
          <<f, j>> # <<g, k>> => metadata'[f].blocks[j] # metadata'[g].blocks[k]
    BY <2>1, <1>2, <1>14 DEF UnDuenio
  <2>5. ASSUME NEW u \in Tripulantes, NEW j \in Tomados(u)'
        PROVE  \/ j \in Tomados(u) /\ hilo'[u].nuevos[j] = hilo[u].nuevos[j]
               \/ u = t /\ j = Len(h.nuevos) + 1 /\ hilo'[u].nuevos[j] = bloque
    BY <2>5, <1>15
  <2>6. \A u, v \in Tripulantes : \A j \in Tomados(u)', k \in Tomados(v)' :
          <<u, j>> # <<v, k>> => hilo'[u].nuevos[j] # hilo'[v].nuevos[k]
    BY <2>1, <2>3, <2>5 DEF UnDuenio
  <2>7. \A f \in Archivos, u \in Tripulantes : \A j \in Listados(f)', k \in Tomados(u)' :
          metadata'[f].blocks[j] # hilo'[u].nuevos[k]
    BY <2>1, <2>2, <2>5, <1>2, <1>14 DEF UnDuenio
  <2> QED BY <2>4, <2>6, <2>7 DEF UnDuenio
<1> QED BY <1>10, <1>12, <1>13, <1>18, <1>19 DEF IInv, Duenios

\* What GuardarAgregado saves: the list with the blocks taken, whose number is
\* the one that the new SIZE needs.
LEMMA AgrandadoExacto ==
  ASSUME IInv, NEW t \in Tripulantes, NEW h, h = hilo[t], h.pc = "agrega",
         Len(h.nuevos) >= Faltantes(h)
  PROVE  /\ Agrandado(h) \in Archivo
         /\ Agrandado(h).blocks = metadata[h.archivo].blocks \o h.nuevos
         /\ Len(Agrandado(h).blocks) = roundUp(Agrandado(h).size)
         /\ h.archivo \in Recursos => Agrandado(h).block_count = Len(Agrandado(h).blocks)
         /\ h.archivo \in Recursos \/ LargosGrandes =>
              Agrandado(h).size = metadata[h.archivo].size + h.cantidad
<1>0. Len(h.nuevos) >= Faltantes(h)
  OBVIOUS
<1> DEFINE m == metadata[h.archivo]
<1> DEFINE total == m.size + h.cantidad
<1>1. h \in HiloAgrega /\ h.leido = m
  BY DatosAlmacen, Formas DEF IInv, Leidos, Atendiendo
<1>2. /\ h.archivo \in Archivos /\ h.cantidad \in Nat /\ h.nuevos \in Seq(Bloques)
      /\ m \in Archivo /\ m.size \in Nat /\ m.block_count \in Nat /\ m.blocks \in Seq(Bloques)
      /\ Len(m.blocks) = roundUp(m.size) /\ CantidadBloques(h.archivo, m) = Len(m.blocks)
  BY <1>1, DatosAgrega, DatosAlmacen
<1>3. total \in Nat /\ roundUp(total) \in Nat
  <2>1. total \in Nat
    BY <1>2
  <2> HIDE DEF total
  <2> QED BY <2>1, Redondeo
<1>4. Len(h.nuevos) = roundUp(total) - Len(m.blocks)
  <2>1. Len(h.nuevos) <= Faltantes(h) /\ Len(h.nuevos) \in Nat
    BY <1>2 DEF IInv, Avances, Agregando
  <2>2. Faltantes(h) = roundUp(total) - Len(m.blocks)
    BY <1>1, <1>2 DEF Faltantes
  <2>3. Len(m.blocks) \in Nat
    BY <1>2
  <2> HIDE DEF m, total
  <2> QED BY <2>1, <2>2, <2>3, <1>3, <1>0
<1>5. /\ m.blocks \o h.nuevos \in Seq(Bloques)
      /\ Len(m.blocks \o h.nuevos) = roundUp(total)
  <2>1. /\ m.blocks \o h.nuevos \in Seq(Bloques)
        /\ Len(m.blocks \o h.nuevos) = Len(m.blocks) + Len(h.nuevos)
    <3>1. m.blocks \in Seq(Bloques) /\ h.nuevos \in Seq(Bloques)
      BY <1>2
    <3> HIDE DEF m
    <3> QED BY <3>1, Pegado
  <2>2. Len(m.blocks) \in Nat
    BY <1>2
  <2> HIDE DEF m, total
  <2> QED BY <2>1, <2>2, <1>3, <1>4
<1>6. h.nuevos = <<>> => m.blocks \o h.nuevos = m.blocks
  BY <1>2, ConcatEmptySeq
<1> HIDE DEF m, total
<1>7. CASE h.archivo \in Recursos /\ h.nuevos = <<>>
  <2>1. Agrandado(h) = [m EXCEPT !.size = total]
    BY <1>1, <1>7 DEF Agrandado, total
  <2>2. roundUp(total) = Len(m.blocks)
    BY <1>5, <1>6, <1>7
  <2>3. m.block_count = Len(m.blocks)
    BY <1>2, <1>7 DEF CantidadBloques
  <2>4. /\ Agrandado(h) \in Archivo /\ Agrandado(h).blocks = m.blocks
        /\ Agrandado(h).block_count = m.block_count /\ Agrandado(h).size = total
    BY <2>1, <1>2, <1>3 DEF Archivo
  <2> QED BY <2>2, <2>3, <2>4, <1>6, <1>7 DEF m, total
<1>8. CASE h.nuevos # <<>>
  <2>1. PICK k \in Nat : Agrandado(h) = [size |-> total, block_count |-> k, blocks |-> m.blocks \o h.nuevos]
                        /\ (h.archivo \in Recursos => k = roundUp(total))
    BY <1>1, <1>3, <1>8 DEF Agrandado, total
  <2> DEFINE b == m.blocks \o h.nuevos
  <2>2. b \in Seq(Bloques) /\ Len(b) = roundUp(total)
    BY <1>5
  <2> HIDE DEF b
  <2>3. Agrandado(h) = [size |-> total, block_count |-> k, blocks |-> b]
    BY <2>1 DEF b
  <2>4. Agrandado(h) \in Archivo
    BY <2>2, <2>3, <1>3 DEF Archivo
  <2>5. Agrandado(h).blocks = b /\ Agrandado(h).block_count = k /\ Agrandado(h).size = total
    BY <2>3
  <2> QED BY <2>1, <2>2, <2>4, <2>5 DEF b, m, total
<1>9. CASE h.archivo \notin Recursos /\ h.nuevos = <<>>
  <2>1. Agrandado(h) = m
    BY <1>9 DEF Agrandado, m
  <2>2. ~LargosGrandes
    <3> SUFFICES ASSUME LargosGrandes PROVE FALSE
      OBVIOUS
    <3>1. h.cantidad >= BLOCK_SIZE
      BY <1>9 DEF IInv, Avances, Agregando, LargosGrandes
    <3>2. roundUp(m.size) < roundUp(total)
      <4>1. m.size + BLOCK_SIZE <= total
        BY <3>1, <1>2, Tamanio DEF total, m
      <4> QED BY <4>1, <1>2, <1>3, Redondeo DEF m
    <3>3. roundUp(total) = roundUp(m.size)
      BY <1>2, <1>5, <1>6, <1>9
    <3> QED BY <3>2, <3>3, <1>3
  <2> QED BY <2>1, <2>2, <1>2, <1>6, <1>9 DEF m
<1> QED BY <1>7, <1>8, <1>9

\* GuardarAgregado: the blocks that the thread took go to the list of the file.
LEMMA PasoGuardarAgregado ==
  ASSUME IInv, NEW t \in Tripulantes, GuardarAgregado(t)
  PROVE  IInv'
<1>0. PICK f : f = hilo[t].archivo
  OBVIOUS
<1> DEFINE h == hilo[t]
<1> DEFINE b == metadata[f].blocks
<1>1. /\ h.pc = "agrega" /\ Len(h.nuevos) >= Faltantes(h)
      /\ metadata' = [metadata EXCEPT ![f] = Agrandado(h)]
      /\ saldo' = [saldo EXCEPT ![f] = @ + h.cantidad]
      /\ hilo' = [hilo EXCEPT ![t] = Libre]
      /\ UNCHANGED <<bitmap, blocks_copy, caido, pedidos, reinicios, interrumpido>>
  BY <1>0 DEF GuardarAgregado
<1>2. /\ h \in HiloAgrega /\ t \in Atendiendo /\ Libre \in Hilo /\ Libre.pc = "libre"
      /\ h.nuevos \in Seq(Bloques) /\ f \in Archivos /\ h.cantidad \in Nat
      /\ b \in Seq(Bloques)
  BY <1>1, <1>0, DatosAlmacen, Formas, DatosAgrega DEF Atendiendo, Hilo, Libre
<1>3. /\ metadata'[f] = Agrandado(h) /\ metadata' \in [Archivos -> Archivo]
      /\ \A g \in Archivos \ {f} : metadata'[g] = metadata[g]
      /\ metadata'[f].blocks = b \o h.nuevos
  BY <1>1, <1>2, <1>0, AgrandadoExacto DEF IInv, TypeOK
<1>4. /\ hilo'[t] = Libre /\ hilo[t].pc # "quita"
      /\ \A u \in Tripulantes \ {t} : hilo'[u] = hilo[u]
  BY <1>1 DEF IInv
<1>5. \A u \in Atendiendo \ {t} : hilo[u].archivo # f
  BY <1>2, <1>0, Ajenos
<1>6. /\ hilo' \in [Tripulantes -> Hilo] /\ Exclusivos' /\ Leidos' /\ Avances'
      /\ \A u \in Tripulantes :
           hilo'[u] = Libre \/ hilo'[u] \in HiloAgrega \/ hilo'[u] \in HiloQuita
  <2>1. \A u \in Atendiendo \ {t} : hilo[u].archivo \in Archivos
    BY DEF IInv, Exclusivos, Atendiendo, Archivos
  <2>2. \A u \in Atendiendo \ {t} : metadata'[hilo[u].archivo] = metadata[hilo[u].archivo]
    BY <2>1, <1>3, <1>5
  <2> QED BY <2>2, <1>1, <1>2, HiloEnOrden
<1>7. TypeOK'
  <2>1. saldo' \in [Archivos -> Nat]
    <3>1. saldo \in [Archivos -> Nat] /\ saldo[f] + h.cantidad \in Nat
      BY <1>2 DEF IInv, TypeOK
    <3> QED BY <3>1, <1>1, <1>2
  <2> QED BY <2>1, <1>1, <1>3, <1>6 DEF IInv, TypeOK
<1>8. CuentaVeraz'
  BY <1>1, <1>3, <1>0, AgrandadoExacto DEF IInv, CuentaVeraz
<1>9. Cuentas'
  <2>1. saldo'[f] = saldo[f] + h.cantidad /\ \A g \in Archivos \ {f} : saldo'[g] = saldo[g]
    BY <1>1, <1>2 DEF IInv, TypeOK
  <2>2. f \in Recursos \/ LargosGrandes => metadata'[f].size = metadata[f].size + h.cantidad
    BY <1>1, <1>3, <1>0, AgrandadoExacto
  <2> QED BY <2>1, <2>2, <1>3 DEF IInv, Cuentas
<1>10. /\ \A g, j : Suelto(g, j)' <=> Suelto(g, j)
       /\ \A j : ~Suelto(f, j)
  <2>1. \A g, j : Suelto(g, j)' <=> Suelto(g, j)
    BY <1>1, <1>2, <1>4, Sueltos
  <2>2. \A j : ~Suelto(f, j)
    BY <1>4, <1>5, <1>0 DEF Suelto, Atendiendo
  <2> QED BY <2>1, <2>2
<1> DEFINE L == Len(b)
<1> DEFINE N == Len(h.nuevos)
<1>11. /\ L \in Nat /\ N \in Nat
       /\ DOMAIN (b \o h.nuevos) = 1 .. L + N
       /\ \A j \in 1 .. L : (b \o h.nuevos)[j] = b[j]
       /\ \A j \in 1 .. N : (b \o h.nuevos)[L + j] = h.nuevos[j]
  <2>1. b \in Seq(Bloques) /\ h.nuevos \in Seq(Bloques)
    BY <1>2
  <2> HIDE DEF b, h
  <2>2. L \in Nat /\ N \in Nat
    BY <2>1
  <2> QED BY <2>1, <2>2, Pegado
<1>12. /\ Listados(f) = 1 .. L /\ Listados(f)' = 1 .. L + N
       /\ \A g \in Archivos \ {f} : Listados(g)' = Listados(g)
       /\ Tomados(t) = 1 .. N /\ Tomados(t)' = {}
       /\ \A u \in Tripulantes \ {t} : Tomados(u)' = Tomados(u)
  <2>1. Listados(f) = 1 .. L
    BY <1>2, <1>10 DEF Listados
  <2>2. Listados(f)' = 1 .. L + N
    <3> HIDE DEF b, h, L, N
    <3> QED BY <1>3, <1>10, <1>11 DEF Listados
  <2>3. \A g \in Archivos \ {f} : Listados(g)' = Listados(g)
    BY <1>3, <1>10 DEF Listados
  <2>4. Tomados(t) = 1 .. N /\ Tomados(t)' = {}
    BY <1>1, <1>2, <1>4 DEF Tomados
  <2>5. \A u \in Tripulantes \ {t} : Tomados(u)' = Tomados(u)
    BY <1>4 DEF Tomados
  <2> QED BY <2>1, <2>2, <2>3, <2>4, <2>5
<1> HIDE DEF h, b, L, N
\* a place of the list after the step is one of before, or one of the thread
<1>13. ASSUME NEW g \in Archivos, NEW j \in Listados(g)'
       PROVE  \/ /\ j \in Listados(g) /\ (g = f => j \in 1 .. L)
                 /\ metadata'[g].blocks[j] = metadata[g].blocks[j]
              \/ /\ g = f /\ j - L \in Tomados(t) /\ j - L \in Nat /\ j = L + (j - L)
                 /\ metadata'[g].blocks[j] = h.nuevos[j - L]
  <2>1. CASE g # f
    BY <2>1, <1>3, <1>12, <1>13
  <2>2. CASE g = f /\ j \in 1 .. L
    <3>1. metadata'[g].blocks[j] = b[j]
      BY <2>2, <1>3, <1>11
    <3> QED BY <2>2, <3>1, <1>12 DEF b
  <2>3. CASE g = f /\ j \notin 1 .. L
    <3>1. j \in 1 .. L + N
      BY <2>3, <1>12, <1>13
    <3>2. j - L \in 1 .. N /\ L + (j - L) = j
      BY <3>1, <2>3, <1>11
    <3> QED BY <3>2, <2>3, <1>3, <1>11, <1>12
  <2> QED BY <2>1, <2>2, <2>3
<1>14. Asignados' = Asignados
  <2>1. ASSUME NEW x \in Asignados' PROVE x \in Asignados
    <3>1. CASE \E g \in Archivos : \E j \in Listados(g)' : x = metadata'[g].blocks[j]
      BY <3>1, <1>13, Enumerados DEF h
    <3>2. CASE \E u \in Tripulantes : \E j \in Tomados(u)' : x = hilo'[u].nuevos[j]
      BY <3>2, <1>4, <1>12, Enumerados
    <3> QED BY <2>1, <3>1, <3>2, Enumerados
  <2>2. ASSUME NEW x \in Asignados PROVE x \in Asignados'
    <3>1. ASSUME NEW g \in Archivos, NEW j \in Listados(g), x = metadata[g].blocks[j]
          PROVE  j \in Listados(g)' /\ x = metadata'[g].blocks[j]
      <4>1. CASE g # f
        BY <4>1, <3>1, <1>3, <1>12
      <4>2. CASE g = f
        <5>1. j \in 1 .. L /\ j \in 1 .. L + N
          BY <4>2, <3>1, <1>11, <1>12
        <5>2. metadata'[g].blocks[j] = b[j]
          BY <5>1, <4>2, <1>3, <1>11
        <5> QED BY <5>1, <5>2, <4>2, <3>1, <1>12 DEF b
      <4> QED BY <4>1, <4>2
    <3>2. ASSUME NEW u \in Tripulantes, NEW j \in Tomados(u), x = hilo[u].nuevos[j]
          PROVE  \/ u # t /\ j \in Tomados(u)' /\ x = hilo'[u].nuevos[j]
                 \/ L + j \in Listados(f)' /\ x = metadata'[f].blocks[L + j]
      <4>1. CASE u # t
        BY <4>1, <3>2, <1>4, <1>12
      <4>2. CASE u = t
        <5>1. j \in 1 .. N /\ L + j \in 1 .. L + N
          BY <4>2, <3>2, <1>11, <1>12
        <5> QED BY <5>1, <4>2, <3>2, <1>3, <1>11, <1>12 DEF h
      <4> QED BY <4>1, <4>2
    <3>3. CASE \E g \in Archivos : \E j \in Listados(g) : x = metadata[g].blocks[j]
      BY <3>3, <3>1, Enumerados
    <3>4. CASE \E u \in Tripulantes : \E j \in Tomados(u) : x = hilo[u].nuevos[j]
      <4>1. f \in Archivos
        BY <1>2
      <4> QED BY <3>4, <3>2, <4>1, Enumerados
    <3> QED BY <2>2, <3>3, <3>4, Enumerados
  <2> QED BY <2>1, <2>2
<1>15. BitmapExacto'
  BY <1>1, <1>14 DEF IInv, Duenios, BitmapExacto
<1>16. UnDuenio'
  <2> SUFFICES ASSUME ~interrumpido PROVE UnDuenio'
    BY <1>1 DEF UnDuenio
  <2>1. /\ \A g, k \in Archivos : \A i \in Listados(g), j \in Listados(k) :
             <<g, i>> # <<k, j>> => metadata[g].blocks[i] # metadata[k].blocks[j]
        /\ \A u, v \in Tripulantes : \A i \in Tomados(u), j \in Tomados(v) :
             <<u, i>> # <<v, j>> => hilo[u].nuevos[i] # hilo[v].nuevos[j]
        /\ \A g \in Archivos, u \in Tripulantes : \A i \in Listados(g), j \in Tomados(u) :
             metadata[g].blocks[i] # hilo[u].nuevos[j]
    BY DEF IInv, Duenios, UnDuenio
  <2>2. \A u \in Tripulantes : \A j \in Tomados(u)' :
          u # t /\ j \in Tomados(u) /\ hilo'[u] = hilo[u]
    BY <1>4, <1>12
  <2>3. ASSUME NEW g \in Archivos, NEW k \in Archivos, NEW i \in Listados(g)',
               NEW j \in Listados(k)', <<g, i>> # <<k, j>>
        PROVE  metadata'[g].blocks[i] # metadata'[k].blocks[j]
    BY <2>1, <2>3, <1>13 DEF h
  <2>4. ASSUME NEW g \in Archivos, NEW u \in Tripulantes, NEW i \in Listados(g)',
               NEW j \in Tomados(u)'
        PROVE  metadata'[g].blocks[i] # hilo'[u].nuevos[j]
    BY <2>1, <2>2, <2>4, <1>13 DEF h
  <2> QED BY <2>1, <2>2, <2>3, <2>4 DEF UnDuenio
<1> QED BY <1>6, <1>7, <1>8, <1>9, <1>15, <1>16 DEF IInv, Duenios

\* AlmacenLleno: the process dies and nothing else changes.
LEMMA PasoLleno ==
  ASSUME IInv, NEW t \in Tripulantes, AlmacenLleno(t)
  PROVE  IInv'
<1>1. /\ caido' = "lleno"
      /\ UNCHANGED <<bitmap, metadata, blocks_copy, hilo, pedidos, reinicios, saldo, interrumpido>>
  BY DEF AlmacenLleno
<1>2. TypeOK'
  BY <1>1 DEF IInv, TypeOK
<1>3. /\ hilo' \in [Tripulantes -> Hilo] /\ Exclusivos' /\ Leidos' /\ Avances'
      /\ CuentaVeraz' /\ Cuentas'
  BY <1>1 DEF IInv, Exclusivos, Leidos, Avances, Atendiendo, CuentaVeraz, Cuentas
<1>4. \A f, j : Suelto(f, j)' <=> Suelto(f, j)
  BY <1>1 DEF Suelto
<1>5. Duenios'
  BY <1>1, <1>4, MismosBloques DEF IInv, Tomados
<1> QED BY <1>2, <1>3, <1>5 DEF IInv

\* The removal that gives back no block: only SIZE changes, and the list that it
\* needs is still the one there is.
LEMMA PasoQuitarSinBloques ==
  ASSUME IInv, NEW t \in Tripulantes, Puede(t), DispositivoLibre, NEW r \in Recursos,
         NEW cantidad \in Nat, NEW size_final, size_final = SizeFinal(metadata[r], cantidad),
         ~(metadata[r].block_count > BloquesReducidos(size_final)),
         metadata' = [metadata EXCEPT ![r].size = size_final], Descontar(r, cantidad),
         pedidos' = pedidos + 1,
         UNCHANGED <<hilo, bitmap, blocks_copy, caido, reinicios, interrumpido>>
  PROVE  IInv'
<1> DEFINE m == metadata[r]
<1>1. /\ r \in Archivos /\ m \in Archivo /\ m.size \in Nat /\ m.block_count \in Nat
      /\ m.blocks \in Seq(Bloques) /\ Len(m.blocks) = roundUp(m.size)
      /\ m.block_count = Len(m.blocks) /\ m.size = saldo[r]
  BY DatosAlmacen DEF Archivos, IInv, CuentaVeraz, Cuentas
<1>2. size_final \in Nat /\ size_final <= m.size
  BY <1>1, Quedan
<1>3. roundUp(size_final) = Len(m.blocks)
  <2>1. roundUp(size_final) <= roundUp(m.size) /\ roundUp(size_final) \in Nat
    BY <1>1, <1>2, Redondeo
  <2> QED BY <2>1, <1>1 DEF BloquesReducidos
<1>4. /\ metadata' = [metadata EXCEPT ![r] = [m EXCEPT !.size = size_final]]
      /\ metadata'[r] = [m EXCEPT !.size = size_final]
      /\ \A f \in Archivos \ {r} : metadata'[f] = metadata[f]
  BY <1>1 DEF IInv, TypeOK
<1>5. /\ metadata'[r] \in Archivo /\ metadata'[r].size = size_final
      /\ metadata'[r].block_count = m.block_count /\ metadata'[r].blocks = m.blocks
  BY <1>1, <1>2, <1>4 DEF Archivo
<1>6. metadata' \in [Archivos -> Archivo]
  BY <1>1, <1>4, <1>5 DEF IInv, TypeOK
<1>7. saldo'[r] = size_final /\ \A f \in Archivos \ {r} : saldo'[f] = saldo[f]
  BY <1>1 DEF Descontar, SizeFinal, IInv, TypeOK
<1>8. saldo' \in [Archivos -> Nat]
  BY <1>1, <1>2, <1>7 DEF Descontar, IInv, TypeOK
<1>9. pedidos' \in 0 .. MaxPedidos
  BY AlmacenValido DEF IInv, TypeOK, Puede
<1>10. TypeOK'
  BY <1>6, <1>8, <1>9 DEF IInv, TypeOK
<1>11. hilo' \in [Tripulantes -> Hilo] /\ Exclusivos' /\ Avances'
  BY DEF IInv, Exclusivos, Avances, Atendiendo
<1>12. Leidos'
  <2>1. \A u \in Atendiendo : hilo[u].archivo \in Archivos \ {r}
    BY DEF DispositivoLibre, IInv, Exclusivos, Archivos, Atendiendo
  <2> QED BY <2>1, <1>4 DEF IInv, Leidos, Atendiendo
<1>13. CuentaVeraz' /\ Cuentas'
  BY <1>1, <1>3, <1>4, <1>5, <1>7 DEF IInv, CuentaVeraz, Cuentas
<1>14. Duenios'
  <2>1. \A f \in Archivos : metadata'[f].blocks = metadata[f].blocks
    BY <1>4, <1>5
  <2>2. \A f, j : Suelto(f, j)' <=> Suelto(f, j)
    BY DEF Suelto
  <2> QED BY <2>1, <2>2, MismosBloques DEF IInv, Tomados
<1> QED BY <1>10, <1>11, <1>12, <1>13, <1>14 DEF IInv

\* The removal that gives blocks back reads the metadata and begins.
LEMMA PasoEmpezarQuita ==
  ASSUME IInv, NEW t \in Tripulantes, Puede(t), DispositivoLibre, NEW r \in Recursos,
         NEW cantidad \in Nat, NEW size_final, size_final = SizeFinal(metadata[r], cantidad),
         hilo' = [hilo EXCEPT ![t] = Quita(r, cantidad, size_final)],
         pedidos' = pedidos + 1,
         UNCHANGED <<metadata, saldo, bitmap, blocks_copy, caido, reinicios, interrumpido>>
  PROVE  IInv'
<1> DEFINE h == Quita(r, cantidad, size_final)
<1> DEFINE m == metadata[r]
<1>1. /\ r \in Archivos /\ m \in Archivo /\ m.size \in Nat /\ m.block_count \in Nat
      /\ Len(m.blocks) = roundUp(m.size) /\ m.block_count = Len(m.blocks)
  BY DatosAlmacen DEF Archivos, IInv, CuentaVeraz
<1>2. size_final \in Nat /\ size_final <= m.size
  BY <1>1, Quedan
<1>3. /\ roundUp(size_final) <= m.block_count /\ roundUp(size_final) \in Nat
  BY <1>1, <1>2, Redondeo
<1>4. /\ h.pc = "quita" /\ h.archivo = r /\ h.leido = m /\ h.cantidad = cantidad
      /\ h.size_final = size_final /\ h.resta = m.size - size_final /\ h.size = m.size
      /\ h.i = roundUp(size_final) + 1
  BY DEF Quita, BloquesReducidos
<1>5. h \in HiloQuita
  <2>1. m.size - size_final \in Nat /\ roundUp(size_final) + 1 \in Nat
    BY <1>1, <1>2, <1>3
  <2>2. h = [pc |-> "quita", archivo |-> r, leido |-> m, cantidad |-> cantidad,
             size_final |-> size_final, resta |-> m.size - size_final, size |-> m.size,
             i |-> roundUp(size_final) + 1]
    BY DEF Quita, BloquesReducidos
  <2> HIDE DEF h, m
  <2> QED BY <2>1, <2>2, <1>1, <1>2, SonHilos
<1> HIDE DEF h, m
<1>6. Quitando(h)
  BY <1>1, <1>2, <1>3, <1>4 DEF Quitando, BloquesReducidos, m
<1>7. h \in Hilo /\ hilo' = [hilo EXCEPT ![t] = h]
  BY <1>5 DEF Hilo, h
<1>8. /\ hilo' \in [Tripulantes -> Hilo] /\ Exclusivos' /\ Leidos' /\ Avances'
      /\ \A u \in Tripulantes :
           hilo'[u] = Libre \/ hilo'[u] \in HiloAgrega \/ hilo'[u] \in HiloQuita
  <2>1. h.leido = metadata'[h.archivo] /\ h.archivo \in Recursos \cup {t} /\ h.pc # "agrega"
    BY <1>4 DEF m
  <2>2. \A u \in Atendiendo \ {t} : hilo[u].archivo \notin Recursos
    BY DEF DispositivoLibre
  <2> QED BY <2>1, <2>2, <1>6, <1>7, HiloEnOrden
<1>9. pedidos' \in 0 .. MaxPedidos
  BY AlmacenValido DEF IInv, TypeOK, Puede
<1>10. TypeOK'
  BY <1>8, <1>9 DEF IInv, TypeOK
<1>11. CuentaVeraz' /\ Cuentas'
  BY DEF IInv, CuentaVeraz, Cuentas
<1>12. Duenios'
  <2>1. hilo[t].pc = "libre"
    BY DEF Puede
  <2>2. \A j : j \notin BloquesReducidos(h.size_final) + 1 .. h.i - 1
    BY <1>3, <1>4 DEF BloquesReducidos
  <2>3. \A f, j : Suelto(f, j)' <=> Suelto(f, j)
    BY <2>1, <2>2, <1>7, Sueltos
  <2>4. \A u \in Tripulantes :
          /\ Tomados(u)' = Tomados(u)
          /\ \A j \in Tomados(u) : hilo'[u].nuevos[j] = hilo[u].nuevos[j]
    BY <2>1, <1>4, <1>7 DEF Tomados, IInv
  <2> QED BY <2>3, <2>4, MismosBloques DEF IInv
<1> QED BY <1>8, <1>10, <1>11, <1>12 DEF IInv

\* SoltarBloque: the place that the loop is at leaves the file, and its bit is cleared.
LEMMA PasoSoltar ==
  ASSUME IInv, NEW t \in Tripulantes, SoltarBloque(t)
  PROVE  IInv'
<1> DEFINE h == hilo[t]
<1>1. PICK f, k, bloque : f = h.archivo /\ k = h.i /\ bloque = h.leido.blocks[h.i]
  OBVIOUS
<1> DEFINE borran == SeBorran(h.resta, h.size)
<1> DEFINE n == [h EXCEPT !.i = h.i + 1, !.resta = h.resta - borran, !.size = h.size - borran]
<1>2. /\ h.pc = "quita" /\ k <= h.leido.block_count
      /\ blocks_copy' = borrar_caracter_en_bloque(h.resta, bloque, h.size)
      /\ bitmap' = bitmap \ {bloque}
      /\ hilo' = [hilo EXCEPT ![t].i = @ + 1, ![t].resta = @ - borran, ![t].size = @ - borran]
      /\ UNCHANGED <<metadata, caido, pedidos, reinicios, saldo, interrumpido>>
  BY <1>1 DEF SoltarBloque, BitmapSin
<1>3. /\ h \in HiloQuita /\ t \in Atendiendo /\ f \in Recursos /\ h.leido = metadata[f]
      /\ f \in Archivos /\ k \in Nat /\ h.resta \in Nat /\ h.size \in Nat /\ h.size_final \in Nat
      /\ Quitando(h)
  BY <1>1, <1>2, DatosAlmacen, Formas, DatosQuita DEF Atendiendo, Archivos, IInv, Leidos, Avances
<1>4. /\ metadata[f].blocks \in Seq(Bloques) /\ h.leido.block_count = Len(metadata[f].blocks)
      /\ BloquesReducidos(h.size_final) \in Nat
  BY <1>3, DatosAlmacen, Redondeo DEF IInv, CuentaVeraz, BloquesReducidos
<1>5. /\ k \in BloquesReducidos(h.size_final) + 1 .. Len(metadata[f].blocks)
      /\ h.resta + h.size_final = h.size
      /\ h.size_final = SizeFinal(h.leido, h.cantidad)
  BY <1>1, <1>2, <1>3, <1>4 DEF Quitando
<1>6. borran \in 0 .. h.resta
  BY <1>3, Partes
<1>7. h.resta - borran \in Nat /\ h.size - borran \in Nat /\ h.i + 1 \in Nat
  <2> HIDE DEF h, borran
  <2> QED BY <1>1, <1>3, <1>5, <1>6
<1>8. hilo' = [hilo EXCEPT ![t] = n]
  BY <1>2 DEF IInv
<1>9. /\ n \in HiloQuita /\ n.pc = "quita" /\ n.archivo = h.archivo /\ n.leido = h.leido
      /\ n.cantidad = h.cantidad /\ n.size_final = h.size_final /\ n.i = h.i + 1
      /\ n.resta = h.resta - borran /\ n.size = h.size - borran
  <2> HIDE DEF h, borran
  <2> QED BY <1>3, <1>7 DEF HiloQuita
<1> HIDE DEF h, n, borran
<1>10. Quitando(n)
  <2>1. n.size_final = SizeFinal(n.leido, n.cantidad)
    BY <1>5, <1>9
  <2>2. k + 1 \in BloquesReducidos(h.size_final) + 1 .. h.leido.block_count + 1
    BY <1>3, <1>4, <1>5
  <2>3. n.resta + n.size_final = n.size
    BY <1>3, <1>5, <1>6, <1>9
  <2> QED BY <2>1, <2>2, <2>3, <1>1, <1>9 DEF Quitando
<1>11. /\ hilo' \in [Tripulantes -> Hilo] /\ Exclusivos' /\ Leidos' /\ Avances'
       /\ \A u \in Tripulantes :
            hilo'[u] = Libre \/ hilo'[u] \in HiloAgrega \/ hilo'[u] \in HiloQuita
  <2>1. n \in Hilo /\ n.pc # "agrega"
    BY <1>9 DEF Hilo
  <2>2. n.archivo \in Recursos \cup {t} /\ n.leido = metadata'[n.archivo]
    BY <1>1, <1>2, <1>3, <1>9
  <2>3. \A u \in Atendiendo \ {t} : hilo[u].archivo \notin Recursos
    BY <1>1, <1>3 DEF IInv, Exclusivos, h
  <2> QED BY <2>1, <2>2, <2>3, <1>2, <1>8, <1>10, HiloEnOrden
<1>12. /\ hilo'[t] = n /\ hilo[t] = h
       /\ \A u \in Tripulantes \ {t} : hilo'[u] = hilo[u]
  BY <1>8 DEF IInv, h
<1>13. TypeOK'
  <2>1. DOMAIN blocks_copy' = Direcciones /\ Range(blocks_copy') \subseteq Archivos \cup {Azar, Vacio}
    BY <1>2, <1>3, Copia DEF IInv
  <2> QED BY <2>1, <1>2, <1>11 DEF IInv, TypeOK
<1>14. CuentaVeraz' /\ Cuentas'
  BY <1>2 DEF IInv, CuentaVeraz, Cuentas
<1>15. \A u \in Tripulantes :
         /\ Tomados(u)' = Tomados(u)
         /\ \A j \in Tomados(u) : hilo'[u].nuevos[j] = hilo[u].nuevos[j]
  BY <1>2, <1>9, <1>12 DEF Tomados
<1>16. \A u \in Atendiendo \ {t} : hilo[u].archivo # f
  BY <1>1, <1>3, Ajenos DEF h
<1>17. \A g, j : Suelto(g, j)' <=> Suelto(g, j) \/ (g = f /\ j = k)
  <2>1. \A j : j \in BloquesReducidos(h.size_final) + 1 .. k <=>
               j \in BloquesReducidos(h.size_final) + 1 .. k - 1 \/ j = k
    BY <1>3, <1>4, <1>5
  <2>2. n.i - 1 = k
    BY <1>1, <1>3, <1>9
  <2> QED BY <2>1, <2>2, <1>1, <1>2, <1>3, <1>9, <1>12 DEF Suelto
<1>18. ~Suelto(f, k)
  <2>1. k \notin BloquesReducidos(h.size_final) + 1 .. k - 1
    BY <1>3
  <2> QED BY <2>1, <1>1, <1>12, <1>16 DEF Suelto, Atendiendo
<1>19. /\ k \in Listados(f) /\ bloque = metadata[f].blocks[k]
       /\ Listados(f)' = Listados(f) \ {k}
       /\ \A g \in Archivos \ {f} : Listados(g)' = Listados(g)
  <2>1. k \in Listados(f)
    BY <1>4, <1>5, <1>18 DEF Listados
  <2>2. bloque = metadata[f].blocks[k]
    BY <1>1, <1>3
  <2>3. Listados(f)' = Listados(f) \ {k}
    BY <1>2, <1>17 DEF Listados
  <2>4. \A g \in Archivos \ {f} : Listados(g)' = Listados(g)
    BY <1>2, <1>17 DEF Listados
  <2> QED BY <2>1, <2>2, <2>3, <2>4
<1>20. /\ Asignados' \subseteq Asignados /\ Asignados \subseteq Asignados' \cup {bloque}
  <2>1. ASSUME NEW x \in Asignados' PROVE x \in Asignados
    <3>1. CASE \E g \in Archivos : \E j \in Listados(g)' : x = metadata'[g].blocks[j]
      BY <3>1, <1>2, <1>19, Enumerados
    <3>2. CASE \E u \in Tripulantes : \E j \in Tomados(u)' : x = hilo'[u].nuevos[j]
      BY <3>2, <1>15, Enumerados
    <3> QED BY <2>1, <3>1, <3>2, Enumerados
  <2>2. ASSUME NEW x \in Asignados, x # bloque PROVE x \in Asignados'
    <3>1. CASE \E g \in Archivos : \E j \in Listados(g) : x = metadata[g].blocks[j]
      BY <3>1, <2>2, <1>2, <1>19, Enumerados
    <3>2. CASE \E u \in Tripulantes : \E j \in Tomados(u) : x = hilo[u].nuevos[j]
      BY <3>2, <1>15, Enumerados
    <3> QED BY <2>2, <3>1, <3>2, Enumerados
  <2> QED BY <2>1, <2>2
<1>21. UnDuenio'
  BY <1>2, <1>15, <1>19 DEF IInv, Duenios, UnDuenio
<1>22. ~interrumpido => bloque \notin Asignados'
  <2> SUFFICES ASSUME ~interrumpido, bloque \in Asignados' PROVE FALSE
    OBVIOUS
  <2>1. UnDuenio
    BY DEF IInv, Duenios
  <2>2. ASSUME NEW g \in Archivos, NEW j \in Listados(g)' PROVE metadata[g].blocks[j] # bloque
    BY <2>1, <2>2, <1>3, <1>19 DEF UnDuenio
  <2>3. ASSUME NEW u \in Tripulantes, NEW j \in Tomados(u)' PROVE hilo'[u].nuevos[j] # bloque
    BY <2>1, <2>3, <1>3, <1>15, <1>19 DEF UnDuenio
  <2>4. CASE \E g \in Archivos : \E j \in Listados(g)' : bloque = metadata'[g].blocks[j]
    BY <2>4, <2>2, <1>2
  <2>5. CASE \E u \in Tripulantes : \E j \in Tomados(u)' : bloque = hilo'[u].nuevos[j]
    BY <2>5, <2>3
  <2> QED BY <2>4, <2>5, Enumerados
<1>23. BitmapExacto'
  BY <1>2, <1>20, <1>22 DEF IInv, Duenios, BitmapExacto
<1> QED BY <1>11, <1>13, <1>14, <1>21, <1>23 DEF IInv, Duenios

\* GuardarQuita: the list is cut to the places that were not given back.
LEMMA PasoGuardarQuita ==
  ASSUME IInv, NEW t \in Tripulantes, GuardarQuita(t)
  PROVE  IInv'
<1> DEFINE h == hilo[t]
<1>1. PICK f : f = h.archivo
  OBVIOUS
<1> DEFINE m == metadata[f]
<1> DEFINE red == BloquesReducidos(h.size_final)
<1>2. /\ h.pc = "quita" /\ h.i > h.leido.block_count /\ BorrarEnAnterior(h)
      /\ UNCHANGED <<bitmap, pedidos, reinicios, interrumpido>> /\ caido = "no"
  BY DEF GuardarQuita
<1>3. /\ h \in HiloQuita /\ t \in Atendiendo /\ f \in Recursos /\ f \in Archivos /\ h.leido = m
      /\ h.cantidad \in Nat /\ h.size_final \in Nat /\ h.i \in Nat /\ Quitando(h)
      /\ m \in Archivo /\ m.size \in Nat /\ m.blocks \in Seq(Bloques)
      /\ m.block_count = Len(m.blocks) /\ Len(m.blocks) = roundUp(m.size) /\ m.size = saldo[f]
  BY <1>1, <1>2, DatosAlmacen, Formas, DatosQuita
     DEF Atendiendo, Archivos, IInv, Leidos, Avances, CuentaVeraz, Cuentas
<1>4. caido' \in {"no", "lleno", "fuera"}
  BY <1>2 DEF BorrarEnAnterior
<1>5. DOMAIN blocks_copy' = Direcciones /\ Range(blocks_copy') \subseteq Archivos \cup {Azar, Vacio}
  <2>1. \/ blocks_copy' = blocks_copy
        \/ \E a, b, c : blocks_copy' = borrar_caracter_en_bloque(a, b, c)
    BY <1>2 DEF BorrarEnAnterior
  <2> QED BY <2>1, <1>3, Copia DEF IInv, TypeOK
<1>6. CASE caido' # "no"
  <2>1. UNCHANGED <<metadata, hilo, saldo>>
    BY <1>6 DEF GuardarQuita
  <2>2. TypeOK'
    BY <2>1, <1>2, <1>4, <1>5 DEF IInv, TypeOK
  <2>3. /\ hilo' \in [Tripulantes -> Hilo] /\ Exclusivos' /\ Leidos' /\ Avances'
        /\ CuentaVeraz' /\ Cuentas'
    BY <2>1 DEF IInv, Exclusivos, Leidos, Avances, Atendiendo, CuentaVeraz, Cuentas
  <2>4. \A g, j : Suelto(g, j)' <=> Suelto(g, j)
    BY <2>1 DEF Suelto
  <2>5. Duenios'
    BY <2>1, <2>4, <1>2, MismosBloques DEF IInv, Tomados
  <2> QED BY <2>2, <2>3, <2>5 DEF IInv
<1>7. CASE caido' = "no"
  <2>1. /\ metadata' = [metadata EXCEPT ![f] = Achicado(h)]
        /\ hilo' = [hilo EXCEPT ![t] = Libre] /\ Descontar(f, h.cantidad)
    BY <1>1, <1>7 DEF GuardarQuita
  <2>2. red \in Nat /\ red <= Len(m.blocks) /\ h.size_final = SizeFinal(m, h.cantidad)
    <3>1. h.size_final <= m.size
      BY <1>3, Quedan DEF Quitando
    <3> QED BY <3>1, <1>3, Redondeo DEF Quitando, BloquesReducidos
  <2>3. /\ SubSeq(m.blocks, 1, red) \in Seq(Bloques) /\ Len(SubSeq(m.blocks, 1, red)) = red
        /\ DOMAIN SubSeq(m.blocks, 1, red) = 1 .. red
        /\ \A j \in 1 .. red : SubSeq(m.blocks, 1, red)[j] = m.blocks[j]
    <3>1. m.blocks \in Seq(Bloques)
      BY <1>3
    <3> HIDE DEF m, red
    <3> QED BY <3>1, <2>2
  <2>4. Achicado(h) = [size |-> h.size_final, block_count |-> red, blocks |-> SubSeq(m.blocks, 1, red)]
    BY <1>3 DEF Achicado
  <2> HIDE DEF red
  <2>5. /\ Achicado(h) \in Archivo /\ Achicado(h).size = h.size_final
        /\ Achicado(h).block_count = red /\ Achicado(h).blocks = SubSeq(m.blocks, 1, red)
    BY <2>2, <2>3, <2>4, <1>3 DEF Archivo
  <2>6. /\ metadata'[f] = Achicado(h) /\ metadata' \in [Archivos -> Archivo]
        /\ \A g \in Archivos \ {f} : metadata'[g] = metadata[g]
    BY <2>1, <2>5, <1>3 DEF IInv, TypeOK
  <2>7. /\ hilo'[t] = Libre /\ Libre \in Hilo /\ Libre.pc = "libre"
        /\ \A u \in Tripulantes \ {t} : hilo'[u] = hilo[u]
    BY <2>1 DEF IInv, Hilo, Libre
  <2>8. \A u \in Atendiendo \ {t} : hilo[u].archivo # f
    BY <1>1, <1>3, Ajenos
  <2>9. /\ hilo' \in [Tripulantes -> Hilo] /\ Exclusivos' /\ Leidos' /\ Avances'
        /\ \A u \in Tripulantes :
             hilo'[u] = Libre \/ hilo'[u] \in HiloAgrega \/ hilo'[u] \in HiloQuita
    <3>1. \A u \in Atendiendo \ {t} : hilo[u].archivo \in Archivos
      BY DEF IInv, Exclusivos, Atendiendo, Archivos
    <3>2. \A u \in Atendiendo \ {t} : metadata'[hilo[u].archivo] = metadata[hilo[u].archivo]
      BY <3>1, <2>6, <2>8
    <3> QED BY <3>2, <2>1, <2>7, HiloEnOrden
  <2>10. saldo'[f] = h.size_final /\ \A g \in Archivos \ {f} : saldo'[g] = saldo[g]
    BY <2>1, <2>2, <1>3 DEF Descontar, SizeFinal, IInv, TypeOK
  <2>11. saldo' \in [Archivos -> Nat]
    BY <2>1, <2>10, <1>3 DEF Descontar, IInv, TypeOK
  <2>12. TypeOK'
    BY <2>6, <2>9, <2>11, <1>2, <1>4, <1>5 DEF IInv, TypeOK
  <2>13. CuentaVeraz' /\ Cuentas'
    BY <2>3, <2>5, <2>6, <2>10 DEF IInv, CuentaVeraz, Cuentas, red, BloquesReducidos
  <2>14. h.i = Len(m.blocks) + 1
    BY <1>2, <1>3 DEF Quitando
  <2>15. \A g, j : /\ Suelto(g, j)' <=> Suelto(g, j) /\ g # f
                   /\ Suelto(f, j) <=> j \in red + 1 .. Len(m.blocks)
    <3>1. h.i - 1 = Len(m.blocks)
      BY <2>14, <1>3
    <3>2. \A j : Suelto(f, j) <=> j \in red + 1 .. Len(m.blocks)
      BY <3>1, <2>8, <1>1, <1>2 DEF Suelto, red, Atendiendo
    <3>3. \A g, j : Suelto(g, j)' <=> Suelto(g, j) /\ g # f
      BY <2>7, <2>8, <1>1, <1>2 DEF Suelto, Atendiendo
    <3> QED BY <3>2, <3>3
  <2>16. \A g \in Archivos :
           /\ Listados(g)' = Listados(g)
           /\ \A j \in Listados(g) : metadata'[g].blocks[j] = metadata[g].blocks[j]
    <3>1. Listados(f) = 1 .. red
      <4>1. DOMAIN m.blocks = 1 .. Len(m.blocks)
        BY <1>3
      <4>2. \A j : j \in 1 .. Len(m.blocks) /\ j \notin red + 1 .. Len(m.blocks) <=> j \in 1 .. red
        BY <1>3, <2>2
      <4> QED BY <4>1, <4>2, <2>15 DEF Listados
    <3>2. Listados(f)' = 1 .. red
      BY <2>3, <2>5, <2>6, <2>15 DEF Listados
    <3>3. \A j \in Listados(f) : metadata'[f].blocks[j] = metadata[f].blocks[j]
      BY <3>1, <2>3, <2>5, <2>6
    <3>4. \A g \in Archivos \ {f} : Listados(g)' = Listados(g)
      BY <2>6, <2>15 DEF Listados
    <3> QED BY <3>1, <3>2, <3>3, <3>4, <2>6
  <2>17. \A u \in Tripulantes :
           /\ Tomados(u)' = Tomados(u)
           /\ \A j \in Tomados(u) : hilo'[u].nuevos[j] = hilo[u].nuevos[j]
    BY <2>7, <1>2 DEF Tomados
  <2>18. Duenios'
    BY <2>16, <2>17, <1>2, MismosLugares DEF IInv
  <2> QED BY <2>9, <2>12, <2>13, <2>18 DEF IInv
<1> QED BY <1>6, <1>7

\* Reiniciar: the threads forget what they took and, unless the restart cut a
\* removal, every place of the lists was still of its file.
LEMMA PasoReiniciar == ASSUME IInv, Reiniciar PROVE IInv'
<1>1. /\ reinicios < MaxReinicios /\ reinicios' = reinicios + 1
      /\ caido' = "no" /\ hilo' = [t \in Tripulantes |-> Libre]
      /\ blocks_copy' = [d \in Direcciones |-> Azar]
      /\ UNCHANGED <<bitmap, metadata, pedidos, saldo>>
  BY DEF Reiniciar
<1>2. /\ hilo' \in [Tripulantes -> Hilo] /\ \A t \in Tripulantes : hilo'[t] = Libre
      /\ Libre.pc = "libre"
  BY <1>1 DEF Hilo, Libre
<1>3. interrumpido' \in BOOLEAN
  BY DEF Reiniciar, IInv, TypeOK
<1>4. TypeOK'
  <2>1. DOMAIN blocks_copy' = Direcciones /\ Range(blocks_copy') \subseteq {Azar, Vacio}
    BY <1>1 DEF Range
  <2>2. reinicios' \in 0 .. MaxReinicios
    BY <1>1, AlmacenValido DEF IInv, TypeOK
  <2> QED BY <2>1, <2>2, <1>1, <1>2, <1>3 DEF IInv, TypeOK
<1>5. Exclusivos' /\ Leidos' /\ Avances'
  BY <1>2 DEF Exclusivos, Leidos, Avances, Atendiendo
<1>6. CuentaVeraz' /\ Cuentas'
  BY <1>1 DEF IInv, CuentaVeraz, Cuentas
<1>7. \A f, j : ~Suelto(f, j)'
  BY <1>2 DEF Suelto
<1>8. \A t \in Tripulantes : Tomados(t)' = {}
  BY <1>2 DEF Tomados
<1>9. ASSUME ~interrumpido'
      PROVE  ~interrumpido /\ \A f \in Archivos : Listados(f)' = Listados(f)
  <2>1. /\ ~interrumpido
        /\ \A t \in Tripulantes :
             ~(hilo[t].pc = "quita" /\ hilo[t].i > BloquesReducidos(hilo[t].size_final) + 1)
    BY <1>9 DEF Reiniciar
  <2>2. ASSUME NEW f, NEW j, Suelto(f, j) PROVE FALSE
    <3>1. PICK t \in Tripulantes :
            /\ hilo[t].pc = "quita"
            /\ j \in BloquesReducidos(hilo[t].size_final) + 1 .. hilo[t].i - 1
      BY <2>2 DEF Suelto
    <3>2. hilo[t].i \in Nat /\ BloquesReducidos(hilo[t].size_final) \in Nat
      BY <3>1, DatosAlmacen, Formas, DatosQuita, Redondeo DEF BloquesReducidos
    <3> QED BY <3>1, <3>2, <2>1
  <2> QED BY <2>1, <2>2, <1>1, <1>7 DEF Listados
<1>10. UnDuenio'
  BY <1>1, <1>8, <1>9 DEF IInv, Duenios, UnDuenio
<1>11. BitmapExacto'
  <2>1. ASSUME ~interrumpido' PROVE Asignados' \subseteq bitmap'
    <3>1. Asignados' \subseteq Asignados
      BY <1>1, <1>8, <1>9, <2>1, Enumerados
    <3> QED BY <3>1, <1>1, <1>9, <2>1 DEF IInv, Duenios, BitmapExacto
  <2>2. reinicios' # 0
    BY <1>1 DEF IInv, TypeOK
  <2> QED BY <2>1, <2>2 DEF BitmapExacto
<1> QED BY <1>2, <1>4, <1>5, <1>6, <1>10, <1>11 DEF IInv, Duenios

\* Every step keeps the invariant.
LEMMA Inductivo == ASSUME IInv, [Next]_vars PROVE IInv'
<1>1. ASSUME NEW t \in Tripulantes, escribir_mensaje_en_bitacora(t) PROVE IInv'
  <2>1. PICK largo \in Largos : Puede(t) /\ Abrir(t, t, largo)
    BY <1>1 DEF escribir_mensaje_en_bitacora
  <2>2. t \notin Recursos /\ largo \in Nat
    BY AlmacenValido
  <2> QED BY <2>1, <2>2, PasoAbrir
<1>2. ASSUME NEW t \in Tripulantes, sumar_caracteres(t) PROVE IInv'
  <2>1. PICK r \in Recursos, cantidad \in Sumas : Puede(t) /\ DispositivoLibre /\ Abrir(t, r, cantidad)
    BY <1>2 DEF sumar_caracteres
  <2>2. cantidad \in Nat
    BY AlmacenValido
  <2> QED BY <2>1, <2>2, PasoAbrir
<1>3. ASSUME NEW t \in Tripulantes, quitar_caracteres(t) PROVE IInv'
  <2>1. PICK r \in Recursos \ {Basura}, cantidad \in Quitas : \E size_final :
          /\ size_final = SizeFinal(metadata[r], cantidad)
          /\ IF metadata[r].block_count > BloquesReducidos(size_final)
               THEN /\ hilo' = [hilo EXCEPT ![t] = Quita(r, cantidad, size_final)]
                    /\ UNCHANGED <<metadata, saldo>>
               ELSE /\ metadata' = [metadata EXCEPT ![r].size = size_final]
                    /\ Descontar(r, cantidad)
                    /\ UNCHANGED hilo
    BY <1>3 DEF quitar_caracteres
  <2>2. PICK size_final :
          /\ size_final = SizeFinal(metadata[r], cantidad)
          /\ IF metadata[r].block_count > BloquesReducidos(size_final)
               THEN /\ hilo' = [hilo EXCEPT ![t] = Quita(r, cantidad, size_final)]
                    /\ UNCHANGED <<metadata, saldo>>
               ELSE /\ metadata' = [metadata EXCEPT ![r].size = size_final]
                    /\ Descontar(r, cantidad)
                    /\ UNCHANGED hilo
    BY <2>1
  <2>3. /\ Puede(t) /\ DispositivoLibre /\ pedidos' = pedidos + 1 /\ cantidad \in Nat
        /\ UNCHANGED <<bitmap, blocks_copy, caido, reinicios, interrumpido>>
    BY <1>3, AlmacenValido DEF quitar_caracteres
  <2>4. CASE metadata[r].block_count > BloquesReducidos(size_final)
    BY <2>2, <2>3, <2>4, PasoEmpezarQuita
  <2>5. CASE ~(metadata[r].block_count > BloquesReducidos(size_final))
    BY <2>2, <2>3, <2>5, PasoQuitarSinBloques
  <2> QED BY <2>4, <2>5
<1>4. ASSUME NEW t \in Tripulantes, tirar_basura(t) PROVE IInv'
  <2>1. /\ Puede(t) /\ DispositivoLibre /\ pedidos' = pedidos + 1
        /\ hilo' = [hilo EXCEPT ![t] = Quita(Basura, metadata[Basura].size, 0)]
        /\ UNCHANGED <<bitmap, metadata, blocks_copy, caido, reinicios, saldo, interrumpido>>
    BY <1>4 DEF tirar_basura
  <2>2. Basura \in Recursos /\ metadata[Basura].size \in Nat
    BY AlmacenValido, DatosAlmacen DEF Archivos
  <2>3. SizeFinal(metadata[Basura], metadata[Basura].size) = 0
    BY <2>2 DEF SizeFinal
  <2> QED BY <2>1, <2>2, <2>3, PasoEmpezarQuita
<1>5. CASE UNCHANGED vars
  <2> USE <1>5 DEF vars
  <2>1. TypeOK' /\ hilo' \in [Tripulantes -> Hilo]
    BY DEF IInv, TypeOK
  <2>2. Exclusivos' /\ Leidos' /\ Avances' /\ CuentaVeraz' /\ Cuentas'
    BY DEF IInv, Exclusivos, Leidos, Avances, Atendiendo, CuentaVeraz, Cuentas
  <2>3. \A f, j : Suelto(f, j)' <=> Suelto(f, j)
    BY DEF Suelto
  <2>4. Duenios'
    BY <2>3, MismosBloques DEF IInv, Tomados
  <2> QED BY <2>1, <2>2, <2>4 DEF IInv
<1> QED
  BY <1>1, <1>2, <1>3, <1>4, <1>5, PasoOcupar, PasoLleno, PasoGuardarAgregado, PasoSoltar,
     PasoGuardarQuita, PasoReiniciar DEF Next

-----------------------------------------------------------------------------
(* The theorems *)

\* The inductive invariant holds in every reachable state of the store.
THEOREM Invariante == Spec => []IInv
<1>1. Init => IInv
  BY Inicial
<1>2. IInv /\ [Next]_vars => IInv'
  BY Inductivo
<1> QED BY <1>1, <1>2, PTL DEF Spec

\* The sizes and the counters of the loops of blocks.c and bitacora.c are never
\* negative, whatever the tasks add and take away.
THEOREM TipoCorrecto == Spec => []TypeOK
<1>1. IInv => TypeOK
  BY DEF IInv
<1> QED BY <1>1, Invariante, PTL

\* A block belongs to one file, at one place of its list, until a restart in the
\* middle of a removal (proximo_bloque_libre and config_save, blocks.c).
THEOREM DuenioUnico == Spec => []UnDuenio
<1>1. IInv => UnDuenio
  BY DEF IInv, Duenios
<1> QED BY <1>1, Invariante, PTL

\* The bitmap of the superblock marks the blocks of the files, and no other until
\* the first restart.
THEOREM BitmapVeraz == Spec => []BitmapExacto
<1>1. IInv => BitmapExacto
  BY DEF IInv, Duenios
<1> QED BY <1>1, Invariante, PTL

\* The list of a saved file has the blocks that its SIZE needs, and BLOCK_COUNT is
\* its length.
THEOREM CuentasDeBloques == Spec => []CuentaVeraz
<1>1. IInv => CuentaVeraz
  BY DEF IInv
<1> QED BY <1>1, Invariante, PTL

\* SIZE of a resource is what the answered messages add up to, whatever the
\* messages of the logbooks are.
THEOREM RecursosContados == Spec => [](\A r \in Recursos : metadata[r].size = saldo[r])
<1>1. IInv => \A r \in Recursos : metadata[r].size = saldo[r]
  BY DEF IInv, Cuentas, Archivos
<1> QED BY <1>1, Invariante, PTL

\* So is SIZE of a logbook, when no message is shorter than a block: a shorter one
\* that fits in the last block is not saved (bitacora.c:183).
THEOREM ArchivosContados ==
  ASSUME LargosGrandes
  PROVE  Spec => []CaracteresContados
<1>1. IInv => CaracteresContados
  BY DEF IInv, Cuentas, CaracteresContados
<1> QED BY <1>1, Invariante, PTL

=============================================================================
