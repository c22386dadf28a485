------------------------------ MODULE Almacen ------------------------------
(***************************************************************************)
(* The files of the i-Mongo-Store: the bitmap of the superblock, the       *)
(* metadata of the resources and of the logbooks, the copy of the blocks   *)
(* in memory, and the thread of each trip (rutina_trip) that serves one    *)
(* message at a time (i-Mongo-Store/src: mongo.c, blocks.c, bitacora.c).   *)
(*                                                                         *)
(* The mutexes of the store cover one bit of the bitmap and one character  *)
(* of the copy.  Opening a file, taking or giving back one block with the  *)
(* characters written or erased in it, and saving the metadata are steps   *)
(* of their own, and other trips run between them.  A file that does not   *)
(* exist and an empty one are the same.  MD5_ARCHIVO, which nothing reads, *)
(* and the periodic copy to Blocks.ims are left out.                       *)
(***************************************************************************)
EXTENDS Integers, Sequences, FiniteSets, SequencesExt, Functions

CONSTANTS
  Tripulantes,      \* each one has its thread and its logbook
  Recursos, Basura, \* the resource files; Basura is the one thrown away whole
  BLOCK_SIZE, BLOCKS_AMOUNT,   \* imongostore.config
  Sumas, Quitas,    \* amounts that the tasks add and take away
  Largos,           \* lengths of the messages of a logbook
  MaxPedidos,       \* bound: messages of the trips
  MaxReinicios,     \* bound: restarts of the store
  Azar, Vacio       \* contents: an uninitialized byte, an erased one

ASSUME AlmacenValido ==
  /\ Basura \in Recursos /\ Recursos \cap Tripulantes = {}
  /\ {Azar, Vacio} \cap (Recursos \cup Tripulantes) = {}
  /\ BLOCK_SIZE \in Nat /\ BLOCK_SIZE > 8 /\ BLOCKS_AMOUNT \in Nat \ {0}
  /\ Sumas \subseteq Nat \ {0} /\ Quitas \subseteq Nat \ {0}
  /\ Largos \subseteq Nat \ {0}
  /\ MaxPedidos \in Nat /\ MaxReinicios \in Nat

VARIABLES
  bitmap,       \* the blocks whose bit is set
  metadata,     \* what the metadata file of each resource and logbook says
  blocks_copy,  \* whose character each address holds
  hilo,         \* the message each thread is serving, with its locals
  caido,        \* why the process died, or "no"
  pedidos, reinicios,
  saldo,        \* ghost: the characters of each file, from the answered messages
  interrumpido  \* ghost: a restart cut a removal that had given back blocks

vars == <<bitmap, metadata, blocks_copy, hilo, caido, pedidos, reinicios, saldo,
          interrumpido>>

Archivos == Recursos \cup Tripulantes
Bloques == 0 .. BLOCKS_AMOUNT - 1
Direcciones == 0 .. BLOCK_SIZE * BLOCKS_AMOUNT - 1

Menor(a, b) == IF a <= b THEN a ELSE b
roundUp(n) == (n + BLOCK_SIZE - 1) \div BLOCK_SIZE

ArchivoVacio == [size |-> 0, block_count |-> 0, blocks |-> <<>>]
Libre == [pc |-> "libre"]

Init ==
  /\ bitmap = {}
  /\ metadata = [f \in Archivos |-> ArchivoVacio]
  /\ blocks_copy = [d \in Direcciones |-> Azar]
  /\ hilo = [t \in Tripulantes |-> Libre]
  /\ caido = "no" /\ pedidos = 0 /\ reinicios = 0
  /\ saldo = [f \in Archivos |-> 0]
  /\ interrumpido = FALSE

-----------------------------------------------------------------------------
(* The characters of a block *)

\* escribir_caracter_en_bloque and escribir_caracter_en_bitacora: how many of
\* the characters left fit in a block from offset size % block_size on
Caben(resta, size) == Menor(resta, BLOCK_SIZE - (size % BLOCK_SIZE))

escribir_caracter_en_bloque(archivo, resta, bloque, size) ==
  LET desde == bloque * BLOCK_SIZE + (size % BLOCK_SIZE)
  IN  [d \in Direcciones |->
         IF d \in desde .. desde + Caben(resta, size) - 1
           THEN archivo ELSE blocks_copy[d]]

\* borrar_caracter_en_bloque starts at this offset and goes down to offset 1
PrimerBorrado(size) == IF size % BLOCK_SIZE = 0 THEN 8 ELSE size % BLOCK_SIZE
SeBorran(resta, size) == Menor(resta, PrimerBorrado(size))

borrar_caracter_en_bloque(resta, bloque, size) ==
  LET hasta == bloque * BLOCK_SIZE + PrimerBorrado(size)
  IN  [d \in Direcciones |->
         IF d \in hasta - SeBorran(resta, size) + 1 .. hasta
           THEN Vacio ELSE blocks_copy[d]]

-----------------------------------------------------------------------------
(* Adding characters to a file *)

\* a logbook keeps no BLOCK_COUNT: the code works it out from SIZE
CantidadBloques(archivo, leido) ==
  IF archivo \in Recursos THEN leido.block_count ELSE roundUp(leido.size)

Agregado(archivo, cantidad) ==
  LET leido == metadata[archivo]
      lugar == IF leido.size % BLOCK_SIZE = 0 THEN 0 ELSE Caben(cantidad, leido.size)
  IN  [pc |-> "agrega", archivo |-> archivo, leido |-> leido,
       cantidad |-> cantidad, resta |-> cantidad - lugar, nuevos |-> <<>>]

\* the metadata is read and the last block is filled
Abrir(t, archivo, cantidad) ==
  LET leido == metadata[archivo]
      ultimo == leido.blocks[CantidadBloques(archivo, leido)]
  IN  /\ hilo' = [hilo EXCEPT ![t] = Agregado(archivo, cantidad)]
      /\ blocks_copy' =
           IF leido.size % BLOCK_SIZE = 0 THEN blocks_copy
           ELSE escribir_caracter_en_bloque(archivo, cantidad, ultimo, leido.size)
      /\ pedidos' = pedidos + 1
      /\ UNCHANGED <<bitmap, metadata, caido, reinicios, saldo, interrumpido>>

Puede(t) == caido = "no" /\ hilo[t].pc = "libre" /\ pedidos < MaxPedidos

\* mutant: two trips use a resource at once
SinDispositivo == TRUE

\* Nothing in the store locks a resource.  Only the trip that has the single
\* i/o device of the discordiador sends a message about one, and it waits for
\* the answer before it lets the device go.
Atendiendo == {u \in Tripulantes : hilo[u].pc # "libre"}
DispositivoLibre == \A u \in Atendiendo : hilo[u].archivo \notin Recursos

\* actualizar_posicion, comienza_tarea, finaliza_tarea, inicio_ and fin_sabotaje
escribir_mensaje_en_bitacora(t) ==
  /\ Puede(t)
  /\ \E largo \in Largos : Abrir(t, t, largo)

sumar_caracteres(t) ==
  /\ Puede(t) /\ DispositivoLibre
  /\ \E r \in Recursos, cantidad \in Sumas : Abrir(t, r, cantidad)

Libres == Bloques \ bitmap

\* mutant: the bit of the block is not set
BitmapSinOcupar(bloque) == bitmap

BitmapCon(bloque) == bitmap \cup {bloque}

Faltantes(h) ==
  roundUp(h.leido.size + h.cantidad) - CantidadBloques(h.archivo, h.leido)

EsElPrimeroLibre(bloque) ==
  bloque \in Libres /\ \A b \in Libres : bloque <= b

\* one turn of the loop that adds blocks
proximo_bloque_libre(t) ==
  LET h == hilo[t]
      escrito == h.leido.size + h.cantidad - h.resta
  IN  /\ caido = "no" /\ h.pc = "agrega" /\ Len(h.nuevos) < Faltantes(h)
      /\ \E bloque \in Bloques :
           /\ EsElPrimeroLibre(bloque)
           /\ bitmap' = BitmapCon(bloque)
           /\ blocks_copy' =
                escribir_caracter_en_bloque(h.archivo, h.resta, bloque, escrito)
           /\ hilo' = [hilo EXCEPT ![t].nuevos = Append(@, bloque),
                                   ![t].resta = @ - Caben(@, escrito)]
      /\ UNCHANGED <<metadata, caido, pedidos, reinicios, saldo, interrumpido>>

\* no block is free: string_append is given NULL
AlmacenLleno(t) ==
  /\ caido = "no" /\ hilo[t].pc = "agrega"
  /\ Len(hilo[t].nuevos) < Faltantes(hilo[t])
  /\ Libres = {}
  /\ caido' = "lleno"
  /\ UNCHANGED <<bitmap, metadata, blocks_copy, hilo, pedidos, reinicios, saldo,
                 interrumpido>>

\* A logbook that needed no block is not saved (bitacora.c:183).
Agrandado(h) ==
  LET size_final == h.leido.size + h.cantidad
      bloques == h.leido.blocks \o h.nuevos
  IN  IF h.archivo \in Recursos
        THEN IF h.nuevos = <<>> THEN [h.leido EXCEPT !.size = size_final]
             ELSE [size |-> size_final, block_count |-> roundUp(size_final),
                   blocks |-> bloques]
        ELSE IF h.nuevos = <<>> THEN metadata[h.archivo]
             ELSE [size |-> size_final, block_count |-> 0, blocks |-> bloques]

\* config_save and the answer to the trip
GuardarAgregado(t) ==
  LET h == hilo[t]
  IN  /\ caido = "no" /\ h.pc = "agrega" /\ Len(h.nuevos) >= Faltantes(h)
      /\ metadata' = [metadata EXCEPT ![h.archivo] = Agrandado(h)]
      /\ saldo' = [saldo EXCEPT ![h.archivo] = @ + h.cantidad]
      /\ hilo' = [hilo EXCEPT ![t] = Libre]
      /\ UNCHANGED <<bitmap, blocks_copy, caido, pedidos, reinicios, interrumpido>>

-----------------------------------------------------------------------------
(* Taking characters away from a resource *)

\* mutant: more characters than there are may be taken away
SizeSinTope(leido, cantidad) == leido.size - cantidad

SizeFinal(leido, cantidad) ==
  IF leido.size < cantidad THEN 0 ELSE leido.size - cantidad

\* mutant: the block left half full is given back too
ReducidosHaciaAbajo(size_final) == size_final \div BLOCK_SIZE

BloquesReducidos(size_final) == roundUp(size_final)

Quita(archivo, cantidad, size_final) ==
  LET leido == metadata[archivo]
  IN  [pc |-> "quita", archivo |-> archivo, leido |-> leido, cantidad |-> cantidad,
       size_final |-> size_final, resta |-> leido.size - size_final,
       size |-> leido.size, i |-> BloquesReducidos(size_final) + 1]

\* the account of what the answered messages leave in a resource
Descontar(r, cantidad) ==
  saldo' = [saldo EXCEPT ![r] = IF @ < cantidad THEN 0 ELSE @ - cantidad]

\* no block is left over: only SIZE is saved, and nothing is erased
quitar_caracteres(t) ==
  /\ Puede(t) /\ DispositivoLibre
  /\ \E r \in Recursos \ {Basura}, cantidad \in Quitas :
       LET leido == metadata[r]
           size_final == SizeFinal(leido, cantidad)
       IN  IF leido.block_count > BloquesReducidos(size_final)
             THEN /\ hilo' = [hilo EXCEPT ![t] = Quita(r, cantidad, size_final)]
                  /\ UNCHANGED <<metadata, saldo>>
             ELSE /\ metadata' = [metadata EXCEPT ![r].size = size_final]
                  /\ Descontar(r, cantidad)
                  /\ UNCHANGED hilo
  /\ pedidos' = pedidos + 1
  /\ UNCHANGED <<bitmap, blocks_copy, caido, reinicios, interrumpido>>

\* The rubbish is thrown away whole, whatever amount the message says.
tirar_basura(t) ==
  /\ Puede(t) /\ DispositivoLibre
  /\ hilo' = [hilo EXCEPT ![t] = Quita(Basura, metadata[Basura].size, 0)]
  /\ pedidos' = pedidos + 1
  /\ UNCHANGED <<bitmap, metadata, blocks_copy, caido, reinicios, saldo, interrumpido>>

\* mutant: the bit of the block given back stays set
BitmapSinSoltar(bloque) == bitmap

BitmapSin(bloque) == bitmap \ {bloque}

\* one turn of the loop that gives blocks back, from the first one left over
SoltarBloque(t) ==
  LET h == hilo[t]
      bloque == h.leido.blocks[h.i]
  IN  /\ caido = "no" /\ h.pc = "quita" /\ h.i <= h.leido.block_count
      /\ blocks_copy' = borrar_caracter_en_bloque(h.resta, bloque, h.size)
      /\ bitmap' = BitmapSin(bloque)
      /\ hilo' = [hilo EXCEPT ![t].i = @ + 1,
                              ![t].resta = @ - SeBorran(@, h.size),
                              ![t].size = @ - SeBorran(h.resta, h.size)]
      /\ UNCHANGED <<metadata, caido, pedidos, reinicios, saldo, interrumpido>>

\* The characters that are left are erased in the block numbered one less
\* than the last one given back, whosever it is.  Before block 0 there is the
\* memory that precedes the copy, and the process may die.
BorrarEnAnterior(h) ==
  LET anterior == Last(h.leido.blocks) - 1
      size == IF h.archivo = Basura THEN h.leido.size ELSE h.size
  IN  IF h.resta = 0 THEN blocks_copy' = blocks_copy /\ caido' = caido
      ELSE /\ blocks_copy' = borrar_caracter_en_bloque(h.resta, anterior, size)
           /\ IF anterior < 0 THEN caido' \in {caido, "fuera"} ELSE caido' = caido

Achicado(h) ==
  LET reducidos == BloquesReducidos(h.size_final)
  IN  [size |-> h.size_final, block_count |-> reducidos,
       blocks |-> SubSeq(h.leido.blocks, 1, reducidos)]

\* config_save, or remove for the rubbish, and the answer
GuardarQuita(t) ==
  LET h == hilo[t]
  IN  /\ caido = "no" /\ h.pc = "quita" /\ h.i > h.leido.block_count
      /\ BorrarEnAnterior(h)
      /\ IF caido' = "no"
           THEN /\ metadata' = [metadata EXCEPT ![h.archivo] = Achicado(h)]
                /\ hilo' = [hilo EXCEPT ![t] = Libre]
                /\ Descontar(h.archivo, h.cantidad)
           ELSE UNCHANGED <<metadata, hilo, saldo>>
      /\ UNCHANGED <<bitmap, pedidos, reinicios, interrumpido>>

-----------------------------------------------------------------------------
\* The process ends, at any moment, and starts again on the same mount point:
\* the bitmap and the metadata are the ones of the files, and uso_blocks
\* allocates a copy that it does not fill.
Reiniciar ==
  /\ reinicios < MaxReinicios
  /\ reinicios' = reinicios + 1
  /\ caido' = "no"
  /\ hilo' = [t \in Tripulantes |-> Libre]
  /\ blocks_copy' = [d \in Direcciones |-> Azar]
  /\ interrumpido' =
       (interrumpido \/ \E t \in Tripulantes :
          hilo[t].pc = "quita" /\ hilo[t].i > BloquesReducidos(hilo[t].size_final) + 1)
  /\ UNCHANGED <<bitmap, metadata, pedidos, saldo>>

Next ==
  \/ \E t \in Tripulantes :
       \/ escribir_mensaje_en_bitacora(t)
       \/ sumar_caracteres(t)
       \/ quitar_caracteres(t)
       \/ tirar_basura(t)
       \/ proximo_bloque_libre(t)
       \/ AlmacenLleno(t)
       \/ GuardarAgregado(t)
       \/ SoltarBloque(t)
       \/ GuardarQuita(t)
  \/ Reiniciar

Spec == Init /\ [][Next]_vars

-----------------------------------------------------------------------------
(* Properties *)

Archivo == [size : Nat, block_count : Nat, blocks : Seq(Bloques)]
HiloAgrega ==
  [pc : {"agrega"}, archivo : Archivos, leido : Archivo, cantidad : Nat, resta : Nat,
   nuevos : Seq(Bloques)]
HiloQuita ==
  [pc : {"quita"}, archivo : Recursos, leido : Archivo, cantidad : Nat,
   size_final : Nat, resta : Nat, size : Nat, i : Nat]

\* The sizes and the counters of the loops of blocks.c never become negative.
TypeOK ==
  /\ bitmap \subseteq Bloques
  /\ metadata \in [Archivos -> Archivo]
  /\ DOMAIN blocks_copy = Direcciones
  /\ Range(blocks_copy) \subseteq Archivos \cup {Azar, Vacio}
  /\ \A t \in Tripulantes :
       hilo[t] = Libre \/ hilo[t] \in HiloAgrega \/ hilo[t] \in HiloQuita
  /\ caido \in {"no", "lleno", "fuera"}
  /\ pedidos \in 0 .. MaxPedidos /\ reinicios \in 0 .. MaxReinicios
  /\ saldo \in [Archivos -> Nat] /\ interrumpido \in BOOLEAN

\* The blocks of a file: the places of its list that a removal under way has
\* not given back yet, and the blocks that its trip is adding.
Suelto(f, i) ==
  \E t \in Tripulantes :
    /\ hilo[t].pc = "quita" /\ hilo[t].archivo = f
    /\ i \in BloquesReducidos(hilo[t].size_final) + 1 .. hilo[t].i - 1
Listados(f) == {i \in DOMAIN metadata[f].blocks : ~Suelto(f, i)}
Tomados(t) == IF hilo[t].pc = "agrega" THEN DOMAIN hilo[t].nuevos ELSE {}
Asignados ==
  (UNION {{metadata[f].blocks[i] : i \in Listados(f)} : f \in Archivos})
    \cup (UNION {{hilo[t].nuevos[i] : i \in Tomados(t)} : t \in Tripulantes})

\* A block belongs to one file, at one place of its list, while the threads
\* take blocks and give them back between the reading and the saving of the
\* metadata.  A restart in the middle of a removal breaks this
\* (blocks.c:324 clears the bit, blocks.c:349 saves the list).
UnDuenio ==
  ~interrumpido =>
    /\ \A f, g \in Archivos : \A i \in Listados(f), j \in Listados(g) :
         <<f, i>> # <<g, j>> => metadata[f].blocks[i] # metadata[g].blocks[j]
    /\ \A t, u \in Tripulantes : \A i \in Tomados(t), j \in Tomados(u) :
         <<t, i>> # <<u, j>> => hilo[t].nuevos[i] # hilo[u].nuevos[j]
    /\ \A f \in Archivos, t \in Tripulantes :
       \A i \in Listados(f), j \in Tomados(t) :
         metadata[f].blocks[i] # hilo[t].nuevos[j]

\* The bitmap marks the blocks of the files and, until the first restart,
\* no other: it is what arreglar_Bitmap (sabotajes.c) would work out.
BitmapExacto ==
  /\ ~interrumpido => Asignados \subseteq bitmap
  /\ reinicios = 0 => bitmap \subseteq Asignados

\* The list of a saved file has the blocks that its SIZE needs, and
\* BLOCK_COUNT is its length: sumar_caracteres, quitar_caracteres and
\* obtener_bitacora index the list by one or the other (cf.
\* arreglar_blockcount_recursos, sabotajes.c).
CuentaVeraz ==
  \A f \in Archivos :
    LET m == metadata[f]
    IN  /\ Len(m.blocks) = roundUp(m.size)
        /\ f \in Recursos => m.block_count = Len(m.blocks)

\* SIZE is what the messages answered so far add up to, in every file: no
\* message is lost between the reading and the saving of the metadata, by
\* another thread or by a restart.
CaracteresContados == \A f \in Archivos : metadata[f].size = saldo[f]

\* A logbook that its trip is not writing holds, in its first SIZE
\* characters, what the trip wrote: the removals from the resources
\* (borrar_caracter_en_bloque) do not reach it.
BitacoraIntacta ==
  reinicios = 0 =>
    \A t \in Tripulantes :
      LET m == metadata[t]
      IN  \A i \in DOMAIN m.blocks : \A k \in 0 .. BLOCK_SIZE - 1 :
            (i - 1) * BLOCK_SIZE + k < m.size =>
              blocks_copy[m.blocks[i] * BLOCK_SIZE + k] = t
=============================================================================
