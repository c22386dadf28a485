---------------------------- MODULE SegmentosRam ----------------------------
(***************************************************************************)
(* The memory of the RAM process with ESQUEMA_MEMORIA=SEGMENTACION: the    *)
(* list of segments, the elements of each patota (its control block, its   *)
(* tasks, its trips) and where each one is, and the messages of the main   *)
(* loop that change them (mi-Ram-HQ/src: segmentos.c, patota.c,            *)
(* tripulante.c, miramhq.c).                                               *)
(*                                                                         *)
(* The main loop answers one message at a time, so a message is a step;    *)
(* the compaction that SIGUSR2 asks for is a step between two of them.     *)
(* Of the bytes of a segment the model keeps the pointer to another        *)
(* segment, which moves with it.                                           *)
(***************************************************************************)
EXTENDS Naturals, Sequences, SequencesExt, Functions

CONSTANTS
  TAMANIO_MEMORIA, TAMANIO_PATOTA, TAMANIO_TRIPULANTE,   \* bytes
  TamaniosTareas,     \* bytes that the tasks of a patota may take
  MaxPatotas,         \* bound: patotas accepted
  MaxTripulantes      \* bound: trips of a patota

ASSUME MemoriaValida ==
  /\ TAMANIO_MEMORIA \in Nat \ {0}
  /\ TAMANIO_PATOTA \in Nat \ {0} /\ TAMANIO_TRIPULANTE \in Nat \ {0}
  /\ TamaniosTareas \subseteq Nat \ {0}
  /\ MaxPatotas \in Nat /\ MaxTripulantes \in Nat \ {0}

VARIABLES
  criterio_seleccion,   \* of the configuration file, never changed
  mapa,          \* memoria_ram.mapa_segmentos
  elementos,     \* elementos[p][k]: inicio_elementos[k] of patota p
  tripulantes,   \* lista_tripulantes: the inicio of each live <<PID, TID>>
  nro_tripulante,
  faltan,        \* INIT_T that the discordiador has still to send
  caido          \* why the process died, or "no"

memoria == [mapa |-> mapa, elementos |-> elementos, tripulantes |-> tripulantes]
vars == <<criterio_seleccion, mapa, elementos, tripulantes, nro_tripulante, faltan, caido>>

PCB == 0       \* index of an element in its patota: the control block
TAREAS == 1    \* and the tasks; trip t has index t + 1

Segmento(n, inicio, tamanio, duenio, indice) ==
  [n_segmento |-> n, inicio |-> inicio, tamanio |-> tamanio, duenio |-> duenio,
   indice |-> indice, puntero |-> 0]
SegmentoLibre(n, inicio, tamanio) == Segmento(n, inicio, tamanio, 0, 0)
EsLibre(s) == s.duenio = 0
Ocupado(s) == s.duenio # 0

\* the table f with one more entry
Agregado(f, x, valor) == [y \in DOMAIN f \cup {x} |-> IF y = x THEN valor ELSE f[y]]

\* the bytes of the segments at some places of the list
SumaTamanios(segmentos, indices) ==
  LET suma[i \in 0 .. Len(segmentos)] ==
        IF i = 0 THEN 0
        ELSE suma[i - 1] + (IF i \in indices THEN segmentos[i].tamanio ELSE 0)
  IN suma[Len(segmentos)]

Init ==
  /\ criterio_seleccion \in {"FIRST_FIT", "BEST_FIT"}
  /\ mapa = <<SegmentoLibre(0, 0, TAMANIO_MEMORIA)>>
  /\ elementos = <<>> /\ tripulantes = <<>>
  /\ nro_tripulante = 1 /\ faltan = 0
  /\ caido = "no"

-----------------------------------------------------------------------------
(* Compaction: every segment after a free one slides to the left. *)

Anteriores(segmentos, i) == {j \in 1 .. i - 1 : EsLibre(segmentos[j])}
Corrimiento(segmentos, i) == SumaTamanios(segmentos, Anteriores(segmentos, i))

\* mutant: the renumbering is left out
RenumerarNada(segmentos, i) == segmentos[i].n_segmento

Renumerar(segmentos, i) ==
  segmentos[i].n_segmento - Cardinality(Anteriores(segmentos, i))

Movidos(segmentos) ==
  {i \in DOMAIN segmentos : Ocupado(segmentos[i]) /\ Corrimiento(segmentos, i) > 0}

\* where the elements that move are after the compaction
Mudanza(segmentos) ==
  {[duenio |-> segmentos[i].duenio, indice |-> segmentos[i].indice,
    inicio |-> segmentos[i].inicio - Corrimiento(segmentos, i)] : i \in Movidos(segmentos)}

\* where the element k of patota p, which was at antes, is
Donde(mudanza, p, k, antes) ==
  LET suyos == {e.inicio : e \in {e \in mudanza : e.duenio = p /\ e.indice = k}}
  IN IF suyos = {} THEN antes ELSE Min(suyos)

\* mutant: inicio_elementos is not updated
MoverElementosNada(elems, mudanza) == elems

MoverElementos(elems, mudanza) ==
  [p \in DOMAIN elems |->
     [k \in DOMAIN elems[p] |-> Donde(mudanza, p, k, elems[p][k])]]

\* mutant: the trips of a patota are not told where its control block went
MoverPunteroSoloTareas(mudanza, s) ==
  IF s.indice = PCB THEN Donde(mudanza, s.duenio, TAREAS, s.puntero) ELSE s.puntero

\* a control block points at its tasks, and a trip at its control block
MoverPuntero(mudanza, s) ==
  CASE s.indice = PCB -> Donde(mudanza, s.duenio, TAREAS, s.puntero)
    [] s.indice = TAREAS -> s.puntero
    [] OTHER -> Donde(mudanza, s.duenio, PCB, s.puntero)

Deslizar(segmentos, mudanza, i) ==
  LET s == [segmentos[i] EXCEPT !.puntero = MoverPuntero(mudanza, segmentos[i])]
  IN IF Corrimiento(segmentos, i) > 0
     THEN [s EXCEPT !.n_segmento = Renumerar(segmentos, i),
                    !.inicio = @ - Corrimiento(segmentos, i)]
     ELSE s

\* the list without the free segments
Deslizados(segmentos, mudanza) ==
  LET lista[i \in 0 .. Len(segmentos)] ==
        IF i = 0 THEN <<>>
        ELSE IF EsLibre(segmentos[i]) THEN lista[i - 1]
        ELSE Append(lista[i - 1], Deslizar(segmentos, mudanza, i))
  IN lista[Len(segmentos)]

\* the final free segment is added even when it is empty
realizar_compactacion(m) ==
  LET mudanza == Mudanza(m.mapa)
      ocupados == Deslizados(m.mapa, mudanza)
      total == SumaTamanios(ocupados, DOMAIN ocupados)
  IN [mapa |-> Append(ocupados, SegmentoLibre(Len(ocupados), total, TAMANIO_MEMORIA - total)),
      elementos |-> MoverElementos(m.elementos, mudanza),
      tripulantes |-> [t \in DOMAIN m.tripulantes |->
                         Donde(mudanza, t[1], t[2] + 1, m.tripulantes[t])]]

-----------------------------------------------------------------------------
(* Creating and freeing a segment *)

Aptos(segmentos, tamanio) ==
  {i \in DOMAIN segmentos : EsLibre(segmentos[i]) /\ segmentos[i].tamanio >= tamanio}

\* if no free segment is large enough, compact
ConLugar(m, tamanio) ==
  IF Aptos(m.mapa, tamanio) = {} THEN realizar_compactacion(m) ELSE m

\* first fit, or best fit, the last of the smallest
Elegido(segmentos, tamanio) ==
  LET aptos == Aptos(segmentos, tamanio)
      menores == {i \in aptos : \A j \in aptos : segmentos[i].tamanio <= segmentos[j].tamanio}
  IN IF criterio_seleccion = "FIRST_FIT" THEN Min(aptos) ELSE Max(menores)

\* the new segment goes where the chosen one was, which shrinks and moves on,
\* or goes away if nothing is left of it
Insertar(segmentos, tamanio, duenio, indice) ==
  LET elegido == segmentos[Elegido(segmentos, tamanio)]
      n == elegido.n_segmento + 1
      con == InsertAt(segmentos, n, Segmento(elegido.n_segmento, elegido.inicio, tamanio,
                                             duenio, indice))
      siguiente == con[n + 1]
      resto == SubSeq(con, n + 2, Len(con))
  IN SubSeq(con, 1, n) \o
     IF siguiente.tamanio = tamanio THEN resto
     ELSE <<[siguiente EXCEPT !.n_segmento = @ + 1, !.inicio = @ + tamanio,
                              !.tamanio = @ - tamanio]>>
          \o [i \in DOMAIN resto |-> [resto[i] EXCEPT !.n_segmento = @ + 1]]

\* crear_segmento, and the caller's duenio and indice
crear_segmento(m, tamanio, duenio, indice) ==
  LET c == ConLugar(m, tamanio)
  IN [c EXCEPT !.mapa = Insertar(@, tamanio, duenio, indice)]

\* the segment after i joins it, and the ones that follow are renumbered
Absorber(segmentos, i) ==
  LET con == RemoveAt(segmentos, segmentos[i + 1].n_segmento + 1)
  IN [j \in DOMAIN con |->
        CASE j < i -> con[j]
          [] j = i -> [con[j] EXCEPT !.tamanio = @ + segmentos[i + 1].tamanio]
          [] OTHER -> [con[j] EXCEPT !.n_segmento = @ - 1]]

Liberar(segmentos, i) ==
  [segmentos EXCEPT ![i] = SegmentoLibre(@.n_segmento, @.inicio, @.tamanio)]

ConSiguiente(segmentos, i) ==
  IF i < Len(segmentos) /\ EsLibre(segmentos[i + 1]) THEN Absorber(segmentos, i) ELSE segmentos

AnteriorLibre(segmentos, i) == i > 1 /\ EsLibre(segmentos[i - 1])

\* eliminar_segmento of the segment at i
eliminar_segmento(segmentos, i) ==
  LET s == ConSiguiente(Liberar(segmentos, i), i)
  IN IF AnteriorLibre(segmentos, i) THEN Absorber(s, i - 1) ELSE s

\* when the merged segment is the last one, the loop that renumbers what follows
\* the previous one starts from a null link
EliminarCae(segmentos, i) ==
  AnteriorLibre(segmentos, i) /\ Len(ConSiguiente(Liberar(segmentos, i), i)) = i

\* segmento_desde_inicio and nro_segmento_desde_inicio: the first at that place
DesdeInicio(segmentos, inicio) ==
  Min({i \in DOMAIN segmentos : segmentos[i].inicio = inicio})

\* a uint32 of the segment at inicio, the pointer it holds, takes a value
Apuntar(segmentos, inicio, valor) ==
  [segmentos EXCEPT ![DesdeInicio(segmentos, inicio)].puntero = valor]

InicioDe(segmentos, duenio, indice) ==
  segmentos[Min({i \in DOMAIN segmentos :
                   segmentos[i].duenio = duenio /\ segmentos[i].indice = indice})].inicio

\* memoria_libre_segmentacion
MemoriaLibre == SumaTamanios(mapa, {i \in DOMAIN mapa : EsLibre(mapa[i])})

-----------------------------------------------------------------------------
(* The messages of the main loop *)

Queda(m) == mapa' = m.mapa /\ elementos' = m.elementos /\ tripulantes' = m.tripulantes

\* after the compaction no free segment is large enough: list_get answers NULL
SinLugar(m, tamanio) == Aptos(ConLugar(m, tamanio).mapa, tamanio) = {}

\* mutant: the trips are not counted
CabeSinTripulantes(n, tareas) == TAMANIO_PATOTA + tareas <= MemoriaLibre

Cabe(n, tareas) ==
  TAMANIO_PATOTA + tareas + n * TAMANIO_TRIPULANTE <= MemoriaLibre

\* NO_SPC
RechazarPatota(n, tareas) ==
  /\ ~Cabe(n, tareas)
  /\ UNCHANGED <<mapa, elementos, tripulantes, faltan, caido>>

\* iniciar_patota: the control block, then the tasks.  The second one may move
\* the first.
AceptarPatota(n, tareas) ==
  LET p == Len(elementos) + 1
      nueva == [memoria EXCEPT !.elementos = Append(@, [k \in 0 .. n + 1 |-> 0])]
      pcb == crear_segmento(nueva, TAMANIO_PATOTA, p, PCB)
      conPcb == [pcb EXCEPT !.elementos[p][PCB] = InicioDe(pcb.mapa, p, PCB)]
      todo == crear_segmento(conPcb, tareas, p, TAREAS)
      inicioPcb == InicioDe(todo.mapa, p, PCB)
      inicioTareas == InicioDe(todo.mapa, p, TAREAS)
  IN /\ Cabe(n, tareas)
     /\ faltan' = n
     /\ IF SinLugar(nueva, TAMANIO_PATOTA) \/ SinLugar(conPcb, tareas)
        THEN caido' = "sin_lugar" /\ UNCHANGED <<mapa, elementos, tripulantes>>
        ELSE /\ Queda([todo EXCEPT !.elementos[p][PCB] = inicioPcb,
                                   !.elementos[p][TAREAS] = inicioTareas,
                                   !.mapa = Apuntar(@, inicioPcb, inicioTareas)])
             /\ UNCHANGED caido

INIT_P(n, tareas) ==
  /\ faltan = 0 /\ Len(elementos) < MaxPatotas
  /\ nro_tripulante' = 1
  /\ RechazarPatota(n, tareas) \/ AceptarPatota(n, tareas)

\* iniciar_tripulante, for the last patota.  The bytes of the segment, with its
\* pointer, are written later, by the accesses of HilosRam.
INIT_T ==
  LET p == Len(elementos)
      t == nro_tripulante
      m == crear_segmento(memoria, TAMANIO_TRIPULANTE, p, t + 1)
      inicio == InicioDe(m.mapa, p, t + 1)
  IN /\ faltan > 0
     /\ faltan' = faltan - 1
     /\ nro_tripulante' = t + 1
     /\ IF SinLugar(memoria, TAMANIO_TRIPULANTE)
        THEN caido' = "sin_lugar" /\ UNCHANGED <<mapa, elementos, tripulantes>>
        ELSE /\ Queda([m EXCEPT !.elementos[p][t + 1] = inicio,
                                !.tripulantes = Agregado(@, <<p, t>>, inicio)])
             /\ UNCHANGED caido

\* eliminar_tripulante of a trip that is in lista_tripulantes; for any other it
\* does nothing
ELIM_T(p, t) ==
  LET i == DesdeInicio(mapa, elementos[p][t + 1])
  IN /\ faltan = 0
     /\ IF EliminarCae(mapa, i)
        THEN caido' = "iterador" /\ UNCHANGED <<mapa, tripulantes>>
        ELSE /\ mapa' = eliminar_segmento(mapa, i)
             /\ tripulantes' = Restrict(tripulantes, DOMAIN tripulantes \ {<<p, t>>})
             /\ UNCHANGED caido
     /\ UNCHANGED <<elementos, nro_tripulante, faltan>>

\* SIGUSR2
signal_compactacion ==
  /\ Queda(realizar_compactacion(memoria))
  /\ UNCHANGED <<nro_tripulante, faltan, caido>>

Next ==
  /\ caido = "no"
  /\ UNCHANGED criterio_seleccion
  /\ \/ \E n \in 1 .. MaxTripulantes, tareas \in TamaniosTareas : INIT_P(n, tareas)
     \/ INIT_T
     \/ \E trip \in DOMAIN tripulantes : ELIM_T(trip[1], trip[2])
     \/ signal_compactacion

Spec == Init /\ [][Next]_vars

-----------------------------------------------------------------------------
(* Properties *)

Direcciones == 0 .. TAMANIO_MEMORIA
Indices == 0 .. MaxTripulantes + 1

\* No size or number goes below zero, where a uint32 wraps.
MemoriaTipada ==
  /\ \A i \in DOMAIN mapa :
       mapa[i] \in [n_segmento : Nat, inicio : Direcciones, tamanio : Direcciones,
                   duenio : 0 .. Len(elementos), indice : Indices, puntero : Direcciones]
  /\ Len(elementos) <= MaxPatotas
  /\ \A p \in DOMAIN elementos : \A k \in DOMAIN elementos[p] : elementos[p][k] \in Direcciones
  /\ DOMAIN tripulantes \subseteq (DOMAIN elementos) \X (1 .. MaxTripulantes)
  /\ faltan \in 0 .. MaxTripulantes

\* The segments tile the memory, from its first byte to its last, each one knows
\* its place in the list, and no border that two frees left behind splits the free
\* memory, after any splits, merges and compactions: list_add_in_index,
\* list_remove, the dumps and the search for a place rely on it.
Teselado ==
  \A i \in 1 .. Len(mapa) :
    /\ mapa[i].n_segmento = i - 1
    /\ mapa[i].inicio = SumaTamanios(mapa, 1 .. i - 1)
    /\ IF i = Len(mapa) THEN mapa[i].inicio + mapa[i].tamanio = TAMANIO_MEMORIA
       ELSE ~(EsLibre(mapa[i]) /\ EsLibre(mapa[i + 1]))

Vive(p, k) == k \in {PCB, TAREAS} \/ <<p, k - 1>> \in DOMAIN tripulantes

SegmentosDe(p, k) == {i \in DOMAIN mapa : mapa[i].duenio = p /\ mapa[i].indice = k}

\* Each live element has one segment, at the address that inicio_elementos and
\* lista_tripulantes give for it, and no segment belongs to anything else: the
\* threads of the trips read and write through those addresses.
ElementosUbicados ==
  /\ \A p \in DOMAIN elementos : \A k \in DOMAIN elementos[p] :
       IF Vive(p, k)
       THEN \E i \in DOMAIN mapa :
              SegmentosDe(p, k) = {i} /\ mapa[i].inicio = elementos[p][k]
       ELSE SegmentosDe(p, k) = {}
  /\ \A t \in DOMAIN tripulantes : tripulantes[t] = elementos[t[1]][t[2] + 1]

\* An expulsion that the discordiador asks for is carried out: "El tripulante %d
\* de la patota %d ha sido expulsado" (discordiador.c:315) follows the answer.
ExpulsionResponde == caido # "iterador"

Ocupados == {i \in DOMAIN mapa : Ocupado(mapa[i])}

\* the element that segment i holds
ElementoDe(i) == <<mapa[i].duenio, mapa[i].indice>>

Asignador == INSTANCE AsignadorRam WITH
  libre <- MemoriaLibre,
  vivos <- [e \in {ElementoDe(i) : i \in Ocupados} |->
              mapa[CHOOSE i \in Ocupados : ElementoDe(i) = e].tamanio]

\* The lists of segments implement the allocator: a patota is accepted exactly
\* when its bytes are free, wherever they are, each element keeps its bytes until
\* it is freed, and splitting, merging and compacting change nothing.
ImplementaAsignador == Asignador!ASpec
=============================================================================
