------------------------------ MODULE HilosRam ------------------------------
(***************************************************************************)
(* The segmented memory while the threads of the trips use it              *)
(* (mi-Ram-HQ/src: hilos.c, tripulante.c, segmentos.c).  SegmentosRam      *)
(* takes each message of the main loop as a step; here the accesses to the *)
(* memory that the messages of the trips make, and the ones with which     *)
(* INIT_T fills a new trip, are steps between those.                       *)
(*                                                                         *)
(* An access reads the address of the trip in inicio_elementos, walks the  *)
(* list for the segment that starts there, takes its mutex and copies.     *)
(* mutex_lista_segmentos lets one thread walk at a time, but what edits    *)
(* the list does not take it: links may be freed under a walk.  The        *)
(* compaction waits for the mutex of every segment, so it comes between    *)
(* two of those steps, or during the walk, and never during the copy.      *)
(* What the main loop reads of each trip for the log after a message is    *)
(* left out: it is done before the next message, and writes nothing.       *)
(***************************************************************************)
EXTENDS SegmentosRam

CONSTANT MaxMensajes    \* bound: messages that the trips send
ASSUME MensajesValidos == MaxMensajes \in Nat

VARIABLES
  hilos,      \* what each trip's thread does, from INIT_T until it is joined
  mensajes    \* messages received from the trips
varsHilos == <<vars, hilos, mensajes>>

\* quien: INIT_T's own accesses are the main loop's, before the thread exists
\* accesos: the ones that remain, to the trip's bytes or to the patota's tasks
\* pcb: inicio_pcb, read when the segment of the trip was created and stored in
\*   it by the last access of INIT_T
\* hallados: what a walk of the list may end in, from where it stands
\* movida: auxiliary, a compaction moved something since inicio was read
\* corrido: auxiliary, one moved the control block while INIT_T filled the trip
Hilo(accesos, pcb) ==
  [quien |-> "principal", accesos |-> accesos, paso |-> "quieto", inicio |-> 0, pcb |-> pcb,
   hallados |-> {}, movida |-> FALSE, corrido |-> FALSE]

NEXT_T == {<<"tcb">>, <<"tcb", "tareas", "tcb">>}   \* past the last task, or not
ACTU_P == {<<"tcb", "tcb">>}
ACTU_E == {<<"tcb">>}
Llenado == [i \in 1 .. 6 |-> "tcb"]   \* of iniciar_tripulante

InitHilos == Init /\ hilos = <<>> /\ mensajes = 0

\* mutant: the first element is taken for the first trip
IndiceSinTareas(h) == IF Head(hilos[h].accesos) = "tareas" THEN TAREAS ELSE h[2]

Indice(h) == IF Head(hilos[h].accesos) = "tareas" THEN TAREAS ELSE h[2] + 1
Expulsado(h) == h \notin DOMAIN tripulantes
Copian == {h \in DOMAIN hilos : hilos[h].paso = "copia"}

\* the main loop waits for a message
PrincipalLibre ==
  \A h \in DOMAIN hilos : hilos[h].quien = "hilo" /\ ~Expulsado(h)

-----------------------------------------------------------------------------
(* The accesses *)

EnPaso(h, paso) == h \in DOMAIN hilos /\ hilos[h].paso = paso
Pasar(h, paso) == hilos' = [hilos EXCEPT ![h].paso = paso] /\ UNCHANGED caido
Caer(causa) == caido' = causa /\ UNCHANGED hilos

rutina_hilos(h) ==
  /\ EnPaso(h, "quieto") /\ hilos[h].accesos = <<>>
  /\ mensajes < MaxMensajes /\ mensajes' = mensajes + 1
  /\ \E accesos \in NEXT_T \cup ACTU_P \cup ACTU_E :
       hilos' = [hilos EXCEPT ![h].accesos = accesos]
  /\ UNCHANGED caido

LeerDireccion(h) ==
  /\ EnPaso(h, "quieto") /\ hilos[h].accesos # <<>>
  /\ hilos' = [hilos EXCEPT
       ![h].inicio = elementos[h[1]][Indice(h)],
       ![h].paso = IF Head(hilos[h].accesos) = "tareas" THEN "tareas" ELSE "direccion",
       ![h].movida = FALSE]
  /\ UNCHANGED <<caido, mensajes>>

\* s is the segment of h's trip, or the free one that its expulsion left
Propio(h, s, trips) ==
  \/ s.duenio = h[1] /\ s.indice = h[2] + 1
  \/ h \notin DOMAIN trips /\ EsLibre(s)

\* what h finds in a list that nobody edits: no segment that starts there, whose
\* mutex is that of a null one, the trip's or another
Hallado(h, segmentos, trips) ==
  LET lugares == {i \in DOMAIN segmentos : segmentos[i].inicio = hilos[h].inicio}
  IN IF lugares = {} THEN "nulo"
     ELSE IF Propio(h, segmentos[Min(lugares)], trips) THEN "segmento" ELSE "ajeno"

\* mutex_lista_segmentos
EmpezarBusqueda(h) ==
  /\ EnPaso(h, "direccion") /\ \A otro \in DOMAIN hilos : hilos[otro].paso # "busca"
  /\ hilos' = [hilos EXCEPT ![h].paso = "busca",
                            ![h].hallados = {Hallado(h, mapa, tripulantes)}]
  /\ UNCHANGED <<caido, mensajes>>

\* the walk ends
segmento_desde_inicio(h) ==
  /\ EnPaso(h, "busca")
  /\ \E fin \in hilos[h].hallados :
       IF fin \in {"segmento", "liberado"}
       THEN /\ hilos' = [hilos EXCEPT ![h].paso = fin, ![h].hallados = {}]
            /\ UNCHANGED caido
       ELSE Caer(fin)
  /\ UNCHANGED mensajes

TomarSegmento(h) == EnPaso(h, "segmento") /\ Pasar(h, "copia") /\ UNCHANGED mensajes

UltimoAcceso(h) == Tail(hilos[h].accesos) = <<>>

\* after its last access INIT_T creates the thread
Hecho(h) ==
  /\ hilos' = [hilos EXCEPT
       ![h].quien = IF UltimoAcceso(h) THEN "hilo" ELSE @,
       ![h].accesos = Tail(@),
       ![h].paso = "quieto",
       ![h].inicio = 0,
       ![h].pcb = IF UltimoAcceso(h) THEN 0 ELSE @,
       ![h].movida = FALSE]
  /\ UNCHANGED caido

GuardaPcb(h) == hilos[h].quien = "principal" /\ UltimoAcceso(h)

\* the trip's segment is where the table says, and the copy is in it
Copiar(h) ==
  /\ EnPaso(h, "copia") /\ Hecho(h)
  /\ mapa' = IF GuardaPcb(h)
             THEN Apuntar(mapa, elementos[h[1]][h[2] + 1], hilos[h].pcb) ELSE mapa
  /\ UNCHANGED mensajes

\* obtener_tarea takes no semaphore
obtener_tarea(h) ==
  /\ EnPaso(h, "tareas")
  /\ IF elementos[h[1]][TAREAS] = hilos[h].inicio THEN Hecho(h) ELSE Caer("tarea_movida")
  /\ UNCHANGED mensajes

\* a t_segmento that was freed may still look whole
UsarLiberado(h) ==
  /\ EnPaso(h, "liberado")
  /\ Hecho(h) \/ Caer("liberado")
  /\ UNCHANGED mensajes

Accesos(h) ==
  /\ \/ Copiar(h)
     \/ /\ LeerDireccion(h) \/ EmpezarBusqueda(h) \/ segmento_desde_inicio(h)
           \/ TomarSegmento(h) \/ obtener_tarea(h) \/ UsarLiberado(h) \/ rutina_hilos(h)
        /\ UNCHANGED mapa
  /\ UNCHANGED <<elementos, tripulantes, nro_tripulante, faltan>>

-----------------------------------------------------------------------------
(* The main loop *)

\* mutant: the compaction does not wait for the segments
EsperarSegmentosNunca == TRUE

EsperarSegmentos == Copian = {}

SinCompactar(m, tamanio) == Aptos(m.mapa, tamanio) # {}

\* INIT_P does not compact, or has waited for the segments
PatotaEspera(tareas) ==
  \/ EsperarSegmentos
  \/ /\ SinCompactar(memoria, TAMANIO_PATOTA)
     /\ SinCompactar(crear_segmento(memoria, TAMANIO_PATOTA, Len(elementos) + 1, PCB), tareas)

SeMovio ==
  \E p \in DOMAIN elementos : \E k \in DOMAIN elementos[p] :
    Vive(p, k) /\ elementos'[p][k] # elementos[p][k]

SeCorrio(p) == elementos'[p][PCB] # elementos[p][PCB]

\* some link of the list went away, when so many were to be added
QuitaEnlaces(agregados) == Len(mapa') < Len(mapa) + agregados

\* The threads after an edit of the list.  A walk may come to what there is now;
\* or it stood on a link that was freed, and it may follow it anywhere.
Avisados(hs, agregados) ==
  [h \in DOMAIN hs |->
     [hs[h] EXCEPT
        !.movida = @ \/ SeMovio,
        !.corrido = @ \/ (hs[h].quien = "principal" /\ SeCorrio(h[1])),
        !.hallados = IF hs[h].paso = "busca"
                     THEN @ \cup {Hallado(h, mapa', tripulantes')}
                            \cup (IF QuitaEnlaces(agregados) THEN {"enlace"} ELSE {})
                     ELSE @]]

PatotaConHilos(n, tareas) ==
  /\ Cabe(n, tareas) => PatotaEspera(tareas)
  /\ INIT_P(n, tareas)
  /\ hilos' = Avisados(hilos, IF Cabe(n, tareas) THEN 2 ELSE 0)

TripulanteConHilos ==
  /\ EsperarSegmentos \/ SinCompactar(memoria, TAMANIO_TRIPULANTE)
  /\ INIT_T
  /\ hilos' = Agregado(Avisados(hilos, 1), <<Len(elementos), nro_tripulante>>,
                       Hilo(Llenado, elementos'[Len(elementos)][PCB]))

\* the t_segmento that x's thread found, or may have found, is freed
SinSegmento(x) ==
  [x EXCEPT !.paso = IF @ \in {"segmento", "copia"} THEN "liberado" ELSE @,
            !.hallados = {IF fin = "segmento" THEN "liberado" ELSE fin : fin \in @}]

\* the segment of an expelled trip goes away if the one before it is free
ExpulsarConHilos(p, t) ==
  LET i == DesdeInicio(mapa, elementos[p][t + 1])
      h == <<p, t>>
  IN /\ ELIM_T(p, t)
     /\ hilos' = Avisados(IF AnteriorLibre(mapa, i)
                          THEN [hilos EXCEPT ![h] = SinSegmento(@)] ELSE hilos, 0)

\* mutant: the thread of the expelled trip is left running
CancelarNadie(h) ==
  hilos' = [hilos EXCEPT ![h].accesos = <<>>]

\* pthread_cancel and pthread_join: the thread dies at a wait, never in a walk or
\* in a copy
Cancelar(h) ==
  /\ Expulsado(h) /\ hilos[h].paso \notin {"busca", "copia"}
  /\ hilos' = Restrict(hilos, DOMAIN hilos \ {h})

CancelarExpulsado ==
  /\ \E h \in DOMAIN hilos : Cancelar(h)
  /\ UNCHANGED <<mapa, elementos, tripulantes, nro_tripulante, faltan, caido>>

\* SIGUSR2 in a thread that is not copying.  The free segments go away.
CompactarEntreHilos ==
  /\ EsperarSegmentos
  /\ signal_compactacion
  /\ hilos' = Avisados([h \in DOMAIN hilos |->
       IF Expulsado(h) THEN SinSegmento(hilos[h]) ELSE hilos[h]], 1)

\* SIGUSR2 in a thread that is copying: it waits for its own segment
CompactarEnUnaCopia ==
  /\ Copian # {}
  /\ Caer("trabado")
  /\ UNCHANGED <<mapa, elementos, tripulantes, nro_tripulante, faltan>>

Principal ==
  /\ PrincipalLibre
  /\ \/ \E n \in 1 .. MaxTripulantes, tareas \in TamaniosTareas : PatotaConHilos(n, tareas)
     \/ TripulanteConHilos
     \/ \E h \in DOMAIN tripulantes : ExpulsarConHilos(h[1], h[2])

NextHilos ==
  /\ caido = "no"
  /\ UNCHANGED criterio_seleccion
  /\ \/ \E h \in DOMAIN hilos : Accesos(h)
     \/ /\ Principal \/ CancelarExpulsado \/ CompactarEntreHilos \/ CompactarEnUnaCopia
        /\ UNCHANGED mensajes

SpecHilos == InitHilos /\ [][NextHilos]_varsHilos

-----------------------------------------------------------------------------
(* Properties *)

\* The type invariant.  A live trip has one thread, and only a trip whose
\* expulsion is not over has a thread and no place in the list.
TypeOKHilos ==
  /\ MemoriaTipada
  /\ DOMAIN tripulantes \subseteq DOMAIN hilos
  /\ \A h \in DOMAIN hilos :
       /\ hilos[h].quien \in {"principal", "hilo"}
       /\ hilos[h].paso \in {"quieto", "direccion", "busca", "segmento", "copia", "tareas",
                             "liberado"}
       /\ hilos[h].inicio \in Direcciones /\ hilos[h].pcb \in Direcciones
       /\ hilos[h].movida \in BOOLEAN /\ hilos[h].corrido \in BOOLEAN
       /\ hilos[h].hallados \subseteq {"segmento", "liberado", "nulo", "ajeno", "enlace"}
       /\ hilos[h].paso # "quieto" => hilos[h].accesos # <<>>
  /\ Cardinality({h \in DOMAIN hilos : Expulsado(h) \/ hilos[h].quien = "principal"}) <= 1
  /\ mensajes \in 0 .. MaxMensajes
  /\ caido \in {"no", "iterador", "sin_lugar", "nulo", "ajeno", "enlace", "tarea_movida",
                "liberado", "trabado"}

\* A segment does not move while a thread copies: the compaction, whoever runs
\* it, takes the mutex of every segment before it moves the first.
CopiaEstable ==
  [][\A h \in Copian \cap DOMAIN hilos' :
       hilos'[h].paso = "copia" => elementos'[h[1]][h[2] + 1] = elementos[h[1]][h[2] + 1]
    ]_varsHilos

\* The pointers stored in the memory itself follow what they point at: a control
\* block leads to its tasks, and a trip to its control block from the moment its
\* thread exists, however often the memory is compacted from then on.  It does not
\* when a compaction moved the control block while INIT_T filled the trip: what it
\* stores is what it read before.
PunterosVeraces ==
  \A i \in DOMAIN mapa :
    LET s == mapa[i]
        h == <<s.duenio, s.indice - 1>>
    IN /\ Ocupado(s) /\ s.indice = PCB => s.puntero = elementos[s.duenio][TAREAS]
       /\ Ocupado(s) /\ s.indice > TAREAS /\ hilos[h].quien = "hilo" /\ ~hilos[h].corrido =>
            s.puntero = elementos[s.duenio][PCB]

\* A thread finds no segment, or another's, or a task that moved under it, only
\* when the memory was compacted after it read the address; and a freed segment,
\* or the place of one, only when its trip is being expelled.  The other messages
\* of the main loop take no segment from under a thread: they may free the link
\* that its walk of the list stands on, and only that.
FallaExplicada ==
  /\ caido \in {"nulo", "ajeno"} =>
       \E h \in DOMAIN hilos :
         hilos[h].paso = "busca" /\ (hilos[h].movida \/ Expulsado(h))
  /\ caido = "enlace" =>
       \E h \in DOMAIN hilos : hilos[h].paso = "busca" /\ "enlace" \in hilos[h].hallados
  /\ caido = "tarea_movida" =>
       \E h \in DOMAIN hilos : hilos[h].paso = "tareas" /\ hilos[h].movida
  /\ caido = "liberado" => \E h \in DOMAIN hilos : hilos[h].paso = "liberado" /\ Expulsado(h)
=============================================================================
