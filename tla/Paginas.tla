------------------------------ MODULE Paginas ------------------------------
(***************************************************************************)
(* The memory of the RAM process with ESQUEMA_MEMORIA=PAGINACION: page     *)
(* tables, frames, swap file and replacement (mi-Ram-HQ/src: paginas.c,    *)
(* patota.c, tripulante.c), used by the main loop and by the threads of    *)
(* the trips (miramhq.c, hilos.c) at the same time.                        *)
(*                                                                         *)
(* Addresses are bytes, with the sizes of the code.  Of the contents the   *)
(* model keeps which frame and which swap page are up to date: datos and   *)
(* copia.  A thread executes the page accesses of its message one by one.  *)
(* frames_totales is at least frames_en_memoria: with less, mapa_fisico    *)
(* keeps null entries (paginas.c:18) and the first INIT_P dies.            *)
(***************************************************************************)
EXTENDS Integers, Sequences, SequencesExt

CONSTANTS
  TAMANIO_PAGINA, TAMANIO_MEMORIA, TAMANIO_SWAP,
  TAMANIO_PATOTA, TAMANIO_TRIPULANTE, ENTERO, CARACTER,   \* bytes
  TamaniosTareas,     \* bytes that the tasks of a patota may take
  MaxPatotas,         \* bound: INIT_P received
  MaxTripulantes,     \* bound: trips of a patota
  MaxMensajes         \* bound: messages of all the trips

frames_en_memoria == TAMANIO_MEMORIA \div TAMANIO_PAGINA
frames_totales == TAMANIO_SWAP \div TAMANIO_PAGINA

ASSUME PaginacionValida ==
  /\ {TAMANIO_PAGINA, TAMANIO_PATOTA, TAMANIO_TRIPULANTE, ENTERO, CARACTER} \subseteq Nat \ {0}
  /\ {TAMANIO_MEMORIA, TAMANIO_SWAP} \subseteq Nat
  \* the fields of a control block and of a trip fit in them
  /\ 2 * ENTERO <= TAMANIO_PATOTA /\ 5 * ENTERO + CARACTER <= TAMANIO_TRIPULANTE
  /\ (TAMANIO_MEMORIA % TAMANIO_PAGINA) + (TAMANIO_SWAP % TAMANIO_PAGINA) = 0
  /\ frames_en_memoria \in 1 .. frames_totales
  /\ TamaniosTareas \subseteq Nat \ {0}
  /\ {MaxPatotas, MaxTripulantes, MaxMensajes} \subseteq Nat

VARIABLES
  algoritmo_reemplazo,   \* of the configuration file, never changed
  mapa_logico,     \* the t_marco of each page of the swap
  puntero_clock, mutex_incorporar_marco,
  patotas,         \* lista_patotas
  tripulantes,     \* lista_tripulantes
  hilos,           \* what each thread is doing
  faltan, pedidos, mensajes,
  datos,           \* datos[r]: the pages whose contents are whole in frame r
  copia,           \* copia[m]: the swap file has the contents of page m
  sinMarca,        \* pages that actualizar_estado wrote in without marking them
  causas,          \* how a victim was chosen wrongly, so far (for the properties)
  caida

pags == <<mapa_logico, datos, copia, sinMarca>>
orden == <<faltan, pedidos, mensajes>>
vars == <<algoritmo_reemplazo, mapa_logico, puntero_clock, mutex_incorporar_marco, patotas, tripulantes,
          hilos, orden, datos, copia, sinMarca, causas, caida>>

Marcos == 0 .. frames_totales - 1
Fisicos == 0 .. frames_en_memoria - 1     \* mapa_fisico, which never changes
Principal == <<0, 0>>                     \* the main loop
Trips == (1 .. MaxPatotas) \X (1 .. MaxTripulantes)
Hilos == {Principal} \union Trips

Init ==
  /\ algoritmo_reemplazo \in {"LRU", "CLOCK"}
  /\ mapa_logico = [m \in Marcos |->
       [nro_real |-> IF m \in Fisicos THEN m ELSE 0, presencia |-> m \in Fisicos,
        duenio |-> 0, modificado |-> FALSE, bit_uso |-> FALSE, semaforo_mutex |-> 1]]
  /\ puntero_clock = 0 /\ mutex_incorporar_marco = 1
  /\ patotas = <<>> /\ tripulantes = {}
  /\ hilos = [h \in Hilos |-> [pc |-> IF h = Principal THEN "listo" ELSE "sin_hilo",
                               accesos |-> <<>>, marco |-> 0, victima |-> 0, tomada |-> FALSE]]
  /\ faltan = 0 /\ pedidos = 0 /\ mensajes = 0
  /\ datos = [r \in Fisicos |-> {r}] /\ copia = [m \in Marcos |-> TRUE]
  /\ sinMarca = {} /\ causas = {} /\ caida = "no"

-----------------------------------------------------------------------------
(* Page tables *)

MinSet(S) == CHOOSE m \in S : \A n \in S : m <= n
Libres(marcos) == {m \in Marcos : marcos[m].duenio = 0}

frames_necesarios(libre_ultimo, tamanio) ==
  (tamanio \div TAMANIO_PAGINA) + (IF tamanio % TAMANIO_PAGINA > libre_ultimo THEN 1 ELSE 0)

\* the first n free ones: obtener_marco_libre_fisico while there is one, then
\* obtener_marco_libre_virtual; the physical ones are the first of the table
Elegidos(marcos, n) ==
  [k \in 1 .. n |->
     CHOOSE m \in Libres(marcos) : Cardinality({l \in Libres(marcos) : l < m}) = k - 1]

\* tabla is the entry of patota p, with its other fields already updated
asignar_frames(p, n, tabla) ==
  LET elegidos == Elegidos(mapa_logico, n)
      nuevos == Range(elegidos)
      entrada == [tabla EXCEPT !.frames = @ \o elegidos]
  IN /\ patotas' = IF p > Len(patotas) THEN Append(patotas, entrada)
                   ELSE [patotas EXCEPT ![p] = entrada]
     /\ mapa_logico' = [m \in Marcos |-> IF m \in nuevos
                          THEN [mapa_logico[m] EXCEPT !.duenio = p] ELSE mapa_logico[m]]
     \* nothing has been written in them yet
     /\ copia' = [m \in Marcos |-> copia[m] \/ m \in nuevos]
     /\ datos' = [r \in Fisicos |-> datos[r] \union {m \in nuevos : mapa_logico[m].presencia
                                                                 /\ mapa_logico[m].nro_real = r}]
     /\ sinMarca' = sinMarca \ nuevos

borrar_marco(marco) == [marco EXCEPT !.modificado = FALSE, !.duenio = 0]

\* the patota gives back the last frames that it does not need any more
reasignar_frames(p, ocupada) ==
  LET quedan == frames_necesarios(0, ocupada)
      frames == patotas[p].frames
      sobran == {frames[i] : i \in quedan + 1 .. Len(frames)}
  IN /\ patotas' = [patotas EXCEPT
          ![p].memoria_ocupada = ocupada,
          ![p].frames = SubSeq(@, 1, IF quedan < Len(@) THEN quedan ELSE Len(@))]
     /\ mapa_logico' = [m \in Marcos |-> IF m \in sobran THEN borrar_marco(mapa_logico[m])
                                         ELSE mapa_logico[m]]

-----------------------------------------------------------------------------
(* The accesses of a message.  An access to nro_tripulante t is relative to the *)
(* address that its patota has for t when the access begins; t = 0 is absolute.  *)
(* hechos counts the bytes of the pages that were already accessed.              *)

Acceso(tipo, p, t, desde, bytes) ==
  [tipo |-> tipo, p |-> p, t |-> t, desde |-> desde, bytes |-> bytes, hechos |-> 0]

\* desplazamiento_parametro_trip
Desplazamiento == [TRIP_IP |-> 0, POS_X |-> ENTERO + CARACTER,
  POS_Y |-> 2 * ENTERO + CARACTER, INS_POINTER |-> 3 * ENTERO + CARACTER,
  PCB_POINTER |-> 4 * ENTERO + CARACTER]

Leer(p, t, campo) == Acceso("leer", p, t, Desplazamiento[campo], ENTERO)
Escribir(p, t, campo) == Acceso("escribir", p, t, Desplazamiento[campo], ENTERO)
\* obtener_estado and actualizar_estado use the page where the trip begins, and the
\* byte ENTERO further on, wherever that falls
LeerEstado(p, t) == Acceso("leer", p, t, 0, CARACTER)
EscribirEstado(p, t) == Acceso("estado", p, t, 0, CARACTER)
Paso(tipo, p, t) == Acceso(tipo, p, t, 0, 0)

EscribirTodo(p, t) ==
  <<Escribir(p, t, "TRIP_IP"), EscribirEstado(p, t), Escribir(p, t, "POS_X"),
    Escribir(p, t, "POS_Y"), Escribir(p, t, "INS_POINTER"), Escribir(p, t, "PCB_POINTER")>>
LeerTodo(p, t) ==
  <<Leer(p, t, "TRIP_IP"), LeerEstado(p, t), Leer(p, t, "POS_X"),
    Leer(p, t, "POS_Y"), Leer(p, t, "INS_POINTER"), Leer(p, t, "PCB_POINTER")>>

\* loggear_data, after every message: the control blocks and the trips in their lists
LeerPcb(p) == <<Acceso("leer", p, 0, 0, ENTERO), Acceso("leer", p, 0, ENTERO, ENTERO)>>
loggear_data(cuantas, trips) ==
  FlattenSeq([p \in 1 .. cuantas |-> LeerPcb(p)])
    \o FlattenSeq([p \in 1 .. cuantas |-> FlattenSeq([t \in 1 .. MaxTripulantes |->
         IF <<p, t>> \in trips THEN LeerTodo(p, t) ELSE <<>>])])

Direccion(a) == IF a.t = 0 THEN a.desde ELSE patotas[a.p].inicio[a.t] + a.desde
Ubicado(a) == [a EXCEPT !.t = 0, !.desde = Direccion(a)]
Byte(a) == a.desde + a.hechos
Pagina(a) == Byte(a) \div TAMANIO_PAGINA
\* the bytes done with this page
ConPagina(a) == [a EXCEPT !.hechos = @ + TAMANIO_PAGINA - (Byte(a) % TAMANIO_PAGINA)]
\* what an access has left: an integer that was written is read whole for the log,
\* and the loop goes on in the next page
Resto(a) ==
  (IF a.tipo = "escribir" THEN <<[a EXCEPT !.tipo = "leer", !.hechos = 0]>> ELSE <<>>)
    \o (IF ConPagina(a).hechos < a.bytes THEN <<ConPagina(a)>> ELSE <<>>)

-----------------------------------------------------------------------------
(* The main loop *)

Ocioso(h) == hilos[h].pc = "listo" /\ hilos[h].accesos = <<>>
Empezar(h, accesos) == hilos' = [hilos EXCEPT ![h].accesos = accesos]
SinCambioEnMarcos == UNCHANGED <<puntero_clock, mutex_incorporar_marco, causas>>

\* mutant: only the control block and the tasks have to fit
CabeSinTripulantes(n, tareas) ==
  frames_necesarios(0, TAMANIO_PATOTA + tareas) <= Cardinality(Libres(mapa_logico))

Cabe(n, tareas) ==
  frames_necesarios(0, TAMANIO_PATOTA + tareas + n * TAMANIO_TRIPULANTE)
    <= Cardinality(Libres(mapa_logico))

RechazarPatota(n, tareas) ==
  /\ ~Cabe(n, tareas)
  /\ Empezar(Principal, loggear_data(Len(patotas), tripulantes))
  /\ UNCHANGED <<patotas, faltan, caida, pags>>

AceptarPatota(n, tareas) ==
  LET p == Len(patotas) + 1
      ocupada == TAMANIO_PATOTA + tareas
  IN /\ Cabe(n, tareas)
     /\ asignar_frames(p, frames_necesarios(0, ocupada),
          [frames |-> <<>>, memoria_ocupada |-> ocupada, tareas |-> tareas,
           inicio |-> [t \in 1 .. n |-> 0]])
     \* segmentar_pcb_p
     /\ Empezar(Principal,
          <<Acceso("escribir", p, 0, 0, ENTERO), Acceso("escribir", p, 0, ENTERO, ENTERO)>>
            \o LeerPcb(p) \o <<Acceso("cargar", p, 0, TAMANIO_PATOTA, tareas)>> \o LeerPcb(p)
            \o loggear_data(p, tripulantes))
     /\ faltan' = n
     /\ UNCHANGED caida

INIT_P(n, tareas) ==
  /\ Ocioso(Principal) /\ faltan = 0 /\ pedidos < MaxPatotas
  /\ pedidos' = pedidos + 1
  /\ RechazarPatota(n, tareas) \/ AceptarPatota(n, tareas)
  /\ SinCambioEnMarcos /\ UNCHANGED <<tripulantes, mensajes>>

EspacioOcupado(p) == patotas[p].memoria_ocupada % TAMANIO_PAGINA
\* mutant: only whole pages are asked for
FramesDelTripEnteros(p) == TAMANIO_TRIPULANTE \div TAMANIO_PAGINA

FramesDelTrip(p) ==
  frames_necesarios(TAMANIO_PAGINA - EspacioOcupado(p), TAMANIO_TRIPULANTE)

\* iniciar_tripulante
INIT_T ==
  LET p == Len(patotas)
      t == Len(patotas[p].inicio) - faltan + 1
      n == FramesDelTrip(p)
  IN /\ Ocioso(Principal) /\ faltan > 0
     /\ faltan' = faltan - 1
     /\ tripulantes' = tripulantes \union {<<p, t>>}
     /\ IF n > Cardinality(Libres(mapa_logico))
        THEN caida' = "sin_marco" /\ UNCHANGED <<patotas, hilos, pags>>
        ELSE /\ asignar_frames(p, n, [patotas[p] EXCEPT
                  !.inicio[t] = patotas[p].memoria_ocupada,
                  !.memoria_ocupada = @ + TAMANIO_TRIPULANTE])
             /\ Empezar(Principal, EscribirTodo(p, t) \o <<Paso("arrancar", p, t)>>
                                  \o loggear_data(p, tripulantes'))
             /\ UNCHANGED caida
     /\ SinCambioEnMarcos /\ UNCHANGED <<pedidos, mensajes>>

\* eliminar_tripulante: the trips after it move down, its frames are freed, and only
\* then is its thread cancelled, which until then goes on with what it was doing
ELIM_T(p, t) ==
  /\ Ocioso(Principal) /\ faltan = 0
  /\ <<p, t>> \in tripulantes
  /\ Empezar(Principal,
       FlattenSeq([i \in 1 .. Len(patotas[p].inicio) |->
         IF i > t /\ <<p, i>> \in tripulantes
         THEN LeerTodo(p, i) \o <<Paso("correr", p, i)>> \o EscribirTodo(p, i) ELSE <<>>])
       \o <<Paso("soltar", p, t), Paso("cancelar", p, t)>>
       \o loggear_data(Len(patotas), tripulantes \ {<<p, t>>}))
  /\ UNCHANGED <<patotas, tripulantes, caida, pags, orden>> /\ SinCambioEnMarcos

Siguiente(h) == Head(hilos[h].accesos)
Hecho(h) == [hilos EXCEPT ![h].accesos = Tail(@)]
Le_toca(h, tipos) ==
  hilos[h].pc = "listo" /\ hilos[h].accesos # <<>> /\ Siguiente(h).tipo \in tipos

\* pthread_create at the end of iniciar_tripulante
Arrancar ==
  LET a == Siguiente(Principal) IN
  /\ Le_toca(Principal, {"arrancar"})
  /\ hilos' = [Hecho(Principal) EXCEPT ![<<a.p, a.t>>].pc = "listo"]
  /\ UNCHANGED <<patotas, tripulantes, caida, pags, orden>> /\ SinCambioEnMarcos

\* the trip's values were read; from here it is TAMANIO_TRIPULANTE lower
Correr ==
  LET a == Siguiente(Principal) IN
  /\ Le_toca(Principal, {"correr"})
  /\ patotas' = [patotas EXCEPT ![a.p].inicio[a.t] = @ - TAMANIO_TRIPULANTE]
  /\ hilos' = Hecho(Principal)
  /\ UNCHANGED <<tripulantes, caida, pags, orden>> /\ SinCambioEnMarcos

\* the frames of the trip and its place in the list
Soltar ==
  LET a == Siguiente(Principal) IN
  /\ Le_toca(Principal, {"soltar"})
  /\ reasignar_frames(a.p, patotas[a.p].memoria_ocupada - TAMANIO_TRIPULANTE)
  /\ tripulantes' = tripulantes \ {<<a.p, a.t>>}
  /\ hilos' = Hecho(Principal)
  /\ UNCHANGED <<datos, copia, sinMarca, caida, orden>> /\ SinCambioEnMarcos

Muerto == [listo |-> "sin_hilo", incorporar |-> "muerto_incorporar", reloj |-> "muerto_reloj",
           cambiar |-> "muerto_cambiar", traer |-> "muerto_traer"]

\* pthread_cancel and pthread_join: the thread ends at its next sem_wait, file
\* operation, line of the log or recv, and what it holds stays taken for ever
Cancelar ==
  LET a == Siguiente(Principal)
      h == <<a.p, a.t>>
      pc == hilos[h].pc
  IN /\ Le_toca(Principal, {"cancelar"})
     /\ pc \in DOMAIN Muerto
     /\ hilos' = [Hecho(Principal) EXCEPT
          ![h].pc = Muerto[pc], ![h].accesos = <<>>]
     /\ causas' = causas \union (IF pc = "traer" THEN {"cancelado"} ELSE {})
     /\ UNCHANGED <<puntero_clock, mutex_incorporar_marco, patotas, tripulantes, caida, pags, orden>>

-----------------------------------------------------------------------------
(* rutina_hilos: the messages of a trip *)

NEXT_T(p, t) ==
  {<<Leer(p, t, "INS_POINTER")>>,     \* past the last task
   <<Leer(p, t, "INS_POINTER"),
     Acceso("tarea", p, 0, TAMANIO_PATOTA, patotas[p].tareas),
     Escribir(p, t, "INS_POINTER")>>}
ACTU_P(p, t) == {<<Escribir(p, t, "POS_X"), Escribir(p, t, "POS_Y")>>}
\* caracter_de_estado answers 0 for EXIT and EMERGENCY, which is not written
ACTU_E(p, t) == {<<EscribirEstado(p, t)>>, <<>>}

rutina_hilos(p, t) ==
  /\ Ocioso(<<p, t>>) /\ mensajes < MaxMensajes
  /\ mensajes' = mensajes + 1
  /\ \E accesos \in NEXT_T(p, t) \union ACTU_P(p, t) \union ACTU_E(p, t) :
       Empezar(<<p, t>>, accesos)
  /\ UNCHANGED <<patotas, tripulantes, faltan, pedidos, caida, pags>> /\ SinCambioEnMarcos

-----------------------------------------------------------------------------
(* One access *)

Restar(m) == [mapa_logico EXCEPT ![m].semaforo_mutex = @ - 1]
Libre(m) == mapa_logico[m].semaforo_mutex > 0
\* marcos_reales_disponibles, which looks at the owner only
FisicosLibres == Libres(mapa_logico) \intersect Fisicos

Memoria == {"leer", "escribir", "cargar", "estado", "tarea"}

\* a trip's thread reads the address, which the main loop may lower from then on
LeerDireccion(h) ==
  /\ h # Principal /\ Le_toca(h, Memoria) /\ Siguiente(h).t # 0
  /\ hilos' = [hilos EXCEPT ![h].accesos = <<Ubicado(Head(@))>> \o Tail(@)]
  /\ UNCHANGED <<patotas, tripulantes, caida, pags, orden>> /\ SinCambioEnMarcos

\* sem_wait(&marco->semaforo_mutex) and, except in obtener_tarea, the look at
\* presencia of incorporar_marco
Tomar(h) ==
  LET a == Ubicado(Siguiente(h))
      n == Pagina(a) + 1
      m == patotas[a.p].frames[n]
  IN /\ Le_toca(h, Memoria) /\ (h = Principal \/ Siguiente(h).t = 0)
     /\ IF n \notin DOMAIN patotas[a.p].frames
        THEN caida' = "fuera_de_tabla" /\ UNCHANGED <<hilos, mapa_logico>>
        ELSE /\ Libre(m)
             /\ mapa_logico' = Restar(m)
             /\ hilos' = [hilos EXCEPT ![h].marco = m, ![h].accesos = <<a>> \o Tail(@),
                   ![h].pc = IF a.tipo = "tarea" \/ mapa_logico[m].presencia THEN "copiar"
                             ELSE "incorporar"]
             /\ UNCHANGED caida
     /\ UNCHANGED <<puntero_clock, mutex_incorporar_marco, causas, patotas,
                    tripulantes, orden, datos, copia, sinMarca>>

\* whether there is a physical frame without owner, or the search for a victim
incorporar_marco(h) ==
  /\ hilos[h].pc = "incorporar"
  /\ mutex_incorporar_marco > 0
  /\ mutex_incorporar_marco' = mutex_incorporar_marco - 1
  /\ \/ /\ FisicosLibres # {}
        /\ hilos' = [hilos EXCEPT ![h].pc = "libre"]
        /\ UNCHANGED caida
     \/ /\ FisicosLibres = {} /\ algoritmo_reemplazo = "CLOCK"
        /\ hilos' = [hilos EXCEPT ![h].pc = "reloj"]
        /\ UNCHANGED caida
     \/ /\ FisicosLibres = {} /\ algoritmo_reemplazo = "LRU"   \* reemplazo_por_lru: NULL
        /\ caida' = "lru"
        /\ UNCHANGED hilos
  /\ UNCHANGED <<puntero_clock, causas, patotas, tripulantes, orden, pags>>

\* the first of them, which the main loop may have given away in between: then the
\* pointer is returned uninitialised.  The sem_wait is commented out.
obtener_marco_libre_fisico(h) ==
  /\ hilos[h].pc = "libre"
  /\ \/ /\ FisicosLibres # {}
        /\ hilos' = [hilos EXCEPT ![h].pc = "cambiar", ![h].victima = MinSet(FisicosLibres),
                              ![h].tomada = FALSE]
        /\ UNCHANGED caida
     \/ /\ FisicosLibres = {} /\ caida' = "sin_libre" /\ UNCHANGED hilos
  /\ UNCHANGED <<patotas, tripulantes, orden, pags>> /\ SinCambioEnMarcos

\* mutant: the hand runs past the last frame
AvanzarSinVuelta(puntero) == puntero + 1

Avanzar(puntero) == (puntero + 1) % frames_en_memoria

\* a turn of the loop of reemplazo_por_clock
reemplazo_por_clock(h) ==
  LET m == puntero_clock IN
  /\ hilos[h].pc = "reloj" /\ Libre(m)
  /\ IF mapa_logico[m].bit_uso
     THEN /\ mapa_logico' = [mapa_logico EXCEPT ![m].bit_uso = FALSE]
          /\ UNCHANGED hilos
     ELSE /\ mapa_logico' = Restar(m)
          /\ hilos' = [hilos EXCEPT ![h].pc = "cambiar", ![h].victima = m, ![h].tomada = TRUE]
  /\ puntero_clock' = Avanzar(puntero_clock)
  /\ UNCHANGED <<mutex_incorporar_marco, causas, patotas, tripulantes, orden, caida,
                 datos, copia, sinMarca>>

\* mutant: the victim is not written to the swap file
hacer_backup_marcoNunca(v) == copia

hacer_backup_marco(v) ==
  IF mapa_logico[v].modificado
  THEN [copia EXCEPT ![v] = v \in datos[mapa_logico[v].nro_real]]
  ELSE copia

\* mutant: the victim still counts as present
EntregarPresente(m, v) ==
  [mapa_logico EXCEPT ![v].modificado = FALSE, ![v].semaforo_mutex = @ + 1,
                      ![m].nro_real = mapa_logico[v].nro_real, ![m].presencia = TRUE]

Entregar(m, v) ==
  [mapa_logico EXCEPT ![v].presencia = FALSE, ![v].modificado = FALSE,
                      ![v].semaforo_mutex = @ + 1,
                      ![m].nro_real = mapa_logico[v].nro_real, ![m].presencia = TRUE]

\* backup, and the frame changes hands
Cambiar(h) ==
  LET m == hilos[h].marco
      v == hilos[h].victima
  IN /\ hilos[h].pc = "cambiar"
     /\ copia' = hacer_backup_marco(v)
     /\ mapa_logico' = Entregar(m, v)
     /\ causas' = causas \union (IF mapa_logico[v].presencia THEN {} ELSE {"ausente"})
                        \union (IF hilos[h].tomada THEN {} ELSE {"sin_tomar"})
     /\ hilos' = [hilos EXCEPT ![h].pc = "traer"]
     /\ UNCHANGED <<puntero_clock, mutex_incorporar_marco, sinMarca, datos, patotas, tripulantes,
                    orden, caida>>

\* the page is read from the swap file
Traer(h) ==
  LET m == hilos[h].marco IN
  /\ hilos[h].pc = "traer"
  /\ datos' = [datos EXCEPT ![mapa_logico[m].nro_real] = IF copia[m] THEN {m} ELSE {}]
  /\ mutex_incorporar_marco' = mutex_incorporar_marco + 1
  /\ hilos' = [hilos EXCEPT ![h].pc = "copiar"]
  /\ UNCHANGED <<puntero_clock, mapa_logico, copia, sinMarca, causas, patotas, tripulantes, orden,
                 caida>>

\* mutant: the page of a task is not left
UsadoSinPost(marco, tipo) ==
  [marco EXCEPT !.modificado = @ \/ tipo \in {"escribir", "cargar"}, !.bit_uso = @ \/ tipo # "estado",
                !.semaforo_mutex = IF tipo = "tarea" THEN @ ELSE @ + 1]

\* actualizar_estado sets no bit
Usado(marco, tipo) ==
  [marco EXCEPT !.modificado = @ \/ tipo \in {"escribir", "cargar"}, !.bit_uso = @ \/ tipo # "estado",
                !.semaforo_mutex = @ + 1]

\* the byte of the state falls past the end of the page where its trip begins
Desborda(a) ==
  a.tipo = "estado" /\ (Byte(a) % TAMANIO_PAGINA) + ENTERO + CARACTER > TAMANIO_PAGINA

\* memcpy into the frame of page m
CopiarEnMarco(a, m) ==
  LET escribe == a.tipo \in {"escribir", "cargar", "estado"}
  IN /\ datos' = IF escribe THEN [datos EXCEPT ![mapa_logico[m].nro_real] = @ \intersect {m}]
                 ELSE datos
     /\ copia' = [copia EXCEPT ![m] = @ /\ ~escribe]
     /\ sinMarca' = IF a.tipo = "estado" /\ ~mapa_logico[m].modificado
                    THEN sinMarca \union {m} ELSE sinMarca
     /\ UNCHANGED caida

\* memcpy into the next frame, where only the next page of the patota should be
\* written; or past the memory, which the process may not survive
CopiarEnSiguiente(a, m) ==
  LET r == mapa_logico[m].nro_real + 1
      pisadas == {n \in Marcos : mapa_logico[n].presencia /\ mapa_logico[n].nro_real = r}
      suyas == {patotas[a.p].frames[i] : i \in DOMAIN patotas[a.p].frames \intersect {Pagina(a) + 2}}
  IN /\ datos' = [f \in Fisicos |-> IF f = r THEN datos[f] \intersect suyas ELSE datos[f]]
     /\ copia' = [n \in Marcos |-> copia[n] /\ n \notin pisadas \intersect suyas]
     /\ sinMarca' = sinMarca \union pisadas
     /\ caida' \in IF r \in Fisicos THEN {"no"} ELSE {"no", "fuera_de_memoria"}

\* memcpy, the bits of the frame, sem_post
Copiar(h) ==
  LET a == Siguiente(h)
      m == hilos[h].marco
  IN /\ hilos[h].pc = "copiar"
     /\ mapa_logico' = [mapa_logico EXCEPT ![m] = Usado(@, a.tipo)]
     /\ \/ ~Desborda(a) /\ CopiarEnMarco(a, m)
        \/ Desborda(a) /\ CopiarEnSiguiente(a, m)
     /\ hilos' = [hilos EXCEPT ![h].pc = "listo", ![h].accesos = Resto(a) \o Tail(@)]
     /\ UNCHANGED <<patotas, tripulantes, orden>> /\ SinCambioEnMarcos

Next ==
  /\ caida = "no"
  /\ UNCHANGED algoritmo_reemplazo
  /\ \/ \E n \in 1 .. MaxTripulantes, tareas \in TamaniosTareas : INIT_P(n, tareas)
     \/ INIT_T
     \/ \E trip \in tripulantes : ELIM_T(trip[1], trip[2])
     \/ Arrancar \/ Correr \/ Soltar \/ Cancelar
     \/ \E trip \in Trips : rutina_hilos(trip[1], trip[2])
     \/ \E h \in Hilos :
          \/ LeerDireccion(h) \/ Tomar(h) \/ incorporar_marco(h)
          \/ obtener_marco_libre_fisico(h) \/ reemplazo_por_clock(h) \/ Cambiar(h) \/ Traer(h) \/ Copiar(h)

Spec == Init /\ [][Next]_vars

-----------------------------------------------------------------------------
(* Properties *)

TypeOK ==
  /\ mapa_logico \in [Marcos -> [nro_real : Fisicos, presencia : BOOLEAN,
       duenio : 0 .. Len(patotas), modificado : BOOLEAN, bit_uso : BOOLEAN,
       semaforo_mutex : Nat]]
  /\ puntero_clock \in Fisicos /\ mutex_incorporar_marco \in 0 .. 1
  /\ tripulantes \subseteq Trips
  /\ datos \in [Fisicos -> SUBSET Marcos] /\ copia \in [Marcos -> BOOLEAN]
  /\ caida \in {"no", "sin_marco", "fuera_de_tabla", "lru", "sin_libre", "fuera_de_memoria"}

\* INIT_P checks once that the patota and its trips fit; asignar_frames, which takes
\* an uninitialised pointer when there is no free page, always finds one.
MarcosAlcanzan == caida # "sin_marco"

\* a trip of patota p began where a page does: its INIT_T counted the whole of the page
\* before it as free (tripulante.c:29)
Comienzos(p) == {TAMANIO_PATOTA + patotas[p].tareas + k * TAMANIO_TRIPULANTE : k \in 0 .. MaxTripulantes}
FaltaMarco(p) == \E x \in Comienzos(p) : x < patotas[p].memoria_ocupada /\ x % TAMANIO_PAGINA = 0

\* A page table reaches as far as the memory of its patota, unless one of its trips
\* begins where a page does; an access falls past its end only then, or from a
\* thread that read its address before a trip of the same patota was expelled.
TablaCubre ==
  /\ \A p \in DOMAIN patotas :
       FaltaMarco(p) \/ Len(patotas[p].frames) >= frames_necesarios(0, patotas[p].memoria_ocupada)
  /\ caida = "fuera_de_tabla" =>
       \E p \in DOMAIN patotas :
         \/ FaltaMarco(p)
         \/ /\ \E t \in DOMAIN patotas[p].inicio :
                 patotas[p].inicio[t] # 0 /\ <<p, t>> \notin tripulantes
            /\ \E h \in Trips : h[1] = p /\ hilos[h].pc = "listo" /\ hilos[h].accesos # <<>>

EnMemoria == {m \in Marcos : mapa_logico[m].presencia}
Compartidos ==
  {m \in EnMemoria : \E n \in EnMemoria \ {m} : mapa_logico[n].nro_real = mapa_logico[m].nro_real}

\* Two pages are in one frame only after a victim was taken that had already left
\* memory: the replacement goes over mapa_fisico, which is not updated.
CompartidoExplicado == Compartidos # {} => "ausente" \in causas

\* The contents of a page are in its frame if it is present, in the swap file if not
Guardado(m) == IF mapa_logico[m].presencia THEN m \in datos[mapa_logico[m].nro_real] ELSE copia[m]

\* the pages that a thread is reading from the swap file
EnCamino == {hilos[h].marco : h \in {k \in Hilos : hilos[k].pc = "traer"}}

\* Until a victim is taken that had left memory, or that was free and is not locked,
\* or a thread is cancelled while it reads a page, swapping loses nothing that was
\* written, except in the pages that actualizar_estado wrote in without marking them:
\* the one where its trip begins, or, when the trip begins in the last ENTERO bytes of
\* it, whatever page the next frame holds.
NadaSePierde ==
  causas = {} => \A m \in Marcos \ (sinMarca \union EnCamino) :
                   mapa_logico[m].duenio # 0 => Guardado(m)

\* the threads that took the semaphore of page m and did not post it, the
\* cancelled ones included
Tienen(m) ==
  {h \in Hilos :
     \/ hilos[h].pc \notin {"listo", "sin_hilo"} /\ hilos[h].marco = m
     \/ hilos[h].pc \in {"cambiar", "muerto_cambiar"} /\ hilos[h].tomada /\ hilos[h].victima = m}

\* A page is used by one thread at a time, and only its user, or a thread that was
\* cancelled using it, keeps it from the others; until a free frame is taken,
\* whose semaphore is posted without having been taken (paginas.c:71).
UnoPorPagina ==
  "sin_tomar" \notin causas =>
    \A m \in Marcos : mapa_logico[m].semaforo_mutex + Cardinality(Tienen(m)) = 1
=============================================================================
