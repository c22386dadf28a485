------------------------------ MODULE Mensajes ------------------------------
(***************************************************************************)
(* The messages between a trip of the discordiador and its thread in the   *)
(* RAM process: the message library (utils-mensajes.c), the exchanges of   *)
(* mensajes_trip.c and the answers of rutina_hilos (mi-Ram-HQ hilos.c).    *)
(*                                                                         *)
(* A trip has one socket_ram, and three threads of the discordiador write  *)
(* a request to it and read until they have an answer: the trip's, the     *)
(* planner that dispatches it, and the sabotage detector, which tells the  *)
(* RAM that the trip is in emergency while the trip goes on executing.     *)
(* send writes a message whole; recibir_mensaje reads it with one recv for *)
(* the code and one or two for each parameter, so two readers may share    *)
(* the parts of one answer.                                                *)
(*                                                                         *)
(* One trip, with tasks that are movements, under a slot that is always    *)
(* free and a planning that has begun, and the console, which pauses it    *)
(* and resumes it: Planificador and Sabotajes have the scheduling in full. *)
(***************************************************************************)
EXTENDS Naturals, Sequences, SequencesExt

CONSTANTS
  CantTareas,     \* tasks of the patota
  Movimientos,    \* steps of the trip towards the place of each task
  Pasos,          \* steps of the trip towards a sabotage
  Quantum,        \* FIFO is a quantum that no trip reaches
  MaxSabotajes,   \* bound: sabotages announced
  MaxReanudaciones  \* bound: times that the planning is resumed

ASSUME CantidadesValidas ==
  /\ CantTareas \in Nat \ {0} /\ Movimientos \in Nat \ {0}
  /\ Quantum \in Nat \ {0}
  /\ Pasos \in Nat /\ MaxSabotajes \in Nat /\ MaxReanudaciones \in Nat

Hilos == {"tripulante", "planificador", "detector"}

VARIABLES
  ida,        \* requests that rutina_hilos has not read
  vuelta,     \* fields of the answers that nobody has read
  lectura,    \* what each thread has still to read of the answer it awaits
  codigo,     \* the code of the answer that it is reading, or has read
  ip,         \* the INS_POINTER of the trip, in the RAM
  pc,
  hechas, restan, pasos,    \* tasks received, steps left of the task, of the sabotage
  ciclos,                   \* trip->contador_ciclos
  estado, lugar,            \* trip->estado, and the list that has the trip
  cola_emergencia, hay_sabotaje, sabotajes,
  tripulantes_ready, finalizo_sabotaje, sem_running, sem_blocked, sabotaje_pausado,
  continuar_planificacion,
  consola,         \* where the console is in iniciar_planificacion
  reanudaciones,   \* times that it was called
  sobran,     \* auxiliary: a resume gave the trip a unit that it was not waiting for
  cruces,     \* auxiliary: pairs of threads that awaited answers at the same time
  caido       \* why the process died, or "no"

vSocket == <<ida, vuelta, lectura, codigo>>
vTrip == <<hechas, restan, ciclos, sem_running, sem_blocked>>
vListas == <<estado, lugar, cola_emergencia, tripulantes_ready>>
vSabotaje == <<hay_sabotaje, sabotajes, pasos, finalizo_sabotaje>>
vPausa == <<continuar_planificacion, consola, reanudaciones, sabotaje_pausado, sobran>>
vars == <<vSocket, ip, pc, vTrip, vListas, vSabotaje, vPausa, cruces, caido>>

Init ==
  /\ ida = <<>> /\ vuelta = <<>>
  /\ lectura = [h \in Hilos |-> <<>>] /\ codigo = [h \in Hilos |-> "nada"]
  /\ ip = 0
  /\ pc = [h \in Hilos |-> CASE h = "tripulante" -> "solicitar"
                             [] h = "planificador" -> "esperar_ready"
                             [] h = "detector" -> "recibir"]
  /\ hechas = 0 /\ restan = 0 /\ pasos = 0 /\ ciclos = 0
  /\ estado = "NEW" /\ lugar = "ninguno"
  /\ cola_emergencia = FALSE /\ hay_sabotaje = FALSE /\ sabotajes = 0
  /\ tripulantes_ready = 0 /\ finalizo_sabotaje = 0 /\ sem_running = 0 /\ sem_blocked = 0
  /\ continuar_planificacion = TRUE /\ consola = "leer" /\ reanudaciones = 0
  /\ sabotaje_pausado = 0 /\ sobran = FALSE
  /\ cruces = {} /\ caido = "no"

-----------------------------------------------------------------------------
(* The message library *)

\* recibir_mensaje: the parameters that follow a code, on this socket
Parametros(op) ==
  CASE op = "ACTU_P" -> <<"ENTERO", "ENTERO">>
    [] op = "ACTU_E" -> <<"ENTERO">>
    [] op = "TASK_T" -> <<"BUFFER">>
    [] op \in {"NEXT_T", "TODOOK", "ER_MSJ"} -> <<>>

\* recibir_parametro, and agregar_parametro_a_mensaje on the other side
Campos(tipo) == IF tipo = "ENTERO" THEN <<"entero">> ELSE <<"largo", "texto">>

CamposDe(op) == FlattenSeq([i \in DOMAIN Parametros(op) |-> Campos(Parametros(op)[i])])

\* a field on the wire: what it is, and for a code which one
EnElCable(op) == <<[campo |-> "codigo", op |-> op]>> \o
                 [i \in DOMAIN CamposDe(op) |-> [campo |-> CamposDe(op)[i], op |-> op]]

Espera(h) == lectura[h] # <<>>

\* enviar_mensaje and the recibir_mensaje that follows it
Pedir(h, op) ==
  /\ ida' = Append(ida, op)
  /\ lectura' = [lectura EXCEPT ![h] = <<"codigo">>]
  /\ codigo' = [codigo EXCEPT ![h] = "nada"]
  /\ cruces' = cruces \union {{h, otro} : otro \in {o \in Hilos : Espera(o)}}
  /\ UNCHANGED vuelta

\* one recv.  Four bytes that are not what the thread expects are taken for it.
recv(h) ==
  /\ Espera(h) /\ vuelta # <<>>
  /\ vuelta' = Tail(vuelta)
  /\ IF Head(vuelta).campo = Head(lectura[h])
     THEN /\ lectura' = [lectura EXCEPT ![h] =
               Tail(@) \o (IF Head(@) = "codigo" THEN CamposDe(Head(vuelta).op) ELSE <<>>)]
          /\ codigo' = [codigo EXCEPT ![h] = Head(vuelta).op]
          /\ UNCHANGED caido
     ELSE caido' = "desfase" /\ UNCHANGED <<lectura, codigo>>
  /\ UNCHANGED <<ida, ip, pc, vTrip, vListas, vSabotaje, vPausa, cruces>>

\* mutant: a change to a state that has no letter gets no answer
RespuestaSoloConLetra(op) ==
  CASE op = "NEXT_T" -> IF ip + 1 > CantTareas THEN "ER_MSJ" ELSE "TASK_T"
    [] op \in {"ACTU_P", "ACTU_E"} -> IF estado = "EMERGENCY" THEN "nada" ELSE "TODOOK"

Respuesta(op) ==
  CASE op = "NEXT_T" -> IF ip + 1 > CantTareas THEN "ER_MSJ" ELSE "TASK_T"
    [] op \in {"ACTU_P", "ACTU_E"} -> "TODOOK"

Avanzar(op) == IF Respuesta(op) = "TASK_T" THEN 1 ELSE 0

\* the RAM's thread of the trip: it alone reads the requests
rutina_hilos ==
  /\ ida # <<>>
  /\ ida' = Tail(ida)
  /\ vuelta' = vuelta \o
       (IF Respuesta(Head(ida)) = "nada" THEN <<>> ELSE EnElCable(Respuesta(Head(ida))))
  /\ ip' = ip + Avanzar(Head(ida))
  /\ UNCHANGED <<lectura, codigo, pc, vTrip, vListas, vSabotaje, vPausa, cruces, caido>>

-----------------------------------------------------------------------------
(* The thread of the trip *)

Ir(h, l) == pc' = [pc EXCEPT ![h] = l]
En(h, l) == pc[h] = l /\ ~Espera(h)

solicitar_tarea ==
  /\ En("tripulante", "solicitar")
  /\ Pedir("tripulante", "NEXT_T")
  /\ Ir("tripulante", "tarea")
  /\ UNCHANGED <<vTrip, vListas, caido>>

\* any answer but TASK_T leaves "no_task"
TomarTarea ==
  /\ En("tripulante", "tarea")
  /\ IF codigo["tripulante"] = "TASK_T"
     THEN /\ hechas' = hechas + 1 /\ restan' = Movimientos
          /\ Ir("tripulante", IF hechas = 0 THEN "pasar_a_ready" ELSE "ciclo")
     ELSE Ir("tripulante", "no_task") /\ UNCHANGED <<hechas, restan>>
  /\ UNCHANGED <<vSocket, cruces, ciclos, sem_running, sem_blocked, vListas, caido>>

\* agregar_ready, of a trip that enters or has no quantum left
PasarAReady ==
  /\ En("tripulante", "pasar_a_ready")
  /\ estado' = "READY"
  /\ Pedir("tripulante", "ACTU_E")
  /\ Ir("tripulante", "encolar")
  /\ UNCHANGED <<vTrip, lugar, cola_emergencia, tripulantes_ready, caido>>

EncolarReady ==
  /\ En("tripulante", "encolar")
  /\ lugar' = "cola_ready" /\ tripulantes_ready' = tripulantes_ready + 1
  /\ ciclos' = 0
  /\ Ir("tripulante", "esperar_running")
  /\ UNCHANGED <<vSocket, cruces, hechas, restan, sem_running, sem_blocked, estado,
                 cola_emergencia, caido>>

\* the trip has entered and not moved: rutina_tripulante looks at the pause, and at no
\* emergency
Arranca == hechas = 1 /\ restan = Movimientos

TrasPausa == IF Arranca THEN "ciclo" ELSE "mirar_emergencia"

\* the waits for sem_running, and what follows each
TrasEsperar == [l \in {"esperar_running", "en_pausa", "en_emergencia"} |->
  CASE l = "esperar_running" -> "mirar_pausa"
    [] l = "en_pausa" -> TrasPausa
    [] l = "en_emergencia" -> "ciclo"]

EsperarRunning ==
  /\ \E l \in DOMAIN TrasEsperar :
       En("tripulante", l) /\ Ir("tripulante", TrasEsperar[l])
  /\ sem_running > 0 /\ sem_running' = sem_running - 1
  /\ UNCHANGED <<vSocket, cruces, hechas, restan, ciclos, sem_blocked, vListas, caido>>

\* moverse and avisar_movimiento, or the end of the task
Moverse ==
  /\ En("tripulante", "ciclo")
  /\ IF restan > 0
     THEN /\ restan' = restan - 1
          /\ Pedir("tripulante", "ACTU_P")
          /\ Ir("tripulante", "puede_continuar")
     ELSE Ir("tripulante", "solicitar") /\ UNCHANGED <<restan, vSocket, cruces>>
  /\ UNCHANGED <<hechas, ciclos, sem_running, sem_blocked, vListas, caido>>

\* The quantum.  quitar_running walks past the end of a list that has not the trip.
puede_continuar ==
  /\ En("tripulante", "puede_continuar")
  /\ ciclos' = ciclos + 1
  /\ IF ciclos' # Quantum
     THEN Ir("tripulante", "mirar_pausa") /\ UNCHANGED <<lugar, caido>>
     ELSE IF lugar = "tripulantes_running"
     THEN lugar' = "ninguno" /\ Ir("tripulante", "pasar_a_ready") /\ UNCHANGED caido
     ELSE caido' = "quitar_running" /\ UNCHANGED <<lugar, pc>>
  /\ UNCHANGED <<vSocket, cruces, hechas, restan, sem_running, sem_blocked, estado,
                 cola_emergencia, tripulantes_ready>>

MirarPausa ==
  /\ En("tripulante", "mirar_pausa")
  /\ Ir("tripulante", IF continuar_planificacion THEN TrasPausa ELSE "en_pausa")
  /\ UNCHANGED <<vSocket, cruces, vTrip, vListas, caido>>

MirarEmergencia ==
  /\ En("tripulante", "mirar_emergencia")
  /\ IF estado = "EMERGENCY"
     THEN sem_blocked' = sem_blocked + 1 /\ Ir("tripulante", "en_emergencia")
     ELSE Ir("tripulante", "ciclo") /\ UNCHANGED sem_blocked
  /\ UNCHANGED <<vSocket, cruces, hechas, restan, ciclos, sem_running, vListas, caido>>

\* the end of rutina_tripulante
Finalizar ==
  /\ En("tripulante", "no_task")
  /\ IF lugar = "tripulantes_running"
     THEN /\ lugar' = "ninguno" /\ estado' = "EXIT"
          /\ Pedir("tripulante", "ACTU_E")
          /\ Ir("tripulante", "fin")
          /\ UNCHANGED caido
     ELSE caido' = "quitar_running" /\ UNCHANGED <<lugar, estado, vSocket, cruces, pc>>
  /\ UNCHANGED <<vTrip, cola_emergencia, tripulantes_ready>>

tripulante ==
  /\ \/ solicitar_tarea \/ TomarTarea \/ PasarAReady \/ EncolarReady \/ EsperarRunning
     \/ Moverse \/ puede_continuar \/ MirarPausa \/ MirarEmergencia \/ Finalizar
  /\ UNCHANGED <<ip, vSabotaje, vPausa>>

-----------------------------------------------------------------------------
(* The planner *)

PlanEsperarReady ==
  /\ En("planificador", "esperar_ready")
  /\ tripulantes_ready > 0 /\ tripulantes_ready' = tripulantes_ready - 1
  /\ Ir("planificador", "mirar_sabotaje")
  /\ UNCHANGED <<vSocket, cruces, estado, lugar, sem_running, finalizo_sabotaje, caido>>

PlanMirarSabotaje ==
  /\ En("planificador", "mirar_sabotaje")
  /\ Ir("planificador", IF hay_sabotaje THEN "esperar_fin" ELSE "mirar_ready")
  /\ UNCHANGED <<vSocket, cruces, estado, lugar, tripulantes_ready, sem_running,
                 finalizo_sabotaje, caido>>

PlanEsperarFinSabotaje ==
  /\ En("planificador", "esperar_fin")
  /\ finalizo_sabotaje > 0 /\ finalizo_sabotaje' = finalizo_sabotaje - 1
  /\ Ir("planificador", "mirar_ready")
  /\ UNCHANGED <<vSocket, cruces, estado, lugar, tripulantes_ready, sem_running, caido>>

PlanMirarReady ==
  /\ En("planificador", "mirar_ready")
  /\ Ir("planificador", IF lugar = "cola_ready" THEN "quitar_ready" ELSE "esperar_ready")
  /\ UNCHANGED <<vSocket, cruces, estado, lugar, tripulantes_ready, sem_running,
                 finalizo_sabotaje, caido>>

\* quitar_ready and agregar_running, which writes to no trip if the detector took it
PlanPasarARunning ==
  /\ En("planificador", "quitar_ready")
  /\ IF lugar = "cola_ready"
     THEN /\ lugar' = "ninguno" /\ estado' = "RUNNING"
          /\ Pedir("planificador", "ACTU_E")
          /\ Ir("planificador", "encolar_running")
          /\ UNCHANGED caido
     ELSE caido' = "nulo" /\ UNCHANGED <<lugar, estado, vSocket, cruces, pc>>
  /\ UNCHANGED <<tripulantes_ready, sem_running, finalizo_sabotaje>>

\* mutant: the trip is woken before the answer comes
EncolarRunningSinRespuesta ==
  /\ pc["planificador"] = "encolar_running" /\ lugar # "tripulantes_running"
  /\ lugar' = "tripulantes_running" /\ sem_running' = sem_running + 1
  /\ Ir("planificador", "esperar_ready")
  /\ UNCHANGED <<vSocket, cruces, estado, tripulantes_ready, finalizo_sabotaje, caido>>

PlanEncolarRunning ==
  /\ En("planificador", "encolar_running")
  /\ lugar' = "tripulantes_running" /\ sem_running' = sem_running + 1
  /\ Ir("planificador", "esperar_ready")
  /\ UNCHANGED <<vSocket, cruces, estado, tripulantes_ready, finalizo_sabotaje, caido>>

planificador ==
  /\ PlanEsperarReady \/ PlanMirarSabotaje \/ PlanEsperarFinSabotaje \/ PlanMirarReady
     \/ PlanPasarARunning \/ PlanEncolarRunning
  /\ UNCHANGED <<ip, hechas, restan, ciclos, sem_blocked, cola_emergencia, hay_sabotaje,
                 sabotajes, pasos, vPausa>>

-----------------------------------------------------------------------------
(* The sabotage detector *)

DetRecibir ==
  /\ En("detector", "recibir") /\ sabotajes < MaxSabotajes
  /\ sabotajes' = sabotajes + 1 /\ hay_sabotaje' = TRUE
  /\ Ir("detector", "mirar_pausa")
  /\ UNCHANGED <<vSocket, cruces, sem_blocked, vListas, pasos, finalizo_sabotaje,
                 sabotaje_pausado, caido>>

DetMirarPausa ==
  /\ En("detector", "mirar_pausa")
  /\ Ir("detector", IF continuar_planificacion THEN "mirar_running" ELSE "en_pausa")
  /\ UNCHANGED <<vSocket, cruces, sem_blocked, vListas, vSabotaje, sabotaje_pausado, caido>>

DetEsperarReanudar ==
  /\ En("detector", "en_pausa")
  /\ sabotaje_pausado > 0 /\ sabotaje_pausado' = sabotaje_pausado - 1
  /\ Ir("detector", "mirar_running")
  /\ UNCHANGED <<vSocket, cruces, sem_blocked, vListas, vSabotaje, caido>>

\* list_is_empty, of tripulantes_running and of cola_ready
DetMirarRunning ==
  /\ En("detector", "mirar_running")
  /\ Ir("detector", IF lugar = "tripulantes_running" THEN "quitar_running" ELSE "mirar_ready")
  /\ UNCHANGED <<vSocket, cruces, sem_blocked, vListas, vSabotaje, sabotaje_pausado, caido>>

DetMirarReady ==
  /\ En("detector", "mirar_ready")
  /\ Ir("detector", IF lugar = "cola_ready" THEN "quitar_ready"
                    ELSE IF cola_emergencia THEN "resolver" ELSE "recibir")
  /\ pasos' = Pasos
  /\ UNCHANGED <<vSocket, cruces, sem_blocked, vListas, hay_sabotaje, sabotajes,
                 finalizo_sabotaje, sabotaje_pausado, caido>>

\* list_remove and agregar_emergencia, for a trip of the list l: it reads no trip if
\* another thread emptied the list
Quitar(l, sigue) ==
  /\ IF lugar = l
     THEN /\ lugar' = "ninguno" /\ estado' = "EMERGENCY" /\ cola_emergencia' = TRUE
          /\ Pedir("detector", "ACTU_E")
          /\ Ir("detector", sigue)
          /\ UNCHANGED caido
     ELSE caido' = "nulo" /\ UNCHANGED <<vSocket, cruces, pc, estado, lugar, cola_emergencia>>
  /\ UNCHANGED <<sem_blocked, tripulantes_ready, vSabotaje, sabotaje_pausado>>

DetQuitarRunning ==
  En("detector", "quitar_running") /\ Quitar("tripulantes_running", "esperar_trip")

DetQuitarReady ==
  En("detector", "quitar_ready") /\ Quitar("cola_ready", "mirar_ready")

DetEsperarTrip ==
  /\ En("detector", "esperar_trip")
  /\ sem_blocked > 0 /\ sem_blocked' = sem_blocked - 1
  /\ Ir("detector", "mirar_running")
  /\ UNCHANGED <<vSocket, cruces, vListas, vSabotaje, sabotaje_pausado, caido>>

\* resolver_sabotaje, and the first half of agregar_ready
DetResolver ==
  /\ En("detector", "resolver")
  /\ IF pasos > 0
     THEN /\ pasos' = pasos - 1
          /\ Pedir("detector", "ACTU_P")
          /\ UNCHANGED <<estado, pc, cola_emergencia>>
     ELSE /\ estado' = "READY" /\ cola_emergencia' = FALSE
          /\ Pedir("detector", "ACTU_E")
          /\ Ir("detector", "encolar_ready")
          /\ UNCHANGED pasos
  /\ UNCHANGED <<lugar, sem_blocked, tripulantes_ready, hay_sabotaje, sabotajes,
                 finalizo_sabotaje, sabotaje_pausado, caido>>

DetEncolarReady ==
  /\ En("detector", "encolar_ready")
  /\ lugar' = "cola_ready" /\ tripulantes_ready' = tripulantes_ready + 1
  /\ Ir("detector", "terminar")
  /\ UNCHANGED <<vSocket, cruces, estado, cola_emergencia, sem_blocked, vSabotaje,
                 sabotaje_pausado, caido>>

DetTerminar ==
  /\ En("detector", "terminar")
  /\ hay_sabotaje' = FALSE /\ finalizo_sabotaje' = finalizo_sabotaje + 1
  /\ Ir("detector", "recibir")
  /\ UNCHANGED <<vSocket, cruces, vListas, sem_blocked, sabotajes, pasos, sabotaje_pausado,
                 caido>>

detector_sabotaje ==
  /\ DetRecibir \/ DetMirarPausa \/ DetEsperarReanudar \/ DetMirarRunning \/ DetQuitarRunning
     \/ DetEsperarTrip \/ DetMirarReady \/ DetQuitarReady \/ DetResolver \/ DetEncolarReady
     \/ DetTerminar
  /\ UNCHANGED <<ip, hechas, restan, ciclos, sem_running, continuar_planificacion, consola,
                 reanudaciones, sobran>>

-----------------------------------------------------------------------------
(* The console *)

pausar_planificacion ==
  /\ consola = "leer"
  /\ continuar_planificacion /\ continuar_planificacion' = FALSE
  /\ UNCHANGED <<consola, reanudaciones, sabotaje_pausado, sobran, sem_running, caido>>

\* iniciar_planificacion, of a planning that had begun, paused or not
Reanudar ==
  /\ consola = "leer" /\ reanudaciones < MaxReanudaciones
  /\ continuar_planificacion' = TRUE /\ reanudaciones' = reanudaciones + 1
  /\ consola' = "recorrer"
  /\ UNCHANGED <<sabotaje_pausado, sobran, sem_running, caido>>

\* list_size, list_get and sem_post, with no lock
MirarRunning ==
  /\ consola = "recorrer"
  /\ consola' = IF lugar = "tripulantes_running" THEN "tomar" ELSE "avisar"
  /\ UNCHANGED <<continuar_planificacion, reanudaciones, sabotaje_pausado, sobran, sem_running,
                 caido>>

TomarTrip ==
  /\ consola = "tomar"
  /\ IF lugar = "tripulantes_running"
     THEN consola' = "despertar" /\ UNCHANGED caido
     ELSE caido' = "nulo" /\ UNCHANGED consola
  /\ UNCHANGED <<continuar_planificacion, reanudaciones, sabotaje_pausado, sobran, sem_running>>

Despertar ==
  /\ consola = "despertar" /\ consola' = "avisar"
  /\ sem_running' = sem_running + 1
  /\ IF pc["tripulante"] = "en_pausa" /\ sem_running = 0
     THEN UNCHANGED sobran
     ELSE sobran' = TRUE
  /\ UNCHANGED <<continuar_planificacion, reanudaciones, sabotaje_pausado, caido>>

AvisarDetector ==
  /\ consola = "avisar" /\ consola' = "leer"
  /\ sabotaje_pausado' = sabotaje_pausado + (IF hay_sabotaje THEN 1 ELSE 0)
  /\ UNCHANGED <<continuar_planificacion, reanudaciones, sobran, sem_running, caido>>

leer_consola ==
  /\ pausar_planificacion \/ Reanudar \/ MirarRunning \/ TomarTrip \/ Despertar
     \/ AvisarDetector
  /\ UNCHANGED <<vSocket, ip, pc, hechas, restan, ciclos, sem_blocked, vListas, vSabotaje,
                 cruces>>

Next ==
  /\ caido = "no"
  /\ \/ \E h \in Hilos : recv(h)
     \/ rutina_hilos
     \/ tripulante \/ planificador \/ detector_sabotaje \/ leer_consola

\* the threads run on an operating system that schedules all of them, and TCP
\* delivers what was sent
Justicia ==
  /\ \A h \in Hilos : WF_vars(caido = "no" /\ recv(h))
  /\ WF_vars(caido = "no" /\ rutina_hilos)

Spec == Init /\ [][Next]_vars /\ Justicia

-----------------------------------------------------------------------------
(* Properties *)

Esperan == {h \in Hilos : Espera(h)}
Leyendo == {h \in Esperan : codigo[h] # "nada"}
EnViaje == {i \in DOMAIN vuelta : vuelta[i].campo = "codigo"}

\* As many answers are on their way, asked or written or half read, as threads
\* await one, and what follows on the wire is the rest of the answer that is half
\* read: crossed answers change hands, but none is left for a later request.
RespuestasContadas ==
  caido # "desfase" =>
    /\ Cardinality(Esperan) = Len(ida) + Cardinality(EnViaje) + Cardinality(Leyendo)
    /\ \A h \in Leyendo : \A i \in DOMAIN lectura[h] :
         i <= Len(vuelta) /\ vuelta[i].campo = lectura[h][i]

\* A trip ends with tasks left, and an answer is read out of step, only after two
\* threads awaited answers at the same time.  The planner and the detector never do: a
\* trip is in one list, or in the hands of one thread.  The trip and the planner only do
\* after a resume gave the trip a unit that it was not waiting for, with which it goes on
\* while it is in cola_ready; until then only the detector takes it while it executes.
CruceExplicado ==
  /\ {"planificador", "detector"} \notin cruces
  /\ {"tripulante", "planificador"} \in cruces => sobran
  /\ caido = "desfase" => cruces # {}
  /\ pc["tripulante"] \in {"no_task", "fin"} /\ hechas < CantTareas => cruces # {}

\* Whoever asks is answered, with its own answer or with another's.
TodosRespondidos ==
  \A h \in Hilos : Espera(h) ~> ~Espera(h) \/ caido # "no"
=============================================================================
