----------------------------- MODULE Expulsiones -----------------------------
(***************************************************************************)
(* expulsar_tripulante (discordiador/src/discordiador.c) running beside    *)
(* the threads of Planificador: the console marks the trip, wakes it with  *)
(* three posts wherever it waits, joins its thread, takes it out of the    *)
(* list its estado names and frees it.  It looks for the trip in cola_ready *)
(* without the mutex of that list, as the trip itself has in cola_blocked: *)
(* a planner may take the head of the list in the middle of the walk.      *)
(*                                                                         *)
(* Before the mark the RAM process is asked.  It may refuse, and nothing   *)
(* happens; when it accepts it has cancelled its thread of the trip, and   *)
(* closed that thread's listening socket only (mi-Ram-HQ/src/tripulante.c, *)
(* liberar_tripulante): whoever asks it something on the trip's socket_ram *)
(* from then on waits in recv for an answer that nobody will send.         *)
(***************************************************************************)
EXTENDS Planificador

CONSTANT MaxExpulsiones   \* bound: trips that the user expels

ASSUME ExpulsionesAcotadas == MaxExpulsiones \in Nat

VARIABLES
  victima,      \* the trip being expelled, or Nadie
  liberados,    \* trips taken from lista_tripulantes and freed
  sordos,       \* trips whose thread in the RAM process was cancelled
  esperan,      \* <<t, hilo>>: hilo waits for an answer of the thread of t
  desfasado     \* auxiliary: a planner took the head of a list from under a walk,
                \* which from then on misses the victim or removes another trip

vExp == <<victima, liberados>>
vRam == <<sordos, esperan>>
varsExpulsion == <<vars, vExp, vRam, desfasado>>

InitExpulsion ==
  /\ Init
  /\ victima = Nadie /\ liberados = {}
  /\ sordos = {} /\ esperan = {}
  /\ desfasado = FALSE

-----------------------------------------------------------------------------
(* The exchanges with the RAM's thread of a trip *)

\* t told the RAM its new estado and waits for the answer
Avisando == {"encolar_inicio", "encolar_quantum", "encolar_io", "encolar_blocked"}

\* who waits for an answer about t; the planner told the RAM that it dispatches it
Avisos(t) ==
  {aviso \in {<<t, "tripulante">>, <<t, "planificador">>} :
     IF aviso[2] = "tripulante" THEN pc[t] \in Avisando
     ELSE pcPlan = "encolar_running" /\ elegido = t}

\* the cycle may be a movement, which is reported; the last one of an i/o task is
\* the start of ejecutar_io, and any of another task may be of esperar
PuedeMoverse(t) ==
  /\ pc[t] = "ciclo" /\ HayTarea(t) /\ continuar[t]
  /\ restan[t] > (IF Actual(t).io THEN 1 ELSE 0)

\* the step asks for a task, or reports the end or a movement
PideEnUnPaso(t) ==
  pc[t] \in {"solicitar", "exit"} \/ (PuedeMoverse(t) /\ Actual(t).io)

\* the step of t that asks a cancelled thread: it never returns from recv
PedirASordo(t) ==
  /\ t \in sordos /\ <<t, "tripulante">> \notin esperan
  /\ PideEnUnPaso(t) \/ PuedeMoverse(t)
  /\ estado' = IF pc[t] = "exit" THEN [estado EXCEPT ![t] = "EXIT"] ELSE estado
  /\ esperan' = esperan \union {<<t, "tripulante">>}
  /\ UNCHANGED <<vSem, lista, trip_block, continuar, continuar_planificacion, hay_sabotaje,
                 vTrip, vPlan, pcIO, vCons, caido, vExp, sordos>>

TripulanteEscuchado(t) ==
  /\ <<t, "tripulante">> \notin esperan
  /\ PideEnUnPaso(t) => t \notin sordos
  /\ Tripulante(t)
  /\ esperan' = esperan \union
       (IF t \in sordos /\ pc'[t] \in Avisando THEN {<<t, "tripulante">>} ELSE {})
  /\ UNCHANGED <<vExp, sordos>>

PlanificadorEscuchado ==
  /\ <<elegido, "planificador">> \notin esperan
  /\ planificador
  /\ esperan' = esperan \union
       (IF elegido \in sordos /\ pcPlan = "pasar_a_running" THEN {<<elegido, "planificador">>} ELSE {})
  /\ UNCHANGED <<vExp, sordos>>

-----------------------------------------------------------------------------
(* expulsar_tripulante *)

\* ELIM_T was accepted: the RAM cancelled its thread of t, before or after that
\* thread had sent the answer that is awaited
ExpPedir(t) ==
  /\ pcCons = "leer" /\ t \notin liberados
  /\ Cardinality(liberados) < MaxExpulsiones
  /\ victima' = t
  /\ sordos' = sordos \union {t}
  /\ \E sinRespuesta \in SUBSET Avisos(t) : esperan' = esperan \union sinRespuesta
  /\ pcCons' = "marcar"
  /\ UNCHANGED <<vSem, lista, continuar, caido, liberados, indice>>

\* with nobody left in lista_tripulantes list_get answers NULL, which is dereferenced
ExpSinTripulantes ==
  /\ pcCons = "leer" /\ liberados = Tripulantes
  /\ caido' = TRUE
  /\ UNCHANGED <<vSem, lista, continuar, pcCons, indice, vExp, vRam>>

\* The three posts commute with everything the trip can do before it takes them,
\* so they are one step with the mark.
ExpMarcar ==
  /\ pcCons = "marcar"
  /\ continuar' = [continuar EXCEPT ![victima] = FALSE]
  /\ sem_blocked' = [sem_blocked EXCEPT ![victima] = @ + 1]
  /\ sem_running' = [sem_running EXCEPT ![victima] = @ + 2]
  /\ pcCons' = "join"
  /\ UNCHANGED <<sem, lista, caido, vExp, vRam, indice>>

\* mutant: the console does not wait for the thread
ExpSinJoin ==
  /\ pcCons = "join"
  /\ pcCons' = "sacar"
  /\ UNCHANGED <<sem, sem_running, sem_blocked, lista, continuar, caido, vExp, vRam, indice>>

\* pthread_join
ExpJoin ==
  /\ pcCons = "join"
  /\ pc[victima] = "terminado"
  /\ pcCons' = "sacar"
  /\ UNCHANGED <<sem, sem_running, sem_blocked, lista, continuar, caido, vExp, vRam, indice>>

\* switch(trip->estado); quitar works on cola_ready without its mutex
ExpSacarReady ==
  /\ pcCons = "sacar" /\ estado[victima] = "READY"
  /\ pcCons' = "buscar_ready" /\ indice' = 1
  /\ UNCHANGED <<sem, sem_running, sem_blocked, lista, continuar, caido, vExp, vRam>>

\* one turn of quitar: list_get, whose NULL past the end is dereferenced
ExpBuscarReady ==
  /\ pcCons = "buscar_ready"
  /\ caido' = (indice > Len(lista["cola_ready"]))
  /\ IF ~caido' /\ lista["cola_ready"][indice] = victima
     THEN pcCons' = "sacar_ready" /\ UNCHANGED indice
     ELSE indice' = indice + 1 /\ UNCHANGED pcCons
  /\ UNCHANGED <<sem, sem_running, sem_blocked, lista, continuar, vExp, vRam>>

\* list_remove takes whoever is at that place by now, and past the end dies
ExpQuitarReady ==
  /\ pcCons = "sacar_ready"
  /\ caido' = (indice > Len(lista["cola_ready"]))
  /\ lista' = IF caido' THEN lista
              ELSE [lista EXCEPT !["cola_ready"] = RemoveAt(@, indice)]
  /\ pcCons' = "descontar" /\ indice' = 1
  /\ UNCHANGED <<sem, sem_running, sem_blocked, continuar, vExp, vRam>>

ExpDescontar ==
  /\ pcCons = "descontar"
  /\ Wait("tripulantes_ready")
  /\ pcCons' = "liberar"
  /\ UNCHANGED <<sem_running, sem_blocked, lista, continuar, caido, vExp, vRam, indice>>

ExpSacarRunning ==
  /\ pcCons = "sacar" /\ estado[victima] = "RUNNING"
  /\ quitar_running(victima)
  /\ pcCons' = "liberar"
  /\ UNCHANGED <<sem_running, sem_blocked, continuar, vExp, vRam, indice>>

\* free(list_remove(lista_tripulantes, index)), and the console reads again
ExpLiberar ==
  /\ \/ pcCons = "liberar"
     \/ pcCons = "sacar" /\ estado[victima] \notin {"READY", "RUNNING"}
  /\ liberados' = liberados \union {victima}
  /\ victima' = Nadie
  /\ pcCons' = "leer"
  /\ UNCHANGED <<sem, sem_running, sem_blocked, lista, continuar, caido, vRam, indice>>

expulsar_tripulante ==
  /\ \/ \E t \in Tripulantes : ExpPedir(t)
     \/ ExpSinTripulantes
     \/ ExpMarcar \/ ExpJoin \/ ExpSacarReady \/ ExpBuscarReady \/ ExpQuitarReady
     \/ ExpDescontar \/ ExpSacarRunning \/ ExpLiberar
  /\ UNCHANGED <<trip_block, estado, continuar_planificacion, hay_sabotaje, vTrip, vPlan,
                 pcIO, ordenes, planificacion_inicializada>>

-----------------------------------------------------------------------------
(* The walks and the planners *)

\* the head of the list goes while the walk, at place i, has found v there, or is
\* about to look at the place, not the first, where v is
Desfasa(l, i, v, hallado) ==
  hallado \/ (i > 1 /\ i <= Len(lista[l]) /\ lista[l][i] = v)

SeDesfasa ==
  \/ /\ pcPlan = "quitar_ready" /\ pcPlan' = "pasar_a_running"
     /\ pcCons \in {"buscar_ready", "sacar_ready"}
     /\ Desfasa("cola_ready", indice, victima, pcCons = "sacar_ready")
  \/ /\ pcIO = "quitar" /\ pcIO' = "avisar"
     /\ \E t \in Tripulantes :
          /\ pc[t] \in {"buscar_blocked", "sacar_blocked"}
          /\ Desfasa("cola_blocked", restan[t] + 1, t, pc[t] = "sacar_blocked")

NextExpulsion ==
  /\ ~caido
  /\ \/ \E t \in Tripulantes : TripulanteEscuchado(t) \/ PedirASordo(t)
     \/ PlanificadorEscuchado
     \/ planificador_io /\ UNCHANGED <<vExp, vRam>>
     \/ consola /\ UNCHANGED <<vExp, vRam>>
     \/ expulsar_tripulante
  /\ desfasado' = (desfasado \/ SeDesfasa)

SpecExpulsion == InitExpulsion /\ [][NextExpulsion]_varsExpulsion

-----------------------------------------------------------------------------
(* Properties *)

TypeOKExpulsion ==
  /\ TypeOK
  /\ victima \in Tripulantes \union {Nadie}
  /\ pcCons \in EtiquetasExpulsar => victima \in Tripulantes
  /\ desfasado \in BOOLEAN
  /\ liberados \subseteq sordos /\ sordos \subseteq Tripulantes
  /\ esperan \subseteq sordos \X {"tripulante", "planificador"}

\* A trip that was freed is in no list, has not the device and is not being
\* dispatched: no thread follows a pointer to it, as long as no planner has taken the
\* head of the list in which an expelled trip was being looked for.
SinColgantes ==
  ~caido /\ ~desfasado => \A t \in liberados :
    /\ \A l \in Listas : ~EstaEn(t, l)
    /\ trip_block # t
    /\ elegido # t

\* The device is free, or being given, or of the trip that trip_block points at:
\* an expulsion neither loses it nor hands it to two trips, in the same case.
DispositivoContado ==
  ~caido /\ ~desfasado =>
    sem["io_disponible"] + Uno(pcIO = "quitar") + Uno(trip_block # Nadie) = 1

\* The process dies of an expulsion only if a planner took the head of a list from
\* under the walk that looks for the trip; was moving the trip, or counted on it in a
\* queue, when it was taken out; if the trip was woken in cola_ready, where a
\* preemption had left it, just before its i/o; or if nobody is left to expel.
CaidaExplicada ==
  caido =>
    \/ desfasado
    \/ victima # Nadie /\ (elegido = victima \/ trip_block = victima)
    \/ victima # Nadie /\ pc[victima] = "bloquear"
    \/ pcPlan = "quitar_ready" /\ lista["cola_ready"] = <<>>
    \/ pcIO = "quitar" /\ lista["cola_blocked"] = <<>>
    \/ pcCons = "leer" /\ liberados = Tripulantes

\* A thread waits for an answer that will not come only while the trip is being
\* expelled: once it was freed nobody is left talking to its RAM thread, in the case
\* of SinColgantes.
EsperaDeLaVictima == ~caido /\ ~desfasado => \A e \in esperan : e[1] = victima
=============================================================================
