------------------------------ MODULE Sabotajes ------------------------------
(***************************************************************************)
(* The sabotage detector (discordiador/src/sabotajes.c) running beside the *)
(* threads of Planificador.  When i-Mongo-Store announces a sabotage the   *)
(* detector raises hay_sabotaje, takes every trip out of running and then  *)
(* out of ready, makes one of them resolve it, puts them all back in ready *)
(* and posts finalizo_sabotaje.                                            *)
(*                                                                         *)
(* cola_emergencia belongs to the detector alone, so a step of it is       *)
(* joined with the step of shared state next to it.  Positions are left    *)
(* out: any trip may be the nearest one.                                   *)
(***************************************************************************)
EXTENDS Planificador

CONSTANT MaxSabotajes   \* bound: sabotages that i-Mongo-Store announces

\* seleccionar_trip compares id_trip and then id_patota: trips are numbered in
\* that order
ASSUME TripulantesNumerados == Tripulantes \subseteq Nat /\ MaxSabotajes \in Nat

VARIABLES
  cola_emergencia,
  pcDet,        \* the detector thread
  preso,        \* the trip it is moving between lists, or Nadie
  sabotajes     \* sabotages so far

vDet == <<cola_emergencia, pcDet, preso, sabotajes>>
varsSabotaje == <<vars, vDet>>

InitSabotaje ==
  /\ Init
  /\ cola_emergencia = <<>> /\ pcDet = "recibir" /\ preso = Nadie /\ sabotajes = 0

-----------------------------------------------------------------------------
\* SABO_P: hay_sabotaje goes up before anything else
DetRecibir ==
  /\ pcDet = "recibir" /\ sabotajes < MaxSabotajes
  /\ sabotajes' = sabotajes + 1
  /\ hay_sabotaje' = TRUE
  /\ pcDet' = "pausa"
  /\ UNCHANGED <<sem, sem_blocked, lista, estado, caido, cola_emergencia, preso>>

DetMirarPausa ==
  /\ pcDet = "pausa"
  /\ pcDet' = IF continuar_planificacion THEN "mirar_running" ELSE "pausado"
  /\ UNCHANGED <<sem, sem_blocked, hay_sabotaje, lista, estado, caido, cola_emergencia,
                 preso, sabotajes>>

DetEsperarReanudacion ==
  /\ pcDet = "pausado"
  /\ Wait("sabotaje_pausado")
  /\ pcDet' = "mirar_running"
  /\ UNCHANGED <<sem_blocked, hay_sabotaje, lista, estado, caido, cola_emergencia, preso,
                 sabotajes>>

\* the two loops read list_is_empty without the lock of the list
DetMirarLista ==
  /\ \/ /\ pcDet = "mirar_running"
        /\ pcDet' = IF lista["tripulantes_running"] = <<>> THEN "mirar_ready"
                    ELSE "quitar_running"
     \/ /\ pcDet = "mirar_ready"
        /\ pcDet' = IF lista["cola_ready"] = <<>> THEN "elegir" ELSE "quitar_ready"
  /\ UNCHANGED <<sem, sem_blocked, hay_sabotaje, lista, estado, caido, cola_emergencia,
                 preso, sabotajes>>

\* mutant: the trip is chosen and not removed
DetQuitarSinSacar(l, sigue) ==
  /\ lista[l] # <<>>
  /\ preso' = Min(ToSet(lista[l]))
  /\ pcDet' = sigue
  /\ UNCHANGED <<sem, sem_blocked, hay_sabotaje, lista, estado, caido, cola_emergencia,
                 sabotajes>>

\* seleccionar_trip and list_remove, under the lock: the trip with the lowest
\* id.  On a list that was emptied meanwhile both get a null trip.
DetQuitar(l, sigue) ==
  /\ IF lista[l] = <<>>
     THEN /\ caido' = TRUE
          /\ UNCHANGED <<lista, preso, pcDet>>
     ELSE /\ preso' = Min(ToSet(lista[l]))
          /\ lista' = [lista EXCEPT ![l] = RemoveFirst(@, preso')]
          /\ pcDet' = sigue
          /\ UNCHANGED caido
  /\ UNCHANGED <<sem, sem_blocked, hay_sabotaje, estado, cola_emergencia, sabotajes>>

DetQuitarRunning ==
  pcDet = "quitar_running" /\ DetQuitar("tripulantes_running", "emergencia_running")
DetQuitarReady ==
  pcDet = "quitar_ready" /\ DetQuitar("cola_ready", "emergencia_ready")

\* agregar_emergencia
DetPasarAEmergencia ==
  /\ \/ pcDet = "emergencia_running" /\ pcDet' = "esperar_trip"
     \/ pcDet = "emergencia_ready" /\ pcDet' = "mirar_ready"
  /\ estado' = [estado EXCEPT ![preso] = "EMERGENCY"]
  /\ cola_emergencia' = Append(cola_emergencia, preso)
  /\ UNCHANGED <<sem, sem_blocked, hay_sabotaje, lista, caido, preso, sabotajes>>

\* the trip taken out of running answers in puede_continuar
DetEsperarTrip ==
  /\ pcDet = "esperar_trip"
  /\ sem_blocked[preso] > 0
  /\ sem_blocked' = [sem_blocked EXCEPT ![preso] = @ - 1]
  /\ pcDet' = "mirar_running"
  /\ UNCHANGED <<sem, hay_sabotaje, lista, estado, caido, cola_emergencia, preso, sabotajes>>

\* resolver_sabotaje: the nearest trip goes to the end of the queue
DetResolver ==
  /\ pcDet = "elegir"
  /\ \E i \in DOMAIN cola_emergencia :
       cola_emergencia' = Append(RemoveAt(cola_emergencia, i), cola_emergencia[i])
  /\ pcDet' = "devolver"
  /\ preso' = Nadie
  /\ UNCHANGED <<sem, sem_blocked, hay_sabotaje, lista, estado, caido, sabotajes>>

\* NO_SPC: nobody can resolve it, and hay_sabotaje stays up
DetSinTripulantes ==
  /\ pcDet = "elegir" /\ cola_emergencia = <<>>
  /\ pcDet' = "recibir"
  /\ preso' = Nadie
  /\ UNCHANGED <<sem, sem_blocked, hay_sabotaje, lista, estado, caido, cola_emergencia,
                 sabotajes>>

\* mutant: the state is not written back
DetPasarAReadySinEstado ==
  /\ pcDet = "devolver" /\ cola_emergencia # <<>>
  /\ preso' = Head(cola_emergencia)
  /\ cola_emergencia' = Tail(cola_emergencia)
  /\ pcDet' = "encolar_ready"
  /\ UNCHANGED <<sem, sem_blocked, hay_sabotaje, lista, estado, caido, sabotajes>>

\* agregar_ready, in two steps, for each trip of cola_emergencia
DetPasarAReady ==
  /\ pcDet = "devolver" /\ cola_emergencia # <<>>
  /\ preso' = Head(cola_emergencia)
  /\ cola_emergencia' = Tail(cola_emergencia)
  /\ estado' = [estado EXCEPT ![preso'] = "READY"]
  /\ pcDet' = "encolar_ready"
  /\ UNCHANGED <<sem, sem_blocked, hay_sabotaje, lista, caido, sabotajes>>

\* mutant: the planner is not told
DetEncolarReadySinPost ==
  /\ pcDet = "encolar_ready"
  /\ Encolar(preso, "cola_ready")
  /\ preso' = Nadie
  /\ pcDet' = "devolver"
  /\ UNCHANGED <<sem, sem_blocked, hay_sabotaje, estado, caido, cola_emergencia, sabotajes>>

DetEncolarReady ==
  /\ pcDet = "encolar_ready"
  /\ Encolar(preso, "cola_ready")
  /\ Post("tripulantes_ready")
  /\ preso' = Nadie
  /\ pcDet' = "devolver"
  /\ UNCHANGED <<sem_blocked, hay_sabotaje, estado, caido, cola_emergencia, sabotajes>>

DetTerminar ==
  /\ pcDet = "devolver" /\ cola_emergencia = <<>>
  /\ hay_sabotaje' = FALSE
  /\ pcDet' = "avisar_planificador"
  /\ UNCHANGED <<sem, sem_blocked, lista, estado, caido, cola_emergencia, preso, sabotajes>>

DetAvisarPlanificador ==
  /\ pcDet = "avisar_planificador"
  /\ Post("finalizo_sabotaje")
  /\ pcDet' = "avisar_io"
  /\ UNCHANGED <<sem_blocked, hay_sabotaje, lista, estado, caido, cola_emergencia, preso,
                 sabotajes>>

DetAvisarIO ==
  /\ pcDet = "avisar_io"
  /\ IF trip_block # Nadie THEN Post("finalizo_sabotaje") ELSE UNCHANGED sem
  /\ pcDet' = "recibir"
  /\ UNCHANGED <<sem_blocked, hay_sabotaje, lista, estado, caido, cola_emergencia, preso,
                 sabotajes>>

detector_sabotaje ==
  /\ \/ DetRecibir \/ DetMirarPausa \/ DetEsperarReanudacion
     \/ DetMirarLista \/ DetQuitarRunning \/ DetQuitarReady \/ DetPasarAEmergencia
     \/ DetEsperarTrip
     \/ DetResolver \/ DetSinTripulantes \/ DetPasarAReady \/ DetEncolarReady
     \/ DetTerminar \/ DetAvisarPlanificador \/ DetAvisarIO
  /\ UNCHANGED <<sem_running, trip_block, continuar, continuar_planificacion, vTrip, vPlan,
                 pcIO, vCons>>

NextSabotaje ==
  \/ Next /\ UNCHANGED vDet
  \/ ~caido /\ detector_sabotaje

SpecSabotaje == InitSabotaje /\ [][NextSabotaje]_varsSabotaje

-----------------------------------------------------------------------------
(* Properties *)

TypeOKSabotaje ==
  /\ TypeOK
  /\ cola_emergencia \in Seq(Tripulantes)
  /\ preso \in Tripulantes \union {Nadie}
  /\ pcDet \in {"recibir", "pausa", "pausado", "mirar_running", "quitar_running",
                "emergencia_running", "esperar_trip", "mirar_ready", "quitar_ready",
                "emergencia_ready", "elegir", "devolver", "encolar_ready",
                "avisar_planificador", "avisar_io"}
  /\ sabotajes \in 0 .. MaxSabotajes

\* the detector took t out of running, and t has not seen it yet
SinCupo(t) ==
  /\ ~EstaEn(t, "tripulantes_running")
  /\ \/ pc[t] \in {"pausa_inicio", "pausado_inicio", "ciclo", "quitar_quantum",
                   "pausa_puede", "pausado_puede", "emergencia", "tarea_hecha", "fin"}
     \/ pc[t] = "solicitar" /\ tarea[t] > 0
     \/ /\ pc[t] \in {"espera_inicio", "espera_quantum", "espera_io",
                      "ceder", "espera_emergencia"}
        /\ sem_running[t] > 0

\* The detector takes a trip out of running without giving its slot back: the
\* trip gives it back when it answers, perhaps after it was dispatched again.
\* Slots are still neither lost nor invented, whoever wins the race.
CupoConSabotaje ==
  ~caido => sem["multiprocesamiento"] + Len(lista["tripulantes_running"])
              + Cardinality({t \in Tripulantes : SinCupo(t)})
              + Cardinality({t \in Tripulantes : pc[t] = "ceder"}) + Uno(CupoTomado)
              = GRADO_MULTITAREA

\* The detector empties cola_ready without taking from tripulantes_ready, so the
\* semaphore counts too much and never too little: no trip stays in cola_ready
\* with nobody to dispatch it.
NadieOlvidado ==
  Len(lista["cola_ready"]) <= sem["tripulantes_ready"]
    + Uno(pcPlan \in {"cupo", "sabotaje", "finalizo", "mirar_cola", "quitar_ready"})

\* "para que se reactive la planificacion" (sabotajes.c:88): when the detector has
\* finished, a planner that stopped for the sabotage has its post waiting.
PlanificacionReactivada ==
  ~caido /\ pcDet = "recibir" /\ ~hay_sabotaje /\ pcPlan = "finalizo" =>
    sem["finalizo_sabotaje"] > 0
=============================================================================
