---------------------------- MODULE Planificador ----------------------------
(***************************************************************************)
(* The crew scheduler of the discordiador process: one thread per crew     *)
(* member (tripulante.c, rutina_tripulante), the short-term planner and    *)
(* the input/output planner (planificador.c), and the console thread that  *)
(* starts, pauses and resumes them (discordiador.c).  They share lists,    *)
(* counting semaphores and plain flags that no lock protects.              *)
(*                                                                         *)
(* A step is one access to shared state: a semaphore operation, a section  *)
(* under a mutex, a write of a state field or a read of a flag.  Writing   *)
(* trip->estado and queueing the trip are two steps, because the answer of *)
(* the RAM process is awaited between them (colas_planificacion.c).        *)
(*                                                                         *)
(* The sabotage detector and the expulsion of a trip have modules of their *)
(* own, which add their threads to this one; everything a trip does about  *)
(* them (estado EMERGENCY, hay_sabotaje, trip->continuar) is here.         *)
(***************************************************************************)
EXTENDS Naturals, Sequences, SequencesExt

CONSTANTS
  Tripulantes,       \* the crew members the console has created
  Nadie,             \* the null pointer to a trip
  GRADO_MULTITAREA,  \* crew members that may execute at once
  ALGORITMO,         \* "FIFO", or anything else for round robin
  QUANTUM,           \* cycles before a trip is preempted, under round robin
  Tareas,            \* Tareas[t]: the tasks of the patota of t, in order
  MaxOrdenes         \* bound: orders to start, resume or pause

(***************************************************************************)
(* A task is what its line of the tasks file makes the trip do: ciclos     *)
(* calls of puede_continuar (one for each step towards its place and for   *)
(* each cycle of ESPERAR, or the one that begins ejecutar_io), and then,   *)
(* for an input/output task, tiempo cycles with the device.                *)
(***************************************************************************)
Tarea == [ciclos : Nat, io : BOOLEAN, tiempo : Nat]

ASSUME ConstantesValidas ==
  /\ Nadie \notin Tripulantes
  /\ GRADO_MULTITAREA \in Nat
  /\ QUANTUM \in Nat \ {0}
  /\ MaxOrdenes \in Nat
  /\ Tareas \in [Tripulantes -> Seq(Tarea)]
  /\ \A t \in Tripulantes : \A i \in 1 .. Len(Tareas[t]) :
       Tareas[t][i].io => Tareas[t][i].ciclos > 0

Semaforos == {"activar_planificacion", "tripulantes_ready", "multiprocesamiento",
              "tripulantes_blocked", "io_disponible", "finalizo_sabotaje",
              "sabotaje_pausado"}
Listas == {"cola_ready", "cola_blocked", "tripulantes_running"}
Estados == {"NEW", "BLOCKED", "READY", "RUNNING", "EXIT", "EMERGENCY"}

VARIABLES
  sem,                         \* the global semaphores
  sem_running, sem_blocked,    \* the two semaphores of each trip
  lista,                       \* the lists of trips
  trip_block,                  \* the trip that has the device, or Nadie
  estado,                      \* trip->estado
  continuar,                   \* trip->continuar: FALSE once expelled
  continuar_planificacion, hay_sabotaje, planificacion_inicializada,
  pc,                          \* where each trip's thread is
  tarea,                       \* tasks each trip has asked for
  restan,                      \* cycles left of its task or i/o, or steps of its walk
  contador_ciclos,             \* trip->contador_ciclos
  pcPlan, elegido,             \* the planner, and the trip it is dispatching
  pcIO,                        \* the input/output planner
  pcCons, indice, ordenes,     \* the console, its loop index, orders so far
  caido                        \* the process died of a null dereference

vTrip == <<pc, tarea, restan, contador_ciclos>>
vPlan == <<pcPlan, elegido>>
vCons == <<pcCons, indice, ordenes, planificacion_inicializada>>
vSem  == <<sem, sem_running, sem_blocked>>
vars  == <<vSem, lista, trip_block, estado, continuar, continuar_planificacion,
           hay_sabotaje, vTrip, vPlan, pcIO, vCons, caido>>

\* crear_tripulante: each trip, its semaphores and its thread
InitTripulantes ==
  /\ sem_running = [t \in Tripulantes |-> 0]
  /\ sem_blocked = [t \in Tripulantes |-> 0]
  /\ estado = [t \in Tripulantes |-> "NEW"]
  /\ continuar = [t \in Tripulantes |-> TRUE]
  /\ pc = [t \in Tripulantes |-> "solicitar"]
  /\ tarea = [t \in Tripulantes |-> 0]
  /\ restan = [t \in Tripulantes |-> 0]
  /\ contador_ciclos = [t \in Tripulantes |-> 0]

\* inicializar_planificador: the lists, the semaphores and the two planners
InitPlanificador ==
  /\ sem = [s \in Semaforos |-> CASE s = "multiprocesamiento" -> GRADO_MULTITAREA
                                  [] s = "io_disponible" -> 1
                                  [] OTHER -> 0]
  /\ lista = [l \in Listas |-> <<>>]
  /\ trip_block = Nadie
  /\ pcPlan = "activar" /\ elegido = Nadie
  /\ pcIO = "esperar_trip"

\* the globals that main sets
InitConsola ==
  /\ continuar_planificacion = TRUE
  /\ hay_sabotaje = FALSE
  /\ planificacion_inicializada = FALSE
  /\ pcCons = "leer" /\ indice = 1 /\ ordenes = 0
  /\ caido = FALSE

Init == InitTripulantes /\ InitPlanificador /\ InitConsola

-----------------------------------------------------------------------------
(* Semaphores and lists *)

Sumar(s) == [sem EXCEPT ![s] = @ + 1]
Restar(s) == [sem EXCEPT ![s] = @ - 1]

\* mutant: sem_trywait, its answer ignored
WaitSinEsperar(s) == sem' = Restar(s)

\* sem_post and sem_wait on a global semaphore
Post(s) == sem' = Sumar(s)
Wait(s) == sem[s] > 0 /\ sem' = Restar(s)

EstaEn(t, l) == t \in ToSet(lista[l])
Encolar(t, l) == lista' = [lista EXCEPT ![l] = Append(@, t)]

\* quitar, called with the mutex of the list: removes t; past the end of the list
\* list_get answers NULL, which quitar dereferences
quitar(t, l) ==
  /\ caido' = ~EstaEn(t, l)
  /\ lista' = [lista EXCEPT ![l] = RemoveFirst(@, t)]

\* mutant: the slot is not given back
quitar_runningSinPost(t) == quitar(t, "tripulantes_running") /\ UNCHANGED sem

quitar_running(t) ==
  /\ quitar(t, "tripulantes_running")
  /\ sem' = IF EstaEn(t, "tripulantes_running") THEN Sumar("multiprocesamiento")
            ELSE sem

-----------------------------------------------------------------------------
(* The thread of a trip *)

\* where a trip goes after a step that does not choose
Sigue ==
  [ready_inicio |-> "encolar_inicio", encolar_inicio |-> "espera_inicio",
   espera_inicio |-> "pausa_inicio",
   pausa_inicio |-> "ciclo", pausado_inicio |-> "ciclo",
   quitar_quantum |-> "ready_quantum", ready_quantum |-> "encolar_quantum",
   encolar_quantum |-> "espera_quantum", espera_quantum |-> "pausa_puede",
   pausa_puede |-> "emergencia", pausado_puede |-> "emergencia",
   emergencia |-> "ciclo", espera_emergencia |-> "ciclo",
   pausa_io |-> "continuar_io", pausado_io |-> "continuar_io",
   sabotaje_io |-> "ciclo_io", finalizo_io |-> "ciclo_io",
   sabotaje_ciclo |-> "pausa_ciclo", finalizo_ciclo |-> "pausa_ciclo",
   pausa_ciclo |-> "ciclo_io", pausado_ciclo |-> "ciclo_io",
   vuelta_io |-> "ready_io", ready_io |-> "encolar_io", encolar_io |-> "espera_io",
   espera_io |-> "tarea_hecha", tarea_hecha |-> "solicitar"]

Ir(t, l) == pc' = [pc EXCEPT ![t] = l]
Seguir(t) == Ir(t, Sigue[pc[t]])

HayTarea(t) == tarea[t] \in 1 .. Len(Tareas[t])
Actual(t) == Tareas[t][tarea[t]]
\* the movement and the first puede_continuar of an i/o task are behind
TocaIO(t) == HayTarea(t) /\ Actual(t).io /\ restan[t] = 0

\* solicitar_tarea: the RAM answers the next task, or that there is none
SolicitarTarea(t) ==
  LET n == tarea[t] + 1
      hay == n <= Len(Tareas[t])
  IN /\ pc[t] = "solicitar"
     /\ tarea' = [tarea EXCEPT ![t] = n]
     /\ restan' = [restan EXCEPT ![t] = IF hay THEN Tareas[t][n].ciclos ELSE 0]
     /\ Ir(t, CASE n > 1 -> "ciclo"
                [] n = 1 /\ hay -> "ready_inicio"
                [] OTHER -> "pausa_inicio")
     /\ UNCHANGED <<vSem, lista, trip_block, estado, contador_ciclos, caido>>

\* agregar_ready, first half
PasarAReady(t) ==
  /\ pc[t] \in {"ready_inicio", "ready_quantum", "ready_io"}
  /\ estado' = [estado EXCEPT ![t] = "READY"]
  /\ Seguir(t)
  /\ UNCHANGED <<vSem, lista, trip_block, tarea, restan, contador_ciclos, caido>>

\* agregar_ready, second half; after a preemption the cycles start again at 0
EncolarReady(t) ==
  /\ pc[t] \in {"encolar_inicio", "encolar_quantum", "encolar_io"}
  /\ Encolar(t, "cola_ready")
  /\ Post("tripulantes_ready")
  /\ contador_ciclos' = IF pc[t] = "encolar_quantum"
                        THEN [contador_ciclos EXCEPT ![t] = 0] ELSE contador_ciclos
  /\ Seguir(t)
  /\ UNCHANGED <<sem_running, sem_blocked, trip_block, estado, tarea, restan, caido>>

\* every sem_wait(&trip->sem_running)
EsperarRunning(t) ==
  /\ pc[t] \in {"espera_inicio", "espera_quantum", "espera_emergencia", "espera_io",
                "pausado_inicio", "pausado_puede", "pausado_io", "pausado_ciclo"}
  /\ sem_running[t] > 0
  /\ sem_running' = [sem_running EXCEPT ![t] = @ - 1]
  /\ Seguir(t)
  /\ UNCHANGED <<sem, sem_blocked, lista, trip_block, estado, tarea, restan,
                 contador_ciclos, caido>>

\* every if(!continuar_planificacion) sem_wait(&trip->sem_running)
MirarPausa(t) ==
  /\ pc[t] \in {"pausa_inicio", "pausa_puede", "pausa_io", "pausa_ciclo"}
  /\ IF continuar_planificacion
     THEN Seguir(t)
     ELSE Ir(t, CASE pc[t] = "pausa_inicio" -> "pausado_inicio"
                  [] pc[t] = "pausa_puede" -> "pausado_puede"
                  [] pc[t] = "pausa_io" -> "pausado_io"
                  [] OTHER -> "pausado_ciclo")
  /\ UNCHANGED <<vSem, lista, trip_block, estado, tarea, restan, contador_ciclos, caido>>

\* one iteration of moverse or esperar, or the start of ejecutar_io, up to the
\* first shared access of puede_continuar
EjecutarCiclo(t) ==
  LET agotado == ALGORITMO # "FIFO" /\ contador_ciclos[t] + 1 = QUANTUM
  IN /\ pc[t] = "ciclo" /\ HayTarea(t) /\ continuar[t] /\ restan[t] > 0
     /\ restan' = [restan EXCEPT ![t] = @ - 1]
     /\ contador_ciclos' = IF ALGORITMO = "FIFO" THEN contador_ciclos
                           ELSE [contador_ciclos EXCEPT ![t] = @ + 1]
     /\ Ir(t, IF agotado THEN "quitar_quantum" ELSE "pausa_puede")
     /\ UNCHANGED <<vSem, lista, trip_block, estado, tarea, caido>>

\* puede_continuar: the quantum is over
DejarPorQuantum(t) ==
  /\ pc[t] = "quitar_quantum"
  /\ quitar_running(t)
  /\ Seguir(t)
  /\ UNCHANGED <<sem_running, sem_blocked, trip_block, estado, tarea, restan,
                 contador_ciclos>>

\* puede_continuar: the sabotage detector has taken the trip out of running
MirarEmergencia(t) ==
  /\ pc[t] = "emergencia"
  /\ IF estado[t] = "EMERGENCY"
     THEN /\ sem_blocked' = [sem_blocked EXCEPT ![t] = @ + 1]
          /\ Ir(t, "ceder")
     ELSE /\ Seguir(t)
          /\ UNCHANGED sem_blocked
  /\ UNCHANGED <<sem, sem_running, lista, trip_block, estado, tarea, restan,
                 contador_ciclos, caido>>

\* mutant: a trip in emergency keeps its slot
CederNada(t) ==
  /\ pc[t] = "ceder"
  /\ Ir(t, "espera_emergencia")
  /\ UNCHANGED <<vSem, lista, trip_block, estado, tarea, restan, contador_ciclos, caido>>

Ceder(t) ==
  /\ pc[t] = "ceder"
  /\ Post("multiprocesamiento")
  /\ Ir(t, "espera_emergencia")
  /\ UNCHANGED <<sem_running, sem_blocked, lista, trip_block, estado, tarea, restan,
                 contador_ciclos, caido>>

\* esperar is over, or moverse and esperar saw that the trip was expelled, or
\* the loop of rutina_tripulante has no task
DejarCiclo(t) ==
  /\ pc[t] = "ciclo" /\ ~TocaIO(t)
  /\ restan[t] = 0 \/ ~continuar[t] \/ ~HayTarea(t)
  /\ Ir(t, IF continuar[t] /\ HayTarea(t) THEN "solicitar" ELSE "fin")
  /\ UNCHANGED <<vSem, lista, trip_block, estado, tarea, restan, contador_ciclos, caido>>

\* ejecutar_io: quitar_running, then agregar_blocked in two steps
DejarPorIO(t) ==
  /\ pc[t] = "ciclo" /\ TocaIO(t)
  /\ quitar_running(t)
  /\ Ir(t, "bloquear")
  /\ UNCHANGED <<sem_running, sem_blocked, trip_block, estado, tarea, restan,
                 contador_ciclos>>

PasarABlocked(t) ==
  /\ pc[t] = "bloquear"
  /\ estado' = [estado EXCEPT ![t] = "BLOCKED"]
  /\ Ir(t, "encolar_blocked")
  /\ UNCHANGED <<vSem, lista, trip_block, tarea, restan, contador_ciclos, caido>>

\* mutant: the i/o planner is not told
EncolarBlockedSinPost(t) ==
  /\ pc[t] = "encolar_blocked"
  /\ Encolar(t, "cola_blocked")
  /\ Ir(t, "espera_blocked")
  /\ UNCHANGED <<vSem, trip_block, estado, tarea, restan, contador_ciclos, caido>>

EncolarBlocked(t) ==
  /\ pc[t] = "encolar_blocked"
  /\ Encolar(t, "cola_blocked")
  /\ Post("tripulantes_blocked")
  /\ Ir(t, "espera_blocked")
  /\ UNCHANGED <<sem_running, sem_blocked, trip_block, estado, tarea, restan,
                 contador_ciclos, caido>>

EsperarBlocked(t) ==
  /\ pc[t] = "espera_blocked"
  /\ sem_blocked[t] > 0
  /\ sem_blocked' = [sem_blocked EXCEPT ![t] = @ - 1]
  /\ Ir(t, "pausa_io")
  /\ UNCHANGED <<sem, sem_running, lista, trip_block, estado, tarea, restan,
                 contador_ciclos, caido>>

\* an expelled trip begins to look for itself in cola_blocked; any other has the
\* device
ContinuarIO(t) ==
  /\ pc[t] = "continuar_io"
  /\ restan' = [restan EXCEPT ![t] = IF continuar[t] THEN Actual(t).tiempo ELSE 0]
  /\ Ir(t, IF continuar[t] THEN "sabotaje_io" ELSE "buscar_blocked")
  /\ UNCHANGED <<vSem, lista, trip_block, estado, tarea, contador_ciclos, caido>>

\* one turn of quitar(trip, cola_blocked), called without the mutex: list_get,
\* whose NULL past the end is dereferenced
BuscarBlocked(t) ==
  /\ pc[t] = "buscar_blocked" /\ ~continuar[t]
  /\ caido' = (restan[t] >= Len(lista["cola_blocked"]))
  /\ IF ~caido' /\ lista["cola_blocked"][restan[t] + 1] = t
     THEN Ir(t, "sacar_blocked") /\ UNCHANGED restan
     ELSE restan' = [restan EXCEPT ![t] = @ + 1] /\ UNCHANGED pc
  /\ UNCHANGED <<vSem, lista, trip_block, estado, tarea, contador_ciclos>>

\* list_remove takes whoever is at that place by now, and past the end dies
SacarBlocked(t) ==
  /\ pc[t] = "sacar_blocked" /\ ~continuar[t]
  /\ caido' = (restan[t] >= Len(lista["cola_blocked"]))
  /\ lista' = IF caido' THEN lista
              ELSE [lista EXCEPT !["cola_blocked"] = RemoveAt(@, restan[t] + 1)]
  /\ restan' = [restan EXCEPT ![t] = 0]
  /\ Ir(t, "fin")
  /\ UNCHANGED <<vSem, trip_block, estado, tarea, contador_ciclos>>

\* every if(hay_sabotaje) of ejecutar_io
MirarSabotaje(t) ==
  /\ pc[t] \in {"sabotaje_io", "sabotaje_ciclo"}
  /\ IF ~hay_sabotaje
     THEN Seguir(t)
     ELSE Ir(t, IF pc[t] = "sabotaje_io" THEN "finalizo_io" ELSE "finalizo_ciclo")
  /\ UNCHANGED <<vSem, lista, trip_block, estado, tarea, restan, contador_ciclos, caido>>

EsperarFinSabotaje(t) ==
  /\ pc[t] \in {"finalizo_io", "finalizo_ciclo"}
  /\ Wait("finalizo_sabotaje")
  /\ Seguir(t)
  /\ UNCHANGED <<sem_running, sem_blocked, lista, trip_block, estado, tarea, restan,
                 contador_ciclos, caido>>

CicloIO(t) ==
  /\ pc[t] = "ciclo_io" /\ continuar[t] /\ restan[t] > 0
  /\ restan' = [restan EXCEPT ![t] = @ - 1]
  /\ Ir(t, "sabotaje_ciclo")
  /\ UNCHANGED <<vSem, lista, trip_block, estado, tarea, contador_ciclos, caido>>

\* mutant: trip_block keeps pointing at the trip
SoltarIOSinNull(t) ==
  /\ pc[t] = "ciclo_io" /\ (~continuar[t] \/ restan[t] = 0)
  /\ Post("io_disponible")
  /\ Ir(t, "vuelta_io")
  /\ UNCHANGED <<sem_running, sem_blocked, lista, trip_block, estado, tarea, restan,
                 contador_ciclos, caido>>

SoltarIO(t) ==
  /\ pc[t] = "ciclo_io" /\ (~continuar[t] \/ restan[t] = 0)
  /\ trip_block' = Nadie
  /\ Post("io_disponible")
  /\ Ir(t, "vuelta_io")
  /\ UNCHANGED <<sem_running, sem_blocked, lista, estado, tarea, restan,
                 contador_ciclos, caido>>

\* if(trip->continuar) after the i/o and after the task
MirarContinuar(t) ==
  /\ pc[t] \in {"vuelta_io", "tarea_hecha"}
  /\ IF continuar[t] THEN Seguir(t) ELSE Ir(t, "fin")
  /\ UNCHANGED <<vSem, lista, trip_block, estado, tarea, restan, contador_ciclos, caido>>

\* the end of rutina_tripulante
Finalizar(t) ==
  /\ pc[t] = "fin" /\ continuar[t]
  /\ quitar_running(t)
  /\ Ir(t, "exit")
  /\ UNCHANGED <<sem_running, sem_blocked, trip_block, estado, tarea, restan,
                 contador_ciclos>>

PasarAExit(t) ==
  /\ pc[t] = "exit"
  /\ estado' = [estado EXCEPT ![t] = "EXIT"]
  /\ Ir(t, "terminado")
  /\ UNCHANGED <<vSem, lista, trip_block, tarea, restan, contador_ciclos, caido>>

FinalizarExpulsado(t) ==
  /\ pc[t] = "fin" /\ ~continuar[t]
  /\ sem_blocked' = [sem_blocked EXCEPT ![t] = @ + 1]
  /\ Ir(t, "terminado")
  /\ UNCHANGED <<sem, sem_running, lista, trip_block, estado, tarea, restan,
                 contador_ciclos, caido>>

Tripulante(t) ==
  /\ \/ SolicitarTarea(t) \/ PasarAReady(t) \/ EncolarReady(t)
     \/ EsperarRunning(t) \/ MirarPausa(t)
     \/ EjecutarCiclo(t) \/ DejarPorQuantum(t) \/ MirarEmergencia(t) \/ Ceder(t)
     \/ DejarCiclo(t)
     \/ DejarPorIO(t) \/ PasarABlocked(t) \/ EncolarBlocked(t) \/ EsperarBlocked(t)
     \/ ContinuarIO(t) \/ BuscarBlocked(t) \/ SacarBlocked(t)
     \/ MirarSabotaje(t) \/ EsperarFinSabotaje(t)
     \/ CicloIO(t) \/ SoltarIO(t) \/ MirarContinuar(t)
     \/ Finalizar(t) \/ PasarAExit(t) \/ FinalizarExpulsado(t)
  /\ UNCHANGED <<continuar, continuar_planificacion, hay_sabotaje, vPlan, pcIO, vCons>>

-----------------------------------------------------------------------------
(* The planner thread *)

PlanActivar ==
  /\ pcPlan = "activar"
  /\ Wait("activar_planificacion")
  /\ pcPlan' = "continuar"
  /\ UNCHANGED <<continuar_planificacion, sem_running, lista, estado, elegido, caido>>

PlanContinuar ==
  /\ pcPlan = "continuar"
  /\ continuar_planificacion' = TRUE
  /\ pcPlan' = "ready"
  /\ UNCHANGED <<vSem, lista, estado, elegido, caido>>

PlanEsperarReady ==
  /\ pcPlan = "ready"
  /\ Wait("tripulantes_ready")
  /\ pcPlan' = "cupo"
  /\ UNCHANGED <<continuar_planificacion, sem_running, lista, estado, elegido, caido>>

\* mutant: the planner does not wait for a slot
PlanSinEsperarCupo ==
  /\ pcPlan = "cupo"
  /\ pcPlan' = "sabotaje"
  /\ UNCHANGED <<continuar_planificacion, vSem, lista, estado, elegido, caido>>

PlanEsperarCupo ==
  /\ pcPlan = "cupo"
  /\ Wait("multiprocesamiento")
  /\ pcPlan' = "sabotaje"
  /\ UNCHANGED <<continuar_planificacion, sem_running, lista, estado, elegido, caido>>

PlanMirarSabotaje ==
  /\ pcPlan = "sabotaje"
  /\ pcPlan' = IF hay_sabotaje THEN "finalizo" ELSE "mirar_cola"
  /\ UNCHANGED <<continuar_planificacion, vSem, lista, estado, elegido, caido>>

PlanEsperarFinSabotaje ==
  /\ pcPlan = "finalizo"
  /\ Wait("finalizo_sabotaje")
  /\ pcPlan' = "mirar_cola"
  /\ UNCHANGED <<continuar_planificacion, sem_running, lista, estado, elegido, caido>>

\* list_size(cola_ready) > 0, read without the lock
PlanHayReady ==
  /\ pcPlan = "mirar_cola" /\ Len(lista["cola_ready"]) > 0
  /\ pcPlan' = "quitar_ready"
  /\ UNCHANGED <<continuar_planificacion, vSem, lista, estado, elegido, caido>>

PlanSinReady ==
  /\ pcPlan = "mirar_cola" /\ Len(lista["cola_ready"]) = 0
  /\ Post("multiprocesamiento")
  /\ pcPlan' = "ready"
  /\ UNCHANGED <<continuar_planificacion, sem_running, lista, estado, elegido, caido>>

\* quitar_ready: on an empty list the process dies
PlanQuitarReady ==
  /\ pcPlan = "quitar_ready"
  /\ IF lista["cola_ready"] = <<>>
     THEN /\ caido' = TRUE
          /\ UNCHANGED <<pcPlan, elegido, lista>>
     ELSE /\ elegido' = Head(lista["cola_ready"])
          /\ lista' = [lista EXCEPT !["cola_ready"] = Tail(@)]
          /\ pcPlan' = "pasar_a_running"
          /\ UNCHANGED caido
  /\ UNCHANGED <<continuar_planificacion, vSem, estado>>

\* agregar_running, in two steps
PlanPasarARunning ==
  /\ pcPlan = "pasar_a_running"
  /\ estado' = [estado EXCEPT ![elegido] = "RUNNING"]
  /\ pcPlan' = "encolar_running"
  /\ UNCHANGED <<continuar_planificacion, vSem, lista, elegido, caido>>

PlanEncolarRunning ==
  /\ pcPlan = "encolar_running"
  /\ Encolar(elegido, "tripulantes_running")
  /\ sem_running' = [sem_running EXCEPT ![elegido] = @ + 1]
  /\ elegido' = Nadie
  /\ pcPlan' = "ready"
  /\ UNCHANGED <<continuar_planificacion, sem, estado, caido>>

planificador ==
  /\ \/ PlanActivar \/ PlanContinuar
     \/ PlanEsperarReady \/ PlanEsperarCupo
     \/ PlanMirarSabotaje \/ PlanEsperarFinSabotaje
     \/ PlanHayReady \/ PlanSinReady \/ PlanQuitarReady
     \/ PlanPasarARunning \/ PlanEncolarRunning
  /\ UNCHANGED <<sem_blocked, trip_block, continuar, hay_sabotaje, vTrip, pcIO, vCons>>

-----------------------------------------------------------------------------
(* The input/output planner thread *)

IOEsperarTrip ==
  /\ pcIO = "esperar_trip"
  /\ Wait("tripulantes_blocked")
  /\ pcIO' = "esperar_io"
  /\ UNCHANGED <<sem_blocked, lista, trip_block, caido>>

IOEsperarDispositivo ==
  /\ pcIO = "esperar_io"
  /\ Wait("io_disponible")
  /\ pcIO' = "quitar"
  /\ UNCHANGED <<sem_blocked, lista, trip_block, caido>>

\* list_remove on an empty list: the process dies
IOQuitarBlocked ==
  /\ pcIO = "quitar"
  /\ IF lista["cola_blocked"] = <<>>
     THEN /\ caido' = TRUE
          /\ UNCHANGED <<pcIO, trip_block, lista>>
     ELSE /\ trip_block' = Head(lista["cola_blocked"])
          /\ lista' = [lista EXCEPT !["cola_blocked"] = Tail(@)]
          /\ pcIO' = "avisar"
          /\ UNCHANGED caido
  /\ UNCHANGED <<sem, sem_blocked>>

IOAvisar ==
  /\ pcIO = "avisar"
  /\ IF trip_block = Nadie
     THEN /\ caido' = TRUE
          /\ UNCHANGED <<pcIO, sem_blocked>>
     ELSE /\ sem_blocked' = [sem_blocked EXCEPT ![trip_block] = @ + 1]
          /\ pcIO' = "esperar_trip"
          /\ UNCHANGED caido
  /\ UNCHANGED <<sem, lista, trip_block>>

planificador_io ==
  /\ IOEsperarTrip \/ IOEsperarDispositivo \/ IOQuitarBlocked \/ IOAvisar
  /\ UNCHANGED <<sem_running, estado, continuar, continuar_planificacion, hay_sabotaje,
                 vTrip, vPlan, vCons>>

-----------------------------------------------------------------------------
(* The console thread: iniciar_planificacion and pausar_planificacion *)

NuevaOrden ==
  /\ pcCons = "leer" /\ ordenes < MaxOrdenes
  /\ ordenes' = ordenes + 1

IniciarPlanificacion ==
  /\ NuevaOrden
  /\ ~planificacion_inicializada
  /\ planificacion_inicializada' = TRUE
  /\ Post("activar_planificacion")
  /\ UNCHANGED <<continuar_planificacion, sem_running, pcCons, indice, caido>>

Reiniciar ==
  /\ NuevaOrden
  /\ planificacion_inicializada
  /\ continuar_planificacion' = TRUE
  /\ indice' = 1
  /\ pcCons' = "mirar_running"
  /\ UNCHANGED <<vSem, planificacion_inicializada, caido>>

\* the loop over tripulantes_running, read without its lock: the size and the
\* element are two reads, and list_get past the end answers NULL
ReiniciarMirar ==
  /\ pcCons = "mirar_running"
  /\ pcCons' = IF indice <= Len(lista["tripulantes_running"])
               THEN "post_running" ELSE "mirar_block"
  /\ UNCHANGED <<continuar_planificacion, vSem, planificacion_inicializada, indice,
                 ordenes, caido>>

ReiniciarPost ==
  /\ pcCons = "post_running"
  /\ IF indice > Len(lista["tripulantes_running"])
     THEN /\ caido' = TRUE
          /\ UNCHANGED <<pcCons, indice, sem_running>>
     ELSE /\ LET t == lista["tripulantes_running"][indice]
             IN sem_running' = [sem_running EXCEPT ![t] = @ + 1]
          /\ indice' = indice + 1
          /\ pcCons' = "mirar_running"
          /\ UNCHANGED caido
  /\ UNCHANGED <<continuar_planificacion, sem, planificacion_inicializada, ordenes>>

\* if(trip_block != NULL) sem_post(&trip_block->sem_running): two reads
ReiniciarMirarBlock ==
  /\ pcCons = "mirar_block"
  /\ pcCons' = IF trip_block # Nadie THEN "post_block" ELSE "mirar_sabotaje"
  /\ UNCHANGED <<continuar_planificacion, vSem, planificacion_inicializada, indice,
                 ordenes, caido>>

ReiniciarPostBlock ==
  /\ pcCons = "post_block"
  /\ IF trip_block = Nadie
     THEN /\ caido' = TRUE
          /\ UNCHANGED <<pcCons, sem_running>>
     ELSE /\ sem_running' = [sem_running EXCEPT ![trip_block] = @ + 1]
          /\ pcCons' = "mirar_sabotaje"
          /\ UNCHANGED caido
  /\ UNCHANGED <<continuar_planificacion, sem, planificacion_inicializada, indice, ordenes>>

ReiniciarMirarSabotaje ==
  /\ pcCons = "mirar_sabotaje"
  /\ IF hay_sabotaje THEN Post("sabotaje_pausado") ELSE UNCHANGED sem
  /\ pcCons' = "leer"
  /\ indice' = 1
  /\ UNCHANGED <<continuar_planificacion, sem_running, planificacion_inicializada,
                 ordenes, caido>>

pausar_planificacion ==
  /\ NuevaOrden
  /\ continuar_planificacion' = FALSE
  /\ UNCHANGED <<vSem, planificacion_inicializada, pcCons, indice, caido>>

\* the part of iniciar_planificacion that runs after the order was read
TerminarOrden ==
  \/ ReiniciarMirar \/ ReiniciarPost \/ ReiniciarMirarBlock \/ ReiniciarPostBlock
  \/ ReiniciarMirarSabotaje

iniciar_planificacion == IniciarPlanificacion \/ Reiniciar \/ TerminarOrden

consola ==
  /\ iniciar_planificacion \/ pausar_planificacion
  /\ UNCHANGED <<sem_blocked, lista, trip_block, estado, continuar, hay_sabotaje, vTrip,
                 vPlan, pcIO>>

-----------------------------------------------------------------------------
(* A process that died takes no step. *)
Next ==
  /\ ~caido
  /\ (\E t \in Tripulantes : Tripulante(t)) \/ planificador \/ planificador_io \/ consola

Spec == Init /\ [][Next]_vars

(***************************************************************************)
(* Each thread keeps running while it can.  A semaphore here has a single  *)
(* waiter, except finalizo_sabotaje, so weak fairness is what the operating *)
(* system gives.  The orders themselves are the user's and have none.      *)
(***************************************************************************)
Justicia ==
  /\ \A t \in Tripulantes : WF_vars(~caido /\ Tripulante(t))
  /\ WF_vars(~caido /\ planificador)
  /\ WF_vars(~caido /\ planificador_io)
  /\ WF_vars(~caido /\ pcCons # "leer" /\ consola)

SpecJusta == Spec /\ Justicia
-----------------------------------------------------------------------------
(* Properties *)

Uno(b) == IF b THEN 1 ELSE 0

EtiquetasTrip ==
  {"solicitar", "ready_inicio", "encolar_inicio", "espera_inicio", "pausa_inicio",
   "pausado_inicio", "ciclo", "quitar_quantum", "ready_quantum", "encolar_quantum",
   "espera_quantum", "pausa_puede", "pausado_puede", "emergencia", "ceder",
   "espera_emergencia", "bloquear", "encolar_blocked", "espera_blocked", "pausa_io",
   "pausado_io", "continuar_io", "buscar_blocked", "sacar_blocked", "sabotaje_io", "finalizo_io", "ciclo_io",
   "sabotaje_ciclo", "finalizo_ciclo", "pausa_ciclo", "pausado_ciclo", "vuelta_io",
   "ready_io", "encolar_io", "espera_io", "tarea_hecha", "fin", "exit", "terminado"}
EtiquetasPlan == {"activar", "continuar", "ready", "cupo", "sabotaje", "finalizo",
                  "mirar_cola", "quitar_ready", "pasar_a_running", "encolar_running"}
EtiquetasIO == {"esperar_trip", "esperar_io", "quitar", "avisar"}
\* the labels of expulsar_tripulante (Expulsiones)
EtiquetasExpulsar ==
  {"marcar", "join", "sacar", "buscar_ready", "sacar_ready", "descontar", "liberar"}
EtiquetasConsola ==
  EtiquetasExpulsar \union {"leer", "mirar_running", "post_running", "mirar_block",
                            "post_block", "mirar_sabotaje"}

TipoSemaforos ==
  /\ sem \in [Semaforos -> Nat]
  /\ sem_running \in [Tripulantes -> Nat]
  /\ sem_blocked \in [Tripulantes -> Nat]
TipoListas ==
  /\ lista \in [Listas -> Seq(Tripulantes)]
  /\ trip_block \in Tripulantes \union {Nadie}
TipoTripulantes ==
  /\ estado \in [Tripulantes -> Estados]
  /\ continuar \in [Tripulantes -> BOOLEAN]
  /\ pc \in [Tripulantes -> EtiquetasTrip]
  /\ tarea \in [Tripulantes -> Nat]
  /\ restan \in [Tripulantes -> Nat]
  /\ contador_ciclos \in [Tripulantes -> Nat]
TipoHilos ==
  /\ continuar_planificacion \in BOOLEAN /\ hay_sabotaje \in BOOLEAN
  /\ planificacion_inicializada \in BOOLEAN /\ caido \in BOOLEAN
  /\ pcPlan \in EtiquetasPlan /\ pcIO \in EtiquetasIO /\ pcCons \in EtiquetasConsola
  /\ elegido \in Tripulantes \union {Nadie}
  /\ pcPlan \in {"pasar_a_running", "encolar_running"} => elegido \in Tripulantes
  /\ indice \in Nat \ {0} /\ ordenes \in 0 .. MaxOrdenes

\* The type invariant: every variable holds a value of its C type, and the
\* planner has a trip in its hands whenever it dereferences it.
TypeOK == TipoSemaforos /\ TipoListas /\ TipoTripulantes /\ TipoHilos

\* The planner has taken a unit of multiprocesamiento and not spent it yet
CupoTomado == pcPlan \in {"sabotaje", "finalizo", "mirar_cola", "quitar_ready",
                          "pasar_a_running", "encolar_running"}

\* No slot is lost or invented: the free ones, those of the trips in running
\* and the one in the planner's hands are GRADO_MULTITAREA, in every order in
\* which the planner, the trips that leave running and the console act.
CupoConservado ==
  sem["multiprocesamiento"] + Len(lista["tripulantes_running"]) + Uno(CupoTomado)
    = GRADO_MULTITAREA

\* A unit of tripulantes_ready stands for a trip in cola_ready, one of blocked
\* for a trip in cola_blocked: neither planner takes from an empty list and no
\* queued trip is forgotten.
ColasContadas ==
  /\ sem["tripulantes_ready"]
       + Uno(pcPlan \in {"cupo", "sabotaje", "finalizo", "mirar_cola", "quitar_ready"})
       = Len(lista["cola_ready"])
  /\ sem["tripulantes_blocked"] + Uno(pcIO \in {"esperar_io", "quitar"})
       = Len(lista["cola_blocked"])

\* t is executing a task on a slot: moving, waiting, or giving the slot back
Ejecuta(t) ==
  /\ HayTarea(t) /\ continuar[t]
  /\ pc[t] \in {"ciclo", "quitar_quantum", "pausa_puede", "emergencia"}

\* What GRADO_MULTITAREA configures: at most so many trips execute at once.
GradoRespetado == Cardinality({t \in Tripulantes : Ejecuta(t)}) <= GRADO_MULTITAREA

Veces(t, l) == Cardinality({i \in DOMAIN lista[l] : lista[l][i] = t})

\* A trip is in one list at most, once, and a trip the planner is dispatching
\* in none: no trip is dispatched twice.
EnUnaLista ==
  \A t \in Tripulantes :
    Veces(t, "cola_ready") + Veces(t, "cola_blocked") + Veces(t, "tripulantes_running")
      + Uno(elegido = t) <= 1

\* trip->estado, which the console lists and the RAM process stores, names the
\* list the trip is in, and a trip that has finished is in none.
EstadoVeraz ==
  \A t \in Tripulantes :
    /\ EstaEn(t, "cola_ready") => estado[t] = "READY"
    /\ EstaEn(t, "cola_blocked") => estado[t] = "BLOCKED"
    /\ EstaEn(t, "tripulantes_running") => estado[t] = "RUNNING"
    /\ pc[t] = "terminado" => estado[t] = "EXIT" /\ \A l \in Listas : ~EstaEn(t, l)

\* No thread dereferences a null trip: quitar finds the trip it looks for and
\* the planners and the console find the trip they count on.
SinCaida == ~caido

\* Once planning has started every trip does all its tasks and ends.
TodosTerminan ==
  planificacion_inicializada ~> \A t \in Tripulantes : pc[t] = "terminado"
=============================================================================
