------------------------- MODULE DiscordiadorPruebas --------------------------
(***************************************************************************)
(* Proofs about Sabotajes and Expulsiones, the two modules that extend the *)
(* scheduler with another thread of the discordiador.  They share the      *)
(* lemmas of PlanificadorPruebas, and none of their own: each part below   *)
(* has its inductive invariants, its lemmas and its theorems.              *)
(***************************************************************************)
EXTENDS Sabotajes, Expulsiones, PlanificadorPruebas

-----------------------------------------------------------------------------
(***************************************************************************)
(* Proofs about Sabotajes, for every crew, task list, algorithm, QUANTUM,  *)
(* GRADO_MULTITAREA and number of sabotages.  Whatever the user orders,    *)
(* the types hold and no trip is forgotten in cola_ready.  Until the user  *)
(* resumes planning, a sabotage loses no slot, leaves each trip in one     *)
(* place, keeps estado true and confuses no two posts of sem_blocked.      *)
(*                                                                         *)
(* With the detector a trip may be in a fifth place, cola_emergencia, and  *)
(* in its hands on the way there and back.  The heart of the invariant is  *)
(* Arrancado: while the detector waits for the trip it took out of running *)
(* that trip alone has a slot without a place in running, and no other     *)
(* trip can see itself in EMERGENCY.                                       *)
(***************************************************************************)

-----------------------------------------------------------------------------
(* The invariants, whatever the user orders *)

\* the detector has a trip in its hands whenever it dereferences it
PresoValido ==
  pcDet \in {"emergencia_running", "emergencia_ready", "esperar_trip", "encolar_ready"}
    => preso \in Tripulantes

\* The inductive invariant for every order.
IInvSabotaje == TypeOKSabotaje /\ TareaEnIO /\ PresoValido /\ NadieOlvidado

-----------------------------------------------------------------------------
(* The invariants while nobody resumes planning, trip by trip *)

\* the detector is moving t between two lists
EnManos(t) ==
  preso = t /\ pcDet \in {"emergencia_running", "emergencia_ready", "encolar_ready"}
EnEmergencia(t) == t \in ToSet(cola_emergencia)
Retenido(t) == EnEmergencia(t) \/ EnManos(t)

\* the detector took t out of running and waits for its answer
Arrancado(t) == preso = t /\ pcDet \in {"emergencia_running", "esperar_trip"}

\* the detector has emptied cola_emergencia, or not begun to fill it
Reposo == {"recibir", "pausa", "pausado", "avisar_planificador", "avisar_io"}

\* t is in one place at most.
Sitio(t) ==
  /\ \A l, m \in Listas : EstaEn(t, l) /\ EstaEn(t, m) => l = m
  /\ elegido = t => \A l \in Listas : ~EstaEn(t, l)
  /\ Retenido(t) => Ausente(t)
  /\ EnEmergencia(t) => ~EnManos(t) /\ pcDet \notin Reposo
  /\ pcDet = "esperar_trip" /\ preso = t => EnEmergencia(t)

\* estado names the place, also just before t gets there; EMERGENCY means
\* cola_emergencia.
Nombre(t) ==
  /\ EstaEn(t, "cola_ready") => estado[t] = "READY"
  /\ EstaEn(t, "cola_blocked") => estado[t] = "BLOCKED"
  /\ EstaEn(t, "tripulantes_running") => estado[t] = "RUNNING"
  /\ pcPlan = "encolar_running" /\ elegido = t => estado[t] = "RUNNING"
  /\ pcDet = "encolar_ready" /\ preso = t => estado[t] = "READY"
  /\ EnEmergencia(t) <=> estado[t] = "EMERGENCY"
  /\ Nombrado(t)

\* t waits for the planner, after a sabotage too
EnEspera(t) == pc[t] \in EsperaCupo \union {"ceder", "espera_emergencia"}

\* t has been dispatched and not given its slot back
ConCupo(t) == Despachado(t) \/ (EnEspera(t) /\ sem_running[t] = 1)

\* t has answered the detector, which has not read the answer
Contesto(t) ==
  pcDet = "esperar_trip" /\ pc[t] \in {"ceder", "espera_emergencia"} /\ sem_running[t] = 0
    /\ sem_blocked[t] = 1

\* Only a trip in running, or that the detector took from there, has a slot; any
\* other that the planner may dispatch waits for it.
Turno(t) ==
  /\ EstaEn(t, "cola_ready") \/ elegido = t \/ (Retenido(t) /\ ~Arrancado(t)) =>
       EnEspera(t) /\ sem_running[t] = 0 /\ sem_blocked[t] = 0
  /\ EstaEn(t, "tripulantes_running") => ConCupo(t) /\ sem_blocked[t] = 0
  /\ Arrancado(t) => (ConCupo(t) /\ sem_blocked[t] = 0) \/ Contesto(t)
  /\ ConCupo(t) /\ Tareas[t] # <<>> => EstaEn(t, "tripulantes_running") \/ Arrancado(t)
  /\ sem_running[t] > 0 => EnEspera(t) /\ sem_running[t] = 1

\* t is being given the device
LeToca(t) == pcIO = "avisar" /\ trip_block = t

\* Only a trip that waits for the device, or that the detector waits for, has its
\* sem_blocked posted.
Bloqueo(t) ==
  /\ EstaEn(t, "cola_blocked") \/ LeToca(t) => pc[t] = "espera_blocked" /\ sem_blocked[t] = 0
  /\ sem_blocked[t] > 0 =>
       sem_blocked[t] = 1 /\ (pc[t] = "espera_blocked" \/ (Arrancado(t) /\ Contesto(t)))
  /\ pc[t] = "espera_blocked" /\ (sem_blocked[t] > 0 \/ LeToca(t)) =>
       Ausente(t) /\ ~Retenido(t)

\* A trip between two lists is in none, and is not the detector's.
Ausencia(t) == Viaja(t) => Ausente(t) /\ ~Retenido(t)

\* Of a process that died only the lists and the states are left to speak of.
Colocado(t) ==
  /\ Sitio(t) /\ Nombre(t)
  /\ pc[t] = "solicitar" \/ tarea[t] > 0
  /\ ~caido => Turno(t) /\ Bloqueo(t) /\ Ausencia(t)

\* The inductive invariant of an execution without a resumption.
Colocados ==
  /\ IInvSabotaje
  /\ \A l \in Listas : IsInjective(lista[l])
  /\ IsInjective(cola_emergencia)
  /\ pcCons = "leer"
  /\ \A t \in Tripulantes : continuar[t] = TRUE
  /\ \A t \in Tripulantes : Colocado(t)

\* the trip that the detector took out of running has its slot still
Suelto == preso \in Tripulantes /\ Arrancado(preso) /\ ConCupo(preso)

\* the trips that have answered the detector and not given their slot back
Cediendo == {t \in Tripulantes : pc[t] = "ceder"}

\* Where the slots are: free, in running, with the trip the detector waits for, with
\* those that have answered it, and in the planner's hands.
CuposSabotaje ==
  /\ Colocados
  /\ IsFiniteSet(Cediendo)
  /\ ~caido => sem["multiprocesamiento"] + Len(lista["tripulantes_running"]) + Uno(Suelto)
                 + Cardinality(Cediendo) + Uno(CupoTomado) = GRADO_MULTITAREA

-----------------------------------------------------------------------------
(* Whatever the user orders: types, and nobody forgotten *)

\* seleccionar_trip finds a trip in a list that is not empty.
LEMMA Seleccion ==
  ASSUME TypeOK, NEW l \in Listas, lista[l] # <<>>
  PROVE  Min(ToSet(lista[l])) \in ToSet(lista[l]) /\ ToSet(lista[l]) \subseteq Tripulantes
<1>1. lista[l] \in Seq(Tripulantes)
  BY DEF TypeOK, TipoListas
<1>2. ToSet(lista[l]) \subseteq Tripulantes
  BY <1>1 DEF ToSet
<1>3. ToSet(lista[l]) \in SUBSET Nat /\ ToSet(lista[l]) # {}
  <2>1. lista[l][1] \in ToSet(lista[l])
    BY <1>1 DEF ToSet
  <2> QED BY <1>2, <2>1, TripulantesNumerados
<1>4. Min(ToSet(lista[l])) \in ToSet(lista[l])
  BY <1>3, MinimoExiste
<1> QED BY <1>2, <1>4

\* What DetQuitar does: the process dies, or the trip it chose leaves the list.
LEMMA Arranca ==
  ASSUME TypeOK, NEW l \in Listas, NEW sigue, DetQuitar(l, sigue)
  PROVE  /\ sem' = sem /\ sem_blocked' = sem_blocked /\ estado' = estado
         /\ cola_emergencia' = cola_emergencia /\ hay_sabotaje' = hay_sabotaje
         /\ sabotajes' = sabotajes
         /\ \/ caido' = TRUE /\ lista' = lista /\ preso' = preso /\ pcDet' = pcDet
            \/ \E t \in Tripulantes :
                 /\ EstaEn(t, l) /\ preso' = t /\ pcDet' = sigue /\ caido' = caido
                 /\ lista' = [lista EXCEPT ![l] = RemoveFirst(@, t)]
<1>1. CASE lista[l] = <<>>
  BY <1>1 DEF DetQuitar
<1>2. CASE lista[l] # <<>>
  <2>1. PICK t : t = Min(ToSet(lista[l]))
    OBVIOUS
  <2>2. t \in Tripulantes /\ EstaEn(t, l)
    BY <1>2, <2>1, Seleccion DEF EstaEn
  <2>3. preso' = t /\ pcDet' = sigue /\ caido' = caido
    BY <1>2, <2>1 DEF DetQuitar
  <2>4. lista' = [lista EXCEPT ![l] = RemoveFirst(@, t)]
    BY <1>2, <2>3 DEF DetQuitar
  <2> QED BY <2>2, <2>3, <2>4 DEF DetQuitar
<1> QED BY <1>1, <1>2

\* What the list that the detector takes a trip from becomes.
LEMMA ArrancaTipo ==
  ASSUME TypeOK, NEW l \in Listas, NEW t \in Tripulantes, EstaEn(t, l),
         lista' = [lista EXCEPT ![l] = RemoveFirst(@, t)]
  PROVE  /\ lista' \in [Listas -> Seq(Tripulantes)]
         /\ Len(lista'[l]) = Len(lista[l]) - 1
         /\ \A m \in Listas \ {l} : lista'[m] = lista[m]
<1> DEFINE q == RemoveFirst(lista[l], t)
<1>1. lista \in [Listas -> Seq(Tripulantes)] /\ lista[l] \in Seq(Tripulantes)
  BY DEF TypeOK, TipoListas
<1>2. q \in Seq(Tripulantes) /\ Len(q) = Len(lista[l]) - 1
  BY <1>1, QuitarPrimero DEF EstaEn
<1>3. lista' = [lista EXCEPT ![l] = q]
  OBVIOUS
<1> HIDE DEF q
<1> QED BY <1>1, <1>2, <1>3

\* The detector keeps the types, and has a trip in its hands when it needs one.
LEMMA TipoDetector ==
  ASSUME TypeOKSabotaje, PresoValido, detector_sabotaje
  PROVE  TypeOKSabotaje' /\ PresoValido'
<1> DEFINE Propio == /\ cola_emergencia \in Seq(Tripulantes)
                     /\ preso \in Tripulantes \union {Nadie}
                     /\ pcDet \in {"recibir", "pausa", "pausado", "mirar_running",
                          "quitar_running", "emergencia_running", "esperar_trip",
                          "mirar_ready", "quitar_ready", "emergencia_ready", "elegir",
                          "devolver", "encolar_ready", "avisar_planificador", "avisar_io"}
                     /\ sabotajes \in 0 .. MaxSabotajes
<1>1. TypeOK /\ Propio
  BY DEF TypeOKSabotaje
<1>2. /\ sem_running' = sem_running /\ trip_block' = trip_block /\ continuar' = continuar
      /\ continuar_planificacion' = continuar_planificacion /\ pc' = pc /\ tarea' = tarea
      /\ restan' = restan /\ contador_ciclos' = contador_ciclos /\ pcPlan' = pcPlan
      /\ elegido' = elegido /\ pcIO' = pcIO /\ pcCons' = pcCons /\ indice' = indice
      /\ ordenes' = ordenes /\ planificacion_inicializada' = planificacion_inicializada
  BY DEF detector_sabotaje, vTrip, vPlan, vCons
<1>3. ASSUME sem' \in [Semaforos -> Nat], sem_blocked' \in [Tripulantes -> Nat],
             lista' \in [Listas -> Seq(Tripulantes)], estado' \in [Tripulantes -> Estados],
             hay_sabotaje' \in BOOLEAN, caido' \in BOOLEAN
      PROVE  TypeOK'
  BY <1>1, <1>2, <1>3 DEF TypeOK, TipoSemaforos, TipoListas, TipoTripulantes, TipoHilos
<1>4. /\ sem \in [Semaforos -> Nat] /\ sem_blocked \in [Tripulantes -> Nat]
      /\ lista \in [Listas -> Seq(Tripulantes)] /\ estado \in [Tripulantes -> Estados]
      /\ hay_sabotaje \in BOOLEAN /\ caido \in BOOLEAN
  BY <1>1 DEF TypeOK, TipoSemaforos, TipoListas, TipoTripulantes, TipoHilos
<1>5. CASE DetRecibir
  BY <1>1, <1>3, <1>4, <1>5, TripulantesNumerados
     DEF DetRecibir, TypeOKSabotaje, PresoValido
<1>6. CASE DetMirarPausa \/ DetMirarLista
  BY <1>1, <1>3, <1>4, <1>6 DEF DetMirarPausa, DetMirarLista, TypeOKSabotaje, PresoValido
<1>7. CASE DetEsperarReanudacion \/ DetAvisarPlanificador \/ DetAvisarIO
  <2>1. sem' \in [Semaforos -> Nat]
    BY <1>4, <1>7 DEF DetEsperarReanudacion, DetAvisarPlanificador, DetAvisarIO, Wait, Post,
       Sumar, Restar, Semaforos
  <2> QED BY <1>1, <1>3, <1>4, <1>7, <2>1
          DEF DetEsperarReanudacion, DetAvisarPlanificador, DetAvisarIO, TypeOKSabotaje,
              PresoValido
<1>8. CASE DetQuitarRunning \/ DetQuitarReady
  <2>1. PICK l \in Listas, sigue \in {"emergencia_running", "emergencia_ready"} :
          DetQuitar(l, sigue)
    BY <1>8 DEF DetQuitarRunning, DetQuitarReady, Listas
  <2>2. /\ sem' = sem /\ sem_blocked' = sem_blocked /\ estado' = estado
        /\ cola_emergencia' = cola_emergencia /\ hay_sabotaje' = hay_sabotaje
        /\ sabotajes' = sabotajes
    BY <1>1, <2>1, Arranca
  <2>3. CASE caido' = TRUE /\ lista' = lista /\ preso' = preso /\ pcDet' = pcDet
    BY <1>1, <1>3, <1>4, <2>2, <2>3 DEF TypeOKSabotaje, PresoValido
  <2>4. ASSUME NEW t \in Tripulantes,
               EstaEn(t, l) /\ preso' = t /\ pcDet' = sigue /\ caido' = caido
                 /\ lista' = [lista EXCEPT ![l] = RemoveFirst(@, t)]
        PROVE  TypeOKSabotaje' /\ PresoValido'
    <3>1. lista' \in [Listas -> Seq(Tripulantes)]
      BY <1>1, <2>4, ArrancaTipo
    <3>2. TypeOK'
      BY <1>3, <1>4, <2>2, <2>4, <3>1
    <3>3. Propio' /\ PresoValido'
      BY <1>1, <2>1, <2>2, <2>4 DEF PresoValido
    <3> QED BY <3>2, <3>3 DEF TypeOKSabotaje
  <2> QED BY <1>1, <2>1, <2>3, <2>4, Arranca
<1>9. CASE DetPasarAEmergencia
  <2>1. preso \in Tripulantes
    BY <1>9 DEF DetPasarAEmergencia, PresoValido
  <2>2. Append(cola_emergencia, preso) \in Seq(Tripulantes)
    BY <1>1, <2>1
  <2> QED BY <1>1, <1>3, <1>4, <1>9, <2>1, <2>2
          DEF DetPasarAEmergencia, TypeOKSabotaje, PresoValido, Estados
<1>10. CASE DetEsperarTrip
  <2>1. sem_blocked' \in [Tripulantes -> Nat]
    BY <1>4, <1>10 DEF DetEsperarTrip, PresoValido
  <2> QED BY <1>1, <1>3, <1>4, <1>10, <2>1 DEF DetEsperarTrip, TypeOKSabotaje, PresoValido
<1>11. CASE DetResolver
  <2>1. PICK i \in 1 .. Len(cola_emergencia) :
          cola_emergencia' = Append(RemoveAt(cola_emergencia, i), cola_emergencia[i])
    BY <1>1, <1>11 DEF DetResolver
  <2>2. RemoveAt(cola_emergencia, i) \in Seq(Tripulantes) /\ cola_emergencia[i] \in Tripulantes
    BY <1>1, SinPosicion
  <2>3. cola_emergencia' \in Seq(Tripulantes)
    BY <2>1, <2>2
  <2> QED BY <1>1, <1>3, <1>4, <1>11, <2>3 DEF DetResolver, TypeOKSabotaje, PresoValido
<1>12. CASE DetSinTripulantes \/ DetTerminar
  BY <1>1, <1>3, <1>4, <1>12 DEF DetSinTripulantes, DetTerminar, TypeOKSabotaje, PresoValido
<1>13. CASE DetPasarAReady
  <2>1. preso' \in Tripulantes /\ cola_emergencia' \in Seq(Tripulantes)
    BY <1>1, <1>13 DEF DetPasarAReady
  <2>2. estado' \in [Tripulantes -> Estados]
    BY <1>4, <1>13, <2>1 DEF DetPasarAReady, Estados
  <2> QED BY <1>1, <1>3, <1>4, <1>13, <2>1, <2>2 DEF DetPasarAReady, TypeOKSabotaje, PresoValido
<1>14. CASE DetEncolarReady
  <2>1. preso \in Tripulantes
    BY <1>14 DEF DetEncolarReady, PresoValido
  <2>2. lista' \in [Listas -> Seq(Tripulantes)]
    BY <1>1, <1>14, <2>1, AgregarALista DEF DetEncolarReady, Listas
  <2>3. sem' \in [Semaforos -> Nat]
    BY <1>4, <1>14 DEF DetEncolarReady, Post, Sumar, Semaforos
  <2> QED BY <1>1, <1>3, <1>4, <1>14, <2>2, <2>3
          DEF DetEncolarReady, TypeOKSabotaje, PresoValido
<1> QED BY <1>5, <1>6, <1>7, <1>8, <1>9, <1>10, <1>11, <1>12, <1>13, <1>14
        DEF detector_sabotaje

\* A trip posts tripulantes_ready when it enters cola_ready, and nothing else of it
\* touches either.
LEMMA NoOlvidaTripulante ==
  ASSUME TypeOK, NadieOlvidado, NEW t \in Tripulantes, Tripulante(t)
  PROVE  NadieOlvidado'
<1>1. /\ sem["tripulantes_ready"] \in Nat /\ Len(lista["cola_ready"]) \in Nat
      /\ pcPlan' = pcPlan
  BY DEF TypeOK, TipoSemaforos, TipoListas, Semaforos, Listas, Tripulante, vPlan
<1>2. CASE EncolarReady(t)
  <2>1. Len(lista'["cola_ready"]) = Len(lista["cola_ready"]) + 1
    BY <1>2, AgregarALista DEF EncolarReady, Listas
  <2>2. sem'["tripulantes_ready"] = sem["tripulantes_ready"] + 1
    BY <1>2 DEF EncolarReady, Post, Sumar, TypeOK, TipoSemaforos, Semaforos
  <2> QED BY <1>1, <2>1, <2>2 DEF NadieOlvidado, Uno
<1>3. CASE lista'["cola_ready"] = lista["cola_ready"]
             /\ sem'["tripulantes_ready"] = sem["tripulantes_ready"]
  BY <1>1, <1>3 DEF NadieOlvidado
<1>4. CASE EncolarBlocked(t)
  <2>1. lista'["cola_ready"] = lista["cola_ready"]
    BY <1>4, AgregarALista DEF EncolarBlocked, Listas
  <2> QED BY <1>3, <1>4, <2>1 DEF EncolarBlocked, Post, Sumar, TypeOK, TipoSemaforos, Semaforos
<1>5. CASE DejarPorQuantum(t) \/ DejarPorIO(t) \/ Finalizar(t)
  <2>1. quitar_running(t)
    BY <1>5 DEF DejarPorQuantum, DejarPorIO, Finalizar
  <2> QED BY <1>3, <2>1, QuitarRunning DEF Semaforos, Listas
<1>6. CASE SacarBlocked(t)
  BY <1>3, <1>6 DEF SacarBlocked, vSem, TypeOK, TipoListas, Listas
<1>7. CASE Ceder(t) \/ SoltarIO(t) \/ EsperarFinSabotaje(t)
  BY <1>3, <1>7 DEF Ceder, SoltarIO, EsperarFinSabotaje, Post, Wait, Sumar, Restar, TypeOK,
     TipoSemaforos, Semaforos
<1>8. CASE SolicitarTarea(t) \/ PasarAReady(t) \/ EsperarRunning(t) \/ MirarPausa(t)
         \/ EjecutarCiclo(t) \/ MirarEmergencia(t) \/ DejarCiclo(t) \/ PasarABlocked(t)
         \/ EsperarBlocked(t) \/ MirarSabotaje(t) \/ CicloIO(t) \/ MirarContinuar(t)
         \/ PasarAExit(t) \/ FinalizarExpulsado(t) \/ ContinuarIO(t) \/ BuscarBlocked(t)
  BY <1>3, <1>8 DEF SolicitarTarea, PasarAReady, EsperarRunning, MirarPausa, EjecutarCiclo,
     MirarEmergencia, DejarCiclo, PasarABlocked, EsperarBlocked, MirarSabotaje, CicloIO,
     MirarContinuar, PasarAExit, FinalizarExpulsado, ContinuarIO, BuscarBlocked, vSem
<1> QED BY <1>2, <1>4, <1>5, <1>6, <1>7, <1>8 DEF Tripulante

\* The planner takes a unit of tripulantes_ready for each trip it takes from
\* cola_ready, and keeps the unit only if the queue is empty.
LEMMA NoOlvidaPlanificador ==
  ASSUME TypeOK, NadieOlvidado, planificador
  PROVE  NadieOlvidado'
<1>1. sem["tripulantes_ready"] \in Nat /\ Len(lista["cola_ready"]) \in Nat
  BY DEF TypeOK, TipoSemaforos, TipoListas, Semaforos, Listas
<1>2. CASE PlanActivar \/ PlanEsperarFinSabotaje \/ PlanEsperarCupo
  BY <1>1, <1>2 DEF PlanActivar, PlanEsperarFinSabotaje, PlanEsperarCupo, Wait, Restar, TypeOK,
     TipoSemaforos, Semaforos, NadieOlvidado, Uno
<1>3. CASE PlanEsperarReady
  BY <1>1, <1>3 DEF PlanEsperarReady, Wait, Restar, TypeOK, TipoSemaforos, Semaforos,
     NadieOlvidado, Uno
<1>4. CASE PlanSinReady
  BY <1>1, <1>4 DEF PlanSinReady, Post, Sumar, TypeOK, TipoSemaforos, Semaforos,
     NadieOlvidado, Uno
<1>5. CASE PlanQuitarReady
  <2>1. CASE lista["cola_ready"] = <<>>
    BY <1>1, <1>5, <2>1 DEF PlanQuitarReady, vSem, NadieOlvidado
  <2>2. CASE lista["cola_ready"] # <<>>
    <3>1. Len(lista'["cola_ready"]) = Len(lista["cola_ready"]) - 1
      BY <1>5, <2>2, SacarDeLista DEF PlanQuitarReady, Listas
    <3> QED BY <1>1, <1>5, <2>2, <3>1 DEF PlanQuitarReady, vSem, NadieOlvidado, Uno
  <2> QED BY <2>1, <2>2
<1>6. CASE PlanEncolarRunning
  <2>1. elegido \in Tripulantes
    BY <1>6 DEF PlanEncolarRunning, TypeOK, TipoHilos
  <2>2. lista'["cola_ready"] = lista["cola_ready"]
    BY <1>6, <2>1, AgregarALista DEF PlanEncolarRunning, Listas
  <2> QED BY <1>1, <1>6, <2>2 DEF PlanEncolarRunning, NadieOlvidado, Uno
<1>7. CASE PlanContinuar \/ PlanMirarSabotaje \/ PlanHayReady \/ PlanPasarARunning
  BY <1>1, <1>7 DEF PlanContinuar, PlanMirarSabotaje, PlanHayReady, PlanPasarARunning, vSem,
     NadieOlvidado, Uno
<1> QED BY <1>2, <1>3, <1>4, <1>5, <1>6, <1>7 DEF planificador

\* The input/output planner and the console touch neither.
LEMMA NoOlvidanOtros ==
  ASSUME TypeOK, NadieOlvidado, planificador_io \/ consola
  PROVE  NadieOlvidado'
<1>1. pcPlan' = pcPlan
  BY DEF planificador_io, consola, vPlan
<1>2. lista'["cola_ready"] = lista["cola_ready"]
  <2>1. CASE IOQuitarBlocked
    BY <2>1 DEF IOQuitarBlocked, TypeOK, TipoListas, Listas
  <2>2. lista' = lista \/ IOQuitarBlocked
    BY DEF planificador_io, IOEsperarTrip, IOEsperarDispositivo, IOAvisar, consola
  <2> QED BY <2>1, <2>2
<1>3. sem'["tripulantes_ready"] = sem["tripulantes_ready"]
  <2>1. CASE planificador_io
    BY <2>1 DEF planificador_io, IOEsperarTrip, IOEsperarDispositivo, IOQuitarBlocked, IOAvisar,
       Wait, Restar, TypeOK, TipoSemaforos, Semaforos
  <2>2. CASE consola
    BY <2>2 DEF consola, iniciar_planificacion, TerminarOrden, IniciarPlanificacion, Reiniciar,
       ReiniciarMirar, ReiniciarPost, ReiniciarMirarBlock, ReiniciarPostBlock,
       ReiniciarMirarSabotaje, pausar_planificacion, vSem, Post, Sumar, TypeOK, TipoSemaforos,
       Semaforos
  <2> QED BY <2>1, <2>2
<1> QED BY <1>1, <1>2, <1>3 DEF NadieOlvidado

\* The detector takes trips out of cola_ready without touching the semaphore, and
\* posts it for each one it puts back.
LEMMA NoOlvidaDetector ==
  ASSUME TypeOKSabotaje, PresoValido, NadieOlvidado, detector_sabotaje
  PROVE  NadieOlvidado'
<1>1. /\ sem["tripulantes_ready"] \in Nat /\ Len(lista["cola_ready"]) \in Nat
      /\ TypeOK /\ pcPlan' = pcPlan
  BY DEF TypeOKSabotaje, TypeOK, TipoSemaforos, TipoListas, Semaforos, Listas,
     detector_sabotaje, vPlan
<1>2. CASE lista'["cola_ready"] = lista["cola_ready"]
             /\ sem'["tripulantes_ready"] = sem["tripulantes_ready"]
  BY <1>1, <1>2 DEF NadieOlvidado
<1>3. CASE DetQuitarRunning \/ DetQuitarReady
  <2>1. PICK l \in Listas, sigue \in {"emergencia_running", "emergencia_ready"} :
          DetQuitar(l, sigue)
    BY <1>3 DEF DetQuitarRunning, DetQuitarReady, Listas
  <2>2. sem' = sem
    BY <1>1, <2>1, Arranca
  <2>3. CASE lista' = lista
    BY <1>2, <2>2, <2>3
  <2>4. ASSUME NEW t \in Tripulantes, EstaEn(t, l),
               lista' = [lista EXCEPT ![l] = RemoveFirst(@, t)]
        PROVE  NadieOlvidado'
    <3>1. /\ Len(lista'[l]) = Len(lista[l]) - 1
          /\ \A m \in Listas \ {l} : lista'[m] = lista[m]
      BY <1>1, <2>4, ArrancaTipo
    <3>2. Len(lista'["cola_ready"]) <= Len(lista["cola_ready"])
             /\ Len(lista'["cola_ready"]) \in Int
      BY <1>1, <3>1 DEF Listas
    <3> QED BY <1>1, <2>2, <3>2 DEF NadieOlvidado, Uno
  <2> QED BY <1>1, <2>1, <2>3, <2>4, Arranca
<1>4. CASE DetEncolarReady
  <2>1. preso \in Tripulantes
    BY <1>4 DEF DetEncolarReady, PresoValido
  <2>2. Len(lista'["cola_ready"]) = Len(lista["cola_ready"]) + 1
    BY <1>1, <1>4, <2>1, AgregarALista DEF DetEncolarReady, Listas
  <2>3. sem'["tripulantes_ready"] = sem["tripulantes_ready"] + 1
    BY <1>1, <1>4 DEF DetEncolarReady, Post, Sumar, TypeOK, TipoSemaforos, Semaforos
  <2> QED BY <1>1, <2>2, <2>3 DEF NadieOlvidado, Uno
<1>5. CASE DetEsperarReanudacion \/ DetAvisarPlanificador \/ DetAvisarIO
  BY <1>1, <1>2, <1>5 DEF DetEsperarReanudacion, DetAvisarPlanificador, DetAvisarIO, Wait,
     Post, Sumar, Restar, TypeOK, TipoSemaforos, Semaforos
<1>6. CASE DetRecibir \/ DetMirarPausa \/ DetMirarLista \/ DetPasarAEmergencia
         \/ DetEsperarTrip \/ DetResolver \/ DetSinTripulantes \/ DetPasarAReady \/ DetTerminar
  BY <1>2, <1>6 DEF DetRecibir, DetMirarPausa, DetMirarLista, DetPasarAEmergencia,
     DetEsperarTrip, DetResolver, DetSinTripulantes, DetPasarAReady, DetTerminar
<1> QED BY <1>3, <1>4, <1>5, <1>6 DEF detector_sabotaje

\* Every step keeps the types and forgets nobody.
LEMMA InductivoSabotaje ==
  ASSUME IInvSabotaje, [NextSabotaje]_varsSabotaje
  PROVE  IInvSabotaje'
<1>1. TypeOK /\ TareaEnIO /\ NadieOlvidado /\ TypeOKSabotaje /\ PresoValido
  BY DEF IInvSabotaje, TypeOKSabotaje
<1>2. CASE Next /\ UNCHANGED vDet
  <2>1. TypeOK'
    <3>1. ASSUME NEW t \in Tripulantes, Tripulante(t) PROVE TypeOK'
      BY <1>1, <3>1, TipoTripulante
    <3> QED BY <1>1, <1>2, <3>1, TipoPlanificador, TipoPlanificadorIO, TipoConsola DEF Next
  <2>2. TareaEnIO'
    <3>1. ASSUME NEW t \in Tripulantes, Tripulante(t) PROVE TareaEnIO'
      BY <1>1, <3>1, TareaTripulante
    <3>2. planificador \/ planificador_io \/ consola => pc' = pc /\ tarea' = tarea
      BY DEF planificador, planificador_io, consola, vTrip
    <3> QED BY <1>1, <1>2, <3>1, <3>2 DEF Next, TareaEnIO, HayTarea
  <2>3. NadieOlvidado'
    <3>1. ASSUME NEW t \in Tripulantes, Tripulante(t) PROVE NadieOlvidado'
      BY <1>1, <3>1, NoOlvidaTripulante
    <3> QED BY <1>1, <1>2, <3>1, NoOlvidaPlanificador, NoOlvidanOtros DEF Next
  <2>4. TypeOKSabotaje' /\ PresoValido'
    BY <1>1, <1>2, <2>1 DEF vDet, TypeOKSabotaje, PresoValido
  <2> QED BY <2>2, <2>3, <2>4 DEF IInvSabotaje
<1>3. CASE detector_sabotaje
  <2>1. pc' = pc /\ tarea' = tarea
    BY <1>3 DEF detector_sabotaje, vTrip
  <2>2. TareaEnIO'
    BY <1>1, <2>1 DEF TareaEnIO, HayTarea
  <2> QED BY <1>1, <1>3, <2>2, TipoDetector, NoOlvidaDetector DEF IInvSabotaje
<1>4. CASE UNCHANGED varsSabotaje
  <2>1. vars' = vars /\ vDet' = vDet
    BY <1>4 DEF varsSabotaje
  <2>2. TypeOK'
    BY <1>1, <2>1 DEF vars, vSem, vTrip, vPlan, vCons, TypeOK, TipoSemaforos, TipoListas,
       TipoTripulantes, TipoHilos
  <2>3. TypeOKSabotaje' /\ PresoValido'
    BY <1>1, <2>1, <2>2 DEF vDet, TypeOKSabotaje, PresoValido
  <2>4. TareaEnIO' /\ NadieOlvidado'
    BY <1>1, <2>1 DEF vars, vSem, vTrip, vPlan, TareaEnIO, HayTarea, NadieOlvidado
  <2> QED BY <2>3, <2>4 DEF IInvSabotaje
<1> QED BY <1>2, <1>3, <1>4 DEF NextSabotaje

\* The detector starts with nobody in its hands.
LEMMA InicialSabotaje ==
  ASSUME InitSabotaje
  PROVE  IInvSabotaje
<1>1. IInv
  BY InvarianteInicial DEF InitSabotaje
<1>2. TypeOKSabotaje /\ PresoValido
  BY <1>1, TripulantesNumerados DEF IInv, InitSabotaje, TypeOKSabotaje, PresoValido
<1>3. NadieOlvidado
  <2>1. Len(lista["cola_ready"]) = 0 /\ sem["tripulantes_ready"] = 0
    BY DEF InitSabotaje, Init, InitPlanificador, Listas, Semaforos
  <2> QED BY <2>1 DEF NadieOlvidado, Uno
<1> QED BY <1>1, <1>2, <1>3 DEF IInv, IInvSabotaje

\* Whatever the crew, the orders and the sabotages, the inductive invariant holds.
THEOREM InvarianteSabotaje == SpecSabotaje => []IInvSabotaje
<1>1. InitSabotaje => IInvSabotaje
  BY InicialSabotaje
<1>2. IInvSabotaje /\ [NextSabotaje]_varsSabotaje => IInvSabotaje'
  BY InductivoSabotaje
<1> QED BY <1>1, <1>2, PTL DEF SpecSabotaje

\* The types hold with the detector running beside the others, and it never lacks
\* the trip it dereferences (discordiador/src/sabotajes.c).
THEOREM TipoConSabotaje == SpecSabotaje => []TypeOKSabotaje
<1>1. IInvSabotaje => TypeOKSabotaje
  BY DEF IInvSabotaje
<1> QED BY <1>1, InvarianteSabotaje, PTL

\* No trip stays in cola_ready with nobody to dispatch it, whatever the detector took
\* out of the queue behind the semaphore's back, and whatever the user orders.
THEOREM NingunOlvidado == SpecSabotaje => []NadieOlvidado
<1>1. IInvSabotaje => NadieOlvidado
  BY DEF IInvSabotaje
<1> QED BY <1>1, InvarianteSabotaje, PTL

-----------------------------------------------------------------------------
(* Until the user resumes: what a step does to the trips it does not move *)

\* The detector has t in its hands, or waits for its answer.
Asido(t) ==
  preso = t /\ pcDet \in {"emergencia_running", "emergencia_ready", "encolar_ready",
                          "esperar_trip"}

\* A trip keeps its place while a step touches nothing of it.
LEMMA Quieto ==
  ASSUME ~caido, NEW t \in Tripulantes, Colocado(t),
         pc'[t] = pc[t], tarea'[t] = tarea[t], estado'[t] = estado[t],
         sem_running'[t] = sem_running[t], sem_blocked'[t] = sem_blocked[t],
         \A l \in Listas : EstaEn(t, l)' <=> EstaEn(t, l),
         elegido' = t <=> elegido = t,
         elegido = t /\ pcPlan' = "encolar_running" => pcPlan = "encolar_running",
         LeToca(t)' => LeToca(t),
         EnEmergencia(t)' <=> EnEmergencia(t),
         \/ preso' = preso /\ pcDet' = pcDet
         \/ ~Asido(t) /\ ~Asido(t)' /\ (EnEmergencia(t) => pcDet' \notin Reposo)
  PROVE  Colocado(t)'
<1>1. /\ EnManos(t)' <=> EnManos(t)
      /\ Arrancado(t)' <=> Arrancado(t)
      /\ (pcDet = "esperar_trip" /\ preso = t)' <=> (pcDet = "esperar_trip" /\ preso = t)
      /\ (pcDet = "encolar_ready" /\ preso = t)' <=> (pcDet = "encolar_ready" /\ preso = t)
      /\ EnEmergencia(t)' => pcDet' \notin Reposo
  BY DEF Asido, EnManos, Arrancado, Colocado, Sitio
<1>2. Retenido(t)' <=> Retenido(t)
  BY <1>1 DEF Retenido
<1>3. Ausente(t)' <=> Ausente(t)
  BY DEF Ausente
<1>4. Sitio(t)'
  BY <1>1, <1>2, <1>3 DEF Colocado, Sitio
<1>5. Nombre(t)'
  BY <1>1 DEF Colocado, Nombre, Nombrado, Listas
<1>6. EnEspera(t)' <=> EnEspera(t)
  BY DEF EnEspera
<1>7. ConCupo(t)' <=> ConCupo(t)
  BY <1>6 DEF ConCupo, Despachado
<1>8. Arrancado(t) => (Contesto(t)' <=> Contesto(t))
  BY <1>1 DEF Contesto, Arrancado
<1>9. Turno(t)'
  BY <1>1, <1>2, <1>6, <1>7, <1>8 DEF Colocado, Turno, Listas
<1>10. Bloqueo(t)'
  BY <1>1, <1>2, <1>3, <1>8 DEF Colocado, Bloqueo, Listas
<1>11. Ausencia(t)'
  BY <1>2, <1>3 DEF Colocado, Ausencia, Viaja
<1> QED BY <1>4, <1>5, <1>9, <1>10, <1>11 DEF Colocado

\* What the lemmas about lists ask for.
LEMMA ListasSinRepetidos ==
  ASSUME Colocados
  PROVE  TypeOK /\ TypeOKSabotaje /\ PresoValido /\ UnLugar
<1>1. TypeOK /\ TypeOKSabotaje /\ PresoValido
  BY DEF Colocados, IInvSabotaje, TypeOKSabotaje
<1>2. \A t \in Tripulantes : Sitio(t)
  BY DEF Colocados, Colocado
<1>3. ASSUME NEW l \in Listas PROVE ~EstaEn(elegido, l)
  <2>1. CASE elegido \in Tripulantes
    BY <1>2, <2>1 DEF Sitio
  <2>2. CASE elegido = Nadie
    <3>1. lista[l] \in Seq(Tripulantes)
      BY <1>1 DEF TypeOK, TipoListas
    <3> QED BY <2>2, <3>1, ConstantesValidas DEF EstaEn, ToSet
  <2> QED BY <1>1, <2>1, <2>2 DEF TypeOK, TipoHilos
<1> QED BY <1>1, <1>2, <1>3 DEF UnLugar, Sitio, Colocados

\* A trip that nobody expelled takes none of the steps of an expelled one.
LEMMA NadieExpulsado ==
  ASSUME Colocados, NEW t \in Tripulantes
  PROVE  ~FinalizarExpulsado(t) /\ ~BuscarBlocked(t) /\ ~SacarBlocked(t)
BY DEF Colocados, FinalizarExpulsado, BuscarBlocked, SacarBlocked

\* A step of a trip moves no other.
LEMMA OtrosQuietos ==
  ASSUME Colocados, ~caido, NEW t \in Tripulantes, Tripulante(t), UNCHANGED vDet,
         NEW u \in Tripulantes, u # t
  PROVE  Colocado(u)'
<1>1. TypeOK /\ UnLugar /\ Colocado(u) /\ Colocado(t)
  BY ListasSinRepetidos DEF Colocados
<1>2. /\ elegido' = elegido /\ pcPlan' = pcPlan /\ pcIO' = pcIO /\ preso' = preso
      /\ pcDet' = pcDet /\ cola_emergencia' = cola_emergencia
  BY DEF Tripulante, vPlan, vDet
<1>3. /\ pc'[u] = pc[u] /\ tarea'[u] = tarea[u] /\ sem_running'[u] = sem_running[u]
      /\ sem_blocked'[u] = sem_blocked[u] /\ estado'[u] = estado[u]
      /\ trip_block' \in {trip_block, Nadie}
  BY <1>1 DEF Tripulante, SolicitarTarea, PasarAReady, EncolarReady, EsperarRunning,
     MirarPausa, EjecutarCiclo, DejarPorQuantum, MirarEmergencia, Ceder, DejarCiclo,
     DejarPorIO, PasarABlocked, EncolarBlocked, EsperarBlocked, ContinuarIO, BuscarBlocked, SacarBlocked, MirarSabotaje,
     EsperarFinSabotaje, CicloIO, SoltarIO, MirarContinuar, Finalizar, PasarAExit,
     FinalizarExpulsado, Seguir, Ir, vSem, TypeOK, TipoTripulantes, TipoSemaforos
<1>4. \A m \in Listas : EstaEn(u, m)' <=> EstaEn(u, m)
  <2>1. CASE EncolarReady(t) \/ EncolarBlocked(t)
    <3>1. PICK m \in Listas : Encolar(t, m)
      BY <2>1 DEF EncolarReady, EncolarBlocked, Listas
    <3>2. Ausente(t)
      BY <1>1, <2>1 DEF EncolarReady, EncolarBlocked, Colocado, Ausencia, Viaja, EnTransito
    <3> QED BY <1>1, <3>1, <3>2, Entra DEF Ausente
  <2>2. CASE DejarPorQuantum(t) \/ DejarPorIO(t) \/ Finalizar(t)
    <3>1. quitar(t, "tripulantes_running")
      BY <2>2 DEF DejarPorQuantum, DejarPorIO, Finalizar, quitar_running
    <3> QED BY <1>1, <3>1, Sale DEF Listas
  <2>3. CASE lista' = lista
    BY <2>3 DEF EstaEn
  <2>4. \/ EncolarReady(t) \/ EncolarBlocked(t)
        \/ DejarPorQuantum(t) \/ DejarPorIO(t) \/ Finalizar(t)
        \/ lista' = lista
    BY NadieExpulsado DEF Tripulante, SolicitarTarea, PasarAReady, EsperarRunning,
     MirarPausa, EjecutarCiclo, MirarEmergencia, Ceder, DejarCiclo,
     PasarABlocked, EsperarBlocked, ContinuarIO, MirarSabotaje,
     EsperarFinSabotaje, CicloIO, SoltarIO, MirarContinuar, PasarAExit
  <2> QED BY <2>1, <2>2, <2>3, <2>4
<1>5. LeToca(u)' => LeToca(u)
  BY <1>2, <1>3, ConstantesValidas DEF LeToca
<1>6. EnEmergencia(u)' <=> EnEmergencia(u)
  BY <1>2 DEF EnEmergencia
<1> QED BY <1>1, <1>2, <1>3, <1>4, <1>5, <1>6, Quieto

\* A step that touches no list, semaphore of trips or device keeps the place of the
\* trip that takes it, if it neither starts a journey nor leaves or enters a wait, a
\* slot or the device.
LEMMA PasoPropio ==
  ASSUME ~caido, NEW t \in Tripulantes, Colocado(t),
         estado'[t] = estado[t] \/ (Viaja(t) /\ estado'[t] # "EMERGENCY"),
         sem_running'[t] = sem_running[t], sem_blocked'[t] = sem_blocked[t],
         \A l \in Listas : EstaEn(t, l)' <=> EstaEn(t, l),
         elegido' = elegido, pcPlan' = pcPlan, LeToca(t)' => LeToca(t),
         EnEmergencia(t)' <=> EnEmergencia(t), preso' = preso, pcDet' = pcDet,
         ~EnEspera(t), pc[t] # "espera_blocked",
         ~EnEspera(t)', pc'[t] # "espera_blocked",
         pc'[t] = "solicitar" \/ tarea'[t] > 0,
         Viaja(t)' => Viaja(t),
         Despachado(t) => Despachado(t)',
         Tareas[t] # <<>> /\ Despachado(t)' => Despachado(t),
         Nombrado(t)'
  PROVE  Colocado(t)'
<1>1. /\ EnManos(t)' <=> EnManos(t)
      /\ Arrancado(t)' <=> Arrancado(t)
      /\ Retenido(t)' <=> Retenido(t)
      /\ Ausente(t)' <=> Ausente(t)
  BY DEF EnManos, Arrancado, Retenido, Ausente
<1>2. Sitio(t)'
  BY <1>1 DEF Colocado, Sitio
<1>3. Viaja(t) => Ausente(t) /\ ~Retenido(t)
  BY DEF Colocado, Ausencia
<1>4. Nombre(t)'
  <2>1. CASE estado'[t] = estado[t]
    BY <2>1 DEF Colocado, Nombre, Listas
  <2>2. CASE Viaja(t) /\ estado'[t] # "EMERGENCY"
    BY <1>3, <2>2 DEF Nombre, Ausente, Retenido, EnManos, Listas
  <2> QED BY <2>1, <2>2
<1>5. (ConCupo(t) <=> Despachado(t)) /\ (ConCupo(t)' <=> Despachado(t)')
  BY DEF ConCupo
<1>6. ~Contesto(t)
  BY DEF Contesto, EnEspera
<1>7. Turno(t)'
  BY <1>1, <1>5, <1>6 DEF Colocado, Turno, Listas
<1>8. Bloqueo(t)'
  BY <1>6 DEF Colocado, Bloqueo, Listas
<1>9. Ausencia(t)'
  BY <1>1, <1>3 DEF Ausencia
<1> QED BY <1>2, <1>4, <1>7, <1>8, <1>9 DEF Colocado

\* The steps of a trip that touch nothing but its own data.
LEMMA ColocadoPropio ==
  ASSUME Colocados, ~caido, NEW t \in Tripulantes, Tripulante(t), UNCHANGED vDet,
         \/ SolicitarTarea(t) \/ MirarPausa(t) \/ EjecutarCiclo(t) \/ DejarCiclo(t)
         \/ ContinuarIO(t) \/ MirarSabotaje(t) \/ EsperarFinSabotaje(t) \/ CicloIO(t)
         \/ MirarContinuar(t) \/ PasarAReady(t) \/ PasarABlocked(t) \/ PasarAExit(t)
  PROVE  Colocado(t)'
<1> USE DEF TypeOK, TipoTripulantes
<1>1. TypeOK /\ Colocado(t) /\ continuar[t] = TRUE
  BY ListasSinRepetidos DEF Colocados
<1>2. /\ elegido' = elegido /\ pcPlan' = pcPlan /\ pcIO' = pcIO /\ preso' = preso
      /\ pcDet' = pcDet /\ cola_emergencia' = cola_emergencia
  BY DEF Tripulante, vPlan, vDet
<1>3. /\ lista' = lista /\ trip_block' = trip_block /\ sem_blocked' = sem_blocked
      /\ sem_running' = sem_running
  BY NadieExpulsado DEF SolicitarTarea, MirarPausa, EjecutarCiclo, DejarCiclo, ContinuarIO,
     MirarSabotaje, EsperarFinSabotaje, CicloIO, MirarContinuar, PasarAReady, PasarABlocked,
     PasarAExit, vSem
<1>4. /\ estado'[t] = estado[t] \/ (pc[t] \in EnTransito /\ estado'[t] # "EMERGENCY")
      /\ ~EnEspera(t) /\ pc[t] # "espera_blocked"
      /\ ~EnEspera(t)' /\ pc'[t] # "espera_blocked"
      /\ pc'[t] = "solicitar" \/ tarea'[t] > 0
      /\ Viaja(t)' => Viaja(t)
      /\ Despachado(t) => Despachado(t)'
      /\ Tareas[t] # <<>> /\ Despachado(t)' => Despachado(t)
      /\ Nombrado(t)'
  <2>1. CASE SolicitarTarea(t)
    <3>1. Tareas[t] # <<>> => Len(Tareas[t]) \in Nat /\ Len(Tareas[t]) > 0
      <4>1. Tareas[t] \in Seq(Tarea)
        BY ConstantesValidas
      <4> QED BY <4>1
    <3>2. tarea[t] \in Nat
      BY <1>1
    <3> QED BY <1>1, <2>1, <3>1, <3>2 DEF SolicitarTarea, Ir, Viaja, EnEspera, EsperaCupo,
             Despachado, Nombrado, Colocado, EnTransito, ConDispositivo
  <2>2. CASE MirarPausa(t)
    BY <1>1, <2>2 DEF MirarPausa, Seguir, Sigue, Ir, Viaja, EnEspera, EsperaCupo, Despachado,
       Nombrado, Colocado, EnTransito, ConDispositivo
  <2>3. CASE EjecutarCiclo(t) \/ CicloIO(t)
    BY <1>1, <2>3 DEF EjecutarCiclo, CicloIO, Ir, Viaja, EnEspera, EsperaCupo, Despachado,
       Nombrado, Colocado, EnTransito, ConDispositivo
  <2>4. CASE DejarCiclo(t)
    <3>1. HayTarea(t) => tarea[t] # 0
      BY DEF HayTarea
    <3> QED BY <1>1, <2>4, <3>1 DEF DejarCiclo, Ir, Viaja, EnEspera, EsperaCupo, Despachado,
             Nombrado, Colocado, EnTransito, ConDispositivo
  <2>5. CASE ContinuarIO(t)
    BY <1>1, <2>5 DEF ContinuarIO, Ir, Viaja, EnEspera, EsperaCupo, Despachado,
       Nombrado, Colocado, EnTransito, ConDispositivo
  <2>6. CASE MirarSabotaje(t) \/ EsperarFinSabotaje(t)
    BY <1>1, <2>6 DEF MirarSabotaje, EsperarFinSabotaje, Seguir, Sigue, Ir, Viaja, EnEspera,
       EsperaCupo, Despachado, Nombrado, Colocado, EnTransito, ConDispositivo
  <2>7. CASE MirarContinuar(t)
    BY <1>1, <2>7 DEF MirarContinuar, Seguir, Sigue, Ir, Viaja, EnEspera, EsperaCupo,
       Despachado, Nombrado, Colocado, EnTransito, ConDispositivo
  <2>8. CASE PasarAReady(t)
    BY <1>1, <2>8 DEF PasarAReady, Seguir, Sigue, Ir, Viaja, EnEspera, EsperaCupo, Despachado,
       Nombrado, Colocado, EnTransito, ConDispositivo
  <2>9. CASE PasarABlocked(t) \/ PasarAExit(t)
    BY <1>1, <2>9 DEF PasarABlocked, PasarAExit, Ir, Viaja, EnEspera, EsperaCupo, Despachado,
       Nombrado, Colocado, EnTransito, ConDispositivo
  <2> QED BY <2>1, <2>2, <2>3, <2>4, <2>5, <2>6, <2>7, <2>8, <2>9
<1>5. estado'[t] = estado[t] \/ (Viaja(t) /\ estado'[t] # "EMERGENCY")
  BY <1>4 DEF Viaja
<1>6. /\ \A l \in Listas : EstaEn(t, l)' <=> EstaEn(t, l)
      /\ LeToca(t)' => LeToca(t)
      /\ EnEmergencia(t)' <=> EnEmergencia(t)
  BY <1>2, <1>3 DEF EstaEn, LeToca, EnEmergencia
<1> HIDE DEF TypeOK, TipoTripulantes
<1> QED BY <1>1, <1>2, <1>3, <1>4, <1>5, <1>6, PasoPropio

\* A trip enters cola_ready or cola_blocked from its journey.
LEMMA ColocadoEncolar ==
  ASSUME Colocados, ~caido, NEW t \in Tripulantes, Tripulante(t), UNCHANGED vDet,
         EncolarReady(t) \/ EncolarBlocked(t)
  PROVE  Colocado(t)'
<1>1. TypeOK /\ UnLugar /\ Colocado(t) /\ Viaja(t)
  BY ListasSinRepetidos DEF Colocados, EncolarReady, EncolarBlocked, Viaja, EnTransito
<1>2. /\ elegido' = elegido /\ pcPlan' = pcPlan /\ pcIO' = pcIO /\ preso' = preso
      /\ pcDet' = pcDet /\ cola_emergencia' = cola_emergencia /\ estado' = estado
      /\ tarea' = tarea /\ sem_running' = sem_running /\ sem_blocked' = sem_blocked
      /\ trip_block' = trip_block
  BY DEF Tripulante, vPlan, vDet, EncolarReady, EncolarBlocked
<1>3. PICK m \in Listas :
        /\ Encolar(t, m)
        /\ \/ /\ m = "cola_ready" /\ pc'[t] \in EsperaCupo
              /\ pc[t] \in {"encolar_inicio", "encolar_quantum", "encolar_io"}
           \/ /\ m = "cola_blocked" /\ pc'[t] = "espera_blocked"
              /\ pc[t] = "encolar_blocked"
  <2>1. CASE EncolarReady(t)
    BY <1>1, <2>1 DEF EncolarReady, Seguir, Sigue, Ir, EsperaCupo, Listas, TypeOK,
       TipoTripulantes
  <2>2. CASE EncolarBlocked(t)
    BY <1>1, <2>2 DEF EncolarBlocked, Ir, Listas, TypeOK, TipoTripulantes
  <2> QED BY <2>1, <2>2
<1>4. Ausente(t) /\ ~Retenido(t) /\ Turno(t) /\ Bloqueo(t)
  BY <1>1 DEF Colocado, Ausencia
<1>5. \A n \in Listas : EstaEn(t, n)' <=> n = m
  BY <1>1, <1>3, <1>4, Entra DEF Ausente
<1>6. ~Retenido(t)' /\ ~Arrancado(t)' /\ ~(elegido = t)'
  BY <1>1, <1>2, <1>4 DEF Retenido, EnManos, EnEmergencia, Arrancado, Ausente, Colocado, Sitio
<1>7. sem_running'[t] = 0 /\ sem_blocked'[t] = 0 /\ ~LeToca(t)'
  BY <1>1, <1>2, <1>3, <1>4 DEF Turno, Bloqueo, EnEspera, EsperaCupo, Contesto, LeToca, TypeOK,
     TipoSemaforos
<1>8. Sitio(t)'
  BY <1>1, <1>2, <1>5, <1>6 DEF Sitio, Colocado, Retenido, EnEmergencia
<1>9. Nombre(t)'
  BY <1>1, <1>2, <1>3, <1>5, <1>6 DEF Colocado, Nombre, Nombrado, EnEmergencia, Retenido,
     EnManos, EsperaCupo, Listas
<1>10. Turno(t)'
  BY <1>3, <1>5, <1>6, <1>7 DEF Turno, EnEspera, EsperaCupo, ConCupo, Despachado, Listas
<1>11. Bloqueo(t)'
  BY <1>3, <1>5, <1>7 DEF Bloqueo, EsperaCupo, Listas
<1>12. Ausencia(t)'
  BY <1>3 DEF Ausencia, Viaja, EnTransito, ConDispositivo, EsperaCupo
<1>13. tarea'[t] > 0
  BY <1>1, <1>2, <1>3 DEF Colocado
<1> QED BY <1>8, <1>9, <1>10, <1>11, <1>12, <1>13 DEF Colocado

\* A trip leaves running; if the detector took it from there first, the process dies.
LEMMA ColocadoDejar ==
  ASSUME Colocados, ~caido, NEW t \in Tripulantes, Tripulante(t), UNCHANGED vDet,
         DejarPorQuantum(t) \/ DejarPorIO(t) \/ Finalizar(t)
  PROVE  Colocado(t)'
<1>1. TypeOK /\ UnLugar /\ Colocado(t)
  BY ListasSinRepetidos DEF Colocados
<1>2. /\ elegido' = elegido /\ pcPlan' = pcPlan /\ pcIO' = pcIO /\ preso' = preso
      /\ pcDet' = pcDet /\ cola_emergencia' = cola_emergencia /\ estado' = estado
      /\ tarea' = tarea /\ sem_running' = sem_running /\ sem_blocked' = sem_blocked
      /\ trip_block' = trip_block
  BY DEF Tripulante, vPlan, vDet, DejarPorQuantum, DejarPorIO, Finalizar
<1>3. /\ pc[t] \in {"quitar_quantum", "ciclo", "fin"}
      /\ pc'[t] \in {"ready_quantum", "bloquear", "exit"}
      /\ quitar(t, "tripulantes_running")
  BY <1>1 DEF DejarPorQuantum, DejarPorIO, Finalizar, quitar_running, Seguir, Sigue, Ir, TypeOK,
     TipoTripulantes
<1>4. /\ caido' <=> ~EstaEn(t, "tripulantes_running")
      /\ \A n \in Listas : EstaEn(t, n)' <=> EstaEn(t, n) /\ n # "tripulantes_running"
  BY <1>1, <1>3, Sale DEF Listas
<1>5. /\ EnManos(t)' <=> EnManos(t)
      /\ EnEmergencia(t)' <=> EnEmergencia(t)
      /\ Arrancado(t)' <=> Arrancado(t)
      /\ Retenido(t)' <=> Retenido(t)
  BY <1>2 DEF EnManos, EnEmergencia, Arrancado, Retenido
<1>6. Ausente(t) => Ausente(t)'
  BY <1>2, <1>4 DEF Ausente
<1>7. Sitio(t)'
  BY <1>1, <1>2, <1>4, <1>5, <1>6 DEF Colocado, Sitio
<1>8. tarea'[t] > 0
  BY <1>1, <1>2, <1>3 DEF Colocado
<1>9. Nombre(t)'
  BY <1>1, <1>2, <1>3, <1>4, <1>5 DEF Colocado, Nombre, Nombrado, Listas
<1>10. ASSUME EstaEn(t, "tripulantes_running")
       PROVE  Turno(t)' /\ Bloqueo(t)' /\ Ausencia(t)'
  <2>1. /\ \A n \in Listas : ~EstaEn(t, n)'
        /\ elegido # t /\ ~Retenido(t)
    BY <1>1, <1>4, <1>10 DEF Colocado, Sitio, Ausente, Listas
  <2>2. ~Arrancado(t)
    BY <1>1, <2>1 DEF Colocado, Sitio, Arrancado, Retenido, EnManos
  <2>3. sem_running'[t] = 0 /\ sem_blocked'[t] = 0 /\ ~LeToca(t)'
    BY <1>1, <1>2, <1>3, <1>10 DEF Colocado, Turno, Bloqueo, EnEspera, EsperaCupo, LeToca,
       TypeOK, TipoSemaforos
  <2>4. Turno(t)'
    BY <1>2, <1>3, <1>5, <2>1, <2>2, <2>3 DEF Turno, EnEspera, EsperaCupo, ConCupo, Despachado, Listas
  <2>5. Bloqueo(t)'
    BY <1>3, <2>1, <2>3 DEF Bloqueo, Listas
  <2>6. Ausencia(t)'
    BY <1>2, <1>5, <2>1 DEF Ausencia, Ausente
  <2> QED BY <2>4, <2>5, <2>6
<1> QED BY <1>4, <1>7, <1>8, <1>9, <1>10 DEF Colocado

\* The planner's post lets a trip go on, and only when it has its slot.
LEMMA ColocadoEsperar ==
  ASSUME Colocados, ~caido, NEW t \in Tripulantes, Tripulante(t), UNCHANGED vDet,
         EsperarRunning(t) \/ Ceder(t)
  PROVE  Colocado(t)'
<1>1. TypeOK /\ Colocado(t)
  BY ListasSinRepetidos DEF Colocados
<1>2. /\ elegido' = elegido /\ pcPlan' = pcPlan /\ pcIO' = pcIO /\ preso' = preso
      /\ pcDet' = pcDet /\ cola_emergencia' = cola_emergencia /\ estado' = estado
      /\ tarea' = tarea /\ sem_blocked' = sem_blocked /\ trip_block' = trip_block
      /\ lista' = lista /\ caido' = caido
  BY DEF Tripulante, vPlan, vDet, EsperarRunning, Ceder
<1>3. /\ EnManos(t)' <=> EnManos(t)
      /\ EnEmergencia(t)' <=> EnEmergencia(t)
      /\ Arrancado(t)' <=> Arrancado(t)
      /\ Retenido(t)' <=> Retenido(t)
      /\ Ausente(t)' <=> Ausente(t)
      /\ \A l \in Listas : EstaEn(t, l)' <=> EstaEn(t, l)
      /\ LeToca(t)' <=> LeToca(t)
  BY <1>2 DEF EnManos, EnEmergencia, Arrancado, Retenido, Ausente, EstaEn, LeToca
<1>4. Turno(t) /\ Bloqueo(t)
  BY <1>1 DEF Colocado
<1>5. Sitio(t)'
  BY <1>1, <1>2, <1>3 DEF Colocado, Sitio
<1>6. CASE EsperarRunning(t)
  <2>1. sem_running[t] = 1 /\ EnEspera(t) /\ sem_running'[t] = 0
    BY <1>1, <1>4, <1>6 DEF EsperarRunning, Turno, TypeOK, TipoSemaforos
  <2>2. pc[t] \in EsperaCupo \union {"espera_emergencia"}
    BY <1>6, <2>1 DEF EsperarRunning, EnEspera
  <2>3. pc'[t] \in {"pausa_inicio", "pausa_puede", "tarea_hecha", "ciclo"}
    BY <1>1, <1>6, <2>2 DEF EsperarRunning, Seguir, Sigue, Ir, EsperaCupo, TypeOK,
       TipoTripulantes
  <2>4. tarea'[t] > 0
    BY <1>1, <1>2, <2>2 DEF Colocado, EsperaCupo
  <2>5. Nombre(t)'
    BY <1>1, <1>2, <1>3, <2>3 DEF Colocado, Nombre, Nombrado, Listas
  <2>6. ConCupo(t) /\ ConCupo(t)' /\ ~Contesto(t)
    BY <2>1, <2>3 DEF ConCupo, Despachado, Contesto
  <2>7. Turno(t)'
    BY <1>2, <1>3, <1>4, <2>1, <2>6 DEF Turno, Listas
  <2>8. Bloqueo(t)' /\ Ausencia(t)'
    BY <1>2, <1>3, <1>4, <2>1, <2>2, <2>3, <2>6
       DEF Bloqueo, Ausencia, Viaja, EnTransito, ConDispositivo, EsperaCupo, Listas
  <2> QED BY <1>5, <2>4, <2>5, <2>7, <2>8 DEF Colocado
<1>7. CASE Ceder(t)
  <2>1. pc[t] = "ceder" /\ pc'[t] = "espera_emergencia" /\ sem_running' = sem_running
    BY <1>1, <1>7 DEF Ceder, Ir, TypeOK, TipoTripulantes
  <2>2. tarea'[t] > 0
    BY <1>1, <1>2, <2>1 DEF Colocado
  <2>3. Nombre(t)'
    BY <1>1, <1>2, <1>3, <2>1 DEF Colocado, Nombre, Nombrado, Listas
  <2>4. /\ ConCupo(t)' <=> ConCupo(t)
        /\ EnEspera(t)' /\ EnEspera(t)
        /\ Contesto(t)' <=> Contesto(t)
    BY <1>2, <2>1 DEF ConCupo, Despachado, Contesto, EnEspera
  <2>5. Turno(t)'
    BY <1>2, <1>3, <1>4, <2>1, <2>4 DEF Turno, Listas
  <2>6. Bloqueo(t)' /\ Ausencia(t)'
    BY <1>2, <1>3, <1>4, <2>1, <2>4
       DEF Bloqueo, Ausencia, Viaja, EnTransito, ConDispositivo, Listas
  <2> QED BY <1>5, <2>2, <2>3, <2>5, <2>6 DEF Colocado
<1> QED BY <1>6, <1>7

\* Only the trip that the detector waits for sees itself in EMERGENCY, and answers once.
LEMMA ColocadoEmergencia ==
  ASSUME Colocados, ~caido, NEW t \in Tripulantes, Tripulante(t), UNCHANGED vDet,
         MirarEmergencia(t)
  PROVE  /\ Colocado(t)'
         /\ estado[t] = "EMERGENCY" =>
              pcDet = "esperar_trip" /\ preso = t /\ sem_running[t] = 0
<1>1. TypeOK /\ Colocado(t)
  BY ListasSinRepetidos DEF Colocados
<1>2. /\ elegido' = elegido /\ pcPlan' = pcPlan /\ pcIO' = pcIO /\ preso' = preso
      /\ pcDet' = pcDet /\ cola_emergencia' = cola_emergencia /\ estado' = estado
      /\ tarea' = tarea /\ sem_running' = sem_running /\ trip_block' = trip_block
      /\ lista' = lista /\ caido' = caido
  BY DEF Tripulante, vPlan, vDet, MirarEmergencia
<1>3. /\ EnManos(t)' <=> EnManos(t)
      /\ EnEmergencia(t)' <=> EnEmergencia(t)
      /\ Arrancado(t)' <=> Arrancado(t)
      /\ Retenido(t)' <=> Retenido(t)
      /\ Ausente(t)' <=> Ausente(t)
      /\ \A l \in Listas : EstaEn(t, l)' <=> EstaEn(t, l)
      /\ LeToca(t)' <=> LeToca(t)
  BY <1>2 DEF EnManos, EnEmergencia, Arrancado, Retenido, Ausente, EstaEn, LeToca
<1>4. Turno(t) /\ Bloqueo(t) /\ pc[t] = "emergencia" /\ tarea[t] > 0
  BY <1>1 DEF Colocado, MirarEmergencia
<1>5. CASE estado[t] # "EMERGENCY"
  <2>1. pc'[t] = "ciclo" /\ sem_blocked' = sem_blocked
    BY <1>1, <1>5 DEF MirarEmergencia, Seguir, Sigue, Ir, TypeOK, TipoTripulantes
  <2>2. Colocado(t)'
    BY <1>1, <1>2, <1>3, <1>4, <2>1, PasoPropio
       DEF EnEspera, EsperaCupo, Viaja, EnTransito, ConDispositivo, Despachado, Nombrado
  <2> QED BY <1>5, <2>2
<1>6. CASE estado[t] = "EMERGENCY"
  <2>1. /\ pc'[t] = "ceder"
        /\ sem_blocked'[t] = sem_blocked[t] + 1
    BY <1>1, <1>6 DEF MirarEmergencia, Ir, TypeOK, TipoTripulantes, TipoSemaforos
  <2>2. EnEmergencia(t) /\ Retenido(t) /\ ~EnEspera(t) /\ Ausente(t)
    BY <1>1, <1>4, <1>6 DEF Colocado, Nombre, Sitio, Retenido, EnEspera, EsperaCupo
  <2>3. Arrancado(t)
    BY <1>4, <2>2 DEF Turno
  <2>4. pcDet = "esperar_trip" /\ preso = t /\ ~EnManos(t)
    BY <1>1, <2>2, <2>3 DEF Arrancado, Colocado, Sitio, EnManos
  <2>5. sem_running[t] = 0 /\ sem_blocked[t] = 0
    BY <1>1, <1>4, <2>2, <2>3 DEF Turno, Contesto, EnEspera, TypeOK, TipoSemaforos
  <2>6. Contesto(t)' /\ ~ConCupo(t)'
    BY <1>2, <2>1, <2>4, <2>5 DEF Contesto, ConCupo, Despachado, EnEspera
  <2>7. Sitio(t)'
    BY <1>1, <1>2, <1>3 DEF Colocado, Sitio
  <2>8. Nombre(t)'
    BY <1>1, <1>2, <1>3, <2>1 DEF Colocado, Nombre, Nombrado, Listas
  <2>9. Turno(t)'
    BY <1>2, <1>3, <2>2, <2>3, <2>5, <2>6 DEF Turno, Ausente, Listas
  <2>10. Bloqueo(t)' /\ Ausencia(t)'
    BY <1>2, <1>3, <1>4, <2>1, <2>2, <2>3, <2>5, <2>6
       DEF Bloqueo, Ausente, Ausencia, Viaja, EnTransito, ConDispositivo, Listas
  <2>11. Colocado(t)'
    BY <1>2, <1>4, <2>7, <2>8, <2>9, <2>10 DEF Colocado
  <2> QED BY <2>4, <2>5, <2>11
<1> QED BY <1>5, <1>6

\* A trip takes the device and gives it back.
LEMMA ColocadoDispositivo ==
  ASSUME Colocados, ~caido, NEW t \in Tripulantes, Tripulante(t), UNCHANGED vDet,
         EsperarBlocked(t) \/ SoltarIO(t)
  PROVE  Colocado(t)'
<1>1. TypeOK /\ Colocado(t)
  BY ListasSinRepetidos DEF Colocados
<1>2. /\ elegido' = elegido /\ pcPlan' = pcPlan /\ pcIO' = pcIO /\ preso' = preso
      /\ pcDet' = pcDet /\ cola_emergencia' = cola_emergencia /\ estado' = estado
      /\ tarea' = tarea /\ sem_running' = sem_running /\ lista' = lista
      /\ trip_block' \in {trip_block, Nadie}
  BY DEF Tripulante, vPlan, vDet, EsperarBlocked, SoltarIO
<1>3. /\ EnManos(t)' <=> EnManos(t)
      /\ EnEmergencia(t)' <=> EnEmergencia(t)
      /\ Arrancado(t)' <=> Arrancado(t)
      /\ Retenido(t)' <=> Retenido(t)
      /\ Ausente(t)' <=> Ausente(t)
      /\ \A l \in Listas : EstaEn(t, l)' <=> EstaEn(t, l)
      /\ LeToca(t)' => LeToca(t)
  BY <1>2, ConstantesValidas
     DEF EnManos, EnEmergencia, Arrancado, Retenido, Ausente, EstaEn, LeToca
<1>4. Turno(t) /\ Bloqueo(t) /\ Ausencia(t)
  BY <1>1 DEF Colocado
<1>5. \/ /\ pc[t] = "espera_blocked" /\ pc'[t] = "pausa_io"
         /\ sem_blocked[t] > 0 /\ sem_blocked'[t] = 0
      \/ pc[t] = "ciclo_io" /\ pc'[t] = "vuelta_io" /\ sem_blocked'[t] = sem_blocked[t]
  BY <1>1, <1>4 DEF EsperarBlocked, SoltarIO, Ir, Bloqueo, TypeOK, TipoTripulantes,
     TipoSemaforos
<1>6. Ausente(t) /\ ~Retenido(t) /\ tarea'[t] > 0
  BY <1>1, <1>2, <1>4, <1>5
     DEF Bloqueo, Ausencia, Viaja, EnTransito, ConDispositivo, Colocado
<1>7. sem_blocked'[t] = 0 /\ ~LeToca(t)' /\ sem_running'[t] = 0
  BY <1>1, <1>2, <1>3, <1>4, <1>5
     DEF Bloqueo, Turno, Contesto, EnEspera, EsperaCupo, TypeOK, TipoSemaforos
<1>8. Sitio(t)'
  BY <1>1, <1>2, <1>3 DEF Colocado, Sitio
<1>9. Nombre(t)'
  BY <1>1, <1>2, <1>3, <1>5 DEF Colocado, Nombre, Nombrado, Listas
<1>10. ~Arrancado(t)
  BY <1>1, <1>6 DEF Colocado, Sitio, Arrancado, Retenido, EnManos
<1>11. Turno(t)'
  BY <1>3, <1>5, <1>6, <1>7, <1>10
     DEF Turno, ConCupo, Despachado, EnEspera, EsperaCupo, Ausente, Listas
<1>12. Bloqueo(t)' /\ Ausencia(t)'
  BY <1>3, <1>5, <1>6, <1>7 DEF Bloqueo, Ausencia, Ausente, Listas
<1> QED BY <1>6, <1>8, <1>9, <1>11, <1>12 DEF Colocado

\* Every step of a trip keeps everyone's place.
LEMMA ColocadosTripulante ==
  ASSUME Colocados, ~caido, NEW t \in Tripulantes, Tripulante(t), UNCHANGED vDet
  PROVE  /\ \A u \in Tripulantes : Colocado(u)'
         /\ \A l \in Listas : IsInjective(lista'[l])
<1>1. TypeOK /\ UnLugar /\ Colocado(t)
  BY ListasSinRepetidos DEF Colocados
<1>2. Colocado(t)'
  BY NadieExpulsado, ColocadoPropio, ColocadoEncolar, ColocadoDejar, ColocadoEsperar,
     ColocadoEmergencia, ColocadoDispositivo DEF Tripulante
<1>3. \A l \in Listas : IsInjective(lista'[l])
  <2>1. CASE EncolarReady(t) \/ EncolarBlocked(t)
    <3>1. PICK m \in Listas : Encolar(t, m)
      BY <2>1 DEF EncolarReady, EncolarBlocked, Listas
    <3>2. Ausente(t)
      BY <1>1, <2>1 DEF EncolarReady, EncolarBlocked, Colocado, Ausencia, Viaja, EnTransito
    <3> QED BY <1>1, <3>1, <3>2, Entra DEF Ausente
  <2>2. CASE DejarPorQuantum(t) \/ DejarPorIO(t) \/ Finalizar(t)
    <3>1. quitar(t, "tripulantes_running")
      BY <2>2 DEF DejarPorQuantum, DejarPorIO, Finalizar, quitar_running
    <3> QED BY <1>1, <3>1, Sale DEF Listas
  <2>3. CASE lista' = lista
    BY <1>1, <2>3 DEF UnLugar
  <2> QED BY <2>1, <2>2, <2>3, NadieExpulsado DEF Tripulante, SolicitarTarea, PasarAReady,
          EsperarRunning, MirarPausa, EjecutarCiclo, MirarEmergencia, Ceder, DejarCiclo,
          PasarABlocked, EsperarBlocked, ContinuarIO, MirarSabotaje, EsperarFinSabotaje, CicloIO, SoltarIO,
          MirarContinuar, PasarAExit
<1> QED BY <1>2, <1>3, OtrosQuietos

-----------------------------------------------------------------------------
(* Until the user resumes: the planners, the console and the detector *)

\* The planner moves a trip from cola_ready to its hands and from there to running.
LEMMA ColocadosPlanificador ==
  ASSUME Colocados, ~caido, planificador, UNCHANGED vDet
  PROVE  /\ \A u \in Tripulantes : Colocado(u)'
         /\ \A l \in Listas : IsInjective(lista'[l])
<1>1. TypeOK /\ UnLugar /\ \A u \in Tripulantes : Colocado(u)
  BY ListasSinRepetidos DEF Colocados
<1>2. /\ pc' = pc /\ tarea' = tarea /\ pcIO' = pcIO /\ trip_block' = trip_block
      /\ sem_blocked' = sem_blocked /\ preso' = preso /\ pcDet' = pcDet
      /\ cola_emergencia' = cola_emergencia
  BY DEF planificador, vTrip, vDet
<1>3. ASSUME NEW u \in Tripulantes
      PROVE  /\ EnManos(u)' <=> EnManos(u)
             /\ EnEmergencia(u)' <=> EnEmergencia(u)
             /\ Arrancado(u)' <=> Arrancado(u)
             /\ Retenido(u)' <=> Retenido(u)
             /\ LeToca(u)' <=> LeToca(u)
  BY <1>2 DEF EnManos, EnEmergencia, Arrancado, Retenido, LeToca
<1>4. CASE lista' = lista /\ elegido' = elegido /\ estado' = estado
           /\ sem_running' = sem_running /\ pcPlan' # "encolar_running"
  <2>1. ASSUME NEW u \in Tripulantes PROVE Colocado(u)'
    <3>1. \A l \in Listas : EstaEn(u, l)' <=> EstaEn(u, l)
      BY <1>4 DEF EstaEn
    <3> QED BY <1>1, <1>2, <1>3, <1>4, <3>1, Quieto
  <2> QED BY <1>1, <1>4, <2>1 DEF UnLugar
<1>5. CASE PlanQuitarReady /\ lista["cola_ready"] # <<>>
  <2>1. PICK h : h = Head(lista["cola_ready"])
    OBVIOUS
  <2>2. /\ elegido' = h /\ estado' = estado /\ pcPlan' = "pasar_a_running"
        /\ sem_running' = sem_running /\ caido' = caido
        /\ lista' = [lista EXCEPT !["cola_ready"] = Tail(@)]
    BY <1>5, <2>1 DEF PlanQuitarReady, vSem
  <2>3. /\ \A m \in Listas : IsInjective(lista'[m])
        /\ EstaEn(h, "cola_ready") /\ h \in Tripulantes
        /\ \A u, m : m \in Listas =>
             (EstaEn(u, m)' <=> EstaEn(u, m) /\ ~(u = h /\ m = "cola_ready"))
    BY <1>1, <1>5, <2>1, <2>2, SalePrimero DEF Listas
  <2>4. pcPlan = "quitar_ready"
    BY <1>5 DEF PlanQuitarReady
  <2>5. ASSUME NEW u \in Tripulantes, u # h PROVE Colocado(u)'
    <3>1. \A l \in Listas : EstaEn(u, l)' <=> EstaEn(u, l)
      BY <2>3, <2>5
    <3>2. CASE elegido # u
      BY <1>1, <1>2, <1>3, <2>2, <2>5, <3>1, <3>2, Quieto
    <3>3. CASE elegido = u
      <4>1. Ausente(u)' /\ ~Retenido(u)'
        BY <1>1, <1>3, <2>2, <2>5, <3>1, <3>3 DEF Ausente, Colocado, Sitio
      <4>2. Sitio(u)'
        BY <1>1, <1>2, <1>3, <4>1 DEF Sitio, Ausente, Retenido, Colocado
      <4>3. Nombre(u)'
        BY <1>1, <1>2, <1>3, <2>2, <3>1 DEF Nombre, Nombrado, Colocado, Listas
      <4>4. Turno(u)'
        BY <1>1, <1>2, <1>3, <2>2, <3>1, <4>1
           DEF Turno, Ausente, ConCupo, Despachado, EnEspera, Contesto, Colocado, Listas
      <4>5. Bloqueo(u)' /\ Ausencia(u)'
        BY <1>1, <1>2, <1>3, <2>2, <3>1, <4>1
           DEF Bloqueo, Ausencia, Ausente, Viaja, Contesto, Colocado, Listas
      <4> QED BY <1>1, <1>2, <4>2, <4>3, <4>4, <4>5 DEF Colocado
    <3> QED BY <3>2, <3>3
  <2>6. Colocado(h)'
    <3>1. \A l \in Listas : ~EstaEn(h, l)'
      BY <1>1, <2>3 DEF Colocado, Sitio, Listas
    <3>2. elegido' = h /\ ~Retenido(h) /\ ~Arrancado(h)
      BY <1>1, <2>2, <2>3
         DEF Colocado, Sitio, Ausente, Retenido, EnManos, Arrancado, Listas
    <3>3. EnEspera(h) /\ sem_running[h] = 0 /\ sem_blocked[h] = 0 /\ ~LeToca(h)
      BY <1>1, <2>3 DEF Colocado, Turno, Bloqueo, EnEspera, EsperaCupo
    <3>4. Sitio(h)'
      BY <1>1, <1>2, <1>3, <2>3, <3>1, <3>2 DEF Sitio, Retenido, Colocado
    <3>5. Nombre(h)'
      BY <1>1, <1>2, <1>3, <2>2, <2>3, <3>1 DEF Nombre, Nombrado, Colocado, Listas
    <3>6. Turno(h)'
      BY <1>2, <1>3, <2>2, <2>3, <3>1, <3>2, <3>3
         DEF Turno, ConCupo, Despachado, EnEspera, EsperaCupo, Listas
    <3>7. Bloqueo(h)' /\ Ausencia(h)'
      BY <1>2, <1>3, <2>2, <2>3, <3>1, <3>2, <3>3
         DEF Bloqueo, Ausencia, Viaja, EnTransito, ConDispositivo, EnEspera, EsperaCupo, Listas
    <3> QED BY <1>1, <1>2, <2>3, <3>4, <3>5, <3>6, <3>7 DEF Colocado
  <2> QED BY <2>3, <2>5, <2>6
<1>6. CASE PlanPasarARunning
  <2>1. PICK h \in Tripulantes : h = elegido
    BY <1>1, <1>6 DEF PlanPasarARunning, TypeOK, TipoHilos
  <2>2. /\ lista' = lista /\ elegido' = elegido /\ estado'[h] = "RUNNING"
        /\ sem_running' = sem_running /\ caido' = caido /\ pcPlan' = "encolar_running"
        /\ \A u \in Tripulantes \ {h} : estado'[u] = estado[u]
    BY <1>1, <1>6, <2>1 DEF PlanPasarARunning, TypeOK, TipoTripulantes, vSem
  <2>3. \A u \in Tripulantes : \A m \in Listas : EstaEn(u, m)' <=> EstaEn(u, m)
    BY <2>2 DEF EstaEn
  <2>4. ASSUME NEW u \in Tripulantes, u # h PROVE Colocado(u)'
    BY <1>1, <1>2, <1>3, <2>1, <2>2, <2>3, <2>4, Quieto
  <2>5. Colocado(h)'
    <3>1. (\A l \in Listas : ~EstaEn(h, l)) /\ ~Retenido(h) /\ ~Arrancado(h)
      BY <1>1, <2>1
         DEF Colocado, Sitio, Ausente, Retenido, EnManos, Arrancado
    <3>2. EnEspera(h) /\ sem_running[h] = 0 /\ sem_blocked[h] = 0
      BY <1>1, <2>1 DEF Colocado, Turno
    <3>3. Sitio(h)'
      BY <1>1, <1>2, <1>3, <2>2, <2>3 DEF Colocado, Sitio, Ausente
    <3>4. Nombre(h)'
      BY <1>2, <1>3, <2>2, <2>3, <3>1, <3>2
         DEF Nombre, Nombrado, Retenido, EnManos, EnEspera, EsperaCupo, Listas
    <3>5. Turno(h)'
      BY <1>1, <1>2, <1>3, <2>2, <2>3
         DEF Colocado, Turno, ConCupo, Despachado, EnEspera, Contesto, Listas
    <3>6. Bloqueo(h)' /\ Ausencia(h)'
      BY <1>1, <1>2, <1>3, <2>2, <2>3
         DEF Colocado, Bloqueo, Ausencia, Ausente, Viaja, Contesto, Listas
    <3> QED BY <1>1, <1>2, <3>3, <3>4, <3>5, <3>6 DEF Colocado
  <2> QED BY <1>1, <2>2, <2>4, <2>5 DEF UnLugar
<1>7. CASE PlanEncolarRunning
  <2>1. PICK h \in Tripulantes : h = elegido
    BY <1>1, <1>7 DEF PlanEncolarRunning, TypeOK, TipoHilos
  <2>2. /\ elegido' = Nadie /\ estado' = estado /\ pcPlan' = "ready" /\ caido' = caido
        /\ Encolar(h, "tripulantes_running") /\ estado[h] = "RUNNING"
        /\ sem_running' = [sem_running EXCEPT ![h] = @ + 1]
    BY <1>1, <1>7, <2>1 DEF PlanEncolarRunning, Colocado, Nombre
  <2>3. (\A m \in Listas : ~EstaEn(h, m)) /\ ~Retenido(h) /\ ~Arrancado(h)
    BY <1>1, <2>1
       DEF Colocado, Sitio, Ausente, Retenido, EnManos, Arrancado
  <2>4. EnEspera(h) /\ sem_running[h] = 0 /\ sem_blocked[h] = 0
    BY <1>1, <2>1 DEF Colocado, Turno
  <2>5. /\ \A m \in Listas : IsInjective(lista'[m])
        /\ \A u, m : m \in Listas =>
             (EstaEn(u, m)' <=> EstaEn(u, m) \/ (u = h /\ m = "tripulantes_running"))
    BY <1>1, <2>2, <2>3, Entra DEF Listas
  <2>6. sem_running'[h] = 1 /\ \A u \in Tripulantes \ {h} : sem_running'[u] = sem_running[u]
    BY <1>1, <2>2, <2>4 DEF TypeOK, TipoSemaforos
  <2>7. ASSUME NEW u \in Tripulantes, u # h PROVE Colocado(u)'
    <3>1. elegido # u /\ elegido' # u
      BY <2>1, <2>2, <2>7, ConstantesValidas
    <3> QED BY <1>1, <1>2, <1>3, <2>2, <2>5, <2>6, <2>7, <3>1, Quieto
  <2>8. Colocado(h)'
    <3>1. elegido' # h
      BY <2>2, ConstantesValidas
    <3>2. Sitio(h)'
      BY <1>1, <1>2, <1>3, <2>3, <2>5, <3>1 DEF Sitio, Colocado, Retenido
    <3>3. Nombre(h)'
      BY <1>1, <1>2, <1>3, <2>2, <2>3, <2>4, <2>5, <3>1
         DEF Nombre, Nombrado, Colocado, EnEspera, EsperaCupo, Listas
    <3>4. EnEspera(h)' /\ ConCupo(h)'
      BY <1>2, <2>4, <2>6 DEF EnEspera, ConCupo
    <3>5. Turno(h)'
      BY <1>2, <1>3, <2>3, <2>4, <2>5, <2>6, <3>1, <3>4 DEF Turno, Listas
    <3>6. Bloqueo(h)' /\ Ausencia(h)'
      BY <1>1, <1>2, <1>3, <2>2, <2>3, <2>4, <2>5
         DEF Colocado, Bloqueo, Ausencia, Viaja, EnTransito, ConDispositivo, EnEspera,
             EsperaCupo, Listas
    <3> QED BY <1>1, <1>2, <3>2, <3>3, <3>5, <3>6 DEF Colocado
  <2> QED BY <2>5, <2>7, <2>8
<1>8. \/ lista' = lista /\ elegido' = elegido /\ estado' = estado
            /\ sem_running' = sem_running /\ pcPlan' # "encolar_running"
      \/ PlanQuitarReady /\ lista["cola_ready"] # <<>>
      \/ PlanPasarARunning \/ PlanEncolarRunning
  BY DEF planificador, PlanActivar, PlanContinuar, PlanEsperarReady, PlanEsperarCupo,
     PlanMirarSabotaje, PlanEsperarFinSabotaje, PlanHayReady, PlanSinReady, PlanQuitarReady,
     vSem
<1> QED BY <1>4, <1>5, <1>6, <1>7, <1>8

\* The input/output planner takes a trip from cola_blocked and tells it.
LEMMA ColocadosPlanificadorIO ==
  ASSUME Colocados, ~caido, planificador_io, UNCHANGED vDet
  PROVE  /\ \A u \in Tripulantes : Colocado(u)'
         /\ \A l \in Listas : IsInjective(lista'[l])
<1>1. TypeOK /\ UnLugar /\ \A u \in Tripulantes : Colocado(u)
  BY ListasSinRepetidos DEF Colocados
<1>2. /\ pc' = pc /\ tarea' = tarea /\ estado' = estado /\ sem_running' = sem_running
      /\ elegido' = elegido /\ pcPlan' = pcPlan /\ preso' = preso /\ pcDet' = pcDet
      /\ cola_emergencia' = cola_emergencia
  BY DEF planificador_io, vTrip, vPlan, vDet
<1>3. ASSUME NEW u \in Tripulantes
      PROVE  /\ EnManos(u)' <=> EnManos(u)
             /\ EnEmergencia(u)' <=> EnEmergencia(u)
             /\ Arrancado(u)' <=> Arrancado(u)
             /\ Retenido(u)' <=> Retenido(u)
  BY <1>2 DEF EnManos, EnEmergencia, Arrancado, Retenido
<1>4. CASE lista' = lista /\ sem_blocked' = sem_blocked /\ trip_block' = trip_block
           /\ (pcIO' # "avisar" \/ pcIO' = pcIO)
  <2>1. ASSUME NEW u \in Tripulantes PROVE Colocado(u)'
    <3>1. (\A l \in Listas : EstaEn(u, l)' <=> EstaEn(u, l)) /\ (LeToca(u)' => LeToca(u))
      BY <1>4 DEF EstaEn, LeToca
    <3> QED BY <1>1, <1>2, <1>3, <1>4, <3>1, Quieto
  <2> QED BY <1>1, <1>4, <2>1 DEF UnLugar
<1>5. CASE IOQuitarBlocked /\ lista["cola_blocked"] # <<>>
  <2>1. PICK h : h = Head(lista["cola_blocked"])
    OBVIOUS
  <2>2. /\ trip_block' = h /\ sem_blocked' = sem_blocked /\ pcIO' = "avisar"
        /\ lista' = [lista EXCEPT !["cola_blocked"] = Tail(@)] /\ caido' = caido
    BY <1>5, <2>1 DEF IOQuitarBlocked
  <2>3. /\ \A m \in Listas : IsInjective(lista'[m])
        /\ EstaEn(h, "cola_blocked") /\ h \in Tripulantes
        /\ \A u, m : m \in Listas =>
             (EstaEn(u, m)' <=> EstaEn(u, m) /\ ~(u = h /\ m = "cola_blocked"))
    BY <1>1, <1>5, <2>1, <2>2, SalePrimero DEF Listas
  <2>4. ASSUME NEW u \in Tripulantes, u # h PROVE Colocado(u)'
    <3>1. (\A l \in Listas : EstaEn(u, l)' <=> EstaEn(u, l)) /\ ~LeToca(u)'
      BY <2>2, <2>3, <2>4 DEF LeToca
    <3> QED BY <1>1, <1>2, <1>3, <2>2, <2>4, <3>1, Quieto
  <2>5. Colocado(h)'
    <3>1. /\ \A l \in Listas : ~EstaEn(h, l)'
          /\ elegido # h /\ ~Retenido(h) /\ ~Arrancado(h)
      BY <1>1, <2>3
         DEF Colocado, Sitio, Ausente, Retenido, EnManos, Arrancado, Listas
    <3>2. pc[h] = "espera_blocked" /\ sem_blocked[h] = 0
      BY <1>1, <2>3 DEF Colocado, Bloqueo
    <3>3. Sitio(h)' /\ Nombre(h)'
      BY <1>1, <1>2, <1>3, <2>3, <3>1 DEF Colocado, Sitio, Nombre, Nombrado, Retenido, Listas
    <3>4. Turno(h)'
      BY <1>1, <1>2, <1>3, <2>2, <2>3, <3>1, <3>2
         DEF Colocado, Turno, ConCupo, Despachado, EnEspera, EsperaCupo, Listas
    <3>5. Bloqueo(h)' /\ Ausencia(h)'
      BY <1>2, <1>3, <2>2, <2>3, <3>1, <3>2
         DEF Bloqueo, Ausencia, Ausente, Viaja, EnTransito, ConDispositivo, Listas
    <3> QED BY <1>1, <1>2, <2>3, <3>3, <3>4, <3>5 DEF Colocado
  <2> QED BY <2>3, <2>4, <2>5
<1>6. CASE IOAvisar /\ trip_block # Nadie
  <2>1. PICK h \in Tripulantes : h = trip_block
    BY <1>1, <1>6 DEF TypeOK, TipoListas
  <2>2. /\ lista' = lista /\ trip_block' = trip_block /\ pcIO' = "esperar_trip"
        /\ caido' = caido /\ LeToca(h) /\ ~LeToca(h)'
        /\ sem_blocked' = [sem_blocked EXCEPT ![h] = @ + 1]
    BY <1>6, <2>1 DEF IOAvisar, LeToca
  <2>3. \A u \in Tripulantes : \A l \in Listas : EstaEn(u, l)' <=> EstaEn(u, l)
    BY <2>2 DEF EstaEn
  <2>4. /\ pc[h] = "espera_blocked" /\ sem_blocked[h] = 0 /\ Ausente(h) /\ ~Retenido(h)
        /\ ~Arrancado(h)
    BY <1>1, <2>2 DEF Colocado, Bloqueo, Sitio, Retenido, EnManos, Arrancado
  <2>5. sem_blocked'[h] = 1 /\ \A u \in Tripulantes \ {h} : sem_blocked'[u] = sem_blocked[u]
    BY <1>1, <2>2, <2>4 DEF TypeOK, TipoSemaforos
  <2>6. ASSUME NEW u \in Tripulantes, u # h PROVE Colocado(u)'
    <3>1. ~LeToca(u)'
      BY <2>2 DEF LeToca
    <3> QED BY <1>1, <1>2, <1>3, <2>2, <2>3, <2>5, <2>6, <3>1, Quieto
  <2>7. Colocado(h)'
    <3>1. Ausente(h)'
      BY <1>2, <2>3, <2>4 DEF Ausente
    <3>2. Sitio(h)' /\ Nombre(h)'
      BY <1>1, <1>2, <1>3, <2>3, <3>1 DEF Colocado, Sitio, Nombre, Nombrado, Listas
    <3>3. Turno(h)'
      BY <1>1, <1>2, <1>3, <2>2, <2>3, <2>4
         DEF Colocado, Turno, ConCupo, Despachado, EnEspera, EsperaCupo, Ausente, Listas
    <3>4. Bloqueo(h)' /\ Ausencia(h)'
      BY <1>2, <1>3, <2>2, <2>3, <2>4, <2>5, <3>1
         DEF Bloqueo, Ausencia, Ausente, Viaja, EnTransito, ConDispositivo, Listas
    <3> QED BY <1>1, <1>2, <3>2, <3>3, <3>4 DEF Colocado
  <2> QED BY <1>1, <2>2, <2>6, <2>7 DEF UnLugar
<1>7. \/ lista' = lista /\ sem_blocked' = sem_blocked /\ trip_block' = trip_block
           /\ (pcIO' # "avisar" \/ pcIO' = pcIO)
      \/ IOQuitarBlocked /\ lista["cola_blocked"] # <<>>
      \/ IOAvisar /\ trip_block # Nadie
  BY DEF planificador_io, IOEsperarTrip, IOEsperarDispositivo, IOQuitarBlocked, IOAvisar
<1> QED BY <1>4, <1>5, <1>6, <1>7

\* The console that does not resume touches nothing of the trips.
LEMMA ColocadosConsola ==
  ASSUME Colocados, ~caido, consola, ~Reiniciar, UNCHANGED vDet
  PROVE  /\ \A u \in Tripulantes : Colocado(u)'
         /\ \A l \in Listas : IsInjective(lista'[l])
         /\ pcCons' = "leer"
<1>1. pcCons = "leer" /\ \A u \in Tripulantes : Colocado(u)
  BY DEF Colocados
<1>2. IniciarPlanificacion \/ pausar_planificacion
  BY <1>1 DEF consola, iniciar_planificacion, TerminarOrden, ReiniciarMirar, ReiniciarPost,
     ReiniciarMirarBlock, ReiniciarPostBlock, ReiniciarMirarSabotaje
<1>3. /\ pc' = pc /\ tarea' = tarea /\ estado' = estado /\ sem_running' = sem_running
      /\ sem_blocked' = sem_blocked /\ lista' = lista /\ trip_block' = trip_block
      /\ elegido' = elegido /\ pcPlan' = pcPlan /\ pcIO' = pcIO /\ preso' = preso
      /\ pcDet' = pcDet /\ cola_emergencia' = cola_emergencia /\ pcCons' = pcCons
  BY <1>2 DEF consola, vTrip, vPlan, vSem, vDet, IniciarPlanificacion, pausar_planificacion
<1>4. ASSUME NEW u \in Tripulantes PROVE Colocado(u)'
  <2>1. /\ \A l \in Listas : EstaEn(u, l)' <=> EstaEn(u, l)
        /\ LeToca(u)' <=> LeToca(u)
        /\ EnEmergencia(u)' <=> EnEmergencia(u)
    BY <1>3 DEF EstaEn, LeToca, EnEmergencia
  <2> QED BY <1>1, <1>3, <2>1, Quieto
<1> QED BY <1>1, <1>3, <1>4 DEF Colocados

\* The detector sends the chosen trip to the end of cola_emergencia: the same trips.
LEMMA AlFinalElegido ==
  ASSUME NEW S, NEW s \in Seq(S), IsInjective(s), NEW n \in 1 .. Len(s)
  PROVE  LET q == Append(RemoveAt(s, n), s[n])
         IN ToSet(q) = ToSet(s) /\ IsInjective(q)
<1> DEFINE r == RemoveAt(s, n)
<1>1. r \in Seq(S) /\ Len(r) = Len(s) - 1 /\ s[n] \in S /\ Len(s) \in Nat
      /\ DOMAIN s = 1 .. Len(s) /\ DOMAIN r = 1 .. Len(s) - 1
      /\ \A i \in 1 .. Len(s) - 1 : r[i] = IF i < n THEN s[i] ELSE s[i + 1]
  BY SinPosicion, LosOtros
<1> HIDE DEF r
<1>0. \A i \in 1 .. Len(s) - 1 : \E k \in 1 .. Len(s) :
        r[i] = s[k] /\ k # n /\ k = IF i < n THEN i ELSE i + 1
  BY <1>1
<1>2. IsInjective(r) /\ s[n] \notin ToSet(r)
  <2>1. ASSUME NEW i \in 1 .. Len(s) - 1, NEW j \in 1 .. Len(s) - 1, r[i] = r[j]
        PROVE  i = j
    <3>1. PICK k \in 1 .. Len(s) : r[i] = s[k] /\ k = IF i < n THEN i ELSE i + 1
      BY <1>0
    <3>2. PICK m \in 1 .. Len(s) : r[j] = s[m] /\ m = IF j < n THEN j ELSE j + 1
      BY <1>0
    <3>3. k = m
      BY <1>1, <2>1, <3>1, <3>2 DEF IsInjective
    <3> QED BY <3>1, <3>2, <3>3
  <2>2. ASSUME NEW i \in 1 .. Len(s) - 1 PROVE r[i] # s[n]
    <3>1. PICK k \in 1 .. Len(s) : r[i] = s[k] /\ k # n
      BY <1>0
    <3>2. s[k] # s[n]
      BY <1>1, <3>1 DEF IsInjective
    <3> QED BY <3>1, <3>2
  <2> QED BY <1>1, <2>1, <2>2 DEF ToSet, IsInjective
<1>3. ToSet(Append(r, s[n])) = ToSet(r) \union {s[n]} /\ IsInjective(Append(r, s[n]))
  BY <1>1, <1>2, AlFinal
<1>4. ToSet(r) \subseteq ToSet(s) /\ s[n] \in ToSet(s)
  <2>1. ToSet(r) = {r[i] : i \in 1 .. Len(s) - 1} /\ ToSet(s) = {s[k] : k \in 1 .. Len(s)}
    BY <1>1 DEF ToSet
  <2>2. ASSUME NEW x \in ToSet(r) PROVE x \in ToSet(s)
    <3>1. PICK i \in 1 .. Len(s) - 1 : x = r[i]
      BY <2>1, <2>2
    <3>2. PICK k \in 1 .. Len(s) : r[i] = s[k]
      BY <1>0, <3>1
    <3> QED BY <2>1, <3>1, <3>2
  <2> QED BY <2>1, <2>2
<1>5. ASSUME NEW i \in 1 .. Len(s), i # n
      PROVE  s[i] \in ToSet(r)
  <2>1. CASE i < n
    <3>1. i \in 1 .. Len(s) - 1 /\ r[i] = s[i]
      BY <1>1, <2>1
    <3> QED BY <1>1, <3>1 DEF ToSet
  <2>2. CASE i > n
    <3>1. i - 1 \in 1 .. Len(s) - 1 /\ (i - 1) + 1 = i /\ ~(i - 1 < n)
      BY <1>1, <2>2
    <3>2. r[i - 1] = s[i]
      BY <1>1, <3>1
    <3> QED BY <1>1, <3>1, <3>2 DEF ToSet
  <2> QED BY <1>1, <1>5, <2>1, <2>2
<1>6. ToSet(s) \subseteq ToSet(r) \union {s[n]}
  BY <1>1, <1>5 DEF ToSet
<1> QED BY <1>3, <1>4, <1>6 DEF r

\* The trip t, chosen by the detector, leaves the list l.
LEMMA SaleElegido ==
  ASSUME TypeOK, UnLugar, NEW t \in Tripulantes, NEW l \in Listas,
         lista' = [lista EXCEPT ![l] = RemoveFirst(@, t)]
  PROVE  /\ \A m \in Listas : IsInjective(lista'[m])
         /\ \A u, m : m \in Listas => (EstaEn(u, m)' <=> EstaEn(u, m) /\ ~(u = t /\ m = l))
<1> DEFINE q == RemoveFirst(lista[l], t)
<1>1. lista \in [Listas -> Seq(Tripulantes)] /\ lista[l] \in Seq(Tripulantes)
  BY DEF TypeOK, TipoListas
<1>2. lista' = [lista EXCEPT ![l] = q]
  OBVIOUS
<1>3. ToSet(q) = ToSet(lista[l]) \ {t} /\ IsInjective(q)
  BY <1>1, SinElemento DEF UnLugar
<1> HIDE DEF q
<1>4. lista'[l] = q /\ \A m \in Listas \ {l} : lista'[m] = lista[m]
  BY <1>1, <1>2
<1>5. \A m \in Listas : IsInjective(lista'[m])
  BY <1>3, <1>4 DEF UnLugar
<1>6. ASSUME NEW u, NEW m \in Listas
      PROVE  EstaEn(u, m)' <=> EstaEn(u, m) /\ ~(u = t /\ m = l)
  BY <1>3, <1>4 DEF EstaEn
<1> QED BY <1>5, <1>6

\* The steps of the detector that move no trip.
LEMMA DetectorQuieto ==
  ASSUME Colocados, ~caido, detector_sabotaje,
         lista' = lista, estado' = estado, sem_blocked' = sem_blocked,
         ToSet(cola_emergencia') = ToSet(cola_emergencia),
         IsInjective(cola_emergencia'),
         \/ preso' = preso /\ pcDet' = pcDet
         \/ /\ {pcDet, pcDet'} \intersect
                 {"emergencia_running", "emergencia_ready", "encolar_ready", "esperar_trip"} = {}
            /\ \/ pcDet \in Reposo \/ pcDet' \notin Reposo \/ cola_emergencia = <<>>
  PROVE  /\ \A u \in Tripulantes : Colocado(u)'
         /\ \A l \in Listas : IsInjective(lista'[l])
         /\ IsInjective(cola_emergencia')
<1>1. ASSUME NEW u \in Tripulantes PROVE Colocado(u)'
  <2>1. Colocado(u)
    BY DEF Colocados
  <2>2. /\ pc' = pc /\ tarea' = tarea /\ sem_running' = sem_running /\ elegido' = elegido
        /\ pcPlan' = pcPlan /\ trip_block' = trip_block /\ pcIO' = pcIO
    BY DEF detector_sabotaje, vTrip, vPlan
  <2>3. /\ \A l \in Listas : EstaEn(u, l)' <=> EstaEn(u, l)
        /\ LeToca(u)' <=> LeToca(u)
        /\ EnEmergencia(u)' <=> EnEmergencia(u)
    BY <2>2 DEF EstaEn, LeToca, EnEmergencia
  <2>4. \/ preso' = preso /\ pcDet' = pcDet
        \/ ~Asido(u) /\ ~Asido(u)' /\ (EnEmergencia(u) => pcDet' \notin Reposo)
    <3>1. EnEmergencia(u) => pcDet \notin Reposo
      BY <2>1 DEF Colocado, Sitio
    <3>2. cola_emergencia = <<>> => ~EnEmergencia(u)
      BY DEF EnEmergencia, ToSet
    <3> DEFINE Manos == {"emergencia_running", "emergencia_ready", "encolar_ready",
                         "esperar_trip"}
    <3>3. CASE pcDet \notin Manos /\ pcDet' \notin Manos
               /\ (pcDet \in Reposo \/ pcDet' \notin Reposo \/ cola_emergencia = <<>>)
      BY <3>1, <3>2, <3>3 DEF Asido
    <3>4. {pcDet, pcDet'} \intersect Manos = {} => pcDet \notin Manos /\ pcDet' \notin Manos
      OBVIOUS
    <3> QED BY <3>3, <3>4
  <2> QED BY <2>1, <2>2, <2>3, <2>4, Quieto
<1> QED BY <1>1 DEF Colocados

\* The detector takes a trip from running or from ready.
LEMMA DetectorQuita ==
  ASSUME Colocados, ~caido, detector_sabotaje, DetQuitarRunning \/ DetQuitarReady
  PROVE  /\ \A u \in Tripulantes : Colocado(u)'
         /\ \A l \in Listas : IsInjective(lista'[l])
         /\ IsInjective(cola_emergencia')
<1>1. TypeOK /\ UnLugar /\ \A u \in Tripulantes : Colocado(u)
  BY ListasSinRepetidos DEF Colocados
<1>2. PICK l \in Listas, sigue \in {"emergencia_running", "emergencia_ready"} :
        /\ DetQuitar(l, sigue)
        /\ \/ /\ l = "tripulantes_running" /\ sigue = "emergencia_running"
              /\ pcDet = "quitar_running"
           \/ l = "cola_ready" /\ sigue = "emergencia_ready" /\ pcDet = "quitar_ready"
  BY DEF DetQuitarRunning, DetQuitarReady, Listas
<1>3. /\ sem_blocked' = sem_blocked /\ estado' = estado
      /\ cola_emergencia' = cola_emergencia /\ IsInjective(cola_emergencia')
  BY <1>1, <1>2, Arranca DEF Colocados
<1>4. CASE lista' = lista /\ preso' = preso /\ pcDet' = pcDet
  BY <1>3, <1>4, DetectorQuieto
<1>5. ASSUME NEW h \in Tripulantes,
             EstaEn(h, l) /\ preso' = h /\ pcDet' = sigue
               /\ lista' = [lista EXCEPT ![l] = RemoveFirst(@, h)]
      PROVE  /\ \A u \in Tripulantes : Colocado(u)'
             /\ \A m \in Listas : IsInjective(lista'[m])
  <2>1. /\ pc' = pc /\ tarea' = tarea /\ sem_running' = sem_running /\ elegido' = elegido
        /\ pcPlan' = pcPlan /\ trip_block' = trip_block /\ pcIO' = pcIO
    BY DEF detector_sabotaje, vTrip, vPlan
  <2>2. /\ \A m \in Listas : IsInjective(lista'[m])
        /\ \A u, m : m \in Listas => (EstaEn(u, m)' <=> EstaEn(u, m) /\ ~(u = h /\ m = l))
    BY <1>1, <1>5, SaleElegido
  <2>3. ASSUME NEW u \in Tripulantes
        PROVE  /\ EnEmergencia(u)' <=> EnEmergencia(u)
               /\ LeToca(u)' <=> LeToca(u)
    BY <1>3, <2>1 DEF EnEmergencia, LeToca
  <2>4. ASSUME NEW u \in Tripulantes, u # h PROVE Colocado(u)'
    <3>1. ~Asido(u) /\ ~Asido(u)' /\ pcDet' \notin Reposo
      BY <1>2, <1>5, <2>4 DEF Asido, Reposo
    <3> QED BY <1>1, <1>3, <2>1, <2>2, <2>3, <2>4, <3>1, Quieto
  <2>5. Colocado(h)'
    <3>1. /\ elegido # h /\ ~EnEmergencia(h)
          /\ \A m \in Listas : ~EstaEn(h, m)'
      BY <1>1, <1>5, <2>2 DEF Colocado, Sitio, Ausente, Retenido
    <3>0. Turno(h) /\ Bloqueo(h)
      BY <1>1 DEF Colocado
    <3>2. /\ \/ ConCupo(h) /\ l = "tripulantes_running"
             \/ EnEspera(h) /\ sem_running[h] = 0 /\ l = "cola_ready"
          /\ sem_blocked[h] = 0
      <4>1. CASE l = "tripulantes_running"
        BY <3>0, <1>5, <4>1 DEF Turno
      <4>2. CASE l = "cola_ready"
        BY <3>0, <1>5, <4>2 DEF Turno
      <4> QED BY <1>2, <4>1, <4>2
    <3>3. ~Viaja(h) /\ pc[h] # "espera_blocked"
      BY <3>2 DEF ConCupo, EnEspera, EsperaCupo, Despachado, Viaja, EnTransito, ConDispositivo
    <3>4. ~LeToca(h)
      BY <1>1, <3>3 DEF Colocado, Bloqueo
    <3>5. EnManos(h)' /\ (Arrancado(h)' <=> l = "tripulantes_running")
      BY <1>2, <1>5 DEF EnManos, Arrancado
    <3>6. Ausente(h)'
      BY <2>1, <3>1 DEF Ausente
    <3>7. Sitio(h)'
      BY <1>2, <1>5, <2>1, <2>3, <3>1, <3>6 DEF Sitio
    <3>8. Nombre(h)'
      BY <1>1, <1>2, <1>3, <1>5, <2>1, <2>3, <3>1 DEF Colocado, Nombre, Nombrado, Listas
    <3>9. (ConCupo(h)' <=> ConCupo(h)) /\ (EnEspera(h)' <=> EnEspera(h))
      BY <2>1 DEF ConCupo, EnEspera, Despachado
    <3>10. l # "tripulantes_running" => ~ConCupo(h) /\ EnEspera(h) /\ sem_running[h] = 0
      BY <1>1, <1>2, <1>5
         DEF Colocado, Turno, ConCupo, EnEspera, EsperaCupo, Despachado
    <3>11. Turno(h)'
      <4>1. sem_running'[h] > 0 => EnEspera(h)' /\ sem_running'[h] = 1
        BY <2>1, <3>0, <3>9 DEF Turno
      <4>2. elegido' # h /\ ~EstaEn(h, "cola_ready")' /\ ~EstaEn(h, "tripulantes_running")'
        BY <2>1, <3>1 DEF Listas
      <4>3. CASE l = "tripulantes_running"
        <5>1. ConCupo(h)' /\ Arrancado(h)' /\ sem_blocked'[h] = 0
          BY <1>3, <3>2, <3>5, <3>9, <4>3
        <5> QED BY <4>1, <4>2, <5>1 DEF Turno
      <4>4. CASE l # "tripulantes_running"
        <5>1. /\ ~ConCupo(h)' /\ ~Arrancado(h)' /\ EnEspera(h)'
              /\ sem_running'[h] = 0 /\ sem_blocked'[h] = 0
          BY <1>3, <2>1, <3>2, <3>5, <3>9, <3>10, <4>4
        <5> QED BY <4>1, <4>2, <5>1 DEF Turno
      <4> QED BY <4>3, <4>4
    <3>12. Bloqueo(h)' /\ Ausencia(h)'
      BY <1>3, <2>1, <2>3, <3>1, <3>2, <3>3, <3>4 DEF Bloqueo, Ausencia, Viaja, Listas
    <3> QED BY <1>1, <2>1, <3>7, <3>8, <3>11, <3>12 DEF Colocado
  <2> QED BY <2>2, <2>4, <2>5
<1> QED BY <1>1, <1>2, <1>3, <1>4, <1>5, Arranca

\* agregar_emergencia: the trip goes from the detector's hands to cola_emergencia.
LEMMA DetectorPasaAEmergencia ==
  ASSUME Colocados, ~caido, detector_sabotaje, DetPasarAEmergencia
  PROVE  /\ \A u \in Tripulantes : Colocado(u)'
         /\ \A l \in Listas : IsInjective(lista'[l])
         /\ IsInjective(cola_emergencia')
<1>1. TypeOKSabotaje /\ TypeOK /\ PresoValido /\ \A u \in Tripulantes : Colocado(u)
  BY ListasSinRepetidos DEF Colocados
<1>2. PICK h \in Tripulantes : h = preso
  BY <1>1 DEF PresoValido, DetPasarAEmergencia
<1>3. /\ pc' = pc /\ tarea' = tarea /\ sem_running' = sem_running /\ elegido' = elegido
      /\ pcPlan' = pcPlan /\ trip_block' = trip_block /\ pcIO' = pcIO /\ lista' = lista
      /\ sem_blocked' = sem_blocked /\ preso' = preso
      /\ estado'[h] = "EMERGENCY" /\ \A u \in Tripulantes \ {h} : estado'[u] = estado[u]
  BY <1>1, <1>2 DEF detector_sabotaje, vTrip, vPlan, DetPasarAEmergencia, TypeOK,
     TipoTripulantes
<1>4. \/ pcDet = "emergencia_running" /\ pcDet' = "esperar_trip"
      \/ pcDet = "emergencia_ready" /\ pcDet' = "mirar_ready"
  BY DEF DetPasarAEmergencia
<1>5. EnManos(h) /\ ~EnEmergencia(h) /\ Retenido(h) /\ Ausente(h) /\ ~Viaja(h)
  BY <1>1, <1>2, <1>4 DEF EnManos, Retenido, Colocado, Sitio, Ausencia
<1>6. /\ ToSet(cola_emergencia') = ToSet(cola_emergencia) \union {h}
      /\ IsInjective(cola_emergencia')
  BY <1>1, <1>2, <1>5, AlFinal DEF DetPasarAEmergencia, TypeOKSabotaje, Colocados, EnEmergencia
<1>7. ASSUME NEW u \in Tripulantes
      PROVE  /\ \A l \in Listas : EstaEn(u, l)' <=> EstaEn(u, l)
             /\ LeToca(u)' <=> LeToca(u)
             /\ Ausente(u)' <=> Ausente(u)
             /\ EnEspera(u)' <=> EnEspera(u)
             /\ ConCupo(u)' <=> ConCupo(u)
             /\ u # h => (EnEmergencia(u)' <=> EnEmergencia(u))
  BY <1>3, <1>6
     DEF EstaEn, LeToca, Ausente, EnEspera, ConCupo, Despachado, EnEmergencia
<1>8. ASSUME NEW u \in Tripulantes, u # h PROVE Colocado(u)'
  <2>1. ~Asido(u) /\ ~Asido(u)' /\ pcDet' \notin Reposo
    BY <1>2, <1>3, <1>4, <1>8 DEF Asido, Reposo
  <2> QED BY <1>1, <1>3, <1>7, <1>8, <2>1, Quieto
<1>9. Colocado(h)'
  <2>1. Turno(h) /\ Bloqueo(h)
    BY <1>1 DEF Colocado
  <2>2. EnEmergencia(h)' /\ ~EnManos(h)' /\ Retenido(h)' /\ Ausente(h)'
    BY <1>4, <1>5, <1>6, <1>7 DEF EnEmergencia, EnManos, Retenido
  <2>3. Sitio(h)'
    BY <1>4, <2>2 DEF Sitio, Ausente, Reposo
  <2>4. Nombre(h)'
    BY <1>3, <1>4, <1>5, <2>2
       DEF Nombre, Nombrado, Ausente, Viaja, EnTransito, Listas
  <2>5. Arrancado(h)' <=> Arrancado(h)
    BY <1>2, <1>3, <1>4 DEF Arrancado
  <2>6. sem_blocked[h] = 0 /\ (ConCupo(h) \/ EnEspera(h))
    BY <1>4, <1>5, <2>1 DEF Turno, Contesto
  <2>7. pc[h] # "espera_blocked"
    BY <2>6 DEF ConCupo, EnEspera, EsperaCupo, Despachado
  <2>8. Turno(h)'
    BY <1>3, <1>4, <1>5, <1>7, <2>1, <2>2, <2>5 DEF Turno, Ausente, Contesto, Listas
  <2>9. Bloqueo(h)' /\ Ausencia(h)'
    BY <1>3, <1>5, <1>7, <2>1, <2>2, <2>6, <2>7 DEF Bloqueo, Ausente, Ausencia, Viaja, Listas
  <2> QED BY <1>1, <1>3, <2>3, <2>4, <2>8, <2>9 DEF Colocado
<1> QED BY <1>1, <1>3, <1>6, <1>8, <1>9 DEF Colocados

\* The detector reads the answer of the trip, which by then has no slot.
LEMMA DetectorEspera ==
  ASSUME Colocados, ~caido, detector_sabotaje, DetEsperarTrip
  PROVE  /\ \A u \in Tripulantes : Colocado(u)'
         /\ \A l \in Listas : IsInjective(lista'[l])
         /\ IsInjective(cola_emergencia')
         /\ preso \in Tripulantes /\ ~ConCupo(preso)
<1>1. TypeOK /\ PresoValido /\ \A u \in Tripulantes : Colocado(u)
  BY ListasSinRepetidos DEF Colocados
<1>2. PICK h \in Tripulantes : h = preso
  BY <1>1 DEF PresoValido, DetEsperarTrip
<1>3. /\ pc' = pc /\ tarea' = tarea /\ sem_running' = sem_running /\ elegido' = elegido
      /\ pcPlan' = pcPlan /\ trip_block' = trip_block /\ pcIO' = pcIO /\ lista' = lista
      /\ estado' = estado /\ preso' = preso /\ cola_emergencia' = cola_emergencia
      /\ sem_blocked[h] > 0 /\ sem_blocked'[h] = sem_blocked[h] - 1
      /\ \A u \in Tripulantes \ {h} : sem_blocked'[u] = sem_blocked[u]
      /\ pcDet = "esperar_trip" /\ pcDet' = "mirar_running"
  BY <1>1, <1>2 DEF detector_sabotaje, vTrip, vPlan, DetEsperarTrip, TypeOK, TipoSemaforos
<1>4. ASSUME NEW u \in Tripulantes
      PROVE  /\ \A l \in Listas : EstaEn(u, l)' <=> EstaEn(u, l)
             /\ LeToca(u)' <=> LeToca(u)
             /\ Ausente(u)' <=> Ausente(u)
             /\ EnEspera(u)' <=> EnEspera(u)
             /\ ConCupo(u)' <=> ConCupo(u)
             /\ EnEmergencia(u)' <=> EnEmergencia(u)
  BY <1>3 DEF EstaEn, LeToca, Ausente, EnEspera, ConCupo, Despachado, EnEmergencia
<1>5. ASSUME NEW u \in Tripulantes, u # h PROVE Colocado(u)'
  <2>1. ~Asido(u) /\ ~Asido(u)' /\ pcDet' \notin Reposo
    BY <1>2, <1>3, <1>5 DEF Asido, Reposo
  <2> QED BY <1>1, <1>3, <1>4, <1>5, <2>1, Quieto
<1>6. Turno(h) /\ Bloqueo(h)
  BY <1>1 DEF Colocado
<1>7. EnEmergencia(h) /\ Arrancado(h) /\ Ausente(h) /\ ~Viaja(h) /\ Retenido(h)
  BY <1>1, <1>2, <1>3 DEF Colocado, Sitio, Arrancado, Retenido, Ausencia
<1>8. Contesto(h)
  BY <1>3, <1>6, <1>7 DEF Turno
<1>9. ~ConCupo(h)
  BY <1>8 DEF Contesto, ConCupo, Despachado
<1>10. Colocado(h)'
  <2>1. /\ sem_blocked'[h] = 0 /\ sem_running'[h] = 0 /\ EnEspera(h)
        /\ pc[h] # "espera_blocked"
    BY <1>3, <1>8 DEF Contesto, EnEspera
  <2>2. ~EnManos(h)' /\ ~Arrancado(h)' /\ Retenido(h)' /\ Ausente(h)'
    BY <1>3, <1>4, <1>7 DEF EnManos, Arrancado, Retenido
  <2>3. Sitio(h)'
    BY <1>3, <2>2 DEF Sitio, Ausente, Reposo
  <2>4. Nombre(h)'
    BY <1>1, <1>3, <1>4 DEF Colocado, Nombre, Nombrado, Listas
  <2>5. Turno(h)'
    BY <1>4, <1>9, <2>1, <2>2 DEF Turno, Ausente, Listas
  <2>6. Bloqueo(h)' /\ Ausencia(h)'
    BY <1>3, <1>4, <1>6, <1>7, <2>1, <2>2 DEF Bloqueo, Ausente, Ausencia, Viaja, Listas
  <2> QED BY <1>1, <1>3, <2>3, <2>4, <2>5, <2>6 DEF Colocado
<1> QED BY <1>2, <1>3, <1>5, <1>9, <1>10 DEF Colocados

\* agregar_ready of the first trip of cola_emergencia, first half.
LEMMA DetectorPasaAReady ==
  ASSUME Colocados, ~caido, detector_sabotaje, DetPasarAReady
  PROVE  /\ \A u \in Tripulantes : Colocado(u)'
         /\ \A l \in Listas : IsInjective(lista'[l])
         /\ IsInjective(cola_emergencia')
<1>1. TypeOK /\ TypeOKSabotaje /\ \A u \in Tripulantes : Colocado(u)
  BY ListasSinRepetidos DEF Colocados
<1>2. PICK h : h = Head(cola_emergencia)
  OBVIOUS
<1>3. /\ ToSet(cola_emergencia') = ToSet(cola_emergencia) \ {h}
      /\ IsInjective(cola_emergencia') /\ h \in ToSet(cola_emergencia)
  BY <1>1, <1>2, SinCabeza DEF DetPasarAReady, TypeOKSabotaje, Colocados
<1>4. h \in Tripulantes
  BY <1>1, <1>2 DEF DetPasarAReady, TypeOKSabotaje
<1>5. /\ pc' = pc /\ tarea' = tarea /\ sem_running' = sem_running /\ elegido' = elegido
      /\ pcPlan' = pcPlan /\ trip_block' = trip_block /\ pcIO' = pcIO /\ lista' = lista
      /\ sem_blocked' = sem_blocked /\ preso' = h
      /\ pcDet = "devolver" /\ pcDet' = "encolar_ready"
      /\ estado'[h] = "READY" /\ \A u \in Tripulantes \ {h} : estado'[u] = estado[u]
  BY <1>1, <1>2, <1>4 DEF detector_sabotaje, vTrip, vPlan, DetPasarAReady, TypeOK,
     TipoTripulantes
<1>6. ASSUME NEW u \in Tripulantes
      PROVE  /\ \A l \in Listas : EstaEn(u, l)' <=> EstaEn(u, l)
             /\ LeToca(u)' <=> LeToca(u)
             /\ Ausente(u)' <=> Ausente(u)
             /\ EnEspera(u)' <=> EnEspera(u)
             /\ ConCupo(u)' <=> ConCupo(u)
             /\ u # h => (EnEmergencia(u)' <=> EnEmergencia(u))
  BY <1>3, <1>5 DEF EstaEn, LeToca, Ausente, EnEspera, ConCupo, Despachado, EnEmergencia
<1>7. ASSUME NEW u \in Tripulantes, u # h PROVE Colocado(u)'
  <2>1. ~Asido(u) /\ ~Asido(u)' /\ pcDet' \notin Reposo
    BY <1>5, <1>7 DEF Asido, Reposo
  <2> QED BY <1>1, <1>5, <1>6, <1>7, <2>1, Quieto
<1>8. Colocado(h)'
  <2>1. Turno(h) /\ Bloqueo(h)
    BY <1>1, <1>4 DEF Colocado
  <2>2. EnEmergencia(h) /\ Retenido(h) /\ Ausente(h) /\ ~Viaja(h) /\ ~Arrancado(h)
    BY <1>1, <1>3, <1>4, <1>5 DEF EnEmergencia, Retenido, Colocado, Sitio, Ausencia, Arrancado
  <2>3. /\ EnEspera(h) /\ sem_running[h] = 0 /\ sem_blocked[h] = 0
        /\ pc[h] # "espera_blocked" /\ ~ConCupo(h)
    BY <2>1, <2>2 DEF Turno, EnEspera, EsperaCupo, ConCupo, Despachado
  <2>4. ~EnEmergencia(h)' /\ EnManos(h)' /\ Retenido(h)' /\ Ausente(h)' /\ ~Arrancado(h)'
    BY <1>3, <1>4, <1>5, <1>6, <2>2 DEF EnEmergencia, EnManos, Retenido, Arrancado
  <2>5. Sitio(h)'
    BY <1>5, <2>4 DEF Sitio, Ausente
  <2>6. Nombre(h)'
    BY <1>5, <2>2, <2>4 DEF Nombre, Nombrado, Ausente, Viaja, EnTransito, Listas
  <2>7. Turno(h)'
    BY <1>4, <1>5, <1>6, <2>3, <2>4 DEF Turno, Ausente, Listas
  <2>8. Bloqueo(h)' /\ Ausencia(h)'
    BY <1>4, <1>5, <1>6, <2>1, <2>2, <2>3, <2>4 DEF Bloqueo, Ausente, Ausencia, Viaja, Listas
  <2> QED BY <1>1, <1>4, <1>5, <2>5, <2>6, <2>7, <2>8 DEF Colocado
<1> QED BY <1>3, <1>5, <1>7, <1>8 DEF Colocados

\* agregar_ready, second half: the trip leaves the detector's hands for cola_ready.
LEMMA DetectorDevuelve ==
  ASSUME Colocados, ~caido, detector_sabotaje, DetEncolarReady
  PROVE  /\ \A u \in Tripulantes : Colocado(u)'
         /\ \A l \in Listas : IsInjective(lista'[l])
         /\ IsInjective(cola_emergencia')
<1>1. TypeOK /\ UnLugar /\ PresoValido /\ \A u \in Tripulantes : Colocado(u)
  BY ListasSinRepetidos DEF Colocados
<1>2. PICK h \in Tripulantes : h = preso
  BY <1>1 DEF PresoValido, DetEncolarReady
<1>3. /\ pc' = pc /\ tarea' = tarea /\ sem_running' = sem_running /\ elegido' = elegido
      /\ pcPlan' = pcPlan /\ trip_block' = trip_block /\ pcIO' = pcIO
      /\ sem_blocked' = sem_blocked /\ estado' = estado /\ preso' = Nadie
      /\ pcDet = "encolar_ready" /\ pcDet' = "devolver"
      /\ Encolar(h, "cola_ready") /\ cola_emergencia' = cola_emergencia
  BY <1>1, <1>2 DEF detector_sabotaje, vTrip, vPlan, DetEncolarReady
<1>4. Turno(h) /\ Bloqueo(h)
  BY <1>1 DEF Colocado
<1>5. /\ EnManos(h) /\ ~EnEmergencia(h) /\ Retenido(h) /\ Ausente(h) /\ ~Viaja(h)
      /\ ~Arrancado(h) /\ estado[h] = "READY"
  BY <1>1, <1>2, <1>3
     DEF EnManos, Retenido, Colocado, Sitio, Ausencia, Arrancado, Nombre
<1>6. /\ EnEspera(h) /\ sem_running[h] = 0 /\ sem_blocked[h] = 0
      /\ pc[h] # "espera_blocked" /\ ~ConCupo(h) /\ ~LeToca(h)
  BY <1>4, <1>5 DEF Turno, Bloqueo, EnEspera, EsperaCupo, ConCupo, Despachado
<1>7. /\ \A m \in Listas : IsInjective(lista'[m])
      /\ \A u, m : m \in Listas =>
           (EstaEn(u, m)' <=> EstaEn(u, m) \/ (u = h /\ m = "cola_ready"))
  BY <1>1, <1>3, <1>5, Entra DEF Ausente, Listas
<1>8. ASSUME NEW u \in Tripulantes
      PROVE  /\ LeToca(u)' <=> LeToca(u)
             /\ EnEspera(u)' <=> EnEspera(u)
             /\ ConCupo(u)' <=> ConCupo(u)
             /\ EnEmergencia(u)' <=> EnEmergencia(u)
             /\ preso' # u
  BY <1>3, ConstantesValidas DEF LeToca, EnEspera, ConCupo, Despachado, EnEmergencia
<1>9. ASSUME NEW u \in Tripulantes, u # h PROVE Colocado(u)'
  <2>1. ~Asido(u) /\ ~Asido(u)' /\ pcDet' \notin Reposo
    BY <1>2, <1>3, <1>8, <1>9 DEF Asido, Reposo
  <2> QED BY <1>1, <1>3, <1>7, <1>8, <1>9, <2>1, Quieto
<1>10. Colocado(h)'
  <2>1. /\ ~EnEmergencia(h)' /\ ~EnManos(h)' /\ ~Retenido(h)' /\ ~Arrancado(h)'
        /\ elegido' # h /\ preso' # h
        /\ \A m \in Listas : EstaEn(h, m)' <=> m = "cola_ready"
    BY <1>3, <1>5, <1>7, <1>8 DEF EnManos, Retenido, Arrancado, Ausente
  <2>2. Sitio(h)'
    BY <2>1 DEF Sitio
  <2>3. Nombre(h)'
    BY <1>3, <1>5, <2>1 DEF Nombre, Nombrado, Viaja, EnTransito, Listas
  <2>4. Turno(h)'
    BY <1>3, <1>6, <1>8, <2>1 DEF Turno, Listas
  <2>5. Bloqueo(h)' /\ Ausencia(h)'
    BY <1>3, <1>4, <1>5, <1>6, <1>8, <2>1 DEF Bloqueo, Ausencia, Viaja, Listas
  <2> QED BY <1>1, <1>3, <2>2, <2>3, <2>4, <2>5 DEF Colocado
<1> QED BY <1>3, <1>7, <1>9, <1>10 DEF Colocados

\* Every step of the detector keeps everyone's place.
LEMMA ColocadosDetector ==
  ASSUME Colocados, ~caido, detector_sabotaje
  PROVE  /\ \A u \in Tripulantes : Colocado(u)'
         /\ \A l \in Listas : IsInjective(lista'[l])
         /\ IsInjective(cola_emergencia')
<1>1. cola_emergencia \in Seq(Tripulantes) /\ IsInjective(cola_emergencia)
  BY DEF Colocados, IInvSabotaje, TypeOKSabotaje
<1>2. CASE DetRecibir \/ DetMirarPausa \/ DetEsperarReanudacion \/ DetAvisarPlanificador
         \/ DetAvisarIO
  BY <1>1, <1>2, DetectorQuieto
     DEF DetRecibir, DetMirarPausa, DetEsperarReanudacion, DetAvisarPlanificador, DetAvisarIO,
         Reposo
<1>3. CASE DetMirarLista \/ DetSinTripulantes \/ DetTerminar
  BY <1>1, <1>3, DetectorQuieto DEF DetMirarLista, DetSinTripulantes, DetTerminar, Reposo
<1>4. CASE DetResolver
  <2>1. PICK i \in 1 .. Len(cola_emergencia) :
          cola_emergencia' = Append(RemoveAt(cola_emergencia, i), cola_emergencia[i])
    BY <1>1, <1>4 DEF DetResolver
  <2>2. ToSet(cola_emergencia') = ToSet(cola_emergencia) /\ IsInjective(cola_emergencia')
    BY <1>1, <2>1, AlFinalElegido
  <2> QED BY <1>4, <2>2, DetectorQuieto DEF DetResolver, Reposo
<1> QED BY <1>2, <1>3, <1>4, DetectorQuita, DetectorPasaAEmergencia, DetectorEspera,
        DetectorPasaAReady, DetectorDevuelve DEF detector_sabotaje

-----------------------------------------------------------------------------
(* Until the user resumes: the theorems *)

\* Every step but a resumption keeps the trips in their places.
LEMMA ColocadosInductivo ==
  ASSUME Colocados, [NextSabotaje]_varsSabotaje, [~Reiniciar]_varsSabotaje
  PROVE  Colocados'
<1> DEFINE Lugar == /\ \A u \in Tripulantes : Colocado(u)'
                    /\ \A l \in Listas : IsInjective(lista'[l])
                    /\ IsInjective(cola_emergencia')
                    /\ pcCons' = "leer"
                    /\ continuar' = continuar
<1>1. IInvSabotaje'
  BY InductivoSabotaje DEF Colocados
<1>2. ASSUME Next, vDet' = vDet, ~Reiniciar
      PROVE  Lugar
  <2>1. ~caido /\ pcCons = "leer" /\ IsInjective(cola_emergencia')
    BY <1>2 DEF Next, Colocados, vDet
  <2>2. ASSUME NEW t \in Tripulantes, Tripulante(t)
        PROVE  Lugar
    BY <1>2, <2>1, <2>2, ColocadosTripulante DEF Tripulante, vCons
  <2>3. CASE planificador
    BY <1>2, <2>1, <2>3, ColocadosPlanificador DEF planificador, vCons
  <2>4. CASE planificador_io
    BY <1>2, <2>1, <2>4, ColocadosPlanificadorIO DEF planificador_io, vCons
  <2>5. CASE consola
    BY <1>2, <2>1, <2>5, ColocadosConsola DEF consola
  <2> QED BY <1>2, <2>2, <2>3, <2>4, <2>5 DEF Next
<1>3. ASSUME ~caido, detector_sabotaje
      PROVE  Lugar
  BY <1>3, ColocadosDetector DEF detector_sabotaje, vCons, Colocados
<1>4. ASSUME UNCHANGED varsSabotaje
      PROVE  Lugar
  <2>1. /\ pc' = pc /\ tarea' = tarea /\ estado' = estado /\ sem_running' = sem_running
        /\ sem_blocked' = sem_blocked /\ lista' = lista /\ elegido' = elegido
        /\ pcPlan' = pcPlan /\ pcIO' = pcIO /\ trip_block' = trip_block
        /\ pcCons' = pcCons /\ continuar' = continuar /\ caido' = caido
        /\ cola_emergencia' = cola_emergencia /\ preso' = preso /\ pcDet' = pcDet
    BY <1>4 DEF varsSabotaje, vars, vDet, vSem, vTrip, vPlan, vCons
  <2>2. ASSUME NEW u \in Tripulantes PROVE Colocado(u)'
    <3>1. /\ \A l \in Listas : EstaEn(u, l)' <=> EstaEn(u, l)
          /\ EnEmergencia(u)' <=> EnEmergencia(u)
          /\ EnManos(u)' <=> EnManos(u)
          /\ Arrancado(u)' <=> Arrancado(u)
          /\ EnEspera(u)' <=> EnEspera(u)
          /\ LeToca(u)' <=> LeToca(u)
          /\ Contesto(u)' <=> Contesto(u)
          /\ Despachado(u)' <=> Despachado(u)
          /\ Viaja(u)' <=> Viaja(u)
      BY <2>1 DEF EstaEn, EnEmergencia, EnManos, Arrancado, EnEspera, LeToca, Contesto,
         Despachado, Viaja
    <3>2. /\ Retenido(u)' <=> Retenido(u)
          /\ Ausente(u)' <=> Ausente(u)
          /\ ConCupo(u)' <=> ConCupo(u)
      BY <2>1, <3>1 DEF Retenido, Ausente, ConCupo
    <3>3. Colocado(u)
      BY DEF Colocados
    <3>4. Sitio(u)' /\ Nombre(u)'
      BY <2>1, <3>1, <3>2, <3>3 DEF Colocado, Sitio, Nombre, Nombrado, Listas
    <3>5. ~caido => Turno(u)' /\ Bloqueo(u)' /\ Ausencia(u)'
      BY <2>1, <3>1, <3>2, <3>3 DEF Colocado, Turno, Bloqueo, Ausencia, Listas
    <3> QED BY <2>1, <3>3, <3>4, <3>5 DEF Colocado
  <2> QED BY <2>1, <2>2 DEF Colocados
<1>5. \/ Next /\ vDet' = vDet /\ ~Reiniciar
      \/ ~caido /\ detector_sabotaje
      \/ UNCHANGED varsSabotaje
  BY DEF NextSabotaje
<1>6. Lugar
  BY <1>2, <1>3, <1>4, <1>5
<1>7. \A u \in Tripulantes : continuar'[u] = TRUE
  BY <1>6 DEF Colocados
<1> QED BY <1>1, <1>6, <1>7 DEF Colocados

\* Nobody is anywhere before the first step.
LEMMA ColocadosInicial ==
  ASSUME InitSabotaje
  PROVE  Colocados
<1>1. IInvSabotaje
  BY InicialSabotaje
<1>2. /\ \A l \in Listas : lista[l] = <<>>
      /\ cola_emergencia = <<>> /\ preso = Nadie /\ pcDet = "recibir"
      /\ elegido = Nadie /\ trip_block = Nadie /\ pcPlan = "activar"
      /\ pcIO = "esperar_trip" /\ pcCons = "leer" /\ ~caido
      /\ \A t \in Tripulantes : /\ pc[t] = "solicitar" /\ tarea[t] = 0 /\ estado[t] = "NEW"
                                /\ sem_running[t] = 0 /\ sem_blocked[t] = 0
                                /\ continuar[t] = TRUE
  BY DEF InitSabotaje, Init, InitTripulantes, InitPlanificador, InitConsola
<1>3. ASSUME NEW t \in Tripulantes
      PROVE  Colocado(t)
  <2>1. /\ \A l \in Listas : ~EstaEn(t, l)
        /\ Ausente(t) /\ ~EnEmergencia(t) /\ ~Retenido(t) /\ ~Arrancado(t) /\ ~LeToca(t)
    BY <1>2, ConstantesValidas
       DEF EstaEn, ToSet, Ausente, EnEmergencia, EnManos, Retenido, Arrancado, LeToca
  <2>2. ~ConCupo(t)
    BY <1>2 DEF ConCupo, Despachado, EnEspera, EsperaCupo
  <2> QED BY <1>2, <2>1, <2>2, ConstantesValidas
          DEF Colocado, Sitio, Nombre, Nombrado, Turno, Bloqueo, Ausencia, Listas
<1>4. (\A l \in Listas : IsInjective(lista[l])) /\ IsInjective(cola_emergencia)
  BY <1>2 DEF IsInjective
<1> QED BY <1>1, <1>2, <1>3, <1>4 DEF Colocados

\* As long as the user does not resume planning, sabotages leave each trip in its place.
THEOREM CadaUnoEnSuSitio ==
  SpecSabotaje /\ [][~Reiniciar]_varsSabotaje => []Colocados
<1>1. InitSabotaje => Colocados
  BY ColocadosInicial
<1>2. Colocados /\ [NextSabotaje]_varsSabotaje /\ [~Reiniciar]_varsSabotaje => Colocados'
  BY ColocadosInductivo
<1> QED BY <1>1, <1>2, PTL DEF SpecSabotaje

\* A sabotage puts no trip in two lists and dispatches none twice, whatever the
\* detector took from under the planner and the trips.
THEOREM NadieEnDosListasConSabotaje ==
  SpecSabotaje /\ [][~Reiniciar]_varsSabotaje => []EnUnaLista
<1>1. ASSUME Colocados
      PROVE  EnUnaLista
  <2> SUFFICES ASSUME NEW t \in Tripulantes
               PROVE  Veces(t, "cola_ready") + Veces(t, "cola_blocked")
                        + Veces(t, "tripulantes_running") + Uno(elegido = t) <= 1
    BY DEF EnUnaLista
  <2>1. \A l \in Listas : Veces(t, l) = Uno(EstaEn(t, l))
    BY <1>1, VecesDeUno DEF Colocados
  <2>2. /\ ~(EstaEn(t, "cola_ready") /\ EstaEn(t, "cola_blocked"))
        /\ ~(EstaEn(t, "cola_ready") /\ EstaEn(t, "tripulantes_running"))
        /\ ~(EstaEn(t, "cola_blocked") /\ EstaEn(t, "tripulantes_running"))
        /\ elegido = t => \A l \in Listas : ~EstaEn(t, l)
    BY <1>1 DEF Colocados, Colocado, Sitio, Listas
  <2> QED BY <2>1, <2>2 DEF Uno, Listas
<1> QED BY <1>1, CadaUnoEnSuSitio, PTL

\* estado, which the console lists and the RAM process stores, stays true while the
\* detector moves the trips behind the threads that name them.
THEOREM EstadosVeracesConSabotaje ==
  SpecSabotaje /\ [][~Reiniciar]_varsSabotaje => []EstadoVeraz
<1>1. ASSUME Colocados
      PROVE  EstadoVeraz
  <2>1. \A t \in Tripulantes : Nombre(t)
    BY <1>1 DEF Colocados, Colocado
  <2> QED BY <2>1 DEF Nombre, Nombrado, EstadoVeraz, Listas
<1> QED BY <1>1, CadaUnoEnSuSitio, PTL

\* The semaphore sem_blocked of a trip carries two messages, the device is yours
\* (planificador_io) and I have left (puede_continuar).  Until the user resumes,
\* nobody takes one for the other, and at most one is on its way.
AvisosDistintos ==
  ~caido => \A t \in Tripulantes :
    sem_blocked[t] > 0 =>
      /\ sem_blocked[t] = 1
      /\ \/ /\ pc[t] = "espera_blocked" /\ ~EstaEn(t, "cola_blocked")
            /\ ~(preso = t /\ pcDet = "esperar_trip")
         \/ pc[t] \in {"ceder", "espera_emergencia"} /\ preso = t /\ pcDet = "esperar_trip"

\* No trip takes the device for the answer it gave the detector, nor the other way.
THEOREM AvisosSinCruce ==
  SpecSabotaje /\ [][~Reiniciar]_varsSabotaje => []AvisosDistintos
<1>1. ASSUME Colocados, ~caido, NEW t \in Tripulantes, sem_blocked[t] > 0
      PROVE  /\ sem_blocked[t] = 1
             /\ \/ /\ pc[t] = "espera_blocked" /\ ~EstaEn(t, "cola_blocked")
                   /\ ~(preso = t /\ pcDet = "esperar_trip")
                \/ /\ pc[t] \in {"ceder", "espera_emergencia"}
                   /\ preso = t /\ pcDet = "esperar_trip"
  <2>1. Sitio(t) /\ Bloqueo(t)
    BY <1>1 DEF Colocados, Colocado
  <2>2. CASE pc[t] = "espera_blocked"
    <3>1. Ausente(t) /\ ~Retenido(t) /\ sem_blocked[t] = 1
      BY <1>1, <2>1, <2>2 DEF Bloqueo
    <3> QED BY <2>1, <2>2, <3>1 DEF Sitio, Retenido, Ausente, Listas
  <2>3. CASE Arrancado(t) /\ Contesto(t)
    BY <1>1, <2>1, <2>3 DEF Bloqueo, Arrancado, Contesto
  <2> QED BY <1>1, <2>1, <2>2, <2>3 DEF Bloqueo
<1>2. Colocados => AvisosDistintos
  BY <1>1 DEF AvisosDistintos
<1> QED BY <1>2, CadaUnoEnSuSitio, PTL

-----------------------------------------------------------------------------
(* Until the user resumes: the slots *)

\* A trip with a slot outside running is the one the detector waits for.
LEMMA UnSoloSuelto ==
  ASSUME HayTareas, Colocados, ~caido
  PROVE  Cardinality({t \in Tripulantes : SinCupo(t)}) = Uno(Suelto)
<1>1. ASSUME NEW t \in Tripulantes
      PROVE  SinCupo(t) <=> Arrancado(t) /\ ConCupo(t)
  <2>1. Turno(t) /\ Sitio(t) /\ Tareas[t] # <<>>
    BY DEF Colocados, Colocado, HayTareas
  <2>2. sem_running[t] > 0 => sem_running[t] = 1
    BY <2>1 DEF Turno
  <2>3. SinCupo(t) <=> ~EstaEn(t, "tripulantes_running") /\ ConCupo(t)
    BY <2>2 DEF SinCupo, ConCupo, Despachado, EnEspera, EsperaCupo
  <2>4. Arrancado(t) => ~EstaEn(t, "tripulantes_running")
    BY <2>1 DEF Arrancado, Sitio, Retenido, EnManos, Ausente, Listas
  <2> QED BY <2>1, <2>3, <2>4 DEF Turno
<1>2. CASE Suelto
  <2>1. {t \in Tripulantes : SinCupo(t)} = {preso}
    BY <1>1, <1>2 DEF Suelto, Arrancado
  <2> QED BY <1>2, <2>1, FS_Singleton DEF Uno
<1>3. CASE ~Suelto
  <2>1. {t \in Tripulantes : SinCupo(t)} = {}
    BY <1>1, <1>3 DEF Suelto, Arrancado
  <2> QED BY <1>3, <2>1, FS_EmptySet DEF Uno
<1> QED BY <1>2, <1>3

\* The terms of the count are numbers.
LEMMA MedidasSabotaje ==
  ASSUME CuposSabotaje
  PROVE  /\ sem["multiprocesamiento"] \in Nat /\ Len(lista["tripulantes_running"]) \in Nat
         /\ Cardinality(Cediendo) \in Nat
<1>1. TypeOK
  BY ListasSinRepetidos DEF CuposSabotaje
<1>2. lista["tripulantes_running"] \in Seq(Tripulantes)
  BY <1>1 DEF TypeOK, TipoListas, Listas
<1> QED BY <1>1, <1>2, FS_CardinalityType DEF CuposSabotaje, TypeOK, TipoSemaforos, Semaforos

\* A trip moves its own slot and no other.
LEMMA OtrosCupos ==
  ASSUME TypeOK, NEW t \in Tripulantes, Tripulante(t), NEW u \in Tripulantes, u # t
  PROVE  (ConCupo(u)' <=> ConCupo(u)) /\ pc'[u] = pc[u]
<1>1. pc'[u] = pc[u] /\ tarea'[u] = tarea[u] /\ sem_running'[u] = sem_running[u]
  BY DEF Tripulante, SolicitarTarea, PasarAReady, EncolarReady, EsperarRunning,
     MirarPausa, EjecutarCiclo, DejarPorQuantum, MirarEmergencia, Ceder, DejarCiclo,
     DejarPorIO, PasarABlocked, EncolarBlocked, EsperarBlocked, ContinuarIO, BuscarBlocked, SacarBlocked, MirarSabotaje,
     EsperarFinSabotaje, CicloIO, SoltarIO, MirarContinuar, Finalizar, PasarAExit,
     FinalizarExpulsado, Seguir, Ir, vSem, TypeOK, TipoTripulantes, TipoSemaforos
<1> QED BY <1>1 DEF ConCupo, Despachado, EnEspera

\* A trip that the detector took out of running keeps its slot until it answers.
LEMMA SuCupo ==
  ASSUME Colocados, ~caido, NEW t \in Tripulantes, Tripulante(t), Arrancado(t),
         ~(MirarEmergencia(t) /\ estado[t] = "EMERGENCY"),
         ~(DejarPorQuantum(t) \/ DejarPorIO(t) \/ Finalizar(t))
  PROVE  ConCupo(t)' <=> ConCupo(t)
<1>1. TypeOK /\ Colocado(t) /\ Turno(t) /\ continuar[t] = TRUE
  BY ListasSinRepetidos DEF Colocados, Colocado
<1>2. pc[t] # "solicitar" => tarea[t] > 0
  BY <1>1 DEF Colocado
<1>3. /\ Despachado(t) \/ EnEspera(t)
      /\ sem_running[t] > 0 => EnEspera(t) /\ sem_running[t] = 1
  BY <1>1 DEF Turno, ConCupo, Contesto, EnEspera
<1>4. sem_running[t] \in Nat /\ tarea[t] \in Nat
  BY <1>1 DEF TypeOK, TipoSemaforos, TipoTripulantes
<1>5. CASE EsperarRunning(t)
  <2>1. sem_running[t] = 1 /\ EnEspera(t) /\ sem_running'[t] = 0
    BY <1>1, <1>3, <1>4, <1>5 DEF EsperarRunning, TypeOK, TipoSemaforos
  <2>2. pc'[t] \in {"pausa_inicio", "pausa_puede", "tarea_hecha", "ciclo"}
    BY <1>1, <1>5, <2>1 DEF EsperarRunning, Seguir, Sigue, Ir, EnEspera, EsperaCupo, TypeOK,
       TipoTripulantes
  <2> QED BY <2>1, <2>2 DEF ConCupo, Despachado
<1>6. CASE Ceder(t)
  BY <1>1, <1>6 DEF Ceder, Ir, ConCupo, Despachado, EnEspera, TypeOK, TipoTripulantes
<1>7. ASSUME sem_running' = sem_running, ~EnEspera(t), pc'[t] \in
               {"pausa_inicio", "pausado_inicio", "ciclo", "quitar_quantum", "pausa_puede",
                "pausado_puede", "emergencia", "tarea_hecha", "fin"}
               \/ (pc'[t] = "solicitar" /\ tarea'[t] > 0)
      PROVE  ConCupo(t)' <=> ConCupo(t)
  BY <1>3, <1>7 DEF ConCupo, Despachado
<1>8. CASE SolicitarTarea(t)
  BY <1>1, <1>3, <1>4, <1>7, <1>8 DEF SolicitarTarea, Ir, vSem, Despachado, EnEspera,
     EsperaCupo, TypeOK, TipoTripulantes
<1>9. CASE MirarPausa(t)
  BY <1>1, <1>3, <1>7, <1>9 DEF MirarPausa, Seguir, Sigue, Ir, vSem, Despachado, EnEspera,
     EsperaCupo, TypeOK, TipoTripulantes
<1>10. CASE EjecutarCiclo(t)
  BY <1>1, <1>7, <1>10 DEF EjecutarCiclo, Ir, vSem, EnEspera, EsperaCupo, TypeOK,
     TipoTripulantes
<1>11. CASE MirarEmergencia(t)
  BY <1>1, <1>7, <1>11 DEF MirarEmergencia, Seguir, Sigue, Ir, EnEspera, EsperaCupo, TypeOK,
     TipoTripulantes
<1>12. CASE DejarCiclo(t)
  BY <1>1, <1>2, <1>7, <1>12 DEF DejarCiclo, Ir, vSem, EnEspera, EsperaCupo, TypeOK,
     TipoTripulantes
<1>13. CASE MirarContinuar(t)
  BY <1>1, <1>2, <1>3, <1>7, <1>13 DEF MirarContinuar, Seguir, Sigue, Ir, vSem, Despachado,
     EnEspera, EsperaCupo, TypeOK, TipoTripulantes
<1>14. ~(PasarAReady(t) \/ EncolarReady(t) \/ PasarABlocked(t) \/ EncolarBlocked(t)
         \/ EsperarBlocked(t) \/ ContinuarIO(t) \/ BuscarBlocked(t)
         \/ SacarBlocked(t) \/ MirarSabotaje(t) \/ EsperarFinSabotaje(t)
         \/ CicloIO(t) \/ SoltarIO(t) \/ PasarAExit(t) \/ FinalizarExpulsado(t))
  BY <1>1, <1>3 DEF PasarAReady, EncolarReady, PasarABlocked, EncolarBlocked, EsperarBlocked,
     ContinuarIO, BuscarBlocked, SacarBlocked, MirarSabotaje, EsperarFinSabotaje, CicloIO, SoltarIO, PasarAExit,
     FinalizarExpulsado, Despachado, EnEspera, EsperaCupo
<1> QED BY <1>5, <1>6, <1>8, <1>9, <1>10, <1>11, <1>12, <1>13, <1>14 DEF Tripulante

\* A step in which the terms of the count that change make up for each other.
LEMMA CuentaIgual ==
  ASSUME CuposSabotaje, ~caido, IsFiniteSet(Cediendo'),
         sem'["multiprocesamiento"] + Len(lista'["tripulantes_running"]) + Uno(Suelto')
           + Cardinality(Cediendo') + Uno(CupoTomado')
         = sem["multiprocesamiento"] + Len(lista["tripulantes_running"]) + Uno(Suelto)
           + Cardinality(Cediendo) + Uno(CupoTomado),
         Colocados'
  PROVE  CuposSabotaje'
BY DEF CuposSabotaje

\* A trip gives its slot back when it leaves running or, after it answered the
\* detector, when it goes on to wait.
LEMMA CuposSabotajeTripulante ==
  ASSUME CuposSabotaje, ~caido, ~caido', Colocados', NEW t \in Tripulantes, Tripulante(t),
         UNCHANGED vDet
  PROVE  CuposSabotaje'
<1> DEFINE mp == sem["multiprocesamiento"]
           r  == Len(lista["tripulantes_running"])
           c  == Cardinality(Cediendo)
<1>1. TypeOK /\ Colocados /\ UnLugar /\ Colocado(t)
  BY ListasSinRepetidos DEF CuposSabotaje, Colocados
<1>2. mp \in Nat /\ r \in Nat /\ c \in Nat /\ IsFiniteSet(Cediendo)
  BY MedidasSabotaje DEF CuposSabotaje
<1>3. /\ preso' = preso /\ pcDet' = pcDet
      /\ Uno(CupoTomado)' = Uno(CupoTomado) /\ Uno(CupoTomado) \in Nat
  BY DEF Tripulante, vDet, vPlan, CupoTomado, Uno
<1>4. \A u \in Tripulantes : u # t => (ConCupo(u)' <=> ConCupo(u)) /\ pc'[u] = pc[u]
  BY <1>1, OtrosCupos
<1>5. ASSUME Arrancado(t) => (ConCupo(t)' <=> ConCupo(t))
      PROVE  Uno(Suelto)' = Uno(Suelto)
  <2>1. Suelto' <=> Suelto
    BY <1>3, <1>4, <1>5 DEF Suelto, Arrancado
  <2> QED BY <2>1 DEF Uno
<1>6. ASSUME pc[t] # "ceder", pc'[t] # "ceder"
      PROVE  Cediendo' = Cediendo
  BY <1>4, <1>6 DEF Cediendo
<1>7. CASE DejarPorQuantum(t) \/ DejarPorIO(t) \/ Finalizar(t)
  <2>1. /\ quitar_running(t)
        /\ pc[t] \in {"quitar_quantum", "ciclo", "fin"}
        /\ pc'[t] \in {"ready_quantum", "bloquear", "exit"}
    BY <1>1, <1>7 DEF DejarPorQuantum, DejarPorIO, Finalizar, Seguir, Sigue, Ir, TypeOK,
       TipoTripulantes
  <2>2. mp' + r' = mp + r
    BY <1>1, <2>1, QuitarRunning
  <2>3. EstaEn(t, "tripulantes_running")
    BY <2>1 DEF quitar_running, quitar
  <2>4. ~Arrancado(t)
    BY <1>1, <2>3 DEF Colocado, Sitio, Arrancado, Retenido, EnManos, Ausente, Listas
  <2>5. Uno(Suelto)' = Uno(Suelto) /\ Cediendo' = Cediendo
    BY <1>5, <1>6, <2>1, <2>4
  <2> QED BY <1>2, <1>3, <2>2, <2>5, CuentaIgual
<1>8. CASE MirarEmergencia(t) /\ estado[t] = "EMERGENCY"
  <2>1. pcDet = "esperar_trip" /\ preso = t /\ sem_running[t] = 0
    BY <1>1, <1>8, ColocadoEmergencia
  <2>2. /\ pc[t] = "emergencia" /\ pc'[t] = "ceder" /\ sem_running' = sem_running
        /\ sem' = sem /\ lista' = lista
    BY <1>1, <1>8 DEF MirarEmergencia, Ir, TypeOK, TipoTripulantes
  <2>3. Suelto
    BY <2>1, <2>2 DEF Suelto, Arrancado, ConCupo, Despachado
  <2>4. ~Suelto'
    BY <1>3, <2>1, <2>2 DEF Suelto, ConCupo, Despachado
  <2>5. Cediendo' = Cediendo \union {t} /\ t \notin Cediendo
    BY <1>4, <2>2 DEF Cediendo
  <2>6. IsFiniteSet(Cediendo') /\ Cardinality(Cediendo') = c + 1
    BY <1>2, <2>5, FS_AddElement
  <2>7. Uno(Suelto) = 1 /\ Uno(Suelto)' = 0
    BY <2>3, <2>4 DEF Uno
  <2>8. mp' = mp /\ r' = r
    BY <2>2
  <2>9. Cardinality(Cediendo') = c + 1
    BY <2>6
  <2> HIDE DEF mp, r, c
  <2>10. mp' + r' + Uno(Suelto)' + Cardinality(Cediendo') + Uno(CupoTomado)'
           = mp + r + Uno(Suelto) + c + Uno(CupoTomado)
    BY <1>2, <1>3, <2>7, <2>8, <2>9
  <2> QED BY <2>6, <2>10, CuentaIgual DEF mp, r, c
<1>9. CASE Ceder(t)
  <2>1. /\ pc[t] = "ceder" /\ pc'[t] = "espera_emergencia"
        /\ lista' = lista
        /\ mp' = mp + 1
    BY <1>1, <1>9 DEF Ceder, Ir, Post, Sumar, TypeOK, TipoTripulantes, TipoSemaforos, Semaforos
  <2>2. Arrancado(t) => (ConCupo(t)' <=> ConCupo(t))
    BY <1>1, <1>9, SuCupo DEF Ceder, MirarEmergencia, DejarPorQuantum, DejarPorIO, Finalizar
  <2>3. Uno(Suelto)' = Uno(Suelto)
    BY <1>5, <2>2
  <2>4. Cediendo' = Cediendo \ {t} /\ t \in Cediendo
    BY <1>4, <2>1 DEF Cediendo
  <2>5. IsFiniteSet(Cediendo') /\ Cardinality(Cediendo') = c - 1
    BY <1>2, <2>4, FS_RemoveElement
  <2>6. r' = r
    BY <2>1
  <2>7. Uno(Suelto) \in Nat
    BY DEF Uno
  <2> HIDE DEF mp, r, c
  <2>8. mp' + r' + Uno(Suelto)' + Cardinality(Cediendo') + Uno(CupoTomado)'
          = mp + r + Uno(Suelto) + c + Uno(CupoTomado)
    BY <1>2, <1>3, <2>1, <2>3, <2>5, <2>6, <2>7
  <2> QED BY <2>5, <2>8, CuentaIgual DEF mp, r, c
<1>10. CASE ~(MirarEmergencia(t) /\ estado[t] = "EMERGENCY") /\ ~Ceder(t)
            /\ ~(DejarPorQuantum(t) \/ DejarPorIO(t) \/ Finalizar(t))
  <2>1. pc[t] # "ceder" /\ pc'[t] # "ceder"
    BY <1>1, <1>10 DEF Tripulante, SolicitarTarea, PasarAReady, EncolarReady, EsperarRunning,
       MirarPausa, EjecutarCiclo, MirarEmergencia, DejarCiclo, PasarABlocked, EncolarBlocked,
       EsperarBlocked, ContinuarIO, BuscarBlocked, SacarBlocked, MirarSabotaje, EsperarFinSabotaje, CicloIO, SoltarIO,
       MirarContinuar, PasarAExit, FinalizarExpulsado, Seguir, Sigue, Ir, TypeOK,
       TipoTripulantes
  <2>2. Uno(Suelto)' = Uno(Suelto) /\ Cediendo' = Cediendo
    BY <1>1, <1>5, <1>6, <1>10, <2>1, SuCupo
  <2>3. mp' = mp /\ lista'["tripulantes_running"] = lista["tripulantes_running"]
    <3>1. CASE EncolarReady(t) \/ EncolarBlocked(t)
      BY <1>1, <3>1 DEF EncolarReady, EncolarBlocked, Encolar, Post, Sumar, TypeOK,
         TipoSemaforos, TipoListas, Semaforos, Listas
    <3>2. CASE SoltarIO(t) \/ EsperarFinSabotaje(t)
      BY <1>1, <3>2 DEF SoltarIO, EsperarFinSabotaje, Wait, Post, Restar, Sumar, TypeOK,
         TipoSemaforos, Semaforos
    <3>3. CASE sem' = sem /\ lista' = lista
      BY <3>3
    <3>4. \/ EncolarReady(t) \/ EncolarBlocked(t) \/ SoltarIO(t) \/ EsperarFinSabotaje(t)
          \/ sem' = sem /\ lista' = lista
      BY <1>1, <1>10, NadieExpulsado DEF Tripulante, SolicitarTarea, PasarAReady,
         EsperarRunning, MirarPausa, EjecutarCiclo, MirarEmergencia, DejarCiclo, PasarABlocked,
         EsperarBlocked, ContinuarIO, BuscarBlocked, SacarBlocked, MirarSabotaje, CicloIO, MirarContinuar, PasarAExit, vSem
    <3> QED BY <3>1, <3>2, <3>3, <3>4
  <2> QED BY <1>2, <1>3, <2>2, <2>3, CuentaIgual
<1> QED BY <1>7, <1>8, <1>9, <1>10

\* The planner takes a unit of multiprocesamiento, gives it back if there is nobody to
\* dispatch, or spends it on the trip that it puts in running.
LEMMA CuposSabotajePlanificador ==
  ASSUME CuposSabotaje, ~caido, ~caido', Colocados', planificador, UNCHANGED vDet
  PROVE  CuposSabotaje'
<1> DEFINE mp == sem["multiprocesamiento"]
           r  == Len(lista["tripulantes_running"])
           c  == Cardinality(Cediendo)
<1>1. TypeOK /\ Colocados
  BY ListasSinRepetidos DEF CuposSabotaje
<1>2. mp \in Nat /\ r \in Nat /\ c \in Nat /\ IsFiniteSet(Cediendo)
  BY MedidasSabotaje DEF CuposSabotaje
<1>3. /\ preso' = preso /\ pcDet' = pcDet /\ pc' = pc /\ tarea' = tarea
  BY DEF planificador, vDet, vTrip
<1>4. Cediendo' = Cediendo
  BY <1>3 DEF Cediendo
<1>5. Uno(Suelto)' = Uno(Suelto)
  <2>1. CASE sem_running' = sem_running
    BY <1>3, <2>1 DEF Suelto, Arrancado, ConCupo, Despachado, EnEspera, Uno
  <2>2. CASE PlanEncolarRunning
    <3>1. PICK h \in Tripulantes : h = elegido
      BY <1>1, <2>2 DEF PlanEncolarRunning, TypeOK, TipoHilos
    <3>2. ~Arrancado(h)
      BY <1>1, <3>1 DEF Colocados, Colocado, Sitio, Arrancado, Retenido, EnManos, Ausente
    <3>3. \A u \in Tripulantes \ {h} : sem_running'[u] = sem_running[u]
      BY <1>1, <2>2, <3>1 DEF PlanEncolarRunning, TypeOK, TipoSemaforos
    <3>4. Suelto' <=> Suelto
      BY <1>3, <3>2, <3>3 DEF Suelto, Arrancado, ConCupo, Despachado, EnEspera
    <3> QED BY <3>4 DEF Uno
  <2>3. sem_running' = sem_running \/ PlanEncolarRunning
    BY DEF planificador, PlanActivar, PlanContinuar, PlanEsperarReady, PlanEsperarCupo,
       PlanMirarSabotaje, PlanEsperarFinSabotaje, PlanHayReady, PlanSinReady, PlanQuitarReady,
       PlanPasarARunning, vSem
  <2> QED BY <2>1, <2>2, <2>3
<1>6. ASSUME mp' + r' + Uno(CupoTomado') = mp + r + Uno(CupoTomado),
             mp' \in Nat, r' \in Nat
      PROVE  CuposSabotaje'
  <2>1. /\ Uno(Suelto) \in Nat /\ Uno(CupoTomado) \in Nat /\ Uno(CupoTomado)' \in Nat
        /\ Cardinality(Cediendo') = c
    BY <1>4 DEF Uno
  <2> HIDE DEF mp, r, c
  <2>2. mp' + r' + Uno(Suelto)' + Cardinality(Cediendo') + Uno(CupoTomado)'
          = mp + r + Uno(Suelto) + c + Uno(CupoTomado)
    BY <1>2, <1>5, <1>6, <2>1
  <2> QED BY <1>2, <1>4, <2>2, CuentaIgual DEF mp, r, c
<1>7. CASE PlanEncolarRunning
  <2>1. elegido \in Tripulantes
    BY <1>1, <1>7 DEF PlanEncolarRunning, TypeOK, TipoHilos
  <2>2. r' = r + 1
    BY <1>1, <1>7, <2>1, AgregarALista DEF PlanEncolarRunning, Listas
  <2> QED BY <1>2, <1>6, <1>7, <2>2 DEF PlanEncolarRunning, CupoTomado, Uno
<1>8. CASE PlanEsperarCupo \/ PlanSinReady
  <2>1. \/ mp > 0 /\ mp' = mp - 1 /\ ~CupoTomado /\ CupoTomado'
        \/ mp' = mp + 1 /\ CupoTomado /\ ~CupoTomado'
    BY <1>1, <1>8 DEF PlanEsperarCupo, PlanSinReady, Wait, Post, Restar, Sumar, CupoTomado,
       TypeOK, TipoSemaforos, Semaforos
  <2>2. r' = r
    BY <1>8 DEF PlanEsperarCupo, PlanSinReady
  <2> HIDE DEF mp, r
  <2> QED BY <1>2, <1>6, <2>1, <2>2 DEF Uno
<1>9. CASE PlanQuitarReady
  BY <1>1, <1>2, <1>6, <1>9 DEF PlanQuitarReady, vSem, CupoTomado, Uno, TypeOK, TipoListas,
     Listas
<1>10. CASE PlanActivar \/ PlanEsperarReady \/ PlanEsperarFinSabotaje
  BY <1>1, <1>2, <1>6, <1>10 DEF PlanActivar, PlanEsperarReady, PlanEsperarFinSabotaje, Wait,
     Restar, CupoTomado, Uno, TypeOK, TipoSemaforos, Semaforos
<1>11. CASE PlanContinuar \/ PlanMirarSabotaje \/ PlanHayReady \/ PlanPasarARunning
  BY <1>2, <1>6, <1>11 DEF PlanContinuar, PlanMirarSabotaje, PlanHayReady, PlanPasarARunning,
     vSem, CupoTomado, Uno
<1> QED BY <1>7, <1>8, <1>9, <1>10, <1>11 DEF planificador

\* The input/output planner and the console have nothing to do with the slots.
LEMMA CuposSabotajeOtros ==
  ASSUME CuposSabotaje, ~caido, Colocados', planificador_io \/ (consola /\ ~Reiniciar),
         UNCHANGED vDet
  PROVE  CuposSabotaje'
<1>1. TypeOK /\ pcCons = "leer"
  BY ListasSinRepetidos DEF CuposSabotaje, Colocados
<1>2. /\ preso' = preso /\ pcDet' = pcDet /\ pc' = pc /\ tarea' = tarea /\ pcPlan' = pcPlan
  BY DEF planificador_io, consola, vDet, vTrip, vPlan
<1>3. consola /\ ~Reiniciar => IniciarPlanificacion \/ pausar_planificacion
  BY <1>1 DEF consola, iniciar_planificacion, TerminarOrden, ReiniciarMirar, ReiniciarPost,
     ReiniciarMirarBlock, ReiniciarPostBlock, ReiniciarMirarSabotaje
<1>4. sem_running' = sem_running
  BY <1>3 DEF planificador_io, IniciarPlanificacion, pausar_planificacion, vSem
<1>5. Suelto' = Suelto /\ Cediendo' = Cediendo /\ CupoTomado' = CupoTomado
  BY <1>2, <1>4
     DEF Suelto, Arrancado, ConCupo, Despachado, EnEspera, Cediendo, CupoTomado
<1>6. sem'["multiprocesamiento"] = sem["multiprocesamiento"]
  BY <1>1, <1>3 DEF planificador_io, IOEsperarTrip, IOEsperarDispositivo, IOQuitarBlocked,
     IOAvisar, IniciarPlanificacion, pausar_planificacion, vSem, Wait, Post, Restar, Sumar,
     TypeOK, TipoSemaforos, Semaforos
<1>7. lista'["tripulantes_running"] = lista["tripulantes_running"]
  BY <1>1 DEF planificador_io, IOEsperarTrip, IOEsperarDispositivo, IOQuitarBlocked, IOAvisar,
     consola, TypeOK, TipoListas, Listas
<1>8. IsFiniteSet(Cediendo)
  BY DEF CuposSabotaje
<1> QED BY <1>5, <1>6, <1>7, <1>8, CuentaIgual

\* The trip that the detector takes out of running keeps its slot, and has given it
\* back when the detector lets it go.
LEMMA CuposSabotajeDetector ==
  ASSUME CuposSabotaje, ~caido, ~caido', Colocados', detector_sabotaje
  PROVE  CuposSabotaje'
<1> DEFINE mp == sem["multiprocesamiento"]
           r  == Len(lista["tripulantes_running"])
           c  == Cardinality(Cediendo)
<1>1. TypeOK /\ Colocados /\ UnLugar /\ PresoValido
  BY ListasSinRepetidos DEF CuposSabotaje
<1>2. mp \in Nat /\ r \in Nat /\ c \in Nat /\ IsFiniteSet(Cediendo)
  BY MedidasSabotaje DEF CuposSabotaje
<1>3. /\ pc' = pc /\ tarea' = tarea /\ sem_running' = sem_running /\ pcPlan' = pcPlan
  BY DEF detector_sabotaje, vTrip, vPlan
<1>4. Cediendo' = Cediendo /\ CupoTomado' = CupoTomado
  BY <1>3 DEF Cediendo, CupoTomado
<1>5. \A u \in Tripulantes : ConCupo(u)' <=> ConCupo(u)
  BY <1>3 DEF ConCupo, Despachado, EnEspera
<1>6. mp' = mp
  BY <1>1 DEF detector_sabotaje, DetRecibir, DetMirarPausa, DetEsperarReanudacion,
     DetMirarLista, DetQuitarRunning, DetQuitarReady, DetQuitar, DetPasarAEmergencia,
     DetEsperarTrip, DetResolver, DetSinTripulantes, DetPasarAReady, DetEncolarReady,
     DetTerminar, DetAvisarPlanificador, DetAvisarIO, Wait, Post, Restar, Sumar, TypeOK,
     TipoSemaforos, Semaforos
<1>7. CASE DetQuitarRunning
  <2>1. PICK h \in Tripulantes :
          /\ EstaEn(h, "tripulantes_running") /\ preso' = h /\ pcDet' = "emergencia_running"
          /\ lista' = [lista EXCEPT !["tripulantes_running"] = RemoveFirst(@, h)]
    <3>1. DetQuitar("tripulantes_running", "emergencia_running")
      BY <1>7 DEF DetQuitarRunning
    <3>2. "tripulantes_running" \in Listas
      BY DEF Listas
    <3> QED BY <1>1, <3>1, <3>2, Arranca
  <2>2. r' = r - 1
    BY <1>1, <2>1, ArrancaTipo DEF Listas
  <2>3. ConCupo(h)
    BY <1>1, <2>1 DEF Colocados, Colocado, Turno
  <2>4. Suelto' /\ ~Suelto
    BY <1>5, <1>7, <2>1, <2>3 DEF Suelto, Arrancado, DetQuitarRunning
  <2>5. Uno(Suelto)' = 1 /\ Uno(Suelto) = 0 /\ Uno(CupoTomado)' = Uno(CupoTomado)
          /\ Uno(CupoTomado) \in Nat /\ Cardinality(Cediendo') = c
    BY <1>4, <2>4 DEF Uno
  <2> HIDE DEF mp, r, c
  <2>6. mp' + r' + Uno(Suelto)' + Cardinality(Cediendo') + Uno(CupoTomado)'
          = mp + r + Uno(Suelto) + c + Uno(CupoTomado)
    BY <1>2, <1>6, <2>2, <2>5
  <2> QED BY <1>2, <1>4, <2>6, CuentaIgual DEF mp, r, c
<1>8. ASSUME lista'["tripulantes_running"] = lista["tripulantes_running"],
             Suelto' <=> Suelto
      PROVE  CuposSabotaje'
  <2>1. Uno(Suelto)' = Uno(Suelto)
    BY <1>8 DEF Uno
  <2> QED BY <1>2, <1>4, <1>6, <1>8, <2>1, CuentaIgual
<1>9. CASE DetQuitarReady
  <2>1. lista'["tripulantes_running"] = lista["tripulantes_running"]
    BY <1>1, <1>9 DEF DetQuitarReady, DetQuitar, TypeOK, TipoListas, Listas
  <2>2. ~Suelto /\ ~Suelto'
    BY <1>9 DEF DetQuitarReady, DetQuitar, Suelto, Arrancado
  <2> QED BY <1>8, <2>1, <2>2
<1>10. CASE DetEncolarReady
  <2>1. lista'["tripulantes_running"] = lista["tripulantes_running"]
    BY <1>1, <1>10 DEF DetEncolarReady, Encolar, TypeOK, TipoListas, Listas
  <2>2. ~Suelto /\ ~Suelto'
    BY <1>10 DEF DetEncolarReady, Suelto, Arrancado
  <2> QED BY <1>8, <2>1, <2>2
<1>11. CASE DetPasarAEmergencia
  <2>1. Suelto' <=> Suelto
    BY <1>1, <1>5, <1>11 DEF DetPasarAEmergencia, Suelto, Arrancado
  <2> QED BY <1>8, <1>11, <2>1 DEF DetPasarAEmergencia
<1>12. CASE DetEsperarTrip
  <2>1. ~Suelto
    BY <1>1, <1>12, DetectorEspera DEF Suelto
  <2>2. ~Suelto'
    BY <1>12 DEF DetEsperarTrip, Suelto, Arrancado
  <2> QED BY <1>8, <1>12, <2>1, <2>2 DEF DetEsperarTrip
<1>13. CASE DetRecibir \/ DetMirarPausa \/ DetEsperarReanudacion \/ DetMirarLista
          \/ DetResolver \/ DetSinTripulantes \/ DetPasarAReady \/ DetTerminar
          \/ DetAvisarPlanificador \/ DetAvisarIO
  <2>1. lista' = lista /\ {pcDet, pcDet'} \intersect {"emergencia_running", "esperar_trip"} = {}
    BY <1>13 DEF DetRecibir, DetMirarPausa, DetEsperarReanudacion, DetMirarLista, DetResolver,
       DetSinTripulantes, DetPasarAReady, DetTerminar, DetAvisarPlanificador, DetAvisarIO
  <2>2. ~Suelto /\ ~Suelto'
    BY <2>1 DEF Suelto, Arrancado
  <2> QED BY <1>8, <2>1, <2>2
<1> QED BY <1>7, <1>9, <1>10, <1>11, <1>12, <1>13 DEF detector_sabotaje

\* Every step but a resumption keeps the count.
LEMMA CuposSabotajeInductivo ==
  ASSUME CuposSabotaje, [NextSabotaje]_varsSabotaje, [~Reiniciar]_varsSabotaje
  PROVE  CuposSabotaje'
<1>1. Colocados'
  BY ColocadosInductivo DEF CuposSabotaje
<1>2. CASE UNCHANGED varsSabotaje
  <2>1. /\ sem' = sem /\ pc' = pc /\ tarea' = tarea /\ sem_running' = sem_running
        /\ lista' = lista /\ pcPlan' = pcPlan /\ preso' = preso /\ pcDet' = pcDet
        /\ caido' = caido
    BY <1>2 DEF varsSabotaje, vars, vDet, vSem, vTrip, vPlan
  <2>2. Suelto' = Suelto /\ Cediendo' = Cediendo /\ CupoTomado' = CupoTomado
    BY <2>1 DEF Suelto, Arrancado, ConCupo, Despachado, EnEspera, Cediendo, CupoTomado
  <2> QED BY <1>1, <2>1, <2>2 DEF CuposSabotaje
<1>3. CASE Next /\ vDet' = vDet /\ ~Reiniciar
  <2>1. ~caido
    BY <1>3 DEF Next
  <2>2. CASE caido'
    <3>1. pc' = pc \/ \E t \in Tripulantes : Tripulante(t)
      BY <1>3 DEF Next, planificador, planificador_io, consola, vTrip
    <3>2. ASSUME NEW t \in Tripulantes, Tripulante(t) PROVE IsFiniteSet(Cediendo')
      <4>1. Cediendo' \subseteq Cediendo \union {t}
        BY <3>2, OtrosCupos, ListasSinRepetidos DEF CuposSabotaje, Cediendo
      <4>2. IsFiniteSet(Cediendo \union {t})
        BY FS_AddElement DEF CuposSabotaje
      <4> QED BY <4>1, <4>2, FS_Subset
    <3>3. pc' = pc => Cediendo' = Cediendo
      BY DEF Cediendo
    <3> QED BY <1>1, <2>2, <3>1, <3>2, <3>3 DEF CuposSabotaje
  <2>3. CASE ~caido'
    BY <1>1, <1>3, <2>1, <2>3, CuposSabotajeTripulante, CuposSabotajePlanificador,
       CuposSabotajeOtros DEF Next
  <2> QED BY <2>2, <2>3
<1>4. CASE ~caido /\ detector_sabotaje
  <2>1. CASE caido'
    <3>1. Cediendo' = Cediendo
      BY <1>4 DEF detector_sabotaje, vTrip, Cediendo
    <3> QED BY <1>1, <2>1, <3>1 DEF CuposSabotaje
  <2> QED BY <1>1, <1>4, <2>1, CuposSabotajeDetector
<1>5. \/ Next /\ vDet' = vDet /\ ~Reiniciar
      \/ ~caido /\ detector_sabotaje
      \/ UNCHANGED varsSabotaje
  BY DEF NextSabotaje
<1> QED BY <1>2, <1>3, <1>4, <1>5

\* As long as the user does not resume planning, the count of slots is exact.
THEOREM CuposExactosConSabotaje ==
  SpecSabotaje /\ [][~Reiniciar]_varsSabotaje => []CuposSabotaje
<1>1. InitSabotaje => CuposSabotaje
  <2> SUFFICES ASSUME InitSabotaje PROVE CuposSabotaje
    OBVIOUS
  <2>1. Colocados
    BY ColocadosInicial
  <2>2. Cediendo = {}
    BY DEF InitSabotaje, Init, InitTripulantes, Cediendo
  <2>3. IsFiniteSet(Cediendo) /\ Cardinality(Cediendo) = 0
    BY <2>2, FS_EmptySet
  <2>4. ~Suelto /\ ~CupoTomado
    BY DEF InitSabotaje, Init, InitPlanificador, Suelto, Arrancado, CupoTomado
  <2>5. sem["multiprocesamiento"] = GRADO_MULTITAREA /\ Len(lista["tripulantes_running"]) = 0
    BY DEF InitSabotaje, Init, InitPlanificador, Semaforos, Listas
  <2> QED BY <2>1, <2>3, <2>4, <2>5, ConstantesValidas DEF CuposSabotaje, Uno
<1>2. CuposSabotaje /\ [NextSabotaje]_varsSabotaje /\ [~Reiniciar]_varsSabotaje
        => CuposSabotaje'
  BY CuposSabotajeInductivo
<1> QED BY <1>1, <1>2, PTL DEF SpecSabotaje

\* A sabotage loses no slot and invents none, whatever moment it finds each trip at
\* (sabotajes.c and puede_continuar), when every patota has tasks.
THEOREM NingunCupoSePierde ==
  ASSUME HayTareas
  PROVE  SpecSabotaje /\ [][~Reiniciar]_varsSabotaje => []CupoConSabotaje
<1>1. ASSUME CuposSabotaje
      PROVE  CupoConSabotaje
  <2> SUFFICES ASSUME ~caido
               PROVE  sem["multiprocesamiento"] + Len(lista["tripulantes_running"])
                        + Cardinality({t \in Tripulantes : SinCupo(t)})
                        + Cardinality({t \in Tripulantes : pc[t] = "ceder"})
                        + Uno(CupoTomado) = GRADO_MULTITAREA
    BY DEF CupoConSabotaje
  <2>1. Cardinality({t \in Tripulantes : SinCupo(t)}) = Uno(Suelto)
    BY <1>1, UnSoloSuelto DEF CuposSabotaje
  <2> QED BY <1>1, <2>1 DEF CuposSabotaje, Cediendo
<1> QED BY <1>1, CuposExactosConSabotaje, PTL

\* GRADO_MULTITAREA is respected during a sabotage too: a trip that has not seen that
\* the detector took it out of running goes on executing, and keeps its slot meanwhile.
THEOREM GradoConSabotaje ==
  SpecSabotaje /\ [][~Reiniciar]_varsSabotaje => [](~caido => GradoRespetado)
<1>1. ASSUME CuposSabotaje, ~caido
      PROVE  GradoRespetado
  <2> DEFINE r == lista["tripulantes_running"]
             E == {t \in Tripulantes : Ejecuta(t)}
             P == IF Suelto THEN {preso} ELSE {}
             mp == sem["multiprocesamiento"]
             c == Cardinality(Cediendo)
  <2>1. r \in Seq(Tripulantes) /\ Len(r) \in Nat /\ mp \in Nat /\ c \in Nat
    BY <1>1, MedidasSabotaje, ListasSinRepetidos
       DEF CuposSabotaje, TypeOK, TipoListas, Listas
  <2>2. E \subseteq ToSet(r) \union P
    <3> SUFFICES ASSUME NEW t \in Tripulantes, Ejecuta(t)
                 PROVE  EstaEn(t, "tripulantes_running") \/ (Suelto /\ preso = t)
      BY DEF EstaEn
    <3>1. Tareas[t] # <<>>
      BY DEF Ejecuta, HayTarea
    <3>2. ConCupo(t)
      BY DEF Ejecuta, ConCupo, Despachado
    <3>3. EstaEn(t, "tripulantes_running") \/ Arrancado(t)
      BY <1>1, <3>1, <3>2 DEF CuposSabotaje, Colocados, Colocado, Turno
    <3> QED BY <3>2, <3>3 DEF Suelto, Arrancado
  <2>3. IsFiniteSet(ToSet(r)) /\ Cardinality(ToSet(r)) <= Len(r)
    BY <2>1, NoMasQuePosiciones
  <2>4. /\ IsFiniteSet(ToSet(r) \union P)
        /\ Cardinality(ToSet(r) \union P) <= Len(r) + Uno(Suelto)
    <3>1. Cardinality(ToSet(r)) \in Nat
      BY <2>3, FS_CardinalityType
    <3>2. CASE Suelto
      <4>1. /\ IsFiniteSet(ToSet(r) \union {preso})
            /\ Cardinality(ToSet(r) \union {preso}) <= Cardinality(ToSet(r)) + 1
            /\ Cardinality(ToSet(r) \union {preso}) \in Nat
        BY <2>3, <3>1, FS_AddElement, FS_CardinalityType
      <4>2. P = {preso} /\ Uno(Suelto) = 1
        BY <3>2 DEF Uno
      <4> HIDE DEF r, P
      <4> QED BY <2>1, <2>3, <3>1, <4>1, <4>2
    <3>3. CASE ~Suelto
      <4>1. ToSet(r) \union P = ToSet(r) /\ Uno(Suelto) = 0
        BY <3>3 DEF Uno
      <4>2. Cardinality(ToSet(r) \union P) = Cardinality(ToSet(r))
        BY <4>1
      <4> HIDE DEF r, P
      <4>3. Len(r) + Uno(Suelto) = Len(r)
        BY <2>1, <4>1
      <4> QED BY <2>3, <4>1, <4>2, <4>3
    <3> QED BY <3>2, <3>3
  <2>5. /\ Cardinality(E) <= Cardinality(ToSet(r) \union P)
        /\ Cardinality(E) \in Nat /\ Cardinality(ToSet(r) \union P) \in Nat
    BY <2>2, <2>4, FS_Subset, FS_CardinalityType
  <2>6. mp + Len(r) + Uno(Suelto) + c + Uno(CupoTomado) = GRADO_MULTITAREA
    BY <1>1 DEF CuposSabotaje
  <2>7. Uno(Suelto) \in Nat /\ Uno(CupoTomado) \in Nat
    BY DEF Uno
  <2> HIDE DEF r, E, P, mp, c
  <2>8. Cardinality(E) <= GRADO_MULTITAREA
    BY <2>1, <2>4, <2>5, <2>6, <2>7, ConstantesValidas
  <2> QED BY <2>8 DEF E, GradoRespetado
<1> QED BY <1>1, CuposExactosConSabotaje, PTL

\* One order cannot resume what no order started, with the detector running too.
THEOREM UnaOrdenNoReanudaConSabotaje ==
  ASSUME MaxOrdenes <= 1
  PROVE  SpecSabotaje => [][~Reiniciar]_varsSabotaje
<1> DEFINE Ordenada == ordenes \in Nat /\ (planificacion_inicializada => ordenes >= 1)
<1>1. InitSabotaje => Ordenada
  BY DEF InitSabotaje, Init, InitConsola
<1>2. Ordenada /\ [NextSabotaje]_varsSabotaje => Ordenada'
  <2> SUFFICES ASSUME Ordenada, [NextSabotaje]_varsSabotaje PROVE Ordenada'
    OBVIOUS
  <2>1. CASE vCons' = vCons
    BY <2>1 DEF vCons
  <2>2. CASE consola
    BY <2>2 DEF consola, iniciar_planificacion, TerminarOrden, IniciarPlanificacion,
       Reiniciar, ReiniciarMirar, ReiniciarPost, ReiniciarMirarBlock, ReiniciarPostBlock,
       ReiniciarMirarSabotaje, pausar_planificacion, NuevaOrden
  <2>3. vCons' = vCons \/ consola
    BY DEF NextSabotaje, Next, Tripulante, planificador, planificador_io, detector_sabotaje,
       varsSabotaje, vars
  <2> QED BY <2>1, <2>2, <2>3
<1>3. Ordenada => ~Reiniciar
  BY ConstantesValidas DEF Reiniciar, NuevaOrden
<1> QED BY <1>1, <1>2, <1>3, PTL DEF SpecSabotaje

-----------------------------------------------------------------------------
(***************************************************************************)
(* Proofs about Expulsiones, for every crew, task list, algorithm, QUANTUM,*)
(* GRADO_MULTITAREA and number of expulsions.  Whatever the user orders, a *)
(* trip that was freed is nowhere, the device is conserved and nobody is   *)
(* left waiting for the answer of a thread that the RAM cancelled.  Until  *)
(* the user resumes planning, the process dies only in the windows that    *)
(* CaidaExplicada names.                                                   *)
(*                                                                         *)
(* Two walks look for an expelled trip without the mutex of the list; what *)
(* is proved holds until a planner takes the head of that list from under  *)
(* one of them (desfasado), and the invariant says where a walk is.        *)
(*                                                                         *)
(* An expelled trip is woken wherever it waits, so little is known of the  *)
(* way it takes to its end.  What each part needs is that it cannot leave  *)
(* a list that it is not in (the process dies there), so that wherever it  *)
(* goes its estado still names the list that has it.                       *)
(***************************************************************************)

-----------------------------------------------------------------------------
(* The invariants, whatever the user orders, trip by trip *)

\* t has been woken in its wait for the device, and has not seen yet whether it has
\* the device or was expelled, or looks for itself in cola_blocked
Antes == {"pausa_io", "pausado_io", "continuar_io", "buscar_blocked", "sacar_blocked"}
\* t has the device
Usa == ConDispositivo \ Antes

\* t is between two lists
EnViaje(t) == Viaja(t) /\ pc[t] \notin Antes \union {"terminado"}

\* t is in one place at most, and between two lists in none.
Puesto(t) ==
  /\ \A l, m \in Listas : EstaEn(t, l) /\ EstaEn(t, m) => l = m
  /\ elegido = t => \A l \in Listas : ~EstaEn(t, l)
  /\ EnViaje(t) => Ausente(t)
  /\ pc[t] = "solicitar" \/ tarea[t] > 0

\* estado names the list, and the planner's hands.
Rotulo(t) ==
  /\ estado[t] # "EMERGENCY" /\ pc[t] \notin {"ceder", "espera_emergencia"}
  /\ EstaEn(t, "cola_ready") => estado[t] = "READY"
  /\ EstaEn(t, "tripulantes_running") => estado[t] = "RUNNING"
  /\ pc[t] \in {"encolar_inicio", "encolar_quantum", "encolar_io"} => estado[t] = "READY"
  /\ elegido = t => \/ pcPlan = "pasar_a_running" /\ estado[t] = "READY"
                    \/ pcPlan = "encolar_running" /\ estado[t] = "RUNNING"

\* The device is given through cola_blocked, trip_block and sem_blocked, in order; an
\* expelled trip may be ahead of them, but it uses the device only if it had it.
Tanda(t) ==
  /\ EstaEn(t, "cola_blocked") =>
       /\ pc[t] \in {"espera_blocked"} \union Antes
       /\ continuar[t] => pc[t] = "espera_blocked" /\ sem_blocked[t] = 0
  /\ trip_block = t => Ausente(t) /\ pc[t] \in {"espera_blocked"} \union ConDispositivo
  /\ pcIO = "avisar" /\ trip_block = t /\ continuar[t] =>
       pc[t] = "espera_blocked" /\ sem_blocked[t] = 0
  /\ continuar[t] /\ sem_blocked[t] > 0 =>
       pc[t] = "espera_blocked" /\ sem_blocked[t] = 1 /\ trip_block = t
  /\ pc[t] \in ConDispositivo /\ (continuar[t] \/ pc[t] \in Usa) => trip_block = t

Firme(t) == Puesto(t) /\ Rotulo(t) /\ Tanda(t)

\* the console has joined the thread of t
Unido(t) ==
  t \in liberados \/ (t = victima /\ pcCons \in EtiquetasExpulsar \ {"marcar", "join"})
\* and taken t out of its list
Sacado(t) == t \in liberados \/ (t = victima /\ pcCons \in {"descontar", "liberar"})

\* What the console and the RAM have done to t.
Despedida(t) ==
  /\ Unido(t) => pc[t] = "terminado"
  /\ Sacado(t) => Ausente(t)
  /\ t \in sordos <=> t \in liberados \/ t = victima
  /\ t = victima =>
       t \notin liberados /\ pcCons \in EtiquetasExpulsar
  /\ ~continuar[t] => t = victima \/ t \in liberados
  /\ <<t, "tripulante">> \in esperan => t = victima /\ pc[t] # "terminado"
  /\ <<t, "planificador">> \in esperan =>
       t = victima /\ elegido = t /\ pcPlan = "encolar_running"

\* A walk of quitar over the list s, at place i, has found v there, or has not passed it.
Hallazgo(s, i, v) == i \in 1 .. Len(s) /\ s[i] = v
Pasados(s, i, v) == \A j \in 1 .. i - 1 : j <= Len(s) => s[j] # v

\* Where the walks are: that of an expelled trip over cola_blocked, and the console's
\* over cola_ready, to which estado brought it.
Busqueda(t) ==
  /\ pc[t] \in {"buscar_blocked", "sacar_blocked"} => ~continuar[t]
  /\ pc[t] = "buscar_blocked" => Pasados(lista["cola_blocked"], restan[t] + 1, t)
  /\ pc[t] = "sacar_blocked" => Hallazgo(lista["cola_blocked"], restan[t] + 1, t)
BusquedaConsola ==
  /\ pcCons = "buscar_ready" => Pasados(lista["cola_ready"], indice, victima)
  /\ pcCons = "sacar_ready" => Hallazgo(lista["cola_ready"], indice, victima)
  /\ pcCons \in {"buscar_ready", "sacar_ready"} =>
       estado[victima] = "READY" \/ <<victima, "planificador">> \in esperan

\* The inductive invariant for every order.  Of a process that died, or removed from a
\* list another trip than it looked for, only the types are left to speak of.
EnOrden ==
  /\ \A l \in Listas : IsInjective(lista[l])
  /\ DispositivoContado
  /\ \A t \in Tripulantes : Firme(t) /\ Despedida(t) /\ Busqueda(t)
  /\ BusquedaConsola

\* The RAM has cancelled its thread of the trip that the console frees.
Tipado == TypeOKExpulsion /\ TareaEnIO /\ (victima \in Tripulantes => victima \in sordos)
IInvExpulsion == Tipado /\ (~caido /\ ~desfasado => EnOrden)

-----------------------------------------------------------------------------
(* The types *)

\* A trip of an expelled thread, or one that nobody expelled, keeps the types.
LEMMA TipoConTripulante ==
  ASSUME Tipado, desfasado' \in BOOLEAN, NEW t \in Tripulantes,
         TripulanteEscuchado(t) \/ PedirASordo(t)
  PROVE  Tipado'
<1>1. TypeOK /\ TypeOKExpulsion /\ TareaEnIO
  BY DEF Tipado, TypeOKExpulsion
<1>2. CASE TripulanteEscuchado(t)
  <2>1. TypeOK' /\ TareaEnIO'
    BY <1>1, <1>2, TipoTripulante, TareaTripulante DEF TripulanteEscuchado
  <2>2. /\ pcCons' = pcCons /\ victima' = victima /\ liberados' = liberados /\ sordos' = sordos
        /\ esperan' \subseteq esperan \union (IF t \in sordos THEN {<<t, "tripulante">>} ELSE {})
    BY <1>2 DEF TripulanteEscuchado, Tripulante, vCons, vExp
  <2> QED BY <2>1, <2>2 DEF Tipado, TypeOKExpulsion
<1>3. CASE PedirASordo(t)
  <2>1. estado' \in [Tripulantes -> Estados]
    BY <1>1, <1>3 DEF PedirASordo, TypeOK, TipoTripulantes, Estados
  <2>2. /\ UNCHANGED <<sem, sem_running, sem_blocked, lista, trip_block, continuar>>
        /\ UNCHANGED <<continuar_planificacion, hay_sabotaje, pc, tarea, restan, contador_ciclos>>
        /\ UNCHANGED <<pcPlan, elegido, pcIO, pcCons, indice, ordenes, caido>>
        /\ UNCHANGED <<planificacion_inicializada, victima, liberados, sordos>>
        /\ esperan' = esperan \union {<<t, "tripulante">>} /\ t \in sordos
    BY <1>3 DEF PedirASordo, vSem, vTrip, vPlan, vCons, vExp
  <2>3. TypeOK'
    BY <1>1, <2>1, <2>2 DEF TypeOK, TipoSemaforos, TipoListas, TipoTripulantes, TipoHilos
  <2>4. TareaEnIO'
    BY <1>1, <2>2 DEF TareaEnIO, HayTarea
  <2> QED BY <2>2, <2>3, <2>4 DEF Tipado, TypeOKExpulsion
<1> QED BY <1>2, <1>3

\* The planners and the orders to start and pause keep them.
LEMMA TipoConPlanes ==
  ASSUME Tipado, desfasado' \in BOOLEAN,
         \/ PlanificadorEscuchado
         \/ planificador_io /\ UNCHANGED <<vExp, vRam>>
         \/ consola /\ UNCHANGED <<vExp, vRam>>
  PROVE  Tipado'
<1>1. TypeOK /\ TypeOKExpulsion /\ TareaEnIO
  BY DEF Tipado, TypeOKExpulsion
<1>2. TypeOK'
  BY <1>1, TipoPlanificador, TipoPlanificadorIO, TipoConsola DEF PlanificadorEscuchado
<1>3. TareaEnIO'
  <2>1. pc' = pc /\ tarea' = tarea
    BY DEF PlanificadorEscuchado, planificador, planificador_io, consola, vTrip
  <2> QED BY <1>1, <2>1 DEF TareaEnIO, HayTarea
<1>4. /\ victima' = victima /\ liberados' = liberados /\ sordos' = sordos
      /\ \/ esperan' = esperan
         \/ elegido \in sordos /\ esperan' = esperan \union {<<elegido, "planificador">>}
  BY DEF PlanificadorEscuchado, vExp, vRam
<1>5. pcCons' \in EtiquetasExpulsar => pcCons' = pcCons
  BY DEF EtiquetasExpulsar, PlanificadorEscuchado, planificador, planificador_io, consola, vCons,
     iniciar_planificacion, IniciarPlanificacion, NuevaOrden, Reiniciar, TerminarOrden,
     ReiniciarMirar, ReiniciarPost, ReiniciarMirarBlock, ReiniciarPostBlock,
     ReiniciarMirarSabotaje, pausar_planificacion
<1> QED BY <1>2, <1>3, <1>4, <1>5 DEF Tipado, TypeOKExpulsion

\* So does the expulsion.
LEMMA TipoConExpulsion ==
  ASSUME Tipado, desfasado' \in BOOLEAN, expulsar_tripulante
  PROVE  Tipado'
<1>1. TypeOK /\ TypeOKExpulsion /\ TareaEnIO
  BY DEF Tipado, TypeOKExpulsion
<1>2. /\ UNCHANGED <<trip_block, estado, continuar_planificacion, hay_sabotaje, pc, tarea>>
      /\ UNCHANGED <<restan, contador_ciclos, pcPlan, elegido, pcIO, ordenes>>
      /\ UNCHANGED planificacion_inicializada
  BY DEF expulsar_tripulante, vTrip, vPlan
<1>3. TareaEnIO'
  BY <1>1, <1>2 DEF TareaEnIO, HayTarea
<1>4. ASSUME /\ sem' \in [Semaforos -> Nat] /\ sem_running' \in [Tripulantes -> Nat]
             /\ sem_blocked' \in [Tripulantes -> Nat] /\ lista' \in [Listas -> Seq(Tripulantes)]
             /\ continuar' \in [Tripulantes -> BOOLEAN] /\ caido' \in BOOLEAN
             /\ pcCons' \in EtiquetasConsola /\ indice' \in Nat \ {0}
      PROVE  TypeOK'
  BY <1>1, <1>2, <1>4 DEF TypeOK, TipoSemaforos, TipoListas, TipoTripulantes, TipoHilos
<1>5. CASE \E t \in Tripulantes : ExpPedir(t)
  <2>1. PICK t \in Tripulantes : ExpPedir(t)
    BY <1>5
  <2>2. TypeOK'
    BY <1>1, <1>4, <2>1 DEF ExpPedir, vSem, TypeOK, TipoSemaforos, TipoListas,
       TipoTripulantes, TipoHilos, EtiquetasConsola, EtiquetasExpulsar
  <2>3. /\ victima' = t /\ liberados' = liberados /\ sordos' = sordos \union {t}
        /\ esperan' \subseteq esperan \union {<<t, "tripulante">>, <<t, "planificador">>}
    BY <2>1 DEF ExpPedir, Avisos
  <2> QED BY <1>3, <2>2, <2>3 DEF Tipado, TypeOKExpulsion
<1>6. CASE ExpMarcar
  <2>1. victima \in Tripulantes /\ pcCons' = "join" /\ UNCHANGED <<vExp, vRam>>
    BY <1>1, <1>6 DEF ExpMarcar, TypeOKExpulsion, EtiquetasExpulsar
  <2>2. sem_running' \in [Tripulantes -> Nat] /\ sem_blocked' \in [Tripulantes -> Nat]
    <3>1. sem_running \in [Tripulantes -> Nat] /\ sem_blocked \in [Tripulantes -> Nat]
      BY <1>1 DEF TypeOK, TipoSemaforos
    <3> QED BY <1>6, <2>1, <3>1 DEF ExpMarcar
  <2>3. continuar' \in [Tripulantes -> BOOLEAN]
    BY <1>1, <1>6, <2>1 DEF ExpMarcar, TypeOK, TipoTripulantes
  <2>4. TypeOK'
    BY <1>1, <1>4, <1>6, <2>1, <2>2, <2>3 DEF ExpMarcar, TypeOK, TipoSemaforos, TipoListas,
       TipoHilos, EtiquetasConsola, EtiquetasExpulsar
  <2> QED BY <1>3, <2>1, <2>4 DEF Tipado, TypeOKExpulsion, vExp, vRam
<1>7. CASE ExpJoin
  <2>1. TypeOK'
    BY <1>1, <1>4, <1>7 DEF ExpJoin, TypeOK, TipoSemaforos, TipoListas, TipoTripulantes,
       TipoHilos, EtiquetasConsola, EtiquetasExpulsar
  <2> QED BY <1>3, <1>7, <2>1 DEF ExpJoin, Tipado, TypeOKExpulsion, EtiquetasExpulsar, vExp, vRam
<1>8. CASE ExpSacarReady
  <2>1. victima \in Tripulantes /\ pcCons' = "buscar_ready" /\ indice' = 1
    BY <1>1, <1>8 DEF ExpSacarReady, TypeOKExpulsion, EtiquetasExpulsar
  <2>2. TypeOK'
    <3>1. pcCons' \in EtiquetasConsola /\ indice' \in Nat \ {0}
      BY <2>1 DEF EtiquetasConsola, EtiquetasExpulsar
    <3>2. UNCHANGED <<sem, sem_running, sem_blocked, lista, continuar, caido>>
      BY <1>8 DEF ExpSacarReady
    <3>3. /\ sem' \in [Semaforos -> Nat] /\ sem_running' \in [Tripulantes -> Nat]
          /\ sem_blocked' \in [Tripulantes -> Nat]
      BY <1>1, <3>2 DEF TypeOK, TipoSemaforos
    <3>4. /\ lista' \in [Listas -> Seq(Tripulantes)]
          /\ continuar' \in [Tripulantes -> BOOLEAN] /\ caido' \in BOOLEAN
      BY <1>1, <3>2 DEF TypeOK, TipoListas, TipoTripulantes, TipoHilos
    <3> QED BY <1>4, <3>1, <3>3, <3>4
  <2> QED BY <1>3, <1>8, <2>1, <2>2 DEF ExpSacarReady, Tipado, TypeOKExpulsion, vExp, vRam
<1>9. CASE ExpBuscarReady
  <2>1. /\ victima \in Tripulantes /\ pcCons' \in {"buscar_ready", "sacar_ready"}
        /\ indice' \in {indice, indice + 1} /\ UNCHANGED <<vExp, vRam>>
    BY <1>1, <1>9 DEF ExpBuscarReady, TypeOKExpulsion, EtiquetasExpulsar
  <2>2. caido' \in BOOLEAN /\ indice' \in Nat \ {0}
    <3>1. indice \in Nat \ {0} /\ Len(lista["cola_ready"]) \in Nat
      BY <1>1 DEF TypeOK, TipoHilos, TipoListas, Listas
    <3>2. caido' = (indice > Len(lista["cola_ready"]))
      BY <1>9, Zenon DEF ExpBuscarReady
    <3> QED BY <2>1, <3>1, <3>2
  <2>3. TypeOK'
    BY <1>1, <1>4, <1>9, <2>1, <2>2 DEF ExpBuscarReady, TypeOK, TipoSemaforos, TipoListas,
       TipoTripulantes, EtiquetasConsola, EtiquetasExpulsar
  <2> QED BY <1>3, <2>1, <2>3 DEF Tipado, TypeOKExpulsion, vExp, vRam
<1>10. CASE ExpQuitarReady
  <2>1. /\ victima \in Tripulantes /\ pcCons' = "descontar" /\ indice' = 1
        /\ UNCHANGED <<vExp, vRam>>
    BY <1>1, <1>10 DEF ExpQuitarReady, TypeOKExpulsion, EtiquetasExpulsar
  <2>2. caido' \in BOOLEAN /\ lista' \in [Listas -> Seq(Tripulantes)]
    <3>1. /\ indice \in Nat \ {0} /\ lista \in [Listas -> Seq(Tripulantes)]
          /\ lista["cola_ready"] \in Seq(Tripulantes)
      BY <1>1 DEF TypeOK, TipoHilos, TipoListas, Listas
    <3>2. caido' = (indice > Len(lista["cola_ready"]))
      BY <1>10, Zenon DEF ExpQuitarReady
    <3>3. caido' \in BOOLEAN
      BY <3>1, <3>2
    <3>4. CASE caido'
      BY <1>10, <3>1, <3>3, <3>4 DEF ExpQuitarReady
    <3>5. CASE ~caido'
      <4>1. indice \in 1 .. Len(lista["cola_ready"])
        <5>1. ~(indice > Len(lista["cola_ready"]))
          BY <3>2, <3>5
        <5> QED BY <3>1, <5>1
      <4>2. RemoveAt(lista["cola_ready"], indice) \in Seq(Tripulantes)
        BY <3>1, <4>1, SinPosicion
      <4>3. lista' = [lista EXCEPT !["cola_ready"] = RemoveAt(@, indice)]
        BY <1>10, <3>5 DEF ExpQuitarReady
      <4> QED BY <3>1, <3>3, <4>2, <4>3
    <3> QED BY <3>4, <3>5
  <2>3. TypeOK'
    BY <1>1, <1>4, <1>10, <2>1, <2>2 DEF ExpQuitarReady, TypeOK, TipoSemaforos,
       TipoTripulantes, EtiquetasConsola, EtiquetasExpulsar
  <2> QED BY <1>3, <2>1, <2>3 DEF Tipado, TypeOKExpulsion, vExp, vRam
<1>11. CASE ExpSinTripulantes
  <2>1. TypeOK'
    BY <1>1, <1>4, <1>11 DEF ExpSinTripulantes, vSem, TypeOK, TipoSemaforos, TipoListas,
       TipoTripulantes, TipoHilos
  <2> QED BY <1>3, <1>11, <2>1 DEF ExpSinTripulantes, Tipado, TypeOKExpulsion, vExp, vRam
<1>12. CASE ExpDescontar
  <2>1. sem' \in [Semaforos -> Nat]
    BY <1>1, <1>12 DEF ExpDescontar, Wait, Restar, Semaforos, TypeOK, TipoSemaforos
  <2>2. TypeOK'
    BY <1>1, <1>4, <1>12, <2>1 DEF ExpDescontar, TypeOK, TipoSemaforos, TipoListas,
       TipoTripulantes, TipoHilos, EtiquetasConsola, EtiquetasExpulsar
  <2> QED BY <1>3, <1>12, <2>2 DEF ExpDescontar, Tipado, TypeOKExpulsion, EtiquetasExpulsar, vExp, vRam
<1>13. CASE ExpSacarRunning
  <2>1. /\ victima \in Tripulantes /\ pcCons' = "liberar" /\ UNCHANGED <<vExp, vRam>>
        /\ quitar_running(victima)
    BY <1>1, <1>13 DEF ExpSacarRunning, TypeOKExpulsion, EtiquetasExpulsar
  <2>2. /\ lista' \in [Listas -> Seq(Tripulantes)] /\ caido' \in BOOLEAN
        /\ sem' \in [Semaforos -> Nat]
    BY <1>1, <2>1, QuitarRunning
  <2>3. TypeOK'
    <3>1. pcCons' \in EtiquetasConsola
      BY <2>1 DEF EtiquetasConsola, EtiquetasExpulsar
    <3>2. UNCHANGED <<sem_running, sem_blocked, continuar, indice>>
      BY <1>13 DEF ExpSacarRunning
    <3>3. sem_running' \in [Tripulantes -> Nat] /\ sem_blocked' \in [Tripulantes -> Nat]
      BY <1>1, <3>2 DEF TypeOK, TipoSemaforos
    <3>4. continuar' \in [Tripulantes -> BOOLEAN] /\ indice' \in Nat \ {0}
      BY <1>1, <3>2 DEF TypeOK, TipoTripulantes, TipoHilos
    <3> QED BY <1>4, <2>2, <3>1, <3>3, <3>4
  <2> QED BY <1>3, <2>1, <2>3 DEF Tipado, TypeOKExpulsion, vExp, vRam
<1>14. CASE ExpLiberar
  <2>1. /\ victima' = Nadie /\ liberados' = liberados \union {victima}
        /\ pcCons' = "leer" /\ UNCHANGED vRam /\ victima \in sordos
    BY <1>1, <1>14 DEF ExpLiberar, Tipado, TypeOKExpulsion, EtiquetasExpulsar
  <2>2. TypeOK'
    BY <1>1, <1>4, <1>14 DEF ExpLiberar, TypeOK, TipoSemaforos, TipoListas, TipoTripulantes,
       TipoHilos, EtiquetasConsola, EtiquetasExpulsar
  <2>3. pcCons' \notin EtiquetasExpulsar /\ liberados' \subseteq sordos' /\ victima' \notin Tripulantes
    BY <1>1, <2>1, ConstantesValidas DEF EtiquetasExpulsar, TypeOKExpulsion, vRam
  <2>4. /\ sordos' \subseteq Tripulantes
        /\ esperan' \subseteq sordos' \X {"tripulante", "planificador"}
    BY <1>1, <2>1 DEF TypeOKExpulsion, vRam
  <2> QED BY <1>3, <2>1, <2>2, <2>3, <2>4 DEF Tipado, TypeOKExpulsion
<1> QED BY <1>5, <1>6, <1>7, <1>8, <1>9, <1>10, <1>11, <1>12, <1>13, <1>14
        DEF expulsar_tripulante

-----------------------------------------------------------------------------
(* The places of the trips: what a step does to the ones it does not move *)

\* What the lemmas about lists ask for.
LEMMA ListasEnOrden ==
  ASSUME Tipado, EnOrden
  PROVE  TypeOK /\ UnLugar /\ \A t \in Tripulantes : Firme(t) /\ Puesto(t) /\ Rotulo(t) /\ Tanda(t)
<1>1. TypeOK /\ \A t \in Tripulantes : Firme(t) /\ Puesto(t) /\ Rotulo(t) /\ Tanda(t)
  BY DEF Tipado, TypeOKExpulsion, EnOrden, Firme
<1>2. ASSUME NEW l \in Listas PROVE ~EstaEn(elegido, l)
  <2>1. CASE elegido \in Tripulantes
    BY <1>1, <2>1 DEF Puesto
  <2>2. CASE elegido = Nadie
    <3>1. lista[l] \in Seq(Tripulantes)
      BY <1>1 DEF TypeOK, TipoListas
    <3> QED BY <2>2, <3>1, ConstantesValidas DEF EstaEn, ToSet
  <2> QED BY <1>1, <2>1, <2>2 DEF TypeOK, TipoHilos
<1> QED BY <1>1, <1>2 DEF UnLugar, Puesto, EnOrden

\* Taking an element out at its place is taking it out.
LEMMA SacarDeSuLugar ==
  ASSUME NEW s \in Seq(Tripulantes), IsInjective(s), NEW i \in 1 .. Len(s)
  PROVE  RemoveFirst(s, s[i]) = RemoveAt(s, i) /\ s[i] \in ToSet(s)
<1> DEFINE I == {j \in 1 .. Len(s) : s[j] = s[i]}
<1>1. I = {i}
  BY DEF IsInjective
<1>2. Min(I) = i
  BY <1>1, MinimoExiste
<1>3. RemoveFirst(s, s[i]) = RemoveAt(s, Min(I))
  BY <1>1 DEF RemoveFirst, SelectInSeq
<1> QED BY <1>2, <1>3 DEF ToSet

\* So an expelled trip that found itself in cola_blocked leaves it, as quitar does with the
\* mutex of the list.
LEMMA SacarHallado ==
  ASSUME Tipado, EnOrden, NEW t \in Tripulantes, SacarBlocked(t)
  PROVE  quitar(t, "cola_blocked") /\ EstaEn(t, "cola_blocked") /\ ~caido'
<1> DEFINE s == lista["cola_blocked"]
           i == restan[t] + 1
<1>1. s \in Seq(Tripulantes) /\ IsInjective(s) /\ restan[t] \in Nat
  BY ListasEnOrden DEF UnLugar, TypeOK, TipoListas, TipoTripulantes, Listas
<1>2. i \in 1 .. Len(s) /\ s[i] = t
  BY DEF SacarBlocked, EnOrden, Busqueda, Hallazgo
<1>3. RemoveFirst(s, t) = RemoveAt(s, i) /\ t \in ToSet(s)
  BY <1>1, <1>2, SacarDeSuLugar
<1>4. caido' = (restan[t] >= Len(s))
  BY Zenon DEF SacarBlocked
<1>7. (restan[t] >= Len(s)) = FALSE
  BY <1>1, <1>2
<1>5. caido' = FALSE
  BY <1>4, <1>7
<1>6. lista' = [lista EXCEPT !["cola_blocked"] = RemoveAt(s, i)]
  BY <1>5 DEF SacarBlocked
<1> QED BY <1>3, <1>5, <1>6 DEF quitar, EstaEn

\* The console takes out of cola_ready the trip it found, as quitar does with the mutex.
LEMMA QuitarHallado ==
  ASSUME Tipado, EnOrden, ExpQuitarReady
  PROVE  quitar(victima, "cola_ready") /\ EstaEn(victima, "cola_ready") /\ ~caido'
<1> DEFINE s == lista["cola_ready"]
<1>1. s \in Seq(Tripulantes) /\ IsInjective(s) /\ indice \in Nat
  BY ListasEnOrden DEF UnLugar, TypeOK, TipoListas, TipoHilos, Listas
<1>2. indice \in 1 .. Len(s) /\ s[indice] = victima
  BY DEF ExpQuitarReady, EnOrden, BusquedaConsola, Hallazgo
<1>3. RemoveFirst(s, victima) = RemoveAt(s, indice) /\ victima \in ToSet(s)
  BY <1>1, <1>2, SacarDeSuLugar
<1>4. caido' = (indice > Len(s))
  BY Zenon DEF ExpQuitarReady
<1>7. (indice > Len(s)) = FALSE
  BY <1>1, <1>2
<1>5. caido' = FALSE
  BY <1>4, <1>7
<1>6. lista' = [lista EXCEPT !["cola_ready"] = RemoveAt(s, indice)]
  BY <1>5 DEF ExpQuitarReady
<1> QED BY <1>3, <1>5, <1>6 DEF quitar, EstaEn

\* A trip stays where it is while a step touches nothing of it; that it is expelled
\* takes promises away from it, and that it leaves a list too.
LEMMA Queda ==
  ASSUME NEW t \in Tripulantes, Firme(t),
         pc'[t] = pc[t], tarea'[t] = tarea[t], estado'[t] = estado[t],
         ~continuar'[t] \/ (continuar'[t] = continuar[t] /\ sem_blocked'[t] = sem_blocked[t]),
         \A l \in Listas : EstaEn(t, l)' => EstaEn(t, l),
         elegido' = t <=> elegido = t, elegido = t => pcPlan' = pcPlan,
         trip_block' = t <=> trip_block = t,
         trip_block = t /\ pcIO' = "avisar" => pcIO = "avisar"
  PROVE  Firme(t)'
<1>1. Ausente(t) => Ausente(t)'
  BY DEF Ausente
<1>2. Puesto(t)'
  BY <1>1 DEF Firme, Puesto, EnViaje, Viaja
<1>3. Rotulo(t)'
  BY DEF Firme, Rotulo, Listas
<1>4. Tanda(t)'
  BY <1>1 DEF Firme, Tanda, Listas
<1> QED BY <1>2, <1>3, <1>4 DEF Firme

\* A step of a trip that enters or leaves a list.
LEMMA OtrasListas ==
  ASSUME Tipado, EnOrden, NEW t \in Tripulantes, Tripulante(t)
  PROVE  /\ \A l \in Listas : IsInjective(lista'[l])
         /\ \A u \in Tripulantes \ {t} : \A l \in Listas : EstaEn(u, l)' <=> EstaEn(u, l)
<1>1. TypeOK /\ UnLugar /\ Puesto(t)
  BY ListasEnOrden
<1>2. CASE EncolarReady(t) \/ EncolarBlocked(t)
  <2>1. PICK m \in Listas : Encolar(t, m)
    BY <1>2 DEF EncolarReady, EncolarBlocked, Listas
  <2>2. Ausente(t)
    BY <1>1, <1>2 DEF EncolarReady, EncolarBlocked, Puesto, EnViaje, Viaja, EnTransito, Antes
  <2> QED BY <1>1, <2>1, <2>2, Entra DEF Ausente
<1>3. CASE DejarPorQuantum(t) \/ DejarPorIO(t) \/ Finalizar(t)
  <2>1. quitar(t, "tripulantes_running")
    BY <1>3 DEF DejarPorQuantum, DejarPorIO, Finalizar, quitar_running
  <2> QED BY <1>1, <2>1, Sale DEF Listas
<1>4. CASE SacarBlocked(t)
  BY <1>1, <1>4, SacarHallado, Sale DEF Listas
<1>5. CASE lista' = lista
  BY <1>1, <1>5 DEF UnLugar, EstaEn
<1>6. \/ EncolarReady(t) \/ EncolarBlocked(t)
      \/ DejarPorQuantum(t) \/ DejarPorIO(t) \/ Finalizar(t)
      \/ SacarBlocked(t) \/ lista' = lista
  BY DEF Tripulante, SolicitarTarea, PasarAReady, EsperarRunning, MirarPausa, EjecutarCiclo,
     MirarEmergencia, Ceder, DejarCiclo, PasarABlocked, EsperarBlocked, ContinuarIO, BuscarBlocked, SacarBlocked,
     MirarSabotaje, EsperarFinSabotaje, CicloIO, SoltarIO, MirarContinuar, PasarAExit,
     FinalizarExpulsado, vSem
<1> QED BY <1>2, <1>3, <1>4, <1>5, <1>6

\* Only the trip that has the device gives it back.
LEMMA FirmesLosOtros ==
  ASSUME Tipado, EnOrden, NEW t \in Tripulantes, Tripulante(t), NEW u \in Tripulantes, u # t
  PROVE  Firme(u)'
<1>1. TypeOK /\ Firme(u) /\ Tanda(t)
  BY ListasEnOrden
<1>2. /\ elegido' = elegido /\ pcPlan' = pcPlan /\ pcIO' = pcIO /\ continuar' = continuar
  BY DEF Tripulante, vPlan
<1>3. /\ pc'[u] = pc[u] /\ tarea'[u] = tarea[u] /\ estado'[u] = estado[u]
      /\ sem_blocked'[u] = sem_blocked[u]
      /\ trip_block' = trip_block \/ (SoltarIO(t) /\ trip_block' = Nadie)
  BY <1>1 DEF Tripulante, SolicitarTarea, PasarAReady, EncolarReady, EsperarRunning,
     MirarPausa, EjecutarCiclo, DejarPorQuantum, MirarEmergencia, Ceder, DejarCiclo,
     DejarPorIO, PasarABlocked, EncolarBlocked, EsperarBlocked, ContinuarIO, BuscarBlocked, SacarBlocked, MirarSabotaje,
     EsperarFinSabotaje, CicloIO, SoltarIO, MirarContinuar, Finalizar, PasarAExit,
     FinalizarExpulsado, Seguir, Ir, vSem, TypeOK, TipoTripulantes, TipoSemaforos
<1>4. SoltarIO(t) => trip_block = t
  BY <1>1 DEF SoltarIO, Tanda, Usa, Antes, ConDispositivo
<1>5. trip_block' = u <=> trip_block = u
  BY <1>3, <1>4, ConstantesValidas
<1>6. \A l \in Listas : EstaEn(u, l)' => EstaEn(u, l)
  BY OtrasListas
<1> QED BY <1>1, <1>2, <1>3, <1>5, <1>6, Queda

-----------------------------------------------------------------------------
(* The places of the trips: the steps of a trip *)

\* A step that touches no list, sem_blocked or trip_block keeps the place of the trip
\* that takes it, if it starts no journey and neither takes nor leaves the device.
LEMMA FirmeSinListas ==
  ASSUME NEW t \in Tripulantes, Firme(t),
         lista' = lista, elegido' = elegido, pcPlan' = pcPlan, pcIO' = pcIO,
         trip_block' = trip_block, sem_blocked'[t] = sem_blocked[t],
         continuar'[t] = continuar[t],
         estado'[t] = estado[t] \/ Ausente(t), estado'[t] # "EMERGENCY",
         pc[t] # "espera_blocked",
         pc'[t] \notin {"ceder", "espera_emergencia", "espera_blocked"},
         pc'[t] \in {"encolar_inicio", "encolar_quantum", "encolar_io"} => estado'[t] = "READY",
         EnViaje(t)' => Ausente(t),
         pc'[t] \in ConDispositivo <=> pc[t] \in ConDispositivo,
         pc'[t] \in Usa => continuar[t] \/ pc[t] \in Usa,
         pc[t] \in Antes /\ ~continuar[t] => pc'[t] \in Antes,
         pc'[t] = "solicitar" \/ tarea'[t] > 0
  PROVE  Firme(t)'
<1>1. /\ Ausente(t)' <=> Ausente(t)
      /\ \A l \in Listas : EstaEn(t, l)' <=> EstaEn(t, l)
  BY DEF Ausente, EstaEn
<1>2. Puesto(t)'
  BY <1>1 DEF Firme, Puesto
<1>3. Rotulo(t)'
  <2>1. CASE estado'[t] = estado[t]
    BY <1>1, <2>1 DEF Firme, Rotulo, Listas
  <2>2. CASE Ausente(t)
    BY <1>1, <2>2 DEF Rotulo, Ausente, Listas
  <2> QED BY <2>1, <2>2
<1>4. Tanda(t)'
  BY <1>1 DEF Firme, Tanda, Listas
<1> QED BY <1>2, <1>3, <1>4 DEF Firme

\* The steps of a trip that touch nothing but its own data, or a flag.
LEMMA FirmePropio ==
  ASSUME Tipado, EnOrden, NEW t \in Tripulantes, Tripulante(t),
         \/ SolicitarTarea(t) \/ EsperarRunning(t) \/ MirarPausa(t) \/ EjecutarCiclo(t)
         \/ MirarEmergencia(t) \/ DejarCiclo(t) \/ ContinuarIO(t) \/ BuscarBlocked(t)
         \/ MirarSabotaje(t) \/ EsperarFinSabotaje(t) \/ CicloIO(t) \/ MirarContinuar(t)
         \/ PasarAReady(t) \/ PasarABlocked(t) \/ PasarAExit(t)
  PROVE  Firme(t)'
<1>1. TypeOK /\ Firme(t) /\ Puesto(t) /\ Rotulo(t) /\ Tanda(t)
  BY ListasEnOrden
<1> USE DEF TypeOK, TipoTripulantes
<1>2. elegido' = elegido /\ pcPlan' = pcPlan /\ pcIO' = pcIO /\ continuar' = continuar
  BY DEF Tripulante, vPlan
<1>3. lista' = lista /\ trip_block' = trip_block /\ sem_blocked' = sem_blocked
  BY <1>1 DEF SolicitarTarea, EsperarRunning, MirarPausa, EjecutarCiclo, MirarEmergencia,
     DejarCiclo, ContinuarIO, BuscarBlocked, MirarSabotaje, EsperarFinSabotaje, CicloIO,
     MirarContinuar, PasarAReady, PasarABlocked, PasarAExit, vSem, Rotulo
<1>4. /\ estado'[t] = estado[t] \/ EnViaje(t)
      /\ estado'[t] # "EMERGENCY"
      /\ pc[t] # "espera_blocked"
      /\ pc'[t] \notin {"ceder", "espera_emergencia", "espera_blocked"}
      /\ pc'[t] \in {"encolar_inicio", "encolar_quantum", "encolar_io"} => estado'[t] = "READY"
      /\ EnViaje(t)' => EnViaje(t) \/ (ContinuarIO(t) /\ continuar[t])
      /\ pc'[t] \in ConDispositivo <=> pc[t] \in ConDispositivo
      /\ pc'[t] \in Usa => continuar[t] \/ pc[t] \in Usa
      /\ pc[t] \in Antes /\ ~continuar[t] => pc'[t] \in Antes
      /\ pc'[t] = "solicitar" \/ tarea'[t] > 0
  <2> USE <1>1 DEF Puesto, Rotulo, EnViaje, Viaja, EnTransito, ConDispositivo, Usa, Antes
  <2>1. CASE SolicitarTarea(t)
    BY <2>1 DEF SolicitarTarea, Ir
  <2>2. CASE EsperarRunning(t)
    BY <2>2 DEF EsperarRunning, Seguir, Sigue, Ir
  <2>3. CASE MirarPausa(t)
    BY <2>3 DEF MirarPausa, Seguir, Sigue, Ir
  <2>4. CASE EjecutarCiclo(t) \/ CicloIO(t)
    BY <2>4 DEF EjecutarCiclo, CicloIO, Ir
  <2>5. CASE MirarEmergencia(t)
    BY <2>5 DEF MirarEmergencia, Seguir, Sigue, Ir
  <2>6. CASE DejarCiclo(t)
    <3>1. HayTarea(t) => tarea[t] # 0
      BY DEF HayTarea
    <3> QED BY <2>6, <3>1 DEF DejarCiclo, Ir
  <2>7. CASE ContinuarIO(t) \/ BuscarBlocked(t)
    BY <2>7 DEF ContinuarIO, BuscarBlocked, Ir
  <2>8. CASE MirarSabotaje(t) \/ EsperarFinSabotaje(t)
    BY <2>8 DEF MirarSabotaje, EsperarFinSabotaje, Seguir, Sigue, Ir
  <2>9. CASE MirarContinuar(t)
    BY <2>9 DEF MirarContinuar, Seguir, Sigue, Ir
  <2>10. CASE PasarAReady(t)
    BY <2>10 DEF PasarAReady, Seguir, Sigue, Ir
  <2>11. CASE PasarABlocked(t) \/ PasarAExit(t)
    BY <2>11 DEF PasarABlocked, PasarAExit, Ir
  <2> QED BY <2>1, <2>2, <2>3, <2>4, <2>5, <2>6, <2>7, <2>8, <2>9, <2>10, <2>11
<1>5. ContinuarIO(t) /\ continuar[t] => Ausente(t)
  BY <1>1 DEF ContinuarIO, Tanda, ConDispositivo
<1>6. EnViaje(t) => Ausente(t)
  BY <1>1 DEF Puesto
<1> HIDE DEF TypeOK, TipoTripulantes
<1> QED BY <1>1, <1>2, <1>3, <1>4, <1>5, <1>6, FirmeSinListas

\* A trip enters cola_ready or cola_blocked from its journey.
LEMMA FirmeEncolar ==
  ASSUME Tipado, EnOrden, NEW t \in Tripulantes, Tripulante(t),
         EncolarReady(t) \/ EncolarBlocked(t)
  PROVE  Firme(t)'
<1>1. TypeOK /\ UnLugar /\ Puesto(t) /\ Rotulo(t) /\ Tanda(t)
  BY ListasEnOrden
<1>2. /\ elegido' = elegido /\ pcPlan' = pcPlan /\ pcIO' = pcIO /\ estado' = estado
      /\ tarea' = tarea /\ sem_blocked' = sem_blocked /\ trip_block' = trip_block
      /\ continuar' = continuar
  BY DEF Tripulante, vPlan, EncolarReady, EncolarBlocked
<1>3. PICK m \in Listas :
        /\ Encolar(t, m)
        /\ \/ /\ m = "cola_ready" /\ pc'[t] \in EsperaCupo
              /\ pc[t] \in {"encolar_inicio", "encolar_quantum", "encolar_io"}
           \/ /\ m = "cola_blocked" /\ pc'[t] = "espera_blocked"
              /\ pc[t] = "encolar_blocked"
  <2>1. CASE EncolarReady(t)
    BY <1>1, <2>1 DEF EncolarReady, Seguir, Sigue, Ir, EsperaCupo, Listas, TypeOK,
       TipoTripulantes
  <2>2. CASE EncolarBlocked(t)
    BY <1>1, <2>2 DEF EncolarBlocked, Ir, Listas, TypeOK, TipoTripulantes
  <2> QED BY <2>1, <2>2
<1>4. Ausente(t) /\ tarea[t] > 0
  BY <1>1, <1>3 DEF Puesto, EnViaje, Viaja, EnTransito, Antes
<1>5. \A n \in Listas : EstaEn(t, n)' <=> n = m
  BY <1>1, <1>3, <1>4, Entra DEF Ausente
<1>6. trip_block # t /\ elegido # t /\ (continuar[t] => sem_blocked[t] = 0)
  BY <1>1, <1>3, <1>4 DEF Tanda, Ausente, ConDispositivo, TypeOK, TipoSemaforos
<1>7. Puesto(t)'
  BY <1>2, <1>3, <1>4, <1>5, <1>6 DEF Puesto, EnViaje, Viaja, EnTransito, ConDispositivo, EsperaCupo
<1>8. Rotulo(t)'
  BY <1>1, <1>2, <1>3, <1>5, <1>6 DEF Rotulo, EsperaCupo, Listas
<1>9. Tanda(t)'
  BY <1>2, <1>3, <1>5, <1>6 DEF Tanda, EsperaCupo, ConDispositivo, Listas
<1> QED BY <1>7, <1>8, <1>9 DEF Firme

\* A trip leaves running, where if it is not there the process dies, or cola_blocked when
\* it was expelled and found itself there.
LEMMA FirmeDejar ==
  ASSUME Tipado, EnOrden, ~caido', NEW t \in Tripulantes, Tripulante(t),
         \/ DejarPorQuantum(t) \/ DejarPorIO(t) \/ Finalizar(t)
         \/ SacarBlocked(t)
  PROVE  Firme(t)'
<1>1. TypeOK /\ UnLugar /\ Puesto(t) /\ Rotulo(t) /\ Tanda(t)
  BY ListasEnOrden
<1>2. /\ elegido' = elegido /\ pcPlan' = pcPlan /\ pcIO' = pcIO /\ estado' = estado
      /\ tarea' = tarea /\ sem_blocked' = sem_blocked /\ trip_block' = trip_block
      /\ continuar' = continuar
  BY DEF Tripulante, vPlan, DejarPorQuantum, DejarPorIO, Finalizar, SacarBlocked, vSem
<1>3. PICK m \in Listas :
        /\ quitar(t, m)
        /\ \/ pc[t] \in {"quitar_quantum", "ciclo", "fin"} /\ m = "tripulantes_running"
           \/ pc[t] = "sacar_blocked" /\ m = "cola_blocked" /\ ~continuar[t]
        /\ pc'[t] \in {"ready_quantum", "bloquear", "exit", "fin"}
  <2>1. CASE DejarPorQuantum(t) \/ DejarPorIO(t) \/ Finalizar(t)
    BY <1>1, <2>1 DEF DejarPorQuantum, DejarPorIO, Finalizar, quitar_running, Seguir, Sigue, Ir,
       TypeOK, TipoTripulantes, Listas
  <2>2. CASE SacarBlocked(t)
    BY <1>1, <2>2, SacarHallado DEF SacarBlocked, Ir, TypeOK, TipoTripulantes, Listas
  <2> QED BY <2>1, <2>2
<1>4. /\ EstaEn(t, m)
      /\ \A n \in Listas : EstaEn(t, n)' <=> EstaEn(t, n) /\ n # m
  BY <1>1, <1>3, Sale
<1>5. /\ \A n \in Listas : ~EstaEn(t, n)'
      /\ elegido # t /\ tarea[t] > 0
  BY <1>1, <1>3, <1>4 DEF Puesto
<1>6. trip_block # t /\ ~(continuar[t] /\ sem_blocked[t] > 0)
  BY <1>1, <1>3, <1>4 DEF Tanda, Ausente
<1>7. Puesto(t)'
  BY <1>2, <1>5 DEF Puesto, Ausente
<1>8. Rotulo(t)'
  BY <1>1, <1>2, <1>3, <1>5 DEF Rotulo, Listas
<1>9. Tanda(t)'
  BY <1>2, <1>3, <1>5, <1>6 DEF Tanda, Usa, Antes, ConDispositivo, Listas
<1> QED BY <1>7, <1>8, <1>9 DEF Firme

\* A trip takes the device and gives it back, or an expelled one ends.
LEMMA FirmeDispositivo ==
  ASSUME Tipado, EnOrden, NEW t \in Tripulantes, Tripulante(t),
         EsperarBlocked(t) \/ SoltarIO(t) \/ FinalizarExpulsado(t)
  PROVE  Firme(t)'
<1>1. TypeOK /\ Puesto(t) /\ Rotulo(t) /\ Tanda(t)
  BY ListasEnOrden
<1>2. /\ elegido' = elegido /\ pcPlan' = pcPlan /\ pcIO' = pcIO /\ estado' = estado
      /\ tarea' = tarea /\ lista' = lista /\ continuar' = continuar
  BY DEF Tripulante, vPlan, EsperarBlocked, SoltarIO, FinalizarExpulsado
<1>3. /\ Ausente(t)' <=> Ausente(t)
      /\ \A l \in Listas : EstaEn(t, l)' <=> EstaEn(t, l)
  BY <1>2 DEF Ausente, EstaEn
<1>4. CASE EsperarBlocked(t)
  <2>1. /\ pc[t] = "espera_blocked" /\ pc'[t] = "pausa_io" /\ trip_block' = trip_block
        /\ sem_blocked[t] > 0 /\ sem_blocked'[t] = sem_blocked[t] - 1
    BY <1>1, <1>4 DEF EsperarBlocked, Ir, TypeOK, TipoTripulantes, TipoSemaforos
  <2>2. continuar[t] => trip_block = t /\ Ausente(t) /\ pcIO # "avisar" /\ sem_blocked'[t] = 0
    BY <1>1, <2>1 DEF Tanda
  <2>3. Puesto(t)'
    BY <1>1, <1>2, <1>3, <2>1 DEF Puesto, EnViaje, Viaja, Antes
  <2>4. Rotulo(t)'
    BY <1>1, <1>2, <1>3, <2>1 DEF Rotulo, Listas
  <2>5. Tanda(t)'
    BY <1>1, <1>2, <1>3, <2>1, <2>2 DEF Tanda, Ausente, Usa, Antes, ConDispositivo, Listas
  <2> QED BY <2>3, <2>4, <2>5 DEF Firme
<1>5. CASE SoltarIO(t)
  <2>1. /\ pc[t] = "ciclo_io" /\ pc'[t] = "vuelta_io" /\ trip_block' = Nadie
        /\ sem_blocked'[t] = sem_blocked[t]
    BY <1>1, <1>5 DEF SoltarIO, Ir, TypeOK, TipoTripulantes
  <2>2. Ausente(t) /\ Ausente(t)' /\ trip_block' # t /\ ~(continuar[t] /\ sem_blocked[t] > 0)
    BY <1>1, <1>3, <2>1, ConstantesValidas DEF Tanda, Usa, Antes, ConDispositivo
  <2>3. Puesto(t)'
    BY <1>1, <1>2, <1>3, <2>1, <2>2 DEF Puesto
  <2>4. Rotulo(t)'
    BY <1>1, <1>2, <1>3, <2>1 DEF Rotulo, Listas
  <2>5. Tanda(t)'
    BY <1>2, <1>3, <2>1, <2>2 DEF Tanda, Ausente, ConDispositivo, Listas
  <2> QED BY <2>3, <2>4, <2>5 DEF Firme
<1>6. CASE FinalizarExpulsado(t)
  <2>1. pc[t] = "fin" /\ pc'[t] = "terminado" /\ trip_block' = trip_block /\ ~continuar[t]
    BY <1>1, <1>6 DEF FinalizarExpulsado, Ir, TypeOK, TipoTripulantes
  <2>2. trip_block # t /\ ~EstaEn(t, "cola_blocked")
    BY <1>1, <2>1 DEF Tanda, Antes, ConDispositivo
  <2>3. Puesto(t)'
    BY <1>1, <1>2, <1>3, <2>1 DEF Puesto, EnViaje, Viaja
  <2>4. Rotulo(t)'
    BY <1>1, <1>2, <1>3, <2>1 DEF Rotulo, Listas
  <2>5. Tanda(t)'
    BY <1>2, <1>3, <2>1, <2>2 DEF Tanda, ConDispositivo, Listas
  <2> QED BY <2>3, <2>4, <2>5 DEF Firme
<1> QED BY <1>4, <1>5, <1>6

\* Every step of a trip keeps everyone's place, or the process dies.
LEMMA FirmesTripulante ==
  ASSUME Tipado, EnOrden, ~caido', NEW t \in Tripulantes, Tripulante(t)
  PROVE  /\ \A u \in Tripulantes : Firme(u)'
         /\ \A l \in Listas : IsInjective(lista'[l])
<1>1. Rotulo(t)
  BY ListasEnOrden
<1>2. Firme(t)'
  BY <1>1, FirmePropio, FirmeEncolar, FirmeDejar, FirmeDispositivo
     DEF Tripulante, Ceder, Rotulo
<1> QED BY <1>2, FirmesLosOtros, OtrasListas

-----------------------------------------------------------------------------
(* The places of the trips: the planners and the console *)

\* The planner moves a trip from cola_ready to its hands and from there to running.
LEMMA FirmesPlanificador ==
  ASSUME Tipado, EnOrden, ~caido', planificador
  PROVE  /\ \A u \in Tripulantes : Firme(u)'
         /\ \A l \in Listas : IsInjective(lista'[l])
<1>1. TypeOK /\ UnLugar /\ \A u \in Tripulantes : Firme(u) /\ Puesto(u) /\ Rotulo(u) /\ Tanda(u)
  BY ListasEnOrden
<1>2. /\ pc' = pc /\ tarea' = tarea /\ pcIO' = pcIO /\ trip_block' = trip_block
      /\ sem_blocked' = sem_blocked /\ continuar' = continuar
  BY DEF planificador, vTrip
<1>3. ASSUME NEW u \in Tripulantes,
             estado'[u] = estado[u],
             \A l \in Listas : EstaEn(u, l)' => EstaEn(u, l),
             elegido' = u <=> elegido = u, elegido = u => pcPlan' = pcPlan
      PROVE  Firme(u)'
  BY <1>1, <1>2, <1>3, Queda
<1>4. CASE PlanActivar \/ PlanContinuar \/ PlanEsperarReady \/ PlanEsperarCupo
           \/ PlanMirarSabotaje \/ PlanEsperarFinSabotaje \/ PlanHayReady \/ PlanSinReady
  <2>1. lista' = lista /\ elegido' = elegido /\ estado' = estado
    BY <1>4 DEF PlanActivar, PlanContinuar, PlanEsperarReady, PlanEsperarCupo,
       PlanMirarSabotaje, PlanEsperarFinSabotaje, PlanHayReady, PlanSinReady
  <2>2. pcPlan \notin {"pasar_a_running", "encolar_running"}
    BY <1>4 DEF PlanActivar, PlanContinuar, PlanEsperarReady, PlanEsperarCupo,
       PlanMirarSabotaje, PlanEsperarFinSabotaje, PlanHayReady, PlanSinReady
  <2>3. \A u \in Tripulantes : elegido # u
    BY <1>1, <2>2 DEF Rotulo
  <2> QED BY <1>1, <1>3, <2>1, <2>3 DEF EstaEn, UnLugar
<1>5. CASE PlanQuitarReady
  <2>1. /\ lista["cola_ready"] # <<>> /\ "cola_ready" \in Listas
        /\ lista' = [lista EXCEPT !["cola_ready"] = Tail(@)]
        /\ elegido' = Head(lista["cola_ready"])
        /\ pcPlan = "quitar_ready" /\ pcPlan' = "pasar_a_running" /\ estado' = estado
    BY <1>5 DEF PlanQuitarReady, Listas
  <2>2. PICK h : h = Head(lista["cola_ready"])
    OBVIOUS
  <2>3. /\ \A m \in Listas : IsInjective(lista'[m])
        /\ EstaEn(h, "cola_ready") /\ h \in Tripulantes
        /\ \A u, m : m \in Listas =>
             (EstaEn(u, m)' <=> EstaEn(u, m) /\ ~(u = h /\ m = "cola_ready"))
    BY <1>1, <2>1, <2>2, SalePrimero
  <2>4. \A u \in Tripulantes : elegido # u
    BY <1>1, <2>1 DEF Rotulo
  <2>5. \A u \in Tripulantes \ {h} : Firme(u)'
    BY <1>3, <2>1, <2>2, <2>3, <2>4
  <2>6. Firme(h)'
    <3>1. \A n \in Listas : ~EstaEn(h, n)'
      BY <1>1, <2>1, <2>3 DEF Puesto
    <3>2. ~EnViaje(h) /\ trip_block # h
      BY <1>1, <2>1, <2>3 DEF Puesto, Tanda, Ausente
    <3>3. Puesto(h)'
      BY <1>1, <1>2, <2>3, <3>1, <3>2 DEF Puesto, EnViaje, Viaja
    <3>4. Rotulo(h)'
      BY <1>1, <1>2, <2>1, <2>3, <3>1 DEF Rotulo, Listas
    <3>5. Tanda(h)'
      BY <1>1, <1>2, <2>1, <2>3, <3>1, <3>2 DEF Tanda, Listas
    <3> QED BY <3>3, <3>4, <3>5 DEF Firme
  <2> QED BY <2>3, <2>5, <2>6
<1>6. CASE PlanPasarARunning
  <2>1. /\ elegido \in Tripulantes /\ lista' = lista /\ elegido' = elegido
        /\ pcPlan = "pasar_a_running" /\ pcPlan' = "encolar_running"
        /\ estado' = [estado EXCEPT ![elegido] = "RUNNING"]
    BY <1>1, <1>6 DEF PlanPasarARunning, TypeOK, TipoHilos
  <2>2. PICK e \in Tripulantes : e = elegido
    BY <2>1
  <2>3. estado'[e] = "RUNNING" /\ \A u \in Tripulantes \ {e} : estado'[u] = estado[u]
    BY <1>1, <2>1, <2>2 DEF TypeOK, TipoTripulantes
  <2>4. \A u \in Tripulantes \ {e} : Firme(u)'
    BY <1>3, <2>1, <2>2, <2>3 DEF EstaEn
  <2>5. Firme(e)'
    <3>1. /\ \A n \in Listas : ~EstaEn(e, n) /\ ~EstaEn(e, n)'
          /\ ~EnViaje(e) /\ trip_block # e
      BY <1>1, <2>1, <2>2 DEF Puesto, Tanda, Ausente, EstaEn
    <3>2. Puesto(e)'
      BY <1>1, <1>2, <3>1 DEF Puesto, EnViaje, Viaja
    <3>3. Rotulo(e)'
      BY <1>1, <1>2, <2>1, <2>3, <3>1 DEF Rotulo, EnViaje, Viaja, EnTransito, Antes, Listas
    <3>4. Tanda(e)'
      BY <1>1, <1>2, <3>1 DEF Tanda, Listas
    <3> QED BY <3>2, <3>3, <3>4 DEF Firme
  <2> QED BY <1>1, <2>1, <2>4, <2>5 DEF UnLugar
<1>7. CASE PlanEncolarRunning
  <2>1. /\ elegido \in Tripulantes /\ Encolar(elegido, "tripulantes_running")
        /\ elegido' = Nadie /\ pcPlan = "encolar_running" /\ estado' = estado
        /\ "tripulantes_running" \in Listas
    BY <1>1, <1>7 DEF PlanEncolarRunning, TypeOK, TipoHilos, Listas
  <2>2. PICK e \in Tripulantes : e = elegido
    BY <2>1
  <2>3. \A n \in Listas : ~EstaEn(e, n)
    BY <1>1, <2>2 DEF Puesto
  <2>4. /\ \A m \in Listas : IsInjective(lista'[m])
        /\ \A u, m : m \in Listas =>
             (EstaEn(u, m)' <=> EstaEn(u, m) \/ (u = e /\ m = "tripulantes_running"))
    BY <1>1, <2>1, <2>2, <2>3, Entra
  <2>5. \A u \in Tripulantes : elegido' # u
    BY <2>1, ConstantesValidas
  <2>6. \A u \in Tripulantes \ {e} : Firme(u)'
    BY <1>3, <2>1, <2>2, <2>4, <2>5
  <2>7. Firme(e)'
    <3>1. ~EnViaje(e) /\ trip_block # e /\ estado[e] = "RUNNING"
      BY <1>1, <2>1, <2>2 DEF Puesto, Tanda, Ausente, Rotulo
    <3>2. Puesto(e)'
      BY <1>1, <1>2, <2>3, <2>4, <2>5, <3>1 DEF Puesto, EnViaje, Viaja
    <3>3. Rotulo(e)'
      BY <1>1, <1>2, <2>1, <2>3, <2>4, <2>5, <3>1 DEF Rotulo, Listas
    <3>4. Tanda(e)'
      BY <1>1, <1>2, <2>3, <2>4, <3>1 DEF Tanda, Listas
    <3> QED BY <3>2, <3>3, <3>4 DEF Firme
  <2> QED BY <2>4, <2>6, <2>7
<1> QED BY <1>4, <1>5, <1>6, <1>7 DEF planificador

\* The input/output planner takes the first of cola_blocked and tells it.
LEMMA FirmesPlanificadorIO ==
  ASSUME Tipado, EnOrden, ~caido, ~desfasado, ~caido', planificador_io
  PROVE  /\ \A u \in Tripulantes : Firme(u)'
         /\ \A l \in Listas : IsInjective(lista'[l])
<1>1. TypeOK /\ UnLugar /\ \A u \in Tripulantes : Firme(u) /\ Puesto(u) /\ Rotulo(u) /\ Tanda(u)
  BY ListasEnOrden
<1>2. /\ pc' = pc /\ tarea' = tarea /\ pcPlan' = pcPlan /\ elegido' = elegido
      /\ estado' = estado /\ continuar' = continuar
  BY DEF planificador_io, vTrip, vPlan
<1>3. CASE IOEsperarTrip \/ IOEsperarDispositivo
  <2>1. /\ lista' = lista /\ trip_block' = trip_block /\ sem_blocked' = sem_blocked
        /\ pcIO' # "avisar"
    BY <1>3 DEF IOEsperarTrip, IOEsperarDispositivo
  <2>2. \A u \in Tripulantes : Firme(u)'
    BY <1>1, <1>2, <2>1, Queda DEF EstaEn
  <2> QED BY <1>1, <2>1, <2>2 DEF UnLugar
<1>4. CASE IOQuitarBlocked
  <2>1. /\ lista["cola_blocked"] # <<>> /\ "cola_blocked" \in Listas
        /\ lista' = [lista EXCEPT !["cola_blocked"] = Tail(@)]
        /\ trip_block' = Head(lista["cola_blocked"])
        /\ pcIO = "quitar" /\ pcIO' = "avisar" /\ sem_blocked' = sem_blocked
    BY <1>4 DEF IOQuitarBlocked, Listas
  <2>2. PICK h : h = Head(lista["cola_blocked"])
    OBVIOUS
  <2>3. /\ \A m \in Listas : IsInjective(lista'[m])
        /\ EstaEn(h, "cola_blocked") /\ h \in Tripulantes
        /\ \A u, m : m \in Listas =>
             (EstaEn(u, m)' <=> EstaEn(u, m) /\ ~(u = h /\ m = "cola_blocked"))
    BY <1>1, <2>1, <2>2, SalePrimero
  <2>4. trip_block = Nadie
    <3>1. sem["io_disponible"] \in Nat
      BY <1>1 DEF TypeOK, TipoSemaforos, Semaforos
    <3>2. sem["io_disponible"] + Uno(pcIO = "quitar") + Uno(trip_block # Nadie) = 1
      BY DEF EnOrden, DispositivoContado
    <3> QED BY <2>1, <3>1, <3>2 DEF Uno
  <2>5. \A u \in Tripulantes : trip_block # u
    BY <2>4, ConstantesValidas
  <2>6. \A u \in Tripulantes \ {h} : Firme(u)'
    BY <1>1, <1>2, <2>1, <2>2, <2>3, <2>5, Queda
  <2>7. Firme(h)'
    <3>1. /\ \A n \in Listas : ~EstaEn(h, n)'
          /\ elegido # h
      BY <1>1, <2>1, <2>3 DEF Puesto
    <3>2. Puesto(h)'
      BY <1>1, <1>2, <2>3, <3>1 DEF Puesto, Ausente
    <3>3. Rotulo(h)'
      BY <1>1, <1>2, <2>3, <3>1 DEF Rotulo, Listas
    <3>4. Tanda(h)'
      BY <1>1, <1>2, <2>1, <2>2, <2>3, <3>1 DEF Tanda, Ausente, Antes, ConDispositivo, Listas
    <3> QED BY <3>2, <3>3, <3>4 DEF Firme
  <2> QED BY <2>3, <2>6, <2>7
<1>5. CASE IOAvisar
  <2>1. /\ trip_block # Nadie /\ trip_block' = trip_block /\ lista' = lista
        /\ sem_blocked' = [sem_blocked EXCEPT ![trip_block] = @ + 1]
        /\ pcIO = "avisar" /\ pcIO' = "esperar_trip"
    BY <1>5 DEF IOAvisar
  <2>2. PICK h \in Tripulantes : h = trip_block
    BY <1>1, <2>1 DEF TypeOK, TipoListas
  <2>3. /\ sem_blocked'[h] = sem_blocked[h] + 1
        /\ \A u \in Tripulantes \ {h} : sem_blocked'[u] = sem_blocked[u]
    BY <1>1, <2>1, <2>2 DEF TypeOK, TipoSemaforos
  <2>4. \A u \in Tripulantes \ {h} : Firme(u)'
    BY <1>1, <1>2, <2>1, <2>2, <2>3, Queda DEF EstaEn
  <2>5. Firme(h)'
    <3>1. /\ \A n \in Listas : EstaEn(h, n)' <=> EstaEn(h, n)
          /\ Ausente(h) /\ Ausente(h)'
      BY <1>1, <1>2, <2>1, <2>2 DEF Tanda, Ausente, EstaEn
    <3>2. Puesto(h)'
      BY <1>1, <1>2, <3>1 DEF Puesto
    <3>3. Rotulo(h)'
      BY <1>1, <1>2, <3>1 DEF Rotulo, Listas
    <3>4. Tanda(h)'
      BY <1>1, <1>2, <2>1, <2>2, <2>3, <3>1 DEF Tanda, Ausente, Antes, ConDispositivo, Listas
    <3> QED BY <3>2, <3>3, <3>4 DEF Firme
  <2> QED BY <1>1, <2>1, <2>4, <2>5 DEF UnLugar
<1> QED BY <1>3, <1>4, <1>5 DEF planificador_io

\* The orders move no trip; an expulsion takes the trip out of its list, or the
\* process dies.
LEMMA FirmesConsola ==
  ASSUME Tipado, EnOrden, consola \/ expulsar_tripulante
  PROVE  /\ \A u \in Tripulantes : Firme(u)'
         /\ \A l \in Listas : IsInjective(lista'[l])
<1>1. TypeOK /\ UnLugar /\ \A u \in Tripulantes : Firme(u)
  BY ListasEnOrden
<1>2. /\ pc' = pc /\ tarea' = tarea /\ pcPlan' = pcPlan /\ elegido' = elegido
      /\ estado' = estado /\ trip_block' = trip_block /\ pcIO' = pcIO
  BY DEF consola, expulsar_tripulante, vTrip, vPlan
<1>3. ASSUME NEW u \in Tripulantes
      PROVE  ~continuar'[u] \/ (continuar'[u] = continuar[u] /\ sem_blocked'[u] = sem_blocked[u])
  <2>1. CASE ExpMarcar
    <3>1. victima \in Tripulantes
      BY <2>1 DEF ExpMarcar, Tipado, TypeOKExpulsion, EtiquetasExpulsar
    <3>2. /\ continuar' = [continuar EXCEPT ![victima] = FALSE]
          /\ sem_blocked' = [sem_blocked EXCEPT ![victima] = @ + 1]
      BY <2>1 DEF ExpMarcar
    <3>3. continuar \in [Tripulantes -> BOOLEAN] /\ sem_blocked \in [Tripulantes -> Nat]
      BY <1>1 DEF TypeOK, TipoTripulantes, TipoSemaforos
    <3> QED BY <3>1, <3>2, <3>3
  <2>2. ~ExpMarcar => continuar' = continuar /\ sem_blocked' = sem_blocked
    BY DEF consola, expulsar_tripulante, ExpPedir, ExpSinTripulantes, ExpJoin, ExpSacarReady,
       ExpBuscarReady, ExpQuitarReady, ExpDescontar, ExpSacarRunning, ExpLiberar, vSem
  <2> QED BY <2>1, <2>2
<1>4. /\ \A m \in Listas : IsInjective(lista'[m])
      /\ \A u, m : m \in Listas => (EstaEn(u, m)' => EstaEn(u, m))
  <2>1. CASE ExpQuitarReady \/ ExpSacarRunning
    <3>1. PICK m \in Listas : quitar(victima, m)
      BY <2>1, QuitarHallado DEF ExpSacarRunning, quitar_running, Listas
    <3>2. victima \in Tripulantes
      BY <2>1 DEF ExpQuitarReady, ExpSacarRunning, Tipado, TypeOKExpulsion, EtiquetasExpulsar
    <3> QED BY <1>1, <3>1, <3>2, Sale
  <2>2. CASE lista' = lista
    BY <1>1, <2>2 DEF UnLugar, EstaEn
  <2> QED BY <2>1, <2>2 DEF consola, expulsar_tripulante, ExpPedir, ExpSinTripulantes,
          ExpMarcar, ExpJoin, ExpSacarReady, ExpBuscarReady, ExpDescontar, ExpLiberar, vSem
<1>5. \A u \in Tripulantes : Firme(u)'
  BY <1>1, <1>2, <1>3, <1>4, Queda
<1> QED BY <1>4, <1>5

\* A trip that asks a cancelled thread stays where it is.
LEMMA FirmesSordo ==
  ASSUME Tipado, EnOrden, NEW t \in Tripulantes, PedirASordo(t)
  PROVE  /\ \A u \in Tripulantes : Firme(u)'
         /\ \A l \in Listas : IsInjective(lista'[l])
<1>1. TypeOK /\ UnLugar /\ \A u \in Tripulantes : Firme(u) /\ Puesto(u) /\ Rotulo(u) /\ Tanda(u)
  BY ListasEnOrden
<1>2. /\ pc' = pc /\ tarea' = tarea /\ pcPlan' = pcPlan /\ elegido' = elegido
      /\ lista' = lista /\ trip_block' = trip_block /\ pcIO' = pcIO
      /\ continuar' = continuar /\ sem_blocked' = sem_blocked
  BY DEF PedirASordo, vTrip, vPlan, vSem
<1>3. \A u \in Tripulantes : estado'[u] = estado[u] \/ (u = t /\ pc[t] = "exit" /\ estado'[u] = "EXIT")
  BY <1>1 DEF PedirASordo, TypeOK, TipoTripulantes
<1>4. \A u \in Tripulantes : estado'[u] = estado[u] => Firme(u)'
  BY <1>1, <1>2, Queda DEF EstaEn
<1>5. CASE pc[t] = "exit"
  <2>1. Ausente(t)
    BY <1>1, <1>5 DEF Puesto, EnViaje, Viaja, EnTransito, Antes
  <2>2. estado'[t] = "EXIT" => Firme(t)'
    BY <1>1, <1>2, <1>5, <2>1, FirmeSinListas
       DEF EnViaje, Viaja, EnTransito, Usa, Antes, ConDispositivo, Puesto, Rotulo
  <2> QED BY <1>1, <1>2, <1>3, <1>4, <2>2 DEF UnLugar
<1> QED BY <1>1, <1>2, <1>3, <1>4, <1>5 DEF UnLugar

-----------------------------------------------------------------------------
(* The device *)

\* A step that leaves the device alone, on both sides of it.
LEMMA DispositivoQuieto ==
  ASSUME EnOrden, ~caido, ~desfasado, sem'["io_disponible"] = sem["io_disponible"],
         trip_block' = trip_block, pcIO' = "quitar" <=> pcIO = "quitar"
  PROVE  DispositivoContado'
BY DEF EnOrden, DispositivoContado, Uno

\* The trip that gives the device back is the one that trip_block points at.
LEMMA DispositivoTripulante ==
  ASSUME Tipado, EnOrden, ~caido, ~desfasado, NEW t \in Tripulantes, Tripulante(t)
  PROVE  DispositivoContado'
<1>1. TypeOK /\ Tanda(t)
  BY ListasEnOrden
<1>2. /\ pcIO' = pcIO /\ sem \in [Semaforos -> Nat]
      /\ {"io_disponible", "tripulantes_ready", "tripulantes_blocked", "multiprocesamiento",
          "finalizo_sabotaje"} \subseteq Semaforos
  BY <1>1 DEF Tripulante, TypeOK, TipoSemaforos, Semaforos
<1>3. CASE SoltarIO(t)
  <2>1. sem'["io_disponible"] = sem["io_disponible"] + 1 /\ trip_block' = Nadie
    BY <1>2, <1>3 DEF SoltarIO, Post, Sumar
  <2>2. trip_block = t /\ trip_block # Nadie
    BY <1>1, <1>3, ConstantesValidas DEF SoltarIO, Tanda, Usa, Antes, ConDispositivo
  <2>3. sem["io_disponible"] + Uno(pcIO = "quitar") + Uno(trip_block # Nadie) = 1
    BY DEF EnOrden, DispositivoContado
  <2>4. sem["io_disponible"] \in Nat
    BY <1>2
  <2> QED BY <1>2, <2>1, <2>2, <2>3, <2>4 DEF DispositivoContado, Uno
<1>4. CASE ~SoltarIO(t)
  <2>1. trip_block' = trip_block
    BY <1>4 DEF Tripulante, SolicitarTarea, PasarAReady, EncolarReady, EsperarRunning,
       MirarPausa, EjecutarCiclo, DejarPorQuantum, MirarEmergencia, Ceder, DejarCiclo,
       DejarPorIO, PasarABlocked, EncolarBlocked, EsperarBlocked, ContinuarIO, BuscarBlocked, SacarBlocked, MirarSabotaje,
       EsperarFinSabotaje, CicloIO, MirarContinuar, Finalizar, PasarAExit,
       FinalizarExpulsado
  <2>2. CASE EncolarReady(t) \/ EncolarBlocked(t) \/ EsperarFinSabotaje(t) \/ Ceder(t)
             \/ DejarPorQuantum(t) \/ DejarPorIO(t) \/ Finalizar(t)
    BY <1>2, <2>1, <2>2, DispositivoQuieto DEF EncolarReady, EncolarBlocked,
       EsperarFinSabotaje, Ceder, DejarPorQuantum, DejarPorIO, Finalizar, quitar_running,
       Post, Wait, Sumar, Restar
  <2>3. sem' = sem \/ EncolarReady(t) \/ EncolarBlocked(t) \/ EsperarFinSabotaje(t) \/ Ceder(t)
             \/ DejarPorQuantum(t) \/ DejarPorIO(t) \/ Finalizar(t)
    BY <1>4 DEF Tripulante, SolicitarTarea, PasarAReady, EsperarRunning,
       MirarPausa, EjecutarCiclo, MirarEmergencia, DejarCiclo,
       PasarABlocked, EsperarBlocked, ContinuarIO, BuscarBlocked, SacarBlocked, MirarSabotaje,
       CicloIO, MirarContinuar, PasarAExit, FinalizarExpulsado, vSem
  <2> QED BY <1>2, <2>1, <2>2, <2>3, DispositivoQuieto
<1> QED BY <1>3, <1>4

\* The other threads: the input/output planner takes the device and hands it over.
LEMMA DispositivoDeLosOtros ==
  ASSUME Tipado, EnOrden, ~caido, ~desfasado, ~caido',
         planificador \/ planificador_io \/ consola \/ expulsar_tripulante
  PROVE  DispositivoContado'
<1>1. sem \in [Semaforos -> Nat] /\ "io_disponible" \in Semaforos
  BY ListasEnOrden DEF TypeOK, TipoSemaforos, Semaforos
<1>2. CASE planificador
  <2>1. trip_block' = trip_block /\ pcIO' = pcIO
    BY <1>2 DEF planificador
  <2>2. sem'["io_disponible"] = sem["io_disponible"]
    BY <1>1, <1>2 DEF planificador, PlanActivar, PlanContinuar, PlanEsperarReady,
       PlanEsperarCupo, PlanMirarSabotaje, PlanEsperarFinSabotaje, PlanHayReady, PlanSinReady,
       PlanQuitarReady, PlanPasarARunning, PlanEncolarRunning, Post, Wait, Sumar, Restar, vSem
  <2> QED BY <2>1, <2>2, DispositivoQuieto
<1>3. CASE consola
  <2>1. trip_block' = trip_block /\ pcIO' = pcIO
    BY <1>3 DEF consola
  <2>2. sem'["io_disponible"] = sem["io_disponible"]
    BY <1>1, <1>3 DEF consola, iniciar_planificacion, IniciarPlanificacion, Reiniciar,
       TerminarOrden, ReiniciarMirar, ReiniciarPost, ReiniciarMirarBlock, ReiniciarPostBlock,
       ReiniciarMirarSabotaje, pausar_planificacion, Post, Sumar, vSem
  <2> QED BY <2>1, <2>2, DispositivoQuieto
<1>4. CASE expulsar_tripulante
  <2>1. trip_block' = trip_block /\ pcIO' = pcIO
    BY <1>4 DEF expulsar_tripulante
  <2>2. sem'["io_disponible"] = sem["io_disponible"]
    BY <1>1, <1>4 DEF expulsar_tripulante, ExpPedir, ExpSinTripulantes, ExpMarcar, ExpJoin,
       ExpSacarReady, ExpBuscarReady, ExpQuitarReady, ExpDescontar, ExpSacarRunning, ExpLiberar,
       quitar_running, Wait, Sumar, Restar, vSem
  <2> QED BY <2>1, <2>2, DispositivoQuieto
<1>5. CASE planificador_io
  <2>1. sem["io_disponible"] + Uno(pcIO = "quitar") + Uno(trip_block # Nadie) = 1
    BY DEF EnOrden, DispositivoContado
  <2>2. sem["io_disponible"] \in Nat
    BY <1>1
  <2>3. CASE IOEsperarTrip
    BY <1>1, <2>3, DispositivoQuieto DEF IOEsperarTrip, Wait, Restar
  <2>4. CASE IOEsperarDispositivo
    <3>1. /\ sem["io_disponible"] > 0 /\ sem'["io_disponible"] = sem["io_disponible"] - 1
          /\ pcIO = "esperar_io" /\ pcIO' = "quitar" /\ trip_block' = trip_block
      BY <1>1, <2>4 DEF IOEsperarDispositivo, Wait, Restar
    <3> QED BY <2>1, <2>2, <3>1 DEF DispositivoContado, Uno
  <2>5. CASE IOQuitarBlocked
    <3>1. /\ lista["cola_blocked"] # <<>> /\ trip_block' = Head(lista["cola_blocked"])
          /\ sem' = sem /\ pcIO = "quitar" /\ pcIO' = "avisar"
      BY <2>5 DEF IOQuitarBlocked
    <3>2. trip_block' # Nadie
      BY <3>1, ListasEnOrden, ConstantesValidas DEF TypeOK, TipoListas, Listas
    <3> QED BY <2>1, <2>2, <3>1, <3>2 DEF DispositivoContado, Uno
  <2>6. CASE IOAvisar
    BY <1>1, <2>6, DispositivoQuieto DEF IOAvisar
  <2> QED BY <1>5, <2>3, <2>4, <2>5, <2>6 DEF planificador_io
<1> QED BY <1>2, <1>3, <1>4, <1>5

-----------------------------------------------------------------------------
(* What the console and the RAM do to a trip *)

\* A step that leaves the console and the RAM where they were.
LEMMA SigueDespedida ==
  ASSUME NEW u \in Tripulantes, Despedida(u),
         pcCons' = pcCons, victima' = victima, liberados' = liberados, sordos' = sordos,
         pc[u] = "terminado" => pc'[u] = "terminado",
         Sacado(u) => Ausente(u)',
         continuar'[u] = continuar[u],
         <<u, "tripulante">> \in esperan' => u = victima /\ pc'[u] # "terminado",
         <<u, "planificador">> \in esperan' =>
           u = victima /\ elegido' = u /\ pcPlan' = "encolar_running"
  PROVE  Despedida(u)'
BY DEF Despedida, Unido, Sacado

\* A trip at its end takes no step, and one that was not joined is not at its end
\* when it asks for an answer.
LEMMA DespedidasTripulante ==
  ASSUME Tipado, EnOrden, NEW t \in Tripulantes, TripulanteEscuchado(t),
         NEW u \in Tripulantes
  PROVE  Despedida(u)'
<1>1. TypeOK /\ Despedida(u) /\ Despedida(t) /\ Tripulante(t)
  BY ListasEnOrden DEF EnOrden, TripulanteEscuchado
<1>2. /\ pcCons' = pcCons /\ victima' = victima /\ liberados' = liberados /\ sordos' = sordos
      /\ elegido' = elegido /\ pcPlan' = pcPlan /\ continuar' = continuar
      /\ <<t, "tripulante">> \notin esperan
      /\ esperan' = esperan \union
           (IF t \in sordos /\ pc'[t] \in Avisando THEN {<<t, "tripulante">>} ELSE {})
  BY DEF TripulanteEscuchado, Tripulante, vCons, vPlan, vExp
<1>3. pc[t] # "terminado"
  BY <1>1 DEF Tripulante, SolicitarTarea, PasarAReady, EncolarReady, EsperarRunning,
     MirarPausa, EjecutarCiclo, DejarPorQuantum, MirarEmergencia, Ceder, DejarCiclo,
     DejarPorIO, PasarABlocked, EncolarBlocked, EsperarBlocked, ContinuarIO, BuscarBlocked, SacarBlocked, MirarSabotaje,
     EsperarFinSabotaje, CicloIO, SoltarIO, MirarContinuar, Finalizar, PasarAExit,
     FinalizarExpulsado
<1>4. u # t => pc'[u] = pc[u]
  BY <1>1 DEF Tripulante, SolicitarTarea, PasarAReady, EncolarReady, EsperarRunning,
     MirarPausa, EjecutarCiclo, DejarPorQuantum, MirarEmergencia, Ceder, DejarCiclo,
     DejarPorIO, PasarABlocked, EncolarBlocked, EsperarBlocked, ContinuarIO, BuscarBlocked, SacarBlocked, MirarSabotaje,
     EsperarFinSabotaje, CicloIO, SoltarIO, MirarContinuar, Finalizar, PasarAExit,
     FinalizarExpulsado, Seguir, Ir, TypeOK, TipoTripulantes
<1>5. Sacado(u) => Ausente(u)'
  <2>1. SUFFICES ASSUME Sacado(u) PROVE Ausente(u)'
    OBVIOUS
  <2>2. pc[u] = "terminado" /\ Ausente(u)
    BY <1>1, <2>1 DEF Despedida, Sacado, Unido
  <2> QED BY <1>1, <1>2, <1>3, <2>2, OtrasListas DEF Ausente
<1>6. t \in sordos => t = victima
  BY <1>1, <1>3 DEF Despedida, Unido
<1>7. <<u, "tripulante">> \in esperan' => u = victima /\ pc'[u] # "terminado"
  BY <1>1, <1>2, <1>4, <1>6 DEF Despedida, Avisando
<1>8. <<u, "planificador">> \in esperan' =>
        u = victima /\ elegido' = u /\ pcPlan' = "encolar_running"
  BY <1>1, <1>2 DEF Despedida
<1>9. pc[u] = "terminado" => pc'[u] = "terminado"
  BY <1>3, <1>4
<1> QED BY <1>1, <1>2, <1>5, <1>7, <1>8, <1>9, SigueDespedida

\* A trip that waits for a cancelled thread is the one being expelled.
LEMMA DespedidasSordo ==
  ASSUME Tipado, EnOrden, NEW t \in Tripulantes, PedirASordo(t), NEW u \in Tripulantes
  PROVE  Despedida(u)'
<1>1. Despedida(u) /\ Despedida(t)
  BY DEF EnOrden
<1>2. /\ pcCons' = pcCons /\ victima' = victima /\ liberados' = liberados /\ sordos' = sordos
      /\ elegido' = elegido /\ pcPlan' = pcPlan /\ pc' = pc /\ lista' = lista
      /\ continuar' = continuar /\ t \in sordos /\ esperan' = esperan \union {<<t, "tripulante">>}
  BY DEF PedirASordo, vCons, vPlan, vExp, vTrip
<1>3. pc[t] # "terminado" /\ t = victima
  BY <1>1 DEF PedirASordo, PideEnUnPaso, PuedeMoverse, Despedida, Unido
<1>4. Sacado(u) => Ausente(u)'
  BY <1>1, <1>2 DEF Despedida, Ausente, EstaEn
<1> QED BY <1>1, <1>2, <1>3, <1>4, SigueDespedida DEF Despedida

\* The planner does not dispatch a trip that was freed.
LEMMA DespedidasPlanificador ==
  ASSUME Tipado, EnOrden, PlanificadorEscuchado, NEW u \in Tripulantes
  PROVE  Despedida(u)'
<1>1. TypeOK /\ UnLugar /\ Despedida(u) /\ planificador
  BY ListasEnOrden DEF EnOrden, PlanificadorEscuchado
<1>2. /\ pcCons' = pcCons /\ victima' = victima /\ liberados' = liberados /\ sordos' = sordos
      /\ pc' = pc /\ continuar' = continuar /\ <<elegido, "planificador">> \notin esperan
      /\ esperan' = esperan \union
           (IF elegido \in sordos /\ pcPlan = "pasar_a_running"
            THEN {<<elegido, "planificador">>} ELSE {})
  BY DEF PlanificadorEscuchado, planificador, vTrip, vCons, vExp
<1>3. Ausente(u) => Ausente(u)'
  <2>1. SUFFICES ASSUME Ausente(u) PROVE Ausente(u)'
    OBVIOUS
  <2>2. CASE PlanQuitarReady
    <3>1. CASE lista["cola_ready"] = <<>>
      BY <2>1, <2>2, <3>1 DEF PlanQuitarReady, Ausente, EstaEn
    <3>2. CASE lista["cola_ready"] # <<>>
      <4>1. /\ lista' = [lista EXCEPT !["cola_ready"] = Tail(@)] /\ "cola_ready" \in Listas
            /\ elegido' = Head(lista["cola_ready"])
        BY <2>2, <3>2 DEF PlanQuitarReady, Listas
      <4> QED BY <1>1, <2>1, <3>2, <4>1, SalePrimero DEF Ausente
    <3> QED BY <3>1, <3>2
  <2>3. CASE PlanEncolarRunning
    <3>1. /\ elegido \in Tripulantes /\ Encolar(elegido, "tripulantes_running")
          /\ elegido' = Nadie /\ "tripulantes_running" \in Listas
      BY <1>1, <2>3 DEF PlanEncolarRunning, TypeOK, TipoHilos, Listas
    <3>2. ~EstaEn(elegido, "tripulantes_running")
      BY <1>1, <3>1 DEF UnLugar
    <3> QED BY <1>1, <2>1, <3>1, <3>2, Entra, ConstantesValidas DEF Ausente
  <2>4. CASE ~PlanQuitarReady /\ ~PlanEncolarRunning
    <3>1. lista' = lista /\ elegido' = elegido
      BY <1>1, <2>4 DEF planificador, PlanActivar, PlanContinuar, PlanEsperarReady,
         PlanEsperarCupo, PlanMirarSabotaje, PlanEsperarFinSabotaje, PlanHayReady,
         PlanSinReady, PlanPasarARunning
    <3> QED BY <2>1, <3>1 DEF Ausente, EstaEn
  <2> QED BY <2>2, <2>3, <2>4
<1>4. <<u, "planificador">> \in esperan' =>
        u = victima /\ elegido' = u /\ pcPlan' = "encolar_running"
  <2>1. SUFFICES ASSUME <<u, "planificador">> \in esperan'
                 PROVE  u = victima /\ elegido' = u /\ pcPlan' = "encolar_running"
    OBVIOUS
  <2>2. u = elegido /\ u \in sordos /\ pcPlan = "pasar_a_running"
    BY <1>1, <1>2, <2>1 DEF Despedida
  <2>3. u = victima
    BY <1>1, <2>2 DEF Despedida, Sacado, Ausente
  <2>4. PlanPasarARunning
    BY <1>1, <2>2 DEF planificador, PlanActivar, PlanContinuar, PlanEsperarReady,
       PlanEsperarCupo, PlanMirarSabotaje, PlanEsperarFinSabotaje, PlanHayReady,
       PlanSinReady, PlanQuitarReady, PlanEncolarRunning
  <2> QED BY <2>2, <2>3, <2>4 DEF PlanPasarARunning
<1>5. <<u, "tripulante">> \in esperan' => u = victima /\ pc'[u] # "terminado"
  BY <1>1, <1>2 DEF Despedida
<1>6. Sacado(u) => Ausente(u)'
  BY <1>1, <1>3 DEF Despedida
<1> QED BY <1>1, <1>2, <1>4, <1>5, <1>6, SigueDespedida

\* The input/output planner and the orders say nothing to the RAM.
LEMMA DespedidasOrdenes ==
  ASSUME Tipado, EnOrden, planificador_io \/ consola, UNCHANGED <<vExp, vRam>>,
         NEW u \in Tripulantes
  PROVE  Despedida(u)'
<1>1. TypeOK /\ UnLugar /\ Despedida(u)
  BY ListasEnOrden DEF EnOrden
<1>2. /\ victima' = victima /\ liberados' = liberados /\ sordos' = sordos /\ esperan' = esperan
      /\ pc' = pc /\ elegido' = elegido /\ pcPlan' = pcPlan /\ continuar' = continuar
  BY DEF vExp, vRam, planificador_io, consola, vTrip, vPlan
<1>3. Ausente(u) => Ausente(u)'
  <2>1. CASE lista' = lista
    BY <1>2, <2>1 DEF Ausente, EstaEn
  <2>2. CASE IOQuitarBlocked /\ lista["cola_blocked"] # <<>>
    <3>1. lista' = [lista EXCEPT !["cola_blocked"] = Tail(@)] /\ "cola_blocked" \in Listas
      BY <2>2 DEF IOQuitarBlocked, Listas
    <3> QED BY <1>1, <1>2, <2>2, <3>1, SalePrimero DEF Ausente
  <2> QED BY <2>1, <2>2 DEF planificador_io, consola, IOEsperarTrip, IOEsperarDispositivo,
          IOQuitarBlocked, IOAvisar
<1>4. CASE planificador_io
  <2>1. pcCons' = pcCons
    BY <1>4 DEF planificador_io, vCons
  <2> QED BY <1>1, <1>2, <1>3, <2>1, SigueDespedida DEF Despedida
<1>5. CASE consola
  <2>1. pcCons \notin EtiquetasExpulsar
    BY <1>5 DEF EtiquetasExpulsar, consola, iniciar_planificacion, IniciarPlanificacion, NuevaOrden, Reiniciar,
       TerminarOrden, ReiniciarMirar, ReiniciarPost, ReiniciarMirarBlock, ReiniciarPostBlock,
       ReiniciarMirarSabotaje, pausar_planificacion
  <2> QED BY <1>1, <1>2, <1>3, <2>1 DEF Despedida, Unido, Sacado
<1> QED BY <1>4, <1>5

\* The console frees a trip only when its thread has ended and no list has it; if it
\* does not find the trip where its estado says, the process dies.
LEMMA DespedidasExpulsion ==
  ASSUME Tipado, EnOrden, ~caido', expulsar_tripulante, NEW u \in Tripulantes
  PROVE  Despedida(u)'
<1>1. TypeOK /\ UnLugar /\ Despedida(u) /\ Puesto(u) /\ Rotulo(u) /\ Tanda(u)
  BY ListasEnOrden DEF EnOrden
<1>2. pc' = pc /\ elegido' = elegido /\ pcPlan' = pcPlan /\ estado' = estado
  BY DEF expulsar_tripulante, vTrip, vPlan
<1>3. pcCons \in EtiquetasExpulsar => victima \in Tripulantes
  BY DEF Tipado, TypeOKExpulsion
<1>4. CASE \E t \in Tripulantes : ExpPedir(t)
  <2>1. PICK t \in Tripulantes : ExpPedir(t)
    BY <1>4
  <2>2. /\ victima # u /\ t \notin liberados /\ victima' = t /\ sordos' = sordos \union {t}
        /\ pcCons' = "marcar" /\ lista' = lista /\ liberados' = liberados
        /\ esperan' \subseteq esperan \union Avisos(t) /\ continuar' = continuar
    <3>1. pcCons = "leer" /\ "leer" \notin EtiquetasExpulsar
      BY <2>1 DEF ExpPedir, EtiquetasExpulsar
    <3>2. victima # u
      BY <1>1, <3>1 DEF Despedida
    <3> QED BY <2>1, <3>2 DEF ExpPedir
  <2>3. /\ <<u, "tripulante">> \in Avisos(t) => u = t /\ pc[u] # "terminado"
        /\ <<u, "planificador">> \in Avisos(t) =>
             u = t /\ elegido = u /\ pcPlan = "encolar_running"
    BY DEF Avisos, Avisando
  <2>4. /\ <<u, "tripulante">> \notin esperan /\ <<u, "planificador">> \notin esperan
        /\ (u \in sordos <=> u \in liberados)
    BY <1>1, <2>2 DEF Despedida
  <2>5. /\ Unido(u)' => u \in liberados
        /\ Sacado(u)' => u \in liberados
        /\ Ausente(u)' <=> Ausente(u)
    BY <1>2, <2>2 DEF Unido, Sacado, Ausente, EstaEn
  <2>6. u \in liberados => pc[u] = "terminado" /\ Ausente(u)
    BY <1>1 DEF Despedida, Unido, Sacado
  <2>7. ~continuar[u] => u \in liberados
    BY <1>1, <2>2 DEF Despedida
  <2> QED BY <1>2, <2>2, <2>3, <2>4, <2>5, <2>6, <2>7 DEF Despedida, EtiquetasExpulsar
<1>5. CASE ExpMarcar \/ ExpJoin \/ ExpDescontar \/ ExpSacarReady \/ ExpBuscarReady
  <2>1. /\ lista' = lista /\ victima' = victima /\ liberados' = liberados
        /\ sordos' = sordos /\ esperan' = esperan
        /\ \/ pcCons = "marcar" /\ pcCons' = "join"
           \/ pcCons = "join" /\ pcCons' = "sacar" /\ pc[victima] = "terminado"
           \/ /\ pcCons \in {"sacar", "buscar_ready"}
              /\ pcCons' \in {"buscar_ready", "sacar_ready"}
           \/ pcCons = "descontar" /\ pcCons' = "liberar"
    BY <1>5 DEF ExpMarcar, ExpJoin, ExpDescontar, ExpSacarReady, ExpBuscarReady, vExp, vRam
  <2>2. Ausente(u)' <=> Ausente(u)
    BY <1>2, <2>1 DEF Ausente, EstaEn
  <2>3. continuar'[u] = continuar[u] \/ u = victima
    <3>1. CASE ExpMarcar
      BY <1>1, <1>3, <3>1 DEF ExpMarcar, EtiquetasExpulsar, TypeOK, TipoTripulantes
    <3>2. ~ExpMarcar => continuar' = continuar
      BY <1>5 DEF ExpJoin, ExpDescontar, ExpSacarReady, ExpBuscarReady
    <3> QED BY <3>1, <3>2
  <2> QED BY <1>1, <1>2, <2>1, <2>2, <2>3 DEF Despedida, Unido, Sacado, EtiquetasExpulsar
<1>6. CASE ExpQuitarReady \/ ExpSacarRunning
  <2>1. /\ pcCons \in {"sacar", "sacar_ready"} /\ pcCons' \in {"descontar", "liberar"}
        /\ victima' = victima /\ liberados' = liberados /\ sordos' = sordos
        /\ esperan' = esperan /\ victima \in Tripulantes /\ continuar' = continuar
    BY <1>3, <1>6 DEF ExpQuitarReady, ExpSacarRunning, vExp, vRam, EtiquetasExpulsar
  <2>2. PICK m \in Listas : quitar(victima, m)
    BY <1>6, QuitarHallado DEF ExpSacarRunning, quitar_running, Listas
  <2>3. /\ EstaEn(victima, m)
        /\ \A w, n : n \in Listas =>
             (EstaEn(w, n)' <=> EstaEn(w, n) /\ ~(w = victima /\ n = m))
    BY <1>1, <2>1, <2>2, Sale
  <2>4. Ausente(u) => Ausente(u)'
    BY <1>2, <2>3 DEF Ausente
  <2>5. u = victima => Ausente(u)'
    BY <1>1, <1>2, <2>3 DEF Puesto, Ausente
  <2> QED BY <1>1, <1>2, <2>1, <2>4, <2>5 DEF Despedida, Unido, Sacado, EtiquetasExpulsar
<1>7. CASE ExpLiberar
  <2>1. /\ lista' = lista /\ liberados' = liberados \union {victima} /\ victima' = Nadie
        /\ pcCons' = "leer" /\ sordos' = sordos /\ esperan' = esperan
        /\ continuar' = continuar
        /\ \/ pcCons = "liberar"
           \/ pcCons = "sacar" /\ estado[victima] \notin {"READY", "RUNNING"}
    BY <1>7 DEF ExpLiberar, vRam
  <2>2. Ausente(u)' <=> Ausente(u)
    BY <1>2, <2>1 DEF Ausente, EstaEn
  <2>3. u = victima => pc[u] = "terminado" /\ Ausente(u)
    <3>1. SUFFICES ASSUME u = victima PROVE pc[u] = "terminado" /\ Ausente(u)
      OBVIOUS
    <3>2. pc[u] = "terminado"
      BY <1>1, <2>1, <3>1 DEF Despedida, Unido, EtiquetasExpulsar
    <3>3. CASE pcCons = "liberar"
      BY <1>1, <3>1, <3>2, <3>3 DEF Despedida, Sacado
    <3>4. CASE estado[victima] \notin {"READY", "RUNNING"}
      BY <1>1, <3>1, <3>2, <3>4 DEF Rotulo, Tanda, Antes, Ausente, Listas
    <3> QED BY <2>1, <3>2, <3>3, <3>4
  <2>4. <<u, "tripulante">> \notin esperan /\ <<u, "planificador">> \notin esperan
    BY <1>1, <2>3 DEF Despedida, Ausente
  <2>5. u # Nadie
    BY ConstantesValidas
  <2> QED BY <1>1, <1>2, <2>1, <2>2, <2>3, <2>4, <2>5 DEF Despedida, Unido, Sacado
<1>8. ~ExpSinTripulantes
  BY DEF ExpSinTripulantes
<1> QED BY <1>4, <1>5, <1>6, <1>7, <1>8 DEF expulsar_tripulante

-----------------------------------------------------------------------------
(* The walks over the lists *)

\* Who is added at the end is not the one looked for; whoever takes the head shifts the
\* rest, and the place that the walk looks at next must not hold the one looked for.
LEMMA SigueBusqueda ==
  ASSUME NEW s \in Seq(Tripulantes), NEW q, NEW i \in Nat \ {0}, NEW v,
         \/ q = s
         \/ \E u \in Tripulantes \ {v} : q = Append(s, u)
         \/ s # <<>> /\ q = Tail(s) /\ ~(i > 1 /\ i <= Len(s) /\ s[i] = v),
         Pasados(s, i, v)
  PROVE  Pasados(q, i, v)
<1>1. CASE q = s
  BY <1>1
<1>2. CASE \E u \in Tripulantes \ {v} : q = Append(s, u)
  <2>1. PICK u \in Tripulantes \ {v} : q = Append(s, u)
    BY <1>2
  <2>2. \A j \in 1 .. Len(q) : q[j] = IF j <= Len(s) THEN s[j] ELSE u
    BY <2>1
  <2> QED BY <2>1, <2>2 DEF Pasados
<1>3. CASE s # <<>> /\ q = Tail(s) /\ ~(i > 1 /\ i <= Len(s) /\ s[i] = v)
  <2>1. Len(q) = Len(s) - 1 /\ \A j \in 1 .. Len(q) : q[j] = s[j + 1]
    BY <1>3
  <2>2. ASSUME NEW j \in 1 .. i - 1, j <= Len(q)
        PROVE  q[j] # v
    <3>1. q[j] = s[j + 1] /\ j + 1 <= Len(s) /\ i > 1
      BY <2>1, <2>2
    <3>2. CASE j + 1 = i
      BY <1>3, <3>1, <3>2
    <3>3. CASE j + 1 \in 1 .. i - 1
      BY <3>1, <3>3 DEF Pasados
    <3> QED BY <3>2, <3>3
  <2> QED BY <2>2 DEF Pasados
<1> QED BY <1>1, <1>2, <1>3

\* What was found stays at its place unless the head is taken.
LEMMA SigueHallazgo ==
  ASSUME NEW s \in Seq(Tripulantes), NEW q, NEW i, NEW v, Hallazgo(s, i, v),
         q = s \/ \E u \in Tripulantes : q = Append(s, u)
  PROVE  Hallazgo(q, i, v)
BY DEF Hallazgo

\* A trip changes a queue by entering it, or by taking itself out of cola_blocked.
LEMMA ColasTripulante ==
  ASSUME TypeOK, NEW t \in Tripulantes, Tripulante(t)
  PROVE  /\ \/ lista'["cola_ready"] = lista["cola_ready"]
            \/ /\ lista'["cola_ready"] = Append(lista["cola_ready"], t)
               /\ pc[t] # "terminado"
         /\ \/ lista'["cola_blocked"] = lista["cola_blocked"]
            \/ lista'["cola_blocked"] = Append(lista["cola_blocked"], t)
            \/ SacarBlocked(t)
<1>1. lista \in [Listas -> Seq(Tripulantes)]
  BY DEF TypeOK, TipoListas
<1>2. CASE EncolarReady(t) \/ EncolarBlocked(t)
  BY <1>1, <1>2 DEF EncolarReady, EncolarBlocked, Encolar, Listas
<1>3. CASE DejarPorQuantum(t) \/ DejarPorIO(t) \/ Finalizar(t)
  BY <1>1, <1>3 DEF DejarPorQuantum, DejarPorIO, Finalizar, quitar_running, quitar, Listas
<1>4. CASE SacarBlocked(t)
  <2>1. lista' = lista \/ \E q : lista' = [lista EXCEPT !["cola_blocked"] = q]
    BY <1>4 DEF SacarBlocked
  <2> QED BY <1>1, <1>4, <2>1 DEF Listas
<1>5. \/ EncolarReady(t) \/ EncolarBlocked(t)
      \/ DejarPorQuantum(t) \/ DejarPorIO(t) \/ Finalizar(t)
      \/ SacarBlocked(t) \/ lista' = lista
  BY DEF Tripulante, SolicitarTarea, PasarAReady, EsperarRunning, MirarPausa, EjecutarCiclo,
     MirarEmergencia, Ceder, DejarCiclo, PasarABlocked, EsperarBlocked, ContinuarIO,
     BuscarBlocked, MirarSabotaje, EsperarFinSabotaje, CicloIO, SoltarIO, MirarContinuar,
     PasarAExit, FinalizarExpulsado, vSem
<1> QED BY <1>2, <1>3, <1>4, <1>5

\* The walk of an expelled trip stays where it was when the queue grows and the trip stands
\* still.
LEMMA SigueBusquedaDe ==
  ASSUME Tipado, NEW u \in Tripulantes, Busqueda(u),
         pc'[u] = pc[u], restan'[u] = restan[u], ~continuar[u] => ~continuar'[u],
         pc[u] \in {"buscar_blocked", "sacar_blocked"} =>
           \/ lista'["cola_blocked"] = lista["cola_blocked"]
           \/ \E w \in Tripulantes \ {u} :
                lista'["cola_blocked"] = Append(lista["cola_blocked"], w)
  PROVE  Busqueda(u)'
<1>1. lista["cola_blocked"] \in Seq(Tripulantes) /\ restan[u] + 1 \in Nat \ {0}
  BY DEF Tipado, TypeOKExpulsion, TypeOK, TipoListas, TipoTripulantes, Listas
<1>2. CASE pc[u] \in {"buscar_blocked", "sacar_blocked"}
  <2> DEFINE s == lista["cola_blocked"]
             q == lista'["cola_blocked"]
             i == restan[u] + 1
  <2>1. /\ Pasados(s, i, u) => Pasados(q, i, u)
        /\ Hallazgo(s, i, u) => Hallazgo(q, i, u)
    BY <1>1, <1>2, SigueBusqueda, SigueHallazgo
  <2> QED BY <1>2, <2>1 DEF Busqueda
<1>3. CASE pc[u] \notin {"buscar_blocked", "sacar_blocked"}
  BY <1>3 DEF Busqueda
<1> QED BY <1>2, <1>3

\* So does the console's.
LEMMA SigueBusquedaConsola ==
  ASSUME Tipado, BusquedaConsola,
         pcCons' = pcCons, indice' = indice, victima' = victima, esperan \subseteq esperan',
         pcCons \in {"buscar_ready", "sacar_ready"} =>
           /\ \/ lista'["cola_ready"] = lista["cola_ready"]
              \/ \E w \in Tripulantes \ {victima} :
                   lista'["cola_ready"] = Append(lista["cola_ready"], w)
           /\ \/ estado'[victima] = estado[victima]
              \/ <<victima, "planificador">> \in esperan'
  PROVE  BusquedaConsola'
<1>1. lista["cola_ready"] \in Seq(Tripulantes) /\ indice \in Nat \ {0}
  BY DEF Tipado, TypeOKExpulsion, TypeOK, TipoListas, TipoHilos, Listas
<1>2. CASE pcCons \in {"buscar_ready", "sacar_ready"}
  <2> DEFINE s == lista["cola_ready"]
             q == lista'["cola_ready"]
  <2>1. /\ Pasados(s, indice, victima) => Pasados(q, indice, victima)
        /\ Hallazgo(s, indice, victima) => Hallazgo(q, indice, victima)
    BY <1>1, <1>2, SigueBusqueda, SigueHallazgo
  <2> QED BY <1>2, <2>1 DEF BusquedaConsola
<1>3. CASE pcCons \notin {"buscar_ready", "sacar_ready"}
  BY <1>3 DEF BusquedaConsola
<1> QED BY <1>2, <1>3

\* A trip moves its own walk, and only the expelled one has a walk.
LEMMA BusquedasTripulante ==
  ASSUME Tipado, EnOrden, ~caido', NEW t \in Tripulantes, TripulanteEscuchado(t)
  PROVE  BusquedaConsola' /\ \A u \in Tripulantes : Busqueda(u)'
<1>1. /\ TypeOK /\ Tripulante(t) /\ BusquedaConsola
      /\ \A u \in Tripulantes : Despedida(u) /\ Busqueda(u)
  BY ListasEnOrden DEF EnOrden, TripulanteEscuchado
<1>2. /\ continuar' = continuar /\ pcCons' = pcCons /\ indice' = indice /\ victima' = victima
      /\ esperan \subseteq esperan'
  BY DEF TripulanteEscuchado, Tripulante, vCons, vExp
<1>3. pc[t] # "terminado"
  BY <1>1 DEF Tripulante, SolicitarTarea, PasarAReady, EncolarReady, EsperarRunning,
     MirarPausa, EjecutarCiclo, DejarPorQuantum, MirarEmergencia, Ceder, DejarCiclo,
     DejarPorIO, PasarABlocked, EncolarBlocked, EsperarBlocked, ContinuarIO, BuscarBlocked,
     SacarBlocked, MirarSabotaje, EsperarFinSabotaje, CicloIO, SoltarIO, MirarContinuar,
     Finalizar, PasarAExit, FinalizarExpulsado
<1>4. ASSUME NEW u \in Tripulantes \ {t}
      PROVE  pc'[u] = pc[u] /\ restan'[u] = restan[u] /\ estado'[u] = estado[u]
  BY <1>1 DEF Tripulante, SolicitarTarea, PasarAReady, EncolarReady, EsperarRunning,
     MirarPausa, EjecutarCiclo, DejarPorQuantum, MirarEmergencia, Ceder, DejarCiclo,
     DejarPorIO, PasarABlocked, EncolarBlocked, EsperarBlocked, ContinuarIO, BuscarBlocked,
     SacarBlocked, MirarSabotaje, EsperarFinSabotaje, CicloIO, SoltarIO, MirarContinuar,
     Finalizar, PasarAExit, FinalizarExpulsado, Seguir, Ir, vTrip, TypeOK, TipoTripulantes
<1>5. BusquedaConsola'
  <2>1. CASE pcCons \in {"buscar_ready", "sacar_ready"}
    <3>1. victima \in Tripulantes
      BY <2>1 DEF Tipado, TypeOKExpulsion, EtiquetasExpulsar
    <3>2. victima # t
      BY <1>1, <1>3, <2>1, <3>1 DEF Despedida, Unido, EtiquetasExpulsar
    <3> QED BY <1>1, <1>2, <1>4, <3>1, <3>2, ColasTripulante, SigueBusquedaConsola
  <2>2. CASE pcCons \notin {"buscar_ready", "sacar_ready"}
    BY <1>2, <2>2 DEF BusquedaConsola
  <2> QED BY <2>1, <2>2
<1>6. ASSUME NEW u \in Tripulantes \ {t}
      PROVE  Busqueda(u)'
  <2>1. pc[u] \in {"buscar_blocked", "sacar_blocked"} => ~SacarBlocked(t)
    <3>1. SUFFICES ASSUME pc[u] \in {"buscar_blocked", "sacar_blocked"}, SacarBlocked(t)
                   PROVE  FALSE
      OBVIOUS
    <3>2. ~continuar[u] /\ ~continuar[t]
      BY <1>1, <3>1 DEF Busqueda, SacarBlocked
    <3>3. u = victima /\ t = victima
      BY <1>1, <1>3, <3>1, <3>2 DEF Despedida, Unido
    <3> QED BY <3>3
  <2> QED BY <1>1, <1>2, <1>4, <2>1, ColasTripulante, SigueBusquedaDe
<1>7. Busqueda(t)'
  <2>1. CASE ContinuarIO(t)
    <3>1. /\ pc'[t] \in {"sabotaje_io", "buscar_blocked"}
          /\ ~continuar[t] => restan'[t] = 0
          /\ pc'[t] = "buscar_blocked" => ~continuar[t]
      BY <1>1, <2>1 DEF ContinuarIO, Ir, TypeOK, TipoTripulantes
    <3> QED BY <1>2, <3>1 DEF Busqueda, Pasados
  <2>2. CASE BuscarBlocked(t)
    <3> DEFINE s == lista["cola_blocked"]
    <3>1. /\ restan[t] \in Nat /\ s \in Seq(Tripulantes) /\ lista' = lista
          /\ pc[t] = "buscar_blocked" /\ ~continuar[t] /\ ~(restan[t] >= Len(s))
      BY <1>1, <2>2 DEF BuscarBlocked, TypeOK, TipoTripulantes, TipoListas, Listas
    <3>2. Pasados(s, restan[t] + 1, t)
      BY <1>1, <3>1 DEF Busqueda
    <3>3. CASE s[restan[t] + 1] = t
      <4>1. pc'[t] = "sacar_blocked" /\ restan'[t] = restan[t]
        BY <1>1, <2>2, <3>3 DEF BuscarBlocked, Ir, TypeOK, TipoTripulantes
      <4>2. Hallazgo(s, restan[t] + 1, t)
        BY <3>1, <3>3 DEF Hallazgo
      <4> QED BY <1>2, <3>1, <4>1, <4>2 DEF Busqueda
    <3>4. CASE s[restan[t] + 1] # t
      <4>1. pc'[t] = "buscar_blocked" /\ restan'[t] = restan[t] + 1
        BY <1>1, <2>2, <3>1, <3>4 DEF BuscarBlocked, TypeOK, TipoTripulantes
      <4>2. Pasados(s, restan[t] + 2, t)
        BY <3>1, <3>2, <3>4 DEF Pasados
      <4>3. restan'[t] + 1 = restan[t] + 2
        BY <3>1, <4>1
      <4> QED BY <1>2, <3>1, <4>1, <4>2, <4>3 DEF Busqueda
    <3> QED BY <3>3, <3>4
  <2>3. CASE ~ContinuarIO(t) /\ ~BuscarBlocked(t)
    <3>1. pc'[t] \notin {"buscar_blocked", "sacar_blocked"}
      BY <1>1, <2>3 DEF Tripulante, SolicitarTarea, PasarAReady, EncolarReady,
         EsperarRunning, MirarPausa, EjecutarCiclo, DejarPorQuantum, MirarEmergencia, Ceder,
         DejarCiclo, DejarPorIO, PasarABlocked, EncolarBlocked, EsperarBlocked, SacarBlocked,
         MirarSabotaje, EsperarFinSabotaje, CicloIO, SoltarIO, MirarContinuar, Finalizar,
         PasarAExit, FinalizarExpulsado, Seguir, Sigue, Ir, TypeOK, TipoTripulantes
    <3> QED BY <3>1 DEF Busqueda
  <2> QED BY <2>1, <2>2, <2>3
<1> QED BY <1>5, <1>6, <1>7

\* A trip that asks a cancelled thread touches no list.
LEMMA BusquedasSordo ==
  ASSUME Tipado, EnOrden, NEW t \in Tripulantes, PedirASordo(t)
  PROVE  BusquedaConsola' /\ \A u \in Tripulantes : Busqueda(u)'
<1>1. /\ TypeOK /\ BusquedaConsola
      /\ \A u \in Tripulantes : Despedida(u) /\ Busqueda(u)
  BY ListasEnOrden DEF EnOrden
<1>2. /\ UNCHANGED <<pc, restan, continuar, lista, pcCons, indice, victima>>
      /\ esperan \subseteq esperan'
      /\ estado' = IF pc[t] = "exit" THEN [estado EXCEPT ![t] = "EXIT"] ELSE estado
  BY DEF PedirASordo, vTrip, vCons, vExp
<1>3. pcCons \in {"buscar_ready", "sacar_ready"} => estado'[victima] = estado[victima]
  <2>1. SUFFICES ASSUME pcCons \in {"buscar_ready", "sacar_ready"}
                 PROVE  estado'[victima] = estado[victima]
    OBVIOUS
  <2>2. victima \in Tripulantes
    BY <2>1 DEF Tipado, TypeOKExpulsion, EtiquetasExpulsar
  <2>3. pc[victima] = "terminado"
    BY <1>1, <2>1, <2>2 DEF Despedida, Unido, EtiquetasExpulsar
  <2> QED BY <1>1, <1>2, <2>2, <2>3 DEF TypeOK, TipoTripulantes
<1> QED BY <1>1, <1>2, <1>3, SigueBusquedaConsola, SigueBusquedaDe

\* The planner does not take the head of cola_ready from under the console's walk, and
\* the trip that is looked for stays READY, or the planner waits for ever to tell.
LEMMA BusquedasPlanificador ==
  ASSUME Tipado, EnOrden, PlanificadorEscuchado, ~SeDesfasa, ~caido'
  PROVE  BusquedaConsola' /\ \A u \in Tripulantes : Busqueda(u)'
<1>1. /\ TypeOK /\ planificador /\ BusquedaConsola
      /\ \A u \in Tripulantes : Despedida(u) /\ Busqueda(u) /\ Rotulo(u)
  BY ListasEnOrden DEF EnOrden, PlanificadorEscuchado
<1>2. /\ UNCHANGED <<pc, restan, continuar, pcCons, indice, victima>>
      /\ esperan' = esperan \union
           (IF elegido \in sordos /\ pcPlan = "pasar_a_running"
            THEN {<<elegido, "planificador">>} ELSE {})
  BY DEF PlanificadorEscuchado, planificador, vTrip, vCons, vExp
<1>3. lista \in [Listas -> Seq(Tripulantes)]
  BY <1>1 DEF TypeOK, TipoListas
<1>4. lista'["cola_blocked"] = lista["cola_blocked"]
  BY <1>1, <1>3 DEF planificador, PlanActivar, PlanContinuar, PlanEsperarReady,
     PlanEsperarCupo, PlanMirarSabotaje, PlanEsperarFinSabotaje, PlanHayReady, PlanSinReady,
     PlanQuitarReady, PlanPasarARunning, PlanEncolarRunning, Encolar, Listas
<1>5. \A u \in Tripulantes : Busqueda(u)'
  BY <1>1, <1>2, <1>4, SigueBusquedaDe
<1>6. BusquedaConsola'
  <2>1. CASE PlanQuitarReady
    <3>1. /\ pcPlan = "quitar_ready" /\ pcPlan' = "pasar_a_running" /\ estado' = estado
          /\ lista["cola_ready"] # <<>>
          /\ lista' = [lista EXCEPT !["cola_ready"] = Tail(@)]
      BY <2>1 DEF PlanQuitarReady
    <3> DEFINE s == lista["cola_ready"]
    <3>2. s # <<>> /\ lista'["cola_ready"] = Tail(s) /\ s \in Seq(Tripulantes)
          /\ indice \in Nat \ {0}
      BY <1>1, <1>3, <3>1 DEF Listas, TypeOK, TipoHilos
    <3>3. CASE pcCons = "buscar_ready"
      <4>1. ~(indice > 1 /\ indice <= Len(s) /\ s[indice] = victima)
        BY <3>1, <3>3 DEF SeDesfasa, Desfasa
      <4>2. Pasados(s, indice, victima)
        BY <1>1, <3>3 DEF BusquedaConsola
      <4>3. Pasados(Tail(s), indice, victima)
        BY <3>2, <4>1, <4>2, SigueBusqueda
      <4> QED BY <1>1, <1>2, <3>1, <3>2, <3>3, <4>3 DEF BusquedaConsola
    <3>4. pcCons # "sacar_ready"
      BY <3>1 DEF SeDesfasa, Desfasa
    <3>5. CASE pcCons # "buscar_ready"
      BY <1>2, <3>4, <3>5 DEF BusquedaConsola
    <3> QED BY <3>3, <3>5
  <2>2. CASE ~PlanQuitarReady
    <3>1. lista'["cola_ready"] = lista["cola_ready"]
      BY <1>1, <1>3, <2>2 DEF planificador, PlanActivar, PlanContinuar, PlanEsperarReady,
         PlanEsperarCupo, PlanMirarSabotaje, PlanEsperarFinSabotaje, PlanHayReady,
         PlanSinReady, PlanPasarARunning, PlanEncolarRunning, Encolar, Listas
    <3>2. pcCons \in {"buscar_ready", "sacar_ready"} =>
            \/ estado'[victima] = estado[victima]
            \/ <<victima, "planificador">> \in esperan'
      <4>1. SUFFICES ASSUME pcCons \in {"buscar_ready", "sacar_ready"},
                            estado'[victima] # estado[victima]
                     PROVE  <<victima, "planificador">> \in esperan'
        OBVIOUS
      <4>2. victima \in Tripulantes /\ victima \in sordos
        BY <4>1 DEF Tipado, TypeOKExpulsion, EtiquetasExpulsar
      <4>3. PlanPasarARunning
        BY <1>1, <2>2, <4>1 DEF planificador, PlanActivar, PlanContinuar, PlanEsperarReady,
           PlanEsperarCupo, PlanMirarSabotaje, PlanEsperarFinSabotaje, PlanHayReady,
           PlanSinReady, PlanEncolarRunning
      <4>4. pcPlan = "pasar_a_running" /\ elegido = victima
        BY <1>1, <4>1, <4>2, <4>3 DEF PlanPasarARunning, TypeOK, TipoTripulantes
      <4> QED BY <1>2, <4>2, <4>4
    <3> QED BY <1>1, <1>2, <3>1, <3>2, SigueBusquedaConsola
  <2> QED BY <2>1, <2>2
<1> QED BY <1>5, <1>6

\* The input/output planner does not take the head of cola_blocked from under a walk;
\* the orders to start and pause touch no list.
LEMMA BusquedasOrdenes ==
  ASSUME Tipado, EnOrden, planificador_io \/ consola, UNCHANGED <<vExp, vRam>>, ~SeDesfasa,
         ~caido'
  PROVE  BusquedaConsola' /\ \A u \in Tripulantes : Busqueda(u)'
<1>1. /\ TypeOK /\ BusquedaConsola
      /\ \A u \in Tripulantes : Busqueda(u)
  BY ListasEnOrden DEF EnOrden
<1>2. UNCHANGED <<pc, restan, continuar, victima, esperan, estado>>
  BY DEF planificador_io, consola, vTrip, vExp, vRam
<1>3. lista \in [Listas -> Seq(Tripulantes)]
  BY <1>1 DEF TypeOK, TipoListas
<1>4. CASE consola
  <2>1. /\ lista' = lista
        /\ pcCons' \notin {"buscar_ready", "sacar_ready"}
    BY <1>4 DEF consola, iniciar_planificacion, IniciarPlanificacion, NuevaOrden, Reiniciar,
       TerminarOrden, ReiniciarMirar, ReiniciarPost, ReiniciarMirarBlock, ReiniciarPostBlock,
       ReiniciarMirarSabotaje, pausar_planificacion
  <2>2. BusquedaConsola'
    BY <2>1 DEF BusquedaConsola
  <2> QED BY <1>1, <1>2, <2>1, <2>2, SigueBusquedaDe
<1>5. CASE planificador_io
  <2>1. UNCHANGED <<pcCons, indice>> /\ lista'["cola_ready"] = lista["cola_ready"]
    BY <1>3, <1>5 DEF planificador_io, IOEsperarTrip, IOEsperarDispositivo, IOQuitarBlocked,
       IOAvisar, vCons, Listas
  <2>2. BusquedaConsola'
    BY <1>1, <1>2, <2>1, SigueBusquedaConsola
  <2>3. CASE lista' = lista
    BY <1>1, <1>2, <2>2, <2>3, SigueBusquedaDe
  <2>4. CASE IOQuitarBlocked
    <3> DEFINE s == lista["cola_blocked"]
    <3>1. /\ pcIO = "quitar" /\ pcIO' = "avisar" /\ s # <<>>
          /\ lista' = [lista EXCEPT !["cola_blocked"] = Tail(@)]
      BY <2>4 DEF IOQuitarBlocked
    <3>2. lista'["cola_blocked"] = Tail(s) /\ s \in Seq(Tripulantes)
      BY <1>3, <3>1 DEF Listas
    <3>3. ASSUME NEW u \in Tripulantes
          PROVE  Busqueda(u)'
      <4>1. restan[u] \in Nat
        BY <1>1 DEF TypeOK, TipoTripulantes
      <4>2. CASE pc[u] = "buscar_blocked"
        <5>1. ~(restan[u] + 1 > 1 /\ restan[u] + 1 <= Len(s) /\ s[restan[u] + 1] = u)
          BY <3>1, <4>2 DEF SeDesfasa, Desfasa
        <5>2. Pasados(s, restan[u] + 1, u) /\ ~continuar[u]
          BY <1>1, <4>2 DEF Busqueda
        <5>3. Pasados(Tail(s), restan[u] + 1, u)
          <6> DEFINE i == restan[u] + 1
          <6>1. i \in Nat \ {0}
            BY <4>1
          <6>2. s # <<>> /\ ~(i > 1 /\ i <= Len(s) /\ s[i] = u) /\ Pasados(s, i, u)
            BY <3>1, <5>1, <5>2
          <6>3. Pasados(Tail(s), i, u)
            <7> HIDE DEF s, i
            <7> QED BY <3>2, <6>1, <6>2, SigueBusqueda
          <6> QED BY <6>3
        <5> QED BY <1>2, <3>2, <4>2, <5>2, <5>3 DEF Busqueda
      <4>3. pc[u] # "sacar_blocked"
        BY <3>1 DEF SeDesfasa, Desfasa
      <4>4. CASE pc[u] # "buscar_blocked"
        BY <1>2, <4>3, <4>4 DEF Busqueda
      <4> QED BY <4>2, <4>4
    <3> QED BY <2>2, <3>3
  <2> QED BY <1>5, <2>3, <2>4 DEF planificador_io, IOEsperarTrip, IOEsperarDispositivo,
          IOAvisar
<1> QED BY <1>4, <1>5

\* The console moves its own walk.
LEMMA BusquedasExpulsion ==
  ASSUME Tipado, EnOrden, expulsar_tripulante, ~caido'
  PROVE  BusquedaConsola' /\ \A u \in Tripulantes : Busqueda(u)'
<1>1. /\ TypeOK /\ BusquedaConsola
      /\ \A u \in Tripulantes : Busqueda(u)
  BY ListasEnOrden DEF EnOrden
<1>2. UNCHANGED <<pc, restan, estado>>
  BY DEF expulsar_tripulante, vTrip
<1>3. lista \in [Listas -> Seq(Tripulantes)]
  BY <1>1 DEF TypeOK, TipoListas
<1>4. lista'["cola_blocked"] = lista["cola_blocked"]
  BY <1>1, <1>3 DEF expulsar_tripulante, ExpPedir, ExpSinTripulantes, ExpMarcar, ExpJoin,
     ExpSacarReady, ExpBuscarReady, ExpQuitarReady, ExpDescontar, ExpSacarRunning, ExpLiberar,
     quitar_running, quitar, vSem, Listas
<1>5. ASSUME NEW u \in Tripulantes PROVE ~continuar[u] => ~continuar'[u]
  <2>1. CASE ExpMarcar
    <3>1. victima \in Tripulantes /\ continuar' = [continuar EXCEPT ![victima] = FALSE]
      BY <2>1 DEF ExpMarcar, Tipado, TypeOKExpulsion, EtiquetasExpulsar
    <3> QED BY <1>1, <3>1 DEF TypeOK, TipoTripulantes
  <2>2. ~ExpMarcar => continuar' = continuar
    BY DEF expulsar_tripulante, ExpPedir, ExpSinTripulantes, ExpJoin, ExpSacarReady,
       ExpBuscarReady, ExpQuitarReady, ExpDescontar, ExpSacarRunning, ExpLiberar
  <2> QED BY <2>1, <2>2
<1>6. \A u \in Tripulantes : Busqueda(u)'
  BY <1>1, <1>2, <1>4, <1>5, SigueBusquedaDe
<1>7. BusquedaConsola'
  <2>1. CASE ExpSacarReady
    <3>1. /\ pcCons' = "buscar_ready" /\ indice' = 1 /\ victima' = victima
          /\ estado[victima] = "READY"
      BY <2>1 DEF ExpSacarReady, vExp
    <3> QED BY <1>2, <3>1 DEF BusquedaConsola, Pasados
  <2>2. CASE ExpBuscarReady
    <3> DEFINE s == lista["cola_ready"]
    <3>1. /\ indice \in Nat \ {0} /\ s \in Seq(Tripulantes) /\ lista' = lista
          /\ pcCons = "buscar_ready" /\ ~(indice > Len(s))
          /\ victima' = victima /\ esperan' = esperan
      BY <1>1, <1>3, <2>2 DEF ExpBuscarReady, vExp, vRam, TypeOK, TipoHilos, Listas
    <3>2. /\ Pasados(s, indice, victima)
          /\ estado[victima] = "READY" \/ <<victima, "planificador">> \in esperan
      BY <1>1, <3>1 DEF BusquedaConsola
    <3>3. CASE s[indice] = victima
      <4>1. pcCons' = "sacar_ready" /\ indice' = indice
        BY <2>2, <3>3 DEF ExpBuscarReady
      <4>2. Hallazgo(s, indice, victima)
        BY <3>1, <3>3 DEF Hallazgo
      <4> QED BY <1>2, <3>1, <3>2, <4>1, <4>2 DEF BusquedaConsola
    <3>4. CASE s[indice] # victima
      <4>1. pcCons' = "buscar_ready" /\ indice' = indice + 1
        BY <2>2, <3>1, <3>4 DEF ExpBuscarReady
      <4>2. Pasados(s, indice + 1, victima)
        BY <3>1, <3>2, <3>4 DEF Pasados
      <4> QED BY <1>2, <3>1, <3>2, <4>1, <4>2 DEF BusquedaConsola
    <3> QED BY <3>3, <3>4
  <2>3. CASE ~ExpSacarReady /\ ~ExpBuscarReady
    <3>1. pcCons' \notin {"buscar_ready", "sacar_ready"}
      BY <2>3 DEF expulsar_tripulante, ExpPedir, ExpSinTripulantes, ExpMarcar, ExpJoin,
         ExpQuitarReady, ExpDescontar, ExpSacarRunning, ExpLiberar
    <3> QED BY <3>1 DEF BusquedaConsola
  <2> QED BY <2>1, <2>2, <2>3
<1> QED BY <1>6, <1>7

-----------------------------------------------------------------------------
(* The invariant and what follows from it *)

\* At the start every trip is in order and the console has dismissed nobody.
LEMMA ExpulsionInicial ==
  ASSUME InitExpulsion
  PROVE  IInvExpulsion
<1>1. TypeOK /\ TareaEnIO /\ Ubicados
  BY InvarianteInicial, UbicadosInicial DEF InitExpulsion, IInv
<1>2. /\ \A t \in Tripulantes : pc[t] = "solicitar" /\ tarea[t] = 0 /\ estado[t] = "NEW"
                                /\ sem_blocked[t] = 0
      /\ \A l \in Listas : lista[l] = <<>>
      /\ trip_block = Nadie /\ elegido = Nadie /\ pcIO = "esperar_trip" /\ pcCons = "leer"
      /\ victima = Nadie /\ liberados = {} /\ sordos = {} /\ esperan = {}
      /\ sem["io_disponible"] = 1 /\ desfasado = FALSE
      /\ \A t \in Tripulantes : continuar[t]
  BY DEF InitExpulsion, Init, InitTripulantes, InitPlanificador, InitConsola, Semaforos
<1>3. Tipado
  BY <1>1, <1>2, ConstantesValidas DEF Tipado, TypeOKExpulsion, EtiquetasExpulsar
<1>4. \A t, l : l \in Listas => ~EstaEn(t, l)
  BY <1>2 DEF EstaEn, ToSet
<1>5. ASSUME NEW t \in Tripulantes PROVE Firme(t) /\ Despedida(t) /\ Busqueda(t)
  <2>1. t # Nadie /\ Ausente(t)
    BY <1>2, <1>4, ConstantesValidas DEF Ausente
  <2>2. Puesto(t)
    BY <1>2, <1>4, <2>1 DEF Puesto
  <2>3. Rotulo(t)
    BY <1>2, <1>4, <2>1 DEF Rotulo, Listas
  <2>4. Tanda(t)
    BY <1>2, <1>4, <2>1 DEF Tanda, Listas, ConDispositivo
  <2>5. Despedida(t)
    BY <1>2, <2>1 DEF Despedida, Unido, Sacado
  <2>6. Busqueda(t)
    BY <1>2 DEF Busqueda
  <2> QED BY <2>2, <2>3, <2>4, <2>5, <2>6 DEF Firme
<1>6. DispositivoContado
  BY <1>2 DEF DispositivoContado, Uno
<1>7. \A l \in Listas : IsInjective(lista[l])
  BY <1>1 DEF Ubicados, Lugares, UnLugar
<1>8. BusquedaConsola
  BY <1>2 DEF BusquedaConsola
<1> QED BY <1>3, <1>5, <1>6, <1>7, <1>8 DEF IInvExpulsion, EnOrden

\* Every step of a process that lives keeps the invariant, unless it dies or a planner
\* takes a head from under a walk: then only the types are left.
LEMMA ExpulsionInductiva ==
  ASSUME IInvExpulsion, [NextExpulsion]_varsExpulsion
  PROVE  IInvExpulsion'
<1>1. CASE NextExpulsion
  <2>1. Tipado /\ (~desfasado => EnOrden) /\ ~caido
        /\ desfasado' = (desfasado \/ SeDesfasa)
    BY <1>1 DEF NextExpulsion, IInvExpulsion
  <2>2. Tipado'
    <3>1. desfasado' \in BOOLEAN
      BY <2>1
    <3> QED BY <1>1, <2>1, <3>1, TipoConTripulante, TipoConPlanes, TipoConExpulsion
            DEF NextExpulsion
  <2>3. ASSUME ~caido', ~desfasado' PROVE EnOrden'
    <3>1. EnOrden /\ ~desfasado /\ ~SeDesfasa
      BY <2>1, <2>3
    <3>2. /\ \A u \in Tripulantes : Firme(u)'
          /\ \A l \in Listas : IsInjective(lista'[l])
      BY <1>1, <2>1, <2>3, <3>1, FirmesTripulante, FirmesSordo, FirmesPlanificador,
         FirmesPlanificadorIO, FirmesConsola
         DEF NextExpulsion, TripulanteEscuchado, PlanificadorEscuchado
    <3>3. DispositivoContado'
      <4>1. \A t \in Tripulantes : PedirASordo(t) => DispositivoContado'
        BY <2>1, <3>1, DispositivoQuieto DEF PedirASordo, vSem
      <4> QED BY <1>1, <2>1, <2>3, <3>1, <4>1, DispositivoTripulante, DispositivoDeLosOtros
              DEF NextExpulsion, TripulanteEscuchado, PlanificadorEscuchado
    <3>4. \A u \in Tripulantes : Despedida(u)'
      BY <1>1, <2>1, <2>3, <3>1, DespedidasTripulante, DespedidasSordo,
         DespedidasPlanificador, DespedidasOrdenes, DespedidasExpulsion DEF NextExpulsion
    <3>5. BusquedaConsola' /\ \A u \in Tripulantes : Busqueda(u)'
      BY <1>1, <2>1, <2>3, <3>1, BusquedasTripulante, BusquedasSordo, BusquedasPlanificador,
         BusquedasOrdenes, BusquedasExpulsion DEF NextExpulsion
    <3> QED BY <3>2, <3>3, <3>4, <3>5 DEF EnOrden
  <2> QED BY <2>2, <2>3 DEF IInvExpulsion
<1>2. CASE UNCHANGED varsExpulsion
  <2>1. /\ UNCHANGED <<sem, sem_running, sem_blocked, lista, trip_block, estado, continuar>>
        /\ UNCHANGED <<continuar_planificacion, hay_sabotaje, pc, tarea, restan>>
        /\ UNCHANGED <<contador_ciclos, pcPlan, elegido, pcIO, pcCons, indice, ordenes, caido>>
        /\ UNCHANGED <<planificacion_inicializada, victima, liberados, sordos, esperan>>
        /\ UNCHANGED desfasado
    BY <1>2 DEF varsExpulsion, vars, vTrip, vPlan, vCons, vSem, vExp, vRam
  <2>2. Tipado' <=> Tipado
    BY <2>1 DEF Tipado, TypeOKExpulsion, TypeOK, TipoSemaforos, TipoListas, TipoTripulantes,
       TipoHilos, TareaEnIO, HayTarea
  <2>3. EnOrden' <=> EnOrden
    <3>1. \A t \in Tripulantes : Firme(t)' <=> Firme(t)
      BY <2>1 DEF Firme, Puesto, EnViaje, Viaja, Ausente, Rotulo, Tanda, EstaEn
    <3>2. \A t \in Tripulantes : Despedida(t)' <=> Despedida(t)
      BY <2>1 DEF Despedida, Unido, Sacado, Ausente, EstaEn
    <3>3. \A t \in Tripulantes : Busqueda(t)' <=> Busqueda(t)
      BY <2>1 DEF Busqueda
    <3>4. BusquedaConsola' <=> BusquedaConsola
      BY <2>1 DEF BusquedaConsola
    <3> QED BY <2>1, <3>1, <3>2, <3>3, <3>4 DEF EnOrden, DispositivoContado
  <2> QED BY <2>1, <2>2, <2>3 DEF IInvExpulsion
<1> QED BY <1>1, <1>2

\* Whatever is ordered and whoever is expelled, the types hold; and while the process
\* lives and no planner took the head of a list from under a walk, every trip is where its
\* estado and its thread say.
THEOREM ExpulsionesEnOrden == SpecExpulsion => []IInvExpulsion
<1>1. InitExpulsion => IInvExpulsion
  BY ExpulsionInicial
<1>2. IInvExpulsion /\ [NextExpulsion]_varsExpulsion => IInvExpulsion'
  BY ExpulsionInductiva
<1> QED BY <1>1, <1>2, PTL DEF SpecExpulsion

\* Every variable of the scheduler and of the expulsion holds a value of its C type,
\* and the console has a trip in its hands whenever it dereferences it.
THEOREM TiposConExpulsion == SpecExpulsion => []TypeOKExpulsion
<1>1. IInvExpulsion => TypeOKExpulsion
  BY DEF IInvExpulsion, Tipado
<1> QED BY <1>1, ExpulsionesEnOrden, PTL

\* A trip that expulsar_tripulante freed is in no list, has not the device and is not
\* being dispatched, for every crew, order and number of expulsions, as long as no planner
\* took the head of a list while quitar walked over it without its mutex.
THEOREM NadieLibreEnListas == SpecExpulsion => []SinColgantes
<1>1. ASSUME IInvExpulsion
      PROVE  SinColgantes
  <2>1. SUFFICES ASSUME ~caido, ~desfasado, NEW t \in liberados
                 PROVE  /\ \A l \in Listas : ~EstaEn(t, l)
                        /\ trip_block # t
                        /\ elegido # t
    BY DEF SinColgantes
  <2>2. Tipado /\ EnOrden /\ t \in Tripulantes
    BY <1>1, <2>1 DEF IInvExpulsion, Tipado, TypeOKExpulsion
  <2>3. Despedida(t) /\ Tanda(t)
    BY <2>2, ListasEnOrden DEF EnOrden
  <2>4. pc[t] = "terminado" /\ Ausente(t)
    BY <2>1, <2>3 DEF Despedida, Unido, Sacado
  <2> QED BY <2>3, <2>4 DEF Tanda, Ausente, ConDispositivo
<1> QED BY <1>1, ExpulsionesEnOrden, PTL

\* The device is free, being given or of the trip that trip_block points at: expelling
\* a trip that waits for it or uses it neither loses it nor hands it to two trips, in the
\* case of SinColgantes.
THEOREM UnSoloDispositivo == SpecExpulsion => []DispositivoContado
<1>1. IInvExpulsion => DispositivoContado
  BY DEF IInvExpulsion, EnOrden, DispositivoContado
<1> QED BY <1>1, ExpulsionesEnOrden, PTL

\* Whoever waits for an answer of a thread that the RAM cancelled waits for the trip
\* that is being expelled: nobody is left waiting for one that was freed, in the case of
\* SinColgantes.
THEOREM NadieEsperaALiberados == SpecExpulsion => []EsperaDeLaVictima
<1>1. ASSUME IInvExpulsion
      PROVE  EsperaDeLaVictima
  <2>1. SUFFICES ASSUME ~caido, ~desfasado, NEW e \in esperan PROVE e[1] = victima
    BY DEF EsperaDeLaVictima
  <2>2. PICK t \in Tripulantes, hilo \in {"tripulante", "planificador"} : e = <<t, hilo>>
    BY <1>1, <2>1 DEF IInvExpulsion, Tipado, TypeOKExpulsion
  <2>3. Despedida(t)
    BY <1>1, <2>1 DEF IInvExpulsion, EnOrden
  <2> QED BY <2>1, <2>2, <2>3 DEF Despedida
<1> QED BY <1>1, ExpulsionesEnOrden, PTL

-----------------------------------------------------------------------------
(* The invariant until a resumption, where the process dies only as explained *)

\* A trip is in the list that its estado names, or between that list and the next;
\* one that waits for the device, or was woken there, is queued for it or has it.
Hallado(t) ==
  /\ estado[t] = "READY" =>
       \/ EstaEn(t, "cola_ready") \/ elegido = t \/ Sacado(t)
       \/ pc[t] \in {"encolar_inicio", "encolar_quantum", "encolar_io"}
  /\ estado[t] = "RUNNING" =>
       \/ EstaEn(t, "tripulantes_running") \/ elegido = t \/ Sacado(t)
       \/ pc[t] \in {"ready_quantum", "bloquear", "exit"}
  /\ pc[t] \in {"espera_blocked"} \union Antes => EstaEn(t, "cola_blocked") \/ trip_block = t
  /\ pc[t] \in Usa => pcIO # "avisar"

\* A trip that was not expelled runs on the planner's post, once for each dispatch.
Despacho(t) ==
  /\ ~continuar[t] => t = victima \/ t \in liberados
  /\ continuar[t] /\ (EstaEn(t, "cola_ready") \/ elegido = t) => pc[t] \in EsperaCupo
  /\ continuar[t] /\ sem_running[t] > 0 =>
       pc[t] \in EsperaCupo /\ sem_running[t] = 1 /\ EstaEn(t, "tripulantes_running")
  /\ continuar[t] /\ Despachado(t) => EstaEn(t, "tripulantes_running")
  /\ pc[t] = "quitar_quantum" => EstaEn(t, "tripulantes_running")

EnRegla ==
  /\ pcCons \in {"leer"} \union EtiquetasExpulsar
  /\ pcIO = "avisar" => trip_block # Nadie
  /\ \A t \in Tripulantes : Hallado(t) /\ Despacho(t)

IInvSinReanudar == IInvExpulsion /\ (~caido /\ ~desfasado => EnRegla) /\ CaidaExplicada

\* A trip is still where it was found.
LEMMA SigueHallado ==
  ASSUME NEW u \in Tripulantes, Hallado(u), estado'[u] = estado[u], pc'[u] = pc[u],
         \A l \in Listas : EstaEn(u, l)' <=> EstaEn(u, l),
         elegido' = u <=> elegido = u, trip_block = u => trip_block' = u,
         pcIO' = "avisar" => pcIO = "avisar" \/ pc[u] \notin Usa,
         Sacado(u) => Sacado(u)'
  PROVE  Hallado(u)'
BY DEF Hallado, Listas

\* And dispatched as it was.
LEMMA SigueDespacho ==
  ASSUME NEW u \in Tripulantes, Despacho(u), pc'[u] = pc[u], tarea'[u] = tarea[u],
         EstaEn(u, "cola_ready")' => EstaEn(u, "cola_ready"),
         pc[u] # "terminado" => (EstaEn(u, "tripulantes_running")' <=> EstaEn(u, "tripulantes_running")),
         elegido' = u => elegido = u \/ EstaEn(u, "cola_ready"),
         ~continuar'[u] \/ (continuar'[u] = continuar[u] /\ sem_running'[u] = sem_running[u]),
         ~continuar'[u] => u = victima' \/ u \in liberados'
  PROVE  Despacho(u)'
BY DEF Despacho, Despachado, EsperaCupo

\* A step of a trip moves no other one.
LEMMA HalladosLosOtros ==
  ASSUME Tipado, EnOrden, EnRegla, NEW t \in Tripulantes, TripulanteEscuchado(t),
         NEW u \in Tripulantes, u # t
  PROVE  Hallado(u)' /\ Despacho(u)'
<1>1. TypeOK /\ Tanda(t) /\ Hallado(u) /\ Despacho(u) /\ Tripulante(t)
  BY ListasEnOrden DEF EnRegla, TripulanteEscuchado
<1>2. /\ elegido' = elegido /\ pcPlan' = pcPlan /\ pcIO' = pcIO /\ continuar' = continuar
      /\ pcCons' = pcCons /\ victima' = victima /\ liberados' = liberados
  BY DEF TripulanteEscuchado, Tripulante, vPlan, vCons, vExp
<1>3. /\ pc'[u] = pc[u] /\ tarea'[u] = tarea[u] /\ estado'[u] = estado[u]
      /\ sem_running'[u] = sem_running[u]
      /\ trip_block' = trip_block \/ SoltarIO(t)
  BY <1>1 DEF Tripulante, SolicitarTarea, PasarAReady, EncolarReady, EsperarRunning,
     MirarPausa, EjecutarCiclo, DejarPorQuantum, MirarEmergencia, Ceder, DejarCiclo,
     DejarPorIO, PasarABlocked, EncolarBlocked, EsperarBlocked, ContinuarIO, BuscarBlocked, SacarBlocked, MirarSabotaje,
     EsperarFinSabotaje, CicloIO, SoltarIO, MirarContinuar, Finalizar, PasarAExit,
     FinalizarExpulsado, Seguir, Ir, vSem, TypeOK, TipoTripulantes, TipoSemaforos
<1>4. SoltarIO(t) => trip_block = t
  BY <1>1 DEF SoltarIO, Tanda, Usa, Antes, ConDispositivo
<1>5. \A l \in Listas : EstaEn(u, l)' <=> EstaEn(u, l)
  BY <1>1, OtrasListas
<1>6. Hallado(u)'
  BY <1>1, <1>2, <1>3, <1>4, <1>5, SigueHallado DEF Sacado
<1>7. Despacho(u)'
  BY <1>1, <1>2, <1>3, <1>5, SigueDespacho DEF Despacho, Listas
<1> QED BY <1>6, <1>7

\* A step of the trip finds it where it left.
LEMMA HalladoPropio ==
  ASSUME Tipado, EnOrden, EnRegla, ~caido', NEW t \in Tripulantes, TripulanteEscuchado(t)
  PROVE  Hallado(t)'
<1>1. /\ TypeOK /\ UnLugar /\ Puesto(t) /\ Rotulo(t) /\ Tanda(t) /\ Hallado(t) /\ Despedida(t)
      /\ Tripulante(t)
  BY ListasEnOrden DEF EnOrden, EnRegla, TripulanteEscuchado
<1>2. /\ elegido' = elegido /\ pcPlan' = pcPlan /\ pcIO' = pcIO /\ continuar' = continuar
      /\ (Sacado(t)' <=> Sacado(t))
  BY DEF TripulanteEscuchado, Tripulante, vPlan, vCons, vExp, Sacado
<1>3. Sacado(t) => pc[t] = "terminado"
  BY <1>1 DEF Despedida, Sacado, Unido
<1>4. CASE /\ lista' = lista /\ estado'[t] = estado[t]
           /\ pc[t] \notin {"encolar_inicio", "encolar_quantum", "encolar_io",
                            "ready_quantum", "bloquear", "exit"}
           /\ pc'[t] \in {"espera_blocked"} \union Antes =>
                pc[t] \in {"espera_blocked"} \union Antes /\ trip_block' = trip_block
           /\ pc'[t] \in Usa => pc[t] \in Usa \/ pcIO # "avisar"
  BY <1>1, <1>2, <1>4 DEF Hallado, EstaEn
<1>5. CASE SolicitarTarea(t) \/ EsperarRunning(t) \/ MirarPausa(t) \/ EjecutarCiclo(t)
  BY <1>1, <1>4, <1>5 DEF SolicitarTarea, EsperarRunning, MirarPausa, EjecutarCiclo, Seguir,
     Sigue, Ir, Antes, Usa, ConDispositivo, TypeOK, TipoTripulantes
<1>6. CASE MirarEmergencia(t) \/ DejarCiclo(t) \/ MirarSabotaje(t) \/ EsperarFinSabotaje(t)
           \/ Ceder(t)
  BY <1>1, <1>4, <1>6 DEF MirarEmergencia, DejarCiclo, MirarSabotaje, EsperarFinSabotaje,
     Ceder, Seguir, Sigue, Ir, Antes, Usa, ConDispositivo, TypeOK, TipoTripulantes
<1>7. CASE CicloIO(t) \/ MirarContinuar(t) \/ EsperarBlocked(t) \/ SoltarIO(t)
           \/ FinalizarExpulsado(t)
  BY <1>1, <1>4, <1>7 DEF CicloIO, MirarContinuar, EsperarBlocked, SoltarIO,
     FinalizarExpulsado, Seguir, Sigue, Ir, Antes, Usa, ConDispositivo, TypeOK, TipoTripulantes
<1>8. CASE ContinuarIO(t) \/ BuscarBlocked(t)
  <2>1. continuar[t] /\ pc[t] = "continuar_io" => pcIO # "avisar"
    BY <1>1 DEF Tanda, ConDispositivo
  <2>2. /\ lista' = lista /\ estado' = estado /\ trip_block' = trip_block
        /\ \/ pc[t] = "continuar_io" /\ continuar[t] /\ pc'[t] = "sabotaje_io"
           \/ /\ pc[t] \in {"continuar_io", "buscar_blocked"}
              /\ pc'[t] \in {"buscar_blocked", "sacar_blocked"}
    BY <1>1, <1>8 DEF ContinuarIO, BuscarBlocked, Ir, TypeOK, TipoTripulantes
  <2> QED BY <1>4, <2>1, <2>2 DEF Antes, Usa, ConDispositivo
<1>9. CASE PasarAReady(t) \/ PasarABlocked(t) \/ PasarAExit(t)
  BY <1>1, <1>9 DEF PasarAReady, PasarABlocked, PasarAExit, Hallado, Seguir, Sigue, Ir, Antes,
     Usa, ConDispositivo, TypeOK, TipoTripulantes
<1>10. CASE EncolarReady(t)
  <2>1. /\ pc[t] \in {"encolar_inicio", "encolar_quantum", "encolar_io"} /\ estado' = estado
        /\ pc'[t] \in EsperaCupo /\ Encolar(t, "cola_ready") /\ "cola_ready" \in Listas
    BY <1>1, <1>10 DEF EncolarReady, Seguir, Sigue, Ir, EsperaCupo, Listas, TypeOK,
       TipoTripulantes
  <2>2. estado[t] = "READY" /\ Ausente(t)
    BY <1>1, <2>1 DEF Rotulo, Puesto, EnViaje, Viaja, EnTransito, Antes
  <2>3. EstaEn(t, "cola_ready")'
    BY <1>1, <2>1, <2>2, Entra DEF Ausente
  <2> QED BY <2>1, <2>2, <2>3 DEF Hallado, EsperaCupo, Antes, Usa, ConDispositivo
<1>11. CASE EncolarBlocked(t)
  <2>1. /\ pc[t] = "encolar_blocked" /\ estado' = estado /\ pc'[t] = "espera_blocked"
        /\ Encolar(t, "cola_blocked") /\ "cola_blocked" \in Listas
    BY <1>1, <1>11 DEF EncolarBlocked, Ir, Listas, TypeOK, TipoTripulantes
  <2>2. Ausente(t)
    BY <1>1, <2>1 DEF Puesto, EnViaje, Viaja, EnTransito, Antes
  <2>3. EstaEn(t, "cola_blocked")'
    BY <1>1, <2>1, <2>2, Entra DEF Ausente
  <2>4. estado[t] \notin {"READY", "RUNNING"}
    BY <1>1, <1>3, <2>1, <2>2 DEF Hallado, Ausente, Listas
  <2> QED BY <2>1, <2>3, <2>4 DEF Hallado, Usa, ConDispositivo
<1>12. CASE \/ DejarPorQuantum(t) \/ DejarPorIO(t) \/ Finalizar(t)
  <2>1. /\ pc'[t] \in {"ready_quantum", "bloquear", "exit"} /\ estado' = estado
        /\ quitar(t, "tripulantes_running") /\ "tripulantes_running" \in Listas
    BY <1>1, <1>12 DEF DejarPorQuantum, DejarPorIO, Finalizar, quitar_running, Seguir, Sigue,
       Ir, Listas, TypeOK, TipoTripulantes
  <2>2. estado[t] = "RUNNING"
    BY <1>1, <2>1, Sale DEF Rotulo
  <2> QED BY <2>1, <2>2 DEF Hallado, Antes, Usa, ConDispositivo
<1>13. CASE SacarBlocked(t)
  <2>1. pc[t] = "sacar_blocked" /\ pc'[t] = "fin" /\ estado' = estado
    BY <1>1, <1>13 DEF SacarBlocked, Ir, TypeOK, TipoTripulantes
  <2>2. EstaEn(t, "cola_blocked") /\ "cola_blocked" \in Listas
    BY <1>13, SacarHallado DEF Listas
  <2>3. estado[t] \notin {"READY", "RUNNING"}
    BY <1>1, <1>3, <2>1, <2>2 DEF Hallado, Puesto, Listas
  <2> QED BY <2>1, <2>3 DEF Hallado, Antes, Usa, ConDispositivo
<1> QED BY <1>1, <1>5, <1>6, <1>7, <1>8, <1>9, <1>10, <1>11, <1>12, <1>13 DEF Tripulante

\* Nobody but the planner makes the trip run.
LEMMA DespachoPropio ==
  ASSUME Tipado, EnOrden, EnRegla, HayTareas, ~caido', NEW t \in Tripulantes,
         TripulanteEscuchado(t)
  PROVE  Despacho(t)'
<1>1. /\ TypeOK /\ UnLugar /\ Puesto(t) /\ Rotulo(t) /\ Tanda(t) /\ Despacho(t)
      /\ Tripulante(t)
  BY ListasEnOrden DEF EnRegla, TripulanteEscuchado
<1>2. /\ elegido' = elegido /\ continuar' = continuar
      /\ victima' = victima /\ liberados' = liberados
  BY DEF TripulanteEscuchado, Tripulante, vPlan, vExp
<1>3. CASE lista' = lista /\ sem_running' = sem_running /\ pc[t] \notin EsperaCupo
           /\ (Despachado(t)' => Despachado(t) \/ ~continuar[t])
           /\ (pc'[t] = "quitar_quantum" => continuar[t] /\ Despachado(t))
  BY <1>1, <1>2, <1>3 DEF Despacho, EstaEn
<1>4. CASE SolicitarTarea(t)
  <2>1. Len(Tareas[t]) \in Nat /\ Len(Tareas[t]) > 0
    <3>1. Tareas[t] \in Seq(Tarea) /\ Tareas[t] # <<>>
      BY ConstantesValidas DEF HayTareas
    <3> QED BY <3>1
  <2>2. tarea[t] \in Nat
    BY <1>1 DEF TypeOK, TipoTripulantes
  <2>3. Despachado(t)' => Despachado(t)
    BY <1>1, <1>4, <2>1, <2>2 DEF SolicitarTarea, Ir, Despachado, TypeOK, TipoTripulantes
  <2>4. pc[t] = "solicitar" /\ pc'[t] # "quitar_quantum"
    BY <1>1, <1>4 DEF SolicitarTarea, Ir, TypeOK, TipoTripulantes
  <2> QED BY <1>3, <1>4, <2>3, <2>4 DEF SolicitarTarea, vSem, EsperaCupo
<1>5. CASE PasarAReady(t)
  BY <1>1, <1>3, <1>5 DEF PasarAReady, Seguir, Ir, Sigue, vSem, EsperaCupo, Despachado,
     TypeOK, TipoTripulantes
<1>6. CASE EncolarReady(t)
  <2>1. Ausente(t) /\ (continuar[t] => sem_running[t] = 0)
    BY <1>1, <1>6 DEF EncolarReady, Puesto, EnViaje, Viaja, EnTransito, Antes, Despacho,
       EsperaCupo, TypeOK, TipoSemaforos
  <2>2. sem_running' = sem_running /\ pc'[t] \in EsperaCupo
    BY <1>1, <1>6 DEF EncolarReady, Seguir, Ir, Sigue, EsperaCupo, TypeOK, TipoTripulantes
  <2> QED BY <1>1, <1>2, <2>1, <2>2 DEF Despacho, EsperaCupo, Despachado
<1>7. CASE EsperarRunning(t)
  <2>1. /\ sem_running[t] > 0 /\ lista' = lista /\ pc'[t] # "quitar_quantum"
        /\ sem_running'[t] = sem_running[t] - 1
    BY <1>1, <1>7 DEF EsperarRunning, Seguir, Sigue, Ir, TypeOK, TipoTripulantes, TipoSemaforos
  <2>2. continuar[t] => /\ EstaEn(t, "tripulantes_running") /\ sem_running'[t] = 0
                        /\ ~EstaEn(t, "cola_ready") /\ elegido # t
    BY <1>1, <2>1 DEF Despacho, UnLugar, Listas
  <2> QED BY <1>1, <1>2, <2>1, <2>2 DEF Despacho, EstaEn
<1>8. CASE MirarPausa(t)
  BY <1>1, <1>3, <1>8 DEF MirarPausa, Seguir, Ir, Sigue, vSem, EsperaCupo, Despachado,
     TypeOK, TipoTripulantes
<1>9. CASE EjecutarCiclo(t) \/ DejarCiclo(t)
  <2>1. HayTarea(t) => tarea[t] > 0
    BY DEF HayTarea
  <2> QED BY <1>1, <1>3, <1>9 DEF EjecutarCiclo, DejarCiclo, Ir, vSem, EsperaCupo,
          Despachado, TypeOK, TipoTripulantes
<1>10. CASE MirarEmergencia(t)
  BY <1>1, <1>3, <1>10 DEF MirarEmergencia, Rotulo, Seguir, Ir, Sigue, EsperaCupo,
     Despachado, TypeOK, TipoTripulantes
<1>11. CASE DejarPorQuantum(t) \/ DejarPorIO(t) \/ Finalizar(t)
  <2>1. /\ quitar(t, "tripulantes_running") /\ sem_running' = sem_running
        /\ pc[t] \in {"quitar_quantum", "ciclo", "fin"}
        /\ pc'[t] \in {"ready_quantum", "bloquear", "exit"}
    BY <1>1, <1>11 DEF DejarPorQuantum, DejarPorIO, Finalizar, quitar_running, Seguir, Ir,
       Sigue, TypeOK, TipoTripulantes
  <2>2. (continuar[t] => sem_running[t] = 0) /\ ~EstaEn(t, "cola_ready")' /\ elegido # t
    BY <1>1, <2>1, Sale DEF Despacho, Puesto, EsperaCupo, TypeOK, TipoSemaforos, Listas
  <2> QED BY <1>1, <1>2, <2>1, <2>2 DEF Despacho, Despachado
<1>12. CASE EncolarBlocked(t)
  <2>1. Ausente(t) /\ (continuar[t] => sem_running[t] = 0)
    BY <1>1, <1>12 DEF EncolarBlocked, Puesto, EnViaje, Viaja, EnTransito, Antes, Despacho,
       EsperaCupo, TypeOK, TipoSemaforos
  <2>2. /\ sem_running' = sem_running /\ pc'[t] = "espera_blocked"
        /\ Encolar(t, "cola_blocked")
    BY <1>1, <1>12 DEF EncolarBlocked, Ir, TypeOK, TipoTripulantes
  <2>3. ~EstaEn(t, "cola_ready")'
    BY <1>1, <2>1, <2>2, Entra DEF Ausente, Listas
  <2> QED BY <1>1, <1>2, <2>1, <2>2, <2>3 DEF Despacho, Despachado, Ausente
<1>13. CASE PasarABlocked(t) \/ EsperarBlocked(t) \/ ContinuarIO(t)
            \/ CicloIO(t) \/ SoltarIO(t) \/ PasarAExit(t) \/ FinalizarExpulsado(t)
  BY <1>1, <1>3, <1>13 DEF PasarABlocked, EsperarBlocked, ContinuarIO, CicloIO, SoltarIO,
     PasarAExit, FinalizarExpulsado, Ir, vSem, EsperaCupo, Despachado, TypeOK, TipoTripulantes
<1>14. CASE MirarSabotaje(t) \/ EsperarFinSabotaje(t)
  BY <1>1, <1>3, <1>14 DEF MirarSabotaje, EsperarFinSabotaje, Seguir, Ir, Sigue, vSem,
     EsperaCupo, Despachado, TypeOK, TipoTripulantes
<1>15. CASE MirarContinuar(t)
  BY <1>1, <1>3, <1>15 DEF MirarContinuar, Puesto, Seguir, Ir, Sigue, vSem,
     EsperaCupo, Despachado, TypeOK, TipoTripulantes
<1>16. CASE BuscarBlocked(t) \/ SacarBlocked(t)
  <2>1. pc'[t] # "quitar_quantum" /\ ~continuar'[t]
    BY <1>1, <1>2, <1>16 DEF BuscarBlocked, SacarBlocked, Ir, TypeOK, TipoTripulantes
  <2> QED BY <1>1, <1>2, <2>1 DEF Despacho
<1>17. ~Ceder(t)
  BY <1>1 DEF Ceder, Rotulo
<1> QED BY <1>1, <1>4, <1>5, <1>6, <1>7, <1>8, <1>9, <1>10, <1>11, <1>12, <1>13, <1>14, <1>15,
        <1>16, <1>17 DEF Tripulante

\* A walk that passed the whole list without finding v shows that v is not there.
LEMMA NoEsta ==
  ASSUME NEW s \in Seq(Tripulantes), NEW v, NEW i \in Nat, i > Len(s), Pasados(s, i, v)
  PROVE  v \notin ToSet(s)
<1>1. ASSUME NEW j \in 1 .. Len(s) PROVE s[j] # v
  <2>1. j \in 1 .. i - 1 /\ j <= Len(s)
    OBVIOUS
  <2> QED BY <2>1 DEF Pasados
<1> QED BY <1>1 DEF ToSet

\* A trip makes the process die only if it was expelled, and woken in cola_ready or in
\* its wait for a device that it was about to be given.
LEMMA CaidaPropia ==
  ASSUME Tipado, EnOrden, EnRegla, ~caido, caido', NEW t \in Tripulantes,
         TripulanteEscuchado(t)
  PROVE  CaidaExplicada'
<1>1. /\ TypeOK /\ UnLugar /\ Hallado(t) /\ Despacho(t) /\ Despedida(t) /\ Busqueda(t)
      /\ Tripulante(t)
  BY ListasEnOrden DEF EnOrden, EnRegla, TripulanteEscuchado
<1>2. victima' = victima
  BY DEF TripulanteEscuchado, vExp
<1>3. pc[t] # "terminado" => t \notin liberados
  BY <1>1 DEF Despedida, Unido
<1>4. DejarPorQuantum(t) \/ DejarPorIO(t) \/ Finalizar(t) \/ BuscarBlocked(t)
  <2>1. ~SacarBlocked(t)
    BY SacarHallado
  <2> QED BY <1>1, <2>1 DEF Tripulante, SolicitarTarea, PasarAReady, EncolarReady,
          EsperarRunning, MirarPausa, EjecutarCiclo, MirarEmergencia, Ceder, DejarCiclo,
          PasarABlocked, EncolarBlocked, EsperarBlocked, ContinuarIO, MirarSabotaje,
          EsperarFinSabotaje, CicloIO, SoltarIO, MirarContinuar, PasarAExit,
          FinalizarExpulsado
<1>5. CASE DejarPorQuantum(t) \/ Finalizar(t)
  <2>1. quitar(t, "tripulantes_running") /\ ~EstaEn(t, "tripulantes_running")
    BY <1>1, <1>5, Sale DEF DejarPorQuantum, Finalizar, quitar_running, Listas
  <2> QED BY <1>1, <1>5, <2>1 DEF DejarPorQuantum, Finalizar, Despacho, Despachado
<1>6. CASE DejarPorIO(t)
  <2>1. /\ quitar(t, "tripulantes_running") /\ ~EstaEn(t, "tripulantes_running")
        /\ pc[t] = "ciclo" /\ pc'[t] = "bloquear"
    BY <1>1, <1>6, Sale DEF DejarPorIO, quitar_running, Listas, Ir, TypeOK, TipoTripulantes
  <2>2. t = victima
    BY <1>1, <1>3, <2>1 DEF Despacho, Despachado
  <2> QED BY <1>2, <2>1, <2>2, ConstantesValidas DEF CaidaExplicada
<1>7. CASE BuscarBlocked(t)
  <2> DEFINE s == lista["cola_blocked"]
  <2>1. /\ pc[t] = "buscar_blocked" /\ ~continuar[t] /\ trip_block' = trip_block
        /\ restan[t] >= Len(s)
    BY <1>7 DEF BuscarBlocked
  <2>2. restan[t] \in Nat /\ s \in Seq(Tripulantes)
    BY <1>1 DEF TypeOK, TipoTripulantes, TipoListas, Listas
  <2>3. Pasados(s, restan[t] + 1, t)
    BY <1>1, <2>1 DEF Busqueda
  <2>4. ~EstaEn(t, "cola_blocked")
    BY <2>1, <2>2, <2>3, NoEsta DEF EstaEn
  <2>5. t = victima /\ trip_block = t
    BY <1>1, <1>3, <2>1, <2>4 DEF Despacho, Hallado, Antes
  <2> QED BY <1>2, <2>1, <2>5, ConstantesValidas DEF CaidaExplicada
<1> QED BY <1>4, <1>5, <1>6, <1>7

\* A trip that asks a cancelled thread stays where it was.
LEMMA ReglaSordo ==
  ASSUME Tipado, EnOrden, EnRegla, NEW t \in Tripulantes, PedirASordo(t)
  PROVE  EnRegla'
<1>1. TypeOK /\ \A u \in Tripulantes : Hallado(u) /\ Despacho(u)
  BY ListasEnOrden DEF EnRegla
<1>2. /\ pc' = pc /\ tarea' = tarea /\ elegido' = elegido /\ pcIO' = pcIO /\ pcCons' = pcCons
      /\ lista' = lista /\ trip_block' = trip_block /\ sem_running' = sem_running
      /\ continuar' = continuar /\ victima' = victima /\ liberados' = liberados
  BY DEF PedirASordo, vTrip, vPlan, vSem, vCons, vExp
<1>3. \A u \in Tripulantes : estado'[u] = estado[u] \/ estado'[u] = "EXIT"
  BY <1>1 DEF PedirASordo, TypeOK, TipoTripulantes
<1>4. ASSUME NEW u \in Tripulantes PROVE Hallado(u)' /\ Despacho(u)'
  <2>1. Despacho(u)'
    BY <1>1, <1>2 DEF Despacho, Despachado, EstaEn
  <2>2. Hallado(u)'
    BY <1>1, <1>2, <1>3 DEF Hallado, EstaEn, Sacado
  <2> QED BY <2>1, <2>2
<1> QED BY <1>2, <1>4 DEF EnRegla

\* The planner dispatches a trip once; it dies on an empty cola_ready.
LEMMA ReglaPlanificador ==
  ASSUME Tipado, EnOrden, EnRegla, ~caido, PlanificadorEscuchado
  PROVE  IF caido' THEN CaidaExplicada' ELSE EnRegla'
<1>1. /\ TypeOK /\ UnLugar /\ planificador
      /\ \A u \in Tripulantes : Hallado(u) /\ Despacho(u) /\ Puesto(u) /\ Rotulo(u) /\ Despedida(u)
  BY ListasEnOrden DEF EnOrden, EnRegla, PlanificadorEscuchado
<1>2. /\ pc' = pc /\ tarea' = tarea /\ pcIO' = pcIO /\ pcCons' = pcCons
      /\ trip_block' = trip_block /\ continuar' = continuar /\ victima' = victima
      /\ liberados' = liberados
  BY DEF PlanificadorEscuchado, planificador, vTrip, vCons, vExp
<1>3. ASSUME \A u \in Tripulantes : Hallado(u)' /\ Despacho(u)'
      PROVE  EnRegla'
  BY <1>2, <1>3 DEF EnRegla
<1>4. CASE PlanQuitarReady /\ lista["cola_ready"] = <<>>
  BY <1>4 DEF PlanQuitarReady, CaidaExplicada
<1>5. CASE PlanQuitarReady /\ lista["cola_ready"] # <<>>
  <2>1. PICK h : h = Head(lista["cola_ready"])
    OBVIOUS
  <2>2. /\ elegido' = h /\ sem_running' = sem_running /\ caido' = caido /\ estado' = estado
        /\ lista' = [lista EXCEPT !["cola_ready"] = Tail(@)] /\ pcPlan = "quitar_ready"
    BY <1>5, <2>1 DEF PlanQuitarReady, vSem
  <2>3. /\ EstaEn(h, "cola_ready") /\ h \in Tripulantes
        /\ \A u, m : m \in Listas =>
             (EstaEn(u, m)' <=> EstaEn(u, m) /\ ~(u = h /\ m = "cola_ready"))
    BY <1>1, <1>5, <2>1, <2>2, SalePrimero DEF Listas
  <2>4. \A u \in Tripulantes : elegido # u
    BY <1>1, <2>2 DEF Rotulo
  <2>5. \A u \in Tripulantes : Despacho(u)'
    BY <1>1, <1>2, <2>2, <2>3, SigueDespacho DEF Despacho, Listas
  <2>6. \A u \in Tripulantes \ {h} : Hallado(u)'
    BY <1>1, <1>2, <2>2, <2>3, <2>4, SigueHallado DEF Sacado
  <2>7. Hallado(h)'
    <3>1. estado[h] = "READY"
      BY <1>1, <2>3 DEF Rotulo
    <3> QED BY <1>1, <1>2, <2>2, <2>3, <3>1 DEF Hallado, Listas
  <2> QED BY <1>3, <2>2, <2>5, <2>6, <2>7
<1>6. CASE PlanPasarARunning
  <2>1. PICK h \in Tripulantes : h = elegido
    BY <1>1, <1>6 DEF PlanPasarARunning, TypeOK, TipoHilos
  <2>2. /\ elegido' = elegido /\ lista' = lista /\ sem_running' = sem_running /\ caido' = caido
        /\ estado' = [estado EXCEPT ![h] = "RUNNING"]
    BY <1>6, <2>1 DEF PlanPasarARunning, vSem
  <2>3. estado'[h] = "RUNNING" /\ \A u \in Tripulantes \ {h} : estado'[u] = estado[u]
    BY <1>1, <2>2 DEF TypeOK, TipoTripulantes
  <2>4. \A u \in Tripulantes : Despacho(u)'
    BY <1>1, <1>2, <2>2 DEF Despacho, Despachado, EstaEn
  <2>5. \A u \in Tripulantes \ {h} : Hallado(u)'
    BY <1>1, <1>2, <2>2, <2>3 DEF Hallado, EstaEn, Sacado
  <2>6. Hallado(h)'
    BY <1>1, <1>2, <2>1, <2>2, <2>3 DEF Hallado, EstaEn
  <2> QED BY <1>3, <2>2, <2>4, <2>5, <2>6
<1>7. CASE PlanEncolarRunning
  <2>1. PICK h \in Tripulantes : h = elegido
    BY <1>1, <1>7 DEF PlanEncolarRunning, TypeOK, TipoHilos
  <2>2. /\ elegido' = Nadie /\ Encolar(h, "tripulantes_running") /\ caido' = caido
        /\ sem_running' = [sem_running EXCEPT ![h] = @ + 1] /\ estado' = estado
        /\ pcPlan = "encolar_running" /\ "tripulantes_running" \in Listas
    BY <1>7, <2>1 DEF PlanEncolarRunning, Listas
  <2>3. \A m \in Listas : ~EstaEn(h, m)
    BY <1>1, <2>1 DEF Puesto
  <2>4. \A u, m : m \in Listas =>
          (EstaEn(u, m)' <=> EstaEn(u, m) \/ (u = h /\ m = "tripulantes_running"))
    BY <1>1, <2>2, <2>3, Entra
  <2>5. /\ sem_running'[h] = sem_running[h] + 1 /\ sem_running[h] \in Nat
        /\ \A u \in Tripulantes \ {h} : sem_running'[u] = sem_running[u]
    BY <1>1, <2>2 DEF TypeOK, TipoSemaforos
  <2>6. \A u \in Tripulantes : elegido' # u
    BY <2>2, ConstantesValidas
  <2>7. \A u \in Tripulantes \ {h} : Despacho(u)'
    BY <1>1, <1>2, <2>4, <2>5, <2>6, SigueDespacho DEF Despacho, Listas
  <2>8. Despacho(h)'
    <3>1. continuar[h] => pc[h] \in EsperaCupo /\ sem_running'[h] = 1
      BY <1>1, <2>1, <2>3, <2>5 DEF Despacho, Listas
    <3>2. EstaEn(h, "tripulantes_running")' /\ ~EstaEn(h, "cola_ready")'
      BY <2>2, <2>3, <2>4 DEF Listas
    <3>3. ~continuar[h] => h = victima \/ h \in liberados
      BY <1>1 DEF Despacho
    <3> QED BY <1>2, <2>6, <3>1, <3>2, <3>3 DEF Despacho
  <2>9. \A u \in Tripulantes \ {h} : Hallado(u)'
    BY <1>1, <1>2, <2>1, <2>2, <2>4, <2>6, SigueHallado DEF Sacado
  <2>10. Hallado(h)'
    <3>1. estado[h] = "RUNNING"
      BY <1>1, <2>1, <2>2 DEF Rotulo
    <3> QED BY <1>1, <1>2, <2>2, <2>4, <3>1 DEF Hallado, Listas
  <2> QED BY <1>3, <2>2, <2>7, <2>8, <2>9, <2>10
<1>8. CASE ~PlanQuitarReady /\ ~PlanPasarARunning /\ ~PlanEncolarRunning
  <2>1. /\ elegido' = elegido /\ lista' = lista /\ sem_running' = sem_running
        /\ estado' = estado /\ caido' = caido
    BY <1>1, <1>8 DEF planificador, PlanActivar, PlanContinuar, PlanEsperarReady,
       PlanEsperarCupo, PlanMirarSabotaje, PlanEsperarFinSabotaje, PlanHayReady, PlanSinReady,
       vSem
  <2>2. \A u \in Tripulantes : Hallado(u)' /\ Despacho(u)'
    BY <1>1, <1>2, <2>1 DEF Hallado, Despacho, Despachado, EstaEn, Sacado
  <2> QED BY <1>3, <2>1, <2>2
<1> QED BY <1>4, <1>5, <1>6, <1>7, <1>8

\* The input/output planner hands over a device that nobody has; it dies on an empty
\* cola_blocked.
LEMMA ReglaPlanificadorIO ==
  ASSUME Tipado, EnOrden, EnRegla, ~caido, ~desfasado, planificador_io,
         UNCHANGED <<vExp, vRam>>
  PROVE  IF caido' THEN CaidaExplicada' ELSE EnRegla'
<1>1. /\ TypeOK /\ UnLugar
      /\ \A u \in Tripulantes : Hallado(u) /\ Despacho(u) /\ Tanda(u) /\ Puesto(u)
  BY ListasEnOrden DEF EnOrden, EnRegla
<1>2. /\ pc' = pc /\ tarea' = tarea /\ pcCons' = pcCons /\ elegido' = elegido
      /\ estado' = estado /\ sem_running' = sem_running
      /\ continuar' = continuar /\ victima' = victima /\ liberados' = liberados
  BY DEF planificador_io, vTrip, vPlan, vCons, vExp
<1>3. CASE IOEsperarTrip \/ IOEsperarDispositivo
  <2>1. /\ lista' = lista /\ trip_block' = trip_block /\ pcIO' # "avisar" /\ caido' = caido
    BY <1>3 DEF IOEsperarTrip, IOEsperarDispositivo
  <2>2. \A u \in Tripulantes : Hallado(u)' /\ Despacho(u)'
    BY <1>1, <1>2, <2>1 DEF Hallado, Despacho, Despachado, EstaEn, Sacado
  <2> QED BY <1>2, <2>1, <2>2 DEF EnRegla
<1>4. CASE IOQuitarBlocked /\ lista["cola_blocked"] = <<>>
  BY <1>4 DEF IOQuitarBlocked, CaidaExplicada
<1>5. CASE IOQuitarBlocked /\ lista["cola_blocked"] # <<>>
  <2>1. PICK h : h = Head(lista["cola_blocked"])
    OBVIOUS
  <2>2. /\ trip_block' = h /\ pcIO = "quitar" /\ pcIO' = "avisar" /\ caido' = caido
        /\ lista' = [lista EXCEPT !["cola_blocked"] = Tail(@)]
    BY <1>5, <2>1 DEF IOQuitarBlocked
  <2>3. /\ EstaEn(h, "cola_blocked") /\ h \in Tripulantes
        /\ \A u, m : m \in Listas =>
             (EstaEn(u, m)' <=> EstaEn(u, m) /\ ~(u = h /\ m = "cola_blocked"))
    BY <1>1, <1>5, <2>1, <2>2, SalePrimero DEF Listas
  <2>4. trip_block = Nadie
    <3>1. sem["io_disponible"] \in Nat
      BY <1>1 DEF TypeOK, TipoSemaforos, Semaforos
    <3>2. sem["io_disponible"] + Uno(pcIO = "quitar") + Uno(trip_block # Nadie) = 1
      BY DEF EnOrden, DispositivoContado
    <3> QED BY <2>2, <3>1, <3>2 DEF Uno
  <2>5. \A u \in Tripulantes : u # Nadie
    BY ConstantesValidas
  <2>6. \A u \in Tripulantes : pc[u] \notin Usa
    BY <1>1, <2>4, <2>5 DEF Tanda, Usa
  <2>7. \A u \in Tripulantes \ {h} : Hallado(u)' /\ Despacho(u)'
    <3>1. \A u \in Tripulantes \ {h} : Hallado(u)'
      BY <1>1, <1>2, <2>2, <2>3, <2>4, <2>5, <2>6, SigueHallado DEF Sacado
    <3>2. \A u \in Tripulantes \ {h} : Despacho(u)'
      BY <1>1, <1>2, <2>2, <2>3, SigueDespacho DEF Despacho, Listas
    <3> QED BY <3>1, <3>2
  <2>8. Despacho(h)'
    BY <1>1, <1>2, <2>2, <2>3, SigueDespacho DEF Despacho, Listas
  <2>9. Hallado(h)'
    BY <1>1, <1>2, <2>2, <2>3, <2>6 DEF Hallado, Sacado, Listas
  <2> QED BY <1>2, <2>2, <2>3, <2>5, <2>7, <2>8, <2>9 DEF EnRegla
<1>6. CASE IOAvisar
  <2>1. /\ pcIO = "avisar" /\ trip_block # Nadie
    BY <1>6 DEF IOAvisar, EnRegla
  <2>2. /\ lista' = lista /\ trip_block' = trip_block /\ pcIO' = "esperar_trip"
        /\ caido' = caido
    BY <1>6, <2>1 DEF IOAvisar
  <2>3. \A u \in Tripulantes : Hallado(u)' /\ Despacho(u)'
    BY <1>1, <1>2, <2>2 DEF Hallado, Despacho, Despachado, EstaEn, Sacado
  <2> QED BY <1>2, <2>2, <2>3 DEF EnRegla
<1> QED BY <1>3, <1>4, <1>5, <1>6 DEF planificador_io

\* The console that does not resume touches none of this.
LEMMA ReglaConsola ==
  ASSUME Tipado, EnOrden, EnRegla, ~caido, consola, UNCHANGED <<vExp, vRam>>, ~Reiniciar
  PROVE  EnRegla' /\ ~caido'
<1>1. IniciarPlanificacion \/ pausar_planificacion
  BY DEF EnRegla, EtiquetasExpulsar, consola, iniciar_planificacion, TerminarOrden,
     ReiniciarMirar, ReiniciarPost, ReiniciarMirarBlock, ReiniciarPostBlock, ReiniciarMirarSabotaje
<1>2. /\ pc' = pc /\ tarea' = tarea /\ elegido' = elegido /\ sem_running' = sem_running
      /\ lista' = lista /\ caido' = caido /\ pcCons' = pcCons /\ estado' = estado
      /\ trip_block' = trip_block /\ pcIO' = pcIO /\ continuar' = continuar
      /\ victima' = victima /\ liberados' = liberados
  BY <1>1 DEF consola, vTrip, vPlan, vSem, vExp, IniciarPlanificacion, pausar_planificacion
<1>3. \A u \in Tripulantes : Hallado(u)' /\ Despacho(u)'
  BY <1>2 DEF EnRegla, Hallado, Despacho, Despachado, EstaEn, Sacado
<1> QED BY <1>2, <1>3 DEF EnRegla

\* The console takes the trip out of the list its estado names; it dies if the planner
\* had the trip in its hands, or if nobody is left to expel.
LEMMA ReglaExpulsion ==
  ASSUME Tipado, EnOrden, EnRegla, ~caido, expulsar_tripulante
  PROVE  IF caido' THEN CaidaExplicada' ELSE EnRegla'
<1>1. /\ TypeOK /\ UnLugar /\ BusquedaConsola
      /\ \A u \in Tripulantes : Hallado(u) /\ Despacho(u) /\ Despedida(u) /\ Puesto(u)
  BY ListasEnOrden DEF EnOrden, EnRegla
<1>2. /\ pc' = pc /\ tarea' = tarea /\ elegido' = elegido /\ estado' = estado
      /\ trip_block' = trip_block /\ pcIO' = pcIO
  BY DEF expulsar_tripulante, vTrip, vPlan
<1>3. pcCons \in EtiquetasExpulsar => victima \in Tripulantes
  BY DEF Tipado, TypeOKExpulsion
<1>4. ~caido' => pcCons' \in {"leer"} \union EtiquetasExpulsar
  BY DEF expulsar_tripulante, ExpPedir, ExpSinTripulantes, ExpMarcar, ExpJoin,
     ExpSacarReady, ExpBuscarReady, ExpQuitarReady, ExpDescontar, ExpSacarRunning,
     ExpLiberar, EtiquetasExpulsar
<1>5. ASSUME ~caido', \A u \in Tripulantes : Hallado(u)' /\ Despacho(u)'
      PROVE  EnRegla'
  BY <1>2, <1>4, <1>5 DEF EnRegla
<1>6. CASE \E t \in Tripulantes : ExpPedir(t)
  <2>1. PICK t \in Tripulantes : ExpPedir(t)
    BY <1>6
  <2>2. /\ pcCons = "leer" /\ lista' = lista /\ sem_running' = sem_running
        /\ continuar' = continuar /\ caido' = caido /\ liberados' = liberados
    BY <2>1 DEF ExpPedir, vSem
  <2>3. \A u \in Tripulantes : victima # u
    BY <1>1, <2>2 DEF Despedida, EtiquetasExpulsar
  <2>4. \A u \in Tripulantes : Hallado(u)' /\ Despacho(u)'
    BY <1>1, <1>2, <2>2, <2>3 DEF Hallado, Despacho, Despachado, EstaEn, Sacado
  <2> QED BY <1>5, <2>2, <2>4
<1>7. CASE ExpMarcar
  <2>1. PICK v \in Tripulantes : v = victima
    BY <1>3, <1>7 DEF ExpMarcar, EtiquetasExpulsar
  <2>2. /\ pcCons = "marcar" /\ pcCons' = "join" /\ lista' = lista /\ caido' = caido
        /\ victima' = victima /\ liberados' = liberados
        /\ continuar' = [continuar EXCEPT ![v] = FALSE]
        /\ sem_running' = [sem_running EXCEPT ![v] = @ + 2]
    BY <1>7, <2>1 DEF ExpMarcar, vExp
  <2>3. /\ continuar'[v] = FALSE
        /\ \A u \in Tripulantes \ {v} : continuar'[u] = continuar[u]
    BY <1>1, <2>2 DEF TypeOK, TipoTripulantes
  <2>4. \A u \in Tripulantes \ {v} : sem_running'[u] = sem_running[u]
    BY <1>1, <2>2 DEF TypeOK, TipoSemaforos
  <2>5. \A u \in Tripulantes : Hallado(u)'
    BY <1>1, <1>2, <2>2 DEF Hallado, EstaEn, Sacado
  <2>6. \A u \in Tripulantes \ {v} : Despacho(u)'
    BY <1>1, <1>2, <2>2, <2>3, <2>4 DEF Despacho, Despachado, EstaEn
  <2>7. Despacho(v)'
    BY <1>1, <1>2, <2>1, <2>2, <2>3 DEF Despacho, EstaEn
  <2> QED BY <1>5, <2>2, <2>5, <2>6, <2>7
<1>8. CASE ExpJoin \/ ExpDescontar \/ ExpSacarReady
  <2>1. /\ lista' = lista /\ caido' = caido /\ continuar' = continuar
        /\ sem_running' = sem_running /\ victima' = victima /\ liberados' = liberados
        /\ \/ pcCons = "join" /\ pcCons' = "sacar"
           \/ pcCons = "descontar" /\ pcCons' = "liberar"
           \/ pcCons = "sacar" /\ pcCons' = "buscar_ready"
    BY <1>8 DEF ExpJoin, ExpDescontar, ExpSacarReady, vExp
  <2>2. \A u \in Tripulantes : Hallado(u)' /\ Despacho(u)'
    BY <1>1, <1>2, <2>1 DEF Hallado, Despacho, Despachado, EstaEn, Sacado
  <2> QED BY <1>5, <2>1, <2>2
<1>9. CASE ExpBuscarReady
  <2> DEFINE s == lista["cola_ready"]
  <2>1. PICK v \in Tripulantes : v = victima
    BY <1>3, <1>9 DEF ExpBuscarReady, EtiquetasExpulsar
  <2>2. /\ pcCons = "buscar_ready" /\ lista' = lista /\ continuar' = continuar
        /\ sem_running' = sem_running /\ victima' = victima /\ liberados' = liberados
        /\ pcCons' \in {"buscar_ready", "sacar_ready"}
        /\ caido' = (indice > Len(s))
    BY <1>9, Zenon DEF ExpBuscarReady, vExp
  <2>3. indice \in Nat /\ s \in Seq(Tripulantes)
    BY <1>1 DEF TypeOK, TipoHilos, TipoListas, Listas
  <2>4. CASE caido'
    <3>1. ~EstaEn(v, "cola_ready")
      <4>1. Pasados(s, indice, v) /\ indice > Len(s)
        BY <1>1, <2>1, <2>2, <2>4 DEF BusquedaConsola
      <4> QED BY <2>3, <4>1, NoEsta DEF EstaEn
    <3>2. pc[v] = "terminado" /\ ~Sacado(v)
      BY <1>1, <2>1, <2>2 DEF Despedida, Unido, Sacado, EtiquetasExpulsar
    <3>3. elegido = v
      <4>1. CASE estado[v] = "READY"
        BY <1>1, <3>1, <3>2, <4>1 DEF Hallado
      <4>2. CASE <<v, "planificador">> \in esperan
        BY <1>1, <4>2 DEF Despedida
      <4> QED BY <1>1, <2>1, <2>2, <4>1, <4>2 DEF BusquedaConsola
    <3>4. victima' = v /\ elegido' = v /\ v # Nadie
      BY <1>2, <2>1, <2>2, <3>3, ConstantesValidas
    <3> QED BY <2>4, <3>4 DEF CaidaExplicada
  <2>5. CASE ~caido'
    <3>1. \A u \in Tripulantes : Hallado(u)' /\ Despacho(u)'
      BY <1>1, <1>2, <2>2 DEF Hallado, Despacho, Despachado, EstaEn, Sacado
    <3> QED BY <1>5, <2>5, <3>1
  <2> QED BY <2>4, <2>5
<1>10. CASE ExpQuitarReady \/ ExpSacarRunning
  <2>1. PICK v \in Tripulantes : v = victima
    BY <1>3, <1>10 DEF ExpQuitarReady, ExpSacarRunning, EtiquetasExpulsar
  <2>2. PICK m \in Listas :
          /\ quitar(v, m)
          /\ \/ m = "cola_ready" /\ ~caido'
             \/ m = "tripulantes_running" /\ estado[v] = "RUNNING"
    BY <1>10, <2>1, QuitarHallado DEF ExpSacarRunning, quitar_running, Listas
  <2>3. /\ pcCons \in {"sacar", "sacar_ready"} /\ pcCons' \in {"descontar", "liberar"}
        /\ continuar' = continuar /\ sem_running' = sem_running
        /\ victima' = victima /\ liberados' = liberados
    BY <1>10 DEF ExpQuitarReady, ExpSacarRunning, vExp
  <2>4. /\ caido' <=> ~EstaEn(v, m)
        /\ \A u, n : n \in Listas => (EstaEn(u, n)' <=> EstaEn(u, n) /\ ~(u = v /\ n = m))
    BY <1>1, <2>2, Sale
  <2>5. pc[v] = "terminado" /\ ~Sacado(v)
    BY <1>1, <2>1, <2>3 DEF Despedida, Unido, Sacado, EtiquetasExpulsar
  <2>6. CASE caido'
    <3>1. elegido = v
      BY <1>1, <2>2, <2>4, <2>5, <2>6 DEF Hallado
    <3>2. victima' = v /\ elegido' = v /\ v # Nadie
      BY <1>2, <2>1, <2>3, <3>1, ConstantesValidas
    <3> QED BY <2>6, <3>2 DEF CaidaExplicada
  <2>7. CASE ~caido'
    <3>1. \A u \in Tripulantes : Despacho(u)'
      BY <1>1, <1>2, <2>3, <2>4, <2>5, SigueDespacho DEF Despacho, Listas
    <3>2. \A u \in Tripulantes \ {v} : Hallado(u)'
      BY <1>1, <1>2, <2>1, <2>3, <2>4, SigueHallado DEF Sacado
    <3>3. Hallado(v)'
      BY <1>2, <2>1, <2>3, <2>5 DEF Hallado, Sacado, Antes, Usa, ConDispositivo
    <3> QED BY <1>5, <2>7, <3>1, <3>2, <3>3
  <2> QED BY <2>6, <2>7
<1>11. CASE ExpLiberar
  <2>1. /\ lista' = lista /\ caido' = caido /\ continuar' = continuar
        /\ sem_running' = sem_running /\ liberados' = liberados \union {victima}
    BY <1>11 DEF ExpLiberar
  <2>2. \A u \in Tripulantes : Sacado(u) => Sacado(u)'
    BY <2>1 DEF Sacado
  <2>3. \A u \in Tripulantes : Hallado(u)' /\ Despacho(u)'
    BY <1>1, <1>2, <2>1, <2>2 DEF Hallado, Despacho, Despachado, EstaEn
  <2> QED BY <1>5, <2>1, <2>3
<1>12. CASE ExpSinTripulantes
  BY <1>2, <1>12 DEF ExpSinTripulantes, vExp, CaidaExplicada
<1> QED BY <1>6, <1>7, <1>8, <1>9, <1>10, <1>11, <1>12 DEF expulsar_tripulante

\* While nobody resumes planning, every step keeps what explains a death of the process.
LEMMA SinReanudarConExpulsiones ==
  ASSUME HayTareas, IInvSinReanudar, [NextExpulsion]_varsExpulsion,
         [~Reiniciar]_varsExpulsion
  PROVE  IInvSinReanudar'
<1>1. IInvExpulsion'
  BY ExpulsionInductiva DEF IInvSinReanudar
<1>2. CASE NextExpulsion /\ ~Reiniciar /\ desfasado'
  BY <1>1, <1>2 DEF IInvSinReanudar, CaidaExplicada
<1>3. CASE NextExpulsion /\ ~Reiniciar /\ ~desfasado'
  <2>1. Tipado /\ EnOrden /\ EnRegla /\ ~caido /\ ~desfasado
    BY <1>3 DEF NextExpulsion, IInvSinReanudar, IInvExpulsion
  <2>2. SUFFICES IF caido' THEN CaidaExplicada' ELSE EnRegla'
    BY <1>1 DEF IInvSinReanudar, CaidaExplicada
  <2>3. ASSUME NEW t \in Tripulantes, TripulanteEscuchado(t)
        PROVE  IF caido' THEN CaidaExplicada' ELSE EnRegla'
    <3>1. CASE caido'
      BY <2>1, <2>3, <3>1, CaidaPropia
    <3>2. CASE ~caido'
      <4>1. \A u \in Tripulantes : Hallado(u)' /\ Despacho(u)'
        BY <2>1, <2>3, <3>2, HalladosLosOtros, HalladoPropio, DespachoPropio
      <4>2. pcCons' = pcCons /\ pcIO' = pcIO
        BY <2>3 DEF TripulanteEscuchado, Tripulante, vCons
      <4>3. pcIO' = "avisar" => trip_block' # Nadie
        <5>1. trip_block' = trip_block \/ SoltarIO(t)
          BY <2>3 DEF TripulanteEscuchado, Tripulante, SolicitarTarea, PasarAReady,
             EncolarReady, EsperarRunning, MirarPausa, EjecutarCiclo, DejarPorQuantum,
             MirarEmergencia, Ceder, DejarCiclo, DejarPorIO, PasarABlocked, EncolarBlocked,
             EsperarBlocked, ContinuarIO, BuscarBlocked, SacarBlocked, MirarSabotaje, EsperarFinSabotaje, CicloIO,
             MirarContinuar, Finalizar, PasarAExit, FinalizarExpulsado
        <5>2. SoltarIO(t) => pcIO # "avisar"
          BY <2>1 DEF SoltarIO, EnRegla, Hallado, Usa, Antes, ConDispositivo
        <5> QED BY <2>1, <4>2, <5>1, <5>2 DEF EnRegla
      <4> QED BY <2>1, <3>2, <4>1, <4>2, <4>3 DEF EnRegla
    <3> QED BY <3>1, <3>2
  <2>4. ASSUME NEW t \in Tripulantes, PedirASordo(t)
        PROVE  EnRegla' /\ ~caido'
    BY <2>1, <2>4, ReglaSordo DEF PedirASordo
  <2> QED BY <1>3, <2>1, <2>3, <2>4, ReglaPlanificador, ReglaPlanificadorIO, ReglaConsola,
          ReglaExpulsion DEF NextExpulsion
<1>4. CASE UNCHANGED varsExpulsion
  <2>1. /\ UNCHANGED <<lista, trip_block, estado, continuar, pc, tarea, elegido, pcPlan, pcIO>>
        /\ UNCHANGED <<pcCons, caido, victima, liberados, sem_running, desfasado>>
    BY <1>4 DEF varsExpulsion, vars, vTrip, vPlan, vCons, vSem, vExp
  <2>2. EnRegla' <=> EnRegla
    BY <2>1 DEF EnRegla, Hallado, Despacho, Despachado, Sacado, EstaEn
  <2>3. CaidaExplicada' <=> CaidaExplicada
    BY <2>1 DEF CaidaExplicada
  <2> QED BY <1>1, <2>1, <2>2, <2>3 DEF IInvSinReanudar
<1>5. (NextExpulsion /\ ~Reiniciar) \/ UNCHANGED varsExpulsion
  OBVIOUS
<1> QED BY <1>2, <1>3, <1>4, <1>5

\* With tasks for every trip and no resumption, the process dies of an expulsion only in
\* the windows of CaidaExplicada: a planner took the head of a list while quitar walked
\* over it without its mutex; or a planner was moving the trip or counted on it in a queue;
\* or the trip was woken in cola_ready just before its i/o; or nobody is left to expel.
THEOREM SoloCaeAsi ==
  ASSUME HayTareas
  PROVE  SpecExpulsion /\ [][~Reiniciar]_varsExpulsion => []CaidaExplicada
<1>1. InitExpulsion => IInvSinReanudar
  <2> SUFFICES ASSUME InitExpulsion PROVE IInvSinReanudar
    OBVIOUS
  <2>1. IInvExpulsion
    BY ExpulsionInicial
  <2>2. /\ \A t \in Tripulantes : pc[t] = "solicitar" /\ tarea[t] = 0 /\ estado[t] = "NEW"
                                  /\ continuar[t] /\ sem_running[t] = 0
        /\ \A l \in Listas : lista[l] = <<>>
        /\ elegido = Nadie /\ pcIO = "esperar_trip" /\ pcCons = "leer" /\ caido = FALSE
    BY DEF InitExpulsion, Init, InitTripulantes, InitPlanificador, InitConsola
  <2>3. \A t, l : l \in Listas => ~EstaEn(t, l)
    BY <2>2 DEF EstaEn, ToSet
  <2>4. ASSUME NEW t \in Tripulantes PROVE Hallado(t) /\ Despacho(t)
    <3>1. elegido # t
      BY <2>2, ConstantesValidas
    <3>2. Hallado(t)
      BY <2>2 DEF Hallado, Antes, Usa, ConDispositivo
    <3>3. Despacho(t)
      BY <2>2, <2>3, <3>1 DEF Despacho, Despachado, Listas
    <3> QED BY <3>2, <3>3
  <2> QED BY <2>1, <2>2, <2>4 DEF IInvSinReanudar, EnRegla, CaidaExplicada
<1>2. IInvSinReanudar /\ [NextExpulsion]_varsExpulsion /\ [~Reiniciar]_varsExpulsion
        => IInvSinReanudar'
  BY SinReanudarConExpulsiones
<1>3. IInvSinReanudar => CaidaExplicada
  BY DEF IInvSinReanudar
<1> QED BY <1>1, <1>2, <1>3, PTL DEF SpecExpulsion

\* One order only starts planning: what is said of executions without a resumption
\* covers every execution with it.
THEOREM UnaOrdenNoReanudaConExpulsiones ==
  ASSUME MaxOrdenes <= 1
  PROVE  SpecExpulsion => [][~Reiniciar]_varsExpulsion
<1> DEFINE Ordenada == ordenes \in Nat /\ (planificacion_inicializada => ordenes >= 1)
<1>1. InitExpulsion => Ordenada
  BY DEF InitExpulsion, Init, InitConsola
<1>2. Ordenada /\ [NextExpulsion]_varsExpulsion => Ordenada' /\ [~Reiniciar]_varsExpulsion
  <2> SUFFICES ASSUME Ordenada, [NextExpulsion]_varsExpulsion
               PROVE  Ordenada' /\ [~Reiniciar]_varsExpulsion
    OBVIOUS
  <2>1. ~Reiniciar
    BY ConstantesValidas DEF Reiniciar, NuevaOrden
  <2>2. CASE consola
    <3>1. \/ ordenes' = ordenes + 1
          \/ UNCHANGED <<ordenes, planificacion_inicializada>>
      BY <2>2 DEF consola, iniciar_planificacion, IniciarPlanificacion, NuevaOrden,
         Reiniciar, TerminarOrden, ReiniciarMirar, ReiniciarPost, ReiniciarMirarBlock,
         ReiniciarPostBlock, ReiniciarMirarSabotaje, pausar_planificacion
    <3> QED BY <2>1, <3>1
  <2>3. UNCHANGED vCons \/ UNCHANGED <<ordenes, planificacion_inicializada>> => Ordenada'
    BY DEF vCons
  <2>4. consola \/ UNCHANGED vCons \/ UNCHANGED <<ordenes, planificacion_inicializada>>
    BY DEF NextExpulsion, TripulanteEscuchado, PedirASordo, Tripulante, PlanificadorEscuchado,
       planificador, planificador_io, expulsar_tripulante, varsExpulsion, vars, vCons
  <2> QED BY <2>1, <2>2, <2>3, <2>4
<1> QED BY <1>1, <1>2, PTL DEF SpecExpulsion
==============================================================================
