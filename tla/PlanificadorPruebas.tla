------------------------ MODULE PlanificadorPruebas ------------------------
(***************************************************************************)
(* Proofs about Planificador, for every crew, every list of tasks, every    *)
(* algorithm, QUANTUM and GRADO_MULTITAREA, and any number of orders.       *)
(*                                                                         *)
(* First the counts: the type invariant, that the slots of                  *)
(* multiprocesamiento are conserved, and that the semaphores of the two     *)
(* queues count them.  None of the three is inductive alone.  The types     *)
(* need that a trip with the device has a task (TareaEnIO); the counts need *)
(* that no trip is expelled or in emergency (SinOtrosHilos), which only the *)
(* threads of Expulsiones and Sabotajes do.  IInv is their conjunction.     *)
(*                                                                         *)
(* Then where a trip is: it is in one list at most, and its estado names    *)
(* the list; when the user never resumes planning, at most GRADO_MULTITAREA *)
(* trips execute and nobody dereferences a null trip.  The lists are moved  *)
(* by three threads, so what each step relies on is where the other two     *)
(* stand: a trip about to enter a list is in none (Ausencias), the device   *)
(* goes through sem_blocked (Bloqueos), and a trip that runs was dispatched *)
(* once (Despachos).                                                       *)
(***************************************************************************)
EXTENDS Planificador, FiniteSetTheorems, SequenceTheorems, WellFoundedInduction, TLAPS

-----------------------------------------------------------------------------
(* What the operators on lists do *)

\* A set of naturals that is not empty has the minimum that Min chooses.
LEMMA MinimoExiste ==
  ASSUME NEW I \in SUBSET Nat, I # {}
  PROVE  Min(I) \in I
<1>1. PICK x \in I : \A y \in I : ~ (<<y, x>> \in OpToRel(<, Nat))
  BY NatLessThanWellFounded, WFMin, Zenon
<1>2. \A y \in I : (y < x) => <<y, x>> \in OpToRel(<, Nat)
  <2> TAKE y \in I
  <2>1. <<y, x>> \in Nat \X Nat
    OBVIOUS
  <2>2. <<y, x>>[1] = y /\ <<y, x>>[2] = x
    OBVIOUS
  <2> QED BY <2>1, <2>2, Zenon DEF OpToRel
<1>3. \A y \in I : ~ (y < x)
  BY <1>1, <1>2
<1>4. \A y \in I : x <= y
  BY <1>3
<1> QED BY <1>4 DEF Min

\* RemoveAt takes one element out of a sequence.
LEMMA SinPosicion ==
  ASSUME NEW S, NEW s \in Seq(S), NEW i \in 1 .. Len(s)
  PROVE  RemoveAt(s, i) \in Seq(S) /\ Len(RemoveAt(s, i)) = Len(s) - 1
<1> DEFINE a == SubSeq(s, 1, i - 1)
<1> DEFINE b == SubSeq(s, i + 1, Len(s))
<1>1. a \in Seq(S) /\ Len(a) = i - 1
  OBVIOUS
<1>2. b \in Seq(S) /\ Len(b) = Len(s) - i
  OBVIOUS
<1>3. RemoveAt(s, i) = a \o b
  BY DEF RemoveAt
<1> HIDE DEF a, b
<1>4. a \o b \in Seq(S) /\ Len(a \o b) = Len(a) + Len(b)
  BY <1>1, <1>2, ConcatProperties
<1> QED BY <1>1, <1>2, <1>3, <1>4

\* RemoveFirst shortens by one a sequence that holds the element: list_remove of
\* the index that quitar found.
LEMMA QuitarPrimero ==
  ASSUME NEW S, NEW s \in Seq(S), NEW e, e \in ToSet(s)
  PROVE  /\ RemoveFirst(s, e) \in Seq(S)
         /\ Len(RemoveFirst(s, e)) = Len(s) - 1
<1> DEFINE I == {i \in 1 .. Len(s) : s[i] = e}
<1>1. \E i \in 1 .. Len(s) : s[i] = e
  BY DEF ToSet
<1>2. I # {} /\ I \in SUBSET Nat
  BY <1>1
<1>3. Min(I) \in 1 .. Len(s)
  BY <1>2, MinimoExiste
<1>4. RemoveFirst(s, e) = RemoveAt(s, Min(I))
  BY <1>1, <1>2 DEF RemoveFirst, SelectInSeq
<1> QED BY <1>3, <1>4, SinPosicion

\* The fields of a task are numbers.
LEMMA DatosTarea ==
  ASSUME NEW t \in Tripulantes, NEW i \in 1 .. Len(Tareas[t])
  PROVE  Tareas[t][i].ciclos \in Nat /\ Tareas[t][i].tiempo \in Nat
<1>1. Tareas[t] \in Seq(Tarea)
  BY ConstantesValidas
<1>2. Tareas[t][i] \in Tarea
  BY <1>1
<1> QED BY <1>2 DEF Tarea

\* quitar_running keeps the types, touches one list and one semaphore, and what
\* the list loses the semaphore gains.
LEMMA QuitarRunning ==
  ASSUME TypeOK, NEW t \in Tripulantes, quitar_running(t)
  PROVE  /\ sem' \in [Semaforos -> Nat]
         /\ lista' \in [Listas -> Seq(Tripulantes)]
         /\ caido' \in BOOLEAN
         /\ \A s \in Semaforos \ {"multiprocesamiento"} : sem'[s] = sem[s]
         /\ \A l \in Listas \ {"tripulantes_running"} : lista'[l] = lista[l]
         /\ sem'["multiprocesamiento"] + Len(lista'["tripulantes_running"])
              = sem["multiprocesamiento"] + Len(lista["tripulantes_running"])
<1> DEFINE r == lista["tripulantes_running"]
<1>1. r \in Seq(Tripulantes)
  BY DEF TypeOK, TipoListas, Listas
<1>2. caido' \in BOOLEAN
  BY DEF quitar_running, quitar
<1>3. CASE EstaEn(t, "tripulantes_running")
  <2>1. RemoveFirst(r, t) \in Seq(Tripulantes) /\ Len(RemoveFirst(r, t)) = Len(r) - 1
    BY <1>1, <1>3, QuitarPrimero DEF EstaEn
  <2>2. lista' = [lista EXCEPT !["tripulantes_running"] = RemoveFirst(r, t)]
    BY DEF quitar_running, quitar
  <2>3. sem' = [sem EXCEPT !["multiprocesamiento"] = @ + 1]
    BY <1>3 DEF quitar_running, Sumar
  <2>4. sem \in [Semaforos -> Nat] /\ lista \in [Listas -> Seq(Tripulantes)]
    BY DEF TypeOK, TipoSemaforos, TipoListas
  <2>5. Len(r) \in Nat
    BY <1>1
  <2> DEFINE q == RemoveFirst(r, t)
  <2>6. lista' \in [Listas -> Seq(Tripulantes)] /\ lista'["tripulantes_running"] = q
    BY <2>1, <2>2, <2>4 DEF Listas
  <2>7. \A l \in Listas \ {"tripulantes_running"} : lista'[l] = lista[l]
    BY <2>2, <2>4 DEF Listas
  <2>8. /\ sem' \in [Semaforos -> Nat]
        /\ sem'["multiprocesamiento"] = sem["multiprocesamiento"] + 1
        /\ \A s \in Semaforos \ {"multiprocesamiento"} : sem'[s] = sem[s]
    BY <2>3, <2>4 DEF Semaforos
  <2>9. sem["multiprocesamiento"] \in Nat
    BY <2>4 DEF Semaforos
  <2>10. sem'["multiprocesamiento"] + Len(lista'["tripulantes_running"])
           = sem["multiprocesamiento"] + Len(r)
    <3>1. Len(q) = Len(r) - 1
      BY <2>1
    <3>2. lista'["tripulantes_running"] = q
      BY <2>6
    <3>3. sem'["multiprocesamiento"] = sem["multiprocesamiento"] + 1
      BY <2>8
    <3> HIDE DEF q, r
    <3>4. Len(lista'["tripulantes_running"]) = Len(r) - 1
      BY <3>1, <3>2
    <3>5. Len(r) \in Nat
      BY <2>5
    <3> QED BY <3>3, <3>4, <3>5, <2>9
  <2> HIDE DEF q
  <2> QED BY <1>2, <2>6, <2>7, <2>8, <2>10
<1>4. CASE ~EstaEn(t, "tripulantes_running")
  <2>1. RemoveFirst(r, t) = r
    BY <1>4 DEF EstaEn, RemoveFirst, ToSet
  <2>2. lista' = [lista EXCEPT !["tripulantes_running"] = r]
    BY <2>1 DEF quitar_running, quitar
  <2>3. sem' = sem
    BY <1>4 DEF quitar_running
  <2> QED BY <1>1, <1>2, <2>2, <2>3 DEF TypeOK, TipoSemaforos, TipoListas, Semaforos, Listas
<1> QED BY <1>3, <1>4

\* quitar keeps the type of the list, whether it finds the trip or not.
LEMMA QuitarTipo ==
  ASSUME TypeOK, NEW t \in Tripulantes, NEW l \in Listas, quitar(t, l)
  PROVE  lista' \in [Listas -> Seq(Tripulantes)] /\ caido' \in BOOLEAN
<1>1. lista \in [Listas -> Seq(Tripulantes)]
  BY DEF TypeOK, TipoListas
<1>2. lista[l] \in Seq(Tripulantes)
  BY <1>1
<1>3. RemoveFirst(lista[l], t) \in Seq(Tripulantes)
  <2>1. CASE EstaEn(t, l)
    BY <1>2, <2>1, QuitarPrimero DEF EstaEn
  <2>2. CASE ~EstaEn(t, l)
    BY <1>2, <2>2 DEF EstaEn, RemoveFirst, ToSet
  <2> QED BY <2>1, <2>2
<1> QED BY <1>1, <1>3 DEF quitar


\* What list_add does to a list, and to the others.
LEMMA AgregarALista ==
  ASSUME TypeOK, NEW t \in Tripulantes, NEW l \in Listas, Encolar(t, l)
  PROVE  /\ lista' \in [Listas -> Seq(Tripulantes)]
         /\ Len(lista'[l]) = Len(lista[l]) + 1
         /\ \A m \in Listas \ {l} : lista'[m] = lista[m]
<1> DEFINE q == Append(lista[l], t)
<1>1. lista \in [Listas -> Seq(Tripulantes)] /\ lista[l] \in Seq(Tripulantes)
  BY DEF TypeOK, TipoListas
<1>2. q \in Seq(Tripulantes) /\ Len(q) = Len(lista[l]) + 1
  BY <1>1
<1>3. lista' = [lista EXCEPT ![l] = q]
  BY DEF Encolar
<1> HIDE DEF q
<1> QED BY <1>1, <1>2, <1>3

\* What list_remove(l, 0) does to a list that is not empty, and to the others.
LEMMA SacarDeLista ==
  ASSUME TypeOK, NEW l \in Listas, lista[l] # <<>>,
         lista' = [lista EXCEPT ![l] = Tail(@)]
  PROVE  /\ lista' \in [Listas -> Seq(Tripulantes)]
         /\ Len(lista'[l]) = Len(lista[l]) - 1
         /\ \A m \in Listas \ {l} : lista'[m] = lista[m]
         /\ Head(lista[l]) \in Tripulantes
<1> DEFINE q == Tail(lista[l])
<1>1. lista \in [Listas -> Seq(Tripulantes)] /\ lista[l] \in Seq(Tripulantes)
  BY DEF TypeOK, TipoListas
<1>2. q \in Seq(Tripulantes) /\ Len(q) = Len(lista[l]) - 1 /\ Head(lista[l]) \in Tripulantes
  BY <1>1
<1>3. lista' = [lista EXCEPT ![l] = q]
  OBVIOUS
<1> HIDE DEF q
<1> QED BY <1>1, <1>2, <1>3

-----------------------------------------------------------------------------
(* The inductive invariant *)

\* A trip on its way to the device, or waiting for it, has a task to read the
\* time of when it gets it.
TareaEnIO ==
  \A t \in Tripulantes :
    pc[t] \in {"bloquear", "encolar_blocked", "espera_blocked", "pausa_io", "pausado_io",
              "continuar_io"} => HayTarea(t)

\* Nobody here expels trips or raises hay_sabotaje.
SinOtrosHilos ==
  /\ hay_sabotaje = FALSE
  /\ \A t \in Tripulantes :
       continuar[t] = TRUE /\ estado[t] # "EMERGENCY" /\ pc[t] # "ceder"

\* The inductive invariant.
IInv == TypeOK /\ TareaEnIO /\ SinOtrosHilos /\ CupoConservado /\ ColasContadas

-----------------------------------------------------------------------------
(* The steps of a trip *)

\* A trip keeps the types of the semaphores.
LEMMA SemaforosTripulante ==
  ASSUME TypeOK, NEW t \in Tripulantes, Tripulante(t)
  PROVE  TipoSemaforos'
<1>1. CASE EncolarReady(t) \/ EncolarBlocked(t) \/ Ceder(t) \/ SoltarIO(t)
  BY <1>1 DEF EncolarReady, EncolarBlocked, Ceder, SoltarIO, Post, Sumar,
     Semaforos, TypeOK, TipoSemaforos
<1>2. CASE EsperarFinSabotaje(t)
  BY <1>2 DEF EsperarFinSabotaje, Wait, Restar, Semaforos, TypeOK, TipoSemaforos
<1>3. CASE EsperarRunning(t) \/ EsperarBlocked(t) \/ MirarEmergencia(t) \/
         FinalizarExpulsado(t)
  BY <1>3 DEF EsperarRunning, EsperarBlocked, MirarEmergencia,
     FinalizarExpulsado, TypeOK, TipoSemaforos
<1>4. CASE DejarPorQuantum(t) \/ DejarPorIO(t) \/ Finalizar(t)
  BY <1>4, QuitarRunning DEF DejarPorQuantum, DejarPorIO, Finalizar, TypeOK,
     TipoSemaforos
<1>5. CASE SolicitarTarea(t) \/ PasarAReady(t) \/ MirarPausa(t) \/ EjecutarCiclo(t) \/
         DejarCiclo(t) \/ PasarABlocked(t) \/ ContinuarIO(t) \/ BuscarBlocked(t) \/ SacarBlocked(t) \/ MirarSabotaje(t) \/
         CicloIO(t) \/ MirarContinuar(t) \/ PasarAExit(t)
  BY <1>5 DEF SolicitarTarea, PasarAReady, MirarPausa, EjecutarCiclo, DejarCiclo,
     PasarABlocked, ContinuarIO, BuscarBlocked, SacarBlocked, MirarSabotaje, CicloIO, MirarContinuar, PasarAExit,
     vSem, TypeOK, TipoSemaforos
<1> QED BY <1>1, <1>2, <1>3, <1>4, <1>5 DEF Tripulante

\* A trip keeps the types of the lists.
LEMMA ListasTripulante ==
  ASSUME TypeOK, NEW t \in Tripulantes, Tripulante(t)
  PROVE  TipoListas'
<1>1. CASE EncolarReady(t) \/ EncolarBlocked(t)
  BY <1>1, AgregarALista DEF EncolarReady, EncolarBlocked, Listas, TypeOK,
     TipoListas
<1>2. CASE DejarPorQuantum(t) \/ DejarPorIO(t) \/ Finalizar(t)
  BY <1>2, QuitarRunning DEF DejarPorQuantum, DejarPorIO, Finalizar, TypeOK,
     TipoListas
<1>3. CASE SacarBlocked(t)
  <2> DEFINE i == restan[t] + 1
  <2>1. lista["cola_blocked"] \in Seq(Tripulantes) /\ restan[t] \in Nat
    BY DEF TypeOK, TipoListas, TipoTripulantes, Listas
  <2>2. CASE restan[t] >= Len(lista["cola_blocked"])
    BY <1>3, <2>2 DEF SacarBlocked, TypeOK, TipoListas
  <2>3. CASE ~(restan[t] >= Len(lista["cola_blocked"]))
    <3>1. i \in 1 .. Len(lista["cola_blocked"])
      BY <2>1, <2>3
    <3>2. RemoveAt(lista["cola_blocked"], i) \in Seq(Tripulantes)
      BY <2>1, <3>1, SinPosicion
    <3>3. /\ lista' = [lista EXCEPT !["cola_blocked"] = RemoveAt(@, i)]
          /\ trip_block' = trip_block
      BY <1>3, <2>3 DEF SacarBlocked
    <3> QED BY <3>2, <3>3 DEF TypeOK, TipoListas
  <2> QED BY <2>2, <2>3
<1>4. CASE SolicitarTarea(t) \/ PasarAReady(t) \/ EsperarRunning(t) \/ MirarPausa(t)
         \/ EjecutarCiclo(t) \/ MirarEmergencia(t) \/ Ceder(t) \/ DejarCiclo(t) \/
         PasarABlocked(t) \/ EsperarBlocked(t) \/ ContinuarIO(t) \/ BuscarBlocked(t) \/
         MirarSabotaje(t) \/
         EsperarFinSabotaje(t) \/ CicloIO(t) \/ SoltarIO(t) \/ MirarContinuar(t) \/
         PasarAExit(t) \/ FinalizarExpulsado(t)
  BY <1>4 DEF SolicitarTarea, PasarAReady, EsperarRunning, MirarPausa,
     EjecutarCiclo, MirarEmergencia, Ceder, DejarCiclo, PasarABlocked,
     EsperarBlocked, ContinuarIO, BuscarBlocked, MirarSabotaje, EsperarFinSabotaje, CicloIO, SoltarIO,
     MirarContinuar, PasarAExit, FinalizarExpulsado, vSem, TypeOK, TipoListas
<1> QED BY <1>1, <1>2, <1>3, <1>4 DEF Tripulante

\* A trip keeps the types of the flags and of the other threads.
LEMMA HilosTripulante ==
  ASSUME TypeOK, NEW t \in Tripulantes, Tripulante(t)
  PROVE  TipoHilos'
<1>1. CASE DejarPorQuantum(t) \/ DejarPorIO(t) \/ Finalizar(t) \/ ContinuarIO(t)
  BY <1>1 DEF DejarPorQuantum, DejarPorIO, Finalizar, ContinuarIO,
     quitar_running, quitar, Tripulante, vPlan, vCons, TypeOK, TipoHilos
<1>2. CASE SolicitarTarea(t) \/ PasarAReady(t) \/ EncolarReady(t) \/ EsperarRunning(t)
         \/ MirarPausa(t) \/ EjecutarCiclo(t) \/ MirarEmergencia(t) \/ Ceder(t) \/
         DejarCiclo(t) \/ PasarABlocked(t) \/ EncolarBlocked(t) \/ EsperarBlocked(t)
         \/ MirarSabotaje(t) \/ EsperarFinSabotaje(t) \/ CicloIO(t) \/ SoltarIO(t)
         \/ MirarContinuar(t) \/ PasarAExit(t) \/ FinalizarExpulsado(t)
  BY <1>2 DEF SolicitarTarea, PasarAReady, EncolarReady, EsperarRunning,
     MirarPausa, EjecutarCiclo, MirarEmergencia, Ceder, DejarCiclo, PasarABlocked,
     EncolarBlocked, EsperarBlocked, MirarSabotaje, EsperarFinSabotaje, CicloIO,
     SoltarIO, MirarContinuar, PasarAExit, FinalizarExpulsado, Tripulante, vPlan,
     vCons, TypeOK, TipoHilos
<1>3. CASE BuscarBlocked(t) \/ SacarBlocked(t)
  <2>1. caido' \in BOOLEAN
    <3>1. caido' = (restan[t] >= Len(lista["cola_blocked"]))
      BY <1>3, Zenon DEF BuscarBlocked, SacarBlocked
    <3>2. restan[t] \in Nat /\ Len(lista["cola_blocked"]) \in Nat
      BY DEF TypeOK, TipoTripulantes, TipoListas, Listas
    <3> QED BY <3>1, <3>2
  <2>2. UNCHANGED <<continuar_planificacion, hay_sabotaje, planificacion_inicializada, pcPlan,
                    pcIO, pcCons, elegido, indice, ordenes>>
    BY DEF Tripulante, vPlan, vCons
  <2> QED BY <2>1, <2>2 DEF TypeOK, TipoHilos
<1> QED BY <1>1, <1>2, <1>3 DEF Tripulante

\* The thread of a trip stays at its labels.
LEMMA EtiquetasTripulante ==
  ASSUME TypeOK, NEW t \in Tripulantes, Tripulante(t)
  PROVE  pc' \in [Tripulantes -> EtiquetasTrip]
<1>1. CASE PasarAReady(t) \/ EncolarReady(t)
  BY <1>1 DEF PasarAReady, EncolarReady, Seguir, Ir, Sigue, EtiquetasTrip,
     TypeOK, TipoTripulantes
<1>2. CASE EsperarRunning(t)
  BY <1>2 DEF EsperarRunning, Seguir, Ir, Sigue, EtiquetasTrip, TypeOK,
     TipoTripulantes
<1>3. CASE MirarPausa(t)
  BY <1>3 DEF MirarPausa, Seguir, Ir, Sigue, EtiquetasTrip, TypeOK,
     TipoTripulantes
<1>4. CASE DejarPorQuantum(t) \/ MirarEmergencia(t)
  BY <1>4 DEF DejarPorQuantum, MirarEmergencia, Seguir, Ir, Sigue, EtiquetasTrip,
     TypeOK, TipoTripulantes
<1>5. CASE MirarSabotaje(t) \/ EsperarFinSabotaje(t) \/ MirarContinuar(t)
  BY <1>5 DEF MirarSabotaje, EsperarFinSabotaje, MirarContinuar, Seguir, Ir,
     Sigue, EtiquetasTrip, TypeOK, TipoTripulantes
<1>6. CASE SolicitarTarea(t)
  BY <1>6 DEF SolicitarTarea, Ir, EtiquetasTrip, TypeOK, TipoTripulantes
<1>7. CASE EjecutarCiclo(t) \/ DejarCiclo(t) \/ ContinuarIO(t) \/ BuscarBlocked(t)
         \/ SacarBlocked(t)
  BY <1>7 DEF EjecutarCiclo, DejarCiclo, ContinuarIO, BuscarBlocked, SacarBlocked, Ir, EtiquetasTrip, TypeOK,
     TipoTripulantes
<1>8. CASE Ceder(t) \/ DejarPorIO(t) \/ PasarABlocked(t) \/ EncolarBlocked(t) \/
         EsperarBlocked(t) \/ CicloIO(t) \/ SoltarIO(t) \/ Finalizar(t) \/
         PasarAExit(t) \/ FinalizarExpulsado(t)
  BY <1>8 DEF Ceder, DejarPorIO, PasarABlocked, EncolarBlocked, EsperarBlocked,
     CicloIO, SoltarIO, Finalizar, PasarAExit, FinalizarExpulsado, Ir,
     EtiquetasTrip, TypeOK, TipoTripulantes
<1> QED BY <1>1, <1>2, <1>3, <1>4, <1>5, <1>6, <1>7, <1>8 DEF Tripulante

\* A trip keeps the types of its own data.
LEMMA DatosTripulante ==
  ASSUME TypeOK, TareaEnIO, NEW t \in Tripulantes, Tripulante(t)
  PROVE  /\ estado' \in [Tripulantes -> Estados]
         /\ tarea' \in [Tripulantes -> Nat]
         /\ restan' \in [Tripulantes -> Nat]
         /\ contador_ciclos' \in [Tripulantes -> Nat]
         /\ continuar' = continuar
<1>1. CASE SolicitarTarea(t)
  <2> DEFINE n == tarea[t] + 1
  <2>1. n \in Nat
    BY DEF TypeOK, TipoTripulantes
  <2>2. (n <= Len(Tareas[t])) => Tareas[t][n].ciclos \in Nat
    BY <2>1, DatosTarea DEF TypeOK, TipoTripulantes
  <2>3. restan' \in [Tripulantes -> Nat]
    BY <1>1, <2>2 DEF SolicitarTarea, TypeOK, TipoTripulantes
  <2>4. tarea' \in [Tripulantes -> Nat]
    BY <1>1, <2>1 DEF SolicitarTarea, TypeOK, TipoTripulantes
  <2> QED BY <1>1, <2>3, <2>4 DEF SolicitarTarea, Tripulante, TypeOK, TipoTripulantes
<1>2. CASE EjecutarCiclo(t) \/ CicloIO(t)
  BY <1>2 DEF EjecutarCiclo, CicloIO, Tripulante, TypeOK, TipoTripulantes
<1>3. CASE ContinuarIO(t)
  <2>1. HayTarea(t)
    BY <1>3 DEF ContinuarIO, TareaEnIO
  <2>2. Actual(t).tiempo \in Nat
    BY <2>1, DatosTarea DEF HayTarea, Actual
  <2> QED BY <1>3, <2>2 DEF ContinuarIO, Tripulante, TypeOK, TipoTripulantes
<1>4. CASE PasarAReady(t) \/ PasarABlocked(t) \/ PasarAExit(t) \/ EncolarReady(t)
  BY <1>4 DEF PasarAReady, PasarABlocked, PasarAExit, EncolarReady, Estados,
     Tripulante, TypeOK, TipoTripulantes
<1>5. CASE EsperarRunning(t) \/ MirarPausa(t) \/ DejarPorQuantum(t) \/
         MirarEmergencia(t) \/ Ceder(t) \/ DejarCiclo(t) \/ DejarPorIO(t) \/
         EncolarBlocked(t) \/ EsperarBlocked(t) \/ MirarSabotaje(t) \/
         EsperarFinSabotaje(t) \/ SoltarIO(t) \/ MirarContinuar(t) \/ Finalizar(t)
         \/ FinalizarExpulsado(t)
  BY <1>5 DEF EsperarRunning, MirarPausa, DejarPorQuantum, MirarEmergencia,
     Ceder, DejarCiclo, DejarPorIO, EncolarBlocked, EsperarBlocked, MirarSabotaje,
     EsperarFinSabotaje, SoltarIO, MirarContinuar, Finalizar, FinalizarExpulsado,
     Tripulante, vTrip, TypeOK, TipoTripulantes
<1>6. CASE BuscarBlocked(t) \/ SacarBlocked(t)
  <2>1. restan' \in {restan, [restan EXCEPT ![t] = @ + 1], [restan EXCEPT ![t] = 0]}
    BY <1>6 DEF BuscarBlocked, SacarBlocked
  <2>2. restan' \in [Tripulantes -> Nat]
    BY <2>1 DEF TypeOK, TipoTripulantes
  <2>3. UNCHANGED <<estado, tarea, contador_ciclos, continuar>>
    BY <1>6 DEF BuscarBlocked, SacarBlocked, Tripulante
  <2> QED BY <2>2, <2>3 DEF TypeOK, TipoTripulantes
<1> QED BY <1>1, <1>2, <1>3, <1>4, <1>5, <1>6 DEF Tripulante

\* A trip keeps the type invariant.
LEMMA TipoTripulante ==
  ASSUME TypeOK, TareaEnIO, NEW t \in Tripulantes, Tripulante(t)
  PROVE  TypeOK'
<1>1. continuar' \in [Tripulantes -> BOOLEAN]
  BY DatosTripulante DEF TypeOK, TipoTripulantes
<1>2. TipoTripulantes'
  BY <1>1, DatosTripulante, EtiquetasTripulante DEF TipoTripulantes
<1> QED BY <1>2, SemaforosTripulante, ListasTripulante, HilosTripulante DEF TypeOK

\* A trip that is with the device, or on its way to it, has a task.
LEMMA TareaTripulante ==
  ASSUME TypeOK, TareaEnIO, NEW t \in Tripulantes, Tripulante(t)
  PROVE  TareaEnIO'
<1>1. CASE SolicitarTarea(t)
  BY <1>1 DEF SolicitarTarea, TypeOK, TipoTripulantes, TareaEnIO, HayTarea, Ir
<1>2. CASE DejarPorIO(t)
  BY <1>2 DEF DejarPorIO, TypeOK, TipoTripulantes, TareaEnIO, HayTarea, TocaIO,
     Ir
<1>3. CASE PasarAReady(t) \/ EncolarReady(t) \/ EsperarRunning(t)
  BY <1>3 DEF PasarAReady, EncolarReady, EsperarRunning, TypeOK, TipoTripulantes,
     TareaEnIO, HayTarea, Ir, Seguir, Sigue
<1>4. CASE DejarPorQuantum(t) \/ MirarEmergencia(t) \/ MirarPausa(t)
  BY <1>4 DEF DejarPorQuantum, MirarEmergencia, MirarPausa, TypeOK,
     TipoTripulantes, TareaEnIO, HayTarea, Ir, Seguir, Sigue
<1>5. CASE MirarSabotaje(t) \/ EsperarFinSabotaje(t) \/ MirarContinuar(t)
  BY <1>5 DEF MirarSabotaje, EsperarFinSabotaje, MirarContinuar, TypeOK,
     TipoTripulantes, TareaEnIO, HayTarea, Ir, Seguir, Sigue
<1>6. CASE EjecutarCiclo(t) \/ Ceder(t) \/ DejarCiclo(t) \/ PasarABlocked(t) \/
         EncolarBlocked(t) \/ EsperarBlocked(t) \/ ContinuarIO(t) \/ BuscarBlocked(t) \/ SacarBlocked(t) \/ CicloIO(t) \/
         SoltarIO(t) \/ Finalizar(t) \/ PasarAExit(t) \/ FinalizarExpulsado(t)
  BY <1>6 DEF EjecutarCiclo, Ceder, DejarCiclo, PasarABlocked, EncolarBlocked,
     EsperarBlocked, ContinuarIO, BuscarBlocked, SacarBlocked, CicloIO, SoltarIO, Finalizar, PasarAExit,
     FinalizarExpulsado, TypeOK, TipoTripulantes, TareaEnIO, HayTarea, Ir
<1> QED BY <1>1, <1>2, <1>3, <1>4, <1>5, <1>6 DEF Tripulante

\* The lengths of the lists and the values of the semaphores are numbers.
LEMMA Medidas ==
  ASSUME IInv
  PROVE  /\ \A l \in {"cola_ready", "cola_blocked", "tripulantes_running"} :
              Len(lista[l]) \in Nat
         /\ \A s \in {"multiprocesamiento", "tripulantes_ready", "tripulantes_blocked"} :
              sem[s] \in Nat
<1>1. \A l \in Listas : lista[l] \in Seq(Tripulantes)
  BY DEF IInv, TypeOK, TipoListas
<1>2. \A l \in Listas : Len(lista[l]) \in Nat
  BY <1>1
<1> QED BY <1>2 DEF IInv, TypeOK, TipoSemaforos, Semaforos, Listas

\* A trip keeps the slots and the queues counted.
LEMMA CuposTripulante ==
  ASSUME IInv, NEW t \in Tripulantes, Tripulante(t)
  PROVE  CupoConservado' /\ ColasContadas'
<1>1. CASE EncolarReady(t)
  <2>1. /\ Len(lista'["cola_ready"]) = Len(lista["cola_ready"]) + 1
        /\ lista'["cola_blocked"] = lista["cola_blocked"]
        /\ lista'["tripulantes_running"] = lista["tripulantes_running"]
    BY <1>1, AgregarALista DEF EncolarReady, IInv, Listas
  <2>2. /\ sem'["tripulantes_ready"] = sem["tripulantes_ready"] + 1
        /\ sem'["tripulantes_blocked"] = sem["tripulantes_blocked"]
        /\ sem'["multiprocesamiento"] = sem["multiprocesamiento"]
    BY <1>1 DEF EncolarReady, Post, Sumar, IInv, TypeOK, TipoSemaforos, Semaforos
  <2>3. pcPlan' = pcPlan /\ pcIO' = pcIO
    BY DEF Tripulante, vPlan
  <2> QED BY <2>1, <2>2, <2>3, Medidas
       DEF IInv, CupoConservado, ColasContadas, CupoTomado, Uno
<1>2. CASE EncolarBlocked(t)
  <2>1. /\ Len(lista'["cola_blocked"]) = Len(lista["cola_blocked"]) + 1
        /\ lista'["cola_ready"] = lista["cola_ready"]
        /\ lista'["tripulantes_running"] = lista["tripulantes_running"]
    BY <1>2, AgregarALista DEF EncolarBlocked, IInv, Listas
  <2>2. /\ sem'["tripulantes_blocked"] = sem["tripulantes_blocked"] + 1
        /\ sem'["tripulantes_ready"] = sem["tripulantes_ready"]
        /\ sem'["multiprocesamiento"] = sem["multiprocesamiento"]
    BY <1>2 DEF EncolarBlocked, Post, Sumar, IInv, TypeOK, TipoSemaforos, Semaforos
  <2>3. pcPlan' = pcPlan /\ pcIO' = pcIO
    BY DEF Tripulante, vPlan
  <2> QED BY <2>1, <2>2, <2>3, Medidas
       DEF IInv, CupoConservado, ColasContadas, CupoTomado, Uno
<1>3. CASE DejarPorQuantum(t) \/ DejarPorIO(t) \/ Finalizar(t)
  <2>1. quitar_running(t)
    BY <1>3 DEF DejarPorQuantum, DejarPorIO, Finalizar
  <2>2. /\ \A s \in Semaforos \ {"multiprocesamiento"} : sem'[s] = sem[s]
        /\ \A l \in Listas \ {"tripulantes_running"} : lista'[l] = lista[l]
        /\ sem'["multiprocesamiento"] + Len(lista'["tripulantes_running"])
             = sem["multiprocesamiento"] + Len(lista["tripulantes_running"])
    BY <2>1, QuitarRunning DEF IInv
  <2>3. pcPlan' = pcPlan /\ pcIO' = pcIO
    BY DEF Tripulante, vPlan
  <2>4. CupoConservado'
    BY <2>2, <2>3, Medidas DEF IInv, CupoConservado, CupoTomado, Uno
  <2>5. ColasContadas'
    BY <2>2, <2>3, Medidas DEF IInv, ColasContadas, Uno, Semaforos, Listas
  <2> QED BY <2>4, <2>5
<1>4. CASE SoltarIO(t) \/ EsperarFinSabotaje(t)
  <2>1. \A s \in {"multiprocesamiento", "tripulantes_ready", "tripulantes_blocked"} :
          sem'[s] = sem[s]
    BY <1>4 DEF SoltarIO, EsperarFinSabotaje, Post, Wait, Sumar, Restar,
             IInv, TypeOK, TipoSemaforos, Semaforos
  <2>2. lista' = lista /\ pcPlan' = pcPlan /\ pcIO' = pcIO
    BY <1>4 DEF SoltarIO, EsperarFinSabotaje, Tripulante, vPlan
  <2> QED BY <2>1, <2>2 DEF IInv, CupoConservado, ColasContadas, CupoTomado, Uno
<1>5. CASE Ceder(t)
  BY <1>5 DEF Ceder, IInv, SinOtrosHilos
<1>6. CASE SolicitarTarea(t) \/ PasarAReady(t) \/ EsperarRunning(t) \/ MirarPausa(t)
         \/ EjecutarCiclo(t) \/ MirarEmergencia(t) \/ DejarCiclo(t) \/
         PasarABlocked(t) \/ EsperarBlocked(t) \/ ContinuarIO(t) \/ BuscarBlocked(t) \/ SacarBlocked(t) \/ MirarSabotaje(t)
         \/ CicloIO(t) \/ MirarContinuar(t) \/ PasarAExit(t) \/
         FinalizarExpulsado(t)
  BY <1>6 DEF SolicitarTarea, PasarAReady, EsperarRunning, MirarPausa,
     EjecutarCiclo, MirarEmergencia, DejarCiclo, PasarABlocked, EsperarBlocked,
     ContinuarIO, BuscarBlocked, SacarBlocked, MirarSabotaje, CicloIO, MirarContinuar, PasarAExit,
     FinalizarExpulsado, vSem, Tripulante, vPlan, IInv, SinOtrosHilos,
     CupoConservado, ColasContadas, CupoTomado, Uno
<1> QED BY <1>1, <1>2, <1>3, <1>4, <1>5, <1>6 DEF Tripulante

\* Alone with the planners and the console, a trip is never in emergency.
LEMMA SinOtrosTripulante ==
  ASSUME IInv, NEW t \in Tripulantes, Tripulante(t)
  PROVE  SinOtrosHilos'
<1>1. CASE SolicitarTarea(t)
  BY <1>1 DEF SolicitarTarea, Ir, Tripulante, IInv, TypeOK, TipoTripulantes,
     SinOtrosHilos
<1>2. CASE PasarAReady(t) \/ PasarABlocked(t) \/ PasarAExit(t)
  BY <1>2 DEF PasarAReady, PasarABlocked, PasarAExit, Seguir, Ir, Sigue,
     Tripulante, IInv, TypeOK, TipoTripulantes, SinOtrosHilos
<1>3. CASE EncolarReady(t) \/ EsperarRunning(t) \/ MirarPausa(t)
  BY <1>3 DEF EncolarReady, EsperarRunning, MirarPausa, Seguir, Ir, Sigue,
     Tripulante, IInv, TypeOK, TipoTripulantes, SinOtrosHilos
<1>4. CASE DejarPorQuantum(t) \/ MirarEmergencia(t)
  BY <1>4 DEF DejarPorQuantum, MirarEmergencia, Seguir, Ir, Sigue, Tripulante,
     IInv, TypeOK, TipoTripulantes, SinOtrosHilos
<1>5. CASE MirarSabotaje(t) \/ EsperarFinSabotaje(t) \/ MirarContinuar(t)
  BY <1>5 DEF MirarSabotaje, EsperarFinSabotaje, MirarContinuar, Seguir, Ir,
     Sigue, Tripulante, IInv, TypeOK, TipoTripulantes, SinOtrosHilos
<1>6. CASE EjecutarCiclo(t) \/ Ceder(t) \/ DejarCiclo(t) \/ DejarPorIO(t) \/
         EncolarBlocked(t) \/ EsperarBlocked(t) \/ ContinuarIO(t) \/ BuscarBlocked(t) \/ SacarBlocked(t) \/ CicloIO(t) \/
         SoltarIO(t) \/ Finalizar(t) \/ FinalizarExpulsado(t)
  BY <1>6 DEF EjecutarCiclo, Ceder, DejarCiclo, DejarPorIO, EncolarBlocked,
     EsperarBlocked, ContinuarIO, BuscarBlocked, SacarBlocked, CicloIO, SoltarIO, Finalizar, FinalizarExpulsado,
     Ir, Tripulante, IInv, TypeOK, TipoTripulantes, SinOtrosHilos
<1> QED BY <1>1, <1>2, <1>3, <1>4, <1>5, <1>6 DEF Tripulante

-----------------------------------------------------------------------------
(* The steps of the planners and of the console *)

\* The planner keeps the type invariant.
LEMMA TipoPlanificador ==
  ASSUME TypeOK, planificador
  PROVE  TypeOK'
<1>1. CASE PlanQuitarReady
  <2>1. CASE lista["cola_ready"] = <<>>
    BY <1>1, <2>1 DEF PlanQuitarReady, planificador, vTrip, vCons, vSem, TypeOK,
         TipoSemaforos, TipoListas, TipoTripulantes, TipoHilos
  <2>2. CASE lista["cola_ready"] # <<>>
    <3>1. /\ lista' \in [Listas -> Seq(Tripulantes)]
          /\ Head(lista["cola_ready"]) \in Tripulantes
      BY <1>1, <2>2, SacarDeLista DEF PlanQuitarReady, Listas
    <3>2. TipoSemaforos' /\ TipoListas'
      BY <1>1, <3>1 DEF PlanQuitarReady, planificador, vSem, TypeOK,
           TipoSemaforos, TipoListas
    <3>3. TipoTripulantes'
      BY <1>1 DEF PlanQuitarReady, planificador, vTrip, TypeOK, TipoTripulantes
    <3>4. TipoHilos'
      BY <1>1, <2>2, <3>1 DEF PlanQuitarReady, planificador, vCons, TypeOK,
           TipoHilos, EtiquetasPlan
    <3> QED BY <3>2, <3>3, <3>4 DEF TypeOK
  <2> QED BY <2>1, <2>2
<1>2. CASE PlanPasarARunning
  BY <1>2 DEF PlanPasarARunning, planificador, vTrip, vCons, vSem, TypeOK,
     TipoSemaforos, TipoListas, TipoTripulantes, TipoHilos, EtiquetasPlan, Estados
<1>3. CASE PlanEncolarRunning
  <2>1. elegido \in Tripulantes
    BY <1>3 DEF PlanEncolarRunning, TypeOK, TipoHilos
  <2>2. lista' \in [Listas -> Seq(Tripulantes)]
    BY <1>3, <2>1, AgregarALista DEF PlanEncolarRunning, Listas
  <2>3. TipoSemaforos' /\ TipoListas'
    BY <1>3, <2>1, <2>2 DEF PlanEncolarRunning, planificador, TypeOK,
         TipoSemaforos, TipoListas
  <2>4. TipoTripulantes' /\ TipoHilos'
    BY <1>3 DEF PlanEncolarRunning, planificador, vTrip, vCons, TypeOK,
         TipoTripulantes, TipoHilos, EtiquetasPlan
  <2> QED BY <2>3, <2>4 DEF TypeOK
<1>4. CASE PlanActivar \/ PlanEsperarReady \/ PlanEsperarCupo \/
         PlanEsperarFinSabotaje \/ PlanSinReady
  <2>1. TipoSemaforos'
    BY <1>4 DEF PlanActivar, PlanEsperarReady, PlanEsperarCupo,
         PlanEsperarFinSabotaje, PlanSinReady, planificador, Wait, Post, Sumar,
         Restar, Semaforos, TypeOK, TipoSemaforos
  <2>2. TipoListas' /\ TipoTripulantes'
    BY <1>4 DEF PlanActivar, PlanEsperarReady, PlanEsperarCupo,
         PlanEsperarFinSabotaje, PlanSinReady, planificador, vTrip, TypeOK,
         TipoListas, TipoTripulantes
  <2>3. TipoHilos'
    BY <1>4 DEF PlanActivar, PlanEsperarReady, PlanEsperarCupo,
         PlanEsperarFinSabotaje, PlanSinReady, planificador, vCons, EtiquetasPlan,
         TypeOK, TipoHilos
  <2> QED BY <2>1, <2>2, <2>3 DEF TypeOK
<1>5. CASE PlanContinuar \/ PlanMirarSabotaje \/ PlanHayReady
  BY <1>5 DEF PlanContinuar, PlanMirarSabotaje, PlanHayReady, planificador,
     vTrip, vCons, vSem, TypeOK, TipoSemaforos, TipoListas, TipoTripulantes,
     TipoHilos, EtiquetasPlan
<1> QED BY <1>1, <1>2, <1>3, <1>4, <1>5 DEF planificador

\* The planner takes a slot and a unit of tripulantes_ready for each trip it
\* dispatches, and gives the slot back when cola_ready is empty.
LEMMA CuposPlanificador ==
  ASSUME IInv, planificador
  PROVE  CupoConservado' /\ ColasContadas'
<1>1. CASE PlanActivar \/ PlanEsperarFinSabotaje
  BY <1>1, Medidas DEF PlanActivar, PlanEsperarFinSabotaje, Wait, Restar,
     Semaforos, planificador, IInv, TypeOK, TipoSemaforos, CupoConservado,
     ColasContadas, CupoTomado, Uno
<1>2. CASE PlanEsperarReady
  BY <1>2, Medidas DEF PlanEsperarReady, Wait, Restar, Semaforos, planificador,
     IInv, TypeOK, TipoSemaforos, CupoConservado, ColasContadas, CupoTomado, Uno
<1>3. CASE PlanEsperarCupo
  BY <1>3, Medidas DEF PlanEsperarCupo, Wait, Restar, Semaforos, planificador,
     IInv, TypeOK, TipoSemaforos, CupoConservado, ColasContadas, CupoTomado, Uno
<1>4. CASE PlanSinReady
  <2>1. lista' = lista /\ pcPlan = "mirar_cola" /\ Len(lista["cola_ready"]) = 0
    BY <1>4 DEF PlanSinReady
  <2>2. sem["tripulantes_ready"] + 1 = 0
    BY <2>1 DEF IInv, ColasContadas, Uno
  <2> QED BY <2>2, Medidas
<1>5. CASE PlanQuitarReady
  <2>1. lista["cola_ready"] # <<>>
    <3>1. pcPlan = "quitar_ready"
      BY <1>5 DEF PlanQuitarReady
    <3>2. sem["tripulantes_ready"] + 1 = Len(lista["cola_ready"])
      BY <3>1 DEF IInv, ColasContadas, Uno
    <3>3. Len(lista["cola_ready"]) # 0
      BY <3>2, Medidas
    <3> QED BY <3>3
  <2>2. /\ Len(lista'["cola_ready"]) = Len(lista["cola_ready"]) - 1
        /\ lista'["cola_blocked"] = lista["cola_blocked"]
        /\ lista'["tripulantes_running"] = lista["tripulantes_running"]
    BY <1>5, <2>1, SacarDeLista DEF PlanQuitarReady, IInv, Listas
  <2>3. /\ pcPlan = "quitar_ready" /\ pcPlan' = "pasar_a_running"
        /\ pcIO' = pcIO /\ sem' = sem
    BY <1>5, <2>1 DEF PlanQuitarReady, planificador, vSem
  <2> QED BY <2>2, <2>3, Medidas
       DEF IInv, CupoConservado, ColasContadas, CupoTomado, Uno
<1>6. CASE PlanEncolarRunning
  <2>1. elegido \in Tripulantes
    BY <1>6 DEF PlanEncolarRunning, IInv, TypeOK, TipoHilos
  <2>2. /\ Len(lista'["tripulantes_running"]) = Len(lista["tripulantes_running"]) + 1
        /\ lista'["cola_blocked"] = lista["cola_blocked"]
        /\ lista'["cola_ready"] = lista["cola_ready"]
    BY <1>6, <2>1, AgregarALista DEF PlanEncolarRunning, IInv, Listas
  <2>3. /\ pcPlan = "encolar_running" /\ pcPlan' = "ready"
        /\ pcIO' = pcIO /\ sem' = sem
    BY <1>6 DEF PlanEncolarRunning, planificador
  <2> QED BY <2>2, <2>3, Medidas
       DEF IInv, CupoConservado, ColasContadas, CupoTomado, Uno
<1>7. CASE PlanMirarSabotaje
  BY <1>7 DEF PlanMirarSabotaje, planificador, vSem, IInv, CupoConservado,
     ColasContadas, CupoTomado, Uno
<1>8. CASE PlanContinuar \/ PlanHayReady \/ PlanPasarARunning
  BY <1>8 DEF PlanContinuar, PlanHayReady, PlanPasarARunning, planificador, vSem,
     IInv, CupoConservado, ColasContadas, CupoTomado, Uno
<1> QED BY <1>1, <1>2, <1>3, <1>4, <1>5, <1>6, <1>7, <1>8 DEF planificador

\* The input/output planner keeps the type invariant.
LEMMA TipoPlanificadorIO ==
  ASSUME TypeOK, planificador_io
  PROVE  TypeOK'
<1>1. CASE IOEsperarTrip \/ IOEsperarDispositivo
  <2>1. TipoSemaforos'
    BY <1>1 DEF IOEsperarTrip, IOEsperarDispositivo, planificador_io, Wait,
         Restar, Semaforos, TypeOK, TipoSemaforos
  <2>2. TipoListas' /\ TipoTripulantes'
    BY <1>1 DEF IOEsperarTrip, IOEsperarDispositivo, planificador_io, vTrip, TypeOK, TipoListas, TipoTripulantes
  <2>3. TipoHilos'
    BY <1>1 DEF IOEsperarTrip, IOEsperarDispositivo, planificador_io, vPlan,
         vCons, EtiquetasIO, TypeOK, TipoHilos
  <2> QED BY <2>1, <2>2, <2>3 DEF TypeOK
<1>2. CASE IOQuitarBlocked
  <2>1. CASE lista["cola_blocked"] = <<>>
    BY <1>2, <2>1 DEF IOQuitarBlocked, planificador_io, vTrip, vPlan, vCons, TypeOK, TipoSemaforos, TipoListas, TipoTripulantes, TipoHilos
  <2>2. CASE lista["cola_blocked"] # <<>>
    <3>1. /\ lista' \in [Listas -> Seq(Tripulantes)]
          /\ Head(lista["cola_blocked"]) \in Tripulantes
      BY <1>2, <2>2, SacarDeLista DEF IOQuitarBlocked, Listas
    <3>2. TipoSemaforos' /\ TipoListas'
      BY <1>2, <2>2, <3>1 DEF IOQuitarBlocked, planificador_io, TypeOK,
           TipoSemaforos, TipoListas
    <3>3. TipoTripulantes' /\ TipoHilos'
      BY <1>2, <2>2 DEF IOQuitarBlocked, planificador_io, vTrip, vPlan, vCons, TypeOK, TipoTripulantes, TipoHilos, EtiquetasIO
    <3> QED BY <3>2, <3>3 DEF TypeOK
  <2> QED BY <2>1, <2>2
<1>3. CASE IOAvisar
  <2>1. TipoSemaforos'
    <3>1. CASE trip_block = Nadie
      BY <1>3, <3>1 DEF IOAvisar, planificador_io, TypeOK, TipoSemaforos
    <3>2. CASE trip_block # Nadie
      <4>1. trip_block \in Tripulantes
        BY <3>2 DEF TypeOK, TipoListas
      <4> QED BY <1>3, <3>2, <4>1 DEF IOAvisar, planificador_io, TypeOK, TipoSemaforos
    <3> QED BY <3>1, <3>2
  <2>2. TipoListas' /\ TipoTripulantes'
    BY <1>3 DEF IOAvisar, planificador_io, vTrip, TypeOK, TipoListas, TipoTripulantes
  <2>3. TipoHilos'
    BY <1>3 DEF IOAvisar, planificador_io, vPlan, vCons, EtiquetasIO, TypeOK, TipoHilos
  <2> QED BY <2>1, <2>2, <2>3 DEF TypeOK
<1> QED BY <1>1, <1>2, <1>3 DEF planificador_io

\* The input/output planner takes a unit of tripulantes_blocked for each trip it
\* takes from cola_blocked.
LEMMA CuposPlanificadorIO ==
  ASSUME IInv, planificador_io
  PROVE  CupoConservado' /\ ColasContadas'
<1>1. CASE IOEsperarTrip \/ IOEsperarDispositivo
  BY <1>1, Medidas DEF IOEsperarTrip, IOEsperarDispositivo, Wait, Restar,
     Semaforos, planificador_io, vPlan, IInv, TypeOK, TipoSemaforos, CupoConservado,
     ColasContadas, CupoTomado, Uno
<1>2. CASE IOQuitarBlocked
  <2>1. lista["cola_blocked"] # <<>>
    <3>1. pcIO = "quitar"
      BY <1>2 DEF IOQuitarBlocked
    <3>2. sem["tripulantes_blocked"] + 1 = Len(lista["cola_blocked"])
      BY <3>1 DEF IInv, ColasContadas, Uno
    <3>3. Len(lista["cola_blocked"]) # 0
      BY <3>2, Medidas
    <3> QED BY <3>3
  <2>2. /\ Len(lista'["cola_blocked"]) = Len(lista["cola_blocked"]) - 1
        /\ lista'["cola_ready"] = lista["cola_ready"]
        /\ lista'["tripulantes_running"] = lista["tripulantes_running"]
    BY <1>2, <2>1, SacarDeLista DEF IOQuitarBlocked, IInv, Listas
  <2>3. /\ pcIO = "quitar" /\ pcIO' = "avisar"
        /\ pcPlan' = pcPlan /\ sem' = sem
    BY <1>2, <2>1 DEF IOQuitarBlocked, planificador_io, vPlan
  <2> QED BY <2>2, <2>3, Medidas
       DEF IInv, CupoConservado, ColasContadas, CupoTomado, Uno
<1>3. CASE IOAvisar
  BY <1>3 DEF IOAvisar, planificador_io, vPlan, IInv, CupoConservado,
     ColasContadas, CupoTomado, Uno
<1> QED BY <1>1, <1>2, <1>3 DEF planificador_io

\* The console keeps the type invariant.
LEMMA TipoConsola ==
  ASSUME TypeOK, consola
  PROVE  TypeOK'
<1>1. CASE IniciarPlanificacion
  <2>1. TipoSemaforos'
    BY <1>1 DEF IniciarPlanificacion, consola, Post, Sumar, Semaforos, TypeOK, TipoSemaforos
  <2>2. TipoListas' /\ TipoTripulantes'
    BY <1>1 DEF IniciarPlanificacion, consola, vTrip, TypeOK, TipoListas,
         TipoTripulantes
  <2>3. TipoHilos'
    BY <1>1, ConstantesValidas DEF IniciarPlanificacion, consola, vPlan,
         NuevaOrden, EtiquetasConsola, TypeOK, TipoHilos
  <2> QED BY <2>1, <2>2, <2>3 DEF TypeOK
<1>2. CASE ReiniciarMirarSabotaje
  <2>1. TipoSemaforos'
    <3>1. CASE hay_sabotaje
      BY <1>2, <3>1 DEF ReiniciarMirarSabotaje, consola, Post, Sumar, Semaforos, TypeOK,
           TipoSemaforos
    <3>2. CASE ~hay_sabotaje
      BY <1>2, <3>2 DEF ReiniciarMirarSabotaje, consola, TypeOK, TipoSemaforos
    <3> QED BY <3>1, <3>2
  <2>2. TipoListas' /\ TipoTripulantes'
    BY DEF consola, vTrip, TypeOK, TipoListas, TipoTripulantes
  <2>3. TipoHilos'
    BY <1>2 DEF ReiniciarMirarSabotaje, EtiquetasConsola, consola, vPlan, TypeOK, TipoHilos
  <2> QED BY <2>1, <2>2, <2>3 DEF TypeOK
<1>3. CASE ReiniciarPost
  <2>1. lista["tripulantes_running"] \in Seq(Tripulantes) /\ indice \in Nat \ {0}
    BY DEF TypeOK, TipoListas, TipoHilos, Listas
  <2>2. TipoSemaforos'
    <3>1. CASE indice > Len(lista["tripulantes_running"])
      BY <1>3, <3>1 DEF ReiniciarPost, consola, TypeOK, TipoSemaforos
    <3>2. CASE ~(indice > Len(lista["tripulantes_running"]))
      <4>1. lista["tripulantes_running"][indice] \in Tripulantes
        BY <2>1, <3>2
      <4> QED BY <1>3, <3>2, <4>1 DEF ReiniciarPost, consola, TypeOK, TipoSemaforos
    <3> QED BY <3>1, <3>2
  <2>3. TipoListas' /\ TipoTripulantes'
    BY DEF consola, vTrip, TypeOK, TipoListas, TipoTripulantes
  <2>4. TipoHilos'
    <3>0. caido' \in BOOLEAN
      BY <1>3 DEF ReiniciarPost, TypeOK, TipoHilos
    <3>1. indice' \in Nat \ {0}
      BY <1>3, <2>1 DEF ReiniciarPost
    <3>2. pcCons' \in EtiquetasConsola
      BY <1>3 DEF ReiniciarPost, EtiquetasConsola
    <3> QED BY <1>3, <3>0, <3>1, <3>2 DEF ReiniciarPost, consola, vPlan, TypeOK, TipoHilos
  <2> QED BY <2>2, <2>3, <2>4 DEF TypeOK
<1>4. CASE ReiniciarPostBlock
  <2>1. TipoSemaforos'
    BY <1>4 DEF ReiniciarPostBlock, consola, TipoListas, TypeOK,
         TipoSemaforos
  <2>2. TipoListas' /\ TipoTripulantes'
    BY <1>4 DEF ReiniciarPostBlock, consola, vTrip, TypeOK, TipoListas,
         TipoTripulantes
  <2>3. TipoHilos'
    BY <1>4 DEF ReiniciarPostBlock, consola, vPlan, EtiquetasConsola, TypeOK, TipoHilos
  <2> QED BY <2>1, <2>2, <2>3 DEF TypeOK
<1>5. CASE Reiniciar \/ pausar_planificacion
  <2>1. TipoSemaforos'
    BY <1>5 DEF Reiniciar, pausar_planificacion, consola, vSem, TypeOK, TipoSemaforos
  <2>2. TipoListas' /\ TipoTripulantes'
    BY DEF consola, vTrip, TypeOK, TipoListas, TipoTripulantes
  <2>3. ordenes' \in 0 .. MaxOrdenes
    BY <1>5, ConstantesValidas
       DEF Reiniciar, pausar_planificacion, NuevaOrden, TypeOK, TipoHilos
  <2>4. indice' \in Nat \ {0} /\ pcCons' \in EtiquetasConsola
    BY <1>5 DEF Reiniciar, pausar_planificacion, EtiquetasConsola, TypeOK, TipoHilos
  <2>5. planificacion_inicializada' \in BOOLEAN /\ continuar_planificacion' \in BOOLEAN
    BY <1>5 DEF Reiniciar, pausar_planificacion, TypeOK, TipoHilos
  <2>6. TipoHilos'
    BY <1>5, <2>3, <2>4, <2>5
       DEF Reiniciar, pausar_planificacion, consola, vPlan, TypeOK, TipoHilos
  <2> QED BY <2>1, <2>2, <2>6 DEF TypeOK
<1>6. CASE ReiniciarMirar \/ ReiniciarMirarBlock
  BY <1>6 DEF ReiniciarMirar, ReiniciarMirarBlock, EtiquetasConsola, consola,
     vTrip, vPlan, vSem, TypeOK, TipoSemaforos, TipoListas, TipoTripulantes,
     TipoHilos
<1> QED BY <1>1, <1>2, <1>3, <1>4, <1>5, <1>6 DEF consola, iniciar_planificacion,
        TerminarOrden

\* The console keeps the slots and the queues counted.
LEMMA CuposConsola ==
  ASSUME IInv, consola
  PROVE  CupoConservado' /\ ColasContadas'
<1>1. CASE IniciarPlanificacion
  BY <1>1 DEF IniciarPlanificacion, Post, Sumar, Semaforos, TypeOK,
     TipoSemaforos, consola, vPlan, IInv, CupoConservado, ColasContadas, CupoTomado,
     Uno
<1>2. CASE ReiniciarMirarSabotaje
  BY <1>2 DEF ReiniciarMirarSabotaje, SinOtrosHilos, consola, vPlan, vSem, IInv,
     CupoConservado, ColasContadas, CupoTomado, Uno
<1>3. CASE Reiniciar \/ ReiniciarMirar \/ ReiniciarPost \/ ReiniciarMirarBlock \/
         ReiniciarPostBlock \/ pausar_planificacion
  BY <1>3 DEF Reiniciar, ReiniciarMirar, ReiniciarPost, ReiniciarMirarBlock,
     ReiniciarPostBlock, pausar_planificacion, consola, vPlan, vSem, IInv,
     CupoConservado, ColasContadas, CupoTomado, Uno
<1> QED BY <1>1, <1>2, <1>3 DEF consola, iniciar_planificacion, TerminarOrden

\* The planners and the console change no trip but its estado, and none is in
\* emergency.
LEMMA TripulantesQuietos ==
  ASSUME IInv, planificador \/ planificador_io \/ consola
  PROVE  TareaEnIO' /\ SinOtrosHilos'
<1>1. /\ pc' = pc /\ tarea' = tarea /\ continuar' = continuar
      /\ hay_sabotaje' = hay_sabotaje
  BY DEF planificador, planificador_io, consola, vTrip
<1>2. \A t \in Tripulantes : estado'[t] # "EMERGENCY"
  <2>1. CASE PlanPasarARunning
    BY <2>1 DEF PlanPasarARunning, IInv, SinOtrosHilos, TypeOK, TipoTripulantes
  <2>2. estado' = estado \/ PlanPasarARunning
    BY DEF planificador, planificador_io, consola, PlanActivar, PlanContinuar,
         PlanEsperarReady, PlanEsperarCupo, PlanMirarSabotaje, PlanEsperarFinSabotaje,
         PlanHayReady, PlanSinReady, PlanQuitarReady, PlanEncolarRunning
  <2> QED BY <2>1, <2>2 DEF IInv, SinOtrosHilos
<1> QED BY <1>1, <1>2 DEF IInv, TareaEnIO, HayTarea, SinOtrosHilos

-----------------------------------------------------------------------------
(* The theorems *)

\* The inductive invariant holds in every initial state.
LEMMA InvarianteInicial ==
  ASSUME Init
  PROVE  IInv
<1>1. TipoSemaforos
  BY ConstantesValidas DEF Init, InitTripulantes, InitPlanificador, TipoSemaforos, Semaforos
<1>2. TipoListas
  BY DEF Init, InitPlanificador, TipoListas
<1>3. TipoTripulantes
  BY DEF Init, InitTripulantes, TipoTripulantes, Estados, EtiquetasTrip
<1>4. TipoHilos
  <2>1. indice \in Nat \ {0} /\ ordenes \in 0 .. MaxOrdenes
    BY ConstantesValidas DEF Init, InitConsola
  <2> QED BY <2>1 DEF Init, InitPlanificador, InitConsola, TipoHilos, EtiquetasPlan,
               EtiquetasIO, EtiquetasConsola
<1>5. TareaEnIO /\ SinOtrosHilos
  BY DEF Init, InitTripulantes, InitConsola, TareaEnIO, SinOtrosHilos
<1>6. /\ sem["multiprocesamiento"] = GRADO_MULTITAREA
      /\ sem["tripulantes_ready"] = 0 /\ sem["tripulantes_blocked"] = 0
      /\ \A l \in Listas : Len(lista[l]) = 0
  BY DEF Init, InitPlanificador, Semaforos
<1>7. CupoConservado /\ ColasContadas
  BY <1>6, ConstantesValidas
     DEF Init, InitPlanificador, CupoConservado, ColasContadas, CupoTomado, Uno, Listas
<1> QED BY <1>1, <1>2, <1>3, <1>4, <1>5, <1>7 DEF IInv, TypeOK

\* Every step of every thread keeps the inductive invariant.
LEMMA InvarianteInductivo ==
  ASSUME IInv, [Next]_vars
  PROVE  IInv'
<1>1. ASSUME NEW t \in Tripulantes, Tripulante(t)
      PROVE  IInv'
  <2>1. TypeOK' /\ TareaEnIO'
    BY <1>1, TipoTripulante, TareaTripulante DEF IInv
  <2>2. SinOtrosHilos' /\ CupoConservado' /\ ColasContadas'
    BY <1>1, SinOtrosTripulante, CuposTripulante
  <2> QED BY <2>1, <2>2 DEF IInv
<1>2. CASE planificador
  BY <1>2, TipoPlanificador, CuposPlanificador, TripulantesQuietos DEF IInv
<1>3. CASE planificador_io
  BY <1>3, TipoPlanificadorIO, CuposPlanificadorIO, TripulantesQuietos DEF IInv
<1>4. CASE consola
  BY <1>4, TipoConsola, CuposConsola, TripulantesQuietos DEF IInv
<1>5. CASE UNCHANGED vars
  BY <1>5 DEF vars, vSem, vTrip, vPlan, vCons, IInv, TypeOK, TipoSemaforos, TipoListas,
       TipoTripulantes, TipoHilos, TareaEnIO, HayTarea, SinOtrosHilos, CupoConservado,
       CupoTomado, ColasContadas
<1> QED BY <1>1, <1>2, <1>3, <1>4, <1>5 DEF Next

\* Whatever the crew, the tasks, the algorithm and GRADO_MULTITAREA, the inductive
\* invariant holds in every reachable state.
THEOREM Invariante == Spec => []IInv
<1>1. Init => IInv
  BY InvarianteInicial
<1>2. IInv /\ [Next]_vars => IInv'
  BY InvarianteInductivo
<1> QED BY <1>1, <1>2, PTL DEF Spec

\* Every variable keeps its type, and the planner has a trip in its hands whenever
\* agregar_running dereferences it (planificador.c, colas_planificacion.c).
THEOREM TipoCorrecto == Spec => []TypeOK
<1>1. IInv => TypeOK
  BY DEF IInv
<1> QED BY <1>1, Invariante, PTL

\* multiprocesamiento neither loses nor invents a slot, whatever GRADO_MULTITAREA,
\* in every interleaving of the planner, the console and the trips that leave
\* running (colas_planificacion.c).
THEOREM CuposExactos == Spec => []CupoConservado
<1>1. IInv => CupoConservado
  BY DEF IInv
<1> QED BY <1>1, Invariante, PTL

\* tripulantes_ready and tripulantes_blocked count the trips in their queues, less
\* the one a planner is about to take (planificador.c).
THEOREM ColasExactas == Spec => []ColasContadas
<1>1. IInv => ColasContadas
  BY DEF IInv
<1> QED BY <1>1, Invariante, PTL

-----------------------------------------------------------------------------
(* Where a trip is: the invariants *)

\* t is in no list, nor in the planner's hands
Ausente(t) == elegido # t /\ \A l \in Listas : ~EstaEn(t, l)

\* Every trip is once in its list, in one list, and in none while the planner
\* dispatches it.
UnLugar ==
  /\ \A l \in Listas : IsInjective(lista[l])
  /\ \A t \in Tripulantes : \A l, m \in Listas : EstaEn(t, l) /\ EstaEn(t, m) => l = m
  /\ \A l \in Listas : ~EstaEn(elegido, l)

\* a trip with the device, from the step after its sem_wait to the one that gives
\* it back
ConDispositivo ==
  {"pausa_io", "pausado_io", "continuar_io", "buscar_blocked", "sacar_blocked",
   "sabotaje_io", "finalizo_io", "ciclo_io", "sabotaje_ciclo", "finalizo_ciclo", "pausa_ciclo", "pausado_ciclo"}

\* between two lists
EnTransito ==
  {"ready_inicio", "encolar_inicio", "ready_quantum", "encolar_quantum", "bloquear",
   "encolar_blocked", "vuelta_io", "ready_io", "encolar_io", "exit", "terminado"}
    \union ConDispositivo

\* A trip that has left its first request has asked for a task.
Empezadas == \A t \in Tripulantes : pc[t] = "solicitar" \/ tarea[t] > 0

\* A trip between two lists is in none.
Ausencias ==
  \A t \in Tripulantes :
    pc[t] \in EnTransito \/ (pc[t] = "solicitar" /\ tarea[t] = 0) => Ausente(t)

\* Only a trip that waits for the device is in cola_blocked, is given it or has
\* its sem_blocked posted, each at its time.
Bloqueos ==
  \A t \in Tripulantes :
    /\ EstaEn(t, "cola_blocked") => pc[t] = "espera_blocked" /\ sem_blocked[t] = 0
    /\ pcIO = "avisar" /\ trip_block = t =>
         pc[t] = "espera_blocked" /\ sem_blocked[t] = 0 /\ Ausente(t)
    /\ sem_blocked[t] > 0 =>
         pc[t] = "espera_blocked" /\ sem_blocked[t] = 1 /\ Ausente(t)

\* estado names the list, before the trip enters it too
Nombres ==
  /\ \A t \in Tripulantes :
       /\ EstaEn(t, "cola_ready") => estado[t] = "READY"
       /\ EstaEn(t, "cola_blocked") => estado[t] = "BLOCKED"
       /\ EstaEn(t, "tripulantes_running") => estado[t] = "RUNNING"
       /\ pc[t] \in {"encolar_inicio", "encolar_quantum", "encolar_io"}
            => estado[t] = "READY"
       /\ pc[t] = "encolar_blocked" => estado[t] = "BLOCKED"
       /\ pc[t] = "terminado" => estado[t] = "EXIT"
  /\ pcPlan = "encolar_running" => estado[elegido] = "RUNNING"

\* t has the device, or has been told so
Tiene(t) == sem_blocked[t] > 0 \/ pc[t] \in ConDispositivo

\* The device is free, or being given, or of one trip.
Dispositivo ==
  /\ sem["io_disponible"] > 0 => sem["io_disponible"] = 1 /\ pcIO \notin {"quitar", "avisar"}
  /\ sem["io_disponible"] > 0 \/ pcIO \in {"quitar", "avisar"} =>
       \A t \in Tripulantes : ~Tiene(t)
  /\ \A t, u \in Tripulantes : Tiene(t) /\ Tiene(u) => t = u
  /\ pcIO = "avisar" => trip_block \in Tripulantes

\* The inductive invariant.  Of a process that died only the lists and the states
\* are left to speak of.
Lugares ==
  /\ UnLugar /\ Nombres /\ Empezadas
  /\ ~caido => Ausencias /\ Bloqueos /\ Dispositivo
Ubicados == IInv /\ Lugares

\* the waits for the planner's post
EsperaCupo == {"espera_inicio", "espera_quantum", "espera_io"}

\* t is between the planner's post and the step that gives the slot back
Despachado(t) ==
  \/ pc[t] \in {"pausa_inicio", "pausado_inicio", "ciclo", "quitar_quantum",
                "pausa_puede", "pausado_puede", "emergencia", "tarea_hecha", "fin"}
  \/ pc[t] = "solicitar" /\ tarea[t] > 0

\* While nobody resumes planning: sem_running is posted by the planner alone, once
\* for each time the trip enters running, and the console never walks the lists.
Despachos ==
  /\ pcCons = "leer"
  /\ \A t \in Tripulantes :
       /\ EstaEn(t, "cola_ready") \/ elegido = t => pc[t] \in EsperaCupo
       /\ sem_running[t] > 0 =>
            pc[t] \in EsperaCupo /\ sem_running[t] = 1 /\ EstaEn(t, "tripulantes_running")
       /\ Tareas[t] # <<>> /\ Despachado(t) => EstaEn(t, "tripulantes_running")

\* Every patota has tasks.
HayTareas == \A t \in Tripulantes : Tareas[t] # <<>>

\* The inductive invariant of an execution without a resumption.
SinReanudar == Ubicados /\ Despachos /\ (HayTareas => ~caido)

-----------------------------------------------------------------------------
(* What the operators on lists do to the places of the trips *)

\* list_add of a trip that is not in the list.
LEMMA AlFinal ==
  ASSUME NEW S, NEW s \in Seq(S), NEW e \in S
  PROVE  /\ ToSet(Append(s, e)) = ToSet(s) \union {e}
         /\ IsInjective(s) /\ e \notin ToSet(s) => IsInjective(Append(s, e))
<1> DEFINE q == Append(s, e)
<1>1. /\ q \in Seq(S) /\ Len(q) = Len(s) + 1 /\ Len(s) \in Nat
      /\ \A i \in 1 .. Len(s) : q[i] = s[i]
      /\ q[Len(s) + 1] = e
      /\ DOMAIN q = 1 .. Len(s) + 1 /\ DOMAIN s = 1 .. Len(s)
  OBVIOUS
<1> HIDE DEF q
<1>2. ToSet(q) = ToSet(s) \union {e}
  BY <1>1 DEF ToSet
<1>3. ASSUME IsInjective(s), e \notin ToSet(s)
      PROVE  IsInjective(q)
  BY <1>1, <1>3 DEF ToSet, IsInjective
<1> QED BY <1>2, <1>3 DEF q

\* list_remove(l, 0) of a list without repetitions.
LEMMA SinCabeza ==
  ASSUME NEW S, NEW s \in Seq(S), s # <<>>, IsInjective(s)
  PROVE  /\ ToSet(Tail(s)) = ToSet(s) \ {Head(s)}
         /\ IsInjective(Tail(s))
         /\ Head(s) \in ToSet(s)
<1> DEFINE q == Tail(s)
<1>1. /\ Len(s) \in Nat \ {0} /\ Len(q) = Len(s) - 1
      /\ \A i \in 1 .. Len(s) - 1 : q[i] = s[i + 1]
      /\ DOMAIN q = 1 .. Len(s) - 1 /\ DOMAIN s = 1 .. Len(s)
      /\ Head(s) = s[1]
  OBVIOUS
<1> HIDE DEF q
<1>2. IsInjective(q)
  BY <1>1 DEF IsInjective
<1>3. ToSet(q) \subseteq ToSet(s) \ {s[1]}
  BY <1>1 DEF ToSet, IsInjective
<1>4. ASSUME NEW i \in 1 .. Len(s), s[i] # s[1]
      PROVE  s[i] \in ToSet(q)
  <2>1. i - 1 \in 1 .. Len(s) - 1 /\ (i - 1) + 1 = i
    BY <1>1, <1>4
  <2>2. q[i - 1] = s[i]
    BY <1>1, <2>1
  <2> QED BY <1>1, <2>1, <2>2 DEF ToSet
<1>5. ToSet(q) = ToSet(s) \ {s[1]}
  BY <1>1, <1>3, <1>4 DEF ToSet
<1>6. Head(s) \in ToSet(s)
  BY <1>1 DEF ToSet
<1> QED BY <1>1, <1>2, <1>5, <1>6 DEF q

\* RemoveAt keeps the other elements, in order.
LEMMA LosOtros ==
  ASSUME NEW S, NEW s \in Seq(S), NEW n \in 1 .. Len(s)
  PROVE  /\ DOMAIN RemoveAt(s, n) = 1 .. Len(s) - 1
         /\ \A i \in 1 .. Len(s) - 1 :
              RemoveAt(s, n)[i] = IF i < n THEN s[i] ELSE s[i + 1]
<1> DEFINE a == SubSeq(s, 1, n - 1)
           b == SubSeq(s, n + 1, Len(s))
<1>1. /\ a \in Seq(S) /\ Len(a) = n - 1 /\ Len(s) \in Nat
      /\ \A i \in 1 .. n - 1 : a[i] = s[i]
  OBVIOUS
<1>2. /\ b \in Seq(S) /\ Len(b) = Len(s) - n
      /\ \A i \in 1 .. Len(s) - n : b[i] = s[i + n]
  OBVIOUS
<1>3. RemoveAt(s, n) = a \o b
  BY DEF RemoveAt
<1> HIDE DEF a, b
<1>4. /\ a \o b \in Seq(S) /\ Len(a \o b) = Len(s) - 1
      /\ \A i \in 1 .. Len(s) - 1 :
           (a \o b)[i] = IF i <= n - 1 THEN a[i] ELSE b[i - (n - 1)]
  <2>1. /\ a \o b \in Seq(S) /\ Len(a \o b) = Len(a) + Len(b)
        /\ \A i \in 1 .. Len(a) + Len(b) :
             (a \o b)[i] = IF i <= Len(a) THEN a[i] ELSE b[i - Len(a)]
    BY <1>1, <1>2, ConcatProperties
  <2>2. Len(a) + Len(b) = Len(s) - 1
    BY <1>1, <1>2
  <2> QED BY <1>1, <2>1, <2>2
<1>5. ASSUME NEW i \in 1 .. Len(s) - 1
      PROVE  (a \o b)[i] = IF i < n THEN s[i] ELSE s[i + 1]
  <2>1. CASE i < n
    BY <1>1, <1>4, <2>1
  <2>2. CASE ~(i < n)
    <3>1. i - (n - 1) \in 1 .. Len(s) - n /\ (i - (n - 1)) + n = i + 1
      BY <1>1, <2>2
    <3> QED BY <1>1, <1>2, <1>4, <2>2, <3>1
  <2> QED BY <2>1, <2>2
<1>6. DOMAIN (a \o b) = 1 .. Len(s) - 1
  BY <1>1, <1>4
<1> QED BY <1>3, <1>5, <1>6

\* quitar on a list without repetitions leaves the others, in order.
LEMMA SinElemento ==
  ASSUME NEW S, NEW s \in Seq(S), NEW e, IsInjective(s)
  PROVE  /\ ToSet(RemoveFirst(s, e)) = ToSet(s) \ {e}
         /\ IsInjective(RemoveFirst(s, e))
<1>1. CASE e \notin ToSet(s)
  <2>1. ~ \E i \in 1 .. Len(s) : s[i] = e
    BY <1>1 DEF ToSet
  <2>2. RemoveFirst(s, e) = s
    BY <2>1 DEF RemoveFirst
  <2> QED BY <1>1, <2>2
<1>2. CASE e \in ToSet(s)
  <2> DEFINE I == {i \in 1 .. Len(s) : s[i] = e}
             q == RemoveAt(s, Min(I))
  <2>1. \E i \in 1 .. Len(s) : s[i] = e
    BY <1>2 DEF ToSet
  <2>2. I # {} /\ I \in SUBSET Nat
    BY <2>1
  <2>3. Min(I) \in 1 .. Len(s) /\ s[Min(I)] = e
    BY <2>2, MinimoExiste
  <2>4. RemoveFirst(s, e) = q
    BY <2>1, <2>2 DEF RemoveFirst, SelectInSeq
  <2>5. PICK n \in 1 .. Len(s) : n = Min(I) /\ s[n] = e
    BY <2>3
  <2>6. /\ Len(s) \in Nat /\ DOMAIN s = 1 .. Len(s) /\ DOMAIN q = 1 .. Len(s) - 1
        /\ \A i \in 1 .. Len(s) - 1 : q[i] = IF i < n THEN s[i] ELSE s[i + 1]
    <3>1. q = RemoveAt(s, n)
      BY <2>5
    <3> HIDE DEF q
    <3>2. Len(s) \in Nat /\ DOMAIN s = 1 .. Len(s)
      OBVIOUS
    <3> QED BY <3>1, <3>2, LosOtros
  <2> HIDE DEF I, q
  <2>7. IsInjective(q)
    BY <2>6 DEF IsInjective
  <2>8. \A i \in 1 .. Len(s) : i # n => s[i] # e
    BY <2>5, <2>6 DEF IsInjective
  <2>9. ToSet(q) \subseteq ToSet(s) \ {e}
    BY <2>5, <2>6, <2>8 DEF ToSet
  <2>10. ASSUME NEW i \in 1 .. Len(s), s[i] # e
         PROVE  s[i] \in ToSet(q)
    <3>1. CASE i < n
      <4>1. i \in 1 .. Len(s) - 1 /\ q[i] = s[i]
        BY <2>6, <3>1
      <4> QED BY <2>6, <4>1 DEF ToSet
    <3>2. CASE i > n
      <4>1. i - 1 \in 1 .. Len(s) - 1 /\ (i - 1) + 1 = i /\ ~(i - 1 < n)
        BY <2>6, <3>2
      <4>2. q[i - 1] = s[i]
        BY <2>6, <4>1
      <4> QED BY <2>6, <4>1, <4>2 DEF ToSet
    <3>3. i # n
      BY <2>5, <2>10
    <3> QED BY <3>1, <3>2, <3>3
  <2>11. ToSet(s) \ {e} \subseteq ToSet(q)
    BY <2>6, <2>10 DEF ToSet
  <2> QED BY <2>4, <2>7, <2>9, <2>11
<1> QED BY <1>1, <1>2

\* A sequence has at least as many positions as elements.
LEMMA NoMasQuePosiciones ==
  ASSUME NEW S, NEW s \in Seq(S)
  PROVE  IsFiniteSet(ToSet(s)) /\ Cardinality(ToSet(s)) <= Len(s)
<1>1. Len(s) \in Nat /\ DOMAIN s = 1 .. Len(s) /\ s \in [1 .. Len(s) -> S]
  OBVIOUS
<1>2. IsFiniteSet(1 .. Len(s)) /\ Cardinality(1 .. Len(s)) = Len(s)
  BY <1>1, FS_Interval
<1>3. s \in Surjection(1 .. Len(s), ToSet(s))
  BY <1>1 DEF Surjection, ToSet
<1> QED BY <1>1, <1>2, <1>3, FS_Surjection

\* Encolar: t joins the list l, once.
LEMMA Entra ==
  ASSUME TypeOK, UnLugar, NEW t \in Tripulantes, NEW l \in Listas, ~EstaEn(t, l),
         Encolar(t, l)
  PROVE  /\ \A m \in Listas : IsInjective(lista'[m])
         /\ \A u, m : m \in Listas => (EstaEn(u, m)' <=> EstaEn(u, m) \/ (u = t /\ m = l))
<1> DEFINE q == Append(lista[l], t)
<1>1. lista \in [Listas -> Seq(Tripulantes)] /\ lista[l] \in Seq(Tripulantes)
  BY DEF TypeOK, TipoListas
<1>2. lista' = [lista EXCEPT ![l] = q]
  BY DEF Encolar
<1>3. ToSet(q) = ToSet(lista[l]) \union {t} /\ IsInjective(q)
  BY <1>1, AlFinal DEF UnLugar, EstaEn
<1> HIDE DEF q
<1>4. lista'[l] = q /\ \A m \in Listas \ {l} : lista'[m] = lista[m]
  BY <1>1, <1>2
<1>5. \A m \in Listas : IsInjective(lista'[m])
  BY <1>3, <1>4 DEF UnLugar
<1>6. ASSUME NEW u, NEW m \in Listas
      PROVE  EstaEn(u, m)' <=> EstaEn(u, m) \/ (u = t /\ m = l)
  BY <1>3, <1>4 DEF EstaEn
<1> QED BY <1>5, <1>6

\* list_remove(l, 0): the first of l leaves it.
LEMMA SalePrimero ==
  ASSUME TypeOK, UnLugar, NEW l \in Listas, lista[l] # <<>>,
         lista' = [lista EXCEPT ![l] = Tail(@)]
  PROVE  /\ \A m \in Listas : IsInjective(lista'[m])
         /\ EstaEn(Head(lista[l]), l) /\ Head(lista[l]) \in Tripulantes
         /\ \A u, m : m \in Listas =>
              (EstaEn(u, m)' <=> EstaEn(u, m) /\ ~(u = Head(lista[l]) /\ m = l))
<1> DEFINE q == Tail(lista[l])
           h == Head(lista[l])
<1>1. lista \in [Listas -> Seq(Tripulantes)] /\ lista[l] \in Seq(Tripulantes)
  BY DEF TypeOK, TipoListas
<1>2. lista' = [lista EXCEPT ![l] = q]
  OBVIOUS
<1>3. ToSet(q) = ToSet(lista[l]) \ {h} /\ IsInjective(q) /\ h \in ToSet(lista[l])
  BY <1>1, SinCabeza DEF UnLugar
<1>4. h \in Tripulantes
  BY <1>1
<1> HIDE DEF q
<1>5. lista'[l] = q /\ \A m \in Listas \ {l} : lista'[m] = lista[m]
  BY <1>1, <1>2
<1>6. \A m \in Listas : IsInjective(lista'[m])
  BY <1>3, <1>5 DEF UnLugar
<1>7. ASSUME NEW u, NEW m \in Listas
      PROVE  EstaEn(u, m)' <=> EstaEn(u, m) /\ ~(u = h /\ m = l)
  BY <1>3, <1>5 DEF EstaEn
<1> QED BY <1>3, <1>4, <1>6, <1>7 DEF EstaEn

\* quitar: t leaves the list l, if it was there.
LEMMA Sale ==
  ASSUME TypeOK, UnLugar, NEW t \in Tripulantes, NEW l \in Listas, quitar(t, l)
  PROVE  /\ \A m \in Listas : IsInjective(lista'[m])
         /\ caido' <=> ~EstaEn(t, l)
         /\ \A u, m : m \in Listas =>
              (EstaEn(u, m)' <=> EstaEn(u, m) /\ ~(u = t /\ m = l))
<1> DEFINE q == RemoveFirst(lista[l], t)
<1>1. lista \in [Listas -> Seq(Tripulantes)] /\ lista[l] \in Seq(Tripulantes)
  BY DEF TypeOK, TipoListas
<1>2. lista' = [lista EXCEPT ![l] = q] /\ caido' = ~EstaEn(t, l)
  BY DEF quitar
<1>3. ToSet(q) = ToSet(lista[l]) \ {t} /\ IsInjective(q)
  BY <1>1, SinElemento DEF UnLugar
<1> HIDE DEF q
<1>4. lista'[l] = q /\ \A m \in Listas \ {l} : lista'[m] = lista[m]
  BY <1>1, <1>2
<1>5. \A m \in Listas : IsInjective(lista'[m])
  BY <1>3, <1>4 DEF UnLugar
<1>6. ASSUME NEW u, NEW m \in Listas
      PROVE  EstaEn(u, m)' <=> EstaEn(u, m) /\ ~(u = t /\ m = l)
  BY <1>3, <1>4 DEF EstaEn
<1> QED BY <1>2, <1>5, <1>6

-----------------------------------------------------------------------------
(* The steps of a trip *)

\* t is between two lists
Viaja(t) == pc[t] \in EnTransito \/ (pc[t] = "solicitar" /\ tarea[t] = 0)

\* the estado of a trip about to enter a list, or at its end
Nombrado(t) ==
  /\ pc[t] \in {"encolar_inicio", "encolar_quantum", "encolar_io"} => estado[t] = "READY"
  /\ pc[t] = "encolar_blocked" => estado[t] = "BLOCKED"
  /\ pc[t] = "terminado" => estado[t] = "EXIT"

\* A step that touches no list, sem_blocked or trip_block, and does not start a
\* journey, keeps the trips in their places.
LEMMA PasoSinListas ==
  ASSUME TypeOK, Lugares, ~caido, NEW t \in Tripulantes,
         lista' = lista, elegido' = elegido, pcPlan' = pcPlan, pcIO' = pcIO,
         trip_block' = trip_block, sem_blocked' = sem_blocked,
         sem'["io_disponible"] = sem["io_disponible"],
         \A u \in Tripulantes \ {t} :
           pc'[u] = pc[u] /\ tarea'[u] = tarea[u] /\ estado'[u] = estado[u],
         Viaja(t)' => Viaja(t),
         pc'[t] \in ConDispositivo => pc[t] \in ConDispositivo,
         pc[t] # "espera_blocked",
         pc'[t] = "solicitar" \/ tarea'[t] > 0,
         estado'[t] = estado[t] \/ Ausente(t),
         Nombrado(t)'
  PROVE  Lugares'
<1>1. UnLugar'
  BY DEF Lugares, UnLugar, EstaEn
<1>2. Nombres'
  <2>1. \A u \in Tripulantes, l \in Listas : EstaEn(u, l)' <=> EstaEn(u, l)
    BY DEF EstaEn
  <2>2. \A u \in Tripulantes : (u = t /\ Ausente(t)) \/ estado'[u] = estado[u]
    OBVIOUS
  <2>3. ASSUME NEW u \in Tripulantes
        PROVE  /\ EstaEn(u, "cola_ready")' => estado'[u] = "READY"
               /\ EstaEn(u, "cola_blocked")' => estado'[u] = "BLOCKED"
               /\ EstaEn(u, "tripulantes_running")' => estado'[u] = "RUNNING"
    BY <2>1, <2>2 DEF Lugares, Nombres, Ausente, Listas
  <2>4. \A u \in Tripulantes : Nombrado(u)'
    BY DEF Lugares, Nombres, Nombrado
  <2>5. (pcPlan = "encolar_running" => estado[elegido] = "RUNNING")'
    BY <2>2 DEF TypeOK, TipoHilos, Lugares, Nombres, Ausente
  <2> QED BY <2>3, <2>4, <2>5 DEF Nombres, Nombrado
<1>3. Ausencias'
  <2>1. \A u \in Tripulantes : Viaja(u)' => Viaja(u)
    BY DEF Viaja
  <2>2. \A u \in Tripulantes : Ausente(u)' <=> Ausente(u)
    BY DEF Ausente, EstaEn
  <2> QED BY <2>1, <2>2 DEF Lugares, Ausencias, Viaja
<1>4. Bloqueos'
  BY DEF Lugares, Bloqueos, EstaEn, Ausente
<1>5. Dispositivo'
  <2>1. \A u \in Tripulantes : Tiene(u)' => Tiene(u)
    BY DEF Tiene
  <2> QED BY <2>1 DEF Lugares, Dispositivo
<1>6. Empezadas'
  BY DEF Lugares, Empezadas
<1> QED BY <1>1, <1>2, <1>3, <1>4, <1>5, <1>6 DEF Lugares

\* The steps of a trip that touch nothing but its own data, or a flag.
LEMMA LugaresPropios ==
  ASSUME Ubicados, ~caido, NEW t \in Tripulantes, Tripulante(t),
         \/ SolicitarTarea(t) \/ EsperarRunning(t) \/ MirarPausa(t) \/ EjecutarCiclo(t)
         \/ MirarEmergencia(t) \/ DejarCiclo(t) \/ ContinuarIO(t) \/ MirarSabotaje(t)
         \/ EsperarFinSabotaje(t) \/ CicloIO(t) \/ MirarContinuar(t)
         \/ PasarAReady(t) \/ PasarABlocked(t) \/ PasarAExit(t)
  PROVE  Lugares'
<1> USE DEF Ubicados, IInv, TypeOK, TipoTripulantes
<1>1. elegido' = elegido /\ pcPlan' = pcPlan /\ pcIO' = pcIO
  BY DEF Tripulante, vPlan
<1>2. /\ lista' = lista /\ trip_block' = trip_block /\ sem_blocked' = sem_blocked
      /\ sem'["io_disponible"] = sem["io_disponible"]
  BY DEF SolicitarTarea, EsperarRunning, MirarPausa, EjecutarCiclo, MirarEmergencia,
     DejarCiclo, ContinuarIO, MirarSabotaje, EsperarFinSabotaje, CicloIO, MirarContinuar,
     PasarAReady, PasarABlocked, PasarAExit, vSem, Wait, Restar, SinOtrosHilos, TipoSemaforos,
     Semaforos
<1>3. \A u \in Tripulantes \ {t} :
        pc'[u] = pc[u] /\ tarea'[u] = tarea[u] /\ estado'[u] = estado[u]
  BY DEF SolicitarTarea, EsperarRunning, MirarPausa, EjecutarCiclo, MirarEmergencia,
     DejarCiclo, ContinuarIO, MirarSabotaje, EsperarFinSabotaje, CicloIO, MirarContinuar,
     PasarAReady, PasarABlocked, PasarAExit, Seguir, Ir
<1>4. /\ Viaja(t)' => Viaja(t)
      /\ pc'[t] \in ConDispositivo => pc[t] \in ConDispositivo
      /\ pc[t] # "espera_blocked"
      /\ pc'[t] = "solicitar" \/ tarea'[t] > 0
      /\ estado'[t] = estado[t] \/ pc[t] \in EnTransito
      /\ Nombrado(t)'
  <2>1. CASE SolicitarTarea(t)
    BY <2>1 DEF SolicitarTarea, Ir, Viaja, Nombrado, Lugares, Empezadas, EnTransito, ConDispositivo
  <2>2. CASE EsperarRunning(t)
    BY <2>2 DEF EsperarRunning, Seguir, Sigue, Ir, Viaja, Nombrado, Lugares, Empezadas, EnTransito, ConDispositivo
  <2>3. CASE MirarPausa(t)
    BY <2>3 DEF MirarPausa, Seguir, Sigue, Ir, Viaja, Nombrado, Lugares, Empezadas, EnTransito, ConDispositivo
  <2>4. CASE EjecutarCiclo(t) \/ CicloIO(t)
    BY <2>4 DEF EjecutarCiclo, CicloIO, Ir, Viaja, Nombrado, Lugares, Empezadas, EnTransito, ConDispositivo
  <2>5. CASE MirarEmergencia(t)
    BY <2>5 DEF MirarEmergencia, SinOtrosHilos, Seguir, Sigue, Ir, Viaja, Nombrado, Lugares, Empezadas,
       EnTransito, ConDispositivo
  <2>6. CASE DejarCiclo(t)
    <3>1. HayTarea(t) => tarea[t] # 0
      BY DEF HayTarea
    <3> QED BY <2>6, <3>1 DEF DejarCiclo, Ir, Viaja, Nombrado, Lugares, Empezadas, EnTransito, ConDispositivo
  <2>7. CASE ContinuarIO(t)
    BY <2>7 DEF ContinuarIO, SinOtrosHilos, Ir, Viaja, Nombrado, Lugares, Empezadas, EnTransito, ConDispositivo
  <2>8. CASE MirarSabotaje(t)
    BY <2>8 DEF MirarSabotaje, Seguir, Sigue, Ir, Viaja, Nombrado, Lugares, Empezadas, EnTransito, ConDispositivo
  <2>9. CASE EsperarFinSabotaje(t)
    BY <2>9 DEF EsperarFinSabotaje, Seguir, Sigue, Ir, Viaja, Nombrado, Lugares, Empezadas, EnTransito,
       ConDispositivo
  <2>10. CASE MirarContinuar(t)
    BY <2>10 DEF MirarContinuar, SinOtrosHilos, Seguir, Sigue, Ir, Viaja, Nombrado, Lugares, Empezadas, EnTransito,
       ConDispositivo
  <2>11. CASE PasarAReady(t)
    BY <2>11 DEF PasarAReady, Seguir, Sigue, Ir, Viaja, Nombrado, Lugares, Empezadas, EnTransito, ConDispositivo
  <2>12. CASE PasarABlocked(t) \/ PasarAExit(t)
    BY <2>12 DEF PasarABlocked, PasarAExit, Ir, Viaja, Nombrado, Lugares, Empezadas, EnTransito, ConDispositivo
  <2> QED BY <2>1, <2>2, <2>3, <2>4, <2>5, <2>6, <2>7, <2>8, <2>9, <2>10, <2>11, <2>12
<1>5. estado'[t] = estado[t] \/ Ausente(t)
  BY <1>4 DEF Lugares, Ausencias
<1>6. TypeOK /\ Lugares
  OBVIOUS
<1> HIDE DEF Ubicados, IInv, TypeOK, TipoTripulantes
<1> QED BY <1>1, <1>2, <1>3, <1>4, <1>5, <1>6, PasoSinListas

\* A trip enters cola_ready or cola_blocked from its journey.
LEMMA LugaresEncolar ==
  ASSUME Ubicados, ~caido, NEW t \in Tripulantes, Tripulante(t),
         EncolarReady(t) \/ EncolarBlocked(t)
  PROVE  Lugares'
<1>1. /\ elegido' = elegido /\ pcPlan' = pcPlan /\ pcIO' = pcIO
      /\ trip_block' = trip_block /\ sem_blocked' = sem_blocked
      /\ estado' = estado /\ tarea' = tarea /\ caido' = caido
  BY DEF Tripulante, vPlan, EncolarReady, EncolarBlocked
<1>2. sem'["io_disponible"] = sem["io_disponible"]
  BY DEF EncolarReady, EncolarBlocked, Post, Sumar, Ubicados, IInv, TypeOK, TipoSemaforos,
     Semaforos
<1>3. PICK m \in Listas :
        /\ Encolar(t, m)
        /\ \A u \in Tripulantes \ {t} : pc'[u] = pc[u]
        /\ \/ /\ m = "cola_ready" /\ pc'[t] \in EsperaCupo
              /\ pc[t] \in {"encolar_inicio", "encolar_quantum", "encolar_io"}
           \/ /\ m = "cola_blocked" /\ pc'[t] = "espera_blocked"
              /\ pc[t] = "encolar_blocked"
  <2>1. CASE EncolarReady(t)
    BY <2>1 DEF EncolarReady, Seguir, Sigue, Ir, EsperaCupo, Listas, Ubicados, IInv, TypeOK,
       TipoTripulantes
  <2>2. CASE EncolarBlocked(t)
    BY <2>2 DEF EncolarBlocked, Ir, Listas, Ubicados, IInv, TypeOK, TipoTripulantes
  <2> QED BY <2>1, <2>2
<1>4. Ausente(t) /\ TypeOK /\ UnLugar /\ Nombres /\ Empezadas
      /\ Ausencias /\ Bloqueos /\ Dispositivo
  BY <1>3 DEF Ubicados, IInv, Lugares, Ausencias, EnTransito
<1>5. /\ \A n \in Listas : IsInjective(lista'[n])
      /\ \A u, n : n \in Listas => (EstaEn(u, n)' <=> EstaEn(u, n) \/ (u = t /\ n = m))
  BY <1>3, <1>4, Entra DEF Ausente
<1>6. UnLugar'
  <2>1. \A u \in Tripulantes : \A a, b \in Listas : EstaEn(u, a)' /\ EstaEn(u, b)' => a = b
    BY <1>4, <1>5 DEF UnLugar, Ausente
  <2>2. \A n \in Listas : ~EstaEn(elegido, n)'
    BY <1>1, <1>4, <1>5 DEF UnLugar, Ausente
  <2> QED BY <1>5, <2>1, <2>2 DEF UnLugar
<1>7. Nombres' /\ Empezadas'
  BY <1>1, <1>3, <1>4, <1>5 DEF Nombres, Listas, EsperaCupo, Empezadas
<1>8. Ausencias'
  <2>1. \A u \in Tripulantes \ {t} : Ausente(u) => Ausente(u)'
    BY <1>1, <1>5 DEF Ausente
  <2> QED BY <1>1, <1>3, <1>4, <2>1 DEF Ausencias, EsperaCupo, EnTransito, ConDispositivo
<1>9. Bloqueos'
  <2>1. \A u \in Tripulantes \ {t} : Ausente(u) => Ausente(u)'
    BY <1>1, <1>5 DEF Ausente
  <2>2. ASSUME NEW u \in Tripulantes \ {t}
        PROVE  /\ EstaEn(u, "cola_blocked")' => EstaEn(u, "cola_blocked")
               /\ pc'[u] = pc[u]
    BY <1>3, <1>5 DEF Listas
  <2>3. sem_blocked[t] = 0 /\ ~(pcIO = "avisar" /\ trip_block = t)
    BY <1>3, <1>4 DEF Bloqueos, TypeOK, TipoSemaforos
  <2>4. EstaEn(t, "cola_blocked")' => m = "cola_blocked"
    BY <1>4, <1>5 DEF Ausente, Listas
  <2> QED BY <1>1, <1>3, <1>4, <2>1, <2>2, <2>3, <2>4 DEF Bloqueos
<1>10. Dispositivo'
  <2>1. \A u \in Tripulantes : Tiene(u)' => Tiene(u)
    BY <1>1, <1>3 DEF Tiene, EsperaCupo, ConDispositivo
  <2> QED BY <1>1, <1>2, <1>4, <2>1 DEF Dispositivo
<1> QED BY <1>6, <1>7, <1>8, <1>9, <1>10 DEF Lugares

\* A trip leaves running, at the end of its quantum, for its i/o or for good; the
\* process dies if it was not there.
LEMMA LugaresDejar ==
  ASSUME Ubicados, ~caido, NEW t \in Tripulantes, Tripulante(t),
         DejarPorQuantum(t) \/ DejarPorIO(t) \/ Finalizar(t)
  PROVE  Lugares'
<1>1. /\ elegido' = elegido /\ pcPlan' = pcPlan /\ pcIO' = pcIO
      /\ trip_block' = trip_block /\ sem_blocked' = sem_blocked
      /\ estado' = estado /\ tarea' = tarea
      /\ quitar(t, "tripulantes_running")
  BY DEF Tripulante, vPlan, DejarPorQuantum, DejarPorIO, Finalizar, quitar_running
<1>2. sem'["io_disponible"] = sem["io_disponible"]
  BY DEF DejarPorQuantum, DejarPorIO, Finalizar, quitar_running, Sumar, Ubicados, IInv,
     TypeOK, TipoSemaforos, Semaforos
<1>3. /\ pc[t] \in {"quitar_quantum", "ciclo", "fin"}
      /\ pc'[t] \in {"ready_quantum", "bloquear", "exit"}
      /\ \A u \in Tripulantes \ {t} : pc'[u] = pc[u]
  BY DEF DejarPorQuantum, DejarPorIO, Finalizar, Seguir, Sigue, Ir, Ubicados, IInv, TypeOK,
     TipoTripulantes
<1>4. /\ TypeOK /\ UnLugar /\ Nombres /\ Empezadas
      /\ Ausencias /\ Bloqueos /\ Dispositivo
  BY DEF Ubicados, IInv, Lugares
<1>5. /\ \A n \in Listas : IsInjective(lista'[n])
      /\ caido' <=> ~EstaEn(t, "tripulantes_running")
      /\ \A u, n : n \in Listas =>
           (EstaEn(u, n)' <=> EstaEn(u, n) /\ ~(u = t /\ n = "tripulantes_running"))
  BY <1>1, <1>4, Sale DEF Listas
<1>6. UnLugar'
  <2>1. \A u \in Tripulantes : \A a, b \in Listas : EstaEn(u, a)' /\ EstaEn(u, b)' => a = b
    BY <1>4, <1>5 DEF UnLugar
  <2>2. \A n \in Listas : ~EstaEn(elegido, n)'
    BY <1>1, <1>4, <1>5 DEF UnLugar
  <2> QED BY <1>5, <2>1, <2>2 DEF UnLugar
<1>7. Nombres' /\ Empezadas'
  <2>1. tarea[t] > 0
    BY <1>3, <1>4 DEF Empezadas
  <2> QED BY <1>1, <1>3, <1>4, <1>5, <2>1 DEF Nombres, Listas, Empezadas
<1>8. ~caido' => Ausente(t)'
  BY <1>1, <1>4, <1>5 DEF Ausente, UnLugar, Listas
<1>9. \A u \in Tripulantes : Ausente(u) => Ausente(u)'
  BY <1>1, <1>5 DEF Ausente
<1>10. ~caido' => Ausencias'
  BY <1>1, <1>3, <1>4, <1>8, <1>9 DEF Ausencias
<1>11. Bloqueos'
  BY <1>1, <1>3, <1>4, <1>5, <1>9 DEF Bloqueos, Listas
<1>12. Dispositivo'
  <2>1. \A u \in Tripulantes : Tiene(u)' => Tiene(u)
    BY <1>1, <1>3 DEF Tiene, ConDispositivo
  <2> QED BY <1>1, <1>2, <1>4, <2>1 DEF Dispositivo
<1> QED BY <1>6, <1>7, <1>10, <1>11, <1>12 DEF Lugares

\* A trip takes the device: sem_wait of its sem_blocked, and gives it back.
LEMMA LugaresDispositivo ==
  ASSUME Ubicados, ~caido, NEW t \in Tripulantes, Tripulante(t),
         EsperarBlocked(t) \/ SoltarIO(t)
  PROVE  Lugares'
<1>1. /\ elegido' = elegido /\ pcPlan' = pcPlan /\ pcIO' = pcIO
      /\ lista' = lista /\ estado' = estado /\ tarea' = tarea
  BY DEF Tripulante, vPlan, EsperarBlocked, SoltarIO
<1>2. \A u \in Tripulantes \ {t} : pc'[u] = pc[u] /\ sem_blocked'[u] = sem_blocked[u]
  BY DEF EsperarBlocked, SoltarIO, Ir, Ubicados, IInv, TypeOK, TipoTripulantes, TipoSemaforos
<1>3. /\ TypeOK /\ UnLugar /\ Nombres /\ Empezadas
      /\ Ausencias /\ Bloqueos /\ Dispositivo
  BY DEF Ubicados, IInv, Lugares
<1>4. \/ /\ pc[t] = "espera_blocked" /\ pc'[t] = "pausa_io" /\ sem_blocked[t] = 1
         /\ sem_blocked'[t] = 0 /\ trip_block' = trip_block
         /\ sem'["io_disponible"] = sem["io_disponible"]
      \/ /\ pc[t] = "ciclo_io" /\ pc'[t] = "vuelta_io" /\ sem_blocked[t] = 0
         /\ sem_blocked'[t] = 0 /\ trip_block' = Nadie
         /\ sem'["io_disponible"] = sem["io_disponible"] + 1
  <2>1. CASE EsperarBlocked(t)
    BY <1>3, <2>1 DEF EsperarBlocked, Ir, Bloqueos, TypeOK, TipoTripulantes, TipoSemaforos
  <2>2. CASE SoltarIO(t)
    <3>1. sem_blocked[t] = 0
      BY <1>3, <2>2 DEF SoltarIO, Bloqueos, TypeOK, TipoSemaforos
    <3> QED BY <1>3, <2>2, <3>1 DEF SoltarIO, Ir, Post, Sumar, TypeOK, TipoTripulantes,
              TipoSemaforos, Semaforos
  <2> QED BY <2>1, <2>2
<1>5. Ausente(t)
  BY <1>3, <1>4 DEF Bloqueos, Ausencias, EnTransito, ConDispositivo
<1>6. \A u \in Tripulantes : Ausente(u)' <=> Ausente(u)
  BY <1>1 DEF Ausente, EstaEn
<1>7. UnLugar'
  BY <1>1, <1>3 DEF UnLugar, EstaEn
<1>8. Nombres' /\ Empezadas'
  <2>1. tarea[t] > 0
    BY <1>3, <1>4 DEF Empezadas
  <2> QED BY <1>1, <1>2, <1>3, <1>4, <2>1 DEF Nombres, EstaEn, Empezadas
<1>9. Ausencias'
  BY <1>1, <1>2, <1>3, <1>5, <1>6 DEF Ausencias
<1>10. Bloqueos'
  <2>1. \A u \in Tripulantes : EstaEn(u, "cola_blocked")' <=> EstaEn(u, "cola_blocked")
    BY <1>1 DEF EstaEn
  <2>2. ~EstaEn(t, "cola_blocked") /\ ~(pcIO = "avisar" /\ trip_block = t)
    BY <1>3, <1>4, <1>5 DEF Ausente, Listas, Bloqueos
  <2>3. ASSUME NEW u \in Tripulantes \ {t}
        PROVE  trip_block' = u => trip_block = u
    BY <1>3, <1>4, ConstantesValidas
  <2>4. pcIO = "avisar" /\ trip_block' = t => trip_block = t
    BY <1>4, ConstantesValidas
  <2> QED BY <1>1, <1>2, <1>3, <1>4, <1>6, <2>1, <2>2, <2>3, <2>4 DEF Bloqueos
<1>11. Dispositivo'
  <2>1. Tiene(t)
    BY <1>4 DEF Tiene, ConDispositivo
  <2>2. sem["io_disponible"] = 0 /\ pcIO \notin {"quitar", "avisar"}
    BY <1>3, <2>1 DEF Dispositivo, TypeOK, TipoSemaforos, Semaforos
  <2>3. \A u \in Tripulantes \ {t} : ~Tiene(u)'
    BY <1>2, <1>3, <2>1 DEF Dispositivo, Tiene
  <2>4. pc[t] = "ciclo_io" => ~Tiene(t)'
    BY <1>4 DEF Tiene, ConDispositivo
  <2> QED BY <1>1, <1>4, <2>2, <2>3, <2>4 DEF Dispositivo
<1> QED BY <1>7, <1>8, <1>9, <1>10, <1>11 DEF Lugares

\* Every step of a trip keeps the trips in their places.
LEMMA LugaresTripulante ==
  ASSUME Ubicados, ~caido, NEW t \in Tripulantes, Tripulante(t)
  PROVE  Lugares'
<1>1. ~Ceder(t) /\ ~FinalizarExpulsado(t) /\ ~BuscarBlocked(t) /\ ~SacarBlocked(t)
  BY DEF Ceder, FinalizarExpulsado, BuscarBlocked, SacarBlocked, Ubicados, IInv, SinOtrosHilos
<1> QED BY <1>1, LugaresPropios, LugaresEncolar, LugaresDejar, LugaresDispositivo
        DEF Tripulante

-----------------------------------------------------------------------------
(* The steps of the planners and of the console *)

\* The planner takes a trip from cola_ready, names it RUNNING while it holds it,
\* and puts it in running.
LEMMA LugaresPlanificador ==
  ASSUME Ubicados, ~caido, planificador
  PROVE  Lugares'
<1>1. /\ pc' = pc /\ tarea' = tarea /\ pcIO' = pcIO
      /\ trip_block' = trip_block /\ sem_blocked' = sem_blocked
  BY DEF planificador, vTrip
<1>2. sem'["io_disponible"] = sem["io_disponible"]
  BY DEF planificador, PlanActivar, PlanContinuar, PlanEsperarReady, PlanEsperarCupo,
     PlanMirarSabotaje, PlanEsperarFinSabotaje, PlanHayReady, PlanSinReady, PlanQuitarReady,
     PlanPasarARunning, PlanEncolarRunning, vSem, Wait, Post, Sumar, Restar, Ubicados, IInv,
     TypeOK, TipoSemaforos, Semaforos
<1>3. /\ TypeOK /\ UnLugar /\ Nombres /\ Empezadas
      /\ Ausencias /\ Bloqueos /\ Dispositivo
  BY DEF Ubicados, IInv, Lugares
<1>4. Empezadas'
  BY <1>1, <1>3 DEF Empezadas
<1>5. Dispositivo'
  BY <1>1, <1>2, <1>3 DEF Dispositivo, Tiene
<1>6. CASE lista' = lista /\ elegido' = elegido /\ estado' = estado
           /\ pcPlan' # "encolar_running"
  <2>1. \A u \in Tripulantes : Ausente(u)' <=> Ausente(u)
    BY <1>6 DEF Ausente, EstaEn
  <2>2. UnLugar' /\ Nombres'
    BY <1>1, <1>3, <1>6 DEF UnLugar, Nombres, EstaEn
  <2>3. Ausencias' /\ Bloqueos'
    BY <1>1, <1>3, <1>6, <2>1 DEF Ausencias, Bloqueos, EstaEn
  <2> QED BY <1>4, <1>5, <2>2, <2>3 DEF Lugares
<1>7. CASE PlanQuitarReady /\ lista["cola_ready"] # <<>>
  <2>1. PICK h : h = Head(lista["cola_ready"])
    OBVIOUS
  <2>2. /\ elegido' = h /\ estado' = estado /\ pcPlan' = "pasar_a_running"
        /\ lista' = [lista EXCEPT !["cola_ready"] = Tail(@)]
    BY <1>7, <2>1 DEF PlanQuitarReady
  <2>3. /\ \A m \in Listas : IsInjective(lista'[m])
        /\ EstaEn(h, "cola_ready") /\ h \in Tripulantes
        /\ \A u, m : m \in Listas =>
             (EstaEn(u, m)' <=> EstaEn(u, m) /\ ~(u = h /\ m = "cola_ready"))
    BY <1>3, <1>7, <2>1, <2>2, SalePrimero DEF Listas
  <2>4. UnLugar'
    <3>1. \A u \in Tripulantes : \A a, b \in Listas : EstaEn(u, a)' /\ EstaEn(u, b)' => a = b
      BY <1>3, <2>3 DEF UnLugar
    <3>2. \A m \in Listas : ~EstaEn(h, m)'
      BY <1>3, <2>3 DEF UnLugar, Listas
    <3>3. \A m \in Listas : ~EstaEn(elegido, m)'
      BY <2>2, <3>2 DEF EstaEn
    <3> QED BY <2>3, <3>1, <3>3 DEF UnLugar
  <2>5. Nombres'
    BY <1>1, <1>3, <2>2, <2>3 DEF Nombres, Listas
  <2>6. \A u \in Tripulantes : Ausente(u) => Ausente(u)'
    BY <2>2, <2>3 DEF Ausente, Listas
  <2>7. Ausencias' /\ Bloqueos'
    BY <1>1, <1>3, <2>3, <2>6 DEF Ausencias, Bloqueos, Listas
  <2> QED BY <1>4, <1>5, <2>4, <2>5, <2>7 DEF Lugares
<1>8. CASE PlanPasarARunning
  <2>1. elegido \in Tripulantes
    BY <1>3, <1>8 DEF PlanPasarARunning, TypeOK, TipoHilos
  <2>2. /\ lista' = lista /\ elegido' = elegido /\ estado'[elegido] = "RUNNING"
        /\ \A u \in Tripulantes \ {elegido} : estado'[u] = estado[u]
    BY <1>3, <1>8, <2>1 DEF PlanPasarARunning, TypeOK, TipoTripulantes
  <2>3. \A u \in Tripulantes : Ausente(u)' <=> Ausente(u)
    BY <2>2 DEF Ausente, EstaEn
  <2>4. \A u \in Tripulantes : \A m \in Listas : EstaEn(u, m)' <=> EstaEn(u, m)
    BY <2>2 DEF EstaEn
  <2>5. UnLugar'
    BY <1>3, <2>2 DEF UnLugar, EstaEn
  <2>6. ~(pc[elegido] \in EnTransito)
    BY <1>3, <2>1 DEF Ausencias, Ausente
  <2>7. Nombres'
    <3>1. ASSUME NEW u \in Tripulantes \ {elegido}
          PROVE  /\ EstaEn(u, "cola_ready")' => estado'[u] = "READY"
                 /\ EstaEn(u, "cola_blocked")' => estado'[u] = "BLOCKED"
                 /\ EstaEn(u, "tripulantes_running")' => estado'[u] = "RUNNING"
                 /\ Nombrado(u)'
      BY <1>1, <1>3, <2>2, <2>4 DEF Nombres, Nombrado, Listas
    <3>2. ASSUME NEW u \in Tripulantes, u = elegido
          PROVE  /\ EstaEn(u, "cola_ready")' => estado'[u] = "READY"
                 /\ EstaEn(u, "cola_blocked")' => estado'[u] = "BLOCKED"
                 /\ EstaEn(u, "tripulantes_running")' => estado'[u] = "RUNNING"
                 /\ Nombrado(u)'
      BY <1>1, <1>3, <2>4, <2>6, <3>2 DEF UnLugar, Nombrado, EnTransito, Listas
    <3>3. (pcPlan = "encolar_running" => estado[elegido] = "RUNNING")'
      BY <2>2
    <3> QED BY <3>1, <3>2, <3>3 DEF Nombres, Nombrado
  <2>8. Ausencias' /\ Bloqueos'
    BY <1>1, <1>3, <2>3, <2>4 DEF Ausencias, Bloqueos, Listas
  <2> QED BY <1>4, <1>5, <2>5, <2>7, <2>8 DEF Lugares
<1>9. CASE PlanEncolarRunning
  <2>1. PICK h \in Tripulantes : h = elegido
    BY <1>3, <1>9 DEF PlanEncolarRunning, TypeOK, TipoHilos
  <2>2. /\ elegido' = Nadie /\ estado' = estado /\ pcPlan' = "ready"
        /\ Encolar(h, "tripulantes_running") /\ estado[h] = "RUNNING"
    BY <1>3, <1>9, <2>1 DEF PlanEncolarRunning, Nombres
  <2>3. \A m \in Listas : ~EstaEn(h, m)
    BY <1>3, <2>1 DEF UnLugar
  <2>4. /\ \A m \in Listas : IsInjective(lista'[m])
        /\ \A u, m : m \in Listas =>
             (EstaEn(u, m)' <=> EstaEn(u, m) \/ (u = h /\ m = "tripulantes_running"))
    BY <1>3, <2>2, <2>3, Entra DEF Listas
  <2>5. UnLugar'
    <3>1. \A u \in Tripulantes : \A a, b \in Listas : EstaEn(u, a)' /\ EstaEn(u, b)' => a = b
      BY <1>3, <2>3, <2>4 DEF UnLugar
    <3>2. ASSUME NEW m \in Listas
          PROVE  ~EstaEn(elegido, m)'
      <4>1. lista'[m] \in Seq(Tripulantes)
        BY <1>3, <2>2, AgregarALista DEF Listas
      <4>2. Nadie \notin ToSet(lista'[m])
        BY <4>1, ConstantesValidas DEF ToSet
      <4> QED BY <2>2, <4>2 DEF EstaEn
    <3> QED BY <2>4, <3>1, <3>2 DEF UnLugar
  <2>6. Nombres'
    BY <1>1, <1>3, <2>2, <2>4 DEF Nombres, Listas
  <2>7. \A u \in Tripulantes : Ausente(u) => Ausente(u)'
    BY <2>1, <2>2, <2>4, ConstantesValidas DEF Ausente
  <2>8. Ausencias' /\ Bloqueos'
    BY <1>1, <1>3, <2>4, <2>7 DEF Ausencias, Bloqueos, Listas
  <2> QED BY <1>4, <1>5, <2>5, <2>6, <2>8 DEF Lugares
<1>10. \/ lista' = lista /\ elegido' = elegido /\ estado' = estado
            /\ pcPlan' # "encolar_running"
       \/ PlanQuitarReady /\ lista["cola_ready"] # <<>>
       \/ PlanPasarARunning \/ PlanEncolarRunning
  BY DEF planificador, PlanActivar, PlanContinuar, PlanEsperarReady, PlanEsperarCupo,
     PlanMirarSabotaje, PlanEsperarFinSabotaje, PlanHayReady, PlanSinReady, PlanQuitarReady
<1> QED BY <1>6, <1>7, <1>8, <1>9, <1>10

\* The input/output planner takes a trip from cola_blocked and tells it.
LEMMA LugaresPlanificadorIO ==
  ASSUME Ubicados, ~caido, planificador_io
  PROVE  Lugares'
<1>1. /\ pc' = pc /\ tarea' = tarea /\ pcPlan' = pcPlan /\ elegido' = elegido
      /\ estado' = estado
  BY DEF planificador_io, vTrip, vPlan
<1>2. /\ TypeOK /\ UnLugar /\ Nombres /\ Empezadas
      /\ Ausencias /\ Bloqueos /\ Dispositivo
  BY DEF Ubicados, IInv, Lugares
<1>3. Empezadas'
  BY <1>1, <1>2 DEF Empezadas
<1>4. CASE IOQuitarBlocked /\ lista["cola_blocked"] # <<>>
  <2>1. PICK h : h = Head(lista["cola_blocked"])
    OBVIOUS
  <2>2. /\ trip_block' = h /\ sem' = sem /\ sem_blocked' = sem_blocked
        /\ pcIO = "quitar" /\ pcIO' = "avisar"
        /\ lista' = [lista EXCEPT !["cola_blocked"] = Tail(@)]
    BY <1>4, <2>1 DEF IOQuitarBlocked
  <2>3. /\ \A m \in Listas : IsInjective(lista'[m])
        /\ EstaEn(h, "cola_blocked") /\ h \in Tripulantes
        /\ \A u, m : m \in Listas =>
             (EstaEn(u, m)' <=> EstaEn(u, m) /\ ~(u = h /\ m = "cola_blocked"))
    BY <1>2, <1>4, <2>1, <2>2, SalePrimero DEF Listas
  <2>4. UnLugar'
    <3>1. \A u \in Tripulantes : \A a, b \in Listas : EstaEn(u, a)' /\ EstaEn(u, b)' => a = b
      BY <1>2, <2>3 DEF UnLugar
    <3>2. \A m \in Listas : ~EstaEn(elegido, m)'
      BY <1>1, <1>2, <2>3 DEF UnLugar
    <3> QED BY <2>3, <3>1, <3>2 DEF UnLugar
  <2>5. Nombres'
    BY <1>1, <1>2, <2>3 DEF Nombres, Listas
  <2>6. \A u \in Tripulantes : Ausente(u) => Ausente(u)'
    BY <1>1, <2>3 DEF Ausente
  <2>7. Ausencias'
    BY <1>1, <1>2, <2>6 DEF Ausencias
  <2>8. Ausente(h)'
    BY <1>1, <1>2, <2>3 DEF Ausente, UnLugar, Listas
  <2>9. Bloqueos'
    BY <1>1, <1>2, <2>2, <2>3, <2>6, <2>8 DEF Bloqueos, Listas
  <2>10. Dispositivo'
    BY <1>1, <1>2, <2>2, <2>3 DEF Dispositivo, Tiene
  <2> QED BY <1>3, <2>4, <2>5, <2>7, <2>9, <2>10 DEF Lugares
<1>5. CASE lista' = lista
  <2>1. \A u \in Tripulantes : Ausente(u)' <=> Ausente(u)
    BY <1>1, <1>5 DEF Ausente, EstaEn
  <2>2. UnLugar' /\ Nombres'
    BY <1>1, <1>2, <1>5 DEF UnLugar, Nombres, EstaEn
  <2>3. Ausencias'
    BY <1>1, <1>2, <2>1 DEF Ausencias
  <2>4. CASE IOEsperarTrip \/ IOEsperarDispositivo
    <3>1. sem_blocked' = sem_blocked /\ trip_block' = trip_block /\ pcIO' # "avisar"
      BY <2>4 DEF IOEsperarTrip, IOEsperarDispositivo
    <3>2. Bloqueos'
      BY <1>1, <1>2, <1>5, <2>1, <3>1 DEF Bloqueos, EstaEn
    <3>3. Dispositivo'
      BY <1>1, <1>2, <2>4, <3>1 DEF IOEsperarTrip, IOEsperarDispositivo, Dispositivo, Tiene,
         Wait, Restar, TypeOK, TipoSemaforos, Semaforos
    <3> QED BY <1>3, <2>2, <2>3, <3>2, <3>3 DEF Lugares
  <2>5. CASE IOQuitarBlocked /\ lista["cola_blocked"] = <<>>
    <3>1. caido'
      BY <2>5 DEF IOQuitarBlocked
    <3> QED BY <1>3, <2>2, <3>1 DEF Lugares
  <2>6. CASE IOAvisar
    <3>1. PICK h \in Tripulantes : h = trip_block
      BY <1>2, <2>6 DEF IOAvisar, Dispositivo
    <3>2. /\ sem' = sem /\ trip_block' = trip_block /\ pcIO = "avisar"
          /\ pcIO' = "esperar_trip"
          /\ sem_blocked' = [sem_blocked EXCEPT ![h] = @ + 1]
      BY <2>6, <3>1, ConstantesValidas DEF IOAvisar
    <3>3. pc[h] = "espera_blocked" /\ sem_blocked[h] = 0 /\ Ausente(h)
      BY <1>2, <3>1, <3>2 DEF Bloqueos
    <3>4. sem_blocked'[h] = 1 /\ \A u \in Tripulantes \ {h} : sem_blocked'[u] = sem_blocked[u]
      BY <1>2, <3>2, <3>3 DEF TypeOK, TipoSemaforos
    <3>5. ~EstaEn(h, "cola_blocked")
      BY <3>3 DEF Ausente, Listas
    <3>6. Bloqueos'
      BY <1>1, <1>2, <1>5, <2>1, <3>2, <3>3, <3>4, <3>5 DEF Bloqueos, EstaEn
    <3>7. Dispositivo'
      <4>1. \A u \in Tripulantes \ {h} : ~Tiene(u)'
        BY <1>1, <1>2, <3>2, <3>4 DEF Dispositivo, Tiene
      <4>2. ~(sem'["io_disponible"] > 0)
        BY <1>2, <3>2 DEF Dispositivo
      <4> QED BY <3>2, <4>1, <4>2 DEF Dispositivo
    <3> QED BY <1>3, <2>2, <2>3, <3>6, <3>7 DEF Lugares
  <2> QED BY <1>4, <2>4, <2>5, <2>6 DEF planificador_io
<1>6. lista' = lista \/ (IOQuitarBlocked /\ lista["cola_blocked"] # <<>>)
  BY DEF planificador_io, IOEsperarTrip, IOEsperarDispositivo, IOQuitarBlocked, IOAvisar
<1> QED BY <1>4, <1>5, <1>6

\* The console moves no trip, and gives orders by sem_running.
LEMMA LugaresConsola ==
  ASSUME Ubicados, ~caido, consola
  PROVE  Lugares'
<1>1. /\ pc' = pc /\ tarea' = tarea /\ pcPlan' = pcPlan /\ elegido' = elegido
      /\ estado' = estado /\ lista' = lista /\ sem_blocked' = sem_blocked
      /\ trip_block' = trip_block /\ pcIO' = pcIO
  BY DEF consola, vTrip, vPlan
<1>2. sem'["io_disponible"] = sem["io_disponible"]
  BY DEF consola, iniciar_planificacion, TerminarOrden, IniciarPlanificacion, Reiniciar,
     ReiniciarMirar, ReiniciarPost, ReiniciarMirarBlock, ReiniciarPostBlock,
     ReiniciarMirarSabotaje, pausar_planificacion, vSem, Post, Sumar, Ubicados, IInv, TypeOK,
     TipoSemaforos, Semaforos
<1>3. \A u \in Tripulantes : Ausente(u)' <=> Ausente(u)
  BY <1>1 DEF Ausente, EstaEn
<1>4. UnLugar' /\ Nombres' /\ Empezadas'
  BY <1>1 DEF Ubicados, Lugares, UnLugar, Nombres, Empezadas, EstaEn
<1>5. Ausencias'
  BY <1>1, <1>3 DEF Ubicados, Lugares, Ausencias
<1>6. Bloqueos'
  BY <1>1, <1>3 DEF Ubicados, Lugares, Bloqueos, EstaEn
<1>7. Dispositivo'
  BY <1>1, <1>2 DEF Ubicados, Lugares, Dispositivo, Tiene
<1> QED BY <1>4, <1>5, <1>6, <1>7 DEF Lugares

-----------------------------------------------------------------------------
(* The theorems, whatever the user orders *)

\* The trips start in no list.
LEMMA UbicadosInicial ==
  ASSUME Init
  PROVE  Ubicados
<1>1. IInv
  BY InvarianteInicial
<1>2. \A l \in Listas : lista[l] = <<>>
  BY DEF Init, InitPlanificador
<1>3. \A u, l : l \in Listas => ~EstaEn(u, l)
  BY <1>2 DEF EstaEn, ToSet
<1>4. UnLugar
  BY <1>2, <1>3 DEF UnLugar, IsInjective
<1>5. elegido = Nadie /\ trip_block = Nadie /\ pcPlan = "activar" /\ pcIO = "esperar_trip"
      /\ sem["io_disponible"] = 1
  BY DEF Init, InitPlanificador, Semaforos
<1>6. \A t \in Tripulantes : pc[t] = "solicitar" /\ sem_blocked[t] = 0
  BY DEF Init, InitTripulantes
<1>7. Nombres /\ Empezadas
  BY <1>3, <1>5, <1>6 DEF Nombres, Empezadas, Listas
<1>8. Ausencias /\ Bloqueos
  BY <1>3, <1>5, <1>6, ConstantesValidas DEF Ausencias, Ausente, Bloqueos, Listas
<1>9. Dispositivo
  BY <1>5, <1>6 DEF Dispositivo, Tiene, ConDispositivo
<1> QED BY <1>1, <1>4, <1>7, <1>8, <1>9 DEF Ubicados, Lugares

\* Every step of every thread keeps the trips in their places.
LEMMA UbicadosInductivo ==
  ASSUME Ubicados, [Next]_vars
  PROVE  Ubicados'
<1>1. IInv'
  BY InvarianteInductivo DEF Ubicados
<1>2. ASSUME Next
      PROVE  Lugares'
  <2>1. ~caido
    BY <1>2 DEF Next
  <2>2. ASSUME NEW t \in Tripulantes, Tripulante(t)
        PROVE  Lugares'
    BY <2>1, <2>2, LugaresTripulante
  <2>3. CASE planificador
    BY <2>1, <2>3, LugaresPlanificador
  <2>4. CASE planificador_io
    BY <2>1, <2>4, LugaresPlanificadorIO
  <2>5. CASE consola
    BY <2>1, <2>5, LugaresConsola
  <2> QED BY <1>2, <2>2, <2>3, <2>4, <2>5 DEF Next
<1>3. CASE UNCHANGED vars
  <2>1. /\ lista' = lista /\ elegido' = elegido /\ estado' = estado /\ pc' = pc
        /\ tarea' = tarea /\ pcPlan' = pcPlan /\ pcIO' = pcIO /\ trip_block' = trip_block
        /\ sem' = sem /\ sem_blocked' = sem_blocked /\ caido' = caido
    BY <1>3 DEF vars, vSem, vTrip, vPlan
  <2>2. UnLugar' /\ Nombres' /\ Empezadas'
    BY <2>1 DEF Ubicados, Lugares, UnLugar, Nombres, Empezadas, EstaEn
  <2>3. ~caido => Ausencias'
    BY <2>1 DEF Ubicados, Lugares, Ausencias, Ausente, EstaEn
  <2>4. ~caido => Bloqueos'
    BY <2>1 DEF Ubicados, Lugares, Bloqueos, Ausente, EstaEn
  <2>5. ~caido => Dispositivo'
    BY <2>1 DEF Ubicados, Lugares, Dispositivo, Tiene
  <2> QED BY <1>1, <2>1, <2>2, <2>3, <2>4, <2>5 DEF Ubicados, Lugares
<1> QED BY <1>1, <1>2, <1>3 DEF Ubicados

\* Whatever the crew, its tasks and the orders, each trip is where its thread, its
\* estado and the planners believe it to be.
THEOREM CadaUnoEnSuLugar == Spec => []Ubicados
<1>1. Init => Ubicados
  BY UbicadosInicial
<1>2. Ubicados /\ [Next]_vars => Ubicados'
  BY UbicadosInductivo
<1> QED BY <1>1, <1>2, PTL DEF Spec

\* How often a trip is in a list without repetitions.
LEMMA VecesDeUno ==
  ASSUME NEW t \in Tripulantes, NEW l \in Listas, IsInjective(lista[l])
  PROVE  Veces(t, l) = Uno(EstaEn(t, l))
<1> DEFINE I == {i \in DOMAIN lista[l] : lista[l][i] = t}
<1>1. CASE EstaEn(t, l)
  <2>1. PICK i \in DOMAIN lista[l] : lista[l][i] = t
    BY <1>1 DEF EstaEn, ToSet
  <2>2. I = {i}
    BY <2>1 DEF IsInjective
  <2> QED BY <1>1, <2>2, FS_Singleton DEF Veces, Uno
<1>2. CASE ~EstaEn(t, l)
  <2>1. I = {}
    BY <1>2 DEF EstaEn, ToSet
  <2> QED BY <1>2, <2>1, FS_EmptySet DEF Veces, Uno
<1> QED BY <1>1, <1>2

\* A trip is in one list at most, once, and in none while the planner dispatches it:
\* nobody is dispatched twice, in every interleaving of the planners, the trips and
\* the orders of the console (colas_planificacion.c).
THEOREM NadieEnDosListas == Spec => []EnUnaLista
<1>1. ASSUME Ubicados
      PROVE  EnUnaLista
  <2>1. UnLugar
    BY <1>1 DEF Ubicados, Lugares
  <2> SUFFICES ASSUME NEW t \in Tripulantes
               PROVE  Veces(t, "cola_ready") + Veces(t, "cola_blocked")
                        + Veces(t, "tripulantes_running") + Uno(elegido = t) <= 1
    BY DEF EnUnaLista
  <2>2. \A l \in Listas : Veces(t, l) = Uno(EstaEn(t, l))
    BY <2>1, VecesDeUno DEF UnLugar
  <2>3. /\ ~(EstaEn(t, "cola_ready") /\ EstaEn(t, "cola_blocked"))
        /\ ~(EstaEn(t, "cola_ready") /\ EstaEn(t, "tripulantes_running"))
        /\ ~(EstaEn(t, "cola_blocked") /\ EstaEn(t, "tripulantes_running"))
        /\ elegido = t => \A l \in Listas : ~EstaEn(t, l)
    BY <2>1 DEF UnLugar, Listas
  <2> QED BY <2>2, <2>3 DEF Uno, Listas
<1> QED BY <1>1, CadaUnoEnSuLugar, PTL

\* estado names the list the trip is in, and a trip that has finished is in none:
\* what the console lists and the RAM process stores is true (listar_tripulantes).
THEOREM EstadosVeraces == Spec => []EstadoVeraz
<1>1. ASSUME Ubicados
      PROVE  EstadoVeraz
  <2>1. UnLugar /\ Nombres
    BY <1>1 DEF Ubicados, Lugares
  <2> QED BY <2>1 DEF Nombres, EstadoVeraz, Listas
<1> QED BY <1>1, CadaUnoEnSuLugar, PTL

-----------------------------------------------------------------------------
(* Without a resumption: nobody falls, and GRADO_MULTITAREA is respected *)

\* What a trip relies on while nobody resumes planning, trip by trip
UnDespacho(t) ==
  /\ EstaEn(t, "cola_ready") \/ elegido = t => pc[t] \in EsperaCupo
  /\ sem_running[t] > 0 =>
       pc[t] \in EsperaCupo /\ sem_running[t] = 1 /\ EstaEn(t, "tripulantes_running")
  /\ Tareas[t] # <<>> /\ Despachado(t) => EstaEn(t, "tripulantes_running")

\* A step of a trip keeps what the others rely on.
LEMMA OtrosDespachos ==
  ASSUME SinReanudar, ~caido, NEW t \in Tripulantes, Tripulante(t),
         NEW u \in Tripulantes, u # t
  PROVE  UnDespacho(u)'
<1>1. /\ TypeOK /\ UnLugar /\ Ausencias /\ UnDespacho(u) /\ SinOtrosHilos
  BY DEF SinReanudar, Ubicados, IInv, Lugares, Despachos, UnDespacho
<1>2. elegido' = elegido
  BY DEF Tripulante, vPlan
<1>3. pc'[u] = pc[u] /\ tarea'[u] = tarea[u] /\ sem_running'[u] = sem_running[u]
  BY <1>1 DEF Tripulante, SolicitarTarea, PasarAReady, EncolarReady, EsperarRunning,
     MirarPausa, EjecutarCiclo, DejarPorQuantum, MirarEmergencia, Ceder, DejarCiclo,
     DejarPorIO, PasarABlocked, EncolarBlocked, EsperarBlocked, ContinuarIO, BuscarBlocked, SacarBlocked, MirarSabotaje,
     EsperarFinSabotaje, CicloIO, SoltarIO, MirarContinuar, Finalizar, PasarAExit,
     FinalizarExpulsado, Seguir, Ir, vSem, TypeOK, TipoTripulantes, TipoSemaforos
<1>4. \A m \in Listas : EstaEn(u, m)' <=> EstaEn(u, m)
  <2>1. CASE EncolarReady(t) \/ EncolarBlocked(t)
    <3>1. PICK m \in Listas : Encolar(t, m)
      BY <2>1 DEF EncolarReady, EncolarBlocked, Listas
    <3>2. Ausente(t)
      BY <1>1, <2>1 DEF EncolarReady, EncolarBlocked, Ausencias, EnTransito
    <3> QED BY <1>1, <3>1, <3>2, Entra DEF Ausente
  <2>2. CASE DejarPorQuantum(t) \/ DejarPorIO(t) \/ Finalizar(t)
    <3>1. quitar(t, "tripulantes_running")
      BY <2>2 DEF DejarPorQuantum, DejarPorIO, Finalizar, quitar_running
    <3> QED BY <1>1, <3>1, Sale DEF Listas
  <2>3. CASE lista' = lista
    BY <2>3 DEF EstaEn
  <2>4. \/ EncolarReady(t) \/ EncolarBlocked(t)
        \/ DejarPorQuantum(t) \/ DejarPorIO(t) \/ Finalizar(t)
        \/ lista' = lista
    BY <1>1 DEF Tripulante, SolicitarTarea, PasarAReady, EsperarRunning,
     MirarPausa, EjecutarCiclo, MirarEmergencia, Ceder, DejarCiclo,
     PasarABlocked, EsperarBlocked, ContinuarIO, BuscarBlocked, SacarBlocked, MirarSabotaje,
     EsperarFinSabotaje, CicloIO, SoltarIO, MirarContinuar, PasarAExit,
     FinalizarExpulsado, SinOtrosHilos
  <2> QED BY <2>1, <2>2, <2>3, <2>4
<1> QED BY <1>1, <1>2, <1>3, <1>4 DEF UnDespacho, Despachado, Listas

\* A step of a trip keeps what it relies on, and does not dereference a null trip
\* if it has tasks.
LEMMA SuDespacho ==
  ASSUME SinReanudar, ~caido, NEW t \in Tripulantes, Tripulante(t)
  PROVE  /\ UnDespacho(t)'
         /\ Tareas[t] # <<>> => ~caido'
<1>1. /\ TypeOK /\ UnLugar /\ Ausencias /\ Empezadas /\ UnDespacho(t) /\ SinOtrosHilos
  BY DEF SinReanudar, Ubicados, IInv, Lugares, Despachos, UnDespacho
<1>2. elegido' = elegido
  BY DEF Tripulante, vPlan
<1>3. CASE lista' = lista /\ caido' = caido /\ sem_running' = sem_running
           /\ (EstaEn(t, "cola_ready") \/ elegido = t \/ sem_running[t] > 0
                 => pc[t] \notin EsperaCupo)
           /\ (Tareas[t] # <<>> /\ Despachado(t)' => Despachado(t))
  BY <1>1, <1>2, <1>3 DEF UnDespacho, EstaEn
<1>4. CASE SolicitarTarea(t)
  <2>1. Len(Tareas[t]) \in Nat /\ (Tareas[t] # <<>> => Len(Tareas[t]) > 0)
    <3>1. Tareas[t] \in Seq(Tarea)
      BY ConstantesValidas
    <3> QED BY <3>1
  <2>2. tarea[t] \in Nat
    BY <1>1 DEF TypeOK, TipoTripulantes
  <2>3. Tareas[t] # <<>> /\ Despachado(t)' => Despachado(t)
    BY <1>1, <1>4, <2>1, <2>2 DEF SolicitarTarea, Ir, Despachado, TypeOK, TipoTripulantes
  <2> QED BY <1>3, <1>4, <2>3 DEF SolicitarTarea, vSem, EsperaCupo
<1>5. CASE PasarAReady(t)
  BY <1>1, <1>3, <1>5 DEF PasarAReady, Seguir, Ir, Sigue, vSem, EsperaCupo, Despachado,
     TypeOK, TipoTripulantes
<1>6. CASE EncolarReady(t)
  <2>1. Ausente(t) /\ sem_running[t] = 0
    BY <1>1, <1>6 DEF EncolarReady, Ausencias, EnTransito, UnDespacho, EsperaCupo, TypeOK,
       TipoSemaforos
  <2>2. sem_running' = sem_running /\ pc'[t] \in EsperaCupo /\ caido' = caido
    BY <1>1, <1>6 DEF EncolarReady, Seguir, Ir, Sigue, EsperaCupo, TypeOK, TipoTripulantes
  <2> QED BY <2>1, <2>2 DEF UnDespacho, EsperaCupo, Despachado
<1>7. CASE EsperarRunning(t)
  <2>1. /\ pc[t] \in EsperaCupo /\ sem_running[t] = 1 /\ EstaEn(t, "tripulantes_running")
    BY <1>1, <1>7 DEF EsperarRunning, UnDespacho
  <2>2. sem_running'[t] = 0 /\ lista' = lista /\ caido' = caido
    BY <1>1, <1>7, <2>1 DEF EsperarRunning, TypeOK, TipoSemaforos
  <2>3. ~EstaEn(t, "cola_ready") /\ elegido # t
    BY <1>1, <2>1 DEF UnLugar, Listas
  <2> QED BY <1>2, <2>1, <2>2, <2>3 DEF UnDespacho, EstaEn
<1>8. CASE MirarPausa(t)
  BY <1>1, <1>3, <1>8 DEF MirarPausa, Seguir, Ir, Sigue, vSem, EsperaCupo, Despachado,
     TypeOK, TipoTripulantes
<1>9. CASE EjecutarCiclo(t) \/ DejarCiclo(t)
  <2>1. HayTarea(t) => tarea[t] > 0
    BY DEF HayTarea
  <2> QED BY <1>1, <1>3, <1>9 DEF EjecutarCiclo, DejarCiclo, Ir, vSem, EsperaCupo,
          Despachado, TypeOK, TipoTripulantes
<1>10. CASE MirarEmergencia(t)
  BY <1>1, <1>3, <1>10 DEF MirarEmergencia, SinOtrosHilos, Seguir, Ir, Sigue, EsperaCupo,
     Despachado, TypeOK, TipoTripulantes
<1>11. CASE DejarPorQuantum(t) \/ DejarPorIO(t) \/ Finalizar(t)
  <2>1. /\ quitar(t, "tripulantes_running") /\ sem_running' = sem_running
        /\ pc[t] \in {"quitar_quantum", "ciclo", "fin"}
        /\ pc'[t] \in {"ready_quantum", "bloquear", "exit"}
    BY <1>1, <1>11 DEF DejarPorQuantum, DejarPorIO, Finalizar, quitar_running, Seguir, Ir,
       Sigue, TypeOK, TipoTripulantes
  <2>2. sem_running[t] = 0 /\ ~EstaEn(t, "cola_ready") /\ elegido # t
    BY <1>1, <2>1 DEF UnDespacho, EsperaCupo, TypeOK, TipoSemaforos
  <2>3. ~EstaEn(t, "cola_ready")' /\ (caido' <=> ~EstaEn(t, "tripulantes_running"))
    BY <1>1, <2>1, <2>2, Sale DEF Listas
  <2>4. Tareas[t] # <<>> => EstaEn(t, "tripulantes_running")
    BY <1>1, <2>1 DEF UnDespacho, Despachado
  <2> QED BY <1>2, <2>1, <2>2, <2>3, <2>4 DEF UnDespacho, Despachado
<1>12. CASE EncolarBlocked(t)
  <2>1. Ausente(t) /\ sem_running[t] = 0
    BY <1>1, <1>12 DEF EncolarBlocked, Ausencias, EnTransito, UnDespacho, EsperaCupo, TypeOK,
       TipoSemaforos
  <2>2. /\ sem_running' = sem_running /\ pc'[t] = "espera_blocked" /\ caido' = caido
        /\ Encolar(t, "cola_blocked")
    BY <1>1, <1>12 DEF EncolarBlocked, Ir, TypeOK, TipoTripulantes
  <2>3. ~EstaEn(t, "cola_ready")'
    BY <1>1, <2>1, <2>2, Entra DEF Ausente, Listas
  <2> QED BY <1>2, <2>1, <2>2, <2>3 DEF UnDespacho, Despachado, Ausente
<1>13. CASE PasarABlocked(t) \/ EsperarBlocked(t) \/ ContinuarIO(t) \/ CicloIO(t)
            \/ SoltarIO(t) \/ PasarAExit(t)
  BY <1>1, <1>3, <1>13 DEF PasarABlocked, EsperarBlocked, ContinuarIO, CicloIO, SoltarIO,
     PasarAExit, SinOtrosHilos, Ir, vSem, EsperaCupo, Despachado, TypeOK, TipoTripulantes
<1>14. CASE MirarSabotaje(t) \/ EsperarFinSabotaje(t)
  BY <1>1, <1>3, <1>14 DEF MirarSabotaje, EsperarFinSabotaje, Seguir, Ir, Sigue, vSem,
     EsperaCupo, Despachado, TypeOK, TipoTripulantes
<1>15. CASE MirarContinuar(t)
  BY <1>1, <1>3, <1>15 DEF MirarContinuar, SinOtrosHilos, Seguir, Ir, Sigue, vSem,
     EsperaCupo, Despachado, Empezadas, TypeOK, TipoTripulantes
<1>16. ~Ceder(t) /\ ~FinalizarExpulsado(t) /\ ~BuscarBlocked(t) /\ ~SacarBlocked(t)
  BY <1>1 DEF Ceder, FinalizarExpulsado, BuscarBlocked, SacarBlocked, SinOtrosHilos
<1> QED BY <1>4, <1>5, <1>6, <1>7, <1>8, <1>9, <1>10, <1>11, <1>12, <1>13, <1>14, <1>15, <1>16
        DEF Tripulante

\* The planner posts sem_running of the trip it puts in running, and finds a trip
\* in cola_ready whenever it takes one.
LEMMA DespachosPlanificador ==
  ASSUME SinReanudar, ~caido, planificador
  PROVE  (\A u \in Tripulantes : UnDespacho(u)') /\ ~caido'
<1>1. /\ TypeOK /\ UnLugar /\ Ausencias /\ \A u \in Tripulantes : UnDespacho(u)
      /\ IInv
  BY DEF SinReanudar, Ubicados, IInv, Lugares, Despachos, UnDespacho
<1>2. pc' = pc /\ tarea' = tarea
  BY DEF planificador, vTrip
<1>3. CASE lista' = lista /\ elegido' = elegido /\ sem_running' = sem_running
           /\ caido' = caido
  BY <1>1, <1>2, <1>3 DEF UnDespacho, Despachado, EstaEn
<1>4. CASE PlanQuitarReady
  <2>1. lista["cola_ready"] # <<>>
    <3>1. sem["tripulantes_ready"] + 1 = Len(lista["cola_ready"])
      BY <1>1, <1>4 DEF PlanQuitarReady, IInv, ColasContadas, Uno
    <3>2. Len(lista["cola_ready"]) # 0
      BY <1>1, <3>1, Medidas
    <3> QED BY <3>2
  <2>2. PICK h : h = Head(lista["cola_ready"])
    OBVIOUS
  <2>3. /\ elegido' = h /\ sem_running' = sem_running /\ caido' = caido
        /\ lista' = [lista EXCEPT !["cola_ready"] = Tail(@)]
    BY <1>4, <2>1, <2>2 DEF PlanQuitarReady, vSem
  <2>4. /\ EstaEn(h, "cola_ready") /\ h \in Tripulantes
        /\ \A u, m : m \in Listas =>
             (EstaEn(u, m)' <=> EstaEn(u, m) /\ ~(u = h /\ m = "cola_ready"))
    BY <1>1, <2>1, <2>2, <2>3, SalePrimero DEF Listas
  <2>5. \A u \in Tripulantes : UnDespacho(u)'
    BY <1>1, <1>2, <2>3, <2>4 DEF UnDespacho, Despachado, Listas
  <2> QED BY <2>3, <2>5
<1>5. CASE PlanEncolarRunning
  <2>1. PICK h \in Tripulantes : h = elegido
    BY <1>1, <1>5 DEF PlanEncolarRunning, TypeOK, TipoHilos
  <2>2. /\ elegido' = Nadie /\ Encolar(h, "tripulantes_running") /\ caido' = caido
        /\ sem_running' = [sem_running EXCEPT ![h] = @ + 1]
    BY <1>5, <2>1 DEF PlanEncolarRunning
  <2>3. (\A m \in Listas : ~EstaEn(h, m)) /\ pc[h] \in EsperaCupo
    BY <1>1, <2>1 DEF UnLugar, UnDespacho
  <2>4. \A u, m : m \in Listas =>
          (EstaEn(u, m)' <=> EstaEn(u, m) \/ (u = h /\ m = "tripulantes_running"))
    BY <1>1, <2>2, <2>3, Entra DEF Listas
  <2>5. /\ sem_running'[h] = 1
        /\ \A u \in Tripulantes \ {h} : sem_running'[u] = sem_running[u]
    <3>1. sem_running[h] = 0
      BY <1>1, <2>3 DEF UnDespacho, Listas, TypeOK, TipoSemaforos
    <3> QED BY <1>1, <2>2, <3>1 DEF TypeOK, TipoSemaforos
  <2>6. \A u \in Tripulantes : u # Nadie
    BY ConstantesValidas
  <2>7. UnDespacho(h)'
    BY <1>2, <2>2, <2>3, <2>4, <2>5 DEF Listas, UnDespacho, Despachado, EsperaCupo
  <2>8. ASSUME NEW u \in Tripulantes \ {h}
        PROVE  UnDespacho(u)'
    BY <1>1, <1>2, <2>2, <2>4, <2>5, <2>6 DEF UnDespacho, Despachado, Listas
  <2> QED BY <2>2, <2>7, <2>8
<1>6. \/ lista' = lista /\ elegido' = elegido /\ sem_running' = sem_running /\ caido' = caido
      \/ PlanQuitarReady \/ PlanEncolarRunning
  BY DEF planificador, PlanActivar, PlanContinuar, PlanEsperarReady, PlanEsperarCupo,
     PlanMirarSabotaje, PlanEsperarFinSabotaje, PlanHayReady, PlanSinReady, PlanPasarARunning,
     vSem
<1> QED BY <1>3, <1>4, <1>5, <1>6

\* The input/output planner finds a trip in cola_blocked whenever it takes one, and
\* trip_block is not null when it posts its semaphore.
LEMMA DespachosPlanificadorIO ==
  ASSUME SinReanudar, ~caido, planificador_io
  PROVE  (\A u \in Tripulantes : UnDespacho(u)') /\ ~caido'
<1>1. /\ TypeOK /\ UnLugar /\ Dispositivo /\ \A u \in Tripulantes : UnDespacho(u)
      /\ IInv
  BY DEF SinReanudar, Ubicados, IInv, Lugares, Despachos, UnDespacho
<1>2. pc' = pc /\ tarea' = tarea /\ elegido' = elegido /\ sem_running' = sem_running
  BY DEF planificador_io, vTrip, vPlan
<1>3. pcIO = "quitar" => lista["cola_blocked"] # <<>>
  <2>1. SUFFICES ASSUME pcIO = "quitar" PROVE lista["cola_blocked"] # <<>>
    OBVIOUS
  <2>2. sem["tripulantes_blocked"] + 1 = Len(lista["cola_blocked"])
    BY <1>1, <2>1 DEF IInv, ColasContadas, Uno
  <2>3. Len(lista["cola_blocked"]) # 0
    BY <1>1, <2>2, Medidas
  <2> QED BY <2>3
<1>4. ~caido'
  BY <1>1, <1>3, ConstantesValidas DEF planificador_io, IOEsperarTrip, IOEsperarDispositivo,
     IOQuitarBlocked, IOAvisar, Dispositivo
<1>5. CASE lista' = lista
  BY <1>1, <1>2, <1>4, <1>5 DEF UnDespacho, Despachado, EstaEn
<1>6. CASE IOQuitarBlocked
  <2>1. lista["cola_blocked"] # <<>> /\ lista' = [lista EXCEPT !["cola_blocked"] = Tail(@)]
    BY <1>3, <1>6 DEF IOQuitarBlocked
  <2>2. \A u, m : m \in Listas =>
          (EstaEn(u, m)' <=> EstaEn(u, m) /\ ~(u = Head(lista["cola_blocked"])
                                                 /\ m = "cola_blocked"))
    BY <1>1, <2>1, SalePrimero DEF Listas
  <2> QED BY <1>1, <1>2, <1>4, <2>2 DEF UnDespacho, Despachado, Listas
<1>7. lista' = lista \/ IOQuitarBlocked
  BY DEF planificador_io, IOEsperarTrip, IOEsperarDispositivo, IOAvisar
<1> QED BY <1>5, <1>6, <1>7

\* The console that does not resume reads the next order.
LEMMA DespachosConsola ==
  ASSUME SinReanudar, ~caido, consola, ~Reiniciar
  PROVE  (\A u \in Tripulantes : UnDespacho(u)') /\ ~caido' /\ pcCons' = "leer"
<1>1. pcCons = "leer" /\ \A u \in Tripulantes : UnDespacho(u)
  BY DEF SinReanudar, Despachos, UnDespacho
<1>2. IniciarPlanificacion \/ pausar_planificacion
  BY <1>1 DEF consola, iniciar_planificacion, TerminarOrden, ReiniciarMirar, ReiniciarPost,
     ReiniciarMirarBlock, ReiniciarPostBlock, ReiniciarMirarSabotaje
<1>3. /\ pc' = pc /\ tarea' = tarea /\ elegido' = elegido /\ sem_running' = sem_running
      /\ lista' = lista /\ caido' = caido /\ pcCons' = pcCons
  BY <1>2 DEF consola, vTrip, vPlan, vSem, IniciarPlanificacion, pausar_planificacion
<1>4. \A u \in Tripulantes : UnDespacho(u)'
  BY <1>1, <1>3 DEF UnDespacho, Despachado, EstaEn
<1> QED BY <1>1, <1>3, <1>4

\* Every step but a resumption keeps the invariant.
LEMMA SinReanudarInductivo ==
  ASSUME SinReanudar, [Next]_vars, [~Reiniciar]_vars
  PROVE  SinReanudar'
<1>1. Ubicados'
  BY UbicadosInductivo DEF SinReanudar
<1>2. ASSUME Next, ~Reiniciar
      PROVE  Despachos' /\ (HayTareas => ~caido)'
  <2>1. ~caido
    BY <1>2 DEF Next
  <2>2. ASSUME NEW t \in Tripulantes, Tripulante(t)
        PROVE  Despachos' /\ (HayTareas => ~caido)'
    <3>1. \A u \in Tripulantes : UnDespacho(u)'
      BY <2>1, <2>2, OtrosDespachos, SuDespacho
    <3>2. Tareas[t] # <<>> => ~caido'
      BY <2>1, <2>2, SuDespacho
    <3>3. pcCons' = "leer"
      BY <2>2 DEF Tripulante, vCons, SinReanudar, Despachos
    <3> QED BY <3>1, <3>2, <3>3 DEF Despachos, UnDespacho, HayTareas
  <2>3. CASE planificador
    BY <2>1, <2>3, DespachosPlanificador
       DEF planificador, vCons, SinReanudar, Despachos, UnDespacho
  <2>4. CASE planificador_io
    BY <2>1, <2>4, DespachosPlanificadorIO
       DEF planificador_io, vCons, SinReanudar, Despachos, UnDespacho
  <2>5. CASE consola
    BY <1>2, <2>1, <2>5, DespachosConsola DEF Despachos, UnDespacho
  <2> QED BY <1>2, <2>2, <2>3, <2>4, <2>5 DEF Next
<1>3. CASE UNCHANGED vars
  <2>1. /\ lista' = lista /\ elegido' = elegido /\ pc' = pc /\ tarea' = tarea
        /\ sem_running' = sem_running /\ pcCons' = pcCons /\ caido' = caido
    BY <1>3 DEF vars, vSem, vTrip, vPlan, vCons
  <2>2. Despachos'
    BY <2>1 DEF SinReanudar, Despachos, Despachado, EstaEn
  <2> QED BY <1>1, <2>1, <2>2 DEF SinReanudar, HayTareas
<1>4. (Next /\ ~Reiniciar) \/ UNCHANGED vars
  OBVIOUS
<1> QED BY <1>1, <1>2, <1>3, <1>4 DEF SinReanudar

\* As long as the user does not resume planning, whatever else he orders, each trip
\* that runs was dispatched once and has its slot.
THEOREM CadaUnoConSuCupo == Spec /\ [][~Reiniciar]_vars => []SinReanudar
<1>1. Init => SinReanudar
  <2> SUFFICES ASSUME Init PROVE SinReanudar
    OBVIOUS
  <2>1. Ubicados
    BY UbicadosInicial
  <2>2. /\ \A l \in Listas : lista[l] = <<>>
        /\ elegido = Nadie /\ pcCons = "leer" /\ caido = FALSE
        /\ \A t \in Tripulantes : pc[t] = "solicitar" /\ tarea[t] = 0 /\ sem_running[t] = 0
    BY DEF Init, InitTripulantes, InitPlanificador, InitConsola
  <2>3. Despachos
    BY <2>2, ConstantesValidas DEF Despachos, Despachado, EstaEn, ToSet, Listas
  <2> QED BY <2>1, <2>2, <2>3 DEF SinReanudar
<1>2. SinReanudar /\ [Next]_vars /\ [~Reiniciar]_vars => SinReanudar'
  BY SinReanudarInductivo
<1> QED BY <1>1, <1>2, PTL DEF Spec

\* One order cannot resume what no order started.
THEOREM UnaOrdenNoReanuda ==
  ASSUME MaxOrdenes <= 1
  PROVE  Spec => [][~Reiniciar]_vars
<1> DEFINE Ordenada == ordenes \in Nat /\ (planificacion_inicializada => ordenes >= 1)
<1>1. Init => Ordenada
  BY DEF Init, InitConsola
<1>2. Ordenada /\ [Next]_vars => Ordenada'
  <2> SUFFICES ASSUME Ordenada, [Next]_vars PROVE Ordenada'
    OBVIOUS
  <2>1. CASE vCons' = vCons
    BY <2>1 DEF vCons
  <2>2. CASE consola
    BY <2>2 DEF consola, iniciar_planificacion, TerminarOrden, IniciarPlanificacion,
       Reiniciar, ReiniciarMirar, ReiniciarPost, ReiniciarMirarBlock, ReiniciarPostBlock,
       ReiniciarMirarSabotaje, pausar_planificacion, NuevaOrden
  <2>3. vCons' = vCons \/ consola
    BY DEF Next, Tripulante, planificador, planificador_io, vars
  <2> QED BY <2>1, <2>2, <2>3
<1>3. Ordenada => ~Reiniciar
  BY ConstantesValidas DEF Reiniciar, NuevaOrden
<1> QED BY <1>1, <1>2, <1>3, PTL DEF Spec

\* GRADO_MULTITAREA is respected in every interleaving, with any number of pauses,
\* until the user resumes: at most so many trips execute at once (planificador.c).
THEOREM GradoDeMultitarea == Spec /\ [][~Reiniciar]_vars => []GradoRespetado
<1>1. ASSUME SinReanudar
      PROVE  GradoRespetado
  <2> DEFINE r == lista["tripulantes_running"]
             E == {t \in Tripulantes : Ejecuta(t)}
  <2>1. r \in Seq(Tripulantes) /\ Len(r) \in Nat
    BY <1>1 DEF SinReanudar, Ubicados, IInv, TypeOK, TipoListas, Listas
  <2>2. E \subseteq ToSet(r)
    <3> SUFFICES ASSUME NEW t \in Tripulantes, Ejecuta(t)
                 PROVE  EstaEn(t, "tripulantes_running")
      BY DEF EstaEn
    <3>1. Tareas[t] # <<>>
      BY DEF Ejecuta, HayTarea
    <3>2. Despachado(t)
      BY DEF Ejecuta, Despachado
    <3> QED BY <1>1, <3>1, <3>2 DEF SinReanudar, Despachos
  <2>3. IsFiniteSet(ToSet(r)) /\ Cardinality(ToSet(r)) <= Len(r)
    BY <2>1, NoMasQuePosiciones
  <2>4. /\ Cardinality(E) <= Cardinality(ToSet(r))
        /\ Cardinality(E) \in Nat /\ Cardinality(ToSet(r)) \in Nat
    BY <2>2, <2>3, FS_Subset, FS_CardinalityType
  <2>5. Len(r) <= GRADO_MULTITAREA
    <3>1. /\ sem["multiprocesamiento"] + Len(r) + Uno(CupoTomado) = GRADO_MULTITAREA
          /\ sem["multiprocesamiento"] \in Nat /\ Uno(CupoTomado) \in Nat
      BY <1>1, Medidas DEF SinReanudar, Ubicados, IInv, CupoConservado, Uno
    <3> HIDE DEF r
    <3> QED BY <2>1, <3>1, ConstantesValidas
  <2> HIDE DEF r, E
  <2>6. Cardinality(E) <= GRADO_MULTITAREA
    BY <2>1, <2>3, <2>4, <2>5, ConstantesValidas
  <2> QED BY <2>6 DEF E, GradoRespetado
<1> QED BY <1>1, CadaUnoConSuCupo, PTL

\* When every patota has tasks, nobody dereferences a null trip until the user
\* resumes planning: quitar finds its trip, list_remove is never given an empty list
\* and trip_block is set when the input/output planner posts it.
THEOREM NadieCae ==
  ASSUME HayTareas
  PROVE  Spec /\ [][~Reiniciar]_vars => []SinCaida
<1>1. SinReanudar => SinCaida
  BY DEF SinReanudar, SinCaida
<1> QED BY <1>1, CadaUnoConSuCupo, PTL
=============================================================================
