--------------------------- MODULE MensajesPruebas ---------------------------
(***************************************************************************)
(* Proofs about Mensajes, for any number of tasks, sabotages and resumes:   *)
(* the answers of the RAM on the socket of a trip are matched with the      *)
(* threads that await them, and which of them may cross, and when.          *)
(*                                                                         *)
(* The inductive invariant has five parts.  UnLugar says that the trip is   *)
(* in one list or in the hands of one thread, so that the planner and the   *)
(* detector never send on its socket at once.  UnDuenio says, until a       *)
(* resume gives the trip a unit that it does not wait for, that it is at    *)
(* rest while it is not in running, so that only the detector takes it      *)
(* while it executes.  Anotados says that cruces has every pair that awaits *)
(* at once, and which these may be.  Cable says that the answers follow     *)
(* each other, each whole but the first, whose beginning one thread has     *)
(* read, and that they and the requests are as many as the threads that     *)
(* await; it stops when a field is read for another.  TareasPropias says    *)
(* that until two threads cross the trip gets the answers to its own        *)
(* NEXT_T, and so ends with every task done.                                *)
(***************************************************************************)
EXTENDS Mensajes, FiniteSetTheorems, SequenceTheorems, TLAPS

-----------------------------------------------------------------------------
(* The invariant *)

\* the requests of the threads, and what the RAM answers
Solicitudes == {"NEXT_T", "ACTU_P", "ACTU_E"}
Respuestas == {"TASK_T", "TODOOK", "ER_MSJ"}

\* a field on the way to the discordiador
Campo == [campo : {"codigo", "largo", "texto"}, op : Respuestas]

\* what a thread may have still to read
Restos == {<< >>, <<"codigo">>, <<"largo", "texto">>, <<"texto">>}

\* where each thread may be
LugaresTrip ==
  {"solicitar", "tarea", "pasar_a_ready", "encolar", "esperar_running", "ciclo",
   "puede_continuar", "mirar_pausa", "en_pausa", "mirar_emergencia", "en_emergencia",
   "no_task", "fin"}
LugaresPlan ==
  {"esperar_ready", "mirar_sabotaje", "esperar_fin", "mirar_ready", "quitar_ready",
   "encolar_running"}
LugaresDet ==
  {"recibir", "mirar_pausa", "en_pausa", "mirar_running", "quitar_running", "esperar_trip",
   "mirar_ready", "quitar_ready", "resolver", "encolar_ready", "terminar"}

\* a thread awaits a code when it has none of its answer
TipoSocket ==
  /\ ida \in Seq(Solicitudes) /\ vuelta \in Seq(Campo)
  /\ lectura \in [Hilos -> Restos] /\ codigo \in [Hilos -> Respuestas \union {"nada"}]
  /\ \A h \in Hilos : lectura[h] = <<"codigo">> <=> codigo[h] = "nada" /\ lectura[h] # << >>
  /\ ip \in 0 .. CantTareas

\* the other variables
TipoHilos ==
  /\ pc = [h \in Hilos |-> pc[h]]
  /\ pc["tripulante"] \in LugaresTrip /\ pc["planificador"] \in LugaresPlan
  /\ pc["detector"] \in LugaresDet
  /\ hechas \in Nat
  /\ caido \in {"no", "desfase", "quitar_running", "nulo"} /\ sobran \in BOOLEAN

\* the threads await an answer where they asked
Preguntan ==
  /\ Espera("tripulante") => pc["tripulante"] \in {"tarea", "encolar", "puede_continuar", "fin"}
  /\ Espera("planificador") => pc["planificador"] = "encolar_running"
  /\ Espera("detector") =>
       pc["detector"] \in {"esperar_trip", "mirar_ready", "resolver", "encolar_ready"}

-----------------------------------------------------------------------------
(* Who has the trip *)

\* the planner has it in its hands, the detector, or the trip itself
PlanLibre == pc["planificador"] # "encolar_running"
DetTiene == cola_emergencia \/ pc["detector"] = "encolar_ready"
TripTiene == hechas = 0 \/ pc["tripulante"] \in {"pasar_a_ready", "encolar"}

\* The trip is in one list or in the hands of one thread.
UnLugar ==
  /\ ~PlanLibre => lugar = "ninguno" /\ ~DetTiene
  /\ DetTiene => lugar = "ninguno"
  /\ TripTiene => lugar = "ninguno" /\ PlanLibre /\ ~DetTiene
  /\ pc["detector"] \in {"esperar_trip", "resolver"} => cola_emergencia
  /\ cola_emergencia => pc["detector"] \in {"mirar_running", "quitar_running", "esperar_trip",
                                            "mirar_ready", "quitar_ready", "resolver"}
  /\ Espera("detector") => DetTiene
  /\ hechas = 0 => pc["tripulante"] \in {"solicitar", "tarea", "no_task"}

\* the trip asks for a task, does one or ends
Ejecuta ==
  {"solicitar", "tarea", "ciclo", "puede_continuar", "mirar_pausa", "mirar_emergencia", "no_task"}

\* it waits for a slot, with no spare unit in its semaphores
Quieto ==
  pc["tripulante"] \in {"esperar_running", "en_emergencia"} /\ sem_running = 0 /\ sem_blocked = 0

\* it has a slot, taken or about to be taken
ConCupo ==
  /\ sem_blocked = 0
  /\ \/ pc["tripulante"] \in {"esperar_running", "en_pausa", "en_emergencia"} /\ sem_running = 1
     \/ pc["tripulante"] \in Ejecuta \union {"en_pausa"} /\ sem_running = 0

\* it asks for its first task, or goes to ready
Entrando ==
  /\ lugar = "ninguno" /\ TripTiene
  /\ sem_running = 0 /\ sem_blocked = 0
  /\ pc["tripulante"] \in {"solicitar", "tarea", "no_task", "pasar_a_ready", "encolar"}

EnReady == lugar = "cola_ready" /\ Quieto

\* the planner took it from ready and tells the RAM
Despachado == ~PlanLibre /\ Quieto

EnRunning == lugar = "tripulantes_running" /\ ConCupo

\* the detector took it
EnEmergencia ==
  /\ cola_emergencia
  /\ IF pc["detector"] = "esperar_trip"
     THEN \/ ConCupo
          \/ pc["tripulante"] = "en_emergencia" /\ sem_running = 0 /\ sem_blocked = 1
     ELSE Quieto

\* and puts it back in ready
Devuelto == pc["detector"] = "encolar_ready" /\ Quieto

Terminado ==
  /\ lugar = "ninguno" /\ PlanLibre /\ ~DetTiene
  /\ pc["tripulante"] = "fin" /\ sem_running = 0 /\ sem_blocked = 0

\* The trip is at rest while it is not in running, and only the detector takes it from there.
UnDuenio ==
  /\ estado = "EMERGENCY" <=> cola_emergencia
  /\ \/ Entrando \/ EnReady \/ Despachado \/ EnRunning
     \/ EnEmergencia \/ Devuelto \/ Terminado

-----------------------------------------------------------------------------
(* What is on the wire *)

\* the field that follows a field
Sigue(c) ==
  IF c.campo = "codigo" /\ c.op = "TASK_T" THEN "largo"
  ELSE IF c.campo = "largo" THEN "texto" ELSE "codigo"

\* the fields of v follow each other, and the last answer is whole
Seguidos(v) ==
  \A i \in DOMAIN v :
    /\ v[i].campo # "codigo" => v[i].op = "TASK_T"
    /\ i < Len(v) => v[i + 1].campo = Sigue(v[i])
    /\ i = Len(v) => Sigue(v[i]) = "codigo"

\* the answers are whole but for the first, of which a thread has read the beginning
Formato ==
  /\ Seguidos(vuelta)
  /\ \A h \in Leyendo : vuelta # << >> /\ vuelta[1].campo = lectura[h][1]
  /\ vuelta # << >> /\ Leyendo = {} => vuelta[1].campo = "codigo"
  /\ \A h, g \in Leyendo : h = g

\* one request, answer or rest of an answer for each thread that awaits
Contadas == Cardinality(Esperan) = Len(ida) + Cardinality(EnViaje) + Cardinality(Leyendo)

\* the pairs that await at once were noted
Anotados ==
  /\ \A h, g \in Esperan : h # g => {h, g} \in cruces
  /\ cruces \subseteq {{"tripulante", "detector"}, {"tripulante", "planificador"}}
  /\ {"tripulante", "planificador"} \in cruces => sobran
  /\ caido = "desfase" => cruces # {}

\* the answer r to NEXT_T is right for what the trip has received
Acorde(r) ==
  \/ r = "TASK_T" /\ ip = hechas + 1
  \/ r = "ER_MSJ" /\ ip = hechas /\ hechas = CantTareas

\* no request of a task is on its way
SinPedidos == \A i \in DOMAIN ida : ida[i] # "NEXT_T"

\* while no two threads awaited answers at once, the trip gets those to its requests
TareasPropias ==
  /\ pc["tripulante"] # "tarea" => ip = hechas /\ SinPedidos
  /\ pc["tripulante"] = "tarea" =>
       \/ lectura["tripulante"] = <<"codigo">> /\ ida = <<"NEXT_T">> /\ vuelta = << >> /\ ip = hechas
       \/ /\ lectura["tripulante"] = <<"codigo">> /\ ida = << >> /\ vuelta # << >>
          /\ Acorde(vuelta[1].op)
       \/ /\ lectura["tripulante"] # <<"codigo">> /\ SinPedidos /\ Acorde(codigo["tripulante"])
          /\ lectura["tripulante"] # << >> => codigo["tripulante"] = "TASK_T"
  /\ pc["tripulante"] \in {"no_task", "fin"} => hechas = CantTareas

\* what is on the wire is in order, and counted
Cable == TipoSocket /\ Formato /\ Contadas

\* where the threads are, and who has the trip
Turnos ==
  TipoHilos /\ Preguntan /\ UnLugar /\ (caido = "no" /\ ~sobran => UnDuenio)

\* the inductive invariant
IInv ==
  /\ TipoSocket /\ Turnos /\ Anotados
  /\ caido # "desfase" => Cable
  /\ cruces = {} => TareasPropias

-----------------------------------------------------------------------------
(* The fields of an answer *)

\* FlattenSeq of one sequence is that sequence.
LEMMA AplanarUno ==
  ASSUME NEW S, NEW s \in Seq(S), NEW x, x = [i \in 1 .. 1 |-> s]
  PROVE  FlattenSeq(x) = s
<1>1. Len(x) = 1 /\ x \in Seq(Seq(S)) OBVIOUS
<1>. DEFINE G(g) == g = [i \in 1 .. Len(x) |-> IF i = 1 THEN x[i] ELSE g[i - 1] \o x[i]]
<1>2. FlattenSeq(x) = (CHOOSE g : G(g))[Len(x)] BY <1>1 DEF FlattenSeq
<1>3. PICK f : f = [i \in 1 .. 1 |-> s] OBVIOUS
<1>4. G(f)
  <2>1. \A i \in 1 .. 1 : (IF i = 1 THEN x[i] ELSE f[i - 1] \o x[i]) = s OBVIOUS
  <2>. QED BY <1>1, <1>3, <2>1
<1>5. PICK h : h = CHOOSE g : G(g) OBVIOUS
<1>6. G(h)
  <2>. HIDE DEF G
  <2>. QED BY <1>4, <1>5
<1>7. h[1] = s BY <1>1, <1>6
<1>. HIDE DEF G
<1>. QED BY <1>1, <1>2, <1>5, <1>7

\* The fields that follow the code of each answer.
LEMMA CamposValen ==
  /\ CamposDe("TASK_T") = <<"largo", "texto">>
  /\ CamposDe("TODOOK") = << >> /\ CamposDe("ER_MSJ") = << >>
<1>1. Parametros("TASK_T") = <<"BUFFER">> BY DEF Parametros
<1>2. Parametros("TODOOK") = << >> /\ Parametros("ER_MSJ") = << >> BY DEF Parametros
<1>3. Campos("BUFFER") = <<"largo", "texto">> BY DEF Campos
<1>4. CamposDe("TASK_T") = <<"largo", "texto">>
  <2>1. PICK x : x = [i \in DOMAIN Parametros("TASK_T") |-> Campos(Parametros("TASK_T")[i])] OBVIOUS
  <2>2. x = [i \in 1 .. 1 |-> <<"largo", "texto">>]
    <3>1. DOMAIN <<"BUFFER">> = 1 .. 1 /\ \A i \in 1 .. 1 : <<"BUFFER">>[i] = "BUFFER" OBVIOUS
    <3>. QED BY <2>1, <1>1, <1>3, <3>1
  <2>3. <<"largo", "texto">> \in Seq({"largo", "texto"}) OBVIOUS
  <2>4. FlattenSeq(x) = <<"largo", "texto">> BY <2>2, <2>3, AplanarUno
  <2>. QED BY <2>1, <2>4 DEF CamposDe
<1>5. ASSUME NEW op, Parametros(op) = << >> PROVE CamposDe(op) = << >>
  <2>1. PICK x : x = [i \in DOMAIN Parametros(op) |-> Campos(Parametros(op)[i])] OBVIOUS
  <2>2. x = << >> BY <2>1, <1>5
  <2>3. FlattenSeq(x) = << >> BY <2>2 DEF FlattenSeq
  <2>. QED BY <2>1, <2>3 DEF CamposDe
<1>. QED BY <1>2, <1>4, <1>5

\* Each answer on the wire.
LEMMA CableVale ==
  ASSUME NEW r \in Respuestas, NEW e, e = EnElCable(r)
  PROVE  /\ e \in Seq(Campo) /\ e[1].campo = "codigo" /\ e[1].op = r
         /\ Len(e) = IF r = "TASK_T" THEN 3 ELSE 1
         /\ r = "TASK_T" =>
              /\ e[2].campo = "largo" /\ e[2].op = r
              /\ e[3].campo = "texto" /\ e[3].op = r
<1>1. PICK c : c = [campo |-> "codigo", op |-> r] OBVIOUS
<1>2. PICK f : f = [i \in DOMAIN CamposDe(r) |-> [campo |-> CamposDe(r)[i], op |-> r]] OBVIOUS
<1>3. e = <<c>> \o f BY <1>1, <1>2 DEF EnElCable
<1>4. <<c>> \in Seq(Campo) /\ <<c>>[1] = c /\ Len(<<c>>) = 1
  <2>1. c \in Campo BY <1>1 DEF Campo
  <2>. QED BY <2>1
<1>5. CASE r = "TASK_T"
  <2>1. /\ f \in Seq(Campo) /\ Len(f) = 2
        /\ f[1].campo = "largo" /\ f[1].op = r /\ f[2].campo = "texto" /\ f[2].op = r
    <3>1. PICK d : d = <<"largo", "texto">> OBVIOUS
    <3>2. DOMAIN d = 1 .. 2 /\ d[1] = "largo" /\ d[2] = "texto" BY <3>1
    <3>3. f = [i \in 1 .. 2 |-> [campo |-> d[i], op |-> r]] BY <1>2, <1>5, <3>1, <3>2, CamposValen
    <3>4. \A i \in 1 .. 2 : f[i] \in Campo BY <3>2, <3>3 DEF Campo
    <3>. QED BY <3>2, <3>3, <3>4
  <2>2. /\ e \in Seq(Campo) /\ Len(e) = 3 /\ e[1] = c /\ e[2] = f[1] /\ e[3] = f[2]
    <3>1. PICK q : q = <<c>> OBVIOUS
    <3>2. q \in Seq(Campo) /\ Len(q) = 1 /\ q[1] = c BY <1>4, <3>1
    <3>3. /\ q \o f \in Seq(Campo) /\ Len(q \o f) = Len(q) + Len(f)
          /\ \A i \in 1 .. Len(q) + Len(f) :
               (q \o f)[i] = IF i <= Len(q) THEN q[i] ELSE f[i - Len(q)]
      BY <2>1, <3>2, ConcatProperties
    <3>4. e = q \o f BY <1>3, <3>1
    <3>. QED BY <2>1, <3>2, <3>3, <3>4
  <2>. QED BY <1>1, <1>5, <2>1, <2>2
<1>6. CASE r # "TASK_T"
  <2>1. CamposDe(r) = << >> BY <1>6, CamposValen DEF Respuestas
  <2>2. f = << >> BY <1>2, <2>1
  <2>3. e = <<c>> BY <1>3, <1>4, <2>2, ConcatEmptySeq
  <2>. QED BY <1>1, <1>4, <1>6, <2>3
<1>. QED BY <1>5, <1>6

-----------------------------------------------------------------------------
(* Counting *)

\* the codes among the fields of v
Codigos(v) == {i \in DOMAIN v : v[i].campo = "codigo"}

\* They are finitely many.
LEMMA CodigosFinitos ==
  ASSUME NEW v \in Seq(Campo)
  PROVE  IsFiniteSet(Codigos(v)) /\ Cardinality(Codigos(v)) \in Nat
<1>1. IsFiniteSet(1 .. Len(v)) BY FS_Interval
<1>2. Codigos(v) \subseteq 1 .. Len(v) BY DEF Codigos
<1>. QED BY <1>1, <1>2, FS_Subset, FS_CardinalityType

\* Reading a field takes a code from the wire if the field is one.
LEMMA CodigosCola ==
  ASSUME NEW v \in Seq(Campo), v # << >>
  PROVE  Cardinality(Codigos(v)) =
           Cardinality(Codigos(Tail(v))) + (IF v[1].campo = "codigo" THEN 1 ELSE 0)
<1>. DEFINE w == Tail(v)
            C == {i \in Codigos(v) : i # 1}
<1>1. w \in Seq(Campo) /\ Len(w) = Len(v) - 1 /\ \A i \in 1 .. Len(w) : w[i] = v[i + 1]
  BY HeadTailProperties
<1>2. IsFiniteSet(Codigos(w)) /\ Cardinality(Codigos(w)) \in Nat BY <1>1, CodigosFinitos
<1>3. IsFiniteSet(C) /\ Cardinality(C) = Cardinality(Codigos(w))
  <2>. DEFINE f == [i \in Codigos(w) |-> i + 1]
  <2>1. f \in Bijection(Codigos(w), C)
    <3>1. \A i \in Codigos(w) : i \in 1 .. Len(w) /\ w[i].campo = "codigo" BY <1>1 DEF Codigos
    <3>2. ASSUME NEW i \in Codigos(w) PROVE f[i] \in C
      <4>1. i + 1 \in 1 .. Len(v) /\ v[i + 1].campo = "codigo" /\ i + 1 # 1 BY <1>1, <3>1
      <4>. QED BY <4>1 DEF Codigos
    <3>3. \A i, j \in Codigos(w) : f[i] = f[j] => i = j BY <3>1
    <3>4. ASSUME NEW j \in C PROVE \E i \in Codigos(w) : f[i] = j
      <4>1. j \in 1 .. Len(v) /\ v[j].campo = "codigo" /\ j # 1 BY DEF Codigos
      <4>2. j - 1 \in 1 .. Len(w) /\ w[j - 1] = v[j] BY <1>1, <4>1
      <4>3. j - 1 \in Codigos(w) BY <1>1, <4>1, <4>2 DEF Codigos
      <4>. QED BY <4>1, <4>3
    <3>5. f \in [Codigos(w) -> C] BY <3>2
    <3>. QED BY <3>3, <3>4, <3>5 DEF Bijection, Injection, Surjection, IsInjective
  <2>2. ExistsBijection(Codigos(w), C) BY <2>1 DEF ExistsBijection
  <2>. QED BY <1>2, <2>2, FS_Bijection
<1>4. CASE v[1].campo = "codigo"
  <2>1. Codigos(v) = C \union {1} /\ 1 \notin C BY <1>4 DEF Codigos
  <2>2. Cardinality(Codigos(v)) = Cardinality(C) + 1 BY <1>3, <2>1, FS_AddElement
  <2>. QED BY <1>2, <1>3, <1>4, <2>2
<1>5. CASE v[1].campo # "codigo"
  <2>1. Codigos(v) = C BY <1>5 DEF Codigos
  <2>. HIDE DEF C, w
  <2>2. Cardinality(Codigos(v)) = Cardinality(Codigos(w)) BY <1>3, <2>1
  <2>. QED BY <1>2, <1>5, <2>2 DEF w
<1>. QED BY <1>4, <1>5

\* An answer adds a code to the wire.
LEMMA CodigosMas ==
  ASSUME NEW v \in Seq(Campo), NEW r \in Respuestas
  PROVE  Cardinality(Codigos(v \o EnElCable(r))) = Cardinality(Codigos(v)) + 1
<1>. DEFINE n == Len(v)
<1>1. PICK e : e = EnElCable(r) OBVIOUS
<1>2. /\ e \in Seq(Campo) /\ Len(e) >= 1 /\ e[1].campo = "codigo"
      /\ \A i \in 2 .. Len(e) : e[i].campo # "codigo"
  BY <1>1, CableVale
<1>3. PICK w : w = v \o e OBVIOUS
<1>4. /\ w \in Seq(Campo) /\ Len(w) = n + Len(e)
      /\ \A i \in 1 .. n + Len(e) : w[i] = IF i <= n THEN v[i] ELSE e[i - n]
  BY <1>2, <1>3, ConcatProperties
<1>5. Codigos(w) = Codigos(v) \union {n + 1}
  <2>1. ASSUME NEW i \in 1 .. n + Len(e), i > n PROVE w[i].campo = "codigo" <=> i = n + 1
    <3>1. i - n \in 1 .. Len(e) /\ w[i] = e[i - n] BY <1>2, <1>4, <2>1
    <3>2. i = n + 1 <=> i - n = 1 OBVIOUS
    <3>3. i - n # 1 => i - n \in 2 .. Len(e) BY <3>1
    <3>. QED BY <1>2, <3>1, <3>2, <3>3
  <2>2. ASSUME NEW i \in 1 .. n PROVE w[i] = v[i] BY <1>2, <1>4
  <2>3. n + 1 \in 1 .. n + Len(e) BY <1>2
  <2>4. DOMAIN w = 1 .. n + Len(e) /\ DOMAIN v = 1 .. n BY <1>4
  <2>5. ASSUME NEW i PROVE i \in Codigos(w) <=> i \in Codigos(v) \union {n + 1}
    <3>1. CASE i \in 1 .. n
      <4>1. i \in 1 .. n + Len(e) /\ i # n + 1 BY <1>2, <3>1
      <4>. QED BY <2>2, <2>4, <3>1, <4>1 DEF Codigos
    <3>2. CASE i \notin 1 .. n
      <4>1. i \notin Codigos(v) BY <2>4, <3>2 DEF Codigos
      <4>2. CASE i \in 1 .. n + Len(e)
        <5>1. i > n BY <3>2, <4>2
        <5>. QED BY <2>1, <2>4, <4>1, <4>2, <5>1 DEF Codigos
      <4>3. CASE i \notin 1 .. n + Len(e) BY <2>3, <2>4, <4>1, <4>3 DEF Codigos
      <4>. QED BY <4>2, <4>3
    <3>. QED BY <3>1, <3>2
  <2>. QED BY <2>5
<1>6. n + 1 \notin Codigos(v) BY DEF Codigos
<1>7. IsFiniteSet(Codigos(v)) /\ Cardinality(Codigos(v)) \in Nat BY CodigosFinitos
<1>8. Cardinality(Codigos(v) \union {n + 1}) = Cardinality(Codigos(v)) + 1
  BY <1>6, <1>7, FS_AddElement
<1>. QED BY <1>1, <1>3, <1>5, <1>8

\* There are finitely many threads.
LEMMA HilosFinitos ==
  ASSUME NEW S \in SUBSET Hilos
  PROVE  IsFiniteSet(S) /\ Cardinality(S) \in Nat /\ (Cardinality(S) = 0 => S = {})
<1>1. IsFiniteSet(Hilos)
  <2>1. IsFiniteSet({}) BY FS_EmptySet
  <2>2. IsFiniteSet({} \union {"tripulante"}) BY <2>1, FS_AddElement
  <2>3. IsFiniteSet(({} \union {"tripulante"}) \union {"planificador"}) BY <2>2, FS_AddElement
  <2>4. IsFiniteSet((({} \union {"tripulante"}) \union {"planificador"}) \union {"detector"})
    BY <2>3, FS_AddElement
  <2>5. Hilos = ((({} \union {"tripulante"}) \union {"planificador"}) \union {"detector"})
    BY DEF Hilos
  <2>. QED BY <2>4, <2>5
<1>2. IsFiniteSet(S) BY <1>1, FS_Subset
<1>. QED BY <1>2, FS_CardinalityType, FS_EmptySet

-----------------------------------------------------------------------------
(* The socket *)

\* the values of lectura are different sequences
LEMMA RestosDistintos ==
  /\ <<"codigo">> # << >> /\ <<"largo", "texto">> # << >> /\ <<"texto">> # << >>
  /\ <<"codigo">> # <<"largo", "texto">> /\ <<"codigo">> # <<"texto">>
  /\ <<"codigo">> \in Restos /\ << >> \in Restos
  /\ <<"largo", "texto">> \in Restos /\ <<"texto">> \in Restos
<1>1. Len(<<"codigo">>) = 1 /\ Len(<<"largo", "texto">>) = 2 /\ Len(<<"texto">>) = 1 OBVIOUS
<1>2. <<"codigo">>[1] = "codigo" /\ <<"texto">>[1] = "texto" OBVIOUS
<1>3. Len(<< >>) = 0 OBVIOUS
<1>. QED BY <1>1, <1>2, <1>3 DEF Restos

\* What a thread that reads an answer has still to read.
LEMMA LeyendoVale ==
  ASSUME TipoSocket, NEW h \in Hilos
  PROVE  /\ h \in Leyendo <=> lectura[h] \in {<<"largo", "texto">>, <<"texto">>}
         /\ h \in Esperan <=> lectura[h] # << >>
         /\ h \in Esperan /\ h \notin Leyendo <=> lectura[h] = <<"codigo">>
<1>1. lectura[h] \in Restos BY DEF TipoSocket
<1>2. lectura[h] = <<"codigo">> <=> codigo[h] = "nada" /\ lectura[h] # << >> BY DEF TipoSocket
<1>3. /\ h \in Esperan <=> lectura[h] # << >>
      /\ h \in Leyendo <=> lectura[h] # << >> /\ codigo[h] # "nada"
  BY DEF Esperan, Leyendo, Espera
<1>. QED BY <1>1, <1>2, <1>3, RestosDistintos DEF Restos

\* A request is one more thread that awaits, and one more request on the wire.
LEMMA PedirBien ==
  ASSUME Cable, NEW h \in Hilos, ~Espera(h), NEW op \in Solicitudes, Pedir(h, op), ip' = ip
  PROVE  /\ Cable'
         /\ Esperan' = Esperan \union {h}
         /\ lectura' = [lectura EXCEPT ![h] = <<"codigo">>]
<1>1. /\ ida' = Append(ida, op) /\ vuelta' = vuelta
      /\ lectura' = [lectura EXCEPT ![h] = <<"codigo">>]
      /\ codigo' = [codigo EXCEPT ![h] = "nada"]
  BY DEF Pedir
<1>2. /\ ida \in Seq(Solicitudes) /\ vuelta \in Seq(Campo)
      /\ lectura \in [Hilos -> Restos] /\ codigo \in [Hilos -> Respuestas \union {"nada"}]
      /\ ip \in 0 .. CantTareas
      /\ \A g \in Hilos : lectura[g] = <<"codigo">> <=> codigo[g] = "nada" /\ lectura[g] # << >>
  BY DEF Cable, TipoSocket
<1>3. /\ ida' \in Seq(Solicitudes) /\ Len(ida') = Len(ida) + 1 BY <1>1, <1>2, AppendProperties
<1>4. /\ lectura'[h] = <<"codigo">> /\ codigo'[h] = "nada"
      /\ \A g \in Hilos : g # h => lectura'[g] = lectura[g] /\ codigo'[g] = codigo[g]
      /\ lectura' \in [Hilos -> Restos] /\ codigo' \in [Hilos -> Respuestas \union {"nada"}]
  BY <1>1, <1>2, RestosDistintos
<1>5. TipoSocket'
  <2>1. \A g \in Hilos : lectura'[g] = <<"codigo">> <=> codigo'[g] = "nada" /\ lectura'[g] # << >>
    BY <1>2, <1>4, RestosDistintos
  <2>. QED BY <1>1, <1>2, <1>3, <1>4, <2>1 DEF TipoSocket
<1>6. lectura[h] = << >> BY DEF Espera
<1>7. Esperan' = Esperan \union {h} /\ h \notin Esperan
  BY <1>4, <1>6, RestosDistintos DEF Esperan, Espera
<1>8. Leyendo' = Leyendo
  <2>1. Leyendo = {g \in Hilos : lectura[g] # << >> /\ codigo[g] # "nada"}
    BY DEF Leyendo, Esperan, Espera
  <2>2. Leyendo' = {g \in Hilos : lectura'[g] # << >> /\ codigo'[g] # "nada"}
    BY DEF Leyendo, Esperan, Espera
  <2>. QED BY <1>4, <1>6, <2>1, <2>2
<1>9. Formato'
  <2>1. Formato BY DEF Cable
  <2>2. \A g \in Leyendo : lectura'[g] = lectura[g] BY <1>4, <1>6 DEF Leyendo, Esperan, Espera
  <2>. QED BY <1>1, <1>8, <2>1, <2>2 DEF Formato, Sigue
<1>10. Contadas'
  <2>1. Cardinality(Esperan') = Cardinality(Esperan) + 1
    <3>1. IsFiniteSet(Esperan) BY HilosFinitos DEF Esperan
    <3>. QED BY <1>7, <3>1, FS_AddElement
  <2>2. EnViaje' = EnViaje BY <1>1 DEF EnViaje
  <2>3. Cardinality(Esperan) = Len(ida) + Cardinality(EnViaje) + Cardinality(Leyendo)
    BY DEF Cable, Contadas
  <2>4. EnViaje = Codigos(vuelta) BY DEF EnViaje, Codigos
  <2>5. Cardinality(EnViaje) \in Nat BY <1>2, <2>4, CodigosFinitos
  <2>6. Cardinality(Leyendo) \in Nat BY HilosFinitos DEF Leyendo, Esperan
  <2>7. Len(ida) \in Nat BY <1>2
  <2>. QED BY <1>3, <1>8, <2>1, <2>2, <2>3, <2>5, <2>6, <2>7 DEF Contadas
<1>. QED BY <1>1, <1>5, <1>7, <1>9, <1>10 DEF Cable

\* When no thread awaits there is nothing on the wire.
LEMMA CableVacio ==
  ASSUME Cable, Esperan = {}
  PROVE  ida = << >> /\ vuelta = << >>
<1>1. ida \in Seq(Solicitudes) /\ vuelta \in Seq(Campo) BY DEF Cable, TipoSocket
<1>2. EnViaje = Codigos(vuelta) BY DEF EnViaje, Codigos
<1>3. IsFiniteSet(EnViaje) /\ Cardinality(EnViaje) \in Nat BY <1>1, <1>2, CodigosFinitos
<1>4. Leyendo = {} BY DEF Leyendo
<1>5. Cardinality(Leyendo) = 0 /\ Cardinality(Esperan) = 0 BY <1>4, FS_EmptySet
<1>6. Len(ida) = 0 /\ Cardinality(EnViaje) = 0
  <2>1. Cardinality(Esperan) = Len(ida) + Cardinality(EnViaje) + Cardinality(Leyendo)
    BY DEF Cable, Contadas
  <2>2. Len(ida) \in Nat BY <1>1
  <2>. QED BY <1>3, <1>5, <2>1, <2>2
<1>7. EnViaje = {} BY <1>3, <1>6, FS_EmptySet
<1>8. vuelta = << >>
  <2>1. SUFFICES ASSUME vuelta # << >> PROVE FALSE OBVIOUS
  <2>2. vuelta[1].campo = "codigo" BY <1>4, <2>1 DEF Cable, Formato
  <2>3. 1 \in DOMAIN vuelta BY <1>1, <2>1
  <2>. QED BY <1>7, <2>2, <2>3 DEF EnViaje
<1>. QED BY <1>1, <1>6, <1>8

\* Reading a field leaves the fields in order, and the next is the one that follows it.
LEMMA SeguidosCola ==
  ASSUME NEW v \in Seq(Campo), v # << >>, Seguidos(v)
  PROVE  /\ Seguidos(Tail(v))
         /\ Tail(v) # << >> => Tail(v)[1].campo = Sigue(v[1])
         /\ Tail(v) = << >> => Sigue(v[1]) = "codigo"
         /\ v[1].campo # "codigo" => v[1].op = "TASK_T"
<1>1. PICK w : w = Tail(v) OBVIOUS
<1>2. w \in Seq(Campo) /\ Len(w) = Len(v) - 1 /\ \A i \in 1 .. Len(w) : w[i] = v[i + 1]
  BY <1>1, HeadTailProperties
<1>3. \A i \in 1 .. Len(v) :
        /\ v[i].campo # "codigo" => v[i].op = "TASK_T"
        /\ i < Len(v) => v[i + 1].campo = Sigue(v[i])
        /\ i = Len(v) => Sigue(v[i]) = "codigo"
  BY DEF Seguidos
<1>4. Seguidos(w)
  <2>1. SUFFICES ASSUME NEW i \in 1 .. Len(w)
                 PROVE  /\ w[i].campo # "codigo" => w[i].op = "TASK_T"
                        /\ i < Len(w) => w[i + 1].campo = Sigue(w[i])
                        /\ i = Len(w) => Sigue(w[i]) = "codigo"
    BY <1>2 DEF Seguidos
  <2>2. i + 1 \in 1 .. Len(v) /\ w[i] = v[i + 1] BY <1>2
  <2>3. i < Len(w) => w[i + 1] = v[(i + 1) + 1] /\ i + 1 < Len(v) BY <1>2
  <2>4. i = Len(w) => i + 1 = Len(v) BY <1>2
  <2>. QED BY <1>3, <2>2, <2>3, <2>4
<1>5. Len(v) \in Nat /\ Len(v) >= 1 OBVIOUS
<1>6. w # << >> => w[1] = v[2] /\ 1 < Len(v) BY <1>2, <1>5
<1>7. w = << >> => 1 = Len(v) BY <1>2, <1>5
<1>8. 1 \in 1 .. Len(v) /\ 1 + 1 = 2 BY <1>5
<1>. QED BY <1>1, <1>3, <1>4, <1>6, <1>7, <1>8

\* An answer written after them, the first or behind others, leaves them in order too.
LEMMA SeguidosMas ==
  ASSUME NEW v \in Seq(Campo), Seguidos(v), NEW r \in Respuestas, NEW w, w = v \o EnElCable(r)
  PROVE  /\ w \in Seq(Campo) /\ Seguidos(w) /\ w # << >>
         /\ IF v = << >> THEN w[1].campo = "codigo" /\ w[1].op = r ELSE w[1] = v[1]
<1>. DEFINE n == Len(v)
<1>0. n \in Nat /\ DOMAIN v = 1 .. n OBVIOUS
<1>1. PICK e : e = EnElCable(r) OBVIOUS
<1>2. /\ e \in Seq(Campo) /\ e[1].campo = "codigo" /\ e[1].op = r
      /\ Len(e) = IF r = "TASK_T" THEN 3 ELSE 1
      /\ r = "TASK_T" =>
           /\ e[2].campo = "largo" /\ e[2].op = r
           /\ e[3].campo = "texto" /\ e[3].op = r
  BY <1>1, CableVale
<1>3. /\ w \in Seq(Campo) /\ Len(w) = n + Len(e)
      /\ \A i \in 1 .. n + Len(e) : w[i] = IF i <= n THEN v[i] ELSE e[i - n]
  BY <1>1, <1>2, ConcatProperties
<1>4. \A i \in 1 .. n : w[i] = v[i] BY <1>0, <1>2, <1>3
<1>5. /\ w[n + 1] = e[1]
      /\ r = "TASK_T" => w[n + 2] = e[2] /\ w[n + 3] = e[3]
  <2>1. ASSUME NEW k \in 1 .. Len(e) PROVE w[n + k] = e[k]
    <3>1. n + k \in 1 .. n + Len(e) /\ ~(n + k <= n) /\ (n + k) - n = k BY <1>0, <1>2
    <3>. QED BY <1>3, <3>1
  <2>2. 1 \in 1 .. Len(e) /\ (r = "TASK_T" => 2 \in 1 .. Len(e) /\ 3 \in 1 .. Len(e)) BY <1>2
  <2>. QED BY <2>1, <2>2
<1>6. ASSUME NEW i \in 1 .. n
      PROVE  /\ w[i].campo # "codigo" => w[i].op = "TASK_T"
             /\ w[i + 1].campo = Sigue(w[i])
  <2>1. /\ v[i].campo # "codigo" => v[i].op = "TASK_T"
        /\ i < n => v[i + 1].campo = Sigue(v[i])
        /\ i = n => Sigue(v[i]) = "codigo"
    BY <1>0 DEF Seguidos
  <2>2. i < n => w[i + 1] = v[i + 1] BY <1>0, <1>4
  <2>3. i = n => w[i + 1].campo = "codigo" BY <1>2, <1>5
  <2>4. w[i] = v[i] BY <1>4
  <2>5. i < n \/ i = n
    <3>1. \A m \in Nat : i \in 1 .. m => i < m \/ i = m OBVIOUS
    <3>. QED BY <1>0, <3>1
  <2>. QED BY <2>1, <2>2, <2>3, <2>4, <2>5
<1>7. Seguidos(w)
  <2>1. SUFFICES ASSUME NEW i \in 1 .. n + Len(e)
                 PROVE  /\ w[i].campo # "codigo" => w[i].op = "TASK_T"
                        /\ i < n + Len(e) => w[i + 1].campo = Sigue(w[i])
                        /\ i = n + Len(e) => Sigue(w[i]) = "codigo"
    <3>1. DOMAIN w = 1 .. n + Len(e) BY <1>3
    <3>. QED BY <1>3, <3>1 DEF Seguidos
  <2>2. CASE i \in 1 .. n
    <3>1. i # n + Len(e) BY <1>0, <1>2, <2>2
    <3>. QED BY <1>6, <2>2, <3>1
  <2>3. CASE i \notin 1 .. n
    <3>1. CASE r = "TASK_T"
      <4>1. i \in {n + 1, n + 2, n + 3} /\ Len(e) = 3 BY <1>0, <1>2, <2>3, <3>1
      <4>2. (n + 1) + 1 = n + 2 /\ (n + 2) + 1 = n + 3 BY <1>0
      <4>3. n + 1 # n + 3 /\ n + 2 # n + 3 /\ ~(n + 3 < n + 3) BY <1>0
      <4>. QED BY <1>2, <1>5, <3>1, <4>1, <4>2, <4>3 DEF Sigue
    <3>2. CASE r # "TASK_T"
      <4>1. i = n + 1 /\ Len(e) = 1 BY <1>0, <1>2, <2>3, <3>2
      <4>2. w[i] = e[1] /\ ~(i < n + Len(e))
        <5>1. \A m \in Nat : ~(m + 1 < m + 1) OBVIOUS
        <5>. QED BY <1>0, <1>5, <4>1, <5>1
      <4>3. Sigue(e[1]) = "codigo" BY <1>2, <3>2 DEF Sigue
      <4>. QED BY <1>2, <4>2, <4>3
    <3>. QED BY <3>1, <3>2
  <2>. QED BY <2>2, <2>3
<1>8. w # << >> BY <1>0, <1>2, <1>3
<1>9. CASE v = << >> BY <1>0, <1>2, <1>3, <1>5, <1>7, <1>8, <1>9
<1>10. CASE v # << >>
  <2>1. 1 \in 1 .. n BY <1>0, <1>10
  <2>. QED BY <1>3, <1>4, <1>7, <1>8, <1>10, <2>1
<1>. QED BY <1>9, <1>10

\* The RAM answers the first request.
LEMMA RutinaBien ==
  ASSUME Cable, rutina_hilos
  PROVE  /\ Cable'
         /\ Esperan' = Esperan /\ lectura' = lectura /\ codigo' = codigo
         /\ ida # << >> /\ ida' = Tail(ida) /\ Respuesta(ida[1]) \in Respuestas
         /\ ip' = ip + Avanzar(ida[1])
         /\ vuelta' # << >>
         /\ IF vuelta = << >> THEN vuelta'[1].op = Respuesta(ida[1]) ELSE vuelta'[1] = vuelta[1]
<1>1. /\ ida \in Seq(Solicitudes) /\ vuelta \in Seq(Campo) /\ ip \in 0 .. CantTareas
      /\ lectura \in [Hilos -> Restos] /\ codigo \in [Hilos -> Respuestas \union {"nada"}]
      /\ \A g \in Hilos : lectura[g] = <<"codigo">> <=> codigo[g] = "nada" /\ lectura[g] # << >>
  BY DEF Cable, TipoSocket
<1>2. ida # << >> BY DEF rutina_hilos
<1>3. /\ Head(ida) = ida[1] /\ ida[1] \in Solicitudes
      /\ Tail(ida) \in Seq(Solicitudes) /\ Len(Tail(ida)) = Len(ida) - 1
  BY <1>1, <1>2, HeadTailProperties
<1>4. PICK r : r = Respuesta(ida[1]) OBVIOUS
<1>5. /\ r \in Respuestas
      /\ Avanzar(ida[1]) = IF r = "TASK_T" THEN 1 ELSE 0
      /\ r = "TASK_T" => ip + 1 <= CantTareas
  <2>1. CantTareas \in Nat BY CantidadesValidas
  <2>2. Avanzar(ida[1]) = IF r = "TASK_T" THEN 1 ELSE 0 BY <1>4 DEF Avanzar
  <2>3. CASE ida[1] = "NEXT_T"
    <3>1. r = IF ip + 1 > CantTareas THEN "ER_MSJ" ELSE "TASK_T" BY <1>4, <2>3 DEF Respuesta
    <3>. QED BY <1>1, <2>1, <2>2, <3>1 DEF Respuestas
  <2>4. CASE ida[1] # "NEXT_T"
    <3>1. r = "TODOOK" BY <1>3, <1>4, <2>4 DEF Respuesta, Solicitudes
    <3>. QED BY <2>2, <3>1 DEF Respuestas
  <2>. QED BY <2>3, <2>4
<1>6. /\ ida' = Tail(ida) /\ ip' = ip + Avanzar(ida[1])
      /\ lectura' = lectura /\ codigo' = codigo
  BY <1>3 DEF rutina_hilos
<1>7. vuelta' = vuelta \o EnElCable(r)
  <2>1. r # "nada" BY <1>5 DEF Respuestas
  <2>. QED BY <1>3, <1>4, <2>1 DEF rutina_hilos
<1>8. Seguidos(vuelta) BY DEF Cable, Formato
<1>9. /\ vuelta' \in Seq(Campo) /\ Seguidos(vuelta') /\ vuelta' # << >>
      /\ IF vuelta = << >> THEN vuelta'[1].campo = "codigo" /\ vuelta'[1].op = r
                           ELSE vuelta'[1] = vuelta[1]
  <2>1. PICK v, w : v = vuelta /\ w = vuelta' OBVIOUS
  <2>2. v \in Seq(Campo) /\ Seguidos(v) /\ w = v \o EnElCable(r) BY <1>1, <1>7, <1>8, <2>1
  <2>3. /\ w \in Seq(Campo) /\ Seguidos(w) /\ w # << >>
        /\ IF v = << >> THEN w[1].campo = "codigo" /\ w[1].op = r ELSE w[1] = v[1]
    BY <1>5, <2>2, SeguidosMas
  <2>. QED BY <2>1, <2>3
<1>10. ip' \in 0 .. CantTareas BY <1>1, <1>5, <1>6, CantidadesValidas
<1>11. TipoSocket' BY <1>1, <1>3, <1>6, <1>9, <1>10 DEF TipoSocket
<1>12. Esperan' = Esperan /\ Leyendo' = Leyendo BY <1>6 DEF Esperan, Leyendo, Espera
<1>13. Formato'
  <2>1. \A h \in Leyendo : vuelta # << >> /\ vuelta[1].campo = lectura[h][1]
    BY DEF Cable, Formato
  <2>2. vuelta # << >> /\ Leyendo = {} => vuelta[1].campo = "codigo" BY DEF Cable, Formato
  <2>3. \A h, g \in Leyendo : h = g BY DEF Cable, Formato
  <2>4. \A h \in Leyendo' : vuelta' # << >> /\ vuelta'[1].campo = lectura'[h][1]
    BY <1>6, <1>9, <1>12, <2>1
  <2>5. Leyendo' = {} => vuelta'[1].campo = "codigo" BY <1>9, <1>12, <2>2
  <2>6. \A h, g \in Leyendo' : h = g BY <1>12, <2>3
  <2>. QED BY <1>9, <2>4, <2>5, <2>6 DEF Formato
<1>14. Contadas'
  <2>1. Cardinality(Esperan) = Len(ida) + Cardinality(EnViaje) + Cardinality(Leyendo)
    BY DEF Cable, Contadas
  <2>2. EnViaje = Codigos(vuelta) /\ EnViaje' = Codigos(vuelta') BY DEF EnViaje, Codigos
  <2>3. Cardinality(EnViaje') = Cardinality(EnViaje) + 1
    BY <1>1, <1>5, <1>7, <2>2, CodigosMas
  <2>4. Cardinality(EnViaje) \in Nat BY <1>1, <2>2, CodigosFinitos
  <2>5. Cardinality(Leyendo) \in Nat BY HilosFinitos DEF Leyendo, Esperan
  <2>6. Len(ida') = Len(ida) - 1 /\ Len(ida) \in Nat BY <1>1, <1>3, <1>6
  <2>. QED BY <1>12, <2>1, <2>3, <2>4, <2>5, <2>6 DEF Contadas
<1>. QED BY <1>2, <1>4, <1>5, <1>6, <1>9, <1>11, <1>12, <1>13, <1>14 DEF Cable

\* What a recv does to the thread h that reads: resto is what it has still to read.
Leido(h, resto) ==
  /\ lectura' = [lectura EXCEPT ![h] = resto]
  /\ codigo' = [codigo EXCEPT ![h] = vuelta[1].op]
  /\ resto \in Restos \ {<<"codigo">>}
  /\ resto # << >> \/ lectura[h] # <<"codigo">> => vuelta[1].op = "TASK_T"
  /\ \/ /\ lectura[h] = <<"codigo">> /\ vuelta[1].campo = "codigo"
        /\ resto = IF vuelta[1].op = "TASK_T" THEN <<"largo", "texto">> ELSE << >>
     \/ lectura[h] = <<"largo", "texto">> /\ vuelta[1].campo = "largo" /\ resto = <<"texto">>
     \/ lectura[h] = <<"texto">> /\ vuelta[1].campo = "texto" /\ resto = << >>

\* A field that the thread expects is one of these.
LEMMA RecvLee ==
  ASSUME Cable, NEW h \in Hilos, recv(h), Head(vuelta).campo = Head(lectura[h])
  PROVE  \E resto : Leido(h, resto)
<1>1. /\ vuelta \in Seq(Campo) /\ vuelta # << >> /\ lectura \in [Hilos -> Restos]
      /\ lectura[h] # << >>
  BY DEF Cable, TipoSocket, recv, Espera
<1>2. Head(vuelta) = vuelta[1] /\ vuelta[1] \in Campo BY <1>1
<1>3. PICK l : l = lectura[h] OBVIOUS
<1>4. PICK r : r = vuelta[1].op OBVIOUS
<1>5. PICK s : s = IF Head(l) = "codigo" THEN CamposDe(r) ELSE << >> OBVIOUS
<1>6. PICK resto : resto = Tail(l) \o s OBVIOUS
<1>7. lectura' = [lectura EXCEPT ![h] = resto] /\ codigo' = [codigo EXCEPT ![h] = r]
  BY <1>1, <1>2, <1>3, <1>4, <1>5, <1>6 DEF recv
<1>8. r \in Respuestas BY <1>2, <1>4 DEF Campo
<1>9. l \in {<<"codigo">>, <<"largo", "texto">>, <<"texto">>} BY <1>1, <1>3 DEF Restos
<1>10. \A t : t \in Seq({"largo", "texto"}) => << >> \o t = t /\ t \o << >> = t
  BY ConcatEmptySeq
<1>11. << >> \in Seq({"largo", "texto"}) /\ <<"largo", "texto">> \in Seq({"largo", "texto"})
       /\ <<"texto">> \in Seq({"largo", "texto"})
  OBVIOUS
<1>12. vuelta[1].op # "TASK_T" /\ vuelta[1].campo # "codigo" => FALSE
  <2>1. Seguidos(vuelta) BY DEF Cable, Formato
  <2>. QED BY <1>1, <2>1, SeguidosCola
<1>13. CASE l = <<"codigo">>
  <2>1. Head(l) = "codigo" /\ Tail(l) = << >> BY <1>13
  <2>2. s = IF r = "TASK_T" THEN <<"largo", "texto">> ELSE << >>
    <3>1. s = CamposDe(r) BY <1>5, <2>1
    <3>. QED BY <1>8, <3>1, CamposValen DEF Respuestas
  <2>3. resto = s BY <1>6, <1>10, <1>11, <2>1, <2>2
  <2>4. Len(<< >>) = 0 OBVIOUS
  <2>5. vuelta[1].campo = "codigo" BY <1>2, <1>3, <2>1
  <2>. QED BY <1>3, <1>4, <1>7, <1>13, <2>2, <2>3, <2>4, <2>5, RestosDistintos DEF Leido
<1>14. CASE l = <<"largo", "texto">>
  <2>1. Head(l) = "largo" /\ Tail(l) = <<"texto">> BY <1>14
  <2>2. resto = <<"texto">> BY <1>5, <1>6, <1>10, <1>11, <2>1
  <2>3. vuelta[1].campo = "largo" BY <1>2, <1>3, <2>1
  <2>. QED BY <1>3, <1>4, <1>7, <1>12, <1>14, <2>2, <2>3, RestosDistintos DEF Leido
<1>15. CASE l = <<"texto">>
  <2>1. Head(l) = "texto" /\ Tail(l) = << >> BY <1>15
  <2>2. resto = << >> BY <1>5, <1>6, <1>10, <1>11, <2>1
  <2>3. vuelta[1].campo = "texto" BY <1>2, <1>3, <2>1
  <2>4. Len(<< >>) = 0 OBVIOUS
  <2>. QED BY <1>3, <1>4, <1>7, <1>12, <1>15, <2>2, <2>3, <2>4, RestosDistintos DEF Leido
<1>. QED BY <1>9, <1>13, <1>14, <1>15

\* Reading keeps the types of the socket.
LEMMA LeidoTipo ==
  ASSUME TipoSocket, NEW h \in Hilos, NEW resto, Leido(h, resto), vuelta # << >>,
         vuelta' = Tail(vuelta), ida' = ida, ip' = ip
  PROVE  TipoSocket'
<1>1. vuelta \in Seq(Campo) BY DEF TipoSocket
<1>2. vuelta' \in Seq(Campo) /\ vuelta[1] \in Campo BY <1>1
<1>3. vuelta[1].op \in Respuestas BY <1>2 DEF Campo
<1>4. vuelta[1].op # "nada" BY <1>3 DEF Respuestas
<1>5. lectura' = [lectura EXCEPT ![h] = resto] /\ codigo' = [codigo EXCEPT ![h] = vuelta[1].op]
  BY DEF Leido
<1>6. resto \in Restos /\ resto # <<"codigo">> BY DEF Leido
<1>7. /\ ida \in Seq(Solicitudes) /\ ip \in 0 .. CantTareas
      /\ lectura \in [Hilos -> Restos] /\ codigo \in [Hilos -> Respuestas \union {"nada"}]
      /\ \A g \in Hilos : lectura[g] = <<"codigo">> <=> codigo[g] = "nada" /\ lectura[g] # << >>
  BY DEF TipoSocket
<1>8. /\ lectura' \in [Hilos -> Restos] /\ codigo' \in [Hilos -> Respuestas \union {"nada"}]
      /\ lectura'[h] = resto /\ codigo'[h] = vuelta[1].op
      /\ \A g \in Hilos : g # h => lectura'[g] = lectura[g] /\ codigo'[g] = codigo[g]
  BY <1>3, <1>5, <1>6, <1>7
<1>9. ASSUME NEW g \in Hilos
      PROVE  lectura'[g] = <<"codigo">> <=> codigo'[g] = "nada" /\ lectura'[g] # << >>
  BY <1>4, <1>6, <1>7, <1>8
<1>. QED BY <1>2, <1>7, <1>8, <1>9 DEF TipoSocket

\* A recv reads what the thread expects, and the rest stays in order and counted; or it
\* takes a field for another kind, while another thread is reading an answer.
LEMMA RecvBien ==
  ASSUME Cable, NEW h \in Hilos, recv(h)
  PROVE  /\ TipoSocket' /\ h \in Esperan /\ vuelta # << >>
         /\ Esperan' \subseteq Esperan
         /\ \A g \in Hilos : g # h => lectura'[g] = lectura[g] /\ codigo'[g] = codigo[g]
         /\ \/ caido' = "desfase" /\ \E g \in Leyendo : g # h
            \/ caido' = caido /\ Cable' /\ \E resto : Leido(h, resto)
<1>1. /\ ida \in Seq(Solicitudes) /\ vuelta \in Seq(Campo) /\ ip \in 0 .. CantTareas
      /\ lectura \in [Hilos -> Restos] /\ codigo \in [Hilos -> Respuestas \union {"nada"}]
      /\ TipoSocket /\ Formato /\ Contadas
  BY DEF Cable, TipoSocket
<1>2. /\ lectura[h] # << >> /\ vuelta # << >> /\ vuelta' = Tail(vuelta) /\ ida' = ida /\ ip' = ip
  BY DEF recv, Espera
<1>3. h \in Esperan BY <1>1, <1>2, LeyendoVale
<1>4. /\ Head(vuelta) = vuelta[1] /\ vuelta[1] \in Campo /\ vuelta' \in Seq(Campo)
  BY <1>1, <1>2
<1>5. Seguidos(vuelta) BY <1>1 DEF Formato
<1>6. /\ Seguidos(vuelta')
      /\ vuelta' # << >> => vuelta'[1].campo = Sigue(vuelta[1])
      /\ vuelta' = << >> => Sigue(vuelta[1]) = "codigo"
  BY <1>1, <1>2, <1>5, SeguidosCola
<1>7. Cardinality(EnViaje) = Cardinality(EnViaje') + (IF vuelta[1].campo = "codigo" THEN 1 ELSE 0)
  <2>1. EnViaje = Codigos(vuelta) /\ EnViaje' = Codigos(vuelta') BY DEF EnViaje, Codigos
  <2>. QED BY <1>1, <1>2, <2>1, CodigosCola
<1>8. CASE Head(vuelta).campo = Head(lectura[h])
  <2>1. PICK resto : Leido(h, resto) BY <1>8, RecvLee
  <2>2. TipoSocket' BY <1>1, <1>2, <2>1, LeidoTipo
  <2>3. caido' = caido BY <1>8 DEF recv
  <2>4. /\ lectura'[h] = resto
        /\ \A g \in Hilos : g # h => lectura'[g] = lectura[g] /\ codigo'[g] = codigo[g]
    BY <1>1, <2>1 DEF Leido
  <2>5. \A g \in Hilos : g # h => (g \in Esperan' <=> g \in Esperan)
                                  /\ (g \in Leyendo' <=> g \in Leyendo)
    BY <2>4 DEF Esperan, Leyendo, Espera
  <2>6. (h \in Esperan' <=> resto # << >>)
    BY <2>4 DEF Esperan, Espera
  <2>7. (h \in Leyendo' <=> resto # << >>)
    <3>1. codigo'[h] = vuelta[1].op BY <1>1, <2>1 DEF Leido
    <3>2. codigo'[h] # "nada" BY <1>4, <3>1 DEF Campo, Respuestas
    <3>. QED BY <2>6, <3>2 DEF Leyendo
  <2>8. Esperan \subseteq Hilos /\ Leyendo \subseteq Hilos /\ Esperan' \subseteq Hilos
        /\ Leyendo' \subseteq Hilos
    BY DEF Esperan, Leyendo
  <2>9. h \in Leyendo <=> lectura[h] \in {<<"largo", "texto">>, <<"texto">>}
    BY <1>1, LeyendoVale
  <2>10. \A g \in Leyendo : vuelta[1].campo = lectura[g][1] BY <1>1 DEF Formato
  <2>11. ASSUME NEW g \in Leyendo PROVE vuelta[1].campo # "codigo"
    <3>1. lectura[g] \in {<<"largo", "texto">>, <<"texto">>} BY <1>1, <2>8, LeyendoVale
    <3>2. lectura[g][1] \in {"largo", "texto"} BY <3>1
    <3>. QED BY <2>10, <3>2
  <2>12. \A g, k \in Leyendo : g = k BY <1>1 DEF Formato
  <2>13. /\ Cardinality(Esperan) = Len(ida) + Cardinality(EnViaje) + Cardinality(Leyendo)
         /\ Len(ida) \in Nat /\ Cardinality(EnViaje) \in Nat /\ Cardinality(EnViaje') \in Nat
    <3>1. EnViaje = Codigos(vuelta) /\ EnViaje' = Codigos(vuelta') BY DEF EnViaje, Codigos
    <3>. QED BY <1>1, <1>4, <3>1, CodigosFinitos DEF Contadas
  <2>14. IsFiniteSet(Esperan) /\ Cardinality(Esperan) \in Nat BY <2>8, HilosFinitos
  <2>15. Cardinality({}) = 0 /\ Cardinality({h}) = 1 BY FS_EmptySet, FS_Singleton
  <2>16. Cardinality(Esperan \ {h}) = Cardinality(Esperan) - 1
    BY <1>3, <2>14, FS_RemoveElement
  <2>17. \/ /\ lectura[h] = <<"codigo">> /\ vuelta[1].campo = "codigo"
            /\ resto = IF vuelta[1].op = "TASK_T" THEN <<"largo", "texto">> ELSE << >>
         \/ lectura[h] = <<"largo", "texto">> /\ vuelta[1].campo = "largo" /\ resto = <<"texto">>
         \/ lectura[h] = <<"texto">> /\ vuelta[1].campo = "texto" /\ resto = << >>
    BY <2>1 DEF Leido
  <2>18. CASE lectura[h] = <<"codigo">> /\ vuelta[1].campo = "codigo" /\ vuelta[1].op = "TASK_T"
    <3>1. resto = <<"largo", "texto">> BY <2>17, <2>18, RestosDistintos
    <3>2. Leyendo = {} BY <2>11, <2>18
    <3>3. Leyendo' = {h} BY <2>5, <2>7, <2>8, <3>1, <3>2, RestosDistintos
    <3>4. Esperan' = Esperan BY <1>3, <2>5, <2>6, <2>8, <3>1, RestosDistintos
    <3>5. Sigue(vuelta[1]) = "largo" BY <2>18 DEF Sigue
    <3>6. vuelta' # << >> /\ vuelta'[1].campo = "largo" BY <1>6, <3>5
    <3>7. lectura'[h][1] = "largo" BY <2>4, <3>1
    <3>8. Formato' BY <1>6, <3>3, <3>6, <3>7 DEF Formato
    <3>9. Contadas' BY <1>2, <1>7, <2>13, <2>15, <2>18, <3>2, <3>3, <3>4 DEF Contadas
    <3>. QED BY <1>2, <1>3, <2>1, <2>2, <2>3, <2>4, <3>4, <3>8, <3>9 DEF Cable
  <2>19. CASE lectura[h] = <<"codigo">> /\ vuelta[1].campo = "codigo" /\ vuelta[1].op # "TASK_T"
    <3>1. resto = << >> BY <2>17, <2>19, RestosDistintos
    <3>2. Leyendo = {} BY <2>11, <2>19
    <3>3. Leyendo' = {} BY <2>5, <2>7, <2>8, <3>1, <3>2
    <3>4. Esperan' = Esperan \ {h} BY <1>3, <2>5, <2>6, <2>8, <3>1
    <3>5. Sigue(vuelta[1]) = "codigo" BY <2>19 DEF Sigue
    <3>6. vuelta' # << >> => vuelta'[1].campo = "codigo" BY <1>6, <3>5
    <3>8. Formato' BY <1>6, <3>3, <3>6 DEF Formato
    <3>9. Contadas' BY <1>2, <1>7, <2>13, <2>14, <2>15, <2>16, <2>19, <3>2, <3>3, <3>4 DEF Contadas
    <3>. QED BY <1>2, <1>3, <2>1, <2>2, <2>3, <2>4, <3>4, <3>8, <3>9 DEF Cable
  <2>20. CASE lectura[h] = <<"largo", "texto">> /\ vuelta[1].campo = "largo"
    <3>1. resto = <<"texto">> BY <2>17, <2>20, RestosDistintos
    <3>2. Leyendo = {h} BY <2>9, <2>12, <2>20
    <3>3. Leyendo' = {h} BY <2>5, <2>7, <2>8, <3>1, <3>2, RestosDistintos
    <3>4. Esperan' = Esperan BY <1>3, <2>5, <2>6, <2>8, <3>1, RestosDistintos
    <3>5. Sigue(vuelta[1]) = "texto" BY <2>20 DEF Sigue
    <3>6. vuelta' # << >> /\ vuelta'[1].campo = "texto" BY <1>6, <3>5
    <3>7. lectura'[h][1] = "texto" BY <2>4, <3>1
    <3>8. Formato' BY <1>6, <3>3, <3>6, <3>7 DEF Formato
    <3>9. Contadas' BY <1>2, <1>7, <2>13, <2>15, <2>20, <3>2, <3>3, <3>4 DEF Contadas
    <3>. QED BY <1>2, <1>3, <2>1, <2>2, <2>3, <2>4, <3>4, <3>8, <3>9 DEF Cable
  <2>21. CASE lectura[h] = <<"texto">> /\ vuelta[1].campo = "texto"
    <3>1. resto = << >> BY <2>17, <2>21, RestosDistintos
    <3>2. Leyendo = {h} BY <2>9, <2>12, <2>21
    <3>3. Leyendo' = {} BY <2>5, <2>7, <2>8, <3>1, <3>2
    <3>4. Esperan' = Esperan \ {h} BY <1>3, <2>5, <2>6, <2>8, <3>1
    <3>5. Sigue(vuelta[1]) = "codigo" BY <2>21 DEF Sigue
    <3>6. vuelta' # << >> => vuelta'[1].campo = "codigo" BY <1>6, <3>5
    <3>8. Formato' BY <1>6, <3>3, <3>6 DEF Formato
    <3>9. Contadas' BY <1>2, <1>7, <2>13, <2>14, <2>15, <2>16, <2>21, <3>2, <3>3, <3>4 DEF Contadas
    <3>. QED BY <1>2, <1>3, <2>1, <2>2, <2>3, <2>4, <3>4, <3>8, <3>9 DEF Cable
  <2>. QED BY <2>17, <2>18, <2>19, <2>20, <2>21
<1>9. CASE Head(vuelta).campo # Head(lectura[h])
  <2>1. caido' = "desfase" /\ lectura' = lectura /\ codigo' = codigo BY <1>9 DEF recv
  <2>2. TipoSocket' BY <1>1, <1>2, <1>4, <2>1 DEF TipoSocket
  <2>3. Esperan' = Esperan BY <2>1 DEF Esperan, Espera
  <2>4. \E g \in Leyendo : g # h
    <3>1. SUFFICES ASSUME \A g \in Leyendo : g = h PROVE FALSE OBVIOUS
    <3>2. Head(lectura[h]) = lectura[h][1] BY <1>1, <1>2 DEF Restos
    <3>3. CASE h \in Leyendo
      <4>1. vuelta[1].campo = lectura[h][1] BY <1>1, <3>3 DEF Formato
      <4>. QED BY <1>4, <1>9, <3>2, <4>1
    <3>4. CASE h \notin Leyendo
      <4>1. Leyendo = {} BY <3>1, <3>4
      <4>2. vuelta[1].campo = "codigo" BY <1>1, <1>2, <4>1 DEF Formato
      <4>3. lectura[h] = <<"codigo">> BY <1>1, <1>3, <3>4, LeyendoVale
      <4>. QED BY <1>4, <1>9, <4>2, <4>3
    <3>. QED BY <3>3, <3>4
  <2>. QED BY <1>2, <1>3, <2>1, <2>2, <2>3, <2>4
<1>. QED BY <1>8, <1>9

-----------------------------------------------------------------------------
(* Who has the trip: each step *)

\* The trip and the detector may await at once, and after a spare unit the trip and the planner.
PuedenCruzar(h, o) ==
  \/ {h, o} = {"tripulante", "detector"}
  \/ {h, o} = {"tripulante", "planificador"} /\ sobran

\* Every thread but h awaits what it awaited.
Ajenos(h) == \A g \in Hilos : g # h => lectura'[g] = lectura[g]

\* What a thread that goes to b leaves as it was.
LEMMA OtrosPc ==
  ASSUME TipoHilos, NEW h \in Hilos, NEW b, pc' = [pc EXCEPT ![h] = b]
  PROVE  /\ pc'[h] = b /\ \A g \in Hilos \ {h} : pc'[g] = pc[g]
         /\ pc' = [g \in Hilos |-> pc'[g]]
BY DEF TipoHilos

\* The trip asks for a task, moves or looks at the pause; it goes on as it was.
LEMMA SigueTrip ==
  ASSUME Turnos, NEW a, NEW b, pc["tripulante"] = a, pc' = [pc EXCEPT !["tripulante"] = b],
         \/ a = "solicitar" /\ b = "tarea"
         \/ a = "ciclo" /\ b \in {"puede_continuar", "solicitar"}
         \/ a = "puede_continuar" /\ b = "mirar_pausa"
         \/ a = "mirar_pausa" /\ b \in {"en_pausa", "ciclo", "mirar_emergencia"}
         \/ a = "mirar_emergencia" /\ b = "ciclo",
         Ajenos("tripulante"), b \notin {"tarea", "puede_continuar"} => ~Espera("tripulante")',
         UNCHANGED <<hechas, sem_running, sem_blocked, estado, lugar, cola_emergencia, caido,
                     sobran>>
  PROVE  Turnos'
<1>1. /\ pc'["tripulante"] = b /\ pc'["planificador"] = pc["planificador"]
      /\ pc'["detector"] = pc["detector"] /\ TipoHilos'
  <2>1. TipoHilos /\ b \in LugaresTrip BY DEF Turnos, LugaresTrip
  <2>. QED BY <2>1, OtrosPc DEF TipoHilos, Hilos
<1>2. /\ Espera("planificador")' <=> Espera("planificador")
      /\ Espera("detector")' <=> Espera("detector")
  BY DEF Ajenos, Espera, Hilos
<1>3. Preguntan' BY <1>1, <1>2 DEF Turnos, Preguntan
<1>4. a \in Ejecuta /\ b \in Ejecuta \union {"en_pausa"} /\ a # "no_task"
      /\ a \notin {"pasar_a_ready", "encolar"} /\ b \notin {"pasar_a_ready", "encolar"}
  BY DEF Ejecuta
<1>5. /\ DetTiene' <=> DetTiene
      /\ PlanLibre' <=> PlanLibre
      /\ TripTiene' <=> TripTiene
  BY <1>1, <1>4 DEF DetTiene, PlanLibre, TripTiene
<1>6. UnLugar' BY <1>1, <1>2, <1>5 DEF Turnos, UnLugar
<1>7. ASSUME UnDuenio PROVE UnDuenio'
  <2>1. ~Quieto /\ pc["tripulante"] \notin {"en_emergencia", "fin"} BY <1>4 DEF Quieto, Ejecuta
  <2>2. ConCupo => ConCupo' BY <1>1, <1>4 DEF ConCupo, Ejecuta
  <2>3. CASE Entrando
    <3>1. CASE hechas = 0
      <4>1. a # "puede_continuar" /\ a # "ciclo" /\ a # "mirar_pausa" /\ a # "mirar_emergencia"
        BY <2>3 DEF Entrando
      <4>2. b = "tarea" BY <4>1
      <4>3. Entrando' BY <1>1, <1>5, <2>3, <4>2 DEF Entrando
      <4>. QED BY <1>7, <4>3 DEF UnDuenio
    <3>2. CASE hechas # 0 BY <1>4, <2>3, <3>2 DEF Entrando, TripTiene
    <3>. QED BY <3>1, <3>2
  <2>4. CASE EnRunning BY <1>7, <2>2, <2>4 DEF UnDuenio, EnRunning
  <2>5. CASE EnEmergencia BY <1>1, <1>7, <2>1, <2>2, <2>5 DEF UnDuenio, EnEmergencia
  <2>6. ~EnReady /\ ~Despachado /\ ~Devuelto /\ ~Terminado
    BY <2>1 DEF EnReady, Despachado, Devuelto, Terminado
  <2>. QED BY <1>7, <2>3, <2>4, <2>5, <2>6 DEF UnDuenio
<1>. QED BY <1>1, <1>3, <1>6, <1>7 DEF Turnos

\* The trip takes the answer to its request.
LEMMA TurnoTarea ==
  ASSUME Turnos, TomarTarea, UNCHANGED <<ip, vSabotaje, vPausa>>
  PROVE  Turnos'
<1>1. /\ pc["tripulante"] = "tarea" /\ ~Espera("tripulante") /\ lectura' = lectura
      /\ UNCHANGED <<sem_running, sem_blocked, estado, lugar, cola_emergencia, caido, sobran>>
  BY DEF TomarTarea, En, vSocket, vListas, vPausa
<1>2. PICK b : pc' = [pc EXCEPT !["tripulante"] = b] /\
               \/ b = "pasar_a_ready" /\ hechas = 0 /\ hechas' = hechas + 1
               \/ b = "ciclo" /\ hechas # 0 /\ hechas' = hechas + 1
               \/ b = "no_task" /\ hechas' = hechas
  BY DEF TomarTarea, Ir
<1>3. hechas \in Nat BY DEF Turnos, TipoHilos
<1>4. /\ pc'["tripulante"] = b /\ pc'["planificador"] = pc["planificador"]
      /\ pc'["detector"] = pc["detector"] /\ TipoHilos'
  <2>1. TipoHilos /\ b \in LugaresTrip /\ hechas' \in Nat BY <1>2, <1>3 DEF Turnos, LugaresTrip
  <2>. QED BY <1>1, <1>2, <2>1, OtrosPc DEF TipoHilos, Hilos
<1>5. \A h \in Hilos : Espera(h)' <=> Espera(h) BY <1>1 DEF Espera
<1>6. Preguntan' BY <1>1, <1>4, <1>5 DEF Turnos, Preguntan, Hilos
<1>7. /\ DetTiene' <=> DetTiene
      /\ PlanLibre' <=> PlanLibre
  BY <1>1, <1>4 DEF DetTiene, PlanLibre
<1>8. TripTiene' <=> TripTiene BY <1>1, <1>2, <1>3, <1>4 DEF TripTiene
<1>9. UnLugar'
  <2>1. hechas' = 0 => b = "no_task" BY <1>2, <1>3
  <2>. QED BY <1>1, <1>4, <1>5, <1>7, <1>8, <2>1 DEF Turnos, UnLugar, Hilos
<1>10. ASSUME UnDuenio PROVE UnDuenio'
  <2>1. ~Quieto /\ pc["tripulante"] \notin {"en_emergencia", "fin"} BY <1>1 DEF Quieto
  <2>2. CASE Entrando
    <3>1. hechas = 0 /\ b # "ciclo" BY <1>1, <1>2, <2>2 DEF Entrando, TripTiene
    <3>2. Entrando' BY <1>1, <1>2, <1>4, <1>8, <2>2, <3>1 DEF Entrando
    <3>. QED BY <1>1, <1>10, <3>2 DEF UnDuenio
  <2>3. CASE ~Entrando
    <3>1. EnRunning \/ EnEmergencia
      BY <1>10, <2>1, <2>3 DEF UnDuenio, EnReady, Despachado, Devuelto, Terminado
    <3>2. ~TripTiene BY <3>1 DEF Turnos, UnLugar, EnRunning, EnEmergencia, DetTiene
    <3>3. b \in {"ciclo", "no_task"} BY <1>2, <3>2 DEF TripTiene
    <3>4. ConCupo => ConCupo' BY <1>1, <1>4, <3>3 DEF ConCupo, Ejecuta
    <3>5. CASE EnRunning BY <1>1, <1>10, <3>4, <3>5 DEF UnDuenio, EnRunning
    <3>6. CASE EnEmergencia BY <1>1, <1>4, <1>10, <2>1, <3>4, <3>6 DEF UnDuenio, EnEmergencia
    <3>. QED BY <3>1, <3>5, <3>6
  <2>. QED BY <2>2, <2>3
<1>. QED BY <1>1, <1>4, <1>6, <1>9, <1>10 DEF Turnos

\* It tells the RAM that it goes to ready.
LEMMA TurnoPasar ==
  ASSUME Turnos, lectura \in [Hilos -> Restos], PasarAReady, UNCHANGED <<ip, vSabotaje, vPausa>>
  PROVE  Turnos'
<1>1. /\ pc["tripulante"] = "pasar_a_ready" /\ estado' = "READY"
      /\ lectura' = [lectura EXCEPT !["tripulante"] = <<"codigo">>]
      /\ pc' = [pc EXCEPT !["tripulante"] = "encolar"]
      /\ UNCHANGED <<hechas, sem_running, sem_blocked, lugar, cola_emergencia, caido, sobran>>
  BY DEF PasarAReady, Pedir, Ir, En, vTrip, vPausa
<1>2. /\ pc'["tripulante"] = "encolar" /\ pc'["planificador"] = pc["planificador"]
      /\ pc'["detector"] = pc["detector"] /\ TipoHilos'
  BY <1>1 DEF Turnos, TipoHilos, LugaresTrip, Hilos
<1>3. \A h \in Hilos : h # "tripulante" => (Espera(h)' <=> Espera(h)) BY <1>1 DEF Espera
<1>4. Preguntan' BY <1>1, <1>2, <1>3 DEF Turnos, Preguntan, Hilos
<1>5. /\ DetTiene' <=> DetTiene
      /\ PlanLibre' <=> PlanLibre
      /\ TripTiene /\ TripTiene'
  BY <1>1, <1>2 DEF DetTiene, PlanLibre, TripTiene
<1>6. UnLugar' BY <1>1, <1>2, <1>3, <1>5 DEF Turnos, UnLugar, Hilos
<1>7. ASSUME UnDuenio PROVE UnDuenio'
  <2>1. lugar = "ninguno" /\ ~cola_emergencia BY <1>5 DEF Turnos, UnLugar, DetTiene
  <2>2. Entrando
    BY <1>1, <1>7, <2>1 DEF UnDuenio, EnReady, Despachado, EnRunning, EnEmergencia, Devuelto,
                            Terminado, Quieto
  <2>3. Entrando' BY <1>1, <1>2, <1>5, <2>2 DEF Entrando
  <2>. QED BY <1>1, <2>1, <2>3 DEF UnDuenio
<1>. QED BY <1>1, <1>2, <1>4, <1>6, <1>7 DEF Turnos

\* It enters ready.
LEMMA TurnoEncolar ==
  ASSUME Turnos, EncolarReady, UNCHANGED <<ip, vSabotaje, vPausa>>
  PROVE  Turnos'
<1>1. /\ pc["tripulante"] = "encolar" /\ ~Espera("tripulante") /\ lugar' = "cola_ready"
      /\ lectura' = lectura /\ pc' = [pc EXCEPT !["tripulante"] = "esperar_running"]
      /\ UNCHANGED <<hechas, sem_running, sem_blocked, estado, cola_emergencia, caido, sobran>>
  BY DEF EncolarReady, Ir, En, vSocket, vPausa
<1>2. /\ pc'["tripulante"] = "esperar_running" /\ pc'["planificador"] = pc["planificador"]
      /\ pc'["detector"] = pc["detector"] /\ TipoHilos'
  BY <1>1 DEF Turnos, TipoHilos, LugaresTrip, Hilos
<1>3. \A h \in Hilos : Espera(h)' <=> Espera(h) BY <1>1 DEF Espera
<1>4. Preguntan' BY <1>1, <1>2, <1>3 DEF Turnos, Preguntan, Hilos
<1>5. /\ DetTiene' <=> DetTiene
      /\ PlanLibre' <=> PlanLibre
      /\ TripTiene
  BY <1>1, <1>2 DEF DetTiene, PlanLibre, TripTiene
<1>6. hechas # 0 BY <1>1 DEF Turnos, UnLugar
<1>7. ~TripTiene' BY <1>1, <1>2, <1>6 DEF TripTiene
<1>8. UnLugar' BY <1>1, <1>2, <1>3, <1>5, <1>7 DEF Turnos, UnLugar, Hilos
<1>9. ASSUME UnDuenio PROVE UnDuenio'
  <2>1. lugar = "ninguno" /\ ~cola_emergencia BY <1>5 DEF Turnos, UnLugar, DetTiene
  <2>2. Entrando
    BY <1>1, <1>9, <2>1 DEF UnDuenio, EnReady, Despachado, EnRunning, EnEmergencia, Devuelto,
                            Terminado, Quieto
  <2>3. EnReady' BY <1>1, <1>2, <2>2 DEF Entrando, EnReady, Quieto
  <2>. QED BY <1>1, <1>9, <2>1, <2>3 DEF UnDuenio
<1>. QED BY <1>1, <1>2, <1>4, <1>8, <1>9 DEF Turnos

\* What follows each wait for sem_running.
LEMMA TrasEsperarVale ==
  /\ DOMAIN TrasEsperar = {"esperar_running", "en_pausa", "en_emergencia"}
  /\ \A l \in DOMAIN TrasEsperar : TrasEsperar[l] \in {"mirar_pausa", "ciclo", "mirar_emergencia"}
<1>1. DOMAIN TrasEsperar = {"esperar_running", "en_pausa", "en_emergencia"} BY DEF TrasEsperar
<1>2. TrasPausa \in {"ciclo", "mirar_emergencia"} BY DEF TrasPausa
<1>3. /\ TrasEsperar["esperar_running"] = "mirar_pausa"
      /\ TrasEsperar["en_pausa"] = TrasPausa
      /\ TrasEsperar["en_emergencia"] = "ciclo"
  BY DEF TrasEsperar
<1>. QED BY <1>1, <1>2, <1>3

\* It takes a unit of sem_running.
LEMMA TurnoEjecutar ==
  ASSUME Turnos, EsperarRunning, UNCHANGED <<ip, vSabotaje, vPausa>>
  PROVE  Turnos'
<1>1. /\ ~Espera("tripulante") /\ lectura' = lectura
      /\ sem_running > 0 /\ sem_running' = sem_running - 1
      /\ UNCHANGED <<hechas, sem_blocked, estado, lugar, cola_emergencia, caido, sobran>>
  BY DEF EsperarRunning, En, vListas, vSocket, vPausa
<1>2. PICK l, b : /\ pc["tripulante"] = l /\ pc' = [pc EXCEPT !["tripulante"] = b]
                  /\ l \in {"esperar_running", "en_pausa", "en_emergencia"}
                  /\ b \in {"mirar_pausa", "ciclo", "mirar_emergencia"}
  BY TrasEsperarVale DEF EsperarRunning, En, Ir
<1>3. /\ pc'["tripulante"] = b /\ pc'["planificador"] = pc["planificador"]
      /\ pc'["detector"] = pc["detector"] /\ TipoHilos'
  <2>1. TipoHilos /\ b \in LugaresTrip BY <1>2 DEF Turnos, LugaresTrip
  <2>. QED BY <1>1, <1>2, <2>1, OtrosPc DEF TipoHilos, Hilos
<1>4. \A h \in Hilos : Espera(h)' <=> Espera(h) BY <1>1 DEF Espera
<1>5. Preguntan' BY <1>1, <1>3, <1>4 DEF Turnos, Preguntan, Hilos
<1>6. /\ DetTiene' <=> DetTiene
      /\ PlanLibre' <=> PlanLibre
      /\ TripTiene' <=> TripTiene
  BY <1>1, <1>2, <1>3 DEF DetTiene, PlanLibre, TripTiene
<1>7. hechas # 0 BY <1>2 DEF Turnos, UnLugar
<1>8. UnLugar' BY <1>1, <1>3, <1>4, <1>6, <1>7 DEF Turnos, UnLugar, Hilos
<1>9. ASSUME UnDuenio PROVE UnDuenio'
  <2>1. ~(sem_running = 0) BY <1>1
  <2>2. ~Quieto BY <2>1 DEF Quieto
  <2>3. ConCupo => ConCupo' BY <1>1, <1>2, <1>3, <2>1 DEF ConCupo, Ejecuta
  <2>4. CASE EnRunning BY <1>1, <1>9, <2>3, <2>4 DEF UnDuenio, EnRunning
  <2>5. CASE EnEmergencia BY <1>1, <1>3, <1>9, <2>1, <2>2, <2>3, <2>5 DEF UnDuenio, EnEmergencia
  <2>6. ~Entrando /\ ~EnReady /\ ~Despachado /\ ~Devuelto /\ ~Terminado
    BY <2>1, <2>2 DEF Entrando, EnReady, Despachado, Devuelto, Terminado
  <2>. QED BY <1>9, <2>4, <2>5, <2>6 DEF UnDuenio
<1>. QED BY <1>1, <1>3, <1>5, <1>8, <1>9 DEF Turnos

\* A fall of the process moves nobody.
LEMMA TurnoCaida ==
  ASSUME Turnos, caido' \in {"quitar_running", "nulo"}, lectura' = lectura,
         UNCHANGED <<pc, hechas, lugar, cola_emergencia, sobran>>
  PROVE  Turnos'
<1>1. TipoHilos' BY DEF Turnos, TipoHilos
<1>2. \A h \in Hilos : Espera(h)' <=> Espera(h) BY DEF Espera
<1>3. Preguntan' BY <1>2 DEF Turnos, Preguntan, Hilos
<1>4. UnLugar' BY <1>2 DEF Turnos, UnLugar, DetTiene, PlanLibre, TripTiene, Hilos
<1>. QED BY <1>1, <1>3, <1>4 DEF Turnos

\* A trip with no quantum left leaves running, if it is there.
LEMMA TurnoContinuar ==
  ASSUME Turnos, caido = "no", puede_continuar, UNCHANGED <<ip, vSabotaje, vPausa>>
  PROVE  Turnos'
<1>1. /\ pc["tripulante"] = "puede_continuar" /\ ~Espera("tripulante") /\ lectura' = lectura
      /\ UNCHANGED <<hechas, sem_running, sem_blocked, estado, cola_emergencia, sobran>>
  BY DEF puede_continuar, En, vPausa, vSocket
<1>2. CASE ciclos' # Quantum
  <2>1. PICK a, b : a = "puede_continuar" /\ b = "mirar_pausa" OBVIOUS
  <2>2. pc' = [pc EXCEPT !["tripulante"] = b] /\ lugar' = lugar /\ caido' = caido
    BY <1>2, <2>1 DEF puede_continuar, Ir
  <2>3. Ajenos("tripulante") /\ ~Espera("tripulante")' BY <1>1 DEF Ajenos, Espera
  <2>. QED BY <1>1, <2>1, <2>2, <2>3, SigueTrip
<1>3. CASE ciclos' = Quantum /\ lugar # "tripulantes_running"
  <2>1. caido' = "quitar_running" /\ UNCHANGED <<lugar, pc>> BY <1>3 DEF puede_continuar
  <2>. QED BY <1>1, <2>1, TurnoCaida
<1>4. CASE ciclos' = Quantum /\ lugar = "tripulantes_running"
  <2>1. /\ lugar' = "ninguno" /\ pc' = [pc EXCEPT !["tripulante"] = "pasar_a_ready"]
        /\ caido' = caido
    BY <1>4 DEF puede_continuar, Ir
  <2>2. /\ pc'["tripulante"] = "pasar_a_ready" /\ pc'["planificador"] = pc["planificador"]
        /\ pc'["detector"] = pc["detector"] /\ TipoHilos'
    BY <1>1, <2>1 DEF Turnos, TipoHilos, LugaresTrip, Hilos
  <2>3. \A h \in Hilos : Espera(h)' <=> Espera(h) BY <1>1 DEF Espera
  <2>4. Preguntan' BY <1>1, <2>2, <2>3 DEF Turnos, Preguntan, Hilos
  <2>5. /\ DetTiene' <=> DetTiene
        /\ PlanLibre' <=> PlanLibre
        /\ PlanLibre /\ ~DetTiene /\ TripTiene' /\ hechas # 0
    BY <1>1, <1>4, <2>2 DEF Turnos, UnLugar, DetTiene, PlanLibre, TripTiene
  <2>6. UnLugar' BY <1>1, <2>1, <2>2, <2>3, <2>5 DEF Turnos, UnLugar, Hilos
  <2>7. ASSUME UnDuenio PROVE UnDuenio'
    <3>1. ~Quieto BY <1>1 DEF Quieto
    <3>2. EnRunning
      BY <1>4, <2>5, <2>7, <3>1 DEF UnDuenio, Entrando, EnReady, Despachado, EnEmergencia,
                                    Devuelto, Terminado, DetTiene
    <3>3. sem_running = 0 /\ sem_blocked = 0 BY <1>1, <3>2 DEF EnRunning, ConCupo
    <3>4. Entrando' BY <1>1, <2>1, <2>2, <2>5, <3>3 DEF Entrando
    <3>. QED BY <1>1, <2>7, <3>4 DEF UnDuenio
  <2>. QED BY <1>1, <2>1, <2>2, <2>4, <2>6, <2>7 DEF Turnos
<1>. QED BY <1>2, <1>3, <1>4

\* Only a trip that the detector took answers it, once.
LEMMA TurnoEmergencia ==
  ASSUME Turnos, MirarEmergencia, UNCHANGED <<ip, vSabotaje, vPausa>>
  PROVE  Turnos'
<1>1. /\ pc["tripulante"] = "mirar_emergencia" /\ ~Espera("tripulante") /\ lectura' = lectura
      /\ UNCHANGED <<hechas, sem_running, estado, lugar, cola_emergencia, caido, sobran>>
  BY DEF MirarEmergencia, En, vListas, vSocket, vPausa
<1>2. CASE estado # "EMERGENCY"
  <2>1. PICK a, b : a = "mirar_emergencia" /\ b = "ciclo" OBVIOUS
  <2>2. pc' = [pc EXCEPT !["tripulante"] = b] /\ sem_blocked' = sem_blocked
    BY <1>2, <2>1 DEF MirarEmergencia, Ir
  <2>3. Ajenos("tripulante") /\ ~Espera("tripulante")' BY <1>1 DEF Ajenos, Espera
  <2>. QED BY <1>1, <2>1, <2>2, <2>3, SigueTrip
<1>3. CASE estado = "EMERGENCY"
  <2>1. pc' = [pc EXCEPT !["tripulante"] = "en_emergencia"] /\ sem_blocked' = sem_blocked + 1
    BY <1>3 DEF MirarEmergencia, Ir
  <2>2. /\ pc'["tripulante"] = "en_emergencia" /\ pc'["planificador"] = pc["planificador"]
        /\ pc'["detector"] = pc["detector"] /\ TipoHilos'
    BY <1>1, <2>1 DEF Turnos, TipoHilos, LugaresTrip, Hilos
  <2>3. \A h \in Hilos : Espera(h)' <=> Espera(h) BY <1>1 DEF Espera
  <2>4. Preguntan' BY <1>1, <2>2, <2>3 DEF Turnos, Preguntan, Hilos
  <2>5. /\ DetTiene' <=> DetTiene
        /\ PlanLibre' <=> PlanLibre
        /\ TripTiene' <=> TripTiene
        /\ hechas # 0
    BY <1>1, <2>2 DEF Turnos, UnLugar, DetTiene, PlanLibre, TripTiene
  <2>6. UnLugar' BY <1>1, <2>2, <2>3, <2>5 DEF Turnos, UnLugar, Hilos
  <2>7. ASSUME UnDuenio PROVE UnDuenio'
    <3>1. ~Quieto BY <1>1 DEF Quieto
    <3>2. cola_emergencia BY <1>3, <2>7 DEF UnDuenio
    <3>3. lugar = "ninguno" /\ PlanLibre BY <3>2 DEF Turnos, UnLugar, DetTiene
    <3>4. EnEmergencia
      BY <1>1, <2>7, <3>1, <3>3 DEF UnDuenio, Entrando, EnReady, Despachado, EnRunning, Devuelto,
                                    Terminado
    <3>5. pc["detector"] = "esperar_trip" /\ sem_blocked = 0 /\ sem_running = 0
      BY <1>1, <3>1, <3>4 DEF EnEmergencia, ConCupo
    <3>6. sem_blocked' = 1 /\ sem_running' = 0 BY <1>1, <2>1, <3>5
    <3>7. EnEmergencia' BY <1>1, <2>2, <3>2, <3>5, <3>6 DEF EnEmergencia
    <3>. QED BY <1>1, <2>7, <3>7 DEF UnDuenio
  <2>. QED BY <1>1, <2>2, <2>4, <2>6, <2>7 DEF Turnos
<1>. QED BY <1>2, <1>3

\* It ends from running; anywhere else it leaves a list that does not have it.
LEMMA TurnoFinalizar ==
  ASSUME Turnos, lectura \in [Hilos -> Restos], caido = "no", Finalizar,
         UNCHANGED <<ip, vSabotaje, vPausa>>
  PROVE  Turnos'
<1>1. /\ pc["tripulante"] = "no_task" /\ ~Espera("tripulante")
      /\ UNCHANGED <<hechas, sem_running, sem_blocked, cola_emergencia, sobran>>
  BY DEF Finalizar, En, vTrip, vPausa
<1>2. CASE lugar # "tripulantes_running"
  <2>1. caido' = "quitar_running" /\ UNCHANGED <<lugar, lectura, pc>>
    BY <1>2 DEF Finalizar, vSocket
  <2>. QED BY <1>1, <2>1, TurnoCaida
<1>3. CASE lugar = "tripulantes_running"
  <2>1. /\ lugar' = "ninguno" /\ estado' = "EXIT"
        /\ lectura' = [lectura EXCEPT !["tripulante"] = <<"codigo">>]
        /\ pc' = [pc EXCEPT !["tripulante"] = "fin"] /\ caido' = caido
    BY <1>3 DEF Finalizar, Pedir, Ir
  <2>2. /\ pc'["tripulante"] = "fin" /\ pc'["planificador"] = pc["planificador"]
        /\ pc'["detector"] = pc["detector"] /\ TipoHilos'
    BY <1>1, <2>1 DEF Turnos, TipoHilos, LugaresTrip, Hilos
  <2>3. \A h \in Hilos : h # "tripulante" => (Espera(h)' <=> Espera(h)) BY <2>1 DEF Espera
  <2>4. Preguntan' BY <2>2, <2>3 DEF Turnos, Preguntan, Hilos
  <2>5. /\ DetTiene' <=> DetTiene
        /\ PlanLibre' <=> PlanLibre
        /\ PlanLibre /\ ~DetTiene /\ ~TripTiene' /\ hechas # 0
    BY <1>1, <1>3, <2>2 DEF Turnos, UnLugar, DetTiene, PlanLibre, TripTiene
  <2>6. UnLugar' BY <1>1, <2>1, <2>2, <2>3, <2>5 DEF Turnos, UnLugar, Hilos
  <2>7. ASSUME UnDuenio PROVE UnDuenio'
    <3>1. ~Quieto BY <1>1 DEF Quieto
    <3>2. EnRunning
      BY <1>3, <2>5, <2>7, <3>1 DEF UnDuenio, Entrando, EnReady, Despachado, EnEmergencia,
                                    Devuelto, Terminado, DetTiene
    <3>3. sem_running = 0 /\ sem_blocked = 0 BY <1>1, <3>2 DEF EnRunning, ConCupo
    <3>4. Terminado' BY <1>1, <2>1, <2>2, <2>5, <3>3 DEF Terminado
    <3>5. ~cola_emergencia' BY <1>1, <2>5 DEF DetTiene
    <3>. QED BY <2>1, <3>4, <3>5 DEF UnDuenio
  <2>. QED BY <1>1, <2>1, <2>2, <2>4, <2>6, <2>7 DEF Turnos
<1>. QED BY <1>2, <1>3

\* The planner goes from a place to another without a trip in its hands.
LEMMA TurnoPlanLibre ==
  ASSUME Turnos, NEW a, NEW b, pc["planificador"] = a, pc' = [pc EXCEPT !["planificador"] = b],
         a # "encolar_running", b \in LugaresPlan \ {"encolar_running"}, lectura' = lectura,
         UNCHANGED <<hechas, sem_running, sem_blocked, estado, lugar, cola_emergencia, caido,
                     sobran>>
  PROVE  Turnos'
<1>1. /\ pc'["tripulante"] = pc["tripulante"] /\ pc'["planificador"] = b
      /\ pc'["detector"] = pc["detector"] /\ TipoHilos'
  <2>1. TipoHilos BY DEF Turnos
  <2>. QED BY <2>1, OtrosPc DEF TipoHilos, Hilos
<1>2. \A h \in Hilos : Espera(h)' <=> Espera(h) BY DEF Espera
<1>3. Preguntan' BY <1>1, <1>2 DEF Turnos, Preguntan, Hilos
<1>4. /\ DetTiene' <=> DetTiene
      /\ PlanLibre' /\ PlanLibre
      /\ TripTiene' <=> TripTiene
      /\ Quieto' <=> Quieto
      /\ ConCupo' <=> ConCupo
  BY <1>1 DEF DetTiene, PlanLibre, TripTiene, Quieto, ConCupo
<1>5. UnLugar' BY <1>1, <1>2, <1>4 DEF Turnos, UnLugar, Hilos
<1>6. UnDuenio => UnDuenio'
  BY <1>1, <1>4 DEF UnDuenio, Entrando, EnReady, Despachado, EnRunning, EnEmergencia, Devuelto,
                    Terminado
<1>. QED BY <1>1, <1>3, <1>5, <1>6 DEF Turnos

\* It takes a trip from ready, which is at rest.
LEMMA TurnoDespachar ==
  ASSUME Turnos, lectura \in [Hilos -> Restos], caido = "no", PlanPasarARunning,
         lugar = "cola_ready", UNCHANGED <<hechas, sem_blocked, cola_emergencia, vPausa>>
  PROVE  Turnos' /\ ~Espera("detector") /\ (~sobran => Quieto)
<1>1. /\ pc["planificador"] = "quitar_ready"
      /\ lugar' = "ninguno" /\ estado' = "RUNNING"
      /\ lectura' = [lectura EXCEPT !["planificador"] = <<"codigo">>]
      /\ pc' = [pc EXCEPT !["planificador"] = "encolar_running"]
      /\ sem_running' = sem_running /\ caido' = caido /\ sobran' = sobran
  BY DEF PlanPasarARunning, Pedir, Ir, En, vPausa
<1>2. /\ pc'["tripulante"] = pc["tripulante"] /\ pc'["planificador"] = "encolar_running"
      /\ pc'["detector"] = pc["detector"] /\ TipoHilos'
  BY <1>1 DEF Turnos, TipoHilos, LugaresPlan, Hilos
<1>3. \A h \in Hilos : h # "planificador" => (Espera(h)' <=> Espera(h)) BY <1>1 DEF Espera
<1>4. Preguntan' BY <1>2, <1>3 DEF Turnos, Preguntan, Hilos
<1>5. /\ DetTiene' <=> DetTiene
      /\ TripTiene' <=> TripTiene
      /\ ~DetTiene /\ ~TripTiene /\ ~PlanLibre'
  BY <1>1, <1>2 DEF Turnos, UnLugar, DetTiene, PlanLibre, TripTiene
<1>6. UnLugar' /\ ~Espera("detector")
  BY <1>1, <1>2, <1>3, <1>5 DEF Turnos, UnLugar, Hilos
<1>7. ASSUME UnDuenio PROVE UnDuenio' /\ Quieto
  <2>1. PlanLibre BY <1>1 DEF PlanLibre
  <2>2. EnReady
    BY <1>5, <1>7, <2>1 DEF UnDuenio, Entrando, Despachado, EnRunning, EnEmergencia, Devuelto,
                            Terminado, DetTiene
  <2>3. Quieto /\ Quieto' BY <1>1, <1>2, <2>2 DEF EnReady, Quieto
  <2>4. Despachado' BY <1>5, <2>3 DEF Despachado
  <2>5. ~cola_emergencia' BY <1>5 DEF DetTiene
  <2>. QED BY <1>1, <2>3, <2>4, <2>5 DEF UnDuenio
<1>. QED BY <1>1, <1>2, <1>4, <1>6, <1>7 DEF Turnos

\* It gives the trip a slot.
LEMMA TurnoCupo ==
  ASSUME Turnos, PlanEncolarRunning, UNCHANGED <<hechas, sem_blocked, cola_emergencia, vPausa>>
  PROVE  Turnos'
<1>1. /\ pc["planificador"] = "encolar_running" /\ ~Espera("planificador")
      /\ lugar' = "tripulantes_running" /\ sem_running' = sem_running + 1
      /\ lectura' = lectura /\ pc' = [pc EXCEPT !["planificador"] = "esperar_ready"]
      /\ estado' = estado /\ caido' = caido /\ sobran' = sobran
  BY DEF PlanEncolarRunning, Ir, En, vSocket, vPausa
<1>2. /\ pc'["tripulante"] = pc["tripulante"] /\ pc'["planificador"] = "esperar_ready"
      /\ pc'["detector"] = pc["detector"] /\ TipoHilos'
  BY <1>1 DEF Turnos, TipoHilos, LugaresPlan, Hilos
<1>3. \A h \in Hilos : Espera(h)' <=> Espera(h) BY <1>1 DEF Espera
<1>4. Preguntan' BY <1>1, <1>2, <1>3 DEF Turnos, Preguntan, Hilos
<1>5. /\ DetTiene' <=> DetTiene
      /\ TripTiene' <=> TripTiene
      /\ ~DetTiene /\ ~TripTiene /\ ~PlanLibre /\ PlanLibre' /\ lugar = "ninguno"
  BY <1>1, <1>2 DEF Turnos, UnLugar, DetTiene, PlanLibre, TripTiene
<1>6. UnLugar' BY <1>1, <1>2, <1>3, <1>5 DEF Turnos, UnLugar, Hilos
<1>7. ASSUME UnDuenio PROVE UnDuenio'
  <2>1. Despachado
    BY <1>5, <1>7 DEF UnDuenio, Entrando, EnReady, EnRunning, EnEmergencia, Devuelto, Terminado,
                      DetTiene
  <2>2. /\ pc["tripulante"] \in {"esperar_running", "en_emergencia"}
        /\ sem_running = 0 /\ sem_blocked = 0
    BY <2>1 DEF Despachado, Quieto
  <2>3. sem_running' = 1 /\ sem_blocked' = 0 BY <1>1, <2>2
  <2>4. ConCupo' BY <1>2, <2>2, <2>3 DEF ConCupo
  <2>5. EnRunning' BY <1>1, <2>4 DEF EnRunning
  <2>. QED BY <1>1, <1>7, <2>5 DEF UnDuenio
<1>. QED BY <1>1, <1>2, <1>4, <1>6, <1>7 DEF Turnos

\* The detector goes on with nothing found.
LEMMA TurnoDetMira ==
  ASSUME Turnos, NEW a, NEW b, pc["detector"] = a, pc' = [pc EXCEPT !["detector"] = b],
         \/ /\ a \in {"recibir", "mirar_pausa", "en_pausa", "terminar"}
            /\ b \in {"recibir", "mirar_pausa", "en_pausa", "mirar_running"}
         \/ a = "mirar_running" /\ b \in {"quitar_running", "mirar_ready"}
         \/ a = "mirar_ready" /\ b = "quitar_ready"
         \/ a = "mirar_ready" /\ b = "resolver" /\ cola_emergencia
         \/ a = "mirar_ready" /\ b = "recibir" /\ ~cola_emergencia,
         ~Espera("detector"), lectura' = lectura,
         UNCHANGED <<hechas, sem_running, sem_blocked, estado, lugar, cola_emergencia, caido,
                     sobran>>
  PROVE  Turnos'
<1>1. /\ pc'["tripulante"] = pc["tripulante"] /\ pc'["planificador"] = pc["planificador"]
      /\ pc'["detector"] = b /\ TipoHilos'
  <2>1. TipoHilos /\ b \in LugaresDet BY DEF Turnos, LugaresDet
  <2>. QED BY <2>1, OtrosPc DEF TipoHilos, Hilos
<1>2. \A h \in Hilos : Espera(h)' <=> Espera(h) BY DEF Espera
<1>3. Preguntan' BY <1>1, <1>2 DEF Turnos, Preguntan, Hilos
<1>4. a # "encolar_ready" /\ b # "encolar_ready" /\ a # "esperar_trip" /\ b # "esperar_trip"
  OBVIOUS
<1>5. /\ DetTiene' <=> DetTiene
      /\ PlanLibre' <=> PlanLibre
      /\ TripTiene' <=> TripTiene
      /\ Quieto' <=> Quieto
      /\ ConCupo' <=> ConCupo
  BY <1>1, <1>4 DEF DetTiene, PlanLibre, TripTiene, Quieto, ConCupo
<1>6. UnLugar' BY <1>1, <1>2, <1>5 DEF Turnos, UnLugar, Hilos
<1>7. UnDuenio => UnDuenio'
  BY <1>1, <1>4, <1>5 DEF UnDuenio, Entrando, EnReady, Despachado, EnRunning, EnEmergencia,
                          Devuelto, Terminado
<1>. QED BY <1>1, <1>3, <1>6, <1>7 DEF Turnos

\* It takes the trip, from running or from ready.
LEMMA TurnoQuitar ==
  ASSUME Turnos, lectura \in [Hilos -> Restos], caido = "no", ~Espera("detector"), NEW l, NEW b,
         Quitar(l, b), lugar = l,
         \/ /\ l = "tripulantes_running" /\ pc["detector"] = "quitar_running"
            /\ b = "esperar_trip"
         \/ l = "cola_ready" /\ pc["detector"] = "quitar_ready" /\ b = "mirar_ready",
         UNCHANGED <<hechas, sem_running, sobran>>
  PROVE  Turnos' /\ PlanLibre
<1>1. /\ lugar' = "ninguno" /\ estado' = "EMERGENCY" /\ cola_emergencia' = TRUE
      /\ lectura' = [lectura EXCEPT !["detector"] = <<"codigo">>]
      /\ pc' = [pc EXCEPT !["detector"] = b]
      /\ caido' = caido /\ sem_blocked' = sem_blocked
  BY DEF Quitar, Pedir, Ir
<1>2. /\ pc'["tripulante"] = pc["tripulante"] /\ pc'["planificador"] = pc["planificador"]
      /\ pc'["detector"] = b /\ TipoHilos'
  BY <1>1 DEF Turnos, TipoHilos, LugaresDet, Hilos
<1>3. \A h \in Hilos : h # "detector" => (Espera(h)' <=> Espera(h)) BY <1>1 DEF Espera
<1>4. Preguntan' BY <1>2, <1>3 DEF Turnos, Preguntan, Hilos
<1>5. /\ DetTiene' /\ ~DetTiene
      /\ PlanLibre' /\ PlanLibre
      /\ ~TripTiene' /\ ~TripTiene
  BY <1>1, <1>2 DEF Turnos, UnLugar, DetTiene, PlanLibre, TripTiene
<1>6. UnLugar' BY <1>1, <1>2, <1>3, <1>5 DEF Turnos, UnLugar, Hilos, TripTiene
<1>7. ASSUME UnDuenio PROVE UnDuenio'
  <2>1. IF l = "cola_ready" THEN EnReady ELSE EnRunning
    BY <1>5, <1>7 DEF UnDuenio, Entrando, EnReady, Despachado, EnRunning, EnEmergencia, Devuelto,
                      Terminado, DetTiene
  <2>2. CASE l = "cola_ready"
    <3>1. Quieto' BY <1>1, <1>2, <2>1, <2>2 DEF EnReady, Quieto
    <3>2. EnEmergencia' BY <1>1, <1>2, <2>2, <3>1 DEF EnEmergencia
    <3>. QED BY <1>1, <3>2 DEF UnDuenio
  <2>3. CASE l = "tripulantes_running"
    <3>1. ConCupo' BY <1>1, <1>2, <2>1, <2>3 DEF EnRunning, ConCupo
    <3>2. EnEmergencia' BY <1>1, <1>2, <2>3, <3>1 DEF EnEmergencia
    <3>. QED BY <1>1, <3>2 DEF UnDuenio
  <2>. QED BY <2>2, <2>3
<1>. QED BY <1>1, <1>2, <1>4, <1>5, <1>6, <1>7 DEF Turnos

\* The trip that it waited for has answered.
LEMMA TurnoRespondio ==
  ASSUME Turnos, DetEsperarTrip, UNCHANGED <<hechas, sem_running, sobran>>
  PROVE  Turnos'
<1>1. /\ pc["detector"] = "esperar_trip" /\ ~Espera("detector")
      /\ sem_blocked > 0 /\ sem_blocked' = sem_blocked - 1
      /\ lectura' = lectura /\ pc' = [pc EXCEPT !["detector"] = "mirar_running"]
      /\ UNCHANGED <<estado, lugar, cola_emergencia, caido>>
  BY DEF DetEsperarTrip, Ir, En, vSocket, vListas
<1>2. /\ pc'["tripulante"] = pc["tripulante"] /\ pc'["planificador"] = pc["planificador"]
      /\ pc'["detector"] = "mirar_running" /\ TipoHilos'
  BY <1>1 DEF Turnos, TipoHilos, LugaresDet, Hilos
<1>3. \A h \in Hilos : Espera(h)' <=> Espera(h) BY <1>1 DEF Espera
<1>4. Preguntan' BY <1>1, <1>2, <1>3 DEF Turnos, Preguntan, Hilos
<1>5. /\ DetTiene' <=> DetTiene
      /\ PlanLibre' <=> PlanLibre
      /\ TripTiene' <=> TripTiene
      /\ cola_emergencia /\ DetTiene /\ lugar = "ninguno" /\ PlanLibre /\ ~TripTiene
  BY <1>1, <1>2 DEF Turnos, UnLugar, DetTiene, PlanLibre, TripTiene
<1>6. UnLugar' BY <1>1, <1>2, <1>3, <1>5 DEF Turnos, UnLugar, Hilos
<1>7. ASSUME UnDuenio PROVE UnDuenio'
  <2>1. EnEmergencia
    BY <1>1, <1>5, <1>7 DEF UnDuenio, Entrando, EnReady, Despachado, EnRunning, Devuelto, Terminado
  <2>2. ~(sem_blocked = 0) BY <1>1
  <2>3. pc["tripulante"] = "en_emergencia" /\ sem_running = 0 /\ sem_blocked = 1
    BY <1>1, <2>1, <2>2 DEF EnEmergencia, ConCupo
  <2>4. sem_blocked' = 0 BY <1>1, <2>3
  <2>5. Quieto' BY <1>2, <2>3, <2>4 DEF Quieto
  <2>6. EnEmergencia' BY <1>1, <1>2, <1>5, <2>5 DEF EnEmergencia
  <2>. QED BY <1>1, <1>7, <2>6 DEF UnDuenio
<1>. QED BY <1>1, <1>2, <1>4, <1>6, <1>7 DEF Turnos

\* It resolves the sabotage with the trip, and then puts it back in ready.
LEMMA TurnoResolver ==
  ASSUME Turnos, lectura \in [Hilos -> Restos], DetResolver,
         UNCHANGED <<hechas, sem_running, sobran>>
  PROVE  Turnos' /\ PlanLibre
<1>1. /\ pc["detector"] = "resolver" /\ ~Espera("detector")
      /\ UNCHANGED <<lugar, sem_blocked, caido>>
      /\ lectura' = [lectura EXCEPT !["detector"] = <<"codigo">>]
  BY DEF DetResolver, En, Pedir
<1>2. \A h \in Hilos : h # "detector" => (Espera(h)' <=> Espera(h)) BY <1>1 DEF Espera
<1>3. cola_emergencia /\ DetTiene /\ lugar = "ninguno" /\ PlanLibre /\ ~TripTiene
  BY <1>1 DEF Turnos, UnLugar, DetTiene
<1>4. ASSUME UnDuenio PROVE Quieto
  BY <1>1, <1>3, <1>4 DEF UnDuenio, Entrando, EnReady, Despachado, EnRunning, EnEmergencia,
                          Devuelto, Terminado
<1>5. CASE pasos > 0
  <2>1. UNCHANGED <<estado, pc, cola_emergencia>> BY <1>5 DEF DetResolver
  <2>2. TipoHilos' BY <1>1, <2>1 DEF Turnos, TipoHilos
  <2>3. Preguntan' BY <1>1, <1>2, <2>1 DEF Turnos, Preguntan, Hilos
  <2>4. /\ DetTiene' <=> DetTiene
        /\ PlanLibre' <=> PlanLibre
        /\ TripTiene' <=> TripTiene
        /\ Quieto' <=> Quieto
    BY <1>1, <2>1 DEF DetTiene, PlanLibre, TripTiene, Quieto
  <2>5. UnLugar' BY <1>1, <1>2, <1>3, <2>1, <2>4 DEF Turnos, UnLugar, Hilos
  <2>6. ASSUME UnDuenio PROVE UnDuenio'
    <3>1. EnEmergencia' BY <1>1, <1>3, <1>4, <2>1, <2>4, <2>6 DEF EnEmergencia
    <3>. QED BY <2>1, <2>6, <3>1 DEF UnDuenio
  <2>. QED BY <1>1, <1>3, <2>2, <2>3, <2>5, <2>6 DEF Turnos
<1>6. CASE ~(pasos > 0)
  <2>1. /\ estado' = "READY" /\ cola_emergencia' = FALSE
        /\ pc' = [pc EXCEPT !["detector"] = "encolar_ready"]
    BY <1>6 DEF DetResolver, Ir
  <2>2. /\ pc'["tripulante"] = pc["tripulante"] /\ pc'["planificador"] = pc["planificador"]
        /\ pc'["detector"] = "encolar_ready" /\ TipoHilos'
    BY <1>1, <2>1 DEF Turnos, TipoHilos, LugaresDet, Hilos
  <2>3. Preguntan' BY <1>1, <1>2, <2>2 DEF Turnos, Preguntan, Hilos
  <2>4. /\ DetTiene'
        /\ PlanLibre' <=> PlanLibre
        /\ TripTiene' <=> TripTiene
        /\ Quieto' <=> Quieto
    BY <1>1, <2>2 DEF DetTiene, PlanLibre, TripTiene, Quieto
  <2>5. UnLugar' BY <1>1, <1>2, <1>3, <2>1, <2>2, <2>4 DEF Turnos, UnLugar, Hilos
  <2>6. ASSUME UnDuenio PROVE UnDuenio'
    <3>1. Devuelto' BY <1>4, <2>2, <2>4, <2>6 DEF Devuelto
    <3>. QED BY <2>1, <3>1 DEF UnDuenio
  <2>. QED BY <1>1, <1>3, <2>2, <2>3, <2>5, <2>6 DEF Turnos
<1>. QED BY <1>5, <1>6

\* The detector puts the trip back in ready.
LEMMA TurnoDevolver ==
  ASSUME Turnos, DetEncolarReady, UNCHANGED <<hechas, sem_running, sobran>>
  PROVE  Turnos'
<1>1. /\ pc["detector"] = "encolar_ready" /\ ~Espera("detector")
      /\ lugar' = "cola_ready"
      /\ lectura' = lectura /\ pc' = [pc EXCEPT !["detector"] = "terminar"]
      /\ UNCHANGED <<estado, cola_emergencia, sem_blocked, caido>>
  BY DEF DetEncolarReady, Ir, En, vSocket
<1>2. /\ pc'["tripulante"] = pc["tripulante"] /\ pc'["planificador"] = pc["planificador"]
      /\ pc'["detector"] = "terminar" /\ TipoHilos'
  BY <1>1 DEF Turnos, TipoHilos, LugaresDet, Hilos
<1>3. \A h \in Hilos : Espera(h)' <=> Espera(h) BY <1>1 DEF Espera
<1>4. Preguntan' BY <1>1, <1>2, <1>3 DEF Turnos, Preguntan, Hilos
<1>5. /\ DetTiene /\ ~cola_emergencia /\ lugar = "ninguno" /\ PlanLibre /\ ~TripTiene
      /\ ~DetTiene' /\ PlanLibre' /\ ~TripTiene'
  BY <1>1, <1>2 DEF Turnos, UnLugar, DetTiene, PlanLibre, TripTiene
<1>6. UnLugar' BY <1>1, <1>2, <1>3, <1>5 DEF Turnos, UnLugar, Hilos
<1>7. ASSUME UnDuenio PROVE UnDuenio'
  <2>1. Devuelto
    BY <1>1, <1>5, <1>7 DEF UnDuenio, Entrando, EnReady, Despachado, EnRunning, EnEmergencia,
                            Terminado
  <2>2. Quieto' BY <1>1, <1>2, <2>1 DEF Quieto, Devuelto
  <2>3. EnReady' BY <1>1, <2>2 DEF EnReady
  <2>. QED BY <1>1, <1>7, <2>3 DEF UnDuenio
<1>. QED BY <1>1, <1>2, <1>4, <1>6, <1>7 DEF Turnos

\* A recv, or an answer of the RAM, moves nobody.
LEMMA TurnoSocket ==
  ASSUME Turnos, caido = "no", \A h \in Hilos : Espera(h)' => Espera(h),
         caido' \in {"no", "desfase"},
         UNCHANGED <<pc, hechas, sem_running, sem_blocked, estado, lugar, cola_emergencia, sobran>>
  PROVE  Turnos'
<1>1. TipoHilos' BY DEF Turnos, TipoHilos
<1>2. Preguntan' BY DEF Turnos, Preguntan, Hilos
<1>3. /\ DetTiene' <=> DetTiene
      /\ PlanLibre' <=> PlanLibre
      /\ TripTiene' <=> TripTiene
      /\ Quieto' <=> Quieto
      /\ ConCupo' <=> ConCupo
  BY DEF DetTiene, PlanLibre, TripTiene, Quieto, ConCupo
<1>4. UnLugar' BY <1>3 DEF Turnos, UnLugar, Hilos
<1>5. UnDuenio => UnDuenio'
  BY <1>3 DEF UnDuenio, Entrando, EnReady, Despachado, EnRunning, EnEmergencia, Devuelto,
              Terminado
<1>. QED BY <1>1, <1>2, <1>4, <1>5 DEF Turnos

\* The console gives the trip the unit that it waits for, or one too many.
LEMMA TurnoConsola ==
  ASSUME Turnos, caido = "no", leer_consola
  PROVE  Turnos' /\ caido' \in {"no", "nulo"} /\ (sobran => sobran')
<1>1. UNCHANGED <<lectura, pc, hechas, sem_blocked, estado, lugar, cola_emergencia>>
  BY DEF leer_consola, vSocket, vListas
<1>2. \A h \in Hilos : Espera(h)' <=> Espera(h) BY <1>1 DEF Espera
<1>3. Preguntan' BY <1>1, <1>2 DEF Turnos, Preguntan, Hilos
<1>4. /\ DetTiene' <=> DetTiene
      /\ PlanLibre' <=> PlanLibre
      /\ TripTiene' <=> TripTiene
  BY <1>1 DEF DetTiene, PlanLibre, TripTiene
<1>5. UnLugar' BY <1>1, <1>2, <1>4 DEF Turnos, UnLugar, Hilos
<1>6. CASE Despertar
  <2>1. caido' = caido /\ sem_running' = sem_running + 1 BY <1>6 DEF Despertar
  <2>2. CASE pc["tripulante"] = "en_pausa" /\ sem_running = 0
    <3>1. sobran' = sobran BY <1>6, <2>2 DEF Despertar
    <3>2. TipoHilos' BY <1>1, <2>1, <3>1 DEF Turnos, TipoHilos
    <3>3. ASSUME UnDuenio PROVE UnDuenio'
      <4>1. ~Quieto BY <2>2 DEF Quieto
      <4>2. sem_running' = 1 BY <2>1, <2>2
      <4>3. ConCupo => ConCupo' BY <1>1, <2>2, <4>2 DEF ConCupo
      <4>4. EnRunning \/ EnEmergencia
        BY <2>2, <3>3, <4>1 DEF UnDuenio, Entrando, EnReady, Despachado, Devuelto, Terminado
      <4>5. CASE EnRunning BY <1>1, <3>3, <4>3, <4>5 DEF UnDuenio, EnRunning
      <4>6. CASE EnEmergencia BY <1>1, <2>2, <3>3, <4>1, <4>3, <4>6 DEF UnDuenio, EnEmergencia
      <4>. QED BY <4>4, <4>5, <4>6
    <3>. QED BY <1>3, <1>5, <2>1, <3>1, <3>2, <3>3 DEF Turnos
  <2>3. CASE ~(pc["tripulante"] = "en_pausa" /\ sem_running = 0)
    <3>1. sobran' = TRUE BY <1>6, <2>3 DEF Despertar
    <3>2. TipoHilos' BY <1>1, <2>1, <3>1 DEF Turnos, TipoHilos
    <3>. QED BY <1>3, <1>5, <2>1, <3>1, <3>2 DEF Turnos
  <2>. QED BY <2>2, <2>3
<1>7. CASE ~Despertar
  <2>1. /\ sem_running' = sem_running /\ sobran' = sobran /\ caido' \in {caido, "nulo"}
    BY <1>7 DEF leer_consola, pausar_planificacion, Reanudar, MirarRunning, TomarTrip,
                AvisarDetector
  <2>2. TipoHilos' BY <1>1, <2>1 DEF Turnos, TipoHilos
  <2>3. /\ Quieto' <=> Quieto
        /\ ConCupo' <=> ConCupo
    BY <1>1, <2>1 DEF Quieto, ConCupo
  <2>4. UnDuenio => UnDuenio'
    BY <1>1, <1>4, <2>1, <2>3 DEF UnDuenio, Entrando, EnReady, Despachado, EnRunning,
                                  EnEmergencia, Devuelto, Terminado
  <2>. QED BY <1>3, <1>5, <2>1, <2>2, <2>4 DEF Turnos
<1>. QED BY <1>6, <1>7

-----------------------------------------------------------------------------
(* The pairs that await at once, and the answers to NEXT_T *)

\* A request adds the pairs of its thread with those that await.
LEMMA AnotadosPedir ==
  ASSUME Anotados, NEW h \in Hilos, h \notin Esperan, NEW op, Pedir(h, op),
         Esperan' = Esperan \union {h}, caido' = caido, caido # "desfase", sobran' = sobran,
         \A o \in Esperan : PuedenCruzar(h, o)
  PROVE  Anotados' /\ (cruces' = {} => cruces = {} /\ Esperan = {})
<1>1. Esperan = {o \in Hilos : Espera(o)} BY DEF Esperan
<1>2. cruces' = cruces \union {{h, o} : o \in Esperan} BY <1>1 DEF Pedir
<1>3. ASSUME NEW par \in cruces'
      PROVE  \/ par = {"tripulante", "detector"}
             \/ par = {"tripulante", "planificador"} /\ sobran
  <2>1. CASE par \in cruces BY <2>1 DEF Anotados
  <2>2. CASE par \notin cruces
    <3>1. PICK o \in Esperan : par = {h, o} BY <1>2, <2>2
    <3>. QED BY <3>1 DEF PuedenCruzar
  <2>. QED BY <2>1, <2>2
<1>4. ASSUME NEW g \in Esperan', NEW k \in Esperan', g # k PROVE {g, k} \in cruces'
  <2>1. CASE g = h
    <3>1. k \in Esperan BY <1>4, <2>1
    <3>. QED BY <1>2, <2>1, <3>1
  <2>2. CASE k = h
    <3>1. g \in Esperan /\ {g, k} = {h, g} BY <1>4, <2>2
    <3>. QED BY <1>2, <3>1
  <2>3. CASE g # h /\ k # h
    <3>1. g \in Esperan /\ k \in Esperan BY <2>3
    <3>2. {g, k} \in cruces BY <1>4, <3>1 DEF Anotados
    <3>. QED BY <1>2, <3>2
  <2>. QED BY <2>1, <2>2, <2>3
<1>5. cruces' = {} => cruces = {} /\ Esperan = {} BY <1>2
<1>6. cruces' \subseteq {{"tripulante", "detector"}, {"tripulante", "planificador"}} BY <1>3
<1>7. {"tripulante", "planificador"} # {"tripulante", "detector"} OBVIOUS
<1>8. {"tripulante", "planificador"} \in cruces' => sobran' BY <1>3, <1>7
<1>. QED BY <1>4, <1>5, <1>6, <1>8 DEF Anotados

\* A step that asks nothing adds no pair, and takes a field for another only after one.
LEMMA AnotadosLeer ==
  ASSUME Anotados, Esperan' \subseteq Esperan, cruces' = cruces, sobran => sobran',
         caido' = "desfase" => cruces # {}
  PROVE  Anotados'
BY DEF Anotados

\* The planner tells the RAM of no trip that executes, until one has a spare unit.
LEMMA TripSinPlan ==
  ASSUME Turnos, caido = "no", ~sobran,
         pc["tripulante"] \notin {"esperar_running", "en_emergencia"}
  PROVE  ~Espera("planificador")
<1>1. UnDuenio BY DEF Turnos
<1>2. ~Quieto BY DEF Quieto
<1>3. ASSUME ~PlanLibre PROVE FALSE
  <2>1. lugar = "ninguno" /\ ~DetTiene /\ ~TripTiene BY <1>3 DEF Turnos, UnLugar
  <2>. QED BY <1>1, <1>2, <1>3, <2>1 DEF UnDuenio, Entrando, EnReady, Despachado, EnRunning,
                                      EnEmergencia, Devuelto, Terminado, DetTiene
<1>. QED BY <1>3 DEF Turnos, Preguntan, PlanLibre

\* The trip asks for a task with nothing else on the wire.
LEMMA PropiasSolicitar ==
  ASSUME TareasPropias, Cable, Esperan = {}, Pedir("tripulante", "NEXT_T"),
         pc["tripulante"] = "solicitar", pc'["tripulante"] = "tarea",
         UNCHANGED <<ip, hechas>>
  PROVE  TareasPropias'
<1>1. ida = << >> /\ vuelta = << >> BY CableVacio
<1>2. ida' = <<"NEXT_T">> /\ vuelta' = << >> BY <1>1 DEF Pedir
<1>3. lectura'["tripulante"] = <<"codigo">>
  <2>1. lectura \in [Hilos -> Restos] BY DEF Cable, TipoSocket
  <2>. QED BY <2>1 DEF Pedir, Hilos
<1>. QED BY <1>2, <1>3 DEF TareasPropias

\* Another request asks for no task.
LEMMA PropiasPedir ==
  ASSUME TareasPropias, TipoSocket, Esperan = {}, NEW h \in Hilos,
         NEW op \in Solicitudes \ {"NEXT_T"}, Pedir(h, op),
         \/ /\ pc["tripulante"] # "tarea" /\ pc'["tripulante"] # "tarea"
            /\ pc'["tripulante"] \in {"no_task", "fin"} => pc["tripulante"] \in {"no_task", "fin"}
         \/ h # "tripulante" /\ pc'["tripulante"] = pc["tripulante"],
         UNCHANGED <<ip, hechas>>
  PROVE  TareasPropias'
<1>1. /\ ida \in Seq(Solicitudes) /\ lectura \in [Hilos -> Restos]
      /\ codigo \in [Hilos -> Respuestas \union {"nada"}]
  BY DEF TipoSocket
<1>2. ida' = Append(ida, op) /\ vuelta' = vuelta BY DEF Pedir
<1>3. SinPedidos => SinPedidos'
  <2>1. SUFFICES ASSUME SinPedidos, NEW i \in 1 .. Len(ida) + 1 PROVE ida'[i] # "NEXT_T"
    <3>1. DOMAIN ida' = 1 .. Len(ida) + 1 BY <1>1, <1>2
    <3>. QED BY <3>1 DEF SinPedidos
  <2>2. CASE i \in 1 .. Len(ida) BY <1>1, <1>2, <2>1, <2>2 DEF SinPedidos
  <2>3. CASE i = Len(ida) + 1 BY <1>1, <1>2, <2>3
  <2>. QED BY <1>1, <2>2, <2>3
<1>4. lectura["tripulante"] # <<"codigo">> BY RestosDistintos DEF Esperan, Espera, Hilos
<1>5. h # "tripulante" => /\ lectura'["tripulante"] = lectura["tripulante"]
                          /\ codigo'["tripulante"] = codigo["tripulante"]
  BY <1>1 DEF Pedir, Hilos
<1>6. CASE pc["tripulante"] # "tarea" BY <1>3, <1>6 DEF TareasPropias
<1>7. CASE pc["tripulante"] = "tarea"
  <2>1. h # "tripulante" /\ pc'["tripulante"] = "tarea" BY <1>7
  <2>2. /\ SinPedidos /\ Acorde(codigo["tripulante"])
        /\ lectura["tripulante"] # << >> => codigo["tripulante"] = "TASK_T"
    BY <1>4, <1>7 DEF TareasPropias
  <2>3. Acorde(codigo["tripulante"])' BY <1>5, <2>1, <2>2 DEF Acorde
  <2>. QED BY <1>3, <1>4, <1>5, <2>1, <2>2, <2>3 DEF TareasPropias
<1>. QED BY <1>6, <1>7

\* The trip takes its answer.
LEMMA PropiasTomar ==
  ASSUME TareasPropias, TipoSocket, TipoHilos, TomarTarea, ip' = ip
  PROVE  TareasPropias'
<1>1. /\ pc["tripulante"] = "tarea" /\ lectura["tripulante"] = << >>
      /\ UNCHANGED <<ida, vuelta, lectura, codigo, ip>>
  BY DEF TomarTarea, En, Espera, vSocket
<1>2. SinPedidos /\ Acorde(codigo["tripulante"])
  BY <1>1, RestosDistintos DEF TareasPropias
<1>3. SinPedidos' BY <1>1, <1>2 DEF SinPedidos
<1>4. CASE codigo["tripulante"] = "TASK_T"
  <2>1. ip = hechas + 1 BY <1>2, <1>4 DEF Acorde
  <2>2. hechas' = hechas + 1 /\ pc'["tripulante"] \in {"pasar_a_ready", "ciclo"}
    BY <1>4 DEF TomarTarea, Ir, TipoHilos, Hilos
  <2>. QED BY <1>1, <1>3, <2>1, <2>2 DEF TareasPropias
<1>5. CASE codigo["tripulante"] # "TASK_T"
  <2>1. ip = hechas /\ hechas = CantTareas BY <1>2, <1>5 DEF Acorde
  <2>2. hechas' = hechas /\ pc'["tripulante"] = "no_task"
    BY <1>5 DEF TomarTarea, Ir, TipoHilos, Hilos
  <2>. QED BY <1>1, <1>3, <2>1, <2>2 DEF TareasPropias
<1>. QED BY <1>4, <1>5

\* A step with no message.
LEMMA PropiasIgual ==
  ASSUME TareasPropias, UNCHANGED <<ida, vuelta, lectura, codigo, ip, hechas>>,
         \/ pc'["tripulante"] = pc["tripulante"]
         \/ pc["tripulante"] # "tarea" /\ pc'["tripulante"] \notin {"tarea", "no_task", "fin"}
  PROVE  TareasPropias'
<1>1. SinPedidos' <=> SinPedidos BY DEF SinPedidos
<1>2. Acorde(codigo["tripulante"])' <=> Acorde(codigo["tripulante"]) BY DEF Acorde
<1>3. Acorde(vuelta[1].op)' <=> Acorde(vuelta[1].op) BY DEF Acorde
<1>. QED BY <1>1, <1>2, <1>3 DEF TareasPropias

\* A field read.
LEMMA PropiasLeer ==
  ASSUME TareasPropias, TipoSocket, cruces = {}, Anotados, NEW h \in Hilos, NEW resto,
         h \in Esperan, vuelta # << >>, Leido(h, resto),
         UNCHANGED <<ida, ip, hechas, pc>>
  PROVE  TareasPropias'
<1>1. /\ lectura \in [Hilos -> Restos] /\ codigo \in [Hilos -> Respuestas \union {"nada"}]
  BY DEF TipoSocket
<1>2. /\ lectura'[h] = resto /\ codigo'[h] = vuelta[1].op
      /\ \A g \in Hilos : g # h => lectura'[g] = lectura[g] /\ codigo'[g] = codigo[g]
  BY <1>1 DEF Leido
<1>3. SinPedidos' <=> SinPedidos BY DEF SinPedidos
<1>4. \A r : Acorde(r)' <=> Acorde(r) BY DEF Acorde
<1>5. CASE pc["tripulante"] # "tarea" BY <1>3, <1>5 DEF TareasPropias
<1>6. CASE pc["tripulante"] = "tarea" /\ h # "tripulante"
  <2>1. "tripulante" \notin Esperan BY <1>6 DEF Anotados
  <2>2. lectura["tripulante"] # <<"codigo">> BY <2>1, RestosDistintos DEF Esperan, Espera, Hilos
  <2>3. SinPedidos /\ Acorde(codigo["tripulante"])
        /\ (lectura["tripulante"] # << >> => codigo["tripulante"] = "TASK_T")
    BY <1>6, <2>2 DEF TareasPropias
  <2>4. lectura'["tripulante"] = lectura["tripulante"] /\ codigo'["tripulante"] = codigo["tripulante"]
    BY <1>2, <1>6 DEF Hilos
  <2>5. Acorde(codigo["tripulante"])' BY <2>3, <2>4 DEF Acorde
  <2>. QED BY <1>3, <1>6, <2>2, <2>3, <2>4, <2>5 DEF TareasPropias
<1>7. CASE pc["tripulante"] = "tarea" /\ h = "tripulante"
  <2>1. lectura'["tripulante"] # <<"codigo">>
        /\ (lectura'["tripulante"] # << >> => codigo'["tripulante"] = "TASK_T")
    BY <1>2, <1>7 DEF Leido
  <2>2. CASE lectura["tripulante"] = <<"codigo">>
    <3>1. ida = << >> /\ Acorde(vuelta[1].op) BY <1>7, <2>2 DEF TareasPropias
    <3>2. SinPedidos' BY <3>1 DEF SinPedidos
    <3>3. Acorde(codigo["tripulante"])' BY <1>2, <1>7, <3>1 DEF Acorde
    <3>. QED BY <1>7, <2>1, <3>2, <3>3 DEF TareasPropias
  <2>3. CASE lectura["tripulante"] # <<"codigo">>
    <3>1. /\ SinPedidos /\ Acorde(codigo["tripulante"])
          /\ lectura["tripulante"] # << >> => codigo["tripulante"] = "TASK_T"
      BY <1>7, <2>3 DEF TareasPropias
    <3>2. codigo["tripulante"] = "TASK_T" /\ vuelta[1].op = "TASK_T"
      BY <1>7, <2>3, <3>1 DEF Leido, Esperan, Espera
    <3>3. Acorde(codigo["tripulante"])' BY <1>2, <1>7, <3>1, <3>2 DEF Acorde
    <3>. QED BY <1>3, <1>7, <2>1, <3>1, <3>3 DEF TareasPropias
  <2>. QED BY <2>2, <2>3
<1>. QED BY <1>5, <1>6, <1>7

\* An answer written.
LEMMA PropiasResponder ==
  ASSUME TareasPropias, Cable, rutina_hilos, UNCHANGED <<hechas, pc>>
  PROVE  TareasPropias'
<1>1. /\ lectura' = lectura /\ codigo' = codigo /\ ida # << >> /\ ida' = Tail(ida)
      /\ ip' = ip + Avanzar(ida[1]) /\ vuelta' # << >>
      /\ IF vuelta = << >> THEN vuelta'[1].op = Respuesta(ida[1]) ELSE vuelta'[1] = vuelta[1]
  BY RutinaBien
<1>2. ida \in Seq(Solicitudes) /\ ip \in 0 .. CantTareas BY DEF Cable, TipoSocket
<1>3. SinPedidos => SinPedidos' /\ ip' = ip
  <2>1. SUFFICES ASSUME SinPedidos PROVE SinPedidos' /\ ip' = ip OBVIOUS
  <2>2. ida[1] # "NEXT_T" /\ ida[1] \in Solicitudes BY <1>1, <1>2, <2>1 DEF SinPedidos
  <2>3. Avanzar(ida[1]) = 0 BY <2>2 DEF Avanzar, Respuesta, Solicitudes
  <2>4. \A i \in 1 .. Len(Tail(ida)) : Tail(ida)[i] = ida[i + 1] /\ i + 1 \in 1 .. Len(ida)
    BY <1>1, <1>2
  <2>5. DOMAIN ida' = 1 .. Len(Tail(ida)) /\ DOMAIN ida = 1 .. Len(ida) BY <1>1, <1>2
  <2>6. SinPedidos' BY <1>1, <2>1, <2>4, <2>5 DEF SinPedidos
  <2>. QED BY <1>1, <1>2, <2>3, <2>6
<1>4. CASE SinPedidos /\ (pc["tripulante"] # "tarea" \/ lectura["tripulante"] # <<"codigo">>)
  <2>1. SinPedidos' /\ ip' = ip BY <1>3, <1>4
  <2>2. \A r : Acorde(r)' <=> Acorde(r) BY <2>1 DEF Acorde
  <2>3. Acorde(codigo["tripulante"])' <=> Acorde(codigo["tripulante"]) BY <1>1, <2>1 DEF Acorde
  <2>. QED BY <1>1, <1>4, <2>1, <2>3 DEF TareasPropias
<1>5. CASE ~SinPedidos
  <2>1. pc["tripulante"] = "tarea" BY <1>5 DEF TareasPropias
  <2>2. ida # << >> BY <1>1
  <2>3. lectura["tripulante"] = <<"codigo">> /\ ida = <<"NEXT_T">> /\ vuelta = << >> /\ ip = hechas
    BY <1>5, <2>1, <2>2 DEF TareasPropias
  <2>4. ida' = << >> /\ vuelta'[1].op = Respuesta("NEXT_T") /\ ip' = ip + Avanzar("NEXT_T")
    BY <1>1, <2>3
  <2>5. Acorde(vuelta[1].op)'
    <3>1. Respuesta("NEXT_T") = IF ip + 1 > CantTareas THEN "ER_MSJ" ELSE "TASK_T"
      BY DEF Respuesta
    <3>2. Avanzar("NEXT_T") = IF Respuesta("NEXT_T") = "TASK_T" THEN 1 ELSE 0 BY DEF Avanzar
    <3>3. CantTareas \in Nat BY CantidadesValidas
    <3>4. CASE ip + 1 > CantTareas
      <4>1. ip = CantTareas /\ ip' = ip /\ vuelta'[1].op = "ER_MSJ"
        BY <1>2, <2>4, <3>1, <3>2, <3>3, <3>4
      <4>. QED BY <2>3, <4>1 DEF Acorde
    <3>5. CASE ~(ip + 1 > CantTareas)
      <4>1. ip' = ip + 1 /\ vuelta'[1].op = "TASK_T" BY <2>4, <3>1, <3>2, <3>5
      <4>. QED BY <2>3, <4>1 DEF Acorde
    <3>. QED BY <3>4, <3>5
  <2>. QED BY <1>1, <2>1, <2>3, <2>4, <2>5 DEF TareasPropias
<1>6. CASE SinPedidos /\ pc["tripulante"] = "tarea" /\ lectura["tripulante"] = <<"codigo">>
  <2>1. ida = <<"NEXT_T">> \/ ida = << >> BY <1>6 DEF TareasPropias
  <2>2. ida = <<"NEXT_T">> BY <1>1, <2>1
  <2>3. ida[1] = "NEXT_T" /\ 1 \in DOMAIN ida BY <2>2
  <2>. QED BY <1>6, <2>3 DEF SinPedidos
<1>. QED BY <1>4, <1>5, <1>6

-----------------------------------------------------------------------------
(* The invariant *)

\* The first state.
LEMMA IInvInicio == Init => IInv
<1>1. SUFFICES ASSUME Init PROVE IInv OBVIOUS
<1>2. /\ ida = << >> /\ vuelta = << >> /\ ip = 0 /\ hechas = 0 /\ caido = "no" /\ cruces = {}
      /\ lectura = [h \in Hilos |-> << >>] /\ codigo = [h \in Hilos |-> "nada"]
      /\ pc["tripulante"] = "solicitar" /\ pc["planificador"] = "esperar_ready"
      /\ pc["detector"] = "recibir" /\ pc = [h \in Hilos |-> pc[h]]
      /\ estado = "NEW" /\ lugar = "ninguno" /\ cola_emergencia = FALSE
      /\ sem_running = 0 /\ sem_blocked = 0 /\ sobran = FALSE
  BY <1>1 DEF Init, Hilos
<1>3. Esperan = {} /\ Leyendo = {} BY <1>2 DEF Esperan, Leyendo, Espera
<1>4. TipoSocket
  <2>1. << >> \in Seq(Solicitudes) /\ << >> \in Seq(Campo) BY EmptySeq
  <2>2. 0 \in 0 .. CantTareas BY CantidadesValidas
  <2>3. \A h \in Hilos : lectura[h] = << >> BY <1>2
  <2>4. \A h \in Hilos : lectura[h] = <<"codigo">> <=> codigo[h] = "nada" /\ lectura[h] # << >>
    BY <2>3, RestosDistintos
  <2>. QED BY <1>2, <2>1, <2>2, <2>4, RestosDistintos DEF TipoSocket
<1>5. Formato BY <1>2, <1>3 DEF Formato, Seguidos
<1>6. Contadas
  <2>1. EnViaje = {} BY <1>2 DEF EnViaje
  <2>2. Cardinality({}) = 0 BY FS_EmptySet
  <2>3. Len(ida) = 0 BY <1>2
  <2>. QED BY <1>3, <2>1, <2>2, <2>3 DEF Contadas
<1>7. TipoHilos BY <1>2 DEF TipoHilos, LugaresTrip, LugaresPlan, LugaresDet
<1>8. ~Espera("tripulante") /\ ~Espera("planificador") /\ ~Espera("detector")
  BY <1>2 DEF Espera, Hilos
<1>9. Preguntan BY <1>8 DEF Preguntan
<1>10. PlanLibre /\ ~DetTiene /\ TripTiene BY <1>2 DEF PlanLibre, DetTiene, TripTiene
<1>11. UnLugar /\ UnDuenio
  <2>1. Entrando BY <1>2, <1>10 DEF Entrando
  <2>2. UnDuenio BY <1>2, <2>1 DEF UnDuenio
  <2>. QED BY <1>2, <1>8, <1>10, <2>2 DEF UnLugar
<1>12. Anotados BY <1>2, <1>3 DEF Anotados
<1>13. TareasPropias BY <1>2 DEF TareasPropias, SinPedidos
<1>. QED BY <1>4, <1>5, <1>6, <1>7, <1>9, <1>11, <1>12, <1>13 DEF IInv, Cable, Turnos

\* A step that touches no message.
LEMMA SinMensaje ==
  ASSUME IInv, Turnos', caido = "no", caido' # "desfase", sobran => sobran',
         UNCHANGED <<ida, vuelta, lectura, codigo, ip, cruces>>,
         cruces = {} => TareasPropias'
  PROVE  IInv'
<1>1. Esperan' = Esperan /\ Leyendo' = Leyendo /\ EnViaje' = EnViaje
  BY DEF Esperan, Leyendo, Espera, EnViaje
<1>2. TipoSocket' BY DEF IInv, TipoSocket
<1>3. Formato' BY <1>1 DEF IInv, Cable, Formato, Seguidos, Sigue
<1>4. Contadas' BY <1>1 DEF IInv, Cable, Contadas
<1>5. Anotados' BY <1>1 DEF IInv, Anotados
<1>. QED BY <1>2, <1>3, <1>4, <1>5 DEF IInv, Cable

\* A step with a request.
LEMMA ConMensaje ==
  ASSUME IInv, Turnos', caido = "no", caido' = caido, ip' = ip, NEW h \in Hilos, ~Espera(h),
         NEW op \in Solicitudes, Pedir(h, op), sobran' = sobran,
         \A o \in Esperan : PuedenCruzar(h, o),
         cruces = {} /\ Esperan = {} => TareasPropias'
  PROVE  IInv'
<1>1. Cable BY DEF IInv
<1>2. Cable' /\ Esperan' = Esperan \union {h} BY <1>1, PedirBien
<1>3. h \notin Esperan BY DEF Esperan
<1>4. Anotados' /\ (cruces' = {} => cruces = {} /\ Esperan = {})
  BY <1>2, <1>3, AnotadosPedir DEF IInv
<1>. QED BY <1>2, <1>4 DEF IInv, Cable

\* The trip.
LEMMA TripPaso ==
  ASSUME IInv, caido = "no", tripulante
  PROVE  IInv'
<1>1. /\ Turnos /\ TipoSocket /\ Cable /\ lectura \in [Hilos -> Restos]
      /\ (cruces = {} => TareasPropias) /\ UNCHANGED <<ip, vSabotaje, vPausa, sobran>>
  BY DEF IInv, TipoSocket, tripulante, vPausa
<1>2. TipoHilos BY <1>1 DEF Turnos
<1>3. ASSUME pc["tripulante"] \notin {"esperar_running", "en_emergencia"}, ~Espera("tripulante")
      PROVE  \A o \in Esperan : PuedenCruzar("tripulante", o)
  <2>1. ~sobran => ~Espera("planificador") BY <1>1, <1>3, TripSinPlan
  <2>2. SUFFICES ASSUME NEW o \in Esperan PROVE PuedenCruzar("tripulante", o) OBVIOUS
  <2>3. o = "detector" \/ (o = "planificador" /\ sobran) BY <1>3, <2>1 DEF Esperan, Hilos
  <2>. QED BY <2>3 DEF PuedenCruzar
<1>4. CASE solicitar_tarea
  <2>1. /\ pc["tripulante"] = "solicitar" /\ ~Espera("tripulante")
        /\ Pedir("tripulante", "NEXT_T") /\ pc' = [pc EXCEPT !["tripulante"] = "tarea"]
        /\ UNCHANGED <<hechas, sem_running, sem_blocked, estado, lugar, cola_emergencia, caido>>
    BY <1>4 DEF solicitar_tarea, En, Ir, vTrip, vListas
  <2>2. Ajenos("tripulante") BY <1>1, <2>1 DEF Ajenos, Pedir
  <2>3. Turnos'
    <3>1. PICK a, b : a = "solicitar" /\ b = "tarea" OBVIOUS
    <3>. QED BY <1>1, <2>1, <2>2, <3>1, SigueTrip
  <2>4. cruces = {} /\ Esperan = {} => TareasPropias'
    <3>1. pc'["tripulante"] = "tarea" BY <1>2, <2>1 DEF TipoHilos, Hilos
    <3>. QED BY <1>1, <2>1, <3>1, PropiasSolicitar
  <2>5. "NEXT_T" \in Solicitudes /\ "tripulante" \in Hilos BY DEF Solicitudes, Hilos
  <2>. QED BY <1>1, <1>3, <2>1, <2>3, <2>4, <2>5, ConMensaje
<1>5. CASE TomarTarea
  <2>1. Turnos' BY <1>1, <1>5, TurnoTarea
  <2>2. UNCHANGED <<ida, vuelta, lectura, codigo, cruces, caido>> BY <1>5 DEF TomarTarea, vSocket
  <2>3. cruces = {} => TareasPropias' BY <1>1, <1>2, <1>5, PropiasTomar
  <2>. QED BY <1>1, <2>1, <2>2, <2>3, SinMensaje
<1>6. CASE PasarAReady
  <2>1. /\ pc["tripulante"] = "pasar_a_ready" /\ ~Espera("tripulante")
        /\ Pedir("tripulante", "ACTU_E") /\ pc' = [pc EXCEPT !["tripulante"] = "encolar"]
        /\ UNCHANGED <<hechas, caido>>
    BY <1>6 DEF PasarAReady, En, Ir, vTrip
  <2>2. Turnos' BY <1>1, <1>6, TurnoPasar
  <2>3. "ACTU_E" \in Solicitudes \ {"NEXT_T"} /\ "tripulante" \in Hilos BY DEF Solicitudes, Hilos
  <2>4. pc'["tripulante"] = "encolar" BY <1>2, <2>1 DEF TipoHilos, Hilos
  <2>5. cruces = {} /\ Esperan = {} => TareasPropias' BY <1>1, <2>1, <2>3, <2>4, PropiasPedir
  <2>. QED BY <1>1, <1>3, <2>1, <2>2, <2>3, <2>5, ConMensaje
<1>7. CASE EncolarReady
  <2>1. /\ pc["tripulante"] = "encolar" /\ pc' = [pc EXCEPT !["tripulante"] = "esperar_running"]
        /\ UNCHANGED <<ida, vuelta, lectura, codigo, cruces, hechas, caido>>
    BY <1>7 DEF EncolarReady, En, Ir, vSocket, vTrip
  <2>2. Turnos' BY <1>1, <1>7, TurnoEncolar
  <2>3. pc'["tripulante"] = "esperar_running" BY <1>2, <2>1 DEF TipoHilos, Hilos
  <2>4. cruces = {} => TareasPropias' BY <1>1, <2>1, <2>3, PropiasIgual
  <2>. QED BY <1>1, <2>1, <2>2, <2>4, SinMensaje
<1>8. CASE EsperarRunning
  <2>1. UNCHANGED <<ida, vuelta, lectura, codigo, cruces, hechas, caido>>
    BY <1>8 DEF EsperarRunning, vSocket
  <2>2. Turnos' BY <1>1, <1>8, TurnoEjecutar
  <2>3. /\ pc["tripulante"] # "tarea"
        /\ \E b \in {"mirar_pausa", "ciclo", "mirar_emergencia"} :
             pc' = [pc EXCEPT !["tripulante"] = b]
    BY <1>8, TrasEsperarVale DEF EsperarRunning, En, Ir
  <2>4. pc'["tripulante"] \in {"mirar_pausa", "ciclo", "mirar_emergencia"}
    BY <1>2, <2>3 DEF TipoHilos, Hilos
  <2>5. cruces = {} => TareasPropias' BY <1>1, <2>1, <2>3, <2>4, PropiasIgual
  <2>. QED BY <1>1, <2>1, <2>2, <2>5, SinMensaje
<1>9. CASE Moverse
  <2>1. /\ pc["tripulante"] = "ciclo" /\ ~Espera("tripulante")
        /\ UNCHANGED <<hechas, sem_running, sem_blocked, estado, lugar, cola_emergencia, caido>>
    BY <1>9 DEF Moverse, En, vListas
  <2>2. CASE restan > 0
    <3>1. /\ Pedir("tripulante", "ACTU_P")
          /\ pc' = [pc EXCEPT !["tripulante"] = "puede_continuar"]
      BY <1>9, <2>2 DEF Moverse, Ir
    <3>2. Ajenos("tripulante") BY <1>1, <3>1 DEF Ajenos, Pedir
    <3>3. Turnos'
      <4>1. PICK a, b : a = "ciclo" /\ b = "puede_continuar" OBVIOUS
      <4>. QED BY <1>1, <2>1, <3>1, <3>2, <4>1, SigueTrip
    <3>4. "ACTU_P" \in Solicitudes \ {"NEXT_T"} /\ "tripulante" \in Hilos BY DEF Solicitudes, Hilos
    <3>5. pc'["tripulante"] = "puede_continuar" BY <1>2, <3>1 DEF TipoHilos, Hilos
    <3>6. cruces = {} /\ Esperan = {} => TareasPropias'
      BY <1>1, <2>1, <3>1, <3>4, <3>5, PropiasPedir
    <3>. QED BY <1>1, <1>3, <2>1, <3>1, <3>3, <3>4, <3>6, ConMensaje
  <2>3. CASE ~(restan > 0)
    <3>1. /\ pc' = [pc EXCEPT !["tripulante"] = "solicitar"]
          /\ UNCHANGED <<ida, vuelta, lectura, codigo, cruces>>
      BY <1>9, <2>3 DEF Moverse, Ir, vSocket
    <3>2. Ajenos("tripulante") /\ ~Espera("tripulante")' BY <2>1, <3>1 DEF Ajenos, Espera
    <3>3. Turnos'
      <4>1. PICK a, b : a = "ciclo" /\ b = "solicitar" OBVIOUS
      <4>. QED BY <1>1, <2>1, <3>1, <3>2, <4>1, SigueTrip
    <3>4. pc'["tripulante"] = "solicitar" BY <1>2, <3>1 DEF TipoHilos, Hilos
    <3>5. cruces = {} => TareasPropias' BY <1>1, <2>1, <3>1, <3>4, PropiasIgual
    <3>. QED BY <1>1, <2>1, <3>1, <3>3, <3>5, SinMensaje
  <2>. QED BY <2>2, <2>3
<1>10. CASE puede_continuar
  <2>1. /\ pc["tripulante"] = "puede_continuar"
        /\ UNCHANGED <<ida, vuelta, lectura, codigo, cruces, hechas>>
    BY <1>10 DEF puede_continuar, En, vSocket
  <2>2. /\ caido' \in {caido, "quitar_running"}
        /\ pc' = pc \/ \E b \in {"mirar_pausa", "pasar_a_ready"} :
                           pc' = [pc EXCEPT !["tripulante"] = b]
    BY <1>10 DEF puede_continuar, Ir
  <2>3. Turnos' BY <1>1, <1>10, TurnoContinuar
  <2>4. pc'["tripulante"] \in {pc["tripulante"], "mirar_pausa", "pasar_a_ready"}
    BY <1>2, <2>2 DEF TipoHilos, Hilos
  <2>5. cruces = {} => TareasPropias' BY <1>1, <2>1, <2>4, PropiasIgual
  <2>. QED BY <1>1, <2>1, <2>2, <2>3, <2>5, SinMensaje
<1>11. CASE MirarPausa
  <2>1. PICK a, b : /\ a = "mirar_pausa"
                    /\ b = IF continuar_planificacion THEN TrasPausa ELSE "en_pausa"
    OBVIOUS
  <2>2. b \in {"en_pausa", "ciclo", "mirar_emergencia"} BY <2>1, Zenon DEF TrasPausa
  <2>3. /\ pc["tripulante"] = a /\ ~Espera("tripulante") /\ pc' = [pc EXCEPT !["tripulante"] = b]
        /\ UNCHANGED <<ida, vuelta, lectura, codigo, cruces, hechas, sem_running, sem_blocked,
                       estado, lugar, cola_emergencia, caido>>
    BY <1>11, <2>1 DEF MirarPausa, En, Ir, vSocket, vTrip, vListas
  <2>4. Ajenos("tripulante") /\ ~Espera("tripulante")' BY <2>3 DEF Ajenos, Espera
  <2>5. Turnos' BY <1>1, <2>1, <2>2, <2>3, <2>4, SigueTrip
  <2>6. pc'["tripulante"] = b /\ pc["tripulante"] # "tarea"
    BY <1>2, <2>1, <2>3 DEF TipoHilos, Hilos
  <2>7. cruces = {} => TareasPropias' BY <1>1, <2>2, <2>3, <2>6, PropiasIgual
  <2>. QED BY <1>1, <2>3, <2>5, <2>7, SinMensaje
<1>12. CASE MirarEmergencia
  <2>1. /\ pc["tripulante"] = "mirar_emergencia"
        /\ UNCHANGED <<ida, vuelta, lectura, codigo, cruces, hechas, caido>>
        /\ \E b \in {"en_emergencia", "ciclo"} : pc' = [pc EXCEPT !["tripulante"] = b]
    BY <1>12 DEF MirarEmergencia, En, Ir, vSocket
  <2>2. Turnos' BY <1>1, <1>12, TurnoEmergencia
  <2>3. pc'["tripulante"] \in {"en_emergencia", "ciclo"} BY <1>2, <2>1 DEF TipoHilos, Hilos
  <2>4. cruces = {} => TareasPropias' BY <1>1, <2>1, <2>3, PropiasIgual
  <2>. QED BY <1>1, <2>1, <2>2, <2>4, SinMensaje
<1>13. CASE Finalizar
  <2>1. pc["tripulante"] = "no_task" /\ ~Espera("tripulante") /\ hechas' = hechas
    BY <1>13 DEF Finalizar, En, vTrip
  <2>2. Turnos' BY <1>1, <1>13, TurnoFinalizar
  <2>3. CASE lugar = "tripulantes_running"
    <3>1. /\ Pedir("tripulante", "ACTU_E") /\ pc' = [pc EXCEPT !["tripulante"] = "fin"]
          /\ caido' = caido
      BY <1>13, <2>3 DEF Finalizar, Ir
    <3>2. "ACTU_E" \in Solicitudes \ {"NEXT_T"} /\ "tripulante" \in Hilos BY DEF Solicitudes, Hilos
    <3>3. pc'["tripulante"] = "fin" BY <1>2, <3>1 DEF TipoHilos, Hilos
    <3>4. cruces = {} /\ Esperan = {} => TareasPropias'
      BY <1>1, <2>1, <3>1, <3>2, <3>3, PropiasPedir
    <3>. QED BY <1>1, <1>3, <2>1, <2>2, <3>1, <3>2, <3>4, ConMensaje
  <2>4. CASE lugar # "tripulantes_running"
    <3>1. /\ UNCHANGED <<ida, vuelta, lectura, codigo, cruces, pc>>
          /\ caido' = "quitar_running"
      BY <1>13, <2>4 DEF Finalizar, vSocket
    <3>2. cruces = {} => TareasPropias' BY <1>1, <2>1, <3>1, PropiasIgual
    <3>. QED BY <1>1, <2>2, <3>1, <3>2, SinMensaje
  <2>. QED BY <2>3, <2>4
<1>. QED BY <1>4, <1>5, <1>6, <1>7, <1>8, <1>9, <1>10, <1>13, <1>11, <1>12 DEF tripulante

\* The planner.
LEMMA PlanPaso ==
  ASSUME IInv, caido = "no", planificador
  PROVE  IInv'
<1>1. /\ Turnos /\ TipoHilos /\ TipoSocket /\ Cable /\ lectura \in [Hilos -> Restos]
      /\ (cruces = {} => TareasPropias)
      /\ UNCHANGED <<ip, hechas, sem_blocked, cola_emergencia, vPausa, sobran>>
  BY DEF IInv, Turnos, TipoSocket, planificador, vPausa
<1>2. ASSUME NEW a, NEW b, pc["planificador"] = a, pc' = [pc EXCEPT !["planificador"] = b],
             a # "encolar_running", b \in LugaresPlan \ {"encolar_running"},
             UNCHANGED <<ida, vuelta, lectura, codigo, cruces, sem_running, estado, lugar, caido>>
      PROVE  IInv'
  <2>1. Turnos' BY <1>1, <1>2, TurnoPlanLibre
  <2>2. pc'["tripulante"] = pc["tripulante"] BY <1>1, <1>2 DEF TipoHilos, Hilos
  <2>3. cruces = {} => TareasPropias' BY <1>1, <1>2, <2>2, PropiasIgual
  <2>. QED BY <1>1, <1>2, <2>1, <2>3, SinMensaje
<1>3. CASE PlanEsperarReady
  <2>1. PICK a, b : a = "esperar_ready" /\ b = "mirar_sabotaje" OBVIOUS
  <2>2. /\ pc["planificador"] = a /\ pc' = [pc EXCEPT !["planificador"] = b]
        /\ UNCHANGED <<ida, vuelta, lectura, codigo, cruces, sem_running, estado, lugar, caido>>
    BY <1>3, <2>1 DEF PlanEsperarReady, En, Ir, vSocket
  <2>3. a # "encolar_running" /\ b \in LugaresPlan \ {"encolar_running"} BY <2>1 DEF LugaresPlan
  <2>. QED BY <1>2, <2>2, <2>3
<1>4. CASE PlanMirarSabotaje
  <2>1. PICK a, b : a = "mirar_sabotaje" /\ b = IF hay_sabotaje THEN "esperar_fin" ELSE "mirar_ready"
    OBVIOUS
  <2>2. /\ pc["planificador"] = a /\ pc' = [pc EXCEPT !["planificador"] = b]
        /\ UNCHANGED <<ida, vuelta, lectura, codigo, cruces, sem_running, estado, lugar, caido>>
    BY <1>4, <2>1 DEF PlanMirarSabotaje, En, Ir, vSocket
  <2>3. a # "encolar_running" /\ b \in LugaresPlan \ {"encolar_running"}
    BY <2>1, Zenon DEF LugaresPlan
  <2>. QED BY <1>2, <2>2, <2>3
<1>5. CASE PlanEsperarFinSabotaje
  <2>1. PICK a, b : a = "esperar_fin" /\ b = "mirar_ready" OBVIOUS
  <2>2. /\ pc["planificador"] = a /\ pc' = [pc EXCEPT !["planificador"] = b]
        /\ UNCHANGED <<ida, vuelta, lectura, codigo, cruces, sem_running, estado, lugar, caido>>
    BY <1>5, <2>1 DEF PlanEsperarFinSabotaje, En, Ir, vSocket
  <2>3. a # "encolar_running" /\ b \in LugaresPlan \ {"encolar_running"} BY <2>1 DEF LugaresPlan
  <2>. QED BY <1>2, <2>2, <2>3
<1>6. CASE PlanMirarReady
  <2>1. PICK a, b : /\ a = "mirar_ready"
                    /\ b = IF lugar = "cola_ready" THEN "quitar_ready" ELSE "esperar_ready"
    OBVIOUS
  <2>2. /\ pc["planificador"] = a /\ pc' = [pc EXCEPT !["planificador"] = b]
        /\ UNCHANGED <<ida, vuelta, lectura, codigo, cruces, sem_running, estado, lugar, caido>>
    BY <1>6, <2>1 DEF PlanMirarReady, En, Ir, vSocket
  <2>3. a # "encolar_running" /\ b \in LugaresPlan \ {"encolar_running"}
    BY <2>1, Zenon DEF LugaresPlan
  <2>. QED BY <1>2, <2>2, <2>3
<1>7. CASE PlanPasarARunning /\ lugar # "cola_ready"
  <2>1. /\ caido' = "nulo"
        /\ UNCHANGED <<ida, vuelta, lectura, codigo, cruces, pc, lugar, sem_running, estado>>
    BY <1>7 DEF PlanPasarARunning, vSocket
  <2>2. Turnos' BY <1>1, <2>1, TurnoCaida
  <2>3. cruces = {} => TareasPropias' BY <1>1, <2>1, PropiasIgual
  <2>. QED BY <1>1, <2>1, <2>2, <2>3, SinMensaje
<1>8. CASE PlanPasarARunning /\ lugar = "cola_ready"
  <2>1. Turnos' /\ ~Espera("detector") /\ (~sobran => Quieto) BY <1>1, <1>8, TurnoDespachar
  <2>2. /\ ~Espera("planificador") /\ Pedir("planificador", "ACTU_E")
        /\ pc' = [pc EXCEPT !["planificador"] = "encolar_running"] /\ caido' = caido
    BY <1>8 DEF PlanPasarARunning, En, Ir
  <2>3. "ACTU_E" \in Solicitudes \ {"NEXT_T"} /\ "planificador" \in Hilos BY DEF Solicitudes, Hilos
  <2>4. ASSUME NEW o \in Esperan PROVE PuedenCruzar("planificador", o)
    <3>1. o = "tripulante" /\ Espera("tripulante") BY <2>1, <2>2, <2>4 DEF Esperan, Hilos
    <3>2. sobran BY <1>1, <2>1, <3>1 DEF Turnos, Preguntan, Quieto
    <3>3. {"planificador", "tripulante"} = {"tripulante", "planificador"} OBVIOUS
    <3>. QED BY <3>1, <3>2, <3>3 DEF PuedenCruzar
  <2>5. pc'["tripulante"] = pc["tripulante"] BY <1>1, <2>2 DEF TipoHilos, Hilos
  <2>6. cruces = {} /\ Esperan = {} => TareasPropias'
    <3>1. "planificador" # "tripulante" OBVIOUS
    <3>. QED BY <1>1, <2>2, <2>3, <2>5, <3>1, PropiasPedir
  <2>. QED BY <1>1, <2>1, <2>2, <2>3, <2>4, <2>6, ConMensaje
<1>9. CASE PlanEncolarRunning
  <2>1. Turnos' BY <1>1, <1>9, TurnoCupo
  <2>2. /\ pc' = [pc EXCEPT !["planificador"] = "esperar_ready"]
        /\ UNCHANGED <<ida, vuelta, lectura, codigo, cruces, caido>>
    BY <1>9 DEF PlanEncolarRunning, Ir, vSocket
  <2>3. pc'["tripulante"] = pc["tripulante"] BY <1>1, <2>2 DEF TipoHilos, Hilos
  <2>4. cruces = {} => TareasPropias' BY <1>1, <2>2, <2>3, PropiasIgual
  <2>. QED BY <1>1, <2>1, <2>2, <2>4, SinMensaje
<1>. QED BY <1>3, <1>4, <1>5, <1>6, <1>8, <1>9, <1>7 DEF planificador

\* The detector.
LEMMA DetPaso ==
  ASSUME IInv, caido = "no", detector_sabotaje
  PROVE  IInv'
<1>1. /\ Turnos /\ TipoHilos /\ TipoSocket /\ Cable /\ lectura \in [Hilos -> Restos]
      /\ (cruces = {} => TareasPropias)
      /\ UNCHANGED <<ip, hechas, sem_running, sobran>>
  BY DEF IInv, Turnos, TipoSocket, detector_sabotaje
<1>2. ASSUME PlanLibre, ~Espera("detector") PROVE \A o \in Esperan : PuedenCruzar("detector", o)
  <2>1. ~Espera("planificador") BY <1>1, <1>2 DEF Turnos, Preguntan, PlanLibre
  <2>2. SUFFICES ASSUME NEW o \in Esperan PROVE PuedenCruzar("detector", o) OBVIOUS
  <2>3. o = "tripulante" BY <1>2, <2>1 DEF Esperan, Hilos
  <2>4. {"detector", "tripulante"} = {"tripulante", "detector"} OBVIOUS
  <2>. QED BY <2>3, <2>4 DEF PuedenCruzar
<1>3. ASSUME NEW b, pc' = [pc EXCEPT !["detector"] = b] PROVE pc'["tripulante"] = pc["tripulante"]
  BY <1>1, <1>3 DEF TipoHilos, Hilos
<1>4. ASSUME NEW a, NEW b, pc["detector"] = a, pc' = [pc EXCEPT !["detector"] = b],
             \/ /\ a \in {"recibir", "mirar_pausa", "en_pausa", "terminar"}
                /\ b \in {"recibir", "mirar_pausa", "en_pausa", "mirar_running"}
             \/ a = "mirar_running" /\ b \in {"quitar_running", "mirar_ready"}
             \/ a = "mirar_ready" /\ b = "quitar_ready"
             \/ a = "mirar_ready" /\ b = "resolver" /\ cola_emergencia
             \/ a = "mirar_ready" /\ b = "recibir" /\ ~cola_emergencia,
             ~Espera("detector"),
             UNCHANGED <<ida, vuelta, lectura, codigo, cruces, sem_blocked, estado, lugar,
                         cola_emergencia, caido>>
      PROVE  IInv'
  <2>1. Turnos' BY <1>1, <1>4, TurnoDetMira
  <2>2. cruces = {} => TareasPropias' BY <1>1, <1>3, <1>4, PropiasIgual
  <2>. QED BY <1>1, <1>4, <2>1, <2>2, SinMensaje
<1>5. ASSUME NEW op \in Solicitudes \ {"NEXT_T"}, Pedir("detector", op), ~Espera("detector"),
             Turnos', PlanLibre, pc'["tripulante"] = pc["tripulante"], caido' = caido
      PROVE  IInv'
  <2>1. "detector" \in Hilos /\ "detector" # "tripulante" BY DEF Hilos
  <2>2. cruces = {} /\ Esperan = {} => TareasPropias' BY <1>1, <1>5, <2>1, PropiasPedir
  <2>3. \A o \in Esperan : PuedenCruzar("detector", o) BY <1>2, <1>5
  <2>. QED BY <1>1, <1>5, <2>1, <2>2, <2>3, ConMensaje
<1>6. "ACTU_E" \in Solicitudes \ {"NEXT_T"} /\ "ACTU_P" \in Solicitudes \ {"NEXT_T"}
  BY DEF Solicitudes
<1>7. CASE DetRecibir
  <2>1. PICK a, b : a = "recibir" /\ b = "mirar_pausa" OBVIOUS
  <2>2. /\ pc["detector"] = a /\ pc' = [pc EXCEPT !["detector"] = b] /\ ~Espera("detector")
        /\ UNCHANGED <<ida, vuelta, lectura, codigo, cruces, sem_blocked, estado, lugar,
                       cola_emergencia, caido>>
    BY <1>7, <2>1 DEF DetRecibir, En, Ir, vSocket, vListas
  <2>. QED BY <1>4, <2>1, <2>2
<1>8. CASE DetMirarPausa
  <2>1. PICK a, b : /\ a = "mirar_pausa"
                    /\ b = IF continuar_planificacion THEN "mirar_running" ELSE "en_pausa"
    OBVIOUS
  <2>2. /\ pc["detector"] = a /\ pc' = [pc EXCEPT !["detector"] = b] /\ ~Espera("detector")
        /\ UNCHANGED <<ida, vuelta, lectura, codigo, cruces, sem_blocked, estado, lugar,
                       cola_emergencia, caido>>
    BY <1>8, <2>1 DEF DetMirarPausa, En, Ir, vSocket, vListas
  <2>3. b \in {"recibir", "mirar_pausa", "en_pausa", "mirar_running"} BY <2>1, Zenon
  <2>. QED BY <1>4, <2>1, <2>2, <2>3
<1>9. CASE DetEsperarReanudar
  <2>1. PICK a, b : a = "en_pausa" /\ b = "mirar_running" OBVIOUS
  <2>2. /\ pc["detector"] = a /\ pc' = [pc EXCEPT !["detector"] = b] /\ ~Espera("detector")
        /\ UNCHANGED <<ida, vuelta, lectura, codigo, cruces, sem_blocked, estado, lugar,
                       cola_emergencia, caido>>
    BY <1>9, <2>1 DEF DetEsperarReanudar, En, Ir, vSocket, vListas
  <2>. QED BY <1>4, <2>1, <2>2
<1>10. CASE DetMirarRunning
  <2>1. PICK a, b : /\ a = "mirar_running"
                    /\ b = IF lugar = "tripulantes_running" THEN "quitar_running" ELSE "mirar_ready"
    OBVIOUS
  <2>2. /\ pc["detector"] = a /\ pc' = [pc EXCEPT !["detector"] = b] /\ ~Espera("detector")
        /\ UNCHANGED <<ida, vuelta, lectura, codigo, cruces, sem_blocked, estado, lugar,
                       cola_emergencia, caido>>
    BY <1>10, <2>1 DEF DetMirarRunning, En, Ir, vSocket, vListas
  <2>3. b \in {"quitar_running", "mirar_ready"} BY <2>1, Zenon
  <2>. QED BY <1>4, <2>1, <2>2, <2>3
<1>11. CASE DetMirarReady
  <2>1. PICK a, b : /\ a = "mirar_ready"
                    /\ b = IF lugar = "cola_ready" THEN "quitar_ready"
                           ELSE IF cola_emergencia THEN "resolver" ELSE "recibir"
    OBVIOUS
  <2>2. /\ pc["detector"] = a /\ pc' = [pc EXCEPT !["detector"] = b] /\ ~Espera("detector")
        /\ UNCHANGED <<ida, vuelta, lectura, codigo, cruces, sem_blocked, estado, lugar,
                       cola_emergencia, caido>>
    BY <1>11, <2>1 DEF DetMirarReady, En, Ir, vSocket, vListas
  <2>3. \/ b = "quitar_ready"
        \/ b = "resolver" /\ cola_emergencia
        \/ b = "recibir" /\ ~cola_emergencia
    BY <2>1, Zenon
  <2>. QED BY <1>4, <2>1, <2>2, <2>3
<1>12. ASSUME NEW l, NEW b, Quitar(l, b), ~Espera("detector"),
             \/ /\ l = "tripulantes_running" /\ pc["detector"] = "quitar_running"
                /\ b = "esperar_trip"
             \/ l = "cola_ready" /\ pc["detector"] = "quitar_ready" /\ b = "mirar_ready"
      PROVE  IInv'
  <2>1. CASE lugar = l
    <3>1. Turnos' /\ PlanLibre BY <1>1, <1>12, <2>1, TurnoQuitar
    <3>2. Pedir("detector", "ACTU_E") /\ pc' = [pc EXCEPT !["detector"] = b] /\ caido' = caido
      BY <1>12, <2>1 DEF Quitar, Ir
    <3>3. pc'["tripulante"] = pc["tripulante"] BY <1>3, <3>2
    <3>. QED BY <1>5, <1>6, <1>12, <3>1, <3>2, <3>3
  <2>2. CASE lugar # l
    <3>1. /\ caido' = "nulo"
          /\ UNCHANGED <<ida, vuelta, lectura, codigo, cruces, pc, lugar, cola_emergencia>>
      BY <1>12, <2>2 DEF Quitar, vSocket
    <3>2. Turnos' BY <1>1, <3>1, TurnoCaida
    <3>3. cruces = {} => TareasPropias' BY <1>1, <3>1, PropiasIgual
    <3>. QED BY <1>1, <3>1, <3>2, <3>3, SinMensaje
  <2>. QED BY <2>1, <2>2
<1>13. CASE DetQuitarRunning
  <2>1. PICK l, b : l = "tripulantes_running" /\ b = "esperar_trip" OBVIOUS
  <2>2. pc["detector"] = "quitar_running" /\ ~Espera("detector") /\ Quitar(l, b)
    BY <1>13, <2>1 DEF DetQuitarRunning, En
  <2>. QED BY <1>12, <2>1, <2>2
<1>14. CASE DetEsperarTrip
  <2>1. Turnos' BY <1>1, <1>14, TurnoRespondio
  <2>2. /\ pc' = [pc EXCEPT !["detector"] = "mirar_running"]
        /\ UNCHANGED <<ida, vuelta, lectura, codigo, cruces, caido>>
    BY <1>14 DEF DetEsperarTrip, Ir, vSocket
  <2>3. pc'["tripulante"] = pc["tripulante"] BY <1>3, <2>2
  <2>4. cruces = {} => TareasPropias' BY <1>1, <2>2, <2>3, PropiasIgual
  <2>. QED BY <1>1, <2>1, <2>2, <2>4, SinMensaje
<1>15. CASE DetQuitarReady
  <2>1. PICK l, b : l = "cola_ready" /\ b = "mirar_ready" OBVIOUS
  <2>2. pc["detector"] = "quitar_ready" /\ ~Espera("detector") /\ Quitar(l, b)
    BY <1>15, <2>1 DEF DetQuitarReady, En
  <2>. QED BY <1>12, <2>1, <2>2
<1>16. CASE DetResolver
  <2>1. Turnos' /\ PlanLibre BY <1>1, <1>16, TurnoResolver
  <2>2. pc["detector"] = "resolver" /\ ~Espera("detector") /\ caido' = caido
    BY <1>16 DEF DetResolver, En
  <2>3. CASE pasos > 0
    <3>1. Pedir("detector", "ACTU_P") /\ pc' = pc BY <1>16, <2>3 DEF DetResolver
    <3>. QED BY <1>5, <1>6, <2>1, <2>2, <3>1
  <2>4. CASE ~(pasos > 0)
    <3>1. Pedir("detector", "ACTU_E") /\ pc' = [pc EXCEPT !["detector"] = "encolar_ready"]
      BY <1>16, <2>4 DEF DetResolver, Ir
    <3>2. pc'["tripulante"] = pc["tripulante"] BY <1>3, <3>1
    <3>. QED BY <1>5, <1>6, <2>1, <2>2, <3>1, <3>2
  <2>. QED BY <2>3, <2>4
<1>17. CASE DetEncolarReady
  <2>1. Turnos' BY <1>1, <1>17, TurnoDevolver
  <2>2. /\ pc' = [pc EXCEPT !["detector"] = "terminar"]
        /\ UNCHANGED <<ida, vuelta, lectura, codigo, cruces, caido>>
    BY <1>17 DEF DetEncolarReady, Ir, vSocket
  <2>3. pc'["tripulante"] = pc["tripulante"] BY <1>3, <2>2
  <2>4. cruces = {} => TareasPropias' BY <1>1, <2>2, <2>3, PropiasIgual
  <2>. QED BY <1>1, <2>1, <2>2, <2>4, SinMensaje
<1>18. CASE DetTerminar
  <2>1. PICK a, b : a = "terminar" /\ b = "recibir" OBVIOUS
  <2>2. /\ pc["detector"] = a /\ pc' = [pc EXCEPT !["detector"] = b] /\ ~Espera("detector")
        /\ UNCHANGED <<ida, vuelta, lectura, codigo, cruces, sem_blocked, estado, lugar,
                       cola_emergencia, caido>>
    BY <1>18, <2>1 DEF DetTerminar, En, Ir, vSocket, vListas
  <2>. QED BY <1>4, <2>1, <2>2
<1>. QED BY <1>7, <1>14, <1>15, <1>16, <1>18, <1>8, <1>9, <1>10, <1>11, <1>13, <1>17
         DEF detector_sabotaje

\* The console.
LEMMA ConsolaPaso ==
  ASSUME IInv, caido = "no", leer_consola
  PROVE  IInv'
<1>1. Turnos' /\ caido' \in {"no", "nulo"} /\ (sobran => sobran')
  BY TurnoConsola DEF IInv
<1>2. UNCHANGED <<ida, vuelta, lectura, codigo, ip, cruces, pc, hechas>>
  BY DEF leer_consola, vSocket
<1>3. cruces = {} => TareasPropias' BY <1>2, PropiasIgual DEF IInv
<1>. QED BY <1>1, <1>2, <1>3, SinMensaje

\* A recv.
LEMMA RecvPaso ==
  ASSUME IInv, caido = "no", NEW h \in Hilos, recv(h)
  PROVE  IInv'
<1>1. /\ Cable /\ Turnos /\ TipoSocket /\ Anotados /\ (cruces = {} => TareasPropias)
      /\ lectura \in [Hilos -> Restos]
  BY DEF IInv, TipoSocket
<1>2. /\ UNCHANGED <<ida, ip, pc, hechas, sem_running, sem_blocked, estado, lugar,
                     cola_emergencia, cruces, sobran>>
      /\ caido' \in {"no", "desfase"}
  BY DEF recv, vTrip, vListas, vPausa
<1>3. /\ TipoSocket' /\ h \in Esperan /\ vuelta # << >> /\ Esperan' \subseteq Esperan
      /\ \/ caido' = "desfase" /\ \E g \in Leyendo : g # h
         \/ caido' = caido /\ Cable' /\ \E resto : Leido(h, resto)
  BY <1>1, RecvBien
<1>4. Turnos'
  <2>1. \A g \in Hilos : Espera(g)' => Espera(g) BY <1>3 DEF Esperan
  <2>. QED BY <1>1, <1>2, <2>1, TurnoSocket
<1>5. Anotados'
  <2>1. ASSUME caido' = "desfase" PROVE cruces # {}
    <3>1. PICK g \in Leyendo : g # h BY <1>3, <2>1
    <3>2. g \in Esperan BY DEF Leyendo
    <3>3. {g, h} \in cruces BY <1>1, <1>3, <3>1, <3>2 DEF Anotados
    <3>. QED BY <3>3
  <2>. QED BY <1>1, <1>2, <1>3, <2>1, AnotadosLeer
<1>6. ASSUME cruces = {} PROVE TareasPropias'
  <2>1. caido' # "desfase" BY <1>2, <1>5, <1>6 DEF Anotados
  <2>2. PICK resto : Leido(h, resto) BY <1>3, <2>1
  <2>. QED BY <1>1, <1>2, <1>3, <1>6, <2>2, PropiasLeer
<1>. QED BY <1>2, <1>3, <1>4, <1>5, <1>6 DEF IInv

\* An answer of the RAM.
LEMMA RutinaPaso ==
  ASSUME IInv, caido = "no", rutina_hilos
  PROVE  IInv'
<1>1. Cable /\ Turnos /\ Anotados /\ (cruces = {} => TareasPropias) BY DEF IInv
<1>2. UNCHANGED <<pc, hechas, sem_running, sem_blocked, estado, lugar, cola_emergencia, cruces,
                  caido, sobran>>
  BY DEF rutina_hilos, vTrip, vListas, vPausa
<1>3. Cable' /\ Esperan' = Esperan /\ lectura' = lectura BY <1>1, RutinaBien
<1>4. Turnos'
  <2>1. \A g \in Hilos : Espera(g)' => Espera(g) BY <1>3 DEF Espera
  <2>. QED BY <1>1, <1>2, <2>1, TurnoSocket
<1>5. Anotados' BY <1>1, <1>2, <1>3, AnotadosLeer
<1>6. cruces = {} => TareasPropias' BY <1>1, <1>2, PropiasResponder
<1>. QED BY <1>2, <1>3, <1>4, <1>5, <1>6 DEF IInv, Cable

\* Every step keeps the invariant.
LEMMA IInvPaso == IInv /\ [Next]_vars => IInv'
<1>1. SUFFICES ASSUME IInv, [Next]_vars PROVE IInv' OBVIOUS
<1>2. CASE UNCHANGED vars
  <2>1. UNCHANGED <<ida, vuelta, lectura, codigo, ip, cruces, pc, hechas, sem_running, sem_blocked,
                    estado, lugar, cola_emergencia, caido, sobran>>
    BY <1>2 DEF vars, vSocket, vTrip, vListas, vPausa
  <2>. QED BY <1>1, <2>1 DEF IInv, Cable, TipoSocket, Formato, Contadas, Seguidos, Sigue, Turnos,
       TipoHilos, Preguntan, UnLugar, UnDuenio, Entrando, EnReady, Despachado, EnRunning, EnEmergencia,
       Devuelto, Terminado, Quieto, ConCupo, DetTiene, PlanLibre, TripTiene, Anotados, TareasPropias, Acorde,
       SinPedidos, Esperan, Leyendo, EnViaje, Espera
<1>3. CASE Next
  <2>1. caido = "no" BY <1>3 DEF Next
  <2>. QED BY <1>1, <1>3, <2>1, RecvPaso, RutinaPaso, TripPaso, PlanPaso, DetPaso, ConsolaPaso DEF Next
<1>. QED BY <1>1, <1>2, <1>3

\* The invariant above holds in every state: the trip in one list or in the hands of one thread,
\* at rest outside running until a resume gives it a spare unit, the pairs that crossed, and
\* the order of the answers until one is read for another.
THEOREM InvarianteDelSocket == Spec => []IInv
<1>1. Init => IInv BY IInvInicio
<1>2. IInv /\ [Next]_vars => IInv' BY IInvPaso
<1>. QED BY <1>1, <1>2, PTL DEF Spec

\* As many answers are on their way as threads await one, and what follows on the wire is the
\* rest of the answer that is half read: crossed answers change hands, and none is left for
\* a later request.
THEOREM RespuestasCorrespondidas == Spec => []RespuestasContadas
<1>1. IInv => RespuestasContadas
  <2>1. SUFFICES ASSUME IInv, caido # "desfase" PROVE
          /\ Contadas
          /\ \A h \in Leyendo : \A i \in DOMAIN lectura[h] :
               i <= Len(vuelta) /\ vuelta[i].campo = lectura[h][i]
    BY DEF RespuestasContadas, Contadas
  <2>2. Cable BY <2>1 DEF IInv
  <2>3. SUFFICES ASSUME NEW h \in Leyendo, NEW i \in DOMAIN lectura[h]
                 PROVE  i <= Len(vuelta) /\ vuelta[i].campo = lectura[h][i]
    BY <2>2 DEF Cable
  <2>4. h \in Hilos BY DEF Leyendo, Esperan
  <2>5. lectura[h] \in {<<"largo", "texto">>, <<"texto">>} BY <2>2, <2>4, LeyendoVale DEF Cable
  <2>6. vuelta # << >> /\ vuelta[1].campo = lectura[h][1] BY <2>2 DEF Cable, Formato
  <2>7. vuelta \in Seq(Campo) BY <2>2 DEF Cable, TipoSocket
  <2>8. Len(vuelta) \in Nat /\ Len(vuelta) >= 1 /\ DOMAIN vuelta = 1 .. Len(vuelta) BY <2>6, <2>7
  <2>9. CASE i = 1 BY <2>6, <2>8, <2>9
  <2>10. CASE i # 1
    <3>1. PICK l : l = lectura[h] OBVIOUS
    <3>2. DOMAIN <<"texto">> = 1 .. 1 OBVIOUS
    <3>3. l = <<"largo", "texto">> BY <2>5, <2>10, <3>1, <3>2
    <3>4. i = 2 /\ l[1] = "largo" /\ l[2] = "texto"
      <4>1. DOMAIN l = 1 .. 2 BY <3>3
      <4>. QED BY <2>10, <3>1, <3>3, <4>1
    <3>5. vuelta[1].campo = "largo" BY <2>6, <3>1, <3>4
    <3>6. Sigue(vuelta[1]) = "texto" BY <3>5 DEF Sigue
    <3>7. 1 \in DOMAIN vuelta BY <2>8
    <3>8. /\ 1 < Len(vuelta) => vuelta[1 + 1].campo = Sigue(vuelta[1])
          /\ 1 = Len(vuelta) => Sigue(vuelta[1]) = "codigo"
      BY <2>2, <3>7 DEF Cable, Formato, Seguidos
    <3>9. 1 < Len(vuelta) BY <2>8, <3>6, <3>8
    <3>. QED BY <2>8, <3>1, <3>4, <3>6, <3>8, <3>9
  <2>. QED BY <2>9, <2>10
<1>. QED BY <1>1, InvarianteDelSocket, PTL

\* A trip ends with tasks left, and an answer is read out of step, only after two threads
\* awaited answers at once; these are the trip and the detector or, after a resume gave the
\* trip a unit that it was not waiting for, the trip and the planner.
THEOREM CrucesExplicados == Spec => []CruceExplicado
<1>1. IInv => CruceExplicado
  <2>1. SUFFICES ASSUME IInv PROVE CruceExplicado OBVIOUS
  <2>2. Anotados BY <2>1 DEF IInv
  <2>3. ASSUME cruces = {}, pc["tripulante"] \in {"no_task", "fin"} PROVE ~(hechas < CantTareas)
    <3>1. hechas = CantTareas BY <2>1, <2>3 DEF IInv, TareasPropias
    <3>. QED BY <3>1, CantidadesValidas
  <2>4. {"planificador", "detector"} \notin {{"tripulante", "detector"}, {"tripulante", "planificador"}}
    OBVIOUS
  <2>. QED BY <2>2, <2>3, <2>4 DEF CruceExplicado, Anotados
<1>. QED BY <1>1, InvarianteDelSocket, PTL
=============================================================================
