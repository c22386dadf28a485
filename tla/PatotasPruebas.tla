--------------------------- MODULE PatotasPruebas ---------------------------
(***************************************************************************)
(* Proofs about Patotas, for any number of trips, of positions, of patotas *)
(* asked for, of signals, of orders and of sessions: how far the three     *)
(* numberings agree, and whose lines are in whose logbook.                 *)
(*                                                                         *)
(* The two properties speak of the console between two orders.  IInv says  *)
(* what each step of an order has already counted (Cuentas), where the     *)
(* last numbers given by the discordiador and by the store are (Recientes),*)
(* what the two lists say of a trip (Socket), who is going to a sabotage   *)
(* (Resolutor), and who has written in each file (Lineas).                 *)
(***************************************************************************)
EXTENDS Patotas, TLAPS

Pares == Nat \X Nat
Trip == [id : Pares, mongo : Nat, previas : Nat]
TripMongo == [id : Ids, dir : Ids]

\* The type of each variable that the properties speak of.
Tipos ==
  /\ consola \in {"leer", "INIT_P", "iniciar_tripulante", "INIT_T", "BITA_D", "join",
                  "tripulantes_ready"}
  /\ ram_ok \in BOOLEAN /\ cantidad \in 0 .. MaxTripulantes /\ iterador \in Nat
  /\ id_patota_actual \in Nat /\ lista_tripulantes \in SUBSET Trip
  /\ patota_actual \in Nat /\ nro_tripulante \in Nat
  /\ id_patota_global \in Nat /\ id_trip_global \in Nat
  /\ lista_mongo \in Seq(TripMongo)
  /\ archivos \in [Ids -> SUBSET (Nat \X Pares)]
  /\ sesion \in Nat /\ pedidas \in 0 .. MaxPatotas /\ rechazadas \in Nat

Numeros == {t.id : t \in lista_tripulantes}
\* an order that makes trips is under way
Creando == consola \in {"iniciar_tripulante", "INIT_T"}
\* the trip is out of the RAM and still in the list
EnExpulsion == consola \in {"join", "tripulantes_ready"}

\* What each of the three has counted, at each step of iniciar_patota.
Cuentas ==
  /\ id_patota_actual = patota_actual + (IF Creando \/ (consola = "INIT_P" /\ ram_ok) THEN 0 ELSE 1)
  /\ id_patota_global + (IF consola = "INIT_P" THEN 1 ELSE 0) = patota_actual + rechazadas
  /\ id_patota_global + (IF consola = "INIT_P" THEN 1 ELSE 0) <= pedidas
  /\ tripulantes_ram = (Numeros \union (IF consola = "INIT_T" THEN {<<iterador, patota_actual>>} ELSE {}))
                         \ (IF EnExpulsion THEN {expulsado} ELSE {})
  /\ consola = "INIT_P" => nro_tripulante = 1 /\ cantidad \in 1 .. MaxTripulantes
  /\ consola = "INIT_P" /\ ram_ok => patota_actual >= 1
  /\ Creando =>
       /\ iterador = id_trip_global /\ iterador >= 1
       /\ nro_tripulante = iterador + (IF consola = "INIT_T" THEN 1 ELSE 0)
       /\ consola = "INIT_T" => iterador <= cantidad
       /\ patota_actual >= 1

\* The numbers of the trips are below the next one to be given.
Recientes ==
  /\ \A t \in lista_tripulantes :
       \/ t.id[2] < id_patota_actual
       \/ Creando /\ t.id[2] = id_patota_actual /\ t.id[1] < iterador
  /\ \A i \in 1 .. Len(lista_mongo) :
       \/ lista_mongo[i].id[2] < id_patota_global
       \/ lista_mongo[i].id[2] = id_patota_global /\ lista_mongo[i].id[1] < id_trip_global

\* A trip of the discordiador, and the one of the store at the other end of its socket.
Socket ==
  /\ \A t \in lista_tripulantes :
       /\ t.mongo \in 1 .. Len(lista_mongo)
       /\ lista_mongo[t.mongo].id = <<t.id[1], t.id[2] + t.previas>>
       /\ t.previas <= rechazadas
  /\ \A t, u \in lista_tripulantes : t.id = u.id \/ t.mongo = u.mongo => t = u
  /\ \A i \in 1 .. Len(lista_mongo) :
       /\ lista_mongo[i].dir = lista_mongo[i].id
       /\ \A j \in 1 .. Len(lista_mongo) : lista_mongo[i].id = lista_mongo[j].id => i = j

\* Before any rejection the store finds the trip that the detector sends.
Resolutor ==
  /\ detector = "fin" => a_store # "SABO_I"
  /\ a_store = "SABO_I" /\ rechazadas = 0 =>
       \E i \in 1 .. Len(lista_mongo) : lista_mongo[i].id = resolvedor
  /\ caido = "sin_tripulante" => rechazadas > 0

\* The lines of this session are in files of trips of this session, and in the
\* file of a trip of before any rejection they are its own.
Lineas ==
  /\ \A d \in Ids : \A l \in archivos[d] :
       /\ l[1] <= sesion
       /\ l[1] = sesion => \E i \in 1 .. Len(lista_mongo) : lista_mongo[i].id = d
  /\ \A t \in lista_tripulantes : t.previas = 0 =>
       \A l \in archivos[t.id] : l[1] = sesion => l = <<sesion, t.id>>

IInv == Tipos /\ Cuentas /\ Recientes /\ Socket /\ Resolutor /\ Lineas

-----------------------------------------------------------------------------
\* The bounds are positive numbers.
LEMMA Cotas == MaxTripulantes \in Nat /\ MaxTripulantes >= 1 /\ MaxPatotas \in Nat /\ MaxPatotas >= 1
<1>1. \A n \in {MaxTripulantes, MaxPatotas, MaxSesiones} : n \in Nat \ {0}
  BY CantidadesValidas
<1> QED BY <1>1

\* The numbers of the trips are numbers.
LEMMA DatosTrip ==
  ASSUME Tipos
  PROVE  /\ \A t \in lista_tripulantes :
              /\ t = [id |-> t.id, mongo |-> t.mongo, previas |-> t.previas]
              /\ t.id = <<t.id[1], t.id[2]>>
              /\ t.id[1] \in Nat /\ t.id[2] \in Nat /\ t.mongo \in Nat /\ t.previas \in Nat
         /\ \A i \in 1 .. Len(lista_mongo) :
              /\ lista_mongo[i].id \in Ids /\ lista_mongo[i].dir \in Ids
              /\ lista_mongo[i].id = <<lista_mongo[i].id[1], lista_mongo[i].id[2]>>
              /\ lista_mongo[i].id[1] \in Nat /\ lista_mongo[i].id[2] \in Nat
<1>1. ASSUME NEW t \in lista_tripulantes
      PROVE  /\ t = [id |-> t.id, mongo |-> t.mongo, previas |-> t.previas]
             /\ t.id \in Nat \X Nat /\ t.mongo \in Nat /\ t.previas \in Nat
  BY <1>1 DEF Tipos, Trip, Pares
<1>2. ASSUME NEW i \in 1 .. Len(lista_mongo)
      PROVE  lista_mongo[i].id \in Ids /\ lista_mongo[i].dir \in Ids
  <2>1. lista_mongo[i] \in TripMongo
    BY <1>2 DEF Tipos
  <2> QED BY <2>1 DEF TripMongo
<1>3. \A d \in Ids : d = <<d[1], d[2]>> /\ d[1] \in Nat /\ d[2] \in Nat
  BY DEF Ids
<1> QED BY <1>1, <1>2, <1>3

\* A trip of before any rejection and the one of the store at the other end of
\* its socket have the same numbers.
LEMMA SinRechazos ==
  ASSUME IInv, NEW t \in lista_tripulantes
  PROVE  /\ t.mongo \in 1 .. Len(lista_mongo) /\ t.id \in Pares
         /\ t.previas = 0 => lista_mongo[t.mongo].id = t.id
<1>1. /\ t.mongo \in 1 .. Len(lista_mongo)
      /\ lista_mongo[t.mongo].id = <<t.id[1], t.id[2] + t.previas>>
  BY DEF IInv, Socket
<1>2. t \in Trip
  BY DEF IInv, Tipos
<1>3. t.id \in Nat \X Nat
  BY <1>2 DEF Trip, Pares
<1>4. t.id = <<t.id[1], t.id[2]>> /\ t.id[2] \in Nat
  BY <1>3
<1>5. t.previas = 0 => t.id[2] + t.previas = t.id[2]
  BY <1>4
<1>6. t.previas = 0 => lista_mongo[t.mongo].id = t.id
  BY <1>1, <1>4, <1>5
<1> QED BY <1>1, <1>3, <1>6 DEF Pares

\* The invariant holds when the system starts.
LEMMA Inicial == ASSUME Init PROVE IInv
<1>1. Tipos
  <2>1. archivos \in [Ids -> SUBSET (Nat \X Pares)] /\ ram_ok \in BOOLEAN
    BY DEF Init
  <2> QED BY <2>1, Cotas DEF Init, Tipos
<1>2. Cuentas
  BY DEF Init, Cuentas, Creando, EnExpulsion, Numeros
<1>3. Recientes /\ Socket
  BY DEF Init, Recientes, Socket
<1>4. Resolutor /\ Lineas
  BY DEF Init, Resolutor, Lineas
<1> QED BY <1>1, <1>2, <1>3, <1>4 DEF IInv

\* IniciarPatota: the RAM answers.
LEMMA PasoIniciarPatota == ASSUME IInv, IniciarPatota PROVE IInv'
<1> USE DEF IniciarPatota, InitPEnRam, vOrdenes, vDetector, vMongo, vSenial, vSocket
<1>1. Tipos'
  BY Cotas DEF IInv, Tipos
<1>2. Cuentas'
  BY DEF IInv, Tipos, Cuentas, Creando, EnExpulsion, Numeros
<1>3. Recientes' /\ Lineas'
  BY DEF IInv, Tipos, Recientes, Creando, Lineas
<1>4. Socket'
  BY DEF IInv, Tipos, Socket, Trip
<1>5. Resolutor'
  BY DEF IInv, Tipos, Resolutor
<1> QED BY <1>1, <1>2, <1>3, <1>4, <1>5 DEF IInv

\* InitPEnMongo: the store counts the patota, rejected or not.
LEMMA PasoInitPEnMongo == ASSUME IInv, InitPEnMongo PROVE IInv'
<1> USE DEF InitPEnMongo, Atiende, Prompt, vOrdenes, vDetector, vRam, vSenial, vSocket, vAux
<1>1. Tipos'
  <2>1. ram_ok' \in BOOLEAN
    BY Zenon DEF IInv, Tipos
  <2>2. CASE ram_ok
    BY <2>1, <2>2, Cotas DEF IInv, Tipos
  <2>3. CASE ~ram_ok
    BY <2>1, <2>3, Cotas DEF IInv, Tipos
  <2> QED BY <2>2, <2>3
<1>2. Cuentas'
  BY DEF IInv, Tipos, Cuentas, Creando, EnExpulsion, Numeros
<1>3. Recientes'
  <2>1. ASSUME NEW t \in lista_tripulantes
        PROVE  t.id[2] < id_patota_actual
    BY <2>1, DatosTrip DEF IInv, Recientes, Creando
  <2>2. ASSUME NEW i \in 1 .. Len(lista_mongo)
        PROVE  lista_mongo[i].id[2] < id_patota_global + 1
    <3>1. lista_mongo[i].id[2] \in Nat /\ id_patota_global \in Nat
      BY <2>2, DatosTrip DEF IInv, Tipos
    <3> QED BY <2>2, <3>1 DEF IInv, Recientes
  <2> QED BY <2>1, <2>2 DEF Recientes
<1>4. Socket' /\ Lineas' /\ Resolutor'
  BY DEF IInv, Tipos, Socket, Lineas, Resolutor
<1> QED BY <1>1, <1>2, <1>3, <1>4 DEF IInv

\* InitTEnRam: the RAM takes the next trip, or the order ends.
LEMMA PasoInitTEnRam == ASSUME IInv, InitTEnRam PROVE IInv'
<1> USE DEF InitTEnRam, Prompt, vOrdenes, vDetector, vMongo, vSenial, vSocket, vAux
<1>1. Tipos'
  <2>1. ram_ok' \in BOOLEAN
    BY Zenon DEF IInv, Tipos
  <2>2. CASE iterador <= cantidad
    BY <2>1, <2>2, Cotas DEF IInv, Tipos
  <2>3. CASE ~(iterador <= cantidad)
    BY <2>1, <2>3, Cotas DEF IInv, Tipos
  <2> QED BY <2>2, <2>3
<1>2. Cuentas'
  BY DEF IInv, Tipos, Cuentas, Creando, EnExpulsion, Numeros
<1>3. Recientes'
  BY DatosTrip DEF IInv, Tipos, Cuentas, Recientes, Creando
<1>4. Socket' /\ Lineas' /\ Resolutor'
  BY DEF IInv, Tipos, Socket, Lineas, Resolutor
<1> QED BY <1>1, <1>2, <1>3, <1>4 DEF IInv

\* InitTEnMongo: both lists grow by the same trip, whose numbers are new to them.
LEMMA PasoInitTEnMongo == ASSUME IInv, InitTEnMongo PROVE IInv'
<1> DEFINE id == <<id_trip_global, id_patota_global>>
<1> DEFINE deMongo == [id |-> id, dir |-> id]
<1> DEFINE nuevo == [id |-> <<iterador, id_patota_actual>>, mongo |-> Len(lista_mongo) + 1,
                     previas |-> rechazadas]
<1> DEFINE n == Len(lista_mongo)
<1>1. /\ consola = "INIT_T" /\ consola' = "iniciar_tripulante"
      /\ lista_mongo' = Append(lista_mongo, deMongo)
      /\ id_trip_global' = id_trip_global + 1 /\ iterador' = iterador + 1
      /\ UNCHANGED <<ram_ok, cantidad, id_patota_actual, vRam, id_patota_global, vSocket,
                     archivos, vAux, detector, resolvedor>>
  BY DEF InitTEnMongo, Atiende, crear_bitacora, vDetector
<1>2. n \in Nat /\ lista_mongo \in Seq(TripMongo)
  BY DEF IInv, Tipos
<1>3. id_trip_global \in 1 .. MaxTripulantes /\ id_patota_global \in 1 .. MaxPatotas
  BY <1>1, Cotas DEF IInv, Tipos, Cuentas, Creando
<1>4. id \in Ids /\ deMongo \in TripMongo
  BY <1>3 DEF Ids, TripMongo
<1>5. /\ lista_mongo' \in Seq(TripMongo) /\ Len(lista_mongo') = n + 1
      /\ lista_mongo'[n + 1] = deMongo
      /\ \A i \in 1 .. n : lista_mongo'[i] = lista_mongo[i]
  BY <1>1, <1>2, <1>4
<1>6. lista_tripulantes' = lista_tripulantes \union {nuevo}
  <2>1. lista_tripulantes' = lista_tripulantes \union
          {[id |-> <<iterador, id_patota_actual>>, mongo |-> Len(lista_mongo'),
            previas |-> rechazadas]}
    BY DEF InitTEnMongo
  <2> QED BY <2>1, <1>5
<1>7. nuevo \in Trip /\ nuevo \in lista_tripulantes'
  BY <1>2, <1>6 DEF IInv, Tipos, Trip, Pares
<1>8. /\ iterador = id_trip_global /\ iterador \in Nat /\ id_patota_actual = patota_actual
      /\ id_patota_global = id_patota_actual + rechazadas
      /\ id_patota_actual \in Nat /\ rechazadas \in Nat /\ id_patota_global \in Nat
  BY <1>1 DEF IInv, Tipos, Cuentas, Creando
<1> HIDE DEF deMongo, nuevo, n
<1>9. /\ deMongo.id = id /\ deMongo.dir = id
      /\ nuevo.id = <<iterador, id_patota_actual>> /\ nuevo.mongo = n + 1
      /\ nuevo.previas = rechazadas
  BY DEF deMongo, nuevo, n
<1>10. \A t \in lista_tripulantes : t.id # nuevo.id /\ t.mongo # n + 1
  BY <1>1, <1>2, <1>8, <1>9, DatosTrip DEF IInv, Recientes, Socket, n
<1>11. \A i \in 1 .. n : lista_mongo[i].id # id
  BY <1>1, <1>8, DatosTrip DEF IInv, Recientes, n
<1>12. Tipos'
  BY <1>1, <1>5, <1>6, <1>7 DEF IInv, Tipos, vRam, vAux
<1>13. Cuentas'
  <2>1. Numeros' = Numeros \union {<<iterador, patota_actual>>}
    BY <1>6, <1>8, <1>9 DEF Numeros
  <2>2. ~EnExpulsion /\ ~EnExpulsion'
    BY <1>1 DEF EnExpulsion
  <2> QED BY <1>1, <2>1, <2>2 DEF IInv, Tipos, Cuentas, Creando, vRam, vAux
<1>14. Recientes'
  <2>1. ASSUME NEW t \in lista_tripulantes'
        PROVE  \/ t.id[2] < id_patota_actual
               \/ t.id[2] = id_patota_actual /\ t.id[1] < iterador + 1
    BY <2>1, <1>1, <1>6, <1>8, <1>9, DatosTrip DEF IInv, Recientes
  <2>2. ASSUME NEW i \in 1 .. n + 1
        PROVE  \/ lista_mongo'[i].id[2] < id_patota_global
               \/ lista_mongo'[i].id[2] = id_patota_global /\ lista_mongo'[i].id[1] < id_trip_global + 1
    <3>1. CASE i = n + 1
      BY <3>1, <1>3, <1>5, <1>9
    <3>2. CASE i \in 1 .. n
      BY <3>2, <1>3, <1>5, DatosTrip DEF IInv, Recientes, n
    <3> QED BY <2>2, <3>1, <3>2, <1>2 DEF n
  <2> QED BY <2>1, <2>2, <1>1, <1>5 DEF Recientes, Creando
<1>15. Socket'
  <2>1. ASSUME NEW t \in lista_tripulantes'
        PROVE  /\ t.mongo \in 1 .. n + 1 /\ t.previas <= rechazadas
               /\ lista_mongo'[t.mongo].id = <<t.id[1], t.id[2] + t.previas>>
    <3>1. CASE t \in lista_tripulantes
      BY <3>1, <1>2, <1>5 DEF IInv, Socket, n
    <3>2. CASE t = nuevo
      BY <3>2, <1>2, <1>5, <1>8, <1>9 DEF n
    <3> QED BY <2>1, <3>1, <3>2, <1>6
  <2>2. \A t, u \in lista_tripulantes' : t.id = u.id \/ t.mongo = u.mongo => t = u
    BY <1>6, <1>9, <1>10 DEF IInv, Socket
  <2>3. ASSUME NEW i \in 1 .. n + 1
        PROVE  /\ lista_mongo'[i].dir = lista_mongo'[i].id
               /\ \A j \in 1 .. n + 1 : lista_mongo'[i].id = lista_mongo'[j].id => i = j
    <3>1. \A j \in 1 .. n + 1 : j = n + 1 \/ j \in 1 .. n
      BY <1>2 DEF n
    <3> QED BY <2>3, <3>1, <1>5, <1>9, <1>11 DEF IInv, Socket, n
  <2> QED BY <2>1, <2>2, <2>3, <1>1, <1>5 DEF Socket, vAux
<1>16. Resolutor'
  BY <1>1, <1>2, <1>5 DEF IInv, Resolutor, vSocket, vAux, n
<1>17. Lineas'
  <2>1. ASSUME NEW d \in Ids, NEW l \in archivos[d], l[1] = sesion
        PROVE  \E i \in 1 .. n + 1 : lista_mongo'[i].id = d
    BY <2>1, <1>2, <1>5 DEF IInv, Lineas, n
  <2>2. ASSUME NEW t \in lista_tripulantes', t.previas = 0,
               NEW l \in archivos[t.id], l[1] = sesion
        PROVE  l = <<sesion, t.id>>
    <3>1. CASE t \in lista_tripulantes
      BY <2>2, <3>1 DEF IInv, Lineas
    <3>2. CASE t = nuevo
      BY <2>2, <3>2, <1>4, <1>8, <1>9, <1>11 DEF IInv, Lineas, n
    <3> QED BY <2>2, <3>1, <3>2, <1>6
  <2> QED BY <2>1, <2>2, <1>1, <1>5 DEF IInv, Lineas, vAux
<1> QED BY <1>12, <1>13, <1>14, <1>15, <1>16, <1>17 DEF IInv

\* Orders and signals that none of the counts depends on.
LEMMA PasosAjenos ==
  ASSUME IInv, PedirBitacora \/ MostrarBitacora \/ PausarOReanudar \/ AnunciarSabotaje
  PROVE  IInv'
<1> USE DEF PedirBitacora, MostrarBitacora, PausarOReanudar, AnunciarSabotaje, Atiende,
            vConsola, vOrdenes, vDetector, vRam, vMongo, vSenial, vSocket, vAux
<1>1. /\ \/ consola' = consola
         \/ consola \in {"leer", "BITA_D"} /\ consola' \in {"leer", "BITA_D"}
      /\ UNCHANGED <<ram_ok, cantidad, iterador, id_patota_actual, lista_tripulantes, vRam,
                     vMongo, archivos, sesion, pedidas, rechazadas>>
  <2>1. CASE PedirBitacora
    BY <2>1, Zenon DEF PedirBitacora, vRam, vMongo
  <2>2. CASE MostrarBitacora
    BY <2>2, Zenon DEF MostrarBitacora, Atiende, vRam, vMongo, vAux
  <2>3. CASE PausarOReanudar
    BY <2>3, Zenon DEF PausarOReanudar, vConsola, vAux
  <2>4. CASE AnunciarSabotaje
    BY <2>4 DEF AnunciarSabotaje, vConsola
  <2> QED BY <2>1, <2>2, <2>3, <2>4
<1>2. Tipos'
  BY <1>1 DEF IInv, Tipos
<1>3. Cuentas' /\ Recientes'
  BY <1>1 DEF IInv, Cuentas, Creando, EnExpulsion, Numeros, Recientes
<1>4. Socket' /\ Lineas' /\ Resolutor'
  BY DEF IInv, Socket, Lineas, Resolutor
<1> QED BY <1>2, <1>3, <1>4 DEF IInv

\* expulsar_tripulante: the trip leaves the RAM.
LEMMA PasoExpulsar == ASSUME IInv, expulsar_tripulante PROVE IInv'
<1> USE DEF expulsar_tripulante, vOrdenes, vDetector, vMongo, vSenial, vSocket
<1>1. Tipos' /\ Recientes' /\ Socket' /\ Resolutor' /\ Lineas'
  BY DEF IInv, Tipos, Recientes, Creando, Socket, Resolutor, Lineas
<1>2. Cuentas'
  BY DEF IInv, Cuentas, Creando, EnExpulsion, Numeros, Socket
<1> QED BY <1>1, <1>2 DEF IInv

\* ExpUnir and ExpDescontar: it leaves the list.
LEMMA PasoFinExpulsion == ASSUME IInv, ExpUnir \/ ExpDescontar PROVE IInv'
<1>1. /\ EnExpulsion
      /\ UNCHANGED <<id_patota_actual, vRam, vMongo, vSocket, archivos, vAux, vDetector>>
  BY Zenon DEF ExpUnir, ExpDescontar, EnExpulsion
<1>2. \/ /\ consola' = "tripulantes_ready"
         /\ UNCHANGED <<ram_ok, cantidad, iterador, expulsado, lista_tripulantes>>
      \/ /\ consola' = "leer" /\ ram_ok' = FALSE /\ cantidad' = 0 /\ iterador' = 0
         /\ lista_tripulantes' = {t \in lista_tripulantes : t.id # expulsado}
  BY Zenon DEF ExpUnir, ExpDescontar, QuitarDeLista, Prompt
<1>3. lista_tripulantes' \subseteq lista_tripulantes
  BY <1>2
<1>4. Tipos'
  <2>1. ram_ok' \in BOOLEAN
    BY <1>2, Zenon DEF IInv, Tipos
  <2> QED BY <1>1, <1>2, <1>3, <2>1, Cotas DEF IInv, Tipos, vRam, vMongo, vAux
<1>5. Cuentas'
  BY <1>1, <1>2 DEF IInv, Cuentas, Creando, EnExpulsion, Numeros, vRam, vMongo, vAux
<1>6. Recientes' /\ Socket' /\ Resolutor' /\ Lineas'
  BY <1>1, <1>2, <1>3 DEF IInv, Recientes, Creando, EnExpulsion, Socket, Resolutor, Lineas, vMongo, vAux,
     vSocket, vDetector
<1> QED BY <1>4, <1>5, <1>6 DEF IInv

\* A line that a trip, or the handler for a trip with that number, adds to a file:
\* of the files of trips of before any rejection, only to its own.
LEMMA AnotarLineas ==
  ASSUME IInv, NEW i \in 1 .. Len(lista_mongo), NEW id \in Pares, Anotar(i, id),
         \A t \in lista_tripulantes : t.previas = 0 /\ t.id = lista_mongo[i].id => id = t.id,
         UNCHANGED <<lista_tripulantes, lista_mongo, sesion>>
  PROVE  archivos' \in [Ids -> SUBSET (Nat \X Pares)] /\ Lineas'
<1> DEFINE d == lista_mongo[i].dir
<1>1. d \in Ids /\ d = lista_mongo[i].id
  BY DatosTrip DEF IInv, Socket
<1>2. archivos \in [Ids -> SUBSET (Nat \X Pares)] /\ <<sesion, id>> \in Nat \X Pares
  BY DEF IInv, Tipos
<1>3. archivos' = [archivos EXCEPT ![d] = archivos[d] \union {<<sesion, id>>}]
  BY DEF Anotar
<1>4. archivos' \in [Ids -> SUBSET (Nat \X Pares)]
  BY <1>1, <1>2, <1>3
<1>5. archivos'[d] = archivos[d] \union {<<sesion, id>>} /\ \A e \in Ids \ {d} : archivos'[e] = archivos[e]
  BY <1>1, <1>2, <1>3
<1> HIDE DEF d
<1>6. sesion \in Nat /\ <<sesion, id>>[1] = sesion
  BY DEF IInv, Tipos
<1>7. ASSUME NEW e \in Ids, NEW l \in archivos'[e]
      PROVE  /\ l[1] <= sesion
             /\ l[1] = sesion => \E j \in 1 .. Len(lista_mongo) : lista_mongo[j].id = e
  BY <1>1, <1>5, <1>6, <1>7 DEF IInv, Lineas
<1>8. ASSUME NEW t \in lista_tripulantes, t.previas = 0, NEW l \in archivos'[t.id], l[1] = sesion
      PROVE  l = <<sesion, t.id>>
  <2>1. t.id \in Ids
    <3>1. lista_mongo[t.mongo].id = t.id /\ t.mongo \in 1 .. Len(lista_mongo)
      BY <1>8, SinRechazos
    <3>2. lista_mongo[t.mongo].id \in Ids
      BY <3>1, DatosTrip DEF IInv
    <3> QED BY <3>1, <3>2
  <2> QED BY <2>1, <1>1, <1>5, <1>8 DEF IInv, Lineas
<1> QED BY <1>4, <1>7, <1>8 DEF Lineas

\* rutina_trip: the socket of a trip leads to its own thread of the store.
LEMMA PasoRutinaTrip == ASSUME IInv, rutina_trip PROVE IInv'
<1>1. PICK u \in lista_tripulantes : Anotar(u.mongo, u.id)
  BY DEF rutina_trip
<1>2. /\ UNCHANGED <<vConsola, vRam, vMongo, vDetector, vSocket, vAux>>
      /\ UNCHANGED <<lista_tripulantes, lista_mongo, sesion>>
  BY DEF rutina_trip, vConsola, vMongo, vAux
<1>3. u.mongo \in 1 .. Len(lista_mongo) /\ u.id \in Pares
  BY SinRechazos
<1>4. ASSUME NEW t \in lista_tripulantes, t.previas = 0, t.id = lista_mongo[u.mongo].id
      PROVE  u.id = t.id
  <2>1. lista_mongo[t.mongo].id = t.id /\ t.mongo \in 1 .. Len(lista_mongo)
    BY <1>4, SinRechazos
  <2>2. t.mongo = u.mongo
    BY <2>1, <1>3, <1>4 DEF IInv, Socket
  <2> QED BY <2>2 DEF IInv, Socket
<1>5. archivos' \in [Ids -> SUBSET (Nat \X Pares)] /\ Lineas'
  BY <1>1, <1>2, <1>3, <1>4, AnotarLineas
<1>6. Tipos'
  BY <1>2, <1>5 DEF IInv, Tipos, vConsola, vRam, vMongo, vAux
<1>7. Cuentas' /\ Recientes'
  BY <1>2 DEF IInv, Cuentas, Creando, EnExpulsion, Numeros, Recientes, vConsola, vRam, vMongo, vAux
<1>8. Socket' /\ Resolutor'
  BY <1>2 DEF IInv, Socket, Resolutor, vConsola, vMongo, vDetector, vSocket, vAux
<1> QED BY <1>5, <1>6, <1>7, <1>8 DEF IInv

\* The detector chooses a trip that, before any rejection, the store has.
LEMMA PasoDetector == ASSUME IInv, detector_sabotaje PROVE IInv'
<1>1. UNCHANGED <<vConsola, vRam, vMongo, archivos, vAux>>
  BY DEF detector_sabotaje
<1>2. Tipos'
  BY <1>1 DEF IInv, Tipos, vConsola, vRam, vMongo, vAux
<1>3. Cuentas' /\ Recientes'
  BY <1>1 DEF IInv, Cuentas, Creando, EnExpulsion, Numeros, Recientes, vConsola, vRam, vMongo, vAux
<1>4. Socket' /\ Lineas'
  BY <1>1 DEF IInv, Socket, Lineas, vConsola, vMongo, vAux
<1>5. Resolutor'
  <2>1. CASE DetResolver
    <3>1. PICK t \in lista_tripulantes : resolvedor' = t.id
      BY <2>1 DEF DetResolver
    <3>2. rechazadas = 0 => lista_mongo[t.mongo].id = t.id /\ t.mongo \in 1 .. Len(lista_mongo)
      <4>1. rechazadas = 0 => t.previas = 0
        BY DatosTrip DEF IInv, Tipos, Socket
      <4> QED BY <4>1, SinRechazos
    <3> QED BY <1>1, <2>1, <3>1, <3>2 DEF IInv, Resolutor, DetResolver, vMongo, vAux
  <2>2. CASE DetRecibir \/ DetEsperarReanudacion \/ DetSinTripulantes \/ DetLlegar \/ DetTerminar
    BY <1>1, <2>2 DEF IInv, Resolutor, DetRecibir, DetEsperarReanudacion, DetSinTripulantes,
       AvisarSinTripulantes, DetLlegar, DetTerminar, vSocket, vMongo, vAux
  <2> QED BY <2>1, <2>2 DEF detector_sabotaje
<1> QED BY <1>2, <1>3, <1>4, <1>5 DEF IInv

\* The handler finds the trip, before any rejection, and writes in its file.
LEMMA PasoAnalizador == ASSUME IInv, analizador_sabotajes PROVE IInv'
<1>1. UNCHANGED <<vConsola, vRam, vMongo, vDetector, sesion, pedidas, rechazadas>>
  BY DEF analizador_sabotajes
<1>2. /\ UNCHANGED <<lista_tripulantes, lista_mongo, sesion>>
      /\ DOMAIN lista_mongo = 1 .. Len(lista_mongo)
  BY <1>1 DEF vConsola, vMongo, IInv, Tipos
<1>3. archivos' \in [Ids -> SUBSET (Nat \X Pares)] /\ Lineas'
  <2>1. ASSUME NEW i \in obtener_tripulante(resolvedor), Anotar(i, resolvedor)
        PROVE  archivos' \in [Ids -> SUBSET (Nat \X Pares)] /\ Lineas'
    <3>1. i \in 1 .. Len(lista_mongo) /\ lista_mongo[i].id = resolvedor
      BY <2>1, <1>2 DEF obtener_tripulante
    <3>2. resolvedor \in Pares
      BY <3>1, DatosTrip DEF IInv, Ids, Pares
    <3> QED BY <2>1, <3>1, <3>2, <1>2, AnotarLineas
  <2>2. CASE UNCHANGED archivos
    BY <2>2, <1>2 DEF IInv, Tipos, Lineas
  <2> QED BY <2>1, <2>2 DEF analizador_sabotajes, SabotajeSinResolver, EmpezarSabotaje,
       TerminarSabotaje
<1>4. Tipos'
  BY <1>1, <1>3 DEF IInv, Tipos, vConsola, vRam, vMongo
<1>5. Cuentas' /\ Recientes'
  BY <1>1 DEF IInv, Cuentas, Creando, EnExpulsion, Numeros, Recientes, vConsola, vRam, vMongo
<1>6. Socket'
  BY <1>1 DEF IInv, Socket, vConsola, vMongo
<1>7. Resolutor'
  BY <1>1, <1>2 DEF IInv, Tipos, Resolutor, analizador_sabotajes, SabotajeSinResolver,
     EmpezarSabotaje, TerminarSabotaje, obtener_tripulante, vDetector, vMongo
<1> QED BY <1>3, <1>4, <1>5, <1>6, <1>7 DEF IInv

\* A new session: only the files are left, with lines of earlier sessions.
LEMMA PasoReiniciar == ASSUME IInv, Reiniciar PROVE IInv'
<1> USE DEF Reiniciar, Prompt
<1>1. Tipos'
  <2>1. ram_ok' \in BOOLEAN
    BY Zenon
  <2> QED BY <2>1, Cotas DEF IInv, Tipos
<1>2. Cuentas' /\ Recientes'
  BY Cotas DEF IInv, Tipos, Cuentas, Creando, EnExpulsion, Numeros, Recientes
<1>3. Socket' /\ Resolutor'
  BY DEF IInv, Socket, Resolutor
<1>4. Lineas'
  <2>1. ASSUME NEW d \in Ids, NEW l \in archivos[d]
        PROVE  l[1] <= sesion + 1 /\ l[1] # sesion + 1
    <3>1. l \in Nat \X Pares
      BY <2>1 DEF IInv, Tipos
    <3> QED BY <2>1, <3>1 DEF IInv, Tipos, Lineas
  <2> QED BY <2>1 DEF IInv, Lineas
<1> QED BY <1>1, <1>2, <1>3, <1>4 DEF IInv

\* Every step keeps the invariant.
LEMMA Inductivo == ASSUME IInv, [Next]_vars PROVE IInv'
<1>1. CASE UNCHANGED vars
  <2>1. Tipos' /\ Cuentas' /\ Recientes'
    BY <1>1 DEF vars, vConsola, vRam, vMongo, vAux, IInv, Tipos, Cuentas, Creando, EnExpulsion, Numeros, Recientes
  <2>2. Socket' /\ Resolutor' /\ Lineas'
    BY <1>1 DEF vars, vConsola, vMongo, vDetector, vSocket, vAux, IInv, Socket, Resolutor, Lineas
  <2> QED BY <2>1, <2>2 DEF IInv
<1> QED
  BY <1>1, PasoIniciarPatota, PasoInitPEnMongo, PasoInitTEnRam, PasoInitTEnMongo, PasosAjenos,
     PasoExpulsar, PasoFinExpulsion, PasoRutinaTrip, PasoDetector, PasoAnalizador, PasoReiniciar
     DEF Next, ConsolaSola

\* The inductive invariant holds in every reachable state.
THEOREM Invariante == Spec => []IInv
<1> QED BY Inicial, Inductivo, PTL DEF Spec

\* Between two orders the RAM and the discordiador have the same trips under the
\* same numbers, whatever was rejected or expelled, and until a rejection the store
\* too: iniciar_patota (discordiador.c) and the two servers.
THEOREM NumerosDeAcuerdo == Spec => []NumerosAcordados
<1>1. IInv => NumerosAcordados
  BY DEF IInv, Cuentas, Creando, EnExpulsion, Numeros, Socket, Resolutor, NumerosAcordados
<1> QED BY <1>1, Invariante, PTL

\* A trip of before the first rejection has its logbook to itself, in the file that it
\* writes and in the answer to its number (mongo.c, bitacora.c), in every session.
THEOREM BitacorasPropias == Spec => []BitacoraPropia
<1>1. ASSUME IInv PROVE BitacoraPropia
  <2>1. ASSUME NEW t \in lista_tripulantes, t.previas = 0
        PROVE  DeEstaSesion(archivos[lista_mongo[t.mongo].dir] \union obtener_bitacora(t.id))
                 \subseteq {<<sesion, t.id>>}
    <3>1. /\ lista_mongo[t.mongo].dir = t.id
          /\ \A i \in DOMAIN lista_mongo : lista_mongo[i].id = t.id => lista_mongo[i].dir = t.id
      <4>1. DOMAIN lista_mongo = 1 .. Len(lista_mongo)
        BY <1>1 DEF IInv, Tipos
      <4> QED BY <1>1, <2>1, <4>1, DatosTrip DEF IInv, Socket
    <3>2. obtener_bitacora(t.id) \subseteq archivos[t.id]
      BY <3>1 DEF obtener_bitacora, obtener_tripulante
    <3> QED BY <1>1, <2>1, <3>1, <3>2 DEF IInv, Lineas, DeEstaSesion
  <2> QED BY <2>1 DEF BitacoraPropia
<1> QED BY <1>1, Invariante, PTL
=============================================================================
