------------------------------ MODULE Patotas ------------------------------
(***************************************************************************)
(* The patotas as the three processes count them.  The console of the      *)
(* discordiador starts patotas and expels trips, telling the RAM and the   *)
(* block store; each of the three numbers patotas and trips by itself, and *)
(* the discordiador's numbers are then used to ask the other two for a     *)
(* trip.  The RAM may reject a patota, and the store never does.           *)
(*                                                                         *)
(* The store attends the console and, in the handler of SIGUSR1 that       *)
(* interrupts that loop, the sabotages: while the handler awaits the       *)
(* detector of the discordiador, the console is not attended.  (Linux      *)
(* gives the signal to the main thread, which has it blocked in the        *)
(* handler; one that came then would go to another thread of the store:    *)
(* here they come one at a time.)  The answers of the RAM come at once:    *)
(* its main loop has no other client.                                      *)
(*                                                                         *)
(* The processes may end, all together (the store and the RAM leave when   *)
(* their client does), and start again: the logbooks are files and stay.   *)
(***************************************************************************)
EXTENDS Naturals, Sequences, FiniteSets

CONSTANTS
  MaxTripulantes,   \* trips of the largest patota that is asked for
  Posiciones,       \* length of POSICIONES_SABOTAJE in imongostore.config
  MaxPatotas,       \* bound: patotas asked for
  MaxSeniales,      \* bound: SIGUSR1 received by the store
  MaxOrdenes,       \* bound: pauses and resumes
  MaxSesiones       \* bound: times the system is started

ASSUME CantidadesValidas ==
  /\ {MaxTripulantes, MaxPatotas, MaxSesiones} \subseteq Nat \ {0}
  /\ {Posiciones, MaxSeniales, MaxOrdenes} \subseteq Nat

VARIABLES
  (* discordiador *)
  consola,            \* what the console does, or awaits
  ram_ok, cantidad, iterador,
  expulsado,          \* the trip that is being expelled, or Nadie
  id_patota_actual,
  lista_tripulantes,  \* [id, mongo, previas]: its number, its trip of the store (the
                      \* other end of socket_mongo), and the rejections before it
  continuar_planificacion, hay_sabotaje, sabotaje_pausado,
  detector, resolvedor,
  (* RAM *)
  patota_actual, nro_tripulante,
  tripulantes_ram,
  (* block store *)
  id_patota_global, id_trip_global,
  lista_mongo,        \* lista_tripulantes of the store: nothing leaves it
  contador_sabotajes,
  analizador,         \* where the handler of SIGUSR1 is
  a_detector, a_store,  \* what is on socket_sabotajes
  archivos,           \* logbook files: who wrote in each
  (* auxiliary *)
  sesion, seniales, ordenes,
  pedidas, rechazadas,   \* patotas asked for, and those the RAM rejected
  caido               \* why a process died, or "no"

vConsola == <<consola, ram_ok, cantidad, iterador, expulsado, id_patota_actual, lista_tripulantes>>
vOrdenes == <<continuar_planificacion, ordenes>>
vDetector == <<hay_sabotaje, sabotaje_pausado, detector, resolvedor>>
vRam == <<patota_actual, nro_tripulante, tripulantes_ram>>
vMongo == <<id_patota_global, id_trip_global, lista_mongo>>
vSenial == <<contador_sabotajes, analizador, seniales>>
vSocket == <<a_detector, a_store>>
vAux == <<sesion, pedidas, rechazadas, caido>>
vars == <<vConsola, vOrdenes, vDetector, vRam, vMongo, vSenial, vSocket, archivos, vAux>>

Ids == (1 .. MaxTripulantes) \X (1 .. MaxPatotas)
Nadie == <<0, 0>>

Init ==
  /\ consola = "leer" /\ ram_ok = FALSE /\ cantidad = 0 /\ iterador = 0
  /\ expulsado = Nadie /\ id_patota_actual = 1 /\ lista_tripulantes = {}
  /\ continuar_planificacion = TRUE /\ ordenes = 0
  /\ hay_sabotaje = FALSE /\ sabotaje_pausado = 0
  /\ detector = "recibir" /\ resolvedor = Nadie
  /\ patota_actual = 0 /\ nro_tripulante = 0 /\ tripulantes_ram = {}
  /\ id_patota_global = 0 /\ id_trip_global = 0 /\ lista_mongo = <<>>
  /\ contador_sabotajes = 0 /\ analizador = "libre" /\ seniales = 0
  /\ a_detector = "nada" /\ a_store = "nada"
  /\ archivos = [i \in Ids |-> {}]
  /\ sesion = 1 /\ pedidas = 0 /\ rechazadas = 0
  /\ caido = "no"

-----------------------------------------------------------------------------
(* iniciar_patota *)

\* mutant: a patota that was rejected keeps its number
InitPRechazadaCuenta ==
  \E acepta \in BOOLEAN :
    /\ patota_actual' = patota_actual + 1
    /\ ram_ok' = acepta /\ rechazadas' = rechazadas + (IF acepta THEN 0 ELSE 1)

\* the main loop of the RAM; whether there is memory is SegmentosRam's and Paginas'
InitPEnRam ==
  \E acepta \in BOOLEAN :
    /\ patota_actual' = patota_actual + (IF acepta THEN 1 ELSE 0)
    /\ ram_ok' = acepta /\ rechazadas' = rechazadas + (IF acepta THEN 0 ELSE 1)

\* the console asks the RAM, and then the store whatever the RAM said
IniciarPatota ==
  /\ consola = "leer" /\ pedidas < MaxPatotas
  /\ InitPEnRam /\ nro_tripulante' = 1
  /\ cantidad' \in 1 .. MaxTripulantes /\ pedidas' = pedidas + 1
  /\ consola' = "INIT_P"
  /\ UNCHANGED <<iterador, expulsado, id_patota_actual, lista_tripulantes, vOrdenes, vDetector,
                 tripulantes_ram, vMongo, vSenial, vSocket, archivos, sesion, caido>>

\* back to leer_consola; the locals of the order are gone
Prompt ==
  consola' = "leer" /\ ram_ok' = FALSE /\ cantidad' = 0 /\ iterador' = 0 /\ expulsado' = Nadie

\* the store's main loop: not while the handler of the signal has its thread
Atiende(op) == consola = op /\ analizador = "libre" /\ caido = "no"

InitPEnMongo ==
  /\ Atiende("INIT_P")
  /\ id_patota_global' = id_patota_global + 1 /\ id_trip_global' = 1
  /\ IF ram_ok
     THEN /\ consola' = "iniciar_tripulante" /\ iterador' = 1
          /\ UNCHANGED <<ram_ok, cantidad, expulsado>>
     ELSE Prompt
  /\ UNCHANGED <<id_patota_actual, lista_tripulantes, vOrdenes, vDetector,
                 vRam, lista_mongo, vSenial, vSocket, archivos, vAux>>

\* the body of the loop up to the answer of the RAM, or its end
InitTEnRam ==
  /\ consola = "iniciar_tripulante"
  /\ IF iterador <= cantidad
     THEN /\ tripulantes_ram' = tripulantes_ram \union {<<nro_tripulante, patota_actual>>}
          /\ nro_tripulante' = nro_tripulante + 1
          /\ consola' = "INIT_T"
          /\ UNCHANGED <<id_patota_actual, ram_ok, cantidad, iterador, expulsado>>
     ELSE /\ id_patota_actual' = id_patota_actual + 1
          /\ Prompt /\ UNCHANGED <<tripulantes_ram, nro_tripulante>>
  /\ UNCHANGED <<lista_tripulantes, vOrdenes, vDetector,
                 patota_actual, vMongo, vSenial, vSocket, archivos, vAux>>

\* mutant: the file is named for the trip alone, so patotas share it
crear_bitacoraDelTrip(id) == <<id[1], 1>>

\* the file of a trip; one that exists is opened and kept
crear_bitacora(id) == id

\* the store makes the trip and the console, with both sockets, makes its own
InitTEnMongo ==
  /\ Atiende("INIT_T")
  /\ LET id == <<id_trip_global, id_patota_global>>
     IN /\ lista_mongo' = Append(lista_mongo, [id |-> id, dir |-> crear_bitacora(id)])
        /\ lista_tripulantes' = lista_tripulantes \union
             {[id |-> <<iterador, id_patota_actual>>, mongo |-> Len(lista_mongo'),
               previas |-> rechazadas]}
  /\ id_trip_global' = id_trip_global + 1
  /\ iterador' = iterador + 1 /\ consola' = "iniciar_tripulante"
  /\ UNCHANGED <<ram_ok, cantidad, expulsado, id_patota_actual, vOrdenes, vDetector, vRam,
                 id_patota_global, vSenial, vSocket, archivos, vAux>>

-----------------------------------------------------------------------------
(* The other orders of the console *)

\* ELIM_T.  The console reads the first trip of the list before it looks whether
\* there is one.
expulsar_tripulante ==
  /\ consola = "leer"
  /\ \/ /\ lista_tripulantes = {} /\ caido' = "lista_vacia"
        /\ UNCHANGED <<consola, expulsado, tripulantes_ram>>
     \/ \E t \in lista_tripulantes :
          /\ tripulantes_ram' = tripulantes_ram \ {t.id}
          /\ expulsado' = t.id /\ consola' = "join"
          /\ UNCHANGED caido
  /\ UNCHANGED <<ram_ok, cantidad, iterador, id_patota_actual, lista_tripulantes, vOrdenes,
                 vDetector, patota_actual, nro_tripulante, vMongo, vSenial, vSocket, archivos,
                 sesion, pedidas, rechazadas>>

\* the trip leaves the list, and the order ends
QuitarDeLista ==
  lista_tripulantes' = {t \in lista_tripulantes : t.id # expulsado} /\ Prompt

\* its thread has ended: when it was ready, one unit of tripulantes_ready is awaited
\* first.  Whether either wait ends is the scheduler's, in Expulsiones.
ExpUnir ==
  /\ consola = "join"
  /\ \/ consola' = "tripulantes_ready"
        /\ UNCHANGED <<ram_ok, cantidad, iterador, expulsado, lista_tripulantes>>
     \/ QuitarDeLista
  /\ UNCHANGED <<id_patota_actual, vOrdenes, vDetector, vRam, vMongo, vSenial, vSocket,
                 archivos, vAux>>

ExpDescontar ==
  /\ consola = "tripulantes_ready" /\ QuitarDeLista
  /\ UNCHANGED <<id_patota_actual, vOrdenes, vDetector, vRam, vMongo, vSenial, vSocket,
                 archivos, vAux>>

PedirBitacora ==
  /\ consola = "leer" /\ consola' = "BITA_D"
  /\ UNCHANGED <<ram_ok, cantidad, iterador, expulsado, id_patota_actual, lista_tripulantes, vOrdenes,
                 vDetector, vRam, vMongo, vSenial, vSocket, archivos, sesion, pedidas, rechazadas, caido>>

\* the trip in the store's list, or none (NULL)
obtener_tripulante(id) == {i \in DOMAIN lista_mongo : lista_mongo[i].id = id}

\* the lines of the trip with that number
obtener_bitacora(id) == UNION {archivos[lista_mongo[i].dir] : i \in obtener_tripulante(id)}

\* they are written to the log of the discordiador
MostrarBitacora ==
  /\ Atiende("BITA_D") /\ consola' = "leer"
  /\ UNCHANGED <<ram_ok, cantidad, iterador, expulsado, id_patota_actual, lista_tripulantes, vOrdenes,
                 vDetector, vRam, vMongo, vSenial, vSocket, archivos, vAux>>

\* pausar_planificacion, or iniciar_planificacion once it was started
PausarOReanudar ==
  /\ consola = "leer" /\ ordenes < MaxOrdenes /\ ordenes' = ordenes + 1
  /\ \/ continuar_planificacion' = FALSE /\ UNCHANGED sabotaje_pausado
     \/ /\ continuar_planificacion' = TRUE
        /\ sabotaje_pausado' = sabotaje_pausado + (IF hay_sabotaje THEN 1 ELSE 0)
  /\ UNCHANGED <<vConsola, hay_sabotaje, detector, resolvedor, vRam, vMongo, vSenial, vSocket,
                 archivos, vAux>>

\* a trip whose thread is alive tells its thread of the store what it does
Anotar(i, id) ==
  archivos' = [archivos EXCEPT ![lista_mongo[i].dir] = @ \union {<<sesion, id>>}]

rutina_trip ==
  /\ \E t \in lista_tripulantes :
       ~(consola = "tripulantes_ready" /\ t.id = expulsado) /\ Anotar(t.mongo, t.id)
  /\ UNCHANGED <<vConsola, vOrdenes, vDetector, vRam, vMongo, vSenial, vSocket, vAux>>

-----------------------------------------------------------------------------
(* The sabotages: the store's handler and the detector of the discordiador *)

\* SIGUSR1, while no other is handled.  The list of positions ends in a null.
AnunciarSabotaje ==
  /\ analizador = "libre" /\ seniales < MaxSeniales
  /\ seniales' = seniales + 1
  /\ IF contador_sabotajes < Posiciones
     THEN a_detector' = "SABO_P" /\ analizador' = "inicio" /\ UNCHANGED caido
     ELSE caido' = "sin_posicion" /\ UNCHANGED <<a_detector, analizador>>
  /\ UNCHANGED <<vConsola, vOrdenes, vDetector, vRam, vMongo, contador_sabotajes, a_store,
                 archivos, sesion, pedidas, rechazadas>>

DetRecibir ==
  /\ detector = "recibir" /\ a_detector = "SABO_P"
  /\ a_detector' = "nada" /\ hay_sabotaje' = TRUE
  /\ detector' = IF continuar_planificacion THEN "elegir" ELSE "sabotaje_pausado"
  /\ UNCHANGED <<sabotaje_pausado, resolvedor, a_store>>

DetEsperarReanudacion ==
  /\ detector = "sabotaje_pausado"
  /\ sabotaje_pausado > 0 /\ sabotaje_pausado' = sabotaje_pausado - 1
  /\ detector' = "elegir"
  /\ UNCHANGED <<hay_sabotaje, resolvedor, vSocket>>

\* any trip that is running or ready: the scheduler is in Sabotajes
DetResolver ==
  /\ detector = "elegir"
  /\ \E t \in lista_tripulantes : resolvedor' = t.id
  /\ a_store' = "SABO_I" /\ detector' = "inicio"
  /\ UNCHANGED <<hay_sabotaje, sabotaje_pausado, a_detector>>


AvisarSinTripulantes == a_store' = "NO_SPC"

\* no trip is running or ready.  hay_sabotaje stays up.
DetSinTripulantes ==
  /\ detector = "elegir" /\ AvisarSinTripulantes /\ detector' = "recibir"
  /\ UNCHANGED <<hay_sabotaje, sabotaje_pausado, resolvedor, a_detector>>

\* the walk, once the store knows who comes
DetLlegar ==
  /\ detector = "inicio" /\ a_detector = "TODOOK"
  /\ a_detector' = "nada" /\ a_store' = "SABO_F" /\ detector' = "fin"
  /\ UNCHANGED <<hay_sabotaje, sabotaje_pausado, resolvedor>>

DetTerminar ==
  /\ detector = "fin" /\ a_detector = "TODOOK"
  /\ a_detector' = "nada" /\ hay_sabotaje' = FALSE /\ detector' = "recibir"
  /\ resolvedor' = Nadie
  /\ UNCHANGED <<sabotaje_pausado, a_store>>

detector_sabotaje ==
  /\ DetRecibir \/ DetEsperarReanudacion \/ DetResolver \/ DetSinTripulantes \/ DetLlegar
     \/ DetTerminar
  /\ UNCHANGED <<vConsola, vOrdenes, vRam, vMongo, vSenial, archivos, vAux>>

\* the handler's end when nobody comes: the position is announced again next time
SabotajeSinResolver ==
  /\ analizador = "inicio" /\ a_store = "NO_SPC"
  /\ a_store' = "nada" /\ analizador' = "libre"
  /\ UNCHANGED <<a_detector, contador_sabotajes, archivos, caido>>

\* inicio_sabotaje, in the logbook of the trip with that number here
EmpezarSabotaje ==
  /\ analizador = "inicio" /\ a_store = "SABO_I"
  /\ a_store' = "nada"
  /\ \/ /\ \E i \in obtener_tripulante(resolvedor) : Anotar(i, resolvedor)
        /\ a_detector' = "TODOOK" /\ analizador' = "fin" /\ UNCHANGED caido
     \/ /\ obtener_tripulante(resolvedor) = {} /\ caido' = "sin_tripulante"
        /\ UNCHANGED <<a_detector, analizador, archivos>>
  /\ UNCHANGED contador_sabotajes

TerminarSabotaje ==
  /\ analizador = "fin" /\ a_store = "SABO_F"
  /\ \E i \in obtener_tripulante(resolvedor) : Anotar(i, resolvedor)
  /\ a_store' = "nada" /\ a_detector' = "TODOOK" /\ analizador' = "libre"
  /\ contador_sabotajes' = contador_sabotajes + 1
  /\ UNCHANGED caido

analizador_sabotajes ==
  /\ SabotajeSinResolver \/ EmpezarSabotaje \/ TerminarSabotaje
  /\ UNCHANGED <<vConsola, vOrdenes, vDetector, vRam, vMongo, seniales, sesion, pedidas,
                 rechazadas>>

-----------------------------------------------------------------------------
\* exit, or the end of the processes at any other moment, and a new start
Reiniciar ==
  /\ sesion < MaxSesiones /\ sesion' = sesion + 1
  /\ Prompt
  /\ id_patota_actual' = 1 /\ lista_tripulantes' = {}
  /\ continuar_planificacion' = TRUE
  /\ hay_sabotaje' = FALSE /\ sabotaje_pausado' = 0
  /\ detector' = "recibir" /\ resolvedor' = Nadie
  /\ patota_actual' = 0 /\ nro_tripulante' = 0 /\ tripulantes_ram' = {}
  /\ id_patota_global' = 0 /\ id_trip_global' = 0 /\ lista_mongo' = <<>>
  /\ contador_sabotajes' = 0 /\ analizador' = "libre"
  /\ a_detector' = "nada" /\ a_store' = "nada"
  /\ rechazadas' = 0
  /\ caido' = "no"
  /\ UNCHANGED <<archivos, ordenes, seniales, pedidas>>

\* what the console does by itself once the store answers
ConsolaSola == InitPEnMongo \/ InitTEnRam \/ InitTEnMongo \/ MostrarBitacora

Next ==
  \/ /\ caido = "no"
     /\ \/ IniciarPatota \/ expulsar_tripulante \/ PedirBitacora \/ PausarOReanudar
        \/ ExpUnir \/ ExpDescontar
        \/ ConsolaSola
        \/ rutina_trip
        \/ AnunciarSabotaje \/ detector_sabotaje \/ analizador_sabotajes
  \/ Reiniciar

\* every process is scheduled; nothing is asked of the operator, of the trips (nor
\* so of the two waits of an expulsion) or of who sends the signals
Justicia ==
  /\ WF_vars(caido = "no" /\ ConsolaSola)
  /\ WF_vars(caido = "no" /\ detector_sabotaje)
  /\ WF_vars(caido = "no" /\ analizador_sabotajes)

Spec == Init /\ [][Next]_vars /\ Justicia

-----------------------------------------------------------------------------
(* Properties *)

\* Between two orders the RAM and the discordiador have the same trips under the
\* same numbers, whatever was rejected or expelled.  The store's patotas run ahead
\* by the ones that were rejected: while there is none, a trip's socket leads to
\* the store's trip of its number, and the detector's trip is always found there.
NumerosAcordados ==
  /\ consola \in {"leer", "BITA_D"} =>
       /\ id_patota_actual = patota_actual + 1
       /\ tripulantes_ram = {t.id : t \in lista_tripulantes}
  /\ \A t, u \in lista_tripulantes : t.id = u.id \/ t.mongo = u.mongo => t = u
  /\ \A t \in lista_tripulantes :
       lista_mongo[t.mongo].id = <<t.id[1], t.id[2] + t.previas>>
  /\ caido = "sin_tripulante" => rechazadas > 0

DeEstaSesion(lineas) == {l \in lineas : l[1] = sesion}

\* A trip of before the first rejection has a logbook of its own: in the file it
\* writes to, and in what obtener_bitacora finds by its number, no other trip of
\* the session wrote.
BitacoraPropia ==
  \A t \in lista_tripulantes : t.previas = 0 =>
    DeEstaSesion(archivos[lista_mongo[t.mongo].dir] \union obtener_bitacora(t.id))
      \subseteq {<<sesion, t.id>>}

\* The console in the store's socket, the store in the handler, and the detector
\* waiting for a resume that only the console can order.
Abrazo ==
  /\ consola \in {"INIT_P", "INIT_T", "BITA_D"}
  /\ analizador = "inicio"
  /\ detector = "sabotaje_pausado" /\ sabotaje_pausado = 0

=============================================================================
