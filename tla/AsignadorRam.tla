---------------------------- MODULE AsignadorRam ----------------------------
(***************************************************************************)
(* What the segmented memory of the RAM process promises, with no address  *)
(* in it: a patota is accepted when its control block, its tasks and all   *)
(* its trips fit in the free bytes together, and then each trip gets its   *)
(* bytes, however the free ones are scattered.                             *)
(***************************************************************************)
EXTENDS Naturals, Functions

CONSTANTS
  TAMANIO_MEMORIA, TAMANIO_PATOTA, TAMANIO_TRIPULANTE,   \* bytes
  TamaniosTareas, MaxPatotas, MaxTripulantes             \* what may be asked for

VARIABLES
  libre,      \* bytes that belong to no element
  vivos,      \* the bytes of each live element <<patota, index>>
  faltan      \* trips of the last patota that have not been created yet

AInit == libre = TAMANIO_MEMORIA /\ vivos = << >> /\ faltan = 0

Agregar(elementos, e, bytes) ==
  [x \in DOMAIN elementos \union {e} |-> IF x = e THEN bytes ELSE elementos[x]]

AceptarPatota(p, tripulantes, tareas) ==
  /\ faltan = 0
  /\ \A e \in DOMAIN vivos : e[1] # p
  /\ TAMANIO_PATOTA + tareas + tripulantes * TAMANIO_TRIPULANTE <= libre
  /\ libre' = libre - TAMANIO_PATOTA - tareas
  /\ vivos' = Agregar(Agregar(vivos, <<p, 0>>, TAMANIO_PATOTA), <<p, 1>>, tareas)
  /\ faltan' = tripulantes

AgregarTripulante(p, t) ==
  /\ faltan > 0 /\ TAMANIO_TRIPULANTE <= libre
  /\ <<p, 0>> \in DOMAIN vivos /\ <<p, t + 1>> \notin DOMAIN vivos
  /\ libre' = libre - TAMANIO_TRIPULANTE
  /\ vivos' = Agregar(vivos, <<p, t + 1>>, TAMANIO_TRIPULANTE)
  /\ faltan' = faltan - 1

QuitarTripulante(p, t) ==
  /\ <<p, t + 1>> \in DOMAIN vivos
  /\ libre' = libre + vivos[<<p, t + 1>>]
  /\ vivos' = Restrict(vivos, DOMAIN vivos \ {<<p, t + 1>>})
  /\ UNCHANGED faltan

ANext ==
  \E p \in 1 .. MaxPatotas :
    \/ \E n \in 1 .. MaxTripulantes, tareas \in TamaniosTareas : AceptarPatota(p, n, tareas)
    \/ \E t \in 1 .. MaxTripulantes : AgregarTripulante(p, t) \/ QuitarTripulante(p, t)

ASpec == AInit /\ [][ANext]_<<libre, vivos, faltan>>
=============================================================================
