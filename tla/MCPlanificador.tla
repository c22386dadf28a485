--------------------------- MODULE MCPlanificador ---------------------------
(***************************************************************************)
(* Small crews and task lists for Planificador.                            *)
(***************************************************************************)
EXTENDS Planificador

Espera(n) == [ciclos |-> n, io |-> FALSE, tiempo |-> 0]
UsaIO(n, m) == [ciclos |-> n, io |-> TRUE, tiempo |-> m]

\* one patota: everybody does the same
MismasTareas == [t \in Tripulantes |-> <<Espera(1), UsaIO(1, 1)>>]

\* two patotas: one trip waits, the others use the device for its cycles
DosPatotas == [t \in Tripulantes |-> IF t = 1 THEN <<Espera(3), Espera(0)>>
                                     ELSE <<UsaIO(2, 1)>>]

\* long enough to be preempted twice with QUANTUM 2, before and after the device
Largas == [t \in Tripulantes |-> IF t = 1 THEN <<Espera(5)>>
                                 ELSE <<UsaIO(3, 1), Espera(1)>>]

\* the same, and everybody comes to use the device
TodosConIO == [t \in Tripulantes |-> IF t = 1 THEN <<Espera(3), UsaIO(1, 0)>>
                                     ELSE <<UsaIO(3, 1), Espera(1)>>]
=============================================================================
