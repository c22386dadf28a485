---------------------------- MODULE MCSabotajes ----------------------------
(***************************************************************************)
(* Small instances of Sabotajes: the crews of MCPlanificador, and Cortas.  *)
(***************************************************************************)
EXTENDS Sabotajes, MCPlanificador

\* the shortest: one trip waits a cycle, the other none
Cortas == [t \in Tripulantes |-> <<Espera(IF t = 1 THEN 1 ELSE 0)>>]
=============================================================================
