--------------------------- MODULE MCExpulsiones ---------------------------
(***************************************************************************)
(* Small instances of Expulsiones: the crews of MCPlanificador.            *)
(***************************************************************************)
EXTENDS Expulsiones, MCPlanificador
=============================================================================
