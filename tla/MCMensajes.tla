----------------------------- MODULE MCMensajes -----------------------------
(***************************************************************************)
(* A trip with two tasks of two steps, on a quantum of two; two sabotages, *)
(* and one resume.                                                         *)
(***************************************************************************)
EXTENDS Mensajes
=============================================================================
