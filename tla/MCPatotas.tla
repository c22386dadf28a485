----------------------------- MODULE MCPatotas -----------------------------
(***************************************************************************)
(* Two patotas of up to two trips, either of them rejected, two sabotages  *)
(* with one position, a pause and a resume, and a restart at any moment.   *)
(***************************************************************************)
EXTENDS Patotas
=============================================================================
