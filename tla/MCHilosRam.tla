----------------------------- MODULE MCHilosRam -----------------------------
(***************************************************************************)
(* Small memories for HilosRam: the sizes keep the order of the code's (a  *)
(* control block is smaller than a trip), and the tasks of a patota may be *)
(* smaller or larger than both.                                            *)
(***************************************************************************)
EXTENDS HilosRam

Tareas == {1, 3}
=============================================================================
