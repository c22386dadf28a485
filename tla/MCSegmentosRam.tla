--------------------------- MODULE MCSegmentosRam ---------------------------
(***************************************************************************)
(* Small memories for SegmentosRam: the sizes keep the order of the code's *)
(* (a control block is smaller than a trip), and the tasks of a patota may *)
(* be smaller or larger than both.                                         *)
(***************************************************************************)
EXTENDS SegmentosRam

Tareas == {1, 3}
=============================================================================
