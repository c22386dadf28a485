----------------------------- MODULE MCPaginas -----------------------------
(***************************************************************************)
(* Small memories for Paginas, with the sizes of the code and of the       *)
(* configuration: pages of 50 bytes, trips of 21.                          *)
(***************************************************************************)
EXTENDS Paginas

\* the control block and the tasks end inside a page, where a page does, or need three
Tareas == {20, 42, 100}
=============================================================================
