------------------------------ MODULE MCAlmacen ------------------------------
(***************************************************************************)
(* Small stores for Almacen.  The block size is the one of                 *)
(* imongostore.config unless the run says otherwise; the amounts and the   *)
(* lengths fill a block exactly, leave it half full and go over it.        *)
(***************************************************************************)
EXTENDS Almacen, TLC

CONSTANTS o, b, t1, t2

LosRecursos == {o, b}
LosTripulantes == {t1, t2}
SumasChicas == {12, 20}
QuitasChicas == {6, 18}
UnBloque == {16}
LargosChicos == {22, 30}
Largo20 == {20}
Simetria == Permutations(LosTripulantes)
=============================================================================
