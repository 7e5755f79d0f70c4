------------------------------- MODULE MCMoves -------------------------------
(***************************************************************************)
(* Grammars on the move, with up to three symbols at a time under two      *)
(* names: one for each name, and one that is a duplicate.                  *)
(***************************************************************************)
EXTENDS Moves

CONSTANTS o1, o2, o3, a, b

MCObj == {o1, o2, o3}
MCName == {a, b}
=============================================================================
