------------------------------ MODULE MCGrammar ------------------------------
(***************************************************************************)
(* The grammar container on a small instance: three symbols may be         *)
(* allocated over a run, under three names, with rules of up to two          *)
(* references.                                                             *)
(***************************************************************************)
EXTENDS Grammar, TLC

CONSTANTS o1, o2, o3, a, b, c

MCObj == {o1, o2, o3}
MCName == {a, b, c}
MCSlot == 1..2

\* Addresses and names are interchangeable.
MCSymmetry == Permutations(MCObj) \cup Permutations(MCName)
=============================================================================
