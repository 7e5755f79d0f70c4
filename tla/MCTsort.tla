------------------------------- MODULE MCTsort -------------------------------
(***************************************************************************)
(* tsort() on every grammar of three non-terminals with at most two        *)
(* references each, to one another or to a terminal, and with each of them *)
(* as the axiom: chains, diamonds, islands, cycles and self references.    *)
(***************************************************************************)
EXTENDS Tsort

CONSTANTS A, B, C, T

SG == INSTANCE SmallGrammars

MCByName == <<A, B, C>>

MCGrammars ==
    {[h EXCEPT !.axiom = a] :
        h \in SG!AllGrammars(MCByName, [t \in {T} |-> <<0, 2>>],
                             {"SEQUENCE"}, 2, {}, {}),
        a \in {A, B, C}}
=============================================================================
