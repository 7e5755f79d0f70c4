------------------------------ MODULE MCQueries ------------------------------
(***************************************************************************)
(* The queries on every grammar of three non-terminals, LINKs and CHOICEs  *)
(* with at most one reference, and on every grammar of two with rules of   *)
(* up to two references, over one terminal in use or not: shared symbols,  *)
(* cycles, self references and islands.  The tags are distinct, so that an *)
(* answer tells where its tags come from: those of non-terminals are of    *)
(* the class asked for, those of references of another class, one of them  *)
(* with the number of the terminal.                                        *)
(***************************************************************************)
EXTENDS Queries

CONSTANTS A, B, C, T

SG == INSTANCE SmallGrammars

MCGrammars ==
    SG!AllGrammars(<<A, B, C>>, [t \in {T} |-> <<0, 2>>],
                   {"LINK", "CHOICE"}, 1, {<<0, 7>>}, {})
    \cup SG!AllGrammars(<<A, B>>, [t \in {T} |-> <<0, 2>>],
                        {"LINK", "SEQUENCE"}, 2, {}, {<<1, 2>>, <<2, 8>>})

\* More than any of these grammars needs, and too few for some.
MCClosureLimits == {2, 9}
MCLimits == {20}
MCKlasses == {0}
=============================================================================
