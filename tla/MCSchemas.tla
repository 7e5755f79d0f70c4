------------------------------ MODULE MCSchemas ------------------------------
(***************************************************************************)
(* The printers of schemas on every grammar of two non-terminals with up   *)
(* to two references, tagged or not, and on every grammar of three         *)
(* untagged ones, LINKs, LISTs and CHOICEs with at most one; the terminal  *)
(* has a name with a blank.  The printer of graphs on every grammar of two *)
(* non-terminals with up to two references each, where the terminal and    *)
(* one of the non-terminals have stop names, any of the references is      *)
(* optional, and, in one of the orders, a name has a hyphen; with up to    *)
(* one reference each also a name that is a keyword.                       *)
(***************************************************************************)
EXTENDS Dot

CONSTANTS A, B, C, D, T, T_

SG == INSTANCE SmallGrammars

MCUnderscored == [t \in {T} |-> T_]
MCBaseOf(n) == <<n, "___base">>

MCGrammars ==
    SG!AllGrammars(<<A, B>>, [t \in {T} |-> <<0, 2>>],
                   {"CHOICE", "SEQUENCE", "LIST", "LINK"}, 2, {<<1, 7>>}, {})
    \cup SG!AllGrammars(<<A, B, C>>, [t \in {T} |-> <<0, 2>>],
                        {"LINK", "LIST", "CHOICE"}, 1, {}, {})

MCDotGrammars ==
    SG!AllGrammars(<<A, B>>, [t \in {T} |-> <<0, 2>>],
                   {"ALL", "SEQUENCE", "LINK"}, 2, {}, {})
    \cup SG!AllGrammars(<<A, C>>, [t \in {T} |-> <<0, 2>>],
                        {"CHOICE", "SET", "LINK"}, 2, {}, {})
    \cup SG!AllGrammars(<<A, D>>, [t \in {T} |-> <<0, 2>>],
                        {"LIST", "SEQUENCE", "LINK"}, 1, {}, {})
MCStopNames == {B, T}
MCHyphenated == {C}
MCKeywords == {D}
=============================================================================
