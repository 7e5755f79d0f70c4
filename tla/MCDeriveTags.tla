---------------------------- MODULE MCDeriveTags -----------------------------
(***************************************************************************)
(* derive_tags() on every grammar of three non-terminals that are LINKs,   *)
(* empty SEQUENCEs or CHOICEs, and of two non-terminals with rules of any  *)
(* type and at most one reference.  The order is fixed and all             *)
(* declarations are tried, hence all orders of a chain of LINKs are.       *)
(***************************************************************************)
EXTENDS DeriveTags

CONSTANTS A, B, C, T

SG == INSTANCE SmallGrammars

MCGrammars ==
    SG!AllGrammars(<<A, B, C>>, [t \in {T} |-> <<0, 2>>],
                   {"LINK", "SEQUENCE", "CHOICE"}, 0,
                   {<<1, 7>>}, {<<1, 7>>})
    \cup SG!AllGrammars(<<A, B>>, [t \in {T} |-> <<0, 2>>], Types, 1,
                          {<<1, 7>>}, {<<1, 7>>})

\* The bounds for up to three LINKs, each just enough for some grammars.
MCLimits == {3, 5, 7, 9}
=============================================================================
