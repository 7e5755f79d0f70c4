-------------------------------- MODULE MCGed --------------------------------
(***************************************************************************)
(* Sessions with two sets of files.  Between them they have duplicates, in *)
(* one file and in two, a name of a terminal, names that are defined       *)
(* elsewhere or nowhere, recursion, a rule without references, and a file  *)
(* that defines nothing.                                                   *)
(***************************************************************************)
EXTENDS Ged

def(n, S) == [name |-> n, uses |-> S]

MCName     == {"A", "B", "C", "INTEGER"}
MCBuiltins == {"INTEGER"}
MCContent  ==
    [main    |-> <<def("A", {"B", "INTEGER"}), def("B", {"INTEGER"})>>,
     other   |-> <<def("C", {"A", "B"}), def("B", {})>>,
     twice   |-> <<def("A", {"INTEGER"}), def("A", {"C"})>>,
     builtin |-> <<def("INTEGER", {"B"}), def("B", {"INTEGER"})>>,
     knot    |-> <<def("C", {"B"}), def("B", {"C"})>>,
     lone    |-> <<def("B", {"B"})>>,
     empty   |-> <<>>]
MCFile     == DOMAIN MCContent
MCConstrained == [limits |-> {"A"}, more |-> {"A", "C"}]
=============================================================================
