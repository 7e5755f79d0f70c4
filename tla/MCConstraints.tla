---------------------------- MODULE MCConstraints ----------------------------
(***************************************************************************)
(* All files of two lines on two names, and files of two links between two *)
(* other lines.  Of the three names one is a BCDString, with a SIZE or      *)
(* without, one an INTEGER; the third has any kind of rule, also that of   *)
(* an alias of the first with a SIZE or without, or none.                  *)
(***************************************************************************)
EXTENDS Facets

CONSTANTS A, B, C, str1, str2

MCName == {A, B, C}
MCNumber == {1, 2}
MCStr == {str1, str2}
MCLengths == 0..4

MCTerminal == {BCDString, INTEGER}

rule(type, to, size) == [type |-> type, to |-> to, size |-> size]
size == [min |-> 1, max |-> 2]
Third == {rule("unknown", None, None), rule("bare", None, None),
          rule("link", A, None), rule("link", BCDString, None),
          rule("record", A, None), rule("record", INTEGER, size)}
Digit(x, second) == [n \in MCName |-> CASE n = A -> rule("link", BCDString, x)
                                       [] n = B -> second
                                       [] n = C -> rule("link", INTEGER, None)]
Alias == rule("link", A, size)
MCGrammars == {Digit(size, x) : x \in Third \cup {Alias}} \cup {Digit(None, Alias)}

line(n, type, x) == [nt |-> n, type |-> type, value |-> x]
Few == {line(A, "enumeration", str1), line(C, "enumeration", str1),
        line(B, "pattern", str2), line(C, "pattern", str1),
        line(B, "maxLength", 2), line(A, "minInclusive", 1)}
AnyLine == {l \in Line : l.nt \in {A, B}}
LinkLines == {l \in Line : l.type = "link"}
Linked == {<<l, m>> : l, m \in {x \in LinkLines : x.nt \in {A, B}}}
MCFiles ==
    {<<l, m>> : l, m \in AnyLine}
    \cup {<<l>> \o x \o <<m>> : l, m \in Few, x \in Linked}
=============================================================================
