----------------------------- MODULE MCRoundTrip -----------------------------
(***************************************************************************)
(* Texts of one or two definitions: blanks between all lexemes, but for    *)
(* one gap, which takes each form it can have.                             *)
(***************************************************************************)
EXTENDS RoundTrip

MCIdent == {"A", "B"}
MCBuiltin == {"O"}
MCField == {"f", "A"}
MCTag == {"1"}
MCConstraint == {"9"}

\* Rules as they are written: the items of a record are references and "...".
Marker == [name |-> Empty]
ref(n, s, t, c, o) ==
    [name |-> n, symbol |-> s, coord |-> t, cons |-> c, opt |-> o]
First == {ref("f", "B", t, c, o) :
             t \in {Null, "1"}, c \in {Null, "9"}, o \in BOOLEAN}
         \cup {ref("f", "O", Null, Null, FALSE)}
Second == ref("A", "A", Null, Null, FALSE)
Items == {<<x>> : x \in First} \cup {<<x, Second>> : x \in First}
         \cup {<<x, Marker>> : x \in First}
         \cup {<<Marker>>, <<Marker, Second>>,
               <<Second, Marker, ref("f", "O", "1", "9", TRUE)>>}
body(t, items) == [type |-> t, items |-> items]
Elements == {<<ref(Empty, s, Null, Null, FALSE)>> : s \in {"B", "O"}}
Links == {<<ref(Empty, s, Null, c, FALSE)>> : s \in {"B", "O"}, c \in {Null, "9"}}
Bodies ==
    {body("LINK", x) : x \in Links}
    \cup {body(t, x) : t \in {"LIST", "SET"}, x \in Elements}
    \cup {body("SEQUENCE", x) : x \in Items}
    \cup {body(t, <<x, Second>>) : t \in {"ALL", "CHOICE"},
                                   x \in {y \in First : y.cons = Null}}
FewBodies ==
    {body("LINK", <<ref(Empty, "O", Null, "9", FALSE)>>),
     body("LIST", <<ref(Empty, "B", Null, Null, FALSE)>>),
     body("CHOICE", <<ref("f", "B", "1", Null, TRUE), Marker>>)}
Declared(names, coords, bodies) == [name : names, coord : coords, body : bodies]
Alone == Declared({"A"}, {Null}, Bodies) \cup Declared({"A"}, {"1"}, FewBodies)
Before == Declared({"A"}, {Null}, FewBodies)
After(names) == Declared(names, {"1"}, FewBodies)

\* What a declaration means.
IsMarker(x) == DOMAIN x = {"name"}
Meaning(d) ==
    [name |-> d.name, coord |-> d.coord,
     rule |-> [type |-> d.body.type,
               refs |-> SelectSeq(d.body.items, LAMBDA x : ~IsMarker(x)),
               ext |-> \E k \in DOMAIN d.body.items : IsMarker(d.body.items[k])]]

\* Its lexemes, wherever its markers are.
ItemWords(x) == IF IsMarker(x) THEN Word("...") ELSE ReferenceLexemes(x)
Words(d) ==
    IF \A k \in DOMAIN d.body.items : ~IsMarker(d.body.items[k])
    THEN Lexemes(Meaning(d))
    ELSE LET records == [SEQUENCE |-> "SEQUENCE", CHOICE |-> "CHOICE"]
         IN  Name(d.name) \o Word("::=") \o Value("tag", d.coord)
             \o Word(records[d.body.type]) \o Word("brace")
             \o FlattenSeq([k \in DOMAIN d.body.items |->
                   (IF k = 1 THEN <<>> ELSE Word("comma"))
                   \o ItemWords(d.body.items[k])])
             \o Word("close")

\* Layouts: blanks but for the gap i, where g is.
IsWord(l) == l.k \notin {"::=", "tag", "size", "brace", "close", "comma", "..."}
Gaps == {Blank, <<>>, Word("comment"), Blank \o Word("comment"),
         Word("comment") \o Blank, Blank \o Word("comment") \o Blank}
Spread(s, i, g) ==
    FlattenSeq([k \in DOMAIN s |-> <<s[k]>> \o (IF k = i THEN g ELSE Blank)])
\* Two words do not touch.
Layouts(s) ==
    {Spread(s, i, g) : i \in DOMAIN s, g \in Gaps \ {<<>>, Word("comment")}}
    \cup {Spread(s, i, g) : g \in {<<>>, Word("comment")},
            i \in {k \in DOMAIN s : \/ k = Len(s)
                                    \/ ~IsWord(s[k]) \/ ~IsWord(s[k + 1])}}

Single == UNION {{[texts |-> <<t>>, says |-> <<<<Meaning(d)>>>>] : t \in Layouts(Words(d))} :
                 d \in Alone}
Double == UNION {{[texts |-> <<t>>, says |-> <<<<Meaning(d), Meaning(e)>>>>] :
                    t \in Layouts(Words(d) \o Words(e))} :
                 d \in Before, e \in After(MCIdent)}
Plain(s) == Spread(s, 1, Blank)
Module(s) == Word("header") \o Blank \o Plain(s) \o Word("END") \o Blank
Firsts(s) == {Module(s), Front(Module(s)), Front(Plain(s))}
Files == UNION {{[texts |-> <<first, Plain(Words(e) \o Words(f))>>,
                  says |-> <<<<Meaning(d)>>, <<Meaning(e), Meaning(f)>>>>] :
                    first \in Firsts(Words(d)),
                    e \in After({"A"}), f \in After({"B"})} :
                d \in Before}
\* END without the head of a module.
Headless == {[texts |-> <<Tail(Tail(Module(Words(d))))>>, says |-> <<<<Meaning(d)>>>>] :
               d \in Before}
MCInputs == Single \cup Double \cup Files \cup Headless
=============================================================================
