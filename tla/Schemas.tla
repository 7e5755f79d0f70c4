------------------------------- MODULE Schemas -------------------------------
(***************************************************************************)
(* The printers of XSD, RelaxNG and Cap'n Proto schemas, grammar/xml: one  *)
(* visits the axiom, then the non-terminals in order, then the terminals,  *)
(* and each visit writes definitions and names others.  A definition and   *)
(* a use are pairs of what is defined, "type", "group", "define" or        *)
(* "struct", and a name; what a schema language has built in is left out,  *)
(* and so are facets, the number of occurrences and all wording.           *)
(***************************************************************************)
EXTENDS LinkedGrammar

CONSTANTS
    Underscored,    \* for each terminal with blanks in its name, the name
                    \* with underscores
    BaseOf(_)       \* a name with ___base appended

ASSUME SchemasAssumption ==
    \A g \in Grammars :
        /\ DOMAIN Underscored \subseteq g.terminals
        /\ \A n \in NTs(g) : BaseOf(n) \notin Symbols(g)
        /\ \A t \in DOMAIN Underscored : Underscored[t] \notin Symbols(g)
        /\ \A n \in NTs(g) : RefsIn(g, n) # {} => FrontRef(n) \in Refs(g)

VARIABLES
    g,              \* the grammar
    form,           \* "xsd", "rng", "capnp"
    any_attribute,  \* any_attribute_ (XSD)
    todo,           \* the symbols still to visit: a sequence, then a set
    declared,       \* what was defined
    used,           \* what was named
    within,         \* RelaxNG: pairs of a define and one it names outside of
                    \* elements
    pc              \* "axiom", "print", "done", "undefined"

vars == <<g, form, any_attribute, todo, declared, used, within, pc>>

-----------------------------------------------------------------------------
\* replace_all_copy(name, " ", "_")
Escaped(s) == IF s \in DOMAIN Underscored THEN Underscored[s] ELSE s

Terminal(s) == s \in g.terminals
Untagged(n) == g.tag[n] = None
UntaggedChoice(s) == s \in NTs(g) /\ g.type[s] = "CHOICE" /\ Untagged(s)

\* effective_symbol() returns for each of the references R.
Returns(R) == \A r \in R : Effective(g, r) # None

\* Variant: blanks remain.
ElementTypeRaw(r) ==
    LET end == Effective(g, r) IN IF Terminal(end) THEN g.to[r] ELSE end

\* The type in print_name_type() of XSD and RelaxNG.
ElementType(r) ==
    LET end == Effective(g, r)
    IN  Escaped(IF Terminal(end) THEN g.to[r] ELSE end)

ElementTypes(R) == {ElementType(r) : r \in R}

\* A LINK that ends in a terminal restricts it.
Restricts(n) == g.type[n] = "LINK" /\ Terminal(Effective(g, FrontRef(n)))

\* print_list() looks at the first reference.
IsList(n) == g.type[n] \in {"LIST", "SET"}

\* Variant: of any non-terminal.
ListOfNT(n) == IsList(n) /\ Effective(g, FrontRef(n)) \in NTs(g)

ListOfChoice(n) == IsList(n) /\ UntaggedChoice(Effective(g, FrontRef(n)))

\* The references that are printed as elements.
Elements(n) ==
    CASE Restricts(n) \/ ListOfChoice(n) -> {}
      [] IsList(n) /\ ~ListOfChoice(n)   -> {FrontRef(n)}
      [] OTHER                           -> RefsIn(g, n)

-----------------------------------------------------------------------------
Init ==
    /\ g \in Grammars
    /\ form \in {"xsd", "rng", "capnp"}
    /\ any_attribute \in IF form = "xsd" THEN BOOLEAN ELSE {FALSE}
    /\ todo = [nts |-> g.order, terminals |-> IF form = "capnp" THEN {} ELSE g.terminals]
    /\ declared = {} /\ used = {} /\ within = {}
    /\ pc = "axiom"

Write(D, U) == declared' = declared \cup D /\ used' = used \cup U

\* XSD: the alternatives of an untagged CHOICE are the elements, by the names
\* as they are.
XsdAxiom ==
    LET types == IF UntaggedChoice(g.axiom)
                   THEN {g.to[r] : r \in RefsIn(g, g.axiom)} ELSE {g.axiom}
    IN  /\ form = "xsd"
        /\ Write({}, {"type"} \X types)

RngAxiom == form = "rng" /\ Write({}, {<<"define", g.axiom>>})

CapnpAxiom == form = "capnp" /\ Write({}, {})

PrintAxiom ==
    /\ pc = "axiom"
    /\ XsdAxiom \/ RngAxiom \/ CapnpAxiom
    /\ pc' = "print"
    /\ UNCHANGED <<g, form, any_attribute, todo, within>>

\* XSD: a restriction, a group or a type.
XsdVisit(n) ==
    /\ form = "xsd"
    /\ UNCHANGED within
    /\ IF Restricts(n)
         THEN LET end == <<"type", Escaped(Effective(g, FrontRef(n)))>> IN
              IF any_attribute
                THEN Write({"type"} \X {n, BaseOf(n)}, {end, <<"type", BaseOf(n)>>})
                ELSE Write({<<"type", n>>}, {end})
         ELSE Write({<<IF UntaggedChoice(n) THEN "group" ELSE "type", n>>},
                    {"type"} \X ElementTypes(Elements(n))
                    \cup IF ListOfChoice(n)
                           THEN {<<"group", Effective(g, FrontRef(n))>>} ELSE {})

\* RelaxNG: a list of an untagged CHOICE names it by the reference, all else is
\* named within an element.
RngVisit(n) ==
    LET choice == IF ListOfChoice(n) THEN {g.to[FrontRef(n)]} ELSE {}
    IN  /\ form = "rng"
        /\ Write({<<"define", n>>},
                 {"define"} \X (choice \cup ElementTypes(Elements(n))))
        /\ within' = within \cup {n} \X choice

\* Cap'n Proto: neither LINK nor LIST is a struct; a field that is a LIST names
\* what is in it.
ListNT(s) == s \in NTs(g) /\ g.type[s] = "LIST"
FieldType(r) ==
    LET end == Effective(g, r)
    IN  IF ListNT(end) THEN Effective(g, FrontRef(end)) ELSE end
IsStruct(n) == g.type[n] \notin {"LINK", "LIST"}

CapnpVisit(n) ==
    /\ form = "capnp"
    /\ UNCHANGED within
    /\ IF IsStruct(n)
         THEN Write({<<"struct", n>>},
                    {"struct"} \X ({FieldType(r) : r \in RefsIn(g, n)} \cap NTs(g)))
         ELSE Write({}, {})

\* refs().front() of an empty rule.
NoFront(n) ==
    \/ form # "capnp" /\ RefsIn(g, n) = {}
    \/ form = "capnp" /\ IsStruct(n) /\ \E r \in RefsIn(g, n) :
          /\ ListNT(Effective(g, r))
          /\ RefsIn(g, Effective(g, r)) = {}

\* The references whose effective symbol a visit asks for.
Asked(n) ==
    CASE form # "capnp" /\ IsList(n)  -> {FrontRef(n)}
      [] form # "capnp" /\ ~IsList(n) -> RefsIn(g, n)
      [] form = "capnp" /\ ~IsStruct(n) -> {}
      [] form = "capnp" /\ IsStruct(n) ->
            RefsIn(g, n) \cup {FrontRef(Effective(g, r)) :
                r \in {q \in RefsIn(g, n) : ListNT(Effective(g, q))}}

\* A visit; when effective_symbol() does not return, the printer never goes on.
VisitNT ==
    LET n == Head(todo.nts) IN
    /\ pc = "print" /\ todo.nts # <<>>
    /\ ~NoFront(n) /\ Returns(Asked(n))
    /\ XsdVisit(n) \/ RngVisit(n) \/ CapnpVisit(n)
    /\ todo' = [todo EXCEPT !.nts = Tail(@)]
    /\ UNCHANGED <<g, form, any_attribute, pc>>

VisitEmpty ==
    /\ pc = "print" /\ todo.nts # <<>>
    /\ NoFront(Head(todo.nts))
    /\ pc' = "undefined"
    /\ UNCHANGED <<g, form, any_attribute, todo, declared, used, within>>

VisitTerminal(t) ==
    /\ pc = "print" /\ todo.nts = <<>>
    /\ t \in todo.terminals
    /\ Write({<<IF form = "xsd" THEN "type" ELSE "define", Escaped(t)>>}, {})
    /\ todo' = [todo EXCEPT !.terminals = @ \ {t}]
    /\ UNCHANGED <<g, form, any_attribute, within, pc>>

Finish ==
    /\ pc = "print" /\ todo.nts = <<>> /\ todo.terminals = {}
    /\ pc' = "done"
    /\ UNCHANGED <<g, form, any_attribute, todo, declared, used, within>>

Next ==
    \/ PrintAxiom \/ VisitNT \/ VisitEmpty \/ Finish
    \/ \E t \in g.terminals : VisitTerminal(t)

Spec == Init /\ [][Next]_vars

-----------------------------------------------------------------------------
\* What a complete schema names and does not define.  RelaxNG: nothing.  XSD:
\* an untagged CHOICE is a group, and dangles where it is the type of an element,
\* in a record or as a LINK; so do names with blanks among the alternatives of
\* the axiom.  Cap'n Proto: a LIST in a LIST.
Dangling ==
    CASE form = "rng" -> {}
      [] form = "xsd" ->
           {"type"} \X
             ({s \in NTs(g) : /\ UntaggedChoice(s)
                              /\ \E n \in NTs(g), r \in Refs(g) :
                                    /\ r[1] = n /\ ~IsList(n)
                                    /\ Effective(g, r) = s}
              \cup {s \in Symbols(g) :
                       /\ UntaggedChoice(s) \/ Escaped(s) # s
                       /\ UntaggedChoice(g.axiom)
                       /\ \E r \in RefsIn(g, g.axiom) : g.to[r] = s})
      [] form = "capnp" ->
           {"struct"} \X
             {s \in NTs(g) : /\ ListNT(s)
                             /\ \E r, q \in Refs(g) :
                                   /\ IsStruct(r[1]) /\ ListNT(Effective(g, r))
                                   /\ q = FrontRef(Effective(g, r))
                                   /\ Effective(g, q) = s}

NamesResolve == pc = "done" => used \ declared = Dangling

\* RelaxNG: a define that leads to itself does so through an element only, as
\* the language demands of recursive grammars.
RecursionInElements ==
    \A S \in SUBSET NTs(g) : S # {} => \E n \in S : \A m \in S : <<n, m>> \notin within
=============================================================================
