---------------------------- MODULE SchemasProofs ----------------------------
(***************************************************************************)
(* Proofs about the printers of schemas, for every grammar: a complete     *)
(* schema defines what it names, but for the cases Dangling lists; the     *)
(* defines of a RelaxNG schema lead to themselves through elements only;   *)
(* and the file of a drawn grammar tells that grammar.                     *)
(***************************************************************************)
EXTENDS Dot, FiniteSetTheorems, TLAPS

\* What a visit of the non-terminal n defines and names ...
Defines(n) ==
    CASE form = "xsd" /\ Restricts(n) ->
           {"type"} \X IF any_attribute THEN {n, BaseOf(n)} ELSE {n}
      [] form = "xsd" /\ ~Restricts(n) ->
           {<<IF UntaggedChoice(n) THEN "group" ELSE "type", n>>}
      [] form = "rng" -> {<<"define", n>>}
      [] form = "capnp" -> IF IsStruct(n) THEN {<<"struct", n>>} ELSE {}

Uses(n) ==
    CASE form = "xsd" /\ Restricts(n) ->
           {<<"type", Escaped(Effective(g, FrontRef(n)))>>}
             \cup IF any_attribute THEN {<<"type", BaseOf(n)>>} ELSE {}
      [] form = "xsd" /\ ~Restricts(n) ->
           {"type"} \X ElementTypes(Elements(n))
             \cup IF ListOfChoice(n) THEN {<<"group", Effective(g, FrontRef(n))>>} ELSE {}
      [] form = "rng" ->
           {"define"} \X ((IF ListOfChoice(n) THEN {g.to[FrontRef(n)]} ELSE {})
                            \cup ElementTypes(Elements(n)))
      [] form = "capnp" ->
           IF IsStruct(n)
             THEN {"struct"} \X ({FieldType(r) : r \in RefsIn(g, n)} \cap NTs(g)) ELSE {}

\* ... that of a terminal, and the start.
TerminalDefines(t) == <<IF form = "xsd" THEN "type" ELSE "define", Escaped(t)>>

AxiomTypes == IF UntaggedChoice(g.axiom)
                THEN {g.to[r] : r \in RefsIn(g, g.axiom)} ELSE {g.axiom}
AxiomUses ==
    CASE form = "xsd" -> {"type"} \X AxiomTypes
      [] form = "rng" -> {<<"define", g.axiom>>}
      [] form = "capnp" -> {}

\* Names that some visit defines, names that some visit uses.
Defined(d) == \/ \E n \in NTs(g) : d \in Defines(n)
              \/ form # "capnp" /\ \E t \in g.terminals : d = TerminalDefines(t)
Named(d) == d \in AxiomUses \/ \E n \in NTs(g) : d \in Uses(n)

\* A visit that returns.
Printable(n) == ~NoFront(n) /\ Returns(Asked(n))

Waiting == {todo.nts[i] : i \in DOMAIN todo.nts}

Shapes ==
    /\ pc \in {"axiom", "print", "done", "undefined", "dot"}
    /\ pc # "dot" => g \in Grammars /\ form \in {"xsd", "rng", "capnp"}
    /\ todo = [nts |-> todo.nts, terminals |-> todo.terminals]
    /\ todo.nts \in Seq(NTs(g)) /\ todo.terminals \subseteq g.terminals
    /\ form = "capnp" => todo.terminals = {}

\* Visits so far.
Printed ==
    pc # "dot" =>
        /\ \A n \in NTs(g) : n \in Waiting \/ (/\ Printable(n)
                                               /\ Defines(n) \subseteq declared
                                               /\ Uses(n) \subseteq used)
        /\ form # "capnp" =>
              \A t \in g.terminals : t \in todo.terminals \/ TerminalDefines(t) \in declared
        /\ pc # "axiom" => AxiomUses \subseteq used
        /\ \A d \in declared : Defined(d)
        /\ \A d \in used : Named(d)
        /\ pc = "done" => todo.nts = <<>> /\ todo.terminals = {}

Nested ==
    \A p \in within : /\ p = <<p[1], p[2]>> /\ p[1] \in NTs(g) /\ Printable(p[1])
                      /\ pc # "dot" /\ form = "rng"
                      /\ ListOfChoice(p[1]) /\ p[2] = g.to[FrontRef(p[1])]

SchemaInv == Shapes /\ Printed /\ Nested

-----------------------------------------------------------------------------
LEMMA Ends ==
    ASSUME NEW h, IsGrammar(h), NEW r \in Refs(h), Effective(h, r) # None
    PROVE  /\ r[1] \in NTs(h) /\ h.to[r] \in Symbols(h)
           /\ Effective(h, r) \in Symbols(h)
           /\ Effective(h, r) \in LinkNTs(h) => Effective(h, r) = r[1]
           /\ h.to[r] \notin LinkNTs(h) => Effective(h, r) \in {r[1], h.to[r]}
<1> DEFINE t == h.to[r]
           ends == {x \in Symbols(h) \ LinkNTs(h) : x \in ChainOfLinks(h, t)}
<1>1. r[1] \in NTs(h) /\ t \in Symbols(h)
  BY DEF IsGrammar
<1>2. EndOfLinks(h, t) = IF t \notin LinkNTs(h) THEN t
                         ELSE IF ends = {} THEN None ELSE CHOOSE x \in ends : TRUE
  BY DEF EndOfLinks
<1>3. Effective(h, r) = r[1] \/ Effective(h, r) = EndOfLinks(h, t)
  BY DEF Effective
<1>4. r[1] \in Symbols(h)
  BY <1>1 DEF Symbols
<1> HIDE DEF t
<1>5. EndOfLinks(h, t) \in {None} \cup (Symbols(h) \ LinkNTs(h))
  BY <1>1, <1>2
<1>6. t \notin LinkNTs(h) => EndOfLinks(h, t) = t
  BY <1>2
<1>7. /\ r[1] \in NTs(h) /\ t \in Symbols(h)
      /\ Effective(h, r) \in Symbols(h)
      /\ Effective(h, r) \in LinkNTs(h) => Effective(h, r) = r[1]
      /\ t \notin LinkNTs(h) => Effective(h, r) \in {r[1], t}
  BY <1>1, <1>3, <1>4, <1>5, <1>6
<1> QED BY <1>7 DEF t

LEMMA Escapes ==
    ASSUME g \in Grammars
    PROVE  /\ IsGrammar(g) /\ NTs(g) \cap g.terminals = {}
           /\ Symbols(g) = NTs(g) \cup g.terminals
           /\ \A s \in NTs(g) : Escaped(s) = s
           /\ \A t \in g.terminals : Escaped(t) = t \/ Escaped(t) \notin Symbols(g)
           /\ \A n \in NTs(g) : BaseOf(n) \notin Symbols(g)
           /\ \A n \in NTs(g) : RefsIn(g, n) # {} => FrontRef(n) \in Refs(g)
           /\ \A n \in NTs(g) : g.type[n] = "LINK" =>
                 RefsIn(g, n) = {FrontRef(n)} /\ FrontRef(n) \in Refs(g)
<1>1. IsGrammar(g)
  BY GrammarsAssumption
<1>2. NTs(g) \cap g.terminals = {}
  BY <1>1 DEF IsGrammar
<1>3. /\ DOMAIN Underscored \subseteq g.terminals
      /\ \A t \in DOMAIN Underscored : Underscored[t] \notin Symbols(g)
      /\ \A n \in NTs(g) : BaseOf(n) \notin Symbols(g)
      /\ \A n \in NTs(g) : RefsIn(g, n) # {} => FrontRef(n) \in Refs(g)
  BY SchemasAssumption
<1>4. \A n \in NTs(g) : g.type[n] = "LINK" =>
         RefsIn(g, n) = {FrontRef(n)} /\ FrontRef(n) \in Refs(g)
  BY <1>1 DEF IsGrammar, LinkNTs, RefsIn
<1>5. \A s : s \notin g.terminals => Escaped(s) = s
  BY <1>3 DEF Escaped
<1>6. \A t : Escaped(t) = t \/ Escaped(t) \notin Symbols(g)
  BY <1>3 DEF Escaped
<1>7. Symbols(g) = NTs(g) \cup g.terminals
  BY DEF Symbols
<1> QED BY <1>1, <1>2, <1>3, <1>4, <1>5, <1>6, <1>7

\* A visit is one of the three.
LEMMA Visits ==
    ASSUME form \in {"xsd", "rng", "capnp"}, NEW n,
           XsdVisit(n) \/ RngVisit(n) \/ CapnpVisit(n)
    PROVE  /\ declared' = declared \cup Defines(n)
           /\ used' = used \cup Uses(n)
           /\ within' = within \cup
                IF form = "rng" /\ ListOfChoice(n) THEN {<<n, g.to[FrontRef(n)]>>} ELSE {}
<1>1. CASE XsdVisit(n)
  <2>1. CASE Restricts(n) /\ any_attribute
    BY <1>1, <2>1 DEF XsdVisit, Write, Defines, Uses
  <2>2. CASE Restricts(n) /\ ~any_attribute
    BY <1>1, <2>2 DEF XsdVisit, Write, Defines, Uses
  <2>3. CASE ~Restricts(n)
    BY <1>1, <2>3 DEF XsdVisit, Write, Defines, Uses
  <2> QED BY <2>1, <2>2, <2>3
<1>2. CASE RngVisit(n)
  <2> DEFINE choice == IF ListOfChoice(n) THEN {g.to[FrontRef(n)]} ELSE {}
  <2>1. /\ form = "rng"
        /\ Write({<<"define", n>>}, {"define"} \X (choice \cup ElementTypes(Elements(n))))
        /\ within' = within \cup {n} \X choice
    BY <1>2 DEF RngVisit
  <2>2. {n} \X choice = IF ListOfChoice(n) THEN {<<n, g.to[FrontRef(n)]>>} ELSE {}
    OBVIOUS
  <2> QED BY <2>1, <2>2 DEF Write, Defines, Uses
<1>3. CASE CapnpVisit(n)
  BY <1>3 DEF CapnpVisit, Write, Defines, Uses
<1> QED BY <1>1, <1>2, <1>3

-----------------------------------------------------------------------------
LEMMA InitSchemaInv == DotInit => SchemaInv
<1>1. ASSUME Init PROVE SchemaInv
  <2>1. /\ g \in Grammars /\ form \in {"xsd", "rng", "capnp"} /\ pc = "axiom"
        /\ todo = [nts |-> g.order, terminals |-> IF form = "capnp" THEN {} ELSE g.terminals]
        /\ declared = {} /\ used = {} /\ within = {}
    BY <1>1 DEF Init
  <2>2. todo.nts = g.order /\ todo.terminals = IF form = "capnp" THEN {} ELSE g.terminals
    BY <2>1
  <2>3. g.order \in Seq(NTs(g))
    BY <2>1, GrammarsAssumption DEF IsGrammar
  <2>4. Shapes
    BY <2>1, <2>2, <2>3 DEF Shapes
  <2>5. NTs(g) = Waiting
    BY <2>2 DEF Waiting, NTs
  <2>6. Printed
    BY <2>1, <2>2, <2>5 DEF Printed
  <2> QED BY <2>1, <2>4, <2>6 DEF SchemaInv, Nested
<1>2. ASSUME g \in DotGrammars, form = "dot", todo = [nts |-> g.order, terminals |-> {}],
             within = {}, pc = "dot"
      PROVE  SchemaInv
  <2>1. g.order \in Seq(NTs(g)) /\ todo.nts = g.order /\ todo.terminals = {}
    BY <1>2, DotAssumption DEF IsGrammar
  <2> QED BY <1>2, <2>1 DEF SchemaInv, Shapes, Printed, Nested
<1> QED BY <1>1, <1>2 DEF DotInit

\* The grammar, the form and what hangs on them do not change.
LEMMA SameSchema ==
    ASSUME g' = g, form' = form, any_attribute' = any_attribute
    PROVE  /\ \A n : /\ Defines(n)' = Defines(n) /\ Uses(n)' = Uses(n)
                     /\ Printable(n)' = Printable(n) /\ ListOfChoice(n)' = ListOfChoice(n)
           /\ \A t : TerminalDefines(t)' = TerminalDefines(t)
           /\ AxiomUses' = AxiomUses /\ NTs(g)' = NTs(g)
           /\ \A d : Defined(d)' = Defined(d) /\ Named(d)' = Named(d)
<1>1. \A n : /\ Restricts(n)' = Restricts(n) /\ ListOfChoice(n)' = ListOfChoice(n)
             /\ UntaggedChoice(n)' = UntaggedChoice(n) /\ IsStruct(n)' = IsStruct(n)
             /\ ListNT(n)' = ListNT(n)
  BY DEF Restricts, ListOfChoice, UntaggedChoice, IsStruct, ListNT, Terminal, IsList, Untagged
<1>2. \A n : Elements(n)' = Elements(n)
  BY <1>1 DEF Elements, IsList
<1>3. \A r : ElementType(r)' = ElementType(r) /\ FieldType(r)' = FieldType(r)
  BY <1>1 DEF ElementType, FieldType, Terminal
<1>4. \A n : Defines(n)' = Defines(n)
  BY <1>1 DEF Defines
<1>5. \A n : Uses(n)' = Uses(n)
  BY <1>1, <1>2, <1>3 DEF Uses, ElementTypes
<1>6. \A n : Printable(n)' = Printable(n)
  BY <1>1 DEF Printable, NoFront, Returns, Asked, IsList
<1>7. AxiomUses' = AxiomUses /\ \A t : TerminalDefines(t)' = TerminalDefines(t)
  BY <1>1 DEF AxiomUses, AxiomTypes, TerminalDefines
<1> QED BY <1>1, <1>4, <1>5, <1>6, <1>7 DEF Defined, Named

-----------------------------------------------------------------------------
LEMMA HeadAndTail ==
    ASSUME NEW S, NEW s \in Seq(S), s # <<>>
    PROVE  /\ Head(s) \in S /\ Tail(s) \in Seq(S)
           /\ \A x : x \in {s[i] : i \in DOMAIN s}
                       => x = Head(s) \/ x \in {Tail(s)[i] : i \in DOMAIN Tail(s)}
<1>1. /\ Len(s) \in Nat \ {0} /\ DOMAIN s = 1..Len(s) /\ s[1] \in S
      /\ Head(s) = s[1] /\ Tail(s) \in Seq(S)
      /\ DOMAIN Tail(s) = 1..(Len(s) - 1)
      /\ \A i \in 1..(Len(s) - 1) : Tail(s)[i] = s[i + 1]
  OBVIOUS
<1>2. ASSUME NEW i \in DOMAIN s, s[i] # Head(s)
      PROVE  s[i] \in {Tail(s)[j] : j \in DOMAIN Tail(s)}
  <2>1. i # 1
    BY <1>1, <1>2
  <2>2. i - 1 \in 1..(Len(s) - 1) /\ (i - 1) + 1 = i
    BY <1>1, <2>1
  <2>3. i - 1 \in DOMAIN Tail(s) /\ Tail(s)[i - 1] = s[i]
    BY <1>1, <2>2
  <2> QED BY <2>3
<1>3. \A x : x \in {s[i] : i \in DOMAIN s}
               => x = Head(s) \/ x \in {Tail(s)[i] : i \in DOMAIN Tail(s)}
  BY <1>2
<1> QED BY <1>1, <1>3

LEMMA VisitSchemaInv == ASSUME SchemaInv, VisitNT PROVE SchemaInv'
<1> DEFINE n == Head(todo.nts)
<1>1. /\ pc = "print" /\ todo.nts # <<>> /\ Printable(n)
      /\ XsdVisit(n) \/ RngVisit(n) \/ CapnpVisit(n)
      /\ todo' = [todo EXCEPT !.nts = Tail(@)]
      /\ UNCHANGED <<g, form, any_attribute, pc>>
  BY DEF VisitNT, Printable
<1>2. /\ todo = [nts |-> todo.nts, terminals |-> todo.terminals]
      /\ todo.nts \in Seq(NTs(g)) /\ todo.terminals \subseteq g.terminals
      /\ form \in {"xsd", "rng", "capnp"}
  BY <1>1 DEF SchemaInv, Shapes
<1>3. todo'.nts = Tail(todo.nts) /\ todo'.terminals = todo.terminals
      /\ todo' = [nts |-> todo'.nts, terminals |-> todo'.terminals]
  BY <1>1, <1>2
<1>4. /\ n \in NTs(g) /\ todo'.nts \in Seq(NTs(g))
      /\ \A x : x \in Waiting => x = n \/ x \in Waiting'
  <2>1. PICK s : s = todo.nts
    OBVIOUS
  <2>2. s \in Seq(NTs(g)) /\ s # <<>>
    BY <1>1, <1>2, <2>1
  <2>3. /\ Head(s) \in NTs(g) /\ Tail(s) \in Seq(NTs(g))
        /\ \A x : x \in {s[i] : i \in DOMAIN s}
                    => x = Head(s) \/ x \in {Tail(s)[i] : i \in DOMAIN Tail(s)}
    BY <2>2, HeadAndTail
  <2>4. /\ Waiting = {s[i] : i \in DOMAIN s} /\ n = Head(s)
        /\ Waiting' = {Tail(s)[i] : i \in DOMAIN Tail(s)} /\ todo'.nts = Tail(s)
    BY <1>3, <2>1 DEF Waiting
  <2> HIDE DEF n
  <2> QED BY <2>3, <2>4
<1>5. /\ declared' = declared \cup Defines(n) /\ used' = used \cup Uses(n)
      /\ within' = within \cup
           IF form = "rng" /\ ListOfChoice(n) THEN {<<n, g.to[FrontRef(n)]>>} ELSE {}
  BY <1>1, <1>2, Visits
<1> HIDE DEF n
<1>6. /\ \A m : /\ Defines(m)' = Defines(m) /\ Uses(m)' = Uses(m)
                /\ Printable(m)' = Printable(m) /\ ListOfChoice(m)' = ListOfChoice(m)
      /\ \A t : TerminalDefines(t)' = TerminalDefines(t)
      /\ AxiomUses' = AxiomUses /\ NTs(g)' = NTs(g)
      /\ \A d : Defined(d)' = Defined(d) /\ Named(d)' = Named(d)
  BY <1>1, SameSchema
<1>7. Shapes'
  BY <1>1, <1>2, <1>3, <1>4, <1>6 DEF SchemaInv, Shapes
<1>8. Printed'
  <2>1. /\ \A m \in NTs(g) : m \in Waiting \/ (/\ Printable(m)
                                               /\ Defines(m) \subseteq declared
                                               /\ Uses(m) \subseteq used)
        /\ form # "capnp" =>
              \A t \in g.terminals : t \in todo.terminals \/ TerminalDefines(t) \in declared
        /\ AxiomUses \subseteq used
        /\ \A d \in declared : Defined(d)
        /\ \A d \in used : Named(d)
    BY <1>1 DEF SchemaInv, Printed
  <2>2. \A m \in NTs(g) : m \in Waiting' \/ (/\ Printable(m)
                                             /\ Defines(m) \subseteq declared'
                                             /\ Uses(m) \subseteq used')
    BY <1>1, <1>4, <1>5, <2>1
  <2>3. form # "capnp" =>
           \A t \in g.terminals : t \in todo'.terminals \/ TerminalDefines(t) \in declared'
    BY <1>3, <1>5, <2>1
  <2>4. \A d \in declared' : Defined(d)
    BY <1>4, <1>5, <2>1 DEF Defined
  <2>5. \A d \in used' : Named(d)
    BY <1>4, <1>5, <2>1 DEF Named
  <2>6. AxiomUses \subseteq used'
    BY <1>5, <2>1
  <2> QED BY <1>1, <1>6, <2>2, <2>3, <2>4, <2>5, <2>6 DEF Printed
<1>9. Nested'
  BY <1>1, <1>4, <1>5, <1>6 DEF SchemaInv, Nested
<1> QED BY <1>7, <1>8, <1>9 DEF SchemaInv

LEMMA NextSchemaInv == ASSUME SchemaInv, [DotNext]_<<vars, dotVars>> PROVE SchemaInv'
<1>1. CASE PrintAxiom
  <2>1. /\ pc = "axiom" /\ pc' = "print"
        /\ UNCHANGED <<g, form, any_attribute, todo, within>>
        /\ XsdAxiom \/ RngAxiom \/ CapnpAxiom
    BY <1>1 DEF PrintAxiom
  <2>2. form \in {"xsd", "rng", "capnp"}
    BY <2>1 DEF SchemaInv, Shapes
  <2>3. declared' = declared /\ used' = used \cup AxiomUses
    <3>1. CASE XsdAxiom
      BY <3>1 DEF XsdAxiom, Write, AxiomUses, AxiomTypes
    <3>2. CASE RngAxiom
      BY <3>2 DEF RngAxiom, Write, AxiomUses
    <3>3. CASE CapnpAxiom
      BY <3>3 DEF CapnpAxiom, Write, AxiomUses
    <3> QED BY <2>1, <3>1, <3>2, <3>3
  <2>4. /\ \A m : /\ Defines(m)' = Defines(m) /\ Uses(m)' = Uses(m)
                  /\ Printable(m)' = Printable(m) /\ ListOfChoice(m)' = ListOfChoice(m)
        /\ \A t : TerminalDefines(t)' = TerminalDefines(t)
        /\ AxiomUses' = AxiomUses /\ NTs(g)' = NTs(g)
        /\ \A d : Defined(d)' = Defined(d) /\ Named(d)' = Named(d)
    BY <2>1, SameSchema
  <2>5. Waiting' = Waiting
    BY <2>1 DEF Waiting
  <2>6. Shapes' /\ Nested'
    BY <2>1, <2>4 DEF SchemaInv, Shapes, Nested
  <2>7. \A d \in AxiomUses : Named(d)
    BY DEF Named
  <2>8. Printed'
    BY <2>1, <2>3, <2>4, <2>5, <2>7 DEF SchemaInv, Printed
  <2> QED BY <2>6, <2>8 DEF SchemaInv
<1>2. ASSUME NEW t \in g.terminals, VisitTerminal(t) PROVE SchemaInv'
  <2>1. /\ pc = "print" /\ todo.nts = <<>> /\ t \in todo.terminals
        /\ declared' = declared \cup {TerminalDefines(t)} /\ used' = used
        /\ todo' = [todo EXCEPT !.terminals = @ \ {t}]
        /\ UNCHANGED <<g, form, any_attribute, within, pc>>
    BY <1>2 DEF VisitTerminal, Write, TerminalDefines
  <2>2. /\ \A m : /\ Defines(m)' = Defines(m) /\ Uses(m)' = Uses(m)
                  /\ Printable(m)' = Printable(m) /\ ListOfChoice(m)' = ListOfChoice(m)
        /\ \A x : TerminalDefines(x)' = TerminalDefines(x)
        /\ AxiomUses' = AxiomUses /\ NTs(g)' = NTs(g)
        /\ \A d : Defined(d)' = Defined(d) /\ Named(d)' = Named(d)
    BY <2>1, SameSchema
  <2>3. todo = [nts |-> todo.nts, terminals |-> todo.terminals]
    BY DEF SchemaInv, Shapes
  <2>4. todo'.nts = todo.nts /\ todo'.terminals = todo.terminals \ {t}
        /\ todo' = [nts |-> todo'.nts, terminals |-> todo'.terminals]
    BY <2>1, <2>3
  <2>5. Waiting' = Waiting
    BY <2>4 DEF Waiting
  <2>6. Shapes'
    BY <2>1, <2>2, <2>4 DEF SchemaInv, Shapes
  <2>7. Nested'
    BY <2>1, <2>2 DEF SchemaInv, Nested
  <2>8. form # "capnp"
    BY <2>1 DEF SchemaInv, Shapes
  <2>9. Defined(TerminalDefines(t))
    BY <1>2, <2>8 DEF Defined
  <2>10. Printed'
    BY <2>1, <2>2, <2>4, <2>5, <2>9 DEF SchemaInv, Printed
  <2> QED BY <2>6, <2>7, <2>10 DEF SchemaInv
<1>3. ASSUME UNCHANGED <<g, form, any_attribute, todo, declared, used, within>>,
             \/ pc' = pc
             \/ pc = "print" /\ pc' \in {"undefined", "done"}
                /\ (pc' = "done" => todo.nts = <<>> /\ todo.terminals = {})
      PROVE  SchemaInv'
  <2>1. /\ \A m : /\ Defines(m)' = Defines(m) /\ Uses(m)' = Uses(m)
                  /\ Printable(m)' = Printable(m) /\ ListOfChoice(m)' = ListOfChoice(m)
        /\ \A x : TerminalDefines(x)' = TerminalDefines(x)
        /\ AxiomUses' = AxiomUses /\ NTs(g)' = NTs(g)
        /\ \A d : Defined(d)' = Defined(d) /\ Named(d)' = Named(d)
    BY <1>3, SameSchema
  <2>2. Waiting' = Waiting
    BY <1>3 DEF Waiting
  <2>3. Shapes' /\ Nested'
    BY <1>3, <2>1 DEF SchemaInv, Shapes, Nested
  <2>4. Printed'
    BY <1>3, <2>1, <2>2 DEF SchemaInv, Printed
  <2> QED BY <2>3, <2>4 DEF SchemaInv
<1>4. CASE PrintShape
  <2>1. /\ pc = "dot" /\ pc' = "dot" /\ todo.nts # <<>>
        /\ todo' = [todo EXCEPT !.nts = Tail(@)]
        /\ UNCHANGED <<g, form, within>>
    BY <1>4 DEF PrintShape
  <2>2. /\ todo = [nts |-> todo.nts, terminals |-> todo.terminals]
        /\ todo.nts \in Seq(NTs(g)) /\ todo.terminals \subseteq g.terminals
    BY DEF SchemaInv, Shapes
  <2>3. /\ todo'.nts = Tail(todo.nts) /\ todo'.terminals = todo.terminals
        /\ todo' = [nts |-> todo'.nts, terminals |-> todo'.terminals]
    BY <2>1, <2>2
  <2>4. Tail(todo.nts) \in Seq(NTs(g)) /\ NTs(g)' = NTs(g)
    BY <2>1, <2>2, HeadAndTail
  <2>5. Shapes'
    BY <2>1, <2>2, <2>3, <2>4 DEF SchemaInv, Shapes
  <2>6. within = {}
    BY <2>1 DEF SchemaInv, Nested
  <2> QED BY <2>1, <2>5, <2>6 DEF SchemaInv, Nested, Printed
<1>5. CASE VisitEmpty
  BY <1>3, <1>5 DEF VisitEmpty
<1>6. CASE Finish
  BY <1>3, <1>6 DEF Finish
<1>7. CASE PrintRef \/ UNCHANGED <<vars, dotVars>>
  BY <1>3, <1>7 DEF PrintRef, vars
<1> QED BY <1>1, <1>2, <1>4, <1>5, <1>6, <1>7, VisitSchemaInv DEF DotNext, Next

LEMMA AlwaysSchemaInv == DotSpec => []SchemaInv
BY InitSchemaInv, NextSchemaInv, PTL DEF DotSpec

\* A list of an untagged CHOICE names the CHOICE, which is no list.
LEMMA ChoiceIsNoList ==
    ASSUME g \in Grammars, NEW n \in NTs(g), Printable(n), form = "rng", ListOfChoice(n)
    PROVE  /\ g.to[FrontRef(n)] \in NTs(g) \/ g.to[FrontRef(n)] \in g.terminals
           /\ ~ListOfChoice(g.to[FrontRef(n)])
           /\ g.to[FrontRef(n)] \in NTs(g)
<1> DEFINE r == FrontRef(n)  end == Effective(g, r)  m == g.to[r]
<1>1. IsList(n) /\ UntaggedChoice(end)
  BY DEF ListOfChoice
<1>2. g.type[n] \in {"LIST", "SET"} /\ end \in NTs(g) /\ g.type[end] = "CHOICE"
  BY <1>1 DEF IsList, UntaggedChoice
<1>3. RefsIn(g, n) # {} /\ end # None
  BY <1>1 DEF Printable, NoFront, Returns, Asked
<1>4. r \in Refs(g) /\ IsGrammar(g) /\ NTs(g) \cap g.terminals = {}
      /\ Symbols(g) = NTs(g) \cup g.terminals
  BY <1>3, Escapes
<1>5. r[1] = n
  BY DEF FrontRef
<1>6. /\ m \in Symbols(g)
      /\ m \notin LinkNTs(g) => end \in {n, m}
  BY <1>3, <1>4, <1>5, Ends
<1> HIDE DEF r, end, m
<1>7. end # n
  BY <1>2
<1>8. m \in LinkNTs(g) \/ m = end
  BY <1>6, <1>7
<1>9. m \in NTs(g) /\ ~IsList(m)
  BY <1>2, <1>8 DEF LinkNTs, IsList
<1>10. m \in NTs(g) /\ ~ListOfChoice(m)
  BY <1>9 DEF ListOfChoice
<1> QED BY <1>10 DEF m, r

\* A define that leads to itself does so through an element.
THEOREM RecursionExact == DotSpec => []RecursionInElements
<1>1. ASSUME SchemaInv PROVE RecursionInElements
  <2>1. SUFFICES ASSUME NEW S \in SUBSET NTs(g), S # {},
                        \A n \in S : \E m \in S : <<n, m>> \in within
                 PROVE  FALSE
    BY DEF RecursionInElements
  <2>2. PICK n \in S, m \in S : <<n, m>> \in within
    BY <2>1
  <2>3. PICK k \in S : <<m, k>> \in within
    BY <2>1
  <2>4. /\ n \in NTs(g) /\ Printable(n) /\ g \in Grammars /\ form = "rng"
        /\ ListOfChoice(n) /\ m = g.to[FrontRef(n)]
        /\ ListOfChoice(m)
    BY <1>1, <2>2, <2>3 DEF SchemaInv, Nested, Shapes
  <2> QED BY <2>4, ChoiceIsNoList
<1> QED BY <1>1, AlwaysSchemaInv, PTL

-----------------------------------------------------------------------------
\* What a finished schema has.
LEMMA DoneHas ==
    ASSUME SchemaInv, pc = "done"
    PROVE  /\ g \in Grammars /\ form \in {"xsd", "rng", "capnp"}
           /\ \A d : d \in declared <=> Defined(d)
           /\ \A d : d \in used <=> Named(d)
           /\ \A n \in NTs(g) : Printable(n)
<1>1. g \in Grammars /\ form \in {"xsd", "rng", "capnp"} /\ Waiting = {}
      /\ todo.terminals = {}
  BY DEF SchemaInv, Shapes, Printed, Waiting
<1>2. /\ \A n \in NTs(g) : Printable(n) /\ Defines(n) \subseteq declared /\ Uses(n) \subseteq used
      /\ form # "capnp" => \A t \in g.terminals : TerminalDefines(t) \in declared
      /\ AxiomUses \subseteq used
      /\ \A d \in declared : Defined(d)
      /\ \A d \in used : Named(d)
  BY <1>1 DEF SchemaInv, Printed
<1>3. \A d : Defined(d) => d \in declared
  BY <1>2 DEF Defined
<1>4. \A d : Named(d) => d \in used
  BY <1>2 DEF Named
<1> QED BY <1>1, <1>2, <1>3, <1>4

\* An element is named by the symbol of the reference when that ends in a
\* terminal, and by the end otherwise.
LEMMA ElementNames ==
    ASSUME g \in Grammars, NEW r \in Refs(g), Effective(g, r) # None
    PROVE  \/ /\ Terminal(Effective(g, r))
              /\ ElementType(r) = Escaped(g.to[r]) /\ g.to[r] \in Symbols(g)
              /\ ~UntaggedChoice(g.to[r])
           \/ /\ Effective(g, r) \in NTs(g)
              /\ ElementType(r) = Effective(g, r)
<1> DEFINE end == Effective(g, r)  t == g.to[r]
<1>1. /\ r[1] \in NTs(g) /\ t \in Symbols(g) /\ end \in Symbols(g)
      /\ t \notin LinkNTs(g) => end \in {r[1], t}
  BY Escapes, Ends
<1>2. /\ NTs(g) \cap g.terminals = {} /\ Symbols(g) = NTs(g) \cup g.terminals
      /\ \A s \in NTs(g) : Escaped(s) = s
  BY Escapes
<1>3. ElementType(r) = Escaped(IF Terminal(end) THEN t ELSE end)
  BY DEF ElementType
<1> HIDE DEF end, t
<1>4. CASE end \in g.terminals
  <2>1. ~UntaggedChoice(t)
    BY <1>1, <1>2, <1>4 DEF UntaggedChoice, LinkNTs
  <2>2. Terminal(end) /\ ElementType(r) = Escaped(t)
    BY <1>3, <1>4 DEF Terminal
  <2> QED BY <1>1, <2>1, <2>2 DEF end, t
<1>5. CASE end \in NTs(g)
  <2>1. ElementType(r) = end
    BY <1>2, <1>3, <1>5 DEF Terminal
  <2> QED BY <1>5, <2>1 DEF end
<1> QED BY <1>1, <1>2, <1>4, <1>5

\* The references a visit of XSD or RelaxNG writes as elements are there, and
\* their effective symbols.
LEMMA ElementRefs ==
    ASSUME g \in Grammars, form \in {"xsd", "rng"}, NEW n \in NTs(g), Printable(n)
    PROVE  /\ FrontRef(n) \in Refs(g) /\ Effective(g, FrontRef(n)) # None
           /\ IsList(n) \/ \A r \in RefsIn(g, n) : Effective(g, r) # None
           /\ Elements(n) \subseteq RefsIn(g, n)
           /\ \A r \in Elements(n) : r \in Refs(g) /\ Effective(g, r) # None /\ r[1] = n
<1>1. RefsIn(g, n) # {} /\ Returns(Asked(n)) /\ FrontRef(n) \in Refs(g)
  BY Escapes DEF Printable, NoFront
<1>2. FrontRef(n)[1] = n /\ FrontRef(n) \in RefsIn(g, n)
  BY <1>1 DEF FrontRef, RefsIn
<1>3. Asked(n) = IF IsList(n) THEN {FrontRef(n)} ELSE RefsIn(g, n)
  BY DEF Asked
<1>4. FrontRef(n) \in Asked(n)
  BY <1>2, <1>3
<1>5. Elements(n) \subseteq Asked(n)
  <2>1. Elements(n) = IF Restricts(n) \/ ListOfChoice(n) THEN {}
                      ELSE IF IsList(n) THEN {FrontRef(n)} ELSE RefsIn(g, n)
    <3>1. Restricts(n) => ~IsList(n)
      BY DEF Restricts, IsList
    <3> QED BY <3>1 DEF Elements
  <2> QED BY <1>3, <2>1
<1>6. Asked(n) \subseteq RefsIn(g, n) /\ \A r \in RefsIn(g, n) : r \in Refs(g) /\ r[1] = n
  BY <1>2, <1>3 DEF RefsIn
<1>7. \A r \in Asked(n) : Effective(g, r) # None
  BY <1>1 DEF Returns
<1> QED BY <1>1, <1>3, <1>4, <1>5, <1>6, <1>7

-----------------------------------------------------------------------------
\* RelaxNG: every name is defined.
LEMMA RngResolves ==
    ASSUME g \in Grammars, form = "rng", \A n \in NTs(g) : Printable(n),
           NEW d, Named(d)
    PROVE  Defined(d)
<1>1. /\ NTs(g) \cap g.terminals = {} /\ Symbols(g) = NTs(g) \cup g.terminals
      /\ \A s \in NTs(g) : Escaped(s) = s
      /\ g.axiom \in NTs(g)
  BY Escapes DEF IsGrammar
<1>2. \A s \in Symbols(g) : Defined(<<"define", Escaped(s)>>)
  <2>1. ASSUME NEW s \in NTs(g) PROVE Defined(<<"define", Escaped(s)>>)
    BY <1>1 DEF Defined, Defines
  <2>2. ASSUME NEW s \in g.terminals PROVE Defined(<<"define", Escaped(s)>>)
    BY DEF Defined, TerminalDefines
  <2> QED BY <1>1, <2>1, <2>2
<1>3. CASE d \in AxiomUses
  <2>1. d = <<"define", g.axiom>>
    BY <1>3 DEF AxiomUses
  <2>2. Escaped(g.axiom) = g.axiom /\ g.axiom \in Symbols(g)
    BY <1>1
  <2> QED BY <1>2, <2>1, <2>2
<1>4. ASSUME NEW n \in NTs(g), d \in Uses(n) PROVE Defined(d)
  <2>1. Uses(n) = {"define"} \X ((IF ListOfChoice(n) THEN {g.to[FrontRef(n)]} ELSE {})
                                   \cup ElementTypes(Elements(n)))
    BY DEF Uses
  <2>2. CASE ListOfChoice(n) /\ d = <<"define", g.to[FrontRef(n)]>>
    <3>1. g.to[FrontRef(n)] \in NTs(g)
      BY <2>2, ChoiceIsNoList
    <3> QED BY <1>1, <1>2, <2>2, <3>1
  <2>3. ASSUME NEW r \in Elements(n), d = <<"define", ElementType(r)>> PROVE Defined(d)
    <3>1. r \in Refs(g) /\ Effective(g, r) # None
      BY ElementRefs
    <3>2. \E s \in Symbols(g) : ElementType(r) = Escaped(s)
      BY <1>1, <3>1, ElementNames
    <3> QED BY <1>2, <2>3, <3>2
  <2> QED BY <1>4, <2>1, <2>2, <2>3 DEF ElementTypes
<1> QED BY <1>3, <1>4 DEF Named

-----------------------------------------------------------------------------
\* XSD: the symbols that are types are those that are not untagged CHOICEs, which
\* are groups, and, of the terminals, those without blanks.
LEMMA XsdTypes ==
    ASSUME g \in Grammars, form = "xsd"
    PROVE  /\ \A s \in Symbols(g) : ~UntaggedChoice(s) => Defined(<<"type", Escaped(s)>>)
           /\ \A s \in Symbols(g) : Defined(<<"type", s>>) <=> ~UntaggedChoice(s) /\ Escaped(s) = s
           /\ \A s \in NTs(g) : UntaggedChoice(s) => Defined(<<"group", s>>)
           /\ \A n \in NTs(g) : Restricts(n) /\ any_attribute => Defined(<<"type", BaseOf(n)>>)
<1>1. /\ NTs(g) \cap g.terminals = {} /\ Symbols(g) = NTs(g) \cup g.terminals
      /\ \A s \in NTs(g) : Escaped(s) = s
      /\ \A t \in g.terminals : Escaped(t) = t \/ Escaped(t) \notin Symbols(g)
      /\ \A n \in NTs(g) : BaseOf(n) \notin Symbols(g)
  BY Escapes
<1>2. \A n \in NTs(g) : Restricts(n) => ~UntaggedChoice(n)
  BY DEF Restricts, UntaggedChoice
<1>3. \A n : Defines(n) = IF Restricts(n)
                            THEN {"type"} \X IF any_attribute THEN {n, BaseOf(n)} ELSE {n}
                            ELSE {<<IF UntaggedChoice(n) THEN "group" ELSE "type", n>>}
  BY DEF Defines
<1>4. \A n \in NTs(g) : ~UntaggedChoice(n) => <<"type", n>> \in Defines(n)
  BY <1>3
<1>5. \A n \in NTs(g) : UntaggedChoice(n) => <<"group", n>> \in Defines(n)
  BY <1>2, <1>3
<1>6. \A n \in NTs(g) : Restricts(n) /\ any_attribute => <<"type", BaseOf(n)>> \in Defines(n)
  BY <1>3
<1>7. \A s : \A n \in NTs(g) : <<"type", s>> \in Defines(n)
         => s = BaseOf(n) \/ (s = n /\ ~UntaggedChoice(n))
  BY <1>2, <1>3
<1>8. \A t : TerminalDefines(t) = <<"type", Escaped(t)>>
  BY DEF TerminalDefines
<1>9. \A d : Defined(d) <=> \/ \E n \in NTs(g) : d \in Defines(n)
                            \/ \E t \in g.terminals : d = <<"type", Escaped(t)>>
  BY <1>8 DEF Defined
<1>10. \A s \in Symbols(g) : ~UntaggedChoice(s) => Defined(<<"type", Escaped(s)>>)
  BY <1>1, <1>4, <1>9
<1>11. ASSUME NEW s \in Symbols(g), Defined(<<"type", s>>)
       PROVE  ~UntaggedChoice(s) /\ Escaped(s) = s
  <2>1. CASE \E n \in NTs(g) : <<"type", s>> \in Defines(n)
    BY <1>1, <1>7, <1>11, <2>1
  <2>2. CASE \E t \in g.terminals : <<"type", s>> = <<"type", Escaped(t)>>
    <3>1. PICK t \in g.terminals : s = Escaped(t)
      BY <2>2
    <3>2. t = s
      BY <1>1, <1>11, <3>1
    <3> QED BY <1>1, <3>1, <3>2 DEF UntaggedChoice
  <2> QED BY <1>9, <1>11, <2>1, <2>2
<1>12. \A s \in Symbols(g) : ~UntaggedChoice(s) /\ Escaped(s) = s => Defined(<<"type", s>>)
  BY <1>10
<1>13. /\ \A s \in NTs(g) : UntaggedChoice(s) => Defined(<<"group", s>>)
       /\ \A n \in NTs(g) : Restricts(n) /\ any_attribute => Defined(<<"type", BaseOf(n)>>)
  BY <1>5, <1>6, <1>9
<1> QED BY <1>10, <1>11, <1>12, <1>13

-----------------------------------------------------------------------------
\* The symbols Dangling is about.
ChoiceAsType(s) ==
    /\ s \in NTs(g) /\ UntaggedChoice(s)
    /\ \E n \in NTs(g), r \in Refs(g) : r[1] = n /\ ~IsList(n) /\ Effective(g, r) = s
AxiomOnly(s) ==
    /\ s \in Symbols(g) /\ (UntaggedChoice(s) \/ Escaped(s) # s)
    /\ UntaggedChoice(g.axiom) /\ \E r \in RefsIn(g, g.axiom) : g.to[r] = s
ListInList(s) ==
    /\ s \in NTs(g) /\ ListNT(s)
    /\ \E r, q \in Refs(g) : /\ IsStruct(r[1]) /\ ListNT(Effective(g, r))
                             /\ q = FrontRef(Effective(g, r)) /\ Effective(g, q) = s

LEMMA XsdDangling ==
    ASSUME form = "xsd", NEW d
    PROVE  d \in Dangling <=> \E s : d = <<"type", s>> /\ (ChoiceAsType(s) \/ AxiomOnly(s))
<1> DEFINE S == {s \in NTs(g) : /\ UntaggedChoice(s)
                                /\ \E n \in NTs(g), r \in Refs(g) :
                                      /\ r[1] = n /\ ~IsList(n)
                                      /\ Effective(g, r) = s}
           T == {s \in Symbols(g) : /\ UntaggedChoice(s) \/ Escaped(s) # s
                                    /\ UntaggedChoice(g.axiom)
                                    /\ \E r \in RefsIn(g, g.axiom) : g.to[r] = s}
<1>1. Dangling = {"type"} \X (S \cup T)
  BY DEF Dangling
<1>2. \A s : s \in S <=> ChoiceAsType(s)
  BY DEF ChoiceAsType
<1>3. \A s : s \in T <=> AxiomOnly(s)
  BY DEF AxiomOnly
<1> HIDE DEF S, T
<1> QED BY <1>1, <1>2, <1>3

LEMMA CapnpDangling ==
    ASSUME form = "capnp", NEW d
    PROVE  d \in Dangling <=> \E s : d = <<"struct", s>> /\ ListInList(s)
<1> DEFINE S == {s \in NTs(g) : /\ ListNT(s)
                                /\ \E r, q \in Refs(g) :
                                      /\ IsStruct(r[1]) /\ ListNT(Effective(g, r))
                                      /\ q = FrontRef(Effective(g, r))
                                      /\ Effective(g, q) = s}
<1>1. Dangling = {"struct"} \X S
  BY DEF Dangling
<1>2. \A s : s \in S <=> ListInList(s)
  BY DEF ListInList
<1> HIDE DEF S
<1> QED BY <1>1, <1>2

LEMMA XsdResolves ==
    ASSUME g \in Grammars, form = "xsd", \A n \in NTs(g) : Printable(n), NEW d
    PROVE  Named(d) /\ ~Defined(d) <=> d \in Dangling
<1>1. /\ NTs(g) \cap g.terminals = {} /\ Symbols(g) = NTs(g) \cup g.terminals
      /\ \A s \in NTs(g) : Escaped(s) = s
      /\ g.axiom \in NTs(g)
      /\ \A r \in Refs(g) : g.to[r] \in Symbols(g) /\ r[1] \in NTs(g)
      /\ \A n \in NTs(g) : g.type[n] = "LINK" => RefsIn(g, n) = {FrontRef(n)}
  BY Escapes DEF IsGrammar
<1>2. \A s : UntaggedChoice(s) => s \in NTs(g)
  BY DEF UntaggedChoice
<1>3. \A n, r : r \in RefsIn(g, n) <=> r \in Refs(g) /\ r[1] = n
  BY DEF RefsIn
<1>4. ASSUME d \in AxiomUses, ~Defined(d)
      PROVE  \E s : d = <<"type", s>> /\ AxiomOnly(s)
  <2>1. PICK s \in AxiomTypes : d = <<"type", s>>
    BY <1>4 DEF AxiomUses
  <2>2. s \in Symbols(g)
    BY <1>1, <1>3, <2>1 DEF AxiomTypes
  <2>3. UntaggedChoice(s) \/ Escaped(s) # s
    BY <1>4, <2>1, <2>2, XsdTypes
  <2>4. UntaggedChoice(g.axiom)
    BY <1>1, <2>1, <2>3 DEF AxiomTypes
  <2>5. \E r \in RefsIn(g, g.axiom) : g.to[r] = s
    BY <2>1, <2>4 DEF AxiomTypes
  <2> QED BY <2>1, <2>2, <2>3, <2>4, <2>5 DEF AxiomOnly
<1>5. ASSUME NEW n \in NTs(g), d \in Uses(n), ~Defined(d)
      PROVE  \E s : d = <<"type", s>> /\ ChoiceAsType(s)
  <2>1. CASE Restricts(n)
    <3> DEFINE end == Effective(g, FrontRef(n))
    <3>1. d = <<"type", Escaped(end)>> \/ (any_attribute /\ d = <<"type", BaseOf(n)>>)
      BY <1>5, <2>1 DEF Uses
    <3>2. end \in g.terminals
      BY <2>1 DEF Restricts, Terminal
    <3> HIDE DEF end
    <3>3. end \in Symbols(g) /\ ~UntaggedChoice(end)
      BY <1>1, <1>2, <3>2
    <3> QED BY <1>5, <2>1, <3>1, <3>3, XsdTypes
  <2>2. CASE ~Restricts(n)
    <3>1. \/ ListOfChoice(n) /\ d = <<"group", Effective(g, FrontRef(n))>>
          \/ \E r \in Elements(n) : d = <<"type", ElementType(r)>>
      BY <1>5, <2>2 DEF Uses, ElementTypes
    <3>2. ASSUME ListOfChoice(n), d = <<"group", Effective(g, FrontRef(n))>>
          PROVE  FALSE
      <4>1. PICK s : s = Effective(g, FrontRef(n))
        OBVIOUS
      <4>2. UntaggedChoice(s) /\ s \in NTs(g)
        BY <1>2, <3>2, <4>1 DEF ListOfChoice
      <4> QED BY <1>5, <3>2, <4>1, <4>2, XsdTypes
    <3>3. PICK r \in Elements(n) : d = <<"type", ElementType(r)>>
      BY <3>1, <3>2
    <3>4. r \in Refs(g) /\ Effective(g, r) # None /\ r[1] = n
      BY ElementRefs
    <3>5. PICK s : s = Effective(g, r)
      OBVIOUS
    <3>6. s \in NTs(g) /\ d = <<"type", s>>
      <4>1. \/ /\ ElementType(r) = Escaped(g.to[r]) /\ g.to[r] \in Symbols(g)
               /\ ~UntaggedChoice(g.to[r])
            \/ s \in NTs(g) /\ ElementType(r) = s
        BY <3>4, <3>5, ElementNames
      <4>2. ~(/\ ElementType(r) = Escaped(g.to[r]) /\ g.to[r] \in Symbols(g)
              /\ ~UntaggedChoice(g.to[r]))
        BY <1>5, <3>3, XsdTypes
      <4> QED BY <3>3, <4>1, <4>2
    <3>7. UntaggedChoice(s)
      BY <1>1, <1>5, <3>6, XsdTypes
    <3>8. ~IsList(n)
      <4>1. IsList(n) => ~ListOfChoice(n) /\ Elements(n) \subseteq {FrontRef(n)}
        BY <2>2, <3>3 DEF Elements
      <4>2. IsList(n) => r = FrontRef(n)
        BY <3>3, <4>1
      <4> QED BY <3>5, <3>7, <4>1, <4>2 DEF ListOfChoice
    <3> QED BY <3>4, <3>5, <3>6, <3>7, <3>8 DEF ChoiceAsType
  <2> QED BY <2>1, <2>2
<1>6. ASSUME NEW s, ChoiceAsType(s)
      PROVE  Named(<<"type", s>>) /\ ~Defined(<<"type", s>>)
  <2>1. s \in NTs(g) /\ UntaggedChoice(s) /\ s \in Symbols(g)
    BY <1>1, <1>6 DEF ChoiceAsType
  <2>2. PICK n \in NTs(g), r \in Refs(g) : r[1] = n /\ ~IsList(n) /\ Effective(g, r) = s
    BY <1>6 DEF ChoiceAsType
  <2>3. r \in RefsIn(g, n) /\ Effective(g, r) # None
    BY <1>3, <2>2, ElementRefs
  <2>4. ~Restricts(n)
    <3>1. Restricts(n) => r = FrontRef(n)
      BY <1>1, <2>3 DEF Restricts
    <3>2. ~Terminal(s)
      BY <1>1, <2>1 DEF Terminal
    <3> QED BY <2>2, <3>1, <3>2 DEF Restricts
  <2>5. r \in Elements(n)
    BY <2>2, <2>3, <2>4 DEF Elements, ListOfChoice
  <2>6. ElementType(r) = s
    <3>1. ~Terminal(Effective(g, r))
      BY <1>1, <2>1, <2>2 DEF Terminal
    <3> QED BY <2>2, <2>3, <3>1, ElementNames
  <2>7. <<"type", s>> \in Uses(n)
    BY <2>4, <2>5, <2>6 DEF Uses, ElementTypes
  <2>8. ~Defined(<<"type", s>>)
    BY <2>1, XsdTypes
  <2> QED BY <2>7, <2>8 DEF Named
<1>7. ASSUME NEW s, AxiomOnly(s)
      PROVE  Named(<<"type", s>>) /\ ~Defined(<<"type", s>>)
  <2>1. <<"type", s>> \in AxiomUses
    BY <1>7 DEF AxiomOnly, AxiomUses, AxiomTypes
  <2>2. ~Defined(<<"type", s>>)
    BY <1>7, XsdTypes DEF AxiomOnly
  <2> QED BY <2>1, <2>2 DEF Named
<1>8. d \in Dangling <=> \E s : d = <<"type", s>> /\ (ChoiceAsType(s) \/ AxiomOnly(s))
  BY XsdDangling
<1>9. Named(d) /\ ~Defined(d) => d \in Dangling
  BY <1>4, <1>5, <1>8 DEF Named
<1>10. d \in Dangling => Named(d) /\ ~Defined(d)
  BY <1>6, <1>7, <1>8
<1> QED BY <1>9, <1>10

LEMMA CapnpResolves ==
    ASSUME g \in Grammars, form = "capnp", \A n \in NTs(g) : Printable(n), NEW d
    PROVE  Named(d) /\ ~Defined(d) <=> d \in Dangling
<1>1. /\ NTs(g) \cap g.terminals = {} /\ IsGrammar(g)
      /\ \A r \in Refs(g) : r[1] \in NTs(g)
      /\ \A n \in NTs(g) : RefsIn(g, n) # {} => FrontRef(n) \in Refs(g)
  BY Escapes DEF IsGrammar
<1>2. Defined(d) <=> \E n \in NTs(g) : IsStruct(n) /\ d = <<"struct", n>>
  BY DEF Defined, Defines
<1>3. Named(d) <=> \E n \in NTs(g) : /\ IsStruct(n)
                                     /\ \E r \in RefsIn(g, n) : /\ FieldType(r) \in NTs(g)
                                                                /\ d = <<"struct", FieldType(r)>>
  BY DEF Named, AxiomUses, Uses
<1>4. d \in Dangling <=> \E s : d = <<"struct", s>> /\ ListInList(s)
  BY CapnpDangling
<1>5. \A s \in NTs(g) : g.type[s] = "LINK" <=> s \in LinkNTs(g)
  BY DEF LinkNTs
<1>6. ASSUME Named(d), ~Defined(d) PROVE d \in Dangling
  <2>0. PICK n \in NTs(g) : /\ IsStruct(n)
                            /\ \E r \in RefsIn(g, n) : /\ FieldType(r) \in NTs(g)
                                                       /\ d = <<"struct", FieldType(r)>>
    BY <1>3, <1>6
  <2>1. PICK r \in RefsIn(g, n) :
           IsStruct(n) /\ FieldType(r) \in NTs(g) /\ d = <<"struct", FieldType(r)>>
    BY <2>0
  <2>2. PICK s : s = FieldType(r)
    OBVIOUS
  <2>3. s \in NTs(g) /\ ~IsStruct(s)
    BY <1>2, <1>6, <2>1, <2>2
  <2>4. r \in Refs(g) /\ r[1] = n
    BY <2>1 DEF RefsIn
  <2>5. Returns(Asked(n)) /\ ~NoFront(n)
    BY DEF Printable
  <2>6. PICK end : end = Effective(g, r)
    OBVIOUS
  <2>7. Asked(n) = RefsIn(g, n) \cup {FrontRef(Effective(g, p)) :
                      p \in {q \in RefsIn(g, n) : ListNT(Effective(g, q))}}
    BY <2>1 DEF Asked
  <2>8. end # None /\ (end \in LinkNTs(g) => end = n)
    BY <1>1, <2>4, <2>5, <2>6, <2>7, Ends DEF Returns
  <2>9. CASE ListNT(end)
    <3>1. PICK q : q = FrontRef(end)
      OBVIOUS
    <3>2. q \in Refs(g) /\ q[1] = end /\ s = Effective(g, q)
      <4>1. RefsIn(g, end) # {} /\ end \in NTs(g)
        BY <2>1, <2>5, <2>6, <2>9 DEF NoFront, ListNT
      <4>2. q[1] = end
        BY <3>1 DEF FrontRef
      <4> QED BY <1>1, <2>2, <2>6, <2>9, <3>1, <4>1, <4>2 DEF FieldType
    <3>3. Effective(g, q) # None
      BY <2>1, <2>5, <2>6, <2>7, <2>9, <3>1 DEF Returns
    <3>4. s \in LinkNTs(g) => s = end
      BY <1>1, <3>2, <3>3, Ends
    <3>5. g.type[s] # "LINK"
      BY <1>5, <2>3, <2>9, <3>4 DEF ListNT
    <3>6. ListNT(s)
      BY <2>3, <3>5 DEF ListNT, IsStruct
    <3>7. ListInList(s)
      BY <2>1, <2>3, <2>4, <2>6, <2>9, <3>1, <3>2, <3>6 DEF ListInList
    <3> QED BY <1>4, <2>1, <2>2, <3>7
  <2>10. CASE ~ListNT(end)
    <3>1. s = end
      BY <2>2, <2>6, <2>10 DEF FieldType
    <3>2. g.type[s] = "LINK"
      BY <2>3, <2>10, <3>1 DEF ListNT, IsStruct
    <3>3. s = n
      BY <1>5, <2>3, <2>8, <3>1, <3>2
    <3> QED BY <2>1, <2>3, <3>3
  <2> QED BY <2>9, <2>10
<1>7. ASSUME d \in Dangling PROVE Named(d) /\ ~Defined(d)
  <2>1. PICK s : d = <<"struct", s>> /\ ListInList(s)
    BY <1>4, <1>7
  <2>2. PICK r \in Refs(g), q \in Refs(g) :
           /\ IsStruct(r[1]) /\ ListNT(Effective(g, r))
           /\ q = FrontRef(Effective(g, r)) /\ Effective(g, q) = s
    BY <2>1 DEF ListInList
  <2>3. s \in NTs(g) /\ ListNT(s)
    BY <2>1 DEF ListInList
  <2>4. PICK n : n = r[1]
    OBVIOUS
  <2>5. n \in NTs(g) /\ r \in RefsIn(g, n) /\ IsStruct(n)
    BY <1>1, <2>2, <2>4 DEF RefsIn
  <2>6. FieldType(r) = s
    BY <2>2 DEF FieldType
  <2>7. Named(d)
    BY <1>3, <2>1, <2>3, <2>5, <2>6
  <2>8. ~IsStruct(s)
    BY <2>3 DEF ListNT, IsStruct
  <2> QED BY <1>2, <2>1, <2>7, <2>8
<1> QED BY <1>6, <1>7

\* A complete schema defines all it names but what Dangling says, for every
\* grammar: untagged CHOICEs as types and blanks under the axiom in XSD, LISTs in
\* LISTs in Cap'n Proto, nothing in RelaxNG.
THEOREM NamesExact == DotSpec => []NamesResolve
<1>1. ASSUME SchemaInv PROVE NamesResolve
  <2>1. SUFFICES ASSUME pc = "done" PROVE used \ declared = Dangling
    BY DEF NamesResolve
  <2>2. /\ g \in Grammars /\ form \in {"xsd", "rng", "capnp"}
        /\ \A d : d \in declared <=> Defined(d)
        /\ \A d : d \in used <=> Named(d)
        /\ \A n \in NTs(g) : Printable(n)
    BY <1>1, <2>1, DoneHas
  <2>3. CASE form = "rng"
    <3>1. Dangling = {}
      BY <2>3 DEF Dangling
    <3>2. \A d : Named(d) => Defined(d)
      BY <2>2, <2>3, RngResolves
    <3> QED BY <2>2, <3>1, <3>2
  <2>4. CASE form = "xsd"
    <3>1. \A d : Named(d) /\ ~Defined(d) <=> d \in Dangling
      BY <2>2, <2>4, XsdResolves
    <3> QED BY <2>2, <3>1
  <2>5. CASE form = "capnp"
    <3>1. \A d : Named(d) /\ ~Defined(d) <=> d \in Dangling
      BY <2>2, <2>5, CapnpResolves
    <3> QED BY <2>2, <3>1
  <2> QED BY <2>2, <2>3, <2>4, <2>5
<1> QED BY <1>1, AlwaysSchemaInv, PTL

-----------------------------------------------------------------------------
\* The statements about the grammar g.
Statement ==
    [kind : {"label"}, node : {"t_ref"} \X Nat, is : Symbols(g)]
    \cup [kind : {"edge"}, from : NTs(g), dashed : BOOLEAN,
          node : ({"symbol"} \X Symbols(g)) \cup ({"t_ref"} \X Nat)]
    \cup [kind : {"shape"}, node : {"symbol"} \X NTs(g), is : {"rect", "house", "octagon"}]

Length(n) == Cardinality(RefsIn(g, n))

\* What the loops are about to do.
Progress ==
    /\ g \in DotGrammars
    /\ todo = [nts |-> todo.nts, terminals |-> todo.terminals]
    /\ todo.nts \in Seq(NTs(g))
    /\ \A i, j \in DOMAIN todo.nts : todo.nts[i] = todo.nts[j] => i = j
    /\ pos \in Nat \ {0} /\ t_ref_counter \in Nat
    /\ todo.nts # <<>> => pos <= Length(Head(todo.nts)) + 1
    /\ file \in Seq(Statement)

\* The number of edges from n so far.
Drawn(n) == IF n \notin Waiting THEN Length(n)
            ELSE IF n = Head(todo.nts) THEN pos - 1 ELSE 0

\* The edge i is that of the reference with its number.
Means(i, r) ==
    /\ r \in Refs(g) /\ (file[i].dashed <=> r \in optional)
    /\ \/ file[i].node = NodeOf(g.to[r])
       \/ \E j \in Statements("label") : file[j].node = file[i].node /\ file[j].is = g.to[r]

Edges ==
    /\ \A n \in NTs(g) : Cardinality(EdgesFrom(n)) = Drawn(n)
    /\ \A i \in Statements("edge") : Means(i, <<file[i].from, Nth(i)>>)

\* Each node has one label or one shape.
Labels ==
    /\ \A i \in Statements("label") : \E k \in 0..(t_ref_counter - 1) : file[i].node = TRef(k)
    /\ \A i, j \in Statements("label") : file[i].node = file[j].node => i = j

ShapesOf ==
    /\ \A i \in Statements("shape") : \E n \in NTs(g) \ LinkNTs(g) :
          n \notin Waiting /\ file[i] = Shape(n, ShapeOf[g.type[n]])
    /\ \A i, j \in Statements("shape") : file[i].node = file[j].node => i = j
    /\ \A n \in NTs(g) \ LinkNTs(g) : n \notin Waiting =>
          \E i \in Statements("shape") : file[i].node = NodeOf(n)

DotInv == pc = "dot" => Progress /\ Edges /\ Labels /\ ShapesOf

-----------------------------------------------------------------------------
LEMMA Kinds ==
    /\ \A k, s : Label(k, s).kind = "label" /\ Label(k, s).node = TRef(k) /\ Label(k, s).is = s
    /\ \A n, x, r : /\ Edge(n, x, r).kind = "edge" /\ Edge(n, x, r).from = n
                    /\ Edge(n, x, r).node = x /\ (Edge(n, x, r).dashed <=> r \in optional)
    /\ \A n, s : Shape(n, s).kind = "shape" /\ Shape(n, s).node = NodeOf(n) /\ Shape(n, s).is = s
BY DEF Label, Edge, Shape

\* A grammar that is drawn.
LEMMA Drawing ==
    ASSUME g \in DotGrammars
    PROVE  /\ \A n \in NTs(g) : /\ Length(n) \in Nat
                                /\ \A p : <<n, p>> \in RefsIn(g, n) <=> p \in 1..Length(n)
           /\ \A r \in Refs(g) : g.to[r] \in Symbols(g) /\ r[1] \in NTs(g)
           /\ \A n \in NTs(g) \ LinkNTs(g) : ShapeOf[g.type[n]] \in {"rect", "house", "octagon"}
           /\ \A n \in NTs(g) : n \in LinkNTs(g) <=> g.type[n] = "LINK"
           /\ NTs(g) \subseteq Symbols(g)
<1>1. /\ IsGrammar(g)
      /\ \A n \in NTs(g) : RefsIn(g, n) = {n} \X (1..Length(n))
  BY DotAssumption DEF Length
<1>2. /\ IsFiniteSet(Refs(g)) /\ g.type \in [NTs(g) -> Types]
      /\ \A r \in Refs(g) : g.to[r] \in Symbols(g) /\ r[1] \in NTs(g)
  BY <1>1 DEF IsGrammar
<1>3. \A n \in NTs(g) : Length(n) \in Nat
  BY <1>2, FS_Subset, FS_CardinalityType DEF RefsIn, Length
<1>4. \A n \in NTs(g) : n \in LinkNTs(g) <=> g.type[n] = "LINK"
  BY DEF LinkNTs
<1>5. \A t \in Types \ {"LINK"} : ShapeOf[t] \in {"rect", "house", "octagon"}
  BY DEF ShapeOf, Types
<1>6. \A n \in NTs(g) : \A p : <<n, p>> \in RefsIn(g, n) <=> p \in 1..Length(n)
  BY <1>1
<1> QED BY <1>2, <1>3, <1>4, <1>5, <1>6 DEF Symbols

\* The rest of a sequence without repetition.
LEMMA RestOf ==
    ASSUME NEW S, NEW s \in Seq(S), s # <<>>,
           \A i, j \in DOMAIN s : s[i] = s[j] => i = j
    PROVE  /\ Head(s) \in S /\ Tail(s) \in Seq(S) /\ Head(s) \in {s[i] : i \in DOMAIN s}
           /\ \A i, j \in DOMAIN Tail(s) : Tail(s)[i] = Tail(s)[j] => i = j
           /\ {Tail(s)[i] : i \in DOMAIN Tail(s)} = {s[i] : i \in DOMAIN s} \ {Head(s)}
<1>1. /\ Len(s) \in Nat \ {0} /\ DOMAIN s = 1..Len(s) /\ s[1] \in S
      /\ Head(s) = s[1] /\ Tail(s) \in Seq(S)
      /\ DOMAIN Tail(s) = 1..(Len(s) - 1)
      /\ \A i \in 1..(Len(s) - 1) : Tail(s)[i] = s[i + 1]
  OBVIOUS
<1>2. ASSUME NEW i \in DOMAIN Tail(s) PROVE i + 1 \in DOMAIN s /\ Tail(s)[i] = s[i + 1] /\ i + 1 # 1
  BY <1>1
<1>3. \A i, j \in DOMAIN Tail(s) : Tail(s)[i] = Tail(s)[j] => i = j
  BY <1>1, <1>2
<1>4. 1 \in DOMAIN s
  BY <1>1
<1>5. \A i \in DOMAIN Tail(s) : Tail(s)[i] \in {s[j] : j \in DOMAIN s} \ {Head(s)}
  BY <1>1, <1>2, <1>4
<1>6. \A x : x \in {s[i] : i \in DOMAIN s} => x = Head(s) \/ x \in {Tail(s)[i] : i \in DOMAIN Tail(s)}
  BY HeadAndTail
<1>7. {Tail(s)[i] : i \in DOMAIN Tail(s)} \subseteq {s[i] : i \in DOMAIN s} \ {Head(s)}
  BY <1>5
<1>8. {s[i] : i \in DOMAIN s} \ {Head(s)} \subseteq {Tail(s)[i] : i \in DOMAIN Tail(s)}
  BY <1>6
<1>9. Head(s) \in {s[i] : i \in DOMAIN s}
  BY <1>1, <1>4
<1> QED BY <1>1, <1>3, <1>7, <1>8, <1>9

-----------------------------------------------------------------------------
\* The statements of the file f, as the properties have them of file.
StatementsIn(f, kind) == {i \in DOMAIN f : f[i].kind = kind}
EdgesIn(f, n) == {i \in StatementsIn(f, "edge") : f[i].from = n}
NthIn(f, i) == Cardinality({j \in EdgesIn(f, f[i].from) : j <= i})

LEMMA InFile ==
    /\ \A kind : /\ Statements(kind) = StatementsIn(file, kind)
                 /\ Statements(kind)' = StatementsIn(file', kind)
    /\ \A n : EdgesFrom(n) = EdgesIn(file, n) /\ EdgesFrom(n)' = EdgesIn(file', n)
    /\ \A i : Nth(i) = NthIn(file, i) /\ Nth(i)' = NthIn(file', i)
<1>1. \A kind : Statements(kind) = StatementsIn(file, kind)
                /\ Statements(kind)' = StatementsIn(file', kind)
  BY DEF Statements, StatementsIn
<1>2. \A n : EdgesFrom(n) = EdgesIn(file, n) /\ EdgesFrom(n)' = EdgesIn(file', n)
  BY <1>1 DEF EdgesFrom, EdgesIn
<1>3. \A i : Nth(i) = NthIn(file, i)
  BY <1>2 DEF Nth, NthIn
<1>4. \A i : Nth(i)' = NthIn(file', i)
  BY <1>2 DEF Nth, NthIn, EdgesFrom, EdgesIn, Statements, StatementsIn
<1> QED BY <1>1, <1>2, <1>3, <1>4

\* The file gets longer: what was in it stays.
Grows(f, h) ==
    /\ Len(f) \in Nat /\ Len(h) \in Nat /\ Len(f) <= Len(h)
    /\ DOMAIN f = 1..Len(f) /\ DOMAIN h = 1..Len(h)
    /\ \A i \in 1..Len(f) : h[i] = f[i]

LEMMA StatementsGrow ==
    ASSUME NEW f, NEW h, Grows(f, h), NEW kind
    PROVE  /\ \A i \in StatementsIn(f, kind) :
                 i \in 1..Len(f) /\ i \in StatementsIn(h, kind) /\ h[i] = f[i]
           /\ \A i \in StatementsIn(h, kind) :
                 i \in StatementsIn(f, kind) \/ i \in Len(f) + 1..Len(h)
           /\ (\A i \in Len(f) + 1..Len(h) : h[i].kind # kind)
                 => StatementsIn(h, kind) = StatementsIn(f, kind)
<1>1. ASSUME NEW i \in StatementsIn(f, kind)
      PROVE  i \in 1..Len(f) /\ i \in StatementsIn(h, kind) /\ h[i] = f[i]
  <2>1. i \in 1..Len(f) /\ f[i].kind = kind /\ h[i] = f[i] /\ i \in 1..Len(h)
    BY DEF Grows, StatementsIn
  <2> QED BY <2>1 DEF Grows, StatementsIn
<1>2. ASSUME NEW i \in StatementsIn(h, kind), i \notin Len(f) + 1..Len(h)
      PROVE  i \in StatementsIn(f, kind)
  <2>1. i \in 1..Len(f) /\ h[i].kind = kind
    BY <1>2 DEF Grows, StatementsIn
  <2> QED BY <2>1 DEF Grows, StatementsIn
<1>3. \A i \in StatementsIn(h, kind) : h[i].kind = kind
  BY DEF StatementsIn
<1> QED BY <1>1, <1>2, <1>3

LEMMA EdgesFinite ==
    ASSUME NEW f, NEW h, Grows(f, h), NEW n
    PROVE  /\ IsFiniteSet(EdgesIn(f, n)) /\ Cardinality(EdgesIn(f, n)) \in Nat
           /\ EdgesIn(f, n) \subseteq 1..Len(f)
<1>1. EdgesIn(f, n) \subseteq 1..Len(f)
  BY DEF EdgesIn, StatementsIn, Grows
<1>2. IsFiniteSet(1..Len(f))
  BY FS_Interval DEF Grows
<1>3. IsFiniteSet(EdgesIn(f, n))
  BY <1>1, <1>2, FS_Subset
<1> QED BY <1>1, <1>3, FS_CardinalityType

\* Without a new edge all edges are as they were ...
LEMMA SameEdges ==
    ASSUME NEW f, NEW h, Grows(f, h), \A i \in Len(f) + 1..Len(h) : h[i].kind # "edge"
    PROVE  /\ StatementsIn(h, "edge") = StatementsIn(f, "edge")
           /\ \A n : EdgesIn(h, n) = EdgesIn(f, n)
           /\ \A i \in StatementsIn(f, "edge") : NthIn(h, i) = NthIn(f, i)
<1>1. StatementsIn(h, "edge") = StatementsIn(f, "edge")
  BY StatementsGrow
<1>2. \A i \in StatementsIn(f, "edge") : h[i] = f[i]
  BY StatementsGrow
<1>3. \A n : EdgesIn(h, n) = EdgesIn(f, n)
  BY <1>1, <1>2 DEF EdgesIn
<1>4. \A i \in StatementsIn(f, "edge") : NthIn(h, i) = NthIn(f, i)
  BY <1>2, <1>3 DEF NthIn
<1> QED BY <1>1, <1>3, <1>4

\* ... and with one at the end it is the last of its node.
LEMMA OneMoreEdge ==
    ASSUME NEW f, NEW h, Grows(f, h), NEW n, NEW e, e = Len(h), e > Len(f),
           \A i \in Len(f) + 1..(e - 1) : h[i].kind # "edge",
           h[e].kind = "edge", h[e].from = n
    PROVE  /\ StatementsIn(h, "edge") = StatementsIn(f, "edge") \cup {e}
           /\ e \notin StatementsIn(f, "edge")
           /\ Cardinality(EdgesIn(h, n)) = Cardinality(EdgesIn(f, n)) + 1
           /\ \A m : m # n => EdgesIn(h, m) = EdgesIn(f, m)
           /\ \A i \in StatementsIn(f, "edge") : NthIn(h, i) = NthIn(f, i)
           /\ NthIn(h, e) = Cardinality(EdgesIn(f, n)) + 1
<1> DEFINE L == Len(f)
<1>1. e \in Nat /\ e > L /\ L \in Nat /\ h[e].kind = "edge" /\ h[e].from = n
  BY DEF Grows
<1>2. StatementsIn(h, "edge") = StatementsIn(f, "edge") \cup {e}
  <2>1. \A i \in StatementsIn(f, "edge") : i \in StatementsIn(h, "edge")
    BY StatementsGrow
  <2>2. \A i \in StatementsIn(h, "edge") : i \in StatementsIn(f, "edge") \/ i \in L + 1..e
    BY StatementsGrow
  <2>3. \A i \in StatementsIn(h, "edge") : i \in L + 1..e => i = e
    BY <1>1 DEF StatementsIn
  <2>4. e \in StatementsIn(h, "edge")
    BY <1>1 DEF StatementsIn, Grows
  <2> QED BY <2>1, <2>2, <2>3, <2>4
<1>3. \A i \in StatementsIn(f, "edge") : h[i] = f[i] /\ i \in 1..L
  BY StatementsGrow
<1>4. e \notin StatementsIn(f, "edge")
  BY <1>1, <1>3
<1>5. EdgesIn(h, n) = EdgesIn(f, n) \cup {e} /\ e \notin EdgesIn(f, n)
  BY <1>1, <1>2, <1>3, <1>4 DEF EdgesIn
<1>6. \A m : m # n => EdgesIn(h, m) = EdgesIn(f, m)
  BY <1>1, <1>2, <1>3, <1>4 DEF EdgesIn
<1>7. IsFiniteSet(EdgesIn(f, n)) /\ EdgesIn(f, n) \subseteq 1..L
  BY EdgesFinite
<1>8. Cardinality(EdgesIn(f, n) \cup {e}) = Cardinality(EdgesIn(f, n)) + 1
  BY <1>5, <1>7, FS_AddElement
<1>9. ASSUME NEW i \in StatementsIn(f, "edge") PROVE NthIn(h, i) = NthIn(f, i)
  <2>1. PICK m : m = f[i].from
    OBVIOUS
  <2>2. h[i].from = m /\ i \in 1..L
    BY <1>3, <2>1
  <2>3. EdgesIn(h, m) = EdgesIn(f, m) \/ EdgesIn(h, m) = EdgesIn(f, m) \cup {e}
    BY <1>5, <1>6
  <2>4. ~(e <= i)
    BY <1>1, <2>2
  <2>5. {j \in EdgesIn(h, m) : j <= i} = {j \in EdgesIn(f, m) : j <= i}
    BY <2>3, <2>4
  <2> QED BY <2>1, <2>2, <2>5 DEF NthIn
<1>10. NthIn(h, e) = Cardinality(EdgesIn(f, n)) + 1
  <2>1. {j \in EdgesIn(f, n) \cup {e} : j <= e} = EdgesIn(f, n) \cup {e}
    BY <1>1, <1>7
  <2> QED BY <1>1, <1>5, <1>8, <2>1 DEF NthIn
<1> QED BY <1>2, <1>4, <1>5, <1>6, <1>8, <1>9, <1>10

-----------------------------------------------------------------------------
LEMMA InitDotInv == DotInit => DotInv
<1>1. ASSUME Init PROVE DotInv
  BY <1>1 DEF Init, DotInv
<1>2. ASSUME g \in DotGrammars, todo = [nts |-> g.order, terminals |-> {}],
             pos = 1, t_ref_counter = 0, file = <<>>
      PROVE  DotInv
  <2>1. todo.nts = g.order /\ todo = [nts |-> todo.nts, terminals |-> todo.terminals]
    BY <1>2
  <2>2. g.order \in Seq(NTs(g)) /\ \A i, j \in DOMAIN g.order : g.order[i] = g.order[j] => i = j
    BY <1>2, DotAssumption DEF IsGrammar
  <2>3. g.order # <<>> => Head(g.order) \in NTs(g)
    BY <2>2
  <2>4. Progress
    BY <1>2, <2>1, <2>2, <2>3, Drawing DEF Progress
  <2>5. DOMAIN file = {} /\ \A kind : Statements(kind) = {}
    BY <1>2 DEF Statements
  <2>6. \A n : EdgesFrom(n) = {}
    BY <2>5 DEF EdgesFrom
  <2>7. Waiting = NTs(g)
    BY <2>1 DEF Waiting, NTs
  <2>8. \A n \in NTs(g) : Drawn(n) = 0
    BY <1>2, <2>7 DEF Drawn
  <2>9. Edges
    BY <2>5, <2>6, <2>8, FS_EmptySet DEF Edges
  <2> QED BY <2>4, <2>5, <2>7, <2>9 DEF DotInv, Labels, ShapesOf
<1> QED BY <1>1, <1>2 DEF DotInit

\* Statements that were right stay right as the file grows.
LEMMA MeansStays ==
    ASSUME Grows(file, file'), UNCHANGED <<g, optional>>,
           NEW i \in Statements("edge"), NEW r, Means(i, r)
    PROVE  Means(i, r)'
<1>1. file'[i] = file[i]
  BY StatementsGrow, InFile
<1>2. CASE file[i].node = NodeOf(g.to[r])
  BY <1>1, <1>2 DEF Means, NodeOf
<1>3. ASSUME NEW j \in Statements("label"), file[j].node = file[i].node, file[j].is = g.to[r]
      PROVE  Means(i, r)'
  <2>1. j \in Statements("label")' /\ file'[j] = file[j]
    BY StatementsGrow, InFile
  <2>2. \E q \in Statements("label")' : file'[q].node = file'[i].node /\ file'[q].is = g'.to[r]
    BY <1>1, <1>3, <2>1
  <2> QED BY <1>1, <2>2 DEF Means
<1> QED BY <1>2, <1>3 DEF Means

LEMMA PrintRefDotInv == ASSUME DotInv, PrintRef PROVE DotInv'
<1>a. PICK n : n = Head(todo.nts)
  OBVIOUS
<1>b. PICK r : r = <<n, pos>>
  OBVIOUS
<1>c. PICK e : e = Len(file')
  OBVIOUS
<1>d. PICK k : k = t_ref_counter
  OBVIOUS
<1>e. PICK t : t = g.to[r]
  OBVIOUS
<1> DEFINE stop == t \in StopNames
<1>1. /\ pc = "dot" /\ todo.nts # <<>> /\ r \in RefsIn(g, n)
      /\ stop => /\ file' = file \o <<Label(k, t), Edge(n, TRef(k), r)>>
                 /\ t_ref_counter' = k + 1
      /\ ~stop => /\ file' = Append(file, Edge(n, NodeOf(t), r))
                  /\ t_ref_counter' = k
      /\ pos' = pos + 1
      /\ UNCHANGED <<vars, optional>>
  BY <1>a, <1>b, <1>d, <1>e DEF PrintRef
<1>2. Progress /\ Edges /\ Labels /\ ShapesOf
  BY <1>1 DEF DotInv
<1>3. UNCHANGED <<g, todo, pc>>
  BY <1>1 DEF vars
<1>4. /\ n \in NTs(g) /\ n \in Waiting
  <2>1. PICK s : s = todo.nts
    OBVIOUS
  <2>2. s \in Seq(NTs(g)) /\ s # <<>> /\ \A i, j \in DOMAIN s : s[i] = s[j] => i = j
    BY <1>1, <1>2, <2>1 DEF Progress
  <2>3. Head(s) \in NTs(g) /\ Head(s) \in {s[i] : i \in DOMAIN s}
    BY <2>2, RestOf
  <2> QED BY <1>a, <2>1, <2>3 DEF Waiting
<1>5. /\ pos \in 1..Length(n) /\ Length(n) \in Nat /\ r \in Refs(g) /\ t \in Symbols(g)
      /\ k \in Nat /\ n \in Symbols(g) /\ file \in Seq(Statement)
  BY <1>1, <1>2, <1>4, <1>a, <1>b, <1>d, <1>e, Drawing DEF Progress, RefsIn
<1>6. /\ Label(k, t) \in Statement
      /\ Edge(n, TRef(k), r) \in Statement /\ Edge(n, NodeOf(t), r) \in Statement
  <2> QED BY <1>4, <1>5 DEF Label, Edge, Statement, TRef, NodeOf
<1>7. /\ file' \in Seq(Statement) /\ Grows(file, file')
      /\ e > Len(file)
      /\ \/ stop /\ e = Len(file) + 2 /\ file'[e] = Edge(n, TRef(k), r)
                 /\ file'[e - 1] = Label(k, t)
         \/ ~stop /\ e = Len(file) + 1 /\ file'[e] = Edge(n, NodeOf(t), r)
  <2>1. Len(file) \in Nat /\ DOMAIN file = 1..Len(file)
    BY <1>5
  <2>2. CASE stop
    <3>1. PICK a : a = Label(k, t)
      OBVIOUS
    <3>2. PICK b : b = Edge(n, TRef(k), r)
      OBVIOUS
    <3>3. file' = file \o <<a, b>> /\ a \in Statement /\ b \in Statement
      BY <1>1, <1>6, <2>2, <3>1, <3>2
    <3>4. /\ file' \in Seq(Statement) /\ Len(file') = Len(file) + 2
          /\ \A i \in 1..Len(file) : file'[i] = file[i]
          /\ file'[Len(file) + 1] = a /\ file'[Len(file) + 2] = b
      BY <1>5, <2>1, <3>3
    <3>5. e = Len(file) + 2 /\ e - 1 = Len(file) + 1 /\ DOMAIN file' = 1..e /\ e \in Nat
      BY <2>1, <3>4, <1>c
    <3> QED BY <2>1, <2>2, <3>1, <3>2, <3>4, <3>5 DEF Grows
  <2>3. CASE ~stop
    <3>1. PICK b : b = Edge(n, NodeOf(t), r)
      OBVIOUS
    <3>2. file' = Append(file, b) /\ b \in Statement
      BY <1>1, <1>6, <2>3, <3>1
    <3>3. /\ file' \in Seq(Statement) /\ Len(file') = Len(file) + 1
          /\ \A i \in 1..Len(file) : file'[i] = file[i]
          /\ file'[Len(file) + 1] = b
      BY <1>5, <2>1, <3>2
    <3>4. e = Len(file) + 1 /\ DOMAIN file' = 1..e /\ e \in Nat
      BY <2>1, <3>3, <1>c
    <3> QED BY <2>1, <2>3, <3>1, <3>3, <3>4 DEF Grows
  <2> QED BY <2>2, <2>3
<1>8. /\ file'[e].kind = "edge" /\ file'[e].from = n /\ (file'[e].dashed <=> r \in optional)
      /\ \A i \in Len(file) + 1..(e - 1) :
            stop /\ i = e - 1 /\ file'[i].kind = "label" /\ file'[i].node = TRef(k)
                 /\ file'[i].is = t
      /\ stop => e - 1 \in Len(file) + 1..(e - 1) /\ file'[e].node = TRef(k)
      /\ ~stop => file'[e].node = NodeOf(t)
      /\ Len(file) \in Nat /\ e = Len(file')
  <2> HIDE DEF stop
  <2>1. Len(file) \in Nat /\ e = Len(file')
    BY <1>7, <1>c DEF Grows
  <2> QED BY <1>7, <2>1, Kinds
<1> HIDE DEF stop
<1>f. \A i \in Len(file) + 1..Len(file') : i = e \/ i \in Len(file) + 1..(e - 1)
  <2>1. PICK l : l = Len(file)
    OBVIOUS
  <2>2. l \in Nat /\ e \in Nat /\ e = Len(file')
    BY <1>7, <1>c, <2>1 DEF Grows
  <2>3. \A i \in l + 1..e : i = e \/ i \in l + 1..(e - 1)
    BY <2>2
  <2> QED BY <2>1, <2>2, <2>3
<1>9. /\ StatementsIn(file', "edge") = StatementsIn(file, "edge") \cup {e}
      /\ Cardinality(EdgesIn(file', n)) = Cardinality(EdgesIn(file, n)) + 1
      /\ \A m : m # n => EdgesIn(file', m) = EdgesIn(file, m)
      /\ \A i \in StatementsIn(file, "edge") : NthIn(file', i) = NthIn(file, i)
      /\ NthIn(file', e) = Cardinality(EdgesIn(file, n)) + 1
  <2>1. PICK h : h = file'
    OBVIOUS
  <2>2. \A i \in Len(file) + 1..(e - 1) : h[i].kind # "edge"
    BY <1>8, <2>1
  <2>3. Grows(file, h) /\ e = Len(h) /\ e > Len(file) /\ h[e].kind = "edge" /\ h[e].from = n
    BY <1>7, <1>8, <2>1
  <2>4. /\ StatementsIn(h, "edge") = StatementsIn(file, "edge") \cup {e}
        /\ Cardinality(EdgesIn(h, n)) = Cardinality(EdgesIn(file, n)) + 1
        /\ \A m : m # n => EdgesIn(h, m) = EdgesIn(file, m)
        /\ \A i \in StatementsIn(file, "edge") : NthIn(h, i) = NthIn(file, i)
        /\ NthIn(h, e) = Cardinality(EdgesIn(file, n)) + 1
    BY <2>2, <2>3, OneMoreEdge
  <2> QED BY <2>1, <2>4
<1>10. Waiting' = Waiting
  BY <1>3 DEF Waiting
<1>11. Progress'
  <2>1. Statement' = Statement /\ \A m : Length(m)' = Length(m)
    BY <1>3 DEF Statement, Length
  <2>2. file' \in Seq(Statement)
    BY <1>7
  <2>3. pos' \in Nat \ {0} /\ pos' <= Length(n) + 1 /\ t_ref_counter' \in Nat
    BY <1>1, <1>5
  <2>4. todo'.nts # <<>> => pos' <= Length(Head(todo.nts)) + 1
    BY <1>a, <2>3
  <2> QED BY <1>2, <1>3, <2>1, <2>2, <2>3, <2>4 DEF Progress
<1>12. Edges'
  <2>1. \A m \in NTs(g) : Cardinality(EdgesIn(file, m)) = Drawn(m)
    BY <1>2, InFile DEF Edges
  <2>2. Drawn(n) = pos - 1 /\ Drawn(n)' = pos
    BY <1>1, <1>3, <1>4, <1>5, <1>10, <1>a DEF Drawn
  <2>3. \A m : m # n => Drawn(m)' = Drawn(m)
    BY <1>3, <1>10, <1>a DEF Drawn, Length
  <2>4. \A m \in NTs(g) : Cardinality(EdgesIn(file', m)) = Drawn(m)'
    <3> TAKE m \in NTs(g)
    <3>1. CASE m = n
      BY <1>4, <1>5, <1>9, <2>1, <2>2, <3>1
    <3>2. CASE m # n
      BY <1>9, <2>1, <2>3, <3>2
    <3> QED BY <3>1, <3>2
  <2>5. ASSUME NEW i \in StatementsIn(file, "edge")
        PROVE  Means(i, <<file[i].from, NthIn(file, i)>>)'
    <3>1. PICK q : q = <<file[i].from, NthIn(file, i)>>
      OBVIOUS
    <3>2. Means(i, q)
      BY <1>2, <2>5, <3>1, InFile DEF Edges
    <3>3. Means(i, q)'
      BY <1>1, <1>3, <1>7, <2>5, <3>2, InFile, MeansStays
    <3>4. q = <<file'[i].from, NthIn(file', i)>>
      BY <1>7, <1>9, <2>5, <3>1, StatementsGrow
    <3> QED BY <3>3, <3>4 DEF Means
  <2>6. Means(e, r)'
    <3>1. g' = g /\ optional' = optional /\ r \in Refs(g)
      BY <1>1, <1>3, <1>5
    <3>2. CASE stop
      <4>1. e - 1 \in StatementsIn(file', "label")
        BY <1>7, <1>8, <3>2 DEF StatementsIn, Grows
      <4>2. file'[e - 1].node = file'[e].node /\ file'[e - 1].is = t
        BY <1>8, <3>2
      <4>3. \E j \in Statements("label")' : file'[j].node = file'[e].node /\ file'[j].is = t
        BY <4>1, <4>2, InFile
      <4> QED BY <1>8, <1>e, <3>1, <4>3 DEF Means
    <3>3. CASE ~stop
      BY <1>8, <1>e, <3>1, <3>3 DEF Means, NodeOf
    <3> QED BY <3>2, <3>3
  <2>7. Means(e, <<file[e].from, NthIn(file, e)>>)'
    <3>1. r = <<file'[e].from, NthIn(file', e)>>
      BY <1>4, <1>5, <1>8, <1>9, <2>1, <2>2, <1>b
    <3> QED BY <2>6, <3>1 DEF Means
  <2>8. \A i \in Statements("edge")' : Means(i, <<file[i].from, Nth(i)>>)'
    <3>1. \A i \in StatementsIn(file, "edge") \cup {e} : Means(i, <<file[i].from, NthIn(file, i)>>)'
      BY <2>5, <2>7
    <3>2. \A i \in Statements("edge")' : Means(i, <<file[i].from, NthIn(file, i)>>)'
      BY <1>9, <3>1, InFile
    <3> QED BY <3>2, InFile DEF Means
  <2>9. \A m \in NTs(g)' : Cardinality(EdgesFrom(m)') = Drawn(m)'
    BY <1>3, <2>4, InFile
  <2> QED BY <2>8, <2>9 DEF Edges
<1>13. Labels'
  <2>1. \A i \in StatementsIn(file', "label") :
           \/ i \in StatementsIn(file, "label") /\ file'[i] = file[i]
           \/ stop /\ i = e - 1 /\ file'[i].node = TRef(k)
    <3> TAKE i \in StatementsIn(file', "label")
    <3>1. file'[i].kind = "label" /\ i # e
      BY <1>8 DEF StatementsIn
    <3>2. CASE i \in StatementsIn(file, "label")
      BY <1>7, <3>2, StatementsGrow
    <3>3. CASE i \in Len(file) + 1..Len(file')
      <4>1. i \in Len(file) + 1..(e - 1)
        BY <1>f, <3>1, <3>3
      <4> QED BY <1>8, <4>1
    <3> QED BY <1>7, <3>2, <3>3, StatementsGrow
  <2>2. \A i \in StatementsIn(file, "label") :
           \E q \in 0..(k - 1) : file[i].node = TRef(q)
    BY <1>2, <1>d, InFile DEF Labels
  <2>3. /\ \A i, j \in StatementsIn(file, "label") : file[i].node = file[j].node => i = j
        /\ stop => t_ref_counter' = k + 1
        /\ ~stop => t_ref_counter' = k
    BY <1>1, <1>2, InFile DEF Labels, stop
  <2>4. \A q \in 0..(k - 1) : TRef(q) # TRef(k)
    BY <1>5 DEF TRef
  <2>5. \A i \in StatementsIn(file', "label") :
           \E q \in 0..(t_ref_counter' - 1) : file'[i].node = TRef(q)
    BY <1>5, <2>1, <2>2, <2>3
  <2>6. \A i, j \in StatementsIn(file', "label") : file'[i].node = file'[j].node => i = j
    BY <2>1, <2>2, <2>3, <2>4
  <2> QED BY <2>5, <2>6, InFile DEF Labels, TRef
<1>14. ShapesOf'
  <2>1. StatementsIn(file', "shape") = StatementsIn(file, "shape")
    <3>1. \A i \in Len(file) + 1..Len(file') : file'[i].kind # "shape"
      BY <1>8, <1>f
    <3>2. PICK h : h = file'
      OBVIOUS
    <3> QED BY <1>7, <3>1, <3>2, StatementsGrow
  <2>2. \A i \in StatementsIn(file, "shape") : file'[i] = file[i]
    BY <1>7, StatementsGrow
  <2> QED BY <1>2, <1>3, <1>10, <2>1, <2>2, InFile DEF ShapesOf, LinkNTs, NTs, NodeOf, Shape
<1> QED BY <1>11, <1>12, <1>13, <1>14 DEF DotInv

LEMMA PrintShapeDotInv == ASSUME DotInv, PrintShape PROVE DotInv'
<1>a. PICK n : n = Head(todo.nts)
  OBVIOUS
<1>b. PICK s : s = todo.nts
  OBVIOUS
<1>c. PICK h : h = file'
  OBVIOUS
<1>1. /\ pc = "dot" /\ s # <<>> /\ n = Head(s) /\ <<n, pos>> \notin RefsIn(g, n)
      /\ h = IF g.type[n] = "LINK" THEN file ELSE Append(file, Shape(n, ShapeOf[g.type[n]]))
      /\ todo' = [todo EXCEPT !.nts = Tail(@)]
      /\ pos' = 1
      /\ UNCHANGED <<g, optional, t_ref_counter, pc>>
  BY <1>a, <1>b, <1>c DEF PrintShape
<1>2. Progress /\ Edges /\ Labels /\ ShapesOf
  BY <1>1 DEF DotInv
<1>3. /\ s \in Seq(NTs(g)) /\ \A i, j \in DOMAIN s : s[i] = s[j] => i = j
      /\ todo' = [nts |-> todo'.nts, terminals |-> todo'.terminals] /\ todo'.nts = Tail(s)
  <2>1. /\ todo = [nts |-> todo.nts, terminals |-> todo.terminals]
        /\ todo' = [todo EXCEPT !.nts = Tail(@)]
    BY <1>1, <1>2 DEF Progress
  <2>2. /\ todo'.nts = Tail(todo.nts) /\ todo'.terminals = todo.terminals
        /\ todo' = [nts |-> todo'.nts, terminals |-> todo'.terminals]
    BY <2>1
  <2> QED BY <1>2, <1>b, <2>2 DEF Progress
<1>4. /\ n \in NTs(g) /\ n \in Waiting
      /\ Tail(s) \in Seq(NTs(g))
      /\ \A i, j \in DOMAIN Tail(s) : Tail(s)[i] = Tail(s)[j] => i = j
      /\ Waiting' = Waiting \ {n}
  <2>1. Waiting = {s[i] : i \in DOMAIN s} /\ Waiting' = {Tail(s)[i] : i \in DOMAIN Tail(s)}
    <3>1. PICK rest : rest = Tail(s)
      OBVIOUS
    <3>2. todo.nts = s /\ todo'.nts = rest
      BY <1>3, <1>b, <3>1
    <3>3. Waiting' = {rest[i] : i \in DOMAIN rest}
      BY <3>2 DEF Waiting
    <3>4. Waiting = {s[i] : i \in DOMAIN s}
      BY <3>2 DEF Waiting
    <3> QED BY <3>1, <3>3, <3>4
  <2> QED BY <1>1, <1>3, <2>1, RestOf
<1>5. /\ pos = Length(n) + 1 /\ Length(n) \in Nat /\ g \in DotGrammars
      /\ g.type[n] # "LINK" => ShapeOf[g.type[n]] \in {"rect", "house", "octagon"}
      /\ g.type[n] # "LINK" <=> n \notin LinkNTs(g)
      /\ file \in Seq(Statement)
  <2>1. pos \in Nat \ {0} /\ pos <= Length(n) + 1 /\ Length(n) \in Nat /\ pos \notin 1..Length(n)
    BY <1>1, <1>2, <1>4, <1>a, <1>b, Drawing DEF Progress
  <2> QED BY <1>2, <1>4, <2>1, Drawing DEF Progress
<1>6. PICK x : x = Shape(n, ShapeOf[g.type[n]])
  OBVIOUS
<1>7. /\ x.kind = "shape" /\ x.node = NodeOf(n)
      /\ g.type[n] # "LINK" => x \in Statement
  BY <1>4, <1>5, <1>6, Kinds DEF Statement, Shape, NodeOf
<1>8. /\ h \in Seq(Statement) /\ Grows(file, h) /\ Len(file) \in Nat
      /\ g.type[n] = "LINK" => h = file
      /\ g.type[n] # "LINK" => Len(h) = Len(file) + 1 /\ h[Len(file) + 1] = x
  <2>1. Len(file) \in Nat /\ DOMAIN file = 1..Len(file)
    BY <1>5
  <2>2. CASE g.type[n] = "LINK"
    BY <1>1, <1>5, <2>1, <2>2 DEF Grows
  <2>3. CASE g.type[n] # "LINK"
    <3>1. h = Append(file, x) /\ x \in Statement
      BY <1>1, <1>6, <1>7, <2>3
    <3>2. /\ h \in Seq(Statement) /\ Len(h) = Len(file) + 1 /\ DOMAIN h = 1..Len(h)
          /\ \A i \in 1..Len(file) : h[i] = file[i]
          /\ h[Len(file) + 1] = x
      BY <1>5, <2>1, <3>1
    <3> QED BY <2>1, <2>3, <3>2 DEF Grows
  <2> QED BY <2>2, <2>3
<1>9. \A i \in Len(file) + 1..Len(h) :
         i = Len(file) + 1 /\ g.type[n] # "LINK" /\ h[i] = x /\ h[i].kind = "shape"
  BY <1>7, <1>8
<1>10. /\ StatementsIn(h, "edge") = StatementsIn(file, "edge")
       /\ \A m : EdgesIn(h, m) = EdgesIn(file, m)
       /\ \A i \in StatementsIn(file, "edge") : NthIn(h, i) = NthIn(file, i)
       /\ StatementsIn(h, "label") = StatementsIn(file, "label")
       /\ \A kind : \A i \in StatementsIn(file, kind) : h[i] = file[i]
  <2>1. \A i \in Len(file) + 1..Len(h) : h[i].kind # "edge" /\ h[i].kind # "label"
    BY <1>9
  <2>2. \A kind : \A i \in StatementsIn(file, kind) : h[i] = file[i]
    BY <1>8, StatementsGrow
  <2>3. StatementsIn(h, "label") = StatementsIn(file, "label")
    BY <1>8, <2>1, StatementsGrow
  <2> QED BY <1>8, <2>1, <2>2, <2>3, SameEdges
<1>11. Progress'
  <2>1. Statement' = Statement /\ \A m : Length(m)' = Length(m)
    BY <1>1 DEF Statement, Length
  <2>2. Tail(s) # <<>> => Head(Tail(s)) \in NTs(g)
    BY <1>4
  <2>3. Tail(s) # <<>> => pos' <= Length(Head(Tail(s))) + 1
    BY <1>1, <1>5, <2>2, Drawing
  <2>4. todo' = [nts |-> todo'.nts, terminals |-> todo'.terminals]
    BY <1>3
  <2>5. g \in DotGrammars /\ t_ref_counter \in Nat
    BY <1>2 DEF Progress
  <2>6. (todo.nts # <<>> => pos <= Length(Head(todo.nts)) + 1)'
    <3>1. PICK m : m = Head(Tail(s))
      OBVIOUS
    <3>2. Length(m)' = Length(m)
      BY <2>1
    <3>3. todo'.nts # <<>> => m = Head(todo'.nts) /\ pos' <= Length(m)' + 1
      BY <1>3, <2>3, <3>1, <3>2
    <3> QED BY <3>3 DEF Length
  <2>7. todo'.nts \in Seq(NTs(g)') /\ file' \in Seq(Statement')
    BY <1>1, <1>3, <1>4, <1>8, <1>c, <2>1
  <2>8. \A i, j \in DOMAIN todo'.nts : todo'.nts[i] = todo'.nts[j] => i = j
    BY <1>3, <1>4
  <2> QED BY <1>1, <2>4, <2>5, <2>6, <2>7, <2>8 DEF Progress
<1>12. Edges'
  <2>1. \A m \in NTs(g) : Cardinality(EdgesIn(file, m)) = Drawn(m)
    BY <1>2, InFile DEF Edges
  <2>2. Drawn(n) = Length(n) /\ Drawn(n)' = Length(n)
    BY <1>1, <1>4, <1>5, <1>a DEF Drawn, Length
  <2>3. \A m : m # n => Drawn(m)' = Drawn(m)
    BY <1>1, <1>4, <1>a DEF Drawn, Length
  <2>4. \A m \in NTs(g) : Drawn(m)' = Drawn(m)
    BY <2>2, <2>3
  <2>5. \A m \in NTs(g)' : Cardinality(EdgesFrom(m)') = Drawn(m)'
    BY <1>1, <1>10, <1>c, <2>1, <2>4, InFile
  <2>6. ASSUME NEW i \in StatementsIn(file, "edge")
        PROVE  Means(i, <<file[i].from, NthIn(file, i)>>)'
    <3>1. PICK q : q = <<file[i].from, NthIn(file, i)>>
      OBVIOUS
    <3>2. Means(i, q)
      BY <1>2, <2>6, <3>1, InFile DEF Edges
    <3>3. Grows(file, file')
      BY <1>8, <1>c
    <3>4. Means(i, q)'
      BY <1>1, <2>6, <3>2, <3>3, InFile, MeansStays
    <3>5. q = <<file'[i].from, NthIn(file', i)>>
      BY <1>10, <1>c, <2>6, <3>1
    <3> QED BY <3>4, <3>5 DEF Means
  <2>7. \A i \in Statements("edge")' : Means(i, <<file[i].from, NthIn(file, i)>>)'
    BY <1>10, <1>c, <2>6, InFile
  <2>8. \A i \in Statements("edge")' : Means(i, <<file[i].from, Nth(i)>>)'
    BY <2>7, InFile DEF Means
  <2> QED BY <2>5, <2>8 DEF Edges
<1>13. Labels'
  <2>1. Statements("label")' = Statements("label")
    BY <1>10, <1>c, InFile
  <2>2. \A i \in Statements("label") : file'[i] = file[i]
    BY <1>10, <1>c, InFile
  <2> QED BY <1>1, <1>2, <2>1, <2>2 DEF Labels, TRef
<1>14. ShapesOf'
  <2> DEFINE Old == StatementsIn(file, "shape")
  <2>1. /\ \A i \in Old : \E m \in NTs(g) \ LinkNTs(g) :
              m \notin Waiting /\ file[i] = Shape(m, ShapeOf[g.type[m]])
        /\ \A i, j \in Old : file[i].node = file[j].node => i = j
        /\ \A m \in NTs(g) \ LinkNTs(g) : m \notin Waiting => \E i \in Old : file[i].node = NodeOf(m)
    BY <1>2, InFile DEF ShapesOf
  <2>2. \A i \in Old : h[i] = file[i] /\ i \in StatementsIn(h, "shape") /\ i \in 1..Len(file)
    BY <1>8, StatementsGrow
  <2>3. \A i \in StatementsIn(h, "shape") :
           i \in Old \/ (i = Len(file) + 1 /\ g.type[n] # "LINK" /\ h[i] = x)
    BY <1>8, <1>9, StatementsGrow
  <2>4. g.type[n] # "LINK" => Len(file) + 1 \in StatementsIn(h, "shape")
    <3> HAVE g.type[n] # "LINK"
    <3>1. PICK l : l = Len(file) + 1
      OBVIOUS
    <3>2. l \in DOMAIN h /\ h[l].kind = "shape"
      BY <1>7, <1>8, <3>1 DEF Grows
    <3> QED BY <3>1, <3>2 DEF StatementsIn
  <2>5. \A i \in StatementsIn(h, "shape") : \E m \in NTs(g) \ LinkNTs(g) :
           m \notin Waiting \ {n} /\ h[i] = Shape(m, ShapeOf[g.type[m]])
    BY <1>4, <1>5, <1>6, <2>1, <2>2, <2>3
  <2>6. \A i \in Old : file[i].node # NodeOf(n)
    <3> TAKE i \in Old
    <3>1. PICK m \in NTs(g) : m \notin Waiting /\ file[i] = Shape(m, ShapeOf[g.type[m]])
      BY <2>1
    <3>2. file[i].node = NodeOf(m) /\ m # n
      BY <1>4, <3>1, Kinds
    <3> QED BY <3>2 DEF NodeOf
  <2>7. \A i, j \in StatementsIn(h, "shape") : h[i].node = h[j].node => i = j
    <3>1. \A i, j \in Old : h[i].node = h[j].node => i = j
      BY <2>1, <2>2
    <3>2. \A i \in Old : h[i].node # NodeOf(n)
      BY <2>2, <2>6
    <3> HIDE DEF Old
    <3> QED BY <1>7, <2>3, <3>1, <3>2
  <2>8. ASSUME NEW m \in NTs(g) \ LinkNTs(g), m \notin Waiting \ {n}
        PROVE  \E i \in StatementsIn(h, "shape") : h[i].node = NodeOf(m)
    <3>1. CASE m = n
      BY <1>5, <1>7, <1>8, <2>4, <2>8, <3>1
    <3>2. CASE m # n
      BY <2>1, <2>2, <2>8, <3>2
    <3> QED BY <3>1, <3>2
  <2>9. Statements("shape")' = StatementsIn(h, "shape") /\ file' = h /\ g' = g
    BY <1>1, <1>c, InFile
  <2>10. NTs(g)' = NTs(g) /\ LinkNTs(g)' = LinkNTs(g)
    BY <1>1 DEF NTs, LinkNTs
  <2>11. \A i \in Statements("shape")' : \E m \in (NTs(g) \ LinkNTs(g))' :
            m \notin Waiting' /\ file'[i] = Shape(m, ShapeOf[g'.type[m]])
    BY <1>4, <2>5, <2>9, <2>10
  <2>12. \A i, j \in Statements("shape")' : file'[i].node = file'[j].node => i = j
    BY <2>7, <2>9
  <2>13. \A m \in (NTs(g) \ LinkNTs(g))' : m \notin Waiting' =>
            \E i \in Statements("shape")' : file'[i].node = NodeOf(m)
    BY <1>4, <2>8, <2>9, <2>10
  <2> QED BY <2>11, <2>12, <2>13 DEF ShapesOf, Shape, NodeOf
<1> QED BY <1>11, <1>12, <1>13, <1>14 DEF DotInv

\* The printers of schemas do not take over.
LEMMA OthersDotInv == ASSUME DotInv, Next, UNCHANGED dotVars PROVE DotInv'
<1>1. pc # "dot" /\ pc' # "dot"
  BY DEF Next, PrintAxiom, VisitNT, VisitEmpty, Finish, VisitTerminal
<1> QED BY <1>1 DEF DotInv

LEMMA AlwaysDotInv == DotSpec => []DotInv
<1>1. ASSUME DotInv, UNCHANGED <<vars, dotVars>> PROVE DotInv'
  <2>1. UNCHANGED <<g, todo, pc, optional, pos, t_ref_counter, file>>
    BY <1>1 DEF vars, dotVars
  <2>2. /\ \A kind : Statements(kind)' = Statements(kind)
        /\ \A n : EdgesFrom(n)' = EdgesFrom(n) /\ Drawn(n)' = Drawn(n) /\ Length(n)' = Length(n)
        /\ \A i : Nth(i)' = Nth(i)
        /\ Waiting' = Waiting /\ Statement' = Statement
    BY <2>1 DEF Statements, EdgesFrom, Drawn, Length, Nth, Waiting, Statement
  <2>3. CASE pc # "dot"
    BY <2>1, <2>3 DEF DotInv
  <2>4. CASE pc = "dot"
    <3>1. Progress /\ Edges /\ Labels /\ ShapesOf
      BY <1>1, <2>4 DEF DotInv
    <3>2. Progress'
      BY <2>1, <2>2, <3>1 DEF Progress, Length
    <3>3. Edges'
      BY <2>1, <2>2, <3>1 DEF Edges, Means
    <3>4. Labels'
      BY <2>1, <2>2, <3>1 DEF Labels
    <3>5. ShapesOf'
      BY <2>1, <2>2, <3>1 DEF ShapesOf, Shape
    <3> QED BY <3>2, <3>3, <3>4, <3>5 DEF DotInv
  <2> QED BY <2>3, <2>4
<1>2. ASSUME DotInv, DotNext PROVE DotInv'
  BY <1>2, PrintRefDotInv, PrintShapeDotInv, OthersDotInv DEF DotNext
<1>3. DotInv /\ [DotNext]_<<vars, dotVars>> => DotInv'
  BY <1>1, <1>2
<1> QED BY <1>3, InitDotInv, PTL DEF DotSpec

\* Where there is one statement about a node, it is the one that is shown.
LEMMA OneShown ==
    ASSUME NEW kind, NEW i \in Statements(kind), file \in Seq(Statement),
           \A a, b \in Statements(kind) : file[a].node = file[b].node => a = b
    PROVE  Shown(kind, file[i].node) = file[i].is
<1>1. i \in Nat
  BY DEF Statements
<1>2. i \in About(kind, file[i].node) /\ \A j \in About(kind, file[i].node) : j = i
  BY DEF About
<1>3. (CHOOSE a \in About(kind, file[i].node) : \A j \in About(kind, file[i].node) : j <= a) = i
  BY <1>1, <1>2
<1> QED BY <1>3 DEF Shown

\* A finished file tells the grammar.
LEMMA FileReadsBack == ASSUME DotInv PROVE DotReadsBack
<1> SUFFICES ASSUME pc = "dot", todo.nts = <<>>
             PROVE  /\ Readable <=> NTs(g) \cap NeedsQuotes \subseteq LinkNTs(g)
                    /\ \A n \in NTs(g) :
                          /\ Cardinality(EdgesFrom(n)) = Cardinality(RefsIn(g, n))
                          /\ \A i \in EdgesFrom(n) :
                                /\ Reads(file[i].node) = g.to[<<n, Nth(i)>>]
                                /\ file[i].dashed <=> <<n, Nth(i)>> \in optional
                          /\ n \notin LinkNTs(g) =>
                                Shown("shape", NodeOf(n)) = ShapeOf[g.type[n]]
  BY DEF DotReadsBack
<1>1. Progress /\ Edges /\ Labels /\ ShapesOf /\ Waiting = {} /\ file \in Seq(Statement)
  BY DEF DotInv, Progress, Waiting
<1>2. \A n \in NTs(g) \ LinkNTs(g) : \E i \in Statements("shape") :
         file[i].node = NodeOf(n) /\ file[i] = Shape(n, ShapeOf[g.type[n]])
  <2> TAKE n \in NTs(g) \ LinkNTs(g)
  <2>1. PICK i \in Statements("shape") : file[i].node = NodeOf(n)
    BY <1>1 DEF ShapesOf
  <2>2. PICK m \in NTs(g) \ LinkNTs(g) : file[i] = Shape(m, ShapeOf[g.type[m]])
    BY <1>1 DEF ShapesOf
  <2>3. m = n
    BY <2>1, <2>2, Kinds DEF NodeOf
  <2> QED BY <2>1, <2>2, <2>3
<1>3. Readable <=> NTs(g) \cap NeedsQuotes \subseteq LinkNTs(g)
  <2>1. \A i \in Statements("shape") : \E n \in NTs(g) \ LinkNTs(g) : file[i].node = NodeOf(n)
    BY <1>1, Kinds DEF ShapesOf
  <2>2. \A n : NodeOf(n)[2] = n
    BY DEF NodeOf
  <2> QED BY <1>2, <2>1, <2>2 DEF Readable
<1>4. ASSUME NEW n \in NTs(g) PROVE Cardinality(EdgesFrom(n)) = Cardinality(RefsIn(g, n))
  BY <1>1 DEF Edges, Drawn, Length
<1>5. ASSUME NEW n \in NTs(g), NEW i \in EdgesFrom(n)
      PROVE  /\ Reads(file[i].node) = g.to[<<n, Nth(i)>>]
             /\ file[i].dashed <=> <<n, Nth(i)>> \in optional
  <2>1. PICK r : r = <<n, Nth(i)>>
    OBVIOUS
  <2>2. i \in Statements("edge") /\ file[i].from = n
    BY <1>5 DEF EdgesFrom
  <2>3. Means(i, r)
    BY <1>1, <2>1, <2>2 DEF Edges
  <2>4. CASE About("label", file[i].node) # {}
    <3>1. PICK j \in Statements("label") : file[j].node = file[i].node
      BY <2>4 DEF About
    <3>2. PICK k : file[j].node = TRef(k)
      BY <1>1, <3>1 DEF Labels
    <3>3. file[i].node # NodeOf(g.to[r])
      BY <3>1, <3>2 DEF TRef, NodeOf
    <3>4. PICK a \in Statements("label") : file[a].node = file[i].node /\ file[a].is = g.to[r]
      BY <2>3, <3>3 DEF Means
    <3>5. Shown("label", file[i].node) = g.to[r]
      BY <1>1, <3>4, OneShown DEF Labels
    <3> QED BY <2>1, <2>3, <2>4, <3>5 DEF Reads, Means
  <2>5. CASE About("label", file[i].node) = {}
    <3>1. file[i].node = NodeOf(g.to[r])
      BY <2>3, <2>5 DEF Means, About
    <3> QED BY <2>1, <2>3, <2>5, <3>1 DEF Reads, Means, NodeOf
  <2> QED BY <2>4, <2>5
<1>6. ASSUME NEW n \in NTs(g), n \notin LinkNTs(g)
      PROVE  Shown("shape", NodeOf(n)) = ShapeOf[g.type[n]]
  <2>1. PICK i \in Statements("shape") :
           file[i].node = NodeOf(n) /\ file[i] = Shape(n, ShapeOf[g.type[n]])
    BY <1>2, <1>6
  <2>2. file[i].is = ShapeOf[g.type[n]]
    BY <2>1, Kinds
  <2>3. Shown("shape", file[i].node) = file[i].is
    BY <1>1, OneShown DEF ShapesOf
  <2> QED BY <2>1, <2>2, <2>3
<1> QED BY <1>3, <1>4, <1>5, <1>6

\* A drawn grammar can be read back from its file, for every grammar, all sets of
\* optional references and all stop names: what each rule uses, in its order,
\* labelled nodes for their labels, and the kind of the rule; and Graphviz takes the
\* file unless a rule that is drawn has a hyphen in its name.
THEOREM DotExact == DotSpec => []DotReadsBack
BY FileReadsBack, AlwaysDotInv, PTL
=============================================================================
