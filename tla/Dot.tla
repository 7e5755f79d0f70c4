--------------------------------- MODULE Dot ---------------------------------
(***************************************************************************)
(* The printer of directed graphs, grammar/graph/dot.cc: for each          *)
(* non-terminal in turn a statement per reference, an edge, and one for    *)
(* the shape of its node.  A reference to one of the stop names gets a     *)
(* node of its own, with the name as its label, so that what everything    *)
(* uses does not draw all edges to itself; the printer numbers them.  The  *)
(* nodes of an edge are quoted, the one of a shape is not.                 *)
(*                                                                         *)
(* The printer works on the grammars of its own run of ged; the steps of   *)
(* the other printers are those of Schemas.                                *)
(***************************************************************************)
EXTENDS Schemas

CONSTANTS
    DotGrammars,    \* grammars to print
    StopNames,      \* stop_names_
    Hyphenated,     \* symbols with a hyphen in their names
    Keywords        \* symbols named like a keyword of Graphviz, in any case:
                    \* node, edge, graph, digraph, subgraph, strict

\* nts() has each non-terminal once; references are numbered as refs() has them.
ASSUME DotAssumption ==
    \A x \in DotGrammars :
        /\ IsGrammar(x)
        /\ \A i, j \in DOMAIN x.order : x.order[i] = x.order[j] => i = j
        /\ \A n \in NTs(x) : RefsIn(x, n) = {n} \X (1..Cardinality(RefsIn(x, n)))

VARIABLES
    optional,       \* the references that are
    pos,            \* the reference to print next
    t_ref_counter,  \* t_ref_counter_
    file            \* the statements written

dotVars == <<optional, pos, t_ref_counter, file>>

-----------------------------------------------------------------------------
\* Nodes are named for symbols or are those of single references.
NodeOf(s) == <<"symbol", s>>
TRef(k) == <<"t_ref", k>>

Label(k, s) == [kind |-> "label", node |-> TRef(k), is |-> s]
Edge(n, node, r) == [kind |-> "edge", from |-> n, node |-> node,
                     dashed |-> r \in optional]
Shape(n, s) == [kind |-> "shape", node |-> NodeOf(n), is |-> s]

ShapeOf == [t \in Types \ {"LINK"} |->
              CASE t \in {"SEQUENCE", "ALL"} -> "rect"
                [] t \in {"LIST", "SET"}     -> "house"
                [] t = "CHOICE"              -> "octagon"]

DotInit ==
    \/ /\ Init
       /\ optional = {} /\ pos = 1 /\ t_ref_counter = 0 /\ file = <<>>
    \/ /\ g \in DotGrammars
       /\ form = "dot" /\ any_attribute = FALSE
       /\ todo = [nts |-> g.order, terminals |-> {}]
       /\ declared = {} /\ used = {} /\ within = {}
       /\ pc = "dot"
       /\ optional \in SUBSET Refs(g)
       /\ pos = 1 /\ t_ref_counter = 0 /\ file = <<>>

\* print(nt): one round of the loop over refs().
PrintRef ==
    LET n == Head(todo.nts)
        r == <<n, pos>>
    IN  /\ pc = "dot" /\ todo.nts # <<>> /\ r \in RefsIn(g, n)
        /\ IF g.to[r] \in StopNames
             THEN /\ file' = file \o <<Label(t_ref_counter, g.to[r]),
                                       Edge(n, TRef(t_ref_counter), r)>>
                  /\ t_ref_counter' = t_ref_counter + 1
             ELSE /\ file' = Append(file, Edge(n, NodeOf(g.to[r]), r))
                  /\ UNCHANGED t_ref_counter
        /\ pos' = pos + 1
        /\ UNCHANGED <<vars, optional>>

\* Variant of PrintShape: each rule numbers its nodes anew.
PrintShapeResetting ==
    LET n == Head(todo.nts)
    IN  /\ pc = "dot" /\ todo.nts # <<>> /\ <<n, pos>> \notin RefsIn(g, n)
        /\ file' = IF g.type[n] = "LINK" THEN file
                   ELSE Append(file, Shape(n, ShapeOf[g.type[n]]))
        /\ todo' = [todo EXCEPT !.nts = Tail(@)]
        /\ pos' = 1 /\ t_ref_counter' = 0
        /\ UNCHANGED <<g, form, any_attribute, declared, used, within, pc, optional>>

\* After the loop: the shape of the node, and on to the next non-terminal.
PrintShape ==
    LET n == Head(todo.nts)
    IN  /\ pc = "dot" /\ todo.nts # <<>> /\ <<n, pos>> \notin RefsIn(g, n)
        /\ file' = IF g.type[n] = "LINK" THEN file
                   ELSE Append(file, Shape(n, ShapeOf[g.type[n]]))
        /\ todo' = [todo EXCEPT !.nts = Tail(@)]
        /\ pos' = 1
        /\ UNCHANGED <<g, form, any_attribute, declared, used, within, pc,
                       optional, t_ref_counter>>

DotNext == PrintRef \/ PrintShape \/ (Next /\ UNCHANGED dotVars)

DotSpec == DotInit /\ [][DotNext]_<<vars, dotVars>>

-----------------------------------------------------------------------------
\* The file as Graphviz reads it: an unquoted name has no hyphen, and one that is a
\* keyword is the keyword; statements about a node add up, the last one wins; edges
\* do not merge.
Statements(kind) == {i \in DOMAIN file : file[i].kind = kind}

NeedsQuotes == Hyphenated \cup Keywords

Readable == \A i \in Statements("shape") : file[i].node[2] \notin NeedsQuotes

About(kind, node) == {i \in Statements(kind) : file[i].node = node}
Shown(kind, node) ==
    file[CHOOSE i \in About(kind, node) : \A j \in About(kind, node) : j <= i].is

\* What is written on a node: its label, or its name.
Reads(node) ==
    IF About("label", node) # {} THEN Shown("label", node) ELSE node[2]

EdgesFrom(n) == {i \in Statements("edge") : file[i].from = n}

\* The edge i is the k-th of its node.
Nth(i) == Cardinality({j \in EdgesFrom(file[i].from) : j <= i})

\* From the file one reads back what each rule uses, in its order, and which uses
\* are optional, stop names by their labels, and the kind of the rule by its shape;
\* unless a rule other than a LINK belongs to a name with a hyphen or to one like a
\* keyword: such a file Graphviz rejects, or it takes the shape for the default of
\* all nodes, of the edges or of the graph.
DotReadsBack ==
    pc = "dot" /\ todo.nts = <<>> =>
        /\ Readable <=> NTs(g) \cap NeedsQuotes \subseteq LinkNTs(g)
        /\ Readable => \A n \in NTs(g) :
              /\ Cardinality(EdgesFrom(n)) = Cardinality(RefsIn(g, n))
              /\ \A i \in EdgesFrom(n) :
                    /\ Reads(file[i].node) = g.to[<<n, Nth(i)>>]
                    /\ file[i].dashed <=> <<n, Nth(i)>> \in optional
              /\ n \notin LinkNTs(g) =>
                    Shown("shape", NodeOf(n)) = ShapeOf[g.type[n]]
=============================================================================
