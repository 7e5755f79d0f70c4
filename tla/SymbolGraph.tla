----------------------------- MODULE SymbolGraph -----------------------------
(***************************************************************************)
(* What a grammar::Grammar promises its client, without the three maps,    *)
(* the three deques and the two-way pointers it is made of: a directed     *)
(* graph of symbols.  A node is a symbol; an edge is a reference in a      *)
(* symbol's rule together with the symbol it is bound to.  Removing a      *)
(* node removes exactly the edges that start or end in it.                 *)
(*                                                                         *)
(* The module Grammar is shown to implement this one.                      *)
(***************************************************************************)
CONSTANTS
    Obj,    \* identities of symbols
    Slot,   \* positions of a reference in a rule
    Name,   \* symbol names
    Null    \* no symbol

VARIABLES
    nodes,  \* the symbols of the grammar
    uses,   \* the references in the rules of these symbols
    edge,   \* pairs <<reference, symbol it is bound to>>
    dict,   \* what a look-up by name answers
    open    \* no operation was abandoned and the grammar still exists

avars == <<nodes, uses, edge, dict, open>>

AInit ==
    /\ nodes = {}
    /\ uses = {}
    /\ edge = {}
    /\ dict = [n \in Name |-> Null]
    /\ open = TRUE

\* A new symbol, with references that are bound to nothing.  The first
\* symbol of a name keeps the name.
AAdd(o, n) ==
    /\ open
    /\ o \notin nodes
    /\ nodes' = nodes \cup {o}
    /\ uses \subseteq uses'
    /\ uses' \ uses \subseteq {o} \X Slot
    /\ dict' = IF dict[n] = Null THEN [dict EXCEPT ![n] = o] ELSE dict
    /\ UNCHANGED <<edge, open>>

\* References are bound to symbols, each to at most one, and stay bound.
ABind ==
    /\ open
    /\ edge \subseteq edge'
    /\ edge' \subseteq uses \X nodes
    /\ \A e, f \in edge' : e[1] = f[1] => e = f
    /\ UNCHANGED <<nodes, uses, dict, open>>

\* One symbol leaves, and with it exactly the edges that touch it.  A
\* reference that was bound to it leaves its rule.
ARemove(o) ==
    /\ open
    /\ o \in nodes
    /\ nodes' = nodes \ {o}
    /\ edge' = {e \in edge : e[1][1] # o /\ e[2] # o}
    /\ uses' = {r \in uses : r[1] # o /\ <<r, o>> \notin edge}
    /\ dict' = [n \in Name |-> IF dict[n] = o THEN Null ELSE dict[n]]
    /\ UNCHANGED open

\* An abandoned operation or the destructor: nothing is promised any more.
AClose ==
    /\ open
    /\ open' = FALSE
    /\ nodes' = {} /\ uses' = {} /\ edge' = {}
    /\ dict' = [n \in Name |-> Null]

ANext ==
    \/ \E o \in Obj, n \in Name : AAdd(o, n)
    \/ ABind
    \/ \E o \in Obj : ARemove(o)
    \/ AClose

ASpec == AInit /\ [][ANext]_avars
=============================================================================
