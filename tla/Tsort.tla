-------------------------------- MODULE Tsort --------------------------------
(***************************************************************************)
(* tsort() of grammar/tsort.cc: the non-terminals, sorted by name, are the *)
(* vertices of a graph with an edge for each use of one in the rule of     *)
(* another.  The depth-first search of the Boost Graph Library finishes    *)
(* them in reverse topological order or meets a cycle; the result becomes  *)
(* the order of nts(), after the axiom was swapped to the front.           *)
(***************************************************************************)
EXTENDS LinkedGrammar, SequencesExt

CONSTANT ByName     \* the non-terminals sorted by their names

ASSUME ByNameAssumption ==
    /\ ByName \in Seq(Range(ByName))
    /\ IsInjective(ByName)
    /\ \A g \in Grammars : /\ NTs(g) = Range(ByName)
                           /\ Len(g.order) = Len(ByName)

VARIABLES
    g,          \* the grammar
    colour,     \* "white": not seen, "gray": on the stack, "black": finished
    stack,      \* the vertices the search is in
    left,       \* for each, the edges not followed yet
    ordering,   \* vertices in the order they were finished in
    mode        \* "search", "done", "thrown"

vars == <<g, colour, stack, left, ordering, mode>>

\* The edges from n: the references in its rule to a non-terminal (of h).
Edges(h, n) == {r \in RefsIn(h, n) : h.to[r] \in NTs(h)}

TypeOK ==
    /\ IsGrammar(g)
    /\ colour \in [NTs(g) -> {"white", "gray", "black"}]
    /\ stack \in Seq({n \in NTs(g) : colour[n] = "gray"})
    /\ left \in [NTs(g) -> SUBSET Refs(g)]
    /\ ordering \in Seq({n \in NTs(g) : colour[n] = "black"})
    /\ mode \in {"search", "done", "thrown"}

Init ==
    /\ g \in Grammars
    /\ colour = [n \in NTs(g) |-> "white"]
    /\ stack = <<>>
    /\ left = [n \in NTs(g) |-> Edges(g, n)]
    /\ ordering = <<>>
    /\ mode = "search"

-----------------------------------------------------------------------------
AllSeen == \A n \in NTs(g) : colour[n] # "white"

\* The search begins anew in the first vertex not seen yet.
Root(k) ==
    /\ mode = "search"
    /\ stack = <<>>
    /\ colour[ByName[k]] = "white"
    /\ \A j \in 1..k - 1 : colour[ByName[j]] # "white"
    /\ stack' = <<ByName[k]>>
    /\ colour' = [colour EXCEPT ![ByName[k]] = "gray"]
    /\ UNCHANGED <<g, left, ordering, mode>>

\* Variant: a vertex on the stack is passed over like a finished one.
FollowAny(n, r) ==
    /\ left' = [left EXCEPT ![n] = @ \ {r}]
    /\ IF colour[g.to[r]] = "white"
         THEN /\ colour' = [colour EXCEPT ![g.to[r]] = "gray"]
              /\ stack' = Append(stack, g.to[r])
         ELSE UNCHANGED <<colour, stack>>
    /\ UNCHANGED mode

\* The edge r from n leads into a vertex not seen before; or to a finished
\* one; or it closes a cycle, and the exception not_a_dag ends the search.
Follow(n, r) ==
    /\ left' = [left EXCEPT ![n] = @ \ {r}]
    /\ IF colour[g.to[r]] = "white"
         THEN /\ colour' = [colour EXCEPT ![g.to[r]] = "gray"]
              /\ stack' = Append(stack, g.to[r])
         ELSE UNCHANGED <<colour, stack>>
    /\ mode' = IF colour[g.to[r]] = "gray" THEN "thrown" ELSE mode

\* The next edge of the last vertex on the stack, in the order of the rule.
FollowEdge ==
    /\ mode = "search"
    /\ stack # <<>>
    /\ \E r \in left[Last(stack)] :
          /\ \A q \in left[Last(stack)] : r[2] <= q[2]
          /\ Follow(Last(stack), r)
    /\ UNCHANGED <<g, ordering>>

\* Variant: the last edge of a vertex is left out.
FinishEarly ==
    /\ mode = "search"
    /\ stack # <<>>
    /\ Cardinality(left[Last(stack)]) <= 1
    /\ stack' = Front(stack)
    /\ colour' = [colour EXCEPT ![Last(stack)] = "black"]
    /\ ordering' = Append(ordering, Last(stack))
    /\ UNCHANGED <<g, left, mode>>

Finish ==
    /\ mode = "search"
    /\ stack # <<>>
    /\ left[Last(stack)] = {}
    /\ stack' = Front(stack)
    /\ colour' = [colour EXCEPT ![Last(stack)] = "black"]
    /\ ordering' = Append(ordering, Last(stack))
    /\ UNCHANGED <<g, left, mode>>

\* The axiom and the first element change places.
AxiomFirst(s) ==
    [k \in DOMAIN s |-> IF k = 1 THEN g.axiom
                        ELSE IF s[k] = g.axiom THEN s[1] ELSE s[k]]

\* new_nts: the vertices in reverse, the axiom first.
NewNTs == AxiomFirst(Reverse(ordering))

\* set_nts()
SetNTs ==
    /\ mode = "search"
    /\ stack = <<>>
    /\ AllSeen
    /\ g' = [g EXCEPT !.order = NewNTs]
    /\ mode' = "done"
    /\ UNCHANGED <<colour, stack, left, ordering>>

Next == (\E k \in DOMAIN ByName : Root(k)) \/ FollowEdge \/ Finish \/ SetNTs

Spec == Init /\ [][Next]_vars

-----------------------------------------------------------------------------
\* Some non-terminals, each of which uses one of them: there is a cycle.
Cyclic ==
    \E S \in SUBSET NTs(g) :
        S # {} /\ \A n \in S : \E r \in Edges(g, n) : g.to[r] \in S

\* The axiom leads to every non-terminal: no fewer are closed under use.
AxiomReachesAll ==
    \A S \in SUBSET NTs(g) :
        g.axiom \in S /\ (\A n \in S : \A r \in Edges(g, n) : g.to[r] \in S)
            => S = NTs(g)

\* Every non-terminal stands before those its rule uses.
Sorted ==
    \A j, k \in DOMAIN g.order :
        (\E r \in Edges(g, g.order[j]) : g.to[r] = g.order[k]) => j < k

\* The search throws just for a grammar with a cycle, were it only that of a
\* recursive rule out of reach of the axiom.
ThrowsOnCycle == /\ mode = "thrown" => Cyclic
                 /\ mode = "done" => ~Cyclic

\* The new deque has each non-terminal once.
Permuted == Range(g.order) = Range(ByName) /\ Len(g.order) = Len(ByName)

\* Whatever the grammar is, no non-terminal is lost: set_nts() replaces the old
\* deque unseen, and one that is missing would never be printed again.  In a
\* grammar without unreachable non-terminals, as after -e, the result has the
\* axiom first and each non-terminal before those it uses: there the swap
\* disturbs nothing.
SortedFromAxiom ==
    mode = "done" => /\ Permuted
                     /\ AxiomReachesAll => Sorted /\ g.order[1] = g.axiom

\* What the help text of ged says of -tsort, whatever the axiom reaches: the
\* non-terminals are sorted topologically.
TopologicallySorted == mode = "done" => Sorted
=============================================================================
