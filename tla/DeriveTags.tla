----------------------------- MODULE DeriveTags ------------------------------
(***************************************************************************)
(* derive_tags() of grammar/grammar.cc: passes over the non-terminals in   *)
(* the order of nts(), until a pass changes nothing.  Each visit uses the  *)
(* coordinates as the visits before it left them, so that the number of    *)
(* passes depends on the order of the declarations; a limit stops it.      *)
(***************************************************************************)
EXTENDS LinkedGrammar

CONSTANT
    Limits      \* limits on the number of passes; 1000 in the code

ASSUME LimitsAssumption == Limits \subseteq Nat

VARIABLES
    g,            \* the grammar
    limit,        \* the limit on passes
    coord,        \* coordinates of the symbols and references
    pos,          \* index in nts() of the next visit
    has_changed,  \* a visit of this pass set coordinates
    i,            \* finished passes
    pc            \* "loop", "done", "thrown"

vars == <<g, limit, coord, pos, has_changed, i, pc>>

TypeOK ==
    /\ IsGrammar(g)
    /\ limit \in Limits
    /\ coord \in [Items(g) -> Coords \cup {None}]
    /\ pos \in 1..Len(g.order) + 1
    /\ has_changed \in BOOLEAN
    /\ i \in Nat
    /\ pc \in {"loop", "done", "thrown"}

Init ==
    /\ g \in Grammars
    /\ limit \in Limits
    /\ coord = g.tag
    /\ pos = 1
    /\ has_changed = FALSE
    /\ i = 0
    /\ pc = "loop"

\* Variant: a LINK overwrites its own coordinates with those of its target.
TagSymbolOverwriting(c, n) ==
    IF c[n] = None \/ n \in LinkNTs(g)
      THEN [c EXCEPT ![n] = Derive(g, c, n)] ELSE c

\* The non-terminal n takes over coordinates, if it has none.
TagSymbol(c, n) ==
    IF c[n] = None THEN [c EXCEPT ![n] = Derive(g, c, n)] ELSE c

\* Then the references in its rule do.
TagRefs(c, n) ==
    [x \in Items(g) |-> IF x \in RefsIn(g, n) /\ c[x] = None
                          THEN Derive(g, c, x) ELSE c[x]]

\* Variant: only the references take part in the test for a change.
VisitForgetful ==
    LET n == g.order[pos]
        c == TagRefs(TagSymbol(coord, n), n)
    IN  /\ pc = "loop"
        /\ pos \in DOMAIN g.order
        /\ coord' = c
        /\ has_changed' = (has_changed \/ c # TagSymbol(coord, n))
        /\ pos' = pos + 1
        /\ UNCHANGED <<g, limit, i, pc>>

\* Variant: every visit of a non-terminal with coordinates is a change.
VisitEager ==
    LET n == g.order[pos]
        c == TagRefs(TagSymbol(coord, n), n)
    IN  /\ pc = "loop"
        /\ pos \in DOMAIN g.order
        /\ coord' = c
        /\ has_changed' = (has_changed \/ c[n] # None)
        /\ pos' = pos + 1
        /\ UNCHANGED <<g, limit, i, pc>>

\* The body of the loop over nts().
Visit ==
    LET n == g.order[pos]
        c == TagRefs(TagSymbol(coord, n), n)
    IN  /\ pc = "loop"
        /\ pos \in DOMAIN g.order
        /\ coord' = c
        /\ has_changed' = (has_changed \/ c # coord)
        /\ pos' = pos + 1
        /\ UNCHANGED <<g, limit, i, pc>>

\* The end of a pass: the limit is tested first, also after the last pass.
EndPass ==
    /\ pc = "loop"
    /\ pos = Len(g.order) + 1
    /\ i' = i + 1
    /\ pc' = IF i' > limit THEN "thrown"
             ELSE IF has_changed THEN "loop" ELSE "done"
    /\ pos' = 1
    /\ has_changed' = FALSE
    /\ UNCHANGED <<g, limit, coord>>

Next == Visit \/ EndPass

\* A sequential function runs on.
Spec == Init /\ [][Next]_vars /\ WF_vars(Next)

-----------------------------------------------------------------------------
\* Whatever the order of the declarations, the result is that of following
\* each LINK and reference to where coordinates come from.
OrderIndependent == pc = "done" => coord = Resolve(g)

\* The loop does not stop early: nothing could take over coordinates that
\* has none, and what was taken over is what the source has in the end.
Settled == pc = "done" => Solution(g, coord)

\* One pass for the SEQUENCE a chain of LINKs ends in, two for each LINK, the
\* reference in one and the non-terminal in the next, one for a reference to
\* the first LINK and one that changes nothing; however adverse the order.
PassBound == 2 * Cardinality(LinkNTs(g)) + 3

\* The limit stops no derivation that has LINKs for fewer than half of it:
\* such a derivation comes to its regular end, within PassBound passes.
Terminates == PassBound <= limit ~> pc = "done"
=============================================================================
