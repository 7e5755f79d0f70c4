----------------------------- MODULE GraphWalks ------------------------------
(***************************************************************************)
(* The two forward walks over a linked grammar in grammar/grammar.cc:      *)
(* unreachable_symbols(), from the axiom, and effective_symbol(), from one *)
(* reference along the LINKs.  Printers call the second for the fields of  *)
(* every rule; erase_unreachable_symbols() erases what the first returns.  *)
(*                                                                         *)
(* Names are those of distinct symbols here, so that the set of names the  *)
(* code keeps is a set of symbols.  What is to be read is a set: each      *)
(* symbol comes into it once, and any of them is taken, not only the last. *)
(***************************************************************************)
EXTENDS LinkedGrammar

VARIABLES
    g,           \* the grammar
    mode,        \* "idle" or the walk that runs, "unreachable" or "effective"
    unreachable, \* unreachable_symbols(): symbols not met yet; None before
    todo,        \* unreachable_symbols(): symbols whose rule is to be read
    ref,         \* effective_symbol(): its argument; None before
    s            \* effective_symbol(): the symbol looked at

walkVars == <<unreachable, todo, ref, s>>

Init == unreachable = None /\ todo = {} /\ ref = None /\ s = None

AskUnreachable ==
    /\ mode = "idle"
    /\ mode' = "unreachable"
    /\ unreachable' = Symbols(g) \ {g.axiom}
    /\ todo' = {g.axiom}
    /\ UNCHANGED <<ref, s>>

AskEffective(r) ==
    /\ mode = "idle"
    /\ mode' = "effective"
    /\ ref' = r
    /\ s' = g.to[r]
    /\ UNCHANGED <<unreachable, todo>>

-----------------------------------------------------------------------------
\* Variant: only references to non-terminals count as a use.
PopNTs(t) ==
    LET met == {g.to[r] : r \in RefsIn(g, t)} \cap unreachable \cap NTs(g) IN
    /\ mode = "unreachable"
    /\ t \in todo
    /\ todo' = (todo \ {t}) \cup met
    /\ unreachable' = unreachable \ met
    /\ UNCHANGED <<mode, ref, s>>

\* One round of unreachable_symbols(): the symbols the rule of t refers to
\* that were not met before are met and are to be read.
Pop(t) ==
    LET met == {g.to[r] : r \in RefsIn(g, t)} \cap unreachable IN
    /\ mode = "unreachable"
    /\ t \in todo
    /\ todo' = (todo \ {t}) \cup met
    /\ unreachable' = unreachable \ met
    /\ UNCHANGED <<mode, ref, s>>

ReturnUnreachable ==
    /\ mode = "unreachable"
    /\ todo = {}
    /\ mode' = "idle"
    /\ UNCHANGED walkVars

\* Variant: a symbol with coordinates of its own ends the walk, as in the
\* lines of the code that are commented out.
EndsWalkAtTag == s = ref[1] \/ s \notin LinkNTs(g) \/ g.tag[s] # None

\* Variant: the walk does not look for the symbol whose rule it began in.
EndsWalkNoRoot == s \notin LinkNTs(g)

\* effective_symbol() returns: s is the symbol in whose rule the reference
\* is, or no alias of another symbol.
EndsWalk == s = ref[1] \/ s \notin LinkNTs(g)

Follow ==
    /\ mode = "effective"
    /\ ~EndsWalk
    /\ s' = g.to[FrontRef(s)]
    /\ UNCHANGED <<mode, unreachable, todo, ref>>

ReturnEffective ==
    /\ mode = "effective"
    /\ EndsWalk
    /\ mode' = "idle"
    /\ UNCHANGED walkVars

-----------------------------------------------------------------------------
\* A set of symbols with the axiom and all that its members refer to.
ClosedUnderUse(S) ==
    /\ g.axiom \in S
    /\ \A r \in Refs(g) : r[1] \in S => g.to[r] \in S

\* What is never taken out of the result can be erased: the symbols kept are
\* never more than any closed set has.  And when the function returns, they are
\* closed under use, so that no erase() takes a reference from a rule that
\* remains.
RestExact ==
    unreachable # None =>
        LET kept == Symbols(g) \ unreachable IN
        /\ \A S \in SUBSET Symbols(g) : ClosedUnderUse(S) => kept \subseteq S
        /\ mode # "unreachable" => ClosedUnderUse(kept)
=============================================================================
