------------------------------- MODULE Queries -------------------------------
(***************************************************************************)
(* All the questions ged and the printers ask of a linked grammar, with    *)
(* and without derive_tags() before: those of TagQueries and the walks of  *)
(* GraphWalks, one at a time.  They read the grammar and change nothing.   *)
(***************************************************************************)
EXTENDS TagQueries

VARIABLES unreachable, todo, ref, s     \* see GraphWalks

W == INSTANCE GraphWalks

walkVars == <<unreachable, todo, ref, s>>

queryVars == <<vars, tagVars, walkVars>>

QInit == TagInit /\ W!Init

\* One step of the walks, which are queries like the others.
AskWalk(walk) ==
    /\ asked < MaxQueries /\ NotDeriving
    /\ asked' = asked + 1
    /\ answer' = None /\ klasse' = None
    /\ walk
    /\ UNCHANGED <<vars, closureVars, primVars>>

StepWalk(walk) ==
    /\ walk
    /\ UNCHANGED <<vars, closureVars, primVars, asked, klasse, answer>>

WalkStep == \/ \E t \in Symbols(g) : StepWalk(W!Pop(t))
            \/ StepWalk(W!ReturnUnreachable)
            \/ StepWalk(W!Follow)
            \/ StepWalk(W!ReturnEffective)

QNext ==
    \/ TagNext /\ UNCHANGED walkVars
    \/ AskWalk(W!AskUnreachable)
    \/ \E r \in Refs(g) : AskWalk(W!AskEffective(r))
    \/ WalkStep

\* A query of TagQueries that was asked goes on.
TagStep == \/ PopReference \/ AnswerClosure \/ NextRound
           \/ AnswerPrimitive \/ AnswerMap \/ AnswerTranslations

\* A query runs until it is answered, which may be never.
QSpec == /\ QInit /\ [][QNext]_queryVars
         /\ WF_<<vars, tagVars>>(TagStep) /\ WF_queryVars(WalkStep)

-----------------------------------------------------------------------------
\* unreachable_symbols() returns what GraphWalks says of it.
RestExact == W!RestExact

\* effective_symbol() returns the symbol the rule of which it was called for,
\* when that is its own alias, and else the end of the chain.
EffectiveCorrect == mode # "effective" /\ ref # None => s = Effective(g, ref)

\* The queries that must come to an end: tag_closure() of a grammar with fewer
\* references than its limit, effective_symbol() unless there is a cycle of LINKs
\* without the symbol it was called for, and the others.
MustEnd ==
    CASE mode = "closure"   -> Cardinality(Refs(g)) <= most
      [] mode = "effective" -> Effective(g, ref) # None
      [] OTHER              -> mode # "thrown"

\* Each of them is answered, also where LINKs or rules form a cycle.
QueriesAnswered == MustEnd ~> mode = "idle"
=============================================================================
