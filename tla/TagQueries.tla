----------------------------- MODULE TagQueries ------------------------------
(***************************************************************************)
(* What ged asks of a tagged grammar (grammar/grammar.cc): tag_closure(),  *)
(* the tags under which a value of one type may appear; primitive_tags(),  *)
(* the tags of the types that are aliases of a terminal; the name of each  *)
(* tag, and the shape and coordinates of each name.  The first two walk    *)
(* the back-references parents() from a symbol to its users and go on      *)
(* where the user is a LINK; the map of names makes use of the second.     *)
(* derive_tags() runs before the first query, or not at all.               *)
(***************************************************************************)
EXTENDS DeriveTags, SequencesExt

CONSTANTS
    ClosureLimits,  \* limits on the references tag_closure() looks at (1000)
    Klasses,        \* tag classes asked for
    MaxQueries      \* bound: queries of a run

ASSUME ParametersAssumption ==
    /\ ClosureLimits \subseteq Nat
    /\ Klasses \subseteq {0, 1, 2, 3}
    /\ MaxQueries \in Nat

VARIABLES       \* and those of derive_tags()
    klasse,     \* the class asked for, klasse_ of ged
    mode,       \* "idle"; the query that runs; "thrown"
    asked,      \* number of queries so far
    most,       \* tag_closure(): its limit
    root,       \* tag_closure(): the symbol asked about
    stack,      \* tag_closure(): references to look at
    seen,       \* tag_closure(): symbols whose users were pushed
    found,      \* tag_closure(): tags so far
    looked,     \* tag_closure(): references looked at
    parents,    \* primitive_tags(): aliases of the last round
    all_parents,\* primitive_tags(): aliases so far
    answer      \* what the last query returned, by its name, or None

closureVars == <<most, root, stack, seen, found, looked>>
primVars    == <<parents, all_parents>>
tagVars     == <<mode, asked, klasse, closureVars, primVars, answer>>

TagInit ==
    /\ Init
    /\ mode = "idle" /\ asked = 0
    /\ klasse = None
    /\ most = None /\ root = None /\ stack = <<>> /\ seen = {} /\ found = {} /\ looked = 0
    /\ parents = {} /\ all_parents = {}
    /\ answer = None

\* A step of derive_tags().
DeriveStep == asked = 0 /\ Next /\ UNCHANGED tagVars

\* No query comes in the middle of it.
NotDeriving == pc = "done" \/ (pc = "loop" /\ i = 0 /\ pos = 1)

Ask(query, k) ==
    /\ mode = "idle" /\ asked < MaxQueries /\ NotDeriving
    /\ asked' = asked + 1
    /\ mode' = query
    /\ klasse' = k
    /\ answer' = None

Return(x) ==
    /\ mode' = "idle"
    /\ answer' = [query |-> mode, value |-> x]
    /\ UNCHANGED <<asked, klasse>>

-----------------------------------------------------------------------------
\* The tags of class k among the coordinates of the items X that are
\* initialized.
TagsOf(X, k) == {coord[x][2] : x \in {y \in X : coord[y] # None /\ coord[y][1] = k}}

\* tag_closure(name) begins with the symbol itself and all its users.
AskClosure(t, k, lim) ==
    /\ Ask("closure", k)
    /\ most' = lim
    /\ root' = t
    /\ found' = TagsOf({t}, k)
    /\ stack' = SetToSeq(Parents(g, t))
    /\ seen' = {t}
    /\ looked' = 0
    /\ UNCHANGED <<vars, primVars>>

\* Variant: the users of a symbol are pushed whether it was seen or not.
PopReferenceUnseen ==
    LET ref == stack[Len(stack)]
        nt  == ref[1]
        up  == nt \in LinkNTs(g)
    IN  /\ mode = "closure"
        /\ stack # <<>>
        /\ looked' = looked + 1
        /\ found' = found \cup TagsOf({ref}, klasse)
        /\ stack' = SubSeq(stack, 1, Len(stack) - 1)
                      \o IF up THEN SetToSeq(Parents(g, nt)) ELSE <<>>
        /\ seen' = IF up THEN seen \cup {nt} ELSE seen
        /\ mode' = IF looked' > most THEN "thrown" ELSE mode
        /\ UNCHANGED <<vars, most, root, primVars, asked, klasse, answer>>

\* Variant: the walk also goes up where the user is not a LINK.
PopReferenceAnyRule ==
    LET ref == stack[Len(stack)]
        nt  == ref[1]
        up  == nt \notin seen
    IN  /\ mode = "closure"
        /\ stack # <<>>
        /\ looked' = looked + 1
        /\ found' = found \cup TagsOf({ref}, klasse)
        /\ stack' = SubSeq(stack, 1, Len(stack) - 1)
                      \o IF up THEN SetToSeq(Parents(g, nt)) ELSE <<>>
        /\ seen' = IF up THEN seen \cup {nt} ELSE seen
        /\ mode' = IF looked' > most THEN "thrown" ELSE mode
        /\ UNCHANGED <<vars, most, root, primVars, asked, klasse, answer>>

\* One round of its loop: the last reference of the stack is looked at, and
\* when it is the rule of a LINK, the users of that come onto the stack.
PopReference ==
    LET ref == stack[Len(stack)]
        nt  == ref[1]
        up  == nt \in LinkNTs(g) \ seen
    IN  /\ mode = "closure"
        /\ stack # <<>>
        /\ looked' = looked + 1
        /\ found' = found \cup TagsOf({ref}, klasse)
        /\ stack' = SubSeq(stack, 1, Len(stack) - 1)
                      \o IF up THEN SetToSeq(Parents(g, nt)) ELSE <<>>
        /\ seen' = IF up THEN seen \cup {nt} ELSE seen
        /\ mode' = IF looked' > most THEN "thrown" ELSE mode
        /\ UNCHANGED <<vars, most, root, primVars, asked, klasse, answer>>

AnswerClosure ==
    /\ mode = "closure"
    /\ stack = <<>>
    /\ Return(found)
    /\ UNCHANGED <<vars, closureVars, primVars>>

-----------------------------------------------------------------------------
\* Variant: the users of the terminals, LINK or not.
AliasesAny(X) == {r[1] : r \in {q \in Refs(g) : g.to[q] \in X}}

\* The LINKs among the users of the symbols in X.
Aliases(X) == {r[1] : r \in {q \in Refs(g) : g.to[q] \in X
                                             /\ q[1] \in LinkNTs(g)}}

\* primitive_tags() begins with the aliases of the terminals.  The map of names
\* calls it for three classes; the walk is the same for each.
AskPrimitive(query, k) ==
    /\ Ask(query, k)
    /\ parents' = Aliases(g.terminals)
    /\ all_parents' = parents'
    /\ UNCHANGED <<vars, closureVars>>

WalksAliases == mode \in {"primitive", "map"}

\* Variant: the aliases found replace those of the round before.
NextRoundReplacing ==
    LET new_parents == Aliases(parents) \ all_parents IN
    /\ WalksAliases
    /\ new_parents # {}
    /\ parents' = new_parents
    /\ all_parents' = new_parents
    /\ UNCHANGED <<vars, mode, closureVars, asked, klasse, answer>>

\* It goes on, round by round, with the aliases of the aliases.
NextRound ==
    LET new_parents == Aliases(parents) \ all_parents IN
    /\ WalksAliases
    /\ new_parents # {}
    /\ parents' = new_parents
    /\ all_parents' = all_parents \cup new_parents
    /\ UNCHANGED <<vars, mode, closureVars, asked, klasse, answer>>

\* Variant: the class is not looked at.
PrimitiveTagsAny(k) == {coord[n][2] : n \in {m \in all_parents : coord[m] # None}}

\* What it returns for the class k.  At the end it does not ask whether the
\* coordinates are initialized: those that are not look like tag 0 of class 0.
PrimitiveTags(k) ==
    LET At(n) == IF coord[n] = None THEN <<0, 0>> ELSE coord[n]
    IN  {At(n)[2] : n \in {m \in all_parents : At(m)[1] = k}}

AnswerPrimitive ==
    /\ mode = "primitive"
    /\ Aliases(parents) \ all_parents = {}
    /\ Return(PrimitiveTags(klasse))
    /\ UNCHANGED <<vars, closureVars, primVars>>

\* map_name_to_shape_klasse_tag(): shape, class and tag of each name.  The shape
\* is told by the tag alone, and never for the class 2.
AnswerMap ==
    /\ mode = "map"
    /\ Aliases(parents) \ all_parents = {}
    /\ Return([t \in {x \in Symbols(g) : coord[x] # None} |->
                 [shape |-> coord[t][1] # 2 /\ coord[t][2] \in PrimitiveTags(coord[t][1]),
                  klasse |-> coord[t][1], tag |-> coord[t][2]]])
    /\ UNCHANGED <<vars, closureVars, primVars>>

-----------------------------------------------------------------------------
\* Variant: the name of the rule that has the reference.
NamedParent(x) == IF x \in Refs(g) THEN x[1] ELSE x

\* The name given to the tag of x: that of the symbol, or symbol_name() of the
\* reference.
Named(x) == IF x \in Refs(g) THEN g.to[x] ELSE x

AskTranslations(k) ==
    /\ Ask("translations", k)
    /\ UNCHANGED <<vars, closureVars, primVars>>

\* The order of for_each_tag_translation(): a non-terminal, the references in
\* its rule, the next non-terminal, and the terminals at the end.
Before(x, y) ==
    LET nt(z) == IF z \in Refs(g) THEN z[1] ELSE z
        at(z) == IF z \in g.terminals THEN Len(g.order) + 1
                 ELSE CHOOSE k \in DOMAIN g.order : g.order[k] = nt(z)
        within(z) == IF z \in Refs(g) THEN z[2] ELSE 0
    IN  at(x) < at(y) \/ (at(x) = at(y) /\ within(x) < within(y))

\* The items with the tag t of the class asked for.
Tagged(t) == {x \in Items(g) : t \in TagsOf({x}, klasse)}

\* tag_translations(): the last item with a tag gives it its name.
LastTagged(t) == CHOOSE x \in Tagged(t) : \A y \in Tagged(t) : ~Before(x, y)

AnswerTranslations ==
    /\ mode = "translations"
    /\ Return([t \in TagsOf(Items(g), klasse) |-> Named(LastTagged(t))])
    /\ UNCHANGED <<vars, closureVars, primVars>>

TagNext ==
    \/ DeriveStep
    \/ \E t \in Symbols(g), k \in Klasses, lim \in ClosureLimits : AskClosure(t, k, lim)
    \/ PopReference
    \/ AnswerClosure
    \/ \E k \in Klasses : AskPrimitive("primitive", k)
    \/ AskPrimitive("map", None)
    \/ NextRound
    \/ AnswerPrimitive \/ AnswerMap
    \/ \E k \in Klasses : AskTranslations(k)
    \/ AnswerTranslations

-----------------------------------------------------------------------------
\* The references by which a value of the symbol s may be referred to: those
\* from which a chain of LINKs, followed forward, comes through s.
RefersTo(s) == {r \in Refs(g) : s \in ChainOfLinks(g, g.to[r])}

\* All the tags of the class asked for that a value of s may have.
Closure(s) == TagsOf({s} \cup RefersTo(s), klasse)

\* The LINKs whose chain ends in a terminal.
AliasesOfTerminals == {n \in LinkNTs(g) : EndOfLinks(g, n) \in g.terminals}

Answered(query) == answer # None /\ answer.query = query

\* The backward walk of tag_closure() over a stack, with its early marks,
\* finds exactly the tags of the forward definition, in grammars with cycles
\* of LINKs too.
ClosureCorrect == Answered("closure") => answer.value = Closure(root)

\* primitive_tags() finds, from the terminals backward, the LINKs whose chain
\* ends in a terminal.  After derive_tags(), when the terminals have tags, each
\* of them has coordinates: no tag 0 is reported that nobody declared.
PrimitivesFound ==
    Answered("primitive") =>
        /\ all_parents = AliasesOfTerminals
        /\ pc = "done" /\ (\A t \in g.terminals : g.tag[t] # None) =>
              answer.value = TagsOf(all_parents, klasse)

\* The map has the names with coordinates.  One is of primitive shape when it is
\* an alias of a terminal, and else only when it shares its coordinates with one:
\* after derive_tags() on terminals with tags, a SEQUENCE never is unless a LINK
\* was given the same tag.  The class 2 has no primitive names.
NameMapCorrect ==
    Answered("map") =>
        LET at(x) == [klasse |-> answer.value[x].klasse, tag |-> answer.value[x].tag]
            names == DOMAIN answer.value
        IN  /\ \A x \in Symbols(g) :
                  IF coord[x] = None THEN x \notin names
                  ELSE x \in names /\ <<at(x).klasse, at(x).tag>> = coord[x]
            /\ \A n \in names \cap AliasesOfTerminals :
                  answer.value[n].shape = (at(n).klasse # 2)
            /\ pc = "done" /\ (\A t \in g.terminals : g.tag[t] # None) =>
                  \A x \in names : answer.value[x].shape =>
                      \E n \in names \cap AliasesOfTerminals : at(n) = at(x)

\* Each tag in use has a name, and values of that name may have the tag: it is in
\* its tag_closure().  Terminals keep the tags of their own.
TranslationsInClosure ==
    Answered("translations") =>
        /\ DOMAIN answer.value = TagsOf(Items(g), klasse)
        /\ \A t \in DOMAIN answer.value : t \in Closure(answer.value[t])
        /\ \A t \in TagsOf(g.terminals, klasse) : answer.value[t] \in g.terminals
=============================================================================
