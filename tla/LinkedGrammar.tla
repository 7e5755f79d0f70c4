---------------------------- MODULE LinkedGrammar ----------------------------
(***************************************************************************)
(* A grammar after init_links(), as the algorithms of grammar/grammar.cc   *)
(* that only read its structure see it: a record with                      *)
(*                                                                         *)
(*   order      the non-terminals, in the order of Grammar::nts()          *)
(*   terminals  the terminals                                              *)
(*   axiom      the start symbol                                           *)
(*   type       the type of the rule of each non-terminal                  *)
(*   to         the symbol each reference is linked to; <<n, i>> is the    *)
(*              i-th reference in the rule of the non-terminal n           *)
(*   tag        the coordinates <<class, tag>> of symbols and references,  *)
(*              None where Coordinates::initialized() is false             *)
(***************************************************************************)
EXTENDS Integers, Sequences, FiniteSets

CONSTANTS
    Grammars,   \* the grammars under consideration
    None        \* coordinates that are not initialized

Types == {"CHOICE", "SEQUENCE", "ALL", "LIST", "SET", "LINK"}

Coords == {0, 1, 2, 3} \X Nat
SeqCoord == <<0, 16>>   \* asn1::UNIVERSAL, asn1::SEQUENCE
SetCoord == <<0, 17>>   \* asn1::UNIVERSAL, asn1::SET

NTs(g)     == {g.order[k] : k \in DOMAIN g.order}
Symbols(g) == NTs(g) \cup g.terminals
Refs(g)    == DOMAIN g.to
Items(g)   == Symbols(g) \cup Refs(g)   \* all that has coordinates

RefsIn(g, n)  == {r \in Refs(g) : r[1] = n}       \* rule().refs()
Parents(g, s) == {r \in Refs(g) : g.to[r] = s}    \* parents()
LinkNTs(g)    == {n \in NTs(g) : g.type[n] = "LINK"}
FrontRef(n)      == <<n, 1>>                         \* refs().front()

\* The rule of a LINK is one reference: the parser writes no other, and no
\* erase_unreachable_symbols() takes it from a rule that stays.
IsGrammar(g) ==
    /\ DOMAIN g = {"order", "terminals", "axiom", "type", "to", "tag"}
    /\ g.order \in Seq(NTs(g))
    /\ NTs(g) \cap g.terminals = {}
    /\ IsFiniteSet(g.terminals) /\ IsFiniteSet(Refs(g))
    /\ g.axiom \in NTs(g)
    /\ g.type \in [NTs(g) -> Types]
    /\ g.to \in [Refs(g) -> Symbols(g)]
    /\ \A r \in Refs(g) : r[1] \in NTs(g) /\ r[2] \in Nat \ {0}
    /\ \A n \in LinkNTs(g) : RefsIn(g, n) = {FrontRef(n)}
    /\ Symbols(g) \cap Refs(g) = {} /\ None \notin Items(g)
    /\ g.tag \in [Items(g) -> Coords \cup {None}]

ASSUME NoneAssumption == None \notin Coords
ASSUME GrammarsAssumption == \A g \in Grammars : IsGrammar(g)

-----------------------------------------------------------------------------
\* The coordinates an item without own ones takes over when those of the
\* other items are c: the rules of all-implicit tagging.
Derive(g, c, x) ==
    IF x \in Refs(g) THEN c[g.to[x]]
    ELSE IF x \in g.terminals THEN None
    ELSE CASE g.type[x] \in {"SEQUENCE", "LIST"} -> SeqCoord
           [] g.type[x] \in {"ALL", "SET"}       -> SetCoord
           [] g.type[x] = "LINK"                 -> c[FrontRef(x)]
           [] g.type[x] = "CHOICE"               -> None

\* c gives every item its own coordinates or those it takes over.
Solution(g, c) ==
    /\ c \in [Items(g) -> Coords \cup {None}]
    /\ \A x \in Items(g) :
          c[x] = IF g.tag[x] # None THEN g.tag[x] ELSE Derive(g, c, x)

\* What all items have after taking over once more from c.
TakeOver(g, c) ==
    [x \in Items(g) |-> IF g.tag[x] # None THEN g.tag[x] ELSE Derive(g, c, x)]

\* Reference definition of the derived coordinates: what each item takes
\* over after following at most as many LINKs and references as there are.
Resolving(g) ==
    LET f[k \in 0..Cardinality(Items(g))] ==
          IF k = 0 THEN g.tag ELSE TakeOver(g, f[k - 1])
    IN  f
Resolve(g) == Resolving(g)[Cardinality(Items(g))]

\* The symbols on the chain of LINKs from s, which are fewer than there are
\* symbols.
GoOn(g, S) == S \cup {g.to[FrontRef(n)] : n \in S \cap LinkNTs(g)}
Following(g, s) ==
    LET f[k \in 0..Cardinality(Symbols(g))] ==
          IF k = 0 THEN {s} ELSE GoOn(g, f[k - 1])
    IN  f
ChainOfLinks(g, s) == Following(g, s)[Cardinality(Symbols(g))]

\* Where the chain of LINKs from s ends, or None when it goes round in a circle.
EndOfLinks(g, s) ==
    LET ends == {t \in Symbols(g) \ LinkNTs(g) : t \in ChainOfLinks(g, s)}
    IN  IF s \notin LinkNTs(g) THEN s
        ELSE IF ends = {} THEN None
        ELSE CHOOSE t \in ends : TRUE

\* Reference definition of effective_symbol(): the symbol in whose rule the
\* reference r is, when the LINKs lead back to it, else the end of the chain;
\* None when the walk does not end.
Effective(g, r) ==
    IF r[1] \in ChainOfLinks(g, g.to[r]) THEN r[1] ELSE EndOfLinks(g, g.to[r])
=============================================================================
