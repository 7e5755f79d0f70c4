------------------------------- MODULE Grammar -------------------------------
(***************************************************************************)
(* The container grammar::Grammar (grammar/grammar.hh, grammar/grammar.cc) *)
(* with the symbols it owns, the references in their rules and the         *)
(* back-references Symbol::Base::parents_ the references are mirrored in.  *)
(*                                                                         *)
(* A symbol lives at an object o \in Obj (its address; the model never     *)
(* hands out a freed address again), a reference is <<o, s>>: the one in   *)
(* slot s of the rule of the non-terminal at o.  The order of the deques   *)
(* symbols_, nts_ and terminals_ is abstracted, that of the references of  *)
(* a rule is kept (slots are numbers), since erase() walks it and may stop *)
(* in the middle.                                                          *)
(*                                                                         *)
(* The client of the class is bound to what ged does: init_links() is      *)
(* called at most once per grammar, a grammar whose erase() threw is only  *)
(* destroyed, and axiom() is not called while there is none.               *)
(***************************************************************************)
EXTENDS Integers, FiniteSets

CONSTANTS
    Obj,    \* addresses at which symbols are allocated
    Slot,   \* positions of the references in a rule
    Name,   \* symbol names
    Null    \* the null pointer / no name

ASSUME SlotAssumption == Slot \subseteq Nat
ASSUME NullAssumption == Null \notin Obj /\ Null \notin Name

Ref == Obj \X Slot

VARIABLES
    heap,             \* is an object unused, live or freed
    kind,             \* "NT" or "T": the dynamic type of a symbol
    name,             \* Symbol::Base::name_
    refs,             \* the references that exist, in the rules of the NTs
    target,           \* Reference::symbol_name_
    link,             \* Reference::symbol_
    parents,          \* Symbol::Base::parents_, how often it holds a reference
    symbols,          \* Grammar::symbols_ (owns the symbols)
    nts,              \* Grammar::nts_
    terminals,        \* Grammar::terminals_
    name_to_symbol,   \* Grammar::name_to_symbol_
    name_to_nt,       \* Grammar::name_to_nt_
    name_to_terminal, \* Grammar::name_to_terminal_
    axiom,            \* Grammar::axiom_
    ignore_duplicates,\* Grammar::ignore_duplicates_
    linked,           \* init_links() was called
    sweep,            \* names erase_unreachable_symbols() has still to erase
    phase,            \* "open", or "thrown" out of erase(), or "destroyed"
    stray             \* history: the symbol an erase() that threw had taken out

objectVars == <<heap, kind, name>>
refVars    == <<refs, target, link, parents>>
indexVars  == <<symbols, nts, terminals,
                name_to_symbol, name_to_nt, name_to_terminal>>
vars == <<objectVars, refVars, indexVars,
          axiom, ignore_duplicates, linked, sweep, phase, stray>>

NoParents == [r \in Ref |-> 0]

TypeOK ==
    /\ heap \in [Obj -> {"unused", "live", "freed"}]
    /\ kind \in [Obj -> {"NT", "T"}]
    /\ name \in [Obj -> Name \cup {Null}]
    /\ refs \in SUBSET Ref
    /\ target \in [Ref -> Name \cup {Null}]
    /\ link \in [Ref -> Obj \cup {Null}]
    /\ parents \in [Obj -> [Ref -> Nat]]
    /\ symbols \in SUBSET Obj
    /\ nts \in SUBSET Obj
    /\ terminals \in SUBSET Obj
    /\ name_to_symbol \in [Name -> Obj \cup {Null}]
    /\ name_to_nt \in [Name -> Obj \cup {Null}]
    /\ name_to_terminal \in [Name -> Obj \cup {Null}]
    /\ axiom \in Obj \cup {Null}
    /\ ignore_duplicates \in BOOLEAN
    /\ linked \in BOOLEAN
    /\ sweep \in SUBSET Name
    /\ phase \in {"open", "thrown", "destroyed"}
    /\ stray \in Obj \cup {Null}

Init ==
    /\ heap = [o \in Obj |-> "unused"]
    /\ kind = [o \in Obj |-> "T"]
    /\ name = [o \in Obj |-> Null]
    /\ refs = {}
    /\ target = [r \in Ref |-> Null]
    /\ link = [r \in Ref |-> Null]
    /\ parents = [o \in Obj |-> NoParents]
    /\ symbols = {} /\ nts = {} /\ terminals = {}
    /\ name_to_symbol = [n \in Name |-> Null]
    /\ name_to_nt = [n \in Name |-> Null]
    /\ name_to_terminal = [n \in Name |-> Null]
    /\ axiom = Null
    /\ ignore_duplicates = FALSE
    /\ linked = FALSE
    /\ sweep = {}
    /\ phase = "open"
    /\ stray = Null

-----------------------------------------------------------------------------
\* No other operation runs while erase_unreachable_symbols() does.
Idle == phase = "open" /\ sweep = {}

RefsOf(o) == {r \in refs : r[1] = o}

\* Variant: the duplicate takes the name over, as operator[]= would do.
EnterOverwriting(o, n, k) ==
    /\ heap[o] = "unused"
    /\ heap' = [heap EXCEPT ![o] = "live"]
    /\ kind' = [kind EXCEPT ![o] = k]
    /\ name' = [name EXCEPT ![o] = n]
    /\ symbols' = symbols \cup {o}
    /\ name_to_symbol' = [name_to_symbol EXCEPT ![n] = o]

\* Variant: the duplicate is released but not entered into symbols_.
EnterReleased(o, n, k) ==
    /\ heap[o] = "unused"
    /\ heap' = [heap EXCEPT ![o] = "live"]
    /\ kind' = [kind EXCEPT ![o] = k]
    /\ name' = [name EXCEPT ![o] = n]
    /\ IF name_to_symbol[n] = Null
         THEN /\ symbols' = symbols \cup {o}
              /\ name_to_symbol' = [name_to_symbol EXCEPT ![n] = o]
         ELSE UNCHANGED <<symbols, name_to_symbol>>

(***************************************************************************)
(* push(): the symbol enters symbols_ and the deque of its kind before the *)
(* duplicate check, which throws and leaves it there, without a name.      *)
(***************************************************************************)
Enter(o, n, k) ==
    /\ heap[o] = "unused"
    /\ heap' = [heap EXCEPT ![o] = "live"]
    /\ kind' = [kind EXCEPT ![o] = k]
    /\ name' = [name EXCEPT ![o] = n]
    /\ symbols' = symbols \cup {o}
    /\ name_to_symbol' = IF name_to_symbol[n] = Null
                           THEN [name_to_symbol EXCEPT ![n] = o]
                           ELSE name_to_symbol

\* push(unique_ptr<NT>); the NT comes with its rule, slot s of which names
\* the symbol rule[s].  An ignored duplicate changes nothing.
PushNT(o, n, rule) ==
    LET new == {o} \X DOMAIN rule IN
    /\ Idle
    /\ ~(ignore_duplicates /\ name_to_symbol[n] # Null)
    /\ Enter(o, n, "NT")
    /\ nts' = nts \cup {o}
    /\ axiom' = IF axiom = Null THEN o ELSE axiom
    /\ name_to_nt' = IF name_to_symbol[n] = Null
                       THEN [name_to_nt EXCEPT ![n] = o] ELSE name_to_nt
    /\ refs' = refs \cup new
    /\ target' = [r \in Ref |-> IF r \in new THEN rule[r[2]] ELSE target[r]]
    /\ UNCHANGED <<link, parents, terminals, name_to_terminal,
                   ignore_duplicates, linked, sweep, phase, stray>>

\* push(unique_ptr<Terminal>) does not look at ignore_duplicates_.
PushTerminal(o, n) ==
    /\ Idle
    /\ Enter(o, n, "T")
    /\ terminals' = terminals \cup {o}
    /\ name_to_terminal' = IF name_to_symbol[n] = Null
                             THEN [name_to_terminal EXCEPT ![n] = o]
                             ELSE name_to_terminal
    /\ UNCHANGED <<refVars, nts, name_to_nt, axiom,
                   ignore_duplicates, linked, sweep, phase, stray>>

SetIgnoreDuplicates(b) ==
    /\ Idle
    /\ ignore_duplicates' = b
    /\ UNCHANGED <<objectVars, refVars, indexVars,
                   axiom, linked, sweep, phase, stray>>

\* set_axiom(); name_to_nt() throws, changing nothing, for another name.
SetAxiom(n) ==
    /\ Idle
    /\ name_to_nt[n] # Null
    /\ axiom' = name_to_nt[n]
    /\ UNCHANGED <<objectVars, refVars, indexVars,
                   ignore_duplicates, linked, sweep, phase, stray>>

-----------------------------------------------------------------------------
Resolvable(r) == name_to_symbol[target[r]] # Null

\* The references init_links() has linked when it stops: those of the NTs
\* in done, and those before the first unresolvable one of the NT stop.
LinkedPrefix(done, stop) ==
    {r \in refs : \/ r[1] \in done
                  \/ /\ r[1] = stop
                     /\ \A q \in RefsOf(stop) : q[2] <= r[2] => Resolvable(q)}

\* Variant: the reference is not entered into parents_ of its symbol.
LinkOneWay(R) ==
    /\ link' = [r \in Ref |-> IF r \in R THEN name_to_symbol[target[r]]
                                         ELSE link[r]]
    /\ UNCHANGED parents

\* set_symbol() and push_parent() for the references in R.
LinkAll(R) ==
    /\ link' = [r \in Ref |-> IF r \in R THEN name_to_symbol[target[r]]
                                         ELSE link[r]]
    /\ parents' = [o \in Obj |-> [r \in Ref |->
                     IF r \in R /\ name_to_symbol[target[r]] = o
                       THEN parents[o][r] + 1 ELSE parents[o][r]]]

\* Variant: init_links() is called again for a grammar read in two parts.
InitLinksAgain ==
    /\ Idle
    /\ linked' = TRUE
    /\ \A r \in refs : Resolvable(r)
    /\ LinkAll(refs)
    /\ UNCHANGED <<objectVars, refs, target, indexVars,
                   axiom, ignore_duplicates, sweep, phase, stray>>

\* init_links(): all references, or, when a name is not found, those the
\* walk over nts_ met before the exception.
InitLinks ==
    /\ Idle
    /\ ~linked
    /\ linked' = TRUE
    /\ \/ /\ \A r \in refs : Resolvable(r)
          /\ LinkAll(refs)
       \/ \E done \in SUBSET nts : \E stop \in nts \ done :
             /\ \A r \in refs : r[1] \in done => Resolvable(r)
             /\ \E r \in RefsOf(stop) : ~Resolvable(r)
             /\ LinkAll(LinkedPrefix(done, stop))
    /\ UNCHANGED <<objectVars, refs, target, indexVars,
                   axiom, ignore_duplicates, sweep, phase, stray>>

-----------------------------------------------------------------------------
\* Variant: erase() forgets the back-references of the symbol's own rule.
EraseNoParent(R) == parents

\* parents_ after erase_parent() was called for each reference in R: one
\* occurrence less in the symbol the reference is linked to.
EraseParent(R) ==
    [o \in Obj |-> [r \in Ref |->
        IF r \in R /\ link[r] = o /\ parents[o][r] > 0
          THEN parents[o][r] - 1 ELSE parents[o][r]]]

\* erase() when every reference of the symbol o is linked: o leaves the
\* parents_ of the symbols it uses and all deques and maps, the references
\* in its own parents_ are deleted from their rules, and o is freed.
Destroy(o, n) ==
    LET after == EraseParent(RefsOf(o))
        gone  == RefsOf(o) \cup {r \in Ref : after[o][r] > 0}
    IN  /\ heap' = [heap EXCEPT ![o] = "freed"]
        /\ refs' = refs \ gone
        /\ target' = [r \in Ref |-> IF r \in gone THEN Null ELSE target[r]]
        /\ link' = [r \in Ref |-> IF r \in gone THEN Null ELSE link[r]]
        /\ parents' = [after EXCEPT ![o] = NoParents]
        /\ symbols' = symbols \ {o}
        /\ nts' = nts \ {o}
        /\ terminals' = terminals \ {o}
        /\ name_to_symbol' = [name_to_symbol EXCEPT ![n] = Null]
        /\ IF kind[o] = "NT"
             THEN /\ name_to_nt' = [name_to_nt EXCEPT ![n] = Null]
                  /\ UNCHANGED name_to_terminal
             ELSE /\ name_to_terminal' = [name_to_terminal EXCEPT ![n] = Null]
                  /\ UNCHANGED name_to_nt
        /\ UNCHANGED <<kind, name, phase, stray>>

\* erase() when Reference::symbol() throws for the first reference of o
\* that is not linked: the walk is abandoned, o is owned by nobody.
Abandon(o) ==
    LET seen == {r \in RefsOf(o) :
                   \A q \in RefsOf(o) : q[2] <= r[2] => link[q] # Null}
    IN  /\ symbols' = symbols \ {o}
        /\ parents' = EraseParent(seen)
        /\ phase' = "thrown"
        /\ stray' = o
        /\ UNCHANGED <<objectVars, refs, target, link, nts, terminals,
                       name_to_symbol, name_to_nt, name_to_terminal>>

\* erase(name)
EraseName(n) ==
    LET o == name_to_symbol[n]
        unlinked == \E r \in RefsOf(o) : link[r] = Null
    IN  /\ axiom' = IF axiom # Null /\ name[axiom] = n THEN Null ELSE axiom
        /\ \/ /\ o = Null
              /\ UNCHANGED <<objectVars, refVars, indexVars, phase, stray>>
           \/ o # Null /\ ~unlinked /\ Destroy(o, n)
           \/ o # Null /\ unlinked /\ Abandon(o)

Erase(n) ==
    /\ Idle
    /\ EraseName(n)
    /\ UNCHANGED <<ignore_duplicates, linked, sweep>>

-----------------------------------------------------------------------------
SymbolNames == {name[o] : o \in symbols}

\* Variant: a reference without a link is passed.
MetLinked(r) == link[r] # Null /\ target[r] \in SymbolNames

\* The walk of unreachable_symbols() stops at a reference to the name of a symbol.
Met(r) == target[r] \in SymbolNames

\* S is closed under this walk: it goes on to the symbol the reference is linked to,
\* unless that has the name of the axiom.
Closed(S) ==
    /\ axiom \in S
    /\ \A r \in refs : /\ r[1] \in S /\ Met(r)
                       /\ link[r] # Null /\ target[r] # name[axiom]
                       => link[r] \in S

\* The symbols the walk visits: the least closed set.
Reached == {o \in symbols : \A S \in SUBSET symbols : Closed(S) => o \in S}

ReachedNames == {name[o] : o \in Reached}

\* erase_unreachable_symbols(), up to the loop over the names found.  The
\* walk needs an axiom, and a link when it comes to the name of a symbol for
\* the first time; it passes references to the axiom and to what it has seen,
\* linked or not.  Its order is left open.
StartSweep ==
    /\ Idle
    /\ axiom # Null
    /\ \A r \in refs : r[1] \in Reached /\ Met(r) => target[r] \in ReachedNames
    /\ sweep' = SymbolNames \ ReachedNames
    /\ UNCHANGED <<objectVars, refVars, indexVars,
                   axiom, ignore_duplicates, linked, phase, stray>>

\* One round of that loop; the order is that of an unordered_set.
SweepOne(n) ==
    /\ phase = "open"
    /\ n \in sweep
    /\ EraseName(n)
    /\ sweep' = sweep \ {n}
    /\ UNCHANGED <<ignore_duplicates, linked>>

\* ~Grammar(): deletes what symbols_ owns, and with an NT its rule.
Destructor ==
    LET gone == {r \in refs : r[1] \in symbols} IN
    /\ phase # "destroyed"
    /\ phase = "thrown" \/ sweep = {}
    /\ heap' = [o \in Obj |-> IF o \in symbols THEN "freed" ELSE heap[o]]
    /\ refs' = refs \ gone
    /\ phase' = "destroyed"
    /\ UNCHANGED <<kind, name, target, link, parents, indexVars, axiom,
                   ignore_duplicates, linked, sweep, stray>>

\* The rules of a new NT: slots filled from the first one on.
Rules == UNION {[{s \in Slot : s <= m} -> Name] : m \in {0} \cup Slot}

Next ==
    \/ \E o \in Obj, n \in Name :
          \/ \E rule \in Rules : PushNT(o, n, rule)
          \/ PushTerminal(o, n)
    \/ \E b \in BOOLEAN : SetIgnoreDuplicates(b)
    \/ \E n \in Name : SetAxiom(n) \/ Erase(n) \/ SweepOne(n)
    \/ InitLinks
    \/ StartSweep
    \/ Destructor

Spec == Init /\ [][Next]_vars

-----------------------------------------------------------------------------
\* No pointer of the grammar leads to a freed object: neither the links of
\* the references that exist, nor parents_ (to a reference whose rule is
\* gone), nor a deque, a map or the axiom.  erase() follows all of them.
NoDangling ==
    phase = "open" =>
        /\ \A r \in refs : heap[r[1]] = "live"
        /\ \A r \in refs : link[r] # Null => heap[link[r]] = "live"
        /\ \A o \in symbols : \A r \in Ref : parents[o][r] > 0 => r \in refs
        /\ \A o \in nts \cup terminals : heap[o] = "live"
        /\ \A n \in Name : name_to_symbol[n] # Null
                             => heap[name_to_symbol[n]] = "live"
        /\ axiom # Null => axiom \in nts

\* parents_ of a symbol holds each reference linked to it once, and nothing
\* else, so that erase_parent(), which drops one occurrence, drops them all.
BackLinksExact ==
    phase = "open" =>
        \A o \in symbols : \A r \in Ref :
            parents[o][r] = IF r \in refs /\ link[r] = o THEN 1 ELSE 0

\* A linked reference is linked to the symbol a look-up of its name finds,
\* also after symbols of that name were pushed twice, erased or pushed again.
LinksBindByName ==
    phase = "open" =>
        \A r \in refs : link[r] # Null => link[r] = name_to_symbol[target[r]]

\* symbols_ owns every symbol that was allocated and not deleted, each of
\* them also in the deque of its kind: the destructor leaks nothing.
Ownership ==
    phase = "open" =>
        /\ symbols = {o \in Obj : heap[o] = "live"}
        /\ nts = {o \in symbols : kind[o] = "NT"}
        /\ terminals = {o \in symbols : kind[o] = "T"}

\* The map of all symbols is the union of the maps by kind, and an entry
\* leads to a symbol of the name and the kind it is filed under.
MapsAgree ==
    phase = "open" =>
        \A n \in Name :
            LET o == name_to_symbol[n] IN
            /\ o # Null => o \in symbols /\ name[o] = n
            /\ name_to_nt[n] =
                  IF o # Null /\ kind[o] = "NT" THEN o ELSE Null
            /\ name_to_terminal[n] =
                  IF o # Null /\ kind[o] = "T" THEN o ELSE Null

\* What can be found by name or in a deque is what the grammar owns.
IndexesAgree == Ownership /\ MapsAgree

\* A grammar that is destroyed frees every symbol it ever took in, duplicates
\* and those of rules half linked included, unless an erase() threw before: then
\* all but the one symbol that erase() had taken from symbols_, and it threw
\* because this symbol has a reference without a link.
LeakBounded ==
    /\ phase = "destroyed" => {o \in Obj : heap[o] = "live"} = {stray} \ {Null}
    /\ stray # Null => /\ phase # "open"
                       /\ \E r \in RefsOf(stray) : link[r] = Null

\* While the loop of erase_unreachable_symbols() runs, a symbol the axiom
\* reaches is neither erased nor does it lose a reference, and a name its rule
\* refers to, linked or not, can be looked up as before; and when it is done,
\* every name that can be looked up is reached from the axiom.  No erase()
\* makes an earlier one moot.
SweepStep ==
    sweep # {} /\ phase' = "open" =>
        /\ \A o \in Reached : /\ o \in symbols'
                              /\ {r \in refs' : r[1] = o} = RefsOf(o)
        /\ \A r \in refs : r[1] \in Reached =>
              name_to_symbol'[target[r]] = name_to_symbol[target[r]]
        /\ sweep' = {} =>
              \A n \in Name : name_to_symbol'[n] # Null => n \in ReachedNames'

SweepExact == [][SweepStep]_vars

-----------------------------------------------------------------------------
\* The promise of the class: see SymbolGraph.  After an operation that was
\* abandoned nothing is promised.
Graph == INSTANCE SymbolGraph WITH
    nodes <- IF phase = "open" THEN symbols ELSE {},
    uses  <- IF phase = "open" THEN refs ELSE {},
    edge  <- IF phase = "open"
               THEN {e \in refs \X Obj : link[e[1]] = e[2]} ELSE {},
    dict  <- IF phase = "open" THEN name_to_symbol
                               ELSE [n \in Name |-> Null],
    open  <- phase = "open"

\* The grammar with its redundant pointers implements the graph of symbols:
\* erase() removes one symbol and exactly the references that touch it.
ImplementsGraph == Graph!ASpec
=============================================================================
