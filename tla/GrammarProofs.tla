---------------------------- MODULE GrammarProofs ----------------------------
(***************************************************************************)
(* Theorems about the container Grammar, for every set of addresses,       *)
(* names and slots.  The inductive invariant is IInv: the properties of    *)
(* Grammar do not support each other without what it adds, that the        *)
(* references of a symbol not yet allocated are blank, and that nothing is *)
(* linked before init_links().                                             *)
(***************************************************************************)
EXTENDS Grammar, TLAPS

\* Typing needs one fact more: references in rules and symbols have names.
RefsNamed == /\ \A r \in refs : target[r] \in Name
             /\ \A o \in symbols : name[o] \in Name

Typed == TypeOK /\ RefsNamed

-----------------------------------------------------------------------------
\* What the operators of Grammar return has the type of the variable it is
\* assigned to.
LEMMA EraseParentType ==
    ASSUME TypeOK, NEW R \in SUBSET Ref
    PROVE  EraseParent(R) \in [Obj -> [Ref -> Nat]]
  <1>1. ASSUME NEW o \in Obj, NEW r \in Ref
        PROVE  (IF r \in R /\ link[r] = o /\ parents[o][r] > 0
                  THEN parents[o][r] - 1 ELSE parents[o][r]) \in Nat
    <2>1. parents[o][r] \in Nat
      BY DEF TypeOK
    <2> QED BY <2>1
  <1> QED BY <1>1 DEF EraseParent

LEMMA EnterType ==
    ASSUME TypeOK, NEW o \in Obj, NEW n \in Name, NEW k \in {"NT", "T"},
           Enter(o, n, k)
    PROVE  /\ heap' \in [Obj -> {"unused", "live", "freed"}]
           /\ kind' \in [Obj -> {"NT", "T"}]
           /\ name' \in [Obj -> Name \cup {Null}]
           /\ symbols' \in SUBSET Obj
           /\ name_to_symbol' \in [Name -> Obj \cup {Null}]
           /\ RefsNamed => \A p \in symbols' : name'[p] \in Name
  BY DEF TypeOK, Enter, RefsNamed

LEMMA LinkAllType ==
    ASSUME Typed, NEW R \in SUBSET refs, LinkAll(R)
    PROVE  /\ link' \in [Ref -> Obj \cup {Null}]
           /\ parents' \in [Obj -> [Ref -> Nat]]
  <1>1. \A r \in R : r \in Ref /\ name_to_symbol[target[r]] \in Obj \cup {Null}
    BY DEF Typed, TypeOK, RefsNamed
  <1>2. \A r \in Ref : link[r] \in Obj \cup {Null}
    BY DEF Typed, TypeOK
  <1>3. link' \in [Ref -> Obj \cup {Null}]
    BY <1>1, <1>2 DEF LinkAll
  <1>4. \A o \in Obj, r \in Ref : parents[o][r] \in Nat
    BY DEF Typed, TypeOK
  <1>5. parents' \in [Obj -> [Ref -> Nat]]
    BY <1>4 DEF LinkAll
  <1> QED BY <1>3, <1>5

LEMMA DestroyType ==
    ASSUME Typed, NEW o \in Obj, NEW n \in Name, Destroy(o, n)
    PROVE  /\ heap' \in [Obj -> {"unused", "live", "freed"}]
           /\ refs' \in SUBSET refs
           /\ target' \in [Ref -> Name \cup {Null}]
           /\ \A r \in refs' : target'[r] = target[r]
           /\ link' \in [Ref -> Obj \cup {Null}]
           /\ parents' \in [Obj -> [Ref -> Nat]]
           /\ symbols' \in SUBSET symbols
           /\ nts' \in SUBSET Obj
           /\ terminals' \in SUBSET Obj
           /\ name_to_symbol' \in [Name -> Obj \cup {Null}]
           /\ name_to_nt' \in [Name -> Obj \cup {Null}]
           /\ name_to_terminal' \in [Name -> Obj \cup {Null}]
           /\ UNCHANGED <<kind, name, phase, stray>>
  <1> DEFINE after == EraseParent(RefsOf(o))
             gone  == RefsOf(o) \cup {r \in Ref : after[o][r] > 0}
  <1>1. RefsOf(o) \in SUBSET Ref
    BY DEF RefsOf, Typed, TypeOK
  <1>2. after \in [Obj -> [Ref -> Nat]]
    BY <1>1, EraseParentType DEF Typed
  <1>3. /\ heap' = [heap EXCEPT ![o] = "freed"]
        /\ refs' = refs \ gone
        /\ target' = [r \in Ref |-> IF r \in gone THEN Null ELSE target[r]]
        /\ link' = [r \in Ref |-> IF r \in gone THEN Null ELSE link[r]]
        /\ parents' = [after EXCEPT ![o] = NoParents]
        /\ symbols' = symbols \ {o}
        /\ nts' = nts \ {o}
        /\ terminals' = terminals \ {o}
        /\ name_to_symbol' = [name_to_symbol EXCEPT ![n] = Null]
        /\ name_to_nt' = [name_to_nt EXCEPT ![n] = Null]
           \/ name_to_nt' = name_to_nt
        /\ name_to_terminal' = [name_to_terminal EXCEPT ![n] = Null]
           \/ name_to_terminal' = name_to_terminal
        /\ UNCHANGED <<kind, name, phase, stray>>
    BY DEF Destroy
  <1> HIDE DEF after, gone
  <1>4. NoParents \in [Ref -> Nat]
    BY DEF NoParents
  <1>5. parents' \in [Obj -> [Ref -> Nat]]
    BY <1>2, <1>3, <1>4
  <1>6. \A r \in Ref : /\ target[r] \in Name \cup {Null}
                       /\ link[r] \in Obj \cup {Null}
    BY DEF Typed, TypeOK
  <1>7. /\ target' \in [Ref -> Name \cup {Null}]
        /\ link' \in [Ref -> Obj \cup {Null}]
    BY <1>3, <1>6
  <1>8. \A r \in refs' : target'[r] = target[r]
    BY <1>3 DEF Typed, TypeOK
  <1> QED BY <1>3, <1>5, <1>7, <1>8 DEF Typed, TypeOK

LEMMA AbandonType ==
    ASSUME Typed, NEW o \in Obj, Abandon(o)
    PROVE  /\ symbols' \in SUBSET symbols
           /\ parents' \in [Obj -> [Ref -> Nat]]
           /\ phase' = "thrown" /\ stray' = o
           /\ UNCHANGED <<objectVars, refs, target, link, nts, terminals,
                          name_to_symbol, name_to_nt, name_to_terminal>>
  <1> DEFINE seen == {r \in RefsOf(o) :
                   \A q \in RefsOf(o) : q[2] <= r[2] => link[q] # Null}
  <1>1. seen \in SUBSET Ref
    BY DEF RefsOf, Typed, TypeOK
  <1>2. /\ symbols' = symbols \ {o}
        /\ parents' = EraseParent(seen)
        /\ phase' = "thrown" /\ stray' = o
        /\ UNCHANGED <<objectVars, refs, target, link, nts, terminals,
                       name_to_symbol, name_to_nt, name_to_terminal>>
    BY DEF Abandon
  <1> HIDE DEF seen
  <1> QED BY <1>1, <1>2, EraseParentType DEF Typed, TypeOK

LEMMA EraseNameType ==
    ASSUME Typed, NEW n \in Name, EraseName(n),
           ignore_duplicates' \in BOOLEAN, linked' \in BOOLEAN,
           sweep' \in SUBSET Name
    PROVE  Typed'
  <1> DEFINE o == name_to_symbol[n]
  <1>1. axiom' \in Obj \cup {Null}
    BY DEF EraseName, Typed, TypeOK
  <1>2. CASE UNCHANGED <<objectVars, refVars, indexVars, phase, stray>>
    BY <1>1, <1>2 DEF Typed, TypeOK, RefsNamed, objectVars, refVars, indexVars
  <1>3. CASE o # Null /\ Destroy(o, n)
    <2>1. o \in Obj
      BY <1>3 DEF Typed, TypeOK
    <2> HIDE DEF o
    <2>2. RefsNamed'
      BY <1>3, <2>1, DestroyType DEF Typed, RefsNamed
    <2>3. TypeOK'
      BY <1>1, <1>3, <2>1, DestroyType DEF Typed, TypeOK
    <2> QED BY <2>2, <2>3 DEF Typed
  <1>4. CASE o # Null /\ Abandon(o)
    <2>1. o \in Obj
      BY <1>4 DEF Typed, TypeOK
    <2> HIDE DEF o
    <2> QED BY <1>1, <1>4, <2>1, AbandonType
            DEF Typed, TypeOK, RefsNamed, objectVars
  <1> QED BY <1>2, <1>3, <1>4 DEF EraseName

-----------------------------------------------------------------------------
LEMMA TypedInit == Init => Typed
  <1> SUFFICES ASSUME Init PROVE Typed
    OBVIOUS
  <1>1. NoParents \in [Ref -> Nat]
    BY DEF NoParents
  <1>2. parents \in [Obj -> [Ref -> Nat]]
    BY <1>1 DEF Init
  <1>3. /\ heap \in [Obj -> {"unused", "live", "freed"}]
        /\ kind \in [Obj -> {"NT", "T"}]
        /\ name \in [Obj -> Name \cup {Null}]
    BY DEF Init
  <1> QED BY <1>2, <1>3 DEF Init, Typed, TypeOK, RefsNamed

LEMMA TypedNext == Typed /\ [Next]_vars => Typed'
  <1> SUFFICES ASSUME Typed, [Next]_vars PROVE Typed'
    OBVIOUS
  <1>1. ASSUME NEW o \in Obj, NEW n \in Name, NEW rule \in Rules,
               PushNT(o, n, rule)
        PROVE  Typed'
    <2> DEFINE new == {o} \X DOMAIN rule
    <2>1. /\ DOMAIN rule \subseteq Slot
          /\ \A s \in DOMAIN rule : rule[s] \in Name
      BY DEF Rules
    <2>2. /\ new \subseteq Ref
          /\ \A r \in new : rule[r[2]] \in Name
      BY <2>1 DEF Ref
    <2>3. /\ refs' = refs \cup new
          /\ target' = [r \in Ref |-> IF r \in new THEN rule[r[2]]
                                                   ELSE target[r]]
      BY <1>1 DEF PushNT
    <2> HIDE DEF new
    <2>4. /\ target' \in [Ref -> Name \cup {Null}]
          /\ refs' \in SUBSET Ref
      BY <2>2, <2>3 DEF Typed, TypeOK
    <2>5. RefsNamed'
      <3>1. \A r \in refs' : target'[r] \in Name
        BY <2>2, <2>3, <2>4 DEF Typed, TypeOK, RefsNamed
      <3>2. Enter(o, n, "NT")
        BY <1>1 DEF PushNT
      <3> QED BY <3>1, <3>2, EnterType DEF Typed, RefsNamed
    <2>6. /\ nts' \in SUBSET Obj
          /\ axiom' \in Obj \cup {Null}
          /\ name_to_nt' \in [Name -> Obj \cup {Null}]
          /\ UNCHANGED <<link, parents, terminals, name_to_terminal,
                         ignore_duplicates, linked, sweep, phase, stray>>
          /\ Enter(o, n, "NT")
      BY <1>1 DEF PushNT, Typed, TypeOK
    <2>7. TypeOK'
      BY <2>4, <2>6, EnterType DEF Typed, TypeOK
    <2> QED BY <2>5, <2>7 DEF Typed
  <1>2. ASSUME NEW o \in Obj, NEW n \in Name, PushTerminal(o, n)
        PROVE  Typed'
    <2>1. Enter(o, n, "T")
      BY <1>2 DEF PushTerminal
    <2> QED BY <1>2, <2>1, EnterType
            DEF PushTerminal, Typed, TypeOK, RefsNamed, refVars
  <1>3. ASSUME NEW b \in BOOLEAN, SetIgnoreDuplicates(b)
        PROVE  Typed'
    BY <1>3 DEF SetIgnoreDuplicates, Typed, TypeOK, RefsNamed,
                objectVars, refVars, indexVars
  <1>4. ASSUME NEW n \in Name, SetAxiom(n)
        PROVE  Typed'
    BY <1>4 DEF SetAxiom, Typed, TypeOK, RefsNamed,
                objectVars, refVars, indexVars
  <1>5. ASSUME NEW n \in Name, Erase(n)
        PROVE  Typed'
    BY <1>5, EraseNameType DEF Erase, Typed, TypeOK
  <1>6. ASSUME NEW n \in Name, SweepOne(n)
        PROVE  Typed'
    BY <1>6, EraseNameType DEF SweepOne, Typed, TypeOK
  <1>7. CASE InitLinks
    <2>1. PICK R \in SUBSET refs : LinkAll(R)
      BY <1>7 DEF InitLinks, LinkedPrefix
    <2>2. /\ linked' = TRUE
          /\ UNCHANGED <<objectVars, refs, target, indexVars,
                         axiom, ignore_duplicates, sweep, phase, stray>>
      BY <1>7 DEF InitLinks
    <2> QED BY <2>1, <2>2, LinkAllType
            DEF Typed, TypeOK, RefsNamed, objectVars, indexVars
  <1>8. CASE StartSweep
    <2>1. sweep' \in SUBSET Name
      <3>1. \A o \in symbols : name[o] \in Name
        BY DEF Typed, RefsNamed
      <3> QED BY <1>8, <3>1 DEF StartSweep, SymbolNames
    <2> QED BY <1>8, <2>1 DEF StartSweep, Typed, TypeOK, RefsNamed,
                              objectVars, refVars, indexVars
  <1>9. CASE Destructor
    BY <1>9 DEF Destructor, Typed, TypeOK, RefsNamed, indexVars
  <1>10. CASE UNCHANGED vars
    BY <1>10 DEF vars, Typed, TypeOK, RefsNamed,
                 objectVars, refVars, indexVars
  <1> QED BY <1>1, <1>2, <1>3, <1>4, <1>5, <1>6, <1>7, <1>8, <1>9, <1>10
          DEF Next

\* Type correctness of the container.
THEOREM TypeCorrect == Spec => []TypeOK
  <1>1. Typed => TypeOK
    BY DEF Typed
  <1> QED BY <1>1, TypedInit, TypedNext, PTL DEF Spec

-----------------------------------------------------------------------------
(***************************************************************************)
(* The inductive invariant.  Blank says that a reference outside of every  *)
(* rule is linked to nothing: it is what push() relies on when it takes a  *)
(* new symbol in, and with it parents_ is the inverse of the links.        *)
(***************************************************************************)
RefsOwned    == \A r \in refs : r[1] \in nts
Blank        == \A r \in Ref \ refs : link[r] = Null
Inverse      == \A o \in Obj, r \in Ref :
                    parents[o][r] = IF link[r] = o THEN 1 ELSE 0
AxiomOwned   == axiom # Null => axiom \in nts
NotYetLinked == ~linked => \A r \in refs : link[r] = Null

\* When an erase() has thrown, the symbol it had taken from symbols_ is the only
\* one nobody owns, and one of its references is not linked; else there is none.
OneStray ==
    /\ phase = "open" => stray = Null
    /\ phase = "thrown" =>
          /\ stray \in Obj \ symbols
          /\ {o \in Obj : heap[o] = "live"} = symbols \cup {stray}
          /\ \E r \in refs : r[1] = stray /\ link[r] = Null

IInv ==
    /\ Typed
    /\ OneStray
    /\ LeakBounded
    /\ Ownership
    /\ MapsAgree
    /\ LinksBindByName
    /\ phase = "open" => /\ RefsOwned
                        /\ Blank
                        /\ Inverse
                        /\ AxiomOwned
                        /\ NotYetLinked

LEMMA IInvInit == Init => IInv
  <1> SUFFICES ASSUME Init PROVE IInv
    OBVIOUS
  <1>1. Inverse
    BY NullAssumption DEF Init, Inverse, NoParents
  <1>2. /\ Ownership /\ MapsAgree /\ LinksBindByName
        /\ OneStray /\ LeakBounded
    BY DEF Init, Ownership, MapsAgree, LinksBindByName, OneStray, LeakBounded
  <1> QED BY <1>1, <1>2, TypedInit
          DEF Init, IInv, RefsOwned, Blank, AxiomOwned, NotYetLinked

\* A symbol that is pushed is new to every deque, map and reference.
LEMMA NewSymbol ==
    ASSUME IInv, phase = "open", NEW o \in Obj, heap[o] = "unused"
    PROVE  /\ o \notin symbols
           /\ \A n \in Name : name_to_symbol[n] # o
           /\ \A r \in Ref : link[r] # o
           /\ \A r \in refs : r[1] # o
  <1>1. o \notin symbols /\ o \notin nts
    BY DEF IInv, Ownership
  <1>2. \A n \in Name : name_to_symbol[n] # o
    BY <1>1, NullAssumption DEF IInv, MapsAgree
  <1>3. \A r \in Ref : link[r] # o
    <2> SUFFICES ASSUME NEW r \in Ref, link[r] = o PROVE FALSE
      OBVIOUS
    <2>1. r \in refs
      BY NullAssumption DEF IInv, Blank
    <2>2. name_to_symbol[target[r]] = o /\ target[r] \in Name
      BY <2>1, NullAssumption DEF IInv, LinksBindByName, Typed, RefsNamed
    <2> QED BY <1>2, <2>2
  <1>4. \A r \in refs : r[1] # o
    BY <1>1 DEF IInv, RefsOwned
  <1> QED BY <1>1, <1>2, <1>3, <1>4

\* What push() does to the deques and maps, for either kind of symbol.
LEMMA EnterConsistent ==
    ASSUME IInv, phase = "open", phase' = "open",
           NEW o \in Obj, NEW n \in Name, NEW k \in {"NT", "T"},
           Enter(o, n, k),
           nts' = IF k = "NT" THEN nts \cup {o} ELSE nts,
           terminals' = IF k = "T" THEN terminals \cup {o} ELSE terminals,
           name_to_nt' = IF k = "NT" /\ name_to_symbol[n] = Null
                           THEN [name_to_nt EXCEPT ![n] = o] ELSE name_to_nt,
           name_to_terminal' = IF k = "T" /\ name_to_symbol[n] = Null
                           THEN [name_to_terminal EXCEPT ![n] = o]
                           ELSE name_to_terminal
    PROVE  Ownership' /\ MapsAgree'
  <1>1. /\ o \notin symbols
        /\ \A m \in Name : name_to_symbol[m] # o
    BY NewSymbol DEF Enter
  <1>2. /\ heap' = [heap EXCEPT ![o] = "live"]
        /\ kind' = [kind EXCEPT ![o] = k]
        /\ name' = [name EXCEPT ![o] = n]
        /\ symbols' = symbols \cup {o}
        /\ name_to_symbol' = IF name_to_symbol[n] = Null
                               THEN [name_to_symbol EXCEPT ![n] = o]
                               ELSE name_to_symbol
    BY DEF Enter
  <1>3. Ownership'
    BY <1>1, <1>2 DEF IInv, Typed, TypeOK, Ownership
  <1>4. MapsAgree'
    <2> SUFFICES ASSUME NEW m \in Name
                 PROVE  LET p == name_to_symbol'[m] IN
                        /\ p # Null => p \in symbols' /\ name'[p] = m
                        /\ name_to_nt'[m] =
                              IF p # Null /\ kind'[p] = "NT" THEN p ELSE Null
                        /\ name_to_terminal'[m] =
                              IF p # Null /\ kind'[p] = "T" THEN p ELSE Null
      BY DEF MapsAgree
    <2>1. CASE m = n /\ name_to_symbol[n] = Null
      <3>1. name_to_symbol'[m] = o /\ name'[o] = m /\ kind'[o] = k
        BY <1>2, <2>1 DEF IInv, Typed, TypeOK
      <3>2. name_to_nt[n] = Null /\ name_to_terminal[n] = Null
        BY <2>1 DEF IInv, MapsAgree
      <3>3. /\ name_to_nt'[m] = IF k = "NT" THEN o ELSE Null
            /\ name_to_terminal'[m] = IF k = "T" THEN o ELSE Null
        BY <2>1, <3>2 DEF IInv, Typed, TypeOK
      <3> QED BY <1>2, <3>1, <3>3, NullAssumption
    <2>2. CASE ~(m = n /\ name_to_symbol[n] = Null)
      <3>1. /\ name_to_symbol'[m] = name_to_symbol[m]
            /\ name_to_nt'[m] = name_to_nt[m]
            /\ name_to_terminal'[m] = name_to_terminal[m]
        BY <1>2, <2>2 DEF IInv, Typed, TypeOK
      <3> DEFINE p == name_to_symbol[m]
      <3>2. /\ p # Null => p \in symbols /\ name[p] = m
            /\ name_to_nt[m] =
                  IF p # Null /\ kind[p] = "NT" THEN p ELSE Null
            /\ name_to_terminal[m] =
                  IF p # Null /\ kind[p] = "T" THEN p ELSE Null
        BY DEF IInv, MapsAgree
      <3>3. p # Null => /\ p \in Obj /\ p # o
                        /\ name'[p] = name[p] /\ kind'[p] = kind[p]
        BY <1>1, <1>2, <3>2 DEF IInv, Typed, TypeOK
      <3> QED BY <1>2, <3>1, <3>2, <3>3
    <2> QED BY <2>1, <2>2
  <1> QED BY <1>3, <1>4

LEMMA PushNTKeeps ==
    ASSUME IInv, NEW o \in Obj, NEW n \in Name, NEW rule \in Rules,
           PushNT(o, n, rule), Typed'
    PROVE  IInv'
  <1> DEFINE new == {o} \X DOMAIN rule
  <1>1. /\ phase = "open" /\ phase' = "open"
        /\ heap[o] = "unused"
        /\ Enter(o, n, "NT")
        /\ nts' = nts \cup {o}
        /\ axiom' = IF axiom = Null THEN o ELSE axiom
        /\ name_to_nt' = IF name_to_symbol[n] = Null
                           THEN [name_to_nt EXCEPT ![n] = o] ELSE name_to_nt
        /\ refs' = refs \cup new
        /\ target' = [r \in Ref |-> IF r \in new THEN rule[r[2]] ELSE target[r]]
        /\ UNCHANGED <<link, parents, terminals, name_to_terminal, linked, stray>>
    BY DEF PushNT, Idle, Enter
  <1>2. /\ \A r \in Ref : link[r] # o
        /\ \A r \in refs : r[1] # o
        /\ o \notin symbols
    BY <1>1, NewSymbol
  <1>3. \A r \in new : r[1] = o /\ r \in Ref
    BY DEF Rules, Ref
  <1> HIDE DEF new
  <1>4. Ownership' /\ MapsAgree'
    BY <1>1, EnterConsistent
  <1>5. \A r \in new : link'[r] = Null
    BY <1>1, <1>2, <1>3 DEF IInv, Blank
  <1>6. LinksBindByName'
    <2> SUFFICES ASSUME NEW r \in refs', link'[r] # Null
                 PROVE  link'[r] = name_to_symbol'[target'[r]]
      BY DEF LinksBindByName
    <2>1. r \in refs /\ r \notin new /\ r \in Ref
      BY <1>1, <1>5 DEF IInv, Typed, TypeOK
    <2>2. target'[r] = target[r] /\ target[r] \in Name
      BY <1>1, <2>1 DEF IInv, Typed, RefsNamed
    <2>3. link[r] = name_to_symbol[target[r]]
      BY <1>1, <2>1 DEF IInv, LinksBindByName
    <2>4. name_to_symbol'[target[r]] = name_to_symbol[target[r]]
      BY <1>1, <2>2, <2>3 DEF Enter, IInv, Typed, TypeOK
    <2> QED BY <1>1, <2>2, <2>3, <2>4
  <1>7. RefsOwned' /\ Blank' /\ AxiomOwned'
    BY <1>1, <1>3 DEF IInv, RefsOwned, Blank, AxiomOwned
  <1>8. Inverse' /\ NotYetLinked'
    BY <1>1, <1>5 DEF IInv, Inverse, NotYetLinked
  <1> QED BY <1>1, <1>4, <1>6, <1>7, <1>8 DEF IInv, OneStray, LeakBounded

LEMMA PushTerminalKeeps ==
    ASSUME IInv, NEW o \in Obj, NEW n \in Name, PushTerminal(o, n), Typed'
    PROVE  IInv'
  <1>1. /\ phase = "open" /\ phase' = "open"
        /\ Enter(o, n, "T")
        /\ terminals' = terminals \cup {o}
        /\ name_to_terminal' = IF name_to_symbol[n] = Null
                                 THEN [name_to_terminal EXCEPT ![n] = o]
                                 ELSE name_to_terminal
        /\ UNCHANGED <<refVars, nts, name_to_nt, axiom, linked, stray>>
    BY DEF PushTerminal, Idle
  <1>2. Ownership' /\ MapsAgree'
    BY <1>1, EnterConsistent
  <1>3. LinksBindByName'
    <2> SUFFICES ASSUME NEW r \in refs, link[r] # Null
                 PROVE  link[r] = name_to_symbol'[target[r]]
      BY <1>1 DEF LinksBindByName, refVars
    <2>1. link[r] = name_to_symbol[target[r]] /\ target[r] \in Name
      BY <1>1 DEF IInv, LinksBindByName, Typed, RefsNamed
    <2> QED BY <1>1, <2>1 DEF Enter, IInv, Typed, TypeOK
  <1>4. RefsOwned' /\ Blank' /\ AxiomOwned' /\ Inverse' /\ NotYetLinked'
    BY <1>1 DEF IInv, RefsOwned, Blank, AxiomOwned, Inverse, NotYetLinked,
                refVars
  <1> QED BY <1>1, <1>2, <1>3, <1>4 DEF IInv, OneStray, LeakBounded

\* init_links(), complete or stopped half-way, links references that were
\* not linked, to what the look-up of their names finds.
LEMMA LinkedRefs ==
    ASSUME IInv, InitLinks
    PROVE  \E R \in SUBSET refs :
              /\ \A r \in R : /\ name_to_symbol[target[r]] \in Obj
                              /\ link[r] = Null
              /\ LinkAll(R)
  <1>1. \A r \in refs : link[r] = Null
    BY DEF InitLinks, Idle, IInv, NotYetLinked
  <1>2. \A r \in refs : Resolvable(r) => name_to_symbol[target[r]] \in Obj
    BY DEF Resolvable, IInv, Typed, TypeOK, RefsNamed
  <1>3. CASE (\A r \in refs : Resolvable(r)) /\ LinkAll(refs)
    BY <1>1, <1>2, <1>3
  <1>4. ASSUME NEW done \in SUBSET nts, NEW stop \in nts \ done,
               \A r \in refs : r[1] \in done => Resolvable(r),
               LinkAll(LinkedPrefix(done, stop))
        PROVE  \E R \in SUBSET refs :
                  /\ \A r \in R : /\ name_to_symbol[target[r]] \in Obj
                                  /\ link[r] = Null
                  /\ LinkAll(R)
    <2>1. \A r \in refs : r \in Ref /\ r[2] \in Nat
      BY SlotAssumption DEF IInv, Typed, TypeOK, Ref
    <2>2. \A r \in LinkedPrefix(done, stop) : r \in refs /\ Resolvable(r)
      BY <1>4, <2>1 DEF LinkedPrefix, RefsOf
    <2> QED BY <1>1, <1>2, <1>4, <2>2
  <1> QED BY <1>3, <1>4 DEF InitLinks

LEMMA InitLinksKeeps ==
    ASSUME IInv, InitLinks, Typed'
    PROVE  IInv'
  <1>1. PICK R \in SUBSET refs :
              /\ \A r \in R : /\ name_to_symbol[target[r]] \in Obj
                              /\ link[r] = Null
              /\ LinkAll(R)
    BY LinkedRefs
  <1>2. /\ phase = "open" /\ phase' = "open" /\ linked'
        /\ UNCHANGED <<objectVars, refs, target, indexVars, axiom, stray>>
    BY DEF InitLinks, Idle
  <1>3. /\ link' = [r \in Ref |-> IF r \in R THEN name_to_symbol[target[r]]
                                             ELSE link[r]]
        /\ parents' = [o \in Obj |-> [r \in Ref |->
                         IF r \in R /\ name_to_symbol[target[r]] = o
                           THEN parents[o][r] + 1 ELSE parents[o][r]]]
    BY <1>1 DEF LinkAll
  <1>4. refs \subseteq Ref
    BY DEF IInv, Typed, TypeOK
  <1>5. Ownership' /\ MapsAgree'
    BY <1>2 DEF IInv, Ownership, MapsAgree, objectVars, indexVars
  <1>6. LinksBindByName'
    BY <1>2, <1>3, <1>4 DEF IInv, LinksBindByName, indexVars
  <1>7. Inverse'
    <2> SUFFICES ASSUME NEW o \in Obj, NEW r \in Ref
                 PROVE  parents'[o][r] = IF link'[r] = o THEN 1 ELSE 0
      BY DEF Inverse
    <2>1. parents[o][r] = IF link[r] = o THEN 1 ELSE 0
      BY <1>2 DEF IInv, Inverse
    <2>2. CASE r \in R
      <3>1. parents[o][r] = 0
        BY <1>1, <2>1, <2>2, NullAssumption
      <3> QED BY <1>3, <2>2, <3>1
    <2>3. CASE r \notin R
      BY <1>3, <2>1, <2>3
    <2> QED BY <2>2, <2>3
  <1>8. RefsOwned' /\ Blank' /\ AxiomOwned' /\ NotYetLinked'
    BY <1>1, <1>2, <1>3
       DEF IInv, RefsOwned, Blank, AxiomOwned, NotYetLinked, indexVars
  <1> QED BY <1>2, <1>5, <1>6, <1>7, <1>8 DEF IInv, OneStray, LeakBounded

\* The heart of erase(): because parents_ is the inverse of the links, the
\* references it deletes are those of the rule and those linked to o, and
\* what is left of parents_ is again the inverse of the links.
LEMMA DestroyEffect ==
    ASSUME IInv, phase = "open", NEW o \in Obj, NEW n \in Name, Destroy(o, n)
    PROVE  /\ refs' = {r \in refs : r[1] # o /\ link[r] # o}
           /\ \A r \in refs' : link'[r] = link[r] /\ target'[r] = target[r]
           /\ \A r \in Ref \ refs' : link'[r] = Null
           /\ Inverse'
  <1> DEFINE after == EraseParent(RefsOf(o))
             gone  == RefsOf(o) \cup {r \in Ref : after[o][r] > 0}
  <1>1. /\ refs' = refs \ gone
        /\ target' = [r \in Ref |-> IF r \in gone THEN Null ELSE target[r]]
        /\ link' = [r \in Ref |-> IF r \in gone THEN Null ELSE link[r]]
        /\ parents' = [after EXCEPT ![o] = NoParents]
    BY DEF Destroy
  <1>2. refs \subseteq Ref
    BY DEF IInv, Typed, TypeOK
  <1>3. \A p \in Obj, r \in Ref :
           parents[p][r] = IF link[r] = p THEN 1 ELSE 0
    BY DEF IInv, Inverse
  <1>4. \A p \in Obj, r \in Ref :
           after[p][r] = IF link[r] = p /\ r \notin RefsOf(o) THEN 1 ELSE 0
    BY <1>3 DEF EraseParent
  <1>5. after \in [Obj -> [Ref -> Nat]]
    BY <1>2, EraseParentType DEF IInv, Typed, RefsOf
  <1>6. gone = RefsOf(o) \cup {r \in Ref : link[r] = o}
    BY <1>4
  <1> HIDE DEF after, gone
  <1>7. refs' = {r \in refs : r[1] # o /\ link[r] # o}
    BY <1>1, <1>2, <1>6 DEF RefsOf
  <1>8. \A r \in refs' : link'[r] = link[r] /\ target'[r] = target[r]
    BY <1>1, <1>2
  <1>9. \A r \in Ref \ refs' : link'[r] = Null
    BY <1>1 DEF IInv, Blank
  <1>10. Inverse'
    <2> SUFFICES ASSUME NEW p \in Obj, NEW r \in Ref
                 PROVE  parents'[p][r] = IF link'[r] = p THEN 1 ELSE 0
      BY DEF Inverse
    <2>1. link'[r] = IF r \in gone THEN Null ELSE link[r]
      BY <1>1
    <2>2. CASE p = o
      <3>1. parents'[p][r] = 0
        BY <1>1, <1>5, <2>2 DEF NoParents
      <3>2. link'[r] # p
        BY <1>6, <2>1, <2>2, NullAssumption
      <3> QED BY <3>1, <3>2
    <2>3. CASE p # o
      <3>1. parents'[p][r] = after[p][r]
        BY <1>1, <1>5, <2>3
      <3>2. link'[r] = p <=> link[r] = p /\ r \notin RefsOf(o)
        BY <1>6, <2>1, <2>3, NullAssumption
      <3> QED BY <1>4, <3>1, <3>2
    <2> QED BY <2>2, <2>3
  <1> QED BY <1>7, <1>8, <1>9, <1>10

LEMMA DestroyKeeps ==
    ASSUME IInv, phase = "open", NEW n \in Name, name_to_symbol[n] # Null,
           Destroy(name_to_symbol[n], n), Typed', linked' = linked,
           axiom' = IF axiom # Null /\ name[axiom] = n THEN Null ELSE axiom
    PROVE  IInv'
  <1> DEFINE o == name_to_symbol[n]
  <1>1. o \in symbols /\ o \in Obj /\ name[o] = n
    BY DEF IInv, MapsAgree, Typed, TypeOK
  <1>2. /\ heap' = [heap EXCEPT ![o] = "freed"]
        /\ symbols' = symbols \ {o}
        /\ nts' = nts \ {o}
        /\ terminals' = terminals \ {o}
        /\ name_to_symbol' = [name_to_symbol EXCEPT ![n] = Null]
        /\ name_to_nt' = IF kind[o] = "NT"
                           THEN [name_to_nt EXCEPT ![n] = Null]
                           ELSE name_to_nt
        /\ name_to_terminal' = IF kind[o] = "NT"
                                 THEN name_to_terminal
                                 ELSE [name_to_terminal EXCEPT ![n] = Null]
        /\ kind' = kind /\ name' = name /\ phase' = "open" /\ stray' = stray
    BY DEF Destroy
  <1>3. /\ refs' = {r \in refs : r[1] # o /\ link[r] # o}
        /\ \A r \in refs' : link'[r] = link[r] /\ target'[r] = target[r]
        /\ \A r \in Ref \ refs' : link'[r] = Null
        /\ Inverse'
    BY <1>1, DestroyEffect
  <1> HIDE DEF o
  <1>4. Ownership'
    BY <1>1, <1>2 DEF IInv, Typed, TypeOK, Ownership
  <1>5. MapsAgree'
    <2> SUFFICES ASSUME NEW m \in Name
                 PROVE  LET p == name_to_symbol'[m] IN
                        /\ p # Null => p \in symbols' /\ name'[p] = m
                        /\ name_to_nt'[m] =
                              IF p # Null /\ kind'[p] = "NT" THEN p ELSE Null
                        /\ name_to_terminal'[m] =
                              IF p # Null /\ kind'[p] = "T" THEN p ELSE Null
      BY DEF MapsAgree
    <2> DEFINE p == name_to_symbol[m]
    <2>1. /\ p # Null => p \in symbols /\ name[p] = m
          /\ name_to_nt[m] = IF p # Null /\ kind[p] = "NT" THEN p ELSE Null
          /\ name_to_terminal[m] =
                IF p # Null /\ kind[p] = "T" THEN p ELSE Null
      BY DEF IInv, MapsAgree
    <2>2. CASE m = n
      <3>1. name_to_symbol'[m] = Null
        BY <1>2, <2>2 DEF IInv, Typed, TypeOK
      <3>2. p = o /\ kind[o] \in {"NT", "T"}
        BY <1>1, <2>2 DEF o, IInv, Typed, TypeOK
      <3>3. name_to_nt'[m] = Null /\ name_to_terminal'[m] = Null
        BY <1>2, <2>1, <2>2, <3>2 DEF IInv, Typed, TypeOK
      <3> QED BY <3>1, <3>3
    <2>3. CASE m # n
      <3>1. /\ name_to_symbol'[m] = p
            /\ name_to_nt'[m] = name_to_nt[m]
            /\ name_to_terminal'[m] = name_to_terminal[m]
        BY <1>2, <2>3 DEF IInv, Typed, TypeOK
      <3>2. p # o
        BY <1>1, <2>1, <2>3, NullAssumption
      <3> QED BY <1>2, <2>1, <3>1, <3>2
    <2> QED BY <2>2, <2>3
  <1>6. LinksBindByName'
    <2> SUFFICES ASSUME NEW r \in refs', link'[r] # Null
                 PROVE  link'[r] = name_to_symbol'[target'[r]]
      BY DEF LinksBindByName
    <2>1. r \in refs /\ link[r] # o /\ link'[r] = link[r]
          /\ target'[r] = target[r] /\ target[r] \in Name
      BY <1>3 DEF IInv, Typed, RefsNamed
    <2>2. link[r] = name_to_symbol[target[r]]
      BY <2>1 DEF IInv, LinksBindByName
    <2>3. target[r] # n
      BY <2>1, <2>2 DEF o
    <2> QED BY <1>2, <2>1, <2>2, <2>3 DEF IInv, Typed, TypeOK
  <1>7. RefsOwned' /\ Blank' /\ NotYetLinked'
    BY <1>2, <1>3 DEF IInv, RefsOwned, Blank, NotYetLinked
  <1>8. AxiomOwned'
    BY <1>1, <1>2 DEF IInv, AxiomOwned
  <1> QED BY <1>2, <1>3, <1>4, <1>5, <1>6, <1>7, <1>8
          DEF IInv, OneStray, LeakBounded

LEMMA EraseNameKeeps ==
    ASSUME IInv, phase = "open", NEW n \in Name, EraseName(n), Typed',
           linked' = linked
    PROVE  IInv'
  <1> DEFINE o == name_to_symbol[n]
  <1>1. axiom' = IF axiom # Null /\ name[axiom] = n THEN Null ELSE axiom
    BY DEF EraseName
  <1>2. CASE UNCHANGED <<objectVars, refVars, indexVars, phase, stray>>
    BY <1>1, <1>2
       DEF IInv, OneStray, LeakBounded, Ownership, MapsAgree, LinksBindByName,
           RefsOwned, Blank, Inverse, AxiomOwned, NotYetLinked,
           objectVars, refVars, indexVars
  <1>3. CASE o # Null /\ Destroy(o, n)
    BY <1>1, <1>3, DestroyKeeps
  <1>4. CASE /\ o # Null /\ Abandon(o)
             /\ \E r \in RefsOf(o) : link[r] = Null
    <2>1. /\ symbols' = symbols \ {o} /\ phase' = "thrown" /\ stray' = o
          /\ heap' = heap /\ refs' = refs /\ link' = link
      BY <1>4 DEF Abandon, objectVars
    <2>2. o \in symbols /\ o \in Obj
      BY <1>4 DEF IInv, MapsAgree, Typed, TypeOK
    <2>3. \E r \in refs' : r[1] = stray' /\ link'[r] = Null
      BY <1>4, <2>1 DEF RefsOf
    <2> HIDE DEF o
    <2>4. OneStray'
      BY <2>1, <2>2, <2>3 DEF OneStray, IInv, Ownership
    <2>5. LeakBounded'
      BY <2>1, <2>3 DEF LeakBounded, RefsOf
    <2> QED BY <2>1, <2>4, <2>5 DEF IInv, Ownership, MapsAgree, LinksBindByName
  <1> QED BY <1>2, <1>3, <1>4 DEF EraseName

LEMMA SameStray ==
    ASSUME OneStray, LeakBounded,
           UNCHANGED <<heap, symbols, refs, link, phase, stray>>
    PROVE  OneStray' /\ LeakBounded'
  <1>1. RefsOf(stray)' = RefsOf(stray)
    BY DEF RefsOf
  <1> QED BY <1>1 DEF OneStray, LeakBounded

LEMMA IInvNext == IInv /\ [Next]_vars => IInv'
  <1> SUFFICES ASSUME IInv, [Next]_vars PROVE IInv'
    OBVIOUS
  <1> USE TypedNext DEF IInv
  <1>0. Typed'
    OBVIOUS
  <1>1. ASSUME NEW o \in Obj, NEW n \in Name, NEW rule \in Rules,
               PushNT(o, n, rule)
        PROVE  IInv'
    BY <1>0, <1>1, PushNTKeeps
  <1>2. ASSUME NEW o \in Obj, NEW n \in Name, PushTerminal(o, n)
        PROVE  IInv'
    BY <1>0, <1>2, PushTerminalKeeps
  <1>3. ASSUME NEW b \in BOOLEAN, SetIgnoreDuplicates(b)
        PROVE  IInv'
    BY <1>0, <1>3, SameStray DEF SetIgnoreDuplicates, Ownership,
          MapsAgree, LinksBindByName, RefsOwned, Blank, Inverse, AxiomOwned,
          NotYetLinked, objectVars, refVars, indexVars
  <1>4. ASSUME NEW n \in Name, SetAxiom(n)
        PROVE  IInv'
    <2>1. AxiomOwned'
      BY <1>4 DEF SetAxiom, Idle, MapsAgree, Ownership, AxiomOwned, indexVars
    <2> QED BY <1>0, <1>4, <2>1, SameStray
            DEF SetAxiom, Ownership, MapsAgree,
                LinksBindByName, RefsOwned, Blank, Inverse, NotYetLinked,
                objectVars, refVars, indexVars
  <1>5. ASSUME NEW n \in Name, Erase(n)
        PROVE  IInv'
    BY <1>0, <1>5, EraseNameKeeps DEF Erase, Idle
  <1>6. ASSUME NEW n \in Name, SweepOne(n)
        PROVE  IInv'
    BY <1>0, <1>6, EraseNameKeeps DEF SweepOne
  <1>7. CASE InitLinks
    BY <1>0, <1>7, InitLinksKeeps
  <1>8. CASE StartSweep
    BY <1>0, <1>8, SameStray DEF StartSweep, Ownership, MapsAgree,
          LinksBindByName, RefsOwned, Blank, Inverse, AxiomOwned,
          NotYetLinked, objectVars, refVars, indexVars
  <1>9. CASE Destructor
    <2>1. /\ \A o \in Obj : heap'[o] = "live" <=> heap[o] = "live" /\ o \notin symbols
          /\ phase' = "destroyed" /\ stray' = stray /\ link' = link
          /\ refs' = {r \in refs : r[1] \notin symbols}
      BY <1>9 DEF Destructor, Typed, TypeOK
    <2>2. ASSUME phase = "open" PROVE LeakBounded'
      <3>1. stray' = Null /\ \A o \in Obj : heap'[o] # "live"
        BY <2>1, <2>2 DEF OneStray, Ownership
      <3> QED BY <3>1 DEF LeakBounded
    <2>3. ASSUME phase = "thrown" PROVE LeakBounded'
      <3>1. /\ stray \in Obj /\ stray \notin symbols /\ stray # Null
            /\ {o \in Obj : heap[o] = "live"} = symbols \cup {stray}
            /\ \E r \in refs : r[1] = stray /\ link[r] = Null
        BY <2>3, NullAssumption DEF OneStray
      <3>2. \A o \in Obj : heap'[o] = "live" <=> o = stray
        BY <2>1, <3>1
      <3>3. \E r \in refs' : r[1] = stray' /\ link'[r] = Null
        BY <2>1, <3>1
      <3> QED BY <2>1, <3>1, <3>2, <3>3 DEF LeakBounded, RefsOf
    <2>4. LeakBounded'
      BY <1>9, <2>2, <2>3 DEF Destructor, Typed, TypeOK
    <2> QED BY <1>0, <1>9, <2>4
            DEF Destructor, OneStray, Ownership, MapsAgree, LinksBindByName
  <1>10. CASE UNCHANGED vars
    BY <1>0, <1>10, SameStray DEF vars, Ownership, MapsAgree,
          LinksBindByName, RefsOwned, Blank, Inverse, AxiomOwned,
          NotYetLinked, objectVars, refVars, indexVars
  <1> QED BY <1>1, <1>2, <1>3, <1>4, <1>5, <1>6, <1>7, <1>8, <1>9, <1>10
          DEF Next

LEMMA IInvAlways == Spec => []IInv
  BY IInvInit, IInvNext, PTL DEF Spec

-----------------------------------------------------------------------------
\* The deques, the maps and the ownership of the symbols are consistent
\* after every sequence of push, init_links, erase and set_axiom calls.
THEOREM IndexesConsistent == Spec => []IndexesAgree
  <1>1. IInv => IndexesAgree
    BY DEF IInv, IndexesAgree
  <1> QED BY <1>1, IInvAlways, PTL

\* A linked reference is linked to the symbol its name is looked up to.
THEOREM LinkedByName == Spec => []LinksBindByName
  <1>1. IInv => LinksBindByName
    BY DEF IInv
  <1> QED BY <1>1, IInvAlways, PTL

\* parents_ holds each reference linked to a symbol exactly once.
THEOREM BackLinksCorrect == Spec => []BackLinksExact
  <1>1. IInv => BackLinksExact
    <2> SUFFICES ASSUME IInv, phase = "open", NEW o \in symbols, NEW r \in Ref
                 PROVE  parents[o][r] =
                          IF r \in refs /\ link[r] = o THEN 1 ELSE 0
      BY DEF BackLinksExact
    <2>1. o \in Obj /\ o # Null
      BY NullAssumption DEF IInv, Typed, TypeOK
    <2>2. parents[o][r] = IF link[r] = o THEN 1 ELSE 0
      BY <2>1 DEF IInv, Inverse
    <2>3. link[r] = o => r \in refs
      BY <2>1 DEF IInv, Blank
    <2> QED BY <2>2, <2>3
  <1> QED BY <1>1, IInvAlways, PTL

\* No pointer the grammar follows leads to a symbol or a reference that was
\* deleted.
THEOREM PointersLive == Spec => []NoDangling
  <1>1. IInv => NoDangling
    <2> SUFFICES ASSUME IInv, phase = "open" PROVE NoDangling
      BY DEF NoDangling
    <2>1. \A o \in symbols : heap[o] = "live"
      BY DEF IInv, Ownership
    <2>2. nts \subseteq symbols /\ terminals \subseteq symbols
      BY DEF IInv, Ownership
    <2>3. \A n \in Name : name_to_symbol[n] # Null => name_to_symbol[n] \in symbols
      BY DEF IInv, MapsAgree
    <2>4. \A r \in refs : link[r] # Null => link[r] \in symbols
      BY <2>3 DEF IInv, LinksBindByName, Typed, RefsNamed
    <2>5. \A r \in refs : r[1] \in symbols
      BY <2>2 DEF IInv, RefsOwned
    <2>6. \A o \in symbols, r \in Ref : parents[o][r] > 0 => r \in refs
      <3> SUFFICES ASSUME NEW o \in symbols, NEW r \in Ref, parents[o][r] > 0
                   PROVE  r \in refs
        OBVIOUS
      <3>1. o \in Obj /\ o # Null
        BY NullAssumption DEF IInv, Typed, TypeOK
      <3>2. link[r] = o
        BY <3>1 DEF IInv, Inverse
      <3> QED BY <3>1, <3>2 DEF IInv, Blank
    <2> QED BY <2>1, <2>2, <2>3, <2>4, <2>5, <2>6
            DEF NoDangling, IInv, AxiomOwned
  <1> QED BY <1>1, IInvAlways, PTL

\* A grammar that is destroyed leaves nothing allocated, but for the symbol of
\* an erase() that threw, if there was one; it had a reference without a link.
THEOREM LeakExact == Spec => []LeakBounded
  <1>1. IInv => LeakBounded
    BY DEF IInv
  <1> QED BY <1>1, IInvAlways, PTL

-----------------------------------------------------------------------------
(***************************************************************************)
(* The sweep.  While the loop runs the axiom stands, what the rules of the *)
(* reached symbols name is reached, no name that waits for its erase() is  *)
(* reached, and a name that can be looked up is reached or waits.          *)
(***************************************************************************)
Sweeping ==
    /\ axiom # Null
    /\ \A r \in refs : r[1] \in Reached /\ target[r] \in SymbolNames
                          => target[r] \in ReachedNames
    /\ sweep \cap ReachedNames = {}
    /\ \A n \in Name : name_to_symbol[n] # Null => n \in ReachedNames \cup sweep

SweepInv == IInv /\ (sweep # {} /\ phase = "open" => Sweeping)

\* A link leads to a symbol of its name.
LEMMA LinkedSymbol ==
    ASSUME IInv, phase = "open", NEW r \in refs, link[r] # Null
    PROVE  link[r] \in symbols /\ name[link[r]] = target[r]
           /\ link[r] = name_to_symbol[target[r]] /\ target[r] \in Name
<1>1. target[r] \in Name /\ link[r] = name_to_symbol[target[r]]
  BY DEF IInv, Typed, RefsNamed, LinksBindByName
<1> QED BY <1>1 DEF IInv, MapsAgree

\* What the walk reaches is closed.
LEMMA ReachedClosed ==
    ASSUME IInv, phase = "open", axiom # Null
    PROVE  Reached \in SUBSET symbols /\ Closed(Reached)
<1>1. axiom \in Reached
  BY DEF IInv, AxiomOwned, Ownership, Reached, Closed, Met
<1>2. ASSUME NEW r \in refs, r[1] \in Reached, link[r] # Null,
             target[r] \in SymbolNames \ {name[axiom]}
      PROVE  link[r] \in Reached
  <2>1. link[r] \in symbols
    BY <1>2, LinkedSymbol
  <2>2. \A S \in SUBSET symbols : Closed(S) => link[r] \in S
    BY <1>2 DEF Reached, Closed, Met
  <2> QED BY <2>1, <2>2 DEF Reached
<1> QED BY <1>1, <1>2 DEF Reached, Closed, Met

\* Destroying a symbol whose name is not reached takes nothing from what is.
LEMMA DestroySpares ==
    ASSUME IInv, phase = "open", Sweeping, NEW n \in Name, n \notin ReachedNames,
           name_to_symbol[n] # Null, Destroy(name_to_symbol[n], n), axiom' = axiom
    PROVE  /\ Reached' = Reached /\ ReachedNames' = ReachedNames
           /\ \A o \in Reached : o \in symbols' /\ {r \in refs' : r[1] = o} = RefsOf(o)
           /\ \A r \in refs' : r[1] \in Reached' /\ target'[r] \in SymbolNames'
                                 => target'[r] \in ReachedNames'
           /\ \A m \in Name : m # n => name_to_symbol'[m] = name_to_symbol[m]
           /\ \A m \in Name : name_to_symbol'[m] # Null => m # n /\ name_to_symbol[m] # Null
<1>1. PICK o \in Obj : o = name_to_symbol[n]
  BY DEF IInv, Typed, TypeOK
<1>2. o \in symbols /\ name[o] = n /\ Destroy(o, n)
  BY <1>1 DEF IInv, MapsAgree
<1>3. /\ symbols' = symbols \ {o} /\ name' = name /\ axiom' = axiom
      /\ name_to_symbol' = [name_to_symbol EXCEPT ![n] = Null]
      /\ refs' = {r \in refs : r[1] # o /\ link[r] # o}
      /\ \A r \in refs' : link'[r] = link[r] /\ target'[r] = target[r]
  <2>1. /\ refs' = {r \in refs : r[1] # o /\ link[r] # o}
        /\ \A r \in refs' : link'[r] = link[r] /\ target'[r] = target[r]
    BY <1>2, DestroyEffect
  <2>2. /\ symbols' = symbols \ {o} /\ name' = name
        /\ name_to_symbol' = [name_to_symbol EXCEPT ![n] = Null]
    BY <1>2 DEF Destroy
  <2> QED BY <2>1, <2>2
<1>4. PICK R : R = Reached
  OBVIOUS
<1>5. R \in SUBSET symbols /\ Closed(R)
  BY <1>4, ReachedClosed DEF Sweeping
<1>6. o \notin R
  BY <1>2, <1>4 DEF ReachedNames
<1>7. ASSUME NEW r \in refs, r[1] \in R, link[r] # Null PROVE link[r] # o
  <2>1. SUFFICES ASSUME link[r] = o PROVE FALSE
    OBVIOUS
  <2>2. target[r] = n /\ n \in SymbolNames
    BY <1>2, <1>7, <2>1, LinkedSymbol DEF SymbolNames
  <2>3. n # name[axiom]
    BY <1>4, <1>5 DEF Closed, Met, ReachedNames
  <2> QED BY <1>5, <1>6, <1>7, <2>1, <2>2, <2>3 DEF Closed, Met
<1>8. \A r \in refs : r[1] \in R => r \in refs'
  <2>1. o # Null
    BY <1>1
  <2> QED BY <1>3, <1>6, <1>7, <2>1
<1>9. SymbolNames' \subseteq SymbolNames
  BY <1>3 DEF SymbolNames
<1>10. R \in SUBSET symbols' /\ Closed(R)'
  BY <1>3, <1>5, <1>6, <1>9 DEF Closed, Met
<1>11. ASSUME NEW S \in SUBSET symbols', Closed(S)' PROVE R \subseteq S
  <2>1. PICK P : P = S \cap R
    OBVIOUS
  <2>2. axiom \in P
    BY <1>3, <1>5, <1>11, <2>1 DEF Closed, Met
  <2>3. ASSUME NEW r \in refs, r[1] \in P, link[r] # Null,
               target[r] \in SymbolNames \ {name[axiom]}
        PROVE  link[r] \in P
    <3>1. link[r] \in R
      BY <1>5, <2>1, <2>3 DEF Closed, Met
    <3>2. link[r] \in symbols' /\ name[link[r]] = target[r]
      BY <1>10, <2>3, <3>1, LinkedSymbol
    <3>3. target[r] \in SymbolNames'
      BY <1>3, <3>2 DEF SymbolNames
    <3>4. r \in refs'
      BY <1>8, <2>1, <2>3
    <3>5. /\ target'[r] \in SymbolNames' \ {name'[axiom']} /\ r[1] \in S
          /\ link'[r] = link[r] /\ link[r] # Null
      BY <1>3, <2>1, <2>3, <3>3, <3>4
    <3>6. link'[r] \in S
      BY <1>11, <3>4, <3>5 DEF Closed, Met
    <3> QED BY <2>1, <3>1, <3>5, <3>6
  <2>4. Closed(P) /\ P \in SUBSET symbols
    BY <1>5, <2>1, <2>2, <2>3 DEF Closed, Met
  <2>5. R \subseteq P
    BY <1>4, <2>4 DEF Reached
  <2> QED BY <2>1, <2>5
<1>12. Reached' = R
  <2>1. \A p \in Reached' : p \in R
    BY <1>10 DEF Reached
  <2>2. \A p \in R : p \in Reached'
    BY <1>10, <1>11 DEF Reached
  <2> QED BY <2>1, <2>2
<1>13. ReachedNames' = ReachedNames
  BY <1>3, <1>4, <1>12 DEF ReachedNames
<1>14. \A p \in R : p \in symbols' /\ {r \in refs' : r[1] = p} = RefsOf(p)
  BY <1>3, <1>8, <1>10 DEF RefsOf
<1>15. \A r \in refs' : r[1] \in R /\ target'[r] \in SymbolNames'
                           => target'[r] \in ReachedNames
  BY <1>3, <1>4, <1>9 DEF Sweeping
<1>16. \A m \in Name : /\ m # n => name_to_symbol'[m] = name_to_symbol[m]
                       /\ name_to_symbol'[m] # Null => m # n /\ name_to_symbol[m] # Null
  BY <1>3 DEF IInv, Typed, TypeOK
<1> QED BY <1>4, <1>12, <1>13, <1>14, <1>15, <1>16

\* One round of the loop.
LEMMA SweepRound ==
    ASSUME IInv, Sweeping, NEW n \in Name, SweepOne(n), phase' = "open"
    PROVE  /\ Sweeping'
           /\ \A o \in Reached : o \in symbols' /\ {r \in refs' : r[1] = o} = RefsOf(o)
           /\ \A r \in refs : r[1] \in Reached =>
                 name_to_symbol'[target[r]] = name_to_symbol[target[r]]
<1>1. /\ phase = "open" /\ n \in sweep /\ EraseName(n) /\ sweep' = sweep \ {n}
      /\ n \notin ReachedNames
  BY DEF SweepOne, Sweeping
<1>2. axiom' = axiom
  <2>1. axiom \in Reached
    BY <1>1, ReachedClosed DEF Sweeping, Closed, Met
  <2> QED BY <1>1, <2>1 DEF EraseName, ReachedNames
<1>3. CASE UNCHANGED <<objectVars, refVars, indexVars, phase, stray>>
  <2>1. UNCHANGED <<name, refs, target, link, symbols, name_to_symbol>>
    BY <1>3 DEF objectVars, refVars, indexVars
  <2>2. \A S : Closed(S)' = Closed(S)
    BY <1>2, <2>1 DEF Closed, Met, SymbolNames
  <2>3. Reached' = Reached
    BY <2>1, <2>2 DEF Reached
  <2>4. ReachedNames' = ReachedNames /\ SymbolNames' = SymbolNames
    BY <2>1, <2>3 DEF ReachedNames, SymbolNames
  <2>5. \A o \in Reached : o \in symbols' /\ {r \in refs' : r[1] = o} = RefsOf(o)
    BY <2>1 DEF Reached, RefsOf
  <2>6. CASE name_to_symbol[n] = Null
    BY <1>1, <1>2, <2>1, <2>3, <2>4, <2>5, <2>6 DEF Sweeping
  <2>7. CASE name_to_symbol[n] # Null
    BY <1>1, <1>3, <2>1, <2>7 DEF EraseName, Destroy, Abandon, IInv, Typed, TypeOK
  <2> QED BY <2>6, <2>7
<1>4. CASE name_to_symbol[n] # Null /\ Destroy(name_to_symbol[n], n)
  <2>1. /\ Reached' = Reached /\ ReachedNames' = ReachedNames
        /\ \A o \in Reached : o \in symbols' /\ {r \in refs' : r[1] = o} = RefsOf(o)
        /\ \A r \in refs' : r[1] \in Reached' /\ target'[r] \in SymbolNames'
                              => target'[r] \in ReachedNames'
        /\ \A m \in Name : m # n => name_to_symbol'[m] = name_to_symbol[m]
        /\ \A m \in Name : name_to_symbol'[m] # Null => m # n /\ name_to_symbol[m] # Null
    BY <1>1, <1>2, <1>4, DestroySpares
  <2>2. Sweeping'
    BY <1>1, <1>2, <2>1 DEF Sweeping
  <2>3. ASSUME NEW r \in refs, r[1] \in Reached
        PROVE  name_to_symbol'[target[r]] = name_to_symbol[target[r]]
    <3>1. target[r] \in Name
      BY DEF IInv, Typed, RefsNamed
    <3>2. n \in SymbolNames
      BY <1>1, <1>4 DEF IInv, MapsAgree, SymbolNames
    <3>3. target[r] # n
      BY <1>1, <2>3, <3>2 DEF Sweeping
    <3> QED BY <2>1, <3>1, <3>3
  <2> QED BY <2>1, <2>2, <2>3
<1>5. CASE Abandon(name_to_symbol[n])
  BY <1>5 DEF Abandon
<1> QED BY <1>1, <1>3, <1>4, <1>5 DEF EraseName

LEMMA SweepNext == SweepInv /\ [Next]_vars => SweepInv' /\ [SweepStep]_vars
<1> SUFFICES ASSUME SweepInv, [Next]_vars PROVE SweepInv' /\ [SweepStep]_vars
  OBVIOUS
<1>1. IInv /\ IInv'
  BY IInvNext DEF SweepInv
<1>2. ASSUME NEW n \in Name, SweepOne(n) PROVE SweepInv' /\ SweepStep
  <2>1. Sweeping
    BY <1>2 DEF SweepInv, SweepOne
  <2>2. CASE phase' = "open"
    <3>1. /\ Sweeping'
          /\ \A o \in Reached : o \in symbols' /\ {r \in refs' : r[1] = o} = RefsOf(o)
          /\ \A r \in refs : r[1] \in Reached =>
                name_to_symbol'[target[r]] = name_to_symbol[target[r]]
      BY <1>1, <1>2, <2>1, <2>2, SweepRound
    <3>2. sweep' = {} => \A m \in Name : name_to_symbol'[m] # Null => m \in ReachedNames'
      BY <3>1 DEF Sweeping
    <3> QED BY <1>1, <3>1, <3>2 DEF SweepInv, SweepStep
  <2>3. CASE phase' # "open"
    BY <1>1, <2>3 DEF SweepInv, SweepStep
  <2> QED BY <2>2, <2>3
<1>3. CASE StartSweep
  <2>1. /\ sweep = {} /\ phase = "open" /\ axiom # Null
        /\ \A r \in refs : r[1] \in Reached /\ target[r] \in SymbolNames
                             => target[r] \in ReachedNames
        /\ sweep' = SymbolNames \ ReachedNames
        /\ UNCHANGED <<name, refs, target, link, symbols, name_to_symbol, axiom, phase>>
    BY <1>3 DEF StartSweep, Met, Idle, objectVars, refVars, indexVars
  <2>2. \A S : Closed(S)' = Closed(S)
    BY <2>1 DEF Closed, Met, SymbolNames
  <2>3. Reached' = Reached
    BY <2>1, <2>2 DEF Reached
  <2>4. ReachedNames' = ReachedNames /\ SymbolNames' = SymbolNames
    BY <2>1, <2>3 DEF ReachedNames, SymbolNames
  <2>5. \A n \in Name : name_to_symbol[n] # Null => n \in SymbolNames
    BY <1>1, <2>1 DEF IInv, MapsAgree, SymbolNames
  <2> QED BY <1>1, <2>1, <2>3, <2>4, <2>5 DEF SweepInv, SweepStep, Sweeping
<1>4. ASSUME sweep = {}, sweep' = sweep PROVE SweepInv' /\ SweepStep
  BY <1>1, <1>4 DEF SweepInv, SweepStep
<1>5. CASE Destructor
  BY <1>1, <1>5 DEF Destructor, SweepInv, SweepStep
<1>6. CASE UNCHANGED vars
  <2>1. UNCHANGED <<name, refs, target, link, symbols, name_to_symbol, axiom, phase, sweep>>
    BY <1>6 DEF vars, objectVars, refVars, indexVars
  <2>2. \A S : Closed(S)' = Closed(S)
    BY <2>1 DEF Closed, Met, SymbolNames
  <2>3. Reached' = Reached
    BY <2>1, <2>2 DEF Reached
  <2>4. ReachedNames' = ReachedNames /\ SymbolNames' = SymbolNames
    BY <2>1, <2>3 DEF ReachedNames, SymbolNames
  <2>5. Sweeping => Sweeping'
    BY <2>1, <2>3, <2>4 DEF Sweeping
  <2> QED BY <1>1, <1>6, <2>1, <2>5 DEF SweepInv
<1>7. ASSUME NEW o \in Obj, NEW n \in Name,
             (\E rule \in Rules : PushNT(o, n, rule)) \/ PushTerminal(o, n)
      PROVE  sweep = {} /\ sweep' = sweep
  BY <1>7 DEF PushNT, PushTerminal, Idle
<1>8. ASSUME NEW n \in Name, SetAxiom(n) \/ Erase(n) PROVE sweep = {} /\ sweep' = sweep
  BY <1>8 DEF SetAxiom, Erase, Idle
<1>9. ASSUME NEW b \in BOOLEAN, SetIgnoreDuplicates(b) PROVE sweep = {} /\ sweep' = sweep
  BY <1>9 DEF SetIgnoreDuplicates, Idle
<1>10. InitLinks => sweep = {} /\ sweep' = sweep
  BY DEF InitLinks, Idle
<1> QED BY <1>2, <1>3, <1>4, <1>5, <1>6, <1>7, <1>8, <1>9, <1>10 DEF Next

\* erase_unreachable_symbols() takes nothing the axiom reaches, neither a symbol nor
\* a reference of one, in any order of its loop, and leaves no name that is not
\* reached.
THEOREM SweepCorrect == Spec => SweepExact
<1>1. Init => SweepInv
  BY IInvInit DEF Init, SweepInv
<1> QED BY <1>1, SweepNext, PTL DEF Spec, SweepExact

-----------------------------------------------------------------------------
(***************************************************************************)
(* The grammar implements the graph of symbols.                            *)
(***************************************************************************)
LEMMA GraphInit == Init => Graph!AInit
  BY DEF Init, Graph!AInit

\* Erasing a name is removing one node, or nothing, or giving up.
LEMMA EraseRefines ==
    ASSUME IInv, phase = "open", NEW n \in Name, EraseName(n)
    PROVE  [Graph!ANext]_(Graph!avars)
  <1> DEFINE o == name_to_symbol[n]
  <1>1. CASE UNCHANGED <<objectVars, refVars, indexVars, phase, stray>>
    BY <1>1 DEF Graph!avars, objectVars, refVars, indexVars
  <1>2. CASE o # Null /\ Abandon(o)
    <2>1. phase' = "thrown"
      BY <1>2 DEF Abandon
    <2>2. Graph!AClose
      BY <2>1 DEF Graph!AClose
    <2> QED BY <2>2 DEF Graph!ANext
  <1>3. CASE o # Null /\ Destroy(o, n)
    <2>1. o \in Obj /\ o \in symbols /\ name[o] = n
      BY <1>3 DEF IInv, MapsAgree, Typed, TypeOK
    <2>2. /\ refs' = {r \in refs : r[1] # o /\ link[r] # o}
          /\ \A r \in refs' : link'[r] = link[r]
      BY <1>3, <2>1, DestroyEffect
    <2>3. /\ symbols' = symbols \ {o}
          /\ name_to_symbol' = [name_to_symbol EXCEPT ![n] = Null]
          /\ phase' = "open"
      BY <1>3 DEF Destroy
    <2> DEFINE E  == {e \in refs \X Obj : link[e[1]] = e[2]}
               E2 == {e \in refs' \X Obj : link'[e[1]] = e[2]}
    <2>4. E2 = {e \in E : e[1][1] # o /\ e[2] # o}
      BY <2>2
    <2>5. refs' = {r \in refs : r[1] # o /\ <<r, o>> \notin E}
      BY <2>1, <2>2
    <2>6. name_to_symbol' = [m \in Name |->
                               IF name_to_symbol[m] = o THEN Null
                                                        ELSE name_to_symbol[m]]
      <3>1. \A m \in Name : name_to_symbol[m] = o => m = n
        BY <2>1, NullAssumption DEF IInv, MapsAgree
      <3> QED BY <2>3, <3>1 DEF IInv, Typed, TypeOK
    <2>7. PICK q \in Obj : q = o
      BY <2>1
    <2>8. Graph!ARemove(q)
      BY <2>1, <2>3, <2>4, <2>5, <2>6, <2>7 DEF Graph!ARemove
    <2> QED BY <2>8 DEF Graph!ANext
  <1> QED BY <1>1, <1>2, <1>3 DEF EraseName

\* A push adds one node, whose references are bound to nothing.
LEMMA PushRefines ==
    ASSUME IInv, phase = "open", phase' = "open",
           NEW o \in Obj, NEW n \in Name, NEW k \in {"NT", "T"},
           Enter(o, n, k), NEW new \in SUBSET ({o} \X Slot),
           refs' = refs \cup new, link' = link
    PROVE  [Graph!ANext]_(Graph!avars)
  <1>1. /\ o \notin symbols
        /\ \A r \in refs : r[1] # o
    BY NewSymbol DEF Enter
  <1>2. \A r \in new : link[r] = Null
    <2>1. \A r \in new : r \in Ref /\ r \notin refs
      BY <1>1 DEF Ref
    <2> QED BY <2>1 DEF IInv, Blank
  <1>3. {e \in refs' \X Obj : link'[e[1]] = e[2]}
           = {e \in refs \X Obj : link[e[1]] = e[2]}
    BY <1>2, NullAssumption
  <1>4. /\ symbols' = symbols \cup {o}
        /\ name_to_symbol' = IF name_to_symbol[n] = Null
                               THEN [name_to_symbol EXCEPT ![n] = o]
                               ELSE name_to_symbol
    BY DEF Enter
  <1>5. Graph!AAdd(o, n)
    BY <1>1, <1>3, <1>4 DEF Graph!AAdd
  <1> QED BY <1>5 DEF Graph!ANext

LEMMA GraphNext == IInv /\ IInv' /\ [Next]_vars => [Graph!ANext]_(Graph!avars)
  <1> SUFFICES ASSUME IInv, IInv', [Next]_vars
               PROVE  [Graph!ANext]_(Graph!avars)
    OBVIOUS
  <1>1. ASSUME NEW o \in Obj, NEW n \in Name, NEW rule \in Rules,
               PushNT(o, n, rule)
        PROVE  [Graph!ANext]_(Graph!avars)
    <2> DEFINE new == {o} \X DOMAIN rule
    <2>1. new \in SUBSET ({o} \X Slot)
      <3>1. DOMAIN rule \subseteq Slot
        BY DEF Rules
      <3> QED BY <3>1
    <2>2. /\ phase = "open" /\ phase' = "open" /\ Enter(o, n, "NT")
          /\ refs' = refs \cup new /\ link' = link
      BY <1>1 DEF PushNT, Idle
    <2> HIDE DEF new
    <2> QED BY <2>1, <2>2, PushRefines
  <1>2. ASSUME NEW o \in Obj, NEW n \in Name, PushTerminal(o, n)
        PROVE  [Graph!ANext]_(Graph!avars)
    <2>1. /\ phase = "open" /\ phase' = "open" /\ Enter(o, n, "T")
          /\ refs' = refs \cup {} /\ link' = link
      BY <1>2 DEF PushTerminal, Idle, refVars
    <2> QED BY <2>1, PushRefines
  <1>3. ASSUME NEW n \in Name, Erase(n) \/ SweepOne(n)
        PROVE  [Graph!ANext]_(Graph!avars)
    BY <1>3, EraseRefines DEF Erase, SweepOne, Idle
  <1>4. CASE InitLinks
    <2>1. PICK R \in SUBSET refs :
              /\ \A r \in R : /\ name_to_symbol[target[r]] \in Obj
                              /\ link[r] = Null
              /\ LinkAll(R)
      BY <1>4, LinkedRefs
    <2>2. /\ phase = "open" /\ phase' = "open"
          /\ UNCHANGED <<refs, symbols, name_to_symbol>>
      BY <1>4 DEF InitLinks, Idle, indexVars
    <2>3. refs \subseteq Ref
      BY DEF IInv, Typed, TypeOK
    <2>4. \A r \in refs : link[r] # Null => link'[r] = link[r]
      BY <2>1, <2>3 DEF LinkAll
    <2>5. \A r \in refs : link'[r] # Null => link'[r] \in symbols
      BY <2>2 DEF IInv, LinksBindByName, MapsAgree, Typed, RefsNamed
    <2> DEFINE E  == {e \in refs \X Obj : link[e[1]] = e[2]}
               E2 == {e \in refs' \X Obj : link'[e[1]] = e[2]}
    <2>6. E \subseteq E2
      BY <2>2, <2>4, NullAssumption
    <2>7. E2 \subseteq refs \X symbols
      BY <2>2, <2>5, NullAssumption
    <2>8. \A e, f \in E2 : e[1] = f[1] => e = f
      OBVIOUS
    <2>9. Graph!ABind
      BY <2>2, <2>6, <2>7, <2>8 DEF Graph!ABind
    <2> QED BY <2>9 DEF Graph!ANext
  <1>5. CASE Destructor
    <2>1. phase' = "destroyed"
      BY <1>5 DEF Destructor
    <2>2. CASE phase = "open"
      <3>1. Graph!AClose
        BY <2>1, <2>2 DEF Graph!AClose
      <3> QED BY <3>1 DEF Graph!ANext
    <2>3. CASE phase # "open"
      BY <2>1, <2>3 DEF Graph!avars
    <2> QED BY <2>2, <2>3
  <1>6. ASSUME \/ \E b \in BOOLEAN : SetIgnoreDuplicates(b)
               \/ \E n \in Name : SetAxiom(n)
               \/ StartSweep
               \/ UNCHANGED vars
        PROVE  [Graph!ANext]_(Graph!avars)
    <2>1. UNCHANGED <<phase, symbols, refs, link, name_to_symbol>>
      BY <1>6 DEF SetIgnoreDuplicates, SetAxiom, StartSweep, vars,
                  refVars, indexVars
    <2> QED BY <2>1 DEF Graph!avars
  <1> QED BY <1>1, <1>2, <1>3, <1>4, <1>5, <1>6 DEF Next

\* Every behaviour of the container is one of the graph of symbols, for any
\* number of symbols, names and references.
THEOREM Refinement == Spec => ImplementsGraph
  BY IInvInit, IInvNext, GraphInit, GraphNext, PTL
     DEF Spec, ImplementsGraph, Graph!ASpec
=============================================================================
