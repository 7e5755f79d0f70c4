----------------------------- MODULE MovesProofs -----------------------------
(***************************************************************************)
(* Proofs about the module Moves, for any number of symbols and names.     *)
(*                                                                         *)
(* The inductive invariant says which Grammar has the symbols: at most one *)
(* has any, the Current one until the function leaves, and the others are  *)
(* as new.  So each assignment finds nothing to lose, and a destructor     *)
(* frees all or nothing.  Only erase() takes a symbol out of its Grammar   *)
(* before it may throw, and then the function leaves.                      *)
(***************************************************************************)
EXTENDS Moves, TLAPS

\* Only c has members.
OnlyIn(c) ==
    /\ heap = gr[c].symbols \cup ({stray} \ {Null})
    /\ stray \notin gr[c].symbols
    /\ gr[c] # NewGrammar => c \in alive
    /\ \A h \in Holder \ {c} : gr[h] = NewGrammar

\* The pointers of c lead to its symbols or the stray one, two names to two.
Pointers(c) ==
    /\ gr[c].axiom \in gr[c].symbols \cup {Null}
    /\ gr[c].nts \subseteq gr[c].symbols \cup {stray}
    /\ \A n \in Name : gr[c].dict[n] \in gr[c].symbols \cup {Null, stray}
    /\ \A n, m \in Name :
          n # m /\ gr[c].dict[n] # Null => gr[c].dict[m] # gr[c].dict[n]

\* parse_files() sets the flag once, ged before each file.
FlagKept(c) == ~first /\ (client = "parse_files" \/ pc = "read") => gr[c].ignore

Inv ==
    /\ TypeOK
    /\ pc # "leave" => Current \in alive /\ OnlyIn(Current) /\ FlagKept(Current)
    /\ pc = "args" => alive = {"g"}
    /\ pc # "leave" => "g" \in alive /\ stray = Null
    /\ \E c \in Holder : OnlyIn(c)
    /\ \A h \in Holder : Pointers(h)

-----------------------------------------------------------------------------
LEMMA NewIsGrammar ==
    /\ NewGrammar \in Grammars
    /\ NewGrammar.symbols = {} /\ NewGrammar.nts = {} /\ NewGrammar.axiom = Null /\ NewGrammar.ignore = FALSE
    /\ \A n \in Name : NewGrammar.dict[n] = Null
BY MovesAssumption DEF NewGrammar, Grammars

\* A move is between two Grammars and leaves the third alone.
LEMMA MovedAt ==
    ASSUME TypeOK, NEW to \in Holder, NEW from \in Holder, to # from
    PROVE  /\ Moved(<<to, from>>) \in [Holder -> Grammars]
           /\ Moved(<<to, from>>)[to] = gr[from]
           /\ Moved(<<to, from>>)[from] = NewGrammar
           /\ \A h \in Holder \ {to, from} : Moved(<<to, from>>)[h] = gr[h]
BY NewIsGrammar DEF Moved, TypeOK

LEMMA InvInit == Init => Inv
<1> SUFFICES ASSUME Init PROVE Inv
  OBVIOUS
<1>1. \A h \in Holder : gr[h] = NewGrammar
  BY DEF Init
<1>2. TypeOK
  BY NewIsGrammar DEF Init, TypeOK, Holder
<1>3. Current = "g" /\ OnlyIn("g") /\ "g" \in Holder
  BY <1>1, NewIsGrammar DEF Init, Current, OnlyIn, Holder
<1>4. \A h \in Holder : Pointers(h)
  BY <1>1, NewIsGrammar DEF Pointers
<1> QED
  BY <1>2, <1>3, <1>4 DEF Init, Inv, FlagKept

-----------------------------------------------------------------------------
\* What a step leaves to show when one Grammar, c before and d after it, has the
\* members.
LEMMA InvNext ==
    ASSUME TypeOK', NEW d \in Holder, OnlyIn(d)', Pointers(d)',
           pc' # "leave" => d = Current' /\ d \in alive' /\ FlagKept(d)',
           pc' = "args" => alive' = {"g"},
           pc' # "leave" => "g" \in alive' /\ stray' = Null
    PROVE  Inv'
<1>1. \A h \in Holder : Pointers(h)'
  BY NewIsGrammar DEF OnlyIn, Pointers
<1> QED
  BY <1>1 DEF Inv

LEMMA PushInv ==
    ASSUME Inv, NEW c \in Holder, pc \in {"args", "read"}, c = Current,
           NEW o \in Obj, NEW n \in Name, NEW isNT \in BOOLEAN,
           Push(c, o, n, isNT), UNCHANGED <<client, first, alive, stray>>
    PROVE  Inv'
<1>1. CASE UNCHANGED <<gr, heap, pc>>
  <2>1. UNCHANGED vars
    BY <1>1 DEF vars
  <2> QED
    BY <2>1 DEF Inv, TypeOK, vars, OnlyIn, FlagKept, Pointers, Current
<1>2. CASE ~ UNCHANGED <<gr, heap, pc>>
  <2> DEFINE seen == gr[c].dict[n] # Null
             new == [gr[c] EXCEPT
                       !.symbols = @ \cup {o},
                       !.nts = IF isNT THEN @ \cup {o} ELSE @,
                       !.axiom = IF isNT /\ @ = Null THEN o ELSE @,
                       !.dict = IF seen THEN @ ELSE [@ EXCEPT ![n] = o]]
  <2>1. /\ gr \in [Holder -> Grammars] /\ gr[c] \in Grammars
        /\ OnlyIn(c) /\ Pointers(c) /\ c \in alive /\ FlagKept(c) /\ o \notin heap
        /\ stray = Null /\ stray' = Null /\ o # Null
    BY MovesAssumption DEF Inv, TypeOK, Push
  <2>2. /\ heap' = heap \cup {o}
        /\ gr' = [gr EXCEPT ![c] = new]
        /\ pc' = IF seen THEN "leave" ELSE pc
    BY <1>2, <2>1 DEF Push, Grammars
  <2>3. /\ new \in Grammars
        /\ new.symbols = gr[c].symbols \cup {o}
        /\ new.nts \subseteq gr[c].nts \cup {o}
        /\ new.axiom \in gr[c].symbols \cup {o, Null}
        /\ new.ignore = gr[c].ignore
        /\ new.dict = IF seen THEN gr[c].dict ELSE [gr[c].dict EXCEPT ![n] = o]
    BY <2>1 DEF Grammars, Pointers
  <2>4. gr'[c] = new /\ \A h \in Holder \ {c} : gr'[h] = gr[h]
    BY <2>1, <2>2
  <2>5. TypeOK'
    BY <2>1, <2>2, <2>3 DEF Inv, TypeOK
  <2>6. OnlyIn(c)'
    BY <2>1, <2>2, <2>3, <2>4 DEF OnlyIn
  <2>7. Pointers(c)'
    <3>1. /\ gr'[c].axiom \in gr'[c].symbols \cup {Null}
          /\ gr'[c].nts \subseteq gr'[c].symbols \cup {stray'}
      BY <2>1, <2>3, <2>4 DEF Pointers
    <3>2. \A m \in Name : gr'[c].dict[m] = IF ~seen /\ m = n THEN o ELSE gr[c].dict[m]
      BY <2>1, <2>3, <2>4 DEF Grammars
    <3>3. o # Null /\ o \notin gr[c].symbols
      BY <2>1 DEF OnlyIn
    <3> QED
      BY <2>1, <2>3, <2>4, <3>1, <3>2, <3>3 DEF Pointers
  <2> QED
    BY <2>1, <2>2, <2>3, <2>4, <2>5, <2>6, <2>7, InvNext
       DEF Current, FlagKept, Inv
<1> QED
  BY <1>1, <1>2

LEMMA DestroyInv ==
    ASSUME Inv, NEW h \in Holder, h \in alive, Destroy(h),
           UNCHANGED <<client, pc, first, stray>>, pc \in {"returned", "assigned", "leave"},
           pc # "leave" => h \notin {"g", Current}
    PROVE  Inv'
<1>1. PICK c \in Holder : OnlyIn(c) /\ (pc # "leave" => c = Current)
  BY DEF Inv, Current, Holder
<1>2. gr \in [Holder -> Grammars] /\ gr'[h] = NewGrammar
      /\ \A k \in Holder \ {h} : gr'[k] = gr[k]
  BY DEF Inv, TypeOK, Destroy
<1>3. TypeOK'
  BY NewIsGrammar DEF Inv, TypeOK, Destroy
<1>4. OnlyIn(c)'
  <2>1. CASE h = c
    BY <1>1, <1>2, <2>1, NewIsGrammar DEF OnlyIn, Destroy
  <2>2. CASE h # c
    BY <1>1, <1>2, <2>2, NewIsGrammar DEF OnlyIn, Destroy
  <2> QED
    BY <2>1, <2>2
<1>5. Pointers(c)'
  BY <1>2, NewIsGrammar DEF Inv, Pointers
<1> QED
  <2>1. pc' # "leave" =>
           /\ c = Current' /\ c \in alive' /\ "g" \in alive'
           /\ FlagKept(c)' /\ stray' = Null
    BY <1>1, <1>2 DEF Inv, Current, FlagKept, Destroy
  <2> QED
    BY <1>3, <1>4, <1>5, <2>1, InvNext

-----------------------------------------------------------------------------
LEMMA InvStep == Inv /\ [Next]_vars => Inv'
<1> SUFFICES ASSUME Inv, [Next]_vars PROVE Inv'
  OBVIOUS
<1> USE DEF Holder
<1>0. TypeOK
  BY DEF Inv
<1>1. CASE OpenFile
  <2> DEFINE to == Moved(<<"parser", "g">>)
  <2>1. /\ to \in [Holder -> Grammars] /\ to["parser"] = gr["g"]
        /\ to["g"] = NewGrammar /\ to["result"] = gr["result"]
    BY <1>0, MovedAt
  <2>2. /\ OnlyIn("g") /\ Pointers("g") /\ gr["g"] \in Grammars
        /\ pc = "args" /\ "g" \in alive /\ stray = Null /\ stray' = stray
    BY <1>0, <1>1 DEF Inv, Current, OpenFile, TypeOK
  <2> DEFINE ignore == to["parser"].ignore \/ (client = "ged" /\ ~first)
             new == [gr["g"] EXCEPT !.ignore = ignore]
  <2>3. /\ new \in Grammars /\ new.symbols = gr["g"].symbols
        /\ new.nts = gr["g"].nts
        /\ new.axiom = gr["g"].axiom /\ new.dict = gr["g"].dict
        /\ new.ignore = ignore
    BY <2>1, <2>2 DEF Grammars
  <2> HIDE DEF to
  <2>4. gr' = [to EXCEPT !["parser"] = new]
    BY <1>1, <2>1 DEF OpenFile, to
  <2> HIDE DEF new
  <2>5. gr'["parser"] = new /\ gr'["g"] = NewGrammar /\ gr'["result"] = NewGrammar
    BY <2>1, <2>2, <2>4 DEF OnlyIn
  <2>6. TypeOK'
    BY <1>0, <1>1, <2>1, <2>3, <2>4 DEF TypeOK, OpenFile
  <2>7. OnlyIn("parser")' /\ Pointers("parser")'
    BY <1>1, <2>2, <2>3, <2>5 DEF OnlyIn, Pointers, OpenFile
  <2>8. FlagKept("parser")'
    BY <1>1, <2>1, <2>2, <2>3, <2>5 DEF FlagKept, OpenFile, Inv, Current, TypeOK
  <2> QED
    BY <1>1, <2>2, <2>6, <2>7, <2>8, InvNext DEF OpenFile, Current
<1>2. CASE Fail \/ Return
  <2>1. pc' = "leave" /\ UNCHANGED <<client, first, alive, gr, heap, stray>>
    BY <1>2 DEF Fail, Return
  <2> QED
    BY <2>1 DEF Inv, TypeOK, OnlyIn, Pointers
<1>3. CASE EndOfFile
  <2>1. /\ gr' \in [Holder -> Grammars] /\ gr'["result"] = gr["parser"]
        /\ gr'["parser"] = NewGrammar /\ gr'["g"] = gr["g"]
    BY <1>0, <1>3, MovedAt DEF EndOfFile, MoveConstruct
  <2>2. /\ OnlyIn("parser") /\ Pointers("parser") /\ FlagKept("parser")
        /\ "g" \in alive /\ stray = Null /\ stray' = stray
    BY <1>3 DEF Inv, Current, EndOfFile
  <2>3. TypeOK'
    BY <1>0, <1>3, <2>1 DEF TypeOK, EndOfFile, MoveConstruct
  <2>4. OnlyIn("result")' /\ Pointers("result")' /\ FlagKept("result")'
    BY <1>3, <2>1, <2>2 DEF OnlyIn, Pointers, EndOfFile, FlagKept, MoveConstruct
  <2> QED
    BY <1>3, <2>2, <2>3, <2>4, InvNext DEF EndOfFile, MoveConstruct, Current
<1>4. CASE Assign
  <2>1. /\ gr' \in [Holder -> Grammars] /\ gr'["g"] = gr["result"]
        /\ gr'["result"] = NewGrammar /\ gr'["parser"] = gr["parser"]
    BY <1>0, <1>4, MovedAt DEF Assign, MoveAssign
  <2>2. /\ OnlyIn("result") /\ Pointers("result") /\ FlagKept("result")
        /\ "g" \in alive /\ stray = Null /\ stray' = stray
    BY <1>4 DEF Inv, Current, Assign
  <2>3. TypeOK'
    BY <1>0, <1>4, <2>1 DEF TypeOK, Assign, MoveAssign
  <2>4. OnlyIn("g")' /\ Pointers("g")' /\ FlagKept("g")'
    BY <1>4, <2>1, <2>2 DEF OnlyIn, Pointers, Assign, FlagKept, MoveAssign
  <2> QED
    BY <1>4, <2>2, <2>3, <2>4, InvNext DEF Assign, MoveAssign, Current
<1>5. CASE FileDone
  <2> DEFINE ignore == gr["g"].ignore \/ (client = "parse_files" /\ first)
             new == [gr["g"] EXCEPT !.ignore = ignore]
  <2>1. gr \in [Holder -> Grammars] /\ gr["g"] \in Grammars
    BY <1>0 DEF TypeOK
  <2>2. /\ OnlyIn("g") /\ Pointers("g") /\ FlagKept("g")
        /\ "g" \in alive /\ stray = Null /\ stray' = stray
    BY <1>5 DEF Inv, Current, FileDone
  <2>3. /\ new \in Grammars /\ new.symbols = gr["g"].symbols
        /\ new.nts = gr["g"].nts
        /\ new.axiom = gr["g"].axiom /\ new.dict = gr["g"].dict
        /\ new.ignore = ignore
    BY <2>1 DEF Grammars
  <2>4. gr' = [gr EXCEPT !["g"] = new]
    BY <1>5 DEF FileDone
  <2> HIDE DEF new
  <2>5. gr'["g"] = new /\ \A h \in Holder \ {"g"} : gr'[h] = gr[h]
    BY <2>1, <2>4
  <2>6. TypeOK'
    BY <1>0, <1>5, <2>3, <2>4 DEF TypeOK, FileDone
  <2>7. OnlyIn("g")' /\ Pointers("g")' /\ FlagKept("g")'
    BY ZenonT(40), <1>5, <2>2, <2>3, <2>5 DEF OnlyIn, Pointers, FileDone, FlagKept
  <2> QED
    BY <1>5, <2>2, <2>6, <2>7, InvNext DEF FileDone, Current
<1>6. ASSUME NEW o \in Obj, NEW n \in Name, ReadNT(o, n) PROVE Inv'
  BY <1>6, PushInv DEF ReadNT, Current
<1>7. ASSUME NEW o \in Obj, NEW n \in Name, AddTerminal(o, n) PROVE Inv'
  BY <1>7, PushInv DEF AddTerminal, Current
<1>8. ASSUME NEW n \in Name, Erase(n) PROVE Inv'
  <2> DEFINE o == gr["g"].dict[n]
             new == [gr["g"] EXCEPT !.symbols = @ \ {o},
                                    !.nts = @ \ {o},
                                    !.dict = [@ EXCEPT ![n] = Null],
                                    !.axiom = IF @ = o THEN Null ELSE @]
  <2>1. /\ gr \in [Holder -> Grammars] /\ gr["g"] \in Grammars /\ alive = {"g"}
        /\ OnlyIn("g") /\ Pointers("g") /\ FlagKept("g") /\ pc = "args"
        /\ stray = Null
    BY <1>0, <1>8 DEF TypeOK, Inv, Current, Erase
  <2>2. /\ new \in Grammars /\ new.symbols = gr["g"].symbols \ {o}
        /\ new.nts = gr["g"].nts \ {o}
        /\ new.axiom = (IF gr["g"].axiom = o THEN Null ELSE gr["g"].axiom)
        /\ new.ignore = gr["g"].ignore
        /\ \A m \in Name : new.dict[m] = IF m = n THEN Null ELSE gr["g"].dict[m]
    BY <2>1 DEF Grammars
  <2>3. gr' = [gr EXCEPT !["g"] = new] /\ heap' = heap \ {o} /\ o # Null
        /\ UNCHANGED <<client, pc, first, alive, stray>>
    BY <1>8 DEF Erase
  <2> HIDE DEF new
  <2>4. gr'["g"] = new /\ \A h \in Holder \ {"g"} : gr'[h] = gr[h]
    BY <2>1, <2>3
  <2>5. TypeOK'
    BY <1>0, <2>2, <2>3 DEF TypeOK
  <2>6. OnlyIn("g")' /\ FlagKept("g")'
    BY <2>1, <2>2, <2>3, <2>4 DEF OnlyIn, FlagKept
  <2>7. Pointers("g")'
    BY <2>1, <2>2, <2>3, <2>4 DEF Pointers
  <2> QED
    BY <2>1, <2>3, <2>5, <2>6, <2>7, InvNext DEF Current
<1>13. ASSUME NEW n \in Name, EraseThrows(n) PROVE Inv'
  <2> DEFINE o == gr["g"].dict[n]
             new == [gr["g"] EXCEPT !.symbols = @ \ {o},
                                    !.axiom = IF @ = o THEN Null ELSE @]
  <2>1. /\ gr \in [Holder -> Grammars] /\ gr["g"] \in Grammars /\ alive = {"g"}
        /\ OnlyIn("g") /\ Pointers("g") /\ stray = Null
    BY <1>0, <1>13 DEF TypeOK, Inv, Current, EraseThrows
  <2>2. /\ new \in Grammars /\ new.symbols = gr["g"].symbols \ {o}
        /\ new.nts = gr["g"].nts /\ new.dict = gr["g"].dict
        /\ new.axiom = IF gr["g"].axiom = o THEN Null ELSE gr["g"].axiom
    BY <2>1 DEF Grammars
  <2>3. /\ gr' = [gr EXCEPT !["g"] = new] /\ stray' = o /\ o \in gr["g"].nts
        /\ pc' = "leave" /\ UNCHANGED <<client, first, alive, heap>>
    BY <1>13 DEF EraseThrows
  <2> HIDE DEF new
  <2>4. gr'["g"] = new /\ \A h \in Holder \ {"g"} : gr'[h] = gr[h]
    BY <2>1, <2>3
  <2>5. o \in Obj /\ o # Null /\ o \in gr["g"].symbols
    BY <2>1, <2>3, MovesAssumption DEF Grammars, Pointers
  <2>6. TypeOK'
    BY <1>0, <2>2, <2>3, <2>5 DEF TypeOK
  <2>7. OnlyIn("g")'
    BY <2>1, <2>2, <2>3, <2>4, <2>5 DEF OnlyIn
  <2>8. Pointers("g")'
    <3>0. gr["g"].nts \subseteq gr["g"].symbols
      BY <2>1, MovesAssumption DEF Pointers, Grammars
    <3>1. /\ gr'["g"].axiom \in gr'["g"].symbols \cup {Null}
          /\ gr'["g"].nts \subseteq gr'["g"].symbols \cup {stray'}
      BY <2>1, <2>2, <2>3, <2>4, <3>0 DEF Pointers
    <3>2. \A m \in Name : gr'["g"].dict[m] \in gr'["g"].symbols \cup {Null, stray'}
      BY <2>1, <2>2, <2>3, <2>4 DEF Pointers
    <3>3. gr'["g"].dict = gr["g"].dict
      BY <2>2, <2>4
    <3> HIDE DEF o
    <3> QED
      BY <2>1, <3>1, <3>2, <3>3 DEF Pointers
  <2> QED
    BY <2>3, <2>6, <2>7, <2>8, InvNext
<1>9. ASSUME NEW n \in Name, SetAxiom(n) PROVE Inv'
  <2> DEFINE new == [gr["g"] EXCEPT !.axiom = gr["g"].dict[n]]
  <2>1. /\ gr \in [Holder -> Grammars] /\ gr["g"] \in Grammars /\ alive = {"g"}
        /\ OnlyIn("g") /\ Pointers("g") /\ FlagKept("g") /\ pc = "args"
        /\ stray = Null
    BY <1>0, <1>9 DEF TypeOK, Inv, Current, SetAxiom
  <2>2. /\ new \in Grammars /\ new.symbols = gr["g"].symbols
        /\ new.nts = gr["g"].nts
        /\ new.axiom = gr["g"].dict[n] /\ new.dict = gr["g"].dict
        /\ new.ignore = gr["g"].ignore
    BY <2>1 DEF Grammars
  <2>3. gr' = [gr EXCEPT !["g"] = new] /\ UNCHANGED <<client, pc, first, alive, heap, stray>>
    BY <1>9 DEF SetAxiom
  <2> HIDE DEF new
  <2>4. gr'["g"] = new /\ \A h \in Holder \ {"g"} : gr'[h] = gr[h]
    BY <2>1, <2>3
  <2>5. TypeOK'
    BY <1>0, <2>2, <2>3 DEF TypeOK
  <2>6. OnlyIn("g")' /\ FlagKept("g")' /\ Pointers("g")'
    BY <2>1, <2>2, <2>3, <2>4 DEF OnlyIn, FlagKept, Pointers
  <2> QED
    BY <2>1, <2>3, <2>5, <2>6, InvNext DEF Current
<1>10. ASSUME NEW h \in Holder, EndOfScope(h) PROVE Inv'
  BY <1>10, DestroyInv DEF EndOfScope, Current
<1>11. ASSUME NEW h \in Holder, Unwind(h) PROVE Inv'
  BY <1>11, DestroyInv DEF Unwind
<1>12. CASE UNCHANGED vars
  BY <1>12 DEF Inv, TypeOK, vars, OnlyIn, FlagKept, Pointers, Current
<1> QED
  BY <1>1, <1>2, <1>3, <1>4, <1>5, <1>6, <1>7, <1>8, <1>9, <1>10, <1>11, <1>12,
     <1>13
     DEF Next

\* The invariant holds always.
LEMMA InvAlways == Spec => []Inv
BY InvInit, InvStep, PTL DEF Spec

-----------------------------------------------------------------------------
\* The members of the Grammars keep their types (the moves of grammar.cc).
THEOREM TypeCorrect == Spec => []TypeOK
<1>1. Inv => TypeOK
  BY DEF Inv
<1> QED
  BY <1>1, InvAlways, PTL

\* No symbol is lost by a move and none is owned twice, whatever number of files
\* is read and wherever it ends (Grammar::Grammar(Grammar &&), operator=()); what
\* nobody owns is the one symbol that an erase() had taken out when it threw.
THEOREM LostExactly == Spec => []OwnedOnce
<1>1. Inv => OwnedOnce
  <2> SUFFICES ASSUME Inv PROVE OwnedOnce
    OBVIOUS
  <2>1. PICK c \in Holder : OnlyIn(c)
    BY DEF Inv
  <2>2. \A h \in Holder : h # c => gr[h].symbols = {}
    BY <2>1, NewIsGrammar DEF OnlyIn
  <2>3. alive \subseteq Holder
    BY DEF Inv, TypeOK
  <2>4. c \notin alive => gr[c].symbols = {}
    BY <2>1, NewIsGrammar DEF OnlyIn
  <2>5. Owned = gr[c].symbols
    BY <2>2, <2>3, <2>4 DEF Owned
  <2>6. \A h, k \in Holder : h # k => gr[h].symbols \cap gr[k].symbols = {}
    BY <2>2
  <2>7. \A h \in Holder : stray \notin gr[h].symbols
    BY <2>1, <2>2 DEF OnlyIn
  <2>8. heap = Owned \cup ({stray} \ {Null})
    BY <2>1, <2>5 DEF OnlyIn
  <2> QED
    BY <2>6, <2>7, <2>8 DEF OwnedOnce, Inv, Pointers
<1> QED
  BY <1>1, InvAlways, PTL

\* The flag that duplicates are ignored comes along with every move.
THEOREM FlagMoves == Spec => []DuplicatesIgnored
<1>1. Inv => DuplicatesIgnored
  BY DEF Inv, DuplicatesIgnored, FlagKept, Current
<1> QED
  BY <1>1, InvAlways, PTL

-----------------------------------------------------------------------------
\* What the client sees as the graph.
Seen == Graph!avars

LEMMA RefinedInit == Init => Graph!AInit
<1> SUFFICES ASSUME Init PROVE Graph!AInit
  OBVIOUS
<1>1. Current = "g" /\ gr["g"] = NewGrammar /\ pc = "args"
  BY DEF Init, Current, Holder
<1> QED
  BY <1>1, NewIsGrammar DEF Graph!AInit, NewGrammar

LEMMA RefinedPush ==
    ASSUME Inv, Inv', NEW c \in Holder, pc \in {"args", "read"}, c = Current,
           NEW o \in Obj, NEW n \in Name, NEW isNT \in BOOLEAN,
           Push(c, o, n, isNT), UNCHANGED <<client, first, alive, stray>>
    PROVE  [Graph!ANext]_Seen
<1>1. gr \in [Holder -> Grammars] /\ gr[c] \in Grammars /\ OnlyIn(c)
  BY DEF Inv, TypeOK
<1>2. CASE UNCHANGED <<gr, heap, pc>>
  BY <1>2 DEF Seen, Graph!avars, Current
<1>3. CASE pc' = "leave"
  BY <1>3 DEF Graph!ANext, Graph!AClose, NewGrammar
<1>4. CASE pc' = pc /\ ~ UNCHANGED <<gr, heap, pc>>
  <2>1. gr'[c].symbols = gr[c].symbols \cup {o}
        /\ gr[c].dict[n] = Null /\ gr'[c].dict = [gr[c].dict EXCEPT ![n] = o]
    BY <1>1, <1>4 DEF Push, Grammars
  <2>2. c = Current' /\ o \notin gr[c].symbols
    BY <1>1, <1>4 DEF Current, Push, OnlyIn
  <2>3. Graph!AAdd(o, n)
    BY <1>4, <2>1, <2>2 DEF Graph!AAdd
  <2> QED
    BY <2>3 DEF Graph!ANext
<1> QED
  BY <1>2, <1>3, <1>4 DEF Push

LEMMA RefinedStep == Inv /\ Inv' /\ [Next]_vars => [Graph!ANext]_Seen
<1> SUFFICES ASSUME Inv, Inv', [Next]_vars PROVE [Graph!ANext]_Seen
  OBVIOUS
<1>0. TypeOK
  BY DEF Inv
<1> USE DEF Holder
<1>1. CASE OpenFile
  <2>1. gr["g"] \in Grammars /\ Moved(<<"parser", "g">>) \in [Holder -> Grammars]
        /\ Moved(<<"parser", "g">>)["parser"] = gr["g"]
    BY <1>0, MovedAt DEF TypeOK
  <2>2. gr'["parser"].symbols = gr["g"].symbols /\ gr'["parser"].dict = gr["g"].dict
    BY <1>1, <2>1 DEF OpenFile, Grammars
  <2> QED
    BY <1>1, <2>2 DEF OpenFile, Seen, Graph!avars, Current
<1>2. CASE Fail \/ Return
  <2>1. pc # "leave" /\ pc' = "leave"
    BY <1>2 DEF Fail, Return
  <2> QED
    BY <2>1 DEF Graph!ANext, Graph!AClose, NewGrammar
<1>3. CASE EndOfFile
  <2>1. gr'["result"] = gr["parser"]
    BY <1>0, <1>3, MovedAt DEF EndOfFile, MoveConstruct
  <2> QED
    BY <1>3, <2>1 DEF EndOfFile, Seen, Graph!avars, Current
<1>4. CASE Assign
  <2>1. gr'["g"] = gr["result"]
    BY <1>0, <1>4, MovedAt DEF Assign, MoveAssign
  <2> QED
    BY <1>4, <2>1 DEF Assign, Seen, Graph!avars, Current
<1>5. CASE FileDone
  <2>1. gr'["g"].symbols = gr["g"].symbols /\ gr'["g"].dict = gr["g"].dict
    BY <1>0, <1>5 DEF FileDone, TypeOK, Grammars
  <2> QED
    BY <1>5, <2>1 DEF FileDone, Seen, Graph!avars, Current
<1>6. ASSUME NEW o \in Obj, NEW n \in Name, ReadNT(o, n) PROVE [Graph!ANext]_Seen
  BY <1>6, RefinedPush DEF ReadNT, Current
<1>7. ASSUME NEW o \in Obj, NEW n \in Name, AddTerminal(o, n)
      PROVE [Graph!ANext]_Seen
  BY <1>7, RefinedPush DEF AddTerminal, Current
<1>8. ASSUME NEW n \in Name, Erase(n) PROVE [Graph!ANext]_Seen
  <2> DEFINE o == gr["g"].dict[n]
  <2>1. /\ gr["g"] \in Grammars /\ OnlyIn("g") /\ Pointers("g") /\ pc = "args"
        /\ pc' = pc /\ stray = Null
    BY <1>0, <1>8 DEF TypeOK, Inv, Current, Erase
  <2>2. gr'["g"].symbols = gr["g"].symbols \ {o}
        /\ gr'["g"].dict = [gr["g"].dict EXCEPT ![n] = Null]
    BY <1>0, <1>8, <2>1 DEF Erase, TypeOK, Grammars
  <2>3. o \in gr["g"].symbols /\ o # Null /\ o \in Obj
    BY <1>8, <2>1 DEF Erase, Pointers, Grammars
  <2>4. [gr["g"].dict EXCEPT ![n] = Null]
          = [m \in Name |-> IF gr["g"].dict[m] = o THEN Null ELSE gr["g"].dict[m]]
    BY <2>1, <2>3 DEF Pointers, Grammars
  <2>5. Graph!ARemove(o)
    BY <2>1, <2>2, <2>3, <2>4 DEF Graph!ARemove, Current
  <2> QED
    BY <2>3, <2>5 DEF Graph!ANext
<1>13. ASSUME NEW n \in Name, EraseThrows(n) PROVE [Graph!ANext]_Seen
  <2>1. pc # "leave" /\ pc' = "leave"
    BY <1>13 DEF EraseThrows
  <2> QED
    BY <2>1 DEF Graph!ANext, Graph!AClose, NewGrammar
<1>9. ASSUME NEW n \in Name, SetAxiom(n) PROVE [Graph!ANext]_Seen
  <2>1. gr'["g"].symbols = gr["g"].symbols /\ gr'["g"].dict = gr["g"].dict
    BY <1>0, <1>9 DEF SetAxiom, TypeOK, Grammars
  <2> QED
    BY <1>9, <2>1 DEF SetAxiom, Seen, Graph!avars, Current
<1>10. ASSUME NEW h \in Holder, EndOfScope(h) PROVE [Graph!ANext]_Seen
  <2>1. h # Current /\ Current' = Current /\ pc' = pc
    BY <1>10 DEF EndOfScope, Current
  <2>2. gr'[Current] = gr[Current]
    BY <1>0, <1>10, <2>1 DEF EndOfScope, Destroy, TypeOK, Current
  <2> QED
    BY <2>1, <2>2 DEF Seen, Graph!avars
<1>11. ASSUME NEW h \in Holder, Unwind(h) PROVE [Graph!ANext]_Seen
  BY <1>11 DEF Unwind, Seen, Graph!avars
<1>12. CASE UNCHANGED vars
  BY <1>12 DEF vars, Seen, Graph!avars, Current
<1> QED
  BY <1>1, <1>2, <1>3, <1>4, <1>5, <1>6, <1>7, <1>8, <1>9, <1>10, <1>11, <1>12,
     <1>13
     DEF Next

\* The client of ged and of parse_files() has one graph of symbols, which no move
\* changes: three Grammars implement one SymbolGraph.
THEOREM Refinement == Spec => MovesUnseen
BY RefinedInit, RefinedStep, InvAlways, PTL DEF Spec, MovesUnseen, Graph!ASpec, Seen
=============================================================================
