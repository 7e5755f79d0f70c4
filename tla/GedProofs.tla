------------------------------ MODULE GedProofs ------------------------------
(***************************************************************************)
(* Proofs about ged's command line.  For any files with any contents and   *)
(* any arguments in any order, Inv holds: it ties the flags to what was    *)
(* done to the grammar and to the constraint files.                        *)
(***************************************************************************)
EXTENDS Ged, WellFoundedInduction, TLAPS

\* There is an axiom as soon as there is a non-terminal.
AxiomKept == axiom = Null => nts = {}

\* Before the links are made there are none; no command comes before them.
LinksByFlag ==
    /\ links_uninitialized => linkings = "none" /\ linked = {}
    /\ pc = "execute" => ~links_uninitialized

\* When all files came first nothing that is read stays without links.
AllLinked ==
    ~late /\ add_asn_terminals /\ init_links /\ ~links_uninitialized =>
        /\ linked = nts
        /\ pc \in {"parse", "constrain", "link"} => acted

\* The one file that waits is that of constraints_filename.
Waiting ==
    /\ \A f \in ConsFile : /\ cons[f] # "surplus"
                           /\ cons[f] = "named" <=> constraints_filename = f
    /\ pc \in {"link", "execute"} => constraints_filename = Null

Running == pc # "end" => outcome = "running"

Inv ==
    /\ TypeOK /\ AxiomKept /\ Running
    /\ LinksByFlag /\ LinkedOnce /\ LinksClosed
    /\ AllLinked /\ LinkedInOrder
    /\ Waiting /\ DefinedAfterRead

-----------------------------------------------------------------------------
LEMMA InitInv == Init => Inv
BY GedAssumption
   DEF Init, Inv, TypeOK, AxiomKept, Running, LinksByFlag, LinkedOnce, LinksClosed,
       AllLinked, LinkedInOrder, Waiting, DefinedAfterRead, Outcomes

\* The program may end with what says the truth about the grammar.
LEMMA StopInv ==
    ASSUME Inv, NEW how \in Outcomes, Stop(how),
           how = "undefined" => nts = {} \/ \E n \in nts : uses[n] = {},
           how = "unlinked" => ~(~late /\ add_asn_terminals /\ init_links)
    PROVE  Inv'
BY DEF Inv, Stop, TypeOK, AxiomKept, Running, LinksByFlag, LinkedOnce, LinksClosed,
       AllLinked, LinkedInOrder, Waiting, DefinedAfterRead,
       grammarVars, flagVars, historyVars

\* An argument that was given and changes nothing.
LEMMA ReadOnlyInv ==
    ASSUME Inv, pc = "execute", ReadOnly
    PROVE  Inv'
BY DEF Inv, ReadOnly, Done, TypeOK, AxiomKept, Running, LinksByFlag, LinkedOnce,
       LinksClosed, AllLinked, LinkedInOrder, Waiting, DefinedAfterRead,
       grammarVars, flagVars
-----------------------------------------------------------------------------
LEMMA Least ==
    ASSUME NEW P, P \subseteq Nat, P # {}
    PROVE  \E m \in P : \A k \in P : m <= k
<1>1. PICK m \in P : \A k \in P : <<k, m>> \notin OpToRel(<, Nat)
  BY NatLessThanWellFounded, WFMin
<1>2. \A k \in P : ~(k < m)
  BY <1>1 DEF OpToRel
<1> QED BY <1>2

\* What a file adds is new, and the first of its names becomes the axiom.
LEMMA PushAdds ==
    ASSUME TypeOK, NEW f \in File, Push(f)
    PROVE  /\ nts \subseteq nts' /\ nts' \subseteq Name
           /\ uses' \in [nts' -> SUBSET Name]
           /\ \A n \in nts : uses'[n] = uses[n]
           /\ axiom' \in nts' \cup {Null}
           /\ AxiomKept => (axiom' = Null => nts' = {})
<1> DEFINE first(n) == CHOOSE i \in Fresh(f) : Content[f][i].name = n
           new == {Content[f][i].name : i \in Fresh(f)}
<1>1. Fresh(f) \subseteq Nat /\ \A i \in Fresh(f) : Content[f][i] \in Definition
  BY GedAssumption DEF Fresh
<1>2. new \subseteq Name /\ new \cap nts = {} /\ Null \notin new
  BY <1>1, GedAssumption DEF Fresh, Definition, Symbols
<1>3. \A n \in new : first(n) \in Fresh(f) /\ Content[f][first(n)].name = n
  OBVIOUS
<1>4. /\ nts' = nts \cup new
      /\ uses' = [n \in nts' |-> IF n \in new THEN Content[f][first(n)].uses ELSE uses[n]]
      /\ axiom' = IF axiom = Null /\ new # {}
                  THEN CHOOSE n \in new : \A i \in Fresh(f) : first(n) <= i ELSE axiom
  BY DEF Push
<1>5. \A n \in new : Content[f][first(n)].uses \in SUBSET Name
  BY <1>1, <1>3 DEF Definition
<1>6. uses' \in [nts' -> SUBSET Name]
  BY <1>2, <1>4, <1>5 DEF TypeOK
<1>7. \A n \in nts : uses'[n] = uses[n]
  BY <1>2, <1>4
<1>8. ASSUME new # {}
      PROVE  \E n \in new : \A i \in Fresh(f) : first(n) <= i
  <2>1. PICK m \in Fresh(f) : \A k \in Fresh(f) : m <= k
    <3>1. Fresh(f) # {}
      BY <1>8
    <3> QED BY <1>1, <3>1, Least
  <2> DEFINE n == Content[f][m].name
  <2>2. n \in new
    OBVIOUS
  <2>3. first(n) \in Fresh(f) /\ Content[f][first(n)].name = n
    BY <1>3, <2>2
  <2>4. first(n) = m
    <3>1. first(n) \in DOMAIN Content[f] /\ m \in DOMAIN Content[f]
      BY <2>3 DEF Fresh
    <3>2. ~(m < first(n))
      <4> SUFFICES ASSUME m < first(n) PROVE FALSE
        OBVIOUS
      <4>1. m \in 1..first(n) - 1
        BY <1>1, <2>3, <3>1, GedAssumption
      <4>2. Content[f][m].name # Content[f][first(n)].name
        BY <2>3, <4>1 DEF Fresh
      <4> QED BY <2>3, <4>2
    <3> QED BY <1>1, <2>1, <2>3, <3>2
  <2> QED BY <2>1, <2>2, <2>4
<1>9. /\ axiom' \in nts' \cup {Null}
      /\ AxiomKept => (axiom' = Null => nts' = {})
  <2>1. CASE axiom = Null /\ new # {}
    BY <1>2, <1>4, <1>8, <2>1
  <2>2. CASE ~(axiom = Null /\ new # {})
    BY <1>4, <2>2 DEF TypeOK, AxiomKept
  <2> QED BY <2>1, <2>2
<1> QED
  BY <1>2, <1>4, <1>6, <1>7, <1>9 DEF TypeOK

-----------------------------------------------------------------------------
\* Only the first file may fail for a duplicate.  A later one adds rules that are
\* not linked, and is late when there are links.
LEMMA ReadAsnInv ==
    ASSUME Inv, NEW f \in File, ReadAsn(f)
    PROVE  Inv' /\ \A n \in nts \cap nts' : uses'[n] = uses[n]
<1>1. CASE Stop("duplicate")
  BY <1>1, StopInv DEF Stop, grammarVars, Outcomes
<1>2. CASE ~Stop("duplicate")
  <2>1. /\ pc = "parse" /\ Push(f)
        /\ ignore_duplicates' = (ignore_duplicates \/ ~first_grammar)
        /\ first_grammar' = FALSE
        /\ late' = (late \/ acted)
        /\ UNCHANGED <<terminals, linked, add_asn_terminals, init_links,
                       links_uninitialized, constraints_filename,
                       controlVars, cons, linkings, acted>>
    BY <1>2 DEF ReadAsn
  <2>2. /\ nts \subseteq nts' /\ nts' \subseteq Name
        /\ uses' \in [nts' -> SUBSET Name]
        /\ \A n \in nts : uses'[n] = uses[n]
        /\ axiom' \in nts' \cup {Null}
        /\ AxiomKept => (axiom' = Null => nts' = {})
    BY <2>1, PushAdds DEF Inv
  <2>3. TypeOK' /\ AxiomKept' /\ Running'
    BY <2>1, <2>2 DEF Inv, TypeOK, AxiomKept, Running, controlVars
  <2>4. LinksByFlag' /\ LinkedOnce' /\ LinksClosed'
    BY <2>1, <2>2 DEF Inv, TypeOK, LinksByFlag, LinkedOnce, LinksClosed, controlVars
  <2>5. AllLinked' /\ LinkedInOrder'
    BY <2>1 DEF Inv, TypeOK, AllLinked, LinkedInOrder, Running, controlVars
  <2>6. Waiting' /\ DefinedAfterRead'
    BY <2>1 DEF Inv, Waiting, DefinedAfterRead, Running, controlVars
  <2> QED BY <2>2, <2>3, <2>4, <2>5, <2>6 DEF Inv
<1> QED BY <1>1, <1>2

LEMMA NextArgumentInv == ASSUME Inv, NextArgument PROVE Inv'
BY DEF Inv, NextArgument, TypeOK, AxiomKept, Running, LinksByFlag, LinkedOnce,
       LinksClosed, AllLinked, LinkedInOrder, Waiting, DefinedAfterRead,
       grammarVars, flagVars, historyVars

\* The file that waits is applied, or the program ends for a name or a rule.
LEMMA ApplyConstraintsInv == ASSUME Inv, ApplyConstraints PROVE Inv'
<1>1. CASE constraints_filename = Null
  BY <1>1 DEF Inv, ApplyConstraints, TypeOK, AxiomKept, Running, LinksByFlag,
       LinkedOnce, LinksClosed, AllLinked, LinkedInOrder, Waiting,
       DefinedAfterRead, grammarVars, flagVars, historyVars
<1>2. CASE constraints_filename # Null
  <2>1. pc = "constrain" /\ AddConstraints
    BY <1>2 DEF ApplyConstraints
  <2>2. CASE Stop("unresolved")
    BY <2>2, StopInv DEF Outcomes
  <2>3. CASE Stop("undefined") /\ \E n \in nts : uses[n] = {}
    BY <2>3, StopInv DEF Outcomes
  <2>4. CASE /\ cons' = [cons EXCEPT ![constraints_filename] =
                            IF @ = "named" THEN "applied" ELSE "surplus"]
             /\ constraints_filename' = Null
             /\ pc' = "link"
             /\ UNCHANGED <<grammarVars, outcome, add_asn_terminals, init_links,
                            first_grammar, links_uninitialized,
                            linkings, acted, late>>
    <3>1. /\ constraints_filename \in ConsFile
          /\ cons[constraints_filename] = "named"
      BY <1>2 DEF Inv, TypeOK, Waiting
    <3>2. cons' = [cons EXCEPT ![constraints_filename] = "applied"]
      BY <2>4, <3>1
    <3>3. TypeOK' /\ AxiomKept' /\ Running'
      BY <2>1, <2>4, <3>2
         DEF Inv, TypeOK, AxiomKept, Running, grammarVars
    <3>4. LinksByFlag' /\ LinkedOnce' /\ LinksClosed' /\ AllLinked' /\ LinkedInOrder'
          /\ DefinedAfterRead'
      BY <2>1, <2>4 DEF Inv, LinksByFlag, LinkedOnce, LinksClosed, AllLinked,
                        LinkedInOrder, DefinedAfterRead, grammarVars
    <3>5. Waiting'
      BY <1>2, <2>4, <3>1, <3>2, GedAssumption DEF Inv, TypeOK, Waiting
    <3> QED BY <3>3, <3>4, <3>5 DEF Inv
  <2> QED BY <2>1, <2>2, <2>3, <2>4 DEF AddConstraints
<1> QED BY <1>1, <1>2

\* The links are made where there are none, of rules whose symbols are there.
LEMMA LinkUpInv == ASSUME Inv, LinkUp PROVE Inv'
<1>1. CASE Stop("duplicate") \/ Stop("unresolved")
  BY <1>1, StopInv DEF Outcomes
<1>2. CASE ~(Stop("duplicate") \/ Stop("unresolved"))
  <2>1. /\ pc = "link" /\ pc' = "execute"
        /\ links_uninitialized' = FALSE
        /\ UNCHANGED <<nts, uses, axiom, ignore_duplicates, add_asn_terminals,
                       init_links, first_grammar, constraints_filename, outcome,
                       cons, acted, late>>
    BY <1>2 DEF LinkUp
  <2>2. /\ links_uninitialized =>
              /\ terminals' = AddedTerminals
              /\ linked' = IF init_links THEN nts ELSE {}
              /\ linkings' = CASE ~init_links       -> linkings
                               [] linkings = "none" -> "one"
                               [] OTHER             -> "many"
              /\ init_links => \A n \in nts : uses[n] \subseteq nts \cup AddedTerminals
        /\ ~links_uninitialized => UNCHANGED <<terminals, linked, linkings>>
    BY <1>2 DEF LinkUp
  <2>3. AddedTerminals \subseteq Name
    BY GedAssumption DEF AddedTerminals
  <2>4. CASE links_uninitialized
    <3>1. linkings' \in {"none", "one"}
      BY <2>2, <2>4 DEF Inv, LinksByFlag
    <3>2. TypeOK' /\ AxiomKept' /\ Running'
      BY <2>1, <2>2, <2>3, <2>4, <3>1 DEF Inv, TypeOK, AxiomKept, Running
    <3>3. LinksByFlag' /\ LinkedOnce' /\ LinksClosed' /\ AllLinked'
      BY <2>1, <2>2, <2>4, <3>1
         DEF Inv, LinksByFlag, LinkedOnce, LinksClosed, AllLinked
    <3>4. LinkedInOrder' /\ Waiting' /\ DefinedAfterRead'
      BY <2>1 DEF Inv, LinkedInOrder, Waiting, DefinedAfterRead
    <3> QED BY <3>2, <3>3, <3>4 DEF Inv
  <2>5. CASE ~links_uninitialized
    BY <2>1, <2>2, <2>5
       DEF Inv, TypeOK, AxiomKept, Running, LinksByFlag, LinkedOnce, LinksClosed,
           AllLinked, LinkedInOrder, Waiting, DefinedAfterRead
  <2> QED BY <2>4, <2>5 DEF Inv, TypeOK
<1> QED BY <1>1, <1>2

-----------------------------------------------------------------------------
\* What the axiom leads to has it, and all that its rules use.
LEMMA ReachedClosed ==
    /\ Reached \subseteq Symbols
    /\ axiom \in Symbols => axiom \in Reached
    /\ Closed(Reached)
<1>1. Reached \subseteq Symbols /\ (axiom \in Symbols => axiom \in Reached)
  BY DEF Reached
<1>2. ASSUME NEW n \in Reached \cap nts, NEW u \in uses[n] \cap Symbols
      PROVE  u \in Reached
  <2> SUFFICES ASSUME NEW S \in SUBSET Symbols, axiom \in S, Closed(S)
               PROVE  u \in S
    BY DEF Reached
  <2>1. n \in S \cap nts
    BY DEF Reached
  <2> QED BY <2>1 DEF Closed
<1> QED BY <1>1, <1>2 DEF Closed

\* With the rules linked, nothing an order of arguments does can end for want of
\* a link.
LEMMA AllLinkedNow ==
    ASSUME Inv, pc = "execute", Unlinked # {} \/ WalkThrows
    PROVE  ~(~late /\ add_asn_terminals /\ init_links)
BY DEF Inv, LinksByFlag, AllLinked, Unlinked, WalkThrows

\* -e takes whole rules: of a linked one all is reached, or nothing.
LEMMA EraseInv ==
    ASSUME Inv, EraseUnreachable
    PROVE  Inv' /\ \A n \in nts \cap nts' : uses'[n] = uses[n]
<1>1. CASE axiom = Null
  <2>1. Stop("undefined")
    BY <1>1 DEF EraseUnreachable
  <2> QED BY <1>1, <2>1, StopInv DEF Inv, AxiomKept, Outcomes, Stop, grammarVars
<1>2. CASE axiom # Null /\ (WalkThrows \/ ~Unlinked \subseteq Reached)
  <2>1. Stop("unlinked") /\ pc = "execute"
    BY <1>2 DEF EraseUnreachable
  <2>2. Unlinked # {} \/ WalkThrows
    BY <1>2
  <2> QED BY <2>1, <2>2, AllLinkedNow, StopInv DEF Outcomes, Stop, grammarVars
<1>3. CASE axiom # Null /\ ~(WalkThrows \/ ~Unlinked \subseteq Reached)
  <2>1. /\ pc = "execute" /\ pc' = "parse" /\ acted' = TRUE
        /\ nts' = nts \cap Reached
        /\ terminals' = terminals \cap Reached
        /\ uses' = [n \in nts' |-> IF n \in linked THEN uses[n] \cap Reached ELSE uses[n]]
        /\ linked' = linked \cap Reached
        /\ axiom' = IF axiom \in Reached THEN axiom ELSE Null
        /\ UNCHANGED <<outcome, ignore_duplicates, flagVars, cons, linkings, late>>
    BY <1>3 DEF EraseUnreachable, Done
  <2>2. axiom \in nts /\ axiom \in Reached
    BY <1>3, ReachedClosed DEF Inv, TypeOK, Symbols
  <2>3. \A n \in nts' : uses'[n] = uses[n]
    <3>1. \A n \in linked \cap Reached : uses[n] \subseteq Reached
      BY ReachedClosed DEF Inv, TypeOK, LinksClosed, Closed, Symbols
    <3> QED BY <2>1, <3>1
  <2>4. LinksClosed'
    <3>1. \A n \in linked \cap Reached : uses[n] \subseteq Reached
      BY ReachedClosed DEF Inv, TypeOK, LinksClosed, Closed, Symbols
    <3>2. linked' \subseteq nts'
      BY <2>1 DEF Inv, TypeOK
    <3> QED BY <2>1, <2>3, <3>1, <3>2 DEF Inv, LinksClosed
  <2>5. TypeOK'
    <3>1. uses' \in [nts' -> SUBSET Name]
      BY <2>1 DEF Inv, TypeOK
    <3> QED BY <2>1, <2>2, <3>1 DEF Inv, TypeOK, flagVars
  <2>6. AxiomKept' /\ Running' /\ LinksByFlag' /\ LinkedOnce' /\ AllLinked'
    BY <1>3, <2>1, <2>2
       DEF Inv, AxiomKept, Running, LinksByFlag, LinkedOnce, AllLinked, flagVars
  <2>7. LinkedInOrder' /\ Waiting' /\ DefinedAfterRead'
    BY <2>1 DEF Inv, Running, LinkedInOrder, Waiting, DefinedAfterRead, flagVars
  <2> QED BY <2>1, <2>3, <2>4, <2>5, <2>6, <2>7 DEF Inv
<1> QED BY <1>1, <1>2, <1>3

\* The commands that only read: what they stop for is there.
LEMMA CommandInv ==
    ASSUME Inv,
           \/ PrintUnreachable \/ TopologicalSort \/ DeriveOrPrintCapnp
           \/ PrintSchema \/ PrintPlain \/ \E n \in Name : PrintClosure(n)
    PROVE  Inv' /\ UNCHANGED <<nts, uses>>
<1>1. /\ pc = "execute"
      /\ \/ ReadOnly
         \/ Stop("undefined") /\ (axiom = Null \/ nts = {} \/ \E n \in nts : uses[n] = {})
         \/ Stop("unlinked") /\ (Unlinked # {} \/ WalkThrows)
         \/ Stop("cycle") \/ Stop("unresolved")
  BY DEF PrintUnreachable, TopologicalSort, DeriveOrPrintCapnp, PrintSchema,
         PrintPlain, PrintClosure
<1>2. CASE ReadOnly
  BY <1>1, <1>2, ReadOnlyInv DEF ReadOnly, grammarVars
<1>3. CASE Stop("undefined") /\ (axiom = Null \/ nts = {} \/ \E n \in nts : uses[n] = {})
  BY <1>3, StopInv DEF Inv, AxiomKept, Outcomes, Stop, grammarVars
<1>4. CASE Stop("unlinked") /\ (Unlinked # {} \/ WalkThrows)
  BY <1>1, <1>4, AllLinkedNow, StopInv DEF Outcomes, Stop, grammarVars
<1>5. CASE Stop("cycle") \/ Stop("unresolved")
  BY <1>5, StopInv DEF Outcomes, Stop, grammarVars
<1> QED BY <1>1, <1>2, <1>3, <1>4, <1>5

\* -sa, -no-term, -no-init and -cs, and the two ways to end.
LEMMA SettingInv ==
    ASSUME Inv,
           \/ \E n \in Name : SetAxiom(n)
           \/ \E o \in {"-no-term", "-no-init"} : Option(o)
           \/ \E f \in ConsFile : NameConstraints(f)
           \/ Finish \/ \E how \in {"finished", "unknown"} : Leave(how)
    PROVE  Inv' /\ UNCHANGED <<nts, uses>>
<1>1. CASE \E n \in Name : SetAxiom(n)
  <2> PICK n \in Name : SetAxiom(n)
    BY <1>1
  <2>1. CASE n \notin nts
    BY <2>1, StopInv DEF SetAxiom, Outcomes, Stop, grammarVars
  <2>2. CASE n \in nts
    BY <2>2, GedAssumption
       DEF Inv, SetAxiom, Done, TypeOK, AxiomKept, Running, LinksByFlag, LinkedOnce,
           LinksClosed, AllLinked, LinkedInOrder, Waiting, DefinedAfterRead, flagVars
  <2> QED BY <2>1, <2>2
<1>2. CASE \E o \in {"-no-term", "-no-init"} : Option(o)
  BY <1>2 DEF Inv, Option, Done, TypeOK, AxiomKept, Running, LinksByFlag, LinkedOnce,
       LinksClosed, AllLinked, LinkedInOrder, Waiting, DefinedAfterRead, grammarVars
<1>3. CASE \E f \in ConsFile : NameConstraints(f)
  <2> PICK f \in ConsFile : NameConstraints(f)
    BY <1>3
  <2>1. /\ constraints_filename = Null /\ constraints_filename' = f /\ f # Null
        /\ cons' = [cons EXCEPT ![f] = "named"] /\ pc' = "parse"
        /\ acted' = TRUE
        /\ UNCHANGED <<grammarVars, outcome, add_asn_terminals, init_links,
                       first_grammar, links_uninitialized, linkings, late>>
    BY GedAssumption DEF Inv, Waiting, NameConstraints, Done
  <2>2. \A x \in ConsFile : cons'[x] = IF x = f THEN "named" ELSE cons[x]
    BY <2>1 DEF Inv, TypeOK
  <2>3. \A x \in ConsFile : cons[x] # "named" /\ cons[x] # "surplus"
    BY <2>1, GedAssumption DEF Inv, Waiting
  <2>4. Waiting'
    BY <2>1, <2>2, <2>3 DEF Waiting
  <2> QED
    BY <2>1, <2>4 DEF Inv, TypeOK, AxiomKept, Running, LinksByFlag, LinkedOnce,
       LinksClosed, AllLinked, LinkedInOrder, DefinedAfterRead, NameConstraints,
       grammarVars
<1>4. CASE Finish \/ \E how \in {"finished", "unknown"} : Leave(how)
  BY <1>4, StopInv DEF Finish, Leave, Outcomes, Stop, grammarVars
<1> QED BY <1>1, <1>2, <1>3, <1>4

-----------------------------------------------------------------------------
LEMMA NextInv ==
    ASSUME Inv, [Next]_vars
    PROVE  Inv' /\ \A n \in nts \cap nts' : uses'[n] = uses[n]
<1>1. ASSUME NEW f \in File, ReadAsn(f)
      PROVE  Inv' /\ \A n \in nts \cap nts' : uses'[n] = uses[n]
  BY <1>1, ReadAsnInv
<1>2. CASE NextArgument
  BY <1>2, NextArgumentInv DEF NextArgument, grammarVars
<1>3. CASE ApplyConstraints
  <2>1. UNCHANGED uses
    BY <1>3 DEF ApplyConstraints, AddConstraints, Stop, grammarVars
  <2> QED BY <1>3, <2>1, ApplyConstraintsInv
<1>4. CASE LinkUp
  <2>1. UNCHANGED uses
    BY <1>4 DEF LinkUp, Stop, grammarVars
  <2> QED BY <1>4, <2>1, LinkUpInv
<1>5. CASE EraseUnreachable
  BY <1>5, EraseInv
<1>6. CASE \/ PrintUnreachable \/ TopologicalSort \/ DeriveOrPrintCapnp
           \/ PrintSchema \/ PrintPlain \/ \E n \in Name : PrintClosure(n)
  BY <1>6, CommandInv
<1>7. CASE \/ \E n \in Name : SetAxiom(n)
           \/ \E o \in {"-no-term", "-no-init"} : Option(o)
           \/ \E f \in ConsFile : NameConstraints(f)
           \/ Finish \/ \E how \in {"finished", "unknown"} : Leave(how)
  BY <1>7, SettingInv
<1>8. CASE UNCHANGED vars
  <2>1. Inv'
    BY <1>8 DEF vars, grammarVars, flagVars, controlVars, historyVars, Inv, TypeOK,
       AxiomKept, Running, LinksByFlag, LinkedOnce, LinksClosed, AllLinked,
       LinkedInOrder, Waiting, DefinedAfterRead
  <2> QED BY <1>8, <2>1 DEF vars, grammarVars
<1> QED BY <1>1, <1>2, <1>3, <1>4, <1>5, <1>6, <1>7, <1>8 DEF Next

\* The options of ged keep what the commands rely on: the grammar that was read,
\* the axiom, and the links made so far in the order of the files.
THEOREM Invariance == Spec => []Inv
BY InitInv, NextInv, PTL DEF Spec

\* The variables keep their types.
THEOREM TypeCorrect == Spec => []TypeOK
BY Invariance, PTL DEF Inv

\* ged makes the links once at most.
THEOREM AtMostOneLinking == Spec => []LinkedOnce
BY Invariance, PTL DEF Inv

\* What a linked rule uses is there, and linked if it has a rule: no -ra and no -e
\* leaves a reference without its symbol.
THEOREM NoDanglingLinks == Spec => []LinksClosed
BY Invariance, PTL DEF Inv

\* With all files in front and no option that forbids it, nothing ends for want
\* of a link.
THEOREM LinksSuffice == Spec => []LinkedInOrder
BY Invariance, PTL DEF Inv

\* What is undefined needs an empty grammar or an empty rule.
THEOREM AxiomAtHand == Spec => []DefinedAfterRead
BY Invariance, PTL DEF Inv

\* Each constraint file is applied once, before the next argument does anything.
THEOREM ConstraintsOnce == Spec => []ConstraintsInPlace
<1>1. Inv => ConstraintsInPlace
  BY GedAssumption DEF Inv, Waiting, ConstraintsInPlace
<1> QED BY Invariance, <1>1, PTL

\* The rule of a non-terminal is that of its first definition as long as it is
\* there.
THEOREM RulesWhole == Spec => RulesKept
<1>1. Inv /\ [Next]_vars => [\A n \in nts \cap nts' : uses'[n] = uses[n]]_vars
  BY NextInv
<1> QED BY Invariance, <1>1, PTL DEF Spec, RulesKept
=============================================================================
