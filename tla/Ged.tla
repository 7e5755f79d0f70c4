--------------------------------- MODULE Ged ---------------------------------
(***************************************************************************)
(* The command line of ged, ged/arguments.cc: one grammar that is read     *)
(* from files, linked before the first other argument, changed and         *)
(* printed, in the order of the arguments.  Each argument but -ra first    *)
(* applies the constraints of the last -cs, then gets the terminals and    *)
(* the links in place if no argument did so before, and only then does     *)
(* what it is for.  An exception ends the program.                         *)
(*                                                                         *)
(* A rule is the set of the names it uses.  Nothing here depends on more   *)
(* of it, nor on the order of the symbols; the texts that are printed and  *)
(* the class of tags are left out.                                         *)
(***************************************************************************)
EXTENDS Naturals, Sequences, FiniteSets

CONSTANTS
    Name,         \* names of symbols
    Builtins,     \* those of the terminals of add_terminals()
    File,         \* grammar files, all of which parse
    Content,      \* the definitions in each of them
    Constrained,  \* for each constraint file, the names it constrains
    Null

Definition == [name : Name, uses : SUBSET Name]
ConsFile   == DOMAIN Constrained

ASSUME GedAssumption ==
    /\ Builtins \subseteq Name
    /\ Content \in [File -> Seq(Definition)]
    /\ Constrained \in [ConsFile -> SUBSET Name]
    /\ Null \notin Name \cup ConsFile

VARIABLES
    nts,                    \* g: names of the non-terminals
    uses,                   \*    names each of their rules uses
    terminals,              \*    names of the terminals
    linked,                 \*    non-terminals whose references are linked
    axiom,                  \*    Null, or the name of the axiom
    ignore_duplicates,
    add_asn_terminals, init_links, first_grammar, links_uninitialized,
    constraints_filename,   \* Null, or the file of a -cs not yet applied
    pc,                     \* "parse", "constrain", "link", "execute"; "end"
    outcome,                \* how it ended; "running" before
    cons,       \* history: what became of each constraint file
    linkings,   \* history: how often init_links() ran
    acted,      \* history: some argument was given but -ra, and but -no-term and
                \*    -no-init in front of the first -ra
    late        \* history: some -ra came after such an argument

grammarVars == <<nts, uses, terminals, linked, axiom, ignore_duplicates>>
flagVars    == <<add_asn_terminals, init_links, first_grammar,
                 links_uninitialized, constraints_filename>>
controlVars == <<pc, outcome>>
historyVars == <<cons, linkings, acted, late>>
vars == <<grammarVars, flagVars, controlVars, historyVars>>

Outcomes ==
    {"running", "finished",
     "duplicate",     \* Parse_Error: Symbol already seen
     "unresolved",    \* Runtime_Error: Could not find symbol in grammar
     "unlinked",      \* Runtime_Error: Symbol link not initialized
     "cycle",         \* not_a_dag
     "unknown",       \* Argument_Error
     "undefined"}     \* undefined behaviour: no axiom, no front()

TypeOK ==
    /\ nts \subseteq Name /\ terminals \subseteq Name /\ linked \subseteq nts
    /\ uses \in [nts -> SUBSET Name]
    /\ axiom \in nts \cup {Null}
    /\ {ignore_duplicates, add_asn_terminals, init_links, first_grammar,
        links_uninitialized, acted, late} \subseteq BOOLEAN
    /\ constraints_filename \in ConsFile \cup {Null}
    /\ pc \in {"parse", "constrain", "link", "execute", "end"}
    /\ outcome \in Outcomes
    /\ cons \in [ConsFile -> {"unused", "named", "applied", "surplus"}]
    /\ linkings \in {"none", "one", "many"}

Init ==
    /\ nts = {} /\ uses = [n \in {} |-> {}] /\ terminals = {} /\ linked = {} /\ axiom = Null
    /\ ignore_duplicates = FALSE
    /\ add_asn_terminals = TRUE /\ init_links = TRUE
    /\ first_grammar = TRUE /\ links_uninitialized = TRUE
    /\ constraints_filename = Null
    /\ pc = "parse" /\ outcome = "running"
    /\ cons = [f \in ConsFile |-> "unused"] /\ linkings = "none"
    /\ acted = FALSE /\ late = FALSE

-----------------------------------------------------------------------------
Symbols == nts \cup terminals

\* The program ends, and the grammar with it.
Stop(how) ==
    /\ outcome' = how
    /\ pc' = "end"
    /\ UNCHANGED <<grammarVars, flagVars, historyVars>>

\* The definitions of f that are the first of their name.
Fresh(f) ==
    {i \in DOMAIN Content[f] :
        /\ Content[f][i].name \notin Symbols
        /\ \A j \in 1..i - 1 : Content[f][j].name # Content[f][i].name}

\* Grammar::push() of the definitions of f, in their order.
Push(f) ==
    LET first(n) == CHOOSE i \in Fresh(f) : Content[f][i].name = n
        new      == {Content[f][i].name : i \in Fresh(f)}
    IN  /\ nts' = nts \cup new
        /\ uses' = [n \in nts' |-> IF n \in new THEN Content[f][first(n)].uses
                                   ELSE uses[n]]
        /\ axiom' = IF axiom = Null /\ new # {}
                    THEN CHOOSE n \in new : \A i \in Fresh(f) : first(n) <= i
                    ELSE axiom

\* Variant: the flag is cleared where the file is read.
ReadAsnCleared(f) ==
    /\ pc = "parse"
    /\ Push(f)
    /\ first_grammar' = FALSE
    /\ links_uninitialized' = FALSE
    /\ UNCHANGED <<terminals, linked, ignore_duplicates, add_asn_terminals,
                   init_links, constraints_filename, controlVars, historyVars>>

\* -ra: the grammar moves into the parser and back.
ReadAsn(f) ==
    LET ignore == ignore_duplicates \/ ~first_grammar
    IN  /\ pc = "parse"
        /\ IF ~ignore /\ Fresh(f) # DOMAIN Content[f] THEN Stop("duplicate")
           ELSE /\ Push(f)
                /\ ignore_duplicates' = ignore
                /\ first_grammar' = FALSE
                /\ late' = (late \/ acted)
                /\ UNCHANGED <<terminals, linked, add_asn_terminals, init_links,
                               links_uninitialized, constraints_filename,
                               controlVars, cons, linkings, acted>>

\* Another argument comes.
NextArgument ==
    /\ pc = "parse"
    /\ pc' = "constrain"
    /\ UNCHANGED <<grammarVars, flagVars, outcome, historyVars>>

\* There are no more arguments; there was one at least.
Finish ==
    /\ pc = "parse"
    /\ Stop(IF first_grammar /\ links_uninitialized THEN "unknown" ELSE "finished")

\* Variant: the file is kept, and its constraints are added again.
AddConstraintsAgain ==
    /\ Constrained[constraints_filename] \subseteq nts
    /\ cons' = [cons EXCEPT ![constraints_filename] =
                   IF @ = "named" THEN "applied" ELSE "surplus"]
    /\ pc' = "link"
    /\ UNCHANGED <<grammarVars, outcome, flagVars, linkings, acted, late>>

\* add_constraints(), once all names and rules it needs are there.
AddConstraints ==
    LET names == Constrained[constraints_filename]
    IN  \/ /\ ~names \subseteq nts
           /\ Stop("unresolved")
        \/ /\ \E n \in names \cap nts : uses[n] = {}
           /\ Stop("undefined")
        \/ /\ names \subseteq nts
           /\ \A n \in names : uses[n] # {}
           /\ cons' = [cons EXCEPT ![constraints_filename] =
                          IF @ = "named" THEN "applied" ELSE "surplus"]
           /\ constraints_filename' = Null
           /\ pc' = "link"
           /\ UNCHANGED <<grammarVars, outcome, add_asn_terminals, init_links,
                          first_grammar, links_uninitialized,
                          linkings, acted, late>>

ApplyConstraints ==
    /\ pc = "constrain"
    /\ IF constraints_filename # Null THEN AddConstraints
       ELSE /\ pc' = "link"
            /\ UNCHANGED <<grammarVars, flagVars, outcome, historyVars>>

\* The terminals add_terminals() pushes, unless -no-term was given.
AddedTerminals == IF add_asn_terminals THEN Builtins ELSE {}

\* Variant: the links are made for each argument.
LinkUpAlways ==
    /\ pc = "link"
    /\ pc' = "execute"
    /\ terminals' = IF links_uninitialized THEN AddedTerminals ELSE terminals
    /\ linked' = IF init_links THEN nts ELSE linked
    /\ linkings' = CASE ~init_links        -> linkings
                     [] linkings = "none"  -> "one"
                     [] OTHER              -> "many"
    /\ links_uninitialized' = FALSE
    /\ UNCHANGED <<nts, uses, axiom, ignore_duplicates, add_asn_terminals,
                   init_links, first_grammar, constraints_filename, outcome,
                   cons, acted, late>>

\* Variant: without the check whether some symbol is missing.
LinkUpUnchecked ==
    /\ pc = "link"
    /\ pc' = "execute"
    /\ IF links_uninitialized
         THEN /\ terminals' = AddedTerminals
              /\ linked' = IF init_links THEN nts ELSE {}
              /\ linkings' = IF init_links THEN "one" ELSE linkings
         ELSE UNCHANGED <<terminals, linked, linkings>>
    /\ links_uninitialized' = FALSE
    /\ UNCHANGED <<nts, uses, axiom, ignore_duplicates, add_asn_terminals,
                   init_links, first_grammar, constraints_filename, outcome,
                   cons, acted, late>>

\* add_terminals() and init_links(), before the first argument but -ra only.
LinkUp ==
    /\ pc = "link"
    /\ IF links_uninitialized /\ nts \cap AddedTerminals # {}
         THEN Stop("duplicate")
       ELSE IF links_uninitialized /\ init_links
               /\ \E n \in nts : ~uses[n] \subseteq nts \cup AddedTerminals
         THEN Stop("unresolved")
       ELSE /\ IF links_uninitialized
                 THEN /\ terminals' = AddedTerminals
                      /\ linked' = IF init_links THEN nts ELSE {}
                      /\ linkings' = CASE ~init_links       -> linkings
                                       [] linkings = "none" -> "one"
                                       [] OTHER             -> "many"
                 ELSE UNCHANGED <<terminals, linked, linkings>>
            /\ links_uninitialized' = FALSE
            /\ pc' = "execute"
            /\ UNCHANGED <<nts, uses, axiom, ignore_duplicates,
                           add_asn_terminals, init_links, first_grammar,
                           constraints_filename, outcome, cons, acted, late>>

-----------------------------------------------------------------------------
(***************************************************************************)
(* What the arguments do, when no exception ended the program before.      *)
(***************************************************************************)

\* The argument is done with; what it has not changed is as before.
Done == pc' = "parse" /\ UNCHANGED outcome

\* Reference::symbol() throws for the references of such a rule.
Unlinked == {n \in nts \ linked : uses[n] # {}}

Closed(S) == \A n \in S \cap nts : uses[n] \cap Symbols \subseteq S

\* Variants: terminals are not reached; the axiom is, if some rule uses it.
ReachedNTs == {s \in nts : \A S \in SUBSET nts :
    axiom \in S /\ (\A n \in S : uses[n] \cap nts \subseteq S) => s \in S}
ReachedByUse == {s \in Symbols : \A S \in SUBSET Symbols :
    Closed(S) /\ uses[axiom] \cap Symbols \subseteq S => s \in S}

\* What unreachable_symbols() leaves out: all the axiom leads to.
Reached == {s \in Symbols : \A S \in SUBSET Symbols :
    axiom \in S /\ Closed(S) => s \in S}

\* The axiom is not linked and uses a symbol still to be reached.  A linked
\* rule uses linked ones only, so that the walk throws nowhere else.
WalkThrows ==
    axiom \in Unlinked /\ ~(uses[axiom] \cap Symbols \subseteq {axiom})

\* -e: erase_unreachable_symbols(), which throws for an unlinked rule.
EraseUnreachable ==
    /\ pc = "execute"
    /\ IF axiom = Null THEN Stop("undefined")
       ELSE IF WalkThrows \/ ~Unlinked \subseteq Reached THEN Stop("unlinked")
       ELSE /\ nts' = nts \cap Reached
            /\ terminals' = terminals \cap Reached
            /\ uses' = [n \in nts' |-> IF n \in linked THEN uses[n] \cap Reached
                                       ELSE uses[n]]
            /\ linked' = linked \cap Reached
            /\ axiom' = IF axiom \in Reached THEN axiom ELSE Null
            /\ acted' = TRUE
            /\ Done
            /\ UNCHANGED <<ignore_duplicates, flagVars, cons, linkings, late>>

\* An argument that only reads the grammar.
ReadOnly ==
    /\ acted' = TRUE
    /\ Done
    /\ UNCHANGED <<grammarVars, flagVars, cons, linkings, late>>

\* -pu: unreachable_symbols()
PrintUnreachable ==
    /\ pc = "execute"
    /\ IF axiom = Null THEN Stop("undefined")
       ELSE IF WalkThrows THEN Stop("unlinked")
       ELSE ReadOnly

\* -tsort: the same non-terminals in another order.
Cyclic == \E S \in SUBSET nts : S # {} /\ \A n \in S : uses[n] \cap S # {}

TopologicalSort ==
    /\ pc = "execute"
    /\ IF Unlinked # {} THEN Stop("unlinked")
       ELSE IF Cyclic THEN Stop("cycle")
       ELSE IF nts = {} \/ axiom = Null THEN Stop("undefined")
       ELSE ReadOnly

\* -dt, -pp: a reference with a tag of its own, or in the rule of a LINK, need
\* not be linked; of any other one they ask the symbol.
DeriveOrPrintCapnp ==
    /\ pc = "execute"
    /\ \/ Unlinked # {} /\ Stop("unlinked")
       \/ ReadOnly

\* -px, -pr: the axiom, and the first reference of each rule.
PrintSchema ==
    /\ pc = "execute"
    /\ \/ axiom = Null /\ Stop("undefined")
       \/ axiom # Null /\ Unlinked # {} /\ Stop("unlinked")
       \/ axiom # Null /\ (\E n \in nts : uses[n] = {}) /\ Stop("undefined")
       \/ axiom # Null /\ Unlinked = {} /\ (\A n \in nts : uses[n] # {}) /\ ReadOnly

\* -pa, -pd, -pt, -pn, -ppt, -key, -ns, -k, -no-any-att: they need no links.
PrintPlain ==
    /\ pc = "execute"
    /\ ReadOnly

\* -pc: the symbol it starts from must be there.
PrintClosure(n) ==
    /\ pc = "execute"
    /\ IF n \notin Symbols THEN Stop("unresolved") ELSE ReadOnly

\* -sa: one of the non-terminals.
SetAxiom(n) ==
    /\ pc = "execute"
    /\ IF n \notin nts THEN Stop("unresolved")
       ELSE /\ axiom' = n
            /\ acted' = TRUE
            /\ Done
            /\ UNCHANGED <<nts, uses, terminals, linked, ignore_duplicates,
                           flagVars, cons, linkings, late>>

\* -no-term and -no-init
Option(o) ==
    /\ pc = "execute"
    /\ add_asn_terminals' = (add_asn_terminals /\ o # "-no-term")
    /\ init_links' = (init_links /\ o # "-no-init")
    /\ acted' = (acted \/ ~first_grammar)
    /\ Done
    /\ UNCHANGED <<grammarVars, first_grammar, links_uninitialized,
                   constraints_filename, cons, linkings, late>>

\* -cs
NameConstraints(f) ==
    /\ pc = "execute"
    /\ constraints_filename' = f
    /\ cons' = [cons EXCEPT ![f] = "named"]
    /\ acted' = TRUE
    /\ Done
    /\ UNCHANGED <<grammarVars, add_asn_terminals, init_links, first_grammar,
                   links_uninitialized, linkings, late>>

\* -h, -version; or no argument ged knows, or one that lacks its value.
Leave(how) ==
    /\ pc = "execute"
    /\ Stop(how)

Next ==
    \/ \E f \in File : ReadAsn(f)
    \/ NextArgument \/ Finish \/ ApplyConstraints \/ LinkUp
    \/ EraseUnreachable \/ PrintUnreachable \/ TopologicalSort
    \/ DeriveOrPrintCapnp \/ PrintSchema \/ PrintPlain
    \/ \E n \in Name : PrintClosure(n) \/ SetAxiom(n)
    \/ \E o \in {"-no-term", "-no-init"} : Option(o)
    \/ \E f \in ConsFile : NameConstraints(f)
    \/ \E how \in {"finished", "unknown"} : Leave(how)

Spec == Init /\ [][Next]_vars

-----------------------------------------------------------------------------
\* init_links() runs once at most, whatever comes in which order: a second
\* time it would leave references in parents() that erase() does not remove.
LinkedOnce == linkings # "many"

\* The symbols a linked rule uses are there, and linked if they have rules:
\* no later -ra or -e leaves a reference without its symbol.
LinksClosed == \A n \in linked : uses[n] \subseteq terminals \cup linked

\* The rule of a non-terminal is that of its first definition, in whole:
\* neither a later file nor an erased symbol takes something of it away.
RulesKept == [][\A n \in nts \cap nts' : uses'[n] = uses[n]]_vars

\* Once a file has defined something there is an axiom, and no argument has
\* undefined behaviour but for a rule without references.
DefinedAfterRead ==
    outcome = "undefined" => nts = {} \/ \E n \in nts : uses[n] = {}

\* When an argument is executed each constraint file named before it has been
\* applied; none is ever applied twice for one -cs.
ConstraintsInPlace ==
    \A f \in ConsFile : /\ cons[f] # "surplus"
                        /\ pc = "execute" => cons[f] # "named"

\* In the order of the examples of the help text, all -ra in front, and with
\* links wanted, nothing fails for want of a link.
LinkedInOrder ==
    ~late /\ add_asn_terminals /\ init_links => outcome # "unlinked"

\* What the help text says of -no-term: no terminals are added, when it comes
\* in front of the command to read.
NoTermFirst == ~acted /\ ~add_asn_terminals => terminals = {}
=============================================================================
