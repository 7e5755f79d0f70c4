-------------------------------- MODULE Moves --------------------------------
(***************************************************************************)
(* A grammar on its way between the objects that hold it.  symbols_ is a   *)
(* deque of owning pointers, and moving it from one Grammar to another is  *)
(* written out by hand (grammar/grammar.cc): a member forgotten would free *)
(* a symbol twice, an assignment to a Grammar that owns something loses    *)
(* it.  Two functions move grammars, once for each file: ged's parse() and *)
(* parse_files() give theirs to a Parser and assign what grammar() returns *)
(* to it.  An exception ends both and destroys what lives at the time.     *)
(*                                                                         *)
(* Rules are left out, the module Grammar has them: whether a reference of *)
(* a non-terminal is not linked, which makes erase() throw, is left open.  *)
(***************************************************************************)
CONSTANTS
    Obj,    \* addresses of symbols
    Name,   \* symbol names
    Null    \* no symbol

ASSUME MovesAssumption == Null \notin Obj

\* The Grammar of the client, the member grammar_ of the parser and the
\* temporary that Parser::grammar() returns.
Holder == {"g", "parser", "result"}

VARIABLES
    client,     \* the function: "ged" or "parse_files"
    pc,         \* "args", "read", "returned", "assigned"; "leave"
    first,      \* no file was read yet
    alive,      \* the Grammars between their constructor and destructor
    gr,         \* the members of each
    heap,       \* symbols that are allocated
    stray       \* history: the symbol an erase() that threw had taken out

vars == <<client, pc, first, alive, gr, heap, stray>>

Grammars == [symbols : SUBSET Obj,              \* symbols_
             nts     : SUBSET Obj,              \* nts_
             dict    : [Name -> Obj \cup {Null}],\* name_to_symbol_
             axiom   : Obj \cup {Null},
             ignore  : BOOLEAN]                 \* ignore_duplicates_

\* Grammar::Grammar()
NewGrammar == [symbols |-> {}, nts |-> {}, dict |-> [n \in Name |-> Null],
               axiom |-> Null, ignore |-> FALSE]

TypeOK ==
    /\ client \in {"ged", "parse_files"}
    /\ pc \in {"args", "read", "returned", "assigned", "leave"}
    /\ first \in BOOLEAN
    /\ alive \subseteq Holder
    /\ gr \in [Holder -> Grammars]
    /\ heap \subseteq Obj
    /\ stray \in Obj \cup {Null}

Init ==
    /\ client \in {"ged", "parse_files"}
    /\ pc = "args" /\ first = TRUE
    /\ alive = {"g"}
    /\ gr = [h \in Holder |-> NewGrammar]
    /\ heap = {} /\ stray = Null

-----------------------------------------------------------------------------
\* Variant of the code: the pointers stay in the source, too.
MovedKeeping(x) == [gr EXCEPT ![x[1]] = gr[x[2]], ![x[2]].ignore = FALSE]

\* Variant of the code: the flag is not moved.
MovedFlagless(x) == [gr EXCEPT ![x[1]] = [gr[x[2]] EXCEPT !.ignore = FALSE],
                               ![x[2]] = NewGrammar]

\* The members after a move from x[2] to x[1], which is another one: each is
\* moved and then cleared.
Moved(x) == [gr EXCEPT ![x[1]] = gr[x[2]], ![x[2]] = NewGrammar]

MoveConstruct(to, from) ==
    /\ alive' = alive \cup {to}
    /\ gr' = Moved(<<to, from>>)
    /\ UNCHANGED heap

\* What the target owned is not freed.
MoveAssign(to, from) ==
    /\ gr' = Moved(<<to, from>>)
    /\ UNCHANGED <<alive, heap>>

Destroy(h) ==
    /\ heap' = heap \ gr[h].symbols
    /\ alive' = alive \ {h}
    /\ gr' = [gr EXCEPT ![h] = NewGrammar]

\* push() of the symbol o with the name n, seen or not; it is in symbols_ when
\* push() throws.  The first non-terminal becomes the axiom.
Push(h, o, n, isNT) ==
    LET seen == gr[h].dict[n] # Null IN
    /\ o \notin heap
    /\ IF isNT /\ gr[h].ignore /\ seen THEN UNCHANGED <<gr, heap, pc>>
       ELSE /\ heap' = heap \cup {o}
            /\ gr' = [gr EXCEPT
                 ![h].symbols = @ \cup {o},
                 ![h].nts = IF isNT THEN @ \cup {o} ELSE @,
                 ![h].axiom = IF isNT /\ @ = Null THEN o ELSE @,
                 ![h].dict = IF seen THEN @ ELSE [@ EXCEPT ![n] = o]]
            /\ pc' = IF seen THEN "leave" ELSE pc

-----------------------------------------------------------------------------
\* Variant of the code: the parser begins with a grammar of its own.
OpenFileAnew ==
    /\ pc = "args"
    /\ alive' = alive \cup {"parser"}
    /\ pc' = "read"
    /\ UNCHANGED <<client, first, gr, heap, stray>>

\* The next file moves the grammar into its parser.  ged says each time but the
\* first that duplicates are ignored.
OpenFile ==
    /\ pc = "args"
    /\ alive' = alive \cup {"parser"}
    /\ gr' = [Moved(<<"parser", "g">>) EXCEPT
                !["parser"].ignore = @ \/ (client = "ged" /\ ~first)]
    /\ pc' = "read"
    /\ UNCHANGED <<client, first, heap, stray>>

\* mmap_file() or the syntax of a file.
Fail ==
    /\ pc \in {"args", "read"}
    /\ pc' = "leave"
    /\ UNCHANGED <<client, first, alive, gr, heap, stray>>

ReadNT(o, n) ==
    /\ pc = "read"
    /\ Push("parser", o, n, TRUE)
    /\ UNCHANGED <<client, first, alive, stray>>

\* Parser::grammar()
EndOfFile ==
    /\ pc = "read"
    /\ MoveConstruct("result", "parser")
    /\ pc' = "returned"
    /\ UNCHANGED <<client, first, stray>>

\* g = parser.grammar(), or g = parse_file(...), whose parser is gone by then.
Assign ==
    /\ pc = "returned"
    /\ client = "parse_files" => "parser" \notin alive
    /\ MoveAssign("g", "result")
    /\ pc' = "assigned"
    /\ UNCHANGED <<client, first, stray>>

\* The temporary ends with the assignment, ged's parser with its block.
EndOfScope(h) ==
    /\ h \in alive
    /\ \/ h = "parser" /\ client = "parse_files" /\ pc = "returned"
       \/ h = "result" /\ pc = "assigned"
       \/ h = "parser" /\ client = "ged" /\ pc = "assigned" /\ "result" \notin alive
    /\ Destroy(h)
    /\ UNCHANGED <<client, pc, first, stray>>

\* parse_files() says once, after its first file, that duplicates are ignored.
\* Then it reads the same file again, and the others.
FileDone ==
    /\ pc = "assigned"
    /\ alive = {"g"}
    /\ pc' = "args"
    /\ first' = FALSE
    /\ gr' = [gr EXCEPT !["g"].ignore = @ \/ (client = "parse_files" /\ first)]
    /\ UNCHANGED <<client, alive, heap, stray>>

\* Other arguments of ged change the grammar where it is: add_terminals(), -e
\* and -sa.
AddTerminal(o, n) ==
    /\ client = "ged" /\ pc = "args"
    /\ Push("g", o, n, FALSE)
    /\ UNCHANGED <<client, first, alive, stray>>

Erase(n) ==
    LET o == gr["g"].dict[n] IN
    /\ client = "ged" /\ pc = "args"
    /\ o # Null
    /\ heap' = heap \ {o}
    /\ gr' = [gr EXCEPT !["g"].symbols = @ \ {o},
                        !["g"].nts = @ \ {o},
                        !["g"].dict = [@ EXCEPT ![n] = Null],
                        !["g"].axiom = IF @ = o THEN Null ELSE @]
    /\ UNCHANGED <<client, pc, first, alive, stray>>

\* erase() of a non-terminal with a reference that is not linked: it has left
\* symbols_ by then, the other pointers to it stay, and the exception ends ged.
EraseThrows(n) ==
    LET o == gr["g"].dict[n] IN
    /\ client = "ged" /\ pc = "args"
    /\ o \in gr["g"].nts
    /\ gr' = [gr EXCEPT !["g"].symbols = @ \ {o},
                        !["g"].axiom = IF @ = o THEN Null ELSE @]
    /\ stray' = o
    /\ pc' = "leave"
    /\ UNCHANGED <<client, first, alive, heap>>

SetAxiom(n) ==
    /\ client = "ged" /\ pc = "args"
    /\ gr["g"].dict[n] \in gr["g"].nts
    /\ gr' = [gr EXCEPT !["g"].axiom = gr["g"].dict[n]]
    /\ UNCHANGED <<client, pc, first, alive, heap, stray>>

\* Both functions end here, with or without an exception: the locals are
\* destroyed, the last one first.
Return ==
    /\ pc = "args"
    /\ pc' = "leave"
    /\ UNCHANGED <<client, first, alive, gr, heap, stray>>

Unwind(h) ==
    /\ pc = "leave"
    /\ h \in alive
    /\ h = "g" => alive = {"g"}
    /\ Destroy(h)
    /\ UNCHANGED <<client, pc, first, stray>>

Next ==
    \/ OpenFile \/ Fail \/ EndOfFile \/ Assign \/ FileDone \/ Return
    \/ \E o \in Obj, n \in Name : ReadNT(o, n) \/ AddTerminal(o, n)
    \/ \E n \in Name : Erase(n) \/ EraseThrows(n) \/ SetAxiom(n)
    \/ \E h \in Holder : EndOfScope(h) \/ Unwind(h)

Spec == Init /\ [][Next]_vars

-----------------------------------------------------------------------------
\* What the Grammars that live own.
Owned == UNION {gr[h].symbols : h \in alive}

\* No symbol is freed twice, and none leaks but one: whatever is allocated is in
\* the symbols_ of one Grammar that lives, so that the assignment finds nothing
\* to lose, and no pointer of a Grammar leads to a symbol it does not own.  The
\* exception is the symbol of an erase() that threw: no Grammar owns it, it is
\* what is left when all are destroyed, and ged does nothing more but return.  No
\* other exception, from push() or from reading, leaves anything.
OwnedOnce ==
    /\ heap = Owned \cup ({stray} \ {Null})
    /\ stray # Null => pc = "leave" /\ \A h \in Holder : stray \notin gr[h].symbols
    /\ \A h, k \in Holder : h # k => gr[h].symbols \cap gr[k].symbols = {}
    /\ \A h \in Holder :
          /\ gr[h].axiom \in gr[h].symbols \cup {Null}
          /\ gr[h].nts \subseteq gr[h].symbols \cup {stray}
          /\ \A n \in Name : gr[h].dict[n] \in gr[h].symbols \cup {Null, stray}

\* No file after the first one fails for a symbol seen before: the flag moves
\* with the grammar, from the client into the parser and back, however often.
DuplicatesIgnored == pc = "read" /\ ~first => gr["parser"].ignore

\* The Grammar that has the symbols.
Current == CASE pc = "read" -> "parser" [] pc = "returned" -> "result" [] OTHER -> "g"

\* To the client there is one graph of symbols; the moves are not seen.
Graph == INSTANCE SymbolGraph WITH
    Slot  <- {},
    nodes <- IF pc = "leave" THEN {} ELSE gr[Current].symbols,
    uses  <- {},
    edge  <- {},
    dict  <- IF pc = "leave" THEN NewGrammar.dict ELSE gr[Current].dict,
    open  <- pc # "leave"

MovesUnseen == Graph!ASpec
=============================================================================
