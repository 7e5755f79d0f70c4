------------------------------- MODULE Parser -------------------------------
(***************************************************************************)
(* The parser of mini_parser.rl: an automaton with actions on its edges.   *)
(* A text is a sequence of lexemes; a word (an identifier or a keyword), a *)
(* tag in brackets, a constraint in parentheses and the head of a module   *)
(* up to BEGIN with its imports are one lexeme each, so is a run of blanks *)
(* ("ws").  Most actions of the automaton belong to the end of a piece of  *)
(* syntax and run at the first character of what comes next: Leave gives   *)
(* them for the state that is left, Enter what a lexeme does itself.       *)
(*                                                                         *)
(* Comments are cut out beforehand, and what is between two of them is one *)
(* call of read_section(), whose locals (type_ident, last) begin as null.  *)
(* There is no comment inside a lexeme here.                               *)
(***************************************************************************)
EXTENDS Naturals, Sequences, SequencesExt

CONSTANTS
    Ident,      \* identifiers of types
    Builtin,    \* those of two words, such as OCTET STRING
    Field,      \* names of references
    Tag, Constraint,
    Inputs,     \* sequences of texts, with what each of them declares
    Null,       \* a null pointer; no coordinates; no constraint
    Half        \* type_ident with a second pointer but no first

Empty == ""     \* the empty string

\* Braces, commas and "..." are lexemes as well.
Kinds == {"ws", "comment", "header", "END", "type", "builtin", "::=", "tag",
          "size", "SEQUENCE", "SET", "CHOICE", "OF", "brace", "close", "comma",
          "...", "name", "OPTIONAL"}

Lexeme ==
    [k : {"type"}, v : Ident] \cup [k : {"builtin"}, v : Builtin]
    \cup [k : {"name"}, v : Field] \cup [k : {"tag"}, v : Tag]
    \cup [k : {"size"}, v : Constraint]
    \cup [k : Kinds \ {"type", "builtin", "name", "tag", "size"}, v : {Null}]

\* References, rules and definitions.
RuleTypes  == {"LINK", "SEQUENCE", "ALL", "CHOICE", "LIST", "SET"}
Reference  == [name : Field \cup {Empty}, symbol : Ident \cup Builtin \cup {Empty},
               coord : Tag \cup {Null}, cons : Constraint \cup {Null},
               opt : BOOLEAN]
Rule       == [type : RuleTypes, refs : Seq(Reference), ext : BOOLEAN]
NT         == [name : Ident \cup Builtin \cup {Empty}, coord : Tag \cup {Null}]
Definition == [name : Ident \cup Builtin \cup {Empty}, coord : Tag \cup {Null},
               rule : Rule]

ASSUME ParserAssumption ==
    /\ \A x \in Inputs : /\ x.texts \in Seq(Seq(Lexeme)) /\ x.texts # <<>>
                         /\ x.says \in Seq(Seq(Definition))
                         /\ Len(x.says) = Len(x.texts)
    /\ Ident \cap Builtin = {}
    /\ Half # Null
    /\ {Half, Null, Empty} \cap (Ident \cup Builtin \cup Field) = {}
    /\ Null \notin Tag \cup Constraint \cup NT \cup Rule \cup Reference

VARIABLES
    input,      \* the files, and what each declares
    file,       \* the file that is read; 0: the first for the first time
    pos,        \* how many of its lexemes were read
    cs,         \* the state of the automaton
    reg,        \* locals and members of the parser
    defs,       \* what was pushed into the grammar
    mode        \* "reading", "done"; thrown: "error", "duplicate", "null"

vars == <<input, file, pos, cs, reg, defs, mode>>

Registers ==
    [ident : Ident \cup Builtin \cup {Null, Half},   \* type_ident
     last  : Field \cup {Null},
     nt    : NT \cup {Null},                         \* nt_, rule_, ref_
     rule  : Rule \cup {Null},
     ref   : Reference \cup {Null},
     coord : Tag \cup {Null}]                        \* coord_

-----------------------------------------------------------------------------
\* The edges: from, lexeme, to.  The end of ws is not an edge of its own, it
\* is up to what follows.
Edges ==
    \* blanks
    {<<s, "ws", s>> : s \in {"top", "list", "defname_ws", "rhs", "rhs_tag",
        "link_ws", "done", "record", "choice", "field", "fname_ws", "ftag",
        "ftype_ws", "fsize_ws", "fend", "of", "end"}}
    \cup {<<"header", "ws", "list">>, <<"defname", "ws", "defname_ws">>,
          <<"assign", "ws", "rhs">>, <<"link", "ws", "link_ws">>,
          <<"link_size", "ws", "done">>, <<"SEQUENCE", "ws", "record">>,
          <<"SET", "ws", "record">>, <<"CHOICE", "ws", "choice">>,
          <<"brace", "ws", "field">>, <<"fname", "ws", "fname_ws">>,
          <<"ftype", "ws", "ftype_ws">>, <<"fsize", "ws", "fsize_ws">>,
          <<"fopt", "ws", "fend">>, <<"fext", "ws", "fend">>,
          <<"comma", "ws", "field">>, <<"close", "ws", "done">>,
          <<"OF", "ws", "of">>, <<"oftype", "ws", "done">>,
          <<"END", "ws", "end">>, <<"top", "header", "header">>}
    \* module_definition, assignment_list
    \cup {"top", "list", "done", "link_ws"} \X {"type", "builtin"} \X {"defname"}
    \cup {"done", "link_ws"} \X {"END"} \X {"END"}
    \cup {"defname", "defname_ws"} \X {"::="} \X {"assign"}
    \* type
    \cup {"assign", "rhs"} \X {"tag"} \X {"rhs_tag"}
    \cup {"assign", "rhs", "rhs_tag"} \X {"type", "builtin"} \X {"link"}
    \cup {"assign", "rhs", "rhs_tag"} \X {"SEQUENCE"} \X {"SEQUENCE"}
    \cup {"assign", "rhs", "rhs_tag"} \X {"SET"} \X {"SET"}
    \cup {"assign", "rhs", "rhs_tag"} \X {"CHOICE"} \X {"CHOICE"}
    \cup {"link", "link_ws"} \X {"size"} \X {"link_size"}
    \* sequence_set_choice
    \cup {"SEQUENCE", "SET", "CHOICE", "record", "choice"} \X {"brace"} \X {"brace"}
    \cup {"brace", "field", "comma"} \X {"name"} \X {"fname"}
    \cup {"brace", "field", "comma"} \X {"..."} \X {"fext"}
    \cup {"fname_ws"} \X {"tag"} \X {"ftag"}
    \cup {"fname_ws", "ftag"} \X {"type", "builtin"} \X {"ftype"}
    \cup {"ftype", "ftype_ws"} \X {"size"} \X {"fsize"}
    \cup {"ftype_ws", "fsize", "fsize_ws"} \X {"OPTIONAL"} \X {"fopt"}
    \cup {"ftype", "ftype_ws", "fsize", "fsize_ws", "fopt", "fend", "fext"}
            \X {"comma"} \X {"comma"}
    \cup {"ftype", "ftype_ws", "fsize", "fsize_ws", "fopt", "fend", "fext"}
            \X {"close"} \X {"close"}
    \* sequence_set_of
    \cup {"record"} \X {"OF"} \X {"OF"}
    \cup {"of"} \X {"type", "builtin"} \X {"oftype"}

States == {e[1] : e \in Edges} \cup {e[3] : e \in Edges}

\* The states an assignment and a blank after it lead to: one more character
\* that is not for this assignment, or the end of the file, pushes it.
Complete == {"done", "link_ws"}

\* The texts of identifiers end where type_ident.second points to.
NamePending == {"defname", "link", "ftype", "oftype"}

-----------------------------------------------------------------------------
NoRegisters == [ident |-> Null, last |-> Null, nt |-> Null, rule |-> Null,
                ref |-> Null, coord |-> Null]

\* A Reference that uses the symbol n.
NewReference(n) ==
    [name |-> Empty, symbol |-> n, coord |-> Null, cons |-> Null, opt |-> FALSE]

\* A string from two null pointers is empty.
Text(i) == IF i = Null THEN Empty ELSE i

\* From a null pointer and another one it cannot be made.
Broken(s, r) ==
    \/ s = "assign" /\ r.ident = Half
    \/ s \in {"link", "ftype", "oftype"} /\ r.ident = Null
    \/ s = "fname" /\ r.last = Null

EndIdent(r) == IF r.ident = Null THEN [r EXCEPT !.ident = Half] ELSE r

NewSymbol(r) ==
    [r EXCEPT !.nt = [name |-> Text(r.ident), coord |-> Null], !.coord = Null]

TagSymbol(r) == [r EXCEPT !.nt.coord = r.coord]

NewRule(r, t) ==
    [r EXCEPT !.rule = [type |-> t, refs |-> <<>>, ext |-> FALSE]]

NewLink(r) ==
    [r EXCEPT !.rule = [type |-> "LINK", refs |-> <<NewReference(r.ident)>>,
                        ext |-> FALSE],
              !.ref = NewReference(Empty)]

\* The constraints of ref_ move to the reference of the link.
MoveConstraint(r) ==
    [r EXCEPT !.rule.refs[1].cons = r.ref.cons, !.ref.cons = Null]

\* Variant: no reference to begin with.
OpenRecordBare(r) == [r EXCEPT !.coord = Null]

OpenRecord(r) == [r EXCEPT !.ref = NewReference(Empty), !.coord = Null]

PushReference(r) ==
    [r EXCEPT !.rule.refs = Append(@, r.ref),
              !.ref = NewReference(Empty), !.coord = Null]

\* The reference begun last is pushed unless "..." came instead of a name.
CloseRecord(r) ==
    IF r.ref.name = Empty THEN r
    ELSE [r EXCEPT !.rule.refs = Append(@, r.ref), !.ref = Null]

\* sequence_ is what the rule was made for.
NewList(r) == NewRule(r, IF r.rule.type = "SEQUENCE" THEN "LIST" ELSE "SET")

PushElement(r) ==
    [r EXCEPT !.rule.refs = Append(@, NewReference(r.ident))]

\* What is put off until state s is left.
Leave(s, r) ==
    CASE s = "defname"   -> EndIdent(r)
      [] s = "assign"    -> NewSymbol(r)
      [] s = "rhs_tag"   -> TagSymbol(r)
      [] s = "link"      -> NewLink(r)
      [] s = "link_size" -> MoveConstraint(r)
      [] s = "SEQUENCE"  -> NewRule(r, "SEQUENCE")
      [] s = "SET"       -> NewRule(r, "ALL")
      [] s = "CHOICE"    -> NewRule(r, "CHOICE")
      [] s = "brace"     -> OpenRecord(r)
      [] s = "fname"     -> [r EXCEPT !.ref.name = r.last]
      [] s = "ftag"      -> [r EXCEPT !.ref.coord = r.coord]
      [] s = "ftype"     -> [r EXCEPT !.ref.symbol = r.ident]
      [] s = "fopt"      -> [r EXCEPT !.ref.opt = TRUE]
      [] s = "fext"      -> [r EXCEPT !.rule.ext = TRUE]
      [] s = "comma"     -> PushReference(r)
      [] s = "close"     -> CloseRecord(r)
      [] s = "OF"        -> NewList(r)
      [] s = "oftype"    -> PushElement(r)
      [] OTHER           -> r

\* What a lexeme does as it is read.
Enter(l, r) ==
    CASE l.k \in {"type", "builtin"} -> [r EXCEPT !.ident = l.v]
      [] l.k = "name"                -> [r EXCEPT !.last = l.v]
      [] l.k = "tag"                 -> [r EXCEPT !.coord = l.v]
      [] l.k = "size"                -> [r EXCEPT !.ref.cons = l.v]
      [] OTHER                       -> r

\* The locals of the next read_section().  OCTET STRING and the like are put
\* into type_ident only after their end.
NextSection(s, r) ==
    [r EXCEPT !.last = Null,
              !.ident = IF s \in NamePending /\ @ \in Builtin THEN @ ELSE Null]

-----------------------------------------------------------------------------
Init ==
    /\ input \in Inputs
    /\ file = 0 /\ pos = 0
    /\ cs = "top" /\ reg = NoRegisters
    /\ defs = <<>>
    /\ mode = "reading"

\* parse_files() begins its loop with the first file again.
Source == input.texts[IF file = 0 THEN 1 ELSE file]
Next1  == Source[pos + 1]

Reading == mode = "reading" /\ pos < Len(Source)

\* The next lexeme leads from cs to s.  END belongs to a module, with a head.
InModule == \E i \in 1..pos : Source[i].k = "header"
Leads(s) == <<cs, Next1.k, s>> \in Edges /\ (Next1.k = "END" => InModule)

Throw(what) == mode' = what /\ UNCHANGED <<input, file, pos, cs, reg, defs>>

\* Grammar::push() of nt_ with the rule; from the second reading on
\* duplicates are ignored.
Pushed == [name |-> reg.nt.name, coord |-> reg.nt.coord, rule |-> reg.rule]
Seen   == \E k \in DOMAIN defs : defs[k].name = reg.nt.name

\* Variant: what is there is not looked up.
PushAlways == defs' = Append(defs, Pushed)

Push == defs' = IF Seen THEN defs ELSE Append(defs, Pushed)

Comment ==
    /\ Reading
    /\ Next1.k = "comment"
    /\ pos' = pos + 1
    /\ reg' = NextSection(cs, reg)
    /\ UNCHANGED <<input, file, cs, defs, mode>>

\* Further blanks.
ReadBlank ==
    /\ Reading
    /\ Leads(cs)
    /\ pos' = pos + 1
    /\ UNCHANGED <<input, file, cs, reg, defs, mode>>

\* Some states are left behind for good once a definition is complete.
EndsDefinition == cs \in Complete /\ Next1.k \notin {"ws", "size"}

\* A lexeme leads from cs to s, within one definition.
Read(s) ==
    /\ Reading
    /\ s # cs /\ Leads(s)
    /\ ~EndsDefinition
    /\ ~Broken(cs, reg)
    /\ pos' = pos + 1
    /\ cs' = s
    /\ reg' = Enter(Next1, Leave(cs, reg))
    /\ UNCHANGED <<input, file, defs, mode>>

\* The first lexeme after a definition.
ReadNextDefinition(s) ==
    /\ Reading
    /\ Leads(s)
    /\ EndsDefinition
    /\ IF Seen /\ file = 0 THEN Throw("duplicate")
       ELSE /\ pos' = pos + 1
            /\ cs' = s
            /\ Push
            /\ reg' = Enter(Next1, [reg EXCEPT !.nt = Null, !.rule = Null])
            /\ UNCHANGED <<input, file, mode>>

\* std::string throws.
ReadBroken(s) ==
    /\ Reading
    /\ s # cs /\ Leads(s)
    /\ Broken(cs, reg)
    /\ Throw("null")

\* Parse_Error
Reject ==
    /\ Reading
    /\ Next1.k # "comment"
    /\ \A s \in States : ~Leads(s)
    /\ Throw("error")

\* Variant: the end of a file does not push.
EndOfFileLazy ==
    /\ mode = "reading" /\ pos = Len(Source)
    /\ IF file < Len(input.texts)
         THEN /\ file' = file + 1 /\ pos' = 0
              /\ cs' = "top" /\ reg' = NoRegisters
              /\ UNCHANGED mode
         ELSE /\ mode' = "done"
              /\ UNCHANGED <<file, pos, cs, reg>>
    /\ UNCHANGED <<input, defs>>

\* No one asks whether the automaton is in a final state.  The next file has
\* a parser of its own.
EndOfFile ==
    /\ mode = "reading" /\ pos = Len(Source)
    /\ IF cs \in Complete /\ Seen /\ file = 0 THEN Throw("duplicate")
       ELSE /\ IF cs \in Complete THEN Push ELSE UNCHANGED defs
            /\ IF file < Len(input.texts)
                 THEN /\ file' = file + 1 /\ pos' = 0
                      /\ cs' = "top" /\ reg' = NoRegisters
                      /\ UNCHANGED mode
                 ELSE /\ mode' = "done"
                      /\ UNCHANGED <<file, pos, cs, reg>>
            /\ UNCHANGED input

Next ==
    \/ Comment \/ ReadBlank \/ Reject \/ EndOfFile
    \/ \E s \in States : Read(s) \/ ReadNextDefinition(s) \/ ReadBroken(s)

Spec == Init /\ [][Next]_vars

-----------------------------------------------------------------------------
TypeOK ==
    /\ input.texts \in Seq(Seq(Lexeme)) /\ input.says \in Seq(Seq(Definition))
    /\ Len(input.says) = Len(input.texts)
    /\ file \in 0..Len(input.texts)
    /\ pos \in 0..Len(Source)
    /\ cs \in States
    /\ reg \in Registers
    /\ defs \in Seq(Definition)
    /\ mode \in {"reading", "done", "error", "duplicate", "null"}

\* Where the code uses nt_, rule_ or ref_, each of which is moved from at
\* some point and created anew at another, the pointer is not null; and no
\* name is made of the half of type_ident that a comment left (TypeOK).
PointersValid ==
    /\ TypeOK
    /\ mode = "reading" =>
        /\ cs \in {"rhs_tag"} \cup Complete => reg.nt # Null
        /\ cs \in {"link_size", "fext", "comma", "close", "OF", "oftype"} \cup Complete
              => reg.rule # Null
        /\ cs \in {"link_ws", "link_size", "fname", "ftag", "ftype", "ftype_ws",
                   "fopt", "comma", "close"} => reg.ref # Null

-----------------------------------------------------------------------------
\* How definitions are written.  A keyword or a sign; a value, if there is one;
\* the identifier of a type and the name of a reference, if there is one.
Word(k) == <<[k |-> k, v |-> Null]>>
Value(k, x) == IF x = Null THEN <<>> ELSE <<[k |-> k, v |-> x]>>
Name(n) == CASE n = Empty     -> <<>>
             [] n \in Builtin -> Value("builtin", n)
             [] OTHER         -> Value("type", n)
FieldName(n) == IF n = Empty THEN <<>> ELSE Value("name", n)

ReferenceLexemes(r) ==
    FieldName(r.name) \o Value("tag", r.coord) \o Name(r.symbol)
    \o Value("size", r.cons) \o (IF r.opt THEN Word("OPTIONAL") ELSE <<>>)

RuleLexemes(rule) ==
    LET records == [SEQUENCE |-> "SEQUENCE", ALL |-> "SET", CHOICE |-> "CHOICE"]
        lists   == [LIST |-> "SEQUENCE", SET |-> "SET"]
        separator(k) == IF k = 1 THEN <<>> ELSE Word("comma")
    IN  CASE rule.type = "LINK" -> ReferenceLexemes(rule.refs[1])
          [] rule.type \in {"LIST", "SET"} ->
               Word(lists[rule.type]) \o Word("OF") \o ReferenceLexemes(rule.refs[1])
          [] OTHER ->
               Word(records[rule.type]) \o Word("brace")
               \o FlattenSeq([k \in DOMAIN rule.refs |->
                                 separator(k) \o ReferenceLexemes(rule.refs[k])])
               \o (IF rule.ext THEN Word("comma") \o Word("...") ELSE <<>>)
               \o Word("close")

Lexemes(d) == Name(d.name) \o Word("::=") \o Value("tag", d.coord)
              \o RuleLexemes(d.rule)

\* What a rule has by its type; a reference without a name has nothing else.
Formed(d) ==
    LET refs == d.rule.refs
    IN  CASE d.rule.type = "LINK" ->
               /\ ~d.rule.ext
               /\ \E n \in Ident \cup Builtin, c \in Constraint \cup {Null} :
                     refs = <<[NewReference(n) EXCEPT !.cons = c]>>
          [] d.rule.type \in {"LIST", "SET"} ->
               /\ ~d.rule.ext
               /\ \E n \in Ident \cup Builtin : refs = <<NewReference(n)>>
          [] OTHER ->
               \A k \in DOMAIN refs : IF refs[k].name = Empty
                                      THEN refs[k] = NewReference(Empty)
                                      ELSE refs[k].symbol # Empty

\* A definition that can be written: it has a name, and a record has references,
\* all of which have names.
Proper(d) ==
    /\ d.name # Empty
    /\ d.rule.type \in {"CHOICE", "SEQUENCE", "ALL"} =>
          /\ d.rule.refs # <<>>
          /\ \A k \in DOMAIN d.rule.refs : d.rule.refs[k].name # Empty

\* Lexemes but for blanks and comments; whether k is the next of them after
\* the i-th lexeme of t.
Solid(l)  == l.k \notin {"ws", "comment"}
Solids(t) == FlattenSeq([i \in DOMAIN t |-> IF Solid(t[i]) THEN <<t[i]>> ELSE <<>>])
NextSolid(t, i, k) ==
    LET rest == Solids(SubSeq(t, i + 1, Len(t))) IN rest # <<>> /\ rest[1].k = k

\* The text t declares ds, as a list of assignments or as a module.
Declares(t, ds) ==
    LET body == FlattenSeq([k \in DOMAIN ds |-> Lexemes(ds[k])])
    IN  /\ \A k \in DOMAIN ds : Formed(ds[k])
        /\ \/ Solids(t) \in {body, Word("header") \o body}
           \/ ds # <<>> /\ Solids(t) = Word("header") \o body \o Word("END")

\* A text in good order: there are blanks between lexemes, and no comment is in
\* front of "::=".
InOrder(t) ==
    \A i \in 1..Len(t) :
        /\ Solid(t[i]) /\ i < Len(t) => t[i + 1].k = "ws"
        /\ t[i].k = "comment" => ~NextSolid(t, i, "::=")

\* The definitions of ds, which t declares, that are pushed: the last one is
\* not where nothing is behind it.
Arriving(t, ds) ==
    IF t # <<>> /\ Solid(Last(t)) /\ Last(t).k # "END" THEN Front(ds) ELSE ds

\* The definitions of s but for those whose name was defined before.
FirstOfName(s) ==
    FlattenSeq([i \in DOMAIN s |-> IF \E j \in 1..i - 1 : s[j].name = s[i].name
                                   THEN <<>> ELSE <<s[i]>>])

-----------------------------------------------------------------------------
\* Texts in good order are read as what they declare, wherever they have
\* comments: the parser does not carry anything over from one reference, rule
\* or definition into the next, nor does the second reading of the first file.
\* Without a blank at the end of a text its last definition is not pushed.  Only
\* the first file must not define a name twice.
ReadsAsWritten ==
    LET arriving == [i \in DOMAIN input.texts |-> Arriving(input.texts[i], input.says[i])]
    IN  (/\ mode # "reading"
         /\ \A i \in DOMAIN input.texts :
               /\ InOrder(input.texts[i])
               /\ Declares(input.texts[i], input.says[i])
               /\ \A k \in DOMAIN input.says[i] : Proper(input.says[i][k]))
        => \/ mode = "done" /\ defs = FirstOfName(FlattenSeq(arriving))
           \/ /\ mode = "duplicate"
              /\ \E k \in DOMAIN arriving[1] : \E j \in 1..k - 1 :
                    arriving[1][j].name = arriving[1][k].name

\* Whatever the texts are, the grammar has one definition of a name at most, and
\* each has what a rule of its type has.
DefinitionsFormed ==
    \A k \in DOMAIN defs : /\ Formed(defs[k])
                           /\ \A j \in 1..k - 1 : defs[j].name # defs[k].name

\* Comments do not matter ("Comments are handled outside of this parser",
\* mini_parser.rl:41) as long as each has blanks around it.
CommentsInvisible ==
    (mode = "done" /\ \A i \in DOMAIN input.texts : \A j \in DOMAIN input.texts[i] :
        /\ Solid(input.texts[i][j]) =>
              j < Len(input.texts[i]) /\ input.texts[i][j + 1].k = "ws"
        /\ input.texts[i][j].k = "..." => NextSolid(input.texts[i], j, "close"))
    => defs = FirstOfName(FlattenSeq(input.says))
=============================================================================
