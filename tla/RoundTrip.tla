------------------------------ MODULE RoundTrip ------------------------------
(***************************************************************************)
(* The parser and the printer of ASN.1, asn1/grammar.cc: what was read is  *)
(* printed and the text read again.                                        *)
(***************************************************************************)
EXTENDS Parser

VARIABLE printed    \* whether the input is what the printer wrote

-----------------------------------------------------------------------------
Blank == Word("ws")

Coordinates(x) == IF x = Null THEN <<>> ELSE Value("tag", x) \o Blank

\* operator<<(Printer &, const Reference &)
PrintReference(r) ==
    (IF r.name = Empty THEN <<>> ELSE FieldName(r.name) \o Blank)
    \o Coordinates(r.coord) \o Name(r.symbol)
    \o (IF r.cons = Null THEN <<>> ELSE Blank \o Value("size", r.cons))
    \o (IF r.opt THEN Blank \o Word("OPTIONAL") ELSE <<>>)

\* Variant: the marker is forgotten.
PrintRecordClosed(rule, word) ==
    LET separator(k) == IF k = 1 THEN <<>> ELSE Word("comma") \o Blank
    IN  Word(word) \o Blank \o Word("brace") \o Blank
        \o FlattenSeq([k \in DOMAIN rule.refs |->
                          separator(k) \o PrintReference(rule.refs[k])])
        \o Blank \o Word("close")

\* print_record()
PrintRecord(rule, word) ==
    LET separator(k) == IF k = 1 THEN <<>> ELSE Word("comma") \o Blank
    IN  Word(word) \o Blank \o Word("brace") \o Blank
        \o FlattenSeq([k \in DOMAIN rule.refs |->
                          separator(k) \o PrintReference(rule.refs[k])])
        \o (IF rule.ext THEN Word("comma") \o Blank \o Word("...") ELSE <<>>)
        \o Blank \o Word("close")

\* print_of()
PrintOf(rule, word) ==
    Word(word) \o Blank \o Word("OF") \o Blank
    \o (IF rule.refs = <<>> THEN <<>> ELSE PrintReference(rule.refs[1]))

PrintLink(rule) ==
    IF rule.refs = <<>> THEN <<>>
    ELSE Name(rule.refs[1].symbol)
         \o (IF rule.refs[1].cons = Null THEN <<>>
             ELSE Blank \o Value("size", rule.refs[1].cons))

PrintRule(rule) ==
    CASE rule.type = "LINK"     -> PrintLink(rule)
      [] rule.type = "CHOICE"   -> PrintRecord(rule, "CHOICE")
      [] rule.type = "SEQUENCE" -> PrintRecord(rule, "SEQUENCE")
      [] rule.type = "ALL"      -> PrintRecord(rule, "SET")
      [] rule.type = "LIST"     -> PrintOf(rule, "SEQUENCE")
      [] rule.type = "SET"      -> PrintOf(rule, "SET")

PrintNT(d) ==
    Name(d.name) \o Blank \o Word("::=") \o Blank
    \o Coordinates(d.coord) \o PrintRule(d.rule)

\* operator<<(Printer &, const Grammar &)
PrintGrammar(s) ==
    FlattenSeq([k \in DOMAIN s |-> PrintNT(s[k]) \o Blank])

-----------------------------------------------------------------------------
RoundTripInit == Init /\ printed = FALSE

Parse == Next /\ UNCHANGED printed

\* The grammar is printed, and a new parser reads the text.
PrintAndReadBack ==
    /\ mode = "done" /\ ~printed
    /\ input' = [texts |-> <<PrintGrammar(defs)>>, says |-> <<defs>>]
    /\ printed' = TRUE
    /\ file' = 1 /\ pos' = 0 /\ cs' = "top" /\ reg' = NoRegisters
    /\ defs' = <<>>
    /\ mode' = "reading"

RoundTripNext == Parse \/ PrintAndReadBack

RoundTripSpec ==
    RoundTripInit /\ [][RoundTripNext]_<<vars, printed>>

-----------------------------------------------------------------------------
\* What the parser made of a text can be printed and read again, with the same
\* result, unless a name was lost or a record has nothing but "...": then
\* (and only then) the text printed is no longer ASN.1.  It is never read as
\* another grammar (the test "identity").
SameReadBack ==
    printed => /\ mode = "done" => defs = input.says[1]
               /\ mode \notin {"duplicate", "null"}
               /\ mode = "error" =>
                     \E k \in DOMAIN input.says[1] : ~Proper(input.says[1][k])
               /\ mode = "done" =>
                     \A k \in DOMAIN input.says[1] : Proper(input.says[1][k])
=============================================================================
