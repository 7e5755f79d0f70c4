---------------------------- MODULE SmallGrammars ----------------------------
(***************************************************************************)
(* Generates the small grammars the algorithms are checked on: all those   *)
(* with given symbols, rule types, rule lengths and own coordinates.       *)
(***************************************************************************)
EXTENDS Integers, Sequences

CONSTANT None

Rules(S, maxLen) == UNION {[1..k -> S] : k \in 0..maxLen}

\* A non-terminal: the type of its rule, the symbols the rule names, its own
\* coordinates and those of its first reference.  The rule of a LINK names
\* one symbol, any other at most maxLen.
Declarations(S, types, maxLen, tags, refTags) ==
    LET own == tags \cup {None}
        first == refTags \cup {None}
    IN  {d \in [type : types \ {"LINK"}, uses : Rules(S, maxLen),
                tag : own, first : first] : Len(d.uses) = 0 => d.first = None}
        \cup [type : types \cap {"LINK"}, uses : [1..1 -> S],
              tag : own, first : first]

\* The grammar with the non-terminals of the sequence nts, declared by D, and
\* the terminals in the domain of tTag, which gives their coordinates.
Build(nts, tTag, D) ==
    LET N == {nts[k] : k \in DOMAIN nts}
        R == UNION {{n} \X DOMAIN D[n].uses : n \in N}
    IN  [order |-> nts, terminals |-> DOMAIN tTag, axiom |-> nts[1],
         type  |-> [n \in N |-> D[n].type],
         to    |-> [r \in R |-> D[r[1]].uses[r[2]]],
         tag   |-> [x \in N \cup DOMAIN tTag \cup R |->
                      IF x \in N THEN D[x].tag
                      ELSE IF x \in DOMAIN tTag THEN tTag[x]
                      ELSE IF x[2] = 1 THEN D[x[1]].first ELSE None]]

AllGrammars(nts, tTag, types, maxLen, tags, refTags) ==
    LET N == {nts[k] : k \in DOMAIN nts}
    IN  {Build(nts, tTag, D) :
           D \in [N -> Declarations(N \cup DOMAIN tTag,
                                    types, maxLen, tags, refTags)]}
=============================================================================
