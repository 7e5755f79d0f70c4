------------------------------- MODULE Facets --------------------------------
(***************************************************************************)
(* What becomes of constraints in print: the facets of simple types in     *)
(* XSD and RelaxNG (grammar/xml/xsd.cc, rng.cc), and the text in ASN.1     *)
(* (asn1/grammar.cc) with what the parser reads from it.  A Size of the    *)
(* grammar counts bytes, one of a constraint file the characters of the    *)
(* XML; for the two digits in each byte of a BCDString it is doubled.      *)
(***************************************************************************)
EXTENDS Constraints

CONSTANTS
    BCDString, INTEGER, \* terminals the printers tell by name
    Lengths             \* lengths of values

ASSUME LengthsAssumption == Lengths \subseteq Nat

\* The symbol at the end of the LINKs from n, which form no cycle.
EndOfLinks(n) ==
    LET f[k \in 0..Cardinality(Name)] ==
          IF k = 0 THEN n
          ELSE IF f[k - 1] \in Name /\ g[f[k - 1]].type = "link"
                 THEN g[f[k - 1]].to ELSE f[k - 1]
    IN  f[Cardinality(Name)]

\* The LINKs that become simple types.
Simple(n) == g[n].type = "link" /\ EndOfLinks(n) \in Terminal

-----------------------------------------------------------------------------
Facet(name, value) == <<[facet |-> name, value |-> value]>>

\* Variant of the code: what counts is the name alone.
FactorByName(c, symbol_name) == IF symbol_name = BCDString THEN 2 ELSE 1

\* symbol_name is that of the reference, not that of the effective symbol.
Factor(c, symbol_name) ==
    IF c.source = "ASN1" /\ symbol_name = BCDString THEN 2 ELSE 1

\* The facets of one constraint.
FacetsOf(c, symbol_name) ==
    LET k == Factor(c, symbol_name)
        bound(name, b) == IF b = None THEN <<>> ELSE Facet(name, b)
    IN  CASE c.kind = Size    -> Facet("minLength", k * c.value.min)
                                   \o Facet("maxLength", k * c.value.max)
          [] c.kind = Enum    -> [i \in DOMAIN c.value |->
                                   [facet |-> "enumeration", value |-> c.value[i]]]
          [] c.kind = Pattern -> Facet("pattern", c.value)
          [] c.kind = Domain  -> bound("minInclusive", c.value.min)
                                   \o bound("maxInclusive", c.value.max)

\* The facets of the constraints cs, by constraint and place.
AllFacets(cs, symbol_name) ==
    [p \in UNION {{i} \X DOMAIN FacetsOf(cs[i], symbol_name) : i \in DOMAIN cs} |->
       FacetsOf(cs[p[1]], symbol_name)[p[2]]]

\* The restriction of n with the constraints cs in XSD ...
XsdFacets(n, cs) == AllFacets(cs, g[n].to)

\* ... and in RelaxNG, where an INTEGER that begins with an Enum is a <choice> of
\* its values.
RngFacets(n, cs) ==
    IF EndOfLinks(n) = INTEGER /\ cs # <<>> /\ cs[1].kind = Enum
      THEN AllFacets(<<cs[1]>>, INTEGER)
      ELSE XsdFacets(n, cs)

-----------------------------------------------------------------------------
\* Variant of the code: a range is printed by its first number.
PrintedFirst(c) ==
    CASE c.kind = Size -> <<[c EXCEPT !.value.max = c.value.min]>>
      [] c.kind = Domain -> <<c>>
      [] OTHER -> <<>>

\* What is left of one constraint as text: a Size and a Domain, but the other
\* kinds print nothing; nor does the text tell the source.
Printed(c) == IF c.kind \in {Size, Domain} THEN <<[c EXCEPT !.source = "ASN1"]>>
              ELSE <<>>

Rejected == <<[kind |-> 0]>>

\* A LINK may have one SIZE between its parentheses, which are printed with
\* commas for any number of constraints.
ReadLinkBack(cs) ==
    IF cs = <<>> THEN <<>>
    ELSE IF Len(cs) = 1 /\ cs[1].kind = Size THEN Printed(cs[1])
    ELSE Rejected

\* A field may have one, a SIZE or a range with both ends; those that print
\* nothing leave blanks.
ReadFieldBack(cs) ==
    LET shown == {i \in DOMAIN cs : Printed(cs[i]) # <<>>} IN
    IF shown = {} THEN <<>>
    ELSE LET i == Min(shown) IN
         IF shown = {i} /\ None \notin {cs[i].value.min, cs[i].value.max}
           THEN Printed(cs[i])
           ELSE Rejected

ReadBack(n) == IF g[n].type = "link" THEN ReadLinkBack(refs[n])
               ELSE ReadFieldBack(refs[n])

-----------------------------------------------------------------------------
\* The values of a simple type, as far as facets tell them apart.
Values == [len : Lengths, num : Number, str : Str, matches : SUBSET Str]

\* A validator: all bounds, one of the values, one of the patterns.
Valid(x, facets) ==
    LET of(name) == {facets[i].value : i \in {j \in DOMAIN facets :
                                                facets[j].facet = name}}
    IN  /\ \A b \in of("minLength") : b <= x.len
        /\ \A b \in of("maxLength") : x.len <= b
        /\ \A b \in of("minInclusive") : b <= x.num
        /\ \A b \in of("maxInclusive") : x.num <= b
        /\ of("enumeration") # {} => x.str \in of("enumeration")
        /\ of("pattern") # {} => of("pattern") \cap x.matches # {}

Within(y, b) == (b.min = None \/ b.min <= y) /\ (b.max = None \/ y <= b.max)

\* The name whose lines of kind k are those for n, at the end of links of the file
\* or n itself: which one, LinksFollowed tells.
Behind(k, n) == CHOOSE m \in Chain(n) : Says(k, m) = v[k][n]

\* The bound the last line of this type sets, None without such a line.
Bound(m, type) == LastOf(Len(file), m, type, None)

\* What the lines for n say of its values, in characters of the XML.
Told(n) ==
    LET length == Behind(Size, n)  range == Behind(Domain, n) IN
    [len     |-> [min |-> Bound(length, "minLength"), max |-> Bound(length, "maxLength")],
     num     |-> [min |-> Bound(range, "minInclusive"), max |-> Bound(range, "maxInclusive")],
     enum    |-> Says(Enum, Behind(Enum, n)),
     pattern |-> Says(Pattern, Behind(Pattern, n))]

FileAllows(told, x) ==
    /\ Within(x.len, told.len)
    /\ Within(x.num, told.num)
    /\ told.enum # None => \E i \in DOMAIN told.enum : x.str = told.enum[i]
    /\ told.pattern # None => told.pattern \in x.matches

\* The rule of n and those its LINKs lead to, one after the other.
Rules(n) ==
    {m \in Name : \A S \in SUBSET Name :
        (n \in S /\ \A a \in S : g[a].type = "link" => g[a].to \in S \cup Terminal)
          => m \in S}

\* The values of n are digits, two in each of the bytes a SIZE counts.
Digits(n) == \E m \in Rules(n) : g[m].type = "link" /\ g[m].to = BCDString

\* What the SIZE of the rule m says of the values of n.
RuleAllows(m, n, x) ==
    LET s == g[m].size
        k == IF Digits(n) THEN 2 ELSE 1
    IN  s # None => Within(x.len, [min |-> k * s.min, max |-> k * s.max])

\* All SIZEs on the way to the terminal count.
GrammarAllows(n, x) == \A m \in Rules(n) : RuleAllows(m, n, x)

\* A value is valid in the schema just when the file and the grammar allow it,
\* with three exceptions.  Where the file has a minLength without a maxLength,
\* only the empty value is left of what it allows.  A SIZE of a rule that the
\* LINKs lead to is lost.  The SIZE of a LINK to an alias of BCDString counts
\* digits, not bytes.  RelaxNG agrees but for an INTEGER with an enumeration,
\* which has no other facets.
\* No bound is there twice, which is an error in XSD, unless the lengths are in
\* the grammar and in the file.
FacetsFaithful ==
    pc = "added" => \A n \in {m \in DOMAIN refs : Simple(m)} :
        LET xsd == XsdFacets(n, refs[n])
            rng == RngFacets(n, refs[n])
            told == Told(n)
            lone == told.len.min # None /\ told.len.max = None
            lost == \E m \in Rules(n) \ {n} : g[m].size # None
            alias == g[n].size # None /\ Digits(n) /\ g[n].to # BCDString
            names == {"minLength", "maxLength", "minInclusive", "maxInclusive"}
        IN  /\ ~lone /\ ~lost /\ ~alias => \A x \in Values :
                  Valid(x, xsd) <=> FileAllows(told, x) /\ GrammarAllows(n, x)
            /\ \A x \in Values : Valid(x, xsd) <=>
                  /\ FileAllows(told, x)
                  /\ lone => x.len = 0
                  /\ RuleAllows(n, n, IF alias THEN [x EXCEPT !.len = 2 * @] ELSE x)
            /\ rng # xsd =>
                  /\ EndOfLinks(n) = INTEGER /\ told.enum # None
                  /\ \A x \in Values :
                        Valid(x, rng) <=> \E i \in DOMAIN told.enum : x.str = told.enum[i]
            /\ (\E i, j \in DOMAIN xsd : i # j /\ xsd[i].facet = xsd[j].facet
                                         /\ xsd[i].facet \in names)
                  <=> g[n].size # None /\ told.len # [min |-> None, max |-> None]

\* What is printed as ASN.1 and read again has the same lengths and ranges, or is
\* rejected; only a field loses patterns and enumerations silently.  Lengths from
\* a file pass for those of the grammar then, and change for a BCDString.
AsnKeepsLengths ==
    pc = "added" => \A n \in DOMAIN refs :
        LET b == ReadBack(n)
            kept == {i \in DOMAIN refs[n] : refs[n][i].kind \in {Size, Domain}}
            pairs(cs, I) == {<<cs[i].kind, cs[i].value>> : i \in I}
        IN  IF b = Rejected THEN \E k \in Kinds : v[k][n] # None
            ELSE /\ pairs(b, DOMAIN b) = pairs(refs[n], kept)
                 /\ Len(b) = Cardinality(kept)
                 /\ g[n].type = "link" => kept = DOMAIN refs[n]
                 /\ Simple(n) =>
                      (\A x \in Values : Valid(x, XsdFacets(n, b))
                                           <=> Valid(x, XsdFacets(n, refs[n])))
                        \/ (g[n].to = BCDString /\ v[Size][n] # None)
=============================================================================
