# A TLA+ model of libgrammar

libgrammar reads ASN.1 grammars into a graph of symbols, derives tags, answers
questions about it and prints it in other schema languages; `ged` is the
command line around it. This directory has TLA+ modules that model its core,
configurations that model-check them with TLC, and theorems about them whose
proofs TLAPS checks. `PROJECT.json` lists the runs, the mutants that show each
property can fail, the source lines of each definition, and the hazards.

Everything is sequential C++; no part runs concurrently. What is hard about it
is the ownership of symbols that move from object to object, the redundancy of
the container (six deques and maps, and pointers in both directions between
symbols and references), operations that throw half-way,
iterations to a fixed point with limits on graphs with cycles, orders taken from
hash tables, and the order of calls the classes silently require.

## The system

| Component | State | Operations | Correct when |
|---|---|---|---|
| `Grammar` container (`grammar/grammar.cc`, `.hh`) | `symbols_` (owns), `nts_`, `terminals_`, three maps by name, `axiom_`, `ignore_duplicates_`; per symbol its rule and `parents_`; per reference `symbol_` | `push`, `erase`, `init_links`, `set_axiom`, `set_nts`, `erase_unreachable_symbols`, moves, destructor | all pointers lead to live objects, the redundant ones agree, nothing leaks, and an erased symbol takes its references with it and nothing else |
| tag derivation (`derive_tags`) | coordinates of symbols and references | passes until nothing changes, 1000 at most | the result is that of the implicit tagging rules in any order of the non-terminals, and the limit stops no sane grammar |
| tag queries (`tag_closure`, `primitive_tags`, translations, name map) | sets local to the call | walk back over `parents()` | they find what the forward definitions say, and end |
| walks (`unreachable_symbols`, `effective_symbol`) | a stack and a set; one pointer | walk forward over `refs()` | what is returned is the exact complement of what the axiom reaches; the end of a chain of LINKs |
| `tsort` (`grammar/tsort.cc`) | edges, ordering | depth-first search of Boost, swap of the axiom, `set_nts` | each non-terminal comes before those its rule uses, and none is lost |
| `ged` (`ged/arguments.cc`) | one `Grammar`, seven settings and flags | one per argument | links are made once, in time, for all that is used |
| mini-ASN.1 parser (`grammar/asn1/mini_parser.rl`) | Ragel state, the rule and reference under construction, the grammar | `read` of a file, in sections between comments | what is pushed is what the file says |
| constraints (`grammar/grammar.cc`, `grammar/constraint`) | maps by kind, a tagged union | reading a constraint file, following its links, adding to references or making a map | each constraint reaches its reference once; the union has the member its tag says |
| printers (ASN.1, XSD, RelaxNG, Cap'n Proto, dot) | the symbol being printed, counters | one visitor each | the output refers only to what it defines and says what the grammar says; facets allow the values the constraints allow |

They interact by calls on the one `Grammar`: the parser takes it by move, pushes
into it and gives it back; `ged` then links it; the algorithms read links and
`parents_` (made by `init_links`, kept by `erase`) and write coordinates or the
order of the non-terminals; the printers read everything. Algorithms rely on the
container: walks follow `symbol_` and `parents_` without any check but for the
null pointer of a reference that was never linked, which throws.

## Modules

| Module | Models | |
|---|---|---|
| `SymbolGraph` | abstract specification: nodes with names, uses of names, edges, a dictionary | refined by `Grammar` and by `Moves` |
| `Grammar` | the container: allocated objects, deques (as sets), maps, links, `parents_` (as bags), the operations with all their early ends, the loop of `erase_unreachable_symbols`, the destructor | `MCGrammar`, `GrammarProofs` |
| `LinkedGrammar` | a grammar after `init_links` as a constant record, rules of implicit tagging, the end of a chain of LINKs, reference definitions | used by the seven below that read grammars |
| `DeriveTags` | `derive_tags`, a step per non-terminal visited and per pass | `MCDeriveTags`, `QueriesProofs` |
| `Moves` | `Grammar` objects that are moved into a `Parser`, out of it and back by `ged` and by `parse_files`, their construction, assignment and destruction, and the exceptions that end either function | `MCMoves`, `MovesProofs` |
| `TagQueries` | `tag_closure` and `primitive_tags`, a step per reference or round; the tag translations and the name map; `EXTENDS DeriveTags`, whose coordinates they read | `QueriesProofs` |
| `GraphWalks` | `unreachable_symbols` and `effective_symbol`, a step per symbol | `QueriesProofs` |
| `Queries` | `derive_tags`, tag queries and walks composed: queries on one grammar, after `derive_tags` or without it | `MCQueries`, `QueriesProofs` |
| `Tsort` | `tsort`, a step per vertex or edge of the search | `MCTsort`, `TsortProofs` |
| `Schemas` | the visits of the XSD, RelaxNG and Cap'n Proto printers, a step per symbol: what is defined and what is named | `SchemasProofs` |
| `Dot` | the dot printer, a step per reference and one per shape, beside those of `Schemas` | `MCSchemas`, `SchemasProofs` |
| `Parser` | the automaton of `mini_parser.rl` over lexemes, sections between comments, ends of files, `parse_files` | `ParserProofs` |
| `RoundTrip` | `Parser` composed with the ASN.1 printer (`asn1/grammar.cc`) as an operator, whose text is read again | `MCRoundTrip` |
| `Constraints` | `read_constraints`, `apply_link`, `add_constraints`, `make_constraint_map` and `Variant` | `ConstraintsProofs` |
| `Facets` | what XSD, RelaxNG and ASN.1 printers make of the constraints of `Constraints`, and what the parser reads of the ASN.1 again | `MCConstraints`, `ConstraintsProofs` |
| `Ged` | the arguments of `ged`: the three stages before a command, the commands, how the program ends | `MCGed`, `GedProofs` |
| `SmallGrammars` | generates the grammars the `MC` modules check | |

How state corresponds to code:

* `Grammar`: `Obj` are the addresses of symbols, `heap` says which are live,
  `kind` and `name` are fixed by the constructor. A reference is a pair
  `<<symbol, position>>`; `refs` are those in existence, `target` is
  `symbol_name_`, `link` is `symbol_`, and `parents[o][r]` counts how often `r`
  occurs in `parents_` of `o`. `phase` is `"open"`, `"thrown"` once `erase()` has
  thrown with the container half-way (only the destructor may follow), and
  `"destroyed"` after the destructor. `sweep` holds the names the loop of
  `erase_unreachable_symbols` has still to erase. `stray` is history: the symbol an
  `erase()` that threw had taken from `symbols_`, which no one owns from then on;
  `Moves` has one too, since `ged` ends there.
* The algorithms keep the names of their local variables: `has_changed`, `i`,
  `stack`, `seen`, `parents`, `all_parents`, `unreachable`, `s`, `ordering`, but for
  the limit and the counter of `tag_closure`, `most` and `looked`.
  `colour` and `left` in `Tsort` are the colour map and the edge iterators of
  Boost's search, which is external.
* `Parser`: `cs` is the state of the Ragel machine, named for what was read
  last; `Edges` is its transition relation with the blanks. `reg` holds the
  locals of `read_section` (`ident` is `type_ident`, `last` the text of the last
  name) and the members `nt_`, `rule_`, `ref_`, `coord_`, with `Null` for a
  pointer that was moved from. Actions of the machine on leaving a state run at
  the first character of what follows: `Leave` has these, `Enter` those that run
  inside a lexeme. `file` 0 is the first reading of the first file, which
  `parse_files` reads twice, with duplicates forbidden only the first time.
* `Moves`: `gr` has the members of each `Grammar` object: the local of `ged` or
  `parse_files`, the member of the parser, the temporary that `Parser::grammar()`
  returns; `alive` says which are between constructor and destructor, `heap` which
  symbols are allocated. `pc` follows the expression `g = parser.grammar()`: the
  temporary is made (`"returned"`), assigned (`"assigned"`) and destroyed, and
  `"leave"` is the end of the function, by return or by an exception, where the
  locals go in reverse order.
* `TagQueries`: `mode` is the function that runs, `answer` what the last one
  returned. The steps of `derive_tags` are those of `DeriveTags`; a query comes when
  it has not begun or is `"done"`, and none when it threw. `GraphWalks` is an
  instance in `Queries`, with results of its own.
* `Dot`: `file` is the sequence of statements written, `t_ref_counter` the member
  of that name, `todo.nts` and `pos` where the loops over rules and references are.
* `Constraints`: `v` is `Constraint::Vector`, `kind` and `left` the map a loop is
  in and what it has to visit yet; a `Variant` is a tag with the set of members of
  its union that are constructed. `Schemas`: `declared` and `used` are the names
  written so far as definitions and as uses.
* `Ged` keeps the members of `Arguments` by their names. The grammar is reduced
  to names; `linked` are the non-terminals `init_links` has linked. Four
  variables are history and marked so.
* `Facets`: `XsdFacets` and `RngFacets` are what the printers write. What they are
  compared with is not theirs: `Told` goes back to the lines of the file, `Rules` to
  all rules on the chain of LINKs.

Abstractions, and why they are sound for what is checked: the deques are sets
where no operation depends on their order (order matters in `DeriveTags` and
`Tsort`, which have it); where `init_links` throws, the part already linked is
any part, since no order is kept; a freed address is not allocated again, which
makes `NoDangling` stricter; the stacks of the walks are sets from which any
element comes next, which covers the order of the code; in the sweep of `Grammar` the walk is one step
and its order open: it returns when each name it meets is reached by a link from
somewhere, where the code may throw if it meets another reference first, so that the
model has all sweeps of the code and more; a rule in `Ged` is the
set of names it uses. Names are model values; comparing them is all the code
does. `derive_tags` and `-pp` in `Ged` may or may not fail for an unlinked rule,
since the tags that decide it are left out.

In `Parser` a lexeme is a word, a tag, a constraint, a run of blanks or a comment
as a whole, and the head of a module up to its first assignment is one lexeme:
what is in them is not kept by the parser or is kept verbatim. A lexeme is not
split by a comment, and numbers too large for their type are left out. In
`Constraints` a line is split into its fields already; memory may run out where a
member of a `Variant` is constructed and nowhere else. `Facets` has the constraints
of LINKs and fields, not those of what a list holds. `Schemas` leaves out
numbers of occurrences, key definitions, namespaces and the ordinals of
Cap'n Proto, which a local counter of one visit hands out; it assumes that a name
with `___base` appended and one with underscores for blanks are new names, which
is what the code hopes too (assumption `SchemasAssumption`).

`Moves` leaves out rules, which move with the symbols that own them, and
`Grammar` has; both refine the same graph of symbols. `parse_files` returns its
local by a move that is elided or like the others, so that the model destroys it
in its place. In `Queries` one query is asked of each grammar: queries only read
what is there. The name map runs three walks of `primitive_tags` one after the
other; the model has their results, each the one of a walk that is a query of its
own. In `Dot` a statement is a record; that Graphviz reads an unquoted name with
a hyphen, or one that is a keyword in any case, as no name is external.

## Runs

| Run | Question and result | Bounds |
|---|---|---|
| `grammar` | Does any order of operations break the container? No pointer dangles (`NoDangling`), `parents_` and links agree (`BackLinksExact`), links follow names (`LinksBindByName`), the deques and maps agree (`IndexesAgree`), when it is destroyed every symbol is freed, but for the one an `erase()` that threw had taken out (`LeakBounded`), the sweep takes exactly what is unreachable (`SweepExact`), and all is a refinement of `SymbolGraph` (`ImplementsGraph`) | 3 objects over a run, 3 names, rules of 2 references: enough for a symbol that uses itself, a pair that use each other with a third, and a shadowed duplicate |
| `derive_tags` | Is the result that of the rules, in any order, and in how many passes? `OrderIndependent`, `Settled`, `Terminates` (two passes per LINK and three) | all grammars of 3 non-terminals with LINKs, all of 2 with any rule; limits 3, 5, 7 and 9 on passes, each the bound for some grammars and too small for others |
| `moves` | Does each symbol have one owner, through all moves and exceptions? `OwnedOnce`: nothing is lost by an assignment or freed twice, and nothing leaks but the symbol of an `erase()` that throws; `DuplicatesIgnored`: the flag is there for each file but the first; `MovesUnseen`: to the client it is one graph of symbols | 3 objects over a run, 2 names, any number of files: enough for a symbol in the grammar, one being pushed and a duplicate |
| `queries` | Do the walks back find what the definitions going forward say? `ClosureCorrect`, `PrimitivesFound` (and no tag that none has), `NameMapCorrect`, `TranslationsInClosure`; `RestExact`: what is returned as unreachable is what no rule reached uses, and not more; `EffectiveCorrect`: the end of the LINKs; `QueriesAnswered`: all end unless a cycle of LINKs avoids the start | all grammars of 3 non-terminals with one reference, of 2 with two; limits 2 and 9 on `tag_closure`, below and above what they need, and 20 on the passes of `derive_tags`; one query per behaviour, since queries change nothing |
| `tsort` | Does it throw for cycles and nothing else (`ThrowsOnCycle`)? Is the result a permutation, and sorted where the axiom reaches all (`SortedFromAxiom`)? | all graphs of 3 non-terminals with two uses each at most, any axiom |
| `ged` | `LinkedOnce`, `LinksClosed`, `RulesKept`, `DefinedAfterRead`, `ConstraintsInPlace`, `LinkedInOrder`: the order of arguments cannot make links twice or leave them dangling, later files change no earlier rule, and with all files in front nothing fails for want of a link | 7 files over 3 non-terminals and a terminal, with duplicates, missing names, recursion, an empty rule; 2 constraint files; no bound on the number of arguments |
| `round_trip` | Does the grammar say what the files say? A pointer that is used is not null (`PointersValid`), texts in good order are read as what they declare, and a blank missing at the end costs the last definition of its text and no more (`ReadsAsWritten`), any text makes definitions that have what their types need, one per name (`DefinitionsFormed`), what is printed is read back as the same grammar or not at all (`SameReadBack`) | every form of rule alone and every pair of three forms, each with every form of blanks and comments in every single gap; two files with three definitions, the first a module or not, with its last blank or not, with a duplicate; `END` without the head of a module. One gap at a time is enough since a section keeps nothing but `reg` and `cs` |
| `constraints` | Do constraints arrive? `LinksFollowed`, `VariantsHold`, `ConstraintsAdded`: names get what their lines say, or what a name of their chain of links has, and which one where this does not depend on the hash table; a `Variant` is sound where a constructor throws, rules get all, or those before the name that fails. Do they survive the printers? `FacetsFaithful`: a value is valid in XSD just when the lines of the file and all rules on the way to the terminal allow it, each in its units, but for three cases, a lone `minLength`, a SIZE behind a LINK and one of an alias of BCDString, whose effect the property states exactly; RelaxNG agrees but for enumerated INTEGERs; `AsnKeepsLengths`: what is printed as ASN.1 keeps lengths and ranges or is rejected | all files of two lines on two of three names, all with two links between two lines; the rule of one name missing, empty, an alias, with a SIZE or without; one assignment between `Variant`s; values of lengths 0 to 4, around those of the bounds |
| `schemas` | Does a schema define what it names? `NamesResolve`; do defines recur through elements only, as RelaxNG demands? `RecursionInElements`; does a reader of the graph see the rules? `DotReadsBack` | schemas: all grammars of two non-terminals with two references at most, tagged or not, all of three untagged ones with one; a terminal with a blank in its name. Graph: all of two non-terminals with two references at most, any of them optional, two stop names, a name with a hyphen; with one reference at most a name that is a keyword |
| `tsort_islands` | violated (`TopologicallySorted`): the swap of the axiom spoils the order when it does not reach everything | as `tsort` |
| `ged_no_term` | violated (`NoTermFirst`): `-no-term` in front of `-ra` adds the terminals | as `ged` |
| `parser_comments` | violated (`CommentsInvisible`): a comment between an identifier and `::=` makes a definition without a name | as `round_trip` |

The type invariants of `Grammar`, `DeriveTags`, `Tsort`, `Moves` and `Ged` are proved;
`Parser` has its own in `PointersValid`, proved too.

The limits of 1000 in `derive_tags` and `tag_closure` are drawn from constant sets
(`Limits`, `ClosureLimits`), which the runs set below and above what their grammars
need. The runs disable the
deadlock check because a function that returned, a destroyed grammar and a
program that ended do nothing more.

Each property of a passing run has a mutant: a definition marked `Variant` in the
module stands for a plausible bug (a dropped check, a lost flag, a swap made
wrong), and with it TLC finds the property violated.

**Fairness.** The liveness properties (`Terminates` of `derive_tags`,
`QueriesAnswered`) assume weak fairness of the next-state relation of one
function: a sequential function that has a step to make makes it. `Queries` uses
it for the steps inside a query only (`TagStep`, `WalkStep`); no one has to ask, nor
to run `derive_tags` first. The other modules
state no liveness and assume no fairness: `Tsort`, `Parser`, `Constraints`,
`Schemas` and `Dot` run over finite input that each step uses up.

## Findings

* A comment between the identifier of an assignment and `::=` is not invisible,
  against `mini_parser.rl:41` (run `parser_comments`): `type_ident` is a local of
  `read_section`, which starts anew after a comment, and the non-terminal gets
  the empty name.
* `tsort` is not a topological sort where non-terminals are out of reach of the
  axiom, against `ged/arguments.cc:32` (run `tsort_islands`); after `-e` it is.
* `-no-term` takes effect after the terminals were added, against
  `ged/arguments.cc:49-51` (run `ged_no_term`). By the same order `-no-init`, or
  any other option in front of `-ra`, links an empty grammar, and `-e` or `-px`
  then fail with `Symbol link not initialized`.

Behaviour of the code that a reader may not expect, and that the models have as
it is:

* `primitive_tags` collects the tags of the non-terminals that lead to a terminal
  by LINKs, `tag_closure` those of a symbol and of the references that lead to it.
  They differ where a field has a tag of its own; the comparison in
  `ged/arguments.cc:83-87`, which is for TAP, is not one for every grammar.
* A definition is pushed at the first character after it, so that the last one of
  a file needs a blank behind it (`ReadsAsWritten`). `EXTENSIBILITY IMPLIED` is
  read and has no effect.
* `"..."` in the middle of a record pushes a reference without a name; a record of
  nothing but `"..."` is printed as a text that is not read again
  (`SameReadBack`).
* With chains of links in a constraint file the result depends on the order of
  the hash table (`LinksFollowed`); `minLength` alone makes a `Size` with maximum
  0, so that a schema allows no value with such a length but 0 (`FacetsFaithful`).
* `add_constraints` adds to the constraints of the grammar. Lengths from both become
  two facets of one kind, which XSD forbids (`FacetsFaithful`); in ASN.1 they are
  separated by commas and not read again (`AsnKeepsLengths`).
* XSD and RelaxNG restrict the terminal at the end of the LINKs, with the
  constraints of the first LINK only: the SIZE of a rule behind it is lost. A SIZE
  of BCDString is doubled, in digits, where the reference is to that name; one of
  an alias is printed in bytes (`FacetsFaithful`).
* The symbol of an `erase()` that throws, for a reference of its rule without a
  link, leaks: it was taken from `symbols_` before (`LeakBounded`, `OwnedOnce`). `ged`
  gets there with `-e` after a late `-ra`, and ends.
* The dot printer writes the name in front of a shape without quotes: with a
  non-terminal such as `Foo-Bar`, not a LINK, Graphviz rejects the file, and with one
  such as `Node` the shape becomes a default (`DotReadsBack`).
* XSD: an untagged CHOICE is a group and dangles where it is the type of an
  element; the alternatives of an axiom that is one keep blanks in their names.
  Cap'n Proto: a LIST in a LIST names a struct that is not printed
  (`NamesResolve`).

What the models require of clients, and the code does not check: `init_links` at
most once (`ged` keeps to it: `LinkedOnce`); after an `erase` that threw only the
destructor; `axiom()` only while there is one (`DefinedAfterRead`); a rule with a
reference where `front()` is taken.

## Theorems

All are safety properties, proved for every number of symbols, names, references
and every grammar that satisfies the assumptions of the module (`IsGrammar`,
names and objects distinct from `Null`).

* `GrammarProofs`. `IInv` strengthens the checked invariants: besides typing it
  has the two-way agreement of `refs`, `link` and `parents`, of heap, deques and
  maps, that names are bound once, and what is left after an abandoned operation.
  None of the checked invariants is inductive alone: that `erase` leaves no
  dangling link needs `BackLinksExact`, which for its part needs `LinksBindByName`
  to know that two symbols are never linked under one name, and that needs
  `MapsAgree`, a half of `IndexesAgree`. One lemma per operation, one step per conjunct it disturbs. From
  `IInv` follow all safety invariants of the run and that each step maps to a step
  of `SymbolGraph` or a stutter (`Refinement`); `LeakExact` rests on `OneStray`, which
  says that the symbol taken out is the only one that lives without an owner. For the loop of
  `erase_unreachable_symbols` `Sweeping` is added: what the walk follows is linked,
  so that `Reached` is closed (`ReachedClosed`), and no name that waits is reached.
  An `erase` then takes nothing from the symbols reached, which stay the same
  symbols (`DestroySpares`), so that the names found before the loop are right until
  its end (`SweepCorrect`).
* `MovesProofs`. `Inv` says that at most one `Grammar` has any members, the one
  that holds the grammar at this point of the program (`Current`), and that the
  heap is what it owns and the stray symbol. A move between two objects of which only one has members
  is then a renaming, the assignment finds its target empty, and every step that
  moves or destroys leaves the graph of symbols as it is (`Refinement`). What is lost
  is then known exactly (`LostExactly`).
* `TsortProofs`. The argument of depth-first search: the stack is a path
  (`OnPath`), followed edges lead to finished vertices or up the path
  (`Followed`), a finished vertex uses only earlier finished ones
  (`UsesFinished`). An edge into the stack closes a cycle; at the end the vertex
  of a cycle that finished first has nothing to use (`FinishedAcyclic`). When the
  axiom reaches all it finishes last, so that the swap does nothing
  (`AxiomLast`).
* `GedProofs`. `Inv` ties the flags to what was done: before the links are made
  nothing is linked and no command runs (`LinksByFlag`); with all files in front
  all that was read is linked (`AllLinked`); the constraint file that waits is the
  one of `constraints_filename` (`Waiting`). `Reached` is closed under use, so that
  `-e` takes whole rules and the axiom stays; that the first definition read is
  the axiom rests on the least element of a set of numbers, which the
  well-foundedness of `<` gives. All safety properties of the run follow.
* `QueriesProofs`, first about `derive_tags`. Coordinates are set once (`Own`), only
  where the rules of implicit tagging give them (`Justified`), and a pass that
  changes nothing has seen each item as it is at the end (`Quiet`). Hence the
  result satisfies the rules (`EndsSettled`), and any assignment that does agrees
  with it where it is set (`OnlyForcedTags`). The reference definition `Resolve` is
  a recursive function over rounds; that it has a value for each round, and stops
  changing by the last, is a counting argument over the items that get coordinates.
  It is a solution and agrees with any other, so that `derive_tags` ends with it in
  every order (`Deterministic`).
* `QueriesProofs`, then about the queries. `QInv` is `IInv` of `derive_tags` with one
  conjunct per query. `Closes`: all that `tag_closure` has found belongs to the
  answer, and what is missing is reached from the stack. `Climbs`: likewise for the
  aliases of terminals and the last round. `Follows`: the end of the chain is the
  same from the symbol that is looked at as from the start. `Walks`: what has been
  met is in every closed set, and all that the rules of met symbols use is met, but
  for what is still to do. `Translates`: the names are those of the tags as they
  are. The answers are compared with sets of chains of LINKs that a recursion over
  rounds computes; what the proofs know of them is that a chain is closed
  (`ChainCloses`), is in every closed set (`ChainLeast`), and has one end or none
  (`EndSolves`). All answers are exact, for cyclic grammars too.
* `ConstraintsProofs`. `OneMember`: a `Variant` has constructed the member its tag
  names and no other, also after an assignment that threw. `MapSoFar` and
  `RefsSoFar` say what the loops over the hash tables have done, in any order: the
  names visited have what all kinds so far give them, the rest what the kinds
  before give (`NextExpected`). Hence `VariantsHold` and `ConstraintsAdded`, for any
  number of names, lines and links.
  `Learned` is about what is in the maps: while the file is read, what the lines so
  far say, which each line extends in its own way (`ReadSoFar`); while links are
  followed, a value that a name of the chain has, the final one for names visited
  and where nothing is linked (`LinkedSoFar`). Hence `LinksFollowed`. On top of both
  the constraints of a rule are known one by one, and with them each facet and each
  text that is read again: `FacetsFaithful` and `AsnKeepsLengths` are then about
  lengths and bounds, not about sequences (`FacetsExact`, `AsnExact`). The map is
  compared with the lines bound by bound (`LengthsTold`, `RangeTold`), and the SIZE
  that is printed with those of the rules (`OwnRule`, `RuleAlone`).
* `SchemasProofs`. `Printed`: what a visit defines and names depends on the grammar
  alone, so that the schema has so far what the visited symbols give, and a visit
  that was made had a way to return. A complete schema thus has what all symbols
  give, and for each form of schema the names without definition are computed from
  the types of rules and the ends of LINKs (`XsdResolves`, `CapnpResolves`;
  `NamesExact`). `Nested`: a define names another outside of elements only when it is
  a list and the other a CHOICE, and a CHOICE is no list (`RecursionExact`).
  For the graph `DotInv` counts: a rule that waits has no edges, the one being
  printed those of the references before `pos`, a printed one all (`Edges`); the
  n-th edge stands for the n-th reference, by the name of its node or by the label
  of it, and no two labels or shapes are about one node (`Labels`, `ShapesOf`), which
  numbers handed out only once give. Edges are counted, so that the proof rests on
  a new edge being the last of its rule (`OneMoreEdge`). From a finished file all is
  then read back (`DotExact`).
* `ParserProofs`, first whatever is read. Which of `ident`, `nt_`, `rule_` and
  `ref_` are there depends on the state of the automaton (`Pointers`). The edges
  keep the order in which the pointers are made (`EdgeOrder`), so that the actions
  on leaving a state find what they need (`LeaveTyped`) and those on entering one
  too (`EnterTyped`). `Making` says in the same way what the rule in the making has
  so far; with it what is pushed has what a rule of its type has, whatever the
  text (`DefinitionsInOrder`).
* `ParserProofs`, then texts in order. Read backwards, a text is the forms of its
  parts, each in front of the rest (`RefThen`, `RuleThen`, `DefThen`); the flattened
  sequences of a record or a text are functions of the place they begin at
  (`Remainders`, `Items`, `Body`). `At` says for each state of the automaton that what
  the registers have, together with what is still to be read, is the definition
  of this place. One lexeme keeps it (`DefStep`); blanks do (`AtBlank`), and so does
  a comment, which clears `type_ident` and `last`: `At` needs them only in front of `::=`
  and where a lexeme has just set them (`AtForgets`). A definition that is complete is the one declared
  (`Completed`), and where the machine finds no edge a declared definition was not
  one that can be written (`Progress`). `Stage` adds what was pushed: the
  definitions of the earlier files (`Base`) and of this one so far, those whose name
  is new. `RInv` is an invariant by one lemma for each way a step goes on, from
  `StageBlank` to `StageDuplicate`; the second reading of the first file pushes
  nothing new (`FirstOfAgain`). Hence `TextsReadAsWritten`.
* `ParserProofs`, at last the printer. What it writes consists of pieces of which
  the lexemes and what may stand at the ends are known (`Piece`, `PieceConcat`). It
  puts no blank between a reference and the comma behind it, so that its text is not
  in order as `InOrder` has it; `At` is therefore kept for the wider `Spaced`, where a comma may
  follow a name, a constraint or `OPTIONAL` at once. `PrintedText`: for any
  definitions that are formed, so for all that were read (`DefinitionsInOrder`), it
  is a text that declares them, with a blank at its end. That it is read as the
  same grammar (`PrintedReadBack`) is then an instance of the same invariant.

What the proofs assume are the assumptions of the modules: a grammar is finite and
linked, its references have positions from 1 on, and a rule with references has
one at position 1 (`IsGrammar`, `SchemasAssumption`); a grammar that is drawn has
each rule once and numbers references without gaps (`DotAssumption`); `None` and
`Null` are neither names nor values; lengths are natural numbers; the names a
printer makes up are new names. TLC evaluates each of them in the runs.

Every invariant of the passing runs is proved. Only model-checked: liveness and
the bound on passes, since the prover has no fairness reasoning and the measure is
a recursion over chains of LINKs. The texts of the runs, and that `Spread` and the
other operators of `MCRoundTrip` build such as `Declares` and `InOrder` ask for, are
not in the theorems, which hold for any texts for which these are true.

## Not modelled

Not modelled: the wording of what the printers write, namespaces and comments
(`xml/printer.cc`), numbers of occurrences, ordinals and key definitions, which are
copied from a file; the output streams of `ged`, one per argument, closed at the
next one; `version` and the tables of `tap`, which are constants; characters below
lexemes in `Parser`, with conversions of numbers that `lexical_cast` rejects. The
visitors and accessors of `grammar.hh` do nothing of their own.
