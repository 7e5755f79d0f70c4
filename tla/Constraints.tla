----------------------------- MODULE Constraints -----------------------------
(***************************************************************************)
(* Constraint files: read_constraints() reads one line by line and then    *)
(* follows its links; the result goes to the first references of the       *)
(* rules it names (add_constraints()), or into a map from names to         *)
(* Variants (make_constraint_map()), whose owner may assign one Variant to *)
(* another.  All loops but the one over the lines run over hash tables, in *)
(* any order.  Lines with less than three fields do nothing and are left   *)
(* out, and so are the errors of numbers.                                  *)
(***************************************************************************)
EXTENDS Naturals, Sequences, SequencesExt, FiniteSets

CONSTANTS
    Name,       \* names of non-terminals
    Number, Str,\* values of lines
    Files,      \* constraint files: sequences of lines
    Terminal,   \* names of terminals
    Grammars,   \* what the grammar has for each name
    MaxMoves,   \* bound on the assignments between Variants
    None

\* The maps of Constraint::Vector, by the tags of Variant.
Enum == 1  Domain == 2  Size == 3  Pattern == 4
Kinds == 1..4

Line == [nt : Name, type : {"pattern", "enumeration"}, value : Str]
        \cup [nt : Name, type : {"minInclusive", "maxInclusive", "minLength",
                                 "maxLength"}, value : Number]
        \cup [nt : Name, type : {"link"}, value : Name]
        \cup [nt : Name, type : {"other"}, value : Str]

Bounds == [min : Number \cup {0}, max : Number \cup {0}]

\* The rule of a name: none, one without references, a LINK or a record; the
\* symbol and the SIZE of its first reference.
Rule == [type : {"unknown", "bare"}, to : {None}, size : {None}]
        \cup [type : {"link", "record"}, to : Name \cup Terminal,
              size : Bounds \cup {None}]

ASSUME ConstraintsAssumption ==
    /\ Files \subseteq Seq(Line)
    /\ Grammars \subseteq [Name -> Rule]
    /\ Number \subseteq Nat
    /\ None \notin Name \cup Nat \cup Str \cup Terminal
    /\ None \notin Seq(Str) \cup Bounds
                    \cup [min : Number \cup {None}, max : Number \cup {None}]
    /\ Terminal \cap Name = {}

VARIABLES
    file, pos,  \* the lines, and how many were read
    v,          \* the Vector: for each kind and name, what was read, or None
    links,      \* the name each name is linked to, or None
    pc,         \* "read", "link", "add", "added" or "map", "mapped";
                \* "undefined"; thrown: "type", "name", "memory"
    kind, left, \* the map a loop is in; the names it has still to visit
    g,          \* the grammar
    refs,       \* the constraints of the first reference of each rule
    r,          \* the Variant of each name
    moves       \* assignments between Variants

vars == <<file, pos, v, links, pc, kind, left, g, refs, r, moves>>

-----------------------------------------------------------------------------
\* Variant: a tag, and the members of the union that are constructed.
Variants == [tag : Kinds \cup {0}, alive : SUBSET Kinds]
EmptyVariant == [tag |-> 0, alive |-> {}]

\* Variant of the code: the tag is left as it was.
DestructMember(x) == [tag |-> x.tag, alive |-> x.alive \ {x.tag}]

\* destruct()
Destruct(x) == [tag |-> 0, alive |-> x.alive \ {x.tag}]

\* operator=() with a value of kind k: a member of this kind is assigned to,
\* another one makes room for it.
Assigned(x, k) ==
    IF x.tag = k THEN x
    ELSE [tag |-> k, alive |-> Destruct(x).alive \cup {k}]

\* The constructor of the new member throws.
AssignedHalf(x, k) == IF x.tag = k THEN x ELSE Destruct(x)

-----------------------------------------------------------------------------
\* A constraint as the parser made it from the text of the grammar.
Own(n) == IF g[n].size = None THEN <<>>
          ELSE <<[kind |-> Size, value |-> g[n].size, source |-> "ASN1"]>>

Init ==
    /\ file \in Files /\ pos = 0
    /\ v = [k \in Kinds |-> [n \in Name |-> None]]
    /\ links = [n \in Name |-> None]
    /\ pc = "read"
    /\ kind = 0 /\ left = {}
    /\ g \in Grammars
    /\ refs = [n \in {m \in Name : g[m].type \in {"link", "record"}} |-> Own(n)]
    /\ r = [n \in Name |-> [var |-> EmptyVariant, value |-> None]]
    /\ moves = 0

Keep == UNCHANGED <<file, g>>

\* emplace() does not replace.
ReadPattern(l) ==
    /\ l.type = "pattern"
    /\ v' = [v EXCEPT ![Pattern][l.nt] = IF @ = None THEN l.value ELSE @]
    /\ UNCHANGED links

ReadEnum(l) ==
    /\ l.type = "enumeration"
    /\ v' = [v EXCEPT ![Enum][l.nt] = Append(IF @ = None THEN <<>> ELSE @, l.value)]
    /\ UNCHANGED links

\* Size() and Domain(): a Size is 0..0 to begin with, a Domain has no bounds.
NewSize == [min |-> 0, max |-> 0]
NewDomain == [min |-> None, max |-> None]

ReadBound(l, type, k, bound, first) ==
    /\ l.type = type
    /\ v' = [v EXCEPT ![k][l.nt] =
               [(IF @ = None THEN first ELSE @) EXCEPT ![bound] = l.value]]
    /\ UNCHANGED links

ReadLink(l) ==
    /\ l.type = "link"
    /\ links' = [links EXCEPT ![l.nt] = l.value]
    /\ UNCHANGED v

ReadLine ==
    LET l == file[pos + 1]
    IN  /\ pc = "read" /\ pos < Len(file)
        /\ \/ ReadPattern(l) \/ ReadEnum(l) \/ ReadLink(l)
           \/ ReadBound(l, "minInclusive", Domain, "min", NewDomain)
           \/ ReadBound(l, "maxInclusive", Domain, "max", NewDomain)
           \/ ReadBound(l, "minLength", Size, "min", NewSize)
           \/ ReadBound(l, "maxLength", Size, "max", NewSize)
        /\ pos' = pos + 1
        /\ UNCHANGED <<pc, kind, left, refs, r, moves>> /\ Keep

\* Unkwnown constraint type
ReadOther ==
    /\ pc = "read" /\ pos < Len(file)
    /\ file[pos + 1].type = "other"
    /\ pc' = "type"
    /\ UNCHANGED <<pos, v, links, kind, left, refs, r, moves>> /\ Keep

StartLinks ==
    /\ pc = "read" /\ pos = Len(file)
    /\ pc' = "link"
    /\ left' = {n \in Name : links[n] # None}
    /\ UNCHANGED <<pos, v, links, kind, refs, r, moves>> /\ Keep

\* Variant of the code: without the test for count().
AppliedAlways(m, n) == [m EXCEPT ![n] = m[links[n]]]

\* apply_link(): n gets what is there for the name it is linked to.
Applied(m, n) == [m EXCEPT ![n] = IF m[links[n]] # None THEN m[links[n]] ELSE @]

ApplyLink(n) ==
    /\ pc = "link" /\ n \in left
    /\ v' = [k \in Kinds |-> Applied(v[k], n)]
    /\ left' = left \ {n}
    /\ UNCHANGED <<pos, links, pc, kind, refs, r, moves>> /\ Keep

\* read_constraints() returns, to one of its two callers.
Return(caller) ==
    /\ pc = "link" /\ left = {}
    /\ pc' = caller
    /\ kind' = 1 /\ left' = {n \in Name : v[1][n] # None}
    /\ UNCHANGED <<pos, v, links, refs, r, moves>> /\ Keep

-----------------------------------------------------------------------------
\* Both callers: from one map to the next.
NextKind ==
    /\ pc \in {"add", "map"} /\ left = {}
    /\ IF kind = 4 THEN /\ pc' = IF pc = "add" THEN "added" ELSE "mapped"
                        /\ UNCHANGED <<kind, left>>
       ELSE /\ kind' = kind + 1
            /\ left' = {n \in Name : v[kind + 1][n] # None}
            /\ UNCHANGED pc
    /\ UNCHANGED <<pos, v, links, refs, r, moves>> /\ Keep

\* Variant of the code: the sizes keep the default.
SourceDefault(k) == "ASN1"

\* Only sizes are marked as those of a constraint file.
Source(k) == IF k = Size THEN "EXTERN" ELSE "ASN1"

\* add_constraints(): one name.  The names before it keep what they got.
Add(n) ==
    /\ pc = "add" /\ n \in left
    /\ CASE g[n].type = "unknown" -> pc' = "name" /\ UNCHANGED <<left, refs>>
         [] g[n].type = "bare"    -> pc' = "undefined" /\ UNCHANGED <<left, refs>>
         [] OTHER            ->
              /\ refs' = [refs EXCEPT ![n] = Append(@,
                    [kind |-> kind, value |-> v[kind][n], source |-> Source(kind)])]
              /\ left' = left \ {n}
              /\ UNCHANGED pc
    /\ UNCHANGED <<pos, v, links, kind, r, moves>> /\ Keep

\* make_constraint_map(): one name.
Assign(n) ==
    /\ pc = "map" /\ n \in left
    /\ r' = [r EXCEPT ![n] = [var |-> Assigned(@.var, kind), value |-> v[kind][n]]]
    /\ left' = left \ {n}
    /\ UNCHANGED <<pos, v, links, pc, kind, refs, moves>> /\ Keep

\* A member is a string or a deque of strings, to construct it takes memory.
AssignThrows(n) ==
    /\ pc = "map" /\ n \in left
    /\ r' = [r EXCEPT ![n] = [var |-> AssignedHalf(@.var, kind), value |-> None]]
    /\ pc' = "memory"
    /\ UNCHANGED <<pos, v, links, kind, left, refs, moves>> /\ Keep

\* operator=(Variant &&): from m to n, which may be the same.  An empty one
\* changes nothing.  What is moved from keeps its member, with some value.
\* When the constructor throws, n is empty.
MoveVariant(n, m) ==
    LET tag == r[m].var.tag IN
    /\ pc = "mapped" /\ moves < MaxMoves
    /\ moves' = moves + 1
    /\ \/ tag = 0 /\ UNCHANGED r
       \/ /\ tag # 0
          /\ r' = [r EXCEPT ![m].value = None,
                            ![n] = [var   |-> Assigned(@.var, tag),
                                    value |-> IF n = m THEN None ELSE r[m].value]]
       \/ /\ tag \notin {0, r[n].var.tag}
          /\ r' = [r EXCEPT ![n] = [var |-> AssignedHalf(@.var, tag), value |-> None]]
    /\ UNCHANGED <<pos, v, links, pc, kind, left, refs>> /\ Keep

Next ==
    \/ ReadLine \/ ReadOther \/ StartLinks \/ NextKind
    \/ Return("add") \/ Return("map")
    \/ \E n \in Name : ApplyLink(n) \/ Add(n) \/ Assign(n) \/ AssignThrows(n)
    \/ \E n, m \in Name : MoveVariant(n, m)

Spec == Init /\ [][Next]_vars

-----------------------------------------------------------------------------
\* The lines of these types about the name n, among the first p.
LinesOf(p, n, types) == {i \in 1..p : file[i].nt = n /\ file[i].type \in types}

\* The value of the last of them, for one type.
LastOf(p, n, type, default) ==
    LET lines == LinesOf(p, n, {type})
    IN  IF lines = {} THEN default ELSE file[Max(lines)].value

\* The k-th number of a set.
Nth(S, k) == CHOOSE i \in {j \in S : Cardinality({m \in S : m <= j}) = k} : TRUE

TypesOf(k) == CASE k = Enum    -> {"enumeration"}
                [] k = Domain  -> {"minInclusive", "maxInclusive"}
                [] k = Size    -> {"minLength", "maxLength"}
                [] k = Pattern -> {"pattern"}

\* What the first p lines say of the name n, without links: all enumerations in
\* order, the last bounds, the first pattern.
Said(p, k, n) ==
    LET lines == LinesOf(p, n, TypesOf(k)) IN
    IF lines = {} THEN None
    ELSE CASE k = Enum    -> [i \in 1..Cardinality(lines) |-> file[Nth(lines, i)].value]
           [] k = Domain  -> [min |-> LastOf(p, n, "minInclusive", None),
                              max |-> LastOf(p, n, "maxInclusive", None)]
           [] k = Size    -> [min |-> LastOf(p, n, "minLength", 0),
                              max |-> LastOf(p, n, "maxLength", 0)]
           [] k = Pattern -> file[Min(lines)].value

Says(k, n) == Said(Len(file), k, n)

\* The name the file links n to.
LinkedTo(n) == LastOf(Len(file), n, "link", None)

\* The name n and those its links lead to, one after the other.
Chain(n) ==
    {m \in Name : \A S \in SUBSET Name :
        (n \in S /\ \A x \in S : LinkedTo(x) \in S \cup {None}) => m \in S}

\* A name that is linked has what the other name has, kind by kind, and keeps
\* its own where that has nothing: in every order of the hash table, as long as
\* the other name has no link itself, or one to itself.  With chains of links it
\* has what one of the names of the chain has, and which one depends on the
\* order.
LinksFollowed ==
    pc \notin {"read", "link", "type"} => \A k \in Kinds, n \in Name :
        LET to == LinkedTo(n) IN
        /\ v[k][n] \in {Says(k, m) : m \in Chain(n)}
        /\ to = None => v[k][n] = Says(k, n)
        /\ to # None /\ LinkedTo(to) \in {None, to} =>
              v[k][n] = IF Says(k, to) # None THEN Says(k, to) ELSE Says(k, n)

\* The tag of a Variant tells the one member that is constructed, also when a
\* constructor throws on the way from one kind to another: the destructor
\* destroys just that.  The map has for each name what the last of the four maps
\* has for it.
VariantsHold ==
    /\ \A n \in Name : r[n].var.alive = {r[n].var.tag} \ {0}
    /\ pc = "mapped" /\ moves = 0 => \A n \in Name :
          LET there == {k \in Kinds : v[k][n] # None} IN
          IF there = {} THEN r[n].var.tag = 0
          ELSE /\ r[n].var.tag \in there
               /\ \A k \in there : k <= r[n].var.tag
               /\ r[n].value = v[r[n].var.tag][n]

\* What the first reference of n gets from the maps of the first K kinds, in the
\* order of the kinds.
Expected(n, K) ==
    LET got(k) == IF k > K \/ v[k][n] = None THEN <<>>
                  ELSE <<[kind |-> k, value |-> v[k][n],
                          source |-> IF k = Size THEN "EXTERN" ELSE "ASN1"]>>
    IN  got(1) \o got(2) \o got(3) \o got(4)

\* add_constraints() appends what the file has for a rule to what the grammar
\* had, kind by kind; lengths are told from those of the grammar, which count
\* the bytes of a BCDString and not its digits.  When it stops at a name, the
\* rules have got all of the kinds before, and of this kind all or nothing.
ConstraintsAdded ==
    \A n \in DOMAIN refs :
        /\ pc = "added" => refs[n] = Own(n) \o Expected(n, 4)
        /\ pc \in {"add", "name", "undefined"} =>
              refs[n] \in {Own(n) \o Expected(n, kind - 1), Own(n) \o Expected(n, kind)}
=============================================================================
