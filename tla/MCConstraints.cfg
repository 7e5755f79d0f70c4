\* Constraint files, read, linked and added or mapped.
CONSTANTS
    A = A
    B = B
    C = C
    str1 = str1
    str2 = str2
    None = None
    BCDString = BCDString
    INTEGER = INTEGER
    Name <- MCName
    Number <- MCNumber
    Str <- MCStr
    Lengths <- MCLengths
    Terminal <- MCTerminal
    Files <- MCFiles
    Grammars <- MCGrammars
    MaxMoves = 1
SPECIFICATION Spec
\* the functions return or throw
CHECK_DEADLOCK FALSE
INVARIANTS
    LinksFollowed
    VariantsHold
    ConstraintsAdded
    FacetsFaithful
    AsnKeepsLengths
