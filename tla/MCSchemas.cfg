\* The printers of schemas and graphs.
CONSTANTS
    A = A
    B = B
    C = C
    D = D
    T = T
    T_ = T_
    None = None
    Grammars <- MCGrammars
    Underscored <- MCUnderscored
    BaseOf <- MCBaseOf
    DotGrammars <- MCDotGrammars
    StopNames <- MCStopNames
    Hyphenated <- MCHyphenated
    Keywords <- MCKeywords
SPECIFICATION DotSpec
\* the schema was printed
CHECK_DEADLOCK FALSE
INVARIANTS
    NamesResolve
    RecursionInElements
    DotReadsBack
