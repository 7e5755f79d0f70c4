\* tsort(): the order of the result, cycles.
CONSTANTS
    A = A
    B = B
    C = C
    T = T
    None = None
    Grammars <- MCGrammars
    ByName <- MCByName
SPECIFICATION Spec
\* the function returns or throws
CHECK_DEADLOCK FALSE
INVARIANTS
    ThrowsOnCycle
    SortedFromAxiom
