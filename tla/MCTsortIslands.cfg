\* tsort() of a grammar with unreachable symbols.
CONSTANTS
    A = A
    B = B
    C = C
    T = T
    None = None
    Grammars <- MCGrammars
    ByName <- MCByName
SPECIFICATION Spec
CHECK_DEADLOCK FALSE
INVARIANTS
    TopologicallySorted
