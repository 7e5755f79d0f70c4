\* derive_tags(): result, number of passes and termination.
CONSTANTS
    A = A
    B = B
    C = C
    T = T
    None = None
    Grammars <- MCGrammars
    Limits <- MCLimits
SPECIFICATION Spec
\* the function returns or throws
CHECK_DEADLOCK FALSE
INVARIANTS
    OrderIndependent
    Settled
PROPERTIES
    Terminates
