\* What the help text says of -no-term.
CONSTANTS
    Name <- MCName
    Builtins <- MCBuiltins
    File <- MCFile
    Content <- MCContent
    Constrained <- MCConstrained
    Null = Null
SPECIFICATION Spec
\* the program ends
CHECK_DEADLOCK FALSE
INVARIANT NoTermFirst
