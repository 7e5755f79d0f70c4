\* The arguments of ged in every order.
CONSTANTS
    Name <- MCName
    Builtins <- MCBuiltins
    File <- MCFile
    Content <- MCContent
    Constrained <- MCConstrained
    Null = Null
SPECIFICATION Spec
\* the program ends
CHECK_DEADLOCK FALSE
INVARIANTS
    LinkedOnce
    LinksClosed
    DefinedAfterRead
    ConstraintsInPlace
    LinkedInOrder
PROPERTIES
    RulesKept
