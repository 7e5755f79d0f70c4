\* Texts are read, printed and read again.
CONSTANTS
    Ident <- MCIdent
    Builtin <- MCBuiltin
    Field <- MCField
    Tag <- MCTag
    Constraint <- MCConstraint
    Inputs <- MCInputs
    Null = Null
    Half = Half
SPECIFICATION RoundTripSpec
\* the text was read
CHECK_DEADLOCK FALSE
INVARIANTS
    PointersValid
    ReadsAsWritten
    DefinitionsFormed
    SameReadBack
