\* Texts with comments between blanks.
CONSTANTS
    Ident <- MCIdent
    Builtin <- MCBuiltin
    Field <- MCField
    Tag <- MCTag
    Constraint <- MCConstraint
    Inputs <- MCInputs
    Null = Null
    Half = Half
SPECIFICATION RoundTripSpec
\* the text was read
CHECK_DEADLOCK FALSE
INVARIANT CommentsInvisible
