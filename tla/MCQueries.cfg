\* The queries of a grammar, one in a run, with and without derive_tags().
CONSTANTS
    A = A
    B = B
    C = C
    T = T
    None = None
    Grammars <- MCGrammars
    Limits <- MCLimits
    ClosureLimits <- MCClosureLimits
    Klasses <- MCKlasses
    MaxQueries = 1
SPECIFICATION QSpec
\* the command line comes to its end
CHECK_DEADLOCK FALSE
INVARIANTS
    ClosureCorrect
    PrimitivesFound
    NameMapCorrect
    TranslationsInClosure
    RestExact
    EffectiveCorrect
PROPERTIES
    QueriesAnswered
