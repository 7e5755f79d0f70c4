\* The container: every property of Grammar and the refinement of SymbolGraph.
CONSTANTS
    o1 = o1
    o2 = o2
    o3 = o3
    a = a
    b = b
    c = c
    Null = Null
    Obj <- MCObj
    Name <- MCName
    Slot <- MCSlot
SPECIFICATION Spec
SYMMETRY MCSymmetry
\* a destroyed grammar does nothing more
CHECK_DEADLOCK FALSE
INVARIANTS
    NoDangling
    BackLinksExact
    LinksBindByName
    IndexesAgree
    LeakBounded
PROPERTIES
    SweepExact
    ImplementsGraph
