\* ged and parse_files(): moves, failures and destruction.
CONSTANTS
    o1 = o1
    o2 = o2
    o3 = o3
    a = a
    b = b
    Null = Null
    Obj <- MCObj
    Name <- MCName
SPECIFICATION Spec
\* the functions return
CHECK_DEADLOCK FALSE
INVARIANTS
    OwnedOnce
    DuplicatesIgnored
PROPERTIES
    MovesUnseen
