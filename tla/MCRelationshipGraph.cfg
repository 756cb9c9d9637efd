CONSTANTS
    n1 = n1
    n2 = n2
    n3 = n3
    owns = owns
    Nodes = {n1, n2, n3}
    Kind <- MCKind
    Types = {owns}
    Sensitive = {owns}
    Asked <- MCAsked
    NewStatus = {"active", NULL}
    Archivable = {n1, n2}
    MaxHops = 2
    StackLimit = 2
    Requests = {q1, q2, q3}
    NULL = NULL
SPECIFICATION Spec
SYMMETRY Symmetry
INVARIANTS
    TypeOK
    SymmetricClosed
    NoCheckedCycles
    CascadeHolds
