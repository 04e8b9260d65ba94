SPECIFICATION Spec
CONSTANTS
    Name = {A, B, C, D}
    NoName = NoName
    User = {u1, u2}
    NoUser = NoUser
    MaxNodes = 5
    AddWhileLocked = FALSE
INVARIANTS
    TypeOK
    CountsExact
    ChecksMatchTreeWalk
    OneLockPerPath
PROPERTY
    ImplementsHierarchicalLock
SYMMETRY Symmetry
