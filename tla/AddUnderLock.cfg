SPECIFICATION Spec
CONSTANTS
    Name = {A, B}
    NoName = NoName
    User = {u1, u2}
    NoUser = NoUser
    MaxNodes = 2
    AddWhileLocked = TRUE
INVARIANTS
    OneLockPerPath
