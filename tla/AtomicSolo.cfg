SPECIFICATION Spec
CONSTANTS
    Root = Root
    A = A
    B = B
    C = C
    D = D
    t1 = t1
    t2 = t2
    t3 = t3
    u1 = u1
    u2 = u2
    u3 = u3
    NoNode = NoNode
    NoUser = NoUser
    User = {u1, u2}
    Node = {Root, A, B, C, D}
    Parent <- TestParent
    Children <- TestChildren
    Thread = {t1}
    UsersOf <- SoloUsers
    LockTargets = {Root, A, B, C, D}
    UpgradeTargets = {Root, A, B, C, D}
    StrayUnlocks = {Root, A, B, C, D}
    Mortal = {}
    MaxHeld = 3
    MaxRetries = 0
INVARIANTS
    TypeOK
PROPERTIES
    CallsAreAtomic
    RefusedForConflict
