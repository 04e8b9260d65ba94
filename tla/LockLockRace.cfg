SPECIFICATION Spec
CONSTANTS
    Root = Root
    A = A
    B = B
    C = C
    D = D
    t1 = t1
    t2 = t2
    t3 = t3
    u1 = u1
    u2 = u2
    u3 = u3
    NoNode = NoNode
    NoUser = NoUser
    User = {u1, u2}
    Node = {Root, A, C}
    Parent <- ChainParent
    Children <- ChainChildren
    Thread = {t1, t2}
    UsersOf <- TwoOwnUsers
    LockTargets = {A, C}
    UpgradeTargets = {}
    StrayUnlocks = {}
    Mortal = {}
    MaxHeld = 1
    MaxRetries = 0
INVARIANTS
    OneHolderPerPath
