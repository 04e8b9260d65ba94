SPECIFICATION FairSpec
CONSTANTS
    Root = Root
    A = A
    B = B
    C = C
    D = D
    t1 = t1
    t2 = t2
    t3 = t3
    u1 = u1
    u2 = u2
    u3 = u3
    NoNode = NoNode
    NoUser = NoUser
    User = {u1, u2}
    Node = {Root, A, B, C, D}
    Parent <- TestParent
    Children <- TestChildren
    Thread = {t1, t2}
    UsersOf <- TwoOwnUsers
    LockTargets = {A, C, D}
    UpgradeTargets = {A, Root}
    StrayUnlocks = {C, D}
    Mortal = {t2}
    MaxHeld = 2
    MaxRetries = 0
INVARIANTS
    QuiescentExact
    CountsBalanced
    OwnUntilFreed
PROPERTIES
    CallsReturn
