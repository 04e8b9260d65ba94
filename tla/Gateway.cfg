SPECIFICATION GatewaySpec
CONSTANTS
    t1 = t1
    t2 = t2
    t3 = t3
    u1 = u1
    u2 = u2
    r1 = r1
    r2 = r2
    NoNode <- null
    NoUser = NoUser
    User = {u1, u2}
    Node <- allNodes
    Parent <- HierarchyParent
    Children <- HierarchyChildren
    Thread = {t1, t2, t3}
    UsersOf <- WorkerIds
    Request = {r1, r2}
    RequestOf <- StartedFor
    TxnPerThread = 1
    LockTargets = {"GPay", "BHIM"}
    UpgradeTargets = {}
    StrayUnlocks = {}
    Mortal = {}
    MaxHeld = 2
    MaxRetries = 0
INVARIANTS
    GatewayTypeOK
    QuiescentExact
    StressTestPasses
PROPERTIES
    ImplementsHierarchicalLock
    ImplementsEngine
    SimulationsAnswered
CHECK_DEADLOCK FALSE
