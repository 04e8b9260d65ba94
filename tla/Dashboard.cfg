SPECIFICATION DashboardSpec
CONSTANTS
    w1 = w1
    r1 = r1
    Worker = {w1}
    Request = {r1}
    RequestOf <- OneWorker
    Gateway = {"HDFC", "SBI"}
    NoNode = ""
    TxnPerThread = 2
    Slot = {1, 2}
    Preorder <- GatewayOrder
INVARIANTS
    DashboardTypeOK
    MetricsBalanced
    OutcomesWereStarted
    AnswersCleanAtRest
PROPERTIES
    MetricsConverge
