------------------------------ MODULE Dashboard ------------------------------
(***************************************************************************)
(* The page of src/frontend/index.html, the GET handlers of                *)
(* src/src/main.cpp that answer it, and the engine running meanwhile.      *)
(* Handlers read the atomics one by one; answers overtake each other; a    *)
(* request or its answer may be lost.                                      *)
(***************************************************************************)
EXTENDS Engine, Sequences

CONSTANTS
    Slot,      \* bound: GET requests in flight at a time
    Preorder   \* the gateways in the order toJson visits them

ASSUME DashboardAssumption ==
    /\ Preorder \in Seq(Gateway)
    /\ \A n \in Gateway : \E i \in 1 .. Len(Preorder) : Preorder[i] = n

VARIABLES
    get,           \* get[q]: the request in flight in slot q
    noticed,       \* the simulations whose answer the page has had, or lost
    metricsShown   \* the numbers on the page

pageVars == <<noticed, metricsShown>>
allVars == <<engineVars, get, pageVars>>

Fields == {"total", "success", "failed"}
NoGet == [kind |-> "none"]

\* A request as it leaves the page.  calm: no simulation has run since.
Fresh(k) ==
    [kind |-> k, todo |-> IF k = "metrics" THEN Fields ELSE Gateway,
     seen |-> IF k = "metrics" THEN [f \in Fields |-> 0] ELSE {},
     calm |-> ~Simulating]

\* The page has been loaded and has sent its first two requests.
DashboardInit ==
    /\ EngineInit
    /\ \E q1, q2 \in Slot : q1 # q2 /\ get = [q \in Slot |-> CASE q = q1 -> Fresh("metrics")
                                                           [] q = q2 -> Fresh("tree")
                                                           [] OTHER -> NoGet]
    /\ noticed = {}
    /\ metricsShown = [f \in Fields |-> 0]
-----------------------------------------------------------------------------
\* The engine goes on; a simulation that starts ends the calm of every request.
EngineStep ==
    /\ EngineNext
    /\ get' = [q \in Slot |-> IF get[q] # NoGet /\ Simulating'
                              THEN [get[q] EXCEPT !.calm = FALSE] ELSE get[q]]
    /\ UNCHANGED pageVars

Idle(q) == get[q] = NoGet

\* fetchMetrics(); renderTree(): two requests leave at once.
FetchBoth(q1, q2) ==
    /\ q1 # q2 /\ Idle(q1) /\ Idle(q2)
    /\ get' = [get EXCEPT ![q1] = Fresh("metrics"), ![q2] = Fresh("tree")]

\* Mutant: the page does not poll.
PollNever(q) == Idle(q) /\ UNCHANGED allVars

\* setInterval(fetchMetrics, 1000).
Poll(q) ==
    /\ Idle(q)
    /\ get' = [get EXCEPT ![q] = Fresh("metrics")]
    /\ UNCHANGED <<engineVars, pageVars>>

Pending(q, k) == get[q].kind = k /\ get[q].todo # {}

\* The handler of GET /api/metrics: one load a step, in any order.
LoadMetric(q, f) ==
    /\ Pending(q, "metrics")
    /\ f \in get[q].todo
    /\ get' = [get EXCEPT ![q].todo = @ \ {f}, ![q].seen[f] = metrics[f]]
    /\ UNCHANGED <<engineVars, pageVars>>

\* The handler of GET /api/tree: toJson loads the lockState of the next node.
LoadNode(q) ==
    /\ Pending(q, "tree")
    /\ \E i \in 1 .. Len(Preorder) :
          LET n == Preorder[i]
          IN  /\ n \in get[q].todo
              /\ \A j \in 1 .. i - 1 : Preorder[j] \notin get[q].todo
              /\ get' = [get EXCEPT ![q].todo = @ \ {n},
                                   ![q].seen = IF Locked(n) THEN @ \cup {n} ELSE @]
    /\ UNCHANGED <<engineVars, pageVars>>

Served(q) == get[q] # NoGet /\ get[q].todo = {}

\* The answer reaches the page, which shows it.
Arrive(q) ==
    /\ Served(q)
    /\ metricsShown' = IF get[q].kind = "metrics" THEN get[q].seen ELSE metricsShown
    /\ get' = [get EXCEPT ![q] = NoGet]
    /\ UNCHANGED <<engineVars, noticed>>

\* The fetch fails, the request or its answer lost: fetchMetrics writes nothing.
FailGet(q) ==
    /\ Served(q)
    /\ get' = [get EXCEPT ![q] = NoGet]
    /\ UNCHANGED <<engineVars, pageVars>>

\* runSimulation() goes on when its POST is answered.
SimulationDone(r) ==
    /\ request[r] = "answered"
    /\ r \notin noticed
    /\ noticed' = noticed \cup {r}
    /\ \E q1, q2 \in Slot : FetchBoth(q1, q2)
    /\ UNCHANGED <<engineVars, metricsShown>>

\* The answer of the POST is lost: runSimulation() ends with an exception.
FailPost(r) ==
    /\ request[r] # "none"
    /\ r \notin noticed
    /\ noticed' = noticed \cup {r}
    /\ UNCHANGED <<engineVars, get, metricsShown>>

Handle(q) == LoadNode(q) \/ \E f \in Fields : LoadMetric(q, f)

DashboardNext ==
    \/ EngineStep
    \/ \E q \in Slot : Poll(q) \/ Handle(q) \/ Arrive(q) \/ FailGet(q)
    \/ \E r \in Request : SimulationDone(r) \/ FailPost(r)

\* The timer goes on ticking, handlers return, and not every answer is lost.
DashboardSpec ==
    /\ DashboardInit
    /\ [][DashboardNext]_allVars
    /\ WF_allVars(\E q \in Slot : Poll(q))
    /\ \A q \in Slot : WF_allVars(Handle(q)) /\ SF_allVars(Arrive(q))
-----------------------------------------------------------------------------
\* Requests in flight and the page hold what the handlers can have read.
DashboardTypeOK ==
    /\ EngineTypeOK
    /\ \A q \in Slot :
          \/ get[q] = NoGet
          \/ get[q] \in [kind : {"metrics"}, todo : SUBSET Fields, seen : [Fields -> Nat], calm : BOOLEAN]
          \/ get[q] \in [kind : {"tree"}, todo : SUBSET Gateway, seen : SUBSET Gateway, calm : BOOLEAN]
    /\ noticed \in SUBSET Request
    /\ metricsShown \in [Fields -> Nat]

\* The page never shows outcomes of transactions nobody had started, though the
\* metrics are read one after another, in any order, and arrive in any order.
OutcomesWereStarted == metricsShown.success + metricsShown.failed <= metrics.total

\* An answer given while no simulation ran is exact: all gateways free, and as
\* many outcomes as transactions.  So is what runSimulation() fetches after its
\* POST, if nobody else simulates: joined workers have left nothing behind.
AnswersCleanAtRest ==
    \A q \in Slot : Served(q) /\ get[q].calm =>
        /\ get[q].kind = "tree" => get[q].seen = {}
        /\ get[q].kind = "metrics" => get[q].seen.total = get[q].seen.success + get[q].seen.failed

\* Late answers to older polls are overwritten in the end: once the engine has
\* come to rest, the page comes to show its metrics and keeps showing them.
MetricsConverge == <>[](metricsShown = metrics)

=============================================================================
