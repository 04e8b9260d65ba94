------------------------------- MODULE Engine -------------------------------
(***************************************************************************)
(* What the gateway engine promises the HTTP handlers that drive it, with  *)
(* lock() and unlock() taking effect in one step each: simulation requests *)
(* start workers, workers make transactions on gateways (leaves of the     *)
(* tree) and count them, and a request is answered when its workers ended. *)
(***************************************************************************)
EXTENDS Integers, FiniteSets

CONSTANTS
    Worker,       \* the threads of all simulation requests
    Request,      \* POST /api/simulate requests, or the one run of the stress test
    RequestOf,    \* RequestOf[w]: the request that starts worker w
    Gateway,      \* the leaves transactions are made on
    NoNode,
    TxnPerThread  \* txnPerThread

ASSUME EngineAssumption ==
    /\ IsFiniteSet(Worker)
    /\ RequestOf \in [Worker -> Request]
    /\ NoNode \notin Gateway
    /\ TxnPerThread \in Nat

VARIABLES
    metrics,   \* tree.metrics, but for casRetries
    request,   \* request[r]: "none", "running" or "answered"
    phase,     \* phase[w]: where w is in its loop
    leaf,      \* leaf[w]: the gateway w holds, or NoNode
    left       \* left[w]: the transactions w has still to start

workerVars == <<phase, leaf, left>>
engineVars == <<metrics, request, workerVars>>

Phases == {"out", "ready", "asking", "holding", "paying"}

EngineTypeOK ==
    /\ metrics \in [total : Nat, success : Nat, failed : Nat]
    /\ request \in [Request -> {"none", "running", "answered"}]
    /\ phase \in [Worker -> Phases]
    /\ leaf \in [Worker -> Gateway \cup {NoNode}]
    /\ left \in [Worker -> 0 .. TxnPerThread]

WorkersOf(r) == {w \in Worker : RequestOf[w] = r}
Locked(n) == \E w \in Worker : leaf[w] = n
Simulating == \E r \in Request : request[r] = "running"

EngineInit ==
    /\ metrics = [total |-> 0, success |-> 0, failed |-> 0]
    /\ request = [r \in Request |-> "none"]
    /\ phase = [w \in Worker |-> "out"]
    /\ leaf = [w \in Worker |-> NoNode]
    /\ left = [w \in Worker |-> 0]
-----------------------------------------------------------------------------
Enter(w, p) == phase' = [phase EXCEPT ![w] = p]
Count(field) == metrics' = [metrics EXCEPT ![field] = @ + 1]

\* The handler starts its workers.
Post(r) ==
    /\ request[r] = "none"
    /\ request' = [request EXCEPT ![r] = "running"]
    /\ phase' = [w \in Worker |-> IF w \in WorkersOf(r) THEN "ready" ELSE phase[w]]
    /\ left' = [w \in Worker |-> IF w \in WorkersOf(r) THEN TxnPerThread ELSE left[w]]
    /\ UNCHANGED <<metrics, leaf>>

\* Mutant: one transaction too many.
StartOneMore(w) ==
    /\ phase[w] = "ready"
    /\ left[w] >= 0
    /\ left' = [left EXCEPT ![w] = @ - 1]
    /\ Count("total")
    /\ Enter(w, "asking")
    /\ UNCHANGED <<request, leaf>>

\* Mutant: a transaction is counted when it succeeds or fails only.
StartUncounted(w) ==
    /\ phase[w] = "ready"
    /\ left[w] > 0
    /\ left' = [left EXCEPT ![w] = @ - 1]
    /\ Enter(w, "asking")
    /\ UNCHANGED <<metrics, request, leaf>>

\* A transaction is counted, then its gateway is asked for.
Start(w) ==
    /\ phase[w] = "ready"
    /\ left[w] > 0
    /\ left' = [left EXCEPT ![w] = @ - 1]
    /\ Count("total")
    /\ Enter(w, "asking")
    /\ UNCHANGED <<request, leaf>>

\* lock() takes a gateway nobody holds.
Take(w, n) ==
    /\ phase[w] = "asking"
    /\ ~Locked(n)
    /\ leaf' = [leaf EXCEPT ![w] = n]
    /\ Enter(w, "holding")
    /\ UNCHANGED <<metrics, request, left>>

\* Mutant: a refused transaction is forgotten.
RefusedUncounted(w) ==
    /\ phase[w] = "asking"
    /\ Enter(w, "ready")
    /\ UNCHANGED <<metrics, request, leaf, left>>

\* lock() may return false in every state: what it read may be old.
Refused(w) ==
    /\ phase[w] = "asking"
    /\ Count("failed")
    /\ Enter(w, "ready")
    /\ UNCHANGED <<request, leaf, left>>

Granted(w) ==
    /\ phase[w] = "holding"
    /\ Count("success")
    /\ Enter(w, "paying")
    /\ UNCHANGED <<request, leaf, left>>

\* unlock() gives the gateway back.
Free(w) ==
    /\ phase[w] = "paying"
    /\ leaf' = [leaf EXCEPT ![w] = NoNode]
    /\ Enter(w, "ready")
    /\ UNCHANGED <<metrics, request, left>>

Exit(w) ==
    /\ phase[w] = "ready"
    /\ left[w] = 0
    /\ Enter(w, "out")
    /\ UNCHANGED <<metrics, request, leaf, left>>

\* Mutant: the threads are detached, not joined.
RespondDetached(r) ==
    /\ request[r] = "running"
    /\ request' = [request EXCEPT ![r] = "answered"]
    /\ UNCHANGED <<metrics, workerVars>>

\* All workers are joined, the response is sent.
Respond(r) ==
    /\ request[r] = "running"
    /\ \A w \in WorkersOf(r) : phase[w] = "out"
    /\ request' = [request EXCEPT ![r] = "answered"]
    /\ UNCHANGED <<metrics, workerVars>>

Work(w) ==
    \/ Start(w) \/ Refused(w) \/ Granted(w) \/ Free(w) \/ Exit(w)
    \/ \E n \in Gateway : Take(w, n)

EngineNext ==
    \/ \E r \in Request : Post(r) \/ Respond(r)
    \/ \E w \in Worker : Work(w)

EngineSpec == EngineInit /\ [][EngineNext]_engineVars
-----------------------------------------------------------------------------
\* A worker is out unless its request runs, and holds a gateway exactly from
\* its lock() to its unlock(), no two workers the same one.
WorkersAccounted ==
    \A w \in Worker :
        /\ phase[w] # "out" => request[RequestOf[w]] = "running"
        /\ leaf[w] # NoNode <=> phase[w] \in {"holding", "paying"}
        /\ request[RequestOf[w]] # "none" /\ phase[w] = "out" => left[w] = 0
        /\ \A v \in Worker : leaf[v] = leaf[w] /\ leaf[w] # NoNode => v = w

\* Every transaction counted is a success, a failure, or waits for its lock().
Undecided == {w \in Worker : phase[w] \in {"asking", "holding"}}
MetricsBalanced == metrics.total = metrics.success + metrics.failed + Cardinality(Undecided)

\* When no simulation runs the totals add up and no gateway is locked.
AtRest == /\ metrics.total = metrics.success + metrics.failed
          /\ \A n \in Gateway : ~Locked(n)
RestIsClean == ~Simulating => AtRest

=============================================================================
