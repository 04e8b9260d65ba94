------------------------------- MODULE Gateway -------------------------------
(***************************************************************************)
(* simulateTransactions (src/src/simulator.cpp and src/src/main.cpp) on    *)
(* the lock-free tree: the workers of overlapping POST /api/simulate       *)
(* requests, or of the stress test, which is a single request followed by  *)
(* verifyTreeInvariants.  The i-th worker of every request calls with user *)
(* id i, so workers of different requests share ids.                       *)
(***************************************************************************)
EXTENDS AtomicTree

CONSTANTS Request, RequestOf, TxnPerThread

\* simulateTransactions(tree, threadId, ..): one id for each thread.
ASSUME GatewayAssumption ==
    /\ \A t \in Thread : \E u \in User : UsersOf[t] = {u}
    /\ RequestOf \in [Thread -> Request]
    /\ TxnPerThread \in Nat

UserId(t) == CHOOSE u \in UsersOf[t] : TRUE

VARIABLES metrics, request, left,
          stage   \* stage[t]: "out", "loop", or "locking" while lock() is called

gatewayVars == <<metrics, request, left, stage>>

Metrics == [total : Nat, success : Nat, failed : Nat]

\* The loop counters and metrics keep their types, on top of those of the tree.
GatewayTypeOK ==
    /\ TypeOK
    /\ metrics \in Metrics
    /\ request \in [Request -> {"none", "running", "answered"}]
    /\ left \in [Thread -> 0 .. TxnPerThread]
    /\ stage \in [Thread -> {"out", "loop", "locking"}]

GatewayInit ==
    /\ Init
    /\ metrics = [total |-> 0, success |-> 0, failed |-> 0]
    /\ request = [r \in Request |-> "none"]
    /\ left = [t \in Thread |-> 0]
    /\ stage = [t \in Thread |-> "out"]
-----------------------------------------------------------------------------
StartedBy(r) == {t \in Thread : RequestOf[t] = r}

\* The handler of POST /api/simulate starts its threads.
StartWorkers(r) ==
    /\ request[r] = "none"
    /\ request' = [request EXCEPT ![r] = "running"]
    /\ stage' = [t \in Thread |-> IF t \in StartedBy(r) THEN "loop" ELSE stage[t]]
    /\ left' = [t \in Thread |-> IF t \in StartedBy(r) THEN TxnPerThread ELSE left[t]]
    /\ UNCHANGED <<vars, metrics>>

\* A transaction is counted, then its gateway is locked.  (MaxHeld, which bounds the
\* locks of CallLock, must leave room for a worker whose unlock() has failed: the
\* loop goes on after that.)
BeginTransaction(t, n) ==
    /\ stage[t] = "loop"
    /\ left[t] > 0
    /\ CallLock(t, n, UserId(t))
    /\ left' = [left EXCEPT ![t] = @ - 1]
    /\ metrics' = [metrics EXCEPT !.total = @ + 1]
    /\ stage' = [stage EXCEPT ![t] = "locking"]
    /\ UNCHANGED request

LockReturned(t) == stage[t] = "locking" /\ pc[t] = "idle"

\* lock() returned true: a success, and after the payment unlock(), whose
\* result is ignored.
Succeed(t) ==
    /\ LockReturned(t)
    /\ \E h \in held[t] : CallUnlock(t, h[1], UserId(t))
    /\ metrics' = [metrics EXCEPT !.success = @ + 1]
    /\ stage' = [stage EXCEPT ![t] = "loop"]
    /\ UNCHANGED <<request, left>>

\* Mutant: a transaction that is refused is not counted.
FailUncounted(t) ==
    /\ LockReturned(t)
    /\ held[t] = {}
    /\ stage' = [stage EXCEPT ![t] = "loop"]
    /\ UNCHANGED <<vars, request, left, metrics>>

Fail(t) ==
    /\ LockReturned(t)
    /\ held[t] = {}
    /\ metrics' = [metrics EXCEPT !.failed = @ + 1]
    /\ stage' = [stage EXCEPT ![t] = "loop"]
    /\ UNCHANGED <<vars, request, left>>

\* The next access of the lock() or unlock() t is in.
TreeStep(t) == Step(t) /\ UNCHANGED gatewayVars

\* Mutant: the loop's condition counts past the last transaction.
EndWorkerLate(t) ==
    /\ stage[t] = "loop"
    /\ pc[t] = "idle"
    /\ left[t] < 0
    /\ stage' = [stage EXCEPT ![t] = "out"]
    /\ UNCHANGED <<vars, metrics, request, left>>

EndWorker(t) ==
    /\ stage[t] = "loop"
    /\ pc[t] = "idle"
    /\ left[t] = 0
    /\ stage' = [stage EXCEPT ![t] = "out"]
    /\ UNCHANGED <<vars, metrics, request, left>>

\* Mutant: the threads are detached, not joined.
AnswerDetached(r) ==
    /\ request[r] = "running"
    /\ request' = [request EXCEPT ![r] = "answered"]
    /\ UNCHANGED <<vars, metrics, left, stage>>

\* All threads are joined; the response is sent, or the report printed.
Answer(r) ==
    /\ request[r] = "running"
    /\ \A t \in StartedBy(r) : stage[t] = "out"
    /\ request' = [request EXCEPT ![r] = "answered"]
    /\ UNCHANGED <<vars, metrics, left, stage>>

Work(t) ==
    \/ \E n \in LockTargets : BeginTransaction(t, n)
    \/ Succeed(t) \/ Fail(t) \/ TreeStep(t) \/ EndWorker(t)

GatewayNext ==
    \/ \E r \in Request : StartWorkers(r) \/ Answer(r)
    \/ \E t \in Thread : Work(t)

\* The scheduler runs every thread of the process.
GatewaySpec ==
    /\ GatewayInit
    /\ [][GatewayNext]_<<vars, gatewayVars>>
    /\ \A t \in Thread : WF_<<vars, gatewayVars>>(Work(t))
    /\ \A r \in Request : WF_<<vars, gatewayVars>>(Answer(r))
-----------------------------------------------------------------------------
\* verifyTreeInvariants: no node is locked and every counter is 0.
verifyTreeInvariants ==
    \A n \in Node : lockState[n] = 0 /\ ancestorLockedCount[n] = 0 /\ descendantLockedCount[n] = 0

\* The stress test's own check passes whenever all threads have been joined,
\* however their transactions, and those of overlapping requests, interleaved.
StressTestPasses == (\A r \in Request : request[r] # "running") => verifyTreeInvariants

\* Every simulation request is answered: no worker waits for another for ever.
SimulationsAnswered == \A r \in Request : request[r] = "running" ~> request[r] = "answered"

\* The gateway the worker holds, from the CAS of lock() to the CAS of unlock().
InLock == {"recheckAncestors", "recheckDescendants", "rollback", "setOwner", "inform"}
InUnlock == {"checkOwner", "clearOwner", "casFree"}
LeafOf(t) ==
    IF (stage[t] = "locking" /\ pc[t] \in InLock) \/ (stage[t] = "loop" /\ pc[t] \in InUnlock)
    THEN call[t].node
    ELSE IF LockReturned(t) /\ held[t] # {} THEN (CHOOSE h \in held[t] : TRUE)[1]
    ELSE NoNode

\* Where the worker is in its transaction.
PhaseOf(t) ==
    CASE stage[t] = "out" -> "out"
      [] stage[t] = "locking" -> IF LeafOf(t) # NoNode THEN "holding" ELSE "asking"
      [] stage[t] = "loop" -> IF LeafOf(t) # NoNode THEN "paying" ELSE "ready"

Abstraction == INSTANCE Engine
                  WITH Worker <- Thread, Gateway <- LockTargets,
                       phase <- [t \in Thread |-> PhaseOf(t)],
                       leaf <- [t \in Thread |-> LeafOf(t)]

\* With one atomic access a step, transactions are those of the engine: each is
\* counted once with one outcome, no two workers pay on one gateway at a time,
\* and a request is answered only when all its transactions are over.
ImplementsEngine == Abstraction!EngineSpec

=============================================================================
