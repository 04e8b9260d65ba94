---------------------------- MODULE GatewayProofs ----------------------------
(***************************************************************************)
(* Simulations on the lock-free tree, for any tree whose gateways do not   *)
(* lie above each other, any number of requests, workers and transactions, *)
(* and any user ids: the engine they implement, and what they leave behind.*)
(***************************************************************************)
EXTENDS Gateway, AtomicLockProofs

GatewayTypes ==
    /\ metrics \in Metrics
    /\ request \in [Request -> {"none", "running", "answered"}]
    /\ left \in [Thread -> 0 .. TxnPerThread]
    /\ stage \in [Thread -> {"out", "loop", "locking"}]

\* What worker t has of the tree while it locks, and while it is in its loop.
Locking(t) ==
    \/ pc[t] = "idle" /\ (held[t] = {} \/ \E n \in LockTargets : held[t] = {<<n, UserId(t)>>})
    \/ pc[t] # "idle" /\ call[t].op = "lock" /\ held[t] = {}
Looping(t) ==
    \/ pc[t] = "idle" /\ held[t] = {}
    \/ pc[t] # "idle" /\ call[t].op = "unlock" /\ held[t] = {<<call[t].node, UserId(t)>>}

\* A worker's loop and its calls agree; no gateway is ever rolled back.
WorkerOK(t) ==
    /\ stage[t] # "out" => request[RequestOf[t]] = "running"
    /\ stage[t] = "out" => pc[t] = "idle" /\ held[t] = {}
    /\ stage[t] = "loop" => Looping(t)
    /\ stage[t] = "locking" => Locking(t)
    /\ pc[t] # "rollback"

TreeInv == CountInv /\ LeafInv
GatewayInv == GatewayTypes /\ \A t \in Thread : WorkerOK(t)
-----------------------------------------------------------------------------
\* The tree under the workers is the tree of AtomicTree.

LEMMA WorkerUser ==
    ASSUME NEW t \in Thread
    PROVE  UserId(t) \in User /\ UsersOf[t] = {UserId(t)}
<1>1. PICK u \in User : UsersOf[t] = {u}
  BY GatewayAssumption
<1>2. UserId(t) = u
  BY <1>1 DEF UserId
<1> QED BY <1>1, <1>2

LEMMA GatewayIsTree ==
    ASSUME TypeInv, [GatewayNext]_<<vars, gatewayVars>>
    PROVE  [Next]_vars
<1>1. CASE UNCHANGED vars
  BY <1>1
<1>2. ASSUME NEW t \in Thread, Work(t) PROVE [Next]_vars
  <2>1. ASSUME NEW n \in LockTargets, BeginTransaction(t, n) PROVE Call(t)
    BY <2>1, WorkerUser DEF BeginTransaction, Call
  <2>2. ASSUME Succeed(t) PROVE Call(t)
    <3>1. PICK h \in held[t] : CallUnlock(t, h[1], UserId(t))
      BY <2>2 DEF Succeed
    <3>2. h[1] \in Node
      BY DEF TypeInv, ThreadTypes
    <3> QED BY <3>1, <3>2, WorkerUser DEF Call
  <2>3. ASSUME Fail(t) \/ EndWorker(t) PROVE UNCHANGED vars
    BY <2>3 DEF Fail, EndWorker
  <2>4. ASSUME TreeStep(t) PROVE Step(t)
    BY <2>4 DEF TreeStep
  <2> QED BY <1>2, <2>1, <2>2, <2>3, <2>4 DEF Work, Next
<1> QED BY <1>1, <1>2 DEF GatewayNext, gatewayVars, StartWorkers, Answer

LEMMA GatewayTree == GatewaySpec => Spec
<1>1. GatewayInit => Init /\ TypeInv
  BY TypeInit DEF GatewayInit
<1>2. TypeInv /\ [GatewayNext]_<<vars, gatewayVars>> => [Next]_vars /\ TypeInv'
  BY GatewayIsTree, TypeNext
<1> QED BY <1>1, <1>2, PTL DEF GatewaySpec, Spec

LEMMA TreeInvCorrect == ASSUME LeavesOnly PROVE GatewaySpec => []TreeInv
<1>1. LocksOnly
  BY DEF LeavesOnly
<1> QED BY <1>1, GatewayTree, CountInvCorrect, LeafInvCorrect, PTL DEF TreeInv

\* However the transactions of overlapping requests interleave, the counters of
\* the tree are exact whenever no worker is inside a call of it.
THEOREM GatewayCountersExact == ASSUME LeavesOnly PROVE GatewaySpec => []QuiescentExact
<1>1. LocksOnly
  BY DEF LeavesOnly
<1> QED BY <1>1, GatewayTree, QuiescentCorrect, PTL

\* Workers that share user ids across requests still see the abstract hierarchy:
\* each store of an owner finds the path free.
THEOREM GatewayImplementsHierarchy ==
    ASSUME LeavesOnly PROVE GatewaySpec => ImplementsHierarchicalLock
  BY GatewayTree, Refinement, PTL
-----------------------------------------------------------------------------
\* The counters of gateways.

\* Locks are counted around lock targets only.
LEMMA ShareTargets ==
    ASSUME TreeInv, NEW t \in Thread, NEW m \in Node, NEW n \in AboveShare(t, m) \cup BelowShare(t, m)
    PROVE  m \in LockTargets /\ n \in Above[m] \cup Below[m]
<1>1. CASE pc[t] = "inform" /\ call[t].node = m
  <2>1. call[t].op \in {"lock", "unlock"}
    BY <1>1, RunningCall DEF TreeInv, CountInv, OwnInv, OwnOK
  <2>2. m \in LockTargets
    BY <1>1, <2>1 DEF TreeInv, CountInv, OwnInv, OwnOK, LeafInv
  <2>3. PendingAbove(t) \subseteq Above[m] /\ PendingBelow(t) \subseteq Below[m]
    BY <1>1 DEF TreeInv, CountInv, PropagationOK
  <2> QED BY <2>2, <2>3 DEF AboveShare, BelowShare, Share
<1>2. CASE ~(pc[t] = "inform" /\ call[t].node = m)
  <2>1. Holds(t, m) /\ n \in Above[m] \cup Below[m]
    BY <1>2 DEF AboveShare, BelowShare, Share
  <2>2. m \in LockTargets
    BY <2>1 DEF Holds, TreeInv, LeafInv
  <2> QED BY <2>1, <2>2
<1> QED BY <1>1, <1>2

\* So the counters of a target are 0: no other target is above or below.
LEMMA TargetsUncounted ==
    ASSUME LeavesOnly, TreeInv, NEW n \in LockTargets
    PROVE  ancestorLockedCount[n] = 0 /\ descendantLockedCount[n] = 0
<1>0. n \in Node
  BY CallerAssumption
<1>1. \A t \in Thread, m \in Node : n \notin AboveShare(t, m) \cup BelowShare(t, m)
  <2> SUFFICES ASSUME NEW t \in Thread, NEW m \in Node, n \in AboveShare(t, m) \cup BelowShare(t, m)
               PROVE  FALSE
    OBVIOUS
  <2>1. m \in LockTargets /\ n \in Above[m] \cup Below[m]
    BY ShareTargets
  <2>2. n \notin Above[m] /\ m \notin Above[n]
    BY <2>1 DEF LeavesOnly
  <2> QED BY <2>1, <2>2, BelowIs
<1>2. \A p \in Slots : n \notin AboveShares[p] /\ n \notin BelowShares[p]
  BY <1>1 DEF Slots, AboveShares, BelowShares
<1>3. {p \in Slots : n \in AboveShares[p]} = {} /\ {p \in Slots : n \in BelowShares[p]} = {}
  BY <1>2
<1>4. /\ descendantLockedCount[n] = Cardinality({p \in Slots : n \in AboveShares[p]})
      /\ ancestorLockedCount[n] = Cardinality({p \in Slots : n \in BelowShares[p]})
  BY <1>0, CountsAre DEF TreeInv, CountInv
<1> QED BY <1>3, <1>4, FS_EmptySet

-----------------------------------------------------------------------------
\* What a step of the tree is for its worker.

Stays(t) == call'[t] = call[t] /\ held'[t] = held[t]

\* Before the CAS of lock() has succeeded: on, or refused.
Asks(t) ==
    /\ pc[t] # "idle" /\ pc[t] \notin InLock
    /\ \/ pc'[t] # "idle" /\ pc'[t] \notin InLock /\ Stays(t)
       \/ pc'[t] = "idle" /\ held'[t] = held[t]

\* The CAS of lock().
Wins(t) ==
    /\ pc[t] = "cas" /\ pc'[t] \in InLock \ {"rollback"} /\ Stays(t)
    /\ lockState[call[t].node] = 0

\* After it: on, or granted.
Holding(t) ==
    /\ pc[t] \in InLock
    /\ \/ pc'[t] \in InLock \ {"rollback"} /\ Stays(t)
       \/ pc'[t] = "idle" /\ held'[t] = held[t] \cup {<<call[t].node, UserId(t)>>}

\* unlock() before its CAS, at its CAS, and after it.
Keeps(t) == pc[t] \in InUnlock /\ pc'[t] \in InUnlock /\ Stays(t)
Frees(t) == pc[t] \in InUnlock /\ pc'[t] = "inform" /\ Stays(t)
Returns(t) ==
    /\ pc[t] = "inform"
    /\ \/ pc'[t] = "inform" /\ Stays(t)
       \/ pc'[t] = "idle" /\ held'[t] = held[t] \ {<<call[t].node, UserId(t)>>}

LEMMA CallUser ==
    ASSUME TypeInv, NEW t \in Thread, pc[t] # "idle"
    PROVE  call[t].user = UserId(t)
  BY WorkerUser DEF TypeInv, ControlOK

LEMMA LockMoves ==
    ASSUME LeavesOnly, TreeInv, NEW t \in Thread, Step(t), pc[t] # "idle", pc[t] # "rollback",
           call[t].op = "lock"
    PROVE  OthersRest(t) /\ (Asks(t) \/ Wins(t) \/ Holding(t))
<1> DEFINE n == call[t].node
<1>1. /\ TypeInv /\ OwnInv /\ n \in LockTargets /\ call[t].user = UserId(t)
      /\ pc[t] \notin UnlockLabels
  BY CallUser DEF TreeInv, CountInv, OwnInv, LeafInv, TypeInv, ControlOK, FitsOp
<1>2. ancestorLockedCount[n] = 0 /\ descendantLockedCount[n] = 0
  BY <1>1, TargetsUncounted
<1>3. CASE LoadAncestors(t)
  <2>1. pc[t] = "loadAncestors" /\ Proceed(t, "loadDescendants")
    BY <1>2, <1>3 DEF LoadAncestors
  <2> QED BY <1>1, <2>1, ProceedShape DEF Asks, Stays, InLock
<1>4. CASE LoadDescendants(t)
  <2>1. pc[t] = "loadDescendants" /\ Proceed(t, "cas")
    BY <1>2, <1>4 DEF LoadDescendants
  <2> QED BY <1>1, <2>1, ProceedShape DEF Asks, Stays, InLock
<1>5. CASE CasLock(t)
  <2>1. CASE lockState[n] = 0
    <3>1. pc[t] = "cas" /\ Proceed(t, "recheckAncestors")
      BY <1>5, <2>1 DEF CasLock
    <3> QED BY <1>1, <2>1, <3>1, ProceedShape DEF Wins, Stays, InLock
  <2>2. CASE lockState[n] # 0
    <3>1. pc[t] = "cas" /\ ReturnFalse(t)
      BY <1>5, <2>2 DEF CasLock
    <3> QED BY <1>1, <3>1, ReturnFalseShape DEF Asks, InLock
  <2> QED BY <2>1, <2>2
<1>6. CASE CasLockSpurious(t)
  <2>1. pc[t] = "cas" /\ UNCHANGED <<pc, call, held>>
    BY <1>6 DEF CasLockSpurious, threadVars
  <2> QED BY <2>1 DEF Asks, Stays, InLock, OthersRest
<1>7. CASE RecheckAncestors(t)
  <2>1. pc[t] = "recheckAncestors" /\ Proceed(t, "recheckDescendants")
    BY <1>2, <1>7 DEF RecheckAncestors
  <2> QED BY <1>1, <2>1, ProceedShape DEF Holding, Stays, InLock
<1>8. CASE RecheckDescendants(t)
  <2>1. pc[t] = "recheckDescendants" /\ Proceed(t, "setOwner")
    BY <1>2, <1>8 DEF RecheckDescendants
  <2> QED BY <1>1, <2>1, ProceedShape DEF Holding, Stays, InLock
<1>9. CASE SetOwner(t)
  <2>1. pc[t] = "setOwner" /\ StartInform(t, n)
    BY <1>9 DEF SetOwner
  <2> QED BY <1>1, <2>1, StartInformShape DEF Holding, Stays, InLock
<1>10. CASE InformAncestor(t) \/ InformDescendant(t)
  <2>1. pc[t] = "inform" /\ UNCHANGED <<pc, call, held>>
    BY <1>10 DEF InformAncestor, InformDescendant
  <2> QED BY <2>1 DEF Holding, Stays, InLock, OthersRest
<1>11. CASE InformDone(t)
  <2>1. found[t] = <<>>
    BY <1>1 DEF TypeInv, ControlOK
  <2>2. pc[t] = "inform" /\ Return(t, held[t] \cup {<<n, UserId(t)>>})
    BY <1>1, <1>11, <2>1 DEF InformDone
  <2> QED BY <1>1, <2>2, ReturnShape DEF Holding, InLock
<1>12. ~(Rollback(t) \/ CheckOwner(t) \/ ClearOwner(t) \/ CasFree(t))
  BY <1>1 DEF Rollback, CheckOwner, ClearOwner, CasFree, UnlockLabels
<1> QED BY <1>1, <1>3, <1>4, <1>5, <1>6, <1>7, <1>8, <1>9, <1>10, <1>11, <1>12, NeverThere DEF Step

LEMMA UnlockMoves ==
    ASSUME LeavesOnly, TreeInv, NEW t \in Thread, Step(t), pc[t] # "idle", call[t].op = "unlock"
    PROVE  OthersRest(t) /\ (Keeps(t) \/ Frees(t) \/ Returns(t))
<1> DEFINE n == call[t].node
<1>1. /\ TypeInv /\ OwnInv /\ call[t].user = UserId(t) /\ n \in Node
      /\ pc[t] \notin LockLabels /\ pc[t] # "setOwner"
  BY CallUser, RunningCall DEF TreeInv, CountInv, OwnInv, TypeInv, ControlOK, FitsOp
<1>2. CASE CheckOwner(t)
  <2>1. pc[t] = "checkOwner" /\ lockedBy[n] = call[t].user
    BY <1>1, <1>2 DEF CheckOwner, OwnInv, OwnOK
  <2>2. Proceed(t, "clearOwner")
    BY <1>2, <2>1 DEF CheckOwner
  <2> QED BY <1>1, <2>1, <2>2, ProceedShape DEF Keeps, Stays, InUnlock
<1>3. CASE ClearOwner(t)
  <2>1. pc[t] = "clearOwner" /\ Proceed(t, "casFree")
    BY <1>3 DEF ClearOwner
  <2> QED BY <1>1, <2>1, ProceedShape DEF Keeps, Stays, InUnlock
<1>4. CASE CasFree(t)
  <2>1. pc[t] = "casFree" /\ Holds(t, n)
    BY <1>1, <1>4, WorkerUser DEF CasFree, OwnInv, OwnOK, Holds
  <2>2. lockState[n] = 1
    BY <1>1, <2>1 DEF OwnInv, NodeExclusive, Tenant
  <2>3. StartInform(t, n)
    BY <1>4, <2>2 DEF CasFree
  <2> QED BY <1>1, <2>1, <2>3, StartInformShape DEF Frees, Stays, InUnlock
<1>5. CASE InformAncestor(t) \/ InformDescendant(t)
  <2>1. pc[t] = "inform" /\ UNCHANGED <<pc, call, held>>
    BY <1>5 DEF InformAncestor, InformDescendant
  <2> QED BY <2>1 DEF Returns, Stays, OthersRest
<1>6. CASE InformDone(t)
  <2>1. found[t] = <<>>
    BY <1>1 DEF TypeInv, ControlOK
  <2>2. pc[t] = "inform" /\ Return(t, held[t] \ {<<n, UserId(t)>>})
    BY <1>1, <1>6, <2>1 DEF InformDone
  <2> QED BY <1>1, <2>2, ReturnShape DEF Returns
<1>7. ~(\/ LoadAncestors(t) \/ LoadDescendants(t) \/ CasLock(t) \/ CasLockSpurious(t)
        \/ RecheckAncestors(t) \/ RecheckDescendants(t) \/ Rollback(t) \/ SetOwner(t))
  BY <1>1 DEF LoadAncestors, LoadDescendants, CasLock, CasLockSpurious, RecheckAncestors,
     RecheckDescendants, Rollback, SetOwner, LockLabels
<1> QED BY <1>1, <1>2, <1>3, <1>4, <1>5, <1>6, <1>7, NeverThere DEF Step
-----------------------------------------------------------------------------
\* The invariant.

\* Locking and Looping after a step.
LEMMA LockingNext ==
    ASSUME NEW t \in Thread
    PROVE  Locking(t)' <=>
              \/ pc'[t] = "idle" /\ (held'[t] = {} \/ \E n \in LockTargets : held'[t] = {<<n, UserId(t)>>})
              \/ pc'[t] # "idle" /\ call'[t].op = "lock" /\ held'[t] = {}
  BY DEF Locking, UserId

LEMMA TreeStepWorkers ==
    ASSUME LeavesOnly, TreeInv, GatewayInv, NEW t \in Thread, TreeStep(t)
    PROVE  GatewayInv'
<1>1. /\ TypeInv /\ Step(t) /\ pc[t] # "idle" /\ UNCHANGED gatewayVars
      /\ pc[t] # "rollback" /\ WorkerOK(t) /\ stage[t] \in {"out", "loop", "locking"}
  <2>1. TypeInv /\ Step(t) /\ UNCHANGED gatewayVars
    BY DEF TreeStep, TreeInv, CountInv, OwnInv
  <2>2. pc[t] # "idle"
    BY <2>1 DEF Step, LoadAncestors, LoadDescendants, CasLock, CasLockSpurious, RecheckAncestors,
       RecheckDescendants, Rollback, SetOwner, InformAncestor, InformDescendant, InformDone,
       CheckOwner, ClearOwner, CasFree, RestoreOwner, CheckState, CheckAncestors, ScanState,
       ScanOwner, ScanDone, FreeState, FreeOwner, CasUpgrade
  <2> QED BY <2>1, <2>2 DEF GatewayInv, GatewayTypes, WorkerOK
<1>2. UNCHANGED <<metrics, request, left, stage>>
  BY <1>1 DEF gatewayVars
<1>3. GatewayTypes'
  BY <1>2 DEF GatewayInv, GatewayTypes
<1>4. OthersRest(t) /\ WorkerOK(t)'
  <2>1. CASE stage[t] = "locking"
    <3>1. call[t].op = "lock" /\ held[t] = {}
      BY <1>1, <2>1 DEF WorkerOK, Locking
    <3>2. call[t].node \in LockTargets
      BY <3>1 DEF TreeInv, LeafInv
    <3>3. OthersRest(t) /\ (Asks(t) \/ Wins(t) \/ Holding(t))
      BY <1>1, <3>1, LockMoves
    <3>4. pc'[t] # "rollback" /\ Locking(t)'
      BY <3>1, <3>2, <3>3, LockingNext DEF Asks, Wins, Holding, Stays, InLock
    <3> QED BY <1>1, <1>2, <2>1, <3>3, <3>4 DEF WorkerOK
  <2>2. CASE stage[t] = "loop"
    <3>1. call[t].op = "unlock" /\ held[t] = {<<call[t].node, UserId(t)>>}
      BY <1>1, <2>2 DEF WorkerOK, Looping
    <3>2. OthersRest(t) /\ (Keeps(t) \/ Frees(t) \/ Returns(t))
      BY <1>1, <3>1, UnlockMoves
    <3>3. \/ pc'[t] # "idle" /\ call'[t].op = "unlock" /\ held'[t] = {<<call'[t].node, UserId(t)>>}
          \/ pc'[t] = "idle" /\ held'[t] = {}
      BY <3>1, <3>2 DEF Keeps, Frees, Returns, Stays, InUnlock
    <3>4. pc'[t] # "rollback" /\ Looping(t)'
      BY <3>2, <3>3 DEF Looping, Keeps, Frees, Returns, InUnlock, UserId
    <3> QED BY <1>1, <1>2, <2>2, <3>2, <3>4 DEF WorkerOK
  <2>3. CASE stage[t] = "out"
    BY <1>1, <2>3 DEF WorkerOK
  <2> QED BY <1>1, <2>1, <2>2, <2>3
<1>5. ASSUME NEW s \in Thread \ {t} PROVE WorkerOK(s)'
  <2>1. pc'[s] = pc[s] /\ call'[s] = call[s] /\ held'[s] = held[s] /\ stage'[s] = stage[s] /\ request' = request
    BY <1>2, <1>4 DEF OthersRest
  <2>2. WorkerOK(s)
    BY DEF GatewayInv
  <2> QED BY <2>1, <2>2 DEF WorkerOK, Locking, Looping, UserId
<1> QED BY <1>3, <1>4, <1>5 DEF GatewayInv

\* A step of t in its loop that keeps the account of t in order.
LEMMA LoopStep ==
    ASSUME GatewayInv, NEW t \in Thread, UNCHANGED request, GatewayTypes', OthersRest(t),
           \A s \in Thread \ {t} : stage'[s] = stage[s],
           WorkerOK(t)'
    PROVE  GatewayInv'
<1> SUFFICES ASSUME NEW s \in Thread \ {t} PROVE WorkerOK(s)'
  BY DEF GatewayInv
<1>1. pc'[s] = pc[s] /\ call'[s] = call[s] /\ held'[s] = held[s] /\ stage'[s] = stage[s]
  BY DEF OthersRest
<1>2. WorkerOK(s)
  BY DEF GatewayInv
<1> QED BY <1>1, <1>2 DEF WorkerOK, Locking, Looping, UserId

\* A call of t starts.
LEMMA BeginShape ==
    ASSUME TypeInv, NEW t \in Thread, NEW op, NEW n, NEW u, NEW l, Begin(t, op, n, u, l)
    PROVE  /\ pc[t] = "idle" /\ pc'[t] = l /\ held'[t] = held[t]
           /\ call'[t] = [op |-> op, node |-> n, user |-> u]
           /\ OthersRest(t)
  BY DEF Begin, Goto, OthersRest, TypeInv, ThreadTypes

LEMMA BeginWorker ==
    ASSUME TypeInv, NEW t \in Thread, NEW op, NEW n, NEW l, Begin(t, op, n, UserId(t), l)
    PROVE  /\ pc[t] = "idle" /\ pc'[t] = l /\ held'[t] = held[t]
           /\ call'[t].op = op /\ call'[t].node = n
           /\ OthersRest(t)
<1> DEFINE u == UserId(t)
<1>1. Begin(t, op, n, u, l)
  OBVIOUS
<1> HIDE DEF u
<1>2. /\ pc[t] = "idle" /\ pc'[t] = l /\ held'[t] = held[t]
      /\ call'[t] = [op |-> op, node |-> n, user |-> u]
      /\ OthersRest(t)
  BY <1>1, BeginShape
<1> QED BY <1>2

LEMMA LoopWorkers ==
    ASSUME TypeInv, GatewayInv, NEW t \in Thread,
           \/ \E n \in LockTargets : BeginTransaction(t, n)
           \/ Succeed(t) \/ Fail(t) \/ EndWorker(t)
    PROVE  GatewayInv'
<1>1. GatewayTypes /\ WorkerOK(t)
  BY DEF GatewayInv
<1>2. ASSUME NEW n \in LockTargets, BeginTransaction(t, n) PROVE GatewayInv'
  <2>1. /\ stage[t] = "loop" /\ left[t] > 0 /\ Begin(t, "lock", n, UserId(t), "loadAncestors")
        /\ UNCHANGED request
    BY <1>2 DEF BeginTransaction, CallLock
  <2>2. /\ pc[t] = "idle" /\ pc'[t] = "loadAncestors" /\ call'[t].op = "lock" /\ held'[t] = held[t]
        /\ OthersRest(t)
    BY <2>1, BeginWorker
  <2>3. held[t] = {}
    BY <1>1, <2>1, <2>2 DEF WorkerOK, Looping
  <2>4. left[t] - 1 \in 0 .. TxnPerThread
    BY <1>1, <2>1, GatewayAssumption DEF GatewayTypes
  <2>5. GatewayTypes'
    BY <1>1, <1>2, <2>4 DEF GatewayTypes, BeginTransaction, Metrics
  <2>6. stage'[t] = "locking" /\ \A s \in Thread \ {t} : stage'[s] = stage[s]
    BY <1>1, <1>2 DEF GatewayTypes, BeginTransaction
  <2>7. WorkerOK(t)'
    BY <1>1, <2>1, <2>2, <2>3, <2>6 DEF WorkerOK, Locking
  <2> QED BY <2>1, <2>2, <2>5, <2>6, <2>7, LoopStep
<1>3. ASSUME Succeed(t) PROVE GatewayInv'
  <2>1. PICK h \in held[t] : CallUnlock(t, h[1], UserId(t))
    BY <1>3 DEF Succeed
  <2>2. stage[t] = "locking" /\ pc[t] = "idle" /\ UNCHANGED request
    BY <1>3 DEF Succeed, LockReturned
  <2>3. PICK n \in LockTargets : held[t] = {<<n, UserId(t)>>}
    BY <1>1, <2>1, <2>2 DEF WorkerOK, Locking
  <2>4. Begin(t, "unlock", n, UserId(t), "checkOwner")
    BY <2>1, <2>3 DEF CallUnlock
  <2>5. /\ pc'[t] = "checkOwner" /\ call'[t].op = "unlock" /\ call'[t].node = n
        /\ held'[t] = held[t] /\ OthersRest(t)
    BY <2>4, BeginWorker
  <2>6. GatewayTypes'
    BY <1>1, <1>3 DEF GatewayTypes, Succeed, Metrics
  <2>7. stage'[t] = "loop" /\ \A s \in Thread \ {t} : stage'[s] = stage[s]
    BY <1>1, <1>3 DEF GatewayTypes, Succeed
  <2>8. WorkerOK(t)'
    BY <1>1, <2>2, <2>3, <2>5, <2>7 DEF WorkerOK, Looping, UserId
  <2> QED BY <2>2, <2>5, <2>6, <2>7, <2>8, LoopStep
<1>4. ASSUME Fail(t) \/ EndWorker(t) PROVE GatewayInv'
  <2>1. UNCHANGED <<pc, call, held, request>>
    BY <1>4 DEF Fail, EndWorker, vars, threadVars
  <2>2. GatewayTypes'
    BY <1>1, <1>4 DEF GatewayTypes, Fail, EndWorker, Metrics
  <2>3. /\ \A s \in Thread \ {t} : stage'[s] = stage[s]
        /\ stage'[t] \in {"loop", "out"}
    BY <1>1, <1>4 DEF GatewayTypes, Fail, EndWorker
  <2>4. stage[t] # "out" /\ pc[t] = "idle" /\ held[t] = {}
    BY <1>1, <1>4 DEF Fail, EndWorker, LockReturned, WorkerOK, Looping
  <2>5. WorkerOK(t)'
    BY <1>1, <2>1, <2>3, <2>4 DEF WorkerOK, Looping
  <2>6. OthersRest(t)
    BY <2>1 DEF OthersRest
  <2> QED BY <2>1, <2>2, <2>3, <2>5, <2>6, LoopStep
<1> QED BY <1>2, <1>3, <1>4

LEMMA RequestWorkers ==
    ASSUME GatewayInv, NEW r \in Request, StartWorkers(r) \/ Answer(r)
    PROVE  GatewayInv'
<1>1. GatewayTypes /\ UNCHANGED <<pc, call, held>>
  BY DEF GatewayInv, StartWorkers, Answer, vars, threadVars
<1>2. GatewayTypes'
  BY <1>1, GatewayAssumption DEF GatewayTypes, StartWorkers, Answer, Metrics
<1> SUFFICES ASSUME NEW t \in Thread PROVE WorkerOK(t)'
  BY <1>2 DEF GatewayInv
<1>3. WorkerOK(t) /\ RequestOf[t] \in Request
  BY GatewayAssumption DEF GatewayInv
<1>4. CASE StartWorkers(r)
  <2>1. CASE RequestOf[t] = r
    <3>1. stage[t] = "out"
      BY <1>3, <1>4, <2>1 DEF WorkerOK, StartWorkers
    <3>2. stage'[t] = "loop" /\ request'[RequestOf[t]] = "running"
      BY <1>1, <1>4, <2>1 DEF StartWorkers, StartedBy, GatewayTypes
    <3> QED BY <1>1, <1>3, <3>1, <3>2 DEF WorkerOK, Looping
  <2>2. CASE RequestOf[t] # r
    <3>1. stage'[t] = stage[t] /\ request'[RequestOf[t]] = request[RequestOf[t]]
      BY <1>1, <1>4, <2>2, <1>3 DEF StartWorkers, StartedBy, GatewayTypes
    <3> QED BY <1>1, <1>3, <3>1 DEF WorkerOK, Looping, Locking, UserId
  <2> QED BY <2>1, <2>2
<1>5. CASE Answer(r)
  <2>1. UNCHANGED stage /\ (RequestOf[t] = r => stage[t] = "out")
    BY <1>5 DEF Answer, StartedBy
  <2>2. RequestOf[t] # r => request'[RequestOf[t]] = request[RequestOf[t]]
    BY <1>1, <1>3, <1>5 DEF Answer, GatewayTypes
  <2> QED BY <1>1, <1>3, <2>1, <2>2 DEF WorkerOK, Looping, Locking, UserId
<1> QED BY <1>4, <1>5

LEMMA GatewayInvInit == GatewayInit => GatewayInv
  BY GatewayAssumption DEF GatewayInit, Init, GatewayInv, GatewayTypes, WorkerOK, Metrics

LEMMA GatewayInvNext ==
    ASSUME LeavesOnly, TreeInv, GatewayInv, [GatewayNext]_<<vars, gatewayVars>>
    PROVE  GatewayInv'
<1>1. TypeInv
  BY DEF TreeInv, CountInv, OwnInv
<1>2. CASE UNCHANGED <<vars, gatewayVars>>
  BY <1>2 DEF vars, threadVars, gatewayVars, GatewayInv, GatewayTypes, WorkerOK, Locking, Looping, UserId
<1>3. ASSUME NEW t \in Thread, Work(t) PROVE GatewayInv'
  BY <1>1, <1>3, TreeStepWorkers, LoopWorkers DEF Work
<1> QED BY <1>2, <1>3, RequestWorkers DEF GatewayNext

LEMMA GatewayInvCorrect == ASSUME LeavesOnly PROVE GatewaySpec => []GatewayInv
  BY GatewayInvInit, GatewayInvNext, TreeInvCorrect, PTL DEF GatewaySpec
-----------------------------------------------------------------------------
\* What is left of a simulation.

\* The shared metrics and the loops of the workers keep their types.
THEOREM GatewayTypesCorrect == ASSUME LeavesOnly PROVE GatewaySpec => []GatewayTypeOK
<1>1. TreeInv /\ GatewayInv => GatewayTypeOK
  BY DEF TreeInv, CountInv, OwnInv, TypeInv, NodeTypes, ThreadTypes, GatewayInv, GatewayTypes,
     GatewayTypeOK, TypeOK
<1> QED BY <1>1, TreeInvCorrect, GatewayInvCorrect, PTL

LEMMA NothingLeft ==
    ASSUME TreeInv, \A t \in Thread : pc[t] = "idle" /\ held[t] = {}
    PROVE  verifyTreeInvariants
<1> SUFFICES ASSUME NEW n \in Node
             PROVE  lockState[n] = 0 /\ ancestorLockedCount[n] = 0 /\ descendantLockedCount[n] = 0
  BY DEF verifyTreeInvariants
<1>1. \A t \in Thread, m \in Node : ~Holds(t, m) /\ ~Tenant(t, m)
  BY DEF Holds, Tenant, Running, TreeInv, CountInv, OwnInv, TypeInv, ControlOK, NoCall
<1>2. lockState[n] = 0
  BY <1>1 DEF TreeInv, CountInv, OwnInv, NodeExclusive, TypeInv, NodeTypes
<1>3. \A t \in Thread, m \in Node : AboveShare(t, m) = {} /\ BelowShare(t, m) = {}
  BY <1>1 DEF AboveShare, BelowShare, Share
<1>4. \A p \in Slots : AboveShares[p] = {} /\ BelowShares[p] = {}
  BY <1>3 DEF Slots, AboveShares, BelowShares
<1>5. {p \in Slots : n \in AboveShares[p]} = {} /\ {p \in Slots : n \in BelowShares[p]} = {}
  BY <1>4
<1>6. /\ descendantLockedCount[n] = Cardinality({p \in Slots : n \in AboveShares[p]})
      /\ ancestorLockedCount[n] = Cardinality({p \in Slots : n \in BelowShares[p]})
  BY CountsAre DEF TreeInv, CountInv
<1> QED BY <1>2, <1>5, <1>6, FS_EmptySet

\* verifyTreeInvariants of the stress test passes whenever all threads have been
\* joined, whatever the tree, the number of threads and of transactions.
THEOREM StressTestPassesCorrect == ASSUME LeavesOnly PROVE GatewaySpec => []StressTestPasses
<1>1. TreeInv /\ GatewayInv => StressTestPasses
  <2> SUFFICES ASSUME TreeInv, GatewayInv, \A r \in Request : request[r] # "running"
               PROVE  verifyTreeInvariants
    BY DEF StressTestPasses
  <2>1. \A t \in Thread : stage[t] = "out"
    BY GatewayAssumption DEF GatewayInv, WorkerOK
  <2> QED BY <2>1, NothingLeft DEF GatewayInv, WorkerOK
<1> QED BY <1>1, TreeInvCorrect, GatewayInvCorrect, PTL
-----------------------------------------------------------------------------
\* The engine's view of a worker.

\* LeafOf and PhaseOf of a worker at stage s, label p, in call c, holding h.
LeafAt(s, p, c, h) ==
    IF (s = "locking" /\ p \in InLock) \/ (s = "loop" /\ p \in InUnlock) THEN c.node
    ELSE IF s = "locking" /\ p = "idle" /\ h # {} THEN (CHOOSE x \in h : TRUE)[1]
    ELSE NoNode
PhaseAt(s, l) ==
    CASE s = "out" -> "out"
      [] s = "locking" -> IF l # NoNode THEN "holding" ELSE "asking"
      [] s = "loop" -> IF l # NoNode THEN "paying" ELSE "ready"

LEMMA PlaceFacts ==
    ASSUME NEW p, NEW c, NEW h
    PROVE  /\ LeafAt("out", p, c, h) = NoNode
           /\ p \notin InUnlock => LeafAt("loop", p, c, h) = NoNode
           /\ p \in InUnlock => LeafAt("loop", p, c, h) = c.node
           /\ p \notin InLock \cup {"idle"} => LeafAt("locking", p, c, h) = NoNode
           /\ p \in InLock => LeafAt("locking", p, c, h) = c.node
           /\ h = {} => LeafAt("locking", "idle", c, h) = NoNode
           /\ \A l : /\ PhaseAt("out", l) = "out"
                     /\ PhaseAt("loop", l) = IF l # NoNode THEN "paying" ELSE "ready"
                     /\ PhaseAt("locking", l) = IF l # NoNode THEN "holding" ELSE "asking"
  BY DEF LeafAt, PhaseAt, InLock, InUnlock

LEMMA LeafHeld ==
    ASSUME NEW c, NEW h, NEW n, NEW u, h = {<<n, u>>}
    PROVE  LeafAt("locking", "idle", c, h) = n
<1>1. (CHOOSE x \in h : TRUE) = <<n, u>>
  OBVIOUS
<1> QED BY <1>1 DEF LeafAt, InLock, InUnlock

LEMMA Places ==
    ASSUME NEW t \in Thread
    PROVE  /\ LeafOf(t) = LeafAt(stage[t], pc[t], call[t], held[t])
           /\ PhaseOf(t) = PhaseAt(stage[t], LeafOf(t))
  BY DEF LeafOf, PhaseOf, LeafAt, PhaseAt, LockReturned

LEMMA PlacesNext ==
    ASSUME NEW t \in Thread
    PROVE  /\ LeafOf(t)' = LeafAt(stage'[t], pc'[t], call'[t], held'[t])
           /\ PhaseOf(t)' = PhaseAt(stage'[t], LeafOf(t)')
  BY DEF LeafOf, PhaseOf, LeafAt, PhaseAt, LockReturned

\* The gateway a worker has is locked.
LEMMA LeafLocked ==
    ASSUME TreeInv, GatewayInv, NEW t \in Thread, NEW n \in Node, LeafOf(t) = n
    PROVE  lockState[n] = 1
<1>1. /\ WorkerOK(t) /\ stage[t] \in {"out", "loop", "locking"} /\ n # NoNode
      /\ TypeInv /\ ControlOK(t) /\ NodeExclusive
  BY TreeAssumption DEF GatewayInv, GatewayTypes, TreeInv, CountInv, OwnInv, TypeInv
<1>2. n = LeafAt(stage[t], pc[t], call[t], held[t])
  BY Places
<1>3. CASE stage[t] = "locking" /\ pc[t] \in InLock
  <2>1. call[t].node = n /\ call[t].op = "lock" /\ pc[t] # "idle"
    BY <1>1, <1>2, <1>3, PlaceFacts DEF WorkerOK, Locking, InLock
  <2>2. Taking(t, n)
    BY <1>3, <2>1 DEF Taking, Running, InLock
  <2> QED BY <1>1, <2>2, TenantIs DEF NodeExclusive
<1>4. CASE stage[t] = "loop" /\ pc[t] \in InUnlock
  <2>1. call[t].node = n /\ held[t] = {<<n, UserId(t)>>} /\ pc[t] # "inform"
    BY <1>1, <1>2, <1>4, PlaceFacts DEF WorkerOK, Looping, InUnlock
  <2>2. Holds(t, n) /\ ~Freed(t, n)
    BY <2>1, WorkerUser DEF Holds, Freed
  <2> QED BY <1>1, <2>2, TenantIs DEF NodeExclusive
<1>5. CASE stage[t] = "locking" /\ pc[t] = "idle"
  <2>1. held[t] # {}
    BY <1>1, <1>2, <1>5, PlaceFacts
  <2>2. PICK m \in LockTargets : held[t] = {<<m, UserId(t)>>}
    BY <1>1, <1>5, <2>1 DEF WorkerOK, Locking
  <2>3. m = n
    <3> DEFINE u == UserId(t)
               h == held[t]
               c == call[t]
    <3>1. h = {<<m, u>>} /\ n = LeafAt("locking", "idle", c, h)
      BY <1>2, <1>5, <2>2
    <3> HIDE DEF u, h, c
    <3> QED BY <3>1, LeafHeld
  <2>4. Holds(t, n) /\ ~Freed(t, n)
    BY <1>5, <2>2, <2>3, WorkerUser DEF Holds, Freed
  <2> QED BY <1>1, <2>4, TenantIs DEF NodeExclusive
<1>6. CASE stage[t] = "out" \/ (stage[t] = "loop" /\ pc[t] \notin InUnlock)
           \/ (stage[t] = "locking" /\ pc[t] \notin InLock \cup {"idle"})
  BY <1>1, <1>2, <1>6, PlaceFacts
<1> QED BY <1>1, <1>3, <1>4, <1>5, <1>6
-----------------------------------------------------------------------------
\* The refinement.

Phases == [t \in Thread |-> PhaseOf(t)]
Leaves == [t \in Thread |-> LeafOf(t)]

\* Steps of the engine, in terms of these.
EngineStep == Abstraction!EngineNext \/ UNCHANGED <<metrics, request, Phases, Leaves, left>>

LEMMA EngineStepIs == EngineStep => [Abstraction!EngineNext]_Abstraction!engineVars
  BY DEF EngineStep, Abstraction!engineVars, Abstraction!workerVars, Phases, Leaves

LEMMA OneMoves ==
    ASSUME NEW t \in Thread, OthersRest(t), \A s \in Thread \ {t} : stage'[s] = stage[s]
    PROVE  /\ Phases' = [Phases EXCEPT ![t] = PhaseOf(t)']
           /\ Leaves' = [Leaves EXCEPT ![t] = LeafOf(t)']
<1>1. ASSUME NEW s \in Thread \ {t} PROVE LeafOf(s)' = LeafOf(s) /\ PhaseOf(s)' = PhaseOf(s)
  BY Places, PlacesNext DEF OthersRest
<1>2. Phases' = [s \in Thread |-> PhaseOf(s)'] /\ Leaves' = [s \in Thread |-> LeafOf(s)']
  BY DEF Phases, Leaves
<1> HIDE DEF Phases, Leaves
<1>3. Phases = [s \in Thread |-> PhaseOf(s)] /\ Leaves = [s \in Thread |-> LeafOf(s)]
  BY DEF Phases, Leaves
<1> QED BY <1>1, <1>2, <1>3

\* A worker that stays where it is.
LEMMA NobodyMoves ==
    ASSUME NEW t \in Thread, OthersRest(t), UNCHANGED <<metrics, request, left, stage>>,
           LeafOf(t)' = LeafOf(t), PhaseOf(t)' = PhaseOf(t)
    PROVE  EngineStep
<1>1. Phases' = [Phases EXCEPT ![t] = PhaseOf(t)] /\ Leaves' = [Leaves EXCEPT ![t] = LeafOf(t)]
  BY OneMoves
<1> QED BY <1>1 DEF EngineStep, Phases, Leaves

\* lock(): the CAS takes a gateway nobody has, the rest cannot be seen.
LEMMA LockRefines ==
    ASSUME LeavesOnly, TreeInv, GatewayInv, NEW t \in Thread, TreeStep(t),
           stage[t] = "locking", pc[t] # "idle"
    PROVE  EngineStep
<1> DEFINE n == call[t].node
<1>1. /\ WorkerOK(t) /\ Step(t) /\ call[t].op = "lock" /\ held[t] = {} /\ pc[t] # "rollback"
      /\ n \in LockTargets /\ n \in Node /\ n # NoNode
      /\ UNCHANGED <<metrics, request, left, stage>>
  BY CallerAssumption, TreeAssumption DEF GatewayInv, WorkerOK, Locking, TreeInv, LeafInv, TreeStep,
     gatewayVars
<1>2. OthersRest(t) /\ (Asks(t) \/ Wins(t) \/ Holding(t))
  BY <1>1, LockMoves
<1>3. /\ LeafOf(t) = LeafAt("locking", pc[t], call[t], held[t]) /\ PhaseOf(t) = PhaseAt("locking", LeafOf(t))
      /\ LeafOf(t)' = LeafAt("locking", pc'[t], call'[t], held'[t])
      /\ PhaseOf(t)' = PhaseAt("locking", LeafOf(t)')
  BY <1>1, Places, PlacesNext
<1>4. CASE Asks(t)
  <2>1. LeafOf(t) = NoNode
    BY <1>3, <1>4, PlaceFacts DEF Asks
  <2>2. LeafOf(t)' = NoNode
    BY <1>1, <1>3, <1>4, PlaceFacts DEF Asks, Stays
  <2> QED BY <1>1, <1>2, <1>3, <2>1, <2>2, NobodyMoves
<1>5. CASE Wins(t)
  <2>1. LeafOf(t) = NoNode /\ LeafOf(t)' = n
    BY <1>3, <1>5, PlaceFacts DEF Wins, Stays, InLock
  <2>2. PhaseOf(t) = "asking" /\ PhaseOf(t)' = "holding"
    BY <1>1, <1>3, <2>1, PlaceFacts
  <2>3. \A w \in Thread : LeafOf(w) # n
    BY <1>1, <1>5, LeafLocked DEF Wins
  <2>4. Phases' = [Phases EXCEPT ![t] = "holding"] /\ Leaves' = [Leaves EXCEPT ![t] = n]
    BY <1>1, <1>2, <2>1, <2>2, OneMoves
  <2>5. Phases[t] = "asking" /\ \A w \in Thread : Leaves[w] # n
    BY <2>2, <2>3 DEF Phases, Leaves
  <2>6. Abstraction!Take(t, n)
    BY <1>1, <2>4, <2>5 DEF Abstraction!Take, Abstraction!Locked, Abstraction!Enter, Phases, Leaves
  <2> QED BY <1>1, <2>6 DEF EngineStep, Abstraction!EngineNext, Abstraction!Work
<1>6. CASE Holding(t)
  <2>1. LeafOf(t) = n
    BY <1>3, <1>6, PlaceFacts DEF Holding
  <2>2. LeafOf(t)' = n
    <3>1. CASE pc'[t] = "idle" /\ held'[t] = {<<n, UserId(t)>>}
      <4> DEFINE u == UserId(t)
                 m == n
                 c == call'[t]
                 h == held'[t]
      <4>1. h = {<<m, u>>} /\ LeafOf(t)' = LeafAt("locking", "idle", c, h)
        BY <1>3, <3>1
      <4> HIDE DEF u, m, c, h
      <4>2. LeafOf(t)' = m
        BY <4>1, LeafHeld
      <4> QED BY <4>2 DEF m
    <3>2. CASE pc'[t] \in InLock /\ call'[t] = call[t]
      BY <1>3, <3>2, PlaceFacts
    <3> QED BY <1>1, <1>6, <3>1, <3>2 DEF Holding, Stays
  <2> QED BY <1>1, <1>2, <1>3, <2>1, <2>2, NobodyMoves
<1> QED BY <1>2, <1>4, <1>5, <1>6

\* unlock(): its CAS gives the gateway back.
LEMMA UnlockRefines ==
    ASSUME LeavesOnly, TreeInv, GatewayInv, NEW t \in Thread, TreeStep(t),
           stage[t] = "loop", pc[t] # "idle"
    PROVE  EngineStep
<1> DEFINE n == call[t].node
<1>1. /\ WorkerOK(t) /\ Step(t) /\ call[t].op = "unlock" /\ n \in Node /\ n # NoNode
      /\ UNCHANGED <<metrics, request, left, stage>>
  BY TreeAssumption, RunningCall DEF GatewayInv, WorkerOK, Looping, TreeInv, CountInv, OwnInv, TreeStep,
     gatewayVars
<1>2. OthersRest(t) /\ (Keeps(t) \/ Frees(t) \/ Returns(t))
  BY <1>1, UnlockMoves
<1>3. /\ LeafOf(t) = LeafAt("loop", pc[t], call[t], held[t]) /\ PhaseOf(t) = PhaseAt("loop", LeafOf(t))
      /\ LeafOf(t)' = LeafAt("loop", pc'[t], call'[t], held'[t])
      /\ PhaseOf(t)' = PhaseAt("loop", LeafOf(t)')
  BY <1>1, Places, PlacesNext
<1>4. CASE Keeps(t)
  <2>1. LeafOf(t) = n /\ LeafOf(t)' = n
    BY <1>3, <1>4, PlaceFacts DEF Keeps, Stays
  <2> QED BY <1>1, <1>2, <1>3, <2>1, NobodyMoves
<1>5. CASE Frees(t)
  <2>1. LeafOf(t) = n /\ LeafOf(t)' = NoNode
    BY <1>3, <1>5, PlaceFacts DEF Frees, InUnlock
  <2>2. PhaseOf(t) = "paying" /\ PhaseOf(t)' = "ready"
    BY <1>1, <1>3, <2>1, PlaceFacts
  <2>3. Phases' = [Phases EXCEPT ![t] = "ready"] /\ Leaves' = [Leaves EXCEPT ![t] = NoNode]
    BY <1>1, <1>2, <2>1, <2>2, OneMoves
  <2>4. Abstraction!Free(t)
    BY <1>1, <2>2, <2>3 DEF Abstraction!Free, Abstraction!Enter, Phases, Leaves
  <2> QED BY <2>4 DEF EngineStep, Abstraction!EngineNext, Abstraction!Work
<1>6. CASE Returns(t)
  <2>1. LeafOf(t) = NoNode /\ LeafOf(t)' = NoNode
    BY <1>3, <1>6, PlaceFacts DEF Returns, InUnlock
  <2> QED BY <1>1, <1>2, <1>3, <2>1, NobodyMoves
<1> QED BY <1>2, <1>4, <1>5, <1>6

\* The loop around the calls.
LEMMA LoopRefines ==
    ASSUME TypeInv, GatewayInv, NEW t \in Thread,
           \/ \E n \in LockTargets : BeginTransaction(t, n)
           \/ Succeed(t) \/ Fail(t) \/ EndWorker(t)
    PROVE  EngineStep
<1>0. WorkerOK(t) /\ GatewayTypes /\ NoNode \notin LockTargets
  BY CallerAssumption, TreeAssumption DEF GatewayInv
<1>1. ASSUME NEW n \in LockTargets, BeginTransaction(t, n) PROVE EngineStep
  <2>1. /\ stage[t] = "loop" /\ left[t] > 0 /\ Begin(t, "lock", n, UserId(t), "loadAncestors")
        /\ stage' = [stage EXCEPT ![t] = "locking"] /\ UNCHANGED request
        /\ left' = [left EXCEPT ![t] = @ - 1] /\ metrics' = [metrics EXCEPT !.total = @ + 1]
    BY <1>1 DEF BeginTransaction, CallLock
  <2>2. pc[t] = "idle" /\ pc'[t] = "loadAncestors" /\ OthersRest(t)
    BY <2>1, BeginWorker
  <2>3. stage'[t] = "locking" /\ \A s \in Thread \ {t} : stage'[s] = stage[s]
    BY <1>0, <2>1 DEF GatewayTypes
  <2>4. LeafOf(t) = NoNode /\ LeafOf(t)' = NoNode
    BY <2>1, <2>2, <2>3, Places, PlacesNext, PlaceFacts DEF InLock, InUnlock
  <2>5. PhaseOf(t) = "ready" /\ PhaseOf(t)' = "asking"
    BY <2>1, <2>3, <2>4, Places, PlacesNext, PlaceFacts
  <2>6. Phases' = [Phases EXCEPT ![t] = "asking"] /\ Leaves' = [Leaves EXCEPT ![t] = NoNode]
    BY <2>2, <2>3, <2>4, <2>5, OneMoves
  <2>7. Leaves' = Leaves
    BY <2>4, <2>6 DEF Leaves
  <2>8. Abstraction!Start(t)
    BY <2>1, <2>5, <2>6, <2>7 DEF Abstraction!Start, Abstraction!Enter, Abstraction!Count, Phases, Leaves
  <2> QED BY <2>8 DEF EngineStep, Abstraction!EngineNext, Abstraction!Work
<1>2. ASSUME Succeed(t) PROVE EngineStep
  <2>1. PICK g \in held[t] : CallUnlock(t, g[1], UserId(t))
    BY <1>2 DEF Succeed
  <2>2. /\ stage[t] = "locking" /\ pc[t] = "idle" /\ UNCHANGED <<request, left>>
        /\ stage' = [stage EXCEPT ![t] = "loop"] /\ metrics' = [metrics EXCEPT !.success = @ + 1]
    BY <1>2 DEF Succeed, LockReturned
  <2>3. PICK n \in LockTargets : held[t] = {<<n, UserId(t)>>}
    BY <1>0, <2>1, <2>2 DEF WorkerOK, Locking
  <2>4. Begin(t, "unlock", n, UserId(t), "checkOwner")
    BY <2>1, <2>3 DEF CallUnlock
  <2>5. pc'[t] = "checkOwner" /\ call'[t].node = n /\ OthersRest(t)
    BY <2>4, BeginWorker
  <2>6. stage'[t] = "loop" /\ \A s \in Thread \ {t} : stage'[s] = stage[s]
    BY <1>0, <2>2 DEF GatewayTypes
  <2>7. LeafOf(t) = n
    <3> DEFINE u == UserId(t)
               h == held[t]
               c == call[t]
    <3>1. h = {<<n, u>>} /\ LeafOf(t) = LeafAt("locking", "idle", c, h)
      BY <2>2, <2>3, Places
    <3> HIDE DEF u, h, c
    <3> QED BY <3>1, LeafHeld
  <2>8. LeafOf(t)' = n
    BY <2>5, <2>6, PlacesNext, PlaceFacts DEF InUnlock
  <2>9. PhaseOf(t) = "holding" /\ PhaseOf(t)' = "paying"
    BY <1>0, <2>2, <2>6, <2>7, <2>8, Places, PlacesNext, PlaceFacts
  <2>10. Phases' = [Phases EXCEPT ![t] = "paying"] /\ Leaves' = [Leaves EXCEPT ![t] = n]
    BY <2>5, <2>6, <2>8, <2>9, OneMoves
  <2>11. Leaves' = Leaves
    BY <2>7, <2>10 DEF Leaves
  <2>12. Abstraction!Granted(t)
    BY <2>2, <2>9, <2>10, <2>11
       DEF Abstraction!Granted, Abstraction!Enter, Abstraction!Count, Phases, Leaves
  <2> QED BY <2>12 DEF EngineStep, Abstraction!EngineNext, Abstraction!Work
<1>3. ASSUME Fail(t) PROVE EngineStep
  <2>1. /\ stage[t] = "locking" /\ pc[t] = "idle" /\ held[t] = {}
        /\ stage' = [stage EXCEPT ![t] = "loop"] /\ metrics' = [metrics EXCEPT !.failed = @ + 1]
        /\ UNCHANGED <<pc, call, held, request, left>>
    BY <1>3 DEF Fail, LockReturned, vars, threadVars
  <2>2. stage'[t] = "loop" /\ \A s \in Thread \ {t} : stage'[s] = stage[s]
    BY <1>0, <2>1 DEF GatewayTypes
  <2>3. LeafOf(t) = NoNode /\ LeafOf(t)' = NoNode
    BY <2>1, <2>2, Places, PlacesNext, PlaceFacts DEF InUnlock
  <2>4. PhaseOf(t) = "asking" /\ PhaseOf(t)' = "ready"
    BY <2>1, <2>2, <2>3, Places, PlacesNext, PlaceFacts
  <2>5. Phases' = [Phases EXCEPT ![t] = "ready"] /\ Leaves' = [Leaves EXCEPT ![t] = NoNode]
    BY <2>1, <2>2, <2>3, <2>4, OneMoves DEF OthersRest
  <2>6. Leaves' = Leaves
    BY <2>3, <2>5 DEF Leaves
  <2>7. Abstraction!Refused(t)
    BY <2>1, <2>4, <2>5, <2>6
       DEF Abstraction!Refused, Abstraction!Enter, Abstraction!Count, Phases, Leaves
  <2> QED BY <2>7 DEF EngineStep, Abstraction!EngineNext, Abstraction!Work
<1>4. ASSUME EndWorker(t) PROVE EngineStep
  <2>1. /\ stage[t] = "loop" /\ pc[t] = "idle" /\ left[t] = 0
        /\ stage' = [stage EXCEPT ![t] = "out"] /\ UNCHANGED <<pc, call, held, metrics, request, left>>
    BY <1>4 DEF EndWorker, vars, threadVars
  <2>2. stage'[t] = "out" /\ \A s \in Thread \ {t} : stage'[s] = stage[s]
    BY <1>0, <2>1 DEF GatewayTypes
  <2>3. LeafOf(t) = NoNode /\ LeafOf(t)' = NoNode
    BY <2>1, <2>2, Places, PlacesNext, PlaceFacts DEF InUnlock
  <2>4. PhaseOf(t) = "ready" /\ PhaseOf(t)' = "out"
    BY <2>1, <2>2, <2>3, Places, PlacesNext, PlaceFacts
  <2>5. Phases' = [Phases EXCEPT ![t] = "out"] /\ Leaves' = [Leaves EXCEPT ![t] = NoNode]
    BY <2>1, <2>2, <2>3, <2>4, OneMoves DEF OthersRest
  <2>6. Leaves' = Leaves
    BY <2>3, <2>5 DEF Leaves
  <2>7. Abstraction!Exit(t)
    BY <2>1, <2>4, <2>5, <2>6 DEF Abstraction!Exit, Abstraction!Enter, Phases, Leaves
  <2> QED BY <2>7 DEF EngineStep, Abstraction!EngineNext, Abstraction!Work
<1> QED BY <1>1, <1>2, <1>3, <1>4

\* Requests: their workers are out before and after.
LEMMA RequestRefines ==
    ASSUME GatewayInv, NEW r \in Request, StartWorkers(r) \/ Answer(r)
    PROVE  EngineStep
<1>1. \A t \in Thread : WorkerOK(t) /\ stage[t] \in {"out", "loop", "locking"}
  BY DEF GatewayInv, GatewayTypes
<1>2. CASE StartWorkers(r)
  <2>1. /\ request[r] = "none" /\ request' = [request EXCEPT ![r] = "running"]
        /\ stage' = [t \in Thread |-> IF t \in StartedBy(r) THEN "loop" ELSE stage[t]]
        /\ left' = [t \in Thread |-> IF t \in StartedBy(r) THEN TxnPerThread ELSE left[t]]
        /\ UNCHANGED <<pc, call, held, metrics>>
    BY <1>2 DEF StartWorkers, vars, threadVars
  <2>2. ASSUME NEW t \in Thread
        PROVE  /\ LeafOf(t)' = LeafOf(t)
               /\ PhaseOf(t)' = IF t \in StartedBy(r) THEN "ready" ELSE PhaseOf(t)
    <3>1. CASE t \in StartedBy(r)
      <4>1. stage[t] = "out" /\ pc[t] = "idle" /\ stage'[t] = "loop" /\ pc'[t] = "idle"
        BY <1>1, <2>1, <3>1 DEF StartedBy, WorkerOK
      <4>2. LeafOf(t) = NoNode /\ LeafOf(t)' = NoNode
        BY <4>1, Places, PlacesNext, PlaceFacts DEF InUnlock
      <4>3. PhaseOf(t)' = "ready"
        BY <4>1, <4>2, PlacesNext, PlaceFacts
      <4> QED BY <3>1, <4>2, <4>3
    <3>2. CASE t \notin StartedBy(r)
      <4>1. stage'[t] = stage[t]
        BY <2>1, <3>2
      <4> QED BY <2>1, <3>2, <4>1, Places, PlacesNext
    <3> QED BY <3>1, <3>2
  <2>3. Abstraction!Post(r)
    <3>1. Leaves' = Leaves
      BY <2>2 DEF Leaves
    <3>2. Phases' = [t \in Thread |-> IF t \in StartedBy(r) THEN "ready" ELSE PhaseOf(t)]
      BY <2>2 DEF Phases
    <3>3. Phases' = [t \in Thread |-> IF t \in StartedBy(r) THEN "ready" ELSE Phases[t]]
      BY <3>2 DEF Phases
    <3> QED BY <2>1, <3>1, <3>3
           DEF Abstraction!Post, Abstraction!WorkersOf, StartedBy, Phases, Leaves
  <2> QED BY <2>3 DEF EngineStep, Abstraction!EngineNext
<1>3. CASE Answer(r)
  <2>1. UNCHANGED <<pc, call, held, stage, left, metrics>> /\ \A t \in StartedBy(r) : stage[t] = "out"
    BY <1>3 DEF Answer, vars, threadVars
  <2>2. \A t \in Thread : LeafOf(t)' = LeafOf(t) /\ PhaseOf(t)' = PhaseOf(t)
    BY <2>1, Places, PlacesNext
  <2>3. \A t \in StartedBy(r) : PhaseOf(t) = "out"
    BY <2>1 DEF PhaseOf
  <2>4. Phases' = Phases /\ Leaves' = Leaves
    BY <2>2 DEF Phases, Leaves
  <2>5. \A t \in StartedBy(r) : Phases[t] = "out"
    BY <2>3 DEF Phases, StartedBy
  <2>6. Abstraction!Respond(r)
    BY <1>3, <2>1, <2>4, <2>5
       DEF Answer, Abstraction!Respond, Abstraction!WorkersOf, Abstraction!workerVars, StartedBy, Phases, Leaves
  <2> QED BY <2>6 DEF EngineStep, Abstraction!EngineNext
<1> QED BY <1>2, <1>3

\* With one atomic access a step, the workers' transactions on the lock-free
\* tree are those of the engine, for every tree, number of workers and requests.
THEOREM ImplementsEngineCorrect == ASSUME LeavesOnly PROVE GatewaySpec => ImplementsEngine
<1>1. GatewayInit => Abstraction!EngineInit
  <2> SUFFICES ASSUME GatewayInit PROVE Abstraction!EngineInit
    OBVIOUS
  <2>1. \A t \in Thread : LeafOf(t) = NoNode /\ PhaseOf(t) = "out"
    BY DEF GatewayInit, LeafOf, PhaseOf, LockReturned
  <2> QED BY <2>1 DEF GatewayInit, Abstraction!EngineInit
<1>2. TreeInv /\ GatewayInv /\ [GatewayNext]_<<vars, gatewayVars>>
        => [Abstraction!EngineNext]_Abstraction!engineVars
  <2> SUFFICES ASSUME TreeInv, GatewayInv, [GatewayNext]_<<vars, gatewayVars>> PROVE EngineStep
    BY EngineStepIs
  <2>1. TypeInv /\ \A t \in Thread : WorkerOK(t) /\ stage[t] \in {"out", "loop", "locking"}
    BY DEF TreeInv, CountInv, OwnInv, GatewayInv, GatewayTypes
  <2>2. CASE UNCHANGED <<vars, gatewayVars>>
    <3>1. UNCHANGED <<pc, call, held, stage, metrics, request, left>>
      BY <2>2 DEF vars, threadVars, gatewayVars
    <3>2. \A t \in Thread : LeafOf(t)' = LeafOf(t) /\ PhaseOf(t)' = PhaseOf(t)
      BY <3>1, Places, PlacesNext
    <3> QED BY <3>1, <3>2 DEF EngineStep, Phases, Leaves
  <2>3. ASSUME NEW t \in Thread, TreeStep(t) PROVE EngineStep
    <3>1. pc[t] # "idle"
      BY <2>3 DEF TreeStep, Step, LoadAncestors, LoadDescendants, CasLock, CasLockSpurious,
         RecheckAncestors, RecheckDescendants, Rollback, SetOwner, InformAncestor, InformDescendant,
         InformDone, CheckOwner, ClearOwner, CasFree, RestoreOwner, CheckState, CheckAncestors,
         ScanState, ScanOwner, ScanDone, FreeState, FreeOwner, CasUpgrade
    <3>2. stage[t] \in {"loop", "locking"}
      BY <2>1, <3>1 DEF WorkerOK
    <3> QED BY <2>3, <3>1, <3>2, LockRefines, UnlockRefines
  <2>4. ASSUME NEW t \in Thread, Work(t) PROVE EngineStep
    BY <2>1, <2>3, <2>4, LoopRefines DEF Work
  <2> QED BY <2>2, <2>4, RequestRefines DEF GatewayNext
<1> QED BY <1>1, <1>2, TreeInvCorrect, GatewayInvCorrect, PTL
       DEF GatewaySpec, ImplementsEngine, Abstraction!EngineSpec
=============================================================================
