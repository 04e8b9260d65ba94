---------------------------- MODULE AtomicLockProofs ----------------------------
(***************************************************************************)
(* The lock-free tree when callers use lock and unlock only and unlock     *)
(* what they hold (the use of the simulator and of the HTTP server): any   *)
(* tree, any threads, any targets, whichever users the threads share.      *)
(*                                                                         *)
(* First the ownership of single nodes.  Then the counters: at every       *)
(* moment each is the number of locks that have informed its node.  A      *)
(* propagation informs each node once because its worklist never holds     *)
(* overlapping subtrees.                                                   *)
(***************************************************************************)
EXTENDS AtomicTreeProofs

\* The callers' discipline.
LocksOnly == UpgradeTargets = {} /\ StrayUnlocks = {}

\* t is inside a lock() that has taken n.
Taking(t, n) ==
    /\ Running(t, "lock", n)
    /\ pc[t] \in {"recheckAncestors", "recheckDescendants", "rollback", "setOwner", "inform"}

\* t is inside an unlock() that has freed n.
Freed(t, n) == Running(t, "unlock", n) /\ pc[t] = "inform"

\* What a thread may rely on between its steps: the owner recorded in a node it
\* has is its user, and its unlock() cannot fail.
OwnOK(t) ==
    /\ call[t].op # "upgrade" /\ pc[t] # "restoreOwner"
    /\ \A n \in Node : Taking(t, n) => ~Holds(t, n)
    /\ \A n \in Node, u, v \in User : <<n, u>> \in held[t] /\ <<n, v>> \in held[t] => u = v
    /\ \A n \in Node, u \in User :
          <<n, u>> \in held[t] /\ ~Running(t, "unlock", n) => lockedBy[n] = u
    /\ call[t].op = "lock" /\ pc[t] = "inform" => lockedBy[call[t].node] = call[t].user
    /\ call[t].op = "unlock" => <<call[t].node, call[t].user>> \in held[t]
    /\ pc[t] \in {"checkOwner", "clearOwner"} => lockedBy[call[t].node] = call[t].user

OwnInv == TypeInv /\ NodeExclusive /\ \A t \in Thread : OwnOK(t)
-----------------------------------------------------------------------------
LEMMA TenantIs ==
    ASSUME NEW t, NEW n
    PROVE  Tenant(t, n) <=> Taking(t, n) \/ (Holds(t, n) /\ ~Freed(t, n))
  BY DEF Tenant, Taking, Freed

\* A step of t that writes the owner of no node but one t has leaves the others alone.
LEMMA OthersUndisturbed ==
    ASSUME OwnInv, NEW t \in Thread, NEW n \in Node,
           \A s \in Thread \ {t} : pc'[s] = pc[s] /\ call'[s] = call[s] /\ held'[s] = held[s],
           \A m \in Node \ {n} : lockedBy'[m] = lockedBy[m],
           lockedBy'[n] = lockedBy[n] \/ Tenant(t, n)
    PROVE  \A s \in Thread \ {t} : OwnOK(s)' /\ \A m \in Node : Tenant(s, m)' <=> Tenant(s, m)
<1> SUFFICES ASSUME NEW s \in Thread \ {t}
             PROVE  OwnOK(s)' /\ \A m \in Node : Tenant(s, m)' <=> Tenant(s, m)
  OBVIOUS
<1>1. pc'[s] = pc[s] /\ call'[s] = call[s] /\ held'[s] = held[s]
  OBVIOUS
<1>2. \A m \in Node : /\ Taking(s, m)' <=> Taking(s, m)
                      /\ Holds(s, m)' <=> Holds(s, m)
                      /\ Freed(s, m)' <=> Freed(s, m)
                      /\ Running(s, "unlock", m)' <=> Running(s, "unlock", m)
  BY <1>1 DEF Taking, Holds, Freed, Running
<1>3. \A m \in Node : Tenant(s, m)' <=> Tenant(s, m)
  BY <1>1 DEF Tenant, Holds, Running
<1>4. \A m \in Node : Tenant(s, m) => lockedBy'[m] = lockedBy[m]
  BY DEF OwnInv, NodeExclusive
<1>5. OwnOK(s)
  BY DEF OwnInv
<1>6. \A m \in Node, u \in User :
         <<m, u>> \in held[s] /\ ~Running(s, "unlock", m) => Tenant(s, m)
  BY DEF Tenant, Holds
<1>7. call[s].op = "lock" /\ pc[s] = "inform" => call[s].node \in Node /\ Tenant(s, call[s].node)
  BY RunningCall DEF Tenant, Running, OwnInv
<1>8. pc[s] \in {"checkOwner", "clearOwner"} => call[s].node \in Node /\ Tenant(s, call[s].node)
  <2> SUFFICES ASSUME pc[s] \in {"checkOwner", "clearOwner"}
               PROVE  call[s].node \in Node /\ Tenant(s, call[s].node)
    OBVIOUS
  <2>1. call[s].op = "unlock" /\ call[s].node \in Node /\ call[s].user \in User
    BY RunningCall DEF OwnInv, TypeInv, ControlOK, FitsOp, UnlockLabels
  <2> QED BY <1>5, <2>1 DEF OwnOK, Tenant, Holds, Running
<1>9. OwnOK(s)'
  BY <1>1, <1>2, <1>4, <1>5, <1>6, <1>7, <1>8 DEF OwnOK
<1> QED BY <1>3, <1>9

\* t keeps what it has, takes the free n, or frees its n: a node still has one tenant.
LEMMA ExclusiveKept ==
    ASSUME NodeExclusive, NEW t \in Thread, NEW n \in Node,
           lockState[n] \in {0, 1},
           \A s \in Thread \ {t} : \A m \in Node : Tenant(s, m)' <=> Tenant(s, m),
           \A m \in Node \ {n} : /\ Tenant(t, m)' <=> Tenant(t, m)
                                 /\ lockState'[m] = lockState[m],
           \/ (Tenant(t, n)' <=> Tenant(t, n)) /\ lockState'[n] = lockState[n]
           \/ lockState[n] = 0 /\ Tenant(t, n)' /\ lockState'[n] = 1
           \/ Tenant(t, n) /\ ~Tenant(t, n)' /\ lockState'[n] = 0
    PROVE  NodeExclusive'
<1> SUFFICES ASSUME NEW m \in Node
             PROVE  /\ \A t1, t2 \in Thread : Tenant(t1, m)' /\ Tenant(t2, m)' => t1 = t2
                    /\ lockState'[m] = 1 <=> \E s \in Thread : Tenant(s, m)'
  BY DEF NodeExclusive
<1>1. /\ \A t1, t2 \in Thread : Tenant(t1, m) /\ Tenant(t2, m) => t1 = t2
      /\ lockState[m] = 1 <=> \E s \in Thread : Tenant(s, m)
  BY DEF NodeExclusive
<1>2. CASE m # n
  BY <1>1, <1>2
<1>3. CASE m = n
  BY <1>1, <1>3
<1> QED BY <1>2, <1>3

LEMMA OwnInit == Init => OwnInv
<1> SUFFICES ASSUME Init PROVE OwnInv
  OBVIOUS
<1>1. TypeInv
  BY TypeInit
<1>2. \A t \in Thread, n \in Node : ~Tenant(t, n) /\ ~Holds(t, n)
  BY DEF Init, Tenant, Holds, Running, NoCall
<1>3. NodeExclusive
  BY <1>2 DEF Init, NodeExclusive
<1>4. \A t \in Thread : OwnOK(t)
  BY <1>2 DEF Init, OwnOK, NoCall, Taking, Running
<1> QED BY <1>1, <1>3, <1>4 DEF OwnInv

-----------------------------------------------------------------------------
\* What a step of t leaves of the other threads.
OthersRest(t) ==
    \A s \in Thread \ {t} : pc'[s] = pc[s] /\ call'[s] = call[s] /\ held'[s] = held[s]

LEMMA ProceedShape ==
    ASSUME TypeInv, NEW t \in Thread, NEW l, Proceed(t, l)
    PROVE  /\ pc'[t] = l /\ call'[t] = call[t] /\ held'[t] = held[t]
           /\ OthersRest(t)
  BY DEF Proceed, Goto, OthersRest, TypeInv, ThreadTypes

LEMMA ReturnShape ==
    ASSUME TypeInv, NEW t \in Thread, NEW h, Return(t, h)
    PROVE  /\ pc'[t] = "idle" /\ call'[t] = NoCall /\ held'[t] = h
           /\ OthersRest(t)
  BY DEF Return, Goto, OthersRest, TypeInv, ThreadTypes

LEMMA ReturnFalseShape ==
    ASSUME TypeInv, NEW t \in Thread, ReturnFalse(t)
    PROVE  /\ pc'[t] = "idle" /\ call'[t] = NoCall /\ held'[t] = held[t]
           /\ OthersRest(t)
  BY ReturnShape DEF ReturnFalse

LEMMA StartInformShape ==
    ASSUME TypeInv, NEW t \in Thread, NEW n, StartInform(t, n)
    PROVE  /\ pc'[t] = "inform" /\ call'[t] = call[t] /\ held'[t] = held[t]
           /\ OthersRest(t)
  BY DEF StartInform, Goto, OthersRest, TypeInv, ThreadTypes

\* A step of t at n preserves the invariant if t itself is all right after it.
LEMMA OwnStep ==
    ASSUME OwnInv, TypeInv', NEW t \in Thread, NEW n \in Node, OthersRest(t),
           \A m \in Node \ {n} : lockedBy'[m] = lockedBy[m],
           lockedBy'[n] = lockedBy[n] \/ Tenant(t, n),
           \A m \in Node \ {n} : /\ Tenant(t, m)' <=> Tenant(t, m)
                                 /\ lockState'[m] = lockState[m],
           \/ (Tenant(t, n)' <=> Tenant(t, n)) /\ lockState'[n] = lockState[n]
           \/ lockState[n] = 0 /\ Tenant(t, n)' /\ lockState'[n] = 1
           \/ Tenant(t, n) /\ ~Tenant(t, n)' /\ lockState'[n] = 0,
           OwnOK(t)'
    PROVE  OwnInv'
<1>1. \A s \in Thread \ {t} : OwnOK(s)' /\ \A m \in Node : Tenant(s, m)' <=> Tenant(s, m)
  BY OthersUndisturbed DEF OthersRest
<1>2. lockState[n] \in {0, 1}
  BY DEF OwnInv, TypeInv, NodeTypes
<1>3. NodeExclusive'
  BY <1>1, <1>2, ExclusiveKept DEF OwnInv
<1>4. \A s \in Thread : OwnOK(s)'
  BY <1>1
<1> QED BY <1>3, <1>4 DEF OwnInv

\* ... and so does one that writes no owner and no lock and changes no tenancy.
LEMMA QuietStep ==
    ASSUME OwnInv, TypeInv', NEW t \in Thread, call[t].node \in Node, OthersRest(t),
           UNCHANGED <<lockState, lockedBy>>,
           \A m \in Node : Tenant(t, m)' <=> Tenant(t, m),
           OwnOK(t)'
    PROVE  OwnInv'
  BY OwnStep

\* A thread whose call has just ended is all right if its locks are.
LEMMA IdleOK ==
    ASSUME NEW t \in Thread, pc'[t] = "idle", call'[t] = NoCall,
           \A n \in Node, u, v \in User : <<n, u>> \in held'[t] /\ <<n, v>> \in held'[t] => u = v,
           \A n \in Node, u \in User : <<n, u>> \in held'[t] => lockedBy'[n] = u
    PROVE  OwnOK(t)'
<1>1. call'[t].op = "none"
  BY DEF NoCall
<1>2. \A n \in Node : ~Taking(t, n)'
  BY <1>1 DEF Taking, Running
<1> QED BY <1>1, <1>2 DEF OwnOK

\* A refused call leaves its thread with what it had.
LEMMA RefusedStep ==
    ASSUME OwnInv, TypeInv', NEW t \in Thread, pc[t] \in {"loadAncestors", "loadDescendants", "cas"},
           ReturnFalse(t), UNCHANGED <<lockState, lockedBy>>
    PROVE  OwnInv'
<1>1. /\ pc'[t] = "idle" /\ call'[t] = NoCall /\ held'[t] = held[t] /\ OthersRest(t)
      /\ call[t].node \in Node /\ call[t].op = "lock"
  BY ReturnFalseShape, RunningCall
     DEF OwnInv, TypeInv, ControlOK, FitsOp, LockLabels
<1>2. \A m \in Node : (Tenant(t, m)' <=> Tenant(t, m)) /\ (Holds(t, m)' <=> Holds(t, m))
  BY <1>1 DEF Tenant, Holds, Running, NoCall
<1>3. \A n \in Node, u \in User : <<n, u>> \in held[t] => lockedBy[n] = u
  BY <1>1 DEF OwnInv, OwnOK, Running
<1>4. OwnOK(t)'
  BY <1>1, <1>3, IdleOK DEF OwnInv, OwnOK
<1> QED BY <1>1, <1>2, <1>4, QuietStep

\* A lock() that goes on without writing keeps its node if it has it.
LEMMA OnwardStep ==
    ASSUME OwnInv, TypeInv', NEW t \in Thread, call[t].op = "lock",
           NEW l, Proceed(t, l), UNCHANGED <<lockState, lockedBy>>,
           \/ /\ pc[t] \in {"loadAncestors", "loadDescendants"}
              /\ l \in {"loadDescendants", "cas"}
           \/ /\ pc[t] \in {"recheckAncestors", "recheckDescendants"}
              /\ l \in {"recheckDescendants", "rollback", "setOwner"}
    PROVE  OwnInv'
<1>1. /\ pc'[t] = l /\ call'[t] = call[t] /\ held'[t] = held[t] /\ OthersRest(t)
      /\ call[t].node \in Node
  BY ProceedShape, RunningCall DEF OwnInv
<1>2. \A m \in Node : /\ Tenant(t, m)' <=> Tenant(t, m)
                      /\ Holds(t, m)' <=> Holds(t, m)
                      /\ Taking(t, m)' <=> Taking(t, m)
  BY <1>1 DEF Tenant, Holds, Running, Taking
<1>3. OwnOK(t)'
  BY <1>1, <1>2 DEF OwnInv, OwnOK, Running
<1> QED BY <1>1, <1>2, <1>3, QuietStep

\* The CAS of lock() takes a node nobody has.
LEMMA TakeStep ==
    ASSUME OwnInv, TypeInv', NEW t \in Thread, pc[t] = "cas", call[t].op = "lock",
           lockState[call[t].node] = 0,
           lockState' = [lockState EXCEPT ![call[t].node] = 1],
           Proceed(t, "recheckAncestors"), UNCHANGED lockedBy
    PROVE  OwnInv'
<1> DEFINE n == call[t].node
<1>1. /\ pc'[t] = "recheckAncestors" /\ call'[t] = call[t] /\ held'[t] = held[t]
      /\ OthersRest(t) /\ n \in Node
  BY ProceedShape, RunningCall DEF OwnInv
<1>2. /\ lockState'[n] = 1
      /\ \A m \in Node \ {n} : lockState'[m] = lockState[m]
  BY <1>1 DEF OwnInv, TypeInv, NodeTypes
<1>3. ~Holds(t, n)
  <2>1. ~Tenant(t, n)
    BY <1>1 DEF OwnInv, NodeExclusive
  <2> QED BY <2>1 DEF Tenant, Running
<1>4. /\ \A m \in Node : Holds(t, m)' <=> Holds(t, m)
      /\ \A m \in Node \ {n} : (Tenant(t, m)' <=> Tenant(t, m)) /\ ~Taking(t, m)'
      /\ Tenant(t, n)'
  BY <1>1 DEF Tenant, Holds, Running, Taking
<1>5. OwnOK(t)'
  BY <1>1, <1>3, <1>4 DEF OwnInv, OwnOK, Running
<1> HIDE DEF n
<1> QED BY <1>1, <1>2, <1>4, <1>5, OwnStep DEF n

\* The rollback frees a node its thread was never told it holds.
LEMMA RollbackStep ==
    ASSUME OwnInv, TypeInv', NEW t \in Thread, Rollback(t)
    PROVE  OwnInv'
<1>0. PICK n \in Node : n = call[t].node
  BY RunningCall DEF Rollback, OwnInv
<1>1. /\ pc[t] = "rollback" /\ call[t].op = "lock"
      /\ lockState' = [lockState EXCEPT ![n] = 0] /\ UNCHANGED lockedBy
  BY <1>0 DEF Rollback, OwnInv, TypeInv, ControlOK, FitsOp, LockLabels
<1>2. pc'[t] = "idle" /\ call'[t] = NoCall /\ held'[t] = held[t] /\ OthersRest(t)
  BY ReturnFalseShape DEF Rollback, OwnInv
<1>3. /\ lockState'[n] = 0
      /\ \A m \in Node \ {n} : lockState'[m] = lockState[m]
  BY <1>1 DEF OwnInv, TypeInv, NodeTypes
<1>4. Tenant(t, n) /\ ~Holds(t, n)
  BY <1>0, <1>1 DEF OwnInv, OwnOK, Taking, Running, Tenant
<1>5. /\ \A m \in Node \ {n} : Tenant(t, m)' <=> Tenant(t, m)
      /\ ~Tenant(t, n)'
  <2>1. \A m \in Node : Tenant(t, m)' <=> Holds(t, m)
    BY <1>2 DEF Tenant, Holds, Running, NoCall
  <2>2. \A m \in Node \ {n} : Tenant(t, m) <=> Holds(t, m)
    BY <1>0, <1>1 DEF Tenant, Running
  <2> QED BY <1>1, <1>4, <2>1, <2>2
<1>6. OwnOK(t)'
  <2>1. \A m \in Node, u \in User : <<m, u>> \in held[t] => lockedBy[m] = u
    BY <1>1 DEF OwnInv, OwnOK, Running
  <2> QED BY <1>1, <1>2, <2>1, IdleOK DEF OwnInv, OwnOK
<1> QED BY <1>1, <1>2, <1>3, <1>4, <1>5, <1>6, OwnStep

\* The owner is written by the thread that has the node.
LEMMA SetOwnerStep ==
    ASSUME OwnInv, TypeInv', NEW t \in Thread, SetOwner(t)
    PROVE  OwnInv'
<1> DEFINE n == call[t].node
<1>1. /\ pc[t] = "setOwner" /\ call[t].op = "lock" /\ n \in Node
      /\ lockedBy' = [lockedBy EXCEPT ![n] = call[t].user] /\ UNCHANGED lockState
  BY RunningCall DEF SetOwner, OwnInv, OwnOK, TypeInv, ControlOK, FitsOp
<1>2. pc'[t] = "inform" /\ call'[t] = call[t] /\ held'[t] = held[t] /\ OthersRest(t)
  BY StartInformShape DEF SetOwner, OwnInv
<1>3. /\ lockedBy'[n] = call[t].user
      /\ \A m \in Node \ {n} : lockedBy'[m] = lockedBy[m]
  BY <1>1 DEF OwnInv, TypeInv, NodeTypes
<1>4. Tenant(t, n) /\ ~Holds(t, n)
  BY <1>1 DEF OwnInv, OwnOK, Taking, Running, Tenant
<1>5. \A m \in Node : /\ Tenant(t, m)' <=> Tenant(t, m)
                      /\ Holds(t, m)' <=> Holds(t, m)
                      /\ Taking(t, m)' <=> Taking(t, m)
  BY <1>1, <1>2 DEF Tenant, Holds, Running, Taking
<1>6. \A m \in Node, u \in User : <<m, u>> \in held[t] => m # n
  BY <1>4 DEF Holds
<1>7. OwnOK(t)'
  BY <1>1, <1>2, <1>3, <1>5, <1>6 DEF OwnInv, OwnOK, Running
<1> HIDE DEF n
<1> QED BY <1>1, <1>2, <1>3, <1>4, <1>5, <1>7, OwnStep DEF n

LEMMA OwnStutter ==
    ASSUME OwnInv, TypeInv', UNCHANGED <<lockState, lockedBy, pc, call, held>>
    PROVE  OwnInv'
<1>1. \A t \in Thread, n \in Node :
         /\ Tenant(t, n)' <=> Tenant(t, n)
         /\ Taking(t, n)' <=> Taking(t, n)
         /\ Holds(t, n)' <=> Holds(t, n)
  BY DEF Tenant, Taking, Holds, Running
<1>2. NodeExclusive'
  BY <1>1 DEF OwnInv, NodeExclusive
<1>3. \A t \in Thread : OwnOK(t)'
  BY <1>1 DEF OwnInv, OwnOK, Running
<1> QED BY <1>2, <1>3 DEF OwnInv

\* The steps of lock().
LEMMA LockOwns ==
    ASSUME OwnInv, NEW t \in Thread,
           \/ LoadAncestors(t) \/ LoadDescendants(t) \/ CasLock(t) \/ CasLockSpurious(t)
           \/ RecheckAncestors(t) \/ RecheckDescendants(t) \/ Rollback(t) \/ SetOwner(t)
    PROVE  OwnInv'
<1>1. TypeInv'
  BY LockTypes DEF OwnInv
<1>2. CASE LoadAncestors(t) \/ LoadDescendants(t)
  <2>1. call[t].op = "lock" /\ UNCHANGED <<lockState, lockedBy>>
    BY <1>2 DEF LoadAncestors, LoadDescendants, nodeVars, OwnInv, TypeInv, ControlOK, FitsOp, LockLabels
  <2> QED BY <1>1, <1>2, <2>1, RefusedStep, OnwardStep DEF LoadAncestors, LoadDescendants
<1>3. CASE RecheckAncestors(t) \/ RecheckDescendants(t)
  <2>1. call[t].op = "lock" /\ UNCHANGED <<lockState, lockedBy>>
    BY <1>3 DEF RecheckAncestors, RecheckDescendants, nodeVars, OwnInv, TypeInv, ControlOK, FitsOp, LockLabels
  <2>2. CASE RecheckAncestors(t)
    BY <1>1, <2>1, <2>2, OnwardStep DEF RecheckAncestors
  <2>3. CASE RecheckDescendants(t)
    BY <1>1, <2>1, <2>3, OnwardStep DEF RecheckDescendants
  <2> QED BY <1>3, <2>2, <2>3
<1>4. CASE CasLock(t)
  <2>1. pc[t] = "cas" /\ call[t].op = "lock" /\ UNCHANGED lockedBy
    BY <1>4 DEF CasLock, OwnInv, TypeInv, ControlOK, FitsOp, LockLabels
  <2> QED BY <1>1, <1>4, <2>1, RefusedStep, TakeStep DEF CasLock
<1>5. CASE CasLockSpurious(t)
  <2>1. UNCHANGED <<lockState, lockedBy, pc, call, held>>
    BY <1>5 DEF CasLockSpurious, nodeVars, threadVars
  <2> QED BY <1>1, <2>1, OwnStutter
<1> QED BY <1>1, <1>2, <1>3, <1>4, <1>5, RollbackStep, SetOwnerStep

-----------------------------------------------------------------------------
\* A lock() or unlock() that informs the other nodes changes no tenancy ...
LEMMA InformOwns ==
    ASSUME OwnInv, NEW t \in Thread, InformAncestor(t) \/ InformDescendant(t)
    PROVE  OwnInv'
<1>1. UNCHANGED <<lockState, lockedBy, pc, call, held>>
  BY DEF InformAncestor, InformDescendant
<1>2. TypeInv'
  BY InformTypes DEF OwnInv
<1> QED BY <1>1, <1>2, OwnStutter

\* ... and at its end tells its thread what it did.
LEMMA InformDoneOwns ==
    ASSUME OwnInv, NEW t \in Thread, InformDone(t)
    PROVE  OwnInv'
<1>0. PICK n \in Node : n = call[t].node
  BY RunningCall DEF InformDone, OwnInv
<1>1. TypeInv'
  BY InformTypes DEF OwnInv
<1>2. /\ pc[t] = "inform" /\ call[t].op \in {"lock", "unlock"} /\ found[t] = <<>>
      /\ UNCHANGED <<lockState, lockedBy>>
  <2>1. call[t].op \in {"lock", "unlock"}
    BY RunningCall DEF InformDone, OwnInv, OwnOK
  <2> QED BY <2>1 DEF InformDone, nodeVars, OwnInv, TypeInv, ControlOK
<1>3. CASE call[t].op = "lock"
  <2>1. Return(t, held[t] \cup {<<n, call[t].user>>})
    BY <1>0, <1>2, <1>3 DEF InformDone
  <2>2. /\ pc'[t] = "idle" /\ call'[t] = NoCall /\ OthersRest(t)
        /\ held'[t] = held[t] \cup {<<n, call[t].user>>}
    BY <2>1, ReturnShape DEF OwnInv
  <2>3. ~Holds(t, n) /\ lockedBy[n] = call[t].user /\ call[t].user \in User
    BY <1>0, <1>2, <1>3, RunningCall DEF OwnInv, OwnOK, Taking, Running
  <2>4. \A m \in Node : Tenant(t, m)' <=> Tenant(t, m)
    <3>1. \A m \in Node : Tenant(t, m)' <=> Holds(t, m)'
      BY <2>2 DEF Tenant, Holds, Running, NoCall
    <3>2. \A m \in Node : Holds(t, m)' <=> Holds(t, m) \/ m = n
      BY <2>2, <2>3 DEF Holds
    <3>3. \A m \in Node : Tenant(t, m) <=> Holds(t, m) \/ m = n
      BY <1>0, <1>2, <1>3 DEF Tenant, Running
    <3> QED BY <3>1, <3>2, <3>3
  <2>5. \A m \in Node, u \in User : <<m, u>> \in held[t] => lockedBy[m] = u
    BY <1>3 DEF OwnInv, OwnOK, Running
  <2>6. \A m \in Node, u \in User : <<m, u>> \in held'[t] => lockedBy[m] = u
    BY <2>2, <2>3, <2>5
  <2>7. OwnOK(t)'
    BY <1>2, <2>2, <2>6, IdleOK
  <2> QED BY <1>0, <1>1, <1>2, <2>2, <2>4, <2>7, QuietStep
<1>4. CASE call[t].op = "unlock"
  <2>1. Return(t, held[t] \ {<<n, call[t].user>>})
    BY <1>0, <1>2, <1>4 DEF InformDone
  <2>2. /\ pc'[t] = "idle" /\ call'[t] = NoCall /\ OthersRest(t)
        /\ held'[t] = held[t] \ {<<n, call[t].user>>}
    BY <2>1, ReturnShape DEF OwnInv
  <2>3. /\ \A m \in Node, u, v \in User : <<m, u>> \in held[t] /\ <<m, v>> \in held[t] => u = v
        /\ <<n, call[t].user>> \in held[t] /\ call[t].user \in User
    BY <1>0, <1>2, <1>4, RunningCall DEF OwnInv, OwnOK
  <2>4. \A m \in Node : Tenant(t, m)' <=> Tenant(t, m)
    <3>1. \A m \in Node : Tenant(t, m)' <=> Holds(t, m)'
      BY <2>2 DEF Tenant, Holds, Running, NoCall
    <3>2. \A m \in Node : Holds(t, m)' <=> Holds(t, m) /\ m # n
      BY <2>2, <2>3 DEF Holds
    <3>3. \A m \in Node : Tenant(t, m) <=> Holds(t, m) /\ m # n
      BY <1>0, <1>2, <1>4 DEF Tenant, Running
    <3> QED BY <3>1, <3>2, <3>3
  <2>5. \A m \in Node, u \in User : <<m, u>> \in held[t] /\ m # n => lockedBy[m] = u
    BY <1>0, <1>4 DEF OwnInv, OwnOK, Running
  <2>6. \A m \in Node, u \in User : <<m, u>> \in held'[t] => <<m, u>> \in held[t] /\ m # n
    BY <2>2, <2>3
  <2>7. OwnOK(t)'
    <3>1. \A m \in Node, u \in User : <<m, u>> \in held'[t] => lockedBy'[m] = u
      BY <1>2, <2>5, <2>6
    <3> QED BY <2>2, <2>3, <2>6, <3>1, IdleOK
  <2> QED BY <1>0, <1>1, <1>2, <2>2, <2>4, <2>7, QuietStep
<1> QED BY <1>2, <1>3, <1>4

\* unlock() finds its user in the node.
LEMMA CheckOwnerOwns ==
    ASSUME OwnInv, NEW t \in Thread, CheckOwner(t)
    PROVE  OwnInv'
<1>1. /\ pc[t] = "checkOwner" /\ Proceed(t, "clearOwner") /\ UNCHANGED <<lockState, lockedBy>>
      /\ TypeInv' /\ call[t].node \in Node
  BY RunningCall, UnlockTypes DEF CheckOwner, nodeVars, OwnInv, OwnOK
<1>2. pc'[t] = "clearOwner" /\ call'[t] = call[t] /\ held'[t] = held[t] /\ OthersRest(t)
  BY <1>1, ProceedShape DEF OwnInv
<1>3. \A m \in Node :
         /\ Tenant(t, m)' <=> Tenant(t, m)
         /\ Holds(t, m)' <=> Holds(t, m)
         /\ Taking(t, m)' <=> Taking(t, m)
  BY <1>1, <1>2 DEF Tenant, Holds, Running, Taking
<1>4. OwnOK(t)'
  BY <1>1, <1>2, <1>3 DEF OwnInv, OwnOK, Running
<1> QED BY <1>1, <1>2, <1>3, <1>4, QuietStep

\* It erases the owner while it still has the node.
LEMMA ClearOwnerOwns ==
    ASSUME OwnInv, NEW t \in Thread, ClearOwner(t)
    PROVE  OwnInv'
<1>0. PICK n \in Node : n = call[t].node
  BY RunningCall DEF ClearOwner, OwnInv
<1>1. /\ pc[t] = "clearOwner" /\ Proceed(t, "casFree") /\ UNCHANGED lockState
      /\ lockedBy' = [lockedBy EXCEPT ![n] = NoUser] /\ TypeInv' /\ call[t].op = "unlock"
  BY <1>0, UnlockTypes DEF ClearOwner, OwnInv, TypeInv, ControlOK, FitsOp, UnlockLabels
<1>2. pc'[t] = "casFree" /\ call'[t] = call[t] /\ held'[t] = held[t] /\ OthersRest(t)
  BY <1>1, ProceedShape DEF OwnInv
<1>3. \A m \in Node \ {n} : lockedBy'[m] = lockedBy[m]
  BY <1>1 DEF OwnInv, TypeInv, NodeTypes
<1>4. Tenant(t, n)
  BY <1>0, <1>1, RunningCall DEF OwnInv, OwnOK, Tenant, Holds
<1>5. \A m \in Node :
         /\ Tenant(t, m)' <=> Tenant(t, m)
         /\ Holds(t, m)' <=> Holds(t, m)
         /\ ~Taking(t, m)'
  BY <1>1, <1>2 DEF Tenant, Holds, Running, Taking
<1>6. OwnOK(t)'
  <2>1. \A m \in Node, u \in User :
           <<m, u>> \in held'[t] /\ ~Running(t, "unlock", m)' => lockedBy'[m] = u
    <3>1. \A m \in Node, u \in User :
             <<m, u>> \in held[t] /\ ~Running(t, "unlock", m) => lockedBy[m] = u
      BY DEF OwnInv, OwnOK
    <3>2. \A m \in Node : Running(t, "unlock", m) <=> m = n
      BY <1>0, <1>1 DEF Running
    <3>3. \A m \in Node : Running(t, "unlock", m)' <=> m = n
      BY <1>0, <1>1, <1>2 DEF Running
    <3> QED BY <1>2, <1>3, <3>1, <3>2, <3>3
  <2> QED BY <1>1, <1>2, <1>5, <2>1 DEF OwnInv, OwnOK
<1> QED BY <1>1, <1>2, <1>3, <1>4, <1>5, <1>6, OwnStep

\* Its CAS finds the node locked and frees it.
LEMMA CasFreeOwns ==
    ASSUME OwnInv, NEW t \in Thread, CasFree(t)
    PROVE  OwnInv'
<1>0. PICK n \in Node : n = call[t].node
  BY RunningCall DEF CasFree, OwnInv
<1>1. pc[t] = "casFree" /\ call[t].op = "unlock" /\ TypeInv' /\ UNCHANGED lockedBy
  BY UnlockTypes DEF CasFree, OwnInv, TypeInv, ControlOK, FitsOp, UnlockLabels
<1>2. Tenant(t, n)
  BY <1>0, <1>1, RunningCall DEF OwnInv, OwnOK, Tenant, Holds
<1>3. lockState[n] = 1
  BY <1>2 DEF OwnInv, NodeExclusive
<1>4. lockState' = [lockState EXCEPT ![n] = 0] /\ StartInform(t, n)
  BY <1>0, <1>3 DEF CasFree
<1>5. pc'[t] = "inform" /\ call'[t] = call[t] /\ held'[t] = held[t] /\ OthersRest(t)
  BY <1>4, StartInformShape DEF OwnInv
<1>6. lockState'[n] = 0 /\ \A m \in Node \ {n} : lockState'[m] = lockState[m]
  BY <1>4 DEF OwnInv, TypeInv, NodeTypes
<1>7. /\ \A m \in Node \ {n} : Tenant(t, m)' <=> Tenant(t, m)
      /\ \A m \in Node : ~Taking(t, m)'
      /\ ~Tenant(t, n)'
  BY <1>0, <1>1, <1>5 DEF Tenant, Holds, Running, Taking
<1>8. OwnOK(t)'
  BY <1>1, <1>5, <1>7 DEF OwnInv, OwnOK, Running
<1> QED BY <1>1, <1>2, <1>5, <1>6, <1>7, <1>8, OwnStep

\* A thread calls lock() on any node, unlock() on a node it holds.
LEMMA CallOwns ==
    ASSUME LocksOnly, OwnInv, NEW t \in Thread, Call(t)
    PROVE  OwnInv'
<1>1. PICK op \in {"lock", "unlock"}, n \in Node, u \in User :
         \E l \in {"loadAncestors", "checkOwner"} :
             /\ Begin(t, op, n, u, l)
             /\ l = "checkOwner" => op = "unlock"
             /\ op = "unlock" => <<n, u>> \in held[t]
  BY CallerAssumption, UserTypes DEF Call, CallLock, CallUnlock, CallUpgrade, LocksOnly
<1>2. PICK l \in {"loadAncestors", "checkOwner"} :
         Begin(t, op, n, u, l) /\ (l = "checkOwner" => op = "unlock")
  BY <1>1
<1>3. /\ pc[t] = "idle" /\ call[t] = NoCall /\ UNCHANGED <<lockState, lockedBy>> /\ TypeInv'
      /\ pc' = [pc EXCEPT ![t] = l]
      /\ call' = [call EXCEPT ![t] = [op |-> op, node |-> n, user |-> u]]
      /\ UNCHANGED held
  BY <1>2, CallTypes DEF Begin, Goto, nodeVars, OwnInv, TypeInv, ControlOK
<1>4. /\ pc'[t] = l /\ held'[t] = held[t] /\ OthersRest(t)
      /\ call'[t] = [op |-> op, node |-> n, user |-> u]
  BY <1>3 DEF OthersRest, OwnInv, TypeInv, ThreadTypes
<1>5. \A m \in Node :
         /\ Tenant(t, m)' <=> Tenant(t, m)
         /\ ~Taking(t, m)'
  BY <1>3, <1>4 DEF Tenant, Holds, Running, Taking, NoCall
<1>6. OwnOK(t)'
  <2>1. \A m \in Node, v \in User : <<m, v>> \in held[t] => lockedBy[m] = v
    <3>1. \A m \in Node : ~Running(t, "unlock", m)
      BY <1>3 DEF Running, NoCall
    <3> QED BY <3>1 DEF OwnInv, OwnOK
  <2> QED BY <1>1, <1>2, <1>3, <1>4, <1>5, <2>1 DEF OwnInv, OwnOK
<1>7. \A m \in Node : Tenant(t, m)' <=> Tenant(t, m)
  BY <1>5
<1>8. NodeExclusive'
  <2>1. \A s \in Thread \ {t} : OwnOK(s)' /\ \A m \in Node : Tenant(s, m)' <=> Tenant(s, m)
    BY <1>3, <1>4, OthersUndisturbed DEF OthersRest
  <2> QED BY <1>3, <1>7, <2>1 DEF OwnInv, NodeExclusive
<1>9. \A s \in Thread \ {t} : OwnOK(s)'
  BY <1>3, <1>4, OthersUndisturbed DEF OthersRest
<1> QED BY <1>3, <1>6, <1>8, <1>9 DEF OwnInv

\* No thread is in upgradeLock(), none restores an owner.
LEMMA NeverThere ==
    ASSUME OwnInv, NEW t \in Thread
    PROVE  ~(\/ RestoreOwner(t) \/ CheckState(t) \/ CheckAncestors(t) \/ ScanState(t)
             \/ ScanOwner(t) \/ ScanDone(t) \/ FreeState(t) \/ FreeOwner(t) \/ CasUpgrade(t))
<1>1. pc[t] \notin UpgradeLabels \cup {"restoreOwner"}
  BY DEF OwnInv, OwnOK, TypeInv, ControlOK, FitsOp
<1> QED BY <1>1 DEF UpgradeLabels, RestoreOwner, CheckState, CheckAncestors, ScanState,
        ScanOwner, ScanDone, FreeState, FreeOwner, CasUpgrade

LEMMA OwnNext ==
    ASSUME LocksOnly, OwnInv, [Next]_vars
    PROVE  OwnInv'
<1>1. CASE UNCHANGED vars
  <2>1. UNCHANGED <<lockState, lockedBy, pc, call, held>> /\ TypeInv'
    BY <1>1, TypeNext DEF vars, nodeVars, threadVars, OwnInv
  <2> QED BY <2>1, OwnStutter
<1>2. CASE Next
  BY <1>2, CallOwns, LockOwns, InformOwns, InformDoneOwns, CheckOwnerOwns, ClearOwnerOwns,
     CasFreeOwns, NeverThere DEF Next, Step
<1> QED BY <1>1, <1>2

LEMMA OwnInvCorrect == ASSUME LocksOnly PROVE Spec => []OwnInv
  BY OwnInit, OwnNext, PTL DEF Spec

\* A node is never given to two threads, and lockState says exactly whether
\* some thread has it: the CAS of lock(), its rollback and the CAS of unlock()
\* keep this in every interleaving.
THEOREM Exclusive == ASSUME LocksOnly PROVE Spec => []NodeExclusive
<1>1. OwnInv => NodeExclusive
  BY DEF OwnInv
<1> QED BY <1>1, OwnInvCorrect, PTL

\* The owner recorded in a node held by a thread is the user of that thread
\* until the thread unlocks it.
THEOREM OwnerCorrect == ASSUME LocksOnly PROVE Spec => []OwnerRecorded
<1>1. OwnInv => OwnerRecorded
  <2> SUFFICES ASSUME OwnInv, NEW t \in Thread, NEW h \in held[t], ~Running(t, "unlock", h[1])
               PROVE  lockState[h[1]] = 1 /\ lockedBy[h[1]] = h[2]
    BY DEF OwnerRecorded
  <2>1. h[1] \in Node /\ h[2] \in User /\ h = <<h[1], h[2]>>
    BY DEF OwnInv, TypeInv, ThreadTypes
  <2>2. Tenant(t, h[1])
    BY <2>1 DEF Tenant, Holds
  <2>3. lockState[h[1]] = 1
    BY <2>1, <2>2 DEF OwnInv, NodeExclusive
  <2>4. \A n \in Node, u \in User :
           <<n, u>> \in held[t] /\ ~Running(t, "unlock", n) => lockedBy[n] = u
    BY DEF OwnInv, OwnOK
  <2> QED BY <2>1, <2>3, <2>4
<1> QED BY <1>1, OwnInvCorrect, PTL

\* A step moves the program counter of the thread that takes it only.
LEMMA OnlyOwnPc ==
    ASSUME TypeInv, NEW s \in Thread, Call(s) \/ Step(s), NEW t \in Thread \ {s}
    PROVE  pc'[t] = pc[t]
<1>1. UNCHANGED pc \/ \E l : Goto(s, l)
  <2>1. CASE Call(s)
    BY <2>1 DEF Call, CallLock, CallUnlock, CallUpgrade, Begin
  <2>2. CASE \/ LoadAncestors(s) \/ LoadDescendants(s) \/ CasLock(s) \/ CasLockSpurious(s)
             \/ RecheckAncestors(s) \/ RecheckDescendants(s) \/ Rollback(s) \/ SetOwner(s)
    BY <2>2 DEF LoadAncestors, LoadDescendants, CasLock, CasLockSpurious, RecheckAncestors,
       RecheckDescendants, Rollback, SetOwner, Proceed, ReturnFalse, Return, StartInform,
       threadVars
  <2>3. CASE \/ InformAncestor(s) \/ InformDescendant(s) \/ InformDone(s)
             \/ CheckOwner(s) \/ ClearOwner(s) \/ CasFree(s) \/ RestoreOwner(s)
    BY <2>3 DEF InformAncestor, InformDescendant, InformDone, CheckOwner, ClearOwner, CasFree,
       RestoreOwner, Proceed, ReturnFalse, Return, StartInform
  <2>4. CASE \/ CheckState(s) \/ CheckAncestors(s) \/ ScanState(s) \/ ScanOwner(s)
             \/ ScanDone(s) \/ FreeState(s) \/ FreeOwner(s) \/ CasUpgrade(s)
    BY <2>4 DEF CheckState, CheckAncestors, ScanState, ScanOwner, ScanDone, FreeState,
       FreeOwner, CasUpgrade, Proceed, ReturnFalse, Return, StartInform
  <2> QED BY <2>1, <2>2, <2>3, <2>4 DEF Step
<1> QED BY <1>1 DEF Goto, TypeInv, ThreadTypes

\* The only step in which an unlock() ends is the one that returns true.
LEMMA UnlockEnds ==
    ASSUME OwnInv, NEW t \in Thread, Step(t), call[t].op = "unlock", pc'[t] = "idle"
    PROVE  InformDone(t)
<1>1. pc[t] # "idle"
  BY DEF OwnInv, TypeInv, ControlOK, NoCall
<1>2. pc[t] \notin LockLabels \cup {"setOwner"}
  BY DEF OwnInv, TypeInv, ControlOK, FitsOp
<1>3. ~(\/ LoadAncestors(t) \/ LoadDescendants(t) \/ CasLock(t) \/ CasLockSpurious(t)
        \/ RecheckAncestors(t) \/ RecheckDescendants(t) \/ Rollback(t) \/ SetOwner(t))
  BY <1>2 DEF LockLabels, LoadAncestors, LoadDescendants, CasLock, CasLockSpurious,
     RecheckAncestors, RecheckDescendants, Rollback, SetOwner
<1>4. ~(InformAncestor(t) \/ InformDescendant(t))
  BY <1>1 DEF InformAncestor, InformDescendant
<1>5. ~CheckOwner(t)
  <2>1. ASSUME CheckOwner(t) PROVE pc'[t] = "clearOwner"
    BY <2>1, ProceedShape DEF CheckOwner, OwnInv, OwnOK
  <2> QED BY <2>1
<1>6. ~ClearOwner(t)
  <2>1. ASSUME ClearOwner(t) PROVE pc'[t] = "casFree"
    BY <2>1, ProceedShape DEF ClearOwner, OwnInv
  <2> QED BY <2>1
<1>7. ~CasFree(t)
  <2>1. ASSUME CasFree(t) PROVE pc'[t] \in {"inform", "restoreOwner"}
    BY <2>1, ProceedShape, StartInformShape DEF CasFree, OwnInv
  <2> QED BY <2>1
<1> QED BY <1>3, <1>4, <1>5, <1>6, <1>7, NeverThere DEF Step

\* unlock() of a held node returns true: its ownership check and its CAS never
\* fail, whatever the other threads do meanwhile.
THEOREM UnlockCannotFail == ASSUME LocksOnly PROVE Spec => UnlockSucceeds
<1> DEFINE A == \A t \in Thread : call[t].op = "unlock" /\ pc'[t] = "idle"
                                     => <<call[t].node, call[t].user>> \notin held'[t]
<1>1. ASSUME OwnInv, [Next]_vars PROVE [A]_vars
  <2> SUFFICES ASSUME Next, NEW t \in Thread, call[t].op = "unlock", pc'[t] = "idle"
               PROVE  <<call[t].node, call[t].user>> \notin held'[t]
    BY <1>1
  <2>1. pc[t] # "idle" /\ TypeInv
    BY <1>1 DEF OwnInv, TypeInv, ControlOK, NoCall
  <2>2. Step(t)
    <3>1. PICK s \in Thread : Call(s) \/ Step(s)
      BY DEF Next
    <3>2. s = t
      BY <2>1, <3>1, OnlyOwnPc
    <3>3. ~Call(t)
      BY <2>1 DEF Call, CallLock, CallUnlock, CallUpgrade, Begin
    <3> QED BY <3>1, <3>2, <3>3
  <2>3. InformDone(t)
    BY <1>1, <2>2, UnlockEnds
  <2>4. Return(t, held[t] \ {<<call[t].node, call[t].user>>})
    BY <2>1, <2>3 DEF InformDone, TypeInv, ControlOK
  <2> QED BY <2>1, <2>4, ReturnShape
<1> HIDE DEF A
<1>2. Spec => [][A]_vars
  BY <1>1, OwnInvCorrect, PTL DEF Spec
<1> QED BY <1>2 DEF A, UnlockSucceeds

-----------------------------------------------------------------------------
\* Callers that lock leaves, or any nodes none of which is above another, and
\* use lock and unlock only, see the abstract hierarchy.

LeavesOnly == LocksOnly /\ \A m, n \in LockTargets : m \notin Above[n]

\* t is between the store of its user in n and the store that erases it.
Owns(t, n) ==
    \/ Running(t, "lock", n) /\ pc[t] = "inform"
    \/ Holds(t, n) /\ ~(Running(t, "unlock", n) /\ pc[t] \in {"casFree", "inform"})

\* Only targets are taken, and no owner is left behind in a node.
LeafInv ==
    /\ OwnInv
    /\ \A t \in Thread : call[t].op = "lock" => call[t].node \in LockTargets
    /\ \A t \in Thread : \A h \in held[t] : h[1] \in LockTargets
    /\ \A n \in Node : lockedBy[n] # NoUser => \E t \in Thread : Owns(t, n)

LEMMA OwnerIsTarget ==
    ASSUME LeafInv, NEW t \in Thread, NEW n \in Node, Owns(t, n)
    PROVE  Tenant(t, n) /\ n \in LockTargets
  BY DEF Owns, LeafInv, Tenant, Running, Holds

\* A step of t keeps the owners it does not erase.
LEMMA OwnedKept ==
    ASSUME LeafInv, OwnInv', NEW t \in Thread, OthersRest(t), NEW n \in Node,
           \A m \in Node \ {n} : lockedBy'[m] = lockedBy[m] /\ (Owns(t, m) => Owns(t, m)'),
           \/ lockedBy'[n] = NoUser
           \/ Owns(t, n)'
           \/ lockedBy'[n] = lockedBy[n] /\ ~Owns(t, n),
           call'[t].op = "lock" => call'[t].node \in LockTargets,
           \A h \in held'[t] : h[1] \in LockTargets
    PROVE  LeafInv'
<1>1. \A s \in Thread \ {t} : /\ call'[s] = call[s] /\ held'[s] = held[s] /\ pc'[s] = pc[s]
                              /\ \A m \in Node : Owns(s, m)' <=> Owns(s, m)
  BY DEF OthersRest, Owns, Running, Holds
<1>2. ASSUME NEW m \in Node, lockedBy'[m] # NoUser PROVE \E s \in Thread : Owns(s, m)'
  <2>1. CASE Owns(t, m)'
    BY <2>1
  <2>2. CASE ~Owns(t, m)'
    <3>1. lockedBy[m] # NoUser /\ ~Owns(t, m)
      BY <1>2, <2>2
    <3>2. PICK s \in Thread : Owns(s, m)
      BY <3>1 DEF LeafInv
    <3> QED BY <1>1, <3>1, <3>2
  <2> QED BY <2>1, <2>2
<1>3. \A s \in Thread : call'[s].op = "lock" => call'[s].node \in LockTargets
  BY <1>1 DEF LeafInv
<1>4. \A s \in Thread : \A h \in held'[s] : h[1] \in LockTargets
  BY <1>1 DEF LeafInv
<1> QED BY <1>2, <1>3, <1>4 DEF LeafInv

\* ... and so does one that writes no owner.
LEMMA OwnedQuiet ==
    ASSUME LeafInv, OwnInv', NEW t \in Thread, OthersRest(t), call[t].node \in Node,
           UNCHANGED lockedBy,
           \A m \in Node : Owns(t, m) => Owns(t, m)',
           call'[t].op = "lock" => call'[t].node \in LockTargets,
           \A h \in held'[t] : h[1] \in LockTargets
    PROVE  LeafInv'
<1>1. PICK n \in Node : n = call[t].node
  OBVIOUS
<1>2. CASE Owns(t, n)
  BY <1>2, OwnedKept
<1>3. CASE ~Owns(t, n)
  BY <1>3, OwnedKept
<1> QED BY <1>2, <1>3

LEMMA LeafInit == Init => LeafInv
<1> SUFFICES ASSUME Init PROVE LeafInv
  OBVIOUS
<1>1. OwnInv
  BY OwnInit
<1> QED BY <1>1 DEF LeafInv, Init, NoCall

LEMMA LeafCall ==
    ASSUME LeafInv, OwnInv', NEW t \in Thread, Call(t), LocksOnly
    PROVE  LeafInv'
<1>1. PICK op \in {"lock", "unlock"}, n \in Node, u \in User :
         \E l \in {"loadAncestors", "checkOwner"} :
             Begin(t, op, n, u, l) /\ (op = "lock" => n \in LockTargets)
  BY CallerAssumption, UserTypes DEF Call, CallLock, CallUnlock, CallUpgrade, LocksOnly
<1>2. PICK l \in {"loadAncestors", "checkOwner"} : Begin(t, op, n, u, l) /\ (op = "lock" => n \in LockTargets)
  BY <1>1
<1>3. /\ pc[t] = "idle" /\ call[t] = NoCall /\ pc'[t] = l /\ held'[t] = held[t] /\ OthersRest(t)
      /\ call'[t] = [op |-> op, node |-> n, user |-> u] /\ UNCHANGED lockedBy
  BY <1>2 DEF Begin, Goto, nodeVars, OthersRest, LeafInv, OwnInv, TypeInv, ThreadTypes, ControlOK
<1>4. \A m \in Node : Owns(t, m) => Owns(t, m)'
  BY <1>3 DEF Owns, Running, Holds, NoCall
<1>5. \A h \in held'[t] : h[1] \in LockTargets
  BY <1>3 DEF LeafInv
<1>6. call'[t].op = "lock" => call'[t].node \in LockTargets
  BY <1>2, <1>3
<1>7. CASE Owns(t, n)
  BY <1>3, <1>4, <1>5, <1>6, <1>7, OwnedKept
<1>8. CASE ~Owns(t, n)
  BY <1>3, <1>4, <1>5, <1>6, <1>8, OwnedKept
<1> QED BY <1>7, <1>8

\* The steps that store no owner and end no propagation.
LEMMA LeafControl ==
    ASSUME LeafInv, OwnInv', NEW t \in Thread,
           \/ LoadAncestors(t) \/ LoadDescendants(t) \/ CasLock(t)
           \/ RecheckAncestors(t) \/ RecheckDescendants(t) \/ Rollback(t) \/ CheckOwner(t)
    PROVE  LeafInv'
<1>1. /\ pc[t] \notin {"idle", "inform"} /\ call[t].node \in Node /\ UNCHANGED lockedBy /\ TypeInv
  BY RunningCall DEF LoadAncestors, LoadDescendants, CasLock, RecheckAncestors,
     RecheckDescendants, Rollback, CheckOwner, nodeVars, LeafInv, OwnInv
<1>2. ASSUME ReturnFalse(t) PROVE LeafInv'
  <2>1. pc'[t] = "idle" /\ call'[t] = NoCall /\ held'[t] = held[t] /\ OthersRest(t)
    BY <1>1, <1>2, ReturnFalseShape
  <2>2. \A m \in Node : Owns(t, m) => Owns(t, m)'
    BY <1>1, <2>1 DEF Owns, Running, Holds, NoCall
  <2>3. call'[t].op # "lock" /\ \A h \in held'[t] : h[1] \in LockTargets
    BY <2>1 DEF LeafInv, NoCall
  <2> QED BY <1>1, <2>1, <2>2, <2>3, OwnedQuiet
<1>3. ASSUME NEW l, Proceed(t, l), l \notin {"casFree", "inform"} PROVE LeafInv'
  <2>1. pc'[t] = l /\ call'[t] = call[t] /\ held'[t] = held[t] /\ OthersRest(t)
    BY <1>1, <1>3, ProceedShape
  <2>2. \A m \in Node : Owns(t, m) => Owns(t, m)'
    BY <1>1, <1>3, <2>1 DEF Owns, Running, Holds
  <2>3. /\ call'[t].op = "lock" => call'[t].node \in LockTargets
        /\ \A h \in held'[t] : h[1] \in LockTargets
    BY <2>1 DEF LeafInv
  <2> QED BY <1>1, <2>1, <2>2, <2>3, OwnedQuiet
<1> QED BY <1>2, <1>3 DEF LoadAncestors, LoadDescendants, CasLock, RecheckAncestors,
     RecheckDescendants, Rollback, CheckOwner

LEMMA LeafSetOwner ==
    ASSUME LeafInv, OwnInv', NEW t \in Thread, SetOwner(t)
    PROVE  LeafInv'
<1>0. PICK n \in Node : n = call[t].node
  BY RunningCall DEF SetOwner, LeafInv, OwnInv
<1>1. /\ pc[t] = "setOwner" /\ call[t].op = "lock" /\ StartInform(t, n) /\ TypeInv
      /\ lockedBy' = [lockedBy EXCEPT ![n] = call[t].user]
  BY <1>0 DEF SetOwner, LeafInv, OwnInv, OwnOK, TypeInv, ControlOK, FitsOp
<1>2. pc'[t] = "inform" /\ call'[t] = call[t] /\ held'[t] = held[t] /\ OthersRest(t)
  BY <1>1, StartInformShape
<1>3. \A m \in Node \ {n} : lockedBy'[m] = lockedBy[m]
  BY <1>1 DEF TypeInv, NodeTypes
<1>4. Owns(t, n)' /\ \A m \in Node : Owns(t, m) => Owns(t, m)'
  BY <1>0, <1>1, <1>2 DEF Owns, Running, Holds
<1>5. /\ call'[t].op = "lock" => call'[t].node \in LockTargets
      /\ \A h \in held'[t] : h[1] \in LockTargets
  BY <1>2 DEF LeafInv
<1> QED BY <1>2, <1>3, <1>4, <1>5, OwnedKept

LEMMA LeafClearOwner ==
    ASSUME LeafInv, OwnInv', NEW t \in Thread, ClearOwner(t)
    PROVE  LeafInv'
<1>0. PICK n \in Node : n = call[t].node
  BY RunningCall DEF ClearOwner, LeafInv, OwnInv
<1>1. /\ pc[t] = "clearOwner" /\ call[t].op = "unlock" /\ Proceed(t, "casFree") /\ TypeInv
      /\ lockedBy' = [lockedBy EXCEPT ![n] = NoUser]
  BY <1>0 DEF ClearOwner, LeafInv, OwnInv, TypeInv, ControlOK, FitsOp, UnlockLabels
<1>2. pc'[t] = "casFree" /\ call'[t] = call[t] /\ held'[t] = held[t] /\ OthersRest(t)
  BY <1>1, ProceedShape
<1>3. lockedBy'[n] = NoUser /\ \A m \in Node \ {n} : lockedBy'[m] = lockedBy[m]
  BY <1>1 DEF TypeInv, NodeTypes
<1>4. \A m \in Node \ {n} : Owns(t, m) => Owns(t, m)'
  BY <1>0, <1>1, <1>2 DEF Owns, Running, Holds
<1>5. /\ call'[t].op = "lock" => call'[t].node \in LockTargets
      /\ \A h \in held'[t] : h[1] \in LockTargets
  BY <1>2 DEF LeafInv
<1> QED BY <1>2, <1>3, <1>4, <1>5, OwnedKept

LEMMA LeafCasFree ==
    ASSUME LeafInv, OwnInv', NEW t \in Thread, CasFree(t)
    PROVE  LeafInv'
<1>0. PICK n \in Node : n = call[t].node
  BY RunningCall DEF CasFree, LeafInv, OwnInv
<1>1. /\ pc[t] = "casFree" /\ call[t].op = "unlock" /\ TypeInv /\ UNCHANGED lockedBy
  BY DEF CasFree, LeafInv, OwnInv, TypeInv, ControlOK, FitsOp, UnlockLabels
<1>2. call'[t] = call[t] /\ held'[t] = held[t] /\ OthersRest(t)
  BY <1>1, ProceedShape, StartInformShape DEF CasFree
<1>3. ~Owns(t, n) /\ \A m \in Node \ {n} : Owns(t, m) => Owns(t, m)'
  BY <1>0, <1>1, <1>2, RunningCall DEF Owns, Running, Holds
<1>4. /\ call'[t].op = "lock" => call'[t].node \in LockTargets
      /\ \A h \in held'[t] : h[1] \in LockTargets
  BY <1>2 DEF LeafInv
<1> QED BY <1>1, <1>2, <1>3, <1>4, OwnedKept

LEMMA LeafInformDone ==
    ASSUME LeafInv, OwnInv', NEW t \in Thread, InformDone(t)
    PROVE  LeafInv'
<1>0. PICK n \in Node : n = call[t].node
  BY RunningCall DEF InformDone, LeafInv, OwnInv
<1>1. /\ pc[t] = "inform" /\ call[t].op \in {"lock", "unlock"} /\ found[t] = <<>> /\ TypeInv
      /\ UNCHANGED lockedBy
  <2>1. call[t].op \in {"lock", "unlock"}
    BY RunningCall DEF InformDone, LeafInv, OwnInv, OwnOK
  <2> QED BY <2>1 DEF InformDone, nodeVars, LeafInv, OwnInv, TypeInv, ControlOK
<1> DEFINE u == call[t].user
<1>2. /\ call[t].op = "lock" => Return(t, held[t] \cup {<<n, u>>})
      /\ call[t].op = "unlock" => Return(t, held[t] \ {<<n, u>>})
  BY <1>0, <1>1 DEF InformDone
<1>3. /\ OthersRest(t) /\ pc'[t] = "idle" /\ call'[t] = NoCall
      /\ call[t].op = "lock" => held'[t] = held[t] \cup {<<n, u>>}
      /\ call[t].op = "unlock" => held'[t] = held[t] \ {<<n, u>>}
  BY <1>1, <1>2, ReturnShape
<1>u. u \in User
  BY <1>1, RunningCall
<1>4. call'[t].op # "lock"
  BY <1>3 DEF NoCall
<1>5. CASE call[t].op = "lock"
  <2>1. \A h \in held'[t] : h[1] \in LockTargets
    BY <1>0, <1>3, <1>5 DEF LeafInv
  <2>2. \A m \in Node : Owns(t, m) => Owns(t, m)'
    BY <1>0, <1>3, <1>5, <1>u DEF Owns, Running, Holds, NoCall
  <2> QED BY <1>0, <1>1, <1>3, <1>4, <2>1, <2>2, OwnedQuiet
<1>6. CASE call[t].op = "unlock"
  <2>1. \A h \in held'[t] : h[1] \in LockTargets
    BY <1>3, <1>6 DEF LeafInv
  <2>2. \A m \in Node : Owns(t, m) => Owns(t, m)'
    BY <1>0, <1>1, <1>3, <1>6 DEF Owns, Running, Holds, NoCall
  <2> QED BY <1>0, <1>1, <1>3, <1>4, <2>1, <2>2, OwnedQuiet
<1> QED BY <1>1, <1>5, <1>6

LEMMA LeafStutter ==
    ASSUME LeafInv, OwnInv', UNCHANGED <<lockedBy, pc, call, held>>
    PROVE  LeafInv'
<1>1. \A t \in Thread, n \in Node : Owns(t, n)' <=> Owns(t, n)
  BY DEF Owns, Running, Holds
<1> QED BY <1>1 DEF LeafInv

LEMMA LeafNext ==
    ASSUME LocksOnly, LeafInv, [Next]_vars
    PROVE  LeafInv'
<1>1. OwnInv /\ OwnInv'
  BY OwnNext DEF LeafInv
<1>2. CASE UNCHANGED vars
  <2>1. UNCHANGED <<lockedBy, pc, call, held>>
    BY <1>2 DEF vars, nodeVars, threadVars
  <2> QED BY <1>1, <2>1, LeafStutter
<1>3. ASSUME NEW t \in Thread, CasLockSpurious(t) \/ InformAncestor(t) \/ InformDescendant(t)
      PROVE  LeafInv'
  <2>1. UNCHANGED <<lockedBy, pc, call, held>>
    BY <1>3 DEF CasLockSpurious, InformAncestor, InformDescendant, nodeVars, threadVars
  <2> QED BY <1>1, <2>1, LeafStutter
<1>4. CASE Next
  BY <1>1, <1>3, <1>4, LeafCall, LeafControl, LeafSetOwner, LeafClearOwner, LeafCasFree,
     LeafInformDone, NeverThere DEF Next, Step
<1> QED BY <1>2, <1>4

LEMMA LeafInvCorrect == ASSUME LocksOnly PROVE Spec => []LeafInv
  BY LeafInit, LeafNext, PTL DEF Spec

\* The abstract hierarchy is the tree itself: what its instance of Forest says
\* of Parent is what Forest says.
LEMMA HierarchyIsTree ==
    /\ Abstract!IsForest(Parent)
    /\ \A x : Abstract!Ancestors(Parent, x) = Ancestors(Parent, x)
    /\ \A x : Abstract!Descendants(Parent, x) = Descendants(Parent, x)
<1>1. Abstract!AncestorMap(Parent) = AncestorMap(Parent)
  BY DEF Abstract!AncestorMap, AncestorMap
<1>2. \A x : Abstract!Ancestors(Parent, x) = Ancestors(Parent, x)
  BY <1>1 DEF Abstract!Ancestors, Ancestors
<1>3. IsForest(Parent)
  BY TreeAssumption
<1> QED BY <1>1, <1>2, <1>3 DEF Abstract!IsForest, IsForest, Abstract!Descendants, Descendants

\* Where the owner is stored the node is free, and so are all above and below it.
LEMMA SetOwnerAcquires ==
    ASSUME LeavesOnly, LeafInv, NEW t \in Thread, SetOwner(t)
    PROVE  \E n \in Node : \E u \in User : Abstract!Acquire(n, u)
<1>0. PICK n \in Node : n = call[t].node
  BY RunningCall DEF SetOwner, LeafInv, OwnInv
<1>1. PICK u \in User : u = call[t].user
  BY RunningCall DEF SetOwner, LeafInv, OwnInv
<1>2. /\ pc[t] = "setOwner" /\ call[t].op = "lock" /\ n \in LockTargets
      /\ lockedBy' = [lockedBy EXCEPT ![n] = u]
  BY <1>0, <1>1 DEF SetOwner, LeafInv, OwnInv, OwnOK, TypeInv, ControlOK, FitsOp
<1>3. Tenant(t, n) /\ ~Owns(t, n)
  BY <1>0, <1>2 DEF Tenant, Owns, Running, LeafInv, OwnInv, OwnOK, Taking
<1>4. lockedBy[n] = NoUser
  <2>1. \A s \in Thread : ~Owns(s, n)
    BY <1>3, OwnerIsTarget DEF LeafInv, OwnInv, NodeExclusive
  <2> QED BY <2>1 DEF LeafInv
<1>5. \A m \in Node : lockedBy[m] # NoUser => m \in LockTargets
  BY OwnerIsTarget DEF LeafInv
<1>6. /\ DOMAIN Parent = Node
      /\ \A x \in Node : Ancestors(Parent, x) = Above[x]
  BY TreeAssumption DEF Above
<1>7. Abstract!Owned = {m \in Node : lockedBy[m] # NoUser}
  BY DEF Abstract!Owned
<1>8. Above[n] \cap Abstract!Owned = {} /\ Descendants(Parent, n) \cap Abstract!Owned = {}
  <2>1. \A m \in LockTargets : m \notin Above[n] /\ n \notin Above[m]
    BY <1>2 DEF LeavesOnly
  <2>2. \A m \in Descendants(Parent, n) : m \in Node /\ n \in Above[m]
    BY <1>6 DEF Descendants
  <2> QED BY <1>5, <1>7, <2>1, <2>2
<1>9. Abstract!Grantable(n)
  BY <1>4, <1>6, <1>7, <1>8, HierarchyIsTree DEF Abstract!Grantable
<1> QED BY <1>2, <1>9 DEF Abstract!Acquire

LEMMA ClearOwnerReleases ==
    ASSUME LeafInv, NEW t \in Thread, ClearOwner(t)
    PROVE  \E n \in Node : \E u \in User : Abstract!Release(n, u)
<1>0. PICK n \in Node : n = call[t].node
  BY RunningCall DEF ClearOwner, LeafInv, OwnInv
<1>1. PICK u \in User : u = call[t].user
  BY RunningCall DEF ClearOwner, LeafInv, OwnInv
<1>2. lockedBy[n] = u /\ lockedBy' = [lockedBy EXCEPT ![n] = NoUser]
  BY <1>0, <1>1 DEF ClearOwner, LeafInv, OwnInv, OwnOK
<1> QED BY <1>2 DEF Abstract!Release

\* With lock and unlock on leaves the lock-free tree implements the abstract
\* hierarchy, seen through lockedBy: the stores of the owner are the acquires
\* and releases, every other step is a stutter.
THEOREM Refinement == ASSUME LeavesOnly PROVE Spec => ImplementsHierarchicalLock
<1>0. LocksOnly
  BY DEF LeavesOnly
<1>1. Init => Abstract!Init
  BY TreeAssumption, HierarchyIsTree DEF Init, Abstract!Init
<1>2. ASSUME LeafInv, [Next]_vars PROVE [Abstract!Next]_(Abstract!vars)
  <2>1. ASSUME UNCHANGED lockedBy PROVE [Abstract!Next]_(Abstract!vars)
    BY <2>1 DEF Abstract!vars
  <2>2. CASE UNCHANGED vars
    BY <2>1, <2>2 DEF vars, nodeVars
  <2>3. ASSUME NEW t \in Thread, Call(t) \/ Step(t) PROVE [Abstract!Next]_(Abstract!vars)
    <3>1. CASE Call(t)
      BY <2>1, <3>1 DEF Call, CallLock, CallUnlock, CallUpgrade, Begin, nodeVars
    <3>2. CASE \/ LoadAncestors(t) \/ LoadDescendants(t) \/ CasLock(t) \/ CasLockSpurious(t)
               \/ RecheckAncestors(t) \/ RecheckDescendants(t) \/ Rollback(t)
      BY <2>1, <3>2 DEF LoadAncestors, LoadDescendants, CasLock, CasLockSpurious,
         RecheckAncestors, RecheckDescendants, Rollback, nodeVars
    <3>3. CASE \/ InformAncestor(t) \/ InformDescendant(t) \/ InformDone(t)
               \/ CheckOwner(t) \/ CasFree(t)
      BY <2>1, <3>3 DEF InformAncestor, InformDescendant, InformDone, CheckOwner, CasFree, nodeVars
    <3>4. CASE SetOwner(t)
      BY <1>2, <3>4, SetOwnerAcquires DEF Abstract!Next
    <3>5. CASE ClearOwner(t)
      BY <1>2, <3>5, ClearOwnerReleases DEF Abstract!Next
    <3>6. OwnInv
      BY <1>2 DEF LeafInv
    <3> QED BY <2>3, <3>1, <3>2, <3>3, <3>4, <3>5, <3>6, NeverThere DEF Step
  <2> QED BY <1>2, <2>2, <2>3 DEF Next
<1> QED BY <1>0, <1>1, <1>2, LeafInvCorrect, PTL DEF Spec, ImplementsHierarchicalLock, Abstract!Spec
-----------------------------------------------------------------------------
\* Counting.

\* What a running propagation has still to inform is around its node.
PropagationOK(t) ==
    pc[t] = "inform" =>
        /\ PendingAbove(t) \subseteq Above[call[t].node]
        /\ PendingBelow(t) \subseteq Below[call[t].node]
        /\ Apart(work[t])

CountInv == OwnInv /\ CountsAccounted /\ \A t \in Thread : PropagationOK(t)

Slots == Thread \X Node

\* One share gains or loses a node, and the counter of that node follows.
LEMMA CountMoves ==
    ASSUME NEW f, NEW g, NEW a \in [Node -> Int], NEW b, NEW q \in Slots, NEW c \in Node, NEW d,
           \A x \in Node : a[x] = Cardinality({p \in Slots : x \in f[p]}),
           \A p \in Slots \ {q} : g[p] = f[p],
           b = [a EXCEPT ![c] = @ + d],
           \/ d = 1 /\ c \notin f[q] /\ g[q] = f[q] \cup {c}
           \/ d = -1 /\ c \in f[q] /\ g[q] = f[q] \ {c}
    PROVE  \A x \in Node : b[x] = Cardinality({p \in Slots : x \in g[p]})
<1> DEFINE F(x) == {p \in Slots : x \in f[p]}
           G(x) == {p \in Slots : x \in g[p]}
<1> SUFFICES ASSUME NEW x \in Node PROVE b[x] = Cardinality(G(x))
  OBVIOUS
<1>1. CASE x # c
  <2>1. G(x) = F(x)
    BY <1>1
  <2> QED BY <1>1, <2>1
<1>2. CASE x = c
  <2>0. IsFiniteSet(F(c)) /\ Cardinality(F(c)) \in Nat
    <3>1. IsFiniteSet(Slots)
      BY FS_Product, CallerAssumption, TreeAssumption DEF Slots
    <3>2. F(c) \in SUBSET Slots
      OBVIOUS
    <3> HIDE DEF F
    <3> QED BY <3>1, <3>2, FS_Subset, FS_CardinalityType
  <2>1. b[c] = a[c] + d /\ a[c] = Cardinality(F(c))
    OBVIOUS
  <2>2. CASE d = 1 /\ c \notin f[q] /\ g[q] = f[q] \cup {c}
    <3>1. q \notin F(c) /\ G(c) = F(c) \cup {q}
      BY <2>2
    <3> HIDE DEF F, G
    <3>2. Cardinality(F(c) \cup {q}) = Cardinality(F(c)) + 1
      BY <2>0, <3>1, FS_AddElement
    <3> QED BY <1>2, <2>1, <2>2, <3>1, <3>2
  <2>3. CASE d = -1 /\ c \in f[q] /\ g[q] = f[q] \ {c}
    <3>1. q \in F(c) /\ G(c) = F(c) \ {q}
      BY <2>3
    <3> HIDE DEF F, G
    <3>2. Cardinality(F(c) \ {q}) = Cardinality(F(c)) - 1
      BY <2>0, <3>1, FS_RemoveElement
    <3> QED BY <1>2, <2>0, <2>1, <2>3, <3>1, <3>2
  <2> QED BY <2>2, <2>3
<1> QED BY <1>1, <1>2

\* The shares of every thread in every node, as functions.
AboveShares == [p \in Slots |-> AboveShare(p[1], p[2])]
BelowShares == [p \in Slots |-> BelowShare(p[1], p[2])]

LEMMA CountsAre ==
    CountsAccounted <=>
        \A x \in Node :
            /\ descendantLockedCount[x] = Cardinality({p \in Slots : x \in AboveShares[p]})
            /\ ancestorLockedCount[x] = Cardinality({p \in Slots : x \in BelowShares[p]})
<1>1. \A x \in Node :
         /\ {p \in Slots : x \in AboveShares[p]} = {p \in Thread \X Node : x \in AboveShare(p[1], p[2])}
         /\ {p \in Slots : x \in BelowShares[p]} = {p \in Thread \X Node : x \in BelowShare(p[1], p[2])}
  BY DEF AboveShares, BelowShares, Slots
<1> QED BY <1>1 DEF CountsAccounted

LEMMA CountsAreNext ==
    CountsAccounted' <=>
        \A x \in Node :
            /\ descendantLockedCount'[x] = Cardinality({p \in Slots : x \in AboveShares'[p]})
            /\ ancestorLockedCount'[x] = Cardinality({p \in Slots : x \in BelowShares'[p]})
<1>1. \A x \in Node :
         /\ {p \in Slots : x \in AboveShares'[p]} = {p \in Thread \X Node : x \in AboveShare(p[1], p[2])'}
         /\ {p \in Slots : x \in BelowShares'[p]} = {p \in Thread \X Node : x \in BelowShare(p[1], p[2])'}
  BY DEF AboveShares, BelowShares, Slots
<1> QED BY <1>1 DEF CountsAccounted

\* What a step of t leaves of the other threads.
Still(t) ==
    \A s \in Thread \ {t} :
        /\ pc'[s] = pc[s] /\ call'[s] = call[s] /\ held'[s] = held[s]
        /\ cursor'[s] = cursor[s] /\ work'[s] = work[s]

LEMMA StillShares ==
    ASSUME NEW t \in Thread, Still(t), NEW s \in Thread \ {t}
    PROVE  /\ \A m \in Node : AboveShare(s, m)' = AboveShare(s, m) /\ BelowShare(s, m)' = BelowShare(s, m)
           /\ PropagationOK(s) => PropagationOK(s)'
<1>1. /\ pc'[s] = pc[s] /\ call'[s] = call[s] /\ held'[s] = held[s]
      /\ cursor'[s] = cursor[s] /\ work'[s] = work[s]
  BY DEF Still
<1>2. PendingAbove(s)' = PendingAbove(s) /\ PendingBelow(s)' = PendingBelow(s)
  BY <1>1 DEF PendingAbove, PendingBelow
<1>3. \A m \in Node : Holds(s, m)' <=> Holds(s, m)
  BY <1>1 DEF Holds
<1>4. \A m \in Node : AboveShare(s, m)' = AboveShare(s, m) /\ BelowShare(s, m)' = BelowShare(s, m)
  BY <1>1, <1>2, <1>3 DEF AboveShare, BelowShare, Share
<1>5. PropagationOK(s) => PropagationOK(s)'
  BY <1>1, <1>2 DEF PropagationOK, Apart
<1> QED BY <1>4, <1>5

\* A step of t that leaves its shares and the counters alone.
LEMMA SharesKept ==
    ASSUME CountInv, OwnInv', NEW t \in Thread, Still(t),
           UNCHANGED <<ancestorLockedCount, descendantLockedCount>>,
           \A m \in Node : AboveShare(t, m)' = AboveShare(t, m) /\ BelowShare(t, m)' = BelowShare(t, m),
           PropagationOK(t)'
    PROVE  CountInv'
<1>1. AboveShares' = AboveShares /\ BelowShares' = BelowShares
  BY StillShares DEF AboveShares, BelowShares, Slots
<1>2. CountsAccounted'
  BY <1>1, CountsAre, CountsAreNext DEF CountInv
<1>3. \A s \in Thread : PropagationOK(s)'
  BY StillShares DEF CountInv
<1> QED BY <1>2, <1>3 DEF CountInv

\* A thread that does not propagate is counted for what it holds.
LEMMA SharesHeld ==
    ASSUME CountInv, OwnInv', NEW t \in Thread, Still(t),
           UNCHANGED <<ancestorLockedCount, descendantLockedCount>>,
           pc[t] # "inform", pc'[t] # "inform", held'[t] = held[t]
    PROVE  CountInv'
<1>1. \A m \in Node : Holds(t, m)' <=> Holds(t, m)
  BY DEF Holds
<1>2. \A m \in Node : AboveShare(t, m)' = AboveShare(t, m) /\ BelowShare(t, m)' = BelowShare(t, m)
  BY <1>1 DEF AboveShare, BelowShare, Share
<1>3. PropagationOK(t)'
  BY DEF PropagationOK
<1> QED BY <1>2, <1>3, SharesKept
-----------------------------------------------------------------------------
\* The steps.

LEMMA ProceedStill ==
    ASSUME TypeInv, NEW t \in Thread, NEW l, Proceed(t, l)
    PROVE  Still(t) /\ pc'[t] = l /\ held'[t] = held[t]
  BY DEF Proceed, Goto, Still, TypeInv, ThreadTypes

LEMMA ReturnFalseStill ==
    ASSUME TypeInv, NEW t \in Thread, ReturnFalse(t)
    PROVE  Still(t) /\ pc'[t] = "idle" /\ held'[t] = held[t]
  BY DEF ReturnFalse, Return, Goto, Still, TypeInv, ThreadTypes

LEMMA StartInformStill ==
    ASSUME TypeInv, NEW t \in Thread, NEW n, StartInform(t, n)
    PROVE  /\ Still(t) /\ pc'[t] = "inform" /\ call'[t] = call[t] /\ held'[t] = held[t]
           /\ cursor'[t] = Parent[n] /\ work'[t] = Children[n]
  BY DEF StartInform, Goto, Still, TypeInv, ThreadTypes

\* A propagation has everything around its node before it.
LEMMA InformStarts ==
    ASSUME TypeInv, NEW t \in Thread, NEW n \in Node, StartInform(t, n), n = call[t].node
    PROVE  /\ PendingAbove(t)' = Above[n] /\ PendingBelow(t)' = Below[n]
           /\ PropagationOK(t)'
<1>1. call'[t].node = n
  BY StartInformStill
<1>2. PendingAbove(t)' = Above[n] /\ PendingBelow(t)' = Below[n] /\ Apart(work[t])'
  BY PropagationStarts
<1> QED BY <1>1, <1>2 DEF PropagationOK

\* The owner is written: nobody has been informed, and nobody is counted yet.
LEMMA SetOwnerCounts ==
    ASSUME CountInv, OwnInv', NEW t \in Thread, SetOwner(t)
    PROVE  CountInv'
<1>0. PICK n \in Node : n = call[t].node
  BY RunningCall DEF SetOwner, CountInv, OwnInv
<1>1. /\ pc[t] = "setOwner" /\ call[t].op = "lock" /\ StartInform(t, n) /\ TypeInv
      /\ UNCHANGED <<ancestorLockedCount, descendantLockedCount>>
  BY <1>0 DEF SetOwner, CountInv, OwnInv, OwnOK, TypeInv, ControlOK, FitsOp
<1>2. /\ Still(t) /\ pc'[t] = "inform" /\ call'[t] = call[t] /\ held'[t] = held[t]
  BY <1>1, StartInformStill
<1>3. PendingAbove(t)' = Above[n] /\ PendingBelow(t)' = Below[n] /\ PropagationOK(t)'
  BY <1>0, <1>1, InformStarts
<1>4. ~Holds(t, n) /\ \A m \in Node : Holds(t, m)' <=> Holds(t, m)
  <2>1. Taking(t, n)
    BY <1>0, <1>1 DEF Taking, Running
  <2>2. ~Holds(t, n)
    BY <2>1 DEF CountInv, OwnInv, OwnOK
  <2> QED BY <1>2, <2>2 DEF Holds
<1>5. ASSUME NEW m \in Node
      PROVE  AboveShare(t, m)' = AboveShare(t, m) /\ BelowShare(t, m)' = BelowShare(t, m)
  <2>1. CASE m = n
    <3>1. AboveShare(t, n) = {} /\ BelowShare(t, n) = {}
      BY <1>1, <1>4 DEF AboveShare, BelowShare, Share
    <3>2. AboveShare(t, n)' = {} /\ BelowShare(t, n)' = {}
      BY <1>0, <1>1, <1>2, <1>3 DEF AboveShare, BelowShare, Share
    <3> QED BY <2>1, <3>1, <3>2
  <2>2. CASE m # n
    BY <1>0, <1>1, <1>2, <1>4, <2>2 DEF AboveShare, BelowShare, Share
  <2> QED BY <2>1, <2>2
<1> QED BY <1>1, <1>2, <1>3, <1>5, SharesKept

\* The node is freed: all are still counted in, all are yet to be informed.
LEMMA CasFreeCounts ==
    ASSUME CountInv, OwnInv', NEW t \in Thread, CasFree(t)
    PROVE  CountInv'
<1>0. PICK n \in Node : n = call[t].node
  BY RunningCall DEF CasFree, CountInv, OwnInv
<1>1. /\ pc[t] = "casFree" /\ call[t].op = "unlock" /\ TypeInv
      /\ UNCHANGED <<ancestorLockedCount, descendantLockedCount>>
  BY DEF CasFree, CountInv, OwnInv, TypeInv, ControlOK, FitsOp, UnlockLabels
<1>2. Holds(t, n) /\ StartInform(t, n)
  <2>1. Tenant(t, n) /\ Holds(t, n)
    BY <1>0, <1>1, RunningCall DEF CountInv, OwnInv, OwnOK, Tenant, Holds
  <2>2. lockState[n] = 1
    BY <2>1 DEF CountInv, OwnInv, NodeExclusive
  <2> QED BY <1>0, <2>1, <2>2 DEF CasFree
<1>3. Still(t) /\ pc'[t] = "inform" /\ call'[t] = call[t] /\ held'[t] = held[t]
  BY <1>1, <1>2, StartInformStill
<1>4. PendingAbove(t)' = Above[n] /\ PendingBelow(t)' = Below[n] /\ PropagationOK(t)'
  BY <1>0, <1>1, <1>2, InformStarts
<1>5. \A m \in Node : Holds(t, m)' <=> Holds(t, m)
  BY <1>3 DEF Holds
<1>6. ASSUME NEW m \in Node
      PROVE  AboveShare(t, m)' = AboveShare(t, m) /\ BelowShare(t, m)' = BelowShare(t, m)
  <2>1. CASE m = n
    <3>1. AboveShare(t, n) = Above[n] /\ BelowShare(t, n) = Below[n]
      BY <1>1, <1>2 DEF AboveShare, BelowShare, Share
    <3>2. AboveShare(t, n)' = Above[n] /\ BelowShare(t, n)' = Below[n]
      BY <1>0, <1>1, <1>3, <1>4 DEF AboveShare, BelowShare, Share
    <3> QED BY <2>1, <3>1, <3>2
  <2>2. CASE m # n
    BY <1>0, <1>1, <1>3, <1>5, <2>2 DEF AboveShare, BelowShare, Share
  <2> QED BY <2>1, <2>2
<1> QED BY <1>1, <1>3, <1>4, <1>6, SharesKept

\* Everybody has been informed: the lock is counted in full, or not at all.
LEMMA InformDoneCounts ==
    ASSUME CountInv, OwnInv', NEW t \in Thread, InformDone(t)
    PROVE  CountInv'
<1>0. PICK n \in Node : n = call[t].node
  BY RunningCall DEF InformDone, CountInv, OwnInv
<1>1. /\ pc[t] = "inform" /\ call[t].op \in {"lock", "unlock"} /\ found[t] = <<>> /\ TypeInv
      /\ cursor[t] = NoNode /\ work[t] = <<>> /\ UNCHANGED <<cursor, work>>
      /\ UNCHANGED <<ancestorLockedCount, descendantLockedCount>>
  <2>1. call[t].op \in {"lock", "unlock"}
    BY RunningCall DEF InformDone, CountInv, OwnInv, OwnOK
  <2> QED BY <2>1 DEF InformDone, nodeVars, CountInv, OwnInv, TypeInv, ControlOK
<1> DEFINE u == call[t].user
<1>2. /\ call[t].op = "lock" => Return(t, held[t] \cup {<<n, u>>})
      /\ call[t].op = "unlock" => Return(t, held[t] \ {<<n, u>>})
  BY <1>0, <1>1 DEF InformDone
<1>3. /\ Still(t) /\ pc'[t] = "idle"
      /\ call[t].op = "lock" => held'[t] = held[t] \cup {<<n, u>>}
      /\ call[t].op = "unlock" => held'[t] = held[t] \ {<<n, u>>}
  BY <1>1, <1>2 DEF Return, Goto, Still, TypeInv, ThreadTypes
<1>4. PendingAbove(t) = {} /\ PendingBelow(t) = {}
  BY <1>1 DEF PendingAbove, PendingBelow
<1>u. u \in User
  BY <1>1, RunningCall
<1>5. /\ Holds(t, n)' <=> call[t].op = "lock"
      /\ \A m \in Node \ {n} : Holds(t, m)' <=> Holds(t, m)
  <2>1. CASE call[t].op = "lock"
    BY <1>3, <1>u, <2>1 DEF Holds
  <2>2. CASE call[t].op = "unlock"
    <3>1. /\ \A v \in User : <<n, v>> \in held[t] => v = u
      BY <1>0, <1>u, <2>2 DEF CountInv, OwnInv, OwnOK
    <3> QED BY <1>3, <2>2, <3>1 DEF Holds
  <2> QED BY <1>1, <2>1, <2>2
<1>6. ASSUME NEW m \in Node
      PROVE  AboveShare(t, m)' = AboveShare(t, m) /\ BelowShare(t, m)' = BelowShare(t, m)
  <2>1. CASE m = n
    BY <1>0, <1>1, <1>3, <1>4, <1>5, <2>1 DEF AboveShare, BelowShare, Share
  <2>2. CASE m # n
    BY <1>0, <1>1, <1>3, <1>5, <2>2 DEF AboveShare, BelowShare, Share
  <2> QED BY <2>1, <2>2
<1>7. PropagationOK(t)'
  BY <1>3 DEF PropagationOK
<1> QED BY <1>1, <1>3, <1>6, <1>7, SharesKept
\* An ancestor is informed: it is counted in, or out, and no other.
LEMMA InformAncestorCounts ==
    ASSUME CountInv, OwnInv', NEW t \in Thread, InformAncestor(t)
    PROVE  CountInv'
<1>0. PICK n \in Node : n = call[t].node
  BY RunningCall DEF InformAncestor, CountInv, OwnInv
<1>1. PICK c \in Node : c = cursor[t]
  BY DEF InformAncestor, CountInv, OwnInv, TypeInv, ThreadTypes
<1>2. /\ pc[t] = "inform" /\ call[t].op \in {"lock", "unlock"} /\ found[t] = <<>> /\ TypeInv
      /\ descendantLockedCount' = [descendantLockedCount EXCEPT ![c] = @ + Delta(t)]
      /\ cursor' = [cursor EXCEPT ![t] = Parent[c]]
      /\ UNCHANGED <<ancestorLockedCount, pc, call, work, held>> /\ c # NoNode
  <2>1. call[t].op \in {"lock", "unlock"}
    BY RunningCall DEF InformAncestor, CountInv, OwnInv, OwnOK
  <2> QED BY <1>1, <2>1 DEF InformAncestor, CountInv, OwnInv, TypeInv, ControlOK
<1>3. Still(t) /\ cursor'[t] = Parent[c]
  BY <1>2 DEF Still, TypeInv, ThreadTypes
<1>4. /\ PendingAbove(t) = {c} \cup Above[c]
      /\ PendingAbove(t)' = PendingAbove(t) \ {c}
      /\ PendingBelow(t)' = PendingBelow(t)
  BY <1>1, <1>2, CursorClimbs DEF PendingAbove
<1>5. /\ PendingAbove(t) \subseteq Above[n] /\ PendingBelow(t) \subseteq Below[n] /\ Apart(work[t])
  BY <1>0, <1>2 DEF CountInv, PropagationOK
<1>6. PropagationOK(t)'
  BY <1>0, <1>2, <1>4, <1>5 DEF PropagationOK, Apart
<1>7. \A m \in Node : Holds(t, m)' <=> Holds(t, m)
  BY <1>2 DEF Holds
<1>8. /\ \A m \in Node : BelowShare(t, m)' = BelowShare(t, m)
      /\ \A m \in Node \ {n} : AboveShare(t, m)' = AboveShare(t, m)
  BY <1>0, <1>2, <1>4, <1>7 DEF AboveShare, BelowShare, Share
<1> DEFINE q == <<t, n>>
<1>9. q \in Slots /\ AboveShares[q] = AboveShare(t, n) /\ AboveShares'[q] = AboveShare(t, n)'
  BY DEF AboveShares, Slots
<1>10. \/ Delta(t) = 1 /\ c \notin AboveShare(t, n) /\ AboveShare(t, n)' = AboveShare(t, n) \cup {c}
       \/ Delta(t) = -1 /\ c \in AboveShare(t, n) /\ AboveShare(t, n)' = AboveShare(t, n) \ {c}
  <2>1. CASE call[t].op = "lock"
    <3>1. Delta(t) = 1
      BY <1>2, <2>1 DEF Delta
    <3>2. AboveShare(t, n) = Above[n] \ PendingAbove(t)
      BY <1>0, <1>2, <2>1 DEF AboveShare, Share
    <3>3. AboveShare(t, n)' = Above[n] \ PendingAbove(t)'
      BY <1>0, <1>2, <2>1 DEF AboveShare, Share
    <3> QED BY <1>4, <1>5, <3>1, <3>2, <3>3
  <2>2. CASE call[t].op = "unlock"
    <3>1. Delta(t) = -1
      BY <2>2 DEF Delta
    <3>2. AboveShare(t, n) = PendingAbove(t) /\ AboveShare(t, n)' = PendingAbove(t)'
      BY <1>0, <1>2, <2>2 DEF AboveShare, Share
    <3> QED BY <1>4, <3>1, <3>2
  <2> QED BY <1>2, <2>1, <2>2
<1>11. \A p \in Slots \ {q} : AboveShares'[p] = AboveShares[p]
  BY <1>3, <1>8, StillShares DEF AboveShares, Slots
<1>12. BelowShares' = BelowShares
  BY <1>3, <1>8, StillShares DEF BelowShares, Slots
<1>13. descendantLockedCount \in [Node -> Int]
  BY <1>2 DEF TypeInv, NodeTypes
<1>14. \A x \in Node : descendantLockedCount[x] = Cardinality({p \in Slots : x \in AboveShares[p]})
  BY CountsAre DEF CountInv
<1>15. \A x \in Node : descendantLockedCount'[x] = Cardinality({p \in Slots : x \in AboveShares'[p]})
  <2> DEFINE f == AboveShares
             g == AboveShares'
             d == Delta(t)
             a == descendantLockedCount
             b == descendantLockedCount'
  <2>1. /\ a \in [Node -> Int] /\ q \in Slots
        /\ \A x \in Node : a[x] = Cardinality({p \in Slots : x \in f[p]})
        /\ \A p \in Slots \ {q} : g[p] = f[p]
        /\ b = [a EXCEPT ![c] = @ + d]
        /\ \/ d = 1 /\ c \notin f[q] /\ g[q] = f[q] \cup {c}
           \/ d = -1 /\ c \in f[q] /\ g[q] = f[q] \ {c}
    BY <1>2, <1>9, <1>10, <1>11, <1>13, <1>14
  <2> HIDE DEF f, g, d, a, b, q
  <2>2. \A x \in Node : b[x] = Cardinality({p \in Slots : x \in g[p]})
    BY <2>1, CountMoves
  <2> QED BY <2>2 DEF b, g
<1>16. CountsAccounted'
  BY <1>2, <1>12, <1>15, CountsAre, CountsAreNext DEF CountInv
<1>17. \A s \in Thread : PropagationOK(s)'
  BY <1>3, <1>6, StillShares DEF CountInv
<1> QED BY <1>16, <1>17 DEF CountInv

\* A descendant is informed; its children take its place in the worklist.
LEMMA InformDescendantCounts ==
    ASSUME CountInv, OwnInv', NEW t \in Thread, InformDescendant(t)
    PROVE  CountInv'
<1>0. PICK n \in Node : n = call[t].node
  BY RunningCall DEF InformDescendant, CountInv, OwnInv
<1>w. work[t] \in Seq(Node) /\ work[t] # <<>>
  BY DEF InformDescendant, CountInv, OwnInv, TypeInv, ThreadTypes
<1>1. PICK c \in Node : c = Head(work[t])
  BY <1>w, HeadTailProperties
<1>2. /\ pc[t] = "inform" /\ call[t].op \in {"lock", "unlock"} /\ found[t] = <<>> /\ TypeInv
      /\ ancestorLockedCount' = [ancestorLockedCount EXCEPT ![c] = @ + Delta(t)]
      /\ work' = [work EXCEPT ![t] = Children[c] \o Tail(work[t])]
      /\ UNCHANGED <<descendantLockedCount, pc, call, cursor, held>>
  <2>1. call[t].op \in {"lock", "unlock"}
    BY RunningCall DEF InformDescendant, CountInv, OwnInv, OwnOK
  <2> QED BY <1>1, <2>1 DEF InformDescendant, CountInv, OwnInv, TypeInv, ControlOK
<1>3. Still(t) /\ work'[t] = Children[c] \o Tail(work[t])
  BY <1>2 DEF Still, TypeInv, ThreadTypes
<1>5. /\ PendingAbove(t) \subseteq Above[n] /\ PendingBelow(t) \subseteq Below[n] /\ Apart(work[t])
  BY <1>0, <1>2 DEF CountInv, PropagationOK
<1>4. /\ c \in PendingBelow(t)
      /\ PendingBelow(t)' = PendingBelow(t) \ {c}
      /\ PendingAbove(t)' = PendingAbove(t)
      /\ Apart(work'[t])
  BY <1>1, <1>2, <1>5, WorklistShrinks
<1>6. PropagationOK(t)'
  BY <1>0, <1>2, <1>4, <1>5 DEF PropagationOK, Apart
<1>7. \A m \in Node : Holds(t, m)' <=> Holds(t, m)
  BY <1>2 DEF Holds
<1>8. /\ \A m \in Node : AboveShare(t, m)' = AboveShare(t, m)
      /\ \A m \in Node \ {n} : BelowShare(t, m)' = BelowShare(t, m)
  BY <1>0, <1>2, <1>4, <1>7 DEF AboveShare, BelowShare, Share
<1> DEFINE q == <<t, n>>
<1>9. q \in Slots /\ BelowShares[q] = BelowShare(t, n) /\ BelowShares'[q] = BelowShare(t, n)'
  BY DEF BelowShares, Slots
<1>10. \/ Delta(t) = 1 /\ c \notin BelowShare(t, n) /\ BelowShare(t, n)' = BelowShare(t, n) \cup {c}
       \/ Delta(t) = -1 /\ c \in BelowShare(t, n) /\ BelowShare(t, n)' = BelowShare(t, n) \ {c}
  <2>1. CASE call[t].op = "lock"
    <3>1. Delta(t) = 1
      BY <1>2, <2>1 DEF Delta
    <3>2. BelowShare(t, n) = Below[n] \ PendingBelow(t)
      BY <1>0, <1>2, <2>1 DEF BelowShare, Share
    <3>3. BelowShare(t, n)' = Below[n] \ PendingBelow(t)'
      BY <1>0, <1>2, <2>1 DEF BelowShare, Share
    <3> QED BY <1>4, <1>5, <3>1, <3>2, <3>3
  <2>2. CASE call[t].op = "unlock"
    <3>1. Delta(t) = -1
      BY <2>2 DEF Delta
    <3>2. BelowShare(t, n) = PendingBelow(t) /\ BelowShare(t, n)' = PendingBelow(t)'
      BY <1>0, <1>2, <2>2 DEF BelowShare, Share
    <3> QED BY <1>4, <3>1, <3>2
  <2> QED BY <1>2, <2>1, <2>2
<1>11. \A p \in Slots \ {q} : BelowShares'[p] = BelowShares[p]
  BY <1>3, <1>8, StillShares DEF BelowShares, Slots
<1>12. AboveShares' = AboveShares
  BY <1>3, <1>8, StillShares DEF AboveShares, Slots
<1>13. ancestorLockedCount \in [Node -> Int]
  BY <1>2 DEF TypeInv, NodeTypes
<1>14. \A x \in Node : ancestorLockedCount[x] = Cardinality({p \in Slots : x \in BelowShares[p]})
  BY CountsAre DEF CountInv
<1>15. \A x \in Node : ancestorLockedCount'[x] = Cardinality({p \in Slots : x \in BelowShares'[p]})
  <2> DEFINE f == BelowShares
             g == BelowShares'
             d == Delta(t)
             a == ancestorLockedCount
             b == ancestorLockedCount'
  <2>1. /\ a \in [Node -> Int] /\ q \in Slots
        /\ \A x \in Node : a[x] = Cardinality({p \in Slots : x \in f[p]})
        /\ \A p \in Slots \ {q} : g[p] = f[p]
        /\ b = [a EXCEPT ![c] = @ + d]
        /\ \/ d = 1 /\ c \notin f[q] /\ g[q] = f[q] \cup {c}
           \/ d = -1 /\ c \in f[q] /\ g[q] = f[q] \ {c}
    BY <1>2, <1>9, <1>10, <1>11, <1>13, <1>14
  <2> HIDE DEF f, g, d, a, b, q
  <2>2. \A x \in Node : b[x] = Cardinality({p \in Slots : x \in g[p]})
    BY <2>1, CountMoves
  <2> QED BY <2>2 DEF b, g
<1>16. CountsAccounted'
  BY <1>2, <1>12, <1>15, CountsAre, CountsAreNext DEF CountInv
<1>17. \A s \in Thread : PropagationOK(s)'
  BY <1>3, <1>6, StillShares DEF CountInv
<1> QED BY <1>16, <1>17 DEF CountInv
LEMMA CallCounts ==
    ASSUME CountInv, OwnInv', NEW t \in Thread, Call(t)
    PROVE  CountInv'
<1>1. ASSUME NEW op, NEW n, NEW u, NEW l, l # "inform", Begin(t, op, n, u, l)
      PROVE  CountInv'
  <2>1. /\ pc[t] = "idle" /\ pc'[t] # "inform" /\ Still(t) /\ held'[t] = held[t]
        /\ UNCHANGED <<ancestorLockedCount, descendantLockedCount>>
    BY <1>1 DEF Begin, Goto, nodeVars, Still, CountInv, OwnInv, TypeInv, ThreadTypes
  <2> QED BY <2>1, SharesHeld
<1> QED BY <1>1 DEF Call, CallLock, CallUnlock, CallUpgrade

\* The steps that only look, take, roll back or clear an owner.
LEMMA ControlCounts ==
    ASSUME CountInv, OwnInv', NEW t \in Thread,
           \/ LoadAncestors(t) \/ LoadDescendants(t) \/ CasLock(t) \/ CasLockSpurious(t)
           \/ RecheckAncestors(t) \/ RecheckDescendants(t) \/ Rollback(t)
           \/ CheckOwner(t) \/ ClearOwner(t)
    PROVE  CountInv'
<1>1. pc[t] # "inform" /\ UNCHANGED <<ancestorLockedCount, descendantLockedCount>>
  BY DEF LoadAncestors, LoadDescendants, CasLock, CasLockSpurious, RecheckAncestors,
     RecheckDescendants, Rollback, CheckOwner, ClearOwner, nodeVars
<1>2. TypeInv
  BY DEF CountInv, OwnInv
<1>3. ASSUME NEW l, l # "inform", Proceed(t, l) PROVE CountInv'
  BY <1>1, <1>2, <1>3, ProceedStill, SharesHeld
<1>4. ASSUME ReturnFalse(t) PROVE CountInv'
  BY <1>1, <1>2, <1>4, ReturnFalseStill, SharesHeld
<1>5. CASE CasLockSpurious(t)
  <2>1. Still(t) /\ pc'[t] # "inform" /\ held'[t] = held[t]
    BY <1>1, <1>5 DEF CasLockSpurious, threadVars, Still
  <2> QED BY <1>1, <2>1, SharesHeld
<1> QED BY <1>3, <1>4, <1>5
        DEF LoadAncestors, LoadDescendants, CasLock, RecheckAncestors, RecheckDescendants,
            Rollback, CheckOwner, ClearOwner

LEMMA CountStutter ==
    ASSUME CountInv, OwnInv', UNCHANGED vars
    PROVE  CountInv'
<1>1. /\ UNCHANGED <<ancestorLockedCount, descendantLockedCount, pc, call, cursor, work, held>>
  BY DEF vars, nodeVars, threadVars
<1>2. \A t \in Thread : \A m \in Node :
         AboveShare(t, m)' = AboveShare(t, m) /\ BelowShare(t, m)' = BelowShare(t, m)
  BY <1>1 DEF AboveShare, BelowShare, Share, PendingAbove, PendingBelow, Holds
<1>3. AboveShares' = AboveShares /\ BelowShares' = BelowShares
  BY <1>2 DEF AboveShares, BelowShares, Slots
<1>4. CountsAccounted'
  BY <1>1, <1>3, CountsAre, CountsAreNext DEF CountInv
<1>5. \A t \in Thread : PropagationOK(t)'
  BY <1>1 DEF CountInv, PropagationOK, PendingAbove, PendingBelow, Apart
<1> QED BY <1>4, <1>5 DEF CountInv

LEMMA CountInit == Init => CountInv
<1> SUFFICES ASSUME Init PROVE CountInv
  OBVIOUS
<1>1. OwnInv
  BY OwnInit
<1>2. \A t \in Thread : \A m \in Node : AboveShare(t, m) = {} /\ BelowShare(t, m) = {}
  BY DEF Init, AboveShare, BelowShare, Share, Holds
<1>3. \A x \in Node : /\ {p \in Slots : x \in AboveShares[p]} = {}
                      /\ {p \in Slots : x \in BelowShares[p]} = {}
  BY <1>2 DEF AboveShares, BelowShares, Slots
<1>4. CountsAccounted
  BY <1>3, CountsAre, FS_EmptySet DEF Init
<1>5. \A t \in Thread : PropagationOK(t)
  BY DEF Init, PropagationOK
<1> QED BY <1>1, <1>4, <1>5 DEF CountInv

LEMMA CountNext ==
    ASSUME LocksOnly, CountInv, [Next]_vars
    PROVE  CountInv'
<1>1. OwnInv /\ OwnInv'
  BY OwnNext DEF CountInv
<1>2. CASE UNCHANGED vars
  BY <1>1, <1>2, CountStutter
<1>3. CASE Next
  BY <1>1, <1>3, CallCounts, ControlCounts, SetOwnerCounts, InformAncestorCounts,
     InformDescendantCounts, InformDoneCounts, CasFreeCounts, NeverThere DEF Next, Step
<1> QED BY <1>2, <1>3

LEMMA CountInvCorrect == ASSUME LocksOnly PROVE Spec => []CountInv
  BY CountInit, CountNext, PTL DEF Spec

\* At every moment each counter is the number of locks counted at its node:
\* no increment or decrement of a propagation is lost, doubled or misdirected,
\* in any interleaving and any tree.
THEOREM CountsCorrect == ASSUME LocksOnly PROVE Spec => []CountsAccounted
<1>1. CountInv => CountsAccounted
  BY DEF CountInv
<1> QED BY <1>1, CountInvCorrect, PTL

\* With no call running a thread is counted once in each locked node of a set.
LEMMA HoldersCounted ==
    ASSUME CountInv, AllIdle, NEW S \in SUBSET Node
    PROVE  Cardinality({p \in Slots : p[2] \in S /\ Holds(p[1], p[2])})
              = Cardinality({d \in S : lockState[d] = 1})
<1> DEFINE P == {p \in Slots : p[2] \in S /\ Holds(p[1], p[2])}
           D == {d \in S : lockState[d] = 1}
           f == [p \in P |-> p[2]]
<1>1. \A t \in Thread, n \in Node : Tenant(t, n) <=> Holds(t, n)
  BY DEF AllIdle, CountInv, OwnInv, TypeInv, ControlOK, NoCall, Tenant, Running
<1>2. \A n \in Node :
         /\ \A t1, t2 \in Thread : Holds(t1, n) /\ Holds(t2, n) => t1 = t2
         /\ lockState[n] = 1 <=> \E t \in Thread : Holds(t, n)
  BY <1>1 DEF CountInv, OwnInv, NodeExclusive
<1>3. f \in [P -> D]
  BY <1>2 DEF Slots
<1>4. \A p, q \in P : f[p] = f[q] => p = q
  BY <1>2 DEF Slots
<1>5. \A d \in D : \E p \in P : f[p] = d
  <2> SUFFICES ASSUME NEW d \in D PROVE \E p \in P : f[p] = d
    OBVIOUS
  <2>1. PICK t \in Thread : Holds(t, d)
    BY <1>2
  <2>2. <<t, d>> \in P /\ f[<<t, d>>] = d
    BY <2>1 DEF Slots
  <2> QED BY <2>2
<1>6. IsFiniteSet(P)
  <2>1. IsFiniteSet(Slots) /\ P \in SUBSET Slots
    BY FS_Product, CallerAssumption, TreeAssumption DEF Slots
  <2> HIDE DEF P
  <2> QED BY <2>1, FS_Subset
<1>7. ExistsBijection(P, D)
  <2> HIDE DEF P, D, f
  <2>1. f \in Bijection(P, D)
    BY <1>3, <1>4, <1>5 DEF Bijection, Injection, Surjection, IsInjective
  <2> QED BY <2>1 DEF ExistsBijection
<1> HIDE DEF P, D, f
<1>8. Cardinality(D) = Cardinality(P)
  BY <1>6, <1>7, FS_Bijection
<1> QED BY <1>8 DEF P, D

\* Whenever no call is running, descendantLockedCount and ancestorLockedCount
\* say how many nodes below and above are locked, so that the O(1) checks of the
\* next lock() are the walks they stand for.
THEOREM QuiescentCorrect == ASSUME LocksOnly PROVE Spec => []QuiescentExact
<1>1. CountInv => QuiescentExact
  <2> SUFFICES ASSUME CountInv, AllIdle, NEW n \in Node
               PROVE  /\ descendantLockedCount[n] = Cardinality({d \in Below[n] : lockState[d] = 1})
                      /\ ancestorLockedCount[n] = Cardinality({a \in Above[n] : lockState[a] = 1})
    BY DEF QuiescentExact
  <2>1. \A t \in Thread, m \in Node :
           /\ AboveShare(t, m) = IF Holds(t, m) THEN Above[m] ELSE {}
           /\ BelowShare(t, m) = IF Holds(t, m) THEN Below[m] ELSE {}
    BY DEF AllIdle, AboveShare, BelowShare, Share
  <2>2. Below[n] \in SUBSET Node /\ Above[n] \in SUBSET Node
    BY BelowIs, AboveFacts
  <2>3. \A m \in Node : (n \in Above[m] <=> m \in Below[n]) /\ (n \in Below[m] <=> m \in Above[n])
    BY <2>2, BelowIs
  <2>4. {p \in Slots : n \in AboveShares[p]} = {p \in Slots : p[2] \in Below[n] /\ Holds(p[1], p[2])}
    BY <2>1, <2>3 DEF AboveShares, Slots
  <2>5. {p \in Slots : n \in BelowShares[p]} = {p \in Slots : p[2] \in Above[n] /\ Holds(p[1], p[2])}
    BY <2>1, <2>3 DEF BelowShares, Slots
  <2>6. /\ descendantLockedCount[n] = Cardinality({p \in Slots : n \in AboveShares[p]})
        /\ ancestorLockedCount[n] = Cardinality({p \in Slots : n \in BelowShares[p]})
    BY CountsAre DEF CountInv
  <2> QED BY <2>2, <2>4, <2>5, <2>6, HoldersCounted
<1> QED BY <1>1, CountInvCorrect, PTL

\* A locked node is freed only in the rollback or the unlock() of the thread
\* that took it: nothing releases the node of a thread that has died.
THEOREM NeverReleased == ASSUME LocksOnly PROVE Spec => NoAutomaticRelease
<1> DEFINE A == \A n \in Node : lockState[n] = 1 /\ lockState'[n] = 0 =>
                   \E t \in Thread : /\ {o \in Thread : Tenant(o, n)} = {t}
                                     /\ pc[t] \in {"rollback", "casFree"} /\ pc'[t] # pc[t]
<1>1. ASSUME OwnInv, [Next]_vars PROVE [A]_vars
  <2> SUFFICES ASSUME Next, NEW n \in Node, lockState[n] = 1, lockState'[n] = 0
               PROVE  \E t \in Thread : /\ {o \in Thread : Tenant(o, n)} = {t}
                                        /\ pc[t] \in {"rollback", "casFree"} /\ pc'[t] # pc[t]
    BY <1>1
  <2>0. \A t \in Thread : Tenant(t, n) => {o \in Thread : Tenant(o, n)} = {t}
    BY <1>1 DEF OwnInv, NodeExclusive
  <2>1. PICK t \in Thread : Call(t) \/ Step(t)
    BY DEF Next
  <2>2. TypeInv /\ lockState \in [Node -> {0, 1}]
    BY <1>1 DEF OwnInv, TypeInv, NodeTypes
  <2>3. CASE Rollback(t)
    <3>1. /\ pc[t] = "rollback" /\ call[t].op = "lock" /\ ReturnFalse(t)
          /\ lockState' = [lockState EXCEPT ![call[t].node] = 0]
      BY <2>2, <2>3 DEF Rollback, TypeInv, ControlOK, FitsOp, LockLabels
    <3>2. n = call[t].node /\ pc'[t] = "idle"
      BY <2>2, <3>1, ReturnFalseStill
    <3>3. Tenant(t, n)
      BY <3>1, <3>2 DEF Tenant, Running
    <3> QED BY <2>0, <3>1, <3>2, <3>3
  <2>4. CASE CasFree(t)
    <3>1. pc[t] = "casFree" /\ call[t].op = "unlock"
      BY <2>2, <2>4 DEF CasFree, TypeInv, ControlOK, FitsOp, UnlockLabels
    <3>2. n = call[t].node /\ StartInform(t, n)
      BY <2>2, <2>4 DEF CasFree
    <3>3. pc'[t] = "inform"
      BY <2>2, <3>2, StartInformStill
    <3>4. Tenant(t, n)
      BY <1>1, <2>2, <3>1, <3>2, RunningCall DEF OwnInv, OwnOK, Tenant, Holds
    <3> QED BY <2>0, <3>1, <3>3, <3>4
  <2>5. CASE ~(Rollback(t) \/ CasFree(t))
    <3>1. UNCHANGED lockState \/ lockState' = [lockState EXCEPT ![call[t].node] = 1]
      <4>1. CASE Call(t)
        BY <4>1 DEF Call, CallLock, CallUnlock, CallUpgrade, Begin, nodeVars
      <4>2. CASE \/ LoadAncestors(t) \/ LoadDescendants(t) \/ CasLock(t) \/ CasLockSpurious(t)
                 \/ RecheckAncestors(t) \/ RecheckDescendants(t) \/ SetOwner(t)
        BY <4>2 DEF LoadAncestors, LoadDescendants, CasLock, CasLockSpurious, RecheckAncestors,
           RecheckDescendants, SetOwner, nodeVars
      <4>3. CASE \/ InformAncestor(t) \/ InformDescendant(t) \/ InformDone(t)
                 \/ CheckOwner(t) \/ ClearOwner(t)
        BY <4>3 DEF InformAncestor, InformDescendant, InformDone, CheckOwner, ClearOwner, nodeVars
      <4> QED BY <1>1, <2>1, <2>5, <4>1, <4>2, <4>3, NeverThere DEF Step
    <3> QED BY <2>2, <3>1
  <2> QED BY <2>3, <2>4, <2>5
<1> HIDE DEF A
<1>2. Spec => [][A]_vars
  BY <1>1, OwnInvCorrect, PTL DEF Spec
<1> QED BY <1>2, PTL DEF A, NoAutomaticRelease

\* A node held by a finished lock() is counted above and below.
LEMMA HeldIsCounted ==
    ASSUME CountInv, NEW t \in Thread, NEW m \in Node, NEW n \in Node,
           Holds(t, m), ~Freed(t, m)
    PROVE  /\ n \in Above[m] => descendantLockedCount[n] > 0
           /\ n \in Below[m] => ancestorLockedCount[n] > 0
<1>1. ~(pc[t] = "inform" /\ call[t].node = m)
  <2> SUFFICES ASSUME pc[t] = "inform", call[t].node = m PROVE FALSE
    OBVIOUS
  <2>1. call[t].op \in {"lock", "unlock"}
    BY RunningCall DEF CountInv, OwnInv, OwnOK
  <2>2. Taking(t, m) \/ Freed(t, m)
    BY <2>1 DEF Taking, Freed, Running
  <2> QED BY <2>2 DEF CountInv, OwnInv, OwnOK
<1>2. AboveShares[<<t, m>>] = Above[m] /\ BelowShares[<<t, m>>] = Below[m]
  BY <1>1 DEF AboveShares, BelowShares, AboveShare, BelowShare, Share, Slots
<1>3. \A f : n \in f[<<t, m>>] => Cardinality({p \in Slots : n \in f[p]}) \in Nat \ {0}
  <2> SUFFICES ASSUME NEW f, n \in f[<<t, m>>]
               PROVE  Cardinality({p \in Slots : n \in f[p]}) \in Nat \ {0}
    OBVIOUS
  <2> DEFINE F == {p \in Slots : n \in f[p]}
  <2>1. F \in SUBSET Slots /\ <<t, m>> \in F
    BY DEF Slots
  <2>2. IsFiniteSet(Slots)
    BY FS_Product, CallerAssumption, TreeAssumption DEF Slots
  <2> HIDE DEF F
  <2>3. IsFiniteSet(F) /\ Cardinality(F) \in Nat /\ F # {}
    BY <2>1, <2>2, FS_Subset, FS_CardinalityType
  <2>4. Cardinality(F) # 0
    BY <2>3, FS_EmptySet
  <2> QED BY <2>3, <2>4 DEF F
<1>4. /\ descendantLockedCount[n] = Cardinality({p \in Slots : n \in AboveShares[p]})
      /\ ancestorLockedCount[n] = Cardinality({p \in Slots : n \in BelowShares[p]})
  BY CountsAre DEF CountInv
<1>5. \A k \in Nat \ {0} : k > 0
  OBVIOUS
<1> QED BY <1>2, <1>3, <1>4, <1>5

\* A thread at the re-validation does nothing else.
LEMMA RecheckPlaces ==
    ASSUME NEW t \in Thread, Step(t), pc[t] \in {"recheckAncestors", "recheckDescendants"}
    PROVE  RecheckAncestors(t) \/ RecheckDescendants(t)
<1>1. ~(LoadAncestors(t) \/ LoadDescendants(t) \/ CasLock(t) \/ CasLockSpurious(t)
        \/ Rollback(t) \/ SetOwner(t))
  BY DEF LoadAncestors, LoadDescendants, CasLock, CasLockSpurious, Rollback, SetOwner
<1>2. ~(InformAncestor(t) \/ InformDescendant(t) \/ InformDone(t)
        \/ CheckOwner(t) \/ ClearOwner(t) \/ CasFree(t) \/ RestoreOwner(t))
  BY DEF InformAncestor, InformDescendant, InformDone, CheckOwner, ClearOwner, CasFree, RestoreOwner
<1>3. ~(CheckState(t) \/ CheckAncestors(t) \/ ScanState(t) \/ ScanOwner(t)
        \/ ScanDone(t) \/ FreeState(t) \/ FreeOwner(t) \/ CasUpgrade(t))
  BY DEF CheckState, CheckAncestors, ScanState, ScanOwner, ScanDone, FreeState, FreeOwner, CasUpgrade
<1> QED BY <1>1, <1>2, <1>3 DEF Step

\* With lock and unlock on any nodes of any tree: the re-validation fails for sure
\* if a node above or below is held by a lock() that has returned. Only calls that
\* overlap can both win on one path.
THEOREM ReturnedLocksAreSeen == ASSUME LocksOnly PROVE Spec => ReturnedLocksSeen
<1> DEFINE A ==
      \A t, o \in Thread : \A h \in held[t] :
          ~(Running(t, "unlock", h[1]) /\ pc[t] = "inform") =>
              /\ pc[o] = "recheckAncestors" /\ pc'[o] = "recheckDescendants"
                    => h[1] \notin Above[call[o].node]
              /\ pc[o] = "recheckDescendants" /\ pc'[o] = "setOwner"
                    => h[1] \notin Below[call[o].node]
<1>1. ASSUME CountInv, [Next]_vars PROVE [A]_vars
  <2> SUFFICES ASSUME Next, NEW t \in Thread, NEW o \in Thread, NEW h \in held[t],
                      ~(Running(t, "unlock", h[1]) /\ pc[t] = "inform"),
                      pc[o] \in {"recheckAncestors", "recheckDescendants"},
                      pc'[o] \in {"recheckDescendants", "setOwner"}, pc'[o] # pc[o]
               PROVE  IF pc[o] = "recheckAncestors" THEN h[1] \notin Above[call[o].node]
                      ELSE h[1] \notin Below[call[o].node]
    BY <1>1
  <2>1. TypeInv /\ h \in Node \X User
    BY <1>1 DEF CountInv, OwnInv, TypeInv, ThreadTypes
  <2>2. PICK m \in Node, n \in Node : m = h[1] /\ n = call[o].node
    BY <2>1, RunningCall
  <2>3. Holds(t, m) /\ ~Freed(t, m)
    BY <2>1, <2>2 DEF Holds, Freed
  <2>4. /\ n \in Above[m] => descendantLockedCount[n] > 0
        /\ n \in Below[m] => ancestorLockedCount[n] > 0
    BY <1>1, <2>3, HeldIsCounted
  <2>5. /\ n \in Above[m] <=> m \in Below[n]
        /\ n \in Below[m] <=> m \in Above[n]
    BY BelowIs, AboveFacts
  <2>6. RecheckAncestors(o) \/ RecheckDescendants(o)
    <3>1. PICK s \in Thread : Call(s) \/ Step(s)
      BY DEF Next
    <3>2. s = o
      BY <2>1, <3>1, OnlyOwnPc
    <3>3. ~Call(o)
      BY DEF Call, CallLock, CallUnlock, CallUpgrade, Begin
    <3> QED BY <3>1, <3>2, <3>3, RecheckPlaces
  <2>7. CASE RecheckAncestors(o)
    <3>1. ~(ancestorLockedCount[n] > 0)
      BY <2>1, <2>2, <2>7, ProceedShape DEF RecheckAncestors
    <3> QED BY <2>2, <2>4, <2>5, <2>7, <3>1 DEF RecheckAncestors
  <2>8. CASE RecheckDescendants(o)
    <3>1. ~(descendantLockedCount[n] > 0)
      BY <2>1, <2>2, <2>8, ProceedShape DEF RecheckDescendants
    <3> QED BY <2>2, <2>4, <2>5, <2>8, <3>1 DEF RecheckDescendants
  <2> QED BY <2>6, <2>7, <2>8
<1> HIDE DEF A
<1>2. Spec => [][A]_vars
  BY <1>1, CountInvCorrect, PTL DEF Spec
<1> QED BY <1>2 DEF A, ReturnedLocksSeen
=============================================================================
