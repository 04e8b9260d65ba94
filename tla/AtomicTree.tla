----------------------------- MODULE AtomicTree -----------------------------
(***************************************************************************)
(* The lock-free tree of src/src/atomic_tree.cpp, called by concurrent     *)
(* threads.  Every step performs at most one access to one atomic of one   *)
(* node; the accesses interleave in any order (sequential consistency).    *)
(* The tree itself is a constant: addNode is "called during setup, not     *)
(* thread-safe", so no thread sees it change.  PaymentTree models addNode. *)
(*                                                                         *)
(* A thread between calls is "idle"; its program counter otherwise names   *)
(* the atomic access it performs next.                                     *)
(***************************************************************************)
EXTENDS Integers, Sequences, FiniteSets, Forest

CONSTANTS
    Node, NoNode,    \* the AtomicTreeNodes, and nullptr
    Parent,          \* node->parent
    Children,        \* node->children, in the order of addNode
    Thread,
    User, NoUser,    \* user ids; NoUser is the code's -1
    UsersOf,         \* UsersOf[t]: the user ids thread t passes in its calls
    LockTargets,     \* nodes callers pass to lock()
    UpgradeTargets,  \* nodes callers pass to upgradeLock()
    StrayUnlocks,    \* nodes callers pass to unlock() without holding them
    Mortal,          \* threads that may die, at any access of a call
    MaxHeld,         \* bound: locks a thread takes before it gives one back
    MaxRetries       \* bound: spurious failures of compare_exchange_weak

\* What addNode builds: parent pointers without a cycle, and in each node
\* one children entry for every node whose parent pointer it is.
ASSUME TreeAssumption ==
    /\ IsFiniteSet(Node)
    /\ NoNode \notin Node
    /\ Parent \in [Node -> Node \cup {NoNode}]
    /\ IsForest(Parent)
    /\ Children \in [Node -> Seq(Node)]
    /\ \A n \in Node :
          /\ \A i \in 1 .. Len(Children[n]) : Parent[Children[n][i]] = n
          /\ \A c \in Node : Parent[c] = n => \E i \in 1 .. Len(Children[n]) : Children[n][i] = c
          /\ \A i, j \in 1 .. Len(Children[n]) : Children[n][i] = Children[n][j] => i = j

ASSUME CallerAssumption ==
    /\ IsFiniteSet(Thread)
    /\ NoUser \notin User
    /\ UsersOf \in [Thread -> SUBSET User]
    /\ LockTargets \subseteq Node
    /\ UpgradeTargets \subseteq Node
    /\ StrayUnlocks \subseteq Node
    /\ Mortal \subseteq Thread
    /\ MaxHeld \in Nat
    /\ MaxRetries \in Nat

\* Evaluated once: the nodes above and below each node.
Above == [n \in Node |-> Ancestors(Parent, n)]
Below == [n \in Node |-> {d \in Node : n \in Above[d]}]

VARIABLES
    lockState, lockedBy,                        \* the atomics of each node
    ancestorLockedCount, descendantLockedCount,
    casRetries,                                 \* metrics.casRetries
    pc,      \* pc[t]: the next access of thread t
    call,    \* call[t]: the running call, [op, node, user]
    cursor,  \* cursor[t]: `current' of informAncestorsAtomic, NoNode at its end
    work,    \* work[t]: BFS queue of upgradeLock, or the nodes that
             \*   informDescendantsAtomic has still to visit, next one first
    found,   \* found[t]: lockedDescendants not yet released
    held     \* held[t]: the <<node, user>> pairs t has been told it holds

nodeVars == <<lockState, lockedBy, ancestorLockedCount, descendantLockedCount>>
threadVars == <<pc, call, cursor, work, found, held>>
vars == <<nodeVars, casRetries, threadVars>>

Ops == {"none", "lock", "unlock", "upgrade"}
NoCall == [op |-> "none", node |-> NoNode, user |-> NoUser]

Labels == {"idle",
           "loadAncestors", "loadDescendants", "cas",                 \* lock
           "recheckAncestors", "recheckDescendants", "rollback",
           "setOwner", "inform",
           "checkOwner", "clearOwner", "casFree", "restoreOwner",     \* unlock
           "checkState", "checkAncestors", "scanState", "scanOwner",  \* upgradeLock
           "freeState", "freeOwner", "casUpgrade"}

\* The atomics keep the values the code stores in them, and every thread stands
\* at an access of a call on a node of the tree.
TypeOK ==
    /\ lockState \in [Node -> {0, 1}]
    /\ lockedBy \in [Node -> User \cup {NoUser}]
    /\ ancestorLockedCount \in [Node -> Int]
    /\ descendantLockedCount \in [Node -> Int]
    /\ casRetries \in 0 .. MaxRetries
    /\ pc \in [Thread -> Labels]
    /\ call \in [Thread -> [op : Ops, node : Node \cup {NoNode}, user : User \cup {NoUser}]]
    /\ cursor \in [Thread -> Node \cup {NoNode}]
    /\ work \in [Thread -> Seq(Node)]
    /\ found \in [Thread -> Seq(Node)]
    /\ held \in [Thread -> SUBSET (Node \X User)]

Init ==
    /\ lockState = [n \in Node |-> 0]
    /\ lockedBy = [n \in Node |-> NoUser]
    /\ ancestorLockedCount = [n \in Node |-> 0]
    /\ descendantLockedCount = [n \in Node |-> 0]
    /\ casRetries = 0
    /\ pc = [t \in Thread |-> "idle"]
    /\ call = [t \in Thread |-> NoCall]
    /\ cursor = [t \in Thread |-> NoNode]
    /\ work = [t \in Thread |-> <<>>]
    /\ found = [t \in Thread |-> <<>>]
    /\ held = [t \in Thread |-> {}]
-----------------------------------------------------------------------------
\* Steps of control.

Goto(t, l) == pc' = [pc EXCEPT ![t] = l]

Begin(t, op, n, u, first) ==
    /\ pc[t] = "idle"
    /\ call' = [call EXCEPT ![t] = [op |-> op, node |-> n, user |-> u]]
    /\ Goto(t, first)
    /\ UNCHANGED <<nodeVars, casRetries, cursor, work, found, held>>

\* The call ends; a successful one changes what the thread believes it holds.
Return(t, nowHeld) ==
    /\ Goto(t, "idle")
    /\ call' = [call EXCEPT ![t] = NoCall]
    /\ held' = [held EXCEPT ![t] = nowHeld]

ReturnFalse(t) ==
    /\ Return(t, held[t])
    /\ work' = [work EXCEPT ![t] = <<>>]
    /\ found' = [found EXCEPT ![t] = <<>>]
    /\ UNCHANGED cursor

\* A step that changes the program counter only.
Proceed(t, l) ==
    /\ Goto(t, l)
    /\ UNCHANGED <<call, cursor, work, found, held>>

\* Enter informAncestorsAtomic(n, ..) followed by informDescendantsAtomic(n, ..).
StartInform(t, n) ==
    /\ Goto(t, "inform")
    /\ cursor' = [cursor EXCEPT ![t] = Parent[n]]
    /\ work' = [work EXCEPT ![t] = Children[n]]
    /\ UNCHANGED <<call, found, held>>
-----------------------------------------------------------------------------
\* lock(node, user)

CallLock(t, n, u) ==
    /\ Cardinality(held[t]) < MaxHeld
    /\ Begin(t, "lock", n, u, "loadAncestors")

LoadAncestors(t) ==
    /\ pc[t] = "loadAncestors"
    /\ IF ancestorLockedCount[call[t].node] > 0
       THEN ReturnFalse(t)
       ELSE Proceed(t, "loadDescendants")
    /\ UNCHANGED <<nodeVars, casRetries>>

\* Mutant: the owner is written before the node has been won.
LoadDescendantsClaimFirst(t) ==
    /\ pc[t] = "loadDescendants"
    /\ IF descendantLockedCount[call[t].node] > 0
       THEN ReturnFalse(t) /\ UNCHANGED lockedBy
       ELSE /\ Proceed(t, "cas")
            /\ lockedBy' = [lockedBy EXCEPT ![call[t].node] = call[t].user]
    /\ UNCHANGED <<lockState, ancestorLockedCount, descendantLockedCount, casRetries>>

LoadDescendants(t) ==
    /\ pc[t] = "loadDescendants"
    /\ IF descendantLockedCount[call[t].node] > 0
       THEN ReturnFalse(t)
       ELSE Proceed(t, "cas")
    /\ UNCHANGED <<nodeVars, casRetries>>

\* Mutant: a plain store in place of the CAS.
CasLockUnchecked(t) ==
    /\ pc[t] = "cas"
    /\ lockState' = [lockState EXCEPT ![call[t].node] = 1]
    /\ Proceed(t, "recheckAncestors")
    /\ UNCHANGED <<lockedBy, ancestorLockedCount, descendantLockedCount, casRetries>>

\* Mutant: a locked node is retried, as in the diagram of the README.
CasLockSpin(t) ==
    /\ pc[t] = "cas"
    /\ lockState[call[t].node] = 0
    /\ lockState' = [lockState EXCEPT ![call[t].node] = 1]
    /\ Proceed(t, "recheckAncestors")
    /\ UNCHANGED <<lockedBy, ancestorLockedCount, descendantLockedCount, casRetries>>

\* Mutant: a CAS that finds the node locked falls through to the rollback.
CasLockBlames(t) ==
    /\ pc[t] = "cas"
    /\ lockState' = [lockState EXCEPT ![call[t].node] = 1]
    /\ Proceed(t, IF lockState[call[t].node] = 0 THEN "recheckAncestors" ELSE "rollback")
    /\ UNCHANGED <<lockedBy, ancestorLockedCount, descendantLockedCount, casRetries>>

\* compare_exchange_weak: it succeeds, finds the node locked, or fails spuriously.
CasLock(t) ==
    LET n == call[t].node
    IN  /\ pc[t] = "cas"
        /\ \/ /\ lockState[n] = 0
              /\ lockState' = [lockState EXCEPT ![n] = 1]
              /\ Proceed(t, "recheckAncestors")
           \/ /\ lockState[n] # 0
              /\ ReturnFalse(t)
              /\ UNCHANGED lockState
        /\ UNCHANGED <<lockedBy, ancestorLockedCount, descendantLockedCount, casRetries>>

CasLockSpurious(t) ==
    /\ pc[t] = "cas"
    /\ lockState[call[t].node] = 0
    /\ casRetries < MaxRetries
    /\ casRetries' = casRetries + 1
    /\ UNCHANGED <<nodeVars, threadVars>>

RecheckAncestors(t) ==
    /\ pc[t] = "recheckAncestors"
    /\ Proceed(t, IF ancestorLockedCount[call[t].node] > 0
                  THEN "rollback" ELSE "recheckDescendants")
    /\ UNCHANGED <<nodeVars, casRetries>>

\* Mutant: the re-validation looks upwards only.
RecheckAncestorsOnly(t) ==
    /\ pc[t] = "recheckDescendants"
    /\ Proceed(t, "setOwner")
    /\ UNCHANGED <<nodeVars, casRetries>>

RecheckDescendants(t) ==
    /\ pc[t] = "recheckDescendants"
    /\ Proceed(t, IF descendantLockedCount[call[t].node] > 0
                  THEN "rollback" ELSE "setOwner")
    /\ UNCHANGED <<nodeVars, casRetries>>

\* Mutant: the rollback forgets to give the node back.
RollbackKeepsNode(t) ==
    /\ pc[t] = "rollback"
    /\ ReturnFalse(t)
    /\ UNCHANGED <<nodeVars, casRetries>>

Rollback(t) ==
    /\ pc[t] = "rollback"
    /\ lockState' = [lockState EXCEPT ![call[t].node] = 0]
    /\ ReturnFalse(t)
    /\ UNCHANGED <<lockedBy, ancestorLockedCount, descendantLockedCount, casRetries>>

\* Shared with upgradeLock.
SetOwner(t) ==
    /\ pc[t] = "setOwner"
    /\ lockedBy' = [lockedBy EXCEPT ![call[t].node] = call[t].user]
    /\ StartInform(t, call[t].node)
    /\ UNCHANGED <<lockState, ancestorLockedCount, descendantLockedCount, casRetries>>
-----------------------------------------------------------------------------
\* informAncestorsAtomic and informDescendantsAtomic, one fetch_add a step.

\* Mutant: unlock adds like lock.
DeltaUnlockAdds(t) == IF found[t] # <<>> THEN -1 ELSE 1

\* Mutant: the release phase of upgradeLock adds like lock.
DeltaReleaseAdds(t) == IF call[t].op = "unlock" THEN -1 ELSE 1

\* The delta of the running propagation: unlock and the release phase of
\* upgradeLock (lockedDescendants not exhausted) take one off, the rest add one.
Delta(t) == IF call[t].op = "unlock" \/ found[t] # <<>> THEN -1 ELSE 1

\* Mutant: only the parent is told.
InformParentOnly(t) ==
    /\ pc[t] = "inform"
    /\ cursor[t] # NoNode
    /\ descendantLockedCount' = [descendantLockedCount EXCEPT ![cursor[t]] = @ + Delta(t)]
    /\ cursor' = [cursor EXCEPT ![t] = NoNode]
    /\ UNCHANGED <<lockState, lockedBy, ancestorLockedCount, casRetries,
                   pc, call, work, found, held>>

InformAncestor(t) ==
    /\ pc[t] = "inform"
    /\ cursor[t] # NoNode
    /\ descendantLockedCount' = [descendantLockedCount EXCEPT ![cursor[t]] = @ + Delta(t)]
    /\ cursor' = [cursor EXCEPT ![t] = Parent[cursor[t]]]
    /\ UNCHANGED <<lockState, lockedBy, ancestorLockedCount, casRetries,
                   pc, call, work, found, held>>

\* Mutant: only the children are told.
InformChildrenOnly(t) ==
    /\ pc[t] = "inform"
    /\ cursor[t] = NoNode
    /\ work[t] # <<>>
    /\ ancestorLockedCount' = [ancestorLockedCount EXCEPT ![Head(work[t])] = @ + Delta(t)]
    /\ work' = [work EXCEPT ![t] = Tail(work[t])]
    /\ UNCHANGED <<lockState, lockedBy, descendantLockedCount, casRetries,
                   pc, call, cursor, found, held>>

\* Visit the next child, then its subtree, then the children after it.
InformDescendant(t) ==
    /\ pc[t] = "inform"
    /\ cursor[t] = NoNode
    /\ work[t] # <<>>
    /\ ancestorLockedCount' = [ancestorLockedCount EXCEPT ![Head(work[t])] = @ + Delta(t)]
    /\ work' = [work EXCEPT ![t] = Children[Head(work[t])] \o Tail(work[t])]
    /\ UNCHANGED <<lockState, lockedBy, descendantLockedCount, casRetries,
                   pc, call, cursor, found, held>>

\* Nobody is left to inform: lock, unlock and upgradeLock return true, the
\* release phase of upgradeLock turns to its next descendant.
InformDone(t) ==
    LET n == call[t].node
        me == <<n, call[t].user>>
    IN  /\ pc[t] = "inform"
        /\ cursor[t] = NoNode
        /\ work[t] = <<>>
        /\ \/ /\ found[t] # <<>>
              /\ found' = [found EXCEPT ![t] = Tail(found[t])]
              /\ Goto(t, IF Len(found[t]) = 1 THEN "casUpgrade" ELSE "freeState")
              /\ UNCHANGED <<call, held>>
           \/ /\ found[t] = <<>>
              /\ call[t].op = "lock"
              /\ Return(t, held[t] \cup {me})
              /\ UNCHANGED found
           \/ /\ found[t] = <<>>
              /\ call[t].op = "unlock"
              /\ Return(t, held[t] \ {me})
              /\ UNCHANGED found
           \/ /\ found[t] = <<>>
              /\ call[t].op = "upgrade"
              /\ Return(t, {h \in held[t] : h[1] \notin Below[n] \/ h[2] # me[2]} \cup {me})
              /\ UNCHANGED found
        /\ UNCHANGED <<nodeVars, casRetries, cursor, work>>
-----------------------------------------------------------------------------
\* unlock(node, user)

CallUnlock(t, n, u) ==
    /\ <<n, u>> \in held[t] \/ n \in StrayUnlocks
    /\ Begin(t, "unlock", n, u, "checkOwner")

CheckOwner(t) ==
    /\ pc[t] = "checkOwner"
    /\ IF lockedBy[call[t].node] # call[t].user
       THEN ReturnFalse(t)
       ELSE Proceed(t, "clearOwner")
    /\ UNCHANGED <<nodeVars, casRetries>>

\* Mutant: the owner is left for the next lock() to overwrite.
ClearOwnerLeft(t) ==
    /\ pc[t] = "clearOwner"
    /\ Proceed(t, "casFree")
    /\ UNCHANGED <<nodeVars, casRetries>>

\* Mutant: user id 0 stands for nobody.
ClearOwnerToZero(t) ==
    /\ pc[t] = "clearOwner"
    /\ lockedBy' = [lockedBy EXCEPT ![call[t].node] = 0]
    /\ Proceed(t, "casFree")
    /\ UNCHANGED <<lockState, ancestorLockedCount, descendantLockedCount, casRetries>>

ClearOwner(t) ==
    /\ pc[t] = "clearOwner"
    /\ lockedBy' = [lockedBy EXCEPT ![call[t].node] = NoUser]
    /\ Proceed(t, "casFree")
    /\ UNCHANGED <<lockState, ancestorLockedCount, descendantLockedCount, casRetries>>

\* Mutant: compare_exchange_weak, which may fail although the node is locked.
CasFreeWeak(t) ==
    LET n == call[t].node
    IN  /\ pc[t] = "casFree"
        /\ \/ /\ lockState[n] = 1
              /\ lockState' = [lockState EXCEPT ![n] = 0]
              /\ StartInform(t, n)
           \/ Proceed(t, "restoreOwner") /\ UNCHANGED lockState
        /\ UNCHANGED <<lockedBy, ancestorLockedCount, descendantLockedCount, casRetries>>

\* Mutant: a plain store in place of the CAS.
CasFreeUnchecked(t) ==
    /\ pc[t] = "casFree"
    /\ lockState' = [lockState EXCEPT ![call[t].node] = 0]
    /\ StartInform(t, call[t].node)
    /\ UNCHANGED <<lockedBy, ancestorLockedCount, descendantLockedCount, casRetries>>

\* compare_exchange_strong(1, 0)
CasFree(t) ==
    LET n == call[t].node
    IN  /\ pc[t] = "casFree"
        /\ \/ /\ lockState[n] = 1
              /\ lockState' = [lockState EXCEPT ![n] = 0]
              /\ StartInform(t, n)
           \/ /\ lockState[n] # 1
              /\ Proceed(t, "restoreOwner")
              /\ UNCHANGED lockState
        /\ UNCHANGED <<lockedBy, ancestorLockedCount, descendantLockedCount, casRetries>>

\* The rollback of a failed unlock; the retry metric saturates at its bound.
RestoreOwner(t) ==
    /\ pc[t] = "restoreOwner"
    /\ lockedBy' = [lockedBy EXCEPT ![call[t].node] = call[t].user]
    /\ casRetries' = IF casRetries < MaxRetries THEN casRetries + 1 ELSE casRetries
    /\ ReturnFalse(t)
    /\ UNCHANGED <<lockState, ancestorLockedCount, descendantLockedCount>>
-----------------------------------------------------------------------------
\* upgradeLock(node, user)

CallUpgrade(t, n, u) == Begin(t, "upgrade", n, u, "checkState")

CheckState(t) ==
    /\ pc[t] = "checkState"
    /\ IF lockState[call[t].node] # 0
       THEN ReturnFalse(t)
       ELSE Proceed(t, "checkAncestors")
    /\ UNCHANGED <<nodeVars, casRetries>>

CheckAncestors(t) ==
    /\ pc[t] = "checkAncestors"
    /\ IF ancestorLockedCount[call[t].node] > 0
       THEN ReturnFalse(t)
       ELSE /\ Goto(t, "scanState")
            /\ work' = [work EXCEPT ![t] = Children[call[t].node]]
            /\ UNCHANGED <<call, cursor, found, held>>
    /\ UNCHANGED <<nodeVars, casRetries>>

\* Mutant: the scan does not go below the children.
DequeueOnly(t) == work' = [work EXCEPT ![t] = Tail(work[t])]

\* Pop the BFS queue and push the children of the node popped.
Dequeue(t) == work' = [work EXCEPT ![t] = Tail(work[t]) \o Children[Head(work[t])]]

ScanState(t) ==
    /\ pc[t] = "scanState"
    /\ work[t] # <<>>
    /\ IF lockState[Head(work[t])] = 1
       THEN Proceed(t, "scanOwner")
       ELSE Dequeue(t) /\ UNCHANGED <<pc, call, cursor, found, held>>
    /\ UNCHANGED <<nodeVars, casRetries>>

ScanOwner(t) ==
    /\ pc[t] = "scanOwner"
    /\ IF lockedBy[Head(work[t])] # call[t].user
       THEN ReturnFalse(t)
       ELSE /\ found' = [found EXCEPT ![t] = Append(found[t], Head(work[t]))]
            /\ Dequeue(t)
            /\ Goto(t, "scanState")
            /\ UNCHANGED <<call, cursor, held>>
    /\ UNCHANGED <<nodeVars, casRetries>>

\* The queue is empty: with nothing found the upgrade is refused.
ScanDone(t) ==
    /\ pc[t] = "scanState"
    /\ work[t] = <<>>
    /\ IF found[t] = <<>> THEN ReturnFalse(t) ELSE Proceed(t, "freeState")
    /\ UNCHANGED <<nodeVars, casRetries>>

FreeState(t) ==
    /\ pc[t] = "freeState"
    /\ lockState' = [lockState EXCEPT ![Head(found[t])] = 0]
    /\ Proceed(t, "freeOwner")
    /\ UNCHANGED <<lockedBy, ancestorLockedCount, descendantLockedCount, casRetries>>

FreeOwner(t) ==
    /\ pc[t] = "freeOwner"
    /\ lockedBy' = [lockedBy EXCEPT ![Head(found[t])] = NoUser]
    /\ StartInform(t, Head(found[t]))
    /\ UNCHANGED <<lockState, ancestorLockedCount, descendantLockedCount, casRetries>>

\* compare_exchange_strong(0, 1)
CasUpgrade(t) ==
    LET n == call[t].node
    IN  /\ pc[t] = "casUpgrade"
        /\ \/ /\ lockState[n] = 0
              /\ lockState' = [lockState EXCEPT ![n] = 1]
              /\ Proceed(t, "setOwner")
           \/ /\ lockState[n] # 0
              /\ ReturnFalse(t)
              /\ UNCHANGED lockState
        /\ UNCHANGED <<lockedBy, ancestorLockedCount, descendantLockedCount, casRetries>>
-----------------------------------------------------------------------------
Call(t) ==
    \E u \in UsersOf[t] :
        \/ \E n \in LockTargets : CallLock(t, n, u)
        \/ \E n \in Node : CallUnlock(t, n, u)
        \/ \E n \in UpgradeTargets : CallUpgrade(t, n, u)

\* The next access of a running call.
Step(t) ==
    \/ LoadAncestors(t) \/ LoadDescendants(t) \/ CasLock(t) \/ CasLockSpurious(t)
    \/ RecheckAncestors(t) \/ RecheckDescendants(t) \/ Rollback(t) \/ SetOwner(t)
    \/ InformAncestor(t) \/ InformDescendant(t) \/ InformDone(t)
    \/ CheckOwner(t) \/ ClearOwner(t) \/ CasFree(t) \/ RestoreOwner(t)
    \/ CheckState(t) \/ CheckAncestors(t) \/ ScanState(t) \/ ScanOwner(t)
    \/ ScanDone(t) \/ FreeState(t) \/ FreeOwner(t) \/ CasUpgrade(t)

Next == \E t \in Thread : Call(t) \/ Step(t)

Spec == Init /\ [][Next]_vars

\* The scheduler keeps running every thread inside a call, unless it has died;
\* whether a thread makes another call is its own affair.
Fairness == \A t \in Thread \ Mortal : WF_vars(Step(t))

FairSpec == Spec /\ Fairness

-----------------------------------------------------------------------------
\* Who has a node, and what each call has so far told the other nodes.

\* t was told it holds n.
Holds(t, n) == \E u \in User : <<n, u>> \in held[t]

Running(t, op, n) == call[t].op = op /\ call[t].node = n

\* t is between the CAS by which it took n and the CAS by which it frees n.
Tenant(t, n) ==
    \/ /\ Running(t, "lock", n)
       /\ pc[t] \in {"recheckAncestors", "recheckDescendants", "rollback", "setOwner", "inform"}
    \/ /\ Holds(t, n)
       /\ ~(Running(t, "unlock", n) /\ pc[t] = "inform")

\* The ancestors of its node that a propagation has still to inform.
PendingAbove(t) == IF cursor[t] = NoNode THEN {} ELSE {cursor[t]} \cup Above[cursor[t]]

\* The descendants of its node that a propagation has still to inform.
PendingBelow(t) ==
    {d \in Node : \E i \in 1 .. Len(work[t]) : d = work[t][i] \/ d \in Below[work[t][i]]}

\* Where t's lock on n is counted at present: everywhere in `all' once lock()
\* has returned, only as far as the propagation got while one is running.
Share(t, n, all, pending) ==
    IF pc[t] = "inform" /\ call[t].node = n
    THEN IF call[t].op = "lock" THEN all \ pending ELSE pending
    ELSE IF Holds(t, n) THEN all ELSE {}

AboveShare(t, n) == Share(t, n, Above[n], PendingAbove(t))
BelowShare(t, n) == Share(t, n, Below[n], PendingBelow(t))

\* The node whose new lockState t reports: a lock it releases for its upgrade,
\* else the node of its call.
Reported(t) == IF found[t] # <<>> THEN Head(found[t]) ELSE call[t].node

\* t has set lockState and its propagation has not begun.
Unreported(t) == pc[t] \in {"recheckAncestors", "recheckDescendants", "rollback", "setOwner"}

\* The nodes whose counters t has still to add one to for a node that is
\* locked already, and those it has still to take one off for a node that is
\* free already.
ToAdd(t, around, pending) ==
    IF Unreported(t) THEN around[call[t].node]
    ELSE IF pc[t] = "inform" /\ Delta(t) = 1 THEN pending ELSE {}

ToTake(t, around, pending) ==
    IF pc[t] = "freeOwner" THEN around[Head(found[t])]
    ELSE IF pc[t] = "inform" /\ Delta(t) = -1 THEN pending ELSE {}

\* The nodes the call of t is going to free or to record as its own: one it has
\* taken with its CAS, one whose owner it has checked, and the locks its scan has
\* found and it has not released yet.
Reserved(t) ==
    {n \in Node :
        \/ call[t].node = n /\ (Unreported(t) \/ pc[t] \in {"clearOwner", "casFree"})
        \/ \E i \in 1 .. Len(found[t]) :
              found[t][i] = n /\ (pc[t] \in {"freeOwner", "inform"} => i # 1)}

AllIdle == \A t \in Thread : pc[t] = "idle"
-----------------------------------------------------------------------------
\* Properties.

\* The CAS hands a node to one thread at a time, from the CAS that takes it to
\* the CAS that frees it, however lock, rollback and unlock interleave; and
\* lockState says exactly whether some thread has it.
NodeExclusive ==
    \A n \in Node :
        /\ \A t1, t2 \in Thread : Tenant(t1, n) /\ Tenant(t2, n) => t1 = t2
        /\ lockState[n] = 1 <=> \E t \in Thread : Tenant(t, n)

\* Without upgrades: while a thread holds a node and has not called unlock on it,
\* the node is locked and records that thread's user, whatever other calls are
\* half done.
OwnerRecorded ==
    \A t \in Thread : \A h \in held[t] :
        ~Running(t, "unlock", h[1]) => lockState[h[1]] = 1 /\ lockedBy[h[1]] = h[2]

\* At every moment each counter is the number of locks counted at that node:
\* finished ones in full, running ones as far as they got.  So no counter is
\* ever negative and no increment is lost or doubled.
CountsAccounted ==
    \A n \in Node :
        /\ descendantLockedCount[n] =
              Cardinality({p \in Thread \X Node : n \in AboveShare(p[1], p[2])})
        /\ ancestorLockedCount[n] =
              Cardinality({p \in Thread \X Node : n \in BelowShare(p[1], p[2])})

\* Whenever no call is running the counters are exact, so that the O(1) checks
\* of the next lock() see what a walk of the tree would: the consistency check
\* the simulator makes once all its threads are done.
QuiescentExact ==
    AllIdle =>
        \A n \in Node :
            /\ descendantLockedCount[n] = Cardinality({d \in Below[n] : lockState[d] = 1})
            /\ ancestorLockedCount[n] = Cardinality({a \in Above[n] : lockState[a] = 1})

\* A counter and lockState differ by the calls half done, and by nothing else: an
\* increment a lock() has still to make or to roll back, a decrement an unlock()
\* or a release of upgradeLock() has still to make.  It needs callers for whom no
\* plain store frees a node twice (StoresFreeLocked): two threads of one user, one
\* upgrading and one unlocking, are not among them.
CountsBalanced ==
    \A x \in Node :
        /\ descendantLockedCount[x]
              + Cardinality({t \in Thread : x \in ToAdd(t, Above, PendingAbove(t))})
           = Cardinality({n \in Below[x] : lockState[n] = 1})
              + Cardinality({t \in Thread : x \in ToTake(t, Above, PendingAbove(t))})
        /\ ancestorLockedCount[x]
              + Cardinality({t \in Thread : x \in ToAdd(t, Below, PendingBelow(t))})
           = Cardinality({n \in Above[x] : lockState[n] = 1})
              + Cardinality({t \in Thread : x \in ToTake(t, Below, PendingBelow(t))})

\* The plain stores of 0 into lockState, in the rollback of lock() and in the
\* release phase of upgradeLock(), find the node locked.  What they find may still be
\* a later lock of somebody else: see OwnUntilFreed.
StoresFreeLocked ==
    \A t \in Thread :
        /\ pc[t] = "rollback" => lockState[call[t].node] = 1
        /\ pc[t] = "freeState" => lockState[Head(found[t])] = 1

\* A node a call has taken, checked or found stays its own until that call frees
\* or records it: it is locked at every moment in between, so it has not been freed
\* and taken again; no other call is about to free it; and it records no user of
\* another thread, unless that thread has freed it and is about to store the -1.
\* So neither the plain stores nor the CAS of unlock() act on a check that has
\* become stale.
OwnUntilFreed ==
    \A t \in Thread : \A n \in Reserved(t) :
        /\ lockState[n] = 1
        /\ \A s \in Thread \ {t} :
              /\ n \notin Reserved(s)
              /\ lockedBy[n] \in UsersOf[s] => pc[s] = "freeOwner" /\ n = Head(found[s])

\* When lock() returns true the node is locked and records the user it was called
\* for: the assertions of the workers of test_atomic.cpp.
LockRecordsOwner ==
    [][\A t \in Thread :
          call[t].op = "lock" /\ pc[t] = "inform" /\ pc'[t] = "idle" =>
              lockState[call[t].node] = 1 /\ lockedBy[call[t].node] = call[t].user]_vars

\* No two threads are told they hold nodes one of which is above the other.
OneHolderPerPath ==
    \A t1, t2 \in Thread : \A h1 \in held[t1], h2 \in held[t2] : h1[1] \notin Above[h2[1]]

\* What the re-validation of lock() does achieve: it passes only while nothing
\* above and nothing below is held by a lock() that has returned and whose node has
\* not been freed. Two calls that both win on one path have overlapped.
ReturnedLocksSeen ==
    [][\A t, o \in Thread : \A h \in held[t] :
          ~(Running(t, "unlock", h[1]) /\ pc[t] = "inform") =>
              /\ pc[o] = "recheckAncestors" /\ pc'[o] = "recheckDescendants"
                    => h[1] \notin Above[call[o].node]
              /\ pc[o] = "recheckDescendants" /\ pc'[o] = "setOwner"
                    => h[1] \notin Below[call[o].node]]_vars

\* unlock() of a held node never returns false: its ownership check and its
\* CAS succeed in every interleaving.
UnlockSucceeds ==
    [][\A t \in Thread : call[t].op = "unlock" /\ pc'[t] = "idle"
                             => <<call[t].node, call[t].user>> \notin held'[t]]_vars

\* Every call of a thread that does not die returns: no thread waits for
\* another, dead ones included.
CallsReturn == \A t \in Thread \ Mortal : pc[t] # "idle" ~> pc[t] = "idle"

\* A locked node is freed only by the thread that took it, in its own rollback
\* or unlock: the node of a thread that dies stays locked ("no automatic
\* release" in the README), and no other call takes it away.
NoAutomaticRelease ==
    [][\A n \in Node : lockState[n] = 1 /\ lockState'[n] = 0 =>
          \E t \in Thread : /\ {o \in Thread : Tenant(o, n)} = {t}
                            /\ pc[t] \in {"rollback", "casFree"} /\ pc'[t] # pc[t]]_vars

\* Some thread was told it holds a node above n.
HeldAbove(n) == \E o \in Thread : \E h \in held[o] : h[1] \in Above[n]

\* "No ancestor can be locked": an upgradeLock() that comes to its final CAS while
\* a lock() of an ancestor has returned true does not return true itself, unless
\* that ancestor is given back first.
UpgradeYieldsToAncestors ==
    \A t \in Thread, n \in UpgradeTargets : \A u \in UsersOf[t] :
        pc[t] = "casUpgrade" /\ call[t].node = n /\ call[t].user = u /\ HeldAbove(n)
            ~> ~HeldAbove(n) \/ (pc[t] = "idle" /\ <<n, u>> \notin held[t])
-----------------------------------------------------------------------------
\* Seen through lockedBy, concurrent lock and unlock calls are those of the
\* abstract hierarchy: each takes effect at one store, at which the path is free.
Abstract == INSTANCE HierarchicalLock WITH parent <- Parent, owner <- lockedBy
ImplementsHierarchicalLock == Abstract!Spec

\* The hierarchy as callers see it: what calls have returned.
HeldBy(n) == {u \in User : \E t \in Thread : <<n, u>> \in held[t]}
OwnerTold == [n \in Node |-> IF HeldBy(n) = {} THEN NoUser ELSE CHOOSE u \in HeldBy(n) : TRUE]
Client == INSTANCE HierarchicalLock WITH parent <- Parent, owner <- OwnerTold

\* Seen through their results, calls (upgradeLock with its several releases
\* included) are indivisible operations of the abstract hierarchy.
CallsAreAtomic == Client!Spec

\* A call is refused only for the reason the hierarchy gives: lock() and
\* upgradeLock() for a conflict, unlock() for another owner.
RefusedForConflict ==
    [][\A t \in Thread :
          LET c == call[t] IN
          pc[t] # "idle" /\ pc'[t] = "idle" /\ held'[t] = held[t] =>
              /\ c.op = "lock" => ~Client!Grantable(c.node)
              /\ c.op = "unlock" => c.user \notin HeldBy(c.node)
              /\ c.op = "upgrade" => ~Client!Upgradable(c.node, c.user)]_vars

=============================================================================
