----------------------------- MODULE PaymentTree -----------------------------
(***************************************************************************)
(* The single-threaded tree of src/src/tree.cpp.  A TreeNode is an object  *)
(* 1, 2, ... in the order of allocation; an object not yet allocated has   *)
(* the values the constructor gives.  Each public operation is one action; *)
(* a call that returns false changes nothing and is a stuttering step, so  *)
(* its early returns are the guards.                                       *)
(*                                                                         *)
(* The children vectors are the inverse of the parent pointers (addNode    *)
(* sets both, nothing changes either afterwards), so only `parent' is a    *)
(* variable.  The branching factor m is stored and never read: no model.   *)
(***************************************************************************)
EXTENDS Integers, FiniteSets, Forest

CONSTANTS
    Name,           \* node names callers use
    NoName,         \* the empty parentName of addNode
    User, NoUser,   \* user ids; NoUser is the code's -1
    MaxNodes,       \* bound: how many TreeNodes are ever allocated
    AddWhileLocked  \* TRUE: addNode may be called while some node is locked

ASSUME PaymentTreeAssumption ==
    /\ NoName \notin Name
    /\ NoUser \notin User
    /\ MaxNodes \in Nat
    /\ AddWhileLocked \in BOOLEAN

Null == 0               \* nullptr
Obj == 1 .. MaxNodes    \* TreeNode objects

VARIABLES
    size,                   \* how many objects have been allocated
    parent,                 \* parent[o]: object or Null
    root,
    nodeMap,                \* name -> object or Null (absent)
    isLocked, lockedBy,
    ancestorLockedCount, descendantLockedCount

shape == <<size, parent, root, nodeMap>>
locks == <<isLocked, lockedBy, ancestorLockedCount, descendantLockedCount>>
vars == <<shape, locks>>

\* The fields of every object, the root and the map keep the values their C++
\* types stand for; and isLocked and lockedBy agree: a locked node's owner is a
\* user, a free node's owner is -1, whichever operation freed it.
TypeOK ==
    /\ size \in 0 .. MaxNodes
    /\ parent \in [Obj -> 0 .. MaxNodes]
    /\ root \in 0 .. MaxNodes
    /\ nodeMap \in [Name -> 0 .. MaxNodes]
    /\ isLocked \in [Obj -> BOOLEAN]
    /\ lockedBy \in [Obj -> User \cup {NoUser}]
    /\ ancestorLockedCount \in [Obj -> Int]
    /\ descendantLockedCount \in [Obj -> Int]
    /\ \A o \in Obj : isLocked[o] <=> lockedBy[o] # NoUser

Init ==
    /\ size = 0
    /\ parent = [o \in Obj |-> Null]
    /\ root = Null
    /\ nodeMap = [n \in Name |-> Null]
    /\ isLocked = [o \in Obj |-> FALSE]
    /\ lockedBy = [o \in Obj |-> NoUser]
    /\ ancestorLockedCount = [o \in Obj |-> 0]
    /\ descendantLockedCount = [o \in Obj |-> 0]
-----------------------------------------------------------------------------
Above(o) == Ancestors(parent, o)
Below(o) == Descendants(parent, o)

\* The counters after every object of S has been told of a change by delta.
Inform(count, S, delta) ==
    [o \in Obj |-> IF o \in S THEN count[o] + delta ELSE count[o]]

AddNode(name, parentName) ==
    LET new == size + 1
        p == IF parentName = NoName THEN Null ELSE nodeMap[parentName]
    IN  /\ size < MaxNodes
        /\ AddWhileLocked \/ \A o \in Obj : ~isLocked[o]
        /\ parentName # NoName => p # Null
        /\ size' = new
        /\ parent' = [parent EXCEPT ![new] = p]
        /\ root' = IF parentName = NoName THEN new ELSE root
        /\ nodeMap' = [nodeMap EXCEPT ![name] = new]
        /\ UNCHANGED locks

\* Mutant: the descendants are not checked.
CanLockIgnoringBelow(o) == ~isLocked[o] /\ ~(ancestorLockedCount[o] > 0)

\* The three checks of lock(), each O(1).
CanLock(o) ==
    /\ ~isLocked[o]
    /\ ~(ancestorLockedCount[o] > 0)
    /\ ~(descendantLockedCount[o] > 0)

Lock(name, u) ==
    LET o == nodeMap[name]
    IN  /\ o # Null
        /\ CanLock(o)
        /\ isLocked' = [isLocked EXCEPT ![o] = TRUE]
        /\ lockedBy' = [lockedBy EXCEPT ![o] = u]
        /\ descendantLockedCount' = Inform(descendantLockedCount, Above(o), 1)
        /\ ancestorLockedCount' = Inform(ancestorLockedCount, Below(o), 1)
        /\ UNCHANGED shape

\* Mutant: the owner of a node that is freed is left in place.
UnlockKeepsOwner(name, u) ==
    LET o == nodeMap[name]
    IN  /\ o # Null
        /\ isLocked[o]
        /\ lockedBy[o] = u
        /\ isLocked' = [isLocked EXCEPT ![o] = FALSE]
        /\ descendantLockedCount' = Inform(descendantLockedCount, Above(o), -1)
        /\ ancestorLockedCount' = Inform(ancestorLockedCount, Below(o), -1)
        /\ UNCHANGED <<shape, lockedBy>>

Unlock(name, u) ==
    LET o == nodeMap[name]
    IN  /\ o # Null
        /\ isLocked[o]
        /\ lockedBy[o] = u
        /\ isLocked' = [isLocked EXCEPT ![o] = FALSE]
        /\ lockedBy' = [lockedBy EXCEPT ![o] = NoUser]
        /\ descendantLockedCount' = Inform(descendantLockedCount, Above(o), -1)
        /\ ancestorLockedCount' = Inform(ancestorLockedCount, Below(o), -1)
        /\ UNCHANGED shape

\* Mutant: the collection does not recurse.
LockedChildren(o) == {d \in ChildrenOf(parent, o) : isLocked[d]}

\* What collectLockedDescendants finds below o.
LockedBelow(o) == {d \in Below(o) : isLocked[d]}

\* Mutant: the owner of what is collected is not compared.
CanUpgradeAnyOwner(o, u) ==
    /\ ~isLocked[o]
    /\ ~(ancestorLockedCount[o] > 0)
    /\ descendantLockedCount[o] # 0

CanUpgrade(o, u) ==
    /\ ~isLocked[o]
    /\ ~(ancestorLockedCount[o] > 0)
    /\ descendantLockedCount[o] # 0
    /\ \A d \in LockedBelow(o) : lockedBy[d] = u

\* Mutant: the released nodes do not inform the rest of the tree.
UpgradeLockUninformed(name, u) ==
    LET o == nodeMap[name]
    IN  /\ o # Null
        /\ CanUpgrade(o, u)
        /\ isLocked' = [x \in Obj |-> x = o \/ (isLocked[x] /\ x \notin LockedBelow(o))]
        /\ lockedBy' = [x \in Obj |-> IF x = o THEN u
                                      ELSE IF x \in LockedBelow(o) THEN NoUser
                                      ELSE lockedBy[x]]
        /\ descendantLockedCount' = Inform(descendantLockedCount, Above(o), 1)
        /\ ancestorLockedCount' = Inform(ancestorLockedCount, Below(o), 1)
        /\ UNCHANGED shape

\* Releasing the collected nodes one after another takes one off a counter for
\* each released node below (above) it; then o is locked as in lock().
UpgradeLock(name, u) ==
    LET o == nodeMap[name]
        released == LockedBelow(o)
    IN  /\ o # Null
        /\ CanUpgrade(o, u)
        /\ isLocked' = [x \in Obj |-> x = o \/ (isLocked[x] /\ x \notin released)]
        /\ lockedBy' = [x \in Obj |-> IF x = o THEN u
                                      ELSE IF x \in released THEN NoUser
                                      ELSE lockedBy[x]]
        /\ descendantLockedCount' =
              Inform([x \in Obj |-> descendantLockedCount[x]
                                       - Cardinality(released \cap Below(x))],
                     Above(o), 1)
        /\ ancestorLockedCount' =
              Inform([x \in Obj |-> ancestorLockedCount[x]
                                       - Cardinality(released \cap Above(x))],
                     Below(o), 1)
        /\ UNCHANGED shape

Next ==
    \E name \in Name :
        \/ \E parentName \in Name \cup {NoName} : AddNode(name, parentName)
        \/ \E u \in User : Lock(name, u) \/ Unlock(name, u) \/ UpgradeLock(name, u)

Spec == Init /\ [][Next]_vars
-----------------------------------------------------------------------------
\* The promise of HierarchicalLock, for the forest built so far.
Abstract == INSTANCE HierarchicalLock
                WITH Node <- Obj,
                     owner <- [o \in Obj |-> IF isLocked[o] THEN lockedBy[o] ELSE NoUser]

\* Every operation of the tree is an operation of the abstract hierarchy or
\* leaves it alone: locks, unlocks, upgrades and tree growth.
ImplementsHierarchicalLock == Abstract!Spec

\* The cached counters are exact after any sequence of calls: what each node
\* believes of its ancestors and descendants is what a walk would find.
CountsExact ==
    \A o \in Obj :
        /\ ancestorLockedCount[o] = Cardinality({a \in Above(o) : isLocked[a]})
        /\ descendantLockedCount[o] = Cardinality(LockedBelow(o))

\* The O(1) checks grant and refuse exactly what a walk of the whole tree
\* would: no call is refused without a conflict, none granted despite one.
ChecksMatchTreeWalk ==
    \A o \in Obj :
        /\ CanLock(o) <=> Abstract!Grantable(o)
        /\ \A u \in User : CanUpgrade(o, u) <=> Abstract!Upgradable(o, u)

\* Two locked nodes never lie on one path to the root.
OneLockPerPath == Abstract!OneLockPerPath

=============================================================================
