-------------------------- MODULE PaymentTreeProofs --------------------------
(***************************************************************************)
(* Theorems about the single-threaded tree, for any names, users and       *)
(* number of objects.                                                      *)
(***************************************************************************)
EXTENDS PaymentTree, ForestProofs, FiniteSetTheorems

\* The nodes that are locked.
Locked == {o \in Obj : isLocked[o]}

\* The objects allocated so far form a forest, the rest have no parent.
ShapeInv ==
    /\ IsForest(parent)
    /\ \A o \in Obj : parent[o] <= size /\ (o > size => parent[o] = Null)
    /\ \A name \in Name : nodeMap[name] <= size

\* Locked nodes are allocated and have an owner.
OwnerInv == \A o \in Locked : o <= size /\ lockedBy[o] \in User

\* The counters count locked ancestors and descendants.
CountInv ==
    \A o \in Obj :
        /\ ancestorLockedCount[o] = Cardinality(Above(o) \cap Locked)
        /\ descendantLockedCount[o] = Cardinality(Below(o) \cap Locked)

\* No locked node is above another.
PathInv == \A o \in Locked : Above(o) \cap Locked = {}

IInv == TypeOK /\ ShapeInv /\ OwnerInv /\ CountInv /\ PathInv
-----------------------------------------------------------------------------
\* Any set of objects is finite.
LEMMA ObjFinite == \A S \in SUBSET Obj : IsFiniteSet(S) /\ Cardinality(S) \in Nat
<1>1. IsFiniteSet(Obj)
  <2>1. 1 \in Int /\ MaxNodes \in Int
    BY PaymentTreeAssumption
  <2> QED BY <2>1, FS_Interval DEF Obj
<1> TAKE S \in SUBSET Obj
<1>2. IsFiniteSet(S)
  BY <1>1, FS_Subset
<1> QED BY <1>2, FS_CardinalityType

\* The size of S when one element that is not in S joins it, seen through a window W.
LEMMA CountAdded ==
    ASSUME NEW S \in SUBSET Obj, NEW x \in Obj, x \notin S, NEW W
    PROVE  Cardinality(W \cap (S \cup {x}))
              = Cardinality(W \cap S) + (IF x \in W THEN 1 ELSE 0)
<1>1. IsFiniteSet(W \cap S) /\ Cardinality(W \cap S) \in Nat
  BY ObjFinite, W \cap S \in SUBSET Obj
<1>2. CASE x \in W
  <2>1. W \cap (S \cup {x}) = (W \cap S) \cup {x} /\ x \notin W \cap S
    BY <1>2
  <2> QED BY <1>1, <1>2, <2>1, FS_AddElement
<1>3. CASE x \notin W
  <2>1. W \cap (S \cup {x}) = W \cap S
    BY <1>3
  <2> QED BY <1>1, <1>3, <2>1
<1> QED BY <1>2, <1>3

\* The size of S when the elements of R leave it, seen through a window W.
LEMMA CountRemoved ==
    ASSUME NEW S \in SUBSET Obj, NEW R \in SUBSET S, NEW W
    PROVE  /\ Cardinality(W \cap (S \ R)) = Cardinality(W \cap S) - Cardinality(R \cap W)
           /\ Cardinality(R \cap W) \in Nat
           /\ Cardinality(W \cap S) \in Nat
<1>1. IsFiniteSet(W \cap S) /\ Cardinality(W \cap S) \in Nat /\ Cardinality(R \cap W) \in Nat
  BY ObjFinite, W \cap S \in SUBSET Obj, R \cap W \in SUBSET Obj
<1>2. W \cap (S \ R) = (W \cap S) \ R /\ (W \cap S) \cap R = R \cap W
  OBVIOUS
<1>3. Cardinality((W \cap S) \ R) = Cardinality(W \cap S) - Cardinality((W \cap S) \cap R)
  <2>1. IsFiniteSet((W \cap S) \cap R) /\ IsFiniteSet((W \cap S) \ R)
    BY ObjFinite, (W \cap S) \cap R \in SUBSET Obj, (W \cap S) \ R \in SUBSET Obj
  <2> QED BY <1>1, <2>1, FS_Difference
<1> QED BY <1>1, <1>2, <1>3
-----------------------------------------------------------------------------
\* The variables stay of their types: counters stay integers, pointers stay
\* pointers, whatever the callers do (addNode while locked included).
THEOREM TypeCorrect == Spec => []TypeOK
<1>1. Init => TypeOK
  BY PaymentTreeAssumption DEF Init, TypeOK, Obj, Null
<1>2. TypeOK /\ [Next]_vars => TypeOK'
  <2> SUFFICES ASSUME TypeOK, [Next]_vars PROVE TypeOK'
    OBVIOUS
  <2>1. ASSUME NEW name \in Name, NEW parentName \in Name \cup {NoName},
               AddNode(name, parentName)
        PROVE  TypeOK'
    BY <2>1, PaymentTreeAssumption DEF AddNode, TypeOK, Obj, Null, locks
  <2>2. ASSUME NEW name \in Name, NEW u \in User, Lock(name, u)
        PROVE  TypeOK'
    BY <2>2, PaymentTreeAssumption DEF Lock, TypeOK, Obj, Null, shape, Inform
  <2>3. ASSUME NEW name \in Name, NEW u \in User, Unlock(name, u)
        PROVE  TypeOK'
    BY <2>3 DEF Unlock, TypeOK, Obj, Null, shape, Inform
  <2>4. ASSUME NEW name \in Name, NEW u \in User, UpgradeLock(name, u)
        PROVE  TypeOK'
    <3> DEFINE o == nodeMap[name]
           relBelow(x) == Cardinality(LockedBelow(o) \cap Below(x))
           relAbove(x) == Cardinality(LockedBelow(o) \cap Above(x))
           down == [x \in Obj |-> descendantLockedCount[x] - relBelow(x)]
           up == [x \in Obj |-> ancestorLockedCount[x] - relAbove(x)]
    <3>1. ASSUME NEW x \in Obj PROVE relBelow(x) \in Int /\ relAbove(x) \in Int
      <4>1. LockedBelow(o) \in SUBSET Obj
        BY DEF LockedBelow, Below, Descendants, TypeOK
      <4>2. LockedBelow(o) \cap Below(x) \in SUBSET Obj
            /\ LockedBelow(o) \cap Above(x) \in SUBSET Obj
        BY <4>1
      <4> QED BY <4>2, ObjFinite
    <3>2. /\ isLocked' \in [Obj -> BOOLEAN]
          /\ lockedBy' \in [Obj -> User \cup {NoUser}]
          /\ UNCHANGED shape
      BY <2>4 DEF UpgradeLock, TypeOK
    <3>3. /\ descendantLockedCount' = Inform(down, Above(o), 1)
          /\ ancestorLockedCount' = Inform(up, Below(o), 1)
      BY <2>4 DEF UpgradeLock
    <3> HIDE DEF relBelow, relAbove
    <3>4. down \in [Obj -> Int] /\ up \in [Obj -> Int]
      BY <3>1 DEF TypeOK
    <3> HIDE DEF down, up
    <3>5. /\ ancestorLockedCount' \in [Obj -> Int]
          /\ descendantLockedCount' \in [Obj -> Int]
      BY <3>3, <3>4 DEF Inform
    <3>6. \A x \in Obj : isLocked'[x] <=> lockedBy'[x] # NoUser
      <4> SUFFICES ASSUME NEW x \in Obj PROVE isLocked'[x] <=> lockedBy'[x] # NoUser
        OBVIOUS
      <4>1. /\ isLocked'[x] <=> x = o \/ (isLocked[x] /\ x \notin LockedBelow(o))
            /\ lockedBy'[x] = IF x = o THEN u
                              ELSE IF x \in LockedBelow(o) THEN NoUser
                              ELSE lockedBy[x]
        BY <2>4 DEF UpgradeLock
      <4>2. u # NoUser /\ (isLocked[x] <=> lockedBy[x] # NoUser)
        BY PaymentTreeAssumption DEF TypeOK
      <4> QED BY <4>1, <4>2
    <3> QED BY <3>2, <3>5, <3>6 DEF TypeOK, shape
  <2>5. CASE UNCHANGED vars
    BY <2>5 DEF vars, shape, locks, TypeOK
  <2> QED BY <2>1, <2>2, <2>3, <2>4, <2>5 DEF Next
<1> QED BY <1>1, <1>2, PTL DEF Spec
-----------------------------------------------------------------------------
\* The abstract module sees the same forest.
LEMMA SameForest ==
    ASSUME NEW par
    PROVE  /\ Abstract!IsForest(par) <=> IsForest(par)
           /\ \A n : Abstract!Ancestors(par, n) = Ancestors(par, n)
           /\ \A n : Abstract!Descendants(par, n) = Descendants(par, n)
           /\ \A n : Abstract!ChildrenOf(par, n) = ChildrenOf(par, n)
<1>1. Abstract!AncestorMap(par) = AncestorMap(par)
  BY DEF AncestorMap, Abstract!AncestorMap
<1> QED
  BY <1>1 DEF IsForest, Abstract!IsForest, Ancestors, Abstract!Ancestors,
     Descendants, Abstract!Descendants, ChildrenOf, Abstract!ChildrenOf

\* The owned nodes of the abstract hierarchy are the locked ones.
LEMMA SameOwned ==
    ASSUME TypeOK, OwnerInv
    PROVE  Abstract!Owned = Locked
  BY PaymentTreeAssumption DEF OwnerInv, Abstract!Owned, Locked

\* The tree below a node holds what has it above.
LEMMA BelowIsAbove ==
    ASSUME TypeOK, NEW o \in Obj, NEW x \in Obj
    PROVE  x \in Below(o) <=> o \in Above(x)
  BY DEF TypeOK, Below, Above, Descendants

\* What lies above and below objects are objects, and never the object itself.
LEMMA AboveBelowObj ==
    ASSUME TypeOK, ShapeInv, NEW o \in Obj
    PROVE  /\ Above(o) \subseteq Obj /\ o \notin Above(o)
           /\ Below(o) \subseteq Obj /\ o \notin Below(o)
<1>1. DOMAIN parent = Obj /\ IsForest(parent)
  BY DEF TypeOK, ShapeInv
<1>2. Above(o) \subseteq Obj /\ o \notin Above(o)
  BY <1>1, AncestorsInDomain, AncestorsIrreflexive DEF Above
<1> QED BY <1>1, <1>2, BelowIsAbove DEF Below, Descendants

\* The exact counters, in the words of the property the runs check.
LEMMA CountInvIsCountsExact ==
    ASSUME TypeOK, ShapeInv
    PROVE  CountInv <=> CountsExact
<1>1. ASSUME NEW o \in Obj
      PROVE  /\ {a \in Above(o) : isLocked[a]} = Above(o) \cap Locked
             /\ LockedBelow(o) = Below(o) \cap Locked
  BY AboveBelowObj DEF LockedBelow, Locked
<1> QED BY <1>1 DEF CountInv, CountsExact
\* PathInv, in the words of the property the runs check.
LEMMA PathInvIsOneLockPerPath ==
    ASSUME TypeOK, OwnerInv
    PROVE  PathInv <=> OneLockPerPath
  BY SameOwned, SameForest DEF PathInv, Above, OneLockPerPath, Abstract!OneLockPerPath

\* A counter that is not positive says that nothing is locked there.
LEMMA NoneCounted ==
    ASSUME IInv, NEW o \in Obj
    PROVE  /\ ~(ancestorLockedCount[o] > 0) <=> Above(o) \cap Locked = {}
           /\ ~(descendantLockedCount[o] > 0) <=> Below(o) \cap Locked = {}
           /\ descendantLockedCount[o] # 0 <=> Below(o) \cap Locked # {}
<1>1. ASSUME NEW W PROVE /\ Cardinality(W \cap Locked) \in Nat
                         /\ Cardinality(W \cap Locked) = 0 <=> W \cap Locked = {}
  <2>1. W \cap Locked \in SUBSET Obj
    BY DEF Locked
  <2>2. IsFiniteSet(W \cap Locked) /\ Cardinality(W \cap Locked) \in Nat
    BY <2>1, ObjFinite
  <2> QED BY <2>2, FS_EmptySet
<1>2. /\ ancestorLockedCount[o] = Cardinality(Above(o) \cap Locked)
      /\ descendantLockedCount[o] = Cardinality(Below(o) \cap Locked)
  BY DEF IInv, CountInv
<1>3. /\ Cardinality(Above(o) \cap Locked) \in Nat
      /\ Cardinality(Above(o) \cap Locked) = 0 <=> Above(o) \cap Locked = {}
      /\ Cardinality(Below(o) \cap Locked) \in Nat
      /\ Cardinality(Below(o) \cap Locked) = 0 <=> Below(o) \cap Locked = {}
  BY <1>1
<1> HIDE <1>1
<1> QED BY <1>2, <1>3

\* lock() refuses exactly what the hierarchy refuses.
LEMMA CanLockIsClear ==
    ASSUME IInv, NEW o \in Obj
    PROVE  CanLock(o) <=> /\ o \notin Locked
                          /\ Above(o) \cap Locked = {}
                          /\ Below(o) \cap Locked = {}
  BY NoneCounted DEF CanLock, Locked
-----------------------------------------------------------------------------
\* Nothing is locked in an empty tree.
LEMMA InvInit == Init => IInv
<1> SUFFICES ASSUME Init PROVE IInv
  OBVIOUS
<1>1. TypeOK
  BY PaymentTreeAssumption DEF Init, TypeOK, Obj, Null
<1>2. ShapeInv
  <2>1. parent = [o \in Obj |-> 0] /\ 0 \notin Obj
    BY PaymentTreeAssumption DEF Init, Null, Obj
  <2>2. IsForest(parent)
    BY <2>1 DEF IsForest
  <2> QED BY <2>1, <2>2, PaymentTreeAssumption DEF Init, ShapeInv, Obj, Null
<1>3. Locked = {}
  BY DEF Init, Locked
<1>4. CountInv
  BY <1>3, FS_EmptySet DEF Init, CountInv
<1> QED BY <1>1, <1>2, <1>3, <1>4 DEF IInv, OwnerInv, PathInv

\* A new object under any parent: nothing is locked, so that nothing is counted
\* before or after.
LEMMA AddNodeKeepsInv ==
    ASSUME IInv, TypeOK', ~AddWhileLocked,
           NEW name \in Name, NEW parentName \in Name \cup {NoName},
           AddNode(name, parentName)
    PROVE  IInv'
<1> DEFINE new == size + 1
           p == IF parentName = NoName THEN Null ELSE nodeMap[parentName]
<1>1. /\ new \in Obj /\ p \in 0 .. size /\ size \in Nat
      /\ parent' = [parent EXCEPT ![new] = p]
      /\ size' = new
  BY PaymentTreeAssumption DEF AddNode, IInv, ShapeInv, TypeOK, Obj, Null
<1>2. Locked = {} /\ Locked' = {}
  BY DEF AddNode, Locked, locks
<1>3. ShapeInv'
  <2>1. /\ DOMAIN parent = Obj
        /\ IsForest(parent)
        /\ \A o \in Obj : parent[o] # new
        /\ p # new
    BY <1>1 DEF IInv, TypeOK, ShapeInv, Obj
  <2>2. IsForest(parent')
    BY <1>1, <2>1, AncestorsGrow
  <2>3. \A o \in Obj : parent'[o] <= size' /\ (o > size' => parent'[o] = Null)
    <3> TAKE o \in Obj
    <3>1. /\ o \in Int /\ size \in Int /\ parent[o] \in Int /\ o \in DOMAIN parent
          /\ parent[o] <= size /\ (o > size => parent[o] = Null)
      <4>1. parent \in [Obj -> 0 .. MaxNodes] /\ MaxNodes \in Nat /\ ShapeInv
        BY PaymentTreeAssumption DEF IInv, TypeOK
      <4> QED BY <1>1, <4>1 DEF ShapeInv, Obj
    <3>2. CASE o = new
      BY <1>1, <3>1, <3>2
    <3>3. CASE o # new
      BY <1>1, <3>1, <3>3
    <3> QED BY <3>2, <3>3
  <2>4. \A n \in Name : nodeMap'[n] <= size'
    BY <1>1 DEF AddNode, IInv, TypeOK, ShapeInv
  <2> QED BY <2>2, <2>3, <2>4 DEF ShapeInv
<1>4. CountInv'
  <2>1. Cardinality({}) = 0
    BY FS_EmptySet
  <2>2. \A o \in Obj : ancestorLockedCount[o] = 0 /\ descendantLockedCount[o] = 0
    BY <1>2, <2>1 DEF IInv, CountInv
  <2> QED BY <1>2, <2>1, <2>2 DEF AddNode, locks, CountInv
<1> QED BY <1>2, <1>3, <1>4 DEF IInv, OwnerInv, PathInv
\* One more locked node, told to everything above and below it.
LEMMA LockKeepsInv ==
    ASSUME IInv, TypeOK', NEW name \in Name, NEW u \in User, Lock(name, u)
    PROVE  IInv'
<1> DEFINE o == nodeMap[name]
<1>1. /\ o \in Obj /\ o <= size
      /\ parent' = parent /\ size' = size /\ nodeMap' = nodeMap
      /\ o \notin Locked /\ Above(o) \cap Locked = {} /\ Below(o) \cap Locked = {}
  <2>1. o \in Obj /\ o <= size
    BY DEF Lock, IInv, TypeOK, ShapeInv, Obj, Null
  <2> QED BY <2>1, CanLockIsClear DEF Lock, shape
<1>2. Locked' = Locked \cup {o}
  BY <1>1 DEF Lock, Locked, IInv, TypeOK
<1>3. ShapeInv'
  BY <1>1 DEF IInv, ShapeInv
<1>4. OwnerInv'
  BY <1>1, <1>2 DEF Lock, IInv, TypeOK, OwnerInv, Locked
<1>5. CountInv'
  <2>1. ASSUME NEW x \in Obj
        PROVE  /\ ancestorLockedCount'[x] = Cardinality(Above(x) \cap (Locked \cup {o}))
               /\ descendantLockedCount'[x] = Cardinality(Below(x) \cap (Locked \cup {o}))
    <3>1. ASSUME NEW W
          PROVE  Cardinality(W \cap (Locked \cup {o}))
                    = Cardinality(W \cap Locked) + (IF o \in W THEN 1 ELSE 0)
      <4>1. Locked \in SUBSET Obj
        BY DEF Locked
      <4> QED BY <1>1, <4>1, CountAdded
    <3>2. /\ Cardinality(Above(x) \cap (Locked \cup {o}))
                = ancestorLockedCount[x] + (IF o \in Above(x) THEN 1 ELSE 0)
          /\ Cardinality(Below(x) \cap (Locked \cup {o}))
                = descendantLockedCount[x] + (IF o \in Below(x) THEN 1 ELSE 0)
      BY <3>1 DEF IInv, CountInv
    <3>3. (x \in Below(o) <=> o \in Above(x)) /\ (o \in Below(x) <=> x \in Above(o))
      BY <1>1, BelowIsAbove DEF IInv
    <3>4. /\ ancestorLockedCount'[x] = ancestorLockedCount[x] + (IF x \in Below(o) THEN 1 ELSE 0)
          /\ descendantLockedCount'[x] = descendantLockedCount[x] + (IF x \in Above(o) THEN 1 ELSE 0)
      BY DEF Lock, Inform, IInv, TypeOK
    <3> QED BY <3>2, <3>3, <3>4
  <2> QED BY <1>1, <1>2, <2>1 DEF CountInv, Above, Below
<1>6. PathInv'
  <2>1. ASSUME NEW x \in Locked PROVE o \notin Above(x) /\ Above(x) \cap Locked = {}
    BY <1>1, BelowIsAbove DEF IInv, PathInv, Locked
  <2>2. o \notin Above(o)
    BY <1>1, AboveBelowObj DEF IInv
  <2> QED BY <1>1, <1>2, <2>1, <2>2 DEF PathInv, Above
<1> QED BY <1>3, <1>4, <1>5, <1>6 DEF IInv

\* One locked node fewer, told to everything above and below it.
LEMMA UnlockKeepsInv ==
    ASSUME IInv, TypeOK', NEW name \in Name, NEW u \in User, Unlock(name, u)
    PROVE  IInv'
<1> DEFINE o == nodeMap[name]
<1>1. /\ o \in Obj /\ o \in Locked
      /\ parent' = parent /\ size' = size /\ nodeMap' = nodeMap
  <2>1. o \in Obj
    BY DEF Unlock, IInv, TypeOK, Obj, Null
  <2> QED BY <2>1 DEF Unlock, Locked, shape
<1>2. Locked' = Locked \ {o}
  BY <1>1 DEF Unlock, Locked, IInv, TypeOK
<1>3. ShapeInv'
  BY <1>1 DEF IInv, ShapeInv
<1>4. OwnerInv'
  BY <1>1, <1>2 DEF Unlock, IInv, TypeOK, OwnerInv, Locked
<1>5. CountInv'
  <2>1. ASSUME NEW x \in Obj
        PROVE  /\ ancestorLockedCount'[x] = Cardinality(Above(x) \cap (Locked \ {o}))
               /\ descendantLockedCount'[x] = Cardinality(Below(x) \cap (Locked \ {o}))
    <3>1. ASSUME NEW W
          PROVE  Cardinality(W \cap (Locked \ {o}))
                    = Cardinality(W \cap Locked) - (IF o \in W THEN 1 ELSE 0)
      <4>1. Cardinality(W \cap (Locked \ {o}))
               = Cardinality(W \cap Locked) - Cardinality({o} \cap W)
            /\ Cardinality(W \cap Locked) \in Nat
        <5>1. Locked \in SUBSET Obj /\ {o} \in SUBSET Locked
          BY <1>1 DEF Locked
        <5> QED BY <5>1, CountRemoved
      <4>2. {o} \cap W = IF o \in W THEN {o} ELSE {}
        OBVIOUS
      <4> QED BY <4>1, <4>2, FS_EmptySet, FS_Singleton
    <3>2. /\ Cardinality(Above(x) \cap (Locked \ {o}))
                = ancestorLockedCount[x] - (IF o \in Above(x) THEN 1 ELSE 0)
          /\ Cardinality(Below(x) \cap (Locked \ {o}))
                = descendantLockedCount[x] - (IF o \in Below(x) THEN 1 ELSE 0)
      BY <3>1 DEF IInv, CountInv
    <3>3. (x \in Below(o) <=> o \in Above(x)) /\ (o \in Below(x) <=> x \in Above(o))
      BY <1>1, BelowIsAbove DEF IInv
    <3>4. /\ ancestorLockedCount'[x] = ancestorLockedCount[x] - (IF x \in Below(o) THEN 1 ELSE 0)
          /\ descendantLockedCount'[x] = descendantLockedCount[x] - (IF x \in Above(o) THEN 1 ELSE 0)
      BY DEF Unlock, Inform, IInv, TypeOK
    <3> QED BY <3>2, <3>3, <3>4
  <2> QED BY <1>1, <1>2, <2>1 DEF CountInv, Above, Below
<1>6. PathInv'
  BY <1>1, <1>2 DEF IInv, PathInv, Above
<1> QED BY <1>3, <1>4, <1>5, <1>6 DEF IInv

\* upgradeLock() goes ahead exactly when the hierarchy would.
LEMMA CanUpgradeIsClear ==
    ASSUME IInv, NEW o \in Obj, NEW u
    PROVE  CanUpgrade(o, u) <=> /\ o \notin Locked
                                /\ Above(o) \cap Locked = {}
                                /\ Below(o) \cap Locked # {}
                                /\ \A d \in Below(o) \cap Locked : lockedBy[d] = u
<1>1. LockedBelow(o) = Below(o) \cap Locked
  BY AboveBelowObj DEF IInv, LockedBelow, Locked
<1> QED BY <1>1, NoneCounted DEF CanUpgrade, Locked

\* The locked nodes below the target leave, the target joins; each counter loses
\* one for every released node in its reach and gains one for the target.
LEMMA UpgradeKeepsInv ==
    ASSUME IInv, TypeOK', NEW name \in Name, NEW u \in User, UpgradeLock(name, u)
    PROVE  IInv'
<1> DEFINE o == nodeMap[name]
           R == LockedBelow(o)
           rest == Locked \ R
<1>1. /\ o \in Obj /\ o <= size
      /\ parent' = parent /\ size' = size /\ nodeMap' = nodeMap
      /\ o \notin Locked /\ Above(o) \cap Locked = {}
  <2>1. o \in Obj /\ o <= size
    BY DEF UpgradeLock, IInv, TypeOK, ShapeInv, Obj, Null
  <2> QED BY <2>1, CanUpgradeIsClear DEF UpgradeLock, shape
<1>2. R = Below(o) \cap Locked
  BY <1>1, AboveBelowObj DEF IInv, LockedBelow, Locked
<1>3. Locked' = rest \cup {o}
  <2>1. isLocked' = [x \in Obj |-> x = o \/ (isLocked[x] /\ x \notin R)]
    BY DEF UpgradeLock
  <2> QED BY <1>1, <2>1 DEF Locked
<1>4. ShapeInv'
  BY <1>1 DEF IInv, ShapeInv
<1>5. OwnerInv'
  BY <1>1, <1>3 DEF UpgradeLock, IInv, TypeOK, OwnerInv, Locked
<1>6. CountInv'
  <2>1. ASSUME NEW x \in Obj
        PROVE  /\ ancestorLockedCount'[x] = Cardinality(Above(x) \cap (rest \cup {o}))
               /\ descendantLockedCount'[x] = Cardinality(Below(x) \cap (rest \cup {o}))
    <3>1. ASSUME NEW W
          PROVE  /\ Cardinality(W \cap (rest \cup {o}))
                       = Cardinality(W \cap Locked) - Cardinality(R \cap W)
                            + (IF o \in W THEN 1 ELSE 0)
                 /\ Cardinality(R \cap W) \in Nat
                 /\ Cardinality(W \cap Locked) \in Nat
      <4>1. /\ Cardinality(W \cap rest) = Cardinality(W \cap Locked) - Cardinality(R \cap W)
            /\ Cardinality(R \cap W) \in Nat
            /\ Cardinality(W \cap Locked) \in Nat
        <5>1. Locked \in SUBSET Obj /\ R \in SUBSET Locked
          BY <1>2 DEF Locked
        <5> QED BY <5>1, CountRemoved
      <4>2. Cardinality(W \cap (rest \cup {o}))
               = Cardinality(W \cap rest) + (IF o \in W THEN 1 ELSE 0)
        <5>1. rest \in SUBSET Obj /\ o \notin rest
          BY <1>1 DEF Locked
        <5> QED BY <1>1, <5>1, CountAdded
      <4> QED BY <4>1, <4>2
    <3> DEFINE cAbove == Cardinality(R \cap Above(x))
               cBelow == Cardinality(R \cap Below(x))
    <3>2. /\ Cardinality(Above(x) \cap (rest \cup {o}))
                = ancestorLockedCount[x] - cAbove + (IF o \in Above(x) THEN 1 ELSE 0)
          /\ Cardinality(Below(x) \cap (rest \cup {o}))
                = descendantLockedCount[x] - cBelow + (IF o \in Below(x) THEN 1 ELSE 0)
          /\ cAbove \in Nat /\ cBelow \in Nat
      BY <3>1 DEF IInv, CountInv
    <3>3. (x \in Below(o) <=> o \in Above(x)) /\ (o \in Below(x) <=> x \in Above(o))
      BY <1>1, BelowIsAbove DEF IInv
    <3>4. /\ ancestorLockedCount'[x]
                = IF x \in Below(o) THEN (ancestorLockedCount[x] - cAbove) + 1
                                    ELSE ancestorLockedCount[x] - cAbove
          /\ descendantLockedCount'[x]
                = IF x \in Above(o) THEN (descendantLockedCount[x] - cBelow) + 1
                                    ELSE descendantLockedCount[x] - cBelow
      BY DEF UpgradeLock, Inform
    <3>5. ancestorLockedCount[x] \in Int /\ descendantLockedCount[x] \in Int
      BY DEF IInv, TypeOK
    <3> HIDE DEF cAbove, cBelow
    <3> QED BY <3>2, <3>3, <3>4, <3>5
  <2> QED BY <1>1, <1>3, <2>1 DEF CountInv, Above, Below
<1>7. PathInv'
  <2>1. ASSUME NEW x \in rest PROVE o \notin Above(x) /\ Above(x) \cap rest = {}
    BY <1>1, <1>2, BelowIsAbove DEF IInv, PathInv, Locked
  <2>2. o \notin Above(o) /\ Above(o) \cap rest = {}
    BY <1>1, AboveBelowObj DEF IInv
  <2> HIDE DEF rest
  <2> QED BY <1>1, <1>3, <2>1, <2>2 DEF PathInv, Above
<1> QED BY <1>4, <1>5, <1>6, <1>7 DEF IInv
-----------------------------------------------------------------------------
\* IInv is inductive as long as the tree is not extended while a node is locked.
LEMMA InvNext ==
    ASSUME IInv, ~AddWhileLocked, TypeOK', [Next]_vars
    PROVE  IInv'
<1>1. ASSUME UNCHANGED vars PROVE IInv'
  BY <1>1 DEF vars, shape, locks, IInv, TypeOK, ShapeInv, OwnerInv, CountInv, PathInv,
     Locked, Above, Below
<1> QED
  BY <1>1, AddNodeKeepsInv, LockKeepsInv, UnlockKeepsInv, UpgradeKeepsInv DEF Next

LEMMA InvCorrect ==
    ASSUME ~AddWhileLocked
    PROVE  Spec => []IInv
<1>1. Init => IInv
  BY InvInit
<1>2. IInv /\ TypeOK' /\ [Next]_vars => IInv'
  BY InvNext
<1> QED BY <1>1, <1>2, TypeCorrect, PTL DEF Spec

\* The counters cached in the nodes are exact after any sequence of calls.
THEOREM CountersCorrect ==
    ASSUME ~AddWhileLocked
    PROVE  Spec => []CountsExact
<1>1. IInv => CountsExact
  BY CountInvIsCountsExact DEF IInv
<1> QED BY <1>1, InvCorrect, PTL

\* No two locked nodes lie on one path to the root, after any sequence of calls.
THEOREM PathExclusion ==
    ASSUME ~AddWhileLocked
    PROVE  Spec => []OneLockPerPath
<1>1. IInv => OneLockPerPath
  BY PathInvIsOneLockPerPath DEF IInv
<1> QED BY <1>1, InvCorrect, PTL

\* The O(1) checks of lock() and upgradeLock() decide as a walk of the tree would.
THEOREM ChecksCorrect ==
    ASSUME ~AddWhileLocked
    PROVE  Spec => []ChecksMatchTreeWalk
<1>1. IInv => ChecksMatchTreeWalk
  <2> SUFFICES ASSUME IInv, NEW o \in Obj
               PROVE  /\ CanLock(o) <=> Abstract!Grantable(o)
                      /\ \A u \in User : CanUpgrade(o, u) <=> Abstract!Upgradable(o, u)
    BY DEF ChecksMatchTreeWalk
  <2>1. Abstract!Owned = Locked
    BY SameOwned DEF IInv
  <2>2. CanLock(o) <=> Abstract!Grantable(o)
    BY <2>1, CanLockIsClear, SameForest DEF Abstract!Grantable, Above, Below
  <2>3. ASSUME NEW u \in User
        PROVE  CanUpgrade(o, u) <=> Abstract!Upgradable(o, u)
    <3>1. Abstract!Upgradable(o, u) <=>
             /\ o \notin Locked
             /\ Above(o) \cap Locked = {}
             /\ Below(o) \cap Locked # {}
             /\ \A d \in Below(o) \cap Locked : lockedBy[d] = u
      BY <2>1, SameForest DEF Abstract!Upgradable, Above, Below, Locked
    <3> QED BY <3>1, CanUpgradeIsClear
  <2> QED BY <2>2, <2>3
<1> QED BY <1>1, InvCorrect, PTL

\* The tree implements the abstract hierarchy: lock is Acquire, unlock Release,
\* upgradeLock Upgrade, addNode under a parent Grow, a new root a stutter.
THEOREM Refinement ==
    ASSUME ~AddWhileLocked
    PROVE  Spec => ImplementsHierarchicalLock
<1> DEFINE own == [o \in Obj |-> IF isLocked[o] THEN lockedBy[o] ELSE NoUser]
<1>1. Init => Abstract!Init
  <2> SUFFICES ASSUME Init PROVE Abstract!Init
    OBVIOUS
  <2>1. IInv
    BY InvInit
  <2>2. own = [o \in Obj |-> NoUser]
    BY DEF Init
  <2> QED BY <2>1, <2>2, SameForest DEF Abstract!Init, IInv, TypeOK, ShapeInv
<1>2. ASSUME IInv, TypeOK', [Next]_vars
      PROVE  [Abstract!Next]_(Abstract!vars)
  <2>1. Abstract!Owned = Locked
    BY <1>2, SameOwned DEF IInv
  <2>2. ASSUME NEW name \in Name, NEW parentName \in Name \cup {NoName},
               AddNode(name, parentName)
        PROVE  [Abstract!Next]_(Abstract!vars)
    <3> DEFINE new == size + 1
               p == IF parentName = NoName THEN Null ELSE nodeMap[parentName]
    <3>1. /\ new \in Obj /\ p \in 0 .. size /\ size \in Nat
          /\ parent' = [parent EXCEPT ![new] = p] /\ own' = own
      BY <1>2, <2>2, PaymentTreeAssumption
         DEF AddNode, IInv, ShapeInv, TypeOK, Obj, Null, locks
    <3>2. Locked = {} /\ \A o \in Obj : own[o] = NoUser
      BY <1>2, <2>2 DEF AddNode, Locked
    <3>3. parent[new] = Null /\ Null \notin Obj
      BY <1>2, <3>1 DEF IInv, ShapeInv, TypeOK, Obj, Null
    <3>4. CASE p = Null
      <4>1. parent' = parent
        BY <1>2, <3>1, <3>3, <3>4 DEF IInv, TypeOK
      <4> QED BY <3>1, <4>1 DEF Abstract!vars
    <3>5. CASE p # Null
      <4>1. p \in Obj /\ p # new
        <5>1. new = size + 1 /\ new <= MaxNodes /\ MaxNodes \in Nat
          BY <3>1, PaymentTreeAssumption DEF Obj
        <5> HIDE DEF p, new
        <5> QED BY <3>1, <3>5, <5>1 DEF Obj, Null
      <4>2. ChildrenOf(parent, new) = {}
        BY <1>2, <3>1 DEF ChildrenOf, IInv, ShapeInv, TypeOK, Obj
      <4>3. Abstract!Grow(new, p)
        BY <2>1, <3>1, <3>2, <3>3, <4>1, <4>2, SameForest DEF Abstract!Grow
      <4> QED BY <3>1, <4>1, <4>3 DEF Abstract!Next
    <3> QED BY <3>4, <3>5
  <2>3. ASSUME NEW name \in Name, NEW u \in User, Lock(name, u)
        PROVE  [Abstract!Next]_(Abstract!vars)
    <3> DEFINE o == nodeMap[name]
    <3>1. o \in Obj /\ parent' = parent
      BY <1>2, <2>3 DEF Lock, IInv, TypeOK, Obj, Null, shape
    <3>2. Abstract!Grantable(o)
      BY <1>2, <2>1, <2>3, <3>1, CanLockIsClear, SameForest
         DEF Lock, Abstract!Grantable, Above, Below
    <3>3. own' = [own EXCEPT ![o] = u]
      BY <1>2, <2>3, <3>1 DEF Lock, IInv, TypeOK
    <3>4. Abstract!Acquire(o, u)
      BY <3>1, <3>2, <3>3 DEF Abstract!Acquire
    <3> QED BY <3>1, <3>4 DEF Abstract!Next
  <2>4. ASSUME NEW name \in Name, NEW u \in User, Unlock(name, u)
        PROVE  [Abstract!Next]_(Abstract!vars)
    <3> DEFINE o == nodeMap[name]
    <3>1. o \in Obj /\ parent' = parent
      BY <1>2, <2>4 DEF Unlock, IInv, TypeOK, Obj, Null, shape
    <3>2. own[o] = u /\ own' = [own EXCEPT ![o] = NoUser]
      BY <1>2, <2>4, <3>1 DEF Unlock, IInv, TypeOK
    <3>3. Abstract!Release(o, u)
      BY <3>1, <3>2 DEF Abstract!Release
    <3> QED BY <3>1, <3>3 DEF Abstract!Next
  <2>5. ASSUME NEW name \in Name, NEW u \in User, UpgradeLock(name, u)
        PROVE  [Abstract!Next]_(Abstract!vars)
    <3> DEFINE o == nodeMap[name]
    <3>1. o \in Obj /\ parent' = parent
      BY <1>2, <2>5 DEF UpgradeLock, IInv, TypeOK, Obj, Null, shape
    <3>2. /\ o \notin Locked /\ Above(o) \cap Locked = {} /\ Below(o) \cap Locked # {}
          /\ \A d \in Below(o) \cap Locked : lockedBy[d] = u
      BY <1>2, <2>5, <3>1, CanUpgradeIsClear DEF UpgradeLock
    <3> HIDE DEF o
    <3>3. Abstract!Upgradable(o, u)
      <4>1. Locked \subseteq Obj /\ \A d \in Locked : own[d] = lockedBy[d]
        BY DEF Locked
      <4> QED BY <2>1, <3>2, <4>1, SameForest DEF Abstract!Upgradable, Above, Below
    <3> USE DEF o
    <3>4. o \notin Below(o) /\ LockedBelow(o) = Below(o) \cap Locked
      BY <1>2, <3>1, AboveBelowObj DEF IInv, LockedBelow, Locked
    <3>5. own' = [x \in Obj |-> IF x = o THEN u
                                ELSE IF x \in Below(o) THEN NoUser
                                ELSE own[x]]
      BY <2>5, <3>1, <3>4 DEF UpgradeLock, Locked
    <3>6. \A x \in Below(o) : own[x] = u \/ own[x] = NoUser
      <4>1. \A x \in Obj : own[x] = IF isLocked[x] THEN lockedBy[x] ELSE NoUser
        OBVIOUS
      <4>2. Below(o) \subseteq Obj
        BY <1>2, <3>1, AboveBelowObj DEF IInv
      <4> QED BY <3>2, <4>1, <4>2 DEF Locked
    <3>7. own' = [x \in Obj |-> IF x = o THEN u
                                ELSE IF own[x] = u /\ x \in Below(o) THEN NoUser
                                ELSE own[x]]
      BY <3>5, <3>6
    <3>8. Abstract!Upgrade(o, u)
      BY <3>1, <3>3, <3>7, SameForest DEF Abstract!Upgrade, Below
    <3> QED BY <3>1, <3>8 DEF Abstract!Next
  <2>6. CASE UNCHANGED vars
    BY <2>6 DEF vars, shape, locks, Abstract!vars
  <2> QED BY <1>2, <2>2, <2>3, <2>4, <2>5, <2>6 DEF Next
<1> QED BY <1>1, <1>2, InvCorrect, TypeCorrect, PTL
        DEF Spec, ImplementsHierarchicalLock, Abstract!Spec

=============================================================================
