-------------------------- MODULE AtomicUpgradeProofs --------------------------
(***************************************************************************)
(* The lock-free tree, whichever calls its callers make.                   *)
(*                                                                         *)
(* A step changes lockState of one node, the duties of one thread and one  *)
(* counter, and the three changes cancel out, except where a plain store   *)
(* of 0 finds the node free already.  So the counters balance as long as   *)
(* no store does (BalanceInv), and for two classes of callers none does:   *)
(* threads that lock nodes not above each other and make no upgrades       *)
(* (ApartInv), and threads that act for users of their own (ClaimInv).     *)
(* The last part is about a single thread (SoloInv): for it every call is  *)
(* one operation of the abstract hierarchy.                                *)
(***************************************************************************)
EXTENDS AtomicTreeProofs

\* What a propagation has still to inform is around the node it reports, and
\* the call of an upgrade that locks its node has released all it found.
DutiesOK(t) ==
    /\ pc[t] = "inform" =>
          /\ PendingAbove(t) \subseteq Above[Reported(t)]
          /\ PendingBelow(t) \subseteq Below[Reported(t)]
          /\ Apart(work[t])
    /\ found[t] # <<>> => pc[t] \in {"scanState", "scanOwner", "freeState", "freeOwner", "inform"}

BalanceInv == TypeInv /\ CountsBalanced /\ \A t \in Thread : DutiesOK(t)
-----------------------------------------------------------------------------
\* Counting.

In(x, S) == IF x \in S THEN 1 ELSE 0

\* The members p of D with x in f[p].
CountIn(D, f, x) == Cardinality({p \in D : x \in f[p]})

\* One of the sets changes.
LEMMA CountShifts ==
    \A D, f, g, x : \A q \in D :
       IsFiniteSet(D) /\ (\A p \in D \ {q} : g[p] = f[p]) =>
          /\ CountIn(D, f, x) \in Nat /\ CountIn(D, g, x) \in Nat
          /\ CountIn(D, g, x) = CountIn(D, f, x) + In(x, g[q]) - In(x, f[q])
<1> SUFFICES ASSUME NEW D, NEW f, NEW g, NEW x, NEW q \in D,
                    IsFiniteSet(D), \A p \in D \ {q} : g[p] = f[p]
             PROVE  /\ CountIn(D, f, x) \in Nat /\ CountIn(D, g, x) \in Nat
                    /\ CountIn(D, g, x) = CountIn(D, f, x) + In(x, g[q]) - In(x, f[q])
  OBVIOUS
<1> DEFINE F == {p \in D : x \in f[p]}
           G == {p \in D : x \in g[p]}
<1>1. /\ F \in SUBSET D /\ G \in SUBSET D
      /\ CountIn(D, f, x) = Cardinality(F) /\ CountIn(D, g, x) = Cardinality(G)
  BY DEF CountIn
<1>2. /\ q \in F <=> x \in f[q]
      /\ q \in G <=> x \in g[q]
      /\ F \ {q} = G \ {q}
  OBVIOUS
<1> HIDE DEF F, G
<1>3. /\ IsFiniteSet(F) /\ IsFiniteSet(G)
      /\ Cardinality(F) \in Nat /\ Cardinality(G) \in Nat
  BY <1>1, FS_Subset, FS_CardinalityType
<1>4. CASE q \in F /\ q \in G
  <2>1. F = G
    BY <1>2, <1>4
  <2> QED BY <1>1, <1>2, <1>3, <1>4, <2>1 DEF In
<1>5. CASE q \notin F /\ q \notin G
  <2>1. F = G
    BY <1>2, <1>5
  <2> QED BY <1>1, <1>2, <1>3, <1>5, <2>1 DEF In
<1>6. CASE q \notin F /\ q \in G
  <2>1. G = F \cup {q}
    BY <1>2, <1>6
  <2>2. Cardinality(G) = Cardinality(F) + 1
    BY <1>3, <1>6, <2>1, FS_AddElement
  <2> QED BY <1>1, <1>2, <1>3, <1>6, <2>2 DEF In
<1>7. CASE q \in F /\ q \notin G
  <2>1. G = F \ {q}
    BY <1>2, <1>7
  <2>2. Cardinality(G) = Cardinality(F) - 1
    BY <1>3, <1>7, <2>1, FS_RemoveElement
  <2> QED BY <1>1, <1>2, <1>3, <1>7, <2>2 DEF In
<1> QED BY <1>4, <1>5, <1>6, <1>7

\* Counter c, the nodes each node is counted at, and the nodes each thread has
\* still to add at and to take at.
Balanced(c, counted, add, take) ==
    \A x \in Node : c[x] + CountIn(Thread, add, x) = CountIn(Node, counted, x) + CountIn(Thread, take, x)

\* Changes at one node and one thread that cancel out keep the balance.
LEMMA BalanceKept ==
    ASSUME NEW a \in [Node -> Int], NEW b \in [Node -> Int], NEW n \in Node, NEW t \in Thread,
           NEW L1, NEW L2, NEW P1, NEW P2, NEW M1, NEW M2,
           Balanced(a, L1, P1, M1),
           \A m \in Node \ {n} : L2[m] = L1[m],
           \A s \in Thread \ {t} : P2[s] = P1[s],
           \A s \in Thread \ {t} : M2[s] = M1[s],
           \A x \in Node :
              b[x] + In(x, P2[t]) - In(x, P1[t]) =
              a[x] + In(x, L2[n]) - In(x, L1[n]) + In(x, M2[t]) - In(x, M1[t])
    PROVE  Balanced(b, L2, P2, M2)
<1> SUFFICES ASSUME NEW x \in Node
             PROVE  b[x] + CountIn(Thread, P2, x) = CountIn(Node, L2, x) + CountIn(Thread, M2, x)
  BY DEF Balanced
<1>1. IsFiniteSet(Node) /\ IsFiniteSet(Thread)
  BY TreeAssumption, CallerAssumption
<1>2. /\ CountIn(Node, L1, x) \in Nat /\ CountIn(Node, L2, x) \in Nat
      /\ CountIn(Node, L2, x) = CountIn(Node, L1, x) + In(x, L2[n]) - In(x, L1[n])
  BY <1>1, CountShifts
<1>3. /\ CountIn(Thread, P1, x) \in Nat /\ CountIn(Thread, P2, x) \in Nat
      /\ CountIn(Thread, P2, x) = CountIn(Thread, P1, x) + In(x, P2[t]) - In(x, P1[t])
  BY <1>1, CountShifts
<1>4. /\ CountIn(Thread, M1, x) \in Nat /\ CountIn(Thread, M2, x) \in Nat
      /\ CountIn(Thread, M2, x) = CountIn(Thread, M1, x) + In(x, M2[t]) - In(x, M1[t])
  BY <1>1, CountShifts
<1>5. a[x] + CountIn(Thread, P1, x) = CountIn(Node, L1, x) + CountIn(Thread, M1, x)
  BY DEF Balanced
<1>6. b[x] + In(x, P2[t]) - In(x, P1[t]) =
      a[x] + In(x, L2[n]) - In(x, L1[n]) + In(x, M2[t]) - In(x, M1[t])
  OBVIOUS
<1>7. /\ In(x, P1[t]) \in Int /\ In(x, P2[t]) \in Int /\ In(x, M1[t]) \in Int
      /\ In(x, M2[t]) \in Int /\ In(x, L1[n]) \in Int /\ In(x, L2[n]) \in Int
      /\ a[x] \in Int /\ b[x] \in Int
  BY DEF In
<1> QED BY <1>2, <1>3, <1>4, <1>5, <1>6, <1>7

\* The nodes each locked node is counted at, and the duties of each thread.
LockedAbove == [n \in Node |-> IF lockState[n] = 1 THEN Above[n] ELSE {}]
LockedBelow == [n \in Node |-> IF lockState[n] = 1 THEN Below[n] ELSE {}]
AddAbove == [t \in Thread |-> ToAdd(t, Above, PendingAbove(t))]
AddBelow == [t \in Thread |-> ToAdd(t, Below, PendingBelow(t))]
TakeAbove == [t \in Thread |-> ToTake(t, Above, PendingAbove(t))]
TakeBelow == [t \in Thread |-> ToTake(t, Below, PendingBelow(t))]

LEMMA BalanceIs ==
    CountsBalanced <=> /\ Balanced(descendantLockedCount, LockedAbove, AddAbove, TakeAbove)
                       /\ Balanced(ancestorLockedCount, LockedBelow, AddBelow, TakeBelow)
<1>1. \A x \in Node :
         /\ {n \in Node : x \in LockedAbove[n]} = {n \in Below[x] : lockState[n] = 1}
         /\ {n \in Node : x \in LockedBelow[n]} = {n \in Above[x] : lockState[n] = 1}
  BY BelowIs, AboveFacts DEF LockedAbove, LockedBelow
<1>2. \A x \in Node :
         /\ {t \in Thread : x \in AddAbove[t]} = {t \in Thread : x \in ToAdd(t, Above, PendingAbove(t))}
         /\ {t \in Thread : x \in AddBelow[t]} = {t \in Thread : x \in ToAdd(t, Below, PendingBelow(t))}
         /\ {t \in Thread : x \in TakeAbove[t]} = {t \in Thread : x \in ToTake(t, Above, PendingAbove(t))}
         /\ {t \in Thread : x \in TakeBelow[t]} = {t \in Thread : x \in ToTake(t, Below, PendingBelow(t))}
  BY DEF AddAbove, AddBelow, TakeAbove, TakeBelow
<1> QED BY <1>1, <1>2 DEF CountsBalanced, Balanced, CountIn

LEMMA BalanceIsNext ==
    CountsBalanced' <=> /\ Balanced(descendantLockedCount', LockedAbove', AddAbove', TakeAbove')
                        /\ Balanced(ancestorLockedCount', LockedBelow', AddBelow', TakeBelow')
<1>1. \A x \in Node :
         /\ {n \in Node : x \in LockedAbove'[n]} = {n \in Below[x] : lockState'[n] = 1}
         /\ {n \in Node : x \in LockedBelow'[n]} = {n \in Above[x] : lockState'[n] = 1}
  BY BelowIs, AboveFacts DEF LockedAbove, LockedBelow
<1>2. \A x \in Node :
         /\ {t \in Thread : x \in AddAbove'[t]} = {t \in Thread : x \in ToAdd(t, Above, PendingAbove(t))'}
         /\ {t \in Thread : x \in AddBelow'[t]} = {t \in Thread : x \in ToAdd(t, Below, PendingBelow(t))'}
         /\ {t \in Thread : x \in TakeAbove'[t]} = {t \in Thread : x \in ToTake(t, Above, PendingAbove(t))'}
         /\ {t \in Thread : x \in TakeBelow'[t]} = {t \in Thread : x \in ToTake(t, Below, PendingBelow(t))'}
  BY DEF AddAbove, AddBelow, TakeAbove, TakeBelow
<1> QED BY <1>1, <1>2 DEF CountsBalanced, Balanced, CountIn

\* What a step of t leaves of the other threads.
Alone(t) ==
    \A s \in Thread \ {t} :
        /\ pc'[s] = pc[s] /\ call'[s] = call[s] /\ cursor'[s] = cursor[s]
        /\ work'[s] = work[s] /\ found'[s] = found[s]

LEMMA DutiesKept ==
    ASSUME NEW t \in Thread, Alone(t), NEW s \in Thread \ {t}
    PROVE  /\ AddAbove'[s] = AddAbove[s] /\ AddBelow'[s] = AddBelow[s]
           /\ TakeAbove'[s] = TakeAbove[s] /\ TakeBelow'[s] = TakeBelow[s]
           /\ DutiesOK(s) => DutiesOK(s)'
<1>1. /\ pc'[s] = pc[s] /\ call'[s] = call[s] /\ cursor'[s] = cursor[s]
      /\ work'[s] = work[s] /\ found'[s] = found[s]
  BY DEF Alone
<1>2. PendingAbove(s)' = PendingAbove(s) /\ PendingBelow(s)' = PendingBelow(s)
  BY <1>1 DEF PendingAbove, PendingBelow
<1>3. /\ Reported(s)' = Reported(s) /\ Delta(s)' = Delta(s)
      /\ Unreported(s)' <=> Unreported(s)
  BY <1>1 DEF Reported, Delta, Unreported
<1>4. /\ ToAdd(s, Above, PendingAbove(s))' = ToAdd(s, Above, PendingAbove(s))
      /\ ToAdd(s, Below, PendingBelow(s))' = ToAdd(s, Below, PendingBelow(s))
      /\ ToTake(s, Above, PendingAbove(s))' = ToTake(s, Above, PendingAbove(s))
      /\ ToTake(s, Below, PendingBelow(s))' = ToTake(s, Below, PendingBelow(s))
  BY <1>1, <1>2, <1>3 DEF ToAdd, ToTake
<1>5. DutiesOK(s) => DutiesOK(s)'
  BY <1>1, <1>2, <1>3 DEF DutiesOK, Apart
<1> QED BY <1>4, <1>5 DEF AddAbove, AddBelow, TakeAbove, TakeBelow

\* A step of t at n whose changes cancel out.
LEMMA StepBalances ==
    ASSUME BalanceInv, TypeInv', NEW t \in Thread, NEW n \in Node, Alone(t), DutiesOK(t)',
           \A m \in Node \ {n} : lockState'[m] = lockState[m],
           \A x \in Node :
              descendantLockedCount'[x] + In(x, AddAbove'[t]) - In(x, AddAbove[t]) =
              descendantLockedCount[x] + In(x, LockedAbove'[n]) - In(x, LockedAbove[n])
                 + In(x, TakeAbove'[t]) - In(x, TakeAbove[t]),
           \A x \in Node :
              ancestorLockedCount'[x] + In(x, AddBelow'[t]) - In(x, AddBelow[t]) =
              ancestorLockedCount[x] + In(x, LockedBelow'[n]) - In(x, LockedBelow[n])
                 + In(x, TakeBelow'[t]) - In(x, TakeBelow[t])
    PROVE  BalanceInv'
<1>1. /\ descendantLockedCount \in [Node -> Int] /\ descendantLockedCount' \in [Node -> Int]
      /\ ancestorLockedCount \in [Node -> Int] /\ ancestorLockedCount' \in [Node -> Int]
  BY DEF BalanceInv, TypeInv, NodeTypes
<1>2. /\ Balanced(descendantLockedCount, LockedAbove, AddAbove, TakeAbove)
      /\ Balanced(ancestorLockedCount, LockedBelow, AddBelow, TakeBelow)
  BY BalanceIs DEF BalanceInv
<1>3. \A m \in Node \ {n} : LockedAbove'[m] = LockedAbove[m] /\ LockedBelow'[m] = LockedBelow[m]
  BY DEF LockedAbove, LockedBelow
<1>4. \A s \in Thread \ {t} : /\ AddAbove'[s] = AddAbove[s] /\ AddBelow'[s] = AddBelow[s]
                              /\ TakeAbove'[s] = TakeAbove[s] /\ TakeBelow'[s] = TakeBelow[s]
  BY DutiesKept
<1>5. Balanced(descendantLockedCount', LockedAbove', AddAbove', TakeAbove')
  BY <1>1, <1>2, <1>3, <1>4, BalanceKept
<1>6. Balanced(ancestorLockedCount', LockedBelow', AddBelow', TakeBelow')
  BY <1>1, <1>2, <1>3, <1>4, BalanceKept
<1>7. \A s \in Thread : DutiesOK(s)'
  BY DutiesKept DEF BalanceInv
<1> QED BY <1>5, <1>6, <1>7, BalanceIsNext DEF BalanceInv

\* A step of t that changes no duty, no counter and no lockState.
LEMMA QuietBalances ==
    ASSUME BalanceInv, TypeInv', NEW t \in Thread, Alone(t), DutiesOK(t)',
           UNCHANGED <<lockState, ancestorLockedCount, descendantLockedCount>>,
           AddAbove'[t] = AddAbove[t], AddBelow'[t] = AddBelow[t],
           TakeAbove'[t] = TakeAbove[t], TakeBelow'[t] = TakeBelow[t]
    PROVE  BalanceInv'
<1>1. /\ AddAbove' = AddAbove /\ AddBelow' = AddBelow
      /\ TakeAbove' = TakeAbove /\ TakeBelow' = TakeBelow
  <2>1. \A s \in Thread : /\ AddAbove'[s] = AddAbove[s] /\ AddBelow'[s] = AddBelow[s]
                          /\ TakeAbove'[s] = TakeAbove[s] /\ TakeBelow'[s] = TakeBelow[s]
    BY DutiesKept
  <2> QED BY <2>1 DEF AddAbove, AddBelow, TakeAbove, TakeBelow
<1>2. LockedAbove' = LockedAbove /\ LockedBelow' = LockedBelow
  BY DEF LockedAbove, LockedBelow
<1>3. CountsBalanced'
  BY <1>1, <1>2, BalanceIs, BalanceIsNext DEF BalanceInv
<1>4. \A s \in Thread : DutiesOK(s)'
  BY DutiesKept DEF BalanceInv
<1> QED BY <1>3, <1>4 DEF BalanceInv

\* The labels at which a thread has no duty.
Calm(l) == l \notin {"recheckAncestors", "recheckDescendants", "rollback", "setOwner",
                     "inform", "freeOwner"}

LEMMA CalmDuties ==
    ASSUME NEW t \in Thread
    PROVE  /\ Calm(pc[t]) => /\ AddAbove[t] = {} /\ AddBelow[t] = {}
                             /\ TakeAbove[t] = {} /\ TakeBelow[t] = {}
           /\ Calm(pc'[t]) => /\ AddAbove'[t] = {} /\ AddBelow'[t] = {}
                              /\ TakeAbove'[t] = {} /\ TakeBelow'[t] = {}
  BY DEF Calm, AddAbove, AddBelow, TakeAbove, TakeBelow, ToAdd, ToTake, Unreported

\* The duties of a thread that has set lockState and informed nobody, of one
\* that releases a node, and of one that propagates.
LEMMA DutiesAre ==
    ASSUME NEW t \in Thread
    PROVE  /\ Unreported(t) => /\ AddAbove[t] = Above[call[t].node] /\ AddBelow[t] = Below[call[t].node]
                               /\ TakeAbove[t] = {} /\ TakeBelow[t] = {}
           /\ pc[t] = "freeOwner" => /\ AddAbove[t] = {} /\ AddBelow[t] = {}
                                     /\ TakeAbove[t] = Above[Head(found[t])]
                                     /\ TakeBelow[t] = Below[Head(found[t])]
           /\ pc[t] = "inform" =>
                 /\ AddAbove[t] = IF Delta(t) = 1 THEN PendingAbove(t) ELSE {}
                 /\ AddBelow[t] = IF Delta(t) = 1 THEN PendingBelow(t) ELSE {}
                 /\ TakeAbove[t] = IF Delta(t) = -1 THEN PendingAbove(t) ELSE {}
                 /\ TakeBelow[t] = IF Delta(t) = -1 THEN PendingBelow(t) ELSE {}
  BY DEF AddAbove, AddBelow, TakeAbove, TakeBelow, ToAdd, ToTake, Unreported

LEMMA DutiesAreNext ==
    ASSUME NEW t \in Thread
    PROVE  /\ Unreported(t)' => /\ AddAbove'[t] = Above[call'[t].node] /\ AddBelow'[t] = Below[call'[t].node]
                                /\ TakeAbove'[t] = {} /\ TakeBelow'[t] = {}
           /\ pc'[t] = "freeOwner" => /\ AddAbove'[t] = {} /\ AddBelow'[t] = {}
                                      /\ TakeAbove'[t] = Above[Head(found'[t])]
                                      /\ TakeBelow'[t] = Below[Head(found'[t])]
           /\ pc'[t] = "inform" =>
                 /\ AddAbove'[t] = IF Delta(t)' = 1 THEN PendingAbove(t)' ELSE {}
                 /\ AddBelow'[t] = IF Delta(t)' = 1 THEN PendingBelow(t)' ELSE {}
                 /\ TakeAbove'[t] = IF Delta(t)' = -1 THEN PendingAbove(t)' ELSE {}
                 /\ TakeBelow'[t] = IF Delta(t)' = -1 THEN PendingBelow(t)' ELSE {}
  BY DEF AddAbove, AddBelow, TakeAbove, TakeBelow, ToAdd, ToTake, Unreported

LEMMA CalmBalances ==
    ASSUME BalanceInv, TypeInv', NEW t \in Thread, Alone(t),
           UNCHANGED <<lockState, ancestorLockedCount, descendantLockedCount>>,
           Calm(pc[t]), Calm(pc'[t]),
           found'[t] = <<>> \/ pc'[t] \in {"scanState", "scanOwner", "freeState"}
    PROVE  BalanceInv'
<1>1. DutiesOK(t)'
  BY DEF DutiesOK, Calm
<1> QED BY <1>1, CalmDuties, QuietBalances

\* How the steps of control leave a thread.
LEMMA ProceedAlone ==
    ASSUME TypeInv, NEW t \in Thread, NEW l, Proceed(t, l)
    PROVE  Alone(t) /\ pc'[t] = l /\ UNCHANGED <<call, cursor, work, found>>
  BY DEF Proceed, Goto, Alone, TypeInv, ThreadTypes

LEMMA ReturnFalseAlone ==
    ASSUME TypeInv, NEW t \in Thread, ReturnFalse(t)
    PROVE  Alone(t) /\ pc'[t] = "idle" /\ found'[t] = <<>>
  BY DEF ReturnFalse, Return, Goto, Alone, TypeInv, ThreadTypes

LEMMA StartInformAlone ==
    ASSUME TypeInv, NEW t \in Thread, NEW n, StartInform(t, n)
    PROVE  Alone(t) /\ pc'[t] = "inform" /\ UNCHANGED <<call, found>>
  BY DEF StartInform, Goto, Alone, TypeInv, ThreadTypes

\* Calls begin, look and are refused without a duty.
LEMMA LooksBalance ==
    ASSUME BalanceInv, TypeInv', NEW t \in Thread,
           UNCHANGED <<lockState, ancestorLockedCount, descendantLockedCount>>,
           Calm(pc[t]),
           \/ ReturnFalse(t)
           \/ \E l \in {"scanState", "scanOwner", "freeState"} : Proceed(t, l)
           \/ \E l : Proceed(t, l) /\ Calm(l) /\ found[t] = <<>>
    PROVE  BalanceInv'
<1>0. TypeInv
  BY DEF BalanceInv
<1>1. CASE ReturnFalse(t)
  BY <1>0, <1>1, ReturnFalseAlone, CalmBalances DEF Calm
<1>2. CASE \E l \in {"scanState", "scanOwner", "freeState"} : Proceed(t, l)
  BY <1>0, <1>2, ProceedAlone, CalmBalances DEF Calm
<1>3. CASE \E l : Proceed(t, l) /\ Calm(l) /\ found[t] = <<>>
  BY <1>0, <1>3, ProceedAlone, CalmBalances
<1> QED BY <1>1, <1>2, <1>3
-----------------------------------------------------------------------------
\* The steps.

LEMMA CallBalances ==
    ASSUME BalanceInv, TypeInv', NEW t \in Thread, Call(t)
    PROVE  BalanceInv'
<1>1. ASSUME NEW op, NEW n, NEW u, NEW l, Begin(t, op, n, u, l), Calm(l) PROVE BalanceInv'
  <2>1. pc[t] = "idle" /\ found[t] = <<>>
    BY <1>1 DEF Begin, BalanceInv, DutiesOK
  <2>2. /\ Alone(t) /\ pc'[t] = l /\ found'[t] = found[t]
        /\ UNCHANGED <<lockState, ancestorLockedCount, descendantLockedCount>>
    BY <1>1 DEF Begin, Goto, Alone, nodeVars, BalanceInv, TypeInv, ThreadTypes
  <2> QED BY <1>1, <2>1, <2>2, CalmBalances DEF Calm
<1> QED BY <1>1 DEF Call, CallLock, CallUnlock, CallUpgrade, Calm

\* The steps that look, and the CASes that fail.
LEMMA LookStepsBalance ==
    ASSUME BalanceInv, TypeInv', NEW t \in Thread,
           \/ LoadAncestors(t) \/ LoadDescendants(t) \/ CasLockSpurious(t)
           \/ CheckOwner(t) \/ ClearOwner(t) \/ RestoreOwner(t) \/ CheckState(t)
           \/ ScanDone(t)
           \/ CasLock(t) /\ lockState[call[t].node] # 0
           \/ CasFree(t) /\ lockState[call[t].node] # 1
           \/ CasUpgrade(t) /\ lockState[call[t].node] # 0
    PROVE  BalanceInv'
<1>1. /\ Calm(pc[t])
      /\ pc[t] # "scanState" => found[t] = <<>>
      /\ UNCHANGED <<ancestorLockedCount, descendantLockedCount>>
  BY DEF LoadAncestors, LoadDescendants, CasLockSpurious, CheckOwner, ClearOwner, RestoreOwner,
     CheckState, ScanDone, CasLock, CasFree, CasUpgrade, nodeVars, Calm, BalanceInv, DutiesOK
<1>2. UNCHANGED lockState
  BY DEF LoadAncestors, LoadDescendants, CasLockSpurious, CheckOwner, ClearOwner, RestoreOwner,
     CheckState, ScanDone, CasLock, CasFree, CasUpgrade, nodeVars
<1>3. CASE CasLockSpurious(t)
  <2>1. Alone(t) /\ pc' = pc /\ found' = found /\ pc[t] # "scanState"
    BY <1>3 DEF CasLockSpurious, threadVars, Alone
  <2> QED BY <1>1, <1>2, <2>1, CalmBalances
<1>4. CASE ScanDone(t)
  BY <1>1, <1>2, <1>4, LooksBalance DEF ScanDone, Calm
<1>5. CASE \/ LoadAncestors(t) \/ LoadDescendants(t) \/ CheckOwner(t) \/ ClearOwner(t)
           \/ RestoreOwner(t) \/ CheckState(t)
           \/ CasLock(t) /\ lockState[call[t].node] # 0
           \/ CasFree(t) /\ lockState[call[t].node] # 1
           \/ CasUpgrade(t) /\ lockState[call[t].node] # 0
  <2>1. pc[t] # "scanState"
    BY <1>5 DEF LoadAncestors, LoadDescendants, CheckOwner, ClearOwner, RestoreOwner,
       CheckState, CasLock, CasFree, CasUpgrade
  <2>2. \/ ReturnFalse(t)
        \/ \E l \in {"loadDescendants", "cas", "clearOwner", "casFree", "checkAncestors",
                     "restoreOwner"} : Proceed(t, l)
    BY <1>5 DEF LoadAncestors, LoadDescendants, CheckOwner, ClearOwner, RestoreOwner,
       CheckState, CasLock, CasFree, CasUpgrade
  <2> QED BY <1>1, <1>2, <2>1, <2>2, LooksBalance DEF Calm
<1> QED BY <1>3, <1>4, <1>5

\* The scan of upgradeLock.
LEMMA ScanBalances ==
    ASSUME BalanceInv, TypeInv', NEW t \in Thread,
           CheckAncestors(t) \/ ScanState(t) \/ ScanOwner(t)
    PROVE  BalanceInv'
<1>1. /\ Calm(pc[t]) /\ UNCHANGED <<lockState, ancestorLockedCount, descendantLockedCount>>
      /\ TypeInv
  BY DEF CheckAncestors, ScanState, ScanOwner, nodeVars, Calm, BalanceInv
<1>2. CASE ReturnFalse(t)
  BY <1>1, <1>2, LooksBalance
<1>3. CASE ~ReturnFalse(t)
  <2>1. Alone(t) /\ pc'[t] \in {"scanState", "scanOwner"}
    BY <1>1, <1>3
       DEF CheckAncestors, ScanState, ScanOwner, Proceed, Dequeue, Goto, Alone, TypeInv, ThreadTypes
  <2> QED BY <1>1, <2>1, CalmBalances DEF Calm
<1> QED BY <1>2, <1>3

\* The re-validation keeps the duty to add.
LEMMA RecheckBalances ==
    ASSUME BalanceInv, TypeInv', NEW t \in Thread,
           RecheckAncestors(t) \/ RecheckDescendants(t)
    PROVE  BalanceInv'
<1>1. /\ TypeInv /\ UNCHANGED <<lockState, ancestorLockedCount, descendantLockedCount>>
      /\ pc[t] \in {"recheckAncestors", "recheckDescendants"} /\ found[t] = <<>>
      /\ \E l \in {"recheckDescendants", "rollback", "setOwner"} : Proceed(t, l)
  BY DEF RecheckAncestors, RecheckDescendants, nodeVars, BalanceInv, DutiesOK
<1>2. /\ Alone(t) /\ pc'[t] \in {"recheckDescendants", "rollback", "setOwner"}
      /\ UNCHANGED <<call, cursor, work, found>>
  BY <1>1, ProceedAlone
<1>3. Unreported(t) /\ Unreported(t)' /\ DutiesOK(t)'
  BY <1>1, <1>2 DEF Unreported, DutiesOK
<1> QED BY <1>1, <1>2, <1>3, DutiesAre, DutiesAreNext, QuietBalances

\* The CAS of lock and the CAS of upgradeLock: the node is locked, and its
\* thread has to add it everywhere.
LEMMA TakeBalances ==
    ASSUME BalanceInv, TypeInv', NEW t \in Thread,
           CasLock(t) \/ CasUpgrade(t), lockState[call[t].node] = 0
    PROVE  BalanceInv'
<1>0. PICK n \in Node : n = call[t].node
  BY RunningCall DEF CasLock, CasUpgrade, BalanceInv
<1>1. /\ TypeInv /\ UNCHANGED <<ancestorLockedCount, descendantLockedCount>>
      /\ Calm(pc[t]) /\ found[t] = <<>>
      /\ lockState' = [lockState EXCEPT ![n] = 1]
      /\ \E l \in {"recheckAncestors", "setOwner"} : Proceed(t, l)
  BY <1>0 DEF CasLock, CasUpgrade, BalanceInv, DutiesOK, Calm
<1>2. /\ Alone(t) /\ pc'[t] \in {"recheckAncestors", "setOwner"}
      /\ UNCHANGED <<call, cursor, work, found>>
  BY <1>1, ProceedAlone
<1>3. Unreported(t)' /\ DutiesOK(t)'
  BY <1>1, <1>2 DEF Unreported, DutiesOK
<1>4. /\ LockedAbove[n] = {} /\ LockedAbove'[n] = Above[n]
      /\ LockedBelow[n] = {} /\ LockedBelow'[n] = Below[n]
      /\ \A m \in Node \ {n} : lockState'[m] = lockState[m]
  BY <1>0, <1>1 DEF LockedAbove, LockedBelow, TypeInv, NodeTypes
<1>5. /\ AddAbove[t] = {} /\ TakeAbove[t] = {} /\ AddBelow[t] = {} /\ TakeBelow[t] = {}
      /\ AddAbove'[t] = Above[n] /\ TakeAbove'[t] = {}
      /\ AddBelow'[t] = Below[n] /\ TakeBelow'[t] = {}
  BY <1>0, <1>1, <1>2, <1>3, CalmDuties, DutiesAreNext
<1>6. /\ descendantLockedCount \in [Node -> Int] /\ ancestorLockedCount \in [Node -> Int]
  BY <1>1 DEF TypeInv, NodeTypes
<1>7. /\ \A x \in Node :
            descendantLockedCount'[x] + In(x, AddAbove'[t]) - In(x, AddAbove[t]) =
            descendantLockedCount[x] + In(x, LockedAbove'[n]) - In(x, LockedAbove[n])
               + In(x, TakeAbove'[t]) - In(x, TakeAbove[t])
      /\ \A x \in Node :
            ancestorLockedCount'[x] + In(x, AddBelow'[t]) - In(x, AddBelow[t]) =
            ancestorLockedCount[x] + In(x, LockedBelow'[n]) - In(x, LockedBelow[n])
               + In(x, TakeBelow'[t]) - In(x, TakeBelow[t])
  BY <1>1, <1>4, <1>5, <1>6 DEF In
<1> QED BY <1>2, <1>3, <1>4, <1>7, StepBalances

\* The rollback: the node is free again and there is nothing left to add.
LEMMA RollbackBalances ==
    ASSUME BalanceInv, TypeInv', NEW t \in Thread, Rollback(t), lockState[call[t].node] = 1
    PROVE  BalanceInv'
<1>0. PICK n \in Node : n = call[t].node
  BY RunningCall DEF Rollback, BalanceInv
<1>1. /\ TypeInv /\ UNCHANGED <<ancestorLockedCount, descendantLockedCount>>
      /\ Unreported(t) /\ ReturnFalse(t)
      /\ lockState' = [lockState EXCEPT ![n] = 0]
  BY <1>0 DEF Rollback, BalanceInv, Unreported
<1>2. Alone(t) /\ pc'[t] = "idle" /\ found'[t] = <<>>
  BY <1>1, ReturnFalseAlone
<1>3. Calm(pc'[t]) /\ DutiesOK(t)'
  BY <1>2 DEF Calm, DutiesOK
<1>4. /\ LockedAbove[n] = Above[n] /\ LockedAbove'[n] = {}
      /\ LockedBelow[n] = Below[n] /\ LockedBelow'[n] = {}
      /\ \A m \in Node \ {n} : lockState'[m] = lockState[m]
  BY <1>0, <1>1 DEF LockedAbove, LockedBelow, TypeInv, NodeTypes
<1>5. /\ AddAbove[t] = Above[n] /\ TakeAbove[t] = {} /\ AddBelow[t] = Below[n] /\ TakeBelow[t] = {}
      /\ AddAbove'[t] = {} /\ TakeAbove'[t] = {} /\ AddBelow'[t] = {} /\ TakeBelow'[t] = {}
  BY <1>0, <1>1, <1>3, CalmDuties, DutiesAre
<1>6. /\ descendantLockedCount \in [Node -> Int] /\ ancestorLockedCount \in [Node -> Int]
  BY <1>1 DEF TypeInv, NodeTypes
<1>7. /\ \A x \in Node :
            descendantLockedCount'[x] + In(x, AddAbove'[t]) - In(x, AddAbove[t]) =
            descendantLockedCount[x] + In(x, LockedAbove'[n]) - In(x, LockedAbove[n])
               + In(x, TakeAbove'[t]) - In(x, TakeAbove[t])
      /\ \A x \in Node :
            ancestorLockedCount'[x] + In(x, AddBelow'[t]) - In(x, AddBelow[t]) =
            ancestorLockedCount[x] + In(x, LockedBelow'[n]) - In(x, LockedBelow[n])
               + In(x, TakeBelow'[t]) - In(x, TakeBelow[t])
  BY <1>1, <1>4, <1>5, <1>6 DEF In
<1> QED BY <1>2, <1>3, <1>4, <1>7, StepBalances

\* The arithmetic of a step that turns locked n into free n and a duty to take.
LEMMA FreeBalances ==
    ASSUME BalanceInv, TypeInv', NEW t \in Thread, NEW n \in Node, Alone(t), DutiesOK(t)',
           UNCHANGED <<ancestorLockedCount, descendantLockedCount>>,
           Calm(pc[t]), lockState[n] = 1, lockState' = [lockState EXCEPT ![n] = 0],
           AddAbove'[t] = {}, AddBelow'[t] = {},
           TakeAbove'[t] = Above[n], TakeBelow'[t] = Below[n]
    PROVE  BalanceInv'
<1>1. TypeInv
  BY DEF BalanceInv
<1>2. /\ LockedAbove[n] = Above[n] /\ LockedAbove'[n] = {}
      /\ LockedBelow[n] = Below[n] /\ LockedBelow'[n] = {}
      /\ \A m \in Node \ {n} : lockState'[m] = lockState[m]
  BY <1>1 DEF LockedAbove, LockedBelow, TypeInv, NodeTypes
<1>3. AddAbove[t] = {} /\ TakeAbove[t] = {} /\ AddBelow[t] = {} /\ TakeBelow[t] = {}
  BY CalmDuties
<1>4. descendantLockedCount \in [Node -> Int] /\ ancestorLockedCount \in [Node -> Int]
  BY <1>1 DEF TypeInv, NodeTypes
<1>5. /\ \A x \in Node :
            descendantLockedCount'[x] + In(x, AddAbove'[t]) - In(x, AddAbove[t]) =
            descendantLockedCount[x] + In(x, LockedAbove'[n]) - In(x, LockedAbove[n])
               + In(x, TakeAbove'[t]) - In(x, TakeAbove[t])
      /\ \A x \in Node :
            ancestorLockedCount'[x] + In(x, AddBelow'[t]) - In(x, AddBelow[t]) =
            ancestorLockedCount[x] + In(x, LockedBelow'[n]) - In(x, LockedBelow[n])
               + In(x, TakeBelow'[t]) - In(x, TakeBelow[t])
  BY <1>2, <1>3, <1>4 DEF In
<1> QED BY <1>2, <1>5, StepBalances

\* The CAS of unlock.
LEMMA CasFreeBalances ==
    ASSUME BalanceInv, TypeInv', NEW t \in Thread, CasFree(t), lockState[call[t].node] = 1
    PROVE  BalanceInv'
<1>0. PICK n \in Node : n = call[t].node
  BY RunningCall DEF CasFree, BalanceInv
<1>1. /\ TypeInv /\ UNCHANGED <<ancestorLockedCount, descendantLockedCount>>
      /\ Calm(pc[t]) /\ found[t] = <<>> /\ call[t].op = "unlock"
      /\ lockState' = [lockState EXCEPT ![n] = 0] /\ StartInform(t, n)
  BY <1>0 DEF CasFree, BalanceInv, DutiesOK, Calm, TypeInv, ControlOK, FitsOp, UnlockLabels
<1>2. Alone(t) /\ pc'[t] = "inform" /\ UNCHANGED <<call, found>>
  BY <1>1, StartInformAlone
<1>3. /\ PendingAbove(t)' = Above[n] /\ PendingBelow(t)' = Below[n] /\ Apart(work[t])'
  BY <1>1, PropagationStarts
<1>4. Delta(t)' = -1 /\ Reported(t)' = n
  BY <1>0, <1>1, <1>2 DEF Delta, Reported
<1>5. DutiesOK(t)'
  BY <1>2, <1>3, <1>4 DEF DutiesOK
<1>6. /\ AddAbove'[t] = {} /\ AddBelow'[t] = {}
      /\ TakeAbove'[t] = Above[n] /\ TakeBelow'[t] = Below[n]
  BY <1>2, <1>3, <1>4, DutiesAreNext
<1> QED BY <1>0, <1>1, <1>2, <1>5, <1>6, FreeBalances

\* The store by which upgradeLock frees a node it has found.
LEMMA FreeStateBalances ==
    ASSUME BalanceInv, TypeInv', NEW t \in Thread, FreeState(t), lockState[Head(found[t])] = 1
    PROVE  BalanceInv'
<1>0. PICK n \in Node : n = Head(found[t])
  BY HeadTailProperties DEF FreeState, BalanceInv, TypeInv, ThreadTypes, ControlOK
<1>1. /\ TypeInv /\ UNCHANGED <<ancestorLockedCount, descendantLockedCount>>
      /\ Calm(pc[t]) /\ Proceed(t, "freeOwner")
      /\ lockState' = [lockState EXCEPT ![n] = 0]
  BY <1>0 DEF FreeState, BalanceInv, Calm
<1>2. Alone(t) /\ pc'[t] = "freeOwner" /\ UNCHANGED <<call, cursor, work, found>>
  BY <1>1, ProceedAlone
<1>3. DutiesOK(t)'
  BY <1>2 DEF DutiesOK
<1>4. /\ AddAbove'[t] = {} /\ AddBelow'[t] = {}
      /\ TakeAbove'[t] = Above[n] /\ TakeBelow'[t] = Below[n]
  BY <1>0, <1>2, DutiesAreNext
<1> QED BY <1>0, <1>1, <1>2, <1>3, <1>4, FreeBalances

\* The owner is written or cleared, and the propagation begins: all the nodes
\* around are still to inform.
LEMMA OwnerBalances ==
    ASSUME BalanceInv, TypeInv', NEW t \in Thread, SetOwner(t) \/ FreeOwner(t)
    PROVE  BalanceInv'
<1>0. PICK n \in Node : n = IF pc[t] = "setOwner" THEN call[t].node ELSE Head(found[t])
  BY RunningCall, HeadTailProperties
     DEF SetOwner, FreeOwner, BalanceInv, TypeInv, ThreadTypes, ControlOK
<1>1. /\ TypeInv /\ StartInform(t, n)
      /\ UNCHANGED <<lockState, ancestorLockedCount, descendantLockedCount>>
      /\ \/ pc[t] = "setOwner" /\ found[t] = <<>> /\ call[t].op # "unlock" /\ n = call[t].node
         \/ pc[t] = "freeOwner" /\ found[t] # <<>> /\ n = Head(found[t])
  BY <1>0 DEF SetOwner, FreeOwner, BalanceInv, DutiesOK, TypeInv, ControlOK, FitsOp
<1>2. Alone(t) /\ pc'[t] = "inform" /\ UNCHANGED <<call, found>>
  BY <1>1, StartInformAlone
<1>3. /\ PendingAbove(t)' = Above[n] /\ PendingBelow(t)' = Below[n] /\ Apart(work[t])'
  BY <1>1, PropagationStarts
<1>4. Reported(t)' = n /\ Delta(t)' = IF pc[t] = "setOwner" THEN 1 ELSE -1
  BY <1>1, <1>2 DEF Delta, Reported
<1>5. DutiesOK(t)'
  BY <1>2, <1>3, <1>4 DEF DutiesOK
<1>6. CASE pc[t] = "setOwner"
  <2>1. Unreported(t)
    BY <1>6 DEF Unreported
  <2>2. /\ AddAbove[t] = Above[n] /\ AddBelow[t] = Below[n]
        /\ TakeAbove[t] = {} /\ TakeBelow[t] = {}
    BY <1>1, <1>6, <2>1, DutiesAre
  <2>3. /\ AddAbove'[t] = Above[n] /\ AddBelow'[t] = Below[n]
        /\ TakeAbove'[t] = {} /\ TakeBelow'[t] = {}
    BY <1>2, <1>3, <1>4, <1>6, DutiesAreNext
  <2> QED BY <1>1, <1>2, <1>5, <2>2, <2>3, QuietBalances
<1>7. CASE pc[t] = "freeOwner"
  <2>1. /\ AddAbove[t] = {} /\ AddBelow[t] = {}
        /\ TakeAbove[t] = Above[n] /\ TakeBelow[t] = Below[n]
    BY <1>1, <1>7, DutiesAre
  <2>2. /\ AddAbove'[t] = {} /\ AddBelow'[t] = {}
        /\ TakeAbove'[t] = Above[n] /\ TakeBelow'[t] = Below[n]
    BY <1>2, <1>3, <1>4, <1>7, DutiesAreNext
  <2> QED BY <1>1, <1>2, <1>5, <2>1, <2>2, QuietBalances
<1> QED BY <1>1, <1>6, <1>7

LEMMA DeltaIs == ASSUME NEW t PROVE Delta(t) = 1 \/ Delta(t) = -1
  BY DEF Delta

\* An ancestor is informed, and it alone.
LEMMA InformAncestorBalances ==
    ASSUME BalanceInv, TypeInv', NEW t \in Thread, InformAncestor(t)
    PROVE  BalanceInv'
<1>1. /\ TypeInv /\ pc[t] = "inform" /\ pc'[t] = "inform"
      /\ UNCHANGED <<lockState, ancestorLockedCount, call, found, work, pc>>
      /\ descendantLockedCount' = [descendantLockedCount EXCEPT ![cursor[t]] = @ + Delta(t)]
  BY DEF InformAncestor, BalanceInv
<1>2. PICK c \in Node :
         /\ c = cursor[t] /\ c \in PendingAbove(t)
         /\ PendingAbove(t)' = PendingAbove(t) \ {c} /\ PendingBelow(t)' = PendingBelow(t)
  BY <1>1, CursorClimbs
<1>3. Alone(t)
  BY <1>1 DEF InformAncestor, Alone, TypeInv, ThreadTypes
<1>4. Delta(t)' = Delta(t) /\ Reported(t)' = Reported(t)
  BY <1>1 DEF Delta, Reported
<1>5. DutiesOK(t) /\ DutiesOK(t)'
  BY <1>1, <1>2, <1>4 DEF BalanceInv, DutiesOK, Apart
<1>6. PICK n \in Node : n = call[t].node
  BY <1>1, RunningCall
<1>7. LockedAbove'[n] = LockedAbove[n] /\ LockedBelow'[n] = LockedBelow[n]
  BY <1>1 DEF LockedAbove, LockedBelow
<1>8. /\ AddAbove[t] = IF Delta(t) = 1 THEN PendingAbove(t) ELSE {}
      /\ TakeAbove[t] = IF Delta(t) = -1 THEN PendingAbove(t) ELSE {}
      /\ AddAbove'[t] = IF Delta(t) = 1 THEN PendingAbove(t) \ {c} ELSE {}
      /\ TakeAbove'[t] = IF Delta(t) = -1 THEN PendingAbove(t) \ {c} ELSE {}
      /\ AddBelow'[t] = AddBelow[t] /\ TakeBelow'[t] = TakeBelow[t]
  <2>1. /\ AddAbove[t] = IF Delta(t) = 1 THEN PendingAbove(t) ELSE {}
        /\ AddBelow[t] = IF Delta(t) = 1 THEN PendingBelow(t) ELSE {}
        /\ TakeAbove[t] = IF Delta(t) = -1 THEN PendingAbove(t) ELSE {}
        /\ TakeBelow[t] = IF Delta(t) = -1 THEN PendingBelow(t) ELSE {}
    BY <1>1, DutiesAre
  <2>2. /\ AddAbove'[t] = IF Delta(t)' = 1 THEN PendingAbove(t)' ELSE {}
        /\ AddBelow'[t] = IF Delta(t)' = 1 THEN PendingBelow(t)' ELSE {}
        /\ TakeAbove'[t] = IF Delta(t)' = -1 THEN PendingAbove(t)' ELSE {}
        /\ TakeBelow'[t] = IF Delta(t)' = -1 THEN PendingBelow(t)' ELSE {}
    BY <1>1, DutiesAreNext
  <2> QED BY <1>2, <1>4, <2>1, <2>2
<1>9. descendantLockedCount \in [Node -> Int] /\ ancestorLockedCount \in [Node -> Int]
  BY <1>1 DEF TypeInv, NodeTypes
<1>10. ASSUME NEW x \in Node
       PROVE  descendantLockedCount'[x] + In(x, AddAbove'[t]) - In(x, AddAbove[t]) =
              descendantLockedCount[x] + In(x, LockedAbove'[n]) - In(x, LockedAbove[n])
                 + In(x, TakeAbove'[t]) - In(x, TakeAbove[t])
  <2>1. CASE Delta(t) = 1
    BY <1>1, <1>2, <1>7, <1>8, <1>9, <2>1 DEF In
  <2>2. CASE Delta(t) = -1
    BY <1>1, <1>2, <1>7, <1>8, <1>9, <2>2 DEF In
  <2> QED BY <2>1, <2>2, DeltaIs
<1>11. \A x \in Node :
          ancestorLockedCount'[x] + In(x, AddBelow'[t]) - In(x, AddBelow[t]) =
          ancestorLockedCount[x] + In(x, LockedBelow'[n]) - In(x, LockedBelow[n])
             + In(x, TakeBelow'[t]) - In(x, TakeBelow[t])
  BY <1>1, <1>7, <1>8, <1>9 DEF In
<1> QED BY <1>1, <1>3, <1>5, <1>10, <1>11, StepBalances

\* A descendant is informed, and it alone.
LEMMA InformDescendantBalances ==
    ASSUME BalanceInv, TypeInv', NEW t \in Thread, InformDescendant(t)
    PROVE  BalanceInv'
<1>1. /\ TypeInv /\ pc[t] = "inform" /\ pc'[t] = "inform"
      /\ UNCHANGED <<lockState, descendantLockedCount, call, found, cursor, pc>>
      /\ ancestorLockedCount' = [ancestorLockedCount EXCEPT ![Head(work[t])] = @ + Delta(t)]
  BY DEF InformDescendant, BalanceInv
<1>2. /\ Apart(work[t]) /\ PendingAbove(t) \subseteq Above[Reported(t)]
      /\ PendingBelow(t) \subseteq Below[Reported(t)]
  BY <1>1 DEF BalanceInv, DutiesOK
<1>3. PICK c \in Node :
         /\ c = Head(work[t]) /\ c \in PendingBelow(t)
         /\ PendingBelow(t)' = PendingBelow(t) \ {c} /\ PendingAbove(t)' = PendingAbove(t)
         /\ Apart(work'[t])
  BY <1>1, <1>2, WorklistShrinks
<1>4. Alone(t)
  BY <1>1 DEF InformDescendant, Alone, TypeInv, ThreadTypes
<1>5. Delta(t)' = Delta(t) /\ Reported(t)' = Reported(t)
  BY <1>1 DEF Delta, Reported
<1>6. DutiesOK(t)'
  BY <1>1, <1>2, <1>3, <1>5 DEF DutiesOK, Apart
<1>7. PICK n \in Node : n = call[t].node
  BY <1>1, RunningCall
<1>8. LockedAbove'[n] = LockedAbove[n] /\ LockedBelow'[n] = LockedBelow[n]
  BY <1>1 DEF LockedAbove, LockedBelow
<1>9. /\ AddBelow[t] = IF Delta(t) = 1 THEN PendingBelow(t) ELSE {}
      /\ TakeBelow[t] = IF Delta(t) = -1 THEN PendingBelow(t) ELSE {}
      /\ AddBelow'[t] = IF Delta(t) = 1 THEN PendingBelow(t) \ {c} ELSE {}
      /\ TakeBelow'[t] = IF Delta(t) = -1 THEN PendingBelow(t) \ {c} ELSE {}
      /\ AddAbove'[t] = AddAbove[t] /\ TakeAbove'[t] = TakeAbove[t]
  <2>1. /\ AddAbove[t] = IF Delta(t) = 1 THEN PendingAbove(t) ELSE {}
        /\ AddBelow[t] = IF Delta(t) = 1 THEN PendingBelow(t) ELSE {}
        /\ TakeAbove[t] = IF Delta(t) = -1 THEN PendingAbove(t) ELSE {}
        /\ TakeBelow[t] = IF Delta(t) = -1 THEN PendingBelow(t) ELSE {}
    BY <1>1, DutiesAre
  <2>2. /\ AddAbove'[t] = IF Delta(t)' = 1 THEN PendingAbove(t)' ELSE {}
        /\ AddBelow'[t] = IF Delta(t)' = 1 THEN PendingBelow(t)' ELSE {}
        /\ TakeAbove'[t] = IF Delta(t)' = -1 THEN PendingAbove(t)' ELSE {}
        /\ TakeBelow'[t] = IF Delta(t)' = -1 THEN PendingBelow(t)' ELSE {}
    BY <1>1, DutiesAreNext
  <2> QED BY <1>3, <1>5, <2>1, <2>2
<1>10. descendantLockedCount \in [Node -> Int] /\ ancestorLockedCount \in [Node -> Int]
  BY <1>1 DEF TypeInv, NodeTypes
<1>11. ASSUME NEW x \in Node
       PROVE  ancestorLockedCount'[x] + In(x, AddBelow'[t]) - In(x, AddBelow[t]) =
              ancestorLockedCount[x] + In(x, LockedBelow'[n]) - In(x, LockedBelow[n])
                 + In(x, TakeBelow'[t]) - In(x, TakeBelow[t])
  <2>1. CASE Delta(t) = 1
    BY <1>1, <1>3, <1>8, <1>9, <1>10, <2>1 DEF In
  <2>2. CASE Delta(t) = -1
    BY <1>1, <1>3, <1>8, <1>9, <1>10, <2>2 DEF In
  <2> QED BY <2>1, <2>2, DeltaIs
<1>12. \A x \in Node :
          descendantLockedCount'[x] + In(x, AddAbove'[t]) - In(x, AddAbove[t]) =
          descendantLockedCount[x] + In(x, LockedAbove'[n]) - In(x, LockedAbove[n])
             + In(x, TakeAbove'[t]) - In(x, TakeAbove[t])
  BY <1>1, <1>8, <1>9, <1>10 DEF In
<1> QED BY <1>1, <1>4, <1>6, <1>11, <1>12, StepBalances

\* Nobody is left to inform.
LEMMA InformDoneBalances ==
    ASSUME BalanceInv, TypeInv', NEW t \in Thread, InformDone(t)
    PROVE  BalanceInv'
<1>1. /\ TypeInv /\ pc[t] = "inform" /\ cursor[t] = NoNode /\ work[t] = <<>>
      /\ UNCHANGED <<lockState, ancestorLockedCount, descendantLockedCount, cursor, work>>
  BY DEF InformDone, nodeVars, BalanceInv
<1>2. PendingAbove(t) = {} /\ PendingBelow(t) = {}
  BY <1>1 DEF PendingAbove, PendingBelow
<1>3. AddAbove[t] = {} /\ AddBelow[t] = {} /\ TakeAbove[t] = {} /\ TakeBelow[t] = {}
  BY <1>1, <1>2, DutiesAre
<1>4. /\ Alone(t) /\ Calm(pc'[t])
      /\ found'[t] = <<>> \/ pc'[t] = "freeState"
  <2>1. CASE found[t] # <<>>
    <3>1. /\ found' = [found EXCEPT ![t] = Tail(found[t])] /\ UNCHANGED <<call, held>>
          /\ Goto(t, IF Len(found[t]) = 1 THEN "casUpgrade" ELSE "freeState")
      BY <2>1 DEF InformDone
    <3>2. found[t] \in Seq(Node)
      BY <1>1 DEF TypeInv, ThreadTypes
    <3>3. Len(found[t]) = 1 => Tail(found[t]) = <<>>
      <4>1. Tail(found[t]) \in Seq(Node) /\ Len(Tail(found[t])) = Len(found[t]) - 1
        BY <2>1, <3>2, HeadTailProperties
      <4> DEFINE r == Tail(found[t])
      <4> HIDE DEF r
      <4>2. r \in Seq(Node) /\ (Len(found[t]) = 1 => Len(r) = 0)
        BY <4>1 DEF r
      <4>3. r # <<>> => Len(r) \in Nat \ {0}
        BY <4>2, EmptySeq
      <4> QED BY <4>2, <4>3 DEF r
    <3> QED BY <1>1, <3>1, <3>3 DEF Goto, Alone, Calm, TypeInv, ThreadTypes
  <2>2. CASE found[t] = <<>>
    <3>1. found' = found /\ \E h : Return(t, h)
      BY <2>2 DEF InformDone
    <3> QED BY <1>1, <2>2, <3>1 DEF Return, Goto, Alone, Calm, TypeInv, ThreadTypes
  <2> QED BY <2>1, <2>2
<1>5. DutiesOK(t)'
  BY <1>4 DEF DutiesOK, Calm
<1> QED BY <1>1, <1>3, <1>4, <1>5, CalmDuties, QuietBalances

LEMMA BalanceStutter ==
    ASSUME BalanceInv, TypeInv', UNCHANGED vars
    PROVE  BalanceInv'
<1>1. /\ UNCHANGED <<lockState, ancestorLockedCount, descendantLockedCount>>
      /\ UNCHANGED <<pc, call, cursor, work, found>>
  BY DEF vars, nodeVars, threadVars
<1>2. \A t \in Thread :
         /\ PendingAbove(t)' = PendingAbove(t) /\ PendingBelow(t)' = PendingBelow(t)
         /\ Reported(t)' = Reported(t) /\ Delta(t)' = Delta(t)
         /\ Unreported(t)' <=> Unreported(t)
  BY <1>1 DEF PendingAbove, PendingBelow, Reported, Delta, Unreported
<1>3. \A t \in Thread : DutiesOK(t)'
  BY <1>1, <1>2 DEF BalanceInv, DutiesOK, Apart
<1>4. /\ AddAbove' = AddAbove /\ AddBelow' = AddBelow
      /\ TakeAbove' = TakeAbove /\ TakeBelow' = TakeBelow
  BY <1>1, <1>2 DEF AddAbove, AddBelow, TakeAbove, TakeBelow, ToAdd, ToTake
<1>5. LockedAbove' = LockedAbove /\ LockedBelow' = LockedBelow
  BY <1>1 DEF LockedAbove, LockedBelow
<1>6. CountsBalanced'
  BY <1>1, <1>4, <1>5, BalanceIs, BalanceIsNext DEF BalanceInv
<1> QED BY <1>3, <1>6 DEF BalanceInv

LEMMA BalanceInit == Init => BalanceInv
<1> SUFFICES ASSUME Init PROVE BalanceInv
  OBVIOUS
<1>1. TypeInv
  BY TypeInit
<1>2. \A t \in Thread : DutiesOK(t)
  BY DEF Init, DutiesOK
<1>3. \A t \in Thread : Calm(pc[t])
  BY DEF Init, Calm
<1>4. /\ \A t \in Thread : /\ AddAbove[t] = {} /\ AddBelow[t] = {}
                           /\ TakeAbove[t] = {} /\ TakeBelow[t] = {}
      /\ \A n \in Node : LockedAbove[n] = {} /\ LockedBelow[n] = {}
  BY <1>3, CalmDuties DEF Init, LockedAbove, LockedBelow
<1>5. \A x \in Node :
         /\ CountIn(Thread, AddAbove, x) = 0 /\ CountIn(Thread, AddBelow, x) = 0
         /\ CountIn(Thread, TakeAbove, x) = 0 /\ CountIn(Thread, TakeBelow, x) = 0
         /\ CountIn(Node, LockedAbove, x) = 0 /\ CountIn(Node, LockedBelow, x) = 0
  <2> TAKE x \in Node
  <2>1. /\ {t \in Thread : x \in AddAbove[t]} = {} /\ {t \in Thread : x \in AddBelow[t]} = {}
        /\ {t \in Thread : x \in TakeAbove[t]} = {} /\ {t \in Thread : x \in TakeBelow[t]} = {}
        /\ {n \in Node : x \in LockedAbove[n]} = {} /\ {n \in Node : x \in LockedBelow[n]} = {}
    BY <1>4
  <2> QED BY <2>1, FS_EmptySet DEF CountIn
<1>6. CountsBalanced
  BY <1>5, BalanceIs DEF Balanced, Init
<1> QED BY <1>1, <1>2, <1>6 DEF BalanceInv

LEMMA BalanceNext ==
    ASSUME BalanceInv, StoresFreeLocked, [Next]_vars
    PROVE  BalanceInv'
<1>1. TypeInv'
  BY TypeNext DEF BalanceInv
<1>2. CASE UNCHANGED vars
  BY <1>1, <1>2, BalanceStutter
<1>3. ASSUME NEW t \in Thread, Call(t) \/ Step(t) PROVE BalanceInv'
  <2>1. \A n \in Node : lockState[n] \in {0, 1}
    BY DEF BalanceInv, TypeInv, NodeTypes
  <2>2. pc[t] # "idle" => call[t].node \in Node
    BY DEF BalanceInv, TypeInv, ControlOK
  <2>3. CASE Rollback(t)
    BY <1>1, <2>3, RollbackBalances DEF Rollback, StoresFreeLocked
  <2>4. CASE FreeState(t)
    BY <1>1, <2>4, FreeStateBalances DEF FreeState, StoresFreeLocked
  <2>5. CASE CasLock(t)
    BY <1>1, <2>5, LookStepsBalance, TakeBalances
  <2>6. CASE CasUpgrade(t)
    BY <1>1, <2>6, LookStepsBalance, TakeBalances
  <2>7. CASE CasFree(t)
    BY <1>1, <2>7, LookStepsBalance, CasFreeBalances
  <2>8. CASE \/ LoadAncestors(t) \/ LoadDescendants(t) \/ CasLockSpurious(t)
             \/ CheckOwner(t) \/ ClearOwner(t) \/ RestoreOwner(t) \/ CheckState(t)
             \/ ScanDone(t)
    BY <1>1, <2>8, LookStepsBalance
  <2>9. CASE CheckAncestors(t) \/ ScanState(t) \/ ScanOwner(t)
    BY <1>1, <2>9, ScanBalances
  <2>10. CASE RecheckAncestors(t) \/ RecheckDescendants(t)
    BY <1>1, <2>10, RecheckBalances
  <2>11. CASE SetOwner(t) \/ FreeOwner(t)
    BY <1>1, <2>11, OwnerBalances
  <2>12. CASE InformAncestor(t) \/ InformDescendant(t) \/ InformDone(t)
    BY <1>1, <2>12, InformAncestorBalances, InformDescendantBalances, InformDoneBalances
  <2>13. CASE Call(t)
    BY <1>1, <2>13, CallBalances
  <2> QED BY <1>3, <2>3, <2>4, <2>5, <2>6, <2>7, <2>8, <2>9, <2>10, <2>11, <2>12, <2>13 DEF Step
<1> QED BY <1>2, <1>3 DEF Next

\* Whatever calls the threads make: the counters and lockState differ by the
\* calls half done and nothing else, as long as no plain store of 0 into
\* lockState hits a node that is free already.
THEOREM BalancedWhileStoresFreeLocked == Spec /\ []StoresFreeLocked => []CountsBalanced
<1>1. BalanceInv => CountsBalanced
  BY DEF BalanceInv
<1> QED BY <1>1, BalanceInit, BalanceNext, PTL DEF Spec

\* With no call running nobody has a duty left, and the counters are exact.
LEMMA BalancedIsExact == CountsBalanced /\ TypeInv => QuiescentExact
<1> SUFFICES ASSUME CountsBalanced, TypeInv, AllIdle, NEW n \in Node
             PROVE  /\ descendantLockedCount[n] = Cardinality({d \in Below[n] : lockState[d] = 1})
                    /\ ancestorLockedCount[n] = Cardinality({a \in Above[n] : lockState[a] = 1})
  BY DEF QuiescentExact
<1>1. /\ {t \in Thread : n \in ToAdd(t, Above, PendingAbove(t))} = {}
      /\ {t \in Thread : n \in ToTake(t, Above, PendingAbove(t))} = {}
      /\ {t \in Thread : n \in ToAdd(t, Below, PendingBelow(t))} = {}
      /\ {t \in Thread : n \in ToTake(t, Below, PendingBelow(t))} = {}
  BY DEF AllIdle, ToAdd, ToTake, Unreported
<1>2. Cardinality({}) = 0
  BY FS_EmptySet
<1>3. descendantLockedCount[n] \in Int /\ ancestorLockedCount[n] \in Int
  BY DEF TypeInv, NodeTypes
<1>4. /\ Cardinality({d \in Below[n] : lockState[d] = 1}) \in Nat
      /\ Cardinality({a \in Above[n] : lockState[a] = 1}) \in Nat
  <2>1. /\ {d \in Below[n] : lockState[d] = 1} \in SUBSET Node
        /\ {a \in Above[n] : lockState[a] = 1} \in SUBSET Node
    BY BelowIs, AboveFacts
  <2> QED BY <2>1, TreeAssumption, FS_Subset, FS_CardinalityType
<1>5. /\ descendantLockedCount[n]
              + Cardinality({t \in Thread : n \in ToAdd(t, Above, PendingAbove(t))})
         = Cardinality({d \in Below[n] : lockState[d] = 1})
              + Cardinality({t \in Thread : n \in ToTake(t, Above, PendingAbove(t))})
      /\ ancestorLockedCount[n]
              + Cardinality({t \in Thread : n \in ToAdd(t, Below, PendingBelow(t))})
         = Cardinality({a \in Above[n] : lockState[a] = 1})
              + Cardinality({t \in Thread : n \in ToTake(t, Below, PendingBelow(t))})
  BY DEF CountsBalanced
<1>6. /\ descendantLockedCount[n] + 0 = Cardinality({d \in Below[n] : lockState[d] = 1}) + 0
      /\ ancestorLockedCount[n] + 0 = Cardinality({a \in Above[n] : lockState[a] = 1}) + 0
  BY <1>1, <1>2, <1>5
<1> QED BY <1>3, <1>4, <1>6
-----------------------------------------------------------------------------
\* Callers that lock nodes none of which lies above another, and never call
\* upgradeLock, but share users and unlock what they do not hold.

ApartTargets ==
    /\ UpgradeTargets = {}
    /\ \A a, b \in LockTargets : a \notin Above[b]

\* Only lock targets are ever locked or reported, so nobody ever informs a lock
\* target and no lock() is rolled back.
TargetOK(t) ==
    /\ call[t].op # "upgrade" /\ pc[t] # "rollback"
    /\ call[t].op = "lock" \/ pc[t] = "inform" => call[t].node \in LockTargets

ApartInv ==
    /\ BalanceInv
    /\ \A n \in Node : lockState[n] = 1 => n \in LockTargets
    /\ \A t \in Thread : TargetOK(t)

LEMMA TargetCountersZero ==
    ASSUME ApartTargets, ApartInv, NEW n \in LockTargets
    PROVE  descendantLockedCount[n] = 0 /\ ancestorLockedCount[n] = 0
<1>1. n \in Node /\ LockTargets \subseteq Node /\ TypeInv
  BY CallerAssumption DEF ApartInv, BalanceInv
<1>2. \A m \in LockTargets : n \notin Above[m] /\ n \notin Below[m]
  <2> TAKE m \in LockTargets
  <2>1. m \in Node /\ n \notin Above[m] /\ m \notin Above[n]
    BY <1>1 DEF ApartTargets
  <2> QED BY <2>1, BelowIs
<1>3. \A m \in Node : n \notin LockedAbove[m] /\ n \notin LockedBelow[m]
  BY <1>2 DEF ApartInv, LockedAbove, LockedBelow
<1>4. ASSUME NEW t \in Thread
      PROVE  /\ n \notin AddAbove[t] /\ n \notin AddBelow[t]
             /\ n \notin TakeAbove[t] /\ n \notin TakeBelow[t]
  <2>1. found[t] = <<>> /\ pc[t] # "freeOwner" /\ Reported(t) = call[t].node
    BY <1>1 DEF ApartInv, TargetOK, TypeInv, ControlOK, FitsOp, UpgradeLabels, Reported
  <2>2. CASE Unreported(t)
    <3>1. call[t].node \in LockTargets
      BY <1>1, <2>2
         DEF Unreported, ApartInv, TargetOK, TypeInv, ControlOK, FitsOp, LockLabels
    <3> QED BY <1>2, <2>2, <3>1, DutiesAre
  <2>3. CASE pc[t] = "inform"
    <3>1. call[t].node \in LockTargets
      BY <2>3 DEF ApartInv, TargetOK
    <3>2. PendingAbove(t) \subseteq Above[call[t].node] /\ PendingBelow(t) \subseteq Below[call[t].node]
      BY <2>1, <2>3 DEF ApartInv, BalanceInv, DutiesOK
    <3> QED BY <1>2, <2>3, <3>1, <3>2, DutiesAre
  <2>4. CASE ~Unreported(t) /\ pc[t] # "inform"
    BY <2>1, <2>4, CalmDuties DEF Calm, Unreported
  <2> QED BY <2>2, <2>3, <2>4
<1>5. /\ CountIn(Thread, AddAbove, n) = 0 /\ CountIn(Thread, AddBelow, n) = 0
      /\ CountIn(Thread, TakeAbove, n) = 0 /\ CountIn(Thread, TakeBelow, n) = 0
      /\ CountIn(Node, LockedAbove, n) = 0 /\ CountIn(Node, LockedBelow, n) = 0
  <2>1. /\ {t \in Thread : n \in AddAbove[t]} = {} /\ {t \in Thread : n \in AddBelow[t]} = {}
        /\ {t \in Thread : n \in TakeAbove[t]} = {} /\ {t \in Thread : n \in TakeBelow[t]} = {}
        /\ {m \in Node : n \in LockedAbove[m]} = {} /\ {m \in Node : n \in LockedBelow[m]} = {}
    BY <1>3, <1>4
  <2> QED BY <2>1, FS_EmptySet DEF CountIn
<1>6. descendantLockedCount[n] + 0 = 0 + 0 /\ ancestorLockedCount[n] + 0 = 0 + 0
  BY <1>1, <1>5, BalanceIs DEF ApartInv, BalanceInv, Balanced
<1>7. descendantLockedCount[n] \in Int /\ ancestorLockedCount[n] \in Int
  BY <1>1 DEF TypeInv, NodeTypes
<1> QED BY <1>6, <1>7

\* A step of t that keeps t itself in order.
LEMMA ApartStep ==
    ASSUME ApartInv, BalanceInv', NEW t \in Thread, TargetOK(t)',
           \A s \in Thread \ {t} : pc'[s] = pc[s] /\ call'[s] = call[s],
           \A n \in Node : lockState'[n] = 1 => n \in LockTargets
    PROVE  ApartInv'
<1>1. \A s \in Thread \ {t} : TargetOK(s)'
  BY DEF ApartInv, TargetOK
<1> QED BY <1>1 DEF ApartInv

LEMMA ApartNext ==
    ASSUME ApartTargets, ApartInv, [Next]_vars
    PROVE  ApartInv'
<1>0. TypeInv
  BY DEF ApartInv, BalanceInv
<1>1. StoresFreeLocked
  BY <1>0 DEF ApartInv, TargetOK, StoresFreeLocked, TypeInv, ControlOK, FitsOp, UpgradeLabels
<1>2. BalanceInv'
  BY <1>1, BalanceNext DEF ApartInv
<1>3. CASE UNCHANGED vars
  <2>1. UNCHANGED <<lockState, pc, call>>
    BY <1>3 DEF vars, nodeVars, threadVars
  <2> QED BY <1>2, <2>1 DEF ApartInv, TargetOK
<1>4. ASSUME NEW t \in Thread, Call(t) \/ Step(t) PROVE ApartInv'
  <2>0. /\ TargetOK(t) /\ found[t] = <<>> /\ pc[t] \notin UpgradeLabels
        /\ \A n \in Node : lockState[n] = 1 => n \in LockTargets
        /\ lockState \in [Node -> {0, 1}]
    BY <1>0 DEF ApartInv, TargetOK, TypeInv, ControlOK, FitsOp, NodeTypes
  <2>1. ASSUME NEW l, l # "inform", Proceed(t, l), l # "rollback", UNCHANGED lockState
        PROVE  ApartInv'
    <3>1. pc'[t] = l /\ call' = call /\ Alone(t)
      BY <1>0, <2>1, ProceedAlone
    <3> QED BY <1>2, <2>0, <2>1, <3>1, ApartStep DEF TargetOK, Alone
  <2>2. ASSUME NEW h, Return(t, h), UNCHANGED lockState PROVE ApartInv'
    <3>1. /\ pc'[t] = "idle" /\ call'[t] = NoCall
          /\ \A s \in Thread \ {t} : pc'[s] = pc[s] /\ call'[s] = call[s]
      BY <1>0, <2>2 DEF Return, Goto, TypeInv, ThreadTypes
    <3> QED BY <1>2, <2>0, <2>2, <3>1, ApartStep DEF TargetOK, NoCall
  <2>3. ASSUME NEW n, StartInform(t, n), UNCHANGED lockState, call[t].node \in LockTargets
        PROVE  ApartInv'
    <3>1. pc'[t] = "inform" /\ call' = call /\ Alone(t)
      BY <1>0, <2>3, StartInformAlone
    <3> QED BY <1>2, <2>0, <2>3, <3>1, ApartStep DEF TargetOK, Alone
  <2>4. CASE Call(t)
    <3>1. ASSUME NEW op, NEW n, NEW u, NEW l, Begin(t, op, n, u, l), op # "upgrade",
                 l \notin {"rollback", "inform"}, op = "lock" => n \in LockTargets
          PROVE  ApartInv'
      <4>1. /\ pc'[t] = l /\ call'[t] = [op |-> op, node |-> n, user |-> u] /\ UNCHANGED lockState
            /\ \A s \in Thread \ {t} : pc'[s] = pc[s] /\ call'[s] = call[s]
        BY <1>0, <3>1 DEF Begin, Goto, nodeVars, TypeInv, ThreadTypes
      <4> QED BY <1>2, <2>0, <3>1, <4>1, ApartStep DEF TargetOK
    <3>2. ASSUME NEW u, NEW n, CallLock(t, n, u), n \in LockTargets PROVE ApartInv'
      <4>1. Begin(t, "lock", n, u, "loadAncestors")
        BY <3>2 DEF CallLock
      <4> QED BY <3>1, <3>2, <4>1
    <3>3. ASSUME NEW u, NEW n, CallUnlock(t, n, u) PROVE ApartInv'
      <4>1. Begin(t, "unlock", n, u, "checkOwner")
        BY <3>3 DEF CallUnlock
      <4> QED BY <3>1, <4>1
    <3> QED BY <2>4, <3>2, <3>3 DEF Call, ApartTargets
  <2>5. CASE \/ LoadAncestors(t) \/ LoadDescendants(t)
             \/ CheckOwner(t) \/ ClearOwner(t) \/ RestoreOwner(t)
    <3>1. /\ UNCHANGED lockState
          /\ ReturnFalse(t) \/ \E l \in {"loadDescendants", "cas", "clearOwner", "casFree"} : Proceed(t, l)
      BY <2>5 DEF LoadAncestors, LoadDescendants, CheckOwner, ClearOwner, RestoreOwner, nodeVars
    <3> QED BY <2>1, <2>2, <3>1 DEF ReturnFalse
  <2>6. CASE CasLock(t)
    <3>1. CASE ReturnFalse(t) /\ UNCHANGED lockState
      BY <2>2, <3>1 DEF ReturnFalse
    <3>2. CASE ~(ReturnFalse(t) /\ UNCHANGED lockState)
      <4>1. /\ lockState' = [lockState EXCEPT ![call[t].node] = 1] /\ pc[t] = "cas"
            /\ Proceed(t, "recheckAncestors")
        BY <2>6, <3>2 DEF CasLock
      <4>2. pc'[t] = "recheckAncestors" /\ call' = call /\ Alone(t)
        BY <1>0, <4>1, ProceedAlone
      <4>3. call[t].node \in LockTargets
        BY <1>0, <2>0, <4>1 DEF TargetOK, TypeInv, ControlOK, FitsOp, LockLabels
      <4> QED BY <1>2, <2>0, <4>1, <4>2, <4>3, ApartStep DEF TargetOK, Alone
    <3> QED BY <3>1, <3>2
  <2>7. CASE CasLockSpurious(t)
    <3>1. UNCHANGED <<lockState, pc, call>>
      BY <2>7 DEF CasLockSpurious, nodeVars, threadVars
    <3> QED BY <1>2, <3>1 DEF ApartInv, TargetOK
  \* The re-validation reads two counters of a target: both are 0.
  <2>8. CASE RecheckAncestors(t) \/ RecheckDescendants(t)
    <3>1. call[t].node \in LockTargets /\ UNCHANGED lockState
      BY <1>0, <2>0, <2>8
         DEF RecheckAncestors, RecheckDescendants, nodeVars, TargetOK, TypeInv, ControlOK,
             FitsOp, LockLabels
    <3>2. descendantLockedCount[call[t].node] = 0 /\ ancestorLockedCount[call[t].node] = 0
      BY <3>1, TargetCountersZero
    <3>3. \E l \in {"recheckDescendants", "setOwner"} : Proceed(t, l)
      BY <2>8, <3>2 DEF RecheckAncestors, RecheckDescendants
    <3> QED BY <2>1, <3>1, <3>3
  <2>9. CASE SetOwner(t)
    <3>1. call[t].node \in LockTargets
      BY <1>0, <2>0, <2>9 DEF SetOwner, TargetOK, TypeInv, ControlOK, FitsOp
    <3> QED BY <2>3, <2>9, <3>1 DEF SetOwner
  <2>10. CASE InformAncestor(t) \/ InformDescendant(t)
    <3>1. UNCHANGED <<lockState, pc, call>>
      BY <2>10 DEF InformAncestor, InformDescendant
    <3> QED BY <1>2, <3>1 DEF ApartInv, TargetOK
  <2>11. CASE InformDone(t)
    <3>1. UNCHANGED lockState /\ \E h : Return(t, h)
      BY <2>0, <2>11 DEF InformDone, nodeVars
    <3> QED BY <2>2, <3>1
  <2>12. CASE CasFree(t)
    <3>1. CASE lockState[call[t].node] # 1
      BY <2>1, <2>12, <3>1 DEF CasFree
    <3>2. CASE lockState[call[t].node] = 1
      <4>1. /\ lockState' = [lockState EXCEPT ![call[t].node] = 0]
            /\ StartInform(t, call[t].node) /\ pc[t] = "casFree"
        BY <2>12, <3>2 DEF CasFree
      <4>2. pc'[t] = "inform" /\ call' = call /\ Alone(t)
        BY <1>0, <4>1, StartInformAlone
      <4>3. call[t].node \in LockTargets
        BY <1>0, <2>0, <3>2, <4>1, RunningCall
      <4> QED BY <1>2, <2>0, <4>1, <4>2, <4>3, ApartStep DEF TargetOK, Alone
    <3> QED BY <3>1, <3>2
  <2>13. CASE \/ Rollback(t) \/ CheckState(t) \/ CheckAncestors(t) \/ ScanState(t) \/ ScanOwner(t)
              \/ ScanDone(t) \/ FreeState(t) \/ FreeOwner(t) \/ CasUpgrade(t)
    BY <2>0, <2>13
       DEF Rollback, CheckState, CheckAncestors, ScanState, ScanOwner, ScanDone, FreeState,
           FreeOwner, CasUpgrade, TargetOK, UpgradeLabels
  <2> QED BY <1>4, <2>4, <2>5, <2>6, <2>7, <2>8, <2>9, <2>10, <2>11, <2>12, <2>13 DEF Step
<1> QED BY <1>3, <1>4 DEF Next

LEMMA ApartInit == Init => ApartInv
<1> SUFFICES ASSUME Init PROVE ApartInv
  OBVIOUS
<1>1. \A t \in Thread : TargetOK(t)
  BY DEF Init, TargetOK, NoCall
<1> QED BY <1>1, BalanceInit DEF ApartInv, Init

\* Callers that share users, repeat unlocks and unlock nodes they do not hold:
\* each counter is off by the calls half done, and by nothing else, as long as no
\* lock target lies above another and nobody upgrades.
THEOREM ApartTargetsBalanced == ASSUME ApartTargets PROVE Spec => []CountsBalanced
<1>1. ApartInv => CountsBalanced
  BY DEF ApartInv, BalanceInv
<1> QED BY <1>1, ApartInit, ApartNext, PTL DEF Spec

\* For the same callers the counters are exact whenever no call is running.
THEOREM ApartTargetsExact == ASSUME ApartTargets PROVE Spec => []QuiescentExact
<1>1. ApartInv => QuiescentExact
  BY BalancedIsExact DEF ApartInv, BalanceInv
<1> QED BY <1>1, ApartInit, ApartNext, PTL DEF Spec

\* For the same callers the re-validation of lock() never fails: it gives no node
\* back, whatever races it runs into. The program, which locks gateways only, never
\* comes to the code that does.
THEOREM ApartTargetsNeverRollBack ==
    ASSUME ApartTargets PROVE Spec => [](\A t \in Thread : pc[t] # "rollback")
<1>1. ApartInv => \A t \in Thread : pc[t] # "rollback"
  BY DEF ApartInv, TargetOK
<1> QED BY <1>1, ApartInit, ApartNext, PTL DEF Spec
-----------------------------------------------------------------------------
\* Threads that act for users of their own: they may lock and upgrade any nodes,
\* and unlock nodes they do not hold.

DisjointUsers == \A s, t \in Thread : s # t => UsersOf[s] \cap UsersOf[t] = {}

\* Nobody but t may change lockState of n: t has set it and not yet written the
\* owner, t is about to clear it, n records a user of t, or t has found it for
\* an upgrade and not yet freed it.
Claim(t, n) ==
    \/ call[t].node = n /\ (Unreported(t) \/ pc[t] \in {"clearOwner", "casFree"})
    \/ lockedBy[n] \in UsersOf[t] /\ ~(pc[t] = "freeOwner" /\ n = Head(found[t]))
    \/ \E i \in 1 .. Len(found[t]) : found[t][i] = n /\ (pc[t] \in {"freeOwner", "inform"} => i # 1)

\* No unlock() finds the node it has checked freed; a node is found once, and not
\* among those the scan has still to look at.
ClaimOK(t) ==
    /\ pc[t] # "restoreOwner"
    /\ Unreported(t) \/ pc[t] = "casFree" => lockedBy[call[t].node] \notin UsersOf[t]
    /\ \A i, j \in 1 .. Len(found[t]) : found[t][i] = found[t][j] => i = j
    /\ pc[t] \in {"scanState", "scanOwner"} =>
          /\ Apart(work[t])
          /\ \A i \in 1 .. Len(found[t]) : found[t][i] \notin Reach(work[t])

ClaimInv ==
    /\ BalanceInv
    /\ \A t \in Thread : ClaimOK(t)
    /\ \A t \in Thread, n \in Node :
          Claim(t, n) => lockState[n] = 1 /\ \A s \in Thread : Claim(s, n) => s = t

LEMMA NoUserIsNobodys == ASSUME NEW t \in Thread PROVE NoUser \notin UsersOf[t]
  BY CallerAssumption

\* The plain stores hit nodes their threads have a claim to.
LEMMA ClaimedStores == ASSUME ClaimInv PROVE StoresFreeLocked
<1> SUFFICES ASSUME NEW t \in Thread
             PROVE  /\ pc[t] = "rollback" => lockState[call[t].node] = 1
                    /\ pc[t] = "freeState" => lockState[Head(found[t])] = 1
  BY DEF StoresFreeLocked
<1>0. TypeInv
  BY DEF ClaimInv, BalanceInv
<1>1. CASE pc[t] = "rollback"
  <2>1. call[t].node \in Node /\ Claim(t, call[t].node)
    BY <1>0, <1>1, RunningCall DEF Claim, Unreported
  <2> QED BY <1>1, <2>1 DEF ClaimInv
<1>2. CASE pc[t] = "freeState"
  <2>1. found[t] \in Seq(Node) /\ found[t] # <<>>
    BY <1>0, <1>2 DEF TypeInv, ThreadTypes, ControlOK
  <2>2. Head(found[t]) \in Node /\ 1 \in 1 .. Len(found[t]) /\ Head(found[t]) = found[t][1]
    BY <2>1, HeadTailProperties, EmptySeq, LenProperties
  <2>3. Claim(t, Head(found[t]))
    BY <1>2, <2>2 DEF Claim
  <2> QED BY <1>2, <2>2, <2>3 DEF ClaimInv
<1> QED BY <1>1, <1>2

\* The claims of the other threads survive a step of t that writes at most node
\* n, and there no user of theirs.
LEMMA OthersKeepClaims ==
    ASSUME DisjointUsers, ClaimInv, NEW t \in Thread, NEW n \in Node, Alone(t),
           \A m \in Node \ {n} : lockedBy'[m] = lockedBy[m],
           lockedBy'[n] = lockedBy[n] \/ lockedBy'[n] \in UsersOf[t] \cup {NoUser},
           NEW s \in Thread \ {t}
    PROVE  /\ \A m \in Node : Claim(s, m)' => Claim(s, m)
           /\ ClaimOK(s)'
<1>1. /\ pc'[s] = pc[s] /\ call'[s] = call[s] /\ work'[s] = work[s] /\ found'[s] = found[s]
      /\ Unreported(s)' <=> Unreported(s)
  BY DEF Alone, Unreported
<1>2. \A m \in Node : lockedBy'[m] \in UsersOf[s] => lockedBy'[m] = lockedBy[m]
  BY NoUserIsNobodys DEF DisjointUsers
<1>3. \A m \in Node : Claim(s, m)' => Claim(s, m)
  BY <1>1, <1>2 DEF Claim
<1>4. Unreported(s) \/ pc[s] = "casFree" => call[s].node \in Node
  BY RunningCall DEF Unreported, ClaimInv, BalanceInv
<1>5. ClaimOK(s)
  BY DEF ClaimInv
<1>6. ClaimOK(s)'
  BY <1>1, <1>2, <1>4, <1>5 DEF ClaimOK, Apart, Reach
<1> QED BY <1>3, <1>6

\* A step of t that gives t no new claim, except to a node it takes, and frees
\* at most a node it gives up its claim to.
LEMMA ClaimStep ==
    ASSUME DisjointUsers, ClaimInv, BalanceInv', NEW t \in Thread, NEW n \in Node,
           Alone(t), ClaimOK(t)',
           \A m \in Node \ {n} : lockState'[m] = lockState[m] /\ lockedBy'[m] = lockedBy[m],
           lockedBy'[n] = lockedBy[n] \/ lockedBy'[n] \in UsersOf[t] \cup {NoUser},
           \A m \in Node \ {n} : Claim(t, m)' => Claim(t, m),
           \/ lockState'[n] = lockState[n] /\ (Claim(t, n)' => Claim(t, n))
           \/ Claim(t, n) /\ ~Claim(t, n)'
           \/ lockState[n] = 0 /\ lockState'[n] = 1
    PROVE  ClaimInv'
<1>1. \A s \in Thread \ {t} : /\ \A m \in Node : Claim(s, m)' => Claim(s, m)
                              /\ ClaimOK(s)'
  BY OthersKeepClaims
<1>2. \A s \in Thread : ClaimOK(s)'
  BY <1>1
<1>3. \A s \in Thread, m \in Node :
         Claim(s, m) => lockState[m] = 1 /\ \A r \in Thread : Claim(r, m) => r = s
  BY DEF ClaimInv
<1>4. ASSUME NEW s \in Thread, NEW m \in Node, Claim(s, m)'
      PROVE  lockState'[m] = 1 /\ \A r \in Thread : Claim(r, m)' => r = s
  <2>1. CASE m # n
    BY <1>1, <1>3, <1>4, <2>1
  <2>2. CASE m = n
    BY <1>1, <1>3, <1>4, <2>2
  <2> QED BY <2>1, <2>2
<1> QED BY <1>2, <1>4 DEF ClaimInv

\* A step after which t has found nothing and is where no claim comes from.
LEMMA QuietClaims ==
    ASSUME DisjointUsers, ClaimInv, BalanceInv', NEW t \in Thread, NEW n \in Node, Alone(t),
           UNCHANGED <<lockState, lockedBy>>, found'[t] = <<>>, pc[t] # "freeOwner",
           pc'[t] \in {"idle", "loadAncestors", "loadDescendants", "cas", "checkOwner",
                       "checkState", "checkAncestors", "casUpgrade", "inform"}
    PROVE  ClaimInv'
<1>1. \A m \in Node : Claim(t, m)' => Claim(t, m)
  BY DEF Claim, Unreported
<1>2. ClaimOK(t)'
  BY DEF ClaimOK, Unreported
<1> QED BY <1>1, <1>2, ClaimStep

\* Calls begin, look and are refused without a claim.
LEMMA CallClaims ==
    ASSUME DisjointUsers, ClaimInv, BalanceInv', NEW t \in Thread, Call(t)
    PROVE  ClaimInv'
<1>0. TypeInv /\ LockTargets \subseteq Node /\ UpgradeTargets \subseteq Node
  BY CallerAssumption DEF ClaimInv, BalanceInv
<1>1. ASSUME NEW op, NEW n \in Node, NEW u, NEW l \in {"loadAncestors", "checkOwner", "checkState"},
             Begin(t, op, n, u, l)
      PROVE  ClaimInv'
  <2>1. pc[t] = "idle" /\ found[t] = <<>>
    BY <1>1 DEF Begin, ClaimInv, BalanceInv, DutiesOK
  <2>2. Alone(t) /\ pc'[t] = l /\ found'[t] = found[t] /\ UNCHANGED <<lockState, lockedBy>>
    BY <1>0, <1>1 DEF Begin, Goto, Alone, nodeVars, TypeInv, ThreadTypes
  <2> QED BY <2>1, <2>2, QuietClaims
<1>2. ASSUME NEW u, NEW n \in Node, CallLock(t, n, u) PROVE ClaimInv'
  <2>1. Begin(t, "lock", n, u, "loadAncestors")
    BY <1>2 DEF CallLock
  <2> QED BY <1>1, <2>1
<1>3. ASSUME NEW u, NEW n \in Node, CallUnlock(t, n, u) PROVE ClaimInv'
  <2>1. Begin(t, "unlock", n, u, "checkOwner")
    BY <1>3 DEF CallUnlock
  <2> QED BY <1>1, <2>1
<1>4. ASSUME NEW u, NEW n \in Node, CallUpgrade(t, n, u) PROVE ClaimInv'
  <2>1. Begin(t, "upgrade", n, u, "checkState")
    BY <1>4 DEF CallUpgrade
  <2> QED BY <1>1, <2>1
<1> QED BY <1>0, <1>2, <1>3, <1>4 DEF Call

LEMMA RefusedClaims ==
    ASSUME DisjointUsers, ClaimInv, BalanceInv', NEW t \in Thread, ReturnFalse(t),
           pc[t] # "freeOwner", pc[t] # "idle", UNCHANGED <<lockState, lockedBy>>
    PROVE  ClaimInv'
<1>1. TypeInv /\ call[t].node \in Node
  BY RunningCall DEF ClaimInv, BalanceInv
<1>2. Alone(t) /\ pc'[t] = "idle" /\ found'[t] = <<>>
  BY <1>1, ReturnFalseAlone
<1> QED BY <1>1, <1>2, QuietClaims

LEMMA LookClaims ==
    ASSUME DisjointUsers, ClaimInv, BalanceInv', NEW t \in Thread,
           LoadAncestors(t) \/ LoadDescendants(t) \/ CasLockSpurious(t) \/ CheckState(t)
    PROVE  ClaimInv'
<1>1. /\ TypeInv /\ call[t].node \in Node
      /\ pc[t] \in {"loadAncestors", "loadDescendants", "cas", "checkState"}
      /\ found[t] = <<>> /\ UNCHANGED <<lockState, lockedBy>>
  BY RunningCall
     DEF LoadAncestors, LoadDescendants, CasLockSpurious, CheckState, nodeVars, ClaimInv,
         BalanceInv, DutiesOK
<1>2. CASE ReturnFalse(t)
  BY <1>1, <1>2, RefusedClaims
<1>3. ASSUME NEW l \in {"loadDescendants", "cas", "checkAncestors"}, Proceed(t, l)
      PROVE  ClaimInv'
  <2>1. Alone(t) /\ pc'[t] = l /\ UNCHANGED found
    BY <1>1, <1>3, ProceedAlone
  <2> QED BY <1>1, <2>1, QuietClaims
<1>4. CASE CasLockSpurious(t)
  <2>1. Alone(t) /\ pc'[t] = "cas" /\ UNCHANGED found
    BY <1>4 DEF CasLockSpurious, threadVars, Alone
  <2> QED BY <1>1, <2>1, QuietClaims
<1> QED BY <1>2, <1>3, <1>4 DEF LoadAncestors, LoadDescendants, CheckState

\* The CASes that take a node.
LEMMA TakeClaims ==
    ASSUME DisjointUsers, ClaimInv, BalanceInv', NEW t \in Thread, CasLock(t) \/ CasUpgrade(t)
    PROVE  ClaimInv'
<1>0. PICK n \in Node : n = call[t].node
  BY RunningCall DEF CasLock, CasUpgrade, ClaimInv, BalanceInv
<1>1. /\ TypeInv /\ pc[t] \in {"cas", "casUpgrade"} /\ found[t] = <<>> /\ UNCHANGED lockedBy
  BY DEF CasLock, CasUpgrade, ClaimInv, BalanceInv, DutiesOK
<1>2. CASE ReturnFalse(t) /\ UNCHANGED lockState
  BY <1>1, <1>2, RefusedClaims
<1>3. CASE ~(ReturnFalse(t) /\ UNCHANGED lockState)
  <2>1. /\ lockState[n] = 0 /\ lockState' = [lockState EXCEPT ![n] = 1]
        /\ \E l \in {"recheckAncestors", "setOwner"} : Proceed(t, l)
    BY <1>0, <1>3 DEF CasLock, CasUpgrade
  <2>2. /\ Alone(t) /\ pc'[t] \in {"recheckAncestors", "setOwner"} /\ UNCHANGED <<call, found>>
        /\ lockState'[n] = 1 /\ \A m \in Node \ {n} : lockState'[m] = lockState[m]
    BY <1>1, <2>1, ProceedAlone DEF TypeInv, NodeTypes
  <2>3. lockedBy[n] \notin UsersOf[t]
    <3>1. ~Claim(t, n)
      BY <2>1 DEF ClaimInv
    <3> QED BY <1>1, <3>1 DEF Claim
  <2>4. ClaimOK(t)'
    BY <1>0, <1>1, <2>2, <2>3 DEF ClaimOK
  <2>5. \A m \in Node \ {n} : Claim(t, m)' => Claim(t, m)
    BY <1>0, <1>1, <2>2 DEF Claim
  <2> QED BY <1>1, <2>1, <2>2, <2>4, <2>5, ClaimStep
<1> QED BY <1>2, <1>3

LEMMA RecheckClaims ==
    ASSUME DisjointUsers, ClaimInv, BalanceInv', NEW t \in Thread,
           RecheckAncestors(t) \/ RecheckDescendants(t)
    PROVE  ClaimInv'
<1>1. /\ TypeInv /\ call[t].node \in Node /\ Unreported(t) /\ pc[t] # "freeOwner"
      /\ found[t] = <<>> /\ UNCHANGED <<lockState, lockedBy>>
      /\ \E l \in {"recheckDescendants", "rollback", "setOwner"} : Proceed(t, l)
  BY RunningCall
     DEF RecheckAncestors, RecheckDescendants, nodeVars, ClaimInv, BalanceInv, DutiesOK, Unreported
<1>2. /\ Alone(t) /\ pc'[t] \in {"recheckDescendants", "rollback", "setOwner"}
      /\ UNCHANGED <<call, found>>
  BY <1>1, ProceedAlone
<1>3. ClaimOK(t) /\ ClaimOK(t)'
  BY <1>1, <1>2 DEF ClaimInv, ClaimOK, Unreported
<1>4. \A m \in Node : Claim(t, m)' => Claim(t, m)
  BY <1>1, <1>2 DEF Claim, Unreported
<1> QED BY <1>1, <1>2, <1>3, <1>4, ClaimStep

\* The rollback gives the claim up with the node.
LEMMA RollbackClaims ==
    ASSUME DisjointUsers, ClaimInv, BalanceInv', NEW t \in Thread, Rollback(t)
    PROVE  ClaimInv'
<1>0. PICK n \in Node : n = call[t].node
  BY RunningCall DEF Rollback, ClaimInv, BalanceInv
<1>1. /\ TypeInv /\ Unreported(t) /\ pc[t] = "rollback" /\ UNCHANGED lockedBy /\ ReturnFalse(t)
      /\ lockState' = [lockState EXCEPT ![n] = 0] /\ lockedBy[n] \notin UsersOf[t]
  BY <1>0 DEF Rollback, ClaimInv, ClaimOK, BalanceInv, Unreported
<1>2. /\ Alone(t) /\ pc'[t] = "idle" /\ found'[t] = <<>>
      /\ \A m \in Node \ {n} : lockState'[m] = lockState[m]
  BY <1>1, ReturnFalseAlone DEF TypeInv, NodeTypes
<1>3. ClaimOK(t)'
  BY <1>2 DEF ClaimOK, Unreported
<1>4. Claim(t, n) /\ ~Claim(t, n)' /\ \A m \in Node : Claim(t, m)' => Claim(t, m)
  BY <1>0, <1>1, <1>2 DEF Claim, Unreported
<1> QED BY <1>1, <1>2, <1>3, <1>4, ClaimStep

\* The owner is written: the claim now rests on it.
LEMMA SetOwnerClaims ==
    ASSUME DisjointUsers, ClaimInv, BalanceInv', NEW t \in Thread, SetOwner(t)
    PROVE  ClaimInv'
<1>0. PICK n \in Node : n = call[t].node
  BY RunningCall DEF SetOwner, ClaimInv, BalanceInv
<1>1. /\ TypeInv /\ Unreported(t) /\ pc[t] = "setOwner" /\ found[t] = <<>> /\ UNCHANGED lockState
      /\ lockedBy' = [lockedBy EXCEPT ![n] = call[t].user] /\ call[t].user \in UsersOf[t]
      /\ StartInform(t, n)
  BY <1>0 DEF SetOwner, ClaimInv, BalanceInv, DutiesOK, Unreported, TypeInv, ControlOK
<1>2. /\ Alone(t) /\ pc'[t] = "inform" /\ UNCHANGED <<call, found>>
      /\ lockedBy'[n] = call[t].user /\ \A m \in Node \ {n} : lockedBy'[m] = lockedBy[m]
  BY <1>1, StartInformAlone DEF TypeInv, NodeTypes
<1>3. ClaimOK(t)'
  BY <1>1, <1>2 DEF ClaimOK, Unreported
<1>4. Claim(t, n)
  BY <1>0, <1>1 DEF Claim
<1>5. \A m \in Node \ {n} : Claim(t, m)' => Claim(t, m)
  BY <1>1, <1>2 DEF Claim, Unreported
<1> QED BY <1>1, <1>2, <1>3, <1>4, <1>5, ClaimStep

LEMMA InformClaims ==
    ASSUME DisjointUsers, ClaimInv, BalanceInv', NEW t \in Thread,
           InformAncestor(t) \/ InformDescendant(t)
    PROVE  ClaimInv'
<1>1. /\ TypeInv /\ call[t].node \in Node /\ pc[t] = "inform"
      /\ UNCHANGED <<lockState, lockedBy, pc, call, found>>
  BY RunningCall DEF InformAncestor, InformDescendant, ClaimInv, BalanceInv
<1>2. Alone(t)
  BY <1>1 DEF InformAncestor, InformDescendant, Alone, TypeInv, ThreadTypes
<1>3. ClaimOK(t) /\ ClaimOK(t)'
  BY <1>1 DEF ClaimInv, ClaimOK, Unreported
<1>4. \A m \in Node : Claim(t, m)' => Claim(t, m)
  BY <1>1 DEF Claim, Unreported
<1> QED BY <1>1, <1>2, <1>3, <1>4, ClaimStep

\* The claims to the nodes found and not yet freed stay.
LEMMA InformDoneClaims ==
    ASSUME DisjointUsers, ClaimInv, BalanceInv', NEW t \in Thread, InformDone(t)
    PROVE  ClaimInv'
<1>1. /\ TypeInv /\ call[t].node \in Node /\ pc[t] = "inform" /\ UNCHANGED <<lockState, lockedBy>>
      /\ UNCHANGED <<cursor, work>>
  BY RunningCall DEF InformDone, nodeVars, ClaimInv, BalanceInv
<1>2. CASE found[t] = <<>>
  <2>1. found' = found /\ \E h : Return(t, h)
    BY <1>2 DEF InformDone
  <2>2. Alone(t) /\ pc'[t] = "idle" /\ found'[t] = <<>>
    BY <1>1, <1>2, <2>1 DEF Return, Goto, Alone, TypeInv, ThreadTypes
  <2> QED BY <1>1, <2>2, QuietClaims
<1>3. CASE found[t] # <<>>
  <2>1. /\ found' = [found EXCEPT ![t] = Tail(found[t])] /\ UNCHANGED call
        /\ Goto(t, IF Len(found[t]) = 1 THEN "casUpgrade" ELSE "freeState")
    BY <1>3 DEF InformDone
  <2>2. Alone(t) /\ pc'[t] \in {"casUpgrade", "freeState"} /\ found'[t] = Tail(found[t])
    BY <1>1, <2>1 DEF Goto, Alone, TypeInv, ThreadTypes
  <2>3. /\ found[t] \in Seq(Node) /\ Tail(found[t]) \in Seq(Node)
        /\ Len(Tail(found[t])) = Len(found[t]) - 1 /\ Len(found[t]) \in Nat
        /\ \A i \in 1 .. Len(Tail(found[t])) : Tail(found[t])[i] = found[t][i + 1]
    BY <1>1, <1>3, HeadTailProperties, LenProperties DEF TypeInv, ThreadTypes
  <2>4. /\ Len(found'[t]) = Len(found[t]) - 1
        /\ \A i \in 1 .. Len(found'[t]) :
              /\ i + 1 \in 1 .. Len(found[t]) /\ i + 1 # 1
              /\ found'[t][i] = found[t][i + 1]
    BY <2>2, <2>3
  <2>5. ClaimOK(t)
    BY DEF ClaimInv
  <2>6. ClaimOK(t)'
    BY <2>2, <2>4, <2>5 DEF ClaimOK, Unreported
  <2>7. \A m \in Node : Claim(t, m)' => Claim(t, m)
    BY <1>1, <2>2, <2>4 DEF Claim, Unreported
  <2> QED BY <1>1, <2>2, <2>6, <2>7, ClaimStep
<1> QED BY <1>2, <1>3

\* unlock(): while its thread owns the node nobody else can free it, so the CAS
\* succeeds.
LEMMA UnlockClaims ==
    ASSUME DisjointUsers, ClaimInv, BalanceInv', NEW t \in Thread,
           CheckOwner(t) \/ ClearOwner(t) \/ CasFree(t) \/ RestoreOwner(t)
    PROVE  ClaimInv'
<1>0. PICK n \in Node : n = call[t].node
  BY RunningCall DEF CheckOwner, ClearOwner, CasFree, RestoreOwner, ClaimInv, BalanceInv
<1>1. /\ TypeInv /\ found[t] = <<>> /\ call[t].user \in UsersOf[t] /\ ClaimOK(t)
      /\ pc[t] \in {"checkOwner", "clearOwner", "casFree"}
  BY DEF CheckOwner, ClearOwner, CasFree, RestoreOwner, ClaimInv, BalanceInv, DutiesOK, TypeInv,
     ControlOK, ClaimOK
<1>2. CASE CheckOwner(t)
  <2>1. CASE lockedBy[n] # call[t].user
    BY <1>0, <1>1, <1>2, <2>1, RefusedClaims DEF CheckOwner, nodeVars
  <2>2. CASE lockedBy[n] = call[t].user
    <3>1. Proceed(t, "clearOwner") /\ pc[t] = "checkOwner" /\ UNCHANGED <<lockState, lockedBy>>
      BY <1>0, <1>2, <2>2 DEF CheckOwner, nodeVars
    <3>2. Alone(t) /\ pc'[t] = "clearOwner" /\ UNCHANGED <<call, found>>
      BY <1>1, <3>1, ProceedAlone
    <3>3. ClaimOK(t)'
      BY <1>1, <3>2 DEF ClaimOK, Unreported
    <3>4. \A m \in Node : Claim(t, m)' => Claim(t, m)
      BY <1>0, <1>1, <2>2, <3>1, <3>2 DEF Claim, Unreported
    <3> QED BY <3>1, <3>2, <3>3, <3>4, ClaimStep
  <2> QED BY <2>1, <2>2
<1>3. CASE ClearOwner(t)
  <2>1. /\ Proceed(t, "casFree") /\ pc[t] = "clearOwner" /\ UNCHANGED lockState
        /\ lockedBy' = [lockedBy EXCEPT ![n] = NoUser]
    BY <1>0, <1>3 DEF ClearOwner
  <2>2. /\ Alone(t) /\ pc'[t] = "casFree" /\ UNCHANGED <<call, found>>
        /\ lockedBy'[n] = NoUser /\ \A m \in Node \ {n} : lockedBy'[m] = lockedBy[m]
    BY <1>1, <2>1, ProceedAlone DEF TypeInv, NodeTypes
  <2>3. ClaimOK(t)'
    BY <1>0, <1>1, <2>2, NoUserIsNobodys DEF ClaimOK, Unreported
  <2>4. Claim(t, n) /\ \A m \in Node \ {n} : Claim(t, m)' => Claim(t, m)
    BY <1>0, <1>1, <2>1, <2>2 DEF Claim, Unreported
  <2> QED BY <2>1, <2>2, <2>3, <2>4, ClaimStep
<1>4. CASE CasFree(t)
  <2>1. Claim(t, n) /\ lockedBy[n] \notin UsersOf[t]
    BY <1>0, <1>1, <1>4 DEF CasFree, Claim, ClaimOK
  <2>2. /\ lockState[n] = 1 /\ UNCHANGED lockedBy /\ pc[t] = "casFree"
        /\ lockState' = [lockState EXCEPT ![n] = 0] /\ StartInform(t, n)
    BY <1>0, <1>4, <2>1 DEF CasFree, ClaimInv
  <2>3. /\ Alone(t) /\ pc'[t] = "inform" /\ UNCHANGED <<call, found>>
        /\ \A m \in Node \ {n} : lockState'[m] = lockState[m]
    BY <1>1, <2>2, StartInformAlone DEF TypeInv, NodeTypes
  <2>4. ClaimOK(t)'
    BY <1>1, <2>3 DEF ClaimOK, Unreported
  <2>5. ~Claim(t, n)' /\ \A m \in Node \ {n} : Claim(t, m)' => Claim(t, m)
    BY <1>0, <1>1, <2>1, <2>2, <2>3 DEF Claim, Unreported
  <2> QED BY <2>1, <2>2, <2>3, <2>4, <2>5, ClaimStep
<1> QED BY <1>1, <1>2, <1>3, <1>4 DEF RestoreOwner

\* The scan finds nodes that record a user of its thread, each of them once.
LEMMA ScanClaims ==
    ASSUME DisjointUsers, ClaimInv, BalanceInv', NEW t \in Thread,
           CheckAncestors(t) \/ ScanState(t) \/ ScanOwner(t) \/ ScanDone(t)
    PROVE  ClaimInv'
<1>0. PICK n \in Node : n = call[t].node
  BY RunningCall DEF CheckAncestors, ScanState, ScanOwner, ScanDone, ClaimInv, BalanceInv
<1>1. /\ TypeInv /\ ClaimOK(t) /\ UNCHANGED <<lockState, lockedBy>>
      /\ pc[t] \in {"checkAncestors", "scanState", "scanOwner"}
      /\ work[t] \in Seq(Node) /\ found[t] \in Seq(Node) /\ call[t].user \in UsersOf[t]
  BY DEF CheckAncestors, ScanState, ScanOwner, ScanDone, nodeVars, ClaimInv, BalanceInv,
     TypeInv, ThreadTypes, ControlOK
<1>2. CASE ReturnFalse(t)
  BY <1>1, <1>2, RefusedClaims
<1>3. ASSUME Alone(t), pc'[t] \in {"scanState", "scanOwner", "freeState"}, UNCHANGED <<call, found>>,
             pc'[t] # "freeState" =>
                Apart(work'[t]) /\ \A i \in 1 .. Len(found[t]) : found[t][i] \notin Reach(work'[t])
      PROVE  ClaimInv'
  <2>1. ClaimOK(t)'
    BY <1>1, <1>3 DEF ClaimOK, Unreported, Apart, Reach
  <2>2. \A m \in Node : Claim(t, m)' => Claim(t, m)
    BY <1>1, <1>3 DEF Claim, Unreported
  <2> QED BY <1>1, <1>3, <2>1, <2>2, ClaimStep
<1>4. CASE CheckAncestors(t) /\ ~ReturnFalse(t)
  <2>1. /\ Goto(t, "scanState") /\ work' = [work EXCEPT ![t] = Children[n]]
        /\ UNCHANGED <<call, cursor, found, held>> /\ pc[t] = "checkAncestors"
    BY <1>0, <1>4 DEF CheckAncestors
  <2>2. /\ Alone(t) /\ pc'[t] = "scanState" /\ work'[t] = Children[n]
    BY <1>1, <2>1 DEF Goto, Alone, TypeInv, ThreadTypes
  <2>3. found[t] = <<>>
    BY <2>1 DEF ClaimInv, BalanceInv, DutiesOK
  <2> QED BY <1>3, <2>1, <2>2, <2>3, ChildrenApart
<1>5. CASE ScanState(t)
  <2>1. pc[t] = "scanState" /\ work[t] # <<>>
    BY <1>5 DEF ScanState
  <2>2. Apart(work[t]) /\ \A i \in 1 .. Len(found[t]) : found[t][i] \notin Reach(work[t])
    BY <1>1, <2>1 DEF ClaimOK
  <2>3. CASE Proceed(t, "scanOwner")
    <3>1. Alone(t) /\ pc'[t] = "scanOwner" /\ UNCHANGED <<call, work, found>>
      BY <1>1, <2>3, ProceedAlone
    <3> QED BY <1>3, <2>2, <3>1
  <2>4. CASE Dequeue(t) /\ UNCHANGED <<pc, call, cursor, found, held>>
    <3>1. Alone(t) /\ work'[t] = Tail(work[t]) \o Children[Head(work[t])]
      BY <1>1, <2>4 DEF Dequeue, Alone, TypeInv, ThreadTypes
    <3>2. Apart(work'[t]) /\ Reach(work'[t]) = Reach(work[t]) \ {Head(work[t])}
      BY <1>1, <2>1, <2>2, <3>1, VisitHead
    <3> QED BY <1>3, <2>1, <2>2, <2>4, <3>1, <3>2
  <2> QED BY <1>5, <2>3, <2>4 DEF ScanState
<1>6. CASE ScanOwner(t) /\ ~ReturnFalse(t)
  <2>1. /\ pc[t] = "scanOwner" /\ lockedBy[Head(work[t])] = call[t].user
        /\ found' = [found EXCEPT ![t] = Append(found[t], Head(work[t]))]
        /\ Dequeue(t) /\ Goto(t, "scanState") /\ UNCHANGED <<call, cursor, held>>
    BY <1>6 DEF ScanOwner
  <2>2. /\ Alone(t) /\ pc'[t] = "scanState" /\ found'[t] = Append(found[t], Head(work[t]))
        /\ work'[t] = Tail(work[t]) \o Children[Head(work[t])]
    BY <1>1, <2>1 DEF Dequeue, Goto, Alone, TypeInv, ThreadTypes
  <2>3. /\ work[t] # <<>> /\ Apart(work[t])
        /\ \A i \in 1 .. Len(found[t]) : found[t][i] \notin Reach(work[t])
        /\ \A i, j \in 1 .. Len(found[t]) : found[t][i] = found[t][j] => i = j
    BY <1>1, <2>1 DEF ClaimOK, TypeInv, ControlOK
  <2>4. PICK h \in Node : h = Head(work[t])
    BY <1>1, <2>3, HeadTailProperties
  <2>5. h \in Reach(work[t]) /\ Apart(work'[t]) /\ Reach(work'[t]) = Reach(work[t]) \ {h}
    BY <1>1, <2>2, <2>3, <2>4, VisitHead
  <2>6. /\ Len(found[t]) \in Nat /\ Len(found'[t]) = Len(found[t]) + 1
        /\ \A i \in 1 .. Len(found'[t]) :
              \/ i \in 1 .. Len(found[t]) /\ found'[t][i] = found[t][i]
              \/ i = Len(found[t]) + 1 /\ found'[t][i] = h
    BY <1>1, <2>2, <2>4, AppendProperties, LenProperties
  <2>7. \A i \in 1 .. Len(found'[t]) : found'[t][i] \notin Reach(work'[t])
    BY <2>3, <2>5, <2>6
  <2>8. \A i, j \in 1 .. Len(found'[t]) : found'[t][i] = found'[t][j] => i = j
    BY <2>3, <2>5, <2>6
  <2>9. Apart(work[t])' /\ Reach(work[t])' = Reach(work'[t])
    BY <2>5 DEF Apart, Reach
  <2>10. ClaimOK(t)'
    BY <2>2, <2>7, <2>8, <2>9 DEF ClaimOK, Unreported
  <2>11. Claim(t, h)
    BY <1>1, <2>1, <2>4 DEF Claim
  <2>12. \A m \in Node : Claim(t, m)' => Claim(t, m)
    BY <1>1, <2>1, <2>2, <2>6, <2>11 DEF Claim, Unreported
  <2> QED BY <1>1, <2>2, <2>10, <2>12, ClaimStep
<1>7. CASE ScanDone(t) /\ ~ReturnFalse(t)
  <2>1. Alone(t) /\ pc'[t] = "freeState" /\ UNCHANGED <<call, found>>
    BY <1>1, <1>7, ProceedAlone DEF ScanDone
  <2> QED BY <1>3, <2>1
<1> QED BY <1>2, <1>4, <1>5, <1>6, <1>7

\* The release of a node found: the claim ends with the store that frees it,
\* before the owner is cleared.
LEMMA FreeStateClaims ==
    ASSUME DisjointUsers, ClaimInv, BalanceInv', NEW t \in Thread, FreeState(t)
    PROVE  ClaimInv'
<1>1. /\ TypeInv /\ ClaimOK(t) /\ UNCHANGED lockedBy /\ pc[t] = "freeState"
      /\ Proceed(t, "freeOwner") /\ found[t] \in Seq(Node) /\ found[t] # <<>>
  BY DEF FreeState, ClaimInv, BalanceInv, TypeInv, ThreadTypes, ControlOK
<1>2. PICK n \in Node : n = Head(found[t]) /\ 1 \in 1 .. Len(found[t]) /\ n = found[t][1]
  BY <1>1, HeadTailProperties, EmptySeq, LenProperties
<1>3. /\ lockState' = [lockState EXCEPT ![n] = 0]
      /\ \A m \in Node \ {n} : lockState'[m] = lockState[m]
  BY <1>1, <1>2 DEF FreeState, TypeInv, NodeTypes
<1>4. Alone(t) /\ pc'[t] = "freeOwner" /\ UNCHANGED <<call, found>>
  BY <1>1, ProceedAlone
<1>5. \A i \in 1 .. Len(found[t]) : found[t][i] = n => i = 1
  BY <1>1, <1>2 DEF ClaimOK
<1>6. ClaimOK(t)'
  BY <1>1, <1>4 DEF ClaimOK, Unreported
<1>7. Claim(t, n) /\ ~Claim(t, n)'
  BY <1>1, <1>2, <1>4, <1>5 DEF Claim, Unreported
<1>8. \A m \in Node : Claim(t, m)' => Claim(t, m)
  BY <1>1, <1>4 DEF Claim, Unreported
<1> QED BY <1>1, <1>3, <1>4, <1>6, <1>7, <1>8, ClaimStep

LEMMA FreeOwnerClaims ==
    ASSUME DisjointUsers, ClaimInv, BalanceInv', NEW t \in Thread, FreeOwner(t)
    PROVE  ClaimInv'
<1>1. /\ TypeInv /\ ClaimOK(t) /\ UNCHANGED lockState /\ pc[t] = "freeOwner"
      /\ found[t] \in Seq(Node) /\ found[t] # <<>>
  BY DEF FreeOwner, ClaimInv, BalanceInv, TypeInv, ThreadTypes, ControlOK
<1>2. PICK n \in Node : n = Head(found[t])
  BY <1>1, HeadTailProperties
<1>3. /\ StartInform(t, n) /\ lockedBy'[n] = NoUser
      /\ \A m \in Node \ {n} : lockedBy'[m] = lockedBy[m]
  BY <1>1, <1>2 DEF FreeOwner, TypeInv, NodeTypes
<1>4. Alone(t) /\ pc'[t] = "inform" /\ UNCHANGED <<call, found>>
  BY <1>1, <1>3, StartInformAlone
<1>5. ClaimOK(t)'
  BY <1>1, <1>4 DEF ClaimOK, Unreported
<1>6. \A m \in Node : Claim(t, m)' => Claim(t, m)
  BY <1>1, <1>2, <1>3, <1>4, NoUserIsNobodys DEF Claim, Unreported
<1> QED BY <1>1, <1>3, <1>4, <1>5, <1>6, ClaimStep

LEMMA ClaimInit == Init => ClaimInv
<1> SUFFICES ASSUME Init PROVE ClaimInv
  OBVIOUS
<1>1. BalanceInv
  BY BalanceInit
<1>2. ASSUME NEW t \in Thread PROVE ClaimOK(t) /\ \A n \in Node : ~Claim(t, n)
  <2>1. pc[t] = "idle" /\ found[t] = <<>> /\ \A n \in Node : lockedBy[n] = NoUser
    BY DEF Init
  <2> QED BY <2>1, NoUserIsNobodys DEF ClaimOK, Claim, Unreported
<1> QED BY <1>1, <1>2 DEF ClaimInv

LEMMA ClaimNext ==
    ASSUME DisjointUsers, ClaimInv, [Next]_vars
    PROVE  ClaimInv'
<1>1. BalanceInv'
  BY ClaimedStores, BalanceNext DEF ClaimInv
<1>2. CASE UNCHANGED vars
  <2>1. UNCHANGED <<lockState, lockedBy, pc, call, work, found>>
    BY <1>2 DEF vars, nodeVars, threadVars
  <2>2. \A t \in Thread : ClaimOK(t)' /\ \A n \in Node : Claim(t, n)' <=> Claim(t, n)
    BY <2>1 DEF ClaimInv, ClaimOK, Claim, Unreported, Apart, Reach
  <2> QED BY <1>1, <2>1, <2>2 DEF ClaimInv
<1>3. ASSUME NEW t \in Thread, Call(t) \/ Step(t) PROVE ClaimInv'
  <2>1. CASE Call(t)
    BY <1>1, <2>1, CallClaims
  <2>2. CASE LoadAncestors(t) \/ LoadDescendants(t) \/ CasLockSpurious(t) \/ CheckState(t)
    BY <1>1, <2>2, LookClaims
  <2>3. CASE CasLock(t) \/ CasUpgrade(t)
    BY <1>1, <2>3, TakeClaims
  <2>4. CASE RecheckAncestors(t) \/ RecheckDescendants(t)
    BY <1>1, <2>4, RecheckClaims
  <2>5. CASE Rollback(t) \/ SetOwner(t)
    BY <1>1, <2>5, RollbackClaims, SetOwnerClaims
  <2>6. CASE InformAncestor(t) \/ InformDescendant(t) \/ InformDone(t)
    BY <1>1, <2>6, InformClaims, InformDoneClaims
  <2>7. CASE CheckOwner(t) \/ ClearOwner(t) \/ CasFree(t) \/ RestoreOwner(t)
    BY <1>1, <2>7, UnlockClaims
  <2>8. CASE CheckAncestors(t) \/ ScanState(t) \/ ScanOwner(t) \/ ScanDone(t)
    BY <1>1, <2>8, ScanClaims
  <2>9. CASE FreeState(t) \/ FreeOwner(t)
    BY <1>1, <2>9, FreeStateClaims, FreeOwnerClaims
  <2> QED BY <1>3, <2>1, <2>2, <2>3, <2>4, <2>5, <2>6, <2>7, <2>8, <2>9 DEF Step
<1> QED BY <1>2, <1>3 DEF Next

\* A node reserved for a call is one its thread has a claim to.
LEMMA ClaimedUntilFreed == ASSUME ClaimInv PROVE OwnUntilFreed
<1> SUFFICES ASSUME NEW t \in Thread, NEW n \in Reserved(t)
             PROVE  /\ lockState[n] = 1
                    /\ \A s \in Thread \ {t} :
                          /\ n \notin Reserved(s)
                          /\ lockedBy[n] \in UsersOf[s] => pc[s] = "freeOwner" /\ n = Head(found[s])
  BY DEF OwnUntilFreed
<1>1. n \in Node /\ Claim(t, n)
  BY DEF Reserved, Claim
<1>2. lockState[n] = 1 /\ \A s \in Thread : Claim(s, n) => s = t
  BY <1>1 DEF ClaimInv
<1>3. ASSUME NEW s \in Thread \ {t}
      PROVE  /\ n \notin Reserved(s)
             /\ lockedBy[n] \in UsersOf[s] => pc[s] = "freeOwner" /\ n = Head(found[s])
  <2>1. ~Claim(s, n)
    BY <1>2
  <2> QED BY <2>1 DEF Reserved, Claim
<1> QED BY <1>2, <1>3

\* For threads that act for users of their own, whatever they lock, upgrade and
\* unlock, and however their calls interleave: what a call has taken, checked or
\* found is its own until it frees it.  No other call frees the node in between,
\* and none takes it.
THEOREM DisjointUsersOwnUntilFreed == ASSUME DisjointUsers PROVE Spec => []OwnUntilFreed
  BY ClaimInit, ClaimNext, ClaimedUntilFreed, PTL DEF Spec

\* For the same threads each counter is off by the calls half done, upgrades
\* among them, and by nothing else.
THEOREM DisjointUsersBalanced == ASSUME DisjointUsers PROVE Spec => []CountsBalanced
<1>1. ClaimInv => CountsBalanced
  BY DEF ClaimInv, BalanceInv
<1> QED BY <1>1, ClaimInit, ClaimNext, PTL DEF Spec

\* For the same threads the counters are exact whenever no call is running, even
\* if upgrades and locks have overrun each other before.
THEOREM DisjointUsersExact == ASSUME DisjointUsers PROVE Spec => []QuiescentExact
<1>1. ClaimInv => QuiescentExact
  BY BalancedIsExact DEF ClaimInv, BalanceInv
<1> QED BY <1>1, ClaimInit, ClaimNext, PTL DEF Spec
-----------------------------------------------------------------------------
\* One thread, calling for any users on any nodes.

OneThread == \A s, t \in Thread : s = t

\* Node m is as the results of the calls so far say.
Faithful(m) ==
    IF lockState[m] = 1 THEN HeldBy(m) = {lockedBy[m]} ELSE lockedBy[m] = NoUser /\ HeldBy(m) = {}

FaithfulBut(n) == \A m \in Node \ {n} : Faithful(m)

NoneHeld(S) == \A m \in S : HeldBy(m) = {}

Exclusive ==
    /\ \A m \in Node : \A u, v \in HeldBy(m) : u = v
    /\ \A m \in Node : HeldBy(m) # {} => NoneHeld(Above[m])

\* Until it writes its first atomic a call leaves the nodes as they were, and
\* what it has read is true of the results so far.
LooksOK(t, n) ==
    /\ pc[t] \in {"idle", "loadAncestors", "loadDescendants", "cas", "checkOwner", "clearOwner",
                  "checkState", "checkAncestors", "scanState", "scanOwner"} =>
          \A m \in Node : Faithful(m)
    /\ pc[t] \in {"loadDescendants", "cas", "scanState", "scanOwner"} => NoneHeld(Above[n])
    /\ pc[t] = "cas" => NoneHeld(Below[n])
    /\ pc[t] \in {"checkAncestors", "scanState", "scanOwner"} => HeldBy(n) = {}

\* lock() has taken a node with nothing held around it.
LockingOK(t, n) ==
    /\ pc[t] # "rollback"
    /\ pc[t] \in {"recheckAncestors", "recheckDescendants", "setOwner", "inform"} /\ call[t].op = "lock" =>
          /\ FaithfulBut(n) /\ NoneHeld({n} \cup Above[n] \cup Below[n])
          /\ lockState[n] = 1 /\ (pc[t] = "inform" => lockedBy[n] = call[t].user)

\* unlock() changes a node its user holds.
UnlockingOK(t, n) ==
    /\ pc[t] \in {"clearOwner", "casFree"} \/ (pc[t] = "inform" /\ call[t].op = "unlock") =>
          HeldBy(n) = {call[t].user}
    /\ pc[t] = "casFree" \/ (pc[t] = "inform" /\ call[t].op = "unlock") =>
          /\ FaithfulBut(n) /\ lockedBy[n] = NoUser
          /\ lockState[n] = IF pc[t] = "casFree" THEN 1 ELSE 0

\* The scan of upgradeLock has found what its user holds below n, but for what it
\* has still to look at.
ScanningOK(t, n) ==
    pc[t] \in {"scanState", "scanOwner"} =>
       /\ pc[t] = "scanOwner" => lockState[Head(work[t])] = 1
       /\ Reach(work[t]) \subseteq Below[n]
       /\ \A i \in 1 .. Len(found[t]) : found[t][i] \in Below[n] /\ HeldBy(found[t][i]) = {call[t].user}
       /\ \A d \in Below[n] : HeldBy(d) # {} =>
             d \in Reach(work[t]) \/ \E i \in 1 .. Len(found[t]) : d = found[t][i]

\* The nodes an upgrade has found and not freed.
Remaining(t) ==
    {d \in Node : \E i \in 1 .. Len(found[t]) :
                     d = found[t][i] /\ (pc[t] \in {"freeOwner", "inform"} => i # 1)}

Exchanging(t) ==
    \/ pc[t] \in {"freeState", "freeOwner", "casUpgrade"}
    \/ pc[t] \in {"setOwner", "inform"} /\ call[t].op = "upgrade"

\* upgradeLock() has passed its checks: it frees what its user holds below n,
\* then takes n.
ExchangingOK(t, n) ==
    Exchanging(t) =>
       /\ NoneHeld({n} \cup Above[n])
       /\ \A d \in Below[n] : HeldBy(d) = {} \/ HeldBy(d) = {call[t].user}
       /\ \E d \in Below[n] : HeldBy(d) # {}
       /\ \A i \in 1 .. Len(found[t]) : found[t][i] \in Below[n] /\ HeldBy(found[t][i]) # {}
       /\ \A m \in Node \ {n} :
             IF m \in Below[n] /\ HeldBy(m) # {} /\ m \notin Remaining(t)
             THEN /\ lockState[m] = 0
                  /\ lockedBy[m] = NoUser \/ (pc[t] = "freeOwner" /\ m = Head(found[t]))
             ELSE Faithful(m)
       /\ IF pc[t] \in {"setOwner", "inform"} /\ found[t] = <<>>
          THEN lockState[n] = 1 /\ (pc[t] = "inform" => lockedBy[n] = call[t].user)
          ELSE lockState[n] = 0

SoloOK(t, n) ==
    LooksOK(t, n) /\ LockingOK(t, n) /\ UnlockingOK(t, n) /\ ScanningOK(t, n) /\ ExchangingOK(t, n)

SoloInv ==
    /\ ClaimInv
    /\ Exclusive
    /\ \A t \in Thread : SoloOK(t, call[t].node)

LEMMA OneThreadIsDisjoint == OneThread => DisjointUsers
  BY DEF OneThread, DisjointUsers

LEMMA HeldKept == UNCHANGED held => \A m : HeldBy(m)' = HeldBy(m)
  BY DEF HeldBy

\* A step that leaves held, and t in order, keeps the invariant.
LEMMA SoloStep ==
    ASSUME OneThread, SoloInv, ClaimInv', NEW t \in Thread, UNCHANGED held, SoloOK(t, call[t].node)'
    PROVE  SoloInv'
<1>1. Exclusive'
  BY HeldKept DEF SoloInv, Exclusive, NoneHeld
<1>2. \A s \in Thread : s = t
  BY DEF OneThread
<1>3. \A s \in Thread : SoloOK(s, call[s].node)'
  BY <1>2
<1> QED BY <1>1, <1>3 DEF SoloInv

\* What a step that leaves held and node m alone leaves.
LEMMA FaithfulKept ==
    UNCHANGED held =>
        /\ \A m : lockState'[m] = lockState[m] /\ lockedBy'[m] = lockedBy[m] =>
              (Faithful(m)' <=> Faithful(m))
        /\ \A S : NoneHeld(S)' <=> NoneHeld(S)
  BY HeldKept DEF Faithful, NoneHeld

LEMMA FaithfulLocked ==
    ASSUME SoloInv, NEW m \in Node, Faithful(m)
    PROVE  /\ HeldBy(m) = {} <=> lockState[m] = 0
           /\ HeldBy(m) # {} <=> lockState[m] = 1
<1>1. lockState[m] = 0 \/ lockState[m] = 1
  BY DEF SoloInv, ClaimInv, BalanceInv, TypeInv, NodeTypes
<1>2. CASE lockState[m] = 1
  <2>1. HeldBy(m) = {lockedBy[m]}
    BY <1>2 DEF Faithful
  <2>2. HeldBy(m) # {}
    BY <2>1
  <2> QED BY <1>2, <2>2
<1>3. CASE lockState[m] = 0
  BY <1>3 DEF Faithful
<1> QED BY <1>1, <1>2, <1>3

\* Where a call begins or ends: every node is as the results say.
LEMMA RestOK ==
    ASSUME NEW t \in Thread, NEW n,
           pc'[t] \in {"idle", "loadAncestors", "checkOwner", "checkState"},
           \A m \in Node : Faithful(m)'
    PROVE  SoloOK(t, n)'
  BY DEF SoloOK, LooksOK, LockingOK, UnlockingOK, ScanningOK, ExchangingOK, Exchanging

LEMMA RefusalSolo ==
    ASSUME OneThread, SoloInv, ClaimInv', NEW t \in Thread, ReturnFalse(t),
           UNCHANGED <<lockState, lockedBy>>, \A m \in Node : Faithful(m)
    PROVE  SoloInv'
<1>1. TypeInv
  BY DEF SoloInv, ClaimInv, BalanceInv
<1>2. pc'[t] = "idle" /\ UNCHANGED held
  <2>1. pc'[t] = "idle"
    BY <1>1, ReturnFalseAlone
  <2>2. held' = [held EXCEPT ![t] = held[t]]
    BY DEF ReturnFalse, Return
  <2> QED BY <1>1, <2>1, <2>2 DEF TypeInv, ThreadTypes
<1>3. \A m \in Node : Faithful(m)'
  BY <1>2, FaithfulKept
<1> QED BY <1>2, <1>3, RestOK, SoloStep

\* The counters a call reads tell whether a node above or below is locked.
LEMMA CountersTell ==
    ASSUME OneThread, SoloInv, NEW t \in Thread, NEW n \in Node,
           Calm(pc[t]) \/ (Unreported(t) /\ n = call[t].node)
    PROVE  /\ ancestorLockedCount[n] > 0 <=> \E a \in Above[n] : lockState[a] = 1
           /\ descendantLockedCount[n] > 0 <=> \E d \in Below[n] : lockState[d] = 1
<1>0. TypeInv /\ CountsBalanced
  BY DEF SoloInv, ClaimInv, BalanceInv
<1>1. \A s \in Thread : /\ n \notin AddAbove[s] /\ n \notin AddBelow[s]
                        /\ n \notin TakeAbove[s] /\ n \notin TakeBelow[s]
  <2> TAKE s \in Thread
  <2>1. s = t
    BY DEF OneThread
  <2>2. n \notin Above[n] /\ n \notin Below[n]
    BY AboveFacts, BelowIs
  <2>3. CASE Calm(pc[t])
    BY <2>1, <2>3, CalmDuties
  <2>4. CASE Unreported(t) /\ n = call[t].node
    BY <2>1, <2>2, <2>4, DutiesAre
  <2> QED BY <2>3, <2>4
<1>2. /\ CountIn(Thread, AddAbove, n) = 0 /\ CountIn(Thread, AddBelow, n) = 0
      /\ CountIn(Thread, TakeAbove, n) = 0 /\ CountIn(Thread, TakeBelow, n) = 0
  <2>1. /\ {s \in Thread : n \in AddAbove[s]} = {} /\ {s \in Thread : n \in AddBelow[s]} = {}
        /\ {s \in Thread : n \in TakeAbove[s]} = {} /\ {s \in Thread : n \in TakeBelow[s]} = {}
    BY <1>1
  <2> QED BY <2>1, FS_EmptySet DEF CountIn
<1> DEFINE D == {m \in Node : n \in LockedAbove[m]}
           A == {m \in Node : n \in LockedBelow[m]}
<1>3. /\ D = {d \in Below[n] : lockState[d] = 1}
      /\ A = {a \in Above[n] : lockState[a] = 1}
  BY BelowIs, AboveFacts DEF LockedAbove, LockedBelow
<1>4. /\ IsFiniteSet(D) /\ IsFiniteSet(A) /\ Cardinality(D) \in Nat /\ Cardinality(A) \in Nat
      /\ (Cardinality(D) = 0 <=> D = {}) /\ (Cardinality(A) = 0 <=> A = {})
  BY TreeAssumption, FS_Subset, FS_CardinalityType, FS_EmptySet
<1>5. /\ descendantLockedCount[n] + 0 = Cardinality(D) + 0
      /\ ancestorLockedCount[n] + 0 = Cardinality(A) + 0
  BY <1>0, <1>2, BalanceIs DEF Balanced, CountIn
<1>6. descendantLockedCount[n] \in Int /\ ancestorLockedCount[n] \in Int
  BY <1>0 DEF TypeInv, NodeTypes
<1> HIDE DEF D, A
<1>7. /\ descendantLockedCount[n] > 0 <=> D # {}
      /\ ancestorLockedCount[n] > 0 <=> A # {}
  BY <1>4, <1>5, <1>6
<1> QED BY <1>3, <1>7

LEMMA CallSolo ==
    ASSUME OneThread, SoloInv, ClaimInv', NEW t \in Thread, Call(t)
    PROVE  SoloInv'
<1>1. ASSUME NEW op, NEW n, NEW u, NEW l \in {"loadAncestors", "checkOwner", "checkState"},
             Begin(t, op, n, u, l)
      PROVE  SoloInv'
  <2>1. /\ pc[t] = "idle" /\ pc'[t] = l /\ UNCHANGED <<lockState, lockedBy, held>>
    BY <1>1 DEF Begin, Goto, nodeVars, SoloInv, ClaimInv, BalanceInv, TypeInv, ThreadTypes
  <2>2. \A m \in Node : Faithful(m)'
    BY <2>1, FaithfulKept DEF SoloInv, SoloOK, LooksOK
  <2> QED BY <2>1, <2>2, RestOK, SoloStep
<1>2. \E op, n, u : \E l \in {"loadAncestors", "checkOwner", "checkState"} : Begin(t, op, n, u, l)
  BY DEF Call, CallLock, CallUnlock, CallUpgrade
<1> QED BY <1>1, <1>2

\* The looks before the CAS of lock(): the counters are the results so far.
LEMMA LookSolo ==
    ASSUME OneThread, SoloInv, ClaimInv', NEW t \in Thread,
           LoadAncestors(t) \/ LoadDescendants(t) \/ CasLockSpurious(t) \/ CheckState(t)
    PROVE  SoloInv'
<1>0. PICK n \in Node : n = call[t].node
  BY RunningCall
     DEF LoadAncestors, LoadDescendants, CasLockSpurious, CheckState, SoloInv, ClaimInv, BalanceInv
<1>1. /\ TypeInv /\ Calm(pc[t]) /\ UNCHANGED <<lockState, lockedBy>>
      /\ \A m \in Node : Faithful(m)
      /\ LooksOK(t, n)
  BY <1>0 DEF LoadAncestors, LoadDescendants, CasLockSpurious, CheckState, nodeVars, Calm, SoloInv,
     ClaimInv, BalanceInv, SoloOK, LooksOK
<1>2. CASE ReturnFalse(t)
  BY <1>1, <1>2, RefusalSolo
<1>3. ASSUME NEW l \in {"loadDescendants", "cas", "checkAncestors"}, UNCHANGED <<held, call>>,
             pc'[t] = l, l # "checkAncestors" => NoneHeld(Above[n]),
             l = "cas" => NoneHeld(Below[n]), l = "checkAncestors" => HeldBy(n) = {}
      PROVE  SoloInv'
  <2>1. /\ \A m \in Node : Faithful(m)' /\ HeldBy(n)' = HeldBy(n)
        /\ NoneHeld(Above[n])' <=> NoneHeld(Above[n])
        /\ NoneHeld(Below[n])' <=> NoneHeld(Below[n])
    BY <1>1, <1>3, FaithfulKept, HeldKept
  <2>2. SoloOK(t, call[t].node)'
    BY <1>0, <1>3, <2>1
       DEF SoloOK, LooksOK, LockingOK, UnlockingOK, ScanningOK, ExchangingOK, Exchanging
  <2> QED BY <1>3, <2>2, SoloStep
<1>4. CASE LoadAncestors(t) /\ ~ReturnFalse(t)
  <2>1. Proceed(t, "loadDescendants") /\ ~(ancestorLockedCount[n] > 0)
    BY <1>0, <1>4 DEF LoadAncestors
  <2>2. NoneHeld(Above[n])
    BY <1>1, <2>1, CountersTell, FaithfulLocked, AboveFacts, BelowIs DEF NoneHeld
  <2> QED BY <1>1, <1>3, <2>1, <2>2, ProceedAlone DEF Proceed
<1>5. CASE LoadDescendants(t) /\ ~ReturnFalse(t)
  <2>1. Proceed(t, "cas") /\ ~(descendantLockedCount[n] > 0) /\ NoneHeld(Above[n])
    BY <1>0, <1>1, <1>5 DEF LoadDescendants, LooksOK
  <2>2. NoneHeld(Below[n])
    BY <1>1, <2>1, CountersTell, FaithfulLocked, AboveFacts, BelowIs DEF NoneHeld
  <2> QED BY <1>1, <1>3, <2>1, <2>2, ProceedAlone DEF Proceed
<1>6. CASE CasLockSpurious(t)
  <2>1. NoneHeld(Above[n]) /\ NoneHeld(Below[n])
    BY <1>1, <1>6 DEF LooksOK, CasLockSpurious
  <2> QED BY <1>3, <1>6, <2>1 DEF CasLockSpurious, threadVars
<1>7. CASE CheckState(t) /\ ~ReturnFalse(t)
  <2>1. Proceed(t, "checkAncestors") /\ HeldBy(n) = {}
    BY <1>0, <1>1, <1>7, FaithfulLocked DEF CheckState
  <2> QED BY <1>1, <1>3, <2>1, ProceedAlone DEF Proceed
<1> QED BY <1>2, <1>4, <1>5, <1>6, <1>7

\* The CAS of lock() and what it does until it returns: nothing is held around
\* the node, so the re-validation passes.
LEMMA LockSolo ==
    ASSUME OneThread, SoloInv, ClaimInv', NEW t \in Thread,
           \/ CasLock(t) \/ RecheckAncestors(t) \/ RecheckDescendants(t)
           \/ SetOwner(t) /\ call[t].op = "lock"
    PROVE  SoloInv'
<1>0. PICK n \in Node : n = call[t].node
  BY RunningCall
     DEF CasLock, RecheckAncestors, RecheckDescendants, SetOwner, SoloInv, ClaimInv, BalanceInv
<1>1. /\ TypeInv /\ call[t].op = "lock" /\ LooksOK(t, n) /\ LockingOK(t, n)
      /\ pc[t] \in {"cas", "recheckAncestors", "recheckDescendants", "setOwner"}
  BY <1>0 DEF CasLock, RecheckAncestors, RecheckDescendants, SetOwner, SoloInv, ClaimInv, BalanceInv,
     TypeInv, ControlOK, FitsOp, LockLabels, SoloOK
<1>2. CASE ReturnFalse(t)
  <2>1. CasLock(t)
    BY <1>2 DEF RecheckAncestors, RecheckDescendants, SetOwner, ReturnFalse, Return, Goto, Proceed,
       StartInform, SoloInv, ClaimInv, BalanceInv, TypeInv, ThreadTypes
  <2>2. UNCHANGED <<lockState, lockedBy>> /\ \A m \in Node : Faithful(m)
    BY <1>1, <1>2, <2>1
       DEF CasLock, LooksOK, ReturnFalse, Return, Goto, Proceed, TypeInv, ThreadTypes
  <2> QED BY <1>2, <2>2, RefusalSolo
<1>3. ASSUME NEW l \in {"recheckAncestors", "recheckDescendants", "setOwner", "inform"},
             UNCHANGED <<held, call>>, pc'[t] = l,
             \A m \in Node \ {n} : /\ lockState'[m] = lockState[m] /\ lockedBy'[m] = lockedBy[m]
                                   /\ Faithful(m),
             lockState'[n] = 1, l = "inform" => lockedBy'[n] = call[t].user,
             NoneHeld({n} \cup Above[n] \cup Below[n])
      PROVE  SoloInv'
  <2>1. FaithfulBut(n)' /\ (NoneHeld({n} \cup Above[n] \cup Below[n]))'
    BY <1>3, FaithfulKept DEF FaithfulBut
  <2>2. SoloOK(t, call[t].node)'
    BY <1>0, <1>1, <1>3, <2>1
       DEF SoloOK, LooksOK, LockingOK, UnlockingOK, ScanningOK, ExchangingOK, Exchanging
  <2> QED BY <1>3, <2>2, SoloStep
<1>4. CASE CasLock(t) /\ ~ReturnFalse(t)
  <2>1. /\ pc[t] = "cas" /\ lockState[n] = 0 /\ lockState' = [lockState EXCEPT ![n] = 1]
        /\ Proceed(t, "recheckAncestors") /\ UNCHANGED lockedBy
    BY <1>0, <1>4 DEF CasLock
  <2>2. /\ \A m \in Node : Faithful(m)
        /\ NoneHeld(Above[n]) /\ NoneHeld(Below[n])
    BY <1>1, <2>1 DEF LooksOK
  <2>3. NoneHeld({n} \cup Above[n] \cup Below[n])
    BY <2>1, <2>2, FaithfulLocked DEF NoneHeld
  <2>4. lockState'[n] = 1 /\ \A m \in Node \ {n} : lockState'[m] = lockState[m]
    BY <1>1, <2>1 DEF TypeInv, NodeTypes
  <2> QED BY <1>1, <1>3, <2>1, <2>2, <2>3, <2>4, ProceedAlone DEF Proceed
<1>5. CASE RecheckAncestors(t) \/ RecheckDescendants(t)
  <2>1. /\ FaithfulBut(n) /\ NoneHeld({n} \cup Above[n] \cup Below[n]) /\ lockState[n] = 1
        /\ UNCHANGED <<lockState, lockedBy>> /\ Unreported(t)
    BY <1>1, <1>5 DEF LockingOK, RecheckAncestors, RecheckDescendants, nodeVars, Unreported
  <2>2. \A m \in Above[n] \cup Below[n] : lockState[m] # 1
    <3> TAKE m \in Above[n] \cup Below[n]
    <3>1. m \in Node /\ m # n
      BY AboveFacts, BelowIs
    <3> QED BY <2>1, <3>1, FaithfulLocked DEF FaithfulBut, NoneHeld
  <2>3. ~(ancestorLockedCount[n] > 0) /\ ~(descendantLockedCount[n] > 0)
    BY <1>0, <2>1, <2>2, CountersTell
  <2>4. \E l \in {"recheckDescendants", "setOwner"} : Proceed(t, l)
    BY <1>0, <1>5, <2>3 DEF RecheckAncestors, RecheckDescendants
  <2> QED BY <1>1, <1>3, <2>1, <2>4, ProceedAlone DEF Proceed, FaithfulBut
<1>6. CASE SetOwner(t)
  <2>1. /\ FaithfulBut(n) /\ NoneHeld({n} \cup Above[n] \cup Below[n]) /\ lockState[n] = 1
        /\ UNCHANGED lockState /\ StartInform(t, n) /\ lockedBy' = [lockedBy EXCEPT ![n] = call[t].user]
    BY <1>0, <1>1, <1>6 DEF LockingOK, SetOwner
  <2>2. lockedBy'[n] = call[t].user /\ \A m \in Node \ {n} : lockedBy'[m] = lockedBy[m]
    BY <1>1, <2>1 DEF TypeInv, NodeTypes
  <2> QED BY <1>1, <1>3, <2>1, <2>2, StartInformAlone DEF StartInform, FaithfulBut
<1> QED BY <1>2, <1>4, <1>5, <1>6 DEF RecheckAncestors, RecheckDescendants

LEMMA UnlockSolo ==
    ASSUME OneThread, SoloInv, ClaimInv', NEW t \in Thread,
           CheckOwner(t) \/ ClearOwner(t) \/ CasFree(t) \/ RestoreOwner(t)
    PROVE  SoloInv'
<1>0. PICK n \in Node : n = call[t].node
  BY RunningCall
     DEF CheckOwner, ClearOwner, CasFree, RestoreOwner, SoloInv, ClaimInv, BalanceInv
<1>1. /\ TypeInv /\ call[t].op = "unlock" /\ LooksOK(t, n) /\ UnlockingOK(t, n)
      /\ pc[t] \in {"checkOwner", "clearOwner", "casFree"} /\ call[t].user \in User
      /\ ~RestoreOwner(t)
  BY <1>0, UserTypes
     DEF CheckOwner, ClearOwner, CasFree, RestoreOwner, SoloInv, ClaimInv, ClaimOK, BalanceInv,
         TypeInv, ControlOK, FitsOp, UnlockLabels, SoloOK
<1>2. CASE CheckOwner(t)
  <2>1. /\ \A m \in Node : Faithful(m)
        /\ UNCHANGED <<lockState, lockedBy>>
    BY <1>1, <1>2 DEF CheckOwner, LooksOK, nodeVars
  <2>2. CASE ReturnFalse(t)
    BY <2>1, <2>2, RefusalSolo
  <2>3. CASE ~ReturnFalse(t)
    <3>1. Proceed(t, "clearOwner") /\ lockedBy[n] = call[t].user
      BY <1>0, <1>2, <2>3 DEF CheckOwner
    <3>2. pc'[t] = "clearOwner" /\ UNCHANGED <<held, call>>
      BY <1>1, <3>1, ProceedAlone DEF Proceed
    <3>3. HeldBy(n) = {call[t].user}
      BY <1>1, <2>1, <3>1, CallerAssumption DEF Faithful
    <3>4. /\ \A m \in Node : Faithful(m)'
          /\ HeldBy(n)' = {call[t].user}
      BY <2>1, <3>2, <3>3, FaithfulKept, HeldKept
    <3>5. SoloOK(t, call[t].node)'
      BY <1>0, <3>2, <3>4
         DEF SoloOK, LooksOK, LockingOK, UnlockingOK, ScanningOK, ExchangingOK, Exchanging
    <3> QED BY <3>2, <3>5, SoloStep
  <2> QED BY <2>2, <2>3
<1>3. CASE ClearOwner(t)
  <2>1. /\ \A m \in Node : Faithful(m)
        /\ HeldBy(n) = {call[t].user} /\ UNCHANGED lockState /\ Proceed(t, "casFree")
        /\ lockedBy' = [lockedBy EXCEPT ![n] = NoUser]
    BY <1>0, <1>1, <1>3 DEF ClearOwner, LooksOK, UnlockingOK
  <2>2. /\ pc'[t] = "casFree" /\ UNCHANGED <<held, call>>
        /\ lockedBy'[n] = NoUser /\ \A m \in Node \ {n} : lockedBy'[m] = lockedBy[m]
    BY <1>1, <2>1, ProceedAlone DEF Proceed, TypeInv, NodeTypes
  <2>3. lockState[n] = 1
    BY <2>1, FaithfulLocked
  <2>4. FaithfulBut(n)' /\ HeldBy(n)' = {call[t].user}
    BY <2>1, <2>2, FaithfulKept, HeldKept DEF FaithfulBut
  <2>5. SoloOK(t, call[t].node)'
    BY <1>0, <2>1, <2>2, <2>3, <2>4
       DEF SoloOK, LooksOK, LockingOK, UnlockingOK, ScanningOK, ExchangingOK, Exchanging
  <2> QED BY <2>2, <2>5, SoloStep
<1>4. CASE CasFree(t)
  <2>1. /\ FaithfulBut(n) /\ lockState[n] = 1 /\ lockedBy[n] = NoUser /\ HeldBy(n) = {call[t].user}
    BY <1>1, <1>4 DEF CasFree, UnlockingOK
  <2>2. /\ UNCHANGED lockedBy /\ StartInform(t, n)
        /\ lockState' = [lockState EXCEPT ![n] = 0]
    BY <1>0, <1>4, <2>1 DEF CasFree
  <2>3. /\ pc'[t] = "inform" /\ UNCHANGED <<held, call>>
        /\ lockState'[n] = 0 /\ \A m \in Node \ {n} : lockState'[m] = lockState[m]
    BY <1>1, <2>2, StartInformAlone DEF StartInform, TypeInv, NodeTypes
  <2>4. FaithfulBut(n)' /\ HeldBy(n)' = {call[t].user}
    BY <2>1, <2>2, <2>3, FaithfulKept, HeldKept DEF FaithfulBut
  <2>5. SoloOK(t, call[t].node)'
    BY <1>0, <1>1, <2>1, <2>2, <2>3, <2>4
       DEF SoloOK, LooksOK, LockingOK, UnlockingOK, ScanningOK, ExchangingOK, Exchanging
  <2> QED BY <2>3, <2>5, SoloStep
<1> QED BY <1>1, <1>2, <1>3, <1>4

\* Counters are not part of what the results say.
LEMMA InformSolo ==
    ASSUME OneThread, SoloInv, ClaimInv', NEW t \in Thread, InformAncestor(t) \/ InformDescendant(t)
    PROVE  SoloInv'
<1>1. UNCHANGED <<lockState, lockedBy, pc, call, found, held>> /\ pc[t] = "inform"
  BY DEF InformAncestor, InformDescendant
<1>2. SoloOK(t, call[t].node)
  BY DEF SoloInv
<1>3. /\ \A m : HeldBy(m)' = HeldBy(m)
      /\ \A m : Faithful(m)' <=> Faithful(m)
      /\ \A S : NoneHeld(S)' <=> NoneHeld(S)
      /\ FaithfulBut(call[t].node)' <=> FaithfulBut(call[t].node)
      /\ Remaining(t)' = Remaining(t)
  BY <1>1, HeldKept, FaithfulKept DEF FaithfulBut, Remaining
<1>4. SoloOK(t, call[t].node)'
  BY <1>1, <1>2, <1>3
     DEF SoloOK, LooksOK, LockingOK, UnlockingOK, ScanningOK, ExchangingOK, Exchanging
<1> QED BY <1>1, <1>4, SoloStep

\* The scan of upgradeLock().
LEMMA ScanSolo ==
    ASSUME OneThread, SoloInv, ClaimInv', NEW t \in Thread,
           CheckAncestors(t) \/ ScanState(t) \/ ScanOwner(t)
    PROVE  SoloInv'
<1>0. PICK n \in Node : n = call[t].node
  BY RunningCall DEF CheckAncestors, ScanState, ScanOwner, SoloInv, ClaimInv, BalanceInv
<1>1. /\ TypeInv /\ Calm(pc[t]) /\ UNCHANGED <<lockState, lockedBy>>
      /\ \A m \in Node : Faithful(m)
      /\ HeldBy(n) = {} /\ LooksOK(t, n) /\ ScanningOK(t, n) /\ ClaimOK(t)
      /\ work[t] \in Seq(Node) /\ found[t] \in Seq(Node) /\ call[t].user \in User
  BY <1>0, UserTypes
     DEF CheckAncestors, ScanState, ScanOwner, nodeVars, Calm, SoloInv, ClaimInv, BalanceInv,
         SoloOK, LooksOK, TypeInv, ThreadTypes, ControlOK
<1>2. CASE ReturnFalse(t)
  BY <1>1, <1>2, RefusalSolo
<1>3. ASSUME UNCHANGED <<held, call>>, pc'[t] \in {"scanState", "scanOwner"}, NoneHeld(Above[n]),
             pc'[t] = "scanOwner" => lockState[Head(work'[t])] = 1,
             Reach(work'[t]) \subseteq Below[n],
             \A i \in 1 .. Len(found'[t]) :
                found'[t][i] \in Below[n] /\ HeldBy(found'[t][i]) = {call[t].user},
             \A d \in Below[n] : HeldBy(d) # {} =>
                d \in Reach(work'[t]) \/ \E i \in 1 .. Len(found'[t]) : d = found'[t][i]
      PROVE  SoloInv'
  <2>1. /\ \A m \in Node : Faithful(m)'
        /\ \A m : HeldBy(m)' = HeldBy(m)
        /\ NoneHeld(Above[n])' <=> NoneHeld(Above[n])
    BY <1>1, <1>3, FaithfulKept, HeldKept
  <2>2. Reach(work[t])' = Reach(work'[t])
    BY DEF Reach
  <2>3. ScanningOK(t, n)'
    BY <1>1, <1>3, <2>1, <2>2 DEF ScanningOK
  <2>4. SoloOK(t, call[t].node)'
    BY <1>0, <1>1, <1>3, <2>1, <2>3
       DEF SoloOK, LooksOK, LockingOK, UnlockingOK, ScanningOK, ExchangingOK, Exchanging
  <2> QED BY <1>3, <2>4, SoloStep
<1>4. CASE CheckAncestors(t) /\ ~ReturnFalse(t)
  <2>1. /\ Goto(t, "scanState") /\ work' = [work EXCEPT ![t] = Children[n]]
        /\ UNCHANGED <<call, found, held>> /\ pc[t] = "checkAncestors"
        /\ ~(ancestorLockedCount[n] > 0)
    BY <1>0, <1>4 DEF CheckAncestors
  <2>2. pc'[t] = "scanState" /\ work'[t] = Children[n] /\ found'[t] = <<>>
    BY <1>1, <2>1 DEF Goto, TypeInv, ThreadTypes, SoloInv, ClaimInv, BalanceInv, DutiesOK
  <2>3. NoneHeld(Above[n])
    BY <1>1, <2>1, CountersTell, FaithfulLocked, AboveFacts, BelowIs DEF NoneHeld
  <2>4. Reach(work'[t]) = Below[n]
    BY <2>2, BelowUnfold
  <2> QED BY <1>3, <2>1, <2>2, <2>3, <2>4
<1>5. CASE ScanState(t)
  <2>1. /\ pc[t] = "scanState" /\ work[t] # <<>> /\ NoneHeld(Above[n])
        /\ Reach(work[t]) \subseteq Below[n] /\ Apart(work[t])
        /\ \A i \in 1 .. Len(found[t]) : found[t][i] \in Below[n] /\ HeldBy(found[t][i]) = {call[t].user}
        /\ \A d \in Below[n] : HeldBy(d) # {} =>
             d \in Reach(work[t]) \/ \E i \in 1 .. Len(found[t]) : d = found[t][i]
    BY <1>1, <1>5 DEF ScanState, LooksOK, ScanningOK, ClaimOK
  <2>2. CASE Proceed(t, "scanOwner")
    <3>1. pc'[t] = "scanOwner" /\ UNCHANGED <<call, work, found, held>>
      BY <1>1, <2>2, ProceedAlone DEF Proceed
    <3>2. lockState[Head(work[t])] = 1
      BY <1>5, <2>1, <3>1 DEF ScanState
    <3> QED BY <1>3, <2>1, <3>1, <3>2
  <2>3. CASE ~Proceed(t, "scanOwner")
    <3>1. /\ Dequeue(t) /\ UNCHANGED <<pc, call, found, held>> /\ lockState[Head(work[t])] # 1
      BY <1>5, <2>3 DEF ScanState
    <3>2. PICK h \in Node : h = Head(work[t])
      BY <1>1, <2>1, HeadTailProperties
    <3>3. work'[t] = Tail(work[t]) \o Children[h]
      BY <1>1, <3>1, <3>2 DEF Dequeue, TypeInv, ThreadTypes
    <3>4. Reach(work'[t]) = Reach(work[t]) \ {h}
      BY <1>1, <2>1, <3>2, <3>3, VisitHead
    <3>5. HeldBy(h) = {}
      BY <1>1, <3>1, <3>2, FaithfulLocked
    <3> QED BY <1>3, <2>1, <3>1, <3>4, <3>5
  <2> QED BY <2>2, <2>3
<1>6. CASE ScanOwner(t) /\ ~ReturnFalse(t)
  <2>1. /\ pc[t] = "scanOwner" /\ NoneHeld(Above[n])
        /\ Reach(work[t]) \subseteq Below[n] /\ Apart(work[t]) /\ work[t] # <<>>
        /\ \A i \in 1 .. Len(found[t]) : found[t][i] \in Below[n] /\ HeldBy(found[t][i]) = {call[t].user}
        /\ \A d \in Below[n] : HeldBy(d) # {} =>
             d \in Reach(work[t]) \/ \E i \in 1 .. Len(found[t]) : d = found[t][i]
    BY <1>1, <1>6 DEF ScanOwner, LooksOK, ScanningOK, ClaimOK, TypeInv, ControlOK
  <2>2. /\ lockedBy[Head(work[t])] = call[t].user /\ UNCHANGED <<call, held>>
        /\ found' = [found EXCEPT ![t] = Append(found[t], Head(work[t]))]
        /\ Dequeue(t) /\ Goto(t, "scanState")
    BY <1>6 DEF ScanOwner
  <2>3. PICK h \in Node : h = Head(work[t])
    BY <1>1, <2>1, HeadTailProperties
  <2>4. /\ pc'[t] = "scanState" /\ found'[t] = Append(found[t], h)
        /\ work'[t] = Tail(work[t]) \o Children[h]
    BY <1>1, <2>2, <2>3 DEF Dequeue, Goto, TypeInv, ThreadTypes
  <2>5. h \in Reach(work[t]) /\ Reach(work'[t]) = Reach(work[t]) \ {h}
    BY <1>1, <2>1, <2>3, <2>4, VisitHead
  <2>6. /\ Len(found[t]) \in Nat /\ Len(found'[t]) = Len(found[t]) + 1
        /\ \A i \in 1 .. Len(found[t]) : found'[t][i] = found[t][i]
        /\ found'[t][Len(found[t]) + 1] = h
    BY <1>1, <2>3, <2>4, AppendProperties, LenProperties
  <2>7. HeldBy(h) = {call[t].user}
    BY <1>1, <2>2, <2>3, CallerAssumption DEF Faithful
  <2>8. \A i \in 1 .. Len(found'[t]) :
           found'[t][i] \in Below[n] /\ HeldBy(found'[t][i]) = {call[t].user}
    <3> TAKE i \in 1 .. Len(found'[t])
    <3>1. h \in Below[n]
      BY <2>1, <2>5
    <3>2. i \in 1 .. Len(found[t]) \/ i = Len(found[t]) + 1
      BY <2>6
    <3>3. CASE i \in 1 .. Len(found[t])
      <4>1. found'[t][i] = found[t][i]
        BY <2>6, <3>3
      <4> QED BY <2>1, <3>3, <4>1
    <3>4. CASE i = Len(found[t]) + 1
      <4>1. found'[t][i] = h
        BY <2>6, <3>4
      <4> QED BY <2>7, <3>1, <4>1
    <3> QED BY <3>2, <3>3, <3>4
  <2>9. \A d \in Below[n] : HeldBy(d) # {} =>
           d \in Reach(work'[t]) \/ \E i \in 1 .. Len(found'[t]) : d = found'[t][i]
    <3> SUFFICES ASSUME NEW d \in Below[n], HeldBy(d) # {}, d \notin Reach(work'[t])
                 PROVE  \E i \in 1 .. Len(found'[t]) : d = found'[t][i]
      OBVIOUS
    <3>1. CASE d = h
      BY <2>6, <3>1
    <3>2. CASE d # h
      BY <2>1, <2>5, <2>6, <3>2
    <3> QED BY <3>1, <3>2
  <2> QED BY <1>3, <2>1, <2>2, <2>4, <2>5, <2>8, <2>9
<1> QED BY <1>2, <1>4, <1>5, <1>6

\* A step of an upgrade that has passed its checks.
LEMMA ExchangeStep ==
    ASSUME OneThread, SoloInv, ClaimInv', NEW t \in Thread, NEW n \in Node, n = call[t].node,
           call[t].op = "upgrade", UNCHANGED <<held, call>>,
           pc'[t] \in {"freeState", "freeOwner", "casUpgrade", "setOwner", "inform"},
           NoneHeld({n} \cup Above[n]),
           \A d \in Below[n] : HeldBy(d) = {} \/ HeldBy(d) = {call[t].user},
           \E d \in Below[n] : HeldBy(d) # {},
           \A i \in 1 .. Len(found'[t]) : found'[t][i] \in Below[n] /\ HeldBy(found'[t][i]) # {},
           \A m \in Node \ {n} :
              IF m \in Below[n] /\ HeldBy(m) # {} /\ m \notin Remaining(t)'
              THEN /\ lockState'[m] = 0
                   /\ lockedBy'[m] = NoUser \/ (pc'[t] = "freeOwner" /\ m = Head(found'[t]))
              ELSE /\ Faithful(m)
                   /\ lockState'[m] = lockState[m] /\ lockedBy'[m] = lockedBy[m],
           IF pc'[t] \in {"setOwner", "inform"} /\ found'[t] = <<>>
           THEN lockState'[n] = 1 /\ (pc'[t] = "inform" => lockedBy'[n] = call[t].user)
           ELSE lockState'[n] = 0
    PROVE  SoloInv'
<1>1. /\ \A m : HeldBy(m)' = HeldBy(m)
      /\ NoneHeld({n} \cup Above[n])' <=> NoneHeld({n} \cup Above[n])
      /\ \A m : lockState'[m] = lockState[m] /\ lockedBy'[m] = lockedBy[m] =>
            (Faithful(m)' <=> Faithful(m))
  BY HeldKept, FaithfulKept
<1>2. ASSUME NEW m \in Node \ {n}
      PROVE  IF m \in Below[n] /\ HeldBy(m)' # {} /\ m \notin Remaining(t)'
             THEN /\ lockState'[m] = 0
                  /\ lockedBy'[m] = NoUser \/ (pc'[t] = "freeOwner" /\ m = Head(found'[t]))
             ELSE Faithful(m)'
  BY <1>1
<1>3. ExchangingOK(t, n)'
  BY <1>1, <1>2 DEF ExchangingOK
<1>4. SoloOK(t, call[t].node)'
  BY <1>3 DEF SoloOK, LooksOK, LockingOK, UnlockingOK, ScanningOK
<1> QED BY <1>4, SoloStep

LEMMA ScanDoneSolo ==
    ASSUME OneThread, SoloInv, ClaimInv', NEW t \in Thread, ScanDone(t)
    PROVE  SoloInv'
<1>0. PICK n \in Node : n = call[t].node
  BY RunningCall DEF ScanDone, SoloInv, ClaimInv, BalanceInv
<1>1. /\ TypeInv /\ UNCHANGED <<lockState, lockedBy>> /\ pc[t] = "scanState" /\ call[t].op = "upgrade"
      /\ \A m \in Node : Faithful(m)
      /\ HeldBy(n) = {} /\ LooksOK(t, n) /\ ScanningOK(t, n)
      /\ found[t] \in Seq(Node) /\ work[t] = <<>>
  BY <1>0
     DEF ScanDone, nodeVars, SoloInv, ClaimInv, BalanceInv, SoloOK, LooksOK, TypeInv, ThreadTypes,
         ControlOK, FitsOp, UpgradeLabels
<1>2. CASE ReturnFalse(t)
  BY <1>1, <1>2, RefusalSolo
<1>3. CASE ~ReturnFalse(t)
  <2>1. Proceed(t, "freeState") /\ found[t] # <<>>
    BY <1>3 DEF ScanDone
  <2>2. pc'[t] = "freeState" /\ UNCHANGED <<call, found, held>>
    BY <1>1, <2>1, ProceedAlone DEF Proceed
  <2>3. Reach(work[t]) = {}
    BY <1>1 DEF Reach
  <2>4. /\ \A i \in 1 .. Len(found[t]) : found[t][i] \in Below[n] /\ HeldBy(found[t][i]) = {call[t].user}
        /\ \A d \in Below[n] : HeldBy(d) # {} => \E i \in 1 .. Len(found[t]) : d = found[t][i]
    BY <1>1, <2>3 DEF ScanningOK
  <2>5. \A d \in Below[n] : HeldBy(d) = {} \/ HeldBy(d) = {call[t].user}
    BY <2>4
  <2>6. \A i \in 1 .. Len(found[t]) : HeldBy(found[t][i]) # {}
    BY <2>4
  <2>7. \E d \in Below[n] : HeldBy(d) # {}
    <3>1. 1 \in 1 .. Len(found[t])
      BY <1>1, <2>1, EmptySeq, LenProperties
    <3> QED BY <2>4, <2>6, <3>1
  <2>8. \A m \in Below[n] : HeldBy(m) # {} => m \in Remaining(t)'
    BY <2>2, <2>4, BelowIs DEF Remaining
  <2>9. NoneHeld({n} \cup Above[n]) /\ lockState[n] = 0
    BY <1>1, FaithfulLocked DEF LooksOK, NoneHeld
  <2> QED BY <1>0, <1>1, <2>2, <2>4, <2>5, <2>6, <2>7, <2>8, <2>9, ExchangeStep
<1> QED BY <1>2, <1>3

\* What an exchange under way knows.
LEMMA ExchangeFacts ==
    ASSUME SoloInv, NEW t \in Thread, Exchanging(t)
    PROVE  /\ TypeInv /\ call[t].node \in Node /\ call[t].op = "upgrade" /\ call[t].user \in User
           /\ found[t] \in Seq(Node) /\ ExchangingOK(t, call[t].node) /\ ClaimOK(t)
           /\ pc[t] \in {"casUpgrade", "setOwner"} => found[t] = <<>>
           /\ pc[t] \in {"freeState", "freeOwner"} => found[t] # <<>>
           /\ Remaining(t) \subseteq Node
<1>1. TypeInv /\ pc[t] # "idle"
  BY DEF SoloInv, ClaimInv, BalanceInv, Exchanging
<1>2. call[t].user \in User
  BY <1>1, UserTypes DEF TypeInv, ControlOK
<1> QED BY <1>1, <1>2
     DEF Exchanging, SoloInv, ClaimInv, BalanceInv, DutiesOK, SoloOK, TypeInv, ThreadTypes, ControlOK,
         FitsOp, UpgradeLabels, Remaining

\* The first node found is freed: it no longer remains.
LEMMA FreeStateSolo ==
    ASSUME OneThread, SoloInv, ClaimInv', NEW t \in Thread, FreeState(t)
    PROVE  SoloInv'
<1>0. Exchanging(t) /\ pc[t] = "freeState"
  BY DEF FreeState, Exchanging
<1>1. PICK n \in Node : n = call[t].node
  BY <1>0, ExchangeFacts
<1>2. /\ TypeInv /\ call[t].op = "upgrade" /\ found[t] \in Seq(Node) /\ found[t] # <<>>
      /\ ExchangingOK(t, n) /\ ClaimOK(t)
  BY <1>0, <1>1, ExchangeFacts
<1>3. PICK h \in Node : h = Head(found[t]) /\ 1 \in 1 .. Len(found[t]) /\ h = found[t][1]
  BY <1>2, HeadTailProperties, EmptySeq, LenProperties
<1>4. /\ lockState'[h] = 0 /\ \A m \in Node \ {h} : lockState'[m] = lockState[m]
      /\ UNCHANGED lockedBy /\ Proceed(t, "freeOwner")
  BY <1>2, <1>3 DEF FreeState, TypeInv, NodeTypes
<1>5. pc'[t] = "freeOwner" /\ UNCHANGED <<call, found, held>>
  BY <1>2, <1>4, ProceedAlone DEF Proceed
<1>6. Remaining(t)' = Remaining(t) \ {h}
  <2>1. \A i \in 1 .. Len(found[t]) : found[t][i] = h <=> i = 1
    BY <1>2, <1>3 DEF ClaimOK
  <2> QED BY <1>0, <1>5, <2>1 DEF Remaining
<1>7. /\ h \in Below[n] /\ HeldBy(h) # {} /\ n \notin Below[n] /\ lockState[n] = 0
  BY <1>0, <1>2, <1>3, BelowIs, AboveFacts DEF ExchangingOK
<1>8. \A m \in Node \ {n} :
         IF m \in Below[n] /\ HeldBy(m) # {} /\ m \notin Remaining(t)
         THEN lockState[m] = 0 /\ lockedBy[m] = NoUser
         ELSE Faithful(m)
  BY <1>0, <1>2 DEF ExchangingOK
<1>9. ASSUME NEW m \in Node \ {n}
      PROVE  IF m \in Below[n] /\ HeldBy(m) # {} /\ m \notin Remaining(t)'
             THEN /\ lockState'[m] = 0
                  /\ lockedBy'[m] = NoUser \/ (pc'[t] = "freeOwner" /\ m = Head(found'[t]))
             ELSE /\ Faithful(m)
                  /\ lockState'[m] = lockState[m] /\ lockedBy'[m] = lockedBy[m]
  <2>1. CASE m = h
    BY <1>3, <1>4, <1>5, <1>6, <1>7, <2>1
  <2>2. CASE m # h
    BY <1>4, <1>6, <1>8, <2>2
  <2> QED BY <2>1, <2>2
<1>10. lockState'[n] = 0
  BY <1>4, <1>7
<1>11. /\ NoneHeld({n} \cup Above[n])
       /\ \A d \in Below[n] : HeldBy(d) = {} \/ HeldBy(d) = {call[t].user}
       /\ \E d \in Below[n] : HeldBy(d) # {}
       /\ \A i \in 1 .. Len(found'[t]) : found'[t][i] \in Below[n] /\ HeldBy(found'[t][i]) # {}
  BY <1>0, <1>2, <1>5 DEF ExchangingOK
<1> QED BY <1>1, <1>2, <1>5, <1>9, <1>10, <1>11, ExchangeStep

\* The owner of the node freed is cleared: it is now as good as given back.
LEMMA FreeOwnerSolo ==
    ASSUME OneThread, SoloInv, ClaimInv', NEW t \in Thread, FreeOwner(t)
    PROVE  SoloInv'
<1>0. Exchanging(t) /\ pc[t] = "freeOwner"
  BY DEF FreeOwner, Exchanging
<1>1. PICK n \in Node : n = call[t].node
  BY <1>0, ExchangeFacts
<1>2. /\ TypeInv /\ call[t].op = "upgrade" /\ found[t] \in Seq(Node) /\ found[t] # <<>>
      /\ ExchangingOK(t, n) /\ ClaimOK(t)
  BY <1>0, <1>1, ExchangeFacts
<1>3. PICK h \in Node : h = Head(found[t]) /\ 1 \in 1 .. Len(found[t]) /\ h = found[t][1]
  BY <1>2, HeadTailProperties, EmptySeq, LenProperties
<1>4. /\ lockedBy'[h] = NoUser /\ \A m \in Node \ {h} : lockedBy'[m] = lockedBy[m]
      /\ UNCHANGED lockState /\ StartInform(t, h)
  BY <1>2, <1>3 DEF FreeOwner, TypeInv, NodeTypes
<1>5. pc'[t] = "inform" /\ UNCHANGED <<call, found, held>>
  BY <1>2, <1>4, StartInformAlone DEF StartInform
<1>6. Remaining(t)' = Remaining(t) /\ h \notin Remaining(t)
  <2>1. \A i \in 1 .. Len(found[t]) : found[t][i] = h => i = 1
    BY <1>2, <1>3 DEF ClaimOK
  <2> QED BY <1>0, <1>5, <2>1 DEF Remaining
<1>7. h \in Below[n] /\ HeldBy(h) # {} /\ n \notin Below[n] /\ lockState[n] = 0
  BY <1>0, <1>2, <1>3, BelowIs, AboveFacts DEF ExchangingOK
<1>8. \A m \in Node \ {n} :
         IF m \in Below[n] /\ HeldBy(m) # {} /\ m \notin Remaining(t)
         THEN lockState[m] = 0 /\ (lockedBy[m] = NoUser \/ m = h)
         ELSE Faithful(m)
  BY <1>0, <1>2, <1>3 DEF ExchangingOK
<1>9. ASSUME NEW m \in Node \ {n}
      PROVE  IF m \in Below[n] /\ HeldBy(m) # {} /\ m \notin Remaining(t)'
             THEN /\ lockState'[m] = 0
                  /\ lockedBy'[m] = NoUser \/ (pc'[t] = "freeOwner" /\ m = Head(found'[t]))
             ELSE /\ Faithful(m)
                  /\ lockState'[m] = lockState[m] /\ lockedBy'[m] = lockedBy[m]
  <2>1. CASE m = h
    BY <1>4, <1>6, <1>7, <1>8, <2>1
  <2>2. CASE m # h
    BY <1>4, <1>6, <1>8, <2>2
  <2> QED BY <2>1, <2>2
<1>10. /\ NoneHeld({n} \cup Above[n])
       /\ \A d \in Below[n] : HeldBy(d) = {} \/ HeldBy(d) = {call[t].user}
       /\ \E d \in Below[n] : HeldBy(d) # {}
       /\ \A i \in 1 .. Len(found'[t]) : found'[t][i] \in Below[n] /\ HeldBy(found'[t][i]) # {}
  BY <1>0, <1>2, <1>5 DEF ExchangingOK
<1> QED BY <1>1, <1>2, <1>4, <1>5, <1>7, <1>9, <1>10, ExchangeStep

\* On to the next node found, or to the CAS.
LEMMA ReleaseDoneSolo ==
    ASSUME OneThread, SoloInv, ClaimInv', NEW t \in Thread, InformDone(t), found[t] # <<>>
    PROVE  SoloInv'
<1>0. Exchanging(t) /\ pc[t] = "inform"
  <2>1. found[t] # <<>> => call[t].op = "upgrade"
    BY DEF SoloInv, ClaimInv, BalanceInv, TypeInv, ControlOK
  <2> QED BY <2>1 DEF InformDone, Exchanging
<1>1. PICK n \in Node : n = call[t].node
  BY <1>0, ExchangeFacts
<1>2. /\ TypeInv /\ call[t].op = "upgrade" /\ found[t] \in Seq(Node) /\ ExchangingOK(t, n)
  BY <1>0, <1>1, ExchangeFacts
<1>3. /\ found' = [found EXCEPT ![t] = Tail(found[t])] /\ UNCHANGED <<call, held, lockState, lockedBy>>
      /\ Goto(t, IF Len(found[t]) = 1 THEN "casUpgrade" ELSE "freeState")
  BY DEF InformDone, nodeVars
<1>4. pc'[t] \in {"casUpgrade", "freeState"} /\ found'[t] = Tail(found[t])
  BY <1>2, <1>3 DEF Goto, TypeInv, ThreadTypes
<1>5. /\ Len(found[t]) \in Nat /\ Len(found'[t]) = Len(found[t]) - 1
      /\ \A i \in 1 .. Len(found'[t]) : found'[t][i] = found[t][i + 1]
  BY <1>2, <1>4, HeadTailProperties, LenProperties
<1>6. Remaining(t)' = Remaining(t)
  <2>1. \A d : (\E i \in 1 .. Len(found'[t]) : d = found'[t][i]) <=>
               \E i \in 1 .. Len(found[t]) : d = found[t][i] /\ i # 1
    <3> TAKE d
    <3>1. ASSUME NEW i \in 1 .. Len(found'[t]), d = found'[t][i]
          PROVE  \E j \in 1 .. Len(found[t]) : d = found[t][j] /\ j # 1
      BY <1>5, <3>1
    <3>2. ASSUME NEW i \in 1 .. Len(found[t]), d = found[t][i], i # 1
          PROVE  \E j \in 1 .. Len(found'[t]) : d = found'[t][j]
      <4>1. i \in Nat /\ i - 1 \in 1 .. Len(found'[t]) /\ (i - 1) + 1 = i
        BY <1>5, <3>2
      <4>2. found'[t][i - 1] = found[t][(i - 1) + 1]
        BY <1>5, <4>1
      <4> QED BY <3>2, <4>1, <4>2
    <3> QED BY <3>1, <3>2
  <2> QED BY <1>0, <1>4, <2>1 DEF Remaining
<1>7. /\ NoneHeld({n} \cup Above[n]) /\ lockState[n] = 0
      /\ \A d \in Below[n] : HeldBy(d) = {} \/ HeldBy(d) = {call[t].user}
      /\ \E d \in Below[n] : HeldBy(d) # {}
      /\ \A i \in 1 .. Len(found[t]) : found[t][i] \in Below[n] /\ HeldBy(found[t][i]) # {}
      /\ \A m \in Node \ {n} :
            IF m \in Below[n] /\ HeldBy(m) # {} /\ m \notin Remaining(t)
            THEN lockState[m] = 0 /\ lockedBy[m] = NoUser
            ELSE Faithful(m)
  BY <1>0, <1>2 DEF ExchangingOK
<1>8. \A i \in 1 .. Len(found'[t]) : found'[t][i] \in Below[n] /\ HeldBy(found'[t][i]) # {}
  <2> TAKE i \in 1 .. Len(found'[t])
  <2>1. i + 1 \in 1 .. Len(found[t]) /\ found'[t][i] = found[t][i + 1]
    BY <1>5
  <2> QED BY <1>7, <2>1
<1>9. ASSUME NEW m \in Node \ {n}
      PROVE  IF m \in Below[n] /\ HeldBy(m) # {} /\ m \notin Remaining(t)'
             THEN /\ lockState'[m] = 0
                  /\ lockedBy'[m] = NoUser \/ (pc'[t] = "freeOwner" /\ m = Head(found'[t]))
             ELSE /\ Faithful(m)
                  /\ lockState'[m] = lockState[m] /\ lockedBy'[m] = lockedBy[m]
  BY <1>3, <1>6, <1>7
<1>10. lockState'[n] = 0 /\ pc'[t] \notin {"setOwner", "inform"}
  BY <1>3, <1>4, <1>7
<1> QED BY <1>1, <1>2, <1>3, <1>4, <1>7, <1>8, <1>9, <1>10, ExchangeStep

\* The CAS of upgradeLock() succeeds, and its node gets its owner.
LEMMA UpgradeSolo ==
    ASSUME OneThread, SoloInv, ClaimInv', NEW t \in Thread,
           CasUpgrade(t) \/ (SetOwner(t) /\ call[t].op = "upgrade")
    PROVE  SoloInv'
<1>0. Exchanging(t) /\ pc[t] \in {"casUpgrade", "setOwner"}
  BY DEF CasUpgrade, SetOwner, Exchanging
<1>1. PICK n \in Node : n = call[t].node
  BY <1>0, ExchangeFacts
<1>2. /\ TypeInv /\ call[t].op = "upgrade" /\ found[t] = <<>> /\ ExchangingOK(t, n)
  BY <1>0, <1>1, ExchangeFacts
<1>3. /\ NoneHeld({n} \cup Above[n])
      /\ pc[t] = "casUpgrade" => lockState[n] = 0
      /\ pc[t] = "setOwner" => lockState[n] = 1
      /\ \A d \in Below[n] : HeldBy(d) = {} \/ HeldBy(d) = {call[t].user}
      /\ \E d \in Below[n] : HeldBy(d) # {}
      /\ \A m \in Node \ {n} :
            IF m \in Below[n] /\ HeldBy(m) # {} /\ m \notin Remaining(t)
            THEN lockState[m] = 0 /\ lockedBy[m] = NoUser
            ELSE Faithful(m)
  BY <1>0, <1>2 DEF ExchangingOK
<1>4. /\ pc'[t] \in {"setOwner", "inform"} /\ UNCHANGED <<call, found, held>>
      /\ lockState'[n] = 1 /\ (pc'[t] = "inform" => lockedBy'[n] = call[t].user)
      /\ \A m \in Node \ {n} : lockState'[m] = lockState[m] /\ lockedBy'[m] = lockedBy[m]
  <2>1. CASE CasUpgrade(t)
    <3>1. Proceed(t, "setOwner") /\ lockState' = [lockState EXCEPT ![n] = 1] /\ UNCHANGED lockedBy
      BY <1>1, <1>3, <2>1 DEF CasUpgrade
    <3> QED BY <1>2, <3>1, ProceedAlone DEF Proceed, TypeInv, NodeTypes
  <2>2. CASE SetOwner(t)
    <3>1. /\ StartInform(t, n) /\ lockedBy' = [lockedBy EXCEPT ![n] = call[t].user]
          /\ UNCHANGED lockState /\ pc[t] = "setOwner"
      BY <1>1, <2>2 DEF SetOwner
    <3> QED BY <1>2, <1>3, <3>1, StartInformAlone DEF StartInform, TypeInv, NodeTypes
  <2> QED BY <2>1, <2>2
<1>5. Remaining(t) = {} /\ Remaining(t)' = {}
  <2>1. Len(found[t]) = 0 /\ Len(found'[t]) = 0
    BY <1>2, <1>4, EmptySeq
  <2> QED BY <2>1 DEF Remaining
<1>6. \A i \in 1 .. Len(found'[t]) : found'[t][i] \in Below[n] /\ HeldBy(found'[t][i]) # {}
  BY <1>2, <1>4, EmptySeq
<1> QED BY <1>1, <1>2, <1>3, <1>4, <1>5, <1>6, ExchangeStep
-----------------------------------------------------------------------------
\* What a call changes when it returns true.

LEMMA HeldByIs ==
    ASSUME OneThread, NEW t \in Thread
    PROVE  /\ \A m : HeldBy(m) = {v \in User : <<m, v>> \in held[t]}
           /\ \A m : HeldBy(m)' = {v \in User : <<m, v>> \in held'[t]}
  BY DEF OneThread, HeldBy

\* The results so far leave n free to be locked, or its locks below free to be
\* exchanged for it by u.
PathOpen(n) == NoneHeld({n} \cup Above[n] \cup Below[n])

UpgradeOpen(n, u) ==
    /\ NoneHeld({n} \cup Above[n])
    /\ \E d \in Below[n] : HeldBy(d) # {}
    /\ \A d \in Below[n] : HeldBy(d) = {} \/ HeldBy(d) = {u}

Granted(n, u) == \A m \in Node : HeldBy(m)' = IF m = n THEN {u} ELSE HeldBy(m)

GivenBack(n) == \A m \in Node : HeldBy(m)' = IF m = n THEN {} ELSE HeldBy(m)

Exchanged(n, u) ==
    \A m \in Node : HeldBy(m)' = IF m = n THEN {u} ELSE IF m \in Below[n] THEN {} ELSE HeldBy(m)

\* A call that returns true leaves every node as the results now say.
LEMMA ReturnsTrue ==
    ASSUME OneThread, SoloInv, NEW t \in Thread, InformDone(t), found[t] = <<>>,
           NEW n, NEW u, n = call[t].node, u = call[t].user
    PROVE  /\ n \in Node /\ u \in User /\ pc'[t] = "idle" /\ call[t].op \in {"lock", "unlock", "upgrade"}
           /\ call[t].op = "lock" => Granted(n, u) /\ PathOpen(n)
           /\ call[t].op = "unlock" => GivenBack(n) /\ HeldBy(n) = {u}
           /\ call[t].op = "upgrade" => Exchanged(n, u) /\ UpgradeOpen(n, u)
           /\ \A m \in Node : Faithful(m)'
<1>1. /\ TypeInv /\ n \in Node /\ pc[t] = "inform" /\ UNCHANGED <<lockState, lockedBy>>
      /\ SoloOK(t, n) /\ call[t].op \in {"lock", "unlock", "upgrade"} /\ u \in User
  <2>1. TypeInv /\ n \in Node /\ pc[t] = "inform" /\ UNCHANGED <<lockState, lockedBy>> /\ SoloOK(t, n)
    BY RunningCall DEF InformDone, nodeVars, SoloInv, ClaimInv, BalanceInv
  <2>2. call[t].op \in Ops /\ call[t].op # "none" /\ u \in UsersOf[t]
    BY <2>1 DEF TypeInv, ThreadTypes, ControlOK
  <2> QED BY <2>1, <2>2, UserTypes DEF Ops
<1>2. \E h : Return(t, h)
  BY DEF InformDone
<1>3. pc'[t] = "idle"
  BY <1>1, <1>2 DEF Return, Goto, TypeInv, ThreadTypes
<1>4. \A m \in Node : HeldBy(m) \subseteq User
  BY DEF HeldBy
<1>5. CASE call[t].op = "lock"
  <2>1. /\ FaithfulBut(n) /\ NoneHeld({n} \cup Above[n] \cup Below[n])
        /\ lockState[n] = 1 /\ lockedBy[n] = u
    BY <1>1, <1>5 DEF SoloOK, LockingOK
  <2>2. held'[t] = held[t] \cup {<<n, u>>}
    BY <1>1, <1>5 DEF InformDone, Return, TypeInv, ThreadTypes
  <2>3. Granted(n, u)
    <3> SUFFICES ASSUME NEW m \in Node PROVE HeldBy(m)' = IF m = n THEN {u} ELSE HeldBy(m)
      BY DEF Granted
    <3>1. HeldBy(m)' = {v \in User : <<m, v>> \in held[t] \/ <<m, v>> = <<n, u>>}
      BY <2>2, HeldByIs
    <3>2. HeldBy(m) = {v \in User : <<m, v>> \in held[t]}
      BY HeldByIs
    <3>3. m = n => HeldBy(m) = {}
      BY <2>1 DEF NoneHeld
    <3> QED BY <1>1, <3>1, <3>2, <3>3
  <2>4. \A m \in Node : Faithful(m)'
    BY <1>1, <2>1, <2>3 DEF FaithfulBut, Faithful, Granted
  <2> QED BY <1>1, <1>3, <1>5, <2>1, <2>3, <2>4 DEF PathOpen
<1>6. CASE call[t].op = "unlock"
  <2>1. /\ FaithfulBut(n) /\ lockState[n] = 0 /\ lockedBy[n] = NoUser /\ HeldBy(n) = {u}
    BY <1>1, <1>6 DEF SoloOK, UnlockingOK
  <2>2. held'[t] = held[t] \ {<<n, u>>}
    BY <1>1, <1>6 DEF InformDone, Return, TypeInv, ThreadTypes
  <2>3. GivenBack(n)
    <3> SUFFICES ASSUME NEW m \in Node PROVE HeldBy(m)' = IF m = n THEN {} ELSE HeldBy(m)
      BY DEF GivenBack
    <3>1. HeldBy(m)' = {v \in User : <<m, v>> \in held[t] /\ <<m, v>> # <<n, u>>}
      BY <2>2, HeldByIs
    <3>2. HeldBy(m) = {v \in User : <<m, v>> \in held[t]}
      BY HeldByIs
    <3>3. CASE m = n
      <4>1. \A v \in User : <<m, v>> \in held[t] => v = u
        BY <2>1, <3>2, <3>3
      <4> QED BY <3>1, <3>3, <4>1
    <3>4. CASE m # n
      BY <3>1, <3>2, <3>4
    <3> QED BY <3>3, <3>4
  <2>4. \A m \in Node : Faithful(m)'
    BY <1>1, <2>1, <2>3 DEF FaithfulBut, Faithful, GivenBack
  <2> QED BY <1>1, <1>3, <1>6, <2>1, <2>3, <2>4
<1>7. CASE call[t].op = "upgrade"
  <2>0. Remaining(t) = {} /\ n \notin Below[n]
    <3>1. Len(found[t]) = 0
      BY EmptySeq
    <3> QED BY <1>1, <3>1, BelowIs, AboveFacts DEF Remaining
  <2>1. /\ NoneHeld({n} \cup Above[n]) /\ lockState[n] = 1 /\ lockedBy[n] = u
        /\ \A d \in Below[n] : HeldBy(d) = {} \/ HeldBy(d) = {u}
        /\ \E d \in Below[n] : HeldBy(d) # {}
        /\ \A m \in Node \ {n} :
              IF m \in Below[n] /\ HeldBy(m) # {} THEN lockState[m] = 0 /\ lockedBy[m] = NoUser
              ELSE Faithful(m)
    BY <1>1, <1>7, <2>0 DEF SoloOK, ExchangingOK, Exchanging
  <2>2. held'[t] = {h \in held[t] : h[1] \notin Below[n] \/ h[2] # u} \cup {<<n, u>>}
    BY <1>1, <1>7 DEF InformDone, Return, TypeInv, ThreadTypes
  <2>3. Exchanged(n, u)
    <3> SUFFICES ASSUME NEW m \in Node
                 PROVE  HeldBy(m)' = IF m = n THEN {u} ELSE IF m \in Below[n] THEN {} ELSE HeldBy(m)
      BY DEF Exchanged
    <3>1. HeldBy(m)' = {v \in User : \/ <<m, v>> \in held[t] /\ (m \notin Below[n] \/ v # u)
                                     \/ <<m, v>> = <<n, u>>}
      BY <2>2, HeldByIs
    <3>2. HeldBy(m) = {v \in User : <<m, v>> \in held[t]}
      BY HeldByIs
    <3>3. CASE m = n
      <4>1. HeldBy(m) = {}
        BY <2>1, <3>3 DEF NoneHeld
      <4> QED BY <1>1, <3>1, <3>2, <3>3, <4>1
    <3>4. CASE m # n /\ m \in Below[n]
      <4>1. \A v \in User : <<m, v>> \in held[t] => v = u
        BY <2>1, <3>2, <3>4
      <4> QED BY <3>1, <3>4, <4>1
    <3>5. CASE m # n /\ m \notin Below[n]
      BY <3>1, <3>2, <3>5
    <3> QED BY <3>3, <3>4, <3>5
  <2>4. ASSUME NEW m \in Node PROVE Faithful(m)'
    <3>1. CASE m = n
      BY <1>1, <2>1, <2>3, <3>1 DEF Faithful, Exchanged
    <3>2. CASE m # n /\ m \in Below[n]
      BY <1>1, <2>1, <2>3, <3>2, FaithfulLocked DEF Faithful, Exchanged
    <3>3. CASE m # n /\ m \notin Below[n]
      BY <1>1, <2>1, <2>3, <3>3 DEF Faithful, Exchanged
    <3> QED BY <3>1, <3>2, <3>3
  <2>5. UpgradeOpen(n, u)
    BY <2>1 DEF UpgradeOpen
  <2> QED BY <1>1, <1>3, <1>7, <2>3, <2>4, <2>5
<1> QED BY <1>1, <1>5, <1>6, <1>7

LEMMA ReturnSolo ==
    ASSUME OneThread, SoloInv, ClaimInv', NEW t \in Thread, InformDone(t), found[t] = <<>>
    PROVE  SoloInv'
<1>0. PICK n \in Node : n = call[t].node
  BY RunningCall DEF InformDone, SoloInv, ClaimInv, BalanceInv
<1> DEFINE u == call[t].user
<1> HIDE DEF u
<1>1. /\ n \in Node /\ pc'[t] = "idle"
      /\ \A m \in Node : Faithful(m)'
      /\ \/ Granted(n, u) /\ PathOpen(n)
         \/ GivenBack(n)
         \/ Exchanged(n, u) /\ UpgradeOpen(n, u)
  <2>1. /\ n \in Node /\ pc'[t] = "idle" /\ \A m \in Node : Faithful(m)'
        /\ call[t].op \in {"lock", "unlock", "upgrade"}
    BY <1>0, ReturnsTrue DEF u
  <2>2. call[t].op = "lock" => Granted(n, u) /\ PathOpen(n)
    BY <1>0, ReturnsTrue DEF u
  <2>3. call[t].op = "unlock" => GivenBack(n)
    BY <1>0, ReturnsTrue DEF u
  <2>4. call[t].op = "upgrade" => Exchanged(n, u) /\ UpgradeOpen(n, u)
    BY <1>0, ReturnsTrue DEF u
  <2> QED BY <2>1, <2>2, <2>3, <2>4
<1>2. Exclusive
  BY DEF SoloInv
<1>3. ASSUME NEW m \in Node, NEW v \in HeldBy(m)', NEW w \in HeldBy(m)' PROVE v = w
  BY <1>1, <1>2, <1>3 DEF Exclusive, Granted, GivenBack, Exchanged
<1>4. ASSUME NEW m \in Node, HeldBy(m)' # {}, NEW a \in Above[m] PROVE HeldBy(a)' = {}
  <2>1. a \in Node /\ a # m /\ m \in Below[a] /\ (HeldBy(m) # {} => HeldBy(a) = {})
    BY <1>2, AboveFacts, BelowIs DEF Exclusive, NoneHeld
  <2>2. CASE Granted(n, u) /\ PathOpen(n)
    BY <1>4, <2>1, <2>2 DEF Granted, PathOpen, NoneHeld
  <2>3. CASE GivenBack(n)
    BY <1>4, <2>1, <2>3 DEF GivenBack
  <2>4. CASE Exchanged(n, u) /\ UpgradeOpen(n, u)
    BY <1>4, <2>1, <2>4 DEF Exchanged, UpgradeOpen, NoneHeld
  <2> QED BY <1>1, <2>2, <2>3, <2>4
<1>5. Exclusive'
  BY <1>3, <1>4 DEF Exclusive, NoneHeld
<1>6. \A s \in Thread : s = t
  BY DEF OneThread
<1>7. SoloOK(t, call[t].node)'
  BY <1>1, RestOK
<1> QED BY <1>5, <1>6, <1>7 DEF SoloInv

LEMMA SoloInit == ASSUME OneThread PROVE Init => SoloInv
<1> SUFFICES ASSUME Init PROVE SoloInv
  OBVIOUS
<1>1. ClaimInv
  BY ClaimInit
<1>2. \A m \in Node : HeldBy(m) = {} /\ Faithful(m)
  BY DEF Init, HeldBy, Faithful
<1>3. Exclusive
  BY <1>2 DEF Exclusive
<1>4. ASSUME NEW t \in Thread PROVE SoloOK(t, call[t].node)
  BY <1>2 DEF Init, SoloOK, LooksOK, LockingOK, UnlockingOK, ScanningOK, ExchangingOK, Exchanging
<1> QED BY <1>1, <1>3, <1>4 DEF SoloInv

LEMMA SetOwnerOp ==
    ASSUME TypeInv, NEW t \in Thread, pc[t] = "setOwner"
    PROVE  call[t].op \in {"lock", "upgrade"}
  BY RunningCall DEF TypeInv, ControlOK, FitsOp, UnlockLabels

LEMMA SoloNext ==
    ASSUME OneThread, SoloInv, [Next]_vars
    PROVE  SoloInv'
<1>1. ClaimInv'
  BY OneThreadIsDisjoint, ClaimNext DEF SoloInv
<1>2. CASE UNCHANGED vars
  <2>1. UNCHANGED <<nodeVars, casRetries, threadVars>>
    BY <1>2 DEF vars
  <2>2. UNCHANGED <<lockState, lockedBy, pc, call, work, found, held>>
    BY <2>1 DEF nodeVars, threadVars
  <2>3. ASSUME NEW t \in Thread PROVE SoloOK(t, call[t].node)'
    <3>1. SoloOK(t, call[t].node)
      BY DEF SoloInv
    <3>2. /\ \A m : HeldBy(m)' = HeldBy(m)
          /\ \A m : Faithful(m)' <=> Faithful(m)
          /\ \A S : NoneHeld(S)' <=> NoneHeld(S)
          /\ FaithfulBut(call[t].node)' <=> FaithfulBut(call[t].node)
          /\ Remaining(t)' = Remaining(t)
          /\ Reach(work[t])' = Reach(work[t])
      BY <2>2, HeldKept, FaithfulKept DEF FaithfulBut, Remaining, Reach
    <3> QED BY <2>2, <3>1, <3>2
            DEF SoloOK, LooksOK, LockingOK, UnlockingOK, ScanningOK, ExchangingOK, Exchanging
  <2>4. Exclusive'
    BY <2>2, HeldKept DEF SoloInv, Exclusive, NoneHeld
  <2> QED BY <1>1, <2>3, <2>4 DEF SoloInv
<1>3. ASSUME NEW t \in Thread, Call(t) \/ Step(t) PROVE SoloInv'
  <2>1. CASE Call(t)
    BY <1>1, <2>1, CallSolo
  <2>2. CASE LoadAncestors(t) \/ LoadDescendants(t) \/ CasLockSpurious(t) \/ CheckState(t)
    BY <1>1, <2>2, LookSolo
  <2>3. CASE CasLock(t) \/ RecheckAncestors(t) \/ RecheckDescendants(t)
    BY <1>1, <2>3, LockSolo
  <2>4. CASE SetOwner(t)
    <3>1. call[t].op \in {"lock", "upgrade"}
      BY <2>4, SetOwnerOp DEF SetOwner, SoloInv, ClaimInv, BalanceInv
    <3> QED BY <1>1, <2>4, <3>1, LockSolo, UpgradeSolo
  <2>5. ~Rollback(t)
    BY DEF Rollback, SoloInv, SoloOK, LockingOK
  <2>6. CASE InformAncestor(t) \/ InformDescendant(t)
    BY <1>1, <2>6, InformSolo
  <2>7. CASE InformDone(t)
    BY <1>1, <2>7, ReleaseDoneSolo, ReturnSolo
  <2>8. CASE CheckOwner(t) \/ ClearOwner(t) \/ CasFree(t) \/ RestoreOwner(t)
    BY <1>1, <2>8, UnlockSolo
  <2>9. CASE CheckAncestors(t) \/ ScanState(t) \/ ScanOwner(t)
    BY <1>1, <2>9, ScanSolo
  <2>10. CASE ScanDone(t)
    BY <1>1, <2>10, ScanDoneSolo
  <2>11. CASE FreeState(t) \/ FreeOwner(t)
    BY <1>1, <2>11, FreeStateSolo, FreeOwnerSolo
  <2>12. CASE CasUpgrade(t)
    BY <1>1, <2>12, UpgradeSolo
  <2> QED BY <1>3, <2>1, <2>2, <2>3, <2>4, <2>5, <2>6, <2>7, <2>8, <2>9, <2>10, <2>11, <2>12 DEF Step
<1> QED BY <1>2, <1>3 DEF Next

LEMMA SoloInvCorrect == ASSUME OneThread PROVE Spec => []SoloInv
  BY SoloInit, SoloNext, PTL DEF Spec
-----------------------------------------------------------------------------
\* The abstract hierarchy, seen through the results of calls.

\* The client's tree is the tree.
LEMMA ClientTree ==
    /\ Client!IsForest(Parent)
    /\ \A n \in Node : Client!Ancestors(Parent, n) = Above[n]
    /\ \A n \in Node : Client!Descendants(Parent, n) = Below[n]
<1>1. Client!AncestorMap(Parent) = AncestorMap(Parent)
  BY DEF Client!AncestorMap, AncestorMap
<1>2. \A x : Client!Ancestors(Parent, x) = Ancestors(Parent, x)
  BY <1>1 DEF Client!Ancestors, Ancestors
<1>3. IsForest(Parent) /\ DOMAIN Parent = Node
  BY TreeAssumption
<1>4. \A n \in Node : Above[n] = Ancestors(Parent, n)
  BY DEF Above
<1>5. Client!IsForest(Parent)
  BY <1>3 DEF Client!IsForest, IsForest
<1>6. \A n \in Node : Client!Descendants(Parent, n) = Below[n]
  BY <1>2, <1>3, <1>4, BelowIs DEF Client!Descendants
<1> QED BY <1>2, <1>4, <1>5, <1>6

\* The owner a client sees.
LEMMA ClientOwner ==
    ASSUME NEW m \in Node
    PROVE  /\ OwnerTold[m] = NoUser <=> HeldBy(m) = {}
           /\ \A u : HeldBy(m) = {u} => OwnerTold[m] = u
           /\ HeldBy(m) # {} => OwnerTold[m] \in HeldBy(m)
<1>1. OwnerTold[m] = IF HeldBy(m) = {} THEN NoUser ELSE CHOOSE u \in HeldBy(m) : TRUE
  BY DEF OwnerTold
<1>2. HeldBy(m) \subseteq User /\ NoUser \notin User
  BY CallerAssumption DEF HeldBy
<1>3. HeldBy(m) # {} => OwnerTold[m] \in HeldBy(m)
  BY <1>1
<1> QED BY <1>1, <1>2, <1>3

LEMMA ClientGrants ==
    ASSUME NEW n \in Node
    PROVE  Client!Grantable(n) <=> PathOpen(n)
<1>1. Client!Owned = {m \in Node : HeldBy(m) # {}}
  BY ClientOwner DEF Client!Owned
<1>2. Above[n] \subseteq Node /\ Below[n] \subseteq Node
  BY AboveFacts, BelowIs
<1> QED BY <1>1, <1>2, ClientTree DEF Client!Grantable, PathOpen, NoneHeld

LEMMA ClientUpgrades ==
    ASSUME SoloInv, NEW n \in Node, NEW u \in User
    PROVE  Client!Upgradable(n, u) <=> UpgradeOpen(n, u)
<1>1. Client!Owned = {m \in Node : HeldBy(m) # {}}
  BY ClientOwner DEF Client!Owned
<1>2. Above[n] \subseteq Node /\ Below[n] \subseteq Node
  BY AboveFacts, BelowIs
<1>3. \A d \in Below[n] : HeldBy(d) # {} => (OwnerTold[d] = u <=> HeldBy(d) = {u})
  <2> TAKE d \in Below[n]
  <2> SUFFICES ASSUME HeldBy(d) # {} PROVE OwnerTold[d] = u <=> HeldBy(d) = {u}
    OBVIOUS
  <2>1. d \in Node /\ OwnerTold[d] \in HeldBy(d)
    BY <1>2, ClientOwner
  <2>2. \A v, w \in HeldBy(d) : v = w
    BY <2>1 DEF SoloInv, Exclusive
  <2>3. HeldBy(d) = {OwnerTold[d]}
    BY <2>1, <2>2
  <2> QED BY <2>3
<1> QED BY <1>1, <1>2, <1>3, ClientTree DEF Client!Upgradable, UpgradeOpen, NoneHeld

\* Only the return of a call that succeeds changes what its callers hold.
LEMMA HeldChanges ==
    ASSUME SoloInv, NEW t \in Thread, Call(t) \/ Step(t)
    PROVE  UNCHANGED held \/ (InformDone(t) /\ found[t] = <<>>)
<1>0. TypeInv
  BY DEF SoloInv, ClaimInv, BalanceInv
<1>1. ReturnFalse(t) => UNCHANGED held
  <2> SUFFICES ASSUME ReturnFalse(t) PROVE UNCHANGED held
    OBVIOUS
  <2>1. held' = [held EXCEPT ![t] = held[t]]
    BY DEF ReturnFalse, Return
  <2> QED BY <1>0, <2>1 DEF TypeInv, ThreadTypes
<1>2. CASE Call(t)
  BY <1>2 DEF Call, CallLock, CallUnlock, CallUpgrade, Begin
<1>3. CASE \/ LoadAncestors(t) \/ LoadDescendants(t) \/ CasLock(t) \/ CasLockSpurious(t)
           \/ RecheckAncestors(t) \/ RecheckDescendants(t) \/ Rollback(t) \/ SetOwner(t)
  BY <1>1, <1>3 DEF LoadAncestors, LoadDescendants, CasLock, CasLockSpurious, RecheckAncestors,
     RecheckDescendants, Rollback, SetOwner, Proceed, StartInform, threadVars
<1>4. CASE \/ InformAncestor(t) \/ InformDescendant(t)
           \/ CheckOwner(t) \/ ClearOwner(t) \/ CasFree(t) \/ RestoreOwner(t)
  BY <1>1, <1>4 DEF InformAncestor, InformDescendant, CheckOwner, ClearOwner, CasFree, RestoreOwner,
     Proceed, StartInform
<1>5. CASE \/ CheckState(t) \/ CheckAncestors(t) \/ ScanState(t) \/ ScanOwner(t)
           \/ ScanDone(t) \/ FreeState(t) \/ FreeOwner(t) \/ CasUpgrade(t)
  BY <1>1, <1>5 DEF CheckState, CheckAncestors, ScanState, ScanOwner, ScanDone, FreeState, FreeOwner,
     CasUpgrade, Proceed, StartInform
<1>6. CASE InformDone(t)
  BY <1>6 DEF InformDone
<1> QED BY <1>2, <1>3, <1>4, <1>5, <1>6 DEF Step

\* What a return does to the owners a client sees.
LEMMA ToldAfter ==
    ASSUME NEW m \in Node
    PROVE  /\ OwnerTold'[m] = IF HeldBy(m)' = {} THEN NoUser ELSE CHOOSE u \in HeldBy(m)' : TRUE
           /\ \A u : HeldBy(m)' = {u} => OwnerTold'[m] = u
           /\ HeldBy(m)' = HeldBy(m) => OwnerTold'[m] = OwnerTold[m]
           /\ HeldBy(m)' = {} => OwnerTold'[m] = NoUser
<1>1. OwnerTold'[m] = IF HeldBy(m)' = {} THEN NoUser ELSE CHOOSE u \in HeldBy(m)' : TRUE
  BY DEF OwnerTold
<1>2. OwnerTold[m] = IF HeldBy(m) = {} THEN NoUser ELSE CHOOSE u \in HeldBy(m) : TRUE
  BY DEF OwnerTold
<1>3. ASSUME NEW u, HeldBy(m)' = {u} PROVE OwnerTold'[m] = u
  <2>1. HeldBy(m)' # {} /\ \A v \in HeldBy(m)' : v = u
    BY <1>3
  <2> QED BY <1>1, <2>1
<1>4. HeldBy(m)' = HeldBy(m) => OwnerTold'[m] = OwnerTold[m]
  BY <1>1, <1>2
<1> QED BY <1>1, <1>3, <1>4

\* A call that returns true is an operation of the hierarchy.
LEMMA ReturnImplements ==
    ASSUME OneThread, SoloInv, NEW t \in Thread, InformDone(t), found[t] = <<>>
    PROVE  Client!Next
<1>0. PICK n \in Node : n = call[t].node
  BY RunningCall DEF InformDone, SoloInv, ClaimInv, BalanceInv
<1>1. PICK u \in User : u = call[t].user
  BY RunningCall DEF InformDone, SoloInv, ClaimInv, BalanceInv
<1>2. call[t].op \in {"lock", "unlock", "upgrade"}
  BY RunningCall DEF InformDone, SoloInv, ClaimInv, BalanceInv
<1>3. DOMAIN OwnerTold = Node /\ OwnerTold = [m \in Node |-> OwnerTold[m]]
  BY DEF OwnerTold
<1>4. OwnerTold' = [m \in Node |-> OwnerTold'[m]]
  BY DEF OwnerTold
<1>5. CASE call[t].op = "lock"
  <2>1. Granted(n, u) /\ PathOpen(n)
    BY <1>0, <1>1, <1>5, ReturnsTrue
  <2>2. \A m \in Node : OwnerTold'[m] = IF m = n THEN u ELSE OwnerTold[m]
    BY <2>1, ToldAfter DEF Granted
  <2>3. OwnerTold' = [OwnerTold EXCEPT ![n] = u]
    BY <1>3, <1>4, <2>2
  <2>4. Client!Acquire(n, u)
    BY <2>1, <2>3, ClientGrants DEF Client!Acquire
  <2> QED BY <2>4 DEF Client!Next
<1>6. CASE call[t].op = "unlock"
  <2>1. GivenBack(n) /\ HeldBy(n) = {u}
    BY <1>0, <1>1, <1>6, ReturnsTrue
  <2>2. \A m \in Node : OwnerTold'[m] = IF m = n THEN NoUser ELSE OwnerTold[m]
    BY <2>1, ToldAfter DEF GivenBack
  <2>3. OwnerTold' = [OwnerTold EXCEPT ![n] = NoUser]
    BY <1>3, <1>4, <2>2
  <2>4. OwnerTold[n] = u
    BY <2>1, ClientOwner
  <2>5. Client!Release(n, u)
    BY <2>3, <2>4 DEF Client!Release
  <2> QED BY <2>5 DEF Client!Next
<1>7. CASE call[t].op = "upgrade"
  <2>1. Exchanged(n, u)
    BY <1>0, <1>1, <1>7, ReturnsTrue
  <2>2. UpgradeOpen(n, u)
    BY <1>0, <1>1, <1>7, ReturnsTrue
  <2>3. n \notin Below[n]
    BY AboveFacts, BelowIs
  <2>4. ASSUME NEW m \in Node
        PROVE  OwnerTold'[m] = IF m = n THEN u
                               ELSE IF OwnerTold[m] = u /\ m \in Below[n] THEN NoUser
                               ELSE OwnerTold[m]
    <3>1. CASE m = n
      BY <2>1, <3>1, ToldAfter DEF Exchanged
    <3>2. CASE m # n /\ m \in Below[n]
      <4>1. OwnerTold'[m] = NoUser
        BY <2>1, <3>2, ToldAfter DEF Exchanged
      <4>2. OwnerTold[m] = NoUser \/ OwnerTold[m] = u
        BY <2>2, <3>2, ClientOwner DEF UpgradeOpen
      <4> QED BY <3>2, <4>1, <4>2
    <3>3. CASE m # n /\ m \notin Below[n]
      BY <2>1, <3>3, ToldAfter DEF Exchanged
    <3> QED BY <3>1, <3>2, <3>3
  <2>5. Client!Upgradable(n, u) /\ Client!Descendants(Parent, n) = Below[n]
    BY <2>2, ClientUpgrades, ClientTree
  <2>6. OwnerTold' = [x \in Node |-> IF x = n THEN u
                                     ELSE IF OwnerTold[x] = u /\ x \in Client!Descendants(Parent, n)
                                          THEN NoUser
                                     ELSE OwnerTold[x]]
    BY <1>4, <2>4, <2>5
  <2>7. Client!Upgrade(n, u)
    BY <2>5, <2>6 DEF Client!Upgrade
  <2> QED BY <2>7 DEF Client!Next
<1> QED BY <1>2, <1>5, <1>6, <1>7

\* For one thread, whatever it locks, unlocks and upgrades and for whichever
\* users: each call takes effect as one operation of the abstract hierarchy.
\* upgradeLock() frees several nodes at different times, yet no result lets its
\* caller tell.
THEOREM SoloCallsAreAtomic == ASSUME OneThread PROVE Spec => CallsAreAtomic
<1>1. Init => Client!Init
  <2> SUFFICES ASSUME Init PROVE Client!Init
    OBVIOUS
  <2>1. \A m \in Node : HeldBy(m) = {}
    BY DEF Init, HeldBy
  <2>2. OwnerTold = [m \in Node |-> NoUser]
    BY <2>1 DEF OwnerTold
  <2> QED BY <2>2, ClientTree, TreeAssumption DEF Client!Init
<1>2. ASSUME SoloInv, [Next]_vars PROVE [Client!Next]_(Client!vars)
  <2>1. ASSUME UNCHANGED held PROVE [Client!Next]_(Client!vars)
    BY <2>1 DEF Client!vars, OwnerTold, HeldBy
  <2>2. CASE UNCHANGED vars
    BY <2>1, <2>2 DEF vars, threadVars
  <2>3. ASSUME NEW t \in Thread, Call(t) \/ Step(t) PROVE [Client!Next]_(Client!vars)
    BY <1>2, <2>1, <2>3, HeldChanges, ReturnImplements
  <2> QED BY <1>2, <2>2, <2>3 DEF Next
<1> QED BY <1>1, <1>2, SoloInvCorrect, PTL DEF Spec, CallsAreAtomic, Client!Spec

\* What a refused call has read conflicts with the results so far.
LEMMA RefusedLock ==
    ASSUME OneThread, SoloInv, NEW t \in Thread, NEW n \in Node, n = call[t].node,
           (LoadAncestors(t) \/ LoadDescendants(t) \/ CasLock(t)), ReturnFalse(t)
    PROVE  call[t].op = "lock" /\ ~PathOpen(n)
<1>1. /\ TypeInv /\ call[t].op = "lock" /\ Calm(pc[t])
      /\ \A m \in Node : Faithful(m)
      /\ pc'[t] = "idle"
  <2>1. TypeInv
    BY DEF SoloInv, ClaimInv, BalanceInv
  <2>2. pc[t] \in {"loadAncestors", "loadDescendants", "cas"}
    BY DEF LoadAncestors, LoadDescendants, CasLock
  <2>3. call[t].op = "lock"
    BY <2>1, <2>2 DEF TypeInv, ControlOK, FitsOp, LockLabels
  <2> QED BY <2>1, <2>2, <2>3, ReturnFalseAlone DEF Calm, SoloInv, SoloOK, LooksOK
<1>2. CASE LoadAncestors(t)
  <2>1. ancestorLockedCount[n] > 0
    BY <1>1, <1>2, ProceedAlone DEF LoadAncestors
  <2>2. PICK a \in Above[n] : lockState[a] = 1
    BY <1>1, <2>1, CountersTell
  <2>3. HeldBy(a) # {}
    BY <1>1, <2>2, AboveFacts, FaithfulLocked
  <2> QED BY <1>1, <2>2, <2>3 DEF PathOpen, NoneHeld
<1>3. CASE LoadDescendants(t)
  <2>1. descendantLockedCount[n] > 0
    BY <1>1, <1>3, ProceedAlone DEF LoadDescendants
  <2>2. PICK d \in Below[n] : lockState[d] = 1
    BY <1>1, <2>1, CountersTell
  <2>3. HeldBy(d) # {}
    BY <1>1, <2>2, BelowIs, FaithfulLocked
  <2> QED BY <1>1, <2>2, <2>3 DEF PathOpen, NoneHeld
<1>4. CASE CasLock(t)
  <2>1. lockState[n] # 0
    BY <1>1, <1>4, ProceedAlone DEF CasLock
  <2>2. HeldBy(n) # {}
    BY <1>1, <2>1, FaithfulLocked
  <2> QED BY <1>1, <2>2 DEF PathOpen, NoneHeld
<1> QED BY <1>2, <1>3, <1>4

LEMMA RefusedUnlock ==
    ASSUME SoloInv, NEW t \in Thread, NEW n \in Node, n = call[t].node,
           CheckOwner(t), ReturnFalse(t)
    PROVE  call[t].op = "unlock" /\ call[t].user \notin HeldBy(n)
<1>1. TypeInv /\ pc[t] = "checkOwner"
  BY DEF SoloInv, ClaimInv, BalanceInv, CheckOwner
<1>2. call[t].op = "unlock" /\ Faithful(n)
  BY <1>1 DEF TypeInv, ControlOK, FitsOp, UnlockLabels, SoloInv, SoloOK, LooksOK
<1>3. lockedBy[n] # call[t].user
  BY <1>1, ReturnFalseAlone, ProceedAlone DEF CheckOwner
<1> QED BY <1>2, <1>3 DEF Faithful

LEMMA RefusedUpgrade ==
    ASSUME OneThread, SoloInv, NEW t \in Thread, NEW n \in Node, n = call[t].node,
           CheckState(t) \/ CheckAncestors(t) \/ ScanOwner(t) \/ ScanDone(t) \/ CasUpgrade(t),
           ReturnFalse(t)
    PROVE  call[t].op = "upgrade" /\ ~UpgradeOpen(n, call[t].user)
<1>1. /\ TypeInv /\ call[t].op = "upgrade" /\ pc'[t] = "idle"
      /\ pc[t] \in {"checkState", "checkAncestors", "scanState", "scanOwner", "casUpgrade"}
      /\ work[t] \in Seq(Node) /\ found[t] \in Seq(Node)
  <2>1. TypeInv
    BY DEF SoloInv, ClaimInv, BalanceInv
  <2>2. pc[t] \in {"checkState", "checkAncestors", "scanState", "scanOwner", "casUpgrade"}
    BY DEF CheckState, CheckAncestors, ScanOwner, ScanDone, CasUpgrade
  <2>3. call[t].op = "upgrade"
    BY <2>1, <2>2 DEF TypeInv, ControlOK, FitsOp, UpgradeLabels
  <2> QED BY <2>1, <2>2, <2>3, ReturnFalseAlone DEF TypeInv, ThreadTypes
<1>2. pc[t] # "casUpgrade" => Calm(pc[t]) /\ \A m \in Node : Faithful(m)
  BY <1>1 DEF Calm, SoloInv, SoloOK, LooksOK
<1>3. CASE CheckState(t)
  <2>1. lockState[n] # 0 /\ pc[t] = "checkState"
    BY <1>1, <1>3, ProceedAlone DEF CheckState
  <2>2. HeldBy(n) # {}
    BY <1>2, <2>1, FaithfulLocked
  <2> QED BY <1>1, <2>2 DEF UpgradeOpen, NoneHeld
<1>4. CASE CheckAncestors(t)
  <2>1. ancestorLockedCount[n] > 0 /\ pc[t] = "checkAncestors"
    BY <1>1, <1>4 DEF CheckAncestors, Goto, TypeInv, ThreadTypes
  <2>2. PICK a \in Above[n] : lockState[a] = 1
    BY <1>2, <2>1, CountersTell
  <2>3. HeldBy(a) # {}
    BY <1>2, <2>1, <2>2, AboveFacts, FaithfulLocked
  <2> QED BY <1>1, <2>2, <2>3 DEF UpgradeOpen, NoneHeld
<1>5. CASE ScanOwner(t)
  <2>1. pc[t] = "scanOwner" /\ lockedBy[Head(work[t])] # call[t].user /\ work[t] # <<>>
    BY <1>1, <1>5 DEF ScanOwner, Goto, TypeInv, ThreadTypes, ControlOK
  <2>2. lockState[Head(work[t])] = 1 /\ Reach(work[t]) \subseteq Below[n] /\ Apart(work[t])
    BY <2>1 DEF SoloInv, SoloOK, ScanningOK, ClaimInv, ClaimOK
  <2>3. PICK h \in Node : h = Head(work[t])
    BY <1>1, <2>1, HeadTailProperties
  <2>4. h \in Reach(work[t])
    BY <1>1, <2>1, <2>2, <2>3, VisitHead
  <2>5. HeldBy(h) = {lockedBy[h]}
    BY <1>2, <2>1, <2>2, <2>3 DEF Faithful
  <2> QED BY <1>1, <2>1, <2>2, <2>3, <2>4, <2>5 DEF UpgradeOpen
<1>6. CASE ScanDone(t)
  <2>1. pc[t] = "scanState" /\ work[t] = <<>> /\ found[t] = <<>>
    BY <1>1, <1>6, ProceedAlone DEF ScanDone
  <2>2. Reach(work[t]) = {} /\ Len(found[t]) = 0
    BY <2>1, EmptySeq DEF Reach
  <2>3. \A d \in Below[n] : HeldBy(d) = {}
    BY <2>1, <2>2 DEF SoloInv, SoloOK, ScanningOK
  <2> QED BY <1>1, <2>3 DEF UpgradeOpen
<1>7. ~CasUpgrade(t)
  <2> SUFFICES ASSUME CasUpgrade(t) PROVE FALSE
    OBVIOUS
  <2>1. lockState[n] # 0 /\ pc[t] = "casUpgrade"
    BY <1>1, ProceedAlone DEF CasUpgrade
  <2>2. lockState[n] = 0
    BY <2>1 DEF SoloInv, SoloOK, ExchangingOK, Exchanging
  <2> QED BY <2>1, <2>2
<1> QED BY <1>3, <1>4, <1>5, <1>6, <1>7

\* No call but these ends; one that ends without a change to what is held was
\* refused.
LEMMA EndsRefused ==
    ASSUME OneThread, SoloInv, NEW t \in Thread, Step(t), pc[t] # "idle", pc'[t] = "idle",
           ~(InformDone(t) /\ found[t] = <<>>)
    PROVE  /\ ReturnFalse(t)
           /\ \/ LoadAncestors(t) \/ LoadDescendants(t) \/ CasLock(t)
              \/ CheckOwner(t)
              \/ CheckState(t) \/ CheckAncestors(t) \/ ScanOwner(t) \/ ScanDone(t) \/ CasUpgrade(t)
<1>1. TypeInv
  BY DEF SoloInv, ClaimInv, BalanceInv
<1>2. \A l : Proceed(t, l) => pc'[t] = l
  BY <1>1, ProceedAlone
<1>3. \A n : StartInform(t, n) => pc'[t] = "inform"
  BY <1>1, StartInformAlone
<1>4. \A l : Goto(t, l) => pc'[t] = l
  BY <1>1 DEF Goto, TypeInv, ThreadTypes
<1>5. CASE LoadAncestors(t) \/ LoadDescendants(t) \/ CasLock(t)
  BY <1>2, <1>5 DEF LoadAncestors, LoadDescendants, CasLock
<1>6. ~(CasLockSpurious(t) \/ RecheckAncestors(t) \/ RecheckDescendants(t) \/ SetOwner(t))
  BY <1>2, <1>3 DEF CasLockSpurious, RecheckAncestors, RecheckDescendants, SetOwner, threadVars
<1>7. ~(Rollback(t) \/ RestoreOwner(t))
  BY DEF Rollback, RestoreOwner, SoloInv, SoloOK, LockingOK, ClaimInv, ClaimOK
<1>8. ~(InformAncestor(t) \/ InformDescendant(t) \/ InformDone(t))
  BY <1>4 DEF InformAncestor, InformDescendant, InformDone
<1>9. ~(ClearOwner(t) \/ CasFree(t) \/ FreeState(t) \/ FreeOwner(t) \/ ScanState(t))
  BY <1>2, <1>3 DEF ClearOwner, CasFree, FreeState, FreeOwner, ScanState
<1>10. CASE CheckOwner(t) \/ CheckState(t) \/ ScanDone(t) \/ CasUpgrade(t)
  BY <1>2, <1>10 DEF CheckOwner, CheckState, ScanDone, CasUpgrade
<1>11. CASE CheckAncestors(t) \/ ScanOwner(t)
  BY <1>4, <1>11 DEF CheckAncestors, ScanOwner
<1> QED BY <1>5, <1>6, <1>7, <1>8, <1>9, <1>10, <1>11 DEF Step

\* A call that returns true changes what its thread holds.
LEMMA SuccessTells ==
    ASSUME OneThread, SoloInv, NEW t \in Thread, InformDone(t), found[t] = <<>>
    PROVE  held'[t] # held[t]
<1> SUFFICES ASSUME held'[t] = held[t] PROVE FALSE
  OBVIOUS
<1>0. PICK n \in Node : n = call[t].node
  BY RunningCall DEF InformDone, SoloInv, ClaimInv, BalanceInv
<1>1. PICK u \in User : u = call[t].user
  BY RunningCall DEF InformDone, SoloInv, ClaimInv, BalanceInv
<1>2. HeldBy(n)' = HeldBy(n)
  BY HeldByIs
<1>3. call[t].op \in {"lock", "unlock", "upgrade"}
  BY <1>0, <1>1, ReturnsTrue
<1>4. call[t].op # "lock"
  <2>1. call[t].op = "lock" => Granted(n, u) /\ PathOpen(n)
    BY <1>0, <1>1, ReturnsTrue
  <2> QED BY <1>2, <2>1 DEF Granted, PathOpen, NoneHeld
<1>5. call[t].op # "unlock"
  <2>1. call[t].op = "unlock" => GivenBack(n) /\ HeldBy(n) = {u}
    BY <1>0, <1>1, ReturnsTrue
  <2> QED BY <1>2, <2>1 DEF GivenBack
<1>6. call[t].op # "upgrade"
  <2>1. call[t].op = "upgrade" => Exchanged(n, u) /\ UpgradeOpen(n, u)
    BY <1>0, <1>1, ReturnsTrue
  <2> QED BY <1>2, <2>1 DEF Exchanged, UpgradeOpen, NoneHeld
<1> QED BY <1>3, <1>4, <1>5, <1>6

\* For one thread a call is refused only for the reason the hierarchy gives: the
\* counters and the scan tell exactly what earlier calls have left held.
THEOREM SoloRefusedForConflict == ASSUME OneThread PROVE Spec => RefusedForConflict
<1> DEFINE A ==
             \A t \in Thread :
                LET c == call[t] IN
                pc[t] # "idle" /\ pc'[t] = "idle" /\ held'[t] = held[t] =>
                    /\ c.op = "lock" => ~Client!Grantable(c.node)
                    /\ c.op = "unlock" => c.user \notin HeldBy(c.node)
                    /\ c.op = "upgrade" => ~Client!Upgradable(c.node, c.user)
<1>1. ASSUME SoloInv, [Next]_vars PROVE [A]_vars
  <2> SUFFICES ASSUME Next, NEW t \in Thread, pc[t] # "idle", pc'[t] = "idle", held'[t] = held[t],
                      NEW n, NEW u, n = call[t].node, u = call[t].user
               PROVE  /\ call[t].op = "lock" => ~Client!Grantable(n)
                      /\ call[t].op = "unlock" => u \notin HeldBy(n)
                      /\ call[t].op = "upgrade" => ~Client!Upgradable(n, u)
    BY <1>1
  <2>1. n \in Node /\ u \in User
    BY <1>1, RunningCall DEF SoloInv, ClaimInv, BalanceInv
  <2>2. Step(t)
    <3>1. \A s \in Thread : s = t
      BY DEF OneThread
    <3>2. ~Call(t)
      BY DEF Call, CallLock, CallUnlock, CallUpgrade, Begin
    <3> QED BY <3>1, <3>2 DEF Next
  <2>3. /\ ReturnFalse(t)
        /\ \/ LoadAncestors(t) \/ LoadDescendants(t) \/ CasLock(t)
           \/ CheckOwner(t)
           \/ CheckState(t) \/ CheckAncestors(t) \/ ScanOwner(t) \/ ScanDone(t) \/ CasUpgrade(t)
    BY <1>1, <2>2, EndsRefused, SuccessTells
  <2>4. CASE LoadAncestors(t) \/ LoadDescendants(t) \/ CasLock(t)
    BY <1>1, <2>1, <2>3, <2>4, RefusedLock, ClientGrants
  <2>5. CASE CheckOwner(t)
    BY <1>1, <2>1, <2>3, <2>5, RefusedUnlock
  <2>6. CASE CheckState(t) \/ CheckAncestors(t) \/ ScanOwner(t) \/ ScanDone(t) \/ CasUpgrade(t)
    BY <1>1, <2>1, <2>3, <2>6, RefusedUpgrade, ClientUpgrades
  <2> QED BY <2>3, <2>4, <2>5, <2>6
<1> HIDE DEF A
<1>2. Spec => [][A]_vars
  BY <1>1, SoloInvCorrect, PTL DEF Spec
<1> QED BY <1>2 DEF A, RefusedForConflict
=============================================================================
