--------------------------- MODULE AtomicTreeProofs ---------------------------
(***************************************************************************)
(* Theorems about the lock-free tree, for any tree, any number of threads  *)
(* and any assignment of users to threads.                                 *)
(***************************************************************************)
EXTENDS AtomicTree, ForestProofs, SequenceTheorems, FiniteSetTheorems, TLAPS

LockLabels == {"loadAncestors", "loadDescendants", "cas", "recheckAncestors",
               "recheckDescendants", "rollback"}
UnlockLabels == {"checkOwner", "clearOwner", "casFree", "restoreOwner"}
UpgradeLabels == {"checkState", "checkAncestors", "scanState", "scanOwner",
                  "freeState", "freeOwner", "casUpgrade"}

NodeTypes ==
    /\ lockState \in [Node -> {0, 1}]
    /\ lockedBy \in [Node -> User \cup {NoUser}]
    /\ ancestorLockedCount \in [Node -> Int]
    /\ descendantLockedCount \in [Node -> Int]
    /\ casRetries \in 0 .. MaxRetries

ThreadTypes ==
    /\ pc \in [Thread -> Labels]
    /\ call \in [Thread -> [op : Ops, node : Node \cup {NoNode}, user : User \cup {NoUser}]]
    /\ cursor \in [Thread -> Node \cup {NoNode}]
    /\ work \in [Thread -> Seq(Node)]
    /\ found \in [Thread -> Seq(Node)]
    /\ held \in [Thread -> SUBSET (Node \X User)]

\* Label l belongs to operation op.
FitsOp(l, op) ==
    /\ l \in LockLabels => op = "lock"
    /\ l \in UnlockLabels => op = "unlock"
    /\ l \in UpgradeLabels => op = "upgrade"
    /\ l = "setOwner" => op \in {"lock", "upgrade"}

\* A program counter stands in a call of its own operation, on a node and for a
\* user of its thread; what a label is about to use is there.
ControlOK(t) ==
    /\ pc[t] = "idle" => call[t] = NoCall
    /\ pc[t] # "idle" => /\ call[t].op # "none"
                         /\ call[t].node \in Node
                         /\ call[t].user \in UsersOf[t]
    /\ FitsOp(pc[t], call[t].op)
    /\ pc[t] = "scanOwner" => work[t] # <<>>
    /\ pc[t] \in {"freeState", "freeOwner"} => found[t] # <<>>
    /\ found[t] # <<>> => call[t].op = "upgrade"

TypeInv == NodeTypes /\ ThreadTypes /\ \A t \in Thread : ControlOK(t)
-----------------------------------------------------------------------------
\* Parents and children of nodes.
LEMMA TreeTypes ==
    ASSUME NEW n \in Node
    PROVE  Parent[n] \in Node \cup {NoNode} /\ Children[n] \in Seq(Node)
  BY TreeAssumption

\* Users of threads are users.
LEMMA UserTypes ==
    ASSUME NEW t \in Thread, NEW u \in UsersOf[t]
    PROVE  u \in User
  BY CallerAssumption

\* Taking the head of a worklist off and putting nodes in front or at the end.
LEMMA WorkTypes ==
    ASSUME NEW s \in Seq(Node), s # <<>>
    PROVE  /\ Head(s) \in Node /\ Tail(s) \in Seq(Node)
           /\ Children[Head(s)] \o Tail(s) \in Seq(Node)
           /\ Tail(s) \o Children[Head(s)] \in Seq(Node)
<1>1. Head(s) \in Node /\ Tail(s) \in Seq(Node)
  BY HeadTailProperties
<1>2. Children[Head(s)] \in Seq(Node)
  BY <1>1, TreeTypes
<1> QED BY <1>1, <1>2, ConcatProperties

LEMMA TypeInit == Init => TypeInv
<1> SUFFICES ASSUME Init PROVE TypeInv
  OBVIOUS
<1>1. <<>> \in Seq(Node)
  BY EmptySeq
<1>2. NodeTypes
  BY CallerAssumption DEF Init, NodeTypes
<1>3. ThreadTypes
  BY <1>1 DEF Init, ThreadTypes, Labels, Ops, NoCall
<1>4. \A t \in Thread : ControlOK(t)
  BY DEF Init, ControlOK, FitsOp, LockLabels, UnlockLabels, UpgradeLabels
<1> QED BY <1>2, <1>3, <1>4 DEF TypeInv

\* The call of t goes on at label l.
LEMMA JumpTypes ==
    ASSUME TypeInv, NodeTypes', NEW t \in Thread, NEW l \in Labels,
           pc[t] # "idle", l # "idle", FitsOp(l, call[t].op),
           Goto(t, l), UNCHANGED <<call, held>>,
           cursor' \in [Thread -> Node \cup {NoNode}],
           work' \in [Thread -> Seq(Node)],
           found' \in [Thread -> Seq(Node)],
           \A s \in Thread \ {t} : work'[s] = work[s] /\ found'[s] = found[s],
           l = "scanOwner" => work'[t] # <<>>,
           l \in {"freeState", "freeOwner"} => found'[t] # <<>>,
           found'[t] # <<>> => call[t].op = "upgrade"
    PROVE  TypeInv'
<1>1. pc' = [pc EXCEPT ![t] = l] /\ pc' \in [Thread -> Labels]
  BY DEF Goto, TypeInv, ThreadTypes
<1>2. ThreadTypes'
  BY <1>1 DEF TypeInv, ThreadTypes
<1>3. ASSUME NEW s \in Thread PROVE ControlOK(s)'
  <2>1. CASE s = t
    BY <1>1, <2>1 DEF TypeInv, ThreadTypes, ControlOK, FitsOp
  <2>2. CASE s # t
    <3>1. pc'[s] = pc[s] /\ work'[s] = work[s] /\ found'[s] = found[s] /\ call'[s] = call[s]
      BY <1>1, <2>2 DEF TypeInv, ThreadTypes
    <3> QED BY <3>1 DEF TypeInv, ControlOK
  <2> QED BY <2>1, <2>2
<1> QED BY <1>2, <1>3 DEF TypeInv

\* ... changing its program counter only.
LEMMA ProceedTypes ==
    ASSUME TypeInv, NodeTypes', NEW t \in Thread, NEW l \in Labels,
           pc[t] # "idle", l # "idle", FitsOp(l, call[t].op), Proceed(t, l),
           l = "scanOwner" => work[t] # <<>>,
           l \in {"freeState", "freeOwner"} => found[t] # <<>>
    PROVE  TypeInv'
<1>1. Goto(t, l) /\ UNCHANGED <<call, cursor, work, found, held>>
  BY DEF Proceed
<1>2. found[t] # <<>> => call[t].op = "upgrade"
  BY DEF TypeInv, ControlOK
<1> QED BY <1>1, <1>2, JumpTypes DEF TypeInv, ThreadTypes

\* The call of t ends.
LEMMA ReturnTypes ==
    ASSUME TypeInv, NodeTypes', NEW t \in Thread, NEW h \in SUBSET (Node \X User),
           Return(t, h), UNCHANGED cursor,
           work' \in [Thread -> Seq(Node)],
           found' \in [Thread -> Seq(Node)],
           \A s \in Thread \ {t} : work'[s] = work[s] /\ found'[s] = found[s],
           found'[t] = <<>>
    PROVE  TypeInv'
<1>1. /\ pc' = [pc EXCEPT ![t] = "idle"] /\ pc' \in [Thread -> Labels]
      /\ call' = [call EXCEPT ![t] = NoCall]
      /\ held' \in [Thread -> SUBSET (Node \X User)]
  BY DEF Return, Goto, TypeInv, ThreadTypes, Labels
<1>2. call' \in [Thread -> [op : Ops, node : Node \cup {NoNode}, user : User \cup {NoUser}]]
  BY <1>1 DEF TypeInv, ThreadTypes, NoCall, Ops
<1>3. ThreadTypes'
  BY <1>1, <1>2 DEF TypeInv, ThreadTypes
<1>4. ASSUME NEW s \in Thread PROVE ControlOK(s)'
  <2>1. CASE s = t
    BY <1>1, <2>1 DEF TypeInv, ThreadTypes, ControlOK, FitsOp, LockLabels, UnlockLabels,
                      UpgradeLabels
  <2>2. CASE s # t
    <3>1. pc'[s] = pc[s] /\ work'[s] = work[s] /\ found'[s] = found[s] /\ call'[s] = call[s]
      BY <1>1, <2>2 DEF TypeInv, ThreadTypes
    <3> QED BY <3>1 DEF TypeInv, ControlOK
  <2> QED BY <2>1, <2>2
<1> QED BY <1>3, <1>4 DEF TypeInv

LEMMA ReturnFalseTypes ==
    ASSUME TypeInv, NodeTypes', NEW t \in Thread, ReturnFalse(t)
    PROVE  TypeInv'
<1>1. <<>> \in Seq(Node)
  BY EmptySeq
<1>2. /\ Return(t, held[t]) /\ UNCHANGED cursor
      /\ work' \in [Thread -> Seq(Node)] /\ found' \in [Thread -> Seq(Node)]
      /\ \A s \in Thread \ {t} : work'[s] = work[s] /\ found'[s] = found[s]
      /\ found'[t] = <<>>
  BY <1>1 DEF ReturnFalse, TypeInv, ThreadTypes
<1>3. held[t] \in SUBSET (Node \X User)
  BY DEF TypeInv, ThreadTypes
<1> QED BY <1>2, <1>3, ReturnTypes

\* A propagation starts.
LEMMA StartInformTypes ==
    ASSUME TypeInv, NodeTypes', NEW t \in Thread, NEW n \in Node,
           pc[t] # "idle", StartInform(t, n)
    PROVE  TypeInv'
<1>1. /\ Goto(t, "inform") /\ UNCHANGED <<call, found, held>>
      /\ cursor' = [cursor EXCEPT ![t] = Parent[n]]
      /\ work' = [work EXCEPT ![t] = Children[n]]
  BY DEF StartInform
<1>2. /\ cursor' \in [Thread -> Node \cup {NoNode}]
      /\ work' \in [Thread -> Seq(Node)]
      /\ \A s \in Thread \ {t} : work'[s] = work[s] /\ found'[s] = found[s]
      /\ found' \in [Thread -> Seq(Node)]
      /\ found'[t] # <<>> => call[t].op = "upgrade"
  BY <1>1, TreeTypes DEF TypeInv, ThreadTypes, ControlOK
<1>3. "inform" \in Labels /\ FitsOp("inform", call[t].op)
  BY DEF Labels, FitsOp, LockLabels, UnlockLabels, UpgradeLabels
<1> QED BY <1>1, <1>2, <1>3, JumpTypes
-----------------------------------------------------------------------------
\* Facts about a running call.
LEMMA RunningCall ==
    ASSUME TypeInv, NEW t \in Thread, pc[t] # "idle"
    PROVE  /\ call[t].node \in Node
           /\ call[t].user \in User
           /\ call[t].op \in {"lock", "unlock", "upgrade"}
  BY UserTypes DEF TypeInv, ThreadTypes, ControlOK, Ops

\* A call starts.
LEMMA CallTypes ==
    ASSUME TypeInv, NEW t \in Thread, Call(t)
    PROVE  TypeInv'
<1>1. PICK op \in Ops \ {"none"}, n \in Node, u \in UsersOf[t],
           l \in {"loadAncestors", "checkOwner", "checkState"} :
             Begin(t, op, n, u, l) /\ FitsOp(l, op)
  <2>1. "lock" \in Ops \ {"none"} /\ FitsOp("loadAncestors", "lock")
    BY DEF Ops, FitsOp, LockLabels, UnlockLabels, UpgradeLabels
  <2>2. "unlock" \in Ops \ {"none"} /\ FitsOp("checkOwner", "unlock")
    BY DEF Ops, FitsOp, LockLabels, UnlockLabels, UpgradeLabels
  <2>3. "upgrade" \in Ops \ {"none"} /\ FitsOp("checkState", "upgrade")
    BY DEF Ops, FitsOp, LockLabels, UnlockLabels, UpgradeLabels
  <2> QED BY <2>1, <2>2, <2>3, CallerAssumption DEF Call, CallLock, CallUnlock, CallUpgrade
<1>2. u \in User
  BY UserTypes
<1>3. /\ pc' = [pc EXCEPT ![t] = l]
      /\ call' = [call EXCEPT ![t] = [op |-> op, node |-> n, user |-> u]]
      /\ UNCHANGED <<nodeVars, casRetries, cursor, work, found, held>>
  BY <1>1 DEF Begin, Goto
<1>4. NodeTypes' /\ ThreadTypes'
  BY <1>2, <1>3 DEF TypeInv, NodeTypes, ThreadTypes, nodeVars, Labels
<1>5. ASSUME NEW s \in Thread PROVE ControlOK(s)'
  <2>1. CASE s = t
    <3>1. pc[t] = "idle" /\ found[t] = <<>>
      BY <1>1 DEF Begin, TypeInv, ControlOK, NoCall
    <3>2. /\ pc'[t] = l /\ found'[t] = <<>> /\ l \notin {"idle", "scanOwner", "freeState", "freeOwner"}
          /\ call'[t] = [op |-> op, node |-> n, user |-> u]
      BY <1>3, <3>1 DEF TypeInv, ThreadTypes
    <3> QED BY <1>1, <2>1, <3>2 DEF ControlOK
  <2>2. CASE s # t
    <3>1. pc'[s] = pc[s] /\ work'[s] = work[s] /\ found'[s] = found[s] /\ call'[s] = call[s]
      BY <1>3, <2>2 DEF TypeInv, ThreadTypes
    <3> QED BY <3>1 DEF TypeInv, ControlOK
  <2> QED BY <2>1, <2>2
<1> QED BY <1>4, <1>5 DEF TypeInv

\* The steps of lock().
LEMMA LockTypes ==
    ASSUME TypeInv, NEW t \in Thread,
           \/ LoadAncestors(t) \/ LoadDescendants(t) \/ CasLock(t) \/ CasLockSpurious(t)
           \/ RecheckAncestors(t) \/ RecheckDescendants(t) \/ Rollback(t) \/ SetOwner(t)
    PROVE  TypeInv'
<1>1. /\ pc[t] \in LockLabels \cup {"setOwner"} /\ pc[t] # "idle"
      /\ pc[t] \in LockLabels => call[t].op = "lock"
  BY DEF LoadAncestors, LoadDescendants, CasLock, CasLockSpurious, RecheckAncestors,
     RecheckDescendants, Rollback, SetOwner, LockLabels, TypeInv, ControlOK, FitsOp
<1>2. call[t].node \in Node /\ call[t].user \in User
  BY <1>1, RunningCall
<1>3. NodeTypes'
  BY <1>2, CallerAssumption
     DEF LoadAncestors, LoadDescendants, CasLock, CasLockSpurious, RecheckAncestors,
     RecheckDescendants, Rollback, SetOwner, TypeInv, NodeTypes, nodeVars
<1>4. CASE \E l \in (LockLabels \cup {"setOwner"}) \ {"rollback"} : Proceed(t, l) /\ call[t].op = "lock"
  BY <1>1, <1>3, <1>4, ProceedTypes DEF LockLabels, Labels, FitsOp, UnlockLabels, UpgradeLabels
<1>5. CASE Proceed(t, "rollback") /\ call[t].op = "lock"
  BY <1>1, <1>3, <1>5, ProceedTypes DEF LockLabels, Labels, FitsOp, UnlockLabels, UpgradeLabels
<1>6. CASE ReturnFalse(t)
  BY <1>3, <1>6, ReturnFalseTypes
<1>7. CASE StartInform(t, call[t].node)
  BY <1>1, <1>2, <1>3, <1>7, StartInformTypes
<1>8. CASE UNCHANGED threadVars
  BY <1>3, <1>8 DEF TypeInv, ThreadTypes, ControlOK, threadVars
<1> QED
  BY <1>1, <1>4, <1>5, <1>6, <1>7, <1>8
     DEF LoadAncestors, LoadDescendants, CasLock, CasLockSpurious, RecheckAncestors,
     RecheckDescendants, Rollback, SetOwner, LockLabels

\* The steps of unlock().
LEMMA UnlockTypes ==
    ASSUME TypeInv, NEW t \in Thread,
           CheckOwner(t) \/ ClearOwner(t) \/ CasFree(t) \/ RestoreOwner(t)
    PROVE  TypeInv'
<1>1. pc[t] \in UnlockLabels /\ pc[t] # "idle" /\ call[t].op = "unlock"
  BY DEF CheckOwner, ClearOwner, CasFree, RestoreOwner, UnlockLabels, TypeInv, ControlOK, FitsOp
<1>2. call[t].node \in Node /\ call[t].user \in User
  BY <1>1, RunningCall
<1>3. NodeTypes'
  BY <1>2, CallerAssumption
     DEF CheckOwner, ClearOwner, CasFree, RestoreOwner, TypeInv, NodeTypes, nodeVars
<1>4. CASE \E l \in UnlockLabels : Proceed(t, l)
  BY <1>1, <1>3, <1>4, ProceedTypes DEF UnlockLabels, Labels, FitsOp, LockLabels, UpgradeLabels
<1>5. CASE ReturnFalse(t)
  BY <1>3, <1>5, ReturnFalseTypes
<1>6. CASE StartInform(t, call[t].node)
  BY <1>1, <1>2, <1>3, <1>6, StartInformTypes
<1> QED
  BY <1>1, <1>4, <1>5, <1>6 DEF CheckOwner, ClearOwner, CasFree, RestoreOwner, UnlockLabels

\* The steps of the propagation.
LEMMA InformTypes ==
    ASSUME TypeInv, NEW t \in Thread,
           InformAncestor(t) \/ InformDescendant(t) \/ InformDone(t)
    PROVE  TypeInv'
<1>1. pc[t] = "inform" /\ call[t].node \in Node /\ call[t].user \in User
  BY RunningCall DEF InformAncestor, InformDescendant, InformDone
<1>2. Delta(t) \in Int
  BY DEF Delta
<1>3. CASE InformAncestor(t)
  <2>1. cursor[t] \in Node
    BY <1>3 DEF InformAncestor, TypeInv, ThreadTypes
  <2>2. NodeTypes'
    BY <1>2, <1>3, <2>1 DEF InformAncestor, TypeInv, NodeTypes
  <2>3. cursor' \in [Thread -> Node \cup {NoNode}] /\ UNCHANGED <<pc, call, work, found, held>>
    BY <1>3, <2>1, TreeTypes DEF InformAncestor, TypeInv, ThreadTypes
  <2> QED BY <2>2, <2>3 DEF TypeInv, ThreadTypes, ControlOK
<1>4. CASE InformDescendant(t)
  <2>1. work[t] \in Seq(Node) /\ work[t] # <<>>
    BY <1>4 DEF InformDescendant, TypeInv, ThreadTypes
  <2>2. Head(work[t]) \in Node /\ Children[Head(work[t])] \o Tail(work[t]) \in Seq(Node)
    BY <2>1, WorkTypes
  <2>3. NodeTypes'
    BY <1>2, <1>4, <2>2 DEF InformDescendant, TypeInv, NodeTypes
  <2>4. /\ work' = [work EXCEPT ![t] = Children[Head(work[t])] \o Tail(work[t])]
        /\ UNCHANGED <<pc, call, cursor, found, held>>
    BY <1>4 DEF InformDescendant
  <2>5. /\ work' \in [Thread -> Seq(Node)]
        /\ \A s \in Thread \ {t} : work'[s] = work[s]
    BY <2>2, <2>4 DEF TypeInv, ThreadTypes
  <2>6. ThreadTypes'
    BY <2>4, <2>5 DEF TypeInv, ThreadTypes
  <2>7. ASSUME NEW s \in Thread PROVE ControlOK(s)'
    BY <1>1, <2>4, <2>5 DEF TypeInv, ControlOK
  <2> QED BY <2>3, <2>6, <2>7 DEF TypeInv
<1>5. CASE InformDone(t)
  <2>1. NodeTypes' /\ UNCHANGED <<cursor, work>>
    BY <1>5 DEF InformDone, TypeInv, NodeTypes, nodeVars
  <2>2. CASE found[t] # <<>>
    <3> DEFINE l == IF Len(found[t]) = 1 THEN "casUpgrade" ELSE "freeState"
    <3>1. Goto(t, l) /\ UNCHANGED <<call, held>> /\ found' = [found EXCEPT ![t] = Tail(found[t])]
      BY <1>5, <2>2 DEF InformDone
    <3>2. found[t] \in Seq(Node)
      BY DEF TypeInv, ThreadTypes
    <3>3. Tail(found[t]) \in Seq(Node) /\ Len(Tail(found[t])) = Len(found[t]) - 1
      BY <2>2, <3>2, HeadTailProperties
    <3>4. Len(found[t]) # 1 => Tail(found[t]) # <<>>
      <4>1. Len(<<>>) = 0 /\ Len(found[t]) \in Nat \ {0}
        BY <2>2, <3>2, EmptySeq
      <4>2. ASSUME Tail(found[t]) = <<>> PROVE Len(found[t]) - 1 = 0
        BY <3>3, <4>1, <4>2
      <4> DEFINE len == Len(found[t])
      <4>3. len \in Nat
        BY <4>1
      <4> HIDE DEF len
      <4>4. len - 1 = 0 => len = 1
        BY <4>3
      <4> QED BY <4>2, <4>4 DEF len
    <3>5. /\ found' \in [Thread -> Seq(Node)] /\ found'[t] = Tail(found[t])
          /\ \A s \in Thread \ {t} : found'[s] = found[s]
      BY <3>1, <3>3 DEF TypeInv, ThreadTypes
    <3>6. call[t].op = "upgrade"
      BY <2>2 DEF TypeInv, ControlOK
    <3>7. l \in Labels /\ FitsOp(l, call[t].op) /\ l # "idle" /\ l # "scanOwner"
          /\ (l \in {"freeState", "freeOwner"} => found'[t] # <<>>)
      BY <3>4, <3>5, <3>6 DEF Labels, FitsOp, LockLabels, UnlockLabels, UpgradeLabels
    <3>8. cursor' \in [Thread -> Node \cup {NoNode}] /\ work' \in [Thread -> Seq(Node)]
          /\ \A s \in Thread \ {t} : work'[s] = work[s]
      BY <2>1 DEF TypeInv, ThreadTypes
    <3> HIDE DEF l
    <3> QED BY <1>1, <2>1, <3>1, <3>5, <3>6, <3>7, <3>8, JumpTypes
  <2>3. CASE found[t] = <<>>
    <3>1. UNCHANGED found
      BY <1>5, <2>3 DEF InformDone
    <3>2. PICK h \in SUBSET (Node \X User) : Return(t, h)
      <4>1. <<call[t].node, call[t].user>> \in Node \X User /\ held[t] \in SUBSET (Node \X User)
        BY <1>1 DEF TypeInv, ThreadTypes
      <4> QED BY <1>5, <2>3, <4>1 DEF InformDone
    <3>3. /\ work' \in [Thread -> Seq(Node)] /\ found' \in [Thread -> Seq(Node)]
          /\ \A s \in Thread \ {t} : work'[s] = work[s] /\ found'[s] = found[s]
      BY <2>1, <3>1 DEF TypeInv, ThreadTypes
    <3> QED BY <2>1, <2>3, <3>1, <3>2, <3>3, ReturnTypes
  <2> QED BY <2>2, <2>3
<1> QED BY <1>3, <1>4, <1>5

\* The scan of upgradeLock().
LEMMA ScanTypes ==
    ASSUME TypeInv, NEW t \in Thread,
           CheckState(t) \/ CheckAncestors(t) \/ ScanState(t) \/ ScanOwner(t) \/ ScanDone(t)
    PROVE  TypeInv'
<1>1. pc[t] \in UpgradeLabels /\ pc[t] # "idle" /\ call[t].op = "upgrade" /\ NodeTypes'
  BY DEF CheckState, CheckAncestors, ScanState, ScanOwner, ScanDone, UpgradeLabels, TypeInv,
     ControlOK, FitsOp, NodeTypes, nodeVars
<1>2. call[t].node \in Node
  BY <1>1, RunningCall
<1>3. ASSUME NEW l \in UpgradeLabels, Proceed(t, l),
             l = "scanOwner" => work[t] # <<>>,
             l \in {"freeState", "freeOwner"} => found[t] # <<>>
      PROVE  TypeInv'
  BY <1>1, <1>3, ProceedTypes DEF UpgradeLabels, Labels, FitsOp, LockLabels, UnlockLabels
<1>4. CASE ReturnFalse(t)
  BY <1>1, <1>4, ReturnFalseTypes
<1>5. \* The queue changes, the call goes on with the next element.
      ASSUME NEW w \in Seq(Node), work' = [work EXCEPT ![t] = w], Goto(t, "scanState"),
             UNCHANGED <<call, cursor, held>>,
             found' \in [Thread -> Seq(Node)], \A s \in Thread \ {t} : found'[s] = found[s]
      PROVE  TypeInv'
  <2>1. /\ work' \in [Thread -> Seq(Node)]
        /\ \A s \in Thread \ {t} : work'[s] = work[s] /\ found'[s] = found[s]
        /\ cursor' \in [Thread -> Node \cup {NoNode}]
    BY <1>5 DEF TypeInv, ThreadTypes
  <2>2. "scanState" \in Labels /\ FitsOp("scanState", call[t].op)
    BY <1>1 DEF Labels, FitsOp, LockLabels, UnlockLabels, UpgradeLabels
  <2> QED BY <1>1, <1>5, <2>1, <2>2, JumpTypes
<1>6. ASSUME work[t] # <<>>, pc[t] \in {"scanState", "scanOwner"}
      PROVE  /\ Tail(work[t]) \o Children[Head(work[t])] \in Seq(Node)
             /\ Head(work[t]) \in Node
  BY <1>6, WorkTypes DEF TypeInv, ThreadTypes
<1>7. CASE CheckState(t)
  BY <1>3, <1>4, <1>7 DEF CheckState, UpgradeLabels
<1>8. CASE CheckAncestors(t)
  <2>1. CASE ~(ancestorLockedCount[call[t].node] > 0)
    <3>1. /\ Goto(t, "scanState") /\ UNCHANGED <<call, cursor, found, held>>
          /\ work' = [work EXCEPT ![t] = Children[call[t].node]]
      BY <1>8, <2>1 DEF CheckAncestors
    <3>2. Children[call[t].node] \in Seq(Node)
      BY <1>2, TreeTypes
    <3> QED BY <1>5, <3>1, <3>2 DEF TypeInv, ThreadTypes
  <2> QED BY <1>4, <1>8, <2>1 DEF CheckAncestors
<1>9. CASE ScanState(t)
  <2>1. work[t] # <<>> /\ pc[t] = "scanState"
    BY <1>9 DEF ScanState
  <2>2. CASE lockState[Head(work[t])] = 1
    BY <1>3, <1>9, <2>1, <2>2 DEF ScanState, UpgradeLabels
  <2>3. CASE lockState[Head(work[t])] # 1
    <3>1. /\ work' = [work EXCEPT ![t] = Tail(work[t]) \o Children[Head(work[t])]]
          /\ UNCHANGED <<pc, call, cursor, found, held>>
      BY <1>9, <2>3 DEF ScanState, Dequeue
    <3>2. Goto(t, "scanState")
      BY <2>1, <3>1 DEF Goto, TypeInv, ThreadTypes
    <3> QED BY <1>5, <1>6, <2>1, <3>1, <3>2 DEF TypeInv, ThreadTypes
  <2> QED BY <2>2, <2>3
<1>10. CASE ScanOwner(t)
  <2>1. work[t] # <<>> /\ pc[t] = "scanOwner"
    BY <1>10 DEF ScanOwner, TypeInv, ControlOK
  <2>2. CASE lockedBy[Head(work[t])] = call[t].user
    <3>1. /\ found' = [found EXCEPT ![t] = Append(found[t], Head(work[t]))]
          /\ work' = [work EXCEPT ![t] = Tail(work[t]) \o Children[Head(work[t])]]
          /\ Goto(t, "scanState") /\ UNCHANGED <<call, cursor, held>>
      BY <1>10, <2>2 DEF ScanOwner, Dequeue
    <3>2. Append(found[t], Head(work[t])) \in Seq(Node)
      BY <1>6, <2>1, AppendProperties DEF TypeInv, ThreadTypes
    <3>3. found' \in [Thread -> Seq(Node)] /\ \A s \in Thread \ {t} : found'[s] = found[s]
      BY <3>1, <3>2 DEF TypeInv, ThreadTypes
    <3> QED BY <1>5, <1>6, <2>1, <3>1, <3>3
  <2> QED BY <1>4, <1>10, <2>2 DEF ScanOwner
<1>11. CASE ScanDone(t)
  BY <1>3, <1>4, <1>11 DEF ScanDone, UpgradeLabels
<1> QED BY <1>7, <1>8, <1>9, <1>10, <1>11

\* The release and the taking of the target in upgradeLock().
LEMMA UpgradeTypes ==
    ASSUME TypeInv, NEW t \in Thread,
           FreeState(t) \/ FreeOwner(t) \/ CasUpgrade(t)
    PROVE  TypeInv'
<1>1. pc[t] \in UpgradeLabels /\ pc[t] # "idle" /\ call[t].op = "upgrade"
  BY DEF FreeState, FreeOwner, CasUpgrade, UpgradeLabels, TypeInv, ControlOK, FitsOp
<1>2. call[t].node \in Node
  BY <1>1, RunningCall
<1>3. pc[t] \in {"freeState", "freeOwner"} => Head(found[t]) \in Node /\ found[t] # <<>>
  BY WorkTypes DEF TypeInv, ThreadTypes, ControlOK
<1>4. NodeTypes'
  BY <1>2, <1>3 DEF FreeState, FreeOwner, CasUpgrade, TypeInv, NodeTypes
<1>5. ASSUME NEW l \in {"freeOwner", "setOwner"}, Proceed(t, l),
             l = "freeOwner" => found[t] # <<>>
      PROVE  TypeInv'
  <2>1. l \in Labels /\ FitsOp(l, call[t].op) /\ l # "idle"
    BY <1>1, <1>5 DEF UpgradeLabels, Labels, FitsOp, LockLabels, UnlockLabels
  <2> QED BY <1>1, <1>4, <1>5, <2>1, ProceedTypes
<1>6. CASE FreeState(t)
  BY <1>3, <1>5, <1>6 DEF FreeState
<1>7. CASE FreeOwner(t)
  BY <1>1, <1>3, <1>4, <1>7, StartInformTypes DEF FreeOwner
<1>8. CASE CasUpgrade(t)
  BY <1>4, <1>5, <1>8, ReturnFalseTypes DEF CasUpgrade
<1> QED BY <1>6, <1>7, <1>8

LEMMA TypeNext ==
    ASSUME TypeInv, [Next]_vars
    PROVE  TypeInv'
<1>1. CASE UNCHANGED vars
  BY <1>1 DEF vars, nodeVars, threadVars, TypeInv, NodeTypes, ThreadTypes, ControlOK
<1> QED BY <1>1, CallTypes, LockTypes, UnlockTypes, InformTypes, ScanTypes, UpgradeTypes
        DEF Next, Step

\* The variables stay of their types, and a program counter stays in a call of
\* its own operation.
LEMMA TypeInvCorrect == Spec => []TypeInv
  BY TypeInit, TypeNext, PTL DEF Spec

\* The atomics and the threads' cursors and worklists stay of their types,
\* whatever the callers do.
THEOREM TypeCorrect == Spec => []TypeOK
<1>1. TypeInv => TypeOK
  BY DEF TypeInv, NodeTypes, ThreadTypes, TypeOK
<1> QED BY <1>1, TypeInvCorrect, PTL

-----------------------------------------------------------------------------
\* What a propagation or a scan visits.

\* The nodes of the subtrees of a worklist.
Reach(w) == {d \in Node : \E i \in 1 .. Len(w) : d = w[i] \/ d \in Below[w[i]]}

\* The subtrees of a worklist do not overlap.
Apart(w) ==
    \A i, j \in 1 .. Len(w) : i # j => w[i] # w[j] /\ w[i] \notin Below[w[j]]

LEMMA AboveUnfold ==
    ASSUME NEW n \in Node
    PROVE  Above[n] = IF Parent[n] = NoNode THEN {} ELSE {Parent[n]} \cup Above[Parent[n]]
<1>1. DOMAIN Parent = Node /\ Parent[n] \in Node \cup {NoNode} /\ NoNode \notin Node
  BY TreeAssumption
<1>2. Above[n] = Ancestors(Parent, n)
  BY DEF Above
<1>3. Parent[n] # NoNode => Above[Parent[n]] = Ancestors(Parent, Parent[n])
  BY <1>1 DEF Above
<1> QED BY <1>1, <1>2, <1>3, AncestorsUnfold

LEMMA AboveFacts ==
    ASSUME NEW n \in Node
    PROVE  /\ Above[n] \subseteq Node
           /\ n \notin Above[n]
           /\ \A b \in Above[n] : \A a \in Above[b] : a \in Above[n]
<1>1. DOMAIN Parent = Node /\ IsForest(Parent)
  BY TreeAssumption
<1>2. \A x \in Node : Above[x] = Ancestors(Parent, x)
  BY DEF Above
<1>3. Above[n] \subseteq Node
  BY <1>1, <1>2, AncestorsInDomain
<1>4. n \notin Above[n]
  BY <1>1, <1>2, AncestorsIrreflexive
<1>5. ASSUME NEW b \in Above[n], NEW a \in Above[b] PROVE a \in Above[n]
  <2>1. b \in Ancestors(Parent, n) /\ a \in Ancestors(Parent, b)
    BY <1>2, <1>3, <1>5
  <2> QED BY <1>1, <1>2, <2>1, AncestorsTransitive
<1> QED BY <1>3, <1>4, <1>5

LEMMA BelowIs ==
    ASSUME NEW n \in Node
    PROVE  Below[n] = {d \in Node : n \in Above[d]}
  BY DEF Below

\* The subtree below a node is made of those of its children.
LEMMA BelowUnfold == \A n \in Node : Below[n] = Reach(Children[n])
<1> SUFFICES ASSUME NEW n \in Node PROVE Below[n] = Reach(Children[n])
  OBVIOUS
<1>0. /\ n # NoNode /\ Children[n] \in Seq(Node)
      /\ \A i \in 1 .. Len(Children[n]) : Children[n][i] \in Node /\ Parent[Children[n][i]] = n
      /\ \A c \in Node : Parent[c] = n => \E i \in 1 .. Len(Children[n]) : Children[n][i] = c
  BY TreeAssumption
<1>1. ASSUME NEW d \in Reach(Children[n]) PROVE d \in Below[n]
  <2>1. PICK i \in 1 .. Len(Children[n]) : d = Children[n][i] \/ d \in Below[Children[n][i]]
    BY DEF Reach
  <2>2. PICK c \in Node : c = Children[n][i]
    BY <1>0
  <2>3. n \in Above[c]
    BY <1>0, <2>2, AboveUnfold
  <2>4. d \in Node /\ (d = c \/ c \in Above[d])
    BY <2>1, <2>2, BelowIs DEF Reach
  <2>5. n \in Above[d]
    BY <2>3, <2>4, AboveFacts
  <2> QED BY <2>4, <2>5, BelowIs
<1>2. ASSUME NEW d \in Below[n], d \notin Reach(Children[n]) PROVE FALSE
  <2> DEFINE S == {x \in Node : n \in Above[x] /\ x \notin Reach(Children[n])}
  <2>1. d \in S
    BY <1>2, BelowIs
  <2>2. PICK x \in S : Parent[x] \notin S
    BY <2>1, TreeAssumption DEF IsForest
  <2>3. /\ x \in Node /\ Parent[x] \in Node /\ Parent[x] \in Above[x]
        /\ n = Parent[x] \/ n \in Above[Parent[x]]
    <3>1. x \in Node /\ n \in Above[x] /\ Parent[x] \in Node \cup {NoNode}
      BY <2>2, TreeTypes
    <3>2. Above[x] = IF Parent[x] = NoNode THEN {} ELSE {Parent[x]} \cup Above[Parent[x]]
      BY <3>1, AboveUnfold
    <3> QED BY <3>1, <3>2
  <2>4. CASE n = Parent[x]
    BY <1>0, <2>2, <2>3, <2>4 DEF Reach
  <2>5. CASE n \in Above[Parent[x]]
    <3>1. Parent[x] \in Reach(Children[n])
      BY <2>2, <2>3, <2>5
    <3>2. PICK i \in 1 .. Len(Children[n]) :
             Parent[x] = Children[n][i] \/ Parent[x] \in Below[Children[n][i]]
      BY <3>1 DEF Reach
    <3>3. PICK c \in Node : c = Children[n][i]
      BY <1>0
    <3>4. c \in Above[x]
      BY <2>3, <3>2, <3>3, BelowIs, AboveFacts
    <3>5. x \in Below[Children[n][i]]
      BY <2>3, <3>3, <3>4, BelowIs
    <3> QED BY <2>2, <3>5 DEF Reach
  <2> QED BY <2>3, <2>4, <2>5
<1>3. Below[n] \subseteq Node /\ Reach(Children[n]) \subseteq Node
  BY BelowIs DEF Reach
<1> QED BY <1>1, <1>2, <1>3

\* Siblings' subtrees do not overlap.
LEMMA ChildrenApart == ASSUME NEW n \in Node PROVE Apart(Children[n])
<1> SUFFICES ASSUME NEW i \in 1 .. Len(Children[n]), NEW j \in 1 .. Len(Children[n]), i # j
             PROVE  Children[n][i] # Children[n][j] /\ Children[n][i] \notin Below[Children[n][j]]
  BY DEF Apart
<1>0. /\ Children[n] \in Seq(Node) /\ n # NoNode
      /\ \A k \in 1 .. Len(Children[n]) : Parent[Children[n][k]] = n
      /\ \A k, l \in 1 .. Len(Children[n]) : Children[n][k] = Children[n][l] => k = l
  BY TreeAssumption
<1>1. /\ Children[n][i] \in Node /\ Children[n][j] \in Node /\ Children[n][i] # Children[n][j]
      /\ Parent[Children[n][i]] = n /\ Parent[Children[n][j]] = n /\ n # NoNode
  BY <1>0
<1> DEFINE c == Children[n][i]
           e == Children[n][j]
<1> HIDE DEF c, e
<1>2. /\ c \in Node /\ e \in Node /\ c # e /\ Parent[c] = n /\ Parent[e] = n
  BY <1>1 DEF c, e
<1>3. Above[c] = {n} \cup Above[n] /\ n \in Above[e] /\ e \notin Above[e]
  BY <1>1, <1>2, AboveUnfold, AboveFacts
<1>4. n \notin Above[n] /\ \A a \in Above[n] : n \notin Above[a]
  BY AboveFacts
<1>5. e \notin Above[c]
  BY <1>2, <1>3, <1>4
<1>6. c \notin Below[e]
  BY <1>2, <1>5, BelowIs
<1> QED BY <1>1, <1>6 DEF c, e

\* Two worklists, one after the other.
LEMMA ConcatParts ==
    ASSUME NEW s \in Seq(Node), NEW r \in Seq(Node), NEW k \in 1 .. Len(s \o r)
    PROVE  \/ k \in 1 .. Len(s) /\ (s \o r)[k] = s[k]
           \/ k - Len(s) \in 1 .. Len(r) /\ (s \o r)[k] = r[k - Len(s)]
<1>1. /\ Len(s) \in Nat /\ Len(r) \in Nat /\ Len(s \o r) = Len(s) + Len(r)
      /\ \A i \in 1 .. Len(s) + Len(r) : (s \o r)[i] = IF i <= Len(s) THEN s[i] ELSE r[i - Len(s)]
  BY ConcatProperties, LenProperties
<1>2. CASE k <= Len(s)
  BY <1>1, <1>2
<1>3. CASE ~(k <= Len(s))
  BY <1>1, <1>3
<1> QED BY <1>2, <1>3

LEMMA ReachConcat ==
    ASSUME NEW s \in Seq(Node), NEW r \in Seq(Node)
    PROVE  Reach(s \o r) = Reach(s) \cup Reach(r)
<1> DEFINE v == s \o r
<1>1. /\ Len(s) \in Nat /\ Len(r) \in Nat /\ Len(v) = Len(s) + Len(r)
      /\ \A i \in 1 .. Len(s) + Len(r) : v[i] = IF i <= Len(s) THEN s[i] ELSE r[i - Len(s)]
  BY ConcatProperties, LenProperties
<1>2. ASSUME NEW d \in Reach(v) PROVE d \in Reach(s) \cup Reach(r)
  <2>1. PICK i \in 1 .. Len(v) : d = v[i] \/ d \in Below[v[i]]
    BY DEF Reach
  <2>2. d \in Node
    BY DEF Reach
  <2> QED BY <2>1, <2>2, ConcatParts DEF Reach
<1>3. ASSUME NEW d \in Reach(s) PROVE d \in Reach(v)
  <2>1. PICK i \in 1 .. Len(s) : d = s[i] \/ d \in Below[s[i]]
    BY DEF Reach
  <2>2. i \in 1 .. Len(v) /\ v[i] = s[i]
    BY <1>1
  <2> HIDE DEF v
  <2> QED BY <2>1, <2>2 DEF Reach
<1>4. ASSUME NEW d \in Reach(r) PROVE d \in Reach(v)
  <2>1. PICK i \in 1 .. Len(r) : d = r[i] \/ d \in Below[r[i]]
    BY DEF Reach
  <2> HIDE DEF v
  <2>2. i + Len(s) \in 1 .. Len(v) /\ (i + Len(s)) - Len(s) = i
    BY <1>1
  <2>3. v[i + Len(s)] = r[i]
    BY <1>1, <2>2
  <2> QED BY <2>1, <2>2, <2>3 DEF Reach
<1> QED BY <1>2, <1>3, <1>4 DEF Reach

LEMMA ApartConcat ==
    ASSUME NEW s \in Seq(Node), NEW r \in Seq(Node), Apart(s), Apart(r),
           \A i \in 1 .. Len(s) : \A j \in 1 .. Len(r) :
              s[i] # r[j] /\ s[i] \notin Below[r[j]] /\ r[j] \notin Below[s[i]]
    PROVE  Apart(s \o r)
<1> DEFINE v == s \o r
<1> SUFFICES ASSUME NEW i \in 1 .. Len(v), NEW j \in 1 .. Len(v), i # j
             PROVE  v[i] # v[j] /\ v[i] \notin Below[v[j]]
  BY DEF Apart
<1>1. ASSUME NEW k \in 1 .. Len(v)
      PROVE  \/ k \in 1 .. Len(s) /\ v[k] = s[k]
             \/ k - Len(s) \in 1 .. Len(r) /\ v[k] = r[k - Len(s)]
  BY ConcatParts
<1>2. Len(s) \in Nat /\ Len(v) \in Nat
  BY ConcatProperties, LenProperties
<1> HIDE DEF v
<1>3. CASE i \in 1 .. Len(s) /\ v[i] = s[i] /\ j \in 1 .. Len(s) /\ v[j] = s[j]
  BY <1>3 DEF Apart
<1>4. CASE i \in 1 .. Len(s) /\ v[i] = s[i] /\ j - Len(s) \in 1 .. Len(r) /\ v[j] = r[j - Len(s)]
  BY <1>4
<1>5. CASE i - Len(s) \in 1 .. Len(r) /\ v[i] = r[i - Len(s)] /\ j \in 1 .. Len(s) /\ v[j] = s[j]
  BY <1>5
<1>6. CASE /\ i - Len(s) \in 1 .. Len(r) /\ v[i] = r[i - Len(s)]
           /\ j - Len(s) \in 1 .. Len(r) /\ v[j] = r[j - Len(s)]
  <2>1. i - Len(s) # j - Len(s)
    BY <1>2
  <2> QED BY <1>6, <2>1 DEF Apart
<1> QED BY <1>1, <1>3, <1>4, <1>5, <1>6

\* Visiting the first node of a worklist: its children take its place (the
\* recursion of informDescendants) or queue up behind the others (the BFS of
\* upgradeLock).
LEMMA VisitHead ==
    ASSUME NEW w \in Seq(Node), w # <<>>, Apart(w)
    PROVE  /\ Head(w) \in Reach(w)
           /\ Reach(Children[Head(w)] \o Tail(w)) = Reach(w) \ {Head(w)}
           /\ Apart(Children[Head(w)] \o Tail(w))
           /\ Reach(Tail(w) \o Children[Head(w)]) = Reach(w) \ {Head(w)}
           /\ Apart(Tail(w) \o Children[Head(w)])
<1> DEFINE h == Head(w)
           s == Children[h]
           r == Tail(w)
<1>1. /\ h \in Node /\ s \in Seq(Node) /\ r \in Seq(Node)
      /\ Len(r) = Len(w) - 1 /\ \A i \in 1 .. Len(r) : r[i] = w[i + 1]
      /\ h = w[1] /\ Len(w) \in Nat /\ Len(w) >= 1 /\ Len(s) \in Nat
      /\ \A i \in 1 .. Len(w) : w[i] \in Node
  <2>1. h \in Node /\ r \in Seq(Node) /\ Len(r) = Len(w) - 1 /\ \A i \in 1 .. Len(r) : r[i] = w[i + 1]
    BY HeadTailProperties
  <2>2. s \in Seq(Node)
    BY <2>1, TreeTypes
  <2>3. h = w[1] /\ Len(w) \in Nat /\ Len(w) >= 1 /\ Len(s) \in Nat /\ \A i \in 1 .. Len(w) : w[i] \in Node
    BY <2>2, EmptySeq
  <2> QED BY <2>1, <2>2, <2>3
<1> HIDE DEF h, s, r
<1>2. Below[h] = Reach(s) /\ Apart(s)
  BY <1>1, BelowUnfold, ChildrenApart DEF s
<1>3. Reach(w) = {h} \cup Below[h] \cup Reach(r)
  <2>1. ASSUME NEW d \in Reach(w) PROVE d \in {h} \cup Below[h] \cup Reach(r)
    <3>1. PICK i \in 1 .. Len(w) : d = w[i] \/ d \in Below[w[i]]
      BY DEF Reach
    <3>2. CASE i = 1
      BY <1>1, <3>1, <3>2
    <3>3. CASE i # 1
      <4>1. i - 1 \in 1 .. Len(r) /\ (i - 1) + 1 = i
        BY <1>1, <3>3
      <4>2. r[i - 1] = w[i]
        BY <1>1, <4>1
      <4> QED BY <3>1, <4>1, <4>2 DEF Reach
    <3> QED BY <3>2, <3>3
  <2>2. 1 \in 1 .. Len(w) /\ {h} \cup Below[h] \subseteq Node
    BY <1>1, BelowIs
  <2>3. {h} \cup Below[h] \subseteq Reach(w)
    BY <1>1, <2>2 DEF Reach
  <2>4. ASSUME NEW d \in Reach(r) PROVE d \in Reach(w)
    <3>1. PICK i \in 1 .. Len(r) : d = r[i] \/ d \in Below[r[i]]
      BY DEF Reach
    <3>2. i + 1 \in 1 .. Len(w) /\ r[i] = w[i + 1]
      BY <1>1
    <3> QED BY <3>1, <3>2 DEF Reach
  <2> QED BY <2>1, <2>3, <2>4
\* The subtree of h and the rest of the worklist have nothing in common.
<1>4. \A i \in 1 .. Len(r) : r[i] \in Node /\ r[i] # h /\ r[i] \notin Below[h] /\ h \notin Below[r[i]]
  <2> SUFFICES ASSUME NEW i \in 1 .. Len(r)
               PROVE  r[i] \in Node /\ r[i] # h /\ r[i] \notin Below[h] /\ h \notin Below[r[i]]
    OBVIOUS
  <2>1. i + 1 \in 1 .. Len(w) /\ 1 \in 1 .. Len(w) /\ i + 1 # 1 /\ r[i] = w[i + 1]
    BY <1>1
  <2> QED BY <1>1, <2>1 DEF Apart
<1>5. h \notin Reach(r) /\ h \notin Below[h]
  <2>1. h \notin Reach(r)
    BY <1>4 DEF Reach
  <2> QED BY <1>1, <2>1, BelowIs, AboveFacts
<1>6. Apart(r)
  <2> SUFFICES ASSUME NEW i \in 1 .. Len(r), NEW j \in 1 .. Len(r), i # j
               PROVE  r[i] # r[j] /\ r[i] \notin Below[r[j]]
    BY DEF Apart
  <2>1. i + 1 \in 1 .. Len(w) /\ j + 1 \in 1 .. Len(w) /\ i + 1 # j + 1 /\ r[i] = w[i + 1] /\ r[j] = w[j + 1]
    BY <1>1
  <2> QED BY <2>1 DEF Apart
<1>7. \A i \in 1 .. Len(s) : \A j \in 1 .. Len(r) :
          s[i] # r[j] /\ s[i] \notin Below[r[j]] /\ r[j] \notin Below[s[i]]
  <2> SUFFICES ASSUME NEW i \in 1 .. Len(s), NEW j \in 1 .. Len(r)
               PROVE  s[i] # r[j] /\ s[i] \notin Below[r[j]] /\ r[j] \notin Below[s[i]]
    OBVIOUS
  <2>1. PICK c \in Node : c = s[i] /\ Parent[c] = h
    BY <1>1, TreeAssumption DEF s
  <2>2. PICK e \in Node : e = r[j]
    BY <1>4
  <2>3. Above[c] = {h} \cup Above[h]
    BY <1>1, <2>1, AboveUnfold, TreeAssumption
  <2>4. e # h /\ h \notin Above[e] /\ e \notin Above[h]
    <3>1. e # h /\ e \notin Below[h] /\ h \notin Below[e]
      BY <1>4, <2>2
    <3>2. Below[h] = {d \in Node : h \in Above[d]} /\ Below[e] = {d \in Node : e \in Above[d]}
      BY <1>1, BelowIs
    <3> QED BY <1>1, <3>1, <3>2
  <2>5. c # e /\ e \notin Above[c] /\ c \notin Above[e]
    BY <2>3, <2>4, AboveFacts
  <2> QED BY <2>1, <2>2, <2>5, BelowIs
<1>8. h \in Reach(w) /\ Reach(s) \cup Reach(r) = Reach(w) \ {h}
  BY <1>2, <1>3, <1>5
<1>9. Reach(s \o r) = Reach(w) \ {h} /\ Reach(r \o s) = Reach(w) \ {h}
  BY <1>1, <1>8, ReachConcat
<1>10. Apart(s \o r)
  BY <1>1, <1>2, <1>6, <1>7, ApartConcat
<1>11. Apart(r \o s)
  <2>1. \A i \in 1 .. Len(r) : \A j \in 1 .. Len(s) :
           r[i] # s[j] /\ r[i] \notin Below[s[j]] /\ s[j] \notin Below[r[i]]
    BY <1>7
  <2> QED BY <1>1, <1>2, <1>6, <2>1, ApartConcat
<1> QED BY <1>8, <1>9, <1>10, <1>11 DEF h, s, r

\* A propagation that starts has everything around its node before it.
LEMMA PropagationStarts ==
    ASSUME TypeInv, NEW t \in Thread, NEW n \in Node, StartInform(t, n)
    PROVE  /\ PendingAbove(t)' = Above[n] /\ PendingBelow(t)' = Below[n]
           /\ Apart(work'[t])
<1>1. cursor'[t] = Parent[n] /\ work'[t] = Children[n]
  BY DEF StartInform, TypeInv, ThreadTypes
<1>2. PendingAbove(t)' = Above[n]
  BY <1>1, AboveUnfold DEF PendingAbove
<1>3. PendingBelow(t)' = Below[n]
  <2>1. PendingBelow(t)' = Reach(work'[t])
    BY DEF PendingBelow, Reach
  <2> QED BY <1>1, <2>1, BelowUnfold
<1>4. Apart(work'[t])
  BY <1>1, ChildrenApart
<1> QED BY <1>2, <1>3, <1>4

\* Informing the node under the cursor leaves those above it.
LEMMA CursorClimbs ==
    ASSUME TypeInv, NEW t \in Thread, InformAncestor(t)
    PROVE  /\ cursor[t] \in Node /\ cursor[t] \in PendingAbove(t)
           /\ PendingAbove(t)' = PendingAbove(t) \ {cursor[t]}
           /\ PendingBelow(t)' = PendingBelow(t) /\ work'[t] = work[t]
<1>1. PICK c \in Node : c = cursor[t]
  BY DEF InformAncestor, TypeInv, ThreadTypes
<1>2. cursor'[t] = Parent[c] /\ work' = work /\ cursor[t] # NoNode
  BY <1>1 DEF InformAncestor, TypeInv, ThreadTypes
<1>3. /\ PendingAbove(t) = {c} \cup Above[c]
      /\ PendingAbove(t)' = IF Parent[c] = NoNode THEN {} ELSE {Parent[c]} \cup Above[Parent[c]]
  BY <1>1, <1>2 DEF PendingAbove
<1>4. PendingAbove(t)' = PendingAbove(t) \ {c}
  BY <1>3, AboveUnfold, AboveFacts
<1>5. PendingBelow(t)' = PendingBelow(t)
  BY <1>2 DEF PendingBelow
<1> QED BY <1>1, <1>2, <1>3, <1>4, <1>5

\* Informing the first node of the worklist leaves the rest of what it reaches.
LEMMA WorklistShrinks ==
    ASSUME TypeInv, NEW t \in Thread, InformDescendant(t), Apart(work[t])
    PROVE  /\ Head(work[t]) \in Node /\ Head(work[t]) \in PendingBelow(t)
           /\ PendingBelow(t)' = PendingBelow(t) \ {Head(work[t])}
           /\ PendingAbove(t)' = PendingAbove(t)
           /\ Apart(work'[t])
<1>1. work[t] \in Seq(Node) /\ work[t] # <<>> /\ cursor' = cursor
  BY DEF InformDescendant, TypeInv, ThreadTypes
<1>2. work'[t] = Children[Head(work[t])] \o Tail(work[t])
  BY DEF InformDescendant, TypeInv, ThreadTypes
<1>3. PendingBelow(t) = Reach(work[t]) /\ PendingBelow(t)' = Reach(work'[t])
  BY DEF PendingBelow, Reach
<1>4. PendingAbove(t)' = PendingAbove(t)
  BY <1>1 DEF PendingAbove
<1> QED BY <1>1, <1>2, <1>3, <1>4, VisitHead, HeadTailProperties
=============================================================================
