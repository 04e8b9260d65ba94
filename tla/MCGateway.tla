------------------------------ MODULE MCGateway ------------------------------
(***************************************************************************)
(* Gateway on the program's own tree: two overlapping requests, one with   *)
(* two workers, whose first workers have index 0 and so the same user id.  *)
(***************************************************************************)
EXTENDS Gateway, PaymentHierarchy, TLC

CONSTANTS t1, t2, t3, u1, u2, r1, r2

PaymentTree == buildPaymentTree
HierarchyParent == PaymentTree.parent
HierarchyChildren == PaymentTree.children

WorkerIds == t1 :> {u1} @@ t2 :> {u2} @@ t3 :> {u1}
StartedFor == t1 :> r1 @@ t2 :> r1 @@ t3 :> r2

ASSUME TargetsAreGateways == LockTargets \subseteq gateways

=============================================================================
