---------------------------- MODULE MCPaymentTree ----------------------------
(***************************************************************************)
(* Instances of PaymentTree.                                               *)
(***************************************************************************)
EXTENDS PaymentTree, TLC

\* Names and users are interchangeable: the tree only compares them for equality.
Symmetry == Permutations(Name) \cup Permutations(User)

=============================================================================
