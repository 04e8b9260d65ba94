---------------------------- MODULE MCAtomicTree ----------------------------
(***************************************************************************)
(* Instances of AtomicTree: the test tree of test_atomic.cpp and a chain.  *)
(***************************************************************************)
EXTENDS AtomicTree, TLC

CONSTANTS Root, A, B, C, D, t1, t2, t3, u1, u2, u3

\* Root -> A, B;  A -> C, D (the tree of test_atomic.cpp without the leaf E)
TestParent == Root :> NoNode @@ A :> Root @@ B :> Root @@ C :> A @@ D :> A
TestChildren == Root :> <<A, B>> @@ A :> <<C, D>> @@ B :> <<>> @@ C :> <<>> @@ D :> <<>>

\* Root -> A -> C
ChainParent == Root :> NoNode @@ A :> Root @@ C :> A
ChainChildren == Root :> <<A>> @@ A :> <<C>> @@ C :> <<>>

\* Every thread is its own user, as the workers of test_atomic.cpp are.
TwoOwnUsers == t1 :> {u1} @@ t2 :> {u2}
OwnUsers == TwoOwnUsers @@ t3 :> {u3}
\* Two threads act for one user, as the workers of two overlapping
\* POST /api/simulate requests do.
SharedUser == t1 :> {u1} @@ t2 :> {u1}
\* One thread makes the calls of two users.
SoloUsers == t1 :> {u1, u2}

=============================================================================
