-------------------------- MODULE HierarchicalLock --------------------------
(***************************************************************************)
(* What a payment tree promises its callers, with no counters: every node  *)
(* has at most one owner, and a node is granted only while no ancestor and *)
(* no descendant has one.  Each operation is one indivisible step.         *)
(***************************************************************************)
EXTENDS Forest

CONSTANTS Node, User, NoUser

VARIABLES
    parent,     \* parent[n]: the parent of n, or a value outside Node
    owner       \* owner[n]: the user that holds n, or NoUser

vars == <<parent, owner>>

Owned == {n \in Node : owner[n] # NoUser}

\* Nothing on the path through n is owned: n itself, above it or below it.
Grantable(n) ==
    /\ n \notin Owned
    /\ Ancestors(parent, n) \cap Owned = {}
    /\ Descendants(parent, n) \cap Owned = {}

\* u owns something below n, nobody else does, and nothing from n upwards is owned.
Upgradable(n, u) ==
    /\ n \notin Owned
    /\ Ancestors(parent, n) \cap Owned = {}
    /\ Descendants(parent, n) \cap Owned # {}
    /\ \A d \in Descendants(parent, n) \cap Owned : owner[d] = u
-----------------------------------------------------------------------------
Init ==
    /\ DOMAIN parent = Node
    /\ IsForest(parent)
    /\ owner = [n \in Node |-> NoUser]

\* u obtains n.
Acquire(n, u) ==
    /\ owner' = [owner EXCEPT ![n] = u]
    /\ Grantable(n)
    /\ UNCHANGED parent

\* u gives n back.
Release(n, u) ==
    /\ owner[n] = u
    /\ owner' = [owner EXCEPT ![n] = NoUser]
    /\ UNCHANGED parent

\* u exchanges all it owns below n for n, at once.
Upgrade(n, u) ==
    /\ owner' = [x \in Node |-> IF x = n THEN u
                                ELSE IF owner[x] = u /\ x \in Descendants(parent, n) THEN NoUser
                                ELSE owner[x]]
    /\ Upgradable(n, u)
    /\ UNCHANGED parent

\* An isolated node n joins the forest under p, above which nothing is owned.
Grow(n, p) ==
    /\ owner[n] = NoUser
    /\ parent[n] \notin Node
    /\ ChildrenOf(parent, n) = {}
    /\ n # p
    /\ p \notin Owned
    /\ Ancestors(parent, p) \cap Owned = {}
    /\ parent' = [parent EXCEPT ![n] = p]
    /\ UNCHANGED owner

Next ==
    \E n \in Node :
        \/ \E u \in User : Acquire(n, u) \/ Release(n, u) \/ Upgrade(n, u)
        \/ \E p \in Node : Grow(n, p)

Spec == Init /\ [][Next]_vars
-----------------------------------------------------------------------------
\* No two owned nodes lie on one path to the root.  This is what lock() and
\* upgradeLock() exist for: a payment on a gateway excludes payments on the
\* groups above it and the gateways below it.
OneLockPerPath ==
    \A n \in Owned : Ancestors(parent, n) \cap Owned = {}

=============================================================================
