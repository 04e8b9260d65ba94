------------------------------- MODULE Forest -------------------------------
(***************************************************************************)
(* The shape of a tree of nodes, as the parent pointers of the code give   *)
(* it.  `par' is the function from a node to its parent; a node whose      *)
(* parent is not a node of the domain is a root.                           *)
(***************************************************************************)

\* Following parent pointers never loops: every set of nodes has a topmost one.
IsForest(par) ==
    \A S \in SUBSET DOMAIN par : S # {} => \E x \in S : par[x] \notin S

\* For every node the nodes the loop of informAncestors visits from it:
\* current = node->parent; while (current) ... current = current->parent.
AncestorMap(par) ==
    LET anc[x \in DOMAIN par] ==
            IF par[x] \in DOMAIN par THEN {par[x]} \cup anc[par[x]] ELSE {}
    IN  anc

\* The proper ancestors of n.
Ancestors(par, n) == AncestorMap(par)[n]

\* The proper descendants of n: the nodes the recursion of informDescendants visits.
Descendants(par, n) == {d \in DOMAIN par : n \in Ancestors(par, d)}

\* The nodes whose parent pointer is n.
ChildrenOf(par, n) == {c \in DOMAIN par : par[c] = n}

=============================================================================
