---------------------------- MODULE ForestProofs ----------------------------
(***************************************************************************)
(* What Ancestors returns, for every forest.  AncestorMap is a recursive   *)
(* function: the first two lemmas show that it has the value its equation  *)
(* says, by exhibiting one function that satisfies the equation, the least *)
(* set closed under parents.  The others argue by the topmost counter-     *)
(* example that IsForest gives.                                            *)
(***************************************************************************)
EXTENDS Forest, TLAPS

\* S holds, with a node, the node's parent.
Closed(par, S) == \A x \in S : par[x] \in DOMAIN par => par[x] \in S

\* The least set closed under parents that holds n's parent.
Lfp(par, n) ==
    {a \in DOMAIN par :
        \A S \in SUBSET DOMAIN par :
            Closed(par, S) /\ (par[n] \in DOMAIN par => par[n] \in S) => a \in S}

\* The least closed set satisfies the equation of informAncestors' loop.
LEMMA LfpUnfold ==
    ASSUME NEW par, NEW n \in DOMAIN par
    PROVE  Lfp(par, n) = IF par[n] \in DOMAIN par
                         THEN {par[n]} \cup Lfp(par, par[n]) ELSE {}
<1>1. CASE par[n] \notin DOMAIN par
  <2>1. Closed(par, {}) /\ {} \in SUBSET DOMAIN par
    BY DEF Closed
  <2> QED BY <1>1, <2>1 DEF Lfp
<1>2. CASE par[n] \in DOMAIN par
  <2> DEFINE p == par[n]
  <2>1. ASSUME NEW a \in Lfp(par, n) PROVE a \in {p} \cup Lfp(par, p)
    <3> DEFINE T == {p} \cup Lfp(par, p)
    <3>1. T \in SUBSET DOMAIN par
      BY <1>2 DEF Lfp
    <3>2. Closed(par, T)
      BY <1>2 DEF Lfp, Closed
    <3> QED BY <1>2, <2>1, <3>1, <3>2 DEF Lfp
  <2>2. p \in Lfp(par, n)
    BY <1>2 DEF Lfp
  <2>3. ASSUME NEW a \in Lfp(par, p) PROVE a \in Lfp(par, n)
    BY <1>2, <2>3 DEF Lfp, Closed
  <2> QED BY <1>2, <2>1, <2>2, <2>3
<1> QED BY <1>1, <1>2

\* The ancestors of n are its parent and the parent's ancestors.
LEMMA AncestorsUnfold ==
    ASSUME NEW par, NEW n \in DOMAIN par
    PROVE  Ancestors(par, n) = IF par[n] \in DOMAIN par
                               THEN {par[n]} \cup Ancestors(par, par[n]) ELSE {}
<1> DEFINE F(f) == [x \in DOMAIN par |->
                       IF par[x] \in DOMAIN par THEN {par[x]} \cup f[par[x]] ELSE {}]
           g == [x \in DOMAIN par |-> Lfp(par, x)]
<1>1. g = F(g)
  BY LfpUnfold
<1>2. \E f : f = F(f)
  BY <1>1
<1>3. AncestorMap(par) = CHOOSE f : f = F(f)
  BY DEF AncestorMap
<1> HIDE DEF F, g
<1>4. AncestorMap(par) = F(AncestorMap(par))
  BY <1>2, <1>3
<1> QED BY <1>4 DEF Ancestors, F

\* Ancestors are nodes.
LEMMA AncestorsInDomain ==
    ASSUME NEW par, IsForest(par), NEW n \in DOMAIN par
    PROVE  Ancestors(par, n) \subseteq DOMAIN par
<1> DEFINE S == {x \in DOMAIN par : ~(Ancestors(par, x) \subseteq DOMAIN par)}
<1>1. SUFFICES ASSUME S # {} PROVE FALSE
  OBVIOUS
<1>2. PICK x \in S : par[x] \notin S
  BY <1>1 DEF IsForest
<1>3. CASE par[x] \in DOMAIN par
  BY <1>2, <1>3, AncestorsUnfold
<1>4. CASE par[x] \notin DOMAIN par
  BY <1>2, <1>4, AncestorsUnfold
<1> QED BY <1>3, <1>4

\* An ancestor of an ancestor is an ancestor.
LEMMA AncestorsTransitive ==
    ASSUME NEW par, IsForest(par), NEW n \in DOMAIN par,
           NEW b \in Ancestors(par, n), NEW a \in Ancestors(par, b)
    PROVE  a \in Ancestors(par, n)
<1> DEFINE S == {x \in DOMAIN par : b \in Ancestors(par, x) /\ a \notin Ancestors(par, x)}
<1>1. SUFFICES ASSUME S # {} PROVE FALSE
  OBVIOUS
<1>2. PICK x \in S : par[x] \notin S
  BY <1>1 DEF IsForest
<1>3. CASE par[x] \in DOMAIN par
  BY <1>2, <1>3, AncestorsUnfold
<1>4. CASE par[x] \notin DOMAIN par
  BY <1>2, <1>4, AncestorsUnfold
<1> QED BY <1>3, <1>4

\* No node is its own ancestor.
LEMMA AncestorsIrreflexive ==
    ASSUME NEW par, IsForest(par), NEW n \in DOMAIN par
    PROVE  n \notin Ancestors(par, n)
<1> DEFINE S == {x \in DOMAIN par : x \in Ancestors(par, x)}
<1>1. SUFFICES ASSUME S # {} PROVE FALSE
  OBVIOUS
<1>2. PICK x \in S : par[x] \notin S
  BY <1>1 DEF IsForest
<1>3. par[x] \in DOMAIN par /\ x \in {par[x]} \cup Ancestors(par, par[x])
  BY <1>2, AncestorsUnfold
<1>4. par[x] \in Ancestors(par, x)
  BY <1>2, <1>3, AncestorsUnfold
<1>5. CASE x = par[x]
  BY <1>2, <1>5
<1>6. CASE x \in Ancestors(par, par[x])
  BY <1>2, <1>3, <1>4, <1>6, AncestorsTransitive
<1> QED BY <1>3, <1>5, <1>6

\* The ancestors of a node lie on one path.
LEMMA AncestorsChain ==
    ASSUME NEW par, IsForest(par), NEW n \in DOMAIN par,
           NEW a \in Ancestors(par, n), NEW b \in Ancestors(par, n)
    PROVE  a = b \/ a \in Ancestors(par, b) \/ b \in Ancestors(par, a)
<1> DEFINE S == {x \in DOMAIN par : a \in Ancestors(par, x) /\ b \in Ancestors(par, x)}
<1>1. SUFFICES ASSUME ~(a = b \/ a \in Ancestors(par, b) \/ b \in Ancestors(par, a))
               PROVE  FALSE
  OBVIOUS
<1>2. PICK x \in S : par[x] \notin S
  BY DEF IsForest
<1>3. CASE par[x] \in DOMAIN par
  BY <1>1, <1>2, <1>3, AncestorsUnfold
<1>4. CASE par[x] \notin DOMAIN par
  BY <1>2, <1>4, AncestorsUnfold
<1> QED BY <1>3, <1>4

\* Hanging a node without children under another changes no other node's ancestors.
LEMMA AncestorsGrow ==
    ASSUME NEW par, IsForest(par), NEW new \in DOMAIN par, NEW p,
           \A x \in DOMAIN par : par[x] # new,
           p # new
    PROVE  LET grown == [par EXCEPT ![new] = p] IN
           /\ IsForest(grown)
           /\ \A x \in DOMAIN par \ {new} :
                 /\ new \notin Ancestors(par, x)
                 /\ Ancestors(grown, x) = Ancestors(par, x)
<1> DEFINE grown == [par EXCEPT ![new] = p]
<1>1. IsForest(grown)
  <2> SUFFICES ASSUME NEW S \in SUBSET DOMAIN par, S # {}
               PROVE  \E x \in S : grown[x] \notin S
    BY DEF IsForest
  <2>1. CASE S = {new}
    BY <2>1
  <2>2. CASE S # {new}
    <3>1. PICK x \in S \ {new} : par[x] \notin S \ {new}
      BY <2>2 DEF IsForest
    <3> QED BY <3>1
  <2> QED BY <2>1, <2>2
<1>2. \A x \in DOMAIN par \ {new} :
         new \notin Ancestors(par, x) /\ Ancestors(grown, x) = Ancestors(par, x)
  <2> DEFINE S == {x \in DOMAIN par \ {new} :
                     ~(new \notin Ancestors(par, x) /\ Ancestors(grown, x) = Ancestors(par, x))}
  <2>1. SUFFICES ASSUME S # {} PROVE FALSE
    OBVIOUS
  <2>2. PICK x \in S : par[x] \notin S
    BY <2>1 DEF IsForest
  <2>3. DOMAIN grown = DOMAIN par /\ grown[x] = par[x] /\ par[x] # new
    BY <2>2
  <2>4. CASE par[x] \in DOMAIN par
    <3>1. Ancestors(par, x) = {par[x]} \cup Ancestors(par, par[x])
      BY <2>2, <2>4, AncestorsUnfold
    <3>2. Ancestors(grown, x) = {par[x]} \cup Ancestors(grown, par[x])
      BY <2>2, <2>3, <2>4, AncestorsUnfold
    <3> QED BY <2>2, <2>3, <2>4, <3>1, <3>2
  <2>5. CASE par[x] \notin DOMAIN par
    <3>1. Ancestors(par, x) = {} /\ Ancestors(grown, x) = {}
      BY <2>2, <2>3, <2>5, AncestorsUnfold
    <3> QED BY <2>2, <3>1
  <2> QED BY <2>4, <2>5
<1> QED BY <1>1, <1>2
=============================================================================
