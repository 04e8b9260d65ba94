-------------------------- MODULE DashboardProofs --------------------------
(***************************************************************************)
(* The accounts of the engine balance, and what the page shows of them,    *)
(* for any number of polls in flight, simulations, workers, gateways and   *)
(* transactions.                                                           *)
(***************************************************************************)
EXTENDS Dashboard, FiniteSetTheorems, TLAPS

\* The engine.
EngineInv == EngineTypeOK /\ WorkersAccounted /\ MetricsBalanced
-----------------------------------------------------------------------------
LEMMA EngineTypeInit == EngineInit => EngineTypeOK
  BY EngineAssumption DEF EngineInit, EngineTypeOK, Phases

LEMMA EngineTypeNext == EngineTypeOK /\ [EngineNext]_engineVars => EngineTypeOK'
<1> SUFFICES ASSUME EngineTypeOK, [EngineNext]_engineVars
             PROVE  EngineTypeOK'
  OBVIOUS
<1> USE EngineAssumption DEF EngineTypeOK, Phases, Enter, Count
<1>1. ASSUME NEW r \in Request, Post(r) PROVE EngineTypeOK'
  BY <1>1 DEF Post
<1>2. ASSUME NEW r \in Request, Respond(r) PROVE EngineTypeOK'
  BY <1>2 DEF Respond, workerVars
<1>3. ASSUME NEW w \in Worker, Start(w) PROVE EngineTypeOK'
  <2>1. left[w] - 1 \in 0 .. TxnPerThread
    BY <1>3 DEF Start
  <2> QED BY <1>3, <2>1 DEF Start
<1>4. ASSUME NEW w \in Worker, Refused(w) PROVE EngineTypeOK'
  BY <1>4 DEF Refused
<1>5. ASSUME NEW w \in Worker, Granted(w) PROVE EngineTypeOK'
  BY <1>5 DEF Granted
<1>6. ASSUME NEW w \in Worker, Free(w) PROVE EngineTypeOK'
  BY <1>6 DEF Free
<1>7. ASSUME NEW w \in Worker, Exit(w) PROVE EngineTypeOK'
  BY <1>7 DEF Exit
<1>8. ASSUME NEW w \in Worker, NEW n \in Gateway, Take(w, n) PROVE EngineTypeOK'
  BY <1>8 DEF Take
<1>9. CASE UNCHANGED engineVars
  BY <1>9 DEF engineVars, workerVars
<1> QED BY <1>1, <1>2, <1>3, <1>4, <1>5, <1>6, <1>7, <1>8, <1>9 DEF EngineNext, Work
-----------------------------------------------------------------------------
LEMMA AccountedInit == EngineInit => WorkersAccounted
  BY EngineAssumption DEF EngineInit, WorkersAccounted

\* A step of w that keeps the account of w in order.
LEMMA AccountedStep ==
    ASSUME EngineTypeOK, WorkersAccounted, NEW w \in Worker,
           UNCHANGED request,
           \A v \in Worker \ {w} : phase'[v] = phase[v] /\ leaf'[v] = leaf[v] /\ left'[v] = left[v],
           request[RequestOf[w]] = "running",
           leaf'[w] # NoNode <=> phase'[w] \in {"holding", "paying"},
           phase'[w] = "out" => left'[w] = 0,
           leaf'[w] # NoNode => \A v \in Worker \ {w} : leaf[v] # leaf'[w]
    PROVE  WorkersAccounted'
  BY DEF WorkersAccounted

LEMMA AccountedNext == EngineTypeOK /\ WorkersAccounted /\ [EngineNext]_engineVars => WorkersAccounted'
<1> SUFFICES ASSUME EngineTypeOK, WorkersAccounted, [EngineNext]_engineVars
             PROVE  WorkersAccounted'
  OBVIOUS
<1> USE EngineAssumption DEF EngineTypeOK, Phases, Enter, Count
<1>1. ASSUME NEW r \in Request, Post(r) PROVE WorkersAccounted'
  BY <1>1 DEF Post, WorkersOf, WorkersAccounted
<1>2. ASSUME NEW r \in Request, Respond(r) PROVE WorkersAccounted'
  BY <1>2 DEF Respond, workerVars, WorkersOf, WorkersAccounted
<1>3. ASSUME NEW w \in Worker, Start(w) PROVE WorkersAccounted'
  <2>1. left[w] - 1 \in Nat
    BY <1>3 DEF Start
  <2> QED BY <1>3, <2>1, AccountedStep DEF Start, WorkersAccounted
<1>4. ASSUME NEW w \in Worker, Refused(w) PROVE WorkersAccounted'
  BY <1>4, AccountedStep DEF Refused, WorkersAccounted
<1>5. ASSUME NEW w \in Worker, Granted(w) PROVE WorkersAccounted'
  BY <1>5, AccountedStep DEF Granted, WorkersAccounted
<1>6. ASSUME NEW w \in Worker, Free(w) PROVE WorkersAccounted'
  BY <1>6, AccountedStep DEF Free, WorkersAccounted
<1>7. ASSUME NEW w \in Worker, Exit(w) PROVE WorkersAccounted'
  BY <1>7, AccountedStep DEF Exit, WorkersAccounted
<1>8. ASSUME NEW w \in Worker, NEW n \in Gateway, Take(w, n) PROVE WorkersAccounted'
  BY <1>8, AccountedStep DEF Take, Locked, WorkersAccounted
<1>9. CASE UNCHANGED engineVars
  BY <1>9 DEF engineVars, workerVars, WorkersAccounted
<1> QED BY <1>1, <1>2, <1>3, <1>4, <1>5, <1>6, <1>7, <1>8, <1>9 DEF EngineNext, Work
-----------------------------------------------------------------------------
LEMMA UndecidedFinite == IsFiniteSet(Undecided) /\ Cardinality(Undecided) \in Nat
<1>1. Undecided \in SUBSET Worker
  BY DEF Undecided
<1>2. IsFiniteSet(Undecided)
  BY <1>1, FS_Subset, EngineAssumption
<1> QED BY <1>2, FS_CardinalityType

LEMMA BalancedInit == EngineInit => MetricsBalanced
<1> SUFFICES ASSUME EngineInit PROVE MetricsBalanced
  OBVIOUS
<1>1. Undecided = {}
  BY DEF EngineInit, Undecided
<1>2. Cardinality(Undecided) = 0
  BY <1>1, FS_EmptySet
<1> QED BY <1>2 DEF EngineInit, MetricsBalanced

LEMMA BalancedNext ==
    EngineTypeOK /\ WorkersAccounted /\ MetricsBalanced /\ [EngineNext]_engineVars => MetricsBalanced'
<1> SUFFICES ASSUME EngineTypeOK, WorkersAccounted, MetricsBalanced, [EngineNext]_engineVars
             PROVE  MetricsBalanced'
  OBVIOUS
<1>0. IsFiniteSet(Undecided) /\ Cardinality(Undecided) \in Nat
  BY UndecidedFinite
<1>a. ASSUME UNCHANGED metrics, Undecided' = Undecided PROVE MetricsBalanced'
  BY <1>a DEF MetricsBalanced
<1>b. ASSUME NEW w \in Undecided, Undecided' = Undecided \ {w}
      PROVE  Cardinality(Undecided') = Cardinality(Undecided) - 1
  BY <1>0, <1>b, FS_RemoveElement
<1> USE DEF EngineTypeOK, Phases, Enter, Count
<1>1. ASSUME NEW r \in Request, Post(r) PROVE MetricsBalanced'
  <2>1. Undecided' = Undecided
    BY <1>1, EngineAssumption DEF Post, WorkersOf, WorkersAccounted, Undecided
  <2> QED BY <1>1, <1>a, <2>1 DEF Post
<1>2. ASSUME NEW r \in Request, Respond(r) PROVE MetricsBalanced'
  <2>1. Undecided' = Undecided
    BY <1>2 DEF Respond, workerVars, Undecided
  <2> QED BY <1>2, <1>a, <2>1 DEF Respond
<1>3. ASSUME NEW w \in Worker, Start(w) PROVE MetricsBalanced'
  <2>1. w \notin Undecided /\ Undecided' = Undecided \cup {w}
    BY <1>3 DEF Start, Undecided
  <2>2. Cardinality(Undecided') = Cardinality(Undecided) + 1
    BY <1>0, <2>1, FS_AddElement
  <2>3. /\ metrics'.total = metrics.total + 1
        /\ metrics'.success = metrics.success /\ metrics'.failed = metrics.failed
    BY <1>3 DEF Start
  <2> QED BY <1>0, <2>2, <2>3 DEF MetricsBalanced
<1>4. ASSUME NEW w \in Worker, Refused(w) PROVE MetricsBalanced'
  <2>1. w \in Undecided /\ Undecided' = Undecided \ {w}
    BY <1>4 DEF Refused, Undecided
  <2>2. Cardinality(Undecided') = Cardinality(Undecided) - 1
    BY <1>b, <2>1
  <2>3. /\ metrics'.failed = metrics.failed + 1
        /\ metrics'.success = metrics.success /\ metrics'.total = metrics.total
    BY <1>4 DEF Refused
  <2> QED BY <1>0, <2>2, <2>3 DEF MetricsBalanced
<1>5. ASSUME NEW w \in Worker, Granted(w) PROVE MetricsBalanced'
  <2>1. w \in Undecided /\ Undecided' = Undecided \ {w}
    BY <1>5 DEF Granted, Undecided
  <2>2. Cardinality(Undecided') = Cardinality(Undecided) - 1
    BY <1>b, <2>1
  <2>3. /\ metrics'.success = metrics.success + 1
        /\ metrics'.failed = metrics.failed /\ metrics'.total = metrics.total
    BY <1>5 DEF Granted
  <2> QED BY <1>0, <2>2, <2>3 DEF MetricsBalanced
<1>6. ASSUME NEW w \in Worker, Free(w) PROVE MetricsBalanced'
  <2>1. Undecided' = Undecided
    BY <1>6 DEF Free, Undecided
  <2> QED BY <1>6, <1>a, <2>1 DEF Free
<1>7. ASSUME NEW w \in Worker, Exit(w) PROVE MetricsBalanced'
  <2>1. Undecided' = Undecided
    BY <1>7 DEF Exit, Undecided
  <2> QED BY <1>7, <1>a, <2>1 DEF Exit
<1>8. ASSUME NEW w \in Worker, NEW n \in Gateway, Take(w, n) PROVE MetricsBalanced'
  <2>1. Undecided' = Undecided
    BY <1>8 DEF Take, Undecided
  <2> QED BY <1>8, <1>a, <2>1 DEF Take
<1>9. CASE UNCHANGED engineVars
  <2>1. Undecided' = Undecided
    BY <1>9 DEF engineVars, workerVars, Undecided
  <2> QED BY <1>9, <1>a, <2>1 DEF engineVars
<1> QED BY <1>1, <1>2, <1>3, <1>4, <1>5, <1>6, <1>7, <1>8, <1>9 DEF EngineNext, Work
-----------------------------------------------------------------------------
LEMMA EngineInvInit == EngineInit => EngineInv
  BY EngineTypeInit, AccountedInit, BalancedInit DEF EngineInv

LEMMA EngineInvNext == EngineInv /\ [EngineNext]_engineVars => EngineInv'
  BY EngineTypeNext, AccountedNext, BalancedNext DEF EngineInv

\* When no request runs all workers are out, so none is undecided.
LEMMA CleanAtRest == EngineInv /\ ~Simulating => AtRest
<1> SUFFICES ASSUME EngineInv, ~Simulating PROVE AtRest
  OBVIOUS
<1>1. \A w \in Worker : phase[w] = "out"
  BY EngineAssumption DEF EngineInv, WorkersAccounted, Simulating
<1>2. Undecided = {}
  BY <1>1 DEF Undecided
<1>3. Cardinality(Undecided) = 0
  BY <1>2, FS_EmptySet
<1>4. metrics.total = metrics.success + metrics.failed
  BY <1>3 DEF EngineInv, EngineTypeOK, MetricsBalanced
<1>5. \A w \in Worker : leaf[w] = NoNode
  BY <1>1 DEF EngineInv, WorkersAccounted
<1>6. \A n \in Gateway : ~Locked(n)
  BY <1>5, EngineAssumption DEF Locked
<1> QED BY <1>4, <1>6 DEF AtRest

\* Every transaction counted in totalTransactions is counted once more, as a
\* success or as a failure, or its worker is still inside lock().
THEOREM Balanced == EngineSpec => []MetricsBalanced
<1>1. EngineInv => MetricsBalanced
  BY DEF EngineInv
<1> QED BY EngineInvInit, EngineInvNext, <1>1, PTL DEF EngineSpec

\* Workers run only while their request does, and never two hold one gateway.
THEOREM Accounted == EngineSpec => []WorkersAccounted
<1>1. EngineInv => WorkersAccounted
  BY DEF EngineInv
<1> QED BY EngineInvInit, EngineInvNext, <1>1, PTL DEF EngineSpec

\* When no simulation request runs the totals add up and every gateway is free.
THEOREM Rests == EngineSpec => []RestIsClean
<1>1. EngineInv => RestIsClean
  BY CleanAtRest DEF RestIsClean
<1> QED BY EngineInvInit, EngineInvNext, <1>1, PTL DEF EngineSpec

-----------------------------------------------------------------------------
\* The page.

MetricsGet == [kind : {"metrics"}, todo : SUBSET Fields, seen : [Fields -> Nat], calm : BOOLEAN]
TreeGet == [kind : {"tree"}, todo : SUBSET Gateway, seen : SUBSET Gateway, calm : BOOLEAN]

\* Counters only grow: what has been read of them is not ahead of them.
Behind(seen) == \A f \in Fields : seen[f] <= metrics[f]

\* While no simulation runs nothing moves: what has been read still holds.
Current(g) ==
    /\ ~Simulating
    /\ g.kind = "metrics" => \A f \in Fields \ g.todo : g.seen[f] = metrics[f]
    /\ g.kind = "tree" => g.seen = {}

GetOK(g) ==
    g = NoGet \/ /\ g \in MetricsGet \cup TreeGet
                 /\ g.kind = "metrics" => Behind(g.seen)
                 /\ g.calm => Current(g)

DashboardInv ==
    /\ EngineInv
    /\ \A q \in Slot : GetOK(get[q])
    /\ noticed \in SUBSET Request
    /\ get = [q \in Slot |-> get[q]]
    /\ metricsShown \in [Fields -> Nat] /\ Behind(metricsShown)
-----------------------------------------------------------------------------
LEMMA MetricsAre == EngineInv => \A f \in Fields : metrics[f] \in Nat
  BY DEF EngineInv, EngineTypeOK, Fields

LEMMA NoGetKind == \A g \in MetricsGet \cup TreeGet : g # NoGet
<1> SUFFICES ASSUME NEW g \in MetricsGet \cup TreeGet PROVE g # NoGet
  OBVIOUS
<1>1. g.kind = "metrics" \/ g.kind = "tree"
  BY DEF MetricsGet, TreeGet
<1>2. NoGet.kind = "none"
  BY DEF NoGet
<1> QED BY <1>1, <1>2

LEMMA CalmField ==
    ASSUME NEW g, NEW k, NEW todo, NEW seen,
           g = [kind |-> k, todo |-> todo, seen |-> seen, calm |-> ~Simulating]
    PROVE  g.calm => ~Simulating
  OBVIOUS

LEMMA FreshOK == ASSUME EngineInv, NEW k \in {"metrics", "tree"} PROVE GetOK(Fresh(k))
<1>1. CASE k = "metrics"
  <2>1. Fresh(k) = [kind |-> "metrics", todo |-> Fields, seen |-> [f \in Fields |-> 0], calm |-> ~Simulating]
    BY <1>1 DEF Fresh
  <2>2. Fresh(k) \in MetricsGet
    BY <2>1 DEF MetricsGet, Simulating
  <2>3. /\ Fresh(k).kind = "metrics" /\ Fresh(k).todo = Fields
        /\ Fresh(k).seen = [f \in Fields |-> 0]
    BY <2>1
  <2>4. Fresh(k).calm => ~Simulating
    BY <2>1, CalmField
  <2>5. Behind(Fresh(k).seen)
    BY <2>3, MetricsAre DEF Behind
  <2>6. Fresh(k).calm => Current(Fresh(k))
    BY <2>3, <2>4 DEF Current
  <2> QED BY <2>2, <2>5, <2>6 DEF GetOK
<1>2. CASE k = "tree"
  <2>1. Fresh(k) = [kind |-> "tree", todo |-> Gateway, seen |-> {}, calm |-> ~Simulating]
    BY <1>2 DEF Fresh
  <2>2. Fresh(k) \in TreeGet
    BY <2>1 DEF TreeGet, Simulating
  <2>3. Fresh(k).kind = "tree" /\ Fresh(k).seen = {}
    BY <2>1
  <2>4. Fresh(k).calm => ~Simulating
    BY <2>1, CalmField
  <2>6. Fresh(k).calm => Current(Fresh(k))
    BY <2>3, <2>4 DEF Current
  <2> QED BY <2>2, <2>3, <2>6 DEF GetOK
<1> QED BY <1>1, <1>2

LEMMA DashboardInvInit == DashboardInit => DashboardInv
<1> SUFFICES ASSUME DashboardInit PROVE DashboardInv
  OBVIOUS
<1>1. EngineInv
  BY EngineInvInit DEF DashboardInit
<1>2. \A q \in Slot : get[q] \in {Fresh("metrics"), Fresh("tree"), NoGet}
  BY DEF DashboardInit
<1>3. GetOK(Fresh("metrics")) /\ GetOK(Fresh("tree")) /\ GetOK(NoGet)
  BY <1>1, FreshOK DEF GetOK
<1>4. get = [q \in Slot |-> get[q]]
  BY DEF DashboardInit
<1>5. metricsShown \in [Fields -> Nat] /\ Behind(metricsShown)
  BY <1>1, MetricsAre DEF DashboardInit, Behind
<1> QED BY <1>1, <1>2, <1>3, <1>4, <1>5 DEF DashboardInv, DashboardInit
-----------------------------------------------------------------------------
\* The metrics never go down, and without a running simulation not up either.
LEMMA EngineMoves ==
    ASSUME EngineInv, EngineNext
    PROVE  /\ \A f \in Fields : metrics[f] <= metrics'[f]
           /\ ~Simulating' => metrics' = metrics \/ Simulating
<1> USE DEF EngineInv, EngineTypeOK, Enter, Count, Fields
<1>1. ASSUME NEW r \in Request, Post(r) \/ Respond(r) PROVE metrics' = metrics
  BY <1>1 DEF Post, Respond
<1>2. ASSUME NEW w \in Worker, Work(w) PROVE /\ \A f \in Fields : metrics[f] <= metrics'[f]
                                             /\ Simulating
  <2>1. phase[w] # "out"
    BY <1>2 DEF Work, Start, Refused, Granted, Free, Exit, Take
  <2>2. Simulating
    BY <2>1, EngineAssumption DEF WorkersAccounted, Simulating
  <2>3. \A f \in Fields : metrics'[f] \in {metrics[f], metrics[f] + 1}
    BY <1>2 DEF Work, Start, Refused, Granted, Free, Exit, Take
  <2> QED BY <2>2, <2>3
<1> QED BY <1>1, <1>2 DEF EngineNext

LEMMA StepEngine == DashboardInv /\ EngineStep => DashboardInv'
<1> SUFFICES ASSUME DashboardInv, EngineStep PROVE DashboardInv'
  OBVIOUS
<1>1. EngineInv /\ EngineInv'
  BY EngineInvNext DEF DashboardInv, EngineStep
<1>2. \A f \in Fields : /\ metrics[f] \in Nat /\ metrics'[f] \in Nat
                        /\ metrics[f] <= metrics'[f]
  <2>1. \A f \in Fields : metrics[f] \in Nat /\ metrics'[f] \in Nat
    BY <1>1 DEF EngineInv, EngineTypeOK, Fields
  <2> QED BY <1>1, <2>1, EngineMoves DEF EngineStep
<1>3. ASSUME NEW q \in Slot PROVE GetOK(get[q])'
  <2>0. get'[q] = IF get[q] # NoGet /\ Simulating' THEN [get[q] EXCEPT !.calm = FALSE] ELSE get[q]
    BY DEF EngineStep
  <2>1. GetOK(get[q])
    BY DEF DashboardInv
  <2>2. CASE get[q] = NoGet
    BY <2>0, <2>2 DEF GetOK
  <2>3. CASE get[q] # NoGet /\ Simulating'
    <3>1. get[q] \in MetricsGet \cup TreeGet
      BY <2>1, <2>3 DEF GetOK
    <3>2. /\ get'[q] \in MetricsGet \cup TreeGet
          /\ get'[q].kind = get[q].kind /\ get'[q].seen = get[q].seen /\ get'[q].calm = FALSE
      <4>1. get'[q] = [get[q] EXCEPT !.calm = FALSE]
        BY <2>0, <2>3
      <4>2. CASE get[q] \in MetricsGet
        BY <4>1, <4>2 DEF MetricsGet
      <4>3. CASE get[q] \in TreeGet
        BY <4>1, <4>3 DEF TreeGet
      <4> QED BY <3>1, <4>2, <4>3
    <3>3. get[q].kind = "metrics" => get[q].seen \in [Fields -> Nat] /\ Behind(get[q].seen)
      BY <2>1, <2>3, <3>1 DEF GetOK, MetricsGet, TreeGet
    <3>4. get'[q].kind = "metrics" => Behind(get[q].seen)'
      BY <1>2, <3>2, <3>3 DEF Behind
    <3> QED BY <3>2, <3>4 DEF GetOK
  <2>4. CASE get[q] # NoGet /\ ~Simulating'
    <3>1. get[q] \in MetricsGet \cup TreeGet /\ get'[q] = get[q]
      BY <2>0, <2>1, <2>4 DEF GetOK
    <3>2. get[q].kind = "metrics" => get[q].seen \in [Fields -> Nat] /\ Behind(get[q].seen)
      BY <2>1, <2>4, <3>1 DEF GetOK, MetricsGet, TreeGet
    <3>3. get[q].kind = "metrics" => Behind(get[q].seen)'
      BY <1>2, <3>1, <3>2 DEF Behind
    <3>4. get[q].calm => Current(get[q])'
      <4> SUFFICES ASSUME get[q].calm PROVE Current(get[q])'
        OBVIOUS
      <4>1. Current(get[q])
        BY <2>1, <2>4 DEF GetOK
      <4>2. metrics' = metrics
        BY <1>1, <2>4, <4>1, EngineMoves DEF EngineStep, Current
      <4> QED BY <2>4, <3>1, <4>1, <4>2 DEF Current
    <3> QED BY <3>1, <3>3, <3>4 DEF GetOK
  <2> QED BY <2>2, <2>3, <2>4
<1>4. get' = [q \in Slot |-> get'[q]]
  BY DEF EngineStep
<1>5. metricsShown' \in [Fields -> Nat] /\ Behind(metricsShown)'
  BY <1>2 DEF DashboardInv, EngineStep, pageVars, Behind
<1>6. noticed' \in SUBSET Request
  BY DEF DashboardInv, EngineStep, pageVars
<1> QED BY <1>1, <1>3, <1>4, <1>5, <1>6 DEF DashboardInv
-----------------------------------------------------------------------------
\* A step of the page or of a GET handler leaves the engine alone.
LEMMA StepPage ==
    ASSUME DashboardInv, UNCHANGED engineVars,
           get' = [q \in Slot |-> get'[q]],
           \A q \in Slot : get'[q] = get[q] \/ GetOK(get'[q]),
           noticed' \in SUBSET Request,
           metricsShown' \in [Fields -> Nat], Behind(metricsShown')
    PROVE  DashboardInv'
<1>1. EngineInv'
  BY EngineInvNext DEF DashboardInv
<1>2. metrics' = metrics /\ (Simulating' <=> Simulating)
  BY DEF engineVars, Simulating
<1>3. \A q \in Slot : GetOK(get'[q])
  BY DEF DashboardInv
<1> QED BY <1>1, <1>2, <1>3 DEF DashboardInv, GetOK, Behind, Current, NoGet, MetricsGet, TreeGet

LEMMA DashboardInvNext == DashboardInv /\ [DashboardNext]_allVars => DashboardInv'
<1> SUFFICES ASSUME DashboardInv, [DashboardNext]_allVars PROVE DashboardInv'
  OBVIOUS
<1>0. /\ EngineInv /\ get = [q \in Slot |-> get[q]] /\ noticed \in SUBSET Request
      /\ metricsShown \in [Fields -> Nat] /\ Behind(metricsShown)
      /\ \A q \in Slot : GetOK(get[q])
      /\ GetOK(NoGet) /\ GetOK(Fresh("metrics")) /\ GetOK(Fresh("tree"))
  BY FreshOK DEF DashboardInv, GetOK
<1>1. CASE EngineStep
  BY <1>1, StepEngine
<1>2. ASSUME NEW q \in Slot, Poll(q) PROVE DashboardInv'
  BY <1>0, <1>2, StepPage DEF Poll, pageVars
<1>3. ASSUME NEW q \in Slot, NEW f \in Fields, LoadMetric(q, f) PROVE DashboardInv'
  <2>1. get[q] \in MetricsGet /\ get[q].kind = "metrics" /\ GetOK(get[q])
    <3>1. get[q].kind = "metrics" /\ GetOK(get[q])
      BY <1>0, <1>3 DEF LoadMetric, Pending
    <3> QED BY <3>1 DEF GetOK, NoGet, MetricsGet, TreeGet
  <2>2. metrics[f] \in Nat
    BY <1>0, MetricsAre
  <2>3. get'[q] = [get[q] EXCEPT !.todo = @ \ {f}, !.seen[f] = metrics[f]]
    BY <1>0, <1>3 DEF LoadMetric
  <2>4. /\ get'[q] \in MetricsGet
        /\ get'[q].kind = "metrics" /\ get'[q].todo = get[q].todo \ {f}
        /\ get'[q].calm = get[q].calm
        /\ get'[q].seen = [get[q].seen EXCEPT ![f] = metrics[f]]
    <3> DEFINE todo == get[q].todo \ {f}
               seen == [get[q].seen EXCEPT ![f] = metrics[f]]
    <3>1. todo \in SUBSET Fields /\ seen \in [Fields -> Nat]
      BY <2>1, <2>2 DEF MetricsGet
    <3>2. get'[q] = [get[q] EXCEPT !.todo = todo, !.seen = seen]
      BY <2>3
    <3> HIDE DEF todo, seen
    <3>3. /\ get'[q] \in MetricsGet
          /\ get'[q].kind = "metrics" /\ get'[q].calm = get[q].calm
          /\ get'[q].todo = todo /\ get'[q].seen = seen
      BY <2>1, <3>1, <3>2 DEF MetricsGet
    <3> QED BY <3>3 DEF todo, seen
  <2>5. Behind(get'[q].seen)
    BY <1>0, <2>1, <2>2, <2>4, NoGetKind DEF GetOK, Behind, MetricsGet
  <2>6. get'[q].calm => Current(get'[q])
    BY <1>0, <2>1, <2>4, NoGetKind DEF GetOK, Current, MetricsGet
  <2>7. GetOK(get'[q])
    BY <2>4, <2>5, <2>6 DEF GetOK
  <2>8. \A p \in Slot \ {q} : get'[p] = get[p]
    BY <1>0, <1>3 DEF LoadMetric
  <2>9. get' = [p \in Slot |-> get'[p]]
    BY <1>0, <1>3 DEF LoadMetric
  <2> QED BY <1>0, <1>3, <2>7, <2>8, <2>9, StepPage DEF LoadMetric, pageVars
<1>4. ASSUME NEW q \in Slot, LoadNode(q) PROVE DashboardInv'
  <2>1. get[q] \in TreeGet /\ get[q].kind = "tree" /\ GetOK(get[q]) /\ get[q].todo # {}
    <3>1. get[q].kind = "tree" /\ GetOK(get[q]) /\ get[q].todo # {}
      BY <1>0, <1>4 DEF LoadNode, Pending
    <3> QED BY <3>1 DEF GetOK, NoGet, MetricsGet, TreeGet
  <2>2. PICK n \in get[q].todo : get' = [get EXCEPT ![q].todo = @ \ {n},
                                    ![q].seen = IF Locked(n) THEN @ \cup {n} ELSE @]
    BY <1>4 DEF LoadNode
  <2>a. n \in Gateway
    BY <2>1 DEF TreeGet
  <2>3. get'[q] = [get[q] EXCEPT !.todo = @ \ {n}, !.seen = IF Locked(n) THEN @ \cup {n} ELSE @]
    BY <1>0, <2>2
  <2>4. /\ get'[q] \in TreeGet
        /\ get'[q].kind = "tree" /\ get'[q].calm = get[q].calm
        /\ get'[q].seen = IF Locked(n) THEN get[q].seen \cup {n} ELSE get[q].seen
    <3> DEFINE todo == get[q].todo \ {n}
               seen == IF Locked(n) THEN get[q].seen \cup {n} ELSE get[q].seen
    <3>1. todo \in SUBSET Gateway /\ seen \in SUBSET Gateway
      BY <2>1, <2>a DEF TreeGet
    <3>2. get'[q] = [get[q] EXCEPT !.todo = todo, !.seen = seen]
      BY <2>3
    <3> HIDE DEF todo, seen
    <3>3. /\ get'[q] \in TreeGet
          /\ get'[q].kind = "tree" /\ get'[q].calm = get[q].calm /\ get'[q].seen = seen
      BY <2>1, <3>1, <3>2 DEF TreeGet
    <3> QED BY <3>3 DEF todo, seen
  <2>5. ~Simulating => ~Locked(n)
    BY <1>0, <2>a, CleanAtRest DEF AtRest
  <2>6. get'[q].calm => Current(get'[q])
    BY <2>1, <2>4, <2>5, NoGetKind DEF GetOK, Current
  <2>7. GetOK(get'[q])
    BY <2>4, <2>6 DEF GetOK
  <2>8. \A p \in Slot \ {q} : get'[p] = get[p]
    BY <1>0, <2>2
  <2>9. get' = [p \in Slot |-> get'[p]]
    BY <1>0, <2>2
  <2> QED BY <1>0, <1>4, <2>7, <2>8, <2>9, StepPage DEF LoadNode, pageVars
<1>5. ASSUME NEW q \in Slot, Arrive(q) PROVE DashboardInv'
  <2>1. metricsShown' \in [Fields -> Nat] /\ Behind(metricsShown')
    BY <1>0, <1>5 DEF Arrive, Served, GetOK, MetricsGet, TreeGet
  <2> QED BY <1>0, <1>5, <2>1, StepPage DEF Arrive
<1>6. ASSUME NEW q \in Slot, FailGet(q) PROVE DashboardInv'
  BY <1>0, <1>6, StepPage DEF FailGet, pageVars
<1>7. ASSUME NEW r \in Request, SimulationDone(r) PROVE DashboardInv'
  BY <1>0, <1>7, StepPage DEF SimulationDone, FetchBoth
<1>8. ASSUME NEW r \in Request, FailPost(r) PROVE DashboardInv'
  BY <1>0, <1>8, StepPage DEF FailPost
<1>9. CASE UNCHANGED allVars
  BY <1>0, <1>9, StepPage DEF allVars, pageVars
<1> QED BY <1>1, <1>2, <1>3, <1>4, <1>5, <1>6, <1>7, <1>8, <1>9 DEF DashboardNext, Handle
-----------------------------------------------------------------------------
\* The page's numbers and requests keep their types, on top of the engine's.
THEOREM PageTypes == DashboardSpec => []DashboardTypeOK
<1>1. DashboardInv => DashboardTypeOK
  BY DEF DashboardInv, EngineInv, GetOK, MetricsGet, TreeGet, DashboardTypeOK
<1> QED BY DashboardInvInit, DashboardInvNext, <1>1, PTL DEF DashboardSpec

\* The page never shows more outcomes than transactions had been started,
\* whatever order the loads, answers and losses come in.
THEOREM NeverAhead == DashboardSpec => []OutcomesWereStarted
<1>1. DashboardInv => OutcomesWereStarted
  <2> SUFFICES ASSUME DashboardInv PROVE OutcomesWereStarted
    OBVIOUS
  <2>1. /\ metrics \in [total : Nat, success : Nat, failed : Nat]
        /\ metricsShown \in [Fields -> Nat]
        /\ metricsShown["success"] <= metrics["success"]
        /\ metricsShown["failed"] <= metrics["failed"]
    BY DEF DashboardInv, EngineInv, EngineTypeOK, Behind, Fields
  <2>2. metrics.total >= metrics.success + metrics.failed
    BY <2>1, UndecidedFinite DEF DashboardInv, EngineInv, MetricsBalanced
  <2> QED BY <2>1, <2>2 DEF OutcomesWereStarted, Fields
<1> QED BY DashboardInvInit, DashboardInvNext, <1>1, PTL DEF DashboardSpec

\* An answer given while no simulation ran is exact.
THEOREM CleanAnswers == DashboardSpec => []AnswersCleanAtRest
<1>1. DashboardInv => AnswersCleanAtRest
  <2> SUFFICES ASSUME DashboardInv, NEW q \in Slot, Served(q), get[q].calm
               PROVE  /\ get[q].kind = "tree" => get[q].seen = {}
                      /\ get[q].kind = "metrics" => get[q].seen.total = get[q].seen.success + get[q].seen.failed
    BY DEF AnswersCleanAtRest
  <2>1. Current(get[q]) /\ get[q].todo = {}
    BY DEF DashboardInv, GetOK, Served
  <2>2. AtRest
    BY <2>1, CleanAtRest DEF DashboardInv, Current
  <2> QED BY <2>1, <2>2 DEF Current, AtRest, Fields
<1> QED BY DashboardInvInit, DashboardInvNext, <1>1, PTL DEF DashboardSpec

=============================================================================
