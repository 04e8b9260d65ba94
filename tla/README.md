# A verification of the payment gateway engine

The program keeps a tree of payment gateways (`PaymentSystem -> Cards -> Visa`, ...).
A payment locks a node; while it does, no payment may lock a node above or below.
The tree exists twice: single-threaded (`src/src/tree.cpp`) and lock-free
(`src/src/atomic_tree.cpp`), the second one driven by concurrent workers and an HTTP
server, on whose page a browser polls. This directory holds TLA+ models of both trees, of
the workers and requests that drive the lock-free one, of the page and of the thread pool
that serves it; the runs of TLC that check them on small instances; and theorems about them
that TLAPS proves for every instance.

    tlc -config MCPaymentTree.cfg MCPaymentTree     # one run
    tlapm PaymentTreeProofs.tla                     # the proofs of one module

`PROJECT.json` lists the components, runs, mutants, findings, hazards and theorems, and
maps each definition to the lines it models.

## 1. The system

| part | state | operations | used by |
|---|---|---|---|
| single-threaded tree, `tree.cpp`, `tree_node.h` | per node: parent, children, `isLocked`, `lockedBy`, `ancestorLockedCount`, `descendantLockedCount`; per tree: `root`, `nodeMap`, `m` | `addNode`, `lock`, `unlock`, `upgradeLock`, `getNode` | `test_tree.cpp` |
| lock-free tree, `atomic_tree.cpp`, `atomic_tree_node.h` | the same fields, the last four atomic; `Metrics` of the engine | the same, and `toJson` | simulator, HTTP server, `test_atomic.cpp` |
| stress test, `simulator.cpp` | workers' loop counters, random leaf; `Metrics` | each worker: `lock(leaf)`, payment, `unlock(leaf)`; final check for orphaned locks and inconsistent counters | its own `main` |
| HTTP server, `main.cpp` | the tree, the metrics | `GET /api/tree`, `GET /api/metrics`, `POST /api/simulate`, the last one with workers as above | dashboard |
| HTTP library, `httplib.h` (vendored) | accept loop; thread pool: jobs, base, dynamic and finished threads, idle count | `listen`, `enqueue`, `worker`, `shutdown`, keep-alive loop | HTTP server |
| dashboard, `frontend/index.html` | requests in flight, the numbers shown | polls metrics each second, draws the tree, starts simulations | a browser |
| tests, `Makefile` | - | drivers, build | - |

The page sends requests; the accept loop queues their connections; a pool thread runs the
handler. A `POST /api/simulate` handler starts workers and joins them; workers call the
tree, whose atomics are the one piece of shared memory that decides anything. The metrics
are added to by workers and loaded by `GET /api/metrics`; `GET /api/tree` loads each
node's `lockState`. Nothing is persisted.

What is hard here:

* `lock()` of the lock-free tree checks two counters, wins its node with a CAS, checks
  the counters again, and only then informs the nodes above and below, one `fetch_add`
  at a time. All of it interleaves with the same steps of other calls.
* `unlock()` clears the owner, frees the node and then takes the informing back;
  it restores the owner if it lost the node.
* `upgradeLock()` checks, scans the subtree, releases what it found and takes the target,
  each in a step of its own and on facts that may have changed since.
* The counters are a cache of a property of the whole tree: an increment lost or made
  twice anywhere is a refused payment, or two conflicting ones, much later.
* Requests overlap, so two workers may call with one user id.
* Answers are put together from loads at different times, overtake each other and get lost.
* The pool notifies outside its mutex, counts idle threads that already have a job waiting
  for them, lets threads time out at any moment, and joins threads with its mutex held.

What makes each part correct. *Single-threaded tree*: the O(1) checks decide as a walk of
the tree would, counters are exact, locked nodes never lie on one path, each operation is
an operation of the abstract lock. *Lock-free tree*: a node is given to one thread at a
time, its owner is recorded, `unlock` by the holder cannot fail, counters account for
every finished and unfinished call and are exact when all is quiet, every call returns.
*Simulator and server*: each transaction has one outcome, nothing is left behind when the
workers have been joined, every request is answered. *Dashboard*: what it shows never runs
ahead of what happened, and becomes exact. *Pool*: no wakeup and no connection is lost,
the number of threads is bounded, and `listen()` returns only when no thread is left that
could touch the tree `main()` is about to destroy.

`PROJECT.json` lists the hazards line by line, each with the properties about it.

## 2. Modules

| module | what it is |
|---|---|
| `Forest` | parent pointers: forests, ancestors, descendants, children |
| `HierarchicalLock` | the abstract promise: owners of nodes, one indivisible step per operation |
| `PaymentTree` | the single-threaded tree, one action per operation; implements `HierarchicalLock` |
| `AtomicTree` | the lock-free tree, one action per atomic access; implements `HierarchicalLock` where it does |
| `PaymentHierarchy` | `buildPaymentTree`: the program's own tree of 18 nodes, built call by call |
| `Engine` | the abstract promise of the gateway engine: requests, workers, transactions and metrics, with `lock` and `unlock` in one step each |
| `Gateway` | workers and requests composed with `AtomicTree`; implements `Engine` |
| `Dashboard` | the page and the GET handlers composed with `Engine` |
| `HttpServer` | accept loop, thread pool, keep-alive loop and shutdown of `httplib.h` |
| `MCPaymentTree`, `MCAtomicTree`, `MCGateway`, `MCDashboard`, `MCHttpServer` | instances for TLC |
| `ForestProofs` | lemmas on ancestors |
| `PaymentTreeProofs` | theorems about `PaymentTree` |
| `AtomicTreeProofs` | types of `AtomicTree`; lemmas on its tree and worklists |
| `AtomicLockProofs` | `lock` and `unlock`: ownership, refinement, counters |
| `AtomicUpgradeProofs` | all three calls, stray unlocks included: counters, plain stores, one thread's view |
| `GatewayProofs` | simulations: what they leave behind, refinement of `Engine` |
| `DashboardProofs` | theorems about `Engine` and `Dashboard` |
| `HttpServerProofs` | theorems about `HttpServer` |

Definitions whose comment begins with *Mutant* are not part of a specification: each is
a plausible mistake in the operation below it, kept so that every property is known to
notice one.

### HierarchicalLock

`owner[n]` is a user or `NoUser`. `Acquire` needs the node and everything above and below
it free; `Release` is the owner's; `Upgrade` trades all of one user's locks below a node
for the node; `Grow` hangs a lone node into the forest where nothing above it is owned.
There are no counters: this is what the counters are for.

### PaymentTree

A `TreeNode` is a number in order of allocation, `parent` and `nodeMap` are the pointers.
The `children` vectors are the inverse of `parent`, since only `addNode` writes either.
`AddNode`, `Lock`, `Unlock`, `UpgradeLock` are the four operations, each a single action
because nothing runs beside it; a call that returns false changes nothing and is a
stuttering step, so early returns are guards (`CanLock`, `CanUpgrade`). The recursions
`informAncestors` and `informDescendants` become `Inform` over the set they visit, and
the loop of `upgradeLock` over its collected nodes takes off each counter the number of
collected nodes below or above it. A name added twice replaces the first node in
`nodeMap`, and a second root replaces `root`, as in the code.

`AddWhileLocked` says whether callers add nodes while something is locked; the code
permits it, the program never does it. `TypeOK` includes that `isLocked` and `lockedBy`
agree: a free node's owner is -1, whichever operation freed it.

### AtomicTree

Threads call with users of their own (`UsersOf`), on the nodes the constants allow. The
program counter `pc[t]` names the next atomic access:

    lock         loadAncestors, loadDescendants, cas, recheckAncestors,
                 recheckDescendants, (rollback | setOwner, inform)
    unlock       checkOwner, clearOwner, casFree, (restoreOwner | inform)
    upgradeLock  checkState, checkAncestors, (scanState, scanOwner)*,
                 (freeState, freeOwner, inform)*, casUpgrade, setOwner, inform

`inform` is one `fetch_add` or `fetch_sub` per step: up the parents with `cursor`, then
through the subtree in the order of the recursion with the worklist `work`. `work` is
the BFS queue in the scan of `upgradeLock`; `found` is its `lockedDescendants`. `held[t]`
holds what calls that returned have told the thread. `compare_exchange_weak` may fail
spuriously (`CasLockSpurious`), `compare_exchange_strong` not. `Mortal` names threads that
may die inside a call: they are the ones without fairness, since a thread that never takes
another step leaves exactly what a killed one does.

Steps interleave in any order and every access sees the latest value: the model is
sequentially consistent, while the code uses acquire and release orders. What holds here
may still fail on weaker hardware; what fails here fails there too.

Two ways to say what the counters mean. `Share` is where a thread's lock on a node is
counted at this moment, from what its propagation has still to visit; with it
`CountsAccounted` says what a counter *is*, as long as each lock is one thread's from
`lock` to `unlock`. `ToAdd` and `ToTake` are the counters a call has still to change for a
`lockState` it has already changed; with them `CountsBalanced` says how far a counter may be
*off*, whoever frees whose lock.

`OwnerTold` is the hierarchy as callers see it, from what calls have returned; `Client` is
`HierarchicalLock` over it.

### Gateway and Engine

`Gateway` adds to `AtomicTree` the loop of `simulateTransactions` and the handler of
`POST /api/simulate`. `stage[t]` is where the worker is in its loop, `left[t]` how many
transactions it has still to start, `metrics` the three counts a transaction touches
(`casRetries` is `AtomicTree`'s). `BeginTransaction` counts the total and enters `lock()`;
while the call is inside the tree its steps are `TreeStep`; `Succeed` and `Fail` count the
outcome. `StartWorkers` and `Answer` are the two ends of the handler, `Answer` with its
joins. The stress test is a `Gateway` with a single request, whose `verifyTreeInvariants`
is evaluated when all is joined; workers of different requests share ids (`UserId`), as the
code numbers the threads of each request from 0. `Engine` says the same with `lock()` and
`unlock()` as single steps; the refinement maps a worker's place in the tree's code to
`phase` and the node between its CASes to `leaf`. `lock()` may be refused at any
time in `Engine`, because the code gives no better promise.

### Dashboard

`get[q]` is a GET in flight. A handler loads one atomic per step: the metrics in any order
(`LoadMetric`; they are operands of one chain of `+`, whose order of evaluation
C++ leaves open), the nodes in `toJson`'s pre-order (`LoadNode`). The
page polls (`Poll`), fetches both after a simulation (`SimulationDone`), shows what
arrives (`Arrive`), or catches the exception of a lost answer (`FailGet`, `FailPost`).
`calm` and `noticed` are history: whether a simulation has run since the request left, and
which POSTs the page has heard of. Only leaves are ever locked, so inner nodes are left
out of `Preorder`.

### HttpServer

`server` is the thread in `listen()`, one place per stretch of code between two
acquisitions of the pool's mutex: `enqueue`, `spawn` (which joins the finished threads
with the mutex held, so that `MutexFree` is false), `notify`, and the steps of
`ThreadPool::shutdown`. A worker is `entering` the mutex, `waiting` in its condition
variable, `woken` but without the mutex yet, `serving` a connection, `leaving` or `ended`.
`Timeout` is possible at any moment for a dynamic worker that finds nothing to do,
`WakeSpuriously` for every worker. A job is a connection: `Serve` is one request of the
keep-alive loop, after which the connection is kept or closed, `HangUp` the end of the
loop without one. `Request` is the client's and may never come. After a failed `accept()`
the server's socket is closed but its variable keeps its value, so keep-alive loops
run on until their connections end; the model lets them. `enqueue` never returns false
in this program: only the same thread sets `shutdown_`, after its last `enqueue`, and
`max_queued_requests_` is 0. Threads are assumed to be created successfully.

## 3. Runs

Passing runs:

| run | instance | distinct states | shows |
|---|---|---|---|
| `tree` | 5 nodes, 4 names, 2 users, all forests and all call sequences | 16,961 | counters exact, checks right, exclusion, refinement of `HierarchicalLock` |
| `gateway` | the program's tree; 2 overlapping requests of two workers and one, whose first workers share a user id; one transaction each, on two gateways with common ancestors | 38,542 | refines `HierarchicalLock` and `Engine`; the stress test's check passes at rest; every request is answered |
| `dashboard` | 1 simulation of one worker and two transactions, 2 gateways, 2 GETs in flight | 369,131 | metrics balance; the page is never ahead, is exact at rest and converges |
| `server` | 1 base and 2 names for dynamic workers, at most 2 threads, 3 connections of 2 requests | 120,638 | no lost wakeup, no lost connection, thread limit, clean end of `listen()` |
| `atomic_mixed` | chain of 3, 3 threads lock and unlock every node | 91,441 | ownership, the counting invariant, success of unlock, no release but by the holder, with conflicts and rollbacks; no re-validation passes over a lock that had returned |
| `atomic_upgrade` | five nodes, 2 threads, locks of leaves and the group, upgrades to the group and the root, unlocks of leaves held or not; one thread may die | 496,172 | what a call has taken, checked or found is its own until it frees it; counters off by the calls half done only, and exact at rest, when upgrades compete and are refused half way; the surviving thread's calls return |
| `atomic_stray` | 2 threads of one user, unlock of leaves held or not | 22,927 | failed and repeated unlocks leave counters balanced, and exact at rest; every call returns |
| `atomic_solo` | one thread, two users, all calls on all nodes | 3,341 | without concurrency the lock-free tree, `upgradeLock` included, is atomic and refuses only for a conflict |

Runs that refute what the repository says:

| run | refuted | how |
|---|---|---|
| `lock_lock_race` | re-validation after the CAS keeps a path exclusive (`atomic_tree.cpp:87`) | `lock(A)` and `lock(C)`, `C` below `A`: both pass the second check before either informs, both return true |
| `upgrade_lock_race` | when `lock` returns true the node records its user (`test_atomic.cpp:26`) | `upgradeLock` frees a leaf, another thread takes it and writes its user, `upgradeLock` writes -1 over it, and the other thread's `lock` returns true |
| `upgrade_ancestor_race` | no ancestor can be locked during an upgrade (`atomic_tree.cpp:139`) | the one look at `ancestorLockedCount` comes before `lock(Root)` of another thread has informed the node; that `lock` returns true, the upgrade goes on, takes the node below it and returns true as well |
| `add_under_lock` | no lock under a locked node (`tree.cpp:77`) | a node added under a locked node starts with counter 0 |

The three about the lock-free tree need nodes on one path or an upgrade. The application as
it stands locks leaves only, unlocks what it holds and never upgrades; `gateway` and the
theorem `AtomicLockProofs!Refinement` show that its calls are safe.

`upgrade_ancestor_race` is a leads-to under `FairSpec`, because what is wrong is not that an
ancestor is locked while an upgrade runs, but that the upgrade nevertheless returns true: a
second look after the final CAS, with a rollback, would satisfy it. There are several ways to
it: the ancestor's `lock` may have overlapped the `lock` of the leaf the upgrade gives up, as in
`lock_lock_race`, or run while the upgrade releases.

Two more disagreements have no run of their own:

* `UpgradeLockRace.cfg` with `UsersOf <- SharedUser` and `INVARIANTS QuiescentExact` in place
  of its property is violated: an `unlock` past its ownership check and an `upgradeLock` of
  the same user both free one leaf and both take it off the counters above, which end at -1
  (`simulator.cpp:74`: "Check ancestor/descendant counts are consistent").
* A CAS that loses to another thread returns false at once, against `README.md:32` and
  51-53, which speak of a retry. See `CasLock`, whose failing branch ends the call; only
  spurious failures are retried.

And by reading `CheckOwner`, `ClearOwner` and `CasFree` in a row: two `unlock`s of one
user can both pass the ownership check (`atomic_tree.cpp:107`); if a thread of another user
takes the node after the first has freed it, the second frees that lock. `atomic_stray` has
callers of one user only and looks at the counters, which survive; no run says whose lock it was.

### Bounds

* `MaxNodes = 5`: enough for paths of length five, siblings with subtrees, shadowed nodes and
  second roots. With four names at least one is added twice. Names and users are
  only compared, so they are symmetric; two users give a foreign owner.
* The tree of `test_atomic.cpp` without its leaf `E` (a sibling like `C` and `D`)
  has a node with two children, a leaf beside them and depth three. The chain has a
  middle node, which is informed from above and from below at the same time.
* Two threads suffice for each race found; three let a third meet a rollback in progress.
* `MaxHeld` bounds how many locks a thread takes before it gives one back; 2 and 3 let
  `upgradeLock` find several descendants. In `gateway` it is 2, more than a worker ever
  holds, so that it stops nobody.
* `MaxRetries` bounds spurious failures of the CAS. `casRetries` only counts, so the
  bound saturates it in `RestoreOwner`, and limits only how often a call can be delayed.
* `gateway`: three workers on two gateways, so that two compete for one while the third
  changes the counters above; `TxnPerThread = 1` since a second transaction starts from the
  same tree as a first one that starts later. Two of the workers have one id, as in
  overlapping requests, the third another, as in one request.
* `dashboard`: `Slot = 2` is the least in which an answer overtakes another; two
  transactions let a metric change twice between two loads.
* `server`: with one base thread and a limit of two, a third connection has to wait. The
  name `d2` is needed because a thread that has left the list may still run when the next
  is started. `KeepAliveMax = 2` (100 in the library) has a request that is not the last.

### Fairness

* Tree: weak fairness of each immortal thread's `Step`: the operating system runs every
  thread, and a thread inside a call always has a step it can take, as no access waits.
  Nothing is assumed about calls: a thread may stop calling, and may never unlock. The
  bound on spurious failures says that a CAS fails spuriously finitely often, which the
  C++ standard asks of implementations as a quality; without it `lock()` may loop.
* `Gateway`: weak fairness of each worker and of the handler that joins; no request has to come.
* `Dashboard`: the timer ticks (weak fairness of `Poll`), handlers go on (`Handle`), and an
  answer that is ready again and again in a slot arrives at some time (strong fairness
  of `Arrive`, since `FailGet` competes with it): not all answers are lost. Nothing
  is assumed about simulations.
* `HttpServer`: the listening thread and every worker run, handlers return and keep-alive
  times out. Nothing is assumed about clients, about `accept()` or about idle times.

Deadlock is checked everywhere but in `gateway` and `server`: there the system stops,
when all requests have been answered and when `listen()` has returned. That it
stops nowhere else is what `SimulationsAnswered` and `ListenReturns` say.

## 4. Proofs

Everything below holds for all values of the constants that satisfy the assumptions named
in the modules, and the assumption stated.

**PaymentTree** (assuming `~AddWhileLocked`, except for types):
`TypeCorrect`, `CountersCorrect`, `PathExclusion`, `ChecksCorrect`, `Refinement`.
`CountsExact` alone is not inductive, because adding a node needs that the forest has no
cycle and that unallocated objects are isolated, and an unlock needs to know that a
locked object has an owner. The inductive invariant is

    IInv == TypeOK /\ ShapeInv /\ OwnerInv /\ CountInv /\ PathInv

where `ShapeInv` says that the parent pointers form a forest of allocated objects and
that unallocated objects are isolated, `OwnerInv` that a locked object is allocated and
has a user, `CountInv` is `CountsExact` over the set of locked objects, and `PathInv` is
exclusion. `upgradeLock` is the hard step: the counters change by the size of the set
released around each node. `AddWhileLocked` has to be false: `add_under_lock` is the
counterexample. The refinement follows from `ChecksCorrect`: the guards of the concrete
operations are those of the abstract ones. `ForestProofs` derives the laws of
ancestors (transitive, irreflexive, a chain above each node, unchanged by adding a leaf)
from the recursive function in `Forest`; that the function satisfies its equation is shown
by exhibiting one that does, the least set closed under parents.

**AtomicTree**, for every tree, every set of threads, every assignment of users:

* `AtomicTreeProofs!TypeCorrect`, whatever is called. `TypeInv` adds to the types
  that a thread's label belongs to the operation it runs and that a list about to be used
  is not empty.
* `AtomicLockProofs`, under `LocksOnly` (no upgrades, nobody unlocks what it does not
  hold): `Exclusive`, `OwnerCorrect`, `UnlockCannotFail`. The invariant is
  `OwnInv == TypeInv /\ NodeExclusive /\ \A t : OwnOK(t)`. A thread is *tenant* of a
  node from the CAS that takes it to the CAS that frees it. `NodeExclusive` says that
  tenancy is exclusive and that `lockState` is 1 exactly under a tenancy; `OwnOK(t)`
  what `t` may rely on: the owner recorded in a node it has is its user, and it is
  never tenant of one node twice. Only a tenant writes a node's owner
  (`OthersUndisturbed`), which is why the order of the two stores in `unlock` matters.
  `upgrade_lock_race` shows why upgrades are excluded. Stray unlocks are because an
  `unlock` that has checked the owner of an earlier lock of the same user frees the node
  in the middle of the next one.
  Nothing is assumed about users: two threads may share one.
* `AtomicLockProofs!Refinement`, under `LeavesOnly` (`LocksOnly`, and no lock target lies
  above another, as the program's gateways do): the tree implements `HierarchicalLock`
  with `owner` as `lockedBy`. `LeafInv` adds to `OwnInv` that only targets are called for or
  held and that a recorded owner belongs to a thread that *owns* the node, that is, one past
  its `SetOwner` and not yet past its `ClearOwner`. So `SetOwner` meets a node without an
  owner, and there is no other target on its path: it is an `Acquire`; `ClearOwner` is a
  `Release`; nothing else writes `lockedBy`. `lock_lock_race` is why the targets must not
  lie on one path.
* `AtomicLockProofs`, under `LocksOnly`: `CountsCorrect`, `QuiescentCorrect`,
  `NeverReleased`. The invariant is

      CountInv == OwnInv /\ CountsAccounted /\ \A t : PropagationOK(t)

  `CountsAccounted` says that each counter is the number of pairs of a thread and a node
  whose `Share` contains the counter's node. It needs `PropagationOK`: what a propagation has
  still to visit lies around the node of its call, and the subtrees on its worklist do not
  overlap, so that each step moves exactly one node in or out of one share (`CountMoves`).
  This is where a recursion that visited a node twice, or not at all, would show.
  `QuiescentCorrect` follows because without running calls a share is all of a node's
  surroundings, and tenants and locked nodes correspond one to one.
* `AtomicLockProofs!ReturnedLocksAreSeen`, under `LocksOnly`, is what the re-validation does
  achieve, where `lock_lock_race` shows what it does not. A thread that holds a node after
  `lock` has returned has its whole surroundings as its share, so by `CountsAccounted` every
  counter around that node is positive (`HeldIsCounted`), until an `unlock` begins to take the
  share back. A `lock` above or below that passes both checks of its re-validation therefore
  passed each while no such lock was there. Two calls that both win on one path have
  overlapped; a lock that has returned is not overrun.
* `AtomicUpgradeProofs!BalancedWhileStoresFreeLocked`, for all calls of all callers. With
  upgrades, stray unlocks and shared users no lock belongs to one thread any more, and
  `Share` has nothing to say. `CountsBalanced` does not ask whose lock it is. A step changes
  `lockState` of one node, the duties (`ToAdd`, `ToTake`) of one thread and one counter, and
  the three changes cancel out. The inductive invariant is

      BalanceInv == TypeInv /\ CountsBalanced /\ \A t : DutiesOK(t)

  where `DutiesOK` says that what a propagation has still to visit lies around the node it
  reports and does not overlap. The one step that can go wrong is a plain store of 0 that
  finds a 0: the node was freed, and taken off the counters, before, and is taken off again.
  So the theorem has `[]StoresFreeLocked` on its left. With shared users and upgrades the
  code does violate it (an `unlock` and an
  `upgradeLock` of one user, see the races above); what follows is about callers for which it
  does not.
* Under `ApartTargets` (no upgrades, and no lock target above another; users may be shared
  and nodes unlocked that are not held): `ApartTargetsBalanced`, `ApartTargetsExact`. Only
  targets are ever locked, so the counters of targets are 0 and the plain store of the
  rollback is never reached. This is `atomic_stray`. With targets on one path, two threads
  of one user would break it: an `unlock` that has checked the owner of an earlier lock frees
  the node the other thread has yet to roll back (`AtomicStray.cfg` on the chain shows it).
  `ApartTargetsNeverRollBack` states the step in between by itself: no re-validation fails.
* Under `DisjointUsers` (different threads pass different user ids; they lock, upgrade and
  unlock whatever they like): `DisjointUsersOwnUntilFreed`, `DisjointUsersBalanced`,
  `DisjointUsersExact`. This is `atomic_upgrade`, and the workers of one stress test.
  `ClaimInv` says that a locked node is claimed by at most one thread, and a claimed node is
  locked. A thread has a claim to a node it has taken and not written its user into, one
  whose recorded owner is a user of its own, one it is about to free in `unlock`, and those
  it has found for an upgrade and not freed. What `OwnUntilFreed` calls reserved is claimed,
  so no other call is about to free it and nobody takes it in between. A foreign thread
  loses every check of `lockedBy` against a user of its own, so it never gets as far as a
  store. A node can still have its owner wiped (`upgrade_lock_race`), after which nobody
  claims it, and nobody frees it; the counters are right all the same.
* Under `OneThread` (a single thread, which may pass any user ids): `SoloCallsAreAtomic`,
  `SoloRefusedForConflict`. This is `atomic_solo`. `SoloInv` adds to `ClaimInv` that between
  calls `lockState` and `lockedBy` say of each node what `held` says (`Faithful`), that what
  is held excludes itself along paths, and for each stretch of each call which
  nodes differ from that and what the call has learnt so far. From `CountsBalanced` a
  counter read while the thread has no duty is positive exactly if a node above or below is
  locked (`CountersTell`), so each refusal has a conflict behind it, no re-validation fails,
  and the last CAS of `upgradeLock` succeeds. The scan is right because what it has found
  and what is still reachable from its queue are together all that is held below
  (`ScanningOK`); the exchange because every node not yet freed (`Remaining`) is as the
  caller was told. Only the return of a successful call changes `held`, and does it as
  `Acquire`, `Release` or `Upgrade`.

**Gateway** (`GatewayProofs`, under `LeavesOnly`), for every tree, any overlapping requests,
workers, user ids and numbers of transactions: `GatewayTypesCorrect`,
`StressTestPassesCorrect`, `ImplementsEngineCorrect`. A `Gateway` behaves as an `AtomicTree`
(`GatewayTree`), so all that is proved under `LocksOnly` and for leaves holds for it; two of
these results are stated for it, `GatewayCountersExact` and `GatewayImplementsHierarchy`.
`GatewayInv` adds, for each worker, what
it holds in each stage of its loop: nothing or one target while it locks, the node of
its call while it unlocks. That needs `TargetsUncounted`: the counters of a target are always
0, because what has informed it would be a lock on a target above or below it. Hence in this
use `lock()` fails at its CAS only and no gateway is ever rolled back. When no request runs
all workers are out, nobody is tenant, all shares are empty, and `CountsAccounted` and
`NodeExclusive` give the stress test's check. For the refinement a step of the tree is sorted
by what it is to its worker (`Asks`, `Wins`, `Holding`, `Keeps`, `Frees`, `Returns`); only
`Wins`, the CAS of `lock()`, and `Frees`, that of `unlock()`, are seen in the engine, and
`NodeExclusive` gives `Take` its guard.

**Engine** (in `DashboardProofs`): `Balanced`, `Accounted`, `Rests`, for any number of requests, workers and
gateways. `EngineInv` is `EngineTypeOK /\ WorkersAccounted /\ MetricsBalanced`;
`RestIsClean` follows as no worker is in a loop without its request.

**Dashboard** (over `DashboardSpec`, with the engine): `PageTypes`, `NeverAhead`, `CleanAnswers`.
`DashboardInv` adds to `EngineInv` that no number loaded or shown exceeds the metric it was
loaded from, and that what a calm request has loaded is what is still there. The first is
enough for `NeverAhead` whatever order the loads come in: both outcomes shown are at most
the outcomes counted now, and those at most the transactions started now, by
`MetricsBalanced`.

**HttpServer**: `TypeCorrect`, `IdleExact`, `WakeupsKept`, `Bounded`, `Alone`, for any sizes
of the pool and any connections. `Inv` ties the places of the workers to the counters, the
connections and the steps of shutdown; `ListsOK` says that each living dynamic thread is on
exactly the lists that will be joined, until the join it is waited for in. `Bounded`
is not the check in `enqueue`, which counts listed threads only: it needs that the threads
taken off the list are joined before the next one starts.

Only model-checked: everything live (liveness and `ENABLED` are out of this prover's
reach): `CallsReturn`, `SimulationsAnswered`, `MetricsConverge`, `ConnectionsServed`,
`ListenReturns`. Every invariant and every action property of a passing run is the statement
of a theorem. Induction over recursive definitions is out of reach as well: what
is needed of `Ancestors` is proved from its fixed point instead.

## 5. Not modelled

* **Most of `httplib.h`**, and so most of the repository: 20412 of its 21131 lines of
  implementation are this one vendored header. The program uses its server. `HttpServer`
  models what of it runs concurrently: accept loop, thread pool, keep-alive, shutdown, some
  hundred lines. The rest is code this program never runs (the HTTP client, TLS, WebSocket,
  server-sent events, multipart, proxies, compression, which the build does not enable), or
  sequential code on one request's bytes (parsing, headers, routing, static files), which
  has no state that outlives the request and nothing to interleave with. A model of it
  would be a transliteration; this is why the mapped share of the
  repository's lines is small although the program's own code is covered nearly completely.
* The order of memory accesses: `AtomicTree` is sequentially consistent. On x86 the
  read-modify-writes are locked instructions and the loads that decide come before or after
  one, so what is proved is what the build does there; the C++ memory model would allow more,
  for example a thread that takes a node and reads an older owner of another one.
* The page's drawing of the tree, its log, and `DEMO_MODE`/`DEMO_DATA`, with which the
  page talks to nobody.
* The real time a payment takes, random choices of leaf and outcome: any leaf,
  any order of calls is possible in the models. The outcome of a payment is the result of `lock()`.
* `casRetries` in `Engine`; `new`, `delete`, formatting and the contents of HTTP messages.
* The tests, which are drivers: their trees and assertions are the instances and several of
  the properties above. The `Makefile`.

## 6. What is left

Done, in this order: `Forest`, `HierarchicalLock`, `PaymentTree` and their theorems;
`AtomicTree` with its races; ownership; the counting invariant and the refinement for leaves;
`Gateway`, `Engine`, `Dashboard`, `HttpServer` with their theorems; the counters with
upgrades and stray unlocks; the atomicity of one thread's calls. Next would be:

1. A model of the memory orders the code asks for, on one node and its parent.
2. A class of callers with upgrades for which `OwnerRecorded` holds: it needs that nobody locks
   what another thread is upgrading from.
