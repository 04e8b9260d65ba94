-------------------------- MODULE HttpServerProofs --------------------------
(***************************************************************************)
(* Safety of the thread pool, for any number of connections, any number of *)
(* base and dynamic workers and any limits.                                *)
(***************************************************************************)
EXTENDS HttpServer, FiniteSetTheorems, SequenceTheorems, TLAPS

Late == {"notifyAll", "joinBase", "takeDynamic", "joinDynamic", "joinFinished", "returned"}

\* What the stages of listen() rely on: a base worker leaves only when the queue
\* is empty for good, and a join that has been passed stays true.
ControlOK ==
    /\ shutdown => server \in Late
    /\ server \notin {"joinDynamic", "joinFinished", "returned"} => remaining = {}
    /\ \A w \in Base : at[w] # "none"
    /\ \A w \in Base : at[w] \in {"leaving", "ended"} => shutdown /\ jobs = <<>>
    /\ server \in {"takeDynamic", "joinDynamic", "joinFinished", "returned"} => Ended(Base)
    /\ server \in {"joinDynamic", "joinFinished", "returned"} => dynamic = {}
    /\ server \in {"joinFinished", "returned"} => Ended(remaining)
    /\ server = "returned" => finished = {}

\* Connections are queued once, served by one worker, and have requests left
\* until they are closed.
ConnsOK ==
    /\ server = "enqueue" => accepted \in Conn /\ conn[accepted] = "new"
    /\ \A i \in 1 .. Len(jobs) : conn[jobs[i]] = "queued"
    /\ \A i, j \in 1 .. Len(jobs) : jobs[i] = jobs[j] => i = j
    /\ \A c \in Conn : conn[c] = "queued" => \E i \in 1 .. Len(jobs) : jobs[i] = c
    /\ \A w \in Worker : at[w] = "serving" => serving[w] \in Conn /\ conn[serving[w]] = "open"
    /\ \A v, w \in Worker :
          at[v] = "serving" /\ at[w] = "serving" /\ serving[v] = serving[w] => v = w
    /\ \A c \in Conn : conn[c] = "open" => \E w \in Worker : at[w] = "serving" /\ serving[w] = c
    /\ \A c \in Conn : conn[c] # "closed" => budget[c] >= 1

\* The dynamic threads somebody will join.
Listed == dynamic \cup finished \cup remaining

ListsOK ==
    /\ \A w \in Dynamic : w \in Alive => w \in Listed
    /\ Cardinality(Base) + Cardinality(Listed) <= MaxThreads
    /\ server = "spawn" => Cardinality(Base) + Cardinality(dynamic) < MaxThreads

Inv == TypeOK /\ ControlOK /\ ConnsOK /\ IdleCounted
-----------------------------------------------------------------------------
LEMMA WorkerFinite == IsFiniteSet(Worker)
  BY FS_Union, ServerAssumption DEF Worker

LEMMA AtFinite == ASSUME NEW S PROVE IsFiniteSet(At(S)) /\ Cardinality(At(S)) \in Nat
<1>2. At(S) \in SUBSET Worker
  BY DEF At
<1>3. IsFiniteSet(At(S))
  BY <1>2, WorkerFinite, FS_Subset
<1> QED BY <1>3, FS_CardinalityType

\* One worker moves: how the number of workers at given places changes.
LEMMA Move ==
    ASSUME NEW w \in Worker, NEW S, \A v \in Worker \ {w} : at'[v] = at[v]
    PROVE  /\ (at[w] \in S <=> at'[w] \in S) => At(S)' = At(S)
           /\ at[w] \notin S /\ at'[w] \in S =>
                 Cardinality(At(S)') = Cardinality(At(S)) + 1
           /\ at[w] \in S /\ at'[w] \notin S =>
                 Cardinality(At(S)') = Cardinality(At(S)) - 1 /\ Cardinality(At(S)) > 0
<1>1. IsFiniteSet(At(S)) /\ Cardinality(At(S)) \in Nat
  BY AtFinite
<1>2. (at[w] \in S <=> at'[w] \in S) => At(S)' = At(S)
  BY DEF At
<1>3. ASSUME at[w] \notin S, at'[w] \in S PROVE Cardinality(At(S)') = Cardinality(At(S)) + 1
  <2>1. w \notin At(S) /\ At(S)' = At(S) \cup {w}
    BY <1>3 DEF At
  <2> QED BY <1>1, <2>1, FS_AddElement
<1>4. ASSUME at[w] \in S, at'[w] \notin S
      PROVE  Cardinality(At(S)') = Cardinality(At(S)) - 1 /\ Cardinality(At(S)) > 0
  <2>1. w \in At(S) /\ At(S)' = At(S) \ {w}
    BY <1>4 DEF At
  <2>2. Cardinality(At(S)) # 0
    BY <1>1, <2>1, FS_EmptySet
  <2>3. Cardinality(At(S) \ {w}) = Cardinality(At(S)) - 1
    BY <1>1, <2>1, FS_RemoveElement
  <2> QED BY <1>1, <2>1, <2>2, <2>3
<1> QED BY <1>2, <1>3, <1>4

LEMMA InvInit == Init => Inv
<1> SUFFICES ASSUME Init PROVE Inv
  OBVIOUS
<1> USE ServerAssumption DEF Init
<1>1. TypeOK
  <2>1. budget \in [Conn -> 0 .. KeepAliveMax]
    OBVIOUS
  <2>2. jobs \in Seq(Conn)
    OBVIOUS
  <2> QED BY <2>1, <2>2 DEF TypeOK, Worker
<1>2. ControlOK
  BY DEF ControlOK, Worker
<1>3. ConnsOK
  BY DEF ConnsOK, Worker
<1>4. IdleCounted
  <2>1. At({"waiting", "woken"}) = {}
    BY DEF At
  <2> QED BY <2>1, FS_EmptySet DEF IdleCounted
<1> QED BY <1>1, <1>2, <1>3, <1>4 DEF Inv
-----------------------------------------------------------------------------
\* Idle threads are counted.

LEMMA IdleNext == Inv /\ [Next]_vars => IdleCounted'
<1> SUFFICES ASSUME Inv, [Next]_vars PROVE IdleCounted'
  OBVIOUS
<1> DEFINE S == {"waiting", "woken"}
<1>0. /\ idle = Cardinality(At(S)) /\ idle \in Nat
      /\ at \in [Worker -> {"none", "entering", "waiting", "woken", "serving", "leaving", "ended"}]
      /\ finished \subseteq Dynamic
      /\ Dynamic \subseteq Worker
  BY DEF Inv, IdleCounted, TypeOK, Worker
<1>a. ASSUME UNCHANGED idle, At(S)' = At(S) PROVE IdleCounted'
  BY <1>0, <1>a DEF IdleCounted
<1>b. ASSUME UNCHANGED idle, NEW w \in Worker, \A v \in Worker \ {w} : at'[v] = at[v],
             at[w] \in S <=> at'[w] \in S
      PROVE  IdleCounted'
  BY <1>a, <1>b, Move
<1>1. ASSUME NEW c \in Conn, Accept(c) \/ Request(c) PROVE IdleCounted'
  BY <1>1, <1>a DEF Accept, Request, poolVars, workerVars, At
<1>2. CASE AcceptFails \/ Enqueue \/ SetShutdown \/ JoinBase \/ TakeDynamic \/ JoinDynamic \/ JoinFinished
  BY <1>2, <1>a DEF AcceptFails, Enqueue, SetShutdown, JoinBase, TakeDynamic, JoinDynamic,
                    JoinFinished, poolVars, workerVars, At
<1>3. CASE Spawn
  <2>1. At(S)' = At(S)
    BY <1>0, <1>3 DEF Spawn, Ended, At
  <2> QED BY <1>3, <1>a, <2>1 DEF Spawn, poolVars
<1>4. CASE Notify
  <2>1. At(S)' = At(S)
    BY <1>0, <1>4 DEF Notify, Sleeping, At
  <2> QED BY <1>4, <1>a, <2>1 DEF Notify, poolVars
<1>5. CASE NotifyAll
  <2>1. At(S)' = At(S)
    BY <1>0, <1>5 DEF NotifyAll, Sleeping, At
  <2> QED BY <1>5, <1>a, <2>1 DEF NotifyAll, poolVars
<1>6. ASSUME NEW w \in Worker, Enter(w) PROVE IdleCounted'
  <2>0. at[w] = "entering" /\ \A v \in Worker \ {w} : at'[v] = at[v]
    BY <1>0, <1>6 DEF Enter, Proceed
  <2>1. CASE HasWork
    <3>1. UNCHANGED idle /\ at'[w] \in {"leaving", "serving"}
      BY <1>0, <1>6, <2>1 DEF Enter, Proceed
    <3> QED BY <1>b, <2>0, <3>1
  <2>2. CASE ~HasWork
    <3>1. idle' = idle + 1 /\ at'[w] = "waiting"
      BY <1>0, <1>6, <2>2 DEF Enter
    <3>2. Cardinality(At(S)') = Cardinality(At(S)) + 1
      BY <2>0, <3>1, Move
    <3> QED BY <1>0, <3>1, <3>2 DEF IdleCounted
  <2> QED BY <2>1, <2>2
<1>7. ASSUME NEW w \in Worker, Wake(w) PROVE IdleCounted'
  <2>0. at[w] = "woken" /\ \A v \in Worker \ {w} : at'[v] = at[v]
    BY <1>0, <1>7 DEF Wake, Proceed
  <2>1. CASE HasWork
    <3>1. idle' = idle - 1 /\ at'[w] \in {"leaving", "serving"}
      BY <1>0, <1>7, <2>1 DEF Wake, Proceed
    <3>2. Cardinality(At(S)') = Cardinality(At(S)) - 1
      BY <2>0, <3>1, Move
    <3> QED BY <1>0, <3>1, <3>2 DEF IdleCounted
  <2>2. CASE ~HasWork
    <3>1. UNCHANGED idle /\ at'[w] = "waiting"
      BY <1>0, <1>7, <2>2 DEF Wake
    <3> QED BY <1>b, <2>0, <3>1
  <2> QED BY <2>1, <2>2
<1>8. ASSUME NEW w \in Worker, Timeout(w) PROVE IdleCounted'
  <2>1. /\ at[w] \in S /\ \A v \in Worker \ {w} : at'[v] = at[v]
        /\ idle' = idle - 1 /\ at'[w] = "leaving"
    BY <1>0, <1>8 DEF Timeout
  <2>2. Cardinality(At(S)') = Cardinality(At(S)) - 1
    BY <2>1, Move
  <2> QED BY <1>0, <2>1, <2>2 DEF IdleCounted
<1>9. ASSUME NEW w \in Worker, Leave(w) \/ WakeSpuriously(w) \/ Serve(w) \/ HangUp(w) PROVE IdleCounted'
  <2>1. UNCHANGED idle /\ \A v \in Worker \ {w} : at'[v] = at[v]
    BY <1>0, <1>9 DEF Leave, WakeSpuriously, Serve, HangUp, Close, poolVars, workerVars
  <2>2. at[w] \in S <=> at'[w] \in S
    BY <1>0, <1>9 DEF Leave, WakeSpuriously, Serve, HangUp, Close, workerVars
  <2> QED BY <1>b, <2>1, <2>2
<1>10. CASE UNCHANGED vars
  BY <1>10, <1>a DEF vars, poolVars, workerVars, At
<1> QED BY <1>1, <1>2, <1>3, <1>4, <1>5, <1>6, <1>7, <1>8, <1>9, <1>10 DEF Next, Listen, Run

-----------------------------------------------------------------------------
\* Types.

LEMMA TypeNext == Inv /\ [Next]_vars => TypeOK'
<1> SUFFICES ASSUME Inv, [Next]_vars PROVE TypeOK'
  OBVIOUS
<1>0. TypeOK /\ ConnsOK
  BY DEF Inv
<1> USE <1>0, ServerAssumption DEF TypeOK, connVars, poolVars, listVars, workerVars
<1>1. ASSUME NEW c \in Conn, Accept(c) \/ Request(c) PROVE TypeOK'
  BY <1>1 DEF Accept, Request
<1>2. CASE AcceptFails \/ SetShutdown \/ JoinBase \/ TakeDynamic \/ JoinDynamic \/ JoinFinished
  BY <1>2 DEF AcceptFails, SetShutdown, JoinBase, TakeDynamic, JoinDynamic, JoinFinished
<1>3. CASE Enqueue
  <2>1. accepted \in Conn
    BY <1>3 DEF Enqueue, ConnsOK
  <2>2. Append(jobs, accepted) \in Seq(Conn)
    BY <2>1, AppendProperties
  <2> QED BY <1>3, <2>1, <2>2 DEF Enqueue
<1>4. CASE Spawn \/ Notify \/ NotifyAll
  BY <1>4 DEF Spawn, Notify, NotifyAll, Sleeping, At, Worker
<1>5. ASSUME NEW w \in Worker, Proceed(w)
      PROVE  /\ jobs' \in Seq(Conn)
             /\ conn' \in [Conn -> {"new", "queued", "open", "closed"}]
             /\ at' \in [Worker -> {"none", "entering", "waiting", "woken", "serving", "leaving", "ended"}]
             /\ serving' \in [Worker -> Conn \cup {NoConn}]
  <2>1. jobs # <<>> => Head(jobs) \in Conn /\ Tail(jobs) \in Seq(Conn)
    BY HeadTailProperties
  <2>2. CASE jobs = <<>>
    BY <1>5, <2>2 DEF Proceed
  <2>3. CASE jobs # <<>>
    <3>1. /\ at' = [at EXCEPT ![w] = "serving"] /\ jobs' = Tail(jobs)
          /\ serving' = [serving EXCEPT ![w] = Head(jobs)]
          /\ conn' = [conn EXCEPT ![Head(jobs)] = "open"]
      BY <1>5, <2>3 DEF Proceed
    <3> QED BY <2>1, <2>3, <3>1
  <2> QED BY <2>2, <2>3
<1>6. ASSUME NEW w \in Worker, Enter(w) PROVE TypeOK'
  <2>1. CASE HasWork
    <3>1. Proceed(w) /\ UNCHANGED <<server, accepted, pending, budget, shutdown, listVars, idle>>
      BY <1>6, <2>1 DEF Enter
    <3> QED BY <1>5, <3>1
  <2>2. CASE ~HasWork
    <3>1. /\ at' = [at EXCEPT ![w] = "waiting"] /\ idle' = idle + 1
          /\ UNCHANGED <<jobs, conn, serving, server, accepted, pending, budget, shutdown, listVars>>
      BY <1>6, <2>2 DEF Enter
    <3> QED BY <3>1
  <2> QED BY <2>1, <2>2
<1>7. idle' \in Nat
  <2>1. idle' = Cardinality(At({"waiting", "woken"})')
    BY IdleNext DEF IdleCounted
  <2>2. At({"waiting", "woken"})' \in SUBSET Worker
    BY DEF At
  <2> QED BY <2>1, <2>2, WorkerFinite, FS_Subset, FS_CardinalityType
<1>8. ASSUME NEW w \in Worker, Wake(w) PROVE TypeOK'
  BY <1>5, <1>7, <1>8 DEF Wake
<1>9. ASSUME NEW w \in Worker, Timeout(w) PROVE TypeOK'
  BY <1>7, <1>9 DEF Timeout
<1>10. ASSUME NEW w \in Worker, Leave(w) \/ WakeSpuriously(w) \/ HangUp(w) PROVE TypeOK'
  <2>1. CASE Leave(w) \/ WakeSpuriously(w)
    BY <2>1 DEF Leave, WakeSpuriously
  <2>2. CASE HangUp(w)
    BY <2>2 DEF HangUp, Close
  <2> QED BY <1>10, <2>1, <2>2
<1>11. ASSUME NEW w \in Worker, Serve(w) PROVE TypeOK'
  <2>1. /\ serving[w] \in Conn
        /\ budget[serving[w]] - 1 \in 0 .. KeepAliveMax
    BY <1>11 DEF Serve, ConnsOK
  <2>2. budget' \in [Conn -> 0 .. KeepAliveMax]
    BY <1>11, <2>1 DEF Serve
  <2> QED BY <1>11, <2>1, <2>2 DEF Serve, Close
<1>12. CASE UNCHANGED vars
  BY <1>12 DEF vars
<1> QED BY <1>1, <1>2, <1>3, <1>4, <1>6, <1>8, <1>9, <1>10, <1>11, <1>12 DEF Next, Listen, Run

-----------------------------------------------------------------------------
\* The stages of listen().

LEMMA ControlNext == Inv /\ [Next]_vars => ControlOK'
<1> SUFFICES ASSUME Inv, [Next]_vars PROVE ControlOK'
  OBVIOUS
<1>0. TypeOK /\ ControlOK /\ Base \subseteq Worker /\ Dynamic \subseteq Worker /\ Base \cap Dynamic = {}
  BY ServerAssumption DEF Inv, Worker
<1>t. /\ at \in [Worker -> {"none", "entering", "waiting", "woken", "serving", "leaving", "ended"}]
      /\ finished \subseteq Dynamic /\ dynamic \subseteq Dynamic /\ remaining \subseteq Dynamic
  BY <1>0 DEF TypeOK
<1> USE DEF connVars, poolVars, listVars, workerVars
<1>1. ASSUME NEW c \in Conn, Accept(c) \/ Request(c) PROVE ControlOK'
  BY <1>0, <1>1 DEF Accept, Request, ControlOK, Ended, At, Late
<1>2. CASE AcceptFails \/ Enqueue \/ SetShutdown
  BY <1>0, <1>2 DEF AcceptFails, Enqueue, SetShutdown, ControlOK, Ended, At, Late
<1>3. CASE JoinBase \/ TakeDynamic \/ JoinDynamic \/ JoinFinished
  BY <1>0, <1>3 DEF JoinBase, TakeDynamic, JoinDynamic, JoinFinished, ControlOK, Ended, At, Late
<1>4. CASE Spawn
  <2>1. \A w \in Base : at'[w] = at[w]
    BY <1>0, <1>t, <1>4 DEF Spawn
  <2> QED BY <1>0, <1>4, <2>1 DEF Spawn, ControlOK, Late
<1>5. CASE Notify \/ NotifyAll
  <2>1. \A w \in Worker : at'[w] # at[w] => at[w] = "waiting" /\ at'[w] = "woken"
    <3>1. CASE Notify
      BY <1>t, <3>1 DEF Notify, Sleeping, At
    <3>2. CASE NotifyAll
      BY <1>t, <3>2 DEF NotifyAll, Sleeping, At
    <3> QED BY <1>5, <3>1, <3>2
  <2> QED BY <1>0, <1>5, <2>1 DEF Notify, NotifyAll, ControlOK, Late
\* A worker moves; the one thing to check is a base worker that leaves.
<1>6. ASSUME NEW w \in Worker, UNCHANGED <<server, shutdown, remaining>>,
             dynamic' \subseteq dynamic, server = "returned" => finished' = {},
             \A v \in Worker \ {w} : at'[v] = at[v],
             at[w] \notin {"none", "ended"} /\ at'[w] # "none",
             at'[w] \in {"leaving", "ended"} /\ w \in Base => shutdown /\ jobs' = <<>>,
             jobs = <<>> => jobs' = <<>>
      PROVE  ControlOK'
  <2>1. \A T : Ended(T) => Ended(T)'
    BY <1>6 DEF Ended, At
  <2>2. Ended(Base) => Ended(Base)'
    BY <2>1
  <2>3. Ended(remaining) => Ended(remaining)'
    BY <1>6 DEF Ended, At
  <2> QED BY <1>0, <1>6, <2>2, <2>3 DEF ControlOK
<1>7. ASSUME NEW w \in Worker, Enter(w) \/ Wake(w) PROVE ControlOK'
  <2>1. /\ at[w] \in {"entering", "woken"} /\ UNCHANGED <<server, shutdown, remaining, dynamic, finished>>
        /\ \A v \in Worker \ {w} : at'[v] = at[v]
        /\ at'[w] \in {"leaving", "serving", "waiting"}
        /\ at'[w] = "leaving" => shutdown /\ jobs' = <<>>
        /\ jobs = <<>> => jobs' = <<>>
    BY <1>t, <1>7 DEF Enter, Wake, Proceed, HasWork
  <2> QED BY <1>0, <1>6, <2>1 DEF ControlOK
<1>8. ASSUME NEW w \in Worker, Timeout(w) PROVE ControlOK'
  <2>1. /\ at[w] \in {"waiting", "woken"} /\ UNCHANGED <<server, shutdown, remaining, jobs>>
        /\ \A v \in Worker \ {w} : at'[v] = at[v]
        /\ at'[w] = "leaving" /\ w \notin Base /\ dynamic' \subseteq dynamic
        /\ dynamic = {} => finished' = finished
    BY <1>0, <1>t, <1>8 DEF Timeout
  <2> QED BY <1>0, <1>6, <2>1 DEF ControlOK
<1>9. ASSUME NEW w \in Worker, Leave(w) PROVE ControlOK'
  <2>1. /\ at[w] = "leaving" /\ UNCHANGED <<server, shutdown, remaining, jobs, dynamic, finished>>
        /\ \A v \in Worker \ {w} : at'[v] = at[v]
        /\ at'[w] = "ended"
    BY <1>0, <1>t, <1>9 DEF Leave
  <2> QED BY <1>0, <1>6, <2>1 DEF ControlOK
<1>10. ASSUME NEW w \in Worker, WakeSpuriously(w) \/ Serve(w) \/ HangUp(w) PROVE ControlOK'
  <2>1. /\ at[w] \in {"waiting", "serving"}
        /\ UNCHANGED <<server, shutdown, remaining, jobs, dynamic, finished>>
        /\ \A v \in Worker \ {w} : at'[v] = at[v]
        /\ at'[w] \in {"woken", "entering", "serving"}
    BY <1>0, <1>t, <1>10 DEF WakeSpuriously, Serve, HangUp, Close
  <2> QED BY <1>0, <1>6, <2>1 DEF ControlOK
<1>11. CASE UNCHANGED vars
  BY <1>0, <1>11 DEF vars, ControlOK, Ended, At
<1> QED BY <1>1, <1>2, <1>3, <1>4, <1>5, <1>7, <1>8, <1>9, <1>10, <1>11 DEF Next, Listen, Run

-----------------------------------------------------------------------------
\* The connections.

\* Accounts of connections depend on which workers serve, not on the rest of `at'.
LEMMA ConnsKept ==
    ASSUME ConnsOK, UNCHANGED <<conn, jobs, serving, budget>>,
           server' = "enqueue" => accepted' \in Conn /\ conn[accepted'] = "new",
           \A w \in Worker : at'[w] = "serving" <=> at[w] = "serving"
    PROVE  ConnsOK'
  BY DEF ConnsOK

LEMMA ConnsProceed ==
    ASSUME TypeOK, ConnsOK, NEW w \in Worker, at[w] \in {"entering", "woken"}, Proceed(w),
           UNCHANGED <<server, accepted, budget>>
    PROVE  ConnsOK'
<1>0. /\ at \in [Worker -> {"none", "entering", "waiting", "woken", "serving", "leaving", "ended"}]
      /\ serving \in [Worker -> Conn \cup {NoConn}]
      /\ conn \in [Conn -> {"new", "queued", "open", "closed"}] /\ jobs \in Seq(Conn)
  BY DEF TypeOK
<1>1. CASE jobs = <<>>
  <2>1. UNCHANGED <<jobs, conn, serving>> /\ at' = [at EXCEPT ![w] = "leaving"]
    BY <1>1 DEF Proceed
  <2> QED BY <1>0, <2>1, ConnsKept DEF ConnsOK
<1>2. CASE jobs # <<>>
  <2> DEFINE c == jobs[1]
  <2>1. /\ Len(jobs) \in Nat /\ Len(jobs) >= 1 /\ c \in Conn
        /\ Len(jobs') = Len(jobs) - 1 /\ \A i \in 1 .. Len(jobs) - 1 : jobs'[i] = jobs[i + 1]
    <3>1. jobs' = Tail(jobs)
      BY <1>2 DEF Proceed
    <3>2. Len(jobs) \in Nat /\ Len(jobs) >= 1 /\ c \in Conn
      BY <1>0, <1>2
    <3>3. Len(Tail(jobs)) = Len(jobs) - 1
      BY <1>0, <1>2
    <3>4. \A i \in 1 .. Len(jobs) - 1 : Tail(jobs)[i] = jobs[i + 1]
      BY <1>0, <1>2
    <3> QED BY <3>1, <3>2, <3>3, <3>4
  <2>2. /\ at' = [at EXCEPT ![w] = "serving"] /\ serving' = [serving EXCEPT ![w] = c]
        /\ conn' = [conn EXCEPT ![c] = "open"]
    BY <1>0, <1>2 DEF Proceed
  <2>3. conn[c] = "queued"
    BY <2>1 DEF ConnsOK
  <2> HIDE DEF c
  <2>4. server' = "enqueue" => accepted' \in Conn /\ conn'[accepted'] = "new"
    BY <1>0, <2>1, <2>2, <2>3 DEF ConnsOK
  <2>5. \A i \in 1 .. Len(jobs') : i + 1 \in 1 .. Len(jobs) /\ jobs'[i] = jobs[i + 1] /\ jobs[i + 1] # c
    BY <2>1 DEF ConnsOK, c
  <2>6. \A i \in 1 .. Len(jobs') : conn'[jobs'[i]] = "queued"
    BY <1>0, <2>2, <2>5 DEF ConnsOK
  <2>7. \A i, j \in 1 .. Len(jobs') : jobs'[i] = jobs'[j] => i = j
    <3> SUFFICES ASSUME NEW i \in 1 .. Len(jobs'), NEW j \in 1 .. Len(jobs'), jobs'[i] = jobs'[j]
                 PROVE  i = j
      OBVIOUS
    <3>1. /\ i + 1 \in 1 .. Len(jobs) /\ j + 1 \in 1 .. Len(jobs)
          /\ jobs[i + 1] = jobs[j + 1]
      BY <2>5
    <3>2. \A k, l \in 1 .. Len(jobs) : jobs[k] = jobs[l] => k = l
      BY DEF ConnsOK
    <3>3. i + 1 = j + 1
      BY <3>1, <3>2
    <3> QED BY <2>1, <3>3
  <2>8. ASSUME NEW d \in Conn, conn'[d] = "queued" PROVE \E i \in 1 .. Len(jobs') : jobs'[i] = d
    <3>1. d # c /\ conn[d] = "queued"
      BY <1>0, <2>1, <2>2, <2>8
    <3>2. PICK i \in 1 .. Len(jobs) : jobs[i] = d
      BY <3>1 DEF ConnsOK
    <3>3. i # 1 /\ i - 1 \in 1 .. Len(jobs')
      BY <2>1, <3>1, <3>2 DEF c
    <3>4. jobs'[i - 1] = jobs[i]
      BY <2>1, <3>3
    <3> QED BY <3>2, <3>3, <3>4
  <2>9. \A v \in Worker \ {w} : at[v] = "serving" => serving[v] \in Conn /\ conn[serving[v]] = "open" /\ serving[v] # c
    BY <2>3 DEF ConnsOK
  <2>10. \A v \in Worker : at'[v] = "serving" => serving'[v] \in Conn /\ conn'[serving'[v]] = "open"
    BY <1>0, <2>1, <2>2, <2>9
  <2>11. \A u, v \in Worker :
           at'[u] = "serving" /\ at'[v] = "serving" /\ serving'[u] = serving'[v] => u = v
    BY <1>0, <2>2, <2>9 DEF ConnsOK
  <2>12. \A d \in Conn : conn'[d] = "open" => \E v \in Worker : at'[v] = "serving" /\ serving'[v] = d
    BY <1>0, <2>2 DEF ConnsOK
  <2>13. \A d \in Conn : conn'[d] # "closed" => budget'[d] >= 1
    BY <1>0, <2>2, <2>3 DEF ConnsOK
  <2> QED BY <2>4, <2>6, <2>7, <2>8, <2>10, <2>11, <2>12, <2>13 DEF ConnsOK
<1> QED BY <1>1, <1>2

\* Requests are made on open connections only, and a closed one has no server.
LEMMA ConnsServe ==
    ASSUME TypeOK, ConnsOK, NEW w \in Worker, Serve(w) \/ HangUp(w)
    PROVE  ConnsOK'
<1>0. /\ at \in [Worker -> {"none", "entering", "waiting", "woken", "serving", "leaving", "ended"}]
      /\ serving \in [Worker -> Conn \cup {NoConn}]
      /\ conn \in [Conn -> {"new", "queued", "open", "closed"}] /\ jobs \in Seq(Conn)
      /\ budget \in [Conn -> 0 .. KeepAliveMax] /\ KeepAliveMax \in Nat
  BY ServerAssumption DEF TypeOK
<1> DEFINE c == serving[w]
<1>1. /\ at[w] = "serving" /\ UNCHANGED <<server, accepted, jobs>> /\ c \in Conn /\ conn[c] = "open"
      /\ \A d \in Conn \ {c} : budget'[d] = budget[d]
  BY <1>0 DEF Serve, HangUp, ConnsOK, poolVars
<1>2. CASE Close(w)
  <2>1. /\ conn' = [conn EXCEPT ![c] = "closed"] /\ serving' = [serving EXCEPT ![w] = NoConn]
        /\ at' = [at EXCEPT ![w] = "entering"]
    BY <1>2 DEF Close
  <2> HIDE DEF c
  <2>2. \A v \in Worker \ {w} : at[v] = "serving" => serving[v] # c
    BY <1>1 DEF ConnsOK, c
  <2>3. \A i \in 1 .. Len(jobs) : jobs[i] \in Conn /\ jobs[i] # c
    BY <1>0, <1>1 DEF ConnsOK
  <2>4. \A d \in Conn \ {c} : conn[d] = "open" => \E v \in Worker \ {w} : at[v] = "serving" /\ serving[v] = d
    BY DEF ConnsOK, c
  <2>5. \A d \in Conn : conn'[d] = "open" => \E v \in Worker : at'[v] = "serving" /\ serving'[v] = d
    BY <1>0, <1>1, <2>1, <2>4
  <2>6. \A v \in Worker : at'[v] = "serving" => serving'[v] \in Conn /\ conn'[serving'[v]] = "open"
    BY <1>0, <1>1, <2>1, <2>2 DEF ConnsOK
  <2>7. \A u, v \in Worker :
           at'[u] = "serving" /\ at'[v] = "serving" /\ serving'[u] = serving'[v] => u = v
    BY <1>0, <2>1 DEF ConnsOK
  <2>8. \A i \in 1 .. Len(jobs') : conn'[jobs'[i]] = "queued"
    BY <1>0, <1>1, <2>1, <2>3 DEF ConnsOK
  <2>9. \A d \in Conn : conn'[d] = "queued" => \E i \in 1 .. Len(jobs') : jobs'[i] = d
    BY <1>0, <1>1, <2>1 DEF ConnsOK
  <2>10. \A d \in Conn : conn'[d] # "closed" => budget'[d] >= 1
    BY <1>0, <1>1, <2>1 DEF ConnsOK
  <2>11. server' = "enqueue" => accepted' \in Conn /\ conn'[accepted'] = "new"
    BY <1>0, <1>1, <2>1 DEF ConnsOK
  <2>12. \A i, j \in 1 .. Len(jobs') : jobs'[i] = jobs'[j] => i = j
    BY <1>1 DEF ConnsOK
  <2> QED BY <2>5, <2>6, <2>7, <2>8, <2>9, <2>10, <2>11, <2>12 DEF ConnsOK
<1>3. CASE ~Close(w)
  <2>1. UNCHANGED <<conn, at, serving>> /\ budget[c] > 1 /\ budget' = [budget EXCEPT ![c] = @ - 1]
    BY <1>3 DEF Serve, HangUp, workerVars
  <2>2. \A d \in Conn : conn'[d] # "closed" => budget'[d] >= 1
    BY <1>0, <1>1, <2>1 DEF ConnsOK
  <2> QED BY <1>1, <2>1, <2>2 DEF ConnsOK
<1> QED BY <1>2, <1>3

LEMMA ConnsNext == Inv /\ [Next]_vars => ConnsOK'
<1> SUFFICES ASSUME Inv, [Next]_vars PROVE ConnsOK'
  OBVIOUS
<1>0. /\ TypeOK /\ ConnsOK
      /\ at \in [Worker -> {"none", "entering", "waiting", "woken", "serving", "leaving", "ended"}]
      /\ conn \in [Conn -> {"new", "queued", "open", "closed"}]
      /\ jobs \in Seq(Conn)
  BY DEF Inv, TypeOK
<1> USE DEF connVars, poolVars, listVars, workerVars
<1>1. ASSUME NEW c \in Conn, Accept(c) \/ Request(c) PROVE ConnsOK'
  <2>1. CASE Accept(c)
    BY <1>0, <2>1, ConnsKept DEF Accept
  <2>2. CASE Request(c)
    BY <1>0, <2>2, ConnsKept DEF Request, ConnsOK
  <2> QED BY <1>1, <2>1, <2>2
<1>2. CASE AcceptFails \/ SetShutdown \/ JoinBase \/ TakeDynamic \/ JoinDynamic \/ JoinFinished
  BY <1>0, <1>2, ConnsKept DEF AcceptFails, SetShutdown, JoinBase, TakeDynamic, JoinDynamic, JoinFinished
<1>3. CASE Enqueue
  <2>1. accepted \in Conn /\ conn[accepted] = "new" /\ server' # "enqueue"
    BY <1>0, <1>3 DEF Enqueue, ConnsOK
  <2>2. /\ Len(jobs') = Len(jobs) + 1 /\ Len(jobs) \in Nat /\ jobs'[Len(jobs) + 1] = accepted
        /\ \A i \in 1 .. Len(jobs) : jobs'[i] = jobs[i] /\ jobs[i] \in Conn /\ jobs[i] # accepted
    BY <1>0, <1>3, <2>1 DEF Enqueue, ConnsOK
  <2>3. conn' = [conn EXCEPT ![accepted] = "queued"] /\ UNCHANGED <<at, serving, budget>>
    BY <1>3 DEF Enqueue
  <2>4. \A i \in 1 .. Len(jobs') : conn'[jobs'[i]] = "queued"
    BY <1>0, <2>1, <2>2, <2>3 DEF ConnsOK
  <2>5. \A i, j \in 1 .. Len(jobs') : jobs'[i] = jobs'[j] => i = j
    <3>1. \A i, j \in 1 .. Len(jobs) : jobs[i] = jobs[j] => i = j
      BY <1>0 DEF ConnsOK
    <3>2. \A i \in 1 .. Len(jobs') : i \in 1 .. Len(jobs) \/ i = Len(jobs) + 1
      BY <2>2
    <3> QED BY <2>2, <3>1, <3>2
  <2>6. \A d \in Conn : conn'[d] = "queued" => \E i \in 1 .. Len(jobs') : jobs'[i] = d
    <3> SUFFICES ASSUME NEW d \in Conn, conn'[d] = "queued"
                 PROVE  \E i \in 1 .. Len(jobs') : jobs'[i] = d
      OBVIOUS
    <3>1. CASE d = accepted
      BY <2>2, <3>1
    <3>2. CASE d # accepted
      <4>1. PICK i \in 1 .. Len(jobs) : jobs[i] = d
        BY <1>0, <2>3, <3>2 DEF ConnsOK
      <4> QED BY <2>2, <4>1
    <3> QED BY <3>1, <3>2
  <2>7. \A w \in Worker : at'[w] = "serving" => serving'[w] \in Conn /\ conn'[serving'[w]] = "open"
    BY <1>0, <2>1, <2>3 DEF ConnsOK
  <2>8. \A d \in Conn : conn'[d] = "open" => \E w \in Worker : at'[w] = "serving" /\ serving'[w] = d
    BY <1>0, <2>1, <2>3 DEF ConnsOK
  <2>9. \A d \in Conn : conn'[d] # "closed" => budget'[d] >= 1
    BY <1>0, <2>1, <2>3 DEF ConnsOK
  <2>10. \A v, w \in Worker :
           at'[v] = "serving" /\ at'[w] = "serving" /\ serving'[v] = serving'[w] => v = w
    BY <1>0, <2>3 DEF ConnsOK
  <2> QED BY <2>1, <2>4, <2>5, <2>6, <2>7, <2>8, <2>9, <2>10 DEF ConnsOK
<1>4. CASE Spawn \/ Notify \/ NotifyAll
  <2>1. UNCHANGED <<conn, jobs, serving, budget>> /\ server' # "enqueue"
    BY <1>4 DEF Spawn, Notify, NotifyAll
  <2>2. \A w \in Worker : at'[w] = "serving" <=> at[w] = "serving"
    <3>1. CASE Spawn
      BY <1>0, <3>1 DEF Spawn, Ended, At
    <3>2. CASE Notify
      BY <1>0, <3>2 DEF Notify, Sleeping, At
    <3>3. CASE NotifyAll
      BY <1>0, <3>3 DEF NotifyAll, Sleeping, At
    <3> QED BY <1>4, <3>1, <3>2, <3>3
  <2> QED BY <1>0, <2>1, <2>2, ConnsKept
<1>5. ASSUME NEW w \in Worker, Enter(w) \/ Wake(w) PROVE ConnsOK'
  <2>1. at[w] \in {"entering", "woken"} /\ UNCHANGED <<server, accepted, budget>>
    BY <1>5 DEF Enter, Wake
  <2>2. CASE Proceed(w)
    BY <1>0, <2>1, <2>2, ConnsProceed
  <2>3. CASE ~Proceed(w)
    <3>1. UNCHANGED <<jobs, conn, serving>> /\ at' = [at EXCEPT ![w] = "waiting"]
      BY <1>5, <2>3 DEF Enter, Wake
    <3>2. \A v \in Worker : at'[v] = "serving" <=> at[v] = "serving"
      BY <1>0, <2>1, <3>1
    <3>3. server' = "enqueue" => accepted' \in Conn /\ conn[accepted'] = "new"
      BY <1>0, <2>1 DEF ConnsOK
    <3> QED BY <1>0, <2>1, <3>1, <3>2, <3>3, ConnsKept
  <2> QED BY <2>2, <2>3
<1>6. ASSUME NEW w \in Worker, Timeout(w) \/ Leave(w) \/ WakeSpuriously(w) PROVE ConnsOK'
  <2>1. UNCHANGED <<server, accepted, conn, jobs, serving, budget>>
    BY <1>6 DEF Timeout, Leave, WakeSpuriously
  <2>2. \A v \in Worker : at'[v] = "serving" <=> at[v] = "serving"
    BY <1>0, <1>6 DEF Timeout, Leave, WakeSpuriously
  <2>3. server' = "enqueue" => accepted' \in Conn /\ conn[accepted'] = "new"
    BY <1>0, <2>1 DEF ConnsOK
  <2> QED BY <1>0, <2>1, <2>2, <2>3, ConnsKept
<1>7. ASSUME NEW w \in Worker, Serve(w) \/ HangUp(w) PROVE ConnsOK'
  BY <1>0, <1>7, ConnsServe
<1>8. CASE UNCHANGED vars
  BY <1>0, <1>8 DEF vars, ConnsOK
<1> QED BY <1>1, <1>2, <1>3, <1>4, <1>5, <1>6, <1>7, <1>8 DEF Next, Listen, Run

LEMMA InvNext == Inv /\ [Next]_vars => Inv'
  BY TypeNext, ControlNext, ConnsNext, IdleNext DEF Inv
-----------------------------------------------------------------------------
\* Wakeups.  A thread goes to sleep only with the queue empty; every other step
\* that takes a thread off its way to the queue takes a job with it.

\* A notify_one() that is still to come.
ToNotify(s) == IF s \in {"spawn", "notify"} THEN 1 ELSE 0

LEMMA WakeupNext == Inv /\ NoLostWakeup /\ [Next]_vars => NoLostWakeup'
<1> DEFINE S == {"entering", "woken"}
           Kept == Len(jobs') <= Cardinality(At(S)') + ToNotify(server')
<1> SUFFICES ASSUME Inv, NoLostWakeup, [Next]_vars, Sleeping' # {} PROVE Kept
  BY DEF NoLostWakeup, Awake, ToNotify
<1>0. /\ at \in [Worker -> {"none", "entering", "waiting", "woken", "serving", "leaving", "ended"}]
      /\ jobs \in Seq(Conn) /\ Len(jobs) \in Nat
      /\ Dynamic \subseteq Worker /\ finished \subseteq Dynamic
      /\ Awake = At(S) /\ Awake' = At(S)'
      /\ Cardinality(At(S)) \in Nat
  BY AtFinite DEF Inv, TypeOK, Worker, Awake
<1>c. Cardinality(At(S)') \in Nat
  <2>1. At(S)' \in SUBSET Worker
    BY DEF At
  <2> QED BY <2>1, WorkerFinite, FS_Subset, FS_CardinalityType
<1>s. Sleeping # {} => Len(jobs) <= Cardinality(At(S)) + ToNotify(server)
  BY <1>0 DEF NoLostWakeup, ToNotify
<1>d. ToNotify(server) \in {0, 1} /\ ToNotify(server') \in {0, 1}
  BY DEF ToNotify
<1>a. ASSUME UNCHANGED <<at, jobs>>, ToNotify(server') >= ToNotify(server)
      PROVE  Kept
  <2>1. Sleeping # {} /\ At(S)' = At(S)
    BY <1>a DEF Sleeping, At
  <2> QED BY <1>0, <1>a, <1>d, <1>s, <2>1
<1>b. ASSUME jobs' = <<>> PROVE Kept
  BY <1>b, <1>c, <1>d
\* w moves, taking a job if it leaves the way to the queue.
<1>w. ASSUME NEW w \in Worker, \A v \in Worker \ {w} : at'[v] = at[v], at'[w] # "waiting",
             UNCHANGED server, Len(jobs') \in Nat,
             \/ (at[w] \in S => at'[w] \in S) /\ jobs' = jobs
             \/ Len(jobs') = Len(jobs) - 1
      PROVE  Kept
  <2>1. Sleeping # {}
    BY <1>w DEF Sleeping, At
  <2>2. \/ Cardinality(At(S)') = Cardinality(At(S))
        \/ Cardinality(At(S)') = Cardinality(At(S)) + 1
        \/ Cardinality(At(S)') = Cardinality(At(S)) - 1 /\ at[w] \in S /\ at'[w] \notin S
    BY <1>w, Move
  <2>3. ToNotify(server') = ToNotify(server)
    BY <1>d, <1>w
  <2> QED BY <1>0, <1>d, <1>s, <1>w, <2>1, <2>2, <2>3
<1> USE DEF connVars, poolVars, listVars, workerVars
<1>1. ASSUME NEW c \in Conn, Accept(c) \/ Request(c)
      PROVE  Kept
  <2>1. UNCHANGED <<at, jobs>> /\ ToNotify(server') >= ToNotify(server)
    BY <1>1, <1>d DEF Accept, Request, ToNotify
  <2> QED BY <1>a, <2>1
<1>2. CASE AcceptFails \/ SetShutdown \/ JoinBase \/ TakeDynamic \/ JoinDynamic \/ JoinFinished
  <2>1. UNCHANGED <<at, jobs>> /\ ToNotify(server') >= ToNotify(server)
    BY <1>2 DEF AcceptFails, SetShutdown, JoinBase, TakeDynamic, JoinDynamic, JoinFinished, ToNotify
  <2> QED BY <1>a, <2>1
<1>3. CASE Enqueue
  <2>1. ToNotify(server) = 0 /\ ToNotify(server') = 1 /\ Len(jobs') = Len(jobs) + 1 /\ UNCHANGED at
    BY <1>0, <1>3 DEF Enqueue, ToNotify
  <2>2. Sleeping # {} /\ At(S)' = At(S)
    BY <2>1 DEF Sleeping, At
  <2> QED BY <1>0, <1>s, <2>1, <2>2
<1>4. CASE Spawn
  <2>1. UNCHANGED jobs /\ ToNotify(server') = 1 /\ ToNotify(server) = 1
    BY <1>4 DEF Spawn, ToNotify
  <2>2. Sleeping # {}
    BY <1>0, <1>4 DEF Spawn, Sleeping, At
  <2>3. At(S) \in SUBSET At(S)'
    BY <1>0, <1>4 DEF Spawn, Ended, At
  <2>4. IsFiniteSet(At(S)')
    <3>1. At(S)' \in SUBSET Worker
      BY DEF At
    <3> QED BY <3>1, WorkerFinite, FS_Subset
  <2>5. Cardinality(At(S)) <= Cardinality(At(S)')
    BY <2>3, <2>4, FS_Subset
  <2> QED BY <1>0, <1>c, <1>s, <2>1, <2>2, <2>5
<1>5. CASE Notify
  <2>1. UNCHANGED jobs /\ ToNotify(server') = 0 /\ ToNotify(server) = 1
    BY <1>5 DEF Notify, ToNotify
  <2>2. CASE Sleeping = {} /\ UNCHANGED at
    BY <2>2 DEF Sleeping, At
  <2>3. ASSUME NEW w \in Sleeping, at' = [at EXCEPT ![w] = "woken"]
        PROVE  Kept
    <3>1. w \in Worker /\ at[w] \notin S /\ at'[w] \in S /\ \A v \in Worker \ {w} : at'[v] = at[v]
      BY <1>0, <2>3 DEF Sleeping, At
    <3>2. Cardinality(At(S)') = Cardinality(At(S)) + 1
      BY <3>1, Move
    <3> QED BY <1>0, <1>s, <2>1, <3>2
  <2> QED BY <1>5, <2>2, <2>3 DEF Notify
<1>6. CASE NotifyAll
  <2>1. Sleeping' = {}
    BY <1>0, <1>6 DEF NotifyAll, Sleeping, At
  <2> QED BY <2>1
<1>7. ASSUME NEW w \in Worker, Enter(w) \/ Wake(w)
      PROVE  Kept
  <2>1. CASE jobs = <<>>
    <3>1. jobs' = <<>>
      BY <1>7, <2>1 DEF Enter, Wake, Proceed
    <3> QED BY <1>b, <3>1
  <2>2. CASE jobs # <<>>
    <3>1. Proceed(w) /\ UNCHANGED server /\ at[w] \in S
      BY <1>7, <2>2 DEF Enter, Wake, HasWork
    <3>2. at' = [at EXCEPT ![w] = "serving"] /\ jobs' = Tail(jobs)
      BY <2>2, <3>1 DEF Proceed
    <3>3. Len(Tail(jobs)) = Len(jobs) - 1 /\ Len(Tail(jobs)) \in Nat
      BY <1>0, <2>2, HeadTailProperties
    <3>4. /\ at'[w] # "waiting" /\ \A v \in Worker \ {w} : at'[v] = at[v]
          /\ Len(jobs') = Len(jobs) - 1 /\ Len(jobs') \in Nat
      BY <1>0, <3>2, <3>3
    <3> QED BY <1>w, <3>1, <3>4
  <2> QED BY <2>1, <2>2
<1>8. ASSUME NEW w \in Worker, Timeout(w)
      PROVE  Kept
  BY <1>8, <1>b DEF Timeout, HasWork
<1>9. ASSUME NEW w \in Worker, Leave(w) \/ WakeSpuriously(w) \/ Serve(w) \/ HangUp(w)
      PROVE  Kept
  <2>1. /\ \A v \in Worker \ {w} : at'[v] = at[v]
        /\ at[w] \notin S /\ at'[w] # "waiting"
        /\ UNCHANGED <<server, jobs>>
    BY <1>0, <1>9 DEF Leave, WakeSpuriously, Serve, HangUp, Close
  <2> QED BY <1>0, <1>w, <2>1
<1>10. CASE UNCHANGED vars
  <2>1. UNCHANGED <<at, jobs>> /\ ToNotify(server') >= ToNotify(server)
    BY <1>10, <1>d DEF vars, ToNotify
  <2> QED BY <1>a, <2>1
<1> HIDE DEF Kept, S
<1> QED BY <1>1, <1>2, <1>3, <1>4, <1>5, <1>6, <1>7, <1>8, <1>9, <1>10 DEF Next, Listen, Run
-----------------------------------------------------------------------------
\* The lists of threads.

LEMMA ListsFinite ==
    ASSUME TypeOK
    PROVE  /\ IsFiniteSet(Listed) /\ Cardinality(Listed) \in Nat
           /\ IsFiniteSet(dynamic) /\ Cardinality(dynamic) \in Nat
           /\ Cardinality(Base) \in Nat
<1>1. Listed \in SUBSET Dynamic /\ dynamic \in SUBSET Dynamic
  BY DEF TypeOK, Listed
<1>2. IsFiniteSet(Listed) /\ IsFiniteSet(dynamic)
  BY <1>1, ServerAssumption, FS_Subset
<1> QED BY <1>2, ServerAssumption, FS_CardinalityType

LEMMA ListsInit == Init => ListsOK
<1> SUFFICES ASSUME Init PROVE ListsOK
  OBVIOUS
<1>1. Listed = {} /\ Cardinality(Listed) = 0
  BY FS_EmptySet DEF Init, Listed
<1>2. Cardinality(Base) \in Nat
  BY ServerAssumption, FS_CardinalityType
<1>3. \A w \in Dynamic : w \notin Alive
  BY ServerAssumption DEF Init, Alive, At
<1> QED BY <1>1, <1>2, <1>3, ServerAssumption DEF ListsOK, Init

\* No thread comes to life or is dropped from the lists.
LEMMA ListsKept ==
    ASSUME ListsOK, Listed' = Listed, server' # "spawn" \/ UNCHANGED <<server, dynamic>>,
           \A w \in Dynamic : w \in Alive' => w \in Alive
    PROVE  ListsOK'
  BY DEF ListsOK

LEMMA ListsNext == Inv /\ ListsOK /\ [Next]_vars => ListsOK'
<1> SUFFICES ASSUME Inv, ListsOK, [Next]_vars PROVE ListsOK'
  OBVIOUS
<1>0. /\ TypeOK /\ ControlOK
      /\ at \in [Worker -> {"none", "entering", "waiting", "woken", "serving", "leaving", "ended"}]
      /\ finished \subseteq Dynamic /\ dynamic \subseteq Dynamic /\ remaining \subseteq Dynamic
      /\ Dynamic \subseteq Worker
  BY DEF Inv, TypeOK, Worker
<1>f. /\ IsFiniteSet(Listed) /\ Cardinality(Listed) \in Nat
      /\ IsFiniteSet(dynamic) /\ Cardinality(dynamic) \in Nat
      /\ Cardinality(Base) \in Nat
  BY <1>0, ListsFinite
<1> USE DEF connVars, poolVars, listVars, workerVars
<1>1. ASSUME NEW c \in Conn, Accept(c) \/ Request(c) PROVE ListsOK'
  BY <1>1, ListsKept DEF Accept, Request, Listed, Alive, At
<1>2. CASE AcceptFails \/ SetShutdown \/ JoinBase \/ TakeDynamic \/ JoinDynamic
  <2>1. Listed' = Listed
    BY <1>0, <1>2 DEF AcceptFails, SetShutdown, JoinBase, TakeDynamic, JoinDynamic, Listed, ControlOK
  <2>2. UNCHANGED at /\ server' # "spawn"
    BY <1>2 DEF AcceptFails, SetShutdown, JoinBase, TakeDynamic, JoinDynamic
  <2>3. Alive' = Alive
    BY <2>2 DEF Alive, At
  <2> QED BY <2>1, <2>2, <2>3, ListsKept
<1>3. CASE Enqueue
  <2>1. /\ Listed' = Listed /\ UNCHANGED <<at, dynamic>>
        /\ server' = "spawn" => Cardinality(Base) + Cardinality(dynamic) < MaxThreads
    BY <1>3 DEF Enqueue, Listed
  <2>2. Alive' = Alive
    BY <2>1 DEF Alive, At
  <2> QED BY <2>1, <2>2 DEF ListsOK
<1>4. CASE Spawn
  <2>1. PICK w \in Dynamic :
          /\ at[w] = "none" \/ w \in finished
          /\ at' = [v \in Worker |-> IF v = w THEN "entering" ELSE IF v \in finished THEN "none" ELSE at[v]]
          /\ dynamic' = dynamic \cup {w}
    BY <1>4 DEF Spawn
  <2>2. finished' = {} /\ remaining = {} /\ remaining' = {} /\ server' = "notify"
    BY <1>0, <1>4 DEF Spawn, ControlOK
  <2>3. Listed' = dynamic \cup {w}
    BY <2>1, <2>2 DEF Listed
  <2>4. /\ IsFiniteSet(dynamic \cup {w})
        /\ Cardinality(dynamic \cup {w}) = IF w \in dynamic THEN Cardinality(dynamic) ELSE Cardinality(dynamic) + 1
    BY <1>f, FS_AddElement
  <2>5. Cardinality(Listed') \in Nat /\ Cardinality(Listed') <= Cardinality(dynamic) + 1
    BY <1>f, <2>3, <2>4
  <2>6. Cardinality(Base) + Cardinality(dynamic) < MaxThreads
    BY <1>4 DEF Spawn, ListsOK
  <2>7. Cardinality(Base) + Cardinality(Listed') <= MaxThreads
    BY <1>f, <2>5, <2>6, ServerAssumption
  <2>8. ASSUME NEW v \in Dynamic, v \in Alive' PROVE v \in Listed'
    <3>1. CASE v = w
      BY <2>3, <3>1
    <3>2. CASE v # w
      <4>1. v \notin finished /\ v \in Alive
        BY <1>0, <2>1, <2>8, <3>2 DEF Alive, At
      <4> QED BY <2>2, <2>3, <4>1 DEF ListsOK, Listed
    <3> QED BY <3>1, <3>2
  <2> QED BY <2>2, <2>7, <2>8 DEF ListsOK
<1>5. CASE Notify \/ NotifyAll
  <2>1. Listed' = Listed /\ server' # "spawn"
    BY <1>5 DEF Notify, NotifyAll, Listed
  <2>2. \A w \in Dynamic : w \in Alive' => w \in Alive
    <3>1. CASE Notify
      BY <1>0, <3>1 DEF Notify, Sleeping, Alive, At
    <3>2. CASE NotifyAll
      BY <1>0, <3>2 DEF NotifyAll, Sleeping, Alive, At
    <3> QED BY <1>5, <3>1, <3>2
  <2> QED BY <2>1, <2>2, ListsKept
<1>6. CASE JoinFinished
  <2>1. /\ finished \subseteq At({"ended"}) /\ finished' = {} /\ UNCHANGED <<at, dynamic, remaining>>
        /\ server' = "returned"
    BY <1>6 DEF JoinFinished, Ended
  <2>2. Listed' \in SUBSET Listed
    BY <2>1 DEF Listed
  <2>3. Cardinality(Listed') <= Cardinality(Listed)
    BY <1>f, <2>2, FS_Subset
  <2>4. Cardinality(Listed') \in Nat
    BY <1>f, <2>2, FS_Subset, FS_CardinalityType
  <2>5. ASSUME NEW v \in Dynamic, v \in Alive' PROVE v \in Listed'
    <3>1. v \in Alive /\ v \notin finished
      BY <2>1, <2>5 DEF Alive, At
    <3> QED BY <2>1, <3>1 DEF ListsOK, Listed
  <2> QED BY <1>f, <2>1, <2>3, <2>4, <2>5, ServerAssumption DEF ListsOK
<1>7. ASSUME NEW w \in Worker, Run(w) \/ WakeSpuriously(w) PROVE ListsOK'
  <2>1. Listed' = Listed /\ UNCHANGED <<server, dynamic>>
    BY <1>7 DEF Run, Enter, Wake, Leave, Serve, HangUp, WakeSpuriously, Listed
  <2>2. /\ at[w] \notin {"none", "ended"} /\ \A v \in Worker \ {w} : at'[v] = at[v]
    BY <1>0, <1>7 DEF Run, Enter, Wake, Leave, Serve, HangUp, WakeSpuriously, Proceed, Close
  <2>3. \A v \in Dynamic : v \in Alive' => v \in Alive
    BY <1>0, <2>2 DEF Alive, At
  <2> QED BY <2>1, <2>3, ListsKept
<1>8. ASSUME NEW w \in Worker, Timeout(w) PROVE ListsOK'
  <2>1. /\ at[w] \in {"waiting", "woken"} /\ \A v \in Worker \ {w} : at'[v] = at[v]
        /\ server # "spawn" /\ UNCHANGED <<server, remaining>>
        /\ dynamic' = dynamic \ {w}
        /\ finished' = IF w \in dynamic THEN finished \cup {w} ELSE finished
    BY <1>0, <1>8 DEF Timeout, MutexFree
  <2>2. Listed' = Listed
    BY <2>1 DEF Listed
  <2>3. \A v \in Dynamic : v \in Alive' => v \in Alive
    BY <1>0, <2>1 DEF Alive, At
  <2> QED BY <2>1, <2>2, <2>3, ListsKept
<1>9. CASE UNCHANGED vars
  BY <1>9, ListsKept DEF vars, Listed, Alive, At
<1> QED BY <1>1, <1>2, <1>3, <1>4, <1>5, <1>6, <1>7, <1>8, <1>9 DEF Next, Listen
-----------------------------------------------------------------------------
\* The lists, counters and connections keep their types.
THEOREM TypeCorrect == Spec => []TypeOK
<1>1. Inv => TypeOK
  BY DEF Inv
<1> QED BY InvInit, InvNext, <1>1, PTL DEF Spec

\* idle_thread_count_ is the number of threads in their wait.
THEOREM IdleExact == Spec => []IdleCounted
<1>1. Inv => IdleCounted
  BY DEF Inv
<1> QED BY InvInit, InvNext, <1>1, PTL DEF Spec

\* While a thread sleeps every queued job has a thread on its way to it, or a
\* notification about to be sent.
THEOREM WakeupsKept == Spec => []NoLostWakeup
<1>1. Init => NoLostWakeup
  BY DEF Init, NoLostWakeup, Sleeping, At
<1> QED BY InvInit, InvNext, <1>1, WakeupNext, PTL DEF Spec

\* At no time are there more threads than max_thread_count_.
THEOREM Bounded == Spec => []ThreadsBounded
<1>1. Inv /\ ListsOK => ThreadsBounded
  <2> SUFFICES ASSUME Inv, ListsOK PROVE ThreadsBounded
    OBVIOUS
  <2>1. /\ IsFiniteSet(Listed) /\ Cardinality(Listed) \in Nat /\ Cardinality(Base) \in Nat
    BY ListsFinite DEF Inv
  <2>2. Alive \in SUBSET (Base \cup Listed)
    BY DEF Alive, Worker, ListsOK
  <2>3. /\ IsFiniteSet(Base \cup Listed)
        /\ Cardinality(Base \cup Listed) = Cardinality(Base) + Cardinality(Listed) - Cardinality(Base \cap Listed)
    BY <2>1, ServerAssumption, FS_Union
  <2>4. Base \cap Listed = {}
    BY ServerAssumption DEF Inv, TypeOK, Listed
  <2>5. Cardinality(Base \cap Listed) = 0
    BY <2>4, FS_EmptySet
  <2>6. Cardinality(Alive) <= Cardinality(Base \cup Listed)
    BY <2>2, <2>3, FS_Subset
  <2>7. IsFiniteSet(Alive) /\ Cardinality(Alive) \in Nat
    BY <2>2, <2>3, FS_Subset, FS_CardinalityType
  <2> QED BY <2>1, <2>3, <2>5, <2>6, <2>7, ServerAssumption DEF ListsOK, ThreadsBounded
<1> QED BY InvInit, InvNext, ListsInit, ListsNext, <1>1, PTL DEF Spec

\* When listen() returns no thread is left and every accepted connection has
\* been served to its end.
THEOREM Alone == Spec => []ReturnsAlone
<1>1. Inv /\ ListsOK => ReturnsAlone
  <2> SUFFICES ASSUME Inv, ListsOK, server = "returned"
               PROVE  /\ Alive = {} /\ dynamic = {} /\ finished = {}
                      /\ jobs = <<>>
                      /\ \A c \in Conn : conn[c] \in {"new", "closed"}
    BY DEF ReturnsAlone
  <2>1. dynamic = {} /\ finished = {} /\ Ended(remaining) /\ Ended(Base)
    BY DEF Inv, ControlOK
  <2>2. Alive = {}
    BY <2>1 DEF ListsOK, Listed, Ended, At, Alive, Worker
  <2>3. jobs = <<>>
    <3>1. PICK w \in Base : at[w] = "ended"
      BY <2>1, ServerAssumption DEF Ended, At
    <3> QED BY <3>1 DEF Inv, ControlOK
  <2>4. \A c \in Conn : conn[c] \notin {"queued", "open"}
    <3>1. \A w \in Worker : at[w] # "serving"
      BY <2>2 DEF Alive, At
    <3> QED BY <2>3, <3>1 DEF Inv, ConnsOK
  <2> QED BY <2>1, <2>2, <2>3, <2>4 DEF Inv, TypeOK
<1> QED BY InvInit, InvNext, ListsInit, ListsNext, <1>1, PTL DEF Spec

=============================================================================
