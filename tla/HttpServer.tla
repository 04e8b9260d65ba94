----------------------------- MODULE HttpServer -----------------------------
(***************************************************************************)
(* How httplib.h serves the program's requests: Server::listen_internal    *)
(* accepts connections and hands each as a job to the ThreadPool, whose    *)
(* workers serve it request by request until it is closed.  A pool has     *)
(* base workers and, when none is idle, dynamic ones that leave after an   *)
(* idle time.  listen() ends when accept() fails for good; the pool then   *)
(* finishes its jobs, because handlers use the tree main() is about to     *)
(* destroy.                                                                *)
(*                                                                         *)
(* Code under the pool's mutex is one step, except that the mutex is held  *)
(* while finished threads are joined.                                      *)
(***************************************************************************)
EXTENDS Integers, Sequences, FiniteSets

CONSTANTS
    Conn, NoConn,
    Base,          \* the base workers
    Dynamic,       \* names for dynamic workers
    MaxThreads,    \* max_thread_count_
    KeepAliveMax   \* requests served on one connection

ASSUME ServerAssumption ==
    /\ IsFiniteSet(Base) /\ IsFiniteSet(Dynamic)
    /\ Base \cap Dynamic = {}
    /\ Base # {}
    /\ NoConn \notin Conn
    /\ MaxThreads \in Nat /\ Cardinality(Base) <= MaxThreads
    /\ MaxThreads <= Cardinality(Base) + Cardinality(Dynamic)
    /\ KeepAliveMax \in Nat \ {0}

VARIABLES
    server,     \* where the thread in listen() is
    accepted,   \* the connection it is handing over
    conn,       \* conn[c]: "new", "queued", "open" or "closed"
    pending,    \* the connections with a request to be read
    budget,     \* budget[c]: requests c may still make
    jobs, idle, shutdown,              \* jobs_, idle_thread_count_, shutdown_
    dynamic, finished, remaining,      \* the lists of thread objects
    at,         \* at[w]: where worker w is
    serving     \* serving[w]: its connection

connVars == <<conn, pending, budget>>
poolVars == <<jobs, idle, shutdown>>
listVars == <<dynamic, finished, remaining>>
workerVars == <<at, serving>>
vars == <<server, accepted, connVars, poolVars, listVars, workerVars>>

Worker == Base \cup Dynamic

At(places) == {w \in Worker : at[w] \in places}
Sleeping == At({"waiting"})
Awake == At({"entering", "woken"})          \* on the way to the job queue
Alive == Worker \ At({"none", "ended"})

TypeOK ==
    /\ server \in {"accept", "enqueue", "spawn", "notify", "shutdown", "notifyAll",
                   "joinBase", "takeDynamic", "joinDynamic", "joinFinished", "returned"}
    /\ accepted \in Conn \cup {NoConn}
    /\ conn \in [Conn -> {"new", "queued", "open", "closed"}]
    /\ pending \in SUBSET Conn
    /\ budget \in [Conn -> 0 .. KeepAliveMax]
    /\ jobs \in Seq(Conn)
    /\ idle \in Nat
    /\ shutdown \in BOOLEAN
    /\ dynamic \subseteq Dynamic /\ finished \subseteq Dynamic /\ remaining \subseteq Dynamic
    /\ at \in [Worker -> {"none", "entering", "waiting", "woken", "serving", "leaving", "ended"}]
    /\ serving \in [Worker -> Conn \cup {NoConn}]

\* The pool has started its base workers.
Init ==
    /\ server = "accept" /\ accepted = NoConn
    /\ conn = [c \in Conn |-> "new"]
    /\ pending = {}
    /\ budget = [c \in Conn |-> KeepAliveMax]
    /\ jobs = <<>> /\ idle = 0 /\ shutdown = FALSE
    /\ dynamic = {} /\ finished = {} /\ remaining = {}
    /\ at = [w \in Worker |-> IF w \in Base THEN "entering" ELSE "none"]
    /\ serving = [w \in Worker |-> NoConn]

Ended(threads) == threads \subseteq At({"ended"})
-----------------------------------------------------------------------------
\* The thread in listen(): the accept loop.

Accept(c) ==
    /\ server = "accept"
    /\ conn[c] = "new"
    /\ accepted' = c
    /\ server' = "enqueue"
    /\ UNCHANGED <<connVars, poolVars, listVars, workerVars>>

\* accept() fails with an error that is not retried: the loop ends.
AcceptFails ==
    /\ server = "accept"
    /\ server' = "shutdown"
    /\ UNCHANGED <<accepted, connVars, poolVars, listVars, workerVars>>

\* The job is pushed; with no idle thread and less than the maximum a dynamic
\* one is started.  enqueue() never returns false here: shutdown_ is set by this
\* same thread, after its last enqueue(), and max_queued_requests_ is 0.
Enqueue ==
    /\ server = "enqueue"
    /\ jobs' = Append(jobs, accepted)
    /\ conn' = [conn EXCEPT ![accepted] = "queued"]
    /\ accepted' = NoConn
    /\ server' = IF idle = 0 /\ Cardinality(Base) + Cardinality(dynamic) < MaxThreads
                 THEN "spawn" ELSE "notify"
    /\ UNCHANGED <<pending, budget, idle, shutdown, listVars, workerVars>>

\* Mutant: a thread is started without joining those that have finished.
SpawnUnjoined ==
    /\ server = "spawn"
    /\ \E w \in Dynamic :
          /\ at[w] = "none"
          /\ at' = [at EXCEPT ![w] = "entering"]
          /\ dynamic' = dynamic \cup {w}
    /\ server' = "notify"
    /\ UNCHANGED <<accepted, connVars, poolVars, finished, remaining, serving>>

\* cleanup_finished_threads joins, with the mutex held; then a thread starts.  That
\* it can be created is assumed: nothing up to main() catches the std::system_error
\* of a std::thread that cannot, and the process ends.
Spawn ==
    /\ server = "spawn"
    /\ Ended(finished)
    /\ finished' = {}
    /\ \E w \in Dynamic :
          /\ at[w] = "none" \/ w \in finished
          /\ at' = [v \in Worker |-> IF v = w THEN "entering"
                                     ELSE IF v \in finished THEN "none" ELSE at[v]]
          /\ dynamic' = dynamic \cup {w}
    /\ server' = "notify"
    /\ UNCHANGED <<accepted, connVars, poolVars, remaining, serving>>

\* cond_.notify_one(): some waiting thread, if there is one.
Notify ==
    /\ server = "notify"
    /\ \/ \E w \in Sleeping : at' = [at EXCEPT ![w] = "woken"]
       \/ Sleeping = {} /\ UNCHANGED at
    /\ server' = "accept"
    /\ UNCHANGED <<accepted, connVars, poolVars, listVars, serving>>
-----------------------------------------------------------------------------
\* ThreadPool::shutdown

SetShutdown ==
    /\ server = "shutdown"
    /\ shutdown' = TRUE
    /\ server' = "notifyAll"
    /\ UNCHANGED <<accepted, connVars, jobs, idle, listVars, workerVars>>

\* Mutant: only one of the waiting threads is told.
NotifyAllOne ==
    /\ server = "notifyAll"
    /\ \/ \E w \in Sleeping : at' = [at EXCEPT ![w] = "woken"]
       \/ Sleeping = {} /\ UNCHANGED at
    /\ server' = "joinBase"
    /\ UNCHANGED <<accepted, connVars, poolVars, listVars, serving>>

NotifyAll ==
    /\ server = "notifyAll"
    /\ at' = [w \in Worker |-> IF w \in Sleeping THEN "woken" ELSE at[w]]
    /\ server' = "joinBase"
    /\ UNCHANGED <<accepted, connVars, poolVars, listVars, serving>>

JoinBase ==
    /\ server = "joinBase"
    /\ Ended(Base)
    /\ server' = "takeDynamic"
    /\ UNCHANGED <<accepted, connVars, poolVars, listVars, workerVars>>

\* The dynamic threads are moved to a list no worker takes itself off.
TakeDynamic ==
    /\ server = "takeDynamic"
    /\ remaining' = dynamic
    /\ dynamic' = {}
    /\ server' = "joinDynamic"
    /\ UNCHANGED <<accepted, connVars, poolVars, finished, workerVars>>

\* Mutant: only the base threads are waited for.
JoinDynamicSkipped ==
    /\ server = "joinDynamic"
    /\ server' = "joinFinished"
    /\ UNCHANGED <<accepted, connVars, poolVars, listVars, workerVars>>

JoinDynamic ==
    /\ server = "joinDynamic"
    /\ Ended(remaining)
    /\ server' = "joinFinished"
    /\ UNCHANGED <<accepted, connVars, poolVars, listVars, workerVars>>

\* The last join, with the mutex held; listen() returns.
JoinFinished ==
    /\ server = "joinFinished"
    /\ Ended(finished)
    /\ finished' = {}
    /\ server' = "returned"
    /\ UNCHANGED <<accepted, connVars, poolVars, dynamic, remaining, workerVars>>

Listen ==
    \/ Enqueue \/ Spawn \/ Notify
    \/ SetShutdown \/ NotifyAll \/ JoinBase \/ TakeDynamic \/ JoinDynamic \/ JoinFinished
-----------------------------------------------------------------------------
\* ThreadPool::worker

MutexFree == server \notin {"spawn", "joinFinished"}

HasWork == jobs # <<>> \/ shutdown

\* With the mutex, and something to do: leave at shutdown when the queue is
\* empty, else serve the first job.
Proceed(w) ==
    IF jobs = <<>>
    THEN /\ at' = [at EXCEPT ![w] = "leaving"]
         /\ UNCHANGED <<jobs, conn, serving>>
    ELSE /\ at' = [at EXCEPT ![w] = "serving"]
         /\ serving' = [serving EXCEPT ![w] = Head(jobs)]
         /\ conn' = [conn EXCEPT ![Head(jobs)] = "open"]
         /\ jobs' = Tail(jobs)

\* The loop's next round: the thread is idle only if it has to wait.
Enter(w) ==
    /\ at[w] = "entering"
    /\ MutexFree
    /\ IF HasWork
       THEN Proceed(w) /\ UNCHANGED idle
       ELSE /\ at' = [at EXCEPT ![w] = "waiting"]
            /\ idle' = idle + 1
            /\ UNCHANGED <<jobs, conn, serving>>
    /\ UNCHANGED <<server, accepted, pending, budget, shutdown, listVars>>

\* The condition variable may wake a thread nobody notified.
WakeSpuriously(w) ==
    /\ at[w] = "waiting"
    /\ at' = [at EXCEPT ![w] = "woken"]
    /\ UNCHANGED <<server, accepted, connVars, poolVars, listVars, serving>>

\* Mutant: a thread that gets a job is still counted as idle.
WakeStaysIdle(w) ==
    /\ at[w] = "woken"
    /\ MutexFree
    /\ IF HasWork
       THEN Proceed(w) /\ UNCHANGED idle
       ELSE /\ at' = [at EXCEPT ![w] = "waiting"]
            /\ UNCHANGED <<jobs, idle, conn, serving>>
    /\ UNCHANGED <<server, accepted, pending, budget, shutdown, listVars>>

\* The thread has the mutex again and looks whether there is something to do.
Wake(w) ==
    /\ at[w] = "woken"
    /\ MutexFree
    /\ IF HasWork
       THEN Proceed(w) /\ idle' = idle - 1
       ELSE /\ at' = [at EXCEPT ![w] = "waiting"]
            /\ UNCHANGED <<jobs, idle, conn, serving>>
    /\ UNCHANGED <<server, accepted, pending, budget, shutdown, listVars>>

\* Mutant: a thread whose wait timed out leaves, whatever is queued.
TimeoutBlind(w) ==
    /\ at[w] \in {"waiting", "woken"}
    /\ w \in Dynamic
    /\ MutexFree
    /\ at' = [at EXCEPT ![w] = "leaving"]
    /\ idle' = idle - 1
    /\ dynamic' = dynamic \ {w}
    /\ finished' = IF w \in dynamic THEN finished \cup {w} ELSE finished
    /\ UNCHANGED <<server, accepted, connVars, jobs, shutdown, remaining, serving>>

\* wait_for of a dynamic thread times out, and there is nothing to do:
\* move_to_finished, unless shutdown() has taken the thread off its list.
Timeout(w) ==
    /\ at[w] \in {"waiting", "woken"}
    /\ w \in Dynamic
    /\ MutexFree
    /\ ~HasWork
    /\ at' = [at EXCEPT ![w] = "leaving"]
    /\ idle' = idle - 1
    /\ dynamic' = dynamic \ {w}
    /\ finished' = IF w \in dynamic THEN finished \cup {w} ELSE finished
    /\ UNCHANGED <<server, accepted, connVars, jobs, shutdown, remaining, serving>>

\* The thread function returns.
Leave(w) ==
    /\ at[w] = "leaving"
    /\ at' = [at EXCEPT ![w] = "ended"]
    /\ UNCHANGED <<server, accepted, connVars, poolVars, listVars, serving>>
-----------------------------------------------------------------------------
\* The job: process_and_close_socket on one connection.

Close(w) ==
    /\ conn' = [conn EXCEPT ![serving[w]] = "closed"]
    /\ serving' = [serving EXCEPT ![w] = NoConn]
    /\ at' = [at EXCEPT ![w] = "entering"]

\* Mutant: requests on one connection are not counted.
ServeUncounted(w) ==
    /\ at[w] = "serving"
    /\ serving[w] \in pending
    /\ pending' = pending \ {serving[w]}
    /\ UNCHANGED <<server, accepted, conn, budget, poolVars, listVars, workerVars>>

\* Mutant: one request too many is served on a connection.
ServeOneMore(w) ==
    LET c == serving[w]
    IN  /\ at[w] = "serving"
        /\ c \in pending
        /\ pending' = pending \ {c}
        /\ budget' = [budget EXCEPT ![c] = @ - 1]
        /\ \/ budget[c] = 0 /\ Close(w)
           \/ budget[c] >= 0 /\ UNCHANGED <<conn, workerVars>>
        /\ UNCHANGED <<server, accepted, poolVars, listVars>>

\* A request is read, its handler runs, the response is written.  The
\* connection is closed when its requests are used up, when the client asks for
\* it, or when reading or writing fails.
Serve(w) ==
    LET c == serving[w]
    IN  /\ at[w] = "serving"
        /\ c \in pending
        /\ pending' = pending \ {c}
        /\ budget' = [budget EXCEPT ![c] = @ - 1]
        /\ \/ Close(w)
           \/ budget[c] > 1 /\ UNCHANGED <<conn, workerVars>>
        /\ UNCHANGED <<server, accepted, poolVars, listVars>>

\* keep_alive() gives up: no request in time, or the client is gone.
HangUp(w) ==
    /\ at[w] = "serving"
    /\ serving[w] \notin pending
    /\ Close(w)
    /\ UNCHANGED <<server, accepted, pending, budget, poolVars, listVars>>

\* A client sends a request on its connection.
Request(c) ==
    /\ conn[c] # "closed"
    /\ c \notin pending
    /\ pending' = pending \cup {c}
    /\ UNCHANGED <<server, accepted, conn, budget, poolVars, listVars, workerVars>>

Run(w) == Enter(w) \/ Wake(w) \/ Leave(w) \/ Serve(w) \/ HangUp(w)

Next ==
    \/ \E c \in Conn : Accept(c) \/ Request(c)
    \/ AcceptFails \/ Listen
    \/ \E w \in Worker : Run(w) \/ WakeSpuriously(w) \/ Timeout(w)

Spec == Init /\ [][Next]_vars

\* The scheduler runs every thread, and handlers return; the clock of keep_alive
\* runs.  Nothing is assumed about clients.
FairSpec == Spec /\ WF_vars(Listen) /\ \A w \in Worker : WF_vars(Run(w))
-----------------------------------------------------------------------------
\* idle_thread_count_, on which enqueue decides, is the number of threads in
\* their wait.
IdleCounted == idle = Cardinality(At({"waiting", "woken"}))

\* No wakeup is lost: as long as a thread sleeps, every queued job has a thread
\* on its way to it, or enqueue about to notify one.
NoLostWakeup ==
    Sleeping # {} =>
        Len(jobs) <= Cardinality(Awake) + (IF server \in {"spawn", "notify"} THEN 1 ELSE 0)

\* Threads that have left the lists but not ended are counted in: at no time are
\* there more than max_thread_count_.
ThreadsBounded == Cardinality(Alive) <= MaxThreads

\* When listen() returns, and main() destroys the tree, no worker is left that
\* could run a handler, and no accepted connection has been left unserved.
ReturnsAlone ==
    server = "returned" =>
        /\ Alive = {} /\ dynamic = {} /\ finished = {}
        /\ jobs = <<>>
        /\ \A c \in Conn : conn[c] \in {"new", "closed"}

\* Every connection handed to the pool is served to its end, however long the
\* others keep their workers.
ConnectionsServed == \A c \in Conn : conn[c] = "queued" ~> conn[c] = "closed"

\* After a failed accept() listen() returns: the pool drains and every join ends.
ListenReturns == server = "shutdown" ~> server = "returned"

=============================================================================
