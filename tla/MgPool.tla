------------------------------- MODULE MgPool -------------------------------
(***************************************************************************)
(* The thread pool of the embedded web server (server/mongoose.c): the     *)
(* application thread in mg_start and mg_stop, the master thread that      *)
(* accepts connections and queues them, and the worker threads that take   *)
(* them from the queue.  Variables keep the names of struct mg_context.    *)
(*                                                                         *)
(* A region protected by ctx->mutex is one step when everything it reads   *)
(* is written under the mutex only.  stop_flag is not: mg_stop sets it and *)
(* master_thread broadcasts sq_full without the mutex, so a worker that    *)
(* has found the queue empty and stop_flag 0 takes a separate step to      *)
(* enter the wait, and is the only one that holds the mutex between steps. *)
(*                                                                         *)
(* A condition variable is the set of the threads that wait on it.         *)
(***************************************************************************)
EXTENDS Integers, Sequences, FiniteSets

CONSTANTS
    Workers,         \* the NUM_THREADS worker threads
    Conns,           \* client connections
    QSize,           \* ARRAY_SIZE(ctx->queue), 20 in the code
    Master,          \* the master thread
    Nobody,          \* owner of a free mutex
    NoSock,          \* value of a socket structure never written
    AcceptTimesOut,  \* SO_RCVTIMEO makes accept() return without a client
    ThreadsMayFail,  \* pthread_create may fail
    MaxSpurious      \* bound on the spurious wakeups of one behaviour

ASSUME PoolAssumption ==
    /\ QSize \in Nat \ {0}
    /\ IsFiniteSet(Workers)
    /\ Master \notin Workers
    /\ Nobody \notin Workers
    /\ NoSock \notin Conns
    /\ AcceptTimesOut \in BOOLEAN
    /\ ThreadsMayFail \in BOOLEAN
    /\ MaxSpurious \in Nat

VARIABLES
    api,          \* where the application is in mg_start / mg_stop
    ctx,          \* the mg_context allocation: "none", "live" or "freed"
    stop_flag, num_threads, mutex,
    queue, sq_head, sq_tail,
    cond, sq_full, sq_empty,
    mpc,          \* where the master thread is
    accepted,     \* local variable of master_thread
    wpc,          \* wpc[w]: where worker w is
    client,       \* client[w]: conn->client of worker w
    listening,    \* the listening socket is open
    arriving,     \* clients that have not connected
    backlog,      \* connected, not accepted
    reset,        \* refused or reset by the kernel
    closed,       \* connections closed by close_connection
    spurious      \* spurious wakeups so far

apiVars  == <<api, ctx>>
queueVars == <<queue, sq_head, sq_tail>>
netVars  == <<listening, arriving, backlog, reset>>
vars == <<api, ctx, stop_flag, num_threads, mutex, queue, sq_head, sq_tail,
          cond, sq_full, sq_empty, mpc, accepted, wpc, client,
          listening, arriving, backlog, reset, closed, spurious>>

ApiStates == {"idle", "spawn", "count", "running", "stopping", "stopped", "null"}
MasterStates == {"none", "failed", "loop", "accept", "produce", "full",
                 "quit", "broadcast", "join", "joining", "destroy", "done"}
WorkerStates == {"none", "failed", "loop", "consume", "sleep", "waiting",
                 "serve", "close", "exit", "exited"}

\* Workers whose thread was created.
Started == {w \in Workers : wpc[w] \notin {"none", "failed"}}
\* Workers that will still lock ctx->mutex and decrement num_threads.
Live == {w \in Started : wpc[w] # "exited"}
-----------------------------------------------------------------------------
Init == /\ api = "idle" /\ ctx = "none"
        /\ stop_flag = 0 /\ num_threads = 0 /\ mutex = Nobody
        /\ queue = [i \in 0..(QSize - 1) |-> NoSock]
        /\ sq_head = 0 /\ sq_tail = 0
        /\ cond = {} /\ sq_full = {} /\ sq_empty = {}
        /\ mpc = "none" /\ accepted = NoSock
        /\ wpc = [w \in Workers |-> "none"]
        /\ client = [w \in Workers |-> NoSock]
        /\ listening = FALSE
        /\ arriving = Conns /\ backlog = {} /\ reset = {} /\ closed = {}
        /\ spurious = 0
-----------------------------------------------------------------------------
(* The application thread: mg_start, mg_stop.                              *)

\* mg_start allocates ctx and binds; when set_ports_option fails it frees
\* ctx and returns NULL.
BindFails == /\ api = "idle"
             /\ api' = "null"
             /\ UNCHANGED <<ctx, stop_flag, num_threads, mutex, queueVars, cond,
                            sq_full, sq_empty, mpc, accepted, wpc, client,
                            netVars, closed, spurious>>

\* start_thread, and what its new thread does.
Created == IF ThreadsMayFail THEN {"loop", "failed"} ELSE {"loop"}

\* The socket is bound and listening; the result of start_thread for the
\* master is ignored.
StartMaster == /\ api = "idle"
               /\ api' = "spawn" /\ ctx' = "live" /\ listening' = TRUE
               /\ mpc' \in Created
               /\ UNCHANGED <<stop_flag, num_threads, mutex, queueVars, cond,
                              sq_full, sq_empty, accepted, wpc, client,
                              arriving, backlog, reset, closed, spurious>>

\* Mutant: mg_start counts a worker whether or not its thread was created.
CountsFailedWorker(w) ==
    /\ api = "spawn" /\ wpc[w] = "none"
    /\ wpc' \in {[wpc EXCEPT ![w] = s] : s \in Created}
    /\ api' = "count"
    /\ UNCHANGED <<ctx, stop_flag, num_threads, mutex, queueVars, cond,
                   sq_full, sq_empty, mpc, accepted, client, netVars, closed,
                   spurious>>

\* One iteration of the for loop of mg_start: the thread runs before the
\* application counts it.
StartWorker(w) ==
    /\ api = "spawn" /\ wpc[w] = "none"
    /\ \E s \in Created :
          /\ wpc' = [wpc EXCEPT ![w] = s]
          /\ api' = IF s = "loop" THEN "count" ELSE api
    /\ UNCHANGED <<ctx, stop_flag, num_threads, mutex, queueVars, cond,
                   sq_full, sq_empty, mpc, accepted, client, netVars, closed,
                   spurious>>

CountWorker == /\ api = "count"
               /\ num_threads' = num_threads + 1
               /\ api' = "spawn"
               /\ UNCHANGED <<ctx, stop_flag, mutex, queueVars, cond, sq_full,
                              sq_empty, mpc, accepted, wpc, client, netVars,
                              closed, spurious>>

StartReturns == /\ api = "spawn"
                /\ \A w \in Workers : wpc[w] # "none"
                /\ api' = "running"
                /\ UNCHANGED <<ctx, stop_flag, num_threads, mutex, queueVars,
                               cond, sq_full, sq_empty, mpc, accepted, wpc,
                               client, netVars, closed, spurious>>

StopRequest == /\ api = "running"
               /\ stop_flag' = 1
               /\ api' = "stopping"
               /\ UNCHANGED <<ctx, num_threads, mutex, queueVars, cond, sq_full,
                              sq_empty, mpc, accepted, wpc, client, netVars,
                              closed, spurious>>

\* mg_stop leaves its busy wait and frees the context.
StopReturns == /\ api = "stopping" /\ stop_flag = 2
               /\ ctx' = "freed" /\ api' = "stopped"
               /\ UNCHANGED <<stop_flag, num_threads, mutex, queueVars, cond,
                              sq_full, sq_empty, mpc, accepted, wpc, client,
                              netVars, closed, spurious>>
-----------------------------------------------------------------------------
(* master_thread, produce_socket.                                          *)

MasterLoop == /\ mpc = "loop"
              /\ mpc' = IF stop_flag = 0 THEN "accept" ELSE "quit"
              /\ UNCHANGED <<apiVars, stop_flag, num_threads, mutex, queueVars,
                             cond, sq_full, sq_empty, accepted, wpc, client,
                             netVars, closed, spurious>>

Accept(c) == /\ mpc = "accept" /\ c \in backlog
             /\ backlog' = backlog \ {c}
             /\ accepted' = c
             /\ mpc' = "produce"
             /\ UNCHANGED <<apiVars, stop_flag, num_threads, mutex, queueVars,
                            cond, sq_full, sq_empty, wpc, client, listening,
                            arriving, reset, closed, spurious>>

\* accept() returns INVALID_SOCKET: the receive timeout of the listening socket
\* passes without a client, or the call fails although clients wait, as it does
\* without descriptors.
AcceptFails == /\ mpc = "accept"
               /\ AcceptTimesOut \/ backlog # {}
               /\ mpc' = "loop"
               /\ UNCHANGED <<apiVars, stop_flag, num_threads, mutex, queueVars,
                              cond, sq_full, sq_empty, accepted, wpc, client,
                              netVars, closed, spurious>>

\* Mutant: the signal is missing.
NotSignalled(waiters) == {waiters}

\* pthread_cond_signal: one waiter is woken, when there is one.
Signalled(waiters) ==
    IF waiters = {} THEN {waiters} ELSE {waiters \ {t} : t \in waiters}

\* Mutant: the limit test is off by one.
OverFull == sq_head - sq_tail > QSize

QueueFull == sq_head - sq_tail >= QSize

\* produce_socket from the lock, or from a wakeup, to the unlock or the wait.
Produce ==
    /\ \/ mpc = "produce"
       \/ mpc = "full" /\ Master \notin sq_empty
    /\ mutex = Nobody
    /\ \/ /\ QueueFull
          /\ sq_empty' = {Master}
          /\ mpc' = "full"
          /\ UNCHANGED <<queueVars, sq_full>>
       \/ /\ ~QueueFull
          /\ queue' = [queue EXCEPT ![sq_head % QSize] = accepted]
          /\ sq_head' = sq_head + 1
          /\ sq_full' \in Signalled(sq_full)
          /\ mpc' = "loop"
          /\ UNCHANGED <<sq_tail, sq_empty>>
    /\ UNCHANGED <<apiVars, stop_flag, num_threads, mutex, cond, accepted, wpc,
                   client, netVars, closed, spurious>>

\* close_all_listening_sockets: the kernel resets what was never accepted.
CloseListening == /\ mpc = "quit"
                  /\ listening' = FALSE
                  /\ reset' = reset \cup backlog /\ backlog' = {}
                  /\ mpc' = "broadcast"
                  /\ UNCHANGED <<apiVars, stop_flag, num_threads, mutex,
                                 queueVars, cond, sq_full, sq_empty, accepted,
                                 wpc, client, arriving, closed, spurious>>

\* The broadcast takes no lock.
Broadcast == /\ mpc = "broadcast"
             /\ sq_full' = {}
             /\ mpc' = "join"
             /\ UNCHANGED <<apiVars, stop_flag, num_threads, mutex, queueVars,
                            cond, sq_empty, accepted, wpc, client, netVars,
                            closed, spurious>>

\* Mutant: the master waits for one termination instead of all of them.
JoinOnce == /\ \/ /\ mpc = "join" /\ num_threads > 0
                  /\ cond' = {Master} /\ mpc' = "joining"
               \/ /\ \/ mpc = "join" /\ num_threads <= 0
                     \/ mpc = "joining" /\ Master \notin cond
                  /\ mpc' = "destroy" /\ UNCHANGED cond
            /\ mutex = Nobody
            /\ UNCHANGED <<apiVars, stop_flag, num_threads, mutex, queueVars,
                           sq_full, sq_empty, accepted, wpc, client, netVars,
                           closed, spurious>>

\* The wait until all threads finish, from the lock or from a wakeup.
Join == /\ \/ mpc = "join"
           \/ mpc = "joining" /\ Master \notin cond
        /\ mutex = Nobody
        /\ \/ num_threads > 0 /\ cond' = {Master} /\ mpc' = "joining"
           \/ num_threads <= 0 /\ mpc' = "destroy" /\ UNCHANGED cond
        /\ UNCHANGED <<apiVars, stop_flag, num_threads, mutex, queueVars,
                       sq_full, sq_empty, accepted, wpc, client, netVars,
                       closed, spurious>>

\* The mutex and the condition variables are destroyed, then stop_flag = 2.
Destroy == /\ mpc = "destroy"
           /\ stop_flag' = 2
           /\ mpc' = "done"
           /\ UNCHANGED <<apiVars, num_threads, mutex, queueVars, cond, sq_full,
                          sq_empty, accepted, wpc, client, netVars, closed,
                          spurious>>
-----------------------------------------------------------------------------
(* worker_thread, consume_socket.                                          *)

WorkerLoop(w) ==
    /\ wpc[w] = "loop"
    /\ wpc' = [wpc EXCEPT ![w] = IF stop_flag = 0 THEN "consume" ELSE "exit"]
    /\ UNCHANGED <<apiVars, stop_flag, num_threads, mutex, queueVars, cond,
                   sq_full, sq_empty, mpc, accepted, client, netVars, closed,
                   spurious>>

\* The worker holds the mutex: it has just locked it, or a wakeup gave it back.
InConsume(w) == /\ \/ wpc[w] = "consume"
                   \/ wpc[w] = "waiting" /\ w \notin sq_full
                /\ mutex = Nobody

\* Mutant: the loop around the wait does not test stop_flag.
WaitsOnceStopped(w) ==
    /\ InConsume(w)
    /\ sq_head = sq_tail
    /\ mutex' = w
    /\ wpc' = [wpc EXCEPT ![w] = "sleep"]
    /\ UNCHANGED <<apiVars, stop_flag, num_threads, queueVars, cond, sq_full,
                   sq_empty, mpc, accepted, client, netVars, closed, spurious>>

\* The queue is empty and no stop is requested: wait.  The wait starts in a
\* step of its own.
ConsumeEmpty(w) ==
    /\ InConsume(w)
    /\ sq_head = sq_tail /\ stop_flag = 0
    /\ mutex' = w
    /\ wpc' = [wpc EXCEPT ![w] = "sleep"]
    /\ UNCHANGED <<apiVars, stop_flag, num_threads, queueVars, cond, sq_full,
                   sq_empty, mpc, accepted, client, netVars, closed, spurious>>

\* pthread_cond_wait(&ctx->sq_full, &ctx->mutex)
CondWait(w) == /\ wpc[w] = "sleep"
               /\ sq_full' = sq_full \cup {w}
               /\ mutex' = Nobody
               /\ wpc' = [wpc EXCEPT ![w] = "waiting"]
               /\ UNCHANGED <<apiVars, stop_flag, num_threads, queueVars, cond,
                              sq_empty, mpc, accepted, client, netVars, closed,
                              spurious>>

\* A stop is requested: consume_socket returns 0, whatever is queued.
ConsumeStopped(w) ==
    /\ InConsume(w)
    /\ stop_flag # 0
    /\ wpc' = [wpc EXCEPT ![w] = "exit"]
    /\ UNCHANGED <<apiVars, stop_flag, num_threads, mutex, queueVars, cond,
                   sq_full, sq_empty, mpc, accepted, client, netVars, closed,
                   spurious>>

\* Mutant: the pointers wrap one lap too late.
WrapLate == IF sq_tail + 1 > 2 * QSize THEN QSize ELSE 0

\* The pointers never run past QSize + 1, so the wrapping loop of
\* consume_socket subtracts at most once.
Wrap == IF sq_tail + 1 > QSize THEN QSize ELSE 0

ConsumeTake(w) ==
    /\ InConsume(w)
    /\ sq_head # sq_tail /\ stop_flag = 0
    /\ client' = [client EXCEPT ![w] = queue[sq_tail % QSize]]
    /\ sq_tail' = sq_tail + 1 - Wrap
    /\ sq_head' = sq_head - Wrap
    /\ sq_empty' \in Signalled(sq_empty)
    /\ wpc' = [wpc EXCEPT ![w] = "serve"]
    /\ UNCHANGED <<apiVars, stop_flag, num_threads, mutex, queue, cond, sq_full,
                   mpc, accepted, netVars, closed, spurious>>

\* process_new_connection, of which the pool sees only that it returns.
Process(w) == /\ wpc[w] = "serve"
              /\ wpc' = [wpc EXCEPT ![w] = "close"]
              /\ UNCHANGED <<apiVars, stop_flag, num_threads, mutex, queueVars,
                             cond, sq_full, sq_empty, mpc, accepted, client,
                             netVars, closed, spurious>>

\* close_connection; conn->client keeps the closed socket.
CloseConnection(w) ==
    /\ wpc[w] = "close"
    /\ closed' = closed \cup {client[w]}
    /\ wpc' = [wpc EXCEPT ![w] = "loop"]
    /\ UNCHANGED <<apiVars, stop_flag, num_threads, mutex, queueVars, cond,
                   sq_full, sq_empty, mpc, accepted, client, netVars, spurious>>

Exit(w) == /\ wpc[w] = "exit" /\ mutex = Nobody
           /\ num_threads' = num_threads - 1
           /\ cond' \in Signalled(cond)
           /\ wpc' = [wpc EXCEPT ![w] = "exited"]
           /\ UNCHANGED <<apiVars, stop_flag, mutex, queueVars, sq_full,
                          sq_empty, mpc, accepted, client, netVars, closed,
                          spurious>>
-----------------------------------------------------------------------------
(* The environment.                                                        *)

\* A client connects; without a listening socket it is refused.
Connect(c) == /\ c \in arriving
              /\ arriving' = arriving \ {c}
              /\ IF listening
                 THEN backlog' = backlog \cup {c} /\ UNCHANGED reset
                 ELSE reset' = reset \cup {c} /\ UNCHANGED backlog
              /\ UNCHANGED <<apiVars, stop_flag, num_threads, mutex, queueVars,
                             cond, sq_full, sq_empty, mpc, accepted, wpc,
                             client, listening, closed, spurious>>

\* pthread_cond_wait may return without a signal.
SpuriousWakeup ==
    /\ spurious < MaxSpurious
    /\ spurious' = spurious + 1
    /\ \/ /\ \E w \in sq_full : sq_full' = sq_full \ {w}
          /\ UNCHANGED <<sq_empty, cond>>
       \/ /\ sq_empty # {} /\ sq_empty' = {}
          /\ UNCHANGED <<sq_full, cond>>
       \/ /\ cond # {} /\ cond' = {}
          /\ UNCHANGED <<sq_full, sq_empty>>
    /\ UNCHANGED <<apiVars, stop_flag, num_threads, mutex, queueVars, mpc,
                   accepted, wpc, client, netVars, closed>>
-----------------------------------------------------------------------------
ApiStep == \/ BindFails \/ StartMaster \/ CountWorker \/ StartReturns
           \/ StopReturns
           \/ \E w \in Workers : StartWorker(w)

MasterStep == \/ MasterLoop \/ AcceptFails \/ Produce \/ CloseListening
              \/ Broadcast \/ Join \/ Destroy
              \/ \E c \in Conns : Accept(c)

WorkerStep(w) == \/ WorkerLoop(w) \/ ConsumeEmpty(w) \/ CondWait(w)
                 \/ ConsumeStopped(w) \/ ConsumeTake(w) \/ Process(w)
                 \/ CloseConnection(w) \/ Exit(w)

Environment == SpuriousWakeup \/ \E c \in Conns : Connect(c)

Next == \/ ApiStep \/ StopRequest \/ MasterStep \/ Environment
        \/ \E w \in Workers : WorkerStep(w)

Spec == Init /\ [][Next]_vars

\* Every thread that can run eventually does, and accept() returns; it does not fail
\* every time while clients wait.  Nothing forces the application to stop, a client
\* to connect, or a condition variable to wake anyone spuriously.
FairSpec == /\ Spec
            /\ WF_vars(ApiStep)
            /\ WF_vars(MasterStep)
            /\ SF_vars(\E c \in Conns : Accept(c))
            /\ \A w \in Workers : WF_vars(WorkerStep(w))
-----------------------------------------------------------------------------
\* Values and ranges of the variables; the pointers stay inside the range that
\* keeps them from overflowing however long the server runs.
TypeOK ==
    /\ api \in ApiStates /\ ctx \in {"none", "live", "freed"}
    /\ stop_flag \in 0..2 /\ num_threads \in Int
    /\ mutex \in Workers \cup {Nobody}
    /\ queue \in [0..(QSize - 1) -> Conns \cup {NoSock}]
    /\ sq_tail \in 0..QSize
    /\ sq_head \in 0..(2 * QSize)
    /\ sq_full \subseteq Workers
    /\ sq_empty \subseteq {Master} /\ cond \subseteq {Master}
    /\ mpc \in MasterStates /\ accepted \in Conns \cup {NoSock}
    /\ wpc \in [Workers -> WorkerStates]
    /\ client \in [Workers -> Conns \cup {NoSock}]
    /\ listening \in BOOLEAN
    /\ arriving \subseteq Conns /\ backlog \subseteq Conns
    /\ reset \subseteq Conns /\ closed \subseteq Conns
    /\ spurious \in 0..MaxSpurious

\* mg_stop frees ctx: from then on no thread that still uses it exists.
NoUseAfterFree ==
    ctx = "freed" => Live = {} /\ mpc \in {"done", "none", "failed"}

\* num_threads, incremented by mg_start without the mutex and decremented by
\* the workers under it, is the number of the live workers whenever mg_start is
\* not between pthread_create and the increment; so assert(num_threads >= 0)
\* holds and the master joins exactly the threads that run.
ThreadCount == /\ num_threads = Cardinality(Live) - (IF api = "count" THEN 1 ELSE 0)
               /\ num_threads >= 0

\* A queued connection is never left with every worker asleep on sq_full: a
\* started worker exists that is not waiting and will come back to the queue.
NoIdleWhilePending ==
    sq_head # sq_tail /\ Started # {} => \E w \in Started : w \notin sq_full

\* The master sleeps on sq_empty only while the queue really is full.
MasterWaitsOnlyWhenFull == sq_empty # {} => sq_head - sq_tail = QSize

\* Both together: no thread waits on a condition variable of the queue while
\* there is something for it to do and nobody awake to signal it.
NobodySleepsForNothing == NoIdleWhilePending /\ MasterWaitsOnlyWhenFull

\* The state of the abstract pipeline: the ring buffer read from tail to head.
Waiting == [i \in 1..(sq_head - sq_tail) |-> queue[(sq_tail + i - 1) % QSize]]

Serving == [w \in Workers |-> IF wpc[w] \in {"serve", "close"} THEN client[w]
                                                               ELSE NoSock]

Held == IF mpc \in {"produce", "full"} THEN accepted ELSE NoSock

Pipeline == INSTANCE ConnPipeline
            WITH Capacity <- QSize,
                 outside <- arriving \cup backlog \cup reset,
                 held <- Held, waiting <- Waiting, serving <- Serving

\* The ring buffer, the condition variables and the threads together are a
\* bounded first-in first-out queue that hands each accepted connection to
\* exactly one worker.
PipelineSpec == Pipeline!Spec

\* While nobody stops the server, a connection in the backlog is eventually
\* accepted, handled and closed, if the master and some worker were started.
ServedUnlessStopped ==
    \A c \in Conns :
        c \in backlog ~> \/ c \in closed
                         \/ stop_flag # 0
                         \/ mpc = "failed"
                         \/ api = "running" /\ Started = {}

\* After a stop request every worker that is not already on its way into the
\* wait on sq_full finishes its connection and exits.
BusyWorkersExit ==
    \A w \in Workers :
        (stop_flag # 0 /\ wpc[w] \in {"loop", "consume", "serve", "close"})
            ~> wpc[w] = "exited"

\* mongoose.h: mg_stop "blocks until all Mongoose threads are stopped".
MgStopReturns == api = "stopping" ~> api = "stopped"

=============================================================================
