---------------------------- MODULE MgPool_proof ----------------------------
(***************************************************************************)
(* Proofs about the thread pool for any number of workers, connections and *)
(* queue slots: the type invariant, the safety invariants of MgPool, and   *)
(* that the pool implements ConnPipeline.                                  *)
(***************************************************************************)
EXTENDS MgPool, FiniteSetTheorems, SequenceTheorems, TLAPS

-----------------------------------------------------------------------------
(* The inductive invariant.                                                *)

\* The ring buffer holds between 0 and QSize sockets.
RingInv == sq_tail <= sq_head /\ sq_head <= sq_tail + QSize

\* Whatever is accepted, queued or handed to a worker is a connection.
SockInv ==
    /\ mpc \in {"produce", "full"} => accepted \in Conns
    /\ \A i \in sq_tail..(sq_head - 1) : queue[i % QSize] \in Conns
    /\ \A w \in Workers : wpc[w] \in {"serve", "close"} => client[w] \in Conns
    /\ arriving \cap backlog = {} /\ arriving \cap reset = {}
    /\ backlog \cap reset = {}

\* The phases of mg_start and mg_stop and the flag the threads read agree.
PhaseInv ==
    /\ api \in {"idle", "null"} => /\ mpc = "none" /\ ctx = "none"
                                   /\ \A w \in Workers : wpc[w] = "none"
    /\ stop_flag = 0 <=> api \in {"idle", "null", "spawn", "count", "running"}
    /\ stop_flag = 2 <=> mpc = "done"
    /\ ctx = "freed" <=> api = "stopped"
    /\ api = "stopped" => stop_flag = 2
    /\ api \in {"running", "stopping", "stopped"} =>
           \A w \in Workers : wpc[w] # "none"
    /\ mpc \in {"quit", "broadcast", "join", "joining", "destroy", "done"} =>
           stop_flag # 0
    /\ \A w \in Workers : wpc[w] \in {"exit", "exited"} => stop_flag # 0
    /\ mpc \in {"destroy", "done"} => num_threads <= 0

\* Only a worker about to wait keeps the mutex, and it saw an empty queue;
\* only waiting workers are in the wait set.
SleepInv ==
    /\ \A w \in Workers : wpc[w] = "sleep" <=> mutex = w
    /\ \A w \in Workers : wpc[w] = "sleep" => sq_head = sq_tail
    /\ \A w \in sq_full : wpc[w] = "waiting"

\* The counter, with the worker mg_start has created and not yet counted.
CountInv == /\ num_threads = Cardinality(Live) - (IF api = "count" THEN 1 ELSE 0)
            /\ api = "count" => Live # {}

Inv == /\ TypeOK /\ RingInv /\ SockInv /\ PhaseInv /\ SleepInv /\ CountInv
       /\ NoIdleWhilePending /\ MasterWaitsOnlyWhenFull
-----------------------------------------------------------------------------
\* The remainders the ring buffer uses: the pointers stay below 2 * QSize.
LEMMA RingIndex ==
    ASSUME NEW n \in 0..(2 * QSize)
    PROVE  /\ n % QSize \in 0..(QSize - 1)
           /\ n < QSize => n % QSize = n
           /\ n >= QSize /\ n < 2 * QSize => n % QSize = n - QSize
           /\ n = 2 * QSize => n % QSize = 0
<1> QSize \in Nat \ {0}
  BY PoolAssumption
<1> QED
  BY SMT

\* What pthread_cond_signal does to a wait set.
LEMMA SignalFacts ==
    ASSUME NEW S, NEW T \in Signalled(S)
    PROVE  /\ T \subseteq S
           /\ S # {} => \E t \in S : T = S \ {t}
  BY DEF Signalled

\* Every step keeps the types and the distance between the ring pointers.
LEMMA TypeStep ==
    ASSUME TypeOK, RingInv, SockInv, [Next]_vars
    PROVE  TypeOK' /\ RingInv'
<1> USE PoolAssumption DEF ApiStates, MasterStates, WorkerStates
<1>1. CASE BindFails
  BY <1>1 DEF BindFails, TypeOK, RingInv, apiVars, queueVars, netVars
<1>2. CASE StartMaster
  BY <1>2 DEF Created, StartMaster, TypeOK, RingInv, apiVars, queueVars, netVars
<1>3. CASE CountWorker
  BY <1>3 DEF CountWorker, TypeOK, RingInv, apiVars, queueVars, netVars
<1>4. CASE StartReturns
  BY <1>4 DEF StartReturns, TypeOK, RingInv, apiVars, queueVars, netVars
<1>5. CASE StopRequest
  BY <1>5 DEF StopRequest, TypeOK, RingInv, apiVars, queueVars, netVars
<1>6. CASE StopReturns
  BY <1>6 DEF StopReturns, TypeOK, RingInv, apiVars, queueVars, netVars
<1>7. CASE MasterLoop
  BY <1>7 DEF MasterLoop, TypeOK, RingInv, apiVars, queueVars, netVars
<1>8. CASE AcceptFails
  BY <1>8 DEF AcceptFails, TypeOK, RingInv, apiVars, queueVars, netVars
<1>9. CASE Produce
  <2>1. queue' \in [0..(QSize - 1) -> Conns \cup {NoSock}] /\ sq_full' \subseteq Workers
    BY <1>9, SignalFacts DEF Produce, QueueFull, TypeOK, queueVars
  <2>2. /\ sq_tail' \in 0..QSize /\ sq_head' \in 0..(2 * QSize) /\ RingInv'
        /\ sq_empty' \subseteq {Master} /\ mpc' \in MasterStates
    BY <1>9 DEF Produce, QueueFull, TypeOK, RingInv, queueVars
  <2> QED
    BY <1>9, <2>1, <2>2 DEF Produce, QueueFull, TypeOK, apiVars, netVars
<1>10. CASE CloseListening
  BY <1>10 DEF CloseListening, TypeOK, RingInv, apiVars, queueVars, netVars
<1>11. CASE Broadcast
  BY <1>11 DEF Broadcast, TypeOK, RingInv, apiVars, queueVars, netVars
<1>12. CASE Join
  BY <1>12 DEF Join, TypeOK, RingInv, apiVars, queueVars, netVars
<1>13. CASE Destroy
  BY <1>13 DEF Destroy, TypeOK, RingInv, apiVars, queueVars, netVars
<1>14. CASE SpuriousWakeup
  BY <1>14 DEF SpuriousWakeup, TypeOK, RingInv, apiVars, queueVars, netVars
<1>15. ASSUME NEW w \in Workers, StartWorker(w) PROVE TypeOK' /\ RingInv'
  BY <1>15 DEF Created, StartWorker, TypeOK, RingInv, apiVars, queueVars, netVars
<1>16. ASSUME NEW w \in Workers, WorkerLoop(w) PROVE TypeOK' /\ RingInv'
  BY <1>16 DEF WorkerLoop, TypeOK, RingInv, apiVars, queueVars, netVars
<1>17. ASSUME NEW w \in Workers, ConsumeEmpty(w) PROVE TypeOK' /\ RingInv'
  BY <1>17 DEF ConsumeEmpty, InConsume, TypeOK, RingInv, apiVars, queueVars, netVars
<1>18. ASSUME NEW w \in Workers, CondWait(w) PROVE TypeOK' /\ RingInv'
  BY <1>18 DEF CondWait, TypeOK, RingInv, apiVars, queueVars, netVars
<1>19. ASSUME NEW w \in Workers, ConsumeStopped(w) PROVE TypeOK' /\ RingInv'
  BY <1>19 DEF ConsumeStopped, InConsume, TypeOK, RingInv, apiVars, queueVars, netVars
<1>20. ASSUME NEW w \in Workers, ConsumeTake(w) PROVE TypeOK' /\ RingInv'
  <2>1. sq_tail % QSize \in 0..(QSize - 1)
    BY RingIndex, sq_tail \in 0..(2 * QSize) DEF TypeOK
  <2>2. client' \in [Workers -> Conns \cup {NoSock}] /\ sq_empty' \subseteq {Master}
    BY <1>20, <2>1, SignalFacts DEF ConsumeTake, TypeOK
  <2>3. sq_tail' \in 0..QSize /\ sq_head' \in 0..(2 * QSize) /\ RingInv'
    BY <1>20 DEF ConsumeTake, Wrap, TypeOK, RingInv
  <2> QED
    BY <1>20, <2>2, <2>3
       DEF ConsumeTake, TypeOK, apiVars, netVars
<1>21. ASSUME NEW w \in Workers, Process(w) PROVE TypeOK' /\ RingInv'
  BY <1>21 DEF Process, TypeOK, RingInv, apiVars, queueVars, netVars
<1>22. ASSUME NEW w \in Workers, CloseConnection(w) PROVE TypeOK' /\ RingInv'
  <2>1. closed' \subseteq Conns
    BY <1>22 DEF CloseConnection, TypeOK, SockInv
  <2> QED
    BY <1>22, <2>1 DEF CloseConnection, TypeOK, RingInv, apiVars, queueVars, netVars
<1>23. ASSUME NEW w \in Workers, Exit(w) PROVE TypeOK' /\ RingInv'
  BY <1>23 DEF Exit, Signalled, TypeOK, RingInv, apiVars, queueVars, netVars
<1>24. ASSUME NEW c \in Conns, Accept(c) PROVE TypeOK' /\ RingInv'
  BY <1>24 DEF Accept, TypeOK, RingInv, apiVars, queueVars, netVars
<1>25. ASSUME NEW c \in Conns, Connect(c) PROVE TypeOK' /\ RingInv'
  BY <1>25 DEF Connect, TypeOK, RingInv, apiVars, queueVars, netVars
<1>26. CASE UNCHANGED vars
  BY <1>26 DEF vars, TypeOK, RingInv, apiVars, queueVars, netVars
<1>27. QED
  BY <1>1, <1>2, <1>3, <1>4, <1>5, <1>6, <1>7, <1>8, <1>9, <1>10, <1>11, <1>12, <1>13, <1>14, <1>15, <1>16, <1>17, <1>18, <1>19, <1>20, <1>21, <1>22, <1>23, <1>24, <1>25, <1>26
     DEF Next, ApiStep, MasterStep, Environment, WorkerStep

\* Every step keeps the sockets in the pipeline real connections.
LEMMA SockStep ==
    ASSUME TypeOK, RingInv, SockInv, [Next]_vars
    PROVE  SockInv'
<1> USE PoolAssumption
<1>1. CASE BindFails
  BY <1>1 DEF BindFails, TypeOK, RingInv, SockInv, apiVars, queueVars, netVars
<1>2. CASE StartMaster
  BY <1>2 DEF Created, StartMaster, TypeOK, RingInv, SockInv, apiVars, queueVars, netVars
<1>3. CASE CountWorker
  BY <1>3 DEF CountWorker, TypeOK, RingInv, SockInv, apiVars, queueVars, netVars
<1>4. CASE StartReturns
  BY <1>4 DEF StartReturns, TypeOK, RingInv, SockInv, apiVars, queueVars, netVars
<1>5. CASE StopRequest
  BY <1>5 DEF StopRequest, TypeOK, RingInv, SockInv, apiVars, queueVars, netVars
<1>6. CASE StopReturns
  BY <1>6 DEF StopReturns, TypeOK, RingInv, SockInv, apiVars, queueVars, netVars
<1>7. CASE MasterLoop
  BY <1>7 DEF MasterLoop, TypeOK, RingInv, SockInv, apiVars, queueVars, netVars
<1>8. CASE AcceptFails
  BY <1>8 DEF AcceptFails, TypeOK, RingInv, SockInv, apiVars, queueVars, netVars
<1>9. CASE Produce
  <2>1. CASE UNCHANGED queueVars /\ mpc' = "full"
    BY <1>9, <2>1 DEF Produce, QueueFull, SockInv, queueVars, netVars
  <2>2. CASE sq_head - sq_tail < QSize /\ mpc' = "loop"
    <3> accepted \in Conns
      BY <1>9 DEF Produce, QueueFull, SockInv
    <3> /\ queue' = [queue EXCEPT ![sq_head % QSize] = accepted]
       /\ sq_head' = sq_head + 1 /\ sq_tail' = sq_tail
      BY <1>9, <2>2 DEF Produce, QueueFull, queueVars, TypeOK
    <3>1. ASSUME NEW i \in sq_tail'..(sq_head' - 1)
          PROVE  queue'[i % QSize] \in Conns
      <4>1. i \in 0..(2 * QSize) /\ i % QSize \in 0..(QSize - 1)
        BY RingIndex, <2>2 DEF TypeOK, RingInv
      <4>2. CASE i % QSize = sq_head % QSize
        BY <4>1, <4>2 DEF TypeOK
      <4>3. CASE i % QSize # sq_head % QSize
        <5> i \in sq_tail..(sq_head - 1)
          BY <4>3 DEF TypeOK
        <5> QED
          BY <4>1, <4>3 DEF TypeOK, SockInv
      <4> QED
        BY <4>2, <4>3
    <3> QED
      BY <1>9, <2>2, <3>1 DEF Produce, QueueFull, SockInv, netVars
  <2> QED
    BY <1>9, <2>1, <2>2 DEF Produce, QueueFull, TypeOK, queueVars
<1>10. CASE CloseListening
  BY <1>10 DEF CloseListening, TypeOK, RingInv, SockInv, apiVars, queueVars, netVars
<1>11. CASE Broadcast
  BY <1>11 DEF Broadcast, TypeOK, RingInv, SockInv, apiVars, queueVars, netVars
<1>12. CASE Join
  BY <1>12 DEF Join, TypeOK, RingInv, SockInv, apiVars, queueVars, netVars
<1>13. CASE Destroy
  BY <1>13 DEF Destroy, TypeOK, RingInv, SockInv, apiVars, queueVars, netVars
<1>14. CASE SpuriousWakeup
  BY <1>14 DEF SpuriousWakeup, TypeOK, RingInv, SockInv, apiVars, queueVars, netVars
<1>15. ASSUME NEW w \in Workers, StartWorker(w) PROVE SockInv'
  BY <1>15 DEF Created, StartWorker, TypeOK, RingInv, SockInv, apiVars, queueVars, netVars
<1>16. ASSUME NEW w \in Workers, WorkerLoop(w) PROVE SockInv'
  BY <1>16 DEF WorkerLoop, TypeOK, RingInv, SockInv, apiVars, queueVars, netVars
<1>17. ASSUME NEW w \in Workers, ConsumeEmpty(w) PROVE SockInv'
  BY <1>17 DEF ConsumeEmpty, InConsume, TypeOK, RingInv, SockInv, apiVars, queueVars, netVars
<1>18. ASSUME NEW w \in Workers, CondWait(w) PROVE SockInv'
  BY <1>18 DEF CondWait, TypeOK, RingInv, SockInv, apiVars, queueVars, netVars
<1>19. ASSUME NEW w \in Workers, ConsumeStopped(w) PROVE SockInv'
  BY <1>19 DEF ConsumeStopped, InConsume, TypeOK, RingInv, SockInv, apiVars, queueVars, netVars
<1>20. ASSUME NEW w \in Workers, ConsumeTake(w) PROVE SockInv'
  <2>1. /\ queue[sq_tail % QSize] \in Conns
        /\ client' = [client EXCEPT ![w] = queue[sq_tail % QSize]]
    BY <1>20 DEF ConsumeTake, TypeOK, RingInv, SockInv
  <2>2. ASSUME NEW i \in sq_tail'..(sq_head' - 1)
        PROVE  queue'[i % QSize] \in Conns
    <3>1. i + Wrap \in sq_tail..(sq_head - 1)
      BY <1>20 DEF ConsumeTake, TypeOK, RingInv, Wrap
    <3>2. i \in 0..(2 * QSize) /\ i + Wrap \in 0..(2 * QSize)
      BY <1>20, <3>1 DEF ConsumeTake, TypeOK, RingInv, Wrap
    <3>3. i % QSize = (i + Wrap) % QSize
      <4>1. CASE Wrap = 0
        BY <4>1, <3>2
      <4>2. CASE Wrap = QSize
        <5> i < QSize
          BY <4>2, <3>1 DEF TypeOK, RingInv
        <5> QED
          BY <4>2, <3>2, RingIndex
      <4> QED
        BY <4>1, <4>2 DEF Wrap
    <3> QED
      BY <1>20, <3>1, <3>3 DEF ConsumeTake, SockInv
  <2> QED
    BY <1>20, <2>1, <2>2 DEF ConsumeTake, TypeOK, SockInv, netVars
<1>21. ASSUME NEW w \in Workers, Process(w) PROVE SockInv'
  BY <1>21 DEF Process, TypeOK, RingInv, SockInv, apiVars, queueVars, netVars
<1>22. ASSUME NEW w \in Workers, CloseConnection(w) PROVE SockInv'
  BY <1>22 DEF CloseConnection, TypeOK, RingInv, SockInv, apiVars, queueVars, netVars
<1>23. ASSUME NEW w \in Workers, Exit(w) PROVE SockInv'
  BY <1>23 DEF Exit, Signalled, TypeOK, RingInv, SockInv, apiVars, queueVars, netVars
<1>24. ASSUME NEW c \in Conns, Accept(c) PROVE SockInv'
  BY <1>24 DEF Accept, TypeOK, RingInv, SockInv, apiVars, queueVars, netVars
<1>25. ASSUME NEW c \in Conns, Connect(c) PROVE SockInv'
  BY <1>25 DEF Connect, TypeOK, RingInv, SockInv, apiVars, queueVars, netVars
<1>26. CASE UNCHANGED vars
  BY <1>26 DEF vars, TypeOK, RingInv, SockInv, apiVars, queueVars, netVars
<1>27. QED
  BY <1>1, <1>2, <1>3, <1>4, <1>5, <1>6, <1>7, <1>8, <1>9, <1>10, <1>11, <1>12, <1>13, <1>14, <1>15, <1>16, <1>17, <1>18, <1>19, <1>20, <1>21, <1>22, <1>23, <1>24, <1>25, <1>26
     DEF Next, ApiStep, MasterStep, Environment, WorkerStep

\* Every step keeps the phases of mg_start, mg_stop and the threads consistent.
LEMMA PhaseStep ==
    ASSUME TypeOK, PhaseInv, [Next]_vars
    PROVE  PhaseInv'
<1> USE PoolAssumption DEF ApiStates, MasterStates, WorkerStates
<1>1. CASE BindFails
  BY <1>1 DEF BindFails, TypeOK, PhaseInv, apiVars, queueVars, netVars
<1>2. CASE StartMaster
  BY <1>2 DEF Created, StartMaster, TypeOK, PhaseInv, apiVars, queueVars, netVars
<1>3. CASE CountWorker
  BY <1>3 DEF CountWorker, TypeOK, PhaseInv, apiVars, queueVars, netVars
<1>4. CASE StartReturns
  BY <1>4 DEF StartReturns, TypeOK, PhaseInv, apiVars, queueVars, netVars
<1>5. CASE StopRequest
  BY <1>5 DEF StopRequest, TypeOK, PhaseInv, apiVars, queueVars, netVars
<1>6. CASE StopReturns
  BY <1>6 DEF StopReturns, TypeOK, PhaseInv, apiVars, queueVars, netVars
<1>7. CASE MasterLoop
  BY <1>7 DEF MasterLoop, TypeOK, PhaseInv, apiVars, queueVars, netVars
<1>8. CASE AcceptFails
  BY <1>8 DEF AcceptFails, TypeOK, PhaseInv, apiVars, queueVars, netVars
<1>9. CASE Produce
  BY <1>9 DEF Produce, QueueFull, Signalled, TypeOK, PhaseInv, apiVars, queueVars, netVars
<1>10. CASE CloseListening
  BY <1>10 DEF CloseListening, TypeOK, PhaseInv, apiVars, queueVars, netVars
<1>11. CASE Broadcast
  BY <1>11 DEF Broadcast, TypeOK, PhaseInv, apiVars, queueVars, netVars
<1>12. CASE Join
  BY <1>12 DEF Join, TypeOK, PhaseInv, apiVars, queueVars, netVars
<1>13. CASE Destroy
  BY <1>13 DEF Destroy, TypeOK, PhaseInv, apiVars, queueVars, netVars
<1>14. CASE SpuriousWakeup
  BY <1>14 DEF SpuriousWakeup, TypeOK, PhaseInv, apiVars, queueVars, netVars
<1>15. ASSUME NEW w \in Workers, StartWorker(w) PROVE PhaseInv'
  BY <1>15 DEF Created, StartWorker, TypeOK, PhaseInv, apiVars, queueVars, netVars
<1>16. ASSUME NEW w \in Workers, WorkerLoop(w) PROVE PhaseInv'
  BY <1>16 DEF WorkerLoop, TypeOK, PhaseInv, apiVars, queueVars, netVars
<1>17. ASSUME NEW w \in Workers, ConsumeEmpty(w) PROVE PhaseInv'
  BY <1>17 DEF ConsumeEmpty, InConsume, TypeOK, PhaseInv, apiVars, queueVars, netVars
<1>18. ASSUME NEW w \in Workers, CondWait(w) PROVE PhaseInv'
  BY <1>18 DEF CondWait, TypeOK, PhaseInv, apiVars, queueVars, netVars
<1>19. ASSUME NEW w \in Workers, ConsumeStopped(w) PROVE PhaseInv'
  BY <1>19 DEF ConsumeStopped, InConsume, TypeOK, PhaseInv, apiVars, queueVars, netVars
<1>20. ASSUME NEW w \in Workers, ConsumeTake(w) PROVE PhaseInv'
  BY <1>20 DEF ConsumeTake, InConsume, Wrap, Signalled, TypeOK, PhaseInv, apiVars, queueVars, netVars
<1>21. ASSUME NEW w \in Workers, Process(w) PROVE PhaseInv'
  BY <1>21 DEF Process, TypeOK, PhaseInv, apiVars, queueVars, netVars
<1>22. ASSUME NEW w \in Workers, CloseConnection(w) PROVE PhaseInv'
  BY <1>22 DEF CloseConnection, TypeOK, PhaseInv, apiVars, queueVars, netVars
<1>23. ASSUME NEW w \in Workers, Exit(w) PROVE PhaseInv'
  BY <1>23 DEF Exit, Signalled, TypeOK, PhaseInv, apiVars, queueVars, netVars
<1>24. ASSUME NEW c \in Conns, Accept(c) PROVE PhaseInv'
  BY <1>24 DEF Accept, TypeOK, PhaseInv, apiVars, queueVars, netVars
<1>25. ASSUME NEW c \in Conns, Connect(c) PROVE PhaseInv'
  BY <1>25 DEF Connect, TypeOK, PhaseInv, apiVars, queueVars, netVars
<1>26. CASE UNCHANGED vars
  BY <1>26 DEF vars, TypeOK, PhaseInv, apiVars, queueVars, netVars
<1>27. QED
  BY <1>1, <1>2, <1>3, <1>4, <1>5, <1>6, <1>7, <1>8, <1>9, <1>10, <1>11, <1>12, <1>13, <1>14, <1>15, <1>16, <1>17, <1>18, <1>19, <1>20, <1>21, <1>22, <1>23, <1>24, <1>25, <1>26
     DEF Next, ApiStep, MasterStep, Environment, WorkerStep

\* Every step keeps the mutex with a worker that saw an empty queue, and only
\* waiting workers in the wait set.
LEMMA SleepStep ==
    ASSUME TypeOK, PhaseInv, SleepInv, [Next]_vars
    PROVE  SleepInv'
<1> USE PoolAssumption
<1>1. CASE BindFails
  BY <1>1 DEF BindFails, TypeOK, PhaseInv, SleepInv, apiVars, queueVars, netVars
<1>2. CASE StartMaster
  BY <1>2 DEF Created, StartMaster, TypeOK, PhaseInv, SleepInv, apiVars, queueVars, netVars
<1>3. CASE CountWorker
  BY <1>3 DEF CountWorker, TypeOK, PhaseInv, SleepInv, apiVars, queueVars, netVars
<1>4. CASE StartReturns
  BY <1>4 DEF StartReturns, TypeOK, PhaseInv, SleepInv, apiVars, queueVars, netVars
<1>5. CASE StopRequest
  BY <1>5 DEF StopRequest, TypeOK, PhaseInv, SleepInv, apiVars, queueVars, netVars
<1>6. CASE StopReturns
  BY <1>6 DEF StopReturns, TypeOK, PhaseInv, SleepInv, apiVars, queueVars, netVars
<1>7. CASE MasterLoop
  BY <1>7 DEF MasterLoop, TypeOK, PhaseInv, SleepInv, apiVars, queueVars, netVars
<1>8. CASE AcceptFails
  BY <1>8 DEF AcceptFails, TypeOK, PhaseInv, SleepInv, apiVars, queueVars, netVars
<1>9. CASE Produce
  BY <1>9 DEF Produce, QueueFull, Signalled, TypeOK, PhaseInv, SleepInv, apiVars, queueVars, netVars
<1>10. CASE CloseListening
  BY <1>10 DEF CloseListening, TypeOK, PhaseInv, SleepInv, apiVars, queueVars, netVars
<1>11. CASE Broadcast
  BY <1>11 DEF Broadcast, TypeOK, PhaseInv, SleepInv, apiVars, queueVars, netVars
<1>12. CASE Join
  BY <1>12 DEF Join, TypeOK, PhaseInv, SleepInv, apiVars, queueVars, netVars
<1>13. CASE Destroy
  BY <1>13 DEF Destroy, TypeOK, PhaseInv, SleepInv, apiVars, queueVars, netVars
<1>14. CASE SpuriousWakeup
  BY <1>14 DEF SpuriousWakeup, TypeOK, PhaseInv, SleepInv, apiVars, queueVars, netVars
<1>15. ASSUME NEW w \in Workers, StartWorker(w) PROVE SleepInv'
  BY <1>15 DEF Created, StartWorker, TypeOK, PhaseInv, SleepInv, apiVars, queueVars, netVars
<1>16. ASSUME NEW w \in Workers, WorkerLoop(w) PROVE SleepInv'
  BY <1>16 DEF WorkerLoop, TypeOK, PhaseInv, SleepInv, apiVars, queueVars, netVars
<1>17. ASSUME NEW w \in Workers, ConsumeEmpty(w) PROVE SleepInv'
  BY <1>17 DEF ConsumeEmpty, InConsume, TypeOK, PhaseInv, SleepInv, apiVars, queueVars, netVars
<1>18. ASSUME NEW w \in Workers, CondWait(w) PROVE SleepInv'
  BY <1>18 DEF CondWait, TypeOK, PhaseInv, SleepInv, apiVars, queueVars, netVars
<1>19. ASSUME NEW w \in Workers, ConsumeStopped(w) PROVE SleepInv'
  BY <1>19 DEF ConsumeStopped, InConsume, TypeOK, PhaseInv, SleepInv, apiVars, queueVars, netVars
<1>20. ASSUME NEW w \in Workers, ConsumeTake(w) PROVE SleepInv'
  BY <1>20 DEF ConsumeTake, InConsume, Wrap, Signalled, TypeOK, PhaseInv, SleepInv, apiVars, queueVars, netVars
<1>21. ASSUME NEW w \in Workers, Process(w) PROVE SleepInv'
  BY <1>21 DEF Process, TypeOK, PhaseInv, SleepInv, apiVars, queueVars, netVars
<1>22. ASSUME NEW w \in Workers, CloseConnection(w) PROVE SleepInv'
  BY <1>22 DEF CloseConnection, TypeOK, PhaseInv, SleepInv, apiVars, queueVars, netVars
<1>23. ASSUME NEW w \in Workers, Exit(w) PROVE SleepInv'
  BY <1>23 DEF Exit, Signalled, TypeOK, PhaseInv, SleepInv, apiVars, queueVars, netVars
<1>24. ASSUME NEW c \in Conns, Accept(c) PROVE SleepInv'
  BY <1>24 DEF Accept, TypeOK, PhaseInv, SleepInv, apiVars, queueVars, netVars
<1>25. ASSUME NEW c \in Conns, Connect(c) PROVE SleepInv'
  BY <1>25 DEF Connect, TypeOK, PhaseInv, SleepInv, apiVars, queueVars, netVars
<1>26. CASE UNCHANGED vars
  BY <1>26 DEF vars, TypeOK, PhaseInv, SleepInv, apiVars, queueVars, netVars
<1>27. QED
  BY <1>1, <1>2, <1>3, <1>4, <1>5, <1>6, <1>7, <1>8, <1>9, <1>10, <1>11, <1>12, <1>13, <1>14, <1>15, <1>16, <1>17, <1>18, <1>19, <1>20, <1>21, <1>22, <1>23, <1>24, <1>25, <1>26
     DEF Next, ApiStep, MasterStep, Environment, WorkerStep

\* No step leaves a queued connection to sleeping workers only.
LEMMA IdleStep ==
    ASSUME TypeOK, PhaseInv, SleepInv, NoIdleWhilePending, [Next]_vars
    PROVE  NoIdleWhilePending'
<1> USE PoolAssumption
<1>1. CASE BindFails
  BY <1>1 DEF BindFails, TypeOK, SleepInv, NoIdleWhilePending, Started, apiVars, queueVars, netVars
<1>2. CASE StartMaster
  BY <1>2 DEF Created, StartMaster, TypeOK, SleepInv, NoIdleWhilePending, Started, apiVars, queueVars, netVars
<1>3. CASE CountWorker
  BY <1>3 DEF CountWorker, TypeOK, SleepInv, NoIdleWhilePending, Started, apiVars, queueVars, netVars
<1>4. CASE StartReturns
  BY <1>4 DEF StartReturns, TypeOK, SleepInv, NoIdleWhilePending, Started, apiVars, queueVars, netVars
<1>5. CASE StopRequest
  BY <1>5 DEF StopRequest, TypeOK, SleepInv, NoIdleWhilePending, Started, apiVars, queueVars, netVars
<1>6. CASE StopReturns
  BY <1>6 DEF StopReturns, TypeOK, SleepInv, NoIdleWhilePending, Started, apiVars, queueVars, netVars
<1>7. CASE MasterLoop
  BY <1>7 DEF MasterLoop, TypeOK, SleepInv, NoIdleWhilePending, Started, apiVars, queueVars, netVars
<1>8. CASE AcceptFails
  BY <1>8 DEF AcceptFails, TypeOK, SleepInv, NoIdleWhilePending, Started, apiVars, queueVars, netVars
<1>9. CASE Produce
  BY <1>9 DEF Produce, QueueFull, Signalled, TypeOK, SleepInv, NoIdleWhilePending, Started, apiVars, queueVars, netVars
<1>10. CASE CloseListening
  BY <1>10 DEF CloseListening, TypeOK, SleepInv, NoIdleWhilePending, Started, apiVars, queueVars, netVars
<1>11. CASE Broadcast
  BY <1>11 DEF Broadcast, TypeOK, SleepInv, NoIdleWhilePending, Started, apiVars, queueVars, netVars
<1>12. CASE Join
  BY <1>12 DEF Join, TypeOK, SleepInv, NoIdleWhilePending, Started, apiVars, queueVars, netVars
<1>13. CASE Destroy
  BY <1>13 DEF Destroy, TypeOK, SleepInv, NoIdleWhilePending, Started, apiVars, queueVars, netVars
<1>14. CASE SpuriousWakeup
  BY <1>14 DEF SpuriousWakeup, TypeOK, SleepInv, NoIdleWhilePending, Started, apiVars, queueVars, netVars
<1>15. ASSUME NEW w \in Workers, StartWorker(w) PROVE NoIdleWhilePending'
  BY <1>15 DEF Created, StartWorker, TypeOK, SleepInv, NoIdleWhilePending, Started, apiVars, queueVars, netVars
<1>16. ASSUME NEW w \in Workers, WorkerLoop(w) PROVE NoIdleWhilePending'
  BY <1>16 DEF WorkerLoop, TypeOK, SleepInv, NoIdleWhilePending, Started, apiVars, queueVars, netVars
<1>17. ASSUME NEW w \in Workers, ConsumeEmpty(w) PROVE NoIdleWhilePending'
  BY <1>17 DEF ConsumeEmpty, InConsume, TypeOK, SleepInv, NoIdleWhilePending, Started, apiVars, queueVars, netVars
<1>18. ASSUME NEW w \in Workers, CondWait(w) PROVE NoIdleWhilePending'
  BY <1>18 DEF CondWait, TypeOK, SleepInv, NoIdleWhilePending, Started, apiVars, queueVars, netVars
<1>19. ASSUME NEW w \in Workers, ConsumeStopped(w) PROVE NoIdleWhilePending'
  BY <1>19 DEF ConsumeStopped, InConsume, TypeOK, SleepInv, NoIdleWhilePending, Started, apiVars, queueVars, netVars
<1>20. ASSUME NEW w \in Workers, ConsumeTake(w) PROVE NoIdleWhilePending'
  BY <1>20 DEF ConsumeTake, InConsume, Wrap, Signalled, TypeOK, SleepInv, NoIdleWhilePending, Started, apiVars, queueVars, netVars
<1>21. ASSUME NEW w \in Workers, Process(w) PROVE NoIdleWhilePending'
  BY <1>21 DEF Process, TypeOK, SleepInv, NoIdleWhilePending, Started, apiVars, queueVars, netVars
<1>22. ASSUME NEW w \in Workers, CloseConnection(w) PROVE NoIdleWhilePending'
  BY <1>22 DEF CloseConnection, TypeOK, SleepInv, NoIdleWhilePending, Started, apiVars, queueVars, netVars
<1>23. ASSUME NEW w \in Workers, Exit(w) PROVE NoIdleWhilePending'
  BY <1>23 DEF Exit, Signalled, TypeOK, SleepInv, NoIdleWhilePending, Started, apiVars, queueVars, netVars
<1>24. ASSUME NEW c \in Conns, Accept(c) PROVE NoIdleWhilePending'
  BY <1>24 DEF Accept, TypeOK, SleepInv, NoIdleWhilePending, Started, apiVars, queueVars, netVars
<1>25. ASSUME NEW c \in Conns, Connect(c) PROVE NoIdleWhilePending'
  BY <1>25 DEF Connect, TypeOK, SleepInv, NoIdleWhilePending, Started, apiVars, queueVars, netVars
<1>26. CASE UNCHANGED vars
  BY <1>26 DEF vars, TypeOK, SleepInv, NoIdleWhilePending, Started, apiVars, queueVars, netVars
<1>27. QED
  BY <1>1, <1>2, <1>3, <1>4, <1>5, <1>6, <1>7, <1>8, <1>9, <1>10, <1>11, <1>12, <1>13, <1>14, <1>15, <1>16, <1>17, <1>18, <1>19, <1>20, <1>21, <1>22, <1>23, <1>24, <1>25, <1>26
     DEF Next, ApiStep, MasterStep, Environment, WorkerStep

\* No step leaves the master asleep on sq_empty with room in the queue.
LEMMA FullStep ==
    ASSUME TypeOK, RingInv, MasterWaitsOnlyWhenFull, [Next]_vars
    PROVE  MasterWaitsOnlyWhenFull'
<1> USE PoolAssumption
<1>1. CASE BindFails
  BY <1>1 DEF BindFails, TypeOK, RingInv, MasterWaitsOnlyWhenFull, apiVars, queueVars, netVars
<1>2. CASE StartMaster
  BY <1>2 DEF Created, StartMaster, TypeOK, RingInv, MasterWaitsOnlyWhenFull, apiVars, queueVars, netVars
<1>3. CASE CountWorker
  BY <1>3 DEF CountWorker, TypeOK, RingInv, MasterWaitsOnlyWhenFull, apiVars, queueVars, netVars
<1>4. CASE StartReturns
  BY <1>4 DEF StartReturns, TypeOK, RingInv, MasterWaitsOnlyWhenFull, apiVars, queueVars, netVars
<1>5. CASE StopRequest
  BY <1>5 DEF StopRequest, TypeOK, RingInv, MasterWaitsOnlyWhenFull, apiVars, queueVars, netVars
<1>6. CASE StopReturns
  BY <1>6 DEF StopReturns, TypeOK, RingInv, MasterWaitsOnlyWhenFull, apiVars, queueVars, netVars
<1>7. CASE MasterLoop
  BY <1>7 DEF MasterLoop, TypeOK, RingInv, MasterWaitsOnlyWhenFull, apiVars, queueVars, netVars
<1>8. CASE AcceptFails
  BY <1>8 DEF AcceptFails, TypeOK, RingInv, MasterWaitsOnlyWhenFull, apiVars, queueVars, netVars
<1>9. CASE Produce
  <2>1. sq_head \in Int /\ sq_tail \in Int /\ QSize \in Int
    BY DEF TypeOK
  <2>2. CASE QueueFull /\ UNCHANGED queueVars
    <3>1. sq_head - sq_tail = QSize
      BY <2>1, <2>2 DEF QueueFull, RingInv
    <3> QED
      BY <2>2, <3>1 DEF queueVars, MasterWaitsOnlyWhenFull
  <2>3. CASE ~QueueFull /\ UNCHANGED sq_empty
    BY <2>1, <2>3 DEF QueueFull, MasterWaitsOnlyWhenFull
  <2> QED
    BY <1>9, <2>2, <2>3 DEF Produce
<1>10. CASE CloseListening
  BY <1>10 DEF CloseListening, TypeOK, RingInv, MasterWaitsOnlyWhenFull, apiVars, queueVars, netVars
<1>11. CASE Broadcast
  BY <1>11 DEF Broadcast, TypeOK, RingInv, MasterWaitsOnlyWhenFull, apiVars, queueVars, netVars
<1>12. CASE Join
  BY <1>12 DEF Join, TypeOK, RingInv, MasterWaitsOnlyWhenFull, apiVars, queueVars, netVars
<1>13. CASE Destroy
  BY <1>13 DEF Destroy, TypeOK, RingInv, MasterWaitsOnlyWhenFull, apiVars, queueVars, netVars
<1>14. CASE SpuriousWakeup
  BY <1>14 DEF SpuriousWakeup, TypeOK, RingInv, MasterWaitsOnlyWhenFull, apiVars, queueVars, netVars
<1>15. ASSUME NEW w \in Workers, StartWorker(w) PROVE MasterWaitsOnlyWhenFull'
  BY <1>15 DEF Created, StartWorker, TypeOK, RingInv, MasterWaitsOnlyWhenFull, apiVars, queueVars, netVars
<1>16. ASSUME NEW w \in Workers, WorkerLoop(w) PROVE MasterWaitsOnlyWhenFull'
  BY <1>16 DEF WorkerLoop, TypeOK, RingInv, MasterWaitsOnlyWhenFull, apiVars, queueVars, netVars
<1>17. ASSUME NEW w \in Workers, ConsumeEmpty(w) PROVE MasterWaitsOnlyWhenFull'
  BY <1>17 DEF ConsumeEmpty, InConsume, TypeOK, RingInv, MasterWaitsOnlyWhenFull, apiVars, queueVars, netVars
<1>18. ASSUME NEW w \in Workers, CondWait(w) PROVE MasterWaitsOnlyWhenFull'
  BY <1>18 DEF CondWait, TypeOK, RingInv, MasterWaitsOnlyWhenFull, apiVars, queueVars, netVars
<1>19. ASSUME NEW w \in Workers, ConsumeStopped(w) PROVE MasterWaitsOnlyWhenFull'
  BY <1>19 DEF ConsumeStopped, InConsume, TypeOK, RingInv, MasterWaitsOnlyWhenFull, apiVars, queueVars, netVars
<1>20. ASSUME NEW w \in Workers, ConsumeTake(w) PROVE MasterWaitsOnlyWhenFull'
  BY <1>20 DEF ConsumeTake, InConsume, Wrap, Signalled, TypeOK, RingInv, MasterWaitsOnlyWhenFull, apiVars, queueVars, netVars
<1>21. ASSUME NEW w \in Workers, Process(w) PROVE MasterWaitsOnlyWhenFull'
  BY <1>21 DEF Process, TypeOK, RingInv, MasterWaitsOnlyWhenFull, apiVars, queueVars, netVars
<1>22. ASSUME NEW w \in Workers, CloseConnection(w) PROVE MasterWaitsOnlyWhenFull'
  BY <1>22 DEF CloseConnection, TypeOK, RingInv, MasterWaitsOnlyWhenFull, apiVars, queueVars, netVars
<1>23. ASSUME NEW w \in Workers, Exit(w) PROVE MasterWaitsOnlyWhenFull'
  BY <1>23 DEF Exit, Signalled, TypeOK, RingInv, MasterWaitsOnlyWhenFull, apiVars, queueVars, netVars
<1>24. ASSUME NEW c \in Conns, Accept(c) PROVE MasterWaitsOnlyWhenFull'
  BY <1>24 DEF Accept, TypeOK, RingInv, MasterWaitsOnlyWhenFull, apiVars, queueVars, netVars
<1>25. ASSUME NEW c \in Conns, Connect(c) PROVE MasterWaitsOnlyWhenFull'
  BY <1>25 DEF Connect, TypeOK, RingInv, MasterWaitsOnlyWhenFull, apiVars, queueVars, netVars
<1>26. CASE UNCHANGED vars
  BY <1>26 DEF vars, TypeOK, RingInv, MasterWaitsOnlyWhenFull, apiVars, queueVars, netVars
<1>27. QED
  BY <1>1, <1>2, <1>3, <1>4, <1>5, <1>6, <1>7, <1>8, <1>9, <1>10, <1>11, <1>12, <1>13, <1>14, <1>15, <1>16, <1>17, <1>18, <1>19, <1>20, <1>21, <1>22, <1>23, <1>24, <1>25, <1>26
     DEF Next, ApiStep, MasterStep, Environment, WorkerStep

\* Every step keeps num_threads equal to the number of live workers, the one
\* that mg_start is about to count excepted.
LEMMA CountStep ==
    ASSUME TypeOK, PhaseInv, CountInv, [Next]_vars
    PROVE  CountInv'
<1> USE PoolAssumption
<1> DEFINE Same == /\ Live' = Live /\ num_threads' = num_threads
                   /\ api' = "count" <=> api = "count"
<1>a. IsFiniteSet(Live) /\ Cardinality(Live) \in Nat
  BY FS_Subset, FS_CardinalityType DEF Live, Started
<1>b. ASSUME Same PROVE CountInv'
  BY <1>b DEF CountInv
<1>c. CASE CountWorker
  <2> Live' = Live /\ api' = "spawn" /\ api = "count" /\ num_threads' = num_threads + 1
    BY <1>c DEF CountWorker, Live, Started
  <2> QED
    BY <1>a DEF CountInv
<1>d. ASSUME NEW w \in Workers, StartWorker(w) PROVE CountInv'
  <2>1. CASE wpc' = [wpc EXCEPT ![w] = "failed"] /\ api' = api
    <3> Same
      BY <1>d, <2>1 DEF Created, StartWorker, TypeOK, Live, Started
    <3> QED
      BY <1>b
  <2>2. CASE wpc' = [wpc EXCEPT ![w] = "loop"] /\ api' = "count"
    <3>1. w \notin Live /\ Live' = Live \cup {w}
      BY <1>d, <2>2 DEF Created, StartWorker, TypeOK, Live, Started
    <3>2. Cardinality(Live') = Cardinality(Live) + 1
      BY <1>a, <3>1, FS_AddElement
    <3> QED
      BY <1>a, <1>d, <2>2, <3>1, <3>2 DEF Created, StartWorker, CountInv
  <2> QED
    BY <1>d, <2>1, <2>2 DEF Created, StartWorker
<1>e. ASSUME NEW w \in Workers, Exit(w) PROVE CountInv'
  <2>1. w \in Live /\ Live' = Live \ {w}
    BY <1>e DEF Exit, TypeOK, Live, Started
  <2>2. Cardinality(Live') = Cardinality(Live) - 1
    BY <1>a, <2>1, FS_RemoveElement
  <2>3. api # "count" /\ api' = api
    BY <1>e DEF Exit, PhaseInv, apiVars
  <2> QED
    BY <1>a, <1>e, <2>2, <2>3 DEF Exit, CountInv
<1>f. ASSUME ~CountWorker, \A w \in Workers : ~StartWorker(w) /\ ~Exit(w)
      PROVE  Same
  <2>1. CASE UNCHANGED <<wpc, num_threads, api>>
    BY <2>1 DEF Live, Started
  <2>2. CASE BindFails \/ StartMaster \/ StartReturns \/ StopRequest \/ StopReturns
    BY <2>2 DEF Created, BindFails, StartMaster, StartReturns, StopRequest, StopReturns,
                Live, Started
  <2>3. ASSUME NEW w \in Workers, WorkerStep(w) PROVE Same
    BY <1>f, <2>3 DEF WorkerStep, WorkerLoop, ConsumeEmpty, CondWait, ConsumeStopped,
                ConsumeTake, InConsume, Process, CloseConnection, Live, Started,
                TypeOK, apiVars
  <2>4. CASE MasterStep \/ Environment
    <3> UNCHANGED <<wpc, num_threads, api>>
      BY <2>4 DEF MasterStep, MasterLoop, AcceptFails, Produce, CloseListening,
                  Broadcast, Join, Destroy, Accept, Environment, SpuriousWakeup,
                  Connect, apiVars
    <3> QED
      BY <2>1
  <2>5. CASE UNCHANGED vars
    BY <2>1, <2>5 DEF vars
  <2> QED
    BY <1>f, <2>2, <2>3, <2>4, <2>5 DEF Next, ApiStep
<1> QED
  BY <1>b, <1>c, <1>d, <1>e, <1>f

-----------------------------------------------------------------------------
\* The inductive invariant holds before mg_start is called.
LEMMA InitInv == Init => Inv
<1> SUFFICES ASSUME Init PROVE Inv
  OBVIOUS
<1> USE PoolAssumption DEF Init
<1>1. TypeOK /\ RingInv
  <2>1. sq_tail \in 0..QSize /\ sq_head \in 0..(2 * QSize) /\ RingInv
    BY DEF RingInv
  <2>2. /\ queue \in [0..(QSize - 1) -> Conns \cup {NoSock}]
        /\ wpc \in [Workers -> WorkerStates]
        /\ client \in [Workers -> Conns \cup {NoSock}]
    BY DEF WorkerStates
  <2>3. stop_flag \in 0..2 /\ num_threads \in Int /\ spurious \in 0..MaxSpurious
    OBVIOUS
  <2> QED
    BY <2>1, <2>2, <2>3 DEF TypeOK, ApiStates, MasterStates
<1>4. SockInv
  BY DEF SockInv
<1>5. PhaseInv
  BY DEF PhaseInv
<1>2. SleepInv /\ NoIdleWhilePending /\ MasterWaitsOnlyWhenFull
  BY DEF SleepInv, NoIdleWhilePending, MasterWaitsOnlyWhenFull
<1>3. CountInv
  <2> Live = {}
    BY DEF Live, Started
  <2> QED
    BY FS_EmptySet DEF CountInv
<1> QED
  BY <1>1, <1>2, <1>3, <1>4, <1>5 DEF Inv

\* The inductive invariant holds in every reachable state of the pool.
THEOREM PoolInvariant == Spec => []Inv
<1>1. Inv /\ [Next]_vars => Inv'
  BY TypeStep, SockStep, PhaseStep, SleepStep, CountStep, IdleStep, FullStep DEF Inv
<1> QED
  BY InitInv, <1>1, PTL DEF Spec

\* The types of the variables of the thread pool, the ranges of the ring
\* pointers among them, are invariant whatever the number of threads and slots.
THEOREM PoolTypes == Spec => []TypeOK
<1>1. Inv => TypeOK
  BY DEF Inv
<1> QED
  BY <1>1, PoolInvariant, PTL

\* mg_stop frees the context only when no worker and no master can touch it.
THEOREM FreeAfterJoin == Spec => []NoUseAfterFree
<1>1. ASSUME Inv PROVE NoUseAfterFree
  <2> SUFFICES ASSUME ctx = "freed" PROVE Live = {} /\ mpc \in {"done", "none", "failed"}
    BY DEF NoUseAfterFree
  <2> USE <1>1 DEF Inv
  <2>1. mpc = "done" /\ num_threads <= 0 /\ api # "count"
    BY DEF PhaseInv
  <2>2. IsFiniteSet(Live) /\ Cardinality(Live) \in Nat
    BY PoolAssumption, FS_Subset, FS_CardinalityType DEF Live, Started
  <2>3. Cardinality(Live) = 0
    BY <2>1, <2>2 DEF CountInv
  <2> QED
    BY <2>1, <2>2, <2>3, FS_EmptySet
<1> QED
  BY <1>1, PoolInvariant, PTL

\* num_threads counts the live workers exactly and is never negative, which is
\* the assertion in worker_thread.
THEOREM CountExact == Spec => []ThreadCount
<1>1. ASSUME Inv PROVE ThreadCount
  <2> IsFiniteSet(Live) /\ Cardinality(Live) \in Nat
    BY PoolAssumption, FS_Subset, FS_CardinalityType DEF Live, Started
  <2> api = "count" => Cardinality(Live) # 0
    BY <1>1, FS_EmptySet DEF Inv, CountInv
  <2> QED
    BY <1>1 DEF Inv, CountInv, ThreadCount
<1> QED
  BY <1>1, PoolInvariant, PTL

\* No wakeup is lost between the producer and the consumers: queued work finds
\* a worker awake, and the master sleeps on a full queue only.
THEOREM NoLostWakeup == Spec => []NobodySleepsForNothing
<1>1. Inv => NobodySleepsForNothing
  BY DEF Inv, NobodySleepsForNothing
<1> QED
  BY <1>1, PoolInvariant, PTL

-----------------------------------------------------------------------------
(* The pool implements ConnPipeline: the ring buffer with its two wrapping *)
(* pointers, filled by the master and emptied by the workers, is a bounded *)
(* first-in first-out queue of connections, for every size.                *)

\* The ring buffer read from tail to head is a sequence of connections.
LEMMA WaitingSeq ==
    TypeOK /\ RingInv /\ SockInv =>
        Waiting \in Seq(Conns) /\ Len(Waiting) = sq_head - sq_tail
<1> SUFFICES ASSUME TypeOK, RingInv, SockInv
             PROVE  Waiting \in Seq(Conns) /\ Len(Waiting) = sq_head - sq_tail
  OBVIOUS
<1> USE PoolAssumption
<1>1. ASSUME NEW i \in 1..(sq_head - sq_tail)
      PROVE  queue[(sq_tail + i - 1) % QSize] \in Conns
  <2> sq_tail + i - 1 \in sq_tail..(sq_head - 1)
    BY DEF TypeOK, RingInv
  <2> QED
    BY DEF SockInv
<1>2. sq_head - sq_tail \in Nat
  BY DEF TypeOK, RingInv
<1> QED
  BY <1>1, <1>2 DEF Waiting

\* produce_socket appends the accepted connection to the abstract queue.
LEMMA ProduceAppends ==
    ASSUME TypeOK, RingInv, SockInv, TypeOK', RingInv', SockInv', Produce,
           mpc' = "loop"
    PROVE  Waiting' = Append(Waiting, accepted) /\ Len(Waiting) < QSize
<1> USE PoolAssumption
<1> DEFINE n == sq_head - sq_tail
<1>1. /\ n \in Nat /\ n < QSize /\ sq_tail' = sq_tail /\ sq_head' = sq_head + 1
      /\ queue' = [queue EXCEPT ![sq_head % QSize] = accepted]
      /\ accepted \in Conns
  BY DEF Produce, QueueFull, TypeOK, RingInv, SockInv
<1>2. /\ Waiting \in Seq(Conns) /\ Len(Waiting) = n
      /\ Waiting' \in Seq(Conns) /\ Len(Waiting') = n + 1
  <2>1. Waiting \in Seq(Conns) /\ Len(Waiting) = n
    BY WaitingSeq
  <2>2. (Waiting \in Seq(Conns) /\ Len(Waiting) = sq_head - sq_tail)'
    BY WaitingSeq, PTL
  <2> QED
    BY <1>1, <2>1, <2>2 DEF TypeOK
<1>3. ASSUME NEW i \in 1..(n + 1) PROVE Waiting'[i] = Append(Waiting, accepted)[i]
  <2>0. /\ sq_tail + i - 1 \in 0..(2 * QSize) /\ sq_head \in 0..(2 * QSize)
        /\ sq_tail \in 0..QSize
    BY <1>1 DEF TypeOK, RingInv
  <2>1. Waiting'[i] = queue'[(sq_tail + i - 1) % QSize]
    BY <1>1 DEF Waiting, TypeOK
  <2>2. CASE i = n + 1
    <3> sq_tail + i - 1 = sq_head
      BY <2>2, <2>0
    <3> sq_head % QSize \in 0..(QSize - 1)
      BY <2>0, RingIndex
    <3> Waiting'[i] = accepted
      BY <1>1, <2>1 DEF TypeOK
    <3> QED
      BY <1>2, <2>2, AppendProperties, <1>1
  <2>3. CASE i \in 1..n
    <3>1. (sq_tail + i - 1) % QSize # sq_head % QSize
      <4> sq_tail + i - 1 < sq_head /\ sq_head < sq_tail + i - 1 + QSize
        BY <1>1, <2>0, <2>3
      <4> QED
        BY <2>0, RingIndex
    <3>2. (sq_tail + i - 1) % QSize \in 0..(QSize - 1)
      BY <2>0, RingIndex
    <3>3. Waiting'[i] = Waiting[i]
      BY <1>1, <2>1, <2>3, <3>1, <3>2 DEF Waiting, TypeOK
    <3> QED
      BY <1>1, <1>2, <2>3, <3>3, AppendProperties
  <2>4. i = n + 1 \/ i \in 1..n
    BY <1>1
  <2> QED
    BY <2>2, <2>3, <2>4
<1>4. Append(Waiting, accepted) \in Seq(Conns) /\ Len(Append(Waiting, accepted)) = n + 1
  BY <1>1, <1>2, AppendProperties
<1> QED
  BY <1>1, <1>2, <1>3, <1>4, SeqEqual

\* consume_socket takes the first connection of the abstract queue, whether or
\* not it wraps the pointers.
LEMMA TakeRemovesHead ==
    ASSUME TypeOK, RingInv, SockInv, TypeOK', RingInv', SockInv',
           NEW w \in Workers, ConsumeTake(w)
    PROVE  /\ Waiting # << >>
           /\ client' = [client EXCEPT ![w] = Head(Waiting)]
           /\ Waiting' = Tail(Waiting)
<1> USE PoolAssumption
<1> DEFINE n == sq_head - sq_tail
<1>1. /\ n \in Nat \ {0} /\ n <= QSize /\ sq_head' - sq_tail' = n - 1
      /\ sq_tail \in 0..QSize /\ sq_tail' = sq_tail + 1 - Wrap /\ queue' = queue
      /\ Wrap \in {0, QSize} /\ (Wrap = QSize <=> sq_tail = QSize)
  BY DEF ConsumeTake, TypeOK, RingInv, Wrap
<1>2. /\ Waiting \in Seq(Conns) /\ Len(Waiting) = n
      /\ Waiting' \in Seq(Conns) /\ Len(Waiting') = n - 1
  <2>1. Waiting \in Seq(Conns) /\ Len(Waiting) = n
    BY WaitingSeq
  <2>2. (Waiting \in Seq(Conns) /\ Len(Waiting) = sq_head - sq_tail)'
    BY WaitingSeq, PTL
  <2> QED
    BY <1>1, <2>1, <2>2
<1>3. Waiting # << >>
  BY <1>1, <1>2, EmptySeq
<1>4. Head(Waiting) = queue[sq_tail % QSize]
  <2>1. Head(Waiting) = Waiting[1]
    BY <1>2, <1>3
  <2>2. Waiting[1] = queue[(sq_tail + 1 - 1) % QSize]
    BY <1>1 DEF Waiting, TypeOK
  <2>3. sq_tail + 1 - 1 = sq_tail
    BY <1>1
  <2> QED
    BY <2>1, <2>2, <2>3
<1>5. /\ Tail(Waiting) \in Seq(Conns) /\ Len(Tail(Waiting)) = n - 1
      /\ \A i \in 1..(n - 1) : Tail(Waiting)[i] = Waiting[i + 1]
  BY <1>2, <1>3, HeadTailProperties
<1>6. ASSUME NEW i \in 1..(n - 1) PROVE Waiting'[i] = Tail(Waiting)[i]
  <2> DEFINE a == sq_tail + (i + 1) - 1
             b == sq_tail' + i - 1
  <2>1. Waiting[i + 1] = queue[a % QSize]
    BY <1>1 DEF Waiting, TypeOK
  <2>2. Waiting'[i] = queue[b % QSize]
    BY <1>1 DEF Waiting
  <2>3. a % QSize = b % QSize
    <3>1. CASE Wrap = 0
      <4> a = b
        BY <1>1, <3>1
      <4> QED
        OBVIOUS
    <3>2. CASE Wrap = QSize
      <4> a \in 0..(2 * QSize) /\ b = a - QSize /\ b \in 0..(QSize - 1)
        BY <1>1, <3>2
      <4> a >= QSize /\ a < 2 * QSize /\ b \in 0..(2 * QSize)
        BY <1>1, <3>2
      <4>1. a % QSize = a - QSize
        BY RingIndex
      <4>2. b % QSize = b
        BY RingIndex
      <4> QED
        BY <4>1, <4>2
    <3> QED
      BY <1>1, <3>1, <3>2
  <2> QED
    BY <1>5, <2>1, <2>2, <2>3
<1> QED
  BY <1>2, <1>3, <1>4, <1>5, <1>6, SeqEqual DEF ConsumeTake

-----------------------------------------------------------------------------
\* The initial state of the pool is the initial state of the pipeline.
LEMMA RefinesInit == Init => Pipeline!Init
<1> SUFFICES ASSUME Init PROVE Pipeline!Init
  OBVIOUS
<1>1. Waiting = << >>
  <2>1. Waiting \in Seq(Conns) /\ Len(Waiting) = sq_head - sq_tail
    BY InitInv, WaitingSeq DEF Inv
  <2> QED
    BY <2>1, EmptySeq DEF Init
<1>2. Serving = [w \in Workers |-> NoSock] /\ Held = NoSock
  BY DEF Init, Serving, Held
<1> QED
  BY <1>1, <1>2 DEF Init, Pipeline!Init

\* A step that touches none of the mapped state is a stutter of the pipeline.
LEMMA PipelineStutter ==
    ASSUME UNCHANGED <<queueVars, arriving \cup backlog \cup reset, Serving, Held, closed>>
    PROVE  UNCHANGED Pipeline!vars
  BY DEF queueVars, Waiting, Pipeline!vars

\* Every step of the pool is a step of the pipeline or a stutter.
LEMMA RefinesNext ==
    ASSUME Inv, Inv', [Next]_vars
    PROVE  [Pipeline!Next]_Pipeline!vars
<1> USE PoolAssumption
<1> DEFINE Goal == [Pipeline!Next]_Pipeline!vars
           Outside == arriving \cup backlog \cup reset
<1>1. ASSUME UNCHANGED <<queueVars, Outside, Serving, Held, closed>> PROVE Goal
  BY <1>1, PipelineStutter
<1>2. ASSUME NEW c \in Conns, Accept(c) PROVE Goal
  <2>1. /\ Held = NoSock /\ Held' = c /\ c \in Outside /\ Outside' = Outside \ {c}
        /\ UNCHANGED <<Serving, closed>>
    BY <1>2 DEF Accept, Held, Serving, Inv, TypeOK, SockInv
  <2>2. Waiting' = Waiting
    BY <1>2 DEF Accept, Waiting, queueVars
  <2> QED
    BY <2>1, <2>2 DEF Pipeline!Next, Pipeline!Accept
<1>3. CASE Produce
  <2>1. CASE mpc' = "loop"
    <3>1. Waiting' = Append(Waiting, Held) /\ Len(Waiting) < QSize
      BY <1>3, <2>1, ProduceAppends DEF Inv, Produce, Held
    <3>2. Held # NoSock /\ Held' = NoSock /\ UNCHANGED <<Outside, Serving, closed>>
      BY <1>3, <2>1 DEF Produce, QueueFull, Held, Serving, Inv, SockInv, netVars
    <3> QED
      BY <3>1, <3>2 DEF Pipeline!Next, Pipeline!Enqueue
  <2>2. CASE mpc' = "full"
    BY <1>1, <1>3, <2>2 DEF Produce, QueueFull, Held, Serving, netVars
  <2> QED
    BY <1>3, <2>1, <2>2 DEF Produce
<1>4. ASSUME NEW w \in Workers, ConsumeTake(w) PROVE Goal
  <2>1. /\ Waiting # << >> /\ Waiting' = Tail(Waiting)
        /\ client' = [client EXCEPT ![w] = Head(Waiting)]
    BY <1>4, TakeRemovesHead DEF Inv
  <2>2. /\ Serving[w] = NoSock /\ Serving' = [Serving EXCEPT ![w] = Head(Waiting)]
        /\ UNCHANGED <<Outside, Held, closed>>
    BY <1>4, <2>1 DEF ConsumeTake, InConsume, Serving, Held, Inv, TypeOK, netVars
  <2> QED
    BY <2>1, <2>2 DEF Pipeline!Next, Pipeline!Dequeue
<1>5. ASSUME NEW w \in Workers, CloseConnection(w) PROVE Goal
  <2>1. /\ Serving[w] # NoSock /\ closed' = closed \cup {Serving[w]}
        /\ Serving' = [Serving EXCEPT ![w] = NoSock] /\ UNCHANGED <<Outside, Held>>
    BY <1>5 DEF CloseConnection, Serving, Held, Inv, TypeOK, SockInv, netVars
  <2>2. Waiting' = Waiting
    BY <1>5 DEF CloseConnection, Waiting, queueVars
  <2> QED
    BY <2>1, <2>2 DEF Pipeline!Next, Pipeline!Close
<1>6. ASSUME NEW w \in Workers, WorkerStep(w), ~ConsumeTake(w), ~CloseConnection(w)
      PROVE  Goal
  <2> UNCHANGED <<queueVars, Outside, Serving, Held, closed>>
    BY <1>6 DEF WorkerStep, WorkerLoop, ConsumeEmpty, CondWait, ConsumeStopped,
                InConsume, Process, Exit, Serving, Held, Inv, TypeOK, netVars
  <2> QED
    BY <1>1
<1>7. ASSUME MasterStep, ~Produce, \A c \in Conns : ~Accept(c) PROVE Goal
  <2> UNCHANGED <<queueVars, Outside, Serving, Held, closed>>
    BY <1>7 DEF MasterStep, MasterLoop, AcceptFails, CloseListening, Broadcast,
                Join, Destroy, Serving, Held, netVars
  <2> QED
    BY <1>1
<1>8. CASE ApiStep \/ StopRequest
  <2> UNCHANGED <<queueVars, Outside, Serving, Held, closed>>
    BY <1>8 DEF Created, ApiStep, BindFails, StartMaster, CountWorker, StartReturns,
                StopReturns, StartWorker, StopRequest, Serving, Held, Inv, TypeOK,
                PhaseInv, netVars
  <2> QED
    BY <1>1
<1>9. CASE Environment
  <2> UNCHANGED <<queueVars, Outside, Serving, Held, closed>>
    BY <1>9 DEF Environment, SpuriousWakeup, Connect, Serving, Held, netVars
  <2> QED
    BY <1>1
<1>10. CASE UNCHANGED vars
  BY <1>1, <1>10 DEF vars, queueVars, Serving, Held
<1> QED
  BY <1>2, <1>3, <1>4, <1>5, <1>6, <1>7, <1>8, <1>9, <1>10 DEF Next

\* mongoose's accept queue implements the abstract connection pipeline: first in
\* first out, bounded by the array, every accepted connection to one worker.
THEOREM PoolImplementsPipeline == Spec => PipelineSpec
<1>1. Inv /\ Inv' /\ [Next]_vars => [Pipeline!Next]_Pipeline!vars
  BY RefinesNext
<1> QED
  BY RefinesInit, PoolInvariant, <1>1, PTL DEF Spec, PipelineSpec, Pipeline!Spec
=============================================================================
