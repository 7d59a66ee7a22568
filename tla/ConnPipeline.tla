---------------------------- MODULE ConnPipeline ----------------------------
(***************************************************************************)
(* What the accept side of the embedded web server promises: a connection  *)
(* is accepted at most once, waits in a queue of at most Capacity          *)
(* connections, leaves it in the order of acceptance, is handled by        *)
(* exactly one worker and is then closed.  Nothing is duplicated,          *)
(* reordered or dropped on the way.  MgPool implements this specification. *)
(***************************************************************************)
EXTENDS Naturals, Sequences

CONSTANTS
    Workers,    \* the worker threads
    Conns,      \* the client connections
    Capacity,   \* how many accepted connections may wait for a worker
    NoSock      \* no connection

VARIABLES
    outside,    \* connections that have not been accepted
    held,       \* the connection accepted and not yet queued, or NoSock
    waiting,    \* the queue of accepted connections
    serving,    \* serving[w]: the connection worker w handles, or NoSock
    closed      \* connections that were handled and closed

vars == <<outside, held, waiting, serving, closed>>

Init == /\ outside = Conns
        /\ held = NoSock
        /\ waiting = << >>
        /\ serving = [w \in Workers |-> NoSock]
        /\ closed = {}

Accept(c) == /\ held = NoSock
             /\ c \in outside
             /\ outside' = outside \ {c}
             /\ held' = c
             /\ UNCHANGED <<waiting, serving, closed>>

Enqueue == /\ held # NoSock
           /\ Len(waiting) < Capacity
           /\ waiting' = Append(waiting, held)
           /\ held' = NoSock
           /\ UNCHANGED <<outside, serving, closed>>

Dequeue(w) == /\ serving[w] = NoSock
              /\ waiting # << >>
              /\ serving' = [serving EXCEPT ![w] = Head(waiting)]
              /\ waiting' = Tail(waiting)
              /\ UNCHANGED <<outside, held, closed>>

Close(w) == /\ serving[w] # NoSock
            /\ closed' = closed \cup {serving[w]}
            /\ serving' = [serving EXCEPT ![w] = NoSock]
            /\ UNCHANGED <<outside, held, waiting>>

Next == \/ \E c \in Conns : Accept(c)
        \/ Enqueue
        \/ \E w \in Workers : Dequeue(w) \/ Close(w)

Spec == Init /\ [][Next]_vars
=============================================================================
