----------------------------- MODULE AppProcess -----------------------------
(***************************************************************************)
(* The reference callbacks on Linux (main.c, nf_callbacks.c) and the       *)
(* processes they search, fork, signal and wait for.  ds->mux makes one    *)
(* callback run at a time; processes go their own way between any two of   *)
(* its steps: a forked child becomes the application when its execv        *)
(* returns, or a second server when it fails, applications end by          *)
(* themselves, and the user starts some.                                   *)
(*                                                                         *)
(* A child that ended stays a zombie, and keeps its pid, until waitpid     *)
(* reaps it.  The pid of any other process can be given out again as soon  *)
(* as it ends.                                                             *)
(***************************************************************************)
EXTENDS FiniteSets, Naturals

CONSTANTS
    Pids,
    NoPid,        \* 0 of isAppRunning; as a run_id, a number that is no pid
    Everyone,     \* a run_id of 0 or -1: waitpid takes any child
    ProcOpens,    \* FALSE: opendir of /proc may fail, for want of descriptors
    MaxCalls,     \* bound: callbacks
    MaxUserStarts \* bound: applications that the user starts

ASSUME ProcessAssumption ==
    /\ NoPid \notin Pids
    /\ Everyone \notin Pids \cup {NoPid}
    /\ ProcOpens \in BOOLEAN
    /\ MaxCalls \in Nat
    /\ MaxUserStarts \in Nat

Netflix == "netflix"
YouTube == "youtube"
Apps == {Netflix, YouTube}
Operations == {"start", "hide", "status", "stop"}
RunIds == Pids \cup {NoPid, Everyone}

VARIABLES
    proc,   \* the process of each pid
    run_id, \* app->run_id of Netflix; that of YouTube is written and never read
    pc,     \* where the callback is, "idle" between two callbacks
    op, app,\* the callback
    todo,   \* entries of /proc that isAppRunning has not looked at
    found,  \* what isAppRunning returned
    calls, users,
    \* auxiliary
    since,    \* pids that have run the application for the whole call
    mine,     \* the process was a child of the server when it was found
    disturbed \* in this call /proc did not open or a signal ended the wait

callback == <<pc, op, app, todo, found, calls>>
aux == <<since, mine, disturbed>>
vars == <<proc, run_id, callback, users, aux>>

\* A free pid.  A process is "forked" before execv, "alive" as an application,
\* a "twin" of the server after execv failed, and a "zombie".
Free == [state |-> "free", app |-> "none", child |-> FALSE, termed |-> FALSE]

Processes ==
    [state : {"free", "forked", "alive", "twin", "zombie"},
     app : Apps \cup {"none"}, child : BOOLEAN, termed : BOOLEAN]

\* isAppRunning looks at /proc/PID/exe, which a zombie lacks and which names the
\* server before execv, and for YouTube at the command line.
Matches(p, a) == proc[p].state = "alive" /\ proc[p].app = a

Running(a) == {p \in Pids : Matches(p, a)}

Zombies == {p \in Pids : proc[p].state = "zombie"}

\* The processes when waitpid was called for some children without waiting.
Reaped(ids) ==
    [p \in Pids |->
        IF p \in ids \cap Zombies THEN Free ELSE proc[p]]

\* Mutant: SIGCHLD is ignored, so children leave no zombie.
AfterDeathIgnored(process) == Free

\* What a process leaves behind: the server keeps the default for SIGCHLD.
AfterDeath(process) ==
    IF process.child THEN [process EXCEPT !.state = "zombie"] ELSE Free

Init ==
    /\ proc = [p \in Pids |-> Free]
    /\ run_id \in RunIds  \* malloc leaves it uninitialised
    /\ pc = "idle"
    /\ op = "status"
    /\ app = Netflix
    /\ todo = {}
    /\ found = NoPid
    /\ calls = 0
    /\ users = 0
    /\ since = {}
    /\ mine = FALSE
    /\ disturbed = FALSE

-----------------------------------------------------------------------------
(* The callbacks.                                                          *)

\* youtube_start launches without a look, netflix_status reaps the last launch
\* first, all others begin with the search.
FirstStep(o, a) ==
    IF o = "start" /\ a = YouTube THEN "fork"
    ELSE IF o = "status" /\ a = Netflix THEN "reap" ELSE "scan"

Begin(o, a) ==
    /\ pc = "idle"
    /\ calls < MaxCalls
    /\ calls' = calls + 1
    /\ op' = o
    /\ app' = a
    /\ todo' = Pids
    /\ pc' = FirstStep(o, a)
    /\ since' = Running(a)
    /\ UNCHANGED <<proc, run_id, found, users, mine, disturbed>>

\* netflix_status: waitpid(run_id, NULL, WNOHANG).
Reap ==
    /\ pc = "reap"
    /\ pc' = "scan"
    /\ \/ run_id # Everyone /\ proc' = Reaped({run_id})
       \/ run_id = Everyone /\ \E p \in Zombies : proc' = Reaped({p})
       \/ run_id = Everyone /\ Zombies = {} /\ UNCHANGED proc
    /\ UNCHANGED <<run_id, op, app, todo, found, calls, users, aux>>

\* Mutant: netflix_start launches whatever the search finds.
AfterSearchRelaunch(result) ==
    IF op = "start" THEN "fork"
    ELSE IF op = "stop" /\ result # NoPid THEN "kill" ELSE "done"

\* Mutant: a stop signals without a look at the result.
AfterSearchUnchecked(result) ==
    IF op = "start" /\ result = NoPid THEN "fork"
    ELSE IF op = "stop" THEN "kill" ELSE "done"

\* Where the search leads.
AfterSearch(result) ==
    IF op = "start" /\ result = NoPid THEN "fork"
    ELSE IF op = "stop" /\ result # NoPid THEN "kill" ELSE "done"

\* Mutant: the search gives up at the first entry that does not match.
LookOnce(p) ==
    /\ pc = "scan"
    /\ p \in todo
    /\ IF Matches(p, app)
          THEN /\ found' = p
               /\ mine' = proc[p].child
               /\ pc' = AfterSearch(p)
               /\ UNCHANGED todo
          ELSE /\ todo' = {}
               /\ UNCHANGED <<found, mine, pc>>
    /\ UNCHANGED <<proc, run_id, op, app, calls, users, since, disturbed>>

\* isAppRunning looks at one entry of /proc, in any order.
Look(p) ==
    /\ pc = "scan"
    /\ p \in todo
    /\ IF Matches(p, app)
          THEN /\ found' = p
               /\ mine' = proc[p].child
               /\ pc' = AfterSearch(p)
               /\ UNCHANGED todo
          ELSE /\ todo' = todo \ {p}
               /\ UNCHANGED <<found, mine, pc>>
    /\ UNCHANGED <<proc, run_id, op, app, calls, users, since, disturbed>>

\* All entries were read.
SearchEnds ==
    /\ pc = "scan"
    /\ todo = {}
    /\ pc' = AfterSearch(NoPid)
    /\ UNCHANGED <<proc, run_id, op, app, todo, found, calls, users, aux>>

\* opendir fails: the answer is the same as when nothing was found.
ProcDoesNotOpen ==
    /\ ~ProcOpens
    /\ pc = "scan"
    /\ todo = Pids
    /\ pc' = AfterSearch(NoPid)
    /\ disturbed' = TRUE
    /\ UNCHANGED <<proc, run_id, op, app, todo, found, calls, users, since, mine>>

\* runApplication in the parent.
Fork(p) ==
    /\ pc = "fork"
    /\ proc[p] = Free
    /\ proc' = [proc EXCEPT ![p] =
                    [state |-> "forked", app |-> app, child |-> TRUE, termed |-> FALSE]]
    /\ run_id' = IF app = Netflix THEN p ELSE run_id
    /\ pc' = "done"
    /\ UNCHANGED <<op, app, todo, found, calls, users, aux>>

ForkFails ==
    /\ pc = "fork"
    /\ pc' = "done"
    /\ UNCHANGED <<proc, run_id, op, app, todo, found, calls, users, aux>>

\* netflix_stop and youtube_stop send SIGTERM; only Netflix is waited for.
Kill ==
    /\ pc = "kill"
    /\ proc' = [proc EXCEPT ![found].termed = proc[found].state = "alive"]
    /\ pc' = IF app = Netflix THEN "wait" ELSE "done"
    /\ UNCHANGED <<run_id, op, app, todo, found, calls, users, aux>>

\* Mutant: waitpid(pid, NULL, WNOHANG).
WaitNot ==
    /\ pc = "wait"
    /\ proc' = Reaped({found})
    /\ pc' = "done"
    /\ UNCHANGED <<run_id, op, app, todo, found, calls, users, aux>>

\* Mutant: waits for the process of the last launch.
WaitForRunId ==
    /\ pc = "wait"
    /\ run_id \in Pids => (proc[run_id].child => proc[run_id].state = "zombie")
    /\ proc' = Reaped({run_id})
    /\ pc' = "done"
    /\ UNCHANGED <<run_id, op, app, todo, found, calls, users, aux>>

\* waitpid(pid, NULL, 0): at once for a process that is no child, else when the
\* child has ended.
Wait ==
    /\ pc = "wait"
    /\ proc[found].child => proc[found].state = "zombie"
    /\ proc' = Reaped({found})
    /\ pc' = "done"
    /\ UNCHANGED <<run_id, op, app, todo, found, calls, users, aux>>

\* A SIGTERM for the server itself ends the wait: the handler is installed
\* without SA_RESTART.
Interrupted ==
    /\ pc = "wait"
    /\ proc[found].child
    /\ proc[found].state # "zombie"
    /\ pc' = "done"
    /\ disturbed' = TRUE
    /\ UNCHANGED <<proc, run_id, op, app, todo, found, calls, users, since, mine>>

\* The callback returns its answer and the lock is released.
Return ==
    /\ pc = "done"
    /\ pc' = "idle"
    /\ op' = "status"
    /\ app' = Netflix
    /\ todo' = {}
    /\ found' = NoPid
    /\ since' = {}
    /\ mine' = FALSE
    /\ disturbed' = FALSE
    /\ UNCHANGED <<proc, run_id, calls, users>>

\* The application is unregistered and registered: a new run_id from malloc.
RegisterAgain ==
    /\ pc = "idle"
    /\ run_id' \in RunIds
    /\ UNCHANGED <<proc, callback, users, aux>>

-----------------------------------------------------------------------------
(* The processes.                                                          *)

Exec(p) ==
    /\ proc[p].state = "forked"
    /\ proc' = [proc EXCEPT ![p].state = "alive"]
    /\ UNCHANGED <<run_id, callback, users, aux>>

\* execv fails: the child returns from the callback as a second server.
ExecFails(p) ==
    /\ proc[p].state = "forked"
    /\ proc' = [proc EXCEPT ![p].state = "twin"]
    /\ UNCHANGED <<run_id, callback, users, aux>>

Die(p) ==
    /\ proc[p].state = "alive"
    /\ proc' = [proc EXCEPT ![p] = AfterDeath(proc[p])]
    /\ since' = since \ {p}
    /\ UNCHANGED <<run_id, callback, users, mine, disturbed>>

UserStarts(p, a) ==
    /\ users < MaxUserStarts
    /\ users' = users + 1
    /\ proc[p] = Free
    /\ proc' = [proc EXCEPT ![p] =
                    [state |-> "alive", app |-> a, child |-> FALSE, termed |-> FALSE]]
    /\ UNCHANGED <<run_id, callback, aux>>

-----------------------------------------------------------------------------
CallbackStep ==
    \/ Reap
    \/ \E p \in Pids : Look(p)
    \/ SearchEnds
    \/ ProcDoesNotOpen
    \/ \E p \in Pids : Fork(p)
    \/ ForkFails
    \/ Kill
    \/ Wait
    \/ Interrupted
    \/ Return

Environment ==
    \/ RegisterAgain
    \/ \E p \in Pids : Exec(p) \/ ExecFails(p) \/ Die(p)
    \/ \E p \in Pids, a \in Apps : UserStarts(p, a)

Next ==
    \/ \E o \in Operations, a \in Apps : Begin(o, a)
    \/ CallbackStep
    \/ Environment

Spec == Init /\ [][Next]_vars

\* A process that got SIGTERM ends: execv has reset the handler.  A SIGTERM for
\* the server is not counted on to end a wait.
TermedDies(p) == Die(p) /\ proc[p].termed

FairSpec ==
    /\ Spec
    /\ WF_vars(CallbackStep /\ disturbed' = disturbed)
    /\ WF_vars(Return)
    /\ \A p \in Pids : WF_vars(TermedDies(p))

-----------------------------------------------------------------------------
(* Properties.                                                             *)

\* Types; a callback signals and waits only for a process that it found, and a
\* twin or a forked process is a child of the server (main.c, runApplication).
TypeOK ==
    /\ proc \in [Pids -> Processes]
    /\ run_id \in RunIds
    /\ pc \in {"idle", "reap", "scan", "fork", "kill", "wait", "done"}
    /\ op \in Operations
    /\ app \in Apps
    /\ todo \subseteq Pids
    /\ found \in Pids \cup {NoPid}
    /\ pc \in {"kill", "wait"} => found \in Pids
    /\ calls \in 0 .. MaxCalls
    /\ users \in 0 .. MaxUserStarts
    /\ since \subseteq Pids
    /\ mine \in BOOLEAN
    /\ disturbed \in BOOLEAN
    /\ \A p \in Pids : proc[p].state \in {"forked", "twin", "zombie"} => proc[p].child

Searched == ~(op = "start" /\ app = YouTube)

\* isAppRunning misses no process that ran the application from the beginning
\* of the callback to the end of the search, although processes come and go
\* while it reads /proc.
SearchComplete ==
    pc \in {"fork", "done"} /\ Searched /\ found = NoPid /\ ~disturbed => since = {}

\* The signal and the wait of a stop reach the process that the search found,
\* when it is one the server launched: it may end in between, but its pid is
\* not given out again before the wait.
SignalHitsItsTarget ==
    pc \in {"kill", "wait"} /\ mine => proc[found].child /\ proc[found].app = app

\* When netflix_stop returns, the child that it found neither runs nor is left
\* as a zombie, unless a signal for the server ended the wait.
StopIsFinal ==
    pc = "done" /\ op = "stop" /\ app = Netflix /\ mine /\ ~disturbed
        => ~proc[found].child

LaunchedBy(p, a) == proc[p] = Free /\ proc[p]' # Free /\ proc[p]'.child /\ proc[p]'.app = a

\* netflix_start launches only when no Netflix process has been running since
\* the beginning of the callback.
NeverBesideRunning ==
    [][\A p \in Pids : LaunchedBy(p, Netflix) => disturbed \/ since = {}]_vars

\* "The Netflix application should never be relaunched" (nf_callbacks.c): the
\* server does not run Netflix twice.
OnlyOneNetflix == Cardinality({p \in Running(Netflix) : proc[p].child}) <= 1

\* Every callback returns and gives the lock back, netflix_stop with its wait
\* included.
EveryCallbackReturns == pc # "idle" ~> pc = "idle"
=============================================================================
