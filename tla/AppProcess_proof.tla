-------------------------- MODULE AppProcess_proof --------------------------
(***************************************************************************)
(* Proofs about AppProcess, for any pids and any number of calls.          *)
(***************************************************************************)
EXTENDS AppProcess, TLAPS

\* What is known of the search while a callback runs: nothing was found before
\* the end of it, the rest of /proc has every process that ran from the
\* beginning, and the callbacks come to a step only on their ways.
SearchInv ==
    /\ pc \in {"idle", "reap", "scan"} => found = NoPid /\ ~mine
    /\ mine => found \in Pids
    /\ pc = "reap" => todo = Pids
    /\ pc = "scan" => since \subseteq todo /\ Searched
    /\ pc = "reap" => Searched
    /\ pc = "fork" => op = "start" /\ found = NoPid
    /\ pc = "kill" => op = "stop"
    /\ pc = "wait" => op = "stop" /\ app = Netflix

\* The auxiliary variable since says what its comment says.
SinceInv == since \subseteq Running(app)

Inv ==
    /\ TypeOK
    /\ SearchInv
    /\ SinceInv
    /\ SearchComplete
    /\ SignalHitsItsTarget
    /\ StopIsFinal

-----------------------------------------------------------------------------
\* The records of processes.
LEMMA RecordTypes ==
    ASSUME NEW r \in Processes
    PROVE  /\ [r EXCEPT !.state = "alive"] \in Processes
           /\ [r EXCEPT !.state = "twin"] \in Processes
           /\ \A b \in BOOLEAN : [r EXCEPT !.termed = b] \in Processes
           /\ AfterDeath(r) \in Processes
           /\ r.child => AfterDeath(r).child /\ AfterDeath(r).app = r.app
  BY DEF Free, Processes, AfterDeath

LEMMA NewRecords ==
    /\ Free \in Processes
    /\ \A a \in Apps :
          /\ [state |-> "forked", app |-> a, child |-> TRUE, termed |-> FALSE] \in Processes
          /\ [state |-> "alive", app |-> a, child |-> FALSE, termed |-> FALSE] \in Processes
  BY DEF Free, Processes

\* Where a callback goes after its search.
LEMMA SearchLeads ==
    /\ \A p \in Pids : op = "stop" => AfterSearch(p) = "kill"
    /\ \A p \in Pids : op # "stop" => AfterSearch(p) = "done"
    /\ op = "start" => AfterSearch(NoPid) = "fork"
    /\ op # "start" => AfterSearch(NoPid) = "done"
  BY ProcessAssumption DEF AfterSearch

LEMMA InitInv == Init => Inv
<1> SUFFICES ASSUME Init
             PROVE  Inv
  OBVIOUS
<1>1. TypeOK
  <2>1. proc \in [Pids -> Processes]
    BY NewRecords DEF Init
  <2>2. \A p \in Pids : proc[p].state = "free"
    BY DEF Init, Free
  <2>3. calls \in 0 .. MaxCalls /\ users \in 0 .. MaxUserStarts
    BY ProcessAssumption DEF Init
  <2> QED BY <2>1, <2>2, <2>3 DEF Init, TypeOK, Operations, Apps
<1>2. SearchInv /\ SinceInv /\ SearchComplete /\ SignalHitsItsTarget /\ StopIsFinal
  BY DEF Init, SearchInv, SinceInv, SearchComplete, SignalHitsItsTarget, StopIsFinal
<1> QED BY <1>1, <1>2 DEF Inv

-----------------------------------------------------------------------------
(* Steps of the callback.                                                  *)

\* Reaping turns zombies into free pids and touches nothing that runs.
LEMMA ReapedFacts ==
    ASSUME TypeOK, NEW ids, proc' = Reaped(ids)
    PROVE  /\ proc' \in [Pids -> Processes]
           /\ \A p \in Pids : proc'[p].state \in {"forked", "twin", "zombie"} => proc'[p].child
           /\ \A p \in Pids, a \in Apps : Matches(p, a) => Matches(p, a)'
<1>1. \A p \in Pids : proc'[p] = IF p \in ids \cap Zombies THEN Free ELSE proc[p]
  BY DEF Reaped
<1>2. \A p \in Pids : p \in Zombies <=> proc[p].state = "zombie"
  BY DEF Zombies
<1>3. proc' = [p \in Pids |-> proc'[p]]
  BY DEF Reaped
<1>4. proc' \in [Pids -> Processes]
  BY <1>1, <1>3, NewRecords DEF TypeOK
<1>5. \A p \in Pids : proc'[p].state \in {"forked", "twin", "zombie"} => proc'[p].child
  BY <1>1 DEF TypeOK, Free
<1>6. \A p \in Pids, a \in Apps : Matches(p, a) => Matches(p, a)'
  BY <1>1, <1>2 DEF Matches
<1> QED BY <1>4, <1>5, <1>6

LEMMA BeginInv == ASSUME Inv, NEW o \in Operations, NEW a \in Apps, Begin(o, a)
                  PROVE  Inv'
<1>0. TypeOK /\ SearchInv
  BY DEF Inv
<1>1. /\ pc = "idle" /\ op' = o /\ app' = a /\ todo' = Pids /\ pc' = FirstStep(o, a)
      /\ since' = Running(a) /\ found = NoPid /\ ~mine
      /\ UNCHANGED <<proc, run_id, found, users, mine, disturbed>>
  BY <1>0 DEF Begin, SearchInv
<1>2. pc' \in {"fork", "reap", "scan"}
  BY <1>1 DEF FirstStep
<1>3. /\ pc' = "fork" => o = "start" /\ a = YouTube
      /\ pc' \in {"reap", "scan"} => ~(o = "start" /\ a = YouTube)
  BY <1>1 DEF FirstStep
<1>4. calls' \in 0 .. MaxCalls
  BY <1>0, ProcessAssumption DEF Begin, TypeOK
<1>5. TypeOK'
  BY <1>0, <1>1, <1>2, <1>4 DEF TypeOK, Running
<1>6. SinceInv'
  BY <1>1 DEF SinceInv, Running, Matches
<1>7. SearchInv' /\ SearchComplete'
  BY <1>1, <1>2, <1>3 DEF SearchInv, SearchComplete, Searched, Running
<1>8. SignalHitsItsTarget' /\ StopIsFinal'
  BY <1>1, <1>2 DEF SignalHitsItsTarget, StopIsFinal
<1> QED BY <1>5, <1>6, <1>7, <1>8 DEF Inv

LEMMA ReapInv == Inv /\ Reap => Inv'
<1> SUFFICES ASSUME Inv, Reap
             PROVE  Inv'
  OBVIOUS
<1>0. TypeOK /\ SearchInv /\ SinceInv
  BY DEF Inv
<1>1. /\ pc = "reap" /\ pc' = "scan" /\ todo = Pids
      /\ UNCHANGED <<run_id, op, app, todo, found, calls, users, since, mine, disturbed>>
  BY <1>0 DEF Reap, aux, SearchInv
<1>2. (\E ids : proc' = Reaped(ids)) \/ UNCHANGED proc
  BY DEF Reap
<1>3. /\ proc' \in [Pids -> Processes]
      /\ \A p \in Pids : proc'[p].state \in {"forked", "twin", "zombie"} => proc'[p].child
      /\ \A p \in Pids, a \in Apps : Matches(p, a) => Matches(p, a)'
  <2>1. CASE UNCHANGED proc
    BY <2>1, <1>0 DEF TypeOK, Matches
  <2>2. ASSUME NEW ids, proc' = Reaped(ids)
        PROVE  /\ proc' \in [Pids -> Processes]
               /\ \A p \in Pids :
                     proc'[p].state \in {"forked", "twin", "zombie"} => proc'[p].child
               /\ \A p \in Pids, a \in Apps : Matches(p, a) => Matches(p, a)'
    BY <2>2, <1>0, ReapedFacts
  <2> QED BY <1>2, <2>1, <2>2
<1>4. TypeOK'
  BY <1>0, <1>1, <1>3 DEF TypeOK
<1>5. SinceInv'
  <2>1. \A p \in since : p \in Pids /\ Matches(p, app)
    BY <1>0 DEF SinceInv, Running
  <2> QED BY <2>1, <1>0, <1>1, <1>3 DEF SinceInv, Running, TypeOK
<1>6. SearchInv' /\ SearchComplete' /\ SignalHitsItsTarget' /\ StopIsFinal'
  BY <1>0, <1>1
  DEF SearchInv, SearchComplete, SignalHitsItsTarget, StopIsFinal, Searched, TypeOK
<1> QED BY <1>0, <1>4, <1>5, <1>6 DEF Inv

LEMMA LookInv == ASSUME Inv, NEW p \in Pids, Look(p)
                 PROVE  Inv'
<1>0. TypeOK /\ SearchInv /\ SinceInv
  BY DEF Inv
<1>1. /\ pc = "scan" /\ p \in todo
      /\ UNCHANGED <<proc, run_id, op, app, calls, users, since, disturbed>>
  BY DEF Look
<1>2. SinceInv'
  BY <1>0, <1>1 DEF SinceInv, Running, Matches
<1>3. CASE Matches(p, app)
  <2>1. found' = p /\ mine' = proc[p].child /\ pc' = AfterSearch(p) /\ todo' = todo
    BY <1>3 DEF Look
  <2>2. IF op = "stop" THEN pc' = "kill" ELSE pc' = "done"
    BY <2>1, SearchLeads
  <2>3. proc[p].child \in BOOLEAN
    BY <1>0 DEF TypeOK, Processes
  <2>4. TypeOK'
    BY <1>0, <1>1, <2>1, <2>2, <2>3 DEF TypeOK
  <2>5. SearchInv' /\ SearchComplete'
    BY <1>1, <2>1, <2>2, ProcessAssumption DEF SearchInv, SearchComplete
  <2>6. SignalHitsItsTarget' /\ StopIsFinal'
    BY <1>1, <1>3, <2>1, <2>2 DEF SignalHitsItsTarget, StopIsFinal, Matches
  <2> QED BY <1>2, <2>4, <2>5, <2>6 DEF Inv
<1>4. CASE ~Matches(p, app)
  <2>1. todo' = todo \ {p} /\ UNCHANGED <<found, mine, pc>>
    BY <1>4 DEF Look
  <2>2. p \notin since
    BY <1>0, <1>4 DEF SinceInv, Running
  <2>3. TypeOK'
    BY <1>0, <1>1, <2>1 DEF TypeOK
  <2>4. SearchInv' /\ SearchComplete' /\ SignalHitsItsTarget' /\ StopIsFinal'
    BY <1>0, <1>1, <2>1, <2>2
    DEF SearchInv, SearchComplete, SignalHitsItsTarget, StopIsFinal, Searched
  <2> QED BY <1>2, <2>3, <2>4 DEF Inv
<1> QED BY <1>3, <1>4

\* The search ended without a result, because of its end or of /proc.
LEMMA NotFoundInv == Inv /\ (SearchEnds \/ ProcDoesNotOpen) => Inv'
<1> SUFFICES ASSUME Inv, SearchEnds \/ ProcDoesNotOpen
             PROVE  Inv'
  OBVIOUS
<1>0. TypeOK /\ SearchInv /\ SinceInv
  BY DEF Inv
<1>1. /\ pc = "scan" /\ pc' = AfterSearch(NoPid)
      /\ UNCHANGED <<proc, run_id, op, app, todo, found, calls, users, since, mine>>
      /\ disturbed' = TRUE \/ (todo = {} /\ disturbed' = disturbed)
  BY DEF SearchEnds, ProcDoesNotOpen, aux
<1>2. IF op = "start" THEN pc' = "fork" ELSE pc' = "done"
  BY <1>1, SearchLeads
<1>3. TypeOK'
  BY <1>0, <1>1, <1>2 DEF TypeOK
<1>4. SinceInv'
  BY <1>0, <1>1 DEF SinceInv, Running, Matches
<1>5. SearchInv' /\ SearchComplete' /\ SignalHitsItsTarget' /\ StopIsFinal'
  BY <1>0, <1>1, <1>2
  DEF SearchInv, SearchComplete, SignalHitsItsTarget, StopIsFinal, Searched
<1> QED BY <1>3, <1>4, <1>5 DEF Inv

LEMMA ForkInv == ASSUME Inv, NEW p \in Pids, Fork(p)
                 PROVE  Inv'
<1>0. TypeOK /\ SearchInv /\ SinceInv
  BY DEF Inv
<1>1. /\ pc = "fork" /\ pc' = "done" /\ op = "start" /\ proc[p] = Free
      /\ UNCHANGED <<op, app, todo, found, calls, users, since, mine, disturbed>>
  BY <1>0 DEF Fork, aux, SearchInv
<1> DEFINE new == [state |-> "forked", app |-> app, child |-> TRUE, termed |-> FALSE]
<1>2. proc' = [proc EXCEPT ![p] = new] /\ run_id' \in RunIds
  BY <1>0 DEF Fork, TypeOK, RunIds
<1>3. new \in Processes /\ new.child
  BY <1>0, NewRecords DEF TypeOK
<1> HIDE DEF new
<1>4. TypeOK'
  BY <1>0, <1>1, <1>2, <1>3 DEF TypeOK
<1>5. p \notin since
  BY <1>0, <1>1 DEF SinceInv, Running, Matches, Free
<1>6. SinceInv'
  BY <1>0, <1>1, <1>2, <1>5 DEF SinceInv, Running, Matches, TypeOK
<1>7. SearchComplete'
  BY <1>1 DEF SearchComplete, Searched, Inv
<1>8. SearchInv' /\ SignalHitsItsTarget' /\ StopIsFinal'
  BY <1>1 DEF Inv, SearchInv, SignalHitsItsTarget, StopIsFinal
<1> QED BY <1>4, <1>6, <1>7, <1>8 DEF Inv

LEMMA ForkFailsInv == Inv /\ ForkFails => Inv'
<1> SUFFICES ASSUME Inv, ForkFails
             PROVE  Inv'
  OBVIOUS
<1>1. /\ pc = "fork" /\ pc' = "done" /\ op = "start"
      /\ UNCHANGED <<proc, run_id, op, app, todo, found, calls, users, since, mine, disturbed>>
  BY DEF ForkFails, aux, SearchInv, Inv
<1>2. TypeOK' /\ SinceInv'
  BY <1>1 DEF Inv, TypeOK, SinceInv, Running, Matches
<1>3. SearchComplete'
  BY <1>1 DEF SearchComplete, Searched, Inv
<1>4. SearchInv' /\ SignalHitsItsTarget' /\ StopIsFinal'
  BY <1>1 DEF Inv, SearchInv, SignalHitsItsTarget, StopIsFinal
<1> QED BY <1>2, <1>3, <1>4 DEF Inv

LEMMA KillInv == Inv /\ Kill => Inv'
<1> SUFFICES ASSUME Inv, Kill
             PROVE  Inv'
  OBVIOUS
<1>0. TypeOK /\ SearchInv /\ SinceInv /\ SignalHitsItsTarget
  BY DEF Inv
<1>1. /\ pc = "kill" /\ op = "stop" /\ found \in Pids
      /\ pc' = IF app = Netflix THEN "wait" ELSE "done"
      /\ UNCHANGED <<run_id, op, app, todo, found, calls, users, since, mine, disturbed>>
  BY <1>0 DEF Kill, aux, SearchInv, TypeOK
<1> DEFINE sent == proc[found].state = "alive"
<1>2. proc' = [proc EXCEPT ![found] = [proc[found] EXCEPT !.termed = sent]]
  BY DEF Kill
<1>3. proc[found] \in Processes /\ sent \in BOOLEAN
  BY <1>0, <1>1 DEF TypeOK
<1> HIDE DEF sent
<1>4. [proc[found] EXCEPT !.termed = sent] \in Processes
  BY <1>3, RecordTypes
<1>5. \A p \in Pids : /\ proc'[p].state = proc[p].state
                      /\ proc'[p].app = proc[p].app
                      /\ proc'[p].child = proc[p].child
  BY <1>0, <1>2, <1>3 DEF TypeOK, Processes
<1>6. TypeOK'
  <2>1. proc' \in [Pids -> Processes]
    BY <1>0, <1>1, <1>2, <1>4 DEF TypeOK
  <2> QED BY <1>0, <1>1, <1>5, <2>1 DEF TypeOK
<1>7. SinceInv'
  BY <1>0, <1>1, <1>5 DEF SinceInv, Running, Matches
<1>8. SearchInv' /\ SearchComplete' /\ SignalHitsItsTarget' /\ StopIsFinal'
  BY <1>0, <1>1, <1>5, ProcessAssumption
  DEF SearchInv, SearchComplete, SignalHitsItsTarget, StopIsFinal
<1> QED BY <1>6, <1>7, <1>8 DEF Inv

LEMMA WaitInv == Inv /\ Wait => Inv'
<1> SUFFICES ASSUME Inv, Wait
             PROVE  Inv'
  OBVIOUS
<1>0. TypeOK /\ SearchInv /\ SinceInv
  BY DEF Inv
<1>1. /\ pc = "wait" /\ pc' = "done" /\ found \in Pids /\ op = "stop"
      /\ proc' = Reaped({found})
      /\ UNCHANGED <<run_id, op, app, todo, found, calls, users, since, mine, disturbed>>
  BY <1>0 DEF Wait, aux, SearchInv, TypeOK
<1>2. /\ proc' \in [Pids -> Processes]
      /\ \A p \in Pids : proc'[p].state \in {"forked", "twin", "zombie"} => proc'[p].child
      /\ \A p \in Pids, a \in Apps : Matches(p, a) => Matches(p, a)'
  BY <1>0, <1>1, ReapedFacts
<1>3. ~proc'[found].child
  <2>1. proc[found].child \in BOOLEAN
    BY <1>0, <1>1 DEF TypeOK, Processes
  <2>2. proc'[found] = IF proc[found].state = "zombie" THEN Free ELSE proc[found]
    BY <1>1 DEF Reaped, Zombies
  <2> QED BY <2>1, <2>2 DEF Wait, Free
<1>4. TypeOK'
  BY <1>0, <1>1, <1>2 DEF TypeOK
<1>5. SinceInv'
  <2>1. \A p \in since : p \in Pids /\ Matches(p, app)
    BY <1>0 DEF SinceInv, Running
  <2> QED BY <2>1, <1>0, <1>1, <1>2 DEF SinceInv, Running, TypeOK
<1>6. SearchInv' /\ SearchComplete' /\ SignalHitsItsTarget' /\ StopIsFinal'
  BY <1>0, <1>1, <1>3, ProcessAssumption
  DEF SearchInv, SearchComplete, SignalHitsItsTarget, StopIsFinal
<1> QED BY <1>4, <1>5, <1>6 DEF Inv

LEMMA InterruptedInv == Inv /\ Interrupted => Inv'
<1> SUFFICES ASSUME Inv, Interrupted
             PROVE  Inv'
  OBVIOUS
<1>1. /\ pc = "wait" /\ pc' = "done" /\ disturbed'
      /\ UNCHANGED <<proc, run_id, op, app, todo, found, calls, users, since, mine>>
      /\ disturbed' \in BOOLEAN
  BY DEF Interrupted
<1>2. TypeOK' /\ SinceInv'
  BY <1>1 DEF Inv, TypeOK, SinceInv, Running, Matches
<1>3. SearchInv' /\ SearchComplete' /\ SignalHitsItsTarget' /\ StopIsFinal'
  BY <1>1 DEF Inv, SearchInv, SearchComplete, SignalHitsItsTarget, StopIsFinal
<1> QED BY <1>2, <1>3 DEF Inv

LEMMA ReturnInv == Inv /\ Return => Inv'
<1> SUFFICES ASSUME Inv, Return
             PROVE  Inv'
  OBVIOUS
<1>1. /\ pc' = "idle" /\ op' = "status" /\ app' = Netflix /\ todo' = {}
      /\ found' = NoPid /\ since' = {} /\ mine' = FALSE /\ disturbed' = FALSE
      /\ UNCHANGED <<proc, run_id, calls, users>>
  BY DEF Return
<1>2. TypeOK' /\ SinceInv'
  BY <1>1 DEF Inv, TypeOK, SinceInv, Operations, Apps
<1>3. SearchInv' /\ SearchComplete' /\ SignalHitsItsTarget' /\ StopIsFinal'
  BY <1>1 DEF SearchInv, SearchComplete, SignalHitsItsTarget, StopIsFinal
<1> QED BY <1>2, <1>3 DEF Inv

LEMMA RegisterAgainInv == Inv /\ RegisterAgain => Inv'
<1> SUFFICES ASSUME Inv, RegisterAgain
             PROVE  Inv'
  OBVIOUS
<1>1. /\ run_id' \in RunIds
      /\ UNCHANGED <<proc, pc, op, app, todo, found, calls, users, since, mine, disturbed>>
  BY DEF RegisterAgain, callback, aux
<1>2. TypeOK' /\ SinceInv'
  BY <1>1 DEF Inv, TypeOK, SinceInv, Running, Matches
<1>3. SearchInv' /\ SearchComplete' /\ SignalHitsItsTarget' /\ StopIsFinal'
  BY <1>1 DEF Inv, SearchInv, SearchComplete, SignalHitsItsTarget, StopIsFinal, Searched
<1> QED BY <1>2, <1>3 DEF Inv

-----------------------------------------------------------------------------
(* Steps of the processes.  A step that keeps the parent, the application  *)
(* and what runs of every process that was there keeps the invariant.      *)

LEMMA ProcessStepInv ==
    ASSUME Inv,
           proc' \in [Pids -> Processes],
           \A p \in Pids : proc'[p].state \in {"forked", "twin", "zombie"} => proc'[p].child,
           \A p \in Pids : proc[p].child =>
              proc'[p].child /\ proc'[p].app = proc[p].app,
           \A p \in Pids : proc'[p].child => proc[p].child,
           users' \in 0 .. MaxUserStarts,
           since' \subseteq since,
           \A p \in since' : Matches(p, app) => Matches(p, app)',
           UNCHANGED <<run_id, callback, mine, disturbed>>
    PROVE  Inv'
<1>0. TypeOK /\ SearchInv /\ SinceInv
  BY DEF Inv
<1>1. UNCHANGED <<run_id, pc, op, app, todo, found, calls, mine, disturbed>>
  BY DEF callback
<1>2. TypeOK'
  BY <1>0, <1>1 DEF TypeOK
<1>3. SinceInv'
  BY <1>0, <1>1 DEF SinceInv, Running
<1>4. SearchInv' /\ SearchComplete'
  BY <1>0, <1>1 DEF Inv, SearchInv, SearchComplete, Searched
<1>5. SignalHitsItsTarget'
  BY <1>0, <1>1 DEF Inv, SignalHitsItsTarget, TypeOK
<1>6. StopIsFinal'
  <2>1. CASE found \in Pids
    BY <1>0, <1>1, <2>1 DEF Inv, StopIsFinal
  <2>2. CASE found \notin Pids
    <3>1. pc = "done" /\ op = "stop" /\ app = Netflix => ~mine
      BY <2>2, <1>0 DEF SearchInv, TypeOK
    <3> QED BY <3>1, <1>1 DEF StopIsFinal
  <2> QED BY <2>1, <2>2
<1> QED BY <1>2, <1>3, <1>4, <1>5, <1>6 DEF Inv

LEMMA ExecInv == ASSUME Inv, NEW p \in Pids, Exec(p) \/ ExecFails(p)
                 PROVE  Inv'
<1>0. TypeOK /\ SearchInv /\ SinceInv
  BY DEF Inv
<1>1. PICK s \in {"alive", "twin"} :
        proc[p].state = "forked" /\ proc' = [proc EXCEPT ![p] = [proc[p] EXCEPT !.state = s]]
  BY DEF Exec, ExecFails
<1>2. UNCHANGED <<run_id, callback, users, since, mine, disturbed>>
  BY DEF Exec, ExecFails, aux
<1>3. proc[p] \in Processes /\ proc[p].child
  BY <1>0, <1>1 DEF TypeOK
<1> DEFINE new == [proc[p] EXCEPT !.state = s]
<1>4. new \in Processes /\ new.child = proc[p].child /\ new.app = proc[p].app
  BY <1>3, RecordTypes DEF Processes
<1> HIDE DEF new
<1>5. proc' = [proc EXCEPT ![p] = new]
  BY <1>1 DEF new
<1>6. proc' \in [Pids -> Processes]
  BY <1>0, <1>4, <1>5 DEF TypeOK
<1>7. \A q \in Pids : /\ proc'[q].child = proc[q].child
                      /\ proc'[q].app = proc[q].app
                      /\ q # p => proc'[q] = proc[q]
  BY <1>0, <1>4, <1>5 DEF TypeOK
<1>8. \A q \in Pids : proc'[q].state \in {"forked", "twin", "zombie"} => proc'[q].child
  BY <1>0, <1>3, <1>7 DEF TypeOK
<1>9. p \notin since
  BY <1>0, <1>1 DEF SinceInv, Running, Matches
<1>10. \A q \in since' : Matches(q, app) => Matches(q, app)'
  <2>1. app' = app
    BY <1>2 DEF callback
  <2> QED BY <2>1, <1>0, <1>2, <1>7, <1>9 DEF Matches, TypeOK
<1>11. users' \in 0 .. MaxUserStarts
  BY <1>0, <1>2 DEF TypeOK
<1>12. \A q \in Pids : /\ proc[q].child => proc'[q].child /\ proc'[q].app = proc[q].app
                       /\ proc'[q].child => proc[q].child
  BY <1>7
<1> QED BY <1>2, <1>6, <1>8, <1>10, <1>11, <1>12, ProcessStepInv

LEMMA DieInv == ASSUME Inv, NEW p \in Pids, Die(p)
                PROVE  Inv'
<1>0. TypeOK /\ SearchInv /\ SinceInv
  BY DEF Inv
<1> DEFINE rest == AfterDeath(proc[p])
<1>1. proc' = [proc EXCEPT ![p] = rest] /\ since' = since \ {p}
  BY DEF Die
<1>2. UNCHANGED <<run_id, callback, users, mine, disturbed>>
  BY DEF Die
<1>3. proc[p] \in Processes
  BY <1>0 DEF TypeOK
<1>4. rest \in Processes /\ (proc[p].child => rest.child /\ rest.app = proc[p].app)
  BY <1>3, RecordTypes
<1>5. rest.state \in {"forked", "twin", "zombie"} => rest.child
  BY <1>3 DEF AfterDeath, Free, Processes
<1>6. rest.child => proc[p].child
  BY <1>3 DEF AfterDeath, Free, Processes
<1> HIDE DEF rest
<1>7. proc' \in [Pids -> Processes]
  BY <1>0, <1>1, <1>4 DEF TypeOK
<1>8. proc'[p] = rest /\ \A q \in Pids \ {p} : proc'[q] = proc[q]
  BY <1>0, <1>1 DEF TypeOK
<1>9. \A q \in Pids : proc'[q].state \in {"forked", "twin", "zombie"} => proc'[q].child
  BY <1>0, <1>5, <1>8 DEF TypeOK
<1>10. \A q \in Pids : /\ proc[q].child => proc'[q].child /\ proc'[q].app = proc[q].app
                       /\ proc'[q].child => proc[q].child
  BY <1>4, <1>6, <1>8
<1>11. \A q \in since' : Matches(q, app) => Matches(q, app)'
  <2>1. app' = app
    BY <1>2 DEF callback
  <2> QED BY <2>1, <1>0, <1>1, <1>8 DEF Matches, TypeOK
<1>12. users' \in 0 .. MaxUserStarts
  BY <1>0, <1>2 DEF TypeOK
<1> QED BY <1>1, <1>2, <1>7, <1>9, <1>10, <1>11, <1>12, ProcessStepInv

LEMMA UserStartsInv == ASSUME Inv, NEW p \in Pids, NEW a \in Apps, UserStarts(p, a)
                       PROVE  Inv'
<1>0. TypeOK /\ SearchInv /\ SinceInv
  BY DEF Inv
<1> DEFINE new == [state |-> "alive", app |-> a, child |-> FALSE, termed |-> FALSE]
<1>1. proc[p] = Free /\ proc' = [proc EXCEPT ![p] = new]
  BY DEF UserStarts
<1>2. UNCHANGED <<run_id, callback, since, mine, disturbed>>
  BY DEF UserStarts, aux
<1>3. new \in Processes
  BY NewRecords
<1>4. ~new.child /\ new.state = "alive" /\ ~proc[p].child
  BY <1>1 DEF Free
<1> HIDE DEF new
<1>5. proc' \in [Pids -> Processes]
  BY <1>0, <1>1, <1>3 DEF TypeOK
<1>6. proc'[p] = new /\ \A q \in Pids \ {p} : proc'[q] = proc[q]
  BY <1>0, <1>1 DEF TypeOK
<1>7. \A q \in Pids : proc'[q].state \in {"forked", "twin", "zombie"} => proc'[q].child
  BY <1>0, <1>4, <1>6 DEF TypeOK
<1>8. \A q \in Pids : /\ proc[q].child => proc'[q].child /\ proc'[q].app = proc[q].app
                      /\ proc'[q].child => proc[q].child
  BY <1>4, <1>6
<1>9. p \notin since
  BY <1>0, <1>1 DEF SinceInv, Running, Matches, Free
<1>10. \A q \in since' : Matches(q, app) => Matches(q, app)'
  <2>1. app' = app
    BY <1>2 DEF callback
  <2> QED BY <2>1, <1>0, <1>2, <1>6, <1>9 DEF Matches, TypeOK
<1>11. users' \in 0 .. MaxUserStarts
  BY <1>0, ProcessAssumption DEF UserStarts, TypeOK
<1> QED BY <1>2, <1>5, <1>7, <1>8, <1>10, <1>11, ProcessStepInv

-----------------------------------------------------------------------------
LEMMA NextInv == Inv /\ [Next]_vars => Inv'
<1> SUFFICES ASSUME Inv, [Next]_vars
             PROVE  Inv'
  OBVIOUS
<1>1. ASSUME NEW o \in Operations, NEW a \in Apps, Begin(o, a)
      PROVE  Inv'
  BY <1>1, BeginInv
<1>2. CASE CallbackStep
  <2>1. ASSUME NEW p \in Pids, Look(p)
        PROVE  Inv'
    BY <2>1, LookInv
  <2>2. ASSUME NEW p \in Pids, Fork(p)
        PROVE  Inv'
    BY <2>2, ForkInv
  <2> QED BY <1>2, <2>1, <2>2, ReapInv, NotFoundInv, ForkFailsInv, KillInv, WaitInv,
             InterruptedInv, ReturnInv DEF CallbackStep
<1>3. CASE Environment
  <2>1. ASSUME NEW p \in Pids, Exec(p) \/ ExecFails(p)
        PROVE  Inv'
    BY <2>1, ExecInv
  <2>2. ASSUME NEW p \in Pids, Die(p)
        PROVE  Inv'
    BY <2>2, DieInv
  <2>3. ASSUME NEW p \in Pids, NEW a \in Apps, UserStarts(p, a)
        PROVE  Inv'
    BY <2>3, UserStartsInv
  <2> QED BY <1>3, <2>1, <2>2, <2>3, RegisterAgainInv DEF Environment
<1>4. CASE UNCHANGED vars
  <2>1. UNCHANGED <<proc, run_id, pc, op, app, todo, found, calls, users, since, mine, disturbed>>
    BY <1>4 DEF vars, callback, aux
  <2> QED BY <2>1
          DEF Inv, TypeOK, SearchInv, SinceInv, Running, Matches, SearchComplete, Searched,
              SignalHitsItsTarget, StopIsFinal
<1> QED BY <1>1, <1>2, <1>3, <1>4 DEF Next

\* The invariant holds in every behaviour.
THEOREM Invariance == Spec => []Inv
<1> QED BY InitInv, NextInv, PTL DEF Spec

\* Types, and no signal or wait without a process that was found.
THEOREM ProcessTypes == Spec => []TypeOK
<1>1. Inv => TypeOK
  BY DEF Inv
<1> QED BY <1>1, Invariance, PTL

\* The search of isAppRunning misses nothing that runs all the time.
THEOREM SearchesAreComplete == Spec => []SearchComplete
<1>1. Inv => SearchComplete
  BY DEF Inv
<1> QED BY <1>1, Invariance, PTL

\* A stop signals and waits for the child that it found, whatever happened to
\* the pid in between.
THEOREM SignalsHitTheirTarget == Spec => []SignalHitsItsTarget
<1>1. Inv => SignalHitsItsTarget
  BY DEF Inv
<1> QED BY <1>1, Invariance, PTL

\* netflix_stop leaves neither the child that it found nor its zombie.
THEOREM StopsAreFinal == Spec => []StopIsFinal
<1>1. Inv => StopIsFinal
  BY DEF Inv
<1> QED BY <1>1, Invariance, PTL

\* netflix_start launches nothing beside a Netflix that runs.
THEOREM LaunchesAreAlone == Spec => NeverBesideRunning
<1>1. ASSUME Inv, [Next]_vars, NEW p \in Pids, LaunchedBy(p, Netflix)
      PROVE  disturbed \/ since = {}
  <2>0. TypeOK /\ SearchInv /\ SearchComplete
    BY <1>1 DEF Inv
  <2>1. proc[p] = Free /\ proc'[p] # Free /\ proc'[p].child /\ proc'[p].app = Netflix
    BY <1>1 DEF LaunchedBy
  <2>2. ~proc[p].child /\ proc[p].state = "free"
    BY <2>1 DEF Free
  <2>3. ASSUME NEW q \in Pids, Fork(q)
        PROVE  disturbed \/ since = {}
    <3>1. pc = "fork" /\ found = NoPid
      BY <2>0, <2>3 DEF Fork, SearchInv
    <3>2. CASE q = p
      <4>1. app = Netflix
        BY <2>0, <2>1, <2>3, <3>2 DEF Fork, TypeOK
      <4> QED BY <2>0, <3>1, <4>1 DEF SearchComplete, Searched, Netflix, YouTube
    <3>3. CASE q # p
      BY <2>0, <2>1, <2>3, <3>3 DEF Fork, TypeOK
    <3> QED BY <3>2, <3>3
  <2>4. ~Kill
    <3>1. ASSUME Kill
          PROVE  proc'[p].child = proc[p].child
      BY <3>1, <2>0 DEF Kill, TypeOK, Processes
    <3> QED BY <3>1, <2>1, <2>2
  <2>5. ~Reap /\ ~Wait
    <3>1. ASSUME NEW ids, proc' = Reaped(ids)
          PROVE  FALSE
      BY <3>1, <2>1, <2>2 DEF Reaped, Zombies
    <3> QED BY <3>1, <2>1 DEF Reap, Wait
  <2>6. ~(\E q \in Pids : Exec(q) \/ ExecFails(q) \/ Die(q))
    <3>1. ASSUME NEW q \in Pids, Exec(q) \/ ExecFails(q) \/ Die(q)
          PROVE  FALSE
      <4>1. q # p
        BY <2>2, <3>1 DEF Exec, ExecFails, Die
      <4> QED BY <2>0, <2>1, <3>1, <4>1 DEF Exec, ExecFails, Die, TypeOK
    <3> QED BY <3>1
  <2>7. ~(\E q \in Pids, a \in Apps : UserStarts(q, a))
    <3>1. ASSUME NEW q \in Pids, NEW a \in Apps, UserStarts(q, a)
          PROVE  FALSE
      BY <2>0, <2>1, <3>1 DEF UserStarts, TypeOK
    <3> QED BY <3>1
  <2>8. proc' # proc
    BY <2>1
  <2> QED BY <1>1, <2>3, <2>4, <2>5, <2>6, <2>7, <2>8
          DEF Next, CallbackStep, Environment, Begin, Look, SearchEnds, ProcDoesNotOpen,
              ForkFails, Interrupted, Return, RegisterAgain, vars
<1>2. Inv /\ [Next]_vars => [\A p \in Pids : LaunchedBy(p, Netflix) => disturbed \/ since = {}]_vars
  BY <1>1
<1> QED BY <1>2, Invariance, PTL DEF Spec, NeverBesideRunning
=============================================================================
