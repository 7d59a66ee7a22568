-------------------------- MODULE DialServer_proof --------------------------
(***************************************************************************)
(* Proofs about the DIAL service for any number of threads, applications,  *)
(* origins and requests: mutual exclusion of the handlers, the release of  *)
(* the lock, the link between the origin check and the launch, and the     *)
(* agreement of the DIAL data in memory and on disk after writes that do   *)
(* not fail.                                                               *)
(***************************************************************************)
EXTENDS DialServer, TLAPS

\* A thread in a handler holds the lock and a registered application.
LockInv ==
    /\ \A t \in Threads : pc[t] \in Holding <=> mux = t
    /\ \A t \in Threads : pc[t] \in Holding => req[t].app \in DOMAIN apps
    /\ \A t \in Threads : pc[t] # "idle" => req[t] \in Requests

\* What has been read was not rejected.
BodyInv == \A t \in Threads : /\ got[t] # "bad"
                              /\ pc[t] = "startcb" => got[t] \in {"short", "full"}

\* The list of the application a request names is among those that have been seen.
SeenInv ==
    \A t \in Threads :
        pc[t] # "idle" /\ req[t].app \in DOMAIN apps
        => apps[req[t].app].cors \in seen[t]

\* Only launches read a body for start_cb, and a launch for a checked origin has
\* passed the check.
VetInv ==
    \A t \in Threads :
        /\ pc[t] = "read" => req[t].method = "POST"
        /\ pc[t] = "startcb" => req[t].uri = "app" /\ req[t].method = "POST"
        /\ (/\ pc[t] \in {"handler", "read", "startcb"}
            /\ req[t].uri = "app" /\ req[t].method = "POST"
            /\ req[t].origin # Exempt)
           => \E list \in seen[t] : list = {} \/ req[t].origin \in list

\* Memory and file differ only while a thread is about to save.
DataInv ==
    \A a \in DOMAIN apps :
        \/ file[a] = "damaged"
        \/ apps[a].data \in {file[a], ReadBack[file[a]], "unread"}
        \/ \E t \in Threads : pc[t] = "save" /\ req[t].app = a

\* What a thread is about to save is what it has parsed.
SaveInv == \A t \in Threads :
               pc[t] = "save" => apps[req[t].app].data \in {"short", "full"}

Inv == TypeOK /\ LockInv /\ BodyInv /\ SeenInv /\ VetInv /\ DataInv /\ SaveInv
-----------------------------------------------------------------------------
\* What a thread that answers leaves behind, and that the others are untouched.
LEMMA Responded ==
    ASSUME TypeOK, NEW t \in Threads, NEW response, Respond(t, response)
    PROVE  /\ pc'[t] = "idle" /\ got'[t] = "short"
           /\ \A u \in Threads \ {t} :
                  /\ pc'[u] = pc[u] /\ req'[u] = req[u]
                  /\ got'[u] = got[u] /\ seen'[u] = seen[u]
  BY DEF Respond, TypeOK

\* The same for an answer with a code only.
LEMMA Answered ==
    ASSUME TypeOK, NEW t \in Threads, NEW code, Answer(t, code)
    PROVE  /\ pc'[t] = "idle" /\ got'[t] = "short"
           /\ \A u \in Threads \ {t} :
                  /\ pc'[u] = pc[u] /\ req'[u] = req[u]
                  /\ got'[u] = got[u] /\ seen'[u] = seen[u]
  BY Responded DEF Answer

\* A thread that goes on keeps its request, and the others are untouched.
LEMMA Went ==
    ASSUME TypeOK, NEW t \in Threads, NEW s, Goto(t, s)
    PROVE  /\ pc'[t] = s /\ req' = req /\ seen' = seen
           /\ \A u \in Threads \ {t} : pc'[u] = pc[u]
  BY DEF Goto, TypeOK

\* request_handler answers or goes on to the check or to the handler, and to the
\* handler without a check only with requests that launch nothing.
LEMMA Received ==
    ASSUME TypeOK, NEW t \in Threads, NEW r \in Requests, Receive(t, r)
    PROVE  /\ pc'[t] \in {"idle", "check", "handler"}
           /\ pc'[t] # "idle" => req'[t] = r
           /\ pc'[t] = "handler" => r.uri # "app" \/ r.method # "POST"
           /\ pc'[t] # "idle" /\ r.app \in DOMAIN apps => apps[r.app].cors \in seen'[t]
           /\ got'[t] \in {got[t], "short"}
           /\ \A u \in Threads \ {t} :
                  /\ pc'[u] = pc[u] /\ req'[u] = req[u]
                  /\ got'[u] = got[u] /\ seen'[u] = seen[u]
<1>1. Route(r) \in Codes \/ Route(r) \in {"check", "handler"}
  BY DEF Route, Codes
<1>2. CASE Route(r) \in Codes
  BY <1>2, Answered DEF Receive
<1>3. CASE Route(r) \in {"check", "handler"} /\ Route(r) \notin Codes
  <2>1. Route(r) = "handler" => r.uri # "app" \/ r.method # "POST"
    BY DEF Route
  <2>2. pc'[t] = Route(r) /\ req'[t] = r
        /\ seen'[t] = IF r.app \in DOMAIN apps THEN {apps[r.app].cors} ELSE {}
    BY <1>3 DEF Receive, TypeOK
  <2>3. \A u \in Threads \ {t} :
            /\ pc'[u] = pc[u] /\ req'[u] = req[u]
            /\ got'[u] = got[u] /\ seen'[u] = seen[u]
    BY <1>3 DEF Receive, TypeOK
  <2>4. got' = got
    BY <1>3 DEF Receive
  <2> QED
    BY <1>3, <2>1, <2>2, <2>3, <2>4
<1> QED
  BY <1>1, <1>2, <1>3

\* A registration adds the new list where it is looked at, and leaves the other
\* applications and every thread alone.
LEMMA Registered ==
    ASSUME TypeOK, NEW a \in Names, NEW l \in Lists, Register(a, l)
    PROVE  /\ DOMAIN apps' = DOMAIN apps \cup {a}
           /\ a \notin DOMAIN apps
           /\ \A b \in DOMAIN apps : apps'[b] = apps[b]
           /\ apps'[a].data \in SavedData(a)
           /\ pc' = pc /\ req' = req
           /\ \A t \in Threads : /\ seen[t] \subseteq seen'[t]
                                 /\ pc[t] # "idle" /\ req[t].app = a
                                    => apps'[a].cors \in seen'[t]
<1>1. PICK d \in SavedData(a) :
         apps' = [b \in DOMAIN apps \cup {a} |->
               IF b = a THEN [state |-> "stopped", payload |-> Garbage, data |-> d,
                              cors |-> IF l.fits THEN l.allowed ELSE {},
                              asked |-> l.allowed]
                        ELSE apps[b]]
  BY DEF Register
<1>2. /\ DOMAIN apps' = DOMAIN apps \cup {a} /\ a \notin DOMAIN apps
      /\ \A b \in DOMAIN apps : apps'[b] = apps[b]
      /\ apps'[a].data \in SavedData(a)
  BY <1>1 DEF Register
<1>3. seen' = [t \in Threads |->
           seen[t] \cup IF pc[t] # "idle" /\ req[t].app = a
                       THEN {apps'[a].cors} ELSE {}]
  BY DEF Register
<1> QED
  BY <1>2, <1>3 DEF Register

\* Every step keeps the handlers mutually exclusive.
LEMMA LockStep ==
    ASSUME TypeOK, LockInv, [Next]_vars
    PROVE  LockInv'
<1> Nobody \notin Threads
  BY DialAssumption
<1>1. ASSUME NEW t \in Threads, CheckOrigin(t) PROVE LockInv'
  BY <1>1, Answered, Went DEF CheckOrigin, LockInv, Holding
<1>2. ASSUME NEW t \in Threads, NotFound(t) PROVE LockInv'
  BY <1>2, Answered DEF NotFound, Same, LockInv, Holding
<1>3. ASSUME NEW t \in Threads, LockToRead(t) PROVE LockInv'
  BY <1>3, Went DEF LockToRead, Locks, Same, LockInv, Holding
<1>4. ASSUME NEW t \in Threads, QueryData(t) PROVE LockInv'
  BY <1>4, Answered, Went DEF QueryData, Locks, Same, LockInv, Holding
<1>5. ASSUME NEW t \in Threads, ReadBody(t) PROVE LockInv'
  BY <1>5, Answered, Went DEF ReadBody, Same, LockInv, Holding
<1>6. ASSUME NEW t \in Threads, StartCb(t) PROVE LockInv'
  BY <1>6, Answered DEF StartCb, LockInv, Holding
<1>7. ASSUME NEW t \in Threads, Status(t) PROVE LockInv'
  BY <1>7, Responded DEF Status, Locks, Same, LockInv, Holding
<1>8. ASSUME NEW t \in Threads, LockToStop(t) PROVE LockInv'
  BY <1>8, Responded, Went DEF LockToStop, Locks, Same, LockInv, Holding
<1>9. ASSUME NEW t \in Threads, StopCb(t) PROVE LockInv'
  BY <1>9, Answered DEF StopCb, LockInv, Holding
<1>10. ASSUME NEW t \in Threads, HideCb(t) PROVE LockInv'
  BY <1>10, Answered DEF HideCb, LockInv, Holding
<1>11. ASSUME NEW t \in Threads, ParseData(t) PROVE LockInv'
  BY <1>11, Went DEF ParseData, Same, LockInv, Holding
<1>12. ASSUME NEW t \in Threads, SaveData(t) PROVE LockInv'
  BY <1>12, Answered DEF SaveData, LockInv, Holding
<1>13. ASSUME NEW t \in Threads, NEW r \in Requests, Receive(t, r) PROVE LockInv'
  BY <1>13, Received DEF Receive, LockInv, Holding
<1>14. ASSUME NEW a \in Names, NEW l \in Lists, Register(a, l) PROVE LockInv'
  BY <1>14, Registered DEF Register, LockInv, Holding
<1>15. ASSUME NEW a \in Names, Unregister(a) PROVE LockInv'
  BY <1>15 DEF Unregister, Same, LockInv, Holding
<1>16. ASSUME NEW a \in Names, AppMoves(a) PROVE LockInv'
  BY <1>16 DEF AppMoves, LockInv, Holding
<1>17. CASE UNCHANGED vars
  BY <1>17 DEF vars, LockInv, Holding
<1> QED
  BY <1>1, <1>2, <1>3, <1>4, <1>5, <1>6, <1>7, <1>8, <1>9, <1>10, <1>11, <1>12, <1>13, <1>14, <1>15, <1>16, <1>17 DEF Next, ThreadStep

\* Every step keeps rejected bodies out.
LEMMA BodyStep ==
    ASSUME TypeOK, LockInv, BodyInv, [Next]_vars
    PROVE  BodyInv'
<1>1. ASSUME NEW t \in Threads, CheckOrigin(t) PROVE BodyInv'
  BY <1>1, Answered, Went DEF CheckOrigin, BodyInv
<1>2. ASSUME NEW t \in Threads, NotFound(t) PROVE BodyInv'
  BY <1>2, Answered DEF NotFound, Same, BodyInv
<1>3. ASSUME NEW t \in Threads, LockToRead(t) PROVE BodyInv'
  BY <1>3, Went DEF LockToRead, Locks, Same, BodyInv
<1>4. ASSUME NEW t \in Threads, QueryData(t) PROVE BodyInv'
  BY <1>4, Answered, Went DEF QueryData, Locks, Same, BodyInv
<1>5. ASSUME NEW t \in Threads, ReadBody(t) PROVE BodyInv'
  <2> PICK b \in Prefixes(req[t].body) :
        \/ Answer(t, "413") \/ Answer(t, "400")
        \/ /\ b # "bad" /\ ~TooLarge(t, b)
           /\ got' = [got EXCEPT ![t] = b]
           /\ Goto(t, IF req[t].uri = "app" THEN "startcb" ELSE "parse")
    BY <1>5 DEF ReadBody
  <2>1. b \in Bodies
    <3> req[t].body \in Bodies
      BY <1>5, DialAssumption DEF ReadBody, LockInv
    <3> QED
      BY DEF Prefixes, Bodies
  <2>2. CASE Answer(t, "413") \/ Answer(t, "400")
    BY <2>2, Answered DEF BodyInv
  <2>3. CASE b # "bad" /\ ~TooLarge(t, b) /\ got' = [got EXCEPT ![t] = b]
             /\ Goto(t, IF req[t].uri = "app" THEN "startcb" ELSE "parse")
    BY <2>1, <2>3, Went DEF BodyInv, TooLarge, Bodies, TypeOK
  <2> QED
    BY <2>2, <2>3
<1>6. ASSUME NEW t \in Threads, StartCb(t) PROVE BodyInv'
  BY <1>6, Answered DEF StartCb, BodyInv
<1>7. ASSUME NEW t \in Threads, Status(t) PROVE BodyInv'
  BY <1>7, Responded DEF Status, Locks, Same, BodyInv
<1>8. ASSUME NEW t \in Threads, LockToStop(t) PROVE BodyInv'
  BY <1>8, Responded, Went DEF LockToStop, Locks, Same, BodyInv
<1>9. ASSUME NEW t \in Threads, StopCb(t) PROVE BodyInv'
  BY <1>9, Answered DEF StopCb, BodyInv
<1>10. ASSUME NEW t \in Threads, HideCb(t) PROVE BodyInv'
  BY <1>10, Answered DEF HideCb, BodyInv
<1>11. ASSUME NEW t \in Threads, ParseData(t) PROVE BodyInv'
  BY <1>11, Went DEF ParseData, Same, BodyInv
<1>12. ASSUME NEW t \in Threads, SaveData(t) PROVE BodyInv'
  BY <1>12, Answered DEF SaveData, BodyInv
<1>13. ASSUME NEW t \in Threads, NEW r \in Requests, Receive(t, r) PROVE BodyInv'
  BY <1>13, Received DEF Receive, BodyInv
<1>14. ASSUME NEW a \in Names, NEW l \in Lists, Register(a, l) PROVE BodyInv'
  BY <1>14 DEF Register, BodyInv
<1>15. ASSUME NEW a \in Names, Unregister(a) PROVE BodyInv'
  BY <1>15 DEF Unregister, Same, BodyInv
<1>16. ASSUME NEW a \in Names, AppMoves(a) PROVE BodyInv'
  BY <1>16 DEF AppMoves, BodyInv
<1>17. CASE UNCHANGED vars
  BY <1>17 DEF vars, BodyInv
<1> QED
  BY <1>1, <1>2, <1>3, <1>4, <1>5, <1>6, <1>7, <1>8, <1>9, <1>10, <1>11, <1>12, <1>13, <1>14, <1>15, <1>16, <1>17 DEF Next, ThreadStep

\* What status_cb may report.
LEMMA RefreshedAre ==
    ASSUME NEW a, NEW s \in Refreshed(a)
    PROVE  \/ s[1] = proc[a] /\ s[2] = TRUE
           \/ s[1] = "stopped" /\ s[2] = FALSE
<1>1. s = <<proc[a], TRUE>> \/ s = <<"stopped", FALSE>>
  BY DEF Refreshed
<1>2. CASE s = <<proc[a], TRUE>>
  BY <1>2
<1>3. CASE s = <<"stopped", FALSE>>
  BY <1>3
<1> QED
  BY <1>1, <1>2, <1>3

\* A callback changes the state and the payload of its application only.
LEMMA CallbackKeeps ==
    ASSUME TypeOK, NEW t \in Threads, StartCb(t) \/ HideCb(t)
    PROVE  /\ DOMAIN apps' = DOMAIN apps
           /\ \A a \in DOMAIN apps : /\ apps'[a].cors = apps[a].cors
                                      /\ apps'[a].data = apps[a].data
<1>1. CASE StartCb(t)
  BY <1>1 DEF StartCb, TypeOK, AppRecord
<1>2. CASE HideCb(t)
  BY <1>2 DEF HideCb, TypeOK, AppRecord
<1> QED
  BY <1>1, <1>2

\* No step of a handler changes a list of origins.
LEMMA HandlerKeepsLists ==
    ASSUME TypeOK, NEW t \in Threads, ThreadStep(t)
    PROVE  /\ DOMAIN apps' = DOMAIN apps
           /\ \A a \in DOMAIN apps : apps'[a].cors = apps[a].cors
<1>1. CASE StartCb(t) \/ HideCb(t)
  BY <1>1, CallbackKeeps
<1>2. CASE Status(t)
  BY <1>2 DEF Status, TypeOK, AppRecord
<1>3. CASE LockToStop(t)
  BY <1>3 DEF LockToStop, TypeOK, AppRecord
<1>4. CASE StopCb(t)
  BY <1>4 DEF StopCb, TypeOK, AppRecord
<1>5. CASE ParseData(t)
  BY <1>5 DEF ParseData, TypeOK, AppRecord
<1> QED
  BY <1>1, <1>2, <1>3, <1>4, <1>5 DEF ThreadStep, CheckOrigin, NotFound, LockToRead,
     QueryData, ReadBody, SaveData

\* A step of a handler answers the request or goes on with it.
LEMMA HandlerMoves ==
    ASSUME TypeOK, NEW t \in Threads, ThreadStep(t), NEW u \in Threads
    PROVE  /\ \/ pc'[u] = "idle"
              \/ pc[u] # "idle" /\ req'[u] = req[u] /\ seen'[u] = seen[u]
           /\ u # t => pc'[u] = pc[u]
<1>1. \/ \E response : Respond(t, response)
      \/ pc[t] # "idle" /\ \E s : Goto(t, s)
      \/ pc[t] # "idle" /\ UNCHANGED <<pc, req, seen>>
  BY DEF ThreadStep, CheckOrigin, NotFound, LockToRead, QueryData, ReadBody, StartCb,
     Status, LockToStop, StopCb, HideCb, ParseData, SaveData, Answer, Locks
<1>2. CASE \E response : Respond(t, response)
  BY <1>2, Responded
<1>3. CASE pc[t] # "idle" /\ \E s : Goto(t, s)
  BY <1>3, Went
<1>4. CASE pc[t] # "idle" /\ UNCHANGED <<pc, req, seen>>
  BY <1>4
<1> QED
  BY <1>1, <1>2, <1>3, <1>4

\* Every step keeps the lists that have been seen complete.
LEMMA SeenStep ==
    ASSUME TypeOK, SeenInv, [Next]_vars
    PROVE  SeenInv'
<1>1. ASSUME NEW t \in Threads, ThreadStep(t) PROVE SeenInv'
  BY <1>1, HandlerMoves, HandlerKeepsLists DEF SeenInv
<1>2. ASSUME NEW t \in Threads, NEW r \in Requests, Receive(t, r) PROVE SeenInv'
  BY <1>2, Received DEF Receive, SeenInv
<1>3. ASSUME NEW a \in Names, NEW l \in Lists, Register(a, l) PROVE SeenInv'
  BY <1>3, Registered DEF SeenInv
<1>4. ASSUME NEW a \in Names, Unregister(a) PROVE SeenInv'
  BY <1>4 DEF Unregister, Same, SeenInv
<1>5. ASSUME NEW a \in Names, AppMoves(a) PROVE SeenInv'
  BY <1>5 DEF AppMoves, SeenInv
<1>6. CASE UNCHANGED vars
  BY <1>6 DEF vars, SeenInv
<1> QED
  BY <1>1, <1>2, <1>3, <1>4, <1>5, <1>6 DEF Next

\* Every step keeps launches behind the check.
LEMMA VetStep ==
    ASSUME TypeOK, SeenInv, VetInv, [Next]_vars
    PROVE  VetInv'
<1>1. ASSUME NEW t \in Threads, CheckOrigin(t) PROVE VetInv'
  <2>1. CASE \E code : Answer(t, code)
    BY <1>1, <2>1, Answered DEF CheckOrigin, VetInv
  <2>2. CASE /\ req[t].origin = Exempt \/ Admits(req[t].app, req[t].origin)
             /\ Goto(t, "handler")
    <3>1. req[t].origin # Exempt =>
             \E list \in seen[t] : list = {} \/ req[t].origin \in list
      BY <1>1, <2>2 DEF CheckOrigin, Admits, SeenInv
    <3> QED
      BY <2>2, <3>1, Went DEF VetInv
  <2> QED
    BY <1>1, <2>1, <2>2 DEF CheckOrigin
<1>2. ASSUME NEW t \in Threads, NotFound(t) PROVE VetInv'
  BY <1>2, Answered DEF NotFound, Locks, Same, VetInv, Holding
<1>3. ASSUME NEW t \in Threads, LockToRead(t) PROVE VetInv'
  BY <1>3, Went DEF LockToRead, Locks, Same, VetInv, Holding
<1>4. ASSUME NEW t \in Threads, QueryData(t) PROVE VetInv'
  BY <1>4, Answered, Went DEF QueryData, Locks, Same, VetInv, Holding
<1>5. ASSUME NEW t \in Threads, ReadBody(t) PROVE VetInv'
  BY <1>5, Answered, Went DEF ReadBody, Locks, Same, VetInv, Holding
<1>6. ASSUME NEW t \in Threads, StartCb(t) PROVE VetInv'
  BY <1>6, Answered DEF StartCb, Locks, Same, VetInv, Holding
<1>7. ASSUME NEW t \in Threads, Status(t) PROVE VetInv'
  BY <1>7, Responded DEF Status, Locks, Same, VetInv, Holding
<1>8. ASSUME NEW t \in Threads, LockToStop(t) PROVE VetInv'
  <2>1. CASE \E response : Respond(t, response)
    BY <2>1, Responded DEF VetInv
  <2>2. CASE \E s \in {"stopcb", "hidecb"} : Goto(t, s)
    BY <2>2, Went DEF VetInv
  <2> QED
    BY <1>8, <2>1, <2>2 DEF LockToStop
<1>9. ASSUME NEW t \in Threads, StopCb(t) PROVE VetInv'
  BY <1>9, Answered DEF StopCb, Locks, Same, VetInv, Holding
<1>10. ASSUME NEW t \in Threads, HideCb(t) PROVE VetInv'
  BY <1>10, Answered DEF HideCb, Locks, Same, VetInv, Holding
<1>11. ASSUME NEW t \in Threads, ParseData(t) PROVE VetInv'
  BY <1>11, Went DEF ParseData, Locks, Same, VetInv, Holding
<1>12. ASSUME NEW t \in Threads, SaveData(t) PROVE VetInv'
  BY <1>12, Answered DEF SaveData, Locks, Same, VetInv, Holding
<1>13. ASSUME NEW t \in Threads, NEW r \in Requests, Receive(t, r) PROVE VetInv'
  BY <1>13, Received DEF Receive, VetInv
<1>14. ASSUME NEW a \in Names, NEW l \in Lists, Register(a, l) PROVE VetInv'
  BY <1>14, Registered DEF VetInv
<1>15. ASSUME NEW a \in Names, Unregister(a) PROVE VetInv'
  BY <1>15 DEF Unregister, Same, VetInv
<1>16. ASSUME NEW a \in Names, AppMoves(a) PROVE VetInv'
  BY <1>16 DEF AppMoves, VetInv
<1>17. CASE UNCHANGED vars
  BY <1>17 DEF vars, VetInv
<1> QED
  BY <1>1, <1>2, <1>3, <1>4, <1>5, <1>6, <1>7, <1>8, <1>9, <1>10, <1>11, <1>12, <1>13, <1>14, <1>15, <1>16, <1>17 DEF Next, ThreadStep

\* Every step keeps memory and file together.
LEMMA DataStep ==
    ASSUME TypeOK, LockInv, DataInv, [Next]_vars
    PROVE  DataInv'
<1>1. ASSUME NEW t \in Threads, CheckOrigin(t) PROVE DataInv'
  BY <1>1, Answered, Went DEF CheckOrigin, Same, DataInv, TypeOK, LockInv, Holding, AppRecord
<1>2. ASSUME NEW t \in Threads, NotFound(t) PROVE DataInv'
  BY <1>2, Answered DEF NotFound, Same, DataInv, TypeOK, LockInv, Holding, AppRecord
<1>3. ASSUME NEW t \in Threads, LockToRead(t) PROVE DataInv'
  BY <1>3, Went DEF LockToRead, Locks, Same, DataInv, TypeOK, LockInv, Holding, AppRecord
<1>4. ASSUME NEW t \in Threads, QueryData(t) PROVE DataInv'
  BY <1>4, Answered, Went DEF QueryData, Locks, Same, DataInv, TypeOK, LockInv, Holding, AppRecord
<1>5. ASSUME NEW t \in Threads, ReadBody(t) PROVE DataInv'
  BY <1>5, Answered, Went DEF ReadBody, Same, DataInv, TypeOK, LockInv, Holding, AppRecord
<1>6. ASSUME NEW t \in Threads, StartCb(t) PROVE DataInv'
  BY <1>6, Answered DEF StartCb, DataInv, TypeOK, LockInv, Holding, AppRecord
<1>7. ASSUME NEW t \in Threads, Status(t) PROVE DataInv'
  BY <1>7, Responded DEF Status, Locks, Same, DataInv, TypeOK, LockInv, Holding, AppRecord
<1>8. ASSUME NEW t \in Threads, LockToStop(t) PROVE DataInv'
  BY <1>8, Responded, Went DEF LockToStop, Locks, Same, DataInv, TypeOK, LockInv, Holding, AppRecord
<1>9. ASSUME NEW t \in Threads, StopCb(t) PROVE DataInv'
  BY <1>9, Answered DEF StopCb, DataInv, TypeOK, LockInv, Holding, AppRecord
<1>10. ASSUME NEW t \in Threads, HideCb(t) PROVE DataInv'
  <2> \E code : Answer(t, code)
    BY <1>10 DEF HideCb
  <2> pc[t] = "hidecb" /\ file' = file
    BY <1>10 DEF HideCb
  <2> QED
    BY <1>10, CallbackKeeps, Answered DEF DataInv
<1>11. ASSUME NEW t \in Threads, ParseData(t) PROVE DataInv'
  BY <1>11, Went DEF ParseData, Same, DataInv, TypeOK, LockInv, Holding, AppRecord
<1>12. ASSUME NEW t \in Threads, SaveData(t) PROVE DataInv'
  <2>1. pc[t] = "save" /\ mux = t /\ apps' = apps /\ req[t].app \in Names
    BY <1>12 DEF SaveData, LockInv, Holding, TypeOK
  <2>2. \A u \in Threads : pc[u] = "save" => u = t
    BY <2>1 DEF LockInv, Holding
  <2>3. CASE UNCHANGED <<file, pc, req>>
    BY <2>1, <2>3 DEF DataInv
  <2>4. CASE \E w \in {apps[req[t].app].data, "damaged"} :
                 file' = [file EXCEPT ![req[t].app] = w]
    <3>1. file'[req[t].app] \in {apps[req[t].app].data, "damaged"}
          /\ \A b \in Names \ {req[t].app} : file'[b] = file[b]
      BY <2>1, <2>4 DEF TypeOK
    <3> QED
      BY <2>1, <2>2, <3>1 DEF DataInv, TypeOK
  <2> QED
    BY <1>12, <2>3, <2>4 DEF SaveData
<1>13. ASSUME NEW t \in Threads, NEW r \in Requests, Receive(t, r) PROVE DataInv'
  BY <1>13, Received DEF Receive, DataInv, TypeOK, LockInv, Holding, AppRecord
<1>14. ASSUME NEW a \in Names, NEW l \in Lists, Register(a, l) PROVE DataInv'
  <2>1. apps'[a].data \in {ReadBack[file[a]], "unread"}
    BY <1>14, Registered DEF SavedData
  <2>2. file' = file /\ pc' = pc /\ req' = req
    BY <1>14 DEF Register
  <2> QED
    <3>1. DOMAIN apps' = DOMAIN apps \cup {a} /\ \A b \in DOMAIN apps : apps'[b] = apps[b]
      BY <1>14, Registered
    <3> QED
      BY <2>1, <2>2, <3>1 DEF DataInv
<1>15. ASSUME NEW a \in Names, Unregister(a) PROVE DataInv'
  BY <1>15 DEF Unregister, Same, DataInv, TypeOK, LockInv, Holding, AppRecord
<1>16. ASSUME NEW a \in Names, AppMoves(a) PROVE DataInv'
  BY <1>16 DEF AppMoves, DataInv, TypeOK, LockInv, Holding, AppRecord
<1>17. CASE UNCHANGED vars
  BY <1>17 DEF vars, DataInv, TypeOK, LockInv, Holding, AppRecord
<1> QED
  BY <1>1, <1>2, <1>3, <1>4, <1>5, <1>6, <1>7, <1>8, <1>9, <1>10, <1>11, <1>12, <1>13, <1>14, <1>15, <1>16, <1>17 DEF Next, ThreadStep

\* Every step keeps what is about to be saved.
LEMMA SaveStep ==
    ASSUME TypeOK, LockInv, BodyInv, SaveInv, [Next]_vars
    PROVE  SaveInv'
<1>1. ASSUME NEW t \in Threads, CheckOrigin(t) PROVE SaveInv'
  BY <1>1, Answered, Went DEF CheckOrigin, Locks, Same, SaveInv
<1>2. ASSUME NEW t \in Threads, NotFound(t) PROVE SaveInv'
  BY <1>2, Answered DEF NotFound, Locks, Same, SaveInv
<1>3. ASSUME NEW t \in Threads, LockToRead(t) PROVE SaveInv'
  BY <1>3, Went DEF LockToRead, Locks, Same, SaveInv
<1>4. ASSUME NEW t \in Threads, QueryData(t) PROVE SaveInv'
  BY <1>4, Answered, Went DEF QueryData, Locks, Same, SaveInv
<1>5. ASSUME NEW t \in Threads, ReadBody(t) PROVE SaveInv'
  BY <1>5, Answered, Went DEF ReadBody, Locks, Same, SaveInv
<1>6. ASSUME NEW t \in Threads, StartCb(t) PROVE SaveInv'
  <2>1. \A u \in Threads : pc[u] = "save" => u = t
    BY <1>6 DEF StartCb, LockInv, Holding
  <2> QED
    BY <1>6, <2>1, Answered DEF StartCb, SaveInv
<1>7. ASSUME NEW t \in Threads, Status(t) PROVE SaveInv'
  <2>1. \A u \in Threads : pc[u] # "save"
    BY <1>7, DialAssumption DEF Status, Locks, LockInv, Holding
  <2> QED
    BY <1>7, <2>1, Responded DEF Status, SaveInv
<1>8. ASSUME NEW t \in Threads, LockToStop(t) PROVE SaveInv'
  <2>1. \A u \in Threads : pc[u] # "save"
    <3> mux = Nobody
      BY <1>8 DEF LockToStop, Locks
    <3> QED
      BY DialAssumption DEF LockInv, Holding
  <2> QED
    BY <1>8, <2>1, Responded, Went DEF LockToStop, SaveInv
<1>9. ASSUME NEW t \in Threads, StopCb(t) PROVE SaveInv'
  <2>1. \A u \in Threads : pc[u] = "save" => u = t
    BY <1>9 DEF StopCb, LockInv, Holding
  <2> QED
    BY <1>9, <2>1, Answered DEF StopCb, SaveInv
<1>10. ASSUME NEW t \in Threads, HideCb(t) PROVE SaveInv'
  <2>1. \A u \in Threads : pc[u] = "save" => u = t
    BY <1>10 DEF HideCb, LockInv, Holding
  <2> QED
    BY <1>10, <2>1, Answered DEF HideCb, SaveInv
<1>11. ASSUME NEW t \in Threads, ParseData(t) PROVE SaveInv'
  <2>1. apps'[req[t].app].data \in {"short", "full"}
    <3> req[t].app \in DOMAIN apps /\ got[t] \in Bodies \ {"bad"}
      BY <1>11 DEF ParseData, LockInv, BodyInv, Holding, TypeOK
    <3> QED
      <4> DataOf(t) \in {"short", "full"}
        BY DEF DataOf, Bodies
      <4> apps'[req[t].app].data = DataOf(t)
        BY <1>11 DEF ParseData, TypeOK, AppRecord
      <4> QED
        OBVIOUS
  <2>2. \A u \in Threads \ {t} : pc'[u] # "save"
    BY <1>11, Went DEF ParseData, LockInv, Holding
  <2> QED
    BY <1>11, <2>1, <2>2, Went DEF ParseData, SaveInv
<1>12. ASSUME NEW t \in Threads, SaveData(t) PROVE SaveInv'
  <2>1. \A u \in Threads : pc[u] = "save" => u = t
    BY <1>12 DEF SaveData, LockInv, Holding
  <2> QED
    BY <1>12, <2>1, Answered DEF SaveData, SaveInv
<1>13. ASSUME NEW t \in Threads, NEW r \in Requests, Receive(t, r) PROVE SaveInv'
  BY <1>13, Received DEF Receive, SaveInv
<1>14. ASSUME NEW a \in Names, NEW l \in Lists, Register(a, l) PROVE SaveInv'
  BY <1>14, Registered DEF SaveInv, LockInv, Holding
<1>15. ASSUME NEW a \in Names, Unregister(a) PROVE SaveInv'
  <2> mux = Nobody /\ pc' = pc
    BY <1>15 DEF Unregister
  <2> QED
    BY DialAssumption DEF SaveInv, LockInv, Holding
<1>16. ASSUME NEW a \in Names, AppMoves(a) PROVE SaveInv'
  BY <1>16 DEF AppMoves, SaveInv
<1>17. CASE UNCHANGED vars
  BY <1>17 DEF vars, SaveInv
<1> QED
  BY <1>1, <1>2, <1>3, <1>4, <1>5, <1>6, <1>7, <1>8, <1>9, <1>10, <1>11, <1>12, <1>13, <1>14, <1>15, <1>16, <1>17 DEF Next, ThreadStep

-----------------------------------------------------------------------------
(* Type correctness, in three parts.                                       *)

ThreadTypes ==
    /\ pc \in [Threads -> PcStates]
    /\ req \in [Threads -> Requests \cup {NoRequest}]
    /\ got \in [Threads -> Bodies]
    /\ seen \in [Threads -> SUBSET SUBSET Origins]
    /\ reply \in [code : Codes, searched : BOOLEAN]

RegistryTypes == DOMAIN apps \subseteq Names /\ apps \in [DOMAIN apps -> AppRecord]

WorldTypes ==
    /\ mux \in Threads \cup {Nobody}
    /\ proc \in [Names -> Statuses]
    /\ file \in [Names -> Saved]
    /\ exited \in BOOLEAN
    /\ requests \in 0..MaxRequests /\ registrations \in 0..MaxRegistrations

\* The bounds are numbers.
LEMMA Bounds == MaxRequests \in Nat /\ MaxRegistrations \in Nat
  BY DialAssumption

\* The three parts are the type invariant.
LEMMA TypeParts == TypeOK <=> ThreadTypes /\ RegistryTypes /\ WorldTypes
  BY DEF TypeOK, ThreadTypes, RegistryTypes, WorldTypes

\* An answer keeps the types of the threads.
LEMMA AnswerTypes ==
    ASSUME ThreadTypes, NEW t \in Threads, NEW code \in Codes, Answer(t, code)
    PROVE  ThreadTypes'
  BY DEF Answer, Respond, ThreadTypes, PcStates, Bodies

\* The same with the note whether the application was looked for.
LEMMA ResponseTypes ==
    ASSUME ThreadTypes, NEW t \in Threads, NEW code \in Codes, NEW b \in BOOLEAN,
           Respond(t, [code |-> code, searched |-> b])
    PROVE  ThreadTypes'
  BY DEF Respond, ThreadTypes, PcStates, Bodies

\* So does a move, if what it does to the body does.
LEMMA GotoTypes ==
    ASSUME ThreadTypes, NEW t \in Threads, NEW s \in PcStates, Goto(t, s),
           got' \in [Threads -> Bodies]
    PROVE  ThreadTypes'
  BY DEF Goto, ThreadTypes

\* A change of one application's state keeps the registry well typed ...
LEMMA StateTypes ==
    ASSUME RegistryTypes, NEW a \in DOMAIN apps, NEW s \in Statuses,
           apps' = [apps EXCEPT ![a].state = s]
    PROVE  RegistryTypes'
  BY DEF RegistryTypes, AppRecord

\* ... and so does a change of its payload as well ...
LEMMA PayloadTypes ==
    ASSUME RegistryTypes, NEW a \in DOMAIN apps, NEW s \in Statuses,
           NEW p \in {"short", "full"},
           apps' = [apps EXCEPT ![a].state = s, ![a].payload = p]
    PROVE  RegistryTypes'
  BY DEF RegistryTypes, AppRecord

\* ... or of its data.
LEMMA DataTypes ==
    ASSUME RegistryTypes, NEW a \in DOMAIN apps, NEW d \in {"short", "full"},
           apps' = [apps EXCEPT ![a].data = d]
    PROVE  RegistryTypes'
  BY DEF RegistryTypes, AppRecord, Saved

\* Every step keeps the types of the threads.
LEMMA ThreadTypesStep ==
    ASSUME ThreadTypes, RegistryTypes, LockInv, BodyInv, [Next]_vars
    PROVE  ThreadTypes'
<1> USE DEF Codes, PcStates, Holding
<1>1. ASSUME NEW t \in Threads, CheckOrigin(t) PROVE ThreadTypes'
  BY <1>1, AnswerTypes, GotoTypes DEF CheckOrigin, ThreadTypes
<1>2. ASSUME NEW t \in Threads, NotFound(t) PROVE ThreadTypes'
  BY <1>2, AnswerTypes DEF NotFound, Same, ThreadTypes
<1>3. ASSUME NEW t \in Threads, LockToRead(t) PROVE ThreadTypes'
  BY <1>3, GotoTypes DEF LockToRead, Locks, Same, ThreadTypes
<1>4. ASSUME NEW t \in Threads, QueryData(t) PROVE ThreadTypes'
  BY <1>4, AnswerTypes, GotoTypes DEF QueryData, Locks, Same, ThreadTypes
<1>5. ASSUME NEW t \in Threads, ReadBody(t) PROVE ThreadTypes'
  <2> PICK b \in Prefixes(req[t].body) :
        \/ Answer(t, "413") \/ Answer(t, "400")
        \/ /\ b # "bad" /\ ~TooLarge(t, b)
           /\ got' = [got EXCEPT ![t] = b]
           /\ Goto(t, IF req[t].uri = "app" THEN "startcb" ELSE "parse")
    BY <1>5 DEF ReadBody
  <2>1. CASE \E code \in {"413", "400"} : Answer(t, code)
    BY <2>1, AnswerTypes
  <2>2. CASE /\ got' = [got EXCEPT ![t] = b]
             /\ Goto(t, IF req[t].uri = "app" THEN "startcb" ELSE "parse")
    <3> b \in Bodies
      <4> req[t].body \in Bodies
        BY <1>5, DialAssumption DEF ReadBody, LockInv
      <4> QED
        BY DEF Prefixes, Bodies
    <3> got' \in [Threads -> Bodies]
      BY <2>2 DEF ThreadTypes
    <3> QED
      BY <2>2, GotoTypes
  <2> QED
    BY <2>1, <2>2
<1>6. ASSUME NEW t \in Threads, StartCb(t) PROVE ThreadTypes'
  BY <1>6, AnswerTypes DEF StartCb, ThreadTypes
<1>7. ASSUME NEW t \in Threads, Status(t) PROVE ThreadTypes'
  <2>1. \E b \in BOOLEAN : Respond(t, [code |-> "200", searched |-> b])
    BY <1>7, RefreshedAre DEF Status
  <2> QED
    BY <2>1, ResponseTypes
<1>8. ASSUME NEW t \in Threads, LockToStop(t) PROVE ThreadTypes'
  <2>1. \/ \E b \in BOOLEAN : Respond(t, [code |-> "404", searched |-> b])
        \/ \E s \in {"stopcb", "hidecb"} : Goto(t, s) /\ UNCHANGED got
    BY <1>8, RefreshedAre DEF LockToStop
  <2>2. CASE \E s \in {"stopcb", "hidecb"} : Goto(t, s) /\ UNCHANGED got
    <3> got' \in [Threads -> Bodies]
      BY <2>2 DEF ThreadTypes
    <3> QED
      BY <2>2, GotoTypes
  <2> QED
    BY <2>1, <2>2, ResponseTypes
<1>9. ASSUME NEW t \in Threads, StopCb(t) PROVE ThreadTypes'
  BY <1>9, AnswerTypes DEF StopCb, ThreadTypes
<1>10. ASSUME NEW t \in Threads, HideCb(t) PROVE ThreadTypes'
  BY <1>10, AnswerTypes DEF HideCb, ThreadTypes
<1>11. ASSUME NEW t \in Threads, ParseData(t) PROVE ThreadTypes'
  BY <1>11, GotoTypes DEF ParseData, Same, ThreadTypes
<1>12. ASSUME NEW t \in Threads, SaveData(t) PROVE ThreadTypes'
  BY <1>12, AnswerTypes DEF SaveData, ThreadTypes
<1>13. ASSUME NEW t \in Threads, NEW r \in Requests, Receive(t, r) PROVE ThreadTypes'
  <2>1. Route(r) \in Codes \/ Route(r) \in {"check", "handler"}
    BY DEF Route
  <2>2. CASE Route(r) \notin Codes
    <3>1. (IF r.app \in DOMAIN apps THEN {apps[r.app].cors} ELSE {})
          \in SUBSET SUBSET Origins
      <4>1. r.app \in DOMAIN apps => apps[r.app] \in AppRecord
        BY DEF RegistryTypes
      <4>2. r.app \in DOMAIN apps => apps[r.app].cors \in SUBSET Origins
        BY <4>1 DEF AppRecord
      <4> QED
        BY <4>2
    <3>2. seen' \in [Threads -> SUBSET SUBSET Origins]
      BY <1>13, <2>2, <3>1 DEF Receive, ThreadTypes
    <3> QED
      BY <1>13, <2>1, <2>2, <3>2 DEF Receive, ThreadTypes
  <2> QED
    BY <1>13, <2>1, <2>2, AnswerTypes DEF Receive
<1>14. ASSUME NEW a \in Names, NEW l \in Lists, Register(a, l) PROVE ThreadTypes'
  <2>1. apps'[a].cors \in SUBSET Origins
    <3> l.allowed \in SUBSET Origins
      BY DialAssumption
    <3> apps'[a].cors = IF l.fits THEN l.allowed ELSE {}
      BY <1>14 DEF Register
    <3> QED
      OBVIOUS
  <2>2. seen' \in [Threads -> SUBSET SUBSET Origins]
    BY <1>14, <2>1 DEF Register, ThreadTypes
  <2> QED
    BY <1>14, <2>2 DEF Register, ThreadTypes
<1>15. ASSUME NEW a \in Names, Unregister(a) PROVE ThreadTypes'
  BY <1>15 DEF Unregister, Same, ThreadTypes
<1>16. ASSUME NEW a \in Names, AppMoves(a) PROVE ThreadTypes'
  BY <1>16 DEF AppMoves, ThreadTypes
<1>17. CASE UNCHANGED vars
  BY <1>17 DEF vars, ThreadTypes
<1> QED
  BY <1>1, <1>2, <1>3, <1>4, <1>5, <1>6, <1>7, <1>8, <1>9, <1>10, <1>11, <1>12, <1>13, <1>14, <1>15, <1>16, <1>17 DEF Next, ThreadStep

\* Every step keeps the registry well typed.
LEMMA RegistryTypesStep ==
    ASSUME ThreadTypes, RegistryTypes, WorldTypes, LockInv, BodyInv, [Next]_vars
    PROVE  RegistryTypes'
<1>1. ASSUME NEW t \in Threads, CheckOrigin(t) PROVE RegistryTypes'
  BY <1>1 DEF CheckOrigin, RegistryTypes
<1>2. ASSUME NEW t \in Threads, NotFound(t) PROVE RegistryTypes'
  BY <1>2 DEF NotFound, Same, RegistryTypes
<1>3. ASSUME NEW t \in Threads, LockToRead(t) PROVE RegistryTypes'
  BY <1>3 DEF LockToRead, Locks, Same, RegistryTypes
<1>4. ASSUME NEW t \in Threads, QueryData(t) PROVE RegistryTypes'
  BY <1>4 DEF QueryData, Locks, Same, RegistryTypes
<1>5. ASSUME NEW t \in Threads, ReadBody(t) PROVE RegistryTypes'
  BY <1>5 DEF ReadBody, Same, RegistryTypes
<1>6. ASSUME NEW t \in Threads, StartCb(t) PROVE RegistryTypes'
  <2> DEFINE a == req[t].app
  <2>1. pc[t] = "startcb" /\ a \in DOMAIN apps /\ got[t] \in {"short", "full"}
    BY <1>6 DEF StartCb, LockInv, BodyInv, Holding
  <2>2. \/ apps' = [apps EXCEPT ![a].state = "running", ![a].payload = got[t]]
        \/ \E s \in Statuses : apps' = [apps EXCEPT ![a].state = s]
    <3>1. PICK res \in StartResults(a) :
            IF res[1] = "running"
            THEN apps' = [apps EXCEPT ![a].state = res[1], ![a].payload = got[t]]
            ELSE apps' = [apps EXCEPT ![a].state = res[1]]
      BY <1>6 DEF StartCb
    <3>2. res[1] \in {"running", "stopped"}
      BY DEF StartResults
    <3> QED
      BY <3>1, <3>2 DEF Statuses
  <2> QED
    BY <2>1, <2>2, StateTypes, PayloadTypes DEF Statuses
<1>7. ASSUME NEW t \in Threads, Status(t) PROVE RegistryTypes'
  <2>1. req[t].app \in DOMAIN apps /\ \A s \in Refreshed(req[t].app) : s[1] \in Statuses
    <3> req[t].app \in DOMAIN apps /\ proc[req[t].app] \in Statuses
      BY <1>7 DEF Status, RegistryTypes, WorldTypes
    <3> QED
      BY RefreshedAre DEF Statuses
  <2>2. \E s \in Statuses : apps' = [apps EXCEPT ![req[t].app].state = s]
    BY <1>7, <2>1 DEF Status
  <2> QED
    BY <2>1, <2>2, StateTypes
<1>8. ASSUME NEW t \in Threads, LockToStop(t) PROVE RegistryTypes'
  <2>1. req[t].app \in DOMAIN apps /\ \A s \in Refreshed(req[t].app) : s[1] \in Statuses
    <3> req[t].app \in DOMAIN apps /\ proc[req[t].app] \in Statuses
      BY <1>8 DEF LockToStop, RegistryTypes, WorldTypes
    <3> QED
      BY RefreshedAre DEF Statuses
  <2>2. \E s \in Statuses : apps' = [apps EXCEPT ![req[t].app].state = s]
    BY <1>8, <2>1 DEF LockToStop
  <2> QED
    BY <2>1, <2>2, StateTypes
<1>9. ASSUME NEW t \in Threads, StopCb(t) PROVE RegistryTypes'
  <2> req[t].app \in DOMAIN apps /\ "stopped" \in Statuses
    BY <1>9 DEF StopCb, LockInv, Holding, Statuses
  <2> QED
    BY <1>9, StateTypes DEF StopCb
<1>10. ASSUME NEW t \in Threads, HideCb(t) PROVE RegistryTypes'
  <2> req[t].app \in DOMAIN apps /\ "hide" \in Statuses
    BY <1>10 DEF HideCb, LockInv, Holding, Statuses
  <2>1. apps' = apps \/ apps' = [apps EXCEPT ![req[t].app].state = "hide"]
    BY <1>10 DEF HideCb
  <2> QED
    BY <2>1, StateTypes DEF RegistryTypes
<1>11. ASSUME NEW t \in Threads, ParseData(t) PROVE RegistryTypes'
  <2> req[t].app \in DOMAIN apps
    BY <1>11 DEF ParseData, LockInv, Holding
  <2> DataOf(t) \in {"short", "full"}
    BY DEF DataOf, BodyInv, ThreadTypes, Bodies
  <2> QED
    BY <1>11, DataTypes DEF ParseData
<1>12. ASSUME NEW t \in Threads, SaveData(t) PROVE RegistryTypes'
  BY <1>12 DEF SaveData, RegistryTypes
<1>13. ASSUME NEW t \in Threads, NEW r \in Requests, Receive(t, r) PROVE RegistryTypes'
  BY <1>13 DEF Receive, RegistryTypes
<1>14. ASSUME NEW a \in Names, NEW l \in Lists, Register(a, l) PROVE RegistryTypes'
  <2>1. PICK d \in SavedData(a) :
           apps' = [b \in DOMAIN apps \cup {a} |->
               IF b = a THEN [state |-> "stopped", payload |-> Garbage, data |-> d,
                              cors |-> IF l.fits THEN l.allowed ELSE {},
                              asked |-> l.allowed]
                        ELSE apps[b]]
    BY <1>14 DEF Register
  <2> DEFINE new == [state |-> "stopped", payload |-> Garbage, data |-> d,
                     cors |-> IF l.fits THEN l.allowed ELSE {}, asked |-> l.allowed]
  <2>2. new \in AppRecord
    <3> l.allowed \in SUBSET Origins
      BY DialAssumption
    <3> d \in Saved \cup {"shortRead", "fullRead", "unread"}
      BY DEF SavedData, ReadBack, Saved, WorldTypes
    <3> QED
      BY DEF AppRecord, Statuses
  <2>3. apps' = [b \in DOMAIN apps \cup {a} |-> IF b = a THEN new ELSE apps[b]]
    BY <2>1
  <2> HIDE DEF new
  <2> QED
    BY <2>2, <2>3 DEF RegistryTypes
<1>15. ASSUME NEW a \in Names, Unregister(a) PROVE RegistryTypes'
  <2> DOMAIN apps' = DOMAIN apps \ {a}
      /\ apps' = [b \in DOMAIN apps \ {a} |-> apps[b]]
    BY <1>15 DEF Unregister, Same
  <2> QED
    BY DEF RegistryTypes
<1>16. ASSUME NEW a \in Names, AppMoves(a) PROVE RegistryTypes'
  BY <1>16 DEF AppMoves, RegistryTypes
<1>17. CASE UNCHANGED vars
  BY <1>17 DEF vars, RegistryTypes
<1> QED
  BY <1>1, <1>2, <1>3, <1>4, <1>5, <1>6, <1>7, <1>8, <1>9, <1>10, <1>11, <1>12, <1>13, <1>14, <1>15, <1>16, <1>17 DEF Next, ThreadStep

\* Every step keeps the rest well typed.
LEMMA WorldTypesStep ==
    ASSUME RegistryTypes, WorldTypes, LockInv, SaveInv, [Next]_vars
    PROVE  WorldTypes'
<1>1. ASSUME NEW t \in Threads, CheckOrigin(t) PROVE WorldTypes'
  BY <1>1 DEF CheckOrigin, Same, WorldTypes, RegistryTypes, Statuses
<1>2. ASSUME NEW t \in Threads, NotFound(t) PROVE WorldTypes'
  BY <1>2 DEF NotFound, Same, WorldTypes, RegistryTypes, Statuses
<1>3. ASSUME NEW t \in Threads, LockToRead(t) PROVE WorldTypes'
  BY <1>3 DEF LockToRead, Locks, Same, WorldTypes, RegistryTypes, Statuses
<1>4. ASSUME NEW t \in Threads, QueryData(t) PROVE WorldTypes'
  BY <1>4 DEF QueryData, Locks, Same, WorldTypes, RegistryTypes, Statuses
<1>5. ASSUME NEW t \in Threads, ReadBody(t) PROVE WorldTypes'
  BY <1>5 DEF ReadBody, Same, WorldTypes, RegistryTypes, Statuses
<1>6. ASSUME NEW t \in Threads, StartCb(t) PROVE WorldTypes'
  <2> DEFINE a == req[t].app
  <2>1. a \in Names
    BY <1>6 DEF StartCb, LockInv, Holding, RegistryTypes
  <2>2. PICK res \in StartResults(a) : proc' = [proc EXCEPT ![a] = res[2]]
    BY <1>6 DEF StartCb
  <2>3. res[2] \in {"running", "stopped", proc[a]}
    <3>1. StartResults(a) \subseteq {"running", "stopped"}
                                     \X {"running", "stopped", proc[a]}
      BY DEF StartResults
    <3> QED
      BY <3>1
  <2>4. proc' \in [Names -> Statuses]
    BY <2>1, <2>2, <2>3 DEF WorldTypes, Statuses
  <2> QED
    BY <1>6, <2>4 DEF StartCb, WorldTypes
<1>7. ASSUME NEW t \in Threads, Status(t) PROVE WorldTypes'
  BY <1>7 DEF Status, Locks, Same, WorldTypes, RegistryTypes, Statuses
<1>8. ASSUME NEW t \in Threads, LockToStop(t) PROVE WorldTypes'
  BY <1>8 DEF LockToStop, Locks, Same, WorldTypes, RegistryTypes, Statuses
<1>9. ASSUME NEW t \in Threads, StopCb(t) PROVE WorldTypes'
  <2>1. req[t].app \in Names
    BY <1>9 DEF StopCb, LockInv, Holding, RegistryTypes
  <2>2. PICK s \in StopResults(req[t].app) : proc' = [proc EXCEPT ![req[t].app] = s]
    BY <1>9 DEF StopCb
  <2>3. s \in {"stopped", proc[req[t].app]}
    BY DEF StopResults
  <2>4. proc' \in [Names -> Statuses]
    BY <2>1, <2>2, <2>3 DEF WorldTypes, Statuses
  <2> QED
    BY <1>9, <2>4 DEF StopCb, WorldTypes
<1>10. ASSUME NEW t \in Threads, HideCb(t) PROVE WorldTypes'
  BY <1>10 DEF HideCb, HideResults, WorldTypes, RegistryTypes, Statuses
<1>11. ASSUME NEW t \in Threads, ParseData(t) PROVE WorldTypes'
  BY <1>11 DEF ParseData, Same, WorldTypes, RegistryTypes, Statuses
<1>12. ASSUME NEW t \in Threads, SaveData(t) PROVE WorldTypes'
  <2>1. apps[req[t].app].data \in Saved
    BY <1>12 DEF SaveData, SaveInv, Saved
  <2>2. file' \in [Names -> Saved]
    BY <1>12, <2>1 DEF SaveData, WorldTypes, Saved
  <2> QED
    BY <1>12, <2>2 DEF SaveData, WorldTypes
<1>13. ASSUME NEW t \in Threads, NEW r \in Requests, Receive(t, r) PROVE WorldTypes'
  <2>1. requests' \in 0..MaxRequests
    <3>1. requests \in 0..MaxRequests /\ requests < MaxRequests
          /\ requests' = requests + 1
      BY <1>13 DEF Receive, WorldTypes
    <3> QED
      BY ONLY <3>1, Bounds
  <2>2. UNCHANGED <<mux, proc, file, exited, registrations>>
    BY <1>13 DEF Receive
  <2> QED
    BY <2>1, <2>2 DEF WorldTypes
<1>14. ASSUME NEW a \in Names, NEW l \in Lists, Register(a, l) PROVE WorldTypes'
  <2>1. registrations' \in 0..MaxRegistrations
    <3>1. registrations \in 0..MaxRegistrations /\ registrations < MaxRegistrations
          /\ registrations' = registrations + 1
      BY <1>14 DEF Register, WorldTypes
    <3> QED
      BY ONLY <3>1, Bounds
  <2>2. UNCHANGED <<mux, proc, file, exited, requests>>
    BY <1>14 DEF Register
  <2> QED
    BY <2>1, <2>2 DEF WorldTypes
<1>15. ASSUME NEW a \in Names, Unregister(a) PROVE WorldTypes'
  BY <1>15 DEF Unregister, Same, WorldTypes, RegistryTypes, Statuses
<1>16. ASSUME NEW a \in Names, AppMoves(a) PROVE WorldTypes'
  BY <1>16 DEF AppMoves, WorldTypes, RegistryTypes, Statuses
<1>17. CASE UNCHANGED vars
  BY <1>17 DEF vars, WorldTypes, RegistryTypes, Statuses
<1> QED
  BY <1>1, <1>2, <1>3, <1>4, <1>5, <1>6, <1>7, <1>8, <1>9, <1>10, <1>11, <1>12, <1>13, <1>14, <1>15, <1>16, <1>17 DEF Next, ThreadStep

\* Every step keeps the types.
LEMMA TypeStep ==
    ASSUME TypeOK, LockInv, BodyInv, SaveInv, [Next]_vars
    PROVE  TypeOK'
<1>1. ThreadTypes /\ RegistryTypes /\ WorldTypes
  BY TypeParts
<1>2. ThreadTypes' /\ RegistryTypes' /\ WorldTypes'
  BY <1>1, ThreadTypesStep, RegistryTypesStep, WorldTypesStep
<1> QED
  BY <1>2, TypeParts, PTL DEF TypeOK, ThreadTypes, RegistryTypes, WorldTypes
-----------------------------------------------------------------------------
\* The initial state satisfies the invariant.
LEMMA InitInv == Init => Inv
<1> SUFFICES ASSUME Init PROVE Inv
  OBVIOUS
<1> USE DialAssumption, Bounds DEF Init
<1>1. TypeOK
  <2>1. ThreadTypes
    BY DEF ThreadTypes, PcStates, Codes, Bodies
  <2>2. DOMAIN apps = {} /\ apps = [a \in {} |-> {}]
    BY DEF Init
  <2>3. RegistryTypes
    BY <2>2 DEF RegistryTypes
  <2>4. WorldTypes
    <3>1. 0 \in 0..MaxRequests /\ 0 \in 0..MaxRegistrations
      BY ONLY Bounds
    <3> QED
      BY <3>1 DEF WorldTypes, Statuses, Saved
  <2> QED
    BY <2>1, <2>3, <2>4, TypeParts
<1>2. LockInv
  BY DEF LockInv, Holding
<1>3. BodyInv /\ SeenInv /\ SaveInv
  BY DEF BodyInv, SeenInv, SaveInv
<1>4. VetInv
  BY DEF VetInv, Holding
<1>5. DataInv
  BY DEF DataInv
<1> QED
  BY <1>1, <1>2, <1>3, <1>4, <1>5 DEF Inv

\* The inductive invariant holds in every reachable state.
THEOREM ServiceInvariant == Spec => []Inv
<1>1. Inv /\ [Next]_vars => Inv'
  <2> SUFFICES ASSUME Inv, [Next]_vars PROVE Inv'
    OBVIOUS
  <2> QED
    BY TypeStep, LockStep, BodyStep, SeenStep, VetStep, DataStep, SaveStep DEF Inv
<1> QED
  BY <1>1, InitInv, PTL DEF Spec

\* Type correctness: in particular no payload is longer than app->payload and
\* no rejected body reaches the payload or the DIAL data.
THEOREM ServiceTypes == Spec => []TypeOK
<1>1. Inv => TypeOK
  BY DEF Inv
<1> QED
  BY <1>1, ServiceInvariant, PTL

\* ds->mux: the application a handler works on stays registered until the
\* handler is done, the handlers exclude each other, and no path through
\* request_handler, an error path included, returns with the lock.
THEOREM LockDisciplineHolds == Spec => []LockDiscipline
<1>1. Inv => HandlerOwnsApp
  BY DEF Inv, LockInv, HandlerOwnsApp
<1>2. Inv => LockReleased
  BY DEF Inv, LockInv, LockReleased, TypeOK
<1>3. Inv => LockDiscipline
  BY <1>1, <1>2 DEF LockDiscipline
<1> QED
  BY <1>3, ServiceInvariant, PTL

\* is_allowed_origin and handle_app_start: although the lock is released between
\* the check and the launch, and the application can be another by then, a launch
\* for a checked origin has been admitted by a list that the application had while
\* the request was served.
THEOREM LaunchesWereAdmitted == Spec => []LaunchWasAdmitted
<1>1. Inv => LaunchWasAdmitted
  BY DEF Inv, LockInv, VetInv, LaunchWasAdmitted
<1> QED
  BY <1>1, ServiceInvariant, PTL

\* handle_dial_data and DIAL_register_app: whenever the lock is free, the DIAL data
\* in memory are the file's, as they were sent or as they are read back, unless a
\* write failed or the file could not be opened for reading.
THEOREM DataIsSaved == Spec => []DataSaved
<1>1. Inv => DataSaved
  <2>1. Inv /\ mux = Nobody => \A t \in Threads : pc[t] # "save"
    BY DialAssumption DEF Inv, LockInv, Holding
  <2> QED
    BY <2>1 DEF Inv, DataInv, DataSaved
<1> QED
  BY <1>1, ServiceInvariant, PTL

\* handle_app_stop and handle_app_hide: a 404 for a registered application comes from
\* the application itself or from a search that could not read /proc, never from
\* the state an earlier request left.
THEOREM RunningAppsAreFound == Spec => NeverDeniesRunningApp
<1>1. Inv /\ [Next]_vars =>
         [\A t \in Threads :
            (/\ pc[t] = "handler" /\ pc'[t] = "idle" /\ reply'.code = "404"
             /\ req[t].app \in DOMAIN apps)
            => proc[req[t].app] = "stopped" \/ ~reply'.searched]_vars
  <2> SUFFICES ASSUME Inv, [Next]_vars, NEW u \in Threads,
                      pc[u] = "handler", pc'[u] = "idle", reply'.code = "404",
                      req[u].app \in DOMAIN apps
               PROVE  proc[req[u].app] = "stopped" \/ ~reply'.searched
    OBVIOUS
  <2>1. TypeOK
    BY DEF Inv
  <2>2. PICK t \in Threads : ThreadStep(t) \/ \E r \in Requests : Receive(t, r)
    BY DEF Next, vars, Unregister, AppMoves, Register
  <2>3. t = u
    BY <2>1, <2>2, HandlerMoves, Received
  <2>4. LockToStop(u)
    <3>1. ~NotFound(u) /\ ~CheckOrigin(u) /\ ~ReadBody(u) /\ ~StartCb(u) /\ ~StopCb(u)
          /\ ~HideCb(u) /\ ~ParseData(u) /\ ~SaveData(u)
      BY DEF NotFound, CheckOrigin, ReadBody, StartCb, StopCb, HideCb, ParseData, SaveData
    <3>2. ~LockToRead(u)
      BY <2>1, Went DEF LockToRead
    <3>3. ~QueryData(u)
      BY <2>1, Went DEF QueryData, Answer, Respond
    <3>4. ~Status(u)
      <4> SUFFICES ASSUME Status(u) PROVE FALSE
        OBVIOUS
      <4> PICK b : reply' = [code |-> "200", searched |-> b]
        BY DEF Status, Respond
      <4> QED
        OBVIOUS
    <3>5. \A r \in Requests : ~Receive(u, r)
      BY DEF Receive
    <3> QED
      BY <2>2, <2>3, <3>1, <3>2, <3>3, <3>4, <3>5 DEF ThreadStep
  <2>5. PICK s \in Refreshed(req[u].app) :
           IF s[1] = "stopped" THEN Respond(u, [code |-> "404", searched |-> s[2]])
                               ELSE pc'[u] # "idle"
    BY <2>1, <2>4, Went DEF LockToStop
  <2>6. s[1] = "stopped" /\ reply'.searched = s[2]
    BY <2>5 DEF Respond
  <2> QED
    BY <2>5, <2>6, RefreshedAre
<1> QED
  BY <1>1, ServiceInvariant, PTL DEF Spec, NeverDeniesRunningApp
=============================================================================
