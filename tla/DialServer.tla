----------------------------- MODULE DialServer -----------------------------
(***************************************************************************)
(* The DIAL REST service (server/dial_server.c): request_handler on the    *)
(* worker threads of the web server, the registry of applications behind   *)
(* ds->mux, the CORS check that locks and unlocks the registry before the  *)
(* handler locks it again, and the application callbacks that run with the *)
(* lock held (server/main.c, server/nf_callbacks.c).                       *)
(*                                                                         *)
(* The lock is kept across everything that can take time: the read of the  *)
(* request body, the callbacks and the save of the DIAL data.  Each of     *)
(* these is a step of its own; what happens between two of them is one     *)
(* step.                                                                   *)
(***************************************************************************)
EXTENDS Integers, FiniteSets

CONSTANTS
    Threads,    \* worker threads of the web server
    Kind,       \* Kind[a]: whose callbacks application a is registered with
    Origins,    \* origins with a scheme that is checked (http, https, file)
    Exempt,     \* no Origin header, an empty one or another scheme
    Lists,      \* the CORS lists applications are registered with
    Requests,   \* the requests clients send
    Nobody,     \* owner of a free lock
    MaxRequests, MaxRegistrations

Names == DOMAIN Kind

Statuses == {"stopped", "hide", "running"}

\* Length and content of a request body as the handlers tell them apart: up to
\* DIAL_MAX_PAYLOAD - 1 bytes, exactly DIAL_MAX_PAYLOAD, more, or with a byte
\* that isBadPayload rejects.
Bodies == {"short", "full", "over", "bad"}

\* DIAL data on disk: none, a list, or what a failing write left of one.
Saved == {"none", "short", "full", "damaged"}

\* Read back, a list is turned round and cut into words, so it is not the list
\* that was sent (DialStore has the detail).
ReadBack == [none |-> "none", short |-> "shortRead", full |-> "fullRead",
             damaged |-> "damaged"]

\* app->payload before the first launch: malloc does not initialise it.
Garbage == "garbage"

\* A list too long for corsAllowedOrigin is passed with fits = FALSE.
ASSUME DialAssumption ==
    /\ IsFiniteSet(Threads) /\ Nobody \notin Threads
    /\ Kind \in [Names -> {"netflix", "youtube", "partner"}]
    /\ Exempt \notin Origins
    /\ Lists \subseteq [allowed : SUBSET Origins, fits : BOOLEAN]
    /\ Requests \subseteq
         [uri : {"run", "app", "hide", "data", "other"},
          method : {"OPTIONS", "GET", "POST", "DELETE"},
          app : Names \cup {""}, host : BOOLEAN, origin : Origins \cup {Exempt},
          local : BOOLEAN, body : Bodies]
    /\ MaxRequests \in Nat /\ MaxRegistrations \in Nat

VARIABLES
    mux,        \* ds->mux: the thread that holds it, or Nobody
    apps,       \* ds->apps: the registered applications, by name
    proc,       \* proc[a]: what the application itself is doing
    file,       \* file[a]: the DIAL data file of a
    pc, req,    \* where thread t is, and the request it handles
    got,        \* got[t]: the body thread t has read
    seen,       \* seen[t]: auxiliary, the lists of origins the application of
                \* the request has had since thread t received it
    reply,      \* the last response: its status code, and whether the search for
                \* the application before it could read /proc
    exited,     \* store_dial_data could not open its file: the process is gone
    requests, registrations

vars == <<mux, apps, proc, file, pc, req, got, seen, reply, exited,
          requests, registrations>>

NoRequest == [uri |-> "none"]
Codes == {"none", "200", "201", "204", "400", "403", "404", "413", "501", "503"}
Holding == {"read", "startcb", "stopcb", "hidecb", "parse", "save"}
PcStates == {"idle", "check", "handler"} \cup Holding
-----------------------------------------------------------------------------
Init == /\ mux = Nobody
        /\ apps = [a \in {} |-> {}]
        /\ proc = [a \in Names |-> "stopped"]
        /\ file = [a \in Names |-> "none"]
        /\ pc = [t \in Threads |-> "idle"]
        /\ req = [t \in Threads |-> NoRequest]
        /\ got = [t \in Threads |-> "short"]
        /\ seen = [t \in Threads |-> {}]
        /\ reply = [code |-> "none", searched |-> TRUE]
        /\ exited = FALSE
        /\ requests = 0 /\ registrations = 0

\* Thread t answers and returns to the web server; its request is forgotten.
Respond(t, response) == /\ reply' = response
                        /\ pc' = [pc EXCEPT ![t] = "idle"]
                        /\ req' = [req EXCEPT ![t] = NoRequest]
                        /\ got' = [got EXCEPT ![t] = "short"]
                        /\ seen' = [seen EXCEPT ![t] = {}]

Answer(t, code) == Respond(t, [code |-> code, searched |-> TRUE])

\* Thread t goes on to step s of the handler.
Goto(t, s) == pc' = [pc EXCEPT ![t] = s] /\ UNCHANGED <<req, seen, reply>>
-----------------------------------------------------------------------------
(* request_handler: routing, and the origin check.                         *)

\* What no step between two callbacks touches.
Same == UNCHANGED <<proc, file, exited, requests, registrations>>

\* Where request_handler sends a request, or the code it answers with.
Route(r) ==
    CASE r.uri = "run"  -> CASE r.method = "OPTIONS" -> "check"
                             [] r.method = "DELETE" /\ r.app # "" ->
                                    IF r.host THEN "check" ELSE "403"
                             [] OTHER -> "501"
      [] r.uri = "app"  -> CASE r.method = "OPTIONS" -> "check"
                             [] r.method = "POST" -> IF r.host THEN "check" ELSE "403"
                             [] r.method = "GET" -> "handler"
                             [] OTHER -> "501"
      [] r.uri = "hide" -> CASE r.method = "OPTIONS" -> "check"
                             [] r.method = "POST" /\ r.app # "" -> "handler"
                             [] OTHER -> "501"
      [] r.uri = "data" -> CASE ~r.local -> "403"
                             [] r.method = "OPTIONS" -> "check"
                             [] OTHER -> "handler"
      [] OTHER -> "404"

Receive(t, r) ==
    /\ ~exited /\ pc[t] = "idle" /\ requests < MaxRequests
    /\ requests' = requests + 1
    /\ IF Route(r) \in Codes
       THEN Answer(t, Route(r))
       ELSE /\ pc' = [pc EXCEPT ![t] = Route(r)]
            /\ req' = [req EXCEPT ![t] = r]
            /\ seen' = [seen EXCEPT ![t] =
                   IF r.app \in DOMAIN apps THEN {apps[r.app].cors} ELSE {}]
            /\ UNCHANGED <<got, reply>>
    /\ UNCHANGED <<mux, apps, proc, file, exited, registrations>>

\* Mutant: the list of any application will do.
AnyListAdmits(a, o) ==
    \E b \in DOMAIN apps : apps[b].cors = {} \/ o \in apps[b].cors

\* The scan of is_allowed_origin: the application is registered, without a list
\* or with one that names the origin.
Admits(a, o) == a \in DOMAIN apps /\ (apps[a].cors = {} \/ o \in apps[a].cors)

\* is_allowed_origin, which takes the lock only for origins it checks, and what
\* request_handler and options_response do with the verdict.
CheckOrigin(t) ==
    LET r == req[t]
        allowed == r.origin = Exempt \/ Admits(r.app, r.origin)
    IN  /\ ~exited /\ pc[t] = "check"
        /\ r.host /\ r.origin # Exempt => mux = Nobody
        /\ \/ /\ ~(r.host /\ allowed) /\ Answer(t, "403")
           \/ /\ r.host /\ allowed /\ r.method = "OPTIONS" /\ Answer(t, "204")
           \/ /\ r.host /\ allowed /\ r.method # "OPTIONS"
              /\ Goto(t, "handler") /\ UNCHANGED got
        /\ UNCHANGED <<mux, apps>> /\ Same
-----------------------------------------------------------------------------
(* The handlers.  Each one locks, looks the application up and answers 404 *)
(* when it is not there.                                                   *)

Locks(t, uri) == /\ ~exited /\ pc[t] = "handler" /\ mux = Nobody
                 /\ req[t].uri = uri

\* Mutant: the 404 of a handler returns with the lock held.
NotFoundKeepsLock(t) ==
    /\ ~exited /\ pc[t] = "handler" /\ mux = Nobody
    /\ req[t].app \notin DOMAIN apps
    /\ mux' = t
    /\ Answer(t, "404") /\ UNCHANGED apps /\ Same

NotFound(t) == /\ ~exited /\ pc[t] = "handler" /\ mux = Nobody
               /\ req[t].app \notin DOMAIN apps
               /\ Answer(t, "404") /\ UNCHANGED <<mux, apps>> /\ Same

\* handle_app_start and handle_dial_data up to mg_read.
LockToRead(t) ==
    /\ Locks(t, "app") \/ Locks(t, "data")
    /\ req[t].method = "POST" /\ req[t].app \in DOMAIN apps
    /\ mux' = t
    /\ Goto(t, "read")
    /\ UNCHANGED <<apps, got>> /\ Same

\* handle_dial_data when the data come from the query string, which is shorter
\* than the request buffer and so than the payload limit.
QueryData(t) ==
    /\ Locks(t, "data")
    /\ req[t].method # "POST" /\ req[t].app \in DOMAIN apps
    /\ IF req[t].body = "bad"
       THEN Answer(t, "400") /\ UNCHANGED mux
       ELSE /\ mux' = t
            /\ Goto(t, "parse")
            /\ UNCHANGED got
    /\ UNCHANGED apps /\ Same

\* What mg_read may return: all of the body, or the part that came before the
\* client closed the connection or the receive timeout passed.
Prefixes(b) == CASE b = "short" -> {"short"}
                 [] b = "full"  -> {"full", "short"}
                 [] b = "over"  -> {"over", "full", "short"}
                 [] b = "bad"   -> {"bad", "short"}

\* DIAL_get_payload: the payload of the last launch, read without the lock by a
\* callback that runs under it.
GetPayload(a) == apps[a].payload

\* Mutant: the size check of handle_app_start is missing.
NeverTooLarge(t, b) == FALSE

TooLarge(t, b) == req[t].uri = "app" /\ b = "over"

\* handle_dial_data reads at most DIAL_DATA_MAX_PAYLOAD bytes, so a longer body
\* is cut and its own 413 is out of reach.
ReadBody(t) ==
    /\ ~exited /\ pc[t] = "read"
    /\ \E b \in Prefixes(req[t].body) :
        \/ /\ TooLarge(t, b)
           /\ mux' = Nobody /\ Answer(t, "413")
        \/ /\ b = "bad"
           /\ mux' = Nobody /\ Answer(t, "400")
        \/ /\ b # "bad" /\ ~TooLarge(t, b)
           /\ got' = [got EXCEPT ![t] = b]
           /\ Goto(t, IF req[t].uri = "app" THEN "startcb" ELSE "parse")
           /\ UNCHANGED mux
    /\ UNCHANGED apps /\ Same

\* start_cb: what it returns and what the application then does.  netflix_start
\* forks when it finds no instance, which is also the case when it cannot look for
\* one, and reports a failed fork; youtube_start always forks and reports success.
\* The program may fail to start after the fork, or start later.
StartResults(a) ==
    CASE Kind[a] = "netflix" ->
             {<<"running", "running">>, <<"running", proc[a]>>, <<"stopped", proc[a]>>}
      [] Kind[a] = "youtube" -> {<<"running", "running">>, <<"running", proc[a]>>}
      [] OTHER -> {<<"running", "running">>, <<"stopped", proc[a]>>}

StartCb(t) ==
    LET a == req[t].app IN
    /\ ~exited /\ pc[t] = "startcb"
    /\ \E res \in StartResults(a) :
        /\ proc' = [proc EXCEPT ![a] = res[2]]
        /\ IF res[1] = "running"
           THEN /\ apps' = [apps EXCEPT ![a].state = res[1], ![a].payload = got[t]]
                /\ Answer(t, "201")
           ELSE /\ apps' = [apps EXCEPT ![a].state = res[1]]
                /\ Answer(t, "503")
    /\ mux' = Nobody
    /\ UNCHANGED <<file, exited, requests, registrations>>

\* Mutant: the decision uses the state left by the last request.
StaleState(a) == {<<apps[a].state, TRUE>>}

\* What status_cb reports, and whether it could look.  For the reference
\* applications isAppRunning searches /proc and says "not running" when it cannot
\* open it; the callbacks of other applications ask them.
Refreshed(a) == {<<proc[a], TRUE>>}
                \cup IF Kind[a] = "partner" THEN {} ELSE {<<"stopped", FALSE>>}

\* handle_app_status.
Status(t) ==
    LET a == req[t].app IN
    /\ Locks(t, "app") /\ req[t].method = "GET" /\ a \in DOMAIN apps
    /\ \E s \in Refreshed(a) :
        /\ apps' = [apps EXCEPT ![a].state = s[1]]
        /\ Respond(t, [code |-> "200", searched |-> s[2]])
    /\ UNCHANGED mux /\ Same

\* handle_app_stop and handle_app_hide up to their callback.
LockToStop(t) ==
    LET a == req[t].app IN
    /\ Locks(t, "run") \/ Locks(t, "hide")
    /\ a \in DOMAIN apps
    /\ \E s \in Refreshed(a) :
        /\ apps' = [apps EXCEPT ![a].state = s[1]]
        /\ IF s[1] = "stopped"
           THEN Respond(t, [code |-> "404", searched |-> s[2]]) /\ UNCHANGED mux
           ELSE /\ mux' = t
                /\ Goto(t, IF req[t].uri = "run" THEN "stopcb" ELSE "hidecb")
                /\ UNCHANGED got
    /\ Same

\* stop_cb asks the application to end; netflix_stop also waits for it, which has
\* an effect only when the application is a child of the server.
StopResults(a) == {"stopped", proc[a]}

StopCb(t) ==
    LET a == req[t].app IN
    /\ ~exited /\ pc[t] = "stopcb"
    /\ \E s \in StopResults(a) : proc' = [proc EXCEPT ![a] = s]
    /\ apps' = [apps EXCEPT ![a].state = "stopped"]
    /\ mux' = Nobody /\ Answer(t, "200")
    /\ UNCHANGED <<file, exited, requests, registrations>>

\* hide_cb: the reference applications only say whether they run.
HideResults(a) == IF Kind[a] = "partner" /\ proc[a] # "stopped"
                  THEN {"hide", proc[a]}
                  ELSE {proc[a]}

HideCb(t) ==
    LET a == req[t].app IN
    /\ ~exited /\ pc[t] = "hidecb"
    /\ \E s \in HideResults(a) :
        IF s = "hide"
        THEN /\ proc' = [proc EXCEPT ![a] = "hide"]
             /\ apps' = [apps EXCEPT ![a].state = "hide"]
             /\ Answer(t, "200")
        ELSE UNCHANGED <<proc, apps>> /\ Answer(t, "501")
    /\ mux' = Nobody
    /\ UNCHANGED <<file, exited, requests, registrations>>

\* The data a request carries: what was read, cut to the size of the buffer.
DataOf(t) == IF got[t] = "over" THEN "full" ELSE got[t]

\* handle_dial_data replaces the list in memory ...
ParseData(t) ==
    /\ ~exited /\ pc[t] = "parse"
    /\ apps' = [apps EXCEPT ![req[t].app].data = DataOf(t)]
    /\ Goto(t, "save")
    /\ UNCHANGED <<mux, got>> /\ Same

\* ... and saves it.  store_dial_data exits the process when it cannot open the
\* file, and ignores the errors of fprintf and fclose: the request is answered
\* with success also when only a part of the list has been written.
SaveData(t) ==
    /\ ~exited /\ pc[t] = "save"
    /\ \/ /\ \E written \in {apps[req[t].app].data, "damaged"} :
                 file' = [file EXCEPT ![req[t].app] = written]
          /\ mux' = Nobody /\ Answer(t, "200") /\ UNCHANGED exited
       \/ /\ exited' = TRUE
          /\ UNCHANGED <<mux, file, pc, req, got, seen, reply>>
    /\ UNCHANGED <<apps, proc, requests, registrations>>
-----------------------------------------------------------------------------
(* The library calls of the application that embeds the server.            *)

\* Mutant: the saved data are not read back.
ForgottenData(a) == {"none"}

\* retrieve_dial_data, for which a file it cannot open holds no data.
SavedData(a) == {ReadBack[file[a]], "unread"}

\* DIAL_register_app.
Register(a, l) ==
    /\ ~exited /\ mux = Nobody /\ a \notin DOMAIN apps
    /\ registrations < MaxRegistrations
    /\ registrations' = registrations + 1
    /\ \E d \in SavedData(a) :
           apps' = [b \in DOMAIN apps \cup {a} |->
               IF b = a THEN [state |-> "stopped", payload |-> Garbage, data |-> d,
                              cors |-> IF l.fits THEN l.allowed ELSE {},
                              asked |-> l.allowed]
                        ELSE apps[b]]
    /\ seen' = [t \in Threads |->
           seen[t] \cup IF pc[t] # "idle" /\ req[t].app = a
                       THEN {apps'[a].cors} ELSE {}]
    /\ UNCHANGED <<mux, proc, file, pc, req, got, reply, exited, requests>>

\* Mutant: the application is removed without the lock.
UnregisterUnlocked(a) ==
    /\ ~exited /\ a \in DOMAIN apps
    /\ apps' = [b \in DOMAIN apps \ {a} |-> apps[b]]
    /\ UNCHANGED <<mux, pc, req, got, seen, reply>> /\ Same

\* DIAL_unregister_app; the application itself is left alone.
Unregister(a) ==
    /\ ~exited /\ mux = Nobody /\ a \in DOMAIN apps
    /\ apps' = [b \in DOMAIN apps \ {a} |-> apps[b]]
    /\ UNCHANGED <<mux, pc, req, got, seen, reply>> /\ Same

\* The user opens, closes or restores an application, or it ends by itself.
AppMoves(a) == /\ ~exited
               /\ \E s \in IF Kind[a] = "partner" THEN Statuses ELSE {"stopped", "running"} :
                      s # proc[a] /\ proc' = [proc EXCEPT ![a] = s]
               /\ UNCHANGED <<mux, apps, file, pc, req, got, seen, reply,
                              exited, requests, registrations>>
-----------------------------------------------------------------------------
ThreadStep(t) ==
    \/ CheckOrigin(t) \/ NotFound(t) \/ LockToRead(t) \/ QueryData(t)
    \/ ReadBody(t) \/ StartCb(t) \/ Status(t) \/ LockToStop(t) \/ StopCb(t) \/ HideCb(t)
    \/ ParseData(t) \/ SaveData(t)

Next == \/ \E t \in Threads : ThreadStep(t) \/ \E r \in Requests : Receive(t, r)
        \/ \E a \in Names : \/ Unregister(a) \/ AppMoves(a)
                            \/ \E l \in Lists : Register(a, l)

Spec == Init /\ [][Next]_vars

\* Every thread that can go on eventually does.  With finitely many requests and
\* registrations this needs no fairness of the lock.
FairSpec == Spec /\ \A t \in Threads : WF_vars(ThreadStep(t))
-----------------------------------------------------------------------------
AppRecord == [state : Statuses, payload : {Garbage, "short", "full"},
              data : Saved \cup {"shortRead", "fullRead", "unread"},
              cors : SUBSET Origins, asked : SUBSET Origins]

\* Values of the variables; a payload is never longer than the array it is
\* copied to, and neither it nor the DIAL data ever contain a rejected byte.
TypeOK ==
    /\ mux \in Threads \cup {Nobody}
    /\ DOMAIN apps \subseteq Names
    /\ apps \in [DOMAIN apps -> AppRecord]
    /\ proc \in [Names -> Statuses]
    /\ file \in [Names -> Saved]
    /\ pc \in [Threads -> PcStates]
    /\ req \in [Threads -> Requests \cup {NoRequest}]
    /\ got \in [Threads -> Bodies]
    /\ seen \in [Threads -> SUBSET SUBSET Origins]
    /\ reply \in [code : Codes, searched : BOOLEAN]
    /\ exited \in BOOLEAN
    /\ requests \in 0..MaxRequests /\ registrations \in 0..MaxRegistrations

\* Between the lock and the unlock of a handler the application it works on
\* stays registered, and no other thread is inside a handler: callbacks never run
\* concurrently, so DIAL_get_payload needs no lock inside one.
HandlerOwnsApp ==
    \A t \in Threads : pc[t] \in Holding => mux = t /\ req[t].app \in DOMAIN apps

\* The lock is free whenever no thread is between lock and unlock: no path of
\* request_handler returns with it.
LockReleased == mux # Nobody => pc[mux] \in Holding

\* Both together: a handler has the lock exactly as long as it works on its
\* application.
LockDiscipline == HandlerOwnsApp /\ LockReleased

\* A request whose origin is checked starts an application only if a list that
\* the application has had while the request was served, without origins or with
\* this one, admitted it.  It need not be the list at the launch: the lock is
\* released between the check and the launch, and the application may have been
\* registered again in between.
LaunchWasAdmitted ==
    \A t \in Threads :
        pc[t] = "startcb" /\ req[t].origin # Exempt
        => \E list \in seen[t] : list = {} \/ req[t].origin \in list

\* Outside the handlers the DIAL data in memory are the data last written to the
\* file, or what was read back from it when the application was registered,
\* unless a write failed or the file could not be opened then: an application
\* that is registered again finds what was acknowledged.
DataSaved ==
    mux = Nobody =>
        \A a \in DOMAIN apps :
            \/ file[a] = "damaged"
            \/ apps[a].data \in {file[a], ReadBack[file[a]], "unread"}

\* A handler that found the application registered answers "404 Not Found" only if
\* the application does not run or could not be looked for, whatever state an
\* earlier request left behind.
NeverDeniesRunningApp ==
    [][\A t \in Threads :
           (/\ pc[t] = "handler" /\ pc'[t] = "idle" /\ reply'.code = "404"
            /\ req[t].app \in DOMAIN apps)
           => proc[req[t].app] = "stopped" \/ ~reply'.searched]_vars

\* Every request is answered, unless the process exits.
EveryRequestAnswered ==
    \A t \in Threads : pc[t] # "idle" ~> pc[t] = "idle" \/ exited

\* dial_server.h: the parameter of DIAL_register_app "specifies the CORS allowed
\* origin for this app".
CorsListHonoured ==
    \A t \in Threads :
        pc[t] = "startcb" /\ req[t].origin # Exempt =>
            LET asked == apps[req[t].app].asked
            IN  asked = {} \/ req[t].origin \in asked

\* dial_server.h: DIAL_get_payload, which netflix_start calls, returns a
\* "Pointer to a NULL terminated string".
PayloadIsString ==
    \A t \in Threads :
        pc[t] = "startcb" /\ Kind[req[t].app] = "netflix" =>
            GetPayload(req[t].app) = "short"
=============================================================================
