---------------------------- MODULE MCDialServer ----------------------------
(***************************************************************************)
(* DialServer with small sets of requests: every route and every method,   *)
(* and for each handler the requests that take different paths through it. *)
(***************************************************************************)
EXTENDS DialServer, TLC

Good == "https://tv.good.example"
Evil == "https://evil.example"

MCKind == "Netflix" :> "netflix" @@ "Partner" :> "partner"

Req(uri, method, app, origin, body) ==
    [uri |-> uri, method |-> method, app |-> app, host |-> TRUE,
     origin |-> origin, local |-> TRUE, body |-> body]

\* Requests that reach a handler.
HandledRequests ==
    {Req("app", "POST", "Netflix", Evil, "over"),
     Req("app", "POST", "Partner", Exempt, "bad"),
     Req("app", "GET", "Partner", Exempt, "short"),
     Req("run", "DELETE", "Netflix", Good, "short"),
     Req("hide", "POST", "Partner", Evil, "short"),
     Req("data", "POST", "Netflix", Exempt, "over"),
     Req("data", "GET", "Netflix", Exempt, "short"),
     Req("data", "GET", "Partner", Exempt, "bad")}

\* Requests that request_handler or options_response answers.
RoutedRequests ==
    {Req("run", "GET", "Netflix", Exempt, "short"),
     Req("run", "OPTIONS", "Netflix", Evil, "short"),
     [Req("app", "POST", "Netflix", Good, "short") EXCEPT !.host = FALSE],
     [Req("data", "POST", "Netflix", Exempt, "short") EXCEPT !.local = FALSE],
     Req("hide", "GET", "Partner", Exempt, "short"),
     Req("other", "GET", "", Exempt, "short")}

AllRequests == HandledRequests \cup RoutedRequests

\* The origin check: the applications have different lists.
TwoLists == {[allowed |-> {Good}, fits |-> TRUE], [allowed |-> {Evil}, fits |-> TRUE]}
LongList == {[allowed |-> {Good}, fits |-> FALSE]}

Symmetry == Permutations(Threads)
=============================================================================
