----------------------------- MODULE Discovery ------------------------------
(***************************************************************************)
(* From the command line to the launch: main and runDial of server/main.c  *)
(* start the DIAL service, run_ssdp of server/quick_ssdp.c starts a second *)
(* web server for the device description and then answers searches until   *)
(* the process ends; a controller searches, fetches the description from   *)
(* the location in the answer and launches at the address in the           *)
(* description.                                                            *)
(*                                                                         *)
(* The threads of both web servers run as soon as mg_start has returned,   *)
(* while the main thread goes on; so a controller that knows the location  *)
(* from an earlier run may fetch a description at any time.                *)
(*                                                                         *)
(* A set with at most one element stands for what may not be there.        *)
(***************************************************************************)
EXTENDS Integers, SequencesExt

CONSTANTS
    Controllers,
    Net,            \* Net[c]: the network controller c is in
    CommandLines,   \* argv without the name of the program
    Defaults,       \* Defaults[o]: value of option o that main sets first
    Hosts,          \* what SIOCGIFCONF may list: sequences of interfaces
    MaxSearches,    \* bound: datagrams of each controller
    MaxErrors,      \* bound: failures of recvfrom
    MaxMoves,       \* bound: changes of an address
    MaxInbox        \* datagrams that the socket holds

\* gDialOptions
Options == {"data", "netflix", "friendly", "model", "uuid", "wake"}
Names == {"friendly", "model", "uuid"}

\* 0 or "00:00:00:00:00:00", and an answer without WAKEUP.
Unset == "unset"
NoWakeup == "no WAKEUP"
LoopbackNet == "lo"

\* An interface; the name of its network also stands for its hardware address.
Interface == [net : STRING, loopback : BOOLEAN]

ASSUME DiscoveryAssumption ==
    /\ Net \in [Controllers -> STRING]
    /\ CommandLines \subseteq Seq(STRING)
    /\ Defaults \in [Options -> STRING] /\ Defaults["wake"] = "on"
    /\ Hosts \subseteq Seq(Interface)
    /\ LoopbackNet \notin Range(Net)
    /\ \A h \in Hosts : \A k \in DOMAIN h : h[k].loopback => h[k].net \notin Range(Net)
    /\ {MaxSearches, MaxErrors, MaxMoves, MaxInbox} \subseteq Nat

VARIABLES
    args, i, config,           \* main: argv, the index into it, and what it has set
    mpc,                       \* where the main thread is
    listening, registered,     \* ports with a web server; the service knows its applications
    names,                     \* friendly_name, model_name and uuid
    dial_port, my_port, ip_addr, hw_addr, send_buf,
    inbox, gBuf,               \* the multicast socket, and the datagram in hand
    host, moves,               \* the interfaces; how often the address in a network has changed
    heard, desc, outcome,      \* what controller c got from a search, from dd.xml, from a launch
    sent, delivered, replies, failed, errors

main == <<args, i, config, registered>>
statics == <<names, dial_port, my_port, ip_addr, hw_addr, send_buf>>
client == <<heard, desc, outcome>>
counts == <<sent, delivered, replies, failed, errors>>
vars == <<main, mpc, listening, statics, inbox, gBuf, host, moves, client, counts>>

Networks == Range(Net) \cup {LoopbackNet}
              \cup UNION {{h[k].net : k \in DOMAIN h} : h \in Hosts}

\* The address in network n at this moment.
Address(n) == <<n, moves[n]>>

Init ==
    /\ args \in CommandLines /\ i = 1 /\ config = Defaults
    /\ mpc = "options" /\ listening = {} /\ registered = FALSE
    /\ names = [o \in Names |-> Unset]
    /\ dial_port = Unset /\ my_port = Unset
    /\ ip_addr = <<LoopbackNet, 0>> /\ hw_addr = Unset
    /\ send_buf = {} /\ inbox = <<>> /\ gBuf = {}
    /\ host \in Hosts /\ moves = [n \in Networks |-> 0]
    /\ heard \in [Controllers -> {{}}
         \cup {{[fresh |-> FALSE, ip |-> <<n, 0>>, port |-> "ssdp", uuid |-> Unset, mac |-> NoWakeup]}
               : n \in Range(Net)}]
    /\ desc = [c \in Controllers |-> {}] /\ outcome = desc
    /\ sent = [c \in Controllers |-> 0] /\ delivered = sent /\ replies = sent
    /\ failed = sent /\ errors = 0

\* Mutant: the description is served before there is anything to describe.
AfterDescribeFirst ==
    [options |-> "register", register |-> "start", start |-> "port", port |-> "describe",
     describe |-> "names", names |-> "address", address |-> "listen", listen |-> "compose",
     compose |-> "socket", socket |-> "receive"]

\* The order of runDial, run_ssdp and handle_mcast.
After ==
    [options |-> "register", register |-> "start", start |-> "port", port |-> "names",
     names |-> "address", address |-> "describe", describe |-> "listen", listen |-> "compose",
     compose |-> "socket", socket |-> "receive"]

\* The main thread passes one step, or the process ends: by exit(1), or by the
\* use of a context that mg_start did not return.
Pass(step) == mpc = step /\ mpc' = After[step]
End(step, how) == mpc = step /\ mpc' = how /\ listening' = {}
Outside == <<inbox, gBuf, host, moves, client, counts>>
-----------------------------------------------------------------------------
(* main: the options.                                                      *)

\* A word of argv stands for the option it begins with: main compares only as many
\* characters as the option has, so "-Whatever" counts as "-W".
Pair == i + 1 <= Len(args) /\ args[i] \in Options

Acceptable == Pair /\ (args[i] = "wake" => args[i + 1] \in {"on", "off"})

\* processOption: a later value replaces an earlier one.
ProcessOption ==
    /\ mpc = "options" /\ i <= Len(args) /\ Acceptable
    /\ config' = [config EXCEPT ![args[i]] = args[i + 1]]
    /\ i' = i + 2
    /\ UNCHANGED <<args, registered, mpc, listening, statics, Outside>>

\* printUsage, or a value of the last option that is not valid.
BadOption ==
    /\ i <= Len(args) /\ ~Acceptable /\ End("options", "exited")
    /\ UNCHANGED <<main, statics, Outside>>

OptionsDone ==
    /\ i > Len(args) /\ Pass("options")
    /\ UNCHANGED <<main, listening, statics, Outside>>
-----------------------------------------------------------------------------
(* runDial and run_ssdp.                                                   *)

\* DIAL_register_app for both applications.
RegisterApps ==
    /\ Pass("register") /\ registered' = TRUE
    /\ UNCHANGED <<args, i, config, listening, statics, Outside>>

\* mg_start: the server runs, or its port is taken.  A context whose master thread
\* could not be started is left to MgPool: here a server that has its port serves.
MgStart(step, port) ==
    /\ Pass(step)
    /\ listening' \in {listening, listening \cup {port}}
    /\ UNCHANGED <<main, statics, Outside>>

DIAL_start == MgStart("start", "dial")
StartDescription == MgStart("describe", "ssdp")

\* Mutant: without a context there is no port, and the server goes on.
GetPortOrNone ==
    /\ Pass("port")
    /\ dial_port' = IF "dial" \in listening THEN "dial" ELSE Unset
    /\ UNCHANGED <<main, listening, names, my_port, ip_addr, hw_addr, send_buf, Outside>>

DIAL_get_port ==
    /\ "dial" \in listening /\ Pass("port") /\ dial_port' = "dial"
    /\ UNCHANGED <<main, listening, names, my_port, ip_addr, hw_addr, send_buf, Outside>>

\* mg_get_listen_addr of run_ssdp.
ListenAddress ==
    /\ "ssdp" \in listening /\ Pass("listen") /\ my_port' = "ssdp"
    /\ UNCHANGED <<main, listening, names, dial_port, ip_addr, hw_addr, send_buf, Outside>>

\* mg_get_listen_addr reads through the NULL that mg_start has returned.
NoContext ==
    /\ \E s \in {<<"port", "dial">>, <<"listen", "ssdp">>} :
         s[2] \notin listening /\ End(s[1], "crashed")
    /\ UNCHANGED <<main, statics, Outside>>

CopyNames ==
    /\ Pass("names") /\ names' = [o \in Names |-> config[o]]
    /\ UNCHANGED <<main, listening, dial_port, my_port, ip_addr, hw_addr, send_buf, Outside>>

\* Where the loop over the interfaces ends: at the first that is not a loopback,
\* or at the last.
Final == {k \in DOMAIN host : /\ \A j \in 1 .. k - 1 : host[j].loopback
                              /\ ~host[k].loopback \/ k = Len(host)}

\* get_local_address: every address on the way is copied, but the hardware
\* address only of an interface that is not a loopback.
GetLocalAddress ==
    /\ Pass("address")
    /\ \/ Final = {} /\ UNCHANGED <<ip_addr, hw_addr>>
       \/ \E k \in Final :
            /\ ip_addr' = Address(host[k].net)
            /\ hw_addr' = IF host[k].loopback THEN hw_addr ELSE host[k].net
    /\ UNCHANGED <<main, listening, names, dial_port, my_port, send_buf, Outside>>

\* handle_mcast: what it will send as long as it runs.
Compose ==
    /\ Pass("compose")
    /\ send_buf' = {[fresh |-> TRUE, ip |-> ip_addr, port |-> my_port, uuid |-> names["uuid"],
                     mac |-> IF config["wake"] = "on" THEN hw_addr ELSE NoWakeup]}
    /\ UNCHANGED <<main, listening, names, dial_port, my_port, ip_addr, hw_addr, Outside>>

\* socket, bind, and the membership of the interface with ip_addr.
OpenSocket ==
    /\ Pass("socket")
    /\ UNCHANGED <<main, listening, statics, Outside>>

\* An ioctl, socket, bind or setsockopt that fails.
CallFails ==
    /\ \E step \in {"address", "socket"} : End(step, "exited")
    /\ UNCHANGED <<main, statics, Outside>>
-----------------------------------------------------------------------------
(* handle_mcast: the loop.                                                 *)

\* sendto: the answer arrives, gets lost, or could not be sent.
Answer(c) ==
    \/ /\ replies' = [replies EXCEPT ![c] = @ + 1]
       /\ \/ heard' = [heard EXCEPT ![c] = send_buf]
          \/ UNCHANGED heard
       /\ UNCHANGED failed
    \/ /\ failed' = [failed EXCEPT ![c] = @ + 1]
       /\ UNCHANGED <<replies, heard>>

\* strstr finds the name of the service, or the datagram is dropped.
Match(datagrams) ==
    \/ \E d \in datagrams : d.search /\ Answer(d.from)
    \/ (\A d \in datagrams : ~d.search) /\ UNCHANGED <<replies, failed, heard>>

\* Mutant: a failure of sendto ends the loop.
ReceiveUntilFailure ==
    /\ mpc = "receive" /\ inbox # <<>>
    /\ gBuf' = {Head(inbox)} /\ inbox' = Tail(inbox)
    /\ Match(gBuf')
    /\ mpc' = IF failed' = failed THEN mpc ELSE "exited"
    /\ UNCHANGED <<main, listening, statics, host, moves, desc, outcome, sent, delivered, errors>>

Receive ==
    /\ mpc = "receive" /\ inbox # <<>>
    /\ gBuf' = {Head(inbox)} /\ inbox' = Tail(inbox)
    /\ Match(gBuf')
    /\ UNCHANGED <<main, mpc, listening, statics, host, moves, desc, outcome, sent, delivered,
                   errors>>

\* Mutant: without "continue" the last datagram is looked at again.
RecvErrorFallsThrough ==
    /\ mpc = "receive" /\ errors < MaxErrors
    /\ errors' = errors + 1
    /\ Match(gBuf)
    /\ UNCHANGED <<main, mpc, listening, statics, inbox, gBuf, host, moves, desc, outcome, sent,
                   delivered>>

\* recvfrom fails, as with EINTR when SIGTERM comes: signalHandler does nothing.
RecvError ==
    /\ mpc = "receive" /\ errors < MaxErrors
    /\ errors' = errors + 1
    /\ UNCHANGED <<main, mpc, listening, statics, inbox, gBuf, host, moves, client, sent, delivered,
                   replies, failed>>
-----------------------------------------------------------------------------
(* Controllers and the network.                                            *)

\* Controller c reaches the host at an address in its own network.
Reaches(c, ip, port) ==
    /\ ip[1] = Net[c] /\ ip = Address(Net[c]) /\ \E k \in DOMAIN host : host[k].net = Net[c]
    /\ port \in listening

\* A datagram to the group, of which none, one or two copies arrive.
Send(c, search) ==
    /\ sent[c] < MaxSearches
    /\ sent' = [sent EXCEPT ![c] = @ + 1]
    /\ LET d == [from |-> c, search |-> search]
       IN  \E copies \in {<<>>, <<d>>, <<d, d>>} :
             /\ copies # <<>> => mpc = "receive" /\ ip_addr[1] = Net[c]
             /\ Len(inbox) + Len(copies) <= MaxInbox
             /\ inbox' = inbox \o copies
             /\ delivered' = [delivered EXCEPT ![c] = IF search THEN @ + Len(copies) ELSE @]
    /\ UNCHANGED <<main, mpc, listening, statics, gBuf, host, moves, client, replies, failed, errors>>

\* request_handler of quick_ssdp.c, on a thread of the second web server.
Description(fresh) ==
    [fresh |-> fresh, ip |-> ip_addr, port |-> dial_port, names |-> names]

\* GET of dd.xml from the location of an answer.
Fetch(c) ==
    /\ \E r \in heard[c] :
         Reaches(c, r.ip, r.port) /\ desc' = [desc EXCEPT ![c] = {Description(r.fresh)}]
    /\ UNCHANGED <<main, mpc, listening, statics, inbox, gBuf, host, moves, heard, outcome, counts>>

\* POST to the Application-URL of the description.
Launch(c) ==
    /\ \E d \in desc[c] :
         outcome' = [outcome EXCEPT ![c] =
             {[fresh |-> d.fresh, moved |-> d.ip # Address(d.ip[1]),
               result |-> IF ~Reaches(c, d.ip, d.port) THEN "unreachable"
                          ELSE IF registered THEN "created" ELSE "notFound"]}]
    /\ UNCHANGED <<main, mpc, listening, statics, inbox, gBuf, host, moves, heard, desc, counts>>

\* The host gets another address in network n.
Move(n) ==
    /\ moves[n] < MaxMoves
    /\ moves' = [moves EXCEPT ![n] = @ + 1]
    /\ UNCHANGED <<main, mpc, listening, statics, inbox, gBuf, host, client, counts>>
-----------------------------------------------------------------------------
StartUp ==
    \/ ProcessOption \/ BadOption \/ OptionsDone \/ RegisterApps
    \/ DIAL_start \/ DIAL_get_port \/ NoContext \/ CopyNames \/ GetLocalAddress
    \/ StartDescription \/ ListenAddress \/ Compose \/ OpenSocket \/ CallFails

Main == StartUp \/ Receive \/ RecvError

Environment ==
    \/ \E c \in Controllers :
         (\E search \in BOOLEAN : Send(c, search)) \/ Fetch(c) \/ Launch(c)
    \/ \E n \in Range(Net) : Move(n)

Next == Main \/ Environment

Spec == Init /\ [][Next]_vars

\* The main thread is scheduled.
FairSpec == Spec /\ WF_vars(Main)
-----------------------------------------------------------------------------
(* Properties.                                                             *)

Steps == {"options", "register", "start", "port", "names", "address", "describe", "listen",
          "compose", "socket", "receive", "exited", "crashed"}
Addresses == Networks \X (0 .. MaxMoves)
Texts == STRING \cup {Unset}
Macs == Networks \cup {Unset, NoWakeup}
PortValues == {"dial", "ssdp", Unset}
Replies == [fresh : BOOLEAN, ip : Addresses, port : PortValues, uuid : Texts, mac : Macs]
Descriptions == [fresh : BOOLEAN, ip : Addresses, port : PortValues, names : [Names -> Texts]]
Outcomes == [fresh : BOOLEAN, moved : BOOLEAN, result : {"created", "notFound", "unreachable"}]
Datagrams == [from : Controllers, search : BOOLEAN]

\* The type invariant: the values that the statics, the socket and the
\* controllers can have.
TypeOK ==
    /\ args \in CommandLines /\ i \in Nat \ {0} /\ config \in [Options -> STRING]
    /\ mpc \in Steps /\ listening \subseteq {"dial", "ssdp"} /\ registered \in BOOLEAN
    /\ names \in [Names -> Texts] /\ {dial_port, my_port} \subseteq PortValues
    /\ ip_addr \in Addresses /\ hw_addr \in Macs /\ send_buf \subseteq Replies
    /\ inbox \in Seq(Datagrams) /\ gBuf \subseteq Datagrams
    /\ host \in Hosts /\ moves \in [Networks -> 0 .. MaxMoves]
    /\ heard \in [Controllers -> SUBSET Replies]
    /\ desc \in [Controllers -> SUBSET Descriptions]
    /\ outcome \in [Controllers -> SUBSET Outcomes]
    /\ {sent, delivered, replies, failed} \subseteq [Controllers -> Nat] /\ errors \in Nat

\* What the command line asks for: the last value given for option o.
Given(o) ==
    LET places == {k \in DOMAIN args : k % 2 = 1 /\ k < Len(args) /\ args[k] = o}
    IN  IF places = {} THEN Defaults[o] ELSE args[Max(places) + 1]

\* The interface that the device is found at: the first that is not a loopback.
Primary == {host[k].net : k \in {j \in Final : ~host[j].loopback}}

\* Every description, also one fetched while the main thread is still starting
\* up, and every answer show the values that the command line gives last, the
\* port of the right server, and the address and hardware address of one
\* interface; the WAKEUP header is there unless wake on wifi is off.
ServedAsConfigured ==
    \A c \in Controllers :
        /\ \A d \in desc[c] :
             /\ d.names = [o \in Names |-> Given(o)] /\ d.port = "dial"
             /\ Primary # {} => d.ip[1] \in Primary
        /\ \A r \in heard[c] : r.fresh =>
             /\ r.uuid = Given("uuid") /\ r.port = "ssdp" /\ Primary = {r.ip[1]}
             /\ r.mac = IF Given("wake") = "on" THEN r.ip[1] ELSE NoWakeup

\* A controller that has found this server by its answer can launch, unless the
\* address has changed since the server looked it up; whichever way it came to
\* the description, a launch that arrives finds the application registered.
LaunchAfterDiscovery ==
    \A c \in Controllers : \A o \in outcome[c] :
        /\ o.result # "notFound"
        /\ o.fresh /\ ~o.moved => o.result = "created"

\* Nobody gets more answers than searches of his have arrived: a failure of
\* recvfrom does not repeat the last answer, other datagrams get none.
NoUnsolicitedReply ==
    \A c \in Controllers : replies[c] + failed[c] <= delivered[c]

\* Every search that has arrived is answered, or sendto has failed for it: no
\* error of one answer and no signal ends the loop.
SearchesAnswered ==
    \A c \in Controllers : \A n \in 1 .. 2 * MaxSearches :
        delivered[c] >= n ~> replies[c] + failed[c] >= n

=============================================================================
