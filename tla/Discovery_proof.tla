-------------------------- MODULE Discovery_proof ---------------------------
(***************************************************************************)
(* What controllers are told is what was configured, and who has found the *)
(* server can launch, for every command line, host and set of controllers. *)
(*                                                                         *)
(* Both properties speak of what controllers hold, which outlives the      *)
(* state of the server.  The invariant says what the main thread has done  *)
(* when it comes to a step (Configured, Started, Located, Composed), and   *)
(* what holds of a controller with a fresh answer, description or result.  *)
(***************************************************************************)
EXTENDS Discovery, FiniteSetTheorems, SequenceTheorems, TLAPS

\* The places of option o among the first n - 1 arguments.
Places(o, n) == {k \in DOMAIN args : k % 2 = 1 /\ k < n /\ args[k] = o}

\* The value of o is what the last of these places is followed by.
LastOf(o, n, value) ==
    \/ Places(o, n) = {} /\ value = Defaults[o]
    \/ \E k \in Places(o, n) :
         /\ \A j \in Places(o, n) : j <= k
         /\ k + 1 \in DOMAIN args /\ value = args[k + 1]

\* The steps after which something is done.
Registered == Steps \ {"options", "register", "exited", "crashed"}
Ported == Registered \ {"start", "port"}
Named == Ported \ {"names"}
Found == Named \ {"address"}
Served == Found \ {"describe"}

Early == {"options", "register", "start", "port", "names", "address"}

Configured ==
    /\ mpc = "options" =>
         /\ i % 2 = 1 /\ i <= Len(args) + 1
         /\ \A o \in Options : LastOf(o, i, config[o])
    /\ mpc \in Registered \cup {"register"} => config = [o \in Options |-> Given(o)]
    /\ mpc \in Named => names = [o \in Names |-> Given(o)]

Started ==
    /\ mpc \in Registered => registered
    /\ mpc \notin Registered => listening = {}
    /\ mpc \in Ported => "dial" \in listening /\ dial_port = "dial"
    /\ "ssdp" \in listening => mpc \in Served
    /\ mpc \in {"compose", "socket", "receive"} => "ssdp" \in listening /\ my_port = "ssdp"

\* Before get_local_address has run, ip_addr is 127.0.0.1.
Located ==
    /\ mpc \in Early => ip_addr[1] = LoopbackNet
    /\ mpc \in Found =>
         \/ Primary = {} /\ ip_addr[1] \notin Range(Net)
         \/ Primary = {ip_addr[1]} /\ hw_addr = ip_addr[1]

Composed ==
    mpc \in {"socket", "receive"} =>
        send_buf = {[fresh |-> TRUE, ip |-> ip_addr, port |-> "ssdp", uuid |-> Given("uuid"),
                     mac |-> IF Given("wake") = "on" THEN hw_addr ELSE NoWakeup]}

\* Only controllers beside the interface with ip_addr are heard and answered.
Beside(c) == mpc = "receive" /\ ip_addr[1] = Net[c]
Answered ==
    /\ \A k \in DOMAIN inbox : Beside(inbox[k].from)
    /\ \A c \in Controllers : \A r \in heard[c] : r.port = "ssdp" /\ (r.fresh => Beside(c))
    /\ \A c \in Controllers : \A d \in desc[c] : d.fresh => Beside(c) /\ d.ip = ip_addr

IInv ==
    /\ TypeOK /\ Configured /\ Started /\ Located /\ Composed /\ Answered
    /\ ServedAsConfigured /\ LaunchAfterDiscovery

-----------------------------------------------------------------------------
(* Facts about the definitions.                                            *)

\* After, as the equations that the steps use.
LEMMA AfterFacts ==
    /\ After["options"] = "register" /\ After["register"] = "start"
    /\ After["start"] = "port" /\ After["port"] = "names" /\ After["names"] = "address"
    /\ After["address"] = "describe" /\ After["describe"] = "listen"
    /\ After["listen"] = "compose" /\ After["compose"] = "socket"
    /\ After["socket"] = "receive"
BY DEF After

\* What the assumption and the type invariant say of the arguments.
LEMMA ArgsType ==
    ASSUME TypeOK
    PROVE  /\ args \in Seq(STRING) /\ Len(args) \in Nat /\ DOMAIN args = 1 .. Len(args)
           /\ \A k \in DOMAIN args : args[k] \in STRING
<1>1. args \in Seq(STRING)
  BY DiscoveryAssumption DEF TypeOK
<1> QED
  BY <1>1

\* At the end of the arguments the last value so far is the one given.
LEMMA LastIsGiven ==
    ASSUME TypeOK, NEW o, NEW value, i % 2 = 1, i = Len(args) + 1, LastOf(o, i, value)
    PROVE  value = Given(o)
<1> DEFINE places == {k \in DOMAIN args : k % 2 = 1 /\ k < Len(args) /\ args[k] = o}
<1>1. Len(args) \in Nat /\ DOMAIN args = 1 .. Len(args)
  BY ArgsType
<1>2. \A k \in 1 .. Len(args) : k % 2 = 1 => k < Len(args)
  BY <1>1
<1>3. places = Places(o, i)
  BY <1>1, <1>2 DEF Places
<1>4. CASE places = {}
  BY <1>3, <1>4 DEF LastOf, Given
<1>5. CASE places # {}
  <2>1. PICK k \in places : (\A j \in places : j <= k) /\ value = args[k + 1]
    BY <1>3, <1>5 DEF LastOf
  <2>2. places \subseteq Nat
    BY <1>1
  <2>3. Max(places) = k
    BY <2>1, <2>2 DEF Max
  <2> QED
    BY <1>5, <2>1, <2>3 DEF Given
<1> QED
  BY <1>4, <1>5

\* One more pair: it is the last place of its option and of no other.
LEMMA PairIsLast ==
    ASSUME TypeOK, Configured, ProcessOption
    PROVE  i' % 2 = 1 /\ i' <= Len(args) + 1 /\ \A o \in Options : LastOf(o, i, config[o])
                                              => LastOf(o, i, config[o])'
<1>1. /\ Len(args) \in Nat /\ DOMAIN args = 1 .. Len(args) /\ i \in Nat \ {0} /\ i % 2 = 1
      /\ i' = i + 2 /\ args' = args /\ i + 1 <= Len(args) /\ args[i] \in Options
      /\ config' = [config EXCEPT ![args[i]] = args[i + 1]] /\ config \in [Options -> STRING]
  BY ArgsType DEF TypeOK, ProcessOption, Acceptable, Pair, Configured, main
<1>2. i' % 2 = 1 /\ i' <= Len(args) + 1
  BY <1>1
<1>3. ASSUME NEW o \in Options, LastOf(o, i, config[o]) PROVE LastOf(o, i, config[o])'
  <2>1. \A k \in 1 .. Len(args) : k % 2 = 1 /\ k < i + 2 <=> k % 2 = 1 /\ (k < i \/ k = i)
    BY <1>1
  <2>2. CASE args[i] = o
    <3>1. i \in Places(o, i)' /\ \A j \in Places(o, i)' : j <= i
      BY <1>1, <2>1, <2>2 DEF Places
    <3>2. config'[o] = args[i + 1] /\ i + 1 \in DOMAIN args
      BY <1>1, <2>2
    <3> QED
      BY <1>1, <3>1, <3>2 DEF LastOf
  <2>3. CASE args[i] # o
    <3>1. Places(o, i)' = Places(o, i)
      BY <1>1, <2>1, <2>3 DEF Places
    <3>2. config'[o] = config[o]
      BY <1>1, <2>3
    <3> QED
      BY <1>1, <1>3, <3>1, <3>2 DEF LastOf
  <2> QED
    BY <2>2, <2>3
<1> QED
  BY <1>2, <1>3

\* An interface of the host, its network and its address.
LEMMA HostType ==
    ASSUME TypeOK, NEW k \in DOMAIN host
    PROVE  /\ host[k].net \in Networks /\ host[k].loopback \in BOOLEAN
           /\ Address(host[k].net) \in Addresses
           /\ host[k].loopback => host[k].net \notin Range(Net)
<1>1. host \in Hosts /\ host \in Seq(Interface)
  BY DiscoveryAssumption DEF TypeOK
<1>2. host[k].net \in Networks
  BY <1>1 DEF Networks
<1>3. host[k] \in Interface
  BY <1>1
<1>4. host[k].loopback => host[k].net \notin Range(Net)
  BY <1>1, DiscoveryAssumption
<1>5. Address(host[k].net) \in Addresses
  BY <1>2 DEF TypeOK, Address, Addresses
<1> QED
  BY <1>2, <1>3, <1>4, <1>5 DEF Interface

\* The loop over the interfaces ends at one place.
LEMMA FinalUnique ==
    ASSUME TypeOK, NEW k \in Final
    PROVE  Final = {k}
<1>1. host \in Seq(Interface)
  BY DiscoveryAssumption DEF TypeOK
<1>2. Len(host) \in Nat /\ DOMAIN host = 1 .. Len(host)
  BY <1>1
<1>3. ASSUME NEW j \in Final, j < k PROVE FALSE
  BY <1>2, <1>3 DEF Final
<1>4. ASSUME NEW j \in Final, k < j PROVE FALSE
  BY <1>2, <1>4 DEF Final
<1>5. Final \subseteq Nat
  BY <1>2 DEF Final
<1>6. \A j \in Final : j = k
  <2>1. TAKE j \in Final
  <2>2. j \in Nat /\ k \in Nat /\ ~(j < k) /\ ~(k < j)
    BY <1>3, <1>4, <1>5
  <2> QED
    BY <2>2
<1> QED
  BY <1>6

-----------------------------------------------------------------------------
(* The main thread up to the loop.                                         *)

USE DEF main, statics, Outside, client, counts

\* What controllers hold stays right as long as nobody gets anything.
LEMMA ClientKept ==
    ASSUME ServedAsConfigured, LaunchAfterDiscovery,
           UNCHANGED <<args, host, heard, desc, outcome>>
    PROVE  ServedAsConfigured' /\ LaunchAfterDiscovery'
<1>1. Primary' = Primary /\ \A o : Given(o)' = Given(o)
  BY DEF Primary, Final, Given
<1> QED
  BY <1>1 DEF ServedAsConfigured, LaunchAfterDiscovery

\* Before the loop nobody has anything fresh.
LEMMA AnsweredKept ==
    ASSUME Answered, mpc # "receive", UNCHANGED <<inbox, heard, desc>>
    PROVE  Answered'
BY DEF Answered, Beside

LEMMA LocatedKept ==
    ASSUME Located, UNCHANGED <<host, ip_addr, hw_addr>>,
           mpc' \in Found => mpc \in Found, mpc' \in Early => mpc \in Early
    PROVE  Located'
<1>1. Primary' = Primary
  BY DEF Primary, Final
<1> QED
  BY <1>1 DEF Located

\* The type of what a step of the start-up leaves alone.
LEMMA OutsideType ==
    ASSUME TypeOK, UNCHANGED Outside, args' = args,
           i' \in Nat \ {0}, config' \in [Options -> STRING], registered' \in BOOLEAN,
           mpc' \in Steps, listening' \subseteq {"dial", "ssdp"},
           names' \in [Names -> Texts], dial_port' \in PortValues, my_port' \in PortValues,
           ip_addr' \in Addresses, hw_addr' \in Macs, send_buf' \subseteq Replies
    PROVE  TypeOK'
BY DEF TypeOK

LEMMA ProcessOptionIInv == ASSUME IInv, ProcessOption PROVE IInv'
<1>1. /\ mpc = "options" /\ mpc' = "options" /\ i' = i + 2
      /\ config' = [config EXCEPT ![args[i]] = args[i + 1]] /\ args[i + 1] \in STRING
      /\ UNCHANGED <<args, registered, listening, statics, Outside>>
  <2>1. i + 1 \in DOMAIN args
    BY ArgsType DEF IInv, TypeOK, ProcessOption, Acceptable, Pair
  <2> QED
    BY <2>1, ArgsType DEF IInv, ProcessOption
<1>2. i' \in Nat \ {0}
  BY <1>1 DEF IInv, TypeOK
<1>3. config' \in [Options -> STRING]
  BY <1>1 DEF IInv, TypeOK
<1>4. TypeOK'
  BY <1>1, <1>2, <1>3, OutsideType DEF IInv, TypeOK
<1>5. Configured'
  <2>1. i' % 2 = 1 /\ i' <= Len(args) + 1
    BY PairIsLast DEF IInv
  <2>2. ASSUME NEW o \in Options PROVE LastOf(o, i, config[o])'
    BY <1>1, PairIsLast DEF IInv, Configured
  <2> QED
    BY <1>1, <2>1, <2>2 DEF Configured, Registered, Named, Ported
<1>6. Started' /\ Located' /\ Composed'
  BY <1>1
     DEF IInv, Started, Located, Composed, Registered, Ported, Named, Found, Served, Early
<1> QED
  BY <1>1, <1>4, <1>5, <1>6, ClientKept, AnsweredKept DEF IInv

\* The process ends: nothing is listening any more.
LEMMA EndIInv ==
    ASSUME IInv, NEW step \in Steps \ {"receive"}, NEW how \in {"exited", "crashed"},
           End(step, how), UNCHANGED <<main, statics, Outside>>
    PROVE  IInv'
<1>1. mpc # "receive" /\ mpc' \in {"exited", "crashed"} /\ listening' = {}
  BY DEF End
<1>2. TypeOK'
  BY <1>1, OutsideType DEF IInv, TypeOK, Steps
<1>3. Configured' /\ Started' /\ Located' /\ Composed'
  BY <1>1
     DEF Configured, Started, Located, Composed, Registered, Ported, Named, Found, Served, Early
<1> QED
  BY <1>1, <1>2, <1>3, ClientKept, AnsweredKept DEF IInv

LEMMA OptionsDoneIInv == ASSUME IInv, OptionsDone PROVE IInv'
<1>1. /\ mpc = "options" /\ mpc' = "register" /\ i > Len(args)
      /\ UNCHANGED <<args, i, config, registered, listening, statics, Outside>>
  BY AfterFacts DEF OptionsDone, Pass
<1>2. TypeOK'
  BY <1>1, OutsideType DEF IInv, TypeOK, Steps
<1>3. Configured'
  <2>1. i % 2 = 1 /\ i = Len(args) + 1
    <3>1. i % 2 = 1 /\ i <= Len(args) + 1 /\ i > Len(args)
      BY <1>1 DEF IInv, Configured
    <3>2. i \in Nat /\ Len(args) \in Nat
      BY ArgsType DEF IInv, TypeOK
    <3> QED
      BY <3>1, <3>2
  <2>2. \A o \in Options : config[o] = Given(o)
    BY <1>1, <2>1, LastIsGiven DEF IInv, Configured
  <2>3. config = [o \in Options |-> Given(o)]
    BY <2>2 DEF IInv, TypeOK
  <2>4. \A o : Given(o)' = Given(o)
    BY <1>1 DEF Given
  <2> QED
    BY <1>1, <2>3, <2>4 DEF Configured, Registered, Named, Ported
<1>4. Started' /\ Located' /\ Composed'
  BY <1>1
     DEF IInv, Started, Located, Composed, Registered, Ported, Named, Found, Served, Early
<1> QED
  BY <1>1, <1>2, <1>3, <1>4, ClientKept, AnsweredKept DEF IInv

\* The steps after the options leave the configuration alone.
LEMMA ConfiguredKept ==
    ASSUME Configured, mpc \in Registered \cup {"register"}, mpc' \in Registered,
           UNCHANGED <<args, config>>,
           names' = [o \in Names |-> config[o]] \/ mpc' \notin Named
             \/ (mpc \in Named /\ names' = names)
    PROVE  Configured'
<1>1. config = [o \in Options |-> Given(o)] /\ \A o : Given(o)' = Given(o)
  BY DEF Configured, Given
<1>2. config' = [o \in Options |-> Given(o)']
  BY <1>1
<1>3. mpc' \in Named => names' = [o \in Names |-> Given(o)']
  BY <1>1 DEF Configured, Options, Names
<1> QED
  BY <1>2, <1>3 DEF Configured, Registered

LEMMA RegisterAppsIInv == ASSUME IInv, RegisterApps PROVE IInv'
<1>1. /\ mpc = "register" /\ mpc' = "start" /\ registered'
      /\ UNCHANGED <<args, i, config, listening, statics, Outside>>
  BY AfterFacts DEF RegisterApps, Pass
<1>2. TypeOK'
  BY <1>1, AfterFacts, OutsideType DEF IInv, TypeOK, Steps, RegisterApps
<1>3. Configured'
  BY <1>1, ConfiguredKept DEF IInv, Registered, Steps, Named, Ported
<1>4. Started' /\ Located' /\ Composed'
  BY <1>1
     DEF IInv, Started, Located, Composed, Registered, Ported, Named, Found, Served, Early, Steps
<1> QED
  BY <1>1, <1>2, <1>3, <1>4, ClientKept, AnsweredKept DEF IInv

\* mg_start with a free port or a taken one.
LEMMA MgStartIInv ==
    ASSUME IInv, NEW step, NEW port, MgStart(step, port),
           <<step, port>> \in {<<"start", "dial">>, <<"describe", "ssdp">>}
    PROVE  IInv'
<1>1. /\ \/ mpc = "start" /\ mpc' = "port" /\ listening' \in {listening, listening \cup {"dial"}}
         \/ mpc = "describe" /\ mpc' = "listen"
              /\ listening' \in {listening, listening \cup {"ssdp"}}
      /\ UNCHANGED <<main, statics, Outside>>
  BY AfterFacts DEF MgStart, Pass
<1>2. TypeOK'
  BY <1>1, OutsideType DEF IInv, TypeOK, Steps
<1>3. Configured'
  BY <1>1, ConfiguredKept DEF IInv, Registered, Steps, Named, Ported
<1>4. Started' /\ Composed'
  BY <1>1 DEF IInv, Started, Composed, Registered, Ported, Named, Found, Served, Steps
<1>5. Located'
  BY <1>1, LocatedKept DEF IInv, Registered, Ported, Named, Found, Early, Steps
<1> QED
  BY <1>1, <1>2, <1>3, <1>4, <1>5, ClientKept, AnsweredKept DEF IInv

LEMMA GetPortIInv == ASSUME IInv, DIAL_get_port PROVE IInv'
<1>1. /\ mpc = "port" /\ mpc' = "names" /\ "dial" \in listening /\ dial_port' = "dial"
      /\ UNCHANGED <<main, listening, names, my_port, ip_addr, hw_addr, send_buf, Outside>>
  BY AfterFacts DEF DIAL_get_port, Pass
<1>2. TypeOK'
  BY <1>1, OutsideType DEF IInv, TypeOK, Steps, PortValues
<1>3. Configured'
  BY <1>1, ConfiguredKept DEF IInv, Registered, Steps, Named, Ported
<1>4. Started' /\ Located' /\ Composed'
  BY <1>1
     DEF IInv, Started, Located, Composed, Registered, Ported, Named, Found, Served, Early, Steps
<1> QED
  BY <1>1, <1>2, <1>3, <1>4, ClientKept, AnsweredKept DEF IInv

LEMMA CopyNamesIInv == ASSUME IInv, CopyNames PROVE IInv'
<1>1. /\ mpc = "names" /\ mpc' = "address" /\ names' = [o \in Names |-> config[o]]
      /\ UNCHANGED <<main, listening, dial_port, my_port, ip_addr, hw_addr, send_buf, Outside>>
  BY AfterFacts DEF CopyNames, Pass
<1>2. names' \in [Names -> Texts]
  BY <1>1 DEF IInv, TypeOK, Names, Options, Texts
<1>3. TypeOK'
  BY <1>1, <1>2, OutsideType DEF IInv, TypeOK, Steps
<1>4. Configured'
  BY <1>1, ConfiguredKept DEF IInv, Registered, Steps, Named, Ported
<1>5. Started' /\ Located' /\ Composed'
  BY <1>1
     DEF IInv, Started, Located, Composed, Registered, Ported, Named, Found, Served, Early, Steps
<1> QED
  BY <1>1, <1>3, <1>4, <1>5, ClientKept, AnsweredKept DEF IInv

\* Where the interfaces end decides what is found: none, a loopback, or the
\* first that is not.
LEMMA GetLocalAddressIInv == ASSUME IInv, GetLocalAddress PROVE IInv'
<1>1. /\ mpc = "address" /\ mpc' = "describe"
      /\ UNCHANGED <<main, listening, names, dial_port, my_port, send_buf, Outside>>
  BY AfterFacts DEF GetLocalAddress, Pass
<1>2. /\ ip_addr' \in Addresses /\ hw_addr' \in Macs
      /\ \/ Primary = {} /\ ip_addr'[1] \notin Range(Net)
         \/ Primary = {ip_addr'[1]} /\ hw_addr' = ip_addr'[1]
  <2>1. CASE \E k \in Final : /\ ip_addr' = Address(host[k].net)
                              /\ hw_addr' = IF host[k].loopback THEN hw_addr ELSE host[k].net
    <3>1. PICK k \in Final : /\ ip_addr' = Address(host[k].net)
                             /\ hw_addr' = IF host[k].loopback THEN hw_addr ELSE host[k].net
      BY <2>1
    <3>2. k \in DOMAIN host /\ Final = {k}
      BY FinalUnique DEF IInv, Final
    <3>3. ip_addr' \in Addresses /\ host[k].net \in Networks /\ host[k].loopback \in BOOLEAN
      BY <3>1, <3>2, HostType DEF IInv
    <3>4. ip_addr'[1] = host[k].net
      BY <3>1 DEF Address
    <3>5. hw_addr' \in Macs
      BY <3>1, <3>3 DEF IInv, TypeOK, Macs
    <3>6. CASE host[k].loopback
      BY <3>2, <3>3, <3>4, <3>5, <3>6, HostType DEF IInv, Primary
    <3>7. CASE ~host[k].loopback
      BY <3>1, <3>2, <3>3, <3>4, <3>5, <3>7 DEF Primary
    <3> QED
      BY <3>6, <3>7
  <2>2. CASE Final = {} /\ UNCHANGED <<ip_addr, hw_addr>>
    <3>1. ip_addr[1] = LoopbackNet
      BY <1>1 DEF IInv, Located, Early
    <3>2. Primary = {} /\ ip_addr' = ip_addr /\ hw_addr' = hw_addr
      BY <2>2 DEF Primary
    <3> QED
      BY <3>1, <3>2, DiscoveryAssumption DEF IInv, TypeOK
  <2> QED
    BY <2>1, <2>2 DEF GetLocalAddress
<1>3. TypeOK'
  BY <1>1, <1>2, OutsideType DEF IInv, TypeOK, Steps
<1>4. Configured'
  BY <1>1, ConfiguredKept DEF IInv, Registered, Steps, Named, Ported
<1>5. Started' /\ Composed'
  BY <1>1 DEF IInv, Started, Composed, Registered, Ported, Named, Found, Served, Steps
<1>6. Located'
  <2>1. Primary' = Primary
    BY <1>1 DEF Primary, Final
  <2> QED
    BY <1>1, <1>2, <2>1 DEF Located, Early
<1> QED
  BY <1>1, <1>3, <1>4, <1>5, <1>6, ClientKept, AnsweredKept DEF IInv

LEMMA ListenAddressIInv == ASSUME IInv, ListenAddress PROVE IInv'
<1>1. /\ mpc = "listen" /\ mpc' = "compose" /\ "ssdp" \in listening /\ my_port' = "ssdp"
      /\ UNCHANGED <<main, listening, names, dial_port, ip_addr, hw_addr, send_buf, Outside>>
  BY AfterFacts DEF ListenAddress, Pass
<1>2. TypeOK'
  BY <1>1, OutsideType DEF IInv, TypeOK, Steps, PortValues
<1>3. Configured'
  BY <1>1, ConfiguredKept DEF IInv, Registered, Steps, Named, Ported
<1>4. Started' /\ Composed'
  BY <1>1 DEF IInv, Started, Composed, Registered, Ported, Named, Found, Served, Steps
<1>5. Located'
  BY <1>1, LocatedKept DEF IInv, Registered, Ported, Named, Found, Early, Steps
<1> QED
  BY <1>1, <1>2, <1>3, <1>4, <1>5, ClientKept, AnsweredKept DEF IInv

LEMMA ComposeIInv == ASSUME IInv, Compose PROVE IInv'
<1>1. /\ mpc = "compose" /\ mpc' = "socket"
      /\ UNCHANGED <<main, listening, names, dial_port, my_port, ip_addr, hw_addr, Outside>>
  BY AfterFacts DEF Compose, Pass
<1>2. /\ names["uuid"] = Given("uuid") /\ config["wake"] = Given("wake") /\ my_port = "ssdp"
      /\ names["uuid"] \in Texts
  BY <1>1 DEF IInv, Configured, Started, TypeOK, Registered, Named, Ported, Steps, Names, Options
<1> DEFINE mac == IF Given("wake") = "on" THEN hw_addr ELSE NoWakeup
           reply == [fresh |-> TRUE, ip |-> ip_addr, port |-> "ssdp", uuid |-> Given("uuid"),
                     mac |-> mac]
<1>3. send_buf' = {reply}
  BY <1>2 DEF Compose
<1>4. reply \in Replies
  <2>1. ip_addr \in Addresses /\ mac \in Macs /\ Given("uuid") \in Texts
    BY <1>2 DEF IInv, TypeOK, Macs
  <2> QED
    BY <2>1 DEF Replies, PortValues
<1>5. TypeOK'
  BY <1>1, <1>3, <1>4, OutsideType DEF IInv, TypeOK, Steps
<1>6. Configured'
  BY <1>1, ConfiguredKept DEF IInv, Registered, Steps, Named, Ported
<1>7. Started'
  BY <1>1 DEF IInv, Started, Registered, Ported, Named, Found, Served, Steps
<1>8. Located'
  BY <1>1, LocatedKept DEF IInv, Registered, Ported, Named, Found, Early, Steps
<1>9. Composed'
  <2>1. Given("uuid")' = Given("uuid") /\ Given("wake")' = Given("wake")
    BY <1>1 DEF Given
  <2> QED
    BY <1>1, <1>3, <2>1 DEF Composed
<1> QED
  BY <1>1, <1>5, <1>6, <1>7, <1>8, <1>9, ClientKept, AnsweredKept DEF IInv

LEMMA OpenSocketIInv == ASSUME IInv, OpenSocket PROVE IInv'
<1>1. /\ mpc = "socket" /\ mpc' = "receive"
      /\ UNCHANGED <<main, listening, statics, Outside>>
  BY AfterFacts DEF OpenSocket, Pass
<1>2. TypeOK'
  BY <1>1, OutsideType DEF IInv, TypeOK, Steps
<1>3. Configured'
  BY <1>1, ConfiguredKept DEF IInv, Registered, Steps, Named, Ported
<1>4. Started'
  BY <1>1 DEF IInv, Started, Registered, Ported, Named, Found, Served, Steps
<1>5. Located'
  BY <1>1, LocatedKept DEF IInv, Registered, Ported, Named, Found, Early, Steps
<1>6. Composed'
  <2>1. Given("uuid")' = Given("uuid") /\ Given("wake")' = Given("wake")
    BY <1>1 DEF Given
  <2> QED
    BY <1>1, <2>1 DEF IInv, Composed
<1> QED
  BY <1>1, <1>2, <1>3, <1>4, <1>5, <1>6, ClientKept, AnsweredKept DEF IInv

\* Every step before the loop keeps the invariant.
LEMMA StartUpIInv == ASSUME IInv, StartUp PROVE IInv'
<1>1. CASE BadOption
  BY <1>1, EndIInv DEF BadOption, Steps
<1>2. CASE NoContext
  BY <1>2, EndIInv DEF NoContext, Steps
<1>3. CASE CallFails
  BY <1>3, EndIInv DEF CallFails, Steps
<1>4. CASE DIAL_start \/ StartDescription
  BY <1>4, MgStartIInv DEF DIAL_start, StartDescription
<1> QED
  BY <1>1, <1>2, <1>3, <1>4, ProcessOptionIInv, OptionsDoneIInv, RegisterAppsIInv, GetPortIInv,
     CopyNamesIInv, GetLocalAddressIInv, ListenAddressIInv, ComposeIInv, OpenSocketIInv
     DEF StartUp

-----------------------------------------------------------------------------
(* The loop, controllers and the network.                                  *)

\* What the loop, a controller or the network does leaves the server as it is.
LEMMA ServerKept ==
    ASSUME IInv, UNCHANGED <<main, mpc, listening, statics, host>>
    PROVE  Configured' /\ Started' /\ Located' /\ Composed'
<1>1. \A o : Given(o)' = Given(o)
  BY DEF Given
<1>2. Primary' = Primary
  BY DEF Primary, Final
<1>3. \A o, n, value : LastOf(o, n, value)' = LastOf(o, n, value)
  BY DEF LastOf, Places
<1>4. Configured'
  BY <1>1, <1>3 DEF IInv, Configured
<1>5. Started'
  BY DEF IInv, Started
<1>6. Located'
  BY <1>2 DEF IInv, Located
<1>7. Composed'
  BY <1>1 DEF IInv, Composed
<1> QED
  BY <1>4, <1>5, <1>6, <1>7

\* A datagram that is taken from the socket.
LEMMA HeadType ==
    ASSUME TypeOK, inbox # <<>>
    PROVE  /\ Head(inbox) \in Datagrams /\ Tail(inbox) \in Seq(Datagrams)
           /\ 1 \in DOMAIN inbox /\ Head(inbox) = inbox[1]
           /\ \A k \in DOMAIN Tail(inbox) : k + 1 \in DOMAIN inbox /\ Tail(inbox)[k] = inbox[k + 1]
BY DEF TypeOK

\* The answer that is sent is the one that was composed.
LEMMA ReplyFacts ==
    ASSUME IInv, mpc = "receive", NEW c \in Controllers, Beside(c), NEW r \in send_buf
    PROVE  /\ r.uuid = Given("uuid") /\ r.port = "ssdp" /\ Primary = {r.ip[1]}
           /\ r.mac = IF Given("wake") = "on" THEN r.ip[1] ELSE NoWakeup
<1>1. r = [fresh |-> TRUE, ip |-> ip_addr, port |-> "ssdp", uuid |-> Given("uuid"),
           mac |-> IF Given("wake") = "on" THEN hw_addr ELSE NoWakeup]
  BY DEF IInv, Composed
<1>2. ip_addr[1] \in Range(Net)
  BY DiscoveryAssumption DEF Beside, Range
<1>3. Primary = {ip_addr[1]} /\ hw_addr = ip_addr[1]
  BY <1>2 DEF IInv, Located, Found, Named, Ported, Registered, Steps
<1> QED
  BY <1>1, <1>3

LEMMA ReceiveIInv == ASSUME IInv, Receive PROVE IInv'
<1>1. /\ mpc = "receive" /\ inbox # <<>> /\ gBuf' = {Head(inbox)} /\ inbox' = Tail(inbox)
      /\ UNCHANGED <<main, mpc, listening, statics, host, moves, desc, outcome, sent, delivered,
                     errors>>
  BY DEF Receive
<1> DEFINE d == Head(inbox)
<1>2. d \in Datagrams /\ d.from \in Controllers /\ Beside(d.from)
  BY <1>1, HeadType DEF IInv, Answered, Datagrams
<1>3. \/ heard' = heard \/ heard' = [heard EXCEPT ![d.from] = send_buf]
  BY <1>1 DEF Receive, Match, Answer
<1>4. replies' \in [Controllers -> Nat] /\ failed' \in [Controllers -> Nat]
  <2>1. /\ \/ replies' = replies \/ replies' = [replies EXCEPT ![d.from] = @ + 1]
        /\ \/ failed' = failed \/ failed' = [failed EXCEPT ![d.from] = @ + 1]
    BY <1>1 DEF Receive, Match, Answer
  <2>2. replies \in [Controllers -> Nat] /\ failed \in [Controllers -> Nat]
    BY DEF IInv, TypeOK
  <2> QED
    BY <1>2, <2>1, <2>2
<1>5. heard' \in [Controllers -> SUBSET Replies]
  BY <1>2, <1>3 DEF IInv, TypeOK
<1>6. TypeOK'
  BY <1>1, <1>2, <1>4, <1>5, HeadType DEF IInv, TypeOK
<1>7. \A c \in Controllers : \A r \in heard'[c] :
        r \in heard[c] \/ (Beside(c) /\ r \in send_buf)
  BY <1>2, <1>3 DEF IInv, TypeOK
<1>8. \A o : Given(o)' = Given(o)
  BY <1>1 DEF Given
<1>9. Primary' = Primary
  BY <1>1 DEF Primary, Final
<1>10. Answered'
  <2>1. \A c : Beside(c)' = Beside(c)
    BY <1>1 DEF Beside
  <2>2. \A k \in DOMAIN inbox' : Beside(inbox'[k].from)
    BY <1>1, HeadType DEF IInv, Answered
  <2>3. \A c \in Controllers : \A r \in heard'[c] : r.port = "ssdp" /\ (r.fresh => Beside(c))
    BY <1>1, <1>7, ReplyFacts DEF IInv, Answered
  <2> QED
    BY <1>1, <2>1, <2>2, <2>3 DEF IInv, Answered
<1>11. ServedAsConfigured'
  <2>1. ASSUME NEW c \in Controllers, NEW r \in heard'[c], r.fresh
        PROVE  /\ r.uuid = Given("uuid") /\ r.port = "ssdp" /\ Primary = {r.ip[1]}
               /\ r.mac = IF Given("wake") = "on" THEN r.ip[1] ELSE NoWakeup
    <3>1. CASE r \in heard[c]
      BY <2>1, <3>1 DEF IInv, ServedAsConfigured
    <3>2. CASE r \in send_buf /\ Beside(c)
      BY <1>1, <3>2, ReplyFacts
    <3> QED
      BY <1>7, <3>1, <3>2
  <2>2. \A c \in Controllers : \A e \in desc[c] :
          /\ e.names = [o \in Names |-> Given(o)] /\ e.port = "dial"
          /\ Primary # {} => e.ip[1] \in Primary
    BY DEF IInv, ServedAsConfigured
  <2> QED
    BY <1>1, <1>8, <1>9, <2>1, <2>2 DEF ServedAsConfigured
<1>12. LaunchAfterDiscovery'
  BY <1>1 DEF IInv, LaunchAfterDiscovery
<1> QED
  BY <1>1, <1>6, <1>10, <1>11, <1>12, ServerKept DEF IInv

LEMMA RecvErrorIInv == ASSUME IInv, RecvError PROVE IInv'
<1>1. TypeOK'
  BY DEF IInv, TypeOK, RecvError
<1>2. Answered'
  BY DEF IInv, Answered, Beside, RecvError
<1>3. ServedAsConfigured' /\ LaunchAfterDiscovery'
  BY ClientKept DEF IInv, RecvError
<1> QED
  BY <1>1, <1>2, <1>3, ServerKept DEF IInv, RecvError

\* Copies arrive only from beside the interface with ip_addr.
LEMMA SendIInv ==
    ASSUME IInv, NEW c \in Controllers, NEW search \in BOOLEAN, Send(c, search)
    PROVE  IInv'
<1> DEFINE d == [from |-> c, search |-> search]
<1>1. UNCHANGED <<main, mpc, listening, statics, gBuf, host, moves, client, replies, failed, errors>>
  BY DEF Send
<1>2. PICK copies \in {<<>>, <<d>>, <<d, d>>} :
        /\ copies # <<>> => mpc = "receive" /\ ip_addr[1] = Net[c]
        /\ inbox' = inbox \o copies
        /\ delivered' = [delivered EXCEPT ![c] = IF search THEN @ + Len(copies) ELSE @]
  BY DEF Send
<1>3. d \in Datagrams /\ copies \in Seq(Datagrams) /\ Len(copies) \in Nat
      /\ \A k \in DOMAIN copies : copies[k] = d
  <2>1. d \in Datagrams
    BY DEF Datagrams
  <2>2. ASSUME NEW e \in Datagrams
        PROVE  /\ <<>> \in Seq(Datagrams) /\ <<e>> \in Seq(Datagrams) /\ <<e, e>> \in Seq(Datagrams)
               /\ Len(<<>>) \in Nat /\ Len(<<e>>) \in Nat /\ Len(<<e, e>>) \in Nat
               /\ DOMAIN <<>> = {} /\ DOMAIN <<e>> = {1} /\ DOMAIN <<e, e>> = {1, 2}
               /\ <<e>>[1] = e /\ <<e, e>>[1] = e /\ <<e, e>>[2] = e
    OBVIOUS
  <2> HIDE DEF d
  <2> QED
    BY <1>2, <2>1, <2>2
<1>4. inbox \in Seq(Datagrams)
  BY DEF IInv, TypeOK
<1>5. delivered' \in [Controllers -> Nat]
  BY <1>2, <1>3 DEF IInv, TypeOK
<1>6. sent' \in [Controllers -> Nat]
  BY DEF Send, IInv, TypeOK
<1>7. inbox' \in Seq(Datagrams)
  BY <1>2, <1>3, <1>4
<1>8. TypeOK'
  BY <1>1, <1>5, <1>6, <1>7 DEF IInv, TypeOK
<1>9. \A k \in DOMAIN inbox' : (k \in DOMAIN inbox /\ inbox'[k] = inbox[k])
                              \/ (copies # <<>> /\ inbox'[k] = d)
  <2>1. \A k \in DOMAIN inbox' :
          \/ k \in 1 .. Len(inbox) /\ inbox'[k] = inbox[k]
          \/ k - Len(inbox) \in 1 .. Len(copies) /\ inbox'[k] = copies[k - Len(inbox)]
    BY <1>2, <1>3, <1>4
  <2> QED
    BY <1>3, <1>4, <2>1
<1>10. Answered'
  <2>1. \A b : Beside(b)' = Beside(b)
    BY <1>1 DEF Beside
  <2>2. \A k \in DOMAIN inbox' : Beside(inbox'[k].from)
    BY <1>2, <1>9 DEF IInv, Answered, Beside
  <2> QED
    BY <1>1, <2>1, <2>2 DEF IInv, Answered
<1> QED
  BY <1>1, <1>8, <1>10, ClientKept, ServerKept DEF IInv

\* The description is served from the step after StartDescription on, when all
\* it shows is set.
LEMMA FetchIInv == ASSUME IInv, NEW c \in Controllers, Fetch(c) PROVE IInv'
<1>1. UNCHANGED <<main, mpc, listening, statics, inbox, gBuf, host, moves, heard, outcome, counts>>
  BY DEF Fetch
<1>2. PICK r \in heard[c] : Reaches(c, r.ip, r.port)
                           /\ desc' = [desc EXCEPT ![c] = {Description(r.fresh)}]
  BY DEF Fetch
<1>3. mpc \in Served
  BY <1>2 DEF IInv, Answered, Reaches, Started
<1>4. r \in Replies /\ r.fresh \in BOOLEAN
  BY DEF IInv, TypeOK, Replies
<1>5. /\ Description(r.fresh).fresh = r.fresh /\ Description(r.fresh).ip = ip_addr
      /\ Description(r.fresh).port = "dial" /\ Description(r.fresh).names = names
      /\ names = [o \in Names |-> Given(o)]
  BY <1>3 DEF IInv, Started, Configured, Description, Served, Found, Named
<1>6. Description(r.fresh) \in Descriptions
  BY <1>4 DEF IInv, TypeOK, Description, Descriptions
<1>7. \A b \in Controllers : \A e \in desc'[b] :
        e \in desc[b] \/ (b = c /\ e = Description(r.fresh))
  BY <1>2 DEF IInv, TypeOK
<1>8. TypeOK'
  BY <1>1, <1>2, <1>6 DEF IInv, TypeOK
<1>9. Answered'
  <2>1. \A b : Beside(b)' = Beside(b)
    BY <1>1 DEF Beside
  <2>2. r.fresh => Beside(c)
    BY DEF IInv, Answered
  <2>3. \A b \in Controllers : \A e \in desc'[b] : e.fresh => Beside(b) /\ e.ip = ip_addr
    BY <1>5, <1>7, <2>2 DEF IInv, Answered
  <2> QED
    BY <1>1, <2>1, <2>3 DEF IInv, Answered
<1>10. ServedAsConfigured'
  <2>1. Primary' = Primary /\ \A o : Given(o)' = Given(o)
    BY <1>1 DEF Primary, Final, Given
  <2>2. Primary # {} => ip_addr[1] \in Primary
    BY <1>3 DEF IInv, Located, Served
  <2>3. \A b \in Controllers : \A e \in desc'[b] :
          /\ e.names = [o \in Names |-> Given(o)] /\ e.port = "dial"
          /\ Primary # {} => e.ip[1] \in Primary
    BY <1>5, <1>7, <2>2 DEF IInv, ServedAsConfigured
  <2>4. \A b \in Controllers : \A q \in heard[b] : q.fresh =>
          /\ q.uuid = Given("uuid") /\ q.port = "ssdp" /\ Primary = {q.ip[1]}
          /\ q.mac = IF Given("wake") = "on" THEN q.ip[1] ELSE NoWakeup
    BY DEF IInv, ServedAsConfigured
  <2> QED
    BY <1>1, <2>1, <2>3, <2>4 DEF ServedAsConfigured
<1>11. LaunchAfterDiscovery'
  BY <1>1 DEF IInv, LaunchAfterDiscovery
<1> QED
  BY <1>1, <1>8, <1>9, <1>10, <1>11, ServerKept DEF IInv

\* Whoever reaches a server reaches it after the applications are registered,
\* and from beside the interface nothing but another address is in the way.
LEMMA LaunchIInv == ASSUME IInv, NEW c \in Controllers, Launch(c) PROVE IInv'
<1>1. UNCHANGED <<main, mpc, listening, statics, inbox, gBuf, host, moves, heard, desc, counts>>
  BY DEF Launch
<1>2. PICK d \in desc[c] :
        outcome' = [outcome EXCEPT ![c] =
             {[fresh |-> d.fresh, moved |-> d.ip # Address(d.ip[1]),
               result |-> IF ~Reaches(c, d.ip, d.port) THEN "unreachable"
                          ELSE IF registered THEN "created" ELSE "notFound"]}]
  BY DEF Launch
<1> DEFINE moved == d.ip # Address(d.ip[1])
           result == IF ~Reaches(c, d.ip, d.port) THEN "unreachable"
                     ELSE IF registered THEN "created" ELSE "notFound"
           o == [fresh |-> d.fresh, moved |-> moved, result |-> result]
<1>3. d \in Descriptions /\ d.fresh \in BOOLEAN
  BY DEF IInv, TypeOK, Descriptions
<1>4. o \in Outcomes
  BY <1>3 DEF Outcomes
<1>5. outcome' \in [Controllers -> SUBSET Outcomes]
  BY <1>2, <1>4 DEF IInv, TypeOK
<1>6. TypeOK'
  BY <1>1, <1>5 DEF IInv, TypeOK
<1>7. Reaches(c, d.ip, d.port) => registered
  BY DEF Reaches, IInv, Started
<1>8. d.fresh /\ ~moved => Reaches(c, d.ip, d.port)
  <2>1. SUFFICES ASSUME d.fresh, ~moved PROVE Reaches(c, d.ip, d.port)
    OBVIOUS
  <2>2. mpc = "receive" /\ ip_addr[1] = Net[c] /\ d.ip = ip_addr
    BY <2>1 DEF IInv, Answered, Beside
  <2>3. d.port = "dial" /\ "dial" \in listening
    BY <2>2 DEF IInv, ServedAsConfigured, Started, Ported, Registered, Steps
  <2>4. ip_addr[1] \in Range(Net)
    BY <2>2, DiscoveryAssumption DEF Range
  <2>5. Primary = {ip_addr[1]}
    BY <2>2, <2>4 DEF IInv, Located, Found, Named, Ported, Registered, Steps
  <2>6. \E k \in DOMAIN host : host[k].net = Net[c]
    BY <2>2, <2>5 DEF Primary, Final
  <2> QED
    BY <2>1, <2>2, <2>3, <2>6 DEF Reaches
<1>9. o.result # "notFound" /\ (o.fresh /\ ~o.moved => o.result = "created")
  BY <1>7, <1>8
<1>10. \A b \in Controllers : \A e \in outcome'[b] : e \in outcome[b] \/ e = o
  BY <1>2 DEF IInv, TypeOK
<1>11. LaunchAfterDiscovery'
  BY <1>9, <1>10 DEF IInv, LaunchAfterDiscovery
<1>12. Answered'
  BY <1>1 DEF IInv, Answered, Beside
<1>13. ServedAsConfigured'
  <2>1. Primary' = Primary /\ \A q : Given(q)' = Given(q)
    BY <1>1 DEF Primary, Final, Given
  <2> QED
    BY <1>1, <2>1 DEF IInv, ServedAsConfigured
<1> QED
  BY <1>1, <1>6, <1>11, <1>12, <1>13, ServerKept DEF IInv

\* Another address changes what controllers reach, not what they hold.
LEMMA MoveIInv == ASSUME IInv, NEW n \in Range(Net), Move(n) PROVE IInv'
<1>1. UNCHANGED <<main, mpc, listening, statics, inbox, gBuf, host, client, counts>>
  BY DEF Move
<1>2. moves' \in [Networks -> 0 .. MaxMoves]
  <2>1. moves' = [moves EXCEPT ![n] = @ + 1] /\ moves \in [Networks -> 0 .. MaxMoves]
        /\ n \in Networks /\ moves[n] < MaxMoves
    BY DEF IInv, TypeOK, Move, Networks
  <2>2. moves[n] + 1 \in 0 .. MaxMoves
    BY <2>1, DiscoveryAssumption
  <2> QED
    BY <2>1, <2>2
<1>3. TypeOK'
  BY <1>1, <1>2 DEF IInv, TypeOK
<1>4. Answered'
  BY <1>1 DEF IInv, Answered, Beside
<1> QED
  BY <1>1, <1>3, <1>4, ClientKept, ServerKept DEF IInv

-----------------------------------------------------------------------------
(* The theorems.                                                           *)

LEMMA InitIInv == ASSUME Init PROVE IInv
<1>1. 0 \in 0 .. MaxMoves
  BY DiscoveryAssumption
<1>2. LoopbackNet \in Networks /\ Range(Net) \subseteq Networks
  BY DEF Networks
<1>3. \A n \in Networks : <<n, 0>> \in Addresses
  BY <1>1 DEF Addresses
<1>4. \A c \in Controllers : \A r \in heard[c] : \E n \in Range(Net) :
        r = [fresh |-> FALSE, ip |-> <<n, 0>>, port |-> "ssdp", uuid |-> Unset, mac |-> NoWakeup]
  BY DEF Init
<1>5. ASSUME NEW c \in Controllers, NEW r \in heard[c] PROVE r.port = "ssdp" /\ ~r.fresh
  <2>1. PICK n \in Range(Net) :
          r = [fresh |-> FALSE, ip |-> <<n, 0>>, port |-> "ssdp", uuid |-> Unset, mac |-> NoWakeup]
    BY <1>4
  <2> QED
    BY <2>1
<1>6. heard \in [Controllers -> SUBSET Replies]
  <2>1. ASSUME NEW c \in Controllers, NEW r \in heard[c] PROVE r \in Replies
    <3>1. PICK n \in Range(Net) :
            r = [fresh |-> FALSE, ip |-> <<n, 0>>, port |-> "ssdp", uuid |-> Unset, mac |-> NoWakeup]
      BY <1>4
    <3>2. n \in Networks /\ <<n, 0>> \in Addresses
      BY <1>2, <1>3
    <3>3. "ssdp" \in PortValues /\ NoWakeup \in Macs /\ Unset \in Texts
      BY DEF PortValues, Macs, Texts
    <3> QED
      BY <3>1, <3>2, <3>3 DEF Replies
  <2>2. \A c \in Controllers : heard[c] \subseteq Replies
    BY <2>1
  <2>3. \E S : heard \in [Controllers -> S]
    BY DEF Init
  <2> QED
    BY <2>2, <2>3
<1>7. moves \in [Networks -> 0 .. MaxMoves]
  BY <1>1 DEF Init
<1>8. inbox \in Seq(Datagrams) /\ ip_addr \in Addresses
  <2>1. inbox = <<>> /\ ip_addr = <<LoopbackNet, 0>>
    BY DEF Init
  <2>2. <<>> \in Seq(Datagrams)
    OBVIOUS
  <2> QED
    BY <1>2, <1>3, <2>1, <2>2
<1>9. TypeOK
  <2>1. /\ args \in CommandLines /\ i \in Nat \ {0} /\ config \in [Options -> STRING]
        /\ mpc \in Steps /\ listening \subseteq {"dial", "ssdp"} /\ registered \in BOOLEAN
        /\ {dial_port, my_port} \subseteq PortValues /\ hw_addr \in Macs /\ host \in Hosts
    <3>1. /\ args \in CommandLines /\ i = 1 /\ config = Defaults /\ mpc = "options"
          /\ listening = {} /\ registered = FALSE /\ dial_port = Unset /\ my_port = Unset
          /\ hw_addr = Unset /\ host \in Hosts
      BY DEF Init
    <3>2. Unset \in PortValues /\ Unset \in Macs /\ "options" \in Steps
      BY DEF Steps, PortValues, Macs
    <3>3. config \in [Options -> STRING]
      BY <3>1, DiscoveryAssumption
    <3>4. i \in Nat \ {0}
      BY <3>1
    <3>5. listening \subseteq {"dial", "ssdp"} /\ registered \in BOOLEAN
      BY <3>1
    <3>6. {dial_port, my_port} \subseteq PortValues /\ hw_addr \in Macs /\ mpc \in Steps
      BY <3>1, <3>2
    <3> QED
      BY <3>1, <3>3, <3>4, <3>5, <3>6
  <2>2. names \in [Names -> Texts] /\ send_buf \subseteq Replies /\ gBuf \subseteq Datagrams
    <3>1. names = [o \in Names |-> Unset] /\ send_buf = {} /\ gBuf = {}
      BY DEF Init
    <3>2. Unset \in Texts
      BY DEF Texts
    <3> QED
      BY <3>1, <3>2
  <2>3. desc \in [Controllers -> SUBSET Descriptions] /\ outcome \in [Controllers -> SUBSET Outcomes]
    BY DEF Init
  <2>4. {sent, delivered, replies, failed} \subseteq [Controllers -> Nat] /\ errors \in Nat
    <3>1. /\ sent = [c \in Controllers |-> 0] /\ delivered = sent /\ replies = sent
          /\ failed = sent /\ errors = 0
      BY DEF Init
    <3>2. sent \in [Controllers -> Nat]
      BY <3>1
    <3> QED
      BY <3>1, <3>2
  <2> QED
    BY <1>6, <1>7, <1>8, <2>1, <2>2, <2>3, <2>4 DEF TypeOK
<1>10. Configured
  <2>1. Len(args) \in Nat /\ DOMAIN args = 1 .. Len(args)
    BY <1>9, ArgsType
  <2>2. i = 1 /\ mpc = "options" /\ config = Defaults
    BY DEF Init
  <2>3. i % 2 = 1 /\ i <= Len(args) + 1
    BY <2>1, <2>2
  <2>4. \A k \in 1 .. Len(args) : ~(k < 1)
    BY <2>1
  <2>5. \A o : Places(o, i) = {}
    BY <2>1, <2>2, <2>4 DEF Places
  <2> QED
    BY <2>2, <2>3, <2>5 DEF Configured, LastOf, Registered, Named, Ported
<1>11. Started /\ Located /\ Composed
  BY DEF Init, Started, Located, Composed, Registered, Ported, Named, Found, Served, Early
<1>12. Answered /\ ServedAsConfigured /\ LaunchAfterDiscovery
  <2>1. inbox = <<>> /\ \A c \in Controllers : desc[c] = {} /\ outcome[c] = {}
    BY DEF Init
  <2> QED
    BY <1>5, <2>1 DEF Answered, ServedAsConfigured, LaunchAfterDiscovery
<1> QED
  BY <1>9, <1>10, <1>11, <1>12 DEF IInv

LEMMA StutterIInv == ASSUME IInv, UNCHANGED vars PROVE IInv'
<1>1. TypeOK'
  BY DEF IInv, TypeOK, vars
<1>2. Answered'
  BY DEF IInv, Answered, Beside, vars
<1> QED
  BY <1>1, <1>2, ClientKept, ServerKept DEF IInv, vars

\* The invariant holds from the command line on: what the main thread has done
\* when it comes to a step, and what controllers hold.
THEOREM DiscoveryInvariant == Spec => []IInv
<1>1. Init => IInv
  BY InitIInv
<1>2. IInv /\ [Next]_vars => IInv'
  BY StartUpIInv, ReceiveIInv, RecvErrorIInv, SendIInv, FetchIInv, LaunchIInv, MoveIInv,
     StutterIInv DEF Next, Main, Environment
<1> QED
  BY <1>1, <1>2, PTL DEF Spec

\* The statics, the socket and the controllers keep their types.
THEOREM TypeCorrect == Spec => []TypeOK
<1>1. IInv => TypeOK
  BY DEF IInv
<1> QED
  BY <1>1, DiscoveryInvariant, PTL

\* Descriptions and answers show what the command line gives last, the port of
\* the right server and one interface, however early they are fetched.
THEOREM EveryoneServedAsConfigured == Spec => []ServedAsConfigured
<1>1. IInv => ServedAsConfigured
  BY DEF IInv
<1> QED
  BY <1>1, DiscoveryInvariant, PTL

\* Who has found the server by its answer can launch unless its address has
\* changed, and no launch comes before the registration.
THEOREM DiscoveredCanLaunch == Spec => []LaunchAfterDiscovery
<1>1. IInv => LaunchAfterDiscovery
  BY DEF IInv
<1> QED
  BY <1>1, DiscoveryInvariant, PTL

-----------------------------------------------------------------------------
(* Answers are counted: none without a search that has arrived.            *)

\* The searches of controller c that wait in s.
Pending(c, s) == {k \in DOMAIN s : s[k].from = c /\ s[k].search}

One(c, d) == IF d.from = c /\ d.search THEN 1 ELSE 0

\* Every search that has arrived waits or was answered once, or sendto failed.
Counted ==
    \A c \in Controllers :
        replies[c] + failed[c] + Cardinality(Pending(c, inbox)) <= delivered[c]

LEMMA PendingFinite ==
    ASSUME NEW c, NEW s \in Seq(Datagrams)
    PROVE  IsFiniteSet(Pending(c, s)) /\ Cardinality(Pending(c, s)) \in Nat
<1>1. Len(s) \in Nat /\ DOMAIN s = 1 .. Len(s)
  OBVIOUS
<1>2. IsFiniteSet(1 .. Len(s))
  BY <1>1, FS_Interval
<1>3. Pending(c, s) \in SUBSET (1 .. Len(s))
  BY <1>1 DEF Pending
<1> QED
  BY <1>2, <1>3, FS_Subset, FS_CardinalityType

LEMMA PendingAppend ==
    ASSUME NEW c, NEW s \in Seq(Datagrams), NEW d \in Datagrams
    PROVE  Cardinality(Pending(c, Append(s, d))) = Cardinality(Pending(c, s)) + One(c, d)
<1> DEFINE new == Len(s) + 1
<1>1. /\ Len(s) \in Nat /\ DOMAIN s = 1 .. Len(s) /\ DOMAIN Append(s, d) = 1 .. new
      /\ Append(s, d)[new] = d /\ \A k \in 1 .. Len(s) : Append(s, d)[k] = s[k]
  OBVIOUS
<1>2. new \notin Pending(c, s)
  BY <1>1 DEF Pending
<1>3. \A k : k \in 1 .. new <=> k \in 1 .. Len(s) \/ k = new
  BY <1>1
<1>4. Pending(c, Append(s, d))
        = IF d.from = c /\ d.search THEN Pending(c, s) \cup {new} ELSE Pending(c, s)
  BY <1>1, <1>3 DEF Pending
<1>5. Cardinality(Pending(c, s) \cup {new}) = Cardinality(Pending(c, s)) + 1
  BY <1>2, PendingFinite, FS_AddElement
<1> QED
  BY <1>4, <1>5, PendingFinite DEF One

\* Without its head, every datagram moves one place down.
LEMMA PendingTail ==
    ASSUME NEW c, NEW s \in Seq(Datagrams), s # <<>>
    PROVE  Cardinality(Pending(c, s)) = Cardinality(Pending(c, Tail(s))) + One(c, Head(s))
<1> DEFINE f == [k \in Pending(c, Tail(s)) |-> k + 1]
           rest == Pending(c, s) \ {1}
<1>1. /\ Len(s) \in Nat \ {0} /\ DOMAIN s = 1 .. Len(s) /\ Head(s) = s[1]
      /\ Tail(s) \in Seq(Datagrams) /\ DOMAIN Tail(s) = 1 .. Len(s) - 1
      /\ \A k \in 1 .. Len(s) - 1 : Tail(s)[k] = s[k + 1]
  OBVIOUS
<1>2. \A k \in Pending(c, Tail(s)) : k \in Nat /\ f[k] = k + 1 /\ k + 1 \in rest
  BY <1>1 DEF Pending
<1>3. \A j \in rest : j - 1 \in Pending(c, Tail(s)) /\ f[j - 1] = j
  <2>1. ASSUME NEW j \in rest PROVE j \in 2 .. Len(s) /\ s[j].from = c /\ s[j].search
    BY <1>1, <2>1 DEF Pending
  <2>2. ASSUME NEW j \in rest PROVE j - 1 \in 1 .. Len(s) - 1 /\ Tail(s)[j - 1] = s[j]
    BY <1>1, <2>1
  <2>3. ASSUME NEW j \in rest PROVE j - 1 \in Pending(c, Tail(s))
    BY <1>1, <2>1, <2>2 DEF Pending
  <2> QED
    BY <2>1, <2>3
<1>4. f \in Bijection(Pending(c, Tail(s)), rest)
  <2>1. f \in [Pending(c, Tail(s)) -> rest]
    BY <1>2
  <2>2. \A k, j \in Pending(c, Tail(s)) : f[k] = f[j] => k = j
    BY <1>2
  <2>3. \A j \in rest : \E k \in Pending(c, Tail(s)) : f[k] = j
    BY <1>3
  <2> HIDE DEF f, rest
  <2> QED
    BY <2>1, <2>2, <2>3 DEF Bijection, Injection, Surjection, IsInjective
<1>5. Cardinality(rest) = Cardinality(Pending(c, Tail(s)))
  <2> HIDE DEF f, rest
  <2> QED
    BY <1>1, <1>4, PendingFinite, FS_Bijection DEF ExistsBijection
<1>6. 1 \in Pending(c, s) <=> Head(s).from = c /\ Head(s).search
  BY <1>1 DEF Pending
<1>7. Cardinality(rest)
        = IF 1 \in Pending(c, s) THEN Cardinality(Pending(c, s)) - 1 ELSE Cardinality(Pending(c, s))
  BY PendingFinite, FS_RemoveElement
<1> HIDE DEF f, rest
<1> QED
  BY <1>1, <1>5, <1>6, <1>7, PendingFinite DEF One

\* A step that neither receives nor counts.
LEMMA CountedKept ==
    ASSUME Counted, UNCHANGED <<inbox, replies, failed, delivered>>
    PROVE  Counted'
BY DEF Counted

LEMMA ReceiveCounted == ASSUME IInv, Counted, Receive PROVE Counted'
<1> DEFINE d == Head(inbox)
<1>1. /\ inbox \in Seq(Datagrams) /\ inbox # <<>> /\ inbox' = Tail(inbox) /\ gBuf' = {d}
      /\ delivered' = delivered /\ Match(gBuf')
  BY DEF IInv, TypeOK, Receive
<1>2. d \in Datagrams /\ d.from \in Controllers /\ d.search \in BOOLEAN /\ Tail(inbox) \in Seq(Datagrams)
  BY <1>1, HeadType DEF IInv, Datagrams
<1>3. \A c \in Controllers :
        replies[c] \in Nat /\ failed[c] \in Nat /\ delivered[c] \in Nat
  BY DEF IInv, TypeOK
<1>4. {replies, failed} \subseteq [Controllers -> Nat]
  BY DEF IInv, TypeOK
<1>5. \A c \in Controllers : replies'[c] + failed'[c] = replies[c] + failed[c] + One(c, d)
  <2>1. CASE d.search /\ Answer(d.from)
    <3>1. \/ replies' = [replies EXCEPT ![d.from] = @ + 1] /\ failed' = failed
          \/ failed' = [failed EXCEPT ![d.from] = @ + 1] /\ replies' = replies
      BY <2>1 DEF Answer
    <3>2. \A c \in Controllers : One(c, d) = IF c = d.from THEN 1 ELSE 0
      BY <2>1 DEF One
    <3>3. SUFFICES ASSUME NEW c \in Controllers
                   PROVE  replies'[c] + failed'[c] = replies[c] + failed[c] + One(c, d)
      OBVIOUS
    <3>4. /\ replies \in [Controllers -> Nat] /\ failed \in [Controllers -> Nat]
          /\ replies[c] \in Nat /\ failed[c] \in Nat
      BY <1>3, <1>4
    <3>5. \/ replies'[c] = replies[c] + One(c, d) /\ failed'[c] = failed[c]
          \/ failed'[c] = failed[c] + One(c, d) /\ replies'[c] = replies[c]
      BY <3>1, <3>2, <3>4
    <3>6. One(c, d) \in Nat
      BY <3>2
    <3> QED
      BY <3>4, <3>5, <3>6
  <2>2. CASE ~d.search /\ UNCHANGED <<replies, failed>>
    BY <1>3, <2>2 DEF One
  <2> QED
    BY <1>1, <2>1, <2>2 DEF Match
<1> SUFFICES ASSUME NEW c \in Controllers
             PROVE  (replies[c] + failed[c] + Cardinality(Pending(c, inbox)) <= delivered[c])'
  BY DEF Counted
<1>6. Cardinality(Pending(c, inbox)) = Cardinality(Pending(c, Tail(inbox))) + One(c, d)
  BY <1>1, PendingTail
<1>7. Cardinality(Pending(c, Tail(inbox))) \in Nat /\ One(c, d) \in Nat
  BY <1>2, PendingFinite DEF One
<1>8. replies[c] + failed[c] + Cardinality(Pending(c, inbox)) <= delivered[c]
  BY DEF Counted
<1>9. replies'[c] + failed'[c] = replies[c] + failed[c] + One(c, d)
  BY <1>5
<1>10. replies'[c] + failed'[c] + Cardinality(Pending(c, Tail(inbox))) <= delivered[c]
  BY <1>3, <1>6, <1>7, <1>8, <1>9
<1> QED
  BY <1>1, <1>10

LEMMA SendCounted ==
    ASSUME IInv, Counted, NEW c \in Controllers, NEW search \in BOOLEAN, Send(c, search)
    PROVE  Counted'
<1> DEFINE d == [from |-> c, search |-> search]
<1>1. PICK copies \in {<<>>, <<d>>, <<d, d>>} :
        /\ inbox' = inbox \o copies
        /\ delivered' = [delivered EXCEPT ![c] = IF search THEN @ + Len(copies) ELSE @]
  BY DEF Send
<1>2. /\ inbox \in Seq(Datagrams) /\ delivered \in [Controllers -> Nat]
      /\ {replies, failed} \subseteq [Controllers -> Nat] /\ replies' = replies /\ failed' = failed
      /\ d \in Datagrams
  BY DEF IInv, TypeOK, Send, Datagrams
<1> SUFFICES ASSUME NEW e \in Controllers
             PROVE  (replies[e] + failed[e] + Cardinality(Pending(e, inbox)) <= delivered[e])'
  BY DEF Counted
<1>3. replies[e] + failed[e] + Cardinality(Pending(e, inbox)) <= delivered[e]
  BY DEF Counted
<1>4. Cardinality(Pending(e, inbox)) \in Nat /\ replies[e] \in Nat /\ failed[e] \in Nat
  BY <1>2, PendingFinite
<1>5. delivered[e] \in Nat /\ One(e, d) = IF e = c /\ search THEN 1 ELSE 0
  BY <1>2 DEF One
<1>6. CASE copies = <<>>
  <2>1. inbox' = inbox /\ delivered'[e] = delivered[e]
    BY <1>1, <1>2, <1>6
  <2> QED
    BY <1>2, <1>3, <2>1
<1>7. CASE copies = <<d>>
  <2>1. inbox' = Append(inbox, d) /\ delivered'[e] = delivered[e] + One(e, d)
    <3> HIDE DEF d
    <3>1. inbox \o <<d>> = Append(inbox, d) /\ Len(<<d>>) = 1
      BY <1>2
    <3> QED
      BY <1>1, <1>2, <1>5, <1>7, <3>1
  <2>2. Cardinality(Pending(e, inbox')) = Cardinality(Pending(e, inbox)) + One(e, d)
    BY <1>2, <2>1, PendingAppend
  <2> QED
    BY <1>2, <1>3, <1>4, <1>5, <2>1, <2>2
<1>8. CASE copies = <<d, d>>
  <2>1. inbox' = Append(Append(inbox, d), d) /\ delivered'[e] = delivered[e] + 2 * One(e, d)
    <3> HIDE DEF d
    <3>1. inbox \o <<d, d>> = Append(Append(inbox, d), d) /\ Len(<<d, d>>) = 2
      <4> DEFINE left == inbox \o <<d, d>>
                 right == Append(Append(inbox, d), d)
      <4>1. <<d, d>> \in Seq(Datagrams) /\ Len(<<d, d>>) = 2
        BY <1>2
      <4>2. /\ left \in Seq(Datagrams) /\ Len(left) = Len(inbox) + 2 /\ Len(inbox) \in Nat
            /\ \A k \in 1 .. Len(inbox) + 2 :
                 left[k] = IF k <= Len(inbox) THEN inbox[k] ELSE <<d, d>>[k - Len(inbox)]
        BY <1>2, <4>1, ConcatProperties
      <4>3. /\ Append(inbox, d) \in Seq(Datagrams) /\ Len(Append(inbox, d)) = Len(inbox) + 1
            /\ \A k \in 1 .. Len(inbox) : Append(inbox, d)[k] = inbox[k]
            /\ Append(inbox, d)[Len(inbox) + 1] = d
        BY <1>2, AppendProperties
      <4>4. /\ right \in Seq(Datagrams) /\ Len(right) = Len(inbox) + 2
            /\ \A k \in 1 .. Len(inbox) + 1 : right[k] = Append(inbox, d)[k]
            /\ right[Len(inbox) + 2] = d
        BY <1>2, <4>2, <4>3, AppendProperties
      <4>5. \A k \in 1 .. Len(inbox) + 2 :
              k \in 1 .. Len(inbox) \/ k = Len(inbox) + 1 \/ k = Len(inbox) + 2
        BY <4>2
      <4>6. <<d, d>>[1] = d /\ <<d, d>>[2] = d
        OBVIOUS
      <4>7. left[Len(inbox) + 1] = d /\ left[Len(inbox) + 2] = d
        BY <4>2, <4>6
      <4>8. \A k \in 1 .. Len(inbox) + 2 : left[k] = right[k]
        BY <4>2, <4>3, <4>4, <4>5, <4>7
      <4> HIDE DEF left, right
      <4>9. left = right
        BY <4>2, <4>4, <4>8, SeqEqual
      <4> QED
        BY <4>1, <4>9 DEF left, right
    <3> QED
      BY <1>1, <1>2, <1>5, <1>8, <3>1
  <2>2. Append(inbox, d) \in Seq(Datagrams)
    BY <1>2
  <2>3. Cardinality(Pending(e, inbox')) = Cardinality(Pending(e, inbox)) + 2 * One(e, d)
    <3>1. Cardinality(Pending(e, Append(inbox, d))) = Cardinality(Pending(e, inbox)) + One(e, d)
      BY <1>2, PendingAppend
    <3>2. Cardinality(Pending(e, inbox')) = Cardinality(Pending(e, Append(inbox, d))) + One(e, d)
      BY <1>2, <2>1, <2>2, PendingAppend
    <3> QED
      BY <1>4, <1>5, <3>1, <3>2
  <2> QED
    BY <1>2, <1>3, <1>4, <1>5, <2>1, <2>3
<1> QED
  BY <1>1, <1>6, <1>7, <1>8

LEMMA NextCounted == ASSUME IInv, Counted, [Next]_vars PROVE Counted'
<1>1. CASE StartUp
  BY <1>1, CountedKept DEF StartUp, ProcessOption, BadOption, OptionsDone, RegisterApps, MgStart,
     DIAL_start, StartDescription, DIAL_get_port, NoContext, CopyNames, GetLocalAddress,
     ListenAddress, Compose, OpenSocket, CallFails, Outside, counts
<1>2. CASE Receive
  BY <1>2, ReceiveCounted
<1>3. CASE RecvError
  BY <1>3, CountedKept DEF RecvError
<1>4. CASE \E c \in Controllers : \E search \in BOOLEAN : Send(c, search)
  BY <1>4, SendCounted
<1>5. CASE \E c \in Controllers : Fetch(c) \/ Launch(c)
  BY <1>5, CountedKept DEF Fetch, Launch, counts
<1>6. CASE \E n \in Range(Net) : Move(n)
  BY <1>6, CountedKept DEF Move, counts
<1>7. CASE UNCHANGED vars
  BY <1>7, CountedKept DEF vars, counts
<1> QED
  BY <1>1, <1>2, <1>3, <1>4, <1>5, <1>6, <1>7 DEF Next, Main, Environment

\* Nobody gets more answers than searches of his have arrived, for any number of
\* searches, copies and failures: what waits and what was answered add up.
THEOREM RepliesAreSolicited == Spec => []NoUnsolicitedReply
<1>1. Init => Counted
  <2> SUFFICES ASSUME Init, NEW c \in Controllers
               PROVE  replies[c] + failed[c] + Cardinality(Pending(c, inbox)) <= delivered[c]
    BY DEF Counted
  <2>1. inbox = <<>> /\ replies[c] = 0 /\ failed[c] = 0 /\ delivered[c] = 0
    BY DEF Init
  <2>2. Pending(c, inbox) = {}
    BY <2>1 DEF Pending
  <2>3. Cardinality(Pending(c, inbox)) = 0
    BY <2>2, FS_EmptySet
  <2> QED
    BY <2>1, <2>3
<1>2. IInv /\ Counted /\ [Next]_vars => Counted'
  BY NextCounted
<1>3. IInv /\ Counted => NoUnsolicitedReply
  <2> SUFFICES ASSUME IInv, Counted, NEW c \in Controllers
               PROVE  replies[c] + failed[c] <= delivered[c]
    BY DEF NoUnsolicitedReply
  <2>1. /\ replies[c] \in Nat /\ failed[c] \in Nat /\ delivered[c] \in Nat
        /\ inbox \in Seq(Datagrams)
    BY DEF IInv, TypeOK
  <2>2. Cardinality(Pending(c, inbox)) \in Nat
    BY <2>1, PendingFinite
  <2>3. replies[c] + failed[c] + Cardinality(Pending(c, inbox)) <= delivered[c]
    BY DEF Counted
  <2> QED
    BY <2>1, <2>2, <2>3
<1> QED
  BY <1>1, <1>2, <1>3, DiscoveryInvariant, PTL DEF Spec

=============================================================================
