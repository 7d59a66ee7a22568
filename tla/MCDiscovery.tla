---------------------------- MODULE MCDiscovery -----------------------------
(***************************************************************************)
(* Discovery with a controller beside the first interface of the host and  *)
(* one beside the second, with hosts that have both, only the second, or   *)
(* nothing but a loopback, and with command lines that set an option       *)
(* twice, switch WAKEUP off, or are not accepted.                          *)
(***************************************************************************)
EXTENDS Discovery, TLC

CONSTANTS c1, c2

MCNet == c1 :> "home" @@ c2 :> "guest"

MCDefaults == [o \in Options |-> IF o = "wake" THEN "on" ELSE "default " \o o]

MCCommandLines ==
    {<<>>, <<"uuid", "1", "friendly", "A", "friendly", "B">>, <<"wake", "off", "model", "M">>,
     <<"uuid", "1", "wake", "maybe">>, <<"uuid">>, <<"verbose", "on">>}

Lo == [net |-> "lo", loopback |-> TRUE]
Home == [net |-> "home", loopback |-> FALSE]
Guest == [net |-> "guest", loopback |-> FALSE]

MCHosts == {<<Lo, Home, Guest>>, <<Guest, Lo>>, <<Lo>>}
=============================================================================
