---------------------------- MODULE MCAppProcess ----------------------------
(***************************************************************************)
(* AppProcess with pids as model values.                                   *)
(***************************************************************************)
EXTENDS AppProcess, TLC

CONSTANTS p1, p2, p3

MCPids == {p1, p2, p3}
TwoPids == {p1, p2}

\* For runs without liveness properties.
Symmetry == Permutations(MCPids)
=============================================================================
