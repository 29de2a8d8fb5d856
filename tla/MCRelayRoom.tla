---------------------------- MODULE MCRelayRoom ----------------------------
(* Constant values for model checking RelayRoom with TLC. *)
EXTENDS RelayRoom

CONSTANTS c1, c2, c3, k1, k2, r1, r2

TwoConsoleSlots == {c1, c2}
MCConsoles      == {c1, c2, c3}
MCClients       == {k1, k2}
MCRids          == {r1, r2}
\* c3 asks for the other room.
MCRidOf         == [w \in Conns |-> IF w = c3 THEN r2 ELSE r1]
=============================================================================
