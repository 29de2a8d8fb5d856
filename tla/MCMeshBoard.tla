---------------------------- MODULE MCMeshBoard ----------------------------
(* Constant values for model checking MeshBoard with TLC. *)
EXTENDS MeshBoard

CONSTANTS a, b

MCDevices == {a, b}
MCFragile == {b}
MCRank    == [d \in Devices |-> IF d = a THEN 1 ELSE 2]
MCSkew    == [d \in Devices |-> IF d = a THEN 2 ELSE 0]
=============================================================================
