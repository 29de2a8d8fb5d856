--------------------------- MODULE MCScenePreexec ---------------------------
(* Constant values for model checking ScenePreexec with TLC. *)
EXTENDS ScenePreexec

CONSTANTS s1, s2, failed

MCSignals == {s1, s2}
MCKinds   == {failed}
MCKindOf  == [s \in MCSignals |-> failed]
=============================================================================
