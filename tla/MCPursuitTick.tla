--------------------------- MODULE MCPursuitTick ---------------------------
(* Constant values for model checking PursuitTick with TLC. *)
EXTENDS PursuitTick

CONSTANTS goal

MCPursuits == {goal}
=============================================================================
