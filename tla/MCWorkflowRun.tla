---------------------------- MODULE MCWorkflowRun ----------------------------
(* Constant values for model checking WorkflowRun with TLC: a review that is *)
(* tried again, notes that are taken beside it, the two branches that follow *)
(* it, and an announcement that takes the product of one of them.            *)
EXTENDS WorkflowRun, TLC

CONSTANTS review, notes, ship, fix, announce, one, two

MCSteps     == {review, notes, ship, fix, announce}
MCDependsOn == [s \in MCSteps |-> CASE s = announce      -> {review, ship}
                                    [] s \in {ship, fix} -> {review}
                                    [] OTHER             -> {}]
MCInputs    == [MCDependsOn EXCEPT ![announce] = {ship}]
MCWhen      == [s \in MCSteps |-> CASE s = ship -> [step |-> review, status |-> "done"]
                                    [] s = fix  -> [step |-> review, status |-> "failed"]
                                    [] OTHER    -> NoWhen]
MCOnFail    == [s \in MCSteps |-> CASE s = review -> "retry"
                                    [] s = fix    -> "abort"
                                    [] OTHER      -> "skip"]
MCExecs     == {one, two}
MCSymmetry  == Permutations(MCExecs)
=============================================================================
