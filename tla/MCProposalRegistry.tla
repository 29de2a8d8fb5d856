------------------------- MODULE MCProposalRegistry -------------------------
(* Constant values for model checking ProposalRegistry with TLC. *)
EXTENDS ProposalRegistry, TLC

CONSTANTS c1, c2, t1, t2, t3

MCCards    == {c1, c2}
OneCard    == {c1}
NoInst     == [c \in Cards |-> 0]
BothInst   == c1 :> 1 @@ c2 :> 2
FirstInst  == [c \in Cards |-> IF c = c1 THEN 1 ELSE 0]
MCThreads2 == {t1, t2}
MCThreads3 == {t1, t2, t3}
OneThread  == {t1}
ThreadPerms == Permutations(Threads)

BlockingOps    == {"ACCEPT", "REJECT", "DEFER", "suggest", "age_scan"}
FinalOps       == {"ACCEPT", "REJECT"}
NonBlockingOps == {"ACCEPT", "REJECT", "flip", "flipback", "suggest_nb"}
=============================================================================
