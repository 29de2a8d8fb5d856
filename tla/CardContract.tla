---------------------------- MODULE CardContract ----------------------------
(***************************************************************************)
(* What the decision loop promises about one produced card, whatever       *)
(* threads, locks and files implement it.  A card instance is one object a *)
(* producer handed to broadcast_proposal: it is offered to the user, then  *)
(* either closed (REJECT, a superseding suggestion, a second suggestion of *)
(* the same id) or taken by exactly one ACCEPT, which runs its handler     *)
(* once.  Nothing leads back: a closed or taken instance is never offered  *)
(* again and a handler that ran never runs again ("an e-mail or a payment  *)
(* is never sent twice, for every kind").                                  *)
(***************************************************************************)
CONSTANT Instances        \* identities of the produced card objects

VARIABLE stage            \* Instances -> the stage each one has reached

Stages == {"unborn", "offered", "taken", "run", "closed"}

\* The file the console starts from offers some cards already.
Init == stage \in [Instances -> {"unborn", "offered"}]

Move(i, from, to) == stage[i] \in from /\ stage' = [stage EXCEPT ![i] = to]

Offer(i) == Move(i, {"unborn"}, "offered")

\* One suggestion may replace the card that is pending under the same id.
Supersede(i, j) ==
  /\ i # j
  /\ stage[i] = "unborn"
  /\ stage[j] = "offered"
  /\ stage' = [stage EXCEPT ![i] = "offered", ![j] = "closed"]

Take(i)  == Move(i, {"offered"}, "taken")
Run(i)   == Move(i, {"taken"}, "run")
Close(i) == Move(i, {"offered"}, "closed")

Next == \E i \in Instances :
          \/ Offer(i) \/ Take(i) \/ Run(i) \/ Close(i)
          \/ \E j \in Instances : Supersede(i, j)

Spec == Init /\ [][Next]_stage
=============================================================================
