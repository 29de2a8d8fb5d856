------------------------ MODULE NotificationContract ------------------------
(***************************************************************************)
(* What the notification service promises about each submitted command,    *)
(* whatever rows, leases, retries and crashes implement it.  A command is  *)
(* refused, or waits for an approval, or is opened for sending; an open    *)
(* one may be handed to its channel any number of times and ends only      *)
(* after that.  Nothing leads back: a refused command is never sent and an *)
(* ended one never again.  Of the commands that carry one dedupe key a     *)
(* single one ever gets as far as an approval or a send.                   *)
(***************************************************************************)
CONSTANTS Notes, KeyOf

VARIABLES
  phase,    \* the phase each command has reached
  sent      \* the commands that were handed to their channel

Phases == {"new", "waiting", "open", "ended", "refused"}

Init == phase = [n \in Notes |-> "new"] /\ sent = {}

\* No command with the same key got anywhere.
First(n) ==
  \A m \in Notes : m # n /\ KeyOf[m] = KeyOf[n] => phase[m] \in {"new", "refused"}

Move(n, from, to) == phase[n] \in from /\ phase' = [phase EXCEPT ![n] = to]

Hold(n)   == First(n) /\ Move(n, {"new"}, "waiting") /\ UNCHANGED sent
Open(n)   == First(n) /\ Move(n, {"new", "waiting"}, "open") /\ UNCHANGED sent
Refuse(n) == Move(n, {"new", "waiting"}, "refused") /\ UNCHANGED sent
Send(n)   == phase[n] = "open" /\ sent' = sent \cup {n} /\ UNCHANGED phase
End(n)    == n \in sent /\ Move(n, {"open"}, "ended") /\ UNCHANGED sent

Next == \E n \in Notes : Hold(n) \/ Open(n) \/ Refuse(n) \/ Send(n) \/ End(n)

Spec == Init /\ [][Next]_<<phase, sent>>
=============================================================================
