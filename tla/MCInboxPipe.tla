---------------------------- MODULE MCInboxPipe -----------------------------
(* Constant values for model checking InboxPipe with TLC. *)
EXTENDS InboxPipe

CONSTANTS m1, m2, m3

\* m2 answers m1; the others begin threads of their own.
MCMails    == {m1, m2, m3}
MCThreadOf == [m \in Mails |-> IF m = m2 THEN m1 ELSE m]
=============================================================================
