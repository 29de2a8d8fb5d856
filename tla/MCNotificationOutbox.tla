------------------------ MODULE MCNotificationOutbox ------------------------
(* Constant values for model checking NotificationOutbox with TLC. *)
EXTENDS NotificationOutbox, TLC

CONSTANTS n1, n2, n3, k1, k2

MCNotes2 == {n1, n2}
MCNotes3 == {n1, n2, n3}
MCKeys   == {k1, k2}
\* n1 and n2 carry the same key.
MCKeyOf  == [n \in Notes |-> IF n = n3 THEN k2 ELSE k1]
\* For the rest nothing tells these two apart, and KeepsPromise is a safety
\* property, for which the symmetry is sound.
MCSymmetry == Permutations({n1, n2})
OwnKeys  == [n \in Notes |-> IF n = n1 THEN k1 ELSE k2]
=============================================================================
