---------------------------- MODULE UnlockedFile ----------------------------
(***************************************************************************)
(* A file that is rewritten as a whole, without a lock, by way of one      *)
(* temporary file that all writers share (PursuitStore._save, SceneGate.   *)
(* _save): a writer takes its payload, writes the temporary file, renames  *)
(* it, and swallows an OSError.  A save that nobody else's overlaps        *)
(* replaces the file or fails.  Of saves that overlap, any payload may     *)
(* land last, a rename may find the temporary file gone, and two writers   *)
(* of one file may leave a broken one.                                     *)
(***************************************************************************)

\* book: what a reader finds.  dumps: payloads on their way, by whom, and what
\* they are about.  clean: the one on its way is alone.  sound: the last save
\* to end was alone and replaced the file, and none has overlapped since.
NewFile(book) == [book |-> book, dumps |-> {}, clean |-> FALSE, sound |-> TRUE]

Saving(file, by) == \E d \in file.dumps : d.by = by

\* The payload is taken.
Begun(file, by, of, book) ==
  [file EXCEPT !.dumps = @ \cup {[by |-> by, of |-> of, book |-> book]},
               !.clean = file.dumps = {},
               !.sound = @ /\ file.dumps = {}]

\* What may be found in the file when save d is over; broken is what a reader
\* makes of a broken file.
Landed(file, d, broken) ==
  IF file.clean THEN {d.book}
                ELSE {d.book, file.book, broken} \cup {o.book : o \in file.dumps}

Ended(file, d, broken) ==
  { [book  |-> book,
     dumps |-> file.dumps \ {d},
     clean |-> FALSE,
     sound |-> file.clean] : book \in Landed(file, d, broken) }
=============================================================================
