------------------------------ MODULE InboxPipe ------------------------------
(***************************************************************************)
(* The inbox pipe (channels/inbox_pipe.py): every few minutes it takes the *)
(* unread mails from an IMAP folder, asks a model about each and puts up a *)
(* card for those that want a decision or a reply.  Fetching a mail marks  *)
(* it as read on the server, so from then on the pipe alone knows of it:   *)
(* in the locals of poll_once, in the ledger's backlog, or in the file.    *)
(* One task polls; users decide cards on other threads.  Names that every  *)
(* specification has (Init, Next, ...) begin with Pipe here, so that a     *)
(* module can extend this one beside another.                              *)
(***************************************************************************)
EXTENDS Integers, SequencesExt

CONSTANTS
  Mails,       \* message ids; a thread key is the id of the thread's first mail
  ThreadOf,    \* thread_key
  MaxCards,    \* max_cards_per_tick
  BacklogCap,  \* BACKLOG_CAP
  SeenCap,     \* SEEN_CAP
  MaxCopies,   \* bound: mails marked unread again, or delivered again
  MaxFaults    \* bound: failed fetches, failed saves, restarts

ASSUME InboxAssumption ==
  /\ ThreadOf \in [Mails -> Mails]
  /\ IsFiniteSet(Mails)
  /\ MaxCards \in Nat \ {0} /\ BacklogCap \in Nat \ {0} /\ SeenCap \in Nat \ {0}
  /\ MaxCopies \in Nat /\ MaxFaults \in Nat

VARIABLES
  unread,    \* the UNSEEN mails of the folder, oldest first
  sent,      \* mails that were delivered
  copies,
  pc,        \* where poll_once is: between polls, in its loop, in save
  todo,      \* the rest of its list "pending"
  leftover,
  issued,    \* cards put up in this poll
  ledger,    \* InboxLedger: the keys seen and the backlog
  file,      \* inbox_pipe_state.json
  faults,
  judged,    \* history: mails the pipe is done with
  lost,      \* history: mails nobody will see again
  asked,     \* history: threads that had a card
  again,     \* history: threads that were put up once more
  unsaved,   \* history: the last save failed
  forgot,    \* history: threads whose card a restarted ledger did not know
  pruned     \* history: keys that a full ledger dropped

server       == <<unread, sent, copies>>
poll         == <<pc, todo, leftover, issued>>
pipe_history == <<judged, lost, asked, again, forgot, pruned, unsaved>>
pipe_vars    == <<server, poll, ledger, file, faults, pipe_history>>

Empty == [seen |-> {}, backlog |-> <<>>]
Torn  == [torn |-> TRUE, book |-> Empty]
Saved(b) == [torn |-> FALSE, book |-> b]

PipeInit ==
  /\ unread = <<>> /\ sent = {} /\ copies = 0
  /\ pc = "idle" /\ todo = <<>> /\ leftover = <<>> /\ issued = 0
  /\ ledger = Empty /\ file = Saved(Empty)
  /\ faults = 0
  /\ judged = {} /\ lost = {} /\ asked = {} /\ again = {} /\ forgot = {} /\ pruned = {}
  /\ unsaved = FALSE

-----------------------------------------------------------------------------
(* The mail server: a mail comes; one that was read is marked unread again. *)

Arrive(m) ==
  /\ m \notin ToSet(unread)
  /\ IF m \in sent THEN copies < MaxCopies /\ copies' = copies + 1 ELSE UNCHANGED copies
  /\ sent' = sent \cup {m}
  /\ unread' = Append(unread, m)
  /\ UNCHANGED <<poll, ledger, file, faults, pipe_history>>

-----------------------------------------------------------------------------
(* poll_once. *)

Fault == faults < MaxFaults /\ faults' = faults + 1

Begins(mails) ==
  /\ pc = "idle"
  /\ pc' = "loop" /\ leftover' = <<>> /\ issued' = 0
  /\ todo' = ledger.backlog \o mails
  /\ UNCHANGED <<sent, copies, ledger, file, judged, asked, again, forgot, pruned, unsaved>>

Fetch == Begins(unread) /\ unread' = <<>> /\ UNCHANGED <<lost, faults>>

\* The connection breaks after n mails: they are marked as read, and dropped.
FetchFails(n) ==
  /\ Fault
  /\ Begins(<<>>)
  /\ unread' = SubSeq(unread, n + 1, Len(unread))
  /\ lost' = lost \cup (ToSet(SubSeq(unread, 1, n)) \ judged)

Known(m) == m \in ledger.seen \/ ThreadOf[m] \in ledger.seen

\* One turn of the loop, about the first mail of the list.
Turn ==
  /\ pc = "loop" /\ todo # <<>>
  /\ todo' = Tail(todo)
  /\ UNCHANGED <<server, pc, file, faults, lost, forgot, unsaved>>

\* mark_seen, which keeps the SeenCap latest keys.  Their age is left out: any
\* may go, also a key of this poll, whose keys all have the same time.  A mail of
\* a known thread renews its own id, not the key of the thread.
Excess(keys) == Max({0, Cardinality(keys) - SeenCap})

Done(m, keys) ==
  /\ judged' = judged \cup {m}
  /\ \E D \in kSubset(Excess(ledger.seen \cup keys), ledger.seen \cup keys) :
       /\ ledger' = [ledger EXCEPT !.seen = (@ \cup keys) \ D]
       /\ pruned' = pruned \cup D

Skip ==
  /\ Turn
  /\ Known(Head(todo)) /\ Done(Head(todo), {Head(todo)})
  /\ UNCHANGED <<leftover, issued, asked, again>>

\* No model call beyond the limit of cards.
Postpone ==
  /\ Turn
  /\ ~ Known(Head(todo)) /\ issued >= MaxCards
  /\ leftover' = Append(leftover, Head(todo))
  /\ UNCHANGED <<issued, ledger, judged, asked, again, pruned>>

PutUp(k) ==
  /\ issued' = issued + 1
  /\ asked' = asked \cup {k} /\ again' = again \cup ({k} \cap asked)

\* Mutant: only the message id is remembered.
TriageById ==
  LET m == Head(todo) IN
  /\ Turn
  /\ ~ Known(m) /\ issued < MaxCards /\ Done(m, {m})
  /\ PutUp(ThreadOf[m]) \/ UNCHANGED <<issued, asked, again>>
  /\ UNCHANGED leftover

\* The model says decision or reply; or notice, which a failure counts as.
Triage ==
  LET m == Head(todo) IN
  /\ Turn
  /\ ~ Known(m) /\ issued < MaxCards /\ Done(m, {m, ThreadOf[m]})
  /\ PutUp(ThreadOf[m]) \/ UNCHANGED <<issued, asked, again>>
  /\ UNCHANGED leftover

\* set_backlog keeps the latest.
Capped(s) ==
  IF Len(s) > BacklogCap THEN SubSeq(s, Len(s) - BacklogCap + 1, Len(s)) ELSE s

\* save: opening the file empties it; either step may fail, which is swallowed.
Opens    == pc' = "save" /\ file' = Torn /\ UNCHANGED <<faults, unsaved>>
SaveFails == Fault /\ pc' = "idle" /\ unsaved' = TRUE /\ UNCHANGED file

Finished ==
  /\ pc = "loop" /\ todo = <<>>
  /\ ledger' = [ledger EXCEPT !.backlog = Capped(leftover)]
  /\ lost' = lost \cup (ToSet(leftover) \ (ToSet(Capped(leftover)) \cup judged))
  /\ leftover' = <<>>
  /\ UNCHANGED <<server, todo, issued, judged, asked, again, forgot, pruned>>

\* Mutants: the backlog of the poll before is kept; it is set after the save.
FinishOldBacklog ==
  /\ pc = "loop" /\ todo = <<>>
  /\ leftover' = <<>>
  /\ Opens \/ SaveFails
  /\ UNCHANGED <<server, todo, issued, ledger, judged, lost, asked, again, forgot, pruned>>

FinishSavesFirst ==
  /\ Finished
  /\ pc' = "idle" /\ file' = Saved(ledger) /\ unsaved' = FALSE /\ UNCHANGED faults

Finish == Finished /\ (Opens \/ SaveFails)

Write ==
  /\ pc = "save"
  /\ \/ pc' = "idle" /\ file' = Saved(ledger) /\ unsaved' = FALSE /\ UNCHANGED faults
     \/ SaveFails
  /\ UNCHANGED <<server, todo, leftover, issued, ledger, judged, lost, asked, again, forgot, pruned>>

\* The console ends and starts again, from the file; a torn one counts as empty.
Restart ==
  /\ Fault
  /\ pc' = "idle" /\ todo' = <<>> /\ leftover' = <<>> /\ issued' = 0
  /\ ledger' = file.book
  /\ lost' = lost \cup (sent \ (ToSet(unread) \cup judged \cup ToSet(file.book.backlog)))
  /\ forgot' = forgot \cup (asked \ file.book.seen)
  /\ unsaved' = FALSE
  /\ UNCHANGED <<server, file, judged, asked, again, pruned>>

-----------------------------------------------------------------------------

PollStep == Fetch \/ Skip \/ Postpone \/ Triage \/ Finish \/ Write

PipeNext ==
  \/ \E m \in Mails : Arrive(m)
  \/ PollStep
  \/ \E n \in 0 .. Len(unread) : FetchFails(n)
  \/ Restart

PipeSpec == PipeInit /\ [][PipeNext]_pipe_vars

\* The poll loop sleeps, polls and returns; a supervisor starts it anew.
PipeFairSpec == PipeSpec /\ WF_pipe_vars(PollStep)

-----------------------------------------------------------------------------

Books == [seen : SUBSET Mails, backlog : Seq(Mails)]

PipeTypeOK ==
  /\ unread \in Seq(Mails) /\ sent \subseteq Mails /\ copies \in 0 .. MaxCopies
  /\ pc \in {"idle", "loop", "save"}
  /\ todo \in Seq(Mails) /\ leftover \in Seq(Mails) /\ issued \in 0 .. MaxCards
  /\ ledger \in Books /\ file \in [torn : BOOLEAN, book : Books]
  /\ faults \in 0 .. MaxFaults
  /\ judged \subseteq Mails /\ lost \subseteq Mails
  /\ asked \subseteq Mails /\ again \subseteq Mails /\ forgot \subseteq Mails
  /\ pruned \subseteq Mails /\ unsaved \in BOOLEAN

\* "The same thread never has a second card": a thread is put before the user
\* once, however many mails it has, however often they are delivered and however
\* long they wait in the backlog.  Two things ask again, and no other: a restart
\* that brings back a ledger from before the card, and a full ledger that has
\* dropped the key of the thread.  (The module says that a damaged ledger never
\* repeats a card, since the card's id is the same; that holds only until the
\* first card is decided.)
AskedOnce == again \subseteq forgot \cup pruned

\* Between two polls a restart loses no mail ("on disk, survives a restart"):
\* what is no longer unread on the server has been dealt with or is in the
\* backlog of the file, unless the last save failed.
BacklogSurvives ==
  pc = "idle" /\ ~ unsaved =>
    sent \subseteq ToSet(unread) \cup judged \cup lost \cup ToSet(file.book.backlog)

\* Every mail is looked at some day, unless it is lost: to a connection that
\* breaks within a fetch, to the cap of the backlog, or to a restart between
\* the fetch and the save.
EveryMailJudged == \A m \in Mails : m \in sent ~> m \in judged \cup lost

\* Not true: a fetch that fails is simply made again ("next round").
FailedFetchHarmless ==
  [][ToSet(unread) \subseteq ToSet(unread') \cup ToSet(todo') \cup judged]_unread
=============================================================================
