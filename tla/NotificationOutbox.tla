------------------------- MODULE NotificationOutbox -------------------------
(***************************************************************************)
(* Notifications: the SQLite outbox of notifications/outbox.py (submit     *)
(* with policy and de-duplication, approval, leases, results) and the one  *)
(* dispatch loop of notifications/dispatcher.py and runtime.py, which      *)
(* leases a batch, sends its deliveries one after the other and records    *)
(* each result in two commits (the delivery, then the outbox row).         *)
(* Deadlines are booleans that elapse at any time; a notification resolves *)
(* to one recipient, so it has at most one delivery.                       *)
(***************************************************************************)
EXTENDS Integers, FiniteSets

CONSTANTS
  Notes,         \* submitted commands
  Keys, KeyOf,   \* the dedupe key of each command
  MaxAttempts,   \* Dispatcher.max_attempts
  BatchLimit,    \* dispatch_once(limit)
  Failures,      \* results of a send other than success that may happen
  MaxCrashes     \* bound: restarts, ticks cut short, failing commits

AllFailures == {"lost", "unclear", "limited", "permanent"}

ASSUME OutboxAssumption ==
  /\ KeyOf \in [Notes -> Keys]
  /\ MaxAttempts \in Nat \ {0}
  /\ BatchLimit \in Nat \ {0}
  /\ Failures \subseteq AllFailures
  /\ MaxCrashes \in Nat

VARIABLES
  binding,    \* what resolve_binding finds for the recipient
  row,        \* notification_outbox: status, and the scope of the dedupe key
  delivery,   \* notification_deliveries
  pc,         \* the dispatch loop
  batch,      \* leased deliveries it has not sent yet
  current,    \* the one it is sending, and the result, as a set of one record
  cleared,    \* history: allowed by the policy, or approved
  tried,      \* history: sends of each delivery
  accepted,   \* history: messages the channel took from us
  crashes

vars == <<binding, row, delivery, pc, batch, current, cleared, tried,
          accepted, crashes>>
loop == <<pc, batch, current>>
history == <<cleared, tried, accepted>>

-----------------------------------------------------------------------------
AtMost(n, cap) == IF n > cap THEN cap ELSE n
Cap == MaxAttempts + MaxCrashes + 1   \* bound: counters stop here
Bindings  == {"none", "ask", "auto"}      \* no row; consent = 1; consent = 2
Statuses  == {"new", "duplicate", "pending_approval", "queued", "delivered",
              "partially_delivered", "failed", "rejected"}
Rows      == [status : Statuses, bound : BOOLEAN]
DelStates == {"absent", "queued", "sending", "retry_wait", "delivered", "failed"}
Deliveries == [st : DelStates, attempts : 0 .. Cap,
               elapsed : BOOLEAN]    \* next_attempt_at or lease_until is past
NoDelivery == [st |-> "absent", attempts |-> 0, elapsed |-> FALSE]
NewDelivery == [st |-> "queued", attempts |-> 0, elapsed |-> TRUE]
Results   == Failures \cup {"ok"}
Stored(n) == row[n].status \notin {"new", "duplicate"}

Init ==
  /\ binding \in Bindings
  /\ row = [n \in Notes |-> [status |-> "new", bound |-> FALSE]]
  /\ delivery = [n \in Notes |-> NoDelivery]
  /\ pc = "idle" /\ batch = {} /\ current = {}
  /\ cleared = [n \in Notes |-> FALSE]
  /\ tried = [n \in Notes |-> 0]
  /\ accepted = [n \in Notes |-> 0]
  /\ crashes = 0

-----------------------------------------------------------------------------
(* Commands and approvals. *)

\* NotificationPolicy.evaluate
Policy(preauthorized, wellFormed) ==
  IF ~wellFormed \/ binding = "none" THEN "rejected"
  ELSE IF preauthorized \/ binding = "auto" THEN "queued"
  ELSE "pending_approval"

\* UNIQUE(dedupe_scope, dedupe_key); the scope holds the resolved recipient.
Clash(n) ==
  \E m \in Notes : /\ Stored(m) /\ KeyOf[m] = KeyOf[n]
                   /\ row[m].bound = (binding # "none")

\* Mutants of submit: no unique key; a delivery is queued before the approval.
SubmitTwice(n, preauthorized, wellFormed) ==
  LET status == Policy(preauthorized, wellFormed) IN
  /\ row[n].status = "new"
  /\ row' = [row EXCEPT ![n] = [status |-> status, bound |-> binding # "none"]]
  /\ delivery' = [delivery EXCEPT ![n] = IF status = "queued" THEN NewDelivery ELSE @]
  /\ cleared' = [cleared EXCEPT ![n] = status = "queued"]
  /\ UNCHANGED <<binding, loop, tried, accepted, crashes>>

SubmitEager(n, preauthorized, wellFormed) ==
  LET status == Policy(preauthorized, wellFormed) IN
  /\ row[n].status = "new" /\ ~Clash(n)
  /\ row' = [row EXCEPT ![n] = [status |-> status, bound |-> binding # "none"]]
  /\ delivery' = [delivery EXCEPT ![n] = IF status # "rejected" THEN NewDelivery ELSE @]
  /\ cleared' = [cleared EXCEPT ![n] = status = "queued"]
  /\ UNCHANGED <<binding, loop, tried, accepted, crashes>>

Submit(n, preauthorized, wellFormed) ==
  LET status == Policy(preauthorized, wellFormed) IN
  /\ row[n].status = "new"
  /\ IF Clash(n)
       THEN /\ row' = [row EXCEPT ![n].status = "duplicate"]
            /\ UNCHANGED <<delivery, cleared>>
       ELSE /\ row' = [row EXCEPT ![n] = [status |-> status,
                                          bound |-> binding # "none"]]
            /\ delivery' = [delivery EXCEPT ![n] =
                             IF status = "queued" THEN NewDelivery ELSE @]
            /\ cleared' = [cleared EXCEPT ![n] = status = "queued"]
  /\ UNCHANGED <<binding, loop, tried, accepted, crashes>>

\* Mutant of transition_approval: whether the command still waits is not asked.
ApproveLate(n) ==
  /\ Stored(n) /\ binding # "none"
  /\ row' = [row EXCEPT ![n].status = "queued"]
  /\ delivery' = [delivery EXCEPT ![n] = NewDelivery]
  /\ cleared' = [cleared EXCEPT ![n] = TRUE]
  /\ UNCHANGED <<binding, loop, tried, accepted, crashes>>

\* transition_approval(approved=True): rolled back if nobody is bound any more.
Approve(n) ==
  /\ row[n].status = "pending_approval"
  /\ binding # "none"
  /\ row' = [row EXCEPT ![n].status = "queued"]
  /\ delivery' = [delivery EXCEPT ![n] = NewDelivery]
  /\ cleared' = [cleared EXCEPT ![n] = TRUE]
  /\ UNCHANGED <<binding, loop, tried, accepted, crashes>>

Reject(n) ==
  /\ row[n].status = "pending_approval"
  /\ row' = [row EXCEPT ![n].status = "rejected"]
  /\ UNCHANGED <<binding, delivery, loop, history, crashes>>

\* upsert_binding, reconcile_tenant_consent
Rebind(b) ==
  /\ binding' = b
  /\ b # binding
  /\ UNCHANGED <<row, delivery, loop, history, crashes>>

-----------------------------------------------------------------------------
(* The dispatch loop. *)

\* A back-off or a lease runs out.
Elapse(n) ==
  /\ delivery[n].st \in {"retry_wait", "sending"}
  /\ ~delivery[n].elapsed
  /\ delivery' = [delivery EXCEPT ![n].elapsed = TRUE]
  /\ UNCHANGED <<binding, row, loop, history, crashes>>

Ready == {n \in Notes : /\ delivery[n].st \in {"queued", "retry_wait", "sending"}
                        /\ delivery[n].elapsed}

LeaseSet(S) ==
  /\ batch' = S
  /\ delivery' = [n \in Notes |->
       IF n \notin S THEN delivery[n]
       ELSE [st |-> "sending", elapsed |-> FALSE,
             attempts |-> AtMost(delivery[n].attempts + 1, Cap)]]
  /\ pc' = "batch"
  /\ UNCHANGED <<binding, row, current, history, crashes>>

\* Mutant: a delivery left in SENDING is nobody's any more.
LeaseNew(S) ==
  /\ pc = "idle" /\ S # {}
  /\ S \subseteq {n \in Ready : delivery[n].st # "sending"}
  /\ Cardinality(S) <= BatchLimit
  /\ LeaseSet(S)

\* lease_deliveries: as many ready ones as the limit allows, in no known order.
Lease(S) ==
  /\ pc = "idle" /\ S # {}
  /\ S \subseteq Ready
  /\ Cardinality(S) = AtMost(Cardinality(Ready), BatchLimit)
  /\ LeaseSet(S)

\* adapter.send: the message is taken and we learn it, is taken and we do not
\* (a time-out), or is not taken.
Send(n, result) ==
  /\ pc = "batch" /\ n \in batch
  /\ batch' = batch \ {n}
  /\ current' = {[note |-> n, result |-> result]}
  /\ tried' = [tried EXCEPT ![n] = AtMost(@ + 1, Cap)]
  /\ accepted' = IF result \in {"ok", "unclear"}
                   THEN [accepted EXCEPT ![n] = AtMost(@ + 1, Cap)] ELSE accepted
  /\ pc' = "mark"
  /\ UNCHANGED <<binding, row, delivery, cleared, crashes>>

\* mark_success, mark_permanent_failure, mark_retry by the kind of exception.
Verdict(n, result) ==
  IF result = "ok" THEN "delivered"
  ELSE IF result = "permanent" THEN "failed"
  ELSE IF result # "limited" /\ delivery[n].attempts >= MaxAttempts THEN "failed"
  ELSE "retry_wait"

Finish(n, verdict) ==
  /\ pc = "mark"
  /\ IF delivery[n].st = "sending"
       THEN /\ delivery' = [delivery EXCEPT ![n].st = verdict,
                                            ![n].elapsed = FALSE]
            /\ pc' = "aggregate"
       ELSE /\ pc' = "batch"
            /\ UNCHANGED delivery
  /\ UNCHANGED <<binding, row, batch, current, history, crashes>>

\* Mutants: one attempt too many; a success whose lease ran out is retried.
MarkOneMore(n, result) ==
  Finish(n, IF result = "lost" /\ delivery[n].attempts <= MaxAttempts
              THEN "retry_wait" ELSE Verdict(n, result))

MarkIfLeased(n, result) ==
  Finish(n, IF delivery[n].elapsed THEN "retry_wait" ELSE Verdict(n, result))

\* _finish, guarded by SENDING and the lease owner
Mark(n, result) == Finish(n, Verdict(n, result))

\* Mutant: only a success reaches the outbox row.
AggregateSuccess(n) ==
  /\ pc = "aggregate"
  /\ row' = IF delivery[n].st = "delivered"
              THEN [row EXCEPT ![n].status = "delivered"] ELSE row
  /\ pc' = "batch"
  /\ UNCHANGED <<binding, delivery, batch, current, history, crashes>>

\* _aggregate, a second transaction
Aggregate(n) ==
  /\ pc = "aggregate"
  /\ row' = [row EXCEPT ![n].status =
              CASE delivery[n].st = "delivered" -> "delivered"
                [] delivery[n].st = "failed"    -> "failed"
                [] OTHER                        -> "partially_delivered"]
  /\ pc' = "batch"
  /\ UNCHANGED <<binding, delivery, batch, current, history, crashes>>

\* mark_success raises: before its first commit, and `except Exception` treats
\* the message as lost; or after it, and the outbox row is not written any more.
RecordFails(n, result) ==
  /\ result = "ok" /\ crashes < MaxCrashes
  /\ crashes' = crashes + 1
  /\ \/ /\ pc = "mark"
        /\ delivery' = [delivery EXCEPT ![n].st = Verdict(n, "lost"),
                                        ![n].elapsed = FALSE]
        /\ current' = {[note |-> n, result |-> "lost"]}
        /\ pc' = "aggregate"
     \/ /\ pc = "aggregate"
        /\ pc' = "batch"
        /\ UNCHANGED <<delivery, current>>
  /\ UNCHANGED <<binding, row, batch, history>>

EndBatch ==
  /\ pc = "batch" /\ batch = {}
  /\ pc' = "idle" /\ current' = {}
  /\ UNCHANGED <<binding, row, delivery, batch, history, crashes>>

\* The process dies, the loop is cancelled, or recording a result raises.
CutShort ==
  /\ pc # "idle" /\ crashes < MaxCrashes
  /\ pc' = "idle" /\ batch' = {} /\ current' = {}
  /\ crashes' = crashes + 1
  /\ UNCHANGED <<binding, row, delivery, history>>

Dispatch ==
  \/ \E S \in SUBSET Notes : Lease(S)
  \/ \E n \in Notes, result \in Results : Send(n, result)
  \/ \E c \in current : Mark(c.note, c.result) \/ Aggregate(c.note)
  \/ EndBatch

Next ==
  \/ \E n \in Notes :
       \/ \E p, w \in BOOLEAN : Submit(n, p, w)
       \/ Approve(n) \/ Reject(n) \/ Elapse(n)
  \/ \E b \in Bindings : Rebind(b)
  \/ Dispatch
  \/ CutShort
  \/ \E c \in current : RecordFails(c.note, c.result)

Spec == Init /\ [][Next]_vars

\* The loop is a supervised background task and clocks advance.
FairSpec ==
  /\ Spec
  /\ WF_vars(Dispatch)
  /\ \A n \in Notes : WF_vars(Elapse(n))

-----------------------------------------------------------------------------
\* Every variable keeps its type.
TypeOK ==
  /\ binding \in Bindings
  /\ row \in [Notes -> Rows]
  /\ delivery \in [Notes -> Deliveries]
  /\ pc \in {"idle", "batch", "mark", "aggregate"}
  /\ batch \in SUBSET Notes
  /\ current \in SUBSET [note : Notes, result : AllFailures \cup {"ok"}]
  /\ cleared \in [Notes -> BOOLEAN]
  /\ tried \in [Notes -> 0 .. Cap]
  /\ accepted \in [Notes -> 0 .. Cap]
  /\ crashes \in 0 .. MaxCrashes

\* Nothing is queued for sending, and nothing is sent, that neither the policy
\* allowed nor a person approved; a rejected notification stays unsent
\* (NotificationPolicy, transition_approval).
ConsentBeforeSend ==
  \A n \in Notes :
    /\ delivery[n].st # "absent" \/ tried[n] > 0 => cleared[n]
    /\ row[n].status \in {"rejected", "pending_approval", "duplicate"}
         => tried[n] = 0 /\ delivery[n].st = "absent"

\* Of the commands with one dedupe key at most one ever reaches the channel,
\* although the scope of the key moves with the recipient's binding.
OnePerKey ==
  \A n, m \in Notes :
    n # m /\ KeyOf[n] = KeyOf[m] => tried[n] = 0 \/ tried[m] = 0

\* Only a crash or a failing commit can make the channel take a message again, and
\* each one at most a single message: elapsing leases, the rest of the batch and
\* later ticks never do (for channels whose answers are not lost).  <<n, k>> is
\* the k-th copy of n.
Resent == {copy \in Notes \X (2 .. Cap) : copy[2] <= accepted[copy[1]]}
ResendsCostACrash == Cardinality(Resent) <= crashes

\* Between two deliveries the outbox row tells how each delivery ended, but for
\* one row per tick that was cut short, or whose second commit failed, in between.
RowTellsEnd ==
  pc \in {"idle", "batch"}
    => Cardinality({n \in Notes : \E s \in {"delivered", "failed"} :
         ~(delivery[n].st = s <=> row[n].status = s)}) <= crashes

\* Without rate limits a delivery is tried at most max_attempts times and given
\* up only after that many; each crash moves either bound by one, since
\* attempts are counted when a delivery is leased.
AttemptsBounded ==
  \A n \in Notes :
    /\ tried[n] <= MaxAttempts + crashes
    /\ delivery[n].st = "failed" => tried[n] + crashes >= MaxAttempts

\* Whatever is queued is delivered or given up, crashes included.
Settles ==
  \A n \in Notes :
    delivery[n].st # "absent" ~> delivery[n].st \in {"delivered", "failed"}

-----------------------------------------------------------------------------
(* The outbox, its leases and the dispatch loop implement the contract. *)

Phase(n) ==
  IF delivery[n].st \in {"delivered", "failed"} THEN "ended"
  ELSE IF delivery[n].st # "absent" THEN "open"
  ELSE IF row[n].status = "new" THEN "new"
  ELSE IF row[n].status = "pending_approval" THEN "waiting"
  ELSE "refused"

Contract == INSTANCE NotificationContract WITH
              phase <- [n \in Notes |-> Phase(n)],
              sent <- {n \in Notes : tried[n] > 0}

\* Each command goes through the phases of NotificationContract and never back,
\* over approvals, rebindings, elapsed leases, retries, failing commits and
\* crashes (submit, transition_approval, lease_deliveries, _finish).
KeepsPromise == Contract!Spec
=============================================================================
