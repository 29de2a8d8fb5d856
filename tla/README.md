# KarvyLoop in TLA+

Models, model-checking runs and proofs about the concurrent core of KarvyLoop, a
local-first agent console. `PROJECT.json` relates every definition to the lines it
models and lists runs, mutants, hazards and theorems; this file says how to read them.

    tlc -workers 2 -config Blocking.cfg MCProposalRegistry.tla     # a run
    tlapm ProposalRegistry_proofs.tla                              # the proofs

## 1. The system

KarvyLoop runs one Python process, the *console*: a FastAPI application whose
request handlers run in a thread pool (`def` endpoints), on the event loop
(`async def` endpoints, WebSockets, background ticks) or in worker threads
(`asyncio.to_thread`). Its subsystems share dictionaries, JSON files and SQLite
databases; they are rarely transactional, and that is where the behaviour is hard.

| part (under `src/karvyloop/`) | state | operations | what is hard |
|---|---|---|---|
| **H2A decision loop** `karvy/proposal_registry.py`, `console/proposals.py`, `console/decision_wire.py`, `console/routes_system.py` | pending cards, their meta data, a lock, one JSON file | register, decide (ACCEPT, REJECT, DEFER), flip the mode, run first and decide later, age scan, load and save | threads racing for one card; a handler that runs between check and mark; a file written by several threads; crashes |
| **Notifications** `notifications/` | outbox, deliveries, bindings (SQLite) | submit, approve, lease, send, mark, aggregate | consent that moves; leases that run out; answers that are lost; two commits per result |
| **Relay** `relay/server.py` | room table, two slots per room | attach, join, leave | awaits inside take-over and clean-up |
| **Pursuits** `console/pursuit_tick.py`, `cognition/pursuit_store.py`, `console/routes_pursuit.py` | goals with their counters, one JSON file | tick, commit, revise, resume, drop | a record shared across awaits; floors that bound model runs |
| **Earned silence** `karvy/silence.py` | grants, ledger, daily marks | offer, grant, handle silently, revoke, overturn | checks before awaits, effects after |
| **Scene cards** `karvy/scene_gate.py`, `console/scene_preexec.py` | gate, attempted signals, staging directories | tick, judge, work ahead, accept, expire, tidy | two ticks, one gate; a card whose product is a directory |
| **Mesh log** `mesh/synclog.py`, `mesh/store.py`, `mesh/sync_client.py` | events, hybrid clock, frontier | append, delta, merge, compact | several logs of one device, late events |
| **Mesh tasks** `mesh/tasks.py`, `console/mesh_task_board.py` | tasks folded from the log | offer, claim, heartbeat, complete, take over | leases by wall clock |
| **Workflows** `karvy/workflow.py`, `karvy/workflow_runs.py`, `console/workflow_engine.py`, **abort registry** `atoms/abort.py` | run records, memoized outputs; flags with counts | run, resume, discard, cancel; scope, abort | several executions of one run, a stop against completion |
| **Inbox pipe** `channels/inbox_pipe.py` | keys seen, backlog, one JSON file | fetch, triage, put up, postpone, save | fetching marks mails as read before anything is stored; a backlog rebuilt in each poll |
| Decision delegation `crystallize/decision_delegation.py` | contracts with receipts | put, activate, revoke, record | revocation while a model decides |
| External citizens `external_runtime/citizen.py` | citizens and tickets, two files | create shell, claim, cancel, detach | crash between the files |
| Spend budget `llm/spend_budget.py` | windows, thresholds | check, book | check before, book after |
| OA approvals `oa/approval_service.py` | numbered snapshots | put, resolve, mark | results of an earlier list |

The parts meet in the decision loop. Producers (ticks, handlers, the notification
loop, mesh take-over, silence) build a `Proposal` and call `broadcast_proposal`; a
user answers on any client, over REST or WebSocket; `record_decision_signals` feeds
the preference learning, `registry.decide` calls the kind's handler, and handlers
call the other parts (`transition_approval`, tasks, workflows).

What makes each part correct: an accepted card runs once and is not lost in the table
(decision loop); nothing is sent without consent, once per key (notifications); a
console that is online is found and nobody waits for one that is not (relay); a goal
costs a bounded number of model runs and asks when it is stuck (pursuits); nothing is
taken from the user without a grant, and no card evaporates (silence); one gate for all
proactive cards, work ahead once and with its product (scenes); an event id means one
event (mesh log), a goal has one driver (mesh tasks); a stop is final, a step's output is
used again after a restart (workflows); a mail is looked at, and its thread put up once
(inbox pipe); no decision without an active contract
(delegation); a ticket is used once (citizens).

The parts in bold are modelled. Not to be modelled (see `PROJECT.json`): other channels, prompts, ranking and storage
of text, cryptography, capability policies evaluated sequentially, the front end.

## 2. Modules

### ProposalRegistry (with CardContract and MCProposalRegistry)

One action is what a thread does between two points at which another thread can
interfere: a read or write of `_pending` or `_meta`, taking or releasing `_lock`, a
handler call, and the three phases of `_save`.

| variable | code |
|---|---|
| `pending`, `meta`, `lock` | `_pending`, `_meta`, `_lock` |
| `disk` | the persisted file; `torn` when it does not parse |
| `pc`, `ret`, `req`, `prop`, `snap` | a thread's place, return label, request, the Proposal in its local, the payload its `_save` built |
| `runs`, `signals`, `minted` | history: handler calls and recorded decisions per card object, objects built |

A **card object** is its identity: the number it gets when a producer builds the
Proposal. `dataclasses.replace` and the file keep it, and a later suggestion with the
same proposal id (the ids of many kinds are derived from what they are about) is
another object. "Executed twice" is thereby a statement about objects, not ids.

Paths through the labels:

- decide: `signal` (RecordSignals) → `get` → `branch` → `take` (lock, pop) →
  `takemeta` → `save`, `trunc`, `write` (lock released) → `dispatch`; DEFER goes from
  `branch` to `defer` or `undefer` and saves without the lock;
- broadcast: `register`, `regmeta`, save; when it runs first: `preregister`,
  `regmeta`, save, `stored`, `exec`, `mark`, save, `register`, ...;
- flip: `flipget`, `flipcheck`, `setmode` (under the lock), save, `reget`, `exec`, `mark`, save.

`Restart` ends the process anywhere, drops every thread and loads the file.

Abstracted: time stamps are booleans; `non_blocking_block_reason` is the constant set
`Guarded`, a kind with a handler the set `Handled`. Left out: chain intents (a
display cache kept beside the cards), reject hooks, pushing to clients, and the path
on which `execute_non_blocking` returns None (its callees catch what they raise).

`CardContract` is what a card promises without run-first mode: unborn → offered →
taken → run, or offered → closed, with a new card replacing an offered one. Run
*Blocking* checks `KeepsContract`: under the mapping `Stage` every step of the
registry is a step of the contract.

### NotificationOutbox (with NotificationContract and MCNotificationOutbox)

`row` is a command's row in `notification_outbox`, `delivery` its row in
`notification_deliveries` (a command resolves to one recipient, so it has at most
one), `binding` what `resolve_binding` finds at the moment. `pc`, `batch` and
`current` are the dispatch loop: Lease, then Send, Mark (`_finish`, first commit) and
Aggregate (second commit) for each delivery. `CutShort` is a crash, a cancellation or
an exception out of the tick, `RecordFails` an exception of `mark_success`, which the
dispatcher catches and takes for a failed send; `MaxCrashes` bounds the two together.
Back-offs and leases run out in `Elapse`. The channel
is external: a send is taken and acknowledged, taken without our learning it
(`unclear`), not taken (`lost`), refused for now (`limited`) or for good.

`NotificationContract` is what a command is promised: it is refused, or waits for an
approval, or is opened for sending; an open one may be handed to the channel any number of
times and ends only after that; nothing leads back, and of the commands with one key a
single one gets anywhere. Run *OutboxConsent* checks `KeepsPromise`: the mapping `Phase`
reads the phase off the delivery, or off the row of a command that has none, and `sent` off
`tried`. Leases, back-offs, retries, second commits and crashes are stutters.
That one key is sent once (`OnePerKey`) is part of the contract.

### RelayRoom (with MCRelayRoom)

`rooms` is the table by name, `console` and `client` the slots of each room *object*,
`room` the object each handler holds. `AttachFree`, `AttachTakesOver`,
`AttachEvicted`, `ConsoleEnds`, `CloseClient`, `ConsoleLeaves` and `Join`,
`ClientEnds`, `ClientLeaves` are the pieces of `attach` and `join` between awaits. A
slot may connect again after its handler ended, so any number of connections is
covered, at most `Cardinality(Conns)` at once. Frames change nothing and are left out;
a refused attach or join changes nothing either.

### UnlockedFile

The pursuit store and the scene gate rewrite one JSON file as a whole, by way of one
temporary file and without a lock, from the event loop and from threads. `Begun` is the
moment at which a writer has its payload, `Ended` what may be the case once its rename is
over: a save that no other overlaps replaces the file; of saves that overlap any payload may
land last, one may fail, and two writers of the temporary file may leave a broken one.
`sound` says that the last save to end was alone and that none has overlapped since.

Left out: a save that is alone and fails (a full disk), which both stores swallow.

### PursuitTick (with MCPursuitTick)

`rec` is the goal's record *object*, which the tick, the panel and the card handlers
share; `file` is `pursuits.json`, an UnlockedFile, in which every `put` begins a save
and `Saved` ends it. `todo`, `at` and `on` are the tick: the goals
still to be visited, the await it is suspended in (`gate`, `recheck`, `pursue`,
`verify`, `card`, `report`) and for which goal. `Visit` is one turn of the loop up to
its first await, `Gate`, `Recheck`, `PursueNothing` ... `PursueEnded`, `Verify`,
`CardOut` and `ReportOut` what follows an await; the loop is busy until its own save is
over. In threads, `Create`, `CommitAccepted`, `CommitRejected`, `Resume` and `Drop` are the
panel and the commit card. A revision card is popped by the registry (`CardTaken`) before
its handler or its reject hook runs (`CardHandled`), and the process may end in between.
`Reconcile` is the mesh board's news at both ends of a tick. `revise` holds the goals
with an undecided revision card (a card in `ProposalRegistry`, durable there), `hands`
those that were popped and are not yet acted upon.

Abstracted: what a gate or a model run answers is a choice; an interval is the Boolean
`due`; counters stop at their floors; what a thread reads of a record, writes to it and
takes as payload is one step. Left out: progress notes, task records, triage's draft,
`last_*` probes.

### MeshLog and MeshBoard (with MCMeshBoard)

`MeshLog` is the log as operators. A log is the *set* of its events (`_events` is a
dictionary by id, so `merge` is a union); `First` picks the earliest in the order of
`_order_key`, and `Folded` applies an operation to one event after the other in that order,
as the loops over `sorted(...)` do: `Clock` folds `hlc_recv`, the clock a log has that is
opened from its file, and `task` folds `Applied`, the loop of `materialize_tasks`. `delta`
is what is younger than the peer's frontier. A hybrid clock is a number, an event a record
without its id: device and clock *are* the id, and `IdsUnique` says that this is enough; with
`NothingSkipped` (a delta has all that the other log lacks) it makes `FrontiersTell`.

`MeshBoard` runs one persistent goal on several devices. `disk` is each device's
`mesh_log.jsonl`, which ticks and handlers open anew, `served` the log a console keeps
in memory for its peers, `rec` the goal's record, `run` the record that the model run
under way will store (read before, written after). `TickStart` and `TickEnd` are
`pursuit_tick` with `publish_pursuit_tasks` at both ends, `Sync` one synchronisation,
whose answer may be lost, `Scan` the search for interrupted goals, `Restart` a console that
ends during a model run or a handler. The take-over handler runs in a thread and locks
nothing: it opens the log and ticks its clock (`AcceptOpens`), appends its claim
(`AcceptWrites`, which may fail and is then swallowed) and adopts the record (`AcceptEnds`),
and the loop's ticks, events of other tasks (`Others`), peers and time come in between. If the
loop has ticked to the same clock, the file has two lines of one id, of which `open_log` keeps
the first (`Taken`); if it has appended a younger event, the claim is `late`. Each device's
wall clock is ahead of a common time by its own `Skew`.

The loop itself opens the file and appends to it without an await, in one step, as
`publish_pursuit_tasks` does. What the handler's claim can meet is the same
whether the loop's opening is a step of its own or not, with one exception: a claim appended
between the loop's opening and its append. Then the loop's event is the later line with the
older or the same clock, as the handler's is in the model; that half of the race is not
explored.

Left out: compaction, ordinary tasks but for their events, capability
needs, suspension (the record is `committed` until it is `done`), beliefs and skills, clocks
that drift or are set back.

### WorkflowRun (with MCWorkflowRun)

`run` and `file` are one entry of `WorkflowRunStore` in memory and on disk, `exec` the
executions of the run: the first one, which `/workflow/run` starts under the task's id,
and any number of resumes under the run's id, each with its own map of settled steps.
`Round` is a turn of `run_workflow` (stop asked, branches pruned, next batch begun),
`StepEnds` the end of one drive, `Stops` the three ways out, `Recorded` what the route
does with the result. `registry` is the abort registry: a flag, named by the execution
that registered first, and a count per scope. `CancelTask`, `CancelRun` and `Restart`
come from outside.

Abstracted: an output is that it exists; conditions test a step's status. Left out: an
exception out of the engine, messages, external citizens as executors.

### Silence

One bucket of cards. `grants` and `gfile` are the grant store in memory and on disk,
`place` where each card is (`board`, one of the four stations of the silent path, or at
its end), `marks` and `ledger` the two books the daily cap is counted from, `loop` and
`thread` the two writers that read and rewrite the ledger, `offer` the grant or renewal
card. `try_silence` is the decision at the top of `broadcast_proposal`, `Predict`,
`Check`, `Run`, `RecordRead` and `RecordWrite` the pieces of `_silent_handle` between
awaits. A write truncates the file and then fills it, so a reader may find it empty. The
grants are saved the same way, from the loop and from threads: a save may fail or meet
another one, counted as a fault, and leave the older file or an empty one.

Abstracted: whether predictions were good enough, a card too expensive, drawn for the
audit or against a standard is a choice; time is counted in days, and the
cap's rolling 24 hours are the calendar day.

### ScenePreexec (with MCScenePreexec)

`gate` is the store of the gate (day, spent, seen fingerprints, days of rejection by kind),
`saved` its file, an UnlockedFile, `attempted` the other store, which the loop alone writes,
`inflight` the places taken, `judging` the verdict each
tick awaits, `place` the way of a signal's pre-execution and card, `dirs` and `age` the
staging directories, `loop` what the event loop is in the middle of where user
decisions, in threads, can be seen in between (a save with the broadcast after it; the
sweep of expired cards).
`Visit` and `Judge` are `maybe_consume_signal` around its await, `Start` and `End`
`_run_preexec` around its own, `Load`, `Land` and `Discard` the card's handlers,
`Sweep`, `Withdraw` and `Prune` the maintenance. `charge` enters a card in the gate, which
drops its oldest fingerprints beyond `GateMax`, and begins the loop's save, `GateSaved` ends
it. `Reject` is a decision in a thread: first `note_reject` with a save that may
overlap the loop's, then (`RejectSaved`) the card leaves the board. A crash loads the gate from
whatever the saves have left.

Abstracted: the signals a tick collects are any; the many reasons to refuse work ahead
are a choice; which directory makes room is any that no pending card refers to; which
fingerprints a full gate drops is any but the newest. Left
out: the day's token book, a lone save that fails, the cap of 500 on attempted signals (a
signal dropped there is still kept from running by its fingerprint, unless the gate has
dropped it too).

### InboxPipe (with MCInboxPipe)

`unread` is the IMAP folder's list of UNSEEN mails; fetching one marks it as read, so
that from then on the pipe alone knows of it. `todo`, `leftover` and `issued` are the
locals of `poll_once`, `ledger` and `file` the `InboxLedger` in memory and on disk.
`Fetch` or `FetchFails` begins a poll, `Skip`, `Postpone` and `Triage` are the three
ways through a turn of its loop, `Finish` sets the backlog and opens the file (which
empties it), `Write` ends the save. `Restart` ends the process anywhere and loads the
file; a torn one counts as empty. The mail server is external.

Abstracted: a mail is its id, a thread key the id of its first mail, triage says
"card" or "no card". `mark_seen` keeps `SeenCap` keys; which ones go is open (the code drops
the oldest, but all keys of one poll have one time). Left out: parsing, the list of accepted
actions, and the cards after they are registered (they are those of ProposalRegistry).

## 3. Runs

| run | instance | shows |
|---|---|---|
| Blocking | 1 card, 2 threads, 2 objects, no file, fair threads and lock | the inductive `IInv` (one place per object, run at most once), refinement of `CardContract`, an accepted card is run |
| Restart | 2 persisted cards, 3 threads, ACCEPT and REJECT, 2 crashes | `FileCurrent`, `AtMostOnce` across restarts |
| RunFirst | 2 cards (one without handler), 1 thread, flips, non-blocking suggestions, failing saves | with one request at a time a card that ran is never blocking, not run twice, none eaten |
| OutboxConsent | 3 commands on 2 keys, all results, 2 attempts, 1 crash | consent before anything is queued or sent; rows, leases, retries and the two commits of a result implement `NotificationContract` (one command per key reaches the channel, none refused, none after its end) |
| OutboxSends | 2 commands, batch of 2, 3 attempts, lost sends, 2 crashes, fair | only a tick that is cut short repeats a message, leaves a row stale or loses an attempt, each at most once; whatever is queued is delivered or given up |
| RelayRooms | 3 consoles, 2 clients, 2 names, room for one, fair | no leaked room, one client, no dead connection in a room, no client left without a console |
| Pursuits | 1 goal, the loop and a thread, 2 advances, 2 failures in a row, 2 decisions, 1 fault, fair | model runs bounded (`BudgetHolds`), a file of lone saves tells the status, a revision has a card or one in hand, a committed goal asks or ends |
| Mesh | 2 devices, one 2 units ahead, lease 1, 5 units of time, 1 fault or event of another task | one clock per device tells what a log has (ids unique, deltas complete but for overtaken claims), one driver once logs agree, advances kept |
| Workflow | 5 steps (retry, abort, two branches, a merge), 2 executions, 2 in parallel, 1 fault | `Stoppable`, `BranchesTaken`, `StopIsFinal`, `PaidOnce` |
| Silence | 2 cards, cap 1, 2 outcomes, 3 days, 2 faults, fair | `DailyCap`, `EarnedOffers`, `TakenWithConsent`, `Settles` |
| Scenes | 2 signals of one kind, 2 ticks, budget 1, 1 staging place, 1 fingerprint kept, 2 days, 1 rejection, 1 crash, fair | `GateHolds`, `OneRun`, `ProductKept`, `NoResidue` |
| Inbox | 3 mails in 2 threads, 1 card a poll, backlog of 1, 2 keys kept, 1 copy, 2 faults, fair | `AskedOnce`, `BacklogSurvives`, `EveryMailJudged` |

Why the bounds are enough:

- Decision loop: a race is between a check and a use of one card. In *Blocking*, where
  there is no file, cards share only the lock, so one card is enough (an instance with
  two, one of them without handler, takes minutes and shows the same); in *Restart* the
  second card exercises the snapshot of the whole table, in *RunFirst* the handler-less
  case. *Restart* has three threads because a stale file needs one writer more than a race.
- Outbox: three attempts tell the first, a middle and the last one apart, and a batch of
  two lets a lease run out behind a slow send. *OutboxConsent* has a
  command of another key beside two with one key, which its symmetry makes interchangeable.
- Pursuits: goals share the tick, which is suspended for one of them at a
  time, and the file. The floors are 2, so one below the floor, at it, and a mixture of both
  counters occur; with two decisions and a thread a drop or a resume saves while the tick
  does, and meets a revision or an earlier decision; with one crash the file that overlapping
  saves left is loaded once. With three decisions or two faults the run would not end in time;
  the safety properties are theorems for any number.
- Mesh: the driver and the one that takes over. With a lease of one and five units of
  time a goal is interrupted, taken over, interrupted again and comes back. Span 20
  exceeds the events of one wall time, so no counter overflows into the next. One event of
  another task, possible while a handler is at work (elsewhere it would only move clocks),
  overtakes a claim or takes its id; the skew makes both orders of the clocks occur.
- Workflow: the plan has each kind of step; two executions are what a double resume
  needs. The two are symmetric, and no liveness is checked under the symmetry.
- Silence: with a cap of one, two cards make a burst; with two faults a save is lost and
  a crash brings the old file back.
- Scenes: two signals compete for one budget, one staging place and one flight; one
  rejection, one crash and a cap of one make the loop's and a thread's saves overlap, a restart
  from what they left, and a gate that drops a signal. A second card of a signal *by* the cap
  takes one card more than a budget of one and two days allow; a separate instance with
  budget 2 and without rejections showed that the exception is needed, and
  `GateKept` covers any sizes.
- Inbox: a thread of two mails and a mail of another thread, with one card a poll and
  room for one mail, make the backlog overflow while a thread waits in it; a ledger of two
  keys forgets a thread within the run; two faults
  are a failed save and a restart, or two restarts.

Deadlock is checked except where the system may rest for good: *Mesh* and *Workflow*
(time is bounded, an ended run needs nobody) and *Silence* (all cards decided).

### What does not hold

Some things one would like to state are false of the code. They are defined in the
modules, no run checks them, and TLC shows each violated once the configuration named
here is given.

| statement | configuration | what happens |
|---|---|---|
| `AtMostOnce` | MCProposalRegistry: `OneCard`, `MCThreads2`, `Ops = {"flip", "ACCEPT"}`, `FirstInst`, `InitMinted = 1`, no file | a second flip while the first one's handler runs calls it again (`proposals.py:553`) |
| `AtMostOnce` | MCProposalRegistry: `MCCards`, `MCThreads2`, `Ops = {"ACCEPT", "DEFER"}`, `BothInst`, `InitMinted = 2`, `Persist`, `MaxCrashes = 1` | a DEFER's save, made without the lock, overwrites a concurrent ACCEPT's; after a restart the card runs again (`proposal_registry.py:586`) |
| `SignalsOnce` | MCProposalRegistry: `OneCard`, `Ops = {"ACCEPT"}`, `FirstInst` | two concurrent decisions of one card are both recorded, where `decision_wire.py:202` claims the presence of the card to be the de-duplication key |
| `OneConsole` | MCRelayRoom: `Consoles <- TwoConsoleSlots` | two take-overs at once leave two consoles serving a room (`relay/server.py:146`) |
| `ConsoleReachable` | the same | an evicted console's task removes its successor's room from the table (`relay/server.py:163`) |
| `TerminalIsFinal` | *Pursuits* | the tick puts a record it began with before a drop (`pursuit_tick.py:504`) |
| `AskedAgain` | *Mesh* with `Lease = 2`, `Beat = 1`, `MaxTime = 6`, `MaxAdvances = 2`, `MaxCrashes = 0` | an older heartbeat voids a claim, and the epoch of a later card repeats one already shown (`mesh_task_board.py:425`) |
| `FailedFetchHarmless` | *Inbox* | a connection that breaks within a fetch drops the mails already fetched, which the server has marked as read; they are not tried again "next round" (`inbox_pipe.py:552`) |

The passing runs of the decision loop keep to requests for which the properties hold.
*RunFirst* does so in three ways more, each reached by editing its configuration. With
`"DEFER"` in `Ops`, run first, DEFER, ACCEPT violates `AtMostOnce` (the DEFER clears the
mark, `proposal_registry.py:544`). With `"suggest"`, a blocking suggestion that replaces
a card awaiting confirmation inherits its mark and is confirmed, never run:
`NothingEaten` (`:310`). With two threads, a card is flipped back to blocking during its
automatic run: `RanNeverBlocking` (`:335`).

Properties with an exception name it: `FileTellsStatus` the goals of which a save is under
way, and saves that overlapped, until the next lone one; `RevisedHasCard` a card that a thread
has popped and will act upon, and a crash between card and file; `BudgetHolds` one budget for
each restart from a file of overlapping saves; `FrontiersTell` the claim of a take-over
that a younger event of its device overtook on the way to the file, which peers may never see
(`mesh_task_board.py:541`); `GateHolds` one budget and one card for each restart from a file of
overlapping saves, and a card for each time a full gate dropped the signal, where
`scene_gate.py:161` says that a fingerprint never has a card again; `DailyCap` lets one burst through, since the cap is
checked before the model calls and booked after them; `TakenWithConsent` and
`EarnedOffers` except a crash after a failed save; `ProductKept` a card that was on no
board when room was made, or was withdrawn as expired; `AdvancesKept` a run that was
begun before the device lost the goal; `AskedOnce` a restart that brings back a ledger
from before the card, and a full ledger that dropped the thread's key
(`inbox_pipe.py:236`), where line 20 says that a thread never has a second card; `EveryMailJudged` mails lost with a broken fetch, a full backlog or
a restart during a poll.

## 4. Fairness

- Decision loop: `WF_vars(Continue(t))`, since a thread of the pool inside a request
  is scheduled by the operating system, and handlers are taken to return;
  `SF_vars(TakePop(t))` and `SF_vars(SetMode(t))`, since `threading.Lock` may be
  taken by others in between but a waiting thread gets it sooner or later. No
  fairness is assumed of users and producers.
- Outbox: `WF_vars(Dispatch)`, for the loop is a supervised background task that
  ticks every few seconds; `WF_vars(Elapse(n))`, for clocks advance. Nothing is
  assumed of the order in which ready deliveries are leased: a delivery leaves the
  ready set for good after a bounded number of attempts.
- Relay: `WF` on each task's steps: the event loop resumes a task whose await is
  over. Dropping a connection is never forced.
- Pursuits: `WF_vars(TickStep)`: the maintenance loop wakes every ten minutes, and gates,
  model runs and broadcasts have time limits. `SF_vars(Due(p))`: an interval passes,
  though the model lets it pass only between ticks. `AsksOrEnds` rests on the bounds of
  `MaxHuman` and `MaxFaults`: a user who resumes for ever, or a console that never has a
  model, does keep a goal committed.
- Silence: `WF` on each card's step and on the ledger's writer: model calls answer or
  fail, the loop and its worker threads go on.
- Scenes: `WF` on tasks, threads, maintenance and ageing, for the same reasons. Nothing
  is assumed of signals, the user and the judge.
- Inbox: `WF_vars(PollStep)`: the loop polls every few minutes under a supervisor. Nothing
  is assumed of the server.
- Mesh and Workflow state no fairness and check no liveness.

## 5. Proofs

Each `<model>_proofs` module EXTENDS its model and TLAPS; `BackgroundCards_proofs` extends two
models, ScenePreexec and InboxPipe, and has the proofs about both.

`ProposalRegistry_proofs`:

- `TypeCorrect`: `Spec => []TypeOK` for all cards, threads, requests, bounds and crashes.
- `BlockingAtMostOnce`: `Spec => []AtMostOnce` for any number of threads and cards,
  under `BlockingOnly` (the requests are decisions, blocking suggestions and age
  scans; no crash). That assumption is needed: with flips, run-first suggestions or a
  restart from a file that two threads wrote the statement is false (section 3).
- `BlockingOnePlace`: `Spec => []IInv`, the inductive invariant itself, under the same.
- `BlockingKeepsContract`: `Spec => KeepsContract`, the refinement of `CardContract`, under
  the same assumption and `InitFull` (the objects the console starts with are in its file).
- `RestartAtMostOnce` and `FileMatches`: `Spec => []AtMostOnce` and `Spec => []FileCurrent`
  for any number of restarts, under `FinalOnly` (ACCEPT and REJECT, a file that can be
  written): `remove` saves before it releases its lock. A DEFER or a suggestion saves
  without the lock, which is why they are excluded.
- `BlockingEatsNothing`: `Spec => []NothingEaten` under `NoRunFirst` (no flips and no run-first
  suggestions) for any number of threads, DEFERs, failing saves and restarts.
- `RunFirstAtMostOnce`, `RanStaysNonBlocking`, `RunFirstEatsNothing`: `AtMostOnce`,
  `RanNeverBlocking` and `NothingEaten` with run-first mode, under `RunFirstAlone` (one thread,
  one life of the console, no blocking suggestions), the first also under `NoDefer`; any
  cards, flips, confirmations, age scans and failing saves are covered.
  The counterexamples of section 3 show that none of these assumptions can go: a second
  flip repeats a run, a flip back makes a card that ran blocking, a blocking suggestion
  inherits a mark, a DEFER takes one off.

`AtMostOnce` is not inductive: nothing in it keeps a card that is about to run off
the table. `IInv == Control /\ SinglePlace /\ AtMostOnce` is. `Control` says at which
labels a thread can be and that only an ACCEPT heads for a dispatch; `SinglePlace`
that every object is in one place: in one entry of the table, or in the hands of one
thread (`Own`), and in none once it ran. The steps fall into five moves, each a lemma:
*quiet* steps leave all places alone, *mint* gives a new object to a thread, *put*
moves it from the thread to the table (register), *pop* from the table to a thread
(remove), *fire* takes it from the thread and runs it (dispatch). Each action is shown
to be one of these moves. TLC checks `IInv` in run *Blocking*.

For the refinement, what a thread owns is told apart: an object it built and has not
registered (`Borne`), or one it took and still owes the dispatch of (`Taken`). Each action
is one of five shifts of these (`Shifts`), and each shift one step of the contract or none
(`AdvanceBear`, `AdvanceOffer`, `AdvanceTake`, `AdvanceRun`); `ForHandled` keeps a card
that nobody handles from being taken and then dropped.

With restarts an object has a third place, the file. `FinalInv == Final /\ FileFits /\
Single(..)` says where the three may differ: `Final` that whoever is between the pop and the
end of its save holds the lock, its file either torn or still with the card it popped; `FileFits`
that for every card the file agrees with the table (`Fresh`) or that thread is behind
(`Behind`). Hence what a restart loads (`FinalRestart`) is the table, the one object that
thread held, which dies with it, or nothing; no object of the file has run.

Without run-first mode `NothingEaten` rests on no lock at all: no mark reaches the table, the
file or a snapshot (`NoMarks`), and so an ACCEPT that takes a card is bound for its dispatch,
for which there is a handler (`Plain`). With it, `AloneInv` says what the one thread knows at
each label (`Knows`; while it saves, at the label it goes on to, `Bound`) and that every card
it is not concerned with is `Sound`: a pending card's mark tells whether its object ran, a
card that is gone has no meta data. In between, the card is `Due` (on the table, not run,
about to be), or its object is `InHand` and on no table. The statements about DEFER are part
of it: where a card may be deferred a missing mark tells nothing (`NotRun`), but a mark still
tells that the object ran, which is all that `RanNeverBlocking` and `NothingEaten` need.

`NotificationOutbox_proofs` (`OutboxTypes`, `Consent`, `KeySentOnce`, `AttemptsKept`,
`RowsTell`, `ResendsCounted`, `OutboxKeepsPromise`), for any commands, keys, limits, send results and crashes. `ConsentBeforeSend`
and `OnePerKey` follow from `SendInv == TypeOK /\ Held /\ Scoped`. `Held` adds the deliveries the loop
has in hand: without it a send could concern a delivery that does not exist. `Scoped`
says why a scope that moves with the binding still lets one command through: it
distinguishes only bound from unbound commands, an unbound one is rejected at
submission, and a rejected one is never revived. `AttemptsBounded` and `RowTellsEnd` rest on
`Loop` (what the loop has in hand is `SENDING`). For the first, `Counted` relates the
attempts, counted at the lease, to the sends: they differ by what is in hand and by at
most one per crash, and only a delivery that a crash left `SENDING` can be leased with its
attempts used up; it assumes `LossesOnly` (a rate limit is retried without limit, a
permanent refusal gives up at once), as run *OutboxSends* does. For the second, `TellInv`
counts the ended deliveries whose row does not say so (`Untold`), the one the loop is about
to aggregate apart (`Open`): a crash turns the one into the other.
`ResendsCounted` counts the set of `Copies` against the crashes: the copies the channel took
beyond the first, and one place held for each message that was taken, is still open and has no
success on its way to being recorded (`Again`). A crash or a failing commit makes such a
place; the next send turns it into a copy. It assumes `AnswersKept` (no `unclear` sends): the
dispatcher does retry a send whose answer it never got. `OutboxKeepsPromise` is the refinement
of `NotificationContract`. Each step moves one command (`PhaseMoves`), sends one (`PhaseSent`)
or is a stutter (`PhaseKept`); what has to be shown is that a command opened or held is the
first of its key, which is the argument about scopes again (`BoundIsFirst`), and that a
delivery ended in `Mark` was sent (`Sent`).

`RelayRoom_proofs` (`RoomTypes`, `RoomsKept`, `SingleClient`, `NoDeadConnection`), for
any number of connections, names and rooms. `RoomInv` joins `TypeOK` and `NoGhost` with
`Placed` (a task holds a room exactly inside its handler), `Serving` (a client in its
loop is its room's client), `Kept` (a room in the table is held by a task that came for
its name) and `Named` (the tasks in one room came for one name). They need each other:
a task that leaves without removing the room leaves an occupant behind (`NoGhost`), who
came for the same name (`Named`), and so keeps the room removable (`Kept`). Steps that
enter a room are instances of lemma `Enter`, steps on the way out of lemma `Wane`;
`FreshRoom` is a pigeonhole argument over the room objects.

`Silence_proofs` (`SilenceTypes`, `CapHolds`, `TakenByConsent`, `OffersEarned`), for any
cards, limits, days and faults. `Shape` is `TypeOK` with `Based`: the evidence baseline
never passes the outcomes, in memory or in the file. `CapInv == Aged /\ Burst /\
DailyCap`: marks are not of the future and the peak bounds the cards under way, so that a
card that passes the check finds fewer than `DailyMax` marks and joins at most `peak`
others; no assumption on the ledger is needed, since the count is the larger of the two
books. For the action properties, `Earned == Standing /\ Fresh` relates the grant store to
the user's answers, unless a save was lost: a grant that stands was consented to
(`Standing`), and when none stands the outcomes that `maybe_offer_grant` counts, those
past the baseline, all came after the last revocation (`Fresh`).

`WorkflowRun_proofs` (`WorkflowTypes`, `StopsForGood`, `PaidForOnce`, `StopReaches`,
`BranchesFollow`), for
any plan, any number of executions, crashes and failed saves. `Known` says what memory
knows of the file, all its outputs and a stop that the file has, and that nothing
executes a run it does not know or that was abandoned; `Quiet` that only an execution
in its loop drives a step. `Onward`, proved of every step but a restart,
carries the rest: outputs are only added and a run that is not running stays so.
`StopReaches` needs that the count of a scope *is* the number of executions in it
(`Counted`), so that the flag goes with the last one (`Flagged`): arguments about
cardinalities, one lemma for joining and one for leaving (`Reach == Counted /\ Flagged`). `BranchesFollow` needs what holds within
the walk: a step that is no longer open was judged by settled steps and rightly (`Walked`), and
what is settled does not change (`PrunedByDeps`), so that the verdict stands when the plan
has been walked (`Branches`), whatever came from the store.

`BackgroundCards_proofs`, of scenes (`SceneTypes`, `GateKept`, `RunsOnce`, `ProductStays`), for any signals,
ticks, budgets, caps, staging places, rejections and crashes. `SceneInv == TypeOK /\ Booked /\ Single`. A gate
*owes* nothing (`Owes`) if every card that is out or being sent is entered in it, but for
what restarts and a full gate have taken out, and likewise the cards of the day. `Booked`: the
gate in memory owes nothing; no more does a file that is sound, or the payload of a save that
is alone, and that is why a restart costs something only after saves have overlapped. `Single == Flight /\ Ran /\ Sending`: at most one signal is in flight, either judged
by one tick or attempted; what runs is in flight, nothing runs that is not in
`attempted`, and a ready card is the one that the loop is sending. For the product,
`KeptInv` says of each place what may have become of its directory (`Kept`): a run may lose
it only by growing old, a ready card has it, and an accepted one lost it only if it was
withdrawn meanwhile, which needs that what the sweep holds in its list had expired (`Listed`).

And of the inbox pipe (`InboxTypes`, `ThreadAskedOnce`, `RestartKeepsMail`), for any mails,
threads, limits and faults. `AskInv` adds to `AskedOnce` that a thread that had a card is
among the keys seen unless a restart took it away or a full ledger dropped it (`Remembered`), which is why a turn that
finds the key unknown asks about a new thread. `MailInv == TypeOK /\ Placed /\ OnFile` is a
conservation law: every mail that came is on the server, dealt with, lost, in the lists of
the poll under way, or in the ledger's backlog; and between polls the file has the
ledger's backlog, unless the save failed. The lemmas before it say what `Append`, `Tail`,
`\o` and `SubSeq` do to the set of mails in a list.

`PursuitTick_proofs` (`PursuitTypes`, `BudgetKept`, `FileIsTrue`, `UserIsAsked`), for any
number of goals and threads, any floors, decisions and faults; the runs have one goal and one
thread. `FileInv` makes `FileTellsStatus` inductive: whoever changes a goal's status takes
the table as payload in the same step, and a save that is alone (`clean`) keeps agreeing with the memory
until another begins, so that a sound file differs only in goals whose save is under way.
`RevisedHasCard` is inductive with it. `BudgetHolds` is not: a put in the middle of a run, a
goal reset by a resume and a record reloaded after a crash each break the plain count. `Paid` says what the
spent runs are covered by: with `Cost == advances * MaxFailures + failures`, a committed
goal has spent at most its cost, the run under way (`Extra`) and what faults have made the
counters forget (`Allow`), and strictly less at a floor. `Filed` says the same of a sound file
and of the payload of a lone save, with the run that is being counted (`Lag`), so that
a reload falls back on a record that covers as much, or has paid a whole budget for a file of
overlapping saves. A step is about one goal; what is not acted on keeps its cover. That a run adds to
the cost whatever its outcome is why a success may clear the failures:
the advance it counts weighs as much as `MaxFailures` of them.

`MeshBoard_proofs` (`MeshTypes`, `FrontiersSuffice`, `SingleDriver`, `AdvancesStay`), for any
number of devices, any lease, any differences between their clocks that do not change, and
logs of any length. Nothing can be shown of this system without saying what a fold over a log returns, and the library's induction theorems cannot be
used; but `UpTo` states induction with a *set* in the place of the formula, and follows from
the least element of what is outside it (`LeastNat`). With it, `RecursionExists` builds the
values of a recursion, `Peeling` shows that taking `First` again and again empties a finite
log in order, and `FoldedTask` and `FoldedClock` that `Folded` is the last of the values
along the way. What the proofs about the protocol use is then three facts:

- `ClockAhead`: the clock of a log opened anew is beyond every event in it. Hence an append
  of the loop never repeats an id of its own device (`AppendedAdds`), since each device's own
  events are all in its own file (`Written`), whatever restarts and lost answers did; and the
  claim of a handler counts only if no line has its id (`LogInvClaimed`). With that,
  `IdsUnique` is inductive.
- `DeltaExact`: if a log has every event its devices wrote up to the youngest it holds of
  each but for those in `late` (`Gapless`), the frontier tells what it has, but for those.
  `NoGaps` says so of every log, on disk and served: a new event is the youngest of its device,
  or it is late, and what a peer sends
  to a log without gaps is a delta of a log without gaps. `FrontiersSuffice` follows.
- `RootedRead`: a log whose first two events are the offer and the claim that `Home` wrote
  when it published the goal yields a task that has an owner, whatever follows. `Root` says
  that every log is empty or begins with these two; a `Sync` cannot break it, for what a
  device holds, and what it is sent, is drawn from such logs without gaps (`Drawn`): a
  delta leaves out the root only for a peer that has it.

`SingleDriver` follows: devices that agree on a log with a root agree on the task's owner, and
a reconciled record of any other one is marked as moved or done. While all logs are empty, only
`Home` has a record (`Joined`). `AdvancesStay` needs that a run is never begun at the
bound (`Limited`) and is otherwise a look at each step. TLC checks the invariant
(`Inv == TypeOK /\ LogInv /\ Joined /\ Limited /\ Handled`) with the bounds of run *Mesh* as well.

Assumptions on constants are the modules' named ASSUMEs; TLC evaluates them in every run.

Model-checked only: the liveness properties (`AcceptedRuns`, `Settles` and the like), out of
the prover's reach. Every other property of a passing run is a theorem.

## 6. Not modelled

The components of `PROJECT.json` with status `not_modelled` say why. The larger part of
the repository is text handling (prompts, ranking, memory, crystallization), provider and
channel I/O, and the browser front end; its control is sequential or depends on model
output. Of the stateful rest:

- `crystallize/decision_delegation.py` makes every step under one lock, so that its
  properties are those of a sequential program;
- `external_runtime/citizen.py` is about one-time credentials, whose properties are the
  business of a security review;
- `llm/spend_budget.py` checks before a call and books after it, and promises no bound;
- `oa/approval_service.py` (numbered snapshots) would repay a small module.

Within modelled parts: compaction of the mesh log, `publish_local_tasks` beyond its events, the chain
intents and reject hooks of the decision loop, the token day-book of scenes, the actions
list of the inbox pipe.

## 7. Plan

1. *done*: ProposalRegistry, CardContract, NotificationOutbox, NotificationContract, RelayRoom, PursuitTick,
   MeshLog, MeshBoard, WorkflowRun, Silence, ScenePreexec, InboxPipe.
2. *done*: theorems for all invariants and action properties of the passing runs.
   Next: an abstract workflow (a step's output is paid for once, a stop is final) and its
   refinement; a take-over that is asked for again (`AskedAgain`), once the code keeps its epochs.
3. ApprovalSnapshot; the approval card's way through
   decision loop and outbox, composing both modules.
