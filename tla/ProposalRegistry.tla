-------------------------- MODULE ProposalRegistry --------------------------
(***************************************************************************)
(* The H2A decision loop of the console: the pending-card table of         *)
(* karvy/proposal_registry.py, used by OS threads (FastAPI's pool,         *)
(* asyncio.to_thread, the event loop) that run                             *)
(*   - a decision: record_decision_signals, then registry.decide,          *)
(*   - broadcast_proposal, blocking or non-blocking ("run first, decide    *)
(*     later"), and                                                        *)
(*   - /api/proposals/mode, which flips a pending card's mode.             *)
(* A step is what one thread does between two points at which another      *)
(* thread can be scheduled with an effect: reads and writes of the shared  *)
(* dictionaries, the lock (taken by remove and set_mode only), a handler   *)
(* call, and the three phases of _save (build the snapshot, truncate the   *)
(* file, write it).                                                        *)
(*                                                                         *)
(* Data: a card object is its identity (inst, minted when the producer     *)
(* builds the Proposal, kept by dataclasses.replace and by the file) and   *)
(* its mode.  Age stamps are booleans, the chain intents are left out.     *)
(***************************************************************************)
EXTENDS Integers, FiniteSets

CONSTANTS
  Cards,          \* proposal ids
  Threads,
  Handled,        \* ids whose kind has a handler in app.state.proposal_handlers
  Guarded,        \* ids for which non_blocking_block_reason gives a reason
  Ops,            \* the requests this instance of the model makes
  InitInst,       \* card objects in the file the console starts from (0: none)
  InitMinted,     \* how many objects those are at most
  Persist,        \* a persist_path was given
  SaveMayFail,    \* writing the file may raise (swallowed by _save)
  MaxInst,        \* bound: card objects produced
  MaxCrashes      \* bound: restarts of the console

Decisions == {"ACCEPT", "REJECT", "DEFER"}
Flips     == {"flip", "flipback"}
AllOps    == Decisions \cup Flips \cup {"suggest", "suggest_nb", "age_scan"}

ASSUME OpsAssumption == Ops \subseteq AllOps
ASSUME CardsAssumption ==
  /\ Cards # {}
  /\ Handled \subseteq Cards
  /\ Guarded \subseteq Cards
  /\ Cards \ Handled \subseteq Guarded     \* "no_handler" is one of the reasons
ASSUME BoundsAssumption ==
  /\ MaxInst \in Nat
  /\ InitMinted \in 0 .. MaxInst
  /\ InitInst \in [Cards -> 0 .. InitMinted]
  /\ \A c, d \in Cards : c # d /\ InitInst[c] = InitInst[d] => InitInst[c] = 0
  /\ MaxCrashes \in Nat
  /\ Persist \in BOOLEAN
  /\ SaveMayFail \in BOOLEAN

VARIABLES
  pending,   \* _pending
  meta,      \* _meta
  lock,      \* holder of _lock, as a set of at most one thread
  disk,      \* the persisted file
  minted,    \* card objects produced so far
  pc,        \* where each thread is
  ret,       \* where it goes on after the call it is in (_save, register)
  req,       \* its request
  prop,      \* the Proposal object it holds in a local
  snap,      \* the payload its _save has built
  runs,      \* history: handler calls per card object (2 stands for more)
  signals,   \* history: final decisions recorded per card object (same)
  crashes

vars == <<pending, meta, lock, disk, minted, pc, ret, req, prop, snap,
          runs, signals, crashes>>
shared == <<pending, meta, lock, disk>>
history == <<minted, runs, signals, crashes>>
locals == <<req, prop, snap>>

-----------------------------------------------------------------------------
Modes     == {"blocking", "non_blocking"}
InstIds   == 0 .. MaxInst                     \* 0 stands for None
Objects   == [inst : InstIds, mode : Modes]
NoCard    == [inst |-> 0, mode |-> "blocking"]
Metas     == [known : BOOLEAN, auto : BOOLEAN, deferred : BOOLEAN,
              reported : BOOLEAN]
NoMeta    == [known |-> FALSE, auto |-> FALSE, deferred |-> FALSE,
              reported |-> FALSE]
FreshMeta == [NoMeta EXCEPT !.known = TRUE]
Files     == [torn : BOOLEAN, pending : [Cards -> Objects],
              meta : [Cards -> Metas]]
EmptyFile == [torn |-> FALSE, pending |-> [c \in Cards |-> NoCard],
              meta |-> [c \in Cards |-> NoMeta]]
TornFile  == [EmptyFile EXCEPT !.torn = TRUE]
Labels    == {"idle", "signal", "get", "branch", "take", "takemeta",
              "dispatch", "defer", "undefer", "preregister", "register",
              "regmeta", "stored", "exec", "mark", "flipget", "flipcheck",
              "setmode", "reget", "save", "trunc", "write"}

NoReq     == [op |-> "none", card |-> CHOOSE c \in Cards : TRUE]

Live(c) == pending[c].inst # 0
Succ2(n) == IF n = 0 THEN 1 ELSE 2

\* _save writes the meta of pending cards only.
Snapshot == [torn |-> FALSE, pending |-> pending,
             meta |-> [c \in Cards |-> IF Live(c) THEN meta[c] ELSE NoMeta]]

\* _load ignores a file that does not parse and gives every card a meta.
LoadPending(f) == IF f.torn THEN EmptyFile.pending ELSE f.pending
LoadMeta(f) ==
  [c \in Cards |-> IF f.torn \/ f.pending[c].inst = 0 THEN NoMeta
                   ELSE [f.meta[c] EXCEPT !.known = TRUE]]

InitFile ==
  [EmptyFile EXCEPT
     !.pending = [c \in Cards |-> [inst |-> InitInst[c], mode |-> "blocking"]],
     !.meta = [c \in Cards |-> IF InitInst[c] = 0 THEN NoMeta ELSE FreshMeta]]

Init ==
  /\ pending = LoadPending(InitFile)
  /\ meta = LoadMeta(InitFile)
  /\ disk = InitFile
  /\ lock = {}
  /\ minted = InitMinted
  /\ pc = [t \in Threads |-> "idle"]
  /\ ret = [t \in Threads |-> "idle"]
  /\ req = [t \in Threads |-> NoReq]
  /\ prop = [t \in Threads |-> NoCard]
  /\ snap = [t \in Threads |-> EmptyFile]
  /\ runs = [i \in InstIds |-> 0]
  /\ signals = [i \in InstIds |-> 0]
  /\ crashes = 0

-----------------------------------------------------------------------------
(* Control of a thread: go to a label; back to the pool the locals die. *)

Leave(t, l) ==
  /\ pc' = [pc EXCEPT ![t] = l]
  /\ IF l = "idle"
       THEN /\ req' = [req EXCEPT ![t] = NoReq]
            /\ prop' = [prop EXCEPT ![t] = NoCard]
            /\ ret' = [ret EXCEPT ![t] = "idle"]
       ELSE UNCHANGED <<req, prop, ret>>

SaveThen(t, l) ==
  /\ pc' = [pc EXCEPT ![t] = "save"]
  /\ ret' = [ret EXCEPT ![t] = l]
  /\ UNCHANGED <<req, prop>>

Hold(t, p, l) ==
  /\ prop' = [prop EXCEPT ![t] = p]
  /\ pc' = [pc EXCEPT ![t] = l]
  /\ UNCHANGED <<req, ret>>

RunHandler(t) ==
  runs' = IF prop[t].inst # 0 /\ req[t].card \in Handled
            THEN [runs EXCEPT ![prop[t].inst] = Succ2(@)]
            ELSE runs

-----------------------------------------------------------------------------
(* Requests reach a thread. *)

Request(t, op, c) ==
  /\ pc[t] = "idle"
  /\ op \in Ops
  /\ req' = [req EXCEPT ![t] = [op |-> op, card |-> c]]

\* A user decides a card shown on some client: REST or WebSocket, any number
\* of times, the card possibly gone by then.
Decide(t, op, c) ==
  /\ op \in Decisions
  /\ Request(t, op, c)
  /\ pc' = [pc EXCEPT ![t] = "signal"]
  /\ UNCHANGED <<ret, prop, snap, shared, history>>

\* /api/proposals/mode
Flip(t, op, c) ==
  /\ op \in Flips
  /\ Request(t, op, c)
  /\ pc' = [pc EXCEPT ![t] = "flipget"]
  /\ UNCHANGED <<ret, prop, snap, shared, history>>

\* Mutants of broadcast_proposal: the default mode is applied without
\* replacing the object; the guard is forgotten.
BroadcastKeepsMode(t, op, c) ==
  /\ op = "suggest_nb" /\ c \notin Guarded
  /\ minted < MaxInst
  /\ Request(t, op, c)
  /\ minted' = minted + 1
  /\ prop' = [prop EXCEPT ![t] = [inst |-> minted + 1, mode |-> "blocking"]]
  /\ pc' = [pc EXCEPT ![t] = "preregister"]
  /\ UNCHANGED <<ret, snap, shared, runs, signals, crashes>>

BroadcastUnguarded(t, op, c) ==
  /\ op = "suggest_nb"
  /\ minted < MaxInst
  /\ Request(t, op, c)
  /\ minted' = minted + 1
  /\ prop' = [prop EXCEPT ![t] = [inst |-> minted + 1, mode |-> "non_blocking"]]
  /\ pc' = [pc EXCEPT ![t] = "preregister"]
  /\ UNCHANGED <<ret, snap, shared, runs, signals, crashes>>

\* broadcast_proposal on a new object: non-blocking if asked for (by the
\* producer or the configured default) and no guard objects.
Broadcast(t, op, c) ==
  LET eager == op = "suggest_nb" /\ c \notin Guarded IN
  /\ op \in {"suggest", "suggest_nb"}
  /\ minted < MaxInst
  /\ Request(t, op, c)
  /\ minted' = minted + 1
  /\ prop' = [prop EXCEPT ![t] =
                [inst |-> minted + 1,
                 mode |-> IF eager THEN "non_blocking" ELSE "blocking"]]
  /\ pc' = [pc EXCEPT ![t] = IF eager THEN "preregister" ELSE "register"]
  /\ UNCHANGED <<ret, snap, shared, runs, signals, crashes>>

-----------------------------------------------------------------------------
(* record_decision_signals, then registry.decide. *)

\* A card that is gone was already decided: nothing is recorded.
RecordSignals(t) ==
  LET i == pending[req[t].card].inst IN
  /\ pc[t] = "signal"
  /\ signals' = IF i # 0 /\ req[t].op # "DEFER"
                  THEN [signals EXCEPT ![i] = Succ2(@)] ELSE signals
  /\ Leave(t, "get")
  /\ UNCHANGED <<snap, shared, minted, runs, crashes>>

DecideGet(t) ==
  /\ pc[t] = "get"
  /\ IF Live(req[t].card) THEN Hold(t, pending[req[t].card], "branch")
                          ELSE Leave(t, "idle")
  /\ UNCHANGED <<snap, shared, history>>

\* Mutant: neither the auto_decided branch nor the check for a handler.
DecideBranchUnchecked(t) ==
  /\ pc[t] = "branch" /\ req[t].op # "DEFER"
  /\ pc' = [pc EXCEPT ![t] = "take"]
  /\ ret' = [ret EXCEPT ![t] = IF req[t].op = "ACCEPT" THEN "dispatch" ELSE "idle"]
  /\ UNCHANGED <<locals, shared, history>>

\* The auto_decided branch confirms or closes without a second dispatch; an
\* ACCEPT of a kind nobody handles keeps the card.
DecideBranch(t) ==
  LET auto == meta[req[t].card].auto
      op   == req[t].op
  IN
  /\ pc[t] = "branch"
  /\ \/ /\ op = "DEFER"
        /\ Leave(t, IF auto THEN "undefer" ELSE "defer")
     \/ /\ op = "ACCEPT" /\ ~auto /\ req[t].card \notin Handled
        /\ Leave(t, "idle")
     \/ /\ op = "REJECT" \/ auto \/ req[t].card \in Handled
        /\ op # "DEFER"
        /\ pc' = [pc EXCEPT ![t] = "take"]
        /\ ret' = [ret EXCEPT ![t] = IF op = "ACCEPT" /\ ~auto
                                     THEN "dispatch" ELSE "idle"]
        /\ UNCHANGED <<req, prop>>
  /\ UNCHANGED <<snap, shared, history>>

\* Mutant of remove: the card is read, not popped.
TakePopKeeps(t) ==
  /\ pc[t] = "take"
  /\ lock = {}
  /\ lock' = {t}
  /\ Hold(t, pending[req[t].card], "takemeta")
  /\ UNCHANGED <<pending, meta, disk, snap, history>>

\* remove: under the lock, pop the card, pop its meta, save if it was there.
TakePop(t) ==
  /\ pc[t] = "take"
  /\ lock = {}
  /\ lock' = {t}
  /\ Hold(t, pending[req[t].card], "takemeta")
  /\ pending' = [pending EXCEPT ![req[t].card] = NoCard]
  /\ UNCHANGED <<meta, disk, snap, history>>

\* Mutants of remove: it does not save; it saves after the lock is released.
TakeMetaNoSave(t) ==
  /\ pc[t] = "takemeta"
  /\ meta' = [meta EXCEPT ![req[t].card] = NoMeta]
  /\ Leave(t, IF prop[t].inst # 0 THEN ret[t] ELSE "idle")
  /\ lock' = {}
  /\ UNCHANGED <<pending, disk, snap, history>>

TakeMetaUnlockedSave(t) ==
  /\ pc[t] = "takemeta"
  /\ meta' = [meta EXCEPT ![req[t].card] = NoMeta]
  /\ Leave(t, IF prop[t].inst # 0 THEN "save" ELSE "idle")
  /\ lock' = {}
  /\ UNCHANGED <<pending, disk, snap, history>>

TakeMeta(t) ==
  /\ pc[t] = "takemeta"
  /\ meta' = [meta EXCEPT ![req[t].card] = NoMeta]
  /\ IF prop[t].inst # 0
       THEN /\ Leave(t, "save")
            /\ UNCHANGED lock
       ELSE /\ Leave(t, "idle")
            /\ lock' = {}
  /\ UNCHANGED <<pending, disk, snap, history>>

\* dispatch_accept, by whoever took the card.
Dispatch(t) ==
  /\ pc[t] = "dispatch"
  /\ RunHandler(t)
  /\ Leave(t, "idle")
  /\ UNCHANGED <<snap, shared, minted, signals, crashes>>

\* Mutant: DEFER puts the object it read back into the table.
DeferPutsBack(t) ==
  /\ pc[t] \in {"defer", "undefer"}
  /\ pending' = [pending EXCEPT ![req[t].card] = prop[t]]
  /\ meta' = [meta EXCEPT ![req[t].card] = [FreshMeta EXCEPT !.deferred = TRUE]]
  /\ SaveThen(t, "idle")
  /\ UNCHANGED <<lock, disk, snap, history>>

\* DEFER: setdefault on the meta of a card seen earlier, without the lock.
Defer(t) ==
  /\ pc[t] \in {"defer", "undefer"}
  /\ meta' = [meta EXCEPT ![req[t].card] =
                [known |-> TRUE, deferred |-> TRUE, reported |-> FALSE,
                 auto |-> @.auto /\ pc[t] = "defer"]]
  /\ SaveThen(t, "idle")
  /\ UNCHANGED <<pending, lock, disk, snap, history>>

-----------------------------------------------------------------------------
(* register, twice in a non-blocking broadcast, and the automatic run. *)

RegisterPut(t) ==
  /\ pc[t] \in {"preregister", "register"}
  /\ pending' = [pending EXCEPT ![req[t].card] = prop[t]]
  /\ pc' = [pc EXCEPT ![t] = "regmeta"]
  /\ ret' = [ret EXCEPT ![t] = IF pc[t] = "preregister" THEN "stored"
                                                       ELSE "idle"]
  /\ UNCHANGED <<meta, lock, disk, locals, history>>

RegisterMeta(t) ==
  /\ pc[t] = "regmeta"
  /\ meta' = [meta EXCEPT ![req[t].card] = IF @.known THEN @ ELSE FreshMeta]
  /\ Leave(t, "save")
  /\ UNCHANGED <<pending, lock, disk, snap, history>>

\* The object to run: a broadcast keeps its own when the table has none, the
\* flip endpoint passes on whatever registry.get gives, None included.
Reget(t) ==
  /\ pc[t] \in {"stored", "reget"}
  /\ Hold(t, IF pc[t] = "stored" /\ ~Live(req[t].card) THEN prop[t]
             ELSE pending[req[t].card], "exec")
  /\ UNCHANGED <<snap, shared, history>>

\* execute_non_blocking: dispatch first, ...
ExecuteDispatch(t) ==
  /\ pc[t] = "exec"
  /\ RunHandler(t)
  /\ Leave(t, "mark")
  /\ UNCHANGED <<snap, shared, minted, signals, crashes>>

\* ... then auto_decide, without the lock; a card gone by then stays unmarked.
ExecuteMark(t) ==
  LET c    == req[t].card
      next == IF req[t].op = "flip" THEN "idle" ELSE "register"
  IN
  /\ pc[t] = "mark"
  /\ IF prop[t].inst # 0 /\ meta[c].known /\ Live(c)
       THEN /\ meta' = [meta EXCEPT ![c].auto = TRUE, ![c].deferred = FALSE]
            /\ SaveThen(t, next)
       ELSE /\ Leave(t, next)
            /\ UNCHANGED meta
  /\ UNCHANGED <<pending, lock, disk, snap, history>>

-----------------------------------------------------------------------------
(* /api/proposals/mode and set_mode. *)

FlipGet(t) ==
  /\ pc[t] = "flipget"
  /\ Leave(t, IF Live(req[t].card) THEN "flipcheck" ELSE "idle")
  /\ UNCHANGED <<snap, shared, history>>

FlipCheck(t) ==
  LET refused == \/ meta[req[t].card].auto
                 \/ req[t].op = "flip" /\ req[t].card \in Guarded
  IN
  /\ pc[t] = "flipcheck"
  /\ Leave(t, IF refused THEN "idle" ELSE "setmode")
  /\ UNCHANGED <<snap, shared, history>>

\* Under the lock: refuse a card that is gone, or a way back to blocking for
\* one that ran; a card already in that mode needs no write.
SetMode(t) ==
  LET c      == req[t].card
      target == IF req[t].op = "flip" THEN "non_blocking" ELSE "blocking"
      next   == IF req[t].op = "flip" THEN "reget" ELSE "idle"
  IN
  /\ pc[t] = "setmode"
  /\ lock = {}
  /\ \/ /\ ~Live(c) \/ (meta[c].auto /\ target = "blocking")
        /\ Leave(t, "idle")
        /\ UNCHANGED <<pending, lock>>
     \/ /\ Live(c) /\ ~(meta[c].auto /\ target = "blocking")
        /\ pending[c].mode = target
        /\ Leave(t, next)
        /\ UNCHANGED <<pending, lock>>
     \/ /\ Live(c) /\ ~(meta[c].auto /\ target = "blocking")
        /\ pending[c].mode # target
        /\ pending' = [pending EXCEPT ![c].mode = target]
        /\ lock' = {t}
        /\ SaveThen(t, next)
  /\ UNCHANGED <<meta, disk, snap, history>>

-----------------------------------------------------------------------------
(* pop_aged_defers: each deferral that aged is reported once. *)

AgeScan(t, aged) ==
  /\ aged # {}
  /\ \A c \in aged : Live(c) /\ meta[c].deferred /\ ~meta[c].reported
  /\ pc[t] = "idle" /\ "age_scan" \in Ops
  /\ meta' = [c \in Cards |-> IF c \in aged THEN [meta[c] EXCEPT !.reported = TRUE]
                              ELSE meta[c]]
  /\ SaveThen(t, "idle")
  /\ UNCHANGED <<pending, lock, disk, snap, history>>

-----------------------------------------------------------------------------
(* _save, and the end of the console. *)

\* Mutant: without a file the call that saves ends the whole request.
SaveBuildDrops(t) ==
  /\ pc[t] = "save"
  /\ Leave(t, "idle")
  /\ lock' = lock \ {t}
  /\ UNCHANGED <<snap, pending, meta, disk, history>>

SaveBuild(t) ==
  /\ pc[t] = "save"
  /\ IF Persist
       THEN /\ snap' = [snap EXCEPT ![t] = Snapshot]
            /\ Leave(t, "trunc")
            /\ UNCHANGED lock
       ELSE /\ Leave(t, ret[t])
            /\ lock' = lock \ {t}
            /\ UNCHANGED snap
  /\ UNCHANGED <<pending, meta, disk, history>>

SaveTruncate(t) ==
  /\ pc[t] = "trunc"
  /\ disk' = TornFile
  /\ Leave(t, "write")
  /\ UNCHANGED <<pending, meta, lock, snap, history>>

SaveEnd(t) ==
  /\ snap' = [snap EXCEPT ![t] = EmptyFile]
  /\ lock' = lock \ {t}
  /\ Leave(t, ret[t])
  /\ UNCHANGED <<pending, meta, history>>

\* If another thread wrote since this one truncated, the two texts overlap:
\* what is left may not parse.
SaveWrite(t) ==
  /\ pc[t] = "write"
  /\ \/ disk' = snap[t]
     \/ ~disk.torn /\ disk' = TornFile
  /\ SaveEnd(t)

\* The file system refuses; the exception is logged and dropped.
SaveFail(t) ==
  /\ SaveMayFail
  /\ pc[t] \in {"trunc", "write"}
  /\ SaveEnd(t)
  /\ UNCHANGED disk

\* The console process dies anywhere and starts again from the file.
Restart ==
  /\ Persist /\ crashes < MaxCrashes
  /\ crashes' = crashes + 1
  /\ pending' = LoadPending(disk)
  /\ meta' = LoadMeta(disk)
  /\ lock' = {}
  /\ pc' = [t \in Threads |-> "idle"]
  /\ ret' = [t \in Threads |-> "idle"]
  /\ req' = [t \in Threads |-> NoReq]
  /\ prop' = [t \in Threads |-> NoCard]
  /\ snap' = [t \in Threads |-> EmptyFile]
  /\ UNCHANGED <<disk, minted, runs, signals>>

-----------------------------------------------------------------------------
Start(t) ==
  \/ \E c \in Cards, op \in AllOps :
       Decide(t, op, c) \/ Flip(t, op, c) \/ Broadcast(t, op, c)
  \/ \E aged \in SUBSET Cards : AgeScan(t, aged)

Continue(t) ==
  \/ RecordSignals(t) \/ DecideGet(t) \/ DecideBranch(t)
  \/ TakePop(t) \/ TakeMeta(t) \/ Dispatch(t) \/ Defer(t)
  \/ RegisterPut(t) \/ RegisterMeta(t) \/ Reget(t)
  \/ ExecuteDispatch(t) \/ ExecuteMark(t)
  \/ FlipGet(t) \/ FlipCheck(t) \/ SetMode(t)
  \/ SaveBuild(t) \/ SaveTruncate(t) \/ SaveWrite(t) \/ SaveFail(t)

Next == Restart \/ \E t \in Threads : Start(t) \/ Continue(t)

Spec == Init /\ [][Next]_vars

\* A thread inside a request keeps running; Python's lock is granted sooner
\* or later to each thread that waits for it.
Fairness ==
  \A t \in Threads : /\ WF_vars(Continue(t))
                     /\ SF_vars(TakePop(t))
                     /\ SF_vars(SetMode(t))

FairSpec == Spec /\ Fairness

-----------------------------------------------------------------------------
(* Properties. *)

\* Every variable keeps its type; the lock is held by at most one thread.
TypeOK ==
  /\ pending \in [Cards -> Objects]
  /\ meta \in [Cards -> Metas]
  /\ lock \in {{}} \cup {{t} : t \in Threads}
  /\ disk \in Files
  /\ minted \in InstIds
  /\ pc \in [Threads -> Labels]
  /\ ret \in [Threads -> Labels]
  /\ req \in [Threads -> [op : AllOps \cup {"none"}, card : Cards]]
  /\ prop \in [Threads -> Objects]
  /\ snap \in [Threads -> Files]
  /\ runs \in [InstIds -> 0 .. 2]
  /\ signals \in [InstIds -> 0 .. 2]
  /\ crashes \in 0 .. MaxCrashes

\* The handler of one card object is called at most once, however many
\* decisions, clients, flips and suggestions meet ("an e-mail or payment is
\* never sent twice, every kind": BUG-2 in the registry and decide's comment).
AtMostOnce == \A i \in InstIds : runs[i] <= 1

\* A thread that took a card with a plain ACCEPT and still owes the dispatch.
Owes(t) == /\ pc[t] \in {"takemeta", "save", "trunc", "write", "dispatch"}
           /\ req[t].op = "ACCEPT"
           /\ "dispatch" \in {pc[t], ret[t]}
           /\ prop[t].inst # 0

\* An ACCEPT that takes a card off the table either owes its dispatch or
\* confirms a run that did happen: decide never "does nothing and eats the
\* card".
NothingEaten ==
  \A t \in Threads :
    pc[t] = "takemeta" /\ req[t].op = "ACCEPT" /\ prop[t].inst # 0
      => \/ Owes(t) /\ req[t].card \in Handled
         \/ runs[prop[t].inst] > 0

\* A card that was run automatically never shows as blocking again (set_mode:
\* "already executed; flipping back would pretend it never ran").
RanNeverBlocking ==
  \A c \in Cards : Live(c) /\ meta[c].auto => pending[c].mode = "non_blocking"

\* One decision point is recorded at most once in the samples, the statistics
\* and the decision log (record_decision_signals: the proposal id is the
\* de-duplication key against double clicks, replays and several channels).
\* This does not hold for two decisions at once; no run checks it.
SignalsOnce == \A i \in InstIds : signals[i] <= 1

\* While nobody is changing or saving the table, a restart would bring back
\* exactly the table.
FileCurrent ==
  (\A t \in Threads : pc[t] \notin {"takemeta", "save", "trunc", "write"})
    => LoadPending(disk) = pending /\ LoadMeta(disk) = meta

\* What a plain ACCEPT took is run, and stays taken until then.
AcceptedRuns ==
  \A t \in Threads, i \in 1 .. MaxInst :
    (Owes(t) /\ prop[t].inst = i) ~> runs[i] = 1

-----------------------------------------------------------------------------
(* Without the non-blocking mode the registry implements the card contract. *)

\* The object a thread alone is responsible for.
Own(t) == IF pc[t] = "register" \/ Owes(t) THEN prop[t].inst ELSE 0

Stage(i) ==
  IF runs[i] > 0 THEN "run"
  ELSE IF \E c \in Cards : pending[c].inst = i THEN "offered"
  ELSE IF \E t \in Threads : Owes(t) /\ prop[t].inst = i THEN "taken"
  ELSE IF i > minted \/ \E t \in Threads : Own(t) = i THEN "unborn"
  ELSE "closed"

Contract == INSTANCE CardContract WITH
              Instances <- 1 .. MaxInst,
              stage <- [i \in 1 .. MaxInst |-> Stage(i)]

\* Each card object goes through the stages of CardContract and never back.
KeepsContract == Contract!Spec

\* Without flips and non-blocking suggestions: where a thread can be, and
\* that only an ACCEPT ever heads for a dispatch.
BlockingLabels == {"idle", "signal", "get", "branch", "take", "takemeta",
                   "dispatch", "defer", "undefer", "register", "regmeta",
                   "save", "trunc", "write"}
ControlAt(t) ==
  /\ pc[t] \in BlockingLabels
  /\ ret[t] \in {"idle", "dispatch"}
  /\ pc[t] \in {"idle", "signal", "get", "branch", "defer", "undefer",
                "register", "regmeta"} => ret[t] = "idle"
  /\ "dispatch" \in {pc[t], ret[t]} => req[t].op = "ACCEPT"
Control == \A t \in Threads : ControlAt(t)

\* Every object that may still run is in one place only, the table or the
\* hands of one thread, and an object that ran is in none.
SinglePlace ==
  /\ \A c, d \in Cards : c # d /\ pending[c].inst = pending[d].inst
                           => pending[c].inst = 0
  /\ \A t, u \in Threads : t # u /\ Own(t) = Own(u) => Own(t) = 0
  /\ \A t \in Threads, c \in Cards : Own(t) = pending[c].inst => Own(t) = 0
  /\ \A c \in Cards : pending[c].inst <= minted
  /\ \A t \in Threads : prop[t].inst <= minted
  /\ \A i \in 1 .. MaxInst :
       runs[i] > 0 => /\ i <= minted
                      /\ \A c \in Cards : pending[c].inst # i
                      /\ \A t \in Threads : Own(t) # i

\* The inductive invariant behind AtMostOnce in the blocking mode: an accepted
\* card is off the table and in one thread's hands before its handler is
\* called.
IInv == Control /\ SinglePlace /\ AtMostOnce
=============================================================================
