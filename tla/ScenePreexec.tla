---------------------------- MODULE ScenePreexec ----------------------------
(***************************************************************************)
(* Proactive scene cards (karvy/scene_gate.py) and the work done ahead for *)
(* them (console/scene_preexec.py).  A signal becomes either a plain card  *)
(* or, when a model judges it worth while, a pre-execution in a staging    *)
(* directory that ends in a "ready" card.  Both kinds pass one gate.  The  *)
(* maintenance tick and the tick after a drive run side by side on the     *)
(* event loop; a step of the loop reaches to the next await, unless user   *)
(* decisions, which run in threads, can be seen in between.  Threads and   *)
(* the loop both save the gate, without a lock.                            *)
(***************************************************************************)
EXTENDS Integers, FiniteSetsExt, UnlockedFile

CONSTANTS
  Signals,     \* fingerprints of scene signals
  Kinds, KindOf,
  Ticks,       \* scene_ticks that may run at the same time
  Nobody,      \* no signal
  Budget,      \* scene_daily_budget
  StagingMax,  \* scene_staging_max
  GateMax,     \* _MAX_FINGERPRINTS
  Cooldown,    \* REJECT_COOLDOWN_S, in days
  MaxDay,      \* bound: days
  MaxRejects,  \* bound: rejections
  MaxCrashes   \* bound: crashes

ASSUME SceneAssumption ==
  /\ IsFiniteSet(Signals) /\ Nobody \notin Signals /\ "loop" \notin Signals
  /\ KindOf \in [Signals -> Kinds]
  /\ Budget \in Nat \ {0} /\ StagingMax \in Nat \ {0} /\ GateMax \in Nat \ {0}
  /\ Cooldown \in Nat /\ MaxDay \in Nat /\ MaxRejects \in Nat /\ MaxCrashes \in Nat

VARIABLES
  day,
  gate,       \* SceneGateStore
  saved,      \* scene_gate.json, an UnlockedFile
  attempted,  \* ScenePreexecStore, which the loop alone saves
  inflight,   \* _scene_preexec_inflight
  judging,    \* the signal whose verdict each scene_tick awaits
  place,      \* the pre-execution of each signal and its card
  dirs,       \* staging directories, named by the signal they serve
  age,        \* fresh, expired (its card's expiry_ts is over), old (its TTL is)
  loop,       \* what the event loop is in the middle of
  crashes,
  rejects,    \* rejections so far
  shown,      \* history: cards out per signal
  today,      \* history: cards out on this day
  runs,       \* history: pre-executions begun per signal
  astray,     \* history: directories removed while their card was on no board
  dropped,    \* history: how often a full gate dropped a signal
  stale       \* history: restarts from a file whose last saves had overlapped

keeper  == <<gate, saved, dropped>>
engine  == <<attempted, inflight, judging, loop>>
work    == <<place, dirs, age>>
clock   == <<day, crashes, rejects, stale>>
history == <<shown, today, runs, astray>>
vars    == <<keeper, engine, work, clock, history>>

Free   == [at |-> "free", cards |-> {}]
InRun  == {"launched", "running", "ready"}
Never  == -1
Blank  == [day |-> Never, spent |-> 0, seen |-> {}, rejects |-> [k \in Kinds |-> Never]]
Places == InRun \cup {"none", "board", "silent", "accepted", "landing", "rejected", "over"}

Init ==
  /\ day = 0 /\ crashes = 0 /\ rejects = 0
  /\ gate = Blank /\ saved = NewFile(Blank)
  /\ attempted = {} /\ inflight = {}
  /\ judging = [k \in Ticks |-> Nobody]
  /\ loop = Free
  /\ place = [s \in Signals |-> "none"]
  /\ dirs = {} /\ age = [s \in Signals |-> "fresh"]
  /\ shown = [s \in Signals |-> 0] /\ today = 0
  /\ runs = [s \in Signals |-> 0] /\ astray = {}
  /\ dropped = [s \in Signals |-> 0] /\ stale = 0

(***************************************************************************)
(* The gate: a day's budget, no signal twice, no kind that was rejected    *)
(* lately.  charge comes before the broadcast, and in the same step as the *)
(* check.                                                                  *)
(***************************************************************************)
Spent == IF gate.day = day THEN gate.spent ELSE 0
Cooling(k) == gate.rejects[k] # Never /\ day < gate.rejects[k] + Cooldown

\* Mutant: whether the signal had its card is not looked at.
AllowsAnew(s) == ~ Cooling(KindOf[s]) /\ Spent < Budget
check(s) == s \notin gate.seen /\ ~ Cooling(KindOf[s]) /\ Spent < Budget

\* _prune keeps the GateMax latest.  Their order is left out: any older one goes.
Oldest(S) == {D \in SUBSET S : Cardinality(S \ D) = Min({Cardinality(S), GateMax - 1})}

\* Memory changes, and the loop begins to save.
charge(s) ==
  \E D \in Oldest(gate.seen \ {s}) :
    /\ gate' = [gate EXCEPT !.day = day, !.spent = Spent + 1, !.seen = (@ \ D) \cup {s}]
    /\ saved' = Begun(saved, "loop", s, gate')
    /\ dropped' = [t \in Signals |-> dropped[t] + (IF t \in D THEN 1 ELSE 0)]

\* The save that w began is over.
Save(w) ==
  \E d \in saved.dumps :
    d.by = w /\ saved' \in Ended(saved, d, Blank)

GateSaved ==
  /\ Save("loop")
  /\ UNCHANGED <<gate, dropped, engine, work, clock, history>>

\* A plain card, or nothing.
Emit(s) ==
  \/ check(s) /\ charge(s) /\ loop' = [at |-> "plain", cards |-> {s}]
  \/ ~check(s) /\ UNCHANGED <<keeper, loop>>

Out(s) == shown' = [shown EXCEPT ![s] = @ + 1] /\ today' = today + 1
Move(s, p) == place' = [place EXCEPT ![s] = p]

\* broadcast_proposal, after the save: the plain card is out.
Broadcast(s) ==
  /\ loop.at = "plain" /\ s \in loop.cards /\ ~ Saving(saved, "loop")
  /\ Out(s) /\ loop' = Free
  /\ UNCHANGED <<keeper, attempted, inflight, judging, work, clock, runs, astray>>

\* The same for a ready card, which a grant may keep from the board.
BroadcastReady(s) ==
  /\ loop.at = "ready" /\ s \in loop.cards /\ ~ Saving(saved, "loop")
  /\ Move(s, "board") \/ Move(s, "silent")
  /\ Out(s) /\ loop' = Free
  /\ UNCHANGED <<keeper, attempted, inflight, judging, dirs, age, clock, runs, astray>>

(***************************************************************************)
(* scene_tick and maybe_consume_signal                                     *)
(***************************************************************************)
\* Mutant: the place is taken when the task starts.
ClaimLater(s) == inflight' = inflight
Claim(s) == inflight' = inflight \cup {s}

\* What a tick does with one of the signals it has collected, which may be gone
\* by now: the list is left open.  While its pre-execution is under way a signal
\* is passed over.  A busy task board, the day's tokens, the spend budget, a
\* missing gateway or a cached verdict may send any other to the plain card.
Visit(k, s) ==
  /\ loop = Free /\ judging[k] = Nobody /\ s \notin inflight
  /\ \/ /\ s \notin attempted /\ check(s) /\ inflight = {}
        /\ Claim(s) /\ judging' = [judging EXCEPT ![k] = s]
        /\ UNCHANGED <<keeper, loop>>
     \/ Emit(s) /\ UNCHANGED <<inflight, judging>>
  /\ UNCHANGED <<attempted, work, clock, history>>

\* _judge has answered.
Judge(k) ==
  LET s == judging[k]
  IN /\ loop = Free /\ s # Nobody
     /\ judging' = [judging EXCEPT ![k] = Nobody]
     /\ \/ /\ attempted' = attempted \cup {s} /\ inflight' = inflight \cup {s}
           /\ Move(s, "launched") /\ runs' = [runs EXCEPT ![s] = @ + 1]
           /\ UNCHANGED <<keeper, loop>>
        \/ /\ inflight' = inflight \ {s} /\ Emit(s)
           /\ UNCHANGED <<attempted, place, runs>>
     /\ UNCHANGED <<dirs, age, clock, shown, today, astray>>

\* run_task_monitor and proactive_from_state: a card for a failed task, by the
\* gate alone.
OtherProducer(s) ==
  /\ loop = Free /\ Emit(s)
  /\ UNCHANGED <<attempted, inflight, judging, work, clock, history>>

(***************************************************************************)
(* _run_preexec                                                            *)
(***************************************************************************)
\* Mutant: a directory is fair game even while its card is on the board.
AnyDir == dirs
Unreferenced == {d \in dirs : place[d] # "board"}

Stray(D) == {d \in D : place[d] \in {"silent", "accepted"}}

\* create_staging at its limit removes one directory that no pending card
\* refers to (the oldest: any, here), and gives up when there is none.
Start(s) ==
  /\ loop = Free /\ place[s] = "launched"
  /\ \E D \in {{}} \cup {{d} : d \in Unreferenced} :
       /\ (D # {}) <=> (Cardinality(dirs) >= StagingMax /\ Unreferenced # {})
       /\ astray' = astray \cup Stray(D)
       /\ \/ /\ Cardinality(dirs \ D) < StagingMax
             /\ dirs' = (dirs \ D) \cup {s}
             /\ Move(s, "running") /\ UNCHANGED inflight
          \/ /\ Cardinality(dirs \ D) >= StagingMax
             /\ dirs' = dirs \ D
             /\ Move(s, "over") /\ inflight' = inflight \ {s}
  /\ UNCHANGED <<keeper, attempted, judging, loop, age, clock, shown, today, runs>>

\* The thread is back: nothing to show, or too late; a product that cannot be
\* written; a product the gate refuses, or a card.
End(s) ==
  /\ loop = Free /\ place[s] = "running"
  /\ \/ /\ dirs' = dirs \ {s}
        /\ Move(s, "over") /\ inflight' = inflight \ {s} /\ UNCHANGED <<keeper, loop>>
     \/ /\ Move(s, "over") /\ inflight' = inflight \ {s} /\ UNCHANGED <<keeper, loop, dirs>>
     \/ /\ age[s] = "fresh" /\ check(s)
        /\ charge(s) /\ loop' = [at |-> "ready", cards |-> {s}]
        /\ Move(s, "ready") /\ UNCHANGED <<inflight, dirs>>
  /\ UNCHANGED <<attempted, judging, age, clock, history>>

\* The sends to the clients are over; the callback frees the place.
TaskEnds(s) ==
  /\ loop = Free /\ s \in inflight
  /\ place[s] \notin {"none", "launched", "running"}
  /\ inflight' = inflight \ {s}
  /\ UNCHANGED <<keeper, attempted, judging, loop, work, clock, history>>

\* _silent_handle carries the card out, or falls back to the board.
Silent(s) ==
  /\ loop = Free /\ place[s] = "silent"
  /\ Move(s, "accepted") \/ Move(s, "board")
  /\ UNCHANGED <<keeper, engine, dirs, age, clock, history>>

(***************************************************************************)
(* Decisions, in threads: the card leaves the board, then the handler runs *)
(***************************************************************************)
Accept(s) ==
  /\ place[s] = "board" /\ Move(s, "accepted")
  /\ UNCHANGED <<keeper, engine, dirs, age, clock, history>>

\* load_product: a receipt that it is gone, or on.
Load(s) ==
  /\ place[s] = "accepted"
  /\ Move(s, IF s \in dirs THEN "landing" ELSE "over")
  /\ UNCHANGED <<keeper, engine, dirs, age, clock, history>>

\* Delivered, or not: then the directory stays for the tidy-up.
Land(s) ==
  /\ place[s] = "landing" /\ Move(s, "over")
  /\ dirs' = dirs \ {s} \/ UNCHANGED dirs
  /\ UNCHANGED <<keeper, engine, age, clock, history>>

\* note_reject is called first, in the thread of the decision, for a card that is
\* still there: memory changes, and the thread begins to save.
note_reject(s) ==
  /\ gate' = [gate EXCEPT !.rejects[KindOf[s]] = day]
  /\ saved' = Begun(saved, s, KindOf[s], gate')
  /\ UNCHANGED dropped

PlainOut(s) == place[s] \in {"none", "over"} /\ shown[s] > 0

Reject(s) ==
  /\ rejects < MaxRejects /\ rejects' = rejects + 1
  /\ place[s] = "board" \/ PlainOut(s)
  /\ ~ Saving(saved, s) /\ note_reject(s)
  /\ UNCHANGED <<engine, work, day, crashes, stale, history>>

\* Then the card leaves the board, if it is there yet.
RejectSaved(s) ==
  /\ Save(s)
  /\ IF place[s] = "board" THEN Move(s, "rejected") ELSE UNCHANGED place
  /\ UNCHANGED <<gate, dropped, engine, dirs, age, clock, history>>

Discard(s) ==
  /\ place[s] = "rejected" /\ Move(s, "over")
  /\ dirs' = dirs \ {s}
  /\ UNCHANGED <<keeper, engine, age, clock, history>>

(***************************************************************************)
(* scene_ready_maintenance: expired cards are listed and withdrawn one by  *)
(* one, and then old directories without a card removed.                   *)
(***************************************************************************)
Expired == {s \in Signals : place[s] = "board" /\ age[s] # "fresh"}

\* Mutant: only what a card once stood for is tidied up.
PrunableShown == {d \in dirs : place[d] # "board" /\ age[d] = "old" /\ shown[d] > 0}
Prunable == {d \in dirs : place[d] # "board" /\ age[d] = "old"}

Sweep ==
  /\ loop = Free /\ Expired \cup Prunable # {}
  /\ loop' = [at |-> "sweep", cards |-> Expired]
  /\ UNCHANGED <<keeper, attempted, inflight, judging, work, clock, history>>

Withdraw(s) ==
  /\ loop.at = "sweep" /\ s \in loop.cards
  /\ loop' = [loop EXCEPT !.cards = @ \ {s}]
  /\ IF place[s] = "board" THEN Move(s, "over") ELSE UNCHANGED place
  /\ dirs' = dirs \ {s}
  /\ UNCHANGED <<keeper, attempted, inflight, judging, age, clock, history>>

Prune ==
  /\ loop.at = "sweep" /\ loop.cards = {}
  /\ dirs' = dirs \ Prunable /\ astray' = astray \cup Stray(Prunable)
  /\ loop' = Free
  /\ UNCHANGED <<keeper, attempted, inflight, judging, place, age, clock, shown, today, runs>>

(***************************************************************************)
(* Time, and the end of the process.  The board is durable                 *)
(* (ProposalRegistry), and so are the two stores and the directories.      *)
(***************************************************************************)
Age(s) ==
  /\ s \in dirs /\ age[s] # "old"
  /\ age' = [age EXCEPT ![s] = IF @ = "fresh" THEN "expired" ELSE "old"]
  /\ UNCHANGED <<keeper, engine, place, dirs, clock, history>>

DayPasses ==
  /\ loop = Free /\ day < MaxDay /\ day' = day + 1 /\ today' = 0
  /\ UNCHANGED <<keeper, attempted, inflight, judging, loop, work, crashes, rejects, stale,
                 shown, runs, astray>>

Crash ==
  /\ crashes < MaxCrashes /\ crashes' = crashes + 1
  /\ gate' = saved.book /\ saved' = NewFile(saved.book)
  /\ stale' = stale + (IF saved.sound THEN 0 ELSE 1)
  /\ inflight' = {} /\ judging' = [k \in Ticks |-> Nobody] /\ loop' = Free
  /\ place' = [s \in Signals |->
       IF place[s] \in {"none", "board"} THEN place[s] ELSE "over"]
  /\ UNCHANGED <<day, rejects, dropped, attempted, dirs, age, history>>

Loop(s)   == GateSaved \/ Broadcast(s) \/ BroadcastReady(s) \/ Start(s) \/ End(s) \/ TaskEnds(s) \/ Silent(s)
Thread(s) == RejectSaved(s) \/ Load(s) \/ Land(s) \/ Discard(s)
Tidy      == Sweep \/ (\E s \in Signals : Withdraw(s)) \/ Prune

Next ==
  \/ \E k \in Ticks : Judge(k) \/ \E s \in Signals : Visit(k, s)
  \/ \E s \in Signals : \/ OtherProducer(s) \/ Loop(s) \/ Thread(s)
                        \/ Accept(s) \/ Reject(s) \/ Age(s)
  \/ Tidy \/ DayPasses \/ Crash

\* Tasks and threads go on, the maintenance tick comes again, clocks advance.
\* Nothing is assumed of signals, users and the judge.
Spec == /\ Init /\ [][Next]_vars
        /\ WF_vars(Tidy)
        /\ \A s \in Signals : WF_vars(Loop(s)) /\ WF_vars(Thread(s)) /\ WF_vars(Age(s))

(***************************************************************************)
(* Properties                                                              *)
(***************************************************************************)

Gates == [day : {Never} \cup 0 .. MaxDay, spent : 0 .. Budget, seen : SUBSET Signals,
          rejects : [Kinds -> {Never} \cup 0 .. MaxDay]]
Dumps == [by : Signals \cup {"loop"}, of : Signals \cup Kinds, book : Gates]
GateFile == [book : Gates, dumps : SUBSET Dumps, clean : BOOLEAN, sound : BOOLEAN]

\* Types of the state.
TypeOK ==
  /\ day \in 0 .. MaxDay /\ crashes \in 0 .. MaxCrashes /\ rejects \in 0 .. MaxRejects
  /\ gate \in Gates /\ saved \in GateFile
  /\ attempted \subseteq Signals /\ inflight \subseteq Signals
  /\ judging \in [Ticks -> Signals \cup {Nobody}]
  /\ loop \in [at : {"free", "plain", "ready", "sweep"}, cards : SUBSET Signals]
  /\ place \in [Signals -> Places] /\ dirs \subseteq Signals
  /\ age \in [Signals -> {"fresh", "expired", "old"}]
  /\ shown \in [Signals -> Nat] /\ today \in Nat
  /\ runs \in [Signals -> Nat] /\ astray \subseteq Signals
  /\ dropped \in [Signals -> Nat] /\ stale \in Nat

\* Plain and ready cards together keep to the day's budget, and a signal has
\* one card ever, whichever of the two, over concurrent ticks, rejections that
\* save the gate from threads of their own, and restarts.  It takes a restart
\* after saves that overlapped to spend a budget once more, and that, or a gate
\* so full that it dropped the signal, to give a signal another card.
GateHolds ==
  /\ today <= Budget * (1 + stale)
  /\ \A s \in Signals : shown[s] <= 1 + stale + dropped[s]

\* One pre-execution at a time, and one per signal ever, although two ticks
\* may await verdicts at once and the process may restart in the middle.
OneRun ==
  /\ Cardinality({s \in Signals : place[s] \in InRun}) <= 1
  /\ \A s \in Signals : runs[s] <= 1

\* A card on the board, or accepted and about to land, has its product.  It
\* can be gone only if room was made, or old ones tidied up, while the card
\* was on no board (taken silently, or accepted a moment ago), or if the card
\* was accepted while it was being withdrawn as expired.
ProductKept ==
  \A s \in Signals : place[s] \in {"board", "accepted"} /\ s \notin dirs =>
    s \in astray \/ (place[s] = "accepted" /\ age[s] # "fresh")

\* No directory stays for good, whatever becomes of its run, its card and the
\* process.
NoResidue == \A s \in Signals : s \in dirs ~> s \notin dirs
=============================================================================
