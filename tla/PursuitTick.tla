---------------------------- MODULE PursuitTick ----------------------------
(***************************************************************************)
(* The tick that drives the persistent goals of one console                *)
(* (console/pursuit_tick.py over cognition/pursuit_store.py).  It walks    *)
(* over the goals one by one and awaits gates, model runs and broadcasts;  *)
(* a step of the tick ends at an await, or when it has taken the payload   *)
(* of a save: the panel and the card handlers run in threads, change the   *)
(* same records and rewrite the same file, and neither has a lock.         *)
(***************************************************************************)
EXTENDS Integers, FiniteSets, UnlockedFile

CONSTANTS
  Pursuits,
  Threads,      \* the panel's and the card handlers'
  Loop,         \* the event loop, where the tick runs
  MaxAdvances,  \* PURSUIT_MAX_ADVANCES
  MaxFailures,  \* PURSUIT_MAX_CONSECUTIVE_FAILURES
  MaxHuman,     \* bound: decisions of the user, and news of the board
  MaxFaults     \* bound: crashes, and rounds without a model

ASSUME PursuitAssumption ==
  /\ IsFiniteSet(Pursuits) /\ Loop \notin Threads
  /\ MaxAdvances \in Nat \ {0} /\ MaxFailures \in Nat \ {0}
  /\ MaxHuman \in Nat /\ MaxFaults \in Nat

VARIABLES
  rec,     \* the records in memory
  file,    \* pursuits.json
  todo,    \* store.active() of this tick, as far as it is not visited
  at, on,  \* where the tick is suspended, and at which goal
  due,     \* goals whose last_advance_ts is an interval ago (_due)
  revise,  \* goals with a revision card on the board
  hands,   \* revision cards that a thread has popped and not yet acted upon
  human, faults,
  spent,   \* history: model runs since the user last decided on a goal
  lost,    \* history: goals whose revision card a crash may have cost
  stale    \* history: crashes that left a file of overlapping saves

store == <<rec, file>>
tick  == <<todo, at, on>>
count == <<human, faults, stale>>
cards == <<revise, hands, lost>>
vars  == <<store, tick, due, count, cards, spent>>

Live    == {"active", "committed", "revised"}
Final   == {"done", "dropped"}
Records == [status : Live \cup Final \cup {"absent"}, suspended : BOOLEAN,
            advances : 0 .. MaxAdvances, failures : 0 .. MaxFailures,
            cheap : BOOLEAN, moved : BOOLEAN]
Labels  == {"idle", "loop", "gate", "recheck", "pursue", "verify", "card", "report"}

\* cheap: the gate is a file test or a predicate.  moved: transferred_to is
\* set.
NoRecord == [status |-> "absent", suspended |-> FALSE, advances |-> 0,
             failures |-> 0, cheap |-> FALSE, moved |-> FALSE]
NoGoals  == [p \in Pursuits |-> NoRecord]

\* A counter at its floor need not be counted further.
Up(n, cap) == IF n < cap THEN n + 1 ELSE n
Budget     == MaxAdvances * MaxFailures * (1 + MaxFaults) + MaxFaults

Init ==
  /\ rec = NoGoals /\ file = NewFile(NoGoals)
  /\ todo = {} /\ at = "idle" /\ on \in Pursuits /\ due = Pursuits
  /\ human = 0 /\ faults = 0 /\ stale = 0
  /\ revise = {} /\ hands = {} /\ lost = {}
  /\ spent = [p \in Pursuits |-> 0]

-----------------------------------------------------------------------------
(* PursuitStore.put saves the whole table: its payload is taken here, and  *)
(* the save is over in a later step, unless a crash comes first.           *)
PutBy(w, p, r) == /\ rec' = [rec EXCEPT ![p] = r]
                  /\ file' = Begun(file, w, {p}, rec')

Put(p, r) == PutBy(Loop, p, r)

At(label)    == at = label /\ ~ Saving(file, Loop)
Await(label) == at' = label /\ UNCHANGED <<todo, on>>
NextGoal     == Await("loop")

Stamp(p)     == due' = due \ {p}
Failed(r)    == [r EXCEPT !.failures = Up(@, MaxFailures)]
Advanced(r)  == [r EXCEPT !.advances = Up(@, MaxAdvances)]
Suspended(r) == [r EXCEPT !.status = "revised", !.suspended = TRUE]
Completed(r) == [r EXCEPT !.status = "done", !.suspended = FALSE]

\* Mutant: only advances count towards the floor.
AtCostFloor(r) == r.advances >= MaxAdvances

AtFloor(r)   == r.failures >= MaxFailures \/ r.advances >= MaxAdvances

\* Mutant: the goal is suspended at its floor, but nobody is asked.
SettleSilently(p, r) == Put(p, IF AtFloor(r) THEN Suspended(r) ELSE r) /\ at' = "loop"

\* _hit_cost_floor, and the put of its caller when it is not hit
Settle(p, r) == IF AtFloor(r) THEN Put(p, Suspended(r)) /\ at' = "card"
                              ELSE Put(p, r) /\ at' = "loop"

-----------------------------------------------------------------------------
(* The user: the panel, the commit card and the revision card.  What a     *)
(* thread reads of a record, writes to it and takes as payload is one      *)
(* step; the popping of a card, its handler and the end of the save are    *)
(* steps of their own.                                                     *)
Free(t)   == ~ Saving(file, t) /\ \A h \in hands : h.by # t
Popped(p) == \E h \in hands : h.on = p

Counts == /\ human < MaxHuman
          /\ human' = human + 1
          /\ UNCHANGED <<faults, stale>>

Decides(t, p, r) == /\ Counts
                    /\ PutBy(t, p, r)
                    /\ spent' = [spent EXCEPT ![p] = 0]
                    /\ UNCHANGED <<tick, cards>>

\* A new goal has an id that no card knows.
Create(t, p) ==
  /\ Free(t)
  /\ rec[p].status = "absent" /\ p \notin todo \cup revise /\ ~ Popped(p)
  /\ \E cheap \in BOOLEAN :
       PutBy(t, p, [NoRecord EXCEPT !.status = "active", !.cheap = cheap])
  /\ due' = due \cup {p}
  /\ UNCHANGED <<tick, count, cards, spent>>

CommitAccepted(t, p) ==
  /\ Free(t) /\ rec[p].status \in {"active", "revised"}
  /\ Decides(t, p, [rec[p] EXCEPT !.status = "committed", !.suspended = FALSE])
  /\ UNCHANGED due

\* a draft that karvy_triage has made
CommitRejected(t, p) ==
  /\ Free(t) /\ rec[p].status = "active"
  /\ Decides(t, p, NoRecord)
  /\ UNCHANGED due

Resumed(r) == [r EXCEPT !.status = "committed", !.suspended = FALSE,
                        !.advances = 0, !.failures = 0]
Dropped(r) == [r EXCEPT !.status = "dropped", !.suspended = TRUE]

\* resume and drop in the panel; a revision card stays on the board
Resume(t, p) ==
  /\ Free(t) /\ rec[p].status \in Live
  /\ Decides(t, p, Resumed(rec[p]))
  /\ due' = due \cup {p}

Drop(t, p) ==
  /\ Free(t) /\ rec[p].status \in Live
  /\ Decides(t, p, Dropped(rec[p]))
  /\ UNCHANGED due

\* The registry pops the revision card (and saves itself): ACCEPT drops the
\* goal, REJECT resumes it.
CardTaken(t, p) ==
  /\ Free(t) /\ p \in revise
  /\ Counts
  /\ revise' = revise \ {p}
  /\ \E drop \in BOOLEAN : hands' = hands \cup {[by |-> t, on |-> p, drop |-> drop]}
  /\ UNCHANGED <<store, tick, due, lost, spent>>

\* The handler, or the reject hook, runs.  A goal that has ended is left alone.
CardHandled(t, p) ==
  \E h \in hands :
    /\ h.by = t /\ h.on = p
    /\ hands' = hands \ {h}
    /\ \/ /\ rec[p].status \notin Live
          /\ UNCHANGED <<store, due, spent>>
       \/ /\ rec[p].status \in Live
          /\ PutBy(t, p, IF h.drop THEN Dropped(rec[p]) ELSE Resumed(rec[p]))
          /\ due' = IF h.drop THEN due ELSE due \cup {p}
          /\ spent' = [spent EXCEPT ![p] = 0]
    /\ UNCHANGED <<tick, count, revise, lost>>

\* The save of a thread, or of the loop, is over.
Saved(w) ==
  /\ \E d \in file.dumps : d.by = w /\ file' \in Ended(file, d, NoGoals)
  /\ UNCHANGED <<rec, tick, due, count, cards, spent>>

-----------------------------------------------------------------------------
(* publish_pursuit_tasks as this console sees it: the mesh board names us, *)
(* another device, or the end of the goal there.                           *)
News == {"none", "ours", "theirs"} \cup Final

Reconciled(r, news) ==
  CASE r.status = "absent" \/ news = "none"  -> r
    [] r.status # "absent" /\ news = "ours"   -> [r EXCEPT !.moved = FALSE]
    [] r.status # "absent" /\ news = "theirs" -> [r EXCEPT !.moved = TRUE]
    [] r.status \in Final /\ news \in Final   -> r
    [] r.status \in Live /\ news \in Final    ->
         [r EXCEPT !.status = news, !.moved = FALSE]

Reconcile ==
  \E news \in [Pursuits -> News] :
    /\ rec' = [p \in Pursuits |-> Reconciled(rec[p], news[p])]
    /\ \/ rec' = rec /\ UNCHANGED <<file, count>>
       \/ rec' # rec /\ Counts /\ file' = Begun(file, Loop, Pursuits, rec')

TickStart ==
  /\ At("idle")
  /\ Reconcile
  /\ todo' = {p \in Pursuits : rec'[p].status \in Live}
  /\ at' = "loop"
  /\ UNCHANGED <<on, due, cards, spent>>

\* A tick that changed something reconciles once more.
TickEnd ==
  /\ At("loop") /\ todo = {}
  /\ Reconcile
  /\ at' = "idle"
  /\ UNCHANGED <<todo, on, due, cards, spent>>

\* An interval has passed.  A tick goes by the time it started at.
Due(p) ==
  /\ at = "idle" /\ p \notin due
  /\ due' = due \cup {p}
  /\ UNCHANGED <<store, tick, count, cards, spent>>

\* A goal whose gate does not hold: a trigger is hit and the user is asked, or
\* the model runs.
Drive(p) ==
  \/ /\ rec[p].status = "committed"
     /\ Put(p, Suspended(rec[p]))
     /\ at' = "card"
     /\ UNCHANGED <<due, spent>>
  \/ /\ Put(p, rec[p]) /\ Stamp(p)
     /\ at' = "pursue"
     /\ spent' = [spent EXCEPT ![p] = Up(@, Budget + 1)]

Skips(r) == r.status \notin {"committed", "revised"} \/ r.moved
Waits(r) == r.suspended \/ r.status = "revised"

PassBy(p) == at' = "loop" /\ UNCHANGED <<store, due, spent>>

\* A cheap gate is looked at in every tick: it holds, it raises, or it does
\* not hold.
VisitCheap(p) ==
  LET r == rec[p] IN
  \/ Put(p, Completed(r)) /\ at' = "loop" /\ UNCHANGED <<due, spent>>
  \/ p \in due /\ Settle(p, Failed(r)) /\ Stamp(p) /\ UNCHANGED spent
  \/ (Waits(r) \/ p \notin due) /\ PassBy(p)
  \/ ~ Waits(r) /\ p \in due /\ Drive(p)

\* The sandbox is asked only for a goal that is due.
VisitCostly(p) ==
  \/ p \notin due /\ PassBy(p)
  \/ /\ p \in due /\ Waits(rec[p])
     /\ Stamp(p)
     /\ at' = "recheck" /\ UNCHANGED <<store, spent>>
  \/ /\ p \in due /\ ~ Waits(rec[p])
     /\ at' = "gate" /\ UNCHANGED <<store, due, spent>>

Visit(p) ==
  /\ At("loop") /\ p \in todo
  /\ todo' = todo \ {p} /\ on' = p
  /\ UNCHANGED <<count, cards>>
  /\ \/ Skips(rec[p]) /\ PassBy(p)
     \/ ~ Skips(rec[p]) /\ rec[p].cheap /\ VisitCheap(p)
     \/ ~ Skips(rec[p]) /\ ~ rec[p].cheap /\ VisitCostly(p)

\* The sandbox has answered for a goal that waits for the user.
Recheck ==
  /\ At("recheck")
  /\ Put(on, rec[on]) \/ Put(on, Completed(rec[on]))
  /\ NextGoal
  /\ UNCHANGED <<due, count, cards, spent>>

\* The sandbox has answered for a goal that is to be driven: the gate holds,
\* it raised, or it does not hold.
Gate ==
  /\ At("gate")
  /\ UNCHANGED <<todo, on, count, cards>>
  /\ \/ Put(on, Completed(rec[on])) /\ at' = "loop" /\ UNCHANGED <<due, spent>>
     \/ Settle(on, Failed(rec[on])) /\ Stamp(on) /\ UNCHANGED spent
     \/ Drive(on)

-----------------------------------------------------------------------------
(* The model run (_advance_sync) and what follows it in the tick.          *)

\* No main loop, no slow brain: nothing ran and nothing is counted.
PursueNothing ==
  /\ At("pursue") /\ faults < MaxFaults
  /\ faults' = faults + 1
  /\ Settle(on, rec[on])
  /\ UNCHANGED <<todo, on, due, human, stale, cards, spent>>

\* Mutant: a run that raises is not counted.
PursueUncounted ==
  /\ At("pursue")
  /\ Settle(on, rec[on])
  /\ UNCHANGED <<todo, on, due, count, cards, spent>>

PursueRaised ==
  /\ At("pursue")
  /\ Settle(on, Failed(rec[on]))
  /\ UNCHANGED <<todo, on, due, count, cards, spent>>

\* Mutant: the goal is put when the report is out.
PursueUnsaved ==
  /\ At("pursue")
  /\ rec' = [rec EXCEPT ![on] = [Advanced(@) EXCEPT !.suspended = TRUE]]
  /\ Await("report")
  /\ UNCHANGED <<file, due, count, cards, spent>>

PursueInfeasible ==
  /\ At("pursue")
  /\ Put(on, [Advanced(rec[on]) EXCEPT !.suspended = TRUE])
  /\ Await("report")
  /\ UNCHANGED <<due, count, cards, spent>>

\* The run ended: the infrastructure died, it reports an error, or it is well.
Outcomes(r) == {r, Failed(r), [r EXCEPT !.failures = 0]}

\* The gate is asked once more, at once or in the sandbox.
PursueEnded ==
  /\ At("pursue")
  /\ UNCHANGED <<todo, on, due, count, cards, spent>>
  /\ \E r \in Outcomes(Advanced(rec[on])) :
       \/ r.cheap /\ Put(on, Completed(r)) /\ at' = "loop"
       \/ r.cheap /\ Settle(on, r)
       \/ /\ ~ r.cheap
          /\ rec' = [rec EXCEPT ![on] = r]
          /\ at' = "verify" /\ UNCHANGED file

Verify ==
  /\ At("verify")
  /\ \/ Put(on, Completed(rec[on])) /\ at' = "loop"
     \/ Settle(on, rec[on])
  /\ UNCHANGED <<todo, on, due, count, cards, spent>>

\* The broadcast of the revision card, or of the infeasible report, is over.
CardOut ==
  /\ At("card")
  /\ revise' = revise \cup {on} /\ lost' = lost \ {on}
  /\ NextGoal
  /\ UNCHANGED <<store, due, count, hands, spent>>

ReportOut ==
  /\ At("report")
  /\ NextGoal
  /\ UNCHANGED <<store, due, count, cards, spent>>

\* Goals that a crash may leave in revision without a card: the card is popped
\* or not yet out, a save of the goal is under way, or saves have overlapped.
Uncertain ==
  {p \in Pursuits : \/ Popped(p) \/ (at = "card" /\ on = p)
                    \/ \E d \in file.dumps : p \in d.of
                    \/ ~ file.sound}

\* The file is read anew, with the stamps that are in it.  A card popped last
\* may be back on the board, if the registry had not saved itself.
Crash ==
  /\ faults < MaxFaults
  /\ faults' = faults + 1
  /\ stale' = IF file.sound THEN stale ELSE stale + 1
  /\ rec' = file.book /\ file' = NewFile(file.book)
  /\ todo' = {} /\ at' = "idle" /\ due' \in SUBSET Pursuits
  /\ hands' = {}
  /\ \E back \in SUBSET {h.on : h \in hands} : revise' = revise \cup back
  /\ lost' = lost \cup Uncertain
  /\ UNCHANGED <<on, human, spent>>

UserStep(t, p) == \/ Create(t, p) \/ CommitAccepted(t, p) \/ CommitRejected(t, p)
                  \/ Resume(t, p) \/ Drop(t, p)
                  \/ CardTaken(t, p) \/ CardHandled(t, p)

PursueStep == PursueNothing \/ PursueRaised \/ PursueInfeasible \/ PursueEnded

TickStep == \/ TickStart \/ TickEnd \/ \E p \in Pursuits : Visit(p)
            \/ Recheck \/ Gate \/ PursueStep \/ Verify \/ CardOut \/ ReportOut
            \/ Saved(Loop)

Next == \/ \E t \in Threads, p \in Pursuits : UserStep(t, p)
        \/ \E t \in Threads : Saved(t)
        \/ \E p \in Pursuits : Due(p)
        \/ TickStep
        \/ Crash

Spec == Init /\ [][Next]_vars

\* The maintenance loop wakes every ten minutes; gates, runs and broadcasts
\* have time limits; intervals pass.
FairSpec == /\ Spec
            /\ WF_vars(TickStep)
            /\ \A p \in Pursuits : SF_vars(Due(p))

-----------------------------------------------------------------------------
\* Every variable keeps its type.
Tables == [Pursuits -> Records]
Dumps  == [by : Threads \cup {Loop}, of : SUBSET Pursuits, book : Tables]
Files  == [book : Tables, dumps : SUBSET Dumps, clean : BOOLEAN, sound : BOOLEAN]
Hands  == [by : Threads, on : Pursuits, drop : BOOLEAN]

TypeOK ==
  /\ rec \in Tables /\ file \in Files
  /\ todo \subseteq Pursuits /\ on \in Pursuits /\ at \in Labels /\ due \subseteq Pursuits
  /\ revise \subseteq Pursuits /\ hands \subseteq Hands /\ lost \subseteq Pursuits
  /\ human \in 0 .. MaxHuman /\ faults \in 0 .. MaxFaults /\ stale \in 0 .. faults
  /\ spent \in [Pursuits -> 0 .. Budget + 1]

\* Without the user a goal costs a bounded number of model runs: each counts
\* as an advance or as a failure in a row, and a crash hides one at most,
\* unless it comes while the file is that of overlapping saves: then it can
\* hide all that were counted, once.
BudgetHolds ==
  \A p \in Pursuits :
    spent[p] <= MaxAdvances * MaxFailures * (1 + stale) + faults

\* A restart finds every goal as far as it was: no drop, completion or
\* suspension is in memory only while the tick awaits something.  Only a save
\* of the goal that is under way, and saves of the loop and of a thread that
\* have overlapped or failed, make a difference, until the next lone save.
FileTellsStatus ==
  file.sound =>
    \A p \in Pursuits :
      \/ \E d \in file.dumps : p \in d.of
      \/ /\ file.book[p].status = rec[p].status
         /\ file.book[p].suspended = rec[p].suspended

\* A goal in revision has a card that asks the user, whatever the user, the
\* board and the tick did meanwhile, or a thread holds the card and will act
\* upon it; only a crash costs the card, and only of a goal that it caught
\* between the card and the file.
RevisedHasCard ==
  \A p \in Pursuits :
    rec[p].status = "revised" =>
      p \in revise \cup lost \/ Popped(p) \/ (at = "card" /\ on = p)

\* "done" and "dropped" end a goal for good.  This does not hold (the tick puts
\* what it began before a drop); no run checks it.
TerminalIsFinal ==
  [][\A p \in Pursuits : rec[p].status \in Final => rec'[p].status = rec[p].status]_vars

\* A committed goal is not driven for ever in silence: it ends, waits for the
\* user, or is another device's.
AsksOrEnds ==
  \A p \in Pursuits :
    rec[p].status = "committed"
      ~> rec[p].status # "committed" \/ rec[p].suspended \/ rec[p].moved
=============================================================================
