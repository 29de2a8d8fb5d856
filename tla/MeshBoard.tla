----------------------------- MODULE MeshBoard -----------------------------
(***************************************************************************)
(* One persistent goal that the devices of one owner hand over to each     *)
(* other through the shared log: publishing it, renewing the lease,        *)
(* synchronising, the takeover card and what its ACCEPT does               *)
(* (console/mesh_task_board.py, mesh_tick.py, the mesh part of             *)
(* pursuit_tick.py, mesh/sync_client.py, console/routes_mesh.py).          *)
(* A console keeps a log in memory that peers are served from; everything  *)
(* else opens the file anew.  The tick of the loop opens the file and      *)
(* appends to it without an await; the handler of a takeover card does the *)
(* same in a thread, so that the loop, a peer or the end of the process    *)
(* may come between its steps.  A whole synchronisation is one step:       *)
(* merging is a union, so a peer that changes between the two requests     *)
(* makes no difference that another order of steps would not make.         *)
(***************************************************************************)
EXTENDS MeshLog

CONSTANTS
  Devices,
  Home,        \* where the user has committed to the goal
  Fragile,     \* bound: the devices whose console may end
  Beat,        \* the lease left at which it is renewed
  Skew,        \* how far the wall clock of each device is ahead
  MaxTime, MaxAdvances, MaxExtras     \* bounds

ASSUME MeshAssumption ==
  /\ NoOne \notin Devices /\ Home \in Devices /\ Fragile \subseteq Devices
  /\ Rank \in [Devices -> Nat] /\ \A d, e \in Devices : Rank[d] = Rank[e] => d = e
  /\ Skew \in [Devices -> Nat]
  /\ Span \in Nat \ {0} /\ Lease \in Nat \ {0} /\ Beat \in 0 .. Lease
  /\ MaxTime \in Nat \ {0} /\ MaxAdvances \in Nat /\ MaxExtras \in Nat

VARIABLES
  disk,     \* mesh_log.jsonl of each device
  served,   \* app.state.mesh_log: what its peers see
  rec,      \* the record of the goal in its pursuit store
  run,      \* the record its tick drives at the moment, or NoRun
  seen,     \* mesh_task_seen.json, by claim epoch
  cards,    \* takeover cards that wait for the user
  hand,     \* the accepted cards that a handler is at work on
  took,     \* history: the epochs of the cards by which a device took over
  late,     \* history: events that were appended after younger ones of the device
  now, extras

vars == <<disk, served, rec, run, seen, cards, hand, took, late, now, extras>>

NoRecord == [status |-> "none", adv |-> 0, moved |-> NoOne]
NoRun    == NoRecord

Init ==
  /\ disk = [d \in Devices |-> {}] /\ served = disk
  /\ rec = [d \in Devices |-> IF d = Home THEN [NoRecord EXCEPT !.status = "committed"]
                                           ELSE NoRecord]
  /\ run = [d \in Devices |-> NoRun]
  /\ seen = [d \in Devices |-> {}]
  /\ cards = [d \in Devices |-> {}]
  /\ hand = cards /\ took = cards
  /\ late = {}
  /\ now = 1 /\ extras = 0

-----------------------------------------------------------------------------
WallTime(d) == now + Skew[d]

Event(d, kind, hlc, adv) ==
  [dev |-> d, hlc |-> hlc, kind |-> kind, at |-> WallTime(d),
   adv |-> IF kind = "offer" THEN adv ELSE 0]

\* Faults, and events of other tasks, are counted.
Extra(more) == /\ more => extras < MaxExtras
               /\ extras' = IF more THEN extras + 1 ELSE extras

\* The clock of the next event of a log that is opened from the file.
NextClock(d) == hlc_tick(Clock(disk[d]), WallTime(d))

\* A fresh log of the file gets the kinds of events, one after the other.
Appended(d, kinds, adv) ==
  LET c1 == NextClock(d)
      c2 == hlc_tick(c1, WallTime(d))
      new == IF kinds = <<>> THEN {}
             ELSE IF Len(kinds) = 1 THEN {Event(d, kinds[1], c1, adv)}
             ELSE {Event(d, kinds[1], c1, adv), Event(d, kinds[2], c2, adv)}
  IN merge(disk[d], new)

\* publish_pursuit_tasks for a record r: the events it writes
Published(d, t, r) ==
  CASE t.status = "unknown" ->
         IF r.status = "committed" /\ r.moved = NoOne THEN <<"offer", "claim">> ELSE <<>>
    [] t.status # "unknown" /\ (t.status = "done" \/ t.owner \notin {d, NoOne}) -> <<>>
    [] t.status \notin {"unknown", "done"} /\ t.owner \in {d, NoOne} /\ r.status = "done" ->
         <<"done">>
    [] OTHER ->
         (IF t.owner = NoOne THEN <<"claim">>
          ELSE IF t.until - WallTime(d) <= Beat THEN <<"beat">> ELSE <<>>)
           \o (IF t.adv # r.adv THEN <<"offer">> ELSE <<>>)

\* Mutant: a goal that another device drives is not marked as moved.
ReconciledEnd(d, t, r) ==
  IF t.status = "done" /\ r.status # "done"
    THEN [r EXCEPT !.status = "done", !.moved = NoOne] ELSE r

\* and the record as it leaves it
Reconciled(d, t, r) ==
  CASE t.status = "unknown" -> r
    [] t.status = "done"    ->
         IF r.status = "done" THEN r ELSE [r EXCEPT !.status = "done", !.moved = NoOne]
    [] t.status \notin {"unknown", "done"} ->
         [r EXCEPT !.moved = IF t.owner \in {d, NoOne} THEN NoOne ELSE t.owner]

Drives(r) == r.status = "committed" /\ r.moved = NoOne

\* pursuit_tick up to the model run; without a record there is nothing to do.
\* Here and in Scan, t is the task as d reads it.
TickStart(d, t) ==
  LET r == Reconciled(d, t, rec[d]) IN
  /\ run[d] = NoRun /\ rec[d] # NoRecord
  /\ disk' = [disk EXCEPT ![d] = Appended(d, Published(d, t, rec[d]), rec[d].adv)]
  /\ rec' = [rec EXCEPT ![d] = r]
  /\ run' = [run EXCEPT ![d] = IF Drives(r) /\ r.adv < MaxAdvances THEN r ELSE NoRun]
  /\ UNCHANGED <<served, seen, cards, hand, took, late, now, extras>>

\* The model run has ended and the goal with it, or it was an advance, or the
\* run failed; the record that was read at the start is stored, and reconciled
\* once more.
TickEnd(d) ==
  /\ run[d] # NoRun
  /\ \E r \in {run[d]} \cup {[run[d] EXCEPT !.adv = @ + 1, !.status = s] :
                              s \in {"committed", "done"}} :
       LET t == task(disk[d], WallTime(d)) IN
       /\ disk' = [disk EXCEPT ![d] = Appended(d, Published(d, t, r), r.adv)]
       /\ rec' = [rec EXCEPT ![d] = Reconciled(d, t, r)]
       /\ Extra(r = run[d])
  /\ run' = [run EXCEPT ![d] = NoRun]
  /\ UNCHANGED <<served, seen, cards, hand, took, late, now>>

\* publish_local_tasks, for another task.  Bound: only while a handler is at
\* work, since elsewhere these events change nothing but the clocks.
Others(d) ==
  /\ hand[d] # {}
  /\ disk' = [disk EXCEPT ![d] = Appended(d, <<"other">>, 0)]
  /\ Extra(TRUE)
  /\ UNCHANGED <<served, rec, run, seen, cards, hand, took, late, now>>

\* mesh_sync_with_peer and api_mesh_sync; the answer may be lost.
Sync(d, p) ==
  LET log    == merge(served[p], delta(disk[d], served[p]))
      answer == delta(log, disk[d])
  IN
  /\ d # p
  /\ served' = [served EXCEPT ![p] = log]
  /\ \E got \in {answer, {}} :
       disk' = [disk EXCEPT ![p] = merge(@, log), ![d] = merge(@, got)]
  /\ UNCHANGED <<rec, run, seen, cards, hand, took, late, now, extras>>

\* scan_takeover_proposals and the broadcast of the card
Scan(d, t) ==
  /\ t.status = "reclaimable" /\ t.owner # d
  /\ t.epoch \notin seen[d]
  /\ seen' = [seen EXCEPT ![d] = @ \cup {t.epoch}]
  /\ cards' = [cards EXCEPT ![d] = @ \cup {[epoch |-> t.epoch, adv |-> t.adv]}]
  /\ UNCHANGED <<disk, served, rec, run, hand, took, late, now, extras>>

\* Mutant: the checkpoint replaces what the device had counted itself.
AdoptedAnew(d, c) ==
  [status |-> "committed", adv |-> c.adv, moved |-> NoOne]

Adopted(d, c) ==
  [status |-> "committed", adv |-> Later(c.adv, rec[d].adv), moved |-> NoOne]

\* _adopt_pursuit_takeover, in a thread: the file is opened, and the log with
\* the claim tells whether the claim wins.  A card that is rejected is one that
\* is never accepted.
AcceptOpens(d, c) ==
  LET claim == Event(d, "claim", NextClock(d), 0)
      owner == task(merge(disk[d], {claim}), WallTime(d)).owner
  IN
  /\ c \in cards[d] /\ cards' = [cards EXCEPT ![d] = @ \ {c}]
  /\ hand' = [hand EXCEPT ![d] =
       @ \cup {[card |-> c, claim |-> {claim}, won |-> owner \in {d, NoOne}]}]
  /\ UNCHANGED <<disk, served, rec, run, seen, took, late, now, extras>>

\* Of two lines with one id, open_log keeps the first.
Taken(d, e) == \E f \in disk[d] : f.dev = e.dev /\ f.hlc = e.hlc

Overtaken(d, e) == \E f \in disk[d] : f.dev = e.dev /\ f.hlc > e.hlc

\* The claim is appended, or an exception is swallowed and with it the answer.
AcceptWrites(d, h, e) ==
  /\ h \in hand[d] /\ e \in h.claim
  /\ \E fails \in BOOLEAN :
       /\ disk' = IF fails \/ Taken(d, e) THEN disk
                  ELSE [disk EXCEPT ![d] = merge(@, {e})]
       /\ late' = IF ~ fails /\ Overtaken(d, e) THEN late \cup {e} ELSE late
       /\ hand' = [hand EXCEPT ![d] = (@ \ {h}) \cup
            IF fails \/ h.won THEN {[h EXCEPT !.claim = {}, !.won = TRUE]} ELSE {}]
       /\ Extra(fails)
  /\ UNCHANGED <<served, rec, run, seen, cards, took, now>>

\* The record is adopted.
AcceptEnds(d, h) ==
  /\ h \in hand[d] /\ h.claim = {}
  /\ hand' = [hand EXCEPT ![d] = @ \ {h}]
  /\ rec' = [rec EXCEPT ![d] = Adopted(d, h.card)]
  /\ took' = [took EXCEPT ![d] = @ \cup {h.card.epoch}]
  /\ UNCHANGED <<disk, served, run, seen, cards, late, now, extras>>

\* A console's process ends during a model run or a handler, and starts again.
Restart(d) ==
  /\ d \in Fragile /\ (run[d] # NoRun \/ hand[d] # {})
  /\ Extra(TRUE)
  /\ run' = [run EXCEPT ![d] = NoRun]
  /\ hand' = [hand EXCEPT ![d] = {}]
  /\ served' = [served EXCEPT ![d] = disk[d]]
  /\ UNCHANGED <<disk, rec, seen, cards, took, late, now>>

TimePasses ==
  /\ now < MaxTime
  /\ now' = now + 1
  /\ UNCHANGED <<disk, served, rec, run, seen, cards, hand, took, late, extras>>

Next ==
  \/ \E d \in Devices :
       \/ \E t \in {task(disk[d], WallTime(d))} : TickStart(d, t) \/ Scan(d, t)
       \/ TickEnd(d) \/ Others(d) \/ Restart(d)
       \/ \E p \in Devices : Sync(d, p)
       \/ \E c \in cards[d] : AcceptOpens(d, c)
       \/ \E h \in hand[d] : AcceptEnds(d, h) \/ \E e \in h.claim : AcceptWrites(d, h, e)
  \/ TimePasses

Spec == Init /\ [][Next]_vars

-----------------------------------------------------------------------------
Kinds == {"offer", "claim", "beat", "done", "other"}
Count == 0 .. MaxAdvances + 1
Events == [dev : Devices, hlc : Nat, kind : Kinds, at : Nat, adv : Count]
Cards == [epoch : Nat, adv : Count]

\* Every variable keeps its type.
TypeOK ==
  /\ disk \in [Devices -> SUBSET Events] /\ served \in [Devices -> SUBSET Events]
  /\ rec \in [Devices -> [status : {"none", "committed", "done"}, adv : Count,
                           moved : Devices \cup {NoOne}]]
  /\ run \in [Devices -> [status : {"none", "committed"}, adv : Count, moved : {NoOne}]]
  /\ \A d \in Devices : /\ seen[d] \cup took[d] \subseteq Nat
                        /\ cards[d] \subseteq Cards
                        /\ hand[d] \subseteq [card : Cards, claim : SUBSET Events, won : BOOLEAN]
  /\ late \subseteq Events
  /\ now \in 1 .. MaxTime /\ extras \in 0 .. MaxExtras

\* device@hlc names one event in all logs: the tick, the handler and a restart
\* each open the file anew, and each event must come after all that it holds.
IdsUnique ==
  LET all == UNION {disk[d] : d \in Devices} IN
  \A e, f \in all : e.dev = f.dev /\ e.hlc = f.hlc => e = f

\* What a frontier hides from a peer, the peer has: of two logs, a delta has
\* every event of the one that the other one lacks.  An event that is skipped
\* once is never sent again, so each log must have a device's events without
\* gaps, whoever passed them on and whichever answers were lost.  Only the claim
\* of a handler that a younger event of its device overtook on the way to the
\* file may stay hidden.
NothingSkipped ==
  LET logs == {disk[d] : d \in Devices} \cup {served[d] : d \in Devices} IN
  \A mine, theirs \in logs : mine \ theirs \subseteq delta(mine, theirs) \cup late

\* One clock per device tells which events a log has, but for such claims.
FrontiersTell == IdsUnique /\ NothingSkipped

\* What a device counts towards its cost limit does not go down, whoever had
\* the goal in between and however old the checkpoint on the card; only a run
\* that was begun before the device lost the goal can put the old count back.
AdvancesKept ==
  [][\A d \in Devices : rec'[d].adv < rec[d].adv => run[d].adv < rec[d].adv /\ run[d] # NoRun]_vars

Settled == /\ \A d, e \in Devices : disk[d] = disk[e]
           /\ \A d \in Devices : run[d] = NoRun /\ hand[d] = {}
                              /\ Reconciled(d, task(disk[d], WallTime(d)), rec[d]) = rec[d]

\* Devices that know the same log, and have reconciled with it, agree on the
\* one that drives the goal.
OneDriver == Settled => \A d, e \in Devices : Drives(rec[d]) /\ Drives(rec[e]) => d = e

\* A device that took the goal over is asked again when it is interrupted at
\* another device later on.  This does not hold (a claim that an older beat
\* voids later gives its epoch to another one); no run checks it.
AskedAgain ==
  \A d \in Devices :
    LET t == task(disk[d], WallTime(d)) IN
    t.status = "reclaimable" /\ t.owner # d => t.epoch \notin took[d]
=============================================================================
