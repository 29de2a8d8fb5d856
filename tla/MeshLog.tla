------------------------------ MODULE MeshLog ------------------------------
(***************************************************************************)
(* The shared log of one owner's devices (mesh/synclog.py, mesh/store.py)  *)
(* and the one task of mesh/tasks.py that is folded from it.  A log is the *)
(* set of its events; entries() puts them in order.  An event is           *)
(*   [dev, hlc, kind, at, adv]: who, when, what, wall time, checkpoint.    *)
(* The hybrid logical clock (wall, counter), ordered as a pair, is the     *)
(* number wall * Span + counter, which is ordered the same way as long as  *)
(* no counter reaches Span.                                                *)
(***************************************************************************)
EXTENDS Integers, Sequences, FiniteSetsExt

CONSTANTS
  Span,      \* bound: the counters of one wall time
  Lease,     \* TASK_LEASE_S
  Rank       \* the order of device ids

Later(a, b) == IF a > b THEN a ELSE b

hlc_tick(prev, wall) == IF wall > prev \div Span THEN wall * Span ELSE prev + 1

hlc_recv(local, remote, wall) ==
  LET last == Later(local, remote) IN
  IF wall > last \div Span THEN wall * Span ELSE last + 1

\* _order_key: clocks first, device ids between equal clocks
First(events) ==
  CHOOSE e \in events : \A f \in events :
    e.hlc < f.hlc \/ (e.hlc = f.hlc /\ Rank[e.dev] <= Rank[f.dev])

\* One event after the other in that order, from a base.
Folded(op(_, _), base, log) ==
  LET after[i \in 0 .. Cardinality(log)] ==
        IF i = 0 THEN [left |-> log, value |-> base]
        ELSE LET p == after[i - 1]
                 e == First(p.left)
             IN [left |-> p.left \ {e}, value |-> op(p.value, e)]
  IN after[Cardinality(log)].value

\* merge: _events is a dictionary by event id, which takes an event once
merge(log, events) == log \cup events

\* The youngest wall time.
Wall(log) == IF log = {} THEN 0 ELSE Max({e.hlc \div Span : e \in log})

\* Mutant: the clock of a new log only knows the youngest wall time.
ClockOfWall(log) == Wall(log) * Span

\* open_log: every event of the file is merged into a new log, whose clock
\* runs ahead of all of them.
Clock(log) ==
  LET wall == Wall(log)
      received(clock, e) == hlc_recv(clock, e.hlc, wall)
  IN Folded(received, 0, log)

\* Mutant: the frontier is the last clock they have of anyone.
DeltaAfterLast(log, theirs) == {e \in log \ theirs : \A f \in theirs : f.hlc < e.hlc}

\* what is younger than their frontier, the last clock they have of each device
delta(log, theirs) ==
  {e \in log \ theirs : \A f \in theirs : f.dev = e.dev => f.hlc < e.hlc}

-----------------------------------------------------------------------------
(* materialize_tasks: the fold of the log in the order all devices agree on *)
NoOne  == "-"
NoTask == [status |-> "unknown", owner |-> NoOne, until |-> 0, epoch |-> 0, adv |-> 0]

Claimed(t, e) ==
  IF t.owner = NoOne \/ t.until <= e.at
    THEN [t EXCEPT !.owner = e.dev, !.until = e.at + Lease,
                   !.status = "claimed", !.epoch = @ + 1]
    ELSE t

Applied(t, e) ==
  CASE e.kind = "offer" ->
         [t EXCEPT !.adv = e.adv, !.status = IF @ = "unknown" THEN "offered" ELSE @]
    [] e.kind = "claim" /\ t.status \notin {"unknown", "done"} -> Claimed(t, e)
    [] e.kind = "beat" /\ t.status = "claimed" /\ t.owner = e.dev ->
         [t EXCEPT !.until = e.at + Lease]
    [] e.kind = "done" /\ t.status # "unknown" -> [t EXCEPT !.status = "done"]
    [] OTHER -> t

task(log, now) ==
  LET t == Folded(Applied, NoTask, log) IN
  IF t.status = "claimed" /\ t.until < now THEN [t EXCEPT !.status = "reclaimable"] ELSE t
=============================================================================
