------------------------- MODULE WorkflowRun_proofs -------------------------
(* Proofs about WorkflowRun, for every plan and every value of its constants. *)
EXTENDS WorkflowRun, FiniteSetTheorems, TLAPS

-----------------------------------------------------------------------------
(* What the helpers return.                                                  *)

LEMMA Bounds == MaxRetries \in Nat /\ MaxFaults \in Nat
  BY WorkflowAssumption

Saves == run \in Runs /\ file \in Runs /\ faults \in 0 .. MaxFaults

LEMMA StoreType ==
  ASSUME Saves, NEW r \in Runs, Store(r)
  PROVE  Saves' /\ run' = r /\ (file' = r \/ file' = file)
  BY Bounds DEF Saves, Store

LEMMA StatusSet ==
  ASSUME Saves, NEW status \in {"cancelled", "done"}, Store([run EXCEPT !.status = status])
  PROVE  /\ Saves' /\ run'.status = status /\ run'.memo = run.memo
         /\ file' = run' \/ file' = file
<1>1. PICK r \in Runs : r = [run EXCEPT !.status = status]
  BY DEF Saves, Runs
<1>2. r.status = status /\ r.memo = run.memo
  BY <1>1 DEF Saves, Runs
<1>3. QED
  BY <1>1, <1>2, StoreType

\* StoreCancel and StoreFinish close a running run and touch no other.
LEMMA Closing ==
  ASSUME Saves, StoreCancel \/ StoreFinish
  PROVE  /\ Saves'
         /\ run'.memo = run.memo
         /\ file' = run' \/ file' = file
         /\ run.status # "running" => run' = run /\ file' = file
         /\ run.status = "running" => run'.status \in {"cancelled", "done"}
<1>1. CASE run.status = "running"
  BY <1>1, StatusSet DEF StoreCancel, StoreFinish
<1>2. CASE run.status # "running"
  BY <1>2 DEF StoreCancel, StoreFinish, Keep, Saves
<1>3. QED
  BY <1>1, <1>2

LEMMA IdleType == Idle \in Executions
  BY Bounds DEF Idle, Executions, Results, Scopes

LEMMA StatusType ==
  ASSUME TypeOK, NEW x \in Execs
  PROVE  /\ Status(x) \in [Steps -> Results]
         /\ \A s \in Steps : /\ Status(x)[s] = "open" <=> exec[x].step[s] = "open"
                             /\ Status(x)[s] = "driving" <=> exec[x].step[s] = "driving"
                             /\ Status(x)[s] = "skipped" <=> exec[x].step[s] = "skipped"
                             /\ Status(x)[s] \in {"open", "driving"} \cup Settled
<1>1. exec[x].step \in [Steps -> Results]
  BY DEF TypeOK, Executions
<1>2. QED
  BY <1>1 DEF Status, Results, Driven, Settled

LEMMA RegisteredType ==
  ASSUME TypeOK, NEW x \in Execs, NEW c \in Scopes
  PROVE  Registered(x, c) \in [Scopes -> Entries]
<1>1. PICK e \in Entries : e = registry[c]
  BY DEF TypeOK
<1>2. [flag |-> x, count |-> 1] \in Entries /\ [e EXCEPT !.count = @ + 1] \in Entries
  BY DEF Entries
<1>3. QED
  BY <1>1, <1>2 DEF Registered, TypeOK

LEMMA UnregisteredType ==
  ASSUME TypeOK, NEW x \in Execs
  PROVE  Unregistered(x) \in [Scopes -> Entries]
<1>1. PICK e \in Entries : e = registry[exec[x].scope]
  BY DEF TypeOK, Executions
<1>2. [flag |-> NoOne, count |-> 0] \in Entries
  BY DEF Entries
<1>3. e.count > 1 => [e EXCEPT !.count = @ - 1] \in Entries
  BY DEF Entries
<1>4. e.count \in Nat
  BY DEF Entries
<1> DEFINE f == IF e.count <= 1 THEN [flag |-> NoOne, count |-> 0] ELSE [e EXCEPT !.count = @ - 1]
<1>5. f \in Entries
  BY <1>2, <1>3, <1>4
<1>6. Unregistered(x) = [registry EXCEPT ![exec[x].scope] = f]
  BY <1>1 DEF Unregistered
<1> HIDE DEF f
<1>7. QED
  BY <1>5, <1>6 DEF TypeOK

\* How the actions change the execution of x, field by field.
LEMMA BeginChange ==
  ASSUME TypeOK, NEW x \in Execs, NEW c \in Scopes, Begin(x, c)
  PROVE  /\ exec' \in [Execs -> Executions]
         /\ \A y \in Execs \ {x} : exec'[y] = exec[y]
         /\ exec'[x].pc = "loop" /\ exec'[x].scope = c /\ exec'[x].end = "none"
         /\ exec'[x].flag = registry'[c].flag
         /\ exec'[x].step = [s \in Steps |-> "open"]
         /\ registry' = Registered(x, c) /\ registry' \in [Scopes -> Entries]
<1>1. registry' = Registered(x, c) /\ registry' \in [Scopes -> Entries]
  BY RegisteredType DEF Begin
<1>2. PICK f \in Execs \cup {NoOne} : f = registry'[c].flag
  BY <1>1 DEF Entries
<1> DEFINE left == [s \in Steps |-> IF OnFail[s] = "retry" THEN MaxRetries ELSE 0]
<1>3. left \in [Steps -> 0 .. MaxRetries]
  BY Bounds
<1>4. PICK i \in Executions : i = Idle
  BY IdleType
<1>5. i.end = "none" /\ i.step = [s \in Steps |-> "open"]
  BY <1>4 DEF Idle
<1> HIDE DEF left
<1>6. PICK e : e = [i EXCEPT !.pc = "loop", !.scope = c, !.flag = f, !.left = left]
  OBVIOUS
<1>7. e \in Executions
  BY <1>3, <1>6 DEF Executions
<1>8. /\ e.pc = "loop" /\ e.scope = c /\ e.flag = f /\ e.end = "none"
      /\ e.step = [s \in Steps |-> "open"]
  BY <1>5, <1>6 DEF Executions
<1>9. exec' = [exec EXCEPT ![x] = e]
  BY <1>2, <1>4, <1>6 DEF Begin, left
<1>10. QED
  BY <1>1, <1>2, <1>7, <1>8, <1>9 DEF TypeOK

Closed(st) == [s \in Steps |-> IF st[s] = "open" THEN "skipped" ELSE st[s]]

LEMMA EndsChange ==
  ASSUME TypeOK, NEW x \in Execs, NEW why \in {"whole", "aborted", "cancelled"},
         Ends(x, Status(x), why)
  PROVE  /\ exec' \in [Execs -> Executions]
         /\ \A y \in Execs \ {x} : exec'[y] = exec[y]
         /\ exec'[x].pc \in {"record", "ended"} /\ exec'[x].end = why
         /\ exec'[x].step = Closed(Status(x))
         /\ registry' = Unregistered(x) /\ registry' \in [Scopes -> Entries]
<1>1. registry' = Unregistered(x) /\ registry' \in [Scopes -> Entries]
  BY UnregisteredType DEF Ends
<1>2. PICK st \in [Steps -> Results] : st = Closed(Status(x))
  BY StatusType DEF Closed, Results, Settled
<1>3. PICK old \in Executions : old = exec[x]
  BY DEF TypeOK
<1>4. PICK pc \in {"record", "ended"} : pc = IF exec[x].scope = "task" THEN "record" ELSE "ended"
  OBVIOUS
<1> DEFINE left == Idle.left
<1>5. left \in [Steps -> 0 .. MaxRetries]
  BY Bounds DEF Idle
<1> HIDE DEF left
<1>6. PICK e : e = [old EXCEPT !.pc = pc, !.step = st, !.left = left, !.flag = NoOne, !.end = why]
  OBVIOUS
<1>7. e \in Executions /\ e.pc = pc /\ e.step = st /\ e.end = why
  BY <1>5, <1>6 DEF Executions
<1>8. exec' = [exec EXCEPT ![x] = e]
  <2>1. exec' = [exec EXCEPT ![x].pc = pc, ![x].step = st, ![x].left = left,
                             ![x].flag = NoOne, ![x].end = why]
    BY <1>2, <1>4 DEF Ends, Closed, left
  <2>2. QED
    BY <1>3, <1>6, <2>1 DEF TypeOK
<1>9. QED
  BY <1>1, <1>2, <1>7, <1>8 DEF TypeOK
SameBut(x) == /\ exec' \in [Execs -> Executions]
              /\ \A y \in Execs \ {x} : exec'[y] = exec[y]
              /\ exec'[x].pc = exec[x].pc /\ exec'[x].scope = exec[x].scope
              /\ exec'[x].flag = exec[x].flag /\ exec'[x].end = exec[x].end

LEMMA WalkChange ==
  ASSUME TypeOK, NEW x \in Execs, NEW st \in [Steps -> Results],
         exec' = [exec EXCEPT ![x].step = st]
  PROVE  SameBut(x) /\ exec'[x].step = st /\ exec'[x].left = exec[x].left
  BY DEF SameBut, TypeOK, Executions

Rounded(x, st, pruned, batch) ==
  [s \in Steps |-> IF s \in pruned THEN "skipped" ELSE IF s \in batch THEN Fetched(s) ELSE st[s]]

\* The batch of a round is taken from the steps that are ready and not pruned.
LEMMA RoundChange ==
  ASSUME TypeOK, NEW x \in Execs, Round(x)
  PROVE  LET st     == Status(x)
             pruned == {s \in Ready(st) : Pruned(st, s)}
         IN \E batch \in SUBSET (Ready(st) \ pruned) :
              /\ SameBut(x) /\ exec'[x].left = exec[x].left
              /\ exec'[x].step = Rounded(x, st, pruned, batch)
<1> DEFINE st     == Status(x)
           pruned == {s \in Ready(st) : Pruned(st, s)}
<1>1. PICK batch \in SUBSET (Ready(st) \ pruned) :
        exec' = [exec EXCEPT ![x].step = Rounded(x, st, pruned, batch)]
  BY DEF Round, Batch, Rounded
<1>2. Rounded(x, st, pruned, batch) \in [Steps -> Results]
  <2>1. st \in [Steps -> Results]
    BY StatusType
  <2> HIDE DEF st, pruned
  <2>2. QED
    BY <2>1 DEF Rounded, Fetched, Results, Driven, Settled
<1> HIDE DEF st, pruned
<1>3. SameBut(x) /\ exec'[x].left = exec[x].left /\ exec'[x].step = Rounded(x, st, pruned, batch)
  BY <1>1, <1>2, WalkChange
<1>4. QED
  BY <1>3 DEF st, pruned

\* The step that was driven gets a result or another attempt.
LEMMA StepChange ==
  ASSUME TypeOK, NEW x \in Execs, NEW s \in Steps, StepEnds(x, s)
  PROVE  /\ SameBut(x) /\ exec[x].step[s] = "driving"
         /\ \A d \in Steps \ {s} : exec'[x].step[d] = exec[x].step[d]
         /\ \A d \in Steps \ {s} : exec'[x].left[d] = exec[x].left[d]
         /\ exec'[x].step[s] \in {"driving"} \cup Driven
         /\ exec'[x].step[s] = "driving" => s \notin run.memo
         /\ \/ Store([run EXCEPT !.memo = @ \cup {s}]) \/ Keep
         /\ UNCHANGED <<flagged, registry>>
<1>1. PICK e \in Executions : e = exec[x]
  BY DEF TypeOK
<1>2. ASSUME NEW r \in {"output", "nothing", "dead"}, Result(x, s, r)
      PROVE  /\ SameBut(x) /\ exec'[x].step[s] = r
             /\ \A d \in Steps \ {s} : exec'[x].step[d] = exec[x].step[d]
             /\ \A d \in Steps \ {s} : exec'[x].left[d] = exec[x].left[d]
  <2> DEFINE st == [e.step EXCEPT ![s] = r]
  <2>1. st \in [Steps -> Results] /\ st[s] = r /\ \A d \in Steps \ {s} : st[d] = e.step[d]
    BY DEF Executions, Results, Driven
  <2>2. exec' = [exec EXCEPT ![x].step = st]
    BY <1>1, <1>2 DEF Result
  <2> HIDE DEF st
  <2>3. QED
    BY <1>1, <2>1, <2>2, WalkChange
<1>3. ASSUME exec[x].left[s] > 0,
             exec' = [exec EXCEPT ![x].left[s] = @ - 1, ![x].step[s] = Fetched(s)]
      PROVE  /\ SameBut(x) /\ exec'[x].step[s] = Fetched(s)
             /\ \A d \in Steps \ {s} : exec'[x].step[d] = exec[x].step[d]
             /\ \A d \in Steps \ {s} : exec'[x].left[d] = exec[x].left[d]
  <2> DEFINE st   == [e.step EXCEPT ![s] = Fetched(s)]
             left == [e.left EXCEPT ![s] = @ - 1]
  <2>1. st \in [Steps -> Results] /\ st[s] = Fetched(s)
        /\ \A d \in Steps \ {s} : st[d] = e.step[d]
    BY DEF Executions, Results, Driven, Fetched
  <2>2. e.left[s] \in 1 .. MaxRetries
    BY <1>1, <1>3, Bounds DEF Executions
  <2>3. left \in [Steps -> 0 .. MaxRetries] /\ \A d \in Steps \ {s} : left[d] = e.left[d]
    BY <2>2, Bounds DEF Executions
  <2>4. exec' = [exec EXCEPT ![x].left = left, ![x].step = st]
    BY <1>1, <1>3
  <2> HIDE DEF st, left
  <2>5. PICK f : f = [e EXCEPT !.left = left, !.step = st]
    OBVIOUS
  <2>6. f \in Executions /\ f.step = st /\ f.left = left /\ f.pc = e.pc /\ f.scope = e.scope
        /\ f.flag = e.flag /\ f.end = e.end
    BY <2>1, <2>3, <2>5 DEF Executions
  <2>7. exec' = [exec EXCEPT ![x] = f]
    BY <1>1, <2>4, <2>5
  <2>8. QED
    BY <1>1, <2>1, <2>3, <2>6, <2>7 DEF SameBut, TypeOK
<1>4. CASE Store([run EXCEPT !.memo = @ \cup {s}]) /\ Result(x, s, "output")
  BY <1>2, <1>4 DEF StepEnds, Driven
<1>5. CASE /\ exec[x].left[s] > 0 /\ Keep
           /\ exec' = [exec EXCEPT ![x].left[s] = @ - 1, ![x].step[s] = Fetched(s)]
  <2>1. exec[x].step[s] = "driving" /\ UNCHANGED <<flagged, registry>>
    BY DEF StepEnds
  <2>2. exec'[x].step[s] = Fetched(s)
    BY <1>3, <1>5
  <2>3. exec'[x].step[s] \in {"driving"} \cup Driven /\ (exec'[x].step[s] = "driving" => s \notin run.memo)
    BY <2>2 DEF Driven, Fetched
  <2>4. QED
    BY <1>3, <1>5, <2>1, <2>3
<1>6. CASE Keep /\ (Result(x, s, "nothing") \/ Result(x, s, "dead"))
  BY <1>2, <1>6 DEF StepEnds, Driven
<1>7. QED
  BY <1>4, <1>5, <1>6 DEF StepEnds
\* What each action does to the store.
LEMMA MemoType ==
  ASSUME Saves, NEW s \in Steps, Store([run EXCEPT !.memo = @ \cup {s}])
  PROVE  /\ Saves' /\ run'.status = run.status /\ run'.memo = run.memo \cup {s}
         /\ file' = run' \/ file' = file
<1>1. PICK r : r = [run EXCEPT !.memo = @ \cup {s}]
  OBVIOUS
<1>2. r \in Runs /\ r.status = run.status /\ r.memo = run.memo \cup {s}
  BY <1>1 DEF Saves, Runs
<1>3. QED
  BY <1>1, <1>2, StoreType

LEMMA StartType ==
  ASSUME Saves, Store([status |-> "running", memo |-> {}])
  PROVE  /\ Saves' /\ run'.status = "running" /\ run'.memo = {}
         /\ file' = run' \/ file' = file
<1>1. PICK r : r = [status |-> "running", memo |-> {}]
  OBVIOUS
<1>2. r \in Runs /\ r.status = "running" /\ r.memo = {}
  BY <1>1 DEF Runs
<1>3. QED
  BY <1>1, <1>2, StoreType

LEMMA RestartType ==
  ASSUME Saves, Restart
  PROVE  /\ Saves' /\ run'.memo = file.memo /\ file'.memo = file.memo
         /\ run'.status = file'.status
         /\ file'.status = file.status
              \/ (file.status = "running" /\ file'.status = "abandoned")
<1>1. faults' \in 0 .. MaxFaults
  BY Bounds DEF Restart, Saves
<1>2. CASE run' = file /\ UNCHANGED file
  BY <1>1, <1>2 DEF Saves
<1>3. CASE file.status = "running" /\ run' = [file EXCEPT !.status = "abandoned"] /\ file' = run'
  BY <1>1, <1>3 DEF Saves, Runs
<1>4. QED
  BY <1>2, <1>3 DEF Restart

LEMMA TypeStep == ASSUME TypeOK, [Next]_vars PROVE TypeOK'
<1>0. Saves
  BY DEF TypeOK, Saves
<1>1. ASSUME NEW x \in Execs, RunStart(x) PROVE TypeOK'
  BY <1>0, <1>1, StartType, BeginChange DEF RunStart, TypeOK, Saves, Scopes
<1>2. ASSUME NEW x \in Execs, Resume(x) PROVE TypeOK'
  BY <1>2, BeginChange DEF Resume, Keep, TypeOK, Scopes
<1>3. ASSUME NEW x \in Execs, Stops(x) PROVE TypeOK'
  <2>1. PICK why \in {"whole", "aborted", "cancelled"} : Ends(x, Status(x), why)
    BY <1>3 DEF Stops
  <2>2. Saves'
    BY <1>0, <2>1, Closing DEF Ends, Keep, Saves
  <2>3. QED
    BY <2>1, <2>2, EndsChange DEF Ends, TypeOK, Saves
<1>4. ASSUME NEW x \in Execs, Round(x) PROVE TypeOK'
  <2>1. SameBut(x)
    BY <1>4, RoundChange
  <2>2. QED
    BY <1>4, <2>1 DEF Round, Keep, SameBut, TypeOK
<1>5. ASSUME NEW x \in Execs, NEW s \in Steps, StepEnds(x, s) PROVE TypeOK'
  <2>1. SameBut(x) /\ UNCHANGED <<flagged, registry>>
        /\ (Store([run EXCEPT !.memo = @ \cup {s}]) \/ Keep)
    BY <1>5, StepChange
  <2>2. Saves'
    BY <1>0, <2>1, MemoType DEF Keep, Saves
  <2>3. QED
    BY <2>1, <2>2 DEF SameBut, TypeOK, Saves
<1>6. ASSUME NEW x \in Execs, Recorded(x) PROVE TypeOK'
  <2>1. exec' \in [Execs -> Executions]
    BY <1>6 DEF Recorded, TypeOK, Executions
  <2>2. Saves'
    BY <1>0, <1>6, Closing DEF Recorded
  <2>3. QED
    BY <1>6, <2>1, <2>2 DEF Recorded, TypeOK, Saves
<1>7. CASE CancelTask \/ CancelRun
  BY <1>0, <1>7, Closing DEF CancelTask, CancelRun, TypeOK, Saves
<1>8. CASE Restart
  <2>1. exec' \in [Execs -> Executions]
    BY <1>8, IdleType DEF Restart
  <2>2. registry' \in [Scopes -> Entries]
    BY <1>8 DEF Restart, Scopes, Entries
  <2>3. QED
    BY <1>0, <1>8, <2>1, <2>2, RestartType DEF Restart, TypeOK, Saves
<1>9. CASE UNCHANGED vars
  BY <1>9 DEF vars, TypeOK
<1>10. QED
  BY <1>1, <1>2, <1>3, <1>4, <1>5, <1>6, <1>7, <1>8, <1>9 DEF Next, Engine

LEMMA TypeInit == ASSUME Init PROVE TypeOK
<1>1. NoRun \in Runs
  BY DEF NoRun, Runs
<1>2. registry \in [Scopes -> Entries]
  BY DEF Init, Scopes, Entries
<1>3. exec \in [Execs -> Executions]
  BY IdleType DEF Init
<1>4. faults \in 0 .. MaxFaults
  BY Bounds DEF Init
<1>5. QED
  BY <1>1, <1>2, <1>3, <1>4 DEF Init, TypeOK

\* Every reachable state of the run, its executions and the registry has its
\* types (TypeOK), for every plan.
THEOREM WorkflowTypes == Spec => []TypeOK
  BY TypeInit, TypeStep, PTL DEF Spec
-----------------------------------------------------------------------------
(* A stop is final and nothing is paid for twice.  What the file knows, the  *)
(* run in memory knows; nothing runs of a run that is abandoned or unknown.  *)

Stopped == {"cancelled", "abandoned"}

Known ==
  /\ file.memo \subseteq run.memo
  /\ run.status = "none" => file.status = "none"
  /\ file.status = "none" => file.memo = {}
  /\ file.status \in Stopped => run.status = file.status
  /\ run.status \in {"none", "abandoned"} => \A x \in Execs : exec[x].pc # "loop"

Quiet == \A x \in Execs : exec[x].pc # "loop" => \A s \in Steps : exec[x].step[s] # "driving"

\* What the store may become under the eyes of running executions.
Onward == /\ run.memo \subseteq run'.memo
          /\ file' = run' \/ file' = file
          /\ run'.status = run.status
               \/ (run.status = "running" /\ run'.status \in {"cancelled", "done"})

LEMMA OnwardKnown ==
  ASSUME TypeOK, Known, Onward, run.status # "none" \/ (run' = run /\ file' = file),
         \A x \in Execs : exec'[x].pc = "loop" => exec[x].pc = "loop"
  PROVE  Known'
<1>1. CASE file' = run'
  BY <1>1 DEF Known, Onward, Stopped
<1>2. CASE file' = file
  BY <1>2 DEF Known, Onward, Stopped
<1>3. QED
  BY <1>1, <1>2 DEF Onward

LEMMA ClosingOnward == ASSUME Saves, StoreCancel \/ StoreFinish \/ Keep PROVE Onward
<1>1. CASE StoreCancel \/ StoreFinish
  <2>1. CASE run.status = "running"
    BY <1>1, <2>1, Closing DEF Onward
  <2>2. CASE run.status # "running"
    BY <1>1, <2>2, Closing DEF Onward
  <2>3. QED
    BY <2>1, <2>2
<1>2. CASE Keep
  BY <1>2 DEF Keep, Onward
<1>3. QED
  BY <1>1, <1>2

LEMMA KnownStep == ASSUME TypeOK, Known, Quiet, [Next]_vars PROVE Known' /\ Quiet'
<1>0. Saves
  BY DEF TypeOK, Saves
<1>1. ASSUME NEW x \in Execs, RunStart(x) PROVE Known' /\ Quiet'
  <2>1. /\ run'.status = "running" /\ run'.memo = {} /\ run.status = "none"
        /\ file' = run' \/ file' = file
    BY <1>0, <1>1, StartType DEF RunStart
  <2>2. Known'
    <3>1. file.status = "none" /\ file.memo = {}
      BY <2>1 DEF Known
    <3>2. CASE file' = run'
      BY <2>1, <3>2 DEF Known, Stopped
    <3>3. CASE file' = file
      BY <2>1, <3>1, <3>3 DEF Known, Stopped
    <3>4. QED
      BY <2>1, <3>2, <3>3
  <2>3. Quiet'
    BY <1>1, BeginChange DEF RunStart, Quiet, Scopes
  <2>4. QED
    BY <2>2, <2>3
<1>2. ASSUME NEW x \in Execs, Resume(x) PROVE Known' /\ Quiet'
  <2>1. Known'
    BY <1>2 DEF Resume, Keep, Known
  <2>2. Quiet'
    BY <1>2, BeginChange DEF Resume, Quiet, Scopes
  <2>3. QED
    BY <2>1, <2>2
<1>3. ASSUME NEW x \in Execs, Stops(x) PROVE Known' /\ Quiet'
  <2>1. PICK why \in {"whole", "aborted", "cancelled"} : Ends(x, Status(x), why)
    BY <1>3 DEF Stops
  <2>2. exec[x].pc = "loop" /\ \A s \in Steps : exec[x].step[s] # "driving"
    BY <1>3 DEF Stops, Walks
  <2>3. Onward
    BY <1>0, <2>1, ClosingOnward DEF Ends
  <2>4. /\ \A y \in Execs \ {x} : exec'[y] = exec[y]
        /\ exec'[x].pc # "loop" /\ exec'[x].step = Closed(Status(x))
    BY <2>1, EndsChange
  <2>5. Known'
    BY <2>2, <2>3, <2>4, OnwardKnown DEF Known
  <2>6. \A s \in Steps : exec'[x].step[s] # "driving"
    BY <2>2, <2>4, StatusType DEF Closed
  <2>7. QED
    BY <2>4, <2>5, <2>6 DEF Quiet
<1>4. ASSUME NEW x \in Execs, Round(x) PROVE Known' /\ Quiet'
  <2>1. SameBut(x) /\ exec[x].pc = "loop"
    BY <1>4, RoundChange DEF Round, Walks
  <2>2. QED
    BY <1>4, <2>1 DEF Round, Keep, SameBut, Known, Quiet
<1>5. ASSUME NEW x \in Execs, NEW s \in Steps, StepEnds(x, s) PROVE Known' /\ Quiet'
  <2>1. SameBut(x) /\ exec[x].step[s] = "driving"
        /\ (Store([run EXCEPT !.memo = @ \cup {s}]) \/ Keep)
    BY <1>5, StepChange
  <2>2. Onward
    BY <1>0, <2>1, MemoType DEF Onward, Keep
  <2>3. exec[x].pc = "loop"
    BY <2>1 DEF Quiet
  <2>4. Known'
    BY <2>1, <2>2, <2>3, OnwardKnown DEF SameBut, Known
  <2>5. QED
    BY <2>1, <2>3, <2>4 DEF SameBut, Quiet
<1>6. ASSUME NEW x \in Execs, Recorded(x) PROVE Known' /\ Quiet'
  <2>1. Onward
    BY <1>0, <1>6, ClosingOnward DEF Recorded
  <2>2. /\ \A y \in Execs : exec'[y].pc = "loop" <=> exec[y].pc = "loop"
        /\ \A y \in Execs : exec'[y].step = exec[y].step
    BY <1>6 DEF Recorded, TypeOK, Executions
  <2>3. run.status = "none" => run' = run /\ file' = file
    BY <1>0, <1>6, Closing DEF Recorded
  <2>4. QED
    BY <2>1, <2>2, <2>3, OnwardKnown DEF Quiet
<1>7. ASSUME CancelTask \/ CancelRun PROVE Known' /\ Quiet'
  <2>1. Onward /\ exec' = exec /\ run.status # "none"
    BY <1>0, <1>7, ClosingOnward DEF CancelTask, CancelRun
  <2>2. QED
    BY <2>1, OnwardKnown DEF Quiet
<1>8. CASE Restart
  <2>1. \A x \in Execs : exec'[x].pc # "loop" /\ \A s \in Steps : exec'[x].step[s] # "driving"
    BY <1>8 DEF Restart, Idle
  <2>2. QED
    BY <1>0, <1>8, <2>1, RestartType DEF Known, Quiet, Stopped
<1>9. CASE UNCHANGED vars
  BY <1>9 DEF vars, Known, Quiet
<1>10. QED
  BY <1>1, <1>2, <1>3, <1>4, <1>5, <1>6, <1>7, <1>8, <1>9 DEF Next, Engine

LEMMA KnownInit == ASSUME Init PROVE Known /\ Quiet
  BY DEF Init, NoRun, Known, Quiet, Idle, Stopped

\* The steps that a step of the system drives: those of a round that the store
\* has no output of, and a second attempt.
LEMMA DrivesLemma ==
  ASSUME TypeOK, Known, Quiet, [Next]_vars, NEW x \in Execs, NEW s \in Steps, Drives(x, s)
  PROVE  /\ s \notin run.memo
         /\ run.status \in Stopped => exec[x].step[s] = "driving"
<1> SUFFICES ASSUME exec'[x] # exec[x]
             PROVE  /\ s \notin run.memo
                    /\ run.status \in Stopped => exec[x].step[s] = "driving"
  BY DEF Drives
<1>1. ASSUME NEW y \in Execs, RunStart(y) \/ Resume(y) PROVE FALSE
  BY <1>1, BeginChange DEF RunStart, Resume, Drives, Scopes
<1>2. ASSUME NEW y \in Execs, Stops(y) PROVE FALSE
  <2>1. PICK why \in {"whole", "aborted", "cancelled"} : Ends(y, Status(y), why)
    BY <1>2 DEF Stops
  <2>2. y = x /\ exec'[x].step = Closed(Status(x))
    BY <2>1, EndsChange
  <2>3. exec[x].step[s] # "driving"
    BY <1>2, <2>2 DEF Stops, Walks
  <2>4. QED
    BY <2>2, <2>3, StatusType DEF Closed, Drives
<1>3. ASSUME NEW y \in Execs, Round(y)
      PROVE  s \notin run.memo /\ run.status \notin Stopped
  <2> DEFINE st     == Status(x)
             pruned == {k \in Ready(st) : Pruned(st, k)}
  <2>1. y = x
    BY <1>3, RoundChange DEF SameBut
  <2>2. PICK batch \in SUBSET (Ready(st) \ pruned) :
          exec'[x].step = Rounded(x, st, pruned, batch)
    BY <1>3, <2>1, RoundChange
  <2>3. st[s] # "driving"
    BY <1>3, <2>1, StatusType DEF Round, Walks
  <2>4. Rounded(x, st, pruned, batch)[s] = "driving"
    BY <2>2 DEF Drives
  <2> HIDE DEF st, pruned
  <2>5. Fetched(s) = "driving"
    BY <2>3, <2>4 DEF Rounded
  <2>6. exec[x].pc = "loop" /\ ~should_cancel(x)
    BY <1>3, <2>1 DEF Round, Walks
  <2>7. run.status \notin Stopped
    BY <2>6 DEF should_cancel, Known, Stopped
  <2>8. QED
    BY <2>5, <2>7 DEF Fetched
<1>4. ASSUME NEW y \in Execs, NEW k \in Steps, StepEnds(y, k)
      PROVE  s \notin run.memo /\ exec[x].step[s] = "driving"
  <2>1. y = x
    BY <1>4, StepChange DEF SameBut
  <2>2. k = s
    <3>1. StepEnds(x, k)
      BY <1>4, <2>1
    <3>2. \A d \in Steps \ {k} : /\ exec'[x].step[d] = exec[x].step[d]
                               /\ exec'[x].left[d] = exec[x].left[d]
      BY <3>1, StepChange
    <3>3. QED
      BY <3>2 DEF Drives
  <2>3. QED
    BY <1>4, <2>1, <2>2, StepChange DEF Drives
<1>5. ASSUME NEW y \in Execs, Recorded(y) PROVE FALSE
  BY <1>5 DEF Recorded, TypeOK, Executions, Drives
<1>6. CASE CancelTask \/ CancelRun \/ UNCHANGED vars
  BY <1>6 DEF CancelTask, CancelRun, vars
<1>7. CASE Restart
  BY <1>7 DEF Restart, Idle, Drives
<1>8. QED
  BY <1>1, <1>2, <1>3, <1>4, <1>5, <1>6, <1>7 DEF Next, Engine

\* A run the file has as stopped or abandoned stays so, and of it only a step
\* that is under way may be tried again (StopIsFinal).
THEOREM StopsForGood == Spec => StopIsFinal
<1>1. Init => TypeOK /\ Known /\ Quiet
  BY TypeInit, KnownInit
<1>2. TypeOK /\ Known /\ Quiet /\ [Next]_vars => (TypeOK /\ Known /\ Quiet)'
  BY TypeStep, KnownStep
<1>3. TypeOK /\ Known /\ Quiet /\ [Next]_vars
        => [file.status \in {"cancelled", "abandoned"} =>
              /\ file'.status = file.status
              /\ \A x \in Execs, s \in Steps : Drives(x, s) => exec[x].step[s] = "driving"]_vars
  <2> SUFFICES ASSUME TypeOK, Known, Quiet, [Next]_vars, file.status \in Stopped
               PROVE  /\ file'.status = file.status
                      /\ \A x \in Execs, s \in Steps :
                            Drives(x, s) => exec[x].step[s] = "driving"
    BY DEF Stopped
  <2>1. run.status \in Stopped /\ run.status = file.status
    BY DEF Known
  <2>2. file'.status = file.status
    <3>0. Saves
      BY DEF TypeOK, Saves
    <3>1. ASSUME Onward PROVE file'.status = file.status
      BY <2>1, <3>1 DEF Onward, Stopped
    <3>2. ASSUME NEW x \in Execs, RunStart(x) \/ Resume(x) \/ Stops(x) \/ Round(x) \/ Recorded(x)
          PROVE  file'.status = file.status
      BY <2>1, <3>0, <3>1, <3>2, ClosingOnward
         DEF RunStart, Resume, Stops, Ends, Round, Recorded, Keep, Stopped
    <3>3. ASSUME NEW x \in Execs, NEW s \in Steps, StepEnds(x, s)
          PROVE  file'.status = file.status
      BY <2>1, <3>0, <3>3, StepChange, MemoType DEF Keep
    <3>4. CASE CancelTask \/ CancelRun
      BY <3>0, <3>1, <3>4, ClosingOnward DEF CancelTask, CancelRun
    <3>5. CASE Restart
      BY <3>0, <3>5, RestartType DEF Stopped
    <3>6. QED
      BY <3>2, <3>3, <3>4, <3>5 DEF Next, Engine, vars
  <2>3. QED
    BY <2>1, <2>2, DrivesLemma
<1>4. QED
  BY <1>1, <1>2, <1>3, PTL DEF Spec, StopIsFinal

\* A step whose output the file has is driven no more (PaidOnce), by no resume,
\* no second attempt and no second execution.
THEOREM PaidForOnce == Spec => PaidOnce
<1>1. Init => TypeOK /\ Known /\ Quiet
  BY TypeInit, KnownInit
<1>2. TypeOK /\ Known /\ Quiet /\ [Next]_vars => (TypeOK /\ Known /\ Quiet)'
  BY TypeStep, KnownStep
<1>3. TypeOK /\ Known /\ Quiet /\ [Next]_vars
        => [\A x \in Execs, s \in Steps : Drives(x, s) => s \notin file.memo]_vars
  BY DrivesLemma DEF Known
<1>4. QED
  BY <1>1, <1>2, <1>3, PTL DEF Spec, PaidOnce
-----------------------------------------------------------------------------
(* The registry counts the executions of each scope and keeps their flag.    *)

In(c) == {x \in Execs : exec[x].pc = "loop" /\ exec[x].scope = c}

Counted == \A c \in Scopes : registry[c].count = Cardinality(In(c))
Flagged == \A x \in Execs : exec[x].pc = "loop" => registry[exec[x].scope].flag = exec[x].flag
Reach   == Counted /\ Flagged

LEMMA InFinite ==
  ASSUME NEW c \in Scopes
  PROVE  IsFiniteSet(In(c)) /\ Cardinality(In(c)) \in Nat /\ (Cardinality(In(c)) = 0 <=> In(c) = {})
  BY WorkflowAssumption, FS_Subset, FS_CardinalityType, FS_EmptySet DEF In

LEMMA ReachKept ==
  ASSUME Reach, registry' = registry,
         \A x \in Execs : /\ exec'[x].pc = "loop" <=> exec[x].pc = "loop"
                          /\ exec'[x].scope = exec[x].scope /\ exec'[x].flag = exec[x].flag
  PROVE  Reach'
<1>1. \A c \in Scopes : In(c)' = In(c)
  BY DEF In
<1>2. QED
  BY <1>1 DEF Reach, Counted, Flagged

LEMMA ReachBegins ==
  ASSUME TypeOK, Reach, NEW x \in Execs, NEW c \in Scopes, exec[x].pc # "loop", Begin(x, c)
  PROVE  Reach'
<1>1. /\ \A y \in Execs \ {x} : exec'[y] = exec[y]
      /\ exec'[x].pc = "loop" /\ exec'[x].scope = c /\ exec'[x].flag = registry'[c].flag
      /\ registry' = Registered(x, c)
  BY BeginChange
<1>2. In(c)' = In(c) \cup {x} /\ x \notin In(c)
  BY <1>1 DEF In
<1>3. \A d \in Scopes \ {c} : In(d)' = In(d) /\ registry'[d] = registry[d]
  BY <1>1 DEF In, Registered, TypeOK
<1>4. Cardinality(In(c)') = Cardinality(In(c)) + 1
  BY <1>2, InFinite, FS_AddElement
<1>5. PICK e \in Entries : e = registry[c]
  BY DEF TypeOK
<1>6. /\ registry'[c].count = e.count + 1
      /\ e.count # 0 => registry'[c].flag = e.flag
  <2>1. registry'[c] = IF e.count = 0 THEN [flag |-> x, count |-> 1] ELSE [e EXCEPT !.count = @ + 1]
    BY <1>1, <1>5 DEF Registered, TypeOK
  <2>2. QED
    BY <2>1 DEF Entries
<1>7. Counted'
  BY <1>3, <1>4, <1>5, <1>6 DEF Reach, Counted
<1>8. ASSUME NEW y \in Execs, exec'[y].pc = "loop"
      PROVE  registry'[exec'[y].scope].flag = exec'[y].flag
  <2>1. CASE y = x
    BY <1>1, <2>1
  <2>2. CASE y # x
    <3>1. exec'[y] = exec[y] /\ exec[y].pc = "loop" /\ exec[y].scope \in Scopes
      BY <1>1, <1>8, <2>2 DEF TypeOK, Executions
    <3>2. CASE exec[y].scope # c
      BY <1>3, <3>1, <3>2 DEF Reach, Flagged
    <3>3. CASE exec[y].scope = c
      <4>1. In(c) # {}
        BY <3>1, <3>3 DEF In
      <4>2. e.count # 0
        BY <1>5, <4>1, InFinite DEF Reach, Counted
      <4>3. QED
        BY <1>5, <1>6, <3>1, <3>3, <4>2 DEF Reach, Flagged
    <3>4. QED
      BY <3>2, <3>3
  <2>3. QED
    BY <2>1, <2>2
<1>9. QED
  BY <1>7, <1>8 DEF Reach, Flagged

LEMMA ReachEnds ==
  ASSUME TypeOK, Reach, NEW x \in Execs, NEW why \in {"whole", "aborted", "cancelled"},
         exec[x].pc = "loop", Ends(x, Status(x), why)
  PROVE  Reach'
<1>1. /\ \A y \in Execs \ {x} : exec'[y] = exec[y]
      /\ exec'[x].pc # "loop" /\ registry' = Unregistered(x)
  BY EndsChange
<1>2. PICK c \in Scopes : c = exec[x].scope
  BY DEF TypeOK, Executions
<1>3. In(c)' = In(c) \ {x} /\ x \in In(c)
  BY <1>1, <1>2 DEF In
<1>4. \A d \in Scopes \ {c} : In(d)' = In(d) /\ registry'[d] = registry[d]
  BY <1>1, <1>2 DEF In, Unregistered, TypeOK
<1>5. Cardinality(In(c)') = Cardinality(In(c)) - 1
  BY <1>3, InFinite, FS_RemoveElement
<1>6. PICK e \in Entries : e = registry[c]
  BY DEF TypeOK
<1>7. e.count \in Nat \ {0} /\ e.count = Cardinality(In(c))
  BY <1>3, <1>6, InFinite DEF Reach, Counted, Entries
<1>8. /\ registry'[c].count = e.count - 1
      /\ e.count # 1 => registry'[c].flag = e.flag
  <2>1. registry'[c] = IF e.count <= 1 THEN [flag |-> NoOne, count |-> 0] ELSE [e EXCEPT !.count = @ - 1]
    BY <1>1, <1>2, <1>6 DEF Unregistered, TypeOK
  <2>2. QED
    BY <1>7, <2>1 DEF Entries
<1>9. Counted'
  BY <1>4, <1>5, <1>7, <1>8 DEF Reach, Counted
<1>10. ASSUME NEW y \in Execs, exec'[y].pc = "loop"
       PROVE  registry'[exec'[y].scope].flag = exec'[y].flag
  <2>1. y # x /\ exec'[y] = exec[y] /\ exec[y].pc = "loop" /\ exec[y].scope \in Scopes
    BY <1>1, <1>10 DEF TypeOK, Executions
  <2>2. CASE exec[y].scope # c
    BY <1>4, <2>1, <2>2 DEF Reach, Flagged
  <2>3. CASE exec[y].scope = c
    <3>1. y \in In(c) \ {x}
      BY <2>1, <2>3 DEF In
    <3>2. IsFiniteSet(In(c) \ {x}) /\ Cardinality(In(c) \ {x}) # 0
      BY <3>1, InFinite, FS_RemoveElement, FS_EmptySet
    <3>3. e.count # 1
      BY <1>3, <1>5, <1>7, <3>2
    <3>4. QED
      BY <1>6, <1>8, <2>1, <2>3, <3>3 DEF Reach, Flagged
  <2>4. QED
    BY <2>2, <2>3
<1>11. QED
  BY <1>9, <1>10 DEF Reach, Flagged

LEMMA ReachStep == ASSUME TypeOK, Reach, [Next]_vars PROVE Reach'
<1>1. ASSUME NEW x \in Execs, RunStart(x) \/ Resume(x) PROVE Reach'
  BY <1>1, ReachBegins DEF RunStart, Resume, Scopes
<1>2. ASSUME NEW x \in Execs, Stops(x) PROVE Reach'
  BY <1>2, ReachEnds DEF Stops, Walks
<1>3. ASSUME NEW x \in Execs, Round(x) PROVE Reach'
  <2>1. SameBut(x)
    BY <1>3, RoundChange
  <2>2. QED
    BY <1>3, <2>1, ReachKept DEF Round, SameBut
<1>4. ASSUME NEW x \in Execs, NEW s \in Steps, StepEnds(x, s) PROVE Reach'
  <2>1. SameBut(x) /\ registry' = registry
    BY <1>4, StepChange
  <2>2. QED
    BY <2>1, ReachKept DEF SameBut
<1>5. ASSUME NEW x \in Execs, Recorded(x) PROVE Reach'
  <2>1. \A y \in Execs : /\ exec'[y].pc = "loop" <=> exec[y].pc = "loop"
                         /\ exec'[y].scope = exec[y].scope /\ exec'[y].flag = exec[y].flag
    BY <1>5 DEF Recorded, TypeOK, Executions
  <2>2. QED
    BY <1>5, <2>1, ReachKept DEF Recorded
<1>6. CASE CancelTask \/ CancelRun \/ UNCHANGED vars
  BY <1>6, ReachKept DEF CancelTask, CancelRun, vars
<1>7. CASE Restart
  <2>1. /\ \A x \in Execs : exec'[x].pc = "idle"
        /\ \A c \in Scopes : registry'[c].count = 0
    BY <1>7 DEF Restart, Idle, Scopes
  <2>2. \A c \in Scopes : In(c)' = {}
    BY <2>1 DEF In
  <2>3. QED
    BY <2>1, <2>2, FS_EmptySet DEF Reach, Counted, Flagged
<1>8. QED
  BY <1>1, <1>2, <1>3, <1>4, <1>5, <1>6, <1>7 DEF Next, Engine

LEMMA ReachInit == ASSUME Init PROVE Reach
<1>1. /\ \A x \in Execs : exec[x].pc = "idle"
      /\ \A c \in Scopes : registry[c].count = 0
  BY DEF Init, Idle, Scopes
<1>2. \A c \in Scopes : In(c) = {}
  BY <1>1 DEF In
<1>3. QED
  BY <1>1, <1>2, FS_EmptySet DEF Reach, Counted, Flagged

\* A stop reaches every execution that is under way (Stoppable), for any number
\* of executions that share a flag in the RunningRunRegistry.
THEOREM StopReaches == Spec => []Stoppable
<1>1. Init => TypeOK /\ Reach
  BY TypeInit, ReachInit
<1>2. TypeOK /\ Reach /\ [Next]_vars => (TypeOK /\ Reach)'
  BY TypeStep, ReachStep
<1>3. TypeOK /\ Reach => Stoppable
  <2> SUFFICES ASSUME TypeOK, Reach, NEW x \in Execs, exec[x].pc = "loop"
               PROVE  /\ registry[exec[x].scope].count > 0
                      /\ registry[exec[x].scope].flag = exec[x].flag
    BY DEF Stoppable
  <2>1. exec[x].scope \in Scopes /\ In(exec[x].scope) # {}
    BY DEF In, TypeOK, Executions
  <2>2. registry[exec[x].scope].count > 0
    BY <2>1, InFinite DEF Reach, Counted
  <2>3. QED
    BY <2>2 DEF Reach, Flagged
<1>4. QED
  BY <1>1, <1>2, <1>3, PTL DEF Spec
-----------------------------------------------------------------------------
(* The branches that are skipped.  A step leaves "open" only when all that it *)
(* depends on is settled, and what is settled does not change any more.       *)

Judged(st, s) == /\ \A d \in DependsOn[s] : st[d] \in Settled
                 /\ st[s] = "skipped" <=> Pruned(st, s)

Walked(st) == \A s \in Steps : st[s] # "open" => Judged(st, s)

Branches(x) ==
  /\ exec[x].pc = "loop" => exec[x].end = "none" /\ Walked(exec[x].step)
  /\ exec[x].end = "whole" => \A s \in Steps : exec[x].step[s] = "skipped"
                                                <=> Pruned(exec[x].step, s)

\* What decides about a step is what the steps it depends on came to.
LEMMA PrunedByDeps ==
  ASSUME NEW st \in [Steps -> Results], NEW new \in [Steps -> Results], NEW s \in Steps,
         \A d \in DependsOn[s] : new[d] = st[d]
  PROVE  Pruned(new, s) <=> Pruned(st, s)
<1>1. /\ Inputs[s] \subseteq DependsOn[s]
      /\ When[s] # NoWhen => When[s].step \in DependsOn[s]
  BY WorkflowAssumption
<1>2. (\A d \in Inputs[s] : new[d] = "skipped") <=> (\A d \in Inputs[s] : st[d] = "skipped")
  BY <1>1
<1>3. When[s] # NoWhen => new[When[s].step] = st[When[s].step]
  BY <1>1
<1>4. QED
  BY <1>2, <1>3 DEF Pruned

\* A change that leaves what is settled alone, and judges what it takes up.
LEMMA WalkedKept ==
  ASSUME NEW st \in [Steps -> Results], NEW new \in [Steps -> Results], Walked(st),
         \A d \in Steps : st[d] \in Settled => new[d] = st[d],
         \A s \in Steps : st[s] # "open" => (new[s] = "skipped" <=> st[s] = "skipped"),
         \A s \in Steps : st[s] = "open" /\ new[s] # "open" =>
                            /\ \A d \in DependsOn[s] : st[d] \in Settled
                            /\ new[s] = "skipped" <=> Pruned(st, s)
  PROVE  Walked(new)
<1>1. SUFFICES ASSUME NEW s \in Steps, new[s] # "open" PROVE Judged(new, s)
  BY DEF Walked
<1>2. /\ \A d \in DependsOn[s] : st[d] \in Settled
      /\ new[s] = "skipped" <=> Pruned(st, s)
  BY <1>1 DEF Walked, Judged
<1>3. \A d \in DependsOn[s] : d \in Steps
  BY WorkflowAssumption
<1>4. \A d \in DependsOn[s] : new[d] = st[d]
  BY <1>2, <1>3
<1>5. QED
  BY <1>2, <1>4, PrunedByDeps DEF Judged

LEMMA StatusWalked ==
  ASSUME TypeOK, NEW x \in Execs, Walked(exec[x].step)
  PROVE  Walked(Status(x))
<1>1. exec[x].step \in [Steps -> Results] /\ Status(x) \in [Steps -> Results]
  BY StatusType DEF TypeOK, Executions
<1>2. \A d \in Steps : exec[x].step[d] \in Settled => Status(x)[d] = exec[x].step[d]
  BY DEF Status, Settled
<1>3. \A s \in Steps : /\ Status(x)[s] = "open" <=> exec[x].step[s] = "open"
                       /\ Status(x)[s] = "skipped" <=> exec[x].step[s] = "skipped"
  BY StatusType
<1>4. QED
  BY <1>1, <1>2, <1>3, WalkedKept

LEMMA RoundWalked ==
  ASSUME NEW x, NEW st \in [Steps -> Results], Walked(st), NEW pruned,
         pruned = {s \in Ready(st) : Pruned(st, s)},
         NEW batch \in SUBSET (Ready(st) \ pruned)
  PROVE  Walked(Rounded(x, st, pruned, batch))
<1>1. PICK new : new = Rounded(x, st, pruned, batch)
  OBVIOUS
<1>2. new \in [Steps -> Results]
  BY <1>1 DEF Rounded, Fetched, Results, Driven, Settled
<1>3. \A s \in pruned \cup batch : st[s] = "open" /\ \A d \in DependsOn[s] : st[d] \in Settled
  BY DEF Ready
<1>4. \A s \in Steps : s \notin pruned \cup batch => new[s] = st[s]
  BY <1>1 DEF Rounded
<1>5. \A s \in pruned : new[s] = "skipped" /\ Pruned(st, s)
  BY <1>1 DEF Rounded, Ready
<1>6. \A s \in batch : new[s] # "skipped" /\ ~ Pruned(st, s)
  BY <1>1 DEF Rounded, Fetched, Ready
<1>7. "open" \notin Settled
  BY DEF Settled
<1>8. Walked(new)
  BY <1>2, <1>3, <1>4, <1>5, <1>6, <1>7, WalkedKept
<1>9. QED
  BY <1>1, <1>8

LEMMA BranchStep ==
  ASSUME TypeOK, Quiet, \A x \in Execs : Branches(x), [Next]_vars
  PROVE  \A x \in Execs : Branches(x)'
<1> SUFFICES ASSUME NEW x \in Execs PROVE Branches(x)'
  OBVIOUS
<1>0. Branches(x) /\ exec[x].step \in [Steps -> Results]
  BY DEF TypeOK, Executions
<1>1. CASE exec'[x] = exec[x]
  BY <1>0, <1>1 DEF Branches
<1>2. ASSUME NEW y \in Execs, RunStart(y) \/ Resume(y) PROVE Branches(x)'
  <2>1. \/ exec'[x] = exec[x]
        \/ exec'[x].end = "none" /\ exec'[x].step = [s \in Steps |-> "open"]
    BY <1>2, BeginChange DEF RunStart, Resume, Scopes
  <2>2. QED
    BY <1>1, <2>1 DEF Branches, Walked
<1>3. ASSUME NEW y \in Execs, Stops(y) PROVE Branches(x)'
  <2>1. PICK why \in {"whole", "aborted", "cancelled"} :
          /\ Ends(y, Status(y), why)
          /\ why = "whole" => "open" \notin {Status(y)[s] : s \in Steps}
    BY <1>3 DEF Stops
  <2>2. CASE y # x
    BY <1>1, <2>1, <2>2, EndsChange
  <2>3. CASE y = x
    <3>1. exec'[x].pc # "loop" /\ exec'[x].end = why /\ exec'[x].step = Closed(Status(x))
      BY <2>1, <2>3, EndsChange
    <3>2. Walked(Status(x))
      BY <1>0, <1>3, <2>3, StatusWalked DEF Branches, Stops, Walks
    <3>3. why = "whole" => Closed(Status(x)) = Status(x)
      BY <2>1, <2>3, StatusType DEF Closed
    <3>4. why = "whole" => \A s \in Steps : Status(x)[s] # "open"
      BY <2>1, <2>3
    <3>5. QED
      BY <3>1, <3>2, <3>3, <3>4 DEF Branches, Walked, Judged
  <2>4. QED
    BY <2>2, <2>3
<1>4. ASSUME NEW y \in Execs, Round(y) PROVE Branches(x)'
  <2>1. SameBut(y) /\ exec[y].pc = "loop"
    BY <1>4, RoundChange DEF Round, Walks
  <2>2. CASE y # x
    BY <1>1, <2>1, <2>2 DEF SameBut
  <2>3. CASE y = x
    <3>1. PICK st : st = Status(x)
      OBVIOUS
    <3>2. PICK pruned : pruned = {s \in Ready(st) : Pruned(st, s)}
      OBVIOUS
    <3>3. PICK batch \in SUBSET (Ready(st) \ pruned) :
            exec'[x].step = Rounded(x, st, pruned, batch)
      BY <1>4, <2>3, <3>1, <3>2, RoundChange
    <3>4. st \in [Steps -> Results] /\ Walked(st)
      BY <1>0, <2>1, <2>3, <3>1, StatusType, StatusWalked DEF Branches
    <3>5. Walked(exec'[x].step)
      BY <3>2, <3>3, <3>4, RoundWalked DEF Rounded
    <3>6. exec'[x].end = "none"
      BY <1>0, <2>1, <2>3 DEF SameBut, Branches
    <3>7. QED
      BY <3>5, <3>6 DEF Branches
  <2>4. QED
    BY <2>2, <2>3
<1>5. ASSUME NEW y \in Execs, NEW s \in Steps, StepEnds(y, s) PROVE Branches(x)'
  <2>1. /\ SameBut(y) /\ exec[y].step[s] = "driving"
        /\ \A d \in Steps \ {s} : exec'[y].step[d] = exec[y].step[d]
        /\ exec'[y].step[s] \in {"driving"} \cup Driven
    BY <1>5, StepChange
  <2>2. CASE y # x
    BY <1>1, <2>1, <2>2 DEF SameBut
  <2>3. CASE y = x
    <3>1. exec[x].pc = "loop" /\ exec'[x].step \in [Steps -> Results]
      BY <2>1, <2>3 DEF Quiet, SameBut, Executions
    <3>2. "driving" \notin Settled \cup {"open", "skipped"}
          /\ exec'[x].step[s] \notin {"open", "skipped"}
      BY <2>1, <2>3 DEF Settled, Driven
    <3>3. Walked(exec[x].step) /\ exec'[x].end = "none"
      BY <1>0, <2>1, <2>3, <3>1 DEF Branches, SameBut
    <3>4. Walked(exec'[x].step)
      <4>1. \A d \in Steps : exec[x].step[d] \in Settled => exec'[x].step[d] = exec[x].step[d]
        BY <2>1, <2>3, <3>2
      <4>2. \A d \in Steps : /\ exec'[x].step[d] = "open" <=> exec[x].step[d] = "open"
                             /\ exec'[x].step[d] = "skipped" <=> exec[x].step[d] = "skipped"
        BY <2>1, <2>3, <3>2
      <4>3. QED
        BY <1>0, <3>1, <3>3, <4>1, <4>2, WalkedKept
    <3>5. QED
      BY <3>3, <3>4 DEF Branches
  <2>4. QED
    BY <2>2, <2>3
<1>6. ASSUME NEW y \in Execs, Recorded(y) PROVE Branches(x)'
  <2>1. /\ exec'[x].step = exec[x].step /\ exec'[x].end = exec[x].end
        /\ exec'[x].pc = "loop" => exec[x].pc = "loop"
    BY <1>6 DEF Recorded, TypeOK, Executions
  <2>2. QED
    BY <1>0, <2>1 DEF Branches
<1>7. CASE CancelTask \/ CancelRun \/ UNCHANGED vars
  BY <1>1, <1>7 DEF CancelTask, CancelRun, vars
<1>8. CASE Restart
  BY <1>8 DEF Restart, Idle, Branches
<1>9. QED
  BY <1>2, <1>3, <1>4, <1>5, <1>6, <1>7, <1>8 DEF Next, Engine

\* An execution that went through the plan has skipped exactly the branches
\* that its own results rule out (BranchesTaken), for every plan: whatever the
\* size of the batches, the retries and what the store replays.
THEOREM BranchesFollow == Spec => []BranchesTaken
<1>1. Init => TypeOK /\ Known /\ Quiet /\ \A x \in Execs : Branches(x)
  <2>1. Init => \A x \in Execs : exec[x].pc = "idle" /\ exec[x].end = "none"
    BY DEF Init, Idle
  <2>2. QED
    BY <2>1, TypeInit, KnownInit DEF Branches
<1>2. TypeOK /\ Known /\ Quiet /\ (\A x \in Execs : Branches(x)) /\ [Next]_vars
        => (TypeOK /\ Known /\ Quiet /\ (\A x \in Execs : Branches(x)))'
  BY TypeStep, KnownStep, BranchStep
<1>3. (\A x \in Execs : Branches(x)) => BranchesTaken
  BY DEF Branches, BranchesTaken
<1>4. QED
  BY <1>1, <1>2, <1>3, PTL DEF Spec
=============================================================================
