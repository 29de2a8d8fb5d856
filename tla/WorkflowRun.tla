---------------------------- MODULE WorkflowRun ----------------------------
(***************************************************************************)
(* One durable workflow run: the engine that walks a plan of steps         *)
(* (karvy/workflow.py), the store that keeps each output                   *)
(* (karvy/workflow_runs.py), what starts, resumes, stops and discards the  *)
(* run (console/workflow_engine.py, routes.py, routes_workflow.py), and    *)
(* the registry through which a stop reaches a step that is being driven   *)
(* (atoms/abort.py).  Several executions of the run can be under way: the  *)
(* first one, and every resume of a run whose status is "running".         *)
(***************************************************************************)
EXTENDS Integers, FiniteSets

CONSTANTS
  Steps,
  DependsOn, Inputs,  \* of each step; Inputs is what _data_deps returns
  When,               \* of each step: [step, status], or NoWhen
  OnFail,             \* of each step: "skip", "retry" or "abort"
  MaxRetries,         \* max_retries of the steps that retry
  MaxParallel,
  Execs,              \* bound: executions of the run that are under way at a time
  MaxFaults           \* bound: crashes and failed saves

NoWhen == [step |-> "none", status |-> "none"]
NoOne  == "-"

\* The engine refuses a plan with a cycle (_topo_ok).  A plan's inputs and
\* when refer to steps that the step depends on.
ASSUME WorkflowAssumption ==
  /\ IsFiniteSet(Steps) /\ IsFiniteSet(Execs) /\ NoOne \notin Execs
  /\ DependsOn \in [Steps -> SUBSET Steps] /\ Inputs \in [Steps -> SUBSET Steps]
  /\ \A s \in Steps : /\ Inputs[s] \subseteq DependsOn[s]
                      /\ When[s] # NoWhen => When[s].step \in DependsOn[s]
  /\ OnFail \in [Steps -> {"skip", "retry", "abort"}]
  /\ MaxRetries \in Nat /\ MaxParallel \in Nat \ {0} /\ MaxFaults \in Nat

VARIABLES
  run, file,   \* the run in memory and in workflow_runs.json
  flagged,     \* cancelled_tasks has the run's task
  exec,        \* the executions
  registry,    \* running_runs: flag and reference count of each scope
  faults

vars == <<run, file, flagged, exec, registry, faults>>

NoRun == [status |-> "none", memo |-> {}]

\* What the engine has on a step: not settled, being driven, how the drive
\* came out (and is not settled yet), settled.
Driven   == {"output", "nothing", "dead"}
Settled  == {"done", "failed", "skipped"}
\* scope: the key the flag is registered by, the task or, of a resume, the run.
Idle == [pc |-> "idle", scope |-> "run", step |-> [s \in Steps |-> "open"],
         left |-> [s \in Steps |-> 0], flag |-> NoOne, end |-> "none"]

Init ==
  /\ run = NoRun /\ file = NoRun
  /\ flagged = FALSE
  /\ exec = [x \in Execs |-> Idle]
  /\ registry = [c \in {"task", "run"} |-> [flag |-> NoOne, count |-> 0]]
  /\ faults = 0

-----------------------------------------------------------------------------
(* WorkflowRunStore and RunningRunRegistry                                 *)

\* An error of _save is swallowed.
Store(r) ==
  /\ run' = r
  /\ \/ file' = r /\ UNCHANGED faults
     \/ faults < MaxFaults /\ faults' = faults + 1 /\ UNCHANGED file

Keep == UNCHANGED <<run, file, faults>>

StoreCancel ==
  IF run.status = "running" THEN Store([run EXCEPT !.status = "cancelled"]) ELSE Keep
StoreFinish ==
  IF run.status = "running" THEN Store([run EXCEPT !.status = "done"]) ELSE Keep

Registered(x, c) ==
  LET e == registry[c] IN
  [registry EXCEPT ![c] =
     IF e.count = 0 THEN [flag |-> x, count |-> 1] ELSE [e EXCEPT !.count = @ + 1]]

\* Mutant: the first execution that ends takes the flag with it.
Popped(x) == [registry EXCEPT ![exec[x].scope] = [flag |-> NoOne, count |-> 0]]

Unregistered(x) ==
  LET e == registry[exec[x].scope] IN
  [registry EXCEPT ![exec[x].scope] =
     IF e.count <= 1 THEN [flag |-> NoOne, count |-> 0] ELSE [e EXCEPT !.count = @ - 1]]

-----------------------------------------------------------------------------
(* Starting                                                                *)
Begin(x, c) ==
  /\ registry' = Registered(x, c)
  /\ exec' = [exec EXCEPT ![x] =
       [Idle EXCEPT !.pc = "loop", !.scope = c, !.flag = registry'[c].flag,
                    !.left = [s \in Steps |-> IF OnFail[s] = "retry" THEN MaxRetries ELSE 0]]]

\* /workflow/run
RunStart(x) ==
  /\ run.status = "none" /\ exec[x].pc = "idle"
  /\ Store([status |-> "running", memo |-> {}])
  /\ Begin(x, "task")
  /\ UNCHANGED flagged

\* /workflow/resume
Resume(x) ==
  /\ exec[x].pc \in {"idle", "ended"}
  /\ run.status = "running"
  /\ Begin(x, "run")
  /\ Keep /\ UNCHANGED flagged

-----------------------------------------------------------------------------
(* run_workflow                                                            *)

\* The status map of execution x once the results of the batch are in it.
Status(x) ==
  [s \in Steps |-> CASE exec[x].step[s] = "output"            -> "done"
                     [] exec[x].step[s] \in {"nothing", "dead"} -> "failed"
                     [] OTHER                                  -> exec[x].step[s]]

Aborts(x) == \E s \in Steps : \/ exec[x].step[s] = "dead"
                              \/ exec[x].step[s] = "nothing" /\ OnFail[s] = "abort"

\* Mutant: only the flag of the task stops a run.
should_cancel_task(x) == exec[x].scope = "task" /\ flagged

should_cancel(x) == run.status = "cancelled" \/ (exec[x].scope = "task" /\ flagged)

\* Mutant: a step is ready as soon as one of its dependencies is settled.
ReadyEarly(st) ==
  {s \in Steps : /\ st[s] = "open"
                 /\ DependsOn[s] = {} \/ \E d \in DependsOn[s] : st[d] \in Settled}

Ready(st) == {s \in Steps : st[s] = "open" /\ \A d \in DependsOn[s] : st[d] \in Settled}

\* _eval_when and the cascade: the branch of s is not taken
Pruned(st, s) ==
  \/ Inputs[s] # {} /\ \A d \in Inputs[s] : st[d] = "skipped"
  \/ When[s] # NoWhen /\ st[When[s].step] # When[s].status

Batch(steps) == {b \in SUBSET steps : Cardinality(b) =
                   IF Cardinality(steps) < MaxParallel THEN Cardinality(steps) ELSE MaxParallel}

\* Mutant: every step of the batch is driven.
FetchedAnew(s) == "driving"

\* run_step looks for the output before it drives the role
Fetched(s) == IF s \in run.memo THEN "output" ELSE "driving"

\* The result is back at the caller: a resume finishes the run at once, the
\* route records it first, which takes a model call for the title.
Ends(x, st, why) ==
  /\ exec' = [exec EXCEPT ![x].pc   = IF exec[x].scope = "task" THEN "record" ELSE "ended",
                          ![x].step = [s \in Steps |-> IF st[s] = "open" THEN "skipped" ELSE st[s]],
                          ![x].left = Idle.left, ![x].flag = NoOne,
                          ![x].end  = why]
  /\ registry' = Unregistered(x)
  /\ IF exec[x].scope = "task" THEN Keep ELSE StoreFinish
  /\ UNCHANGED flagged

Walks(x) == exec[x].pc = "loop" /\ \A s \in Steps : exec[x].step[s] # "driving"

Stops(x) ==
  /\ Walks(x)
  /\ \/ Aborts(x) /\ Ends(x, Status(x), "aborted")
     \/ /\ ~ Aborts(x) /\ "open" \in {Status(x)[s] : s \in Steps} /\ should_cancel(x)
        /\ Ends(x, Status(x), "cancelled")
     \/ /\ ~ Aborts(x) /\ "open" \notin {Status(x)[s] : s \in Steps}
        /\ Ends(x, Status(x), "whole")

\* One round: branches are pruned and the next batch starts.
Round(x) ==
  LET st     == Status(x)
      pruned == {s \in Ready(st) : Pruned(st, s)}
  IN
  /\ Walks(x) /\ ~ Aborts(x) /\ ~ should_cancel(x) /\ Ready(st) # {}
  /\ \E batch \in Batch(Ready(st) \ pruned) :
       exec' = [exec EXCEPT ![x].step =
         [s \in Steps |-> IF s \in pruned THEN "skipped"
                          ELSE IF s \in batch THEN Fetched(s) ELSE st[s]]]
  /\ Keep /\ UNCHANGED <<flagged, registry>>

Result(x, s, r) == exec' = [exec EXCEPT ![x].step[s] = r]

\* The drive of a step has ended: with an output, which is stored; without
\* one, and it is tried again if it may be; with the infrastructure dead.
StepEnds(x, s) ==
  /\ exec[x].step[s] = "driving"
  /\ \/ Store([run EXCEPT !.memo = @ \cup {s}]) /\ Result(x, s, "output")
     \/ /\ exec[x].left[s] > 0
        /\ exec' = [exec EXCEPT ![x].left[s] = @ - 1, ![x].step[s] = Fetched(s)]
        /\ Keep
     \/ exec[x].left[s] = 0 /\ Result(x, s, "nothing") /\ Keep
     \/ Result(x, s, "dead") /\ Keep
  /\ UNCHANGED <<flagged, registry>>

\* The route has recorded the result.
Recorded(x) ==
  /\ exec[x].pc = "record"
  /\ exec' = [exec EXCEPT ![x].pc = "ended"]
  /\ StoreFinish
  /\ flagged' = FALSE
  /\ UNCHANGED registry

-----------------------------------------------------------------------------
(* Stopping, and what a restart does                                       *)

\* /workflow/cancel with a task id, and /task/cancel for a task that runs
CancelTask ==
  /\ run.status # "none"
  /\ StoreCancel
  /\ flagged' = TRUE
  /\ UNCHANGED <<exec, registry>>

\* /workflow/cancel with a run id, /workflow/discard
CancelRun ==
  /\ run.status # "none"
  /\ StoreCancel
  /\ UNCHANGED <<flagged, exec, registry>>

\* A run of more than six hours is abandoned at the start.
Restart ==
  /\ faults < MaxFaults
  /\ exec' = [x \in Execs |-> Idle]
  /\ registry' = [c \in {"task", "run"} |-> [flag |-> NoOne, count |-> 0]]
  /\ flagged' = FALSE
  /\ faults' = faults + 1
  /\ \/ run' = file /\ UNCHANGED file
     \/ /\ file.status = "running"
        /\ run' = [file EXCEPT !.status = "abandoned"] /\ file' = run'

Engine(x) == Stops(x) \/ Round(x) \/ \E s \in Steps : StepEnds(x, s)

Next ==
  \/ \E x \in Execs : RunStart(x) \/ Resume(x) \/ Engine(x) \/ Recorded(x)
  \/ CancelTask \/ CancelRun \/ Restart

Spec == Init /\ [][Next]_vars

-----------------------------------------------------------------------------
Results == {"open", "driving"} \cup Driven \cup Settled
Scopes  == {"task", "run"}
Runs    == [status : {"none", "running", "done", "cancelled", "abandoned"}, memo : SUBSET Steps]
Entries == [flag : Execs \cup {NoOne}, count : Nat]
Executions ==
  [pc : {"idle", "loop", "record", "ended"}, scope : Scopes, step : [Steps -> Results],
   left : [Steps -> 0 .. MaxRetries], flag : Execs \cup {NoOne},
   end : {"none", "whole", "aborted", "cancelled"}]

\* Every variable keeps its type.
TypeOK ==
  /\ run \in Runs /\ file \in Runs
  /\ flagged \in BOOLEAN
  /\ exec \in [Execs -> Executions]
  /\ registry \in [Scopes -> Entries]
  /\ faults \in 0 .. MaxFaults

Drives(x, s) == /\ exec'[x].step[s] = "driving"
                /\ exec[x].step[s] # "driving" \/ exec'[x].left[s] # exec[x].left[s]

\* A run that the file has as stopped or abandoned stays so, whatever is
\* resumed or restarted, and no execution of it starts another step; only a
\* step that was under way may be tried again.
StopIsFinal ==
  [][file.status \in {"cancelled", "abandoned"} =>
       /\ file'.status = file.status
       /\ \A x \in Execs, s \in Steps : Drives(x, s) => exec[x].step[s] = "driving"]_vars

\* A step whose output the file has is not paid for again, by no resume and no
\* second attempt.
PaidOnce ==
  [][\A x \in Execs, s \in Steps : Drives(x, s) => s \notin file.memo]_vars

\* A stop reaches the step that an execution is in: the registry knows the
\* flag that the execution carries, however many share it and have ended.
Stoppable ==
  \A x \in Execs : exec[x].pc = "loop" => /\ registry[exec[x].scope].count > 0
                                          /\ registry[exec[x].scope].flag = exec[x].flag

\* Whatever the order the batches came back in and whatever was replayed from
\* the store, an execution that went through the plan has skipped just the
\* branches that its own results rule out.
BranchesTaken ==
  \A x \in Execs : exec[x].end = "whole" =>
    \A s \in Steps : exec[x].step[s] = "skipped" <=> Pruned(exec[x].step, s)
=============================================================================
