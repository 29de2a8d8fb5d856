------------------------- MODULE PursuitTick_proofs -------------------------
(***************************************************************************)
(* Proofs about PursuitTick, for any goals, threads, floors, decisions and *)
(* faults: the file tells each goal's status (FileTellsStatus), a goal in  *)
(* revision has a card (RevisedHasCard), and model runs are bounded        *)
(* (BudgetHolds).                                                          *)
(***************************************************************************)
EXTENDS PursuitTick, TLAPS

Limit == MaxAdvances * MaxFailures

\* Products are kept out of the arithmetic of the leaves below.
LEMMA Products ==
  ASSUME NEW a \in Nat, NEW b \in Nat, NEW c \in Nat
  PROVE  /\ a * c \in Nat /\ (a + 1) * c = a * c + c
         /\ a >= 1 /\ c >= 1 => a * c >= 1
         /\ a < b => a * c + c <= b * c
         /\ a <= b => a * c <= b * c
<1>1. a * c \in Nat /\ (a + 1) * c = a * c + c
  OBVIOUS
<1>2. ASSUME a >= 1, c >= 1 PROVE a * c >= 1
  BY <1>2
<1>3. ASSUME a < b PROVE a * c + c <= b * c
  <2>1. b * c = (b - a - 1) * c + a * c + c
    BY <1>3
  <2>2. ASSUME NEW d \in Nat, NEW e \in Nat PROVE d * e >= 0
    BY <2>2
  <2>3. (b - a - 1) * c >= 0
    BY <1>3, <2>2
  <2>4. (b - a - 1) * c \in Int /\ a * c \in Int /\ b * c \in Int
    OBVIOUS
  <2> QED  BY <2>1, <2>3, <2>4
<1>4. ASSUME a <= b PROVE a * c <= b * c
  <2>1. CASE a < b
    <3>1. b * c \in Nat
      OBVIOUS
    <3> QED  BY <1>1, <1>3, <2>1, <3>1
  <2>2. CASE a = b
    BY <1>1, <2>2
  <2> QED  BY <1>4, <2>1, <2>2
<1> QED  BY <1>1, <1>2, <1>3, <1>4

LEMMA Numbers ==
  /\ MaxAdvances \in Nat \ {0} /\ MaxFailures \in Nat \ {0}
  /\ MaxHuman \in Nat /\ MaxFaults \in Nat
  /\ Limit \in Nat /\ Limit >= 1
  /\ Budget = Limit * (1 + MaxFaults) + MaxFaults /\ Budget \in Nat
<1>1. ASSUME NEW a \in Nat \ {0}, NEW b \in Nat \ {0} PROVE a * b \in Nat /\ a * b >= 1
  BY <1>1
<1>2. Limit \in Nat /\ Limit >= 1 /\ MaxFaults \in Nat
  BY <1>1, PursuitAssumption DEF Limit
<1>3. ASSUME NEW a \in Nat, NEW b \in Nat PROVE a * (1 + b) \in Nat
  OBVIOUS
<1>4. Limit * (1 + MaxFaults) \in Nat
  BY <1>2, <1>3
<1>5. Budget = Limit * (1 + MaxFaults) + MaxFaults
  BY DEF Budget, Limit
<1>6. Budget \in Nat
  BY <1>2, <1>4, <1>5
<1> QED  BY <1>2, <1>5, <1>6, PursuitAssumption

-----------------------------------------------------------------------------
(* What the operators on records keep.                                     *)

LEMMA RecordTypes ==
  ASSUME NEW r \in Records
  PROVE  /\ Failed(r) \in Records /\ Advanced(r) \in Records
         /\ Suspended(r) \in Records /\ Completed(r) \in Records
         /\ Resumed(r) \in Records /\ Dropped(r) \in Records
<1>1. ASSUME NEW n \in Nat, NEW k \in 0 .. n PROVE Up(k, n) \in 0 .. n
  BY DEF Up
<1>2. Failed(r) \in Records
  <2>1. Up(r.failures, MaxFailures) \in 0 .. MaxFailures
    BY <1>1, Numbers DEF Records
  <2> QED  BY <2>1 DEF Failed, Records
<1>3. Advanced(r) \in Records
  <2>1. Up(r.advances, MaxAdvances) \in 0 .. MaxAdvances
    BY <1>1, Numbers DEF Records
  <2> QED  BY <2>1 DEF Advanced, Records
<1>4. Suspended(r) \in Records /\ Completed(r) \in Records /\ Dropped(r) \in Records
  BY DEF Suspended, Completed, Dropped, Records, Live, Final
<1>5. Resumed(r) \in Records
  <2>1. 0 \in 0 .. MaxAdvances /\ 0 \in 0 .. MaxFailures
    BY Numbers
  <2> QED  BY <2>1 DEF Resumed, Records, Live, Final
<1> QED  BY <1>2, <1>3, <1>4, <1>5

LEMMA NoRecordType == NoRecord \in Records
  BY Numbers DEF NoRecord, Records

LEMMA NoGoalsType == NoGoals \in Tables
  BY NoRecordType DEF NoGoals, Tables

LEMMA ReconciledType ==
  ASSUME NEW r \in Records, NEW news \in News
  PROVE  /\ Reconciled(r, news) \in Records
         /\ Reconciled(r, news).status = r.status \/ Reconciled(r, news).status \in Final
         /\ Reconciled(r, news).suspended = r.suspended
         /\ Reconciled(r, news).advances = r.advances
         /\ Reconciled(r, news).failures = r.failures
<1> DEFINE q == Reconciled(r, news)
<1>1. CASE r.status = "absent" \/ news = "none"
  <2>1. q = r
    BY <1>1 DEF Reconciled, Final, Live
  <2> QED  BY <2>1
<1>2. CASE r.status # "absent" /\ news = "ours"
  <2>1. q = [r EXCEPT !.moved = FALSE]
    BY <1>2 DEF Reconciled, Final, Live
  <2> QED  BY <2>1 DEF Records
<1>3. CASE r.status # "absent" /\ news = "theirs"
  <2>1. q = [r EXCEPT !.moved = TRUE]
    BY <1>3 DEF Reconciled, Final, Live
  <2> QED  BY <2>1 DEF Records
<1>4. CASE r.status \in Final /\ news \in Final
  <2>1. q = r
    BY <1>4 DEF Reconciled, Final, Live
  <2> QED  BY <2>1
<1>5. CASE r.status \in Live /\ news \in Final
  <2>1. q = [r EXCEPT !.status = news, !.moved = FALSE]
    BY <1>5 DEF Reconciled, Final, Live
  <2> QED  BY <1>5, <2>1 DEF Records
<1>6. r.status \in Live \cup Final \cup {"absent"}
  BY DEF Records
<1> QED  BY <1>1, <1>2, <1>3, <1>4, <1>5, <1>6 DEF News

LEMMA OutcomeTypes ==
  ASSUME NEW r \in Records PROVE Outcomes(r) \subseteq Records
<1>1. [r EXCEPT !.failures = 0] \in Records
  <2>1. 0 \in 0 .. MaxFailures
    BY Numbers
  <2> QED  BY <2>1 DEF Records
<1> QED  BY <1>1, RecordTypes DEF Outcomes

-----------------------------------------------------------------------------
(* Types.                                                                  *)

Writers == Threads \cup {Loop}

LEMMA BegunType ==
  ASSUME TypeOK, NEW w \in Writers, NEW S \in SUBSET Pursuits, NEW b \in Tables
  PROVE  Begun(file, w, S, b) \in Files
<1>1. [by |-> w, of |-> S, book |-> b] \in Dumps
  BY DEF Dumps, Writers
<1>2. file \in Files
  BY DEF TypeOK
<1> QED  BY <1>1, <1>2 DEF Begun, Files

LEMMA EndedType ==
  ASSUME TypeOK, NEW d \in file.dumps, NEW f \in Ended(file, d, NoGoals)
  PROVE  /\ f \in Files /\ f.dumps = file.dumps \ {d} /\ ~ f.clean /\ f.sound = file.clean
         /\ file.clean => f.book = d.book
<1>1. PICK b \in Landed(file, d, NoGoals) :
        f = [book |-> b, dumps |-> file.dumps \ {d}, clean |-> FALSE, sound |-> file.clean]
  BY DEF Ended
<1>2. /\ file.book \in Tables /\ file.clean \in BOOLEAN /\ file.dumps \subseteq Dumps
      /\ \A o \in file.dumps : o.book \in Tables
  BY DEF TypeOK, Files, Dumps
<1>3. b \in Tables
  BY <1>1, <1>2, NoGoalsType DEF Landed
<1>4. f \in Files
  BY <1>1, <1>2, <1>3 DEF Files
<1>5. file.clean => b = d.book
  BY <1>1 DEF Landed
<1> QED  BY <1>1, <1>4, <1>5

LEMMA PutTypes ==
  ASSUME TypeOK, NEW w \in Writers, NEW p \in Pursuits, NEW r \in Records, PutBy(w, p, r)
  PROVE  /\ rec' \in Tables /\ file' \in Files /\ rec'[p] = r
         /\ \A q \in Pursuits : q # p => rec'[q] = rec[q]
<1>1. /\ rec' \in Tables /\ rec'[p] = r
      /\ \A q \in Pursuits : q # p => rec'[q] = rec[q]
  BY DEF PutBy, TypeOK, Tables
<1> QED  BY <1>1, BegunType DEF PutBy

LEMMA LoopPuts ==
  ASSUME TypeOK, NEW p \in Pursuits, NEW r \in Records, Put(p, r)
  PROVE  /\ rec' \in Tables /\ file' \in Files /\ rec'[p] = r
         /\ \A q \in Pursuits : q # p => rec'[q] = rec[q]
  BY PutTypes DEF Put, Writers

LEMMA SettleTypes ==
  ASSUME TypeOK, NEW p \in Pursuits, NEW r \in Records, Settle(p, r)
  PROVE  rec' \in Tables /\ file' \in Files /\ at' \in Labels
<1>1. CASE AtFloor(r)
  <2>1. Suspended(r) \in Records /\ Put(p, Suspended(r)) /\ at' = "card"
    BY <1>1, RecordTypes DEF Settle
  <2> QED  BY <2>1, LoopPuts DEF Labels
<1>2. CASE ~ AtFloor(r)
  <2>1. Put(p, r) /\ at' = "loop"
    BY <1>2 DEF Settle
  <2> QED  BY <2>1, LoopPuts DEF Labels
<1> QED  BY <1>1, <1>2

LEMMA DriveTypes ==
  ASSUME TypeOK, NEW p \in Pursuits, Drive(p)
  PROVE  /\ rec' \in Tables /\ file' \in Files /\ at' \in Labels
         /\ spent' \in [Pursuits -> 0 .. Budget + 1] /\ due' \subseteq Pursuits
<1>1. rec[p] \in Records
  BY DEF TypeOK, Tables
<1>2. Suspended(rec[p]) \in Records
  BY <1>1, RecordTypes
<1>3. CASE Put(p, Suspended(rec[p])) /\ at' = "card" /\ UNCHANGED <<due, spent>>
  BY <1>2, <1>3, LoopPuts DEF Labels, TypeOK
<1>4. CASE /\ Put(p, rec[p]) /\ Stamp(p) /\ at' = "pursue"
           /\ spent' = [spent EXCEPT ![p] = Up(@, Budget + 1)]
  <2>1. Up(spent[p], Budget + 1) \in 0 .. Budget + 1
    BY Numbers DEF Up, TypeOK
  <2>2. spent' \in [Pursuits -> 0 .. Budget + 1]
    BY <1>4, <2>1 DEF TypeOK
  <2> QED  BY <1>1, <1>4, <2>2, LoopPuts DEF Labels, Stamp, TypeOK
<1> QED  BY <1>3, <1>4 DEF Drive

LEMMA CountsTypes ==
  ASSUME TypeOK, Counts
  PROVE  human' \in 0 .. MaxHuman /\ faults' \in 0 .. MaxFaults /\ stale' \in 0 .. faults'
  BY Numbers DEF Counts, TypeOK

LEMMA DecidesTypes ==
  ASSUME TypeOK, NEW t \in Threads, NEW p \in Pursuits, NEW r \in Records, Decides(t, p, r),
         due' \subseteq Pursuits
  PROVE  TypeOK'
<1>1. 0 \in 0 .. Budget + 1
  BY Numbers
<1>2. spent' \in [Pursuits -> 0 .. Budget + 1]
  BY <1>1 DEF Decides, TypeOK
<1>3. rec' \in Tables /\ file' \in Files
  BY PutTypes DEF Decides, Writers
<1> QED  BY <1>2, <1>3, CountsTypes DEF Decides, TypeOK, tick, cards

LEMMA UserTypes ==
  ASSUME TypeOK, NEW t \in Threads, NEW p \in Pursuits, UserStep(t, p) PROVE TypeOK'
<1>1. rec[p] \in Records /\ NoRecord \in Records
  BY NoRecordType DEF TypeOK, Tables
<1>2. /\ Resumed(rec[p]) \in Records /\ Dropped(rec[p]) \in Records
      /\ [rec[p] EXCEPT !.status = "committed", !.suspended = FALSE] \in Records
  BY <1>1, RecordTypes DEF Records, Live
<1>3. due \cup {p} \subseteq Pursuits /\ due \subseteq Pursuits
  BY DEF TypeOK
<1>4. CASE Create(t, p)
  <2>1. PICK c \in BOOLEAN : PutBy(t, p, [NoRecord EXCEPT !.status = "active", !.cheap = c])
    BY <1>4 DEF Create
  <2>2. [NoRecord EXCEPT !.status = "active", !.cheap = c] \in Records
    BY <1>1 DEF Records, Live
  <2>3. rec' \in Tables /\ file' \in Files
    BY <2>1, <2>2, PutTypes DEF Writers
  <2> QED  BY <1>3, <1>4, <2>3 DEF Create, TypeOK, tick, count, cards
<1>5. CASE CommitAccepted(t, p)
  BY <1>2, <1>3, <1>5, DecidesTypes DEF CommitAccepted
<1>6. CASE CommitRejected(t, p)
  BY <1>1, <1>3, <1>6, DecidesTypes DEF CommitRejected
<1>7. CASE Resume(t, p)
  BY <1>2, <1>3, <1>7, DecidesTypes DEF Resume
<1>8. CASE Drop(t, p)
  BY <1>2, <1>3, <1>8, DecidesTypes DEF Drop
<1>9. CASE CardTaken(t, p)
  <2>1. PICK drop \in BOOLEAN : hands' = hands \cup {[by |-> t, on |-> p, drop |-> drop]}
    BY <1>9 DEF CardTaken
  <2>2. hands' \subseteq Hands /\ revise' \subseteq Pursuits
    BY <1>9, <2>1 DEF CardTaken, TypeOK, Hands
  <2> QED  BY <1>9, <2>2, CountsTypes DEF CardTaken, TypeOK, store, tick
<1>10. CASE CardHandled(t, p)
  <2>1. PICK h \in hands :
          /\ hands' = hands \ {h}
          /\ \/ rec[p].status \notin Live /\ UNCHANGED <<store, due, spent>>
             \/ /\ PutBy(t, p, IF h.drop THEN Dropped(rec[p]) ELSE Resumed(rec[p]))
                /\ due' = IF h.drop THEN due ELSE due \cup {p}
                /\ spent' = [spent EXCEPT ![p] = 0]
          /\ UNCHANGED <<tick, count, revise, lost>>
    BY <1>10 DEF CardHandled
  <2>2. CASE UNCHANGED <<store, due, spent>>
    BY <2>1, <2>2 DEF TypeOK, store, tick, count
  <2>3. CASE /\ PutBy(t, p, IF h.drop THEN Dropped(rec[p]) ELSE Resumed(rec[p]))
             /\ due' = IF h.drop THEN due ELSE due \cup {p}
             /\ spent' = [spent EXCEPT ![p] = 0]
    <3>1. (IF h.drop THEN Dropped(rec[p]) ELSE Resumed(rec[p])) \in Records
      BY <1>2
    <3>2. rec' \in Tables /\ file' \in Files
      BY <2>3, <3>1, PutTypes DEF Writers
    <3>3. 0 \in 0 .. Budget + 1
      BY Numbers
    <3>4. spent' \in [Pursuits -> 0 .. Budget + 1] /\ due' \subseteq Pursuits
      BY <1>3, <2>3, <3>3 DEF TypeOK
    <3> QED  BY <2>1, <3>2, <3>4 DEF TypeOK, tick, count
  <2> QED  BY <2>1, <2>2, <2>3
<1> QED  BY <1>4, <1>5, <1>6, <1>7, <1>8, <1>9, <1>10 DEF UserStep

LEMMA ReconcileTypes ==
  ASSUME TypeOK, Reconcile
  PROVE  /\ rec' \in Tables /\ file' \in Files
         /\ human' \in 0 .. MaxHuman /\ faults' \in 0 .. MaxFaults /\ stale' \in 0 .. faults'
         /\ UNCHANGED <<faults, stale>>
<1>1. PICK news \in [Pursuits -> News] :
        /\ rec' = [p \in Pursuits |-> Reconciled(rec[p], news[p])]
        /\ \/ rec' = rec /\ UNCHANGED <<file, count>>
           \/ rec' # rec /\ Counts /\ file' = Begun(file, Loop, Pursuits, rec')
  BY DEF Reconcile
<1>2. \A p \in Pursuits : rec[p] \in Records /\ news[p] \in News
  BY DEF TypeOK, Tables
<1>3. rec' \in Tables
  BY <1>1, <1>2, ReconciledType DEF Tables
<1>4. CASE rec' = rec /\ UNCHANGED <<file, count>>
  BY <1>3, <1>4 DEF TypeOK, count
<1>5. CASE Counts /\ file' = Begun(file, Loop, Pursuits, rec')
  <2>1. file' \in Files
    BY <1>3, <1>5, BegunType DEF Writers
  <2> QED  BY <1>3, <1>5, <2>1, CountsTypes DEF Counts
<1> QED  BY <1>1, <1>4, <1>5

LEMMA VisitTypes ==
  ASSUME TypeOK, NEW p \in Pursuits, Visit(p) PROVE TypeOK'
<1> DEFINE Stored == /\ rec' \in Tables /\ file' \in Files /\ at' \in Labels
                     /\ spent' \in [Pursuits -> 0 .. Budget + 1] /\ due' \subseteq Pursuits
<1> SUFFICES Stored
  BY DEF Visit, TypeOK, count, cards
<1>1. rec[p] \in Records
  BY DEF TypeOK, Tables
<1>2. Failed(rec[p]) \in Records /\ Completed(rec[p]) \in Records
  BY <1>1, RecordTypes
<1>3. CASE PassBy(p)
  BY <1>3 DEF PassBy, TypeOK, store, Labels
<1>4. CASE VisitCheap(p)
  <2>1. CASE Put(p, Completed(rec[p])) /\ at' = "loop" /\ UNCHANGED <<due, spent>>
    BY <1>2, <2>1, LoopPuts DEF TypeOK, Labels
  <2>2. CASE Settle(p, Failed(rec[p])) /\ Stamp(p) /\ UNCHANGED spent
    BY <1>2, <2>2, SettleTypes DEF TypeOK, Stamp
  <2>3. CASE Drive(p)
    BY <2>3, DriveTypes
  <2> QED  BY <1>3, <1>4, <2>1, <2>2, <2>3 DEF VisitCheap
<1>5. CASE VisitCostly(p)
  <2>1. CASE Stamp(p) /\ at' = "recheck" /\ UNCHANGED <<store, spent>>
    BY <2>1 DEF TypeOK, Labels, Stamp, store
  <2>2. CASE at' = "gate" /\ UNCHANGED <<store, due, spent>>
    BY <2>2 DEF TypeOK, Labels, store
  <2> QED  BY <1>3, <1>5, <2>1, <2>2 DEF VisitCostly
<1> QED  BY <1>3, <1>4, <1>5 DEF Visit

LEMMA GateTypes ==
  ASSUME TypeOK, Recheck \/ Gate \/ Verify PROVE TypeOK'
<1>1. rec[on] \in Records /\ on \in Pursuits
  BY DEF TypeOK, Tables
<1>2. Completed(rec[on]) \in Records /\ Failed(rec[on]) \in Records
  BY <1>1, RecordTypes
<1>3. /\ rec' \in Tables /\ file' \in Files /\ at' \in Labels
      /\ spent' \in [Pursuits -> 0 .. Budget + 1] /\ due' \subseteq Pursuits
  <2>1. CASE Recheck
    BY <1>1, <1>2, <2>1, LoopPuts DEF Recheck, NextGoal, Await, TypeOK, Labels
  <2>2. CASE Gate
    <3>1. CASE Put(on, Completed(rec[on])) /\ at' = "loop" /\ UNCHANGED <<due, spent>>
      BY <1>1, <1>2, <3>1, LoopPuts DEF TypeOK, Labels
    <3>2. CASE Settle(on, Failed(rec[on])) /\ Stamp(on) /\ UNCHANGED spent
      BY <1>1, <1>2, <3>2, SettleTypes DEF TypeOK, Stamp
    <3>3. CASE Drive(on)
      BY <1>1, <3>3, DriveTypes
    <3> QED  BY <2>2, <3>1, <3>2, <3>3 DEF Gate
  <2>3. CASE Verify
    <3>1. CASE Put(on, Completed(rec[on])) /\ at' = "loop"
      BY <1>1, <1>2, <2>3, <3>1, LoopPuts DEF TypeOK, Labels, Verify
    <3>2. CASE Settle(on, rec[on])
      BY <1>1, <2>3, <3>2, SettleTypes DEF TypeOK, Verify
    <3> QED  BY <2>3, <3>1, <3>2 DEF Verify
  <2> QED  BY <2>1, <2>2, <2>3
<1>4. UNCHANGED <<todo, on, count, cards>>
  BY DEF Recheck, Gate, Verify, NextGoal, Await
<1> QED  BY <1>3, <1>4 DEF TypeOK, count, cards

LEMMA PursueTypes ==
  ASSUME TypeOK, PursueStep PROVE TypeOK'
<1>1. rec[on] \in Records /\ on \in Pursuits
  BY DEF TypeOK, Tables
<1>2. Failed(rec[on]) \in Records /\ Advanced(rec[on]) \in Records
  BY <1>1, RecordTypes
<1>3. CASE PursueNothing
  <2>1. faults' \in 0 .. MaxFaults /\ stale' \in 0 .. faults'
    BY <1>3, Numbers DEF PursueNothing, TypeOK
  <2> QED  BY <1>1, <1>3, <2>1, SettleTypes DEF PursueNothing, TypeOK, cards
<1>4. CASE PursueRaised
  BY <1>1, <1>2, <1>4, SettleTypes DEF PursueRaised, TypeOK, count, cards
<1>5. CASE PursueInfeasible
  <2>1. [Advanced(rec[on]) EXCEPT !.suspended = TRUE] \in Records
    BY <1>2 DEF Records
  <2> QED  BY <1>1, <1>5, <2>1, LoopPuts DEF PursueInfeasible, Await, TypeOK, count, cards, Labels
<1>6. CASE PursueEnded
  <2>1. PICK r \in Outcomes(Advanced(rec[on])) :
          \/ r.cheap /\ Put(on, Completed(r)) /\ at' = "loop"
          \/ r.cheap /\ Settle(on, r)
          \/ ~ r.cheap /\ rec' = [rec EXCEPT ![on] = r] /\ at' = "verify" /\ UNCHANGED file
    BY <1>6 DEF PursueEnded
  <2>2. r \in Records
    BY <1>2, OutcomeTypes
  <2>3. Completed(r) \in Records
    BY <2>2, RecordTypes
  <2>4. CASE Put(on, Completed(r)) /\ at' = "loop"
    BY <1>1, <1>6, <2>3, <2>4, LoopPuts DEF PursueEnded, TypeOK, count, cards, Labels
  <2>5. CASE Settle(on, r)
    BY <1>1, <1>6, <2>2, <2>5, SettleTypes DEF PursueEnded, TypeOK, count, cards
  <2>6. CASE rec' = [rec EXCEPT ![on] = r] /\ at' = "verify" /\ UNCHANGED file
    BY <1>1, <1>6, <2>2, <2>6 DEF PursueEnded, TypeOK, count, cards, Labels, Tables
  <2> QED  BY <2>1, <2>4, <2>5, <2>6
<1> QED  BY <1>3, <1>4, <1>5, <1>6 DEF PursueStep

LEMMA SavedTypes ==
  ASSUME TypeOK, NEW w, Saved(w) PROVE TypeOK'
<1>1. file' \in Files
  BY EndedType DEF Saved
<1> QED  BY <1>1 DEF Saved, TypeOK, tick, count, cards

LEMMA CrashTypes ==
  ASSUME TypeOK, Crash PROVE TypeOK'
<1>1. file.book \in Tables /\ file' \in Files
  BY DEF Crash, NewFile, TypeOK, Files, Dumps
<1>2. faults' \in 0 .. MaxFaults /\ stale' \in 0 .. faults'
  BY Numbers DEF Crash, TypeOK
<1>3. {h.on : h \in hands} \subseteq Pursuits
  BY DEF TypeOK, Hands
<1>4. revise' \subseteq Pursuits /\ lost' \subseteq Pursuits /\ hands' \subseteq Hands
  BY <1>3 DEF Crash, TypeOK, Uncertain
<1> QED  BY <1>1, <1>2, <1>4 DEF Crash, TypeOK, Labels

LEMMA TypeStep == TypeOK /\ [Next]_vars => TypeOK'
<1> SUFFICES ASSUME TypeOK, [Next]_vars PROVE TypeOK'
  OBVIOUS
<1>1. CASE TickStart \/ TickEnd
  <2>1. /\ rec' \in Tables /\ file' \in Files /\ human' \in 0 .. MaxHuman
        /\ faults' \in 0 .. MaxFaults /\ stale' \in 0 .. faults'
    BY <1>1, ReconcileTypes DEF TickStart, TickEnd
  <2>2. todo' \subseteq Pursuits /\ at' \in Labels /\ UNCHANGED <<on, due, cards, spent>>
    BY <1>1 DEF TickStart, TickEnd, TypeOK, Labels
  <2> QED  BY <2>1, <2>2 DEF TypeOK, cards
<1>2. ASSUME NEW p \in Pursuits, Due(p) PROVE TypeOK'
  BY <1>2 DEF Due, TypeOK, store, tick, count, cards
<1>3. CASE CardOut \/ ReportOut
  BY <1>3 DEF CardOut, ReportOut, NextGoal, Await, TypeOK, store, count, cards, Labels
<1>4. CASE UNCHANGED vars
  BY <1>4 DEF vars, store, tick, count, cards, TypeOK
<1> QED
  BY <1>1, <1>2, <1>3, <1>4, UserTypes, VisitTypes, GateTypes, PursueTypes, SavedTypes, CrashTypes
  DEF Next, TickStep

LEMMA TypeInit == Init => TypeOK
<1>1. 0 \in 0 .. Budget + 1 /\ 0 \in 0 .. MaxHuman /\ 0 \in 0 .. MaxFaults /\ 0 \in 0 .. 0
  BY Numbers
<1>2. NewFile(NoGoals) \in Files
  BY NoGoalsType DEF NewFile, Files
<1> QED  BY <1>1, <1>2, NoGoalsType DEF Init, TypeOK, Labels

\* Records, file, tick, cards and counts have their types.
THEOREM PursuitTypes == Spec => []TypeOK
  BY TypeInit, TypeStep, PTL DEF Spec

-----------------------------------------------------------------------------
(* What the operators on records change.                                   *)

Same(r, q) == r.status = q.status /\ r.suspended = q.suspended

LEMMA RecordFields ==
  ASSUME NEW r \in Records
  PROVE  /\ Same(Failed(r), r) /\ Same(Advanced(r), r)
         /\ Suspended(r).status = "revised" /\ Suspended(r).suspended
         /\ Completed(r).status = "done" /\ Dropped(r).status = "dropped"
         /\ Resumed(r).status = "committed"
<1>1. Same(Failed(r), r)
  BY DEF Same, Failed, Records
<1>2. Same(Advanced(r), r)
  BY DEF Same, Advanced, Records
<1>3. /\ Suspended(r).status = "revised" /\ Suspended(r).suspended
      /\ Completed(r).status = "done" /\ Dropped(r).status = "dropped"
      /\ Resumed(r).status = "committed"
  BY DEF Suspended, Completed, Dropped, Resumed, Records
<1> QED  BY <1>1, <1>2, <1>3

LEMMA OutcomeFields ==
  ASSUME NEW q \in Records, NEW r \in Outcomes(q) PROVE r \in Records /\ Same(r, q)
<1>1. Same([q EXCEPT !.failures = 0], q)
  BY DEF Same, Records
<1>2. Same(q, q)
  BY DEF Same
<1> QED  BY <1>1, <1>2, OutcomeTypes, RecordFields DEF Outcomes

-----------------------------------------------------------------------------
(* The file.  Whoever changes a goal's status takes the table as payload   *)
(* in the same step.  A save that is alone keeps agreeing with the memory  *)
(* until another begins.                                                   *)

FileInv ==
  /\ file.clean => \A d, e \in file.dumps : d = e
  /\ file.clean => \A d \in file.dumps, p \in Pursuits : Same(d.book[p], rec[p])
  /\ file.sound /\ file.dumps # {} => file.clean
  /\ file.sound => \A p \in Pursuits : \/ \E d \in file.dumps : p \in d.of
                                       \/ Same(file.book[p], rec[p])

\* A save begins: everything that changes is what it is about.
LEMMA FileBegun ==
  ASSUME TypeOK, FileInv, NEW w, NEW S, file' = Begun(file, w, S, rec'),
         \A q \in Pursuits : q \in S \/ Same(rec'[q], rec[q])
  PROVE  FileInv'
<1> DEFINE new == [by |-> w, of |-> S, book |-> rec']
<1>0. file \in Files
  BY DEF TypeOK
<1>1. /\ file'.dumps = file.dumps \cup {new} /\ file'.book = file.book
      /\ file'.clean = (file.dumps = {}) /\ file'.sound = (file.sound /\ file.dumps = {})
  BY <1>0 DEF Begun, Files
<1>2. CASE file.dumps = {}
  <2>1. file'.dumps = {new} /\ file'.clean
    BY <1>1, <1>2
  <2>2. \A p \in Pursuits : Same(new.book[p], rec'[p])
    BY DEF Same
  <2>3. ASSUME file'.sound, NEW p \in Pursuits
        PROVE  (\E d \in file'.dumps : p \in d.of) \/ Same(file'.book[p], rec'[p])
    <3>1. CASE p \in S
      <4>1. p \in new.of
        BY <3>1
      <4> QED  BY <2>1, <4>1
    <3>2. CASE Same(rec'[p], rec[p])
      <4>1. Same(file.book[p], rec[p])
        BY <1>1, <1>2, <2>3 DEF FileInv
      <4> QED  BY <1>1, <3>2, <4>1 DEF Same
    <3> QED  BY <3>1, <3>2
  <2>4. \A d \in file'.dumps, p \in Pursuits : Same(d.book[p], rec'[p])
    BY <2>1, <2>2
  <2> HIDE DEF new
  <2> QED  BY <2>1, <2>3, <2>4 DEF FileInv
<1>3. CASE file.dumps # {}
  <2>1. ~ file'.clean /\ ~ file'.sound
    BY <1>1, <1>3
  <2> QED  BY <2>1 DEF FileInv
<1> QED  BY <1>2, <1>3

LEMMA FileSilent ==
  ASSUME FileInv, UNCHANGED file, \A q \in Pursuits : Same(rec'[q], rec[q])
  PROVE  FileInv'
  BY DEF FileInv, Same

LEMMA FileEnded ==
  ASSUME TypeOK, FileInv, NEW d \in file.dumps, file' \in Ended(file, d, NoGoals), UNCHANGED rec
  PROVE  FileInv'
<1>1. /\ file'.dumps = file.dumps \ {d} /\ ~ file'.clean /\ file'.sound = file.clean
      /\ file.clean => file'.book = d.book
  BY EndedType
<1>2. file'.sound => file'.dumps = {} /\ \A p \in Pursuits : Same(file'.book[p], rec[p])
  BY <1>1 DEF FileInv
<1> QED  BY <1>1, <1>2 DEF FileInv

\* Every step but a crash begins a save, ends one, or leaves the statuses alone.
LEMMA OnePut ==
  ASSUME TypeOK, FileInv, NEW w, NEW p \in Pursuits, NEW r, PutBy(w, p, r)
  PROVE  FileInv'
<1>1. \A q \in Pursuits : q \in {p} \/ Same(rec'[q], rec[q])
  BY DEF PutBy, TypeOK, Tables, Same
<1> QED  BY <1>1, FileBegun DEF PutBy

LEMMA LoopPut ==
  ASSUME TypeOK, FileInv, NEW p \in Pursuits, NEW r, Put(p, r) \/ Settle(p, r) \/ Drive(p)
  PROVE  FileInv'
<1>1. PICK q : Put(p, q)
  BY DEF Settle, Drive
<1> QED  BY <1>1, OnePut DEF Put

LEMMA FileStep == TypeOK /\ FileInv /\ [Next]_vars => FileInv'
<1> SUFFICES ASSUME TypeOK, FileInv, [Next]_vars PROVE FileInv'
  OBVIOUS
<1>1. CASE UNCHANGED store
  BY <1>1, FileSilent DEF store, Same
<1>2. ASSUME NEW t \in Threads, NEW p \in Pursuits, UserStep(t, p) PROVE FileInv'
  BY <1>1, <1>2, OnePut
  DEF UserStep, Create, CommitAccepted, CommitRejected, Resume, Drop, CardTaken, CardHandled, Decides
<1>3. CASE TickStart \/ TickEnd
  <2>1. (rec' = rec /\ UNCHANGED file) \/ file' = Begun(file, Loop, Pursuits, rec')
    BY <1>3 DEF TickStart, TickEnd, Reconcile
  <2> QED  BY <1>1, <2>1, FileBegun DEF store
<1>4. ASSUME NEW p \in Pursuits, Visit(p) PROVE FileInv'
  BY <1>1, <1>4, LoopPut DEF Visit, VisitCheap, VisitCostly, PassBy
<1>5. on \in Pursuits /\ rec[on] \in Records
  BY DEF TypeOK, Tables
<1>6. CASE Recheck \/ Gate \/ Verify
  BY <1>5, <1>6, LoopPut DEF Recheck, Gate, Verify
<1>7. CASE PursueNothing \/ PursueRaised \/ PursueInfeasible
  BY <1>5, <1>7, LoopPut DEF PursueNothing, PursueRaised, PursueInfeasible
<1>8. CASE PursueEnded
  <2>1. PICK r \in Outcomes(Advanced(rec[on])) :
          \/ r.cheap /\ Put(on, Completed(r)) /\ at' = "loop"
          \/ r.cheap /\ Settle(on, r)
          \/ ~ r.cheap /\ rec' = [rec EXCEPT ![on] = r] /\ at' = "verify" /\ UNCHANGED file
    BY <1>8 DEF PursueEnded
  <2>2. Same(r, rec[on])
    <3>1. Advanced(rec[on]) \in Records /\ Same(Advanced(rec[on]), rec[on])
      BY <1>5, RecordFields, RecordTypes
    <3>2. Same(r, Advanced(rec[on]))
      BY <3>1, OutcomeFields
    <3> QED  BY <3>1, <3>2 DEF Same
  <2>3. CASE rec' = [rec EXCEPT ![on] = r] /\ UNCHANGED file
    <3>1. \A q \in Pursuits : Same(rec'[q], rec[q])
      BY <2>2, <2>3 DEF TypeOK, Tables, Same
    <3> QED  BY <2>3, <3>1, FileSilent
  <2> QED  BY <1>5, <2>1, <2>3, LoopPut
<1>9. ASSUME NEW w, Saved(w) PROVE FileInv'
  BY <1>9, FileEnded DEF Saved
<1>10. CASE Crash
  <2>1. /\ rec' = file.book /\ file'.book = file.book /\ file'.dumps = {} /\ ~ file'.clean
    BY <1>10 DEF Crash, NewFile
  <2> QED  BY <2>1 DEF FileInv, Same
<1> QED
  BY <1>1, <1>2, <1>3, <1>4, <1>6, <1>7, <1>8, <1>9, <1>10
  DEF Next, TickStep, PursueStep, Due, CardOut, ReportOut, vars

LEMMA FileInit == Init => FileInv
  BY DEF Init, NewFile, FileInv, Same

\* A restart finds every goal with the status it had, whatever the tick, the
\* panel, the cards and the board do across awaits: only a save of the goal
\* that is under way, and saves of the loop and of a thread that have
\* overlapped, make a difference, until the next save that is alone
\* (PursuitStore.put, _save).
THEOREM FileIsTrue == Spec => []FileTellsStatus
<1>1. Init => TypeOK /\ FileInv
  BY TypeInit, FileInit
<1>2. TypeOK /\ FileInv /\ [Next]_vars => (TypeOK /\ FileInv)'
  BY TypeStep, FileStep
<1>3. FileInv => FileTellsStatus
  BY DEF FileInv, FileTellsStatus, Same
<1> QED  BY <1>1, <1>2, <1>3, PTL DEF Spec

-----------------------------------------------------------------------------
(* The revision card.  A goal that goes into revision is the one whose     *)
(* card the tick broadcasts next.                                          *)

Asked(p) == p \in revise \cup lost \/ Popped(p) \/ (at = "card" /\ on = p)

\* A step about one goal: for the others the card stays where it is.
LEMMA OneChanges ==
  ASSUME TypeOK, RevisedHasCard, NEW p \in Pursuits, NEW r \in Records,
         rec' = [rec EXCEPT ![p] = r],
         r.status = "revised" => Asked(p)',
         \A q \in Pursuits : q # p /\ (q \in revise \cup lost \/ Popped(q))
                               => (q \in revise \cup lost \/ Popped(q))',
         at = "card" => UNCHANGED <<at, on>>
  PROVE  RevisedHasCard'
<1>1. \A q \in Pursuits : rec'[q] = IF q = p THEN r ELSE rec[q]
  BY DEF TypeOK, Tables
<1>2. ASSUME NEW q \in Pursuits, rec'[q].status = "revised" PROVE Asked(q)'
  <2>1. CASE q = p
    BY <1>1, <1>2, <2>1
  <2>2. CASE q # p
    <3>1. Asked(q)
      BY <1>1, <1>2, <2>2 DEF RevisedHasCard, Asked
    <3> QED  BY <2>2, <3>1 DEF Asked
  <2> QED  BY <2>1, <2>2
<1> QED  BY <1>2 DEF RevisedHasCard, Asked

\* A step of the loop that is about one goal.
LEMMA LoopChanges ==
  ASSUME TypeOK, RevisedHasCard, NEW p \in Pursuits, NEW r \in Records,
         rec' = [rec EXCEPT ![p] = r], at # "card", UNCHANGED cards,
         \/ r.status = rec[p].status \/ r.status # "revised"
         \/ at' = "card" /\ on' = p
  PROVE  RevisedHasCard'
<1>1. Asked(p) => Asked(p)'
  BY DEF Asked, cards, Popped
<1>2. r.status = "revised" => Asked(p)'
  BY <1>1 DEF RevisedHasCard, Asked
<1> QED  BY <1>2, OneChanges DEF cards, Popped

LEMMA SettledHasCard ==
  ASSUME TypeOK, RevisedHasCard, NEW p \in Pursuits, NEW r \in Records,
         r.status = rec[p].status, Settle(p, r), at # "card", on' = p, UNCHANGED cards
  PROVE  RevisedHasCard'
<1>1. CASE AtFloor(r)
  <2>1. Suspended(r) \in Records /\ rec' = [rec EXCEPT ![p] = Suspended(r)] /\ at' = "card"
    BY <1>1, RecordTypes DEF Settle, Put, PutBy
  <2> QED  BY <2>1, LoopChanges
<1>2. CASE ~ AtFloor(r)
  <2>1. rec' = [rec EXCEPT ![p] = r]
    BY <1>2 DEF Settle, Put, PutBy
  <2> QED  BY <2>1, LoopChanges
<1> QED  BY <1>1, <1>2

LEMMA DrivenHasCard ==
  ASSUME TypeOK, RevisedHasCard, NEW p \in Pursuits, Drive(p), at # "card", on' = p,
         UNCHANGED cards
  PROVE  RevisedHasCard'
<1>1. Suspended(rec[p]) \in Records /\ rec[p] \in Records
  BY RecordTypes DEF TypeOK, Tables
<1>2. CASE Put(p, Suspended(rec[p])) /\ at' = "card"
  BY <1>1, <1>2, LoopChanges DEF Put, PutBy
<1>3. CASE Put(p, rec[p])
  BY <1>1, <1>3, LoopChanges DEF Put, PutBy
<1> QED  BY <1>2, <1>3 DEF Drive

LEMMA UserHasCard ==
  ASSUME TypeOK, RevisedHasCard, NEW t \in Threads, NEW p \in Pursuits, UserStep(t, p)
  PROVE  RevisedHasCard'
<1>1. UNCHANGED <<at, on, lost>> /\ rec[p] \in Records
  BY DEF UserStep, Create, CommitAccepted, CommitRejected, Resume, Drop, CardTaken, CardHandled,
     Decides, tick, cards, TypeOK, Tables
<1>2. ASSUME NEW r \in Records, PutBy(t, p, r), r.status # "revised", UNCHANGED revise,
             \A h \in hands : h \in hands' \/ h.on = p
      PROVE  RevisedHasCard'
  BY <1>1, <1>2, OneChanges DEF PutBy, Popped
<1>3. CASE Create(t, p)
  <2>1. PICK c \in BOOLEAN : PutBy(t, p, [NoRecord EXCEPT !.status = "active", !.cheap = c])
    BY <1>3 DEF Create
  <2>2. /\ [NoRecord EXCEPT !.status = "active", !.cheap = c] \in Records
        /\ [NoRecord EXCEPT !.status = "active", !.cheap = c].status # "revised"
    BY NoRecordType DEF Records, Live
  <2> QED  BY <1>2, <1>3, <2>1, <2>2 DEF Create, cards
<1>4. CASE CommitAccepted(t, p)
  <2>1. /\ [rec[p] EXCEPT !.status = "committed", !.suspended = FALSE] \in Records
        /\ [rec[p] EXCEPT !.status = "committed", !.suspended = FALSE].status # "revised"
    BY <1>1 DEF Records, Live
  <2> QED  BY <1>2, <1>4, <2>1 DEF CommitAccepted, Decides, cards
<1>5. CASE CommitRejected(t, p)
  <2>1. NoRecord.status # "revised"
    BY DEF NoRecord
  <2> QED  BY <1>2, <1>5, <2>1, NoRecordType DEF CommitRejected, Decides, cards
<1>6. /\ Resumed(rec[p]) \in Records /\ Resumed(rec[p]).status # "revised"
      /\ Dropped(rec[p]) \in Records /\ Dropped(rec[p]).status # "revised"
  BY <1>1, RecordTypes, RecordFields
<1>7. CASE Resume(t, p) \/ Drop(t, p)
  BY <1>2, <1>6, <1>7 DEF Resume, Drop, Decides, cards
\* The thread that pops a card holds it.
<1>8. CASE CardTaken(t, p)
  <2>1. PICK drop \in BOOLEAN : hands' = hands \cup {[by |-> t, on |-> p, drop |-> drop]}
    BY <1>8 DEF CardTaken
  <2>2. Popped(p)'
    <3>1. [by |-> t, on |-> p, drop |-> drop] \in hands'
      BY <2>1
    <3>2. [by |-> t, on |-> p, drop |-> drop].on = p
      OBVIOUS
    <3> QED  BY <3>1, <3>2 DEF Popped
  <2>2a. \A q \in Pursuits : Popped(q) => Popped(q)'
    BY <2>1 DEF Popped
  <2>3. rec' = rec /\ revise' = revise \ {p}
    BY <1>8 DEF CardTaken, store
  <2> QED  BY <1>1, <2>2, <2>2a, <2>3 DEF RevisedHasCard
<1>9. CASE CardHandled(t, p)
  <2>1. PICK h \in hands :
          /\ h.on = p /\ hands' = hands \ {h} /\ UNCHANGED revise
          /\ \/ rec[p].status \notin Live /\ UNCHANGED store
             \/ PutBy(t, p, IF h.drop THEN Dropped(rec[p]) ELSE Resumed(rec[p]))
    BY <1>9 DEF CardHandled
  <2>2. CASE PutBy(t, p, IF h.drop THEN Dropped(rec[p]) ELSE Resumed(rec[p]))
    <3> DEFINE r == IF h.drop THEN Dropped(rec[p]) ELSE Resumed(rec[p])
    <3>1. r \in Records /\ r.status # "revised"
      BY <1>6
    <3> HIDE DEF r
    <3>2. PutBy(t, p, r)
      BY <2>2 DEF r
    <3> QED  BY <1>2, <2>1, <3>1, <3>2
  <2>3. CASE rec[p].status \notin Live /\ UNCHANGED store
    <3>1. rec' = rec /\ rec[p].status # "revised"
      BY <2>3 DEF Live, store
    <3>2. \A q \in Pursuits : q # p /\ Popped(q) => Popped(q)'
      BY <2>1 DEF Popped
    <3> QED  BY <1>1, <2>1, <3>1, <3>2 DEF RevisedHasCard
  <2> QED  BY <2>1, <2>2, <2>3
<1> QED  BY <1>3, <1>4, <1>5, <1>7, <1>8, <1>9 DEF UserStep

LEMMA CardStep == TypeOK /\ FileInv /\ RevisedHasCard /\ [Next]_vars => RevisedHasCard'
<1> SUFFICES ASSUME TypeOK, FileInv, RevisedHasCard, [Next]_vars PROVE RevisedHasCard'
  OBVIOUS
<1>1. on \in Pursuits /\ \A p \in Pursuits : rec[p] \in Records
  BY DEF TypeOK, Tables
<1>2. ASSUME UNCHANGED <<rec, cards>>, at # "card" \/ UNCHANGED <<at, on>> PROVE RevisedHasCard'
  BY <1>2 DEF RevisedHasCard, cards, Popped
<1>3. CASE TickStart \/ TickEnd
  <2>1. PICK news \in [Pursuits -> News] : rec' = [p \in Pursuits |-> Reconciled(rec[p], news[p])]
    BY <1>3 DEF TickStart, TickEnd, Reconcile
  <2>2. ASSUME NEW p \in Pursuits PROVE rec'[p].status = "revised" => rec[p].status = "revised"
    BY <1>1, <2>1, ReconciledType DEF Final
  <2>3. at # "card" /\ UNCHANGED cards
    BY <1>3 DEF TickStart, TickEnd, At
  <2> QED  BY <2>2, <2>3 DEF RevisedHasCard, cards, Popped
<1>4. ASSUME NEW p \in Pursuits
      PROVE  /\ Failed(rec[p]) \in Records /\ Failed(rec[p]).status = rec[p].status
             /\ Completed(rec[p]) \in Records /\ Completed(rec[p]).status # "revised"
  BY <1>1, RecordTypes, RecordFields DEF Same
<1>5. ASSUME NEW p \in Pursuits, Visit(p) PROVE RevisedHasCard'
  <2>1. at # "card" /\ on' = p /\ UNCHANGED cards
    BY <1>5 DEF Visit, At
  <2>2. CASE UNCHANGED rec
    BY <1>2, <2>1, <2>2
  <2>3. CASE Put(p, Completed(rec[p]))
    BY <1>4, <2>1, <2>3, LoopChanges DEF Put, PutBy
  <2>4. CASE Settle(p, Failed(rec[p]))
    BY <1>4, <2>1, <2>4, SettledHasCard
  <2>5. CASE Drive(p)
    BY <2>1, <2>5, DrivenHasCard
  <2> QED
    BY <1>5, <2>2, <2>3, <2>4, <2>5 DEF Visit, VisitCheap, VisitCostly, PassBy, store
<1>6. CASE Recheck \/ Gate \/ Verify
  <2>1. at # "card" /\ on' = on /\ UNCHANGED cards
    BY <1>6 DEF Recheck, Gate, Verify, NextGoal, Await, At
  <2>2. CASE Put(on, rec[on])
    BY <1>1, <2>1, <2>2, LoopChanges DEF Put, PutBy
  <2>3. CASE Put(on, Completed(rec[on]))
    BY <1>1, <1>4, <2>1, <2>3, LoopChanges DEF Put, PutBy
  <2>4. CASE Settle(on, Failed(rec[on]))
    BY <1>1, <1>4, <2>1, <2>4, SettledHasCard
  <2>5. CASE Settle(on, rec[on])
    BY <1>1, <2>1, <2>5, SettledHasCard
  <2>6. CASE Drive(on)
    BY <1>1, <2>1, <2>6, DrivenHasCard
  <2> QED  BY <1>6, <2>2, <2>3, <2>4, <2>5, <2>6 DEF Recheck, Gate, Verify
<1>7. CASE PursueStep
  <2>1. at # "card" /\ on' = on /\ UNCHANGED cards
    BY <1>7 DEF PursueStep, PursueNothing, PursueRaised, PursueInfeasible, PursueEnded, Await, At
  <2>2. Advanced(rec[on]) \in Records /\ Same(Advanced(rec[on]), rec[on])
    BY <1>1, RecordTypes, RecordFields
  <2>3. CASE PursueNothing
    BY <1>1, <2>1, <2>3, SettledHasCard DEF PursueNothing
  <2>4. CASE PursueRaised
    BY <1>1, <1>4, <2>1, <2>4, SettledHasCard DEF PursueRaised
  <2>5. CASE PursueInfeasible
    <3> DEFINE r == [Advanced(rec[on]) EXCEPT !.suspended = TRUE]
    <3>1. r \in Records /\ r.status = rec[on].status
      BY <2>2 DEF Records, Same
    <3>2. rec' = [rec EXCEPT ![on] = r]
      BY <2>5 DEF PursueInfeasible, Put, PutBy
    <3> HIDE DEF r
    <3> QED  BY <1>1, <2>1, <3>1, <3>2, LoopChanges
  <2>6. CASE PursueEnded
    <3>1. PICK r \in Outcomes(Advanced(rec[on])) :
            \/ r.cheap /\ Put(on, Completed(r)) /\ at' = "loop"
            \/ r.cheap /\ Settle(on, r)
            \/ ~ r.cheap /\ rec' = [rec EXCEPT ![on] = r] /\ at' = "verify" /\ UNCHANGED file
      BY <2>6 DEF PursueEnded
    <3>2. r \in Records /\ r.status = rec[on].status
      BY <2>2, OutcomeFields DEF Same
    <3>3. CASE Put(on, Completed(r))
      BY <1>1, <2>1, <3>2, <3>3, LoopChanges, RecordTypes, RecordFields DEF Put, PutBy
    <3>4. CASE Settle(on, r)
      BY <1>1, <2>1, <3>2, <3>4, SettledHasCard
    <3>5. CASE rec' = [rec EXCEPT ![on] = r]
      BY <1>1, <2>1, <3>2, <3>5, LoopChanges
    <3> QED  BY <3>1, <3>3, <3>4, <3>5
  <2> QED  BY <1>7, <2>3, <2>4, <2>5, <2>6 DEF PursueStep
<1>8. CASE CardOut
  BY <1>8 DEF CardOut, NextGoal, Await, RevisedHasCard, store, Popped
<1>9. ASSUME NEW w, Saved(w) PROVE RevisedHasCard'
  BY <1>2, <1>9 DEF Saved, tick
\* What the file says of a goal that was caught in between is not relied upon.
<1>10. CASE Crash
  <2>1. ASSUME NEW p \in Pursuits, rec'[p].status = "revised" PROVE p \in revise' \cup lost'
    <3>1. rec' = file.book /\ revise \subseteq revise' /\ lost' = lost \cup Uncertain
      BY <1>10 DEF Crash
    <3>2. CASE p \in Uncertain
      BY <3>1, <3>2
    <3>3. CASE p \notin Uncertain
      <4>1. file.sound /\ ~ \E d \in file.dumps : p \in d.of
        BY <3>3 DEF Uncertain
      <4>2. rec[p].status = "revised"
        BY <2>1, <3>1, <4>1 DEF FileInv, Same
      <4>3. ~ Popped(p) /\ ~ (at = "card" /\ on = p)
        BY <3>3 DEF Uncertain
      <4> QED  BY <3>1, <4>2, <4>3 DEF RevisedHasCard
    <3> QED  BY <3>2, <3>3
  <2> QED  BY <2>1 DEF RevisedHasCard
<1>11. CASE ReportOut \/ (\E p \in Pursuits : Due(p)) \/ UNCHANGED vars
  BY <1>2, <1>11 DEF ReportOut, NextGoal, Await, Due, At, vars, store, tick
<1> QED
  BY <1>3, <1>5, <1>6, <1>7, <1>8, <1>9, <1>10, <1>11, UserHasCard DEF Next, TickStep

\* A goal in revision has an undecided card, or one that a thread has taken and
\* will act upon, or it is the one whose card is just being broadcast.  Only a
\* crash costs a card: when the card is popped and its handler has not run or
\* is not saved, when it is not yet out, or when saves have overlapped.
THEOREM UserIsAsked == Spec => []RevisedHasCard
<1>1. Init => TypeOK /\ FileInv /\ RevisedHasCard
  BY TypeInit, FileInit DEF Init, NoGoals, RevisedHasCard, NoRecord
<1>2. /\ TypeOK /\ FileInv /\ RevisedHasCard /\ [Next]_vars
      => (TypeOK /\ FileInv /\ RevisedHasCard)'
  BY TypeStep, FileStep, CardStep
<1> QED  BY <1>1, <1>2, PTL DEF Spec

-----------------------------------------------------------------------------
(* The budget.  What a goal has cost since the user last decided on it is  *)
(* covered by its counters, by the run under way, and by what faults have  *)
(* made the counters forget; a goal at its floor is suspended when its run *)
(* is accounted for, so that it is driven again only if a crash forgot     *)
(* that, or after the user committed it anew.                              *)

Cost(r)   == r.advances * MaxFailures + r.failures
Driven(r) == r.status = "committed" /\ ~ r.suspended

Held(r, n, k) ==
  Driven(r) => /\ n < Limit + k
               /\ IF AtFloor(r) THEN n < Cost(r) + k ELSE n <= Cost(r) + k

Allow == Limit * stale + faults

Busy(p, label) == at = label /\ on = p
Extra(p)       == IF Busy(p, "pursue") \/ Busy(p, "verify") THEN 1 ELSE 0

\* A crash during a save of the loop forgets the run that is being counted.
Lag(p) == IF Extra(p) = 1 \/ (Saving(file, Loop) /\ on = p) THEN 1 ELSE 0

Paid(p) ==
  /\ spent[p] <= Limit + Allow
  /\ Busy(p, "gate") => spent[p] < Limit + Allow
  /\ Held(rec[p], spent[p], Allow + Extra(p))
  /\ Busy(p, "verify") /\ Driven(rec[p]) => spent[p] <= Cost(rec[p]) + Allow

Filed(p) ==
  /\ file.sound => Held(file.book[p], spent[p], Allow + Lag(p))
  /\ file.clean => \A d \in file.dumps : Held(d.book[p], spent[p], Allow + Extra(p))

PaidInv == TypeOK /\ FileInv /\ \A p \in Pursuits : Paid(p) /\ Filed(p)

Alike(r, q) == Same(r, q) /\ r.advances = q.advances /\ r.failures = q.failures

\* A counter's part in the cost.
Weight(r) == r.advances * MaxFailures

LEMMA Counters ==
  ASSUME NEW r \in Records
  PROVE  /\ r.advances \in 0 .. MaxAdvances /\ r.failures \in 0 .. MaxFailures
         /\ Weight(r) \in Nat /\ Cost(r) = Weight(r) + r.failures /\ Cost(r) \in Nat
         /\ r.advances >= 1 => Weight(r) >= 1
         /\ r.advances < MaxAdvances => Weight(r) + MaxFailures <= Limit
         /\ r.advances >= MaxAdvances => Weight(r) = Limit
<1>1. r.advances \in 0 .. MaxAdvances /\ r.failures \in 0 .. MaxFailures
  BY DEF Records
<1>2. r.advances \in Nat /\ MaxAdvances \in Nat /\ MaxFailures \in Nat /\ MaxFailures >= 1
  BY <1>1, Numbers
<1>3. Weight(r) \in Nat /\ (r.advances >= 1 => Weight(r) >= 1)
  BY <1>2, Products DEF Weight
<1>4. Cost(r) = Weight(r) + r.failures
  BY DEF Cost, Weight
<1>5. Cost(r) \in Nat
  BY <1>1, <1>3, <1>4, Numbers
<1>6. r.advances < MaxAdvances => Weight(r) + MaxFailures <= Limit
  BY <1>2, Products DEF Weight, Limit
<1>7. ASSUME r.advances >= MaxAdvances PROVE Weight(r) = Limit
  <2>1. r.advances = MaxAdvances
    BY <1>1, <1>2, <1>7
  <2> QED  BY <2>1 DEF Weight, Limit
<1> QED  BY <1>1, <1>3, <1>4, <1>5, <1>6, <1>7

LEMMA CostBounds ==
  ASSUME NEW r \in Records
  PROVE  /\ Cost(r) \in Nat /\ AtFloor(r) \in BOOLEAN
         /\ AtFloor(r) => Cost(r) >= 1
         /\ ~ AtFloor(r) => Cost(r) < Limit
<1>1. ASSUME AtFloor(r) PROVE Cost(r) >= 1
  BY <1>1, Counters, Numbers DEF AtFloor
<1>2. ASSUME ~ AtFloor(r) PROVE Cost(r) < Limit
  BY <1>2, Counters, Numbers DEF AtFloor
<1> QED  BY <1>1, <1>2, Counters DEF AtFloor

LEMMA CostFailed ==
  ASSUME NEW r \in Records
  PROVE  /\ Cost(Failed(r)) >= Cost(r)
         /\ ~ AtFloor(r) => Cost(Failed(r)) >= Cost(r) + 1
<1>1. Failed(r) \in Records
  BY RecordTypes
<1>2. /\ Failed(r).advances = r.advances /\ Failed(r).failures = Up(r.failures, MaxFailures)
      /\ Weight(Failed(r)) = Weight(r)
  BY DEF Failed, Records, Weight
<1>3. /\ Up(r.failures, MaxFailures) >= r.failures
      /\ ~ AtFloor(r) => Up(r.failures, MaxFailures) = r.failures + 1
  BY Counters, Numbers DEF Up, AtFloor
<1>4. Up(r.failures, MaxFailures) \in Int
  BY Counters, Numbers DEF Up
<1> QED  BY <1>1, <1>2, <1>3, <1>4, Counters, Numbers

LEMMA CostOutcome ==
  ASSUME NEW r \in Records, NEW q \in Outcomes(Advanced(r))
  PROVE  /\ Cost(q) >= Cost(r) \/ Cost(q) >= Limit
         /\ ~ AtFloor(r) => Cost(q) >= Cost(r) + 1
<1> DEFINE x == Advanced(r)
<1>1. x \in Records /\ x.advances = Up(r.advances, MaxAdvances) /\ x.failures = r.failures
  BY RecordTypes DEF Advanced, Records
<1>2. CASE r.advances >= MaxAdvances
  <2>1. q.advances >= MaxAdvances
    BY <1>1, <1>2, Counters, Numbers DEF Outcomes, Failed, Up, Records
  <2>2. q \in Records
    BY <1>1, RecordTypes, Numbers DEF Outcomes, Records
  <2> QED  BY <1>2, <2>1, <2>2, Counters, Numbers DEF AtFloor
<1>3. CASE r.advances < MaxAdvances
  <2>1. x.advances = r.advances + 1
    BY <1>1, <1>3 DEF Up
  <2>2. Weight(x) = Weight(r) + MaxFailures
    BY <2>1, Counters, Products, Numbers DEF Weight
  <2>3. Cost(x) >= Cost(r) + 1
    BY <1>1, <2>2, Counters, Numbers
  <2>4. CASE q = x
    BY <2>3, <2>4, <1>1, Counters
  <2>5. CASE q = Failed(x)
    <3>1. q \in Records
      BY <1>1, <2>5, RecordTypes
    <3> QED  BY <1>1, <2>3, <2>5, <3>1, CostFailed, Counters
  <2>6. CASE q = [x EXCEPT !.failures = 0]
    <3>1. q \in Records /\ q.failures = 0 /\ Weight(q) = Weight(x)
      BY <1>1, <2>6, Numbers DEF Records, Weight
    <3>2. Cost(q) = Weight(r) + MaxFailures
      BY <2>2, <3>1, Counters
    <3>3. ~ AtFloor(r) => r.failures < MaxFailures
      BY Counters, Numbers DEF AtFloor
    <3> QED  BY <3>2, <3>3, Counters, Numbers
  <2> QED  BY <2>4, <2>5, <2>6 DEF Outcomes
<1> QED  BY <1>2, <1>3, Counters, Numbers

\* Alike records cost the same.
LEMMA AlikeHeld ==
  ASSUME NEW r \in Records, NEW q \in Records, ~ Driven(q) \/ Alike(q, r),
         NEW n \in Nat, NEW k \in Nat, NEW m \in Nat, k <= m \/ ~ Driven(q), Held(r, n, k)
  PROVE  Held(q, n, m)
<1>1. CASE ~ Driven(q)
  BY <1>1 DEF Held
<1>2. CASE Driven(q)
  <2>1. /\ Driven(r) /\ k <= m
        /\ Cost(q) = Cost(r) /\ Cost(r) \in Nat /\ (AtFloor(q) <=> AtFloor(r))
    BY <1>2, CostBounds DEF Alike, Same, Driven, Cost, AtFloor
  <2>2. Limit \in Nat
    BY Numbers
  <2> QED  BY <2>1, <2>2 DEF Held
<1> QED  BY <1>1, <1>2

LEMMA Sums ==
  ASSUME NEW a \in Nat, NEW b \in Nat
  PROVE  /\ a + 0 = a /\ a <= a + b /\ 0 <= a + b
         /\ a >= 1 => 0 < a + b
  OBVIOUS

LEMMA MoreHeld ==
  ASSUME NEW r \in Records, NEW n \in Nat, NEW k \in Nat, NEW m \in Nat, Held(r, n, k)
  PROVE  /\ k <= m => Held(r, n, m)
         /\ k < m => Held(r, n + 1, m)
  BY CostBounds, Numbers DEF Held

LEMMA NothingHeld ==
  ASSUME NEW r \in Records, NEW k \in Nat
  PROVE  Held(r, 0, k)
  BY CostBounds, Numbers DEF Held

LEMMA PaidTypes ==
  ASSUME TypeOK, NEW p \in Pursuits
  PROVE  /\ rec[p] \in Records /\ spent[p] \in Nat /\ faults \in Nat /\ stale \in Nat
         /\ Allow \in Nat /\ Extra(p) \in {0, 1} /\ Lag(p) \in {0, 1} /\ Extra(p) <= Lag(p)
         /\ file.book[p] \in Records /\ \A d \in file.dumps : d.book[p] \in Records
         /\ Limit + Allow <= Budget
<1>1. /\ rec[p] \in Records /\ Extra(p) \in {0, 1} /\ Lag(p) \in {0, 1} /\ Extra(p) <= Lag(p)
      /\ file.book[p] \in Records /\ \A d \in file.dumps : d.book[p] \in Records
  BY DEF TypeOK, Extra, Lag, Tables, Files, Dumps
<1>2. /\ spent[p] \in Nat /\ faults \in Nat /\ faults <= MaxFaults /\ stale \in Nat
      /\ stale <= MaxFaults
  BY Numbers DEF TypeOK
<1>3. ASSUME NEW a \in Nat, NEW b \in Nat, NEW c \in Nat, b <= c
      PROVE  a * b \in Nat /\ a * c \in Nat /\ a * b <= a * c /\ a * (1 + c) = a + a * c
  <2>1. a * b = b * a /\ a * c = c * a /\ a * (1 + c) = a + a * c
    OBVIOUS
  <2> QED  BY <1>3, <2>1, Products
<1>4. /\ Limit * stale \in Nat /\ Limit * MaxFaults \in Nat /\ Limit * stale <= Limit * MaxFaults
      /\ Limit * (1 + MaxFaults) = Limit + Limit * MaxFaults
  BY <1>2, <1>3, Numbers
<1>5. Allow \in Nat /\ Limit + Allow <= Budget
  BY <1>2, <1>4, Numbers DEF Allow
<1> QED  BY <1>1, <1>2, <1>5

LEMMA PaidTypesNext ==
  ASSUME TypeOK', NEW p \in Pursuits
  PROVE  /\ rec'[p] \in Records /\ spent'[p] \in Nat /\ faults' \in Nat
         /\ Allow' \in Nat /\ Extra(p)' \in {0, 1} /\ Lag(p)' \in {0, 1} /\ Extra(p)' <= Lag(p)'
         /\ file'.book[p] \in Records
<1>1. /\ rec'[p] \in Records /\ Extra(p)' \in {0, 1} /\ Lag(p)' \in {0, 1}
      /\ Extra(p)' <= Lag(p)' /\ file'.book[p] \in Records
  BY DEF TypeOK, Extra, Lag, Tables, Files
<1>2. spent'[p] \in Nat /\ faults' \in Nat /\ stale' \in Nat
  BY Numbers DEF TypeOK
<1>3. ASSUME NEW a \in Nat, NEW b \in Nat PROVE a * b \in Nat
  OBVIOUS
<1>4. Limit * stale' \in Nat
  BY <1>2, <1>3, Numbers
<1>5. Allow' = Limit * stale' + faults'
  BY DEF Allow
<1>6. Allow' \in Nat
  BY <1>2, <1>4, <1>5
<1> QED  BY <1>1, <1>2, <1>6

\* More faults, more allowance; a forgetful crash adds a whole limit.
LEMMA Allowed ==
  ASSUME TypeOK, TypeOK', faults' >= faults
  PROVE  /\ stale' = stale => Allow' >= Allow /\ (faults' = faults + 1 => Allow' = Allow + 1)
         /\ stale' = stale /\ faults' = faults => Allow' = Allow
         /\ stale' = stale + 1 => Allow' >= Allow + Limit + (faults' - faults)
<1>1. /\ stale \in Nat /\ faults \in Nat /\ faults' \in Nat /\ Limit \in Nat
  BY Numbers DEF TypeOK
<1>2. ASSUME NEW a \in Nat, NEW b \in Nat PROVE a * b \in Nat /\ a * (b + 1) = a * b + a
  OBVIOUS
<1>3. Limit * stale \in Nat /\ Limit * (stale + 1) = Limit * stale + Limit
  BY <1>1, <1>2
<1> QED  BY <1>1, <1>3 DEF Allow

-----------------------------------------------------------------------------
(* The records in the file and on their way to it.                         *)

LEMMA FiledBegun ==
  ASSUME TypeOK, TypeOK', NEW p \in Pursuits, Filed(p), Paid(p)', NEW w, NEW S,
         file' = Begun(file, w, S, rec'), stale' = stale, faults' >= faults,
         \/ spent'[p] = 0
         \/ spent'[p] = spent[p] /\ Lag(p)' >= Extra(p)
         \/ spent'[p] = spent[p] + 1 /\ Lag(p)' > Extra(p)
  PROVE  Filed(p)'
<1> DEFINE new == [by |-> w, of |-> S, book |-> rec']
<1>0. file \in Files
  BY DEF TypeOK
<1>1. /\ file'.dumps = file.dumps \cup {new} /\ file'.book = file.book
      /\ file'.clean = (file.dumps = {}) /\ file'.sound = (file.sound /\ file.dumps = {})
  BY <1>0 DEF Begun, Files
<1>2. CASE file.dumps # {}
  BY <1>1, <1>2 DEF Filed
<1>3. CASE file.dumps = {}
  <2>1. \A d \in file'.dumps : Held(d.book[p], spent'[p], Allow' + Extra(p)')
    BY <1>1, <1>3 DEF Paid
  <2>2. ASSUME file.sound PROVE Held(file.book[p], spent'[p], Allow' + Lag(p)')
    <3>1. Lag(p) = Extra(p)
      BY <1>3 DEF Lag, Saving, Extra
    <3>2. Held(file.book[p], spent[p], Allow + Extra(p))
      BY <2>2, <3>1 DEF Filed
    <3>3. /\ file.book[p] \in Records /\ spent[p] \in Nat /\ Allow \in Nat /\ Extra(p) \in {0, 1}
          /\ Allow' \in Nat /\ Lag(p)' \in {0, 1} /\ Allow' >= Allow
      BY PaidTypes, PaidTypesNext, Allowed
    <3>4. Allow' + Lag(p)' \in Nat /\ Allow + Extra(p) \in Nat
      BY <3>3
    <3>5. CASE spent'[p] = 0
      BY <3>3, <3>4, <3>5, NothingHeld
    <3>6. CASE spent'[p] = spent[p] /\ Lag(p)' >= Extra(p)
      <4>1. Allow + Extra(p) <= Allow' + Lag(p)'
        BY <3>3, <3>6
      <4> QED  BY <3>2, <3>3, <3>4, <3>6, <4>1, MoreHeld
    <3>7. CASE spent'[p] = spent[p] + 1 /\ Lag(p)' > Extra(p)
      <4>1. Allow + Extra(p) < Allow' + Lag(p)'
        BY <3>3, <3>7
      <4> QED  BY <3>2, <3>3, <3>4, <3>7, <4>1, MoreHeld
    <3> QED  BY <3>5, <3>6, <3>7
  <2> HIDE DEF new
  <2> QED  BY <1>1, <2>1, <2>2 DEF Filed
<1> QED  BY <1>2, <1>3

\* Nothing is written: what is on its way stays covered.
LEMMA FiledSilent ==
  ASSUME TypeOK, TypeOK', NEW p \in Pursuits, Filed(p), UNCHANGED file, spent'[p] = spent[p],
         stale' = stale, faults' >= faults, Extra(p)' >= Extra(p), Lag(p)' >= Lag(p)
  PROVE  Filed(p)'
<1>1. /\ spent[p] \in Nat /\ Allow \in Nat /\ Extra(p) \in {0, 1} /\ Lag(p) \in {0, 1}
      /\ file.book[p] \in Records /\ \A d \in file.dumps : d.book[p] \in Records
      /\ Allow' \in Nat /\ Lag(p)' \in {0, 1} /\ Extra(p)' \in {0, 1} /\ Allow' >= Allow
  BY PaidTypes, PaidTypesNext, Allowed
<1>2. /\ Allow + Extra(p) \in Nat /\ Allow' + Extra(p)' \in Nat
      /\ Allow + Extra(p) <= Allow' + Extra(p)'
      /\ Allow + Lag(p) \in Nat /\ Allow' + Lag(p)' \in Nat
      /\ Allow + Lag(p) <= Allow' + Lag(p)'
  BY <1>1
<1> QED  BY <1>1, <1>2, MoreHeld DEF Filed

\* A save is over: what is in the file afterwards was covered on its way.
LEMMA SavedPaid ==
  ASSUME TypeOK, TypeOK', PaidInv, NEW w, Saved(w) PROVE \A p \in Pursuits : Paid(p)' /\ Filed(p)'
<1> SUFFICES ASSUME NEW p \in Pursuits PROVE Paid(p)' /\ Filed(p)'
  OBVIOUS
<1>1. UNCHANGED <<rec, at, on, spent, stale, faults>>
  BY DEF Saved, tick, count
<1>2. Extra(p)' = Extra(p) /\ Allow' = Allow
  BY <1>1 DEF Extra, Busy, Allow
<1>3. Paid(p)'
  BY <1>1, <1>2 DEF PaidInv, Paid, Busy
<1>4. PICK d \in file.dumps : file' \in Ended(file, d, NoGoals)
  BY DEF Saved
<1>5. /\ ~ file'.clean /\ file'.sound = file.clean /\ (file.clean => file'.book = d.book)
  BY <1>4, EndedType
<1>6. ASSUME file.clean PROVE Held(d.book[p], spent[p], Allow + Lag(p)')
  <2>1. Held(d.book[p], spent[p], Allow + Extra(p))
    BY <1>6 DEF PaidInv, Filed
  <2>2. /\ d.book[p] \in Records /\ spent[p] \in Nat /\ Allow \in Nat /\ Extra(p) \in {0, 1}
        /\ Lag(p)' \in {0, 1} /\ Extra(p)' <= Lag(p)'
    BY PaidTypes, PaidTypesNext
  <2>3. Allow + Extra(p) \in Nat /\ Allow + Lag(p)' \in Nat /\ Allow + Extra(p) <= Allow + Lag(p)'
    BY <1>2, <2>2
  <2> QED  BY <2>1, <2>2, <2>3, MoreHeld
<1>7. Filed(p)'
  BY <1>1, <1>2, <1>5, <1>6 DEF Filed
<1> QED  BY <1>3, <1>7

-----------------------------------------------------------------------------
(* The records in memory.                                                  *)

Like(r, p) == ~ Driven(r) \/ Alike(r, rec[p])

LEMMA PaidKept ==
  ASSUME TypeOK, TypeOK', NEW p \in Pursuits, Paid(p), Like(rec'[p], p),
         spent'[p] = spent[p], Allow' >= Allow,
         Allow' + Extra(p)' >= Allow + Extra(p) \/ ~ Driven(rec'[p]),
         Busy(p, "gate")' => Busy(p, "gate"),
         Busy(p, "verify")' => /\ Busy(p, "verify")
                               /\ ~ Driven(rec'[p]) \/ Alike(rec'[p], rec[p])
  PROVE  Paid(p)'
<1>1. /\ rec[p] \in Records /\ spent[p] \in Nat /\ Allow \in Nat /\ Allow + Extra(p) \in Nat
  BY PaidTypes
<1>2. /\ rec'[p] \in Records /\ Allow' \in Nat /\ Allow' + Extra(p)' \in Nat
  BY PaidTypesNext
<1>3. spent'[p] <= Limit + Allow' /\ (Busy(p, "gate")' => spent'[p] < Limit + Allow')
  BY <1>1, <1>2, Numbers DEF Paid
<1>4. Held(rec'[p], spent'[p], Allow' + Extra(p)')
  BY <1>1, <1>2, AlikeHeld DEF Like, Paid
<1>5. ASSUME Busy(p, "verify")', Driven(rec'[p])
      PROVE  spent'[p] <= Cost(rec'[p]) + Allow'
  <2>1. Alike(rec'[p], rec[p]) /\ Busy(p, "verify")
    BY <1>5
  <2>2. /\ Driven(rec[p]) /\ Cost(rec'[p]) = Cost(rec[p]) /\ Cost(rec[p]) \in Nat
    BY <1>1, <1>5, <2>1, CostBounds DEF Alike, Same, Driven, Cost
  <2>3. spent[p] <= Cost(rec[p]) + Allow
    BY <2>1, <2>2 DEF Paid
  <2> QED  BY <1>1, <1>2, <2>2, <2>3
<1> QED  BY <1>3, <1>4, <1>5 DEF Paid

\* The user has decided: the count starts anew.
LEMMA PaidAnew ==
  ASSUME TypeOK', NEW p \in Pursuits, spent'[p] = 0
  PROVE  Paid(p)'
<1>1. /\ rec'[p] \in Records /\ Allow' \in Nat /\ Extra(p)' \in {0, 1}
  BY PaidTypesNext
<1>2. Allow' + Extra(p)' \in Nat /\ Cost(rec'[p]) \in Nat
  BY <1>1, CostBounds
<1>3. Held(rec'[p], 0, Allow' + Extra(p)')
  BY <1>1, <1>2, NothingHeld
<1>4. 0 <= Limit + Allow' /\ 0 < Limit + Allow' /\ 0 <= Cost(rec'[p]) + Allow'
  BY <1>1, <1>2, Numbers, Sums
<1> QED  BY <1>3, <1>4 DEF Paid

\* A run is accounted for: it is covered by the counters without it, or the
\* goal waits for the user.
LEMMA PaidSettled ==
  ASSUME TypeOK, TypeOK', NEW p \in Pursuits, NEW r \in Records, Paid(p),
         Settle(p, r), UNCHANGED <<spent, faults, stale>>,
         Driven(r) /\ ~ AtFloor(r) => spent[p] <= Cost(r) + Allow
  PROVE  Paid(p)'
<1>1. rec'[p] = (IF AtFloor(r) THEN Suspended(r) ELSE r) /\ at' \in {"card", "loop"}
  BY DEF Settle, Put, PutBy, TypeOK, Tables
<1>2. spent[p] \in Nat /\ Allow \in Nat /\ Extra(p)' = 0 /\ Allow' = Allow
  BY <1>1, PaidTypes DEF Extra, Busy, Allow
<1>3. ~ Busy(p, "gate")' /\ ~ Busy(p, "verify")' /\ spent'[p] <= Limit + Allow'
  BY <1>1, <1>2 DEF Busy, Paid
<1>4. Held(rec'[p], spent[p], Allow)
  <2>1. CASE AtFloor(r)
    <3>1. ~ Driven(rec'[p])
      BY <1>1, <2>1, RecordFields DEF Driven
    <3> QED  BY <3>1 DEF Held
  <2>2. CASE ~ AtFloor(r)
    BY <1>1, <1>2, <2>2, CostBounds, Numbers DEF Held
  <2> QED  BY <2>1, <2>2
<1>5. Allow' + Extra(p)' = Allow /\ spent'[p] = spent[p]
  BY <1>2
<1> QED  BY <1>3, <1>4, <1>5 DEF Paid

\* A run begins, or the user is asked instead.
LEMMA PaidDriven ==
  ASSUME TypeOK, TypeOK', NEW p \in Pursuits, Paid(p), Extra(p) = 0,
         spent[p] < Limit + Allow, Drive(p), on' = p, UNCHANGED <<faults, stale>>
  PROVE  /\ Paid(p)'
         /\ spent'[p] = spent[p] \/ spent'[p] = spent[p] + 1
<1>1. /\ rec[p] \in Records /\ spent[p] \in Nat /\ Allow \in Nat /\ Limit \in Nat
      /\ Allow + Extra(p) = Allow /\ Allow' = Allow /\ Allow' \in Nat /\ Limit + Allow <= Budget
  BY PaidTypes, Numbers DEF Allow
<1>2. CASE Put(p, Suspended(rec[p])) /\ at' = "card" /\ UNCHANGED <<due, spent>>
  <2>1. rec'[p] = Suspended(rec[p]) /\ ~ Busy(p, "gate")' /\ ~ Busy(p, "verify")'
    BY <1>2 DEF Put, PutBy, TypeOK, Tables, Busy
  <2>2. ~ Driven(rec'[p])
    BY <1>1, <2>1, RecordFields DEF Driven
  <2> QED  BY <1>1, <1>2, <2>1, <2>2, PaidKept DEF Like
<1>3. CASE /\ Put(p, rec[p]) /\ Stamp(p) /\ at' = "pursue"
           /\ spent' = [spent EXCEPT ![p] = Up(@, Budget + 1)]
  <2>1. /\ rec'[p] = rec[p] /\ Extra(p)' = 1
        /\ ~ Busy(p, "gate")' /\ ~ Busy(p, "verify")'
    BY <1>3 DEF Put, PutBy, TypeOK, Tables, Busy, Extra
  <2>2. spent'[p] = spent[p] + 1
    <3>1. spent'[p] = Up(spent[p], Budget + 1)
      BY <1>3 DEF TypeOK
    <3>2. spent[p] < Budget + 1
      BY <1>1, Numbers
    <3> QED  BY <3>1, <3>2 DEF Up
  <2>3. Held(rec[p], spent[p], Allow)
    BY <1>1 DEF Paid
  <2>4. Held(rec'[p], spent[p] + 1, Allow + 1)
    <3>1. Allow + 1 \in Nat /\ Allow < Allow + 1
      BY <1>1
    <3> QED  BY <1>1, <2>1, <2>3, <3>1, MoreHeld
  <2>5. spent'[p] <= Limit + Allow'
    BY <1>1, <2>2
  <2> QED  BY <1>1, <2>1, <2>2, <2>4, <2>5 DEF Paid
<1> QED  BY <1>2, <1>3 DEF Drive

-----------------------------------------------------------------------------
(* Steps that are about one goal.                                          *)

\* For the other goals nothing changes, except that a save may begin.
LEMMA PaidElsewhere ==
  ASSUME TypeOK, TypeOK', NEW p \in Pursuits, NEW o, p # o, Paid(p), Filed(p),
         rec'[p] = rec[p],
         UNCHANGED file \/ \E w, S : file' = Begun(file, w, S, rec'),
         spent'[p] = spent[p], faults' >= faults, stale' = stale,
         \/ UNCHANGED <<at, on>>
         \/ on' = o /\ (on = o \/ at = "loop") /\ ~ Saving(file, Loop)
  PROVE  Paid(p)' /\ Filed(p)'
<1>1. Like(rec'[p], p) /\ Alike(rec'[p], rec[p])
  BY DEF Like, Alike, Same
<1>2. /\ Busy(p, "gate")' <=> Busy(p, "gate")
      /\ Busy(p, "verify")' <=> Busy(p, "verify")
      /\ Busy(p, "pursue")' <=> Busy(p, "pursue")
  <2>1. CASE UNCHANGED <<at, on>>
    BY <2>1 DEF Busy
  <2>2. CASE on' = o /\ on = o
    BY <2>2 DEF Busy
  <2>3. CASE on' = o /\ at = "loop"
    BY <2>3 DEF Busy
  <2> QED  BY <2>1, <2>2, <2>3
<1>3. Extra(p)' = Extra(p)
  BY <1>2 DEF Extra
<1>4. Allow' >= Allow /\ Allow \in Nat /\ Allow' \in Nat /\ Extra(p) \in {0, 1}
      /\ Extra(p)' <= Lag(p)' /\ Lag(p) \in {0, 1} /\ Lag(p)' \in {0, 1}
  BY Allowed, PaidTypes, PaidTypesNext
<1>5. Allow' + Extra(p)' >= Allow + Extra(p)
  BY <1>3, <1>4
<1>6. Paid(p)'
  BY <1>1, <1>2, <1>4, <1>5, PaidKept
<1>7. CASE UNCHANGED file
  <2>1. Lag(p)' >= Lag(p)
    <3>1. CASE Saving(file, Loop) /\ on = p
      <4>1. Lag(p)' = 1
        BY <1>7, <3>1 DEF Lag
      <4> QED  BY <1>4, <4>1
    <3>2. CASE ~ (Saving(file, Loop) /\ on = p)
      <4>1. Lag(p) = Extra(p)
        BY <3>2 DEF Lag, Extra
      <4> QED  BY <1>3, <1>4, <4>1
    <3> QED  BY <3>1, <3>2
  <2>2. Extra(p)' >= Extra(p)
    BY <1>3, <1>4
  <2> QED  BY <1>6, <1>7, <2>1, <2>2, FiledSilent
<1>8. CASE \E w, S : file' = Begun(file, w, S, rec')
  BY <1>3, <1>4, <1>6, <1>8, FiledBegun
<1> QED  BY <1>6, <1>7, <1>8

\* What has to be shown is that the goal itself is paid.
LEMMA PaidByOne ==
  ASSUME TypeOK, TypeOK', PaidInv, NEW o \in Pursuits, NEW r,
         rec' = [rec EXCEPT ![o] = r],
         UNCHANGED file \/ \E w, S : file' = Begun(file, w, S, rec'),
         UNCHANGED spent \/ \E n : spent' = [spent EXCEPT ![o] = n],
         faults' >= faults, stale' = stale,
         \/ UNCHANGED <<at, on>>
         \/ on' = o /\ (on = o \/ at = "loop") /\ ~ Saving(file, Loop),
         Paid(o)' /\ Filed(o)'
  PROVE  \A p \in Pursuits : Paid(p)' /\ Filed(p)'
<1>1. ASSUME NEW p \in Pursuits, p # o PROVE Paid(p)' /\ Filed(p)'
  <2>1. rec'[p] = rec[p] /\ spent'[p] = spent[p]
    BY <1>1 DEF TypeOK, Tables
  <2> QED  BY <1>1, <2>1, PaidElsewhere DEF PaidInv
<1> QED  BY <1>1

\* The loop puts the goal that it is at.
LEMMA FiledPut ==
  ASSUME TypeOK, TypeOK', PaidInv, NEW p \in Pursuits, NEW r,
         Put(p, r) \/ Settle(p, r) \/ Drive(p), Paid(p)',
         on' = p, on = p \/ at = "loop", ~ Saving(file, Loop), faults' >= faults, stale' = stale,
         UNCHANGED spent \/ \E n : spent' = [spent EXCEPT ![p] = n],
         \/ spent'[p] = spent[p]
         \/ spent'[p] = spent[p] + 1 /\ Extra(p) = 0
  PROVE  \A q \in Pursuits : Paid(q)' /\ Filed(q)'
<1>1. PICK q : rec' = [rec EXCEPT ![p] = q] /\ file' = Begun(file, Loop, {p}, rec')
  BY DEF Settle, Drive, Put, PutBy
<1>2. Saving(file, Loop)'
  <2>1. [by |-> Loop, of |-> {p}, book |-> rec'] \in file'.dumps
    <3>1. file \in Files
      BY DEF TypeOK
    <3> QED  BY <1>1, <3>1 DEF Begun, Files
  <2>2. [by |-> Loop, of |-> {p}, book |-> rec'].by = Loop
    OBVIOUS
  <2> QED  BY <2>1, <2>2 DEF Saving
<1>3. Lag(p)' = 1 /\ Extra(p) \in {0, 1}
  BY <1>2, PaidTypes DEF Lag
<1>4. Lag(p)' >= Extra(p) /\ (Extra(p) = 0 => Lag(p)' > Extra(p))
  BY <1>3
<1>5. Filed(p)'
  BY <1>1, <1>4, FiledBegun DEF PaidInv
<1> QED  BY <1>1, <1>5, PaidByOne

LEMMA UserPaid ==
  ASSUME TypeOK, TypeOK', PaidInv, NEW t \in Threads, NEW p \in Pursuits, UserStep(t, p)
  PROVE  \A q \in Pursuits : Paid(q)' /\ Filed(q)'
<1>1. UNCHANGED <<at, on, faults, stale>> /\ faults \in Int /\ faults' >= faults /\ stale' = stale
  <2>1. UNCHANGED <<at, on, faults, stale>>
    BY DEF UserStep, Create, CommitAccepted, CommitRejected, Resume, Drop, CardTaken, CardHandled,
       Decides, Counts, tick, count
  <2>2. faults \in Int
    BY DEF TypeOK
  <2> QED  BY <2>1, <2>2
<1>2. ASSUME NEW r, PutBy(t, p, r), spent' = [spent EXCEPT ![p] = 0]
      PROVE  \A q \in Pursuits : Paid(q)' /\ Filed(q)'
  <2>1. spent'[p] = 0
    BY <1>2 DEF TypeOK
  <2>2. Paid(p)'
    BY <2>1, PaidAnew
  <2>3. Filed(p)'
    BY <1>1, <1>2, <2>1, <2>2, FiledBegun DEF PutBy, PaidInv
  <2> QED  BY <1>1, <1>2, <2>2, <2>3, PaidByOne DEF PutBy
<1>3. CASE Create(t, p)
  <2>1. PICK c \in BOOLEAN : PutBy(t, p, [NoRecord EXCEPT !.status = "active", !.cheap = c])
    BY <1>3 DEF Create
  <2>2. rec'[p].status = "active" /\ UNCHANGED spent
    BY <1>3, <2>1 DEF Create, PutBy, TypeOK, Tables, NoRecord
  <2>3. ~ Driven(rec'[p])
    BY <2>2 DEF Driven
  <2>4. Paid(p)'
    BY <1>1, <2>2, <2>3, Allowed, PaidKept DEF PaidInv, Like, Busy
  <2>5. Extra(p)' = Extra(p) /\ Lag(p)' >= Extra(p)
    <3>1. Extra(p)' = Extra(p)
      BY <1>1 DEF Extra, Busy
    <3> QED  BY <3>1, PaidTypesNext
  <2>6. Filed(p)'
    BY <1>1, <2>1, <2>2, <2>4, <2>5, FiledBegun DEF PutBy, PaidInv
  <2> QED  BY <1>1, <2>1, <2>2, <2>4, <2>6, PaidByOne DEF PutBy
<1>4. ASSUME UNCHANGED <<rec, file, spent>> PROVE \A q \in Pursuits : Paid(q)' /\ Filed(q)'
  BY <1>1, <1>4 DEF PaidInv, Paid, Filed, Busy, Extra, Lag, Allow
<1>5. CASE CardTaken(t, p)
  BY <1>4, <1>5 DEF CardTaken, store
<1>6. CASE CardHandled(t, p)
  BY <1>2, <1>4, <1>6 DEF CardHandled, store
<1> QED  BY <1>2, <1>3, <1>5, <1>6 DEF UserStep, CommitAccepted, CommitRejected, Resume, Drop, Decides

LEMMA ReconcilePaid ==
  ASSUME TypeOK, TypeOK', PaidInv, Reconcile, at \in {"idle", "loop"}, at' \in {"idle", "loop"},
         ~ Saving(file, Loop), UNCHANGED <<spent, on>>
  PROVE  \A p \in Pursuits : Paid(p)' /\ Filed(p)'
<1>1. PICK news \in [Pursuits -> News] :
        /\ rec' = [p \in Pursuits |-> Reconciled(rec[p], news[p])]
        /\ \/ rec' = rec /\ UNCHANGED <<file, count>>
           \/ rec' # rec /\ Counts /\ file' = Begun(file, Loop, Pursuits, rec')
  BY DEF Reconcile
<1>2. faults' >= faults /\ stale' = stale
  BY ReconcileTypes, Numbers DEF TypeOK
<1>3. ASSUME NEW p \in Pursuits PROVE Paid(p)' /\ Filed(p)'
  <2>1. rec[p] \in Records /\ news[p] \in News /\ rec'[p] = Reconciled(rec[p], news[p])
    BY <1>1 DEF TypeOK, Tables
  <2>2. Like(rec'[p], p)
    BY <2>1, ReconciledType DEF Like, Alike, Same, Driven, Final
  <2>3. Extra(p) = 0 /\ Extra(p)' = 0 /\ ~ Busy(p, "gate")' /\ ~ Busy(p, "verify")'
    BY DEF Extra, Busy
  <2>4. Allow' >= Allow /\ Allow' + Extra(p)' >= Allow + Extra(p) /\ Lag(p)' >= Extra(p)
    <3>1. Allow' >= Allow /\ Allow' \in Nat /\ Allow \in Nat /\ Lag(p)' \in {0, 1}
      BY <1>2, Allowed, PaidTypes, PaidTypesNext
    <3>2. Lag(p)' >= Extra(p)
      BY <2>3, <3>1
    <3>3. Allow' + Extra(p)' = Allow' /\ Allow + Extra(p) = Allow
      BY <2>3, <3>1, Sums
    <3> QED  BY <3>1, <3>2, <3>3
  <2>5. Paid(p)'
    BY <2>2, <2>3, <2>4, PaidKept DEF PaidInv
  <2>6. CASE UNCHANGED file
    <3>1. Lag(p)' >= Lag(p) /\ Extra(p)' >= Extra(p)
      BY <2>3, <2>6 DEF Lag, Saving
    <3> QED  BY <1>2, <2>5, <2>6, <3>1, FiledSilent DEF PaidInv
  <2>7. CASE file' = Begun(file, Loop, Pursuits, rec')
    BY <1>2, <2>4, <2>5, <2>7, FiledBegun DEF PaidInv
  <2> QED  BY <1>1, <2>5, <2>6, <2>7
<1> QED  BY <1>3

-----------------------------------------------------------------------------
(* The tick.                                                               *)

LEMMA VisitPaid ==
  ASSUME TypeOK, TypeOK', PaidInv, NEW p \in Pursuits, Visit(p)
  PROVE  \A q \in Pursuits : Paid(q)' /\ Filed(q)'
<1> DEFINE q == rec[p]
<1>1. /\ at = "loop" /\ ~ Saving(file, Loop) /\ on' = p /\ UNCHANGED <<faults, stale>>
      /\ faults' >= faults /\ q \in Records /\ Paid(p) /\ Filed(p)
      /\ Extra(p) = 0 /\ Lag(p) = 0 /\ Allow' = Allow /\ Allow \in Nat /\ spent[p] \in Nat
  <2>1. at = "loop" /\ ~ Saving(file, Loop) /\ on' = p /\ UNCHANGED <<faults, stale>>
    BY DEF Visit, count, At
  <2>2. faults \in Nat /\ q \in Records /\ Allow \in Nat /\ spent[p] \in Nat
    BY PaidTypes
  <2>3. Extra(p) = 0 /\ Lag(p) = 0 /\ Allow' = Allow
    BY <2>1 DEF Extra, Busy, Lag, Allow
  <2> QED  BY <2>1, <2>2, <2>3 DEF PaidInv
<1>2. ASSUME UNCHANGED <<rec, file, spent>>, at' \in {"loop", "recheck", "gate"},
             at' = "gate" => spent[p] < Limit + Allow
      PROVE  \A o \in Pursuits : Paid(o)' /\ Filed(o)'
  <2>1. Extra(p)' = 0 /\ Lag(p)' \in {0, 1} /\ ~ Busy(p, "verify")'
    BY <1>2, PaidTypesNext DEF Extra, Busy
  <2>2. Paid(p)'
    BY <1>1, <1>2, <2>1 DEF Paid, Busy
  <2>3. Extra(p)' >= Extra(p) /\ Lag(p)' >= Lag(p)
    BY <1>1, <2>1
  <2>4. Filed(p)'
    BY <1>1, <1>2, <2>3, FiledSilent
  <2>5. rec' = [rec EXCEPT ![p] = q]
    BY <1>2 DEF TypeOK, Tables
  <2> QED  BY <1>1, <1>2, <2>2, <2>4, <2>5, PaidByOne
<1>3. CASE PassBy(p)
  BY <1>2, <1>3 DEF PassBy, store
<1>4. ASSUME ~ Skips(q), ~ Waits(q) PROVE Driven(q) /\ spent[p] < Limit + Allow
  <2>1. Driven(q)
    BY <1>4 DEF Skips, Waits, Driven
  <2>2. Allow + Extra(p) = Allow
    BY <1>1
  <2> QED  BY <1>1, <2>1, <2>2 DEF Paid, Held
<1>5. CASE ~ Skips(q) /\ VisitCheap(p)
  <2>1. CASE Put(p, Completed(q)) /\ at' = "loop" /\ UNCHANGED <<due, spent>>
    <3>1. rec'[p] = Completed(q) /\ ~ Busy(p, "gate")' /\ ~ Busy(p, "verify")'
      BY <2>1 DEF Put, PutBy, TypeOK, Tables, Busy
    <3>2. ~ Driven(rec'[p])
      BY <1>1, <3>1, RecordFields DEF Driven
    <3>3. Paid(p)'
      BY <1>1, <2>1, <3>1, <3>2, PaidKept DEF Like
    <3> QED  BY <1>1, <2>1, <3>3, FiledPut
  <2>2. CASE Settle(p, Failed(q)) /\ Stamp(p) /\ UNCHANGED spent
    <3>1. Driven(q) => spent[p] <= Cost(q) + Allow
      <4>1. Allow + Extra(p) = Allow
        BY <1>1
      <4> QED  BY <1>1, <4>1, CostBounds DEF Paid, Held
    <3>2. /\ Failed(q) \in Records /\ (Driven(Failed(q)) => Driven(q))
          /\ Cost(Failed(q)) >= Cost(q) /\ Cost(Failed(q)) \in Nat /\ Cost(q) \in Nat
      BY <1>1, CostFailed, CostBounds, RecordTypes, RecordFields DEF Driven, Same
    <3>3. Driven(Failed(q)) => spent[p] <= Cost(Failed(q)) + Allow
      BY <1>1, <3>1, <3>2
    <3>4. Paid(p)'
      BY <1>1, <2>2, <3>2, <3>3, PaidSettled
    <3> QED  BY <1>1, <2>2, <3>4, FiledPut
  <2>3. CASE ~ Waits(q) /\ Drive(p)
    <3>1. Paid(p)' /\ (spent'[p] = spent[p] \/ spent'[p] = spent[p] + 1)
      BY <1>1, <1>4, <1>5, <2>3, PaidDriven
    <3>2. UNCHANGED spent \/ \E n : spent' = [spent EXCEPT ![p] = n]
      BY <2>3 DEF Drive
    <3> QED  BY <1>1, <2>3, <3>1, <3>2, FiledPut
  <2> QED  BY <1>3, <1>5, <2>1, <2>2, <2>3 DEF VisitCheap
<1>6. CASE ~ Skips(q) /\ VisitCostly(p)
  <2>1. CASE Stamp(p) /\ at' = "recheck" /\ UNCHANGED <<store, spent>>
    BY <1>2, <2>1 DEF store
  <2>2. CASE ~ Waits(q) /\ at' = "gate" /\ UNCHANGED <<store, due, spent>>
    BY <1>2, <1>4, <1>6, <2>2 DEF store
  <2> QED  BY <1>3, <1>6, <2>1, <2>2 DEF VisitCostly
<1> QED  BY <1>3, <1>5, <1>6 DEF Visit

\* A goal that the tick holds at an await is completed.
LEMMA PaidCompleted ==
  ASSUME TypeOK, TypeOK', PaidInv, NEW r \in Records, Put(on, Completed(r)), ~ Saving(file, Loop),
         at' = "loop", UNCHANGED <<on, faults, stale, spent>>
  PROVE  \A p \in Pursuits : Paid(p)' /\ Filed(p)'
<1>1. on \in Pursuits /\ rec'[on] = Completed(r) /\ faults \in Nat /\ Allow' = Allow /\ Allow \in Nat
  <2>1. on \in Pursuits
    BY DEF TypeOK
  <2> QED  BY <2>1, PaidTypes DEF TypeOK, Tables, Put, PutBy, Allow
<1>2. ~ Driven(rec'[on])
  BY <1>1, RecordFields DEF Driven
<1>3. ~ Busy(on, "gate")' /\ ~ Busy(on, "verify")' /\ faults' >= faults /\ Allow' >= Allow
  BY <1>1 DEF Busy
<1>4. Paid(on)'
  BY <1>1, <1>2, <1>3, PaidKept DEF PaidInv, Like
<1> QED  BY <1>1, <1>3, <1>4, FiledPut

LEMMA RecheckPaid ==
  ASSUME TypeOK, TypeOK', PaidInv, Recheck PROVE \A p \in Pursuits : Paid(p)' /\ Filed(p)'
<1>1. /\ on \in Pursuits /\ rec[on] \in Records /\ faults \in Nat /\ at = "recheck" /\ at' = "loop"
      /\ ~ Saving(file, Loop) /\ UNCHANGED <<on, faults, stale, spent>>
      /\ faults' >= faults /\ Allow' = Allow /\ Allow \in Nat
  <2>1. /\ on \in Pursuits /\ at = "recheck" /\ at' = "loop"
        /\ ~ Saving(file, Loop) /\ UNCHANGED <<on, faults, stale, spent>>
    BY DEF Recheck, TypeOK, NextGoal, Await, count, At
  <2> QED  BY <2>1, PaidTypes DEF Allow
<1>2. CASE Put(on, Completed(rec[on]))
  BY <1>1, <1>2, PaidCompleted
<1>3. CASE Put(on, rec[on])
  <2>1. rec'[on] = rec[on]
    BY <1>1, <1>3 DEF Put, PutBy, TypeOK, Tables
  <2>2. Like(rec'[on], on)
    BY <2>1 DEF Like, Alike, Same
  <2>3. Extra(on) = 0 /\ Extra(on)' = 0 /\ ~ Busy(on, "gate")' /\ ~ Busy(on, "verify")'
    BY <1>1 DEF Extra, Busy
  <2>4. Allow' >= Allow /\ Allow' + Extra(on)' >= Allow + Extra(on)
    BY <1>1, <2>3
  <2>5. Paid(on)'
    BY <1>1, <2>2, <2>3, <2>4, PaidKept DEF PaidInv
  <2> QED  BY <1>1, <1>3, <2>5, FiledPut
<1> QED  BY <1>2, <1>3 DEF Recheck

LEMMA GatePaid ==
  ASSUME TypeOK, TypeOK', PaidInv, Gate PROVE \A p \in Pursuits : Paid(p)' /\ Filed(p)'
<1>1. /\ on \in Pursuits /\ rec[on] \in Records /\ at = "gate" /\ ~ Saving(file, Loop)
      /\ UNCHANGED <<on, faults, stale>> /\ faults' >= faults /\ spent[on] \in Nat
      /\ Extra(on) = 0 /\ Allow \in Nat /\ Allow + Extra(on) = Allow /\ Paid(on)
  <2>1. on \in Pursuits /\ at = "gate" /\ ~ Saving(file, Loop) /\ UNCHANGED <<on, faults, stale>>
    BY DEF Gate, TypeOK, count, At
  <2>2. faults \in Nat /\ rec[on] \in Records /\ spent[on] \in Nat /\ Allow \in Nat
    BY <2>1, PaidTypes
  <2>3. Extra(on) = 0
    BY <2>1 DEF Extra, Busy
  <2> QED  BY <2>1, <2>2, <2>3 DEF PaidInv
<1>2. CASE Put(on, Completed(rec[on])) /\ at' = "loop" /\ UNCHANGED <<due, spent>>
  BY <1>1, <1>2, PaidCompleted
<1>3. CASE Settle(on, Failed(rec[on])) /\ UNCHANGED spent
  <2> DEFINE q == rec[on]
  <2>1. Driven(q) => spent[on] <= Cost(q) + Allow
    BY <1>1, CostBounds DEF Paid, Held
  <2>2. /\ Failed(q) \in Records /\ (Driven(Failed(q)) => Driven(q))
        /\ Cost(Failed(q)) >= Cost(q) /\ Cost(Failed(q)) \in Nat /\ Cost(q) \in Nat
    BY <1>1, CostFailed, CostBounds, RecordTypes, RecordFields DEF Driven, Same
  <2>3. Driven(Failed(q)) => spent[on] <= Cost(Failed(q)) + Allow
    BY <1>1, <2>1, <2>2
  <2>4. Paid(on)'
    BY <1>1, <1>3, <2>2, <2>3, PaidSettled
  <2> QED  BY <1>1, <1>3, <2>4, FiledPut
<1>4. CASE Drive(on)
  <2>1. spent[on] < Limit + Allow
    BY <1>1 DEF Paid, Busy
  <2>2. Paid(on)' /\ (spent'[on] = spent[on] \/ spent'[on] = spent[on] + 1)
    BY <1>1, <1>4, <2>1, PaidDriven
  <2>3. UNCHANGED spent \/ \E n : spent' = [spent EXCEPT ![on] = n]
    BY <1>4 DEF Drive
  <2> QED  BY <1>1, <1>4, <2>2, <2>3, FiledPut
<1> QED  BY <1>2, <1>3, <1>4 DEF Gate

LEMMA PursuePaid ==
  ASSUME TypeOK, TypeOK', PaidInv, PursueStep PROVE \A p \in Pursuits : Paid(p)' /\ Filed(p)'
<1> DEFINE q == rec[on]
<1>1. /\ on \in Pursuits /\ q \in Records /\ at = "pursue" /\ ~ Saving(file, Loop)
      /\ UNCHANGED <<on, spent, stale>> /\ (UNCHANGED faults \/ faults' = faults + 1)
  BY DEF PursueStep, PursueNothing, PursueRaised, PursueInfeasible, PursueEnded, TypeOK, Tables,
     count, Await, At
<1>1a. /\ faults \in Nat /\ faults' >= faults /\ spent[on] \in Nat /\ Extra(on) = 1
       /\ Cost(q) \in Nat /\ Limit \in Nat /\ Allow \in Nat /\ Allow' \in Nat
       /\ UNCHANGED faults => Allow' = Allow
       /\ faults' = faults + 1 => Allow' = Allow + 1
       /\ Allow' >= Allow
  <2>1. faults \in Nat /\ spent[on] \in Nat /\ Allow \in Nat /\ Allow' \in Nat
    BY <1>1, PaidTypes, PaidTypesNext
  <2>2. Extra(on) = 1 /\ faults' >= faults
    BY <1>1, <2>1 DEF Extra, Busy
  <2> QED  BY <1>1, <2>1, <2>2, Allowed, CostBounds, Numbers
<1>2. /\ spent[on] <= Limit + Allow /\ Paid(on)
      /\ Driven(q) => spent[on] <= Cost(q) + Allow + 1
      /\ Driven(q) /\ AtFloor(q) => spent[on] <= Cost(q) + Allow
  BY <1>1, <1>1a DEF PaidInv, Paid, Held
\* What the run adds to the counters covers it.
<1>3. ASSUME NEW r \in Records, Driven(r) => Driven(q),
             Cost(r) >= Cost(q) \/ Cost(r) >= Limit, ~ AtFloor(q) => Cost(r) >= Cost(q) + 1
      PROVE  Driven(r) => spent[on] <= Cost(r) + Allow
  <2>1. Cost(r) \in Nat
    BY <1>3, CostBounds
  <2> QED  BY <1>1a, <1>2, <1>3, <2>1
<1>4. ASSUME NEW r \in Records, Settle(on, r), UNCHANGED faults,
             Driven(r) => spent[on] <= Cost(r) + Allow
      PROVE  \A p \in Pursuits : Paid(p)' /\ Filed(p)'
  <2>1. Paid(on)'
    BY <1>1, <1>2, <1>4, PaidSettled
  <2> QED  BY <1>1, <1>1a, <1>4, <2>1, FiledPut
<1>5. CASE PursueNothing
  <2>1. Settle(on, q) /\ faults' = faults + 1
    BY <1>5 DEF PursueNothing
  <2>2. rec'[on] = (IF AtFloor(q) THEN Suspended(q) ELSE q) /\ at' \in {"card", "loop"}
    BY <1>1, <2>1 DEF Settle, Put, PutBy, TypeOK, Tables
  <2>3. ~ Driven(rec'[on]) \/ rec'[on] = q
    BY <1>1, <2>2, RecordFields DEF Driven
  <2>4. Like(rec'[on], on)
    BY <2>3 DEF Like, Alike, Same
  <2>5. Extra(on)' = 0 /\ ~ Busy(on, "gate")' /\ ~ Busy(on, "verify")'
    BY <2>2 DEF Extra, Busy
  <2>6. Allow' + Extra(on)' >= Allow + Extra(on)
    BY <1>1a, <2>1, <2>5
  <2>7. Paid(on)'
    BY <1>1, <1>1a, <1>2, <2>4, <2>5, <2>6, PaidKept
  <2> QED  BY <1>1, <1>1a, <2>1, <2>7, FiledPut
<1>6. CASE PursueRaised
  <2>1. Settle(on, Failed(q)) /\ UNCHANGED faults
    BY <1>6 DEF PursueRaised, count
  <2>2. /\ Failed(q) \in Records /\ (Driven(Failed(q)) => Driven(q))
        /\ Cost(Failed(q)) >= Cost(q) /\ (~ AtFloor(q) => Cost(Failed(q)) >= Cost(q) + 1)
    BY <1>1, RecordTypes, RecordFields, CostFailed DEF Driven, Same
  <2> QED  BY <1>3, <1>4, <2>1, <2>2
<1>7. CASE PursueInfeasible
  <2> DEFINE r == [Advanced(q) EXCEPT !.suspended = TRUE]
  <2>1. Put(on, r) /\ at' = "report"
    BY <1>7 DEF PursueInfeasible, Await
  <2>2. rec'[on] = r /\ ~ Driven(r)
    BY <1>1, <2>1, RecordTypes DEF Put, PutBy, TypeOK, Tables, Driven, Records
  <2>3. ~ Busy(on, "gate")' /\ ~ Busy(on, "verify")'
    BY <2>1 DEF Busy
  <2>4. Paid(on)'
    BY <1>1, <1>1a, <1>2, <2>2, <2>3, PaidKept DEF Like
  <2> QED  BY <1>1, <1>1a, <2>1, <2>4, FiledPut
<1>8. CASE PursueEnded
  <2>1. PICK r \in Outcomes(Advanced(q)) :
          \/ r.cheap /\ Put(on, Completed(r)) /\ at' = "loop"
          \/ r.cheap /\ Settle(on, r)
          \/ ~ r.cheap /\ rec' = [rec EXCEPT ![on] = r] /\ at' = "verify" /\ UNCHANGED file
    BY <1>8 DEF PursueEnded
  <2>2. UNCHANGED faults
    BY <1>8 DEF PursueEnded, count
  <2>3. r \in Records /\ (Driven(r) => Driven(q))
    <3>1. Advanced(q) \in Records /\ Same(Advanced(q), q)
      BY <1>1, RecordTypes, RecordFields
    <3>2. r \in Records /\ Same(r, Advanced(q))
      BY <3>1, OutcomeFields
    <3> QED  BY <3>1, <3>2 DEF Driven, Same
  <2>4. Driven(r) => spent[on] <= Cost(r) + Allow
    BY <1>1, <1>3, <2>3, CostOutcome
  <2>5. CASE Put(on, Completed(r)) /\ at' = "loop"
    BY <1>1, <2>2, <2>3, <2>5, PaidCompleted
  <2>6. CASE Settle(on, r)
    BY <1>4, <2>2, <2>3, <2>4, <2>6
  <2>7. CASE rec' = [rec EXCEPT ![on] = r] /\ at' = "verify" /\ UNCHANGED file
    <3>1. rec'[on] = r /\ Extra(on)' = 1 /\ Lag(on)' = 1 /\ ~ Busy(on, "gate")' /\ Allow' = Allow
      BY <1>1, <1>1a, <2>2, <2>7 DEF TypeOK, Tables, Extra, Busy, Lag
    <3>2. Held(r, spent[on], Allow + 1)
      BY <1>1a, <1>2, <2>3, <2>4, CostBounds DEF Held
    <3>3. Paid(on)'
      BY <1>1, <1>2, <2>4, <2>7, <3>1, <3>2 DEF Paid
    <3>4. Extra(on)' >= Extra(on) /\ Lag(on)' >= Lag(on)
      BY <1>1, <1>1a, <3>1, PaidTypes
    <3>5. Filed(on)'
      BY <1>1, <1>1a, <2>7, <3>4, FiledSilent DEF PaidInv
    <3> QED  BY <1>1, <1>1a, <2>7, <3>3, <3>5, PaidByOne
  <2> QED  BY <2>1, <2>5, <2>6, <2>7
<1> QED  BY <1>5, <1>6, <1>7, <1>8 DEF PursueStep

LEMMA VerifyPaid ==
  ASSUME TypeOK, TypeOK', PaidInv, Verify PROVE \A p \in Pursuits : Paid(p)' /\ Filed(p)'
<1>1. /\ on \in Pursuits /\ rec[on] \in Records /\ faults \in Nat /\ at = "verify"
      /\ ~ Saving(file, Loop) /\ UNCHANGED <<on, faults, stale, spent>>
  <2>1. on \in Pursuits
    BY DEF TypeOK
  <2> QED  BY <2>1, PaidTypes DEF Verify, count, At
<1>2. CASE Put(on, Completed(rec[on])) /\ at' = "loop"
  BY <1>1, <1>2, PaidCompleted
<1>3. CASE Settle(on, rec[on])
  <2>1. Driven(rec[on]) => spent[on] <= Cost(rec[on]) + Allow
    BY <1>1 DEF PaidInv, Paid, Busy
  <2>2. Paid(on)'
    BY <1>1, <1>3, <2>1, PaidSettled DEF PaidInv
  <2>3. faults' >= faults
    BY <1>1
  <2> QED  BY <1>1, <1>3, <2>2, <2>3, FiledPut
<1> QED  BY <1>2, <1>3 DEF Verify

\* A crash forgets at most the run under way; of a file that saves have
\* overlapped in, it may forget all.
LEMMA CrashPaid ==
  ASSUME TypeOK, TypeOK', PaidInv, Crash PROVE \A p \in Pursuits : Paid(p)' /\ Filed(p)'
<1> SUFFICES ASSUME NEW p \in Pursuits PROVE Paid(p)' /\ Filed(p)'
  OBVIOUS
<1>1. /\ rec' = file.book /\ spent' = spent /\ faults' = faults + 1 /\ at' = "idle"
      /\ file'.book = file.book /\ file'.dumps = {}
      /\ stale' = (IF file.sound THEN stale ELSE stale + 1)
  BY DEF Crash, NewFile
<1>2. /\ Extra(p)' = 0 /\ Lag(p)' = 0 /\ ~ Busy(p, "gate")' /\ ~ Busy(p, "verify")'
  BY <1>1 DEF Extra, Busy, Lag, Saving
<1>3. /\ spent[p] \in Nat /\ Allow \in Nat /\ Allow' \in Nat /\ faults \in Nat /\ faults' >= faults
      /\ file.book[p] \in Records /\ Lag(p) \in {0, 1} /\ spent[p] <= Limit + Allow
      /\ Limit \in Nat /\ faults' - faults = 1
  BY <1>1, PaidTypes, PaidTypesNext, Numbers DEF PaidInv, Paid
<1>4. Held(file.book[p], spent[p], Allow') /\ spent[p] <= Limit + Allow'
  <2>1. CASE file.sound
    <3>1. Held(file.book[p], spent[p], Allow + Lag(p))
      BY <2>1 DEF PaidInv, Filed
    <3>2. Allow' = Allow + 1
      BY <1>1, <1>3, <2>1, Allowed
    <3>3. Allow + Lag(p) \in Nat /\ Allow + Lag(p) <= Allow'
      BY <1>3, <3>2
    <3> QED  BY <1>3, <3>1, <3>2, <3>3, MoreHeld
  <2>2. CASE ~ file.sound
    <3>1. stale' = stale + 1
      BY <1>1, <2>2
    <3>2. Allow' >= Allow + Limit + (faults' - faults)
      BY <1>3, <3>1, Allowed
    <3>3. spent[p] < Allow' /\ Cost(file.book[p]) \in Nat
      BY <1>3, <3>2, CostBounds
    <3> QED  BY <1>3, <3>3 DEF Held
  <2> QED  BY <2>1, <2>2
<1>5. Allow' + Extra(p)' = Allow' /\ Allow' + Lag(p)' = Allow'
  BY <1>2, <1>3, Sums
<1>6. Paid(p)'
  BY <1>1, <1>2, <1>4, <1>5 DEF Paid
<1>7. Filed(p)'
  BY <1>1, <1>4, <1>5 DEF Filed
<1> QED  BY <1>6, <1>7

LEMMA PaidStep == PaidInv /\ [Next]_vars => PaidInv'
<1> SUFFICES ASSUME PaidInv, [Next]_vars PROVE \A p \in Pursuits : Paid(p)' /\ Filed(p)'
  BY TypeStep, FileStep DEF PaidInv
<1>1. TypeOK /\ TypeOK'
  BY TypeStep DEF PaidInv
<1>2. ASSUME UNCHANGED <<rec, file, spent, faults, stale, on>>,
             at = at' \/ (at \in {"card", "report"} /\ at' = "loop")
      PROVE  \A p \in Pursuits : Paid(p)' /\ Filed(p)'
  <2> SUFFICES ASSUME NEW p \in Pursuits PROVE Paid(p)' /\ Filed(p)'
    OBVIOUS
  <2>1. /\ Extra(p)' = Extra(p) /\ (Busy(p, "gate")' => Busy(p, "gate"))
        /\ (Busy(p, "verify")' => Busy(p, "verify"))
    BY <1>2 DEF Extra, Busy
  <2>2. Lag(p)' = Lag(p) /\ Allow' = Allow
    BY <1>2, <2>1 DEF Lag, Allow
  <2> QED  BY <1>2, <2>1, <2>2 DEF PaidInv, Paid, Filed
<1>3. CASE \E t \in Threads, p \in Pursuits : UserStep(t, p)
  BY <1>1, <1>3, UserPaid
<1>4. CASE TickStart \/ TickEnd
  BY <1>1, <1>4, ReconcilePaid DEF TickStart, TickEnd, At
<1>5. CASE \E p \in Pursuits : Visit(p)
  BY <1>1, <1>5, VisitPaid
<1>6. CASE CardOut \/ ReportOut \/ (\E p \in Pursuits : Due(p)) \/ UNCHANGED vars
  BY <1>2, <1>6 DEF CardOut, ReportOut, NextGoal, Await, At, Due, vars, store, tick, count
<1> QED  BY <1>1, <1>3, <1>4, <1>5, <1>6, RecheckPaid, GatePaid, PursuePaid, VerifyPaid, SavedPaid,
            CrashPaid
       DEF Next, TickStep

\* Without the user a goal costs at most MaxAdvances * MaxFailures model runs
\* and one more for every crash and every round without a model, whatever is
\* created, dropped, resumed and reconciled meanwhile (_advance_one,
\* _hit_cost_floor); and once more as many for every crash that finds a file
\* in which saves have overlapped (PursuitStore._save).
THEOREM BudgetKept == Spec => []BudgetHolds
<1>1. Init => PaidInv
  <2> SUFFICES ASSUME Init PROVE PaidInv
    OBVIOUS
  <2>1. TypeOK /\ FileInv
    BY TypeInit, FileInit
  <2>2. ASSUME NEW p \in Pursuits PROVE Paid(p) /\ Filed(p)
    <3>1. /\ ~ Driven(rec[p]) /\ ~ Driven(file.book[p]) /\ file.dumps = {} /\ spent[p] = 0
          /\ ~ Busy(p, "gate") /\ ~ Busy(p, "verify")
      BY DEF Init, NewFile, NoGoals, NoRecord, Driven, Busy
    <3>2. Allow \in Nat /\ Limit \in Nat
      BY <2>1, PaidTypes, Numbers
    <3> QED  BY <3>1, <3>2 DEF Paid, Filed, Held
  <2> QED  BY <2>1, <2>2 DEF PaidInv
<1>2. PaidInv => BudgetHolds
  <2> SUFFICES ASSUME PaidInv, NEW p \in Pursuits PROVE spent[p] <= Limit * (1 + stale) + faults
    BY DEF BudgetHolds, Limit
  <2>1. stale \in Nat /\ Limit \in Nat /\ faults \in Nat /\ spent[p] \in Nat
    BY PaidTypes, Numbers DEF PaidInv
  <2>2. ASSUME NEW a \in Nat, NEW b \in Nat PROVE a * (1 + b) = a + a * b /\ a * b \in Nat
    OBVIOUS
  <2>3. Limit * (1 + stale) = Limit + Limit * stale /\ Limit * stale \in Nat
    BY <2>1, <2>2
  <2>4. spent[p] <= Limit + (Limit * stale + faults)
    BY DEF PaidInv, Paid, Allow
  <2> QED  BY <2>1, <2>3, <2>4
<1> QED  BY <1>1, <1>2, PaidStep, PTL DEF Spec
=============================================================================
