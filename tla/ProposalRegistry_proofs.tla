----------------------- MODULE ProposalRegistry_proofs -----------------------
(* Proofs about ProposalRegistry, for every value of its constants. *)
EXTENDS ProposalRegistry, TLAPS

USE DEF InstIds, Modes

LEMMA NoReqType == NoReq \in [op : AllOps \cup {"none"}, card : Cards]
  BY CardsAssumption DEF NoReq

LEMMA ConstantTypes ==
  /\ NoCard \in Objects
  /\ NoMeta \in Metas /\ FreshMeta \in Metas
  /\ EmptyFile \in Files /\ TornFile \in Files /\ InitFile \in Files
<1>1. NoCard \in Objects
  BY BoundsAssumption DEF NoCard, Objects
<1>2. NoMeta \in Metas /\ FreshMeta \in Metas
  BY DEF NoMeta, FreshMeta, Metas
<1>3. EmptyFile \in Files
  BY <1>1, <1>2 DEF EmptyFile, Files
<1>4. TornFile \in Files
  BY <1>3 DEF TornFile, Files
<1>5. [c \in Cards |-> [inst |-> InitInst[c], mode |-> "blocking"]]
        \in [Cards -> Objects]
  BY BoundsAssumption DEF Objects
<1>6. [c \in Cards |-> IF InitInst[c] = 0 THEN NoMeta ELSE FreshMeta]
        \in [Cards -> Metas]
  BY <1>2
<1>7. InitFile \in Files
  BY <1>3, <1>5, <1>6 DEF InitFile, Files
<1>8. QED
  BY <1>1, <1>2, <1>3, <1>4, <1>7

LEMMA LoadTypes ==
  ASSUME NEW f \in Files
  PROVE  LoadPending(f) \in [Cards -> Objects] /\ LoadMeta(f) \in [Cards -> Metas]
  BY ConstantTypes DEF LoadPending, LoadMeta, Files, Metas

LEMMA SnapshotType ==
  ASSUME pending \in [Cards -> Objects], meta \in [Cards -> Metas]
  PROVE  Snapshot \in Files
  BY ConstantTypes DEF Snapshot, Files

\* Counting one more occurrence keeps the type of a history counter.
LEMMA CountType ==
  ASSUME NEW f \in [InstIds -> 0 .. 2], NEW i \in InstIds
  PROVE  [f EXCEPT ![i] = Succ2(@)] \in [InstIds -> 0 .. 2]
<1>1. Succ2(f[i]) \in 0 .. 2
  BY DEF Succ2
<1>2. QED
  BY <1>1

\* Leave keeps the types of the four control variables it writes.
LEMMA LeaveType ==
  ASSUME TypeOK, NEW t \in Threads, NEW l \in Labels, Leave(t, l)
  PROVE  /\ pc' \in [Threads -> Labels]
         /\ ret' \in [Threads -> Labels]
         /\ req' \in [Threads -> [op : AllOps \cup {"none"}, card : Cards]]
         /\ prop' \in [Threads -> Objects]
<1>1. "idle" \in Labels
  BY DEF Labels
<1>2. CASE l = "idle"
  <2>1. /\ pc \in [Threads -> Labels] /\ ret \in [Threads -> Labels]
        /\ req \in [Threads -> [op : AllOps \cup {"none"}, card : Cards]]
        /\ prop \in [Threads -> Objects]
    BY DEF TypeOK
  <2>2. /\ pc' = [pc EXCEPT ![t] = "idle"] /\ ret' = [ret EXCEPT ![t] = "idle"]
        /\ req' = [req EXCEPT ![t] = NoReq] /\ prop' = [prop EXCEPT ![t] = NoCard]
    BY <1>2 DEF Leave
  <2>3. pc' \in [Threads -> Labels] /\ ret' \in [Threads -> Labels]
    BY <1>1, <2>1, <2>2
  <2>4. req' \in [Threads -> [op : AllOps \cup {"none"}, card : Cards]]
    BY <2>1, <2>2, NoReqType
  <2>5. prop' \in [Threads -> Objects]
    BY <2>1, <2>2, ConstantTypes
  <2>6. QED
    BY <2>3, <2>4, <2>5
<1>3. CASE l # "idle"
  BY <1>1, <1>3 DEF TypeOK, Leave
<1>4. QED
  BY <1>2, <1>3

LEMMA RunHandlerType ==
  ASSUME TypeOK, NEW t \in Threads, RunHandler(t)
  PROVE  runs' \in [InstIds -> 0 .. 2]
<1>1. prop[t].inst \in InstIds
  BY DEF TypeOK, Objects
<1>2. QED
  BY <1>1, CountType DEF RunHandler, TypeOK

-----------------------------------------------------------------------------
(* Type correctness. *)

LEMMA InitType == Init => TypeOK
<1>1. SUFFICES ASSUME Init PROVE TypeOK
  OBVIOUS
<1>2. pending \in [Cards -> Objects] /\ meta \in [Cards -> Metas]
  BY <1>1, ConstantTypes, LoadTypes DEF Init
<1>3. /\ disk \in Files /\ lock \in {{}} \cup {{t} : t \in Threads}
      /\ minted \in InstIds /\ crashes \in 0 .. MaxCrashes
  BY <1>1, ConstantTypes, BoundsAssumption DEF Init
<1>4. /\ pc \in [Threads -> Labels] /\ ret \in [Threads -> Labels]
      /\ req \in [Threads -> [op : AllOps \cup {"none"}, card : Cards]]
      /\ prop \in [Threads -> Objects] /\ snap \in [Threads -> Files]
  <2>1. "idle" \in Labels
    BY DEF Labels
  <2>2. QED
    BY <1>1, <2>1, ConstantTypes, NoReqType DEF Init
<1>5. runs \in [InstIds -> 0 .. 2] /\ signals \in [InstIds -> 0 .. 2]
  BY <1>1 DEF Init
<1>6. QED
  BY <1>2, <1>3, <1>4, <1>5 DEF TypeOK

LEMMA StartType ==
  ASSUME TypeOK, NEW t \in Threads, Start(t)
  PROVE  TypeOK'
<1>1. ASSUME NEW c \in Cards, NEW op \in AllOps, Decide(t, op, c)
      PROVE  TypeOK'
  BY <1>1 DEF TypeOK, Decide, Request, Labels, shared, history
<1>2. ASSUME NEW c \in Cards, NEW op \in AllOps, Flip(t, op, c)
      PROVE  TypeOK'
  BY <1>2 DEF TypeOK, Flip, Request, Labels, shared, history
<1>3. ASSUME NEW c \in Cards, NEW op \in AllOps, Broadcast(t, op, c)
      PROVE  TypeOK'
  <2>1. minted + 1 \in InstIds /\ minted' \in InstIds
    BY <1>3, BoundsAssumption DEF TypeOK, Broadcast
  <2>2. prop' \in [Threads -> Objects]
    BY <1>3, <2>1 DEF TypeOK, Broadcast, Objects
  <2>3. pc' \in [Threads -> Labels]
    BY <1>3 DEF TypeOK, Broadcast, Labels
  <2>4. QED
    BY <1>3, <2>1, <2>2, <2>3 DEF TypeOK, Broadcast, Request, shared
<1>4. ASSUME NEW aged \in SUBSET Cards, AgeScan(t, aged)
      PROVE  TypeOK'
  <2>1. \A c \in Cards : [meta[c] EXCEPT !.reported = TRUE] \in Metas
    <3>1. \A c \in Cards : meta[c] \in Metas
      BY DEF TypeOK
    <3>2. QED
      BY <3>1 DEF Metas
  <2>2. meta' \in [Cards -> Metas]
    BY <1>4, <2>1 DEF TypeOK, AgeScan
  <2>3. "save" \in Labels /\ "idle" \in Labels
    BY DEF Labels
  <2>4. QED
    BY <1>4, <2>2, <2>3 DEF TypeOK, AgeScan, SaveThen, history
<1>5. QED
  BY <1>1, <1>2, <1>3, <1>4 DEF Start

\* The steps of a decision.
LEMMA DecisionType ==
  ASSUME TypeOK, NEW t \in Threads,
         \/ RecordSignals(t) \/ DecideGet(t) \/ DecideBranch(t)
         \/ TakePop(t) \/ TakeMeta(t) \/ Dispatch(t) \/ Defer(t)
  PROVE  TypeOK'
<1>1. CASE RecordSignals(t)
  <2>1. signals' \in [InstIds -> 0 .. 2]
    <3>1. pending[req[t].card].inst \in InstIds
      BY DEF TypeOK, Objects
    <3>2. QED
      BY <1>1, <3>1, CountType DEF RecordSignals, TypeOK
  <2>2. "get" \in Labels
    BY DEF Labels
  <2>3. QED
    BY <1>1, <2>1, <2>2, LeaveType DEF RecordSignals, TypeOK, shared
<1>2. CASE DecideGet(t)
  <2>1. "branch" \in Labels /\ "idle" \in Labels
    BY DEF Labels
  <2>2. CASE Live(req[t].card)
    <3>1. pending[req[t].card] \in Objects
      BY DEF TypeOK
    <3>2. /\ pc' = [pc EXCEPT ![t] = "branch"]
          /\ prop' = [prop EXCEPT ![t] = pending[req[t].card]]
          /\ UNCHANGED <<req, ret, snap, shared, history>>
      BY <1>2, <2>2 DEF DecideGet, Hold
    <3>3. pc' \in [Threads -> Labels] /\ prop' \in [Threads -> Objects]
      BY <2>1, <3>1, <3>2 DEF TypeOK
    <3>4. QED
      BY <3>2, <3>3 DEF TypeOK, shared, history
  <2>3. CASE ~Live(req[t].card)
    BY <1>2, <2>1, <2>3, LeaveType DEF DecideGet, TypeOK, shared, history
  <2>4. QED
    BY <2>2, <2>3
<1>3. CASE DecideBranch(t)
  <2>1. {"idle", "defer", "undefer", "take", "dispatch"} \subseteq Labels
    BY DEF Labels
  <2>2. CASE \E l \in {"idle", "defer", "undefer"} : Leave(t, l)
    BY <1>3, <2>1, <2>2, LeaveType DEF DecideBranch, TypeOK, shared, history
  <2>3. CASE /\ pc' = [pc EXCEPT ![t] = "take"]
             /\ \E l \in {"idle", "dispatch"} : ret' = [ret EXCEPT ![t] = l]
             /\ UNCHANGED <<req, prop>>
    BY <1>3, <2>1, <2>3 DEF DecideBranch, TypeOK, shared, history
  <2>4. QED
    BY <1>3, <2>2, <2>3 DEF DecideBranch
<1>4. CASE TakePop(t)
  <2>1. "takemeta" \in Labels
    BY DEF Labels
  <2>2. QED
    BY <1>4, <2>1, ConstantTypes DEF TakePop, Hold, TypeOK, history
<1>5. CASE TakeMeta(t)
  <2>1. "save" \in Labels /\ "idle" \in Labels
    BY DEF Labels
  <2>2. meta' \in [Cards -> Metas]
    BY <1>5, ConstantTypes DEF TakeMeta, TypeOK
  <2>3. QED
    BY <1>5, <2>1, <2>2, LeaveType DEF TakeMeta, TypeOK, history
<1>6. CASE Dispatch(t)
  <2>1. runs' \in [InstIds -> 0 .. 2]
    BY <1>6, RunHandlerType DEF Dispatch
  <2>2. "idle" \in Labels
    BY DEF Labels
  <2>3. QED
    BY <1>6, <2>1, <2>2, LeaveType DEF Dispatch, TypeOK, shared
<1>7. CASE Defer(t)
  <2>1. "save" \in Labels /\ "idle" \in Labels
    BY DEF Labels
  <2>2. meta' \in [Cards -> Metas]
    BY <1>7 DEF Defer, TypeOK, Metas
  <2>3. QED
    BY <1>7, <2>1, <2>2 DEF Defer, SaveThen, TypeOK, history
<1>8. QED
  BY <1>1, <1>2, <1>3, <1>4, <1>5, <1>6, <1>7

\* The steps of a suggestion and of the automatic run.
LEMMA SuggestionType ==
  ASSUME TypeOK, NEW t \in Threads,
         \/ RegisterPut(t) \/ RegisterMeta(t) \/ Reget(t)
         \/ ExecuteDispatch(t) \/ ExecuteMark(t)
  PROVE  TypeOK'
<1>0. {"regmeta", "stored", "idle", "save", "exec", "mark", "register"}
        \subseteq Labels
  BY DEF Labels
<1>1. CASE RegisterPut(t)
  BY <1>0, <1>1 DEF RegisterPut, TypeOK, locals, history
<1>2. CASE RegisterMeta(t)
  <2>1. meta' \in [Cards -> Metas]
    BY <1>2, ConstantTypes DEF RegisterMeta, TypeOK
  <2>2. QED
    BY <1>0, <1>2, <2>1, LeaveType DEF RegisterMeta, TypeOK, history
<1>3. CASE Reget(t)
  <2>1. PICK p \in Objects : Hold(t, p, "exec")
    BY <1>3 DEF Reget, TypeOK
  <2>2. QED
    BY <1>0, <1>3, <2>1 DEF Reget, Hold, TypeOK, shared, history
<1>4. CASE ExecuteDispatch(t)
  BY <1>0, <1>4, LeaveType, RunHandlerType DEF ExecuteDispatch, TypeOK, shared
<1>5. CASE ExecuteMark(t)
  <2>1. \E l \in {"idle", "register"} :
          \/ SaveThen(t, l) /\ meta' = [meta EXCEPT ![req[t].card].auto = TRUE,
                                          ![req[t].card].deferred = FALSE]
          \/ Leave(t, l) /\ UNCHANGED meta
    BY <1>5 DEF ExecuteMark
  <2>2. UNCHANGED <<pending, lock, disk, snap, history>>
    BY <1>5 DEF ExecuteMark
  <2>3. PICK l \in {"idle", "register"} :
          \/ SaveThen(t, l) /\ meta' = [meta EXCEPT ![req[t].card].auto = TRUE,
                                          ![req[t].card].deferred = FALSE]
          \/ Leave(t, l) /\ UNCHANGED meta
    BY <2>1
  <2>4. CASE Leave(t, l) /\ UNCHANGED meta
    BY <1>0, <2>2, <2>4, LeaveType DEF TypeOK, history
  <2>5. CASE SaveThen(t, l) /\ meta' = [meta EXCEPT ![req[t].card].auto = TRUE,
                                          ![req[t].card].deferred = FALSE]
    <3>1. meta \in [Cards -> Metas] /\ req[t].card \in Cards
      BY DEF TypeOK
    <3>2. [meta EXCEPT ![req[t].card].auto = TRUE] \in [Cards -> Metas]
      BY <3>1 DEF Metas
    <3>3. meta' \in [Cards -> Metas]
      BY <2>5, <3>1, <3>2 DEF Metas
    <3>4. QED
      BY <1>0, <2>2, <2>5, <3>3 DEF TypeOK, SaveThen, history
  <2>6. QED
    BY <2>3, <2>4, <2>5
<1>6. QED
  BY <1>1, <1>2, <1>3, <1>4, <1>5

\* The steps of the flip endpoint.
LEMMA FlipType ==
  ASSUME TypeOK, NEW t \in Threads,
         FlipGet(t) \/ FlipCheck(t) \/ SetMode(t)
  PROVE  TypeOK'
<1>0. {"flipcheck", "setmode", "reget", "save", "idle"} \subseteq Labels
  BY DEF Labels
<1>1. CASE FlipGet(t)
  BY <1>0, <1>1, LeaveType DEF FlipGet, TypeOK, shared, history
<1>2. CASE FlipCheck(t)
  BY <1>0, <1>2, LeaveType DEF FlipCheck, TypeOK, shared, history
<1>3. CASE SetMode(t)
  <2>1. PICK l \in {"reget", "idle"} :
          \/ Leave(t, l) /\ UNCHANGED <<pending, lock>>
          \/ /\ lock' = {t}
             /\ SaveThen(t, l)
             /\ \E m \in Modes :
                  pending' = [pending EXCEPT ![req[t].card].mode = m]
    BY <1>3 DEF SetMode
  <2>2. UNCHANGED <<meta, disk, snap, history>>
    BY <1>3 DEF SetMode
  <2>3. CASE Leave(t, l) /\ UNCHANGED <<pending, lock>>
    BY <1>0, <2>2, <2>3, LeaveType DEF TypeOK, history
  <2>4. CASE /\ lock' = {t}
             /\ SaveThen(t, l)
             /\ \E m \in Modes :
                  pending' = [pending EXCEPT ![req[t].card].mode = m]
    <3>1. pending' \in [Cards -> Objects]
      <4>1. PICK m \in Modes :
              pending' = [pending EXCEPT ![req[t].card].mode = m]
        BY <2>4
      <4>2. pending[req[t].card] \in Objects /\ req[t].card \in Cards
        BY DEF TypeOK
      <4>3. [pending[req[t].card] EXCEPT !.mode = m] \in Objects
        BY <4>2 DEF Objects
      <4>4. QED
        BY <4>1, <4>3 DEF TypeOK
    <3>2. QED
      BY <1>0, <2>2, <2>4, <3>1 DEF TypeOK, SaveThen, history
  <2>5. QED
    BY <2>1, <2>3, <2>4
<1>4. QED
  BY <1>1, <1>2, <1>3

\* The steps of _save, and a restart.
LEMMA SaveType ==
  ASSUME TypeOK, NEW t \in Threads,
         SaveBuild(t) \/ SaveTruncate(t) \/ SaveWrite(t) \/ SaveFail(t)
  PROVE  TypeOK'
<1>0. "trunc" \in Labels /\ "write" \in Labels /\ ret[t] \in Labels
  BY DEF Labels, TypeOK
<1>1. lock \ {t} \in {{}} \cup {{u} : u \in Threads}
  BY DEF TypeOK
<1>2. CASE SaveBuild(t)
  <2>1. Snapshot \in Files
    BY SnapshotType DEF TypeOK
  <2>2. QED
    BY <1>0, <1>1, <1>2, <2>1, LeaveType DEF SaveBuild, TypeOK, history
<1>3. CASE SaveTruncate(t)
  BY <1>0, <1>3, LeaveType, ConstantTypes DEF SaveTruncate, TypeOK, history
<1>4. ASSUME SaveEnd(t), disk' \in Files
      PROVE  TypeOK'
  BY <1>0, <1>1, <1>4, LeaveType, ConstantTypes DEF SaveEnd, TypeOK, history
<1>5. CASE SaveWrite(t)
  <2>1. disk' \in Files
    BY <1>5, ConstantTypes DEF SaveWrite, TypeOK
  <2>2. QED
    BY <1>4, <1>5, <2>1 DEF SaveWrite
<1>6. CASE SaveFail(t)
  BY <1>4, <1>6 DEF SaveFail, TypeOK
<1>7. QED
  BY <1>2, <1>3, <1>5, <1>6

LEMMA RestartType == TypeOK /\ Restart => TypeOK'
<1>1. SUFFICES ASSUME TypeOK, Restart PROVE TypeOK'
  OBVIOUS
<1>2. pending' \in [Cards -> Objects] /\ meta' \in [Cards -> Metas]
  BY <1>1, LoadTypes DEF Restart, TypeOK
<1>3. crashes' \in 0 .. MaxCrashes
  BY <1>1, BoundsAssumption DEF Restart, TypeOK
<1>4. "idle" \in Labels
  BY DEF Labels
<1>5. QED
  BY <1>1, <1>2, <1>3, <1>4, ConstantTypes, NoReqType DEF Restart, TypeOK

\* Every reachable state has its types: no step stores a card, a meta record or
\* a file of the wrong shape, and the lock never has two holders.
THEOREM TypeCorrect == Spec => []TypeOK
<1>1. ASSUME TypeOK, [Next]_vars
      PROVE  TypeOK'
  <2>1. CASE Restart
    BY <1>1, <2>1, RestartType
  <2>2. ASSUME NEW t \in Threads, Start(t)
        PROVE  TypeOK'
    BY <1>1, <2>2, StartType
  <2>3. ASSUME NEW t \in Threads, Continue(t)
        PROVE  TypeOK'
    BY <1>1, <2>3, DecisionType, SuggestionType, FlipType, SaveType DEF Continue
  <2>4. CASE UNCHANGED vars
    BY <1>1, <2>4 DEF TypeOK, vars
  <2>5. QED
    BY <1>1, <2>1, <2>2, <2>3, <2>4 DEF Next
<1>2. QED
  BY <1>1, InitType, PTL DEF Spec

-----------------------------------------------------------------------------
(* AtMostOnce in the blocking mode, without restarts.  A step moves objects *)
(* between the table and the threads in one of five ways.                   *)

BlockingOnly ==
  /\ MaxCrashes = 0
  /\ Ops \cap (Flips \cup {"suggest_nb"}) = {}

\* All threads but t keep what they own.
Alone(t) == \A u \in Threads : u # t => Own(u)' = Own(u)

Quiet(t) == /\ UNCHANGED <<pending, minted, runs>>
            /\ Own(t)' \in {Own(t), 0}
Mint(t)  == /\ UNCHANGED <<pending, runs>>
            /\ minted' = minted + 1
            /\ Own(t)' = minted + 1
Put(t)   == /\ UNCHANGED <<minted, runs>>
            /\ \E c \in Cards : pending' = [pending EXCEPT ![c] = prop[t]]
            /\ Own(t) = prop[t].inst
            /\ Own(t)' = 0
Pop(t)   == /\ UNCHANGED <<minted, runs>>
            /\ \E c \in Cards : /\ pending' = [pending EXCEPT ![c] = NoCard]
                               /\ Own(t) = 0
                               /\ Own(t)' \in {pending[c].inst, 0}
Fire(t)  == /\ UNCHANGED <<pending, minted>>
            /\ runs' = [runs EXCEPT ![Own(t)] = Succ2(@)]
            /\ Own(t) # 0
            /\ Own(t)' = 0

Moves(t) == /\ Alone(t)
            /\ Quiet(t) \/ Mint(t) \/ Put(t) \/ Pop(t) \/ Fire(t)
            /\ \A u \in Threads : prop'[u].inst <= minted'

LEMMA OwnType ==
  ASSUME TypeOK, NEW t \in Threads
  PROVE  Own(t) \in InstIds /\ prop[t].inst \in InstIds
  BY BoundsAssumption DEF TypeOK, Own, Objects

LEMMA AloneStep ==
  ASSUME NEW t \in Threads,
         \A u \in Threads : u # t => /\ pc'[u] = pc[u] /\ ret'[u] = ret[u]
                                    /\ req'[u] = req[u] /\ prop'[u] = prop[u]
  PROVE  Alone(t)
  BY DEF Alone, Own, Owes

\* SinglePlace and AtMostOnce about plain functions: what each thread owns, what
\* is pending under each id, how many objects exist, how often each ran.
Single(own, at, made, ran) ==
  /\ \A c, d \in Cards : c # d /\ at[c] = at[d] => at[c] = 0
  /\ \A t, u \in Threads : t # u /\ own[t] = own[u] => own[t] = 0
  /\ \A t \in Threads, c \in Cards : own[t] = at[c] => own[t] = 0
  /\ \A c \in Cards : at[c] <= made
  /\ \A t \in Threads : own[t] <= made
  /\ \A i \in 1 .. MaxInst :
       ran[i] > 0 => /\ i <= made
                     /\ \A c \in Cards : at[c] # i
                     /\ \A t \in Threads : own[t] # i
  /\ \A i \in InstIds : ran[i] <= 1

Owned == [u \in Threads |-> Own(u)]
Table == [c \in Cards |-> pending[c].inst]

LEMMA SingleMoves ==
  ASSUME NEW own \in [Threads -> InstIds], NEW at \in [Cards -> InstIds],
         NEW made \in InstIds, NEW ran \in [InstIds -> 0 .. 2],
         Single(own, at, made, ran), NEW t \in Threads
  PROVE  /\ Single([own EXCEPT ![t] = 0], at, made, ran)
         /\ Single([own EXCEPT ![t] = made + 1], at, made + 1, ran)
         /\ \A c \in Cards :
              /\ Single([own EXCEPT ![t] = 0], [at EXCEPT ![c] = own[t]], made, ran)
              /\ own[t] = 0 =>
                   /\ Single([own EXCEPT ![t] = at[c]], [at EXCEPT ![c] = 0], made, ran)
                   /\ Single(own, [at EXCEPT ![c] = 0], made, ran)
         /\ own[t] # 0 =>
              Single([own EXCEPT ![t] = 0], at, made,
                     [ran EXCEPT ![own[t]] = Succ2(@)])
<1>1. Single([own EXCEPT ![t] = 0], at, made, ran)
  BY BoundsAssumption DEF Single
<1>2. Single([own EXCEPT ![t] = made + 1], at, made + 1, ran)
  BY BoundsAssumption DEF Single
<1>3. ASSUME NEW c \in Cards
      PROVE  Single([own EXCEPT ![t] = 0], [at EXCEPT ![c] = own[t]], made, ran)
  BY BoundsAssumption DEF Single
<1>4. ASSUME NEW c \in Cards, own[t] = 0
      PROVE  Single([own EXCEPT ![t] = at[c]], [at EXCEPT ![c] = 0], made, ran)
  BY <1>4, BoundsAssumption DEF Single
<1>5. ASSUME NEW c \in Cards, own[t] = 0
      PROVE  Single(own, [at EXCEPT ![c] = 0], made, ran)
  BY <1>5, BoundsAssumption DEF Single
<1>6. ASSUME own[t] # 0
      PROVE  Single([own EXCEPT ![t] = 0], at, made,
                    [ran EXCEPT ![own[t]] = Succ2(@)])
  <2>0. own[t] \in 1 .. MaxInst
    BY <1>6, BoundsAssumption
  <2>1. own[t] \in 1 .. MaxInst /\ ran[own[t]] = 0
    <3>1. ~(ran[own[t]] > 0)
      <4>1. \A i \in 1 .. MaxInst : ran[i] > 0 => \A u \in Threads : own[u] # i
        BY DEF Single
      <4>2. QED
        BY <2>0, <4>1
    <3>2. ran[own[t]] \in 0 .. 2
      BY <2>0
    <3>3. QED
      BY <2>0, <3>1, <3>2
  <2>2. Succ2(ran[own[t]]) = 1
    BY <2>1 DEF Succ2
  <2>3. [ran EXCEPT ![own[t]] = Succ2(@)] = [ran EXCEPT ![own[t]] = 1]
    BY <2>2
  <2>4. Single([own EXCEPT ![t] = 0], at, made, [ran EXCEPT ![own[t]] = 1])
    BY <1>6, <2>1, BoundsAssumption DEF Single
  <2>5. QED
    BY <2>3, <2>4
<1>7. QED
  BY <1>1, <1>2, <1>3, <1>4, <1>5, <1>6

\* The objects a thread still holds a reference to were all produced.
Produced == \A u \in Threads : prop[u].inst <= minted

LEMMA SingleInv ==
  ASSUME TypeOK
  PROVE  /\ Owned \in [Threads -> InstIds] /\ Table \in [Cards -> InstIds]
         /\ SinglePlace /\ AtMostOnce
              <=> Single(Owned, Table, minted, runs) /\ Produced
<1>1. Owned \in [Threads -> InstIds] /\ Table \in [Cards -> InstIds]
  BY OwnType DEF Owned, Table, TypeOK, Objects
<1>2. \A u \in Threads : Own(u) <= minted <=> Owned[u] <= minted
  BY DEF Owned
<1>3. Produced => \A u \in Threads : Own(u) <= minted
  BY BoundsAssumption DEF Produced, Own, TypeOK
<1>4. QED
  BY <1>1, <1>2, <1>3 DEF SinglePlace, AtMostOnce, Single, Owned, Table, Produced

\* Whatever moves the objects in one of these ways keeps them single.
LEMMA MovesKeepSingle ==
  ASSUME TypeOK, TypeOK', SinglePlace, AtMostOnce,
         NEW t \in Threads, Moves(t)
  PROVE  SinglePlace' /\ AtMostOnce'
<1>1. /\ Owned \in [Threads -> InstIds] /\ Table \in [Cards -> InstIds]
      /\ minted \in InstIds /\ runs \in [InstIds -> 0 .. 2]
      /\ Single(Owned, Table, minted, runs)
  BY SingleInv DEF TypeOK
<1>2. Produced'
  BY DEF Moves, Produced
<1>3. Owned' = [Owned EXCEPT ![t] = Own(t)']
  BY DEF Moves, Alone, Owned
<1>4. Owned[t] = Own(t)
  BY DEF Owned
<1>5. Single(Owned', Table', minted', runs')
  <2>1. CASE Quiet(t)
    <3>1. Table' = Table
      BY <2>1 DEF Quiet, Table
    <3>2. Owned' = Owned \/ Owned' = [Owned EXCEPT ![t] = 0]
      BY <1>1, <1>3, <1>4, <2>1 DEF Quiet
    <3>3. minted' = minted /\ runs' = runs
      BY <2>1 DEF Quiet
    <3>4. Single([Owned EXCEPT ![t] = 0], Table, minted, runs)
      BY <1>1, SingleMoves
    <3>5. QED
      BY <1>1, <3>1, <3>2, <3>3, <3>4
  <2>2. CASE Mint(t)
    <3>1. Table' = Table
      BY <2>2 DEF Mint, Table
    <3>2. QED
      BY <1>1, <1>3, <2>2, <3>1, SingleMoves DEF Mint
  <2>3. CASE Put(t)
    <3>1. PICK c \in Cards : pending' = [pending EXCEPT ![c] = prop[t]]
      BY <2>3 DEF Put
    <3>2. Table' = [Table EXCEPT ![c] = Owned[t]]
      BY <1>4, <2>3, <3>1 DEF Put, Table, TypeOK
    <3>3. QED
      BY <1>1, <1>3, <2>3, <3>2, SingleMoves DEF Put
  <2>4. CASE Pop(t)
    <3>1. PICK c \in Cards : /\ pending' = [pending EXCEPT ![c] = NoCard]
                             /\ Own(t) = 0
                             /\ Own(t)' \in {pending[c].inst, 0}
      BY <2>4 DEF Pop
    <3>2. Table' = [Table EXCEPT ![c] = 0]
      BY <3>1 DEF Table, TypeOK, NoCard
    <3>3. \/ Owned' = [Owned EXCEPT ![t] = Table[c]]
          \/ Owned' = Owned
      BY <1>1, <1>3, <1>4, <3>1 DEF Table
    <3>4. minted' = minted /\ runs' = runs
      BY <2>4 DEF Pop
    <3>5. /\ Single([Owned EXCEPT ![t] = Table[c]], [Table EXCEPT ![c] = 0], minted, runs)
          /\ Single(Owned, [Table EXCEPT ![c] = 0], minted, runs)
      BY <1>1, <1>4, <3>1, SingleMoves
    <3>6. QED
      BY <3>2, <3>3, <3>4, <3>5
  <2>5. CASE Fire(t)
    <3>1. Table' = Table
      BY <2>5 DEF Fire, Table
    <3>2. QED
      BY <1>1, <1>3, <1>4, <2>5, <3>1, SingleMoves DEF Fire
  <2>6. QED
    BY <2>1, <2>2, <2>3, <2>4, <2>5 DEF Moves
<1>6. (Single(Owned, Table, minted, runs) /\ Produced)'
        => (SinglePlace /\ AtMostOnce)'
  <2>1. /\ Owned' \in [Threads -> InstIds] /\ Table' \in [Cards -> InstIds]
    BY BoundsAssumption DEF Owned, Own, Table, TypeOK, Objects
  <2>2. QED
    BY <2>1 DEF SinglePlace, AtMostOnce, Single, Owned, Table, Produced
<1>7. QED
  BY <1>2, <1>5, <1>6

\* A step that touches only the locals of t.
Only(t) == \A u \in Threads : u # t =>
             /\ pc'[u] = pc[u] /\ ret'[u] = ret[u]
             /\ req'[u] = req[u] /\ prop'[u] = prop[u]

LEMMA OnlyKeeps ==
  ASSUME NEW t \in Threads, Only(t), Control, ControlAt(t)'
  PROVE  Alone(t) /\ Control'
<1>1. Alone(t)
  BY AloneStep DEF Only
<1>2. \A u \in Threads : u # t => ControlAt(u)'
  BY DEF Only, Control, ControlAt
<1>3. QED
  BY <1>1, <1>2 DEF Control

LEMMA LeaveEffect ==
  ASSUME TypeOK, NEW t \in Threads, NEW l, Leave(t, l)
  PROVE  /\ Only(t)
         /\ pc'[t] = l
         /\ l = "idle" => ret'[t] = "idle" /\ prop'[t].inst = 0
         /\ l # "idle" => /\ ret'[t] = ret[t] /\ req'[t] = req[t]
                         /\ prop'[t] = prop[t]
  BY DEF Leave, Only, TypeOK, NoCard

\* What a step does to what t owns, by the label it leaves t at.
LEMMA OwnAt ==
  ASSUME NEW t \in Threads
  PROVE  /\ pc'[t] \in BlockingLabels \ {"register", "takemeta", "save", "trunc",
                                        "write", "dispatch"} => Own(t)' = 0
         /\ pc'[t] # "register" /\ pc'[t] # "dispatch" /\ ret'[t] = "idle"
               => Own(t)' = 0
         /\ pc'[t] # "register" /\ prop'[t].inst = 0 => Own(t)' = 0
  BY DEF Own, Owes, BlockingLabels

LEMMA StartMoves ==
  ASSUME BlockingOnly, TypeOK, Control, SinglePlace, NEW t \in Threads, Start(t)
  PROVE  Control' /\ Moves(t)
<1>0. Produced /\ ret[t] \in {"idle", "dispatch"}
  BY DEF Produced, SinglePlace, Control, ControlAt
<1>1. ASSUME NEW c \in Cards, NEW op \in AllOps, Decide(t, op, c)
      PROVE  Control' /\ Moves(t)
  <2>1. Only(t) /\ pc'[t] = "signal" /\ ret'[t] = "idle" /\ UNCHANGED prop
    BY <1>1 DEF Only, Decide, Request, TypeOK, Control, ControlAt
  <2>2. ControlAt(t)'
    BY <2>1 DEF ControlAt, BlockingLabels
  <2>3. Own(t)' = 0
    BY <2>1, OwnAt DEF BlockingLabels
  <2>4. UNCHANGED <<pending, minted, runs>>
    BY <1>1 DEF Decide, shared, history
  <2>5. QED
    BY <1>0, <2>1, <2>2, <2>3, <2>4, OnlyKeeps DEF Moves, Quiet, Produced
<1>2. ASSUME NEW c \in Cards, NEW op \in AllOps, Flip(t, op, c)
      PROVE  FALSE
  BY <1>2 DEF Flip, Request, BlockingOnly
<1>3. ASSUME NEW c \in Cards, NEW op \in AllOps, Broadcast(t, op, c)
      PROVE  Control' /\ Moves(t)
  <2>1. op = "suggest"
    BY <1>3 DEF Broadcast, Request, BlockingOnly
  <2>2. /\ Only(t) /\ pc'[t] = "register" /\ ret'[t] = "idle"
        /\ prop'[t].inst = minted + 1
    BY <1>3, <2>1 DEF Only, Broadcast, Request, TypeOK, Control, ControlAt
  <2>3. ControlAt(t)'
    BY <2>2 DEF ControlAt, BlockingLabels
  <2>4. Own(t)' = minted + 1
    BY <2>2 DEF Own
  <2>5. UNCHANGED <<pending, runs>> /\ minted' = minted + 1
    BY <1>3 DEF Broadcast, shared
  <2>6. \A u \in Threads : prop'[u].inst <= minted'
    <3>1. minted \in Nat /\ \A u \in Threads : prop[u].inst \in Nat /\ prop[u].inst <= minted
      BY <1>0, OwnType DEF Produced, TypeOK, InstIds
    <3>2. \A u \in Threads : u # t => prop'[u] = prop[u]
      BY <2>2 DEF Only
    <3>3. QED
      BY <2>2, <2>5, <3>1, <3>2
  <2>7. QED
    BY <2>2, <2>3, <2>4, <2>5, <2>6, OnlyKeeps DEF Moves, Mint
<1>4. ASSUME NEW aged \in SUBSET Cards, AgeScan(t, aged)
      PROVE  Control' /\ Moves(t)
  <2>1. Only(t) /\ pc'[t] = "save" /\ ret'[t] = "idle" /\ UNCHANGED prop
    BY <1>4 DEF Only, AgeScan, SaveThen, TypeOK
  <2>2. ControlAt(t)'
    BY <2>1 DEF ControlAt, BlockingLabels
  <2>3. Own(t)' = 0
    BY <2>1, OwnAt
  <2>4. UNCHANGED <<pending, minted, runs>>
    BY <1>4 DEF AgeScan, history
  <2>5. QED
    BY <1>0, <2>1, <2>2, <2>3, <2>4, OnlyKeeps DEF Moves, Quiet, Produced
<1>5. QED
  BY <1>1, <1>2, <1>3, <1>4 DEF Start

\* A thread that goes on without touching the table or a handler moves nothing.
LEMMA QuietLeave ==
  ASSUME TypeOK, Control, SinglePlace, NEW t \in Threads, NEW l, Leave(t, l),
         UNCHANGED <<pending, minted, runs>>,
         \/ l = "idle"
         \/ l \in {"get", "defer", "undefer"} /\ ret[t] = "idle"
         \/ l = "save" /\ pc[t] = "regmeta"
         \/ l \in {"trunc", "write"} /\ pc[t] \in {"save", "trunc"}
         \/ l = "save" /\ pc[t] = "takemeta"
         \/ l = ret[t] /\ pc[t] \in {"save", "trunc", "write"}
  PROVE  Control' /\ Moves(t)
<1>0. Produced /\ ControlAt(t)
  BY DEF Produced, SinglePlace, Control
<1>1. Only(t) /\ pc'[t] = l
  BY LeaveEffect
<1>2. ControlAt(t)'
  BY <1>0, <1>1, LeaveEffect DEF ControlAt, BlockingLabels
<1>3. Own(t)' \in {Own(t), 0}
  BY <1>0, <1>1, LeaveEffect, OwnAt DEF Own, Owes, ControlAt, BlockingLabels
<1>4. minted \in Nat
  BY BoundsAssumption DEF TypeOK
<1>5. prop'[t].inst = 0 \/ prop'[t] = prop[t]
  BY LeaveEffect
<1>6. \A u \in Threads : prop'[u].inst <= minted'
  BY <1>0, <1>1, <1>4, <1>5 DEF Produced, Only
<1>7. QED
  BY <1>1, <1>2, <1>3, <1>6, OnlyKeeps DEF Moves, Quiet

LEMMA DecisionMoves ==
  ASSUME TypeOK, Control, SinglePlace, NEW t \in Threads,
         \/ RecordSignals(t) \/ DecideGet(t) \/ DecideBranch(t)
         \/ TakePop(t) \/ TakeMeta(t) \/ Dispatch(t) \/ Defer(t)
  PROVE  Control' /\ Moves(t)
<1>0. Produced /\ ControlAt(t)
  BY DEF Produced, SinglePlace, Control
<1>1. CASE RecordSignals(t)
  BY <1>0, <1>1, QuietLeave DEF RecordSignals, ControlAt, shared
<1>2. CASE DecideGet(t)
  <2>1. CASE Live(req[t].card)
    <3>1. /\ Only(t) /\ pc'[t] = "branch" /\ ret'[t] = "idle"
          /\ prop'[t] = pending[req[t].card] /\ req[t].card \in Cards
      BY <1>0, <1>2, <2>1 DEF DecideGet, Hold, Only, TypeOK, ControlAt
    <3>2. ControlAt(t)' /\ Own(t)' = 0
      BY <3>1, OwnAt DEF ControlAt, BlockingLabels
    <3>3. UNCHANGED <<pending, minted, runs>>
      BY <1>2 DEF DecideGet, shared, history
    <3>4. \A u \in Threads : prop'[u].inst <= minted'
      BY <1>0, <3>1, <3>3 DEF Produced, Only, SinglePlace
    <3>5. QED
      BY <3>1, <3>2, <3>3, <3>4, OnlyKeeps DEF Moves, Quiet
  <2>2. CASE ~Live(req[t].card)
    BY <1>2, <2>2, QuietLeave DEF DecideGet, shared, history
  <2>3. QED
    BY <2>1, <2>2
<1>3. CASE DecideBranch(t)
  <2>1. UNCHANGED <<pending, minted, runs>> /\ ret[t] = "idle"
    BY <1>0, <1>3 DEF DecideBranch, shared, history, ControlAt
  <2>2. CASE \E l \in {"idle", "defer", "undefer"} : Leave(t, l)
    BY <2>1, <2>2, QuietLeave
  <2>3. CASE /\ pc' = [pc EXCEPT ![t] = "take"]
             /\ \E l \in {"idle", "dispatch"} :
                  /\ ret' = [ret EXCEPT ![t] = l]
                  /\ l = "dispatch" => req[t].op = "ACCEPT"
             /\ UNCHANGED <<req, prop>>
    <3>1. Only(t) /\ pc'[t] = "take"
      BY <2>3 DEF Only, TypeOK
    <3>2. ControlAt(t)'
      BY <2>3, <3>1 DEF ControlAt, BlockingLabels, TypeOK
    <3>3. Own(t)' = 0
      BY <3>1, OwnAt DEF BlockingLabels
    <3>4. QED
      BY <1>0, <2>1, <2>3, <3>1, <3>2, <3>3, OnlyKeeps DEF Moves, Quiet, Produced
  <2>4. QED
    BY <1>3, <2>2, <2>3 DEF DecideBranch
<1>4. CASE TakePop(t)
  <2>1. /\ Only(t) /\ pc'[t] = "takemeta" /\ UNCHANGED <<req, ret>>
        /\ prop'[t] = pending[req[t].card] /\ req[t].card \in Cards
    BY <1>4 DEF TakePop, Hold, Only, TypeOK
  <2>2. ControlAt(t)'
    BY <1>0, <1>4, <2>1 DEF TakePop, ControlAt, BlockingLabels
  <2>3. Own(t) = 0 /\ Own(t)' \in {pending[req[t].card].inst, 0}
    BY <1>4, <2>1 DEF TakePop, Own, Owes
  <2>4. pending' = [pending EXCEPT ![req[t].card] = NoCard] /\ UNCHANGED <<minted, runs>>
    BY <1>4 DEF TakePop, history
  <2>5. \A u \in Threads : prop'[u].inst <= minted'
    BY <1>0, <2>1, <2>4 DEF Produced, Only, SinglePlace
  <2>6. QED
    BY <2>1, <2>2, <2>3, <2>4, <2>5, OnlyKeeps DEF Moves, Pop
<1>5. CASE TakeMeta(t)
  <2>1. UNCHANGED <<pending, minted, runs>> /\ pc[t] = "takemeta"
    BY <1>5 DEF TakeMeta, history
  <2>2. Leave(t, "save") \/ Leave(t, "idle")
    BY <1>5 DEF TakeMeta
  <2>3. QED
    BY <2>1, <2>2, QuietLeave
<1>6. CASE Dispatch(t)
  <2>1. Only(t) /\ pc'[t] = "idle" /\ ret'[t] = "idle" /\ prop'[t].inst = 0
    BY <1>6, LeaveEffect DEF Dispatch
  <2>2. ControlAt(t)' /\ Own(t)' = 0
    BY <2>1, OwnAt DEF ControlAt, BlockingLabels
  <2>3. UNCHANGED <<pending, minted>>
    BY <1>6 DEF Dispatch, shared
  <2>4. \A u \in Threads : prop'[u].inst <= minted'
    <3>1. minted \in Nat
      BY BoundsAssumption DEF TypeOK
    <3>2. QED
      BY <1>0, <2>1, <2>3, <3>1 DEF Produced, Only
  <2>5. Own(t) = prop[t].inst
    BY <1>0, <1>6, OwnType DEF Dispatch, ControlAt, Own, Owes
  <2>6. Quiet(t) \/ Fire(t)
    BY <1>6, <2>2, <2>3, <2>5 DEF Dispatch, RunHandler, Quiet, Fire
  <2>7. QED
    BY <2>1, <2>2, <2>4, <2>6, OnlyKeeps DEF Moves
<1>7. CASE Defer(t)
  <2>1. Only(t) /\ pc'[t] = "save" /\ ret'[t] = "idle" /\ UNCHANGED prop
    BY <1>7 DEF Only, Defer, SaveThen, TypeOK
  <2>2. ControlAt(t)' /\ Own(t)' = 0
    BY <2>1, OwnAt DEF ControlAt, BlockingLabels
  <2>3. UNCHANGED <<pending, minted, runs>>
    BY <1>7 DEF Defer, history
  <2>4. QED
    BY <1>0, <2>1, <2>2, <2>3, OnlyKeeps DEF Moves, Quiet, Produced
<1>8. QED
  BY <1>1, <1>2, <1>3, <1>4, <1>5, <1>6, <1>7

LEMMA OtherMoves ==
  ASSUME TypeOK, Control, SinglePlace, NEW t \in Threads,
         \/ RegisterPut(t) \/ RegisterMeta(t) \/ Reget(t)
         \/ ExecuteDispatch(t) \/ ExecuteMark(t)
         \/ FlipGet(t) \/ FlipCheck(t) \/ SetMode(t)
         \/ SaveBuild(t) \/ SaveTruncate(t) \/ SaveWrite(t) \/ SaveFail(t)
  PROVE  Control' /\ Moves(t)
<1>0. Produced /\ ControlAt(t)
  BY DEF Produced, SinglePlace, Control
<1>1. CASE RegisterPut(t)
  <2>1. /\ Only(t) /\ pc[t] = "register" /\ pc'[t] = "regmeta" /\ ret'[t] = "idle"
        /\ UNCHANGED <<req, prop>> /\ req[t].card \in Cards
    BY <1>0, <1>1 DEF RegisterPut, Only, TypeOK, ControlAt, BlockingLabels, locals
  <2>2. ControlAt(t)' /\ Own(t)' = 0
    BY <2>1, OwnAt DEF ControlAt, BlockingLabels
  <2>3. Own(t) = prop[t].inst
    BY <2>1 DEF Own
  <2>4. pending' = [pending EXCEPT ![req[t].card] = prop[t]] /\ UNCHANGED <<minted, runs>>
    BY <1>1 DEF RegisterPut, history
  <2>5. QED
    BY <1>0, <2>1, <2>2, <2>3, <2>4, OnlyKeeps DEF Moves, Put, Produced
<1>2. CASE RegisterMeta(t)
  BY <1>2, QuietLeave DEF RegisterMeta, history
<1>3. CASE \/ Reget(t) \/ ExecuteDispatch(t) \/ ExecuteMark(t)
           \/ FlipGet(t) \/ FlipCheck(t) \/ SetMode(t)
  BY <1>0, <1>3 DEF Reget, ExecuteDispatch, ExecuteMark, FlipGet, FlipCheck,
                    SetMode, ControlAt, BlockingLabels
<1>4. CASE SaveBuild(t)
  <2>1. UNCHANGED <<pending, minted, runs>> /\ pc[t] = "save"
    BY <1>4 DEF SaveBuild, history
  <2>2. Leave(t, "trunc") \/ Leave(t, ret[t])
    BY <1>4 DEF SaveBuild
  <2>3. QED
    BY <2>1, <2>2, QuietLeave
<1>5. CASE SaveTruncate(t)
  BY <1>5, QuietLeave DEF SaveTruncate, history
<1>6. CASE SaveWrite(t) \/ SaveFail(t)
  BY <1>6, QuietLeave DEF SaveWrite, SaveFail, SaveEnd, history
<1>7. QED
  BY <1>1, <1>2, <1>3, <1>4, <1>5, <1>6

LEMMA InitSafe == Init => IInv
<1>1. SUFFICES ASSUME Init PROVE IInv
  OBVIOUS
<1>2. TypeOK
  BY <1>1, InitType
<1>3. Control /\ \A t \in Threads : Own(t) = 0 /\ prop[t].inst = 0
  BY <1>1 DEF Init, Control, ControlAt, BlockingLabels, Own, Owes, NoCard
<1>4. \A c \in Cards : pending[c].inst = InitInst[c]
  BY <1>1, ConstantTypes DEF Init, LoadPending, InitFile, EmptyFile
<1>5. QED
  BY <1>1, <1>2, <1>3, <1>4, BoundsAssumption
     DEF Init, IInv, SinglePlace, AtMostOnce

LEMMA SafeStep ==
  ASSUME BlockingOnly, TypeOK, TypeOK', IInv, [Next]_vars PROVE IInv'
<1>1. Control /\ SinglePlace /\ AtMostOnce
  BY DEF IInv
<1>2. CASE Restart
  BY <1>2 DEF Restart, BlockingOnly, TypeOK
<1>3. ASSUME NEW t \in Threads, Start(t)
      PROVE  IInv'
  <2>1. Control' /\ Moves(t)
    BY <1>1, <1>3, StartMoves
  <2>2. QED
    BY <1>1, <2>1, MovesKeepSingle DEF IInv
<1>4. ASSUME NEW t \in Threads, Continue(t)
      PROVE  IInv'
  <2>1. Control' /\ Moves(t)
    BY <1>1, <1>4, DecisionMoves, OtherMoves DEF Continue
  <2>2. QED
    BY <1>1, <2>1, MovesKeepSingle DEF IInv
<1>5. CASE UNCHANGED vars
  BY <1>1, <1>5 DEF vars, IInv, Control, ControlAt, SinglePlace, AtMostOnce,
                    Own, Owes
<1>6. QED
  BY <1>2, <1>3, <1>4, <1>5 DEF Next

\* In the blocking mode and within one life of the console, decisions and
\* suggestions from any number of threads call the handler of a card object at
\* most once: remove hands the object to one thread only, before the dispatch.
THEOREM BlockingAtMostOnce ==
  ASSUME BlockingOnly
  PROVE  Spec => []AtMostOnce
<1>1. IInv => AtMostOnce
  BY DEF IInv
<1>2. QED
  BY <1>1, SafeStep, InitSafe, TypeCorrect, PTL DEF Spec

\* There a card object that may still run is on the table or in the hands of
\* one thread, and one that ran is in neither.
THEOREM BlockingOnePlace ==
  ASSUME BlockingOnly
  PROVE  Spec => []IInv
BY SafeStep, InitSafe, TypeCorrect, PTL DEF Spec

-----------------------------------------------------------------------------
(* The card contract.  What a thread owns is an object it has produced and not *)
(* registered, or one it has taken and not run; a step shifts one object along. *)

Bearing(t) == IF pc[t] = "register" THEN prop[t].inst ELSE 0
Taking(t)  == IF Owes(t) THEN prop[t].inst ELSE 0
Borne == [t \in Threads |-> Bearing(t)]
Taken == [t \in Threads |-> Taking(t)]

\* Only a card with a handler is taken to be run.
ForHandled == \A t \in Threads : "dispatch" \in {pc[t], ret[t]} => req[t].card \in Handled

Stays(t) == Bearing(t)' = Bearing(t) /\ Taking(t)' = Taking(t)

Shifts(t) ==
  \/ UNCHANGED <<pending, minted, runs>> /\ Stays(t)
  \/ /\ UNCHANGED <<pending, runs>> /\ minted' = minted + 1 /\ minted < MaxInst
     /\ Bearing(t) = 0 /\ Bearing(t)' = minted + 1
     /\ Taking(t) = 0 /\ Taking(t)' = 0
  \/ /\ UNCHANGED <<minted, runs>>
     /\ \E c \in Cards : pending' = [pending EXCEPT ![c] = prop[t]]
     /\ Bearing(t) = prop[t].inst /\ Bearing(t)' = 0
     /\ Taking(t) = 0 /\ Taking(t)' = 0
  \/ /\ UNCHANGED <<minted, runs>>
     /\ Bearing(t) = 0 /\ Bearing(t)' = 0 /\ Taking(t) = 0
     /\ \E c \in Cards : /\ pending' = [pending EXCEPT ![c] = NoCard]
                         /\ Taking(t)' \in {pending[c].inst, 0}
  \/ /\ UNCHANGED <<pending, minted>>
     /\ runs' = [runs EXCEPT ![Taking(t)] = Succ2(@)]
     /\ Bearing(t) = 0 /\ Bearing(t)' = 0
     /\ Taking(t) # 0 /\ Taking(t)' = 0

StartLabels == {"idle", "signal", "get", "branch", "take", "defer", "undefer", "regmeta"}

\* At these labels, or on the way to none, a thread has nothing in hand.
LEMMA EmptyHanded ==
  ASSUME NEW t \in Threads
  PROVE  /\ pc[t] \in StartLabels => Bearing(t) = 0 /\ Taking(t) = 0
         /\ pc'[t] \in StartLabels => Bearing(t)' = 0 /\ Taking(t)' = 0
         /\ pc[t] # "register" /\ pc[t] # "dispatch" /\ ret[t] = "idle"
              => Bearing(t) = 0 /\ Taking(t) = 0
         /\ pc'[t] # "register" /\ pc'[t] # "dispatch" /\ ret'[t] = "idle"
              => Bearing(t)' = 0 /\ Taking(t)' = 0
  BY DEF Bearing, Taking, Owes, StartLabels

LEMMA StartShifts ==
  ASSUME BlockingOnly, TypeOK, TypeOK', Control, ForHandled, NEW t \in Threads, Start(t)
  PROVE  ForHandled' /\ Only(t) /\ Shifts(t)
<1>1. ControlAt(t) /\ ret[t] \in {"idle", "dispatch"}
  BY DEF Control, ControlAt
<1>2. ASSUME NEW c \in Cards, NEW op \in AllOps, Decide(t, op, c)
      PROVE  ForHandled' /\ Only(t) /\ Shifts(t)
  <2>1. /\ Only(t) /\ pc[t] = "idle" /\ pc'[t] = "signal" /\ ret'[t] = "idle"
        /\ UNCHANGED <<pending, minted, runs>>
    BY <1>1, <1>2 DEF Only, Decide, Request, TypeOK, ControlAt, shared, history
  <2> QED  BY <2>1, EmptyHanded DEF ForHandled, Only, Shifts, Stays, StartLabels
<1>3. ASSUME NEW c \in Cards, NEW op \in AllOps, Flip(t, op, c) PROVE FALSE
  BY <1>3 DEF Flip, Request, BlockingOnly
<1>4. ASSUME NEW c \in Cards, NEW op \in AllOps, Broadcast(t, op, c)
      PROVE  ForHandled' /\ Only(t) /\ Shifts(t)
  <2>1. op = "suggest"
    BY <1>4 DEF Broadcast, Request, BlockingOnly
  <2>2. /\ Only(t) /\ pc[t] = "idle" /\ pc'[t] = "register" /\ ret'[t] = "idle"
        /\ prop'[t].inst = minted + 1 /\ minted' = minted + 1 /\ minted < MaxInst
        /\ UNCHANGED <<pending, runs>>
    BY <1>1, <1>4, <2>1 DEF Only, Broadcast, Request, TypeOK, ControlAt, shared
  <2>3. Bearing(t)' = minted + 1 /\ Taking(t)' = 0
    BY <2>2 DEF Bearing, Taking, Owes
  <2> QED  BY <2>2, <2>3, EmptyHanded DEF ForHandled, Only, Shifts, StartLabels
<1>5. ASSUME NEW aged \in SUBSET Cards, AgeScan(t, aged)
      PROVE  ForHandled' /\ Only(t) /\ Shifts(t)
  <2>1. /\ Only(t) /\ pc[t] = "idle" /\ pc'[t] = "save" /\ ret'[t] = "idle"
        /\ UNCHANGED <<pending, minted, runs>>
    BY <1>5 DEF Only, AgeScan, SaveThen, TypeOK, history
  <2> QED  BY <2>1, EmptyHanded DEF ForHandled, Only, Shifts, Stays, StartLabels
<1> QED  BY <1>2, <1>3, <1>4, <1>5 DEF Start

LEMMA DecisionShifts ==
  ASSUME TypeOK, TypeOK', Control, ForHandled, NEW t \in Threads,
         \/ RecordSignals(t) \/ DecideGet(t) \/ DecideBranch(t)
         \/ TakePop(t) \/ TakeMeta(t) \/ Dispatch(t) \/ Defer(t)
  PROVE  ForHandled' /\ Only(t) /\ Shifts(t)
<1>1. ControlAt(t)
  BY DEF Control
<1>2. ASSUME NEW l \in StartLabels, pc[t] \in StartLabels, Leave(t, l),
             UNCHANGED <<pending, minted, runs>>, ret[t] = "idle"
      PROVE  ForHandled' /\ Only(t) /\ Shifts(t)
  <2>1. Only(t) /\ pc'[t] = l /\ ret'[t] = "idle"
    BY <1>2, LeaveEffect
  <2> QED  BY <1>2, <2>1, EmptyHanded DEF ForHandled, Only, Shifts, Stays, StartLabels
<1>3. CASE RecordSignals(t)
  BY <1>1, <1>2, <1>3 DEF RecordSignals, ControlAt, StartLabels, shared
<1>4. CASE DecideGet(t)
  <2>1. pc[t] = "get" /\ ret[t] = "idle" /\ UNCHANGED <<pending, minted, runs>>
    BY <1>1, <1>4 DEF DecideGet, ControlAt, shared, history
  <2>2. CASE Hold(t, pending[req[t].card], "branch")
    <3>1. Only(t) /\ pc'[t] = "branch" /\ ret'[t] = "idle"
      BY <2>1, <2>2 DEF Hold, Only, TypeOK
    <3> QED  BY <2>1, <3>1, EmptyHanded DEF ForHandled, Only, Shifts, Stays, StartLabels
  <2>3. CASE Leave(t, "idle")
    BY <1>2, <2>1, <2>3 DEF StartLabels
  <2> QED  BY <1>4, <2>2, <2>3 DEF DecideGet
<1>5. CASE DecideBranch(t)
  <2>1. pc[t] = "branch" /\ ret[t] = "idle" /\ UNCHANGED <<pending, minted, runs>>
    BY <1>1, <1>5 DEF DecideBranch, ControlAt, shared, history
  <2>2. CASE \E l \in {"idle", "defer", "undefer"} : Leave(t, l)
    BY <1>2, <2>1, <2>2 DEF StartLabels
  <2>3. CASE /\ pc' = [pc EXCEPT ![t] = "take"] /\ UNCHANGED <<req, prop>>
             /\ \/ ret' = [ret EXCEPT ![t] = "idle"]
                \/ ret' = [ret EXCEPT ![t] = "dispatch"] /\ req[t].card \in Handled
    <3>1. /\ Only(t) /\ pc'[t] = "take" /\ req'[t] = req[t]
          /\ ret'[t] \in {"idle", "dispatch"} /\ (ret'[t] = "idle" \/ req[t].card \in Handled)
      BY <2>3 DEF Only, TypeOK
    <3> QED  BY <2>1, <3>1, EmptyHanded DEF ForHandled, Only, Shifts, Stays, StartLabels
  <2> QED  BY <1>5, <2>2, <2>3 DEF DecideBranch
<1>6. CASE TakePop(t)
  <2>1. PICK c \in Cards : c = req[t].card
    BY DEF TypeOK
  <2>2. /\ Only(t) /\ pc[t] = "take" /\ pc'[t] = "takemeta" /\ UNCHANGED <<req, ret, minted, runs>>
        /\ prop'[t] = pending[c] /\ pending' = [pending EXCEPT ![c] = NoCard]
    BY <1>6, <2>1 DEF TakePop, Hold, Only, TypeOK, history
  <2>3. Bearing(t)' = 0 /\ Taking(t)' \in {pending[c].inst, 0}
    BY <2>2 DEF Bearing, Taking
  <2>4. Bearing(t) = 0 /\ Taking(t) = 0
    BY <2>2, EmptyHanded DEF StartLabels
  <2> QED  BY <2>2, <2>3, <2>4 DEF ForHandled, Only, Shifts
<1>7. CASE TakeMeta(t)
  <2>1. pc[t] = "takemeta" /\ UNCHANGED <<pending, minted, runs>>
    BY <1>7 DEF TakeMeta, history
  <2>2. CASE prop[t].inst # 0
    <3>1. /\ Only(t) /\ pc'[t] = "save" /\ ret'[t] = ret[t] /\ req'[t] = req[t]
          /\ prop'[t] = prop[t]
      BY <1>7, <2>2, LeaveEffect DEF TakeMeta
    <3> QED  BY <2>1, <3>1 DEF ForHandled, Only, Shifts, Stays, Bearing, Taking, Owes
  <2>3. CASE prop[t].inst = 0
    <3>1. Only(t) /\ pc'[t] = "idle" /\ ret'[t] = "idle"
      BY <1>7, <2>3, LeaveEffect DEF TakeMeta
    <3>2. Bearing(t) = 0 /\ Taking(t) = 0
      BY <2>1, <2>3 DEF Bearing, Taking
    <3> QED  BY <2>1, <3>1, <3>2, EmptyHanded DEF ForHandled, Only, Shifts, Stays, StartLabels
  <2> QED  BY <2>2, <2>3
<1>8. CASE Dispatch(t)
  <2>1. /\ Only(t) /\ pc[t] = "dispatch" /\ pc'[t] = "idle" /\ ret'[t] = "idle"
        /\ UNCHANGED <<pending, minted>> /\ req[t].card \in Handled /\ RunHandler(t)
    BY <1>8, LeaveEffect DEF Dispatch, shared, ForHandled
  <2>2. Taking(t) = prop[t].inst /\ Bearing(t) = 0
    BY <1>1, <2>1 DEF Taking, Owes, Bearing, ControlAt
  <2>3. \/ Taking(t) = 0 /\ runs' = runs
        \/ Taking(t) # 0 /\ runs' = [runs EXCEPT ![Taking(t)] = Succ2(@)]
    BY <2>1, <2>2 DEF RunHandler
  <2> QED  BY <2>1, <2>2, <2>3, EmptyHanded DEF ForHandled, Only, Shifts, Stays, StartLabels
<1>9. CASE Defer(t)
  <2>1. /\ Only(t) /\ pc[t] \in {"defer", "undefer"} /\ pc'[t] = "save" /\ ret'[t] = "idle"
        /\ UNCHANGED <<pending, minted, runs>>
    BY <1>9 DEF Only, Defer, SaveThen, TypeOK, history
  <2> QED  BY <2>1, EmptyHanded DEF ForHandled, Only, Shifts, Stays, StartLabels
<1> QED  BY <1>3, <1>4, <1>5, <1>6, <1>7, <1>8, <1>9

LEMMA OtherShifts ==
  ASSUME TypeOK, TypeOK', Control, ForHandled, NEW t \in Threads,
         \/ RegisterPut(t) \/ RegisterMeta(t) \/ Reget(t)
         \/ ExecuteDispatch(t) \/ ExecuteMark(t)
         \/ FlipGet(t) \/ FlipCheck(t) \/ SetMode(t)
         \/ SaveBuild(t) \/ SaveTruncate(t) \/ SaveWrite(t) \/ SaveFail(t)
  PROVE  ForHandled' /\ Only(t) /\ Shifts(t)
<1>1. ControlAt(t)
  BY DEF Control
<1>2. CASE RegisterPut(t)
  <2>1. /\ Only(t) /\ pc[t] = "register" /\ pc'[t] = "regmeta" /\ ret'[t] = "idle"
        /\ UNCHANGED <<minted, runs>>
        /\ \E c \in Cards : pending' = [pending EXCEPT ![c] = prop[t]]
    BY <1>1, <1>2 DEF RegisterPut, Only, TypeOK, ControlAt, BlockingLabels, locals, history
  <2>2. Bearing(t) = prop[t].inst /\ Taking(t) = 0
    BY <2>1 DEF Bearing, Taking, Owes
  <2> QED  BY <2>1, <2>2, EmptyHanded DEF ForHandled, Only, Shifts, StartLabels
<1>3. CASE RegisterMeta(t)
  <2>1. /\ Only(t) /\ pc[t] = "regmeta" /\ pc'[t] = "save" /\ ret'[t] = "idle"
        /\ UNCHANGED <<pending, minted, runs>>
    BY <1>1, <1>3, LeaveEffect DEF RegisterMeta, ControlAt, history
  <2> QED  BY <2>1, EmptyHanded DEF ForHandled, Only, Shifts, Stays, StartLabels
<1>4. CASE \/ Reget(t) \/ ExecuteDispatch(t) \/ ExecuteMark(t)
           \/ FlipGet(t) \/ FlipCheck(t) \/ SetMode(t)
  BY <1>1, <1>4 DEF Reget, ExecuteDispatch, ExecuteMark, FlipGet, FlipCheck,
                    SetMode, ControlAt, BlockingLabels
<1>5. ASSUME NEW l \in {"trunc", "write", ret[t]}, pc[t] \in {"save", "trunc", "write"},
             Leave(t, l), UNCHANGED <<pending, minted, runs>>
      PROVE  ForHandled' /\ Only(t) /\ Shifts(t)
  <2>1. /\ Only(t) /\ pc'[t] = l /\ (l = "idle" => ret'[t] = "idle")
        /\ l # "idle" => ret'[t] = ret[t] /\ req'[t] = req[t] /\ prop'[t] = prop[t]
    BY <1>5, LeaveEffect
  <2>2. Stays(t)
    BY <1>1, <1>5, <2>1 DEF Stays, Bearing, Taking, Owes, ControlAt
  <2>3. ForHandled'
    BY <1>5, <2>1 DEF ForHandled, Only
  <2> QED  BY <1>5, <2>1, <2>2, <2>3 DEF Shifts
<1>6. CASE SaveBuild(t) \/ SaveTruncate(t) \/ SaveWrite(t) \/ SaveFail(t)
  <2>1. pc[t] \in {"save", "trunc", "write"} /\ UNCHANGED <<pending, minted, runs>>
    BY <1>6 DEF SaveBuild, SaveTruncate, SaveWrite, SaveFail, SaveEnd, history
  <2>2. \E l \in {"trunc", "write", ret[t]} : Leave(t, l)
    BY <1>6 DEF SaveBuild, SaveTruncate, SaveWrite, SaveFail, SaveEnd
  <2> QED  BY <1>5, <2>1, <2>2
<1> QED  BY <1>2, <1>3, <1>4, <1>6

\* Stage about plain functions: what each thread bears and has taken, what is
\* pending under each id, how many objects exist and how often each ran.
StageOf(i, borne, taken, at, made, ran) ==
  IF ran[i] > 0 THEN "run"
  ELSE IF \E c \in Cards : at[c] = i THEN "offered"
  ELSE IF \E u \in Threads : taken[u] = i THEN "taken"
  ELSE IF i > made \/ \E u \in Threads : borne[u] = i THEN "unborn"
  ELSE "closed"

Stages(borne, taken, at, made, ran) ==
  [i \in 1 .. MaxInst |-> StageOf(i, borne, taken, at, made, ran)]

\* What a thread owns is what it bears or what it has taken, never both.
Splits(own, borne, taken) ==
  \A u \in Threads : \/ borne[u] = 0 /\ taken[u] = own[u]
                     \/ taken[u] = 0 /\ borne[u] = own[u]

\* A step of CardContract.
Advances(s, z) ==
  \/ z = s
  \/ \E i \in 1 .. MaxInst :
       \/ s[i] = "unborn" /\ z = [s EXCEPT ![i] = "offered"]
       \/ s[i] = "offered" /\ z = [s EXCEPT ![i] = "taken"]
       \/ s[i] = "taken" /\ z = [s EXCEPT ![i] = "run"]
       \/ s[i] = "offered" /\ z = [s EXCEPT ![i] = "closed"]
       \/ \E j \in 1 .. MaxInst :
            /\ i # j /\ s[i] = "unborn" /\ s[j] = "offered"
            /\ z = [s EXCEPT ![i] = "offered", ![j] = "closed"]

Holdings(own, borne, taken, at, made, ran) ==
  /\ own \in [Threads -> InstIds] /\ borne \in [Threads -> InstIds]
  /\ taken \in [Threads -> InstIds] /\ at \in [Cards -> InstIds]
  /\ made \in InstIds /\ ran \in [InstIds -> 0 .. 2]
  /\ Single(own, at, made, ran) /\ Splits(own, borne, taken)

\* A producer builds an object: it is unborn before and after.
LEMMA AdvanceBear ==
  ASSUME NEW own, NEW borne, NEW taken, NEW at, NEW made, NEW ran,
         Holdings(own, borne, taken, at, made, ran), NEW t \in Threads,
         made < MaxInst, own[t] = 0, NEW n, n = made + 1
  PROVE  Advances(Stages(borne, taken, at, made, ran),
                  Stages([borne EXCEPT ![t] = n], taken, at, n, ran))
<1> USE DEF Holdings
<1>1. ASSUME NEW i \in 1 .. MaxInst
      PROVE  StageOf(i, [borne EXCEPT ![t] = n], taken, at, n, ran)
               = StageOf(i, borne, taken, at, made, ran)
  <2>1. borne[t] = 0
    BY DEF Splits
  <2>2. (\E u \in Threads : [borne EXCEPT ![t] = n][u] = i)
          <=> i = made + 1 \/ \E u \in Threads : borne[u] = i
    BY <1>1, <2>1
  <2>3. i > made <=> i = made + 1 \/ i > made + 1
    BY <1>1
  <2> QED  BY <2>2, <2>3 DEF StageOf
<1>2. Stages([borne EXCEPT ![t] = n], taken, at, n, ran) = Stages(borne, taken, at, made, ran)
  BY <1>1 DEF Stages
<1> QED  BY <1>2 DEF Advances

\* register: the object is offered, the one it replaces is closed.
LEMMA AdvanceOffer ==
  ASSUME NEW own, NEW borne, NEW taken, NEW at, NEW made, NEW ran,
         Holdings(own, borne, taken, at, made, ran), NEW t \in Threads,
         NEW c \in Cards, taken[t] = 0
  PROVE  Advances(Stages(borne, taken, at, made, ran),
                  Stages([borne EXCEPT ![t] = 0], taken, [at EXCEPT ![c] = borne[t]], made, ran))
<1> USE DEF Holdings
<1>s. PICK s : s = Stages(borne, taken, at, made, ran)
  OBVIOUS
<1>a. PICK i \in InstIds, j \in InstIds : i = borne[t] /\ j = at[c]
  OBVIOUS
<1>b. PICK z : z = Stages([borne EXCEPT ![t] = 0], taken, [at EXCEPT ![c] = borne[t]], made, ran)
  OBVIOUS
<1>c. SUFFICES Advances(s, z)
  BY <1>s, <1>b
<1>1. own[t] = i
  BY <1>a DEF Splits
<1>2. i # 0 => /\ i \in 1 .. MaxInst /\ ~ (ran[i] > 0) /\ \A d \in Cards : at[d] # i
               /\ \A u \in Threads : taken[u] # i /\ (borne[u] = i => u = t)
  BY <1>1, <1>a, BoundsAssumption DEF Single, Splits
<1>3. j # 0 => /\ j \in 1 .. MaxInst /\ ~ (ran[j] > 0) /\ j <= made
               /\ \A d \in Cards : at[d] = j => d = c
               /\ \A u \in Threads : taken[u] # j /\ borne[u] # j
  BY <1>a, BoundsAssumption DEF Single, Splits
<1>4. ASSUME NEW k \in 1 .. MaxInst, k # i, k # j PROVE z[k] = s[k]
  <2>1. /\ (\E d \in Cards : [at EXCEPT ![c] = borne[t]][d] = k) <=> \E d \in Cards : at[d] = k
        /\ (\E u \in Threads : [borne EXCEPT ![t] = 0][u] = k) <=> \E u \in Threads : borne[u] = k
    BY <1>4, <1>a
  <2> QED  BY <1>s, <1>b, <2>1 DEF Stages, StageOf
<1>5. i # 0 => s[i] = "unborn" /\ z[i] = "offered"
  BY <1>s, <1>a, <1>b, <1>2 DEF Stages, StageOf
<1>6. j # 0 => s[j] = "offered" /\ (j # i => z[j] = "closed")
  BY <1>s, <1>a, <1>b, <1>3 DEF Stages, StageOf
<1>7. s = [k \in 1 .. MaxInst |-> s[k]] /\ z = [k \in 1 .. MaxInst |-> z[k]]
  BY <1>s, <1>b DEF Stages
<1>8. i # 0 /\ j # 0 => i # j
  BY <1>5, <1>6
<1>9. CASE i = 0 /\ j = 0
  <2>1. z = s
    BY <1>4, <1>7, <1>9, BoundsAssumption
  <2> QED  BY <2>1 DEF Advances
<1>10. CASE i # 0 /\ j = 0
  <2>0. \A k \in 1 .. MaxInst : k # i => z[k] = s[k]
    BY <1>4, <1>10, BoundsAssumption
  <2>1. z = [s EXCEPT ![i] = "offered"]
    BY <1>5, <1>7, <1>10, <2>0
  <2> QED  BY <1>2, <1>5, <1>10, <2>1 DEF Advances
<1>11. CASE i = 0 /\ j # 0
  <2>0. \A k \in 1 .. MaxInst : k # j => z[k] = s[k]
    BY <1>4, <1>11, BoundsAssumption
  <2>1. z = [s EXCEPT ![j] = "closed"]
    BY <1>6, <1>7, <1>11, <2>0
  <2> QED  BY <1>3, <1>6, <1>11, <2>1 DEF Advances
<1>12. CASE i # 0 /\ j # 0
  <2>1. z = [s EXCEPT ![i] = "offered", ![j] = "closed"]
    BY <1>2, <1>3, <1>4, <1>5, <1>6, <1>7, <1>8, <1>12
  <2>2. i \in 1 .. MaxInst /\ j \in 1 .. MaxInst /\ i # j /\ s[i] = "unborn" /\ s[j] = "offered"
    BY <1>2, <1>3, <1>5, <1>6, <1>8, <1>12
  <2> QED  BY <2>1, <2>2, Zenon DEF Advances
<1> QED  BY <1>9, <1>10, <1>11, <1>12

\* remove: the object is taken, or closed when nothing will run it.
LEMMA AdvanceTake ==
  ASSUME NEW own, NEW borne, NEW taken, NEW at, NEW made, NEW ran,
         Holdings(own, borne, taken, at, made, ran), NEW t \in Threads,
         NEW c \in Cards, own[t] = 0, NEW i \in {at[c], 0}
  PROVE  Advances(Stages(borne, taken, at, made, ran),
                  Stages(borne, [taken EXCEPT ![t] = i], [at EXCEPT ![c] = 0], made, ran))
<1> USE DEF Holdings
<1>s. PICK s : s = Stages(borne, taken, at, made, ran)
  OBVIOUS
<1>a. PICK j \in InstIds : j = at[c]
  OBVIOUS
<1>b. PICK z : z = Stages(borne, [taken EXCEPT ![t] = i], [at EXCEPT ![c] = 0], made, ran)
  OBVIOUS
<1>c. SUFFICES Advances(s, z)
  BY <1>s, <1>b
<1>1. borne[t] = 0 /\ taken[t] = 0
  BY DEF Splits
<1>2. j # 0 => /\ j \in 1 .. MaxInst /\ ~ (ran[j] > 0) /\ j <= made
               /\ \A d \in Cards : at[d] = j => d = c
               /\ \A u \in Threads : taken[u] # j /\ borne[u] # j
  BY <1>a, BoundsAssumption DEF Single, Splits
<1>3. ASSUME NEW k \in 1 .. MaxInst, k # j PROVE z[k] = s[k]
  <2>1. /\ (\E d \in Cards : [at EXCEPT ![c] = 0][d] = k) <=> \E d \in Cards : at[d] = k
        /\ (\E u \in Threads : [taken EXCEPT ![t] = i][u] = k) <=> \E u \in Threads : taken[u] = k
    BY <1>a, <1>1, <1>3
  <2> QED  BY <1>s, <1>b, <2>1 DEF Stages, StageOf
<1>4. j # 0 => s[j] = "offered" /\ z[j] = IF i = 0 THEN "closed" ELSE "taken"
  BY <1>s, <1>a, <1>b, <1>2 DEF Stages, StageOf
<1>5. s = [k \in 1 .. MaxInst |-> s[k]] /\ z = [k \in 1 .. MaxInst |-> z[k]]
  BY <1>s, <1>b DEF Stages
<1>6. CASE j = 0
  <2>1. z = s
    BY <1>3, <1>5, <1>6, BoundsAssumption
  <2> QED  BY <2>1 DEF Advances
<1>7. CASE j # 0
  <2>1. CASE i = 0
    <3>1. z = [s EXCEPT ![j] = "closed"]
      BY <1>3, <1>4, <1>5, <1>7, <2>1
    <3> QED  BY <1>2, <1>4, <1>7, <3>1, Zenon DEF Advances
  <2>2. CASE i # 0
    <3>1. z = [s EXCEPT ![j] = "taken"]
      BY <1>3, <1>4, <1>5, <1>7, <2>2
    <3> QED  BY <1>2, <1>4, <1>7, <3>1, Zenon DEF Advances
  <2> QED  BY <2>1, <2>2
<1> QED  BY <1>6, <1>7

\* dispatch_accept: the taken object is run.
LEMMA AdvanceRun ==
  ASSUME NEW own, NEW borne, NEW taken, NEW at, NEW made, NEW ran,
         Holdings(own, borne, taken, at, made, ran), NEW t \in Threads,
         taken[t] # 0
  PROVE  Advances(Stages(borne, taken, at, made, ran),
                  Stages(borne, [taken EXCEPT ![t] = 0], at, made,
                         [ran EXCEPT ![taken[t]] = Succ2(@)]))
<1> USE DEF Holdings
<1>s. PICK s : s = Stages(borne, taken, at, made, ran)
  OBVIOUS
<1>a. PICK i \in InstIds : i = taken[t]
  OBVIOUS
<1>b. PICK z : z = Stages(borne, [taken EXCEPT ![t] = 0], at, made, [ran EXCEPT ![i] = Succ2(@)])
  OBVIOUS
<1>1. own[t] = i /\ i \in 1 .. MaxInst /\ i \in InstIds
  BY <1>a, BoundsAssumption DEF Splits
<1>2. /\ ~ (ran[i] > 0) /\ \A d \in Cards : at[d] # i
      /\ \A u \in Threads : taken[u] = i => u = t
  BY <1>a, <1>1 DEF Single, Splits
<1>3. [ran EXCEPT ![i] = Succ2(@)][i] > 0
  BY <1>1 DEF Succ2
<1>4. s[i] = "taken" /\ z[i] = "run"
  BY <1>s, <1>a, <1>b, <1>1, <1>2, <1>3 DEF Stages, StageOf
<1>5. ASSUME NEW k \in 1 .. MaxInst, k # i PROVE z[k] = s[k]
  <2>1. /\ [ran EXCEPT ![i] = Succ2(@)][k] = ran[k]
        /\ (\E u \in Threads : [taken EXCEPT ![t] = 0][u] = k) <=> \E u \in Threads : taken[u] = k
    BY <1>a, <1>5, BoundsAssumption
  <2> QED  BY <1>s, <1>b, <2>1 DEF Stages, StageOf
<1>6. s = [k \in 1 .. MaxInst |-> s[k]] /\ z = [k \in 1 .. MaxInst |-> z[k]]
  BY <1>s, <1>b DEF Stages
<1>7. z = [s EXCEPT ![i] = "run"]
  BY <1>1, <1>4, <1>5, <1>6
<1>8. Advances(s, z)
  BY <1>1, <1>4, <1>7 DEF Advances
<1> QED  BY <1>s, <1>a, <1>b, <1>8

Staged == Stages(Borne, Taken, Table, minted, runs)

LEMMA BorneTypes ==
  ASSUME TypeOK
  PROVE  /\ Borne \in [Threads -> InstIds] /\ Taken \in [Threads -> InstIds]
         /\ Splits(Owned, Borne, Taken)
  BY BoundsAssumption DEF Borne, Bearing, Taken, Taking, Owned, Own, Owes, Splits, TypeOK, Objects

LEMMA StageFits == TypeOK => Staged = [i \in 1 .. MaxInst |-> Stage(i)]
<1>1. ASSUME TypeOK, NEW i \in 1 .. MaxInst
      PROVE  Stage(i) = StageOf(i, Borne, Taken, Table, minted, runs)
  <2>1. (\E c \in Cards : pending[c].inst = i) <=> \E c \in Cards : Table[c] = i
    BY DEF Table
  <2>2. \A t \in Threads : Owes(t) /\ prop[t].inst = i <=> Taken[t] = i
    BY <1>1 DEF Taken, Taking
  <2>3. \A t \in Threads : Own(t) = i <=> Taken[t] = i \/ Borne[t] = i
    BY <1>1 DEF Taken, Taking, Borne, Bearing, Own
  <2> QED  BY <2>1, <2>2, <2>3 DEF Stage, StageOf
<1> QED  BY <1>1 DEF Staged, Stages

LEMMA ShiftAdvances ==
  ASSUME TypeOK, TypeOK', SinglePlace, AtMostOnce, NEW t \in Threads, Only(t), Shifts(t)
  PROVE  Advances(Staged, Staged')
<1>1. Holdings(Owned, Borne, Taken, Table, minted, runs)
  BY SingleInv, BorneTypes DEF TypeOK, Holdings
<1>2. /\ Borne' = [Borne EXCEPT ![t] = Bearing(t)'] /\ Borne[t] = Bearing(t)
      /\ Taken' = [Taken EXCEPT ![t] = Taking(t)'] /\ Taken[t] = Taking(t)
  BY DEF Only, Borne, Bearing, Taken, Taking, Owes
<1>3. /\ Borne = [Borne EXCEPT ![t] = Borne[t]] /\ Taken = [Taken EXCEPT ![t] = Taken[t]]
      /\ Borne[t] = 0 /\ Taken[t] = 0 => Owned[t] = 0
  BY <1>1 DEF Holdings, Splits
<1>4. Staged' = Stages(Borne', Taken', Table', minted', runs')
  BY DEF Staged
<1>5. CASE UNCHANGED <<pending, minted, runs>> /\ Stays(t)
  <2>1. Borne' = Borne /\ Taken' = Taken /\ Table' = Table /\ minted' = minted /\ runs' = runs
    BY <1>2, <1>3, <1>5 DEF Stays, Table
  <2> QED  BY <1>4, <2>1 DEF Staged, Advances
<1>6. CASE /\ UNCHANGED <<pending, runs>> /\ minted' = minted + 1 /\ minted < MaxInst
           /\ Bearing(t) = 0 /\ Bearing(t)' = minted + 1
           /\ Taking(t) = 0 /\ Taking(t)' = 0
  <2>1. /\ Borne' = [Borne EXCEPT ![t] = minted'] /\ Taken' = Taken /\ Table' = Table
        /\ minted' = minted + 1 /\ runs' = runs /\ minted < MaxInst /\ Owned[t] = 0
    BY <1>2, <1>3, <1>6 DEF Table
  <2>2. Advances(Stages(Borne, Taken, Table, minted, runs),
                 Stages([Borne EXCEPT ![t] = minted'], Taken, Table, minted', runs))
    BY <1>1, <2>1, AdvanceBear
  <2> QED  BY <1>4, <2>1, <2>2 DEF Staged
<1>7. CASE /\ UNCHANGED <<minted, runs>>
           /\ \E c \in Cards : pending' = [pending EXCEPT ![c] = prop[t]]
           /\ Bearing(t) = prop[t].inst /\ Bearing(t)' = 0
           /\ Taking(t) = 0 /\ Taking(t)' = 0
  <2>1. PICK c \in Cards : pending' = [pending EXCEPT ![c] = prop[t]]
    BY <1>7
  <2>2. Table' = [Table EXCEPT ![c] = Borne[t]]
    BY <1>2, <1>7, <2>1 DEF Table, TypeOK
  <2>3. /\ Borne' = [Borne EXCEPT ![t] = 0] /\ Taken' = Taken /\ Taken[t] = 0
        /\ minted' = minted /\ runs' = runs
    BY <1>2, <1>3, <1>7
  <2>4. Advances(Stages(Borne, Taken, Table, minted, runs),
                 Stages([Borne EXCEPT ![t] = 0], Taken, [Table EXCEPT ![c] = Borne[t]],
                        minted, runs))
    BY <1>1, <2>3, AdvanceOffer
  <2> QED  BY <1>4, <2>2, <2>3, <2>4 DEF Staged
<1>8. CASE /\ UNCHANGED <<minted, runs>>
           /\ Bearing(t) = 0 /\ Bearing(t)' = 0 /\ Taking(t) = 0
           /\ \E c \in Cards : /\ pending' = [pending EXCEPT ![c] = NoCard]
                               /\ Taking(t)' \in {pending[c].inst, 0}
  <2>1. PICK c \in Cards : /\ pending' = [pending EXCEPT ![c] = NoCard]
                           /\ Taking(t)' \in {pending[c].inst, 0}
    BY <1>8
  <2>2. PICK i \in {Table[c], 0} : i = Taking(t)'
    BY <2>1 DEF Table
  <2>3. /\ Table' = [Table EXCEPT ![c] = 0] /\ Borne' = Borne
        /\ Taken' = [Taken EXCEPT ![t] = i] /\ Owned[t] = 0
        /\ minted' = minted /\ runs' = runs
    BY <1>2, <1>3, <1>8, <2>1, <2>2 DEF Table, TypeOK, NoCard
  <2>4. Advances(Stages(Borne, Taken, Table, minted, runs),
                 Stages(Borne, [Taken EXCEPT ![t] = i], [Table EXCEPT ![c] = 0], minted, runs))
    BY <1>1, <2>3, AdvanceTake
  <2> QED  BY <1>4, <2>3, <2>4 DEF Staged
<1>9. CASE /\ UNCHANGED <<pending, minted>>
           /\ runs' = [runs EXCEPT ![Taking(t)] = Succ2(@)]
           /\ Bearing(t) = 0 /\ Bearing(t)' = 0
           /\ Taking(t) # 0 /\ Taking(t)' = 0
  <2>1. /\ Table' = Table /\ Borne' = Borne /\ Taken' = [Taken EXCEPT ![t] = 0]
        /\ Taken[t] # 0 /\ minted' = minted /\ runs' = [runs EXCEPT ![Taken[t]] = Succ2(@)]
    BY <1>2, <1>3, <1>9 DEF Table
  <2>2. Advances(Stages(Borne, Taken, Table, minted, runs),
                 Stages(Borne, [Taken EXCEPT ![t] = 0], Table, minted,
                        [runs EXCEPT ![Taken[t]] = Succ2(@)]))
    BY <1>1, <2>1, AdvanceRun
  <2> QED  BY <1>4, <2>1, <2>2 DEF Staged
<1> QED  BY <1>5, <1>6, <1>7, <1>8, <1>9 DEF Shifts

LEMMA ContractStep ==
  ASSUME BlockingOnly, TypeOK, TypeOK', IInv, ForHandled, [Next]_vars
  PROVE  ForHandled' /\ Advances(Staged, Staged')
<1>1. Control /\ SinglePlace /\ AtMostOnce
  BY DEF IInv
<1>2. CASE Restart
  BY <1>2 DEF Restart, BlockingOnly, TypeOK
<1>3. ASSUME NEW t \in Threads, Start(t) \/ Continue(t)
      PROVE  ForHandled' /\ Advances(Staged, Staged')
  <2>1. ForHandled' /\ Only(t) /\ Shifts(t)
    BY <1>1, <1>3, StartShifts, DecisionShifts, OtherShifts DEF Continue
  <2> QED  BY <1>1, <2>1, ShiftAdvances
<1>4. CASE UNCHANGED vars
  <2>1. Borne' = Borne /\ Taken' = Taken /\ Table' = Table /\ minted' = minted /\ runs' = runs
    BY <1>4 DEF vars, Borne, Bearing, Taken, Taking, Owes, Table
  <2> QED  BY <1>4, <2>1 DEF vars, ForHandled, Staged, Advances
<1> QED  BY <1>2, <1>3, <1>4 DEF Next

\* Every object the file starts with is in it.
InitFull == \A i \in 1 .. InitMinted : \E c \in Cards : InitInst[c] = i

LEMMA ContractInit ==
  ASSUME InitFull, Init
  PROVE  ForHandled /\ Contract!Init
<1>1. Init
  OBVIOUS
<1>2. ForHandled /\ \A t \in Threads : Own(t) = 0 /\ ~ Owes(t)
  BY <1>1 DEF Init, ForHandled, Own, Owes
<1>3. TypeOK
  BY <1>1, InitType
<1>4. minted = InitMinted /\ \A c \in Cards : pending[c].inst = InitInst[c]
  BY <1>1, ConstantTypes DEF Init, LoadPending, InitFile, EmptyFile
<1>5. ASSUME NEW i \in 1 .. MaxInst PROVE Stage(i) \in {"unborn", "offered"}
  <2>1. runs[i] = 0 /\ \A t \in Threads : Own(t) = 0 /\ ~ Owes(t)
    BY <1>1, <1>2 DEF Init
  <2>2. CASE \E c \in Cards : pending[c].inst = i
    BY <2>1, <2>2 DEF Stage
  <2>3. CASE ~ \E c \in Cards : pending[c].inst = i
    <3>1. i > minted
      BY <1>4, <2>3, BoundsAssumption DEF InitFull
    <3> QED  BY <2>1, <2>3, <3>1 DEF Stage
  <2> QED  BY <2>2, <2>3
<1> QED  BY <1>2, <1>5 DEF Contract!Init

\* In the blocking mode and within one life of the console, the threads, the
\* lock and the file together do to each card object what the contract says:
\* offer it once, then close it or take it and run it, and never go back.
THEOREM BlockingKeepsContract ==
  ASSUME BlockingOnly, InitFull
  PROVE  Spec => KeepsContract
<1>1. ASSUME TypeOK, TypeOK', IInv, ForHandled, [Next]_vars
      PROVE  [Contract!Next]_([i \in 1 .. MaxInst |-> Stage(i)])
  <2>1. Advances(Staged, Staged')
    BY <1>1, ContractStep
  <2>2. /\ (Staged = [i \in 1 .. MaxInst |-> Stage(i)])
        /\ (Staged = [i \in 1 .. MaxInst |-> Stage(i)])'
    BY <1>1, StageFits, PTL
  <2> QED  BY <2>1, <2>2 DEF Advances, Contract!Next, Contract!Offer, Contract!Take, Contract!Run,
       Contract!Close, Contract!Move, Contract!Supersede
<1>2. ASSUME TypeOK, TypeOK', IInv, ForHandled, [Next]_vars PROVE ForHandled'
  BY <1>2, ContractStep
<1>3. Init => ForHandled /\ Contract!Init
  BY ContractInit
<1> QED  BY <1>1, <1>2, <1>3, SafeStep, InitSafe, TypeCorrect, PTL
     DEF Spec, KeepsContract, Contract!Spec
-----------------------------------------------------------------------------
(* Restarts.  With final decisions only and a file that can be written, every  *)
(* change of the table is saved under the lock: the table, the file and the    *)
(* hands of the threads hold the same objects.                                 *)

FinalOnly == Ops \subseteq {"ACCEPT", "REJECT"} /\ Persist /\ ~ SaveMayFail

Saving      == {"takemeta", "save", "trunc", "write"}
Deciding    == {"idle", "signal", "get", "branch", "take"}

FinalAt(t) ==
  /\ pc[t] \in Saving \cup Deciding \cup {"dispatch"}
  /\ ret[t] \in {"idle", "dispatch"}
  /\ pc[t] # "idle" => req[t].op \in {"ACCEPT", "REJECT"}
  /\ t \in lock <=> pc[t] \in Saving
  /\ pc[t] \in Saving /\ prop[t].inst = 0 => prop[t] = NoCard
  /\ pc[t] \in {"trunc", "write"} => snap[t] = Snapshot
  /\ pc[t] = "write" => disk = TornFile
  /\ pc[t] \in {"takemeta", "save", "trunc"}
       => pending[req[t].card] = NoCard /\ LoadPending(disk)[req[t].card] = prop[t]
Final == \A t \in Threads : FinalAt(t)

\* What a thread has taken off the table.
Hand(t) == IF pc[t] \in Saving \cup {"dispatch"} THEN prop[t].inst ELSE 0
Hands   == [t \in Threads |-> Hand(t)]

Fresh(c) == LoadPending(disk)[c] = pending[c] /\ LoadMeta(disk)[c] = meta[c]

\* The file does not know yet that t took the card, or is being written.
Behind(t, c) ==
  \/ pc[t] = "write"
  \/ pc[t] \in {"takemeta", "save", "trunc"} /\ req[t].card = c

FileFits ==
  \A c \in Cards :
    /\ ~ Live(c) => pending[c] = NoCard
    /\ Live(c) => meta[c].known
    /\ ~ Live(c) => \/ meta[c] = NoMeta
                    \/ \E t \in Threads : pc[t] = "takemeta" /\ req[t].card = c
    /\ Fresh(c) \/ \E t \in Threads : Behind(t, c)

FinalInv == Final /\ FileFits /\ Single(Hands, Table, minted, runs)

LEMMA HandTypes ==
  ASSUME TypeOK
  PROVE  /\ Hands \in [Threads -> InstIds] /\ Table \in [Cards -> InstIds]
         /\ minted \in InstIds /\ runs \in [InstIds -> 0 .. 2]
  BY BoundsAssumption DEF Hands, Hand, Table, TypeOK, Objects

\* The threads that a step of t is not about.
LEMMA FinalOthers ==
  ASSUME TypeOK, TypeOK', Final, NEW t \in Threads, Only(t), FinalAt(t)',
         \A u \in Threads : u # t => snap'[u] = snap[u],
         \/ UNCHANGED <<pending, meta, disk, lock>>
         \/ t \in lock /\ lock' \subseteq {t}
         \/ lock = {} /\ lock' = {t}
  PROVE  Final' /\ Hands' = [Hands EXCEPT ![t] = Hand(t)']
<1>1. ASSUME NEW u \in Threads, u # t PROVE FinalAt(u)' /\ Hand(u)' = Hand(u)
  <2>1. /\ FinalAt(u) /\ pc'[u] = pc[u] /\ ret'[u] = ret[u] /\ req'[u] = req[u] /\ prop'[u] = prop[u]
        /\ snap'[u] = snap[u]
    BY <1>1 DEF Only, Final
  <2>2. CASE UNCHANGED <<pending, meta, disk, lock>>
    BY <2>1, <2>2 DEF FinalAt, Snapshot, Live, Hand
  <2>3. CASE ~ UNCHANGED <<pending, meta, disk, lock>>
    <3>1. u \notin lock /\ u \notin lock'
      BY <1>1, <2>3 DEF TypeOK
    <3>2. pc[u] \notin Saving
      BY <2>1, <3>1 DEF FinalAt
    <3> QED  BY <2>1, <3>1, <3>2 DEF FinalAt, Hand, Saving
  <2> QED  BY <2>2, <2>3
<1>2. Hands' = [Hands EXCEPT ![t] = Hand(t)']
  BY <1>1 DEF Hands
<1> QED  BY <1>1, <1>2 DEF Final

\* A thread keeps what it holds, or drops it.
LEMMA SingleWanes ==
  ASSUME TypeOK, FinalInv, NEW t \in Threads, UNCHANGED <<pending, minted, runs>>,
         Hands' = [Hands EXCEPT ![t] = Hand(t)'], Hand(t)' \in {Hand(t), 0}
  PROVE  Single(Hands', Table', minted', runs')
<1>1. Table' = Table /\ Hands[t] = Hand(t) /\ minted' = minted /\ runs' = runs
  BY DEF Table, Hands
<1>2. Hands' = Hands \/ Hands' = [Hands EXCEPT ![t] = 0]
  BY <1>1, HandTypes
<1>3. Single(Hands, Table, minted, runs) /\ Single([Hands EXCEPT ![t] = 0], Table, minted, runs)
  BY HandTypes, SingleMoves DEF FinalInv
<1> QED  BY <1>1, <1>2, <1>3

LEMMA FileKept ==
  ASSUME FileFits, NEW t \in Threads, Only(t), pc[t] \notin Saving, UNCHANGED shared
  PROVE  FileFits'
<1>1. \A u \in Threads : pc[u] \in Saving => pc'[u] = pc[u] /\ req'[u] = req[u]
  BY DEF Only
<1>2. \A u \in Threads, c \in Cards : Behind(u, c) => Behind(u, c)'
  BY <1>1 DEF Behind, Saving
<1>3. \A u \in Threads : pc[u] = "takemeta" => pc'[u] = "takemeta" /\ req'[u] = req[u]
  BY <1>1 DEF Saving
<1>4. \A c \in Cards : (Fresh(c) => Fresh(c)') /\ (Live(c)' <=> Live(c))
                       /\ pending'[c] = pending[c] /\ meta'[c] = meta[c]
  BY DEF Fresh, Live, shared
<1> QED  BY <1>2, <1>3, <1>4 DEF FileFits

\* A step of a request before it takes a card.
LEMMA QuietFinal ==
  ASSUME TypeOK, TypeOK', FinalInv, NEW t \in Threads, Only(t),
         UNCHANGED <<shared, snap, minted, runs>>,
         pc[t] \in Deciding, pc'[t] \in Deciding, ret'[t] \in {"idle", "dispatch"},
         pc'[t] # "idle" => req'[t].op \in {"ACCEPT", "REJECT"}
  PROVE  FinalInv'
<1>1. FinalAt(t) /\ t \notin lock
  BY DEF FinalInv, Final, FinalAt, Saving, Deciding
<1>2. FinalAt(t)' /\ Hand(t)' = 0
  BY <1>1 DEF FinalAt, Saving, Deciding, Hand, shared
<1>3. Final' /\ Hands' = [Hands EXCEPT ![t] = 0]
  BY <1>2, FinalOthers DEF FinalInv, shared
<1>4. Single(Hands', Table', minted', runs')
  <2>1. Table' = Table /\ minted' = minted /\ runs' = runs
    BY DEF Table, shared
  <2> QED  BY <1>3, <2>1, HandTypes, SingleMoves DEF FinalInv
<1>5. FileFits'
  BY FileKept DEF FinalInv, Saving, Deciding
<1> QED  BY <1>3, <1>4, <1>5 DEF FinalInv

LEMMA FinalStart ==
  ASSUME FinalOnly, TypeOK, TypeOK', FinalInv, NEW t \in Threads, Start(t)
  PROVE  FinalInv'
<1>1. PICK c \in Cards, op \in AllOps : Decide(t, op, c) /\ op \in {"ACCEPT", "REJECT"}
  BY DEF Start, Flip, Broadcast, AgeScan, Decide, Request, FinalOnly, Flips
<1>2. /\ pc[t] = "idle" /\ pc'[t] = "signal" /\ req'[t].op = op /\ Only(t)
      /\ UNCHANGED <<shared, snap, minted, runs, ret>>
  BY <1>1 DEF Decide, Request, TypeOK, Only, history
<1>3. ret[t] \in {"idle", "dispatch"}
  BY DEF FinalInv, Final, FinalAt
<1> QED  BY <1>1, <1>2, <1>3, QuietFinal DEF Deciding

\* The three steps of a decision before remove.
LEMMA FinalDecide ==
  ASSUME TypeOK, TypeOK', FinalInv, NEW t \in Threads,
         RecordSignals(t) \/ DecideGet(t) \/ DecideBranch(t)
  PROVE  FinalInv'
<1>1. FinalAt(t) /\ pc[t] \in Deciding \ {"idle"} /\ UNCHANGED <<shared, snap, minted, runs>>
  BY DEF FinalInv, Final, RecordSignals, DecideGet, DecideBranch, Deciding, history
<1>2. ASSUME NEW l \in Deciding, Leave(t, l) PROVE FinalInv'
  <2>1. /\ Only(t) /\ pc'[t] = l /\ ret'[t] \in {"idle", "dispatch"}
        /\ l # "idle" => req'[t].op \in {"ACCEPT", "REJECT"}
    BY <1>1, <1>2, LeaveEffect DEF FinalAt
  <2> QED  BY <1>1, <2>1, QuietFinal
<1>3. CASE RecordSignals(t)
  BY <1>2, <1>3 DEF RecordSignals, Deciding
<1>4. CASE DecideGet(t)
  <2>1. CASE Hold(t, pending[req[t].card], "branch")
    <3>1. Only(t) /\ pc'[t] = "branch" /\ ret'[t] = ret[t] /\ req'[t] = req[t]
      BY <2>1 DEF Hold, Only, TypeOK
    <3> QED  BY <1>1, <3>1, QuietFinal DEF FinalAt, Deciding
  <2>2. CASE Leave(t, "idle")
    BY <1>2, <2>2 DEF Deciding
  <2> QED  BY <1>4, <2>1, <2>2 DEF DecideGet
<1>5. CASE DecideBranch(t)
  <2>1. req[t].op # "DEFER"
    BY <1>1 DEF FinalAt, Deciding
  <2>2. CASE Leave(t, "idle")
    BY <1>2, <2>2 DEF Deciding
  <2>3. CASE /\ pc' = [pc EXCEPT ![t] = "take"]
             /\ \E l \in {"idle", "dispatch"} : ret' = [ret EXCEPT ![t] = l]
             /\ UNCHANGED <<req, prop>>
    <3>1. Only(t) /\ pc'[t] = "take" /\ ret'[t] \in {"idle", "dispatch"} /\ req'[t] = req[t]
      BY <2>3 DEF Only, TypeOK
    <3> QED  BY <1>1, <3>1, QuietFinal DEF FinalAt, Deciding
  <2>4. Leave(t, "idle")
        \/ (/\ pc' = [pc EXCEPT ![t] = "take"]
            /\ \E l \in {"idle", "dispatch"} : ret' = [ret EXCEPT ![t] = l]
            /\ UNCHANGED <<req, prop>>)
    BY <1>5, <2>1 DEF DecideBranch
  <2> QED  BY <2>2, <2>3, <2>4
<1> QED  BY <1>3, <1>4, <1>5

LEMMA LoadAbsent ==
  ASSUME NEW f \in Files, NEW c \in Cards, LoadPending(f)[c].inst = 0
  PROVE  LoadMeta(f)[c] = NoMeta
  BY DEF LoadPending, LoadMeta, EmptyFile

\* Only the thread that holds the lock can be behind the file.
LEMMA OneHolder ==
  ASSUME TypeOK, Final, NEW t \in Threads, NEW u \in Threads, u # t, t \in lock \/ lock = {}
  PROVE  pc[u] \notin Saving
<1>1. u \notin lock
  BY DEF TypeOK
<1> QED  BY <1>1 DEF Final, FinalAt

LEMMA FinalTakePop ==
  ASSUME TypeOK, TypeOK', FinalInv, NEW t \in Threads, TakePop(t) PROVE FinalInv'
<1> DEFINE c == req[t].card
<1>1. /\ pc[t] = "take" /\ pc'[t] = "takemeta" /\ Only(t) /\ UNCHANGED <<req, ret, meta, disk, snap>>
      /\ prop'[t] = pending[c] /\ c \in Cards /\ lock = {} /\ lock' = {t}
      /\ pending' = [pending EXCEPT ![c] = NoCard] /\ UNCHANGED <<minted, runs>>
  BY DEF TakePop, Hold, TypeOK, Only, history
<1>2. /\ \A u \in Threads : pc[u] \notin Saving
      /\ FinalAt(t) /\ \A d \in Cards : Fresh(d) /\ (~ Live(d) => meta[d] = NoMeta)
  <2>1. \A u \in Threads : pc[u] \notin Saving
    BY <1>1 DEF FinalInv, Final, FinalAt
  <2> QED  BY <2>1 DEF FinalInv, Final, FileFits, Behind, Saving
<1>3. FinalAt(t)'
  <2>1. prop'[t].inst = 0 => prop'[t] = NoCard
    BY <1>1 DEF FinalInv, FileFits, Live
  <2>2. pending'[c] = NoCard /\ LoadPending(disk)[c] = prop'[t]
    BY <1>1, <1>2 DEF TypeOK, Fresh
  <2> QED  BY <1>1, <1>2, <2>1, <2>2 DEF FinalAt, Saving
<1>4. Final' /\ Hands' = [Hands EXCEPT ![t] = Hand(t)']
  BY <1>1, <1>3, FinalOthers DEF FinalInv
<1>5. Single(Hands', Table', minted', runs')
  <2>1. Hand(t)' = Table[c] /\ Hands[t] = 0 /\ Table' = [Table EXCEPT ![c] = 0]
    BY <1>1 DEF Hand, Hands, Table, Saving, TypeOK, NoCard
  <2> QED  BY <1>1, <1>4, <2>1, HandTypes, SingleMoves DEF FinalInv
<1>6. FileFits'
  <2>1. \A d \in Cards : pending'[d] = IF d = c THEN NoCard ELSE pending[d]
    BY <1>1 DEF TypeOK
  <2>2. Behind(t, c)' /\ pc'[t] = "takemeta" /\ req'[t].card = c
    BY <1>1 DEF Behind
  <2>3. \A d \in Cards \ {c} : Fresh(d)' /\ (Live(d)' <=> Live(d)) /\ meta'[d] = meta[d]
    BY <1>1, <1>2, <2>1 DEF Fresh, Live
  <2>4. ~ Live(c)'
    BY <2>1, <1>1 DEF Live, NoCard
  <2> QED  BY <1>1, <1>2, <2>1, <2>2, <2>3, <2>4 DEF FinalInv, FileFits
<1> QED  BY <1>4, <1>5, <1>6 DEF FinalInv

LEMMA FinalTakeMeta ==
  ASSUME TypeOK, TypeOK', FinalInv, NEW t \in Threads, TakeMeta(t) PROVE FinalInv'
<1>0. PICK c \in Cards : c = req[t].card
  BY DEF TypeOK
<1>1. /\ pc[t] = "takemeta" /\ FinalAt(t) /\ t \in lock /\ lock = {t} /\ c \in Cards
      /\ meta' = [meta EXCEPT ![c] = NoMeta] /\ UNCHANGED <<pending, disk, snap, minted, runs>>
      /\ pending[c] = NoCard /\ LoadPending(disk)[c] = prop[t]
  BY <1>0 DEF TakeMeta, FinalInv, Final, FinalAt, Saving, TypeOK, history
<1>2. \A u \in Threads : u # t => pc[u] \notin Saving
  BY <1>1, OneHolder DEF FinalInv
<1>3. \A d \in Cards \ {c} : Fresh(d) /\ (~ Live(d) => meta[d] = NoMeta)
  BY <1>0, <1>1, <1>2 DEF FinalInv, FileFits, Behind, Saving
<1>4. \A d \in Cards : (Live(d)' <=> Live(d)) /\ meta'[d] = IF d = c THEN NoMeta ELSE meta[d]
  BY <1>1 DEF TypeOK, Live
<1>5. ~ Live(c)
  BY <1>1 DEF Live, NoCard
<1>6. ASSUME Hand(t)' \in {Hand(t), 0}, Final', Hands' = [Hands EXCEPT ![t] = Hand(t)'],
             Fresh(c)' \/ Behind(t, c)'
      PROVE  FinalInv'
  <2>3. Single(Hands', Table', minted', runs')
    BY <1>1, <1>6, SingleWanes
  <2>4. \A d \in Cards \ {c} : Fresh(d)'
    BY <1>1, <1>3, <1>4 DEF Fresh
  <2>5. FileFits'
    <3>1. pending'[c] = NoCard /\ ~ Live(c)' /\ meta'[c] = NoMeta
      BY <1>1, <1>4, <1>5
    <3>2. Fresh(c)' \/ \E u \in Threads : Behind(u, c)'
      BY <1>6, t \in Threads
    <3>3. \A d \in Cards : /\ ~ Live(d) => pending[d] = NoCard
                           /\ Live(d) => meta[d].known
      BY DEF FinalInv, FileFits
    <3>4. ASSUME NEW d \in Cards, d # c
          PROVE  /\ ~ Live(d)' => pending'[d] = NoCard /\ meta'[d] = NoMeta
                 /\ Live(d)' => meta'[d].known
                 /\ Fresh(d)'
      BY <1>1, <1>3, <1>4, <2>4, <3>3, <3>4
    <3> QED  BY <3>1, <3>2, <3>4 DEF FileFits
  <2> QED  BY <1>6, <2>3, <2>5 DEF FinalInv
<1>7. CASE prop[t].inst # 0
  <2>1. Only(t) /\ pc'[t] = "save" /\ UNCHANGED lock
        /\ ret'[t] = ret[t] /\ req'[t] = req[t] /\ prop'[t] = prop[t]
    BY <1>7, LeaveEffect DEF TakeMeta
  <2>2. FinalAt(t)' /\ Behind(t, c)' /\ Hand(t)' = Hand(t)
    BY <1>0, <1>1, <2>1 DEF FinalAt, Saving, Behind, Hand
  <2>3. Final' /\ Hands' = [Hands EXCEPT ![t] = Hand(t)']
    BY <1>1, <2>1, <2>2, FinalOthers DEF FinalInv
  <2> QED  BY <1>6, <2>2, <2>3
<1>8. CASE prop[t].inst = 0
  <2>1. Only(t) /\ pc'[t] = "idle" /\ lock' = {} /\ ret'[t] = "idle"
    BY <1>8, LeaveEffect DEF TakeMeta
  <2>2. FinalAt(t)' /\ Hand(t)' = 0
    BY <2>1 DEF FinalAt, Saving, Deciding, Hand
  <2>3. Final' /\ Hands' = [Hands EXCEPT ![t] = Hand(t)']
    BY <1>1, <2>1, <2>2, FinalOthers DEF FinalInv
  <2>4. Fresh(c)'
    <3>1. prop[t] = NoCard
      BY <1>1, <1>8 DEF FinalAt, Saving
    <3>2. LoadMeta(disk)[c] = NoMeta
      BY <1>1, <3>1, LoadAbsent DEF TypeOK, NoCard
    <3>3. /\ pending'[c] = NoCard /\ meta'[c] = NoMeta /\ disk' = disk
          /\ LoadPending(disk)[c] = NoCard
      BY <1>1, <1>4, <3>1
    <3>4. LoadMeta(disk)'[c] = NoMeta /\ LoadPending(disk)'[c] = NoCard
      BY <3>2, <3>3 DEF LoadPending, LoadMeta
    <3> QED  BY <3>3, <3>4 DEF Fresh
  <2> QED  BY <1>6, <2>2, <2>3, <2>4
<1> QED  BY <1>7, <1>8

LEMMA FinalDispatch ==
  ASSUME TypeOK, TypeOK', FinalInv, NEW t \in Threads, Dispatch(t) PROVE FinalInv'
<1>1. /\ pc[t] = "dispatch" /\ Only(t) /\ pc'[t] = "idle" /\ ret'[t] = "idle"
      /\ UNCHANGED <<shared, snap, minted>> /\ FinalAt(t)
  BY LeaveEffect DEF Dispatch, FinalInv, Final
<1>2. FinalAt(t)' /\ Hand(t)' = 0 /\ Hands[t] = prop[t].inst
  BY <1>1 DEF FinalAt, Saving, Deciding, Hand, Hands, shared
<1>3. Final' /\ Hands' = [Hands EXCEPT ![t] = 0]
  BY <1>1, <1>2, FinalOthers DEF FinalInv, shared
<1>4. FileFits'
  BY <1>1, FileKept DEF FinalInv, Saving
<1>5. Single(Hands', Table', minted', runs')
  <2>1. Table' = Table /\ minted' = minted
    BY <1>1 DEF Table, shared
  <2>2. runs' = runs \/ (Hands[t] # 0 /\ runs' = [runs EXCEPT ![Hands[t]] = Succ2(@)])
    BY <1>2 DEF Dispatch, RunHandler
  <2>3. /\ Single([Hands EXCEPT ![t] = 0], Table, minted, runs)
        /\ Hands[t] # 0 => Single([Hands EXCEPT ![t] = 0], Table, minted,
                                 [runs EXCEPT ![Hands[t]] = Succ2(@)])
    BY HandTypes, SingleMoves DEF FinalInv
  <2> QED  BY <1>3, <2>1, <2>2, <2>3
<1> QED  BY <1>3, <1>4, <1>5 DEF FinalInv

LEMMA FinalSaves ==
  ASSUME FinalOnly, TypeOK, TypeOK', FinalInv, NEW t \in Threads,
         SaveBuild(t) \/ SaveTruncate(t) \/ SaveWrite(t)
  PROVE  FinalInv'
<1> DEFINE c == req[t].card
<1>1. /\ pc[t] \in {"save", "trunc", "write"} /\ FinalAt(t) /\ t \in lock /\ lock = {t}
      /\ UNCHANGED <<pending, meta, minted, runs>> /\ c \in Cards
  BY DEF SaveBuild, SaveTruncate, SaveWrite, SaveEnd, FinalInv, Final, FinalAt, Saving, TypeOK, history
<1>2. \A u \in Threads : u # t => pc[u] \notin Saving
  BY <1>1, OneHolder DEF FinalInv
<1>3. \A d \in Cards : /\ (Live(d)' <=> Live(d)) /\ (~ Live(d) => meta[d] = NoMeta)
                       /\ (Live(d) => meta[d].known)
  BY <1>1, <1>2 DEF FinalInv, FileFits, Live, Saving
<1>4. ASSUME Hand(t)' \in {Hand(t), 0}, Final', Hands' = [Hands EXCEPT ![t] = Hand(t)'],
             \A d \in Cards : Fresh(d)' \/ Behind(t, d)'
      PROVE  FinalInv'
  <2>3. Single(Hands', Table', minted', runs')
    BY <1>1, <1>4, SingleWanes
  <2>4. FileFits'
    BY <1>1, <1>3, <1>4 DEF FinalInv, FileFits
  <2> QED  BY <1>4, <2>3, <2>4 DEF FinalInv
<1>5. CASE SaveBuild(t)
  <2>1. /\ pc[t] = "save" /\ Only(t) /\ pc'[t] = "trunc" /\ UNCHANGED <<disk, lock>>
        /\ ret'[t] = ret[t] /\ req'[t] = req[t] /\ prop'[t] = prop[t]
        /\ snap' = [snap EXCEPT ![t] = Snapshot]
    BY <1>5, LeaveEffect DEF SaveBuild, FinalOnly
  <2>2. snap'[t] = Snapshot' /\ \A u \in Threads : u # t => snap'[u] = snap[u]
    BY <1>1, <2>1 DEF TypeOK, Snapshot, Live
  <2>3. FinalAt(t)' /\ Hand(t)' = Hand(t)
    BY <1>1, <2>1, <2>2 DEF FinalAt, Saving, Hand
  <2>4. Final' /\ Hands' = [Hands EXCEPT ![t] = Hand(t)']
    BY <1>1, <2>1, <2>2, <2>3, FinalOthers DEF FinalInv
  <2>5. \A d \in Cards : Fresh(d)' \/ Behind(t, d)'
    <3>1. \A d \in Cards : Fresh(d) \/ Behind(t, d)
      BY <1>2 DEF FinalInv, FileFits, Behind, Saving
    <3> QED  BY <1>1, <2>1, <3>1 DEF Fresh, Behind
  <2> QED  BY <1>4, <2>3, <2>4, <2>5
<1>6. CASE SaveTruncate(t)
  <2>1. /\ pc[t] = "trunc" /\ Only(t) /\ pc'[t] = "write" /\ UNCHANGED <<snap, lock>>
        /\ ret'[t] = ret[t] /\ req'[t] = req[t] /\ prop'[t] = prop[t] /\ disk' = TornFile
    BY <1>6, LeaveEffect DEF SaveTruncate
  <2>2. Snapshot' = Snapshot
    BY <1>1 DEF Snapshot, Live
  <2>3. FinalAt(t)' /\ Hand(t)' = Hand(t) /\ \A d \in Cards : Behind(t, d)'
    BY <1>1, <2>1, <2>2 DEF FinalAt, Saving, Hand, Behind
  <2>4. Final' /\ Hands' = [Hands EXCEPT ![t] = Hand(t)']
    BY <1>1, <2>1, <2>3, FinalOthers DEF FinalInv
  <2> QED  BY <1>4, <2>3, <2>4
<1>7. CASE SaveWrite(t)
  <2>1. /\ pc[t] = "write" /\ snap[t] = Snapshot /\ disk = TornFile
    BY <1>1, <1>7 DEF SaveWrite, FinalAt
  <2>2. disk' = Snapshot
    BY <1>7, <2>1 DEF SaveWrite, TornFile, EmptyFile
  <2>3. /\ Only(t) /\ pc'[t] = ret[t] /\ lock' = {}
        /\ pc'[t] = "idle" => ret'[t] = "idle"
        /\ pc'[t] # "idle" => ret'[t] = ret[t] /\ req'[t] = req[t] /\ prop'[t] = prop[t]
        /\ \A u \in Threads : u # t => snap'[u] = snap[u]
    BY <1>1, <1>7, LeaveEffect DEF SaveWrite, SaveEnd, TypeOK
  <2>4. FinalAt(t)' /\ Hand(t)' \in {Hand(t), 0}
    BY <1>1, <2>3 DEF FinalAt, Saving, Deciding, Hand
  <2>5. Final' /\ Hands' = [Hands EXCEPT ![t] = Hand(t)']
    BY <1>1, <2>3, <2>4, FinalOthers DEF FinalInv
  <2>6. ASSUME NEW d \in Cards PROVE Fresh(d)'
    <3>1. /\ LoadPending(Snapshot)[d] = pending[d]
          /\ LoadMeta(Snapshot)[d] = IF Live(d) THEN [meta[d] EXCEPT !.known = TRUE] ELSE NoMeta
      BY DEF LoadPending, LoadMeta, Snapshot, Live
    <3>2. meta[d].known => [meta[d] EXCEPT !.known = TRUE] = meta[d]
      BY DEF TypeOK, Metas
    <3> QED  BY <1>1, <1>3, <2>2, <3>1, <3>2 DEF Fresh
  <2> QED  BY <1>4, <2>4, <2>5, <2>6
<1> QED  BY <1>5, <1>6, <1>7

\* What a restart finds in the file: the table, or what a thread held that had
\* not saved yet, or nothing in the middle of a write.
LEMMA FinalRestart ==
  ASSUME TypeOK, TypeOK', FinalInv, Restart PROVE FinalInv'
<1>1. /\ pending' = LoadPending(disk) /\ meta' = LoadMeta(disk)
      /\ LoadPending(disk)' = LoadPending(disk) /\ LoadMeta(disk)' = LoadMeta(disk)
      /\ UNCHANGED <<minted, runs>>
  BY DEF Restart, LoadPending, LoadMeta
<1>2. Final' /\ \A t \in Threads : Hands'[t] = 0
  BY DEF Restart, Final, FinalAt, Saving, Deciding, Hands, Hand
<1>3. ASSUME NEW c \in Cards
      PROVE  \/ pending'[c] = NoCard
             \/ pending'[c] = pending[c]
             \/ \E u \in Threads : /\ pending'[c] = prop[u] /\ pc[u] \in Saving
                                  /\ req[u].card = c
  <2>1. CASE Fresh(c)
    BY <1>1, <2>1 DEF Fresh
  <2>2. ASSUME NEW u \in Threads, Behind(u, c), pc[u] = "write" PROVE pending'[c] = NoCard
    BY <1>1, <2>2 DEF FinalInv, Final, FinalAt, LoadPending, TornFile, EmptyFile
  <2>3. ASSUME NEW u \in Threads, Behind(u, c), pc[u] # "write"
        PROVE  pending'[c] = prop[u] /\ pc[u] \in Saving /\ req[u].card = c
    BY <1>1, <2>3 DEF FinalInv, Final, FinalAt, Behind, Saving
  <2> QED  BY <2>1, <2>2, <2>3 DEF FinalInv, FileFits
<1>4. \A c \in Cards : \/ Table'[c] = 0
                       \/ Table'[c] = Table[c]
                       \/ \E u \in Threads : /\ Table'[c] = Hands[u] /\ pc[u] \in Saving
                                            /\ req[u].card = c
  BY <1>3 DEF Table, Hands, Hand, NoCard
<1>5. \A u, v \in Threads : pc[u] \in Saving /\ pc[v] \in Saving => u = v
  BY DEF FinalInv, Final, FinalAt, TypeOK
<1>6. Single(Hands', Table', minted', runs')
  <2>1. Single(Hands, Table, minted, runs)
    BY DEF FinalInv
  <2>2. ASSUME NEW c \in Cards, NEW d \in Cards, c # d, Table'[c] = Table'[d]
        PROVE  Table'[c] = 0
    BY <1>4, <1>5, <2>1, <2>2 DEF Single
  <2>3. \A c \in Cards : Table'[c] <= minted
    <3>1. 0 <= minted
      BY BoundsAssumption DEF TypeOK
    <3>2. (\A c \in Cards : Table[c] <= minted) /\ \A u \in Threads : Hands[u] <= minted
      BY <2>1 DEF Single
    <3> QED  BY <1>4, <3>1, <3>2
  <2>4. \A i \in 1 .. MaxInst : runs[i] > 0 => \A c \in Cards : Table'[c] # i
    BY <1>4, <2>1 DEF Single
  <2>5. /\ \A t \in Threads : Hands'[t] = 0 /\ 0 <= minted
        /\ \A i \in 1 .. MaxInst : runs[i] > 0 => i <= minted
        /\ \A i \in InstIds : runs[i] <= 1
    BY <1>2, <2>1, BoundsAssumption DEF Single, TypeOK
  <2> QED  BY <1>1, <2>2, <2>3, <2>4, <2>5 DEF Single
<1>7. FileFits'
  <2>1. ASSUME NEW c \in Cards, ~ Live(c)' PROVE pending'[c] = NoCard /\ meta'[c] = NoMeta
    <3>1. pending'[c].inst = 0
      BY <2>1 DEF Live
    <3>2. pending[c].inst = 0 => pending[c] = NoCard
      BY DEF FinalInv, FileFits, Live
    <3>3. \A u \in Threads : pc[u] \in Saving /\ prop[u].inst = 0 => prop[u] = NoCard
      BY DEF FinalInv, Final, FinalAt
    <3>4. meta'[c] = NoMeta
      BY <1>1, <3>1, LoadAbsent DEF TypeOK
    <3> QED  BY <1>3, <3>1, <3>2, <3>3, <3>4
  <2>2. ASSUME NEW c \in Cards, Live(c)' PROVE meta'[c].known
    <3>1. ~ disk.torn /\ disk.pending[c].inst # 0
      BY <1>1, <2>2 DEF Live, LoadPending, EmptyFile, NoCard
    <3> QED  BY <1>1, <3>1 DEF LoadMeta, TypeOK, Files, Metas
  <2>3. \A c \in Cards : Fresh(c)'
    BY <1>1 DEF Fresh
  <2> QED  BY <2>1, <2>2, <2>3 DEF FileFits
<1> QED  BY <1>2, <1>6, <1>7 DEF FinalInv

LEMMA FinalInit == Init => FinalInv
<1>1. SUFFICES ASSUME Init PROVE FinalInv
  OBVIOUS
<1>2. Final /\ \A t \in Threads : Hands[t] = 0
  BY <1>1 DEF Init, Final, FinalAt, Saving, Deciding, Hands, Hand
<1>3. ASSUME NEW c \in Cards
      PROVE  /\ pending[c].inst = InitInst[c] /\ Fresh(c)
             /\ InitInst[c] = 0 => pending[c] = NoCard
  <2>1. pending[c] = [inst |-> InitInst[c], mode |-> "blocking"] /\ Fresh(c)
    BY <1>1 DEF Init, LoadPending, InitFile, EmptyFile, Fresh
  <2>2. pending[c].inst = InitInst[c]
    BY <2>1
  <2> QED  BY <2>1, <2>2 DEF NoCard
<1>4. \A c \in Cards : meta[c] = IF InitInst[c] = 0 THEN NoMeta ELSE FreshMeta
  BY <1>1, <1>3 DEF Init, LoadMeta, InitFile, EmptyFile, FreshMeta, NoMeta
<1>5. FileFits
  <2>1. FreshMeta.known
    BY DEF FreshMeta, NoMeta
  <2>2. ASSUME NEW c \in Cards
        PROVE  /\ ~ Live(c) => pending[c] = NoCard /\ meta[c] = NoMeta
               /\ Live(c) => meta[c].known
    BY <1>3, <1>4, <2>1 DEF Live
  <2> QED  BY <1>3, <2>2 DEF FileFits
<1>6. Single(Hands, Table, minted, runs)
  <2>1. /\ \A c \in Cards : Table[c] = InitInst[c]
        /\ minted = InitMinted /\ \A i \in InstIds : runs[i] = 0
    <3>1. \A c \in Cards : Table[c] = InitInst[c]
      BY <1>3 DEF Table
    <3> QED  BY <1>1, <3>1 DEF Init
  <2> QED  BY <1>2, <2>1, BoundsAssumption DEF Single
<1> QED  BY <1>2, <1>5, <1>6 DEF FinalInv

LEMMA FinalStep ==
  ASSUME FinalOnly, TypeOK, TypeOK', FinalInv, [Next]_vars PROVE FinalInv'
<1>1. ASSUME NEW t \in Threads, Continue(t) PROVE FinalInv'
  <2>1. pc[t] \in Saving \cup Deciding \cup {"dispatch"} /\ ~ SaveMayFail
    BY DEF FinalInv, Final, FinalAt, FinalOnly
  <2>2. \/ RecordSignals(t) \/ DecideGet(t) \/ DecideBranch(t)
        \/ TakePop(t) \/ TakeMeta(t) \/ Dispatch(t)
        \/ SaveBuild(t) \/ SaveTruncate(t) \/ SaveWrite(t)
    BY <1>1, <2>1 DEF Continue, Saving, Deciding, Defer, RegisterPut, RegisterMeta, Reget,
       ExecuteDispatch, ExecuteMark, FlipGet, FlipCheck, SetMode, SaveFail
  <2> QED  BY <2>2, FinalDecide, FinalTakePop, FinalTakeMeta, FinalDispatch, FinalSaves
<1>2. CASE UNCHANGED vars
  <2>1. /\ UNCHANGED <<pending, meta, lock, disk, minted, pc, ret, req, prop, snap, runs>>
    BY <1>2 DEF vars
  <2>2. Final' /\ FileFits'
    BY <2>1 DEF FinalInv, Final, FinalAt, FileFits, Fresh, Behind, Live, Snapshot
  <2>3. Hands' = Hands /\ Table' = Table
    BY <2>1 DEF Hands, Hand, Table
  <2> QED  BY <2>1, <2>2, <2>3 DEF FinalInv
<1> QED  BY <1>1, <1>2, FinalStart, FinalRestart DEF Next

\* With final decisions only and a file that can be written, crashes do not run
\* a card object twice either: the file forgets a card before its dispatch.
THEOREM RestartAtMostOnce ==
  ASSUME FinalOnly
  PROVE  Spec => []AtMostOnce
<1>1. FinalInv => AtMostOnce
  BY DEF FinalInv, Single, AtMostOnce
<1> QED  BY <1>1, FinalInit, FinalStep, TypeCorrect, PTL DEF Spec

\* Under the same conditions the file matches the table whenever no thread is
\* between the pop and the end of its save.
THEOREM FileMatches ==
  ASSUME FinalOnly
  PROVE  Spec => []FileCurrent
<1>1. TypeOK /\ FinalInv => FileCurrent
  <2>1. SUFFICES ASSUME TypeOK, FinalInv, \A t \in Threads : pc[t] \notin Saving
                 PROVE  LoadPending(disk) = pending /\ LoadMeta(disk) = meta
    BY DEF FileCurrent, Saving
  <2>2. \A c \in Cards : LoadPending(disk)[c] = pending[c] /\ LoadMeta(disk)[c] = meta[c]
    BY <2>1 DEF FinalInv, FileFits, Fresh, Behind, Saving
  <2> QED  BY <2>1, <2>2, LoadTypes DEF TypeOK
<1> QED  BY <1>1, FinalInit, FinalStep, TypeCorrect, PTL DEF Spec

-----------------------------------------------------------------------------
(* NothingEaten without the run-first mode, for any number of threads, saves  *)
(* that fail and restarts: no mark reaches the table, the file or a snapshot, *)
(* so an ACCEPT that takes a card always goes on to its dispatch.             *)

NoRunFirst == Ops \cap (Flips \cup {"suggest_nb"}) = {}

NoMark(m) == \A c \in Cards : ~ m[c].auto
NoMarks   == /\ NoMark(meta) /\ NoMark(disk.meta)
             /\ \A t \in Threads : NoMark(snap[t].meta)

PlainAt(t) ==
  /\ ControlAt(t)
  /\ pc[t] \in {"take", "takemeta"} /\ req[t].op = "ACCEPT" => ret[t] = "dispatch"
  /\ "dispatch" \in {pc[t], ret[t]} => req[t].card \in Handled
Plain == \A t \in Threads : PlainAt(t)

\* A thread that goes on to where it was bound.
LEMMA PlainLeave ==
  ASSUME TypeOK, NEW t \in Threads, PlainAt(t), NEW l, Leave(t, l),
         \/ l = "idle"
         \/ l \in {"get", "defer", "undefer"} /\ ret[t] = "idle"
         \/ l = "save" /\ pc[t] = "regmeta"
         \/ l \in {"trunc", "write"} /\ pc[t] \in {"save", "trunc"}
         \/ l = "save" /\ pc[t] = "takemeta"
         \/ l = ret[t] /\ pc[t] \in {"save", "trunc", "write"}
  PROVE  Only(t) /\ PlainAt(t)'
<1>1. Only(t) /\ pc'[t] = l
  BY LeaveEffect
<1>2. CASE l = "idle"
  BY <1>1, <1>2, LeaveEffect DEF PlainAt, ControlAt, BlockingLabels
<1>3. CASE l # "idle"
  <2>1. ret'[t] = ret[t] /\ req'[t] = req[t]
    BY <1>3, LeaveEffect
  <2> QED  BY <1>1, <1>3, <2>1 DEF PlainAt, ControlAt, BlockingLabels
<1> QED  BY <1>1, <1>2, <1>3

LEMMA PlainStart ==
  ASSUME NoRunFirst, TypeOK, NEW t \in Threads, PlainAt(t), Start(t)
  PROVE  Only(t) /\ PlainAt(t)'
<1>1. pc[t] = "idle" /\ ret[t] = "idle"
  BY DEF Start, Decide, Flip, Broadcast, AgeScan, Request, PlainAt, ControlAt
<1>2. ASSUME NEW c \in Cards, NEW op \in AllOps, Decide(t, op, c)
      PROVE  Only(t) /\ PlainAt(t)'
  <2>1. Only(t) /\ pc'[t] = "signal" /\ ret'[t] = "idle"
    BY <1>1, <1>2 DEF Only, Decide, Request, TypeOK
  <2> QED  BY <2>1 DEF PlainAt, ControlAt, BlockingLabels
<1>3. ASSUME NEW c \in Cards, NEW op \in AllOps, Flip(t, op, c)
      PROVE  FALSE
  BY <1>3 DEF Flip, Request, NoRunFirst
<1>4. ASSUME NEW c \in Cards, NEW op \in AllOps, Broadcast(t, op, c)
      PROVE  Only(t) /\ PlainAt(t)'
  <2>1. op = "suggest"
    BY <1>4 DEF Broadcast, Request, NoRunFirst
  <2>2. Only(t) /\ pc'[t] = "register" /\ ret'[t] = "idle"
    BY <1>1, <1>4, <2>1 DEF Only, Broadcast, Request, TypeOK
  <2> QED  BY <2>2 DEF PlainAt, ControlAt, BlockingLabels
<1>5. ASSUME NEW aged \in SUBSET Cards, AgeScan(t, aged)
      PROVE  Only(t) /\ PlainAt(t)'
  <2>1. Only(t) /\ pc'[t] = "save" /\ ret'[t] = "idle"
    BY <1>5 DEF Only, AgeScan, SaveThen, TypeOK
  <2> QED  BY <2>1 DEF PlainAt, ControlAt, BlockingLabels
<1> QED  BY <1>2, <1>3, <1>4, <1>5 DEF Start

LEMMA PlainContinue ==
  ASSUME TypeOK, NoMarks, NEW t \in Threads, PlainAt(t), Continue(t)
  PROVE  Only(t) /\ PlainAt(t)'
<1>0. ControlAt(t) /\ req[t].card \in Cards
  BY DEF PlainAt, TypeOK
<1>1. CASE RecordSignals(t) \/ Dispatch(t)
  BY <1>0, <1>1, PlainLeave DEF RecordSignals, Dispatch, ControlAt
<1>2. CASE DecideGet(t)
  <2>1. CASE Live(req[t].card)
    <3>1. Only(t) /\ pc'[t] = "branch" /\ ret'[t] = "idle"
      BY <1>0, <1>2, <2>1 DEF DecideGet, Hold, Only, TypeOK, ControlAt
    <3> QED  BY <3>1 DEF PlainAt, ControlAt, BlockingLabels
  <2>2. CASE ~ Live(req[t].card)
    BY <1>2, <2>2, PlainLeave DEF DecideGet
  <2> QED  BY <2>1, <2>2
<1>3. CASE DecideBranch(t)
  <2>0. ret[t] = "idle" /\ ~ meta[req[t].card].auto
    BY <1>0, <1>3 DEF DecideBranch, ControlAt, NoMarks, NoMark
  <2>1. CASE Leave(t, "idle") \/ Leave(t, "defer")
    BY <2>0, <2>1, PlainLeave
  <2>2. CASE /\ req[t].op = "REJECT" \/ req[t].card \in Handled
             /\ pc' = [pc EXCEPT ![t] = "take"]
             /\ ret' = [ret EXCEPT ![t] = IF req[t].op = "ACCEPT" THEN "dispatch" ELSE "idle"]
             /\ UNCHANGED <<req, prop>>
    <3>1. /\ Only(t) /\ pc'[t] = "take" /\ req'[t] = req[t]
          /\ ret'[t] = IF req[t].op = "ACCEPT" THEN "dispatch" ELSE "idle"
      BY <2>2 DEF Only, TypeOK
    <3> QED  BY <2>2, <3>1 DEF PlainAt, ControlAt, BlockingLabels
  <2> QED  BY <1>3, <2>0, <2>1, <2>2 DEF DecideBranch
<1>4. CASE TakePop(t)
  <2>1. /\ Only(t) /\ pc[t] = "take" /\ pc'[t] = "takemeta" /\ ret'[t] = ret[t]
        /\ req'[t] = req[t]
    BY <1>4 DEF TakePop, Hold, Only, TypeOK
  <2> QED  BY <2>1 DEF PlainAt, ControlAt, BlockingLabels
<1>5. CASE TakeMeta(t)
  BY <1>5, PlainLeave DEF TakeMeta
<1>6. CASE Defer(t)
  <2>1. Only(t) /\ pc'[t] = "save" /\ ret'[t] = "idle"
    BY <1>6 DEF Defer, SaveThen, Only, TypeOK
  <2> QED  BY <2>1 DEF PlainAt, ControlAt, BlockingLabels
<1>7. CASE RegisterPut(t)
  <2>1. Only(t) /\ pc'[t] = "regmeta" /\ ret'[t] = "idle"
    BY <1>0, <1>7 DEF RegisterPut, locals, Only, TypeOK, ControlAt, BlockingLabels
  <2> QED  BY <2>1 DEF PlainAt, ControlAt, BlockingLabels
<1>8. CASE RegisterMeta(t)
  BY <1>8, PlainLeave DEF RegisterMeta
<1>9. CASE Reget(t) \/ ExecuteDispatch(t) \/ ExecuteMark(t) \/ FlipGet(t) \/ FlipCheck(t) \/ SetMode(t)
  BY <1>0, <1>9 DEF Reget, ExecuteDispatch, ExecuteMark, FlipGet, FlipCheck, SetMode,
                    ControlAt, BlockingLabels
<1>10. CASE SaveBuild(t) \/ SaveTruncate(t) \/ SaveWrite(t) \/ SaveFail(t)
  <2>1. \/ pc[t] \in {"save", "trunc"} /\ (Leave(t, "trunc") \/ Leave(t, "write"))
        \/ pc[t] \in {"save", "trunc", "write"} /\ Leave(t, ret[t])
    BY <1>10 DEF SaveBuild, SaveTruncate, SaveWrite, SaveFail, SaveEnd
  <2> QED  BY <2>1, PlainLeave
<1> QED
  BY <1>1, <1>2, <1>3, <1>4, <1>5, <1>6, <1>7, <1>8, <1>9, <1>10 DEF Continue

LEMMA NoMarkFiles ==
  ASSUME TypeOK, NoMarks
  PROVE  /\ NoMark(EmptyFile.meta) /\ NoMark(TornFile.meta) /\ NoMark(Snapshot.meta)
         /\ NoMark(LoadMeta(disk))
<1>1. NoMark(EmptyFile.meta) /\ NoMark(TornFile.meta)
  BY DEF NoMark, EmptyFile, TornFile, NoMeta
<1>2. NoMark(Snapshot.meta)
  BY DEF NoMarks, NoMark, Snapshot, NoMeta
<1>3. NoMark(LoadMeta(disk))
  BY DEF NoMarks, NoMark, LoadMeta, NoMeta, TypeOK, Files, Metas
<1> QED  BY <1>1, <1>2, <1>3

LEMMA NoMarkStep ==
  ASSUME TypeOK, Plain, NoMarks, NEW t \in Threads, Start(t) \/ Continue(t)
  PROVE  NoMarks'
<1>0. ControlAt(t)
  BY DEF Plain, PlainAt
<1>1. NoMark(meta')
  <2>1. CASE UNCHANGED meta
    BY <2>1 DEF NoMarks
  <2>2. CASE ~ UNCHANGED meta
    <3>1. ~ ExecuteMark(t)
      BY <1>0 DEF ExecuteMark, ControlAt, BlockingLabels
    <3>2. TakeMeta(t) \/ Defer(t) \/ RegisterMeta(t) \/ \E aged \in SUBSET Cards : AgeScan(t, aged)
      BY <2>2, <3>1 DEF Start, Continue, Decide, Flip, Broadcast, RecordSignals, DecideGet,
         DecideBranch, TakePop, Dispatch, RegisterPut, Reget, ExecuteDispatch,
         FlipGet, FlipCheck, SetMode, SaveBuild, SaveTruncate, SaveWrite, SaveFail, SaveEnd, shared
    <3>3. CASE TakeMeta(t)
      BY <3>3 DEF TakeMeta, NoMarks, NoMark, NoMeta, TypeOK
    <3>4. CASE Defer(t)
      BY <3>4 DEF Defer, NoMarks, NoMark, TypeOK
    <3>5. CASE RegisterMeta(t)
      BY <3>5 DEF RegisterMeta, NoMarks, NoMark, FreshMeta, NoMeta, TypeOK
    <3>6. ASSUME NEW aged \in SUBSET Cards, AgeScan(t, aged) PROVE NoMark(meta')
      BY <3>6 DEF AgeScan, NoMarks, NoMark, TypeOK, Metas
    <3> QED  BY <3>2, <3>3, <3>4, <3>5, <3>6
  <2> QED  BY <2>1, <2>2
<1>2. NoMark(disk'.meta)
  <2>1. disk' \in {disk, TornFile, snap[t]}
    BY DEF Start, Continue, Decide, Flip, Broadcast, AgeScan, RecordSignals, DecideGet,
       DecideBranch, TakePop, TakeMeta, Dispatch, Defer, RegisterPut, RegisterMeta, Reget,
       ExecuteDispatch, ExecuteMark, FlipGet, FlipCheck, SetMode,
       SaveBuild, SaveTruncate, SaveWrite, SaveFail, SaveEnd, shared
  <2> QED  BY <2>1, NoMarkFiles DEF NoMarks
<1>3. ASSUME NEW u \in Threads PROVE NoMark(snap'[u].meta)
  <2>1. snap'[u] \in {snap[u], Snapshot, EmptyFile}
    BY DEF Start, Continue, Decide, Flip, Broadcast, AgeScan, RecordSignals, DecideGet,
       DecideBranch, TakePop, TakeMeta, Dispatch, Defer, RegisterPut, RegisterMeta, Reget,
       ExecuteDispatch, ExecuteMark, FlipGet, FlipCheck, SetMode,
       SaveBuild, SaveTruncate, SaveWrite, SaveFail, SaveEnd, locals, TypeOK
  <2> QED  BY <2>1, NoMarkFiles DEF NoMarks
<1> QED  BY <1>1, <1>2, <1>3 DEF NoMarks, NoMark

\* Without the run-first mode an ACCEPT that takes a card goes on to a dispatch
\* for which there is a handler, whatever other threads decide, suggest, defer or
\* save meanwhile and wherever the console restarts.
THEOREM BlockingEatsNothing ==
  ASSUME NoRunFirst
  PROVE  Spec => []NothingEaten
<1>1. Init => Plain /\ NoMarks
  BY DEF Init, Plain, PlainAt, ControlAt, BlockingLabels, NoMarks, NoMark, LoadMeta, InitFile,
         EmptyFile, FreshMeta, NoMeta
<1>2. TypeOK /\ Plain /\ NoMarks /\ [Next]_vars => (Plain /\ NoMarks)'
  <2> SUFFICES ASSUME TypeOK, Plain, NoMarks, [Next]_vars PROVE (Plain /\ NoMarks)'
    OBVIOUS
  <2>1. CASE Restart
    <3>1. Plain'
      BY <2>1 DEF Restart, Plain, PlainAt, ControlAt, BlockingLabels
    <3>2. NoMarks'
      BY <2>1, NoMarkFiles DEF Restart, NoMarks, NoMark
    <3> QED  BY <3>1, <3>2
  <2>2. ASSUME NEW t \in Threads, Start(t) \/ Continue(t) PROVE (Plain /\ NoMarks)'
    <3>1. Only(t) /\ PlainAt(t)'
      BY <2>2, PlainStart, PlainContinue DEF Plain
    <3>2. \A u \in Threads : u # t => PlainAt(u)'
      BY <3>1 DEF Plain, PlainAt, Only, ControlAt
    <3> QED  BY <2>2, <3>1, <3>2, NoMarkStep DEF Plain
  <2>3. CASE UNCHANGED vars
    BY <2>3 DEF vars, Plain, PlainAt, ControlAt, NoMarks, NoMark
  <2> QED  BY <2>1, <2>2, <2>3 DEF Next
<1>3. Plain => NothingEaten
  BY DEF Plain, PlainAt, NothingEaten, Owes
<1> QED  BY <1>1, <1>2, <1>3, TypeCorrect, PTL DEF Spec

-----------------------------------------------------------------------------
(* Run first, decide later, with one request at a time.  With two the mark of *)
(* a card can be read before its run and used after it.                       *)

RunFirstAlone ==
  /\ \A t, u \in Threads : t = u
  /\ MaxCrashes = 0
  /\ "suggest" \notin Ops

\* Whether no decision can defer a card, which would take its mark off.
NoDefer == "DEFER" \notin Ops

NotRun(i) == NoDefer => runs[i] = 0

\* The mark on a pending card tells whether its object was run.
MarkTells(c) ==
  /\ meta[c].auto => /\ c \notin Guarded /\ pending[c].mode = "non_blocking"
                     /\ runs[pending[c].inst] > 0
  /\ ~ meta[c].auto => NotRun(pending[c].inst)

Sound(c) == IF Live(c) THEN meta[c].known /\ MarkTells(c)
                       ELSE pending[c] = NoCard /\ meta[c] = NoMeta

\* About to be run.
Due(c) == /\ Live(c) /\ c \notin Guarded /\ pending[c].mode = "non_blocking"
          /\ NotRun(pending[c].inst)

\* The object in a thread's hands is on no table.
InHand(t) == prop[t].inst # 0 /\ \A c \in Cards : pending[c].inst # prop[t].inst

\* Where a thread is, or goes on to after its save.
Bound(t) == IF pc[t] \in {"save", "trunc", "write"} THEN ret[t] ELSE pc[t]

Between == {"idle", "signal", "get", "branch", "take", "dispatch", "preregister", "register",
            "flipget", "flipcheck", "setmode", "defer", "undefer"}

\* What a thread can rely on at each label.
Knows(t, l) ==
  LET c  == req[t].card
      op == req[t].op
  IN
  /\ l \in Between \cup {"takemeta", "regmeta", "stored", "reget", "exec", "mark"}
  /\ l \in Between => Sound(c)
  /\ l \in {"signal", "get", "branch"} => op \in Decisions /\ (op = "DEFER" => ~ NoDefer)
  /\ l \in {"branch", "defer", "undefer"} => Live(c)
  /\ l \in {"defer", "undefer"} => ~ NoDefer
  /\ l = "take" =>
       /\ Live(c) /\ ret[t] \in {"idle", "dispatch"}
       /\ ret[t] = "dispatch" => c \in Handled /\ ~ meta[c].auto /\ op = "ACCEPT"
       /\ ret[t] = "idle" /\ op = "ACCEPT" => meta[c].auto
  /\ l = "takemeta" =>
       /\ pending[c] = NoCard /\ InHand(t) /\ ret[t] \in {"idle", "dispatch"}
       /\ ret[t] = "dispatch" => c \in Handled /\ NotRun(prop[t].inst) /\ op = "ACCEPT"
       /\ ret[t] = "idle" /\ op = "ACCEPT" => runs[prop[t].inst] > 0
  /\ l = "dispatch" => InHand(t) /\ c \in Handled /\ NotRun(prop[t].inst)
  /\ l = "preregister" =>
       /\ InHand(t) /\ prop[t].mode = "non_blocking" /\ c \notin Guarded
       /\ NotRun(prop[t].inst)
  /\ l = "register" => IF c \in Guarded THEN InHand(t) /\ NotRun(prop[t].inst)
                                        ELSE Live(c) /\ prop[t] = pending[c]
  /\ l = "regmeta" => /\ Live(c) /\ (meta[c].known \/ meta[c] = NoMeta)
                      /\ \/ ret[t] = "stored" /\ Due(c)
                         \/ ret[t] = "idle" /\ MarkTells(c)
  /\ l \in {"stored", "reget"} => Due(c) /\ meta[c].known
  /\ l = "exec" => Due(c) /\ meta[c].known /\ prop[t] = pending[c]
  /\ l = "mark" => /\ Live(c) /\ meta[c].known /\ prop[t] = pending[c] /\ c \notin Guarded
                   /\ pending[c].mode = "non_blocking" /\ runs[pending[c].inst] > 0
  /\ l \in {"flipget", "flipcheck", "setmode"} => op \in Flips
  /\ l = "setmode" => ~ meta[c].auto /\ (op = "flip" => c \notin Guarded)

Counts ==
  /\ \A c, d \in Cards : c # d /\ pending[c].inst = pending[d].inst => pending[c].inst = 0
  /\ \A c \in Cards : pending[c].inst <= minted
  /\ \A i \in InstIds : (NoDefer => runs[i] <= 1) /\ (runs[i] > 0 => i <= minted)

\* The inductive invariant of one thread that runs first: its card is as its
\* label says, every other card is sound.
AloneInv ==
  /\ Counts
  /\ \A t \in Threads : Knows(t, Bound(t)) /\ prop[t].inst <= minted
  /\ \A c \in Cards : (\A t \in Threads : req[t].card # c) => Sound(c)

\* What a step has to show: its thread's label, its own card apart from the rest.
LEMMA AloneShows ==
  ASSUME RunFirstAlone, NEW t \in Threads, Counts', Knows(t, Bound(t))',
         prop'[t].inst <= minted', \A c \in Cards : c # req'[t].card => Sound(c)'
  PROVE  AloneInv'
BY DEF RunFirstAlone, AloneInv

LEMMA AloneHas ==
  ASSUME RunFirstAlone, AloneInv, NEW t \in Threads
  PROVE  /\ Counts /\ Knows(t, Bound(t)) /\ prop[t].inst <= minted
         /\ \A c \in Cards : c # req[t].card => Sound(c)
         /\ Bound(t) \in Between => \A c \in Cards : Sound(c)
BY DEF RunFirstAlone, AloneInv, Knows

\* Back in the pool a thread has no card: all are sound.
LEMMA AloneLeaves ==
  ASSUME TypeOK, TypeOK', RunFirstAlone, NEW t \in Threads, Counts', Leave(t, "idle"),
         \A c \in Cards : Sound(c)'
  PROVE  AloneInv'
<1>1. pc'[t] = "idle" /\ prop'[t].inst = 0 /\ 0 <= minted' /\ req'[t].card \in Cards
  BY LeaveEffect, BoundsAssumption DEF TypeOK
<1>2. Knows(t, Bound(t))'
  BY <1>1 DEF Knows, Bound, Between
<1> QED
  BY <1>1, <1>2, AloneShows

\* A step that touches no card and runs no handler.
LEMMA AloneStill ==
  ASSUME TypeOK, TypeOK', RunFirstAlone, AloneInv, NEW t \in Threads,
         UNCHANGED <<pending, meta, runs, minted>>,
         \/ Leave(t, "idle") /\ Bound(t) \in Between
         \/ Knows(t, Bound(t))' /\ prop'[t].inst <= minted' /\ req'[t] = req[t]
         \/ Knows(t, Bound(t))' /\ prop'[t].inst <= minted' /\ Bound(t) \in Between
  PROVE  AloneInv'
<1>1. Counts' /\ \A c \in Cards : Sound(c) => Sound(c)'
  BY AloneHas DEF Counts, Sound, MarkTells, NotRun, Live
<1>2. /\ \A c \in Cards : c # req[t].card => Sound(c)'
      /\ Bound(t) \in Between => \A c \in Cards : Sound(c)'
  BY <1>1, AloneHas
<1>3. CASE Leave(t, "idle") /\ Bound(t) \in Between
  BY <1>1, <1>2, <1>3, AloneLeaves
<1>4. CASE /\ Knows(t, Bound(t))' /\ prop'[t].inst <= minted'
           /\ req'[t] = req[t] \/ Bound(t) \in Between
  BY <1>1, <1>2, <1>4, AloneShows
<1> QED
  BY <1>3, <1>4

\* A request of the instance reaches the thread.
LEMMA AloneStart ==
  ASSUME TypeOK, TypeOK', RunFirstAlone, AloneInv, NEW t \in Threads, Start(t) PROVE AloneInv'
<1>0. Counts /\ prop[t].inst <= minted
  BY AloneHas
<1>1. ASSUME NEW c \in Cards, NEW op \in AllOps, Decide(t, op, c) \/ Flip(t, op, c)
      PROVE  AloneInv'
  <2>1. /\ pc[t] = "idle" /\ req'[t] = [op |-> op, card |-> c]
        /\ \/ pc'[t] = "signal" /\ op \in Decisions /\ op \in Ops
           \/ pc'[t] = "flipget" /\ op \in Flips
        /\ UNCHANGED <<pending, meta, runs, minted, prop>>
    BY <1>1 DEF Decide, Flip, Request, TypeOK, shared, history
  <2>2. Bound(t) \in Between /\ \A d \in Cards : Sound(d)
    BY <2>1, AloneHas DEF Bound, Between
  <2>3. Sound(c)'
    BY <2>1, <2>2 DEF Sound, MarkTells, NotRun, Live
  <2>4. Knows(t, Bound(t))'
    BY <2>1, <2>3 DEF Knows, Bound, Between, NoDefer
  <2> QED
    BY <1>0, <2>1, <2>2, <2>4, AloneStill
<1>2. ASSUME NEW c \in Cards, NEW op \in AllOps, Broadcast(t, op, c) PROVE AloneInv'
  <2>1. /\ pc[t] = "idle" /\ req'[t].card = c /\ op = "suggest_nb"
        /\ minted' = minted + 1 /\ minted' \in InstIds /\ prop'[t].inst = minted + 1
        /\ UNCHANGED <<pending, meta, runs>>
        /\ \/ /\ c \notin Guarded /\ pc'[t] = "preregister" /\ prop'[t].mode = "non_blocking"
           \/ c \in Guarded /\ pc'[t] = "register"
    BY <1>2 DEF Broadcast, Request, RunFirstAlone, TypeOK, shared
  <2>2. Bound(t) \in Between /\ \A d \in Cards : Sound(d)
    BY <2>1, AloneHas DEF Bound, Between
  <2>3. minted \in Nat /\ \A d \in Cards : pending[d].inst \in Nat
    BY BoundsAssumption DEF TypeOK, Objects
  <2>4. Counts' /\ \A d \in Cards : Sound(d)'
    <3>1. \A d \in Cards : pending[d].inst <= minted + 1
      BY <1>0, <2>3 DEF Counts
    <3>2. \A i \in InstIds : i <= minted => i <= minted + 1
      BY <2>3, BoundsAssumption
    <3> QED
      BY <1>0, <2>1, <2>2, <3>1, <3>2 DEF Counts, Sound, MarkTells, NotRun, Live
  <2>5. InHand(t)' /\ NotRun(prop[t].inst)'
    <3>1. \A d \in Cards : pending[d].inst <= minted
      BY <1>0 DEF Counts
    <3>2. \A d \in Cards : pending'[d].inst # minted + 1
      BY <2>1, <2>3, <3>1
    <3>3. ~ (runs[minted + 1] > 0) /\ runs[minted + 1] \in 0 .. 2
      <4>1. PICK i \in InstIds : i = minted + 1
        BY <2>1
      <4>2. runs[i] > 0 => i <= minted
        BY <1>0 DEF Counts
      <4>3. ~ (i <= minted)
        BY <2>3, <4>1
      <4>4. runs \in [InstIds -> 0 .. 2]
        BY DEF TypeOK
      <4> QED
        BY <4>1, <4>2, <4>3, <4>4
    <3>4. runs'[minted + 1] = 0 /\ prop'[t].inst # 0
      BY <2>1, <2>3, <3>3
    <3> QED
      BY <2>1, <3>2, <3>4 DEF InHand, NotRun
  <2>6. Knows(t, Bound(t))'
    BY <2>1, <2>4, <2>5 DEF Knows, Bound, Between
  <2>7. prop'[t].inst <= minted'
    BY <2>1, <2>3
  <2> QED
    BY <2>4, <2>6, <2>7, AloneShows
<1>3. ASSUME NEW aged \in SUBSET Cards, AgeScan(t, aged) PROVE AloneInv'
  <2>1. /\ pc[t] = "idle" /\ pc'[t] = "save" /\ ret'[t] = "idle"
        /\ UNCHANGED <<pending, runs, minted, prop, req>> /\ \A c \in aged : Live(c)
        /\ meta' = [c \in Cards |-> IF c \in aged THEN [meta[c] EXCEPT !.reported = TRUE]
                                                  ELSE meta[c]]
    BY <1>3 DEF AgeScan, SaveThen, TypeOK, history
  <2>2. \A c \in Cards : Sound(c)
    BY <2>1, AloneHas DEF Bound, Between
  <2>3. \A c \in Cards : /\ meta'[c].known = meta[c].known /\ meta'[c].auto = meta[c].auto
                         /\ ~ Live(c) => meta'[c] = meta[c]
    BY <2>1 DEF TypeOK, Metas
  <2>4. Counts' /\ \A c \in Cards : Sound(c)'
    BY <1>0, <2>1, <2>2, <2>3 DEF Counts, Sound, MarkTells, NotRun, Live
  <2>5. Knows(t, Bound(t))'
    BY <2>1, <2>4 DEF Knows, Bound, Between, TypeOK
  <2> QED
    BY <1>0, <2>1, <2>4, <2>5, AloneShows
<1> QED
  BY <1>1, <1>2, <1>3 DEF Start

\* The steps of a decision up to the pop, of the flip endpoint up to set_mode,
\* and the saves.
LEMMA AloneReads ==
  ASSUME TypeOK, TypeOK', RunFirstAlone, AloneInv, NEW t \in Threads,
         \/ RecordSignals(t) \/ DecideGet(t) \/ DecideBranch(t) \/ Reget(t)
         \/ FlipGet(t) \/ FlipCheck(t)
         \/ SaveBuild(t) \/ SaveTruncate(t) \/ SaveWrite(t) \/ SaveFail(t)
  PROVE  AloneInv'
<1>0. PICK c \in Cards : c = req[t].card
  BY DEF TypeOK
<1>1. UNCHANGED <<pending, meta, runs, minted>>
  BY DEF RecordSignals, DecideGet, DecideBranch, Reget, FlipGet, FlipCheck,
         SaveBuild, SaveTruncate, SaveWrite, SaveFail, SaveEnd, shared, history
<1>2. Knows(t, Bound(t)) /\ prop[t].inst <= minted /\ pending[c].inst <= minted
  BY AloneHas DEF Counts
<1>3. /\ Sound(c)' <=> Sound(c)
      /\ Live(c)' <=> Live(c)
      /\ Due(c)' <=> Due(c)
      /\ MarkTells(c)' <=> MarkTells(c)
  BY <1>1 DEF Sound, MarkTells, NotRun, Live, Due
<1>4. CASE RecordSignals(t)
  <2>1. /\ pc[t] = "signal" /\ Only(t) /\ pc'[t] = "get"
        /\ req'[t] = req[t] /\ prop'[t] = prop[t]
    BY <1>4, LeaveEffect DEF RecordSignals
  <2>2. Knows(t, Bound(t))'
    BY <1>0, <1>2, <1>3, <2>1 DEF Knows, Bound, Between
  <2> QED
    BY <1>1, <1>2, <2>1, <2>2, AloneStill
<1>5. CASE DecideGet(t)
  <2>1. pc[t] = "get" /\ Bound(t) = "get" /\ Bound(t) \in Between
    BY <1>5 DEF DecideGet, Bound, Between
  <2>2. CASE Live(c)
    <3>1. pc'[t] = "branch" /\ req'[t] = req[t] /\ prop'[t] = pending[c]
      BY <1>0, <1>5, <2>2 DEF DecideGet, Hold, TypeOK
    <3>2. Knows(t, Bound(t))'
      BY <1>0, <1>2, <1>3, <2>1, <2>2, <3>1 DEF Knows, Bound, Between
    <3> QED
      BY <1>1, <1>2, <3>1, <3>2, AloneStill
  <2>3. CASE ~ Live(c)
    BY <1>0, <1>1, <1>5, <2>1, <2>3, AloneStill DEF DecideGet
  <2> QED
    BY <2>2, <2>3
<1>6. CASE DecideBranch(t)
  <2>1. /\ pc[t] = "branch" /\ Bound(t) = "branch" /\ Bound(t) \in Between
        /\ Sound(c) /\ Live(c) /\ req[t].op \in Decisions /\ (req[t].op = "DEFER" => ~ NoDefer)
    BY <1>0, <1>2, <1>6 DEF DecideBranch, Bound, Between, Knows
  <2>2. CASE Leave(t, "idle")
    BY <1>1, <2>1, <2>2, AloneStill
  <2>3. CASE req[t].op = "DEFER" /\ \E l \in {"defer", "undefer"} : Leave(t, l)
    <3>1. pc'[t] \in {"defer", "undefer"} /\ req'[t] = req[t] /\ prop'[t] = prop[t]
      BY <2>3, LeaveEffect
    <3>2. ~ NoDefer
      BY <2>1, <2>3
    <3>3. Knows(t, Bound(t))'
      BY <1>0, <1>2, <1>3, <2>1, <3>1, <3>2 DEF Knows, Bound, Between
    <3> QED
      BY <1>1, <1>2, <3>1, <3>3, AloneStill
  <2>4. CASE /\ pc' = [pc EXCEPT ![t] = "take"] /\ UNCHANGED <<req, prop>>
             /\ req[t].op = "REJECT" \/ meta[c].auto \/ c \in Handled
             /\ ret' = [ret EXCEPT ![t] = IF req[t].op = "ACCEPT" /\ ~ meta[c].auto
                                          THEN "dispatch" ELSE "idle"]
    <3>1. /\ pc'[t] = "take" /\ req'[t] = req[t] /\ prop'[t] = prop[t]
          /\ ret'[t] = IF req[t].op = "ACCEPT" /\ ~ meta[c].auto THEN "dispatch" ELSE "idle"
      BY <2>4 DEF TypeOK
    <3>2. Knows(t, Bound(t))'
      BY <1>0, <1>1, <1>2, <1>3, <2>1, <2>4, <3>1 DEF Knows, Bound, Between
    <3> QED
      BY <1>1, <1>2, <3>1, <3>2, AloneStill
  <2> QED
    BY <1>0, <1>6, <2>2, <2>3, <2>4 DEF DecideBranch
<1>7. CASE Reget(t)
  <2>1. pc[t] \in {"stored", "reget"} /\ Due(c) /\ meta[c].known
    BY <1>0, <1>2, <1>7 DEF Reget, Knows, Bound
  <2>2. pc'[t] = "exec" /\ req'[t] = req[t] /\ prop'[t] = pending[c]
    BY <1>0, <1>7, <2>1 DEF Reget, Hold, TypeOK, Due
  <2>3. Knows(t, Bound(t))'
    BY <1>0, <1>1, <1>3, <2>1, <2>2 DEF Knows, Bound, Between
  <2> QED
    BY <1>1, <1>2, <2>2, <2>3, AloneStill
<1>8. CASE FlipGet(t) \/ FlipCheck(t)
  <2>1. /\ pc[t] \in {"flipget", "flipcheck"} /\ Bound(t) = pc[t] /\ Bound(t) \in Between
        /\ Sound(c) /\ req[t].op \in Flips
    BY <1>0, <1>2, <1>8 DEF FlipGet, FlipCheck, Bound, Between, Knows
  <2>2. CASE Leave(t, "idle")
    BY <1>1, <2>1, <2>2, AloneStill
  <2>3. CASE \/ Leave(t, "flipcheck")
             \/ /\ Leave(t, "setmode") /\ ~ meta[c].auto
                /\ req[t].op = "flip" => c \notin Guarded
    <3>1. /\ req'[t] = req[t] /\ prop'[t] = prop[t]
          /\ \/ pc'[t] = "flipcheck"
             \/ pc'[t] = "setmode" /\ ~ meta[c].auto /\ (req[t].op = "flip" => c \notin Guarded)
      BY <2>3, LeaveEffect
    <3>2. Knows(t, Bound(t))'
      BY <1>0, <1>1, <1>3, <2>1, <3>1 DEF Knows, Bound, Between
    <3> QED
      BY <1>1, <1>2, <3>1, <3>2, AloneStill
  <2> QED
    BY <1>0, <1>8, <2>2, <2>3 DEF FlipGet, FlipCheck
<1>9. CASE SaveBuild(t) \/ SaveTruncate(t) \/ SaveWrite(t) \/ SaveFail(t)
  <2>1. pc[t] \in {"save", "trunc", "write"} /\ Bound(t) = ret[t]
    BY <1>9 DEF SaveBuild, SaveTruncate, SaveWrite, SaveFail, SaveEnd, Bound
  <2>2. PICK l \in {"trunc", "write", ret[t]} : Leave(t, l)
    BY <1>9 DEF SaveBuild, SaveTruncate, SaveWrite, SaveFail, SaveEnd
  <2>3. CASE l = "idle"
    <3>1. ret[t] = "idle" /\ Bound(t) \in Between
      BY <2>1, <2>2, <2>3 DEF Between
    <3> QED
      BY <1>1, <2>2, <2>3, <3>1, AloneStill
  <2>4. CASE l # "idle"
    <3>1. /\ pc'[t] = l /\ ret'[t] = ret[t] /\ req'[t] = req[t] /\ prop'[t] = prop[t]
          /\ l \in {"trunc", "write"} \/ l = ret[t]
      BY <2>2, <2>4, LeaveEffect
    <3>2. Bound(t)' = ret[t] /\ ret[t] \notin {"save", "trunc", "write"}
      BY <1>2, <2>1, <3>1 DEF Bound, Knows, Between
    <3>3. Knows(t, ret[t])
      BY <1>2, <2>1
    <3>4. Knows(t, Bound(t))'
      BY <1>0, <1>1, <1>3, <3>1, <3>2, <3>3 DEF Knows, InHand, NotRun, NoDefer
    <3> QED
      BY <1>1, <1>2, <3>1, <3>4, AloneStill
  <2> QED
    BY <2>3, <2>4
<1> QED
  BY <1>4, <1>5, <1>6, <1>7, <1>8, <1>9

\* A step on one card: the others keep their object, their meta and their runs.
LEMMA OthersSound ==
  ASSUME TypeOK, Counts, NEW c \in Cards,
         \A d \in Cards : d # c => pending'[d] = pending[d] /\ meta'[d] = meta[d] /\ Sound(d),
         \/ runs' = runs
         \/ \E i \in InstIds, n \in 0 .. 2 :
              /\ runs' = [runs EXCEPT ![i] = n]
              /\ \A d \in Cards : d # c => pending[d].inst # i
  PROVE  \A d \in Cards : d # c => Sound(d)'
<1> SUFFICES ASSUME NEW d \in Cards, d # c PROVE Sound(d)'
  OBVIOUS
<1>1. pending'[d] = pending[d] /\ meta'[d] = meta[d] /\ Sound(d)
  OBVIOUS
<1>2. pending[d].inst \in InstIds /\ runs \in [InstIds -> 0 .. 2]
  BY DEF TypeOK, Objects
<1>3. runs'[pending[d].inst] = runs[pending[d].inst]
  BY <1>2
<1> QED
  BY <1>1, <1>3 DEF Sound, MarkTells, NotRun, Live

\* One more run of an object that is due, or has no card any more.
LEMMA RunCounts ==
  ASSUME TypeOK, Counts, NEW t \in Threads, prop[t].inst # 0, prop[t].inst <= minted,
         NotRun(prop[t].inst), req[t].card \in Handled, RunHandler(t),
         UNCHANGED <<pending, minted>>
  PROVE  /\ Counts' /\ runs'[prop[t].inst] > 0
         /\ \E i \in InstIds, n \in 0 .. 2 : i = prop[t].inst /\ runs' = [runs EXCEPT ![i] = n]
<1>1. PICK i \in InstIds : i = prop[t].inst
  BY DEF TypeOK, Objects
<1>2. runs \in [InstIds -> 0 .. 2] /\ runs[i] \in 0 .. 2
  BY DEF TypeOK
<1>3. PICK n \in 0 .. 2 : n = Succ2(runs[i])
  BY <1>2 DEF Succ2
<1>4. runs' = [runs EXCEPT ![i] = n]
  BY <1>1, <1>3 DEF RunHandler
<1>5. n > 0 /\ (NoDefer => n <= 1)
  BY <1>1, <1>3 DEF Succ2, NotRun
<1>6. Counts'
  BY <1>1, <1>2, <1>4, <1>5 DEF Counts
<1>7. runs'[i] > 0
  BY <1>2, <1>4, <1>5
<1> QED
  BY <1>1, <1>4, <1>6, <1>7

\* What remove takes is on no table, with the runs its mark told.
LEMMA AloneTakePop ==
  ASSUME TypeOK, TypeOK', RunFirstAlone, AloneInv, NEW t \in Threads, TakePop(t) PROVE AloneInv'
<1>1. PICK c \in Cards : c = req[t].card
  BY DEF TypeOK
<1>2. /\ pc[t] = "take" /\ pc'[t] = "takemeta" /\ req' = req /\ ret' = ret
      /\ prop'[t] = pending[c] /\ pending' = [pending EXCEPT ![c] = NoCard]
      /\ UNCHANGED <<meta, runs, minted>>
  BY <1>1 DEF TakePop, Hold, TypeOK, history
<1>3. Knows(t, "take") /\ Counts /\ \A d \in Cards : Sound(d)
  BY <1>2, AloneHas DEF Bound, Between
<1>4. Counts'
  BY <1>2, <1>3, BoundsAssumption DEF Counts, NoCard, TypeOK
<1>5. \A d \in Cards : d # c => Sound(d)'
  <2>1. \A d \in Cards : d # c => pending'[d] = pending[d] /\ meta'[d] = meta[d] /\ Sound(d)
    BY <1>2, <1>3 DEF TypeOK
  <2> QED
    BY <1>2, <1>3, <2>1, OthersSound
<1>6. InHand(t)' /\ prop'[t].inst <= minted' /\ pending'[c] = NoCard
  <2>1. Live(c) /\ pending[c].inst # 0
    BY <1>1, <1>3 DEF Knows, Live
  <2>2. \A d \in Cards : pending'[d].inst # pending[c].inst
    BY <1>2, <1>3, <2>1 DEF Counts, TypeOK, NoCard
  <2> QED
    BY <1>2, <1>3, <2>1, <2>2 DEF InHand, Counts, TypeOK
<1>7. Knows(t, Bound(t))'
  <2>1. /\ ret[t] \in {"idle", "dispatch"}
        /\ ret[t] = "dispatch" => c \in Handled /\ NotRun(pending[c].inst) /\ req[t].op = "ACCEPT"
        /\ ret[t] = "idle" /\ req[t].op = "ACCEPT" => runs[pending[c].inst] > 0
    BY <1>1, <1>3 DEF Knows, Sound, MarkTells
  <2> QED
    BY <1>1, <1>2, <1>6, <2>1 DEF Knows, Bound, Between, NotRun
<1> QED
  BY <1>1, <1>2, <1>4, <1>5, <1>6, <1>7, AloneShows

LEMMA AloneTakeMeta ==
  ASSUME TypeOK, TypeOK', RunFirstAlone, AloneInv, NEW t \in Threads, TakeMeta(t) PROVE AloneInv'
<1>1. PICK c \in Cards : c = req[t].card
  BY DEF TypeOK
<1>2. /\ pc[t] = "takemeta" /\ meta' = [meta EXCEPT ![c] = NoMeta]
      /\ UNCHANGED <<pending, runs, minted>>
  BY <1>1 DEF TakeMeta, history
<1>3. Knows(t, "takemeta") /\ Counts /\ prop[t].inst <= minted
      /\ \A d \in Cards : d # c => Sound(d)
  BY <1>1, <1>2, AloneHas DEF Bound
<1>4. InHand(t) /\ pending[c] = NoCard
  BY <1>1, <1>3 DEF Knows
<1>5. pc'[t] = "save" /\ ret'[t] = ret[t] /\ req'[t] = req[t] /\ prop'[t] = prop[t]
  BY <1>2, <1>4, LeaveEffect DEF TakeMeta, InHand
<1>6. Counts' /\ InHand(t)'
  BY <1>2, <1>3, <1>4, <1>5 DEF Counts, InHand
<1>7. \A d \in Cards : Sound(d)'
  <2>1. \A d \in Cards : d # c => pending'[d] = pending[d] /\ meta'[d] = meta[d] /\ Sound(d)
    BY <1>2, <1>3 DEF TypeOK
  <2>2. Sound(c)'
    BY <1>2, <1>4 DEF Sound, Live, NoCard, TypeOK
  <2> QED
    BY <1>2, <1>3, <2>1, <2>2, OthersSound
<1>8. Knows(t, Bound(t))'
  BY <1>1, <1>2, <1>3, <1>5, <1>6, <1>7 DEF Knows, Bound, Between, NotRun
<1> QED
  BY <1>1, <1>2, <1>3, <1>5, <1>6, <1>7, <1>8, AloneShows

LEMMA AloneDispatch ==
  ASSUME TypeOK, TypeOK', RunFirstAlone, AloneInv, NEW t \in Threads, Dispatch(t) PROVE AloneInv'
<1>1. PICK c \in Cards : c = req[t].card
  BY DEF TypeOK
<1>2. pc[t] = "dispatch" /\ RunHandler(t) /\ Leave(t, "idle") /\ UNCHANGED <<pending, meta, minted>>
  BY DEF Dispatch, shared
<1>3. Knows(t, "dispatch") /\ Counts /\ prop[t].inst <= minted /\ \A d \in Cards : Sound(d)
  BY <1>2, AloneHas DEF Bound, Between
<1>4. InHand(t) /\ c \in Handled /\ NotRun(prop[t].inst)
  BY <1>1, <1>3 DEF Knows
<1>5. /\ Counts'
      /\ \E i \in InstIds, n \in 0 .. 2 : i = prop[t].inst /\ runs' = [runs EXCEPT ![i] = n]
  BY <1>1, <1>2, <1>3, <1>4, RunCounts DEF InHand
<1>6. \A d \in Cards : Sound(d)'
  <2>1. PICK i \in InstIds, n \in 0 .. 2 : i = prop[t].inst /\ runs' = [runs EXCEPT ![i] = n]
    BY <1>5
  <2>2. ASSUME NEW d \in Cards PROVE runs'[pending[d].inst] = runs[pending[d].inst]
    BY <1>4, <2>1 DEF InHand, TypeOK
  <2> QED
    BY <1>2, <1>3, <2>2 DEF Sound, MarkTells, NotRun, Live
<1> QED
  BY <1>2, <1>5, <1>6, AloneLeaves

LEMMA AloneDefer ==
  ASSUME TypeOK, TypeOK', RunFirstAlone, AloneInv, NEW t \in Threads, Defer(t) PROVE AloneInv'
<1>1. PICK c \in Cards : c = req[t].card
  BY DEF TypeOK
<1>2. /\ pc[t] \in {"defer", "undefer"} /\ pc'[t] = "save" /\ ret'[t] = "idle"
      /\ UNCHANGED <<pending, runs, minted, req, prop>>
      /\ \A d \in Cards : d # c => meta'[d] = meta[d]
      /\ meta'[c].known /\ (meta'[c].auto => meta[c].auto)
  BY <1>1 DEF Defer, SaveThen, TypeOK, history
<1>3. Knows(t, pc[t]) /\ Counts /\ prop[t].inst <= minted /\ \A d \in Cards : Sound(d)
  BY <1>2, AloneHas DEF Bound, Between
<1>4. Live(c) /\ ~ NoDefer
  BY <1>1, <1>2, <1>3 DEF Knows
<1>5. Counts' /\ \A d \in Cards : Sound(d)'
  <2>1. Counts' /\ \A d \in Cards : d # c => Sound(d)'
    BY <1>2, <1>3, OthersSound DEF Counts
  <2>2. Sound(c)'
    BY <1>2, <1>3, <1>4 DEF Sound, MarkTells, NotRun, Live
  <2> QED
    BY <2>1, <2>2
<1>6. Knows(t, Bound(t))'
  BY <1>2, <1>5 DEF Knows, Bound, Between, TypeOK
<1> QED
  BY <1>2, <1>3, <1>5, <1>6, AloneShows

\* register puts the object it holds in the place of whatever was there.
LEMMA AloneRegisterPut ==
  ASSUME TypeOK, TypeOK', RunFirstAlone, AloneInv, NEW t \in Threads, RegisterPut(t) PROVE AloneInv'
<1>1. PICK c \in Cards : c = req[t].card
  BY DEF TypeOK
<1>2. /\ pc[t] \in {"preregister", "register"} /\ pc'[t] = "regmeta"
      /\ pending' = [pending EXCEPT ![c] = prop[t]]
      /\ ret'[t] = (IF pc[t] = "preregister" THEN "stored" ELSE "idle")
      /\ UNCHANGED <<meta, runs, minted, req, prop>>
  BY <1>1 DEF RegisterPut, TypeOK, locals, history
<1>3. Knows(t, pc[t]) /\ Counts /\ prop[t].inst <= minted /\ \A d \in Cards : Sound(d)
  BY <1>2, AloneHas DEF Bound, Between
<1>4. prop[t].inst # 0 /\ \A d \in Cards : d # c => pending[d].inst # prop[t].inst
  <2>1. CASE InHand(t)
    BY <2>1 DEF InHand
  <2>2. CASE Live(c) /\ prop[t] = pending[c]
    BY <1>3, <2>2 DEF Live, Counts
  <2> QED
    BY <1>1, <1>2, <1>3, <2>1, <2>2 DEF Knows
<1>5. Counts' /\ pending'[c] = prop[t] /\ Live(c)'
  BY <1>2, <1>3, <1>4 DEF Counts, TypeOK, Live
<1>6. \A d \in Cards : d # c => Sound(d)'
  <2>1. \A d \in Cards : d # c => pending'[d] = pending[d] /\ meta'[d] = meta[d] /\ Sound(d)
    BY <1>2, <1>3 DEF TypeOK
  <2> QED
    BY <1>2, <1>3, <2>1, OthersSound
<1>7. meta[c].known \/ meta[c] = NoMeta
  BY <1>3 DEF Sound
<1>8. CASE pc[t] = "preregister"
  <2>1. Due(c)'
    BY <1>1, <1>2, <1>3, <1>5, <1>8 DEF Knows, Due, NotRun
  <2>2. Knows(t, Bound(t))'
    BY <1>1, <1>2, <1>5, <1>7, <1>8, <2>1 DEF Knows, Bound, Between
  <2> QED
    BY <1>1, <1>2, <1>3, <1>5, <1>6, <2>2, AloneShows
<1>9. CASE pc[t] = "register"
  <2>1. MarkTells(c)'
    <3>1. CASE c \in Guarded
      <4>1. ~ meta[c].auto
        BY <1>3, <3>1 DEF Sound, MarkTells, NoMeta
      <4>2. NotRun(prop[t].inst)
        BY <1>1, <1>3, <1>9, <3>1 DEF Knows
      <4> QED
        BY <1>2, <1>5, <4>1, <4>2 DEF MarkTells, NotRun
    <3>2. CASE c \notin Guarded
      <4>1. Live(c) /\ prop[t] = pending[c]
        BY <1>1, <1>3, <1>9, <3>2 DEF Knows
      <4>2. MarkTells(c)
        BY <1>3, <4>1 DEF Sound
      <4> QED
        BY <1>2, <1>5, <4>1, <4>2 DEF MarkTells, NotRun
    <3> QED
      BY <3>1, <3>2
  <2>2. Knows(t, Bound(t))'
    BY <1>1, <1>2, <1>5, <1>7, <1>9, <2>1 DEF Knows, Bound, Between
  <2> QED
    BY <1>1, <1>2, <1>3, <1>5, <1>6, <2>2, AloneShows
<1> QED
  BY <1>2, <1>8, <1>9

LEMMA AloneRegisterMeta ==
  ASSUME TypeOK, TypeOK', RunFirstAlone, AloneInv, NEW t \in Threads, RegisterMeta(t) PROVE AloneInv'
<1>1. PICK c \in Cards : c = req[t].card
  BY DEF TypeOK
<1>2. /\ pc[t] = "regmeta" /\ pc'[t] = "save" /\ ret'[t] = ret[t] /\ req'[t] = req[t]
      /\ prop'[t] = prop[t] /\ UNCHANGED <<pending, runs, minted>>
      /\ meta' = [meta EXCEPT ![c] = IF @.known THEN @ ELSE FreshMeta]
  BY <1>1, LeaveEffect DEF RegisterMeta, history
<1>3. Knows(t, "regmeta") /\ Counts /\ prop[t].inst <= minted
      /\ \A d \in Cards : d # c => Sound(d)
  BY <1>1, <1>2, AloneHas DEF Bound
<1>4. /\ meta'[c].known /\ meta'[c].auto = meta[c].auto
      /\ \A d \in Cards : d # c => meta'[d] = meta[d]
  BY <1>1, <1>2, <1>3 DEF Knows, TypeOK, FreshMeta, NoMeta
<1>5. Counts' /\ \A d \in Cards : d # c => Sound(d)'
  BY <1>2, <1>3, <1>4, OthersSound DEF Counts
<1>6. Live(c)
  BY <1>1, <1>3 DEF Knows
<1>7. CASE ret[t] = "stored"
  <2>1. Due(c)'
    BY <1>1, <1>2, <1>3, <1>7 DEF Knows, Due, NotRun, Live
  <2>2. Knows(t, Bound(t))'
    BY <1>1, <1>2, <1>4, <1>7, <2>1 DEF Knows, Bound, Between
  <2> QED
    BY <1>1, <1>2, <1>3, <1>5, <2>2, AloneShows
<1>8. CASE ret[t] = "idle"
  <2>1. Sound(c)'
    BY <1>1, <1>2, <1>3, <1>4, <1>6, <1>8 DEF Knows, Sound, MarkTells, NotRun, Live
  <2>2. Knows(t, Bound(t))'
    BY <1>1, <1>2, <1>8, <2>1 DEF Knows, Bound, Between
  <2> QED
    BY <1>1, <1>2, <1>3, <1>5, <2>2, AloneShows
<1> QED
  BY <1>3, <1>7, <1>8 DEF Knows

\* The automatic run is the first of the object that the table has.
LEMMA AloneExecuteDispatch ==
  ASSUME TypeOK, TypeOK', RunFirstAlone, AloneInv, NEW t \in Threads, ExecuteDispatch(t)
  PROVE  AloneInv'
<1>1. PICK c \in Cards : c = req[t].card
  BY DEF TypeOK
<1>2. /\ pc[t] = "exec" /\ RunHandler(t) /\ pc'[t] = "mark" /\ req'[t] = req[t]
      /\ prop'[t] = prop[t] /\ UNCHANGED <<pending, meta, minted>>
  BY LeaveEffect DEF ExecuteDispatch, shared
<1>3. Knows(t, "exec") /\ Counts /\ prop[t].inst <= minted
      /\ \A d \in Cards : d # c => Sound(d)
  BY <1>1, <1>2, AloneHas DEF Bound
<1>4. Due(c) /\ meta[c].known /\ prop[t] = pending[c] /\ prop[t].inst # 0
      /\ NotRun(prop[t].inst) /\ c \in Handled
  BY <1>1, <1>3, CardsAssumption DEF Knows, Due, Live
<1>5. /\ Counts' /\ runs'[prop[t].inst] > 0
      /\ \E i \in InstIds, n \in 0 .. 2 : i = prop[t].inst /\ runs' = [runs EXCEPT ![i] = n]
  BY <1>1, <1>2, <1>3, <1>4, RunCounts
<1>6. \A d \in Cards : d # c => Sound(d)'
  <2>1. PICK i \in InstIds, n \in 0 .. 2 : i = prop[t].inst /\ runs' = [runs EXCEPT ![i] = n]
    BY <1>5
  <2>2. \A d \in Cards : d # c => pending[d].inst # i
    BY <1>3, <1>4, <2>1 DEF Counts
  <2> QED
    BY <1>2, <1>3, <2>1, <2>2, OthersSound
<1>7. Knows(t, Bound(t))'
  BY <1>1, <1>2, <1>4, <1>5 DEF Knows, Bound, Between, Due, Live
<1> QED
  BY <1>1, <1>2, <1>3, <1>5, <1>6, <1>7, AloneShows

LEMMA AloneExecuteMark ==
  ASSUME TypeOK, TypeOK', RunFirstAlone, AloneInv, NEW t \in Threads, ExecuteMark(t)
  PROVE  AloneInv'
<1>1. PICK c \in Cards : c = req[t].card
  BY DEF TypeOK
<1>2. pc[t] = "mark" /\ UNCHANGED <<pending, runs, minted>>
  BY DEF ExecuteMark, history
<1>3. Knows(t, "mark") /\ Counts /\ prop[t].inst <= minted
      /\ \A d \in Cards : d # c => Sound(d)
  BY <1>1, <1>2, AloneHas DEF Bound
<1>4. /\ Live(c) /\ meta[c].known /\ prop[t] = pending[c] /\ c \notin Guarded
      /\ pending[c].mode = "non_blocking" /\ runs[pending[c].inst] > 0 /\ prop[t].inst # 0
  BY <1>1, <1>3 DEF Knows, Live
<1>5. /\ pc'[t] = "save" /\ ret'[t] = (IF req[t].op = "flip" THEN "idle" ELSE "register")
      /\ UNCHANGED <<req, prop>>
      /\ meta' = [meta EXCEPT ![c].auto = TRUE, ![c].deferred = FALSE]
  BY <1>1, <1>4 DEF ExecuteMark, SaveThen, TypeOK
<1>6. /\ meta'[c].known /\ meta'[c].auto /\ \A d \in Cards : d # c => meta'[d] = meta[d]
  BY <1>4, <1>5 DEF TypeOK, Metas
<1>7. Counts' /\ \A d \in Cards : Sound(d)'
  <2>1. Counts' /\ \A d \in Cards : d # c => Sound(d)'
    BY <1>2, <1>3, <1>6, OthersSound DEF Counts
  <2>2. Sound(c)'
    BY <1>2, <1>4, <1>6 DEF Sound, MarkTells, Live
  <2> QED
    BY <2>1, <2>2
<1>8. Knows(t, Bound(t))'
  BY <1>1, <1>2, <1>4, <1>5, <1>7 DEF Knows, Bound, Between, Live
<1> QED
  BY <1>2, <1>3, <1>5, <1>7, <1>8, AloneShows

LEMMA AloneSetMode ==
  ASSUME TypeOK, TypeOK', RunFirstAlone, AloneInv, NEW t \in Threads, SetMode(t) PROVE AloneInv'
<1>1. PICK c \in Cards : c = req[t].card
  BY DEF TypeOK
<1>2. pc[t] = "setmode" /\ UNCHANGED <<meta, runs, minted>>
  BY DEF SetMode, history
<1>3. Knows(t, "setmode") /\ Counts /\ prop[t].inst <= minted /\ \A d \in Cards : Sound(d)
      /\ Bound(t) \in Between
  BY <1>2, AloneHas DEF Bound, Between
<1>4. /\ req[t].op \in Flips /\ ~ meta[c].auto /\ (req[t].op = "flip" => c \notin Guarded)
  BY <1>1, <1>3 DEF Knows
<1>5. PICK m \in Modes : m = IF req[t].op = "flip" THEN "non_blocking" ELSE "blocking"
  OBVIOUS
<1>6. PICK l \in {"reget", "idle"} : l = IF req[t].op = "flip" THEN "reget" ELSE "idle"
  OBVIOUS
<1>7. CASE Leave(t, "idle") /\ UNCHANGED pending
  BY <1>2, <1>3, <1>7, AloneStill
<1>8. CASE Live(c) /\ pending[c].mode = m /\ Leave(t, l) /\ UNCHANGED pending /\ l = "reget"
  <2>1. pc'[t] = "reget" /\ req'[t] = req[t] /\ prop'[t] = prop[t]
    BY <1>8, LeaveEffect
  <2>2. Due(c) /\ meta[c].known
    BY <1>3, <1>4, <1>5, <1>6, <1>8 DEF Due, Sound, MarkTells
  <2>3. Knows(t, Bound(t))'
    BY <1>1, <1>2, <1>8, <2>1, <2>2 DEF Knows, Bound, Between, Due, NotRun, Live
  <2> QED
    BY <1>2, <1>3, <1>8, <2>1, <2>3, AloneStill
<1>9. CASE /\ Live(c) /\ SaveThen(t, l) /\ pending' = [pending EXCEPT ![c].mode = m]
  <2>1. /\ pc'[t] = "save" /\ ret'[t] = l /\ UNCHANGED <<req, prop>>
        /\ pending'[c].inst = pending[c].inst /\ pending'[c].mode = m
        /\ \A d \in Cards : d # c => pending'[d] = pending[d]
    BY <1>9 DEF SaveThen, TypeOK, Objects
  <2>2. Counts' /\ \A d \in Cards : d # c => Sound(d)'
    <3>1. \A d \in Cards : pending'[d].inst = pending[d].inst
      BY <2>1
    <3>2. Counts'
      BY <1>2, <1>3, <3>1 DEF Counts
    <3> QED
      BY <1>2, <1>3, <2>1, <3>2, OthersSound
  <2>3. /\ Live(c)' /\ meta[c].known /\ MarkTells(c)'
        /\ NotRun(pending[c].inst)'
    BY <1>2, <1>3, <1>4, <1>9, <2>1 DEF Live, Sound, MarkTells, NotRun
  <2>4. Sound(c)'
    BY <1>2, <2>3 DEF Sound
  <2>5. l = "reget" => Due(c)'
    BY <1>4, <1>5, <1>6, <2>1, <2>3 DEF Due
  <2>6. Knows(t, Bound(t))'
    BY <1>1, <1>2, <2>1, <2>3, <2>4, <2>5 DEF Knows, Bound, Between
  <2> QED
    BY <1>1, <1>2, <1>3, <2>1, <2>2, <2>6, AloneShows
<1> QED
  BY <1>1, <1>5, <1>6, <1>7, <1>8, <1>9 DEF SetMode

LEMMA AloneInit == Init => AloneInv
<1>1. SUFFICES ASSUME Init PROVE AloneInv
  OBVIOUS
<1>2. \A t \in Threads : pc[t] = "idle" /\ prop[t].inst = 0 /\ req[t].card \in Cards
  BY <1>1, NoReqType DEF Init, NoCard
<1>3. minted = InitMinted /\ \A i \in InstIds : runs[i] = 0
  BY <1>1 DEF Init
<1>4. ASSUME NEW c \in Cards
      PROVE  pending[c] = [inst |-> InitInst[c], mode |-> "blocking"]
             /\ meta[c] = (IF InitInst[c] = 0 THEN NoMeta ELSE FreshMeta)
  <2>1. pending[c] = [inst |-> InitInst[c], mode |-> "blocking"]
    BY <1>1 DEF Init, LoadPending, InitFile, EmptyFile
  <2>2. meta[c] = IF InitInst[c] = 0 THEN NoMeta ELSE FreshMeta
    BY <1>1 DEF Init, LoadMeta, InitFile, EmptyFile, FreshMeta, NoMeta
  <2> QED
    BY <2>1, <2>2
<1>5. \A c \in Cards : pending[c].inst = InitInst[c] /\ InitInst[c] \in InstIds
  <2>1. ASSUME NEW c \in Cards PROVE pending[c].inst = InitInst[c]
    <3>1. pending[c] = [inst |-> InitInst[c], mode |-> "blocking"]
      BY <1>4
    <3> QED
      BY <3>1
  <2>2. \A c \in Cards : InitInst[c] \in 0 .. MaxInst
    BY BoundsAssumption
  <2> QED
    BY <2>1, <2>2 DEF InstIds
<1>6. Counts
  <2>1. \A c, d \in Cards : c # d /\ pending[c].inst = pending[d].inst => pending[c].inst = 0
    BY <1>5, BoundsAssumption
  <2>2. \A c \in Cards : pending[c].inst <= minted
    BY <1>3, <1>5, BoundsAssumption
  <2> QED
    BY <1>3, <2>1, <2>2 DEF Counts
<1>7. ASSUME NEW c \in Cards PROVE Sound(c)
  <2>1. CASE InitInst[c] = 0
    BY <1>4, <1>5, <2>1 DEF Sound, Live, NoCard
  <2>2. CASE InitInst[c] # 0
    <3>1. runs[pending[c].inst] = 0
      BY <1>3, <1>5
    <3>2. meta[c].known /\ ~ meta[c].auto
      BY <1>4, <2>2 DEF FreshMeta, NoMeta
    <3> QED
      BY <1>5, <2>2, <3>1, <3>2 DEF Sound, Live, MarkTells, NotRun
  <2> QED
    BY <2>1, <2>2
<1>8. ASSUME NEW t \in Threads PROVE Knows(t, Bound(t)) /\ prop[t].inst <= minted
  <2>1. 0 <= minted
    BY <1>3, BoundsAssumption
  <2> QED
    BY <1>2, <1>7, <2>1 DEF Knows, Bound, Between
<1> QED
  BY <1>6, <1>7, <1>8 DEF AloneInv

LEMMA RunFirstStep ==
  ASSUME RunFirstAlone, TypeOK, TypeOK', AloneInv, [Next]_vars PROVE AloneInv'
<1>1. ~ Restart
  BY DEF Restart, RunFirstAlone, TypeOK
<1>2. ASSUME NEW t \in Threads, Continue(t) PROVE AloneInv'
  BY <1>2, AloneReads, AloneTakePop, AloneTakeMeta, AloneDispatch, AloneDefer,
     AloneRegisterPut, AloneRegisterMeta, AloneExecuteDispatch, AloneExecuteMark,
     AloneSetMode DEF Continue
<1>3. CASE UNCHANGED vars
  <2>1. UNCHANGED <<pending, meta, minted, pc, ret, req, prop, runs>>
    BY <1>3 DEF vars
  <2>2. Counts' /\ \A c \in Cards : Sound(c) => Sound(c)'
    BY <2>1 DEF AloneInv, Counts, Sound, MarkTells, NotRun, Live
  <2>3. ASSUME NEW t \in Threads PROVE Knows(t, Bound(t))' /\ prop'[t].inst <= minted'
    BY <2>1 DEF AloneInv, Knows, Bound, Sound, MarkTells, NotRun, Live, Due, InHand
  <2> QED
    BY <2>1, <2>2, <2>3 DEF AloneInv
<1> QED
  BY <1>1, <1>2, <1>3, AloneStart DEF Next

\* With one request at a time and no deferral, running first does not run a card
\* object twice: decide sees the mark auto_decide left and does not dispatch,
\* and a card runs on a flip only if it bears none.
THEOREM RunFirstAtMostOnce ==
  ASSUME RunFirstAlone, NoDefer
  PROVE  Spec => []AtMostOnce
<1>1. AloneInv => AtMostOnce
  BY DEF AloneInv, Counts, AtMostOnce
<1> QED
  BY <1>1, AloneInit, RunFirstStep, TypeCorrect, PTL DEF Spec

\* With one request at a time, deferrals included, set_mode and register never
\* make a card that ran automatically blocking again.
THEOREM RanStaysNonBlocking ==
  ASSUME RunFirstAlone
  PROVE  Spec => []RanNeverBlocking
<1>1. ASSUME TypeOK, AloneInv, NEW c \in Cards, Live(c), meta[c].auto
      PROVE  pending[c].mode = "non_blocking"
  <2>1. CASE Sound(c)
    BY <1>1, <2>1 DEF Sound, MarkTells
  <2>2. CASE ~ Sound(c)
    <3>1. PICK t \in Threads : req[t].card = c
      BY <1>1, <2>2 DEF AloneInv
    <3>2. PICK l \in Between \cup {"takemeta", "regmeta", "stored", "reget", "exec", "mark"} :
            l = Bound(t) /\ Knows(t, l)
      BY <1>1, <3>1 DEF AloneInv, Knows
    <3>3. l \notin Between
      BY <2>2, <3>1, <3>2 DEF Knows
    <3>4. l # "takemeta"
      BY <1>1, <3>1, <3>2 DEF Knows, Live, NoCard
    <3>5. CASE l = "regmeta"
      BY <1>1, <3>1, <3>2, <3>5 DEF Knows, Due, MarkTells
    <3>6. CASE l \in {"stored", "reget", "exec", "mark"}
      BY <3>1, <3>2, <3>6 DEF Knows, Due
    <3> QED
      BY <3>3, <3>4, <3>5, <3>6
  <2> QED
    BY <2>1, <2>2
<1>2. TypeOK /\ AloneInv => RanNeverBlocking
  BY <1>1 DEF RanNeverBlocking
<1> QED
  BY <1>2, AloneInit, RunFirstStep, TypeCorrect, PTL DEF Spec

\* With one request at a time, deferrals included, an ACCEPT that takes a card
\* either goes on to the dispatch or confirms a run that did take place.
THEOREM RunFirstEatsNothing ==
  ASSUME RunFirstAlone
  PROVE  Spec => []NothingEaten
<1>1. ASSUME TypeOK, AloneInv, NEW t \in Threads, pc[t] = "takemeta",
             req[t].op = "ACCEPT", prop[t].inst # 0
      PROVE  (Owes(t) /\ req[t].card \in Handled) \/ runs[prop[t].inst] > 0
  <2>1. Knows(t, "takemeta")
    BY <1>1 DEF AloneInv, Bound
  <2>2. CASE ret[t] = "dispatch"
    BY <1>1, <2>1, <2>2 DEF Knows, Owes
  <2>3. CASE ret[t] = "idle"
    BY <1>1, <2>1, <2>3 DEF Knows
  <2> QED
    BY <2>1, <2>2, <2>3 DEF Knows
<1>2. TypeOK /\ AloneInv => NothingEaten
  BY <1>1 DEF NothingEaten
<1> QED
  BY <1>2, AloneInit, RunFirstStep, TypeCorrect, PTL DEF Spec
=============================================================================
