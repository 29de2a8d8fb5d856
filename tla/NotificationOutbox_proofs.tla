----------------------- MODULE NotificationOutbox_proofs -----------------------
(* Proofs about NotificationOutbox, for every value of its constants. *)
EXTENDS NotificationOutbox, FiniteSetTheorems, TLAPS

LEMMA CapType == Cap \in Nat \ {0}
  BY OutboxAssumption DEF Cap

LEMMA CountType ==
  ASSUME NEW k \in 0 .. Cap
  PROVE  AtMost(k + 1, Cap) \in 0 .. Cap
  BY CapType DEF AtMost

LEMMA DeliveryTypes == NoDelivery \in Deliveries /\ NewDelivery \in Deliveries
  BY CapType DEF NoDelivery, NewDelivery, Deliveries, DelStates

LEMMA VerdictType ==
  ASSUME NEW n, NEW result
  PROVE  Verdict(n, result) \in {"delivered", "failed", "retry_wait"}
  BY DEF Verdict

LEMMA PolicyType ==
  ASSUME NEW p, NEW w
  PROVE  Policy(p, w) \in {"rejected", "queued", "pending_approval"}
  BY DEF Policy

LEMMA StepType == ASSUME TypeOK, [Next]_vars PROVE TypeOK'
<1> USE DEF TypeOK
<1> USE CapType
<1>1. ASSUME NEW n \in Notes, NEW p \in BOOLEAN, NEW w \in BOOLEAN, Submit(n, p, w)
      PROVE  TypeOK'
  <2>1. Policy(p, w) \in Statuses
    BY PolicyType DEF Statuses
  <2>2. row' \in [Notes -> Rows]
    <3>1. [status |-> Policy(p, w), bound |-> binding # "none"] \in Rows
      BY <2>1 DEF Rows
    <3>2. [row[n] EXCEPT !.status = "duplicate"] \in Rows
      BY DEF Rows, Statuses
    <3>3. CASE Clash(n)
      BY <1>1, <3>2, <3>3 DEF Submit
    <3>4. CASE ~Clash(n)
      BY <1>1, <3>1, <3>4 DEF Submit
    <3>5. QED
      BY <3>3, <3>4
  <2>3. delivery' \in [Notes -> Deliveries]
    BY <1>1, DeliveryTypes DEF Submit
  <2>4. cleared' \in [Notes -> BOOLEAN]
    BY <1>1 DEF Submit
  <2>5. QED
    BY <1>1, <2>2, <2>3, <2>4 DEF Submit, loop
<1>2. ASSUME NEW n \in Notes, Approve(n)
      PROVE  TypeOK'
  BY <1>2, DeliveryTypes DEF Approve, loop, Rows, Statuses
<1>3. ASSUME NEW n \in Notes, Reject(n)
      PROVE  TypeOK'
  BY <1>3 DEF Reject, loop, history, Rows, Statuses
<1>4. ASSUME NEW n \in Notes, Elapse(n)
      PROVE  TypeOK'
  BY <1>4 DEF Elapse, loop, history, Deliveries
<1>5. ASSUME NEW b \in Bindings, Rebind(b)
      PROVE  TypeOK'
  BY <1>5 DEF Rebind, loop, history
<1>6. ASSUME NEW S \in SUBSET Notes, Lease(S)
      PROVE  TypeOK'
  <2>1. ASSUME NEW n \in Notes
        PROVE  AtMost(delivery[n].attempts + 1, Cap) \in 0 .. Cap
    BY CountType DEF Deliveries
  <2>2. delivery' \in [Notes -> Deliveries]
    BY <1>6, <2>1 DEF Lease, LeaseSet, Deliveries, DelStates
  <2>3. QED
    BY <1>6, <2>2 DEF Lease, LeaseSet, history
<1>7. ASSUME NEW n \in Notes, NEW result \in Results, Send(n, result)
      PROVE  TypeOK'
  <2>1. tried' \in [Notes -> 0 .. Cap] /\ accepted' \in [Notes -> 0 .. Cap]
    BY <1>7, CountType DEF Send
  <2>2. current' \in SUBSET [note : Notes, result : AllFailures \cup {"ok"}]
    BY <1>7, OutboxAssumption DEF Send, Results
  <2>3. QED
    BY <1>7, <2>1, <2>2 DEF Send
<1>8. ASSUME NEW c \in current, Mark(c.note, c.result)
      PROVE  TypeOK'
  <2>1. Verdict(c.note, c.result) \in DelStates
    BY VerdictType DEF DelStates
  <2>2. delivery' \in [Notes -> Deliveries]
    BY <1>8, <2>1 DEF Mark, Finish, Deliveries
  <2>3. QED
    BY <1>8, <2>2 DEF Mark, Finish, history
<1>9. ASSUME NEW c \in current, Aggregate(c.note)
      PROVE  TypeOK'
  BY <1>9 DEF Aggregate, history, Rows, Statuses
<1>10. ASSUME EndBatch
       PROVE  TypeOK'
  BY <1>10 DEF EndBatch, history
<1>11. ASSUME CutShort
       PROVE  TypeOK'
  BY <1>11, OutboxAssumption DEF CutShort, history
<1>12. ASSUME NEW c \in current, RecordFails(c.note, c.result)
       PROVE  TypeOK'
  <2>1. Verdict(c.note, "lost") \in DelStates
    BY VerdictType DEF DelStates
  <2>2. delivery' \in [Notes -> Deliveries]
    BY <1>12, <2>1 DEF RecordFails, Deliveries
  <2>3. current' \in SUBSET [note : Notes, result : AllFailures \cup {"ok"}]
    BY <1>12 DEF RecordFails, AllFailures
  <2>4. crashes' \in 0 .. MaxCrashes
    BY <1>12, OutboxAssumption DEF RecordFails
  <2>5. QED
    BY <1>12, <2>2, <2>3, <2>4 DEF RecordFails, history
<1>13. CASE UNCHANGED vars
  BY <1>13 DEF vars
<1>14. QED
  BY <1>1, <1>2, <1>3, <1>4, <1>5, <1>6, <1>7, <1>8, <1>9, <1>10, <1>11,
     <1>12, <1>13 DEF Next, Dispatch

LEMMA InitType == Init => TypeOK
  BY CapType, DeliveryTypes, OutboxAssumption DEF Init, TypeOK, Rows, Statuses

\* Every reachable state of the outbox and its dispatcher has its types
\* (TypeOK): the code's tables hold only the states the enumerations name.
THEOREM OutboxTypes == Spec => []TypeOK
  BY InitType, StepType, PTL DEF Spec

-----------------------------------------------------------------------------
(* Consent and keys. ConsentBeforeSend says nothing of the batch the loop has  *)
(* in hand, and OnePerKey nothing of the rows that let a delivery be: Held and *)
(* Scoped supply it.                                                           *)

Unsent == {"new", "duplicate", "pending_approval", "rejected"}
InHand == batch \cup {c.note : c \in current}

\* A delivery exists for cleared commands only, and only such are in hand.
Held ==
  \A n \in Notes :
    /\ delivery[n].st # "absent" => cleared[n]
    /\ row[n].status \in Unsent => delivery[n].st = "absent"
    /\ tried[n] > 0 \/ n \in InHand => delivery[n].st # "absent"

\* Only commands with a bound recipient can be sent, and the unique key admits
\* one of them.
Scoped ==
  /\ \A n \in Notes : ~row[n].bound => row[n].status \in {"new", "duplicate", "rejected"}
  /\ \A n, m \in Notes :
       n # m /\ Stored(n) /\ Stored(m) /\ KeyOf[n] = KeyOf[m]
         => row[n].bound # row[m].bound

SendInv == TypeOK /\ Held /\ Scoped

LEMMA InHandNotes == ASSUME TypeOK, NEW c \in current PROVE c.note \in Notes
  BY DEF TypeOK

LEMMA InitSend == Init => SendInv
  BY InitType DEF Init, SendInv, Held, Scoped, InHand, Unsent, Stored, NoDelivery

\* What Held and Scoped depend on.
LEMMA Frame ==
  ASSUME SendInv, UNCHANGED <<row, cleared>>,
         \A n \in Notes : delivery'[n].st # "absent" <=> delivery[n].st # "absent",
         \A n \in Notes : tried'[n] > 0 \/ n \in InHand' => tried[n] > 0 \/ n \in InHand
  PROVE  Held' /\ Scoped'
<1>1. Held'
  BY DEF SendInv, Held
<1>2. Scoped'
  BY DEF SendInv, Scoped, Stored
<1>3. QED
  BY <1>1, <1>2

LEMMA StepSend == ASSUME SendInv, [Next]_vars PROVE SendInv'
<1> USE DEF SendInv
<1>0. TypeOK'
  BY StepType
<1>1. ASSUME NEW n \in Notes, NEW p \in BOOLEAN, NEW w \in BOOLEAN, Submit(n, p, w)
      PROVE  Held' /\ Scoped'
  <2> DEFINE status == Policy(p, w)
  <2>1. InHand' = InHand /\ tried' = tried
    BY <1>1 DEF Submit, InHand, loop
  <2>2. delivery[n].st = "absent" /\ row[n].status = "new"
    BY <1>1 DEF Submit, Held, Unsent
  <2>3. CASE Clash(n)
    <3>1. /\ row' = [row EXCEPT ![n].status = "duplicate"]
          /\ UNCHANGED <<delivery, cleared>>
      BY <1>1, <2>3 DEF Submit
    <3>2. \A m \in Notes : /\ row'[m].bound = row[m].bound
                           /\ row'[m].status = IF m = n THEN "duplicate" ELSE row[m].status
      BY <3>1 DEF TypeOK, Rows
    <3>3. Held'
      BY <2>1, <2>2, <3>1, <3>2 DEF Held, Unsent
    <3>4. Scoped'
      BY <2>2, <3>2 DEF Scoped, Stored
    <3>5. QED
      BY <3>3, <3>4
  <2>4. CASE ~Clash(n)
    <3>1. /\ row' = [row EXCEPT ![n] = [status |-> status, bound |-> binding # "none"]]
          /\ delivery' = [delivery EXCEPT ![n] = IF status = "queued" THEN NewDelivery ELSE @]
          /\ cleared' = [cleared EXCEPT ![n] = status = "queued"]
      BY <1>1, <2>4 DEF Submit
    <3>2. \A m \in Notes \ {n} : /\ row'[m] = row[m] /\ delivery'[m] = delivery[m]
                                 /\ cleared'[m] = cleared[m]
      BY <3>1 DEF TypeOK
    <3>3. /\ row'[n].status = status /\ row'[n].bound = (binding # "none")
          /\ cleared'[n] = (status = "queued")
          /\ delivery'[n] = IF status = "queued" THEN NewDelivery ELSE delivery[n]
      BY <3>1 DEF TypeOK
    <3>4. status \in {"rejected", "queued", "pending_approval"}
      BY PolicyType
    <3>5. binding = "none" => status = "rejected"
      BY DEF Policy
    <3>6. tried[n] = 0 /\ n \notin InHand
      BY <2>2 DEF Held, TypeOK
    <3>7. Held'
      <4>1. ASSUME NEW m \in Notes, m # n
            PROVE  /\ delivery'[m].st # "absent" => cleared'[m]
                   /\ row'[m].status \in Unsent => delivery'[m].st = "absent"
                   /\ tried'[m] > 0 \/ m \in InHand' => delivery'[m].st # "absent"
        BY <2>1, <3>2, <4>1 DEF Held
      <4>2. CASE status = "queued"
        <5>1. cleared'[n] /\ delivery'[n].st = "queued" /\ row'[n].status = "queued"
          <6>1. cleared'[n]
            BY <3>3, <4>2, Zenon
          <6>2. delivery'[n] = NewDelivery /\ row'[n].status = "queued"
            BY <3>3, <4>2, Zenon
          <6>3. QED
            BY <6>1, <6>2 DEF NewDelivery
        <5>2. QED
          BY <4>1, <5>1 DEF Held, Unsent
      <4>3. CASE status # "queued"
        <5>1. delivery'[n].st = "absent"
          BY <2>2, <3>3, <4>3
        <5>2. ~(tried'[n] > 0) /\ n \notin InHand'
          BY <2>1, <3>6
        <5>3. QED
          BY <4>1, <5>1, <5>2 DEF Held
      <4>4. QED
        BY <4>2, <4>3
    <3>8. Scoped'
      <4>1. \A m \in Notes : ~row'[m].bound => row'[m].status \in {"new", "duplicate", "rejected"}
        BY <3>2, <3>3, <3>5 DEF Scoped
      <4>2. \A m \in Notes : Stored(m) /\ KeyOf[m] = KeyOf[n] => row[m].bound # (binding # "none")
        BY <2>4 DEF Clash, TypeOK, Rows
      <4>3. \A m \in Notes : m # n /\ Stored(m)' /\ KeyOf[m] = KeyOf[n]
              => row'[m].bound # row'[n].bound
        BY <3>2, <3>3, <4>2 DEF Stored
      <4>4. \A l, m \in Notes :
              l # m /\ l # n /\ m # n /\ Stored(l)' /\ Stored(m)' /\ KeyOf[l] = KeyOf[m]
                => row'[l].bound # row'[m].bound
        BY <3>2 DEF Scoped, Stored
      <4>5. QED
        BY <4>1, <4>3, <4>4 DEF Scoped
    <3>9. QED
      BY <3>7, <3>8
  <2>5. QED
    BY <2>3, <2>4
<1>2. ASSUME NEW n \in Notes, Approve(n)
      PROVE  Held' /\ Scoped'
  <2>1. InHand' = InHand /\ tried' = tried
    BY <1>2 DEF Approve, InHand, loop
  <2>2. \A m \in Notes : /\ row'[m].bound = row[m].bound
                         /\ row'[m].status = IF m = n THEN "queued" ELSE row[m].status
    BY <1>2 DEF Approve, TypeOK, Rows
  <2>3. \A m \in Notes : /\ delivery'[m] = IF m = n THEN NewDelivery ELSE delivery[m]
                         /\ cleared'[m] = (m = n \/ cleared[m])
    BY <1>2 DEF Approve, TypeOK
  <2>4. row[n].status = "pending_approval"
    BY <1>2 DEF Approve
  <2>5. Held'
    <3>1. cleared'[n] /\ delivery'[n].st = "queued" /\ row'[n].status = "queued"
      <4>1. cleared'[n] /\ delivery'[n] = NewDelivery /\ row'[n].status = "queued"
        BY <2>2, <2>3, Zenon
      <4>2. QED
        BY <4>1 DEF NewDelivery
    <3>2. \A m \in Notes \ {n} : /\ delivery'[m] = delivery[m]
                                 /\ cleared'[m] = cleared[m]
                                 /\ row'[m].status = row[m].status
      BY <1>2 DEF Approve, TypeOK
    <3>3. QED
      BY <2>1, <3>1, <3>2 DEF Held, Unsent
  <2>6. Scoped'
    BY <2>2, <2>4 DEF Scoped, Stored
  <2>7. QED
    BY <2>5, <2>6
<1>3. ASSUME NEW n \in Notes, Reject(n)
      PROVE  Held' /\ Scoped'
  <2>1. InHand' = InHand /\ UNCHANGED <<tried, delivery, cleared>>
    BY <1>3 DEF Reject, InHand, loop, history
  <2>2. \A m \in Notes : /\ row'[m].bound = row[m].bound
                         /\ row'[m].status = IF m = n THEN "rejected" ELSE row[m].status
    BY <1>3 DEF Reject, TypeOK, Rows
  <2>3. row[n].status = "pending_approval"
    BY <1>3 DEF Reject
  <2>4. Held'
    BY <2>1, <2>2, <2>3 DEF Held, Unsent
  <2>5. Scoped'
    BY <2>2, <2>3 DEF Scoped, Stored
  <2>6. QED
    BY <2>4, <2>5
<1>4. ASSUME NEW n \in Notes, Elapse(n)
      PROVE  Held' /\ Scoped'
  <2>1. \A m \in Notes : delivery'[m].st = delivery[m].st
    BY <1>4 DEF Elapse, TypeOK, Deliveries
  <2>2. QED
    BY <1>4, <2>1, Frame DEF Elapse, loop, history, InHand
<1>5. ASSUME NEW b \in Bindings, Rebind(b)
      PROVE  Held' /\ Scoped'
  BY <1>5, Frame DEF Rebind, loop, history, InHand
<1>6. ASSUME NEW S \in SUBSET Notes, Lease(S)
      PROVE  Held' /\ Scoped'
  <2>1. \A m \in Notes : delivery'[m].st = IF m \in S THEN "sending" ELSE delivery[m].st
    BY <1>6 DEF Lease, LeaseSet
  <2>2. \A m \in S : delivery[m].st # "absent"
    BY <1>6 DEF Lease, Ready
  <2>3. InHand' \subseteq InHand \cup S
    BY <1>6 DEF Lease, LeaseSet, InHand
  <2>4. UNCHANGED <<row, cleared, tried>>
    BY <1>6 DEF Lease, LeaseSet, history
  <2>5. Held'
    BY <2>1, <2>2, <2>3, <2>4 DEF Held
  <2>6. Scoped'
    BY <2>4 DEF Scoped, Stored
  <2>7. QED
    BY <2>5, <2>6
<1>7. ASSUME NEW n \in Notes, NEW result \in Results, Send(n, result)
      PROVE  Held' /\ Scoped'
  <2>1. n \in InHand /\ InHand' \subseteq InHand
    BY <1>7 DEF Send, InHand
  <2>2. \A m \in Notes \ {n} : tried'[m] = tried[m]
    BY <1>7 DEF Send, TypeOK
  <2>3. QED
    BY <1>7, <2>1, <2>2, Frame DEF Send
<1>8. ASSUME NEW c \in current, Mark(c.note, c.result)
      PROVE  Held' /\ Scoped'
  <2>1. c.note \in InHand /\ c.note \in Notes
    BY InHandNotes DEF InHand
  <2>2. \A m \in Notes \ {c.note} : delivery'[m] = delivery[m]
    BY <1>8 DEF Mark, Finish, TypeOK
  <2>3. delivery[c.note].st # "absent"
    BY <2>1 DEF Held
  <2>4. delivery'[c.note].st # "absent"
    BY <1>8, <2>1, <2>3, VerdictType DEF Mark, Finish, TypeOK, Deliveries
  <2>5. QED
    BY <1>8, <2>2, <2>3, <2>4, Frame DEF Mark, Finish, history, InHand
<1>9. ASSUME NEW c \in current, Aggregate(c.note)
      PROVE  Held' /\ Scoped'
  <2>1. c.note \in InHand /\ c.note \in Notes
    BY InHandNotes DEF InHand
  <2>2. delivery[c.note].st # "absent" /\ row[c.note].status \notin Unsent
    BY <2>1 DEF Held
  <2>3. \A m \in Notes : /\ row'[m].bound = row[m].bound
                         /\ m # c.note => row'[m].status = row[m].status
    BY <1>9 DEF Aggregate, TypeOK, Rows
  <2>4. row'[c.note].status \in {"delivered", "failed", "partially_delivered"}
    BY <1>9, <2>1 DEF Aggregate, TypeOK, Rows
  <2>5. InHand' = InHand /\ UNCHANGED <<tried, delivery, cleared>>
    BY <1>9 DEF Aggregate, InHand, history
  <2>6. Held'
    BY <2>2, <2>3, <2>4, <2>5 DEF Held, Unsent
  <2>7. Scoped'
    BY <2>1, <2>2, <2>3, <2>4 DEF Scoped, Stored, Unsent
  <2>8. QED
    BY <2>6, <2>7
<1>10. ASSUME EndBatch
       PROVE  Held' /\ Scoped'
  BY <1>10, Frame DEF EndBatch, history, InHand
<1>11. ASSUME CutShort
       PROVE  Held' /\ Scoped'
  BY <1>11, Frame DEF CutShort, history, InHand
<1>12. ASSUME NEW c \in current, RecordFails(c.note, c.result)
       PROVE  Held' /\ Scoped'
  <2>1. c.note \in InHand /\ c.note \in Notes
    BY InHandNotes DEF InHand
  <2>2. \A m \in Notes \ {c.note} : delivery'[m] = delivery[m]
    BY <1>12 DEF RecordFails, TypeOK
  <2>3. delivery[c.note].st # "absent"
    BY <2>1 DEF Held
  <2>4. delivery'[c.note].st # "absent"
    BY <1>12, <2>1, <2>3, VerdictType DEF RecordFails, TypeOK, Deliveries
  <2>5. InHand' \subseteq InHand
    BY <1>12, <2>1 DEF RecordFails, InHand
  <2>6. QED
    BY <1>12, <2>2, <2>3, <2>4, <2>5, Frame DEF RecordFails, history
<1>13. ASSUME UNCHANGED vars
       PROVE  Held' /\ Scoped'
  <2>1. UNCHANGED <<row, cleared, delivery, tried, batch, current>>
    BY <1>13 DEF vars
  <2>2. QED
    BY <2>1, Frame DEF InHand
<1>14. QED
  BY <1>0, <1>1, <1>2, <1>3, <1>4, <1>5, <1>6, <1>7, <1>8, <1>9, <1>10, <1>11,
     <1>12, <1>13 DEF Next, Dispatch

LEMMA SendInvariant == Spec => []SendInv
  BY InitSend, StepSend, PTL DEF Spec

LEMMA SendImplies == SendInv => ConsentBeforeSend /\ OnePerKey
<1> SUFFICES ASSUME SendInv PROVE ConsentBeforeSend /\ OnePerKey
  OBVIOUS
<1>1. \A n \in Notes : tried[n] \in Nat
  BY CapType DEF SendInv, TypeOK
<1>2. ConsentBeforeSend
  BY <1>1 DEF SendInv, Held, Unsent, ConsentBeforeSend
<1>3. \A n \in Notes : tried[n] # 0 => Stored(n) /\ row[n].bound
  BY <1>1 DEF SendInv, Held, Scoped, Unsent, Stored
<1>4. OnePerKey
  BY <1>3 DEF SendInv, Scoped, OnePerKey, TypeOK, Rows
<1>5. QED
  BY <1>2, <1>4

\* Nothing is queued or sent without consent or approval (ConsentBeforeSend),
\* whatever bindings do between submit, transition_approval and the dispatch.
THEOREM Consent == Spec => []ConsentBeforeSend
  BY SendInvariant, SendImplies, PTL

\* Of the commands with one dedupe key only one is ever sent (OnePerKey): the
\* scope of the key distinguishes bound from unbound commands only, and submit
\* rejects the unbound ones.
THEOREM KeySentOnce == Spec => []OnePerKey
  BY SendInvariant, SendImplies, PTL

-----------------------------------------------------------------------------
(* The loop.  What it leased and has not sent is SENDING, and so is what it    *)
(* sent and has not marked.                                                    *)

Loop ==
  /\ pc = "idle" => batch = {} /\ current = {}
  /\ pc \in {"mark", "aggregate"} => \E c \in current : current = {c}
  /\ \A c \in current : c.note \notin batch
  /\ \A n \in batch : delivery[n].st = "sending"
  /\ pc = "mark" => \A c \in current : delivery[c.note].st = "sending"

LEMMA InitLoop == Init => Loop
  BY DEF Init, Loop

\* Steps of others change no delivery that is being sent.
LEMMA LoopFrame ==
  ASSUME Loop, UNCHANGED loop,
         \A n \in Notes : delivery[n].st = "sending" => delivery'[n].st = "sending",
         batch \subseteq Notes, \A c \in current : c.note \in Notes
  PROVE  Loop'
  BY DEF Loop, loop

LEMMA StepLoop == ASSUME SendInv, Loop, [Next]_vars PROVE Loop'
<1>0. TypeOK /\ Held /\ batch \subseteq Notes /\ \A c \in current : c.note \in Notes
  BY DEF SendInv, TypeOK
<1>1. ASSUME NEW n \in Notes, NEW p \in BOOLEAN, NEW w \in BOOLEAN, Submit(n, p, w)
      PROVE  Loop'
  <2>1. delivery[n].st = "absent" /\ UNCHANGED loop
    BY <1>0, <1>1 DEF Submit, Held, Unsent
  <2>2. \A m \in Notes \ {n} : delivery'[m] = delivery[m]
    BY <1>0, <1>1 DEF Submit, TypeOK
  <2> QED  BY <1>0, <2>1, <2>2, LoopFrame
<1>2. ASSUME NEW n \in Notes, Approve(n) PROVE Loop'
  <2>1. delivery[n].st = "absent" /\ UNCHANGED loop
    BY <1>0, <1>2 DEF Approve, Held, Unsent
  <2>2. \A m \in Notes \ {n} : delivery'[m] = delivery[m]
    BY <1>0, <1>2 DEF Approve, TypeOK
  <2> QED  BY <1>0, <2>1, <2>2, LoopFrame
<1>3. ASSUME NEW n \in Notes, Elapse(n) PROVE Loop'
  <2>1. \A m \in Notes : delivery'[m].st = delivery[m].st
    BY <1>0, <1>3 DEF Elapse, TypeOK, Deliveries
  <2> QED  BY <1>0, <1>3, <2>1, LoopFrame DEF Elapse
<1>4. CASE (\E n \in Notes : Reject(n)) \/ (\E b \in Bindings : Rebind(b))
  BY <1>0, <1>4, LoopFrame DEF Reject, Rebind
<1>5. ASSUME NEW S \in SUBSET Notes, Lease(S) PROVE Loop'
  <2>1. /\ current = {} /\ UNCHANGED current /\ batch' = S /\ pc' = "batch"
        /\ \A n \in S : delivery'[n].st = "sending"
    BY <1>5 DEF Lease, LeaseSet, Loop
  <2> QED  BY <2>1 DEF Loop
<1>6. ASSUME NEW n \in Notes, NEW result \in Results, Send(n, result) PROVE Loop'
  <2>1. /\ n \in batch /\ batch' = batch \ {n} /\ pc' = "mark" /\ UNCHANGED delivery
        /\ current' = {[note |-> n, result |-> result]}
    BY <1>6 DEF Send
  <2> QED  BY <2>1 DEF Loop
<1>7. ASSUME NEW c \in current, Mark(c.note, c.result) PROVE Loop'
  <2>1. /\ pc = "mark" /\ current = {c} /\ delivery[c.note].st = "sending" /\ c.note \in Notes
    BY <1>0, <1>7 DEF Mark, Finish, Loop
  <2>2. pc' = "aggregate" /\ UNCHANGED <<batch, current>>
    BY <1>7, <2>1 DEF Mark, Finish
  <2>3. \A m \in Notes \ {c.note} : delivery'[m] = delivery[m]
    BY <1>0, <1>7, <2>1 DEF Mark, Finish, TypeOK
  <2> QED  BY <1>0, <2>1, <2>2, <2>3 DEF Loop
<1>8. ASSUME NEW c \in current, RecordFails(c.note, c.result) PROVE Loop'
  <2>1. c.note \in Notes /\ current = {c} /\ c.note \notin batch /\ UNCHANGED batch
    BY <1>0, <1>8 DEF RecordFails, Loop
  <2>2. \A m \in Notes \ {c.note} : delivery'[m] = delivery[m]
    BY <1>0, <1>8 DEF RecordFails, TypeOK
  <2>3. CASE pc' = "aggregate" /\ current' = {[note |-> c.note, result |-> "lost"]}
    BY <1>0, <2>1, <2>2, <2>3 DEF Loop
  <2>4. CASE pc' = "batch" /\ UNCHANGED <<delivery, current>>
    BY <1>0, <2>1, <2>4 DEF Loop
  <2> QED  BY <1>8, <2>3, <2>4 DEF RecordFails
<1>9. ASSUME NEW c \in current, Aggregate(c.note) PROVE Loop'
  BY <1>9 DEF Aggregate, Loop
<1>10. CASE EndBatch \/ CutShort
  BY <1>10 DEF EndBatch, CutShort, Loop
<1>11. CASE UNCHANGED vars
  BY <1>0, <1>11, LoopFrame DEF vars, loop
<1> QED
  BY <1>1, <1>2, <1>3, <1>4, <1>5, <1>6, <1>7, <1>8, <1>9, <1>10, <1>11 DEF Next, Dispatch

LEMMA LoopInvariant == Spec => [](SendInv /\ Loop)
<1>1. Init => SendInv /\ Loop
  BY InitSend, InitLoop
<1>2. SendInv /\ Loop /\ [Next]_vars => (SendInv /\ Loop)'
  BY StepSend, StepLoop
<1> QED  BY <1>1, <1>2, PTL DEF Spec

-----------------------------------------------------------------------------
(* Attempts.  They are counted at the lease and made at the send; a crash in   *)
(* between leaves a delivery that is SENDING in nobody's hands, and only such  *)
(* a one can be leased when its attempts are used up.                          *)

LossesOnly == Failures \subseteq {"lost", "unclear"}

OnHand(n) == IF n \in batch THEN 1 ELSE 0
InWork(n) == n \in batch \/ (pc = "mark" /\ \E c \in current : c.note = n)

Counted(n) ==
  LET a == delivery[n].attempts IN
  /\ tried[n] + OnHand(n) <= a /\ a <= tried[n] + OnHand(n) + crashes
  /\ a <= MaxAttempts + crashes
  /\ delivery[n].st = "queued" => a = 0
  /\ delivery[n].st = "retry_wait" => a < MaxAttempts
  /\ delivery[n].st = "sending" /\ ~ InWork(n) => a < MaxAttempts + crashes
  /\ delivery[n].st = "failed" => a >= MaxAttempts

Attempts  == \A n \in Notes : Counted(n)
CountInv  == SendInv /\ Loop /\ Attempts
Truthful  == \A c \in current : c.result \in {"ok", "lost", "unclear"}

LEMMA CountNumbers ==
  ASSUME TypeOK, NEW n \in Notes
  PROVE  /\ delivery[n].attempts \in 0 .. Cap /\ tried[n] \in 0 .. Cap /\ crashes \in Nat
         /\ crashes <= MaxCrashes /\ MaxCrashes \in Nat /\ MaxAttempts \in Nat \ {0}
         /\ Cap = MaxAttempts + MaxCrashes + 1 /\ OnHand(n) \in {0, 1}
  BY OutboxAssumption DEF TypeOK, Deliveries, Cap, OnHand

\* A delivery that a step has not to do with.
LEMMA CountedKept ==
  ASSUME TypeOK, TypeOK', NEW n \in Notes, Counted(n),
         delivery'[n].attempts = delivery[n].attempts, delivery'[n].st = delivery[n].st,
         tried'[n] = tried[n], crashes' >= crashes,
         n \in batch' <=> n \in batch, InWork(n) => InWork(n)'
  PROVE  Counted(n)'
<1>1. OnHand(n)' = OnHand(n)
  BY DEF OnHand
<1> QED  BY <1>1, CountNumbers DEF Counted, TypeOK

LEMMA VerdictCounted ==
  ASSUME TypeOK, NEW n \in Notes, NEW result \in {"ok", "lost", "unclear"}
  PROVE  /\ Verdict(n, result) \in {"delivered", "failed", "retry_wait"}
         /\ Verdict(n, result) = "failed" => delivery[n].attempts >= MaxAttempts
         /\ Verdict(n, result) = "retry_wait" => delivery[n].attempts < MaxAttempts
  BY CountNumbers DEF Verdict

\* A result is recorded, rightly or as a loss.
LEMMA MarkCounted ==
  ASSUME TypeOK, TypeOK', Loop, Attempts, NEW n \in Notes, pc = "mark",
         \E c \in current : current = {c} /\ c.note = n,
         NEW heard \in {"ok", "lost", "unclear"},
         delivery' = [delivery EXCEPT ![n].st = Verdict(n, heard), ![n].elapsed = FALSE],
         UNCHANGED <<batch, tried>>, crashes' >= crashes, pc' = "aggregate"
  PROVE  Attempts'
<1>1. /\ delivery'[n].attempts = delivery[n].attempts
      /\ delivery'[n].st = Verdict(n, heard)
      /\ \A m \in Notes \ {n} : delivery'[m] = delivery[m]
  BY DEF TypeOK, Deliveries
<1>2. Counted(n)'
  <2>1. Counted(n) /\ OnHand(n)' = OnHand(n)
    BY DEF Attempts, OnHand
  <2> QED  BY <1>1, <2>1, VerdictCounted, CountNumbers DEF Counted, TypeOK
<1>3. ASSUME NEW m \in Notes, m # n PROVE Counted(m)'
  <2>1. InWork(m) => InWork(m)'
    BY <1>3 DEF InWork
  <2> QED  BY <1>1, <1>3, <2>1, CountedKept DEF Attempts
<1> QED  BY <1>2, <1>3 DEF Attempts

LEMMA InitCount == Init => Attempts
  BY OutboxAssumption DEF Init, Attempts, Counted, OnHand, NoDelivery

LEMMA StepTruthful == ASSUME LossesOnly, Truthful, [Next]_vars PROVE Truthful'
<1>1. CASE current' \subseteq current
  BY <1>1 DEF Truthful
<1>2. ASSUME NEW n \in Notes, NEW result \in Results, Send(n, result) PROVE Truthful'
  BY <1>2 DEF Send, Truthful, LossesOnly, Results
<1>3. ASSUME NEW c \in current, RecordFails(c.note, c.result) PROVE Truthful'
  BY <1>3 DEF RecordFails, Truthful
<1> QED
  BY <1>1, <1>2, <1>3 DEF Next, Dispatch, Submit, Approve, Reject, Elapse, Rebind, Lease, LeaseSet,
     Mark, Finish, Aggregate, EndBatch, CutShort, loop, vars

LEMMA StepCount ==
  ASSUME LossesOnly, CountInv, Truthful, TypeOK', [Next]_vars PROVE Attempts'
<1>0. TypeOK /\ Held /\ Loop /\ Attempts
  BY DEF CountInv, SendInv
\* A command becomes a delivery.
<1>a. ASSUME NEW n \in Notes, row[n].status \in Unsent, UNCHANGED <<loop, tried, crashes>>,
             delivery' = delivery \/ delivery' = [delivery EXCEPT ![n] = NewDelivery]
      PROVE  Attempts'
  <2>1. ASSUME NEW m \in Notes, delivery'[m] = delivery[m] PROVE Counted(m)'
    <3>1. InWork(m)' <=> InWork(m)
      BY <1>a DEF InWork, loop
    <3> QED  BY <1>0, <1>a, <2>1, <3>1, CountedKept, CountNumbers DEF Attempts, loop
  <2>2. ASSUME delivery'[n] = NewDelivery PROVE Counted(n)'
    <3>1. tried[n] = 0 /\ n \notin batch
      BY <1>0, <1>a DEF Held, TypeOK, InHand
    <3> QED  BY <1>0, <1>a, <2>2, <3>1, CountNumbers DEF Counted, NewDelivery, OnHand, loop
  <2>3. \A m \in Notes : m # n => delivery'[m] = delivery[m]
    BY <1>0, <1>a DEF TypeOK
  <2>4. delivery'[n] = delivery[n] \/ delivery'[n] = NewDelivery
    BY <1>0, <1>a DEF TypeOK
  <2> QED  BY <2>1, <2>2, <2>3, <2>4 DEF Attempts
<1>1. ASSUME NEW n \in Notes, NEW p \in BOOLEAN, NEW w \in BOOLEAN, Submit(n, p, w)
      PROVE  Attempts'
  <2>1. delivery' = delivery \/ delivery' = [delivery EXCEPT ![n] = NewDelivery]
    <3>1. delivery = [delivery EXCEPT ![n] = @]
      BY <1>0 DEF TypeOK
    <3> QED  BY <1>1, <3>1 DEF Submit
  <2> QED  BY <1>1, <1>a, <2>1 DEF Submit, Unsent
<1>2. ASSUME NEW n \in Notes, Approve(n) PROVE Attempts'
  BY <1>2, <1>a DEF Approve, Unsent
<1>3. ASSUME UNCHANGED <<tried, loop>>, crashes' = crashes,
             \A n \in Notes : /\ delivery'[n].attempts = delivery[n].attempts
                              /\ delivery'[n].st = delivery[n].st
      PROVE  Attempts'
  <2>1. ASSUME NEW n \in Notes PROVE Counted(n)'
    <3>1. InWork(n)' <=> InWork(n)
      BY <1>3 DEF InWork, loop
    <3> QED  BY <1>0, <1>3, <3>1, CountedKept, CountNumbers DEF Attempts, loop
  <2> QED  BY <2>1 DEF Attempts
<1>4. ASSUME NEW n \in Notes, Elapse(n) PROVE Attempts'
  <2>1. \A m \in Notes : /\ delivery'[m].attempts = delivery[m].attempts
                         /\ delivery'[m].st = delivery[m].st
    BY <1>0, <1>4 DEF Elapse, TypeOK, Deliveries
  <2> QED  BY <1>3, <1>4, <2>1 DEF Elapse, history
<1>5. CASE (\E n \in Notes : Reject(n)) \/ (\E b \in Bindings : Rebind(b)) \/ UNCHANGED vars
  BY <1>3, <1>5 DEF Reject, Rebind, history, vars, loop
<1>6. ASSUME NEW S \in SUBSET Notes, Lease(S) PROVE Attempts'
  <2>1. /\ batch = {} /\ pc = "idle" /\ batch' = S /\ pc' = "batch" /\ UNCHANGED <<tried, crashes>>
    BY <1>0, <1>6 DEF Lease, LeaseSet, Loop, history
  <2>2. ASSUME NEW n \in S PROVE Counted(n)'
    <3>1. Counted(n) /\ OnHand(n) = 0 /\ ~ InWork(n) /\ OnHand(n)' = 1 /\ InWork(n)'
      BY <1>0, <2>1 DEF Attempts, OnHand, InWork
    <3>2. delivery[n].st \in {"queued", "retry_wait", "sending"}
      BY <1>6 DEF Lease, Ready
    <3>3. delivery[n].attempts < MaxAttempts + crashes
      BY <1>0, <3>1, <3>2, CountNumbers DEF Counted
    <3>4. delivery'[n].st = "sending" /\ delivery'[n].attempts = delivery[n].attempts + 1
      <4>1. AtMost(delivery[n].attempts + 1, Cap) = delivery[n].attempts + 1
        BY <1>0, <3>3, CountNumbers DEF AtMost
      <4> QED  BY <1>6, <4>1 DEF Lease, LeaseSet
    <3> QED  BY <1>0, <2>1, <3>1, <3>3, <3>4, CountNumbers DEF Counted
  <2>3. ASSUME NEW n \in Notes, n \notin S PROVE Counted(n)'
    <3>1. delivery'[n] = delivery[n]
      BY <1>6, <2>3 DEF Lease, LeaseSet
    <3>2. ~ InWork(n)
      BY <2>1 DEF InWork
    <3> QED  BY <1>0, <2>1, <2>3, <3>1, <3>2, CountedKept, CountNumbers DEF Attempts
  <2> QED  BY <2>2, <2>3 DEF Attempts
<1>7. ASSUME NEW n \in Notes, NEW result \in Results, Send(n, result) PROVE Attempts'
  <2>1. /\ pc = "batch" /\ n \in batch /\ batch' = batch \ {n} /\ pc' = "mark"
        /\ current' = {[note |-> n, result |-> result]} /\ UNCHANGED <<delivery, crashes>>
    BY <1>7 DEF Send
  <2>2. Counted(n)'
    <3>1. Counted(n) /\ OnHand(n) = 1 /\ OnHand(n)' = 0 /\ InWork(n)'
      BY <1>0, <2>1 DEF Attempts, OnHand, InWork
    <3>2. tried'[n] = tried[n] + 1
      <4>1. AtMost(tried[n] + 1, Cap) = tried[n] + 1
        BY <1>0, <3>1, CountNumbers DEF AtMost, Counted
      <4> QED  BY <1>0, <1>7, <4>1 DEF Send, TypeOK
    <3> QED  BY <1>0, <2>1, <3>1, <3>2, CountNumbers DEF Counted
  <2>3. ASSUME NEW m \in Notes, m # n PROVE Counted(m)'
    <3>1. tried'[m] = tried[m] /\ (InWork(m) => InWork(m)')
      BY <1>0, <1>7, <2>1, <2>3 DEF Send, TypeOK, InWork
    <3> QED  BY <1>0, <2>1, <2>3, <3>1, CountedKept, CountNumbers DEF Attempts
  <2> QED  BY <2>2, <2>3 DEF Attempts
<1>8. ASSUME NEW c \in current, Mark(c.note, c.result) PROVE Attempts'
  <2>1. c.note \in Notes /\ current = {c} /\ pc = "mark" /\ delivery[c.note].st = "sending"
    BY <1>0, <1>8, InHandNotes DEF Mark, Finish, Loop
  <2>2. c.result \in {"ok", "lost", "unclear"}
    BY DEF Truthful
  <2>3. /\ delivery' = [delivery EXCEPT ![c.note].st = Verdict(c.note, c.result),
                                       ![c.note].elapsed = FALSE]
        /\ pc' = "aggregate" /\ UNCHANGED <<batch, tried, crashes>>
    BY <1>8, <2>1 DEF Mark, Finish, history
  <2>4. crashes' >= crashes
    BY <1>0, <2>3 DEF TypeOK
  <2> QED  BY <1>0, <2>1, <2>2, <2>3, <2>4, MarkCounted
<1>9. ASSUME NEW c \in current, RecordFails(c.note, c.result) PROVE Attempts'
  <2>1. /\ c.note \in Notes /\ current = {c} /\ UNCHANGED <<batch, tried>> /\ crashes' >= crashes
    BY <1>0, <1>9, InHandNotes DEF RecordFails, Loop, history, TypeOK
  <2>2. CASE pc = "mark"
    <3>1. /\ delivery' = [delivery EXCEPT ![c.note].st = Verdict(c.note, "lost"),
                                         ![c.note].elapsed = FALSE]
          /\ pc' = "aggregate"
      BY <1>9, <2>2 DEF RecordFails
    <3> QED  BY <1>0, <2>1, <2>2, <3>1, MarkCounted
  <2>3. CASE pc = "aggregate" /\ pc' = "batch" /\ UNCHANGED <<delivery, current>>
    <3>1. ASSUME NEW n \in Notes PROVE Counted(n)'
      <4>1. InWork(n)' <=> InWork(n)
        BY <2>1, <2>3 DEF InWork
      <4> QED  BY <1>0, <2>1, <2>3, <4>1, CountedKept DEF Attempts
    <3> QED  BY <3>1 DEF Attempts
  <2> QED  BY <1>9, <2>2, <2>3 DEF RecordFails
<1>10. CASE (\E c \in current : Aggregate(c.note)) \/ EndBatch
  <2>1. /\ UNCHANGED <<delivery, batch, tried, crashes>> /\ pc # "mark"
    BY <1>10 DEF Aggregate, EndBatch, history
  <2>2. ASSUME NEW n \in Notes PROVE Counted(n)'
    <3>1. InWork(n) => InWork(n)'
      BY <2>1 DEF InWork
    <3> QED  BY <1>0, <2>1, <3>1, CountedKept, CountNumbers DEF Attempts
  <2> QED  BY <2>2 DEF Attempts
<1>11. CASE CutShort
  <2>1. batch' = {} /\ crashes' = crashes + 1 /\ UNCHANGED <<delivery, tried>>
    BY <1>11 DEF CutShort, history
  <2>2. ASSUME NEW n \in Notes PROVE Counted(n)'
    <3>1. Counted(n) /\ OnHand(n)' = 0
      BY <1>0, <2>1 DEF Attempts, OnHand
    <3> QED  BY <1>0, <2>1, <3>1, CountNumbers DEF Counted
  <2> QED  BY <2>2 DEF Attempts
<1> QED
  BY <1>1, <1>2, <1>4, <1>5, <1>6, <1>7, <1>8, <1>9, <1>10, <1>11 DEF Next, Dispatch

\* Without rate limits and permanent refusals a delivery is tried at most
\* max_attempts times and given up only after that many, give or take one for
\* each crash, for any batch, commands and crashes (AttemptsBounded).
THEOREM AttemptsKept ==
  ASSUME LossesOnly
  PROVE  Spec => []AttemptsBounded
<1>1. Init => CountInv /\ Truthful
  BY InitSend, InitLoop, InitCount DEF CountInv, Truthful, Init
<1>2. CountInv /\ Truthful /\ [Next]_vars => (CountInv /\ Truthful)'
  <2> SUFFICES ASSUME CountInv, Truthful, [Next]_vars PROVE (CountInv /\ Truthful)'
    OBVIOUS
  <2>1. SendInv' /\ Loop'
    BY StepSend, StepLoop DEF CountInv
  <2>2. Truthful'
    BY StepTruthful
  <2>3. Attempts'
    BY <2>1, StepCount DEF SendInv
  <2> QED  BY <2>1, <2>2, <2>3 DEF CountInv
<1>3. CountInv => AttemptsBounded
  <2> SUFFICES ASSUME CountInv, NEW n \in Notes
               PROVE  /\ tried[n] <= MaxAttempts + crashes
                      /\ delivery[n].st = "failed" => tried[n] + crashes >= MaxAttempts
    BY DEF AttemptsBounded
  <2>1. TypeOK /\ Counted(n) /\ Loop
    BY DEF CountInv, SendInv, Attempts
  <2>2. delivery[n].st = "failed" => OnHand(n) = 0
    BY <2>1 DEF Loop, OnHand
  <2> QED  BY <2>1, <2>2, CountNumbers DEF Counted
<1> QED  BY <1>1, <1>2, <1>3, PTL DEF Spec

-----------------------------------------------------------------------------
(* The outbox row.  It is written in a second transaction: what ended without  *)
(* a row that says so is what the loop is about to aggregate, or was left by   *)
(* one crash each.                                                             *)

End    == {"delivered", "failed"}
Untold == {n \in Notes : delivery[n].st \in End /\ row[n].status # delivery[n].st}
Open   == IF pc = "aggregate" THEN {c.note : c \in current} ELSE {}

Told == \A n \in Notes : row[n].status \in End => row[n].status = delivery[n].st

TellInv == /\ Told
           /\ IsFiniteSet(Untold \ Open) /\ Cardinality(Untold \ Open) <= crashes

LEMMA TellKept ==
  ASSUME TypeOK, TypeOK', TellInv, Told', Untold' \ Open' \subseteq Untold \ Open,
         crashes' >= crashes
  PROVE  TellInv'
<1>1. /\ IsFiniteSet(Untold' \ Open') /\ Cardinality(Untold' \ Open') <= Cardinality(Untold \ Open)
  BY FS_Subset DEF TellInv
<1>2. /\ Cardinality(Untold' \ Open') \in Nat /\ Cardinality(Untold \ Open) \in Nat
      /\ crashes \in Nat /\ crashes' \in Nat
  BY <1>1, FS_CardinalityType, OutboxAssumption DEF TellInv, TypeOK
<1> QED  BY <1>1, <1>2 DEF TellInv

\* What a crash leaves open is one row at most.
LEMMA TellCrash ==
  ASSUME TypeOK, Loop, TellInv, UNCHANGED <<row, delivery>>, pc' # "aggregate",
         crashes' = crashes + 1
  PROVE  TellInv'
<1>1. Untold' = Untold /\ Open' = {} /\ Told'
  BY DEF Untold, Open, Told, TellInv
<1>2. PICK x : Open \subseteq {x}
  <2>1. CASE pc = "aggregate"
    <3>1. PICK c \in current : current = {c}
      BY <2>1 DEF Loop
    <3> QED  BY <3>1 DEF Open
  <2> QED  BY <2>1 DEF Open
<1> DEFINE T == Untold \ Open
<1>3. /\ IsFiniteSet(T) /\ Cardinality(T) \in Nat /\ Cardinality(T) <= crashes /\ crashes \in Nat
  BY FS_CardinalityType, OutboxAssumption DEF TellInv, TypeOK
<1>4. IsFiniteSet(T \cup {x}) /\ Cardinality(T \cup {x}) <= Cardinality(T) + 1
  BY <1>3, FS_AddElement
<1>5. Untold \subseteq T \cup {x}
  BY <1>2
<1>6. IsFiniteSet(Untold) /\ Cardinality(Untold) <= Cardinality(T \cup {x})
  BY <1>4, <1>5, FS_Subset
<1>7. Cardinality(Untold) \in Nat /\ Cardinality(T \cup {x}) \in Nat
  BY <1>4, <1>6, FS_CardinalityType
<1>8. Untold' \ Open' = Untold
  BY <1>1
<1> QED  BY <1>1, <1>3, <1>4, <1>6, <1>7, <1>8 DEF TellInv

\* A delivery that was being sent ends or is put off.
LEMMA TellMarked ==
  ASSUME TypeOK, TypeOK', TellInv, NEW n \in Notes, delivery[n].st = "sending", pc = "mark",
         \A m \in Notes \ {n} : delivery'[m] = delivery[m], UNCHANGED row,
         n \in Open', crashes' >= crashes
  PROVE  TellInv'
<1>1. row[n].status \notin End
  BY DEF TellInv, Told, End
<1>2. Told'
  BY <1>1 DEF TellInv, Told
<1>3. Untold' \ Open' \subseteq Untold \ Open
  BY DEF Untold, Open
<1> QED  BY <1>2, <1>3, TellKept

LEMMA InitTell == Init => TellInv
<1> SUFFICES ASSUME Init PROVE TellInv
  OBVIOUS
<1>1. Untold \ Open = {} /\ Told /\ crashes = 0
  BY DEF Init, Untold, Told, End, NoDelivery
<1> QED  BY <1>1, FS_EmptySet DEF TellInv

LEMMA StepTell ==
  ASSUME SendInv, Loop, TellInv, TypeOK', [Next]_vars PROVE TellInv'
<1> DEFINE Alike(n)   == row'[n].status = row[n].status /\ delivery'[n].st = delivery[n].st
           Unended(n) == row'[n].status \notin End /\ delivery'[n].st \notin End
<1>0. TypeOK /\ Held
  BY DEF SendInv
\* Nothing that ended is touched, and no row begins to say that it did.
<1>a. ASSUME UNCHANGED <<loop, crashes>>,
             \A n \in Notes : Alike(n) \/ Unended(n)
      PROVE  TellInv'
  <2>1. Told' /\ Untold' \subseteq Untold /\ Open' = Open /\ crashes' >= crashes
    BY <1>0, <1>a DEF TellInv, Told, Untold, Open, loop, TypeOK
  <2> QED  BY <1>0, <2>1, TellKept
<1>1. ASSUME NEW n \in Notes, NEW p \in BOOLEAN, NEW w \in BOOLEAN, Submit(n, p, w) PROVE TellInv'
  <2>1. delivery[n].st = "absent" /\ UNCHANGED <<loop, crashes>>
    BY <1>0, <1>1 DEF Submit, Held, Unsent
  <2>2. \A m \in Notes \ {n} : delivery'[m] = delivery[m] /\ row'[m] = row[m]
    BY <1>0, <1>1 DEF Submit, TypeOK
  <2>3. row'[n].status \in {"duplicate", "rejected", "queued", "pending_approval"}
    <3>1. CASE Clash(n)
      BY <1>0, <1>1, <3>1 DEF Submit, TypeOK, Rows
    <3>2. CASE ~ Clash(n)
      BY <1>0, <1>1, <3>2, PolicyType DEF Submit, TypeOK
    <3> QED  BY <3>1, <3>2
  <2>4. delivery'[n].st \in {"absent", "queued"}
    <3>1. delivery'[n] = delivery[n] \/ delivery'[n] = NewDelivery
      BY <1>0, <1>1 DEF Submit, TypeOK
    <3> QED  BY <2>1, <3>1 DEF NewDelivery
  <2>5. \A m \in Notes : Alike(m) \/ Unended(m)
    BY <2>2, <2>3, <2>4 DEF End
  <2> QED  BY <1>a, <2>1, <2>5
<1>2. ASSUME NEW n \in Notes, Approve(n) PROVE TellInv'
  <2>1. \A m \in Notes \ {n} : delivery'[m] = delivery[m] /\ row'[m] = row[m]
    BY <1>0, <1>2 DEF Approve, TypeOK
  <2>2. row'[n].status = "queued" /\ delivery'[n].st = "queued"
    BY <1>0, <1>2 DEF Approve, TypeOK, Rows, NewDelivery
  <2> QED  BY <1>2, <1>a, <2>1, <2>2 DEF Approve, End
<1>3. ASSUME NEW n \in Notes, Reject(n) PROVE TellInv'
  <2>1. \A m \in Notes : row'[m].status = IF m = n THEN "rejected" ELSE row[m].status
    BY <1>0, <1>3 DEF Reject, TypeOK, Rows
  <2>2. delivery[n].st = "absent" /\ UNCHANGED <<delivery, loop, crashes>>
    BY <1>0, <1>3 DEF Reject, Held, Unsent
  <2> QED  BY <1>a, <2>1, <2>2 DEF End
<1>4. ASSUME NEW n \in Notes, Elapse(n) PROVE TellInv'
  <2>1. \A m \in Notes : delivery'[m].st = delivery[m].st
    BY <1>0, <1>4 DEF Elapse, TypeOK, Deliveries
  <2> QED  BY <1>4, <1>a, <2>1 DEF Elapse
<1>5. CASE (\E b \in Bindings : Rebind(b)) \/ UNCHANGED vars
  BY <1>5, <1>a DEF Rebind, vars, loop
<1>6. ASSUME NEW S \in SUBSET Notes, Lease(S) PROVE TellInv'
  <2>1. /\ pc = "idle" /\ pc' = "batch" /\ UNCHANGED <<row, crashes>>
    BY <1>6 DEF Lease, LeaseSet
  <2>2. \A n \in S : delivery[n].st \notin End /\ delivery'[n].st \notin End
    BY <1>6 DEF Lease, LeaseSet, Ready, End
  <2>3. \A n \in Notes \ S : delivery'[n] = delivery[n]
    BY <1>6 DEF Lease, LeaseSet
  <2>4. Told' /\ Untold' \ Open' \subseteq Untold \ Open /\ crashes' >= crashes
    BY <1>0, <2>1, <2>2, <2>3 DEF TellInv, Told, Untold, Open, TypeOK
  <2> QED  BY <1>0, <2>4, TellKept
<1>7. CASE (\E n \in Notes, result \in Results : Send(n, result)) \/ EndBatch
  <2>1. /\ pc = "batch" /\ pc' \in {"mark", "idle"} /\ UNCHANGED <<row, delivery, crashes>>
    BY <1>7 DEF Send, EndBatch, history
  <2>2. Told' /\ Untold' \ Open' \subseteq Untold \ Open /\ crashes' >= crashes
    BY <1>0, <2>1 DEF TellInv, Told, Untold, Open, TypeOK
  <2> QED  BY <1>0, <2>2, TellKept
<1>8. ASSUME NEW c \in current, Mark(c.note, c.result) PROVE TellInv'
  <2>1. /\ c.note \in Notes /\ delivery[c.note].st = "sending" /\ pc = "mark" /\ UNCHANGED row
        /\ \A m \in Notes \ {c.note} : delivery'[m] = delivery[m]
    BY <1>0, <1>8, InHandNotes DEF Mark, Finish, Loop, TypeOK
  <2>2. pc' = "aggregate" /\ current' = current /\ crashes' >= crashes
    BY <1>0, <1>8, <2>1 DEF Mark, Finish, TypeOK
  <2> QED  BY <1>0, <2>1, <2>2, TellMarked DEF Open
<1>9. ASSUME NEW c \in current, RecordFails(c.note, c.result) PROVE TellInv'
  <2>1. c.note \in Notes /\ crashes' = crashes + 1 /\ crashes' >= crashes /\ UNCHANGED row
    BY <1>0, <1>9, InHandNotes DEF RecordFails, TypeOK
  <2>2. CASE pc = "mark"
    <3>1. /\ delivery[c.note].st = "sending" /\ pc' = "aggregate"
          /\ current' = {[note |-> c.note, result |-> "lost"]}
          /\ \A m \in Notes \ {c.note} : delivery'[m] = delivery[m]
      BY <1>0, <1>9, <2>2 DEF RecordFails, Loop, TypeOK
    <3>2. c.note \in Open'
      BY <3>1 DEF Open
    <3> QED  BY <1>0, <2>1, <2>2, <3>1, <3>2, TellMarked
  <2>3. CASE pc' = "batch" /\ UNCHANGED delivery
    BY <1>0, <2>1, <2>3, TellCrash
  <2> QED  BY <1>9, <2>2, <2>3 DEF RecordFails
<1>10. CASE CutShort
  BY <1>0, <1>10, TellCrash DEF CutShort
<1>11. ASSUME NEW c \in current, Aggregate(c.note) PROVE TellInv'
  <2>1. /\ pc = "aggregate" /\ pc' = "batch" /\ UNCHANGED <<delivery, crashes>>
        /\ current = {c} /\ c.note \in Notes
    BY <1>0, <1>11, InHandNotes DEF Aggregate, Loop, history
  <2>2. \A n \in Notes \ {c.note} : row'[n] = row[n]
    BY <1>0, <1>11 DEF Aggregate, TypeOK
  <2>3. /\ delivery[c.note].st \in End => row'[c.note].status = delivery[c.note].st
        /\ delivery[c.note].st \notin End => row'[c.note].status \notin End
    BY <1>0, <1>11, <2>1 DEF Aggregate, TypeOK, Rows, End
  <2>4. Told' /\ Untold' \ Open' \subseteq Untold \ Open /\ crashes' >= crashes
    BY <1>0, <2>1, <2>2, <2>3 DEF TellInv, Told, Untold, Open, TypeOK
  <2> QED  BY <1>0, <2>4, TellKept
<1> QED
  BY <1>1, <1>2, <1>3, <1>4, <1>5, <1>6, <1>7, <1>8, <1>9, <1>10, <1>11 DEF Next, Dispatch

\* Between two deliveries the outbox rows tell how each delivery ended, but for
\* one per crash or failed second commit (RowTellsEnd), for any batches, commands
\* and results: mark_success, mark_permanent_failure and _aggregate together.
THEOREM RowsTell == Spec => []RowTellsEnd
<1>1. Init => SendInv /\ Loop /\ TellInv
  BY InitSend, InitLoop, InitTell
<1>2. SendInv /\ Loop /\ TellInv /\ [Next]_vars => (SendInv /\ Loop /\ TellInv)'
  <2> SUFFICES ASSUME SendInv, Loop, TellInv, [Next]_vars PROVE (SendInv /\ Loop /\ TellInv)'
    OBVIOUS
  <2>1. SendInv' /\ Loop'
    BY StepSend, StepLoop
  <2>2. TellInv'
    BY <2>1, StepTell DEF SendInv
  <2> QED  BY <2>1, <2>2
<1>3. TellInv => RowTellsEnd
  <2> SUFFICES ASSUME TellInv, pc \in {"idle", "batch"}
               PROVE  Cardinality({n \in Notes : \E s \in {"delivered", "failed"} :
                                     ~ (delivery[n].st = s <=> row[n].status = s)}) <= crashes
    BY DEF RowTellsEnd
  <2>1. {n \in Notes : \E s \in {"delivered", "failed"} :
           ~ (delivery[n].st = s <=> row[n].status = s)} = Untold
    BY DEF Untold, TellInv, Told, End
  <2>2. Untold \ Open = Untold
    BY DEF Open
  <2> QED  BY <2>1, <2>2 DEF TellInv
<1> QED  BY <1>1, <1>2, <1>3, PTL DEF Spec

-----------------------------------------------------------------------------
(* Messages sent again.  A message the channel took is sent again only if its  *)
(* delivery is still open, and what is open with no record under way was left  *)
(* by a crash: <<n, 1>> stands for that crash until the second copy is sent.   *)

AnswersKept == "unclear" \notin Failures

Again(n) ==
  /\ accepted[n] > 0
  /\ delivery[n].st \in {"queued", "retry_wait", "sending"}
  /\ ~ (pc = "mark" /\ \E c \in current : c.note = n /\ c.result = "ok")

Copies == {copy \in Notes \X (1 .. Cap) :
             /\ copy[2] <= accepted[copy[1]]
             /\ copy[2] > 1 \/ Again(copy[1])}

CopyInv == /\ \A n \in Notes : accepted[n] > 0 => delivery[n].st # "absent"
           /\ IsFiniteSet(Copies) /\ Cardinality(Copies) <= crashes

LEMMA CopyPair ==
  ASSUME NEW n \in Notes, NEW k \in 1 .. Cap
  PROVE  <<n, k>> \in Copies <=> k <= accepted[n] /\ (k > 1 \/ Again(n))
BY DEF Copies

\* Copies are counted: with no more of them, with one for another, and with one
\* more for a crash.
LEMMA CopiesFewer ==
  ASSUME TypeOK, TypeOK', CopyInv, Copies' \subseteq Copies, crashes' >= crashes,
         \A n \in Notes : accepted'[n] > 0 => delivery'[n].st # "absent"
  PROVE  CopyInv'
<1>1. IsFiniteSet(Copies') /\ Cardinality(Copies') <= Cardinality(Copies)
  BY FS_Subset DEF CopyInv
<1>2. /\ Cardinality(Copies') \in Nat /\ Cardinality(Copies) \in Nat
      /\ crashes \in Nat /\ crashes' \in Nat
  BY <1>1, FS_CardinalityType, OutboxAssumption DEF CopyInv, TypeOK
<1> QED  BY <1>1, <1>2 DEF CopyInv

LEMMA CopiesSwap ==
  ASSUME TypeOK, CopyInv, NEW x \in Copies, NEW y, Copies' \subseteq (Copies \ {x}) \cup {y},
         crashes' = crashes,
         \A n \in Notes : accepted'[n] > 0 => delivery'[n].st # "absent"
  PROVE  CopyInv'
<1> DEFINE Rest == Copies \ {x}
           More == Rest \cup {y}
<1>1. IsFiniteSet(Rest) /\ Cardinality(Rest) = Cardinality(Copies) - 1
  BY FS_RemoveElement DEF CopyInv
<1>2. IsFiniteSet(More) /\ Cardinality(More) <= Cardinality(Rest) + 1
  <2>1. Cardinality(Rest) \in Nat
    BY <1>1, FS_CardinalityType
  <2> QED  BY <1>1, <2>1, FS_AddElement
<1>3. IsFiniteSet(Copies') /\ Cardinality(Copies') <= Cardinality(More)
  BY <1>2, FS_Subset
<1>4. /\ Cardinality(Copies') \in Nat /\ Cardinality(Copies) \in Nat /\ crashes \in Nat
      /\ Cardinality(Rest) \in Nat /\ Cardinality(More) \in Nat
  BY <1>1, <1>2, <1>3, FS_CardinalityType, OutboxAssumption DEF CopyInv, TypeOK
<1> QED  BY <1>1, <1>2, <1>3, <1>4 DEF CopyInv

LEMMA CopiesCrash ==
  ASSUME TypeOK, CopyInv, NEW y, Copies' \subseteq Copies \cup {y}, crashes' = crashes + 1,
         \A n \in Notes : accepted'[n] > 0 => delivery'[n].st # "absent"
  PROVE  CopyInv'
<1> DEFINE More == Copies \cup {y}
<1>0. IsFiniteSet(Copies)
  BY DEF CopyInv
<1>1. Cardinality(Copies) \in Nat /\ Cardinality(Copies) <= crashes /\ crashes \in Nat
  BY FS_CardinalityType, OutboxAssumption DEF CopyInv, TypeOK
<1>2. IsFiniteSet(More) /\ Cardinality(More) <= Cardinality(Copies) + 1
  <2>1. /\ IsFiniteSet(More)
        /\ Cardinality(More) = IF y \in Copies THEN Cardinality(Copies) ELSE Cardinality(Copies) + 1
    BY <1>0, FS_AddElement
  <2> QED  BY <1>1, <2>1
<1>3. IsFiniteSet(Copies') /\ Cardinality(Copies') <= Cardinality(More)
  BY <1>2, FS_Subset
<1>4. Cardinality(Copies') \in Nat /\ Cardinality(More) \in Nat
  BY <1>2, <1>3, FS_CardinalityType
<1>5. Cardinality(Copies') <= crashes'
  BY <1>1, <1>2, <1>3, <1>4
<1> QED  BY <1>3, <1>5 DEF CopyInv

\* Steps that take no message and open no delivery of a message taken.
LEMMA CopiesKept ==
  ASSUME TypeOK, TypeOK', CopyInv, UNCHANGED accepted, crashes' >= crashes,
         \A n \in Notes : accepted[n] > 0 => delivery'[n].st # "absent",
         \A n \in Notes : accepted[n] > 0 /\ Again(n)' => Again(n)
  PROVE  CopyInv'
<1>1. ASSUME NEW m \in Notes, NEW j \in 1 .. Cap, (<<m, j>> \in Copies)'
      PROVE  <<m, j>> \in Copies
  <2>1. j <= accepted[m] /\ (j > 1 \/ Again(m)')
    BY <1>1 DEF Copies
  <2>2. accepted[m] > 0 /\ (Again(m)' => Again(m))
    BY <2>1 DEF TypeOK
  <2> QED  BY <2>1, <2>2 DEF Copies
<1>2. Copies' \subseteq Copies
  BY <1>1 DEF Copies
<1> QED  BY <1>2, CopiesFewer

\* What one command's send, or the end of its record, can open.
LEMMA CopiesBut ==
  ASSUME TypeOK, NEW n \in Notes,
         \A m \in Notes \ {n} : accepted'[m] = accepted[m] /\ (Again(m)' => Again(m)),
         NEW k \in 1 .. Cap,
         \A j \in 1 .. Cap : (<<n, j>> \in Copies)' => <<n, j>> \in Copies \/ j = k
  PROVE  Copies' \subseteq Copies \cup {<<n, k>>}
<1> SUFFICES ASSUME NEW m \in Notes, NEW j \in 1 .. Cap, (<<m, j>> \in Copies)'
             PROVE  <<m, j>> \in Copies \cup {<<n, k>>}
  BY DEF Copies
<1>1. CASE m = n
  BY <1>1
<1>2. CASE m # n
  BY <1>2 DEF Copies
<1> QED  BY <1>1, <1>2

LEMMA InitCopies == Init => CopyInv
<1> SUFFICES ASSUME Init PROVE CopyInv
  OBVIOUS
<1>1. \A n \in Notes : accepted[n] = 0
  BY DEF Init
<1>2. Copies = {}
  BY <1>1, CapType DEF Copies
<1>3. crashes = 0
  BY DEF Init
<1> QED  BY <1>1, <1>2, <1>3, FS_EmptySet DEF CopyInv

LEMMA SendCopies ==
  ASSUME AnswersKept, TypeOK, TypeOK', Loop, CopyInv,
         NEW n \in Notes, NEW result \in Results, Send(n, result)
  PROVE  CopyInv'
<1>1. /\ pc = "batch" /\ pc' = "mark" /\ n \in batch /\ delivery[n].st = "sending"
      /\ current' = {[note |-> n, result |-> result]} /\ UNCHANGED <<delivery, crashes>>
      /\ crashes \in Nat
  BY OutboxAssumption DEF Send, Loop, TypeOK
<1>2. \A m \in Notes : accepted[m] \in 0 .. Cap /\ Cap \in Nat \ {0}
  BY CapType DEF TypeOK
<1>3. CASE result # "ok"
  <2>1. UNCHANGED accepted
    BY <1>3 DEF Send, AnswersKept, Results
  <2>2. \A m \in Notes : Again(m)' => Again(m)
    BY <1>1, <2>1 DEF Again
  <2> QED  BY <1>1, <2>1, <2>2, CopiesKept DEF CopyInv
<1>4. CASE result = "ok"
  <2>1. accepted' = [accepted EXCEPT ![n] = AtMost(accepted[n] + 1, Cap)]
    BY <1>4 DEF Send
  <2>2. /\ \A m \in Notes \ {n} : accepted'[m] = accepted[m] /\ (Again(m)' => Again(m))
        /\ ~ Again(n)' /\ (accepted[n] > 0 => Again(n))
    BY <1>1, <1>4, <2>1 DEF Again, TypeOK
  <2>3. /\ accepted'[n] = (IF accepted[n] + 1 > Cap THEN Cap ELSE accepted[n] + 1)
        /\ \A m \in Notes : accepted'[m] > 0 => delivery'[m].st # "absent"
    <3>1. accepted'[n] = (IF accepted[n] + 1 > Cap THEN Cap ELSE accepted[n] + 1)
      BY <2>1 DEF AtMost, TypeOK
    <3> QED  BY <1>1, <2>2, <3>1 DEF CopyInv
  <2>4. CASE accepted[n] = 0
    <3>1. \A j \in 1 .. Cap : ~ (<<n, j>> \in Copies)'
      <4>1. ~ (accepted'[n] > 1)
        BY <1>2, <2>3, <2>4
      <4> QED  BY <2>2, <4>1, <1>2 DEF Copies, TypeOK
    <3>2. Copies' \subseteq Copies
      BY <2>2, <3>1 DEF Copies
    <3> QED  BY <1>1, <2>3, <3>2, CopiesFewer
  <2>5. CASE accepted[n] > 0
    <3>1. PICK k \in 1 .. Cap : k = accepted'[n]
      BY <1>2, <2>3, <2>5
    <3>2. <<n, 1>> \in Copies
      BY <1>2, <2>2, <2>5 DEF Copies
    <3>3. \A j \in 1 .. Cap : (<<n, j>> \in Copies)' => (<<n, j>> \in Copies /\ j # 1) \/ j = k
      <4> SUFFICES ASSUME NEW j \in 1 .. Cap, (<<n, j>> \in Copies)', j # k
                   PROVE  <<n, j>> \in Copies /\ j # 1
        OBVIOUS
      <4>1. j <= accepted'[n] /\ j > 1
        BY <2>2 DEF Copies
      <4>2. j <= accepted[n]
        BY <1>2, <2>3, <3>1, <4>1
      <4> QED  BY <4>1, <4>2 DEF Copies
    <3>4. Copies' \subseteq Copies \cup {<<n, k>>}
      BY <2>2, <3>3, CopiesBut
    <3>5. <<n, 1>> \notin Copies' \/ <<n, 1>> = <<n, k>>
      BY <1>2, <3>3
    <3>6. Copies' \subseteq (Copies \ {<<n, 1>>}) \cup {<<n, k>>}
      BY <3>4, <3>5
    <3> QED  BY <1>1, <2>3, <3>2, <3>6, CopiesSwap
  <2> QED  BY <1>2, <2>4, <2>5
<1> QED  BY <1>3, <1>4

LEMMA StepCopies ==
  ASSUME AnswersKept, SendInv, Loop, CopyInv, TypeOK', [Next]_vars PROVE CopyInv'
<1>0. TypeOK /\ Held /\ crashes \in Nat /\ \A n \in Notes : accepted[n] > 0 => delivery[n].st # "absent"
  BY OutboxAssumption DEF SendInv, CopyInv, TypeOK
\* A command with no delivery gets one: the channel has taken nothing of it.
<1>a. ASSUME NEW n \in Notes, delivery[n].st = "absent", UNCHANGED <<loop, accepted, crashes>>,
             \A m \in Notes \ {n} : delivery'[m] = delivery[m]
      PROVE  CopyInv'
  <2>1. ~ (accepted[n] > 0) /\ crashes' >= crashes
    BY <1>0, <1>a
  <2>2. \A m \in Notes : accepted[m] > 0 => delivery'[m].st # "absent"
    BY <1>0, <1>a, <2>1
  <2>3. \A m \in Notes : accepted[m] > 0 /\ Again(m)' => Again(m)
    BY <1>a, <2>1 DEF Again, loop
  <2> QED  BY <1>0, <1>a, <2>1, <2>2, <2>3, CopiesKept
<1>1. ASSUME NEW n \in Notes, NEW p \in BOOLEAN, NEW w \in BOOLEAN, Submit(n, p, w) PROVE CopyInv'
  <2>1. delivery[n].st = "absent" /\ UNCHANGED <<loop, accepted, crashes>>
    BY <1>0, <1>1 DEF Submit, Held, Unsent
  <2>2. \A m \in Notes \ {n} : delivery'[m] = delivery[m]
    BY <1>0, <1>1 DEF Submit, TypeOK
  <2> QED  BY <1>a, <2>1, <2>2
<1>2. ASSUME NEW n \in Notes, Approve(n) PROVE CopyInv'
  <2>1. delivery[n].st = "absent" /\ UNCHANGED <<loop, accepted, crashes>>
    BY <1>0, <1>2 DEF Approve, Held, Unsent
  <2>2. \A m \in Notes \ {n} : delivery'[m] = delivery[m]
    BY <1>0, <1>2 DEF Approve, TypeOK
  <2> QED  BY <1>a, <2>1, <2>2
<1>3. CASE \/ \E n \in Notes : Reject(n) \/ Elapse(n)
           \/ \E b \in Bindings : Rebind(b)
           \/ UNCHANGED vars
  <2>1. UNCHANGED <<loop, accepted, crashes>>
    BY <1>3 DEF Reject, Elapse, Rebind, vars, history, loop
  <2>2. \A m \in Notes : delivery'[m].st = delivery[m].st
    <3>1. CASE UNCHANGED delivery
      BY <3>1
    <3>2. ASSUME NEW n \in Notes, Elapse(n)
          PROVE  \A m \in Notes : delivery'[m].st = delivery[m].st
      BY <1>0, <3>2 DEF Elapse, TypeOK, Deliveries
    <3> QED  BY <1>3, <3>1, <3>2 DEF Reject, Rebind, vars
  <2>3. \A m \in Notes : Again(m)' => Again(m)
    BY <2>1, <2>2 DEF Again, loop
  <2> QED  BY <1>0, <2>1, <2>2, <2>3, CopiesKept
<1>4. ASSUME NEW S \in SUBSET Notes, Lease(S) PROVE CopyInv'
  <2>1. /\ pc = "idle" /\ pc' = "batch" /\ UNCHANGED <<accepted, crashes>>
        /\ \A m \in S : delivery[m].st \in {"queued", "retry_wait", "sending"}
        /\ \A m \in S : delivery'[m].st = "sending"
        /\ \A m \in Notes \ S : delivery'[m] = delivery[m]
    BY <1>4 DEF Lease, LeaseSet, Ready, history
  <2>2. /\ \A m \in Notes : Again(m)' => Again(m)
        /\ \A m \in Notes : accepted[m] > 0 => delivery'[m].st # "absent"
    BY <1>0, <2>1 DEF Again
  <2> QED  BY <1>0, <2>1, <2>2, CopiesKept
<1>5. ASSUME NEW c \in current, Mark(c.note, c.result) PROVE CopyInv'
  <2>1. /\ c.note \in Notes /\ delivery[c.note].st = "sending" /\ pc = "mark" /\ current = {c}
        /\ \A m \in Notes \ {c.note} : delivery'[m] = delivery[m]
        /\ UNCHANGED <<accepted, crashes>>
    BY <1>0, <1>5, InHandNotes DEF Mark, Finish, Loop, TypeOK, history
  <2>2. pc' = "aggregate" /\ delivery'[c.note].st = Verdict(c.note, c.result)
    BY <1>0, <1>5, <2>1 DEF Mark, Finish, TypeOK, Deliveries
  <2>3. /\ Verdict(c.note, c.result) # "absent"
        /\ c.result = "ok" => Verdict(c.note, c.result) = "delivered"
    BY VerdictType DEF Verdict
  <2>4. \A m \in Notes : Again(m)' => Again(m)
    BY <2>1, <2>2, <2>3 DEF Again
  <2> QED  BY <1>0, <2>1, <2>2, <2>3, <2>4, CopiesKept
<1>6. ASSUME NEW c \in current, RecordFails(c.note, c.result) PROVE CopyInv'
  <2>1. /\ c.note \in Notes /\ crashes' = crashes + 1 /\ crashes' >= crashes
        /\ current = {c} /\ UNCHANGED accepted
    BY <1>0, <1>6, InHandNotes DEF RecordFails, Loop, TypeOK, history
  <2>2. CASE pc = "mark"
    <3>1. /\ pc' = "aggregate" /\ \A m \in Notes \ {c.note} : delivery'[m] = delivery[m]
          /\ delivery'[c.note].st = Verdict(c.note, "lost")
      BY <1>0, <1>6, <2>2 DEF RecordFails, TypeOK, Deliveries
    <3>2. \A m \in Notes : accepted'[m] > 0 => delivery'[m].st # "absent"
      BY <1>0, <2>1, <3>1, VerdictType
    <3>3. \A m \in Notes \ {c.note} : accepted'[m] = accepted[m] /\ (Again(m)' => Again(m))
      BY <2>1, <2>2, <3>1 DEF Again
    <3>4. \A j \in 1 .. Cap : (<<c.note, j>> \in Copies)' => <<c.note, j>> \in Copies \/ j = 1
      BY <2>1 DEF Copies
    <3>5. PICK one \in 1 .. Cap : one = 1
      BY CapType
    <3>6. Copies' \subseteq Copies \cup {<<c.note, one>>}
      BY <1>0, <2>1, <3>3, <3>4, <3>5, CopiesBut
    <3> QED  BY <1>0, <2>1, <3>2, <3>6, CopiesCrash
  <2>3. CASE pc = "aggregate" /\ pc' = "batch" /\ UNCHANGED <<delivery, current>>
    <3>1. \A m \in Notes : Again(m)' => Again(m)
      BY <2>1, <2>3 DEF Again
    <3> QED  BY <1>0, <2>1, <2>3, <3>1, CopiesKept
  <2> QED  BY <1>6, <2>2, <2>3 DEF RecordFails
<1>7. ASSUME CutShort PROVE CopyInv'
  <2>1. /\ pc' = "idle" /\ crashes' = crashes + 1 /\ crashes' >= crashes
        /\ UNCHANGED <<delivery, accepted>>
    BY <1>0, <1>7 DEF CutShort, history
  <2>2. CASE pc # "mark"
    <3>1. \A m \in Notes : Again(m)' => Again(m)
      BY <2>1, <2>2 DEF Again
    <3> QED  BY <1>0, <2>1, <3>1, CopiesKept
  <2>3. CASE pc = "mark"
    <3>1. PICK c \in current : current = {c}
      BY <2>3 DEF Loop
    <3>2. c.note \in Notes
      BY <1>0, InHandNotes
    <3>3. \A m \in Notes \ {c.note} : accepted'[m] = accepted[m] /\ (Again(m)' => Again(m))
      BY <2>1, <3>1 DEF Again
    <3>4. \A j \in 1 .. Cap : (<<c.note, j>> \in Copies)' => <<c.note, j>> \in Copies \/ j = 1
      BY <2>1, <3>2 DEF Copies
    <3>5. PICK one \in 1 .. Cap : one = 1
      BY CapType
    <3>6. Copies' \subseteq Copies \cup {<<c.note, one>>}
      BY <1>0, <3>2, <3>3, <3>4, <3>5, CopiesBut
    <3> QED  BY <1>0, <2>1, <3>6, CopiesCrash
  <2> QED  BY <2>2, <2>3
<1>8. CASE EndBatch \/ \E c \in current : Aggregate(c.note)
  <2>1. /\ pc # "mark" /\ pc' # "mark" /\ UNCHANGED <<delivery, accepted, crashes>>
    BY <1>8 DEF EndBatch, Aggregate, history
  <2>2. \A m \in Notes : Again(m)' => Again(m)
    BY <2>1 DEF Again
  <2> QED  BY <1>0, <2>1, <2>2, CopiesKept
<1> QED
  BY <1>0, <1>1, <1>2, <1>3, <1>4, <1>5, <1>6, <1>7, <1>8, SendCopies DEF Next, Dispatch

\* Over a channel whose answers are not lost the messages taken a second time are
\* at most as many as the crashes and failing commits (ResendsCostACrash), for
\* any batches, leases and retries: lease_deliveries, dispatch_once and _finish.
THEOREM ResendsCounted ==
  ASSUME AnswersKept
  PROVE  Spec => []ResendsCostACrash
<1>1. Init => SendInv /\ Loop /\ CopyInv
  BY InitSend, InitLoop, InitCopies
<1>2. SendInv /\ Loop /\ CopyInv /\ [Next]_vars => (SendInv /\ Loop /\ CopyInv)'
  <2> SUFFICES ASSUME SendInv, Loop, CopyInv, [Next]_vars
               PROVE  (SendInv /\ Loop /\ CopyInv)'
    OBVIOUS
  <2>1. SendInv' /\ Loop'
    BY StepSend, StepLoop
  <2>2. CopyInv'
    BY <2>1, StepCopies DEF SendInv
  <2> QED  BY <2>1, <2>2
<1>3. SendInv /\ CopyInv => ResendsCostACrash
  <2> SUFFICES ASSUME TypeOK, CopyInv PROVE Cardinality(Resent) <= crashes
    BY DEF SendInv, ResendsCostACrash
  <2>1. Resent \subseteq Copies
    BY CapType DEF Resent, Copies
  <2>2. IsFiniteSet(Resent) /\ Cardinality(Resent) <= Cardinality(Copies)
    BY <2>1, FS_Subset DEF CopyInv
  <2>3. Cardinality(Resent) \in Nat /\ Cardinality(Copies) \in Nat /\ crashes \in Nat
    BY <2>2, FS_CardinalityType, OutboxAssumption DEF CopyInv, TypeOK
  <2> QED  BY <2>2, <2>3 DEF CopyInv
<1> QED  BY <1>1, <1>2, <1>3, PTL DEF Spec

-----------------------------------------------------------------------------
(* The contract.  Each step moves one command at most, and a step that opens   *)
(* one or holds it for approval finds no other with its key: the rows that the *)
(* unique key lets be are those of commands without a recipient.               *)

Sent == pc = "mark" => \A c \in current : tried[c.note] > 0

KeepsStep == [Contract!Next]_<<[n \in Notes |-> Phase(n)], {n \in Notes : tried[n] > 0}>>

First(n) ==
  \A m \in Notes : m # n /\ KeyOf[m] = KeyOf[n] => Phase(m) \in {"new", "refused"}

LEMMA PhaseKept ==
  ASSUME UNCHANGED tried, \A n \in Notes : Phase(n)' = Phase(n)
  PROVE  KeepsStep
BY DEF KeepsStep

LEMMA PhaseSent ==
  ASSUME NEW n \in Notes, Phase(n) = "open", \A m \in Notes : Phase(m)' = Phase(m),
         tried'[n] > 0, \A m \in Notes \ {n} : tried'[m] = tried[m]
  PROVE  KeepsStep
BY DEF KeepsStep, Contract!Next, Contract!Send

LEMMA PhaseMoves ==
  ASSUME NEW n \in Notes, UNCHANGED tried, \A m \in Notes \ {n} : Phase(m)' = Phase(m),
         \/ Phase(n)' = "waiting" /\ Phase(n) = "new" /\ First(n)
         \/ Phase(n)' = "open" /\ Phase(n) \in {"new", "waiting"} /\ First(n)
         \/ Phase(n)' = "refused" /\ Phase(n) \in {"new", "waiting"}
         \/ Phase(n)' = "ended" /\ Phase(n) = "open" /\ tried[n] > 0
  PROVE  KeepsStep
<1>1. CASE Phase(n)' = "waiting" /\ Phase(n) = "new" /\ First(n)
  BY <1>1 DEF KeepsStep, First, Contract!Next, Contract!Hold, Contract!First, Contract!Move
<1>2. CASE Phase(n)' = "open" /\ Phase(n) \in {"new", "waiting"} /\ First(n)
  BY <1>2 DEF KeepsStep, First, Contract!Next, Contract!Open, Contract!First, Contract!Move
<1>3. CASE Phase(n)' = "refused" /\ Phase(n) \in {"new", "waiting"}
  BY <1>3 DEF KeepsStep, Contract!Next, Contract!Refuse, Contract!Move
<1>4. CASE Phase(n)' = "ended" /\ Phase(n) = "open" /\ tried[n] > 0
  BY <1>4 DEF KeepsStep, Contract!Next, Contract!End, Contract!Move
<1> QED  BY <1>1, <1>2, <1>3, <1>4

\* The unique key, as the contract sees it.
LEMMA BoundIsFirst ==
  ASSUME TypeOK, Held, NEW n \in Notes,
         \A m \in Notes : m # n /\ KeyOf[m] = KeyOf[n] => ~ Stored(m) \/ ~ row[m].bound,
         \A m \in Notes : ~ row[m].bound => row[m].status \in {"new", "duplicate", "rejected"}
  PROVE  First(n)
<1> SUFFICES ASSUME NEW m \in Notes, m # n, KeyOf[m] = KeyOf[n]
             PROVE  Phase(m) \in {"new", "refused"}
  BY DEF First
<1>1. row[m].status \in {"new", "duplicate", "rejected"}
  BY DEF Stored
<1>2. delivery[m].st = "absent"
  BY <1>1 DEF Held, Unsent
<1> QED  BY <1>1, <1>2 DEF Phase

LEMMA SubmitKeeps ==
  ASSUME SendInv, TypeOK', NEW n \in Notes, NEW p \in BOOLEAN, NEW w \in BOOLEAN, Submit(n, p, w)
  PROVE  KeepsStep
<1>0. TypeOK /\ Held /\ Scoped
  BY DEF SendInv
<1>1. /\ row[n].status = "new" /\ delivery[n].st = "absent" /\ Phase(n) = "new"
      /\ UNCHANGED tried
  BY <1>0 DEF Submit, Held, Unsent, Phase
<1>2. \A m \in Notes \ {n} : Phase(m)' = Phase(m)
  BY <1>0 DEF Submit, TypeOK, Phase
<1>3. CASE Clash(n)
  <2>1. Phase(n)' = "refused"
    BY <1>0, <1>1, <1>3 DEF Submit, Phase, TypeOK, Rows
  <2> QED  BY <1>1, <1>2, <2>1, PhaseMoves
<1>4. CASE ~ Clash(n)
  <2>1. /\ row'[n].status = Policy(p, w) /\ Policy(p, w) \in {"rejected", "queued", "pending_approval"}
        /\ delivery'[n] = IF Policy(p, w) = "queued" THEN NewDelivery ELSE delivery[n]
    BY <1>0, <1>4, PolicyType DEF Submit, TypeOK
  <2>2. CASE Policy(p, w) = "rejected"
    <3>1. Phase(n)' = "refused"
      BY <1>1, <2>1, <2>2 DEF Phase
    <3> QED  BY <1>1, <1>2, <3>1, PhaseMoves
  <2>3. CASE Policy(p, w) # "rejected"
    <3>1. binding # "none"
      BY <2>3 DEF Policy
    <3>2. First(n)
      BY <1>0, <1>4, <3>1, BoundIsFirst DEF Clash, Scoped, TypeOK, Rows
    <3>3. Phase(n)' \in {"open", "waiting"}
      BY <1>1, <2>1, <2>3 DEF Phase, NewDelivery
    <3> QED  BY <1>1, <1>2, <3>2, <3>3, PhaseMoves
  <2> QED  BY <2>2, <2>3
<1> QED  BY <1>3, <1>4

LEMMA ApproveKeeps ==
  ASSUME SendInv, TypeOK', NEW n \in Notes, Approve(n) \/ Reject(n)
  PROVE  KeepsStep
<1>0. TypeOK /\ Held /\ Scoped
  BY DEF SendInv
<1>1. /\ row[n].status = "pending_approval" /\ delivery[n].st = "absent" /\ Phase(n) = "waiting"
      /\ UNCHANGED tried
  BY <1>0 DEF Approve, Reject, Held, Unsent, Phase, history
<1>2. \A m \in Notes \ {n} : Phase(m)' = Phase(m)
  BY <1>0 DEF Approve, Reject, TypeOK, Phase
<1>3. CASE Reject(n)
  <2>1. Phase(n)' = "refused"
    BY <1>0, <1>1, <1>3 DEF Reject, Phase, TypeOK, Rows
  <2> QED  BY <1>1, <1>2, <2>1, PhaseMoves
<1>4. CASE Approve(n)
  <2>1. Phase(n)' = "open"
    BY <1>0, <1>4 DEF Approve, Phase, TypeOK, NewDelivery
  <2>2. row[n].bound /\ Stored(n)
    BY <1>0, <1>1 DEF Scoped, Stored
  <2>3. First(n)
    BY <1>0, <2>2, BoundIsFirst DEF Scoped, TypeOK, Rows
  <2> QED  BY <1>1, <1>2, <2>1, <2>3, PhaseMoves
<1> QED  BY <1>3, <1>4

\* A delivery in the loop stays open, or ends after it was sent.
LEMMA EndKeeps ==
  ASSUME TypeOK, NEW n \in Notes, delivery[n].st = "sending", tried[n] > 0, UNCHANGED tried,
         delivery'[n].st \in {"delivered", "failed", "retry_wait"},
         \A m \in Notes \ {n} : delivery'[m] = delivery[m], UNCHANGED row
  PROVE  KeepsStep
<1>1. Phase(n) = "open" /\ \A m \in Notes \ {n} : Phase(m)' = Phase(m)
  BY DEF Phase
<1>2. CASE delivery'[n].st = "retry_wait"
  BY <1>1, <1>2, PhaseKept DEF Phase
<1>3. CASE delivery'[n].st # "retry_wait"
  <2>1. Phase(n)' = "ended"
    BY <1>3 DEF Phase
  <2> QED  BY <1>1, <2>1, PhaseMoves
<1> QED  BY <1>2, <1>3

LEMMA LoopKeeps ==
  ASSUME SendInv, TypeOK', Loop, Sent, Dispatch \/ CutShort \/ \E c \in current : RecordFails(c.note, c.result)
  PROVE  KeepsStep
<1>0. TypeOK /\ Held
  BY DEF SendInv
<1>1. ASSUME NEW S \in SUBSET Notes, Lease(S) PROVE KeepsStep
  <2>1. /\ UNCHANGED <<row, tried>> /\ \A m \in Notes \ S : delivery'[m] = delivery[m]
        /\ \A m \in S : delivery[m].st \in {"queued", "retry_wait", "sending"}
        /\ \A m \in S : delivery'[m].st = "sending"
    BY <1>1 DEF Lease, LeaseSet, Ready, history
  <2> QED  BY <2>1, PhaseKept DEF Phase
<1>2. ASSUME NEW n \in Notes, NEW result \in Results, Send(n, result) PROVE KeepsStep
  <2>1. /\ UNCHANGED <<row, delivery>> /\ Phase(n) = "open"
        /\ tried' = [tried EXCEPT ![n] = AtMost(tried[n] + 1, Cap)]
    BY <1>2 DEF Send, Loop, Phase
  <2>2. tried'[n] > 0 /\ \A m \in Notes \ {n} : tried'[m] = tried[m]
    BY <1>0, <2>1, CapType DEF TypeOK, AtMost
  <2>3. \A m \in Notes : Phase(m)' = Phase(m)
    BY <2>1 DEF Phase
  <2> QED  BY <2>1, <2>2, <2>3, PhaseSent
<1>3. ASSUME NEW c \in current, Mark(c.note, c.result) PROVE KeepsStep
  <2>1. /\ c.note \in Notes /\ delivery[c.note].st = "sending" /\ tried[c.note] > 0
        /\ UNCHANGED <<row, tried>>
    BY <1>0, <1>3, InHandNotes DEF Mark, Finish, Loop, Sent, history
  <2>2. /\ delivery'[c.note].st = Verdict(c.note, c.result)
        /\ \A m \in Notes \ {c.note} : delivery'[m] = delivery[m]
    BY <1>0, <1>3, <2>1 DEF Mark, Finish, TypeOK, Deliveries
  <2> QED  BY <1>0, <2>1, <2>2, VerdictType, EndKeeps
<1>4. ASSUME NEW c \in current, RecordFails(c.note, c.result) PROVE KeepsStep
  <2>1. c.note \in Notes /\ UNCHANGED <<row, tried>>
    BY <1>0, <1>4, InHandNotes DEF RecordFails, history
  <2>2. CASE pc = "mark"
    <3>1. delivery[c.note].st = "sending" /\ tried[c.note] > 0
      BY <2>2 DEF Loop, Sent
    <3>2. /\ delivery'[c.note].st = Verdict(c.note, "lost")
          /\ \A m \in Notes \ {c.note} : delivery'[m] = delivery[m]
      BY <1>0, <1>4, <2>1, <2>2 DEF RecordFails, TypeOK, Deliveries
    <3> QED  BY <1>0, <2>1, <3>1, <3>2, VerdictType, EndKeeps
  <2>3. CASE UNCHANGED delivery
    BY <2>1, <2>3, PhaseKept DEF Phase
  <2> QED  BY <1>4, <2>2, <2>3 DEF RecordFails
<1>5. ASSUME NEW c \in current, Aggregate(c.note) PROVE KeepsStep
  <2>1. /\ c.note \in Notes /\ delivery[c.note].st # "absent" /\ UNCHANGED <<delivery, tried>>
        /\ \A m \in Notes \ {c.note} : row'[m] = row[m]
    BY <1>0, <1>5, InHandNotes DEF Aggregate, Held, InHand, TypeOK, history
  <2> QED  BY <2>1, PhaseKept DEF Phase
<1>6. CASE EndBatch \/ CutShort
  BY <1>6, PhaseKept DEF EndBatch, CutShort, Phase, history
<1> QED  BY <1>1, <1>2, <1>3, <1>4, <1>5, <1>6 DEF Dispatch

LEMMA StepSent == ASSUME TypeOK, Sent, [Next]_vars PROVE Sent'
<1>1. ASSUME NEW n \in Notes, NEW result \in Results, Send(n, result) PROVE Sent'
  <2>1. /\ current' = {[note |-> n, result |-> result]}
        /\ tried' = [tried EXCEPT ![n] = AtMost(tried[n] + 1, Cap)]
    BY <1>1 DEF Send
  <2>2. tried'[n] > 0
    BY <2>1, CapType DEF TypeOK, AtMost
  <2> QED  BY <2>1, <2>2 DEF Sent
<1>2. CASE UNCHANGED <<loop, tried>> \/ pc' # "mark"
  BY <1>2 DEF Sent, loop
<1>3. CASE Dispatch
  BY <1>1, <1>2, <1>3 DEF Dispatch, Lease, LeaseSet, Mark, Finish, Aggregate, EndBatch
<1>4. CASE \E n \in Notes : \/ \E p, w \in BOOLEAN : Submit(n, p, w)
                            \/ Approve(n) \/ Reject(n) \/ Elapse(n)
  BY <1>2, <1>4 DEF Submit, Approve, Reject, Elapse, history
<1>5. CASE (\E b \in Bindings : Rebind(b)) \/ UNCHANGED vars
  BY <1>2, <1>5 DEF Rebind, vars, history, loop
<1>6. CASE CutShort \/ \E c \in current : RecordFails(c.note, c.result)
  BY <1>2, <1>6 DEF CutShort, RecordFails
<1> QED  BY <1>3, <1>4, <1>5, <1>6 DEF Next

LEMMA StepKeeps ==
  ASSUME SendInv, Loop, Sent, TypeOK', [Next]_vars PROVE KeepsStep
<1>0. TypeOK
  BY DEF SendInv
<1>1. ASSUME NEW n \in Notes, Elapse(n) PROVE KeepsStep
  <2>1. UNCHANGED <<row, tried>> /\ \A m \in Notes : delivery'[m].st = delivery[m].st
    BY <1>0, <1>1 DEF Elapse, TypeOK, Deliveries, history
  <2> QED  BY <2>1, PhaseKept DEF Phase
<1>2. CASE (\E b \in Bindings : Rebind(b)) \/ UNCHANGED vars
  BY <1>2, PhaseKept DEF Rebind, vars, history, Phase
<1> QED  BY <1>1, <1>2, SubmitKeeps, ApproveKeeps, LoopKeeps DEF Next

\* The outbox, its leases and the dispatch loop do to each command what the
\* contract says: refuse it, hold it for approval or open it, once for each key,
\* send it only while it is open, end it only after a send, and never go back;
\* whatever is rebound, elapses, fails or crashes.
THEOREM OutboxKeepsPromise == Spec => KeepsPromise
<1>1. Init => Sent /\ Contract!Init
  BY DEF Init, Sent, Contract!Init, Phase, NoDelivery
<1>2. SendInv /\ Loop /\ Sent /\ [Next]_vars => (SendInv /\ Loop /\ Sent)'
  <2> SUFFICES ASSUME SendInv, Loop, Sent, [Next]_vars PROVE (SendInv /\ Loop /\ Sent)'
    OBVIOUS
  <2> QED  BY StepSend, StepLoop, StepSent DEF SendInv
<1>3. ASSUME SendInv, Loop, Sent, SendInv', [Next]_vars
      PROVE  [Contract!Next]_<<[n \in Notes |-> Phase(n)], {n \in Notes : tried[n] > 0}>>
  BY <1>3, StepKeeps DEF SendInv, KeepsStep
<1> QED  BY <1>1, <1>2, <1>3, InitSend, InitLoop, PTL DEF Spec, KeepsPromise, Contract!Spec
=============================================================================
