-------------------------- MODULE MeshBoard_proofs --------------------------
(***************************************************************************)
(* Proofs about MeshBoard: what the fold of a log says of the events in    *)
(* it, and from that, for every number of devices and every log, that the  *)
(* event ids are unique, that a delta leaves nothing out but claims that   *)
(* were overtaken, that devices with one log have one driver and that no   *)
(* device loses count of its advances.                                     *)
(***************************************************************************)
EXTENDS MeshBoard, FiniteSetTheorems, SequenceTheorems, WellFoundedInduction, TLAPS

-----------------------------------------------------------------------------
(* Numbers *)

\* A set of natural numbers that is not empty has a least one.
LEMMA LeastNat ==
  ASSUME NEW S \in SUBSET Nat, S # {}
  PROVE  \E m \in S : \A k \in S : m <= k
<1>1. PICK m \in S : \A k \in S : <<k, m>> \notin OpToRel(<, Nat)
  BY WFMin, NatLessThanWellFounded, Zenon
<1>2. \A k \in S : ~ (k < m)
  BY <1>1, Zenon DEF OpToRel
<1> QED
  BY <1>2

\* A finite set of natural numbers that is not empty has a greatest one.
LEMMA GreatestNat ==
  ASSUME NEW S \in SUBSET Nat, IsFiniteSet(S), S # {}
  PROVE  \E m \in S : \A k \in S : m >= k
<1> DEFINE Bad(T) == IsFiniteSet(T) /\ T # {} /\ ~ \E m \in T : \A k \in T : m >= k
           W == {Cardinality(T) : T \in {U \in SUBSET Nat : Bad(U)}}
<1> SUFFICES ASSUME Bad(S) PROVE FALSE
  OBVIOUS
<1>1. W \in SUBSET Nat /\ W # {}
  BY FS_CardinalityType
<1>2. PICK n \in W : \A k \in W : n <= k
  BY <1>1, LeastNat
<1>3. PICK T \in SUBSET Nat : Bad(T) /\ Cardinality(T) = n
  BY <1>2
<1>4. PICK x \in T : TRUE
  BY <1>3
<1> DEFINE U == T \ {x}
<1>5. IsFiniteSet(U) /\ Cardinality(U) = n - 1 /\ n \in Nat
  BY <1>1, <1>2, <1>3, <1>4, FS_RemoveElement
<1>6. ~ Bad(U)
  <2>1. ASSUME Bad(U) PROVE Cardinality(U) \in W
    BY <2>1
  <2> HIDE DEF W, Bad
  <2> QED
    BY <1>1, <1>2, <1>5, <2>1
<1>7. CASE U = {}
  BY <1>3, <1>4, <1>7
<1>8. CASE U # {}
  <2>1. PICK y \in U : \A k \in U : y >= k
    BY <1>5, <1>6, <1>8
  <2>2. \A k \in T : k = x \/ k \in U
    OBVIOUS
  <2>3. \E m \in T : \A k \in T : m >= k
    BY <2>1, <2>2, <1>4
  <2> QED
    BY <1>3, <2>3
<1> QED
  BY <1>7, <1>8

\* Induction up to n, over a set in the place of a formula: what holds at 0,
\* and at i when it holds at i - 1, holds everywhere.
LEMMA UpTo ==
  ASSUME NEW n \in Nat, NEW P, 0 \in P, \A i \in 1 .. n : i - 1 \in P => i \in P
  PROVE  \A i \in 0 .. n : i \in P
<1> DEFINE W == {i \in 0 .. n : i \notin P}
<1> SUFFICES ASSUME W # {} PROVE FALSE
  OBVIOUS
<1>1. PICK m \in W : \A k \in W : m <= k
  <2>1. W \in SUBSET Nat
    OBVIOUS
  <2> HIDE DEF W
  <2> QED
    BY <2>1, LeastNat
<1>2. m \in 1 .. n /\ m - 1 \in 0 .. n /\ m - 1 \notin W
  BY <1>1
<1> QED
  BY <1>2

\* A recursion over the numbers up to n has a result.
LEMMA RecursionExists ==
  ASSUME NEW V, NEW base \in V, NEW n \in Nat, NEW step \in [1 .. n -> [V -> V]]
  PROVE  \E f \in [0 .. n -> V] : f[0] = base /\ \A i \in 1 .. n : f[i] = step[i][f[i - 1]]
<1> DEFINE Def(f, k) == /\ f \in [0 .. k -> V] /\ f[0] = base
                        /\ \A i \in 1 .. k : f[i] = step[i][f[i - 1]]
           P == {k \in 0 .. n : \E f : Def(f, k)}
<1>1. 0 \in P
  <2>1. Def([i \in 0 .. 0 |-> base], 0)
    OBVIOUS
  <2> HIDE DEF Def
  <2> QED
    BY <2>1
<1>2. ASSUME NEW m \in 1 .. n, m - 1 \in P PROVE m \in P
  <2>1. PICK g : Def(g, m - 1)
    BY <1>2
  <2> DEFINE f == [i \in 0 .. m |-> IF i = m THEN step[m][g[m - 1]] ELSE g[i]]
  <2>2. Def(f, m)
    BY <2>1
  <2> HIDE DEF Def, f
  <2> QED
    BY <2>2
<1>3. n \in P
  <2> HIDE DEF P
  <2>1. n \in 0 .. n
    OBVIOUS
  <2> QED
    BY <1>1, <1>2, <2>1, UpTo
<1> QED
  BY <1>3

\* A number is below the next multiple.
LEMMA NextMultiple ==
  ASSUME NEW a \in Nat, NEW s \in Nat \ {0}, NEW w \in Nat, w > a \div s
  PROVE  a < w * s /\ w * s \in Nat
<1>1. a < w * s
  OBVIOUS
<1>2. w * s \in Nat
  OBVIOUS
<1> QED
  BY <1>1, <1>2
-----------------------------------------------------------------------------
(* The order of the events, and the fold *)

AtOrBefore(e, f) == e.hlc < f.hlc \/ (e.hlc = f.hlc /\ Rank[e.dev] <= Rank[f.dev])

\* Events that are not none have a first one.
LEMMA FirstIsFirst ==
  ASSUME NEW S \in SUBSET Events, S # {}
  PROVE  First(S) \in S /\ \A f \in S : AtOrBefore(First(S), f)
<1> DEFINE H == {e.hlc : e \in S}
<1>1. PICK h \in H : \A k \in H : h <= k
  <2>1. H \in SUBSET Nat /\ H # {}
    BY DEF Events
  <2> HIDE DEF H
  <2> QED
    BY <2>1, LeastNat
<1> DEFINE R == {Rank[e.dev] : e \in {f \in S : f.hlc = h}}
<1>2. PICK r \in R : \A k \in R : r <= k
  <2>1. R \in SUBSET Nat /\ R # {}
    BY <1>1, MeshAssumption DEF Events
  <2> HIDE DEF R
  <2> QED
    BY <2>1, LeastNat
<1>3. PICK e \in S : e.hlc = h /\ Rank[e.dev] = r
  BY <1>2
<1>4. \A f \in S : AtOrBefore(e, f)
  <2> TAKE f \in S
  <2>1. f.hlc \in Nat /\ e.hlc \in Nat /\ e.hlc <= f.hlc
    BY <1>1, <1>3 DEF Events
  <2>2. f.hlc = h => Rank[e.dev] <= Rank[f.dev]
    BY <1>2, <1>3
  <2> QED
    BY <2>1, <2>2, <1>3 DEF AtOrBefore
<1> QED
  BY <1>3, <1>4 DEF First, AtOrBefore

\* What is left of the log while its events are taken in their order.
Peeled(log, left) ==
  /\ left \in [0 .. Cardinality(log) -> SUBSET log]
  /\ left[0] = log /\ left[Cardinality(log)] = {}
  /\ \A i \in 1 .. Cardinality(log) :
       /\ First(left[i - 1]) \in left[i - 1]
       /\ left[i] = left[i - 1] \ {First(left[i - 1])}
       /\ \A f \in left[i - 1] : AtOrBefore(First(left[i - 1]), f)

\* Every event of a finite log is taken once, after those before it.
LEMMA Peeling ==
  ASSUME NEW log \in SUBSET Events, IsFiniteSet(log)
  PROVE  \E left : Peeled(log, left)
<1>1. PICK n \in Nat : n = Cardinality(log)
  BY FS_CardinalityType
<1>2. PICK V : V = SUBSET log
  OBVIOUS
<1>9. PICK step \in [1 .. n -> [V -> V]] :
              step = [i \in 1 .. n |-> [s \in V |-> s \ {First(s)}]]
  BY <1>2
<1>3. PICK left \in [0 .. n -> V] : /\ left[0] = log
                                   /\ \A i \in 1 .. n : left[i] = step[i][left[i - 1]]
  <2>1. log \in V
    BY <1>2
  <2> QED
    BY <2>1, RecursionExists, SMT
<1>4. \A i \in 1 .. n : left[i - 1] \in V /\ left[i] = left[i - 1] \ {First(left[i - 1])}
  <2> TAKE i \in 1 .. n
  <2>1. i - 1 \in 0 .. n
    OBVIOUS
  <2>2. left[i - 1] \in V
    BY <2>1
  <2>3. step[i] = [s \in V |-> s \ {First(s)}]
    BY <1>9, Zenon
  <2>4. step[i][left[i - 1]] = left[i - 1] \ {First(left[i - 1])}
    BY <2>2, <2>3, Zenon
  <2> QED
    BY <2>2, <2>4, <1>3
<1> DEFINE P == {i \in 0 .. n : Cardinality(left[i]) = n - i}
<1>5. 0 \in P
  BY <1>1, <1>3
<1>6. ASSUME NEW m \in 1 .. n, m - 1 \in P PROVE m \in P
  <2>4. Cardinality(left[m - 1]) = n - (m - 1) /\ m - 1 \in 0 .. n
    BY <1>6
  <2>5. left[m - 1] \in SUBSET log /\ IsFiniteSet(left[m - 1])
    BY <1>2, <1>4, FS_Subset
  <2>6. left[m - 1] # {}
    BY <2>4, <2>5, FS_EmptySet
  <2>7. First(left[m - 1]) \in left[m - 1]
    BY <2>5, <2>6, FirstIsFirst
  <2>8. Cardinality(left[m]) = n - (m - 1) - 1
    <3>1. left[m] = left[m - 1] \ {First(left[m - 1])}
      BY <1>4
    <3>2. Cardinality(left[m - 1] \ {First(left[m - 1])}) =
            IF First(left[m - 1]) \in left[m - 1] THEN Cardinality(left[m - 1]) - 1
                                                ELSE Cardinality(left[m - 1])
      BY <2>5, FS_RemoveElement, Zenon
    <3> QED
      BY <2>4, <2>7, <3>1, <3>2
  <2> QED
    BY <2>8
<1>10. \A i \in 0 .. n : IsFiniteSet(left[i]) /\ Cardinality(left[i]) = n - i /\ left[i] \in SUBSET log
  <2> HIDE DEF P
  <2>1. \A i \in 0 .. n : i \in P
    BY <1>5, <1>6, UpTo
  <2> TAKE i \in 0 .. n
  <2>2. left[i] \in SUBSET log
    BY <1>2, <1>3
  <2>3. Cardinality(left[i]) = n - i
    BY <2>1 DEF P
  <2> QED
    BY <2>2, <2>3, FS_Subset
<1>7. left[n] = {}
  <2>1. n \in 0 .. n /\ n - n = 0
    BY <1>1
  <2> QED
    BY <2>1, <1>10, FS_EmptySet
<1>8. ASSUME NEW i \in 1 .. n
      PROVE  /\ First(left[i - 1]) \in left[i - 1]
             /\ \A f \in left[i - 1] : AtOrBefore(First(left[i - 1]), f)
  <2>1. i - 1 \in 0 .. n /\ n - (i - 1) # 0
    BY <1>1
  <2>2. left[i - 1] \in SUBSET Events /\ left[i - 1] # {}
    BY <2>1, <1>10, FS_EmptySet
  <2> QED
    BY <2>2, FirstIsFirst
<1> QED
  BY <1>1, <1>2, <1>3, <1>4, <1>7, <1>8 DEF Peeled

-----------------------------------------------------------------------------
Tasks == [status : {"unknown", "offered", "claimed", "done"}, owner : Devices \cup {NoOne},
          until : Nat, epoch : Nat, adv : Count]

\* An event keeps a task a task.
LEMMA AppliedType ==
  ASSUME NEW t \in Tasks, NEW e \in Events
  PROVE  Applied(t, e) \in Tasks
<1>1. e.dev \in Devices /\ e.at + Lease \in Nat /\ e.adv \in Count /\ t.epoch + 1 \in Nat
  BY MeshAssumption DEF Events, Tasks
<1>2. e.kind = "offer" => Applied(t, e) \in Tasks
  BY <1>1 DEF Applied, Tasks
<1>3. Claimed(t, e) \in Tasks
  BY <1>1 DEF Claimed, Tasks
<1>4. e.kind = "claim" => Applied(t, e) \in Tasks
  BY <1>3 DEF Applied
<1>5. e.kind = "beat" => Applied(t, e) \in Tasks
  BY <1>1 DEF Applied, Tasks
<1>6. e.kind = "done" => Applied(t, e) \in Tasks
  BY DEF Applied, Tasks
<1>7. e.kind = "other" => Applied(t, e) \in Tasks
  BY DEF Applied
<1> QED
  BY <1>2, <1>4, <1>5, <1>6, <1>7 DEF Events, Kinds

\* The task after each of the events of a log.
Tracked(log, left, val) ==
  /\ val \in [0 .. Cardinality(log) -> Tasks]
  /\ val[0] = NoTask
  /\ \A i \in 1 .. Cardinality(log) : val[i] = Applied(val[i - 1], First(left[i - 1]))

\* The fold of a log ends with the last of these tasks.
LEMMA FoldedTask ==
  ASSUME NEW log \in SUBSET Events, IsFiniteSet(log)
  PROVE  \E left, val : /\ Peeled(log, left) /\ Tracked(log, left, val)
                        /\ Folded(Applied, NoTask, log) = val[Cardinality(log)]
<1>1. PICK n \in Nat : n = Cardinality(log)
  BY FS_CardinalityType
<1>2. PICK left : Peeled(log, left)
  BY Peeling
<1>3. NoTask \in Tasks
  BY MeshAssumption DEF NoTask, Tasks, Count
<1>4. PICK step \in [1 .. n -> [Tasks -> Tasks]] :
        step = [i \in 1 .. n |-> [t \in Tasks |-> Applied(t, First(left[i - 1]))]]
  <2>1. \A i \in 1 .. n : First(left[i - 1]) \in Events
    BY <1>1, <1>2 DEF Peeled
  <2> QED
    BY <2>1, AppliedType
<1>5. PICK val \in [0 .. n -> Tasks] : /\ val[0] = NoTask
                                      /\ \A i \in 1 .. n : val[i] = step[i][val[i - 1]]
  BY <1>3, RecursionExists, SMT
<1>6. Tracked(log, left, val)
  <2>1. ASSUME NEW i \in 1 .. n
        PROVE  val[i] = Applied(val[i - 1], First(left[i - 1]))
    <3>1. val[i - 1] \in Tasks
      BY <1>1
    <3>2. step[i] = [t \in Tasks |-> Applied(t, First(left[i - 1]))]
      BY <1>4, Zenon
    <3>3. step[i][val[i - 1]] = Applied(val[i - 1], First(left[i - 1]))
      BY <3>1, <3>2, Zenon
    <3> QED
      BY <3>3, <1>5
  <2> QED
    BY <2>1, <1>1, <1>5, Zenon DEF Tracked
<1> DEFINE Rec(f) == [i \in 0 .. n |->
             IF i = 0 THEN [left |-> log, value |-> NoTask]
             ELSE [left |-> f[i - 1].left \ {First(f[i - 1].left)},
                   value |-> Applied(f[i - 1].value, First(f[i - 1].left))]]
           h == [i \in 0 .. n |-> [left |-> left[i], value |-> val[i]]]
           after == CHOOSE f : f = Rec(f)
<1>7. h = Rec(h)
  <2>1. ASSUME NEW i \in 1 .. n
        PROVE  h[i] = [left |-> h[i - 1].left \ {First(h[i - 1].left)},
                       value |-> Applied(h[i - 1].value, First(h[i - 1].left))]
    <3>1. h[i] = [left |-> left[i], value |-> val[i]]
      BY <1>1
    <3>2. h[i - 1].left = left[i - 1] /\ h[i - 1].value = val[i - 1]
      BY <1>1
    <3>3. left[i] = left[i - 1] \ {First(left[i - 1])}
      BY <1>1, <1>2, Zenon DEF Peeled
    <3>4. val[i] = Applied(val[i - 1], First(left[i - 1]))
      BY <1>1, <1>6, Zenon DEF Tracked
    <3> HIDE DEF h
    <3> QED
      BY <3>1, <3>2, <3>3, <3>4, Zenon
  <2>2. h[0] = [left |-> log, value |-> NoTask]
    <3>1. left[0] = log /\ 0 \in 0 .. n
      BY <1>1, <1>2 DEF Peeled
    <3> QED
      BY <3>1, <1>5, Zenon
  <2>3. h = [i \in 0 .. n |-> h[i]]
    OBVIOUS
  <2> HIDE DEF h
  <2>4. \A i \in 0 .. n : h[i] = IF i = 0 THEN [left |-> log, value |-> NoTask]
             ELSE [left |-> h[i - 1].left \ {First(h[i - 1].left)},
                   value |-> Applied(h[i - 1].value, First(h[i - 1].left))]
    <3> TAKE i \in 0 .. n
    <3>1. i = 0 \/ i \in 1 .. n
      OBVIOUS
    <3>2. CASE i = 0
      BY <2>2, <3>2, Zenon
    <3>3. CASE i \in 1 .. n
      <4>1. i # 0
        BY <3>3
      <4> QED
        BY <2>1, <3>3, <4>1, Zenon
    <3> QED
      BY <3>1, <3>2, <3>3
  <2> QED
    BY <2>3, <2>4, Zenon
<1> HIDE DEF h, Rec
<1>8. after = Rec(after)
  BY <1>7, Zenon
<1>9. Folded(Applied, NoTask, log) = after[n].value
  BY <1>1, Zenon DEF Folded, Rec
<1> HIDE DEF after
<1> DEFINE P == {i \in 0 .. n : after[i] = h[i]}
<1>10. \A i \in 0 .. n : i \in P
  <2>1. ASSUME NEW f, f = Rec(f), NEW m \in 0 .. n
        PROVE  f[m] = IF m = 0 THEN [left |-> log, value |-> NoTask]
             ELSE [left |-> f[m - 1].left \ {First(f[m - 1].left)},
                   value |-> Applied(f[m - 1].value, First(f[m - 1].left))]
    BY <2>1, Zenon DEF Rec
  <2>2. 0 \in 0 .. n
    OBVIOUS
  <2>3. 0 \in P
    BY <2>1, <2>2, <1>7, <1>8, Zenon
  <2>4. ASSUME NEW m \in 1 .. n, m - 1 \in P PROVE m \in P
    <3>1. m \in 0 .. n /\ m # 0 /\ after[m - 1] = h[m - 1]
      BY <2>4
    <3>2. after[m] = [left |-> h[m - 1].left \ {First(h[m - 1].left)},
                      value |-> Applied(h[m - 1].value, First(h[m - 1].left))]
      BY <3>1, <2>1, <1>8, Zenon
    <3>3. h[m] = [left |-> h[m - 1].left \ {First(h[m - 1].left)},
                  value |-> Applied(h[m - 1].value, First(h[m - 1].left))]
      BY <3>1, <2>1, <1>7, Zenon
    <3>4. after[m] = h[m]
      BY <3>2, <3>3, Zenon
    <3> QED
      BY <3>1, <3>4
  <2> HIDE DEF P
  <2> QED
    BY <2>3, <2>4, UpTo
<1>11. after[n] = h[n]
  <2>1. n \in 0 .. n
    OBVIOUS
  <2> QED
    BY <2>1, <1>10
<1>12. h[n].value = val[n]
  BY DEF h
<1> QED
  BY <1>1, <1>2, <1>6, <1>9, <1>11, <1>12, Zenon

-----------------------------------------------------------------------------
(* The clock of a log *)

\* The youngest wall time is a time.
LEMMA WallType ==
  ASSUME NEW log \in SUBSET Events, IsFiniteSet(log)
  PROVE  Wall(log) \in Nat
<1>1. CASE log = {}
  BY <1>1 DEF Wall
<1>2. CASE log # {}
  <2> DEFINE W == {e.hlc \div Span : e \in log}
  <2>1. W \in SUBSET Nat /\ W # {}
    BY <1>2, MeshAssumption DEF Events
  <2>2. IsFiniteSet(W)
    <3> DEFINE f == [e \in log |-> e.hlc \div Span]
    <3>1. f \in Surjection(log, W)
      BY DEF Surjection
    <3> QED
      BY <3>1, FS_Surjection DEF ExistsSurjection
  <2> HIDE DEF W
  <2>3. \E m \in W : \A k \in W : m >= k
    BY <2>1, <2>2, GreatestNat
  <2>4. Max(W) \in W
    BY <2>3 DEF Max
  <2>5. Wall(log) = Max(W)
    BY <1>2 DEF Wall, W
  <2> QED
    BY <2>1, <2>4, <2>5
<1> QED
  BY <1>1, <1>2

\* hlc_recv runs ahead of both clocks.
LEMMA RecvType ==
  ASSUME NEW local \in Nat, NEW remote \in Nat, NEW wall \in Nat
  PROVE  /\ hlc_recv(local, remote, wall) \in Nat
         /\ hlc_recv(local, remote, wall) > local /\ hlc_recv(local, remote, wall) > remote
<1> DEFINE last == Later(local, remote)
<1>1. last \in Nat /\ last >= local /\ last >= remote
  BY DEF Later
<1>2. CASE wall > last \div Span
  <2>1. last < wall * Span /\ wall * Span \in Nat
    BY <1>1, <1>2, NextMultiple, MeshAssumption
  <2>2. hlc_recv(local, remote, wall) = wall * Span
    BY <1>2 DEF hlc_recv
  <2> HIDE DEF last
  <2> QED
    BY <1>1, <2>1, <2>2
<1>3. CASE ~ (wall > last \div Span)
  <2>1. hlc_recv(local, remote, wall) = last + 1
    BY <1>3 DEF hlc_recv
  <2> HIDE DEF last
  <2> QED
    BY <1>1, <2>1
<1> QED
  BY <1>2, <1>3

\* hlc_tick runs ahead of the clock before.
LEMMA TickType ==
  ASSUME NEW prev \in Nat, NEW wall \in Nat
  PROVE  hlc_tick(prev, wall) \in Nat /\ hlc_tick(prev, wall) > prev
<1>1. CASE wall > prev \div Span
  <2>1. prev < wall * Span /\ wall * Span \in Nat
    BY <1>1, NextMultiple, MeshAssumption
  <2> QED
    BY <1>1, <2>1 DEF hlc_tick
<1>2. CASE ~ (wall > prev \div Span)
  BY <1>2 DEF hlc_tick
<1> QED
  BY <1>1, <1>2

Clocks == Nat

\* The clock after each of the events of a log.
Clocked(log, left, val) ==
  /\ val \in [0 .. Cardinality(log) -> Clocks]
  /\ val[0] = 0
  /\ \A i \in 1 .. Cardinality(log) :
       val[i] = hlc_recv(val[i - 1], First(left[i - 1]).hlc, Wall(log))

\* The clock of a log is the last of them.
LEMMA FoldedClock ==
  ASSUME NEW log \in SUBSET Events, IsFiniteSet(log)
  PROVE  \E left, val : /\ Peeled(log, left) /\ Clocked(log, left, val)
                        /\ Clock(log) = val[Cardinality(log)]
<1>1. PICK n \in Nat : n = Cardinality(log)
  BY FS_CardinalityType
<1>2. PICK left : Peeled(log, left)
  BY Peeling
<1>3. 0 \in Nat /\ Wall(log) \in Nat
  BY WallType
<1>4. PICK step \in [1 .. n -> [Clocks -> Clocks]] :
        step = [i \in 1 .. n |-> [t \in Clocks |-> hlc_recv(t, First(left[i - 1]).hlc, Wall(log))]]
  <2>1. \A i \in 1 .. n : First(left[i - 1]) \in Events
    BY <1>1, <1>2 DEF Peeled
  <2> QED
    BY <1>3, <2>1, RecvType DEF Events, Clocks
<1>5. PICK val \in [0 .. n -> Clocks] : /\ val[0] = 0
                                      /\ \A i \in 1 .. n : val[i] = step[i][val[i - 1]]
  <2>1. PICK base \in Clocks : base = 0
    BY DEF Clocks
  <2>2. \E val \in [0 .. n -> Clocks] : /\ val[0] = base
                                       /\ \A i \in 1 .. n : val[i] = step[i][val[i - 1]]
    BY RecursionExists, SMT
  <2> QED
    BY <2>1, <2>2
<1>6. Clocked(log, left, val)
  <2>1. ASSUME NEW i \in 1 .. n
        PROVE  val[i] = hlc_recv(val[i - 1], First(left[i - 1]).hlc, Wall(log))
    <3>1. val[i - 1] \in Clocks
      <4>1. i - 1 \in 0 .. n
        BY <1>1
      <4> QED
        BY <4>1, <1>5
    <3>2. step[i] = [t \in Clocks |-> hlc_recv(t, First(left[i - 1]).hlc, Wall(log))]
      BY <1>4, Zenon
    <3>3. step[i][val[i - 1]] = hlc_recv(val[i - 1], First(left[i - 1]).hlc, Wall(log))
      BY <3>1, <3>2, Zenon
    <3> QED
      BY <3>3, <1>5
  <2> QED
    BY <2>1, <1>1, <1>5, Zenon DEF Clocked
<1> DEFINE Rec(f) == [i \in 0 .. n |->
             IF i = 0 THEN [left |-> log, value |-> 0]
             ELSE [left |-> f[i - 1].left \ {First(f[i - 1].left)},
                   value |-> hlc_recv(f[i - 1].value, First(f[i - 1].left).hlc, Wall(log))]]
           h == [i \in 0 .. n |-> [left |-> left[i], value |-> val[i]]]
           after == CHOOSE f : f = Rec(f)
<1>7. h = Rec(h)
  <2>1. ASSUME NEW i \in 1 .. n
        PROVE  h[i] = [left |-> h[i - 1].left \ {First(h[i - 1].left)},
                       value |-> hlc_recv(h[i - 1].value, First(h[i - 1].left).hlc, Wall(log))]
    <3>1. h[i] = [left |-> left[i], value |-> val[i]]
      BY <1>1
    <3>2. h[i - 1].left = left[i - 1] /\ h[i - 1].value = val[i - 1]
      BY <1>1
    <3>3. left[i] = left[i - 1] \ {First(left[i - 1])}
      BY <1>1, <1>2, Zenon DEF Peeled
    <3>4. val[i] = hlc_recv(val[i - 1], First(left[i - 1]).hlc, Wall(log))
      BY <1>1, <1>6, Zenon DEF Clocked
    <3> HIDE DEF h
    <3> QED
      BY <3>1, <3>2, <3>3, <3>4, Zenon
  <2>2. h[0] = [left |-> log, value |-> 0]
    <3>1. left[0] = log /\ 0 \in 0 .. n
      BY <1>1, <1>2 DEF Peeled
    <3> QED
      BY <3>1, <1>5, Zenon
  <2>3. h = [i \in 0 .. n |-> h[i]]
    OBVIOUS
  <2> HIDE DEF h
  <2>4. \A i \in 0 .. n : h[i] = IF i = 0 THEN [left |-> log, value |-> 0]
             ELSE [left |-> h[i - 1].left \ {First(h[i - 1].left)},
                   value |-> hlc_recv(h[i - 1].value, First(h[i - 1].left).hlc, Wall(log))]
    <3> TAKE i \in 0 .. n
    <3>1. i = 0 \/ i \in 1 .. n
      OBVIOUS
    <3>2. CASE i = 0
      BY <2>2, <3>2, Zenon
    <3>3. CASE i \in 1 .. n
      <4>1. i # 0
        BY <3>3
      <4> QED
        BY <2>1, <3>3, <4>1, Zenon
    <3> QED
      BY <3>1, <3>2, <3>3
  <2> QED
    BY <2>3, <2>4, Zenon
<1> HIDE DEF h, Rec
<1>8. after = Rec(after)
  BY <1>7, Zenon
<1>9. Clock(log) = after[n].value
  BY <1>1, Zenon DEF Clock, Folded, Rec
<1> HIDE DEF after
<1> DEFINE P == {i \in 0 .. n : after[i] = h[i]}
<1>10. \A i \in 0 .. n : i \in P
  <2>1. ASSUME NEW f, f = Rec(f), NEW m \in 0 .. n
        PROVE  f[m] = IF m = 0 THEN [left |-> log, value |-> 0]
             ELSE [left |-> f[m - 1].left \ {First(f[m - 1].left)},
                   value |-> hlc_recv(f[m - 1].value, First(f[m - 1].left).hlc, Wall(log))]
    BY <2>1, Zenon DEF Rec
  <2>2. 0 \in 0 .. n
    OBVIOUS
  <2>3. 0 \in P
    BY <2>1, <2>2, <1>7, <1>8, Zenon
  <2>4. ASSUME NEW m \in 1 .. n, m - 1 \in P PROVE m \in P
    <3>1. m \in 0 .. n /\ m # 0 /\ after[m - 1] = h[m - 1]
      BY <2>4
    <3>2. after[m] = [left |-> h[m - 1].left \ {First(h[m - 1].left)},
                      value |-> hlc_recv(h[m - 1].value, First(h[m - 1].left).hlc, Wall(log))]
      BY <3>1, <2>1, <1>8, Zenon
    <3>3. h[m] = [left |-> h[m - 1].left \ {First(h[m - 1].left)},
                  value |-> hlc_recv(h[m - 1].value, First(h[m - 1].left).hlc, Wall(log))]
      BY <3>1, <2>1, <1>7, Zenon
    <3>4. after[m] = h[m]
      BY <3>2, <3>3, Zenon
    <3> QED
      BY <3>1, <3>4
  <2> HIDE DEF P
  <2> QED
    BY <2>3, <2>4, UpTo
<1>11. after[n] = h[n]
  <2>1. n \in 0 .. n
    OBVIOUS
  <2> QED
    BY <2>1, <1>10
<1>12. h[n].value = val[n]
  BY DEF h
<1> QED
  BY <1>1, <1>2, <1>6, <1>9, <1>11, <1>12, Zenon

\* The clock of a new log runs ahead of all its events.
LEMMA ClockAhead ==
  ASSUME NEW log \in SUBSET Events, IsFiniteSet(log)
  PROVE  Clock(log) \in Nat /\ \A e \in log : e.hlc < Clock(log)
<1>1. PICK n \in Nat : n = Cardinality(log)
  BY FS_CardinalityType
<1>2. PICK left, val : Peeled(log, left) /\ Clocked(log, left, val) /\ Clock(log) = val[n]
  BY <1>1, FoldedClock
<1>3. /\ left \in [0 .. n -> SUBSET log] /\ left[0] = log /\ left[n] = {}
      /\ \A i \in 1 .. n : left[i] = left[i - 1] \ {First(left[i - 1])}
      /\ \A i \in 1 .. n : First(left[i - 1]) \in left[i - 1]
  BY <1>1, <1>2, Zenon DEF Peeled
<1>4. /\ val \in [0 .. n -> Nat]
      /\ \A i \in 1 .. n : val[i] = hlc_recv(val[i - 1], First(left[i - 1]).hlc, Wall(log))
  BY <1>1, <1>2, Zenon DEF Clocked, Clocks
<1> DEFINE P == {i \in 0 .. n : \A e \in log : e \in left[i] \/ e.hlc < val[i]}
<1>5. 0 \in P
  BY <1>3
<1>6. ASSUME NEW i \in 1 .. n, i - 1 \in P PROVE i \in P
  <2> DEFINE f == First(left[i - 1])
  <2>1. i - 1 \in 0 .. n /\ f \in Events
    BY <1>3
  <2>2. f.hlc \in Nat /\ val[i - 1] \in Nat /\ Wall(log) \in Nat
    BY <2>1, <1>4, WallType DEF Events
  <2>3. val[i] \in Nat /\ val[i] > val[i - 1] /\ val[i] > f.hlc
    <3>1. val[i] = hlc_recv(val[i - 1], f.hlc, Wall(log))
      BY <1>4
    <3> HIDE DEF f
    <3>2. LET c == hlc_recv(val[i - 1], f.hlc, Wall(log))
          IN  c \in Nat /\ c > val[i - 1] /\ c > f.hlc
      BY <2>2, RecvType, Zenon
    <3> QED
      BY <3>1, <3>2
  <2>4. ASSUME NEW e \in log PROVE e \in left[i] \/ e.hlc < val[i]
    <3>1. e.hlc \in Nat
      BY DEF Events
    <3>2. e \in left[i - 1] \/ e.hlc < val[i - 1]
      BY <1>6
    <3>3. e \in left[i - 1] => e \in left[i] \/ e = f
      BY <1>3
    <3> HIDE DEF f
    <3> QED
      BY <2>2, <2>3, <3>1, <3>2, <3>3
  <2> QED
    BY <2>4
<1>7. n \in P
  <2> HIDE DEF P
  <2>1. n \in 0 .. n
    OBVIOUS
  <2> QED
    BY <1>5, <1>6, <2>1, UpTo
<1>8. n \in 0 .. n
  OBVIOUS
<1> QED
  BY <1>2, <1>3, <1>4, <1>7, <1>8
-----------------------------------------------------------------------------
(* The task of a log that begins with an offer and a claim *)

Begun(o, c) == /\ o.dev = Home /\ o.kind = "offer" /\ c.dev = Home /\ c.kind = "claim"
               /\ o.hlc < c.hlc

Rooted(log, o, c) == /\ o \in log /\ c \in log
                     /\ \A e \in log : e = o \/ e = c \/ c.hlc < e.hlc

Owned(t) == t.owner \in Devices /\ t.status \in {"claimed", "done"}

\* Once a device has claimed the task, no event leaves it without an owner.
LEMMA AppliedOwned ==
  ASSUME NEW t \in Tasks, Owned(t), NEW e \in Events
  PROVE  Owned(Applied(t, e))
<1>1. e.dev \in Devices
  BY DEF Events
<1>2. e.kind = "offer" => Owned(Applied(t, e))
  BY DEF Applied, Tasks, Owned
<1>3. Owned(Claimed(t, e))
  BY <1>1 DEF Claimed, Tasks, Owned
<1>4. e.kind = "claim" => Owned(Applied(t, e))
  BY <1>3 DEF Applied
<1>5. e.kind = "beat" => Owned(Applied(t, e))
  BY DEF Applied, Tasks, Owned
<1>6. e.kind = "done" => Owned(Applied(t, e))
  BY DEF Applied, Tasks, Owned
<1>7. e.kind = "other" => Owned(Applied(t, e))
  BY DEF Applied
<1> QED
  BY <1>2, <1>4, <1>5, <1>6, <1>7 DEF Events, Kinds

\* The fold of such a log is a task that somebody owns.
LEMMA RootedTask ==
  ASSUME NEW log \in SUBSET Events, IsFiniteSet(log),
         NEW o \in log, NEW c \in log, Begun(o, c), Rooted(log, o, c)
  PROVE  Folded(Applied, NoTask, log) \in Tasks /\ Owned(Folded(Applied, NoTask, log))
<1>1. PICK n \in Nat : n = Cardinality(log)
  BY FS_CardinalityType
<1>2. PICK left, val : /\ Peeled(log, left) /\ Tracked(log, left, val)
                       /\ Folded(Applied, NoTask, log) = val[n]
  BY <1>1, FoldedTask
<1>3. /\ left \in [0 .. n -> SUBSET log] /\ left[0] = log /\ left[n] = {}
      /\ \A i \in 1 .. n : left[i] = left[i - 1] \ {First(left[i - 1])}
      /\ \A i \in 1 .. n : First(left[i - 1]) \in left[i - 1]
      /\ \A i \in 1 .. n : \A f \in left[i - 1] : AtOrBefore(First(left[i - 1]), f)
  BY <1>1, <1>2, Zenon DEF Peeled
<1>4. /\ val \in [0 .. n -> Tasks] /\ val[0] = NoTask
      /\ \A i \in 1 .. n : val[i] = Applied(val[i - 1], First(left[i - 1]))
  BY <1>1, <1>2, Zenon DEF Tracked
<1> DEFINE Good(i) ==
      /\ o \in left[i] => left[i] = log /\ val[i] = NoTask
      /\ o \notin left[i] /\ c \in left[i] => val[i].status = "offered" /\ val[i].owner = NoOne
      /\ c \notin left[i] => o \notin left[i] /\ Owned(val[i])
           P == {i \in 0 .. n : Good(i)}
<1>5. 0 \in P
  BY <1>3, <1>4
<1>6. ASSUME NEW i \in 1 .. n, Good(i - 1) PROVE Good(i)
  <2>1. PICK f \in left[i - 1] : f = First(left[i - 1])
    BY <1>3
  <2>2. i - 1 \in 0 .. n /\ f \in log /\ f \in Events
    BY <1>3
  <2>3. left[i] = left[i - 1] \ {f} /\ val[i] = Applied(val[i - 1], f) /\ val[i - 1] \in Tasks
    BY <2>1, <2>2, <1>3, <1>4
  <2>4. \A g \in left[i - 1] : f.hlc <= g.hlc
    BY <2>1, <1>3 DEF AtOrBefore, Events
  <2>5. /\ f.hlc \in Nat /\ o.hlc \in Nat /\ c.hlc \in Nat /\ o.hlc < c.hlc /\ o # c
        /\ f = o \/ f = c \/ c.hlc < f.hlc
    BY <2>2 DEF Events, Begun, Rooted
  <2>6. CASE o \in left[i - 1]
    <3>1. f = o
      BY <2>4, <2>5, <2>6
    <3>2. left[i - 1] = log /\ val[i - 1] = NoTask
      BY <1>6, <2>6
    <3>3. o \notin left[i] /\ c \in left[i]
      BY <2>3, <2>5, <3>1, <3>2
    <3>4. val[i].status = "offered" /\ val[i].owner = NoOne
      <4>1. Applied(NoTask, o) = [NoTask EXCEPT !.adv = o.adv, !.status = "offered"]
        BY DEF Applied, NoTask, Begun
      <4>2. val[i] = [NoTask EXCEPT !.adv = o.adv, !.status = "offered"]
        BY <2>3, <3>1, <3>2, <4>1, Zenon
      <4> QED
        BY <4>2 DEF NoTask
    <3> QED
      BY <3>3, <3>4
  <2>7. CASE o \notin left[i - 1] /\ c \in left[i - 1]
    <3>1. f = c
      BY <2>4, <2>5, <2>7
    <3>2. val[i - 1].status = "offered" /\ val[i - 1].owner = NoOne
      BY <1>6, <2>7
    <3>3. o \notin left[i] /\ c \notin left[i]
      BY <2>3, <2>7, <3>1
    <3>4. Applied(val[i - 1], f) = Claimed(val[i - 1], f)
      BY <3>1, <3>2 DEF Applied, Begun
    <3>5. Owned(Claimed(val[i - 1], f))
      BY <3>2, <2>2, <2>3 DEF Claimed, Owned, Tasks, Events
    <3> QED
      BY <3>3, <3>4, <3>5, <2>3
  <2>8. CASE c \notin left[i - 1]
    <3>1. o \notin left[i - 1] /\ Owned(val[i - 1])
      BY <1>6, <2>8
    <3>2. Owned(val[i])
      BY <3>1, <2>2, <2>3, AppliedOwned
    <3> QED
      BY <3>1, <3>2, <2>3, <2>8
  <2> QED
    BY <2>6, <2>7, <2>8
<1> HIDE DEF Good
<1>7. n \in P
  <2>1. \A i \in 1 .. n : i - 1 \in P => i \in P
    BY <1>6
  <2> HIDE DEF P
  <2>2. n \in 0 .. n
    OBVIOUS
  <2> QED
    BY <1>5, <2>1, <2>2, UpTo
<1>8. Good(n) /\ n \in 0 .. n
  BY <1>7
<1> QED
  BY <1>2, <1>3, <1>4, <1>8 DEF Good

\* No event, no task.
LEMMA EmptyTask == Folded(Applied, NoTask, {}) = NoTask
<1>1. {} \in SUBSET Events /\ IsFiniteSet({}) /\ Cardinality({}) = 0
  BY FS_EmptySet
<1>2. PICK left, val : Tracked({}, left, val) /\ Folded(Applied, NoTask, {}) = val[0]
  BY <1>1, FoldedTask
<1> QED
  BY <1>2, Zenon DEF Tracked

Reads == [status : {"unknown", "offered", "claimed", "done", "reclaimable"},
          owner : Devices \cup {NoOne}, until : Nat, epoch : Nat, adv : Count]

\* What a device reads of the task.
LEMMA TaskType ==
  ASSUME NEW log \in SUBSET Events, IsFiniteSet(log), NEW time
  PROVE  task(log, time) \in Reads
<1>1. PICK t \in Tasks : t = Folded(Applied, NoTask, log)
  <2>1. PICK n \in Nat : n = Cardinality(log)
    BY FS_CardinalityType
  <2>2. PICK left, val : Tracked(log, left, val) /\ Folded(Applied, NoTask, log) = val[n]
    BY <2>1, FoldedTask
  <2>3. val[n] \in Tasks
    BY <2>1, <2>2 DEF Tracked
  <2> QED
    BY <2>2, <2>3
<1>2. task(log, time) =
        IF t.status = "claimed" /\ t.until < time THEN [t EXCEPT !.status = "reclaimable"] ELSE t
  BY <1>1, Zenon DEF task
<1> QED
  BY <1>2 DEF Tasks, Reads

\* Of an empty log there is nothing to read.
LEMMA EmptyRead == ASSUME NEW time PROVE task({}, time) = NoTask
BY EmptyTask DEF task, NoTask

\* Of a log that begins with an offer and a claim a device reads who drives the
\* goal, or that it has ended.
LEMMA RootedRead ==
  ASSUME NEW log \in SUBSET Events, IsFiniteSet(log), NEW time,
         NEW o \in log, NEW c \in log, Begun(o, c), Rooted(log, o, c)
  PROVE  /\ task(log, time).owner \in Devices
         /\ task(log, time).status \in {"claimed", "done", "reclaimable"}
<1>1. PICK t \in Tasks : t = Folded(Applied, NoTask, log) /\ Owned(t)
  BY RootedTask
<1>2. task(log, time) =
        IF t.status = "claimed" /\ t.until < time THEN [t EXCEPT !.status = "reclaimable"] ELSE t
  BY <1>1, Zenon DEF task
<1> QED
  BY <1>1, <1>2 DEF Tasks, Owned

-----------------------------------------------------------------------------
(* The inductive invariant *)

Logs == {disk[d] : d \in Devices} \cup {served[d] : d \in Devices}

\* Logs are finite sets of events, and whoever has an event has it from the
\* device that wrote it.
Written ==
  /\ disk \in [Devices -> SUBSET Events] /\ served \in [Devices -> SUBSET Events]
  /\ \A log \in Logs : IsFiniteSet(log) /\ \A e \in log : e \in disk[e.dev]

\* The claims that handlers are about to append.
Claims == UNION {UNION {h.claim : h \in hand[d]} : d \in Devices}

\* All logs are empty, or they have their oldest events in common: the offer
\* and the claim by which the goal came to the board at home.
Rooting(o, c) ==
  /\ Begun(o, c)
  /\ \A log \in Logs : log = {} \/ Rooted(log, o, c)
  /\ \A e \in Claims : c.hlc < e.hlc

Root ==
  \/ \A log \in Logs : log = {}
  \/ \E o, c \in disk[Home] : Rooting(o, c)

\* What a log holds of a device is all that the device has written up to the
\* youngest of it, but for what was overtaken.
Gapless(log, files, odd) ==
  \A e \in log : \A f \in files[e.dev] :
    f.dev = e.dev /\ f.hlc <= e.hlc => f \in log \cup odd

NoGaps == \A log \in Logs : Gapless(log, disk, late)

LogInv == Written /\ IdsUnique /\ NoGaps /\ Root

\* A device that has no event yet has nothing to do with the goal, unless the
\* goal is at home there.
Joined ==
  \A d \in Devices : disk[d] = {} =>
    (d # Home => rec[d] = NoRecord) /\ run[d] = NoRun /\ cards[d] = {} /\ hand[d] = {}

\* A run is only begun below the limit.
Limited == \A d \in Devices : run[d] # NoRun => run[d].adv < MaxAdvances

\* A handler writes events of its own device.
Handled == \A d \in Devices : \A h \in hand[d] : \A e \in h.claim : e.dev = d

Inv == TypeOK /\ LogInv /\ Joined /\ Limited /\ Handled

-----------------------------------------------------------------------------
(* Writing events *)

KindLists == {<<>>, <<"other">>, <<"done">>, <<"claim">>, <<"beat">>, <<"offer">>, <<"offer", "claim">>,
              <<"claim", "offer">>, <<"beat", "offer">>}

\* The events that a device adds to its log: they are its own, come after all
\* that the log holds, and are apart from each other.
Added(d, log, new) ==
  /\ new \in SUBSET Events /\ IsFiniteSet(new)
  /\ \A e \in new : e.dev = d /\ \A f \in log : f.hlc < e.hlc
  /\ \A e, f \in new : e.hlc = f.hlc => e = f

\* What Appended adds.
LEMMA AppendedAdds ==
  ASSUME NEW d \in Devices, disk[d] \in SUBSET Events, IsFiniteSet(disk[d]),
         NEW kinds \in KindLists, NEW adv \in Count, now \in 1 .. MaxTime
  PROVE  \E new : /\ Appended(d, kinds, adv) = disk[d] \cup new /\ Added(d, disk[d], new)
                  /\ kinds = <<>> <=> new = {}
                  /\ kinds = <<"offer", "claim">> => \E o, c \in new :
                       /\ new = {o, c} /\ o.kind = "offer" /\ c.kind = "claim" /\ o.hlc < c.hlc
<1> DEFINE c0 == Clock(disk[d])
           c1 == hlc_tick(c0, WallTime(d))
           c2 == hlc_tick(c1, WallTime(d))
           new == IF kinds = <<>> THEN {}
                  ELSE IF Len(kinds) = 1 THEN {Event(d, kinds[1], c1, adv)}
                  ELSE {Event(d, kinds[1], c1, adv), Event(d, kinds[2], c2, adv)}
<1>1. c0 \in Nat /\ \A f \in disk[d] : f.hlc < c0
  BY ClockAhead
<1>2. WallTime(d) \in Nat
  BY MeshAssumption DEF WallTime
<1>3. c1 \in Nat /\ c1 > c0
  <2> HIDE DEF c0
  <2> QED
    BY <1>1, <1>2, TickType
<1>4. c2 \in Nat /\ c2 > c1
  <2> HIDE DEF c1
  <2> QED
    BY <1>3, <1>2, TickType
<1>5. Appended(d, kinds, adv) = disk[d] \cup new
  BY DEF Appended, NextClock, merge
<1> HIDE DEF c0, c1, c2
<1>10. 0 \in Count
  BY MeshAssumption DEF Count
<1>6. \A f \in disk[d] : f.hlc \in Nat
  BY DEF Events
<1>7. CASE kinds = <<>>
  <2>1. Added(d, disk[d], {})
    BY FS_EmptySet DEF Added
  <2> QED
    BY <1>5, <1>7, <2>1
<1>8. CASE \E k \in Kinds : kinds = <<k>>
  <2>1. PICK k \in Kinds : kinds = <<k>>
    BY <1>8
  <2> DEFINE e == Event(d, k, c1, adv)
  <2>2. e \in Events /\ e.dev = d /\ e.hlc = c1
    BY <1>2, <1>3, <1>10 DEF Event, Events
  <2>3. new = {e}
    BY <2>1
  <2> HIDE DEF e, new
  <2>4. IsFiniteSet({e})
    BY FS_Singleton
  <2>5. Added(d, disk[d], {e})
    BY <2>2, <2>4, <1>1, <1>3, <1>6 DEF Added
  <2>6. kinds # <<>> /\ kinds # <<"offer", "claim">>
    BY <2>1
  <2> QED
    BY <1>5, <2>3, <2>5, <2>6
<1>9. CASE \E k, l \in Kinds : kinds = <<k, l>>
  <2>1. PICK k, l \in Kinds : kinds = <<k, l>>
    BY <1>9
  <2> DEFINE e == Event(d, k, c1, adv)
             f == Event(d, l, c2, adv)
  <2>2. e \in Events /\ e.dev = d /\ e.hlc = c1 /\ e.kind = k
    BY <1>2, <1>3, <1>10 DEF Event, Events
  <2>3. f \in Events /\ f.dev = d /\ f.hlc = c2 /\ f.kind = l
    BY <1>2, <1>4, <1>10 DEF Event, Events
  <2>4. new = {e, f}
    BY <2>1
  <2> HIDE DEF e, f, new
  <2>5. IsFiniteSet({e, f})
    <3>1. IsFiniteSet({e}) /\ IsFiniteSet({f})
      BY FS_Singleton
    <3>2. IsFiniteSet({e} \cup {f})
      BY <3>1, FS_Union, Zenon
    <3>3. {e, f} = {e} \cup {f}
      OBVIOUS
    <3> QED
      BY <3>2, <3>3, Zenon
  <2>6. Added(d, disk[d], {e, f})
    BY <2>2, <2>3, <2>5, <1>1, <1>3, <1>4, <1>6 DEF Added
  <2>7. kinds # <<>> /\ {e, f} # {}
    BY <2>1
  <2>8. kinds = <<"offer", "claim">> => k = "offer" /\ l = "claim"
    BY <2>1
  <2> QED
    BY <1>3, <1>4, <1>5, <2>2, <2>3, <2>4, <2>6, <2>7, <2>8
<1> QED
  BY <1>7, <1>8, <1>9 DEF KindLists, Kinds

\* Two lists of one kind.
LEMMA ConcatTwo ==
  ASSUME NEW k, NEW l
  PROVE  <<k>> \o <<l>> = <<k, l>>
<1> DEFINE s == <<k>> \o <<l>>
           t == <<k, l>>
<1>1. PICK S : k \in S /\ l \in S
  <2>1. k \in {k, l} /\ l \in {k, l}
    OBVIOUS
  <2> QED
    BY <2>1
<1>2. s \in Seq(S)
  BY <1>1
<1>3. Len(s) = 2
  OBVIOUS
<1>4. s[1] = k
  OBVIOUS
<1>5. s[2] = l
  OBVIOUS
<1>6. t \in Seq(S) /\ Len(t) = 2
  BY <1>1
<1>7. t[1] = k /\ t[2] = l
  OBVIOUS
<1> HIDE DEF s, t
<1>8. \A i \in 1 .. Len(s) : s[i] = t[i]
  BY <1>3, <1>4, <1>5, <1>7
<1>9. s = t
  BY <1>2, <1>3, <1>6, <1>8, SeqEqual
<1> QED
  BY <1>9 DEF s, t

\* The events of a tick.
LEMMA PublishedKinds ==
  ASSUME NEW d \in Devices, NEW t \in Reads, NEW r
  PROVE  /\ Published(d, t, r) \in KindLists
         /\ t.status # "unknown" => Published(d, t, r) # <<"offer", "claim">>
         /\ t.status = "unknown" /\ Drives(r) => Published(d, t, r) = <<"offer", "claim">>
         /\ t.status = "unknown" => Published(d, t, r) \in {<<>>, <<"offer", "claim">>}
<1>1. CASE t.status = "unknown"
  <2>1. Published(d, t, r) =
          IF r.status = "committed" /\ r.moved = NoOne THEN <<"offer", "claim">> ELSE <<>>
    BY <1>1, Zenon DEF Published
  <2> QED
    BY <1>1, <2>1, Zenon DEF KindLists, Drives
<1>2. CASE t.status # "unknown"
  <2> DEFINE first == IF t.owner = NoOne THEN <<"claim">>
                      ELSE IF t.until - WallTime(d) <= Beat THEN <<"beat">> ELSE <<>>
             second == IF t.adv # r.adv THEN <<"offer">> ELSE <<>>
  <2>1. Published(d, t, r) \in {<<>>, <<"done">>, first \o second}
    BY <1>2 DEF Published
  <2>2. first \in {<<"claim">>, <<"beat">>, <<>>} /\ second \in {<<"offer">>, <<>>}
    OBVIOUS
  <2> HIDE DEF first, second
  <2>7. /\ <<"claim">> \o <<"offer">> = <<"claim", "offer">>
        /\ <<"beat">> \o <<"offer">> = <<"beat", "offer">>
    BY ConcatTwo, Zenon
  <2>3. /\ <<>> \o <<"offer">> = <<"offer">>
        /\ <<"claim">> \o <<>> = <<"claim">> /\ <<"beat">> \o <<>> = <<"beat">>
        /\ <<>> \o <<>> = <<>>
    OBVIOUS
  <2>5. first \o second \in {<<>>, <<"claim">>, <<"beat">>, <<"offer">>,
                             <<"claim", "offer">>, <<"beat", "offer">>}
    BY <2>2, <2>3, <2>7, Zenon
  <2>6. /\ <<"claim">> # <<"offer", "claim">> /\ <<"beat">> # <<"offer", "claim">>
        /\ <<"offer">> # <<"offer", "claim">> /\ <<"claim", "offer">> # <<"offer", "claim">>
        /\ <<"beat", "offer">> # <<"offer", "claim">>
    OBVIOUS
  <2>4. <<>> # <<"offer", "claim">> /\ <<"done">> # <<"offer", "claim">>
    OBVIOUS
  <2> QED
    BY <1>2, <2>1, <2>4, <2>5, <2>6, Zenon DEF KindLists
<1> QED
  BY <1>1, <1>2

\* Reconciling keeps the advances, and leaves an empty record empty of moves.
LEMMA ReconciledType ==
  ASSUME NEW d \in Devices, NEW t \in Reads,
         NEW r \in [status : {"none", "committed", "done"}, adv : Count,
                   moved : Devices \cup {NoOne}]
  PROVE  /\ Reconciled(d, t, r) \in [status : {"none", "committed", "done"}, adv : Count,
                                     moved : Devices \cup {NoOne}]
         /\ Reconciled(d, t, r).adv = r.adv
         /\ t.status = "unknown" => Reconciled(d, t, r) = r
<1>1. CASE t.status = "unknown"
  BY <1>1 DEF Reconciled
<1>2. CASE t.status = "done"
  BY <1>2 DEF Reconciled
<1>3. CASE t.status \notin {"unknown", "done"}
  BY <1>3 DEF Reconciled, Reads
<1> QED
  BY <1>1, <1>2, <1>3

-----------------------------------------------------------------------------
(* The steps that change logs *)

\* A device that adds events of its own keeps the logs in order.  The first of
\* all are an offer and a claim at home.
LEMMA LogInvAdded ==
  ASSUME LogInv, NEW d \in Devices, NEW new, Added(d, disk[d], new),
         disk' = [disk EXCEPT ![d] = disk[d] \cup new], UNCHANGED <<served, hand, late>>,
         disk[d] = {} /\ new # {} => Claims = {},
         disk[d] # {} \/ new = {} \/ (d = Home /\ \E o, c \in new : new = {o, c} /\ Begun(o, c))
  PROVE  LogInv'
<1>1. /\ disk \in [Devices -> SUBSET Events] /\ served \in [Devices -> SUBSET Events]
      /\ \A log \in Logs : IsFiniteSet(log) /\ \A e \in log : e \in disk[e.dev]
  BY DEF LogInv, Written
<1>2. /\ new \in SUBSET Events /\ IsFiniteSet(new)
      /\ \A e \in new : e.dev = d /\ \A f \in disk[d] : f.hlc < e.hlc
      /\ \A e, f \in new : e.hlc = f.hlc => e = f
  BY DEF Added
<1>3. /\ disk' \in [Devices -> SUBSET Events] /\ served' \in [Devices -> SUBSET Events]
      /\ disk'[d] = disk[d] \cup new /\ \A e \in Devices \ {d} : disk'[e] = disk[e]
      /\ \A e \in Devices : disk[e] \subseteq disk'[e]
  BY <1>1, <1>2
<1>4. \A log \in Logs' : log \in Logs \/ log = disk[d] \cup new
  BY <1>1, <1>3 DEF Logs
<1>5. disk[d] \in Logs /\ disk[Home] \in Logs
  BY MeshAssumption DEF Logs
<1>6. Written'
  <2>1. ASSUME NEW log \in Logs', NEW e \in log PROVE e \in disk'[e.dev]
    <3>1. CASE e \in new
      BY <1>2, <1>3, <3>1
    <3>2. CASE e \notin new
      <4>1. e \in disk[e.dev] /\ e.dev \in Devices
        <5>1. \E old \in Logs : e \in old
          BY <3>2, <1>4, <1>5
        <5>2. e \in Events
          BY <5>1, <1>1 DEF Logs
        <5> QED
          BY <5>1, <5>2, <1>1 DEF Events
      <4> QED
        BY <4>1, <1>3
    <3> QED
      BY <3>1, <3>2
  <2>2. ASSUME NEW log \in Logs' PROVE IsFiniteSet(log)
    <3>1. IsFiniteSet(disk[d] \cup new)
      BY <1>1, <1>2, <1>5, FS_Union
    <3> QED
      BY <3>1, <1>1, <1>4
  <2> QED
    BY <1>3, <2>1, <2>2 DEF Written
<1>7. IdsUnique'
  <2> SUFFICES ASSUME NEW x \in Devices, NEW y \in Devices,
                      NEW e \in disk'[x], NEW f \in disk'[y], e.dev = f.dev, e.hlc = f.hlc
               PROVE  e = f
    BY DEF IdsUnique
  <2>1. \A z \in Devices : \A g \in disk'[z] : g \in new \/ g \in disk[z]
    BY <1>3
  <2>2. \A z \in Devices : disk[z] \in Logs
    BY DEF Logs
  <2>3. \A z \in Devices : \A g \in disk[z] : g \in disk[g.dev] /\ g.hlc \in Nat
    BY <2>2, <1>1 DEF Events
  <2>4. CASE e \in new /\ f \in new
    BY <1>2, <2>4
  <2>5. CASE e \in new /\ f \notin new
    <3>1. f \in disk[d] /\ f.hlc \in Nat /\ e.hlc \in Nat /\ f.hlc < e.hlc
      BY <2>1, <2>3, <2>5, <1>2 DEF Events
    <3> QED
      BY <3>1
  <2>6. CASE e \notin new /\ f \in new
    <3>1. e \in disk[d] /\ f.hlc \in Nat /\ e.hlc \in Nat /\ e.hlc < f.hlc
      BY <2>1, <2>3, <2>6, <1>2 DEF Events
    <3> QED
      BY <3>1
  <2>7. CASE e \notin new /\ f \notin new
    <3>1. e \in UNION {disk[z] : z \in Devices} /\ f \in UNION {disk[z] : z \in Devices}
      BY <2>1, <2>7
    <3> QED
      BY <3>1 DEF LogInv, IdsUnique
  <2> QED
    BY <2>4, <2>5, <2>6, <2>7
<1>8. Root'
  <2>1. CASE new = {}
    <3>1. disk' = disk /\ Logs' = Logs /\ Claims' = Claims
      BY <2>1, <1>1, <1>3 DEF Logs, Claims
    <3> QED
      BY <3>1 DEF LogInv, Root, Rooting
  <2>2. CASE new # {} /\ disk[d] # {}
    <3>1. PICK o, c \in disk[Home] : Rooting(o, c)
      BY <2>2, <1>5 DEF LogInv, Root
    <3>2. Rooted(disk[d], o, c)
      BY <2>2, <3>1, <1>5 DEF Rooting
    <3>3. Rooted(disk[d] \cup new, o, c)
      BY <3>2, <1>2 DEF Rooted
    <3>4. o \in disk'[Home] /\ c \in disk'[Home]
      BY <1>3, MeshAssumption
    <3>5. \A log \in Logs' : log = {} \/ Rooted(log, o, c)
      BY <3>1, <3>3, <1>4 DEF Rooting
    <3> QED
      BY <3>1, <3>4, <3>5 DEF Root, Rooting, Claims
  <2>3. CASE new # {} /\ disk[d] = {}
    <3>1. PICK o, c \in new : d = Home /\ new = {o, c} /\ Begun(o, c)
      BY <2>3
    <3>2. \A log \in Logs : log = {}
      BY <2>3, <3>1 DEF LogInv, Root
    <3>3. o \in disk'[Home] /\ c \in disk'[Home]
      BY <1>3, <3>1
    <3>4. Rooted(disk[d] \cup new, o, c)
      BY <2>3, <3>1 DEF Rooted
    <3>5. \A log \in Logs' : log = {} \/ Rooted(log, o, c)
      BY <3>2, <3>4, <1>4
    <3>6. Claims' = {}
      BY <2>3 DEF Claims
    <3> QED
      BY <3>1, <3>3, <3>5, <3>6 DEF Root, Rooting
  <2> QED
    BY <2>1, <2>2, <2>3
<1>9. NoGaps'
  <2> SUFFICES ASSUME NEW log \in Logs', NEW e \in log, NEW f \in disk'[e.dev],
                      f.dev = e.dev, f.hlc <= e.hlc
               PROVE  f \in log \cup late
    BY DEF NoGaps, Gapless
  <2>1. \A old \in Logs : \A g \in old :
          g.dev \in Devices /\ g.hlc \in Nat /\ g \in disk[g.dev]
    <3>1. \A old \in Logs : old \in SUBSET Events
      BY <1>1 DEF Logs
    <3>2. \A g \in Events : g.dev \in Devices /\ g.hlc \in Nat
      BY DEF Events
    <3> QED
      BY <1>1, <3>1, <3>2
  <2>2. CASE e \in new
    <3>1. log = disk[d] \cup new /\ e.dev = d
      <4>1. log \notin Logs
        <5>1. ASSUME e \in disk[d] PROVE FALSE
          BY <2>1, <2>2, <5>1, <1>2, <1>5
        <5> QED
          BY <2>1, <2>2, <5>1, <1>2
      <4> QED
        BY <4>1, <2>2, <1>2, <1>4
    <3> QED
      BY <3>1, <1>3
  <2>3. CASE e \notin new
    <3>1. PICK old \in Logs : e \in old /\ old \subseteq log
      BY <2>3, <1>4, <1>5
    <3>2. e.dev \in Devices /\ e.hlc \in Nat /\ e \in disk[e.dev]
      BY <2>1, <3>1
    <3>3. CASE f \in new
      <4>1. e \in disk[d] /\ f.hlc \in Nat /\ e.hlc < f.hlc
        BY <3>2, <3>3, <1>2 DEF Events
      <4> QED
        BY <4>1, <3>2
    <3>4. CASE f \notin new
      <4>1. f \in disk[e.dev]
        BY <3>2, <3>4, <1>3
      <4>2. f \in old \cup late
        BY <3>1, <4>1 DEF LogInv, NoGaps, Gapless
      <4> QED
        BY <3>1, <4>2
    <3> QED
      BY <3>3, <3>4
  <2> QED
    BY <2>2, <2>3
<1> QED
  BY <1>6, <1>7, <1>8, <1>9 DEF LogInv

Untaken(d, e)  == e \in Events /\ e.dev = d /\ \A f \in disk[d] : f.dev = d => f.hlc # e.hlc
Youngest(d, e) == \A f \in disk[d] : f.dev = d => f.hlc < e.hlc

\* The claim of a handler keeps them in order, too: it has an id of its own,
\* comes after the oldest events, and counts as late when it was overtaken.
LEMMA LogInvClaimed ==
  ASSUME LogInv, NEW d \in Devices, disk[d] # {}, NEW new \in Claims, Untaken(d, new),
         disk' = [disk EXCEPT ![d] = disk[d] \cup {new}], served' = served,
         late \subseteq late', Claims' \subseteq Claims, new \in late' \/ Youngest(d, new)
  PROVE  LogInv'
<1> USE DEF Untaken, Youngest
<1>1. /\ disk \in [Devices -> SUBSET Events] /\ served \in [Devices -> SUBSET Events]
      /\ \A log \in Logs : IsFiniteSet(log) /\ \A e \in log : e \in disk[e.dev]
  BY DEF LogInv, Written
<1>2. /\ disk' \in [Devices -> SUBSET Events] /\ served' \in [Devices -> SUBSET Events]
      /\ disk'[d] = disk[d] \cup {new} /\ \A e \in Devices \ {d} : disk'[e] = disk[e]
      /\ \A e \in Devices : disk[e] \subseteq disk'[e]
  BY <1>1
<1>3. \A log \in Logs' : log \in Logs \/ log = disk[d] \cup {new}
  BY <1>1, <1>2 DEF Logs
<1>4. disk[d] \in Logs /\ new.hlc \in Nat
  BY DEF Logs, Events
<1>5. \A old \in Logs : \A g \in old :
        g.dev \in Devices /\ g.hlc \in Nat /\ g \in disk[g.dev] /\ g # new
  <2>1. \A old \in Logs : old \in SUBSET Events
    BY <1>1 DEF Logs
  <2>2. \A g \in Events : g.dev \in Devices /\ g.hlc \in Nat
    BY DEF Events
  <2> QED
    BY <1>1, <2>1, <2>2
<1>6. Written'
  <2>1. ASSUME NEW log \in Logs', NEW e \in log PROVE e \in disk'[e.dev]
    <3>1. CASE e = new
      BY <1>2, <3>1
    <3>2. CASE e # new
      <4>1. \E old \in Logs : e \in old
        BY <3>2, <1>3, <1>4
      <4> QED
        BY <4>1, <1>2, <1>5
    <3> QED
      BY <3>1, <3>2
  <2>2. ASSUME NEW log \in Logs' PROVE IsFiniteSet(log)
    <3>1. IsFiniteSet(disk[d] \cup {new})
      BY <1>1, <1>4, FS_AddElement
    <3> QED
      BY <3>1, <1>1, <1>3
  <2> QED
    BY <1>2, <2>1, <2>2 DEF Written
<1>7. IdsUnique'
  <2> SUFFICES ASSUME NEW x \in Devices, NEW y \in Devices,
                      NEW e \in disk'[x], NEW f \in disk'[y], e.dev = f.dev, e.hlc = f.hlc
               PROVE  e = f
    BY DEF IdsUnique
  <2>1. \A z \in Devices : \A g \in disk'[z] : g = new \/ g \in disk[z]
    BY <1>2
  <2>2. \A z \in Devices : \A g \in disk[z] : g \in disk[g.dev]
    BY <1>5 DEF Logs
  <2>3. CASE e # new /\ f # new
    <3>1. e \in UNION {disk[z] : z \in Devices} /\ f \in UNION {disk[z] : z \in Devices}
      BY <2>1, <2>3
    <3> QED
      BY <3>1 DEF LogInv, IdsUnique
  <2> QED
    BY <2>1, <2>2, <2>3
<1>8. Root'
  <2>1. PICK o, c \in disk[Home] : Rooting(o, c)
    BY <1>4 DEF LogInv, Root
  <2>2. Rooted(disk[d], o, c) /\ c.hlc < new.hlc
    BY <2>1, <1>4 DEF Rooting
  <2>3. Rooted(disk[d] \cup {new}, o, c)
    BY <2>2 DEF Rooted
  <2>4. o \in disk'[Home] /\ c \in disk'[Home]
    BY <1>2, MeshAssumption
  <2>5. \A log \in Logs' : log = {} \/ Rooted(log, o, c)
    BY <2>1, <2>3, <1>3 DEF Rooting
  <2>6. \A e \in Claims' : c.hlc < e.hlc
    BY <2>1 DEF Rooting
  <2> QED
    BY <2>1, <2>4, <2>5, <2>6 DEF Root, Rooting
<1>9. NoGaps'
  <2> SUFFICES ASSUME NEW log \in Logs', NEW e \in log, NEW f \in disk'[e.dev],
                      f.dev = e.dev, f.hlc <= e.hlc
               PROVE  f \in log \cup late'
    BY DEF NoGaps, Gapless
  <2>1. CASE e = new
    <3>1. log = disk[d] \cup {new}
      BY <2>1, <1>3, <1>5
    <3> QED
      BY <2>1, <3>1, <1>2
  <2>2. CASE e # new
    <3>1. PICK old \in Logs : e \in old /\ old \subseteq log
      BY <2>2, <1>3, <1>4
    <3>2. e.dev \in Devices /\ e.hlc \in Nat /\ e \in disk[e.dev]
      BY <3>1, <1>5
    <3>3. CASE f = new
      <4>1. e \in disk[d] /\ e.dev = d
        BY <3>2, <3>3
      <4>2. ~ (e.hlc < new.hlc)
        BY <3>2, <3>3, <1>4
      <4> QED
        BY <3>3, <4>1, <4>2
    <3>4. CASE f # new
      <4>1. f \in disk[e.dev]
        BY <3>2, <3>4, <1>2
      <4> QED
        BY <3>1, <4>1 DEF LogInv, NoGaps, Gapless
    <3> QED
      BY <3>3, <3>4
  <2> QED
    BY <2>1, <2>2
<1> QED
  BY <1>6, <1>7, <1>8, <1>9 DEF LogInv

\* Claims of handlers come after all that the log holds that they opened.
LEMMA LogInvStill ==
  ASSUME LogInv, UNCHANGED <<disk, served>>, late \subseteq late',
         \A e \in Claims' : e \in Claims \/
           \E d \in Devices : disk[d] # {} /\ \A f \in disk[d] : f.hlc < e.hlc
  PROVE  LogInv'
<1>1. Logs' = Logs
  BY DEF Logs
<1>2. Written' /\ IdsUnique'
  BY <1>1 DEF LogInv, Written, IdsUnique
<1>3. NoGaps'
  <2> SUFFICES ASSUME NEW log \in Logs, NEW e \in log, NEW f \in disk[e.dev],
                      f.dev = e.dev, f.hlc <= e.hlc
               PROVE  f \in log \cup late'
    BY <1>1, Zenon DEF NoGaps, Gapless
  <2>1. f \in log \cup late
    BY DEF LogInv, NoGaps, Gapless
  <2> QED
    BY <2>1
<1>4. Root'
  <2>1. CASE \A log \in Logs : log = {}
    BY <2>1, <1>1 DEF Root
  <2>2. CASE \E o, c \in disk[Home] : Rooting(o, c)
    <3>1. PICK o, c \in disk[Home] : Rooting(o, c)
      BY <2>2
    <3>2. \A d \in Devices : disk[d] = {} \/ c \in disk[d]
      BY <3>1 DEF Rooting, Rooted, Logs
    <3>3. \A e \in Claims' : c.hlc < e.hlc
      BY <3>1, <3>2 DEF Rooting
    <3> QED
      BY <3>1, <3>3, <1>1 DEF Root, Rooting
  <2> QED
    BY <2>1, <2>2 DEF LogInv, Root
<1> QED
  BY <1>2, <1>3, <1>4 DEF LogInv

\* A log put together from the logs there are.
Drawn(log) ==
  /\ IsFiniteSet(log) /\ log \subseteq UNION Logs
  /\ \A x : (\A old \in Logs : old = {} \/ x \in old) => log = {} \/ x \in log
  /\ Gapless(log, disk, late)

\* Logs keep in order while they are drawn from each other.
LEMMA LogInvDrawn ==
  ASSUME LogInv, disk' \in [Devices -> SUBSET Events], served' \in [Devices -> SUBSET Events],
         \A log \in Logs' : Drawn(log), \A d \in Devices : disk[d] \subseteq disk'[d],
         late' = late, Claims' \subseteq Claims
  PROVE  LogInv'
<1>1. /\ disk \in [Devices -> SUBSET Events] /\ served \in [Devices -> SUBSET Events]
      /\ \A log \in Logs : IsFiniteSet(log) /\ \A e \in log : e \in disk[e.dev]
  BY DEF LogInv, Written
<1>2. \A log \in Logs' : \A e \in log : \E old \in Logs : e \in old
  BY DEF Drawn
<1>3. \A log \in Logs' : \A e \in log : e \in Events /\ e.dev \in Devices /\ e \in disk[e.dev]
  <2>1. \A old \in Logs : \A e \in old : e \in Events
    BY <1>1 DEF Logs
  <2>2. \A e \in Events : e.dev \in Devices
    BY DEF Events
  <2> QED
    BY <1>1, <1>2, <2>1, <2>2
<1>4. Written'
  BY <1>3 DEF Written, Drawn
<1>5. IdsUnique'
  <2>1. \A z \in Devices : disk'[z] \in Logs'
    BY DEF Logs
  <2>2. \A e \in UNION {disk'[z] : z \in Devices} : e \in UNION {disk[z] : z \in Devices}
    BY <2>1, <1>3
  <2> QED
    BY <2>2 DEF LogInv, IdsUnique
<1>6. Root'
  <2>1. CASE \A log \in Logs : log = {}
    BY <2>1, <1>2 DEF Root
  <2>2. CASE \E o, c \in disk[Home] : Rooting(o, c)
    <3>1. PICK o, c \in disk[Home] : Rooting(o, c)
      BY <2>2
    <3>2. o \in disk'[Home] /\ c \in disk'[Home]
      BY MeshAssumption
    <3>3. ASSUME NEW log \in Logs', log # {} PROVE Rooted(log, o, c)
      <4>1. o \in log /\ c \in log
        BY <3>1, <3>3 DEF Drawn, Rooted, Rooting
      <4>2. \A e \in log : e = o \/ e = c \/ c.hlc < e.hlc
        BY <1>2, <3>1 DEF Rooted, Rooting
      <4> QED
        BY <4>1, <4>2 DEF Rooted
    <3> QED
      BY <3>1, <3>2, <3>3 DEF Root, Rooting
  <2> QED
    BY <2>1, <2>2 DEF LogInv, Root
<1>7. NoGaps'
  <2> SUFFICES ASSUME NEW log \in Logs', NEW e \in log, NEW f \in disk'[e.dev],
                      f.dev = e.dev, f.hlc <= e.hlc
               PROVE  f \in log \cup late
    BY DEF NoGaps, Gapless
  <2>1. e.dev \in Devices
    <3>1. PICK old \in Logs : e \in old
      BY DEF Drawn
    <3> QED
      BY <3>1 DEF LogInv, Written, Logs, Events
  <2>2. disk'[e.dev] \in Logs'
    BY <2>1 DEF Logs
  <2>3. f \in UNION Logs
    BY <2>2 DEF Drawn
  <2>4. f \in disk[f.dev]
    BY <2>3 DEF LogInv, Written
  <2> QED
    BY <2>4 DEF Drawn, Gapless
<1> QED
  BY <1>4, <1>5, <1>6, <1>7 DEF LogInv

\* Between logs without gaps a delta leaves nothing out but what was overtaken.
LEMMA DeltaExact ==
  ASSUME LogInv, NEW a, NEW b, Gapless(b, disk, late),
         a \subseteq UNION Logs, b \subseteq UNION Logs
  PROVE  a \ b \subseteq delta(a, b) \cup late
<1>1. ASSUME NEW e \in a \ b, e \notin late, NEW f \in b, f.dev = e.dev PROVE f.hlc < e.hlc
  <2>1. e.hlc \in Nat /\ f.hlc \in Nat /\ e \in disk[e.dev]
    <3>1. PICK x \in Logs, y \in Logs : e \in x /\ f \in y
      OBVIOUS
    <3>2. x \subseteq Events /\ y \subseteq Events
      BY DEF LogInv, Written, Logs
    <3> QED
      BY <3>1, <3>2 DEF LogInv, Written, Events
  <2>2. ~ (e.hlc <= f.hlc)
    BY <1>1, <2>1 DEF Gapless
  <2> QED
    BY <2>1, <2>2
<1> QED
  BY <1>1 DEF delta

\* Merging logs, or what one of them lacks, draws a log.
LEMMA DrawnMerge ==
  ASSUME LogInv, NEW a, Drawn(a), NEW b, Drawn(b)
  PROVE  Drawn(merge(a, b)) /\ Drawn(merge(a, delta(b, a)))
<1>1. Drawn(a \cup b)
  <2>1. Gapless(a \cup b, disk, late)
    BY DEF Drawn, Gapless
  <2> QED
    BY <2>1, FS_Union DEF Drawn
<1> DEFINE new == delta(b, a)
<1>2. new \subseteq b \ a /\ b \ a \subseteq new \cup late /\ (a = {} => new = b)
  <2>1. b \ a \subseteq new \cup late
    BY DeltaExact DEF Drawn
  <2> QED
    BY <2>1 DEF delta
<1> HIDE DEF new
<1>3. Drawn(a \cup new)
  <2>1. Gapless(a \cup new, disk, late)
    <3> SUFFICES ASSUME NEW e \in a \cup new, NEW f \in disk[e.dev], f.dev = e.dev, f.hlc <= e.hlc
                 PROVE  f \in (a \cup new) \cup late
      BY DEF Gapless
    <3>1. f \in a \cup late \/ f \in b \cup late
      BY <1>2 DEF Drawn, Gapless
    <3> QED
      BY <3>1, <1>2
  <2>2. IsFiniteSet(a \cup new)
    BY <1>2, FS_Subset, FS_Union DEF Drawn
  <2>3. ASSUME NEW x, \A old \in Logs : old = {} \/ x \in old
        PROVE  a \cup new = {} \/ x \in a \cup new
    BY <2>3, <1>2 DEF Drawn
  <2> QED
    BY <1>2, <2>1, <2>2, <2>3 DEF Drawn
<1> QED
  BY <1>1, <1>3 DEF merge, new

\* Every log is drawn.
LEMMA DrawnLogs ==
  ASSUME LogInv
  PROVE  \A log \in Logs : Drawn(log)
BY DEF LogInv, Written, NoGaps, Drawn

\* A synchronisation keeps the logs in order.
LEMMA LogInvSync ==
  ASSUME LogInv, NEW d \in Devices, NEW p \in Devices, Sync(d, p)
  PROVE  LogInv' /\ \A x \in Devices : disk[x] \subseteq disk'[x]
<1> DEFINE log    == merge(served[p], delta(disk[d], served[p]))
           answer == delta(log, disk[d])
<1>1. disk \in [Devices -> SUBSET Events] /\ served \in [Devices -> SUBSET Events]
  BY DEF LogInv, Written
<1>2. Drawn(served[p]) /\ \A x \in Devices : Drawn(disk[x]) /\ Drawn(served[x])
  BY DrawnLogs DEF Logs
<1>3. Drawn(log)
  BY <1>2, DrawnMerge
<1>4. log \in SUBSET Events /\ answer \in SUBSET Events
  BY <1>1 DEF merge, delta
<1>5. PICK got \in {answer, {}} : /\ served' = [served EXCEPT ![p] = log] /\ d # p
                                 /\ disk' = [disk EXCEPT ![p] = merge(@, log), ![d] = merge(@, got)]
  BY DEF Sync
<1>6. Drawn(merge(disk[d], answer)) /\ Drawn(merge(disk[p], log))
  <2> HIDE DEF log
  <2> QED
    BY <1>2, <1>3, DrawnMerge
<1>7. merge(disk[d], {}) = disk[d]
  BY DEF merge
<1>8. Drawn(merge(disk[d], got))
  BY <1>2, <1>5, <1>6, <1>7
<1> HIDE DEF log, answer
<1>9. /\ served' \in [Devices -> SUBSET Events] /\ disk' \in [Devices -> SUBSET Events]
      /\ served'[p] = log /\ \A x \in Devices \ {p} : served'[x] = served[x]
      /\ disk'[p] = merge(disk[p], log) /\ disk'[d] = merge(disk[d], got)
      /\ \A x \in Devices \ {d, p} : disk'[x] = disk[x]
  BY <1>1, <1>4, <1>5 DEF merge
<1>10. \A x \in Devices : Drawn(disk'[x]) /\ Drawn(served'[x])
  BY <1>2, <1>3, <1>6, <1>8, <1>9
<1>11. \A x \in Devices : disk[x] \subseteq disk'[x]
  BY <1>9 DEF merge
<1>12. \A l \in Logs' : Drawn(l)
  BY <1>10 DEF Logs
<1>13. late' = late /\ Claims' = Claims
  BY DEF Sync, Claims
<1> QED
  BY <1>9, <1>11, <1>12, <1>13, LogInvDrawn

-----------------------------------------------------------------------------
(* The invariant holds *)

LEMMA InitInv == Init => Inv
<1> SUFFICES ASSUME Init PROVE Inv
  OBVIOUS
<1>1. \A log \in Logs : log = {}
  BY DEF Init, Logs
<1>2. TypeOK
  BY MeshAssumption DEF Init, TypeOK, NoRecord, NoRun, Count
<1>3. Written
  BY <1>1, FS_EmptySet DEF Init, Written
<1>4. IdsUnique
  BY DEF Init, IdsUnique
<1>5. Joined /\ Limited /\ Handled
  BY DEF Init, Joined, Limited, Handled
<1>6. NoGaps
  BY <1>1 DEF NoGaps, Gapless
<1> QED
  BY <1>1, <1>2, <1>3, <1>4, <1>5, <1>6 DEF Inv, LogInv, Root

\* The events that a device appends keep the logs in order; with an empty log
\* it is at home, and appends both or nothing.
LEMMA AppendInv ==
  ASSUME Inv, NEW d \in Devices, NEW kinds \in KindLists, NEW adv \in Count,
         disk' = [disk EXCEPT ![d] = Appended(d, kinds, adv)],
         UNCHANGED <<served, hand, late>>,
         disk[d] # {} \/ (d = Home /\ kinds \in {<<>>, <<"offer", "claim">>})
  PROVE  /\ LogInv' /\ \A e \in Devices \ {d} : disk'[e] = disk[e]
         /\ disk'[d] = {} => disk[d] = {} /\ kinds = <<>>
<1>1. /\ disk \in [Devices -> SUBSET Events] /\ IsFiniteSet(disk[d]) /\ now \in 1 .. MaxTime
  BY DEF Inv, LogInv, Written, Logs, TypeOK
<1>2. PICK new : /\ Appended(d, kinds, adv) = disk[d] \cup new /\ Added(d, disk[d], new)
                 /\ kinds = <<>> <=> new = {}
                 /\ kinds = <<"offer", "claim">> => \E o, c \in new :
                      /\ new = {o, c} /\ o.kind = "offer" /\ c.kind = "claim" /\ o.hlc < c.hlc
  <2>1. disk[d] \in SUBSET Events
    BY <1>1
  <2> QED
    BY <1>1, <2>1, AppendedAdds, Zenon
<1>3. disk' = [disk EXCEPT ![d] = disk[d] \cup new] /\ disk'[d] = disk[d] \cup new
  BY <1>1, <1>2
<1>4. disk[d] # {} \/ new = {} \/ (d = Home /\ \E o, c \in new : new = {o, c} /\ Begun(o, c))
  <2>1. CASE kinds = <<"offer", "claim">> /\ d = Home
    <3>1. PICK o, c \in new : /\ new = {o, c} /\ o.kind = "offer" /\ c.kind = "claim"
                              /\ o.hlc < c.hlc
      BY <1>2, <2>1
    <3>2. o.dev = Home /\ c.dev = Home
      BY <1>2, <2>1 DEF Added
    <3> QED
      BY <2>1, <3>1, <3>2 DEF Begun
  <2>2. CASE kinds = <<>>
    BY <1>2, <2>2
  <2> QED
    BY <2>1, <2>2
<1>6. disk[d] = {} /\ new # {} => Claims = {}
  <2>1. ASSUME disk[d] = {}, new # {}, NEW x \in Devices PROVE hand[x] = {}
    <3>1. \A log \in Logs : log = {}
      BY <2>1, <1>4 DEF Inv, LogInv, Root, Rooting, Rooted, Logs
    <3>2. disk[x] = {}
      BY <3>1 DEF Logs
    <3> QED
      BY <3>2 DEF Inv, Joined
  <2> QED
    BY <2>1 DEF Claims
<1>5. LogInv'
  BY <1>2, <1>3, <1>4, <1>6, LogInvAdded DEF Inv
<1> QED
  BY <1>1, <1>2, <1>3, <1>5

Records == [status : {"none", "committed", "done"}, adv : Count, moved : Devices \cup {NoOne}]

\* Faults and events of other tasks stay within their bound.
LEMMA ExtraType ==
  ASSUME Inv, NEW more \in BOOLEAN, Extra(more)
  PROVE  extras' \in 0 .. MaxExtras
BY MeshAssumption DEF Inv, TypeOK, Extra

LEMMA TickStartInv ==
  ASSUME Inv, NEW d \in Devices, TickStart(d, task(disk[d], WallTime(d)))
  PROVE  Inv'
<1> DEFINE t == task(disk[d], WallTime(d))
           r == Reconciled(d, t, rec[d])
           kinds == Published(d, t, rec[d])
<1>1. /\ disk \in [Devices -> SUBSET Events] /\ IsFiniteSet(disk[d])
      /\ rec \in [Devices -> Records] /\ rec[d].adv \in Count
      /\ disk[d] \in SUBSET Events /\ rec[d] \in Records
  BY DEF Inv, LogInv, Written, Logs, TypeOK, Records
<1>2. t \in Reads
  BY <1>1, TaskType
<1>3. disk[d] = {} => d = Home /\ t.status = "unknown"
  BY EmptyRead DEF Inv, Joined, TickStart, NoTask
<1>4. /\ run[d] = NoRun /\ disk' = [disk EXCEPT ![d] = Appended(d, kinds, rec[d].adv)]
      /\ rec' = [rec EXCEPT ![d] = r]
      /\ run' = [run EXCEPT ![d] = IF Drives(r) /\ r.adv < MaxAdvances THEN r ELSE NoRun]
      /\ UNCHANGED <<served, seen, cards, hand, took, late, now, extras>>
  BY Zenon DEF TickStart
<1> HIDE DEF t
<1>5. r \in Records /\ r.adv = rec[d].adv /\ (t.status = "unknown" => r = rec[d])
  BY <1>1, <1>2, ReconciledType DEF Records
<1>6. /\ kinds \in KindLists
      /\ t.status = "unknown" => kinds \in {<<>>, <<"offer", "claim">>}
      /\ t.status = "unknown" /\ Drives(rec[d]) => kinds = <<"offer", "claim">>
  BY <1>2, PublishedKinds
<1> HIDE DEF r, kinds
<1>7. /\ LogInv' /\ \A e \in Devices \ {d} : disk'[e] = disk[e]
      /\ disk'[d] = {} => disk[d] = {} /\ kinds = <<>>
  BY <1>1, <1>3, <1>4, <1>6, AppendInv
<1>8. /\ rec' \in [Devices -> Records] /\ rec'[d] = r
      /\ \A e \in Devices \ {d} : rec'[e] = rec[e] /\ run'[e] = run[e]
      /\ run'[d] = IF Drives(r) /\ r.adv < MaxAdvances THEN r ELSE NoRun
  BY <1>1, <1>4, <1>5 DEF Inv, TypeOK
<1>9. TypeOK'
  <2>1. run'[d] \in [status : {"none", "committed"}, adv : Count, moved : {NoOne}]
    <3>1. CASE Drives(r) /\ r.adv < MaxAdvances
      <4>1. r.status = "committed" /\ r.moved = NoOne /\ run'[d] = r
        BY <1>8, <3>1 DEF Drives
      <4> QED
        BY <4>1, <1>5 DEF Records
    <3>2. CASE ~ (Drives(r) /\ r.adv < MaxAdvances)
      BY <1>8, <3>2, MeshAssumption DEF NoRun, NoRecord, Count
    <3> QED
      BY <3>1, <3>2
  <2>2. run' \in [Devices -> [status : {"none", "committed"}, adv : Count, moved : {NoOne}]]
    BY <1>4, <1>8, <2>1 DEF Inv, TypeOK
  <2> QED
    BY <1>4, <1>7, <1>8, <2>2 DEF Inv, TypeOK, LogInv, Written, Records
<1>10. Joined'
  <2> SUFFICES ASSUME NEW e \in Devices, disk'[e] = {}
               PROVE  /\ e # Home => rec'[e] = NoRecord
                      /\ run'[e] = NoRun /\ cards'[e] = {} /\ hand'[e] = {}
    BY DEF Joined
  <2>1. CASE e # d
    BY <1>4, <1>7, <1>8, <2>1 DEF Inv, Joined
  <2>2. CASE e = d
    <3>1. disk[d] = {} /\ kinds = <<>>
      BY <1>7, <2>2
    <3>2. <<>> # <<"offer", "claim">>
      OBVIOUS
    <3>3. ~ Drives(r)
      BY <1>3, <1>5, <1>6, <3>1, <3>2
    <3> QED
      BY <1>3, <1>4, <1>8, <2>2, <3>1, <3>3 DEF Inv, Joined
  <2> QED
    BY <2>1, <2>2
<1>11. Limited' /\ Handled'
  BY <1>4, <1>8 DEF Inv, Limited, Handled
<1> QED
  BY <1>7, <1>9, <1>10, <1>11 DEF Inv

\* How a run may end.
Outcomes(o) ==
  {o} \cup {[o EXCEPT !.adv = @ + 1, !.status = s] : s \in {"committed", "done"}}

\* A run that ends leaves a record with one advance more, or none.
LEMMA RunEnded ==
  ASSUME NEW o \in [status : {"none", "committed"}, adv : Count, moved : {NoOne}],
         o.adv < MaxAdvances, NEW r \in Outcomes(o)
  PROVE  r \in Records /\ r.adv \in {o.adv, o.adv + 1} /\ r.adv \in Count
<1>1. o.adv + 1 \in Count
  BY MeshAssumption DEF Count
<1>2. PICK n \in Count : n = o.adv + 1
  BY <1>1
<1>3. CASE r = o
  BY <1>3 DEF Records
<1>4. ASSUME NEW s \in {"committed", "done"}, r = [o EXCEPT !.adv = @ + 1, !.status = s]
      PROVE  r \in Records /\ r.adv = n
  <2>1. r = [o EXCEPT !.adv = n, !.status = s]
    BY <1>2, <1>4
  <2>2. [o EXCEPT !.adv = n, !.status = s] \in Records
    BY DEF Records
  <2>3. [o EXCEPT !.adv = n, !.status = s].adv = n
    OBVIOUS
  <2> QED
    BY <2>1, <2>2, <2>3
<1> QED
  BY <1>2, <1>3, <1>4 DEF Outcomes

LEMMA TickEndInv ==
  ASSUME Inv, NEW d \in Devices, TickEnd(d)
  PROVE  Inv'
<1> DEFINE t == task(disk[d], WallTime(d))
<1>1. PICK r \in Outcomes(run[d]) :
        /\ disk' = [disk EXCEPT ![d] = Appended(d, Published(d, t, r), r.adv)]
        /\ rec' = [rec EXCEPT ![d] = Reconciled(d, t, r)]
        /\ Extra(r = run[d])
  BY Zenon DEF TickEnd, Outcomes
<1> DEFINE kinds == Published(d, t, r)
<1>2. /\ run[d] # NoRun /\ run' = [run EXCEPT ![d] = NoRun]
      /\ UNCHANGED <<served, seen, cards, hand, took, late, now>>
  BY Zenon DEF TickEnd
<1>3. /\ disk \in [Devices -> SUBSET Events] /\ IsFiniteSet(disk[d])
      /\ rec \in [Devices -> Records] /\ disk[d] \in SUBSET Events /\ disk[d] # {}
      /\ run[d] \in [status : {"none", "committed"}, adv : Count, moved : {NoOne}]
      /\ run[d].adv < MaxAdvances
  BY <1>2 DEF Inv, LogInv, Written, Logs, TypeOK, Records, Joined, Limited
<1>4. t \in Reads
  BY <1>3, TaskType
<1>5. r \in Records /\ r.adv \in Count
  BY <1>3, RunEnded
<1> HIDE DEF t
<1>6. Reconciled(d, t, r) \in Records
  BY <1>4, <1>5, ReconciledType DEF Records
<1>7. kinds \in KindLists
  BY <1>4, PublishedKinds
<1> HIDE DEF kinds
<1>8. /\ LogInv' /\ \A e \in Devices \ {d} : disk'[e] = disk[e]
      /\ disk'[d] # {}
  <2>1. disk' = [disk EXCEPT ![d] = Appended(d, kinds, r.adv)]
    BY <1>1 DEF kinds
  <2> QED
    BY <2>1, <1>2, <1>3, <1>5, <1>7, AppendInv
<1>9. /\ rec' \in [Devices -> Records]
      /\ \A e \in Devices \ {d} : rec'[e] = rec[e] /\ run'[e] = run[e]
      /\ run' \in [Devices -> [status : {"none", "committed"}, adv : Count, moved : {NoOne}]]
      /\ run'[d] = NoRun
  BY <1>1, <1>2, <1>3, <1>6, MeshAssumption DEF Inv, TypeOK, NoRun, NoRecord, Count
<1>13. extras' \in 0 .. MaxExtras
  BY <1>1, ExtraType
<1>10. TypeOK'
  BY <1>2, <1>8, <1>9, <1>13 DEF Inv, TypeOK, LogInv, Written, Records
<1>11. Joined'
  BY <1>2, <1>8, <1>9 DEF Inv, Joined
<1>12. Limited' /\ Handled'
  BY <1>2, <1>9 DEF Inv, Limited, Handled
<1> QED
  BY <1>8, <1>10, <1>11, <1>12 DEF Inv

LEMMA OthersInv ==
  ASSUME Inv, NEW d \in Devices, Others(d)
  PROVE  Inv'
<1>1. /\ hand[d] # {} /\ disk' = [disk EXCEPT ![d] = Appended(d, <<"other">>, 0)]
      /\ UNCHANGED <<served, rec, run, seen, cards, hand, took, late, now>>
      /\ Extra(TRUE)
  BY Zenon DEF Others
<1>2. disk[d] # {} /\ 0 \in Count /\ <<"other">> \in KindLists
  BY <1>1, MeshAssumption DEF Inv, Joined, Count, KindLists
<1>3. /\ LogInv' /\ \A e \in Devices \ {d} : disk'[e] = disk[e]
      /\ disk'[d] # {}
  BY <1>1, <1>2, AppendInv
<1>4. extras' \in 0 .. MaxExtras
  BY <1>1, ExtraType
<1>5. TypeOK'
  BY <1>1, <1>3, <1>4 DEF Inv, TypeOK, LogInv, Written
<1>6. Joined' /\ Limited' /\ Handled'
  BY <1>1, <1>2, <1>3 DEF Inv, Joined, Limited, Handled
<1> QED
  BY <1>3, <1>5, <1>6 DEF Inv

LEMMA SyncInv ==
  ASSUME Inv, NEW d \in Devices, NEW p \in Devices, Sync(d, p)
  PROVE  Inv'
<1>1. LogInv' /\ \A x \in Devices : disk[x] \subseteq disk'[x]
  BY LogInvSync DEF Inv
<1>2. UNCHANGED <<rec, run, seen, cards, hand, took, late, now, extras>>
  BY Zenon DEF Sync
<1>3. TypeOK'
  BY <1>1, <1>2 DEF Inv, TypeOK, LogInv, Written
<1>4. Joined' /\ Limited' /\ Handled'
  BY <1>1, <1>2 DEF Inv, Joined, Limited, Handled
<1> QED
  BY <1>1, <1>3, <1>4 DEF Inv

LEMMA ScanInv ==
  ASSUME Inv, NEW d \in Devices, Scan(d, task(disk[d], WallTime(d)))
  PROVE  Inv'
<1> DEFINE t == task(disk[d], WallTime(d))
<1>1. disk[d] \in SUBSET Events /\ IsFiniteSet(disk[d])
  BY DEF Inv, LogInv, Written, Logs
<1>2. t \in Reads
  BY <1>1, TaskType
<1>3. disk[d] # {}
  BY EmptyRead DEF Scan, NoTask
<1>4. /\ seen' = [seen EXCEPT ![d] = @ \cup {t.epoch}]
      /\ cards' = [cards EXCEPT ![d] = @ \cup {[epoch |-> t.epoch, adv |-> t.adv]}]
      /\ UNCHANGED <<disk, served, rec, run, hand, took, late, now, extras>>
  BY Zenon DEF Scan
<1> HIDE DEF t
<1>5. t.epoch \in Nat /\ t.adv \in Count
  BY <1>2 DEF Reads
<1>6. LogInv'
  BY <1>4, LogInvStill DEF Inv, Claims
<1>7. TypeOK'
  <2>1. ASSUME NEW e \in Devices
        PROVE  seen'[e] \cup took'[e] \subseteq Nat /\ cards'[e] \subseteq Cards
    BY <1>4, <1>5 DEF Inv, TypeOK, Cards
  <2> QED
    BY <1>4, <2>1 DEF Inv, TypeOK
<1>8. Joined' /\ Limited' /\ Handled'
  <2>1. \A e \in Devices : e # d => cards'[e] = cards[e]
    BY <1>4 DEF Inv, TypeOK
  <2> QED
    BY <1>3, <1>4, <2>1 DEF Inv, Joined, Limited, Handled
<1> QED
  BY <1>6, <1>7, <1>8 DEF Inv

\* Taking elements out of one of several sets, or putting them in.
LEMMA OneLess ==
  ASSUME NEW f, NEW g, NEW d, NEW S, g = [f EXCEPT ![d] = @ \ S]
  PROVE  \A e : g[e] \subseteq f[e]
<1>1. CASE d \in DOMAIN f
  BY <1>1
<1>2. CASE d \notin DOMAIN f
  BY <1>2
<1> QED
  BY <1>1, <1>2

LEMMA OneMore ==
  ASSUME NEW f, NEW g, NEW d, NEW S, NEW T, g = [f EXCEPT ![d] = (@ \ S) \cup T]
  PROVE  /\ g[d] \subseteq f[d] \cup T
         /\ \A e : e # d => g[e] = f[e]
<1>1. CASE d \in DOMAIN f
  BY <1>1
<1>2. CASE d \notin DOMAIN f
  BY <1>2
<1> QED
  BY <1>1, <1>2

LEMMA AcceptOpensInv ==
  ASSUME Inv, NEW d \in Devices, NEW c \in cards[d], AcceptOpens(d, c)
  PROVE  Inv'
<1> DEFINE claim == Event(d, "claim", NextClock(d), 0)
           owner == task(merge(disk[d], {claim}), WallTime(d)).owner
           h     == [card |-> c, claim |-> {claim}, won |-> owner \in {d, NoOne}]
<1>1. /\ cards' = [cards EXCEPT ![d] = @ \ {c}]
      /\ hand' = [hand EXCEPT ![d] = @ \cup {h}]
      /\ UNCHANGED <<disk, served, rec, run, seen, took, late, now, extras>>
  BY Zenon DEF AcceptOpens
<1>2. c \in Cards /\ disk[d] # {} /\ disk[d] \in SUBSET Events /\ IsFiniteSet(disk[d])
  BY DEF Inv, TypeOK, Joined, LogInv, Written, Logs
<1>3. claim \in Events /\ claim.dev = d /\ \A f \in disk[d] : f.hlc < claim.hlc
  <2>1. Clock(disk[d]) \in Nat /\ \A f \in disk[d] : f.hlc < Clock(disk[d])
    BY <1>2, ClockAhead
  <2>2. WallTime(d) \in Nat
    BY MeshAssumption DEF Inv, TypeOK, WallTime
  <2>3. NextClock(d) \in Nat /\ NextClock(d) > Clock(disk[d])
    BY <2>1, <2>2, TickType DEF NextClock
  <2>4. \A f \in disk[d] : f.hlc \in Nat
    BY <1>2 DEF Events
  <2>5. 0 \in Count
    BY MeshAssumption DEF Count
  <2>6. \A f \in disk[d] : f.hlc < NextClock(d)
    BY <2>1, <2>3, <2>4
  <2> QED
    BY <2>2, <2>3, <2>5, <2>6 DEF Event, Events, Kinds
<1> HIDE DEF claim, owner
<1>4. h \in [card : Cards, claim : SUBSET Events, won : BOOLEAN] /\ h.claim = {claim}
  BY <1>2, <1>3
<1> HIDE DEF h
<1>5. \A e \in Devices : hand'[e] \subseteq hand[e] \cup (IF e = d THEN {h} ELSE {})
  <2>1. hand' = [hand EXCEPT ![d] = (@ \ {}) \cup {h}]
    BY <1>1
  <2> QED
    BY <2>1, OneMore
<1>6. \A e \in Devices : cards'[e] \subseteq cards[e]
  BY <1>1, OneLess
<1>7. \A x \in Claims' : x \in Claims \/ x = claim
  BY <1>4, <1>5 DEF Claims
<1>8. LogInv'
  BY <1>1, <1>2, <1>3, <1>7, LogInvStill DEF Inv
<1>9. TypeOK'
  <2>1. ASSUME NEW e \in Devices
        PROVE  hand'[e] \subseteq [card : Cards, claim : SUBSET Events, won : BOOLEAN]
    BY <1>4, <1>5 DEF Inv, TypeOK
  <2>2. \A e \in Devices : cards'[e] \subseteq Cards
    BY <1>6 DEF Inv, TypeOK
  <2> QED
    BY <1>1, <2>1, <2>2 DEF Inv, TypeOK
<1>10. Joined'
  BY <1>1, <1>2, <1>5, <1>6 DEF Inv, Joined
<1>11. Limited' /\ Handled'
  BY <1>1, <1>3, <1>4, <1>5 DEF Inv, Limited, Handled
<1> QED
  BY <1>8, <1>9, <1>10, <1>11 DEF Inv

LEMMA AcceptWritesInv ==
  ASSUME Inv, NEW d \in Devices, NEW h \in hand[d], NEW e \in h.claim, AcceptWrites(d, h, e)
  PROVE  Inv'
<1> DEFINE left(fails) == IF fails \/ h.won THEN {[h EXCEPT !.claim = {}, !.won = TRUE]} ELSE {}
<1>1. PICK fails \in BOOLEAN :
        /\ disk' = IF fails \/ Taken(d, e) THEN disk
                   ELSE [disk EXCEPT ![d] = merge(@, {e})]
        /\ late' = IF ~ fails /\ Overtaken(d, e) THEN late \cup {e} ELSE late
        /\ hand' = [hand EXCEPT ![d] = (@ \ {h}) \cup left(fails)]
        /\ Extra(fails)
  BY Zenon DEF AcceptWrites
<1>2. UNCHANGED <<served, rec, run, seen, cards, took, now>>
  BY Zenon DEF AcceptWrites
<1>3. /\ h \in [card : Cards, claim : SUBSET Events, won : BOOLEAN]
      /\ e \in Events /\ e.dev = d /\ e \in Claims /\ disk[d] # {}
      /\ disk \in [Devices -> SUBSET Events]
  BY DEF Inv, TypeOK, Handled, Claims, Joined, LogInv, Written
<1>4. \A k \in left(fails) : k \in [card : Cards, claim : SUBSET Events, won : BOOLEAN]
                             /\ k.claim = {}
  BY <1>3
<1> HIDE DEF left
<1>5. \A x \in Devices : hand'[x] \subseteq hand[x] \cup (IF x = d THEN left(fails) ELSE {})
  BY <1>1, OneMore
<1>6. Claims' \subseteq Claims
  BY <1>4, <1>5 DEF Claims
<1>7. late \subseteq late' /\ late' \subseteq Events
  BY <1>1, <1>3 DEF Inv, TypeOK
<1>8. LogInv' /\ \A x \in Devices : disk[x] \subseteq disk'[x]
  <2>1. CASE disk' = disk
    BY <2>1, <1>2, <1>6, <1>7, LogInvStill DEF Inv
  <2>2. CASE disk' # disk
    <3>1. ~ fails /\ ~ Taken(d, e) /\ disk' = [disk EXCEPT ![d] = disk[d] \cup {e}]
      BY <2>2, <1>1, <1>3 DEF merge
    <3>2. Untaken(d, e)
      BY <3>1, <1>3 DEF Taken, Untaken
    <3>3. e \in late' \/ Youngest(d, e)
      <4>1. CASE Overtaken(d, e)
        BY <4>1, <3>1, <1>1
      <4>2. CASE ~ Overtaken(d, e)
        <5>1. \A f \in disk[d] : f.hlc \in Nat /\ e.hlc \in Nat
          BY <1>3 DEF Events
        <5> QED
          BY <4>2, <3>2, <5>1, <1>3 DEF Overtaken, Untaken, Youngest
      <4> QED
        BY <4>1, <4>2
    <3>4. LogInv'
      <4>1. LogInv /\ served' = served /\ late \subseteq late'
        BY <1>2, <1>7 DEF Inv
      <4>2. disk' = [disk EXCEPT ![d] = disk[d] \cup {e}]
        BY <3>1
      <4>3. e \in Claims /\ disk[d] # {}
        BY <1>3
      <4> QED
        BY <3>2, <3>3, <1>6, <4>1, <4>2, <4>3, LogInvClaimed
    <3> QED
      BY <3>1, <3>4, <1>3
  <2> QED
    BY <2>1, <2>2
<1>9. extras' \in 0 .. MaxExtras
  BY <1>1, ExtraType
<1>10. TypeOK'
  <2>1. ASSUME NEW x \in Devices
        PROVE  hand'[x] \subseteq [card : Cards, claim : SUBSET Events, won : BOOLEAN]
    BY <1>4, <1>5 DEF Inv, TypeOK
  <2> QED
    BY <1>2, <1>7, <1>8, <1>9, <2>1 DEF Inv, TypeOK, LogInv, Written
<1>11. Joined'
  BY <1>2, <1>3, <1>5, <1>8 DEF Inv, Joined
<1>12. Limited' /\ Handled'
  BY <1>2, <1>4, <1>5 DEF Inv, Limited, Handled
<1> QED
  BY <1>8, <1>10, <1>11, <1>12 DEF Inv

LEMMA AcceptEndsInv ==
  ASSUME Inv, NEW d \in Devices, NEW h \in hand[d], AcceptEnds(d, h)
  PROVE  Inv'
<1>1. /\ hand' = [hand EXCEPT ![d] = @ \ {h}]
      /\ rec' = [rec EXCEPT ![d] = Adopted(d, h.card)]
      /\ took' = [took EXCEPT ![d] = @ \cup {h.card.epoch}]
      /\ UNCHANGED <<disk, served, run, seen, cards, late, now, extras>>
  BY Zenon DEF AcceptEnds
<1>2. rec \in [Devices -> Records] /\ h.card \in Cards /\ disk[d] # {}
  BY DEF Inv, TypeOK, Joined, Records
<1>3. Adopted(d, h.card) \in Records
  BY <1>2 DEF Adopted, Later, Records, Count, Cards
<1>4. rec' \in [Devices -> Records] /\ \A x \in Devices \ {d} : rec'[x] = rec[x]
  BY <1>1, <1>2, <1>3
<1>5. \A x \in Devices : hand'[x] \subseteq hand[x]
  BY <1>1, OneLess
<1>6. \A x \in Devices : took'[x] \subseteq took[x] \cup {h.card.epoch}
  <2>1. took' = [took EXCEPT ![d] = (@ \ {}) \cup {h.card.epoch}]
    BY <1>1
  <2> QED
    BY <2>1, OneMore
<1>7. LogInv'
  <2>1. Claims' \subseteq Claims
    BY <1>5 DEF Claims
  <2> QED
    BY <1>1, <2>1, LogInvStill DEF Inv
<1>8. TypeOK'
  <2>1. ASSUME NEW x \in Devices
        PROVE  seen'[x] \cup took'[x] \subseteq Nat /\
               hand'[x] \subseteq [card : Cards, claim : SUBSET Events, won : BOOLEAN]
    BY <1>1, <1>2, <1>5, <1>6 DEF Inv, TypeOK, Cards
  <2> QED
    BY <1>1, <1>4, <2>1 DEF Inv, TypeOK, Records
<1>9. Joined'
  BY <1>1, <1>2, <1>4, <1>5 DEF Inv, Joined
<1>10. Limited' /\ Handled'
  BY <1>1, <1>5 DEF Inv, Limited, Handled
<1> QED
  BY <1>7, <1>8, <1>9, <1>10 DEF Inv

LEMMA RestartInv ==
  ASSUME Inv, NEW d \in Devices, Restart(d)
  PROVE  Inv'
<1>1. /\ run' = [run EXCEPT ![d] = NoRun] /\ served' = [served EXCEPT ![d] = disk[d]]
      /\ hand' = [hand EXCEPT ![d] = {}] /\ Extra(TRUE)
      /\ UNCHANGED <<disk, rec, seen, cards, took, late, now>>
  BY Zenon DEF Restart
<1>2. disk \in [Devices -> SUBSET Events] /\ served \in [Devices -> SUBSET Events]
  BY DEF Inv, LogInv, Written
<1>8. \A e \in Devices : hand'[e] \subseteq hand[e]
  <2>1. hand' = [hand EXCEPT ![d] = @ \ hand[d]]
    BY <1>1
  <2> QED
    BY <2>1, OneLess
<1>3. LogInv'
  <2>1. \A log \in Logs' : log \in Logs
    BY <1>1, <1>2 DEF Logs
  <2>2. served' \in [Devices -> SUBSET Events]
    BY <1>1, <1>2
  <2>3. \A log \in Logs' : Drawn(log)
    BY <2>1, DrawnLogs DEF Inv
  <2>4. Claims' \subseteq Claims
    BY <1>8 DEF Claims
  <2> QED
    BY <1>1, <1>2, <2>2, <2>3, <2>4, LogInvDrawn DEF Inv
<1>4. /\ run' \in [Devices -> [status : {"none", "committed"}, adv : Count, moved : {NoOne}]]
      /\ \A e \in Devices : run'[e] = run[e] \/ run'[e] = NoRun
  BY <1>1, MeshAssumption DEF Inv, TypeOK, NoRun, NoRecord, Count
<1>5. extras' \in 0 .. MaxExtras
  BY <1>1, ExtraType
<1>6. TypeOK'
  <2>1. \A e \in Devices :
          hand'[e] \subseteq [card : Cards, claim : SUBSET Events, won : BOOLEAN]
    BY <1>8 DEF Inv, TypeOK
  <2> QED
    BY <1>1, <1>3, <1>4, <1>5, <2>1 DEF Inv, TypeOK, LogInv, Written
<1>7. Joined' /\ Limited' /\ Handled'
  BY <1>1, <1>4, <1>8 DEF Inv, Joined, Limited, Handled
<1> QED
  BY <1>3, <1>6, <1>7 DEF Inv

LEMMA StillInv ==
  ASSUME Inv, UNCHANGED <<disk, served, rec, run, seen, cards, hand, took, late, extras>>,
         now' \in 1 .. MaxTime
  PROVE  Inv'
<1>1. LogInv'
  BY LogInvStill DEF Inv, Claims
<1>2. TypeOK'
  BY DEF Inv, TypeOK
<1>3. Joined' /\ Limited' /\ Handled'
  BY DEF Inv, Joined, Limited, Handled
<1> QED
  BY <1>1, <1>2, <1>3 DEF Inv

LEMMA NextInv == Inv /\ [Next]_vars => Inv'
<1> SUFFICES ASSUME Inv, [Next]_vars PROVE Inv'
  OBVIOUS
<1>1. ASSUME NEW d \in Devices, TickStart(d, task(disk[d], WallTime(d))) PROVE Inv'
  BY <1>1, TickStartInv
<1>2. ASSUME NEW d \in Devices, Scan(d, task(disk[d], WallTime(d))) PROVE Inv'
  BY <1>2, ScanInv
<1>3. ASSUME NEW d \in Devices, TickEnd(d) PROVE Inv'
  BY <1>3, TickEndInv
<1>4. ASSUME NEW d \in Devices, Restart(d) PROVE Inv'
  BY <1>4, RestartInv
<1>5. ASSUME NEW d \in Devices, NEW p \in Devices, Sync(d, p) PROVE Inv'
  BY <1>5, SyncInv
<1>6. ASSUME NEW d \in Devices, NEW c \in cards[d], AcceptOpens(d, c) PROVE Inv'
  BY <1>6, AcceptOpensInv
<1>9. ASSUME NEW d \in Devices, NEW h \in hand[d], AcceptEnds(d, h) PROVE Inv'
  BY <1>9, AcceptEndsInv
<1>10. ASSUME NEW d \in Devices, NEW h \in hand[d], NEW e \in h.claim, AcceptWrites(d, h, e)
       PROVE  Inv'
  BY <1>10, AcceptWritesInv
<1>11. ASSUME NEW d \in Devices, Others(d) PROVE Inv'
  BY <1>11, OthersInv
<1>7. CASE TimePasses
  <2>1. now' \in 1 .. MaxTime
    BY <1>7, MeshAssumption DEF TimePasses, Inv, TypeOK
  <2> QED
    BY <1>7, <2>1, StillInv DEF TimePasses
<1>8. CASE UNCHANGED vars
  <2>1. now' \in 1 .. MaxTime
    BY <1>8 DEF vars, Inv, TypeOK
  <2> QED
    BY <1>8, <2>1, StillInv DEF vars
<1> QED
  BY <1>1, <1>2, <1>3, <1>4, <1>5, <1>6, <1>7, <1>8, <1>9, <1>10, <1>11, Zenon DEF Next

LEMMA SpecInv == Spec => []Inv
BY InitInv, NextInv, PTL DEF Spec

-----------------------------------------------------------------------------
(* What the project relies on *)

\* Every variable keeps its type.
THEOREM MeshTypes == Spec => []TypeOK
<1>1. Inv => TypeOK
  BY DEF Inv
<1> QED
  BY <1>1, SpecInv, PTL

\* A frontier, one clock for each device, tells what a log has, however the
\* wall clocks of the devices differ and a handler races with the loop of its
\* device: ids are unique, and the delta between any two logs leaves nothing
\* out but claims of handlers that were overtaken on the way to the file.
THEOREM FrontiersSuffice == Spec => []FrontiersTell
<1>1. Inv => NothingSkipped
  <2> SUFFICES ASSUME Inv, NEW mine \in Logs, NEW theirs \in Logs
               PROVE  mine \ theirs \subseteq delta(mine, theirs) \cup late
    BY DEF NothingSkipped, Logs
  <2> QED
    BY DeltaExact DEF Inv, LogInv, NoGaps
<1>2. Inv => IdsUnique
  BY DEF Inv, LogInv
<1> QED
  BY <1>1, <1>2, SpecInv, PTL DEF FrontiersTell

\* Devices that know the same log and have reconciled with it have at most one
\* among them that drives the goal.
THEOREM SingleDriver == Spec => []OneDriver
<1>1. Inv => OneDriver
  <2> SUFFICES ASSUME Inv, Settled, NEW d \in Devices, NEW e \in Devices,
                      Drives(rec[d]), Drives(rec[e])
               PROVE  d = e
    BY DEF OneDriver
  <2>1. /\ disk \in [Devices -> SUBSET Events] /\ rec \in [Devices -> Records]
        /\ \A x \in Devices : disk[x] = disk[Home] /\ IsFiniteSet(disk[x]) /\ disk[x] \in Logs
    BY MeshAssumption DEF Inv, LogInv, Written, Logs, TypeOK, Records, Settled
  <2>2. CASE disk[Home] = {}
    <3>1. \A x \in Devices : Drives(rec[x]) => x = Home
      BY <2>1, <2>2 DEF Inv, Joined, Drives, NoRecord
    <3> QED
      BY <3>1
  <2>3. CASE disk[Home] # {}
    <3>1. PICK o, c \in disk[Home] :
            Begun(o, c) /\ \A log \in Logs : log = {} \/ Rooted(log, o, c)
      BY <2>1, <2>3, MeshAssumption DEF Inv, LogInv, Root, Rooting
    <3>2. PICK y \in Devices : \A x \in Devices : task(disk[x], WallTime(x)).owner = y
      <4>1. PICK f \in Tasks : f = Folded(Applied, NoTask, disk[Home]) /\ Owned(f)
        BY <2>1, <2>3, <3>1, RootedTask, MeshAssumption
      <4>2. ASSUME NEW x \in Devices PROVE task(disk[x], WallTime(x)).owner = f.owner
        <5>1. task(disk[x], WallTime(x)) =
                IF f.status = "claimed" /\ f.until < WallTime(x)
                  THEN [f EXCEPT !.status = "reclaimable"] ELSE f
          BY <2>1, <4>1, Zenon DEF task
        <5> QED
          BY <5>1 DEF Tasks
      <4> QED
        BY <4>1, <4>2 DEF Owned
    <3>3. ASSUME NEW x \in Devices, Drives(rec[x]) PROVE y = x
      <4> DEFINE t == task(disk[x], WallTime(x))
      <4>5. t.owner = y /\ t.status \in {"claimed", "done", "reclaimable"}
        BY <2>1, <2>3, <3>1, <3>2, RootedRead, MeshAssumption
      <4> HIDE DEF t
      <4>1. Reconciled(x, t, rec[x]) = rec[x]
        BY <2>1, Zenon DEF Settled, t
      <4>2. rec[x] \in Records /\ rec[x].status = "committed" /\ rec[x].moved = NoOne
        BY <2>1, <3>3 DEF Drives
      <4>3. CASE t.status = "done"
        BY <4>1, <4>2, <4>3 DEF Reconciled, Records
      <4>4. CASE t.status \notin {"unknown", "done"}
        <5>1. Reconciled(x, t, rec[x]) =
                [rec[x] EXCEPT !.moved = IF t.owner \in {x, NoOne} THEN NoOne ELSE t.owner]
          BY <4>4 DEF Reconciled
        <5> QED
          BY <4>1, <4>2, <4>5, <5>1, MeshAssumption DEF Records
      <4> QED
        BY <4>3, <4>4, <4>5
    <3> QED
      BY <3>3
  <2> QED
    BY <2>2, <2>3
<1> QED
  BY <1>1, SpecInv, PTL

\* No step takes advances away that a device has counted, except the end of a
\* run that was begun with fewer.
THEOREM AdvancesStay == Spec => AdvancesKept
<1> DEFINE Kept == \A d \in Devices :
             rec'[d].adv < rec[d].adv => run[d].adv < rec[d].adv /\ run[d] # NoRun
<1>1. Inv /\ [Next]_vars => [Kept]_vars
  <2> SUFFICES ASSUME Inv, Next PROVE Kept
    OBVIOUS
  <2>1. /\ rec \in [Devices -> Records] /\ \A d \in Devices : rec[d].adv \in Nat
        /\ \A d \in Devices : run[d].adv \in Nat
        /\ \A d \in Devices : disk[d] \in SUBSET Events /\ IsFiniteSet(disk[d])
    BY MeshAssumption DEF Inv, LogInv, Written, Logs, TypeOK, Records, Count
  <2>2. CASE rec' = rec
    BY <2>1, <2>2
  <2>3. ASSUME NEW d \in Devices, TickStart(d, task(disk[d], WallTime(d))) PROVE Kept
    <3> DEFINE t == task(disk[d], WallTime(d))
    <3>1. rec' = [rec EXCEPT ![d] = Reconciled(d, t, rec[d])]
      BY <2>3, Zenon DEF TickStart
    <3>2. t \in Reads
      BY <2>1, TaskType
    <3> HIDE DEF t
    <3>3. Reconciled(d, t, rec[d]).adv = rec[d].adv
      BY <2>1, <3>2, ReconciledType DEF Records
    <3> QED
      BY <2>1, <3>1, <3>3
  <2>4. ASSUME NEW d \in Devices, TickEnd(d) PROVE Kept
    <3> DEFINE t == task(disk[d], WallTime(d))
    <3>1. PICK r \in Outcomes(run[d]) : rec' = [rec EXCEPT ![d] = Reconciled(d, t, r)]
      BY <2>4, Zenon DEF TickEnd, Outcomes
    <3>2. t \in Reads
      BY <2>1, TaskType
    <3>3. run[d] # NoRun /\ run[d].adv < MaxAdvances
          /\ run[d] \in [status : {"none", "committed"}, adv : Count, moved : {NoOne}]
      BY <2>4 DEF TickEnd, Inv, Limited, TypeOK
    <3>4. r \in Records /\ r.adv \in {run[d].adv, run[d].adv + 1}
      BY <3>3, RunEnded
    <3> HIDE DEF t
    <3>5. Reconciled(d, t, r).adv = r.adv
      BY <3>2, <3>4, ReconciledType DEF Records
    <3>6. rec'[d].adv = r.adv /\ \A e \in Devices \ {d} : rec'[e] = rec[e]
      BY <2>1, <3>1, <3>5
    <3> QED
      BY <2>1, <3>3, <3>4, <3>6
  <2>5. ASSUME NEW d \in Devices, NEW h \in hand[d], AcceptEnds(d, h) PROVE Kept
    <3>1. rec' = [rec EXCEPT ![d] = Adopted(d, h.card)]
      BY <2>5, Zenon DEF AcceptEnds
    <3>2. h.card.adv \in Nat
      BY MeshAssumption DEF Inv, TypeOK, Count, Cards
    <3>3. Adopted(d, h.card).adv >= rec[d].adv
      BY <2>1, <3>2 DEF Adopted, Later
    <3>4. Adopted(d, h.card).adv \in Nat
      BY <2>1, <3>2 DEF Adopted, Later
    <3> QED
      BY <2>1, <2>2, <3>1, <3>3, <3>4
  <2>10. ASSUME NEW d \in Devices, NEW h \in hand[d], NEW e \in h.claim, AcceptWrites(d, h, e)
         PROVE  Kept
    BY <2>2, <2>10, Zenon DEF AcceptWrites
  <2>11. ASSUME NEW d \in Devices, NEW c \in cards[d], AcceptOpens(d, c) PROVE Kept
    BY <2>2, <2>11, Zenon DEF AcceptOpens
  <2>12. ASSUME NEW d \in Devices, Others(d) PROVE Kept
    BY <2>2, <2>12, Zenon DEF Others
  <2>6. ASSUME NEW d \in Devices, NEW p \in Devices, Sync(d, p) PROVE Kept
    BY <2>2, <2>6, Zenon DEF Sync
  <2>7. ASSUME NEW d \in Devices, Scan(d, task(disk[d], WallTime(d))) PROVE Kept
    BY <2>2, <2>7, Zenon DEF Scan
  <2>8. ASSUME NEW d \in Devices, Restart(d) PROVE Kept
    BY <2>2, <2>8, Zenon DEF Restart
  <2>9. CASE TimePasses
    BY <2>2, <2>9, Zenon DEF TimePasses
  <2> HIDE DEF Kept
  <2> QED
    BY <2>3, <2>4, <2>5, <2>6, <2>7, <2>8, <2>9, <2>10, <2>11, <2>12, Zenon DEF Next
<1> QED
  BY <1>1, SpecInv, PTL DEF Spec, AdvancesKept

=============================================================================
