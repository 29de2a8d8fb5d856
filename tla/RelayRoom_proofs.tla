---------------------------- MODULE RelayRoom_proofs ----------------------------
(* Proofs about RelayRoom, for every value of its constants. *)
EXTENDS RelayRoom, FiniteSetTheorems, FunctionTheorems, TLAPS

\* A task holds a room exactly while it is in its handler.
Placed == \A w \in Conns : pc[w] = "away" <=> room[w] = 0

\* A client that exchanges frames is the client of its room.
Serving == \A w \in Clients : pc[w] = "pump" => w \in client[room[w]]

\* A room in the table is held by a task that came for its name.
Kept == \A rid \in Rids :
          rooms[rid] # 0 => \E w \in Conns : room[w] = rooms[rid] /\ RidOf[w] = rid

\* The tasks in one room came for one name.
Named == \A u, v \in Conns : room[u] = room[v] /\ room[u] # 0 => RidOf[u] = RidOf[v]

\* The inductive invariant: NoLeakedRoom and OneClient depend on each other
\* through what the slots of a room refer to.
RoomInv == TypeOK /\ Placed /\ Serving /\ Kept /\ Named /\ NoGhost

ConsoleSlots == {{}} \cup {{w} : w \in Consoles}
ClientSlots  == {{}} \cup {{w} : w \in Clients}

LEMMA CountConns == Cardinality(Conns) \in Nat
  BY RelayAssumption, FS_CardinalityType

\* There is always a room object nobody refers to (more objects than tasks).
LEMMA FreshRoom ==
  ASSUME TypeOK, Kept
  PROVE  /\ Fresh \in RoomIds
         /\ \A w \in Conns : room[w] # Fresh
         /\ \A rid \in Rids : rooms[rid] # Fresh
<1> DEFINE Held == {room[w] : w \in Conns}
<1>1. IsFiniteSet(Held) /\ Cardinality(Held) <= Cardinality(Conns)
  <2>1. room \in Surjection(Conns, Held)
    <3>1. room \in [Conns -> Held]
      BY DEF TypeOK
    <3>2. \A t \in Held : \E w \in Conns : room[w] = t
      OBVIOUS
    <3>3. QED
      BY <3>1, <3>2, Fun_IsSurj
  <2>2. QED
    BY <2>1, RelayAssumption, FS_Surjection
<1>2. IsFiniteSet(RoomIds) /\ Cardinality(RoomIds) = Cardinality(Conns) + 1
  BY CountConns, FS_Interval DEF RoomIds
<1>3. \E r \in RoomIds : r \notin Held
  <2>1. SUFFICES ASSUME RoomIds \subseteq Held PROVE FALSE
    OBVIOUS
  <2>2. Cardinality(RoomIds) <= Cardinality(Held)
    BY <1>1, <2>1, FS_Subset
  <2>3. QED
    BY <1>1, <1>2, <2>2, CountConns, FS_CardinalityType
<1>4. \E r \in RoomIds : /\ \A w \in Conns : room[w] # r
                         /\ \A rid \in Rids : rooms[rid] # r
  <2>1. PICK r \in RoomIds : r \notin Held
    BY <1>3
  <2>2. \A w \in Conns : room[w] # r
    BY <2>1
  <2>3. r # 0
    BY <2>1, CountConns DEF RoomIds
  <2>4. QED
    BY <2>2, <2>3 DEF Kept
<1>5. QED
  BY <1>4 DEF Fresh

-----------------------------------------------------------------------------
(* The steps of a task that is on its way out, or that has been told. *)

\* A slot without one of its connections is a slot.
LEMMA SlotLess ==
  ASSUME NEW w
  PROVE  /\ \A x \in ConsoleSlots : x \ {w} \in ConsoleSlots
         /\ \A x \in ClientSlots : x \ {w} \in ClientSlots
  BY DEF ConsoleSlots, ClientSlots

\* A connection that is not exchanging frames is in no slot.
LEMMA NotInSlot ==
  ASSUME RoomInv, NEW w \in Conns, pc[w] # "pump"
  PROVE  \A r \in RoomIds : w \notin console[r] /\ w \notin client[r]
  BY DEF RoomInv, NoGhost

LEMMA Wane ==
  ASSUME RoomInv, NEW w \in Conns, pc[w] # "away",
         TypeOK',
         \A r \in RoomIds : /\ console'[r] = console[r] \ {w}
                            /\ client'[r] = client[r] \ {w},
         \/ LeaveRoom(w)
         \/ /\ pc' = [pc EXCEPT ![w] = "tell"] \/ pc' = [pc EXCEPT ![w] = "closing"]
            /\ UNCHANGED <<rooms, room>>
  PROVE  RoomInv'
<1> USE DEF RoomInv
<1>1. \A u \in Conns \ {w} : pc'[u] = pc[u] /\ room'[u] = room[u]
  BY DEF LeaveRoom, Go, TypeOK
<1>2. /\ pc'[w] # "pump"
      /\ \/ pc'[w] = "away" /\ room'[w] = 0
         \/ pc'[w] # "away" /\ room'[w] = room[w]
  BY DEF LeaveRoom, Go, TypeOK
<1>3. Placed'
  BY <1>1, <1>2 DEF Placed
<1>4. Serving'
  <2>1. SUFFICES ASSUME NEW u \in Clients, pc'[u] = "pump"
                 PROVE  u \in client'[room'[u]]
    BY DEF Serving
  <2>2. u # w /\ u \in Conns
    BY <1>2, <2>1 DEF Conns
  <2>3. room[u] \in RoomIds /\ u \in client[room[u]]
    BY <1>1, <2>1, <2>2 DEF Serving, Placed, TypeOK
  <2>4. QED
    BY <1>1, <2>2, <2>3
<1>5. NoGhost'
  <2>1. SUFFICES ASSUME NEW r \in RoomIds, NEW u \in console'[r] \cup client'[r]
                 PROVE  room'[u] = r /\ pc'[u] = "pump"
    BY DEF NoGhost
  <2>2. u # w /\ u \in console[r] \cup client[r]
    BY <2>1
  <2>3. u \in Conns
    BY <2>2 DEF TypeOK, Conns
  <2>4. QED
    BY <1>1, <2>2, <2>3 DEF NoGhost
<1>6. Kept'
  <2>1. SUFFICES ASSUME NEW rid \in Rids, rooms'[rid] # 0
                 PROVE  \E u \in Conns : room'[u] = rooms'[rid] /\ RidOf[u] = rid
    BY DEF Kept
  <2>2. rooms'[rid] = rooms[rid]
    BY <2>1 DEF LeaveRoom, TypeOK
  <2>3. PICK u \in Conns : room[u] = rooms[rid] /\ RidOf[u] = rid
    BY <2>1, <2>2 DEF Kept
  <2>4. CASE u # w
    BY <1>1, <2>2, <2>3, <2>4
  <2>5. CASE u = w /\ UNCHANGED <<rooms, room>>
    BY <2>2, <2>3, <2>5
  <2>6. CASE u = w /\ LeaveRoom(w)
    <3>1. room[w] \in RoomIds
      BY DEF Placed, TypeOK
    <3>2. PICK v : v \in console'[room[w]] \cup client'[room[w]]
      BY <2>1, <2>3, <2>6 DEF LeaveRoom, TypeOK
    <3>3. v \in console[room[w]] \cup client[room[w]] /\ v # w
      BY <3>1, <3>2
    <3>4. v \in Conns /\ room[v] = room[w]
      BY <3>1, <3>3 DEF NoGhost, TypeOK, Conns
    <3>5. RidOf[v] = rid
      BY <2>3, <2>6, <3>1, <3>4, CountConns DEF Named, RoomIds
    <3>6. QED
      BY <1>1, <2>2, <2>3, <2>6, <3>3, <3>4, <3>5
  <2>7. QED
    BY <2>4, <2>5, <2>6
<1>7. Named'
  BY <1>1, <1>2 DEF Named
<1>8. QED
  BY <1>3, <1>4, <1>5, <1>6, <1>7

LEMMA SlotTypes ==
  ASSUME TypeOK
  PROVE  console \in [RoomIds -> ConsoleSlots] /\ client \in [RoomIds -> ClientSlots]
  BY DEF TypeOK, ConsoleSlots, ClientSlots

LEMMA StepEnds ==
  ASSUME RoomInv, NEW w \in Conns,
         \/ w \in Consoles /\ (ConsoleEnds(w) \/ CloseClient(w) \/ ConsoleLeaves(w))
         \/ w \in Clients /\ (ClientEnds(w) \/ ClientLeaves(w))
  PROVE  RoomInv'
<1> DEFINE here == room[w]
<1>1. here \in RoomIds /\ pc[w] \in Labels \ {"away"}
  BY DEF RoomInv, TypeOK, Placed, ConsoleEnds, CloseClient, ConsoleLeaves,
         ClientEnds, ClientLeaves, Labels
<1>2. \/ LeaveRoom(w)
      \/ /\ pc' = [pc EXCEPT ![w] = "tell"] \/ pc' = [pc EXCEPT ![w] = "closing"]
         /\ UNCHANGED <<rooms, room>>
  BY DEF ConsoleEnds, CloseClient, ConsoleLeaves, ClientEnds, ClientLeaves, Go
<1>3. /\ console' \in [RoomIds -> ConsoleSlots]
      /\ client' \in [RoomIds -> ClientSlots]
      /\ \A r \in RoomIds : /\ console'[r] = console[r] \ {w}
                            /\ client'[r] = client[r] \ {w}
  <2>0. TypeOK /\ NoGhost
    BY DEF RoomInv
  <2>1. CASE w \in Consoles /\ ConsoleEnds(w)
    <3>1. console' = [console EXCEPT ![here] = @ \ {w}] /\ client' = client
      BY <2>1 DEF ConsoleEnds
    <3>2. \A r \in RoomIds : w \notin client[r] /\ (r # here => w \notin console[r])
      BY <2>0, <2>1, RelayAssumption DEF NoGhost, TypeOK
    <3>3. QED
      BY <1>1, <2>0, <3>1, <3>2, SlotTypes, SlotLess
  <2>2. CASE w \in Clients /\ ClientEnds(w)
    <3>1. client' = [client EXCEPT ![here] = @ \ {w}] /\ console' = console
      BY <2>2 DEF ClientEnds
    <3>2. \A r \in RoomIds : w \notin console[r] /\ (r # here => w \notin client[r])
      BY <2>0, <2>2, RelayAssumption DEF NoGhost, TypeOK
    <3>3. QED
      BY <1>1, <2>0, <3>1, <3>2, SlotTypes, SlotLess
  <2>3. CASE CloseClient(w) \/ ConsoleLeaves(w) \/ ClientLeaves(w)
    <3>1. UNCHANGED <<console, client>> /\ pc[w] # "pump"
      BY <2>3 DEF CloseClient, ConsoleLeaves, ClientLeaves
    <3>2. QED
      BY <2>0, <3>1, NotInSlot, SlotTypes
  <2>4. QED
    BY <2>1, <2>2, <2>3
<1>4. TypeOK'
  <2>1. rooms' \in [Rids -> RoomIds \cup {0}] /\ room' \in [Conns -> RoomIds \cup {0}]
    BY <1>2 DEF RoomInv, TypeOK, LeaveRoom
  <2>2. pc' \in [Conns -> Labels]
    BY <1>2 DEF RoomInv, TypeOK, LeaveRoom, Go, Labels
  <2>3. open' \subseteq Conns
    BY DEF RoomInv, TypeOK, ConsoleEnds, CloseClient, ConsoleLeaves, ClientEnds, ClientLeaves
  <2>4. QED
    BY <1>3, <2>1, <2>2, <2>3 DEF TypeOK, ConsoleSlots, ClientSlots
<1>5. QED
  BY <1>1, <1>2, <1>3, <1>4, Wane

-----------------------------------------------------------------------------
(* The steps that enter a room. *)

\* A task that was away takes the room `here', new or found under its name, and
\* one slot of it, or none while it evicts the console.
Enters(w, here) ==
  /\ pc[w] = "away"
  /\ \/ rooms[RidOf[w]] = here
     \/ /\ \A u \in Conns : room[u] # here
        /\ \A rid \in Rids : rooms[rid] # here
        /\ rooms[RidOf[w]] = 0
  /\ rooms' = [rooms EXCEPT ![RidOf[w]] = here]
  /\ room' = [room EXCEPT ![w] = here]
  /\ pc'[w] # "away" /\ \A u \in Conns \ {w} : pc'[u] = pc[u]
  /\ \A r \in RoomIds : \A u \in console'[r] \cup client'[r] :
       \/ u \in console[r] \cup client[r]
       \/ r = here /\ u = w /\ pc'[w] = "pump"
  /\ \A r \in RoomIds : \A u \in client[r] : u \in client'[r]
  /\ w \in Clients => w \in client'[here]

LEMMA Enter ==
  ASSUME RoomInv, TypeOK', NEW w \in Conns, NEW here \in RoomIds, Enters(w, here)
  PROVE  RoomInv'
<1> USE DEF Enters
<1> USE DEF RoomInv
<1>0. /\ RidOf \in [Conns -> Rids] /\ room[w] = 0 /\ here # 0
      /\ \A u \in Conns : room'[u] = IF u = w THEN here ELSE room[u]
      /\ \A rid \in Rids : rooms'[rid] = IF rid = RidOf[w] THEN here ELSE rooms[rid]
  <2>1. RidOf \in [Conns -> Rids] /\ room[w] = 0
    BY RelayAssumption DEF Placed
  <2>2. here # 0
    BY CountConns DEF RoomIds
  <2>3. \A u \in Conns : room'[u] = IF u = w THEN here ELSE room[u]
    BY DEF TypeOK
  <2>4. \A rid \in Rids : rooms'[rid] = IF rid = RidOf[w] THEN here ELSE rooms[rid]
    BY DEF TypeOK
  <2>5. QED
    BY <2>1, <2>2, <2>3, <2>4
<1>1. Placed'
  <2>1. ASSUME NEW u \in Conns, u # w
        PROVE  pc'[u] = "away" <=> room'[u] = 0
    BY <1>0, <2>1 DEF Placed
  <2>2. pc'[w] # "away" /\ room'[w] # 0
    BY <1>0
  <2>3. QED
    BY <2>1, <2>2 DEF Placed
<1>2. Serving'
  <2>1. SUFFICES ASSUME NEW u \in Clients, pc'[u] = "pump", u # w
                 PROVE  u \in client'[room'[u]]
    BY <1>0 DEF Serving
  <2>2. u \in Conns /\ pc[u] = "pump"
    BY <2>1 DEF Conns
  <2>3. room[u] \in RoomIds /\ u \in client[room[u]]
    BY <2>1, <2>2 DEF Serving, Placed, TypeOK
  <2>4. QED
    BY <1>0, <2>1, <2>2, <2>3
<1>3. Kept'
  <2>1. SUFFICES ASSUME NEW rid \in Rids, rooms'[rid] # 0
                 PROVE  \E u \in Conns : room'[u] = rooms'[rid] /\ RidOf[u] = rid
    BY DEF Kept
  <2>2. CASE rid = RidOf[w]
    BY <1>0, <2>2
  <2>3. CASE rid # RidOf[w]
    <3>1. PICK u \in Conns : room[u] = rooms[rid] /\ RidOf[u] = rid
      BY <1>0, <2>1, <2>3 DEF Kept
    <3>2. QED
      BY <1>0, <2>3, <3>1
  <2>4. QED
    BY <2>2, <2>3
<1>4. Named'
  <2>1. ASSUME NEW u \in Conns, room[u] = here
        PROVE  RidOf[u] = RidOf[w]
    <3>1. rooms[RidOf[w]] = here
      BY <2>1
    <3>2. PICK v \in Conns : room[v] = here /\ RidOf[v] = RidOf[w]
      BY <1>0, <3>1 DEF Kept
    <3>3. QED
      BY <1>0, <2>1, <3>2 DEF Named
  <2>2. QED
    BY <1>0, <2>1 DEF Named
<1>5. NoGhost'
  <2>1. SUFFICES ASSUME NEW r \in RoomIds, NEW u \in console'[r] \cup client'[r]
                 PROVE  room'[u] = r /\ pc'[u] = "pump"
    BY DEF NoGhost
  <2>2. CASE u \in console[r] \cup client[r]
    <3>1. u \in Conns /\ room[u] = r /\ pc[u] = "pump"
      BY <2>2 DEF NoGhost, TypeOK, Conns
    <3>2. QED
      BY <1>0, <3>1
  <2>3. CASE r = here /\ u = w /\ pc'[w] = "pump"
    BY <1>0, <2>3
  <2>4. QED
    BY <2>1, <2>2, <2>3
<1>6. QED
  BY <1>1, <1>2, <1>3, <1>4, <1>5

LEMMA StepAttachFree ==
  ASSUME RoomInv, NEW w \in Consoles, AttachFree(w)
  PROVE  RoomInv'
<1> DEFINE here == IF rooms[RidOf[w]] = 0 THEN Fresh ELSE rooms[RidOf[w]]
<1> USE DEF RoomInv
<1>1. w \in Conns /\ w \notin Clients /\ RidOf[w] \in Rids
  BY RelayAssumption DEF Conns
<1>2. /\ here \in RoomIds
      /\ \/ rooms[RidOf[w]] = here
         \/ /\ \A u \in Conns : room[u] # here
            /\ \A rid \in Rids : rooms[rid] # here
            /\ rooms[RidOf[w]] = 0
  BY <1>1, FreshRoom DEF TypeOK
<1>3. /\ rooms' = [rooms EXCEPT ![RidOf[w]] = here]
      /\ room' = [room EXCEPT ![w] = here]
      /\ console' = [console EXCEPT ![here] = {w}] /\ client' = client
      /\ pc' = [pc EXCEPT ![w] = "pump"] /\ open' = open \cup {w}
      /\ pc[w] = "away"
  BY DEF AttachFree, Go
<1> HIDE DEF here
<1>4. console' \in [RoomIds -> ConsoleSlots]
  BY <1>2, <1>3, SlotTypes DEF ConsoleSlots
<1>5. TypeOK'
  BY <1>1, <1>2, <1>3, <1>4 DEF TypeOK, ConsoleSlots, Labels
<1>6. \A r \in RoomIds : \A u \in console'[r] \cup client'[r] :
        u \in console[r] \cup client[r] \/ (r = here /\ u = w /\ pc'[w] = "pump")
  <2>1. \A r \in RoomIds : /\ console'[r] = IF r = here THEN {w} ELSE console[r]
                           /\ client'[r] = client[r]
    BY <1>3 DEF TypeOK
  <2>2. pc'[w] = "pump"
    BY <1>1, <1>3 DEF TypeOK
  <2>3. QED
    BY <2>1, <2>2
<1>7. pc'[w] # "away" /\ \A u \in Conns \ {w} : pc'[u] = pc[u]
  BY <1>1, <1>3 DEF TypeOK
<1>8. /\ \A r \in RoomIds : \A u \in client[r] : u \in client'[r]
      /\ w \in Clients => w \in client'[here]
  BY <1>1, <1>3
<1>9. Enters(w, here)
  BY <1>1, <1>2, <1>3, <1>6, <1>7, <1>8 DEF Enters
<1>10. QED
  BY <1>1, <1>2, <1>5, <1>9, Enter

LEMMA StepAttachTakesOver ==
  ASSUME RoomInv, NEW w \in Consoles, AttachTakesOver(w)
  PROVE  RoomInv'
<1> DEFINE here == rooms[RidOf[w]]
<1> USE DEF RoomInv
<1>1. w \in Conns /\ w \notin Clients /\ RidOf[w] \in Rids
  BY RelayAssumption DEF Conns
<1>2. /\ here \in RoomIds
      /\ rooms' = [rooms EXCEPT ![RidOf[w]] = here]
      /\ room' = [room EXCEPT ![w] = here]
      /\ console' = [console EXCEPT ![here] = {}] /\ client' = client
      /\ pc' = [pc EXCEPT ![w] = "evict"]
      /\ open' = (open \ console[here]) \cup {w}
      /\ pc[w] = "away"
  BY <1>1 DEF AttachTakesOver, Go, TypeOK
<1>3. console' \in [RoomIds -> ConsoleSlots]
  BY <1>2, SlotTypes DEF ConsoleSlots
<1>4. TypeOK'
  BY <1>1, <1>2, <1>3 DEF TypeOK, ConsoleSlots, Labels
<1>5. \A r \in RoomIds : \A u \in console'[r] \cup client'[r] :
        u \in console[r] \cup client[r]
  BY <1>2 DEF TypeOK
<1>6. pc'[w] # "away" /\ \A u \in Conns \ {w} : pc'[u] = pc[u]
  BY <1>1, <1>2 DEF TypeOK
<1>7. Enters(w, here)
  BY <1>1, <1>2, <1>5, <1>6 DEF Enters
<1>8. QED
  BY <1>1, <1>2, <1>4, <1>7, Enter

LEMMA StepJoin ==
  ASSUME RoomInv, NEW w \in Clients, Join(w)
  PROVE  RoomInv'
<1> DEFINE here == rooms[RidOf[w]]
<1> USE DEF RoomInv
<1>1. w \in Conns /\ w \notin Consoles /\ RidOf[w] \in Rids
  BY RelayAssumption DEF Conns
<1>2. /\ here \in RoomIds /\ client[here] = {}
      /\ rooms' = [rooms EXCEPT ![RidOf[w]] = here]
      /\ room' = [room EXCEPT ![w] = here]
      /\ client' = [client EXCEPT ![here] = {w}] /\ console' = console
      /\ pc' = [pc EXCEPT ![w] = "pump"]
      /\ open' = open \cup {w}
      /\ pc[w] = "away"
  BY <1>1 DEF Join, Go, TypeOK
<1>3. client' \in [RoomIds -> ClientSlots]
  BY <1>2, SlotTypes DEF ClientSlots
<1>4. TypeOK'
  BY <1>1, <1>2, <1>3 DEF TypeOK, ClientSlots, Labels
<1>5. \A r \in RoomIds : \A u \in console'[r] \cup client'[r] :
        u \in console[r] \cup client[r] \/ (r = here /\ u = w /\ pc'[w] = "pump")
  <2>1. \A r \in RoomIds : /\ client'[r] = IF r = here THEN {w} ELSE client[r]
                           /\ console'[r] = console[r]
    BY <1>2 DEF TypeOK
  <2>2. pc'[w] = "pump"
    BY <1>1, <1>2 DEF TypeOK
  <2>3. QED
    BY <2>1, <2>2
<1>6. /\ \A r \in RoomIds : \A u \in client[r] : u \in client'[r]
      /\ w \in client'[here]
  BY <1>2 DEF TypeOK
<1>7. pc'[w] # "away" /\ \A u \in Conns \ {w} : pc'[u] = pc[u]
  BY <1>1, <1>2 DEF TypeOK
<1>8. Enters(w, here)
  BY <1>1, <1>2, <1>5, <1>6, <1>7 DEF Enters
<1>9. QED
  BY <1>1, <1>2, <1>4, <1>8, Enter

-----------------------------------------------------------------------------
(* The other steps, and the theorems. *)

LEMMA StepAttachEvicted ==
  ASSUME RoomInv, NEW w \in Consoles, AttachEvicted(w)
  PROVE  RoomInv'
<1> DEFINE here == room[w]
<1> USE DEF RoomInv
<1>1. w \in Conns /\ w \notin Clients
  BY RelayAssumption DEF Conns
<1>2. /\ here \in RoomIds /\ pc[w] = "evict"
      /\ console' = [console EXCEPT ![here] = {w}]
      /\ pc' = [pc EXCEPT ![w] = "pump"]
      /\ UNCHANGED <<rooms, client, room, open>>
  BY <1>1 DEF AttachEvicted, Go, TypeOK, Placed
<1>3. console' \in [RoomIds -> ConsoleSlots]
  BY <1>2, SlotTypes DEF ConsoleSlots
<1>4. TypeOK'
  BY <1>2, <1>3 DEF TypeOK, ConsoleSlots, Labels
<1>5. \A u \in Conns : pc'[u] = IF u = w THEN "pump" ELSE pc[u]
  BY <1>2 DEF TypeOK
<1>6. Placed' /\ Serving' /\ Kept' /\ Named'
  BY <1>1, <1>2, <1>5 DEF Placed, Serving, Kept, Named, Conns
<1>7. NoGhost'
  <2>1. SUFFICES ASSUME NEW r \in RoomIds, NEW u \in console'[r] \cup client'[r]
                 PROVE  room'[u] = r /\ pc'[u] = "pump"
    BY DEF NoGhost
  <2>2. u \in console[r] \cup client[r] \/ (r = here /\ u = w)
    BY <1>2, <2>1 DEF TypeOK
  <2>3. u \in Conns
    BY <1>1, <2>2 DEF TypeOK, Conns
  <2>4. QED
    BY <1>2, <1>5, <2>2, <2>3 DEF NoGhost
<1>8. QED
  BY <1>4, <1>6, <1>7

LEMMA StepDrop ==
  ASSUME RoomInv, UNCHANGED <<rooms, console, client, room, pc>>, open' \subseteq Conns
  PROVE  RoomInv'
  BY DEF RoomInv, TypeOK, Placed, Serving, Kept, Named, NoGhost

LEMMA StepRoom == ASSUME RoomInv, [Next]_vars PROVE RoomInv'
<1>1. ASSUME NEW w \in Consoles, AttachFree(w) \/ AttachTakesOver(w) \/ ConsoleStep(w)
      PROVE  RoomInv'
  BY <1>1, StepAttachFree, StepAttachTakesOver, StepAttachEvicted, StepEnds DEF ConsoleStep, Conns
<1>2. ASSUME NEW w \in Clients, Join(w) \/ ClientStep(w)
      PROVE  RoomInv'
  BY <1>2, StepJoin, StepEnds DEF ClientStep, Conns
<1>3. ASSUME NEW w \in Conns, Drop(w)
      PROVE  RoomInv'
  BY <1>3, StepDrop DEF Drop, RoomInv, TypeOK
<1>4. CASE UNCHANGED vars
  BY <1>4, StepDrop DEF vars, RoomInv, TypeOK
<1>5. QED
  BY <1>1, <1>2, <1>3, <1>4 DEF Next

LEMMA InitRoom == Init => RoomInv
<1> SUFFICES ASSUME Init PROVE RoomInv
  OBVIOUS
<1>1. TypeOK
  BY DEF Init, TypeOK, Labels
<1>2. QED
  BY <1>1 DEF Init, RoomInv, Placed, Serving, Kept, Named, NoGhost, Conns

LEMMA RoomInvariant == Spec => []RoomInv
  BY InitRoom, StepRoom, PTL DEF Spec

LEMMA RoomImplies == RoomInv => TypeOK /\ NoLeakedRoom /\ OneClient /\ NoGhost
<1> SUFFICES ASSUME RoomInv PROVE TypeOK /\ NoLeakedRoom /\ OneClient /\ NoGhost
  OBVIOUS
<1>1. NoLeakedRoom
  BY DEF RoomInv, Kept, NoLeakedRoom
<1>2. OneClient
  <2>1. SUFFICES ASSUME NEW w \in Clients, NEW u \in Clients, w # u,
                        pc[w] = "pump", pc[u] = "pump", room[w] = room[u]
                 PROVE  FALSE
    BY DEF OneClient
  <2>2. room[w] \in RoomIds /\ {w, u} \subseteq client[room[w]]
    BY <2>1 DEF RoomInv, Serving, Placed, TypeOK, Conns
  <2>3. client[room[w]] \in ClientSlots
    BY <2>2, SlotTypes DEF RoomInv
  <2>4. QED
    BY <2>1, <2>2, <2>3 DEF ClientSlots
<1>3. QED
  BY <1>1, <1>2 DEF RoomInv

\* Every reachable state of the relay has its types (TypeOK); in particular a
\* slot of a room holds one connection at most, and a new room is a new object.
THEOREM RoomTypes == Spec => []TypeOK
  BY RoomInvariant, RoomImplies, PTL

\* No room stays in the table without a task that will remove it
\* (NoLeakedRoom), for any number of connections and any MAX_ROOMS: the clean-up
\* by name in the finally of attach and join never leaves one behind.
THEOREM RoomsKept == Spec => []NoLeakedRoom
  BY RoomInvariant, RoomImplies, PTL

\* At most one client at a time exchanges frames in a room (OneClient).
THEOREM SingleClient == Spec => []OneClient
  BY RoomInvariant, RoomImplies, PTL

\* The slots of a room refer only to connections whose task still serves that
\* room (NoGhost): what attach and join write is undone on every way out.
THEOREM NoDeadConnection == Spec => []NoGhost
  BY RoomInvariant, RoomImplies, PTL
=============================================================================
