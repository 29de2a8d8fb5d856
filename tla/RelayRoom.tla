----------------------------- MODULE RelayRoom -----------------------------
(***************************************************************************)
(* The rendezvous rooms of relay/server.py.  One asyncio task per          *)
(* connection runs attach (a console) or join (a client); a step is what   *)
(* such a task does between two awaits.  Frames are forwarded unread and   *)
(* change no room, so they are left out; a connection slot that has left   *)
(* may connect again, which stands for any number of later connections.    *)
(***************************************************************************)
EXTENDS Integers, FiniteSets

CONSTANTS
  Consoles, Clients,   \* connection slots of either kind
  Rids, RidOf,         \* room names, and the one each slot asks for
  MaxRooms             \* MAX_ROOMS

Conns == Consoles \cup Clients

ASSUME RelayAssumption ==
  /\ IsFiniteSet(Conns)
  /\ Consoles \cap Clients = {}
  /\ RidOf \in [Conns -> Rids]
  /\ MaxRooms \in Nat

VARIABLES
  rooms,     \* name -> room object (0: not in the table)
  console,   \* _Room.console of each object, as a set of at most one
  client,    \* _Room.client
  room,      \* the object each task holds in its local (0: none)
  pc,        \* where each task is
  open       \* connections that are up

vars == <<rooms, console, client, room, pc, open>>

\* More objects than tasks: one that nobody refers to can be built anew.
RoomIds == 1 .. Cardinality(Conns) + 1
Labels  == {"away", "evict", "pump", "tell", "closing"}

Fresh == CHOOSE r \in RoomIds : /\ \A w \in Conns : room[w] # r
                                /\ \A rid \in Rids : rooms[rid] # r

Init ==
  /\ rooms = [rid \in Rids |-> 0]
  /\ console = [r \in RoomIds |-> {}]
  /\ client = [r \in RoomIds |-> {}]
  /\ room = [w \in Conns |-> 0]
  /\ pc = [w \in Conns |-> "away"]
  /\ open = {}

-----------------------------------------------------------------------------
Go(w, label) == pc' = [pc EXCEPT ![w] = label]

\* The end of both handlers: an empty room leaves the table, by its name.
LeaveRoom(w) ==
  /\ rooms' = IF console'[room[w]] = {} /\ client'[room[w]] = {}
                THEN [rooms EXCEPT ![RidOf[w]] = 0] ELSE rooms
  /\ room' = [room EXCEPT ![w] = 0]
  /\ Go(w, "away")

\* attach into a new room, or one without a console
AttachFree(w) ==
  LET rid  == RidOf[w]
      here == IF rooms[rid] = 0 THEN Fresh ELSE rooms[rid]
  IN
  /\ pc[w] = "away"
  /\ rooms[rid] = 0 => Cardinality({s \in Rids : rooms[s] # 0}) < MaxRooms
  /\ console[here] = {}
  /\ rooms' = [rooms EXCEPT ![rid] = here]
  /\ room' = [room EXCEPT ![w] = here]
  /\ console' = [console EXCEPT ![here] = {w}]
  /\ open' = open \cup {w}
  /\ Go(w, "pump")
  /\ UNCHANGED client

\* attach into a room with a console: that one is closed, which takes a while
AttachTakesOver(w) ==
  LET here == rooms[RidOf[w]] IN
  /\ pc[w] = "away" /\ here # 0
  /\ console[here] # {}
  /\ room' = [room EXCEPT ![w] = here]
  /\ open' = (open \ console[here]) \cup {w}
  /\ console' = [console EXCEPT ![here] = {}]
  /\ Go(w, "evict")
  /\ UNCHANGED <<rooms, client>>

AttachEvicted(w) ==
  /\ pc[w] = "evict"
  /\ console' = [console EXCEPT ![room[w]] = {w}]
  /\ Go(w, "pump")
  /\ UNCHANGED <<rooms, client, room, open>>

\* Mutant of join: the room's client is not looked at.
JoinCrowded(w) ==
  LET here == rooms[RidOf[w]] IN
  /\ pc[w] = "away" /\ here # 0
  /\ console[here] # {}
  /\ room' = [room EXCEPT ![w] = here]
  /\ client' = [client EXCEPT ![here] = {w}]
  /\ open' = open \cup {w}
  /\ Go(w, "pump")
  /\ UNCHANGED <<rooms, console>>

\* join; otherwise it is refused (console_offline, room_busy) and changes
\* nothing
Join(w) ==
  LET here == rooms[RidOf[w]] IN
  /\ pc[w] = "away" /\ here # 0
  /\ console[here] # {} /\ client[here] = {}
  /\ room' = [room EXCEPT ![w] = here]
  /\ client' = [client EXCEPT ![here] = {w}]
  /\ open' = open \cup {w}
  /\ Go(w, "pump")
  /\ UNCHANGED <<rooms, console>>

\* The connection is lost, or closed for a frame that is too large.
Drop(w) ==
  /\ w \in open
  /\ pc[w] \in {"evict", "pump"}
  /\ open' = open \ {w}
  /\ UNCHANGED <<rooms, console, client, room, pc>>

-----------------------------------------------------------------------------
(* What a task does once _pump has returned. *)

\* A client in the room is told first, which takes a while.
ConsoleEnds(w) ==
  LET here == room[w] IN
  /\ pc[w] = "pump" /\ w \notin open
  /\ console' = [console EXCEPT ![here] = @ \ {w}]
  /\ UNCHANGED <<client, open>>
  /\ IF w \in console[here] /\ client[here] # {}
       THEN Go(w, "tell") /\ UNCHANGED <<rooms, room>>
       ELSE LeaveRoom(w)

\* Mutant: the client is told, and left connected.
TellOnly(w) ==
  /\ pc[w] = "tell"
  /\ UNCHANGED <<console, client, open>>
  /\ LeaveRoom(w)

\* room.client is read again: it may be gone, or another one.
CloseClient(w) ==
  LET here == room[w] IN
  /\ pc[w] = "tell"
  /\ UNCHANGED <<console, client>>
  /\ IF client[here] = {}
       THEN LeaveRoom(w) /\ UNCHANGED open
       ELSE /\ open' = open \ client[here]
            /\ Go(w, "closing")
            /\ UNCHANGED <<rooms, room>>

ConsoleLeaves(w) ==
  /\ pc[w] = "closing"
  /\ UNCHANGED <<console, client, open>>
  /\ LeaveRoom(w)

\* Mutants of the end of join: the table is left to the console; the room's
\* client is not cleared.
ClientEndsQuiet(w) ==
  LET here == room[w] IN
  /\ pc[w] = "pump" /\ w \notin open
  /\ client' = [client EXCEPT ![here] = @ \ {w}]
  /\ room' = [room EXCEPT ![w] = 0]
  /\ Go(w, "away")
  /\ UNCHANGED <<rooms, console, open>>

ClientEndsKeeps(w) ==
  /\ pc[w] = "pump" /\ w \notin open
  /\ UNCHANGED <<console, client, open>>
  /\ LeaveRoom(w)

ClientEnds(w) ==
  LET here == room[w] IN
  /\ pc[w] = "pump" /\ w \notin open
  /\ client' = [client EXCEPT ![here] = @ \ {w}]
  /\ UNCHANGED <<console, open>>
  /\ IF w \in client[here] /\ console[here] # {}
       THEN Go(w, "tell") /\ UNCHANGED <<rooms, room>>
       ELSE LeaveRoom(w)

ClientLeaves(w) ==
  /\ pc[w] = "tell"
  /\ UNCHANGED <<console, client, open>>
  /\ LeaveRoom(w)

ConsoleStep(w) == AttachEvicted(w) \/ ConsoleEnds(w) \/ CloseClient(w) \/ ConsoleLeaves(w)
ClientStep(w)  == ClientEnds(w) \/ ClientLeaves(w)

Next ==
  \/ \E w \in Consoles : AttachFree(w) \/ AttachTakesOver(w) \/ ConsoleStep(w)
  \/ \E w \in Clients : Join(w) \/ ClientStep(w)
  \/ \E w \in Conns : Drop(w)

Spec == Init /\ [][Next]_vars

\* The event loop resumes every task whose await is over.
FairSpec == /\ Spec
            /\ \A w \in Consoles : WF_vars(ConsoleStep(w))
            /\ \A w \in Clients : WF_vars(ClientStep(w))

-----------------------------------------------------------------------------
\* Every variable keeps its type.
TypeOK ==
  /\ rooms \in [Rids -> RoomIds \cup {0}]
  /\ console \in [RoomIds -> {{}} \cup {{w} : w \in Consoles}]
  /\ client \in [RoomIds -> {{}} \cup {{w} : w \in Clients}]
  /\ room \in [Conns -> RoomIds \cup {0}]
  /\ pc \in [Conns -> Labels]
  /\ open \subseteq Conns

\* A room in the table has a task that will remove it: the table of at most
\* MAX_ROOMS names does not fill up with rooms nobody is in ("an empty room is
\* deleted"), whatever take-overs, drops and late closings meet.
NoLeakedRoom ==
  \A rid \in Rids : rooms[rid] # 0 => \E w \in Conns : room[w] = rooms[rid]

\* A room has at most one client that exchanges frames with its console (a
\* second one gets room_busy).
OneClient ==
  \A w, u \in Clients :
    w # u /\ pc[w] = "pump" /\ pc[u] = "pump" => room[w] # room[u]

\* The same for consoles: a console that reconnects takes the old one's place.
\* This does not hold (two take-overs at once); no run checks it.
OneConsole ==
  \A w, u \in Consoles :
    w # u /\ {w, u} \subseteq open /\ pc[w] = "pump" /\ pc[u] = "pump"
      => room[w] # room[u]

\* A room refers only to connections whose task still serves it: no dead
\* client keeps a room busy, no dead console makes the owner look online.
NoGhost ==
  \A r \in RoomIds : \A w \in console[r] \cup client[r] :
    room[w] = r /\ pc[w] = "pump"

\* A console that is attached and up is found by a client that asks for its
\* room (console_offline is the answer when no console is there).  This does
\* not hold (the evicted task removes its successor's room); no run checks it.
ConsoleReachable ==
  \A w \in Consoles :
    pc[w] = "pump" /\ w \in open => rooms[RidOf[w]] = room[w]

\* A client is not left waiting in a room without a console: a console comes,
\* or the client is told and disconnected.
NotStranded ==
  \A w \in Clients :
    pc[w] = "pump" /\ console[room[w]] = {}
      ~> pc[w] # "pump" \/ console[room[w]] # {}
=============================================================================
