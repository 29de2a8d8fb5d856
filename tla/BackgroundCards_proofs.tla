----------------------- MODULE BackgroundCards_proofs -----------------------
(***************************************************************************)
(* Proofs about the two background loops that put up cards, for any        *)
(* signals, mails, limits and faults.  Scene pre-execution: the day's      *)
(* budget and one card for a signal, as far as a gate keeps to them that   *)
(* is saved without a lock and forgets when it is full (GateHolds), one    *)
(* run at a time (OneRun), and that a card keeps the product it stands     *)
(* for (ProductKept).  The inbox pipe: a thread is put before the user     *)
(* once (AskedOnce), and a restart between two polls loses no mail         *)
(* (BacklogSurvives).                                                      *)
(***************************************************************************)
EXTENDS ScenePreexec, InboxPipe, FiniteSetTheorems, SequenceTheorems, TLAPS

\* The books of the gate.  Cards is what is charged and not yet out.  A gate b
\* owes nothing if every card that is or will be out is entered in it, but for
\* what restarts and prunings have taken out; and likewise the day's cards.
Allow == Budget * stale
Owes(b, S) ==
  /\ \A s \in Signals : shown[s] + (IF s \in S THEN 1 ELSE 0)
                          <= (IF s \in b.seen THEN 1 ELSE 0) + stale + dropped[s]
  /\ today + (IF S = {} THEN 0 ELSE 1) <= (IF b.day = day THEN b.spent ELSE 0) + Allow
Coming == IF loop.at \in {"plain", "ready"} THEN loop.cards ELSE {}

\* The gate in memory owes nothing; no more does a file that is sound, but for
\* what the loop is saving, or a payload that nobody else's save overlaps.
Booked ==
  /\ loop.at \in {"plain", "ready"} => \E s \in Signals : loop.cards = {s}
  /\ Owes(gate, Coming)
  /\ saved.sound => Owes(saved.book, IF Saving(saved, "loop") THEN {} ELSE Coming)
  /\ saved.clean => \A d \in saved.dumps : Owes(d.book, Coming)

\* The one signal in flight is either being judged, by one tick, or attempted;
\* what runs is in flight.
Flight ==
  /\ \A s, t \in inflight : s = t
  /\ \A k \in Ticks : judging[k] # Nobody => judging[k] \in inflight \ attempted
  /\ \A k, j \in Ticks : judging[k] = judging[j] /\ judging[k] # Nobody => k = j
Ran ==
  \A s \in Signals :
    /\ place[s] \in InRun => s \in inflight \cap attempted
    /\ s \notin attempted => place[s] = "none" /\ runs[s] = 0
    /\ runs[s] \in {0, 1}

\* A ready card is the one the loop is sending.
Sending ==
  /\ \A s \in Signals : place[s] = "ready" => loop = [at |-> "ready", cards |-> {s}]
  /\ loop.at = "ready" => \A s \in loop.cards : place[s] = "ready"

Single == Flight /\ Ran /\ Sending

SceneInv == TypeOK /\ Booked /\ Single

USE DEF Places, InRun, Free

KeeperTypes == gate \in Gates /\ saved \in GateFile /\ dropped \in [Signals -> Nat]

LEMMA BlankGate == Blank \in Gates
BY SceneAssumption DEF Blank, Gates, Never

LEMMA NewGateFile == \A b \in Gates : NewFile(b) \in GateFile
BY DEF NewFile, GateFile, Dumps

LEMMA FileTypes ==
  TypeOK => /\ gate \in Gates /\ saved.book \in Gates /\ saved.dumps \in SUBSET Dumps
            /\ saved.clean \in BOOLEAN /\ saved.sound \in BOOLEAN
            /\ \A d \in saved.dumps : d.book \in Gates
            /\ saved = [book |-> saved.book, dumps |-> saved.dumps,
                        clean |-> saved.clean, sound |-> saved.sound]
BY DEF TypeOK, GateFile, Dumps

LEMMA Product == \A b, n \in Nat : b * n \in Nat /\ b * (n + 1) = b * n + b
OBVIOUS

LEMMA Counts ==
  TypeOK => /\ stale \in Nat /\ Allow \in Nat /\ today \in Nat /\ day \in Nat
            /\ \A s \in Signals : shown[s] \in Nat /\ dropped[s] \in Nat
            /\ \A b \in Gates : b.spent \in Nat /\ b.spent <= Budget
BY Product, SceneAssumption DEF TypeOK, Allow, Gates

\* With fewer cards to come a gate owes no more.
LEMMA OwesLess ==
  ASSUME TypeOK, NEW b \in Gates, NEW S, Owes(b, S)
  PROVE  Owes(b, {})
BY Counts DEF Owes

\* Of a step that leaves counts and day alone, and drops no less.
LEMMA OwesHere ==
  ASSUME TypeOK, NEW b \in Gates, NEW S, Owes(b, S), NEW c, NEW T, c = b, T = S,
         UNCHANGED <<day, shown, today, stale>>,
         \A t \in Signals : dropped'[t] \in Nat /\ dropped'[t] >= dropped[t]
  PROVE  /\ \A s \in Signals : shown'[s] + (IF s \in T THEN 1 ELSE 0)
                                 <= (IF s \in c.seen THEN 1 ELSE 0) + stale' + dropped'[s]
         /\ today' + (IF T = {} THEN 0 ELSE 1)
              <= (IF c.day = day' THEN c.spent ELSE 0) + Budget * stale'
<1>1. Budget * stale' = Allow
  BY DEF Allow
<1>2. ASSUME NEW t \in Signals
      PROVE  shown'[t] + (IF t \in S THEN 1 ELSE 0)
               <= (IF t \in b.seen THEN 1 ELSE 0) + stale' + dropped'[t]
  <2>1. shown[t] + (IF t \in S THEN 1 ELSE 0)
          <= (IF t \in b.seen THEN 1 ELSE 0) + stale + dropped[t]
    BY DEF Owes
  <2> QED
    BY <2>1, Counts
<1> QED
  BY <1>1, <1>2 DEF Owes

LEMMA SceneInit == Init => SceneInv
<1> SUFFICES ASSUME Init PROVE SceneInv
  OBVIOUS
<1>1. gate \in Gates /\ saved \in GateFile /\ saved.dumps = {} /\ saved.book = Blank
  BY BlankGate, NewGateFile DEF Init, NewFile
<1>2. TypeOK
  BY <1>1, SceneAssumption DEF Init, TypeOK, GateFile, Dumps
<1>3. Owes(Blank, {}) /\ Coming = {}
  BY <1>2, Counts, SceneAssumption DEF Init, Owes, Blank, Coming, Never
<1>4. Booked
  BY <1>1, <1>3 DEF Booked, Init
<1>5. Single
  BY SceneAssumption DEF Init, Single, Flight, Ran, Sending
<1> QED
  BY <1>2, <1>4, <1>5 DEF SceneInv

\* A writer takes a payload that owes nothing for what is to come.
LEMMA PayloadTaken ==
  ASSUME TypeOK, Booked, NEW w \in Signals \cup {"loop"}, NEW of \in Signals \cup Kinds,
         NEW b \in Gates, saved' = Begun(saved, w, of, b), gate' = b,
         Owes(b, Coming)', w # "loop" => loop' = loop,
         loop'.at \in {"plain", "ready"} => \E s \in Signals : loop'.cards = {s},
         UNCHANGED <<day, shown, today, stale>>,
         \A t \in Signals : dropped'[t] \in Nat /\ dropped'[t] >= dropped[t]
  PROVE  saved' \in GateFile /\ Booked'
<1> DEFINE d == [by |-> w, of |-> of, book |-> b]
<1>1. saved' = [book |-> saved.book, dumps |-> saved.dumps \cup {d},
                clean |-> saved.dumps = {}, sound |-> saved.sound /\ saved.dumps = {}]
  BY FileTypes DEF Begun
<1>2. d \in Dumps /\ saved.book \in Gates /\ saved.dumps \subseteq Dumps /\ saved.sound \in BOOLEAN
  BY FileTypes DEF Dumps
<1>3. saved' \in GateFile
  <2>1. saved.dumps \cup {d} \in SUBSET Dumps
    BY <1>2
  <2> QED
    BY <1>1, <1>2, <2>1 DEF GateFile
<1>4. /\ saved'.dumps = saved.dumps \cup {d} /\ saved'.book = saved.book
      /\ saved'.clean => saved'.dumps = {d}
      /\ saved'.sound => saved.sound /\ saved.dumps = {}
  <2> DEFINE c == saved.dumps = {}
             a == saved.sound /\ saved.dumps = {}
  <2>1. saved' = [book |-> saved.book, dumps |-> saved.dumps \cup {d}, clean |-> c, sound |-> a]
    BY <1>1
  <2>2. c \in BOOLEAN /\ a \in BOOLEAN /\ (c => saved.dumps = {}) /\ (a => saved.sound /\ saved.dumps = {})
    BY Zenon
  <2> HIDE DEF d, a, c
  <2>3. /\ saved'.dumps = saved.dumps \cup {d} /\ saved'.book = saved.book
        /\ saved'.clean = c /\ saved'.sound = a
    BY <2>1
  <2> QED
    BY <2>2, <2>3
<1>5. ASSUME saved'.sound
      PROVE  Owes(saved.book, IF Saving(saved, "loop") THEN {} ELSE Coming)'
  <2>1. saved.sound /\ saved.dumps = {} /\ saved'.book = saved.book
    BY <1>4, <1>5
  <2>2. Owes(saved.book, Coming)
    BY <2>1 DEF Booked, Saving
  <2>3. Owes(saved.book, {})
    BY <1>2, <2>2, OwesLess
  <2>4. saved'.dumps = {d}
    BY <1>4, <2>1
  <2>5. CASE w = "loop"
    <3>1. Saving(saved, "loop")'
      BY <2>4, <2>5 DEF Saving
    <3>2. /\ \A t \in Signals : shown'[t] + (IF t \in {} THEN 1 ELSE 0)
                                   <= (IF t \in saved'.book.seen THEN 1 ELSE 0) + stale' + dropped'[t]
          /\ today' + (IF {} = {} THEN 0 ELSE 1)
               <= (IF saved'.book.day = day' THEN saved'.book.spent ELSE 0) + Budget * stale'
      BY <1>2, <2>1, <2>3, OwesHere
    <3>3. Owes(saved.book, {})'
      BY <3>2 DEF Owes, Allow
    <3> QED
      BY <3>1, <3>3
  <2>6. CASE w # "loop"
    <3>1. ~ Saving(saved, "loop")' /\ Coming' = Coming
      BY <2>4, <2>6 DEF Saving, Coming
    <3>2. Owes(saved.book, Coming)'
      BY <1>2, <2>1, <2>2, <3>1, OwesHere DEF Owes, Allow
    <3> QED
      BY <3>1, <3>2
  <2> QED
    BY <2>5, <2>6
<1>6. saved'.clean => \A e \in saved'.dumps : Owes(e.book, Coming)'
  BY <1>4
<1> QED
  BY <1>3, <1>5, <1>6 DEF Booked

\* charge keeps the books, and its card is the one to come.
LEMMA Charges ==
  ASSUME TypeOK, Booked, loop = Free, NEW s \in Signals, check(s), charge(s),
         NEW a \in {"plain", "ready"}, loop' = [at |-> a, cards |-> {s}],
         UNCHANGED <<day, shown, today, stale>>
  PROVE  KeeperTypes' /\ Booked'
<1>1. PICK D \in Oldest(gate.seen \ {s}) :
        /\ gate' = [gate EXCEPT !.day = day, !.spent = Spent + 1, !.seen = (@ \ D) \cup {s}]
        /\ saved' = Begun(saved, "loop", s, gate')
        /\ dropped' = [t \in Signals |-> dropped[t] + (IF t \in D THEN 1 ELSE 0)]
  BY DEF charge
<1>2. gate \in Gates /\ gate.day \in {Never} \cup 0 .. MaxDay /\ Spent \in Nat /\ Spent < Budget
  BY SceneAssumption DEF TypeOK, Gates, Spent, check
<1>3. /\ gate'.day = day /\ gate'.spent = Spent + 1 /\ gate'.seen = (gate.seen \ D) \cup {s}
      /\ gate' \in Gates
  <2>1. gate = [day |-> gate.day, spent |-> gate.spent, seen |-> gate.seen, rejects |-> gate.rejects]
    BY <1>2 DEF Gates
  <2>2. gate' = [day |-> day, spent |-> Spent + 1, seen |-> (gate.seen \ D) \cup {s},
                 rejects |-> gate.rejects]
    BY <1>1, <2>1
  <2>3. day \in 0 .. MaxDay /\ Spent + 1 \in 0 .. Budget /\ (gate.seen \ D) \cup {s} \in SUBSET Signals
    BY <1>2, SceneAssumption DEF TypeOK, Gates
  <2> QED
    BY <1>2, <2>2, <2>3 DEF Gates
<1>4. /\ dropped' \in [Signals -> Nat]
      /\ \A t \in Signals : dropped'[t] \in Nat /\ dropped'[t] >= dropped[t]
      /\ \A t \in Signals : t \in D => dropped'[t] = dropped[t] + 1
  BY <1>1, Counts DEF TypeOK
<1>5. Owes(gate, {}) /\ Coming' = {s} /\ Allow' = Allow
  BY DEF Booked, Coming, Allow
<1>6. \A t \in Signals : shown'[t] + (IF t \in {s} THEN 1 ELSE 0)
                           <= (IF t \in gate'.seen THEN 1 ELSE 0) + stale' + dropped'[t]
  <2> SUFFICES ASSUME NEW t \in Signals
               PROVE  shown[t] + (IF t = s THEN 1 ELSE 0)
                        <= (IF t \in gate'.seen THEN 1 ELSE 0) + stale + dropped'[t]
    OBVIOUS
  <2>0. shown[t] + 0 <= (IF t \in gate.seen THEN 1 ELSE 0) + stale + dropped[t]
    BY <1>5 DEF Owes
  <2>1. CASE t = s
    <3>1. s \notin gate.seen
      BY DEF check
    <3> QED
      BY <2>0, <2>1, <3>1, <1>3, <1>4, Counts
  <2>2. CASE t # s /\ t \in D
    BY <2>0, <2>2, <1>3, <1>4, Counts
  <2>3. CASE t # s /\ t \notin D
    BY <2>0, <2>3, <1>3, <1>4, Counts
  <2> QED
    BY <2>1, <2>2, <2>3
<1>7. today' + 1 <= (IF gate'.day = day' THEN gate'.spent ELSE 0) + Allow'
  <2>1. today + 0 <= Spent + Allow
    BY <1>5 DEF Owes, Spent
  <2> QED
    BY <2>1, <1>2, <1>3, <1>5, Counts
<1>8. Owes(gate, Coming)'
  BY <1>5, <1>6, <1>7 DEF Owes
<1>9. saved' \in GateFile /\ Booked'
  BY <1>1, <1>3, <1>4, <1>8, PayloadTaken
<1> QED
  BY <1>3, <1>4, <1>9 DEF KeeperTypes

\* The same for a plain card or none.
LEMMA Emits ==
  ASSUME TypeOK, Booked, loop = Free, NEW s \in Signals, Emit(s),
         UNCHANGED <<day, shown, today, stale>>
  PROVE  /\ Booked' /\ KeeperTypes'
         /\ loop' \in [at : {"free", "plain", "ready", "sweep"}, cards : SUBSET Signals]
         /\ loop'.at # "ready"
<1>1. CASE ~check(s) /\ UNCHANGED <<keeper, loop>>
  <2>1. KeeperTypes'
    BY <1>1 DEF KeeperTypes, TypeOK, keeper, GateFile, Dumps
  <2> QED
    BY <1>1, <2>1 DEF Booked, keeper, Owes, Coming, Allow
<1>2. CASE check(s) /\ charge(s) /\ loop' = [at |-> "plain", cards |-> {s}]
  BY <1>2, Charges
<1> QED
  BY <1>1, <1>2 DEF Emit

\* Steps that neither charge nor show a card.
LEMMA Keeps ==
  ASSUME TypeOK, Booked, UNCHANGED <<gate, saved, dropped, stale, day, shown, today>>,
         loop' = loop \/ loop'.at \notin {"plain", "ready"}
  PROVE  Booked'
<1>1. Allow' = Allow /\ gate \in Gates /\ saved.book \in Gates
      /\ \A d \in saved.dumps : d.book \in Gates
  BY FileTypes DEF Allow
<1>2. CASE loop' = loop
  BY <1>1, <1>2 DEF Booked, Owes, Coming
<1>3. CASE loop'.at \notin {"plain", "ready"}
  <2>1. Coming' = {}
    BY <1>3 DEF Coming
  <2>2. Owes(gate, {})
    BY <1>1, OwesLess DEF Booked
  <2>3. saved.sound => Owes(saved.book, {})
    BY <1>1, OwesLess DEF Booked
  <2>4. saved.clean => \A d \in saved.dumps : Owes(d.book, {})
    BY <1>1, OwesLess DEF Booked
  <2> QED
    BY <1>1, <1>3, <2>1, <2>2, <2>3, <2>4 DEF Booked, Owes
<1> QED
  BY <1>2, <1>3

\* A card goes out.
LEMMA Shows ==
  ASSUME TypeOK, Booked, NEW s \in loop.cards, loop.at \in {"plain", "ready"},
         ~ Saving(saved, "loop"), Out(s), loop' = Free,
         UNCHANGED <<gate, saved, dropped, stale, day>>
  PROVE  Booked' /\ shown' \in [Signals -> Nat] /\ today' \in Nat
<1>1. s \in Signals /\ Coming = {s} /\ Coming' = {} /\ Allow' = Allow
  BY DEF Booked, TypeOK, Coming, Allow
<1>2. /\ shown' \in [Signals -> Nat] /\ today' = today + 1 /\ today' \in Nat
      /\ \A t \in Signals : shown'[t] = shown[t] + (IF t \in {s} THEN 1 ELSE 0)
  BY <1>1, Counts DEF Out, TypeOK
<1>3. ASSUME NEW b \in Gates, Owes(b, {s}) PROVE Owes(b, {})'
  <2>1. \A t \in Signals : shown'[t] + 0 <= (IF t \in b.seen THEN 1 ELSE 0) + stale' + dropped'[t]
    BY <1>2, <1>3, Counts DEF Owes
  <2>2. today' + 0 <= (IF b.day = day' THEN b.spent ELSE 0) + Allow'
    BY <1>1, <1>2, <1>3, Counts DEF Owes
  <2> QED
    BY <2>1, <2>2 DEF Owes
<1>4. gate \in Gates /\ saved.book \in Gates /\ \A d \in saved.dumps : d.book \in Gates
  BY FileTypes
<1>5. Owes(gate, Coming)'
  BY <1>1, <1>3, <1>4 DEF Booked, Owes
<1>6. saved.sound => Owes(saved.book, {})'
  BY <1>1, <1>3, <1>4 DEF Booked
<1>7. saved.clean => \A d \in saved.dumps : Owes(d.book, {})'
  BY <1>1, <1>3, <1>4 DEF Booked
<1>8. ~ Saving(saved, "loop")'
  BY DEF Saving
<1> QED
  BY <1>1, <1>2, <1>5, <1>6, <1>7, <1>8 DEF Booked, Owes

\* A rejection is noted.
LEMMA RejectionNoted ==
  ASSUME TypeOK, Booked, NEW s \in Signals, note_reject(s),
         UNCHANGED <<loop, day, shown, today, stale>>
  PROVE  KeeperTypes' /\ Booked'
<1>1. /\ gate' = [gate EXCEPT !.rejects[KindOf[s]] = day]
      /\ saved' = Begun(saved, s, KindOf[s], gate') /\ dropped' = dropped
  BY DEF note_reject
<1>2. /\ gate' \in Gates /\ gate'.day = gate.day /\ gate'.spent = gate.spent
      /\ gate'.seen = gate.seen
  BY <1>1 DEF TypeOK, Gates
<1>3. Owes(gate, Coming)' /\ (loop.at \in {"plain", "ready"} => \E t \in Signals : loop.cards = {t})
  BY <1>1, <1>2 DEF Booked, Owes, Coming, Allow
<1>4. /\ \A t \in Signals : dropped'[t] \in Nat /\ dropped'[t] >= dropped[t]
      /\ KindOf[s] \in Kinds /\ dropped' \in [Signals -> Nat]
  BY <1>1, Counts, SceneAssumption DEF TypeOK
<1>5. saved' \in GateFile /\ Booked'
  BY <1>1, <1>2, <1>3, <1>4, PayloadTaken
<1> QED
  BY <1>2, <1>4, <1>5 DEF KeeperTypes

\* A save ends.
LEMMA SaveEnds ==
  ASSUME TypeOK, Booked, NEW w, Save(w),
         UNCHANGED <<gate, dropped, loop, day, shown, today, stale>>
  PROVE  KeeperTypes' /\ Booked'
<1>1. PICK d \in saved.dumps : saved' \in Ended(saved, d, Blank)
  BY DEF Save
<1>2. PICK b \in Landed(saved, d, Blank) :
        saved' = [book |-> b, dumps |-> saved.dumps \ {d}, clean |-> FALSE, sound |-> saved.clean]
  BY <1>1 DEF Ended
<1>3. b \in Gates /\ (saved.clean => b = d.book)
  BY <1>2, BlankGate, FileTypes DEF Landed
<1>4. KeeperTypes'
  BY <1>2, <1>3, FileTypes DEF KeeperTypes, TypeOK, GateFile
<1>5. ASSUME saved.clean
      PROVE  Owes(saved.book, IF Saving(saved, "loop") THEN {} ELSE Coming)'
  <2>1. Owes(b, Coming) /\ Owes(b, {})
    BY <1>3, <1>5, OwesLess DEF Booked
  <2>2. Owes(b, Coming)' /\ Owes(b, {})' /\ saved'.book = b
    BY <1>2, <2>1 DEF Owes, Coming, Allow
  <2>3. CASE Saving(saved, "loop")'
    BY <2>2, <2>3 DEF Owes
  <2>4. CASE ~ Saving(saved, "loop")'
    BY <2>2, <2>4 DEF Owes
  <2> QED
    BY <2>3, <2>4
<1>6. Owes(gate, Coming)'
  BY DEF Booked, Owes, Coming, Allow
<1> QED
  BY <1>2, <1>4, <1>5, <1>6 DEF Booked

\* A new day owes nothing.
LEMMA DayBegins ==
  ASSUME TypeOK, Booked, DayPasses PROVE Booked'
<1>1. /\ day' = day + 1 /\ today' = 0 /\ loop = Free
      /\ UNCHANGED <<gate, saved, dropped, stale, shown, loop>>
  BY DEF DayPasses, keeper
<1>2. Coming = {} /\ Coming' = {} /\ Allow' = Allow
  BY <1>1 DEF Coming, Allow
<1>3. ASSUME NEW b \in Gates, Owes(b, {}) PROVE Owes(b, {})'
  <2>1. today' + 0 <= (IF b.day = day' THEN b.spent ELSE 0) + Allow'
    BY <1>1, <1>2, Counts
  <2> QED
    BY <1>1, <1>3, <2>1 DEF Owes
<1>4. gate \in Gates /\ saved.book \in Gates /\ \A d \in saved.dumps : d.book \in Gates
  BY FileTypes
<1>5. /\ Owes(gate, {})' /\ (saved.sound => Owes(saved.book, {})')
      /\ (saved.clean => \A d \in saved.dumps : Owes(d.book, {})')
  BY <1>1, <1>2, <1>3, <1>4 DEF Booked, Owes
<1> QED
  BY <1>1, <1>2, <1>5 DEF Booked, Owes

\* A restart from a sound file owes nothing either; any other counts as stale.
LEMMA Restarts ==
  ASSUME TypeOK, Booked, Crash PROVE KeeperTypes' /\ stale' \in Nat /\ Booked'
<1>1. /\ gate' = saved.book /\ saved' = NewFile(saved.book) /\ loop' = Free
      /\ stale' = stale + (IF saved.sound THEN 0 ELSE 1)
      /\ UNCHANGED <<day, dropped, shown, today>>
  BY DEF Crash, history
<1>2. gate \in Gates /\ saved.book \in Gates /\ saved.sound \in BOOLEAN
  BY FileTypes
<1>3. saved' = [book |-> saved.book, dumps |-> {}, clean |-> FALSE, sound |-> TRUE]
  BY <1>1 DEF NewFile
<1>4. KeeperTypes' /\ stale' \in Nat
  BY <1>1, <1>2, <1>3, Counts DEF KeeperTypes, GateFile, TypeOK
<1>5. Owes(saved.book, {})'
  <2>1. CASE saved.sound
    <3>1. Owes(saved.book, {})
      BY <1>2, <2>1, OwesLess DEF Booked
    <3>2. Allow' = Allow /\ stale' = stale
      BY <1>1, <2>1, Counts DEF Allow
    <3> QED
      BY <1>1, <1>3, <3>1, <3>2 DEF Owes
  <2>2. CASE ~ saved.sound
    <3>1. stale' = stale + 1 /\ Allow' = Allow + Budget
      BY <1>1, <2>2, Counts, Product, SceneAssumption DEF Allow
    <3>2. Owes(gate, {})
      BY <1>2, OwesLess DEF Booked
    <3>3. \A t \in Signals : shown[t] + 0
                               <= (IF t \in saved.book.seen THEN 1 ELSE 0) + (stale + 1) + dropped[t]
      BY <3>2, Counts DEF Owes
    <3>4. today + 0 <= (IF saved.book.day = day THEN saved.book.spent ELSE 0) + (Allow + Budget)
      BY <1>2, <3>2, Counts, SceneAssumption DEF Owes
    <3> QED
      BY <1>1, <1>3, <3>1, <3>3, <3>4 DEF Owes
  <2> QED
    BY <1>2, <2>1, <2>2
<1>6. Coming' = {}
  BY <1>1 DEF Coming
<1> QED
  BY <1>1, <1>3, <1>4, <1>5, <1>6 DEF Booked, Owes

\* Steps in which no run begins, and no card is about to be sent.
LEMMA Ends ==
  ASSUME Single, inflight' \subseteq inflight, attempted' = attempted, runs' = runs,
         \A k \in Ticks : judging'[k] = Nobody,
         \A s \in Signals :
           /\ place'[s] \in InRun => place[s] \in InRun /\ s \in inflight'
           /\ s \notin attempted => place'[s] = "none"
           /\ place'[s] # "ready",
         loop'.at # "ready"
  PROVE  Single'
<1>1. Flight'
  BY DEF Single, Flight
<1>2. Ran'
  BY DEF Single, Ran
<1>3. Sending'
  BY DEF Sending
<1> QED
  BY <1>1, <1>2, <1>3 DEF Single

\* Steps that move a card that is over with its run.
LEMMA Rests ==
  ASSUME TypeOK, Single, inflight' = inflight, attempted' = attempted, runs' = runs,
         judging' = judging, loop' = loop,
         \A s \in Signals :
           place'[s] # place[s] => /\ place[s] \notin InRun \cup {"none"}
                                   /\ place'[s] \notin InRun \cup {"none"}
  PROVE  Single'
<1>1. Flight'
  BY DEF Single, Flight
<1>2. Ran'
  BY DEF Single, Ran
<1>3. Sending'
  <2>1. \A s \in Signals : place'[s] = "ready" <=> place[s] = "ready"
    OBVIOUS
  <2>2. \A s \in Signals : place'[s] = "ready" => loop' = [at |-> "ready", cards |-> {s}]
    BY <2>1 DEF Single, Sending
  <2>3. loop.at = "ready" => \A s \in loop.cards : place'[s] = "ready"
    BY <2>1 DEF TypeOK, Single, Sending
  <2> QED
    BY <2>2, <2>3 DEF Sending
<1> QED
  BY <1>1, <1>2, <1>3 DEF Single

\* Every step keeps the invariant.
LEMMA SceneStep == SceneInv /\ [Next]_vars => SceneInv'
<1> SUFFICES ASSUME TypeOK, Booked, Single, [Next]_vars
             PROVE  TypeOK' /\ Booked' /\ Single'
  BY DEF SceneInv
<1> USE SceneAssumption DEF keeper, KeeperTypes
<1>1. ASSUME NEW k \in Ticks, Judge(k) PROVE TypeOK' /\ Booked' /\ Single'
  <2>1. PICK s : s = judging[k] /\ s # Nobody
    BY <1>1 DEF Judge
  <2>2. s \in Signals /\ s \in inflight /\ s \notin attempted /\ place[s] = "none" /\ runs[s] = 0
    BY <2>1 DEF TypeOK, Single, Flight, Ran
  <2>3. \A j \in Ticks : judging'[j] = Nobody
    BY <1>1, <2>1, <2>2 DEF Judge, TypeOK, Single, Flight
  <2>4. judging' \in [Ticks -> Signals \cup {Nobody}]
    BY <1>1 DEF Judge, TypeOK
  <2>. UNCHANGED <<day, crashes, rejects, stale, dirs, age, shown, today, astray>> /\ loop = Free
    BY <1>1 DEF Judge, clock
  <2>5. CASE /\ attempted' = attempted \cup {s} /\ inflight' = inflight \cup {s}
             /\ Move(s, "launched") /\ runs' = [runs EXCEPT ![s] = @ + 1]
             /\ UNCHANGED <<keeper, loop>>
    <3>1. TypeOK'
      BY <2>2, <2>4, <2>5 DEF Move, TypeOK
    <3>2. Booked'
      BY <2>5, Keeps
    <3>3. Single'
      BY <2>2, <2>3, <2>5 DEF Move, TypeOK, Single, Flight, Ran, Sending
    <3> QED
      BY <3>1, <3>2, <3>3
  <2>6. CASE inflight' = inflight \ {s} /\ Emit(s) /\ UNCHANGED <<attempted, place, runs>>
    <3>1. loop = Free /\ UNCHANGED <<day, crashes, rejects, stale, dirs, age, shown, today, astray>>
      BY <1>1 DEF Judge, clock
    <3>2. /\ Booked'
          /\ KeeperTypes'
          /\ loop' \in [at : {"free", "plain", "ready", "sweep"}, cards : SUBSET Signals]
          /\ loop'.at # "ready"
      BY <3>1, <2>2, <2>6, Emits
    <3>3. TypeOK'
      BY <2>4, <2>6, <3>1, <3>2 DEF TypeOK
    <3>4. \A t \in Signals : place[t] \notin InRun
      BY <2>2 DEF Single, Flight, Ran
    <3>5. Single'
      BY <2>3, <2>6, <3>2, <3>4 DEF Single, Flight, Ran, Sending
    <3> QED
      BY <3>2, <3>3, <3>5
  <2> QED
    BY <1>1, <2>1, <2>5, <2>6 DEF Judge
<1>2. ASSUME NEW k \in Ticks, NEW s \in Signals, Visit(k, s) PROVE TypeOK' /\ Booked' /\ Single'
  <2>1. loop = Free /\ s \notin inflight /\ UNCHANGED <<attempted, place, dirs, age, day, crashes, rejects, stale, shown, today, runs, astray>>
    BY <1>2 DEF Visit, work, clock, history
  <2>2. CASE /\ s \notin attempted /\ check(s) /\ inflight = {}
             /\ Claim(s) /\ judging' = [judging EXCEPT ![k] = s]
             /\ UNCHANGED <<keeper, loop>>
    <3>1. TypeOK'
      BY <2>1, <2>2 DEF Claim, TypeOK
    <3>2. Booked'
      BY <2>1, <2>2, Keeps
    <3>3. \A j \in Ticks : judging[j] = Nobody
      BY <2>2 DEF Single, Flight, Ran, Sending
    <3>4. \A j \in Ticks : judging'[j] = IF j = k THEN s ELSE Nobody
      BY <3>3, <2>2 DEF TypeOK
    <3>5. inflight' = {s} /\ \A t \in Signals : place[t] \notin InRun
      BY <2>2 DEF Claim, Single, Flight, Ran, Sending
    <3>6. Single'
      BY <2>1, <2>2, <3>4, <3>5 DEF Single, Flight, Ran, Sending
    <3> QED
      BY <3>1, <3>2, <3>6
  <2>3. CASE Emit(s) /\ UNCHANGED <<inflight, judging>>
    <3>1. /\ Booked'
          /\ KeeperTypes'
          /\ loop' \in [at : {"free", "plain", "ready", "sweep"}, cards : SUBSET Signals]
          /\ loop'.at # "ready"
      BY <2>1, <2>3, Emits
    <3>2. TypeOK'
      BY <2>1, <2>3, <3>1 DEF TypeOK
    <3>3. \A t \in Signals : place[t] # "ready"
      BY <2>1 DEF Single, Flight, Ran, Sending
    <3>4. Single'
      BY <2>1, <2>3, <3>1, <3>3 DEF Single, Flight, Ran, Sending
    <3> QED
      BY <3>1, <3>2, <3>4
  <2> QED
    BY <1>2, <2>2, <2>3 DEF Visit
<1>3. ASSUME NEW s \in Signals, OtherProducer(s) PROVE TypeOK' /\ Booked' /\ Single'
  <2>1. loop = Free /\ UNCHANGED <<attempted, inflight, judging, place, dirs, age, day, crashes, rejects, stale, shown, today, runs, astray>>
    BY <1>3 DEF OtherProducer, work, clock, history
  <2>2. /\ Booked'
        /\ KeeperTypes'
        /\ loop' \in [at : {"free", "plain", "ready", "sweep"}, cards : SUBSET Signals]
        /\ loop'.at # "ready"
    BY <1>3, <2>1, Emits DEF OtherProducer
  <2>3. TypeOK'
    BY <2>1, <2>2 DEF TypeOK
  <2>4. \A t \in Signals : place[t] # "ready"
    BY <2>1 DEF Single, Flight, Ran, Sending
  <2>5. Single'
    BY <2>1, <2>2, <2>4 DEF Single, Flight, Ran, Sending
  <2> QED
    BY <2>2, <2>3, <2>5
<1>4. ASSUME NEW s \in Signals, Broadcast(s) PROVE TypeOK' /\ Booked' /\ Single'
  <2>1. loop.at = "plain" /\ s \in loop.cards /\ Out(s) /\ loop' = Free
        /\ ~ Saving(saved, "loop")
        /\ UNCHANGED <<gate, saved, dropped, attempted, inflight, judging, place, dirs, age, day, crashes, rejects, stale, runs, astray>>
    BY <1>4 DEF Broadcast, work, clock
  <2>2. Booked' /\ shown' \in [Signals -> Nat] /\ today' \in Nat
    BY <2>1, Shows
  <2>3. TypeOK'
    BY <2>1, <2>2 DEF TypeOK
  <2>4. \A t \in Signals : place[t] # "ready"
    BY <2>1 DEF Single, Flight, Ran, Sending
  <2>5. Single'
    BY <2>1, <2>4 DEF Single, Flight, Ran, Sending
  <2> QED
    BY <2>2, <2>3, <2>5
<1>5. ASSUME NEW s \in Signals, BroadcastReady(s) PROVE TypeOK' /\ Booked' /\ Single'
  <2>1. loop.at = "ready" /\ s \in loop.cards /\ Out(s) /\ loop' = Free
        /\ ~ Saving(saved, "loop")
        /\ (Move(s, "board") \/ Move(s, "silent"))
        /\ UNCHANGED <<gate, saved, dropped, attempted, inflight, judging, dirs, age, day, crashes, rejects, stale, runs, astray>>
    BY <1>5 DEF BroadcastReady, clock
  <2>2. Booked' /\ shown' \in [Signals -> Nat] /\ today' \in Nat
    BY <2>1, Shows
  <2>3. TypeOK'
    BY <2>1, <2>2 DEF TypeOK, Move
  <2>4. loop.cards = {s} /\ place[s] = "ready"
    BY <2>1 DEF Booked, Single, Flight, Ran, Sending
  <2>5. \A t \in Signals : place[t] = "ready" => t = s
    BY <2>4 DEF Single, Flight, Ran, Sending
  <2>6. \A t \in Signals : /\ place'[t] \in InRun => place[t] \in InRun
                           /\ t \notin attempted => place'[t] = "none"
                           /\ place'[t] # "ready"
    BY <2>1, <2>4, <2>5 DEF Move, TypeOK, Single, Flight, Ran, Sending
  <2>. inflight' = inflight /\ attempted' = attempted /\ runs' = runs /\ judging' = judging
       /\ loop'.at # "ready"
    BY <2>1
  <2>7. Flight'
    BY DEF Single, Flight
  <2>8. Ran'
    BY <2>6 DEF Single, Ran
  <2>9. Sending'
    BY <2>6 DEF Sending
  <2> QED
    BY <2>2, <2>3, <2>7, <2>8, <2>9 DEF Single
<1>6. ASSUME NEW s \in Signals, Start(s) PROVE TypeOK' /\ Booked' /\ Single'
  <2>1. /\ loop = Free /\ place[s] = "launched"
        /\ UNCHANGED <<gate, saved, dropped, attempted, judging, loop, age, day, crashes, rejects, stale, shown, today, runs>>
    BY <1>6 DEF Start, clock
  <2>2. /\ dirs' \subseteq Signals /\ astray' \subseteq Signals
        /\ \/ Move(s, "running") /\ UNCHANGED inflight
           \/ Move(s, "over") /\ inflight' = inflight \ {s}
    BY <1>6 DEF Start, TypeOK, Unreferenced, Stray
  <2>3. TypeOK'
    BY <2>1, <2>2 DEF TypeOK, Move
  <2>4. Booked'
    BY <2>1, Keeps
  <2>5. (\A t \in inflight : t = s) /\ s \in inflight \cap attempted
    BY <2>1 DEF Single, Flight, Ran
  <2>6. \A k \in Ticks : judging[k] = Nobody
    BY <2>1, <2>5 DEF Single, Flight, Ran, Sending
  <2>7. \A t \in Signals : /\ place'[t] \in InRun => place[t] \in InRun /\ t \in inflight'
                           /\ t \notin attempted => place'[t] = "none"
                           /\ place'[t] # "ready"
    BY <2>1, <2>2, <2>5 DEF Move, TypeOK, Single, Flight, Ran, Sending
  <2>8. inflight' \subseteq inflight /\ attempted' = attempted /\ runs' = runs
        /\ loop'.at # "ready" /\ \A k \in Ticks : judging'[k] = Nobody
    BY <2>1, <2>2, <2>6
  <2>9. Single'
    BY <2>7, <2>8, Ends
  <2> QED
    BY <2>3, <2>4, <2>9
<1>7. ASSUME NEW s \in Signals, End(s) PROVE TypeOK' /\ Booked' /\ Single'
  <2>1. /\ loop = Free /\ place[s] = "running"
        /\ UNCHANGED <<attempted, judging, age, day, crashes, rejects, stale, shown, today, runs, astray>>
    BY <1>7 DEF End, clock, history
  <2>2. (\A t \in inflight : t = s) /\ s \in inflight \cap attempted
    BY <2>1 DEF Single, Flight, Ran
  <2>3. (\A k \in Ticks : judging[k] = Nobody) /\ s \in inflight \cap attempted
    BY <2>1, <2>2 DEF Single, Flight, Ran, Sending
  <2>4. \A t \in Signals : place[t] # "ready"
    BY <2>1 DEF Single, Flight, Ran, Sending
  <2>5. CASE /\ Move(s, "over") /\ inflight' = inflight \ {s}
             /\ (dirs' = dirs \ {s} \/ UNCHANGED dirs) /\ UNCHANGED <<keeper, loop>>
    <3>1. TypeOK'
      BY <2>1, <2>5 DEF TypeOK, Move
    <3>2. Booked'
      BY <2>1, <2>5, Keeps
    <3>3. \A t \in Signals : /\ place'[t] \notin InRun
                             /\ t \notin attempted => place'[t] = "none"
      BY <2>2, <2>3, <2>5 DEF Move, TypeOK, Single, Flight, Ran, Sending
    <3>4. inflight' \subseteq inflight /\ attempted' = attempted /\ runs' = runs
          /\ loop'.at # "ready" /\ \A k \in Ticks : judging'[k] = Nobody
      BY <2>1, <2>3, <2>5
    <3>5. \A t \in Signals : place'[t] # "ready"
      BY <3>3
    <3>6. Single'
      BY <3>3, <3>4, <3>5, Ends
    <3> QED
      BY <3>1, <3>2, <3>6
  <2>6. CASE /\ check(s) /\ charge(s) /\ loop' = [at |-> "ready", cards |-> {s}]
             /\ Move(s, "ready") /\ UNCHANGED <<inflight, dirs>>
    <3>1. KeeperTypes' /\ Booked'
      BY <2>1, <2>6, Charges
    <3>2. TypeOK'
      BY <2>1, <2>6, <3>1 DEF TypeOK, Move
    <3>5. /\ place'[s] = "ready"
          /\ \A t \in Signals \ {s} : place'[t] = place[t] /\ place'[t] # "ready"
      BY <2>4, <2>6 DEF Move, TypeOK
    <3>6. Flight' /\ Ran'
      BY <2>1, <2>3, <2>6, <3>5 DEF Single, Flight, Ran
    <3>7. Sending'
      BY <2>6, <3>5 DEF Sending
    <3> QED
      BY <3>1, <3>2, <3>6, <3>7 DEF Single
  <2> QED
    BY <1>7, <2>5, <2>6 DEF End
<1>8. ASSUME NEW s \in Signals, TaskEnds(s) PROVE TypeOK' /\ Booked' /\ Single'
  <2>1. /\ loop = Free /\ s \in inflight /\ place[s] \notin {"none", "launched", "running"}
        /\ inflight' = inflight \ {s}
        /\ UNCHANGED <<gate, saved, dropped, attempted, judging, loop, place, dirs, age, day, crashes, rejects, stale, shown, today, runs, astray>>
    BY <1>8 DEF TaskEnds, work, clock, history
  <2>2. TypeOK'
    BY <2>1 DEF TypeOK
  <2>3. Booked'
    BY <2>1, Keeps
  <2>4. place[s] \notin InRun /\ s \in attempted
    BY <2>1 DEF Single, Flight, Ran, Sending
  <2>5. \A k \in Ticks : judging[k] = Nobody
    BY <2>1, <2>4 DEF Single, Flight
  <2>6. \A t \in Signals : /\ place[t] \notin InRun
                           /\ t \notin attempted => place[t] = "none"
    BY <2>1, <2>4 DEF Single, Flight, Ran
  <2>7. /\ inflight' \subseteq inflight /\ attempted' = attempted /\ runs' = runs
        /\ loop'.at # "ready" /\ \A k \in Ticks : judging'[k] = Nobody
        /\ place' = place /\ \A t \in Signals : place[t] # "ready"
    BY <2>1, <2>5, <2>6
  <2>8. Single'
    BY <2>6, <2>7, Ends
  <2> QED
    BY <2>2, <2>3, <2>8
<1>9. ASSUME NEW s \in Signals,
             Silent(s) \/ Accept(s) \/ Load(s) \/ Land(s) \/ Discard(s)
      PROVE  TypeOK' /\ Booked' /\ Single'
  <2>1. /\ UNCHANGED <<gate, saved, dropped, attempted, inflight, judging, loop, age, day, crashes, rejects, stale, shown, today, runs, astray>>
        /\ place[s] \notin InRun \cup {"none"}
        /\ \E p \in Places \ (InRun \cup {"none"}) : place' = [place EXCEPT ![s] = p]
        /\ dirs' = dirs \ {s} \/ UNCHANGED dirs
    BY <1>9 DEF Silent, Accept, Load, Land, Discard, Move, engine, clock, history
  <2>2. TypeOK'
    BY <2>1 DEF TypeOK
  <2>3. Booked'
    BY <2>1, Keeps
  <2>4. \A t \in Signals : place'[t] # place[t] => /\ place[t] \notin InRun \cup {"none"}
                                                   /\ place'[t] \notin InRun \cup {"none"}
    BY <2>1 DEF TypeOK
  <2>5. Single'
    BY <2>1, <2>4, Rests
  <2> QED
    BY <2>2, <2>3, <2>5
<1>10. ASSUME NEW s \in Signals, Reject(s) PROVE TypeOK' /\ Booked' /\ Single'
  <2>1. /\ UNCHANGED <<attempted, inflight, judging, loop, place, dirs, age, day, crashes, stale, shown, today, runs, astray>>
        /\ note_reject(s) /\ rejects < MaxRejects /\ rejects' = rejects + 1
    BY <1>10 DEF Reject, engine, work, history
  <2>2. KeeperTypes' /\ Booked'
    BY <2>1, RejectionNoted
  <2>3. TypeOK'
    BY <2>1, <2>2 DEF TypeOK
  <2>4. Single'
    BY <2>1, Rests
  <2> QED
    BY <2>2, <2>3, <2>4
<1>17. ASSUME NEW s \in Signals, RejectSaved(s) PROVE TypeOK' /\ Booked' /\ Single'
  <2>1. /\ UNCHANGED <<attempted, inflight, judging, loop, dirs, age, day, crashes, rejects, stale, shown, today, runs, astray>>
        /\ Save(s) /\ UNCHANGED <<gate, dropped>>
        /\ IF place[s] = "board" THEN Move(s, "rejected") ELSE UNCHANGED place
    BY <1>17 DEF RejectSaved, engine, clock, history
  <2>2. KeeperTypes' /\ Booked'
    BY <2>1, SaveEnds
  <2>3. TypeOK'
    BY <2>1, <2>2 DEF TypeOK, Move
  <2>4. \A t \in Signals : place'[t] # place[t] => /\ place[t] \notin InRun \cup {"none"}
                                                   /\ place'[t] \notin InRun \cup {"none"}
    BY <2>1 DEF TypeOK, Move
  <2>5. Single'
    BY <2>1, <2>4, Rests
  <2> QED
    BY <2>2, <2>3, <2>5
<1>18. ASSUME GateSaved PROVE TypeOK' /\ Booked' /\ Single'
  <2>1. /\ UNCHANGED <<attempted, inflight, judging, loop, place, dirs, age, day, crashes, rejects, stale, shown, today, runs, astray>>
        /\ Save("loop") /\ UNCHANGED <<gate, dropped>>
    BY <1>18 DEF GateSaved, engine, work, clock, history
  <2>2. KeeperTypes' /\ Booked'
    BY <2>1, SaveEnds
  <2>3. TypeOK'
    BY <2>1, <2>2 DEF TypeOK
  <2>4. Single'
    BY <2>1, Rests
  <2> QED
    BY <2>2, <2>3, <2>4
<1>11. ASSUME NEW s \in Signals, Age(s) PROVE TypeOK' /\ Booked' /\ Single'
  <2>1. UNCHANGED <<gate, saved, dropped, attempted, inflight, judging, loop, place, dirs, day, crashes, rejects, stale, shown, today, runs, astray>>
        /\ age' \in [Signals -> {"fresh", "expired", "old"}]
    BY <1>11 DEF Age, engine, clock, history, TypeOK
  <2>2. TypeOK'
    BY <2>1 DEF TypeOK
  <2>3. Booked'
    BY <2>1, Keeps
  <2>4. Single'
    BY <2>1, Rests
  <2> QED
    BY <2>2, <2>3, <2>4
<1>12. ASSUME Sweep \/ Prune PROVE TypeOK' /\ Booked' /\ Single'
  <2>1. /\ UNCHANGED <<gate, saved, dropped, attempted, inflight, judging, place, age, day, crashes, rejects, stale, shown, today, runs>>
        /\ loop.at # "ready" /\ loop'.at \in {"free", "sweep"} /\ dirs' \subseteq Signals
        /\ loop' \in [at : {"free", "plain", "ready", "sweep"}, cards : SUBSET Signals]
        /\ astray' \subseteq Signals
    BY <1>12 DEF Sweep, Prune, Prunable, Stray, Expired, work, clock, history, TypeOK
  <2>2. TypeOK'
    BY <2>1 DEF TypeOK
  <2>3. Booked'
    BY <2>1, Keeps
  <2>4. \A t \in Signals : place[t] # "ready"
    BY <2>1 DEF Single, Sending
  <2>5. Flight' /\ Ran'
    BY <2>1 DEF Single, Flight, Ran
  <2>6. Sending'
    BY <2>1, <2>4 DEF Sending
  <2> QED
    BY <2>2, <2>3, <2>5, <2>6 DEF Single
<1>13. ASSUME NEW s \in Signals, Withdraw(s) PROVE TypeOK' /\ Booked' /\ Single'
  <2>1. /\ UNCHANGED <<gate, saved, dropped, attempted, inflight, judging, age, day, crashes, rejects, stale, shown, today, runs, astray>>
        /\ loop.at = "sweep" /\ loop' = [loop EXCEPT !.cards = @ \ {s}]
        /\ dirs' = dirs \ {s}
        /\ IF place[s] = "board" THEN Move(s, "over") ELSE UNCHANGED place
    BY <1>13 DEF Withdraw, clock, history
  <2>2. loop'.at = "sweep" /\ loop' \in [at : {"free", "plain", "ready", "sweep"}, cards : SUBSET Signals]
    BY <2>1 DEF TypeOK
  <2>3. TypeOK'
    BY <2>1, <2>2 DEF TypeOK, Move
  <2>4. Booked'
    BY <2>1, <2>2, Keeps
  <2>5. \A t \in Signals : /\ place[t] # "ready"
                           /\ place'[t] # place[t] => place[t] = "board" /\ place'[t] = "over"
    BY <2>1 DEF Single, Sending, Move, TypeOK
  <2>6. Flight' /\ Ran'
    BY <2>1, <2>5 DEF Single, Flight, Ran
  <2>7. \A t \in Signals : place'[t] # "ready"
    BY <2>5
  <2>8. Sending'
    BY <2>2, <2>7 DEF Sending
  <2> QED
    BY <2>3, <2>4, <2>6, <2>8 DEF Single
<1>14. ASSUME DayPasses PROVE TypeOK' /\ Booked' /\ Single'
  <2>1. /\ UNCHANGED <<gate, saved, dropped, attempted, inflight, judging, loop, place, dirs, age, crashes, rejects, stale, shown, runs, astray>>
        /\ loop = Free /\ day < MaxDay /\ day' = day + 1 /\ today' = 0
    BY <1>14 DEF DayPasses, work
  <2>2. TypeOK'
    BY <2>1 DEF TypeOK
  <2>3. Booked'
    BY <1>14, DayBegins
  <2>4. Single'
    BY <2>1, Rests
  <2> QED
    BY <2>2, <2>3, <2>4
<1>15. ASSUME Crash PROVE TypeOK' /\ Booked' /\ Single'
  <2>1. /\ UNCHANGED <<dropped, attempted, dirs, age, day, rejects, shown, today, runs, astray>>
        /\ crashes < MaxCrashes /\ crashes' = crashes + 1
        /\ inflight' = {} /\ judging' = [k \in Ticks |-> Nobody] /\ loop' = Free
        /\ place' = [s \in Signals |-> IF place[s] \in {"none", "board"} THEN place[s] ELSE "over"]
    BY <1>15 DEF Crash, history
  <2>2. KeeperTypes' /\ stale' \in Nat /\ Booked'
    BY <1>15, Restarts
  <2>3. TypeOK'
    BY <2>1, <2>2 DEF TypeOK
  <2>4. \A t \in Signals : /\ place'[t] \notin InRun
                           /\ t \notin attempted => place'[t] = "none"
    BY <2>1 DEF Single, Ran
  <2>5. inflight' \subseteq inflight /\ loop'.at # "ready"
    BY <2>1
  <2>6. Single'
    BY <2>1, <2>4, <2>5, Ends
  <2> QED
    BY <2>2, <2>3, <2>6
<1>16. CASE UNCHANGED vars
  <2>1. UNCHANGED <<gate, saved, dropped, attempted, inflight, judging, loop, place, dirs, age, day, crashes, rejects, stale, shown, today, runs, astray>>
    BY <1>16 DEF vars, engine, work, clock, history
  <2>2. TypeOK'
    BY <2>1 DEF TypeOK
  <2>3. Booked' /\ Single'
    BY <2>1, Keeps, Rests
  <2> QED
    BY <2>2, <2>3
<1> QED
  BY <1>1, <1>2, <1>3, <1>4, <1>5, <1>6, <1>7, <1>8, <1>9, <1>10, <1>11, <1>12, <1>13,
     <1>14, <1>15, <1>16, <1>17, <1>18 DEF Next, Loop, Thread, Tidy

LEMMA SceneAlways == Spec => []SceneInv
BY SceneInit, SceneStep, PTL DEF Spec

\* Every reachable state of the gate, the runs, the cards and the directories
\* has its types.
THEOREM SceneTypes == Spec => []TypeOK
BY SceneAlways, PTL DEF SceneInv

\* The day's budget holds and no signal has a second card but for what GateHolds
\* excepts, for any number of concurrent ticks, rejecting threads, signals, days
\* and crashes, and a gate of any size.
THEOREM GateKept == Spec => []GateHolds
<1>1. SceneInv => GateHolds
  <2> SUFFICES ASSUME SceneInv PROVE GateHolds
    OBVIOUS
  <2>1. TypeOK /\ Booked /\ gate \in Gates
    BY DEF SceneInv, TypeOK
  <2>2. Owes(gate, {})
    BY <2>1, OwesLess DEF Booked
  <2>3. Budget * (1 + stale) = Allow + Budget
    BY <2>1, Counts, Product, SceneAssumption DEF Allow
  <2> QED
    BY <2>1, <2>2, <2>3, Counts, SceneAssumption DEF Owes, GateHolds
<1> QED
  BY <1>1, SceneAlways, PTL

\* One pre-execution at a time and one per signal, for any number of concurrent
\* ticks, signals and crashes.
THEOREM RunsOnce == Spec => []OneRun
<1>1. SceneInv => OneRun
  <2> SUFFICES ASSUME SceneInv PROVE OneRun
    OBVIOUS
  <2> DEFINE R == {s \in Signals : place[s] \in InRun}
  <2>1. \A s, t \in R : s = t
    BY DEF SceneInv, Single, Flight, Ran
  <2>2. CASE R = {}
    BY <2>2, FS_EmptySet DEF OneRun, SceneInv, Single, Ran
  <2>3. CASE \E s : s \in R
    <3>1. PICK s : s \in R
      BY <2>3
    <3>2. R = {s}
      BY <2>1, <3>1
    <3>3. Cardinality(R) = 1
      BY <3>2, FS_Singleton
    <3> QED
      BY <3>3 DEF OneRun, SceneInv, Single, Ran
  <2> QED
    BY <2>2, <2>3
<1> QED
  BY <1>1, SceneAlways, PTL

-----------------------------------------------------------------------------
(* The product of a card.  The invariant says of each place where a          *)
(* pre-execution can be what may have become of its directory; what is listed *)
(* for withdrawal had expired, and goes back to no earlier place.            *)

Kept(s) ==
  /\ place[s] = "running" /\ s \notin dirs => age[s] = "old"
  /\ place[s] = "ready" => s \in dirs
  /\ place[s] \in {"silent", "board"} => s \in dirs \cup astray
  /\ place[s] = "accepted" => s \in dirs \cup astray \/ age[s] # "fresh"

Listed == loop.at = "sweep" =>
            \A s \in loop.cards : /\ age[s] # "fresh"
                                  /\ place[s] \in {"board", "accepted", "landing", "rejected", "over"}

KeptInv == Listed /\ \A s \in Signals : Kept(s)

\* Of two pre-executions one is not under way.
LEMMA OneUnderWay ==
  ASSUME SceneInv, NEW s \in Signals, NEW t \in Signals,
         place[s] \in InRun, place[t] \in InRun
  PROVE  s = t
BY DEF SceneInv, Single, Flight, Ran

\* Steps on the gate, the claims and the verdicts, which leave the places, the
\* directories and their age alone.
LEMMA ElsewhereKept ==
  ASSUME KeptInv, UNCHANGED <<place, dirs, age, astray>>,
         loop' = loop \/ loop'.at # "sweep"
  PROVE  KeptInv'
BY DEF KeptInv, Kept, Listed

\* A pre-execution or its card goes on, and its directory stays or is done with.
LEMMA MoveKept ==
  ASSUME TypeOK, KeptInv, NEW s \in Signals, NEW p \in Places, Move(s, p),
         UNCHANGED <<age, astray>>,
         dirs' = dirs \/ dirs' = dirs \ {s}, Kept(s)',
         \/ loop'.at # "sweep"
         \/ loop' = loop /\ p \in {"board", "accepted", "landing", "rejected", "over"}
  PROVE  KeptInv'
<1>1. \A t \in Signals \ {s} : place'[t] = place[t] /\ (t \in dirs' <=> t \in dirs)
  BY DEF Move, TypeOK
<1>2. \A t \in Signals : Kept(t)'
  BY <1>1 DEF KeptInv, Kept
<1>3. Listed'
  BY DEF KeptInv, Listed, Move, TypeOK
<1> QED
  BY <1>2, <1>3 DEF KeptInv

\* Whatever room is made or tidied up, of cards on no board, is written down.
LEMMA StrayKept ==
  ASSUME KeptInv, NEW D \in SUBSET Unreferenced, NEW t \in Signals,
         astray' = astray \cup Stray(D), place'[t] = place[t], age'[t] = age[t],
         t \in dirs' <=> t \in dirs \ D, place[t] # "ready",
         place[t] = "running" /\ t \in D => age[t] = "old"
  PROVE  Kept(t)'
BY DEF KeptInv, Kept, Stray, Unreferenced

LEMMA KeptStep == SceneInv /\ KeptInv /\ [Next]_vars => KeptInv'
<1> SUFFICES ASSUME SceneInv, KeptInv, [Next]_vars PROVE KeptInv'
  OBVIOUS
<1>0. TypeOK
  BY DEF SceneInv
<1>1. ASSUME NEW k \in Ticks, Judge(k) PROVE KeptInv'
  <2>1. UNCHANGED <<dirs, age, astray>> /\ loop = Free
    BY <1>1 DEF Judge
  <2>2. loop'.at # "sweep"
    BY <1>1, <2>1 DEF Judge, Emit
  <2>3. CASE UNCHANGED place
    BY <2>1, <2>2, <2>3, ElsewhereKept
  <2>4. CASE Move(judging[k], "launched")
    <3>1. PICK s \in Signals : s = judging[k]
      BY <1>0, <1>1 DEF Judge, TypeOK
    <3>2. Move(s, "launched")
      BY <2>4, <3>1
    <3>3. Kept(s)'
      BY <1>0, <3>2 DEF Move, Kept, TypeOK
    <3> QED
      BY <1>0, <2>1, <2>2, <3>2, <3>3, MoveKept
  <2> QED
    BY <1>1, <2>3, <2>4 DEF Judge
<1>2. ASSUME NEW k \in Ticks, NEW s \in Signals, Visit(k, s) PROVE KeptInv'
  BY <1>2, ElsewhereKept DEF Visit, Emit, work, history
<1>3. ASSUME NEW s \in Signals, OtherProducer(s) PROVE KeptInv'
  BY <1>3, ElsewhereKept DEF OtherProducer, Emit, work, history
<1>4. ASSUME NEW s \in Signals, Broadcast(s) PROVE KeptInv'
  BY <1>4, ElsewhereKept DEF Broadcast, work
<1>5. ASSUME NEW s \in Signals, BroadcastReady(s) PROVE KeptInv'
  <2>1. place[s] = "ready"
    BY <1>5 DEF BroadcastReady, SceneInv, Single, Sending
  <2>2. \E p \in {"board", "silent"} : Move(s, p)
    BY <1>5 DEF BroadcastReady
  <2>3. UNCHANGED <<dirs, age, astray>> /\ loop'.at # "sweep"
    BY <1>5 DEF BroadcastReady
  <2>4. Kept(s)'
    BY <1>0, <2>1, <2>2, <2>3 DEF Move, Kept, KeptInv, TypeOK
  <2> QED
    BY <1>0, <2>2, <2>3, <2>4, MoveKept
<1>6. ASSUME NEW s \in Signals, Start(s) PROVE KeptInv'
  <2>1. PICK D \in {{}} \cup {{d} : d \in Unreferenced} :
          /\ astray' = astray \cup Stray(D)
          /\ \/ dirs' = (dirs \ D) \cup {s} /\ Move(s, "running")
             \/ dirs' = dirs \ D /\ Move(s, "over")
    BY <1>6 DEF Start
  <2>2. place[s] = "launched" /\ loop = Free /\ loop' = loop /\ age' = age /\ D \subseteq Unreferenced
    BY <1>6, <2>1 DEF Start
  <2>3. ASSUME NEW t \in Signals, t # s PROVE Kept(t)'
    <3>1. place[t] \notin InRun
      BY <2>2, <2>3, OneUnderWay
    <3>2. place'[t] = place[t] /\ (t \in dirs' <=> t \in dirs \ D)
      BY <1>0, <2>1, <2>3 DEF Move, TypeOK
    <3> QED
      BY <2>1, <2>2, <3>1, <3>2, StrayKept
  <2>4. Kept(s)'
    BY <1>0, <2>1 DEF Move, Kept, TypeOK
  <2> QED
    BY <2>2, <2>3, <2>4 DEF KeptInv, Listed
<1>7. ASSUME NEW s \in Signals, End(s) PROVE KeptInv'
  <2>1. place[s] = "running" /\ loop = Free /\ UNCHANGED <<age, astray>>
    BY <1>7 DEF End, history
  <2>2. CASE Move(s, "over") /\ UNCHANGED loop /\ (dirs' = dirs \ {s} \/ UNCHANGED dirs)
    <3>1. Kept(s)'
      BY <1>0, <2>2 DEF Move, Kept, TypeOK
    <3> QED
      BY <1>0, <2>1, <2>2, <3>1, MoveKept
  <2>3. CASE age[s] = "fresh" /\ Move(s, "ready") /\ UNCHANGED dirs
             /\ loop' = [at |-> "ready", cards |-> {s}]
    <3>1. s \in dirs
      BY <2>1, <2>3 DEF KeptInv, Kept
    <3>2. Kept(s)'
      BY <1>0, <2>3, <3>1 DEF Move, Kept, TypeOK
    <3> QED
      BY <1>0, <2>1, <2>3, <3>2, MoveKept
  <2> QED
    BY <1>7, <2>2, <2>3 DEF End
<1>8. ASSUME NEW s \in Signals, TaskEnds(s) PROVE KeptInv'
  BY <1>8, ElsewhereKept DEF TaskEnds, work, history
<1>9. ASSUME NEW s \in Signals, Silent(s) \/ Accept(s) \/ Load(s) \/ Land(s) \/ Discard(s)
      PROVE  KeptInv'
  <2>1. UNCHANGED <<loop, age, astray>> /\ (dirs' = dirs \ {s} \/ UNCHANGED dirs)
    BY <1>9 DEF Silent, Accept, Load, Land, Discard, engine, history
  <2>2. PICK p \in {"board", "accepted", "landing", "over"} : Move(s, p)
    BY <1>9 DEF Silent, Accept, Load, Land, Discard
  <2>3. Kept(s)'
    <3>1. CASE p \in {"landing", "over"}
      BY <1>0, <2>2, <3>1 DEF Move, Kept, TypeOK
    <3>2. CASE p \in {"board", "accepted"}
      <4>1. place'[s] = p
        BY <1>0, <2>2 DEF Move, TypeOK
      <4>2. place[s] \in {"silent", "board"} /\ UNCHANGED dirs
        BY <1>0, <1>9, <3>2, <4>1 DEF Silent, Accept, Load, Land, Discard, Move, TypeOK
      <4> QED
        BY <2>1, <3>2, <4>1, <4>2 DEF Kept, KeptInv
    <3> QED
      BY <3>1, <3>2
  <2> QED
    BY <1>0, <2>1, <2>2, <2>3, MoveKept
<1>10. ASSUME NEW s \in Signals, Reject(s) PROVE KeptInv'
  BY <1>10, ElsewhereKept DEF Reject, engine, work, history
<1>18. ASSUME NEW s \in Signals, RejectSaved(s) PROVE KeptInv'
  <2>1. UNCHANGED <<loop, dirs, age, astray>>
    BY <1>18 DEF RejectSaved, engine, history
  <2>2. CASE UNCHANGED place
    BY <2>1, <2>2, ElsewhereKept
  <2>3. CASE place[s] = "board" /\ Move(s, "rejected")
    <3>1. Kept(s)'
      BY <1>0, <2>3 DEF Move, Kept, TypeOK
    <3> QED
      BY <1>0, <2>1, <2>3, <3>1, MoveKept
  <2> QED
    BY <1>18, <2>2, <2>3 DEF RejectSaved
<1>19. CASE GateSaved
  BY <1>19, ElsewhereKept DEF GateSaved, engine, work, history
<1>11. ASSUME NEW s \in Signals, Age(s) PROVE KeptInv'
  <2>1. UNCHANGED <<loop, place, dirs, astray>> /\ s \in dirs
    BY <1>11 DEF Age, engine, history
  <2>2. \A t \in Signals : (t # s => age'[t] = age[t]) /\ (age[t] # "fresh" => age'[t] # "fresh")
    BY <1>0, <1>11 DEF Age, TypeOK
  <2>3. Listed'
    BY <1>0, <2>1, <2>2 DEF KeptInv, Listed, TypeOK
  <2> QED
    BY <2>1, <2>2, <2>3 DEF KeptInv, Kept
<1>12. CASE Sweep
  <2>1. UNCHANGED <<place, dirs, age, astray>> /\ loop' = [at |-> "sweep", cards |-> Expired]
    BY <1>12 DEF Sweep, work, history
  <2> QED
    BY <2>1 DEF KeptInv, Kept, Listed, Expired
<1>13. CASE Prune
  <2>1. /\ dirs' = dirs \ Prunable /\ astray' = astray \cup Stray(Prunable)
        /\ loop.at = "sweep" /\ loop' = Free /\ UNCHANGED <<place, age>>
    BY <1>13 DEF Prune
  <2>2. Prunable \subseteq Unreferenced /\ \A t \in Prunable : age[t] = "old"
    BY DEF Prunable, Unreferenced
  <2>3. \A t \in Signals : place[t] # "ready"
    BY <2>1 DEF SceneInv, Single, Sending
  <2>4. \A t \in Signals : Kept(t)'
    BY <2>1, <2>2, <2>3, StrayKept
  <2> QED
    BY <2>1, <2>4 DEF KeptInv, Listed
<1>14. ASSUME NEW s \in Signals, Withdraw(s) PROVE KeptInv'
  <2>1. /\ loop.at = "sweep" /\ s \in loop.cards /\ dirs' = dirs \ {s}
        /\ loop' = [loop EXCEPT !.cards = @ \ {s}] /\ UNCHANGED <<age, astray>>
        /\ IF place[s] = "board" THEN Move(s, "over") ELSE UNCHANGED place
    BY <1>14 DEF Withdraw, history
  <2>2. /\ age[s] # "fresh"
        /\ place[s] \in {"board", "accepted", "landing", "rejected", "over"}
    BY <2>1 DEF KeptInv, Listed
  <2>3. /\ \A t \in Signals \ {s} : place'[t] = place[t]
        /\ place'[s] \in {"accepted", "landing", "rejected", "over"}
    BY <1>0, <2>1, <2>2 DEF Move, TypeOK
  <2>4. \A t \in Signals : Kept(t)'
    BY <2>1, <2>2, <2>3 DEF KeptInv, Kept
  <2>5. loop'.at = "sweep" /\ loop'.cards = loop.cards \ {s} /\ loop.cards \subseteq Signals
    BY <1>0, <2>1 DEF TypeOK
  <2>6. Listed'
    BY <2>1, <2>3, <2>5 DEF KeptInv, Listed
  <2> QED
    BY <2>4, <2>6 DEF KeptInv
<1>15. CASE DayPasses
  BY <1>15, ElsewhereKept DEF DayPasses, work
<1>16. CASE Crash
  <2>1. /\ UNCHANGED <<dirs, age, astray>> /\ loop' = Free
        /\ place' = [s \in Signals |-> IF place[s] \in {"none", "board"} THEN place[s] ELSE "over"]
    BY <1>16 DEF Crash, history
  <2> QED
    BY <2>1 DEF KeptInv, Kept, Listed
<1>17. CASE UNCHANGED vars
  BY <1>17, ElsewhereKept DEF vars, engine, work, history
<1> QED
  BY <1>1, <1>2, <1>3, <1>4, <1>5, <1>6, <1>7, <1>8, <1>9, <1>10, <1>11, <1>12, <1>13,
     <1>14, <1>15, <1>16, <1>17, <1>18, <1>19 DEF Next, Loop, Thread, Tidy

\* A card has its product as ProductKept says, for any number of signals, a
\* staging area of any size and any interleaving of ticks, decisions and
\* crashes: making room takes no directory of a card on the board, and the
\* withdrawal of an expired card takes none of a fresh one.
THEOREM ProductStays == Spec => []ProductKept
<1>1. Init => KeptInv
  BY DEF Init, KeptInv, Kept, Listed
<1>2. KeptInv => ProductKept
  BY DEF KeptInv, Kept, ProductKept
<1> QED
  BY <1>1, <1>2, KeptStep, SceneAlways, PTL DEF Spec

-----------------------------------------------------------------------------
(***************************************************************************)
(* The inbox pipe, for any mails, threads, limits and faults: first what   *)
(* the operations on the lists do to the mails in them.                    *)
(***************************************************************************)

LEMMA InSeq == ASSUME NEW s \in Seq(Mails) PROVE ToSet(s) \subseteq Mails
  BY ElementOfSeq DEF ToSet

LEMMA ToSetEmpty == ToSet(<<>>) = {}
  BY DEF ToSet

LEMMA ToSetAppend ==
  ASSUME NEW s \in Seq(Mails), NEW m \in Mails
  PROVE  Append(s, m) \in Seq(Mails) /\ ToSet(Append(s, m)) = ToSet(s) \cup {m}
  BY AppendProperties DEF ToSet

LEMMA ToSetTail ==
  ASSUME NEW s \in Seq(Mails), s # <<>>
  PROVE  /\ Head(s) \in Mails /\ Tail(s) \in Seq(Mails)
         /\ ToSet(s) = {Head(s)} \cup ToSet(Tail(s))
<1>1. /\ Len(s) \in Nat \ {0} /\ Len(Tail(s)) = Len(s) - 1 /\ DOMAIN s = 1 .. Len(s)
      /\ Head(s) \in Mails /\ Tail(s) \in Seq(Mails) /\ Head(s) = s[1]
      /\ \A i \in 1 .. Len(Tail(s)) : Tail(s)[i] = s[i + 1]
      /\ DOMAIN Tail(s) = 1 .. Len(Tail(s))
  BY HeadTailProperties, LenProperties, EmptySeq
<1>2. ToSet(s) \subseteq {Head(s)} \cup ToSet(Tail(s))
  <2>1. ASSUME NEW i \in 1 .. Len(s), i # 1
        PROVE  i - 1 \in DOMAIN Tail(s) /\ Tail(s)[i - 1] = s[i]
    BY <1>1, <2>1
  <2>2. ASSUME NEW i \in 1 .. Len(s) PROVE s[i] \in {Head(s)} \cup ToSet(Tail(s))
    BY <1>1, <2>1 DEF ToSet
  <2> QED  BY <1>1, <2>2 DEF ToSet
<1>3. ToSet(Tail(s)) \subseteq ToSet(s)
  <2>1. ASSUME NEW i \in DOMAIN Tail(s) PROVE i + 1 \in DOMAIN s /\ Tail(s)[i] = s[i + 1]
    BY <1>1
  <2> QED  BY <2>1 DEF ToSet
<1>4. Head(s) \in ToSet(s)
  BY <1>1 DEF ToSet
<1> QED  BY <1>1, <1>2, <1>3, <1>4

LEMMA ToSetConcat ==
  ASSUME NEW s \in Seq(Mails), NEW t \in Seq(Mails)
  PROVE  s \o t \in Seq(Mails) /\ ToSet(s \o t) = ToSet(s) \cup ToSet(t)
<1>1. /\ s \o t \in Seq(Mails) /\ Len(s) \in Nat /\ Len(t) \in Nat
      /\ DOMAIN s = 1 .. Len(s) /\ DOMAIN t = 1 .. Len(t)
      /\ DOMAIN (s \o t) = 1 .. Len(s) + Len(t)
      /\ \A i \in 1 .. Len(s) + Len(t) :
           (s \o t)[i] = IF i <= Len(s) THEN s[i] ELSE t[i - Len(s)]
  BY ConcatProperties, LenProperties
<1>2. ToSet(s \o t) \subseteq ToSet(s) \cup ToSet(t)
  <2>1. ASSUME NEW i \in 1 .. Len(s) + Len(t) PROVE (s \o t)[i] \in ToSet(s) \cup ToSet(t)
    <3>1. CASE i <= Len(s)
      BY <1>1, <3>1 DEF ToSet
    <3>2. CASE i > Len(s)
      <4>1. i - Len(s) \in DOMAIN t /\ (s \o t)[i] = t[i - Len(s)]
        BY <1>1, <3>2
      <4> QED  BY <4>1 DEF ToSet
    <3> QED  BY <1>1, <3>1, <3>2
  <2> QED  BY <1>1, <2>1 DEF ToSet
<1>3. ToSet(s) \subseteq ToSet(s \o t)
  BY <1>1 DEF ToSet
<1>4. ToSet(t) \subseteq ToSet(s \o t)
  <2>1. ASSUME NEW i \in 1 .. Len(t)
        PROVE  i + Len(s) \in DOMAIN (s \o t) /\ (s \o t)[i + Len(s)] = t[i]
    BY <1>1
  <2> QED  BY <1>1, <2>1 DEF ToSet
<1> QED  BY <1>1, <1>2, <1>3, <1>4

LEMMA ToSetSplit ==
  ASSUME NEW s \in Seq(Mails), NEW n \in 0 .. Len(s)
  PROVE  /\ SubSeq(s, 1, n) \in Seq(Mails) /\ SubSeq(s, n + 1, Len(s)) \in Seq(Mails)
         /\ ToSet(s) \subseteq ToSet(SubSeq(s, 1, n)) \cup ToSet(SubSeq(s, n + 1, Len(s)))
         /\ ToSet(SubSeq(s, 1, n)) \subseteq ToSet(s)
         /\ ToSet(SubSeq(s, n + 1, Len(s))) \subseteq ToSet(s)
<1> DEFINE a == SubSeq(s, 1, n)
           b == SubSeq(s, n + 1, Len(s))
<1> HIDE DEF a, b
<1>1. Len(s) \in Nat /\ DOMAIN s = 1 .. Len(s) /\ \A i \in 1 .. Len(s) : s[i] \in Mails
  BY LenProperties, ElementOfSeq
<1>2. a \in Seq(Mails) /\ Len(a) = n /\ \A i \in 1 .. n : a[i] = s[i]
  BY <1>1, SubSeqProperties DEF a
<1>3. /\ b \in Seq(Mails) /\ Len(b) = Len(s) - n
      /\ \A i \in 1 .. Len(s) - n : b[i] = s[n + i]
  <2>1. \A i \in n + 1 .. Len(s) : s[i] \in Mails
    BY <1>1
  <2>2. /\ b \in Seq(Mails)
        /\ Len(b) = IF n + 1 <= Len(s) THEN Len(s) - (n + 1) + 1 ELSE 0
        /\ \A i \in 1 .. Len(s) - (n + 1) + 1 : b[i] = s[n + 1 + i - 1]
    <3>1. n + 1 \in Int /\ Len(s) \in Int
      BY <1>1
    <3> QED  BY <2>1, <3>1, SubSeqProperties DEF b
  <2>3. ASSUME NEW i \in 1 .. Len(s) - n PROVE b[i] = s[n + i]
    <3>1. i \in 1 .. Len(s) - (n + 1) + 1 /\ n + 1 + i - 1 = n + i
      BY <1>1
    <3> QED  BY <2>2, <3>1
  <2>4. Len(b) = Len(s) - n
    <3>1. Len(b) = IF n + 1 <= Len(s) THEN Len(s) - (n + 1) + 1 ELSE 0
      BY <2>2
    <3>2. n \in Nat /\ n <= Len(s) /\ Len(s) \in Nat
      BY <1>1
    <3> QED  BY <3>1, <3>2
  <2> QED  BY <2>2, <2>3, <2>4
<1>4. DOMAIN a = 1 .. n /\ DOMAIN b = 1 .. Len(s) - n
  BY <1>2, <1>3, LenProperties
<1>5. ASSUME NEW i \in 1 .. Len(s) PROVE s[i] \in ToSet(a) \cup ToSet(b)
  <2>1. CASE i <= n
    <3>1. i \in DOMAIN a /\ a[i] = s[i]
      BY <1>2, <1>4, <2>1
    <3> QED  BY <3>1 DEF ToSet
  <2>2. CASE i > n
    <3>1. i - n \in 1 .. Len(s) - n /\ n + (i - n) = i
      BY <1>1, <2>2
    <3>2. i - n \in DOMAIN b /\ b[i - n] = s[i]
      BY <1>3, <1>4, <3>1
    <3> QED  BY <3>2 DEF ToSet
  <2> QED  BY <1>1, <2>1, <2>2
<1>6. ToSet(s) \subseteq ToSet(a) \cup ToSet(b)
  BY <1>1, <1>5 DEF ToSet
<1>7. ToSet(a) \subseteq ToSet(s)
  <2>1. ASSUME NEW i \in DOMAIN a PROVE i \in DOMAIN s /\ a[i] = s[i]
    BY <1>1, <1>2, <1>4
  <2> QED  BY <2>1 DEF ToSet
<1>8. ToSet(b) \subseteq ToSet(s)
  <2>1. ASSUME NEW i \in DOMAIN b PROVE n + i \in DOMAIN s /\ b[i] = s[n + i]
    BY <1>1, <1>3, <1>4
  <2> QED  BY <2>1 DEF ToSet
<1> QED  BY <1>2, <1>3, <1>6, <1>7, <1>8 DEF a, b

LEMMA CappedList ==
  ASSUME NEW s \in Seq(Mails)
  PROVE  Capped(s) \in Seq(Mails) /\ ToSet(Capped(s)) \subseteq ToSet(s)
<1>1. CASE Len(s) > BacklogCap
  <2> DEFINE n == Len(s) - BacklogCap
  <2>1. n \in 0 .. Len(s)
    BY <1>1, LenProperties, InboxAssumption
  <2>2. Capped(s) = SubSeq(s, n + 1, Len(s))
    BY <1>1 DEF Capped
  <2> QED  BY <2>1, <2>2, ToSetSplit
<1>2. CASE ~ (Len(s) > BacklogCap)
  BY <1>2 DEF Capped
<1> QED  BY <1>1, <1>2

-----------------------------------------------------------------------------
(* Types of the inbox pipe. *)

LEMMA FaultCounts ==
  ASSUME PipeTypeOK, Fault \/ UNCHANGED faults PROVE faults' \in 0 .. MaxFaults
  BY InboxAssumption DEF Fault, PipeTypeOK

\* Keys are marked: each is among those seen or was dropped.
LEMMA Marked ==
  ASSUME PipeTypeOK, NEW m \in Mails, NEW keys \in SUBSET Mails, Done(m, keys)
  PROVE  /\ ledger' \in Books /\ judged' \subseteq Mails /\ pruned' \subseteq Mails
         /\ judged' = judged \cup {m} /\ ledger'.backlog = ledger.backlog
         /\ ledger.seen \cup keys \subseteq ledger'.seen \cup pruned'
         /\ pruned \subseteq pruned'
<1>1. PICK D \in kSubset(Excess(ledger.seen \cup keys), ledger.seen \cup keys) :
        /\ ledger' = [ledger EXCEPT !.seen = (@ \cup keys) \ D]
        /\ pruned' = pruned \cup D
  BY DEF Done
<1>2. D \subseteq ledger.seen \cup keys
  BY <1>1 DEF kSubset
<1>3. ledger' = [seen |-> (ledger.seen \cup keys) \ D, backlog |-> ledger.backlog]
  BY <1>1 DEF PipeTypeOK, Books
<1> QED
  BY <1>1, <1>2, <1>3 DEF Done, PipeTypeOK, Books

LEMMA PipeTypeStep == PipeTypeOK /\ [PipeNext]_pipe_vars => PipeTypeOK'
<1> SUFFICES ASSUME PipeTypeOK, [PipeNext]_pipe_vars PROVE PipeTypeOK'
  OBVIOUS
<1>1. ASSUME NEW m \in Mails, Arrive(m) PROVE PipeTypeOK'
  <2>1. unread' \in Seq(Mails)
    BY <1>1, ToSetAppend DEF Arrive, PipeTypeOK
  <2>2. sent' \subseteq Mails /\ copies' \in 0 .. MaxCopies
    BY <1>1, InboxAssumption DEF Arrive, PipeTypeOK
  <2> QED  BY <1>1, <2>1, <2>2 DEF Arrive, PipeTypeOK, poll, pipe_history
<1>2. CASE Fetch
  <2>1. todo' \in Seq(Mails)
    BY <1>2, ToSetConcat DEF Fetch, Begins, PipeTypeOK, Books
  <2>2. 0 \in 0 .. MaxCards /\ <<>> \in Seq(Mails)
    BY InboxAssumption, EmptySeq
  <2> QED  BY <1>2, <2>1, <2>2 DEF Fetch, Begins, PipeTypeOK
<1>3. ASSUME NEW n \in 0 .. Len(unread), FetchFails(n) PROVE PipeTypeOK'
  <2>1. todo' \in Seq(Mails) /\ <<>> \in Seq(Mails)
    BY <1>3, ToSetConcat, EmptySeq DEF FetchFails, Begins, PipeTypeOK, Books
  <2>2. unread' \in Seq(Mails) /\ lost' \subseteq Mails
    BY <1>3, ToSetSplit, InSeq DEF FetchFails, PipeTypeOK
  <2>3. 0 \in 0 .. MaxCards /\ faults' \in 0 .. MaxFaults
    BY <1>3, InboxAssumption DEF FetchFails, Fault, PipeTypeOK
  <2> QED  BY <1>3, <2>1, <2>2, <2>3 DEF FetchFails, Begins, PipeTypeOK
<1>4. ASSUME Turn PROVE Head(todo) \in Mails /\ todo' \in Seq(Mails)
  BY <1>4, ToSetTail DEF Turn, PipeTypeOK
<1>5. CASE Skip
  <2>1. ledger' \in Books /\ judged' \subseteq Mails /\ pruned' \subseteq Mails
    BY <1>4, <1>5, Marked DEF Skip, PipeTypeOK
  <2> QED  BY <1>4, <1>5, <2>1 DEF Skip, Turn, PipeTypeOK, server
<1>6. CASE Postpone
  <2>1. leftover' \in Seq(Mails)
    BY <1>4, <1>6, ToSetAppend DEF Postpone, PipeTypeOK
  <2> QED  BY <1>4, <1>6, <2>1 DEF Postpone, Turn, PipeTypeOK, server
<1>7. CASE Triage
  <2> DEFINE k == ThreadOf[Head(todo)]
  <2>1. k \in Mails /\ Head(todo) \in Mails
    BY <1>4, <1>7, InboxAssumption DEF Triage
  <2>2. ledger' \in Books /\ judged' \subseteq Mails /\ pruned' \subseteq Mails
    BY <1>7, <2>1, Marked DEF Triage, PipeTypeOK
  <2>3. /\ issued' \in 0 .. MaxCards
        /\ asked' \subseteq Mails /\ again' \subseteq Mails
    BY <1>7, <2>1, InboxAssumption DEF Triage, PutUp, PipeTypeOK
  <2> QED  BY <1>4, <1>7, <2>2, <2>3 DEF Triage, Turn, PipeTypeOK, server
<1>8. Saved(ledger) \in [torn : BOOLEAN, book : Books] /\ Torn \in [torn : BOOLEAN, book : Books]
  BY EmptySeq DEF Saved, Torn, Empty, PipeTypeOK, Books
<1>9. CASE Finish
  <2>1. ledger' \in Books /\ lost' \subseteq Mails /\ leftover' \in Seq(Mails)
    BY <1>9, CappedList, InSeq, EmptySeq DEF Finish, Finished, PipeTypeOK, Books
  <2>2. /\ pc' \in {"idle", "save"} /\ unsaved' \in BOOLEAN
        /\ file' \in [torn : BOOLEAN, book : Books]
    <3>1. CASE Opens
      BY <1>8, <3>1 DEF Opens, PipeTypeOK
    <3>2. CASE SaveFails
      BY <3>2 DEF SaveFails, PipeTypeOK
    <3> QED  BY <1>9, <3>1, <3>2 DEF Finish
  <2>3. faults' \in 0 .. MaxFaults
    BY <1>9, FaultCounts DEF Finish, Opens, SaveFails
  <2> QED  BY <1>9, <2>1, <2>2, <2>3 DEF Finish, Finished, PipeTypeOK, server
<1>10. CASE Write
  <2>1. /\ pc' = "idle" /\ unsaved' \in BOOLEAN
        /\ file' \in [torn : BOOLEAN, book : Books]
    <3>1. CASE SaveFails
      BY <1>10, <3>1 DEF SaveFails, PipeTypeOK
    <3>2. CASE ~ SaveFails
      BY <1>8, <1>10, <3>2 DEF Write
    <3> QED  BY <3>1, <3>2
  <2>2. faults' \in 0 .. MaxFaults
    BY <1>10, FaultCounts DEF Write, SaveFails
  <2> QED  BY <1>10, <2>1, <2>2 DEF Write, PipeTypeOK, server
<1>11. CASE Restart
  <2>1. faults' \in 0 .. MaxFaults /\ 0 \in 0 .. MaxCards /\ <<>> \in Seq(Mails)
    BY <1>11, InboxAssumption, EmptySeq DEF Restart, Fault, PipeTypeOK
  <2>2. ledger' \in Books /\ lost' \subseteq Mails /\ forgot' \subseteq Mails
    BY <1>11 DEF Restart, PipeTypeOK
  <2> QED  BY <1>11, <2>1, <2>2 DEF Restart, PipeTypeOK, server
<1>12. CASE UNCHANGED pipe_vars
  BY <1>12 DEF pipe_vars, server, poll, pipe_history, PipeTypeOK
<1> QED  BY <1>1, <1>2, <1>3, <1>5, <1>6, <1>7, <1>9, <1>10, <1>11, <1>12 DEF PipeNext, PollStep

LEMMA PipeTypeInit == PipeInit => PipeTypeOK
<1> SUFFICES ASSUME PipeInit PROVE PipeTypeOK
  OBVIOUS
<1>1. Empty \in Books /\ file = Saved(Empty) /\ <<>> \in Seq(Mails)
  BY EmptySeq DEF PipeInit, Empty, Books
<1>2. file \in [torn : BOOLEAN, book : Books]
  BY <1>1 DEF Saved
<1>3. 0 \in 0 .. MaxCopies /\ 0 \in 0 .. MaxCards /\ 0 \in 0 .. MaxFaults
  BY InboxAssumption
<1> QED  BY <1>1, <1>2, <1>3 DEF PipeInit, PipeTypeOK

\* The mailbox, the poll, the ledger and its file have their types.
THEOREM InboxTypes == PipeSpec => []PipeTypeOK
  BY PipeTypeInit, PipeTypeStep, PTL DEF PipeSpec

-----------------------------------------------------------------------------
(* One card for each thread.  A thread that had a card is among the keys   *)
(* that the ledger has seen, unless a restart took it away or the ledger    *)
(* dropped it.                                                             *)

Remembered == asked \ ledger.seen \subseteq forgot \cup pruned
AskInv == PipeTypeOK /\ Remembered /\ AskedOnce

LEMMA AskStep == AskInv /\ [PipeNext]_pipe_vars => Remembered' /\ AskedOnce'
<1> SUFFICES ASSUME AskInv, [PipeNext]_pipe_vars PROVE Remembered' /\ AskedOnce'
  OBVIOUS
<1> USE DEF Remembered, AskedOnce
<1>1. CASE UNCHANGED <<asked, again, forgot, pruned, ledger>>
  BY <1>1 DEF AskInv
<1>2. ASSUME Turn PROVE Head(todo) \in Mails /\ forgot' = forgot
  BY <1>2, ToSetTail DEF Turn, AskInv, PipeTypeOK
<1>3. CASE Skip
  <2>1. Done(Head(todo), {Head(todo)}) /\ UNCHANGED <<asked, again, forgot>> /\ Head(todo) \in Mails
    BY <1>2, <1>3 DEF Skip
  <2>2. ledger.seen \subseteq ledger'.seen \cup pruned' /\ pruned \subseteq pruned'
    BY <2>1, Marked DEF AskInv
  <2> QED  BY <2>1, <2>2 DEF AskInv
<1>4. CASE Triage
  <2> DEFINE k == ThreadOf[Head(todo)]
  <2>1. k \notin ledger.seen /\ forgot' = forgot /\ Head(todo) \in Mails /\ k \in Mails
    BY <1>2, <1>4, InboxAssumption DEF Triage, Known
  <2>2. /\ ledger.seen \cup {Head(todo), k} \subseteq ledger'.seen \cup pruned'
        /\ pruned \subseteq pruned'
    BY <1>4, <2>1, Marked DEF Triage, AskInv
  <2>3. CASE PutUp(k)
    <3>1. asked' = asked \cup {k} /\ again' = again \cup ({k} \cap asked)
      BY <2>3 DEF PutUp
    <3> QED  BY <2>1, <2>2, <3>1 DEF AskInv
  <2>4. CASE UNCHANGED <<issued, asked, again>>
    BY <2>1, <2>2, <2>4 DEF AskInv
  <2> QED  BY <1>4, <2>3, <2>4 DEF Triage
<1>5. CASE Finish
  <2>1. ledger'.seen = ledger.seen
    BY <1>5 DEF Finish, Finished, AskInv, PipeTypeOK, Books
  <2> QED  BY <1>5, <2>1 DEF Finish, Finished, AskInv
<1>6. CASE Restart
  BY <1>6 DEF Restart, AskInv
<1> QED
  BY <1>1, <1>3, <1>4, <1>5, <1>6
  DEF PipeNext, PollStep, Arrive, Fetch, FetchFails, Begins, Turn, Postpone, Write,
      pipe_vars, pipe_history

\* However many mails a thread has and however often they are delivered or
\* put off, it is put before the user once, unless a restart brings back a
\* ledger from before the card, or a full ledger, of any size, drops its key.
THEOREM ThreadAskedOnce == PipeSpec => []AskedOnce
<1>1. PipeInit => AskInv
  BY PipeTypeInit DEF PipeInit, AskInv, Remembered, AskedOnce
<1>2. AskInv /\ [PipeNext]_pipe_vars => AskInv'
  BY AskStep, PipeTypeStep DEF AskInv
<1>3. AskInv => AskedOnce
  BY DEF AskInv
<1> QED  BY <1>1, <1>2, <1>3, PTL DEF PipeSpec

-----------------------------------------------------------------------------
(* No mail is lost between polls.  Every mail that came is in some place:  *)
(* on the server, in the poll that is under way, or in the ledger; and     *)
(* between polls the file's backlog is the ledger's.                       *)

InPipe == IF pc = "loop" THEN ToSet(todo) \cup ToSet(leftover) ELSE ToSet(ledger.backlog)
Placed == sent \subseteq ToSet(unread) \cup judged \cup lost \cup InPipe
OnFile == pc = "idle" /\ ~ unsaved => file.book.backlog = ledger.backlog
MailInv == PipeTypeOK /\ Placed /\ OnFile

LEMMA PlacedStep == PipeTypeOK /\ Placed /\ [PipeNext]_pipe_vars => Placed'
<1> SUFFICES ASSUME PipeTypeOK, Placed, [PipeNext]_pipe_vars PROVE Placed'
  OBVIOUS
<1> USE DEF Placed, InPipe
<1>1. ledger.backlog \in Seq(Mails) /\ ToSet(<<>>) = {}
  BY ToSetEmpty DEF PipeTypeOK, Books
<1>2. ASSUME NEW m \in Mails, Arrive(m) PROVE Placed'
  <2>1. ToSet(unread') = ToSet(unread) \cup {m} /\ sent' = sent \cup {m}
    BY <1>2, ToSetAppend DEF Arrive, PipeTypeOK
  <2> QED  BY <1>2, <2>1 DEF Arrive, poll, pipe_history
<1>3. CASE Fetch
  <2>1. ToSet(todo') = ToSet(ledger.backlog) \cup ToSet(unread)
    BY <1>1, <1>3, ToSetConcat DEF Fetch, Begins, PipeTypeOK
  <2> QED  BY <1>1, <1>3, <2>1 DEF Fetch, Begins
<1>4. ASSUME NEW n \in 0 .. Len(unread), FetchFails(n) PROVE Placed'
  <2>1. ToSet(todo') = ToSet(ledger.backlog)
    BY <1>1, <1>4, ToSetConcat, EmptySeq DEF FetchFails, Begins
  <2>2. ToSet(unread) \subseteq ToSet(unread') \cup lost' \cup judged
    BY <1>4, ToSetSplit DEF FetchFails, PipeTypeOK
  <2>3. lost \subseteq lost'
    BY <1>4 DEF FetchFails
  <2> QED  BY <1>4, <2>1, <2>2, <2>3 DEF FetchFails, Begins
<1>5. ASSUME Turn PROVE ToSet(todo) = {Head(todo)} \cup ToSet(todo')
  BY <1>5, ToSetTail DEF Turn, PipeTypeOK
<1>6. CASE Skip
  <2>1. judged' = judged \cup {Head(todo)}
    BY <1>6 DEF Skip, Done
  <2> QED  BY <1>5, <1>6, <2>1 DEF Skip, Turn, server
<1>7. CASE Postpone
  <2>1. ToSet(leftover') = ToSet(leftover) \cup {Head(todo)}
    BY <1>7, ToSetTail, ToSetAppend DEF Postpone, Turn, PipeTypeOK
  <2> QED  BY <1>5, <1>7, <2>1 DEF Postpone, Turn, server
<1>8. CASE Triage
  <2>1. judged' = judged \cup {Head(todo)}
    BY <1>8 DEF Triage, Done
  <2> QED  BY <1>5, <1>8, <2>1 DEF Triage, Turn, server
<1>9. CASE Finish
  <2>1. ledger'.backlog = Capped(leftover) /\ pc = "loop" /\ pc' # "loop" /\ ToSet(todo) = {}
    BY <1>1, <1>9 DEF Finish, Finished, Opens, SaveFails, PipeTypeOK, Books
  <2>2. ToSet(leftover) \subseteq ToSet(Capped(leftover)) \cup lost' \cup judged /\ lost \subseteq lost'
    BY <1>9 DEF Finish, Finished
  <2> QED  BY <1>9, <2>1, <2>2 DEF Finish, Finished, server
<1>10. CASE Write
  <2>1. pc = "save" /\ pc' = "idle"
    BY <1>10 DEF Write, SaveFails
  <2> QED  BY <1>10, <2>1 DEF Write, server
<1>11. CASE Restart
  BY <1>11 DEF Restart, server
<1>12. CASE UNCHANGED pipe_vars
  BY <1>12 DEF pipe_vars, server, poll, pipe_history
<1> QED  BY <1>2, <1>3, <1>4, <1>6, <1>7, <1>8, <1>9, <1>10, <1>11, <1>12 DEF PipeNext, PollStep

LEMMA OnFileStep == PipeTypeOK /\ OnFile /\ [PipeNext]_pipe_vars => OnFile'
<1> SUFFICES ASSUME PipeTypeOK, OnFile, [PipeNext]_pipe_vars PROVE OnFile'
  OBVIOUS
<1> USE DEF OnFile
<1>1. CASE pc' = "loop"
  BY <1>1
<1>2. ASSUME UNCHANGED <<pc, unsaved, file, ledger>> PROVE OnFile'
  BY <1>2
<1>3. CASE Finish
  BY <1>3 DEF Finish, Opens, SaveFails
<1>4. CASE Write
  BY <1>4 DEF Write, SaveFails, Saved
<1>5. CASE Restart
  BY <1>5 DEF Restart
<1> QED
  BY <1>1, <1>2, <1>3, <1>4, <1>5
  DEF PipeNext, PollStep, Arrive, Fetch, FetchFails, Begins, Turn, Skip, Postpone, Triage,
      pipe_vars, poll, pipe_history

\* Between two polls a restart loses no mail, unless the last save failed:
\* what is not on the server, dealt with or lost before is in the file.
THEOREM RestartKeepsMail == PipeSpec => []BacklogSurvives
<1>1. PipeInit => MailInv
  BY PipeTypeInit DEF PipeInit, MailInv, Placed, InPipe, OnFile, Saved, Empty
<1>2. MailInv /\ [PipeNext]_pipe_vars => MailInv'
  BY PipeTypeStep, PlacedStep, OnFileStep DEF MailInv
<1>3. MailInv => BacklogSurvives
  BY DEF MailInv, Placed, InPipe, OnFile, BacklogSurvives
<1> QED  BY <1>1, <1>2, <1>3, PTL DEF PipeSpec
=============================================================================
