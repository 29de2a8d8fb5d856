------------------------------ MODULE Silence ------------------------------
(***************************************************************************)
(* Earned silence (karvy/silence.py) for one bucket of cards: when the     *)
(* predictions of the user's decisions have been good enough, a card asks  *)
(* for a grant, and cards of a granted bucket are carried out without      *)
(* asking.  The path of a silent card awaits two model calls and a worker  *)
(* thread; the ledger is one file, rewritten whole by the event loop and   *)
(* by the worker threads of the panel's endpoints.                         *)
(***************************************************************************)
EXTENDS Integers, FiniteSets

CONSTANTS
  Cards,
  DailyMax,   \* SILENCE_DAILY_MAX
  MinN,       \* SILENCE_MIN_N
  BatchN,     \* SILENCE_EVAL_BATCH_N
  TTL,        \* SILENCE_GRANT_TTL_S, in days
  Cooldown,   \* OFFER_COOLDOWN_S, in days
  MaxDay,     \* bound: days
  MaxFaults   \* bound: crashes, and writes that fail or meet another

ASSUME SilenceAssumption ==
  /\ IsFiniteSet(Cards)
  /\ {DailyMax, MinN, BatchN, TTL, Cooldown} \subseteq Nat \ {0}
  /\ MaxDay \in Nat /\ MaxFaults \in Nat

VARIABLES
  now,      \* the day
  grants,   \* SilenceGrantStore in memory, for this bucket
  gfile,    \* silence_grants.json
  offer,    \* the grant or renewal card on the board
  place,    \* where each card is
  marks,    \* _silence_daily_marks: <<card, day>>
  ledger,   \* silenced_decisions.json: <<card, day>>
  over,     \* entries marked overturned
  loop, thread,  \* the rewriting of the ledger that the loop, a thread is in
  outcomes, \* decided cards that had been predicted
  faults,
  peak,     \* history: the most cards that were under way at once
  since,    \* history: outcomes since the last revocation
  consent,  \* history: accepted by the user, and not revoked since
  unsaved   \* history: a crash lost what a failed save had left in memory

store   == <<grants, gfile>>
books   == <<marks, ledger, over, loop, thread>>
history == <<peak, since, consent, unsaved>>
vars    == <<now, store, offer, place, books, outcomes, faults, history>>

Grants == [given : BOOLEAN, expires : Nat, revoked : BOOLEAN,
           base : Nat, mark : Nat, offered : Int]

NoGrant  == [given |-> FALSE, expires |-> 0, revoked |-> FALSE, base |-> 0,
             mark |-> 0, offered |-> -Cooldown]
Idle     == [at |-> "idle", read |-> {}, over |-> {}]
UnderWay == {"predicting", "checking", "running", "ran"}
Places   == UnderWay \cup {"unmade", "board", "decided", "handled", "unrecorded", "lost"}
Going    == {c \in Cards : place[c] \in UnderWay}

Init ==
  /\ now = 0
  /\ \/ grants = NoGrant /\ outcomes = 0 /\ consent = FALSE
     \/ grants = [NoGrant EXCEPT !.given = TRUE, !.expires = TTL, !.mark = MinN]
          /\ outcomes = MinN /\ consent = TRUE
  /\ gfile = grants /\ offer = "none"
  /\ place = [c \in Cards |-> "unmade"]
  /\ marks = {} /\ ledger = {} /\ over = {}
  /\ loop = Idle /\ thread = Idle
  /\ faults = 0 /\ peak = 0 /\ since = outcomes /\ unsaved = FALSE

(***************************************************************************)
(* The grants.  _save swallows a failed write.  It empties the file and     *)
(* writes it without a lock, from the loop and from threads: what overlaps *)
(* another save, or is cut short, may leave the older payload or a file    *)
(* that counts as empty.                                                   *)
(***************************************************************************)
is_granted        == grants.given /\ ~grants.revoked /\ now < grants.expires
expired_unrevoked == grants.given /\ ~grants.revoked /\ now >= grants.expires
offer_recently    == now - grants.offered < Cooldown

Saved(g) ==
  /\ grants' = g
  /\ \/ gfile' = g /\ UNCHANGED faults
     \/ faults < MaxFaults /\ faults' = faults + 1 /\ gfile' \in {gfile, NoGrant}

\* The offers and the evaluation mark survive a new grant.
grant ==
  /\ Saved([grants EXCEPT !.given = TRUE, !.revoked = FALSE, !.base = 0,
                          !.expires = now + TTL])
  /\ consent' = TRUE /\ UNCHANGED <<since, unsaved>>

\* Mutant: the revocation leaves the old evidence standing.
RevokedOnly == [grants EXCEPT !.revoked = TRUE, !.mark = 0]
\* What is judged after a revocation is what was decided after it.
Revoked == [grants EXCEPT !.revoked = TRUE, !.base = outcomes', !.mark = 0]

revoke ==
  IF grants.given /\ ~grants.revoked
    THEN Saved(Revoked) /\ consent' = FALSE /\ since' = 0 /\ UNCHANGED unsaved
    ELSE UNCHANGED <<store, faults, consent, since, unsaved>>

(***************************************************************************)
(* The two books of the day, and the offers                                *)
(***************************************************************************)
Today(book) == {e \in book : e[2] = now}

\* Mutant: only what the ledger holds is counted.
LedgerCount == Cardinality(Today(ledger))
bucket_daily_count ==
  IF Cardinality(Today(ledger)) >= Cardinality(Today(marks))
    THEN Cardinality(Today(ledger)) ELSE Cardinality(Today(marks))

maybe_offer_renewal ==
  IF expired_unrevoked /\ ~offer_recently /\ offer = "none"
    THEN Saved([grants EXCEPT !.offered = now]) /\ offer' = "renewal"
    ELSE UNCHANGED <<store, faults, offer>>

\* Whether enough of n outcomes were hits, in both directions, is open.  The
\* outcomes are never truncated here, so n does not fall below the mark.
maybe_offer_grant(total) ==
  LET n    == total - grants.base
      seen == [grants EXCEPT !.mark = n]
  IN IF expired_unrevoked THEN maybe_offer_renewal
     ELSE IF is_granted \/ offer_recently \/ offer # "none" \/ n - grants.mark < BatchN
       THEN UNCHANGED <<store, faults, offer>>
     ELSE \/ Saved(seen) /\ UNCHANGED offer
          \/ n >= MinN /\ Saved([seen EXCEPT !.offered = now]) /\ offer' = "grant"

(***************************************************************************)
(* broadcast_proposal asks try_silence.  A granted card goes to the board  *)
(* all the same when it is irreversible, matches a high-value standard,    *)
(* is too expensive or is drawn for the audit.                             *)
(***************************************************************************)
Moved(c, p) == place' = [place EXCEPT ![c] = p]

\* Mutant: a revoked grant counts until it expires.
MaySilenceRevoked ==
  grants.given /\ now < grants.expires /\ bucket_daily_count < DailyMax
MaySilence == is_granted /\ bucket_daily_count < DailyMax

try_silence(c) ==
  /\ loop = Idle /\ place[c] = "unmade"
  /\ \/ /\ Moved(c, "board")
        /\ maybe_offer_renewal
        /\ UNCHANGED history
     \/ /\ MaySilence
        /\ Moved(c, "predicting")
        /\ peak' = IF Cardinality(Going) >= peak THEN Cardinality(Going) + 1 ELSE peak
        /\ UNCHANGED <<store, faults, offer, since, consent, unsaved>>
  /\ UNCHANGED <<now, books, outcomes>>

(***************************************************************************)
(* _silent_handle: await the prediction, await the check of the standards, *)
(* mark, run in a worker thread, record.  The grant is not looked at again.*)
(***************************************************************************)
\* Mutant: the card that is not carried out is in no table.
FallenAway(c) == Moved(c, "unmade")
_fallback(c) == Moved(c, "board")

Predict(c) ==
  /\ loop = Idle /\ place[c] = "predicting"
  /\ Moved(c, "checking") \/ _fallback(c)
  /\ UNCHANGED <<now, store, offer, books, outcomes, faults, history>>

Check(c) ==
  /\ loop = Idle /\ place[c] = "checking"
  /\ \/ _fallback(c) /\ UNCHANGED marks
     \/ Moved(c, "running") /\ marks' = marks \cup {<<c, now>>}
  /\ UNCHANGED <<now, store, offer, ledger, over, loop, thread, outcomes, faults, history>>

\* A handler that fails or raises is recorded like one that succeeds.
Run(c) ==
  /\ place[c] = "running"
  /\ Moved(c, "ran")
  /\ UNCHANGED <<now, store, offer, books, outcomes, faults, history>>

\* record_silenced: read, open for writing (the file is empty), write.  The
\* trace and the notice follow, even when the write has failed.
RecordRead(c) ==
  /\ loop = Idle /\ place[c] = "ran"
  /\ loop' = [at |-> "read", read |-> ledger \cup {<<c, now>>}, over |-> over]
  /\ Moved(c, "handled")
  /\ UNCHANGED <<now, store, offer, marks, ledger, over, thread, outcomes, faults, history>>

RecordWrite ==
  /\ \/ /\ loop.at = "read"
        /\ loop' = [loop EXCEPT !.at = "open"] /\ ledger' = {} /\ over' = {}
        /\ UNCHANGED faults
     \/ /\ loop.at = "open"
        /\ loop' = Idle /\ ledger' = loop.read /\ over' = loop.over
        /\ UNCHANGED faults
     \/ /\ loop.at = "read" /\ faults < MaxFaults
        /\ faults' = faults + 1 /\ loop' = Idle /\ UNCHANGED <<ledger, over>>
  /\ UNCHANGED <<now, store, offer, place, marks, thread, outcomes, history>>

(***************************************************************************)
(* The user.  Deciding a card on the board draws the bet on it, if one     *)
(* was made: on_outcome.  The endpoints run in worker threads.             *)
(***************************************************************************)
Decide(c) ==
  /\ place[c] = "board" /\ Moved(c, "decided")
  /\ \/ UNCHANGED <<store, faults, offer, since, consent, unsaved, outcomes>>  \* no bet
     \/ /\ outcomes' = outcomes + 1                                    \* a miss
        /\ IF is_granted \/ expired_unrevoked THEN revoke
             ELSE since' = since + 1 /\ UNCHANGED <<store, faults, consent, unsaved>>
        /\ UNCHANGED offer
     \/ /\ outcomes' = outcomes + 1 /\ since' = since + 1              \* a hit
        /\ maybe_offer_grant(outcomes + 1)
        /\ UNCHANGED <<consent, unsaved>>
  /\ UNCHANGED <<now, books, peak>>

AnswerOffer ==
  /\ offer # "none" /\ offer' = "none"
  /\ grant \/ UNCHANGED <<store, faults, since, consent, unsaved>>
  /\ UNCHANGED <<now, place, books, outcomes, peak>>

\* POST /silence/revoke
Revoke ==
  /\ grants.given /\ ~grants.revoked
  /\ outcomes' = outcomes /\ revoke
  /\ UNCHANGED <<now, offer, place, books, peak>>

\* POST /silence/overturn: the same read and rewrite of the ledger, in a
\* thread of its own, and then the revocation, even when the write has failed.
OverturnRead(c) ==
  /\ thread = Idle
  /\ \E e \in ledger : e[1] = c
  /\ c \notin over
  /\ thread' = [at |-> "read", read |-> ledger, over |-> over \cup {c}]
  /\ UNCHANGED <<now, store, offer, place, marks, ledger, over, loop, outcomes, faults, history>>

OverturnWrite ==
  /\ \/ /\ thread.at = "read"
        /\ thread' = [thread EXCEPT !.at = "open"] /\ ledger' = {} /\ over' = {}
        /\ UNCHANGED faults
     \/ /\ thread.at = "open"
        /\ thread' = [Idle EXCEPT !.at = "written"]
        /\ ledger' = thread.read /\ over' = thread.over
        /\ UNCHANGED faults
     \/ /\ thread.at = "read" /\ faults < MaxFaults
        /\ faults' = faults + 1 /\ thread' = [Idle EXCEPT !.at = "written"]
        /\ UNCHANGED <<ledger, over>>
  /\ UNCHANGED <<now, store, offer, place, marks, loop, outcomes, history>>

OverturnRevokes ==
  /\ thread.at = "written" /\ thread' = Idle
  /\ outcomes' = outcomes /\ revoke
  /\ UNCHANGED <<now, offer, place, marks, ledger, over, loop, peak>>

DayPasses ==
  /\ now < MaxDay /\ now' = now + 1
  /\ UNCHANGED <<store, offer, place, books, outcomes, faults, history>>

\* What was under way is in no table.  The board is durable (ProposalRegistry).
Crash ==
  /\ faults < MaxFaults /\ faults' = faults + 1
  /\ place' = [c \in Cards |->
       CASE place[c] \in {"predicting", "checking"} -> "lost"
         [] place[c] \in {"running", "ran"}         -> "unrecorded"
         [] OTHER                                   -> place[c]]
  /\ grants' = gfile
  /\ unsaved' = (unsaved \/ gfile # grants)
  /\ marks' = {} /\ loop' = Idle /\ thread' = Idle
  /\ UNCHANGED <<now, gfile, offer, ledger, over, outcomes, peak, since, consent>>

Engine(c) == Predict(c) \/ Check(c) \/ Run(c) \/ RecordRead(c)

Next ==
  \/ \E c \in Cards : try_silence(c) \/ Engine(c) \/ Decide(c) \/ OverturnRead(c)
  \/ RecordWrite \/ AnswerOffer \/ Revoke
  \/ OverturnWrite \/ OverturnRevokes \/ DayPasses \/ Crash

\* The model calls of _silent_handle answer or fail, the loop and its worker
\* threads go on.  Nothing is assumed of the user, the days or the crashes.
Spec == /\ Init /\ [][Next]_vars
        /\ \A c \in Cards : WF_vars(Engine(c))
        /\ WF_vars(RecordWrite)

(***************************************************************************)
(* Properties                                                              *)
(***************************************************************************)

Writers == [at : {"idle", "read", "open", "written"},
            read : SUBSET (Cards \X (0 .. MaxDay)), over : SUBSET Cards]

\* Types of the state.
TypeOK ==
  /\ now \in 0 .. MaxDay
  /\ grants \in Grants /\ gfile \in Grants
  /\ offer \in {"none", "grant", "renewal"}
  /\ place \in [Cards -> Places]
  /\ marks \subseteq Cards \X (0 .. MaxDay) /\ ledger \subseteq Cards \X (0 .. MaxDay)
  /\ over \subseteq Cards /\ loop \in Writers /\ thread \in Writers
  /\ outcomes \in Nat /\ faults \in 0 .. MaxFaults
  /\ peak \in Nat /\ since \in Nat
  /\ consent \in BOOLEAN /\ unsaved \in BOOLEAN

\* The cap of the day leaks only the burst: the cards that this process has
\* carried out on one day, with those that still can be, pass DailyMax by
\* less than the number of cards that were under way at once, whatever
\* becomes of the ledger (failed, torn and lost writes).
DailyCap ==
  LET coming == {c \in Cards : place[c] \in {"predicting", "checking"}}
  IN peak > 0 => Cardinality(Today(marks)) + Cardinality(coming) < DailyMax + peak

\* A bucket that was revoked is offered for a grant again only on MinN
\* outcomes of decisions that came after the revocation, unless a crash has
\* lost a save.
EarnedOffers ==
  [][(offer' = "grant" /\ offer # "grant") => since' >= MinN \/ unsaved]_vars

\* No card is taken from the user after a revocation (by hand, by a miss or
\* by an overturned entry) until an offer is accepted, except that a crash
\* may bring back a grant whose revocation could not be saved.
TakenWithConsent ==
  [][\A c \in Cards : (place[c] = "unmade" /\ place'[c] = "predicting")
                        => consent \/ unsaved]_vars

\* A card that was taken is carried out and its record begun, or comes to the
\* board, unless the console goes down meanwhile: none evaporates.
Settles ==
  \A c \in Cards : place[c] \in UnderWay ~> place[c] \notin UnderWay \cup {"unmade"}
=============================================================================
