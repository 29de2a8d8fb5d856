--------------------------- MODULE Silence_proofs ---------------------------
(* Proofs about Silence, for every value of its constants. *)
EXTENDS Silence, FiniteSetTheorems, TLAPS

-----------------------------------------------------------------------------
(* What the helpers return.                                                  *)

StoreOK == grants \in Grants /\ gfile \in Grants /\ faults \in 0 .. MaxFaults
Told    == consent \in BOOLEAN /\ since \in Nat

LEMMA Sizes == DailyMax \in Nat \ {0} /\ MinN \in Nat \ {0} /\ TTL \in Nat /\ MaxFaults \in Nat
  BY SilenceAssumption

\* What an empty file counts as.
LEMMA NoGrantType == NoGrant \in Grants /\ NoGrant.base = 0
  BY SilenceAssumption DEF NoGrant, Grants

LEMMA SavedType ==
  ASSUME NEW g \in Grants, StoreOK, Saved(g)
  PROVE  StoreOK' /\ grants' = g
  BY Sizes, NoGrantType DEF Saved, StoreOK

LEMMA GrantType ==
  ASSUME StoreOK, now \in Nat, grant
  PROVE  StoreOK' /\ consent' = TRUE /\ since' = since
<1>1. PICK x \in Nat : x = now + TTL
  BY Sizes
<1>2. [grants EXCEPT !.given = TRUE, !.revoked = FALSE, !.base = 0, !.expires = x] \in Grants
  BY DEF StoreOK, Grants
<1>3. QED
  BY <1>1, <1>2, SavedType DEF grant

LEMMA RevokeType ==
  ASSUME StoreOK, Told, outcomes' \in Nat, revoke
  PROVE  StoreOK' /\ Told' /\ unsaved' = unsaved
<1>1. Revoked \in Grants
  BY DEF StoreOK, Grants, Revoked
<1>2. CASE grants.given /\ ~grants.revoked
  <2>1. Saved(Revoked) /\ consent' = FALSE /\ since' = 0 /\ unsaved' = unsaved
    BY <1>2 DEF revoke
  <2>2. StoreOK'
    BY <1>1, <2>1, SavedType
  <2>3. QED
    BY <2>1, <2>2 DEF Told
<1>3. CASE ~(grants.given /\ ~grants.revoked)
  BY <1>3 DEF revoke, Told, StoreOK, store
<1>4. QED
  BY <1>2, <1>3

Offers == {"none", "grant", "renewal"}

LEMMA RenewalType ==
  ASSUME StoreOK, now \in Nat, offer \in Offers, maybe_offer_renewal
  PROVE  StoreOK' /\ offer' \in Offers
<1>1. [grants EXCEPT !.offered = now] \in Grants
  BY DEF StoreOK, Grants
<1>2. CASE expired_unrevoked /\ ~offer_recently /\ offer = "none"
  BY <1>1, <1>2, SavedType DEF maybe_offer_renewal, Offers
<1>3. CASE ~(expired_unrevoked /\ ~offer_recently /\ offer = "none")
  BY <1>3 DEF maybe_offer_renewal, StoreOK, store
<1>4. QED
  BY <1>2, <1>3

LEMMA OfferType ==
  ASSUME NEW total \in Nat, StoreOK, now \in Nat, offer \in Offers,
         total - grants.base \in Nat, maybe_offer_grant(total)
  PROVE  StoreOK' /\ offer' \in Offers
<1> DEFINE n    == total - grants.base
           seen == [grants EXCEPT !.mark = n]
<1>1. seen \in Grants /\ [seen EXCEPT !.offered = now] \in Grants
  <2>1. PICK k \in Nat : k = n
    OBVIOUS
  <2>2. PICK s \in Grants : s = [grants EXCEPT !.mark = k]
    BY DEF StoreOK, Grants
  <2>3. [s EXCEPT !.offered = now] \in Grants
    BY DEF Grants
  <2>4. QED
    BY <2>1, <2>2, <2>3
<1>2. CASE expired_unrevoked
  BY <1>2, RenewalType DEF maybe_offer_grant
<1>3. CASE UNCHANGED <<store, faults, offer>>
  BY <1>3 DEF StoreOK, store
<1>4. CASE Saved(seen) /\ UNCHANGED offer
  BY <1>1, <1>4, SavedType
<1>5. CASE Saved([seen EXCEPT !.offered = now]) /\ offer' = "grant"
  BY <1>1, <1>5, SavedType DEF Offers
<1>6. QED
  BY <1>2, <1>3, <1>4, <1>5 DEF maybe_offer_grant
-----------------------------------------------------------------------------
(* Types.  The number of fresh outcomes is outcomes - base, so that base not *)
(* passing outcomes belongs to them.                                         *)

Based == grants.base <= outcomes /\ gfile.base <= outcomes
Shape == TypeOK /\ Based

LEMMA MovedType ==
  ASSUME TypeOK, NEW c \in Cards, NEW p \in Places, Moved(c, p)
  PROVE  place' \in [Cards -> Places]
  BY DEF TypeOK, Moved

LEMMA SavedBase ==
  ASSUME NEW g, Saved(g), Based, outcomes <= outcomes', g.base <= outcomes',
         outcomes \in Nat, outcomes' \in Nat, StoreOK
  PROVE  Based'
  BY NoGrantType DEF Saved, Based, StoreOK, Grants

LEMMA RenewalBase ==
  ASSUME StoreOK, Based, outcomes \in Nat, outcomes' \in Nat, outcomes <= outcomes',
         maybe_offer_renewal
  PROVE  Based'
<1>1. [grants EXCEPT !.offered = now].base <= outcomes'
  BY DEF Based, StoreOK, Grants
<1>2. CASE Saved([grants EXCEPT !.offered = now])
  BY <1>1, <1>2, SavedBase
<1>3. CASE UNCHANGED store
  BY <1>3 DEF store, Based, StoreOK, Grants
<1>4. QED
  BY <1>2, <1>3 DEF maybe_offer_renewal

LEMMA OfferBase ==
  ASSUME NEW total \in Nat, StoreOK, Based, outcomes \in Nat, outcomes' = total,
         outcomes <= total, maybe_offer_grant(total)
  PROVE  Based'
<1> DEFINE n    == total - grants.base
           seen == [grants EXCEPT !.mark = n]
<1>1. outcomes' \in Nat /\ outcomes <= outcomes'
  OBVIOUS
<1>2. seen.base <= outcomes' /\ [seen EXCEPT !.offered = now].base <= outcomes'
  BY DEF Based, StoreOK, Grants
<1>3. CASE maybe_offer_renewal
  BY <1>1, <1>3, RenewalBase
<1>4. CASE UNCHANGED <<store, faults, offer>>
  BY <1>1, <1>4 DEF store, Based, StoreOK, Grants
<1>5. CASE Saved(seen)
  BY <1>1, <1>2, <1>5, SavedBase
<1>6. CASE Saved([seen EXCEPT !.offered = now])
  BY <1>1, <1>2, <1>6, SavedBase
<1>7. \/ maybe_offer_renewal \/ UNCHANGED <<store, faults, offer>>
      \/ Saved(seen) \/ Saved([seen EXCEPT !.offered = now])
  BY DEF maybe_offer_grant
<1>8. QED
  BY <1>3, <1>4, <1>5, <1>6, <1>7

LEMMA RevokeBase ==
  ASSUME StoreOK, Based, outcomes \in Nat, outcomes' \in Nat, outcomes <= outcomes', revoke
  PROVE  Based'
<1>1. Revoked.base = outcomes'
  BY DEF Revoked, StoreOK, Grants
<1>2. CASE Saved(Revoked)
  BY <1>1, <1>2, NoGrantType DEF Saved, Based, StoreOK, Grants
<1>3. CASE UNCHANGED store
  BY <1>3 DEF store, Based, StoreOK, Grants
<1>4. QED
  BY <1>2, <1>3 DEF revoke

LEMMA GrantBase ==
  ASSUME StoreOK, Based, outcomes \in Nat, outcomes' = outcomes, grant
  PROVE  Based'
<1>1. PICK g : g = [grants EXCEPT !.given = TRUE, !.revoked = FALSE, !.base = 0,
                                  !.expires = now + TTL]
  OBVIOUS
<1>2. g.base <= outcomes'
  BY <1>1 DEF StoreOK, Grants
<1>3. Saved(g)
  BY <1>1 DEF grant
<1>4. QED
  BY <1>2, <1>3, SavedBase
LEMMA Entries ==
  ASSUME NEW c \in Cards, NEW S \in SUBSET (Cards \X (0 .. MaxDay)), now \in 0 .. MaxDay
  PROVE  S \cup {<<c, now>>} \in SUBSET (Cards \X (0 .. MaxDay))
  OBVIOUS

LEMMA ShapeStep == ASSUME Shape, [Next]_vars PROVE Shape'
<1> USE DEF Shape
<1>0. /\ StoreOK /\ Told /\ now \in Nat /\ offer \in Offers
      /\ outcomes \in Nat /\ grants \in Grants
  BY Sizes DEF TypeOK, StoreOK, Told, Offers
<1>1. ASSUME NEW c \in Cards, try_silence(c) PROVE Shape'
  <2>1. place' \in [Cards -> Places]
    BY <1>1, MovedType DEF try_silence, Places, UnderWay
  <2>2. StoreOK' /\ offer' \in Offers /\ Based'
    <3>1. outcomes' = outcomes
      BY <1>1 DEF try_silence
    <3>2. CASE maybe_offer_renewal
      BY <1>0, <3>1, <3>2, RenewalType, RenewalBase
    <3>3. CASE UNCHANGED <<store, faults, offer>>
      BY <1>0, <3>1, <3>3 DEF store, StoreOK, Based
    <3>4. QED
      BY <1>1, <3>2, <3>3 DEF try_silence
  <2>3. peak' \in Nat
    <3>1. Cardinality(Going) \in Nat
      BY SilenceAssumption, FS_Subset, FS_CardinalityType DEF Going
    <3>2. QED
      BY <1>1, <3>1 DEF try_silence, TypeOK, history
  <2>4. QED
    BY <1>1, <2>1, <2>2, <2>3 DEF try_silence, TypeOK, StoreOK, Offers, books, history
<1>2. ASSUME NEW c \in Cards, Predict(c) PROVE Shape'
  <2>1. place' \in [Cards -> Places]
    BY <1>2, MovedType DEF Predict, _fallback, Places, UnderWay
  <2>2. QED
    BY <1>2, <2>1 DEF Predict, TypeOK, Based, store, books, history
<1>3. ASSUME NEW c \in Cards, Check(c) PROVE Shape'
  <2>1. place' \in [Cards -> Places]
    BY <1>3, MovedType DEF Check, _fallback, Places, UnderWay
  <2>2. marks' \subseteq Cards \X (0 .. MaxDay)
    BY <1>3, Entries DEF Check, TypeOK
  <2>3. QED
    BY <1>3, <2>1, <2>2 DEF Check, TypeOK, Based, store, history
<1>4. ASSUME NEW c \in Cards, Run(c) PROVE Shape'
  <2>1. place' \in [Cards -> Places]
    BY <1>4, MovedType DEF Run, Places, UnderWay
  <2>2. QED
    BY <1>4, <2>1 DEF Run, TypeOK, Based, store, books, history
<1>5. ASSUME NEW c \in Cards, RecordRead(c) PROVE Shape'
  <2>1. place' \in [Cards -> Places]
    BY <1>5, MovedType DEF RecordRead, Places
  <2>2. loop' \in Writers
    BY <1>5, Entries DEF RecordRead, TypeOK, Writers
  <2>3. QED
    BY <1>5, <2>1, <2>2 DEF RecordRead, TypeOK, Based, store, history
<1>6. ASSUME RecordWrite PROVE Shape'
  <2>1. loop' \in Writers /\ ledger' \subseteq Cards \X (0 .. MaxDay) /\ over' \subseteq Cards
    BY <1>6 DEF RecordWrite, TypeOK, Writers, Idle
  <2>2. faults' \in 0 .. MaxFaults
    BY <1>6, Sizes DEF RecordWrite, TypeOK
  <2>3. QED
    BY <1>6, <2>1, <2>2 DEF RecordWrite, TypeOK, Based, store, history
<1>7. ASSUME NEW c \in Cards, Decide(c) PROVE Shape'
  <2>1. place' \in [Cards -> Places]
    BY <1>7, MovedType DEF Decide, Places
  <2>2. CASE UNCHANGED <<store, faults, offer, since, consent, unsaved, outcomes>>
    BY <1>7, <2>1, <2>2 DEF Decide, TypeOK, Based, store, books
  <2>3. CASE outcomes' = outcomes + 1 /\ offer' = offer /\ revoke
    <3>1. StoreOK' /\ Told' /\ unsaved' = unsaved
      BY <1>0, <2>3, RevokeType
    <3>2. Based'
      BY <1>0, <2>3, RevokeBase
    <3>3. QED
      BY <1>7, <2>1, <2>3, <3>1, <3>2 DEF Decide, TypeOK, StoreOK, Told, books
  <2>4. CASE outcomes' = outcomes + 1 /\ since' = since + 1
             /\ UNCHANGED <<offer, store, faults, consent, unsaved>>
    <3>1. Based'
      BY <1>0, <2>4 DEF Based, store, StoreOK, Grants
    <3>2. QED
      BY <1>7, <2>1, <2>4, <3>1 DEF Decide, TypeOK, store, books
  <2>5. CASE outcomes' = outcomes + 1 /\ since' = since + 1
             /\ maybe_offer_grant(outcomes + 1) /\ UNCHANGED <<consent, unsaved>>
    <3>1. PICK total \in Nat : total = outcomes + 1
      BY <1>0
    <3>2. total - grants.base \in Nat
      BY <1>0, <3>1 DEF Based, Grants
    <3>3. StoreOK' /\ offer' \in Offers
      BY <1>0, <2>5, <3>1, <3>2, OfferType
    <3>4. Based'
      BY <1>0, <2>5, <3>1, OfferBase
    <3>5. QED
      BY <1>7, <2>1, <2>5, <3>3, <3>4 DEF Decide, TypeOK, StoreOK, Offers, books
  <2>6. QED
    BY <1>7, <2>2, <2>3, <2>4, <2>5 DEF Decide
<1>8. ASSUME AnswerOffer PROVE Shape'
  <2>1. outcomes' = outcomes /\ offer' = "none"
    BY <1>8 DEF AnswerOffer
  <2>2. CASE grant
    <3>1. StoreOK' /\ Told' /\ unsaved' = unsaved
      BY <1>0, <2>2, GrantType DEF Told, grant
    <3>2. Based'
      BY <1>0, <2>1, <2>2, GrantBase
    <3>3. QED
      BY <1>8, <2>1, <3>1, <3>2 DEF AnswerOffer, TypeOK, StoreOK, Told, books
  <2>3. CASE UNCHANGED <<store, faults, since, consent, unsaved>>
    BY <1>8, <2>1, <2>3 DEF AnswerOffer, TypeOK, Based, store, books
  <2>4. QED
    BY <1>8, <2>2, <2>3 DEF AnswerOffer
<1>9. ASSUME outcomes' = outcomes, revoke, thread' \in Writers,
             UNCHANGED <<now, offer, place, marks, ledger, over, loop, peak>>
      PROVE  Shape'
  <2>1. StoreOK' /\ Told' /\ unsaved' = unsaved
    BY <1>0, <1>9, RevokeType
  <2>2. Based'
    BY <1>0, <1>9, RevokeBase
  <2>3. QED
    BY <1>9, <2>1, <2>2 DEF TypeOK, StoreOK, Told
<1>10. ASSUME Revoke PROVE Shape'
  BY <1>9, <1>10 DEF Revoke, books, TypeOK
<1>11. ASSUME NEW c \in Cards, OverturnRead(c) PROVE Shape'
  <2>1. thread' \in Writers
    BY <1>11 DEF OverturnRead, TypeOK, Writers
  <2>2. QED
    BY <1>11, <2>1 DEF OverturnRead, TypeOK, Based, store, history
<1>12. ASSUME OverturnWrite PROVE Shape'
  <2>1. thread' \in Writers /\ ledger' \subseteq Cards \X (0 .. MaxDay) /\ over' \subseteq Cards
    BY <1>12 DEF OverturnWrite, TypeOK, Writers, Idle
  <2>2. faults' \in 0 .. MaxFaults
    BY <1>12, Sizes DEF OverturnWrite, TypeOK
  <2>3. QED
    BY <1>12, <2>1, <2>2 DEF OverturnWrite, TypeOK, Based, store, history
<1>13. ASSUME OverturnRevokes PROVE Shape'
  <2>1. thread' \in Writers
    BY <1>13 DEF OverturnRevokes, Writers, Idle
  <2>2. QED
    BY <1>9, <1>13, <2>1 DEF OverturnRevokes
<1>14. ASSUME DayPasses PROVE Shape'
  <2>1. now' \in 0 .. MaxDay
    BY <1>14, SilenceAssumption DEF DayPasses, TypeOK
  <2>2. QED
    BY <1>14, <2>1 DEF DayPasses, TypeOK, Based, store, books, history
<1>15. ASSUME Crash PROVE Shape'
  <2>1. place' \in [Cards -> Places]
    BY <1>15 DEF Crash, TypeOK, Places, UnderWay
  <2>2. faults' \in 0 .. MaxFaults
    BY <1>15, Sizes DEF Crash, TypeOK
  <2>3. unsaved' \in BOOLEAN
    BY <1>15 DEF Crash, TypeOK
  <2>4. QED
    BY <1>15, <2>1, <2>2, <2>3 DEF Crash, TypeOK, Based, Writers, Idle
<1>16. CASE UNCHANGED vars
  BY <1>16 DEF vars, TypeOK, Based, store, books, history
<1>17. QED
  BY <1>1, <1>2, <1>3, <1>4, <1>5, <1>6, <1>7, <1>8, <1>10, <1>11, <1>12,
     <1>13, <1>14, <1>15, <1>16 DEF Next, Engine

LEMMA ShapeInit == Init => Shape
<1> SUFFICES ASSUME Init PROVE Shape
  OBVIOUS
<1>1. grants \in Grants /\ grants.base = 0
  <2>1. PICK t \in Nat : t = TTL
    BY Sizes
  <2>2. PICK m \in Nat : m = MinN
    BY Sizes
  <2>3. PICK k \in Int : k = -Cooldown
    BY SilenceAssumption
  <2>4. PICK g \in Grants : g = NoGrant
    BY <2>3 DEF NoGrant, Grants
  <2>5. [g EXCEPT !.given = TRUE, !.expires = t, !.mark = m] \in Grants
    BY DEF Grants
  <2>6. g.base = 0 /\ [g EXCEPT !.given = TRUE, !.expires = t, !.mark = m].base = 0
    BY <2>4 DEF NoGrant
  <2>7. CASE grants = NoGrant
    BY <2>4, <2>6, <2>7
  <2>8. CASE grants = [NoGrant EXCEPT !.given = TRUE, !.expires = TTL, !.mark = MinN]
    BY <2>1, <2>2, <2>4, <2>5, <2>6, <2>8
  <2>9. QED
    BY <2>7, <2>8 DEF Init
<1>2. outcomes \in Nat
  BY Sizes DEF Init
<1>3. consent \in BOOLEAN /\ unsaved \in BOOLEAN
  <2>1. consent = TRUE \/ consent = FALSE
    BY Zenon DEF Init
  <2>2. QED
    BY <2>1 DEF Init
<1>4. place \in [Cards -> Places] /\ Idle \in Writers
  BY DEF Init, Places, Idle, Writers
<1>5. gfile = grants /\ since = outcomes
  BY DEF Init
<1>6. now \in 0 .. MaxDay /\ faults \in 0 .. MaxFaults /\ peak \in Nat
  BY SilenceAssumption DEF Init
<1>7. QED
  BY <1>1, <1>2, <1>4, <1>5, <1>3, <1>6 DEF Init, Shape, TypeOK, Based

\* Every reachable state has its types (TypeOK), and the revocation that the
\* evidence is counted from never lies after the last outcome.
THEOREM SilenceTypes == Spec => [](TypeOK /\ Based)
  BY ShapeInit, ShapeStep, PTL DEF Spec, Shape
-----------------------------------------------------------------------------
(* The cap of the day.  At the check at most DailyMax - 1 cards are marked,  *)
(* and after it at most peak are under way.  Aged: no mark is of a later     *)
(* day, so a new day begins without any.                                     *)

Coming == {c \in Cards : place[c] \in {"predicting", "checking"}}
Aged   == \A e \in marks : e[2] <= now
Burst  == Cardinality(Going) <= peak
CapInv == Aged /\ Burst /\ DailyCap

LEMMA Finite ==
  ASSUME TypeOK
  PROVE  /\ IsFiniteSet(Going) /\ Cardinality(Going) \in Nat
         /\ IsFiniteSet(Coming) /\ Cardinality(Coming) \in Nat
         /\ Coming \subseteq Going /\ Cardinality(Coming) <= Cardinality(Going)
         /\ IsFiniteSet(marks)
         /\ IsFiniteSet(Today(marks)) /\ Cardinality(Today(marks)) \in Nat
         /\ IsFiniteSet(Today(ledger)) /\ Cardinality(Today(ledger)) \in Nat
<1>1. IsFiniteSet(Going) /\ IsFiniteSet(Coming)
  BY SilenceAssumption, FS_Subset DEF Going, Coming
<1>2. Coming \subseteq Going
  BY DEF Coming, Going, UnderWay
<1>3. IsFiniteSet(Cards \X (0 .. MaxDay))
  <2>1. IsFiniteSet(Cards) /\ IsFiniteSet(0 .. MaxDay)
    BY SilenceAssumption, FS_Interval
  <2>2. QED
    BY <2>1, FS_Product
<1>4. IsFiniteSet(marks) /\ IsFiniteSet(Today(marks)) /\ IsFiniteSet(Today(ledger))
  BY <1>3, FS_Subset DEF TypeOK, Today
<1>5. QED
  BY <1>1, <1>2, <1>4, FS_Subset, FS_CardinalityType

\* Cards that leave the path, and marks that fall away, only help.
LEMMA CapEases ==
  ASSUME TypeOK, TypeOK', CapInv, Going' \subseteq Going, Coming' \subseteq Coming,
         marks' \subseteq marks, now' = now, peak' = peak
  PROVE  CapInv'
<1>1. Aged'
  BY DEF CapInv, Aged
<1>2. Cardinality(Going') <= Cardinality(Going) /\ Cardinality(Going') \in Nat
  BY Finite, FS_Subset, FS_CardinalityType
<1>3. Cardinality(Coming') <= Cardinality(Coming) /\ Cardinality(Coming') \in Nat
  BY Finite, FS_Subset, FS_CardinalityType
<1>4. Today(marks)' \subseteq Today(marks)
  BY DEF Today
<1>5. Cardinality(Today(marks)') <= Cardinality(Today(marks)) /\ Cardinality(Today(marks)') \in Nat
  BY <1>4, Finite, FS_Subset, FS_CardinalityType
<1>6. QED
  BY <1>1, <1>2, <1>3, <1>5, Finite, Sizes DEF CapInv, Burst, DailyCap, Coming, TypeOK

LEMMA CapTaken ==
  ASSUME Shape, Shape', CapInv, NEW c \in Cards, place[c] = "unmade", MaySilence,
         Moved(c, "predicting"), marks' = marks, now' = now,
         peak' = IF Cardinality(Going) >= peak THEN Cardinality(Going) + 1 ELSE peak
  PROVE  CapInv'
<1> TypeOK /\ TypeOK'
  BY DEF Shape
<1>1. Going' = Going \cup {c} /\ c \notin Going
  BY DEF Going, Moved, UnderWay, TypeOK
<1>2. Cardinality(Going') = Cardinality(Going) + 1
  BY <1>1, Finite, FS_AddElement
<1>3. Cardinality(Going') <= peak'
  BY <1>2, Finite DEF TypeOK
<1>4. Cardinality(Coming') <= Cardinality(Going') /\ Cardinality(Coming') \in Nat
  <2>1. IsFiniteSet(Going')
    BY <1>1, Finite, FS_AddElement
  <2>2. Coming' \subseteq Going'
    BY DEF Coming, Going, UnderWay
  <2>3. QED
    BY <2>1, <2>2, FS_Subset, FS_CardinalityType
<1>5. Cardinality(Today(marks)) < DailyMax
  BY Finite, Sizes DEF MaySilence, bucket_daily_count
<1>6. Today(marks)' = Today(marks)
  BY DEF Today
<1>7. DailyCap'
  BY <1>2, <1>3, <1>4, <1>5, <1>6, Finite, Sizes DEF DailyCap, Coming, TypeOK
<1>8. QED
  BY <1>3, <1>7 DEF CapInv, Aged, Burst

LEMMA CapMarked ==
  ASSUME Shape, Shape', CapInv, NEW c \in Cards, place[c] = "checking",
         Moved(c, "running"), marks' = marks \cup {<<c, now>>}, now' = now, peak' = peak
  PROVE  CapInv'
<1> TypeOK /\ TypeOK'
  BY DEF Shape
<1>1. Aged'
  BY DEF CapInv, Aged, TypeOK
<1>2. Going' = Going
  BY DEF Going, Moved, UnderWay, TypeOK
<1>3. Coming' = Coming \ {c} /\ c \in Coming
  BY DEF Coming, Moved, TypeOK
<1>4. Cardinality(Coming') = Cardinality(Coming) - 1
  BY <1>3, Finite, FS_RemoveElement
<1>5. Today(marks)' = Today(marks) \cup {<<c, now>>}
  BY DEF Today
<1>6. Cardinality(Today(marks)') <= Cardinality(Today(marks)) + 1 /\ Cardinality(Today(marks)') \in Nat
  <2>1. PICK S : S = Today(marks)
    OBVIOUS
  <2>2. IsFiniteSet(S) /\ Cardinality(S) \in Nat
    BY <2>1, Finite
  <2>3. PICK x : x = <<c, now>>
    OBVIOUS
  <2>4. Cardinality(S \cup {x}) <= Cardinality(S) + 1 /\ Cardinality(S \cup {x}) \in Nat
    BY <2>2, FS_AddElement
  <2>5. QED
    BY <1>5, <2>1, <2>3, <2>4
<1>7. QED
  BY <1>1, <1>2, <1>4, <1>6, Finite, Sizes DEF CapInv, Burst, DailyCap, Coming, TypeOK
LEMMA CapStep == ASSUME Shape, Shape', CapInv, [Next]_vars PROVE CapInv'
<1> TypeOK /\ TypeOK'
  BY DEF Shape
<1>1. ASSUME place' = place, marks' = marks, now' = now, peak' = peak PROVE CapInv'
  BY <1>1, CapEases DEF Going, Coming
<1>2. ASSUME NEW c \in Cards, NEW p \in Places \ {"predicting"}, Moved(c, p),
             place[c] \in {"ran", "running"} \/ p \notin UnderWay \/ place[c] = "predicting",
             place[c] = "running" \/ p # "ran",
             p = "checking" => place[c] = "predicting", p # "running",
             marks' = marks, now' = now, peak' = peak
      PROVE  CapInv'
  <2>1. Going' \subseteq Going
    BY <1>2 DEF Going, Moved, UnderWay, TypeOK
  <2>2. Coming' \subseteq Coming
    BY <1>2 DEF Coming, Moved, TypeOK
  <2>3. QED
    BY <1>2, <2>1, <2>2, CapEases
<1>3. ASSUME NEW c \in Cards, try_silence(c) PROVE CapInv'
  <2>1. CASE Moved(c, "board") /\ UNCHANGED history
    BY <1>2, <1>3, <2>1 DEF try_silence, Places, UnderWay, books, history
  <2>2. CASE MaySilence /\ Moved(c, "predicting")
             /\ peak' = IF Cardinality(Going) >= peak THEN Cardinality(Going) + 1 ELSE peak
    BY <1>3, <2>2, CapTaken DEF try_silence, books
  <2>3. QED
    BY <1>3, <2>1, <2>2 DEF try_silence
<1>4. ASSUME NEW c \in Cards, Engine(c) PROVE CapInv'
  <2>1. CASE Predict(c)
    BY <1>2, <2>1 DEF Predict, _fallback, Places, UnderWay, books, history
  <2>2. CASE Check(c)
    <3>1. CASE _fallback(c) /\ UNCHANGED marks
      BY <1>2, <2>2, <3>1 DEF Check, _fallback, Places, UnderWay, history
    <3>2. CASE Moved(c, "running") /\ marks' = marks \cup {<<c, now>>}
      BY <2>2, <3>2, CapMarked DEF Check, history
    <3>3. QED
      BY <2>2, <3>1, <3>2 DEF Check
  <2>3. CASE Run(c)
    BY <1>2, <2>3 DEF Run, Places, UnderWay, books, history
  <2>4. CASE RecordRead(c)
    BY <1>2, <2>4 DEF RecordRead, Places, UnderWay, history
  <2>5. QED
    BY <1>4, <2>1, <2>2, <2>3, <2>4 DEF Engine
<1>5. ASSUME NEW c \in Cards, Decide(c) PROVE CapInv'
  BY <1>2, <1>5 DEF Decide, Places, UnderWay, books
<1>6. ASSUME DayPasses PROVE CapInv'
  <2>1. now' = now + 1 /\ marks' = marks /\ place' = place /\ peak' = peak
    BY <1>6 DEF DayPasses, books, history
  <2>2. \A e \in marks : e[2] \in 0 .. MaxDay
    BY DEF TypeOK
  <2>3. Aged'
    BY <2>1, <2>2, SilenceAssumption DEF CapInv, Aged, TypeOK
  <2>4. Today(marks)' = {}
    BY <2>1, <2>2, SilenceAssumption DEF Today, CapInv, Aged, TypeOK
  <2>5. Going' = Going /\ Coming' = Coming
    BY <2>1 DEF Going, Coming
  <2>6. QED
    BY <2>1, <2>3, <2>4, <2>5, Finite, Sizes, FS_EmptySet
       DEF CapInv, Burst, DailyCap, Coming, TypeOK
<1>7. ASSUME Crash PROVE CapInv'
  <2>1. Going' \subseteq Going /\ Coming' \subseteq Coming
    BY <1>7 DEF Crash, Going, Coming, UnderWay, TypeOK
  <2>2. marks' \subseteq marks
    BY <1>7 DEF Crash
  <2>3. QED
    BY <1>7, <2>1, <2>2, CapEases DEF Crash
<1>8. CASE UNCHANGED vars
  BY <1>1, <1>8 DEF vars, books, history
<1>9. CASE AnswerOffer \/ Revoke
  BY <1>1, <1>9 DEF AnswerOffer, Revoke, books
<1>10. CASE RecordWrite \/ OverturnWrite \/ OverturnRevokes \/ \E c \in Cards : OverturnRead(c)
  BY <1>1, <1>10 DEF RecordWrite, OverturnWrite, OverturnRevokes, OverturnRead, history
<1>11. QED
  BY <1>3, <1>4, <1>5, <1>6, <1>7, <1>8, <1>9, <1>10 DEF Next

LEMMA CapInit == ASSUME Init PROVE CapInv
<1>1. Going = {} /\ marks = {} /\ peak = 0
  BY DEF Init, Going, UnderWay
<1>2. QED
  BY <1>1, FS_EmptySet DEF CapInv, Aged, Burst, DailyCap

\* The cap of the day leaks only the burst (DailyCap), for any numbers of
\* cards, days and faults and any cap: try_silence counts before two model
\* calls what _silent_handle marks after them.
THEOREM CapHolds == Spec => []DailyCap
<1>1. Init => Shape /\ CapInv
  BY ShapeInit, CapInit
<1>2. Shape /\ CapInv /\ [Next]_vars => (Shape /\ CapInv)'
  BY ShapeStep, CapStep
<1>3. CapInv => DailyCap
  BY DEF CapInv
<1>4. QED
  BY <1>1, <1>2, <1>3, PTL DEF Spec

-----------------------------------------------------------------------------
(* Consent and evidence.  A grant that stands was accepted after the last    *)
(* revocation; when none stands, what maybe_offer_grant counts came after    *)
(* it.                                                                       *)

Stands   == grants.given /\ ~grants.revoked
Standing == unsaved \/ (Stands => consent)
Fresh    == unsaved \/ (~Stands => outcomes - grants.base <= since)
Earned   == Standing /\ Fresh
Same == /\ grants'.given = grants.given /\ grants'.revoked = grants.revoked
        /\ grants'.base = grants.base

LEMMA RenewalSame ==
  ASSUME grants \in Grants, maybe_offer_renewal \/ UNCHANGED <<store, faults, offer>>
  PROVE  Same /\ (offer' = "grant" => offer = "grant")
<1>1. CASE Saved([grants EXCEPT !.offered = now]) /\ offer' = "renewal"
  BY <1>1 DEF Saved, Same, Grants
<1>2. CASE UNCHANGED <<store, faults, offer>>
  BY <1>2 DEF store, Same
<1>3. QED
  BY <1>1, <1>2 DEF maybe_offer_renewal

LEMMA OfferSame ==
  ASSUME NEW total \in Nat, grants \in Grants, now \in Nat, maybe_offer_grant(total)
  PROVE  Same /\ ((offer' = "grant" /\ offer # "grant")
                   => ~Stands /\ total - grants.base >= MinN)
<1> DEFINE n    == total - grants.base
           seen == [grants EXCEPT !.mark = n]
<1>1. CASE maybe_offer_renewal \/ UNCHANGED <<store, faults, offer>>
  BY <1>1, RenewalSame
<1>2. CASE Saved(seen) /\ UNCHANGED offer
  BY <1>2 DEF Saved, Same, Grants
<1>3. CASE /\ ~expired_unrevoked /\ ~is_granted
           /\ n >= MinN /\ Saved([seen EXCEPT !.offered = now])
  <2>1. Same
    BY <1>3 DEF Saved, Same, Grants
  <2>2. ~Stands
    BY <1>3 DEF expired_unrevoked, is_granted, Stands, Grants
  <2>3. QED
    BY <1>3, <2>1, <2>2
<1>4. QED
  BY <1>1, <1>2, <1>3 DEF maybe_offer_grant

LEMMA EarnedStep == ASSUME Shape, Earned, [Next]_vars PROVE Earned'
<1>0. /\ grants \in Grants /\ StoreOK /\ outcomes \in Nat /\ since \in Nat
      /\ consent \in BOOLEAN /\ unsaved \in BOOLEAN /\ now \in Nat
  BY DEF Shape, TypeOK, StoreOK
<1>1. ASSUME Same, outcomes' = outcomes, UNCHANGED <<since, consent, unsaved>> PROVE Earned'
  BY <1>0, <1>1 DEF Earned, Standing, Fresh, Stands, Same
<1>2. ASSUME Same, outcomes' = outcomes + 1, since' = since + 1,
             UNCHANGED <<consent, unsaved>>
      PROVE  Earned'
  <2>1. Stands' <=> Stands
    BY <1>2 DEF Stands, Same
  <2>2. Standing'
    BY <1>2, <2>1 DEF Earned, Standing
  <2>3. PICK b \in Nat : b = grants.base
    BY <1>0 DEF Grants
  <2>4. Fresh'
    <3>1. outcomes' = outcomes + 1 /\ since' = since + 1 /\ grants'.base = b
      BY <1>2, <2>3 DEF Same
    <3>2. unsaved' = unsaved
      BY <1>2
    <3>3. unsaved \/ (~Stands => outcomes - b <= since)
      BY <2>3 DEF Earned, Fresh
    <3>4. unsaved' \/ (~Stands' => outcomes' - b <= since')
      <4>1. outcomes - b <= since => outcomes' - b <= since'
        BY <1>0, <3>1
      <4>2. QED
        BY <2>1, <3>2, <3>3, <4>1, Zenon
    <3>5. QED
      BY <3>1, <3>4 DEF Fresh
  <2>5. QED
    BY <2>2, <2>4 DEF Earned
<1>3. ASSUME revoke, outcomes' \in Nat, Stands \/ outcomes' = outcomes PROVE Earned'
  <2>1. CASE Stands
    <3>1. grants' = Revoked /\ since' = 0
      BY <1>3, <2>1 DEF revoke, Saved, Stands
    <3>2. grants'.revoked = TRUE /\ grants'.base = outcomes'
      BY <1>0, <3>1 DEF Revoked, Grants
    <3>3. ~Stands'
      BY <3>2 DEF Stands
    <3>4. outcomes' - grants'.base <= since'
      <4>1. PICK o \in Nat : o = outcomes'
        BY <1>3
      <4>2. grants'.base = o /\ since' = 0
        BY <3>1, <3>2, <4>1
      <4>3. o - o <= 0
        OBVIOUS
      <4>4. QED
        BY <4>1, <4>2, <4>3
    <3>5. QED
      BY <3>3, <3>4 DEF Earned, Standing, Fresh
  <2>2. CASE ~Stands
    BY <1>1, <1>3, <2>2 DEF revoke, Stands, store, Same
  <2>3. QED
    BY <2>1, <2>2
<1>4. ASSUME NEW c \in Cards, try_silence(c) PROVE Earned'
  <2>1. Same
    BY <1>0, <1>4, RenewalSame DEF try_silence
  <2>2. QED
    BY <1>1, <1>4, <2>1 DEF try_silence, history
<1>5. ASSUME NEW c \in Cards, Engine(c) \/ OverturnRead(c) PROVE Earned'
  BY <1>1, <1>5 DEF Engine, Predict, Check, Run, RecordRead, OverturnRead, store, history, Same
<1>6. CASE RecordWrite \/ OverturnWrite \/ DayPasses
  BY <1>1, <1>6 DEF RecordWrite, OverturnWrite, DayPasses, store, history, Same
<1>7. ASSUME NEW c \in Cards, Decide(c) PROVE Earned'
  <2>1. CASE UNCHANGED <<store, faults, offer, since, consent, unsaved, outcomes>>
    BY <1>1, <2>1 DEF store, Same
  <2>2. CASE outcomes' = outcomes + 1 /\ (is_granted \/ expired_unrevoked) /\ revoke
    BY <1>0, <1>3, <2>2 DEF is_granted, expired_unrevoked, Stands
  <2>3. CASE outcomes' = outcomes + 1 /\ since' = since + 1
             /\ UNCHANGED <<store, faults, consent, unsaved>>
    BY <1>2, <2>3 DEF store, Same
  <2>4. CASE outcomes' = outcomes + 1 /\ since' = since + 1
             /\ maybe_offer_grant(outcomes + 1) /\ UNCHANGED <<consent, unsaved>>
    <3>1. PICK total \in Nat : total = outcomes + 1
      BY <1>0
    <3>2. Same
      BY <1>0, <2>4, <3>1, OfferSame
    <3>3. QED
      BY <1>2, <2>4, <3>2
  <2>5. QED
    BY <1>7, <2>1, <2>2, <2>3, <2>4 DEF Decide
<1>8. ASSUME AnswerOffer PROVE Earned'
  <2>1. CASE grant
    <3>1. PICK x : x = now + TTL
      OBVIOUS
    <3>2. grants' = [grants EXCEPT !.given = TRUE, !.revoked = FALSE, !.base = 0, !.expires = x]
      BY <2>1, <3>1 DEF grant, Saved
    <3>3. grants'.given = TRUE /\ grants'.revoked = FALSE
      BY <1>0, <3>2 DEF Grants
    <3>4. consent' = TRUE
      BY <2>1 DEF grant
    <3>5. QED
      BY <3>3, <3>4 DEF Earned, Standing, Fresh, Stands
  <2>2. CASE UNCHANGED <<store, faults, since, consent, unsaved>>
    BY <1>1, <1>8, <2>2 DEF AnswerOffer, store, Same
  <2>3. QED
    BY <1>8, <2>1, <2>2 DEF AnswerOffer
<1>9. CASE Revoke
  BY <1>0, <1>3, <1>9 DEF Revoke
<1>10. CASE OverturnRevokes
  BY <1>0, <1>3, <1>10 DEF OverturnRevokes
<1>11. ASSUME Crash PROVE Earned'
  <2>1. CASE gfile = grants
    BY <1>0, <1>1, <1>11, <2>1 DEF Crash, Same
  <2>2. CASE gfile # grants
    BY <1>11, <2>2 DEF Crash, Earned, Standing, Fresh
  <2>3. QED
    BY <2>1, <2>2
<1>12. CASE UNCHANGED vars
  BY <1>1, <1>12 DEF vars, store, history, Same
<1>13. QED
  BY <1>4, <1>5, <1>6, <1>7, <1>8, <1>9, <1>10, <1>11, <1>12 DEF Next

LEMMA EarnedInit == ASSUME Init PROVE Earned
<1>1. CASE grants = NoGrant
  <2>1. grants.base = 0 /\ grants.given = FALSE
    BY <1>1 DEF NoGrant
  <2>2. outcomes \in Nat
    BY ShapeInit DEF Shape, TypeOK
  <2>3. QED
    BY <2>1, <2>2 DEF Init, Earned, Standing, Fresh, Stands
<1>2. CASE grants = [NoGrant EXCEPT !.given = TRUE, !.expires = TTL, !.mark = MinN]
  <2>1. grants.given = TRUE /\ grants.revoked = FALSE
    BY <1>2 DEF NoGrant
  <2>2. consent
    BY <2>1 DEF Init, NoGrant
  <2>3. QED
    BY <2>1, <2>2 DEF Earned, Standing, Fresh, Stands
<1>3. QED
  BY <1>1, <1>2 DEF Init

LEMMA TakenStep ==
  ASSUME Shape, Earned, [Next]_vars, NEW c \in Cards, place[c] = "unmade",
         place'[c] = "predicting"
  PROVE  consent \/ unsaved
<1>1. PICK k \in Cards : try_silence(k) \/ Engine(k) \/ Decide(k)
  <2>1. place' # place
    OBVIOUS
  <2>2. ~Crash
    BY DEF Crash
  <2>3. QED
    BY <2>1, <2>2 DEF Next, vars, RecordWrite, AnswerOffer, Revoke, OverturnRead,
                      OverturnWrite, OverturnRevokes, DayPasses
<1>2. try_silence(k) /\ Moved(k, "predicting")
  BY <1>1 DEF try_silence, Engine, Predict, Check, Run, RecordRead, Decide, Moved, _fallback,
              Shape, TypeOK
<1>3. is_granted
  <2>1. ~Moved(k, "board")
    BY <1>2 DEF Moved, Shape, TypeOK
  <2>2. QED
    BY <1>2, <2>1 DEF try_silence, MaySilence
<1>4. QED
  BY <1>3 DEF Earned, Standing, Stands, is_granted

\* No card is taken from the user after a revocation until an offer is
\* accepted (TakenWithConsent): revoke_grant, on_outcome, overturn_silenced
\* and try_silence, in any order and with crashes and failed saves.
THEOREM TakenByConsent == Spec => TakenWithConsent
<1>1. Init => Shape /\ Earned
  BY ShapeInit, EarnedInit
<1>2. Shape /\ Earned /\ [Next]_vars => (Shape /\ Earned)'
  BY ShapeStep, EarnedStep
<1>3. Shape /\ Earned /\ [Next]_vars
        => [\A c \in Cards : (place[c] = "unmade" /\ place'[c] = "predicting")
                                => consent \/ unsaved]_vars
  BY TakenStep
<1>4. QED
  BY <1>1, <1>2, <1>3, PTL DEF Spec, TakenWithConsent

LEMMA OfferStep ==
  ASSUME Shape, Earned, [Next]_vars, offer' = "grant", offer # "grant"
  PROVE  since' >= MinN \/ unsaved
<1>0. grants \in Grants /\ outcomes \in Nat /\ since \in Nat /\ now \in Nat
  BY DEF Shape, TypeOK
<1>1. PICK c \in Cards : Decide(c)
  <2>1. \A c \in Cards : ~try_silence(c)
    BY <1>0, RenewalSame DEF try_silence
  <2>2. QED
    BY <2>1 DEF Next, vars, Engine, Predict, Check, Run, RecordRead, RecordWrite, AnswerOffer,
                Revoke, OverturnRead, OverturnWrite, OverturnRevokes, DayPasses, Crash
<1>2. maybe_offer_grant(outcomes + 1) /\ since' = since + 1
  BY <1>1 DEF Decide
<1>3. PICK total \in Nat : total = outcomes + 1
  BY <1>0
<1>4. ~Stands /\ total - grants.base >= MinN
  BY <1>0, <1>2, <1>3, OfferSame
<1>5. QED
  BY <1>0, <1>2, <1>3, <1>4, Sizes DEF Earned, Fresh, Grants

\* After a revocation a grant is offered again only on MinN outcomes that
\* came after it (EarnedOffers): bucket_stats counts from last_revoked_at.
THEOREM OffersEarned == Spec => EarnedOffers
<1>1. Init => Shape /\ Earned
  BY ShapeInit, EarnedInit
<1>2. Shape /\ Earned /\ [Next]_vars => (Shape /\ Earned)'
  BY ShapeStep, EarnedStep
<1>3. Shape /\ Earned /\ [Next]_vars
        => [(offer' = "grant" /\ offer # "grant") => since' >= MinN \/ unsaved]_vars
  BY OfferStep
<1>4. QED
  BY <1>1, <1>2, <1>3, PTL DEF Spec, EarnedOffers
=============================================================================
