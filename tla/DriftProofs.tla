----------------------------- MODULE DriftProofs -----------------------------
(***************************************************************************)
(* What the escrow keeps on a clock that may step back: proofs of the      *)
(* properties of EscrowDrift, for every value of the constants, on top of  *)
(* AnyClockInv.                                                            *)
(***************************************************************************)
EXTENDS EscrowDrift, EscrowProofs

-----------------------------------------------------------------------------
(***************************************************************************)
(* What one step may do to a stream that stays live.                       *)
(***************************************************************************)
\* A step at a standing clock: nothing is metered, and what is drawn was
\* entitled to by the meter.
StandingStep ==
  /\ now' = now
  /\ Metered' = Metered
  /\ withdrawn' # withdrawn =>
       Metered \in Nat /\ withdrawn' <= Unlocked(Metered, price, period, deposited)

\* A step of the clock: an Active stream meters one second more, or fewer.
ClockStep ==
  /\ withdrawn' = withdrawn
  /\ \/ /\ now' > now
        /\ Metered' = IF state = "Active" THEN Metered + 1 ELSE Metered
     \/ now' < now /\ Metered' <= Metered

StreamStep ==
  /\ UNCHANGED <<price, period>>
  /\ deposited <= deposited'
  /\ StandingStep \/ ClockStep

\* Steps that leave the stream alone.
LEMMA StreamSame ==
  ASSUME AnyClockInv, state \in Live,
         UNCHANGED <<now, state, price, period, deposited, withdrawn,
                     streamStart, enteredGraceAt, pausedAt>>
  PROVE  StreamStep
BY LiveNumbers
DEF AnyClockInv, StreamStep, StandingStep, Metered, ServiceEnd

\* charge and settle_usage draw at most what is claimable at the time; the
\* charge that uses up the deposit freezes the stream at this instant.
LEMMA StreamDraw ==
  ASSUME AnyClockInv, state = "Active", now >= streamStart,
         NEW amount \in Nat, amount <= ClaimableAt(now),
         withdrawn' = withdrawn + amount,
         \/ state' = "Active"
         \/ state' = "GracePeriod" /\ enteredGraceAt' = now,
         UNCHANGED <<now, price, period, deposited, streamStart>>
  PROVE  StreamStep
<1>1. /\ state \in Live /\ MoneyInv
      /\ price \in Nat /\ period \in Nat \ {0} /\ deposited \in Nat
      /\ withdrawn \in Nat /\ now \in Nat /\ streamStart \in Nat
      /\ Metered = now - streamStart /\ Metered \in Nat
  BY LiveNumbers DEF AnyClockInv, Live, Metered
<1>2. UnlockedAt(now) \in Nat /\ ClaimableAt(now) = UnlockedAt(now) - withdrawn
  BY <1>1, ClaimBounds
<1>3. withdrawn' <= Unlocked(Metered, price, period, deposited)
  BY <1>1, <1>2 DEF UnlockedAt
<1>4. Metered' = Metered
  BY <1>1 DEF Metered, ServiceEnd
<1>5. QED
  BY <1>1, <1>3, <1>4 DEF StreamStep, StandingStep

LEMMA StreamCharge ==
  ASSUME AnyClockInv, NEW attach \in BOOLEAN, Charge(attach)
  PROVE  StreamStep
<1>1. /\ state = "Active" /\ now >= streamStart /\ ClaimableAt(now) > 0
      /\ withdrawn' = withdrawn + ClaimableAt(now)
      /\ \/ state' = "Active"
         \/ state' = "GracePeriod" /\ enteredGraceAt' = now
      /\ UNCHANGED <<now, price, period, deposited, streamStart>>
  BY DEF Charge, PayMerchant, ChargeTail, terms
<1>2. /\ MoneyInv /\ state \in Live /\ now \in Int /\ streamStart \in Nat
      /\ withdrawn \in Nat
  BY <1>1, LiveNumbers DEF AnyClockInv, Live
<1>3. ClaimableAt(now) \in Nat
  BY <1>1, <1>2, ClaimBounds
<1>4. QED
  BY <1>1, <1>3, StreamDraw

LEMMA StreamSettleUsage ==
  ASSUME AnyClockInv, NEW s \in SessionIds, NEW f, NEW a \in Amounts,
         SettleUsage(s, f, a)
  PROVE  StreamStep
BY StreamDraw, EscrowAssumption DEF SettleUsage, PayMerchant, terms

\* A freeze that ends shifts the anchor by its length.
LEMMA StreamThaw ==
  ASSUME AnyClockInv, state \in {"Paused", "GracePeriod"}, state' = "Active",
         now >= ServiceEnd, streamStart' = streamStart + (now - ServiceEnd),
         deposited <= deposited',
         UNCHANGED <<now, price, period, withdrawn>>
  PROVE  StreamStep
<1>1. now \in Nat /\ streamStart \in Nat /\ ServiceEnd \in Nat
  BY LiveNumbers DEF AnyClockInv, Live
<1>2. Metered' = now - streamStart'
  BY DEF Metered, ServiceEnd
<1>3. Metered' = Metered
  BY <1>1, <1>2 DEF Metered
<1>4. QED
  BY <1>3 DEF StreamStep, StandingStep

LEMMA StreamTopUp ==
  ASSUME AnyClockInv, NEW a \in Amounts, NEW attach \in BOOLEAN,
         TopUp(a, attach)
  PROVE  StreamStep
<1>1. /\ state \in Live /\ a \in Nat /\ deposited \in Nat
      /\ deposited' = deposited + a
      /\ UNCHANGED <<now, price, period, withdrawn, pausedAt>>
  BY LiveNumbers, EscrowAssumption
  DEF TopUp, TopUpStates, AnyClockInv, terms
<1>2. deposited <= deposited'
  BY <1>1
<1>3. CASE state = "GracePeriod"
  <2>1. /\ state' = "Active" /\ now >= ServiceEnd
        /\ streamStart' = streamStart + (now - ServiceEnd)
    BY <1>3 DEF TopUp, TopUpTail, RecoveredStart, ServiceEnd
  <2>2. QED
    BY <1>1, <1>2, <1>3, <2>1, StreamThaw
<1>4. CASE state # "GracePeriod"
  <2>1. UNCHANGED <<state, streamStart>>
    BY <1>4 DEF TopUp, TopUpTail
  <2>2. Metered' = Metered
    BY <1>1, <1>4, <2>1 DEF Metered, ServiceEnd, Live
  <2>3. QED
    BY <1>1, <1>2, <2>2 DEF StreamStep, StandingStep
<1>5. QED
  BY <1>3, <1>4

LEMMA StreamPause ==
  ASSUME AnyClockInv, Pause
  PROVE  StreamStep
<1>1. /\ state = "Active" /\ state' = "Paused" /\ pausedAt' = now
      /\ UNCHANGED <<now, price, period, deposited, withdrawn, streamStart>>
  BY DEF Pause, terms
<1>2. deposited \in Nat
  BY <1>1, LiveNumbers DEF AnyClockInv, Live
<1>3. Metered' = Metered
  BY <1>1 DEF Metered, ServiceEnd
<1>4. QED
  BY <1>1, <1>2, <1>3 DEF StreamStep, StandingStep

LEMMA StreamResume ==
  ASSUME AnyClockInv, Resume
  PROVE  StreamStep
<1>1. /\ state = "Paused" /\ state' = "Active" /\ now >= ServiceEnd
      /\ streamStart' = streamStart + (now - ServiceEnd)
      /\ UNCHANGED <<now, price, period, deposited, withdrawn>>
  BY DEF Resume, ResumedStart, ServiceEnd, terms
<1>2. deposited \in Nat
  BY <1>1, LiveNumbers DEF AnyClockInv, Live
<1>3. QED
  BY <1>1, <1>2, StreamThaw

LEMMA StreamClock ==
  ASSUME AnyClockInv, state \in Live, Tick \/ ClockBack
  PROVE  StreamStep
<1>1. /\ now \in Nat /\ streamStart \in Nat /\ ServiceEnd \in Nat
      /\ deposited \in Nat
  BY LiveNumbers DEF AnyClockInv
<1>2. UNCHANGED <<state, price, period, deposited, withdrawn, streamStart,
                  enteredGraceAt, pausedAt>>
  BY DEF Tick, ClockBack, terms, satellites
<1>3. \/ now' = now + 1
      \/ now' \in Nat /\ now' < now
  BY EscrowAssumption DEF Tick, ClockBack
<1>4. CASE state = "Active"
  <2>1. Metered = now - streamStart /\ Metered' = now' - streamStart
    BY <1>2, <1>4 DEF Metered, ServiceEnd
  <2>2. QED
    BY <1>1, <1>2, <1>3, <1>4, <2>1 DEF StreamStep, ClockStep
<1>5. CASE state # "Active"
  <2>1. Metered' = Metered /\ Metered \in Int
    BY <1>1, <1>2, <1>5 DEF Metered, ServiceEnd, Live
  <2>2. QED
    BY <1>1, <1>2, <1>3, <1>5, <2>1 DEF StreamStep, ClockStep
<1>6. QED
  BY <1>4, <1>5

\* Every step of the program and of the clock, as far as a stream that is live
\* before and after it can tell.
LEMMA LiveStep ==
  ASSUME AnyClockInv, [DriftNext]_vars, state \in Live, state' \in Live
  PROVE  StreamStep
<1>1. ~AccountStep /\ ~PartyCancel
  BY DEF AccountStep, Subscribe, SubscribeAccounts, Cleanup, PartyCancel,
         Cancel, Live
<1>2. CASE SubscriberStep
  <2>1. CASE \E a \in Amounts, attach \in BOOLEAN : TopUp(a, attach)
    BY <2>1, StreamTopUp
  <2>2. CASE ~ \E a \in Amounts, attach \in BOOLEAN : TopUp(a, attach)
    BY <1>2, <2>2, StreamSame
    DEF SubscriberStep, OpenSession, CloseSession, terms, satellites
  <2>3. QED
    BY <2>1, <2>2
<1>3. CASE MerchantStep
  <2>1. CASE Pause \/ Resume
    BY <2>1, StreamPause, StreamResume
  <2>2. CASE ~(Pause \/ Resume)
    BY <1>3, <2>2, StreamSame DEF MerchantStep, CreatePlan, terms, satellites
  <2>3. QED
    BY <2>1, <2>2
<1>4. CASE KeeperStep
  BY <1>4, StreamCharge DEF KeeperStep
<1>5. CASE FacilitatorStep
  BY <1>5, StreamSettleUsage DEF FacilitatorStep
<1>6. CASE Tick \/ ClockBack
  BY <1>6, StreamClock
<1>7. CASE \E a \in Recirculated : HandBack(a)
  BY <1>7, StreamSame DEF HandBack, terms, satellites
<1>8. CASE UNCHANGED vars
  BY <1>8, StreamSame DEF vars
<1>9. CASE TokenStep
  BY <1>9, StreamSame
  DEF TokenStep, Gift, CloseMerchantAta, ReopenMerchantAta, terms, satellites
<1>10. QED
  BY <1>1, <1>2, <1>3, <1>4, <1>5, <1>6, <1>7, <1>8, <1>9
  DEF DriftNext, Next, UseNext

\* A stream that becomes live is a new one.
LEMMA NewStream ==
  ASSUME [DriftNext]_vars, state \notin Live, state' \in Live
  PROVE  Metered' = now' - now' /\ withdrawn' = 0 /\ UNCHANGED now
<1>1. PICK n \in Periods : Subscribe(n)
  BY DEF DriftNext, ClockBack, Next, AccountStep, UseNext, SubscriberStep,
         MerchantStep, PartyCancel, KeeperStep, FacilitatorStep, CreatePlan,
         Cleanup, Charge, TopUp, TopUpStates, Pause, Resume, Cancel,
         CancelGuards, OpenSession, SettleUsage, CloseSession, Tick, HandBack,
         TokenStep, Gift, CloseMerchantAta, ReopenMerchantAta, Live, vars
<1>2. QED
  BY <1>1 DEF Subscribe, NewSubscription, Metered, ServiceEnd

-----------------------------------------------------------------------------
(***************************************************************************)
(* The record: a stream stands for at most the most it ever stood for, and *)
(* that is at most the service there was.  EarnedByService alone is not    *)
(* inductive: a draw is bounded by the meter of its own time, which a step *)
(* back takes away again.                                                  *)
(***************************************************************************)
RecordInv ==
  /\ AnyClockInv
  /\ ran \in Nat /\ furthest \in Nat
  /\ state \in Live =>
       /\ Metered <= furthest /\ furthest <= ran
       /\ withdrawn <= Unlocked(furthest, price, period, deposited)

LEMMA RecordInit == Init /\ ran = 0 /\ furthest = 0 => RecordInv
BY MoneyInit, FreezeInit DEF Init, RecordInv, AnyClockInv, Live

\* The terms of a stream that stays live, before and after a step.
LEMMA StreamNumbers ==
  ASSUME AnyClockInv, AnyClockInv', state \in Live, state' \in Live
  PROVE  /\ price \in Nat /\ period \in Nat \ {0}
         /\ deposited \in Nat /\ deposited' \in Nat
         /\ withdrawn \in Nat /\ withdrawn' \in Nat
         /\ now \in Nat /\ now' \in Nat /\ Metered \in Int /\ Metered' \in Int
<1>1. /\ price \in Nat /\ period \in Nat \ {0} /\ deposited \in Nat
      /\ withdrawn \in Nat /\ now \in Nat /\ streamStart \in Nat
      /\ ServiceEnd \in Nat
  BY LiveNumbers DEF AnyClockInv
<1>2. /\ deposited' \in Nat /\ withdrawn' \in Nat /\ now' \in Nat
      /\ streamStart' \in Nat
      /\ enteredGraceAt' \in Int /\ pausedAt' \in Int
  BY EscrowAssumption
  DEF AnyClockInv, MoneyInv, TypeOK, Amount, Timestamp, Absent
<1>3. ServiceEnd' \in Int
  BY <1>2 DEF ServiceEnd, Live
<1>4. QED
  BY <1>1, <1>2, <1>3 DEF Metered

\* The record of a stream that stays live.
LEMMA RecordLive ==
  ASSUME RecordInv, AnyClockInv', StreamStep, Record,
         state \in Live, state' \in Live
  PROVE  RecordInv'
<1>1. /\ price \in Nat /\ period \in Nat \ {0}
      /\ deposited \in Nat /\ deposited' \in Nat
      /\ withdrawn \in Nat /\ withdrawn' \in Nat
      /\ now \in Nat /\ now' \in Nat /\ Metered \in Int /\ Metered' \in Int
      /\ ran \in Nat /\ furthest \in Nat
      /\ Metered <= furthest /\ furthest <= ran
      /\ withdrawn <= Unlocked(furthest, price, period, deposited)
  BY StreamNumbers DEF RecordInv
<1>2. /\ ran' = IF state = "Active" /\ now' > now THEN ran + 1 ELSE ran
      /\ furthest' = IF Metered' > furthest THEN Metered' ELSE furthest
  BY DEF Record, Further
<1>3. /\ ran' \in Nat /\ furthest' \in Nat
      /\ furthest <= furthest' /\ Metered' <= furthest'
  BY <1>1, <1>2
<1>4. furthest' <= ran'
  BY <1>1, <1>2 DEF StreamStep, StandingStep, ClockStep
<1>5. price' = price /\ period' = period /\ deposited <= deposited'
  BY DEF StreamStep
<1>6. withdrawn' <= Unlocked(furthest', price, period, deposited')
  <2>1. CASE withdrawn' = withdrawn
    <3>1. Unlocked(furthest, price, period, deposited)
            <= Unlocked(furthest', price, period, deposited')
      BY <1>1, <1>3, <1>5, UnlockedMonotone
    <3>2. /\ Unlocked(furthest, price, period, deposited) \in Nat
          /\ Unlocked(furthest', price, period, deposited') \in Nat
      BY <1>1, <1>3, UnlockedBounds
    <3>3. QED
      BY <1>1, <2>1, <3>1, <3>2
  <2>2. CASE withdrawn' # withdrawn
    <3>1. /\ Metered \in Nat
          /\ withdrawn' <= Unlocked(Metered, price, period, deposited)
      BY <2>2 DEF StreamStep, StandingStep, ClockStep
    <3>2. Metered <= furthest'
      BY <1>1, <1>3
    <3>3. Unlocked(Metered, price, period, deposited)
            <= Unlocked(furthest', price, period, deposited')
      BY <1>1, <1>3, <1>5, <3>1, <3>2, UnlockedMonotone
    <3>4. /\ Unlocked(Metered, price, period, deposited) \in Nat
          /\ Unlocked(furthest', price, period, deposited') \in Nat
      BY <1>1, <1>3, <3>1, UnlockedBounds
    <3>5. QED
      BY <1>1, <3>1, <3>3, <3>4
  <2>3. QED
    BY <2>1, <2>2
<1>7. QED
  BY <1>3, <1>4, <1>5, <1>6 DEF RecordInv

\* The record of a new stream.
LEMMA RecordNew ==
  ASSUME RecordInv, AnyClockInv', [DriftNext]_vars, Record,
         state \notin Live, state' \in Live
  PROVE  RecordInv'
<1>1. ran' = 0 /\ furthest' = 0
  BY DEF Record
<1>2. Metered' = 0 /\ withdrawn' = 0
  BY NewStream, EscrowAssumption DEF AnyClockInv, MoneyInv, TypeOK
<1>3. price' \in Nat /\ period' \in Nat \ {0} /\ deposited' \in Nat
  BY EscrowAssumption
  DEF AnyClockInv, MoneyInv, TypeOK, PositiveTerms, Live, Amount, Timestamp
<1>4. 0 <= Unlocked(0, price', period', deposited')
  BY <1>3, UnlockedBounds
<1>5. QED
  BY <1>1, <1>2, <1>4 DEF RecordInv

LEMMA RecordStep == RecordInv /\ [RecordedNext]_driftVars => RecordInv'
<1> SUFFICES ASSUME RecordInv, [RecordedNext]_driftVars
             PROVE  RecordInv'
  OBVIOUS
<1>1. [DriftNext]_vars
  BY DEF RecordedNext, driftVars
<1>2. AnyClockInv'
  BY <1>1, AnyClockStep DEF RecordInv
<1>3. CASE UNCHANGED driftVars
  BY <1>2, <1>3
  DEF driftVars, vars, RecordInv, Metered, ServiceEnd
<1>4. CASE RecordedNext
  <2>1. Record
    BY <1>4 DEF RecordedNext
  <2>2. CASE state \in Live /\ state' \in Live
    BY <1>1, <1>2, <2>1, <2>2, LiveStep, RecordLive DEF RecordInv
  <2>3. CASE state \notin Live /\ state' \in Live
    BY <1>1, <1>2, <2>1, <2>3, RecordNew
  <2>4. CASE state' \notin Live
    BY <1>2, <2>1, <2>4 DEF Record, RecordInv
  <2>5. QED
    BY <2>2, <2>3, <2>4
<1>5. QED
  BY <1>3, <1>4

LEMMA RecordHolds == RecordedSpec => []RecordInv
BY RecordInit, RecordStep, PTL DEF RecordedSpec

-----------------------------------------------------------------------------
(***************************************************************************)
(* What the record gives.                                                  *)
(***************************************************************************)
\* On any clock the anchor stands for no more service than there was, and the
\* merchant has drawn at most what that service costs: EarnedOnly without the
\* assumption that the clock never steps back.
THEOREM EarnedOnAnyClock == RecordedSpec => []EarnedByService
<1>1. RecordInv => EarnedByService
  <2> SUFFICES ASSUME RecordInv, state \in Live
               PROVE  /\ Metered <= ran
                      /\ withdrawn <= Unlocked(ran, price, period, deposited)
    BY DEF EarnedByService
  <2>1. /\ price \in Nat /\ period \in Nat \ {0} /\ deposited \in Nat
        /\ withdrawn \in Nat /\ ServiceEnd \in Nat /\ streamStart \in Nat
    BY LiveNumbers DEF RecordInv, AnyClockInv
  <2>2. /\ ran \in Nat /\ furthest \in Nat /\ Metered \in Int
        /\ Metered <= furthest /\ furthest <= ran
        /\ withdrawn <= Unlocked(furthest, price, period, deposited)
    BY <2>1 DEF RecordInv, Metered
  <2>3. Unlocked(furthest, price, period, deposited)
          <= Unlocked(ran, price, period, deposited)
    BY <2>1, <2>2, UnlockedMonotone
  <2>4. /\ Unlocked(furthest, price, period, deposited) \in Nat
        /\ Unlocked(ran, price, period, deposited) \in Nat
    BY <2>1, <2>2, UnlockedBounds
  <2>5. QED
    BY <2>1, <2>2, <2>3, <2>4
<1>2. QED
  BY <1>1, RecordHolds, PTL

\* Once the clock has caught up, cancel is open to either party who brings the
\* satellites of the present state, unless it is shut from outside.
LEMMA ReopenedCancel ==
  ASSUME RecordInv, state \in Live, CaughtUp, ~Shut, NEW signer \in CancelAuthority
  PROVE  CancelGuards(signer, NeedsGraced, NeedsPaused)
<1>1. /\ price \in Nat /\ period \in Nat \ {0} /\ deposited \in Nat
      /\ withdrawn \in Nat /\ now \in Nat /\ streamStart \in Nat
      /\ ServiceEnd \in Nat /\ ServiceEnd <= now
      /\ Metered = furthest /\ furthest \in Nat
      /\ withdrawn <= Unlocked(Metered, price, period, deposited)
  BY LiveNumbers DEF RecordInv, AnyClockInv, CaughtUp
<1>2. streamStart <= ServiceEnd
  BY <1>1 DEF Metered
<1>3. EarnedOnly
  BY <1>1, <1>2 DEF EarnedOnly
<1>4. QED
  BY <1>3, SettledCancel DEF RecordInv, AnyClockInv, FreezeInv

\* A step back closes cancel for as long as the clock is behind and no longer:
\* of a clock that has caught up nothing is left that could refuse it.  What
\* shuts it from outside is another matter.
THEOREM CancelReopensOnCatchUp == RecordedSpec => []CancelReopens
<1>1. RecordInv => CancelReopens
  BY ReopenedCancel DEF CancelReopens, NeedsGraced, NeedsPaused
<1>2. QED
  BY <1>1, RecordHolds, PTL

=============================================================================
