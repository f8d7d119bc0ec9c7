----------------------------- MODULE EscrowProofs -----------------------------
(***************************************************************************)
(* Proofs about Escrow, for every choice of its constants.                 *)
(*                                                                         *)
(* The argument has three layers.  MoneyInv needs no assumption on the     *)
(* clock: it is preserved by every instruction and by a clock that steps   *)
(* back.  So is FreezeInv, about the instant at which a frozen stream      *)
(* stopped, given MoneyInv.  TimeInv, about the anchor and the service     *)
(* seconds behind it, is preserved on a clock that does not step back.     *)
(***************************************************************************)
EXTENDS Escrow, TLAPS

\* An existing subscription has the positive terms subscribe insists on.
PositiveTerms == state # "None" => price > 0 /\ period > 0

MoneyInv ==
  /\ TypeOK
  /\ EscrowExact
  /\ SatelliteIff
  /\ PositiveTerms

TimeInv ==
  /\ EarnedOnly
  /\ GraceIsExhausted
  /\ HintNeverLate

-----------------------------------------------------------------------------
(***************************************************************************)
(* The streaming arithmetic.                                               *)
(***************************************************************************)
\* Entitlement is a natural number, at most the deposit and at most what has
\* accrued.
LEMMA UnlockedBounds ==
  ASSUME NEW e \in Nat, NEW p \in Nat, NEW q \in Nat \ {0}, NEW d \in Nat
  PROVE  /\ Accrued(e, p, q) \in Nat
         /\ Unlocked(e, p, q, d) \in Nat
         /\ Unlocked(e, p, q, d) <= d
         /\ Unlocked(e, p, q, d) <= Accrued(e, p, q)
         /\ Unlocked(e, p, q, d) = d => Accrued(e, p, q) >= d
         /\ Accrued(e, p, q) >= d => Unlocked(e, p, q, d) = d
<1>1. Accrued(e, p, q) \in Nat
  BY DEF Accrued
<1>2. QED
  BY <1>1 DEF Unlocked, Lesser

\* Entitlement never falls when time passes or the deposit grows.
LEMMA UnlockedMonotone ==
  ASSUME NEW e \in Nat, NEW f \in Nat, e <= f,
         NEW p \in Nat, NEW q \in Nat \ {0},
         NEW d \in Nat, NEW c \in Nat, d <= c
  PROVE  /\ Accrued(e, p, q) <= Accrued(f, p, q)
         /\ Unlocked(e, p, q, d) <= Unlocked(f, p, q, c)
<1>1. e * p \in Nat /\ f * p \in Nat /\ e * p <= f * p
  OBVIOUS
<1>2. (e * p) \div q <= (f * p) \div q
  BY <1>1
<1>3. Accrued(e, p, q) <= Accrued(f, p, q)
  BY <1>2 DEF Accrued
<1>4. Accrued(e, p, q) \in Nat /\ Accrued(f, p, q) \in Nat
  BY UnlockedBounds
<1>5. QED
  BY <1>3, <1>4 DEF Unlocked, Lesser

LEMMA CoveredType ==
  ASSUME NEW w \in Nat, NEW p \in Nat \ {0}, NEW q \in Nat
  PROVE  CoveredSeconds(w, p, q) \in Nat
BY DEF CoveredSeconds

\* The seconds a payment covers are at most the seconds that earned it.
LEMMA CoveredBound ==
  ASSUME NEW e \in Nat, NEW p \in Nat \ {0}, NEW q \in Nat \ {0},
         NEW w \in Nat, w <= Accrued(e, p, q)
  PROVE  CoveredSeconds(w, p, q) \in 0 .. e
<1>1. Accrued(e, p, q) \in Nat /\ Accrued(e, p, q) * q <= e * p
  BY DEF Accrued
<1>2. w * q <= e * p
  BY <1>1
<1>3. (w * q) \div p \in Nat /\ ((w * q) \div p) * p <= w * q
  OBVIOUS
<1>4. ((w * q) \div p) * p <= e * p
  BY <1>2, <1>3
<1>5. (w * q) \div p <= e
  BY <1>3, <1>4
<1>6. QED
  BY <1>3, <1>5 DEF CoveredSeconds

-----------------------------------------------------------------------------
(***************************************************************************)
(* The first layer: money and accounts.                                    *)
(***************************************************************************)
LEMMA MoneyInit == Init => MoneyInv
BY EscrowAssumption
DEF Init, MoneyInv, TypeOK, EscrowExact, SatelliteIff, PositiveTerms, Absent,
    Live, SubscriptionState, Amount, Timestamp

\* What a draw on the vault at the present time may take.
LEMMA ClaimBounds ==
  ASSUME MoneyInv, state \in Live, NEW t \in Int, t >= streamStart
  PROVE  /\ UnlockedAt(t) \in Nat
         /\ UnlockedAt(t) <= deposited
         /\ ClaimableAt(t) = UnlockedAt(t) - withdrawn
         /\ ClaimableAt(t) <= vault
         /\ vault \in Amount
<1>1. /\ t - streamStart \in Nat
      /\ price \in Nat /\ period \in Nat \ {0} /\ deposited \in Nat
      /\ withdrawn \in Nat
  BY EscrowAssumption
  DEF MoneyInv, TypeOK, PositiveTerms, Live, Amount, Timestamp
<1>2. /\ UnlockedAt(t) \in Nat
      /\ UnlockedAt(t) <= deposited
  BY <1>1, UnlockedBounds DEF UnlockedAt
<1>3. /\ vault = deposited - withdrawn + gifts /\ withdrawn <= deposited
      /\ gifts \in Nat
  BY EscrowAssumption DEF MoneyInv, TypeOK, EscrowExact
<1>4. QED
  BY <1>1, <1>2, <1>3, EscrowAssumption DEF ClaimableAt, MoneyInv, TypeOK,
      Amount, Absent

LEMMA MoneyCreatePlan ==
  ASSUME MoneyInv, NEW t \in Terms, CreatePlan(t)
  PROVE  MoneyInv'
BY DEF MoneyInv, TypeOK, EscrowExact, SatelliteIff, PositiveTerms, CreatePlan,
       terms, hint, tokens, satellites, sessions, Absent, Amount, Timestamp,
       outside

\* The deposit of a new subscription to an existing plan.
LEMMA NewDeposit ==
  ASSUME NEW n \in Periods, NEW wallet, plan \in Terms, NewSubscription(n, wallet)
  PROVE  /\ plan.price \in Amount /\ plan.price > 0
         /\ plan.period \in Nat \ {0}
         /\ plan.price * n \in Amount
<1>1. /\ plan.price \in Amount /\ plan.period \in Nat \ {0} /\ n \in Nat
      /\ plan.price \div plan.period >= 1 /\ plan.price * n <= U64Max
  BY EscrowAssumption DEF NewSubscription, FitsU64, Amount
<1>2. QED
  BY <1>1, EscrowAssumption DEF Amount

\* A subscription made where none holds escrow, whatever instructions came
\* before it in the transaction.
LEMMA MoneyNewSubscription ==
  ASSUME MoneyInv, plan \in Terms, state \notin Live,
         NEW n \in Periods, NEW wallet \in Nat, NewSubscription(n, wallet),
         UNCHANGED satellites, merchantAta' \in Nat,
         facilitator' \in [SessionIds -> Facilitators \cup {NoFacilitator}],
         usage' \in [SessionIds -> Amount],
         reservation' \in [SessionIds -> Nat]
  PROVE  MoneyInv'
<1>1. /\ plan.price \in Amount /\ plan.price > 0
      /\ plan.period \in Nat \ {0} /\ plan.price * n \in Amount
  BY NewDeposit
<1>2. now + plan.period \in Timestamp /\ plan.period \in Timestamp
  BY <1>1, EscrowAssumption
  DEF NewSubscription, MoneyInv, TypeOK, Timestamp, FitsI64
<1>3. subscriberAta' \in Nat
  BY <1>1, EscrowAssumption DEF NewSubscription, Amount
<1>4. SatelliteIff'
  BY DEF MoneyInv, SatelliteIff, NewSubscription, satellites, Live
<1>5. EscrowExact' /\ PositiveTerms'
  BY <1>1, EscrowAssumption
  DEF NewSubscription, MoneyInv, EscrowExact, PositiveTerms, outside, Amount,
      Live
<1>6. TypeOK'
  BY <1>1, <1>2, <1>3, EscrowAssumption
  DEF MoneyInv, TypeOK, NewSubscription, satellites, Absent, Amount, Timestamp,
      SubscriptionState, outside
<1>7. QED
  BY <1>4, <1>5, <1>6 DEF MoneyInv

LEMMA MoneySubscribe ==
  ASSUME MoneyInv, NEW n \in Periods, Subscribe(n)
  PROVE  MoneyInv'
<1>1. /\ plan \in Terms /\ state \notin Live /\ subscriberAta \in Nat
      /\ NewSubscription(n, subscriberAta) /\ UNCHANGED satellites
  BY DEF MoneyInv, TypeOK, Subscribe, SubscribeAccounts, Live
<1>2. /\ merchantAta' \in Nat
      /\ facilitator' \in [SessionIds -> Facilitators \cup {NoFacilitator}]
      /\ usage' \in [SessionIds -> Amount]
      /\ reservation' \in [SessionIds -> Nat]
  BY DEF MoneyInv, TypeOK, Subscribe, sessions
<1>3. QED
  BY <1>1, <1>2, MoneyNewSubscription

LEMMA MoneyCleanup ==
  ASSUME MoneyInv, Cleanup
  PROVE  MoneyInv'
BY EscrowAssumption
DEF MoneyInv, TypeOK, EscrowExact, SatelliteIff, PositiveTerms, Cleanup, tokens,
    satellites, sessions, Absent, Amount, Timestamp, Live, SubscriptionState,
    outside

LEMMA MoneyCharge ==
  ASSUME MoneyInv, NEW attach \in BOOLEAN, Charge(attach)
  PROVE  MoneyInv'
<1>1. state = "Active" /\ state \in Live /\ now \in Int /\ now >= streamStart
  BY EscrowAssumption DEF Charge, PayMerchant, Live, MoneyInv, TypeOK
<1>2. /\ UnlockedAt(now) \in Nat
      /\ UnlockedAt(now) <= deposited
      /\ ClaimableAt(now) = UnlockedAt(now) - withdrawn
      /\ vault \in Amount
  BY <1>1, ClaimBounds
<1>3. /\ withdrawn' = UnlockedAt(now)
      /\ vault' = vault - (UnlockedAt(now) - withdrawn)
      /\ withdrawn' > withdrawn
      /\ merchantAta' \in Nat
  BY <1>2, EscrowAssumption DEF Charge, PayMerchant, MoneyInv, TypeOK, Amount
<1>4. nextChargeAt' \in Timestamp
  <2>1. /\ withdrawn' \in Nat /\ period \in Nat /\ price \in Nat \ {0}
        /\ streamStart \in Nat
    BY <1>1, <1>2, <1>3, EscrowAssumption
    DEF MoneyInv, TypeOK, PositiveTerms, Amount, Timestamp
  <2>2. CoveredSeconds(withdrawn', price, period) \in Nat
    BY <2>1, CoveredType
  <2>3. /\ nextChargeAt' = ChargeHint(withdrawn')
        /\ nextChargeAt' <= I64Max
    BY DEF Charge, PayMerchant, FitsI64
  <2>4. QED
    BY <2>1, <2>2, <2>3, EscrowAssumption DEF ChargeHint, Timestamp
<1>5. TypeOK'
  BY <1>1, <1>2, <1>3, <1>4, EscrowAssumption
  DEF MoneyInv, TypeOK, EscrowExact, Charge, PayMerchant, ChargeTail,
      FitsI64, terms, graced,
      sessions, Absent, Amount, Timestamp, Live, SubscriptionState, outside
<1>6. EscrowExact'
  BY <1>1, <1>2, <1>3, EscrowAssumption
  DEF MoneyInv, TypeOK, EscrowExact, Charge, PayMerchant, ChargeTail, graced,
      Amount, Live, outside
<1>7. SatelliteIff' /\ PositiveTerms'
  BY <1>1, EscrowAssumption
  DEF MoneyInv, TypeOK, SatelliteIff, PositiveTerms, Charge, PayMerchant,
      ChargeTail, graced,
      terms, Absent, Timestamp
<1>8. QED
  BY <1>5, <1>6, <1>7 DEF MoneyInv

LEMMA MoneyTopUp ==
  ASSUME MoneyInv, NEW a \in Amounts, NEW attach \in BOOLEAN, TopUp(a, attach)
  PROVE  MoneyInv'
<1>1. a \in Nat /\ state \in Live
  BY EscrowAssumption DEF TopUp, TopUpStates
<1>2. /\ vault' \in Amount /\ deposited' \in Amount /\ subscriberAta' \in Nat
      /\ vault' = deposited' - withdrawn' + gifts' /\ withdrawn' <= deposited'
  BY <1>1, EscrowAssumption
  DEF MoneyInv, TypeOK, EscrowExact, TopUp, TopUpStates, FitsU64, Amount,
      outside
<1>3. state' \in Live /\ streamStart' \in Timestamp
  <2>1. CASE state = "GracePeriod"
    <3>1. /\ enteredGraceAt \in Int /\ now >= enteredGraceAt
          /\ streamStart' = RecoveredStart /\ RecoveredStart <= I64Max
          /\ state' = "Active"
      BY <2>1, EscrowAssumption
      DEF TopUp, TopUpStates, TopUpTail, FitsI64, MoneyInv, TypeOK,
          Timestamp, Absent
    <3>2. QED
      BY <3>1, EscrowAssumption
      DEF RecoveredStart, MoneyInv, TypeOK, Timestamp, Live
  <2>2. CASE state # "GracePeriod"
    BY <1>1, <2>2 DEF TopUp, TopUpStates, TopUpTail, MoneyInv, TypeOK
  <2>3. QED
    BY <2>1, <2>2
<1>4. TypeOK'
  <2>1. /\ enteredGraceAt' \in Timestamp \cup {Absent}
        /\ graceUntil' \in Timestamp \cup {Absent}
    BY DEF TopUp, TopUpStates, graced, MoneyInv, TypeOK
  <2>2. QED
    BY <1>2, <1>3, <2>1
    DEF MoneyInv, TypeOK, TopUp, TopUpStates, terms, hint, sessions, Live,
        SubscriptionState, outside
<1>5. EscrowExact'
  BY <1>2, <1>3 DEF EscrowExact
<1>6. SatelliteIff' /\ PositiveTerms'
  BY <1>1, EscrowAssumption
  DEF MoneyInv, SatelliteIff, PositiveTerms, TopUp, TopUpStates, TopUpTail,
      graced, terms,
      Absent, Live
<1>7. QED
  BY <1>4, <1>5, <1>6 DEF MoneyInv

LEMMA MoneyPause ==
  ASSUME MoneyInv, Pause
  PROVE  MoneyInv'
BY EscrowAssumption
DEF MoneyInv, TypeOK, EscrowExact, SatelliteIff, PositiveTerms, Pause, terms,
    hint, tokens, graced, sessions, Absent, Amount, Timestamp, Live,
    SubscriptionState, outside

LEMMA MoneyResume ==
  ASSUME MoneyInv, Resume
  PROVE  MoneyInv'
BY EscrowAssumption
DEF MoneyInv, TypeOK, EscrowExact, SatelliteIff, PositiveTerms, Resume,
    ResumedStart, FitsI64, terms, hint, tokens, graced, sessions, Absent,
    Amount, Timestamp, Live, SubscriptionState, outside

\* The settlement of cancel hands out what the counters say, so the vault can
\* be closed only where there is nothing else in it.
LEMMA CancelLeavesNothing ==
  ASSUME MoneyInv, NEW signer, NEW g, NEW p, CancelGuards(signer, g, p)
  PROVE  /\ state \in Live /\ gifts = 0
         /\ FinalClaimable \in Nat /\ Refund \in Nat
         /\ vault = FinalClaimable + Refund
<1>1. /\ state \in Live /\ EffectiveNow >= streamStart
      /\ FinalClaimable >= 0 /\ Refund >= 0
      /\ vault - FinalClaimable - Refund = 0
  BY DEF CancelGuards
<1>2. EffectiveNow \in Int
  BY <1>1, EscrowAssumption
  DEF EffectiveNow, Lesser, Live, MoneyInv, TypeOK, Timestamp, Absent
<1>3. UnlockedAt(EffectiveNow) \in Nat
  BY <1>1, <1>2, ClaimBounds
<1>4. /\ deposited \in Nat /\ withdrawn \in Nat /\ gifts \in Nat
      /\ vault = deposited - withdrawn + gifts
  BY <1>1, EscrowAssumption DEF MoneyInv, TypeOK, EscrowExact, Amount
<1>5. QED
  BY <1>1, <1>3, <1>4 DEF FinalClaimable, Refund

LEMMA MoneyCancel ==
  ASSUME MoneyInv, NEW signer, NEW g \in BOOLEAN, NEW p \in BOOLEAN,
         Cancel(signer, g, p)
  PROVE  MoneyInv'
<1>1. state \in Live /\ EffectiveNow >= streamStart
  BY DEF Cancel, CancelGuards, FinalClaimable, Refund
<1>2. EffectiveNow \in Int
  BY <1>1, EscrowAssumption
  DEF EffectiveNow, Lesser, Live, MoneyInv, TypeOK, Timestamp, Absent
<1>3. /\ UnlockedAt(EffectiveNow) \in Nat
      /\ UnlockedAt(EffectiveNow) <= deposited
  BY <1>1, <1>2, ClaimBounds
<1>4. /\ withdrawn' = UnlockedAt(EffectiveNow)
      /\ merchantAta' \in Nat /\ subscriberAta' \in Nat
      /\ vault' = Absent /\ state' = "Cancelled" /\ deposited' = deposited
  BY <1>3, EscrowAssumption DEF Cancel, CancelGuards, FinalClaimable,
        Refund, MoneyInv, TypeOK, Amount
<1>5. SatelliteIff'
  BY <1>1, <1>4 DEF Cancel, CancelGuards, FinalClaimable, Refund, MoneyInv,
        SatelliteIff, graced, Live, Absent
<1>6. TypeOK'
  <2>1. /\ enteredGraceAt' \in Timestamp \cup {Absent}
        /\ graceUntil' \in Timestamp \cup {Absent}
        /\ pausedAt' \in Timestamp \cup {Absent}
    BY DEF Cancel, CancelGuards, FinalClaimable, Refund, graced, MoneyInv,
          TypeOK
  <2>2. QED
    BY <1>3, <1>4, <2>1, EscrowAssumption
    DEF Cancel, CancelGuards, FinalClaimable, Refund, MoneyInv, TypeOK,
          terms, hint, sessions, Amount,
        SubscriptionState, outside
<1>7. PositiveTerms'
  BY <1>1, <1>4 DEF Cancel, MoneyInv, PositiveTerms, terms, Live
<1>8. EscrowExact'
  <2>1. gifts' = 0
    BY CancelLeavesNothing DEF Cancel, outside
  <2>2. QED
    BY <1>3, <1>4, <2>1 DEF EscrowExact, Live
<1>9. QED
  BY <1>5, <1>6, <1>7, <1>8 DEF MoneyInv

LEMMA MoneyOpenSession ==
  ASSUME MoneyInv, NEW s \in SessionIds, NEW f \in Facilitators,
         NEW cap \in Amounts \cup {0}, OpenSession(s, f, cap)
  PROVE  MoneyInv'
BY EscrowAssumption
DEF MoneyInv, TypeOK, EscrowExact, SatelliteIff, PositiveTerms, OpenSession,
    terms, hint, tokens, satellites, Absent, Amount, Timestamp, Live, outside

LEMMA MoneySettleUsage ==
  ASSUME MoneyInv, NEW s \in SessionIds, NEW f \in Facilitators,
         NEW a \in Amounts, SettleUsage(s, f, a)
  PROVE  MoneyInv'
<1>1. /\ a \in Nat /\ state = "Active" /\ state \in Live
      /\ now \in Int /\ now >= streamStart
  BY EscrowAssumption DEF SettleUsage, PayMerchant, Live, MoneyInv, TypeOK
<1>2. /\ UnlockedAt(now) \in Nat
      /\ UnlockedAt(now) <= deposited
      /\ ClaimableAt(now) = UnlockedAt(now) - withdrawn
      /\ vault \in Amount
  BY <1>1, ClaimBounds
<1>3. usage' \in [SessionIds -> Amount]
  BY <1>1, EscrowAssumption
  DEF SettleUsage, PayMerchant, MoneyInv, TypeOK, Amount, FitsU64
<1>4. withdrawn' \in Amount /\ vault' \in Amount /\ merchantAta' \in Nat
  BY <1>1, <1>2, EscrowAssumption DEF SettleUsage, PayMerchant, MoneyInv,
      TypeOK, Amount
<1>5. TypeOK'
  BY <1>1, <1>3, <1>4
  DEF SettleUsage, PayMerchant, MoneyInv, TypeOK, terms, hint, satellites,
      outside
<1>6. EscrowExact'
  BY <1>1, <1>2, EscrowAssumption
  DEF SettleUsage, PayMerchant, MoneyInv, TypeOK, EscrowExact, Amount, outside
<1>7. SatelliteIff' /\ PositiveTerms'
  BY DEF SettleUsage, PayMerchant, MoneyInv, SatelliteIff, PositiveTerms,
      satellites, terms
<1>8. QED
  BY <1>5, <1>6, <1>7 DEF MoneyInv

LEMMA MoneyCloseSession ==
  ASSUME MoneyInv, NEW s \in SessionIds, CloseSession(s)
  PROVE  MoneyInv'
BY EscrowAssumption
DEF MoneyInv, TypeOK, EscrowExact, SatelliteIff, PositiveTerms, CloseSession,
    terms, hint, tokens, satellites, Absent, Amount, Timestamp, outside

\* Tokens sent straight to the vault are no part of the accounts' arithmetic.
LEMMA MoneyGift ==
  ASSUME MoneyInv, NEW a \in 1 .. MaxGifts, Gift(a)
  PROVE  MoneyInv'
<1>1. /\ a \in Nat /\ gifts \in Nat /\ vault \in Amount /\ state \in Live
      /\ vault' = vault + a /\ gifts' = gifts + a
      /\ gifts + a <= MaxGifts /\ vault + a <= U64Max
      /\ vault = deposited - withdrawn + gifts
      /\ deposited \in Nat /\ withdrawn \in Nat /\ withdrawn <= deposited
  BY EscrowAssumption
  DEF Gift, FitsU64, MoneyInv, TypeOK, EscrowExact, Absent, Amount
<1>2. gifts' \in 0 .. MaxGifts /\ vault' \in Amount
  BY <1>1, EscrowAssumption DEF Amount
<1>3. TypeOK'
  BY <1>2
  DEF Gift, MoneyInv, TypeOK, terms, hint, satellites, sessions
<1>4. vault' = deposited - withdrawn + gifts'
  BY <1>1
<1>5. EscrowExact'
  BY <1>1, <1>4 DEF Gift, EscrowExact
<1>6. SatelliteIff' /\ PositiveTerms'
  BY DEF Gift, MoneyInv, SatelliteIff, PositiveTerms, terms, satellites
<1>7. QED
  BY <1>3, <1>5, <1>6 DEF MoneyInv

\* The environment's steps and stuttering.
LEMMA MoneyEnvironment ==
  ASSUME MoneyInv,
         \/ Tick
         \/ ClockBack
         \/ \E a \in Recirculated : HandBack(a)
         \/ TokenStep
         \/ UNCHANGED vars
  PROVE  MoneyInv'
<1>1. CASE Tick \/ ClockBack
  <2>1. now' \in 0 .. MaxTime
    BY <1>1, EscrowAssumption DEF Tick, ClockBack, MoneyInv, TypeOK
  <2>2. QED
    BY <1>1, <2>1
    DEF Tick, ClockBack, MoneyInv, TypeOK, EscrowExact, SatelliteIff,
        PositiveTerms, terms, hint, tokens, satellites, sessions, outside
<1>2. CASE \E a \in Recirculated : HandBack(a)
  BY <1>2, EscrowAssumption
  DEF HandBack, MoneyInv, TypeOK, EscrowExact, SatelliteIff, PositiveTerms,
      terms, hint, satellites, sessions, outside
<1>3. CASE UNCHANGED vars
  BY <1>3
  DEF vars, MoneyInv, TypeOK, EscrowExact, SatelliteIff, PositiveTerms
<1>4. CASE TokenStep
  <2>1. CASE CloseMerchantAta \/ ReopenMerchantAta
    BY <2>1
    DEF CloseMerchantAta, ReopenMerchantAta, MoneyInv, TypeOK, EscrowExact,
        SatelliteIff, PositiveTerms, terms, hint, tokens, satellites, sessions
  <2>2. QED
    BY <1>4, <2>1, MoneyGift DEF TokenStep
<1>5. QED
  BY <1>1, <1>2, <1>3, <1>4

LEMMA MoneyStep == MoneyInv /\ [DriftNext]_vars => MoneyInv'
<1> SUFFICES ASSUME MoneyInv, [DriftNext]_vars
             PROVE  MoneyInv'
  OBVIOUS
<1>0. CASE AccountStep
  BY <1>0, MoneySubscribe, MoneyCleanup DEF AccountStep
<1>1. CASE SubscriberStep
  BY <1>1, MoneyTopUp, MoneyOpenSession, MoneyCloseSession DEF SubscriberStep
<1>2. CASE MerchantStep
  BY <1>2, MoneyCreatePlan, MoneyPause, MoneyResume DEF MerchantStep
<1>3. CASE PartyCancel
  BY <1>3, MoneyCancel DEF PartyCancel
<1>4. CASE KeeperStep
  BY <1>4, MoneyCharge DEF KeeperStep
<1>5. CASE FacilitatorStep
  BY <1>5, MoneySettleUsage DEF FacilitatorStep
<1>6. QED
  BY <1>0, <1>1, <1>2, <1>3, <1>4, <1>5, MoneyEnvironment
  DEF DriftNext, Next, UseNext

\* On any clock, even one that steps back, the vault, the account fields and
\* the satellites stay consistent through every instruction.
THEOREM MoneySafe == DriftSpec => [](TypeOK /\ EscrowExact /\ SatelliteIff)
<1>1. MoneyInv => TypeOK /\ EscrowExact /\ SatelliteIff
  BY DEF MoneyInv
<1>2. QED
  BY <1>1, MoneyInit, MoneyStep, PTL DEF DriftSpec

\* On any clock, each satellite exists exactly while its parent is in the state
\* it stands for, whatever optional accounts the callers attach.
THEOREM SatelliteSafe == DriftSpec => []SatelliteIff
BY MoneySafe, PTL

\* On any clock, every field of every account stays in the range of its Rust
\* type.
THEOREM TypeCorrect == DriftSpec => []TypeOK
BY MoneySafe, PTL

-----------------------------------------------------------------------------
(***************************************************************************)
(* No instruction makes or loses a token.                                  *)
(***************************************************************************)
Tokens == Pot + subscriberAta + merchantAta

\* What the pot is, in terms of the vault.
LEMMA PotNumbers ==
  ASSUME MoneyInv
  PROVE  /\ Pot \in Nat /\ subscriberAta \in Nat /\ merchantAta \in Nat
         /\ state \in Live => Pot = vault - gifts /\ vault \in Nat
         /\ state \notin Live => Pot = 0 /\ vault = Absent
         /\ gifts \in Nat
BY EscrowAssumption DEF MoneyInv, TypeOK, EscrowExact, Pot, Absent, Amount

\* The same, after a step.
LEMMA NextPotNumbers ==
  ASSUME MoneyInv'
  PROVE  /\ Pot' \in Nat
         /\ state' \in Live => Pot' = vault' - gifts' /\ vault' \in Nat
         /\ state' \notin Live => Pot' = 0
<1>1. CASE state' \in Live
  <2>1. /\ deposited' \in Nat /\ withdrawn' \in Nat /\ gifts' \in Nat
        /\ withdrawn' <= deposited'
        /\ vault' = deposited' - withdrawn' + gifts'
    BY <1>1, EscrowAssumption DEF MoneyInv, TypeOK, EscrowExact, Amount, Live
  <2>2. \A x \in Nat, y \in Nat, z \in Nat :
          y <= x => x - y + z \in Nat /\ (x - y + z) - z \in Nat
    OBVIOUS
  <2>3. vault' \in Nat /\ vault' - gifts' \in Nat
    BY <2>1, <2>2
  <2>4. QED
    BY <1>1, <2>3 DEF Pot, Absent
<1>2. CASE state' \notin Live
  BY <1>2 DEF MoneyInv, EscrowExact, Pot, Live
<1>3. QED
  BY <1>1, <1>2

\* Steps that leave the balances alone.
LEMMA TokensUntouched ==
  ASSUME UNCHANGED <<vault, gifts, subscriberAta, merchantAta>>
  PROVE  Tokens' = Tokens
BY DEF Tokens, Pot

LEMMA TokensNewSubscription ==
  ASSUME MoneyInv, MoneyInv', plan \in Terms, state \notin Live,
         NEW n \in Periods, NewSubscription(n, subscriberAta),
         UNCHANGED merchantAta
  PROVE  Tokens' = Tokens
<1>1. /\ state' \in Live /\ plan.price * n \in Amount
      /\ vault' = plan.price * n /\ subscriberAta' = subscriberAta - plan.price * n
      /\ merchantAta' = merchantAta /\ gifts' = 0
  BY NewDeposit DEF NewSubscription, Live, MoneyInv, TypeOK, EscrowExact, outside
<1>2. /\ Pot = 0 /\ Pot' = vault' - gifts'
      /\ subscriberAta \in Nat /\ merchantAta \in Nat
  BY <1>1, PotNumbers, NextPotNumbers
<1>3. QED
  BY <1>1, <1>2, EscrowAssumption DEF Tokens, Amount

LEMMA TokensSubscribe ==
  ASSUME MoneyInv, MoneyInv', NEW n \in Periods, Subscribe(n)
  PROVE  Tokens' = Tokens
<1>1. /\ plan \in Terms /\ state \notin Live
      /\ NewSubscription(n, subscriberAta) /\ UNCHANGED merchantAta
  BY DEF MoneyInv, TypeOK, Subscribe, SubscribeAccounts, Live
<1>2. QED
  BY <1>1, TokensNewSubscription

LEMMA TokensTopUp ==
  ASSUME MoneyInv, MoneyInv', NEW a \in Amounts, NEW attach \in BOOLEAN,
         TopUp(a, attach)
  PROVE  Tokens' = Tokens
<1>1. /\ state \in Live /\ state' \in Live /\ a \in Nat
      /\ vault' = vault + a /\ subscriberAta' = subscriberAta - a
      /\ merchantAta' = merchantAta /\ gifts' = gifts
  BY EscrowAssumption DEF TopUp, TopUpStates, TopUpTail, Live, outside
<1>2. Pot = vault - gifts /\ Pot' = vault' - gifts /\ vault \in Nat
  BY <1>1, PotNumbers, NextPotNumbers
<1>3. QED
  BY <1>1, <1>2, PotNumbers DEF Tokens

\* charge and settle_usage.
LEMMA TokensPayMerchant ==
  ASSUME MoneyInv, MoneyInv', state \in Live, state' \in Live, NEW a \in Int,
         PayMerchant(a), UNCHANGED <<subscriberAta, gifts>>
  PROVE  Tokens' = Tokens
<1>1. Pot = vault - gifts /\ Pot' = vault' - gifts /\ vault \in Nat
  BY PotNumbers, NextPotNumbers
<1>2. vault' = vault - a /\ merchantAta' = merchantAta + a
  BY DEF PayMerchant
<1>3. QED
  BY <1>1, <1>2, PotNumbers DEF Tokens

LEMMA TokensCharge ==
  ASSUME MoneyInv, MoneyInv', NEW attach \in BOOLEAN, Charge(attach)
  PROVE  Tokens' = Tokens
<1>1. /\ state \in Live /\ state' \in Live
      /\ now \in Int /\ now >= streamStart /\ PayMerchant(ClaimableAt(now))
      /\ UNCHANGED <<subscriberAta, gifts>>
  BY EscrowAssumption DEF Charge, ChargeTail, Live, MoneyInv, TypeOK, outside
<1>2. ClaimableAt(now) \in Int
  BY <1>1, ClaimBounds, EscrowAssumption DEF MoneyInv, TypeOK, Amount
<1>3. QED
  BY <1>1, <1>2, TokensPayMerchant

LEMMA CancelAmounts ==
  ASSUME MoneyInv, NEW signer, NEW g, NEW p, CancelGuards(signer, g, p)
  PROVE  /\ state \in Live
         /\ FinalClaimable \in Nat /\ Refund \in Nat
         /\ Pot = FinalClaimable + Refund
BY CancelLeavesNothing, PotNumbers

LEMMA TokensCancel ==
  ASSUME MoneyInv, MoneyInv', NEW signer, NEW g \in BOOLEAN, NEW p \in BOOLEAN,
         Cancel(signer, g, p)
  PROVE  Tokens' = Tokens
<1>1. /\ state' \notin Live /\ CancelGuards(signer, g, p)
      /\ merchantAta' = merchantAta + FinalClaimable
      /\ subscriberAta' = subscriberAta + Refund
  BY DEF Cancel, Live
<1>2. /\ FinalClaimable \in Nat /\ Refund \in Nat
      /\ Pot = FinalClaimable + Refund /\ Pot' = 0
  BY <1>1, CancelAmounts, NextPotNumbers
<1>3. QED
  BY <1>1, <1>2, PotNumbers DEF Tokens

LEMMA TokensGift ==
  ASSUME MoneyInv, MoneyInv', NEW a \in 1 .. MaxGifts, Gift(a)
  PROVE  Tokens' = Tokens
<1>1. /\ vault' = vault + a /\ gifts' = gifts + a /\ a \in Nat
      /\ UNCHANGED <<state, subscriberAta, merchantAta>>
  BY EscrowAssumption DEF Gift
<1>2. /\ state \in Live /\ vault \in Nat /\ gifts \in Nat
      /\ Pot = vault - gifts /\ Pot' = vault' - gifts'
  BY <1>1, PotNumbers, NextPotNumbers DEF Gift
<1>3. QED
  BY <1>1, <1>2 DEF Tokens

\* Everything that may happen between the making and the removal of the
\* Subscription account.
LEMMA TokensUse ==
  ASSUME MoneyInv, MoneyInv', UseNext
  PROVE  Tokens' = Tokens
<1>1. ASSUME NEW s \in SessionIds, NEW f \in Facilitators, NEW a \in Amounts,
             SettleUsage(s, f, a)
      PROVE  Tokens' = Tokens
  <2>1. /\ state \in Live /\ state' \in Live /\ a \in Int
        /\ PayMerchant(a) /\ UNCHANGED <<subscriberAta, gifts>>
    BY <1>1, EscrowAssumption DEF SettleUsage, Live, outside
  <2>2. QED
    BY <2>1, TokensPayMerchant
<1>2. ASSUME NEW a \in Recirculated, HandBack(a)
      PROVE  Tokens' = Tokens
  <2>1. a \in Nat /\ Pot' = Pot
    BY <1>2, EscrowAssumption DEF HandBack, Pot, outside
  <2>2. QED
    BY <1>2, <2>1, PotNumbers DEF HandBack, Tokens
<1>3. CASE SubscriberStep
  BY <1>3, TokensTopUp, TokensUntouched
  DEF SubscriberStep, OpenSession, CloseSession, tokens, outside
<1>4. CASE MerchantStep \/ Tick
  BY <1>4, TokensUntouched
  DEF MerchantStep, CreatePlan, Pause, Resume, Tick, tokens, outside
<1>5. CASE PartyCancel
  BY <1>5, TokensCancel DEF PartyCancel
<1>6. CASE KeeperStep
  BY <1>6, TokensCharge DEF KeeperStep
<1>7. CASE TokenStep
  BY <1>7, TokensGift, TokensUntouched
  DEF TokenStep, CloseMerchantAta, ReopenMerchantAta, tokens
<1>8. QED
  BY <1>1, <1>2, <1>3, <1>4, <1>5, <1>6, <1>7 DEF UseNext, FacilitatorStep

LEMMA TokensStep ==
  ASSUME MoneyInv, MoneyInv', [DriftNext]_vars
  PROVE  Tokens' = Tokens
<1>1. CASE AccountStep
  BY <1>1, TokensSubscribe, TokensUntouched DEF AccountStep, Cleanup, tokens,
      outside
<1>2. CASE ClockBack \/ UNCHANGED vars
  BY <1>2, TokensUntouched DEF ClockBack, vars, tokens, outside
<1>3. QED
  BY <1>1, <1>2, TokensUse DEF DriftNext, Next

-----------------------------------------------------------------------------
(***************************************************************************)
(* The second layer: frozen streams, on any clock.                         *)
(***************************************************************************)
\* The numbers a live subscription is made of.
LEMMA LiveNumbers ==
  ASSUME MoneyInv, state \in Live
  PROVE  /\ price \in Nat \ {0} /\ period \in Nat \ {0}
         /\ deposited \in Nat /\ withdrawn \in Nat /\ withdrawn <= deposited
         /\ now \in Nat /\ streamStart \in Nat /\ nextChargeAt \in Nat
         /\ state = "Active" =>
              ServiceEnd = now /\ enteredGraceAt = Absent /\ pausedAt = Absent
         /\ state = "GracePeriod" =>
              ServiceEnd = enteredGraceAt /\ enteredGraceAt \in Nat
         /\ state = "Paused" => ServiceEnd = pausedAt /\ pausedAt \in Nat
         /\ ServiceEnd \in Nat
         /\ state = "Active" \/ state = "Paused" \/ state = "GracePeriod"
BY EscrowAssumption
DEF MoneyInv, TypeOK, PositiveTerms, EscrowExact, SatelliteIff, ServiceEnd,
    Live, Amount, Timestamp, Absent

\* The grace satellite's deadline; no step writes one field without the other.
GraceWindow ==
  enteredGraceAt # Absent => graceUntil = enteredGraceAt + GraceDuration

\* A stream froze at or after its anchor; a frozen one is not re-anchored.
FrozenAfterStart ==
  state \in {"Paused", "GracePeriod"} => streamStart <= ServiceEnd

FreezeInv == GraceIsExhausted /\ FrozenAfterStart /\ GraceWindow

LEMMA FreezeInit == Init => FreezeInv
BY DEF Init, FreezeInv, GraceIsExhausted, FrozenAfterStart, GraceWindow

LEMMA GraceWindowStep == GraceWindow /\ [DriftNext]_vars => GraceWindow'
BY DEF GraceWindow, Absent, DriftNext, ClockBack, Next, AccountStep, UseNext,
       SubscriberStep, MerchantStep, PartyCancel, KeeperStep, FacilitatorStep,
       CreatePlan, Subscribe, NewSubscription, Cleanup, Charge, ChargeTail,
       TopUp, Pause, Resume, Cancel, CancelGuards, OpenSession, SettleUsage,
       CloseSession, Tick, HandBack, TokenStep, Gift, CloseMerchantAta,
       ReopenMerchantAta, graced, satellites, vars

\* Steps after which a frozen stream is one that was frozen before, with the
\* same terms, anchor, satellites and accounts.
LEMMA FreezeSame ==
  ASSUME FreezeInv,
         state' \in {"Paused", "GracePeriod"} =>
           UNCHANGED <<state, price, period, deposited, withdrawn, streamStart,
                       enteredGraceAt, pausedAt>>
  PROVE  GraceIsExhausted' /\ FrozenAfterStart'
BY DEF FreezeInv, GraceIsExhausted, FrozenAfterStart, Metered, ServiceEnd

\* The exhausting charge.
LEMMA FreezeCharge ==
  ASSUME MoneyInv, FreezeInv, NEW attach \in BOOLEAN, Charge(attach)
  PROVE  GraceIsExhausted' /\ FrozenAfterStart'
<1>1. /\ state = "Active" /\ state \in Live /\ now \in Int /\ now >= streamStart
      /\ withdrawn' = withdrawn + ClaimableAt(now)
      /\ UNCHANGED <<now, price, period, deposited, streamStart>>
  BY EscrowAssumption DEF Charge, PayMerchant, Live, terms, MoneyInv, TypeOK
<1>2. /\ price \in Nat /\ period \in Nat \ {0} /\ deposited \in Nat
      /\ withdrawn \in Nat /\ streamStart \in Nat /\ now - streamStart \in Nat
  BY <1>1, LiveNumbers
<1>3. state' = "Active" \/ state' = "GracePeriod"
  BY <1>1 DEF Charge, ChargeTail
<1>4. CASE state' = "GracePeriod"
  <2>1. /\ enteredGraceAt' = now
        /\ withdrawn + ClaimableAt(now) = deposited
    BY <1>1, <1>4 DEF Charge, ChargeTail
  <2>2. /\ UnlockedAt(now) \in Nat
        /\ ClaimableAt(now) = UnlockedAt(now) - withdrawn
    BY <1>1, ClaimBounds
  <2>3. UnlockedAt(now) = deposited
    BY <1>2, <2>1, <2>2
  <2>4. Accrued(now - streamStart, price, period) >= deposited
    BY <1>2, <2>3, UnlockedBounds DEF UnlockedAt
  <2>5. ServiceEnd' = now /\ Metered' = now - streamStart
    BY <1>1, <1>4, <2>1 DEF ServiceEnd, Metered
  <2>6. QED
    BY <1>1, <1>4, <2>1, <2>4, <2>5 DEF GraceIsExhausted, FrozenAfterStart
<1>5. CASE state' = "Active"
  BY <1>5 DEF GraceIsExhausted, FrozenAfterStart
<1>6. QED
  BY <1>3, <1>4, <1>5

LEMMA FreezePause ==
  ASSUME MoneyInv, FreezeInv, Pause
  PROVE  GraceIsExhausted' /\ FrozenAfterStart'
BY DEF Pause, GraceIsExhausted, FrozenAfterStart, ServiceEnd

\* A top-up leaves a paused stream where it was and takes one out of grace.
LEMMA FreezeTopUp ==
  ASSUME MoneyInv, FreezeInv, NEW a, NEW attach \in BOOLEAN, TopUp(a, attach)
  PROVE  GraceIsExhausted' /\ FrozenAfterStart'
<1>1. CASE state = "GracePeriod"
  BY <1>1 DEF TopUp, TopUpTail, GraceIsExhausted, FrozenAfterStart
<1>2. CASE state # "GracePeriod"
  <2>1. UNCHANGED <<state, streamStart, pausedAt>>
    BY <1>2 DEF TopUp, TopUpTail
  <2>2. QED
    BY <1>2, <2>1 DEF FreezeInv, GraceIsExhausted, FrozenAfterStart, ServiceEnd
<1>3. QED
  BY <1>1, <1>2

LEMMA FreezeStep == MoneyInv /\ FreezeInv /\ [DriftNext]_vars => FreezeInv'
<1> SUFFICES ASSUME MoneyInv, FreezeInv, [DriftNext]_vars
             PROVE  GraceIsExhausted' /\ FrozenAfterStart'
  BY GraceWindowStep DEF FreezeInv
<1>1. CASE AccountStep \/ PartyCancel
  BY <1>1, FreezeSame
  DEF AccountStep, Subscribe, NewSubscription, Cleanup, PartyCancel, Cancel
<1>2. CASE SubscriberStep
  BY <1>2, FreezeSame, FreezeTopUp
  DEF SubscriberStep, OpenSession, CloseSession, terms, satellites
<1>3. CASE MerchantStep
  BY <1>3, FreezeSame, FreezePause
  DEF MerchantStep, CreatePlan, Resume, terms, satellites
<1>4. CASE KeeperStep
  BY <1>4, FreezeCharge DEF KeeperStep
<1>5. CASE FacilitatorStep
  BY <1>5, FreezeSame DEF FacilitatorStep, SettleUsage
<1>6. CASE Tick \/ ClockBack \/ (\E a \in Recirculated : HandBack(a)) \/ TokenStep
  BY <1>6, FreezeSame
  DEF Tick, ClockBack, HandBack, TokenStep, Gift, CloseMerchantAta,
      ReopenMerchantAta, terms, satellites
<1>7. CASE UNCHANGED vars
  BY <1>7, FreezeSame DEF vars
<1>8. QED
  BY <1>1, <1>2, <1>3, <1>4, <1>5, <1>6, <1>7 DEF DriftNext, Next, UseNext

\* The invariant of any clock.
AnyClockInv == MoneyInv /\ FreezeInv

LEMMA AnyClockStep == AnyClockInv /\ [DriftNext]_vars => AnyClockInv'
BY MoneyStep, FreezeStep DEF AnyClockInv

LEMMA AnyClockHolds == DriftSpec => []AnyClockInv
<1>1. Init => AnyClockInv
  BY MoneyInit, FreezeInit DEF AnyClockInv
<1>2. QED
  BY <1>1, AnyClockStep, PTL DEF DriftSpec

\* A clock that never steps back is one that may.
LEMMA GraceWindowHolds == Spec => []GraceWindow
<1>1. Init => GraceWindow
  BY FreezeInit DEF FreezeInv
<1>2. GraceWindow /\ [Next]_vars => GraceWindow'
  BY GraceWindowStep DEF DriftNext
<1>3. QED
  BY <1>1, <1>2, PTL DEF Spec

\* Every subscription in grace has earned and paid out its whole deposit, also
\* on a clock that steps back.
THEOREM GraceSafe == DriftSpec => []GraceIsExhausted
<1>1. AnyClockInv => GraceIsExhausted
  BY DEF AnyClockInv, FreezeInv
<1>2. QED
  BY <1>1, AnyClockHolds, PTL

-----------------------------------------------------------------------------
(***************************************************************************)
(* The third layer: the anchor and the service seconds behind it.          *)
(***************************************************************************)
LEMMA TimeInit == Init => TimeInv
BY DEF Init, TimeInv, EarnedOnly, GraceIsExhausted, HintNeverLate, Live

\* TimeInv says nothing about a subscription that holds no escrow.
LEMMA TimeNotLive ==
  ASSUME state \notin Live
  PROVE  TimeInv
BY DEF TimeInv, EarnedOnly, GraceIsExhausted, HintNeverLate, Live

\* Steps that touch neither the clock nor the stream.
LEMMA TimeUntouched ==
  ASSUME TimeInv,
         UNCHANGED <<now, state, price, period, deposited, withdrawn,
                     streamStart, nextChargeAt, enteredGraceAt, pausedAt>>
  PROVE  TimeInv' /\ Metered' = Metered
BY DEF TimeInv, EarnedOnly, GraceIsExhausted, HintNeverLate, Metered, ServiceEnd

LEMMA TimeSubscribe ==
  ASSUME MoneyInv, MoneyInv', NEW n \in Periods, Subscribe(n)
  PROVE  TimeInv' /\ Metered' = 0
<1>1. now \in Nat
  BY EscrowAssumption DEF MoneyInv, TypeOK
<1>2. /\ state' = "Active" /\ state' \in Live
      /\ now' = now /\ streamStart' = now /\ ServiceEnd' = now
      /\ withdrawn' = 0
  BY DEF Subscribe, SubscribeAccounts, NewSubscription, Live, ServiceEnd
<1>3. /\ price' \in Nat /\ period' \in Nat \ {0} /\ deposited' \in Nat
  BY <1>2, EscrowAssumption
  DEF MoneyInv, TypeOK, PositiveTerms, Amount, Timestamp
<1>4. Metered' = 0
  <2>1. Metered' = now - now
    BY <1>2 DEF Metered
  <2>2. QED
    BY <1>1, <2>1
<1>5. Unlocked(Metered', price', period', deposited') \in Nat
  BY <1>3, <1>4, UnlockedBounds
<1>6. EarnedOnly'
  BY <1>1, <1>2, <1>5 DEF EarnedOnly
<1>7. HintNeverLate'
  <2>1. nextChargeAt' = now + plan.period /\ period' = plan.period
    BY DEF Subscribe, SubscribeAccounts, NewSubscription
  <2>2. plan.period \in Nat
    BY <1>3, <2>1
  <2>3. nextChargeAt' <= now' + period'
    BY <1>1, <1>2, <2>1, <2>2
  <2>4. QED
    BY <2>3 DEF HintNeverLate
<1>8. GraceIsExhausted'
  BY <1>2 DEF GraceIsExhausted
<1>9. QED
  BY <1>4, <1>6, <1>7, <1>8 DEF TimeInv

LEMMA TimeCharge ==
  ASSUME MoneyInv, MoneyInv', TimeInv, NEW attach \in BOOLEAN, Charge(attach)
  PROVE  TimeInv' /\ Metered' = Metered
<1>1. /\ state = "Active" /\ state \in Live /\ now' = now
      /\ UNCHANGED <<price, period, deposited, streamStart>>
      /\ now >= streamStart
  BY DEF Charge, PayMerchant, Live, terms
<1>2. /\ price \in Nat \ {0} /\ period \in Nat \ {0}
      /\ deposited \in Nat /\ withdrawn \in Nat
      /\ now \in Nat /\ streamStart \in Nat /\ ServiceEnd = now
  BY <1>1, LiveNumbers
<1>3. now - streamStart \in Nat /\ Metered = now - streamStart
  BY <1>1, <1>2 DEF Metered
<1>4. /\ withdrawn' = Unlocked(Metered, price, period, deposited)
      /\ withdrawn' \in Nat
      /\ withdrawn' <= Accrued(Metered, price, period)
  <2>1. /\ Unlocked(Metered, price, period, deposited) \in Nat
        /\ Accrued(Metered, price, period) \in Nat
        /\ Unlocked(Metered, price, period, deposited)
             <= Accrued(Metered, price, period)
    BY <1>2, <1>3, UnlockedBounds
  <2>2. withdrawn' =
          withdrawn + (Unlocked(Metered, price, period, deposited) - withdrawn)
    BY <1>3 DEF Charge, PayMerchant, ClaimableAt, UnlockedAt
  <2>3. QED
    BY <1>2, <2>1, <2>2
<1>5. /\ ServiceEnd' = now
      /\ state' = "GracePeriod" => withdrawn' = deposited
  BY <1>1 DEF Charge, PayMerchant, ChargeTail, ServiceEnd, graced
<1>6. Metered' = Metered
  BY <1>1, <1>3, <1>5 DEF Metered
<1>7. nextChargeAt' <= now + period
  <2>1. CoveredSeconds(withdrawn', price, period) \in 0 .. Metered
    BY <1>2, <1>3, <1>4, CoveredBound
  <2>2. nextChargeAt' = ChargeHint(withdrawn')
    BY DEF Charge, PayMerchant
  <2>3. QED
    BY <1>2, <1>3, <2>1, <2>2 DEF ChargeHint
<1>8. EarnedOnly' /\ HintNeverLate'
  BY <1>1, <1>2, <1>4, <1>5, <1>6, <1>7 DEF EarnedOnly, HintNeverLate
<1>9. GraceIsExhausted'
  BY <1>1, <1>2, <1>3, <1>4, <1>5, <1>6, UnlockedBounds DEF GraceIsExhausted
<1>10. QED
  BY <1>6, <1>8, <1>9 DEF TimeInv

LEMMA TimeTopUp ==
  ASSUME MoneyInv, MoneyInv', TimeInv, NEW a \in Amounts,
  NEW attach \in BOOLEAN,
         TopUp(a, attach)
  PROVE  TimeInv' /\ Metered' = Metered
<1>1. /\ state \in Live /\ a \in Nat
      /\ deposited' = deposited + a
      /\ UNCHANGED <<now, price, period, withdrawn, nextChargeAt, pausedAt>>
  BY EscrowAssumption DEF TopUp, TopUpStates, terms, hint
<1>2. /\ price \in Nat \ {0} /\ period \in Nat \ {0}
      /\ deposited \in Nat /\ withdrawn \in Nat
      /\ now \in Nat /\ streamStart \in Nat /\ ServiceEnd \in Nat
      /\ streamStart <= ServiceEnd /\ ServiceEnd <= now
      /\ withdrawn <= Unlocked(Metered, price, period, deposited)
      /\ Metered \in Nat
  BY <1>1, LiveNumbers DEF TimeInv, EarnedOnly, Metered
<1>3. withdrawn <= Unlocked(Metered, price, period, deposited + a)
  <2> DEFINE more == deposited + a
  <2>0. more \in Nat /\ deposited <= more
    BY <1>1, <1>2
  <2> HIDE DEF more
  <2>1. /\ Unlocked(Metered, price, period, deposited) \in Nat
        /\ Unlocked(Metered, price, period, more) \in Nat
    BY <1>2, <2>0, UnlockedBounds
  <2>2. Unlocked(Metered, price, period, deposited)
          <= Unlocked(Metered, price, period, more)
    BY <1>2, <2>0, UnlockedMonotone
  <2>3. withdrawn <= Unlocked(Metered, price, period, more)
    BY <1>2, <2>1, <2>2
  <2>4. QED
    BY <2>3 DEF more
<1>4. /\ state' \in {"Active", "Paused"}
      /\ Metered' = Metered
      /\ streamStart' <= ServiceEnd' /\ ServiceEnd' <= now'
  <2>1. CASE state = "GracePeriod"
    <3>1. /\ state' = "Active" /\ ServiceEnd' = now
          /\ ServiceEnd = enteredGraceAt
          /\ streamStart' = streamStart + (now - enteredGraceAt)
      BY <1>1, <2>1 DEF TopUp, TopUpStates, TopUpTail, RecoveredStart,
          ServiceEnd
    <3>2. QED
      BY <1>1, <1>2, <3>1 DEF Metered
  <2>2. CASE state # "GracePeriod"
    <3>1. /\ state' = state /\ streamStart' = streamStart
          /\ ServiceEnd' = ServiceEnd
      BY <1>1, <2>2 DEF TopUp, TopUpStates, TopUpTail, ServiceEnd, Live
    <3>2. QED
      BY <1>1, <1>2, <2>2, <3>1 DEF Metered, Live
  <2>3. QED
    BY <2>1, <2>2
<1>5. QED
  BY <1>1, <1>2, <1>3, <1>4
  DEF TimeInv, EarnedOnly, GraceIsExhausted, HintNeverLate

LEMMA TimePauseResume ==
  ASSUME MoneyInv, MoneyInv', TimeInv, Pause \/ Resume
  PROVE  TimeInv' /\ Metered' = Metered
<1>1. /\ state \in Live /\ state' \in {"Active", "Paused"}
      /\ UNCHANGED <<now, price, period, deposited, withdrawn, nextChargeAt>>
  BY DEF Pause, Resume, terms, hint, Live
<1>2. /\ now \in Nat /\ streamStart \in Nat /\ ServiceEnd \in Nat
      /\ streamStart <= ServiceEnd /\ ServiceEnd <= now
  BY <1>1, LiveNumbers DEF TimeInv, EarnedOnly
<1>3. /\ Metered' = Metered
      /\ streamStart' <= ServiceEnd' /\ ServiceEnd' <= now'
  <2>1. CASE Pause
    BY <1>1, <1>2, <2>1 DEF Pause, ServiceEnd, Metered
  <2>2. CASE Resume
    <3>1. /\ ServiceEnd = pausedAt /\ ServiceEnd' = now
          /\ streamStart' = streamStart + (now - pausedAt)
      BY <1>1, <2>2 DEF Resume, ResumedStart, ServiceEnd
    <3>2. QED
      BY <1>1, <1>2, <3>1 DEF Metered
  <2>3. QED
    BY <2>1, <2>2
<1>4. QED
  BY <1>1, <1>2, <1>3
  DEF TimeInv, EarnedOnly, GraceIsExhausted, HintNeverLate, Live

LEMMA TimeSettleUsage ==
  ASSUME MoneyInv, MoneyInv', TimeInv, NEW s \in SessionIds,
         NEW f \in Facilitators, NEW a \in Amounts, SettleUsage(s, f, a)
  PROVE  /\ TimeInv' /\ Metered' = Metered
         /\ withdrawn + a <= Unlocked(Metered, price, period, deposited)
<1>1. /\ state = "Active" /\ state \in Live
      /\ UNCHANGED <<now, state, price, period, deposited, streamStart,
                     nextChargeAt, enteredGraceAt, pausedAt>>
      /\ withdrawn' = withdrawn + a
      /\ a <= Unlocked(now - streamStart, price, period, deposited) - withdrawn
  BY DEF SettleUsage, PayMerchant, Live, terms, hint, satellites,
      ClaimableAt, UnlockedAt
<1>2. /\ price \in Nat \ {0} /\ period \in Nat \ {0}
      /\ deposited \in Nat /\ withdrawn \in Nat /\ a \in Nat
      /\ now \in Nat /\ streamStart \in Nat /\ ServiceEnd = now
      /\ streamStart <= now
  BY <1>1, LiveNumbers, EscrowAssumption DEF TimeInv, EarnedOnly
<1>3. Metered = now - streamStart /\ Metered' = Metered /\ Metered \in Nat
  BY <1>1, <1>2 DEF Metered, ServiceEnd
<1>4. withdrawn + a <= Unlocked(Metered, price, period, deposited)
  <2>1. Unlocked(Metered, price, period, deposited) \in Nat
    BY <1>2, <1>3, UnlockedBounds
  <2>2. a <= Unlocked(Metered, price, period, deposited) - withdrawn
    BY <1>1, <1>3
  <2>3. QED
    BY <1>2, <2>1, <2>2
<1>5. ServiceEnd' = now
  BY <1>1 DEF ServiceEnd
<1>6. QED
  BY <1>1, <1>2, <1>3, <1>4, <1>5
  DEF TimeInv, EarnedOnly, GraceIsExhausted, HintNeverLate

LEMMA TimeTick ==
  ASSUME MoneyInv, TimeInv, Tick
  PROVE  /\ TimeInv'
         /\ Metered' = IF state = "Active" THEN Metered + 1 ELSE Metered
<1>1. /\ UNCHANGED <<state, price, period, deposited, withdrawn, streamStart,
                     nextChargeAt, enteredGraceAt, pausedAt>>
      /\ now' = now + 1 /\ now \in Nat /\ streamStart \in Nat
  BY EscrowAssumption
  DEF Tick, terms, hint, satellites, MoneyInv, TypeOK, Timestamp
<1>2. CASE state \notin Live
  <2>1. state' \notin Live
    BY <1>1, <1>2
  <2>2. ServiceEnd' = streamStart' /\ ServiceEnd = streamStart
    BY <1>1, <1>2, <2>1 DEF ServiceEnd, Live
  <2>3. TimeInv'
    BY <2>1 DEF TimeInv, EarnedOnly, GraceIsExhausted, HintNeverLate, Live
  <2>4. QED
    BY <1>1, <1>2, <2>2, <2>3 DEF Metered, Live
<1>3. CASE state \in Live
  <2>1. /\ price \in Nat \ {0} /\ period \in Nat \ {0}
        /\ deposited \in Nat /\ withdrawn \in Nat /\ nextChargeAt \in Nat
        /\ ServiceEnd \in Nat
        /\ streamStart <= ServiceEnd /\ ServiceEnd <= now
        /\ withdrawn <= Unlocked(Metered, price, period, deposited)
        /\ Metered \in Nat
    BY <1>1, <1>3, LiveNumbers DEF TimeInv, EarnedOnly, Metered
  <2>2. /\ Metered' = IF state = "Active" THEN Metered + 1 ELSE Metered
        /\ streamStart' <= ServiceEnd' /\ ServiceEnd' <= now'
    BY <1>1, <1>3, <2>1 DEF Metered, ServiceEnd, Live
  <2>3. withdrawn <= Unlocked(Metered', price, period, deposited)
    <3>1. Metered' \in Nat /\ Metered <= Metered'
      BY <2>1, <2>2
    <3>2. /\ Unlocked(Metered, price, period, deposited) \in Nat
          /\ Unlocked(Metered', price, period, deposited) \in Nat
      BY <2>1, <3>1, UnlockedBounds
    <3>3. Unlocked(Metered, price, period, deposited)
            <= Unlocked(Metered', price, period, deposited)
      BY <2>1, <3>1, UnlockedMonotone
    <3>4. QED
      BY <2>1, <3>2, <3>3
  <2>4. EarnedOnly' /\ HintNeverLate'
    BY <1>1, <1>3, <2>1, <2>2, <2>3 DEF EarnedOnly, HintNeverLate, TimeInv
  <2>5. GraceIsExhausted'
    BY <1>1, <2>2 DEF GraceIsExhausted, TimeInv
  <2>6. QED
    BY <2>2, <2>4, <2>5 DEF TimeInv
<1>4. QED
  BY <1>2, <1>3

LEMMA TimeStep == MoneyInv /\ MoneyInv' /\ TimeInv /\ [Next]_vars => TimeInv'
<1> SUFFICES ASSUME MoneyInv, MoneyInv', TimeInv, [Next]_vars
             PROVE  TimeInv'
  OBVIOUS
<1>0. CASE AccountStep
  <2>1. CASE Cleanup
    BY <2>1
    DEF Cleanup, TimeInv, EarnedOnly, GraceIsExhausted, HintNeverLate, Live
  <2>2. QED
    BY <1>0, <2>1, TimeSubscribe DEF AccountStep
<1>1. CASE SubscriberStep
  <2>1. ASSUME NEW s \in SessionIds, NEW f \in Facilitators,
               NEW cap \in Amounts \cup {0}, OpenSession(s, f, cap)
        PROVE  TimeInv'
    BY <2>1, TimeUntouched DEF OpenSession, terms, hint, satellites
  <2>2. ASSUME NEW s \in SessionIds, CloseSession(s)
        PROVE  TimeInv'
    BY <2>2, TimeUntouched DEF CloseSession, terms, hint, satellites
  <2>3. CASE Cleanup
    BY <2>3 DEF Cleanup, TimeInv, EarnedOnly, GraceIsExhausted,
        HintNeverLate, Live
  <2>4. QED
    BY <1>1, <2>1, <2>2, <2>3, TimeSubscribe, TimeTopUp DEF SubscriberStep
<1>2. CASE MerchantStep
  <2>1. ASSUME NEW t \in Terms, CreatePlan(t)
        PROVE  TimeInv'
    BY <2>1, TimeUntouched DEF CreatePlan, terms, hint, satellites
  <2>2. QED
    BY <1>2, <2>1, TimePauseResume DEF MerchantStep
<1>3. CASE PartyCancel
  BY <1>3
  DEF PartyCancel, Cancel, CancelGuards, FinalClaimable, Refund, TimeInv,
        EarnedOnly, GraceIsExhausted, HintNeverLate,
      Live
<1>4. CASE KeeperStep
  BY <1>4, TimeCharge DEF KeeperStep
<1>5. CASE FacilitatorStep
  BY <1>5, TimeSettleUsage DEF FacilitatorStep
<1>6. ASSUME NEW a \in Recirculated, HandBack(a)
      PROVE  TimeInv'
  BY <1>6, TimeUntouched DEF HandBack, terms, hint, satellites
<1>7. CASE TokenStep
  BY <1>7, TimeUntouched
  DEF TokenStep, Gift, CloseMerchantAta, ReopenMerchantAta, terms, hint,
      satellites
<1>8. CASE UNCHANGED vars
  BY <1>8, TimeUntouched DEF vars
<1>9. QED
  BY <1>0, <1>1, <1>2, <1>3, <1>4, <1>5, <1>6, <1>7, <1>8, TimeTick
  DEF Next, UseNext

\* The two layers together.
IInv == MoneyInv /\ TimeInv

LEMMA IInvStep == IInv /\ [Next]_vars => IInv'
<1>1. [Next]_vars => [DriftNext]_vars
  BY DEF DriftNext
<1>2. QED
  BY <1>1, MoneyStep, TimeStep DEF IInv

LEMMA IInvHolds == Spec => []IInv
<1>1. Init => IInv
  BY MoneyInit, TimeInit DEF IInv
<1>2. QED
  BY <1>1, IInvStep, PTL DEF Spec

\* On a clock that does not step back the merchant never draws more than the
\* service seconds behind the anchor cost, whatever mix of charge, settlement,
\* pause, recovery and top-up the accounts go through.
THEOREM EarnedSafe == Spec => []EarnedOnly
<1>1. IInv => EarnedOnly
  BY DEF IInv, TimeInv
<1>2. QED
  BY <1>1, IInvHolds, PTL

\* The keeper's hint is never more than a period ahead of the clock.
THEOREM HintSafe == Spec => []HintNeverLate
<1>1. IInv => HintNeverLate
  BY DEF IInv, TimeInv
<1>2. QED
  BY <1>1, IInvHolds, PTL

-----------------------------------------------------------------------------
(***************************************************************************)
(* What keeps cancel and charge open.  ENABLED is out of the prover's      *)
(* reach; CancelGuards is all that Cancel demands of the state, and        *)
(* ChargeGuards is shown to be all that Charge demands.                    *)
(***************************************************************************)
\* Cancel settles by the metered seconds: in grace the seconds after the
\* exhausting charge count for nothing, since the deposit was used up by then.
LEMMA SettlementMetered ==
  ASSUME MoneyInv, FreezeInv, EarnedOnly, state \in Live,
         EffectiveNow >= streamStart
  PROVE  UnlockedAt(EffectiveNow) = Unlocked(Metered, price, period, deposited)
<1>1. CASE state # "GracePeriod"
  BY <1>1 DEF UnlockedAt, EffectiveNow, Metered, ServiceEnd, Live
<1>2. CASE state = "GracePeriod"
  <2>1. /\ price \in Nat /\ period \in Nat \ {0} /\ deposited \in Nat
        /\ now \in Nat /\ streamStart \in Nat /\ ServiceEnd \in Nat
        /\ ServiceEnd = enteredGraceAt
        /\ streamStart <= ServiceEnd /\ ServiceEnd <= now
        /\ Metered \in Nat /\ Metered = enteredGraceAt - streamStart
    BY <1>2, LiveNumbers DEF Live, EarnedOnly, Metered
  <2>2. graceUntil = enteredGraceAt + GraceDuration
    BY <1>2 DEF MoneyInv, SatelliteIff, FreezeInv, GraceWindow
  <2>3. EffectiveNow \in Nat /\ enteredGraceAt <= EffectiveNow
    BY <1>2, <2>1, <2>2, EscrowAssumption DEF EffectiveNow, Lesser
  <2> DEFINE seconds == EffectiveNow - streamStart
  <2>4. seconds \in Nat /\ Metered <= seconds
    BY <2>1, <2>3
  <2> HIDE DEF seconds
  <2>5. Accrued(Metered, price, period) >= deposited
    BY <1>2 DEF FreezeInv, GraceIsExhausted
  <2>6. Unlocked(Metered, price, period, deposited) = deposited
    BY <2>1, <2>5, UnlockedBounds
  <2>7. deposited <= Unlocked(seconds, price, period, deposited)
    BY <2>1, <2>4, <2>6, UnlockedMonotone
  <2>8. /\ Unlocked(seconds, price, period, deposited) \in Nat
        /\ Unlocked(seconds, price, period, deposited) <= deposited
    BY <2>1, <2>4, UnlockedBounds
  <2>9. QED
    BY <2>1, <2>6, <2>7, <2>8 DEF UnlockedAt, seconds
<1>3. QED
  BY <1>1, <1>2

\* The satellites that a caller of cancel has to attach.
NeedsGraced == state = "GracePeriod"
NeedsPaused == state = "Paused"

\* With those satellites cancel finds every guard open, by a clock that is not
\* behind the service that was paid for, unless it is shut from outside.
LEMMA SettledCancel ==
  ASSUME MoneyInv, FreezeInv, EarnedOnly, state \in Live,
         ~Shut, NEW signer \in CancelAuthority
  PROVE  CancelGuards(signer, NeedsGraced, NeedsPaused)
<1>1. /\ price \in Nat /\ period \in Nat \ {0} /\ deposited \in Nat
      /\ withdrawn \in Nat /\ now \in Nat /\ streamStart \in Nat
      /\ ServiceEnd \in Nat /\ streamStart <= ServiceEnd /\ ServiceEnd <= now
      /\ withdrawn <= Unlocked(Metered, price, period, deposited)
      /\ Metered \in Nat
  BY LiveNumbers DEF EarnedOnly, Metered
<1>2. EffectiveNow \in Nat /\ EffectiveNow >= ServiceEnd
  <2>1. CASE state = "GracePeriod"
    <3>1. graceUntil = enteredGraceAt + GraceDuration
      BY <2>1 DEF MoneyInv, SatelliteIff, FreezeInv, GraceWindow
    <3>2. QED
      BY <1>1, <2>1, <3>1, EscrowAssumption
      DEF EffectiveNow, ServiceEnd, Lesser
  <2>2. CASE state # "GracePeriod"
    BY <1>1, <2>2 DEF EffectiveNow, ServiceEnd, Live
  <2>3. QED
    BY <2>1, <2>2
<1>3. EffectiveNow >= streamStart /\ now >= streamStart
  BY <1>1, <1>2
<1>4. UnlockedAt(EffectiveNow) = Unlocked(Metered, price, period, deposited)
  BY <1>3, SettlementMetered
<1>5. /\ UnlockedAt(EffectiveNow) \in Nat
      /\ UnlockedAt(EffectiveNow) <= deposited
      /\ withdrawn <= UnlockedAt(EffectiveNow)
  BY <1>1, <1>4, UnlockedBounds
<1>6. vault = deposited - withdrawn /\ merchantAtaOpen
  <2>1. gifts = 0 /\ merchantAtaOpen
    BY EscrowAssumption DEF Shut, MoneyInv, TypeOK
  <2>2. QED
    BY <1>1, <2>1 DEF MoneyInv, EscrowExact
<1>7. /\ FinalClaimable >= 0 /\ Refund >= 0
      /\ vault - FinalClaimable - Refund = 0
  BY <1>1, <1>5, <1>6 DEF FinalClaimable, Refund
<1>8. CancelAccounts(NeedsGraced, NeedsPaused)
  BY <1>6 DEF MoneyInv, SatelliteIff, CancelAccounts, NeedsGraced, NeedsPaused
<1>9. QED
  BY <1>3, <1>7, <1>8 DEF CancelGuards, NeedsGraced, NeedsPaused

\* A clock that never steps back is never behind.
LEMMA NeverBehind ==
  ASSUME TimeInv, GraceWindow
  PROVE  FreezeInv
BY DEF TimeInv, EarnedOnly, FreezeInv, FrozenAfterStart, Live

LEMMA CancelIsOpen ==
  ASSUME IInv, GraceWindow, state \in Live, ~Shut, NEW signer \in CancelAuthority
  PROVE  CancelGuards(signer, NeedsGraced, NeedsPaused)
BY NeverBehind, SettledCancel DEF IInv, TimeInv

\* No choice of satellites opens a cancel that is shut from outside.
LEMMA ShutIsShut ==
  ASSUME MoneyInv, Shut, NEW signer, NEW g, NEW p
  PROVE  ~CancelGuards(signer, g, p)
<1>1. CASE ~merchantAtaOpen
  BY <1>1 DEF CancelGuards, CancelAccounts
<1>2. CASE gifts > 0
  BY <1>2, CancelLeavesNothing
<1>3. QED
  BY <1>1, <1>2 DEF Shut

\* Some choice of satellites lets this wallet cancel.
CancelOpenTo(signer) ==
  \E g \in BOOLEAN, p \in BOOLEAN : CancelGuards(signer, g, p)

\* While escrow is held, cancel is open to both parties, or to neither when a
\* token was sent straight to the vault or the merchant's account is gone:
\* what CancelOpenUnlessShut asks TLC for, with the guards for ENABLED.
THEOREM CancelOpensUnlessShut ==
  Spec => [](state \in Live =>
               \A signer \in CancelAuthority : CancelOpenTo(signer) <=> ~Shut)
<1>1. ASSUME IInv, GraceWindow, state \in Live, NEW signer \in CancelAuthority
      PROVE  CancelOpenTo(signer) <=> ~Shut
  <2>1. CASE Shut
    BY <1>1, <2>1, ShutIsShut DEF IInv, CancelOpenTo
  <2>2. CASE ~Shut
    <3>1. NeedsGraced \in BOOLEAN /\ NeedsPaused \in BOOLEAN
      BY DEF NeedsGraced, NeedsPaused
    <3>2. QED
      BY <1>1, <2>2, <3>1, CancelIsOpen DEF CancelOpenTo
  <2>3. QED
    BY <2>1, <2>2
<1>2. IInv /\ GraceWindow =>
        (state \in Live =>
           \A signer \in CancelAuthority : CancelOpenTo(signer) <=> ~Shut)
  BY <1>1
<1>3. QED
  BY <1>2, IInvHolds, GraceWindowHolds, PTL

\* On any clock, a subscription whose vault was sent a token is never closed
\* and its account never removed, by any sequence of instructions.
THEOREM GiftHolds == DriftSpec => GiftHoldsForGood
<1>1. AnyClockInv /\ [DriftNext]_vars =>
        (gifts > 0 => gifts' >= gifts /\ state' \in Live)
  <2> SUFFICES ASSUME MoneyInv, [DriftNext]_vars, gifts > 0
               PROVE  gifts' >= gifts /\ state' \in Live
    BY DEF AnyClockInv
  <2>1. state \in Live /\ gifts \in Nat
    BY EscrowAssumption DEF MoneyInv, EscrowExact, TypeOK
  <2>2. CASE AccountStep
    BY <2>1, <2>2
    DEF AccountStep, Subscribe, SubscribeAccounts, Cleanup, Live
  <2>3. CASE PartyCancel
    BY <2>3, CancelLeavesNothing DEF PartyCancel, Cancel
  <2>4. CASE SubscriberStep
    BY <2>1, <2>4
    DEF SubscriberStep, TopUp, TopUpTail, OpenSession, CloseSession, outside,
        Live
  <2>5. CASE MerchantStep \/ Tick \/ ClockBack
    BY <2>1, <2>5
    DEF MerchantStep, CreatePlan, Pause, Resume, Tick, ClockBack, outside, Live
  <2>6. CASE KeeperStep
    BY <2>1, <2>6 DEF KeeperStep, Charge, ChargeTail, outside, Live
  <2>7. CASE FacilitatorStep \/ \E a \in Recirculated : HandBack(a)
    BY <2>1, <2>7 DEF FacilitatorStep, SettleUsage, HandBack, outside
  <2>8. CASE TokenStep
    BY <2>1, <2>8, EscrowAssumption
    DEF TokenStep, Gift, CloseMerchantAta, ReopenMerchantAta
  <2>9. CASE UNCHANGED vars
    BY <2>1, <2>9 DEF vars
  <2>10. QED
    BY <2>2, <2>3, <2>4, <2>5, <2>6, <2>7, <2>8, <2>9 DEF DriftNext, Next, UseNext
<1>2. QED
  BY <1>1, AnyClockHolds, PTL DEF DriftSpec, GiftHoldsForGood

\* What Charge(attach) demands of the state, and what it makes of every
\* variable.
ChargeTotal == withdrawn + ClaimableAt(now)
ChargeGuards(attach) ==
  /\ ChargeAccounts(attach)
  /\ state = "Active"
  /\ now >= streamStart
  /\ ClaimableAt(now) > 0
  /\ vault >= ClaimableAt(now)
  /\ FitsI64(ChargeHint(ChargeTotal))
  /\ attach = (ChargeTotal = deposited)
  /\ attach => FitsI64(now + GraceDuration)
ChargeEffect(attach) ==
  /\ vault' = vault - ClaimableAt(now)
  /\ merchantAta' = merchantAta + ClaimableAt(now)
  /\ withdrawn' = ChargeTotal
  /\ nextChargeAt' = ChargeHint(ChargeTotal)
  /\ state' = IF attach THEN "GracePeriod" ELSE "Active"
  /\ enteredGraceAt' = IF attach THEN now ELSE enteredGraceAt
  /\ graceUntil' = IF attach THEN now + GraceDuration ELSE graceUntil
  /\ UNCHANGED <<now, plan, price, period, deposited, streamStart,
                 subscriberAta, gifts, merchantAtaOpen, pausedAt, facilitator,
                 usage, reservation>>

\* A charge is its guards and its effect, which gives every variable a value:
\* where the guards hold, the step exists.
LEMMA ChargeIsGuardedEffect ==
  ASSUME NEW attach \in BOOLEAN
  PROVE  Charge(attach) <=> ChargeGuards(attach) /\ ChargeEffect(attach)
BY DEF Charge, PayMerchant, ChargeTail, ChargeGuards, ChargeEffect, ChargeTotal,
       terms, graced, sessions, outside

\* The charge that brings the satellite exactly when it uses up the deposit
\* finds every guard open, on any clock that is not behind the anchor.
LEMMA ChargeIsOpen ==
  ASSUME MoneyInv, state = "Active", merchantAtaOpen, now >= streamStart,
         ClaimableAt(now) > 0, FitsI64(now + period), FitsI64(now + GraceDuration)
  PROVE  ChargeGuards(ChargeTotal = deposited)
<1>1. /\ state \in Live
      /\ price \in Nat \ {0} /\ period \in Nat \ {0} /\ deposited \in Nat
      /\ withdrawn \in Nat /\ now \in Nat /\ streamStart \in Nat
      /\ enteredGraceAt = Absent
  BY LiveNumbers DEF Live
<1>2. vault >= ClaimableAt(now) /\ ChargeTotal = UnlockedAt(now)
  BY <1>1, ClaimBounds, EscrowAssumption DEF ChargeTotal, Amount
<1>3. FitsI64(ChargeHint(ChargeTotal))
  <2> DEFINE seconds == now - streamStart
  <2>1. seconds \in Nat
    BY <1>1
  <2>2. /\ ChargeTotal \in Nat
        /\ ChargeTotal <= Accrued(seconds, price, period)
    BY <1>1, <1>2, <2>1, UnlockedBounds DEF UnlockedAt
  <2>3. CoveredSeconds(ChargeTotal, price, period) \in 0 .. seconds
    BY <1>1, <2>1, <2>2, CoveredBound
  <2>4. QED
    BY <1>1, <2>3, EscrowAssumption DEF ChargeHint, FitsI64
<1>4. QED
  BY <1>1, <1>2, <1>3 DEF ChargeGuards, ChargeAccounts

\* A clock that is behind the anchor has nothing to claim.
LEMMA NothingBeforeAnchor ==
  ASSUME MoneyInv, state = "Active", ClaimableAt(now) > 0
  PROVE  now >= streamStart
<1> DEFINE seconds == now - streamStart
<1>1. /\ price \in Nat \ {0} /\ period \in Nat \ {0} /\ deposited \in Nat
      /\ withdrawn \in Nat /\ now \in Nat /\ streamStart \in Nat
  BY LiveNumbers DEF Live
<1>2. seconds \in Int
  BY <1>1
<1>3. ClaimableAt(now) = Lesser((seconds * price) \div period, deposited) - withdrawn
  BY DEF ClaimableAt, UnlockedAt, Unlocked, Accrued
<1>4. (seconds * price) \div period > 0
  <2>1. (seconds * price) \div period \in Int
    BY <1>1, <1>2
  <2>2. QED
    BY <1>1, <1>3, <2>1 DEF Lesser
<1>5. seconds * price > 0
  <2>1. \A n \in Int, q \in Nat \ {0} : n \div q > 0 => n > 0
    OBVIOUS
  <2>2. seconds * price \in Int
    BY <1>1, <1>2
  <2>3. QED
    BY <1>1, <1>4, <2>1, <2>2
<1>6. seconds > 0
  <2>1. \A n \in Int, q \in Nat \ {0} : n * q > 0 => n > 0
    OBVIOUS
  <2>2. QED
    BY <1>1, <1>2, <1>5, <2>1
<1>7. QED
  BY <1>1, <1>6

\* Whenever an Active stream has something to claim, the merchant's account
\* exists and one more period and one grace fit the clock's type, charge is open
\* to the caller that attaches the grace satellite exactly when the charge uses
\* up the deposit, also on a clock that steps back: the enabledness that
\* ChargeNeverBricked asks TLC for.
THEOREM ChargeAlwaysOpen ==
  DriftSpec => []((/\ state = "Active" /\ merchantAtaOpen /\ ClaimableAt(now) > 0
                   /\ FitsI64(now + period) /\ FitsI64(now + GraceDuration))
                  => ChargeGuards(ChargeTotal = deposited))
<1>1. AnyClockInv => ((/\ state = "Active" /\ merchantAtaOpen
                       /\ ClaimableAt(now) > 0
                       /\ FitsI64(now + period) /\ FitsI64(now + GraceDuration))
                      => ChargeGuards(ChargeTotal = deposited))
  BY NothingBeforeAnchor, ChargeIsOpen DEF AnyClockInv
<1>2. QED
  BY <1>1, AnyClockHolds, PTL

-----------------------------------------------------------------------------
(***************************************************************************)
(* What a recovery from grace leaves claimable.                            *)
(***************************************************************************)
LEMMA RecoveryIsTopUp ==
  ASSUME DriftNext, state = "GracePeriod", state' = "Active"
  PROVE  \E a \in Amounts :
           /\ deposited' = deposited + a
           /\ streamStart' = streamStart + (now - enteredGraceAt)
           /\ UNCHANGED <<now, price, period, withdrawn>>
<1>1. ~AccountStep /\ ~MerchantStep /\ ~PartyCancel /\ ~KeeperStep
      /\ ~FacilitatorStep /\ ~Tick /\ ~ClockBack
      /\ ~(\E a \in Recirculated : HandBack(a)) /\ ~TokenStep
  BY DEF AccountStep, Subscribe, SubscribeAccounts, Cleanup, MerchantStep,
         CreatePlan, Pause, Resume, PartyCancel, Cancel, KeeperStep, Charge,
         FacilitatorStep, SettleUsage, Tick, ClockBack, HandBack, TokenStep,
         Gift, CloseMerchantAta, ReopenMerchantAta
<1>2. PICK a \in Amounts, attach \in BOOLEAN : TopUp(a, attach)
  BY <1>1 DEF DriftNext, Next, UseNext, SubscriberStep, OpenSession, CloseSession
<1>3. QED
  BY <1>2 DEF TopUp, TopUpTail, RecoveredStart, terms

\* "New funds stream from the recovery moment" (README) is true exactly when the
\* exhausting charge left no backlog; in general part of the top-up is claimable
\* at once, and this is how much, also on a clock that steps back.
THEOREM RecoveryExact == DriftSpec => RecoveryPaysBacklog
<1>1. AnyClockInv /\ [DriftNext]_vars =>
        (state = "GracePeriod" /\ state' = "Active" =>
           ClaimableAt(now)' = Lesser(Backlog, deposited' - deposited))
  <2> SUFFICES ASSUME AnyClockInv, DriftNext,
                      state = "GracePeriod", state' = "Active"
               PROVE  ClaimableAt(now)' = Lesser(Backlog, deposited' - deposited)
    BY DEF vars
  <2>1. PICK a \in Amounts :
           /\ deposited' = deposited + a
           /\ streamStart' = streamStart + (now - enteredGraceAt)
           /\ UNCHANGED <<now, price, period, withdrawn>>
    BY RecoveryIsTopUp
  <2>2. /\ price \in Nat /\ period \in Nat \ {0} /\ deposited \in Nat /\ a \in Nat
        /\ now \in Nat /\ streamStart \in Nat /\ enteredGraceAt \in Nat
        /\ Metered \in Nat /\ Metered = enteredGraceAt - streamStart
        /\ withdrawn = deposited /\ Accrued(Metered, price, period) >= deposited
    BY LiveNumbers, EscrowAssumption
    DEF Live, AnyClockInv, FreezeInv, FrozenAfterStart, GraceIsExhausted,
        Metered, ServiceEnd
  <2>3. \A n \in Nat, s \in Nat, e \in Nat : n - (s + (n - e)) = e - s
    OBVIOUS
  <2>4. now' - streamStart' = Metered
    BY <2>1, <2>2, <2>3
  <2>5. ClaimableAt(now)' = Lesser(Accrued(Metered, price, period), deposited + a)
                              - deposited
    BY <2>1, <2>2, <2>4 DEF ClaimableAt, UnlockedAt, Unlocked, Lesser, Accrued
  <2>6. Accrued(Metered, price, period) \in Nat
    BY <2>2, UnlockedBounds
  <2>7. \A x \in Nat, d \in Nat : Lesser(x, d + a) - d = Lesser(x - d, (d + a) - d)
    BY <2>2 DEF Lesser
  <2>8. QED
    BY <2>1, <2>2, <2>5, <2>6, <2>7 DEF Backlog
<1>2. QED
  BY <1>1, AnyClockHolds, PTL DEF DriftSpec, RecoveryPaysBacklog

-----------------------------------------------------------------------------
(***************************************************************************)
(* The escrow implements the service meter of StreamMeter: one lemma per   *)
(* instruction, on the inductive invariant above.                          *)
(***************************************************************************)
\* The meter's copy of the streaming arithmetic is the escrow's.
LEMMA SameEarned == Meter!Earned = Unlocked(Metered, price, period, deposited)
BY DEF Meter!Earned, Meter!Unlocked, Meter!Lesser, Meter!Accrued,
       Unlocked, Lesser, Accrued

LEMMA InitRefines == Init => Meter!MInit
BY EscrowAssumption
DEF Init, Meter!MInit, Phase, Metered, ServiceEnd, Pot, Absent

LEMMA SubscribeRefines ==
  ASSUME MoneyInv, MoneyInv', NEW n \in Periods, Subscribe(n)
  PROVE  Meter!Open
<1>1. Metered' = 0
  BY TimeSubscribe
<1>2. /\ Phase = "none" /\ Phase' = "running"
  BY DEF Subscribe, SubscribeAccounts, NewSubscription, Phase
<1>3. /\ withdrawn' = 0 /\ vault' = deposited'
      /\ subscriberAta' = subscriberAta - deposited'
      /\ deposited' <= subscriberAta
      /\ merchantAta' = merchantAta
  BY DEF Subscribe, SubscribeAccounts, NewSubscription
<1>4. /\ price' \in Nat \ {0} /\ period' \in Nat \ {0}
  BY EscrowAssumption
  DEF Subscribe, SubscribeAccounts, NewSubscription, MoneyInv, TypeOK,
      PositiveTerms, Amount, Timestamp
<1>5. deposited' \in 1 .. subscriberAta
  <2>1. plan.price \in Nat \ {0} /\ n \in Nat \ {0} /\ subscriberAta \in Nat
    BY <1>4, EscrowAssumption DEF Subscribe, SubscribeAccounts,
        NewSubscription, MoneyInv, TypeOK
  <2>2. plan.price * n \in Nat \ {0}
    BY <2>1
  <2>3. deposited' = plan.price * n
    BY DEF Subscribe, SubscribeAccounts, NewSubscription
  <2>4. QED
    BY <1>3, <2>1, <2>2, <2>3
<1>6. Pot' = deposited'
  <2>1. gifts' = 0
    BY DEF Subscribe, SubscribeAccounts, NewSubscription, outside, MoneyInv,
        EscrowExact, Live
  <2>2. Pot' = vault' - gifts'
    BY NextPotNumbers DEF Subscribe, NewSubscription, Live
  <2>3. deposited' \in Nat
    BY <1>5 DEF MoneyInv, TypeOK
  <2>4. \A m \in Nat : m - 0 = m
    OBVIOUS
  <2>5. QED
    BY <1>3, <2>1, <2>2, <2>3, <2>4
<1>7. QED
  BY <1>1, <1>2, <1>3, <1>4, <1>5, <1>6 DEF Meter!Open

\* A draw of any positive amount within the entitlement, leaving the stream
\* running or, when it takes the whole deposit, in grace.
LEMMA DrawRefines ==
  ASSUME MoneyInv, TimeInv, state = "Active", NEW a \in Nat \ {0},
         withdrawn' = withdrawn + a,
         withdrawn + a <= Unlocked(Metered, price, period, deposited),
         vault' = vault - a, merchantAta' = merchantAta + a,
         Metered' = Metered,
         UNCHANGED <<price, period, deposited, subscriberAta, gifts>>,
         \/ state' = "Active"
         \/ state' = "GracePeriod" /\ withdrawn' = deposited
  PROVE  Meter!Draw
<1>1. /\ Phase = "running"
      /\ Phase' = "running" \/ (Phase' = "frozen" /\ withdrawn' = deposited)
  BY DEF Phase
<1>2. /\ price \in Nat /\ period \in Nat \ {0} /\ deposited \in Nat
      /\ withdrawn \in Nat /\ withdrawn <= deposited /\ merchantAta \in Nat
      /\ Metered \in Nat
  BY LiveNumbers DEF Live, TimeInv, EarnedOnly, Metered, MoneyInv, TypeOK
<1>3. /\ Unlocked(Metered, price, period, deposited) \in Nat
      /\ Unlocked(Metered, price, period, deposited) <= deposited
  BY <1>2, UnlockedBounds
<1>4. vault = deposited - withdrawn + gifts /\ gifts \in Nat
  BY EscrowAssumption DEF MoneyInv, TypeOK, EscrowExact, Live
<1>5. Pot = vault - gifts /\ Pot' = vault - a - gifts
  BY <1>2, <1>3, <1>4 DEF Pot, Absent
<1>6. withdrawn' \in (withdrawn + 1) .. Unlocked(Metered, price, period,
deposited)
  BY <1>2, <1>3
<1>7. withdrawn' - withdrawn = a
  BY <1>2
<1>8. /\ Pot' = Pot - (withdrawn' - withdrawn)
      /\ merchantAta' = merchantAta + (withdrawn' - withdrawn)
  BY <1>2, <1>4, <1>5, <1>7
<1>9. Metered' = Metered /\ UNCHANGED <<price, period, deposited,
subscriberAta>>
  OBVIOUS
<1>10. Meter!Earned = Unlocked(Metered, price, period, deposited)
  BY SameEarned
<1>11. QED
  BY <1>1, <1>6, <1>8, <1>9, <1>10, Zenon DEF Meter!Draw

LEMMA ChargeRefines ==
  ASSUME MoneyInv, MoneyInv', TimeInv, NEW attach \in BOOLEAN, Charge(attach)
  PROVE  Meter!Draw
<1>1. /\ state = "Active" /\ state \in Live /\ now >= streamStart
      /\ ClaimableAt(now) > 0
      /\ withdrawn' = withdrawn + ClaimableAt(now)
      /\ vault' = vault - ClaimableAt(now)
      /\ merchantAta' = merchantAta + ClaimableAt(now)
      /\ UNCHANGED <<price, period, deposited, subscriberAta, gifts>>
  BY DEF Charge, PayMerchant, Live, terms, outside
<1>2. \/ state' = "Active"
      \/ state' = "GracePeriod" /\ withdrawn' = deposited
  BY <1>1 DEF Charge, PayMerchant, ChargeTail
<1>3. Metered' = Metered
  BY TimeCharge
<1>4. /\ ClaimableAt(now) \in Nat \ {0}
      /\ withdrawn + ClaimableAt(now) = UnlockedAt(now)
  <2>1. now \in Int /\ withdrawn \in Nat
    BY EscrowAssumption DEF MoneyInv, TypeOK, Amount
  <2>2. UnlockedAt(now) \in Nat /\ ClaimableAt(now) = UnlockedAt(now) - withdrawn
    BY <1>1, <2>1, ClaimBounds
  <2>3. QED
    BY <1>1, <2>1, <2>2
<1>5. UnlockedAt(now) = Unlocked(Metered, price, period, deposited)
  BY <1>1 DEF UnlockedAt, Metered, ServiceEnd
<1>6. UnlockedAt(now) \in Nat
  BY <1>1, ClaimBounds, EscrowAssumption DEF MoneyInv, TypeOK
<1>7. withdrawn + ClaimableAt(now) <= Unlocked(Metered, price, period, deposited)
  BY <1>4, <1>5, <1>6
<1>8. QED
  BY <1>1, <1>2, <1>3, <1>4, <1>7, DrawRefines

LEMMA SettleUsageRefines ==
  ASSUME MoneyInv, MoneyInv', TimeInv, NEW s \in SessionIds,
         NEW f \in Facilitators, NEW a \in Amounts, SettleUsage(s, f, a)
  PROVE  Meter!Draw
<1>1. /\ state = "Active" /\ state' = "Active" /\ a \in Nat \ {0}
      /\ withdrawn' = withdrawn + a
      /\ vault' = vault - a /\ merchantAta' = merchantAta + a
      /\ UNCHANGED <<price, period, deposited, subscriberAta, gifts>>
  BY EscrowAssumption DEF SettleUsage, PayMerchant, terms, outside
<1>2. /\ Metered' = Metered
      /\ withdrawn + a <= Unlocked(Metered, price, period, deposited)
  BY TimeSettleUsage
<1>3. QED
  BY <1>1, <1>2, DrawRefines

LEMMA TopUpRefines ==
  ASSUME MoneyInv, MoneyInv', TimeInv, NEW a \in Amounts,
  NEW attach \in BOOLEAN,
         TopUp(a, attach)
  PROVE  Meter!Add
<1>1. Metered' = Metered
  BY TimeTopUp
<1>2. /\ state \in Live /\ a \in Nat \ {0} /\ a <= subscriberAta
      /\ deposited' = deposited + a /\ vault' = vault + a
      /\ subscriberAta' = subscriberAta - a
      /\ UNCHANGED <<price, period, withdrawn, merchantAta, gifts>>
  BY EscrowAssumption DEF TopUp, TopUpStates, terms, outside
<1>3. /\ deposited \in Nat /\ subscriberAta \in Nat
      /\ vault \in Nat /\ gifts \in Nat
  BY <1>2, EscrowAssumption DEF MoneyInv, TypeOK, EscrowExact, Amount, Absent
<1>4. /\ Phase \in {"running", "frozen"}
      /\ Phase' = Phase \/ Phase' = "running"
  BY <1>2 DEF TopUp, TopUpStates, TopUpTail, Phase, Live
<1>5. /\ deposited' \in (deposited + 1) .. (deposited + subscriberAta)
      /\ deposited' - deposited = a
  BY <1>2, <1>3
<1>6. Pot = vault - gifts /\ Pot' = vault + a - gifts
  BY <1>2, <1>3 DEF Pot, Absent
<1>7. Pot' = Pot + (deposited' - deposited)
  BY <1>2, <1>3, <1>5, <1>6
<1>8. QED
  BY <1>1, <1>2, <1>4, <1>5, <1>7 DEF Meter!Add

LEMMA PauseRefines ==
  ASSUME MoneyInv, MoneyInv', TimeInv, Pause
  PROVE  Meter!Freeze
<1>1. Metered' = Metered
  BY TimePauseResume
<1>2. QED
  BY <1>1 DEF Pause, Meter!Freeze, Phase, Pot, terms, tokens, outside

LEMMA ResumeRefines ==
  ASSUME MoneyInv, MoneyInv', TimeInv, Resume
  PROVE  Meter!Thaw
<1>1. Metered' = Metered
  BY TimePauseResume
<1>2. QED
  BY <1>1 DEF Resume, Meter!Thaw, Phase, Pot, terms, tokens, outside

LEMMA CancelRefines ==
  ASSUME MoneyInv, MoneyInv', TimeInv, GraceWindow, NEW signer \in Signers,
         NEW g \in BOOLEAN, NEW p \in BOOLEAN, Cancel(signer, g, p)
  PROVE  Meter!Close
<1> DEFINE earned == Unlocked(Metered, price, period, deposited)
<1>1. /\ state \in Live /\ EffectiveNow >= streamStart /\ state' = "Cancelled"
      /\ vault' = Absent /\ streamStart' = streamStart
      /\ UNCHANGED <<price, period, deposited>>
  BY DEF Cancel, CancelGuards, FinalClaimable, Refund, terms
<1>2. UnlockedAt(EffectiveNow) = earned
  BY <1>1, NeverBehind, SettlementMetered DEF TimeInv
<1>3. /\ withdrawn' = withdrawn + (earned - withdrawn)
      /\ merchantAta' = merchantAta + (earned - withdrawn)
      /\ subscriberAta' = subscriberAta + (deposited - earned)
  BY <1>2 DEF Cancel, CancelGuards, FinalClaimable, Refund
<1>4. withdrawn \in Nat /\ earned \in Nat /\ streamStart \in Nat
  <2>1. /\ price \in Nat /\ period \in Nat \ {0} /\ deposited \in Nat
        /\ withdrawn \in Nat /\ Metered \in Nat /\ streamStart \in Nat
    BY <1>1, LiveNumbers DEF TimeInv, EarnedOnly, Metered
  <2>2. QED
    BY <2>1, UnlockedBounds
<1> HIDE DEF earned
<1>5. withdrawn' = earned
  BY <1>3, <1>4
<1>6. Metered' = 0
  <2>1. Metered' = streamStart - streamStart
    BY <1>1 DEF Metered, ServiceEnd
  <2>2. QED
    BY <1>4, <2>1
<1>7. Phase \in {"running", "frozen"} /\ Phase' = "closed" /\ Pot' = 0
  BY <1>1 DEF Phase, Pot, Live
<1>8. Meter!Earned = earned
  BY SameEarned DEF earned
<1>9. QED
  BY <1>1, <1>3, <1>5, <1>6, <1>7, <1>8, Zenon DEF Meter!Close, Meter!Owed

LEMMA CleanupRefines ==
  ASSUME MoneyInv, Cleanup
  PROVE  Meter!Discard
<1>1. streamStart \in Nat
  BY EscrowAssumption DEF MoneyInv, TypeOK, Timestamp
<1>2. Metered = streamStart - streamStart /\ Metered' = 0 - 0
  BY DEF Cleanup, Metered, ServiceEnd
<1>3. Metered' = Metered
  BY <1>1, <1>2
<1>4. Phase = "closed" /\ Phase' = "none" /\ Pot' = Pot
  BY DEF Cleanup, Phase, Pot, tokens, outside
<1>5. QED
  BY <1>3, <1>4 DEF Cleanup, Meter!Discard, tokens

LEMMA TickRefines ==
  ASSUME MoneyInv, TimeInv, Tick
  PROVE  Meter!Run \/ UNCHANGED Meter!mvars
<1>1. /\ UNCHANGED <<state, price, period, deposited, withdrawn, vault,
                     subscriberAta, merchantAta>>
      /\ Phase' = Phase /\ Pot' = Pot
  BY DEF Tick, terms, tokens, Phase, Pot, outside
<1>2. Metered' = IF state = "Active" THEN Metered + 1 ELSE Metered
  BY TimeTick
<1>3. CASE state = "Active"
  BY <1>1, <1>2, <1>3 DEF Meter!Run, Phase
<1>4. CASE state # "Active"
  BY <1>1, <1>2, <1>4 DEF Meter!mvars
<1>5. QED
  BY <1>3, <1>4

LEMMA HandBackRefines ==
  ASSUME MoneyInv, TimeInv, NEW a \in Recirculated, HandBack(a)
  PROVE  Meter!Outside
<1>1. Metered' = Metered /\ Phase' = Phase /\ Pot' = Pot
  BY TimeUntouched DEF HandBack, terms, hint, satellites, Phase, Pot, outside
<1>2. merchantAta \in Nat /\ subscriberAta \in Nat /\ a \in Nat
  BY EscrowAssumption DEF MoneyInv, TypeOK
<1>3. /\ merchantAta' \in 0 .. merchantAta
      /\ subscriberAta' = subscriberAta + (merchantAta - merchantAta')
  BY <1>2 DEF HandBack
<1>4. QED
  BY <1>1, <1>3 DEF HandBack, Meter!Outside, terms

\* Instructions that only touch the plan or the sessions.
LEMMA SilentRefines ==
  ASSUME MoneyInv, TimeInv,
         UNCHANGED <<now, state, price, period, deposited, withdrawn,
                     streamStart, nextChargeAt, Pot, subscriberAta,
                     merchantAta, enteredGraceAt, pausedAt>>
  PROVE  UNCHANGED Meter!mvars
<1>1. Metered' = Metered
  BY TimeUntouched
<1>2. QED
  BY <1>1 DEF Meter!mvars, Phase

LEMMA StepRefines ==
  IInv /\ IInv' /\ GraceWindow /\ [Next]_vars => [Meter!MNext]_(Meter!mvars)
<1> SUFFICES ASSUME MoneyInv, MoneyInv', TimeInv, GraceWindow, [Next]_vars
             PROVE  [Meter!MNext]_(Meter!mvars)
  BY DEF IInv
<1>0. CASE AccountStep
  BY <1>0, SubscribeRefines, CleanupRefines DEF AccountStep, Meter!MNext
<1>1. CASE SubscriberStep
  <2>1. ASSUME NEW s \in SessionIds, NEW f \in Facilitators,
               NEW cap \in Amounts \cup {0}, OpenSession(s, f, cap)
        PROVE  UNCHANGED Meter!mvars
    BY <2>1, SilentRefines
    DEF OpenSession, Pot, terms, hint, tokens, satellites, outside
  <2>2. ASSUME NEW s \in SessionIds, CloseSession(s)
        PROVE  UNCHANGED Meter!mvars
    BY <2>2, SilentRefines
    DEF CloseSession, Pot, terms, hint, tokens, satellites, outside
  <2>3. QED
    BY <1>1, <2>1, <2>2, TopUpRefines DEF SubscriberStep, Meter!MNext
<1>2. CASE MerchantStep
  <2>1. ASSUME NEW t \in Terms, CreatePlan(t)
        PROVE  UNCHANGED Meter!mvars
    BY <2>1, SilentRefines
    DEF CreatePlan, Pot, terms, hint, tokens, satellites, outside
  <2>2. QED
    BY <1>2, <2>1, PauseRefines, ResumeRefines DEF MerchantStep, Meter!MNext
<1>3. CASE PartyCancel
  BY <1>3, CancelRefines DEF PartyCancel, Meter!MNext
<1>4. CASE KeeperStep
  BY <1>4, ChargeRefines DEF KeeperStep, Meter!MNext
<1>5. CASE FacilitatorStep
  BY <1>5, SettleUsageRefines DEF FacilitatorStep, Meter!MNext
<1>6. CASE Tick
  BY <1>6, TickRefines DEF Meter!MNext
<1>7. CASE \E a \in Recirculated : HandBack(a)
  BY <1>7, HandBackRefines DEF Meter!MNext
<1>8. CASE TokenStep
  <2>1. Pot' = Pot
    <3>1. CASE \E a \in 1 .. MaxGifts : Gift(a)
      <4>1. PICK a \in 1 .. MaxGifts : Gift(a)
        BY <3>1
      <4>2. /\ vault' = vault + a /\ gifts' = gifts + a /\ a \in Nat
            /\ state' = state
        BY <4>1, EscrowAssumption DEF Gift
      <4>3. /\ vault \in Nat /\ gifts \in Nat
            /\ Pot = vault - gifts /\ Pot' = vault' - gifts'
        BY <4>1, <4>2, PotNumbers, NextPotNumbers DEF Gift
      <4>4. QED
        BY <4>2, <4>3
    <3>2. CASE CloseMerchantAta \/ ReopenMerchantAta
      BY <3>2 DEF CloseMerchantAta, ReopenMerchantAta, tokens, Pot
    <3>3. QED
      BY <1>8, <3>1, <3>2 DEF TokenStep
  <2>2. QED
    BY <1>8, <2>1, SilentRefines
    DEF TokenStep, Gift, CloseMerchantAta, ReopenMerchantAta, terms, hint,
        tokens, satellites
<1>9. CASE UNCHANGED vars
  BY <1>9, SilentRefines DEF vars, Pot
<1>10. QED
  BY <1>0, <1>1, <1>2, <1>3, <1>4, <1>5, <1>6, <1>7, <1>8, <1>9
  DEF Next, UseNext

\* On a clock that does not step back, every behaviour of the program is a
\* behaviour of the service meter: charge, settle_usage and cancel pay by the
\* seconds the stream was Active, however pauses and recoveries move the anchor.
THEOREM EscrowImplementsMeter == Spec => MeteredStream
BY InitRefines, GraceWindowHolds, IInvHolds, StepRefines, PTL
DEF Spec, MeteredStream, Meter!MSpec

=============================================================================
