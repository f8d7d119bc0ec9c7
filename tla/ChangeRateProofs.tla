--------------------------- MODULE ChangeRateProofs ---------------------------
(***************************************************************************)
(* Proofs about ChangeRate, for every choice of its constants: any number  *)
(* of migrations under way.  The lemmas of EscrowProofs serve both         *)
(* addresses: as they stand for the old one, instantiated for the new one. *)
(***************************************************************************)
EXTENDS ChangeRate, EscrowProofs

NewP == INSTANCE EscrowProofs WITH
  plan <- newPlan, state <- newState, price <- newPrice, period <- newPeriod,
  deposited <- newDeposited, withdrawn <- newWithdrawn,
  streamStart <- newStart, nextChargeAt <- newHint, vault <- newVault,
  gifts <- newGifts,
  enteredGraceAt <- newEnteredGraceAt, graceUntil <- newGraceUntil,
  pausedAt <- newPausedAt, facilitator <- newFacilitator, usage <- newUsage,
  reservation <- newReservation

-----------------------------------------------------------------------------
(***************************************************************************)
(* New and NewP are two instances of one module.                           *)
(***************************************************************************)
LEMMA SameInit ==
  New!Init <=> NewP!Init
BY
  DEF New!Init, NewP!Init, New!Absent, NewP!Absent

LEMMA SameNewSubscription ==
  ASSUME NEW n, NEW wallet
  PROVE  New!NewSubscription(n, wallet) <=> NewP!NewSubscription(n, wallet)
BY
  DEF New!NewSubscription, NewP!NewSubscription, New!FitsU64, NewP!FitsU64,
      New!FitsI64, NewP!FitsI64, New!outside, NewP!outside

LEMMA SameSubscribe ==
  ASSUME NEW n
  PROVE  New!Subscribe(n) <=> NewP!Subscribe(n)
BY
  DEF New!Subscribe, NewP!Subscribe, New!SubscribeAccounts,
      NewP!SubscribeAccounts, New!NewSubscription, NewP!NewSubscription,
      New!FitsU64, NewP!FitsU64, New!FitsI64, NewP!FitsI64, New!Absent,
      NewP!Absent, New!terms, NewP!terms, New!hint, NewP!hint, New!tokens,
      NewP!tokens, New!graced, NewP!graced, New!satellites, NewP!satellites,
      New!sessions, NewP!sessions, New!outside, NewP!outside

LEMMA SameCreatePlan ==
  ASSUME NEW t
  PROVE  New!CreatePlan(t) <=> NewP!CreatePlan(t)
BY
  DEF New!CreatePlan, NewP!CreatePlan, New!Absent, NewP!Absent, New!terms,
      NewP!terms, New!hint, NewP!hint, New!tokens, NewP!tokens, New!graced,
      NewP!graced, New!satellites, NewP!satellites, New!sessions,
      NewP!sessions, New!outside, NewP!outside

LEMMA SameCleanup ==
  New!Cleanup <=> NewP!Cleanup
BY
  DEF New!Cleanup, NewP!Cleanup, New!Absent, NewP!Absent, New!terms,
      NewP!terms, New!hint, NewP!hint, New!tokens, NewP!tokens, New!graced,
      NewP!graced, New!satellites, NewP!satellites, New!sessions,
      NewP!sessions, New!outside, NewP!outside

LEMMA SameCharge ==
  ASSUME NEW attach
  PROVE  New!Charge(attach) <=> NewP!Charge(attach)
BY
  DEF New!Charge, NewP!Charge, New!ChargeAccounts, NewP!ChargeAccounts,
      New!PayMerchant, NewP!PayMerchant, New!ChargeTail, NewP!ChargeTail,
      New!ChargeHint, NewP!ChargeHint, New!CoveredSeconds,
      NewP!CoveredSeconds, New!FitsI64, NewP!FitsI64, New!Unlocked,
      NewP!Unlocked, New!Accrued, NewP!Accrued, New!Lesser, NewP!Lesser,
      New!UnlockedAt, NewP!UnlockedAt, New!ClaimableAt, NewP!ClaimableAt,
      New!Absent, NewP!Absent, New!terms, NewP!terms, New!hint, NewP!hint,
      New!tokens, NewP!tokens, New!graced, NewP!graced, New!satellites,
      NewP!satellites, New!sessions, NewP!sessions, New!outside, NewP!outside

LEMMA SameCancel ==
  ASSUME NEW signer, NEW g, NEW p
  PROVE  New!Cancel(signer, g, p) <=> NewP!Cancel(signer, g, p)
BY
  DEF New!Cancel, NewP!Cancel, New!CancelGuards, NewP!CancelGuards,
      New!CancelAccounts, NewP!CancelAccounts, New!CancelAuthority,
      NewP!CancelAuthority, New!Live, NewP!Live, New!EffectiveNow,
      NewP!EffectiveNow, New!FinalClaimable, NewP!FinalClaimable, New!Refund,
      NewP!Refund, New!Unlocked, NewP!Unlocked, New!Accrued, NewP!Accrued,
      New!Lesser, NewP!Lesser, New!UnlockedAt, NewP!UnlockedAt,
      New!ClaimableAt, NewP!ClaimableAt, New!Absent, NewP!Absent, New!terms,
      NewP!terms, New!hint, NewP!hint, New!tokens, NewP!tokens, New!graced,
      NewP!graced, New!satellites, NewP!satellites, New!sessions,
      NewP!sessions, New!outside, NewP!outside

LEMMA SameGift ==
  ASSUME NEW a
  PROVE  New!Gift(a) <=> NewP!Gift(a)
BY
  DEF New!Gift, NewP!Gift, New!FitsU64, NewP!FitsU64, New!Absent, NewP!Absent,
      New!terms, NewP!terms, New!hint, NewP!hint, New!graced, NewP!graced,
      New!satellites, NewP!satellites, New!sessions, NewP!sessions

-----------------------------------------------------------------------------
(***************************************************************************)
(* Both escrows, and the tokens between them.                              *)
(***************************************************************************)
BothMoney ==
  /\ MoneyInv
  /\ NewP!MoneyInv
  /\ Pot + NewP!Tokens = Funding

\* Steps of one address leave the other one as it is, shared wallets and
\* clock apart.
LEMMA NewKept ==
  ASSUME NewP!MoneyInv, MoneyInv', UNCHANGED newOnly
  PROVE  NewP!MoneyInv' /\ NewP!Pot' = NewP!Pot
<1>1. /\ now' \in 0 .. MaxTime /\ subscriberAta' \in Nat /\ merchantAta' \in Nat
      /\ merchantAtaOpen' \in BOOLEAN
  BY DEF MoneyInv, TypeOK
<1>2. /\ UNCHANGED <<newPlan, newState, newPrice, newPeriod, newDeposited>>
      /\ UNCHANGED <<newWithdrawn, newStart, newHint, newVault, newGifts>>
      /\ UNCHANGED <<newEnteredGraceAt, newGraceUntil, newPausedAt>>
      /\ UNCHANGED <<newFacilitator, newUsage, newReservation>>
  BY DEF newOnly, newSatellites, newSessions
<1>3. NewP!MoneyInv'
  BY <1>1, <1>2
  DEF NewP!MoneyInv, NewP!TypeOK, NewP!EscrowExact, NewP!SatelliteIff,
      NewP!PositiveTerms, NewP!SubscriptionState, NewP!Amount, NewP!Timestamp,
      NewP!Absent, NewP!Live
<1>4. QED
  BY <1>2, <1>3 DEF NewP!Pot, NewP!Absent

LEMMA OldKept ==
  ASSUME MoneyInv, NewP!MoneyInv', UNCHANGED oldOnly
  PROVE  MoneyInv' /\ Pot' = Pot
<1>1. /\ now' \in 0 .. MaxTime /\ subscriberAta' \in Nat /\ merchantAta' \in Nat
      /\ merchantAtaOpen' \in BOOLEAN
  BY DEF NewP!MoneyInv, NewP!TypeOK
<1>2. /\ UNCHANGED <<plan, state, price, period, deposited, withdrawn>>
      /\ UNCHANGED <<streamStart, nextChargeAt, vault, gifts>>
      /\ UNCHANGED <<enteredGraceAt, graceUntil, pausedAt>>
      /\ UNCHANGED <<facilitator, usage, reservation>>
  BY DEF oldOnly, terms, hint, satellites, sessions
<1>3. MoneyInv'
  BY <1>1, <1>2
  DEF MoneyInv, TypeOK, EscrowExact, SatelliteIff, PositiveTerms,
      SubscriptionState, Amount, Timestamp, Absent, Live
<1>4. QED
  BY <1>2, <1>3 DEF Pot, Absent

\* The sum, seen from either address.
LEMMA TwoPots ==
  ASSUME MoneyInv, NewP!MoneyInv
  PROVE  /\ Pot \in Nat /\ NewP!Pot \in Nat
         /\ subscriberAta \in Nat /\ merchantAta \in Nat
         /\ Tokens \in Nat /\ NewP!Tokens \in Nat
         /\ Pot + NewP!Tokens = Tokens + NewP!Pot
<1>1. /\ Pot \in Nat /\ NewP!Pot \in Nat
      /\ subscriberAta \in Nat /\ merchantAta \in Nat
  BY PotNumbers, NewP!PotNumbers, EscrowAssumption, NewP!EscrowAssumption
<1>2. QED
  BY <1>1 DEF Tokens, NewP!Tokens

LEMMA NextTwoPots ==
  ASSUME MoneyInv', NewP!MoneyInv'
  PROVE  /\ Pot' \in Nat /\ NewP!Pot' \in Nat
         /\ subscriberAta' \in Nat /\ merchantAta' \in Nat
         /\ Pot' + NewP!Tokens' = Tokens' + NewP!Pot'
<1>1. /\ Pot' \in Nat /\ NewP!Pot' \in Nat
  BY NextPotNumbers, NewP!NextPotNumbers, EscrowAssumption,
     NewP!EscrowAssumption
<1>2. subscriberAta' \in Nat /\ merchantAta' \in Nat
  BY DEF MoneyInv, TypeOK
<1>3. \A a \in Nat, b \in Nat, x \in Nat, y \in Nat :
        a + (b + x + y) = (a + x + y) + b
  OBVIOUS
<1>4. QED
  BY <1>1, <1>2, <1>3 DEF Tokens, NewP!Tokens

\* Instructions on the old subscription.
LEMMA BothOld ==
  ASSUME BothMoney, Next, UNCHANGED newOnly
  PROVE  BothMoney'
<1>1. [DriftNext]_vars
  BY DEF DriftNext
<1>2. MoneyInv'
  BY <1>1, MoneyStep DEF BothMoney
<1>3. NewP!MoneyInv' /\ NewP!Pot' = NewP!Pot
  BY <1>2, NewKept DEF BothMoney
<1>4. Tokens' = Tokens
  BY <1>1, <1>2, TokensStep DEF BothMoney
<1>5. Pot' + NewP!Tokens' = Pot + NewP!Tokens
  BY <1>2, <1>3, <1>4, TwoPots, NextTwoPots DEF BothMoney
<1>6. QED
  BY <1>2, <1>3, <1>5 DEF BothMoney

\* Instructions on the new subscription.
LEMMA BothNew ==
  ASSUME BothMoney, UNCHANGED oldOnly,
         \/ \E t \in Terms : New!CreatePlan(t)
         \/ New!KeeperStep
         \/ New!PartyCancel
         \/ New!Cleanup
         \/ \E a \in 1 .. MaxGifts : New!Gift(a)
         \/ \E n \in Periods : New!Subscribe(n)
  PROVE  BothMoney'
<1> USE EscrowAssumption, NewP!EscrowAssumption
<1>1. NewP!MoneyInv
  BY DEF BothMoney
<1>2. NewP!MoneyInv' /\ NewP!Tokens' = NewP!Tokens
  <2>1. ASSUME NEW t \in Terms, New!CreatePlan(t)
        PROVE  NewP!MoneyInv' /\ NewP!Tokens' = NewP!Tokens
    <3>1. NewP!CreatePlan(t)
      BY <2>1, SameCreatePlan
    <3>2. NewP!MoneyInv'
      BY <1>1, <3>1, NewP!MoneyCreatePlan
    <3>3. UNCHANGED <<newVault, newGifts, subscriberAta, merchantAta>>
      BY <3>1 DEF NewP!CreatePlan, NewP!tokens, NewP!outside
    <3>4. QED
      BY <3>2, <3>3, NewP!TokensUntouched
  <2>2. ASSUME NEW attach \in BOOLEAN, New!Charge(attach)
        PROVE  NewP!MoneyInv' /\ NewP!Tokens' = NewP!Tokens
    <3>1. NewP!Charge(attach)
      BY <2>2, SameCharge
    <3>2. NewP!MoneyInv'
      BY <1>1, <3>1, NewP!MoneyCharge
    <3>3. QED
      BY <1>1, <3>1, <3>2, NewP!TokensCharge
  <2>3. ASSUME NEW signer \in Signers, NEW g \in BOOLEAN, NEW p \in BOOLEAN,
               New!Cancel(signer, g, p)
        PROVE  NewP!MoneyInv' /\ NewP!Tokens' = NewP!Tokens
    <3>1. NewP!Cancel(signer, g, p)
      BY <2>3, SameCancel
    <3>2. NewP!MoneyInv'
      BY <1>1, <3>1, NewP!MoneyCancel
    <3>3. QED
      BY <1>1, <3>1, <3>2, NewP!TokensCancel
  <2>4. CASE New!Cleanup
    <3>1. NewP!Cleanup
      BY <2>4, SameCleanup
    <3>2. NewP!MoneyInv'
      BY <1>1, <3>1, NewP!MoneyCleanup
    <3>3. UNCHANGED <<newVault, newGifts, subscriberAta, merchantAta>>
      BY <3>1 DEF NewP!Cleanup, NewP!tokens, NewP!outside
    <3>4. QED
      BY <3>2, <3>3, NewP!TokensUntouched
  <2>5. ASSUME NEW n \in Periods, New!Subscribe(n)
        PROVE  NewP!MoneyInv' /\ NewP!Tokens' = NewP!Tokens
    <3>1. NewP!Subscribe(n)
      BY <2>5, SameSubscribe
    <3>2. NewP!MoneyInv'
      BY <1>1, <3>1, NewP!MoneySubscribe
    <3>3. QED
      BY <1>1, <3>1, <3>2, NewP!TokensSubscribe
  <2>6. ASSUME NEW a \in 1 .. MaxGifts, New!Gift(a)
        PROVE  NewP!MoneyInv' /\ NewP!Tokens' = NewP!Tokens
    <3>1. NewP!Gift(a)
      BY <2>6, SameGift
    <3>2. NewP!MoneyInv'
      BY <1>1, <3>1, NewP!MoneyGift
    <3>3. QED
      BY <1>1, <3>1, <3>2, NewP!TokensGift
  <2>7. QED
    BY <2>1, <2>2, <2>3, <2>4, <2>5, <2>6 DEF New!KeeperStep, New!PartyCancel
<1>3. MoneyInv' /\ Pot' = Pot
  BY <1>2, OldKept DEF BothMoney
<1>4. QED
  BY <1>2, <1>3 DEF BothMoney

\* The account that cancel and cleanup leave behind is none at all: no
\* satellite outlives it, whatever the builder attached.
LEMMA OldGone ==
  ASSUME MoneyInv, NEW closes, NEW attached, NEW n, subscriberAta' \in Nat,
         Migration(closes, attached, n), now' = now
  PROVE  /\ MoneyInv' /\ Pot' = 0 /\ state' = "None" /\ enteredGraceAt' = Absent
<1>1. /\ CloseSessions(closes) /\ OldSubscriptionGone(attached)
      /\ CancelGuards("subscriber", attached.graced, attached.paused)
      /\ merchantAta' = merchantAta + FinalClaimable
      /\ plan' = plan /\ gifts' = gifts /\ merchantAtaOpen' = merchantAtaOpen
  BY DEF Migration, New!NewSubscription, New!outside
<1>2. /\ state' = "None" /\ price' = 0 /\ period' = 0 /\ deposited' = 0
      /\ withdrawn' = 0 /\ streamStart' = 0 /\ nextChargeAt' = 0
      /\ vault' = Absent
  BY <1>1 DEF OldSubscriptionGone
<1>3. enteredGraceAt' = Absent /\ graceUntil' = Absent /\ pausedAt' = Absent
  <2>1. CASE attached.graced
    BY <1>1, <2>1
    DEF OldSubscriptionGone, CancelGuards, MoneyInv, SatelliteIff
  <2>2. CASE ~attached.graced
    BY <1>1, <2>2
    DEF OldSubscriptionGone, CancelGuards, MoneyInv, SatelliteIff, graced
  <2>3. QED
    BY <2>1, <2>2
<1>4. /\ facilitator' \in [SessionIds -> Facilitators \cup {NoFacilitator}]
      /\ usage' \in [SessionIds -> Amount]
      /\ reservation' \in [SessionIds -> Nat]
  BY <1>1, EscrowAssumption DEF MoneyInv, TypeOK, CloseSessions, Amount
<1>5. merchantAta' \in Nat /\ gifts' = 0
  BY <1>1, CancelLeavesNothing DEF MoneyInv, TypeOK
<1>6. TypeOK'
  BY <1>1, <1>2, <1>3, <1>4, <1>5, EscrowAssumption
  DEF MoneyInv, TypeOK, Amount, Timestamp, SubscriptionState, Absent
<1>7. EscrowExact' /\ SatelliteIff' /\ PositiveTerms'
  BY <1>2, <1>3, <1>5
  DEF EscrowExact, SatelliteIff, PositiveTerms, Live, Absent
<1>8. QED
  BY <1>2, <1>3, <1>6, <1>7 DEF MoneyInv, Pot, Absent

\* The transaction as a whole: the vault is split between the two wallets and
\* the new deposit comes out of one of them.
LEMMA BothMigration ==
  ASSUME BothMoney, NEW closes, NEW attached, NEW n \in Periods,
         Migration(closes, attached, n)
  PROVE  BothMoney' /\ state' = "None" /\ enteredGraceAt' = Absent
<1> USE EscrowAssumption, NewP!EscrowAssumption
<1> DEFINE wallet == subscriberAta + Refund
<1> HIDE DEF wallet
<1>1. MoneyInv /\ NewP!MoneyInv /\ Pot + NewP!Tokens = Funding
  BY DEF BothMoney
<1>2. /\ CancelGuards("subscriber", attached.graced, attached.paused)
      /\ merchantAta' = merchantAta + FinalClaimable
      /\ newPlan # NoPlan /\ newState = "None"
      /\ UNCHANGED newSatellites /\ UNCHANGED newSessions
  BY DEF Migration, New!SubscribeAccounts
<1>3. NewP!NewSubscription(n, wallet)
  BY SameNewSubscription DEF Migration, wallet
<1>4. /\ FinalClaimable \in Nat /\ Refund \in Nat
      /\ Pot = FinalClaimable + Refund
  BY <1>1, <1>2, CancelAmounts
<1>5. /\ Pot \in Nat /\ NewP!Pot = 0
      /\ subscriberAta \in Nat /\ merchantAta \in Nat
  BY <1>1, <1>2, TwoPots, NewP!PotNumbers DEF NewP!Live
<1>6. wallet \in Nat /\ wallet = subscriberAta + Refund
  BY <1>4, <1>5 DEF wallet
<1>7. /\ newPlan \in Terms /\ newState \notin NewP!Live
  BY <1>1, <1>2 DEF NewP!MoneyInv, NewP!TypeOK, NewP!Live
<1>8. NewP!MoneyInv'
  <2>1. UNCHANGED NewP!satellites /\ merchantAta' \in Nat
    BY <1>2, <1>4, <1>5 DEF newSatellites, NewP!satellites
  <2>2. /\ newFacilitator' \in [SessionIds -> Facilitators \cup {NoFacilitator}]
        /\ newUsage' \in [SessionIds -> NewP!Amount]
        /\ newReservation' \in [SessionIds -> Nat]
    BY <1>1, <1>2 DEF newSessions, NewP!MoneyInv, NewP!TypeOK
  <2>3. QED
    BY <1>1, <1>3, <1>6, <1>7, <2>1, <2>2, NewP!MoneyNewSubscription
<1>9. /\ newPlan.price * n \in Nat
      /\ newVault' = newPlan.price * n
      /\ subscriberAta' = wallet - newPlan.price * n
      /\ newState' \in NewP!Live /\ now' = now
  <2>1. newPlan.price * n \in NewP!Amount
    BY <1>3, <1>7, NewP!NewDeposit
  <2>2. QED
    BY <1>3, <2>1 DEF NewP!NewSubscription, NewP!Live, NewP!Amount
<1>10. NewP!Pot' = newVault'
  <2>1. newGifts' = 0
    BY <1>1, <1>3, <1>7
    DEF NewP!MoneyInv, NewP!EscrowExact, NewP!NewSubscription, NewP!outside
  <2>2. NewP!Pot' = newVault' - newGifts' /\ newVault' \in Nat
    BY <1>8, <1>9, NewP!NextPotNumbers
  <2>3. \A m \in Nat : m - 0 = m
    OBVIOUS
  <2>4. QED
    BY <2>1, <2>2, <2>3
<1>11. subscriberAta' \in Nat
  BY <1>8 DEF NewP!MoneyInv, NewP!TypeOK
<1>12. /\ MoneyInv' /\ Pot' = 0 /\ state' = "None" /\ enteredGraceAt' = Absent
  BY <1>1, <1>9, <1>11, OldGone
<1>13. Pot' + NewP!Tokens' = Pot + NewP!Tokens
  <2> DEFINE price0 == newPlan.price * n
  <2> HIDE DEF price0
  <2>1. /\ price0 \in Nat /\ NewP!Pot' = price0
        /\ subscriberAta' = subscriberAta + Refund - price0
    <3>1. price0 \in Nat /\ NewP!Pot' = price0
      BY <1>9, <1>10 DEF price0
    <3>2. subscriberAta' = wallet - price0
      BY <1>9 DEF price0
    <3>3. QED
      BY <1>4, <1>5, <1>6, <3>1, <3>2
  <2>2. NewP!Tokens' = price0 + (subscriberAta + Refund - price0)
                         + (merchantAta + FinalClaimable)
    BY <1>2, <2>1 DEF NewP!Tokens
  <2>3. NewP!Tokens' = subscriberAta + Refund + merchantAta + FinalClaimable
    BY <1>4, <1>5, <2>1, <2>2
  <2>4. NewP!Tokens = subscriberAta + merchantAta
    BY <1>5 DEF NewP!Tokens
  <2>5. QED
    BY <1>4, <1>5, <1>12, <2>3, <2>4
<1>14. QED
  BY <1>1, <1>8, <1>12, <1>13 DEF BothMoney

LEMMA BothUntouched ==
  ASSUME BothMoney, UNCHANGED vars, UNCHANGED newOnly
  PROVE  BothMoney'
<1>1. MoneyInv'
  BY MoneyStep DEF BothMoney
<1>2. NewP!MoneyInv' /\ NewP!Pot' = NewP!Pot
  BY <1>1, NewKept DEF BothMoney
<1>3. Pot' = Pot /\ NewP!Tokens' = NewP!Tokens
  BY <1>2 DEF Pot, NewP!Tokens, vars
<1>4. QED
  BY <1>1, <1>2, <1>3 DEF BothMoney

\* The steps of a call other than its landing read and sign.
LEMMA CallReads ==
  ASSUME NEW c \in Calls, CallStep(c), ~ \E n \in Periods : Land(c, n)
  PROVE  UNCHANGED vars /\ UNCHANGED newOnly
BY DEF CallStep, RustReadPlans, TsReadPlans, ReadOldSubscription,
       ListOldSessions, TsSign, Fail

LEMMA BothLand ==
  ASSUME BothMoney, NEW c \in Calls, NEW n \in Periods, Land(c, n)
  PROVE  BothMoney'
<1>1. CASE FreshSubscribe(n)
  BY <1>1, BothNew DEF FreshSubscribe
<1>2. CASE Migration(seenSessions[c], CancelSatellites(c), n)
  BY <1>2, BothMigration
<1>3. QED
  BY <1>1, <1>2 DEF Land, Execute

LEMMA BothStep == BothMoney /\ [MNext]_mvars => BothMoney'
<1> SUFFICES ASSUME BothMoney, [MNext]_mvars
             PROVE  BothMoney'
  OBVIOUS
<1>1. ASSUME NEW c \in Calls, CallStep(c)
      PROVE  BothMoney'
  BY <1>1, BothLand, CallReads, BothUntouched
<1>2. CASE OldStep
  BY <1>2, BothOld DEF OldStep
<1>3. CASE NewStep
  BY <1>3, BothNew DEF NewStep
<1>4. CASE UNCHANGED mvars
  BY <1>4, BothUntouched DEF mvars
<1>5. QED
  BY <1>1, <1>2, <1>3, <1>4 DEF MNext

LEMMA BothInit == MInit => BothMoney
<1> SUFFICES ASSUME MInit PROVE BothMoney
  OBVIOUS
<1>1. MoneyInv
  BY MoneyInit DEF MInit
<1>2. NewP!MoneyInv
  BY SameInit, NewP!MoneyInit, EscrowAssumption, NewP!EscrowAssumption DEF MInit
<1>3. Pot = 0 /\ NewP!Tokens = Funding
  BY EscrowAssumption
  DEF MInit, Init, New!Init, Pot, NewP!Tokens, NewP!Pot, NewP!Absent,
      New!Absent, Absent
<1>4. QED
  BY <1>1, <1>2, <1>3, EscrowAssumption DEF BothMoney

LEMMA BothHold == MSpec => []BothMoney
BY BothInit, BothStep, PTL DEF MSpec

\* No token is lost between the two subscriptions, whatever became of the old
\* one between the read and the landing and however many migrations overlap.
THEOREM NothingIsLost == MSpec => []NothingLost
<1>1. BothMoney => NothingLost
  <2> SUFFICES ASSUME BothMoney PROVE NothingLost
    OBVIOUS
  <2>1. /\ Pot \in Nat /\ NewP!Pot \in Nat
        /\ subscriberAta \in Nat /\ merchantAta \in Nat
        /\ Pot + (NewP!Pot + subscriberAta + merchantAta) = Funding
    BY TwoPots DEF BothMoney, NewP!Tokens
  <2>2. New!Pot = NewP!Pot
    BY DEF New!Pot, NewP!Pot, New!Absent, NewP!Absent
  <2>3. QED
    BY <2>1, <2>2 DEF NothingLost
<1>2. QED
  BY <1>1, BothHold, PTL

\* Both escrows are exact and both sets of satellites consistent through every
\* migration: the new deposit, paid in part from the refund of the same
\* transaction, is what its vault holds.
THEOREM BothAreExact == MSpec => []BothExact
<1>1. BothMoney => BothExact
  <2> SUFFICES ASSUME BothMoney PROVE BothExact
    OBVIOUS
  <2>1. EscrowExact /\ SatelliteIff
    BY DEF BothMoney, MoneyInv
  <2>2. NewP!EscrowExact /\ NewP!SatelliteIff
    BY DEF BothMoney, NewP!MoneyInv
  <2>3. New!EscrowExact /\ New!SatelliteIff
    BY <2>2
    DEF New!EscrowExact, NewP!EscrowExact, New!SatelliteIff, NewP!SatelliteIff,
        New!Live, NewP!Live, New!Absent, NewP!Absent
  <2>4. QED
    BY <2>1, <2>3 DEF BothExact
<1>2. QED
  BY <1>1, BothHold, PTL

-----------------------------------------------------------------------------
(***************************************************************************)
(* A current migration goes through.                                       *)
(***************************************************************************)
Locations == {"idle", "read", "list", "sign", "send"}

\* A call under way has found the new plan, which nothing removes.
PlanFound ==
  /\ pc \in [Calls -> Locations]
  /\ newPlan # NoPlan => newPlan.period > 0 /\ newPlan.price > 0
  /\ \A c \in Calls : pc[c] # "idle" => newPlan # NoPlan

\* The anchor of the old subscription and its grace window.
OldTime == TimeInv /\ GraceWindow

MigrationInv == BothMoney /\ OldTime /\ PlanFound

LEMMA OldTimeKept ==
  ASSUME OldTime, UNCHANGED now, UNCHANGED oldOnly
  PROVE  OldTime'
<1>1. /\ UNCHANGED <<now, state, price, period, deposited, withdrawn,
                     streamStart, nextChargeAt, enteredGraceAt, pausedAt>>
      /\ graceUntil' = graceUntil
  BY DEF oldOnly, terms, hint, satellites
<1>2. TimeInv'
  BY <1>1, TimeUntouched DEF OldTime
<1>3. QED
  BY <1>1, <1>2 DEF OldTime, GraceWindow, Absent

LEMMA OldTimeStep ==
  ASSUME MigrationInv, [MNext]_mvars
  PROVE  OldTime'
<1>1. CASE [Next]_vars
  BY <1>1, IInvStep, GraceWindowStep
  DEF MigrationInv, BothMoney, OldTime, IInv, DriftNext
<1>2. ASSUME NEW c \in Calls, NEW n \in Periods, Land(c, n)
      PROVE  OldTime'
  <2>1. CASE FreshSubscribe(n)
    BY <2>1, OldTimeKept
    DEF FreshSubscribe, New!Subscribe, New!NewSubscription, MigrationInv
  <2>2. CASE Migration(seenSessions[c], CancelSatellites(c), n)
    <3>1. state' = "None" /\ enteredGraceAt' = Absent
      BY <2>2, BothMigration DEF MigrationInv
    <3>2. QED
      BY <3>1
      DEF OldTime, GraceWindow, TimeInv, EarnedOnly, GraceIsExhausted,
          HintNeverLate, Live, Absent
  <2>3. QED
    BY <1>2, <2>1, <2>2 DEF Land, Execute
<1>3. CASE NewStep
  <2>1. UNCHANGED now
    BY <1>3
    DEF NewStep, New!CreatePlan, New!KeeperStep, New!Charge, New!PartyCancel,
        New!Cancel, New!Cleanup, New!Gift
  <2>2. QED
    BY <1>3, <2>1, OldTimeKept DEF NewStep, MigrationInv
<1>4. QED
  BY <1>1, <1>2, <1>3, CallReads DEF MNext, OldStep, mvars

\* The new plan is made once, with positive terms, and stays.
LEMMA NewPlanStep ==
  ASSUME MigrationInv, [MNext]_mvars
  PROVE  \/ newPlan' = newPlan
         \/ newPlan = NoPlan /\ newPlan' \in Terms
              /\ newPlan'.period > 0 /\ newPlan'.price > 0
<1>1. ASSUME NEW c \in Calls, NEW n \in Periods, Land(c, n)
      PROVE  newPlan' = newPlan
  BY <1>1 DEF Land, Execute, FreshSubscribe, New!Subscribe, Migration,
              New!NewSubscription
<1>2. CASE NewStep
  BY <1>2
  DEF NewStep, New!CreatePlan, New!KeeperStep, New!Charge, New!PartyCancel,
      New!Cancel, New!Cleanup, New!Gift
<1>3. CASE OldStep \/ UNCHANGED mvars
  BY <1>3 DEF OldStep, mvars, newOnly
<1>4. QED
  BY <1>1, <1>2, <1>3, CallReads DEF MNext, newOnly

LEMMA PlanFoundStep ==
  ASSUME MigrationInv, [MNext]_mvars
  PROVE  PlanFound'
<1>1. /\ newPlan' # NoPlan => newPlan'.period > 0 /\ newPlan'.price > 0
      /\ newPlan # NoPlan => newPlan' # NoPlan
  BY NewPlanStep, EscrowAssumption DEF MigrationInv, PlanFound
<1>2. /\ pc' \in [Calls -> Locations]
      /\ \A c \in Calls : pc'[c] # "idle" => newPlan # NoPlan
  <2>1. CASE UNCHANGED pc
    BY <2>1 DEF MigrationInv, PlanFound
  <2>2. ASSUME NEW c \in Calls, CallStep(c)
        PROVE  /\ pc' \in [Calls -> Locations]
               /\ \A d \in Calls : pc'[d] # "idle" => newPlan # NoPlan
    <3>1. PICK l \in Locations :
            /\ pc' = [pc EXCEPT ![c] = l]
            /\ l # "idle" => newPlan # NoPlan
      BY <2>2
      DEF CallStep, RustReadPlans, TsReadPlans, ReadOldSubscription, Built,
          ListOldSessions, TsSign, Fail, Land, Return, Locations, MigrationInv,
          PlanFound
    <3>2. QED
      BY <3>1 DEF MigrationInv, PlanFound
  <2>3. QED
    BY <2>1, <2>2 DEF MNext, OldStep, NewStep, mvars, calls
<1>3. QED
  BY <1>1, <1>2 DEF PlanFound, Locations

LEMMA MigrationInvHolds == MSpec => []MigrationInv
<1>1. MInit => MigrationInv
  <2> SUFFICES ASSUME MInit PROVE MigrationInv
    OBVIOUS
  <2>1. BothMoney
    BY BothInit
  <2>2. OldTime
    BY TimeInit DEF MInit, Init, OldTime, GraceWindow
  <2>3. PlanFound
    BY DEF MInit, New!Init, PlanFound, Locations
  <2>4. QED
    BY <2>1, <2>2, <2>3 DEF MigrationInv
<1>2. MigrationInv /\ [MNext]_mvars => MigrationInv'
  <2> SUFFICES ASSUME MigrationInv, [MNext]_mvars PROVE MigrationInv'
    OBVIOUS
  <2>1. BothMoney'
    BY BothStep DEF MigrationInv
  <2>2. QED
    BY <2>1, OldTimeStep, PlanFoundStep DEF MigrationInv
<1>3. QED
  BY <1>1, <1>2, PTL DEF MSpec

\* What the transaction demands of the state, and what it makes of every
\* account.
MigrationGuards(closes, attached, periods) ==
  /\ \A s \in closes : CloseSessionAccounts(s)
  /\ CancelGuards("subscriber", attached.graced, attached.paused)
  /\ newPlan # NoPlan /\ newState = "None" /\ newVault = Absent
  /\ newPlan.period > 0 /\ periods >= 1
  /\ newPlan.price \div newPlan.period >= 1
  /\ FitsU64(newPlan.price * periods)
  /\ AfterRefund >= newPlan.price * periods
  /\ FitsI64(now + newPlan.period)
MigrationEffect(closes, attached, periods) ==
  /\ facilitator' = [s \in SessionIds |->
                       IF s \in closes THEN NoFacilitator ELSE facilitator[s]]
  /\ usage' = [s \in SessionIds |-> IF s \in closes THEN 0 ELSE usage[s]]
  /\ reservation' = [s \in SessionIds |->
                       IF s \in closes THEN 0 ELSE reservation[s]]
  /\ merchantAta' = merchantAta + FinalClaimable
  /\ OldSubscriptionGone(attached)
  /\ newVault' = newPlan.price * periods
  /\ subscriberAta' = AfterRefund - newPlan.price * periods
  /\ newHint' = now + newPlan.period
  /\ newPrice' = newPlan.price /\ newPeriod' = newPlan.period
  /\ newState' = "Active"
  /\ newDeposited' = newPlan.price * periods /\ newWithdrawn' = 0
  /\ newStart' = now
  /\ UNCHANGED <<now, plan, newPlan, newEnteredGraceAt, newGraceUntil,
                 newPausedAt, newFacilitator, newUsage, newReservation, gifts,
                 newGifts, merchantAtaOpen>>

\* A migration is its guards and its effect, which gives every account a
\* value: where the guards hold, the step exists.
LEMMA MigrationIsGuardedEffect ==
  ASSUME NEW closes, NEW attached, NEW n
  PROVE  Migration(closes, attached, n) <=>
           MigrationGuards(closes, attached, n)
             /\ MigrationEffect(closes, attached, n)
BY DEF Migration, MigrationGuards, MigrationEffect, CloseSessions, AfterRefund,
       New!SubscribeAccounts, New!NewSubscription, New!FitsU64, New!FitsI64,
       New!Absent, FitsU64, FitsI64, Absent, New!outside, newSatellites,
       newSessions

\* The two SDKs attach the satellites of the state they read.
LEMMA RightSatellites ==
  ASSUME NEW c, seenState[c] \in Live
  PROVE  /\ CancelSatellites(c).graced = (seenState[c] = "GracePeriod")
         /\ CancelSatellites(c).paused = (seenState[c] = "Paused")
<1>1. CASE sdk[c] = "rust"
  <2>1. CASE seenState[c] = "Active"
    BY <1>1, <2>1 DEF CancelSatellites, RustCancelSatellites
  <2>2. CASE seenState[c] = "GracePeriod"
    BY <1>1, <2>2 DEF CancelSatellites, RustCancelSatellites
  <2>3. CASE seenState[c] = "Paused"
    BY <1>1, <2>3 DEF CancelSatellites, RustCancelSatellites
  <2>4. QED
    BY <2>1, <2>2, <2>3 DEF Live
<1>2. CASE sdk[c] # "rust"
  BY <1>2 DEF CancelSatellites, TsCancelSatellites
<1>3. QED
  BY <1>1, <1>2

LEMMA MigrationIsOpen ==
  ASSUME MigrationInv, NEW c \in Calls, NEW n \in Periods,
         pc[c] = "send", state \in Live, ~Shut, seenState[c] = state,
         seenSessions[c] \subseteq OpenSessions, newState = "None",
         AfterRefund >= n * newPlan.price,
         n >= 1, newPlan.price \div newPlan.period >= 1,
         FitsU64(newPlan.price * n), FitsI64(now + newPlan.period)
  PROVE  MigrationGuards(seenSessions[c], CancelSatellites(c), n)
<1>1. IInv /\ GraceWindow /\ NewP!MoneyInv /\ PlanFound
  BY DEF MigrationInv, BothMoney, OldTime, IInv
<1>2. \A s \in seenSessions[c] : CloseSessionAccounts(s)
  BY DEF OpenSessions, CloseSessionAccounts, Live, SubscriptionState
<1>3. /\ CancelSatellites(c).graced = NeedsGraced
      /\ CancelSatellites(c).paused = NeedsPaused
  BY RightSatellites DEF NeedsGraced, NeedsPaused
<1>4. CancelGuards("subscriber", NeedsGraced, NeedsPaused)
  BY <1>1, CancelIsOpen DEF CancelAuthority
<1>5. newPlan # NoPlan /\ newPlan.period > 0
  BY <1>1 DEF PlanFound
<1>6. newVault = Absent
  BY <1>1 DEF NewP!MoneyInv, NewP!EscrowExact, NewP!Live, NewP!Absent, Absent
<1>7. n * newPlan.price = newPlan.price * n
  <2>1. newPlan.price \in Nat /\ n \in Nat
    BY <1>1, <1>5, EscrowAssumption DEF NewP!MoneyInv, NewP!TypeOK
  <2>2. QED
    BY <2>1
<1>8. QED
  BY <1>2, <1>3, <1>4, <1>5, <1>6, <1>7 DEF MigrationGuards

\* A migration built from what is still so, for terms that subscribe accepts,
\* finds every guard of its four kinds of instruction open unless a cancel of
\* the old subscription is shut from outside: the enabledness
\* that MigrationNeverBlocked asks TLC for.
THEOREM MigrationAlwaysOpen ==
  MSpec => [](\A c \in Calls, n \in Periods :
    (/\ pc[c] = "send" /\ state \in Live /\ ~Shut /\ seenState[c] = state
     /\ seenSessions[c] \subseteq OpenSessions /\ newState = "None"
     /\ AfterRefund >= n * newPlan.price
     /\ n >= 1 /\ newPlan.price \div newPlan.period >= 1
     /\ FitsU64(newPlan.price * n) /\ FitsI64(now + newPlan.period))
    => MigrationGuards(seenSessions[c], CancelSatellites(c), n))
<1>1. MigrationInv => \A c \in Calls, n \in Periods :
        (/\ pc[c] = "send" /\ state \in Live /\ ~Shut /\ seenState[c] = state
         /\ seenSessions[c] \subseteq OpenSessions /\ newState = "None"
         /\ AfterRefund >= n * newPlan.price
         /\ n >= 1 /\ newPlan.price \div newPlan.period >= 1
         /\ FitsU64(newPlan.price * n) /\ FitsI64(now + newPlan.period))
        => MigrationGuards(seenSessions[c], CancelSatellites(c), n)
  BY MigrationIsOpen
<1>2. QED
  BY <1>1, MigrationInvHolds, PTL

=============================================================================
