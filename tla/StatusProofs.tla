----------------------------- MODULE StatusProofs -----------------------------
(***************************************************************************)
(* Proofs about StatusReader, on any clock of the chain and any skew of    *)
(* the host.                                                               *)
(***************************************************************************)
EXTENDS StatusReader, EscrowProofs

\* The reader changes no account: the first layer of EscrowProofs holds beside
\* it.
LEMMA ReaderMoney == SSpec => []MoneyInv
<1>1. SInit => MoneyInv
  BY MoneyInit DEF SInit
<1>2. [SNext]_svars => [DriftNext]_vars
  BY DEF SNext, ReadSubscription, ReadGraceAndDerive, ReadFails, svars
<1>3. QED
  BY <1>1, <1>2, MoneyStep, PTL DEF SSpec

\* The lookup finds the satellite of a subscription in grace, and with it the
\* derivation gives a grace answer at every host time.
LEMMA GraceAnswer ==
  ASSUME MoneyInv, state = "GracePeriod", NEW sub, sub.state = "GracePeriod",
         NEW t \in Int
  PROVE  RustStatus(sub, GraceLookup, t).kind \in {"InGrace", "GraceExpired"}
<1>1. GraceLookup # NoSatellite /\ GraceLookup \in Int
  BY EscrowAssumption
  DEF MoneyInv, TypeOK, SatelliteIff, GraceLookup, NoSatellite, Absent, Timestamp
<1>2. RustStatus(sub, GraceLookup, t) = GraceStatus(GraceLookup, t)
  BY DEF RustStatus
<1>3. CASE t <= GraceLookup
  BY <1>1, <1>2, <1>3 DEF GraceStatus
<1>4. CASE t > GraceLookup
  BY <1>1, <1>2, <1>4 DEF GraceStatus
<1>5. QED
  BY <1>1, <1>3, <1>4

\* Without a satellite at the second read the answer is Corrupt; a state read
\* outside grace never gives it.
LEMMA GraceGone ==
  ASSUME MoneyInv, state # "GracePeriod", NEW sub, sub.state = "GracePeriod",
         NEW t
  PROVE  RustStatus(sub, GraceLookup, t).kind = "Corrupt"
<1>1. GraceLookup = NoSatellite
  BY DEF MoneyInv, SatelliteIff, GraceLookup
<1>2. RustStatus(sub, GraceLookup, t) = GraceStatus(GraceLookup, t)
  BY DEF RustStatus
<1>3. QED
  BY <1>1, <1>2 DEF GraceStatus

LEMMA OtherAnswer ==
  ASSUME NEW sub, sub.state \in SubscriptionState \ {"GracePeriod"}, NEW g, NEW t
  PROVE  RustStatus(sub, g, t).kind # "Corrupt"
<1>1. CASE sub.state = "Active"
  <2>1. \E low, days : RustStatus(sub, g, t) = ActivePayload(sub, t, low, days)
    BY <1>1 DEF RustStatus
  <2>2. QED
    BY <2>1 DEF ActivePayload
<1>2. CASE sub.state \in {"Paused", "Cancelled", "Exhausted"}
  <2>1. RustStatus(sub, g, t) = [kind |-> sub.state]
    BY <1>2 DEF RustStatus
  <2>2. QED
    BY <1>2, <2>1
<1>3. QED
  BY <1>1, <1>2 DEF SubscriptionState

\* What the handler has in hand was the state of the account when it read it.
SeenKnown == seen # NotRead => seen.state \in SubscriptionState

LEMMA SeenIsKnown == SSpec => []SeenKnown
<1>1. SInit => SeenKnown
  BY DEF SInit, SeenKnown
<1>2. MoneyInv /\ SeenKnown /\ [SNext]_svars => SeenKnown'
  BY DEF MoneyInv, TypeOK, SeenKnown, SNext, ReadSubscription,
         ReadGraceAndDerive, ReadFails, svars, View
<1>3. QED
  BY <1>1, <1>2, ReaderMoney, PTL DEF SSpec

\* On any clock and with any host skew Corrupt is answered exactly when the two
\* reads lie on either side of the end of a grace: of intact accounts it says
\* that they were read at two moments and nothing else.
THEOREM CorruptIsTorn == SSpec => CorruptMeansTorn
<1> DEFINE Torn == seen.state = "GracePeriod" /\ state # "GracePeriod"
<1>1. ASSUME MoneyInv, SeenKnown, [SNext]_svars, published' # published
      PROVE  (published'.kind = "Corrupt") <=> Torn
  <2>1. ReadGraceAndDerive
    BY <1>1 DEF SNext, ReadSubscription, ReadFails, svars
  <2>2. PICK skew \in -HostSkew .. HostSkew :
          published' = RustStatus(seen, GraceLookup, now + skew)
    BY <2>1 DEF ReadGraceAndDerive
  <2>3. now + skew \in Int
    BY <1>1, ReaderAssumption, EscrowAssumption DEF MoneyInv, TypeOK
  <2>4. CASE seen.state = "GracePeriod" /\ state = "GracePeriod"
    BY <1>1, <2>2, <2>3, <2>4, GraceAnswer
  <2>5. CASE Torn
    BY <1>1, <2>2, <2>5, GraceGone
  <2>6. CASE seen.state # "GracePeriod"
    <3>1. seen.state \in SubscriptionState \ {"GracePeriod"}
      BY <1>1, <2>1, <2>6 DEF SeenKnown, ReadGraceAndDerive
    <3>2. QED
      BY <2>2, <2>6, <3>1, OtherAnswer
  <2>7. QED
    BY <2>4, <2>5, <2>6
<1>2. MoneyInv /\ SeenKnown /\ [SNext]_svars =>
        (published' # published =>
           ((published'.kind = "Corrupt")
              <=> (seen.state = "GracePeriod" /\ state # "GracePeriod")))
  BY <1>1
<1>3. QED
  BY <1>2, ReaderMoney, SeenIsKnown, PTL DEF SSpec, CorruptMeansTorn

-----------------------------------------------------------------------------
(***************************************************************************)
(* The derived claimable is what the program pays.                         *)
(***************************************************************************)
\* The clamps of the off-chain formula amount to: nothing before the anchor,
\* nothing when the merchant is ahead, else what the program computes.
LEMMA ClaimableAgrees ==
  ASSUME MoneyInv, state = "Active"
  PROVE  StatusClaimable(View, now) =
           IF now >= streamStart /\ ClaimableAt(now) > 0 THEN ClaimableAt(now)
                                                         ELSE 0
<1>1. /\ price \in Nat /\ period \in Nat \ {0} /\ deposited \in Nat
      /\ withdrawn \in Nat /\ now \in Nat /\ streamStart \in Nat
      /\ state \in Live
  BY LiveNumbers DEF Live
<1>2. StatusClaimable(View, now) =
        SaturatingSub(
          Lesser((SaturatingSub(now, streamStart) * price) \div period, deposited),
          withdrawn)
  BY <1>1 DEF StatusClaimable, View, CheckedDiv
<1>3. CASE now >= streamStart
  <2>1. SaturatingSub(now, streamStart) = now - streamStart
    BY <1>3 DEF SaturatingSub
  <2>2. StatusClaimable(View, now) = SaturatingSub(UnlockedAt(now), withdrawn)
    BY <1>2, <2>1 DEF UnlockedAt, Unlocked, Accrued
  <2>3. UnlockedAt(now) \in Nat
    BY <1>1, <1>3, ClaimBounds
  <2>4. QED
    BY <1>1, <1>3, <2>2, <2>3 DEF SaturatingSub, ClaimableAt
<1>4. CASE now < streamStart
  <2>1. SaturatingSub(now, streamStart) = 0
    BY <1>1, <1>4 DEF SaturatingSub
  <2>2. (0 * price) \div period = 0
    BY <1>1
  <2>3. StatusClaimable(View, now) = SaturatingSub(0, withdrawn)
    BY <1>1, <1>2, <2>1, <2>2 DEF Lesser
  <2>4. QED
    BY <1>1, <1>4, <2>3 DEF SaturatingSub
<1>5. QED
  BY <1>1, <1>3, <1>4

\* Both payloads of an Active subscription carry it.
LEMMA ActiveClaimable ==
  ASSUME state = "Active"
  PROVE  FreshRust.claimable = StatusClaimable(View, now)
<1>1. View.state = "Active"
  BY DEF View
<1>2. \E low, days : FreshRust = ActivePayload(View, now, low, days)
  BY <1>1 DEF FreshRust, RustStatus, RustUtilizationLow
<1>3. QED
  BY <1>2 DEF ActivePayload

\* The claimable a reader derives from an Active subscription is positive
\* exactly when charge is open to some caller, and is then the amount that it
\* moves, on any clock, if the merchant's account exists and the hint and the
\* deadline fit 64 bits: what ClaimableIsChargeable asks TLC for, with the
\* guards of charge in the place of ENABLED.
THEOREM ClaimableIsOpen ==
  SSpec => [](state = "Active" =>
    /\ FreshRust.claimable > 0 => FreshRust.claimable = ClaimableAt(now)
    /\ (\E attach \in BOOLEAN : ChargeGuards(attach)) => FreshRust.claimable > 0
    /\ (/\ FreshRust.claimable > 0 /\ merchantAtaOpen
        /\ FitsI64(now + period) /\ FitsI64(now + GraceDuration)) =>
         \E attach \in BOOLEAN : ChargeGuards(attach))
<1> DEFINE Agrees ==
      /\ FreshRust.claimable > 0 => FreshRust.claimable = ClaimableAt(now)
      /\ (\E attach \in BOOLEAN : ChargeGuards(attach)) => FreshRust.claimable > 0
      /\ (/\ FreshRust.claimable > 0 /\ merchantAtaOpen
          /\ FitsI64(now + period) /\ FitsI64(now + GraceDuration)) =>
           \E attach \in BOOLEAN : ChargeGuards(attach)
<1>1. ASSUME MoneyInv, state = "Active" PROVE Agrees
  <2>1. FreshRust.claimable =
          IF now >= streamStart /\ ClaimableAt(now) > 0 THEN ClaimableAt(now)
                                                        ELSE 0
    BY <1>1, ClaimableAgrees, ActiveClaimable
  <2>2. FreshRust.claimable > 0 => now >= streamStart /\ ClaimableAt(now) > 0
    BY <2>1
  <2>3. (\E attach \in BOOLEAN : ChargeGuards(attach)) => FreshRust.claimable > 0
    BY <2>1 DEF ChargeGuards
  <2>4. ASSUME FreshRust.claimable > 0, merchantAtaOpen,
               FitsI64(now + period), FitsI64(now + GraceDuration)
        PROVE  \E attach \in BOOLEAN : ChargeGuards(attach)
    BY <1>1, <2>2, <2>4, ChargeIsOpen
  <2>5. QED
    BY <2>1, <2>2, <2>3, <2>4
<1>2. MoneyInv => (state = "Active" => Agrees)
  BY <1>1
<1>3. QED
  BY <1>2, ReaderMoney, PTL

-----------------------------------------------------------------------------
(***************************************************************************)
(* Where the two SDKs may disagree.                                        *)
(***************************************************************************)
\* The utilization is over the threshold by less than one whole percent, which
\* Rust sees and the rounded percentage of TypeScript does not.
BetweenPercents(sub) ==
  /\ sub.withdrawn * 100 > sub.deposited * LowFundsPercent
  /\ sub.withdrawn * 100 < sub.deposited * (LowFundsPercent + 1)

\* Dividing rounds down to whole percents.
LEMMA WholePercent ==
  ASSUME NEW n \in Nat, NEW d \in Nat \ {0}
  PROVE  /\ n \div d \in Nat
         /\ n \div d > 80 <=> n >= d * 81
<1>1. /\ n \div d \in Nat
      /\ d * (n \div d) <= n /\ n < d * (n \div d) + d
  OBVIOUS
<1>2. ASSUME n \div d > 80 PROVE n >= d * 81
  BY <1>1, <1>2
<1>3. ASSUME n \div d <= 80 PROVE n < d * 81
  <2>1. d * (n \div d) <= d * 80
    BY <1>1, <1>3
  <2>2. QED
    BY <1>1, <2>1
<1>4. QED
  BY <1>1, <1>2, <1>3

LEMMA UtilizationsAgree ==
  ASSUME NEW sub, sub.withdrawn \in Nat, sub.deposited \in Nat,
         ~BetweenPercents(sub)
  PROVE  TsUtilizationLow(sub) <=> RustUtilizationLow(sub)
<1>1. CASE sub.deposited = 0
  BY <1>1
  DEF TsUtilizationLow, RustUtilizationLow, UnlockedPct, CheckedDiv, Lesser,
      LowFundsPercent
<1>2. CASE sub.deposited # 0
  <2> DEFINE pct == (sub.withdrawn * 100) \div sub.deposited
  <2>1. /\ sub.withdrawn * 100 \in Nat /\ sub.deposited \in Nat \ {0}
    BY <1>2
  <2>2. pct \in Nat /\ (pct > 80 <=> sub.withdrawn * 100 >= sub.deposited * 81)
    BY <2>1, WholePercent
  <2>3. UnlockedPct(sub) = Lesser(100, pct)
    BY <1>2 DEF UnlockedPct, CheckedDiv
  <2>4. TsUtilizationLow(sub) <=> pct > 80
    BY <2>2, <2>3 DEF TsUtilizationLow, LowFundsPercent, Lesser
  <2>5. RustUtilizationLow(sub) <=> sub.withdrawn * 100 > sub.deposited * 80
    BY <2>1 DEF RustUtilizationLow, LowFundsPercent
  <2>6. ~(/\ sub.withdrawn * 100 > sub.deposited * 80
          /\ sub.withdrawn * 100 < sub.deposited * 81)
    BY DEF BetweenPercents, LowFundsPercent
  <2>7. QED
    BY <2>1, <2>2, <2>4, <2>5, <2>6
<1>3. QED
  BY <1>1, <1>2

\* The Rust and the TypeScript derivation give the same answer about every
\* account the program can produce, at every time, unless the utilization is
\* between the threshold and the next whole percent or the runway is beyond 32
\* bits: beyond the rounding that refutes CrossLanguageEqual nothing differs.
THEOREM CrossLanguageAgrees ==
  SSpec => []((~BetweenPercents(View) /\ RunwayDays(View) <= U32Max)
              => CrossLanguageEqual)
<1>1. ASSUME MoneyInv, ~BetweenPercents(View), RunwayDays(View) <= U32Max,
             state # "None"
      PROVE  FreshRust = FreshTs
  <2>1. CASE state # "Active"
    BY <2>1 DEF FreshRust, FreshTs, RustStatus, TsStatus, View
  <2>2. CASE state = "Active"
    <3>1. /\ View.state = "Active" /\ View.price # 0
          /\ View.withdrawn \in Nat /\ View.deposited \in Nat
          /\ View.price \in Nat /\ View.period \in Nat
      BY <1>1, <2>2, LiveNumbers DEF View, Live
    <3>2. TsUtilizationLow(View) <=> RustUtilizationLow(View)
      BY <1>1, <3>1, UtilizationsAgree
    <3>3. RustDaysRemaining(View) = TsDaysRemaining(View)
      <4>1. RunwayDays(View) \in Nat
        <5>1. SaturatingSub(View.deposited, View.withdrawn) \in Nat
          BY <3>1 DEF SaturatingSub
        <5>2. /\ SaturatingSub(View.deposited, View.withdrawn) * View.period \in Nat
              /\ View.price * SecondsPerDay \in Nat \ {0}
          BY <3>1, <5>1, StatusAssumption
        <5>3. QED
          BY <5>2 DEF RunwayDays
      <4>2. Lesser(U32Max, RunwayDays(View)) = RunwayDays(View)
        BY <1>1, <4>1, StatusAssumption DEF Lesser
      <4>3. QED
        BY <3>1, <4>2 DEF RustDaysRemaining, TsDaysRemaining
    <3>4. QED
      BY <3>1, <3>2, <3>3 DEF FreshRust, FreshTs, RustStatus, TsStatus
  <2>3. QED
    BY <2>1, <2>2
<1>2. MoneyInv => ((~BetweenPercents(View) /\ RunwayDays(View) <= U32Max)
                   => CrossLanguageEqual)
  BY <1>1 DEF CrossLanguageEqual
<1>3. QED
  BY <1>2, ReaderMoney, PTL

=============================================================================
