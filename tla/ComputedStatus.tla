--------------------------- MODULE ComputedStatus ---------------------------
(***************************************************************************)
(* The status that off-chain readers derive from the accounts, twice: in   *)
(* Rust (nakama-client, derive_status) and in TypeScript (deriveStatus).   *)
(* The u128 and BigInt products do not overflow on 64-bit fields.          *)
(***************************************************************************)
EXTENDS StreamMath

CONSTANTS
  SecondsPerDay,
  LowFundsDays,   \* ACTIVE_LOW_FUNDS_DAYS
  U32Max

ASSUME StatusAssumption ==
  SecondsPerDay \in Nat \ {0} /\ LowFundsDays \in Nat /\ U32Max \in Nat

\* The satellite the caller did not find.
NoSatellite == -1

\* ACTIVE_LOW_FUNDS_UTILIZATION_NUM out of 100.
LowFundsPercent == 80

CheckedDiv(a, b) == IF b = 0 THEN 0 ELSE a \div b
SaturatingSub(a, b) == IF a >= b THEN a - b ELSE 0

\* Mutant: the rate is truncated to whole units a second before it is used.
TruncatedClaimable(sub, now) ==
  SaturatingSub(
    Lesser(SaturatingSub(now, sub.streamStart) * CheckedDiv(sub.price, sub.period),
           sub.deposited),
    sub.withdrawn)

\* What the merchant could settle right now.
StatusClaimable(sub, now) ==
  SaturatingSub(
    Lesser(CheckedDiv(SaturatingSub(now, sub.streamStart) * sub.price, sub.period),
           sub.deposited),
    sub.withdrawn)

\* Utilization in whole percent, and days of runway at the plan's rate.
UnlockedPct(sub) == Lesser(100, CheckedDiv(sub.withdrawn * 100, sub.deposited))
RunwayDays(sub) ==
  (SaturatingSub(sub.deposited, sub.withdrawn) * sub.period)
    \div (sub.price * SecondsPerDay)

-----------------------------------------------------------------------------
\* Rust saturates the days at u32::MAX and compares the exact utilization.
RustDaysRemaining(sub) ==
  IF sub.price = 0 THEN U32Max ELSE Lesser(U32Max, RunwayDays(sub))
RustUtilizationLow(sub) ==
  /\ sub.deposited > 0
  /\ sub.withdrawn * 100 > sub.deposited * LowFundsPercent

\* TypeScript does not saturate and compares the rounded percentage.
TsDaysRemaining(sub) == IF sub.price = 0 THEN U32Max ELSE RunwayDays(sub)
TsUtilizationLow(sub) == UnlockedPct(sub) > LowFundsPercent

\* The payload of an Active subscription: the days only with low funds.
ActivePayload(sub, now, low, days) ==
  IF low
  THEN [kind |-> "ActiveLowFunds", pct |-> UnlockedPct(sub),
        claimable |-> StatusClaimable(sub, now), days |-> days]
  ELSE [kind |-> "Active", pct |-> UnlockedPct(sub),
        claimable |-> StatusClaimable(sub, now)]

\* Mutant: an expired grace is reported as a missing satellite.
HastyGraceStatus(graceUntil, now) ==
  IF graceUntil # NoSatellite /\ now <= graceUntil
  THEN [kind |-> "InGrace", graceUntil |-> graceUntil,
        secondsRemaining |-> graceUntil - now]
  ELSE [kind |-> "Corrupt"]

GraceStatus(graceUntil, now) ==
  CASE graceUntil = NoSatellite -> [kind |-> "Corrupt"]
    [] graceUntil # NoSatellite /\ now <= graceUntil ->
         [kind |-> "InGrace", graceUntil |-> graceUntil,
          secondsRemaining |-> graceUntil - now]
    [] graceUntil # NoSatellite /\ now > graceUntil ->
         [kind |-> "GraceExpired", graceUntil |-> graceUntil]

\* derive_status: `graceUntil` is the satellite's field or NoSatellite.
RustStatus(sub, graceUntil, now) ==
  CASE sub.state = "Active" ->
         LET days == RustDaysRemaining(sub)
         IN ActivePayload(sub, now,
              RustUtilizationLow(sub) \/ days < LowFundsDays, days)
    [] sub.state = "GracePeriod" -> GraceStatus(graceUntil, now)
    [] sub.state \in {"Paused", "Cancelled", "Exhausted"} -> [kind |-> sub.state]
    [] OTHER -> [kind |-> "Corrupt"]

\* deriveStatus.
TsStatus(sub, graceUntil, now) ==
  CASE sub.state = "Active" ->
         LET days == TsDaysRemaining(sub)
         IN ActivePayload(sub, now,
              TsUtilizationLow(sub) \/ days < LowFundsDays, days)
    [] sub.state = "GracePeriod" -> GraceStatus(graceUntil, now)
    [] sub.state \in {"Paused", "Cancelled", "Exhausted"} -> [kind |-> sub.state]
    [] OTHER -> [kind |-> "Corrupt"]

=============================================================================
