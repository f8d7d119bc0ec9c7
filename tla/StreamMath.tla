----------------------------- MODULE StreamMath -----------------------------
(***************************************************************************)
(* The streaming arithmetic that charge, cancel, settle_usage and pause    *)
(* repeat verbatim in the Nakama program.  The code multiplies two 64-bit  *)
(* numbers in u128 before the one division, so the product never overflows *)
(* and unbounded integers model it exactly; the results that are stored    *)
(* back in 64 bits are bounded where they are stored.                      *)
(***************************************************************************)
EXTENDS Integers

\* What `elapsed` seconds of service cost: one division, at the end.
Accrued(elapsed, price, period) == (elapsed * price) \div period

\* core::cmp::min / u128::min.
Lesser(a, b) == IF a <= b THEN a ELSE b

\* The merchant's total entitlement: accrued, never more than the deposit.
Unlocked(elapsed, price, period, deposited) ==
  Lesser(Accrued(elapsed, price, period), deposited)

\* The inverse used for the keeper's hint: the seconds that `withdrawn` pays.
CoveredSeconds(withdrawn, price, period) == (withdrawn * period) \div price

=============================================================================
