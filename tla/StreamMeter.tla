----------------------------- MODULE StreamMeter -----------------------------
(***************************************************************************)
(* What the escrow promises, without timestamps, satellites or sessions: a *)
(* service meter and a prefunded pot.                                      *)
(*                                                                         *)
(* The meter counts the seconds during which the stream runs.  It stands   *)
(* still while the stream is frozen (merchant pause, or grace after the    *)
(* deposit is used up) and never jumps.  While the stream runs the         *)
(* merchant may draw what the metered seconds cost, out of the pot and     *)
(* never more than the deposit; closing the stream pays the merchant       *)
(* exactly what is still owed for the metered seconds and returns exactly  *)
(* the rest to the payer.                                                  *)
(***************************************************************************)
EXTENDS StreamMath

VARIABLES phase,      \* "none", "running", "frozen" or "closed"
          meter,      \* seconds of service since the stream was opened
          price, period,
          deposited,  \* put into this stream by the payer
          paid,       \* taken out of it by the payee
          pot,        \* what the escrow account holds
          payer, payee  \* balances outside the escrow

mvars == <<phase, meter, price, period, deposited, paid, pot, payer, payee>>

\* Entitlement of the payee after the metered seconds, and what is left of it.
Earned == Unlocked(meter, price, period, deposited)
Owed == Earned - paid

MInit ==
  /\ phase = "none"
  /\ meter = 0 /\ price = 0 /\ period = 0
  /\ deposited = 0 /\ paid = 0 /\ pot = 0
  /\ payer \in Nat /\ payee \in Nat

\* A stream opens with a positive rate, an empty record and a full pot.
Open ==
  /\ phase = "none"
  /\ phase' = "running"
  /\ meter' = 0 /\ paid' = 0
  /\ price' \in Nat \ {0} /\ period' \in Nat \ {0}
  /\ deposited' \in 1 .. payer
  /\ pot' = deposited'
  /\ payer' = payer - deposited'
  /\ UNCHANGED payee

\* One more second of service.
Run ==
  /\ phase = "running"
  /\ meter' = meter + 1
  /\ UNCHANGED <<phase, price, period, deposited, paid, pot, payer, payee>>

\* The payee draws no more than it is owed; a draw that uses up the deposit
\* may freeze the stream.
Draw ==
  /\ phase = "running"
  /\ paid' \in (paid + 1) .. Earned
  /\ pot' = pot - (paid' - paid)
  /\ payee' = payee + (paid' - paid)
  /\ phase' = "running" \/ (phase' = "frozen" /\ paid' = deposited)
  /\ UNCHANGED <<meter, price, period, deposited, payer>>

\* The payer adds to the pot; that may also set a frozen stream going again.
Add ==
  /\ phase \in {"running", "frozen"}
  /\ deposited' \in (deposited + 1) .. (deposited + payer)
  /\ pot' = pot + (deposited' - deposited)
  /\ payer' = payer - (deposited' - deposited)
  /\ phase' = phase \/ phase' = "running"
  /\ UNCHANGED <<meter, price, period, paid, payee>>

\* Freezing and thawing move neither money nor the meter.
Freeze ==
  /\ phase = "running" /\ phase' = "frozen"
  /\ UNCHANGED <<meter, price, period, deposited, paid, pot, payer, payee>>

Thaw ==
  /\ phase = "frozen" /\ phase' = "running"
  /\ UNCHANGED <<meter, price, period, deposited, paid, pot, payer, payee>>

\* The fair split: what is owed to the payee, the rest to the payer.
Close ==
  /\ phase \in {"running", "frozen"}
  /\ phase' = "closed"
  /\ paid' = Earned
  /\ payee' = payee + Owed
  /\ payer' = payer + (deposited - Earned)
  /\ pot' = 0 /\ meter' = 0
  /\ UNCHANGED <<price, period, deposited>>

\* The record of a closed stream is thrown away.
Discard ==
  /\ phase = "closed" /\ phase' = "none"
  /\ price' = 0 /\ period' = 0 /\ deposited' = 0 /\ paid' = 0
  /\ UNCHANGED <<meter, pot, payer, payee>>

\* The payee may give tokens back outside the escrow.
Outside ==
  /\ payee' \in 0 .. payee
  /\ payer' = payer + (payee - payee')
  /\ UNCHANGED <<phase, meter, price, period, deposited, paid, pot>>

MNext ==
  Open \/ Run \/ Draw \/ Add \/ Freeze \/ Thaw \/ Close \/ Discard \/ Outside

MSpec == MInit /\ [][MNext]_mvars

=============================================================================
