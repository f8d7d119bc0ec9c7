----------------------------- MODULE EscrowDrift -----------------------------
(***************************************************************************)
(* The escrow on a clock that may step back (DriftSpec), with a record of  *)
(* the service that each subscription has really had.  The program keeps   *)
(* no such record: it compares the clock with the anchor and with the      *)
(* instant of a freeze (ClockBackwards) and leaves the rest to             *)
(* checked_sub.                                                            *)
(***************************************************************************)
EXTENDS Escrow

CONSTANT MaxService  \* bound on ran, which the bound on the clock does not give

VARIABLES
  ran,      \* history: the seconds that passed while the stream was Active
  furthest  \* history: the most service seconds its anchor has ever stood for

driftVars == <<vars, ran, furthest>>

Further(seconds) == IF seconds > furthest THEN seconds ELSE furthest

Record ==
  IF state \in Live /\ state' \in Live
  THEN /\ ran' = IF state = "Active" /\ now' > now THEN ran + 1 ELSE ran
       /\ furthest' = Further(Metered')
  ELSE ran' = 0 /\ furthest' = 0

RecordedNext == DriftNext /\ Record /\ ran' <= MaxService

RecordedSpec ==
  Init /\ ran = 0 /\ furthest = 0 /\ [][RecordedNext]_driftVars

\* However often the clock steps back, around any pauses, recoveries and
\* top-ups: the anchor never stands for more service than there was and the
\* merchant has never drawn more than that service costs.
EarnedByService ==
  state \in Live =>
    Metered <= ran /\ withdrawn <= Unlocked(ran, price, period, deposited)

\* The clock is not behind the freeze, and shows as much service as ever.
CaughtUp == now >= ServiceEnd /\ Metered = furthest

\* A step back refuses cancel while the clock is behind (ClockBackwards, or
\* checked_sub on what was paid already) and no longer: once it has caught up
\* either party finds every guard of cancel open, unless it is shut from
\* outside.  A merchant who pauses on a clock that is behind keeps it behind
\* until resume.
CancelReopens ==
  state \in Live /\ CaughtUp /\ ~Shut =>
    \A signer \in CancelAuthority :
      \E g \in BOOLEAN, p \in BOOLEAN : CancelGuards(signer, g, p)

=============================================================================
