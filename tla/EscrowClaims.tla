---------------------------- MODULE EscrowClaims ----------------------------
(***************************************************************************)
(* Statements of the repository's README and comments about the escrow     *)
(* that its code does not bear out.  Each is a property that a run finds   *)
(* violated.                                                               *)
(***************************************************************************)
EXTENDS Escrow

\* README: "stream_start shifts by the time spent in grace, so new funds stream
\* from the recovery moment", that is, nothing is claimable at that moment.
RecoveryStreamsAfresh ==
  [][state = "GracePeriod" /\ state' = "Active" => ClaimableAt(now)' = 0]_vars

=============================================================================
