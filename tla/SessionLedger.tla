---------------------------- MODULE SessionLedger ----------------------------
(***************************************************************************)
(* What the PaySession accounts of one Subscription address have drawn,    *)
(* against what the Subscription account records.                          *)
(***************************************************************************)
EXTENDS Escrow, FiniteSetsExt

\* A session id is 32 bytes.
ASSUME SessionAssumption == IsFiniteSet(SessionIds)

\* The sessions whose accounts exist.
OpenSessions == {s \in SessionIds : facilitator[s] # NoFacilitator}

\* The close_session instructions at the head of a composite transaction.
CloseSessions(closes) ==
  /\ \A s \in closes : CloseSessionAccounts(s)
  /\ facilitator' = [s \in SessionIds |->
                       IF s \in closes THEN NoFacilitator ELSE facilitator[s]]
  /\ usage' = [s \in SessionIds |-> IF s \in closes THEN 0 ELSE usage[s]]
  /\ reservation' = [s \in SessionIds |->
                       IF s \in closes THEN 0 ELSE reservation[s]]

\* The sessions of a subscription have together drawn no more than its
\* withdrawn_amount records.  state.rs, on usage_amount: "cross-session
\* aggregates read from parent.withdrawn_amount (single source of truth)".
SessionsWithinWithdrawn ==
  state # "None" =>
    MapThenSumSet(LAMBDA s : usage[s], OpenSessions) <= withdrawn

=============================================================================
