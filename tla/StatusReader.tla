---------------------------- MODULE StatusReader ----------------------------
(***************************************************************************)
(* The facilitator's GET /subscriptions/{pda}/computed-status beside the   *)
(* program: the handler awaits the Subscription account, then awaits the   *)
(* GracedSubscription account, then derives the status with its host       *)
(* clock.  The program runs between the two reads.                         *)
(***************************************************************************)
EXTENDS Escrow, ComputedStatus

CONSTANT HostSkew   \* how far the host clock is from the chain's, either way

ASSUME ReaderAssumption == HostSkew \in Nat

VARIABLES
  seen,       \* the Subscription the handler has read, or NotRead
  published   \* the last answer, or NoAnswer

svars == <<vars, seen, published>>

NotRead == [state |-> "NotRead"]
NoAnswer == [kind |-> "NoAnswer"]

\* The account as decoded, and the satellite as a lookup would find it.
View == [state |-> state, price |-> price, period |-> period,
         deposited |-> deposited, withdrawn |-> withdrawn,
         streamStart |-> streamStart]
GraceLookup == IF graceUntil = Absent THEN NoSatellite ELSE graceUntil

SInit == Init /\ seen = NotRead /\ published = NoAnswer

\* First await; a missing account is answered with 404.
ReadSubscription ==
  /\ seen = NotRead
  /\ state # "None"
  /\ seen' = View
  /\ UNCHANGED <<vars, published>>

\* Second await, the host clock, and the answer.
ReadGraceAndDerive ==
  /\ seen # NotRead
  /\ \E skew \in -HostSkew .. HostSkew :
       published' = RustStatus(seen, GraceLookup, now + skew)
  /\ seen' = NotRead
  /\ UNCHANGED vars

\* The second read or its decoding fails and the handler answers an error.
ReadFails ==
  /\ seen # NotRead
  /\ seen' = NotRead
  /\ UNCHANGED <<vars, published>>

SNext ==
  \/ ReadSubscription
  \/ ReadGraceAndDerive
  \/ ReadFails
  \/ DriftNext /\ UNCHANGED <<seen, published>>

SSpec == SInit /\ [][SNext]_svars

-----------------------------------------------------------------------------
\* A status derived from the accounts and the clock as they are.
FreshRust == RustStatus(View, GraceLookup, now)
FreshTs == TsStatus(View, GraceLookup, now)

\* The derived claimable is what the program would pay: it is positive exactly
\* when some charge goes through, and then it is the amount that charge moves;
\* the clamps of the off-chain formula hide no difference on any clock.  The
\* status knows nothing of what may refuse the charge for another reason: the
\* merchant's account is gone, or the next hint or the grace deadline is beyond
\* 64 bits.
ClaimableIsChargeable ==
  (/\ state = "Active" /\ merchantAtaOpen
   /\ FitsI64(now + period) /\ FitsI64(now + GraceDuration)) =>
    /\ (FreshRust.claimable > 0) <=> ENABLED KeeperStep
    /\ FreshRust.claimable > 0 => FreshRust.claimable = ClaimableAt(now)

\* The accounts are never corrupt, and Corrupt is answered all the same:
\* exactly when the subscription was in grace at the first read and had left it
\* at the second, so that the answer puts two moments together.  A grace that
\* ended and began again in between goes unnoticed.
CorruptMeansTorn ==
  [][published' # published =>
       ((published'.kind = "Corrupt")
          <=> (seen.state = "GracePeriod" /\ state # "GracePeriod"))]_svars

\* computed_status.rs: "Cross-language byte-equivalent with TS".
CrossLanguageEqual == state # "None" => FreshRust = FreshTs

=============================================================================
