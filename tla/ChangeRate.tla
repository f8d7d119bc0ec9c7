----------------------------- MODULE ChangeRate -----------------------------
(***************************************************************************)
(* Moving a subscriber from one plan to another: the variables of Escrow   *)
(* are the subscription to the old plan, those declared here a second      *)
(* Subscription address, of the same wallets under the new plan.  The SDK  *)
(* reads the old account, lists its PaySessions and builds                 *)
(*     [close_session x N, cancel(old), cleanup(old), subscribe(new)]      *)
(* or, when it finds no old account, [subscribe(new)] alone.  The caller   *)
(* signs and submits; between the reads and the landing every other party  *)
(* may act on either subscription.                                         *)
(*                                                                         *)
(* Both plans are in one token: a plan in another one ends the call with   *)
(* CrossMintMigrationUnsupported before anything is built.                 *)
(***************************************************************************)
EXTENDS SessionLedger

CONSTANTS
  Calls,           \* the migrations that may be under way at once
  CloseAlive, MaxInlineCloses, BlockhashTtl

ASSUME ChangeRateAssumption ==
  /\ CloseAlive \in BOOLEAN
  /\ MaxInlineCloses \in Nat /\ BlockhashTtl \in Nat

VARIABLES
  newPlan, newState, newPrice, newPeriod, newDeposited, newWithdrawn,
  newStart, newHint, newVault, newGifts, newEnteredGraceAt, newGraceUntil,
  newPausedAt, newFacilitator, newUsage, newReservation,
  sdk,           \* the SDK each call was made with
  pc,            \* where it waits
  seenState,     \* the state of the old subscription it read
  seenSessions,  \* the sessions it listed
  blockhashAt    \* when its blockhash was taken

New == INSTANCE Escrow WITH
  plan <- newPlan, state <- newState, price <- newPrice, period <- newPeriod,
  deposited <- newDeposited, withdrawn <- newWithdrawn,
  streamStart <- newStart, nextChargeAt <- newHint, vault <- newVault,
  gifts <- newGifts,
  enteredGraceAt <- newEnteredGraceAt, graceUntil <- newGraceUntil,
  pausedAt <- newPausedAt, facilitator <- newFacilitator, usage <- newUsage,
  reservation <- newReservation

\* What belongs to one address only; the clock, the wallets and the merchant's
\* account are shared.
oldOnly == <<plan, state, terms, deposited, withdrawn, streamStart, hint,
             vault, gifts, satellites, sessions>>
newSatellites == <<newEnteredGraceAt, newGraceUntil, newPausedAt>>
newSessions == <<newFacilitator, newUsage, newReservation>>
newOnly == <<newPlan, newState, newPrice, newPeriod, newDeposited,
             newWithdrawn, newStart, newHint, newVault, newGifts,
             newSatellites, newSessions>>
calls == <<sdk, pc, seenState, seenSessions, blockhashAt>>
mvars == <<vars, newOnly, calls>>

MInit ==
  /\ Init
  /\ New!Init
  /\ sdk = [c \in Calls |-> "rust"]
  /\ pc = [c \in Calls |-> "idle"]
  /\ seenState = [c \in Calls |-> "None"]
  /\ seenSessions = [c \in Calls |-> {}]
  /\ blockhashAt = [c \in Calls |-> 0]

-----------------------------------------------------------------------------
(***************************************************************************)
(* Building the transaction.                                               *)
(***************************************************************************)
\* The call returns, with a result or an error; its locals are gone.
Return(c) ==
  /\ sdk' = [sdk EXCEPT ![c] = "rust"]
  /\ pc' = [pc EXCEPT ![c] = "idle"]
  /\ seenState' = [seenState EXCEPT ![c] = "None"]
  /\ seenSessions' = [seenSessions EXCEPT ![c] = {}]
  /\ blockhashAt' = [blockhashAt EXCEPT ![c] = 0]

\* The new plan must exist; only the Rust SDK insists on the old one too.
\* The caller of the Rust SDK passes the blockhash in, so it is taken first.
RustReadPlans(c) ==
  /\ pc[c] = "idle"
  /\ plan # NoPlan /\ newPlan # NoPlan
  /\ pc' = [pc EXCEPT ![c] = "read"]
  /\ blockhashAt' = [blockhashAt EXCEPT ![c] = now]
  /\ UNCHANGED <<vars, newOnly, sdk, seenState, seenSessions>>

TsReadPlans(c) ==
  /\ pc[c] = "idle"
  /\ newPlan # NoPlan
  /\ pc' = [pc EXCEPT ![c] = "read"]
  /\ sdk' = [sdk EXCEPT ![c] = "ts"]
  /\ UNCHANGED <<vars, newOnly, seenState, seenSessions, blockhashAt>>

\* With the transaction built, the Rust caller submits it and the caller of
\* the TypeScript SDK takes a blockhash for it.
Built(c) == IF sdk[c] = "rust" THEN "send" ELSE "sign"

\* The old subscription, in whatever state; none makes it a plain subscribe.
ReadOldSubscription(c) ==
  /\ pc[c] = "read"
  /\ seenState' = [seenState EXCEPT ![c] = state]
  /\ pc' = [pc EXCEPT ![c] =
              IF CloseAlive /\ state # "None" THEN "list" ELSE Built(c)]
  /\ UNCHANGED <<vars, newOnly, sdk, seenSessions, blockhashAt>>

\* The pre-scan for open sessions; too many end the call.
ListOldSessions(c) ==
  /\ pc[c] = "list"
  /\ \/ Cardinality(OpenSessions) > MaxInlineCloses /\ Return(c)
     \/ /\ Cardinality(OpenSessions) <= MaxInlineCloses
        /\ pc' = [pc EXCEPT ![c] = Built(c)]
        /\ seenSessions' = [seenSessions EXCEPT ![c] = OpenSessions]
        /\ UNCHANGED <<sdk, seenState, blockhashAt>>
  /\ UNCHANGED <<vars, newOnly>>

TsSign(c) ==
  /\ pc[c] = "sign"
  /\ pc' = [pc EXCEPT ![c] = "send"]
  /\ blockhashAt' = [blockhashAt EXCEPT ![c] = now]
  /\ UNCHANGED <<vars, newOnly, sdk, seenState, seenSessions>>

\* Mutant: only the grace satellite is known to the builder.
GraceOnlySatellites(seen) ==
  [graced |-> seen = "GracePeriod", paused |-> FALSE]

\* The satellites each SDK attaches to cancel, by the state it read.
RustCancelSatellites(seen) ==
  CASE seen \in {"Active", "Exhausted", "Cancelled"} ->
         [graced |-> FALSE, paused |-> FALSE]
    [] seen = "GracePeriod" -> [graced |-> TRUE, paused |-> FALSE]
    [] seen = "Paused" -> [graced |-> FALSE, paused |-> TRUE]
TsCancelSatellites(seen) ==
  [graced |-> seen = "GracePeriod", paused |-> seen = "Paused"]

CancelSatellites(c) ==
  IF sdk[c] = "rust" THEN RustCancelSatellites(seenState[c])
                     ELSE TsCancelSatellites(seenState[c])

-----------------------------------------------------------------------------
(***************************************************************************)
(* Executing it.                                                           *)
(***************************************************************************)
\* Mutant: cancel does not close the satellites it was given.
LeakyOldSubscriptionGone(attached) ==
  /\ state' = "None"
  /\ price' = 0 /\ period' = 0
  /\ deposited' = 0 /\ withdrawn' = 0
  /\ streamStart' = 0 /\ nextChargeAt' = 0
  /\ vault' = Absent
  /\ UNCHANGED satellites

\* cleanup after cancel: the account is closed in the same transaction, and
\* the satellites that were attached have gone with the cancel.
OldSubscriptionGone(attached) ==
  /\ state' = "None"
  /\ price' = 0 /\ period' = 0
  /\ deposited' = 0 /\ withdrawn' = 0
  /\ streamStart' = 0 /\ nextChargeAt' = 0
  /\ vault' = Absent
  /\ IF attached.graced THEN enteredGraceAt' = Absent /\ graceUntil' = Absent
                        ELSE UNCHANGED graced
  /\ pausedAt' = IF attached.paused THEN Absent ELSE pausedAt

\* Mutant: the vault is closed and the merchant is not settled.
UnsettledMigration(closes, attached, periods) ==
  /\ CloseSessions(closes)
  /\ CancelGuards("subscriber", attached.graced, attached.paused)
  /\ OldSubscriptionGone(attached)
  /\ New!SubscribeAccounts
  /\ New!NewSubscription(periods, subscriberAta + Refund)
  /\ UNCHANGED <<plan, merchantAta, gifts, newSatellites, newSessions>>

\* The whole transaction: the sessions are closed, cancel settles the merchant
\* and refunds the subscriber, cleanup removes the account, and subscribe
\* draws on the wallet that has just been refunded.
Migration(closes, attached, periods) ==
  /\ CloseSessions(closes)
  /\ CancelGuards("subscriber", attached.graced, attached.paused)
  /\ merchantAta' = merchantAta + FinalClaimable
  /\ OldSubscriptionGone(attached)
  /\ New!SubscribeAccounts
  /\ New!NewSubscription(periods, subscriberAta + Refund)
  /\ UNCHANGED <<plan, gifts, newSatellites, newSessions>>

FreshSubscribe(periods) == New!Subscribe(periods) /\ UNCHANGED oldOnly

\* What a submitted transaction does.
Execute(c, periods) ==
  IF seenState[c] = "None"
  THEN FreshSubscribe(periods)
  ELSE Migration(seenSessions[c], CancelSatellites(c), periods)

Land(c, periods) ==
  /\ pc[c] = "send"
  /\ now <= blockhashAt[c] + BlockhashTtl
  /\ Execute(c, periods)
  /\ Return(c)

\* An RPC read fails, or the transaction reverts, is dropped or expires.
Fail(c) ==
  /\ pc[c] # "idle"
  /\ Return(c)
  /\ UNCHANGED <<vars, newOnly>>

CallStep(c) ==
  \/ RustReadPlans(c)
  \/ TsReadPlans(c)
  \/ ReadOldSubscription(c)
  \/ ListOldSessions(c)
  \/ TsSign(c)
  \/ Fail(c)
  \/ \E n \in Periods : Land(c, n)

\* The other parties act on the old subscription as in Escrow; on the new one
\* the merchant makes the plan, keepers charge, either party cancels and anybody
\* may send tokens to its vault.
OldStep == Next /\ UNCHANGED <<newOnly, calls>>
NewStep ==
  /\ \/ \E t \in Terms : New!CreatePlan(t)
     \/ New!KeeperStep
     \/ New!PartyCancel
     \/ New!Cleanup
     \/ \E a \in 1 .. MaxGifts : New!Gift(a)
  /\ UNCHANGED <<oldOnly, calls>>

MNext == (\E c \in Calls : CallStep(c)) \/ OldStep \/ NewStep

MSpec == MInit /\ [][MNext]_mvars

-----------------------------------------------------------------------------
\* No token of the two parties is lost between the two subscriptions: whatever
\* became of the old one since it was read, its escrow is settled, refunded or
\* still in its vault.
NothingLost == Pot + New!Pot + subscriberAta + merchantAta = Funding

\* The new escrow, paid in part from the refund of the same transaction, is as
\* exact as one that was subscribed to plainly, and the old one leaves neither
\* a vault nor a satellite behind when it is replaced, whatever state it was in
\* when it was read.
BothExact == EscrowExact /\ New!EscrowExact /\ SatelliteIff /\ New!SatelliteIff

\* What the wallet holds once the old escrow is refunded.
AfterRefund == subscriberAta + Refund

\* A migration built from what is still so goes through, from every state in
\* which escrow is held and whatever its history: no choice of satellites, no
\* settlement and no listed session makes it revert while the subscriber can
\* pay for the first period and cancel is not shut from outside.
MigrationNeverBlocked ==
  \A c \in Calls, n \in Periods :
    (/\ pc[c] = "send" /\ now <= blockhashAt[c] + BlockhashTtl
     /\ state \in Live /\ ~Shut /\ seenState[c] = state
     /\ seenSessions[c] \subseteq OpenSessions
     /\ newState = "None"
     /\ AfterRefund >= n * newPlan.price)
    => ENABLED Execute(c, n)

=============================================================================
