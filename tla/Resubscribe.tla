---------------------------- MODULE Resubscribe ----------------------------
(***************************************************************************)
(* The SDKs' way of creating a Subscription account, beside the program of *)
(* Escrow: the caller reads the account, lists its PaySessions, takes a    *)
(* blockhash and submits one transaction                                   *)
(*     [close_session x N, cleanup, subscribe]   over a Cancelled account  *)
(*     [subscribe]                               where there is none.      *)
(* Between any two of these awaits every other party may act.              *)
(*                                                                         *)
(* The subscriber creates and removes the account in no other way: a bare  *)
(* cleanup would orphan the sessions before any attempt could list them.   *)
(*                                                                         *)
(* An attempt is one call of resubscribe_or_subscribe (Rust) or of         *)
(* resubscribeOrSubscribe (TypeScript).  Two overlap when the subscriber   *)
(* uses two devices, or retries after an RPC error while the first         *)
(* transaction can still land.                                             *)
(***************************************************************************)
EXTENDS SessionLedger

CONSTANTS
  Attempts,
  CloseAlive,      \* the close-alive-sessions argument
  MaxInlineCloses, \* MAX_INLINE_PAY_SESSION_CLOSES
  BlockhashTtl     \* seconds for which a signed transaction can land

ASSUME ResubscribeAssumption ==
  /\ CloseAlive \in BOOLEAN
  /\ MaxInlineCloses \in Nat /\ BlockhashTtl \in Nat

VARIABLES
  pc,            \* where each attempt waits
  seenState,     \* the subscription state it read
  seenSessions,  \* the sessions it listed
  signedAt       \* when it took its blockhash

avars == <<pc, seenState, seenSessions, signedAt>>
rvars == <<vars, avars>>

RInit ==
  /\ Init
  /\ pc = [c \in Attempts |-> "idle"]
  /\ seenState = [c \in Attempts |-> "None"]
  /\ seenSessions = [c \in Attempts |-> {}]
  /\ signedAt = [c \in Attempts |-> 0]

\* The call returns, with a result or an error; its locals are gone.
Return(c) ==
  /\ pc' = [pc EXCEPT ![c] = "idle"]
  /\ seenState' = [seenState EXCEPT ![c] = "None"]
  /\ seenSessions' = [seenSessions EXCEPT ![c] = {}]
  /\ signedAt' = [signedAt EXCEPT ![c] = 0]

\* The states over which a new subscription can be built.
Replaceable == {"None", "Cancelled"}

-----------------------------------------------------------------------------
(***************************************************************************)
(* The Rust SDK.                                                           *)
(***************************************************************************)
\* Step 1: read the Subscription; an account that is not Cancelled ends the
\* call with SubscriptionAlive.  Without a tombstone there is nothing to list.
Observe(c) ==
  /\ pc[c] = "idle"
  /\ state \in Replaceable
  /\ seenState' = [seenState EXCEPT ![c] = state]
  /\ pc' = [pc EXCEPT ![c] =
              IF CloseAlive /\ state = "Cancelled" THEN "list" ELSE "sign"]
  /\ UNCHANGED <<vars, seenSessions, signedAt>>

\* Mutant: the first page of the listing only.
ShortListing ==
  IF OpenSessions = {} THEN {} ELSE {CHOOSE s \in OpenSessions : TRUE}

\* The Open PaySessions of the subscription, as getProgramAccounts sees them.
Listing == OpenSessions

\* Mutant: a full transaction is taken for an overfull one.
HastyTooMany(n) == n >= MaxInlineCloses

\* More sessions than one transaction can close.
TooMany(n) == n > MaxInlineCloses

\* Steps 2 and 3: list the sessions and build; too many end the call with
\* TooManyPaySessions.
List(c) ==
  /\ pc[c] = "list"
  /\ \/ TooMany(Cardinality(Listing)) /\ Return(c)
     \/ /\ ~TooMany(Cardinality(Listing))
        /\ pc' = [pc EXCEPT ![c] = "sign"]
        /\ seenSessions' = [seenSessions EXCEPT ![c] = Listing]
        /\ UNCHANGED <<seenState, signedAt>>
  /\ UNCHANGED vars

\* Step 4: the blockhash, the size check and the signature.
Sign(c) ==
  /\ pc[c] = "sign"
  /\ pc' = [pc EXCEPT ![c] = "send"]
  /\ signedAt' = [signedAt EXCEPT ![c] = now]
  /\ UNCHANGED <<vars, seenState, seenSessions>>

-----------------------------------------------------------------------------
(***************************************************************************)
(* The TypeScript SDK: the read takes any state and the builder refuses.   *)
(***************************************************************************)
TsFetchState(c) ==
  /\ pc[c] = "idle"
  /\ seenState' = [seenState EXCEPT ![c] = state]
  /\ pc' = [pc EXCEPT ![c] =
              IF CloseAlive /\ state = "Cancelled" THEN "find" ELSE "build"]
  /\ UNCHANGED <<vars, seenSessions, signedAt>>

\* Mutant: the listing skips the sessions that have been used.
UnusedTsListing == {s \in OpenSessions : usage[s] = 0}

\* The Open PaySessions that findAlivePaySessions returns.
TsListing == OpenSessions

TsFindSessions(c) ==
  /\ pc[c] = "find"
  /\ seenSessions' = [seenSessions EXCEPT ![c] = TsListing]
  /\ pc' = [pc EXCEPT ![c] = "build"]
  /\ UNCHANGED <<vars, seenState, signedAt>>

\* buildResubscribeIxs throws on too many sessions and on a live account.
TsBuildable(c) ==
  /\ Cardinality(seenSessions[c]) <= MaxInlineCloses
  /\ seenState[c] \in Replaceable

TsBuild(c) ==
  /\ pc[c] = "build"
  /\ \/ ~TsBuildable(c) /\ Return(c)
     \/ /\ TsBuildable(c)
        /\ pc' = [pc EXCEPT ![c] = "sign"]
        /\ UNCHANGED <<seenState, seenSessions, signedAt>>
  /\ UNCHANGED vars

-----------------------------------------------------------------------------
\* Mutant: a cleanup that closes the account in any state.
UnguardedComposite(closes, periods) ==
  /\ CloseSessions(closes)
  /\ NewSubscription(periods, subscriberAta)
  /\ UNCHANGED <<merchantAta, satellites>>

\* The instructions of the composite transaction, in order, all or nothing:
\* every listed session still exists, the account is still a tombstone.
Composite(closes, periods) ==
  /\ CloseSessions(closes)
  /\ state \in {"Cancelled", "Exhausted"}
  /\ NewSubscription(periods, subscriberAta)
  /\ UNCHANGED <<merchantAta, satellites>>

\* Step 5: the transaction lands while its blockhash is valid.
Land(c, periods) ==
  /\ pc[c] = "send"
  /\ now <= signedAt[c] + BlockhashTtl
  /\ IF seenState[c] = "None" THEN Subscribe(periods)
                              ELSE Composite(seenSessions[c], periods)
  /\ Return(c)

\* An RPC read fails, the message is over the size limit, or the transaction
\* reverts, is dropped or expires: the call returns an error.
Fail(c) ==
  /\ pc[c] # "idle"
  /\ Return(c)
  /\ UNCHANGED vars

RustStep(c) == Observe(c) \/ List(c)
TsStep(c) == TsFetchState(c) \/ TsFindSessions(c) \/ TsBuild(c)

AttemptStep(c) ==
  \/ RustStep(c)
  \/ TsStep(c)
  \/ Sign(c)
  \/ Fail(c)
  \/ \E n \in Periods : Land(c, n)

RNext ==
  \/ \E c \in Attempts : AttemptStep(c)
  \/ UseNext /\ UNCHANGED avars

RSpec == RInit /\ [][RNext]_rvars

\* A caller that calls again whenever a call has failed, with an RPC node
\* that does not fail the same step for ever.  Every call ends.
Retrying(c) ==
  /\ WF_rvars(Observe(c) \/ TsFetchState(c))
  /\ WF_rvars(Fail(c))
  /\ SF_rvars(List(c))
  /\ SF_rvars(TsFindSessions(c))
  /\ SF_rvars(TsBuild(c))
  /\ SF_rvars(Sign(c))
  /\ SF_rvars(\E n \in Periods : Land(c, n))

RetrySpec == RSpec /\ \A c \in Attempts : Retrying(c)

-----------------------------------------------------------------------------
\* A new subscription starts with no session: no facilitator the subscriber
\* hired for an earlier one can draw on its escrow.
FreshStart ==
  [][(state \in Replaceable /\ state' = "Active") =>
       OpenSessions' = {}]_rvars

\* A tombstone does not keep its subscriber out: as long as its sessions fit
\* one transaction and the wallet covers a period, calling again gets through,
\* although sessions may be closed and time may pass under every attempt.
RetryGetsThrough ==
  (/\ state = "Cancelled" /\ subscriberAta >= plan.price
   /\ Cardinality(OpenSessions) <= MaxInlineCloses)
    ~> (state = "Active")

\* No token of the two parties is lost or made, however late a composite
\* lands: it never replaces a subscription that has come to life in the
\* meantime and with it the record of what its vault holds.
TokensConserved == Pot + subscriberAta + merchantAta = Funding

=============================================================================
