----------------------------- MODULE RentLedger -----------------------------
(***************************************************************************)
(* Lamports.  Every account of the program holds a rent deposit: the       *)
(* `payer` of its init pays it in, its `close` pays it out.  The actions   *)
(* are those of Escrow, each with the accounts it opens and closes.        *)
(* Transaction fees are left out.                                          *)
(*                                                                         *)
(* The subscriber may decide to leave.  A leaver opens nothing new, closes *)
(* its sessions before it cleans up, and re-subscribes only to get at      *)
(* sessions that an earlier cleanup has cut off from their parent.         *)
(***************************************************************************)
EXTENDS SessionLedger

CONSTANTS
  Rent,      \* the deposit of each kind of account
  Lamports,  \* what each wallet starts with
  Payers     \* the wallets that call charge

Wallets == {"subscriber", "merchant", "keeper"}
Singletons == {"plan", "subscription", "vault", "graced", "paused"}

ASSUME RentAssumption ==
  /\ Rent \in [Singletons \cup {"session"} -> Nat]
  /\ Lamports \in [Wallets -> Nat]
  /\ Payers \subseteq Wallets
  /\ SessionIds \cap Singletons = {}  \* the addresses are distinct PDAs

VARIABLES
  lamports,  \* of each wallet
  balance,   \* of each account of the program
  funder,    \* who paid it in, "nobody" for an account that does not exist
  leaving    \* the subscriber has decided to leave

lvars == <<lamports, balance, funder>>
rentVars == <<vars, lvars, leaving>>

Addresses == Singletons \cup SessionIds
RentOf == [a \in Addresses |-> Rent[IF a \in SessionIds THEN "session" ELSE a]]
TotalRent(accounts) == MapThenSumSet(LAMBDA a : RentOf[a], accounts)
Held(accounts) == MapThenSumSet(LAMBDA a : balance[a], accounts)

RentInit ==
  /\ Init
  /\ lamports = Lamports
  /\ balance = [a \in Addresses |-> 0]
  /\ funder = [a \in Addresses |-> "nobody"]
  /\ leaving = FALSE

-----------------------------------------------------------------------------
\* init: the payer deposits the rent of the new accounts.
Fund(payer, accounts) ==
  /\ lamports[payer] >= TotalRent(accounts)
  /\ lamports' = [lamports EXCEPT ![payer] = @ - TotalRent(accounts)]
  /\ balance' = [a \in Addresses |->
                   IF a \in accounts THEN RentOf[a] ELSE balance[a]]
  /\ funder' = [a \in Addresses |->
                  IF a \in accounts THEN payer ELSE funder[a]]

\* close: all that the accounts hold goes to one wallet.
Release(accounts, wallet) ==
  /\ lamports' = [lamports EXCEPT ![wallet] = @ + Held(accounts)]
  /\ balance' = [a \in Addresses |-> IF a \in accounts THEN 0 ELSE balance[a]]
  /\ funder' = [a \in Addresses |->
                  IF a \in accounts THEN "nobody" ELSE funder[a]]

PaidCreatePlan(t) == CreatePlan(t) /\ Fund("merchant", {"plan"})

PaidSubscribe(n) ==
  Subscribe(n) /\ Fund("subscriber", {"subscription", "vault"})

RefundedCleanup == Cleanup /\ Release({"subscription"}, "subscriber")

\* The satellite of an exhausting charge is paid by whoever calls charge.
GraceInits(attach) == IF attach THEN {"graced"} ELSE {}
PaidCharge(payer, attach) == Charge(attach) /\ Fund(payer, GraceInits(attach))

RefundedTopUp(a, attach) ==
  TopUp(a, attach) /\ Release(GraceInits(attach), "subscriber")

PaidPause == Pause /\ Fund("merchant", {"paused"})
RefundedResume == Resume /\ Release({"paused"}, "merchant")

\* Mutants: the rent follows the signature; the vault alone is paid out.
SigningRentRecipient(signer) == signer
VaultOnlyCancelCloses(g, p) == {"vault"}

\* The wallet that cancel pays rent to, whoever signs, and what it closes.
CancelRentRecipient(signer) == "subscriber"
CancelCloses(g, p) ==
  {"vault"} \cup (IF g THEN {"graced"} ELSE {}) \cup (IF p THEN {"paused"} ELSE {})

RefundedCancel(signer, g, p) ==
  /\ Cancel(signer, g, p)
  /\ Release(CancelCloses(g, p), CancelRentRecipient(signer))

PaidOpenSession(s, f, cap) == OpenSession(s, f, cap) /\ Fund("subscriber", {s})
RefundedCloseSession(s) == CloseSession(s) /\ Release({s}, "subscriber")

-----------------------------------------------------------------------------
Leave ==
  /\ ~leaving
  /\ leaving' = TRUE
  /\ UNCHANGED <<vars, lvars>>

LeaverSubscribe ==
  leaving /\ OpenSessions # {} /\ \E n \in Periods : PaidSubscribe(n)
LeaverCancel ==
  leaving /\ \E g \in BOOLEAN, p \in BOOLEAN : RefundedCancel("subscriber", g, p)
LeaverClose == leaving /\ \E s \in SessionIds : RefundedCloseSession(s)
LeaverCleanup == leaving /\ OpenSessions = {} /\ RefundedCleanup

LeaverStep == LeaverSubscribe \/ LeaverCancel \/ LeaverClose \/ LeaverCleanup

StayerStep ==
  /\ ~leaving
  /\ \/ \E n \in Periods : PaidSubscribe(n)
     \/ RefundedCleanup
     \/ \E a \in Amounts, attach \in BOOLEAN : RefundedTopUp(a, attach)
     \/ \E s \in SessionIds, f \in Facilitators, cap \in Amounts \cup {0} :
          PaidOpenSession(s, f, cap)
     \/ \E s \in SessionIds : RefundedCloseSession(s)

PayerStep == \E payer \in Payers, attach \in BOOLEAN : PaidCharge(payer, attach)

OtherStep ==
  \/ \E t \in Terms : PaidCreatePlan(t)
  \/ PaidPause
  \/ RefundedResume
  \/ PayerStep
  \/ \E signer \in Signers, g \in BOOLEAN, p \in BOOLEAN :
       RefundedCancel(signer, g, p)
  \/ FacilitatorStep /\ UNCHANGED lvars
  \/ Tick /\ UNCHANGED lvars
  \/ TokenStep /\ UNCHANGED lvars

RentNext == Leave \/ ((LeaverStep \/ StayerStep \/ OtherStep) /\ UNCHANGED leaving)

\* The clock never stops; a keeper that looks only at subscriptions whose
\* hint has come due keeps calling charge on them, at its own expense; a
\* subscriber that has decided to leave goes through with it.  Nobody else is
\* obliged to act.
Ticking == Tick /\ UNCHANGED <<lvars, leaving>>
DueCharge ==
  /\ nextChargeAt <= now
  /\ \E attach \in BOOLEAN : PaidCharge("keeper", attach)
  /\ UNCHANGED leaving
Leaving(step) == step /\ UNCHANGED leaving

RentSpec ==
  /\ RentInit /\ [][RentNext]_rentVars
  /\ WF_rentVars(Ticking)
  /\ WF_rentVars(DueCharge)
  /\ WF_rentVars(Leaving(LeaverSubscribe))
  /\ WF_rentVars(Leaving(LeaverCancel))
  /\ WF_rentVars(Leaving(LeaverClose))
  /\ WF_rentVars(Leaving(LeaverCleanup))

-----------------------------------------------------------------------------
Exists(a) ==
  CASE a = "plan" -> plan # NoPlan
    [] a = "subscription" -> state # "None"
    [] a = "vault" -> vault # Absent
    [] a = "graced" -> enteredGraceAt # Absent
    [] a = "paused" -> pausedAt # Absent
    [] OTHER -> facilitator[a] # NoFacilitator

\* Every account that exists holds its rent and nothing is left behind at the
\* address of one that was closed, whatever satellites the callers attached;
\* so no lamport is made or lost.
RentExact ==
  /\ \A a \in Addresses : balance[a] = IF Exists(a) THEN RentOf[a] ELSE 0
  /\ Held(Addresses) + MapThenSumSet(LAMBDA w : lamports[w], Wallets)
       = MapThenSumSet(LAMBDA w : Lamports[w], Wallets)

\* What a wallet holds and what it has lying in accounts it paid for.
Position(w) == lamports[w] + Held({a \in Addresses : funder[a] = w})

\* Rent only ever drifts towards the subscriber: it never loses a lamport of
\* what it paid in, and neither a merchant who signs the cancel nor a keeper
\* ever ends up with more than it put in.
RentFlows ==
  /\ Position("subscriber") >= Lamports["subscriber"]
  /\ \A w \in Wallets \ {"subscriber"} : Position(w) <= Lamports[w]

\* A subscriber whose Subscription is cleaned up and whose sessions are closed
\* has no lamport left anywhere in the program, however it came to that.
Gone == state = "None" /\ OpenSessions = {}
GoneIsWhole == Gone => lamports["subscriber"] >= Lamports["subscriber"]

\* What the merchant has earned is paid by a keeper that follows the hint and
\* can afford the rent of the grace satellite: it is paid, or the stream
\* stops being Active (grace, pause, cancel), or the merchant closes the
\* account it is to be paid into.  The hint must come due before the clock's
\* bound.
EarnedIsPaid ==
  (/\ state = "Active" /\ ClaimableAt(now) > 0 /\ nextChargeAt <= MaxTime
   /\ lamports["keeper"] >= Rent["graced"])
    ~> (state # "Active" \/ ClaimableAt(now) = 0 \/ ~merchantAtaOpen)

\* Sessions cut off from their parent can only be reached by subscribing
\* again, which takes a deposit.
CanLeave == OpenSessions # {} /\ state = "None" => subscriberAta >= plan.price

\* A subscriber that leaves is rid of every account and has all its rent back,
\* or finds cancel shut from outside.  Nothing else holds it up: neither an
\* expired grace, a pause, a merchant's cancel nor orphaned sessions.  As it
\* may still be leaving when a closed merchant account is made again, it gets
\* out once that account stays and no token is sent to the vault.
LeaverIsWhole ==
  (leaving /\ CanLeave)
    ~> (Shut \/ (Gone /\ lamports["subscriber"] >= Lamports["subscriber"]))

\* README: "satellites and vault close back to their payers".
ClosesToPayer ==
  [][\A a \in Addresses :
       funder[a] # "nobody" /\ funder'[a] = "nobody" =>
         lamports'[funder[a]] >= lamports[funder[a]] + balance[a]]_rentVars

\* The accounts whose deposit may go to somebody else: the grace satellite,
\* and the pause satellite at a cancel.
Strays(a) == a = "graced" \/ (a = "paused" /\ state' = "Cancelled")

\* Every other account closes to the wallet that paid for it: the Subscription,
\* the vault, every session and, at resume, the pause satellite, whoever signs
\* and whatever happened since it was opened.
ClosesToPayerButStrays ==
  [][\A a \in Addresses :
       funder[a] # "nobody" /\ funder'[a] = "nobody" /\ ~Strays(a) =>
         lamports'[funder[a]] >= lamports[funder[a]] + balance[a]]_rentVars

=============================================================================
