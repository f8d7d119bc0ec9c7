-------------------------------- MODULE Escrow --------------------------------
(***************************************************************************)
(* The Nakama on-chain program, seen from one Subscription address: the    *)
(* Plan it snapshots, the Subscription account, its token vault, the two   *)
(* satellite accounts (GracedSubscription, PausedSubscription) and its     *)
(* PaySessions.  Every instruction that can touch them is one action.      *)
(*                                                                         *)
(* A Solana transaction is atomic and writers of one account are           *)
(* serialised, so a handler is one step: it commits with all its effects   *)
(* or reverts with none.  An error path (require!, checked arithmetic,     *)
(* Anchor constraint, failing token CPI) is a conjunct that disables the   *)
(* action.  The constraints of an instruction's Accounts struct are in the *)
(* operator named after it (ChargeAccounts); an optional account the       *)
(* caller may attach or leave out is a Boolean parameter.                  *)
(*                                                                         *)
(* Signers are not values of the model: an instruction bound to one wallet *)
(* by has_one or by seeds is that party's action.  The exceptions are      *)
(* cancel, which accepts two parties, and settle_usage, whose authority is *)
(* stored in the session.                                                  *)
(***************************************************************************)
EXTENDS StreamMath

CONSTANTS
  Terms,          \* the [price, period] arguments of create_plan
  NoPlan,         \* the Plan account does not exist
  Periods,        \* the periods_to_prefund arguments of subscribe
  Amounts,        \* the amounts of top_up and settle_usage, and reservation caps
  Signers,        \* the wallets that try to cancel
  SessionIds, Facilitators,
  NoFacilitator,  \* the PaySession account does not exist
  Funding,        \* tokens the subscriber starts with
  Recirculated,   \* amounts the merchant may hand back outside the program
  MaxGifts,       \* bound on the tokens sent straight to a vault
  MerchantAtaMayClose,  \* the merchant may close the account the plan names
  GraceDuration, U64Max, I64Max,
  MaxTime,        \* bound on the clock
  MaxDrift        \* how far the clock may step back (DriftSpec only)

ASSUME EscrowAssumption ==
  /\ U64Max \in Nat /\ I64Max \in Nat
  /\ Terms \subseteq [price : 0 .. U64Max, period : Int]
  /\ NoPlan \notin Terms
  /\ Periods \subseteq Nat /\ Amounts \subseteq Nat /\ Recirculated \subseteq Nat
  /\ NoFacilitator \notin Facilitators
  /\ Funding \in 0 .. U64Max
  /\ MaxGifts \in Nat /\ MerchantAtaMayClose \in BOOLEAN
  /\ GraceDuration \in Nat
  /\ MaxTime \in 0 .. I64Max
  /\ MaxDrift \in Nat

VARIABLES
  now,               \* Clock::unix_timestamp
  plan,              \* the Plan account
  state,             \* Subscription.state, "None" when the account is absent
  price, period,     \* snapshot of the plan's terms
  deposited, withdrawn,
  streamStart,       \* the anchor of the unlock formula
  nextChargeAt,      \* the keeper's hint
  vault,             \* balance of the vault token account
  subscriberAta, merchantAta,
  gifts,             \* history: of the vault's balance, what no instruction put in
  merchantAtaOpen,   \* the token account that the plan names exists
  enteredGraceAt, graceUntil,      \* GracedSubscription
  pausedAt,                        \* PausedSubscription
  facilitator, usage, reservation  \* PaySession accounts by session id

terms == <<price, period>>
hint == <<nextChargeAt>>
tokens == <<vault, subscriberAta, merchantAta>>
graced == <<enteredGraceAt, graceUntil>>
outside == <<gifts, merchantAtaOpen>>
satellites == <<enteredGraceAt, graceUntil, pausedAt>>
sessions == <<facilitator, usage, reservation>>
vars == <<now, plan, state, price, period, deposited, withdrawn, streamStart,
          nextChargeAt, vault, subscriberAta, merchantAta, gifts,
          merchantAtaOpen, enteredGraceAt, graceUntil, pausedAt, facilitator,
          usage, reservation>>

-----------------------------------------------------------------------------
\* An account that does not exist (vault, satellites).
Absent == -1

SubscriptionState ==
  {"Active", "Paused", "GracePeriod", "Exhausted", "Cancelled"}

\* The states in which the subscription still holds escrow.
Live == {"Active", "Paused", "GracePeriod"}

\* Mutant: arithmetic that is not checked.
UncheckedFitsU64(n) == TRUE

FitsU64(n) == n <= U64Max
FitsI64(n) == n <= I64Max

\* The two parties cancel accepts.
CancelAuthority == {"subscriber", "merchant"}

\* Entitlement at time t by the present anchor, and what is left of it.
UnlockedAt(t) == Unlocked(t - streamStart, price, period, deposited)
ClaimableAt(t) == UnlockedAt(t) - withdrawn

Init ==
  /\ now = 0
  /\ plan = NoPlan
  /\ state = "None"
  /\ price = 0 /\ period = 0
  /\ deposited = 0 /\ withdrawn = 0
  /\ streamStart = 0 /\ nextChargeAt = 0
  /\ vault = Absent
  /\ subscriberAta = Funding /\ merchantAta = 0
  /\ gifts = 0 /\ merchantAtaOpen = TRUE
  /\ enteredGraceAt = Absent /\ graceUntil = Absent /\ pausedAt = Absent
  /\ facilitator = [s \in SessionIds |-> NoFacilitator]
  /\ usage = [s \in SessionIds |-> 0]
  /\ reservation = [s \in SessionIds |-> 0]

-----------------------------------------------------------------------------
(***************************************************************************)
(* Plans and the life of the Subscription account.                         *)
(***************************************************************************)
CreatePlan(t) ==
  /\ plan = NoPlan
  /\ merchantAtaOpen
  /\ t.period > 0
  /\ t.price > 0
  /\ plan' = t
  /\ UNCHANGED <<now, state, terms, deposited, withdrawn, streamStart, hint,
                 tokens, outside, satellites, sessions>>

\* init: neither the Subscription nor its vault exists yet.
SubscribeAccounts == plan # NoPlan /\ state = "None" /\ vault = Absent

\* The Subscription and the vault that subscribe makes out of the plan, paid
\* from the subscriber's token account when that holds `wallet`.
NewSubscription(periods, wallet) ==
  LET deposit == plan.price * periods IN
  /\ plan.period > 0
  /\ periods >= 1
  /\ plan.price \div plan.period >= 1
  /\ FitsU64(deposit)
  /\ wallet >= deposit
  /\ FitsI64(now + plan.period)
  /\ vault' = deposit
  /\ subscriberAta' = wallet - deposit
  /\ nextChargeAt' = now + plan.period
  /\ price' = plan.price /\ period' = plan.period
  /\ state' = "Active"
  /\ deposited' = deposit /\ withdrawn' = 0
  /\ streamStart' = now
  /\ UNCHANGED <<now, plan, outside>>

Subscribe(periods) ==
  /\ SubscribeAccounts
  /\ NewSubscription(periods, subscriberAta)
  /\ UNCHANGED <<merchantAta, satellites, sessions>>

\* Only the Subscription account goes; PaySessions are not enumerated.
Cleanup ==
  /\ state \in {"Cancelled", "Exhausted"}
  /\ state' = "None"
  /\ price' = 0 /\ period' = 0
  /\ deposited' = 0 /\ withdrawn' = 0
  /\ streamStart' = 0 /\ nextChargeAt' = 0
  /\ UNCHANGED <<now, plan, tokens, outside, satellites, sessions>>

-----------------------------------------------------------------------------
(***************************************************************************)
(* charge: the permissionless keeper instruction.                          *)
(***************************************************************************)
\* The account the merchant is paid into must exist.  The grace satellite is
\* `init`: attaching it needs it not to exist.
ChargeAccounts(attach) ==
  merchantAtaOpen /\ (attach => enteredGraceAt = Absent)

\* Mutant: the transfer is made but withdrawn_amount is not bumped.
UncountedPayMerchant(amount) ==
  /\ vault >= amount
  /\ vault' = vault - amount
  /\ merchantAta' = merchantAta + amount
  /\ UNCHANGED withdrawn

\* The token transfer and the bump of withdrawn_amount that charge and
\* settle_usage share.
PayMerchant(amount) ==
  /\ vault >= amount
  /\ vault' = vault - amount
  /\ merchantAta' = merchantAta + amount
  /\ withdrawn' = withdrawn + amount

\* Mutant: a healthy charge accepts the satellite and leaves it zeroed.
UnguardedChargeTail(attach, exhausted) ==
  IF exhausted
  THEN /\ attach
       /\ enteredGraceAt' = now /\ graceUntil' = now + GraceDuration
       /\ state' = "GracePeriod"
  ELSE /\ IF attach THEN enteredGraceAt' = 0 /\ graceUntil' = 0
                    ELSE UNCHANGED graced
       /\ UNCHANGED state

\* Mutant: whoever attaches the satellite puts the subscription in grace.
EagerChargeTail(attach, exhausted) ==
  IF attach
  THEN /\ enteredGraceAt' = now /\ graceUntil' = now + GraceDuration
       /\ state' = "GracePeriod"
  ELSE ~exhausted /\ UNCHANGED <<state, graced>>

\* The tail of charge: the charge that uses up the deposit must bring the
\* grace satellite, every other charge must not.
ChargeTail(attach, exhausted) ==
  \/ /\ exhausted /\ attach
     /\ FitsI64(now + GraceDuration)
     /\ enteredGraceAt' = now /\ graceUntil' = now + GraceDuration
     /\ state' = "GracePeriod"
  \/ /\ ~exhausted /\ ~attach
     /\ UNCHANGED <<state, graced>>

\* Mutant: the covered seconds are counted from now, not from the anchor.
LateChargeHint(w) == now + CoveredSeconds(w, price, period) + period

\* The hint after a charge that brings the total to w.
ChargeHint(w) == streamStart + CoveredSeconds(w, price, period) + period

Charge(attach) ==
  LET claimable == ClaimableAt(now)
      total == withdrawn + claimable
  IN
  /\ ChargeAccounts(attach)
  /\ state = "Active"
  /\ now >= streamStart
  /\ claimable > 0
  /\ PayMerchant(claimable)
  /\ FitsI64(ChargeHint(total))
  /\ nextChargeAt' = ChargeHint(total)
  /\ ChargeTail(attach, total = deposited)
  /\ UNCHANGED <<now, plan, terms, deposited, streamStart, subscriberAta,
                 outside, pausedAt, sessions>>

-----------------------------------------------------------------------------
(***************************************************************************)
(* top_up, pause, resume: the subscriber adds escrow, the merchant freezes *)
(* and thaws the stream.  A freeze ends by moving the anchor forward.      *)
(***************************************************************************)
\* Mutant: a recovery that writes off the seconds streamed before grace.
ForgetfulRecoveredStart == now

\* Mutant: the length of the pause stays behind the anchor.
UnshiftedResumedStart == streamStart

\* Mutants: a resume that forgets the seconds streamed before the pause, and
\* one that adds the time of day instead of the length of the pause.
ForgetfulResumedStart == now
SkewedResumedStart == streamStart + now

\* The anchor after a recovery from grace, and after a resume.
RecoveredStart == streamStart + (now - enteredGraceAt)
ResumedStart == streamStart + (now - pausedAt)

TopUpTail ==
  \/ /\ state = "GracePeriod"
     /\ now >= enteredGraceAt
     /\ FitsI64(RecoveredStart)
     /\ streamStart' = RecoveredStart
     /\ state' = "Active"
  \/ /\ state # "GracePeriod"
     /\ UNCHANGED <<state, streamStart>>

\* Attaching the grace satellite needs it to exist; exit closes it.
TopUpAccounts(attach) == attach => enteredGraceAt # Absent

\* Mutant: the satellite is not asked for in grace.
LaxTopUpStates(attach) == state \in Live

\* The states that take a top-up; grace needs its satellite.
TopUpStates(attach) ==
  /\ state \in Live
  /\ state = "GracePeriod" => attach

TopUp(amount, attach) ==
  /\ TopUpAccounts(attach)
  /\ amount > 0
  /\ TopUpStates(attach)
  /\ subscriberAta >= amount
  /\ subscriberAta' = subscriberAta - amount
  /\ FitsU64(vault + amount)
  /\ vault' = vault + amount
  /\ FitsU64(deposited + amount)
  /\ deposited' = deposited + amount
  /\ TopUpTail
  /\ IF attach THEN enteredGraceAt' = Absent /\ graceUntil' = Absent
               ELSE UNCHANGED graced
  /\ UNCHANGED <<now, plan, terms, withdrawn, hint, merchantAta, outside,
                 pausedAt, sessions>>

\* The pause satellite is `init` in pause and closed by resume.
PauseAccounts == pausedAt = Absent
ResumeAccounts == pausedAt # Absent

Pause ==
  /\ PauseAccounts
  /\ state = "Active"
  /\ now >= streamStart
  /\ pausedAt' = now
  /\ state' = "Paused"
  /\ UNCHANGED <<now, plan, terms, deposited, withdrawn, streamStart, hint,
                 tokens, outside, graced, sessions>>

Resume ==
  /\ ResumeAccounts
  /\ state = "Paused"
  /\ now >= pausedAt
  /\ FitsI64(ResumedStart)
  /\ streamStart' = ResumedStart
  /\ state' = "Active"
  /\ pausedAt' = Absent
  /\ UNCHANGED <<now, plan, terms, deposited, withdrawn, hint, tokens, outside,
                 graced, sessions>>

-----------------------------------------------------------------------------
(***************************************************************************)
(* cancel: settle the merchant, refund the subscriber, close the vault.    *)
(***************************************************************************)
\* Mutant: a pause does not stop the settlement clock.
UnfrozenEffectiveNow == now

\* The instant up to which the settlement counts, by the state cancelled
\* from; a frozen state needs its satellite to know it.
EffectiveNow ==
  CASE state = "Active" -> now
    [] state = "GracePeriod" -> Lesser(now, graceUntil)
    [] state = "Paused" -> pausedAt

\* The merchant's account must exist, even for a settlement of nothing.
\* Attaching a satellite needs it to exist; exit closes it.
CancelAccounts(attachGraced, attachPaused) ==
  /\ merchantAtaOpen
  /\ attachGraced => enteredGraceAt # Absent
  /\ attachPaused => pausedAt # Absent

\* What the settlement pays the merchant and gives back to the subscriber.
FinalClaimable == UnlockedAt(EffectiveNow) - withdrawn
Refund == deposited - UnlockedAt(EffectiveNow)

\* Mutant: the vault is closed over whatever the two transfers leave in it.
OverfullCancelGuards(signer, attachGraced, attachPaused) ==
  /\ CancelAccounts(attachGraced, attachPaused)
  /\ signer \in CancelAuthority
  /\ state \in Live
  /\ now >= streamStart
  /\ state = "GracePeriod" => attachGraced
  /\ state = "Paused" => attachPaused
  /\ EffectiveNow >= streamStart
  /\ FinalClaimable >= 0 /\ Refund >= 0
  /\ vault - FinalClaimable - Refund >= 0

CancelGuards(signer, attachGraced, attachPaused) ==
  /\ CancelAccounts(attachGraced, attachPaused)
  /\ signer \in CancelAuthority
  /\ state \in Live
  /\ now >= streamStart
  /\ state = "GracePeriod" => attachGraced
  /\ state = "Paused" => attachPaused
  /\ EffectiveNow >= streamStart
  /\ FinalClaimable >= 0 /\ Refund >= 0
  \* SPL closes empty accounts only, and the two transfers leave any gift.
  /\ vault - FinalClaimable - Refund = 0

Cancel(signer, attachGraced, attachPaused) ==
  /\ CancelGuards(signer, attachGraced, attachPaused)
  /\ vault' = Absent
  /\ merchantAta' = merchantAta + FinalClaimable
  /\ subscriberAta' = subscriberAta + Refund
  /\ state' = "Cancelled"
  /\ withdrawn' = withdrawn + FinalClaimable
  /\ IF attachGraced THEN enteredGraceAt' = Absent /\ graceUntil' = Absent
                     ELSE UNCHANGED graced
  /\ pausedAt' = IF attachPaused THEN Absent ELSE pausedAt
  /\ UNCHANGED <<now, plan, terms, deposited, streamStart, hint, outside,
                 sessions>>

-----------------------------------------------------------------------------
(***************************************************************************)
(* x402 sessions.  PaySessionState.Settling is set and cleared inside one  *)
(* settle_usage, so every committed session is Open.                       *)
(***************************************************************************)
\* Mutant: a session can be closed only while its parent holds escrow.
LiveOnlyCloseSessionAccounts(s) ==
  facilitator[s] # NoFacilitator /\ state \in Live

\* open_session is `init`; settle_usage pays into the merchant's account and
\* is signed by the session's facilitator; close_session needs the parent
\* account to exist.
OpenSessionAccounts(s) == facilitator[s] = NoFacilitator
SettleUsageAccounts(s, f) ==
  merchantAtaOpen /\ facilitator[s] # NoFacilitator /\ facilitator[s] = f
CloseSessionAccounts(s) ==
  facilitator[s] # NoFacilitator /\ state \in SubscriptionState

OpenSession(s, f, cap) ==
  /\ OpenSessionAccounts(s)
  /\ state = "Active"
  /\ deposited >= withdrawn
  /\ cap = 0 \/ cap <= deposited - withdrawn
  /\ facilitator' = [facilitator EXCEPT ![s] = f]
  /\ usage' = [usage EXCEPT ![s] = 0]
  /\ reservation' = [reservation EXCEPT ![s] = cap]
  /\ UNCHANGED <<now, plan, state, terms, deposited, withdrawn, streamStart,
                 hint, tokens, outside, satellites>>

SettleUsage(s, f, amount) ==
  /\ SettleUsageAccounts(s, f)
  /\ amount > 0
  /\ state = "Active"
  /\ reservation[s] > 0 => usage[s] + amount <= reservation[s]
  /\ now >= streamStart
  /\ amount <= ClaimableAt(now)
  /\ PayMerchant(amount)
  /\ FitsU64(usage[s] + amount)
  /\ usage' = [usage EXCEPT ![s] = @ + amount]
  /\ UNCHANGED <<now, plan, state, terms, deposited, streamStart, hint,
                 subscriberAta, outside, satellites, facilitator, reservation>>

\* Works in every state of the parent.
CloseSession(s) ==
  /\ CloseSessionAccounts(s)
  /\ facilitator' = [facilitator EXCEPT ![s] = NoFacilitator]
  /\ usage' = [usage EXCEPT ![s] = 0]
  /\ reservation' = [reservation EXCEPT ![s] = 0]
  /\ UNCHANGED <<now, plan, state, terms, deposited, withdrawn, streamStart,
                 hint, tokens, outside, satellites>>

-----------------------------------------------------------------------------
(***************************************************************************)
(* The environment: the cluster clock, the wallets and the token program.  *)
(***************************************************************************)
Tick ==
  /\ now < MaxTime
  /\ now' = now + 1
  /\ UNCHANGED <<plan, state, terms, deposited, withdrawn, streamStart, hint,
                 tokens, outside, satellites, sessions>>

\* A token transfer outside the program, from the merchant to the subscriber.
HandBack(amount) ==
  /\ amount <= merchantAta
  /\ merchantAta' = merchantAta - amount
  /\ subscriberAta' = subscriberAta + amount
  /\ UNCHANGED <<now, plan, state, terms, deposited, withdrawn, streamStart,
                 hint, vault, outside, satellites, sessions>>

\* Anybody sends tokens straight to the vault's address: no instruction runs,
\* so no counter knows of them.
Gift(amount) ==
  /\ vault # Absent
  /\ gifts + amount <= MaxGifts
  /\ FitsU64(vault + amount)
  /\ vault' = vault + amount
  /\ gifts' = gifts + amount
  /\ UNCHANGED <<now, plan, state, terms, deposited, withdrawn, streamStart,
                 hint, subscriberAta, merchantAta, merchantAtaOpen, satellites,
                 sessions>>

\* create_plan takes any token account of the merchant's, who owns it and may
\* close it; what it held goes to another account first, so merchantAta, which
\* counts all the merchant holds, stays.
CloseMerchantAta ==
  /\ MerchantAtaMayClose
  /\ plan # NoPlan /\ merchantAtaOpen
  /\ merchantAtaOpen' = FALSE
  /\ UNCHANGED <<now, plan, state, terms, deposited, withdrawn, streamStart,
                 hint, tokens, gifts, satellites, sessions>>

\* The account is made again at the same address.  Nobody has to.
ReopenMerchantAta ==
  /\ ~merchantAtaOpen
  /\ merchantAtaOpen' = TRUE
  /\ UNCHANGED <<now, plan, state, terms, deposited, withdrawn, streamStart,
                 hint, tokens, gifts, satellites, sessions>>

\* A clock that steps back, which the ClockBackwards guards anticipate.
ClockBack ==
  /\ now' \in {t \in 0 .. MaxTime : t < now /\ t >= now - MaxDrift}
  /\ UNCHANGED <<plan, state, terms, deposited, withdrawn, streamStart, hint,
                 tokens, outside, satellites, sessions>>

AccountStep == Cleanup \/ \E n \in Periods : Subscribe(n)

SubscriberStep ==
  \/ \E a \in Amounts, attach \in BOOLEAN : TopUp(a, attach)
  \/ \E s \in SessionIds, f \in Facilitators, cap \in Amounts \cup {0} :
       OpenSession(s, f, cap)
  \/ \E s \in SessionIds : CloseSession(s)

MerchantStep ==
  \/ \E t \in Terms : CreatePlan(t)
  \/ Pause
  \/ Resume

PartyCancel ==
  \E signer \in Signers, g \in BOOLEAN, p \in BOOLEAN : Cancel(signer, g, p)

KeeperStep == \E attach \in BOOLEAN : Charge(attach)

FacilitatorStep ==
  \E s \in SessionIds, f \in Facilitators, a \in Amounts : SettleUsage(s, f, a)

\* What the token program lets the owners of the accounts do without this one.
TokenStep ==
  \/ \E a \in 1 .. MaxGifts : Gift(a)
  \/ CloseMerchantAta
  \/ ReopenMerchantAta

\* Everything but the creation and the removal of the Subscription account.
UseNext ==
  \/ SubscriberStep
  \/ MerchantStep
  \/ PartyCancel
  \/ KeeperStep
  \/ FacilitatorStep
  \/ Tick
  \/ \E a \in Recirculated : HandBack(a)
  \/ TokenStep

Next == AccountStep \/ UseNext

Spec == Init /\ [][Next]_vars

DriftNext == Next \/ ClockBack
DriftSpec == Init /\ [][DriftNext]_vars

-----------------------------------------------------------------------------
(***************************************************************************)
(* Properties.                                                             *)
(***************************************************************************)
Timestamp == 0 .. I64Max
Amount == 0 .. U64Max

\* Every account field stays in the range of its Rust type.
TypeOK ==
  /\ now \in 0 .. MaxTime
  /\ plan \in Terms \cup {NoPlan}
  /\ state \in SubscriptionState \cup {"None"}
  /\ price \in Amount /\ period \in Timestamp
  /\ deposited \in Amount /\ withdrawn \in Amount
  /\ streamStart \in Timestamp /\ nextChargeAt \in Timestamp
  /\ vault \in Amount \cup {Absent}
  /\ subscriberAta \in Nat /\ merchantAta \in Nat
  /\ gifts \in 0 .. MaxGifts /\ merchantAtaOpen \in BOOLEAN
  /\ enteredGraceAt \in Timestamp \cup {Absent}
  /\ graceUntil \in Timestamp \cup {Absent}
  /\ pausedAt \in Timestamp \cup {Absent}
  /\ facilitator \in [SessionIds -> Facilitators \cup {NoFacilitator}]
  /\ usage \in [SessionIds -> Amount]
  /\ reservation \in [SessionIds -> Nat]

\* The vault holds exactly deposited - withdrawn, never less than nothing, and
\* untouched on top of it what was sent straight to it, until cancel closes it:
\* the two writers of withdrawn_amount (charge and settle_usage) never spend
\* the same token twice, and no vault is closed with a token in it.
EscrowExact ==
  /\ withdrawn <= deposited
  /\ vault = IF state \in Live THEN deposited - withdrawn + gifts ELSE Absent
  /\ state \notin Live => gifts = 0

\* The grace satellite exists exactly in GracePeriod and the pause satellite
\* exactly in Paused, whatever accounts the callers of the permissionless
\* charge, of top_up and of cancel choose to attach.
SatelliteIff ==
  /\ (enteredGraceAt # Absent) <=> (state = "GracePeriod")
  /\ (graceUntil # Absent) <=> (state = "GracePeriod")
  /\ (pausedAt # Absent) <=> (state = "Paused")

\* The instant at which the stream last ran, and the service seconds the
\* anchor stands for.
ServiceEnd ==
  CASE state = "Active" -> now
    [] state = "GracePeriod" -> enteredGraceAt
    [] state = "Paused" -> pausedAt
    [] OTHER -> streamStart
Metered == ServiceEnd - streamStart

\* The merchant has never drawn more than the service seconds behind the
\* anchor cost, in any mix of charge and settle_usage around pauses, grace
\* recoveries and top-ups; so the checked_sub of charge, settle_usage and
\* cancel never fails on a clock that does not run backwards.
EarnedOnly ==
  state \in Live =>
    /\ streamStart <= ServiceEnd /\ ServiceEnd <= now
    /\ withdrawn <= Unlocked(Metered, price, period, deposited)

\* In GracePeriod the whole deposit has been earned and withdrawn, so cancel
\* from grace settles nothing and refunds nothing.
GraceIsExhausted ==
  state = "GracePeriod" =>
    /\ withdrawn = deposited
    /\ Accrued(Metered, price, period) >= deposited

\* The two things outside the program that shut cancel: a token in the vault
\* that no counter knows of, which stays there for ever, and the absence of
\* the account the merchant is to be paid into, for as long as it lasts.
Shut == state \in Live /\ (gifts > 0 \/ ~merchantAtaOpen)

\* While escrow is held, either party can cancel at once unless it is shut from
\* outside, and then neither can: no order of pause, grace, charge, settlement
\* and top-up makes cancel revert for every choice of attached satellites.
CancelOpenUnlessShut ==
  state \in Live =>
    \A signer \in CancelAuthority :
      (ENABLED (\E g \in BOOLEAN, p \in BOOLEAN : Cancel(signer, g, p)))
        <=> ~Shut

\* A token sent straight to the vault holds the escrow open for good: no
\* instruction takes it out again, and none closes the subscription or removes
\* its account, whoever signs and whatever is charged, settled or topped up.
GiftHoldsForGood == [][gifts > 0 => gifts' >= gifts /\ state' \in Live]_vars

\* Whenever an Active stream has something to claim and the merchant's account
\* exists, some charge goes through: the satellite guards never reject both
\* ways of calling it, and the overflow checks of the hint and of the grace
\* deadline reject it only when one period or one grace from now is beyond 64
\* bits.
ChargeNeverBricked ==
  (/\ state = "Active" /\ merchantAtaOpen /\ ClaimableAt(now) > 0
   /\ FitsI64(now + period) /\ FitsI64(now + GraceDuration))
  => ENABLED KeeperStep

\* The keeper's prefilter field is never more than one period ahead of the
\* clock, so a subscription is never passed over for longer than a period.
\* Pause, resume, recovery and settle_usage leave the hint alone and may
\* only make it early.
HintNeverLate == state \in Live => nextChargeAt <= now + period

\* What the service had cost beyond the deposit when the exhausting charge
\* came: nothing if it came in the second in which the deposit ran out.
Backlog == Accrued(Metered, price, period) - deposited

\* At the moment of recovery the merchant can claim the backlog, as far as the
\* top-up covers it, and nothing else: not the time spent in grace, however
\* often and however late the stream is recovered.
RecoveryPaysBacklog ==
  [][state = "GracePeriod" /\ state' = "Active" =>
       ClaimableAt(now)' = Lesser(Backlog, deposited' - deposited)]_vars

\* The phase of the meter a subscription state stands for, and the pot: what
\* was sent straight to the vault is not part of it.
Phase ==
  CASE state = "Active" -> "running"
    [] state \in {"Paused", "GracePeriod"} -> "frozen"
    [] state = "None" -> "none"
    [] OTHER -> "closed"
Pot == IF vault = Absent THEN 0 ELSE vault - gifts

\* The escrow implements the service meter: timestamps, satellites and
\* anchor shifts amount to a meter that runs only while the stream is Active.
Meter == INSTANCE StreamMeter WITH
  phase <- Phase, meter <- Metered, paid <- withdrawn, pot <- Pot,
  payer <- subscriberAta, payee <- merchantAta
MeteredStream == Meter!MSpec

=============================================================================
