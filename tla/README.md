# A TLA+ model of the Nakama subscription escrow

Nakama is a Solana program for streaming subscriptions with an x402 pay-per-use
layer on top, two SDKs (Rust, TypeScript) and an HTTP facilitator. This
directory holds TLA+ modules for the program and for the off-chain code that
races it, TLC configurations that check them on small instances, and TLAPS
proofs of the main results for every value of the constants.

Paths: `program/` stands for `src/nakama/programs/nakama/src/`, `client/` for
`src/crates/nakama-client/src/`, `facilitator/` for
`src/crates/nakama-x402-facilitator/src/`, `ts/` for `src/clients/ts/src/`.

## Inventory

| Component | State | Operations | What makes it correct |
|---|---|---|---|
| Streaming arithmetic (`charge.rs`, `cancel.rs`, `settle_usage.rs`, `pause.rs`) | none | `unlocked = min(elapsed * price / period, deposited)`, covered seconds | one rounding, at the end; partial settlements never add up to more than one |
| Escrow (`create_plan`, `subscribe`, `charge`, `top_up`, `cancel`, `cleanup`) | Plan, Subscription, vault | the six instructions | the vault always covers what is owed; cancel works unless it is shut from outside; cancel splits fairly |
| Satellites (`charge`, `top_up`, `pause`, `resume`, `cancel`) | GracedSubscription, PausedSubscription | created and closed by the transitions in and out of their state | satellite exists if and only if the parent is in its state; frozen time is not billed |
| x402 sessions (`open_session`, `settle_usage`, `close_session`) | PaySession per id | the three instructions | shared accounting with `charge`; caps; no session outlives its subscription |
| Re-subscribe (`client/resubscribe.rs`, `ts/instructions/resubscribe.ts`) | one call in progress: state read, sessions listed, blockhash | read, list, sign, send one composite transaction | a new subscription starts clean |
| Change rate (`client/change_rate.rs`, `ts/instructions/changeRate.ts`) | as above, over two Subscription addresses | reads, then an unsigned composite | either on the new plan or never left the old one |
| Computed status (`client/computed_status.rs`, `ts/computedStatus.ts`) | none | derive a status from accounts and a clock | agrees with the program and across languages |
| Facilitator endpoints (`facilitator/handlers/`) | none of their own | computed-status (two reads), top-up (read, blockhash, send) | answers describe a state the accounts were in; a request is carried out once |
| Facilitator shell (`auth.rs`, `config.rs`, `lib.rs`, ...) | the configuration of the running process | start, bearer check, end of the process | a key or limit that was taken away stops mattering |
| Rent (the `init` and `close` constraints of every instruction) | lamports of wallets and accounts | deposit and release | nothing is stranded; nobody pays for the subscriber but by design; a subscriber can leave with its rent unless cancel is shut from outside |
| Decoding, PDAs, discriminators | none | byte conversions | layout agreement |

Interaction. Every on-chain party (keeper, facilitator, subscriber, merchant)
acts through transactions on the same Subscription, vault and satellites. The
runtime serialises writers of one account and a transaction is all or nothing,
so the program's concurrency is the ORDER of instructions, the optional accounts
each caller chooses to attach, and the clock. The off-chain code is where state
is read, awaited over and used later.

Hard behaviours: two writers of `withdrawn_amount`; freezes that move the
anchor; a late exhausting charge; a permissionless instruction with an optional
`init` account; integer limits; a clock that may step back; sessions that
survive their parent; token accounts that others may send to or close; rent paid
by one party and released to another; stale reads, overlapping attempts and torn
pairs of reads off-chain; a facilitator restarted while its transactions are
under way. `PROJECT.json` lists them under `hazards`, each with its line.

## Modules

| Module | Models | Uses |
|---|---|---|
| `StreamMath` | the arithmetic | |
| `Escrow` | all eleven instructions for one Subscription address | `StreamMath`, `StreamMeter` (refinement mapping) |
| `StreamMeter` | abstract specification: a service meter and a prefunded pot | `StreamMath` |
| `EscrowDrift` | the escrow on a clock that may step back, with a record of the service there was | `Escrow` |
| `EscrowProofs` | inductive invariants, safety theorems, and the proof that `Escrow` implements `StreamMeter` | `Escrow` |
| `DriftProofs` | the theorems of `EscrowDrift` | `EscrowDrift`, `EscrowProofs` |
| `SessionLedger` | what sessions have drawn against what the parent records | `Escrow` |
| `EscrowClaims` | statements of the docs about the escrow that the code does not bear out | `Escrow` |
| `RentLedger` | the lamports behind every instruction, a keeper that pays and a subscriber that leaves | `SessionLedger` |
| `Resubscribe` | `resubscribe_or_subscribe` (Rust) and `resubscribeOrSubscribe` (TypeScript), racing everybody | `SessionLedger` |
| `ResubscribeRace` | any number of overlapping re-subscribe calls, with a record of which were overtaken | `Resubscribe` |
| `ChangeRate` | `build_change_rate_tx` and `buildChangeRateTx`, over two Subscription addresses | `SessionLedger`, a second instance of `Escrow` |
| `TopUpEndpoint` | the facilitator process, its top-up handler and the TypeScript top-up builder beside the program | `Escrow` |
| `ComputedStatus` | `derive_status` (Rust) and `deriveStatus` (TypeScript) | `StreamMath` |
| `StatusReader` | the computed-status endpoint beside the program | `Escrow`, `ComputedStatus` |
| `FiniteSums` | what `MapThenSumSet` computes over a finite set | |
| `ResubscribeProofs`, `ChangeRateProofs`, `TopUpProofs`, `StatusProofs`, `RentProofs` | invariants and theorems of the component each is named after | `EscrowProofs`; `FiniteSums` in the first and the last |
| `MCEscrow`, `MCDrift`, `MCClaims`, `MCResubscribe`, `MCOverlap`, `MCChangeRate`, `MCTopUp`, `MCStatus`, `MCRent` | instances for TLC | |

### Escrow

The variables are the account fields: `now` is the clock sysvar, `plan` the
Plan, `state ... nextChargeAt` the Subscription (`state = "None"` when it does
not exist), `vault` the balance of the token account (`Absent` when closed),
`enteredGraceAt`, `graceUntil`, `pausedAt` the satellites, and `facilitator`,
`usage`, `reservation` the PaySessions. `gifts` is the part of the vault that came
past the program, and `merchantAtaOpen` says whether the account that the plan
pins for the merchant exists.

One handler is one action. Its guards are the handler's `require!`s and checked
arithmetic; the constraints of the Accounts struct are in an operator of their
own (`ChargeAccounts`, `CancelAccounts`, ...). The optional satellites of
`charge`, `top_up` and `cancel` are Boolean parameters, chosen freely by the
caller: `init` demands absence, an attached account demands presence, and
`close` at exit removes what was attached. The SPL rule that only an empty
account can be closed is a guard of `Cancel`.

Left out, because nothing reads them back: `rate_per_second`, `created_at`,
`last_charge_at`, `opened_at`, `last_settle_at`, events, bumps and reserved
bytes. Left out, because no property tells them apart: key equality by seeds and
`has_one` (an instruction bound to one wallet IS that party's action), mints.
Lamports are in `RentLedger`. `PaySessionState.Settling` is set and cleared
inside one instruction and cannot be observed. The products of 64-bit numbers
are taken in u128 and cannot overflow, so they are exact; `FitsU64` and
`FitsI64` stand where a result is stored.

Two things happen to the token accounts without the program (`TokenStep`).

* `Gift`: any wallet may send tokens straight to the vault. `cancel` moves the
  claimable and the refund, which come to `deposited - withdrawn`, and then closes
  the vault (`program/instructions/cancel.rs:305-317`), which SPL refuses while
  anything is left in it. No instruction takes the surplus out, so from then on
  `cancel` always reverts, and with it `cleanup` and a migration, for both parties
  (`GiftHoldsForGood`). The stream itself goes on: `charge`, `top_up`, `pause`,
  `resume` and the sessions work as before.
* `CloseMerchantAta`, `ReopenMerchantAta`: `create_plan` takes any token account of
  the merchant's (`create_plan.rs:42-51`), and its owner may close it. `charge`,
  `settle_usage` and `cancel` (`cancel.rs:86-96`) need it to exist, also when
  nothing goes to it, and are refused for as long as it does not.

`Shut` is the one or the other while escrow is held. It is what every statement
below that `cancel` is open makes an exception for, and in
`CancelOpenUnlessShut` it is exact: while shut, no choice of accounts opens
`cancel` to anybody. `EscrowExact` and the pot of `StreamMeter` keep the gifts
apart from the deposit. A mint with a freeze authority could stop every transfer;
that is outside the model.

`Spec` has a clock that does not run backwards; `DriftSpec` adds `ClockBack`, the
case the program's `ClockBackwards` guards anticipate. `HandBack` is a wallet
transfer from the merchant to the subscriber; it lets deposits grow to the
integer limits on a finite supply.

`EscrowDrift` runs `DriftNext` beside two history variables that no code keeps:
`ran`, the seconds that passed while the stream was Active, and `furthest`, the
most seconds its anchor has ever stood for. On such a clock a settlement may
have paid for seconds that the clock has not reached again, so `EarnedOnly` is
false; `EarnedByService` and `CancelReopens` say what is left of it.

### Resubscribe

An attempt is one call, with an await between its steps. The Rust SDK:
`Observe` (account read, refusal of a live account), `List`
(getProgramAccounts, refusal of too many sessions), `Sign` (blockhash and size
check). The TypeScript SDK: `TsFetchState` (read), `TsFindSessions`, `TsBuild`
(where both refusals are), `Sign`. Then `Land` or `Fail`. A transaction can land
for `BlockhashTtl` seconds after its blockhash. `Composite` is the whole
transaction `[close_session x N, cleanup, subscribe]`. All other instructions of
`Escrow` interleave.

`RetrySpec` adds a caller that does not give up: a call that ended is started
again, by either SDK, with fresh reads.

`ResubscribeRace` adds the history variable `overtaken`: the calls under way
since whose first read some subscription was made at the address.
`claim_race_free` shows that overlapping calls can leave a session alive;
`FreshUnlessOvertaken` says that only a call that was overtaken can.

### RentLedger

Every action of `Escrow` that opens or closes an account, conjoined with the
deposit its `init` takes from the `payer` or the release its `close` makes.
`balance` and `funder` say what lies in each account and who put it there;
`lamports` is what the wallets hold, so an instruction whose payer cannot afford
the account is refused. Charge is called by a keeper or by the merchant. `leaving`
is the subscriber's decision to get out: from then on it opens nothing, closes
its sessions, cancels and cleans up, and subscribes again only to reach sessions
that an earlier `cleanup` cut off (`close_session` needs a live or cancelled
parent account). Transaction fees are left out.

### ChangeRate

The variables of `Escrow` are the old subscription; `New` is an instance of
`Escrow` over the `new...` variables, with the clock, the two wallets and the
merchant's account shared. Tokens may be sent to either vault.
A call reads the plans, the old Subscription and its sessions, and its caller
signs and submits. The Rust caller passes a blockhash in, so its age counts from
before the reads; the TypeScript caller takes it afterwards. `Migration` is the
whole transaction: close the listed sessions, `CancelGuards` of the old escrow
with the satellites chosen from the state that was read, settlement, removal of
the account, and `New!NewSubscription` paid from the wallet after the refund.
`FreshSubscribe` is the fallback when no old account was found. Without a second
mint or a second subscriber in the model, `CrossMintMigrationUnsupported` and
`SubscriberMismatch` cannot arise.

### TopUpEndpoint

A request waits at the read, the blockhash and the confirmation. An RPC error
in the answer does not stop the transaction: the request stays in `"send"` and
the caller's retry is a second request. Callers of the TypeScript builder go the
same way without the bearer token and the limit on the amount. The facilitator
itself is `config`: `Start` takes any environment that `Config::from_env`
accepts, `Stop` may come at any moment and takes with it the requests that have
not been sent, and the next start may have another bearer key, another limit or
no signing key. What has been sent is out of its hands.

### ComputedStatus and StatusReader

Both derivations are operators on the decoded view. `StatusReader` reads the
Subscription, then the satellite, then its host clock, with the program (on a
drifting clock) running between the reads. The host clock may be off the chain's
by up to `HostSkew` seconds.

## Runs

| Run | Specification | Bounds | Shows |
|---|---|---|---|
| `core` | `Spec` | 4 plans, 7 tokens, 6 seconds, one session with and without a cap, one token sent to the vault, a merchant account that may close | `EscrowExact`, `SatelliteIff`, `EarnedOnly`, `GraceIsExhausted`, `CancelOpenUnlessShut`, `ChargeNeverBricked`, `HintNeverLate`, `RecoveryPaysBacklog`, `GiftHoldsForGood`, and the refinement `MeteredStream` |
| `limits` | `RecordedSpec` | `U64Max = 7`, `I64Max = 5`, tokens recirculate, a clock that steps back by up to two seconds at any time, at most 6 seconds of service (`MaxService`) | `TypeOK`; `EarnedByService`; overflow guards never block cancel on a clock that has caught up, unless it is shut from outside (`CancelReopens`), nor charge while one more period and one grace fit the clock (`ChargeNeverBricked`) |
| `rent` | `RentSpec` | distinct rents, a subscriber that can just pay for its accounts, a keeper that can pay for one grace satellite, 5 seconds, one session, one token sent to the vault, a merchant account that may close | `RentExact`, `RentFlows`, `GoneIsWhole`, `ClosesToPayerButStrays`; liveness: `EarnedIsPaid` (earned funds are paid by a solvent keeper that follows the hint, unless the account they go to is closed), `LeaverIsWhole` (a leaver gets out with its rent or finds cancel shut) |
| `resubscribe` | `RetrySpec` | one attempt at a time by either SDK, two sessions, at most one inline close | `FreshStart`, `SessionsWithinWithdrawn`; liveness: `RetryGetsThrough` |
| `overlap` | `RaceSpec` | two attempts by either SDK, one session | `TokensConserved`: no late composite replaces a live subscription; `FreshUnlessOvertaken` |
| `migrate` | `MSpec` | one call at a time by either SDK, two sessions, at most one inline close; on the new address the plan is made, charged, cancelled and cleaned up; one token sent to either vault | `NothingLost`, `BothExact`, `MigrationNeverBlocked` |
| `top_up` | `USpec` | two requests, two bearer keys, four environments (two of them refused), a limit of one unit, a blockhash that lives one second | `CurrentTopUpLands`, `StaleTopUpReverts`, `RevocationBites` |
| `status` | `SSpec` | every instruction but the sessions', clock steps back by one second, a host clock one second off either way, a merchant account that may close | money and satellites stay exact on a drifting clock; the derived claimable is what charge would move (`ClaimableIsChargeable`); Corrupt is answered exactly when a grace was left between the two reads (`CorruptMeansTorn`) |
| `claim_*` | | | findings, below |

Why the bounds are enough. A plan of 3 units every 2 seconds makes every other
second round down, so each property meets both the exact and the rounded case.
The clock bound leaves room for a full deposit to stream, a pause or a grace, a
recovery and a second exhaustion. `core` also offers the plans that
`create_plan` (zero price, zero period) and `subscribe` (rate below one unit a
second) must turn away. Grace lasts one second: no instruction but `cancel`
compares with the deadline. `limits` sets the integer widths so low that every
checked operation overflows somewhere. Two sessions are enough for a partial
listing, two attempts for an overlap. `migrate` holds two deposits' worth of
tokens: a subscriber can migrate out of grace with the second, and otherwise
needs the refund. Attempts, requests and (in `migrate`) sessions are
interchangeable, which is what the symmetry sets say. Runs say `CHECK_DEADLOCK
FALSE` because the clock stops at its bound and every party may stop acting.

`MaxGifts` is 1: any surplus, however small, is what keeps the vault from being
closed, and a second token changes nothing. `core`, `rent`, `limits`, `overlap`,
`migrate` and `top_up` have it; in `resubscribe` and `status` nobody sends one,
because a retry cannot get through over a subscription that cannot be cancelled,
and the reader does not look at the vault. `MerchantAtaMayClose` is `TRUE` where a
property is about `charge` or `cancel` being open for good (`core`, `rent`,
`status`) and `FALSE` elsewhere, to keep the runs small; the theorems hold for
either.

In `rent` no two kinds of account cost the same, so that no account
can stand in for another. In `top_up` two seconds are enough for a second grace
period within the life of a transaction that was built in the first, and for a
transaction to expire after the facilitator that signed it has stopped. In
`limits` the clock may go back and forth for ever; `MaxService` lets a stream run
one second longer than the clock's bound, so that the same second is lived
through twice around a pause, a grace or a settlement.

Fairness. In `rent`: time passes (`WF(Ticking)`); some keeper keeps calling the
permissionless `charge` on subscriptions whose `next_charge_at` is due
(`WF(DueCharge)`), which is what the field is first in the layout for
(`program/state.rs:107-109`); a subscriber that has decided to leave goes through
with each step that stays open to it (weak fairness of `LeaverSubscribe`,
`LeaverCancel`, `LeaverClose`, `LeaverCleanup`). `EarnedIsPaid` asks for the hint
to fall within the clock's bound, for a keeper that can afford the grace
satellite and for a merchant account to pay into: a stream whose callers cannot
afford the satellite, or whose merchant has closed that account, may wait for
ever. `LeaverIsWhole` asks for the price of one more period when orphaned
sessions have to be reached through a new subscription, and ends where `cancel` is
shut: nobody is obliged to make the merchant's account again. In `resubscribe`
(`Retrying`): the caller starts again whenever it can and an attempt that cannot
succeed ends (weak); each further step of an attempt is taken if it is possible
again and again (strong), because the steps of one attempt are enabled only while
that attempt lasts, and an RPC node or a leader that fails every single time
would defeat any retry. Nobody else is obliged to act anywhere.

## Findings

Each is a statement in the repository that TLC refutes on the model; details and
quotations are in `PROJECT.json`.

* `claim_recovery`: the recovery shift is counted from the exhausting charge,
  not from the moment the deposit ran out, so after a late charge part of the
  top-up is claimable at once. `RecoveryPaysBacklog` says how much: the cost of
  the service between those two moments, as far as the top-up covers it.
* `claim_rent`: the rent of a grace satellite (paid by whoever called `charge`)
  and of a pause satellite that `cancel` closes (paid by the merchant) goes to the
  subscriber, not "back to their payers". `RentFlows` and `ClosesToPayerButStrays`
  say what does hold: rent only ever drifts towards the subscriber, and every
  other account closes to its payer.
* `claim_race_free`: an overlapping re-subscribe lands with a stale session list.
  `FreshUnlessOvertaken` says what it takes: another replacement between the
  slower call's first read and its landing.
* `claim_cross_language`: Rust and TypeScript differ between 80% and 81%. The
  instance scales the seven-day runway gate down to one second; with the real
  constants it is any deposit with more than seven days left at that point.

Seen while reading, without a run: a session that is open at `cancel` survives a
bare `cleanup` and serves the next Subscription at the same address, with its
old usage (a known limitation, pinned by
`src/nakama/programs/nakama/tests/adr015_p7_orphan_paysessions.rs`;
`SessionsWithinWithdrawn` and `FreshStart` therefore hold of `Resubscribe`,
whose composite closes sessions first and which has no other `cleanup`,
and not of bare instructions; a bare `cleanup` is in `rent`, where
`LeaverIsWhole` meets it); the rent of a Plan is never returned, because no
instruction closes one; `charge.rs:170-173` says that a second flip into grace
is unreachable, and a recovery top-up followed by an exhausting charge reaches
it (harmless: `top_up` has closed the satellite, so the `init` succeeds again);
a session opened between the listing and the landing of a migration outlives the
old account; a migration built over a Cancelled tombstone always reverts,
because the builders put `cancel` in it (documented at
`change_rate.rs:282-285`); README.md:69 draws a time-out from GracePeriod to
Exhausted and no code writes Exhausted (`state.rs:236` documents passive
expiry); `computed_status.rs:88` calls the InGrace seconds strictly positive and
they are 0 at the deadline; `resubscribe.rs:545` takes an absent parent to mean
no sessions, which a bare `cleanup` refutes; README.md:86 omits `cancel` from
the writers of `withdrawn_amount`; on a clock that stepped back after a
settlement, `charge` and `cancel` are refused until it catches up, so
`EarnedOnly` is a property of `Spec` and not of `DriftSpec`; a merchant who
pauses on such a clock dates the freeze before what was already paid, and
`cancel` then fails in `checked_sub` (`cancel.rs:243`) until `resume`, even
after the clock has caught up (`CancelReopens` shows that nothing else keeps it
shut but what shuts it from outside; the tests take the production clock to be
monotonic,
`src/nakama/programs/nakama/tests/adr015_p2_streaming_invariants.rs:293`).

Stated by properties that hold, and contradicted by no line of the repository:
a token sent straight to a vault keeps its subscription from ever being cancelled
(`GiftHoldsForGood`; `top_up.rs:11` and `:61` keep third parties from depositing
through the program, not past it), and a merchant account that does not exist
shuts `cancel` while it is missing (`CancelOpenUnlessShut`). A `cancel` that moved
the whole balance of the vault, and made the merchant's account where it is
missing, would close both. A top-up or a cancel between the two reads of the
computed-status endpoint makes it answer Corrupt (`computed_status.rs:115-116`
takes a missing satellite for corruption), and nothing else does
(`CorruptMeansTorn`).

## Proofs

Every safety property of a passing run is a theorem, for all values of the
constants that satisfy the named assumptions: `EscrowAssumption` and its like
give the ranges of the constants, `SessionAssumption` says that there are
finitely many session ids (32 bytes), `RentAssumption` that accounts have
different addresses.

The escrow (`EscrowProofs`), in three layers: money and accounts on any clock,
frozen streams on any clock, and the service seconds on a clock that does not
step back.

* `MoneySafe`: `DriftSpec => [](TypeOK /\ EscrowExact /\ SatelliteIff)`. The
  three parts (the vault holds `deposited - withdrawn` and the gifts) together
  with `PositiveTerms` (a subscription has a positive price and period) form the
  inductive invariant `MoneyInv`: the vault equation needs the types, the types
  need the vault equation (a deposit in range bounds the vault), and the
  transitions need the satellites.
* `TypeCorrect` and `SatelliteSafe`: `DriftSpec => []TypeOK` and `DriftSpec =>
  []SatelliteIff`, two of its parts.
* `GraceSafe`, `RecoveryExact`: `DriftSpec => []GraceIsExhausted` and `DriftSpec
  => RecoveryPaysBacklog`, from `AnyClockInv == MoneyInv /\ FreezeInv`.
  `FreezeInv` adds that a frozen stream froze at or after its anchor and that
  the grace deadline is the entry plus the grace duration. The runs check both
  on a clock that only moves forward; the theorems do not need that. The shift
  of the anchor leaves the metered seconds as they were, and grace means that
  all of the old deposit was withdrawn, so what a recovery leaves claimable is
  exactly the backlog.
* `GiftHolds`: `DriftSpec => GiftHoldsForGood`. With a gift the vault holds more
  than `cancel` moves, so the guard of its close fails in every state that
  `MoneyInv` allows, and nothing but that close lets `gifts` go down.
* `EarnedSafe`, `HintSafe`: `Spec => []...`, from `IInv == MoneyInv /\ TimeInv`.
  `EarnedOnly` alone is not inductive: `top_up` from grace needs the deposit to
  be exhausted and the satellite's instant to lie between the anchor and the
  clock, `resume` needs the same of `pausedAt`, and the hint needs the covered
  seconds of what was withdrawn to lie behind the anchor's elapsed time
  (monotonicity of the floor division, proved as lemmas about `StreamMath`).
* `EscrowImplementsMeter`: `Spec => MeteredStream`. The mapping sends the anchor
  and the freeze instants to one number, the metered seconds. Each instruction
  is a meter step or a stutter. `cancel` from grace needs `GraceWindow`, the
  deadline part of `FreezeInv`, so that the settlement at `min(now,
  grace_until)` equals the metered one.

A clock that steps back (`DriftProofs`):

* `EarnedOnAnyClock`, `CancelReopensOnCatchUp`: `RecordedSpec => []...`.
  `EarnedByService` is not inductive: a draw is bounded by the meter of its own
  moment, which a step back takes away again. `RecordInv` bounds withdrawals by
  the entitlement for `furthest`, and `furthest` by `ran`. `LiveStep` reduces
  every instruction to one of two shapes, a step at a standing clock that leaves
  the metered seconds alone and draws at most their entitlement, or a step of
  the clock that draws nothing. Cancel from a clock that has caught up then has
  the same lemma behind it (`SettledCancel`) as cancel on a monotonic one.

What is composed with it, each from `MoneyInv` and an invariant of its own:

* `TokensAreConserved` (`ResubscribeProofs`): any number of overlapping
  attempts. `LedgerInv` adds the sum of the tokens and `PlanBehind` (an account
  has a plan): the composite subscribes over a tombstone without looking for the
  plan first.
* `FreshStartSafe` and `SessionsStayWithin`: for one attempt at a time
  (`Attempts = {c}`) that closes what it lists (`CloseAlive`). Both hypotheses
  are needed: `claim_race_free` is the counterexample with two attempts, and
  without `CloseAlive` the SDK leaves the sessions alone on purpose. `StartInv`
  says that what the attempt has read is still so (`Current`: the other parties
  neither make nor remove the account and can only close sessions of a
  tombstone) and that no account means no session (`NoOrphans`). `DrawnInv` adds
  that a closed session has no usage, so that the sum may run over all
  addresses.
* `OvertakingOnly`: `RaceSpec => FreshUnlessOvertaken`, for any number of
  overlapping calls that close what they list. `RaceInv` says that the reads of
  every call that was not overtaken are still so. With one attempt nobody can
  overtake; this is `FreshStartSafe` without its hypothesis on the number of
  attempts.
* `NothingIsLost`, `BothAreExact` (`ChangeRateProofs`): `BothMoney` is
  `MoneyInv` of the old and of the new escrow and the sum of both pots and the
  wallets. The lemmas of `EscrowProofs` are used twice, the second time through
  an `INSTANCE` over the `new...` variables.
* `StaleTopUpSafe`, `RevocationSafe` (`TopUpProofs`): `EndpointInv` says of
  every request under way which satellite it attached for what it read, and that
  it was signed either under the running configuration or before the last stop.
* `CorruptIsTorn`, `CrossLanguageAgrees` (`StatusProofs`). The first is `SSpec
  => CorruptMeansTorn`, for any host skew: `SatelliteIff` at the second read,
  and `SeenKnown` (what was seen at the first is a subscription) because the
  derivation sends every state it does not know to Corrupt as well. The second
  is the complement of `claim_cross_language`: where the utilization does not
  lie between the threshold and the next whole percent, and the runway fits 32
  bits, the two languages give the same answer.
* `RentIsExact`, `RentFlowsSafe`, `OnlySatellitesStray`, `GoneSafe`
  (`RentProofs`). `RentInv` is both properties with the types and
  `PausedIsMerchants`: the rent that `resume` gives the merchant is no gain only
  because the merchant had paid it. An `init` leaves every wallet's position as
  it was, because the new account held nothing before; a `close` raises only the
  recipient's. Every instruction is shown to open or close exactly the accounts
  it funds or releases (`Creates`, `Removes`). `KnownPayers` is what
  `OnlySatellitesStray` needs: only the grace satellite has no fixed payer.
  `GoneSafe` is `LeaverIsWhole` without the leaving: all that can be left is the
  plan, which the merchant paid for, so the subscriber's position is what it
  holds.

Sums. `FiniteSums` proves about the community modules' `MapThenSumSet` what the
last two groups need: it is well defined on finite sets, any element may be taken
out, it splits over a subset. Induction being out of the prover's reach, each
lemma takes a least set for which it fails (`LeastSet`, from the well-foundedness
of the strict subset order) and removes the element that the fold takes.

Enabledness. `ENABLED` is out of the prover's reach, so five properties are
checked by TLC as they stand and proved in terms of guards: `CancelOpensUnlessShut`,
`ChargeAlwaysOpen`, `CurrentTopUpOpen`, `ClaimableIsOpen` and
`MigrationAlwaysOpen` for `CancelOpenUnlessShut`, `ChargeNeverBricked`,
`CurrentTopUpLands`, `ClaimableIsChargeable` and `MigrationNeverBlocked`. For
`cancel` the guards are `CancelGuards`, the first conjunct of the action, and the
others only assign; for the rest a lemma (`ChargeIsGuardedEffect`,
`TopUpIsGuardedEffect`, `MigrationIsGuardedEffect`) shows that the action is its
guards and an assignment to every variable. The hypotheses are those of the
property, except for what small instances satisfy by themselves: a positive
amount (`CurrentTopUpOpen`), terms, periods and a deposit that `subscribe` accepts
(`MigrationAlwaysOpen`), one period and one grace that fit the clock
(`ClaimableIsOpen`). `CancelOpensUnlessShut` is an equivalence: that a shut
`cancel` is closed to everybody is its other half (`ShutIsShut`). The rest keep the
exceptions of their properties: the merchant's account for the two about `charge`,
`~Shut` for the migration, a vault that stays within 64 bits for the top-up.
`ChargeAlwaysOpen` and `ClaimableIsOpen` hold on any clock:
one that is behind the anchor has nothing to claim.

Liveness. The prover knows nothing about `ENABLED`, but its temporal backend can
carry it through a weak-fairness argument as an unknown. Two theorems of
`RentProofs` use that, with a hypothesis for each fair step: wherever every guard
of the instruction is open, the step is possible (`ChargePossible`,
`CancelPossible`, `CleanupPossible`; true of actions that are guards and
assignments). Everything else is proved:

* `EarnedGetsPaid`: `RentSpec => EarnedIsPaid`, given `ChargePossible`, a clock
  that reaches its bound (counting the ticks up to it would be an induction) and
  `Headroom` (one period and one grace still fit 64 bits). A debt stays until it
  is settled (`OwedStays`: only a charge touches the hint or the keeper's purse
  of an Active stream) or the merchant closes the account it would go to, the
  guards of the due charge are then open (`OwedIsOpen`), and that charge leaves
  nothing to claim (`ChargeSettles`).
* `BareLeaverIsWhole`: a leaver without open sessions gets out with its rent or
  finds cancel shut from outside, and if cancel is in the end not shut any more
  (`<>[]~Shut`) it does get out, given `CancelPossible` and `CleanupPossible`.
  Without a session it only moves on (`BareSessions`, `BareStep`), cancel is
  open while escrow is held and nothing shuts it (`CancelIsOpen`), and what it
  holds at the end is `GoneSafe`.

Only model-checked: that the guards above mean `ENABLED`; that the clock reaches
its bound; the closing of a leaver's sessions one by one in `LeaverIsWhole` and
all of `RetryGetsThrough` (both descend on a number of sessions, and induction
under a temporal operator is out of the prover's reach).

## Not modelled

Account layout, PDA derivation, discriminators and Borsh (byte conversions);
transaction fees; a freeze authority of the mint; routing, response headers and
the mapping of errors to HTTP codes in the facilitator; the TypeScript builders
that have no condition, and the demo scripts. `PROJECT.json` gives the reason
for each component.

## Plan

Done, in this order: arithmetic and escrow, the meter it refines, the proofs of
both, the re-subscribe composite, the computed status and its endpoint, the
change of plan, the top-up endpoint, the rent ledger, the facilitator process, the
liveness of the off-chain calls; then the proofs of every safety property that a
run checks; then what survives a clock that steps back, which re-subscribe calls
may overlap, and the conditional liveness of payment and of leaving. Open:

1. `LeaverIsWhole` with sessions and `RetryGetsThrough`, once the prover has
   induction under temporal operators.
2. A second mint and a second subscriber, for the refusals of the change of plan
   that cannot arise with one.
