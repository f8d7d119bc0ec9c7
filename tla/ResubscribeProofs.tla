-------------------------- MODULE ResubscribeProofs --------------------------
(***************************************************************************)
(* Proofs about Resubscribe, for every choice of its constants: any number *)
(* of overlapping attempts for the tokens and, as far as it goes, for the  *)
(* sessions at the start; one attempt at a time for what sessions draw.    *)
(***************************************************************************)
EXTENDS ResubscribeRace, EscrowProofs, FiniteSums

-----------------------------------------------------------------------------
(***************************************************************************)
(* The composite transaction and the escrow.                               *)
(***************************************************************************)
\* A Subscription account has a plan behind it.  subscribe checks that in a
\* transaction of its own; over a tombstone it is what an earlier subscribe
\* has left.
PlanBehind == state # "None" => plan \in Terms

LedgerInv == MoneyInv /\ PlanBehind /\ Tokens = Funding

\* No instruction but subscribe makes an account, and none removes a plan.
LEMMA UsePlans ==
  ASSUME MoneyInv, PlanBehind, UseNext
  PROVE  PlanBehind'
<1>1. CASE SubscriberStep
  BY <1>1
  DEF SubscriberStep, TopUp, TopUpTail, TopUpStates, OpenSession, CloseSession,
      PlanBehind, Live
<1>2. CASE MerchantStep
  BY <1>2 DEF MerchantStep, CreatePlan, Pause, Resume, PlanBehind
<1>3. CASE PartyCancel
  BY <1>3 DEF PartyCancel, Cancel, CancelGuards, PlanBehind, Live
<1>4. CASE KeeperStep \/ FacilitatorStep
  BY <1>4 DEF KeeperStep, FacilitatorStep, Charge, ChargeTail, SettleUsage,
              PlanBehind
<1>5. CASE Tick \/ TokenStep \/ \E a \in Recirculated : HandBack(a)
  BY <1>5 DEF Tick, HandBack, TokenStep, Gift, CloseMerchantAta,
              ReopenMerchantAta, PlanBehind
<1>6. QED
  BY <1>1, <1>2, <1>3, <1>4, <1>5 DEF UseNext

LEMMA LedgerUse ==
  ASSUME LedgerInv, UseNext
  PROVE  LedgerInv'
<1>1. [DriftNext]_vars
  BY DEF DriftNext, Next
<1>2. MoneyInv'
  BY <1>1, MoneyStep DEF LedgerInv
<1>3. Tokens' = Funding
  BY <1>2, TokensUse DEF LedgerInv
<1>4. QED
  BY <1>2, <1>3, UsePlans DEF LedgerInv

LEMMA LedgerSubscribe ==
  ASSUME LedgerInv, NEW n \in Periods, Subscribe(n)
  PROVE  LedgerInv'
<1>1. MoneyInv'
  BY MoneySubscribe DEF LedgerInv
<1>2. Tokens' = Funding
  BY <1>1, TokensSubscribe DEF LedgerInv
<1>3. PlanBehind'
  BY DEF LedgerInv, MoneyInv, TypeOK, Subscribe, SubscribeAccounts,
         NewSubscription, PlanBehind
<1>4. QED
  BY <1>1, <1>2, <1>3 DEF LedgerInv

\* The composite over a tombstone; its close_session instructions touch no
\* token, and a tombstone has no vault.
LEMMA LedgerComposite ==
  ASSUME LedgerInv, NEW closes, NEW n \in Periods, Composite(closes, n)
  PROVE  LedgerInv'
<1>1. /\ plan \in Terms /\ state \notin Live /\ subscriberAta \in Nat
      /\ NewSubscription(n, subscriberAta)
      /\ UNCHANGED satellites /\ UNCHANGED merchantAta /\ merchantAta' \in Nat
  BY DEF LedgerInv, MoneyInv, TypeOK, PlanBehind, Composite, Live
<1>2. /\ facilitator' \in [SessionIds -> Facilitators \cup {NoFacilitator}]
      /\ usage' \in [SessionIds -> Amount]
      /\ reservation' \in [SessionIds -> Nat]
  BY EscrowAssumption
  DEF LedgerInv, MoneyInv, TypeOK, Composite, CloseSessions, Amount
<1>3. MoneyInv'
  BY <1>1, <1>2, MoneyNewSubscription DEF LedgerInv
<1>4. Tokens' = Funding
  BY <1>1, <1>3, TokensNewSubscription DEF LedgerInv
<1>5. PlanBehind'
  BY <1>1 DEF NewSubscription, PlanBehind
<1>6. QED
  BY <1>3, <1>4, <1>5 DEF LedgerInv

LEMMA LedgerUntouched ==
  ASSUME LedgerInv, UNCHANGED vars
  PROVE  LedgerInv'
<1>1. MoneyInv'
  BY MoneyStep DEF LedgerInv
<1>2. Tokens' = Tokens /\ (PlanBehind' <=> PlanBehind)
  BY TokensUntouched DEF PlanBehind, vars
<1>3. QED
  BY <1>1, <1>2 DEF LedgerInv

LEMMA LedgerStep == LedgerInv /\ [RNext]_rvars => LedgerInv'
<1> SUFFICES ASSUME LedgerInv, [RNext]_rvars
             PROVE  LedgerInv'
  OBVIOUS
<1>1. ASSUME NEW c \in Attempts, NEW n \in Periods, Land(c, n)
      PROVE  LedgerInv'
  BY <1>1, LedgerSubscribe, LedgerComposite DEF Land
<1>2. ASSUME NEW c \in Attempts, AttemptStep(c), ~ \E n \in Periods : Land(c, n)
      PROVE  UNCHANGED vars
  BY <1>2
  DEF AttemptStep, RustStep, TsStep, Observe, List, Sign, TsFetchState,
      TsFindSessions, TsBuild, Fail
<1>3. CASE UNCHANGED rvars
  BY <1>3, LedgerUntouched DEF rvars
<1>4. QED
  BY <1>1, <1>2, <1>3, LedgerUse, LedgerUntouched DEF RNext, AttemptStep

LEMMA LedgerInit == RInit => LedgerInv
<1> SUFFICES ASSUME RInit PROVE LedgerInv
  OBVIOUS
<1>1. MoneyInv /\ PlanBehind
  BY MoneyInit DEF RInit, Init, PlanBehind
<1>2. Tokens = Funding
  BY EscrowAssumption DEF RInit, Init, Tokens, Pot
<1>3. QED
  BY <1>1, <1>2 DEF LedgerInv

\* However many attempts overlap and however late their transactions land, no
\* token is made or lost: no composite replaces a subscription that holds
\* escrow, and no subscription is made twice out of one payment.
THEOREM TokensAreConserved == RSpec => []TokensConserved
<1>1. LedgerInv => TokensConserved
  BY DEF LedgerInv, Tokens, TokensConserved
<1>2. QED
  BY <1>1, LedgerInit, LedgerStep, PTL DEF RSpec

-----------------------------------------------------------------------------
(***************************************************************************)
(* Sessions at the start of a subscription.                                *)
(***************************************************************************)
Locations == {"idle", "list", "find", "build", "sign", "send"}

AttemptTypes ==
  /\ pc \in [Attempts -> Locations]
  /\ seenState \in [Attempts -> SubscriptionState \cup {"None"}]
  /\ seenSessions \in [Attempts -> SUBSET SessionIds]

\* The listing of attempt c covers every session of the tombstone.
Covers(c) == state = "Cancelled" /\ OpenSessions \subseteq seenSessions[c]

\* What attempt c has read is still so: nobody but the subscriber makes or
\* removes the account, and no session is opened over a tombstone.
Current(c) ==
  /\ pc[c] \in {"list", "find"} =>
       state = "Cancelled" /\ seenState[c] = "Cancelled"
  /\ pc[c] \in {"build", "sign", "send"} =>
       /\ seenState[c] = "None" => state = "None"
       /\ seenState[c] = "Cancelled" => Covers(c)
  /\ pc[c] \in {"sign", "send"} => seenState[c] \in Replaceable

\* With no account there is no session: the account never goes away without
\* its sessions.
NoOrphans == state = "None" => OpenSessions = {}

CallsInv == AttemptTypes /\ NoOrphans
StartInv == CallsInv /\ \A c \in Attempts : Current(c)

\* While there is no account or a tombstone, the other parties leave it so
\* and can only close sessions.
LEMMA UseReplaceable ==
  ASSUME MoneyInv, UseNext
  PROVE  /\ state \in Replaceable =>
              state' = state /\ OpenSessions' \subseteq OpenSessions
         /\ state' \in Replaceable /\ state' # state => state' = "Cancelled"
<1>1. CASE SubscriberStep
  BY <1>1
  DEF SubscriberStep, TopUp, TopUpTail, TopUpStates, OpenSession, CloseSession,
      OpenSessions, Replaceable, Live, MoneyInv, TypeOK, sessions
<1>2. CASE MerchantStep
  BY <1>2
  DEF MerchantStep, CreatePlan, Pause, Resume, OpenSessions, Replaceable, sessions
<1>3. CASE PartyCancel
  BY <1>3
  DEF PartyCancel, Cancel, CancelGuards, OpenSessions, Replaceable, Live, sessions
<1>4. CASE KeeperStep \/ FacilitatorStep
  BY <1>4
  DEF KeeperStep, FacilitatorStep, Charge, ChargeTail, SettleUsage,
      OpenSessions, Replaceable, sessions
<1>5. CASE Tick \/ TokenStep \/ \E a \in Recirculated : HandBack(a)
  BY <1>5
  DEF Tick, HandBack, TokenStep, Gift, CloseMerchantAta, ReopenMerchantAta,
      OpenSessions, Replaceable, sessions
<1>6. QED
  BY <1>1, <1>2, <1>3, <1>4, <1>5 DEF UseNext

\* The other parties leave what an attempt has read as it was.
LEMMA CurrentUse ==
  ASSUME MoneyInv, CallsInv, UseNext, UNCHANGED avars
  PROVE  /\ CallsInv'
         /\ \A c \in Attempts : Current(c) => Current(c)'
<1>1. AttemptTypes' /\ UNCHANGED <<pc, seenState, seenSessions>>
  BY DEF CallsInv, AttemptTypes, avars, SubscriptionState, Locations
<1>2. NoOrphans'
  BY UseReplaceable DEF CallsInv, NoOrphans, Replaceable
<1>3. ASSUME NEW c \in Attempts, Current(c)
      PROVE  Current(c)'
  BY <1>1, <1>3, UseReplaceable DEF Current, Covers, Replaceable
<1>4. QED
  BY <1>1, <1>2, <1>3 DEF CallsInv

\* The steps of an attempt before its transaction lands, and what they mean
\* for it and for the others.
LEMMA CurrentRead ==
  ASSUME MoneyInv, CallsInv, NEW c \in Attempts, CloseAlive,
         RustStep(c) \/ TsStep(c) \/ Sign(c) \/ Fail(c)
  PROVE  /\ UNCHANGED vars /\ CallsInv'
         /\ \A d \in Attempts : Current(d) => Current(d)'
<1>1. UNCHANGED vars /\ state' = state /\ OpenSessions' = OpenSessions
  BY DEF RustStep, TsStep, Observe, List, Sign, TsFetchState, TsFindSessions,
         TsBuild, Fail, vars, OpenSessions
<1>2. /\ state \in SubscriptionState \cup {"None"}
      /\ OpenSessions \in SUBSET SessionIds
  BY DEF MoneyInv, TypeOK, OpenSessions
<1>3. AttemptTypes'
  <2>1. AttemptTypes /\ c \in Attempts
    BY DEF CallsInv
  <2>2. CASE RustStep(c) \/ Sign(c) \/ Fail(c)
    BY <1>2, <2>1, <2>2
    DEF AttemptTypes, Locations, RustStep, Observe, List, Listing, Sign, Fail,
        Return, Replaceable
  <2>3. CASE TsStep(c)
    BY <1>2, <2>1, <2>3
    DEF AttemptTypes, Locations, TsStep, TsFetchState, TsFindSessions,
        TsListing, TsBuild, Return
  <2>4. QED
    BY <2>2, <2>3
<1>4. NoOrphans'
  BY <1>1 DEF CallsInv, NoOrphans
<1>5. ASSUME NEW d \in Attempts, d # c, Current(d)
      PROVE  Current(d)'
  <2>1. /\ pc'[d] = pc[d] /\ seenState'[d] = seenState[d]
        /\ seenSessions'[d] = seenSessions[d]
    BY <1>5
    DEF CallsInv, AttemptTypes, RustStep, TsStep, Observe, List, Sign,
        TsFetchState, TsFindSessions, TsBuild, Fail, Return
  <2>2. QED
    BY <1>1, <1>5, <2>1 DEF Current, Covers, Replaceable
<1>6. ASSUME Current(c)
      PROVE  Current(c)'
  <2>1. Current(c) /\ AttemptTypes
    BY <1>6 DEF CallsInv
  <2>2. CASE RustStep(c)
    BY <1>1, <2>1, <2>2
    DEF RustStep, Observe, List, Listing, Return, Current, Covers, AttemptTypes,
        Replaceable, CallsInv, NoOrphans
  <2>3. CASE TsStep(c)
    BY <1>1, <2>1, <2>3
    DEF TsStep, TsFetchState, TsFindSessions, TsListing, TsBuild, TsBuildable,
        Return, Current, Covers, AttemptTypes, Replaceable
  <2>4. CASE Sign(c) \/ Fail(c)
    BY <1>1, <2>1, <2>4
    DEF Sign, Fail, Return, Current, Covers, AttemptTypes, Replaceable
  <2>5. QED
    BY <2>2, <2>3, <2>4
<1>7. QED
  BY <1>1, <1>3, <1>4, <1>5, <1>6 DEF CallsInv

\* The landing: if what was read is still so, what was listed is all there is
\* to close.  The other attempts are where they were.
LEMMA CurrentLand ==
  ASSUME CallsInv, NEW c \in Attempts, NEW n \in Periods, Land(c, n)
  PROVE  /\ CallsInv'
         /\ pc[c] = "send" /\ pc'[c] = "idle" /\ state' = "Active"
         /\ \A d \in Attempts : d # c => pc'[d] = pc[d]
         /\ Current(c) => state \in Replaceable /\ OpenSessions' = {}
<1>1. AttemptTypes /\ NoOrphans /\ c \in Attempts /\ pc[c] = "send"
  BY DEF CallsInv, Land
<1>2. state' = "Active"
  BY DEF Land, Subscribe, Composite, NewSubscription
<1>3. ASSUME Current(c)
      PROVE  state \in Replaceable /\ OpenSessions' = {}
  <2>1. CASE seenState[c] = "None"
    BY <1>1, <1>3, <2>1
    DEF Land, Current, Subscribe, sessions, NoOrphans, OpenSessions, Replaceable
  <2>2. CASE seenState[c] # "None"
    <3>1. OpenSessions \subseteq seenSessions[c] /\ state \in Replaceable
      BY <1>1, <1>3, <2>2 DEF Current, Covers, Replaceable
    <3>2. facilitator' = [s \in SessionIds |->
            IF s \in seenSessions[c] THEN NoFacilitator ELSE facilitator[s]]
      BY <2>2 DEF Land, Composite, CloseSessions
    <3>3. QED
      BY <3>1, <3>2 DEF OpenSessions
  <2>3. QED
    BY <2>1, <2>2
<1>4. /\ AttemptTypes' /\ pc'[c] = "idle"
      /\ \A d \in Attempts : d # c => pc'[d] = pc[d]
  BY <1>1 DEF Land, Return, AttemptTypes, Locations
<1>5. QED
  BY <1>1, <1>2, <1>3, <1>4 DEF CallsInv, NoOrphans

\* An idle attempt has read nothing.
LEMMA IdleCurrent ==
  ASSUME NEW c
  PROVE  /\ pc[c] = "idle" => Current(c)
         /\ pc'[c] = "idle" => Current(c)'
BY DEF Current

\* With one attempt there is no other to replace the account under it.
LEMMA StartLand ==
  ASSUME StartInv, NEW c, Attempts = {c}, NEW n \in Periods, Land(c, n)
  PROVE  StartInv' /\ OpenSessions' = {}
<1>1. c \in Attempts /\ CallsInv /\ Current(c)
  BY DEF StartInv
<1>2. CallsInv' /\ pc'[c] = "idle" /\ OpenSessions' = {}
  BY <1>1, CurrentLand
<1>3. QED
  BY <1>2, IdleCurrent DEF StartInv

LEMMA StartInit == RInit => LedgerInv /\ StartInv
<1> SUFFICES ASSUME RInit PROVE LedgerInv /\ StartInv
  OBVIOUS
<1>1. LedgerInv
  BY LedgerInit
<1>2. StartInv
  BY DEF RInit, Init, StartInv, CallsInv, AttemptTypes, NoOrphans,
         OpenSessions, Current, Locations, SubscriptionState
<1>3. QED
  BY <1>1, <1>2

LEMMA StartStep ==
  ASSUME CloseAlive, NEW c, Attempts = {c}, LedgerInv, StartInv, [RNext]_rvars
  PROVE  /\ LedgerInv' /\ StartInv'
         /\ (state \in Replaceable /\ state' = "Active") => OpenSessions' = {}
<1>1. MoneyInv /\ LedgerInv'
  BY LedgerStep DEF LedgerInv
<1>2. CASE UNCHANGED rvars
  BY <1>1, <1>2
  DEF rvars, vars, avars, Replaceable, StartInv, CallsInv, AttemptTypes,
      NoOrphans, OpenSessions, Current, Covers, Locations, SubscriptionState
<1>3. CASE UseNext /\ UNCHANGED avars
  BY <1>1, <1>3, CurrentUse, UseReplaceable DEF StartInv, Replaceable
<1>4. CASE RustStep(c) \/ TsStep(c) \/ Sign(c) \/ Fail(c)
  BY <1>1, <1>4, CurrentRead DEF StartInv, vars, Replaceable
<1>5. CASE \E n \in Periods : Land(c, n)
  BY <1>1, <1>5, StartLand
<1>6. QED
  BY <1>2, <1>3, <1>4, <1>5 DEF RNext, AttemptStep

\* One attempt at a time that closes the sessions it lists: every subscription
\* it makes starts with none, whatever the sessions' owners, the merchant, the
\* keepers and the facilitators do between its reads and its landing, and
\* whichever of its calls fail.  (Two overlapping attempts break this: a
\* listing may be of an earlier tombstone.)
THEOREM FreshStartSafe ==
  ASSUME CloseAlive, NEW c, Attempts = {c}
  PROVE  RSpec => FreshStart
BY StartInit, StartStep, PTL DEF RSpec, FreshStart

\* Of several overlapping attempts, those that no other has overtaken.
RaceInv == CallsInv /\ \A c \in Attempts \ overtaken : Current(c)

\* Nobody but the SDK call makes a subscription.
LEMMA UseMakesNone ==
  ASSUME UseNext
  PROVE  ~Replaces
BY DEF UseNext, SubscriberStep, MerchantStep, PartyCancel, KeeperStep,
       FacilitatorStep, TopUp, TopUpTail, TopUpStates, OpenSession,
       CloseSession, CreatePlan, Pause, Resume, Cancel, Charge, SettleUsage,
       Tick, HandBack, TokenStep, Gift, CloseMerchantAta, ReopenMerchantAta,
       Replaces, Live

\* A step that makes no subscription keeps the calls it does not end as they
\* were, overtaken or not.
LEMMA RaceKeeps ==
  ASSUME RaceInv, CallsInv', ~Replaces, Overtake,
         \A c \in Attempts : Current(c) => Current(c)'
  PROVE  RaceInv'
<1>1. ASSUME NEW c \in Attempts, c \notin overtaken'
      PROVE  Current(c)'
  <2>1. CASE pc'[c] = "idle"
    BY <2>1, IdleCurrent
  <2>2. CASE pc[c] = "idle"
    BY <2>2, IdleCurrent
  <2>3. CASE pc[c] # "idle" /\ pc'[c] # "idle"
    <3>1. c \notin overtaken
      BY <1>1, <2>3 DEF Overtake
    <3>2. QED
      BY <3>1 DEF RaceInv
  <2>4. QED
    BY <2>1, <2>2, <2>3
<1>2. QED
  BY <1>1 DEF RaceInv

LEMMA RaceStep ==
  ASSUME CloseAlive, LedgerInv, RaceInv, [RNext /\ Overtake]_raceVars
  PROVE  /\ LedgerInv' /\ RaceInv'
         /\ \A c \in Attempts \ overtaken :
              Replaces /\ pc[c] = "send" /\ pc'[c] = "idle" =>
                OpenSessions' = {}
<1>1. MoneyInv /\ LedgerInv' /\ CallsInv
  BY LedgerStep DEF LedgerInv, RaceInv, raceVars
<1>2. CASE UNCHANGED raceVars
  <2>1. UNCHANGED <<vars, pc, seenState, seenSessions, overtaken>>
    BY <1>2 DEF raceVars, rvars, avars
  <2>2. RaceInv'
    BY <2>1 DEF RaceInv, CallsInv, AttemptTypes, NoOrphans, OpenSessions,
                Current, Covers, Locations, SubscriptionState, vars
  <2>3. QED
    BY <1>1, <2>1, <2>2
<1>3. CASE UseNext /\ UNCHANGED avars /\ Overtake
  <2>1. ~Replaces /\ CallsInv' /\ \A c \in Attempts : Current(c) => Current(c)'
    BY <1>1, <1>3, CurrentUse, UseMakesNone
  <2>2. RaceInv'
    BY <1>3, <2>1, RaceKeeps
  <2>3. QED
    BY <1>1, <2>1, <2>2
<1>4. ASSUME NEW c \in Attempts, RustStep(c) \/ TsStep(c) \/ Sign(c) \/ Fail(c),
             Overtake
      PROVE  ~Replaces /\ RaceInv'
  <2>1. UNCHANGED vars /\ CallsInv' /\ \A d \in Attempts : Current(d) => Current(d)'
    BY <1>1, <1>4, CurrentRead
  <2>2. ~Replaces
    BY <2>1 DEF vars, Replaces, Live
  <2>3. QED
    BY <1>4, <2>1, <2>2, RaceKeeps
<1>5. ASSUME NEW c \in Attempts, NEW n \in Periods, Land(c, n), Overtake
      PROVE  /\ RaceInv'
             /\ \A d \in Attempts \ overtaken :
                  pc[d] = "send" /\ pc'[d] = "idle" => OpenSessions' = {}
  <2>1. /\ CallsInv'
        /\ pc[c] = "send" /\ pc'[c] = "idle" /\ state' = "Active"
        /\ \A d \in Attempts : d # c => pc'[d] = pc[d]
        /\ Current(c) => state \in Replaceable /\ OpenSessions' = {}
    BY <1>1, <1>5, CurrentLand
  <2>2. Replaces
    BY <1>5, <2>1 DEF Land, Subscribe, SubscribeAccounts, Composite, Live, Replaces
  <2>3. ASSUME NEW d \in Attempts, d \notin overtaken'
        PROVE  Current(d)'
    <3>1. pc'[d] = "idle" \/ pc[d] = "idle"
      BY <1>5, <2>2, <2>3 DEF Overtake
    <3>2. pc'[d] = "idle"
      BY <2>1, <3>1
    <3>3. QED
      BY <3>2, IdleCurrent
  <2>4. ASSUME NEW d \in Attempts, d \notin overtaken,
               pc[d] = "send", pc'[d] = "idle"
        PROVE  OpenSessions' = {}
    <3>1. d = c
      BY <2>1, <2>4
    <3>2. QED
      BY <2>1, <2>4, <3>1 DEF RaceInv
  <2>5. QED
    BY <2>1, <2>3, <2>4 DEF RaceInv
<1>6. QED
  BY <1>1, <1>2, <1>3, <1>4, <1>5 DEF RNext, AttemptStep

\* Any number of overlapping attempts that close what they list: the one that
\* lands makes a subscription without sessions unless another has landed since
\* its first read.  What breaks FreshStart is therefore a call that lands and
\* a second cancel within the life of another call, and nothing less.
THEOREM OvertakingOnly ==
  ASSUME CloseAlive
  PROVE  RaceSpec => FreshUnlessOvertaken
<1>1. RInit /\ overtaken = {} => LedgerInv /\ RaceInv
  BY StartInit DEF StartInv, RaceInv
<1>2. QED
  BY <1>1, RaceStep, PTL DEF RaceSpec, FreshUnlessOvertaken

-----------------------------------------------------------------------------
(***************************************************************************)
(* What the sessions have drawn.                                           *)
(***************************************************************************)
\* Summed over every session address: a closed session counts for nothing.
Drawn == SumOver(usage, SessionIds)
ClosedUnused ==
  \A s \in SessionIds : facilitator[s] = NoFacilitator => usage[s] = 0
WithinWithdrawn == state # "None" => Drawn <= withdrawn

DrawnInv == ClosedUnused /\ WithinWithdrawn

LEMMA DrawnNumbers ==
  ASSUME MoneyInv
  PROVE  Drawn \in Nat /\ withdrawn \in Nat /\ \A s \in SessionIds : usage[s] \in Nat
<1>1. withdrawn \in Nat /\ \A s \in SessionIds : usage[s] \in Nat
  BY EscrowAssumption DEF MoneyInv, TypeOK, Amount
<1>2. QED
  BY <1>1, SumNat, SessionAssumption DEF Drawn

LEMMA NextDrawn ==
  ASSUME MoneyInv'
  PROVE  /\ Drawn' = SumOver(usage', SessionIds)
         /\ withdrawn' \in Nat /\ \A s \in SessionIds : usage'[s] \in Nat
<1>1. Drawn' = SumOver(usage', SessionIds)
  BY DEF Drawn, SumOver, MapThenSumSet, MapThenFoldSet
<1>2. QED
  BY <1>1, EscrowAssumption DEF MoneyInv, TypeOK, Amount

\* The sessions' total moves with the one session an instruction writes.
LEMMA DrawnWrite ==
  ASSUME MoneyInv, MoneyInv', NEW s \in SessionIds, NEW v \in Nat,
         usage' = [usage EXCEPT ![s] = v]
  PROVE  Drawn' = Drawn - usage[s] + v
<1>1. /\ \A x \in SessionIds : usage[x] \in Nat /\ usage'[x] \in Nat
      /\ \A x \in SessionIds \ {s} : usage'[x] = usage[x]
      /\ usage'[s] = v
  BY DrawnNumbers, NextDrawn DEF MoneyInv, TypeOK
<1>2. /\ SumOver(usage, SessionIds) = usage[s] + SumOver(usage, SessionIds \ {s})
      /\ SumOver(usage', SessionIds) = usage'[s] + SumOver(usage, SessionIds \ {s})
      /\ SumOver(usage, SessionIds \ {s}) \in Nat
  <2>1. ASSUME NEW g, NEW h,
               \A x \in SessionIds : g[x] \in Nat /\ h[x] \in Nat,
               \A x \in SessionIds \ {s} : h[x] = g[x]
        PROVE  /\ SumOver(g, SessionIds) = g[s] + SumOver(g, SessionIds \ {s})
               /\ SumOver(h, SessionIds) = h[s] + SumOver(g, SessionIds \ {s})
               /\ SumOver(g, SessionIds \ {s}) \in Nat
    BY <2>1, SumChange, SessionAssumption
  <2>2. QED
    BY <1>1, <2>1
<1>3. Drawn = SumOver(usage, SessionIds) /\ Drawn' = SumOver(usage', SessionIds)
  BY NextDrawn DEF Drawn
<1>4. \A d \in Nat, u \in Nat : u + d - u + v = v + d
  OBVIOUS
<1>5. QED
  BY <1>1, <1>2, <1>3, <1>4

\* charge, cancel and the steps that write neither session nor escrow.
LEMMA DrawnSame ==
  ASSUME MoneyInv, MoneyInv', DrawnInv,
         UNCHANGED <<facilitator, usage>>, withdrawn' >= withdrawn,
         state' # "None" => state # "None"
  PROVE  DrawnInv'
<1>1. Drawn' = Drawn
  BY NextDrawn DEF Drawn
<1>2. \A d \in Nat, v \in Nat, w \in Nat : d <= v /\ w >= v => d <= w
  OBVIOUS
<1>3. QED
  BY <1>1, <1>2, DrawnNumbers, NextDrawn DEF DrawnInv, ClosedUnused, WithinWithdrawn

LEMMA DrawnSubscriber ==
  ASSUME MoneyInv, MoneyInv', DrawnInv, SubscriberStep
  PROVE  DrawnInv'
<1>1. ASSUME NEW a \in Amounts, NEW attach \in BOOLEAN, TopUp(a, attach)
      PROVE  DrawnInv'
  <2>1. /\ UNCHANGED <<facilitator, usage>> /\ withdrawn' = withdrawn
        /\ state # "None"
    BY <1>1 DEF TopUp, TopUpStates, Live, sessions
  <2>2. QED
    BY <2>1, DrawnSame, DrawnNumbers
<1>2. ASSUME NEW s \in SessionIds, usage' = [usage EXCEPT ![s] = 0],
             NEW f, facilitator' = [facilitator EXCEPT ![s] = f],
             withdrawn' = withdrawn, state' = state
      PROVE  DrawnInv'
  <2>1. Drawn' = Drawn - usage[s] + 0
    BY <1>2, DrawnWrite
  <2>2. \A d \in Nat, u \in Nat, w \in Nat : d <= w => d - u + 0 <= w
    OBVIOUS
  <2>3. WithinWithdrawn'
    BY <1>2, <2>1, <2>2, DrawnNumbers DEF DrawnInv, WithinWithdrawn
  <2>4. ClosedUnused'
    BY <1>2 DEF DrawnInv, ClosedUnused, MoneyInv, TypeOK
  <2>5. QED
    BY <2>3, <2>4 DEF DrawnInv
<1>3. QED
  BY <1>1, <1>2 DEF SubscriberStep, OpenSession, CloseSession

LEMMA DrawnSettle ==
  ASSUME MoneyInv, MoneyInv', DrawnInv,
         NEW s \in SessionIds, NEW f \in Facilitators, NEW a \in Amounts,
         SettleUsage(s, f, a)
  PROVE  DrawnInv'
<1>1. /\ a \in Nat /\ usage[s] \in Nat /\ usage[s] + a \in Nat
      /\ usage' = [usage EXCEPT ![s] = usage[s] + a]
      /\ withdrawn' = withdrawn + a
      /\ facilitator' = facilitator /\ facilitator[s] # NoFacilitator
      /\ state' = state
  BY DrawnNumbers, EscrowAssumption
  DEF SettleUsage, SettleUsageAccounts, PayMerchant
<1>2. Drawn' = Drawn - usage[s] + (usage[s] + a)
  BY <1>1, DrawnWrite
<1>3. \A d \in Nat, u \in Nat, w \in Nat : d <= w => d - u + (u + a) <= w + a
  BY <1>1
<1>4. WithinWithdrawn'
  BY <1>1, <1>2, <1>3, DrawnNumbers DEF DrawnInv, WithinWithdrawn
<1>5. ClosedUnused'
  BY <1>1 DEF DrawnInv, ClosedUnused, MoneyInv, TypeOK
<1>6. QED
  BY <1>4, <1>5 DEF DrawnInv

LEMMA DrawnUse ==
  ASSUME MoneyInv, MoneyInv', DrawnInv, UseNext
  PROVE  DrawnInv'
<1>1. CASE SubscriberStep
  BY <1>1, DrawnSubscriber
<1>2. CASE FacilitatorStep
  BY <1>2, DrawnSettle DEF FacilitatorStep
<1>3. CASE \/ MerchantStep \/ Tick \/ TokenStep
            \/ \E a \in Recirculated : HandBack(a)
  <2>1. UNCHANGED <<facilitator, usage>> /\ withdrawn' = withdrawn
    BY <1>3 DEF MerchantStep, CreatePlan, Pause, Resume, Tick, HandBack,
                TokenStep, Gift, CloseMerchantAta, ReopenMerchantAta, sessions
  <2>2. state' # "None" => state # "None"
    BY <1>3 DEF MerchantStep, CreatePlan, Pause, Resume, Tick, HandBack,
                TokenStep, Gift, CloseMerchantAta, ReopenMerchantAta
  <2>3. QED
    BY <2>1, <2>2, DrawnSame, DrawnNumbers
<1>4. CASE PartyCancel
  <2>1. PICK signer \in Signers, g \in BOOLEAN, p \in BOOLEAN : Cancel(signer, g, p)
    BY <1>4 DEF PartyCancel
  <2>2. FinalClaimable \in Nat /\ state \in Live
    BY <2>1, CancelAmounts DEF Cancel
  <2>3. UNCHANGED <<facilitator, usage>> /\ withdrawn' = withdrawn + FinalClaimable
    BY <2>1 DEF Cancel, sessions
  <2>4. withdrawn' >= withdrawn
    BY <2>2, <2>3, DrawnNumbers
  <2>5. QED
    BY <2>2, <2>3, <2>4, DrawnSame DEF Live
<1>5. CASE KeeperStep
  <2>1. PICK attach \in BOOLEAN : Charge(attach)
    BY <1>5 DEF KeeperStep
  <2>2. /\ state \in Live /\ now \in Int /\ now >= streamStart /\ ClaimableAt(now) > 0
        /\ withdrawn' = withdrawn + ClaimableAt(now)
        /\ UNCHANGED <<facilitator, usage>> /\ state # "None"
    BY <2>1, EscrowAssumption
    DEF Charge, PayMerchant, Live, sessions, MoneyInv, TypeOK
  <2>3. ClaimableAt(now) \in Int
    BY <2>2, ClaimBounds, DrawnNumbers
  <2>4. withdrawn' >= withdrawn
    BY <2>2, <2>3, DrawnNumbers
  <2>5. QED
    BY <2>2, <2>4, DrawnSame
<1>6. QED
  BY <1>1, <1>2, <1>3, <1>4, <1>5 DEF UseNext

\* A new subscription has drawn nothing and, by FreshStartSafe, has no
\* session.
LEMMA DrawnLand ==
  ASSUME MoneyInv, MoneyInv', DrawnInv, StartInv,
         NEW c, Attempts = {c}, NEW n \in Periods, Land(c, n)
  PROVE  DrawnInv'
<1>1. OpenSessions' = {}
  BY StartLand
<1>2. \A s \in SessionIds : facilitator'[s] = NoFacilitator
  BY <1>1 DEF OpenSessions
<1>3. ClosedUnused'
  <2>1. CASE seenState[c] = "None"
    BY <2>1 DEF Land, Subscribe, sessions, DrawnInv, ClosedUnused
  <2>2. CASE seenState[c] # "None"
    BY <2>2 DEF Land, Composite, CloseSessions, DrawnInv, ClosedUnused
  <2>3. QED
    BY <2>1, <2>2
<1>4. \A s \in SessionIds : usage'[s] = 0
  BY <1>2, <1>3 DEF ClosedUnused
<1>5. Drawn' = 0
  BY <1>4, NextDrawn, SumZero, SessionAssumption
<1>6. QED
  BY <1>3, <1>5, NextDrawn DEF DrawnInv, WithinWithdrawn

\* One attempt at a time that closes the sessions it lists: the sessions of a
\* subscription have together drawn no more than its withdrawn_amount, whatever
\* mix of settle_usage, charge and cancel it has been through and however
\* often the account has been replaced.  (The usage of a session that outlived
\* its subscription would be counted against the next one.)
THEOREM SessionsStayWithin ==
  ASSUME CloseAlive, NEW c, Attempts = {c}
  PROVE  RSpec => []SessionsWithinWithdrawn
<1> DEFINE Inv == LedgerInv /\ StartInv /\ DrawnInv
<1>1. RInit => Inv
  <2> SUFFICES ASSUME RInit PROVE DrawnInv
    BY StartInit
  <2>1. QED
    BY DEF RInit, Init, DrawnInv, ClosedUnused, WithinWithdrawn
<1>2. Inv /\ [RNext]_rvars => Inv'
  <2> SUFFICES ASSUME Inv, [RNext]_rvars PROVE DrawnInv'
    BY StartStep
  <2>1. MoneyInv /\ MoneyInv' /\ StartInv
    BY LedgerStep DEF LedgerInv
  <2>2. CASE UNCHANGED vars
    BY <2>1, <2>2, DrawnSame, DrawnNumbers DEF vars
  <2>3. CASE UseNext /\ UNCHANGED avars
    BY <2>1, <2>3, DrawnUse
  <2>4. CASE RustStep(c) \/ TsStep(c) \/ Sign(c) \/ Fail(c)
    BY <2>1, <2>2, <2>4, CurrentRead DEF StartInv
  <2>5. CASE \E n \in Periods : Land(c, n)
    BY <2>1, <2>5, DrawnLand
  <2>6. QED
    BY <2>2, <2>3, <2>4, <2>5 DEF RNext, AttemptStep, rvars
<1>3. Inv => SessionsWithinWithdrawn
  <2> SUFFICES ASSUME MoneyInv, DrawnInv PROVE SessionsWithinWithdrawn
    BY DEF LedgerInv
  <2>1. /\ OpenSessions \in SUBSET SessionIds
        /\ IsFiniteSet(OpenSessions) /\ IsFiniteSet(SessionIds \ OpenSessions)
    BY SessionAssumption, FS_Subset DEF OpenSessions
  <2>2. /\ Drawn = SumOver(usage, OpenSessions)
                      + SumOver(usage, SessionIds \ OpenSessions)
        /\ SumOver(usage, OpenSessions) \in Nat
        /\ SumOver(usage, SessionIds \ OpenSessions) \in Nat
    BY <2>1, SessionAssumption, DrawnNumbers, SumSplit, SumNat DEF Drawn
  <2>3. state # "None" => SumOver(usage, OpenSessions) <= withdrawn
    BY <2>2, DrawnNumbers DEF DrawnInv, WithinWithdrawn
  <2>4. QED
    BY <2>3 DEF SessionsWithinWithdrawn, SumOver
<1>4. QED
  BY <1>1, <1>2, <1>3, PTL DEF RSpec

=============================================================================
