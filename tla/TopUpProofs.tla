----------------------------- MODULE TopUpProofs -----------------------------
(***************************************************************************)
(* Proofs about TopUpEndpoint, for every choice of its constants: any      *)
(* number of requests and retries, any settings, any restarts.             *)
(***************************************************************************)
EXTENDS TopUpEndpoint, EscrowProofs

Locations == {"idle", "read", "sign", "send"}

EndpointTypes ==
  /\ config \in Environments \cup {Down}
  /\ stoppedAt \in Int /\ stoppedAt <= now
  /\ pc \in [Requests -> Locations]
  /\ bearer \in [Requests -> Bearers \cup {NoBearer}]
  /\ amount \in [Requests -> Nat]
  /\ seenState \in [Requests -> SubscriptionState \cup {"None"}]
  /\ attached \in [Requests -> BOOLEAN]
  /\ signedAt \in [Requests -> Int]

\* The facilitator that is running would take request r today.
Honoured(r) ==
  /\ config # Down
  /\ config.apiKey = bearer[r]
  /\ config.maxTopUpAmount >= amount[r] /\ config.keypair

\* A request carries the satellite of the state it read, and one that came
\* through the facilitator is honoured by the running one or was signed before
\* the last one stopped.
RequestInv(r) ==
  /\ pc[r] = "idle" => bearer[r] = NoBearer
  /\ pc[r] # "idle" => amount[r] \in Amounts
  /\ pc[r] = "send" => signedAt[r] <= now
  /\ pc[r] \in {"sign", "send"} => attached[r] = (seenState[r] = "GracePeriod")
  /\ bearer[r] # NoBearer =>
       Honoured(r) \/ (pc[r] = "send" /\ signedAt[r] <= stoppedAt)

EndpointInv == IInv /\ EndpointTypes /\ \A r \in Requests : RequestInv(r)

-----------------------------------------------------------------------------
LEMMA EndpointInit == UInit => EndpointInv
<1> SUFFICES ASSUME UInit PROVE EndpointInv
  OBVIOUS
<1>1. IInv
  BY MoneyInit, TimeInit DEF UInit, IInv
<1>2. EndpointTypes
  BY EndpointAssumption
  DEF UInit, Init, EndpointTypes, Locations, SubscriptionState
<1>3. \A r \in Requests : RequestInv(r)
  BY DEF UInit, RequestInv
<1>4. QED
  BY <1>1, <1>2, <1>3 DEF EndpointInv

\* The clock of Next does not step back.
LEMMA ClockForward ==
  ASSUME MoneyInv, [Next]_vars
  PROVE  now \in Int /\ now' \in Int /\ now <= now'
<1>1. now \in Int
  BY EscrowAssumption DEF MoneyInv, TypeOK
<1>2. now' = now \/ now' = now + 1
  BY DEF Next, AccountStep, UseNext, SubscriberStep, MerchantStep, PartyCancel,
         KeeperStep, FacilitatorStep, CreatePlan, Subscribe, NewSubscription,
         Cleanup, Charge, TopUp, Pause, Resume, Cancel, OpenSession,
         SettleUsage, CloseSession, Tick, HandBack, TokenStep, Gift,
         CloseMerchantAta, ReopenMerchantAta, vars
<1>3. QED
  BY <1>1, <1>2

\* What the escrow sees of a step: an instruction, or nothing.
LEMMA EndpointOnEscrow ==
  ASSUME EndpointInv, [UNext]_uvars
  PROVE  [Next]_vars
<1>1. ASSUME NEW r \in Requests, LandTopUp(r)
      PROVE  Next
  <2>1. /\ amount[r] \in Amounts /\ attached[r] \in BOOLEAN
        /\ TopUp(amount[r], attached[r])
    BY <1>1 DEF EndpointInv, EndpointTypes, RequestInv, LandTopUp
  <2>2. QED
    BY <2>1 DEF Next, UseNext, SubscriberStep
<1>2. ASSUME NEW r \in Requests, RequestStep(r), ~LandTopUp(r)
      PROVE  UNCHANGED vars
  BY <1>2
  DEF RequestStep, Post, TsBuildTopUp, ReadForTopUp, SignTopUp, FailTopUp
<1>3. ASSUME NEW env \in Environments, Start(env)
      PROVE  UNCHANGED vars
  BY <1>3 DEF Start
<1>4. CASE Stop \/ UNCHANGED uvars
  BY <1>4 DEF Stop, uvars
<1>5. QED
  BY <1>1, <1>2, <1>3, <1>4 DEF UNext

-----------------------------------------------------------------------------
(***************************************************************************)
(* The requests.                                                           *)
(***************************************************************************)
\* The requests in `over` are gone, the others are as they were.
LEMMA FinishKeeps ==
  ASSUME EndpointTypes, NEW over, FinishAll(over), config' = config,
         stoppedAt' = stoppedAt, now' = now, NEW r \in Requests, RequestInv(r)
  PROVE  RequestInv(r)'
BY DEF FinishAll, EndpointTypes, RequestInv, Honoured

LEMMA FinishTypes ==
  ASSUME EndpointTypes, NEW over, FinishAll(over)
  PROVE  /\ pc' \in [Requests -> Locations]
         /\ bearer' \in [Requests -> Bearers \cup {NoBearer}]
         /\ amount' \in [Requests -> Nat]
         /\ seenState' \in [Requests -> SubscriptionState \cup {"None"}]
         /\ attached' \in [Requests -> BOOLEAN]
         /\ signedAt' \in [Requests -> Int]
BY DEF FinishAll, EndpointTypes, Locations

\* A step of request r, up to its end.
LEMMA RequestsStep ==
  ASSUME EndpointInv, NEW r \in Requests, RequestStep(r)
  PROVE  EndpointTypes' /\ \A q \in Requests : RequestInv(q)'
<1>1. /\ EndpointTypes /\ RequestInv(r) /\ now \in Int
      /\ state \in SubscriptionState \cup {"None"}
  BY EscrowAssumption DEF EndpointInv, IInv, MoneyInv, TypeOK
<1>2. now' = now /\ config' = config /\ stoppedAt' = stoppedAt
  BY DEF RequestStep, Post, TsBuildTopUp, ReadForTopUp, SignTopUp, LandTopUp,
         FailTopUp, TopUp, Finish, process, vars
<1>3. CASE Finish(r)
  <2>1. EndpointTypes'
    BY <1>1, <1>2, <1>3, FinishTypes
    DEF Finish, EndpointTypes, Locations, SubscriptionState
  <2>2. QED
    BY <1>1, <1>2, <1>3, <2>1, FinishKeeps DEF Finish, EndpointInv
<1>4. ASSUME NEW token \in Bearers, NEW a \in Amounts, Post(r, token, a)
      PROVE  EndpointTypes' /\ \A q \in Requests : RequestInv(q)'
  <2>1. a \in Nat
    BY EscrowAssumption
  <2>2. EndpointTypes'
    BY <1>1, <1>2, <1>4, <2>1
    DEF Post, EndpointTypes, Locations, SubscriptionState
  <2>3. ASSUME NEW q \in Requests
        PROVE  RequestInv(q)'
    BY <1>1, <1>2, <1>4
    DEF Post, RequireBearer, Payable, EndpointInv, EndpointTypes, RequestInv,
        Honoured
  <2>4. QED
    BY <2>2, <2>3
<1>5. ASSUME NEW a \in Amounts, TsBuildTopUp(r, a)
      PROVE  EndpointTypes' /\ \A q \in Requests : RequestInv(q)'
  <2>1. a \in Nat
    BY EscrowAssumption
  <2>2. EndpointTypes'
    BY <1>1, <1>2, <1>5, <2>1
    DEF TsBuildTopUp, TsTopUpSlot, EndpointTypes, Locations, SubscriptionState
  <2>3. ASSUME NEW q \in Requests
        PROVE  RequestInv(q)'
    BY <1>1, <1>2, <1>5
    DEF TsBuildTopUp, TsTopUpSlot, EndpointInv, EndpointTypes, RequestInv,
        Honoured
  <2>4. QED
    BY <2>2, <2>3
<1>6. CASE ReadForTopUp(r) /\ ~Finish(r)
  <2>1. EndpointTypes'
    BY <1>1, <1>2, <1>6
    DEF ReadForTopUp, TopUpMetas, EndpointTypes, Locations, SubscriptionState
  <2>2. ASSUME NEW q \in Requests
        PROVE  RequestInv(q)'
    BY <1>1, <1>2, <1>6
    DEF ReadForTopUp, TopUpMetas, EndpointInv, EndpointTypes, RequestInv,
        Honoured
  <2>3. QED
    BY <2>1, <2>2
<1>7. CASE SignTopUp(r)
  <2>1. EndpointTypes'
    BY <1>1, <1>2, <1>7
    DEF SignTopUp, EndpointTypes, Locations, SubscriptionState
  <2>2. ASSUME NEW q \in Requests
        PROVE  RequestInv(q)'
    BY <1>1, <1>2, <1>7
    DEF SignTopUp, EndpointInv, EndpointTypes, RequestInv, Honoured
  <2>3. QED
    BY <2>1, <2>2
<1>8. QED
  BY <1>3, <1>4, <1>5, <1>6, <1>7 DEF RequestStep, LandTopUp, FailTopUp

\* Start and Stop: what the new configuration does not honour was signed
\* before the old one stopped.
LEMMA ProcessStep ==
  ASSUME EndpointInv, Stop \/ \E env \in Environments : Start(env)
  PROVE  EndpointTypes' /\ \A q \in Requests : RequestInv(q)'
<1>1. EndpointTypes /\ now \in Int /\ now' = now
  BY EscrowAssumption DEF EndpointInv, IInv, MoneyInv, TypeOK, Start, Stop, vars
<1>2. CASE Stop
  <2>1. EndpointTypes'
    BY <1>1, <1>2, FinishTypes
    DEF Stop, EndpointTypes, Locations, SubscriptionState
  <2>2. ASSUME NEW q \in Requests
        PROVE  RequestInv(q)'
    BY <1>1, <1>2
    DEF Stop, FinishAll, EndpointInv, EndpointTypes, RequestInv
  <2>3. QED
    BY <2>1, <2>2
<1>3. CASE \E env \in Environments : Start(env)
  <2>1. EndpointTypes'
    BY <1>1, <1>3
    DEF Start, EndpointTypes, Locations, SubscriptionState, requests
  <2>2. ASSUME NEW q \in Requests
        PROVE  RequestInv(q)'
    BY <1>1, <1>3
    DEF Start, requests, EndpointInv, EndpointTypes, RequestInv, Honoured
  <2>3. QED
    BY <2>1, <2>2
<1>4. QED
  BY <1>2, <1>3

LEMMA EndpointStep == EndpointInv /\ [UNext]_uvars => EndpointInv'
<1> SUFFICES ASSUME EndpointInv, [UNext]_uvars
             PROVE  EndpointInv'
  OBVIOUS
<1>1. [Next]_vars /\ IInv'
  BY EndpointOnEscrow, IInvStep DEF EndpointInv
<1>2. CASE (Next /\ UNCHANGED <<process, requests>>) \/ UNCHANGED uvars
  <2>1. now \in Int /\ now' \in Int /\ now <= now'
    BY <1>1, ClockForward DEF EndpointInv, IInv
  <2>2. /\ UNCHANGED <<config, stoppedAt, pc, bearer, amount>>
        /\ UNCHANGED <<seenState, attached, signedAt>>
    BY <1>2 DEF process, requests, uvars
  <2>3. EndpointTypes'
    BY <2>1, <2>2
    DEF EndpointInv, EndpointTypes, Locations, SubscriptionState
  <2>4. ASSUME NEW q \in Requests
        PROVE  RequestInv(q)'
    BY <2>1, <2>2 DEF EndpointInv, EndpointTypes, RequestInv, Honoured
  <2>5. QED
    BY <1>1, <2>3, <2>4 DEF EndpointInv
<1>3. QED
  BY <1>1, <1>2, RequestsStep, ProcessStep DEF UNext, EndpointInv

-----------------------------------------------------------------------------
(***************************************************************************)
(* What a landing shows.                                                   *)
(***************************************************************************)
\* Only the landing of r's own transaction ends it with a larger deposit.
LEMMA LandedLands ==
  ASSUME EndpointInv, [UNext]_uvars, NEW r \in Requests, Landed(r)
  PROVE  LandTopUp(r)
<1>1. /\ pc \in [Requests -> Locations] /\ pc[r] = "send" /\ pc'[r] # pc[r]
      /\ deposited' # deposited
  <2>1. deposited \in Int
    BY EscrowAssumption DEF EndpointInv, IInv, MoneyInv, TypeOK, Amount
  <2>2. ~(deposited > deposited)
    BY <2>1
  <2>3. QED
    BY <2>2 DEF EndpointInv, EndpointTypes, Landed
<1>2. ASSUME NEW q \in Requests, RequestStep(q), ~LandTopUp(q)
      PROVE  FALSE
  BY <1>1, <1>2
  DEF RequestStep, Post, TsBuildTopUp, ReadForTopUp, SignTopUp, FailTopUp, vars
<1>3. ASSUME NEW q \in Requests, LandTopUp(q)
      PROVE  q = r
  BY <1>1, <1>3 DEF LandTopUp, Finish, FinishAll
<1>4. ~ \E env \in Environments : Start(env)
  BY <1>1 DEF Start, vars
<1>5. ~Stop /\ ~UNCHANGED uvars /\ ~UNCHANGED <<process, requests>>
  BY <1>1 DEF Stop, uvars, vars, requests
<1>6. QED
  BY <1>2, <1>3, <1>4, <1>5 DEF UNext

LEMMA EndpointHolds == USpec => []EndpointInv
BY EndpointInit, EndpointStep, PTL DEF USpec

\* A transaction built on one side of grace never deposits on the other, for
\* any number of requests and retries: the program tells a stale read by the
\* satellite that came with it.
THEOREM StaleTopUpSafe == USpec => StaleTopUpReverts
<1>1. ASSUME EndpointInv, [UNext]_uvars, NEW r \in Requests, Landed(r)
      PROVE  (seenState[r] = "GracePeriod") <=> (state = "GracePeriod")
  <2>1. TopUp(amount[r], attached[r]) /\ pc[r] = "send"
    BY <1>1, LandedLands DEF LandTopUp
  <2>2. attached[r] = (seenState[r] = "GracePeriod")
    BY <1>1, <2>1 DEF EndpointInv, RequestInv
  <2>3. attached[r] => enteredGraceAt # Absent
    BY <2>1 DEF TopUp, TopUpAccounts
  <2>4. state = "GracePeriod" => attached[r]
    BY <2>1 DEF TopUp, TopUpStates
  <2>5. enteredGraceAt # Absent <=> state = "GracePeriod"
    BY <1>1 DEF EndpointInv, IInv, MoneyInv, SatelliteIff
  <2>6. QED
    BY <2>2, <2>3, <2>4, <2>5
<1>2. EndpointInv /\ [UNext]_uvars =>
        \A r \in Requests :
          Landed(r) => ((seenState[r] = "GracePeriod") <=> (state = "GracePeriod"))
  BY <1>1
<1>3. QED
  BY <1>2, EndpointHolds, PTL DEF USpec, StaleTopUpReverts

\* What a facilitator has signed lands only while the running one would take
\* it, or within a blockhash's life of the last stop: for every sequence of
\* restarts with other keys, limits and signers.
THEOREM RevocationSafe == USpec => RevocationBites
<1>1. ASSUME EndpointInv, [UNext]_uvars, NEW r \in Requests, Landed(r),
             bearer[r] # NoBearer
      PROVE  Honoured(r) \/ now <= stoppedAt + BlockhashTtl
  <2>1. now <= signedAt[r] + BlockhashTtl
    BY <1>1, LandedLands DEF LandTopUp
  <2>2. Honoured(r) \/ signedAt[r] <= stoppedAt
    BY <1>1 DEF EndpointInv, RequestInv
  <2>3. signedAt[r] \in Int /\ stoppedAt \in Int /\ now \in Int
    BY <1>1, EscrowAssumption
    DEF EndpointInv, EndpointTypes, IInv, MoneyInv, TypeOK
  <2>4. QED
    BY <2>1, <2>2, <2>3, EndpointAssumption
<1>2. EndpointInv /\ [UNext]_uvars =>
        \A r \in Requests :
          (Landed(r) /\ bearer[r] # NoBearer) =>
            \/ /\ config # Down
               /\ config.apiKey = bearer[r]
               /\ config.maxTopUpAmount >= amount[r] /\ config.keypair
            \/ now <= stoppedAt + BlockhashTtl
  BY <1>1 DEF Honoured
<1>3. QED
  BY <1>2, EndpointHolds, PTL DEF USpec, RevocationBites

-----------------------------------------------------------------------------
(***************************************************************************)
(* A current read goes through.                                            *)
(***************************************************************************)
\* What TopUp demands of the state, and what it makes of every variable.
TopUpGuards(a, attach) ==
  /\ TopUpAccounts(attach)
  /\ a > 0
  /\ TopUpStates(attach)
  /\ subscriberAta >= a
  /\ FitsU64(vault + a) /\ FitsU64(deposited + a)
  /\ state = "GracePeriod" => now >= enteredGraceAt /\ FitsI64(RecoveredStart)
TopUpEffect(a, attach) ==
  /\ subscriberAta' = subscriberAta - a
  /\ vault' = vault + a
  /\ deposited' = deposited + a
  /\ streamStart' = IF state = "GracePeriod" THEN RecoveredStart ELSE streamStart
  /\ state' = IF state = "GracePeriod" THEN "Active" ELSE state
  /\ enteredGraceAt' = IF attach THEN Absent ELSE enteredGraceAt
  /\ graceUntil' = IF attach THEN Absent ELSE graceUntil
  /\ UNCHANGED <<now, plan, price, period, withdrawn, nextChargeAt,
                 merchantAta, gifts, merchantAtaOpen, pausedAt, facilitator,
                 usage, reservation>>

\* A top-up is its guards and its effect, which gives every variable a value:
\* where the guards hold, the step exists.
LEMMA TopUpIsGuardedEffect ==
  ASSUME NEW a, NEW attach \in BOOLEAN
  PROVE  TopUp(a, attach) <=> TopUpGuards(a, attach) /\ TopUpEffect(a, attach)
BY DEF TopUp, TopUpTail, TopUpGuards, TopUpEffect, terms, hint, graced,
       sessions, outside

\* With the satellite of the present state every guard but the wallet's and
\* the 64-bit bounds is open.
LEMMA TopUpIsOpen ==
  ASSUME IInv, state \in Live, NEW a \in Nat, a > 0, subscriberAta >= a,
         FitsU64(vault + a), FitsU64(deposited + a)
  PROVE  TopUpGuards(a, state = "GracePeriod")
<1>1. TopUpAccounts(state = "GracePeriod") /\ TopUpStates(state = "GracePeriod")
  BY DEF IInv, MoneyInv, SatelliteIff, TopUpAccounts, TopUpStates
<1>2. ASSUME state = "GracePeriod"
      PROVE  now >= enteredGraceAt /\ FitsI64(RecoveredStart)
  <2>1. /\ streamStart <= enteredGraceAt /\ enteredGraceAt <= now
    BY <1>2 DEF IInv, TimeInv, EarnedOnly, ServiceEnd, Live
  <2>2. /\ streamStart \in Int /\ enteredGraceAt \in Int /\ now \in Int
        /\ now <= I64Max /\ I64Max \in Int
    BY EscrowAssumption DEF IInv, MoneyInv, TypeOK, Timestamp, Absent
  <2>3. QED
    BY <2>1, <2>2 DEF RecoveredStart, FitsI64
<1>3. QED
  BY <1>1, <1>2 DEF TopUpGuards

\* A request for a positive amount whose read is still current finds the
\* program open to it from every state that takes a top-up: the enabledness
\* that CurrentTopUpLands asks TLC for.
THEOREM CurrentTopUpOpen ==
  USpec => [](\A r \in Requests :
    (/\ pc[r] = "send" /\ amount[r] > 0
     /\ state \in Live /\ seenState[r] = state
     /\ subscriberAta >= amount[r]
     /\ FitsU64(vault + amount[r]) /\ FitsU64(deposited + amount[r]))
    => TopUpGuards(amount[r], attached[r]))
<1>1. ASSUME EndpointInv, NEW r \in Requests,
             pc[r] = "send", amount[r] > 0, state \in Live,
             seenState[r] = state, subscriberAta >= amount[r],
             FitsU64(vault + amount[r]), FitsU64(deposited + amount[r])
      PROVE  TopUpGuards(amount[r], attached[r])
  <2>1. amount[r] \in Nat /\ attached[r] = (state = "GracePeriod")
    BY <1>1 DEF EndpointInv, EndpointTypes, RequestInv
  <2>2. QED
    BY <1>1, <2>1, TopUpIsOpen DEF EndpointInv
<1>2. EndpointInv => \A r \in Requests :
        (/\ pc[r] = "send" /\ amount[r] > 0
         /\ state \in Live /\ seenState[r] = state
         /\ subscriberAta >= amount[r]
         /\ FitsU64(vault + amount[r]) /\ FitsU64(deposited + amount[r]))
        => TopUpGuards(amount[r], attached[r])
  BY <1>1
<1>3. QED
  BY <1>2, EndpointHolds, PTL

=============================================================================
