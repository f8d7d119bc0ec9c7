---------------------------- MODULE TopUpEndpoint ----------------------------
(***************************************************************************)
(* Top-ups built off chain, beside the program.  The facilitator's         *)
(* POST /subscriptions/{pda}/top-up:                                       *)
(* the handler validates the amount, reads the Subscription to decide      *)
(* whether to attach the grace satellite, takes a blockhash, signs with    *)
(* the subscriber's key, sends and waits for the confirmation.  Other      *)
(* parties act between these awaits.  A caller of the TypeScript SDK does  *)
(* the same by hand: reads the state, has the builder pick the satellite,  *)
(* signs and sends.                                                        *)
(*                                                                         *)
(* The facilitator is a process with a configuration fixed at start-up:    *)
(* the bearer key it asks for, the limit on an amount and whether it was   *)
(* handed the subscriber's key to sign with.  It may stop at any time and  *)
(* be started again with another configuration.                            *)
(*                                                                         *)
(* The answer changes nothing on chain: a request whose handler has        *)
(* answered an RPC error stays in "send" for as long as its transaction    *)
(* can land, and the caller's retry is another request.                    *)
(***************************************************************************)
EXTENDS Escrow

CONSTANTS
  Requests,
  Bearers,         \* the tokens that callers present
  NoBearer,        \* no token: an unset key, a caller of the SDK
  Environments,    \* the settings an operator starts the facilitator with
  Down,            \* no facilitator is running
  BlockhashTtl     \* seconds for which a signed transaction can land

ASSUME EndpointAssumption ==
  /\ NoBearer \notin Bearers
  /\ Environments \subseteq
       [apiKey : Bearers \cup {NoBearer}, loopback : BOOLEAN,
        allowPublicBind : BOOLEAN, keypair : BOOLEAN, maxTopUpAmount : Nat]
  /\ Down \notin Environments
  /\ BlockhashTtl \in Nat

VARIABLES
  config,     \* the configuration of the running facilitator
  stoppedAt,  \* when a facilitator last stopped
  pc,         \* where each request waits
  bearer,     \* the token it came with
  amount,     \* req.amount
  seenState,  \* the state of the Subscription it read
  attached,   \* whether its transaction carries the grace satellite
  signedAt    \* when it took its blockhash

process == <<config, stoppedAt>>
requests == <<pc, bearer, amount, seenState, attached, signedAt>>
uvars == <<vars, process, requests>>

UInit ==
  /\ Init
  /\ config = Down
  /\ stoppedAt = -1 - BlockhashTtl     \* long ago
  /\ pc = [r \in Requests |-> "idle"]
  /\ bearer = [r \in Requests |-> NoBearer]
  /\ amount = [r \in Requests |-> 0]
  /\ seenState = [r \in Requests |-> "None"]
  /\ attached = [r \in Requests |-> FALSE]
  /\ signedAt = [r \in Requests |-> 0]

\* These requests are over; their locals are gone.
FinishAll(over) ==
  /\ pc' = [r \in Requests |-> IF r \in over THEN "idle" ELSE pc[r]]
  /\ bearer' = [r \in Requests |-> IF r \in over THEN NoBearer ELSE bearer[r]]
  /\ amount' = [r \in Requests |-> IF r \in over THEN 0 ELSE amount[r]]
  /\ seenState' =
       [r \in Requests |-> IF r \in over THEN "None" ELSE seenState[r]]
  /\ attached' = [r \in Requests |-> r \notin over /\ attached[r]]
  /\ signedAt' = [r \in Requests |-> IF r \in over THEN 0 ELSE signedAt[r]]

Finish(r) == FinishAll({r}) /\ UNCHANGED process

-----------------------------------------------------------------------------
(***************************************************************************)
(* The process.                                                            *)
(***************************************************************************)
\* No facilitator starts without a bearer key, or on a public address that
\* was not asked for.
FromEnv(env) ==
  /\ env.apiKey # NoBearer
  /\ env.loopback \/ env.allowPublicBind

Start(env) ==
  /\ config = Down
  /\ FromEnv(env)
  /\ config' = env
  /\ UNCHANGED <<vars, stoppedAt, requests>>

\* The process ends, and with it every request that has not been sent.
Stop ==
  /\ config # Down
  /\ config' = Down
  /\ stoppedAt' = now
  /\ FinishAll({r \in Requests : bearer[r] # NoBearer /\ pc[r] # "send"})
  /\ UNCHANGED vars

\* Mutant: the middleware looks for a token and does not compare it.
AnyBearer(token) == config # Down

\* require_bearer, in front of every route that reads or signs.
RequireBearer(token) == config # Down /\ token = config.apiKey

\* The amounts that a facilitator with a signing key takes; others are
\* answered 400, and all of them 503 without the key.
Payable(a) == a > 0 /\ a <= config.maxTopUpAmount /\ config.keypair

-----------------------------------------------------------------------------
(***************************************************************************)
(* The requests.                                                           *)
(***************************************************************************)
Post(r, token, a) ==
  /\ pc[r] = "idle"
  /\ RequireBearer(token)
  /\ Payable(a)
  /\ pc' = [pc EXCEPT ![r] = "read"]
  /\ bearer' = [bearer EXCEPT ![r] = token]
  /\ amount' = [amount EXCEPT ![r] = a]
  /\ UNCHANGED <<vars, process, seenState, attached, signedAt>>

\* Mutant: the placeholder is passed whatever the state.
PlaceholderTopUpMetas(seen) == FALSE

\* Whether the grace satellite is attached, by the state that was read: the
\* facilitator's account metas, and the slot of the TypeScript builder.
TopUpMetas(seen) == seen = "GracePeriod"
TsTopUpSlot(seen) == seen = "GracePeriod"

\* The Subscription as it is now, in whatever state; none is answered 404.
ReadForTopUp(r) ==
  /\ pc[r] = "read"
  /\ \/ state = "None" /\ Finish(r)
     \/ /\ state # "None"
        /\ pc' = [pc EXCEPT ![r] = "sign"]
        /\ seenState' = [seenState EXCEPT ![r] = state]
        /\ attached' = [attached EXCEPT ![r] = TopUpMetas(state)]
        /\ UNCHANGED <<process, bearer, amount, signedAt>>
  /\ UNCHANGED vars

\* buildTopUpIx with the state its caller has just read; no limit applies.
TsBuildTopUp(r, a) ==
  /\ pc[r] = "idle"
  /\ state # "None"
  /\ pc' = [pc EXCEPT ![r] = "sign"]
  /\ amount' = [amount EXCEPT ![r] = a]
  /\ seenState' = [seenState EXCEPT ![r] = state]
  /\ attached' = [attached EXCEPT ![r] = TsTopUpSlot(state)]
  /\ UNCHANGED <<vars, process, bearer, signedAt>>

SignTopUp(r) ==
  /\ pc[r] = "sign"
  /\ pc' = [pc EXCEPT ![r] = "send"]
  /\ signedAt' = [signedAt EXCEPT ![r] = now]
  /\ UNCHANGED <<vars, process, bearer, amount, seenState, attached>>

LandTopUp(r) ==
  /\ pc[r] = "send"
  /\ now <= signedAt[r] + BlockhashTtl
  /\ TopUp(amount[r], attached[r])
  /\ Finish(r)

\* An RPC call fails, or the transaction reverts, is dropped or expires.
FailTopUp(r) ==
  /\ pc[r] # "idle"
  /\ Finish(r)
  /\ UNCHANGED vars

RequestStep(r) ==
  \/ \E token \in Bearers, a \in Amounts : Post(r, token, a)
  \/ \E a \in Amounts : TsBuildTopUp(r, a)
  \/ ReadForTopUp(r)
  \/ SignTopUp(r)
  \/ LandTopUp(r)
  \/ FailTopUp(r)

UNext ==
  \/ \E r \in Requests : RequestStep(r)
  \/ \E env \in Environments : Start(env)
  \/ Stop
  \/ Next /\ UNCHANGED <<process, requests>>

USpec == UInit /\ [][UNext]_uvars

-----------------------------------------------------------------------------
\* The transaction of request r lands in this step.
Landed(r) == pc[r] = "send" /\ pc'[r] = "idle" /\ deposited' > deposited

\* A request whose read is still current goes through from every state that
\* takes a top-up, grace included, as long as the wallet holds the amount and
\* the deposit and the vault stay within 64 bits.
CurrentTopUpLands ==
  \A r \in Requests :
    (/\ pc[r] = "send"
     /\ state \in Live /\ seenState[r] = state
     /\ subscriberAta >= amount[r]
     /\ FitsU64(deposited + amount[r]) /\ FitsU64(vault + amount[r]))
    => ENABLED TopUp(amount[r], attached[r])

\* A transaction built on one side of grace never deposits on the other: a
\* subscription that entered grace after the read is not paid without being
\* revived, and of two requests that both found it in grace (a retry after a
\* lost answer) only the first lands in that grace period.
StaleTopUpReverts ==
  [][\A r \in Requests :
       Landed(r) => ((seenState[r] = "GracePeriod") <=> (state = "GracePeriod"))
    ]_uvars

\* Taking the keys away from the facilitator takes effect: when a transaction
\* it has signed lands, either the facilitator that is running now asks for
\* that very token, allows that amount and has a key to sign with, or the last
\* one stopped no longer ago than a blockhash lives.
RevocationBites ==
  [][\A r \in Requests :
       (Landed(r) /\ bearer[r] # NoBearer) =>
         \/ /\ config # Down
            /\ config.apiKey = bearer[r]
            /\ config.maxTopUpAmount >= amount[r] /\ config.keypair
         \/ now <= stoppedAt + BlockhashTtl]_uvars

=============================================================================
