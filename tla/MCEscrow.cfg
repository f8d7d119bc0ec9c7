\* The whole instruction set on a clock that never runs backwards.
CONSTANTS
  Terms <- MCTerms
  NoPlan = NoPlan
  Periods = {0, 1, 2}
  Amounts = {0, 1, 3}
  Signers = {"subscriber", "merchant", "stranger"}
  SessionIds = {s1}
  Facilitators = {f1}
  NoFacilitator = NoFacilitator
  Funding = 7
  Recirculated = {}
  MaxGifts = 1
  MerchantAtaMayClose = TRUE
  GraceDuration = 1
  U64Max = 20
  I64Max = 20
  MaxTime = 6
  MaxDrift = 0
SPECIFICATION Spec
INVARIANTS EscrowExact SatelliteIff EarnedOnly GraceIsExhausted
  CancelOpenUnlessShut ChargeNeverBricked HintNeverLate
PROPERTIES MeteredStream RecoveryPaysBacklog GiftHoldsForGood
\* Behaviours end at MaxTime with the wallets empty.
CHECK_DEADLOCK FALSE
