\* One attempt at a time, interleaved with every other party.
CONSTANTS
  Terms <- MCSteadyTerms
  NoPlan = NoPlan
  Periods = {1}
  Amounts = {1}
  Signers = {"subscriber"}
  SessionIds = {s1, s2}
  Facilitators = {f1}
  NoFacilitator = NoFacilitator
  Funding = 6
  Recirculated = {}
  MaxGifts = 0
  MerchantAtaMayClose = FALSE
  GraceDuration = 1
  U64Max = 20
  I64Max = 20
  MaxTime = 4
  MaxDrift = 0
  Attempts = {c1}
  CloseAlive = TRUE
  MaxInlineCloses = 1
  BlockhashTtl = 2
SPECIFICATION RetrySpec
INVARIANTS SessionsWithinWithdrawn
PROPERTIES FreshStart RetryGetsThrough
CHECK_DEADLOCK FALSE
