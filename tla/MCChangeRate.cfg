\* A migration by either SDK, racing every other party.
CONSTANTS
  Terms <- MCSteadyTerms
  NoPlan = NoPlan
  Periods = {1}
  Amounts = {1}
  Signers = {"subscriber"}
  SessionIds = {s1, s2}
  Facilitators = {f1}
  NoFacilitator = NoFacilitator
  Funding = 4
  Recirculated = {}
  MaxGifts = 1
  MerchantAtaMayClose = FALSE
  GraceDuration = 1
  U64Max = 20
  I64Max = 20
  MaxTime = 2
  MaxDrift = 0
  Calls = {c1}
  CloseAlive = TRUE
  MaxInlineCloses = 1
  BlockhashTtl = 1
SPECIFICATION MSpec
INVARIANTS NothingLost BothExact MigrationNeverBlocked
SYMMETRY MCSymmetry
CHECK_DEADLOCK FALSE
