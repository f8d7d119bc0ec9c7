\* A request and its retry, racing every other party.
CONSTANTS
  Terms <- MCFastTerms
  NoPlan = NoPlan
  Periods = {1}
  Amounts = {1, 2}
  Signers = {"merchant"}
  SessionIds = {}
  Facilitators = {f1}
  NoFacilitator = NoFacilitator
  Funding = 4
  Recirculated = {}
  MaxGifts = 1
  MerchantAtaMayClose = FALSE
  GraceDuration = 1
  U64Max = 20
  I64Max = 20
  MaxTime = 2
  MaxDrift = 0
  Requests = {r1, r2}
  Bearers = {"old", "new"}
  NoBearer = "none"
  Environments <- MCEnvironments
  Down = Down
  BlockhashTtl = 1
SPECIFICATION USpec
INVARIANTS CurrentTopUpLands
PROPERTIES StaleTopUpReverts RevocationBites
SYMMETRY MCSymmetry
CHECK_DEADLOCK FALSE
