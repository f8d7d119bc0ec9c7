\* Does every account close back to the wallet that paid for it?
CONSTANTS
  Terms <- MCSteadyTerms
  NoPlan = NoPlan
  Periods = {1}
  Amounts = {1}
  Signers = {"subscriber", "merchant"}
  SessionIds = {s1}
  Facilitators = {f1}
  NoFacilitator = NoFacilitator
  Funding = 6
  Recirculated = {}
  MaxGifts = 0
  MerchantAtaMayClose = FALSE
  GraceDuration = 1
  U64Max = 20
  I64Max = 20
  MaxTime = 5
  MaxDrift = 0
  Rent <- MCRent
  Lamports <- MCLamports
  Payers = {"keeper", "merchant"}
SPECIFICATION RentSpec
PROPERTIES ClosesToPayer
CHECK_DEADLOCK FALSE
