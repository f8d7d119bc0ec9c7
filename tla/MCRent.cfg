\* Rent beside the program: a keeper that pays, a subscriber that may leave.
CONSTANTS
  Terms <- MCSteadyTerms
  NoPlan = NoPlan
  Periods = {1}
  Amounts = {1}
  Signers = {"subscriber", "merchant"}
  SessionIds = {s1}
  Facilitators = {f1}
  NoFacilitator = NoFacilitator
  Funding = 6
  Recirculated = {}
  MaxGifts = 1
  MerchantAtaMayClose = TRUE
  GraceDuration = 1
  U64Max = 20
  I64Max = 20
  MaxTime = 5
  MaxDrift = 0
  Rent <- MCRent
  Lamports <- MCLamports
  Payers = {"keeper", "merchant"}
SPECIFICATION RentSpec
INVARIANTS RentExact RentFlows GoneIsWhole
PROPERTIES EarnedIsPaid LeaverIsWhole ClosesToPayerButStrays
CHECK_DEADLOCK FALSE
