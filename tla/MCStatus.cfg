\* The reader beside the program, on a clock that may step back.
CONSTANTS
  Terms <- MCSteadyTerms
  NoPlan = NoPlan
  Periods = {1}
  Amounts = {1}
  Signers = {"subscriber"}
  SessionIds = {s1}
  Facilitators = {}
  NoFacilitator = NoFacilitator
  Funding = 4
  Recirculated = {}
  MaxGifts = 0
  MerchantAtaMayClose = TRUE
  GraceDuration = 1
  U64Max = 40
  I64Max = 40
  MaxTime = 4
  MaxDrift = 1
  SecondsPerDay = 2
  LowFundsDays = 1
  U32Max = 15
  HostSkew = 1
SPECIFICATION SSpec
INVARIANTS EscrowExact SatelliteIff ClaimableIsChargeable
PROPERTIES CorruptMeansTorn
CHECK_DEADLOCK FALSE
