\* Do the two derivations agree?
CONSTANTS
  Terms <- MCFineTerms
  NoPlan = NoPlan
  Periods = {1}
  Amounts = {17}
  Signers = {"subscriber"}
  SessionIds = {s1}
  Facilitators = {f1}
  NoFacilitator = NoFacilitator
  Funding = 21
  Recirculated = {}
  MaxGifts = 0
  MerchantAtaMayClose = FALSE
  GraceDuration = 1
  U64Max = 40
  I64Max = 40
  MaxTime = 6
  MaxDrift = 0
  SecondsPerDay = 1
  LowFundsDays = 1
  U32Max = 15
  HostSkew = 0
SPECIFICATION SSpec
INVARIANTS CrossLanguageEqual
CHECK_DEADLOCK FALSE
