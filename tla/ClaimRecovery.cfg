\* Do the funds of a recovery start streaming at the recovery?
CONSTANTS
  Terms <- MCSteadyTerms
  NoPlan = NoPlan
  Periods = {1}
  Amounts = {1, 3}
  Signers = {"subscriber"}
  SessionIds = {s1, s2}
  Facilitators = {f1}
  NoFacilitator = NoFacilitator
  Funding = 9
  Recirculated = {}
  MaxGifts = 0
  MerchantAtaMayClose = FALSE
  GraceDuration = 1
  U64Max = 20
  I64Max = 20
  MaxTime = 8
  MaxDrift = 0
SPECIFICATION Spec
PROPERTIES RecoveryStreamsAfresh
CHECK_DEADLOCK FALSE
