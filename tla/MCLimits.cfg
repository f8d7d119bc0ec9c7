\* 64-bit limits low enough to be met (deposits, hints and grace deadlines
\* overflow, and tokens go round often enough to fill the deposit counter) on a
\* clock that may step back by up to two seconds at any time.
CONSTANTS
  Terms <- MCTerms
  NoPlan = NoPlan
  Periods = {1, 2}
  Amounts = {3}
  Signers = {"subscriber"}
  SessionIds = {s1}
  Facilitators = {f1}
  NoFacilitator = NoFacilitator
  Funding = 7
  Recirculated = {3}
  MaxGifts = 1
  MerchantAtaMayClose = FALSE
  GraceDuration = 2
  U64Max = 7
  I64Max = 5
  MaxTime = 5
  MaxDrift = 2
  MaxService = 6
SPECIFICATION RecordedSpec
INVARIANTS TypeOK ChargeNeverBricked EarnedByService CancelReopens
CHECK_DEADLOCK FALSE
