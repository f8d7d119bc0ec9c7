\* Two overlapping attempts: no order of landing loses a token.
CONSTANTS
  Terms <- MCSteadyTerms
  NoPlan = NoPlan
  Periods = {1}
  Amounts = {1}
  Signers = {"subscriber"}
  SessionIds = {s1}
  Facilitators = {f1}
  NoFacilitator = NoFacilitator
  Funding = 6
  Recirculated = {}
  MaxGifts = 1
  MerchantAtaMayClose = FALSE
  GraceDuration = 1
  U64Max = 20
  I64Max = 20
  MaxTime = 3
  MaxDrift = 0
  Attempts = {c1, c2}
  CloseAlive = TRUE
  MaxInlineCloses = 1
  BlockhashTtl = 2
SPECIFICATION RaceSpec
INVARIANTS TokensConserved
PROPERTIES FreshUnlessOvertaken
SYMMETRY MCSymmetry
CHECK_DEADLOCK FALSE
