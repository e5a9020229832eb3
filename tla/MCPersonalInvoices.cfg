SPECIFICATION PersonalFairSpec
CONSTANTS
  a = a
  b = b
  j1 = j1
  j2 = j2
  NoCharge = NoCharge
  Charges <- MCCharges
  Jobs <- MCJobs
  PersonalAmount = 2
  FeePercent = 101
  PercentParts = 2
  Attempts = 2
  Gateway <- MCGateway
  ReportsInterim = TRUE
INVARIANTS
  CreditedOnceExactly
PROPERTIES
  PersonalLedger
  ConfirmedChargeCredits
CHECK_DEADLOCK FALSE
