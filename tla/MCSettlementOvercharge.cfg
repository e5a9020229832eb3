SPECIFICATION Spec
CONSTANTS
  i1 = i1
  a = a
  b = b
  j1 = j1
  j2 = j2
  j3 = j3
  NoCharge = NoCharge
  Invoices <- MCInvoices
  Charges <- MCCharges
  Jobs <- TwoJobs
  MaxAmount = 2
  FeePercent = 101
  PercentParts = 2
  Attempts = 2
  Gateway <- MCGateway
  ReportsInterim = FALSE
SYMMETRY Symmetry
INVARIANTS
  NeverOvercharged
CHECK_DEADLOCK FALSE
