SPECIFICATION FairSpec
CONSTANTS
  t1 = t1
  t2 = t2
  a1 = a1
  a2 = a2
  h1 = h1
  h2 = h2
  NoAttempt = NoAttempt
  Txns <- OnePayment
  Amount <- OneAmount
  Target = 0
  Attempts <- MCAttempts
  Handlers <- MCHandlers
  Gateway <- OneGateway
  MaxEchoes = 1
  ReportsInterim = TRUE
PROPERTIES
  RefundSettles
CHECK_DEADLOCK FALSE
