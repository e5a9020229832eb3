SPECIFICATION Spec
CONSTANTS
  t1 = t1
  t2 = t2
  a1 = a1
  a2 = a2
  h1 = h1
  h2 = h2
  NoAttempt = NoAttempt
  Txns <- MCTxns
  Amount <- MCAmount
  Target = 2
  Attempts <- MCAttempts
  Handlers <- MCHandlers
  Gateway <- MCGateway
  MaxEchoes = 1
  ReportsInterim = FALSE
INVARIANTS
  OnlyReverseOnce
CHECK_DEADLOCK FALSE
