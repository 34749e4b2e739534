SPECIFICATION Spec
CONSTANTS
  t1 = t1
  t2 = t2
  dfsp1 = dfsp1
  dfsp2 = dfsp2
  Transfer = {t1}
  Account = {dfsp1, dfsp2}
  Payer <- MCPayer
  Payee <- MCPayee
  Amount <- MCAmount
  NetDebitCap <- MCNetDebitCap
  LiquidityCover <- MCLiquidityCover
  ClientKind = {"prepare", "modifiedPrepare", "invalidPrepare", "forwarded", "commit", "reserve", "abort", "reject", "badReserve", "misroutedCommit"}
  Expirable = {t1}
  MaxRequests = 3
  MaxCrashes = 2
INVARIANTS
  TypeOK
  CreditIsFunded
  NoticesMatchMoney
  SweepNeverBlocked
CHECK_DEADLOCK FALSE
