SPECIFICATION Spec
CONSTANTS
  t1 = t1
  t2 = t2
  dfsp1 = dfsp1
  dfsp2 = dfsp2
  Transfer = {t1, t2}
  Account = {dfsp1, dfsp2}
  Payer <- MCPayer
  Payee <- MCPayee
  Amount <- MCAmount
  NetDebitCap <- MCNetDebitCap
  LiquidityCover <- MCLiquidityCover
  ClientKind = {"prepare", "invalidPrepare", "reserve", "abort", "badCommit"}
  Expirable = {}
  MaxRequests = 3
  MaxCrashes = 0
INVARIANTS
  PositionWithinLimit
PROPERTIES
  KeepsTheLedger
CHECK_DEADLOCK FALSE
