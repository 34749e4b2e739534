SPECIFICATION Spec
CONSTANTS
  t1 = t1
  t2 = t2
  dfsp1 = dfsp1
  dfsp2 = dfsp2
  Transfer = {t1}
  Account = {dfsp1, dfsp2}
  Payer <- MCPayer
  Payee <- MCPayee
  Amount <- MCAmount
  NetDebitCap <- MCNetDebitCap
  LiquidityCover <- MCLiquidityCover
  ClientKind = {"prepare", "commit"}
  Expirable = {t1}
  MaxRequests = 2
  MaxCrashes = 0
PROPERTIES
  ExpiredReservedIsFinal
CHECK_DEADLOCK FALSE
