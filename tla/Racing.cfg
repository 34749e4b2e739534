SPECIFICATION FairSpec
CONSTANTS
  t1 = t1
  t2 = t2
  dfsp1 = dfsp1
  dfsp2 = dfsp2
  Transfer = {t1}
  Account = {dfsp1, dfsp2}
  Payer <- MCPayer
  Payee <- MCPayee
  Amount <- MCAmount
  NetDebitCap <- MCNetDebitCap
  LiquidityCover <- MCLiquidityCover
  ClientKind = {"prepare", "invalidPrepare", "commit", "reserve", "abort", "badReserve"}
  Expirable = {t1}
  MaxRequests = 4
  MaxCrashes = 0
INVARIANTS
  RefundedAtMostOnce
  NothingHeldAtTheEnd
  ReservedAbortedIsFinal
PROPERTIES
  EveryTransferEnds
CHECK_DEADLOCK FALSE
