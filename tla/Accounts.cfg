SPECIFICATION FairSpec
CONSTANTS
  dfsp1 = dfsp1
  deferredNet = deferredNet
  interchange = interchange
  defaultNet = defaultNet
  p1 = p1
  p2 = p2
  w1 = w1
  w2 = w2
  Participant = {dfsp1}
  Model = {deferredNet, interchange, defaultNet}
  OwnCurrency = {deferredNet, interchange}
  LedgerOf <- MCLedgerOf
  SettlementOf <- MCSettlementOf
  Process = {p1, p2}
  Worker = {w1, w2}
  ProcessOf <- MCProcessOf
  Request <- AllRequests
  CachedTable = {"participantLimit"}
  Patient = TRUE
  MaxCrashes = 1
INVARIANTS TypeOK OneActiveLimit ActiveHasPosition
PROPERTIES LimitsTakeEffect
