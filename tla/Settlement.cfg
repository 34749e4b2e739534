SPECIFICATION FairSpec
CONSTANTS
  Transfer = {"t1"}
  Conversion = {"c1"}
  Account <- AllAccounts
  DebitAccount <- DebitsOf
  CreditAccount <- CreditsOf
  Amount <- Amounts
  NetDebitCap <- Roomy
  LiquidityCover <- Roomy
  Consumer = {"h1", "h2"}
  ConsumerOf <- TwoHandlers
  MaxBatch = 2
  MaxCrashes = 1
  Determining <- TheTransfer
  Expirable = {"t1", "c1"}
INVARIANTS TypeOK ToldIsDone StoredIsDone MovedOnce SettledTogether
PROPERTY EveryPaymentEnds
CHECK_DEADLOCK FALSE
