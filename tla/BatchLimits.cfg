SPECIFICATION Spec
CONSTANTS
  Transfer = {"t2", "t3"}
  Conversion = {}
  Account <- AllAccounts
  DebitAccount <- DebitsOf
  CreditAccount <- CreditsOf
  Amount <- Amounts
  NetDebitCap <- OneOnly
  LiquidityCover <- Roomy
  Consumer = {"h1", "h2"}
  ConsumerOf <- TwoHandlers
  MaxBatch = 2
  MaxCrashes = 0
  Determining <- TheTransfer
  Expirable = {}
INVARIANT PositionsWithinLimits
CHECK_DEADLOCK FALSE
