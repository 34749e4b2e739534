SPECIFICATION FairSpec
CONSTANTS
  Transfer = {"t1", "t2"}
  Conversion = {"c1"}
  Account <- AllAccounts
  DebitAccount <- NoDebitOfT1
  CreditAccount <- NoCreditOfT1
  Amount <- Amounts
  NetDebitCap <- Roomy
  LiquidityCover <- Roomy
  Consumer = {"h1", "h2"}
  ConsumerOf <- TwoHandlers
  MaxBatch = 2
  MaxCrashes = 0
  Determining <- TheTransfer
  Expirable = {}
INVARIANTS StatementsAddUp
CHECK_DEADLOCK FALSE
PROPERTY AnswersTakeEffect
