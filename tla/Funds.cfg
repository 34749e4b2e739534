SPECIFICATION FairSpec
CONSTANTS
  FundsIn = {"in1"}
  FundsOut = {"out1", "out2"}
  Account = {"dfsp1"}
  Hub = "hub"
  AccountOf <- TheAccount
  Amount <- Amounts
  Opening <- Balances
  Handler = {"h1", "h2"}
  Request <- Once
  Expirable = {"out1"}
  MaxCrashes = 1
INVARIANTS TypeOK MovesMatchState AccountsAddUp
PROPERTIES RequestsTakeEffect
CHECK_DEADLOCK FALSE
