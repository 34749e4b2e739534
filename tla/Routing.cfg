SPECIFICATION FairSpec
CONSTANTS
  Proxy = {"R1", "R2"}
  Deployments <- ManyDeployments
  PayeeValidated = FALSE
  MaxOutOfTurn = 1
INVARIANTS TypeOK EveryCurrencyBalances
PROPERTIES RepliesTurnOutOfTurn AnswersTakeEffect
CHECK_DEADLOCK FALSE
