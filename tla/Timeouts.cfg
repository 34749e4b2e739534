SPECIFICATION FairSpec
CONSTANTS
  Process = {"p1", "p2"}
  Transfer = {"t1", "t2"}
  Conversion = {}
  MaxAttempts = 1
  Expirable = {"t1"}
  Reached <- Some
  Troubled <- First
  MaxFaults = 1
INVARIANTS TypeOK NothingOverlooked OneTimeoutMessage
PROPERTIES JobGoesOn TimeoutsAreSent
CHECK_DEADLOCK FALSE
