----------------------------- MODULE MCAdminFunds -----------------------------
(***************************************************************************)
(* An instance of AdminFunds for TLC: one settlement account with 1 in it,  *)
(* from which a participant wants to take 2 and 1, and into which it pays 1.*)
(* What is asked of out1 goes all the way; out2 competes with it.           *)
(***************************************************************************)
EXTENDS AdminFunds

TheAccount == [t \in Transfer |-> "dfsp1"]
Amounts    == [t \in Transfer |-> IF t = "out1" THEN 2 ELSE 1]
Balances   == [p \in Place |-> IF p = Hub THEN 1 ELSE -1]
Asked(actions, t) == {[action |-> a, transfer |-> t, copy |-> 1] : a \in actions}
Once == Asked({"recordFundsIn"}, "in1")
        \union Asked(Action \ {"recordFundsIn"}, "out1")
        \union Asked({"recordFundsOutPrepareReserve"}, "out2")
===============================================================================
