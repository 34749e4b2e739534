---------------------------- MODULE TransferLedger ----------------------------
(***************************************************************************)
(* What the ledger promises of a transfer, leaving out how the handlers    *)
(* get there: the payer's funds are reserved once, if its limits allow it, *)
(* and then either they go to the payee or they go back to the payer.      *)
(* There is nothing after that.                                            *)
(***************************************************************************)
EXTENDS Integers

CONSTANTS Transfer, Account, Payer, Payee, Amount, NetDebitCap, LiquidityCover

VARIABLES
  outcome,    \* where a transfer stands
  balance     \* the position of an account

Outcome == {"open", "reserved", "settled", "released", "refused"}

Init ==
  /\ outcome = [t \in Transfer |-> "open"]
  /\ balance = [a \in Account |-> 0]

Becomes(t, from, to) == outcome[t] = from /\ outcome' = [outcome EXCEPT ![t] = to]

Reserve(t) ==
  /\ Becomes(t, "open", "reserved")
  /\ balance[Payer[t]] + Amount[t] <= LiquidityCover[Payer[t]]
  /\ balance[Payer[t]] + Amount[t] <= NetDebitCap[Payer[t]]
  /\ balance' = [balance EXCEPT ![Payer[t]] = @ + Amount[t]]

Settle(t) ==
  /\ Becomes(t, "reserved", "settled")
  /\ balance' = [balance EXCEPT ![Payee[t]] = @ - Amount[t]]

Release(t) ==
  /\ Becomes(t, "reserved", "released")
  /\ balance' = [balance EXCEPT ![Payer[t]] = @ - Amount[t]]

Refuse(t) ==
  /\ Becomes(t, "open", "refused")
  /\ UNCHANGED balance

Next == \E t \in Transfer : Reserve(t) \/ Settle(t) \/ Release(t) \/ Refuse(t)

Spec == Init /\ [][Next]_<<outcome, balance>>
=============================================================================
