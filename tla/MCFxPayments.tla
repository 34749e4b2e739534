----------------------------- MODULE MCFxPayments -----------------------------
(***************************************************************************)
(* Instances of FxPayments for TLC.  t1 needs the conversion c1; t2 and t3 *)
(* are in the payer's own currency.  The payer (account 1) reserves for    *)
(* all of them; the FX provider has account 2 in the source and 3 in the      *)
(* target currency; account 4 is the payee's of t1, 5 of t2 and t3.  When  *)
(* one proxy stands for the FX provider and the payee, t1 has no account.  *)
(***************************************************************************)
EXTENDS FxPayments

AllAccounts  == 1..5
Debits       == [t1 |-> 3, c1 |-> 1, t2 |-> 1, t3 |-> 1]
Credits      == [t1 |-> 4, c1 |-> 2, t2 |-> 5, t3 |-> 5]
DebitsOf     == [x \in Id |-> Debits[x]]
CreditsOf    == [x \in Id |-> Credits[x]]
OneProxyOf(f) == [x \in Id |-> IF x = "t1" THEN NoAccount ELSE f[x]]
NoDebitOfT1  == OneProxyOf(Debits)
NoCreditOfT1 == OneProxyOf(Credits)
Amounts      == [x \in Id |-> IF x = "t1" THEN 2 ELSE 1]
Roomy        == [a \in Account |-> 10]
OneOnly      == [a \in Account |-> IF a = 1 THEN 1 ELSE 10]
TheTransfer  == [c \in Conversion |-> "t1"]
TwoHandlers  == [a \in Account \union {NoAccount} |-> IF a \in {1, 2} THEN "h1" ELSE "h2"]
===============================================================================
