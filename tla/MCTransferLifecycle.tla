------------------------- MODULE MCTransferLifecycle -------------------------
(* Instances of TransferLifecycle for TLC: two participants, and one or two *)
(* transfers between them.                                                  *)
EXTENDS TransferLifecycle

CONSTANTS t1, t2, dfsp1, dfsp2

\* Both transfers leave dfsp1, whose limits allow one of them at a time.
MCPayer  == [t \in Transfer |-> dfsp1]
MCPayee  == [t \in Transfer |-> dfsp2]
MCAmount == [t \in Transfer |-> IF t = t1 THEN 2 ELSE 1]
MCNetDebitCap    == [a \in Account |-> IF a = dfsp1 THEN 2 ELSE 3]
MCLiquidityCover == [a \in Account |-> IF a = dfsp1 THEN 3 ELSE 2]
=============================================================================
