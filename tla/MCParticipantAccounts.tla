------------------------- MODULE MCParticipantAccounts -------------------------
EXTENDS ParticipantAccounts

CONSTANTS dfsp1, deferredNet, interchange, defaultNet, p1, p2, w1, w2

MCLedgerOf     == [m \in Model |-> IF m = interchange THEN "INTERCHANGE_FEE" ELSE Position]
MCSettlementOf == [m \in Model |-> IF m = interchange THEN "INTERCHANGE_FEE_SETTLEMENT" ELSE Settlement]
MCProcessOf    == [w \in Worker |-> p1]

HubRequest(stage)  == {[kind |-> "createHubAccount", type |-> t, stage |-> stage] : t \in HubAccountType}
ModelRequest(m, stage)   == [kind |-> "createSettlementModel", model |-> m, stage |-> stage]
Switch(m, flag, stage)   == [kind |-> "updateSettlementModel", model |-> m, flag |-> flag, stage |-> stage]
Ask(kind, stage)         == [kind |-> kind, participant |-> dfsp1, stage |-> stage]
AskFlag(kind, flag, stage) == [kind |-> kind, participant |-> dfsp1, flag |-> flag, stage |-> stage]
AskLimit(kind, v, stage) == [kind |-> kind, participant |-> dfsp1, value |-> v, stage |-> stage]

Registration ==
  HubRequest(1) \union
  {ModelRequest(deferredNet, 2), ModelRequest(interchange, 3), Ask("create", 3)}

AllRequests == Registration \union
  {Switch(interchange, "inactive", 4),
   AskLimit("addLimitAndInitialPosition", 10, 4), AskLimit("addLimitAndInitialPosition", 20, 4),
   AskFlag("updateAccount", "inactive", 5), AskFlag("update", "inactive", 5),
   AskLimit("adjustLimits", 30, 6), AskLimit("adjustLimits", 40, 6)}
=============================================================================
