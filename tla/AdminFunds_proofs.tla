--------------------------- MODULE AdminFunds_proofs ---------------------------
(***************************************************************************)
(* Proofs about AdminFunds, for any transfers, accounts, requests, handlers,*)
(* expirations and crashes.                                                *)
(***************************************************************************)
EXTENDS AdminFunds, Sums

Leg == {"settlement", "hub"}

(***************************************************************************)
(* The inductive invariant: the types without the fulfilments, what each    *)
(* state says about the movements, and what a handler may rely on between   *)
(* its steps.                                                               *)
(***************************************************************************)
Types ==
  /\ topic \subseteq sent /\ sent \subseteq Request
  /\ hash \subseteq Transfer
  /\ expired \subseteq Expirable /\ listed \subseteq Transfer
  /\ state \in [Transfer -> State]
  /\ position \in [Place -> Int]
  /\ moved \in [Transfer -> [Leg -> Int]]
  /\ handler \in [Handler -> {Idle} \union Busy]
  /\ overtaken \subseteq Place
  /\ crashes \in 0..MaxCrashes

Fulfilled == fulfilment = {t \in Transfer : state[t] \in {"COMMITTED", "ABORTED_REJECTED"}}

Creating(h) == Doing(h, "create") \/ (Doing(h, "write") /\ Prepares(handler[h].request))
Deciding(h) == Doing(h, "write") /\ ~Prepares(handler[h].request)
TransferOf(h) == handler[h].request.transfer

(* A handler that creates a transfer has stored its hash and is alone with  *)
(* it; one that decides finds it still reserved, and is alone with it too.  *)
InHand(h) ==
  /\ Creating(h) => /\ Prepares(handler[h].request)
                    /\ TransferOf(h) \in hash
                    /\ state[TransferOf(h)] = "none"
  /\ Doing(h, "change") => ~Prepares(handler[h].request) /\ state[TransferOf(h)] # "none"
  /\ Deciding(h) => state[TransferOf(h)] \in {"RESERVED", "RESERVED_TIMEOUT"}

Alone ==
  \A g, h \in Handler :
    g # h => /\ ~(Creating(g) /\ Creating(h) /\ TransferOf(g) = TransferOf(h))
             /\ ~(Deciding(g) /\ Deciding(h) /\ TransferOf(g) = TransferOf(h))

StoredIsKnown == \A t \in Transfer : state[t] # "none" => t \in hash

FundsInv ==
  /\ Fulfilled
  /\ MovesMatchState
  /\ StoredIsKnown
  /\ \A h \in Handler : InHand(h)
  /\ Alone

(***************************************************************************)
(* Types.                                                                  *)
(***************************************************************************)
LEMMA RequestType ==
  ASSUME NEW m \in Request
  PROVE  m.transfer \in Transfer /\ m.action \in Action
BY FundsAssumption

LEMMA BecomeType ==
  ASSUME Types, NEW h \in Handler, NEW s \in Step, NEW m \in Request, Become(h, s, m)
  PROVE  handler' \in [Handler -> {Idle} \union Busy]
<1>1. Opening \in [Place -> Int]
  BY FundsAssumption DEF Place
<1>2. [step |-> s, request |-> m, seen |-> IF s = "write" THEN position ELSE Opening] \in Busy
  BY <1>1 DEF Types, Busy
<1> QED
  BY <1>2 DEF Types, Become

LEMMA EndType ==
  ASSUME Types, NEW h \in Handler, handler' = [handler EXCEPT ![h] = Idle]
  PROVE  handler' \in [Handler -> {Idle} \union Busy]
BY DEF Types

LEMMA BusyType ==
  ASSUME Types, NEW h \in Handler, ~Doing(h, "idle")
  PROVE  /\ handler[h] \in Busy
         /\ handler[h].request \in Request /\ handler[h].seen \in [Place -> Int]
         /\ TransferOf(h) \in Transfer
<1>1. handler[h] \in Busy
  BY DEF Types, Doing, Idle
<1> QED
  BY <1>1, RequestType DEF Busy, TransferOf

LEMMA EffectType ==
  ASSUME NEW m \in Request, NEW seen \in [Place -> Int]
  PROVE  Effect(m, seen).state \in State /\ Effect(m, seen).change \in [Leg -> Int]
<1>1. m.action \in Action /\ Amount[m.transfer] \in Int
  BY RequestType, FundsAssumption
<1>2. m.action = "recordFundsOutPrepareReserve" =>
        \/ Covered(m.transfer, seen[AccountOf[m.transfer]])
        \/ ~Covered(m.transfer, seen[AccountOf[m.transfer]])
  OBVIOUS
<1> QED
  BY <1>1, <1>2 DEF Effect, Action, State, Leg, Reversal

LEMMA TypesInit == Init => Types
BY FundsAssumption DEF Init, Types, State, Place, Leg, Idle

LEMMA TypesUpdate ==
  ASSUME Types, NEW h \in Handler, TransferStateAndPositionUpdate(h)
  PROVE  Types'
<1> DEFINE m == handler[h].request
           t == m.transfer
           e == Effect(m, handler[h].seen)
           change(p) == IF p = Hub THEN e.change.hub ELSE e.change.settlement
<1>1. m \in Request /\ t \in Transfer /\ handler[h].seen \in [Place -> Int]
  BY BusyType DEF TransferStateAndPositionUpdate, Doing, TransferOf
<1>2. e.state \in State /\ e.change \in [Leg -> Int]
  BY <1>1, EffectType
<1>3. state' \in [Transfer -> State]
  BY <1>1, <1>2 DEF TransferStateAndPositionUpdate, Types
<1>4. moved' \in [Transfer -> [Leg -> Int]]
  <2>1. moved' = [moved EXCEPT ![t] = [k \in DOMAIN moved[t] |-> moved[t][k] + e.change[k]]]
    BY DEF TransferStateAndPositionUpdate
  <2>2. [k \in DOMAIN moved[t] |-> moved[t][k] + e.change[k]] \in [Leg -> Int]
    BY <1>1, <1>2 DEF Types
  <2> QED
    BY <1>1, <2>1, <2>2 DEF Types
<1>5. position' \in [Place -> Int]
  <2>1. \A p \in Place : change(p) \in Int
    BY <1>2 DEF Leg
  <2>2. position' = [p \in Place |->
          IF p \in Written(m) THEN handler[h].seen[p] + change(p) ELSE position[p]]
    BY DEF TransferStateAndPositionUpdate
  <2> QED
    BY <1>1, <2>1, <2>2 DEF Types
<1>6. overtaken' \subseteq Place
  <2>1. Written(m) \subseteq Place
    BY <1>1, FundsAssumption DEF Written, Place
  <2> QED
    BY <2>1 DEF TransferStateAndPositionUpdate, Types
<1>7. handler' \in [Handler -> {Idle} \union Busy]
  BY <1>1, BecomeType DEF TransferStateAndPositionUpdate, Step
<1> QED
  BY <1>3, <1>4, <1>5, <1>6, <1>7 DEF TransferStateAndPositionUpdate, Types

LEMMA TypesNext == Types /\ [Next]_vars => Types'
<1> SUFFICES ASSUME Types, [Next]_vars PROVE Types'
  OBVIOUS
<1>1. CASE UNCHANGED vars
  BY <1>1 DEF Types, vars, tables
<1>2. ASSUME NEW m \in Request, RecordFundsInOut(m) PROVE Types'
  BY <1>2 DEF RecordFundsInOut, Types, tables
<1>3. ASSUME NEW h \in Handler, HandlerStep(h) \/ Crash(h) PROVE Types'
  <2>1. CASE Prepare(h)
    <3>1. PICK m \in topic : /\ hash' = hash \union {m.transfer}
                             /\ Become(h, IF HasDuplicateId(m.transfer) THEN "offset" ELSE "create", m)
      BY <2>1 DEF Prepare
    <3>2. m \in Request /\ m.transfer \in Transfer
      BY RequestType DEF Types
    <3>3. handler' \in [Handler -> {Idle} \union Busy]
      BY <3>1, <3>2, BecomeType DEF Step
    <3> QED
      BY <2>1, <3>1, <3>2, <3>3 DEF Prepare, Types
  <2>2. CASE ChangeStatus(h)
    <3>1. PICK m \in topic : Become(h, IF Answerable(m.transfer) THEN "change" ELSE "offset", m)
      BY <2>2 DEF ChangeStatus
    <3>2. handler' \in [Handler -> {Idle} \union Busy]
      BY <3>1, BecomeType DEF Step, Types
    <3> QED
      BY <2>2, <3>2 DEF ChangeStatus, Types, tables
  <2>3. CASE InsertFulfilment(h)
    <3>1. handler[h].request \in Request
      BY <2>3, BusyType DEF InsertFulfilment, Doing
    <3>2. handler' \in [Handler -> {Idle} \union Busy]
      BY <2>3, <3>1, BecomeType, EndType DEF InsertFulfilment, Step
    <3> QED
      BY <2>3, <3>2 DEF InsertFulfilment, Types, tables
  <2>4. CASE ReconciliationTransferPrepare(h)
    <3>1. handler[h].request \in Request
      BY <2>4, BusyType DEF ReconciliationTransferPrepare, Doing
    <3>2. handler' \in [Handler -> {Idle} \union Busy]
      BY <2>4, <3>1, BecomeType DEF ReconciliationTransferPrepare, Step
    <3> QED
      BY <2>4, <3>2 DEF ReconciliationTransferPrepare, Types, tables
  <2>5. CASE TransferStateAndPositionUpdate(h)
    BY <2>5, TypesUpdate
  <2>6. CASE CommitOffset(h)
    BY <2>6, EndType DEF CommitOffset, Types, tables
  <2>7. CASE Crash(h)
    BY <2>7, EndType, FundsAssumption DEF Crash, Types, tables
  <2> QED
    BY <1>3, <2>1, <2>2, <2>3, <2>4, <2>5, <2>6, <2>7 DEF HandlerStep
<1>4. ASSUME NEW t \in Transfer, Expire(t) PROVE Types'
  BY <1>4 DEF Expire, Types, tables
<1>5. CASE Sweep
  BY <1>5, FundsAssumption DEF Sweep, Due, Types, State
<1> QED
  BY <1>1, <1>2, <1>3, <1>4, <1>5 DEF Next

(***************************************************************************)
(* The invariant.                                                          *)
(***************************************************************************)
LEMMA FundsInit == Init => FundsInv
BY DEF Init, FundsInv, Fulfilled, MovesMatchState, Moves, StoredIsKnown, InHand, Alone,
   Creating, Deciding, Doing, Idle

(* A step that leaves states and movements alone, and takes no handler to   *)
(* where it relies on anything, keeps the invariant.                        *)
LEMMA FundsKept ==
  ASSUME FundsInv, UNCHANGED <<state, fulfilment, moved>>, hash \subseteq hash',
         \A h \in Handler : handler'[h] = handler[h] \/ handler'[h].step \in {"idle", "offset"}
  PROVE  FundsInv'
<1>1. Fulfilled' /\ MovesMatchState' /\ StoredIsKnown'
  BY DEF FundsInv, Fulfilled, MovesMatchState, Moves, StoredIsKnown
<1>2. \A h \in Handler : /\ Creating(h)' => Creating(h) /\ handler'[h] = handler[h]
                         /\ Deciding(h)' => Deciding(h) /\ handler'[h] = handler[h]
                         /\ Doing(h, "change")' => Doing(h, "change") /\ handler'[h] = handler[h]
  BY DEF Creating, Deciding, Doing
<1>3. \A h \in Handler : InHand(h)'
  BY <1>2 DEF FundsInv, InHand, TransferOf
<1>4. Alone'
  BY <1>2 DEF FundsInv, Alone, TransferOf
<1> QED
  BY <1>1, <1>3, <1>4 DEF FundsInv

(* Where a handler goes, and that the others stay.                          *)
LEMMA Becomes ==
  ASSUME Types, NEW h \in Handler, NEW s \in Step, NEW m \in Request, Become(h, s, m)
  PROVE  /\ handler'[h].step = s /\ handler'[h].request = m
         /\ \A g \in Handler \ {h} : handler'[g] = handler[g]
BY DEF Types, Become

LEMMA FundsPrepare ==
  ASSUME Types, FundsInv, NEW h \in Handler, Prepare(h)
  PROVE  FundsInv'
<1>1. PICK m \in topic : /\ Prepares(m) /\ hash' = hash \union {m.transfer}
                         /\ Become(h, IF HasDuplicateId(m.transfer) THEN "offset" ELSE "create", m)
  BY DEF Prepare
<1>2. m \in Request /\ m.transfer \in Transfer
  BY RequestType DEF Types
<1>3. UNCHANGED <<state, fulfilment, moved>>
  BY DEF Prepare
<1>4. CASE m.transfer \in hash
  <2>1. Become(h, "offset", m)
    BY <1>1, <1>4 DEF HasDuplicateId
  <2>2. handler'[h].step = "offset" /\ \A g \in Handler \ {h} : handler'[g] = handler[g]
    BY <1>2, <2>1, Becomes DEF Step
  <2> QED
    BY <1>1, <1>3, <2>2, FundsKept
<1>5. CASE m.transfer \notin hash
  <2>1. Become(h, "create", m)
    BY <1>1, <1>5 DEF HasDuplicateId
  <2>2. handler'[h].step = "create" /\ handler'[h].request = m
    BY <1>2, <2>1, Becomes DEF Step
  <2>3. \A g \in Handler \ {h} : handler'[g] = handler[g]
    BY <1>2, <2>1, Becomes DEF Step
  <2>4. state[m.transfer] = "none"
    BY <1>2, <1>5 DEF FundsInv, StoredIsKnown
  <2>5. InHand(h)'
    BY <1>1, <1>3, <2>2, <2>4 DEF InHand, Creating, Deciding, Doing, TransferOf
  <2>6. \A g \in Handler \ {h} : InHand(g)'
    BY <1>1, <1>3, <2>3 DEF FundsInv, InHand, Creating, Deciding, Doing, TransferOf
  <2>7. Alone'
    <3>1. \A g \in Handler \ {h} : Creating(g)' => TransferOf(g)' # m.transfer
      BY <1>5, <2>3 DEF FundsInv, InHand, Creating, Doing, TransferOf
    <3>2. ~Deciding(h)' /\ TransferOf(h)' = m.transfer
      BY <2>2 DEF Deciding, Doing, TransferOf
    <3>3. \A g \in Handler \ {h} : /\ Creating(g)' <=> Creating(g)
                                   /\ Deciding(g)' <=> Deciding(g)
                                   /\ TransferOf(g)' = TransferOf(g)
      BY <2>3 DEF Creating, Deciding, Doing, TransferOf
    <3> QED
      BY <3>1, <3>2, <3>3 DEF FundsInv, Alone
  <2>8. Fulfilled' /\ MovesMatchState' /\ StoredIsKnown'
    BY <1>1, <1>3 DEF FundsInv, Fulfilled, MovesMatchState, Moves, StoredIsKnown
  <2> QED
    BY <2>5, <2>6, <2>7, <2>8 DEF FundsInv
<1> QED
  BY <1>4, <1>5

(* A handler that goes on with the request it has, in a step that writes no *)
(* table, keeps the invariant if what it goes on to is justified and it     *)
(* meets nobody there.                                                      *)
LEMMA FundsGoOn ==
  ASSUME Types, FundsInv, NEW h \in Handler, NEW s \in Step, NEW m \in Request,
         Become(h, s, m), UNCHANGED <<hash, state, fulfilment, moved>>,
         InHand(h)',
         \A g \in Handler \ {h} :
           /\ Creating(h)' => ~(Creating(g) /\ TransferOf(g) = m.transfer)
           /\ Deciding(h)' => ~(Deciding(g) /\ TransferOf(g) = m.transfer)
  PROVE  FundsInv'
<1>1. handler'[h].request = m /\ \A g \in Handler \ {h} : handler'[g] = handler[g]
  BY Becomes
<1>2. \A g \in Handler \ {h} : /\ Creating(g)' <=> Creating(g)
                               /\ Deciding(g)' <=> Deciding(g)
                               /\ TransferOf(g)' = TransferOf(g)
                               /\ Doing(g, "change")' <=> Doing(g, "change")
                               /\ Prepares(handler[g].request)' <=> Prepares(handler[g].request)
  BY <1>1 DEF Creating, Deciding, Doing, TransferOf
<1>3. \A g \in Handler \ {h} : InHand(g)'
  BY <1>2 DEF FundsInv, InHand
<1>4. Alone'
  BY <1>1, <1>2 DEF FundsInv, Alone, TransferOf
<1>5. Fulfilled' /\ MovesMatchState' /\ StoredIsKnown'
  BY DEF FundsInv, Fulfilled, MovesMatchState, Moves, StoredIsKnown
<1> QED
  BY <1>3, <1>4, <1>5 DEF FundsInv
LEMMA FundsChangeStatus ==
  ASSUME Types, FundsInv, NEW h \in Handler, ChangeStatus(h)
  PROVE  FundsInv'
<1>1. PICK m \in topic : /\ ~Prepares(m)
                         /\ Become(h, IF Answerable(m.transfer) THEN "change" ELSE "offset", m)
  BY DEF ChangeStatus
<1>2. m \in Request
  BY DEF Types
<1>3. UNCHANGED <<hash, state, fulfilment, moved>>
  BY DEF ChangeStatus, tables
<1>4. CASE Answerable(m.transfer)
  <2>1. Become(h, "change", m)
    BY <1>1, <1>4
  <2>2. handler'[h].step = "change" /\ handler'[h].request = m
    BY <1>2, <2>1, Becomes DEF Step
  <2>3. ~Creating(h)' /\ ~Deciding(h)'
    BY <2>2 DEF Creating, Deciding, Doing
  <2>4. state[m.transfer] # "none"
    BY <1>4 DEF Answerable
  <2>5. InHand(h)'
    BY <1>1, <1>3, <2>2, <2>3, <2>4 DEF InHand, TransferOf
  <2> QED
    BY <1>2, <1>3, <2>1, <2>3, <2>5, FundsGoOn DEF Step
<1>5. CASE ~Answerable(m.transfer)
  <2>1. Become(h, "offset", m)
    BY <1>1, <1>5
  <2>2. handler'[h].step = "offset" /\ \A g \in Handler \ {h} : handler'[g] = handler[g]
    BY <1>2, <2>1, Becomes DEF Step
  <2> QED
    BY <1>3, <2>2, FundsKept
<1> QED
  BY <1>4, <1>5

LEMMA FundsInsertFulfilment ==
  ASSUME Types, FundsInv, NEW h \in Handler, InsertFulfilment(h)
  PROVE  FundsInv'
<1> DEFINE m == handler[h].request
<1>1. m \in Request /\ m.transfer \in Transfer
  BY BusyType DEF InsertFulfilment, Doing, TransferOf
<1>2. UNCHANGED <<hash, state, fulfilment, moved>>
  BY DEF InsertFulfilment, tables
<1>3. ~Prepares(m) /\ state[m.transfer] # "none"
  BY DEF InsertFulfilment, FundsInv, InHand, TransferOf
<1>4. CASE KeyIsFree(m.transfer)
  <2>1. Become(h, "write", m)
    BY <1>4 DEF InsertFulfilment
  <2>2. handler'[h].step = "write" /\ handler'[h].request = m
    BY <1>1, <2>1, Becomes DEF Step
  <2>3. ~Creating(h)'
    BY <1>3, <2>2 DEF Creating, Doing
  <2>4. state[m.transfer] \in {"RESERVED", "RESERVED_TIMEOUT"}
    BY <1>1, <1>3, <1>4 DEF KeyIsFree, FundsInv, Fulfilled, Types, State
  <2>5. InHand(h)'
    BY <1>2, <2>2, <2>3, <2>4 DEF InHand, Doing, TransferOf
  <2>6. \A g \in Handler : ~(Deciding(g) /\ TransferOf(g) = m.transfer)
    BY DEF InsertFulfilment, HoldsFulfilment, Deciding, TransferOf
  <2> QED
    BY <1>1, <1>2, <2>1, <2>3, <2>5, <2>6, FundsGoOn DEF Step
<1>5. CASE ~KeyIsFree(m.transfer)
  <2>1. handler' = [handler EXCEPT ![h] = Idle]
    BY <1>5 DEF InsertFulfilment
  <2>2. \A g \in Handler : handler'[g] = handler[g] \/ handler'[g].step = "idle"
    BY <2>1 DEF Types, Idle
  <2> QED
    BY <1>2, <2>2, FundsKept
<1> QED
  BY <1>4, <1>5

LEMMA FundsReconciliationTransferPrepare ==
  ASSUME Types, FundsInv, NEW h \in Handler, ReconciliationTransferPrepare(h)
  PROVE  FundsInv'
<1> DEFINE m == handler[h].request
<1>1. m \in Request /\ m.transfer \in Transfer
  BY BusyType DEF ReconciliationTransferPrepare, Doing, TransferOf
<1>2. UNCHANGED <<hash, state, fulfilment, moved>> /\ Become(h, "write", m)
  BY DEF ReconciliationTransferPrepare, tables
<1>3. handler'[h].step = "write" /\ handler'[h].request = m
  BY <1>1, <1>2, Becomes DEF Step
<1>4. Creating(h) /\ TransferOf(h) = m.transfer
  BY DEF ReconciliationTransferPrepare, Creating, TransferOf
<1>5. Prepares(m) /\ m.transfer \in hash /\ state[m.transfer] = "none"
  BY <1>4 DEF FundsInv, InHand, TransferOf
<1>6. ~Deciding(h)' /\ InHand(h)'
  BY <1>2, <1>3, <1>5 DEF Deciding, InHand, Doing, TransferOf
<1>7. \A g \in Handler \ {h} : ~(Creating(g) /\ TransferOf(g) = m.transfer)
  BY <1>4 DEF FundsInv, Alone
<1> QED
  BY <1>1, <1>2, <1>6, <1>7, FundsGoOn DEF Step

(* What a transaction makes of what its transfer has moved.                 *)
LEMMA EffectOfCreating ==
  ASSUME NEW m \in Request, NEW seen \in [Place -> Int], Prepares(m)
  PROVE  LET t == m.transfer
             e == Effect(m, seen)
         IN \/ e.state = "COMMITTED" /\ t \in FundsIn
               /\ e.change = [settlement |-> -Amount[t], hub |-> Amount[t]]
            \/ e.state = "RESERVED" /\ e.change = [settlement |-> Amount[t], hub |-> 0]
            \/ e.state = "ABORTED_REJECTED" /\ e.change = [settlement |-> 0, hub |-> 0]
<1>1. CASE m.action = "recordFundsIn"
  BY <1>1, FundsAssumption DEF Effect
<1>2. CASE /\ m.action = "recordFundsOutPrepareReserve"
           /\ Covered(m.transfer, seen[AccountOf[m.transfer]])
  BY <1>2 DEF Effect
<1>3. CASE /\ m.action = "recordFundsOutPrepareReserve"
           /\ ~Covered(m.transfer, seen[AccountOf[m.transfer]])
  BY <1>3 DEF Effect
<1> QED
  BY <1>1, <1>2, <1>3 DEF Prepares

LEMMA EffectOfDeciding ==
  ASSUME NEW m \in Request, NEW seen \in [Place -> Int], ~Prepares(m)
  PROVE  LET t == m.transfer
             e == Effect(m, seen)
         IN \/ e.state = "COMMITTED" /\ t \notin FundsIn
               /\ e.change = [settlement |-> 0, hub |-> -Amount[t]]
            \/ e.state = "ABORTED_REJECTED" /\ e.change = [settlement |-> -Amount[t], hub |-> 0]
<1>1. m.action \in {"recordFundsOutCommit", "recordFundsOutAbort"}
  BY RequestType DEF Prepares, Action
<1>2. CASE m.action = "recordFundsOutCommit"
  BY <1>2, FundsAssumption DEF Effect
<1>3. CASE m.action = "recordFundsOutAbort"
  BY <1>3 DEF Effect, Reversal
<1> QED
  BY <1>1, <1>2, <1>3

LEMMA FundsUpdate ==
  ASSUME Types, FundsInv, NEW h \in Handler, TransferStateAndPositionUpdate(h)
  PROVE  FundsInv'
<1>0. PICK m \in Request : m = handler[h].request
  BY BusyType DEF TransferStateAndPositionUpdate, Doing
<1> DEFINE t == m.transfer
           e == Effect(m, handler[h].seen)
<1>1. m \in Request /\ t \in Transfer /\ handler[h].seen \in [Place -> Int]
  BY <1>0, BusyType, RequestType DEF TransferStateAndPositionUpdate, Doing
<1>2. Amount[t] \in Int
  BY <1>1, FundsAssumption
<1>3. state'[t] = e.state /\ \A u \in Transfer \ {t} : state'[u] = state[u]
  BY <1>0, <1>1 DEF TransferStateAndPositionUpdate, Types
<1>4. fulfilment' = IF e.state = "RESERVED" THEN fulfilment ELSE fulfilment \union {t}
  BY <1>0 DEF TransferStateAndPositionUpdate
<1>5. /\ moved'[t] = [k \in Leg |-> moved[t][k] + e.change[k]]
      /\ \A u \in Transfer \ {t} : moved'[u] = moved[u]
  <2>1. moved' = [moved EXCEPT ![t] = [k \in DOMAIN moved[t] |-> moved[t][k] + e.change[k]]]
    BY <1>0 DEF TransferStateAndPositionUpdate
  <2> QED
    BY <1>1, <2>1 DEF Types
<1>6. handler'[h].step = "offset" /\ \A g \in Handler \ {h} : handler'[g] = handler[g]
  BY <1>0, <1>1, Becomes DEF TransferStateAndPositionUpdate, Step
<1>7. UNCHANGED hash /\ Doing(h, "write") /\ TransferOf(h) = t
  BY <1>0 DEF TransferStateAndPositionUpdate, TransferOf
<1>8. /\ e.state \in {"COMMITTED", "RESERVED", "ABORTED_REJECTED"}
      /\ e.state = "RESERVED" => t \notin fulfilment
      /\ t \in hash
      /\ moved'[t] = Moves(t)'
  <2>1. CASE Prepares(m)
    <3>1. t \in hash /\ state[t] = "none"
      BY <1>0, <1>7, <2>1 DEF FundsInv, InHand, Creating
    <3>2. moved[t] = [settlement |-> 0, hub |-> 0]
      BY <1>1, <3>1 DEF FundsInv, MovesMatchState, Moves
    <3>3. \/ e.state = "COMMITTED" /\ t \in FundsIn
             /\ e.change = [settlement |-> -Amount[t], hub |-> Amount[t]]
          \/ e.state = "RESERVED" /\ e.change = [settlement |-> Amount[t], hub |-> 0]
          \/ e.state = "ABORTED_REJECTED" /\ e.change = [settlement |-> 0, hub |-> 0]
      BY <1>1, <2>1, EffectOfCreating
    <3>4. moved'[t] = e.change
      BY <1>2, <1>5, <3>2, <3>3 DEF Leg
    <3>5. e.change = Moves(t)'
      BY <1>3, <3>3 DEF Moves
    <3>6. t \notin fulfilment
      BY <3>1 DEF FundsInv, Fulfilled
    <3> QED
      BY <3>1, <3>3, <3>4, <3>5, <3>6
  <2>2. CASE ~Prepares(m)
    <3>1. state[t] \in {"RESERVED", "RESERVED_TIMEOUT"}
      BY <1>0, <1>7, <2>2 DEF FundsInv, InHand, Deciding
    <3>2. moved[t] = [settlement |-> Amount[t], hub |-> 0]
      BY <1>1, <3>1 DEF FundsInv, MovesMatchState, Moves
    <3>3. \/ e.state = "COMMITTED" /\ t \notin FundsIn
             /\ e.change = [settlement |-> 0, hub |-> -Amount[t]]
          \/ e.state = "ABORTED_REJECTED" /\ e.change = [settlement |-> -Amount[t], hub |-> 0]
      BY <1>1, <2>2, EffectOfDeciding
    <3>4. CASE e.state = "COMMITTED"
      <4>1. moved'[t] = [settlement |-> Amount[t], hub |-> -Amount[t]]
        BY <1>2, <1>5, <3>2, <3>3, <3>4 DEF Leg
      <4> QED
        BY <1>1, <1>3, <3>1, <3>3, <3>4, <4>1 DEF Moves, FundsInv, StoredIsKnown
    <3>5. CASE e.state = "ABORTED_REJECTED"
      <4>1. moved'[t] = [settlement |-> 0, hub |-> 0]
        BY <1>2, <1>5, <3>2, <3>3, <3>5 DEF Leg
      <4> QED
        BY <1>1, <1>3, <3>1, <3>5, <4>1 DEF Moves, FundsInv, StoredIsKnown
    <3> QED
      BY <3>3, <3>4, <3>5
  <2> QED
    BY <2>1, <2>2
<1>9. Fulfilled'
  BY <1>1, <1>3, <1>4, <1>8 DEF FundsInv, Fulfilled
<1>10. MovesMatchState'
  <2>1. \A u \in Transfer \ {t} : Moves(u)' = Moves(u)
    BY <1>3 DEF Moves
  <2> QED
    BY <1>5, <1>8, <2>1 DEF FundsInv, MovesMatchState
<1>11. StoredIsKnown'
  BY <1>3, <1>7, <1>8 DEF FundsInv, StoredIsKnown
<1>12. \A g \in Handler \ {h} : /\ Creating(g)' <=> Creating(g)
                                /\ Deciding(g)' <=> Deciding(g)
                                /\ TransferOf(g)' = TransferOf(g)
                                /\ Doing(g, "change")' <=> Doing(g, "change")
                                /\ Prepares(handler[g].request)' <=> Prepares(handler[g].request)
  BY <1>6 DEF Creating, Deciding, Doing, TransferOf
<1>13. \A g \in Handler : InHand(g)'
  <2>1. ASSUME NEW g \in Handler, g # h PROVE InHand(g)'
    <3>1. ~Doing(g, "idle") => TransferOf(g) \in Transfer
      BY BusyType
    <3>2. (Creating(g) \/ Deciding(g)) => TransferOf(g) # t
      BY <1>7, <2>1 DEF FundsInv, Alone, InHand, Creating, Deciding
    <3> QED
      BY <1>3, <1>7, <1>8, <1>12, <2>1, <3>1, <3>2 DEF FundsInv, InHand, Creating, Deciding, Doing
  <2>2. InHand(h)'
    BY <1>6 DEF InHand, Creating, Deciding, Doing
  <2> QED
    BY <2>1, <2>2
<1>14. Alone'
  BY <1>6, <1>12 DEF FundsInv, Alone, Creating, Deciding, Doing
<1> QED
  BY <1>9, <1>10, <1>11, <1>13, <1>14 DEF FundsInv

LEMMA FundsSweep ==
  ASSUME Types, FundsInv, Sweep
  PROVE  FundsInv'
<1>1. UNCHANGED <<hash, fulfilment, moved, handler>>
  BY DEF Sweep
<1>2. \A t \in Transfer : \/ state'[t] = state[t]
                          \/ state[t] = "RESERVED" /\ state'[t] = "RESERVED_TIMEOUT"
  BY DEF Sweep, Due
<1>3. Fulfilled'
  BY <1>1, <1>2 DEF FundsInv, Fulfilled
<1>4. MovesMatchState'
  <2>1. \A t \in Transfer : Moves(t)' = Moves(t)
    BY <1>2 DEF Moves
  <2> QED
    BY <1>1, <2>1 DEF FundsInv, MovesMatchState
<1>5. StoredIsKnown'
  BY <1>1, <1>2 DEF FundsInv, StoredIsKnown
<1>6. ASSUME NEW h \in Handler PROVE InHand(h)'
  <2>1. ~Doing(h, "idle") => TransferOf(h) \in Transfer
    BY BusyType
  <2> QED
    BY <1>1, <1>2, <2>1 DEF FundsInv, InHand, Creating, Deciding, Doing, TransferOf
<1>7. Alone'
  BY <1>1 DEF FundsInv, Alone, Creating, Deciding, Doing, TransferOf
<1> QED
  BY <1>3, <1>4, <1>5, <1>6, <1>7 DEF FundsInv

LEMMA FundsNext == Types /\ FundsInv /\ [Next]_vars => FundsInv'
<1> SUFFICES ASSUME Types, FundsInv, [Next]_vars PROVE FundsInv'
  OBVIOUS
<1>1. CASE UNCHANGED vars
  BY <1>1, FundsKept DEF vars, tables
<1>2. ASSUME NEW m \in Request, RecordFundsInOut(m) PROVE FundsInv'
  BY <1>2, FundsKept DEF RecordFundsInOut, tables
<1>3. ASSUME NEW h \in Handler, CommitOffset(h) \/ Crash(h) PROVE FundsInv'
  <2>1. handler' = [handler EXCEPT ![h] = Idle]
    BY <1>3 DEF CommitOffset, Crash
  <2>2. \A g \in Handler : handler'[g] = handler[g] \/ handler'[g].step = "idle"
    BY <2>1 DEF Types, Idle
  <2>3. UNCHANGED <<hash, state, fulfilment, moved>>
    BY <1>3 DEF CommitOffset, Crash, tables
  <2> QED
    BY <2>2, <2>3, FundsKept
<1>4. ASSUME NEW t \in Transfer, Expire(t) PROVE FundsInv'
  BY <1>4, FundsKept DEF Expire, tables
<1> QED
  BY <1>1, <1>2, <1>3, <1>4, FundsPrepare, FundsChangeStatus, FundsInsertFulfilment,
     FundsReconciliationTransferPrepare, FundsUpdate, FundsSweep DEF Next, HandlerStep

(***************************************************************************)
(* The theorems.                                                           *)
(***************************************************************************)
LEMMA InvariantHolds == Spec => [](Types /\ FundsInv)
<1>1. Init => Types /\ FundsInv
  BY TypesInit, FundsInit
<1>2. Types /\ FundsInv /\ [Next]_vars => (Types /\ FundsInv)'
  BY TypesNext, FundsNext
<1> QED
  BY <1>1, <1>2, PTL DEF Spec

(* The type invariant, with the fulfilments that go with the states         *)
(* (handlers/admin/handler.js, models/transfer/facade.js).                  *)
THEOREM TypeCorrect == Spec => []TypeOK
<1>1. Types /\ FundsInv => TypeOK
  BY DEF Types, FundsInv, Fulfilled, TypeOK, Leg
<1> QED
  BY <1>1, InvariantHolds, PTL

(* Whatever is committed, aborted, swept, read twice or cut off by a death, *)
(* what a transfer has moved is what its state says: both legs of a commit, *)
(* none of an abort (transferStateAndPositionUpdate).                       *)
THEOREM MovesFollowTheState == Spec => []MovesMatchState
<1>1. FundsInv => MovesMatchState
  BY DEF FundsInv
<1> QED
  BY <1>1, InvariantHolds, PTL

(***************************************************************************)
(* What the accounts are worth: inductive with the types alone.  A written  *)
(* account that no other transaction has written since it was read moves by *)
(* what its transfer does, and one that is not written is one its transfer  *)
(* leaves alone.                                                           *)
(***************************************************************************)
SettledIn(a) == {t \in Transfer : AccountOf[t] = a}

LEMMA AddUpInit == Init => AccountsAddUp
<1> SUFFICES ASSUME Init PROVE AccountsAddUp
  OBVIOUS
<1>1. ASSUME NEW k \in Leg, NEW of \in SUBSET Transfer
      PROVE  Sum(k, of) = 0
  <2> DEFINE f == [t \in of |-> moved[t][k]]
             z == [t \in of |-> 0]
  <2>1. IsFiniteSet(of)
    BY FundsAssumption, FS_Subset
  <2>2. \A t \in of : f[t] = 0
    BY DEF Init, Leg
  <2> HIDE DEF f
  <2>3. SumFunctionOnSet(f, of) = 0
    BY <2>1, <2>2, SumOfNothing
  <2> QED
    BY <2>3 DEF Sum, f
<1>2. /\ position[Hub] = Opening[Hub] + Sum("hub", Transfer)
      /\ \A a \in Account : position[a] = Opening[a] + Sum("settlement", SettledIn(a))
  <2>1. \A p \in Place : Opening[p] \in Int /\ position[p] = Opening[p]
    BY FundsAssumption DEF Init, Place
  <2>2. Sum("hub", Transfer) = 0
    BY <1>1 DEF Leg
  <2>3. \A a \in Account : Sum("settlement", SettledIn(a)) = 0
    BY <1>1 DEF Leg, SettledIn
  <2> QED
    BY <2>1, <2>2, <2>3 DEF Place
<1>3. \A a \in Account : position[a] = Opening[a]
  BY DEF Init
<1> QED
  BY <1>2, <1>3 DEF AccountsAddUp, SettledIn

(* A step that writes no position and moves nothing keeps the sums; what was*)
(* overtaken stays so.                                                      *)
LEMMA AddUpKept ==
  ASSUME AccountsAddUp, UNCHANGED <<position, moved>>, overtaken \subseteq overtaken'
  PROVE  AccountsAddUp'
BY DEF AccountsAddUp, Sum

(* What a transaction leaves out of its writes, its transfer leaves alone.  *)
LEMMA EffectIsWritten ==
  ASSUME NEW m \in Request, NEW seen \in [Place -> Int]
  PROVE  LET e == Effect(m, seen) IN
         /\ Hub \notin Written(m) => e.change.hub = 0
         /\ AccountOf[m.transfer] \notin Written(m) => e.change.settlement = 0
         /\ Written(m) \subseteq {AccountOf[m.transfer], Hub}
         /\ AccountOf[m.transfer] \in Written(m) /\ seen[AccountOf[m.transfer]] <= 0 =>
              seen[AccountOf[m.transfer]] + e.change.settlement <= 0
<1> DEFINE a == AccountOf[m.transfer]
<1>1. m.action \in Action /\ Amount[m.transfer] \in Nat /\ a \in Account /\ seen[a] \in Int
  BY RequestType, FundsAssumption DEF Place
<1>2. a # Hub
  BY <1>1, FundsAssumption
<1>3. CASE m.action = "recordFundsIn"
  BY <1>1, <1>3 DEF Effect, Written
<1>4. CASE m.action = "recordFundsOutPrepareReserve" /\ Covered(m.transfer, seen[a])
  BY <1>1, <1>4 DEF Effect, Written, Covered
<1>5. CASE m.action = "recordFundsOutPrepareReserve" /\ ~Covered(m.transfer, seen[a])
  BY <1>1, <1>5 DEF Effect, Written
<1>6. CASE m.action = "recordFundsOutCommit"
  BY <1>1, <1>2, <1>6 DEF Effect, Written
<1>7. CASE m.action = "recordFundsOutAbort"
  BY <1>1, <1>7 DEF Effect, Written, Reversal
<1> QED
  BY <1>1, <1>3, <1>4, <1>5, <1>6, <1>7 DEF Action

LEMMA AddUpUpdate ==
  ASSUME Types, AccountsAddUp, NEW h \in Handler, TransferStateAndPositionUpdate(h)
  PROVE  AccountsAddUp'
<1>0. PICK m \in Request : m = handler[h].request
  BY BusyType DEF TransferStateAndPositionUpdate, Doing
<1>01. PICK seen \in [Place -> Int] : seen = handler[h].seen
  BY BusyType DEF TransferStateAndPositionUpdate, Doing
<1> DEFINE t == m.transfer
           e == Effect(m, seen)
<1>1. t \in Transfer /\ e.change \in [Leg -> Int]
  BY <1>0, RequestType, EffectType
<1>2. PICK c \in [Leg -> Int] : c = e.change
  BY <1>1
<1>3. /\ \A k \in Leg : moved'[t][k] = moved[t][k] + c[k]
      /\ \A u \in Transfer \ {t} : moved'[u] = moved[u]
  <2>1. moved' = [moved EXCEPT ![t] = [k \in DOMAIN moved[t] |-> moved[t][k] + e.change[k]]]
    BY <1>0, <1>01 DEF TransferStateAndPositionUpdate
  <2> QED
    BY <1>1, <1>2, <2>1 DEF Types
<1>4. \A p \in Place : position'[p] =
        IF p \in Written(m) THEN seen[p] + (IF p = Hub THEN c.hub ELSE c.settlement) ELSE position[p]
  BY <1>0, <1>01, <1>2 DEF TransferStateAndPositionUpdate
<1>5. overtaken' = overtaken \union {p \in Written(m) : position[p] # seen[p]}
  BY <1>0, <1>01 DEF TransferStateAndPositionUpdate
<1>6. ASSUME NEW k \in Leg, NEW of \in SUBSET Transfer
      PROVE  /\ Sum(k, of) \in Int
             /\ Sum(k, of)' = IF t \in of THEN Sum(k, of) + c[k] ELSE Sum(k, of)
  <2>1. PICK f : f = [u \in of |-> moved[u][k]]
    OBVIOUS
  <2>2. PICK g : g = [u \in of |-> moved'[u][k]]
    OBVIOUS
  <2>3. Sum(k, of) = SumFunctionOnSet(f, of) /\ Sum(k, of)' = SumFunctionOnSet(g, of)
    BY <2>1, <2>2 DEF Sum
  <2>4. IsFiniteSet(of)
    BY FundsAssumption, FS_Subset
  <2>5. \A u \in of : f[u] \in Int
    BY <2>1 DEF Types
  <2>6. \A u \in of : u # t => f[u] = g[u]
    BY <1>3, <2>1, <2>2
  <2>7. t \in of => g[t] = f[t] + c[k] /\ g[t] \in Int
    BY <1>3, <1>2, <2>1, <2>2, <2>5
  <2>8. \A u \in of : g[u] \in Int
    BY <2>5, <2>6, <2>7
  <2>9. SumFunctionOnSet(f, of) \in Int
    BY <2>4, <2>5, SumType
  <2>10. CASE t \in of
    <3>1. SumFunctionOnSet(g, of) = SumFunctionOnSet(f, of) + g[t] - f[t]
      BY <2>4, <2>5, <2>6, <2>8, <2>10, SumOneChanged
    <3>2. f[t] \in Int /\ c[k] \in Int
      BY <1>2, <2>5, <2>10
    <3> QED
      BY <2>3, <2>7, <2>9, <2>10, <3>1, <3>2
  <2>11. CASE t \notin of
    <3>1. SumFunctionOnSet(g, of) = SumFunctionOnSet(f, of)
      BY <2>4, <2>6, <2>11, SumAlike
    <3> QED
      BY <2>3, <2>9, <2>11, <3>1
  <2> QED
    BY <2>10, <2>11
<1>7. /\ Hub \notin Written(m) => c.hub = 0
      /\ AccountOf[t] \notin Written(m) => c.settlement = 0
      /\ Written(m) \subseteq {AccountOf[t], Hub}
      /\ AccountOf[t] \in Written(m) /\ seen[AccountOf[t]] <= 0 =>
           seen[AccountOf[t]] + c.settlement <= 0
  BY <1>0, <1>2, EffectIsWritten
<1>8. c.hub \in Int /\ c.settlement \in Int
  BY DEF Leg
<1>9. \A p \in Place : position[p] \in Int /\ Opening[p] \in Int
  BY FundsAssumption DEF Types, Place
<1>10. ASSUME Hub \notin overtaken'
       PROVE  position'[Hub] = Opening[Hub] + Sum("hub", Transfer)'
  <2>1. position[Hub] = Opening[Hub] + Sum("hub", Transfer)
    BY <1>5, <1>10 DEF AccountsAddUp
  <2>2. position'[Hub] = position[Hub] + c.hub
    BY <1>4, <1>5, <1>7, <1>8, <1>9, <1>10 DEF Place
  <2>3. Sum("hub", Transfer) \in Int /\ Sum("hub", Transfer)' = Sum("hub", Transfer) + c.hub
    BY <1>1, <1>6 DEF Leg
  <2> QED
    BY <1>8, <1>9, <2>1, <2>2, <2>3 DEF Place
<1>11. ASSUME NEW a \in Account \ overtaken'
       PROVE  /\ position'[a] = Opening[a] + Sum("settlement", SettledIn(a))'
              /\ Opening[a] <= 0 => position'[a] <= 0
  <2>1. /\ position[a] = Opening[a] + Sum("settlement", SettledIn(a))
        /\ Opening[a] <= 0 => position[a] <= 0
    BY <1>5, <1>11 DEF AccountsAddUp, SettledIn
  <2>2. a \in Place /\ a # Hub
    BY FundsAssumption DEF Place
  <2>3. SettledIn(a) \in SUBSET Transfer
    BY DEF SettledIn
  <2>4. /\ Sum("settlement", SettledIn(a)) \in Int
        /\ Sum("settlement", SettledIn(a))' =
             IF t \in SettledIn(a) THEN Sum("settlement", SettledIn(a)) + c.settlement
                                   ELSE Sum("settlement", SettledIn(a))
    <3>1. PICK of \in SUBSET Transfer : of = SettledIn(a)
      BY <2>3
    <3>2. Sum("settlement", SettledIn(a))' = Sum("settlement", of)'
      BY <3>1 DEF Sum, SettledIn
    <3> QED
      BY <1>6, <3>1, <3>2 DEF Leg
  <2>5. CASE a = AccountOf[t]
    <3>1. t \in SettledIn(a)
      BY <1>1, <2>5 DEF SettledIn
    <3>2. position'[a] = position[a] + c.settlement
      BY <1>4, <1>5, <1>7, <1>8, <1>9, <1>11, <2>2, <2>5
    <3>3. position[a] <= 0 => position[a] + c.settlement <= 0
      BY <1>5, <1>7, <1>8, <1>9, <1>11, <2>2, <2>5
    <3> QED
      BY <1>8, <1>9, <2>1, <2>2, <2>4, <3>1, <3>2, <3>3
  <2>6. CASE a # AccountOf[t]
    <3>1. t \notin SettledIn(a)
      BY <2>6 DEF SettledIn
    <3>2. position'[a] = position[a]
      BY <1>4, <1>7, <2>2, <2>6
    <3> QED
      BY <2>1, <2>4, <3>1, <3>2
  <2> QED
    BY <2>5, <2>6
<1> QED
  BY <1>10, <1>11 DEF AccountsAddUp, Sum, SettledIn

LEMMA AddUpNext == Types /\ AccountsAddUp /\ [Next]_vars => AccountsAddUp'
<1> SUFFICES ASSUME Types, AccountsAddUp, [Next]_vars PROVE AccountsAddUp'
  OBVIOUS
<1>1. CASE UNCHANGED vars
  BY <1>1, AddUpKept DEF vars, tables
<1>2. ASSUME NEW m \in Request, RecordFundsInOut(m) PROVE AccountsAddUp'
  BY <1>2, AddUpKept DEF RecordFundsInOut, tables
<1>3. ASSUME NEW h \in Handler, HandlerStep(h) \/ Crash(h), ~TransferStateAndPositionUpdate(h)
      PROVE  AccountsAddUp'
  <2>1. UNCHANGED <<position, moved, overtaken>>
    BY <1>3 DEF HandlerStep, Crash, Prepare, ChangeStatus, InsertFulfilment,
       ReconciliationTransferPrepare, CommitOffset, tables
  <2> QED
    BY <2>1, AddUpKept
<1>4. ASSUME NEW t \in Transfer, Expire(t) PROVE AccountsAddUp'
  BY <1>4, AddUpKept DEF Expire, tables
<1>5. CASE Sweep
  BY <1>5, AddUpKept DEF Sweep
<1> QED
  BY <1>1, <1>2, <1>3, <1>4, <1>5, AddUpUpdate DEF Next

(* An account whose transactions did not overlap is worth what its transfers*)
(* have moved, and nobody has taken out more than they had, whatever the    *)
(* order of what was asked (reconciliationTransferPrepare, ...Commit).      *)
THEOREM FundsAddUp == Spec => []AccountsAddUp
<1>1. Init => AccountsAddUp
  BY AddUpInit
<1>2. Types /\ Types' /\ AccountsAddUp /\ [Next]_vars => AccountsAddUp'
  BY AddUpNext
<1>3. Spec => []Types
  <2>1. Types /\ FundsInv => Types
    OBVIOUS
  <2> QED
    BY <2>1, InvariantHolds, PTL
<1> QED
  BY <1>1, <1>2, <1>3, PTL DEF Spec
================================================================================
