----------------------- MODULE TransferLifecycle_proofs -----------------------
(***************************************************************************)
(* Proofs about TransferLifecycle, for any number of transfers, accounts,  *)
(* requests and crashes.                                                   *)
(***************************************************************************)
EXTENDS TransferLifecycle, TLAPS

(* Where a handler can be with a message.                                   *)
LEMMA StepType ==
  ASSUME NEW pc \in Pc, NEW s \in State
  PROVE  Step(pc, s) \in Job
BY DEF Step, Job

LEMMA AnswerType ==
  ASSUME NEW send \in SUBSET PositionKind, NEW notify \in SUBSET Notice
  PROVE  Answer(send, notify) \in Job
BY DEF Answer, Job, Pc, State

LEMMA IdleType == Idle \in Job
BY DEF Idle, Job, Pc, State

LEMMA GotoType ==
  ASSUME TypeOK, NEW m \in Message, NEW j \in Job, Goto(m, j)
  PROVE  job' \in [Message -> Job]
BY DEF TypeOK, Goto

LEMMA AbandonType ==
  ASSUME TypeOK, NEW m \in Message, Abandon(m)
  PROVE  job' \in [Message -> Job] /\ pending' \subseteq Message /\ crashes' \in Nat
BY IdleType, GotoType DEF TypeOK, Abandon

LEMMA SentType ==
  ASSUME TypeOK, NEW m \in Message
  PROVE  Sent(m) \subseteq Message
<1>1. job[m].send \subseteq PositionKind
  BY DEF TypeOK, Job
<1>2. m.transfer \in Transfer
  BY DEF Message
<1> QED
  BY <1>1, <1>2 DEF Sent, Message, Kind

(***************************************************************************)
(* The type invariant.                                                     *)
(***************************************************************************)
LEMMA TypeInit == Init => TypeOK
BY IdleType DEF Init, StoreInit, TypeOK, State, Hash

LEMMA TypeStore ==
  ASSUME TypeOK, NEW m \in Message,
         LogTransferError(m) \/ Proceed(m) \/ Crash(m) \/ Request(m)
  PROVE  TypeOK'
<1> USE DEF TypeOK, moves
<1>1. m.transfer \in Transfer /\ m.kind \in Kind
  BY DEF Message
<1>2. CASE LogTransferError(m)
  <2>1. CASE m.transfer \in transferError
    BY <1>2, <2>1, AbandonType DEF LogTransferError, ErrorConflict, cron, clients
  <2>2. CASE m.transfer \notin transferError
    <3>1. Answer({}, {"rejected"}) \in Job
      BY AnswerType DEF Notice
    <3>2. job' \in [Message -> Job]
      BY <1>2, <2>2, <3>1, GotoType DEF LogTransferError, ErrorConflict
    <3> QED
      BY <1>1, <1>2, <2>2, <3>2 DEF LogTransferError, ErrorConflict, cron, clients
  <2> QED
    BY <2>1, <2>2
<1>3. CASE Proceed(m)
  <2>1. job[m].notify \subseteq Notice
    BY DEF Job
  <2>2. notified' \in [Transfer -> SUBSET Notice]
    BY <1>1, <1>3, <2>1 DEF Proceed
  <2>3. job' \in [Message -> Job]
    BY <1>3, IdleType, GotoType DEF Proceed
  <2> QED
    BY <1>3, <2>2, <2>3, SentType DEF Proceed, database, cron, clients
<1>4. CASE Crash(m)
  <2>1. job' \in [Message -> Job]
    BY <1>4, IdleType, GotoType DEF Crash
  <2>2. pending' \subseteq Message
    BY <1>4, SentType DEF Crash
  <2> QED
    BY <1>4, <2>1, <2>2 DEF Crash, database, cron, clients
<1>5. CASE Request(m)
  BY <1>1, <1>5 DEF Request, database, cron
<1> QED
  BY <1>2, <1>3, <1>4, <1>5

LEMMA TypePrepare ==
  ASSUME TypeOK, PrepareNext
  PROVE  TypeOK'
<1> USE DEF TypeOK, moves
<1>1. PICK m \in Message :
        CheckPrepare(m) \/ SavePrepared(m) \/ ReadForwarded(m) \/ SaveForwarded(m)
  BY DEF PrepareNext
<1>2. m.transfer \in Transfer
  BY DEF Message
<1>3. CASE CheckPrepare(m)
  <2>1. m.kind \in Hash
    BY <1>3 DEF CheckPrepare, Consume, Prepares, Hash
  <2>2. Step("save", "none") \in Job
    BY StepType DEF Pc, State
  <2>3. Answer({}, PrepareDuplicateNotices(m.transfer, m.kind)) \in Job
    <3>1. PrepareDuplicateNotices(m.transfer, m.kind) \in SUBSET Notice
      BY DEF PrepareDuplicateNotices, Notice
    <3> QED
      BY <3>1, AnswerType
  <2>4. job' \in [Message -> Job]
    BY <1>3, <2>2, <2>3, GotoType DEF CheckPrepare
  <2>5. prepareHash' \in [Transfer -> Hash]
    BY <1>2, <1>3, <2>1 DEF CheckPrepare
  <2> QED
    BY <1>3, <2>4, <2>5 DEF CheckPrepare, cron, clients
<1>4. CASE SavePrepared(m)
  <2>1. /\ Answer({}, {"prepareError"}) \in Job
        /\ Answer({"positionPrepare"}, {}) \in Job
        /\ Step("log", "none") \in Job
    BY StepType, AnswerType DEF Notice, PositionKind, Pc, State
  <2>2. job' \in [Message -> Job]
    BY <1>4, <2>1, GotoType DEF SavePrepared
  <2>3. state' \in [Transfer -> State]
    BY <1>4 DEF SavePrepared, ChangeState, State
  <2> QED
    BY <1>4, <2>2, <2>3 DEF SavePrepared, cron, clients
<1>5. CASE ReadForwarded(m)
  <2>1. Step("write", "RESERVED") \in Job /\ Answer({}, {"forwardError"}) \in Job
    BY StepType, AnswerType DEF Notice, Pc, State
  <2>2. job' \in [Message -> Job]
    BY <1>5, <2>1, GotoType DEF ReadForwarded
  <2> QED
    BY <1>5, <2>2 DEF ReadForwarded, database, cron, clients
<1>6. CASE SaveForwarded(m)
  <2>1. state' \in [Transfer -> State]
    BY <1>6 DEF SaveForwarded, ChangeState, State
  <2> QED
    BY <1>6, <2>1, AbandonType DEF SaveForwarded, cron, clients
<1> QED
  BY <1>1, <1>3, <1>4, <1>5, <1>6

LEMMA TypeFulfil ==
  ASSUME TypeOK, FulfilNext
  PROVE  TypeOK'
<1> USE DEF TypeOK, moves
<1>1. PICK m \in Message : CheckFulfil(m) \/ SaveFulfilment(m) \/ SaveError(m)
  BY DEF FulfilNext
<1>2. m.transfer \in Transfer
  BY DEF Message
<1>3. AbortNotice(m.kind) \subseteq Notice
  BY DEF AbortNotice, Notice
<1>4. CASE CheckFulfil(m)
  <2>1. m.kind \in Hash
    BY <1>4 DEF CheckFulfil, Consume, Hash
  <2>2. fulfilHash' \in [Transfer -> Hash] /\ errorHash' \in [Transfer -> Hash]
    BY <1>2, <1>4, <2>1 DEF CheckFulfil, StoreHash
  <2>3. Step("save", state[m.transfer]) \in Job
    BY <1>2, StepType DEF Pc
  <2>4. Answer({}, FulfilDuplicateNotices(m)) \in Job
    BY AnswerType DEF FulfilDuplicateNotices, Notice
  <2>5. Answer({}, {"fulfilError"} \union AbortNotice(m.kind)) \in Job
    BY <1>3, AnswerType DEF Notice
  <2>6. job' \in [Message -> Job] /\ pending' \subseteq Message /\ crashes' \in Nat
    BY <1>4, <2>3, <2>4, <2>5, GotoType, AbandonType DEF CheckFulfil
  <2> QED
    BY <1>4, <2>2, <2>6 DEF CheckFulfil, cron, clients
<1>5. CASE SaveFulfilment(m)
  <2>1. Answer({"positionCommit"}, {}) \in Job
    BY AnswerType DEF PositionKind
  <2>2. job' \in [Message -> Job] /\ pending' \subseteq Message /\ crashes' \in Nat
    BY <1>5, <2>1, GotoType, AbandonType DEF SaveFulfilment
  <2>3. state' \in [Transfer -> State]
    BY <1>5 DEF SaveFulfilment, ChangeState, State
  <2> QED
    BY <1>2, <1>5, <2>2, <2>3 DEF SaveFulfilment, cron, clients
<1>6. CASE SaveError(m)
  <2>1. Answer({"positionAbort"}, AbortNotice(m.kind)) \in Job
    BY <1>3, AnswerType DEF PositionKind
  <2>2. job' \in [Message -> Job] /\ pending' \subseteq Message /\ crashes' \in Nat
    BY <1>6, <2>1, GotoType, AbandonType DEF SaveError
  <2>3. state' \in [Transfer -> State]
    BY <1>6 DEF SaveError, ChangeState, State
  <2> QED
    BY <1>2, <1>6, <2>2, <2>3 DEF SaveError, cron, clients
<1> QED
  BY <1>1, <1>4, <1>5, <1>6

MovesOK ==
  /\ debited \in [Transfer -> Nat]
  /\ refunded \in [Transfer -> Nat]
  /\ credited \in [Transfer -> Nat]

(* The three ways the position handler moves an account.                    *)
LEMMA MoveType ==
  ASSUME TypeOK, NEW t \in Transfer, Debit(t) \/ Refund(t) \/ Credit(t)
  PROVE  position' \in [Account -> Int] /\ MovesOK'
<1>1. Payer[t] \in Account /\ Payee[t] \in Account /\ Amount[t] \in Nat
  BY TransferAssumption
<1> QED
  BY <1>1 DEF TypeOK, MovesOK, Debit, Refund, Credit, Move, Count

LEMMA TypePosition ==
  ASSUME TypeOK, PositionNext
  PROVE  TypeOK'
<1> USE DEF TypeOK, moves
<1>1. PICK m \in Message :
        \/ ReadState(m) \/ ReservePosition(m) \/ CommitPosition(m)
        \/ AbortPosition(m) \/ TimeoutPosition(m)
  BY DEF PositionNext
<1>2. m.transfer \in Transfer
  BY DEF Message
<1>3. CASE ReadState(m)
  <2>1. Step("write", state[m.transfer]) \in Job
    BY <1>2, StepType DEF Pc
  <2> QED
    BY <1>3, <2>1, GotoType DEF ReadState, database, cron, clients
<1>4. CASE ReservePosition(m)
  <2>1. Answer({}, {"prepared"}) \in Job /\ Step("log", "none") \in Job
    BY AnswerType, StepType DEF Notice, Pc, State
  <2>2. job' \in [Message -> Job]
    BY <1>4, <2>1, GotoType DEF ReservePosition
  <2>3. state' \in [Transfer -> State]
    BY <1>4 DEF ReservePosition, ChangeState, State
  <2>4. position' \in [Account -> Int] /\ MovesOK'
    BY <1>2, <1>4, MoveType DEF MovesOK, ReservePosition
  <2> QED
    BY <1>4, <2>2, <2>3, <2>4 DEF MovesOK, ReservePosition, cron, clients
<1>5. CASE CommitPosition(m)
  <2>1. Answer({}, {"committed"}) \in Job /\ Answer({}, {"fulfilError"}) \in Job
    BY AnswerType DEF Notice
  <2>2. job' \in [Message -> Job]
    BY <1>5, <2>1, GotoType DEF CommitPosition
  <2>3. state' \in [Transfer -> State]
    BY <1>5 DEF CommitPosition, ChangeState, State
  <2>4. position' \in [Account -> Int] /\ MovesOK'
    BY <1>2, <1>5, MoveType DEF MovesOK, CommitPosition
  <2> QED
    BY <1>5, <2>2, <2>3, <2>4 DEF MovesOK, CommitPosition, cron, clients
<1>6. CASE AbortPosition(m)
  <2>1. Answer({}, {"aborted"}) \in Job
    BY AnswerType DEF Notice
  <2>2. job' \in [Message -> Job]
    BY <1>6, <2>1, GotoType DEF AbortPosition
  <2>3. state' \in [Transfer -> State]
    BY <1>6 DEF AbortPosition, ChangeState, State
  <2>4. position' \in [Account -> Int] /\ MovesOK'
    BY <1>2, <1>6, MoveType DEF AbortPosition
  <2> QED
    BY <1>6, <2>2, <2>3, <2>4 DEF MovesOK, AbortPosition, cron, clients
<1>7. CASE TimeoutPosition(m)
  <2>1. Answer({}, {"timedOut"}) \in Job
    BY AnswerType DEF Notice
  <2>2. job' \in [Message -> Job] /\ pending' \subseteq Message /\ crashes' \in Nat
    BY <1>7, <2>1, GotoType, AbandonType DEF TimeoutPosition
  <2>3. state' \in [Transfer -> State]
    BY <1>7 DEF TimeoutPosition, ChangeState, State
  <2>4. position' \in [Account -> Int] /\ MovesOK'
    BY <1>2, <1>7, MoveType DEF MovesOK, TimeoutPosition
  <2> QED
    BY <1>7, <2>2, <2>3, <2>4 DEF MovesOK, TimeoutPosition, cron, clients
<1> QED
  BY <1>1, <1>3, <1>4, <1>5, <1>6, <1>7

LEMMA TypeTimeout ==
  ASSUME TypeOK, TimeoutNext \/ CrashTimeout
  PROVE  TypeOK'
<1> USE DEF TypeOK, moves
<1>1. CASE ExpireDue
  <2>1. Due \subseteq Transfer /\ TimeoutErrors \subseteq Transfer
    BY EnvironmentAssumption DEF Due, TimeoutErrors
  <2>2. state' \in [Transfer -> State]
    BY <1>1 DEF ExpireDue, State
  <2> QED
    BY <1>1, <2>1, <2>2 DEF ExpireDue, clients
<1>2. CASE ListTimedOut
  BY <1>2 DEF ListTimedOut, database, clients
<1>3. ASSUME NEW e \in timeoutList, ProduceTimeout(e)
      PROVE  TypeOK'
  <2>1. e.transfer \in Transfer
    OBVIOUS
  <2>2. pending' \subseteq Message
    BY <1>3, <2>1 DEF ProduceTimeout, Message, Kind, PositionKind
  <2>3. notified' \in [Transfer -> SUBSET Notice]
    BY <1>3, <2>1 DEF ProduceTimeout, TimeoutNotices, Notice
  <2> QED
    BY <1>3, <2>2, <2>3 DEF ProduceTimeout, database, clients
<1>4. CASE CrashTimeout
  BY <1>4 DEF CrashTimeout, database, clients
<1> QED
  BY <1>1, <1>2, <1>3, <1>4 DEF TimeoutNext

LEMMA TypeNext == TypeOK /\ [Next]_vars => TypeOK'
<1> SUFFICES ASSUME TypeOK, [Next]_vars PROVE TypeOK'
  OBVIOUS
<1>1. CASE UNCHANGED vars
  BY <1>1 DEF TypeOK, vars, moves, database, cron, clients
<1>2. ASSUME NEW t \in Transfer, Expire(t) PROVE TypeOK'
  BY <1>2 DEF TypeOK, moves, Expire, database, cron
<1> QED
  BY <1>1, <1>2, TypeStore, TypePrepare, TypeFulfil, TypePosition, TypeTimeout DEF Next

(* Every table, message and handler keeps its shape (all handlers).         *)
THEOREM TypeCorrect == Spec => []TypeOK
BY TypeInit, TypeNext, PTL DEF Spec

(***************************************************************************)
(* A position never exceeds what the participant may owe.  A step moves at *)
(* most one account, and only a reservation moves it up.                   *)
(***************************************************************************)
LEMMA OneAccountMoves ==
  ASSUME TypeOK, [Next]_vars
  PROVE  \/ UNCHANGED position
         \/ \E t \in Transfer : CanReserve(t) /\ Debit(t)
         \/ \E t \in Transfer : Refund(t) \/ Credit(t)
<1>1. CASE UNCHANGED vars
  BY <1>1 DEF vars, database
<1>2. CASE PrepareNext
  BY <1>2 DEF PrepareNext, CheckPrepare, SavePrepared, ReadForwarded, SaveForwarded, database
<1>3. CASE FulfilNext
  BY <1>3 DEF FulfilNext, CheckFulfil, SaveFulfilment, SaveError
<1>4. CASE PositionNext
  <2>1. PICK m \in Message :
          \/ ReadState(m) \/ ReservePosition(m) \/ CommitPosition(m)
          \/ AbortPosition(m) \/ TimeoutPosition(m)
    BY <1>4 DEF PositionNext
  <2>2. m.transfer \in Transfer
    BY DEF Message
  <2> QED
    BY <2>1, <2>2 DEF ReadState, ReservePosition, CommitPosition, AbortPosition,
                      TimeoutPosition, database
<1>5. CASE TimeoutNext \/ CrashTimeout
  BY <1>5 DEF TimeoutNext, ExpireDue, ListTimedOut, ProduceTimeout, CrashTimeout, database
<1>6. ASSUME NEW m \in Message, LogTransferError(m) \/ Proceed(m) \/ Crash(m) \/ Request(m)
      PROVE  UNCHANGED position
  BY <1>6 DEF LogTransferError, Proceed, Crash, Request, database
<1>7. ASSUME NEW t \in Transfer, Expire(t) PROVE UNCHANGED position
  BY <1>7 DEF Expire, database
<1> QED
  BY <1>1, <1>2, <1>3, <1>4, <1>5, <1>6, <1>7 DEF Next

LEMMA LimitNext ==
  ASSUME TypeOK, PositionWithinLimit, [Next]_vars
  PROVE  PositionWithinLimit'
<1> USE TransferAssumption, LimitAssumption DEF TypeOK, PositionWithinLimit
<1>1. CASE UNCHANGED position
  BY <1>1
<1>2. ASSUME NEW t \in Transfer, CanReserve(t), Debit(t)
      PROVE  PositionWithinLimit'
  <2>1. /\ position[Payer[t]] + Amount[t] <= LiquidityCover[Payer[t]]
        /\ position[Payer[t]] + Amount[t] <= NetDebitCap[Payer[t]]
    BY <1>2 DEF CanReserve
  <2> QED
    BY <1>2, <2>1 DEF Debit, Move
<1>3. ASSUME NEW t \in Transfer, Refund(t) \/ Credit(t)
      PROVE  PositionWithinLimit'
  BY <1>3 DEF Refund, Credit, Move
<1> QED
  BY <1>1, <1>2, <1>3, OneAccountMoves

(* No interleaving of the handlers that share an account, and no message    *)
(* read twice, takes it past its limits (the reservation of the position    *)
(* handler against every other movement of the account).                    *)
THEOREM LimitsAreKept == Spec => []PositionWithinLimit
<1>1. Init => PositionWithinLimit
  BY LimitAssumption DEF Init, StoreInit, PositionWithinLimit
<1>2. TypeOK /\ PositionWithinLimit /\ [Next]_vars => PositionWithinLimit'
  BY LimitNext
<1> QED
  BY <1>1, <1>2, TypeCorrect, PTL DEF Spec

(***************************************************************************)
(* A payee is credited at most once, and only against a debit.             *)
(*                                                                         *)
(* CreditIsFunded is not inductive: what a handler will do next depends on *)
(* what it read before.  FundInv adds what the states say of the movements *)
(* so far, and what a handler that is about to write still has in hand.    *)
(* The step that credits relies on the last conjunct of InHand, which      *)
(* stands on the primary key of transferFulfilment: the state              *)
(* RECEIVED_FULFIL is entered once, before any credit.                     *)
(***************************************************************************)
StateAndMoves(t) ==
  /\ state[t] \in {"none", "RECEIVED_PREPARE"} => debited[t] = 0
  /\ state[t] \in {"RESERVED", "RESERVED_FORWARDED", "RECEIVED_FULFIL"} => debited[t] = 1
  /\ state[t] = "RECEIVED_FULFIL" => t \in fulfilment /\ credited[t] = 0
  /\ t \notin fulfilment => credited[t] = 0

InHand(m) ==
  LET t == m.transfer IN
  /\ At(m, {"positionPrepare"}, "write") /\ job[m].seen = "RECEIVED_PREPARE" => debited[t] = 0
  /\ At(m, {"forwarded"}, "write") => debited[t] = 1
  /\ At(m, {"commit", "reserve"}, "save") => debited[t] = 1
  /\ At(m, {"positionCommit"}, "write") /\ job[m].seen = "RECEIVED_FULFIL" =>
       debited[t] = 1 /\ credited[t] = 0 /\ t \in fulfilment

FundInv ==
  /\ CreditIsFunded
  /\ \A t \in Transfer : StateAndMoves(t)
  /\ \A m \in Message : InHand(m)

LEMMA FundInit == Init => FundInv
BY DEF Init, StoreInit, FundInv, CreditIsFunded, StateAndMoves, InHand, At, Idle

(* A handler that neither moves money nor changes a state.                  *)
LEMMA FundKept ==
  ASSUME TypeOK, FundInv, UNCHANGED <<state, debited, credited, fulfilment>>,
         \A n \in Message : job'[n] = job[n] \/ job'[n].pc \notin {"write", "save"} \/ InHand(n)'
  PROVE  FundInv'
<1>1. CreditIsFunded' /\ \A t \in Transfer : StateAndMoves(t)'
  BY DEF FundInv, CreditIsFunded, StateAndMoves
<1>2. ASSUME NEW n \in Message PROVE InHand(n)'
  BY <1>2 DEF FundInv, InHand, At
<1> QED
  BY <1>1, <1>2 DEF FundInv

LEMMA GotoOnly ==
  ASSUME TypeOK, NEW m \in Message, NEW j, Goto(m, j)
  PROVE  job'[m] = j /\ \A n \in Message \ {m} : job'[n] = job[n]
BY DEF TypeOK, Goto

LEMMA AbandonOnly ==
  ASSUME TypeOK, NEW m \in Message, Abandon(m)
  PROVE  job'[m].pc = "idle" /\ \A n \in Message \ {m} : job'[n] = job[n]
BY GotoOnly DEF Abandon, Idle

LEMMA FundStore ==
  ASSUME TypeOK, FundInv, NEW m \in Message,
         LogTransferError(m) \/ Proceed(m) \/ Crash(m) \/ Request(m)
  PROVE  FundInv'
<1>1. UNCHANGED <<state, debited, credited, fulfilment>>
  BY DEF LogTransferError, Proceed, Crash, Request, database, moves
<1>2. CASE Request(m)
  BY <1>1, <1>2, FundKept DEF Request
<1>3. CASE LogTransferError(m) \/ Proceed(m) \/ Crash(m)
  <2>1. job'[m].pc \notin {"write", "save"} /\ \A n \in Message \ {m} : job'[n] = job[n]
    BY <1>3, GotoOnly, AbandonOnly DEF LogTransferError, Proceed, Crash, Idle, Answer
  <2> QED
    BY <1>1, <2>1, FundKept
<1> QED
  BY <1>2, <1>3

LEMMA FundPrepare ==
  ASSUME TypeOK, FundInv, PrepareNext
  PROVE  FundInv'
<1>1. PICK m \in Message :
        CheckPrepare(m) \/ SavePrepared(m) \/ ReadForwarded(m) \/ SaveForwarded(m)
  BY DEF PrepareNext
<1>2. m.transfer \in Transfer
  BY DEF Message
<1>3. CASE CheckPrepare(m)
  <2>1. InHand(m)' /\ \A n \in Message \ {m} : job'[n] = job[n]
    BY <1>3, GotoOnly DEF CheckPrepare, Consume, InHand, At, Step, Answer, Prepares, PrepareKind
  <2> QED
    BY <1>3, <2>1, FundKept DEF CheckPrepare, moves
<1>4. CASE SavePrepared(m)
  <2>1. job'[m].pc \notin {"write", "save"} /\ \A n \in Message \ {m} : job'[n] = job[n]
    BY <1>4, GotoOnly DEF SavePrepared, Step, Answer
  <2>2. UNCHANGED <<debited, credited, fulfilment>>
    BY <1>4 DEF SavePrepared, moves
  <2>3. \A n \in Message : InHand(n)'
    BY <2>1, <2>2 DEF FundInv, InHand, At
  <2>4. \A t \in Transfer : StateAndMoves(t)'
    BY <1>2, <1>4, <2>2 DEF SavePrepared, ChangeState, FundInv, StateAndMoves, TypeOK
  <2> QED
    BY <2>2, <2>3, <2>4 DEF FundInv, CreditIsFunded
<1>5. CASE ReadForwarded(m)
  <2>1. UNCHANGED <<state, debited, credited, fulfilment>>
    BY <1>5 DEF ReadForwarded, database, moves
  <2>2. InHand(m)' /\ \A n \in Message \ {m} : job'[n] = job[n]
    BY <1>2, <1>5, <2>1, GotoOnly
    DEF ReadForwarded, Consume, FundInv, StateAndMoves, InHand, At, Step, Answer
  <2> QED
    BY <2>1, <2>2, FundKept
<1>6. CASE SaveForwarded(m)
  <2>1. job'[m].pc = "idle" /\ \A n \in Message \ {m} : job'[n] = job[n]
    BY <1>6, AbandonOnly DEF SaveForwarded
  <2>2. UNCHANGED <<debited, credited, fulfilment>>
    BY <1>6 DEF SaveForwarded, moves
  <2>3. \A n \in Message : InHand(n)'
    BY <2>1, <2>2 DEF FundInv, InHand, At
  <2>4. debited[m.transfer] = 1
    BY <1>6 DEF SaveForwarded, FundInv, InHand
  <2>5. \A t \in Transfer : StateAndMoves(t)'
    BY <1>2, <1>6, <2>2, <2>4 DEF SaveForwarded, ChangeState, FundInv, StateAndMoves, TypeOK
  <2> QED
    BY <2>2, <2>3, <2>5 DEF FundInv, CreditIsFunded
<1> QED
  BY <1>1, <1>3, <1>4, <1>5, <1>6

LEMMA FundFulfil ==
  ASSUME TypeOK, FundInv, FulfilNext
  PROVE  FundInv'
<1>1. PICK m \in Message : CheckFulfil(m) \/ SaveFulfilment(m) \/ SaveError(m)
  BY DEF FulfilNext
<1>2. m.transfer \in Transfer
  BY DEF Message
<1>3. CASE CheckFulfil(m)
  <2>1. UNCHANGED <<state, debited, credited, fulfilment>>
    BY <1>3 DEF CheckFulfil, moves
  <2>2. \A n \in Message \ {m} : job'[n] = job[n]
    BY <1>3, GotoOnly, AbandonOnly DEF CheckFulfil
  <2>3. job'[m].pc \in {"idle", "proceed", "save"}
    BY <1>3, GotoOnly, AbandonOnly DEF CheckFulfil, Step, Answer
  <2>4. job'[m].pc = "save" /\ m.kind \in {"commit", "reserve"} => Answerable(m.transfer)
    BY <1>3, GotoOnly, AbandonOnly DEF CheckFulfil, Step, Answer, Misrouted, BadFulfilment
  <2>5. Answerable(m.transfer) => debited[m.transfer] = 1
    BY <1>2 DEF Answerable, FundInv, StateAndMoves
  <2>6. m.kind \in FulfilKind
    BY <1>3 DEF CheckFulfil, Consume
  <2>7. InHand(m)'
    BY <2>1, <2>3, <2>4, <2>5, <2>6 DEF InHand, At, FulfilKind, ReserveKind
  <2> QED
    BY <2>1, <2>2, <2>7, FundKept
<1>4. CASE SaveFulfilment(m)
  <2>1. job'[m].pc \notin {"write", "save"} /\ \A n \in Message \ {m} : job'[n] = job[n]
    BY <1>4, GotoOnly, AbandonOnly DEF SaveFulfilment, Answer
  <2>2. UNCHANGED <<debited, credited>> /\ fulfilment \subseteq fulfilment'
    BY <1>4 DEF SaveFulfilment, moves
  <2>3. \A n \in Message : InHand(n)'
    BY <2>1, <2>2 DEF FundInv, InHand, At
  <2>4. debited[m.transfer] = 1
    BY <1>4 DEF SaveFulfilment, FundInv, InHand
  <2>5. \A t \in Transfer : StateAndMoves(t)'
    BY <1>2, <1>4, <2>2, <2>4 DEF SaveFulfilment, ChangeState, FundInv, StateAndMoves, TypeOK
  <2> QED
    BY <2>2, <2>3, <2>5 DEF FundInv, CreditIsFunded
<1>5. CASE SaveError(m)
  <2>1. job'[m].pc \notin {"write", "save"} /\ \A n \in Message \ {m} : job'[n] = job[n]
    BY <1>5, GotoOnly, AbandonOnly DEF SaveError, Answer
  <2>2. UNCHANGED <<debited, credited, fulfilment>>
    BY <1>5 DEF SaveError, moves
  <2>3. \A n \in Message : InHand(n)'
    BY <2>1, <2>2 DEF FundInv, InHand, At
  <2>4. \A t \in Transfer : StateAndMoves(t)'
    BY <1>2, <1>5, <2>2 DEF SaveError, ChangeState, FundInv, StateAndMoves, TypeOK
  <2> QED
    BY <2>2, <2>3, <2>4 DEF FundInv, CreditIsFunded
<1> QED
  BY <1>1, <1>3, <1>4, <1>5

(* A transfer has one message of each kind.                                 *)
LEMMA MessageIdentity ==
  ASSUME NEW m \in Message, NEW n \in Message, m.transfer = n.transfer, m.kind = n.kind
  PROVE  m = n
BY DEF Message

LEMMA FundPosition ==
  ASSUME TypeOK, FundInv, PositionNext
  PROVE  FundInv'
<1>1. PICK m \in Message :
        \/ ReadState(m) \/ ReservePosition(m) \/ CommitPosition(m)
        \/ AbortPosition(m) \/ TimeoutPosition(m)
  BY DEF PositionNext
<1>2. m.transfer \in Transfer
  BY DEF Message
<1>3. CASE ReadState(m)
  <2>1. UNCHANGED <<state, debited, credited, fulfilment>>
    BY <1>3 DEF ReadState, database, moves
  <2>2. job'[m] = Step("write", state[m.transfer]) /\ \A n \in Message \ {m} : job'[n] = job[n]
    BY <1>3, GotoOnly DEF ReadState
  <2>3. m.kind \in PositionKind
    BY <1>3 DEF ReadState, Consume
  <2>4. StateAndMoves(m.transfer)
    BY <1>2 DEF FundInv
  <2>5. InHand(m)'
    BY <2>1, <2>2, <2>3, <2>4 DEF InHand, At, Step, StateAndMoves, PositionKind
  <2> QED
    BY <2>1, <2>2, <2>5, FundKept
<1>4. CASE ReservePosition(m)
  <2> DEFINE t == m.transfer
  <2>1. job'[m].pc \notin {"write", "save"} /\ \A n \in Message \ {m} : job'[n] = job[n]
    BY <1>4, GotoOnly DEF ReservePosition, Step, Answer
  <2>2. UNCHANGED <<credited, fulfilment>>
    BY <1>4 DEF ReservePosition, Debit, moves
  <2>3. CASE job[m].seen = "RECEIVED_PREPARE" /\ CanReserve(t)
    <3>1. debited[t] = 0
      BY <1>4, <2>3 DEF ReservePosition, FundInv, InHand
    <3>2. debited' = [debited EXCEPT ![t] = 1]
      BY <1>2, <1>4, <2>3, <3>1 DEF ReservePosition, Debit, Count, TypeOK
    <3>3. ASSUME NEW n \in Message, n # m PROVE InHand(n)'
      <4>1. n.transfer \in Transfer
        BY DEF Message
      <4>2. n.transfer = t => n.kind # "positionPrepare"
        BY <1>4, <3>3, MessageIdentity DEF ReservePosition, At
      <4> QED
        BY <1>2, <2>1, <2>2, <3>1, <3>2, <3>3, <4>1, <4>2 DEF FundInv, InHand, At, TypeOK
    <3>4. InHand(m)'
      BY <2>1 DEF InHand, At
    <3>5. \A u \in Transfer : StateAndMoves(u)'
      BY <1>2, <1>4, <2>2, <2>3, <3>2 DEF ReservePosition, ChangeState, FundInv,
         CreditIsFunded, StateAndMoves, TypeOK
    <3>6. CreditIsFunded'
      BY <1>2, <2>2, <3>1, <3>2 DEF FundInv, CreditIsFunded, TypeOK
    <3> QED
      BY <3>3, <3>4, <3>5, <3>6 DEF FundInv
  <2>4. CASE ~(job[m].seen = "RECEIVED_PREPARE" /\ CanReserve(t))
    <3>1. UNCHANGED debited
      BY <1>4, <2>4 DEF ReservePosition, moves
    <3>2. \A n \in Message : InHand(n)'
      BY <2>1, <2>2, <3>1 DEF FundInv, InHand, At
    <3>3. \A u \in Transfer : StateAndMoves(u)'
      BY <1>2, <1>4, <2>2, <2>4, <3>1 DEF ReservePosition, ChangeState, FundInv,
         StateAndMoves, TypeOK
    <3> QED
      BY <2>2, <3>1, <3>2, <3>3 DEF FundInv, CreditIsFunded
  <2> QED
    BY <2>3, <2>4
<1>5. CASE CommitPosition(m)
  <2> DEFINE t == m.transfer
  <2>1. job'[m].pc \notin {"write", "save"} /\ \A n \in Message \ {m} : job'[n] = job[n]
    BY <1>5, GotoOnly DEF CommitPosition, Answer
  <2>2. UNCHANGED <<debited, fulfilment>>
    BY <1>5 DEF CommitPosition, Credit, moves
  <2>3. CASE FulfilReceived(m)
    <3>1. debited[t] = 1 /\ credited[t] = 0 /\ t \in fulfilment
      BY <1>5, <2>3 DEF CommitPosition, FulfilReceived, FundInv, InHand
    <3>2. credited' = [credited EXCEPT ![t] = 1]
      BY <1>2, <1>5, <2>3, <3>1 DEF CommitPosition, Credit, Count, TypeOK
    <3>3. ASSUME NEW n \in Message, n # m PROVE InHand(n)'
      <4>1. n.transfer \in Transfer
        BY DEF Message
      <4>2. n.transfer = t => n.kind # "positionCommit"
        BY <1>5, <3>3, MessageIdentity DEF CommitPosition, At
      <4> QED
        BY <1>2, <2>1, <2>2, <3>2, <3>3, <4>1, <4>2 DEF FundInv, InHand, At, TypeOK
    <3>4. InHand(m)'
      BY <2>1 DEF InHand, At
    <3>5. \A u \in Transfer : StateAndMoves(u)'
      BY <1>2, <1>5, <2>2, <2>3, <3>1, <3>2 DEF CommitPosition, ChangeState, FundInv,
         StateAndMoves, TypeOK
    <3>6. CreditIsFunded'
      BY <1>2, <2>2, <3>1, <3>2 DEF FundInv, CreditIsFunded, TypeOK
    <3> QED
      BY <3>3, <3>4, <3>5, <3>6 DEF FundInv
  <2>4. CASE ~FulfilReceived(m)
    <3>1. UNCHANGED <<state, debited, credited, fulfilment>>
      BY <1>5, <2>4 DEF CommitPosition, moves
    <3> QED
      BY <2>1, <3>1, FundKept
  <2> QED
    BY <2>3, <2>4
<1>6. CASE AbortPosition(m) \/ TimeoutPosition(m)
  <2>1. job'[m].pc \notin {"write", "save"} /\ \A n \in Message \ {m} : job'[n] = job[n]
    BY <1>6, GotoOnly, AbandonOnly DEF AbortPosition, TimeoutPosition, Answer
  <2>2. UNCHANGED <<debited, credited, fulfilment>>
    BY <1>6 DEF AbortPosition, TimeoutPosition, Refund, moves
  <2>3. \A n \in Message : InHand(n)'
    BY <2>1, <2>2 DEF FundInv, InHand, At
  <2>4. \A u \in Transfer : StateAndMoves(u)'
    BY <1>2, <1>6, <2>2 DEF AbortPosition, TimeoutPosition, ChangeState, FundInv,
       StateAndMoves, TypeOK
  <2> QED
    BY <2>2, <2>3, <2>4 DEF FundInv, CreditIsFunded
<1> QED
  BY <1>1, <1>3, <1>4, <1>5, <1>6

LEMMA FundTimeout ==
  ASSUME TypeOK, FundInv, TimeoutNext \/ CrashTimeout
  PROVE  FundInv'
<1>1. UNCHANGED <<job, debited, credited, fulfilment>>
  BY DEF TimeoutNext, ExpireDue, ListTimedOut, ProduceTimeout, CrashTimeout, database, moves
<1>2. CASE ExpireDue
  <2>1. \A n \in Message : InHand(n)'
    BY <1>1 DEF FundInv, InHand, At
  <2>2. \A u \in Transfer : StateAndMoves(u)'
    BY <1>1, <1>2 DEF ExpireDue, FundInv, StateAndMoves
  <2> QED
    BY <1>1, <2>1, <2>2 DEF FundInv, CreditIsFunded
<1>3. CASE ~ExpireDue
  <2>1. UNCHANGED state
    BY <1>3 DEF TimeoutNext, ListTimedOut, ProduceTimeout, CrashTimeout, database
  <2> QED
    BY <1>1, <2>1, FundKept
<1> QED
  BY <1>2, <1>3

LEMMA FundNext == TypeOK /\ FundInv /\ [Next]_vars => FundInv'
<1> SUFFICES ASSUME TypeOK, FundInv, [Next]_vars PROVE FundInv'
  OBVIOUS
<1>1. CASE UNCHANGED vars
  BY <1>1, FundKept DEF vars, database, moves
<1>2. ASSUME NEW t \in Transfer, Expire(t) PROVE FundInv'
  BY <1>2, FundKept DEF Expire, database, moves
<1> QED
  BY <1>1, <1>2, FundStore, FundPrepare, FundFulfil, FundPosition, FundTimeout DEF Next

(* Whatever is read twice, lost, raced or expired, a payer is debited at    *)
(* most once, and a payee is credited at most once and never without a      *)
(* debit (fulfil and position handlers).                                    *)
THEOREM CreditsAreFunded == Spec => []CreditIsFunded
<1>1. FundInv => CreditIsFunded
  BY DEF FundInv
<1> QED
  BY <1>1, FundInit, FundNext, TypeCorrect, PTL DEF Spec

-----------------------------------------------------------------------------
(***************************************************************************)
(* What TransferLifecycle promises the participants: what they are told is *)
(* true, the timeout run is never blocked, and funds come back once.       *)
(***************************************************************************)

(***************************************************************************)
(* What a step leaves as it is: rows are never taken back.                 *)
(***************************************************************************)
LEMMA MoneyMoves ==
  ASSUME TypeOK, [Next]_vars
  PROVE  UNCHANGED moves \/ \E t \in Transfer : Debit(t) \/ Refund(t) \/ Credit(t)
<1>1. CASE UNCHANGED vars
  BY <1>1 DEF vars, database
<1>2. CASE PrepareNext
  BY <1>2 DEF PrepareNext, CheckPrepare, SavePrepared, ReadForwarded, SaveForwarded, database
<1>3. CASE FulfilNext
  BY <1>3 DEF FulfilNext, CheckFulfil, SaveFulfilment, SaveError
<1>4. CASE PositionNext
  <2>1. PICK m \in Message :
          \/ ReadState(m) \/ ReservePosition(m) \/ CommitPosition(m)
          \/ AbortPosition(m) \/ TimeoutPosition(m)
    BY <1>4 DEF PositionNext
  <2>2. m.transfer \in Transfer
    BY DEF Message
  <2> QED
    BY <2>1, <2>2 DEF ReadState, ReservePosition, CommitPosition, AbortPosition,
                      TimeoutPosition, database
<1>5. CASE TimeoutNext \/ CrashTimeout
  BY <1>5 DEF TimeoutNext, ExpireDue, ListTimedOut, ProduceTimeout, CrashTimeout, database
<1>6. ASSUME NEW m \in Message, LogTransferError(m) \/ Proceed(m) \/ Crash(m) \/ Request(m)
      PROVE  UNCHANGED moves
  BY <1>6 DEF LogTransferError, Proceed, Crash, Request, database
<1>7. ASSUME NEW t \in Transfer, Expire(t) PROVE UNCHANGED moves
  BY <1>7 DEF Expire, database
<1> QED
  BY <1>1, <1>2, <1>3, <1>4, <1>5, <1>6, <1>7 DEF Next

(* A movement that was made once stays made.                                *)
LEMMA MovesStay ==
  ASSUME TypeOK, FundInv, [Next]_vars, NEW t \in Transfer
  PROVE  /\ debited[t] = 1 => debited'[t] = 1
         /\ credited[t] = 1 => credited'[t] = 1
         /\ refunded[t] >= 1 => refunded'[t] >= 1
<1>1. CreditIsFunded' /\ TypeOK'
  BY FundNext, TypeNext DEF FundInv
<1>2. /\ debited'[t] <= 1 /\ credited'[t] <= 1
      /\ debited'[t] \in Nat /\ credited'[t] \in Nat /\ refunded'[t] \in Nat /\ refunded[t] \in Nat
  BY <1>1 DEF CreditIsFunded, TypeOK
<1>4. ASSUME NEW u \in Transfer, Debit(u) \/ Refund(u) \/ Credit(u)
      PROVE  debited'[t] >= debited[t] /\ credited'[t] >= credited[t] /\ refunded'[t] >= refunded[t]
  BY <1>4 DEF Debit, Refund, Credit, Count, TypeOK
<1>5. debited'[t] >= debited[t] /\ credited'[t] >= credited[t] /\ refunded'[t] >= refunded[t]
  <2>1. CASE UNCHANGED moves
    BY <2>1 DEF TypeOK, moves
  <2> QED
    BY <1>4, <2>1, MoneyMoves
<1> QED
  BY <1>2, <1>5

(* Nor is a row of another table changed: the hashes, the fulfilments and   *)
(* the errors only grow, and a transfer that is stored stays so.            *)
LEMMA RowsStay ==
  ASSUME TypeOK, [Next]_vars, NEW t \in Transfer
  PROVE  /\ prepareHash[t] # "none" => prepareHash'[t] = prepareHash[t]
         /\ fulfilHash[t] # "none" => fulfilHash'[t] = fulfilHash[t]
         /\ state[t] # "none" => state'[t] # "none"
         /\ t \in fulfilment => t \in fulfilment'
         /\ t \in transferError => t \in transferError'
<1> USE DEF TypeOK
<1>1. CASE UNCHANGED vars
  BY <1>1 DEF vars, database
<1>2. ASSUME NEW m \in Message,
             CheckPrepare(m) \/ SavePrepared(m) \/ ReadForwarded(m) \/ SaveForwarded(m)
      PROVE  /\ prepareHash[t] # "none" => prepareHash'[t] = prepareHash[t]
             /\ state[t] # "none" => state'[t] # "none"
             /\ UNCHANGED <<fulfilHash, fulfilment, transferError>>
  BY <1>2 DEF CheckPrepare, SavePrepared, ReadForwarded, SaveForwarded, ChangeState, database
<1>3. ASSUME NEW m \in Message, CheckFulfil(m) \/ SaveFulfilment(m) \/ SaveError(m)
      PROVE  /\ fulfilHash[t] # "none" => fulfilHash'[t] = fulfilHash[t]
             /\ state[t] # "none" => state'[t] # "none"
             /\ UNCHANGED prepareHash
             /\ fulfilment \subseteq fulfilment' /\ transferError \subseteq transferError'
  BY <1>3 DEF CheckFulfil, SaveFulfilment, SaveError, StoreHash, HashOf, ChangeState
<1>4. ASSUME NEW m \in Message,
             \/ ReadState(m) \/ ReservePosition(m) \/ CommitPosition(m)
             \/ AbortPosition(m) \/ TimeoutPosition(m)
      PROVE  /\ state[t] # "none" => state'[t] # "none"
             /\ UNCHANGED <<prepareHash, fulfilHash, fulfilment, transferError>>
  BY <1>4 DEF ReadState, ReservePosition, CommitPosition, AbortPosition, TimeoutPosition,
              ChangeState, database
<1>5. CASE TimeoutNext \/ CrashTimeout
  BY <1>5 DEF TimeoutNext, ExpireDue, ListTimedOut, ProduceTimeout, CrashTimeout, database
<1>6. ASSUME NEW m \in Message, LogTransferError(m) \/ Proceed(m) \/ Crash(m) \/ Request(m)
      PROVE  /\ UNCHANGED <<state, prepareHash, fulfilHash, fulfilment>>
             /\ transferError \subseteq transferError'
  BY <1>6 DEF LogTransferError, Proceed, Crash, Request, database
<1>7. ASSUME NEW u \in Transfer, Expire(u)
      PROVE UNCHANGED <<state, prepareHash, fulfilHash, fulfilment, transferError>>
  BY <1>7 DEF Expire, database
<1> QED
  BY <1>1, <1>2, <1>3, <1>4, <1>5, <1>6, <1>7 DEF Next, PrepareNext, FulfilNext, PositionNext

(***************************************************************************)
(* Where messages and notifications come from.  Each rests on something    *)
(* that has happened to its transfer and cannot be undone.                 *)
(***************************************************************************)
Sound   == {"prepare", "modifiedPrepare"}
Answers == FulfilKind \union {"forwarded", "positionCommit", "positionAbort", "positionTimeout"}

Warranted(t, kind) ==
  /\ kind = "positionPrepare" => prepareHash[t] \in Sound /\ state[t] # "none"
  /\ kind \in Answers => debited[t] = 1
  /\ kind \in {"positionAbort", "positionTimeout"} => t \in transferError

Told(t, notice) ==
  /\ notice = "prepared" => debited[t] = 1
  /\ notice = "committed" => credited[t] = 1
  /\ notice \in {"aborted", "timedOut"} => refunded[t] >= 1

Beginning(t) ==
  /\ prepareHash[t] \notin Sound => state[t] \in {"none", "INVALID"} /\ debited[t] = 0
  /\ state[t] = "EXPIRED_PREPARED" => debited[t] = 0
  /\ state[t] = "RESERVED_TIMEOUT" => t \in transferError

JobWarranted(m) ==
  /\ job[m].pc # "idle" => m \in pending
  /\ \A k \in job[m].send : Warranted(m.transfer, k)
  /\ \A n \in job[m].notify : Told(m.transfer, n)
  /\ m.kind \in Prepares /\ job[m].pc \in {"save", "log"} => prepareHash[m.transfer] = m.kind

ListWarranted(e) ==
  /\ debited[e.transfer] = 1 /\ e.state # "EXPIRED_PREPARED"
  /\ e.state = "RESERVED_TIMEOUT" => e.transfer \in transferError

OriginInv ==
  /\ \A t \in Transfer : Beginning(t)
  /\ \A t \in Transfer : \A n \in notified[t] : Told(t, n)
  /\ \A m \in pending : Warranted(m.transfer, m.kind)
  /\ \A m \in Message : JobWarranted(m)
  /\ \A e \in timeoutList : ListWarranted(e)

LEMMA StillSo ==
  ASSUME TypeOK, FundInv, [Next]_vars, NEW t \in Transfer
  PROVE  /\ \A k : Warranted(t, k) => Warranted(t, k)'
         /\ \A n : Told(t, n) => Told(t, n)'
         /\ UNCHANGED <<state, debited>> => (Beginning(t) => Beginning(t)')
<1>1. prepareHash[t] \in Sound => prepareHash'[t] \in Sound
  BY RowsStay DEF Sound
<1> QED
  BY <1>1, RowsStay, MovesStay DEF Warranted, Told, Beginning

LEMMA OriginInit == Init => OriginInv
BY DEF Init, StoreInit, OriginInv, Beginning, JobWarranted, Idle, Sound

LEMMA JobStillSo ==
  ASSUME TypeOK, FundInv, [Next]_vars, NEW n \in Message, JobWarranted(n),
         job'[n] = job[n], n \in pending => n \in pending'
  PROVE  JobWarranted(n)'
<1>1. n.transfer \in Transfer
  BY DEF Message
<1>2. job'[n].pc # "idle" => n \in pending'
  BY DEF JobWarranted
<1>3. \A k \in job'[n].send : Warranted(n.transfer, k)'
  BY <1>1, StillSo DEF JobWarranted
<1>4. \A k \in job'[n].notify : Told(n.transfer, k)'
  BY <1>1, StillSo DEF JobWarranted
<1>5. n.kind \in Prepares /\ job'[n].pc \in {"save", "log"} => prepareHash'[n.transfer] = n.kind
  BY <1>1, RowsStay DEF JobWarranted, Prepares, PrepareKind
<1> QED
  BY <1>2, <1>3, <1>4, <1>5 DEF JobWarranted

(* A handler's step: it is enough to look at the message in hand, and at    *)
(* what is new.                                                             *)
LEMMA OriginStep ==
  ASSUME TypeOK, FundInv, OriginInv, [Next]_vars, NEW m \in Message,
         \A n \in Message \ {m} : job'[n] = job[n],
         JobWarranted(m)',
         pending \ {m} \subseteq pending',
         \A p \in pending' \ pending : Warranted(p.transfer, p.kind)',
         \A t \in Transfer : Beginning(t)',
         \A t \in Transfer : \A n \in notified'[t] : n \in notified[t] \/ Told(t, n)',
         UNCHANGED timeoutList
  PROVE  OriginInv'
<1>1. TypeOK'
  BY TypeNext
<1>2. \A n \in Message : n.transfer \in Transfer
  BY DEF Message
<1>3. \A p \in pending' : Warranted(p.transfer, p.kind)'
  BY <1>1, <1>2, StillSo DEF OriginInv, TypeOK
<1>4. \A n \in Message : JobWarranted(n)'
  BY JobStillSo DEF OriginInv
<1>5. \A t \in Transfer : \A n \in notified'[t] : Told(t, n)'
  BY StillSo DEF OriginInv
<1>6. \A e \in timeoutList' : ListWarranted(e)'
  <2> SUFFICES ASSUME NEW e \in timeoutList PROVE ListWarranted(e)'
    OBVIOUS
  <2>1. e.transfer \in Transfer /\ ListWarranted(e)
    BY DEF TypeOK, OriginInv
  <2> QED
    BY <2>1, RowsStay, MovesStay DEF ListWarranted
<1> QED
  BY <1>3, <1>4, <1>5, <1>6 DEF OriginInv

LEMMA OriginStore ==
  ASSUME TypeOK, FundInv, OriginInv, [Next]_vars, NEW m \in Message,
         LogTransferError(m) \/ Proceed(m) \/ Crash(m) \/ Request(m)
  PROVE  OriginInv'
<1>1. JobWarranted(m) /\ m.transfer \in Transfer
  BY DEF OriginInv, Message
<1>2. \A t \in Transfer : Beginning(t)'
  <2>1. UNCHANGED <<state, debited>>
    BY DEF LogTransferError, Proceed, Crash, Request, database, moves
  <2> QED
    BY <2>1, StillSo DEF OriginInv
<1>3. UNCHANGED timeoutList
  BY DEF LogTransferError, Proceed, Crash, Request, cron
<1>4. \A k : Warranted(m.transfer, k) => Warranted(m.transfer, k)'
  BY <1>1, StillSo
<1>5. \A p \in Sent(m) : p.transfer = m.transfer /\ p.kind \in job[m].send
  BY DEF Sent
<1>6. job'[m] = Idle => JobWarranted(m)'
  BY DEF JobWarranted, Idle
<1>7. CASE LogTransferError(m)
  <2>1. \A n \in Message \ {m} : job'[n] = job[n]
    BY <1>7, GotoOnly, AbandonOnly DEF LogTransferError
  <2>2. job'[m] \in {Idle, Answer({}, {"rejected"})} /\ (job'[m].pc # "idle" => UNCHANGED pending)
    BY <1>7, GotoOnly DEF LogTransferError, Abandon, Idle
  <2>3. job[m].pc # "idle" /\ m \in pending
    BY <1>1, <1>7 DEF LogTransferError, JobWarranted
  <2>4. pending \ {m} \subseteq pending' /\ pending' \subseteq pending /\ UNCHANGED notified
    BY <1>7 DEF LogTransferError, Abandon
  <2>5. JobWarranted(m)'
    BY <2>2, <2>3 DEF Idle, Answer, Told, JobWarranted
  <2> QED
    BY <1>2, <1>3, <2>1, <2>4, <2>5, OriginStep
<1>8. CASE Proceed(m)
  <2>1. job'[m] = Idle /\ \A n \in Message \ {m} : job'[n] = job[n]
    BY <1>8, GotoOnly DEF Proceed
  <2>2. pending \ {m} \subseteq pending' /\ \A p \in pending' \ pending : p \in Sent(m)
    BY <1>8 DEF Proceed
  <2>3. \A p \in pending' \ pending : Warranted(p.transfer, p.kind)'
    BY <1>1, <1>4, <1>5, <2>2 DEF JobWarranted
  <2>4. \A t \in Transfer : \A n \in notified'[t] : n \in notified[t] \/ Told(t, n)'
    <3>1. \A n \in job[m].notify : Told(m.transfer, n)'
      BY <1>1, StillSo DEF JobWarranted
    <3>2. notified' = [notified EXCEPT ![m.transfer] = @ \union job[m].notify]
      BY <1>8 DEF Proceed
    <3> QED
      BY <3>1, <3>2 DEF TypeOK
  <2> QED
    BY <1>2, <1>3, <1>6, <2>1, <2>2, <2>3, <2>4, OriginStep
<1>9. CASE Crash(m)
  <2>1. job'[m] = Idle /\ \A n \in Message \ {m} : job'[n] = job[n]
    BY <1>9, GotoOnly DEF Crash
  <2>2. pending \ {m} \subseteq pending' /\ \A p \in pending' \ pending : p \in Sent(m)
    BY <1>9 DEF Crash
  <2>3. \A p \in pending' \ pending : Warranted(p.transfer, p.kind)'
    BY <1>1, <1>4, <1>5, <2>2 DEF JobWarranted
  <2> QED
    BY <1>2, <1>3, <1>9, <1>6, <2>1, <2>2, <2>3, OriginStep DEF Crash
<1>10. CASE Request(m)
  <2>1. UNCHANGED <<job, notified>> /\ pending' = pending \union {m}
    BY <1>10 DEF Request
  <2>2. Warranted(m.transfer, m.kind)
    <3>1. m.kind \in PrepareKind \union FulfilKind
      BY <1>10, EnvironmentAssumption DEF Request
    <3>2. m.kind \in FulfilKind \union {"forwarded"} => debited[m.transfer] = 1
      BY <1>1, <1>10 DEF Request, OriginInv, Told
    <3> QED
      BY <3>1, <3>2 DEF Warranted, Answers, PrepareKind, FulfilKind, ReserveKind
  <2>3. JobWarranted(m)'
    BY <1>1, <2>1, JobStillSo
  <2>5. \A p \in pending' \ pending : Warranted(p.transfer, p.kind)'
    BY <1>4, <2>1, <2>2
  <2> QED
    BY <1>2, <1>3, <2>1, <2>3, <2>5, OriginStep
<1> QED
  BY <1>7, <1>8, <1>9, <1>10

LEMMA OriginPrepare ==
  ASSUME TypeOK, FundInv, OriginInv, [Next]_vars, PrepareNext
  PROVE  OriginInv'
<1>1. PICK m \in Message :
        CheckPrepare(m) \/ SavePrepared(m) \/ ReadForwarded(m) \/ SaveForwarded(m)
  BY DEF PrepareNext
<1>2. m.transfer \in Transfer /\ JobWarranted(m)
  BY DEF OriginInv, Message
<1>3. UNCHANGED <<debited, notified, timeoutList>>
  BY <1>1 DEF CheckPrepare, SavePrepared, ReadForwarded, SaveForwarded, database, moves, cron
<1>4. m \in pending /\ pending \ {m} \subseteq pending' /\ pending' \subseteq pending
  BY <1>1, <1>2 DEF CheckPrepare, SavePrepared, ReadForwarded, SaveForwarded, Abandon, Consume,
     At, JobWarranted
<1>5. \A n \in Message \ {m} : job'[n] = job[n]
  BY <1>1, GotoOnly, AbandonOnly DEF CheckPrepare, SavePrepared, ReadForwarded, SaveForwarded
<1>6. JobWarranted(m)' /\ \A t \in Transfer : Beginning(t)'
  <2>1. CASE CheckPrepare(m)
    <3>1. /\ m.kind \in Prepares /\ UNCHANGED <<state, pending>>
          /\ \/ job'[m] = Step("save", "none") /\ prepareHash'[m.transfer] = m.kind
             \/ job'[m] = Answer({}, PrepareDuplicateNotices(m.transfer, m.kind))
      BY <1>2, <2>1, GotoOnly DEF CheckPrepare, Consume, TypeOK
    <3>2. JobWarranted(m)'
      BY <1>4, <3>1 DEF JobWarranted, Step, Answer, PrepareDuplicateNotices, Told
    <3> QED
      BY <1>3, <3>1, <3>2, StillSo DEF OriginInv
  <2>2. CASE SavePrepared(m)
    <3>1. prepareHash[m.transfer] = m.kind /\ m.kind \in Prepares /\ UNCHANGED <<prepareHash, pending>>
      BY <1>2, <2>2 DEF SavePrepared, At, JobWarranted
    <3>2. \/ job'[m] = Answer({}, {"prepareError"}) /\ UNCHANGED state
          \/ /\ state[m.transfer] = "none" /\ m.kind = "invalidPrepare"
             /\ state' = [state EXCEPT ![m.transfer] = "INVALID"]
             /\ job'[m] = Step("log", "none")
          \/ /\ state[m.transfer] = "none" /\ m.kind # "invalidPrepare"
             /\ state' = [state EXCEPT ![m.transfer] = "RECEIVED_PREPARE"]
             /\ job'[m] = Answer({"positionPrepare"}, {})
      BY <2>2, GotoOnly DEF SavePrepared, ChangeState
    <3>3. m.kind # "invalidPrepare" => m.kind \in Sound
      BY <3>1 DEF Prepares, PrepareKind, Sound
    <3>4. JobWarranted(m)'
      BY <1>2, <1>4, <3>1, <3>2, <3>3
      DEF JobWarranted, Step, Answer, Told, Warranted, Answers, FulfilKind, ReserveKind, TypeOK
    <3>5. \A t \in Transfer : Beginning(t) => Beginning(t)'
      BY <1>2, <1>3, <3>1, <3>2, <3>3, RowsStay DEF Beginning, TypeOK, Sound
    <3> QED
      BY <3>4, <3>5 DEF OriginInv
  <2>3. CASE ReadForwarded(m)
    <3>1. /\ m.kind = "forwarded" /\ UNCHANGED <<state, pending>>
          /\ job'[m] \in {Step("write", "RESERVED"), Answer({}, {"forwardError"})}
      BY <2>3, GotoOnly DEF ReadForwarded, Consume, database
    <3>2. JobWarranted(m)'
      BY <1>4, <3>1 DEF JobWarranted, Step, Answer, Prepares, Told
    <3> QED
      BY <1>3, <3>1, <3>2, StillSo DEF OriginInv
  <2>4. CASE SaveForwarded(m)
    <3>1. job'[m] = Idle /\ UNCHANGED prepareHash /\ transferError \subseteq transferError'
      BY <2>4, GotoOnly DEF SaveForwarded, Abandon
    <3>2. debited[m.transfer] = 1
      BY <2>4 DEF SaveForwarded, FundInv, InHand
    <3>3. state' = [state EXCEPT ![m.transfer] = "RESERVED_FORWARDED"]
      BY <2>4 DEF SaveForwarded, ChangeState
    <3>4. \A t \in Transfer : Beginning(t) => Beginning(t)'
      BY <1>2, <1>3, <3>1, <3>2, <3>3 DEF Beginning, TypeOK
    <3>5. JobWarranted(m)'
      BY <3>1 DEF JobWarranted, Idle
    <3> QED
      BY <3>4, <3>5 DEF OriginInv
  <2> QED
    BY <1>1, <2>1, <2>2, <2>3, <2>4
<1> QED
  BY <1>3, <1>4, <1>5, <1>6, OriginStep

LEMMA OriginFulfil ==
  ASSUME TypeOK, FundInv, OriginInv, [Next]_vars, FulfilNext
  PROVE  OriginInv'
<1>1. PICK m \in Message : CheckFulfil(m) \/ SaveFulfilment(m) \/ SaveError(m)
  BY DEF FulfilNext
<1>2. m.transfer \in Transfer /\ JobWarranted(m)
  BY DEF OriginInv, Message
<1>3. UNCHANGED <<debited, prepareHash, notified, timeoutList>>
  BY <1>1 DEF CheckFulfil, SaveFulfilment, SaveError, moves, cron
<1>4. m \in pending /\ pending \ {m} \subseteq pending' /\ pending' \subseteq pending
  BY <1>1, <1>2 DEF CheckFulfil, SaveFulfilment, SaveError, Abandon, Consume, At, JobWarranted
<1>5. \A n \in Message \ {m} : job'[n] = job[n]
  BY <1>1, GotoOnly, AbandonOnly DEF CheckFulfil, SaveFulfilment, SaveError
<1>6. m.kind \in FulfilKind /\ m.kind \notin Prepares
  BY <1>1 DEF CheckFulfil, SaveFulfilment, SaveError, Consume, At, FulfilKind, ReserveKind,
     Prepares, PrepareKind
<1>7. debited[m.transfer] = 1 /\ prepareHash[m.transfer] \in Sound
  BY <1>2, <1>4, <1>6 DEF OriginInv, Warranted, Answers, Beginning
<1>8. \A n \in {"fulfilError", "duplicate", "reservedAborted"} : Told(m.transfer, n)'
  BY DEF Told
<1>9. JobWarranted(m)' /\ \A t \in Transfer : Beginning(t)'
  <2>1. CASE CheckFulfil(m)
    <3>1. /\ UNCHANGED state
          /\ job'[m].send = {} /\ job'[m].notify \subseteq {"fulfilError", "duplicate", "reservedAborted"}
          /\ job'[m].pc # "idle" => UNCHANGED pending
      BY <2>1, GotoOnly
      DEF CheckFulfil, Abandon, Idle, Step, Answer, FulfilDuplicateNotices, AbortNotice
    <3>2. JobWarranted(m)'
      BY <1>4, <1>6, <1>8, <3>1 DEF JobWarranted
    <3> QED
      BY <1>3, <3>1, <3>2, StillSo DEF OriginInv
  <2>2. CASE SaveFulfilment(m)
    <3>1. \/ job'[m] = Idle /\ UNCHANGED state
          \/ /\ job'[m] = Answer({"positionCommit"}, {}) /\ UNCHANGED pending
             /\ state' = [state EXCEPT ![m.transfer] = "RECEIVED_FULFIL"]
      BY <2>2, GotoOnly DEF SaveFulfilment, ChangeState, Abandon
    <3>2. JobWarranted(m)'
      BY <1>3, <1>4, <1>6, <1>7, <3>1 DEF JobWarranted, Idle, Answer, Warranted
    <3>3. \A t \in Transfer : Beginning(t) => Beginning(t)'
      BY <1>2, <1>3, <1>7, <3>1, RowsStay DEF Beginning, TypeOK
    <3> QED
      BY <3>2, <3>3 DEF OriginInv
  <2>3. CASE SaveError(m)
    <3>1. \/ job'[m] = Idle /\ UNCHANGED state
          \/ /\ job'[m] = Answer({"positionAbort"}, AbortNotice(m.kind)) /\ UNCHANGED pending
             /\ state' = [state EXCEPT ![m.transfer] = "RECEIVED_ERROR"]
             /\ m.transfer \in transferError'
      BY <2>3, GotoOnly DEF SaveError, ChangeState, Abandon
    <3>2. JobWarranted(m)'
      BY <1>3, <1>4, <1>6, <1>7, <1>8, <3>1 DEF JobWarranted, Idle, Answer, Warranted, AbortNotice
    <3>3. \A t \in Transfer : Beginning(t) => Beginning(t)'
      BY <1>2, <1>3, <1>7, <3>1, RowsStay DEF Beginning, TypeOK
    <3> QED
      BY <3>2, <3>3 DEF OriginInv
  <2> QED
    BY <1>1, <2>1, <2>2, <2>3
<1> QED
  BY <1>3, <1>4, <1>5, <1>9, OriginStep

LEMMA OriginPosition ==
  ASSUME TypeOK, FundInv, OriginInv, [Next]_vars, PositionNext
  PROVE  OriginInv'
<1>1. PICK m \in Message :
        \/ ReadState(m) \/ ReservePosition(m) \/ CommitPosition(m)
        \/ AbortPosition(m) \/ TimeoutPosition(m)
  BY DEF PositionNext
<1> DEFINE t == m.transfer
<1>2. t \in Transfer /\ JobWarranted(m)
  BY DEF OriginInv, Message
<1>3. UNCHANGED <<prepareHash, transferError, notified, timeoutList>>
  BY <1>1 DEF ReadState, ReservePosition, CommitPosition, AbortPosition, TimeoutPosition,
     database, cron
<1>4. m \in pending /\ pending \ {m} \subseteq pending' /\ pending' \subseteq pending
  BY <1>1, <1>2 DEF ReadState, ReservePosition, CommitPosition, AbortPosition, TimeoutPosition,
     Abandon, Consume, At, JobWarranted
<1>5. \A n \in Message \ {m} : job'[n] = job[n]
  BY <1>1, GotoOnly, AbandonOnly
  DEF ReadState, ReservePosition, CommitPosition, AbortPosition, TimeoutPosition
<1>6. m.kind \in PositionKind /\ m.kind \notin Prepares
  BY <1>1 DEF ReadState, ReservePosition, CommitPosition, AbortPosition, TimeoutPosition,
     Consume, At, PositionKind, Prepares, PrepareKind
<1>7. prepareHash[t] \in Sound
  BY <1>2, <1>4, <1>6 DEF OriginInv, Warranted, Answers, Beginning, PositionKind
<1>8. Warranted(t, m.kind)
  BY <1>4 DEF OriginInv
<1>9. ASSUME \/ UNCHANGED <<state, debited>>
             \/ \E s \in State \ {"EXPIRED_PREPARED", "RESERVED_TIMEOUT"} : ChangeState(t, s),
             \A u \in Transfer \ {t} : debited'[u] = debited[u]
      PROVE  \A u \in Transfer : Beginning(u)'
  BY <1>2, <1>3, <1>7, <1>9 DEF OriginInv, Beginning, ChangeState, TypeOK
<1>10. JobWarranted(m)' /\ \A u \in Transfer : Beginning(u)'
  <2>1. CASE ReadState(m)
    <3>1. UNCHANGED <<state, debited, pending>> /\ job'[m] = Step("write", state[t])
      BY <2>1, GotoOnly DEF ReadState, database, moves
    <3>2. JobWarranted(m)'
      BY <1>4, <1>6, <3>1 DEF JobWarranted, Step
    <3> QED
      BY <1>9, <3>1, <3>2
  <2>2. CASE ReservePosition(m)
    <3>1. /\ m.kind = "positionPrepare" /\ UNCHANGED pending
          /\ \/ /\ job[m].seen = "RECEIVED_PREPARE" /\ Debit(t) /\ ChangeState(t, "RESERVED")
                /\ job'[m] = Answer({}, {"prepared"})
             \/ /\ UNCHANGED debited /\ ChangeState(t, "ABORTED_REJECTED")
                /\ job'[m] = Step("log", "none")
      BY <2>2, GotoOnly DEF ReservePosition, At, moves
    <3>2. Debit(t) => /\ debited'[t] = debited[t] + 1
                      /\ \A u \in Transfer \ {t} : debited'[u] = debited[u]
      BY <1>2 DEF Debit, Count, TypeOK
    <3>3. job[m].seen = "RECEIVED_PREPARE" => debited[t] = 0
      BY <2>2 DEF ReservePosition, FundInv, InHand
    <3>4. JobWarranted(m)'
      BY <1>4, <1>6, <3>1, <3>2, <3>3 DEF JobWarranted, Step, Answer, Told
    <3> QED
      BY <1>9, <3>1, <3>2, <3>4 DEF State
  <2>3. CASE CommitPosition(m)
    <3>1. /\ UNCHANGED <<debited, pending>>
          /\ \/ /\ FulfilReceived(m) /\ Credit(t) /\ ChangeState(t, "COMMITTED")
                /\ job'[m] = Answer({}, {"committed"})
             \/ UNCHANGED state /\ job'[m] = Answer({}, {"fulfilError"})
      BY <2>3, GotoOnly DEF CommitPosition, Credit, moves
    <3>2. Credit(t) => credited'[t] = credited[t] + 1
      BY <1>2 DEF Credit, Count, TypeOK
    <3>3. FulfilReceived(m) => credited[t] = 0
      BY <2>3 DEF CommitPosition, FulfilReceived, FundInv, InHand
    <3>4. JobWarranted(m)'
      BY <1>4, <1>6, <3>1, <3>2, <3>3 DEF JobWarranted, Answer, Told
    <3> QED
      BY <1>9, <3>1, <3>4 DEF State
  <2>4. CASE AbortPosition(m)
    <3>1. /\ UNCHANGED <<debited, pending>> /\ Refund(t) /\ ChangeState(t, "ABORTED_ERROR")
          /\ job'[m] = Answer({}, {"aborted"})
      BY <2>4, GotoOnly DEF AbortPosition, Refund
    <3>2. refunded'[t] >= 1
      BY <1>2, <3>1 DEF Refund, Count, TypeOK
    <3>3. JobWarranted(m)'
      BY <1>4, <1>6, <3>1, <3>2 DEF JobWarranted, Answer, Told
    <3> QED
      BY <1>9, <3>1, <3>3 DEF State
  <2>5. CASE TimeoutPosition(m)
    <3>1. /\ UNCHANGED debited
          /\ \/ /\ Refund(t) /\ ChangeState(t, "EXPIRED_RESERVED") /\ UNCHANGED pending
                /\ job'[m] = Answer({}, {"timedOut"})
             \/ UNCHANGED state /\ job'[m] = Idle
      BY <2>5, GotoOnly DEF TimeoutPosition, Refund, Abandon, moves
    <3>2. Refund(t) => refunded'[t] >= 1
      BY <1>2 DEF Refund, Count, TypeOK
    <3>3. JobWarranted(m)'
      BY <1>4, <1>6, <3>1, <3>2 DEF JobWarranted, Answer, Idle, Told
    <3> QED
      BY <1>9, <3>1, <3>3 DEF State
  <2> QED
    BY <1>1, <2>1, <2>2, <2>3, <2>4, <2>5
<1> QED
  BY <1>3, <1>4, <1>5, <1>10, OriginStep

LEMMA OriginTimeout ==
  ASSUME TypeOK, FundInv, OriginInv, [Next]_vars, TimeoutNext \/ CrashTimeout
  PROVE  OriginInv'
<1>1. UNCHANGED <<job, debited, prepareHash>> /\ transferError \subseteq transferError'
  BY DEF TimeoutNext, ExpireDue, ListTimedOut, ProduceTimeout, CrashTimeout, database, moves
<1>2. \A e \in timeoutList : e.transfer \in Transfer
  BY DEF TypeOK
<1>3. \A e \in timeoutList : ListWarranted(e) => ListWarranted(e)'
  BY <1>1 DEF ListWarranted
<1>4. pending \subseteq pending'
  BY DEF TimeoutNext, ExpireDue, ListTimedOut, ProduceTimeout, CrashTimeout
<1>5. \A n \in Message : JobWarranted(n)'
  BY <1>1, <1>4, JobStillSo DEF OriginInv
<1>6. \A t \in Transfer : \A n : Told(t, n) => Told(t, n)'
  BY StillSo
<1>7. \A p \in pending : Warranted(p.transfer, p.kind)'
  <2>1. \A p \in pending : p.transfer \in Transfer
    BY DEF TypeOK, Message
  <2> QED
    BY <2>1, StillSo DEF OriginInv
<1>8. CASE ExpireDue
  <2>1. UNCHANGED <<pending, notified, timeoutList>>
    BY <1>8 DEF ExpireDue
  <2>2. ASSUME NEW t \in Transfer PROVE Beginning(t)'
    <3>1. CASE t \in Due
      <4>1. state[t] \in {"RECEIVED_PREPARE", "RESERVED"}
        BY <3>1 DEF Due
      <4>2. prepareHash'[t] \in Sound
        BY <1>1, <4>1 DEF OriginInv, Beginning
      <4>3. state[t] = "RECEIVED_PREPARE" => debited'[t] = 0
        BY <1>1 DEF FundInv, StateAndMoves
      <4>4. state[t] = "RESERVED" => t \in transferError'
        BY <1>8, <3>1 DEF ExpireDue, TimeoutErrors
      <4>5. state'[t] = IF state[t] = "RESERVED" THEN "RESERVED_TIMEOUT" ELSE "EXPIRED_PREPARED"
        BY <1>8, <3>1 DEF ExpireDue
      <4> QED
        BY <4>1, <4>2, <4>3, <4>4, <4>5 DEF Beginning
    <3>2. CASE t \notin Due
      BY <1>1, <1>8, <3>2 DEF ExpireDue, OriginInv, Beginning
    <3> QED
      BY <3>1, <3>2
  <2> QED
    BY <1>3, <1>5, <1>6, <1>7, <2>1, <2>2 DEF OriginInv
<1>9. CASE ~ExpireDue
  <2>1. UNCHANGED <<state, transferError>>
    BY <1>9 DEF TimeoutNext, ListTimedOut, ProduceTimeout, CrashTimeout, database
  <2>2. \A t \in Transfer : Beginning(t)'
    BY <1>1, <2>1, StillSo DEF OriginInv
  <2>3. CASE ListTimedOut
    <3>1. UNCHANGED <<pending, notified>>
      BY <2>3 DEF ListTimedOut
    <3>2. ASSUME NEW e \in timeoutList' PROVE ListWarranted(e)'
      <4>1. PICK t \in timedOut : Listed(t) /\ e = [transfer |-> t, state |-> state[t]]
        BY <2>3 DEF ListTimedOut
      <4>2. t \in Transfer
        BY DEF TypeOK
      <4>3. debited[t] = 1
        BY <4>1, <4>2 DEF Listed, FundInv, CreditIsFunded, TypeOK
      <4>4. state[t] # "EXPIRED_PREPARED" /\ (state[t] = "RESERVED_TIMEOUT" => t \in transferError)
        BY <4>2, <4>3 DEF OriginInv, Beginning
      <4> QED
        BY <1>1, <4>1, <4>3, <4>4 DEF ListWarranted
    <3> QED
      BY <1>5, <1>6, <1>7, <2>2, <3>1, <3>2 DEF OriginInv
  <2>4. ASSUME NEW e \in timeoutList, ProduceTimeout(e) PROVE OriginInv'
    <3>1. ListWarranted(e)
      BY DEF OriginInv
    <3>2. UNCHANGED notified
      BY <1>2, <2>4, <3>1 DEF ProduceTimeout, TimeoutNotices, ListWarranted, TypeOK
    <3>3. ASSUME NEW p \in pending' PROVE Warranted(p.transfer, p.kind)'
      <4>1. CASE p \in pending
        BY <1>7, <4>1
      <4>2. CASE p \notin pending
        <5>1. e.state = "RESERVED_TIMEOUT" /\ p = [transfer |-> e.transfer, kind |-> "positionTimeout"]
          BY <2>4, <4>2 DEF ProduceTimeout
        <5> QED
          BY <1>1, <3>1, <5>1 DEF ListWarranted, Warranted
      <4> QED
        BY <4>1, <4>2
    <3>4. timeoutList' \subseteq timeoutList
      BY <2>4 DEF ProduceTimeout
    <3> QED
      BY <1>3, <1>5, <1>6, <2>2, <3>2, <3>3, <3>4 DEF OriginInv
  <2>5. CASE CrashTimeout
    <3>1. UNCHANGED <<pending, notified>> /\ timeoutList' = {}
      BY <2>5 DEF CrashTimeout
    <3> QED
      BY <1>5, <1>6, <1>7, <2>2, <3>1 DEF OriginInv
  <2> QED
    BY <1>9, <2>3, <2>4, <2>5 DEF TimeoutNext
<1> QED
  BY <1>8, <1>9

LEMMA OriginNext == TypeOK /\ FundInv /\ OriginInv /\ [Next]_vars => OriginInv'
<1> SUFFICES ASSUME TypeOK, FundInv, OriginInv, [Next]_vars PROVE OriginInv'
  OBVIOUS
<1>1. ASSUME UNCHANGED vars \/ \E t \in Transfer : Expire(t)
      PROVE OriginInv'
  <2>1. UNCHANGED <<state, debited, pending, job, notified, timeoutList>>
    BY <1>1 DEF vars, Expire, database, moves, cron
  <2>2. \A n \in Message : JobWarranted(n)'
    BY <2>1, JobStillSo DEF OriginInv
  <2>3. \A p \in pending : p.transfer \in Transfer
    BY DEF TypeOK, Message
  <2>4. \A e \in timeoutList : ListWarranted(e)'
    <3>1. \A e \in timeoutList : e.transfer \in Transfer
      BY DEF TypeOK
    <3> QED
      BY <2>1, <3>1, RowsStay DEF OriginInv, ListWarranted
  <2> QED
    BY <2>1, <2>2, <2>3, <2>4, StillSo DEF OriginInv
<1> QED
  BY <1>1, OriginStore, OriginPrepare, OriginFulfil, OriginPosition, OriginTimeout DEF Next

(* What a participant is told has happened to its money: the notification   *)
(* of a reservation, a credit or a return of funds stands on the row of the *)
(* movement, however often the message is read (Kafka.proceed after the     *)
(* position handler's transaction).                                         *)
THEOREM NoticesAreTrue == Spec => []NoticesMatchMoney
<1>1. OriginInv => NoticesMatchMoney
  BY DEF OriginInv, Told, NoticesMatchMoney
<1> QED
  BY <1>1, FundInit, FundNext, OriginInit, OriginNext, TypeCorrect, PTL DEF Spec

(***************************************************************************)
(* The timeout run is never blocked.  A transfer has an error row only     *)
(* once it is past its reservation; what could put it back into RESERVED   *)
(* afterwards is a position handler that read it as received, and while it *)
(* is at work nothing else can write the row: an answer or a timeout needs *)
(* the reservation, and the other rejection is of another payload.         *)
(***************************************************************************)
Early == {"none", "RECEIVED_PREPARE", "RESERVED"}

Reserving(m) == At(m, {"positionPrepare"}, "write") /\ job[m].seen = "RECEIVED_PREPARE"

Records(m) ==
  /\ job[m].pc = "log" =>
       m.kind \in {"invalidPrepare", "positionPrepare"} /\ state[m.transfer] \notin Early
  /\ Reserving(m) => m.transfer \notin transferError

ErrorInv ==
  /\ \A t \in Transfer : state[t] \in Early => t \notin transferError
  /\ \A m \in Message : Records(m)

LEMMA ErrorInit == Init => ErrorInv
BY DEF Init, StoreInit, ErrorInv, Records, Reserving, At, Idle

LEMMA LogOrReserve ==
  ASSUME OriginInv, ErrorInv, NEW m \in Message, NEW n \in Message, m.transfer = n.transfer,
         job[m].pc = "log", At(n, {"positionPrepare"}, "write")
  PROVE  FALSE
<1>1. CASE m.kind = "positionPrepare"
  BY <1>1, MessageIdentity DEF At
<1>2. CASE m.kind = "invalidPrepare"
  <2>1. prepareHash[m.transfer] = "invalidPrepare"
    BY <1>2 DEF OriginInv, JobWarranted, Prepares, PrepareKind
  <2>2. n \in pending /\ n.kind = "positionPrepare"
    BY DEF OriginInv, JobWarranted, At
  <2>3. prepareHash[m.transfer] \in Sound
    BY <2>2 DEF OriginInv, Warranted
  <2> QED
    BY <2>1, <2>3 DEF Sound
<1> QED
  BY <1>1, <1>2 DEF ErrorInv, Records

(* A step that leaves the states and the error rows alone.                  *)
LEMMA ErrorKept ==
  ASSUME TypeOK, ErrorInv, UNCHANGED <<state, transferError>>,
         \A n \in Message : job'[n] = job[n] \/ Records(n)'
  PROVE  ErrorInv'
BY DEF ErrorInv, Records, Reserving, At

(* A step that changes one transfer.                                        *)
LEMMA ErrorStep ==
  ASSUME TypeOK, ErrorInv, NEW m \in Message,
         \A n \in Message \ {m} : job'[n] = job[n],
         Records(m)',
         \A t \in Transfer \ {m.transfer} :
           state'[t] = state[t] /\ (t \in transferError <=> t \in transferError'),
         state'[m.transfer] \in Early => m.transfer \notin transferError',
         \A n \in Message \ {m} : n.transfer = m.transfer =>
           /\ job[n].pc = "log" => state'[m.transfer] \notin Early
           /\ Reserving(n) => m.transfer \notin transferError'
  PROVE  ErrorInv'
<1>1. ASSUME NEW n \in Message \ {m} PROVE Records(n)'
  <2>1. Records(n) /\ n.transfer \in Transfer /\ job'[n] = job[n]
    BY DEF ErrorInv, Message
  <2> QED
    BY <2>1 DEF Records, Reserving, At
<1> QED
  BY <1>1 DEF ErrorInv

LEMMA ErrorNext == TypeOK /\ FundInv /\ OriginInv /\ ErrorInv /\ [Next]_vars => ErrorInv'
<1> SUFFICES ASSUME TypeOK, FundInv, OriginInv, ErrorInv, [Next]_vars PROVE ErrorInv'
  OBVIOUS
<1>1. \A m \in Message : m.transfer \in Transfer
  BY DEF Message
<1>2. ASSUME NEW m \in Message,
             \/ Proceed(m) \/ Crash(m) \/ Request(m)
             \/ CheckPrepare(m) \/ ReadForwarded(m) \/ CheckFulfil(m) \/ ReadState(m)
      PROVE  ErrorInv'
  <2>1. UNCHANGED <<state, transferError>>
    BY <1>2 DEF Proceed, Crash, Request, CheckPrepare, ReadForwarded, CheckFulfil, ReadState, database
  <2>2. Records(m)' \/ job'[m] = job[m]
    <3>1. CASE job'[m].pc \in {"idle", "save", "proceed"}
      BY <3>1 DEF Records, Reserving, At
    <3>2. CASE ReadForwarded(m)
      BY <3>2, GotoOnly DEF ReadForwarded, Consume, Records, Reserving, At, Step, Answer
    <3>3. CASE ReadState(m)
      <4>1. job'[m] = Step("write", state[m.transfer])
        BY <3>3, GotoOnly DEF ReadState
      <4> QED
        BY <1>1, <2>1, <4>1 DEF Records, Reserving, At, Step, ErrorInv, Early
    <3> QED
      BY <1>2, <3>1, <3>2, <3>3, GotoOnly, AbandonOnly
      DEF Proceed, Crash, Request, CheckPrepare, CheckFulfil, Idle, Step, Answer
  <2>3. \A n \in Message \ {m} : job'[n] = job[n]
    BY <1>2, GotoOnly, AbandonOnly
    DEF Proceed, Crash, Request, CheckPrepare, ReadForwarded, CheckFulfil, ReadState
  <2> QED
    BY <2>1, <2>2, <2>3, ErrorKept
<1>3. ASSUME NEW m \in Message, LogTransferError(m) PROVE ErrorInv'
  <2>1. \A n \in Message \ {m} : job'[n] = job[n]
    BY <1>3, GotoOnly, AbandonOnly DEF LogTransferError
  <2>2. Records(m)'
    BY <1>3, GotoOnly, AbandonOnly DEF LogTransferError, Records, Reserving, At, Answer
  <2>3. state[m.transfer] \notin Early /\ UNCHANGED state
    BY <1>3 DEF LogTransferError, ErrorInv, Records
  <2>4. \A n \in Message \ {m} : n.transfer = m.transfer => ~Reserving(n)
    BY <1>3, LogOrReserve DEF LogTransferError, Reserving
  <2>5. \A t \in Transfer \ {m.transfer} : t \in transferError <=> t \in transferError'
    BY <1>3 DEF LogTransferError
  <2> QED
    BY <2>1, <2>2, <2>3, <2>4, <2>5, ErrorStep
<1>4. ASSUME NEW m \in Message, SavePrepared(m) PROVE ErrorInv'
  <2>1. /\ \A n \in Message \ {m} : job'[n] = job[n]
        /\ UNCHANGED transferError /\ m.kind \in Prepares
    BY <1>4, GotoOnly DEF SavePrepared, At
  <2>2. CASE state[m.transfer] = "none"
    <3>1. /\ \A n \in Message : n.transfer = m.transfer => job[n].pc # "log"
          /\ m.transfer \notin transferError
      BY <1>1, <2>2 DEF ErrorInv, Records, Early
    <3>2. Records(m)'
      BY <1>1, <1>4, <2>1, <2>2, GotoOnly
      DEF SavePrepared, ChangeState, Records, Reserving, At, Step, Answer, Early, Prepares,
          PrepareKind, TypeOK
    <3>3. \A t \in Transfer \ {m.transfer} : state'[t] = state[t]
      BY <1>4 DEF SavePrepared, ChangeState, TypeOK
    <3>4. \A n \in Message \ {m} : n.transfer = m.transfer =>
            /\ job[n].pc = "log" => state'[m.transfer] \notin Early
            /\ Reserving(n) => m.transfer \notin transferError'
      BY <2>1, <3>1
    <3> QED
      BY <2>1, <3>1, <3>2, <3>3, <3>4, ErrorStep
  <2>3. CASE state[m.transfer] # "none"
    <3>1. UNCHANGED state /\ Records(m)'
      BY <1>4, <2>3, GotoOnly DEF SavePrepared, Records, Reserving, At, Answer
    <3> QED
      BY <2>1, <3>1, ErrorKept
  <2> QED
    BY <2>2, <2>3
<1>5. ASSUME NEW m \in Message,
             \/ SaveForwarded(m) \/ SaveFulfilment(m) \/ SaveError(m)
             \/ CommitPosition(m) \/ AbortPosition(m) \/ TimeoutPosition(m)
      PROVE  ErrorInv'
  <2>1. \A n \in Message \ {m} : job'[n] = job[n]
    BY <1>5, GotoOnly, AbandonOnly
    DEF SaveForwarded, SaveFulfilment, SaveError, CommitPosition, AbortPosition, TimeoutPosition
  <2>2. Records(m)'
    <3>1. job'[m].pc \in {"idle", "proceed"}
      BY <1>5, GotoOnly, AbandonOnly
      DEF SaveForwarded, SaveFulfilment, SaveError, CommitPosition, AbortPosition,
          TimeoutPosition, Answer
    <3> QED
      BY <3>1 DEF Records, Reserving, At
  <2>3. CASE UNCHANGED <<state, transferError>>
    BY <2>1, <2>2, <2>3, ErrorKept
  <2>4. CASE ~UNCHANGED <<state, transferError>>
    <3>1. /\ \A t \in Transfer \ {m.transfer} :
               state'[t] = state[t] /\ (t \in transferError <=> t \in transferError')
          /\ state'[m.transfer] \notin Early
      BY <1>1, <1>5, <2>4
      DEF SaveForwarded, SaveFulfilment, SaveError, CommitPosition, AbortPosition,
          TimeoutPosition, ChangeState, Early, TypeOK
    <3>2. \A n \in Message : Reserving(n) /\ n.transfer = m.transfer => m.transfer \notin transferError'
      <4>1. CASE UNCHANGED transferError
        BY <4>1 DEF ErrorInv, Records
      <4>2. CASE SaveError(m)
        <5>1. m \in pending /\ m.kind \in FulfilKind
          BY <4>2 DEF SaveError, At, OriginInv, JobWarranted
        <5>2. debited[m.transfer] = 1
          BY <5>1 DEF OriginInv, Warranted, Answers
        <5> QED
          BY <5>2 DEF FundInv, InHand, Reserving
      <4> QED
        BY <1>5, <4>1, <4>2
        DEF SaveForwarded, SaveFulfilment, CommitPosition, AbortPosition, TimeoutPosition
    <3> QED
      BY <2>1, <2>2, <3>1, <3>2, ErrorStep
  <2> QED
    BY <2>3, <2>4
<1>6. ASSUME NEW m \in Message, ReservePosition(m) PROVE ErrorInv'
  <2>1. /\ \A n \in Message \ {m} : job'[n] = job[n]
        /\ UNCHANGED transferError /\ At(m, {"positionPrepare"}, "write")
        /\ \/ job'[m] = Answer({}, {"prepared"}) /\ Reserving(m)
           \/ job'[m] = Step("log", "none") /\ state' = [state EXCEPT ![m.transfer] = "ABORTED_REJECTED"]
    BY <1>6, GotoOnly DEF ReservePosition, Reserving, ChangeState
  <2>2. Records(m)'
    BY <1>1, <2>1 DEF Records, Reserving, At, Answer, Step, Early, TypeOK
  <2>3. \A t \in Transfer \ {m.transfer} : state'[t] = state[t]
    BY <1>6 DEF ReservePosition, ChangeState, TypeOK
  <2>4. state'[m.transfer] \in Early => m.transfer \notin transferError'
    BY <1>1, <2>1 DEF ErrorInv, Records, Early, TypeOK
  <2>5. \A n \in Message \ {m} : n.transfer = m.transfer =>
          /\ job[n].pc # "log"
          /\ Reserving(n) => m.transfer \notin transferError'
    BY <2>1, LogOrReserve DEF ErrorInv, Records
  <2> QED
    BY <2>1, <2>2, <2>3, <2>4, <2>5, ErrorStep
<1>7. CASE ExpireDue
  <2>1. UNCHANGED job
    BY <1>7 DEF ExpireDue
  <2>2. ASSUME NEW t \in Transfer, t \in TimeoutErrors
        PROVE  state'[t] = "RESERVED_TIMEOUT" /\ debited[t] = 1
    BY <1>7, <2>2 DEF ExpireDue, TimeoutErrors, Due, FundInv, StateAndMoves
  <2>3. ASSUME NEW t \in Transfer, t \notin TimeoutErrors
        PROVE  state'[t] = state[t] \/ state'[t] = "EXPIRED_PREPARED"
    BY <1>7, <2>3 DEF ExpireDue, TimeoutErrors
  <2>4. transferError' = transferError \union TimeoutErrors
    BY <1>7 DEF ExpireDue
  <2>5. \A t \in Transfer : state'[t] \in Early => state'[t] = state[t] /\ t \notin transferError'
    BY <2>2, <2>3, <2>4 DEF ErrorInv, Early
  <2>6. ASSUME NEW m \in Message PROVE Records(m)'
    <3>1. Records(m) /\ m.transfer \in Transfer
      BY <1>1 DEF ErrorInv
    <3>2. Reserving(m) => m.transfer \notin TimeoutErrors
      BY <2>2, <3>1 DEF Reserving, FundInv, InHand
    <3> QED
      BY <2>1, <2>4, <2>5, <3>1, <3>2 DEF Records, Reserving, At
  <2> QED
    BY <2>5, <2>6 DEF ErrorInv
<1>8. ASSUME \/ ListTimedOut \/ CrashTimeout \/ UNCHANGED vars
             \/ (\E e \in timeoutList : ProduceTimeout(e)) \/ (\E t \in Transfer : Expire(t))
      PROVE  ErrorInv'
  <2>1. UNCHANGED <<state, transferError, job>>
    BY <1>8 DEF ListTimedOut, CrashTimeout, ProduceTimeout, Expire, vars, database
  <2> QED
    BY <2>1, ErrorKept
<1> QED
  BY <1>2, <1>3, <1>4, <1>5, <1>6, <1>7, <1>8
  DEF Next, PrepareNext, FulfilNext, PositionNext, TimeoutNext

(* The insert of a timeout run into transferError never meets a row that is *)
(* there already, so one transfer never keeps the others from expiring      *)
(* (timeoutExpireReserved against every handler that records an error).     *)
THEOREM SweepIsNeverBlocked == Spec => []SweepNeverBlocked
<1>1. ErrorInv => SweepNeverBlocked
  BY DEF ErrorInv, Early, SweepNeverBlocked
<1> QED
  BY <1>1, FundInit, FundNext, OriginInit, OriginNext, ErrorInit, ErrorNext, TypeCorrect, PTL
  DEF Spec

(***************************************************************************)
(* A payee that was told that its transfer is aborted is not credited.  It *)
(* is told when its answer is refused, and the answer's hash is stored by  *)
(* then: while every answer comes from the transfer's parties, each later  *)
(* one is a duplicate, so no fulfilment is ever stored.                    *)
(***************************************************************************)
Saves(m) == At(m, {"commit", "reserve"}, "save")

Refused(t) ==
  /\ fulfilHash[t] # "none"
  /\ t \notin fulfilment
  /\ \A m \in Message : m.transfer = t => ~Saves(m)

AnswerInv ==
  /\ \A m \in pending : m.kind \notin Misrouted
  /\ \A t \in fulfilment : fulfilHash[t] \in {"commit", "reserve"}
  /\ \A m \in Message : At(m, FulfilKind \ {"abort"}, "save") => fulfilHash[m.transfer] = m.kind
  /\ \A m \in Message : "reservedAborted" \in job[m].notify => Refused(m.transfer)
  /\ \A t \in Transfer : "reservedAborted" \in notified[t] => Refused(t)

LEMMA AnswerInit == Init => AnswerInv
BY DEF Init, StoreInit, AnswerInv, At, Idle

(* Only the fulfil handler stores an answer, or tells of a refusal.         *)
LEMMA WhoAnswers ==
  ASSUME TypeOK, [Next]_vars, NEW m \in Message
  PROVE  \/ job'[m] = job[m]
         \/ CheckFulfil(m) \/ SaveError(m)
         \/ /\ m.kind \in FulfilKind => job'[m].pc # "save"
            /\ "reservedAborted" \notin job'[m].notify
<1>1. CASE UNCHANGED vars \/ TimeoutNext \/ CrashTimeout \/ \E t \in Transfer : Expire(t)
  BY <1>1 DEF vars, TimeoutNext, ExpireDue, ListTimedOut, ProduceTimeout, CrashTimeout, Expire
<1>2. ASSUME NEW n \in Message, n # m,
             \/ LogTransferError(n) \/ Proceed(n) \/ Crash(n) \/ Request(n)
             \/ CheckPrepare(n) \/ SavePrepared(n) \/ ReadForwarded(n) \/ SaveForwarded(n)
             \/ CheckFulfil(n) \/ SaveFulfilment(n) \/ SaveError(n)
             \/ ReadState(n) \/ ReservePosition(n) \/ CommitPosition(n)
             \/ AbortPosition(n) \/ TimeoutPosition(n)
      PROVE  job'[m] = job[m]
  BY <1>2, GotoOnly, AbandonOnly
  DEF LogTransferError, Proceed, Crash, Request, CheckPrepare, SavePrepared, ReadForwarded,
      SaveForwarded, CheckFulfil, SaveFulfilment, SaveError, ReadState, ReservePosition,
      CommitPosition, AbortPosition, TimeoutPosition
<1>3. CASE LogTransferError(m) \/ Proceed(m) \/ Crash(m) \/ Request(m)
  BY <1>3, GotoOnly DEF LogTransferError, Proceed, Crash, Request, Abandon, Idle, Answer
<1>4. CASE CheckPrepare(m) \/ SavePrepared(m) \/ ReadForwarded(m) \/ SaveForwarded(m)
  <2>1. m.kind \notin FulfilKind
    BY <1>4 DEF CheckPrepare, SavePrepared, ReadForwarded, SaveForwarded, Consume, At,
       Prepares, PrepareKind, FulfilKind, ReserveKind
  <2> QED
    BY <1>4, <2>1, GotoOnly
    DEF CheckPrepare, SavePrepared, ReadForwarded, SaveForwarded, PrepareDuplicateNotices,
        Abandon, Idle, Step, Answer
<1>5. CASE SaveFulfilment(m)
  BY <1>5, GotoOnly DEF SaveFulfilment, Abandon, Idle, Answer
<1>6. CASE \/ ReadState(m) \/ ReservePosition(m) \/ CommitPosition(m)
           \/ AbortPosition(m) \/ TimeoutPosition(m)
  BY <1>6, GotoOnly
  DEF ReadState, ReservePosition, CommitPosition, AbortPosition, TimeoutPosition,
      Abandon, Idle, Step, Answer
<1> QED
  BY <1>1, <1>2, <1>3, <1>4, <1>5, <1>6 DEF Next, PrepareNext, FulfilNext, PositionNext

LEMMA WhoFulfils ==
  ASSUME TypeOK, [Next]_vars, NEW t \in fulfilment', t \notin fulfilment
  PROVE  \E m \in Message : m.transfer = t /\ Saves(m)
<1>1. UNCHANGED fulfilment \/ \E m \in Message : SaveFulfilment(m)
  <2>1. CASE UNCHANGED vars \/ TimeoutNext \/ CrashTimeout \/ \E u \in Transfer : Expire(u)
    BY <2>1 DEF vars, TimeoutNext, ExpireDue, ListTimedOut, ProduceTimeout, CrashTimeout, Expire,
       database
  <2>2. ASSUME NEW n \in Message, LogTransferError(n) \/ Proceed(n) \/ Crash(n) \/ Request(n)
        PROVE  UNCHANGED fulfilment
    BY <2>2 DEF LogTransferError, Proceed, Crash, Request, database
  <2>3. PrepareNext => UNCHANGED fulfilment
    BY DEF PrepareNext, CheckPrepare, SavePrepared, ReadForwarded, SaveForwarded, database
  <2>4. FulfilNext => UNCHANGED fulfilment \/ \E m \in Message : SaveFulfilment(m)
    BY DEF FulfilNext, CheckFulfil, SaveError
  <2>5. PositionNext => UNCHANGED fulfilment
    BY DEF PositionNext, ReadState, ReservePosition, CommitPosition, AbortPosition,
       TimeoutPosition, database
  <2> QED
    BY <2>1, <2>2, <2>3, <2>4, <2>5 DEF Next
<1> QED
  BY <1>1 DEF SaveFulfilment, Saves

LEMMA WhoTells ==
  ASSUME TypeOK, [Next]_vars, NEW t \in Transfer,
         "reservedAborted" \in notified'[t], "reservedAborted" \notin notified[t]
  PROVE  \E m \in Message : m.transfer = t /\ "reservedAborted" \in job[m].notify
<1>1. CASE UNCHANGED notified
  BY <1>1
<1>2. ASSUME NEW m \in Message, Proceed(m)
      PROVE  m.transfer = t /\ "reservedAborted" \in job[m].notify
  <2>1. notified' = [notified EXCEPT ![m.transfer] = @ \union job[m].notify]
    BY <1>2 DEF Proceed
  <2> QED
    BY <2>1 DEF TypeOK
<1>3. ASSUME NEW e \in timeoutList, ProduceTimeout(e)
      PROVE  FALSE
  <2>1. notified' = [notified EXCEPT ![e.transfer] = @ \union TimeoutNotices(e)]
    BY <1>3 DEF ProduceTimeout
  <2> QED
    BY <2>1 DEF TypeOK, TimeoutNotices
<1>4. \/ UNCHANGED notified
      \/ \E m \in Message : Proceed(m)
      \/ \E e \in timeoutList : ProduceTimeout(e)
  BY DEF Next, vars, LogTransferError, Crash, Request, Expire,
     PrepareNext, CheckPrepare, SavePrepared, ReadForwarded, SaveForwarded,
     FulfilNext, CheckFulfil, SaveFulfilment, SaveError,
     PositionNext, ReadState, ReservePosition, CommitPosition, AbortPosition, TimeoutPosition,
     TimeoutNext, ExpireDue, ListTimedOut, CrashTimeout
<1> QED
  BY <1>1, <1>2, <1>3, <1>4

LEMMA WhatIsSent ==
  ASSUME TypeOK, [Next]_vars, NEW p \in pending', p \notin pending
  PROVE  p.kind \in PositionKind \union ClientKind
<1>1. CASE \E m \in Message : Abandon(m)
  BY <1>1 DEF Abandon
<1>2. ASSUME NEW m \in Message, Proceed(m) \/ Crash(m) PROVE p.kind \in PositionKind
  BY <1>2 DEF Proceed, Crash, Sent, TypeOK, Job
<1>3. ASSUME NEW m \in Message, Request(m) PROVE p.kind \in ClientKind
  BY <1>3 DEF Request
<1>4. ASSUME NEW e \in timeoutList, ProduceTimeout(e) PROVE p.kind \in PositionKind
  BY <1>4 DEF ProduceTimeout, PositionKind
<1>5. \/ UNCHANGED pending
      \/ \E m \in Message : Abandon(m) \/ Proceed(m) \/ Crash(m) \/ Request(m)
      \/ \E e \in timeoutList : ProduceTimeout(e)
  BY DEF Next, vars, LogTransferError, Expire,
     PrepareNext, CheckPrepare, SavePrepared, ReadForwarded, SaveForwarded,
     FulfilNext, CheckFulfil, SaveFulfilment, SaveError,
     PositionNext, ReadState, ReservePosition, CommitPosition, AbortPosition, TimeoutPosition,
     TimeoutNext, ExpireDue, ListTimedOut, CrashTimeout
<1> QED
  BY <1>1, <1>2, <1>3, <1>4, <1>5

LEMMA NewAnswer ==
  ASSUME TypeOK, AnswerInv, NEW m \in Message, CheckFulfil(m)
  PROVE  /\ m.kind \notin Misrouted
         /\ At(m, FulfilKind \ {"abort"}, "save")' =>
              fulfilHash[m.transfer] = "none" /\ fulfilHash'[m.transfer] = m.kind
         /\ "reservedAborted" \in job'[m].notify =>
              /\ fulfilHash[m.transfer] = "none" /\ fulfilHash'[m.transfer] = m.kind
              /\ job'[m].pc = "proceed"
<1>1. m.kind \notin Misrouted /\ m.transfer \in Transfer
  BY DEF CheckFulfil, Consume, AnswerInv, Message
<1>2. CASE HashOf(m) # "none"
  BY <1>1, <1>2, GotoOnly DEF CheckFulfil, At, Answer, FulfilDuplicateNotices
<1>3. CASE HashOf(m) = "none" /\ m.kind # "abort"
  <2>1. fulfilHash[m.transfer] = "none" /\ fulfilHash'[m.transfer] = m.kind
    BY <1>1, <1>3 DEF CheckFulfil, HashOf, StoreHash, TypeOK
  <2>2. job'[m].pc = "proceed" \/ job'[m].notify = {}
    BY <1>1, <1>3, GotoOnly DEF CheckFulfil, Answer, Step, Abandon, Idle
  <2> QED
    BY <1>1, <2>1, <2>2
<1>4. CASE HashOf(m) = "none" /\ m.kind = "abort"
  BY <1>1, <1>4, GotoOnly
  DEF CheckFulfil, At, Answer, Step, Abandon, Idle, AbortNotice, ReserveKind
<1> QED
  BY <1>2, <1>3, <1>4

LEMMA AnswerNext ==
  ASSUME ClientKind \intersect Misrouted = {},
         TypeOK, FundInv, OriginInv, AnswerInv, [Next]_vars
  PROVE  AnswerInv'
<1>1. \A m \in Message : m.transfer \in Transfer /\ m.kind # "none"
  BY DEF Message, Kind, PrepareKind, FulfilKind, ReserveKind, PositionKind
<1>2. \A m \in pending' : m.kind \notin Misrouted
  BY WhatIsSent DEF AnswerInv, PositionKind, Misrouted
<1>3. \A t \in fulfilment' : fulfilHash'[t] \in {"commit", "reserve"}
  <2> SUFFICES ASSUME NEW t \in fulfilment' PROVE fulfilHash'[t] \in {"commit", "reserve"}
    OBVIOUS
  <2>1. fulfilHash[t] \in {"commit", "reserve"}
    <3>1. CASE t \in fulfilment
      BY <3>1 DEF AnswerInv
    <3>2. CASE t \notin fulfilment
      BY <3>2, WhoFulfils DEF Saves, At, AnswerInv, FulfilKind, ReserveKind
    <3> QED
      BY <3>1, <3>2
  <2>2. t \in Transfer
    BY TypeNext DEF TypeOK
  <2> QED
    BY <2>1, <2>2, RowsStay
<1>4. ASSUME NEW m \in Message, At(m, FulfilKind \ {"abort"}, "save")'
      PROVE  /\ fulfilHash'[m.transfer] = m.kind
             /\ job'[m] = job[m] \/ fulfilHash[m.transfer] = "none"
  <2>1. CASE job'[m] = job[m]
    BY <1>1, <1>4, <2>1, RowsStay DEF AnswerInv, At
  <2>2. CASE job'[m] # job[m]
    <3>1. ~SaveError(m)
      BY <1>4, GotoOnly, AbandonOnly DEF SaveError, At, Answer
    <3> QED
      BY <1>4, <2>2, <3>1, WhoAnswers, NewAnswer DEF At
  <2> QED
    BY <2>1, <2>2
<1>5. ASSUME NEW t \in Transfer, Refused(t) PROVE Refused(t)'
  <2>1. fulfilHash'[t] # "none"
    BY <1>5, RowsStay DEF Refused
  <2>2. t \notin fulfilment'
    BY <1>5, WhoFulfils DEF Refused
  <2>3. ASSUME NEW m \in Message, m.transfer = t, Saves(m)' PROVE FALSE
    <3>1. At(m, FulfilKind \ {"abort"}, "save")'
      BY <2>3 DEF Saves, At, FulfilKind, ReserveKind
    <3> QED
      BY <1>4, <1>5, <2>3, <3>1 DEF Refused, Saves, At
  <2> QED
    BY <2>1, <2>2, <2>3 DEF Refused
<1>6. ASSUME NEW m \in Message, "reservedAborted" \in job'[m].notify
      PROVE  Refused(m.transfer)'
  <2>1. CASE job'[m] = job[m]
    BY <1>1, <1>5, <1>6, <2>1 DEF AnswerInv
  <2>2. CASE CheckFulfil(m)
    <3>1. fulfilHash[m.transfer] = "none" /\ fulfilHash'[m.transfer] = m.kind
      BY <1>6, <2>2, NewAnswer
    <3>2. m.transfer \notin fulfilment'
      BY <2>2, <3>1 DEF CheckFulfil, AnswerInv
    <3>3. ASSUME NEW n \in Message, n.transfer = m.transfer, Saves(n)' PROVE FALSE
      <4>1. CASE n = m
        BY <1>6, <2>2, <3>3, <4>1, NewAnswer DEF Saves, At
      <4>2. CASE n # m
        <5>1. job'[n] = job[n]
          BY <2>2, <4>2, GotoOnly, AbandonOnly DEF CheckFulfil
        <5> QED
          BY <1>1, <3>1, <3>3, <5>1 DEF AnswerInv, Saves, At, FulfilKind, ReserveKind
      <4> QED
        BY <4>1, <4>2
    <3> QED
      BY <1>1, <3>1, <3>2, <3>3 DEF Refused
  <2>3. CASE SaveError(m)
    <3>1. At(m, FulfilKind \ {"commit", "reserve"}, "save") /\ m.kind \in ReserveKind
      BY <1>6, <2>3, GotoOnly DEF SaveError, Abandon, Idle, Answer, AbortNotice
    <3>2. m \in pending
      BY <3>1 DEF At, OriginInv, JobWarranted
    <3>3. m.kind \notin {"abort", "commit", "reserve"} /\ fulfilHash[m.transfer] = m.kind
      BY <3>1, <3>2 DEF AnswerInv, At, ReserveKind, Misrouted
    <3>4. m.transfer \notin fulfilment' /\ UNCHANGED fulfilHash
      BY <2>3, <3>3 DEF SaveError, AnswerInv
    <3>5. ASSUME NEW n \in Message, n.transfer = m.transfer, Saves(n)' PROVE FALSE
      <4>1. At(n, FulfilKind \ {"abort"}, "save")'
        BY <3>5 DEF Saves, At, FulfilKind, ReserveKind
      <4>2. fulfilHash'[n.transfer] = n.kind
        BY <1>4, <4>1
      <4> QED
        BY <3>3, <3>4, <3>5, <4>2 DEF Saves, At
    <3> QED
      BY <1>1, <3>3, <3>4, <3>5 DEF Refused
  <2> QED
    BY <1>6, <2>1, <2>2, <2>3, WhoAnswers
<1>7. ASSUME NEW t \in Transfer, "reservedAborted" \in notified'[t] PROVE Refused(t)'
  BY <1>5, <1>7, WhoTells DEF AnswerInv
<1> QED
  BY <1>2, <1>3, <1>4, <1>6, <1>7 DEF AnswerInv

(* A payee that asked to be told, and is told that the transfer is aborted, *)
(* is never credited for it, as long as only the parties of a transfer      *)
(* answer it: wrong headers are judged before the hash is looked at (the    *)
(* validation and savePayeeTransferResponse of the fulfil handler).         *)
THEOREM AbortedIsKept ==
  ASSUME ClientKind \intersect Misrouted = {}
  PROVE  Spec => []ReservedAbortedIsFinal
<1>1. TypeOK /\ FundInv /\ AnswerInv => ReservedAbortedIsFinal
  BY DEF AnswerInv, Refused, FundInv, StateAndMoves, ReservedAbortedIsFinal
<1>2. TypeOK /\ FundInv /\ OriginInv /\ AnswerInv /\ [Next]_vars => AnswerInv'
  BY AnswerNext
<1> QED
  BY <1>1, <1>2, FundInit, FundNext, OriginInit, OriginNext, AnswerInit, TypeCorrect, PTL DEF Spec

(***************************************************************************)
(* While no process dies, a payer gets its funds back once.  The row in    *)
(* transferError lets through either the abort or the timeout of a         *)
(* transfer, and from then on exactly one thing stands for the return of   *)
(* the funds: the run that is to list the transfer, a handler that is to   *)
(* send the message, or the message itself until its account has moved.    *)
(***************************************************************************)
Msg(t, kind) == [transfer |-> t, kind |-> kind]

Awaited(t, kind)  == Msg(t, kind) \in pending /\ job[Msg(t, kind)].pc \in {"idle", "write"}
Sends(m, t, kind) == m.transfer = t /\ kind \in job[m].send
ToCome(t, kind)   == \E m \in Message : Sends(m, t, kind)
Once(t, kind) ==
  \A m \in Message : Sends(m, t, kind) =>
    Msg(t, kind) \notin pending /\ \A n \in Message : Sends(n, t, kind) => m = n

OnList(t) == [transfer |-> t, state |-> "RESERVED_TIMEOUT"] \in timeoutList
Timing(t) == (t \in timedOut /\ state[t] = "RESERVED_TIMEOUT") \/ OnList(t)

PrepareDue(t) == Awaited(t, "positionPrepare") \/ ToCome(t, "positionPrepare")
AbortDue(t)   == Awaited(t, "positionAbort") \/ ToCome(t, "positionAbort")
TimeoutDue(t) == Awaited(t, "positionTimeout") \/ Timing(t)

Tokens(t) ==
  /\ Once(t, "positionPrepare") /\ Once(t, "positionAbort") /\ ~ToCome(t, "positionTimeout")
  /\ Timing(t) => Msg(t, "positionTimeout") \notin pending
  /\ t \in timedOut => ~OnList(t)

Owed(t) ==
  /\ PrepareDue(t) => debited[t] = 0
  /\ AbortDue(t) \/ TimeoutDue(t) => t \in transferError /\ refunded[t] = 0
  /\ ~(AbortDue(t) /\ TimeoutDue(t))
  /\ t \notin transferError => refunded[t] = 0
  /\ refunded[t] <= debited[t]

Ended(t) ==
  /\ state[t] \in {"INVALID", "ABORTED_REJECTED", "EXPIRED_PREPARED"} => debited[t] = 0
  /\ state[t] = "COMMITTED" => credited[t] = 1
  /\ state[t] \in {"ABORTED_ERROR", "EXPIRED_RESERVED"} => refunded[t] = 1

RefundInv == \A t \in Transfer : Tokens(t) /\ Owed(t) /\ Ended(t)

Refunds == {"positionPrepare", "positionAbort", "positionTimeout"}

LEMMA RefundInit == Init => RefundInv
BY DEF Init, StoreInit, RefundInv, Tokens, Owed, Ended, Once, Sends, ToCome, Awaited, OnList,
   Timing, PrepareDue, AbortDue, TimeoutDue, Idle

LEMMA NoCrash ==
  ASSUME MaxCrashes = 0, TypeOK
  PROVE  /\ ~CrashTimeout
         /\ \A m \in Message : ~Crash(m)
         /\ \A m \in Message : Abandon(m) => pending' = pending \ {m} /\ job'[m] = Idle
BY GotoOnly DEF TypeOK, CrashTimeout, Crash, Abandon

(* A step that brings no message of these kinds, and moves no account.      *)
LEMMA RefundLess ==
  ASSUME NEW t \in Transfer, Tokens(t), Owed(t), Ended(t)',
         \A k \in Refunds : Awaited(t, k)' => Awaited(t, k),
         \A k \in Refunds : Msg(t, k) \in pending' => Msg(t, k) \in pending,
         \A k \in Refunds : \A m \in Message : Sends(m, t, k)' => Sends(m, t, k),
         Timing(t)' => Timing(t),
         t \in timedOut' => t \in timedOut /\ (OnList(t)' => OnList(t)),
         t \in transferError => t \in transferError',
         debited'[t] = debited[t], refunded'[t] = refunded[t]
  PROVE  Tokens(t)' /\ Owed(t)'
<1>1. /\ PrepareDue(t)' => PrepareDue(t)
      /\ AbortDue(t)' => AbortDue(t)
      /\ TimeoutDue(t)' => TimeoutDue(t)
      /\ ToCome(t, "positionTimeout")' => ToCome(t, "positionTimeout")
  BY DEF PrepareDue, AbortDue, TimeoutDue, ToCome, Refunds
<1>2. ASSUME NEW k \in Refunds, Once(t, k) PROVE Once(t, k)'
  BY <1>2 DEF Once
<1>3. Tokens(t)'
  BY <1>1, <1>2 DEF Tokens, Refunds
<1>4. Owed(t)'
  BY <1>1 DEF Owed
<1> QED
  BY <1>3, <1>4

(* A handler's step with m leaves every other transfer as it is.            *)
LEMMA RefundElsewhere ==
  ASSUME TypeOK, RefundInv, NEW m \in Message, NEW t \in Transfer, t # m.transfer,
         \A n \in Message \ {m} : job'[n] = job[n],
         \A p \in pending' : p \in pending \/ p.transfer = m.transfer,
         UNCHANGED cron,
         t \in transferError <=> t \in transferError',
         state'[t] = state[t], debited'[t] = debited[t], refunded'[t] = refunded[t],
         credited'[t] = credited[t]
  PROVE  Tokens(t)' /\ Owed(t)' /\ Ended(t)'
<1>1. Tokens(t) /\ Owed(t) /\ Ended(t)
  BY DEF RefundInv
<1>2. ASSUME NEW k \in Refunds
      PROVE  /\ Msg(t, k) \in Message \ {m}
             /\ Msg(t, k) \in pending' => Msg(t, k) \in pending
  BY <1>2 DEF Msg, Message, Kind, PositionKind, Refunds
<1>3. \A k \in Refunds : Awaited(t, k)' => Awaited(t, k)
  BY <1>2 DEF Awaited
<1>4. \A k \in Refunds : \A n \in Message : Sends(n, t, k)' => Sends(n, t, k)
  BY DEF Sends
<1>5. Ended(t)'
  BY <1>1 DEF Ended
<1>6. (Timing(t)' => Timing(t)) /\ (t \in timedOut' => t \in timedOut /\ (OnList(t)' => OnList(t)))
  BY DEF Timing, OnList, cron
<1> QED
  BY <1>1, <1>2, <1>3, <1>4, <1>5, <1>6, RefundLess

(* What a handler's step with m changes of other transfers: nothing.        *)
LEMMA RefundStep ==
  ASSUME MaxCrashes = 0, TypeOK, FundInv, OriginInv, RefundInv, NEW m \in Message,
         \/ LogTransferError(m) \/ Proceed(m) \/ Request(m)
         \/ CheckPrepare(m) \/ SavePrepared(m) \/ ReadForwarded(m) \/ SaveForwarded(m)
         \/ CheckFulfil(m) \/ SaveFulfilment(m) \/ SaveError(m)
         \/ ReadState(m) \/ ReservePosition(m) \/ CommitPosition(m)
         \/ AbortPosition(m) \/ TimeoutPosition(m),
         Tokens(m.transfer)' /\ Owed(m.transfer)' /\ Ended(m.transfer)'
  PROVE  RefundInv'
<1>1. m.transfer \in Transfer
  BY DEF Message
<1>2. \A n \in Message \ {m} : job'[n] = job[n]
  BY GotoOnly, AbandonOnly
  DEF LogTransferError, Proceed, Request, CheckPrepare, SavePrepared, ReadForwarded,
      SaveForwarded, CheckFulfil, SaveFulfilment, SaveError, ReadState, ReservePosition,
      CommitPosition, AbortPosition, TimeoutPosition
<1>3. \A p \in pending' : p \in pending \/ p.transfer = m.transfer
  BY DEF LogTransferError, Proceed, Request, CheckPrepare, SavePrepared, ReadForwarded,
      SaveForwarded, CheckFulfil, SaveFulfilment, SaveError, ReadState, ReservePosition,
      CommitPosition, AbortPosition, TimeoutPosition, Abandon, Sent
<1>4. UNCHANGED cron
  BY DEF LogTransferError, Proceed, Request, CheckPrepare, SavePrepared, ReadForwarded,
      SaveForwarded, CheckFulfil, SaveFulfilment, SaveError, ReadState, ReservePosition,
      CommitPosition, AbortPosition, TimeoutPosition
<1>5. \A t \in Transfer \ {m.transfer} : t \in transferError <=> t \in transferError'
  BY DEF LogTransferError, Proceed, Request, CheckPrepare, SavePrepared, ReadForwarded,
      SaveForwarded, CheckFulfil, SaveFulfilment, SaveError, ReadState, ReservePosition,
      CommitPosition, AbortPosition, TimeoutPosition, database
<1>6. UNCHANGED state \/ \E s \in State : ChangeState(m.transfer, s)
  BY DEF LogTransferError, Proceed, Request, CheckPrepare, SavePrepared, ReadForwarded,
      SaveForwarded, CheckFulfil, SaveFulfilment, SaveError, ReadState, ReservePosition,
      CommitPosition, AbortPosition, TimeoutPosition, database, State
<1>7. UNCHANGED moves \/ Debit(m.transfer) \/ Credit(m.transfer) \/ Refund(m.transfer)
  BY DEF LogTransferError, Proceed, Request, CheckPrepare, SavePrepared, ReadForwarded,
      SaveForwarded, CheckFulfil, SaveFulfilment, SaveError, ReadState, ReservePosition,
      CommitPosition, AbortPosition, TimeoutPosition, database
<1>8. \A t \in Transfer \ {m.transfer} :
        /\ state'[t] = state[t] /\ debited'[t] = debited[t]
        /\ credited'[t] = credited[t] /\ refunded'[t] = refunded[t]
  BY <1>1, <1>6, <1>7 DEF ChangeState, Debit, Credit, Refund, Count, moves, TypeOK
<1>9. \A t \in Transfer \ {m.transfer} : Tokens(t)' /\ Owed(t)' /\ Ended(t)'
  BY <1>2, <1>3, <1>4, <1>5, <1>8, RefundElsewhere
<1> QED
  BY <1>1, <1>9 DEF RefundInv

(* Steps that neither ask for a return of funds nor make one.               *)
LEMMA RefundQuiet ==
  ASSUME MaxCrashes = 0, TypeOK, FundInv, OriginInv, RefundInv, NEW m \in Message,
         \/ LogTransferError(m) \/ Request(m) \/ CheckPrepare(m) \/ ReadForwarded(m)
         \/ SaveForwarded(m) \/ CheckFulfil(m) \/ SaveFulfilment(m) \/ ReadState(m)
         \/ CommitPosition(m)
  PROVE  RefundInv'
<1> DEFINE t == m.transfer
<1>1. t \in Transfer /\ Tokens(t) /\ Owed(t) /\ Ended(t)
  BY DEF RefundInv, Message
<1>2. \A n \in Message \ {m} : job'[n] = job[n]
  BY GotoOnly, AbandonOnly
  DEF LogTransferError, Request, CheckPrepare, ReadForwarded, SaveForwarded, CheckFulfil,
      SaveFulfilment, ReadState, CommitPosition
<1>3. job'[m] = job[m] \/ job'[m].send = {} \/ job'[m].send = {"positionCommit"}
  BY GotoOnly
  DEF LogTransferError, Request, CheckPrepare, ReadForwarded, SaveForwarded, CheckFulfil,
      SaveFulfilment, ReadState, CommitPosition, Abandon, Idle, Step, Answer
<1>4. \A k \in Refunds : \A n \in Message : Sends(n, t, k)' => Sends(n, t, k)
  BY <1>2, <1>3 DEF Sends, Refunds
<1>5. ASSUME NEW k \in Refunds
      PROVE  /\ Msg(t, k) \in pending' => Msg(t, k) \in pending
             /\ Awaited(t, k)' => Awaited(t, k)
  <2>1. Msg(t, k) \in Message /\ Msg(t, k).kind = k
    BY <1>1 DEF Msg, Message, Kind, PositionKind, Refunds
  <2>2. CASE ReadState(m)
    BY <1>2, <2>1, <2>2 DEF ReadState, Consume, SameConsumer, Awaited
  <2>3. CASE LogTransferError(m)
    <3>1. pending' = pending \/ pending' = pending \ {m}
      BY <2>3, NoCrash DEF LogTransferError
    <3>2. m \notin pending' \/ job'[m].pc = "proceed"
      BY <2>3, GotoOnly, NoCrash DEF LogTransferError, Answer
    <3> QED
      BY <1>2, <2>1, <3>1, <3>2 DEF Awaited
  <2>4. CASE ~ReadState(m) /\ ~LogTransferError(m)
    <3>1. m.kind \notin Refunds
      BY <2>4, EnvironmentAssumption
      DEF Request, CheckPrepare, ReadForwarded, SaveForwarded, CheckFulfil, SaveFulfilment,
          CommitPosition, Consume, At, Prepares, PrepareKind, FulfilKind, ReserveKind, Refunds
    <3>2. pending' \subseteq pending \union {m}
      BY <2>4 DEF Request, CheckPrepare, ReadForwarded, SaveForwarded, CheckFulfil,
         SaveFulfilment, CommitPosition, Abandon
    <3> QED
      BY <1>2, <2>1, <3>1, <3>2 DEF Awaited
  <2> QED
    BY <2>2, <2>3, <2>4
<1>6. UNCHANGED <<debited, refunded, cron>> /\ (t \in transferError => t \in transferError')
  BY DEF LogTransferError, Request, CheckPrepare, ReadForwarded, SaveForwarded, CheckFulfil,
     SaveFulfilment, ReadState, CommitPosition, Credit, database, moves
<1>7. Ended(t)' /\ (state'[t] = state[t] \/ state'[t] # "RESERVED_TIMEOUT")
  <2>1. CASE UNCHANGED <<state, moves>>
    BY <1>1, <2>1 DEF Ended, moves
  <2>2. CASE SaveForwarded(m) \/ SaveFulfilment(m)
    BY <1>1, <2>2 DEF SaveForwarded, SaveFulfilment, ChangeState, Ended, TypeOK, moves
  <2>3. CASE CommitPosition(m) /\ ~UNCHANGED <<state, moves>>
    <3>1. credited[t] = 0 /\ ChangeState(t, "COMMITTED") /\ Credit(t)
      BY <2>3 DEF CommitPosition, FulfilReceived, FundInv, InHand
    <3>2. credited'[t] = 1 /\ state'[t] = "COMMITTED"
      BY <1>1, <3>1 DEF Credit, Count, ChangeState, TypeOK
    <3> QED
      BY <3>2 DEF Ended
  <2> QED
    BY <2>1, <2>2, <2>3
    DEF LogTransferError, Request, CheckPrepare, ReadForwarded, CheckFulfil, ReadState, database
<1>8. (Timing(t)' => Timing(t)) /\ (t \in timedOut' => t \in timedOut /\ (OnList(t)' => OnList(t)))
  BY <1>6, <1>7 DEF Timing, OnList, cron
<1>9. Tokens(t)' /\ Owed(t)'
  BY <1>1, <1>4, <1>5, <1>6, <1>7, <1>8, RefundLess
<1> QED
  BY <1>7, <1>9, RefundStep

(* The prepare handler is the only one to ask for a reservation, and asks   *)
(* when the transfer is first stored.                                       *)
LEMMA RefundSavePrepared ==
  ASSUME MaxCrashes = 0, TypeOK, FundInv, OriginInv, RefundInv, NEW m \in Message, SavePrepared(m)
  PROVE  RefundInv'
<1> DEFINE t == m.transfer
<1>1. t \in Transfer /\ Tokens(t) /\ Owed(t) /\ Ended(t) /\ StateAndMoves(t)
  BY DEF RefundInv, Message, FundInv
<1>2. \A n \in Message \ {m} : job'[n] = job[n]
  BY GotoOnly DEF SavePrepared
<1>3. UNCHANGED <<moves, pending, transferError, cron>> /\ m.kind \notin Refunds
  BY DEF SavePrepared, At, Prepares, PrepareKind, Refunds
<1>4. \A k \in Refunds : Msg(t, k) \in Message \ {m} /\ (Awaited(t, k)' <=> Awaited(t, k))
  BY <1>1, <1>2, <1>3 DEF Awaited, Msg, Message, Kind, PositionKind, Refunds
<1>5. Ended(t)' /\ (state'[t] = state[t] \/ state'[t] # "RESERVED_TIMEOUT")
  BY <1>1, <1>3 DEF SavePrepared, ChangeState, Ended, StateAndMoves, moves, TypeOK
<1>6. (Timing(t)' => Timing(t)) /\ (t \in timedOut' => t \in timedOut /\ (OnList(t)' => OnList(t)))
  BY <1>3, <1>5 DEF Timing, OnList, cron
<1>7. CASE job'[m].send = {}
  <2>1. \A k \in Refunds : \A n \in Message : Sends(n, t, k)' => Sends(n, t, k)
    BY <1>2, <1>7 DEF Sends
  <2>2. Tokens(t)' /\ Owed(t)'
    BY <1>1, <1>3, <1>4, <1>5, <1>6, <2>1, RefundLess DEF moves
  <2> QED
    BY <1>5, <2>2, RefundStep
<1>8. CASE job'[m].send # {}
  <2>1. state[t] = "none" /\ job'[m].send = {"positionPrepare"}
    BY <1>8, GotoOnly DEF SavePrepared, Step, Answer
  <2>2. debited[t] = 0
    BY <1>1, <2>1 DEF StateAndMoves
  <2>3. Msg(t, "positionPrepare") \notin pending
    BY <2>1 DEF OriginInv, Warranted, Msg
  <2>4. \A n \in Message : n.transfer = t => "positionPrepare" \notin job[n].send
    BY <2>1 DEF OriginInv, JobWarranted, Warranted
  <2>5. /\ \A n \in Message : Sends(n, t, "positionPrepare")' => n = m
        /\ \A k \in Refunds \ {"positionPrepare"} : \A n \in Message : Sends(n, t, k)' => Sends(n, t, k)
    BY <1>2, <2>1, <2>4 DEF Sends
  <2>6. Once(t, "positionPrepare")' /\ Once(t, "positionAbort")'
    BY <1>1, <1>3, <2>3, <2>5 DEF Once, Tokens, Refunds
  <2>7. /\ AbortDue(t)' => AbortDue(t)
        /\ TimeoutDue(t)' => TimeoutDue(t)
        /\ ~ToCome(t, "positionTimeout")'
    BY <1>1, <1>4, <1>6, <2>5 DEF AbortDue, TimeoutDue, ToCome, Tokens, Refunds
  <2>8. Tokens(t)'
    BY <1>1, <1>3, <1>6, <2>6, <2>7 DEF Tokens
  <2>9. Owed(t)'
    BY <1>1, <1>3, <2>2, <2>7 DEF Owed, moves
  <2> QED
    BY <1>5, <2>8, <2>9, RefundStep
<1> QED
  BY <1>7, <1>8

(* An answer that fails asks for the return of the funds, if it is the      *)
(* first to write the error row.                                            *)
LEMMA RefundSaveError ==
  ASSUME MaxCrashes = 0, TypeOK, FundInv, OriginInv, RefundInv, NEW m \in Message, SaveError(m)
  PROVE  RefundInv'
<1> DEFINE t == m.transfer
<1>1. t \in Transfer /\ Tokens(t) /\ Owed(t) /\ Ended(t)
  BY DEF RefundInv, Message
<1>2. \A n \in Message \ {m} : job'[n] = job[n]
  BY GotoOnly, AbandonOnly DEF SaveError
<1>3. UNCHANGED <<moves, cron>> /\ pending' \subseteq pending /\ m.kind \notin Refunds
  BY DEF SaveError, At, Abandon, FulfilKind, ReserveKind, Refunds
<1>4. \A k \in Refunds : Msg(t, k) \in Message \ {m} /\ (Awaited(t, k)' => Awaited(t, k))
  BY <1>1, <1>2, <1>3 DEF Awaited, Msg, Message, Kind, PositionKind, Refunds
<1>5. Ended(t)' /\ (state'[t] = state[t] \/ state'[t] # "RESERVED_TIMEOUT")
  BY <1>1, <1>3 DEF SaveError, ChangeState, Ended, moves, TypeOK
<1>6. (Timing(t)' => Timing(t)) /\ (t \in timedOut' => t \in timedOut /\ (OnList(t)' => OnList(t)))
  BY <1>3, <1>5 DEF Timing, OnList, cron
<1>7. CASE t \in transferError
  <2>1. job'[m].send = {} /\ UNCHANGED transferError
    BY <1>7, NoCrash DEF SaveError, ErrorConflict, Idle
  <2>2. \A k \in Refunds : \A n \in Message : Sends(n, t, k)' => Sends(n, t, k)
    BY <1>2, <2>1 DEF Sends
  <2>3. Tokens(t)' /\ Owed(t)'
    BY <1>1, <1>3, <1>4, <1>5, <1>6, <2>1, <2>2, RefundLess DEF moves
  <2> QED
    BY <1>5, <2>3, RefundStep
<1>8. CASE t \notin transferError
  <2>1. t \in transferError' /\ job'[m].send = {"positionAbort"} /\ UNCHANGED pending
    BY <1>8, GotoOnly DEF SaveError, ErrorConflict, Answer
  <2>2. refunded[t] = 0 /\ ~AbortDue(t) /\ ~TimeoutDue(t)
    BY <1>1, <1>8 DEF Owed
  <2>3. Msg(t, "positionAbort") \notin pending
    BY <1>8 DEF OriginInv, Warranted, Msg
  <2>4. /\ \A n \in Message : Sends(n, t, "positionAbort")' => n = m
        /\ \A k \in Refunds \ {"positionAbort"} : \A n \in Message : Sends(n, t, k)' => Sends(n, t, k)
    BY <1>2, <2>1, <2>2 DEF Sends, AbortDue, ToCome
  <2>5. Once(t, "positionPrepare")' /\ Once(t, "positionAbort")'
    BY <1>1, <2>1, <2>3, <2>4 DEF Once, Tokens, Refunds
  <2>6. /\ PrepareDue(t)' => PrepareDue(t)
        /\ ~TimeoutDue(t)'
        /\ ~ToCome(t, "positionTimeout")'
    BY <1>1, <1>4, <1>6, <2>2, <2>4 DEF PrepareDue, TimeoutDue, ToCome, Tokens, Refunds
  <2>7. Tokens(t)'
    BY <1>1, <1>6, <2>1, <2>5, <2>6 DEF Tokens
  <2>8. Owed(t)'
    BY <1>1, <1>3, <2>1, <2>2, <2>6 DEF Owed, moves
  <2> QED
    BY <1>5, <2>7, <2>8, RefundStep
<1> QED
  BY <1>7, <1>8

(* The position handler makes the movement that was asked for: what asked   *)
(* for it is gone.                                                          *)
LEMMA RefundMove ==
  ASSUME MaxCrashes = 0, TypeOK, FundInv, OriginInv, RefundInv, NEW m \in Message,
         ReservePosition(m) \/ AbortPosition(m) \/ TimeoutPosition(m)
  PROVE  RefundInv'
<1> DEFINE t == m.transfer
<1>1. t \in Transfer /\ Tokens(t) /\ Owed(t) /\ Ended(t)
  BY DEF RefundInv, Message
<1>2. \A n \in Message \ {m} : job'[n] = job[n]
  BY GotoOnly, AbandonOnly DEF ReservePosition, AbortPosition, TimeoutPosition
<1>3. /\ job'[m].send = {} /\ UNCHANGED <<cron, transferError>>
      /\ \/ job'[m].pc \notin {"idle", "write"} /\ UNCHANGED pending
         \/ pending' = pending \ {m}
  BY GotoOnly, NoCrash DEF ReservePosition, AbortPosition, TimeoutPosition, Idle, Step, Answer
<1>4. m.kind \in Refunds /\ m = Msg(t, m.kind) /\ job[m].pc = "write" /\ m \in pending
  BY DEF ReservePosition, AbortPosition, TimeoutPosition, At, Refunds, Msg, Message, OriginInv,
     JobWarranted
<1>5. /\ \A k \in Refunds : Msg(t, k) \in Message /\ (Msg(t, k) \in pending' => Msg(t, k) \in pending)
      /\ \A k \in Refunds \ {m.kind} : Msg(t, k) # m
  BY <1>1, <1>3 DEF Msg, Message, Kind, PositionKind, Refunds
<1>6. \A k \in Refunds : Awaited(t, k)' => Awaited(t, k) /\ k # m.kind
  BY <1>2, <1>3, <1>4, <1>5 DEF Awaited
<1>7. \A k \in Refunds : \A n \in Message : Sends(n, t, k)' => Sends(n, t, k)
  BY <1>2, <1>3 DEF Sends
<1>8. Awaited(t, m.kind)
  BY <1>4 DEF Awaited
<1>9. state' = state \/ \E s \in State \ {"RESERVED_TIMEOUT"} : state' = [state EXCEPT ![t] = s]
  BY DEF ReservePosition, AbortPosition, TimeoutPosition, ChangeState, State
<1>10. (Timing(t)' => Timing(t)) /\ (t \in timedOut' => t \in timedOut /\ (OnList(t)' => OnList(t)))
  BY <1>1, <1>3, <1>9 DEF Timing, OnList, cron, TypeOK
<1>11. /\ PrepareDue(t)' => PrepareDue(t)
       /\ AbortDue(t)' => AbortDue(t)
       /\ TimeoutDue(t)' => TimeoutDue(t)
       /\ ~ToCome(t, "positionTimeout")'
  BY <1>1, <1>6, <1>7, <1>10 DEF PrepareDue, AbortDue, TimeoutDue, ToCome, Refunds, Tokens
<1>12. ASSUME NEW k \in Refunds, Once(t, k) PROVE Once(t, k)'
  BY <1>5, <1>7, <1>12 DEF Once
<1>13. Tokens(t)'
  BY <1>1, <1>5, <1>10, <1>11, <1>12 DEF Tokens, Refunds
<1>14. refunded[t] \in Nat /\ debited[t] \in Nat
  BY <1>1 DEF TypeOK
<1>15. CASE ReservePosition(m)
  <2>1. m.kind = "positionPrepare" /\ debited[t] = 0
    BY <1>1, <1>8, <1>15 DEF ReservePosition, At, Owed, PrepareDue
  <2>2. ~PrepareDue(t)'
    <3>1. ~Awaited(t, "positionPrepare")'
      BY <1>6, <2>1 DEF Refunds
    <3>2. \A n \in Message : ~Sends(n, t, "positionPrepare")
      BY <1>1, <1>4, <2>1 DEF Tokens, Once
    <3> QED
      BY <1>7, <3>1, <3>2 DEF PrepareDue, ToCome, Refunds
  <2>3. /\ UNCHANGED <<refunded, credited>>
        /\ \/ Debit(t) /\ state' = [state EXCEPT ![t] = "RESERVED"]
           \/ UNCHANGED debited /\ state' = [state EXCEPT ![t] = "ABORTED_REJECTED"]
    BY <1>15 DEF ReservePosition, ChangeState, Debit, moves
  <2>4. debited'[t] \in {debited[t], debited[t] + 1}
    BY <1>1, <2>3 DEF Debit, Count, TypeOK
  <2>5. Owed(t)'
    BY <1>1, <1>3, <1>11, <1>14, <2>2, <2>3, <2>4 DEF Owed
  <2>6. Ended(t)'
    BY <1>1, <2>1, <2>3 DEF Ended, TypeOK
  <2> QED
    BY <1>13, <1>15, <2>5, <2>6, RefundStep
<1>16. CASE AbortPosition(m)
  <2>1. m.kind = "positionAbort" /\ debited[t] = 1 /\ t \in transferError
    BY <1>4, <1>16 DEF AbortPosition, At, OriginInv, Warranted, Answers
  <2>2. AbortDue(t) /\ refunded[t] = 0 /\ ~TimeoutDue(t)
    BY <1>1, <1>8, <2>1 DEF Owed, AbortDue
  <2>3. ~AbortDue(t)'
    <3>1. ~Awaited(t, "positionAbort")'
      BY <1>6, <2>1 DEF Refunds
    <3>2. \A n \in Message : ~Sends(n, t, "positionAbort")
      BY <1>1, <1>4, <2>1 DEF Tokens, Once
    <3> QED
      BY <1>7, <3>1, <3>2 DEF AbortDue, ToCome, Refunds
  <2>4. /\ UNCHANGED debited /\ refunded'[t] = 1 /\ state'[t] = "ABORTED_ERROR"
    BY <1>1, <1>16, <2>2 DEF AbortPosition, ChangeState, Refund, Count, TypeOK
  <2>5. ~PrepareDue(t)'
    BY <1>1, <1>11, <2>1 DEF Owed
  <2>6. Owed(t)'
    BY <1>3, <1>11, <2>1, <2>2, <2>3, <2>4, <2>5 DEF Owed
  <2>7. Ended(t)'
    BY <2>4 DEF Ended
  <2> QED
    BY <1>13, <1>16, <2>6, <2>7, RefundStep
<1>17. CASE TimeoutPosition(m)
  <2>1. m.kind = "positionTimeout" /\ debited[t] = 1 /\ t \in transferError
    BY <1>4, <1>17 DEF TimeoutPosition, At, OriginInv, Warranted, Answers
  <2>2. TimeoutDue(t) /\ refunded[t] = 0 /\ ~AbortDue(t)
    BY <1>1, <1>8, <2>1 DEF Owed, TimeoutDue
  <2>3. ~TimeoutDue(t)'
    <3>1. ~Awaited(t, "positionTimeout")'
      BY <1>6, <2>1 DEF Refunds
    <3>2. ~Timing(t)
      BY <1>1, <1>4, <2>1 DEF Tokens
    <3> QED
      BY <1>10, <3>1, <3>2 DEF TimeoutDue
  <2>4. UNCHANGED debited
    BY <1>17 DEF TimeoutPosition, Refund, moves
  <2>5. ~PrepareDue(t)'
    BY <1>1, <1>11, <2>1 DEF Owed
  <2>6. \/ refunded'[t] = 1 /\ state'[t] = "EXPIRED_RESERVED"
        \/ UNCHANGED <<refunded, credited, state>>
    BY <1>1, <1>17, <2>2 DEF TimeoutPosition, ChangeState, Refund, Count, TypeOK, moves
  <2>7. Owed(t)'
    BY <1>1, <1>3, <1>11, <2>1, <2>2, <2>3, <2>4, <2>5, <2>6 DEF Owed
  <2>8. Ended(t)'
    BY <1>1, <2>4, <2>6 DEF Ended
  <2> QED
    BY <1>13, <1>17, <2>7, <2>8, RefundStep
<1> QED
  BY <1>15, <1>16, <1>17

(* Producing the message that was asked for: it is asked for by itself now. *)
LEMMA RefundProceed ==
  ASSUME MaxCrashes = 0, TypeOK, FundInv, OriginInv, RefundInv, NEW m \in Message, Proceed(m)
  PROVE  RefundInv'
<1> DEFINE t == m.transfer
<1>1. t \in Transfer /\ Tokens(t) /\ Owed(t) /\ Ended(t)
  BY DEF RefundInv, Message
<1>2. job'[m] = Idle /\ \A n \in Message \ {m} : job'[n] = job[n]
  BY GotoOnly DEF Proceed
<1>3. UNCHANGED <<state, moves, transferError, cron>>
  BY DEF Proceed, database
<1>4. m \in pending /\ job[m].pc = "proceed"
  BY DEF Proceed, OriginInv, JobWarranted
<1>5. ASSUME NEW k \in Refunds, Msg(t, k) \in pending', ~(Msg(t, k) \in pending /\ Msg(t, k) # m)
      PROVE  Sends(m, t, k)
  BY <1>5 DEF Proceed, Sent, Sends, Msg
<1>6. ASSUME NEW k \in Refunds, Awaited(t, k)'
      PROVE  Awaited(t, k) \/ Sends(m, t, k)
  <2>1. Msg(t, k) \in Message /\ Msg(t, k) \in pending'
    BY <1>1, <1>6 DEF Awaited, Msg, Message, Kind, PositionKind, Refunds
  <2> QED
    BY <1>2, <1>5, <1>6, <2>1 DEF Awaited
<1>7. \A k \in Refunds : \A n \in Message : Sends(n, t, k)' => Sends(n, t, k) /\ n # m
  BY <1>2 DEF Sends, Idle
<1>8. /\ PrepareDue(t)' => PrepareDue(t)
      /\ AbortDue(t)' => AbortDue(t)
      /\ ~ToCome(t, "positionTimeout")'
  BY <1>1, <1>6, <1>7 DEF PrepareDue, AbortDue, ToCome, Tokens, Refunds
<1>9. (Timing(t)' <=> Timing(t)) /\ (t \in timedOut' <=> t \in timedOut) /\ (OnList(t)' <=> OnList(t))
  BY <1>3 DEF Timing, OnList, cron
<1>10. ~Sends(m, t, "positionTimeout")
  BY <1>1 DEF Tokens, ToCome
<1>11. TimeoutDue(t)' => TimeoutDue(t)
  BY <1>6, <1>9, <1>10 DEF TimeoutDue, Refunds
<1>12. ASSUME NEW k \in Refunds, Once(t, k) PROVE Once(t, k)'
  <2> SUFFICES ASSUME NEW n \in Message, Sends(n, t, k)'
               PROVE  /\ Msg(t, k) \notin pending'
                      /\ \A o \in Message : Sends(o, t, k)' => n = o
    BY DEF Once
  <2>1. Sends(n, t, k) /\ n # m
    BY <1>7
  <2>2. Msg(t, k) \notin pending /\ ~Sends(m, t, k)
    BY <1>12, <2>1 DEF Once
  <2>3. Msg(t, k) \notin pending'
    BY <1>5, <2>2
  <2>4. \A o \in Message : Sends(o, t, k)' => n = o
    BY <1>7, <1>12, <2>1 DEF Once
  <2> QED
    BY <2>3, <2>4
<1>13. Timing(t)' => Msg(t, "positionTimeout") \notin pending'
  BY <1>1, <1>5, <1>9, <1>10 DEF Tokens, Refunds
<1>14. Tokens(t)'
  BY <1>1, <1>8, <1>9, <1>12, <1>13 DEF Tokens, Refunds
<1>15. Owed(t)' /\ Ended(t)'
  BY <1>1, <1>3, <1>8, <1>11 DEF Owed, Ended, moves
<1> QED
  BY <1>14, <1>15, RefundStep

(* The timeout run: expiring a transfer asks for the return of its funds,   *)
(* if it was reserved.                                                      *)
LEMMA RefundTimeout ==
  ASSUME MaxCrashes = 0, TypeOK, FundInv, OriginInv, ErrorInv, RefundInv, TimeoutNext
  PROVE  RefundInv'
<1> SUFFICES ASSUME NEW t \in Transfer PROVE Tokens(t)' /\ Owed(t)' /\ Ended(t)'
  BY DEF RefundInv
<1>1. Tokens(t) /\ Owed(t) /\ Ended(t) /\ StateAndMoves(t)
  BY DEF RefundInv, FundInv
<1>2. UNCHANGED <<job, moves>>
  BY DEF TimeoutNext, ExpireDue, ListTimedOut, ProduceTimeout, database
<1>3. \A k : \A n \in Message : Sends(n, t, k)' <=> Sends(n, t, k)
  BY <1>2 DEF Sends
<1>4. CASE ExpireDue
  <2>1. timedOut = {} /\ timeoutList = {} /\ UNCHANGED <<pending, timeoutList>> /\ timedOut' = Due
        /\ transferError' = transferError \union TimeoutErrors
    BY <1>4 DEF ExpireDue
  <2>2. \A k : Awaited(t, k)' <=> Awaited(t, k)
    BY <1>2, <2>1 DEF Awaited
  <2>3. ~OnList(t)' /\ ~Timing(t)
    BY <2>1 DEF OnList, Timing
  <2>4. CASE t \in TimeoutErrors
    <3>1. /\ state[t] = "RESERVED" /\ state'[t] = "RESERVED_TIMEOUT" /\ t \in transferError'
          /\ debited[t] = 1
      BY <1>1, <1>4, <2>1, <2>4 DEF ExpireDue, TimeoutErrors, StateAndMoves
    <3>2. t \notin transferError
      BY <3>1 DEF ErrorInv, Early
    <3>3. refunded[t] = 0 /\ ~AbortDue(t) /\ ~PrepareDue(t)
      BY <1>1, <3>1, <3>2 DEF Owed
    <3>4. Msg(t, "positionTimeout") \notin pending
      BY <3>2 DEF OriginInv, Warranted, Msg
    <3>5. ~AbortDue(t)' /\ ~PrepareDue(t)'
      BY <1>3, <2>2, <3>3 DEF AbortDue, PrepareDue, ToCome
    <3>6. Tokens(t)'
      BY <1>1, <1>3, <2>1, <2>3, <3>4 DEF Tokens, Once, ToCome
    <3>7. Owed(t)' /\ Ended(t)'
      BY <1>1, <1>2, <3>1, <3>3, <3>5 DEF Owed, Ended, moves
    <3> QED
      BY <3>6, <3>7
  <2>5. CASE t \notin TimeoutErrors
    <3>1. \/ state'[t] = state[t] /\ t \notin Due
          \/ state[t] = "RECEIVED_PREPARE" /\ state'[t] = "EXPIRED_PREPARED"
      BY <1>4, <2>5 DEF ExpireDue, TimeoutErrors, Due
    <3>2. ~Timing(t)'
      BY <2>1, <2>3, <3>1 DEF Timing
    <3>3. Ended(t)'
      BY <1>1, <1>2, <3>1 DEF Ended, StateAndMoves, moves
    <3>4. Tokens(t)'
      BY <1>1, <1>3, <2>1, <2>3, <3>2 DEF Tokens, Once, ToCome
    <3>5. /\ PrepareDue(t)' => PrepareDue(t)
          /\ AbortDue(t)' => AbortDue(t)
          /\ TimeoutDue(t)' => TimeoutDue(t)
      BY <1>3, <2>2, <3>2 DEF PrepareDue, AbortDue, TimeoutDue, ToCome
    <3>6. Owed(t)'
      BY <1>1, <1>2, <2>1, <2>5, <3>5 DEF Owed, moves
    <3> QED
      BY <3>3, <3>4, <3>6
  <2> QED
    BY <2>4, <2>5
<1>5. CASE ListTimedOut
  <2>1. UNCHANGED <<state, transferError, pending>> /\ timedOut' = {}
    BY <1>5 DEF ListTimedOut, database
  <2>2. OnList(t)' => t \in timedOut /\ state[t] = "RESERVED_TIMEOUT"
    BY <1>5 DEF ListTimedOut, OnList
  <2>3. \A k : Awaited(t, k)' <=> Awaited(t, k)
    BY <1>2, <2>1 DEF Awaited
  <2>4. Timing(t)' => Timing(t)
    BY <2>1, <2>2 DEF Timing
  <2>5. Ended(t)'
    BY <1>1, <1>2, <2>1 DEF Ended, moves
  <2> QED
    BY <1>1, <1>2, <1>3, <2>1, <2>3, <2>4, <2>5, RefundLess DEF moves
<1>6. ASSUME NEW e \in timeoutList, ProduceTimeout(e)
      PROVE  Tokens(t)' /\ Owed(t)' /\ Ended(t)'
  <2>1. UNCHANGED <<state, transferError, timedOut>> /\ timeoutList' = timeoutList \ {e}
    BY <1>6 DEF ProduceTimeout, database
  <2>2. Ended(t)'
    BY <1>1, <1>2, <2>1 DEF Ended, moves
  <2>3. OnList(t)' => OnList(t)
    BY <2>1 DEF OnList
  <2>4. CASE e = [transfer |-> t, state |-> "RESERVED_TIMEOUT"]
    <3>1. OnList(t) /\ ~OnList(t)' /\ t \notin timedOut
      BY <1>1, <2>1, <2>4 DEF OnList, Tokens
    <3>2. pending' = pending \union {Msg(t, "positionTimeout")} /\ Msg(t, "positionTimeout") \notin pending
      BY <1>1, <1>6, <2>4, <3>1 DEF ProduceTimeout, Msg, Tokens, Timing
    <3>3. ~Timing(t)' /\ TimeoutDue(t)
      BY <2>1, <3>1 DEF Timing, TimeoutDue
    <3>4. /\ Msg(t, "positionAbort") # Msg(t, "positionTimeout")
          /\ Msg(t, "positionPrepare") # Msg(t, "positionTimeout")
      BY DEF Msg
    <3>5. /\ Awaited(t, "positionAbort")' => Awaited(t, "positionAbort")
          /\ Awaited(t, "positionPrepare")' => Awaited(t, "positionPrepare")
      BY <1>2, <3>2, <3>4 DEF Awaited
    <3>6. Tokens(t)'
      BY <1>1, <1>3, <2>1, <3>1, <3>2, <3>3, <3>4 DEF Tokens, Once, ToCome
    <3>7. /\ PrepareDue(t)' => PrepareDue(t)
          /\ ~AbortDue(t)'
      BY <1>1, <1>3, <3>3, <3>5 DEF PrepareDue, AbortDue, ToCome, Owed
    <3>8. Owed(t)'
      BY <1>1, <1>2, <2>1, <3>3, <3>7 DEF Owed, moves
    <3> QED
      BY <2>2, <3>6, <3>8
  <2>5. CASE e # [transfer |-> t, state |-> "RESERVED_TIMEOUT"]
    <3>1. \A k : Msg(t, k) \in pending' => Msg(t, k) \in pending
      <4>1. e = [transfer |-> e.transfer, state |-> e.state]
        BY DEF TypeOK
      <4>2. e.state = "RESERVED_TIMEOUT" => e.transfer # t
        BY <2>5, <4>1
      <4> QED
        BY <1>6, <4>2 DEF ProduceTimeout, Msg
    <3>2. \A k : Awaited(t, k)' => Awaited(t, k)
      BY <1>2, <3>1 DEF Awaited
    <3>3. Timing(t)' => Timing(t)
      BY <2>1, <2>3 DEF Timing
    <3> QED
      BY <1>1, <1>2, <1>3, <2>1, <2>2, <2>3, <3>1, <3>2, <3>3, RefundLess DEF moves
  <2> QED
    BY <2>4, <2>5
<1> QED
  BY <1>4, <1>5, <1>6 DEF TimeoutNext

LEMMA RefundNext ==
  ASSUME MaxCrashes = 0, TypeOK, FundInv, OriginInv, ErrorInv, RefundInv, [Next]_vars
  PROVE  RefundInv'
<1>1. ASSUME UNCHANGED vars \/ \E u \in Transfer : Expire(u)
      PROVE  RefundInv'
  <2>1. UNCHANGED <<state, moves, transferError, pending, job, cron>>
    BY <1>1 DEF vars, Expire, database
  <2> SUFFICES ASSUME NEW t \in Transfer PROVE Tokens(t)' /\ Owed(t)' /\ Ended(t)'
    BY DEF RefundInv
  <2>2. Tokens(t) /\ Owed(t) /\ Ended(t)
    BY DEF RefundInv
  <2>3. /\ \A k : Awaited(t, k)' <=> Awaited(t, k)
        /\ \A k : \A n \in Message : Sends(n, t, k)' <=> Sends(n, t, k)
        /\ Timing(t)' <=> Timing(t)
        /\ OnList(t)' <=> OnList(t)
    BY <2>1 DEF Awaited, Sends, Timing, OnList, cron
  <2>4. Ended(t)'
    BY <2>1, <2>2 DEF Ended, moves
  <2> QED
    BY <2>1, <2>2, <2>3, <2>4, RefundLess DEF moves, cron
<1> QED
  BY <1>1, NoCrash, RefundQuiet, RefundSavePrepared, RefundSaveError, RefundMove, RefundProceed,
     RefundTimeout
  DEF Next, PrepareNext, FulfilNext, PositionNext

LEMMA RefundAlways ==
  ASSUME MaxCrashes = 0
  PROVE  Spec => [](TypeOK /\ FundInv /\ RefundInv)
<1>1. TypeOK /\ FundInv /\ OriginInv /\ ErrorInv /\ RefundInv /\ [Next]_vars => RefundInv'
  BY RefundNext
<1> QED
  BY <1>1, FundInit, FundNext, OriginInit, OriginNext, ErrorInit, ErrorNext, RefundInit,
     TypeCorrect, PTL DEF Spec

(* Whatever the order of a failing answer, a timeout, and the messages they *)
(* give rise to, a payer gets its funds back at most once, as long as no    *)
(* process dies (the position handler's abort and timeout, which trust the  *)
(* message).                                                                *)
THEOREM RefundedOnce ==
  ASSUME MaxCrashes = 0
  PROVE  Spec => []RefundedAtMostOnce
<1>1. RefundInv => RefundedAtMostOnce
  BY DEF RefundInv, Owed, RefundedAtMostOnce
<1> QED
  BY <1>1, RefundAlways, PTL

(* A transfer that has come to its end holds nobody's funds, as long as no  *)
(* process dies: what was debited went to the payee or came back (every     *)
(* handler that writes a final state).                                      *)
THEOREM NothingIsHeld ==
  ASSUME MaxCrashes = 0
  PROVE  Spec => []NothingHeldAtTheEnd
<1>1. ASSUME TypeOK, FundInv, RefundInv, NEW t \in Transfer, state[t] \in Final
      PROVE  debited[t] <= credited[t] + refunded[t]
  <2>1. debited[t] \in Nat /\ credited[t] \in Nat /\ refunded[t] \in Nat /\ debited[t] <= 1
    BY <1>1 DEF TypeOK, FundInv, CreditIsFunded
  <2>2. Ended(t)
    BY <1>1 DEF RefundInv
  <2>3. debited[t] = 0 \/ credited[t] = 1 \/ refunded[t] = 1
    BY <1>1, <2>2 DEF Ended, Final, Aborted
  <2> QED
    BY <2>1, <2>3
<1>2. TypeOK /\ FundInv /\ RefundInv => NothingHeldAtTheEnd
  BY <1>1 DEF NothingHeldAtTheEnd
<1> QED
  BY <1>2, RefundAlways, PTL

(***************************************************************************)
(* TransferLifecycle implements TransferLedger while its handlers do not   *)
(* disturb one another: no process dies, no transfer expires, no proxy     *)
(* forwards it, and only its parties answer it.  Each movement is then     *)
(* asked for in one state of the transfer, and the transfer stays in that  *)
(* state until the movement is made.                                       *)
(***************************************************************************)
Undisturbed ==
  /\ MaxCrashes = 0
  /\ Expirable = {}
  /\ ClientKind \intersect (Misrouted \union {"forwarded"}) = {}

Movers == {"positionPrepare", "positionCommit", "positionAbort"}

AskedIn(kind) ==
  IF kind = "positionPrepare" THEN "RECEIVED_PREPARE"
  ELSE IF kind = "positionCommit" THEN "RECEIVED_FULFIL"
  ELSE "RECEIVED_ERROR"

Asked(t, kind) == Awaited(t, kind) \/ ToCome(t, kind)

Along(t) ==
  /\ state[t] \notin {"RESERVED_FORWARDED", "RESERVED_TIMEOUT", "EXPIRED_PREPARED", "EXPIRED_RESERVED"}
  /\ \A k \in Movers : Asked(t, k) => state[t] = AskedIn(k)
  /\ Once(t, "positionCommit")
  /\ Msg(t, "positionCommit") \in pending \/ ToCome(t, "positionCommit") => t \in fulfilment
  /\ state[t] \in {"RECEIVED_ERROR", "ABORTED_ERROR"} => t \in transferError
  /\ state[t] \in {"RECEIVED_FULFIL", "COMMITTED"} => fulfilHash[t] # "none"

Judging(m) ==
  At(m, FulfilKind, "save") =>
    \/ state[m.transfer] = "RESERVED"
    \/ m.kind \notin {"commit", "reserve"} /\ m.transfer \in transferError

OneAnswer(m, n) ==
  /\ m.transfer = n.transfer /\ {m.kind, n.kind} \subseteq FulfilKind
  /\ job[m].pc # "idle" /\ job[n].pc # "idle"
  => m = n

LedgerInv ==
  /\ expired = {} /\ timedOut = {} /\ timeoutList = {}
  /\ \A m \in pending : m.kind \notin {"forwarded", "positionTimeout"}
  /\ \A t \in Transfer : Along(t)
  /\ \A m \in Message : Judging(m)
  /\ \A m, n \in Message : OneAnswer(m, n)

AllInv == TypeOK /\ FundInv /\ OriginInv /\ ErrorInv /\ AnswerInv /\ RefundInv

LEMMA LedgerInvInit == Init => LedgerInv
BY DEF Init, StoreInit, LedgerInv, Along, Judging, OneAnswer, Asked, Awaited, ToCome, Sends, Once,
   At, Idle

LEMMA AskedOnce ==
  ASSUME RefundInv, LedgerInv, NEW t \in Transfer, NEW k \in Movers
  PROVE  Once(t, k)
BY DEF RefundInv, Tokens, LedgerInv, Along, Movers

(* A step that asks for nothing new about a transfer.                       *)
LEMMA AlongLess ==
  ASSUME NEW t \in Transfer, Along(t),
         \A k \in Movers : Asked(t, k)' => Asked(t, k) /\ state'[t] = state[t],
         Msg(t, "positionCommit") \in pending' => Msg(t, "positionCommit") \in pending,
         \A m \in Message : Sends(m, t, "positionCommit")' => Sends(m, t, "positionCommit"),
         t \in fulfilment => t \in fulfilment',
         state'[t] \notin {"RESERVED_FORWARDED", "RESERVED_TIMEOUT", "EXPIRED_PREPARED",
                           "EXPIRED_RESERVED"},
         state'[t] \in {"RECEIVED_ERROR", "ABORTED_ERROR"} => t \in transferError',
         state'[t] \in {"RECEIVED_FULFIL", "COMMITTED"} => fulfilHash'[t] # "none"
  PROVE  Along(t)'
<1>1. Once(t, "positionCommit")'
  BY DEF Along, Once
<1>2. ToCome(t, "positionCommit")' => ToCome(t, "positionCommit")
  BY DEF ToCome
<1> QED
  BY <1>1, <1>2 DEF Along

(* A handler's step with m leaves every other transfer as it is.            *)
LEMMA AlongElsewhere ==
  ASSUME TypeOK, LedgerInv, [Next]_vars, NEW m \in Message, NEW t \in Transfer, t # m.transfer,
         \A n \in Message \ {m} : job'[n] = job[n],
         \A p \in pending' : p \in pending \/ p.transfer = m.transfer,
         state'[t] = state[t]
  PROVE  Along(t)'
<1>1. Along(t)
  BY DEF LedgerInv
<1>2. ASSUME NEW k \in Movers
      PROVE  /\ Msg(t, k) \in Message \ {m}
             /\ Msg(t, k) \in pending' => Msg(t, k) \in pending
  BY <1>2 DEF Msg, Message, Kind, PositionKind, Movers
<1>3. \A k \in Movers : Awaited(t, k)' => Awaited(t, k)
  BY <1>2 DEF Awaited
<1>4. \A k : \A n \in Message : Sends(n, t, k)' => Sends(n, t, k)
  BY DEF Sends
<1>5. \A k \in Movers : Asked(t, k)' => Asked(t, k)
  BY <1>3, <1>4 DEF Asked, ToCome
<1>6. Msg(t, "positionCommit") \in pending' => Msg(t, "positionCommit") \in pending
  BY <1>2 DEF Movers
<1>7. /\ state[t] \in {"RECEIVED_ERROR", "ABORTED_ERROR"} => t \in transferError'
      /\ state[t] \in {"RECEIVED_FULFIL", "COMMITTED"} => fulfilHash'[t] # "none"
      /\ t \in fulfilment => t \in fulfilment'
  BY <1>1, RowsStay DEF Along
<1> QED
  BY <1>1, <1>4, <1>5, <1>6, <1>7, AlongLess DEF Along

(* The steps of a handler that the refinement is about.                     *)
HandlerStep(m) ==
  \/ LogTransferError(m) \/ Proceed(m) \/ Request(m)
  \/ CheckPrepare(m) \/ SavePrepared(m)
  \/ CheckFulfil(m) \/ SaveFulfilment(m) \/ SaveError(m)
  \/ ReadState(m) \/ ReservePosition(m) \/ CommitPosition(m) \/ AbortPosition(m)

LEMMA OnlyHandlers ==
  ASSUME Undisturbed, TypeOK, OriginInv, LedgerInv, Next
  PROVE  \E m \in Message : HandlerStep(m)
<1>1. ~TimeoutNext /\ ~CrashTimeout
  BY NoCrash DEF Undisturbed, LedgerInv, TimeoutNext, ExpireDue, Due, ListTimedOut
<1>2. ASSUME NEW t \in Transfer PROVE ~Expire(t)
  BY DEF Undisturbed, Expire
<1>3. ASSUME NEW m \in Message
      PROVE  ~Crash(m) /\ ~ReadForwarded(m) /\ ~SaveForwarded(m) /\ ~TimeoutPosition(m)
  BY NoCrash DEF Undisturbed, ReadForwarded, SaveForwarded, TimeoutPosition, Consume, At,
     LedgerInv, OriginInv, JobWarranted
<1> QED
  BY <1>1, <1>2, <1>3 DEF Next, PrepareNext, FulfilNext, PositionNext, HandlerStep

(* A handler's step keeps LedgerInv, if it does so for its own transfer.    *)
LEMMA LedgerStep ==
  ASSUME Undisturbed, TypeOK, OriginInv, LedgerInv, [Next]_vars, NEW m \in Message,
         HandlerStep(m),
         "positionTimeout" \notin job[m].send,
         Along(m.transfer)',
         \A n \in Message : n.transfer = m.transfer => Judging(n)'
  PROVE  LedgerInv'
<1>1. m.transfer \in Transfer
  BY DEF Message
<1>2. \A n \in Message \ {m} : job'[n] = job[n]
  BY GotoOnly, AbandonOnly
  DEF HandlerStep, LogTransferError, Proceed, Request, CheckPrepare, SavePrepared, CheckFulfil,
      SaveFulfilment, SaveError, ReadState, ReservePosition, CommitPosition, AbortPosition
<1>3. \A p \in pending' : p \in pending \/ p.transfer = m.transfer
  BY DEF HandlerStep, LogTransferError, Proceed, Request, CheckPrepare, SavePrepared, CheckFulfil,
      SaveFulfilment, SaveError, ReadState, ReservePosition, CommitPosition, AbortPosition,
      Abandon, Sent
<1>4. UNCHANGED <<cron, expired>>
  BY DEF HandlerStep, LogTransferError, Proceed, Request, CheckPrepare, SavePrepared, CheckFulfil,
      SaveFulfilment, SaveError, ReadState, ReservePosition, CommitPosition, AbortPosition, clients
<1>5. \A t \in Transfer \ {m.transfer} : state'[t] = state[t]
  BY DEF HandlerStep, LogTransferError, Proceed, Request, CheckPrepare, SavePrepared, CheckFulfil,
      SaveFulfilment, SaveError, ReadState, ReservePosition, CommitPosition, AbortPosition,
      ChangeState, TypeOK, database
<1>6. \A t \in Transfer : Along(t)'
  BY <1>2, <1>3, <1>5, AlongElsewhere
<1>7. ASSUME NEW n \in Message, n.transfer # m.transfer PROVE Judging(n)'
  <2>1. n.transfer \in Transfer /\ job'[n] = job[n] /\ state'[n.transfer] = state[n.transfer]
    BY <1>2, <1>5, <1>7 DEF Message
  <2> QED
    BY <2>1, RowsStay DEF LedgerInv, Judging, At
<1>8. ASSUME NEW p \in pending' PROVE p.kind \notin {"forwarded", "positionTimeout"}
  <2>1. CASE p \in pending
    BY <2>1 DEF LedgerInv
  <2>2. CASE p \notin pending
    <3>1. p.kind \in ClientKind \/ p.kind \in job[m].send
      BY <2>2 DEF HandlerStep, LogTransferError, Proceed, Request, CheckPrepare, SavePrepared,
         CheckFulfil, SaveFulfilment, SaveError, ReadState, ReservePosition, CommitPosition,
         AbortPosition, Abandon, Sent
    <3>2. ClientKind \intersect {"forwarded", "positionTimeout"} = {}
      BY EnvironmentAssumption DEF Undisturbed, PrepareKind, FulfilKind, ReserveKind
    <3>3. "forwarded" \notin job[m].send
      BY DEF TypeOK, Job, PositionKind
    <3> QED
      BY <3>1, <3>2, <3>3
  <2> QED
    BY <2>1, <2>2
<1>9. ASSUME NEW n \in Message, NEW o \in Message PROVE OneAnswer(n, o)'
  <2>1. \A q \in Message \ {m} : job'[q].pc # "idle" => job[q].pc # "idle"
    BY <1>2
  <2>2. CASE CheckFulfil(m)
    <3>1. m.kind \in FulfilKind /\ \A q \in Message : SameConsumer(m, q) => job[q].pc = "idle"
      BY <2>2 DEF CheckFulfil, Consume
    <3>2. ASSUME NEW q \in Message \ {m}, q.transfer = m.transfer, q.kind \in FulfilKind
          PROVE  job'[q].pc = "idle"
      BY <1>2, <3>1, <3>2 DEF SameConsumer
    <3> QED
      BY <2>1, <3>2 DEF LedgerInv, OneAnswer
  <2>3. CASE ~CheckFulfil(m)
    <3>1. m.kind \in FulfilKind /\ job'[m].pc # "idle" => job[m].pc # "idle"
      BY <2>3, GotoOnly DEF HandlerStep, LogTransferError, Proceed, Request, CheckPrepare,
         SavePrepared, SaveFulfilment, SaveError, ReadState, ReservePosition, CommitPosition,
         AbortPosition, Consume, At, Idle, Prepares, PrepareKind, FulfilKind, ReserveKind, PositionKind
    <3> QED
      BY <2>1, <3>1 DEF LedgerInv, OneAnswer
  <2> QED
    BY <2>2, <2>3
<1> QED
  BY <1>4, <1>6, <1>7, <1>8, <1>9 DEF LedgerInv, cron

(* Steps that ask for nothing and write no state.                           *)
LEMMA LedgerQuiet ==
  ASSUME Undisturbed, AllInv, LedgerInv, [Next]_vars, NEW m \in Message, HandlerStep(m),
         UNCHANGED state, ~Proceed(m)
  PROVE  LedgerInv'
<1> DEFINE t == m.transfer
<1>1. t \in Transfer /\ Along(t)
  BY DEF Message, LedgerInv
<1>2. TypeOK /\ OriginInv /\ StateAndMoves(t) /\ Ended(t)
  BY <1>1 DEF AllInv, FundInv, RefundInv
<1>3. \A n \in Message \ {m} : job'[n] = job[n]
  BY <1>2, GotoOnly, AbandonOnly
  DEF HandlerStep, LogTransferError, Request, CheckPrepare, SavePrepared, CheckFulfil,
      SaveFulfilment, SaveError, ReadState, ReservePosition, CommitPosition, AbortPosition
<1>4. job'[m] = job[m] \/ job'[m].send = {}
  <2>1. SavePrepared(m) => job'[m].send = {}
    BY <1>1, <1>2, GotoOnly DEF SavePrepared, ChangeState, Step, Answer, TypeOK
  <2>2. SaveFulfilment(m) => job'[m].send = {} \/ t \notin fulfilment
    BY <1>2, GotoOnly DEF SaveFulfilment, Abandon, Idle
  <2>3. SaveError(m) => job'[m].send = {} \/ t \notin transferError
    BY <1>2, GotoOnly DEF SaveError, ErrorConflict, Abandon, Idle
  <2>4. SaveFulfilment(m) => t \in fulfilment
    <3>1. SaveFulfilment(m) /\ t \notin fulfilment => state'[t] = "RECEIVED_FULFIL"
      BY <1>1, <1>2 DEF SaveFulfilment, ChangeState, TypeOK
    <3> QED
      BY <1>2, <3>1 DEF StateAndMoves
  <2>5. SaveError(m) => t \in transferError
    <3>1. SaveError(m) /\ t \notin transferError => state'[t] = "RECEIVED_ERROR"
      BY <1>1, <1>2 DEF SaveError, ErrorConflict, ChangeState, TypeOK
    <3> QED
      BY <1>1, <3>1 DEF Along
  <2> QED
    BY <1>2, <2>1, <2>2, <2>3, <2>4, <2>5, GotoOnly
    DEF HandlerStep, LogTransferError, Request, CheckPrepare, CheckFulfil, ReadState,
        ReservePosition, CommitPosition, AbortPosition, Abandon, Idle, Step, Answer
<1>5. \A k : \A n \in Message : Sends(n, t, k)' => Sends(n, t, k)
  BY <1>3, <1>4 DEF Sends
<1>6. ASSUME NEW k \in Movers
      PROVE  /\ Msg(t, k) \in pending' => Msg(t, k) \in pending
             /\ Awaited(t, k)' => Awaited(t, k)
  <2>1. Msg(t, k) \in Message /\ Msg(t, k).kind = k
    BY <1>1 DEF Msg, Message, Kind, PositionKind, Movers
  <2>2. pending' \subseteq pending \union {m} /\ (pending' \subseteq pending \/ m.kind \in ClientKind)
    BY DEF HandlerStep, LogTransferError, Request, CheckPrepare, SavePrepared, CheckFulfil,
       SaveFulfilment, SaveError, ReadState, ReservePosition, CommitPosition, AbortPosition, Abandon
  <2>3. k \notin ClientKind
    BY EnvironmentAssumption DEF PrepareKind, FulfilKind, ReserveKind, Movers
  <2>4. Msg(t, k) \in pending' => Msg(t, k) \in pending
    BY <2>1, <2>2, <2>3
  <2>5. Awaited(t, k)' => Awaited(t, k)
    <3>1. CASE Msg(t, k) # m
      BY <1>3, <2>1, <2>4, <3>1 DEF Awaited
    <3>2. CASE Msg(t, k) = m /\ ~LogTransferError(m)
      <4>1. m.kind \in Movers
        BY <2>1, <3>2
      <4>2. job[m].pc \in {"idle", "write"}
        BY <3>2, <4>1, EnvironmentAssumption
        DEF HandlerStep, Request, CheckPrepare, SavePrepared, CheckFulfil, SaveFulfilment,
            SaveError, ReadState, ReservePosition, CommitPosition, AbortPosition, Consume, At,
            SameConsumer, Movers, Prepares, PrepareKind, FulfilKind, ReserveKind, PositionKind
      <4> QED
        BY <2>4, <3>2, <4>2 DEF Awaited
    <3>3. CASE Msg(t, k) = m /\ LogTransferError(m)
      <4>1. m \notin pending' \/ job'[m].pc = "proceed"
        BY <1>2, <3>3, GotoOnly, NoCrash DEF LogTransferError, Answer, Undisturbed
      <4> QED
        BY <3>3, <4>1 DEF Awaited
    <3> QED
      BY <3>1, <3>2, <3>3
  <2> QED
    BY <2>4, <2>5
<1>7. \A k \in Movers : Asked(t, k)' => Asked(t, k)
  BY <1>5, <1>6 DEF Asked, ToCome
<1>8. Along(t)'
  <2>1. /\ state[t] \in {"RECEIVED_ERROR", "ABORTED_ERROR"} => t \in transferError'
        /\ state[t] \in {"RECEIVED_FULFIL", "COMMITTED"} => fulfilHash'[t] # "none"
        /\ t \in fulfilment => t \in fulfilment'
    BY <1>1, <1>2, RowsStay DEF Along
  <2>2. state[t] \notin {"RESERVED_FORWARDED", "RESERVED_TIMEOUT", "EXPIRED_PREPARED", "EXPIRED_RESERVED"}
    BY <1>1 DEF Along
  <2>3. Msg(t, "positionCommit") \in pending' => Msg(t, "positionCommit") \in pending
    BY <1>6 DEF Movers
  <2> QED
    BY <1>1, <1>5, <1>7, <2>1, <2>2, <2>3, AlongLess
<1>9. ASSUME NEW n \in Message, n.transfer = t PROVE Judging(n)'
  <2>1. t \in transferError => t \in transferError'
    BY <1>1, <1>2, RowsStay
  <2>2. CASE job'[n] = job[n]
    BY <1>9, <2>1, <2>2 DEF LedgerInv, Judging, At
  <2>3. CASE n = m /\ ~CheckFulfil(m) /\ job'[m] # job[m]
    <3>1. SaveError(m) => job'[m].pc # "save"
      BY <1>2, GotoOnly DEF SaveError, Abandon, Idle, Answer
    <3>2. job'[m].pc # "save" \/ m.kind \notin FulfilKind
      BY <1>2, <2>3, <3>1, WhoAnswers
    <3> QED
      BY <2>3, <3>2 DEF Judging, At
  <2>4. CASE n = m /\ CheckFulfil(m)
    <3>1. m \in pending /\ m.kind \in FulfilKind \ Misrouted
      BY <2>4 DEF CheckFulfil, Consume, AllInv, AnswerInv
    <3>2. CASE job'[m].pc # "save"
      BY <2>4, <3>2 DEF Judging, At
    <3>3. CASE Answerable(t)
      <4>1. state[t] = "RESERVED"
        BY <1>1, <3>3 DEF Answerable, Along
      <4> QED
        BY <1>9, <4>1 DEF Judging
    <3>4. CASE job'[m].pc = "save" /\ ~Answerable(t)
      <4>1. m.kind \in BadFulfilment /\ HashOf(m) = "none"
        BY <1>2, <2>4, <3>1, <3>4, GotoOnly DEF CheckFulfil, Abandon, Idle, Answer
      <4>2. fulfilHash[t] = "none" /\ m.kind \notin {"commit", "reserve"}
        BY <4>1 DEF HashOf, BadFulfilment
      <4>3. debited[t] = 1
        BY <1>2, <3>1 DEF OriginInv, Warranted, Answers
      <4>4. state[t] = "RESERVED" \/ t \in transferError
        BY <1>1, <1>2, <4>2, <4>3 DEF Along, StateAndMoves, Ended, TypeOK, State
      <4> QED
        BY <1>9, <2>1, <2>4, <4>2, <4>4 DEF Judging
    <3> QED
      BY <3>2, <3>3, <3>4
  <2> QED
    BY <1>3, <2>2, <2>3, <2>4
<1>10. "positionTimeout" \notin job[m].send
  BY <1>1 DEF AllInv, RefundInv, Tokens, ToCome, Sends
<1> QED
  BY <1>2, <1>8, <1>9, <1>10, LedgerStep

(* Steps that ask for a movement, in a state where none is asked for.       *)
LEMMA LedgerAsk ==
  ASSUME Undisturbed, AllInv, LedgerInv, [Next]_vars, NEW m \in Message,
         SavePrepared(m) \/ SaveFulfilment(m) \/ SaveError(m), ~UNCHANGED state
  PROVE  /\ LedgerInv'
         /\ \/ state[m.transfer] = "none" /\ state' = [state EXCEPT ![m.transfer] = "RECEIVED_PREPARE"]
            \/ state[m.transfer] = "none" /\ state' = [state EXCEPT ![m.transfer] = "INVALID"]
            \/ /\ state[m.transfer] = "RESERVED"
               /\ \/ state' = [state EXCEPT ![m.transfer] = "RECEIVED_FULFIL"]
                  \/ state' = [state EXCEPT ![m.transfer] = "RECEIVED_ERROR"]
<1> DEFINE t == m.transfer
<1>1. t \in Transfer /\ Along(t) /\ TypeOK /\ OriginInv /\ StateAndMoves(t)
  BY DEF Message, LedgerInv, AllInv, FundInv
<1>2. \A n \in Message \ {m} : job'[n] = job[n]
  BY <1>1, GotoOnly, AbandonOnly DEF SavePrepared, SaveFulfilment, SaveError
<1>3. \/ /\ SavePrepared(m) /\ state[t] = "none" /\ ChangeState(t, "INVALID") /\ job'[m].send = {}
      \/ /\ SavePrepared(m) /\ state[t] = "none" /\ ChangeState(t, "RECEIVED_PREPARE")
         /\ job'[m].send = {"positionPrepare"}
      \/ /\ SaveFulfilment(m) /\ t \notin fulfilment /\ ChangeState(t, "RECEIVED_FULFIL")
         /\ t \in fulfilment' /\ job'[m].send = {"positionCommit"}
      \/ /\ SaveError(m) /\ t \notin transferError /\ ChangeState(t, "RECEIVED_ERROR")
         /\ t \in transferError' /\ job'[m].send = {"positionAbort"}
  BY <1>1, GotoOnly DEF SavePrepared, SaveFulfilment, SaveError, ErrorConflict, Step, Answer
<1>4. job'[m].pc # "save" /\ UNCHANGED pending /\ m.kind \notin Movers
  BY <1>1, <1>3, GotoOnly
  DEF SavePrepared, SaveFulfilment, SaveError, At, Step, Answer, Prepares, PrepareKind,
      FulfilKind, ReserveKind, Movers, ErrorConflict
<1>5. SaveFulfilment(m) \/ SaveError(m) =>
        m.kind \in FulfilKind /\ job[m].pc = "save" /\ ~SavePrepared(m)
  BY DEF SaveFulfilment, SaveError, SavePrepared, At, Prepares, PrepareKind, FulfilKind, ReserveKind
<1>6. \/ state[t] = "none" /\ SavePrepared(m)
      \/ state[t] = "RESERVED" /\ ~SavePrepared(m)
  <2>1. SaveFulfilment(m) => state[t] = "RESERVED"
    BY <1>5 DEF LedgerInv, Judging, At, SaveFulfilment
  <2>2. SaveError(m) /\ t \notin transferError => state[t] = "RESERVED"
    BY <1>5 DEF LedgerInv, Judging, At
  <2> QED
    BY <1>3, <1>5, <2>1, <2>2
<1>7. \A k \in Movers : ~Asked(t, k)
  BY <1>1, <1>6 DEF Along, AskedIn
<1>8. ASSUME NEW k \in Movers
      PROVE  /\ ~Awaited(t, k)'
             /\ \A n \in Message : Sends(n, t, k)' => n = m /\ k \in job'[m].send
  <2>1. Msg(t, k) \in Message /\ Msg(t, k) # m
    BY <1>1, <1>4 DEF Msg, Message, Kind, PositionKind, Movers
  <2> QED
    BY <1>2, <1>4, <1>7, <2>1 DEF Asked, Awaited, ToCome, Sends
<1>9. ASSUME NEW k \in Movers, Asked(t, k)' PROVE state'[t] = AskedIn(k)
  BY <1>1, <1>3, <1>8, <1>9 DEF Asked, ToCome, ChangeState, AskedIn, TypeOK
<1>10. Once(t, "positionCommit")' /\ (Msg(t, "positionCommit") \in pending' \/ ToCome(t, "positionCommit")' => t \in fulfilment')
  <2>1. CASE SaveFulfilment(m) /\ t \notin fulfilment
    <3>1. Msg(t, "positionCommit") \notin pending
      BY <1>1, <2>1 DEF Along
    <3>2. t \in fulfilment'
      BY <2>1 DEF SaveFulfilment
    <3> QED
      BY <1>4, <1>8, <3>1, <3>2 DEF Once, Movers
  <2>2. CASE ~(SaveFulfilment(m) /\ t \notin fulfilment)
    <3>1. ~ToCome(t, "positionCommit")'
      BY <1>3, <1>8, <2>2 DEF ToCome, Movers
    <3>2. t \in fulfilment => t \in fulfilment'
      BY <1>1, RowsStay
    <3> QED
      BY <1>1, <1>4, <3>1, <3>2 DEF Once, ToCome, Along
  <2> QED
    BY <2>1, <2>2
<1>11. Along(t)'
  <2>1. state'[t] = "RECEIVED_FULFIL" => fulfilHash'[t] # "none"
    <3>1. SaveFulfilment(m) => fulfilHash[t] = m.kind /\ m.kind # "none"
      BY DEF AllInv, AnswerInv, SaveFulfilment, At, FulfilKind, ReserveKind
    <3>2. state'[t] = "RECEIVED_FULFIL" => SaveFulfilment(m)
      BY <1>1, <1>3 DEF ChangeState, TypeOK
    <3> QED
      BY <1>1, <3>1, <3>2, RowsStay
  <2> QED
    BY <1>1, <1>3, <1>9, <1>10, <2>1 DEF Along, ChangeState, TypeOK
<1>12. ASSUME NEW n \in Message, n.transfer = t PROVE Judging(n)'
  <2>1. CASE n = m
    BY <1>4, <2>1 DEF Judging, At
  <2>2. CASE n # m /\ SavePrepared(m)
    <3>1. job'[n] = job[n] /\ state[t] # "RESERVED" /\ (t \in transferError => t \in transferError')
      BY <1>1, <1>2, <1>6, <2>2, RowsStay
    <3> QED
      BY <1>12, <3>1 DEF LedgerInv, Judging, At
  <2>3. CASE n # m /\ ~SavePrepared(m)
    <3>1. n.kind \in FulfilKind => job[n].pc = "idle"
      BY <1>5, <1>12, <2>3 DEF LedgerInv, OneAnswer
    <3> QED
      BY <1>2, <2>3, <3>1 DEF Judging, At
  <2> QED
    BY <2>1, <2>2, <2>3
<1>13. "positionTimeout" \notin job[m].send
  BY <1>1 DEF AllInv, RefundInv, Tokens, ToCome, Sends
<1>14. LedgerInv'
  BY <1>1, <1>11, <1>12, <1>13, LedgerStep DEF HandlerStep
<1>15. \/ state[t] = "none" /\ (ChangeState(t, "RECEIVED_PREPARE") \/ ChangeState(t, "INVALID"))
       \/ state[t] = "RESERVED" /\ (ChangeState(t, "RECEIVED_FULFIL") \/ ChangeState(t, "RECEIVED_ERROR"))
  BY <1>3, <1>5, <1>6
<1> QED
  BY <1>14, <1>15 DEF ChangeState

(* Steps that make a movement, in the state in which it was asked for.      *)
LEMMA LedgerMove ==
  ASSUME Undisturbed, AllInv, LedgerInv, [Next]_vars, NEW m \in Message,
         ReservePosition(m) \/ (CommitPosition(m) /\ FulfilReceived(m)) \/ AbortPosition(m)
  PROVE  LedgerInv' /\ state[m.transfer] = AskedIn(m.kind)
<1> DEFINE t == m.transfer
<1>1. t \in Transfer /\ Along(t) /\ TypeOK /\ OriginInv /\ RefundInv
  BY DEF Message, LedgerInv, AllInv
<1>2. \A n \in Message \ {m} : job'[n] = job[n]
  BY <1>1, GotoOnly DEF ReservePosition, CommitPosition, AbortPosition
<1>3. /\ job'[m].send = {} /\ job'[m].pc \in {"proceed", "log"} /\ UNCHANGED <<pending, fulfilHash>>
      /\ UNCHANGED <<fulfilment, transferError>>
  BY <1>1, GotoOnly DEF ReservePosition, CommitPosition, AbortPosition, Step, Answer
<1>4. m.kind \in Movers /\ m = Msg(t, m.kind) /\ job[m].pc = "write" /\ m \in pending
  BY <1>1 DEF ReservePosition, CommitPosition, AbortPosition, At, Movers, Msg, Message, OriginInv,
     JobWarranted
<1>5. Awaited(t, m.kind) /\ Asked(t, m.kind)
  BY <1>4 DEF Awaited, Asked
<1>6. state[t] = AskedIn(m.kind)
  BY <1>1, <1>4, <1>5 DEF Along
<1>7. \A k \in Movers \ {m.kind} : ~Asked(t, k)
  BY <1>1, <1>4, <1>6 DEF Along, AskedIn, Movers
<1>8. Once(t, m.kind)
  BY <1>1, <1>4, AskedOnce
<1>9. ASSUME NEW k \in Movers PROVE ~Asked(t, k)'
  <2>1. \A n \in Message : Sends(n, t, k)' => Sends(n, t, k)
    BY <1>2, <1>3 DEF Sends
  <2>2. ~ToCome(t, k)
    BY <1>4, <1>7, <1>8 DEF Once, ToCome, Asked
  <2>3. ~Awaited(t, k)'
    <3>1. CASE k = m.kind
      BY <1>3, <1>4, <3>1 DEF Awaited
    <3>2. CASE k # m.kind
      <4>1. Msg(t, k) \in Message /\ Msg(t, k) # m
        BY <1>1, <1>4, <3>2 DEF Msg, Message, Kind, PositionKind, Movers
      <4> QED
        BY <1>2, <1>3, <1>7, <3>2, <4>1 DEF Asked, Awaited
    <3> QED
      BY <3>1, <3>2
  <2> QED
    BY <2>1, <2>2, <2>3 DEF Asked, ToCome
<1>10. \/ CommitPosition(m) /\ state' = [state EXCEPT ![t] = "COMMITTED"]
       \/ AbortPosition(m) /\ state' = [state EXCEPT ![t] = "ABORTED_ERROR"]
       \/ ReservePosition(m) /\ state' = [state EXCEPT ![t] = "RESERVED"]
       \/ ReservePosition(m) /\ state' = [state EXCEPT ![t] = "ABORTED_REJECTED"]
  BY DEF ReservePosition, CommitPosition, AbortPosition, ChangeState
<1>11. Along(t)'
  <2>1. /\ CommitPosition(m) => m.kind = "positionCommit"
        /\ AbortPosition(m) => m.kind = "positionAbort"
    BY DEF CommitPosition, AbortPosition, At
  <2>2. state'[t] \in {"RECEIVED_ERROR", "ABORTED_ERROR"} => t \in transferError'
    BY <1>1, <1>3, <1>6, <1>10, <2>1 DEF Along, AskedIn, TypeOK
  <2>3. state'[t] \in {"RECEIVED_FULFIL", "COMMITTED"} => fulfilHash'[t] # "none"
    BY <1>1, <1>3, <1>6, <1>10, <2>1 DEF Along, AskedIn, TypeOK
  <2>4. state'[t] \notin {"RESERVED_FORWARDED", "RESERVED_TIMEOUT", "EXPIRED_PREPARED", "EXPIRED_RESERVED"}
    BY <1>1, <1>10 DEF TypeOK
  <2>5. \A n \in Message : Sends(n, t, "positionCommit")' => Sends(n, t, "positionCommit")
    BY <1>2, <1>3 DEF Sends
  <2> QED
    BY <1>1, <1>3, <1>9, <2>2, <2>3, <2>4, <2>5, AlongLess
<1>12. ASSUME NEW n \in Message, n.transfer = t PROVE Judging(n)'
  <2>1. CASE n = m
    BY <1>3, <2>1 DEF Judging, At
  <2>2. CASE n # m
    <3>1. job'[n] = job[n] /\ state[t] # "RESERVED" /\ UNCHANGED transferError
      BY <1>2, <1>3, <1>6, <2>2 DEF AskedIn
    <3> QED
      BY <1>12, <3>1 DEF LedgerInv, Judging, At
  <2> QED
    BY <2>1, <2>2
<1>13. "positionTimeout" \notin job[m].send
  BY <1>1 DEF RefundInv, Tokens, ToCome, Sends
<1> QED
  BY <1>1, <1>6, <1>11, <1>12, <1>13, LedgerStep DEF HandlerStep

LEMMA LedgerProceed ==
  ASSUME Undisturbed, AllInv, LedgerInv, [Next]_vars, NEW m \in Message, Proceed(m)
  PROVE  LedgerInv'
<1> DEFINE t == m.transfer
<1>1. t \in Transfer /\ Along(t) /\ TypeOK /\ OriginInv /\ RefundInv
  BY DEF Message, LedgerInv, AllInv
<1>2. job'[m] = Idle /\ \A n \in Message \ {m} : job'[n] = job[n]
  BY <1>1, GotoOnly DEF Proceed
<1>3. UNCHANGED database
  BY DEF Proceed
<1>4. ASSUME NEW k \in Movers, Msg(t, k) \in pending', ~(Msg(t, k) \in pending /\ Msg(t, k) # m)
      PROVE  Sends(m, t, k)
  BY <1>4 DEF Proceed, Sent, Sends, Msg
<1>5. \A k : \A n \in Message : Sends(n, t, k)' => Sends(n, t, k) /\ n # m
  BY <1>2 DEF Sends, Idle
<1>6. ASSUME NEW k \in Movers, Asked(t, k)' PROVE Asked(t, k)
  <2>1. Awaited(t, k)' => Awaited(t, k) \/ Sends(m, t, k)
    <3>1. Msg(t, k) \in Message
      BY <1>1 DEF Msg, Message, Kind, PositionKind, Movers
    <3> QED
      BY <1>2, <1>4, <3>1 DEF Awaited
  <2> QED
    BY <1>5, <1>6, <2>1 DEF Asked, ToCome
<1>7. Once(t, "positionCommit")'
  <2> SUFFICES ASSUME NEW n \in Message, Sends(n, t, "positionCommit")'
               PROVE  /\ Msg(t, "positionCommit") \notin pending'
                      /\ \A o \in Message : Sends(o, t, "positionCommit")' => n = o
    BY DEF Once
  <2>1. Sends(n, t, "positionCommit") /\ n # m
    BY <1>5
  <2>2. Msg(t, "positionCommit") \notin pending /\ ~Sends(m, t, "positionCommit")
    BY <1>1, <2>1 DEF Along, Once
  <2>3. Msg(t, "positionCommit") \notin pending'
    BY <1>4, <2>2 DEF Movers
  <2> QED
    BY <1>1, <1>5, <2>1, <2>3 DEF Along, Once
<1>8. Msg(t, "positionCommit") \in pending' \/ ToCome(t, "positionCommit")' => t \in fulfilment
  BY <1>1, <1>4, <1>5 DEF Along, ToCome, Movers
<1>9. Along(t)'
  BY <1>1, <1>3, <1>6, <1>7, <1>8 DEF Along, database
<1>10. \A n \in Message : n.transfer = t => Judging(n)'
  BY <1>2, <1>3 DEF LedgerInv, Judging, At, Idle, database
<1>11. "positionTimeout" \notin job[m].send
  BY <1>1 DEF RefundInv, Tokens, ToCome, Sends
<1> QED
  BY <1>1, <1>9, <1>10, <1>11, LedgerStep DEF HandlerStep

LEMMA LedgerInvNext ==
  ASSUME Undisturbed, AllInv, LedgerInv, [Next]_vars
  PROVE  LedgerInv'
<1>1. CASE UNCHANGED vars
  <2>1. UNCHANGED <<state, fulfilment, transferError, fulfilHash, pending, job, cron, expired>>
    BY <1>1 DEF vars, database, clients
  <2> QED
    BY <2>1 DEF LedgerInv, Along, Judging, OneAnswer, Asked, Awaited, ToCome, Sends, Once, At, cron
<1>2. CASE Next
  <2>1. PICK m \in Message : HandlerStep(m)
    BY <1>2, OnlyHandlers DEF AllInv
  <2> QED
    BY <2>1, LedgerQuiet, LedgerAsk, LedgerMove, LedgerProceed
    DEF HandlerStep, CommitPosition, LogTransferError, Request, CheckPrepare, CheckFulfil, ReadState, database
<1> QED
  BY <1>1, <1>2

(* The outcome a state stands for (the refinement mapping, point by point). *)
Means(s) ==
  CASE s \in {"none", "RECEIVED_PREPARE"}  -> "open"
    [] s \in {"ABORTED_REJECTED", "INVALID", "EXPIRED_PREPARED"} -> "refused"
    [] s = "COMMITTED"                     -> "settled"
    [] s \in {"ABORTED_ERROR", "EXPIRED_RESERVED"} -> "released"
    [] OTHER                               -> "reserved"

LEMMA OutcomeMeans == outcome = [t \in Transfer |-> Means(state[t])]
BY DEF outcome, Means

LEMMA OutcomeChange ==
  ASSUME TypeOK, NEW t \in Transfer, NEW s, state' = [state EXCEPT ![t] = s]
  PROVE  outcome' = [outcome EXCEPT ![t] = Means(s)]
<1>1. outcome' = [u \in Transfer |-> Means(state'[u])]
  BY DEF outcome, Means
<1>2. \A u \in Transfer : state'[u] = IF u = t THEN s ELSE state[u]
  BY DEF TypeOK
<1>3. outcome' = [u \in Transfer |-> IF u = t THEN Means(s) ELSE Means(state[u])]
  BY <1>1, <1>2
<1> QED
  BY <1>3, OutcomeMeans

LEMMA OutcomeSame ==
  ASSUME TypeOK, NEW t \in Transfer, NEW s, state' = [state EXCEPT ![t] = s],
         Means(state[t]) = Means(s)
  PROVE  UNCHANGED outcome
<1>1. outcome' = [outcome EXCEPT ![t] = Means(s)]
  BY OutcomeChange
<1>2. outcome[t] = Means(s)
  BY OutcomeMeans
<1>3. outcome = [u \in Transfer |-> outcome[u]]
  BY OutcomeMeans
<1> QED
  BY <1>1, <1>2, <1>3

LEMMA LedgerImplemented ==
  ASSUME Undisturbed, AllInv, LedgerInv, [Next]_vars
  PROVE  [Ledger!Next]_<<outcome, position>>
<1>1. TypeOK
  BY DEF AllInv
<1>2. CASE UNCHANGED <<state, position>>
  BY <1>2 DEF outcome
<1>3. CASE ~UNCHANGED <<state, position>>
  <2>1. PICK m \in Message : HandlerStep(m)
    BY <1>1, <1>3, OnlyHandlers DEF AllInv, vars, database
  <2> DEFINE t == m.transfer
  <2>2. t \in Transfer /\ Payer[t] \in Account /\ Payee[t] \in Account /\ Amount[t] \in Nat
    BY TransferAssumption DEF Message
  <2>3. CASE ReservePosition(m)
    <3>1. state[t] = "RECEIVED_PREPARE"
      BY <2>3, LedgerMove DEF AskedIn, ReservePosition, At
    <3>2. outcome[t] = "open"
      BY <2>2, <3>1, OutcomeMeans DEF Means
    <3>3. CASE CanReserve(t) /\ Debit(t) /\ ChangeState(t, "RESERVED")
      <4>1. outcome' = [outcome EXCEPT ![t] = "reserved"]
        <5>1. Means("RESERVED") = "reserved" /\ state' = [state EXCEPT ![t] = "RESERVED"]
          BY <3>3 DEF ChangeState, Means
        <5> QED
          BY <1>1, <2>2, <5>1, OutcomeChange
      <4>2. position[Payer[t]] \in Int
        BY <1>1, <2>2 DEF TypeOK
      <4>3. /\ position[Payer[t]] + Amount[t] <= LiquidityCover[Payer[t]]
            /\ position[Payer[t]] + Amount[t] <= NetDebitCap[Payer[t]]
        BY <2>2, <3>3, <4>2, LimitAssumption DEF CanReserve
      <4>4. position' = [position EXCEPT ![Payer[t]] = @ + Amount[t]]
        BY <3>3 DEF Debit, Move
      <4>5. Ledger!Reserve(t)
        BY <3>2, <4>1, <4>3, <4>4 DEF Ledger!Reserve, Ledger!Becomes
      <4> QED
        BY <2>2, <4>5 DEF Ledger!Next
    <3>4. CASE ChangeState(t, "ABORTED_REJECTED") /\ UNCHANGED position
      <4>1. outcome' = [outcome EXCEPT ![t] = "refused"]
        BY <1>1, <2>2, <3>4, OutcomeChange DEF ChangeState, Means
      <4>2. Ledger!Refuse(t)
        BY <3>2, <3>4, <4>1 DEF Ledger!Refuse, Ledger!Becomes
      <4> QED
        BY <2>2, <4>2 DEF Ledger!Next
    <3> QED
      BY <2>3, <3>3, <3>4 DEF ReservePosition
  <2>4. CASE CommitPosition(m)
    <3>1. FulfilReceived(m) /\ Credit(t) /\ ChangeState(t, "COMMITTED")
      BY <1>3, <2>4 DEF CommitPosition
    <3>2. state[t] = "RECEIVED_FULFIL"
      BY <2>4, <3>1, LedgerMove DEF AskedIn, CommitPosition, At
    <3>3. outcome[t] = "reserved"
      BY <2>2, <3>2, OutcomeMeans DEF Means
    <3>4. outcome' = [outcome EXCEPT ![t] = "settled"]
      BY <1>1, <2>2, <3>1, OutcomeChange DEF ChangeState, Means
    <3>5. position' = [position EXCEPT ![Payee[t]] = @ - Amount[t]]
      <4>1. position[Payee[t]] \in Int /\ position[Payee[t]] + (-Amount[t]) = position[Payee[t]] - Amount[t]
        BY <1>1, <2>2 DEF TypeOK
      <4> QED
        BY <3>1, <4>1 DEF Credit, Move
    <3>6. Ledger!Settle(t)
      BY <3>3, <3>4, <3>5 DEF Ledger!Settle, Ledger!Becomes
    <3> QED
      BY <2>2, <3>6 DEF Ledger!Next
  <2>5. CASE AbortPosition(m)
    <3>1. state[t] = "RECEIVED_ERROR"
      BY <2>5, LedgerMove DEF AskedIn, AbortPosition, At
    <3>2. outcome[t] = "reserved"
      BY <2>2, <3>1, OutcomeMeans DEF Means
    <3>3. outcome' = [outcome EXCEPT ![t] = "released"]
      BY <1>1, <2>2, <2>5, OutcomeChange DEF AbortPosition, ChangeState, Means
    <3>4. position' = [position EXCEPT ![Payer[t]] = @ - Amount[t]]
      <4>1. position[Payer[t]] \in Int /\ position[Payer[t]] + (-Amount[t]) = position[Payer[t]] - Amount[t]
        BY <1>1, <2>2 DEF TypeOK
      <4> QED
        BY <2>5, <4>1 DEF AbortPosition, Refund, Move
    <3>5. Ledger!Release(t)
      BY <3>2, <3>3, <3>4 DEF Ledger!Release, Ledger!Becomes
    <3> QED
      BY <2>2, <3>5 DEF Ledger!Next
  <2>6. CASE SavePrepared(m) \/ SaveFulfilment(m) \/ SaveError(m)
    <3>1. UNCHANGED position
      BY <2>6 DEF SavePrepared, SaveFulfilment, SaveError
    <3>2. \/ state[t] = "none" /\ state' = [state EXCEPT ![t] = "RECEIVED_PREPARE"]
          \/ state[t] = "none" /\ state' = [state EXCEPT ![t] = "INVALID"]
          \/ state[t] = "RESERVED" /\ state' = [state EXCEPT ![t] = "RECEIVED_FULFIL"]
          \/ state[t] = "RESERVED" /\ state' = [state EXCEPT ![t] = "RECEIVED_ERROR"]
      BY <1>3, <2>6, <3>1, LedgerAsk
    <3>3. CASE state[t] = "none" /\ state' = [state EXCEPT ![t] = "INVALID"]
      <4>1. outcome' = [outcome EXCEPT ![t] = "refused"]
        BY <1>1, <2>2, <3>3, OutcomeChange DEF Means
      <4>2. outcome[t] = "open"
        BY <2>2, <3>3, OutcomeMeans DEF Means
      <4>3. Ledger!Refuse(t)
        BY <3>1, <4>1, <4>2 DEF Ledger!Refuse, Ledger!Becomes
      <4> QED
        BY <2>2, <4>3 DEF Ledger!Next
    <3>4. CASE state[t] = "none" /\ state' = [state EXCEPT ![t] = "RECEIVED_PREPARE"]
      <4>1. Means(state[t]) = Means("RECEIVED_PREPARE")
        BY <3>4 DEF Means
      <4> QED
        BY <1>1, <2>2, <3>1, <3>4, <4>1, OutcomeSame
    <3>5. ASSUME state[t] = "RESERVED", NEW s \in {"RECEIVED_FULFIL", "RECEIVED_ERROR"},
                 state' = [state EXCEPT ![t] = s]
          PROVE  UNCHANGED outcome
      <4>1. Means(state[t]) = Means(s)
        BY <3>5 DEF Means
      <4> QED
        BY <1>1, <2>2, <3>5, <4>1, OutcomeSame
    <3> QED
      BY <3>1, <3>2, <3>3, <3>4, <3>5
  <2> QED
    BY <1>3, <2>1, <2>3, <2>4, <2>5, <2>6
    DEF HandlerStep, LogTransferError, Proceed, Request, CheckPrepare, CheckFulfil, ReadState,
        database
<1> QED
  BY <1>2, <1>3

(* What the handlers do to the outcome of a transfer and to the positions   *)
(* is what TransferLedger promises: one reservation within the limits, then *)
(* the payee's credit or the payer's release, and nothing after that.       *)
THEOREM LedgerIsKept ==
  ASSUME Undisturbed
  PROVE  Spec => KeepsTheLedger
<1>1. Init => AllInv /\ LedgerInv
  BY TypeInit, FundInit, OriginInit, ErrorInit, AnswerInit, RefundInit, LedgerInvInit DEF AllInv
<1>2. AllInv /\ LedgerInv /\ [Next]_vars => AllInv' /\ LedgerInv'
  <2> SUFFICES ASSUME AllInv, LedgerInv, [Next]_vars PROVE AllInv' /\ LedgerInv'
    OBVIOUS
  <2>1. TypeOK' /\ FundInv' /\ OriginInv' /\ ErrorInv'
    BY TypeNext, FundNext, OriginNext, ErrorNext DEF AllInv
  <2>2. AnswerInv' /\ RefundInv'
    BY AnswerNext, RefundNext DEF AllInv, Undisturbed
  <2> QED
    BY <2>1, <2>2, LedgerInvNext DEF AllInv
<1>3. Init => Ledger!Init
  BY DEF Init, StoreInit, Ledger!Init, outcome
<1>4. AllInv /\ LedgerInv /\ [Next]_vars => [Ledger!Next]_<<outcome, position>>
  BY LedgerImplemented
<1> QED
  BY <1>1, <1>2, <1>3, <1>4, PTL DEF Spec, KeepsTheLedger, Ledger!Spec

=============================================================================
