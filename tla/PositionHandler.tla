--------------------------- MODULE PositionHandler ---------------------------
(***************************************************************************)
(* The position handler (src/handlers/positions/handler.js), which takes   *)
(* one message at a time and moves one account for it.  The transfer's     *)
(* state is read first; the transaction that moves the money and inserts   *)
(* the new state locks the account but does not look at the state again.   *)
(***************************************************************************)
EXTENDS TransferStore

(* The limit checks of prepareChangeParticipantPositionTransaction: what is *)
(* left under the liquidity cover and under the net debit cap.              *)
\* Mutant: the limits are compared with the amount alone.
AmountWithinLimits(t) ==
  Amount[t] <= LiquidityCover[Payer[t]] /\ Amount[t] <= NetDebitCap[Payer[t]]
CanReserve(t) ==
  /\ Amount[t] <= LiquidityCover[Payer[t]] - position[Payer[t]]
  /\ Amount[t] <= NetDebitCap[Payer[t]] - position[Payer[t]]

(* changeParticipantPositionTransaction: the account and the new state in   *)
(* one transaction, and the row that records the movement.                  *)
Move(a, change) == position' = [position EXCEPT ![a] = @ + change]
\* Mutant: a movement is booked with the wrong sign.
CountDown(rows, t) == [rows EXCEPT ![t] = @ - 1]
Count(rows, t) == [rows EXCEPT ![t] = @ + 1]

Debit(t) ==
  /\ Move(Payer[t], Amount[t])
  /\ debited' = Count(debited, t)
  /\ UNCHANGED <<refunded, credited>>
Refund(t) ==
  /\ Move(Payer[t], -Amount[t])
  /\ refunded' = Count(refunded, t)
  /\ UNCHANGED <<debited, credited>>
Credit(t) ==
  /\ Move(Payee[t], -Amount[t])
  /\ credited' = Count(credited, t)
  /\ UNCHANGED <<debited, refunded>>

ReadState(m) ==
  /\ Consume(m, PositionKind)
  /\ Goto(m, Step("write", state[m.transfer]))
  /\ UNCHANGED <<database, pending, notified, cron, clients, crashes>>

(* A prepare reserves the payer's funds, if the transfer is as it was       *)
(* received and the limits allow it; any other outcome is ABORTED_REJECTED. *)
(* The row of participantPositionChange that a refused transfer gets as     *)
(* well is left out: `debited` counts movements of the position.            *)
ReservePosition(m) ==
  LET t == m.transfer IN
  /\ At(m, {"positionPrepare"}, "write")
  /\ IF job[m].seen = "RECEIVED_PREPARE" /\ CanReserve(t)
     THEN /\ Debit(t)
          /\ ChangeState(t, "RESERVED")
          /\ Goto(m, Answer({}, {"prepared"}))
     ELSE /\ ChangeState(t, "ABORTED_REJECTED")
          /\ Goto(m, Step("log", "none"))
          /\ UNCHANGED <<position, moves>>
  /\ UNCHANGED <<prepareHash, fulfilHash, errorHash, fulfilment, transferError,
                 pending, notified, cron, clients, crashes>>

(* A commit credits the payee, if the answer was still the transfer's state. *)
\* Mutant: any state will do.
AnyState(m) == TRUE
FulfilReceived(m) == job[m].seen = "RECEIVED_FULFIL"

CommitPosition(m) ==
  LET t == m.transfer IN
  /\ At(m, {"positionCommit"}, "write")
  /\ IF FulfilReceived(m)
     THEN Credit(t) /\ ChangeState(t, "COMMITTED") /\ Goto(m, Answer({}, {"committed"}))
     ELSE Goto(m, Answer({}, {"fulfilError"})) /\ UNCHANGED <<position, moves, state>>
  /\ UNCHANGED <<prepareHash, fulfilHash, errorHash, fulfilment, transferError,
                 pending, notified, cron, clients, crashes>>

(* An abort gives the payer its funds back whatever the transfer's state.    *)
AbortPosition(m) ==
  LET t == m.transfer IN
  /\ At(m, {"positionAbort"}, "write")
  /\ Refund(t)
  /\ ChangeState(t, "ABORTED_ERROR")
  /\ Goto(m, Answer({}, {"aborted"}))
  /\ UNCHANGED <<prepareHash, fulfilHash, errorHash, fulfilment, transferError,
                 pending, notified, cron, clients, crashes>>

(* A timeout gives the payer its funds back, if the timeout was still the   *)
(* transfer's state; else the handler throws and commits nothing.           *)
TimeoutPosition(m) ==
  LET t == m.transfer IN
  /\ At(m, {"positionTimeout"}, "write")
  /\ IF job[m].seen = "RESERVED_TIMEOUT"
     THEN /\ Refund(t)
          /\ ChangeState(t, "EXPIRED_RESERVED")
          /\ Goto(m, Answer({}, {"timedOut"}))
          /\ UNCHANGED <<pending, crashes>>
     ELSE Abandon(m) /\ UNCHANGED <<position, moves, state>>
  /\ UNCHANGED <<prepareHash, fulfilHash, errorHash, fulfilment, transferError,
                 notified, cron, clients>>

PositionNext ==
  \E m \in Message :
    \/ ReadState(m)
    \/ ReservePosition(m)
    \/ CommitPosition(m)
    \/ AbortPosition(m)
    \/ TimeoutPosition(m)
=============================================================================
