-------------------------- MODULE TransferLifecycle --------------------------
(***************************************************************************)
(* The life of a transfer in the default deployment: the prepare, fulfil,  *)
(* position and timeout handlers, interleaved as their processes are,      *)
(* together with the participants' requests, the passing of expiration     *)
(* dates, and crashes.                                                     *)
(***************************************************************************)
EXTENDS PrepareHandler, FulfilHandler, PositionHandler, TimeoutHandler

Init == StoreInit

Next ==
  \/ PrepareNext
  \/ FulfilNext
  \/ PositionNext
  \/ TimeoutNext
  \/ CrashTimeout
  \/ \E m \in Message : LogTransferError(m) \/ Proceed(m) \/ Crash(m) \/ Request(m)
  \/ \E t \in Transfer : Expire(t)

Spec == Init /\ [][Next]_vars

(***************************************************************************)
(* Fairness.  Every consumer keeps polling its partition and the cron job  *)
(* keeps running: the prepare and fulfil topics have a partition for each  *)
(* transfer, the position topic one for each account.  An expiration date, *)
(* once set, passes.  Nothing obliges a participant to make a request, or  *)
(* a process to crash.  Requests being bounded, a consumer that keeps      *)
(* taking messages reaches every one of them.                              *)
(***************************************************************************)
Handle(m) ==
  \/ CheckPrepare(m) \/ SavePrepared(m) \/ ReadForwarded(m) \/ SaveForwarded(m)
  \/ CheckFulfil(m) \/ SaveFulfilment(m) \/ SaveError(m)
  \/ ReadState(m)
  \/ ReservePosition(m) \/ CommitPosition(m) \/ AbortPosition(m) \/ TimeoutPosition(m)
  \/ LogTransferError(m) \/ Proceed(m)

RequestConsumer(t, kinds) == \E m \in [transfer : {t}, kind : kinds] : Handle(m)
PositionConsumer(a) ==
  \E m \in [transfer : Transfer, kind : PositionKind] : AccountOf(m) = a /\ Handle(m)

Fairness ==
  /\ \A t \in Transfer : /\ WF_vars(RequestConsumer(t, PrepareKind))
                        /\ WF_vars(RequestConsumer(t, FulfilKind))
                        /\ WF_vars(Expire(t))
  /\ \A a \in Account : WF_vars(PositionConsumer(a))
  /\ WF_vars(TimeoutNext)

FairSpec == Spec /\ Fairness

(***************************************************************************)
(* What holds whatever the participants do and whenever processes die.     *)
(***************************************************************************)

(* A position never exceeds what the participant may owe: neither its       *)
(* liquidity cover nor its net debit cap (the checks of the reservation,    *)
(* with every other handler moving the same account).                       *)
PositionWithinLimit ==
  \A a \in Account : position[a] <= LiquidityCover[a] /\ position[a] <= NetDebitCap[a]

(* However often a message is read again, a payer is debited at most once   *)
(* and a payee is credited at most once, and only against a debit.          *)
CreditIsFunded ==
  \A t \in Transfer : credited[t] <= debited[t] /\ debited[t] <= 1

(* A participant is told of a movement only after it is in the database,    *)
(* although a notification is produced by another statement than the one    *)
(* that moves the money and may follow it on a second reading.              *)
NoticesMatchMoney ==
  \A t \in Transfer :
    /\ "prepared" \in notified[t] => debited[t] = 1
    /\ "committed" \in notified[t] => credited[t] = 1
    /\ notified[t] \intersect {"aborted", "timedOut"} # {} => refunded[t] >= 1

(* No reserved transfer has an error record.  If one had, the insert into   *)
(* transferError would break its primary key in every later timeout run,    *)
(* and no transfer at all would time out again.                             *)
SweepNeverBlocked == \A t \in Transfer : state[t] = "RESERVED" => t \notin transferError

(***************************************************************************)
(* What holds while no process dies.                                       *)
(***************************************************************************)

(* A payer is given its funds back at most once, and only if it was         *)
(* debited: an answer that fails and a timeout can both be under way, and   *)
(* the primary key of transferError is what lets only one of them through.  *)
RefundedAtMostOnce == \A t \in Transfer : refunded[t] <= debited[t]

(* A transfer that has come to its end holds nobody's funds: what was       *)
(* debited from the payer went to the payee or back.                        *)
NothingHeldAtTheEnd ==
  \A t \in Transfer :
    state[t] \in Final => debited[t] <= credited[t] + refunded[t]

(* A payee that asked to be told, and was told that the transfer is         *)
(* aborted, is not credited for it afterwards.                              *)
ReservedAbortedIsFinal ==
  \A t \in Transfer : "reservedAborted" \in notified[t] => credited[t] = 0

(* Every transfer that is stored comes to an end: funds are not held        *)
(* forever.                                                                 *)
EveryTransferEnds ==
  \A t \in Transfer : state[t] = "RECEIVED_PREPARE" ~> state[t] \in Final

(***************************************************************************)
(* The promise of TransferLedger, which the handlers keep as long as no    *)
(* two of them judge a transfer at the same time.                          *)
(***************************************************************************)
outcome ==
  [t \in Transfer |->
     CASE state[t] \in {"none", "RECEIVED_PREPARE"}  -> "open"
       [] state[t] \in {"ABORTED_REJECTED", "INVALID", "EXPIRED_PREPARED"} -> "refused"
       [] state[t] = "COMMITTED"                     -> "settled"
       [] state[t] \in {"ABORTED_ERROR", "EXPIRED_RESERVED"} -> "released"
       [] OTHER                                      -> "reserved"]

Ledger == INSTANCE TransferLedger WITH outcome <- outcome, balance <- position

KeepsTheLedger == Ledger!Spec

(***************************************************************************)
(* What the documentation says, and the code does otherwise.               *)
(***************************************************************************)

(* In the state diagram nothing leaves EXPIRED_RESERVED, the state in which *)
(* the payer has its funds back.                                            *)
ExpiredReservedIsFinal ==
  [][\A t \in Transfer :
       state[t] = "EXPIRED_RESERVED" => state'[t] = "EXPIRED_RESERVED"]_vars
=============================================================================
