--------------------------- MODULE TimeoutHandler ---------------------------
(***************************************************************************)
(* The timeout handler (src/handlers/timeouts/handler.js and               *)
(* timeoutExpireReserved in src/models/transfer/facade.js): a cron job, one *)
(* run at a time.  A run expires every transfer that is due in one         *)
(* transaction, lists what it expired in a later query, and produces one   *)
(* message for each transfer on the list.                                  *)
(***************************************************************************)
EXTENDS TransferStore

\* Mutants: a fulfilled transfer is swept too; a reserved one is not.
DueWithFulfilled == {t \in expired : state[t] \in {"RECEIVED_PREPARE", "RESERVED", "RECEIVED_FULFIL"}}
DuePreparedOnly  == {t \in expired : state[t] = "RECEIVED_PREPARE"}
Due == {t \in expired : state[t] \in {"RECEIVED_PREPARE", "RESERVED"}}

(* The rows of transferError the run inserts: those it times out.           *)
\* Mutant: one for every transfer that is due.
ErrorForEveryDue == Due
TimeoutErrors == {t \in Due : state[t] = "RESERVED"}

(* The transaction.  A primary-key conflict in transferError would fail it  *)
(* for every transfer alike.                                                *)
ExpireDue ==
  /\ timedOut = {} /\ timeoutList = {}
  /\ Due # {}
  /\ \A t \in TimeoutErrors : ~ErrorConflict(t)
  /\ state' = [t \in Transfer |->
                 IF t \notin Due THEN state[t]
                 ELSE IF state[t] = "RESERVED" THEN "RESERVED_TIMEOUT"
                 ELSE "EXPIRED_PREPARED"]
  /\ transferError' = transferError \union TimeoutErrors
  /\ timedOut' = Due
  /\ UNCHANGED <<position, moves, prepareHash, fulfilHash, errorHash, fulfilment,
                 pending, job, notified, timeoutList, clients, crashes>>

(* _getTransferList joins each transfer with its participantPositionChange  *)
(* rows: a transfer that never moved an account is not on the list.         *)
Listed(t) == debited[t] > 0

ListTimedOut ==
  /\ timedOut # {}
  /\ timeoutList' = {[transfer |-> t, state |-> state[t]] : t \in {u \in timedOut : Listed(u)}}
  /\ timedOut' = {}
  /\ UNCHANGED <<database, pending, job, notified, clients, crashes>>

(* _processTimedOutTransfers: a transfer that was only received is over and *)
(* its payer is told; one that was reserved goes to the position handler.   *)
\* Mutant: the payer is told in either case.
AlwaysTell(e) == {"timedOut"}
TimeoutNotices(e) == IF e.state = "EXPIRED_PREPARED" THEN {"timedOut"} ELSE {}

ProduceTimeout(e) ==
  /\ timeoutList' = timeoutList \ {e}
  /\ pending' = IF e.state = "RESERVED_TIMEOUT"
                THEN pending \union {[transfer |-> e.transfer, kind |-> "positionTimeout"]}
                ELSE pending
  /\ notified' = [notified EXCEPT ![e.transfer] = @ \union TimeoutNotices(e)]
  /\ UNCHANGED <<database, job, timedOut, clients, crashes>>

(* The process dies between its transaction and its last message.  The next *)
(* run starts by deleting the transferTimeout rows of transfers that are    *)
(* already marked, so it does not list them again.                          *)
CrashTimeout ==
  /\ crashes < MaxCrashes
  /\ timedOut # {} \/ timeoutList # {}
  /\ crashes' = crashes + 1
  /\ timedOut' = {}
  /\ timeoutList' = {}
  /\ UNCHANGED <<database, pending, job, notified, clients>>

TimeoutNext ==
  \/ ExpireDue
  \/ ListTimedOut
  \/ \E e \in timeoutList : ProduceTimeout(e)
=============================================================================
