--------------------------- MODULE FulfilHandler ---------------------------
(***************************************************************************)
(* The fulfil handler (processFulfilMessage in                             *)
(* src/handlers/transfers/handler.js): the payee's answer is judged        *)
(* against the transfer as it was when the message was read, the judgement *)
(* is stored, and the position handler is asked to move the money.         *)
(***************************************************************************)
EXTENDS TransferStore

(* An answer's hash is kept with the errors for an abort, else with the     *)
(* fulfilments.                                                             *)
HashOf(m) == IF m.kind = "abort" THEN errorHash[m.transfer] ELSE fulfilHash[m.transfer]

\* Mutant: the hash is not stored.
HashNotStored(m) == UNCHANGED <<fulfilHash, errorHash>>
StoreHash(m) ==
  IF m.kind = "abort"
  THEN errorHash' = [errorHash EXCEPT ![m.transfer] = m.kind] /\ UNCHANGED fulfilHash
  ELSE fulfilHash' = [fulfilHash EXCEPT ![m.transfer] = m.kind] /\ UNCHANGED errorHash

(* The answer to a repeated fulfil.                                         *)
FulfilDuplicateNotices(m) ==
  IF HashOf(m) # m.kind THEN {"fulfilError"}
  ELSE IF Enumeration(state[m.transfer]) \in {"COMMITTED", "ABORTED"} THEN {"duplicate"}
  ELSE {}

(* A payee that asked to be told (RESERVE) is told of the failure.          *)
AbortNotice(kind) == IF kind \in ReserveKind THEN {"reservedAborted"} ELSE {}

(* The transfer can take an answer: it is reserved, and unexpired unless a  *)
(* proxy has forwarded it.                                                  *)
\* Mutant: only the expiration is looked at.
NotExpired(t) == t \notin expired
Answerable(t) ==
  \/ state[t] = "RESERVED_FORWARDED"
  \/ state[t] = "RESERVED" /\ t \notin expired

(* The judgement, in the order of the code: headers, duplicate, fulfilment, *)
(* state and expiration.                                                    *)
CheckFulfil(m) ==
  LET t == m.transfer IN
  /\ Consume(m, FulfilKind)
  /\ \/ /\ m.kind \in Misrouted
        /\ Goto(m, Step("save", state[t]))
        /\ UNCHANGED <<fulfilHash, errorHash, pending, crashes>>
     \/ /\ m.kind \notin Misrouted
        /\ HashOf(m) # "none"
        /\ Goto(m, Answer({}, FulfilDuplicateNotices(m)))
        /\ UNCHANGED <<fulfilHash, errorHash, pending, crashes>>
     \/ /\ m.kind \notin Misrouted
        /\ HashOf(m) = "none"
        /\ StoreHash(m)
        /\ \/ /\ m.kind \in BadFulfilment \/ (Answerable(t) /\ m.kind # "reject")
              /\ Goto(m, Step("save", state[t]))
              /\ UNCHANGED <<pending, crashes>>
           \/ /\ m.kind \notin BadFulfilment
              /\ ~Answerable(t)
              /\ Goto(m, Answer({}, {"fulfilError"} \union AbortNotice(m.kind)))
              /\ UNCHANGED <<pending, crashes>>
           \/ /\ Answerable(t)
              /\ m.kind = "reject"
              /\ Abandon(m)
  /\ UNCHANGED <<state, position, moves, prepareHash, fulfilment, transferError,
                 notified, cron, clients>>

(* savePayeeTransferResponse: one transaction that never looks at the       *)
(* transfer's state.  The primary keys of transferFulfilment and            *)
(* transferError are what makes it fail.                                    *)
SaveFulfilment(m) ==
  LET t == m.transfer IN
  /\ At(m, {"commit", "reserve"}, "save")
  /\ IF t \in fulfilment
     THEN Abandon(m) /\ UNCHANGED <<state, fulfilment>>
     ELSE /\ fulfilment' = fulfilment \union {t}
          /\ ChangeState(t, "RECEIVED_FULFIL")
          /\ Goto(m, Answer({"positionCommit"}, {}))
          /\ UNCHANGED <<pending, crashes>>
  /\ UNCHANGED <<position, moves, prepareHash, fulfilHash, errorHash, transferError,
                 notified, cron, clients>>

SaveError(m) ==
  LET t == m.transfer IN
  /\ At(m, FulfilKind \ {"commit", "reserve"}, "save")
  /\ IF ErrorConflict(t)
     THEN Abandon(m) /\ UNCHANGED <<state, transferError>>
     ELSE /\ transferError' = transferError \union {t}
          /\ ChangeState(t, "RECEIVED_ERROR")
          /\ Goto(m, Answer({"positionAbort"}, AbortNotice(m.kind)))
          /\ UNCHANGED <<pending, crashes>>
  /\ UNCHANGED <<position, moves, prepareHash, fulfilHash, errorHash, fulfilment,
                 notified, cron, clients>>

FulfilNext ==
  \E m \in Message : CheckFulfil(m) \/ SaveFulfilment(m) \/ SaveError(m)
=============================================================================
