--------------------------- MODULE PrepareHandler ---------------------------
(***************************************************************************)
(* The prepare handler (src/handlers/transfers/prepare.js): a payer's      *)
(* request is checked for duplicates, validated, stored and passed on to   *)
(* the position handler; a proxy's acknowledgement marks the transfer as   *)
(* forwarded.                                                              *)
(***************************************************************************)
EXTENDS TransferStore

Prepares == PrepareKind \ {"forwarded"}

(* What a repeated transfer id is answered with: an error for another       *)
(* payload, the outcome for a transfer that has one, else nothing.          *)
PrepareDuplicateNotices(t, kind) ==
  IF prepareHash[t] # kind THEN {"prepareError"}
  ELSE IF Enumeration(state[t]) \in {"COMMITTED", "ABORTED", "RESERVED"} THEN {"duplicate"}
  ELSE {}

(* checkDuplication stores the hash on its own connection, before the       *)
(* transfer itself is stored.                                               *)
CheckPrepare(m) ==
  LET t == m.transfer IN
  /\ Consume(m, Prepares)
  /\ IF prepareHash[t] = "none"
     THEN prepareHash' = [prepareHash EXCEPT ![t] = m.kind] /\ Goto(m, Step("save", "none"))
     ELSE UNCHANGED prepareHash /\ Goto(m, Answer({}, PrepareDuplicateNotices(t, m.kind)))
  /\ UNCHANGED <<state, position, moves, fulfilHash, errorHash, fulfilment, transferError,
                 pending, notified, cron, clients, crashes>>

(* saveTransferPrepared: the transfer and its first state in one            *)
(* transaction.  A transfer id that is already stored breaks the primary    *)
(* key and is answered with an error.                                       *)
SavePrepared(m) ==
  LET t == m.transfer IN
  /\ At(m, Prepares, "save")
  /\ \/ /\ state[t] # "none"
        /\ Goto(m, Answer({}, {"prepareError"}))
        /\ UNCHANGED state
     \/ /\ state[t] = "none"
        /\ m.kind = "invalidPrepare"
        /\ ChangeState(t, "INVALID")
        /\ Goto(m, Step("log", "none"))
     \/ /\ state[t] = "none"
        /\ m.kind # "invalidPrepare"
        /\ ChangeState(t, "RECEIVED_PREPARE")
        /\ Goto(m, Answer({"positionPrepare"}, {}))
  /\ UNCHANGED <<position, moves, prepareHash, fulfilHash, errorHash, fulfilment, transferError,
                 pending, notified, cron, clients, crashes>>

(* forwardPrepare: the state is read, and RESERVED_FORWARDED is inserted in *)
(* a later statement that does not look at it again.  The offset is not     *)
(* committed.                                                               *)
ReadForwarded(m) ==
  /\ Consume(m, {"forwarded"})
  /\ Goto(m, IF state[m.transfer] = "RESERVED" THEN Step("write", "RESERVED")
                                               ELSE Answer({}, {"forwardError"}))
  /\ UNCHANGED <<database, pending, notified, cron, clients, crashes>>

SaveForwarded(m) ==
  /\ At(m, {"forwarded"}, "write")
  /\ ChangeState(m.transfer, "RESERVED_FORWARDED")
  /\ Abandon(m)
  /\ UNCHANGED <<position, moves, prepareHash, fulfilHash, errorHash, fulfilment, transferError,
                 notified, cron, clients>>

PrepareNext ==
  \E m \in Message :
    CheckPrepare(m) \/ SavePrepared(m) \/ ReadForwarded(m) \/ SaveForwarded(m)
=============================================================================
