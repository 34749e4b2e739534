--------------------------- MODULE TransferStore ---------------------------
(***************************************************************************)
(* What the handlers of the central ledger share: the database tables a    *)
(* transfer lives in, the Kafka topics that carry it from one handler to   *)
(* the next, and the life of one message inside a handler.                 *)
(*                                                                         *)
(* Every handler has the same shape.  It takes a message off its topic,    *)
(* reads the database, writes the database in one transaction, and calls   *)
(* Kafka.proceed, which commits the consumer offset and then produces the  *)
(* messages for the next handler and the notifications for the             *)
(* participants.  A handler suspends between these steps, and its process  *)
(* may die between any two of them.                                        *)
(***************************************************************************)
EXTENDS Integers, FiniteSets

CONSTANTS
  Transfer,         \* transfer identifiers
  Account,          \* position accounts (participantCurrency of type POSITION)
  Payer, Payee,     \* the position accounts a transfer moves money between
  Amount,           \* the amount of a transfer
  NetDebitCap,      \* the NET_DEBIT_CAP limit of an account
  LiquidityCover,   \* what the participant has paid into its settlement account
  ClientKind,       \* the requests participants make, out of PrepareKind and FulfilKind
  Expirable,        \* the transfers whose expirationDate may pass
  MaxRequests,      \* bound: requests per transfer
  MaxCrashes        \* bound: process deaths in a behaviour

(* A request on topic-transfer-prepare.  The two well-formed requests carry *)
(* the same transfer id and differ in their hash; "forwarded" is a proxy    *)
(* acknowledging that it has passed the prepare on.                         *)
PrepareKind == {"prepare", "modifiedPrepare", "invalidPrepare", "forwarded"}

(* A request on topic-transfer-fulfil: the payee's answer.  "bad" ones have *)
(* a fulfilment that does not match the condition; "misrouted" ones carry   *)
(* an FSPIOP source or destination that is not a party to the transfer.     *)
ReserveKind  == {"reserve", "badReserve", "misroutedReserve"}
Misrouted    == {"misroutedCommit", "misroutedReserve"}
BadFulfilment == {"badCommit", "badReserve"}
FulfilKind   == {"commit", "abort", "reject", "badCommit", "misroutedCommit"} \union ReserveKind

(* A message on topic-transfer-position, from the other three handlers.     *)
PositionKind == {"positionPrepare", "positionCommit", "positionAbort", "positionTimeout"}

Kind    == PrepareKind \union FulfilKind \union PositionKind
Message == [transfer : Transfer, kind : Kind]

(* The notifications a participant can receive.                             *)
Notice == {"prepared", "committed", "aborted", "rejected", "timedOut", "reservedAborted",
           "duplicate", "prepareError", "fulfilError", "forwardError"}

State == {"none", "RECEIVED_PREPARE", "INVALID", "RESERVED", "RESERVED_FORWARDED",
          "RECEIVED_FULFIL", "RECEIVED_ERROR", "RESERVED_TIMEOUT", "COMMITTED",
          "ABORTED_REJECTED", "ABORTED_ERROR", "EXPIRED_PREPARED", "EXPIRED_RESERVED"}

Aborted == {"ABORTED_REJECTED", "ABORTED_ERROR", "EXPIRED_PREPARED", "EXPIRED_RESERVED", "INVALID"}
Final   == Aborted \union {"COMMITTED"}

ASSUME TransferAssumption ==
  /\ Payer \in [Transfer -> Account]
  /\ Payee \in [Transfer -> Account]
  /\ Amount \in [Transfer -> Nat]
ASSUME LimitAssumption ==
  /\ NetDebitCap \in [Account -> Nat]
  /\ LiquidityCover \in [Account -> Nat]
ASSUME EnvironmentAssumption ==
  /\ ClientKind \subseteq PrepareKind \union FulfilKind
  /\ Expirable \subseteq Transfer
  /\ MaxRequests \in Nat
  /\ MaxCrashes \in Nat

VARIABLES
  state,          \* the latest transferStateChange of a transfer
  position,       \* participantPosition.value of an account
  debited,        \* participantPositionChange: reservations of the payer's funds
  refunded,       \* participantPositionChange: returns of the payer's funds
  credited,       \* participantPositionChange: credits of the payee
  prepareHash,    \* transferDuplicateCheck
  fulfilHash,     \* transferFulfilmentDuplicateCheck
  errorHash,      \* transferErrorDuplicateCheck
  fulfilment,     \* transferFulfilment: primary key transferId
  transferError,  \* transferError: primary key transferId
  pending,        \* messages on a topic whose offset is not committed
  job,            \* the handler's progress with a message
  notified,       \* notifications produced for a transfer
  timedOut,       \* transfers the current timeout run has expired and not yet listed
  timeoutList,    \* what the current timeout run has listed and not yet produced
  expired,        \* transfers whose expirationDate has passed
  requests,       \* requests made for a transfer
  crashes         \* process deaths so far

moves    == <<debited, refunded, credited>>
database == <<state, position, moves, prepareHash, fulfilHash, errorHash, fulfilment, transferError>>
cron     == <<timedOut, timeoutList>>
clients  == <<expired, requests>>
vars     == <<database, pending, job, notified, cron, clients, crashes>>

Pc  == {"idle", "save", "write", "log", "proceed"}
Job == [pc : Pc, seen : State, send : SUBSET PositionKind, notify : SUBSET Notice]

Idle == [pc |-> "idle", seen |-> "none", send |-> {}, notify |-> {}]
Step(pc, seen)        == [pc |-> pc, seen |-> seen, send |-> {}, notify |-> {}]
Answer(send, notify) == [pc |-> "proceed", seen |-> "none", send |-> send, notify |-> notify]

Hash == PrepareKind \union FulfilKind \union {"none"}

(***************************************************************************)
(* Type invariant.                                                         *)
(***************************************************************************)
TypeOK ==
  /\ state \in [Transfer -> State]
  /\ position \in [Account -> Int]
  /\ debited \in [Transfer -> Nat]
  /\ refunded \in [Transfer -> Nat]
  /\ credited \in [Transfer -> Nat]
  /\ prepareHash \in [Transfer -> Hash]
  /\ fulfilHash \in [Transfer -> Hash]
  /\ errorHash \in [Transfer -> Hash]
  /\ fulfilment \subseteq Transfer
  /\ transferError \subseteq Transfer
  /\ pending \subseteq Message
  /\ job \in [Message -> Job]
  /\ notified \in [Transfer -> SUBSET Notice]
  /\ timedOut \subseteq Transfer
  /\ timeoutList \subseteq [transfer : Transfer, state : State]
  /\ expired \subseteq Transfer
  /\ requests \in [Transfer -> Nat]
  /\ crashes \in Nat

StoreInit ==
  /\ state = [t \in Transfer |-> "none"]
  /\ position = [a \in Account |-> 0]
  /\ debited = [t \in Transfer |-> 0]
  /\ refunded = [t \in Transfer |-> 0]
  /\ credited = [t \in Transfer |-> 0]
  /\ prepareHash = [t \in Transfer |-> "none"]
  /\ fulfilHash = [t \in Transfer |-> "none"]
  /\ errorHash = [t \in Transfer |-> "none"]
  /\ fulfilment = {}
  /\ transferError = {}
  /\ pending = {}
  /\ job = [m \in Message |-> Idle]
  /\ notified = [t \in Transfer |-> {}]
  /\ timedOut = {}
  /\ timeoutList = {}
  /\ expired = {}
  /\ requests = [t \in Transfer |-> 0]
  /\ crashes = 0

(***************************************************************************)
(* Messages and consumers.                                                 *)
(***************************************************************************)

(* The partition key: requests are keyed by transfer, position messages by *)
(* the account they move: the payee's for a commit, else the payer's.      *)
AccountOf(m) == IF m.kind = "positionCommit" THEN Payee[m.transfer] ELSE Payer[m.transfer]

SameConsumer(m, n) ==
  \/ /\ {m.kind, n.kind} \subseteq PositionKind
     /\ AccountOf(m) = AccountOf(n)
  \/ /\ {m.kind, n.kind} \subseteq PrepareKind \/ {m.kind, n.kind} \subseteq FulfilKind
     /\ m.transfer = n.transfer

(* A consumer takes one message of a partition at a time.                  *)
Consume(m, kinds) ==
  /\ m \in pending
  /\ m.kind \in kinds
  /\ \A n \in Message : SameConsumer(m, n) => job[n].pc = "idle"

At(m, kinds, pc) == m.kind \in kinds /\ job[m].pc = pc

Goto(m, j) == job' = [job EXCEPT ![m] = j]

(* The handler returns without committing the offset.  The consumer goes on *)
(* to the next message, whose commit covers this one; only a consumer that  *)
(* restarts first will read the message again.                              *)
Abandon(m) ==
  /\ Goto(m, Idle)
  /\ \/ pending' = pending \ {m} /\ UNCHANGED crashes
     \/ crashes < MaxCrashes /\ crashes' = crashes + 1 /\ UNCHANGED pending

(* Kafka.proceed: commit the offset, then produce.                          *)
Sent(m) == {[transfer |-> m.transfer, kind |-> k] : k \in job[m].send}

Proceed(m) ==
  /\ job[m].pc = "proceed"
  /\ pending' = (pending \ {m}) \union Sent(m)
  /\ notified' = [notified EXCEPT ![m.transfer] = @ \union job[m].notify]
  /\ Goto(m, Idle)
  /\ UNCHANGED <<database, cron, clients, crashes>>

(* The process dies while it handles m.  Before the offset is committed the *)
(* message is read again after the restart; once it is committed, whatever  *)
(* was not yet produced is lost.                                            *)
Crash(m) ==
  /\ crashes < MaxCrashes
  /\ job[m].pc # "idle"
  /\ crashes' = crashes + 1
  /\ Goto(m, Idle)
  /\ \/ UNCHANGED pending
     \/ /\ job[m].pc = "proceed"
        /\ \E sent \in {{}, Sent(m)} : pending' = (pending \ {m}) \union sent
  /\ UNCHANGED <<database, notified, cron, clients>>

(***************************************************************************)
(* Participants and time.                                                  *)
(***************************************************************************)

(* A participant makes a request.  An answer to a prepare, or a proxy's     *)
(* acknowledgement of it, follows the notification of that prepare.         *)
Request(m) ==
  /\ m.kind \in ClientKind
  /\ m \notin pending
  /\ requests[m.transfer] < MaxRequests
  /\ m.kind \in FulfilKind \union {"forwarded"} => "prepared" \in notified[m.transfer]
  /\ pending' = pending \union {m}
  /\ requests' = [requests EXCEPT ![m.transfer] = @ + 1]
  /\ UNCHANGED <<database, job, notified, cron, expired, crashes>>

(* The expirationDate of a transfer passes.                                 *)
Expire(t) ==
  /\ t \in Expirable \ expired
  /\ state[t] # "none"
  /\ expired' = expired \union {t}
  /\ UNCHANGED <<database, pending, job, notified, cron, requests, crashes>>

(***************************************************************************)
(* Table access.                                                           *)
(***************************************************************************)

(* Insert a transferStateChange row: it becomes the transfer's state.       *)
ChangeState(t, s) == state' = [state EXCEPT ![t] = s]

(* The FSPIOP state a participant sees (transferState.enumeration).         *)
Enumeration(s) ==
  CASE s \in Aborted            -> "ABORTED"
    [] s = "COMMITTED"          -> "COMMITTED"
    [] s = "RECEIVED_PREPARE"   -> "RECEIVED"
    [] s = "none"               -> "none"
    [] OTHER                    -> "RESERVED"

(* The primary key of transferError: a second insert for a transfer fails.  *)
\* Mutant: the insert ignores a conflict.
NeverConflicts(t) == FALSE
ErrorConflict(t) == t \in transferError

(* TransferService.logTransferError, on its own connection after the        *)
(* handler's transaction: the second row of a transfer breaks the primary   *)
(* key, the handler throws, and the participant is not told.                *)
LogTransferError(m) ==
  /\ job[m].pc = "log"
  /\ IF ErrorConflict(m.transfer)
     THEN Abandon(m) /\ UNCHANGED transferError
     ELSE /\ transferError' = transferError \union {m.transfer}
          /\ Goto(m, Answer({}, {"rejected"}))
          /\ UNCHANGED <<pending, crashes>>
  /\ UNCHANGED <<state, position, moves, prepareHash, fulfilHash, errorHash, fulfilment,
                 notified, cron, clients>>
=============================================================================
