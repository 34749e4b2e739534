------------------------------ MODULE AdminFunds ------------------------------
(***************************************************************************)
(* Funds in and funds out: the admin handler (src/handlers/admin/handler.js)*)
(* and the reconciliation transfers of models/transfer/facade.js, with the  *)
(* timeout sweep, which knows nothing of them.                              *)
(*                                                                          *)
(* An operator records funds that a participant has paid into its settlement*)
(* account, or reserves funds that it wants to take out and later commits or*)
(* aborts.  Each is a transfer between that account and the hub's           *)
(* reconciliation account.  Positions are read without a lock and written as*)
(* absolute values.                                                         *)
(***************************************************************************)
EXTENDS Integers, FiniteSets, Functions

CONSTANTS
  FundsIn, FundsOut,  \* the transfers of either kind
  Account,            \* settlement accounts
  Hub,                \* the hub's reconciliation account
  AccountOf, Amount,
  Opening,            \* the positions before them, credit negative
  Handler,            \* the processes that consume the admin topic
  Request,            \* bound: the requests that may be sent
  Expirable,          \* bound: those whose expirationDate may pass
  MaxCrashes          \* bound

Transfer == FundsIn \union FundsOut
Action   == {"recordFundsIn", "recordFundsOutPrepareReserve", "recordFundsOutCommit", "recordFundsOutAbort"}

ASSUME FundsAssumption ==
  /\ IsFiniteSet(Transfer) /\ FundsIn \intersect FundsOut = {}
  /\ Hub \notin Account
  /\ AccountOf \in [Transfer -> Account]
  /\ Amount \in [Transfer -> Nat]
  /\ Opening \in [Account \union {Hub} -> Int]
  /\ Request \subseteq [action : Action, transfer : Transfer, copy : Nat]
  /\ \A m \in Request : m.action = "recordFundsIn" <=> m.transfer \in FundsIn
  /\ MaxCrashes \in Nat
  /\ Expirable \subseteq Transfer

VARIABLES
  topic,       \* requests whose offset is not committed
  sent,        \* requests that have been sent
  hash,        \* transferDuplicateCheck
  state,       \* the latest transferStateChange
  fulfilment,  \* transferFulfilmentDuplicateCheck and transferFulfilment
  expired,     \* whose expirationDate has passed
  position,    \* participantPosition.value
  moved,       \* participantPositionChange: the sum of change, by transfer
  handler,     \* what each process is doing
  listed,      \* timeout messages produced to the position handler
  overtaken,   \* auxiliary: accounts written from a value that was not the last
  crashes      \* auxiliary

tables == <<hash, state, fulfilment, position, moved>>
vars   == <<topic, sent, tables, expired, handler, listed, overtaken, crashes>>

Place   == Account \union {Hub}
State   == {"none", "RESERVED", "RESERVED_TIMEOUT", "COMMITTED", "ABORTED_REJECTED"}
Prepares(m) == m.action \in {"recordFundsIn", "recordFundsOutPrepareReserve"}
Step    == {"create", "change", "write", "offset"}
Idle    == [step |-> "idle"]
Busy    == [step : Step, request : Request, seen : [Place -> Int]]

TypeOK ==
  /\ topic \subseteq sent /\ sent \subseteq Request
  /\ hash \subseteq Transfer
  /\ fulfilment = {t \in Transfer : state[t] \in {"COMMITTED", "ABORTED_REJECTED"}}
  /\ expired \subseteq Expirable /\ listed \subseteq Transfer
  /\ state \in [Transfer -> State]
  /\ position \in [Place -> Int]
  /\ moved \in [Transfer -> [{"settlement", "hub"} -> Int]]
  /\ handler \in [Handler -> {Idle} \union Busy]
  /\ overtaken \subseteq Place
  /\ crashes \in 0..MaxCrashes

Init ==
  /\ topic = {} /\ sent = {} /\ hash = {} /\ fulfilment = {} /\ expired = {} /\ listed = {}
  /\ state = [t \in Transfer |-> "none"]
  /\ position = Opening
  /\ moved = [t \in Transfer |-> [settlement |-> 0, hub |-> 0]]
  /\ handler = [h \in Handler |-> Idle]
  /\ overtaken = {}
  /\ crashes = 0

(* recordFundsInOut of the participant service: a message without a key, so *)
(* that any partition, and any handler, may get it.                         *)
RecordFundsInOut(m) ==
  /\ m \notin sent
  /\ sent' = sent \union {m} /\ topic' = topic \union {m}
  /\ UNCHANGED <<tables, expired, handler, listed, overtaken, crashes>>

Doing(h, step) == handler[h].step = step
Taken(m) == \E h \in Handler : ~Doing(h, "idle") /\ handler[h].request = m
Become(h, step, m) ==
  handler' = [handler EXCEPT ![h] =
    [step |-> step, request |-> m, seen |-> IF step = "write" THEN position ELSE Opening]]

\* Mutant: the hash is looked for after it was stored.
FoundAfterwards(t) == TRUE
HasDuplicateId(t) == t \in hash

(* A request for a new transfer: its hash is stored first, on its own.  One *)
(* that is known, with this payload or another, is done.                    *)
Prepare(h) ==
  /\ Doing(h, "idle")
  /\ \E m \in topic :
       /\ Prepares(m) /\ ~Taken(m)
       /\ hash' = hash \union {m.transfer}
       /\ Become(h, IF HasDuplicateId(m.transfer) THEN "offset" ELSE "create", m)
  /\ UNCHANGED <<topic, sent, state, fulfilment, position, moved, expired, listed, overtaken, crashes>>

Answerable(t) == state[t] = "RESERVED" /\ t \notin expired

(* A commit or abort: what it asks is decided before its transaction.       *)
ChangeStatus(h) ==
  /\ Doing(h, "idle")
  /\ \E m \in topic :
       /\ ~Prepares(m) /\ ~Taken(m)
       /\ Become(h, IF Answerable(m.transfer) THEN "change" ELSE "offset", m)
  /\ UNCHANGED <<topic, sent, tables, expired, listed, overtaken, crashes>>

(* Its transaction begins with the fulfilment's primary key, which makes it *)
(* wait for another one that has it, and throw if that was committed.  A    *)
(* handler that throws commits no offset; the next request's will cover it. *)
HoldsFulfilment(h, t) ==
  Doing(h, "write") /\ handler[h].request.transfer = t /\ ~Prepares(handler[h].request)

\* Mutant: the primary key is not there.
NoPrimaryKey(t) == TRUE
KeyIsFree(t) == t \notin fulfilment

InsertFulfilment(h) ==
  /\ Doing(h, "change")
  /\ LET m == handler[h].request IN
     /\ \A g \in Handler : ~HoldsFulfilment(g, m.transfer)
     /\ IF KeyIsFree(m.transfer)
        THEN /\ Become(h, "write", m)
             /\ UNCHANGED topic
        ELSE /\ handler' = [handler EXCEPT ![h] = Idle]
             /\ topic' = topic \ {m}
  /\ UNCHANGED <<sent, tables, expired, listed, overtaken, crashes>>

(* The transaction of a new transfer takes its snapshot of the positions.   *)
ReconciliationTransferPrepare(h) ==
  /\ Doing(h, "create")
  /\ Become(h, "write", handler[h].request)
  /\ UNCHANGED <<topic, sent, tables, expired, listed, overtaken, crashes>>

(***************************************************************************)
(* What the transactions write.  A debit of funds in is the hub's, of funds *)
(* out the settlement account's; transferStateAndPositionUpdate moves the   *)
(* debit at the reservation and at an abort, the credit at a commit.        *)
(***************************************************************************)
Reversal(t) == [settlement |-> -Amount[t], hub |-> 0]

\* Mutant: what is taken is compared with the position before it.
CoveredBefore(t, value) == value <= 0
Covered(t, value) == value + Amount[t] <= 0

Effect(m, seen) ==
  LET t == m.transfer IN
  CASE m.action = "recordFundsIn" ->
         [state |-> "COMMITTED", change |-> [settlement |-> -Amount[t], hub |-> Amount[t]]]
    [] m.action = "recordFundsOutPrepareReserve" /\ Covered(t, seen[AccountOf[t]]) ->
         [state |-> "RESERVED", change |-> [settlement |-> Amount[t], hub |-> 0]]
    [] m.action = "recordFundsOutPrepareReserve" /\ ~Covered(t, seen[AccountOf[t]]) ->
         [state |-> "ABORTED_REJECTED", change |-> [settlement |-> 0, hub |-> 0]]
    [] m.action = "recordFundsOutCommit" ->
         [state |-> "COMMITTED", change |-> [settlement |-> 0, hub |-> -Amount[t]]]
    [] m.action = "recordFundsOutAbort" ->
         [state |-> "ABORTED_REJECTED", change |-> Reversal(t)]

(* The accounts a request writes, also those it leaves where they were.     *)
Written(m) ==
  CASE m.action = "recordFundsIn" -> {AccountOf[m.transfer], Hub}
    [] m.action = "recordFundsOutCommit" -> {Hub}
    [] OTHER -> {AccountOf[m.transfer]}

TransferStateAndPositionUpdate(h) ==
  /\ Doing(h, "write")
  /\ LET m == handler[h].request
         t == m.transfer
         e == Effect(m, handler[h].seen)
         change(p) == IF p = Hub THEN e.change.hub ELSE e.change.settlement
     IN /\ state' = [state EXCEPT ![t] = e.state]
        /\ fulfilment' = IF e.state = "RESERVED" THEN fulfilment ELSE fulfilment \union {t}
        /\ moved' = [moved EXCEPT ![t] = [k \in DOMAIN @ |-> @[k] + e.change[k]]]
        /\ position' = [p \in Place |->
             IF p \in Written(m) THEN handler[h].seen[p] + change(p) ELSE position[p]]
        /\ overtaken' = overtaken \union {p \in Written(m) : position[p] # handler[h].seen[p]}
        /\ Become(h, "offset", m)
  /\ UNCHANGED <<topic, sent, hash, expired, listed, crashes>>

CommitOffset(h) ==
  /\ Doing(h, "offset")
  /\ topic' = topic \ {handler[h].request}
  /\ handler' = [handler EXCEPT ![h] = Idle]
  /\ UNCHANGED <<sent, tables, expired, listed, overtaken, crashes>>

(***************************************************************************)
(* Time, the sweep, and death.                                             *)
(***************************************************************************)
Expire(t) ==
  /\ t \in Expirable \ expired /\ state[t] # "none"
  /\ expired' = expired \union {t}
  /\ UNCHANGED <<topic, sent, tables, handler, listed, overtaken, crashes>>

(* The sweep marks every transfer; it lists those between a payer and a     *)
(* payee, and tells the position handler of them.                           *)
RolesOf(t) == {"HUB", "DFSP_SETTLEMENT"}
Listable(t) == {"PAYER_DFSP", "PAYEE_DFSP"} \subseteq RolesOf(t)

\* Mutant: what has been committed is due too.
DueOrCommitted == {t \in expired : state[t] \in {"RESERVED", "COMMITTED"}}
Due == {t \in expired : state[t] = "RESERVED"}

Sweep ==
  /\ Due # {}
  /\ state' = [t \in Transfer |-> IF t \in Due THEN "RESERVED_TIMEOUT" ELSE state[t]]
  /\ listed' = listed \union {t \in Due : Listable(t)}
  /\ UNCHANGED <<topic, sent, hash, fulfilment, position, moved, expired, handler, overtaken, crashes>>

(* Its transaction is rolled back, and its request delivered again.         *)
Crash(h) ==
  /\ ~Doing(h, "idle") /\ crashes < MaxCrashes
  /\ handler' = [handler EXCEPT ![h] = Idle]
  /\ crashes' = crashes + 1
  /\ UNCHANGED <<topic, sent, tables, expired, listed, overtaken>>

HandlerStep(h) ==
  \/ Prepare(h) \/ ChangeStatus(h) \/ InsertFulfilment(h)
  \/ ReconciliationTransferPrepare(h) \/ TransferStateAndPositionUpdate(h) \/ CommitOffset(h)

Next ==
  \/ \E m \in Request : RecordFundsInOut(m)
  \/ \E h \in Handler : HandlerStep(h) \/ Crash(h)
  \/ \E t \in Transfer : Expire(t)
  \/ Sweep

(* Consumers and the cron job go on, and time passes; nobody owes a request.*)
Fairness ==
  /\ \A h \in Handler : WF_vars(HandlerStep(h))
  /\ WF_vars(Sweep)
  /\ \A t \in Transfer : WF_vars(Expire(t))

Spec     == Init /\ [][Next]_vars
FairSpec == Spec /\ Fairness

(***************************************************************************)
(* Properties.                                                             *)
(***************************************************************************)

(* However its commit, its abort, its expiration and redelivered requests   *)
(* interleave, what a transfer has moved is what its state says: one        *)
(* decision, both legs of a commit, none left of an abort.                  *)
Moves(t) ==
  CASE state[t] \in {"none", "ABORTED_REJECTED"} -> [settlement |-> 0, hub |-> 0]
    [] state[t] \in {"RESERVED", "RESERVED_TIMEOUT"} -> [settlement |-> Amount[t], hub |-> 0]
    [] state[t] = "COMMITTED" /\ t \in FundsIn -> [settlement |-> -Amount[t], hub |-> Amount[t]]
    [] OTHER -> [settlement |-> Amount[t], hub |-> -Amount[t]]
MovesMatchState == \A t \in Transfer : moved[t] = Moves(t)

(* An account that no two transactions read at once is worth what its       *)
(* transfers have moved, and no participant has taken out more than it had. *)
Sum(k, of) == SumFunctionOnSet([t \in of |-> moved[t][k]], of)
AccountsAddUp ==
  /\ Hub \notin overtaken => position[Hub] = Opening[Hub] + Sum("hub", Transfer)
  /\ \A a \in Account \ overtaken :
       /\ position[a] = Opening[a] + Sum("settlement", {t \in Transfer : AccountOf[t] = a})
       /\ Opening[a] <= 0 => position[a] <= 0

(* A request that has been read leads somewhere, as long as no process dies:*)
(* funds in are booked, funds out reserved or refused.                      *)
RequestsTakeEffect ==
  \A t \in Transfer : (t \in hash) ~> (state[t] # "none" \/ crashes > 0)
===============================================================================
