------------------------------ MODULE TimeoutJob ------------------------------
(***************************************************************************)
(* The timeout job (src/handlers/timeouts/handler.js) as the processes that *)
(* run it see it: the distributed lock, the segment that remembers how far  *)
(* into the state changes the job has looked, the two transactions, and the *)
(* messages that are produced after them.                                   *)
(*                                                                          *)
(* State changes carry the id their table gave them.  A handler's insert is *)
(* visible to others when its transaction commits, not when it gets its id. *)
(*                                                                          *)
(* TransferLifecycle and FxPayments say what a timeout does to a transfer   *)
(* and to the conversion it depends on; here the two tables run side by side.*)
(***************************************************************************)
EXTENDS Integers, Sequences, FiniteSets, FiniteSetsExt

CONSTANTS
  Process,      \* the processes that run the job
  Transfer, Conversion,
  MaxAttempts,  \* HANDLERS.TIMEOUT.FORWARDED_MAX_ATTEMPTS
  Expirable,    \* bound: those whose expirationDate may pass
  Reached,      \* bound: the states the other handlers may bring each id to
  Troubled,     \* bound: the steps of which processes each fault may strike
  MaxFaults     \* bound: how often

NoOne == "no one"
State == {"RECEIVED_PREPARE", "RESERVED", "RESERVED_FORWARDED", "RECEIVED_FULFIL",
          "RECEIVED_FULFIL_DEPENDENT", "RESERVED_TIMEOUT", "EXPIRED_PREPARED", "EXPIRED_RESERVED"}
Fault == {"fail", "die", "lapse"}
Id    == Transfer \union Conversion
Step  == {"idle", "read", "expire", "list", "forward", "produce", "count"}

ASSUME JobAssumption ==
  /\ NoOne \notin Process
  /\ Transfer \intersect Conversion = {}
  /\ MaxAttempts \in Nat
  /\ Expirable \subseteq Id
  /\ Reached \in [Id -> SUBSET State]
  /\ Troubled \in [Fault -> [Process -> SUBSET (Step \ {"idle"})]] /\ MaxFaults \in Nat

VARIABLES
  rows,        \* transferStateChange and fxTransferStateChange: id is the index
  expired,     \* whose expirationDate has passed
  segment,     \* segment.value of each table, 0 when there is no row
  timeoutRow,  \* transferTimeout and fxTransferTimeout: who has a row
  attempts,    \* transferForwarded and fxTransferForwarded: attemptCount by id
  lock,        \* the holder of the distributed lock
  run,         \* what a process has read in the run it is in
  sent,        \* auxiliary: position timeout messages produced
  asked,       \* auxiliary: GET notifications produced
  faults       \* auxiliary: the faults there have been

tables == <<rows, expired, segment, timeoutRow, attempts>>
vars   == <<tables, lock, run, sent, asked, faults>>

Table == {"transferStateChange", "fxTransferStateChange"}
TableOf(x) == IF x \in Transfer THEN "transferStateChange" ELSE "fxTransferStateChange"
IdsOf(tab) == IF tab = "transferStateChange" THEN Transfer ELSE Conversion

Row   == [id : Id, state : State, committed : BOOLEAN]
Idle  == [pc |-> "idle", from |-> [tab \in Table |-> 0], to |-> [tab \in Table |-> 0],
          list |-> {}, ask |-> {}]
Run   == [pc : Step, from : [Table -> Nat], to : [Table -> Nat], list : SUBSET Id, ask : SUBSET Id]

FaultCount == faults["fail"] + faults["die"] + faults["lapse"]

TypeOK ==
  /\ rows \in [Table -> Seq(Row)]
  /\ \A tab \in Table : \A i \in DOMAIN rows[tab] : TableOf(rows[tab][i].id) = tab
  /\ expired \subseteq Id
  /\ segment \in [Table -> Nat] /\ \A tab \in Table : segment[tab] <= Len(rows[tab])
  /\ timeoutRow \subseteq Id
  /\ DOMAIN attempts \subseteq Id /\ \A x \in DOMAIN attempts : attempts[x] \in 0..(MaxAttempts + faults["lapse"])
  /\ lock \in Process \union {NoOne}
  /\ run \in [Process -> Run]
  /\ sent \in [Id -> Nat] /\ asked \in [Id -> Nat]
  /\ faults \in [Fault -> Nat] /\ FaultCount <= MaxFaults

Init ==
  /\ rows = [tab \in Table |-> <<>>]
  /\ expired = {}
  /\ segment = [tab \in Table |-> 0]
  /\ timeoutRow = {}
  /\ attempts = [x \in {} |-> 0]
  /\ lock = NoOne
  /\ run = [p \in Process |-> Idle]
  /\ sent = [x \in Id |-> 0] /\ asked = [x \in Id |-> 0]
  /\ faults = [f \in Fault |-> 0]

(***************************************************************************)
(* The tables.                                                             *)
(***************************************************************************)
Of(x) == {i \in DOMAIN rows[TableOf(x)] :
            rows[TableOf(x)][i].id = x /\ rows[TableOf(x)][i].committed}
Open(x) == \E i \in DOMAIN rows[TableOf(x)] :
            rows[TableOf(x)][i].id = x /\ ~rows[TableOf(x)][i].committed
(* The state of the latest of some rows.                                   *)
Latest(x, is) == IF is = {} THEN "none" ELSE rows[TableOf(x)][Max(is)].state
StateOf(x) == Latest(x, Of(x))

(***************************************************************************)
(* The other handlers, one state change at a time: its row gets its id, and *)
(* later its transaction commits.                                          *)
(***************************************************************************)
Successors(x) ==
  [none |-> {"RECEIVED_PREPARE"},
   RECEIVED_PREPARE |-> {"RESERVED"},
   RESERVED |-> {"RESERVED_FORWARDED",
                 IF x \in Transfer THEN "RECEIVED_FULFIL" ELSE "RECEIVED_FULFIL_DEPENDENT"},
   RESERVED_FORWARDED |-> {IF x \in Transfer THEN "RECEIVED_FULFIL" ELSE "RECEIVED_FULFIL_DEPENDENT"},
   RESERVED_TIMEOUT |-> IF sent[x] > 0 THEN {"EXPIRED_RESERVED"} ELSE {}]

InsertStateChange(x) ==
  /\ ~Open(x)
  /\ StateOf(x) \in DOMAIN Successors(x)
  /\ \E s \in Successors(x)[StateOf(x)] \intersect Reached[x] :
       rows' = [rows EXCEPT ![TableOf(x)] = Append(@, [id |-> x, state |-> s, committed |-> FALSE])]
  /\ UNCHANGED <<expired, segment, timeoutRow, attempts, lock, run, sent, asked, faults>>

CommitStateChange(x) ==
  \E i \in DOMAIN rows[TableOf(x)] :
    /\ rows[TableOf(x)][i].id = x /\ ~rows[TableOf(x)][i].committed
    /\ rows' = [rows EXCEPT ![TableOf(x)][i].committed = TRUE]
    /\ UNCHANGED <<expired, segment, timeoutRow, attempts, lock, run, sent, asked, faults>>

Expire(x) ==
  /\ x \in Expirable \ expired /\ StateOf(x) # "none"
  /\ expired' = expired \union {x}
  /\ UNCHANGED <<rows, segment, timeoutRow, attempts, lock, run, sent, asked, faults>>

(***************************************************************************)
(* A run of the job.                                                       *)
(***************************************************************************)
At(p, step)   == run[p].pc = step
Goto(p, step) == run' = [run EXCEPT ![p].pc = step]

(* A tick of the cron job while the process is in a run, or while another   *)
(* process has the lock, does nothing.                                      *)
\* Mutant: the lock is not asked for.
LockIgnored(p) == TRUE
Acquired(p) == lock = NoOne

Tick(p) ==
  /\ At(p, "idle")
  /\ Acquired(p)
  /\ lock' = p
  /\ Goto(p, "read")
  /\ UNCHANGED <<tables, sent, asked, faults>>

\* Mutant: what is marked already keeps its row.
CleanedButMarked == {"RECEIVED_FULFIL", "EXPIRED_PREPARED", "EXPIRED_RESERVED"}
Cleaned == {"RECEIVED_FULFIL", "RESERVED_TIMEOUT", "EXPIRED_PREPARED", "EXPIRED_RESERVED"}

LatestCommitted(tab) ==
  Max({0} \union {i \in DOMAIN rows[tab] : rows[tab][i].committed})

(* The segments, the cleanups and the latest ids; the two tables have no    *)
(* part in each other's.                                                    *)
ReadIntervals(p) ==
  /\ At(p, "read")
  /\ timeoutRow' = {x \in timeoutRow : StateOf(x) \notin Cleaned}
  /\ run' = [run EXCEPT ![p].from = segment, ![p].to = [tab \in Table |-> LatestCommitted(tab)],
                        ![p].pc = "expire"]
  /\ UNCHANGED <<rows, expired, segment, attempts, lock, sent, asked, faults>>

(* The ids whose latest state change of the interval is one of some states. *)
Within(p, x) == {i \in Of(x) : run[p].from[TableOf(x)] < i /\ i <= run[p].to[TableOf(x)]}
Found(p, states) == {x \in Id : Latest(x, Within(p, x)) \in states}

Watched(p) == timeoutRow \union Found(p, {"RECEIVED_PREPARE", "RESERVED"})

(* INSERT ... SELECT reads with locks: it waits for the state changes of the*)
(* interval, and for those of the ids it watches, that are not committed.   *)
\* Mutant: it reads what is committed, and does not wait.
ReadCommitted(p) == TRUE
NothingOpen(p) ==
  \A tab \in Table : \A i \in DOMAIN rows[tab] :
    ~rows[tab][i].committed => i > run[p].to[tab] /\ rows[tab][i].id \notin Watched(p)

Marked == [RECEIVED_PREPARE |-> "EXPIRED_PREPARED", RESERVED |-> "RESERVED_TIMEOUT",
           RECEIVED_FULFIL_DEPENDENT |-> "RESERVED_TIMEOUT"]
Due(p) == {x \in Watched(p) \intersect expired : StateOf(x) \in DOMAIN Marked}

(* A row for each id that is due, in any order.                             *)
Marks(p, tab) ==
  LET due == Due(p) \intersect IdsOf(tab)
      ord == CHOOSE f \in [1..Cardinality(due) -> due] : \A x \in due : \E i \in DOMAIN f : f[i] = x
  IN [i \in 1..Cardinality(due) |-> [id |-> ord[i], state |-> Marked[StateOf(ord[i])], committed |-> TRUE]]

\* Mutant: the segment is moved past what the run has looked at.
SegmentAtLatest(p) == [tab \in Table |-> LatestCommitted(tab)]
SegmentAfter(p) == run[p].to

TimeoutExpireReserved(p) ==
  /\ At(p, "expire")
  /\ NothingOpen(p)
  /\ timeoutRow' = Watched(p)
  /\ rows' = [tab \in Table |-> rows[tab] \o Marks(p, tab)]
  /\ segment' = SegmentAfter(p)
  /\ Goto(p, "list")
  /\ UNCHANGED <<expired, attempts, lock, sent, asked, faults>>

(* _getTransferList and _getFxTransferList, a query after the transaction:  *)
(* what is marked has moved an account.                                     *)
ListTimedOut(p) ==
  /\ At(p, "list")
  /\ run' = [run EXCEPT ![p].list = {x \in timeoutRow \intersect expired : StateOf(x) = "RESERVED_TIMEOUT"},
                        ![p].pc = "forward"]
  /\ UNCHANGED <<tables, lock, sent, asked, faults>>

(* The second transaction, for what a proxy has forwarded, and its list.    *)
\* Mutants: one attempt too many, one too few.
OneMore(n) == n <= MaxAttempts
OneLess(n) == n < MaxAttempts - 1
MayAsk(n) == n < MaxAttempts

ReservedForwardedTransfers(p) ==
  /\ At(p, "forward")
  /\ LET new == Found(p, {"RESERVED_FORWARDED"}) \ DOMAIN attempts
     IN attempts' = [x \in DOMAIN attempts \union new |-> IF x \in new THEN 0 ELSE attempts[x]]
  /\ run' = [run EXCEPT ![p].ask = {x \in DOMAIN attempts' \intersect expired :
                                      MayAsk(attempts'[x]) /\ StateOf(x) = "RESERVED_FORWARDED"},
                        ![p].pc = "produce"]
  /\ UNCHANGED <<rows, expired, segment, timeoutRow, lock, sent, asked, faults>>

(* _processTimedOutTransfers and its FX twin, one message a step.           *)
ProcessTimedOut(p) ==
  /\ At(p, "produce")
  /\ \E x \in run[p].list :
       /\ run' = [run EXCEPT ![p].list = @ \ {x}]
       /\ sent' = [sent EXCEPT ![x] = @ + 1]
  /\ UNCHANGED <<tables, lock, asked, faults>>

(* _processForwardedTransfers: the message first, then the count.           *)
ProcessForwarded(p) ==
  /\ At(p, "produce") /\ run[p].list = {}
  /\ \E x \in run[p].ask :
       /\ asked' = [asked EXCEPT ![x] = @ + 1]
       /\ run' = [run EXCEPT ![p].list = {x}, ![p].ask = @ \ {x}, ![p].pc = "count"]
  /\ UNCHANGED <<tables, lock, sent, faults>>

IncrementForwardedAttemptCount(p) ==
  /\ At(p, "count")
  /\ \E x \in run[p].list : attempts' = [attempts EXCEPT ![x] = @ + 1]
  /\ run' = [run EXCEPT ![p].list = {}, ![p].pc = "produce"]
  /\ UNCHANGED <<rows, expired, segment, timeoutRow, lock, sent, asked, faults>>

(* The finally block: a lock that has been lost in the meantime is not      *)
(* released for whoever has it now.                                         *)
LockAfter(p) == IF lock = p THEN NoOne ELSE lock
EndRun(p) == run' = [run EXCEPT ![p] = Idle]

Finish(p) ==
  /\ At(p, "produce") /\ run[p].list = {} /\ run[p].ask = {}
  /\ lock' = LockAfter(p)
  /\ EndRun(p)
  /\ UNCHANGED <<tables, sent, asked, faults>>

(***************************************************************************)
(* What goes wrong.                                                        *)
(***************************************************************************)
Happens(f, p) ==
  /\ run[p].pc \in Troubled[f][p] /\ FaultCount < MaxFaults
  /\ faults' = [faults EXCEPT ![f] = @ + 1]

(* The database or Kafka refuses: the run is over, and what it had listed   *)
(* with it.                                                                 *)
Fail(p) ==
  /\ Happens("fail", p)
  /\ lock' = LockAfter(p)
  /\ EndRun(p)
  /\ UNCHANGED <<tables, sent, asked>>

(* The process dies; nobody extends its lock, which expires.                *)
Die(p) ==
  /\ Happens("die", p)
  /\ EndRun(p)
  /\ UNCHANGED <<tables, lock, sent, asked>>

LockExpires(p) ==
  /\ lock = p /\ At(p, "idle")
  /\ lock' = NoOne
  /\ UNCHANGED <<tables, run, sent, asked, faults>>

(* The lock cannot be extended in time, and expires under a run.            *)
Lapse(p) ==
  /\ lock = p /\ Happens("lapse", p)
  /\ lock' = NoOne
  /\ UNCHANGED <<tables, run, sent, asked>>

(***************************************************************************)
(* The system.                                                             *)
(***************************************************************************)
RunStep(p) ==
  \/ Tick(p) \/ ReadIntervals(p) \/ TimeoutExpireReserved(p)
  \/ ListTimedOut(p) \/ ReservedForwardedTransfers(p) \/ ProcessTimedOut(p)
  \/ ProcessForwarded(p) \/ IncrementForwardedAttemptCount(p) \/ Finish(p)

Next ==
  \/ \E x \in Id : InsertStateChange(x) \/ CommitStateChange(x) \/ Expire(x)
  \/ \E p \in Process : RunStep(p) \/ Fail(p) \/ Die(p) \/ LockExpires(p) \/ Lapse(p)

(* The cron job ticks and runs go on, a lock nobody extends expires, and    *)
(* transactions and time come to their end.  Of several processes one gets  *)
(* the lock, not each of them; and no handler owes a state change.          *)
Fairness ==
  /\ WF_vars(\E p \in Process : RunStep(p))
  /\ WF_vars(\E p \in Process : LockExpires(p))
  /\ WF_vars(\E x \in Id : CommitStateChange(x))
  /\ WF_vars(\E x \in Id : Expire(x))

Spec     == Init /\ [][Next]_vars
FairSpec == Spec /\ Fairness

(***************************************************************************)
(* Properties.                                                             *)
(***************************************************************************)

(* The segment hides nothing: an id whose state changes the job will not    *)
(* look at again, and which can still expire, is in the timeout tables.     *)
NothingOverlooked ==
  \A x \in Id :
    LET is == Of(x) IN
    is # {} /\ ~Open(x) /\ Max(is) <= segment[TableOf(x)]
       /\ StateOf(x) \in {"RECEIVED_PREPARE", "RESERVED"}
    => x \in timeoutRow

(* The position handler is told of a timeout once, however many processes   *)
(* run the job and wherever one of them stops: a batch with a second message*)
(* would be rolled back.                                                    *)
OneTimeoutMessage == faults["lapse"] = 0 => \A x \in Id : sent[x] <= 1

(* Whatever has failed, the job goes on: what is reserved and out of time   *)
(* does not stay so.                                                        *)
JobGoesOn ==
  \A x \in Expirable : (StateOf(x) = "RESERVED" /\ x \in expired) ~> (StateOf(x) # "RESERVED")

(* As long as nothing fails, what is timed out is given back, and what was  *)
(* forwarded is asked about as often as it may be.                          *)
Undisturbed == \A f \in Fault : faults[f] = 0
TimeoutsAreSent ==
  \A x \in Expirable :
    /\ (StateOf(x) = "RESERVED_TIMEOUT") ~> (sent[x] = 1 \/ ~Undisturbed)
    /\ (StateOf(x) = "RESERVED_FORWARDED" /\ x \in expired) ~>
         (asked[x] = MaxAttempts \/ StateOf(x) # "RESERVED_FORWARDED" \/ ~Undisturbed)
===============================================================================
