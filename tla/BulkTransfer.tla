----------------------------- MODULE BulkTransfer -----------------------------
(***************************************************************************)
(* One bulk transfer: the bulk prepare, fulfil and processing handlers      *)
(* (src/handlers/bulk) and their tables (src/models/bulkTransfer).          *)
(*                                                                          *)
(* A bulk is taken apart into transfers, each of which goes through the     *)
(* handlers of ordinary transfers on its own.  The processing handler sees  *)
(* their results one by one, in any order and in several processes, and     *)
(* finds out from the associations whether it has seen the last.  None of   *)
(* its reads and writes share a transaction.                                *)
(***************************************************************************)
EXTENDS Integers, FiniteSets

CONSTANTS
  Transfer,     \* the individual transfers of the bulk
  Processor,    \* the processes that consume the bulk processing topic
  Expirable,    \* bound: the transfers whose expiration may pass
  MaxPrepares,  \* bound: how often the payer sends its request
  MaxFulfils,   \* bound: how often the payee answers
  MaxFaults     \* bound: processes that die and transfers that expire

ASSUME BulkAssumption ==
  /\ Transfer # {} /\ Expirable \subseteq Transfer
  /\ MaxPrepares \in Nat /\ MaxFulfils \in Nat /\ MaxFaults \in Nat

VARIABLES
  requests,     \* bulk prepare messages that were read
  answers,      \* bulk fulfil messages that were read
  hash, fulfilHash,  \* the two duplicate checks
  state,        \* the latest bulkTransferStateChange
  payee,        \* bulkTransfer.payeeParticipantId
  association,  \* bulkTransferAssociation.bulkProcessingStateId
  toPrepare,    \* messages to the prepare handler of transfers
  toFulfil,     \* messages to their fulfil handler
  transfer,     \* the state of each transfer
  late,         \* the transfers whose expiration has passed
  results,      \* messages of the bulk processing topic
  streamer,     \* what the prepare handler is doing
  answerer,     \* what the fulfil handler is doing
  aborting,     \* an ABORTING state whose insert nobody waits for
  processor,    \* what each processing handler is doing
  asked,        \* notifications to the payee: the transfers it is asked for
  told,         \* notifications to the payer: a state of the bulk, or an error
  disturbed,    \* auxiliary: what happened out of the order the handlers expect
  faults        \* auxiliary: processes that died, transfers that expired

bulk     == <<state, payee>>
tables   == <<hash, fulfilHash, bulk, association>>
chain    == <<toPrepare, toFulfil, transfer, late>>
notices  == <<asked, told>>
vars     == <<requests, answers, tables, chain, results, streamer, answerer, aborting, processor, notices,
              disturbed, faults>>

Fsp    == {"payer", "payee", "closed", "stranger"}
Active == {"payer", "payee"}
Known  == Active \union {"closed"}
BulkRequest == [payerFsp : Fsp, payeeFsp : Fsp, from : Fsp, to : Fsp, timely : BOOLEAN]
BulkAnswer  == [from : Fsp, to : Fsp \union {"hub"}, timely : BOOLEAN]
BulkState == {"none", "RECEIVED", "INVALID", "PENDING_PREPARE", "ACCEPTED", "PROCESSING", "PENDING_FULFIL",
              "COMPLETED", "EXPIRING", "ABORTING", "REJECTED"}
ProcessingState == {"none", "RECEIVED", "RECEIVED_INVALID", "ACCEPTED", "PROCESSING", "FULFIL_INVALID",
                    "COMPLETED", "REJECTED", "EXPIRED", "ABORTING"}
Ask(t, action) == [transfer |-> t, action |-> action]
Result(t, action, ok) == [transfer |-> t, action |-> action, ok |-> ok]
FulfilAction == {"BULK_COMMIT", "BULK_ABORT"}
ResultAction == FulfilAction \union {"BULK_PREPARE", "COMMIT", "BULK_TIMEOUT_RECEIVED", "BULK_TIMEOUT_RESERVED"}
Disturbance  == {"early", "late", "overtook", "raced", "slipped", "unsaved", "crash"}
Idle == [step |-> "idle"]

TypeOK ==
  /\ requests \in 0..MaxPrepares /\ answers \in 0..MaxFulfils /\ faults \in 0..MaxFaults
  /\ hash \in BOOLEAN /\ fulfilHash \in BOOLEAN /\ aborting \in BOOLEAN
  /\ state \in BulkState /\ (state # "none" => hash)
  /\ payee \in Known \union {"none"}
  /\ association \in [Transfer -> ProcessingState]
  /\ transfer \in [Transfer -> {"none", "RESERVED", "COMMITTED", "ABORTED"}]
  /\ toPrepare \subseteq Transfer /\ late \subseteq Expirable
  /\ toFulfil \subseteq [transfer : Transfer, action : FulfilAction]
  /\ results \subseteq [transfer : Transfer, action : ResultAction, ok : BOOLEAN]
  /\ \A r \in results : association[r.transfer] # "none" \/ r = Result(r.transfer, "COMMIT", FALSE)
  /\ asked \subseteq SUBSET Transfer
  /\ told \subseteq BulkState \union {"error"}
  /\ disturbed \subseteq Disturbance

Init ==
  /\ requests = 0 /\ answers = 0 /\ faults = 0
  /\ hash = FALSE /\ fulfilHash = FALSE /\ aborting = FALSE
  /\ state = "none" /\ payee = "none"
  /\ association = [t \in Transfer |-> "none"]
  /\ transfer = [t \in Transfer |-> "none"]
  /\ toPrepare = {} /\ toFulfil = {} /\ late = {} /\ results = {}
  /\ streamer = Idle /\ answerer = Idle
  /\ processor = [p \in Processor |-> Idle]
  /\ asked = {} /\ told = {} /\ disturbed = {}

-----------------------------------------------------------------------------
(* The bulk prepare handler.                                                *)

Final == {"COMPLETED", "REJECTED"}

(* A request: its hash is stored on its own.  A repeated one is answered    *)
(* once the bulk is final, and ignored before; one that differs is refused. *)
BulkPrepare ==
  /\ requests < MaxPrepares /\ streamer = Idle
  /\ requests' = requests + 1
  /\ hash' = TRUE
  /\ \/ ~hash /\ streamer' = [step |-> "save"] /\ UNCHANGED told
     \/ hash /\ told' = told \union ({state} \intersect Final) /\ UNCHANGED streamer
     \/ hash /\ told' = told \union {"error"} /\ UNCHANGED streamer
  /\ UNCHANGED <<answers, fulfilHash, bulk, association, chain, results, answerer, aborting, processor, asked,
                 disturbed, faults>>

(* The checks of a request, in the order they are made.                     *)
FspiopSourceMatchesPayer(q) == q.from = q.payerFsp
DifferentFsp(q)             == q.payerFsp # q.payeeFsp
ParticipantByName(f)        == f \in Active
PayerFound(q) ==
  FspiopSourceMatchesPayer(q) /\ q.timely /\ DifferentFsp(q) /\ ParticipantByName(q.payerFsp)
ValidateBulkTransfer(q) == PayerFound(q) /\ ParticipantByName(q.payeeFsp) /\ ParticipantByName(q.to)

(* The payee that is stored is the one the checks got to.                   *)
PayeeParticipantId(q) == IF PayerFound(q) /\ q.payeeFsp \in Known THEN q.payeeFsp ELSE "none"

(* saveBulkTransferReceived, of a request that is valid or of one that is   *)
(* not.                                                                     *)
SaveBulkTransferReceived ==
  /\ streamer.step = "save"
  /\ \E q \in BulkRequest :
       /\ q.payerFsp # "payee"  \* the active participants trade places
       /\ payee' = PayeeParticipantId(q)
       /\ \/ /\ ValidateBulkTransfer(q)
             /\ state' = "RECEIVED" /\ streamer' = [step |-> "stream", left |-> Transfer]
             /\ UNCHANGED told
          \/ /\ ~ValidateBulkTransfer(q)
             /\ state' = "INVALID" /\ streamer' = Idle /\ told' = told \union {"error"}
  /\ UNCHANGED <<requests, answers, hash, fulfilHash, association, chain, results, answerer, aborting, processor,
                 asked, disturbed, faults>>

\* Mutant: a transfer is sent before its association is stored.
SendFirst(t, step) ==
  IF step = "stream" THEN toPrepare' = toPrepare \union {t} /\ UNCHANGED association
  ELSE association' = [association EXCEPT ![t] = "RECEIVED"] /\ UNCHANGED toPrepare

Store(t, step) ==
  IF step = "stream" THEN association' = [association EXCEPT ![t] = "RECEIVED"] /\ UNCHANGED toPrepare
  ELSE toPrepare' = toPrepare \union {t} /\ UNCHANGED association

(* bulkTransferAssociationCreate for the next transfer of the bulk, then the*)
(* message to the prepare handler.                                          *)
Stream ==
  /\ \/ /\ streamer.step = "stream"
        /\ \E t \in streamer.left :
             /\ Store(t, "stream")
             /\ streamer' = [step |-> "send", transfer |-> t, left |-> streamer.left \ {t}]
     \/ /\ streamer.step = "send"
        /\ Store(streamer.transfer, "send")
        /\ streamer' = IF streamer.left = {} THEN Idle ELSE [step |-> "stream", left |-> streamer.left]
  /\ UNCHANGED <<requests, answers, hash, fulfilHash, bulk, toFulfil, transfer, late, results, answerer, aborting,
                 processor, notices, disturbed, faults>>

-----------------------------------------------------------------------------
(* The handlers of transfers, as far as a bulk sees them.  A commit that    *)
(* finds its transfer expired or not reserved is refused, with the action of*)
(* an ordinary one; one with a bad fulfilment aborts the transfer and is not*)
(* reported.                                                                *)

Becomes(t, s) == transfer' = [transfer EXCEPT ![t] = s]
Report(r)     == results' = results \union {r}

Prepare(t) ==
  /\ t \in toPrepare
  /\ toPrepare' = toPrepare \ {t}
  /\ \/ transfer[t] = "none" /\ Becomes(t, "RESERVED") /\ Report(Result(t, "BULK_PREPARE", TRUE))
     \/ Becomes(t, "ABORTED") /\ Report(Result(t, "BULK_PREPARE", FALSE))
  /\ UNCHANGED <<requests, answers, tables, toFulfil, late, streamer, answerer, aborting, processor, notices,
                 disturbed, faults>>

Fulfil(m) ==
  /\ m \in toFulfil
  /\ toFulfil' = toFulfil \ {m}
  /\ LET t == m.transfer
         open == transfer[t] = "RESERVED" /\ t \notin late
     IN \/ /\ open /\ m.action = "BULK_COMMIT"
           /\ \/ Becomes(t, "COMMITTED") /\ Report(Result(t, "BULK_COMMIT", TRUE))
              \/ Becomes(t, "ABORTED") /\ UNCHANGED results
        \/ open /\ m.action = "BULK_ABORT" /\ Becomes(t, "ABORTED") /\ Report(Result(t, "BULK_ABORT", FALSE))
        \/ ~open /\ UNCHANGED transfer /\ Report(Result(t, "COMMIT", FALSE))
  /\ UNCHANGED <<requests, answers, tables, toPrepare, late, streamer, answerer, aborting, processor, notices,
                 disturbed, faults>>

Expire(t) ==
  /\ t \in Expirable \ late /\ association[t] # "none"
  /\ faults < MaxFaults /\ faults' = faults + 1
  /\ late' = late \union {t}
  /\ disturbed' = disturbed \union {"late"}
  /\ UNCHANGED <<requests, answers, tables, toPrepare, toFulfil, transfer, results, streamer, answerer, aborting,
                 processor, notices>>

(* The timeout handler.  A transfer that has no position reserved yet has no*)
(* place on its list, and nobody is told that it expired.                   *)
TimeOut(t) ==
  /\ t \in late
  /\ \/ transfer[t] = "none" /\ t \in toPrepare /\ UNCHANGED results
     \/ transfer[t] = "RESERVED" /\ Report(Result(t, "BULK_TIMEOUT_RESERVED", FALSE))
  /\ Becomes(t, "ABORTED")
  /\ UNCHANGED <<requests, answers, tables, toPrepare, toFulfil, late, streamer, answerer, aborting, processor,
                 notices, disturbed, faults>>

-----------------------------------------------------------------------------
(* The bulk processing handler.                                             *)

In(states) == {t \in Transfer : association[t] \in states}

(* The transfers of the bulk that have been stored, and of them those that  *)
(* match the state of the bulk; the payee is given all where none does.     *)
Individual == {t \in Transfer : association[t] # "none" /\ transfer[t] # "none"}
Matching ==
  CASE state = "ACCEPTED"  -> In({"ACCEPTED"}) \intersect Individual
    [] state = "COMPLETED" -> In({"FULFIL_INVALID", "COMPLETED", "REJECTED", "EXPIRED", "ABORTING"})
    [] OTHER -> {}
PayeeTransfers == IF Matching # {} THEN Matching ELSE Individual

\* Mutant: transfers that were refused keep no error.
NoError == {}
WithError == In({"RECEIVED_INVALID", "FULFIL_INVALID", "REJECTED", "EXPIRED"})

Answered == {"PROCESSING", "PENDING_FULFIL", "EXPIRING"}

(* What a result means to a bulk in state s: the new state of its           *)
(* association, the state that keeps the bulk incomplete, and the two       *)
(* states the bulk may go to.                                               *)
Plan(s, r) ==
  LET timeout == r.action \in {"BULK_TIMEOUT_RECEIVED", "BULK_TIMEOUT_RESERVED"}
      plan(a, criteria, incomplete, complete) ==
        {[association |-> a, criteria |-> criteria, incomplete |-> incomplete, complete |-> complete]}
  IN CASE s \in {"RECEIVED", "PENDING_PREPARE"} /\ r.action = "BULK_PREPARE" ->
            plan(IF r.ok THEN "ACCEPTED" ELSE "RECEIVED_INVALID", "RECEIVED", "PENDING_PREPARE", "ACCEPTED")
       [] s \in {"RECEIVED", "PENDING_PREPARE"} /\ timeout ->
            plan("EXPIRED", "RECEIVED", "EXPIRING", "COMPLETED")
       [] s = "ACCEPTED" /\ r.action = "BULK_TIMEOUT_RESERVED" ->
            plan("EXPIRED", "ACCEPTED", "EXPIRING", "COMPLETED")
       [] s \in Answered /\ r.action \in {"BULK_COMMIT", "COMMIT"} ->
            plan(IF r.ok THEN "COMPLETED" ELSE "FULFIL_INVALID", "PROCESSING", "PENDING_FULFIL", "COMPLETED")
       [] s \in Answered /\ r.action = "BULK_TIMEOUT_RESERVED" ->
            plan("EXPIRED", "PROCESSING", "EXPIRING", "COMPLETED")
       [] s \in Answered /\ r.action = "BULK_ABORT" ->
            plan("REJECTED", "PROCESSING", "PENDING_FULFIL", "REJECTED")
       [] s = "ABORTING" /\ r.action = "BULK_ABORT" ->
            plan("FULFIL_INVALID", "ABORTING", "ABORTING", "REJECTED")
       [] OTHER -> {}

At(p, step) == processor[p].step = step
Goes(p, w) == processor' = [processor EXCEPT ![p] = w]
Taken(r) == \E p \in Processor : ~At(p, "idle") /\ processor[p].result = r
Between(p) == ~At(p, "idle") /\ ~At(p, "notify")

\* What disturbs the handler when it reads the state of the bulk.
Disturbing(p) ==
  {d \in {"raced", "overtook", "unsaved"} :
     \/ d = "raced" /\ \E q \in Processor \ {p} : Between(q)
     \/ d = "overtook" /\ state \in {"RECEIVED", "PENDING_PREPARE"} /\ streamer # Idle
     \/ d = "overtook" /\ state = "ABORTING" /\ answerer # Idle
     \/ d = "unsaved" /\ aborting}

(* getBulkTransferState, by the id of the transfer, decides what becomes of *)
(* a result: one the state does not expect is an error, and gone, as is one *)
(* of a transfer that has no association.                                   *)
Read(p) ==
  /\ At(p, "idle")
  /\ \E r \in results :
       /\ ~Taken(r)
       /\ disturbed' = disturbed \union Disturbing(p)
       /\ \/ /\ association[r.transfer] = "none" \/ Plan(state, r) = {}
             /\ results' = results \ {r}
             /\ UNCHANGED processor
          \/ /\ association[r.transfer] # "none"
             /\ \E plan \in Plan(state, r) :
                  Goes(p, [step |-> "update", result |-> r, read |-> state, plan |-> plan])
             /\ UNCHANGED results
  /\ UNCHANGED <<requests, answers, tables, chain, streamer, answerer, aborting, notices, faults>>

Update(p) ==
  /\ At(p, "update")
  /\ association' = [association EXCEPT ![processor[p].result.transfer] = processor[p].plan.association]
  /\ Goes(p, [processor[p] EXCEPT !.step = "exists"])
  /\ UNCHANGED <<requests, answers, hash, fulfilHash, bulk, chain, results, streamer, answerer, aborting, notices,
                 disturbed, faults>>

\* Mutant: transfers that the fulfil handler has yet to send do not count.
OnlyThoseSent(criteria) == criteria
SecondCriteria(criteria) == IF criteria = "PROCESSING" THEN "ACCEPTED" ELSE criteria

Decided(w, exists) ==
  [step |-> "write", result |-> w.result, read |-> w.read, plan |-> w.plan,
   next |-> IF exists THEN w.plan.incomplete ELSE w.plan.complete]

(* bulkTransferAssociationExists: one query, or one for PROCESSING and then *)
(* one for ACCEPTED.                                                        *)
Exists(p) ==
  /\ At(p, "exists")
  /\ LET w == processor[p]
         exists == In({w.plan.criteria}) # {}
         again == ~exists /\ SecondCriteria(w.plan.criteria) # w.plan.criteria
     IN Goes(p, IF again THEN [w EXCEPT !.step = "again"] ELSE Decided(w, exists))
  /\ UNCHANGED <<requests, answers, tables, chain, results, streamer, answerer, aborting, notices, disturbed, faults>>

ExistsAgain(p) ==
  /\ At(p, "again")
  /\ LET w == processor[p]
     IN Goes(p, Decided(w, In({SecondCriteria(w.plan.criteria)}) # {}))
  /\ UNCHANGED <<requests, answers, tables, chain, results, streamer, answerer, aborting, notices, disturbed, faults>>

(* createBulkTransferState, over whatever the state is by now.              *)
Write(p) ==
  /\ At(p, "write")
  /\ LET w == processor[p]
         complete == w.next = w.plan.complete
     IN /\ state' = IF w.next # w.read THEN w.next ELSE state
        /\ results' = IF complete THEN results ELSE results \ {w.result}
        /\ Goes(p, IF complete THEN [step |-> "notify", result |-> w.result] ELSE Idle)
  /\ UNCHANGED <<requests, answers, hash, fulfilHash, payee, association, chain, streamer, answerer, aborting, notices,
                 disturbed, faults>>

(* The payee is asked for what has been accepted, if anything has; or payer *)
(* and payee are told how the bulk ended; or, where a refused commit came   *)
(* last, that there was an error.                                           *)
Notify(p) ==
  /\ At(p, "notify")
  /\ LET action == processor[p].result.action
         asking == PayeeTransfers \ WithError
     IN /\ asked' = IF action = "BULK_PREPARE" THEN asked \union ({asking} \ {{}}) ELSE asked
        /\ told' = told \union CASE action = "BULK_PREPARE" -> {}
                                 [] action = "COMMIT" -> {"error"}
                                 [] OTHER -> {state}
  /\ results' = results \ {processor[p].result}
  /\ Goes(p, Idle)
  /\ UNCHANGED <<requests, answers, tables, chain, streamer, answerer, aborting, disturbed, faults>>

-----------------------------------------------------------------------------
(* The bulk fulfil handler.                                                 *)

(* An answer: its hash first; a repeated one goes no further.  The hash     *)
(* refers to the bulk, which must be there; whether the payee was asked, or *)
(* the answer is the payee's, nobody looks at.                              *)
BulkFulfil ==
  /\ answers < MaxFulfils /\ answerer = Idle /\ state # "none"
  /\ answers' = answers + 1
  /\ fulfilHash' = TRUE
  /\ answerer' = IF fulfilHash THEN Idle ELSE [step |-> "save"]
  /\ disturbed' = disturbed \union {d \in {"early"} : asked = {}}
  /\ UNCHANGED <<requests, hash, bulk, association, chain, results, streamer, aborting, processor, notices,
                 faults>>

(* What is left to send; an invalid answer ends with a notice.              *)
Sending(as, list) ==
  /\ answerer' = IF list = {} THEN Idle ELSE [step |-> "stream", as |-> as, left |-> list]
  /\ told' = told \union {n \in {"error"} : list = {} /\ as = "ABORTING"}

(* getParticipantsById: a bulk is found together with both its participants.*)
Participants == IF state = "none" \/ payee = "none" THEN {} ELSE {"payer", payee}

FspiopSourceAndDestination(a) == a.from = payee /\ a.to \in {"payer", "hub"}
ValidateBulkTransferFulfilment(a) == FspiopSourceAndDestination(a) /\ a.timely

(* saveBulkTransferProcessing, of an answer with a fulfilment or none for   *)
(* whichever transfers it lists; saveBulkTransferErrorProcessing, of an     *)
(* error; and, of an answer that fails its checks, whoever sent it,         *)
(* bulkFulfilTransitionToAborting, which does not wait for its transaction. *)
(* Without a payee the checks fail with a TypeError.                        *)
SaveAnswer ==
  /\ answerer.step = "save"
  /\ \/ /\ Participants = {}
        /\ answerer' = Idle
        /\ UNCHANGED <<state, aborting, told>>
     \/ /\ Participants # {}
        /\ \E a \in BulkAnswer :
             \/ /\ ValidateBulkTransferFulfilment(a)
                /\ state' = "PROCESSING"
                /\ \/ \E list \in SUBSET Transfer : \E accepted \in SUBSET list :
                        Sending("PROCESSING",
                          {Ask(t, IF t \in accepted THEN "BULK_COMMIT" ELSE "BULK_ABORT") : t \in list})
                   \/ answerer' = [step |-> "list", as |-> "PROCESSING"] /\ UNCHANGED told
                /\ UNCHANGED aborting
             \/ /\ ~ValidateBulkTransferFulfilment(a)
                /\ aborting' = TRUE /\ answerer' = [step |-> "list", as |-> "ABORTING"]
                /\ UNCHANGED <<state, told>>
  /\ UNCHANGED <<requests, answers, hash, fulfilHash, payee, association, chain, results, streamer, processor,
                 asked, disturbed, faults>>

SaveBulkTransferAborting ==
  /\ aborting
  /\ aborting' = FALSE
  /\ state' = "ABORTING"
  /\ UNCHANGED <<requests, answers, hash, fulfilHash, payee, association, chain, results, streamer, answerer, processor,
                 notices, disturbed, faults>>

(* An error goes to all transfers getBulkTransferById has for the payee.    *)
ListForPayee ==
  /\ answerer.step = "list"
  /\ Sending(answerer.as, {Ask(t, "BULK_ABORT") : t \in PayeeTransfers})
  /\ UNCHANGED <<requests, answers, tables, chain, results, streamer, aborting, processor, asked, disturbed, faults>>

(* sendIndividualTransfer: bulkTransferAssociationUpdate, which inserts no  *)
(* association where there is none, then the message to the fulfil handler. *)
SendIndividualTransfer ==
  /\ \/ /\ answerer.step = "stream"
        /\ \E m \in answerer.left :
             /\ association' = [association EXCEPT ![m.transfer] = IF @ = "none" THEN @ ELSE answerer.as]
             /\ answerer' = [step |-> "send", as |-> answerer.as, ask |-> m, left |-> answerer.left \ {m}]
        /\ disturbed' = disturbed \union {d \in {"slipped"} : \E p \in Processor : At(p, "again")}
        /\ UNCHANGED <<toFulfil, told>>
     \/ /\ answerer.step = "send"
        /\ toFulfil' = toFulfil \union {answerer.ask}
        /\ Sending(answerer.as, answerer.left)
        /\ UNCHANGED <<association, disturbed>>
  /\ UNCHANGED <<requests, answers, hash, fulfilHash, bulk, toPrepare, transfer, late, results, streamer, aborting,
                 processor, asked, faults>>

-----------------------------------------------------------------------------
(* The bulk get handler, which changes nothing.                             *)

(* The state of a bulk as its participants see it.                          *)
Enumeration ==
  CASE state = "PENDING_PREPARE" -> "PENDING"
    [] state \in {"PENDING_FULFIL", "EXPIRING", "ABORTING"} -> "PROCESSING"
    [] state = "INVALID" -> "REJECTED"
    [] OTHER -> state

Reply(s, transfers) == [state |-> s, transfers |-> transfers]

(* The reply to f, with the transfers of the bulk unless it is PROCESSING.  *)
GetBulkTransfer(f) ==
  IF ~ParticipantByName(f) THEN Reply("none", {})
  ELSE IF Participants = {} THEN Reply("not found", {})
  ELSE IF f \notin Participants THEN Reply("refused", {})
  ELSE Reply(Enumeration, CASE state = "PROCESSING" -> {}
                            [] state # "PROCESSING" /\ f = payee -> PayeeTransfers
                            [] OTHER -> Individual)

-----------------------------------------------------------------------------
(* A process dies.  Its message is read again, which the hash makes a       *)
(* repeated one; a result is handled from the start.                        *)
Crash ==
  /\ faults < MaxFaults
  /\ faults' = faults + 1
  /\ disturbed' = disturbed \union {"crash"}
  /\ \/ streamer # Idle /\ streamer' = Idle /\ UNCHANGED <<answerer, processor, aborting>>
     \/ answerer # Idle /\ answerer' = Idle /\ aborting' = FALSE /\ UNCHANGED <<streamer, processor>>
     \/ /\ \E p \in Processor : ~At(p, "idle") /\ Goes(p, Idle)
        /\ UNCHANGED <<streamer, answerer, aborting>>
  /\ UNCHANGED <<requests, answers, tables, chain, results, notices>>

Process(p) == Read(p) \/ Update(p) \/ Exists(p) \/ ExistsAgain(p) \/ Write(p) \/ Notify(p)
Handle ==
  \/ SaveBulkTransferReceived \/ Stream
  \/ SaveAnswer \/ SaveBulkTransferAborting \/ ListForPayee \/ SendIndividualTransfer

Next ==
  \/ BulkPrepare \/ BulkFulfil \/ Handle \/ Crash
  \/ \E t \in Transfer : Prepare(t) \/ Expire(t) \/ TimeOut(t)
  \/ \E t \in Transfer, a \in FulfilAction : Fulfil(Ask(t, a))
  \/ \E p \in Processor : Process(p)

Spec == Init /\ [][Next]_vars

(***************************************************************************)
(* Properties.  What may go wrong with a bulk is recorded in disturbed: an  *)
(* answer, a stranger's too, is read before the payee is asked (early), a   *)
(* transfer of the bulk is late, a process dies, or a result is read before *)
(* the handler that streams the transfers is through (overtook), while      *)
(* another process is between its reads and its write (raced), or before    *)
(* ABORTING is stored (unsaved); or a transfer goes from ACCEPTED to        *)
(* PROCESSING between the two queries (slipped).  A property names those it *)
(* bears.                                                                   *)
(***************************************************************************)
Held == {t \in Transfer : transfer[t] = "RESERVED"}

(* The payee is asked for exactly the transfers that hold the payer's funds,*)
(* and a GET before it answers shows it the same: the last result to come is*)
(* the one that asks, in whatever order several processes read them, and    *)
(* whichever dies.                                                          *)
AskedTogether ==
  disturbed \subseteq {"raced", "crash"} =>
    \/ fulfilHash
    \/ /\ asked \subseteq {Held}
       /\ state = "ACCEPTED" /\ Held # {} => GetBulkTransfer("payee").transfers = Held

(* A bulk that payer and payee are told has ended holds no funds, in a      *)
(* notification and in the reply to a GET, also if results come while the   *)
(* fulfil handler is still sending, and to several processes at once, and   *)
(* whatever transfers an answer leaves out or adds; if it does not come     *)
(* before the payee is asked.                                               *)
ToldIsFinished ==
  disturbed \subseteq {"raced"} =>
    \/ Held = {}
    \/ (told \union {GetBulkTransfer(f).state : f \in Fsp}) \intersect Final = {}
===============================================================================
