------------------------- MODULE BulkTransfer_proofs -------------------------
(***************************************************************************)
(* Proofs about BulkTransfer, for a bulk of any transfers, any processors,  *)
(* and any number of requests, answers, deaths and expirations.             *)
(***************************************************************************)
EXTENDS BulkTransfer, TLAPS

(***************************************************************************)
(* Types, and what a handler may rely on.                                   *)
(***************************************************************************)
Asks == [transfer : Transfer, action : FulfilAction]
Results == [transfer : Transfer, action : ResultAction, ok : BOOLEAN]
Finals == {"FULFIL_INVALID", "COMPLETED", "REJECTED", "EXPIRED"}

Counters ==
  /\ requests \in 0..MaxPrepares /\ answers \in 0..MaxFulfils /\ faults \in 0..MaxFaults
  /\ hash \in BOOLEAN /\ fulfilHash \in BOOLEAN /\ aborting \in BOOLEAN
  /\ late \subseteq Expirable
  /\ disturbed \subseteq Disturbance

Rows ==
  /\ state \in BulkState
  /\ payee \in Known \union {"none"}
  /\ association \in [Transfer -> ProcessingState]
  /\ transfer \in [Transfer -> {"none", "RESERVED", "COMMITTED", "ABORTED"}]

Messages ==
  /\ toPrepare \subseteq Transfer
  /\ toFulfil \subseteq Asks
  /\ results \subseteq Results
  /\ asked \subseteq SUBSET Transfer
  /\ told \subseteq BulkState \union {"error"}

Streaming ==
  /\ streamer = Idle \/ streamer.step \in {"save", "stream", "send"}
  /\ streamer.step \in {"stream", "send"} => streamer.left \subseteq Transfer
  /\ streamer.step = "send" => streamer.transfer \in Transfer

Answering ==
  /\ answerer = Idle \/ answerer.step \in {"save", "list", "stream", "send"}
  /\ answerer.step \in {"list", "stream", "send"} => answerer.as \in {"PROCESSING", "ABORTING"}
  /\ answerer.step \in {"stream", "send"} => answerer.left \subseteq Asks
  /\ answerer.step = "send" => answerer.ask \in Asks
  /\ answerer # Idle => fulfilHash

Working == {"update", "exists", "again", "write"}
Processing(p) ==
  /\ processor[p] = Idle \/ processor[p].step \in Working \union {"notify"}
  /\ processor[p].step \in Working \union {"notify"} => processor[p].result \in Results
  /\ processor[p].step \in Working =>
       /\ processor[p].read \in BulkState
       /\ processor[p].plan \in Plan(processor[p].read, processor[p].result)
  /\ processor[p].step = "write" =>
       processor[p].next \in {processor[p].plan.incomplete, processor[p].plan.complete}

(* What has an association: whatever is to be prepared, has been, or has    *)
(* expired, and what a result is about, unless an answer listed it too soon.*)
Stored(t) == association[t] # "none"
Traced ==
  /\ \A t \in toPrepare \union late : Stored(t)
  /\ \A t \in Transfer : transfer[t] # "none" => Stored(t)
  /\ \A r \in results : Stored(r.transfer) \/ r = Result(r.transfer, "COMMIT", FALSE)
  /\ streamer.step = "send" => Stored(streamer.transfer)

(* Nothing happens before the hash of the bulk is stored.                   *)
Untouched ==
  /\ state = "none" /\ asked = {} /\ ~aborting /\ toFulfil = {} /\ results = {}
  /\ streamer = Idle /\ answerer = Idle
  /\ \A t \in Transfer : association[t] = "none"
  /\ \A p \in Processor : processor[p] = Idle

Types ==
  /\ Counters /\ Rows /\ Messages /\ Streaming /\ Answering
  /\ DOMAIN processor = Processor /\ \A p \in Processor : Processing(p)
  /\ Traced
  /\ ~hash => Untouched

(* What a result may mean.                                                  *)
LEMMA Plans ==
  ASSUME NEW s, NEW r, NEW plan \in Plan(s, r)
  PROVE  \/ /\ s \in {"RECEIVED", "PENDING_PREPARE"} /\ r.action = "BULK_PREPARE"
            /\ plan = [association |-> IF r.ok THEN "ACCEPTED" ELSE "RECEIVED_INVALID", criteria |-> "RECEIVED",
                       incomplete |-> "PENDING_PREPARE", complete |-> "ACCEPTED"]
         \/ /\ r.action \in {"BULK_TIMEOUT_RECEIVED", "BULK_TIMEOUT_RESERVED"}
            /\ plan.association = "EXPIRED" /\ plan.criteria \in {"RECEIVED", "ACCEPTED", "PROCESSING"}
            /\ plan.incomplete = "EXPIRING" /\ plan.complete = "COMPLETED"
         \/ /\ s \in Answered /\ r.action \in {"BULK_COMMIT", "COMMIT"}
            /\ plan = [association |-> IF r.ok THEN "COMPLETED" ELSE "FULFIL_INVALID", criteria |-> "PROCESSING",
                       incomplete |-> "PENDING_FULFIL", complete |-> "COMPLETED"]
         \/ /\ s \in Answered /\ r.action = "BULK_ABORT"
            /\ plan = [association |-> "REJECTED", criteria |-> "PROCESSING",
                       incomplete |-> "PENDING_FULFIL", complete |-> "REJECTED"]
         \/ /\ s = "ABORTING" /\ r.action = "BULK_ABORT"
            /\ plan = [association |-> "FULFIL_INVALID", criteria |-> "ABORTING",
                       incomplete |-> "ABORTING", complete |-> "REJECTED"]
<1>1. CASE s \in {"RECEIVED", "PENDING_PREPARE"} /\ r.action = "BULK_PREPARE"
  BY <1>1 DEF Plan
<1>2. CASE s \in {"RECEIVED", "PENDING_PREPARE"} /\ r.action \in {"BULK_TIMEOUT_RECEIVED", "BULK_TIMEOUT_RESERVED"}
  BY <1>2 DEF Plan
<1>3. CASE s = "ACCEPTED" /\ r.action = "BULK_TIMEOUT_RESERVED"
  BY <1>3 DEF Plan
<1>4. CASE s \in Answered /\ r.action \in {"BULK_COMMIT", "COMMIT"}
  BY <1>4 DEF Plan, Answered
<1>5. CASE s \in Answered /\ r.action = "BULK_TIMEOUT_RESERVED"
  BY <1>5 DEF Plan, Answered
<1>6. CASE s \in Answered /\ r.action = "BULK_ABORT"
  BY <1>6 DEF Plan, Answered
<1>7. CASE s = "ABORTING" /\ r.action = "BULK_ABORT"
  BY <1>7 DEF Plan, Answered
<1> QED
  BY <1>1, <1>2, <1>3, <1>4, <1>5, <1>6, <1>7 DEF Plan

LEMMA PlanTypes ==
  ASSUME NEW s, NEW r, NEW plan \in Plan(s, r)
  PROVE  /\ plan.association \in ProcessingState \ {"none"}
         /\ plan.incomplete \in BulkState /\ plan.complete \in BulkState
BY Plans DEF ProcessingState, BulkState

LEMMA TypesInit == Init => Types
<1> SUFFICES ASSUME Init PROVE Types
  OBVIOUS
<1>1. Counters
  <2>1. requests \in 0..MaxPrepares /\ answers \in 0..MaxFulfils /\ faults \in 0..MaxFaults
    BY BulkAssumption DEF Init
  <2> QED
    BY <2>1 DEF Init, Counters
<1>2. Rows
  BY DEF Init, Rows, BulkState, ProcessingState
<1>3. Messages
  BY DEF Init, Messages
<1>4. Streaming /\ Answering
  BY DEF Init, Streaming, Answering, Idle
<1>5. DOMAIN processor = Processor /\ \A p \in Processor : processor[p] = Idle
  BY DEF Init
<1>6. \A p \in Processor : Processing(p)
  BY <1>5 DEF Processing, Idle, Working
<1>7. Traced
  BY DEF Init, Traced, Idle
<1>8. Untouched
  BY <1>5 DEF Init, Untouched
<1> QED
  BY <1>1, <1>2, <1>3, <1>4, <1>5, <1>6, <1>7, <1>8 DEF Types

(***************************************************************************)
(* Types are kept.                                                         *)
(***************************************************************************)
LEMMA TypesPrepareRequest ==
  ASSUME Types, BulkPrepare
  PROVE  Types'
<1>1. Counters' /\ hash'
  BY BulkAssumption DEF BulkPrepare, Types, Counters, chain
<1>2. Streaming' /\ UNCHANGED <<bulk, association, chain, results, answerer, aborting, processor, asked>>
  BY DEF BulkPrepare, Types, Streaming, Idle
<1>3. Rows' /\ Answering'
  BY <1>2 DEF Types, Rows, Answering, bulk, chain, BulkPrepare
<1>4. Messages'
  BY <1>2 DEF BulkPrepare, Types, Messages, Rows, chain
<1>5. DOMAIN processor' = Processor /\ \A p \in Processor : Processing(p)'
  BY <1>2 DEF Types, Processing
<1>6. Traced'
  BY <1>2 DEF BulkPrepare, Types, Traced, Stored, Result, chain, Idle
<1> QED
  BY <1>1, <1>2, <1>3, <1>4, <1>5, <1>6 DEF Types

(* A step of the handlers of the bulk that leaves the processors alone.     *)
LEMMA TypesSave ==
  ASSUME Types, SaveBulkTransferReceived
  PROVE  Types'
<1>1. /\ UNCHANGED <<requests, answers, hash, fulfilHash, association, chain, results, answerer, aborting,
                    processor, asked, disturbed, faults>>
      /\ streamer.step = "save" /\ hash
      /\ streamer' \in {Idle, [step |-> "stream", left |-> Transfer]}
      /\ payee' \in Known \union {"none"} /\ state' \in BulkState /\ told' \subseteq told \union {"error"}
  BY DEF SaveBulkTransferReceived, Types, Untouched, Idle, PayeeParticipantId, BulkState
<1>2. Counters' /\ Rows' /\ Messages'
  BY <1>1 DEF Types, Counters, Rows, Messages, chain
<1>3. Streaming' /\ Answering'
  BY <1>1 DEF Types, Streaming, Answering, Idle
<1>4. \A p \in Processor : Processing(p)'
  BY <1>1 DEF Types, Processing
<1>5. Traced'
  BY <1>1 DEF Types, Traced, Stored, Result, chain, Idle
<1> QED
  BY <1>1, <1>2, <1>3, <1>4, <1>5 DEF Types

LEMMA TypesStream ==
  ASSUME Types, Stream
  PROVE  Types'
<1>1. /\ UNCHANGED <<requests, answers, hash, fulfilHash, bulk, toFulfil, transfer, late, results, answerer,
                    aborting, processor, notices, disturbed, faults>>
      /\ streamer.step \in {"stream", "send"} /\ hash
  BY DEF Stream, Types, Untouched, Idle
<1>2. CASE streamer.step = "stream"
  <2>1. PICK t \in streamer.left :
          /\ association' = [association EXCEPT ![t] = "RECEIVED"] /\ UNCHANGED toPrepare
          /\ streamer' = [step |-> "send", transfer |-> t, left |-> streamer.left \ {t}]
    BY <1>2 DEF Stream, Store
  <2>2. t \in Transfer /\ streamer.left \ {t} \subseteq Transfer
    BY <1>2 DEF Types, Streaming
  <2>3. Rows' /\ Messages' /\ Counters' /\ Streaming' /\ Answering'
    BY <1>1, <2>1, <2>2 DEF Types, Rows, Messages, Counters, Streaming, Answering, ProcessingState, bulk, notices
  <2>4. Stored(t)' /\ \A u \in Transfer : Stored(u) => Stored(u)'
    BY <2>1, <2>2 DEF Stored, Types, Rows
  <2>5. Traced'
    <3>1. /\ \A u \in toPrepare \union late : u \in Transfer /\ Stored(u)
          /\ \A u \in Transfer : transfer[u] # "none" => Stored(u)
          /\ \A r \in results : r.transfer \in Transfer
          /\ \A r \in results : Stored(r.transfer) \/ r = Result(r.transfer, "COMMIT", FALSE)
      BY BulkAssumption DEF Types, Traced, Messages, Counters, Results
    <3> QED
      BY <1>1, <2>1, <2>4, <3>1 DEF Traced
  <2>6. \A p \in Processor : Processing(p)'
    BY <1>1 DEF Types, Processing
  <2> QED
    BY <1>1, <2>3, <2>5, <2>6 DEF Types
<1>3. CASE streamer.step = "send"
  <2>1. /\ toPrepare' = toPrepare \union {streamer.transfer} /\ UNCHANGED association
        /\ streamer' = IF streamer.left = {} THEN Idle ELSE [step |-> "stream", left |-> streamer.left]
    BY <1>3 DEF Stream, Store
  <2>2. Rows' /\ Messages' /\ Counters' /\ Streaming' /\ Answering'
    BY <1>1, <1>3, <2>1 DEF Types, Rows, Messages, Counters, Streaming, Answering, bulk, notices, Idle
  <2>3. Traced'
    BY <1>1, <1>3, <2>1 DEF Types, Traced, Stored, Idle
  <2>4. \A p \in Processor : Processing(p)'
    BY <1>1 DEF Types, Processing
  <2> QED
    BY <1>1, <2>2, <2>3, <2>4 DEF Types
<1> QED
  BY <1>1, <1>2, <1>3

LEMMA TypesTransfers ==
  ASSUME Types,
         \/ \E t \in Transfer : Prepare(t) \/ Expire(t) \/ TimeOut(t)
         \/ \E t \in Transfer, a \in FulfilAction : Fulfil(Ask(t, a))
  PROVE  Types'
<1>1. UNCHANGED <<requests, answers, tables, streamer, answerer, aborting, processor, notices>>
  BY DEF Prepare, Expire, TimeOut, Fulfil
<1>2. toPrepare' \subseteq toPrepare /\ toFulfil' \subseteq toFulfil
  BY DEF Prepare, Expire, TimeOut, Fulfil
<1>3. \/ UNCHANGED results
      \/ \E t \in Transfer, a \in ResultAction, ok \in BOOLEAN :
           /\ Stored(t) \/ Result(t, a, ok) = Result(t, "COMMIT", FALSE)
           /\ results' = results \union {Result(t, a, ok)}
  <2>1. CASE \E t \in Transfer : Prepare(t) \/ Expire(t) \/ TimeOut(t)
    BY <2>1 DEF Prepare, Expire, TimeOut, Report, ResultAction, Types, Traced
  <2>2. ASSUME NEW t \in Transfer, NEW a \in FulfilAction, Fulfil(Ask(t, a))
        PROVE  \/ UNCHANGED results
               \/ /\ Stored(t)
                  /\ \E b \in ResultAction, ok \in BOOLEAN : results' = results \union {Result(t, b, ok)}
               \/ results' = results \union {Result(t, "COMMIT", FALSE)}
    <3>1. transfer[t] = "RESERVED" => Stored(t)
      BY DEF Types, Traced
    <3> QED
      BY <2>2, <3>1 DEF Fulfil, Report, Ask, ResultAction, FulfilAction
  <2> QED
    BY <2>1, <2>2 DEF ResultAction
<1>4. transfer' \in [Transfer -> {"none", "RESERVED", "COMMITTED", "ABORTED"}]
  BY DEF Prepare, Expire, TimeOut, Fulfil, Becomes, Ask, Types, Rows
<1>5. /\ late' \subseteq Expirable /\ \A t \in late' : Stored(t)
      /\ faults' \in 0..MaxFaults /\ disturbed' \subseteq Disturbance
  <2>1. CASE UNCHANGED <<late, disturbed, faults>>
    BY <1>1, <2>1 DEF Types, Counters, Traced, Stored, tables
  <2>2. CASE \E t \in Transfer : Expire(t)
    BY <1>1, <2>2, BulkAssumption DEF Expire, Types, Counters, Traced, Stored, Disturbance, tables
  <2> QED
    BY <2>1, <2>2 DEF Prepare, TimeOut, Fulfil
<1>6. Counters'
  BY <1>1, <1>5 DEF Types, Counters, tables
<1>7. Rows'
  BY <1>1, <1>4 DEF Types, Rows, tables, bulk
<1>8. \A r \in results' : /\ r \in Results
                          /\ Stored(r.transfer) \/ r = Result(r.transfer, "COMMIT", FALSE)
  <2>1. \A r \in results : /\ r \in Results
                           /\ Stored(r.transfer) \/ r = Result(r.transfer, "COMMIT", FALSE)
    BY DEF Types, Messages, Traced
  <2>2. ASSUME NEW t \in Transfer, NEW a \in ResultAction, NEW ok \in BOOLEAN, NEW r, r = Result(t, a, ok),
               Stored(t) \/ Result(t, a, ok) = Result(t, "COMMIT", FALSE)
        PROVE  /\ r \in Results
               /\ Stored(r.transfer) \/ r = Result(r.transfer, "COMMIT", FALSE)
    <3>1. r \in Results /\ r.transfer = t
      BY <2>2 DEF Result, Results
    <3> QED
      BY <2>2, <3>1
  <2>3. CASE UNCHANGED results
    BY <2>1, <2>3
  <2>4. ASSUME NEW t \in Transfer, NEW a \in ResultAction, NEW ok \in BOOLEAN,
               Stored(t) \/ Result(t, a, ok) = Result(t, "COMMIT", FALSE),
               results' = results \union {Result(t, a, ok)}
        PROVE  \A r \in results' : /\ r \in Results
                                   /\ Stored(r.transfer) \/ r = Result(r.transfer, "COMMIT", FALSE)
    <3> TAKE r \in results'
    <3>1. r \in results \/ r = Result(t, a, ok)
      BY <2>4
    <3>2. CASE r \in results
      BY <2>1, <3>2
    <3>3. CASE r = Result(t, a, ok)
      BY <2>2, <2>4, <3>3
    <3> QED
      BY <3>1, <3>2, <3>3
  <2> QED
    BY <1>3, <2>3, <2>4
<1>9. Messages'
  BY <1>1, <1>2, <1>8 DEF Types, Messages, notices
<1>10. Traced'
  <2>1. \A t \in Transfer : transfer'[t] # "none" => Stored(t)
    BY <1>4 DEF Prepare, Expire, TimeOut, Fulfil, Becomes, Ask, Types, Rows, Traced
  <2> QED
    BY <1>1, <1>2, <1>5, <1>8, <2>1 DEF Types, Traced, Stored, tables
<1>11. Streaming' /\ Answering'
  BY <1>1 DEF Types, Streaming, Answering, tables
<1>12. \A p \in Processor : Processing(p)'
  BY <1>1 DEF Types, Processing
<1>13. hash'
  BY DEF Prepare, Expire, TimeOut, Fulfil, Types, Untouched, Traced, Stored, tables
<1> QED
  BY <1>1, <1>6, <1>7, <1>9, <1>10, <1>11, <1>12, <1>13 DEF Types

(* A step of one processor that keeps what it has traced.                   *)
LEMMA TypesProcessor ==
  ASSUME Types, NEW p \in Processor,
         DOMAIN processor' = Processor, \A q \in Processor \ {p} : processor'[q] = processor[q], hash,
         UNCHANGED <<requests, answers, hash, fulfilHash, payee, chain, streamer, answerer, aborting, faults>>,
         disturbed' \subseteq Disturbance, Rows', Messages',
         \A t \in Transfer : Stored(t) => Stored(t)',
         results' \subseteq results,
         Processing(p)'
  PROVE  Types'
<1>1. Counters'
  BY DEF Types, Counters, chain
<1>2. Streaming' /\ Answering'
  BY DEF Types, Streaming, Answering
<1>4. \A q \in Processor : Processing(q)'
  BY DEF Types, Processing
<1>5. Traced'
  <2>1. /\ \A u \in toPrepare \union late : u \in Transfer /\ Stored(u)
        /\ \A u \in Transfer : transfer[u] # "none" => Stored(u)
        /\ \A r \in results : r.transfer \in Transfer
        /\ \A r \in results : Stored(r.transfer) \/ r = Result(r.transfer, "COMMIT", FALSE)
        /\ streamer.step = "send" => streamer.transfer \in Transfer /\ Stored(streamer.transfer)
    BY BulkAssumption DEF Types, Traced, Messages, Counters, Streaming, Results
  <2> QED
    BY <2>1 DEF Traced, chain
<1> QED
  BY <1>1, <1>2, <1>4, <1>5 DEF Types

LEMMA TypesRead ==
  ASSUME Types, NEW p \in Processor, Read(p)
  PROVE  Types'
<1>1. PICK r \in results :
        /\ disturbed' = disturbed \union Disturbing(p)
        /\ \/ results' = results \ {r} /\ UNCHANGED processor
           \/ /\ Stored(r.transfer)
              /\ \E plan \in Plan(state, r) :
                   Goes(p, [step |-> "update", result |-> r, read |-> state, plan |-> plan])
              /\ UNCHANGED results
  BY DEF Read, Stored
<1>2. /\ UNCHANGED <<requests, answers, tables, chain, streamer, answerer, aborting, notices, faults>>
      /\ results' \subseteq results
  BY <1>1 DEF Read
<1>3. hash /\ r \in Results
  BY DEF Types, Untouched, Messages
<1>4. disturbed' \subseteq Disturbance
  BY <1>1 DEF Types, Counters, Disturbance, Disturbing
<1>5. Rows' /\ Messages'
  BY <1>2 DEF Types, Rows, Messages, tables, bulk, chain, notices
<1>6. \A t \in Transfer : Stored(t) => Stored(t)'
  BY <1>2 DEF Stored, tables
<1>7. /\ DOMAIN processor' = Processor /\ \A q \in Processor \ {p} : processor'[q] = processor[q]
      /\ Processing(p)'
  <2>1. CASE UNCHANGED processor
    BY <2>1 DEF Types, Processing
  <2>2. ASSUME NEW plan \in Plan(state, r), Goes(p, [step |-> "update", result |-> r, read |-> state, plan |-> plan])
        PROVE  /\ DOMAIN processor' = Processor /\ \A q \in Processor \ {p} : processor'[q] = processor[q]
               /\ Processing(p)'
    BY <1>3, <2>2 DEF Goes, Processing, Working, Types, Rows
  <2> QED
    BY <1>1, <2>1, <2>2
<1> QED
  BY <1>2, <1>3, <1>4, <1>5, <1>6, <1>7, TypesProcessor DEF tables, bulk

LEMMA TypesUpdate ==
  ASSUME Types, NEW p \in Processor, Update(p)
  PROVE  Types'
<1> DEFINE w == [processor[p] EXCEPT !.step = "exists"]
<1>1. /\ processor' = [processor EXCEPT ![p] = w] /\ processor[p].step = "update"
      /\ association' = [association EXCEPT ![processor[p].result.transfer] = processor[p].plan.association]
      /\ UNCHANGED <<requests, answers, hash, fulfilHash, bulk, chain, results, streamer, answerer, aborting, notices,
                     disturbed, faults>>
  BY DEF Update, Goes, At
<1>2. /\ hash /\ processor[p].result \in Results /\ processor[p].read \in BulkState
      /\ processor[p].plan \in Plan(processor[p].read, processor[p].result)
  BY <1>1 DEF Types, Untouched, Idle, Processing, Working
<1>3. processor[p].plan.association \in ProcessingState \ {"none"} /\ processor[p].result.transfer \in Transfer
  BY <1>2, PlanTypes DEF Results
<1>4. Rows' /\ Messages' /\ disturbed' \subseteq Disturbance
  BY <1>1, <1>3 DEF Types, Rows, Messages, Counters, bulk, chain, notices
<1>5. \A t \in Transfer : Stored(t) => Stored(t)'
  BY <1>1, <1>3 DEF Stored, Types, Rows
<1>6. /\ DOMAIN processor' = Processor /\ \A q \in Processor \ {p} : processor'[q] = processor[q]
      /\ processor'[p] = w
  BY <1>1 DEF Types
<1>7. /\ w.step = "exists" /\ w.result = processor[p].result /\ w.read = processor[p].read
      /\ w.plan = processor[p].plan
  OBVIOUS
<1>8. Processing(p)'
  BY <1>2, <1>6, <1>7 DEF Processing, Working
<1> QED
  BY <1>1, <1>2, <1>4, <1>5, <1>6, <1>8, TypesProcessor DEF bulk

LEMMA TypesExists ==
  ASSUME Types, NEW p \in Processor, Exists(p) \/ ExistsAgain(p)
  PROVE  Types'
<1>1. /\ UNCHANGED <<requests, answers, tables, chain, results, streamer, answerer, aborting, notices, disturbed, faults>>
      /\ processor[p].step \in {"exists", "again"}
  BY DEF Exists, ExistsAgain, At
<1>2. PICK w : /\ processor' = [processor EXCEPT ![p] = w]
               /\ \/ w = [processor[p] EXCEPT !.step = "again"]
                  \/ \E exists \in BOOLEAN : w = Decided(processor[p], exists)
  <2>1. CASE Exists(p)
    BY <2>1 DEF Exists, Goes
  <2>2. CASE ExistsAgain(p)
    BY <2>2 DEF ExistsAgain, Goes
  <2> QED
    BY <2>1, <2>2
<1>3. /\ hash /\ processor[p].result \in Results /\ processor[p].read \in BulkState
      /\ processor[p].plan \in Plan(processor[p].read, processor[p].result)
  BY <1>1 DEF Types, Untouched, Idle, Processing, Working
<1>4. /\ w.step \in {"again", "write"} /\ w.result = processor[p].result /\ w.read = processor[p].read
      /\ w.plan = processor[p].plan
      /\ w.step = "write" => w.next \in {w.plan.incomplete, w.plan.complete}
  <2>1. CASE w = [processor[p] EXCEPT !.step = "again"]
    BY <2>1
  <2>2. CASE \E exists \in BOOLEAN : w = Decided(processor[p], exists)
    BY <2>2 DEF Decided
  <2> QED
    BY <1>2, <2>1, <2>2
<1>5. Rows' /\ Messages' /\ disturbed' \subseteq Disturbance
  BY <1>1 DEF Types, Rows, Messages, Counters, tables, bulk, chain, notices
<1>6. \A t \in Transfer : Stored(t) => Stored(t)'
  BY <1>1 DEF Stored, tables
<1>7. /\ DOMAIN processor' = Processor /\ \A q \in Processor \ {p} : processor'[q] = processor[q]
      /\ Processing(p)'
  BY <1>2, <1>3, <1>4 DEF Processing, Working, Types
<1> QED
  BY <1>1, <1>2, <1>3, <1>5, <1>6, <1>7, TypesProcessor DEF tables, bulk

LEMMA TypesWrite ==
  ASSUME Types, NEW p \in Processor, Write(p)
  PROVE  Types'
<1>1. /\ UNCHANGED <<requests, answers, hash, fulfilHash, payee, association, chain, streamer, answerer, aborting, notices,
                     disturbed, faults>>
      /\ processor[p].step = "write" /\ results' \subseteq results
      /\ state' \in {state, processor[p].next}
  BY DEF Write, At
<1>2. PICK w : /\ processor' = [processor EXCEPT ![p] = w]
               /\ w = Idle \/ w = [step |-> "notify", result |-> processor[p].result]
  BY DEF Write, Goes
<1>3. /\ hash /\ processor[p].result \in Results
      /\ processor[p].plan \in Plan(processor[p].read, processor[p].result)
      /\ processor[p].next \in {processor[p].plan.incomplete, processor[p].plan.complete}
  BY <1>1 DEF Types, Untouched, Idle, Processing, Working
<1>4. processor[p].next \in BulkState
  BY <1>3, PlanTypes
<1>5. Rows' /\ Messages' /\ disturbed' \subseteq Disturbance
  BY <1>1, <1>4 DEF Types, Rows, Messages, Counters, chain, notices
<1>6. \A t \in Transfer : Stored(t) => Stored(t)'
  BY <1>1 DEF Stored
<1>7. /\ DOMAIN processor' = Processor /\ \A q \in Processor \ {p} : processor'[q] = processor[q]
      /\ Processing(p)'
  BY <1>2, <1>3 DEF Processing, Working, Idle, Types
<1> QED
  BY <1>1, <1>3, <1>5, <1>6, <1>7, TypesProcessor

LEMMA TypesNotify ==
  ASSUME Types, NEW p \in Processor, Notify(p)
  PROVE  Types'
<1>1. /\ UNCHANGED <<requests, answers, tables, chain, streamer, answerer, aborting, disturbed, faults>>
      /\ results' \subseteq results /\ processor' = [processor EXCEPT ![p] = Idle] /\ hash
  BY DEF Notify, At, Goes, Types, Untouched, Idle
<1>2. asked' \subseteq SUBSET Transfer
  <2>1. PayeeTransfers \subseteq Transfer
    BY DEF PayeeTransfers, Matching, Individual, In
  <2> QED
    BY <2>1 DEF Notify, Types, Messages
<1>3. told' \subseteq BulkState \union {"error"}
  <2>1. told' \subseteq told \union {state, "error"}
    BY DEF Notify
  <2> QED
    BY <2>1 DEF Types, Messages, Rows
<1>4. Rows' /\ Messages' /\ disturbed' \subseteq Disturbance
  BY <1>1, <1>2, <1>3 DEF Types, Rows, Messages, Counters, tables, bulk, chain
<1>5. \A t \in Transfer : Stored(t) => Stored(t)'
  BY <1>1 DEF Stored, tables
<1>6. /\ DOMAIN processor' = Processor /\ \A q \in Processor \ {p} : processor'[q] = processor[q]
      /\ Processing(p)'
  BY <1>1 DEF Processing, Working, Idle, Types
<1> QED
  BY <1>1, <1>4, <1>5, <1>6, TypesProcessor DEF tables, bulk

(* A step of the fulfil handler, or of the transaction nobody waits for.    *)
LEMMA TypesAnswerer ==
  ASSUME Types, hash, Counters', Messages', Answering',
         UNCHANGED <<hash, payee, toPrepare, transfer, late, results, streamer, processor>>,
         state' \in BulkState, association' \in [Transfer -> ProcessingState],
         \A t \in Transfer : Stored(t) => Stored(t)'
  PROVE  Types'
<1>1. Rows' /\ Streaming'
  BY DEF Types, Rows, Streaming
<1>2. \A p \in Processor : Processing(p)'
  BY DEF Types, Processing
<1>3. Traced'
  <2>1. /\ \A u \in toPrepare \union late : u \in Transfer /\ Stored(u)
        /\ \A u \in Transfer : transfer[u] # "none" => Stored(u)
        /\ \A r \in results : r.transfer \in Transfer
        /\ \A r \in results : Stored(r.transfer) \/ r = Result(r.transfer, "COMMIT", FALSE)
        /\ streamer.step = "send" => streamer.transfer \in Transfer /\ Stored(streamer.transfer)
    BY BulkAssumption DEF Types, Traced, Messages, Counters, Streaming, Results
  <2> QED
    BY <2>1 DEF Traced
<1> QED
  BY <1>1, <1>2, <1>3 DEF Types

(* What Sending leaves the handler with.                                    *)
LEMMA SendingTypes ==
  ASSUME NEW as \in {"PROCESSING", "ABORTING"}, NEW list \in SUBSET Asks, Sending(as, list),
         fulfilHash' \/ list = {}
  PROVE  /\ Answering' /\ told' \subseteq told \union {"error"}
         /\ answerer' = IF list = {} THEN Idle ELSE [step |-> "stream", as |-> as, left |-> list]
BY DEF Sending, Answering, Idle

LEMMA TypesAnswer ==
  ASSUME Types, BulkFulfil \/ SaveAnswer \/ SaveBulkTransferAborting \/ ListForPayee
  PROVE  Types'
<1>1. /\ UNCHANGED <<requests, hash, payee, association, chain, results, streamer, processor, asked, faults>>
      /\ state' \in {state, "PROCESSING", "ABORTING"}
      /\ disturbed' \subseteq disturbed \union {"early"}
  BY DEF BulkFulfil, SaveAnswer, SaveBulkTransferAborting, ListForPayee, tables, bulk, notices
<1>2. hash
  BY DEF BulkFulfil, SaveAnswer, SaveBulkTransferAborting, ListForPayee, Types, Untouched, Idle
<1>3. Counters'
  <2>1. answers' \in 0..MaxFulfils
    BY BulkAssumption DEF BulkFulfil, SaveAnswer, SaveBulkTransferAborting, ListForPayee, Types, Counters
  <2>2. fulfilHash' \in BOOLEAN /\ aborting' \in BOOLEAN
    BY DEF BulkFulfil, SaveAnswer, SaveBulkTransferAborting, ListForPayee, Types, Counters, tables
  <2> QED
    BY <1>1, <2>1, <2>2 DEF Types, Counters, chain, Disturbance
<1>4. Answering' /\ told' \subseteq told \union {"error"}
  <2>1. CASE BulkFulfil
    BY <2>1 DEF BulkFulfil, Answering, Idle, notices
  <2>2. CASE SaveAnswer
    <3>0. fulfilHash'
      BY <2>2 DEF SaveAnswer, Types, Answering, Idle
    <3>1. ASSUME NEW list \in SUBSET Transfer, NEW accepted \in SUBSET list,
                 Sending("PROCESSING",
                    {Ask(t, IF t \in accepted THEN "BULK_COMMIT" ELSE "BULK_ABORT") : t \in list})
          PROVE  Answering' /\ told' \subseteq told \union {"error"}
      <4>1. {Ask(t, IF t \in accepted THEN "BULK_COMMIT" ELSE "BULK_ABORT") : t \in list} \subseteq Asks
        BY DEF Ask, Asks, FulfilAction
      <4> QED
        BY <3>0, <3>1, <4>1, SendingTypes
    <3>2. ASSUME NEW as \in {"PROCESSING", "ABORTING"}, answerer' = [step |-> "list", as |-> as]
          PROVE  Answering'
      BY <3>0, <3>2 DEF Answering, Idle
    <3>3. ASSUME answerer' = Idle
          PROVE  Answering'
      BY <3>3 DEF Answering, Idle
    <3> QED
      BY <2>2, <3>1, <3>2, <3>3 DEF SaveAnswer
  <2>3. CASE SaveBulkTransferAborting
    BY <2>3 DEF SaveBulkTransferAborting, Types, Answering, notices
  <2>4. CASE ListForPayee
    <3>1. {Ask(t, "BULK_ABORT") : t \in PayeeTransfers} \in SUBSET Asks
      BY DEF Ask, Asks, FulfilAction, PayeeTransfers, Matching, Individual, In
    <3>2. answerer.as \in {"PROCESSING", "ABORTING"} /\ fulfilHash'
      BY <2>4 DEF ListForPayee, Types, Answering, Idle, tables
    <3>3. Sending(answerer.as, {Ask(t, "BULK_ABORT") : t \in PayeeTransfers})
      BY <2>4 DEF ListForPayee
    <3> QED
      BY <3>1, <3>2, <3>3, SendingTypes
  <2> QED
    BY <2>1, <2>2, <2>3, <2>4
<1>5. Messages' /\ state' \in BulkState /\ association' \in [Transfer -> ProcessingState]
  BY <1>1, <1>4 DEF Types, Messages, Rows, chain, BulkState
<1>6. \A t \in Transfer : Stored(t) => Stored(t)'
  BY <1>1 DEF Stored
<1> QED
  BY <1>1, <1>2, <1>3, <1>4, <1>5, <1>6, TypesAnswerer DEF chain

LEMMA TypesSend ==
  ASSUME Types, SendIndividualTransfer
  PROVE  Types'
<1>1. /\ UNCHANGED <<requests, answers, hash, fulfilHash, bulk, toPrepare, transfer, late, results, streamer, aborting,
                     processor, asked, faults>>
      /\ answerer.step \in {"stream", "send"} /\ hash /\ fulfilHash /\ answerer.as \in {"PROCESSING", "ABORTING"}
      /\ answerer.left \subseteq Asks
  BY DEF SendIndividualTransfer, Types, Untouched, Idle, Answering
<1>2. CASE answerer.step = "stream"
  <2>1. PICK m \in answerer.left :
          /\ association' = [association EXCEPT ![m.transfer] = IF @ = "none" THEN @ ELSE answerer.as]
          /\ answerer' = [step |-> "send", as |-> answerer.as, ask |-> m, left |-> answerer.left \ {m}]
          /\ disturbed' \subseteq disturbed \union {"slipped"}
          /\ UNCHANGED <<toFulfil, told>>
    BY <1>2 DEF SendIndividualTransfer
  <2>2. m \in Asks /\ m.transfer \in Transfer
    BY <1>1 DEF Asks
  <2>3. Counters' /\ Messages' /\ Answering'
    BY <1>1, <2>1, <2>2 DEF Types, Counters, Messages, Answering, Disturbance, Idle
  <2>4. association' \in [Transfer -> ProcessingState] /\ \A t \in Transfer : Stored(t) => Stored(t)'
    BY <1>1, <2>1, <2>2 DEF Types, Rows, ProcessingState, Stored
  <2>5. state' \in BulkState
    BY <1>1 DEF Types, Rows, bulk
  <2> QED
    BY <1>1, <2>3, <2>4, <2>5, TypesAnswerer DEF bulk
<1>3. CASE answerer.step = "send"
  <2>1. /\ toFulfil' = toFulfil \union {answerer.ask}
        /\ Sending(answerer.as, answerer.left)
        /\ UNCHANGED <<association, disturbed>>
    BY <1>3 DEF SendIndividualTransfer
  <2>2. Answering' /\ told' \subseteq told \union {"error"}
    BY <1>1, <2>1, SendingTypes
  <2>3. Counters' /\ Messages'
    BY <1>1, <1>3, <2>1, <2>2 DEF Types, Counters, Messages, Answering
  <2>4. association' \in [Transfer -> ProcessingState] /\ \A t \in Transfer : Stored(t) => Stored(t)'
    BY <2>1 DEF Types, Rows, Stored
  <2>5. state' \in BulkState
    BY <1>1 DEF Types, Rows, bulk
  <2> QED
    BY <1>1, <2>1, <2>2, <2>3, <2>4, <2>5, TypesAnswerer DEF bulk
<1> QED
  BY <1>1, <1>2, <1>3

LEMMA TypesCrash ==
  ASSUME Types, Crash
  PROVE  Types'
<1>1. /\ UNCHANGED <<requests, answers, tables, chain, results, notices>>
      /\ hash /\ disturbed' = disturbed \union {"crash"}
      /\ streamer' \in {streamer, Idle} /\ answerer' \in {answerer, Idle} /\ aborting' \in {aborting, FALSE}
      /\ UNCHANGED processor \/ \E p \in Processor : Goes(p, Idle)
  <2>1. /\ UNCHANGED <<requests, answers, tables, chain, results, notices>>
        /\ disturbed' = disturbed \union {"crash"}
        /\ streamer' \in {streamer, Idle} /\ answerer' \in {answerer, Idle} /\ aborting' \in {aborting, FALSE}
        /\ UNCHANGED processor \/ \E p \in Processor : Goes(p, Idle)
    BY DEF Crash
  <2>2. streamer # Idle \/ answerer # Idle \/ \E p \in Processor : processor[p] # Idle
    BY DEF Crash, At, Idle
  <2> QED
    BY <2>1, <2>2 DEF Types, Untouched
<1>2. Counters'
  <2>1. faults' \in 0..MaxFaults
    BY BulkAssumption DEF Crash, Types, Counters
  <2> QED
    BY <1>1, <2>1 DEF Types, Counters, tables, chain, Disturbance
<1>3. Rows' /\ Messages'
  BY <1>1 DEF Types, Rows, Messages, tables, bulk, chain, notices
<1>4. Streaming' /\ Answering'
  BY <1>1 DEF Types, Streaming, Answering, Idle, tables
<1>5. DOMAIN processor' = Processor /\ \A p \in Processor : Processing(p)'
  BY <1>1 DEF Types, Processing, Goes, Idle, Working
<1>6. Traced'
  BY <1>1 DEF Types, Traced, Stored, Result, Idle, tables, chain
<1> QED
  BY <1>1, <1>2, <1>3, <1>4, <1>5, <1>6 DEF Types, tables

LEMMA TypesNext ==
  ASSUME Types, [Next]_vars
  PROVE  Types'
<1>1. CASE BulkPrepare
  BY <1>1, TypesPrepareRequest
<1>2. CASE BulkFulfil
  BY <1>2, TypesAnswer
<1>3. CASE Handle
  BY <1>3, TypesSave, TypesStream, TypesAnswer, TypesSend DEF Handle
<1>4. CASE Crash
  BY <1>4, TypesCrash
<1>5. CASE \/ \E t \in Transfer : Prepare(t) \/ Expire(t) \/ TimeOut(t)
           \/ \E t \in Transfer, a \in FulfilAction : Fulfil(Ask(t, a))
  BY <1>5, TypesTransfers
<1>6. ASSUME NEW p \in Processor, Process(p)
      PROVE  Types'
  BY <1>6, TypesRead, TypesUpdate, TypesExists, TypesWrite, TypesNotify DEF Process
<1>7. CASE UNCHANGED vars
  <2>1. UNCHANGED <<requests, answers, hash, fulfilHash, state, payee, association, toPrepare, toFulfil, transfer, late,
                    results, streamer, answerer, aborting, processor, asked, told, disturbed, faults>>
    BY <1>7 DEF vars, tables, bulk, chain, notices
  <2> QED
    BY <2>1 DEF Types, Counters, Rows, Messages, Streaming, Answering, Processing, Traced, Untouched, Stored, Result
<1> QED
  BY <1>1, <1>2, <1>3, <1>4, <1>5, <1>6, <1>7 DEF Next

THEOREM TypesHold == Spec => []Types
<1> QED
  BY TypesInit, TypesNext, PTL DEF Spec

(* Whatever crosses whatever else: a bulk has a state only once its hash is *)
(* stored, and the results the processing handler reads are of transfers    *)
(* that have an association to update: the prepare handler stores it before *)
(* it sends the transfer (bulk/prepare/handler.js), and nobody removes it.  *)
THEOREM BulkTypes == Spec => []TypeOK
<1>1. Types => TypeOK
  BY DEF Types, Counters, Rows, Messages, Traced, Stored, Untouched, Asks, Results, TypeOK
<1> QED
  BY <1>1, TypesHold, PTL

(***************************************************************************)
(* Who handles which result.                                                *)
(***************************************************************************)
Busy(p) == ~At(p, "idle")

Owned ==
  \A p \in Processor :
    /\ Busy(p) => /\ processor[p].result \in results
                  /\ \A q \in Processor \ {p} : Busy(q) => processor[q].result # processor[p].result
    /\ At(p, "again") => processor[p].plan.criteria = "PROCESSING"

Others(p) == DOMAIN processor' = Processor /\ \A q \in Processor \ {p} : processor'[q] = processor[q]

LEMMA GoesOnly ==
  ASSUME DOMAIN processor = Processor, NEW p \in Processor, NEW w, Goes(p, w)
  PROVE  Others(p) /\ processor'[p] = w
BY DEF Goes, Others

(* A processor that goes on with its result, or is through with it.         *)
LEMMA OwnedGoes ==
  ASSUME Types, Owned, NEW p \in Processor, Others(p), Busy(p),
         \/ /\ Busy(p)' /\ processor'[p].result = processor[p].result /\ processor[p].result \in results'
            /\ At(p, "again")' => processor'[p].plan.criteria = "PROCESSING"
         \/ processor'[p] = Idle,
         results \ {processor[p].result} \subseteq results'
  PROVE  Owned'
BY DEF Owned, Others, Busy, At, Idle

LEMMA OwnedRead ==
  ASSUME Types, Owned, NEW p \in Processor, Read(p)
  PROVE  Owned'
<1>1. PICK r \in results :
        /\ ~Taken(r)
        /\ \/ results' = results \ {r} /\ UNCHANGED processor
           \/ /\ \E plan \in Plan(state, r) :
                   Goes(p, [step |-> "update", result |-> r, read |-> state, plan |-> plan])
              /\ UNCHANGED results
  BY DEF Read
<1>2. \A q \in Processor : Busy(q) => processor[q].result # r
  BY <1>1 DEF Taken, Busy
<1>3. CASE results' = results \ {r} /\ UNCHANGED processor
  BY <1>2, <1>3 DEF Owned, Busy, At
<1>4. ASSUME NEW plan \in Plan(state, r), UNCHANGED results,
             Goes(p, [step |-> "update", result |-> r, read |-> state, plan |-> plan])
      PROVE  Owned'
  <2>1. Others(p) /\ processor'[p] = [step |-> "update", result |-> r, read |-> state, plan |-> plan]
    BY <1>4, GoesOnly DEF Types
  <2>2. ~Busy(p)
    BY DEF Read, Busy
  <2> QED
    BY <1>2, <1>4, <2>1, <2>2 DEF Owned, Others, Busy, At
<1> QED
  BY <1>1, <1>3, <1>4

LEMMA OwnedNext ==
  ASSUME Types, Owned, [Next]_vars
  PROVE  Owned'
<1>1. CASE UNCHANGED processor /\ results \subseteq results'
  BY <1>1 DEF Owned, Busy, At
<1>2. ASSUME NEW p \in Processor, Process(p)
      PROVE  Owned'
  <2>1. CASE Read(p)
    BY <2>1, OwnedRead
  <2>2. CASE Update(p)
    <3>1. Others(p) /\ processor'[p] = [processor[p] EXCEPT !.step = "exists"] /\ UNCHANGED results
      BY <2>2, GoesOnly DEF Update, Types
    <3>2. processor'[p].step = "exists" /\ processor'[p].result = processor[p].result
      BY <3>1
    <3>3. Busy(p)
      BY <2>2 DEF Update, Busy, At
    <3> QED
      BY <3>1, <3>2, <3>3, OwnedGoes DEF Owned, Busy, At
  <2>3. CASE Exists(p)
    <3>1. PICK w : /\ Goes(p, w)
                   /\ \/ w = [processor[p] EXCEPT !.step = "again"] /\ processor[p].plan.criteria = "PROCESSING"
                      \/ \E exists \in BOOLEAN : w = Decided(processor[p], exists)
      BY <2>3 DEF Exists, SecondCriteria
    <3>2. Others(p) /\ processor'[p] = w
      BY <3>1, GoesOnly DEF Types
    <3>3. /\ w.step \in {"again", "write"} /\ w.result = processor[p].result
          /\ w.step = "again" => w.plan.criteria = "PROCESSING"
      <4>1. CASE w = [processor[p] EXCEPT !.step = "again"] /\ processor[p].plan.criteria = "PROCESSING"
        BY <4>1
      <4>2. CASE \E exists \in BOOLEAN : w = Decided(processor[p], exists)
        BY <4>2 DEF Decided
      <4> QED
        BY <3>1, <4>1, <4>2
    <3>4. Busy(p) /\ UNCHANGED results
      BY <2>3 DEF Exists, Busy, At
    <3> QED
      BY <3>2, <3>3, <3>4, OwnedGoes DEF Owned, Busy, At
  <2>4. CASE ExistsAgain(p)
    <3>1. PICK exists \in BOOLEAN : Goes(p, Decided(processor[p], exists))
      BY <2>4 DEF ExistsAgain
    <3>2. Others(p) /\ processor'[p] = Decided(processor[p], exists)
      BY <3>1, GoesOnly DEF Types
    <3>3. processor'[p].step = "write" /\ processor'[p].result = processor[p].result
      BY <3>2 DEF Decided
    <3>4. Busy(p) /\ UNCHANGED results
      BY <2>4 DEF ExistsAgain, Busy, At
    <3> QED
      BY <3>2, <3>3, <3>4, OwnedGoes DEF Owned, Busy, At
  <2>5. CASE Write(p)
    <3>1. PICK w : /\ Goes(p, w)
                   /\ \/ w = [step |-> "notify", result |-> processor[p].result] /\ UNCHANGED results
                      \/ w = Idle /\ results' = results \ {processor[p].result}
      BY <2>5 DEF Write
    <3>2. Others(p) /\ processor'[p] = w
      BY <3>1, GoesOnly DEF Types
    <3>3. Busy(p)
      BY <2>5 DEF Write, Busy, At
    <3> QED
      BY <3>1, <3>2, <3>3, OwnedGoes DEF Owned, Busy, At
  <2>6. CASE Notify(p)
    <3>1. Others(p) /\ processor'[p] = Idle /\ results' = results \ {processor[p].result}
      BY <2>6, GoesOnly DEF Notify, Types
    <3>2. Busy(p)
      BY <2>6 DEF Notify, Busy, At
    <3> QED
      BY <3>1, <3>2, OwnedGoes
  <2> QED
    BY <1>2, <2>1, <2>2, <2>3, <2>4, <2>5, <2>6 DEF Process
<1>3. CASE Crash
  <2>1. CASE UNCHANGED processor /\ UNCHANGED results
    BY <1>1, <2>1
  <2>2. ASSUME NEW p \in Processor, Busy(p), Goes(p, Idle), UNCHANGED results
        PROVE  Owned'
    BY <2>2, GoesOnly, OwnedGoes DEF Types
  <2> QED
    BY <1>3, <2>1, <2>2 DEF Crash, Busy
<1>4. CASE BulkPrepare \/ BulkFulfil
  BY <1>1, <1>4 DEF BulkPrepare, BulkFulfil
<1>5. CASE Handle
  BY <1>1, <1>5 DEF Handle, SaveBulkTransferReceived, Stream, SaveAnswer, SaveBulkTransferAborting, ListForPayee,
     SendIndividualTransfer
<1>6. CASE \/ \E t \in Transfer : Prepare(t) \/ Expire(t) \/ TimeOut(t)
           \/ \E t \in Transfer, a \in FulfilAction : Fulfil(Ask(t, a))
  <2>1. UNCHANGED processor /\ results \subseteq results'
    BY <1>6 DEF Prepare, Expire, TimeOut, Fulfil, Report
  <2> QED
    BY <1>1, <2>1
<1>7. CASE UNCHANGED vars
  BY <1>1, <1>7 DEF vars
<1> QED
  BY <1>2, <1>3, <1>4, <1>5, <1>6, <1>7 DEF Next

(***************************************************************************)
(* What disturbs a bulk does not undo itself.                               *)
(***************************************************************************)
Ordinary == disturbed \subseteq {"raced", "crash"}
Calm     == disturbed \subseteq {"raced"}
Before   == ~fulfilHash \/ answerer.step = "save"
Timeouts == {"BULK_TIMEOUT_RECEIVED", "BULK_TIMEOUT_RESERVED"}

LEMMA Grows ==
  ASSUME Types, [Next]_vars
  PROVE  disturbed \subseteq disturbed' /\ (Before' => Before)
<1>1. CASE Handle
  <2>1. CASE SaveBulkTransferReceived \/ Stream \/ SaveBulkTransferAborting
    BY <2>1 DEF SaveBulkTransferReceived, Stream, SaveBulkTransferAborting, Before
  <2>2. CASE SaveAnswer \/ ListForPayee
    BY <2>2 DEF SaveAnswer, ListForPayee, Before, Sending, Idle, tables
  <2>3. CASE SendIndividualTransfer
    BY <2>3 DEF SendIndividualTransfer, Before, Sending, Idle
  <2> QED
    BY <1>1, <2>1, <2>2, <2>3 DEF Handle
<1>2. CASE BulkPrepare \/ BulkFulfil \/ Crash
  BY <1>2 DEF BulkPrepare, BulkFulfil, Crash, Before, tables, Idle
<1>3. CASE \/ \E t \in Transfer : Prepare(t) \/ Expire(t) \/ TimeOut(t)
           \/ \E t \in Transfer, a \in FulfilAction : Fulfil(Ask(t, a))
  <2>1. UNCHANGED <<tables, answerer>>
    BY <1>3 DEF Prepare, Expire, TimeOut, Fulfil
  <2>2. disturbed \subseteq disturbed'
    BY <1>3 DEF Prepare, Expire, TimeOut, Fulfil
  <2> QED
    BY <2>1, <2>2 DEF Before, tables
<1>4. CASE \E p \in Processor : Process(p)
  BY <1>4 DEF Process, Read, Update, Exists, ExistsAgain, Write, Notify, Before, tables
<1>5. CASE UNCHANGED vars
  BY <1>5 DEF vars, Before, tables
<1> QED
  BY <1>1, <1>2, <1>3, <1>4, <1>5 DEF Next

(* Nothing is timed out of a bulk none of whose transfers is late.          *)
OnTime == Ordinary => late = {} /\ \A r \in results : r.action \notin Timeouts

LEMMA OnTimeNext ==
  ASSUME Types, OnTime, [Next]_vars
  PROVE  OnTime'
<1> SUFFICES ASSUME Ordinary' PROVE late' = {} /\ \A r \in results' : r.action \notin Timeouts
  BY DEF OnTime
<1>1. Ordinary /\ late = {} /\ \A r \in results : r.action \notin Timeouts
  BY Grows DEF OnTime, Ordinary
<1>2. CASE UNCHANGED late /\ results' \subseteq results
  BY <1>1, <1>2
<1>3. CASE Handle \/ BulkPrepare \/ BulkFulfil \/ Crash
  BY <1>2, <1>3 DEF Handle, SaveBulkTransferReceived, Stream, SaveAnswer, SaveBulkTransferAborting, ListForPayee,
     SendIndividualTransfer, BulkPrepare, BulkFulfil, Crash, chain
<1>4. ASSUME NEW t \in Transfer, Prepare(t) \/ Expire(t) \/ TimeOut(t)
      PROVE  late' = {} /\ \A r \in results' : r.action \notin Timeouts
  BY <1>1, <1>4 DEF Prepare, Expire, TimeOut, Ordinary, Report, Result, Timeouts
<1>5. ASSUME NEW m, Fulfil(m)
      PROVE  late' = {} /\ \A r \in results' : r.action \notin Timeouts
  BY <1>1, <1>5 DEF Fulfil, Report, Result, Timeouts
<1>6. CASE \E p \in Processor : Process(p)
  BY <1>2, <1>6 DEF Process, Read, Update, Exists, ExistsAgain, Write, Notify, chain
<1>7. CASE UNCHANGED vars
  BY <1>2, <1>7 DEF vars, chain
<1> QED
  BY <1>3, <1>4, <1>5, <1>6, <1>7 DEF Next

(***************************************************************************)
(* Until the payee's answer is stored, a bulk none of whose transfers is    *)
(* late collects what became of them.                                       *)
(***************************************************************************)

(* Nothing of the second half has begun.                                    *)
Unanswered ==
  /\ answerer \in {Idle, [step |-> "save"]} /\ ~aborting /\ toFulfil = {}
  /\ answerer # Idle => asked # {}  \* an answer before is recorded in disturbed
  /\ told \intersect Final = {}
  /\ state \in {"none", "INVALID", "RECEIVED", "PENDING_PREPARE", "ACCEPTED"}

(* An association tells where its transfer is.                              *)
Accounted ==
  \A t \in Transfer :
    /\ association[t] \in {"none", "RECEIVED", "ACCEPTED", "RECEIVED_INVALID"}
    /\ association[t] = "none" => transfer[t] = "none"
    /\ association[t] = "ACCEPTED" => transfer[t] = "RESERVED"
    /\ association[t] = "RECEIVED_INVALID" => transfer[t] = "ABORTED"
    /\ t \in toPrepare => association[t] = "RECEIVED" /\ transfer[t] = "none"

Reported ==
  \A r \in results : r.action = "BULK_PREPARE" /\ transfer[r.transfer] = IF r.ok THEN "RESERVED" ELSE "ABORTED"

(* Each transfer is sent once, of a bulk the payee can see.                 *)
Streamed ==
  /\ streamer.step = "save" => state = "none"
  /\ streamer.step \in {"stream", "send"} =>
       /\ state \notin {"none", "INVALID"}
       /\ \A t \in streamer.left : association[t] = "none"
  /\ streamer.step = "send" =>
       /\ association[streamer.transfer] = "RECEIVED" /\ transfer[streamer.transfer] = "none"
       /\ streamer.transfer \notin toPrepare
  /\ state \in {"none", "INVALID"} => \A t \in Transfer : association[t] = "none"
  /\ state \notin {"none", "INVALID"} => payee = "payee"

(* A result has been read for what it is; all of them have.                 *)
Begun ==
  \/ \E p \in Processor : Busy(p)
  \/ \E t \in Transfer : association[t] \in {"ACCEPTED", "RECEIVED_INVALID"}
  \/ state \in {"PENDING_PREPARE", "ACCEPTED"} \/ asked # {}
Complete ==
  \/ \E p \in Processor : At(p, "notify") \/ (At(p, "write") /\ processor[p].next = "ACCEPTED")
  \/ state = "ACCEPTED" \/ asked # {}

Collected ==
  /\ Begun => streamer = Idle /\ state \notin {"none", "INVALID"}
  /\ Complete => \A t \in Transfer : association[t] # "RECEIVED"
  /\ asked \subseteq {Held}

Preparing  == Unanswered /\ Accounted /\ Reported /\ Streamed /\ Collected
PrepareInv == Ordinary /\ Before => Preparing

LEMMA CompleteBegun == Complete => Begun
BY DEF Complete, Begun, Busy, At

(* What a processor may have in hand.                                       *)
LEMMA Reading ==
  ASSUME Types, Owned, Reported, NEW p \in Processor, Busy(p)
  PROVE  /\ processor[p].result \in results /\ processor[p].result \in Results
         /\ processor[p].result.action = "BULK_PREPARE"
         /\ ~At(p, "again")
         /\ processor[p].step \in Working =>
              /\ processor[p].read \in {"RECEIVED", "PENDING_PREPARE"}
              /\ processor[p].plan.association = IF processor[p].result.ok THEN "ACCEPTED" ELSE "RECEIVED_INVALID"
              /\ processor[p].plan.criteria = "RECEIVED"
              /\ processor[p].plan.incomplete = "PENDING_PREPARE" /\ processor[p].plan.complete = "ACCEPTED"
         /\ At(p, "write") => processor[p].next \in {"PENDING_PREPARE", "ACCEPTED"}
<1>1. /\ processor[p].result \in results /\ processor[p].result \in Results
      /\ processor[p].result.action = "BULK_PREPARE"
  BY DEF Owned, Reported, Types, Messages
<1>2. ASSUME processor[p].step \in Working
      PROVE  /\ processor[p].read \in {"RECEIVED", "PENDING_PREPARE"}
             /\ processor[p].plan.association = IF processor[p].result.ok THEN "ACCEPTED" ELSE "RECEIVED_INVALID"
             /\ processor[p].plan.criteria = "RECEIVED"
             /\ processor[p].plan.incomplete = "PENDING_PREPARE" /\ processor[p].plan.complete = "ACCEPTED"
  <2>1. processor[p].plan \in Plan(processor[p].read, processor[p].result)
    BY <1>2 DEF Types, Processing
  <2> QED
    BY <1>1, <2>1, Plans
<1>3. ~At(p, "again")
  BY <1>2 DEF At, Owned, Working
<1>4. At(p, "write") => processor[p].next \in {"PENDING_PREPARE", "ACCEPTED"}
  BY <1>2 DEF At, Types, Processing, Working
<1> QED
  BY <1>1, <1>2, <1>3, <1>4

LEMMA PreparingRequest ==
  ASSUME Types, Preparing, BulkPrepare
  PROVE  Preparing'
<1>1. /\ UNCHANGED <<state, payee, association, toPrepare, toFulfil, transfer, results, answerer, aborting, processor,
                     asked>>
      /\ streamer = Idle
      /\ streamer' = Idle \/ (~hash /\ streamer' = [step |-> "save"])
      /\ told' \subseteq told \union ({state} \intersect Final) \union {"error"}
  BY DEF BulkPrepare, bulk, chain
<1>2. Unanswered' /\ Accounted' /\ Reported'
  BY <1>1 DEF Preparing, Unanswered, Accounted, Reported, Final
<1>3. Streamed'
  BY <1>1 DEF Preparing, Streamed, Types, Untouched, Idle
<1>4. Collected'
  <2>1. (Begun' <=> Begun) /\ (Complete' <=> Complete) /\ Held' = Held
    BY <1>1 DEF Begun, Complete, Busy, At, Held
  <2>2. ~hash => ~Begun
    BY DEF Types, Untouched, Begun, Busy, At, Idle
  <2> QED
    BY <1>1, <2>1, <2>2 DEF Preparing, Collected
<1> QED
  BY <1>2, <1>3, <1>4 DEF Preparing

LEMMA PreparingSave ==
  ASSUME Types, Preparing, SaveBulkTransferReceived
  PROVE  Preparing'
<1>1. /\ UNCHANGED <<association, toPrepare, toFulfil, transfer, results, answerer, aborting, processor, asked>>
      /\ streamer.step = "save" /\ told' \subseteq told \union {"error"}
      /\ \/ state' = "RECEIVED" /\ payee' = "payee" /\ streamer' = [step |-> "stream", left |-> Transfer]
         \/ state' = "INVALID" /\ streamer' = Idle
  <2>1. PICK q \in BulkRequest :
          /\ q.payerFsp # "payee" /\ payee' = PayeeParticipantId(q)
          /\ \/ /\ ValidateBulkTransfer(q)
                /\ state' = "RECEIVED" /\ streamer' = [step |-> "stream", left |-> Transfer]
                /\ UNCHANGED told
             \/ state' = "INVALID" /\ streamer' = Idle /\ told' = told \union {"error"}
    BY DEF SaveBulkTransferReceived
  <2>2. ValidateBulkTransfer(q) => PayeeParticipantId(q) = "payee"
    BY <2>1 DEF ValidateBulkTransfer, PayeeParticipantId, PayerFound, DifferentFsp, ParticipantByName, Active, Known
  <2>3. /\ UNCHANGED <<association, toPrepare, toFulfil, transfer, results, answerer, aborting, processor, asked>>
        /\ streamer.step = "save"
    BY DEF SaveBulkTransferReceived, chain
  <2> QED
    BY <2>1, <2>2, <2>3
<1>2. state = "none" /\ ~Begun
  BY <1>1 DEF Preparing, Streamed, Collected, Idle
<1>3. Unanswered' /\ Accounted' /\ Reported'
  BY <1>1 DEF Preparing, Unanswered, Accounted, Reported, Final
<1>4. Streamed'
  BY <1>1, <1>2 DEF Preparing, Streamed, Idle
<1>5. Collected'
  <2>1. ~Begun' /\ Held' = Held
    BY <1>1, <1>2 DEF Begun, Busy, At, Held
  <2>2. ~Complete'
    BY <1>1, <1>2 DEF Begun, Complete, Busy, At
  <2> QED
    BY <1>1, <2>1, <2>2 DEF Preparing, Collected
<1> QED
  BY <1>3, <1>4, <1>5 DEF Preparing

LEMMA PreparingStream ==
  ASSUME Types, Preparing, Stream
  PROVE  Preparing'
<1>1. /\ UNCHANGED <<state, payee, toFulfil, transfer, results, answerer, aborting, processor, asked, told>>
      /\ streamer.step \in {"stream", "send"}
  BY DEF Stream, bulk, notices
<1>2. ~Begun /\ ~Complete /\ state \notin {"none", "INVALID"}
  BY <1>1, CompleteBegun DEF Preparing, Collected, Streamed, Idle
<1>3. Unanswered'
  BY <1>1 DEF Preparing, Unanswered
<1>4. Reported'
  BY <1>1 DEF Preparing, Reported
<1>5. CASE streamer.step = "stream"
  <2>1. PICK t \in streamer.left :
          /\ association' = [association EXCEPT ![t] = "RECEIVED"] /\ UNCHANGED toPrepare
          /\ streamer' = [step |-> "send", transfer |-> t, left |-> streamer.left \ {t}]
    BY <1>5 DEF Stream, Store
  <2>2. /\ t \in Transfer /\ association[t] = "none" /\ transfer[t] = "none" /\ t \notin toPrepare
        /\ \A u \in streamer.left : u \in Transfer /\ association[u] = "none"
    BY <1>1 DEF Types, Streaming, Preparing, Streamed, Accounted
  <2>3. association'[t] = "RECEIVED" /\ \A u \in Transfer \ {t} : association'[u] = association[u]
    BY <2>1, <2>2 DEF Types, Rows
  <2>4. Accounted'
    BY <1>1, <2>1, <2>2, <2>3 DEF Preparing, Accounted
  <2>5. Streamed'
    BY <1>1, <1>2, <2>1, <2>2, <2>3 DEF Preparing, Streamed
  <2>6. ~Begun'
    BY <1>1, <1>2, <2>3 DEF Begun, Busy, At
  <2>7. ~Complete' /\ Held' = Held
    BY <1>1, <1>2 DEF Complete, Held, At
  <2> QED
    BY <1>1, <1>3, <1>4, <2>4, <2>5, <2>6, <2>7 DEF Preparing, Collected
<1>6. CASE streamer.step = "send"
  <2>1. /\ toPrepare' = toPrepare \union {streamer.transfer} /\ UNCHANGED association
        /\ streamer' = IF streamer.left = {} THEN Idle ELSE [step |-> "stream", left |-> streamer.left]
    BY <1>6 DEF Stream, Store
  <2>2. association[streamer.transfer] = "RECEIVED" /\ transfer[streamer.transfer] = "none"
    BY <1>6 DEF Preparing, Streamed
  <2>3. Accounted'
    BY <1>1, <2>1, <2>2 DEF Preparing, Accounted
  <2>4. Streamed'
    BY <1>1, <1>2, <1>6, <2>1 DEF Preparing, Streamed, Idle
  <2>5. ~Begun'
    BY <1>1, <1>2, <2>1 DEF Begun, Busy, At
  <2>6. ~Complete' /\ Held' = Held
    BY <1>1, <1>2 DEF Complete, Held, At
  <2> QED
    BY <1>1, <1>3, <1>4, <2>3, <2>4, <2>5, <2>6 DEF Preparing, Collected
<1> QED
  BY <1>1, <1>5, <1>6

LEMMA PreparingPrepare ==
  ASSUME Types, Preparing, NEW t \in Transfer, Prepare(t)
  PROVE  Preparing'
<1>1. /\ UNCHANGED <<state, payee, association, toFulfil, streamer, answerer, aborting, processor, asked, told>>
      /\ toPrepare' = toPrepare \ {t} /\ t \in toPrepare
  BY DEF Prepare, tables, bulk, notices
<1>2. PICK ok \in BOOLEAN :
        /\ transfer' = [transfer EXCEPT ![t] = IF ok THEN "RESERVED" ELSE "ABORTED"]
        /\ results' = results \union {Result(t, "BULK_PREPARE", ok)}
  BY DEF Prepare, Becomes, Report
<1>3. association[t] = "RECEIVED" /\ transfer[t] = "none"
  BY <1>1 DEF Preparing, Accounted
<1>4. /\ transfer'[t] = IF ok THEN "RESERVED" ELSE "ABORTED"
      /\ \A u \in Transfer \ {t} : transfer'[u] = transfer[u]
  BY <1>2 DEF Types, Rows
<1>5. Unanswered'
  BY <1>1 DEF Preparing, Unanswered
<1>6. Accounted'
  BY <1>1, <1>3, <1>4 DEF Preparing, Accounted
<1>7. Reported'
  <2>1. \A r \in results : r.transfer \in Transfer /\ r.transfer # t
    BY <1>3 DEF Preparing, Reported, Types, Messages, Results
  <2> QED
    BY <1>2, <1>4, <2>1 DEF Preparing, Reported, Result
<1>8. Streamed'
  BY <1>1, <1>4 DEF Preparing, Streamed, Types, Streaming
<1>9. Collected'
  <2>1. ~Complete /\ asked = {}
    BY <1>3 DEF Preparing, Collected, Complete
  <2>2. (Begun' <=> Begun) /\ (Complete' <=> Complete)
    BY <1>1 DEF Begun, Complete, Busy, At
  <2> QED
    BY <1>1, <2>1, <2>2 DEF Preparing, Collected
<1> QED
  BY <1>5, <1>6, <1>7, <1>8, <1>9 DEF Preparing

(* A processor disturbs nothing but what it has in hand.                    *)
LEMMA PreparingRead ==
  ASSUME Types, Preparing, NEW p \in Processor, Read(p), Ordinary'
  PROVE  Preparing'
<1>1. PICK r \in results :
        /\ disturbed' = disturbed \union Disturbing(p)
        /\ \/ results' = results \ {r} /\ UNCHANGED processor
           \/ /\ \E plan \in Plan(state, r) :
                   Goes(p, [step |-> "update", result |-> r, read |-> state, plan |-> plan])
              /\ UNCHANGED results
  BY DEF Read
<1>2. UNCHANGED <<state, payee, association, toPrepare, toFulfil, transfer, streamer, answerer, aborting, asked, told>>
  BY DEF Read, tables, bulk, chain, notices
<1>3. Unanswered' /\ Accounted' /\ Streamed'
  BY <1>2 DEF Preparing, Unanswered, Accounted, Streamed
<1>4. Reported'
  BY <1>1, <1>2 DEF Preparing, Reported
<1>5. Held' = Held
  BY <1>2 DEF Held
<1>6. CASE UNCHANGED processor
  <2>1. (Begun' <=> Begun) /\ (Complete' <=> Complete)
    BY <1>2, <1>6 DEF Begun, Complete, Busy, At
  <2> QED
    BY <1>2, <1>3, <1>4, <1>5, <2>1 DEF Preparing, Collected
<1>7. ASSUME NEW plan \in Plan(state, r),
             Goes(p, [step |-> "update", result |-> r, read |-> state, plan |-> plan])
      PROVE  Preparing'
  <2>1. Others(p) /\ processor'[p].step = "update"
    BY <1>7, GoesOnly DEF Types
  <2>2. r.action = "BULK_PREPARE"
    BY DEF Preparing, Reported
  <2>3. state \in {"RECEIVED", "PENDING_PREPARE"}
    BY <2>2, Plans
  <2>4. streamer = Idle
    BY <1>1, <2>3 DEF Ordinary, Disturbing
  <2>5. Complete' => Complete
    BY <1>2, <2>1 DEF Complete, At, Others
  <2> QED
    BY <1>2, <1>3, <1>4, <1>5, <2>3, <2>4, <2>5 DEF Preparing, Collected
<1> QED
  BY <1>1, <1>6, <1>7

LEMMA PreparingUpdate ==
  ASSUME Types, Owned, Preparing, NEW p \in Processor, Update(p)
  PROVE  Preparing'
<1>1. /\ UNCHANGED <<state, payee, toPrepare, toFulfil, transfer, results, streamer, answerer, aborting, asked, told>>
      /\ association' = [association EXCEPT ![processor[p].result.transfer] = processor[p].plan.association]
      /\ At(p, "update") /\ Goes(p, [processor[p] EXCEPT !.step = "exists"])
  BY DEF Update, bulk, chain, notices
<1>2. Others(p) /\ processor'[p].step = "exists" /\ Busy(p)
  <2>1. Others(p) /\ processor'[p] = [processor[p] EXCEPT !.step = "exists"]
    BY <1>1, GoesOnly DEF Types
  <2>2. [processor[p] EXCEPT !.step = "exists"].step = "exists"
    BY <1>1 DEF At, Types, Processing, Idle, Working
  <2> QED
    BY <1>1, <2>1, <2>2 DEF Busy, At
<1> DEFINE t == processor[p].result.transfer
<1>3. /\ processor[p].result \in results /\ processor[p].result \in Results
      /\ processor[p].plan.association = IF processor[p].result.ok THEN "ACCEPTED" ELSE "RECEIVED_INVALID"
  <2>1. processor[p].step \in Working
    BY <1>1 DEF At, Working
  <2>2. Reported
    BY DEF Preparing
  <2> QED
    BY <1>1, <1>2, <2>1, <2>2, Reading
<1>4. t \in Transfer /\ transfer[t] = IF processor[p].result.ok THEN "RESERVED" ELSE "ABORTED"
  BY <1>3 DEF Preparing, Reported, Results
<1>5. /\ association'[t] = processor[p].plan.association
      /\ \A u \in Transfer \ {t} : association'[u] = association[u]
  BY <1>1, <1>4 DEF Types, Rows
<1>6. Begun
  BY <1>2 DEF Begun
<1>7. streamer = Idle /\ state \notin {"none", "INVALID"}
  BY <1>6 DEF Preparing, Collected
<1> HIDE DEF t
<1>8. Unanswered' /\ Reported'
  BY <1>1 DEF Preparing, Unanswered, Reported
<1>9. Accounted'
  BY <1>1, <1>3, <1>4, <1>5 DEF Preparing, Accounted
<1>10. Streamed'
  BY <1>1, <1>7 DEF Preparing, Streamed, Idle
<1>11. Collected'
  <2>1. Complete' => Complete
    BY <1>1, <1>2 DEF Complete, At, Others
  <2>2. Held' = Held
    BY <1>1 DEF Held
  <2> QED
    BY <1>1, <1>3, <1>5, <1>7, <2>1, <2>2 DEF Preparing, Collected
<1> QED
  BY <1>8, <1>9, <1>10, <1>11 DEF Preparing

LEMMA PreparingExists ==
  ASSUME Types, Owned, Preparing, NEW p \in Processor, Exists(p)
  PROVE  Preparing'
<1>1. /\ UNCHANGED <<state, payee, association, toPrepare, toFulfil, transfer, results, streamer, answerer, aborting,
                     asked, told>>
      /\ At(p, "exists") /\ Busy(p)
  BY DEF Exists, tables, bulk, chain, notices, Busy, At
<1>2. /\ processor[p].plan.criteria = "RECEIVED" /\ processor[p].plan.incomplete = "PENDING_PREPARE"
      /\ processor[p].plan.complete = "ACCEPTED"
  <2>1. processor[p].step \in Working
    BY <1>1 DEF At, Working
  <2>2. Reported
    BY DEF Preparing
  <2> QED
    BY <1>1, <2>1, <2>2, Reading
<1>3. Goes(p, Decided(processor[p], In({"RECEIVED"}) # {}))
  BY <1>2 DEF Exists, SecondCriteria
<1>4. /\ Others(p) /\ processor'[p].step = "write"
      /\ processor'[p].next = "ACCEPTED" => In({"RECEIVED"}) = {}
  BY <1>2, <1>3, GoesOnly DEF Types, Decided
<1>5. Unanswered' /\ Accounted' /\ Reported' /\ Streamed' /\ Held' = Held
  BY <1>1 DEF Preparing, Unanswered, Accounted, Reported, Streamed, Held
<1>6. Collected'
  <2>1. Begun
    BY <1>1 DEF Begun
  <2>2. Complete' => Complete \/ In({"RECEIVED"}) = {}
    BY <1>1, <1>4 DEF Complete, At, Others
  <2> QED
    BY <1>1, <1>5, <2>1, <2>2 DEF Preparing, Collected, In
<1> QED
  BY <1>5, <1>6 DEF Preparing

LEMMA PreparingWrite ==
  ASSUME Types, Owned, Preparing, NEW p \in Processor, Write(p)
  PROVE  Preparing'
<1>1. /\ UNCHANGED <<payee, association, toPrepare, toFulfil, transfer, streamer, answerer, aborting, asked, told>>
      /\ At(p, "write") /\ Busy(p) /\ results' \subseteq results
  BY DEF Write, chain, notices, Busy, At
<1>2. /\ processor[p].plan.complete = "ACCEPTED" /\ processor[p].next \in {"PENDING_PREPARE", "ACCEPTED"}
  <2>1. processor[p].step \in Working
    BY <1>1 DEF At, Working
  <2>2. Reported
    BY DEF Preparing
  <2> QED
    BY <1>1, <2>1, <2>2, Reading
<1>3. state' \in {state, processor[p].next}
  BY DEF Write
<1>4. PICK w : Goes(p, w) /\ (w = Idle \/ (w.step = "notify" /\ processor[p].next = "ACCEPTED"))
  BY <1>2 DEF Write
<1>5. Others(p) /\ processor'[p] = w
  BY <1>4, GoesOnly DEF Types
<1>6. Begun
  BY <1>1 DEF Begun
<1>7. streamer = Idle /\ state \notin {"none", "INVALID"}
  BY <1>6 DEF Preparing, Collected
<1>8. Unanswered' /\ Accounted' /\ Reported' /\ Held' = Held
  BY <1>1, <1>2, <1>3 DEF Preparing, Unanswered, Accounted, Reported, Held
<1>9. Streamed'
  BY <1>1, <1>2, <1>3, <1>7 DEF Preparing, Streamed, Idle
<1>10. Complete' => Complete
  BY <1>1, <1>2, <1>3, <1>4, <1>5 DEF Complete, At, Others, Idle
<1>11. Collected'
  BY <1>1, <1>2, <1>3, <1>7, <1>8, <1>10 DEF Preparing, Collected
<1> QED
  BY <1>8, <1>9, <1>11 DEF Preparing

(* Who notifies asks for what is held, in whatever state the bulk is by now.*)
LEMMA Asking ==
  ASSUME Accounted, \A t \in Transfer : association[t] # "RECEIVED"
  PROVE  /\ PayeeTransfers \ WithError \in {Held, {}}
         /\ state = "ACCEPTED" /\ Held # {} => PayeeTransfers = Held
<1>1. Held = In({"ACCEPTED"}) /\ In({"ACCEPTED"}) \subseteq Individual
  BY DEF Held, In, Individual, Accounted
<1>2. Individual \ WithError = Held
  BY DEF Individual, WithError, Held, In, Accounted
<1>3. WithError \intersect Held = {}
  BY DEF WithError, Held, In, Accounted
<1>4. state # "COMPLETED" => Matching = IF state = "ACCEPTED" THEN Held ELSE {}
  BY <1>1 DEF Matching
<1>5. state = "COMPLETED" => Matching \ WithError = {}
  BY DEF Matching, WithError, In, Accounted
<1>6. state = "COMPLETED" => PayeeTransfers \ WithError \in {Held, {}}
  BY <1>2, <1>5 DEF PayeeTransfers
<1>7. state # "COMPLETED" => PayeeTransfers \ WithError \in {Held, {}}
  BY <1>2, <1>3, <1>4 DEF PayeeTransfers
<1> QED
  BY <1>4, <1>6, <1>7 DEF PayeeTransfers

LEMMA PreparingNotify ==
  ASSUME Types, Owned, Preparing, NEW p \in Processor, Notify(p)
  PROVE  Preparing'
<1>1. /\ UNCHANGED <<state, payee, association, toPrepare, toFulfil, transfer, streamer, answerer, aborting>>
      /\ At(p, "notify") /\ Busy(p) /\ results' \subseteq results /\ Goes(p, Idle)
  BY DEF Notify, tables, bulk, chain, Busy, At
<1>2. processor[p].result.action = "BULK_PREPARE"
  BY <1>1, Reading DEF Preparing
<1>3. asked' = asked \union ({PayeeTransfers \ WithError} \ {{}}) /\ told' = told
  BY <1>2 DEF Notify
<1>4. Others(p) /\ processor'[p] = Idle
  BY <1>1, GoesOnly DEF Types
<1>5. Begun /\ Complete
  BY <1>1 DEF Begun, Complete
<1>6. /\ streamer = Idle /\ state \notin {"none", "INVALID"}
      /\ \A t \in Transfer : association[t] # "RECEIVED"
  BY <1>5 DEF Preparing, Collected
<1>7. asked' \subseteq {Held} /\ (asked # {} => asked' # {})
  BY <1>3, <1>6, Asking DEF Preparing, Collected
<1>8. Unanswered' /\ Accounted' /\ Reported' /\ Streamed' /\ Held' = Held
  BY <1>1, <1>3, <1>7 DEF Preparing, Unanswered, Accounted, Reported, Streamed, Held
<1>9. Collected'
  BY <1>1, <1>6, <1>7, <1>8 DEF Preparing, Collected
<1> QED
  BY <1>8, <1>9 DEF Preparing

LEMMA PreparingAnswer ==
  ASSUME Types, Preparing, BulkFulfil, Ordinary'
  PROVE  Preparing'
<1>1. /\ UNCHANGED <<state, payee, association, toPrepare, toFulfil, transfer, results, streamer, aborting, processor,
                     asked, told>>
      /\ asked # {} /\ answerer' \in {Idle, [step |-> "save"]}
  BY DEF BulkFulfil, Ordinary, bulk, chain, notices
<1>2. Unanswered' /\ Accounted' /\ Reported' /\ Streamed' /\ Held' = Held
  BY <1>1 DEF Preparing, Unanswered, Accounted, Reported, Streamed, Held
<1>3. (Begun' <=> Begun) /\ (Complete' <=> Complete)
  BY <1>1 DEF Begun, Complete, Busy, At
<1> QED
  BY <1>1, <1>2, <1>3 DEF Preparing, Collected

LEMMA PreparingCrash ==
  ASSUME Types, Preparing, Crash
  PROVE  Preparing'
<1>1. /\ UNCHANGED <<state, payee, association, toPrepare, toFulfil, transfer, results, asked, told>>
      /\ streamer' \in {streamer, Idle} /\ answerer' \in {answerer, Idle} /\ (~aborting => ~aborting')
      /\ UNCHANGED processor \/ \E p \in Processor : Goes(p, Idle)
  BY DEF Crash, tables, bulk, chain, notices
<1>2. Unanswered' /\ Accounted' /\ Reported' /\ Held' = Held
  <2>1. Unanswered'
    BY <1>1 DEF Preparing, Unanswered
  <2>2. Accounted' /\ Reported' /\ Held' = Held
    BY <1>1 DEF Preparing, Accounted, Reported, Held
  <2> QED
    BY <2>1, <2>2
<1>3. Streamed'
  BY <1>1 DEF Preparing, Streamed, Idle
<1>4. \A p \in Processor : processor'[p] = processor[p] \/ processor'[p] = Idle
  BY <1>1, GoesOnly DEF Types, Others
<1>5. (Begun' => Begun) /\ (Complete' => Complete)
  BY <1>1, <1>4 DEF Begun, Complete, Busy, At, Idle
<1> QED
  BY <1>1, <1>2, <1>3, <1>5 DEF Preparing, Collected

LEMMA PrepareNext ==
  ASSUME Types, Owned, OnTime, PrepareInv, [Next]_vars
  PROVE  PrepareInv'
<1> SUFFICES ASSUME Ordinary', Before' PROVE Preparing'
  BY DEF PrepareInv
<1>1. Ordinary /\ Before
  BY Grows DEF Ordinary
<1>2. Preparing /\ late = {}
  BY <1>1 DEF PrepareInv, OnTime
<1>3. CASE BulkPrepare \/ BulkFulfil \/ Crash
  BY <1>2, <1>3, PreparingRequest, PreparingAnswer, PreparingCrash
<1>4. CASE SaveBulkTransferReceived \/ Stream
  BY <1>2, <1>4, PreparingSave, PreparingStream
<1>5. CASE SaveAnswer
  BY <1>5 DEF SaveAnswer, Before, Sending, Types, Answering, Idle
<1>6. CASE SaveBulkTransferAborting \/ ListForPayee \/ SendIndividualTransfer
  BY <1>2, <1>6 DEF SaveBulkTransferAborting, ListForPayee, SendIndividualTransfer, Preparing, Unanswered, Idle
<1>7. ASSUME NEW t \in Transfer, Prepare(t) \/ Expire(t) \/ TimeOut(t)
      PROVE  Preparing'
  <2>1. CASE Prepare(t)
    BY <1>2, <2>1, PreparingPrepare
  <2>2. CASE Expire(t)
    BY <2>2 DEF Expire, Ordinary
  <2>3. CASE TimeOut(t)
    BY <1>2, <2>3 DEF TimeOut
  <2> QED
    BY <1>7, <2>1, <2>2, <2>3
<1>8. ASSUME NEW m, Fulfil(m)
      PROVE  Preparing'
  BY <1>2, <1>8 DEF Fulfil, Preparing, Unanswered
<1>9. ASSUME NEW p \in Processor, Process(p)
      PROVE  Preparing'
  <2>1. CASE ExistsAgain(p)
    <3>1. At(p, "again") /\ Busy(p)
      BY <2>1 DEF ExistsAgain, Busy, At
    <3> QED
      BY <1>2, <3>1, Reading DEF Preparing
  <2> QED
    BY <1>2, <1>9, <2>1, PreparingRead, PreparingUpdate, PreparingExists, PreparingWrite, PreparingNotify DEF Process
<1>10. CASE UNCHANGED vars
  <2>1. UNCHANGED <<state, payee, association, toPrepare, toFulfil, transfer, results, streamer, answerer, aborting,
                    processor, asked, told>>
    BY <1>10 DEF vars, tables, bulk, chain, notices
  <2>2. (Begun' <=> Begun) /\ (Complete' <=> Complete) /\ Held' = Held
    BY <2>1 DEF Begun, Complete, Busy, At, Held
  <2> QED
    BY <1>2, <2>1, <2>2 DEF Preparing, Unanswered, Accounted, Reported, Streamed, Collected
<1> QED
  BY <1>3, <1>4, <1>5, <1>6, <1>7, <1>8, <1>9, <1>10 DEF Next, Handle

(***************************************************************************)
(* Together: what holds whatever happens, and while nothing is late.        *)
(***************************************************************************)
BulkInv == Types /\ Owned /\ OnTime /\ PrepareInv

LEMMA BulkInvInit == Init => BulkInv
<1> SUFFICES ASSUME Init PROVE BulkInv
  OBVIOUS
<1>1. Types
  BY TypesInit
<1>2. \A p \in Processor : ~Busy(p) /\ ~At(p, "again") /\ ~At(p, "notify") /\ ~At(p, "write")
  BY DEF Init, Busy, At, Idle
<1>3. Owned /\ OnTime
  BY <1>2 DEF Init, Owned, OnTime
<1>4. Unanswered /\ Accounted /\ Reported /\ Streamed
  BY DEF Init, Unanswered, Accounted, Reported, Streamed, Idle
<1>5. ~Begun /\ ~Complete /\ asked = {}
  BY <1>2 DEF Init, Begun, Complete
<1> QED
  BY <1>1, <1>3, <1>4, <1>5 DEF BulkInv, PrepareInv, Preparing, Collected

LEMMA BulkInvNext == BulkInv /\ [Next]_vars => BulkInv'
BY TypesNext, OwnedNext, OnTimeNext, PrepareNext DEF BulkInv

(* The payee of a bulk none of whose transfers is late is asked for exactly *)
(* the transfers that hold the payer's funds, and a GET before it answers   *)
(* shows it the same, for any number of transfers and of processes that     *)
(* consume their results: between getBulkTransferState, the two reads of    *)
(* bulkTransferAssociationExists and createBulkTransferState of one process *)
(* (bulk/processing/handler.js) others may take any steps, and any may die. *)
(* It takes PrepareInv: each transfer is sent and reported once, and an     *)
(* association is no longer RECEIVED only where its result is known.        *)
THEOREM PayeeIsAskedForAll == Spec => []AskedTogether
<1>1. BulkInv => AskedTogether
  <2> SUFFICES ASSUME BulkInv, Ordinary, ~fulfilHash
               PROVE  /\ asked \subseteq {Held}
                      /\ state = "ACCEPTED" /\ Held # {} => GetBulkTransfer("payee").transfers = Held
    BY DEF AskedTogether, Ordinary
  <2>1. Preparing
    BY DEF BulkInv, PrepareInv, Before
  <2>2. ASSUME state = "ACCEPTED", Held # {}
        PROVE  GetBulkTransfer("payee").transfers = Held
    <3>1. payee = "payee" /\ \A t \in Transfer : association[t] # "RECEIVED"
      BY <2>1, <2>2 DEF Preparing, Streamed, Collected, Complete
    <3>2. PayeeTransfers = Held
      BY <2>1, <2>2, <3>1, Asking DEF Preparing
    <3>3. Participants = {"payer", "payee"} /\ ParticipantByName("payee")
      BY <2>2, <3>1 DEF Participants, ParticipantByName, Active
    <3> QED
      BY <2>2, <3>1, <3>2, <3>3 DEF GetBulkTransfer, Reply
  <2> QED
    BY <2>1, <2>2 DEF Preparing, Collected
<1> QED
  BY <1>1, BulkInvInit, BulkInvNext, PTL DEF Spec

(***************************************************************************)
(* No result of a prepare is left unread once none is awaited.              *)
(***************************************************************************)
Updated(r) ==
  \E p \in Processor : processor[p].step \in {"exists", "again", "write", "notify"} /\ processor[p].result = r

UnreadInv ==
  Calm => \A r \in results : r.action = "BULK_PREPARE" => Updated(r) \/ association[r.transfer] = "RECEIVED"

(***************************************************************************)
(* Once the payee's answer is stored, a bulk that runs its course goes      *)
(* through with it as it was stored, to the last transfer.                  *)
(***************************************************************************)

(* Nothing is prepared any more, and what is held is on its way.            *)
Closed ==
  /\ streamer = Idle /\ toPrepare = {} /\ state \notin {"none", "INVALID"}
  /\ \A t \in Transfer :
       /\ association[t] # "RECEIVED"
       /\ transfer[t] = "RESERVED" => association[t] \in {"ACCEPTED", "PROCESSING", "ABORTING"}
  /\ \A r \in results : r.action # "BULK_PREPARE" => transfer[r.transfer] # "RESERVED"

Unsent == {t \in Transfer : transfer[t] = "RESERVED" /\ association[t] = "ACCEPTED"}
Left(t) == answerer # Idle /\ \E m \in answerer.left : m.transfer = t

(* The answer was valid or it was not: all that follows from it agrees.     *)
Agrees(mode, p) ==
  processor[p].step \in Working =>
    /\ processor[p].read \in Answered => mode = "PROCESSING"
    /\ processor[p].read = "ABORTING" => mode = "ABORTING" /\ Unsent = {}
AgreesAll(mode) ==
  /\ aborting => mode = "ABORTING"
  /\ state \in Answered => mode = "PROCESSING"
  /\ state = "ABORTING" => mode = "ABORTING"
  /\ \A t \in Transfer : association[t] \in {"PROCESSING", "ABORTING"} => association[t] = mode
  /\ answerer # Idle => answerer.as = mode
  /\ mode = "ABORTING" /\ answerer.step # "list" => \A t \in Unsent : Left(t)
  /\ \A p \in Processor : Agrees(mode, p)

(* Whoever finds that all is done is right, then and ever after.            *)
Ended ==
  /\ \A p \in Processor : At(p, "again") => \A t \in Transfer : association[t] # "PROCESSING"
  /\ Held # {} =>
       /\ \A p \in Processor : At(p, "write") => processor[p].next \notin Final
       /\ state \notin Final /\ told \intersect Final = {}

Fulfilling(mode) == Closed /\ AgreesAll(mode) /\ Ended
Modes == {"PROCESSING", "ABORTING"}
FulfilInv == Calm /\ ~Before => \E mode \in Modes : Fulfilling(mode)

(* What a processor has in hand, of a bulk none of whose transfers is late. *)
PlanOf(p, read, criteria, incomplete, complete, associations) ==
  /\ processor[p].read \in read /\ processor[p].plan.criteria = criteria
  /\ processor[p].plan.incomplete = incomplete /\ processor[p].plan.complete \in complete
  /\ processor[p].plan.association \in associations

LEMMA ReadingOnTime ==
  ASSUME Types, Owned, \A r \in results : r.action \notin Timeouts, NEW p \in Processor,
         processor[p].step \in Working
  PROVE  /\ processor[p].result \in results /\ processor[p].result \in Results
         /\ \/ /\ processor[p].result.action = "BULK_PREPARE"
               /\ PlanOf(p, {"RECEIVED", "PENDING_PREPARE"}, "RECEIVED", "PENDING_PREPARE", {"ACCEPTED"},
                         {"ACCEPTED", "RECEIVED_INVALID"})
            \/ /\ processor[p].result.action # "BULK_PREPARE"
               /\ PlanOf(p, Answered, "PROCESSING", "PENDING_FULFIL", Final,
                         {"COMPLETED", "FULFIL_INVALID", "REJECTED"})
            \/ /\ processor[p].result.action # "BULK_PREPARE"
               /\ PlanOf(p, {"ABORTING"}, "ABORTING", "ABORTING", {"REJECTED"}, {"FULFIL_INVALID"})
<1>1. Busy(p)
  BY DEF Busy, At, Working
<1>2. /\ processor[p].result \in results /\ processor[p].result \in Results
      /\ processor[p].result.action \notin Timeouts
  BY <1>1 DEF Owned, Types, Messages
<1>3. processor[p].plan \in Plan(processor[p].read, processor[p].result)
  BY DEF Types, Processing
<1> DEFINE s == processor[p].read
           r == processor[p].result
           plan == processor[p].plan
<1>4. \/ /\ s \in {"RECEIVED", "PENDING_PREPARE"} /\ r.action = "BULK_PREPARE"
         /\ plan = [association |-> IF r.ok THEN "ACCEPTED" ELSE "RECEIVED_INVALID", criteria |-> "RECEIVED",
                    incomplete |-> "PENDING_PREPARE", complete |-> "ACCEPTED"]
      \/ /\ s \in Answered /\ r.action \in {"BULK_COMMIT", "COMMIT"}
         /\ plan = [association |-> IF r.ok THEN "COMPLETED" ELSE "FULFIL_INVALID", criteria |-> "PROCESSING",
                    incomplete |-> "PENDING_FULFIL", complete |-> "COMPLETED"]
      \/ /\ s \in Answered /\ r.action = "BULK_ABORT"
         /\ plan = [association |-> "REJECTED", criteria |-> "PROCESSING",
                    incomplete |-> "PENDING_FULFIL", complete |-> "REJECTED"]
      \/ /\ s = "ABORTING" /\ r.action = "BULK_ABORT"
         /\ plan = [association |-> "FULFIL_INVALID", criteria |-> "ABORTING",
                    incomplete |-> "ABORTING", complete |-> "REJECTED"]
  BY <1>2, <1>3, Plans DEF Timeouts
<1> QED
  BY <1>2, <1>4 DEF PlanOf, Final

LEMMA NextOnTime ==
  ASSUME Types, Owned, \A r \in results : r.action \notin Timeouts, NEW p \in Processor, At(p, "write")
  PROVE  /\ processor[p].next \in {processor[p].plan.incomplete, processor[p].plan.complete}
         /\ processor[p].next \in {"PENDING_PREPARE", "ACCEPTED", "PENDING_FULFIL", "ABORTING"} \union Final
         /\ processor[p].next = "PENDING_FULFIL" => processor[p].read \in Answered
         /\ processor[p].next = "ABORTING" => processor[p].read = "ABORTING"
<1>1. processor[p].step \in Working
  BY DEF At, Working
<1>2. processor[p].next \in {processor[p].plan.incomplete, processor[p].plan.complete}
  BY DEF At, Types, Processing
<1>3. \/ PlanOf(p, {"RECEIVED", "PENDING_PREPARE"}, "RECEIVED", "PENDING_PREPARE", {"ACCEPTED"},
                {"ACCEPTED", "RECEIVED_INVALID"})
      \/ PlanOf(p, Answered, "PROCESSING", "PENDING_FULFIL", Final, {"COMPLETED", "FULFIL_INVALID", "REJECTED"})
      \/ PlanOf(p, {"ABORTING"}, "ABORTING", "ABORTING", {"REJECTED"}, {"FULFIL_INVALID"})
  BY <1>1, ReadingOnTime
<1> QED
  BY <1>2, <1>3 DEF PlanOf, Final

LEMMA UnreadNext ==
  ASSUME BulkInv, UnreadInv, FulfilInv, [Next]_vars
  PROVE  UnreadInv'
<1> SUFFICES ASSUME Calm', NEW r \in results', r.action = "BULK_PREPARE"
             PROVE  Updated(r)' \/ (association[r.transfer] = "RECEIVED")'
  BY DEF UnreadInv
<1>1. Calm /\ Ordinary
  BY Grows DEF Calm, Ordinary, BulkInv
<1>2. r \in results => Updated(r) \/ association[r.transfer] = "RECEIVED"
  BY <1>1 DEF UnreadInv
<1>3. CASE r \in results /\ UNCHANGED <<association, processor>>
  BY <1>2, <1>3 DEF Updated
<1>4. CASE BulkPrepare \/ BulkFulfil \/ SaveBulkTransferReceived \/ SaveAnswer \/ SaveBulkTransferAborting \/ ListForPayee
  <2>1. UNCHANGED <<association, processor, results>>
    BY <1>4 DEF BulkPrepare, BulkFulfil, SaveBulkTransferReceived, SaveAnswer, SaveBulkTransferAborting, ListForPayee,
       tables, chain
  <2> QED
    BY <1>3, <2>1
<1>5. CASE Crash
  BY <1>5 DEF Crash, Calm
<1>6. CASE Stream
  <2>1. UNCHANGED <<processor, results>>
    BY <1>6 DEF Stream
  <2>2. association[r.transfer] = "RECEIVED" => association'[r.transfer] = "RECEIVED"
    BY <1>6, <2>1 DEF Stream, Store, BulkInv, Types, Rows, Messages, Results
  <2> QED
    BY <1>2, <2>1, <2>2 DEF Updated
<1>7. CASE SendIndividualTransfer
  <2>1. UNCHANGED <<processor, results>> /\ answerer.step # "save" /\ answerer # Idle
    BY <1>7 DEF SendIndividualTransfer, Idle
  <2>2. fulfilHash
    BY <2>1 DEF BulkInv, Types, Answering
  <2>3. association[r.transfer] # "RECEIVED"
    BY <1>1, <2>1, <2>2 DEF FulfilInv, Before, Fulfilling, Closed, BulkInv, Types, Messages, Results
  <2> QED
    BY <1>2, <2>1, <2>3 DEF Updated
<1>8. ASSUME NEW t \in Transfer, Prepare(t) \/ Expire(t) \/ TimeOut(t)
      PROVE  Updated(r)' \/ (association[r.transfer] = "RECEIVED")'
  <2>1. UNCHANGED <<association, processor>>
    BY <1>8 DEF Prepare, Expire, TimeOut, tables
  <2>2. CASE r \in results
    BY <1>3, <2>1, <2>2
  <2>3. CASE r \notin results
    <3>1. Prepare(t) /\ r.transfer = t
      BY <1>8, <2>3 DEF Prepare, Expire, TimeOut, Report, Result
    <3>2. t \in toPrepare
      BY <3>1 DEF Prepare
    <3>3. Before
      BY <1>1, <3>2 DEF FulfilInv, Fulfilling, Closed
    <3>4. association[t] = "RECEIVED"
      BY <1>1, <3>2, <3>3 DEF BulkInv, PrepareInv, Preparing, Accounted
    <3> QED
      BY <2>1, <3>1, <3>4
  <2> QED
    BY <2>2, <2>3
<1>9. ASSUME NEW t \in Transfer, NEW a \in FulfilAction, Fulfil(Ask(t, a))
      PROVE  Updated(r)' \/ (association[r.transfer] = "RECEIVED")'
  <2>1. UNCHANGED <<association, processor>>
    BY <1>9 DEF Fulfil, tables
  <2>2. r \in results
    BY <1>9 DEF Fulfil, Report, Result
  <2> QED
    BY <1>3, <2>1, <2>2
<1>10. ASSUME NEW p \in Processor, Process(p)
       PROVE  Updated(r)' \/ (association[r.transfer] = "RECEIVED")'
  <2>1. r \in results
    BY <1>10 DEF Process, Read, Update, Exists, ExistsAgain, Write, Notify
  <2>2. ASSUME UNCHANGED association, Others(p),
               Updated(r) /\ processor[p].step \in {"exists", "again", "write", "notify"} /\ processor[p].result = r
                 => Updated(r)'
        PROVE  Updated(r)' \/ (association[r.transfer] = "RECEIVED")'
    BY <1>2, <2>1, <2>2 DEF Updated, Others
  <2>3. CASE Read(p)
    <3>1. CASE UNCHANGED processor
      BY <1>3, <2>1, <2>3, <3>1 DEF Read, tables
    <3>2. ASSUME NEW w, Goes(p, w)
          PROVE  Updated(r)' \/ (association[r.transfer] = "RECEIVED")'
      <4>1. Others(p) /\ UNCHANGED association
        BY <2>3, <3>2, GoesOnly DEF BulkInv, Types, Read, tables
      <4>2. processor[p].step = "idle"
        BY <2>3 DEF Read, At
      <4> QED
        BY <2>2, <4>1, <4>2
    <3> QED
      BY <2>3, <3>1, <3>2 DEF Read
  <2>4. CASE Update(p)
    <3>1. /\ Goes(p, [processor[p] EXCEPT !.step = "exists"]) /\ At(p, "update")
          /\ association' = [association EXCEPT ![processor[p].result.transfer] = processor[p].plan.association]
      BY <2>4 DEF Update
    <3>2. Others(p) /\ processor'[p] = [processor[p] EXCEPT !.step = "exists"]
      BY <3>1, GoesOnly DEF BulkInv, Types
    <3>3. Busy(p) /\ processor[p].step = "update"
      BY <3>1 DEF Busy, At
    <3>4. processor'[p].step = "exists" /\ processor'[p].result = processor[p].result
      BY <3>2, <3>3 DEF BulkInv, Types, Processing, Idle, Working
    <3>5. Updated(r) => Updated(r)'
      BY <3>2, <3>3 DEF Updated, Others
    <3>6. processor[p].result = r => Updated(r)'
      BY <3>4 DEF Updated
    <3>7. processor[p].result \in results /\ processor[p].result \in Results /\ r \in Results
      BY <2>1, <3>3 DEF BulkInv, Owned, Types, Messages
    <3>8. CASE processor[p].result.transfer # r.transfer
      <4>1. association'[r.transfer] = association[r.transfer]
        BY <3>1, <3>7, <3>8 DEF BulkInv, Types, Rows, Results
      <4> QED
        BY <1>2, <2>1, <3>5, <4>1
    <3>9. CASE processor[p].result.transfer = r.transfer /\ Before
      <4>1. Reported
        BY <1>1, <3>9 DEF BulkInv, PrepareInv, Preparing
      <4>2. /\ processor[p].result.action = r.action
            /\ transfer[r.transfer] = IF r.ok THEN "RESERVED" ELSE "ABORTED"
            /\ transfer[r.transfer] = IF processor[p].result.ok THEN "RESERVED" ELSE "ABORTED"
        BY <2>1, <3>7, <3>9, <4>1 DEF Reported
      <4>3. processor[p].result.ok = r.ok
        BY <3>7, <4>2 DEF Results
      <4>4. processor[p].result = r
        BY <3>7, <3>9, <4>2, <4>3 DEF Results
      <4> QED
        BY <3>6, <4>4
    <3>10. CASE ~Before
      <4>1. association[r.transfer] # "RECEIVED"
        BY <1>1, <3>7, <3>10 DEF FulfilInv, Fulfilling, Closed, Results
      <4> QED
        BY <1>2, <2>1, <3>5, <4>1
    <3> QED
      BY <3>8, <3>9, <3>10
  <2>5. CASE Exists(p)
    <3>1. PICK w : /\ Goes(p, w)
                   /\ \/ w = [processor[p] EXCEPT !.step = "again"]
                      \/ \E exists \in BOOLEAN : w = Decided(processor[p], exists)
      BY <2>5 DEF Exists
    <3>2. Others(p) /\ processor'[p] = w /\ UNCHANGED association
      BY <2>5, <3>1, GoesOnly DEF BulkInv, Types, Exists, tables
    <3>3. w.step \in {"again", "write"} /\ w.result = processor[p].result
      <4>1. CASE w = [processor[p] EXCEPT !.step = "again"]
        BY <2>5, <4>1 DEF Exists, At, BulkInv, Types, Processing, Idle, Working
      <4>2. CASE \E exists \in BOOLEAN : w = Decided(processor[p], exists)
        BY <4>2 DEF Decided
      <4> QED
        BY <3>1, <4>1, <4>2
    <3>4. processor[p].result = r => Updated(r)'
      BY <3>2, <3>3 DEF Updated
    <3> QED
      BY <2>2, <3>2, <3>4
  <2>6. CASE ExistsAgain(p)
    <3>1. PICK exists \in BOOLEAN : Goes(p, Decided(processor[p], exists))
      BY <2>6 DEF ExistsAgain
    <3>2. Others(p) /\ processor'[p] = Decided(processor[p], exists) /\ UNCHANGED association
      BY <2>6, <3>1, GoesOnly DEF BulkInv, Types, ExistsAgain, tables
    <3>3. processor[p].result = r => Updated(r)'
      BY <3>2 DEF Updated, Decided
    <3> QED
      BY <2>2, <3>2, <3>3
  <2>7. CASE Write(p)
    <3>1. PICK w : /\ Goes(p, w)
                   /\ \/ w = [step |-> "notify", result |-> processor[p].result]
                      \/ results' = results \ {processor[p].result}
      BY <2>7 DEF Write
    <3>2. Others(p) /\ processor'[p] = w /\ UNCHANGED association
      BY <2>7, <3>1, GoesOnly DEF BulkInv, Types, Write
    <3>3. processor[p].result = r => Updated(r)'
      BY <3>1, <3>2 DEF Updated
    <3> QED
      BY <2>2, <3>2, <3>3
  <2>8. CASE Notify(p)
    <3>1. Others(p) /\ UNCHANGED association /\ processor[p].result # r
      BY <2>8, GoesOnly DEF BulkInv, Types, Notify, tables
    <3> QED
      BY <2>2, <3>1
  <2> QED
    BY <1>10, <2>3, <2>4, <2>5, <2>6, <2>7, <2>8 DEF Process
<1>11. CASE UNCHANGED vars
  BY <1>3, <1>11 DEF vars, tables
<1> QED
  BY <1>4, <1>5, <1>6, <1>7, <1>8, <1>9, <1>10, <1>11 DEF Next, Handle

(* What no longer happens once an answer is stored.                         *)
LEMMA ClosedForGood ==
  ASSUME BulkInv, Calm', ~Before, Closed, [Next]_vars
  PROVE  \/ UNCHANGED vars \/ BulkPrepare \/ BulkFulfil
         \/ SaveBulkTransferAborting \/ ListForPayee \/ SendIndividualTransfer
         \/ \E t \in Transfer, a \in FulfilAction : Fulfil(Ask(t, a))
         \/ \E p \in Processor : Process(p)
<1>1. Ordinary
  BY Grows DEF Calm, Ordinary, BulkInv
<1>2. ~Crash
  BY DEF Crash, Calm
<1>3. ~SaveBulkTransferReceived /\ ~Stream
  BY DEF SaveBulkTransferReceived, Stream, Closed, Idle
<1>4. ~SaveAnswer
  BY DEF SaveAnswer, Before
<1>5. \A t \in Transfer : ~Prepare(t) /\ ~TimeOut(t)
  BY <1>1 DEF Prepare, TimeOut, Closed, BulkInv, OnTime
<1>6. \A t \in Transfer : ~Expire(t)
  BY DEF Expire, Calm
<1> QED
  BY <1>2, <1>3, <1>4, <1>5, <1>6 DEF Next, Handle

(* The answer is stored, or found invalid.                                  *)
LEMMA FulfilStarts ==
  ASSUME BulkInv, Calm', Before, SaveAnswer
  PROVE  \E mode \in Modes : Fulfilling(mode)'
<1>1. Ordinary /\ Calm
  BY DEF Calm, Ordinary, SaveAnswer
<1>2. Types /\ Owned /\ Preparing /\ answerer.step = "save"
  BY <1>1 DEF BulkInv, PrepareInv, SaveAnswer
<1>3. asked # {}
  BY <1>2 DEF Preparing, Unanswered, Idle
<1>4. /\ streamer = Idle /\ state \notin {"none", "INVALID"} /\ ~aborting
      /\ state \in {"none", "INVALID", "RECEIVED", "PENDING_PREPARE", "ACCEPTED"}
      /\ told \intersect Final = {}
      /\ \A t \in Transfer : association[t] # "RECEIVED"
  BY <1>2, <1>3 DEF Preparing, Unanswered, Collected, Begun, Complete
<1>5. UNCHANGED <<association, toPrepare, transfer, results, streamer, processor>>
  BY DEF SaveAnswer, chain, notices
<1>6. PICK mode \in Modes :
        /\ (aborting' => mode = "ABORTING") /\ (answerer' # Idle => answerer'.as = mode)
        /\ (state' = "PROCESSING" /\ mode = "PROCESSING") \/ state' = state
        /\ mode = "ABORTING" => answerer'.step = "list"
        /\ told' = told
  <2>1. Participants # {}
    BY <1>2, <1>4 DEF Preparing, Streamed, Participants
  <2>2. ASSUME NEW list, Sending("PROCESSING", list)
        PROVE  (answerer' # Idle => answerer'.as = "PROCESSING") /\ told' = told
    BY <2>2 DEF Sending, Idle
  <2>3. \/ state' = "PROCESSING" /\ UNCHANGED aborting /\ \E list : Sending("PROCESSING", list)
        \/ /\ state' = "PROCESSING" /\ UNCHANGED <<aborting, told>>
           /\ answerer' = [step |-> "list", as |-> "PROCESSING"]
        \/ /\ aborting' /\ UNCHANGED <<state, told>>
           /\ answerer' = [step |-> "list", as |-> "ABORTING"]
    BY <2>1 DEF SaveAnswer
  <2> QED
    BY <1>4, <2>2, <2>3 DEF Modes
<1>7. Closed'
  <2>1. toPrepare = {}
    BY <1>2, <1>4 DEF Preparing, Accounted, Types, Messages
  <2>2. \A t \in Transfer : transfer[t] = "RESERVED" => association[t] = "ACCEPTED"
    BY <1>2, <1>4 DEF Preparing, Accounted
  <2>3. \A r \in results : r.action = "BULK_PREPARE"
    BY <1>2 DEF Preparing, Reported
  <2>4. state' \notin {"none", "INVALID"}
    BY <1>4, <1>6
  <2> QED
    BY <1>4, <1>5, <2>1, <2>2, <2>3, <2>4 DEF Closed
<1>8. \A p \in Processor : Busy(p) =>
         /\ ~At(p, "again")
         /\ processor[p].step \in Working => processor[p].read \in {"RECEIVED", "PENDING_PREPARE"}
         /\ At(p, "write") => processor[p].next \in {"PENDING_PREPARE", "ACCEPTED"}
  <2>1. Reported
    BY <1>2 DEF Preparing
  <2> QED
    BY <1>2, <2>1, Reading
<1>9. AgreesAll(mode)'
  <2>1. \A p \in Processor : Agrees(mode, p)'
    <3>1. \A p \in Processor : processor[p].step \in Working => Busy(p)
      BY DEF Busy, At, Working
    <3> QED
      BY <1>5, <1>8, <3>1 DEF Agrees, Answered
  <2>2. \A t \in Transfer : association'[t] \notin {"PROCESSING", "ABORTING"}
    BY <1>2, <1>5 DEF Preparing, Accounted
  <2>3. (state' \in Answered => mode = "PROCESSING") /\ state' # "ABORTING"
    BY <1>4, <1>6 DEF Answered
  <2> QED
    BY <1>6, <2>1, <2>2, <2>3 DEF AgreesAll
<1>10. Ended'
  <2>1. \A p \in Processor : ~At(p, "again")' /\ (At(p, "write")' => processor'[p].next \notin Final)
    BY <1>5, <1>8 DEF Busy, At, Final
  <2>2. state' \notin Final /\ told' \intersect Final = {}
    BY <1>4, <1>5, <1>6 DEF Final
  <2> QED
    BY <2>1, <2>2 DEF Ended
<1> QED
  BY <1>7, <1>9, <1>10 DEF Fulfilling

LEMMA FulfilSame ==
  ASSUME BulkInv, Calm, ~Before, NEW mode \in Modes, Fulfilling(mode),
         UNCHANGED <<state, association, toPrepare, transfer, results, streamer, answerer, aborting, processor>>,
         told' \subseteq told \union ({state} \intersect Final) \union {"error"}
  PROVE  Fulfilling(mode)'
<1>1. Closed'
  BY DEF Fulfilling, Closed
<1>2. Unsent' = Unsent /\ (\A t \in Transfer : Left(t)' = Left(t)) /\ Held' = Held
  BY DEF Unsent, Left, Held
<1>3. AgreesAll(mode)'
  BY <1>2 DEF Fulfilling, AgreesAll, Agrees, Unsent
<1>4. Ended'
  BY <1>2 DEF Fulfilling, Ended, At, Final
<1> QED
  BY <1>1, <1>3, <1>4 DEF Fulfilling

LEMMA FulfilRequest ==
  ASSUME BulkInv, Calm, ~Before, NEW mode \in Modes, Fulfilling(mode), BulkPrepare \/ BulkFulfil
  PROVE  Fulfilling(mode)'
<1>1. hash /\ fulfilHash
  BY DEF BulkInv, Types, Untouched, Fulfilling, Closed, Before
<1>2. CASE BulkPrepare
  <2>1. /\ UNCHANGED <<state, association, toPrepare, transfer, results, streamer, answerer, aborting, processor>>
        /\ told' \subseteq told \union ({state} \intersect Final) \union {"error"}
    BY <1>1, <1>2 DEF BulkPrepare, bulk, chain
  <2> QED
    BY <2>1, FulfilSame
<1>3. CASE BulkFulfil
  <2>1. /\ UNCHANGED <<state, association, toPrepare, transfer, results, streamer, answerer, aborting, processor>>
        /\ told' = told
    BY <1>1, <1>3 DEF BulkFulfil, bulk, chain, notices
  <2> QED
    BY <2>1, FulfilSame
<1> QED
  BY <1>2, <1>3

LEMMA FulfilAborting ==
  ASSUME BulkInv, Calm, ~Before, NEW mode \in Modes, Fulfilling(mode), SaveBulkTransferAborting
  PROVE  Fulfilling(mode)'
<1>1. /\ UNCHANGED <<association, toPrepare, transfer, results, streamer, answerer, processor, told>>
      /\ aborting /\ ~aborting' /\ state' = "ABORTING"
  BY DEF SaveBulkTransferAborting, chain, notices
<1>2. mode = "ABORTING"
  BY <1>1 DEF Fulfilling, AgreesAll
<1>3. Closed'
  BY <1>1 DEF Fulfilling, Closed
<1>4. Unsent' = Unsent /\ (\A t \in Transfer : Left(t)' = Left(t)) /\ Held' = Held
  BY <1>1 DEF Unsent, Left, Held
<1>5. AgreesAll(mode)'
  BY <1>1, <1>2, <1>4 DEF Fulfilling, AgreesAll, Agrees, Answered, Unsent
<1>6. Ended'
  BY <1>1, <1>4 DEF Fulfilling, Ended, At, Final
<1> QED
  BY <1>3, <1>5, <1>6 DEF Fulfilling

LEMMA FulfilList ==
  ASSUME BulkInv, Calm, ~Before, NEW mode \in Modes, Fulfilling(mode), ListForPayee
  PROVE  Fulfilling(mode)'
<1> DEFINE list == {Ask(t, "BULK_ABORT") : t \in PayeeTransfers}
<1>1. /\ UNCHANGED <<state, association, toPrepare, transfer, results, streamer, aborting, processor>>
      /\ answerer.step = "list" /\ told' \subseteq told \union {"error"}
      /\ answerer' = IF list = {} THEN Idle ELSE [step |-> "stream", as |-> answerer.as, left |-> list]
  BY DEF ListForPayee, Sending, tables, bulk, chain
<1>2. Closed'
  BY <1>1 DEF Fulfilling, Closed
<1>3. Unsent' = Unsent /\ Held' = Held
  BY <1>1 DEF Unsent, Held
<1>4. Unsent \subseteq PayeeTransfers
  <2> SUFFICES ASSUME NEW t \in Unsent PROVE t \in PayeeTransfers
    OBVIOUS
  <2>1. t \in Individual /\ t \in In({"ACCEPTED"}) /\ Held # {}
    BY DEF Unsent, Individual, In, Held
  <2>2. state # "COMPLETED"
    BY <2>1 DEF Fulfilling, Ended, Final
  <2> QED
    BY <2>1, <2>2 DEF PayeeTransfers, Matching
<1>5. \A t \in Unsent : Left(t)'
  <2>1. list # {} => answerer' # Idle /\ answerer'.left = list
    BY <1>1 DEF Idle
  <2>2. \A t \in PayeeTransfers : Ask(t, "BULK_ABORT") \in list /\ Ask(t, "BULK_ABORT").transfer = t
    BY DEF Ask
  <2> HIDE DEF list
  <2> QED
    BY <1>4, <2>1, <2>2 DEF Left
<1>6. answerer' # Idle => answerer'.as = mode
  BY <1>1 DEF Fulfilling, AgreesAll, Idle
<1>7. AgreesAll(mode)'
  BY <1>1, <1>3, <1>5, <1>6 DEF Fulfilling, AgreesAll, Agrees
<1>8. Ended'
  BY <1>1, <1>3 DEF Fulfilling, Ended, At, Final
<1> QED
  BY <1>2, <1>7, <1>8 DEF Fulfilling

LEMMA FulfilSend ==
  ASSUME BulkInv, Calm', ~Before, NEW mode \in Modes, Fulfilling(mode), SendIndividualTransfer
  PROVE  Fulfilling(mode)'
<1>1. UNCHANGED <<state, toPrepare, transfer, results, streamer, aborting, processor>>
  BY DEF SendIndividualTransfer, bulk
<1>2. answerer # Idle /\ answerer.as = mode /\ Held' = Held
  BY <1>1 DEF SendIndividualTransfer, Idle, Fulfilling, AgreesAll, Held
<1>3. CASE answerer.step = "stream"
  <2>1. PICK m \in answerer.left :
          /\ association' = [association EXCEPT ![m.transfer] = IF @ = "none" THEN @ ELSE answerer.as]
          /\ answerer' = [step |-> "send", as |-> answerer.as, ask |-> m, left |-> answerer.left \ {m}]
    BY <1>3 DEF SendIndividualTransfer
  <2>2. /\ disturbed' = disturbed \union {d \in {"slipped"} : \E p \in Processor : At(p, "again")}
        /\ UNCHANGED told
    BY <1>3 DEF SendIndividualTransfer
  <2>3. \A p \in Processor : ~At(p, "again")
    BY <2>2 DEF Calm
  <2>4. m.transfer \in Transfer
    BY <1>3, <2>1 DEF BulkInv, Types, Answering, Asks
  <2>5. /\ association'[m.transfer] = IF association[m.transfer] = "none" THEN "none" ELSE mode
        /\ \A t \in Transfer \ {m.transfer} : association'[t] = association[t]
    BY <1>2, <2>1, <2>4 DEF BulkInv, Types, Rows
  <2>6. Closed'
    BY <1>1, <2>4, <2>5 DEF Fulfilling, Closed, Modes
  <2>7. \A t \in Unsent' : t \in Unsent /\ t # m.transfer
    BY <1>1, <2>4, <2>5 DEF Unsent, Modes
  <2>8. \A t \in Unsent' : Left(t) => Left(t)'
    BY <2>1, <2>7 DEF Left, Idle
  <2>9. \A p \in Processor : Agrees(mode, p)'
    BY <1>1, <2>7 DEF Fulfilling, AgreesAll, Agrees
  <2>10. \A t \in Transfer : association'[t] \in {"PROCESSING", "ABORTING"} => association'[t] = mode
    BY <2>4, <2>5 DEF Fulfilling, AgreesAll
  <2>11. AgreesAll(mode)'
    BY <1>1, <1>2, <1>3, <2>1, <2>7, <2>8, <2>9, <2>10 DEF Fulfilling, AgreesAll
  <2>12. Ended'
    BY <1>1, <1>2, <2>2, <2>3 DEF Fulfilling, Ended, At
  <2> QED
    BY <2>6, <2>11, <2>12 DEF Fulfilling
<1>4. CASE answerer.step = "send"
  <2>1. /\ answerer' = IF answerer.left = {} THEN Idle
                       ELSE [step |-> "stream", as |-> answerer.as, left |-> answerer.left]
        /\ told' \subseteq told \union {"error"} /\ UNCHANGED association
    BY <1>4 DEF SendIndividualTransfer, Sending
  <2>2. Closed'
    BY <1>1, <2>1 DEF Fulfilling, Closed
  <2>3. Unsent' = Unsent
    BY <1>1, <2>1 DEF Unsent
  <2>4. \A t \in Unsent : Left(t) => Left(t)'
    BY <2>1 DEF Left, Idle
  <2>5. answerer' # Idle => answerer'.as = mode
    BY <1>2, <2>1
  <2>6. \A p \in Processor : Agrees(mode, p)'
    BY <1>1, <2>3 DEF Fulfilling, AgreesAll, Agrees
  <2>7. AgreesAll(mode)'
    BY <1>1, <1>4, <2>1, <2>3, <2>4, <2>5, <2>6 DEF Fulfilling, AgreesAll
  <2>8. Ended'
    BY <1>1, <1>2, <2>1 DEF Fulfilling, Ended, At, Final
  <2> QED
    BY <2>2, <2>7, <2>8 DEF Fulfilling
<1> QED
  BY <1>3, <1>4 DEF SendIndividualTransfer

(* A transfer that is held is committed or aborted, and no other is held.   *)
LEMMA FulfilTransfer ==
  ASSUME BulkInv, Calm, ~Before, NEW mode \in Modes, Fulfilling(mode),
         NEW t \in Transfer, NEW a \in FulfilAction, Fulfil(Ask(t, a))
  PROVE  Fulfilling(mode)'
<1>1. /\ UNCHANGED <<state, association, toPrepare, streamer, answerer, aborting, processor, told>>
  BY DEF Fulfil, tables, bulk, notices
<1>2. late = {}
  BY DEF BulkInv, OnTime, Ordinary, Calm
<1>3. /\ \/ transfer' = [transfer EXCEPT ![t] = "COMMITTED"]
         \/ transfer' = [transfer EXCEPT ![t] = "ABORTED"]
         \/ UNCHANGED transfer /\ transfer[t] # "RESERVED"
      /\ UNCHANGED results \/ \E action, ok : results' = results \union {Result(t, action, ok)}
  BY <1>2 DEF Fulfil, Ask, Becomes, Report
<1>4. transfer'[t] # "RESERVED" /\ \A u \in Transfer \ {t} : transfer'[u] = transfer[u]
  BY <1>3 DEF BulkInv, Types, Rows
<1>5. \A u \in Transfer : transfer'[u] = "RESERVED" => transfer[u] = "RESERVED"
  BY <1>4
<1>6. Closed'
  <2>1. \A r \in results' : r.action # "BULK_PREPARE" => transfer'[r.transfer] # "RESERVED"
    <3>1. \A r \in results : r.transfer \in Transfer
      BY DEF BulkInv, Types, Messages, Results
    <3> QED
      BY <1>3, <1>4, <1>5, <3>1 DEF Fulfilling, Closed, Result
  <2> QED
    BY <1>1, <1>5, <2>1 DEF Fulfilling, Closed
<1>7. Unsent' \subseteq Unsent /\ (\A u \in Transfer : Left(u)' = Left(u)) /\ Held' \subseteq Held
  BY <1>1, <1>5 DEF Unsent, Left, Held
<1>8. \A p \in Processor : Agrees(mode, p)'
  BY <1>1, <1>7 DEF Fulfilling, AgreesAll, Agrees
<1>9. \A u \in Unsent' : u \in Unsent /\ Left(u)' = Left(u)
  BY <1>7 DEF Unsent
<1>10. AgreesAll(mode)'
  BY <1>1, <1>8, <1>9 DEF Fulfilling, AgreesAll
<1>11. Ended'
  BY <1>1, <1>7 DEF Fulfilling, Ended, At
<1> QED
  BY <1>6, <1>10, <1>11 DEF Fulfilling

(* A step of the processing handler: what it has in hand says that what it  *)
(* writes down is over.                                                     *)
LEMMA FulfilProcessor ==
  ASSUME BulkInv, NEW mode \in Modes, Fulfilling(mode), NEW p \in Processor, Others(p),
         UNCHANGED <<toPrepare, transfer, streamer, answerer, aborting>>, results' \subseteq results,
         state' \notin {"none", "INVALID"}, state' \in Answered => mode = "PROCESSING",
         state' = "ABORTING" => mode = "ABORTING",
         \A t \in Transfer : \/ association'[t] = association[t]
                             \/ /\ association'[t] \notin {"RECEIVED", "ACCEPTED", "PROCESSING", "ABORTING"}
                                /\ transfer[t] # "RESERVED",
         Agrees(mode, p)',
         At(p, "again")' => \A t \in Transfer : association'[t] # "PROCESSING",
         Held # {} => state' \notin Final /\ told' \intersect Final = {}
                      /\ (At(p, "write")' => processor'[p].next \notin Final)
  PROVE  Fulfilling(mode)'
<1>1. Closed'
  <2>1. \A t \in Transfer :
          /\ association'[t] # "RECEIVED"
          /\ transfer'[t] = "RESERVED" => association'[t] \in {"ACCEPTED", "PROCESSING", "ABORTING"}
    BY DEF Fulfilling, Closed
  <2> QED
    BY <2>1 DEF Fulfilling, Closed
<1>2. \A t \in Unsent' : t \in Unsent
  BY DEF Unsent
<1>3. (\A t \in Transfer : Left(t)' = Left(t)) /\ Held' = Held
  BY DEF Left, Held
<1>4. \A q \in Processor : Agrees(mode, q)'
  <2>1. ASSUME NEW q \in Processor \ {p} PROVE Agrees(mode, q)'
    BY <1>2, <2>1 DEF Fulfilling, AgreesAll, Agrees, Others
  <2> QED
    BY <2>1
<1>5. \A t \in Transfer : association'[t] \in {"PROCESSING", "ABORTING"} => association'[t] = mode
  BY DEF Fulfilling, AgreesAll
<1>6. \A t \in Unsent' : t \in Unsent /\ Left(t)' = Left(t)
  BY <1>2, <1>3 DEF Unsent
<1>7. AgreesAll(mode)'
  BY <1>4, <1>5, <1>6 DEF Fulfilling, AgreesAll
<1>8. Ended'
  <2>1. \A q \in Processor : At(q, "again")' => \A t \in Transfer : association'[t] # "PROCESSING"
    BY DEF Fulfilling, Ended, At, Others
  <2>2. Held # {} => \A q \in Processor : At(q, "write")' => processor'[q].next \notin Final
    BY DEF Fulfilling, Ended, At, Others
  <2> QED
    BY <1>3, <2>1, <2>2 DEF Ended
<1> QED
  BY <1>1, <1>7, <1>8 DEF Fulfilling

LEMMA FulfilRead ==
  ASSUME BulkInv, Calm', ~Before, NEW mode \in Modes, Fulfilling(mode), NEW p \in Processor, Read(p)
  PROVE  Fulfilling(mode)'
<1>1. PICK r \in results :
        /\ disturbed' = disturbed \union Disturbing(p)
        /\ \/ results' = results \ {r} /\ UNCHANGED processor
           \/ /\ \E plan \in Plan(state, r) :
                   Goes(p, [step |-> "update", result |-> r, read |-> state, plan |-> plan])
              /\ UNCHANGED results
  BY DEF Read
<1>2. UNCHANGED <<state, association, toPrepare, transfer, streamer, answerer, aborting, told>>
  BY DEF Read, tables, bulk, chain, notices
<1>3. /\ state \notin {"none", "INVALID"} /\ (state \in Answered => mode = "PROCESSING")
      /\ (state = "ABORTING" => mode = "ABORTING")
      /\ Held # {} => state \notin Final /\ told \intersect Final = {}
  BY DEF Fulfilling, Closed, AgreesAll, Ended
<1>4. state = "ABORTING" => answerer = Idle
  BY <1>1 DEF Calm, Disturbing
<1>5. state = "ABORTING" => mode = "ABORTING" /\ Unsent = {}
  BY <1>3, <1>4 DEF Fulfilling, AgreesAll, Left, Unsent, Idle
<1>6. /\ results' \subseteq results /\ Others(p)
      /\ processor'[p] = processor[p] \/ (processor'[p].step = "update" /\ processor'[p].read = state)
  <2>1. CASE UNCHANGED processor
    BY <1>1, <2>1 DEF Others, BulkInv, Types
  <2>2. ASSUME NEW plan, Goes(p, [step |-> "update", result |-> r, read |-> state, plan |-> plan])
        PROVE  Others(p) /\ processor'[p].step = "update" /\ processor'[p].read = state
    <3>1. Others(p) /\ processor'[p] = [step |-> "update", result |-> r, read |-> state, plan |-> plan]
      BY <2>2, GoesOnly DEF BulkInv, Types
    <3> QED
      BY <3>1
  <2> QED
    BY <1>1, <2>1, <2>2
<1>7. Unsent' = Unsent
  BY <1>2 DEF Unsent
<1>8. At(p, "idle") /\ ~At(p, "again")' /\ ~At(p, "write")'
  BY <1>6 DEF Read, At
<1>9. Agrees(mode, p)'
  BY <1>3, <1>5, <1>6, <1>7, <1>8 DEF Agrees, At, Working
<1> QED
  BY <1>2, <1>3, <1>6, <1>8, <1>9, FulfilProcessor

LEMMA FulfilUpdate ==
  ASSUME BulkInv, UnreadInv, Calm, ~Before, NEW mode \in Modes, Fulfilling(mode), NEW p \in Processor, Update(p)
  PROVE  Fulfilling(mode)'
<1>1. /\ UNCHANGED <<state, toPrepare, transfer, results, streamer, answerer, aborting, told>>
      /\ association' = [association EXCEPT ![processor[p].result.transfer] = processor[p].plan.association]
      /\ processor[p].step = "update" /\ Goes(p, [processor[p] EXCEPT !.step = "exists"])
  BY DEF Update, bulk, chain, notices, At
<1>2. Others(p) /\ processor'[p] = [processor[p] EXCEPT !.step = "exists"]
  BY <1>1, GoesOnly DEF BulkInv, Types
<1>3. processor'[p].step = "exists" /\ processor'[p].read = processor[p].read
  BY <1>1, <1>2 DEF BulkInv, Types, Processing, Idle, Working
<1>4. Types /\ Owned /\ \A r \in results : r.action \notin Timeouts
  BY DEF BulkInv, OnTime, Calm, Ordinary
<1>5. processor[p].step \in Working
  BY <1>1 DEF Working
<1>6. /\ processor[p].result \in results /\ processor[p].result.transfer \in Transfer
      /\ processor[p].result.action # "BULK_PREPARE" =>
           processor[p].plan.association \in {"COMPLETED", "FULFIL_INVALID", "REJECTED"}
  <2>1. processor[p].result.transfer \in Transfer
    BY <1>4, <1>5, ReadingOnTime DEF Results
  <2> QED
    BY <1>4, <1>5, <2>1, ReadingOnTime DEF PlanOf
<1>7. processor[p].result.action # "BULK_PREPARE"
  <2>1. ~Updated(processor[p].result)
    <3>1. \A q \in Processor \ {p} : Busy(q) => processor[q].result # processor[p].result
      BY <1>1, <1>4 DEF Owned, Busy, At
    <3> QED
      BY <1>1, <3>1 DEF Updated, Busy, At
  <2>2. association[processor[p].result.transfer] # "RECEIVED"
    BY <1>6 DEF Fulfilling, Closed
  <2> QED
    BY <1>6, <2>1, <2>2 DEF UnreadInv
<1>8. transfer[processor[p].result.transfer] # "RESERVED"
  BY <1>6, <1>7 DEF Fulfilling, Closed
<1>9. \A t \in Transfer : \/ association'[t] = association[t]
                          \/ /\ association'[t] \notin {"RECEIVED", "ACCEPTED", "PROCESSING", "ABORTING"}
                             /\ transfer[t] # "RESERVED"
  BY <1>1, <1>6, <1>7, <1>8 DEF BulkInv, Types, Rows
<1>10. /\ state \notin {"none", "INVALID"} /\ (state \in Answered => mode = "PROCESSING")
       /\ (state = "ABORTING" => mode = "ABORTING")
       /\ Held # {} => state \notin Final /\ told \intersect Final = {}
  BY DEF Fulfilling, Closed, AgreesAll, Ended
<1>11. Unsent' \subseteq Unsent
  BY <1>1, <1>9 DEF Unsent
<1>12. Agrees(mode, p)'
  BY <1>3, <1>5, <1>11 DEF Agrees, Fulfilling, AgreesAll
<1>13. ~At(p, "again")' /\ ~At(p, "write")'
  BY <1>3 DEF At
<1> QED
  BY <1>1, <1>2, <1>9, <1>10, <1>12, <1>13, FulfilProcessor

LEMMA FulfilExists ==
  ASSUME BulkInv, Calm, ~Before, NEW mode \in Modes, Fulfilling(mode), NEW p \in Processor, Exists(p) \/ ExistsAgain(p)
  PROVE  Fulfilling(mode)'
<1>1. /\ UNCHANGED <<state, association, toPrepare, transfer, results, streamer, answerer, aborting, told>>
      /\ processor[p].step \in {"exists", "again"}
  BY DEF Exists, ExistsAgain, tables, bulk, chain, notices, At
<1>2. Types /\ Owned /\ \A r \in results : r.action \notin Timeouts
  BY DEF BulkInv, OnTime, Calm, Ordinary
<1>3. processor[p].step \in Working
  BY <1>1 DEF Working
<1>4. /\ state \notin {"none", "INVALID"} /\ (state \in Answered => mode = "PROCESSING")
      /\ (state = "ABORTING" => mode = "ABORTING")
      /\ Held # {} => state \notin Final /\ told \intersect Final = {}
  BY DEF Fulfilling, Closed, AgreesAll, Ended
<1>5. \/ PlanOf(p, {"RECEIVED", "PENDING_PREPARE"}, "RECEIVED", "PENDING_PREPARE", {"ACCEPTED"},
                {"ACCEPTED", "RECEIVED_INVALID"})
      \/ PlanOf(p, Answered, "PROCESSING", "PENDING_FULFIL", Final, {"COMPLETED", "FULFIL_INVALID", "REJECTED"})
      \/ PlanOf(p, {"ABORTING"}, "ABORTING", "ABORTING", {"REJECTED"}, {"FULFIL_INVALID"})
  BY <1>2, <1>3, ReadingOnTime
<1>6. Agrees(mode, p)
  BY DEF Fulfilling, AgreesAll
<1>7. Unsent' = Unsent
  BY <1>1 DEF Unsent
<1>8. \A t \in Held : association[t] \in {"ACCEPTED", "PROCESSING", "ABORTING"}
  BY DEF Fulfilling, Closed, Held
<1>9. \A t \in Transfer : association[t] \in {"PROCESSING", "ABORTING"} => association[t] = mode
  BY DEF Fulfilling, AgreesAll
<1>10. CASE Exists(p)
  <2> DEFINE c == processor[p].plan.criteria
  <2>1. CASE c = "PROCESSING" /\ In({c}) = {}
    <3>1. Goes(p, [processor[p] EXCEPT !.step = "again"])
      BY <1>10, <2>1 DEF Exists, SecondCriteria
    <3>2. Others(p) /\ processor'[p] = [processor[p] EXCEPT !.step = "again"]
      BY <3>1, GoesOnly DEF BulkInv, Types
    <3>3. processor'[p].step = "again" /\ processor'[p].read = processor[p].read
      BY <1>1, <3>2 DEF BulkInv, Types, Processing, Idle, Working
    <3>4. Agrees(mode, p)' /\ ~At(p, "write")'
      BY <1>3, <1>6, <1>7, <3>3 DEF Agrees, At
    <3>5. \A t \in Transfer : association[t] # "PROCESSING"
      BY <2>1 DEF In
    <3> QED
      BY <1>1, <1>4, <3>2, <3>4, <3>5, FulfilProcessor
  <2>2. CASE c # "PROCESSING" \/ In({c}) # {}
    <3>1. Goes(p, Decided(processor[p], In({c}) # {}))
      BY <1>10, <2>2 DEF Exists, SecondCriteria
    <3>2. Others(p) /\ processor'[p] = Decided(processor[p], In({c}) # {})
      BY <3>1, GoesOnly DEF BulkInv, Types
    <3>3. /\ processor'[p].step = "write" /\ processor'[p].read = processor[p].read
          /\ processor'[p].next = IF In({c}) # {} THEN processor[p].plan.incomplete ELSE processor[p].plan.complete
      BY <3>2 DEF Decided
    <3>4. Agrees(mode, p)' /\ ~At(p, "again")'
      BY <1>3, <1>6, <1>7, <3>3 DEF Agrees, At
    <3>5. ASSUME processor'[p].next \in Final PROVE Held = {}
      <4>1. c = "ABORTING" /\ In({c}) = {} /\ processor[p].read = "ABORTING"
        BY <1>5, <2>2, <3>3, <3>5 DEF PlanOf, Final
      <4>2. mode = "ABORTING" /\ Unsent = {}
        BY <1>3, <1>6, <4>1 DEF Agrees
      <4> QED
        BY <1>8, <1>9, <4>1, <4>2 DEF In, Held, Unsent
    <3> QED
      BY <1>1, <1>4, <3>2, <3>4, <3>5, FulfilProcessor
  <2> QED
    BY <2>1, <2>2
<1>11. CASE ExistsAgain(p)
  <2>1. processor[p].step = "again" /\ processor[p].plan.criteria = "PROCESSING"
    BY <1>2, <1>11 DEF ExistsAgain, Owned, At
  <2>2. Goes(p, Decided(processor[p], In({"ACCEPTED"}) # {}))
    BY <1>11, <2>1 DEF ExistsAgain, SecondCriteria
  <2>3. Others(p) /\ processor'[p] = Decided(processor[p], In({"ACCEPTED"}) # {})
    BY <2>2, GoesOnly DEF BulkInv, Types
  <2>4. /\ processor'[p].step = "write" /\ processor'[p].read = processor[p].read
        /\ processor'[p].next = IF In({"ACCEPTED"}) # {} THEN processor[p].plan.incomplete ELSE processor[p].plan.complete
    BY <2>3 DEF Decided
  <2>5. Agrees(mode, p)' /\ ~At(p, "again")'
    BY <1>3, <1>6, <1>7, <2>4 DEF Agrees, At
  <2>6. processor[p].read \in Answered /\ processor[p].plan.incomplete = "PENDING_FULFIL"
    BY <1>5, <2>1 DEF PlanOf
  <2>7. ASSUME processor'[p].next \in Final PROVE Held = {}
    <3>1. In({"ACCEPTED"}) = {}
      BY <2>4, <2>6, <2>7 DEF Final
    <3>2. mode = "PROCESSING"
      BY <1>3, <1>6, <2>6 DEF Agrees
    <3>3. \A t \in Transfer : association[t] # "PROCESSING"
      BY <2>1 DEF Fulfilling, Ended, At
    <3> QED
      BY <1>8, <1>9, <3>1, <3>2, <3>3 DEF In, Held
  <2> QED
    BY <1>1, <1>4, <2>3, <2>5, <2>7, FulfilProcessor
<1> QED
  BY <1>10, <1>11

LEMMA FulfilWrite ==
  ASSUME BulkInv, Calm, ~Before, NEW mode \in Modes, Fulfilling(mode), NEW p \in Processor, Write(p)
  PROVE  Fulfilling(mode)'
<1>1. /\ UNCHANGED <<association, toPrepare, transfer, streamer, answerer, aborting, told>>
      /\ At(p, "write") /\ results' \subseteq results /\ state' \in {state, processor[p].next}
  BY DEF Write, chain, notices
<1>2. PICK w : Goes(p, w) /\ w.step \in {"idle", "notify"}
  BY DEF Write, Idle
<1>3. Others(p) /\ processor'[p].step \in {"idle", "notify"}
  BY <1>2, GoesOnly DEF BulkInv, Types
<1>4. Types /\ Owned /\ \A r \in results : r.action \notin Timeouts
  BY DEF BulkInv, OnTime, Calm, Ordinary
<1>5. /\ processor[p].next \in {"PENDING_PREPARE", "ACCEPTED", "PENDING_FULFIL", "ABORTING"} \union Final
      /\ processor[p].next = "PENDING_FULFIL" => processor[p].read \in Answered
      /\ processor[p].next = "ABORTING" => processor[p].read = "ABORTING"
  BY <1>1, <1>4, NextOnTime
<1>6. /\ processor[p].read \in Answered => mode = "PROCESSING"
      /\ processor[p].read = "ABORTING" => mode = "ABORTING"
  BY <1>1 DEF Fulfilling, AgreesAll, Agrees, At, Working
<1>7. Held # {} => processor[p].next \notin Final /\ state \notin Final /\ told \intersect Final = {}
  BY <1>1 DEF Fulfilling, Ended
<1>8. /\ state \notin {"none", "INVALID"} /\ (state \in Answered => mode = "PROCESSING")
      /\ (state = "ABORTING" => mode = "ABORTING")
  BY DEF Fulfilling, Closed, AgreesAll
<1>9. /\ state' \notin {"none", "INVALID"} /\ (state' \in Answered => mode = "PROCESSING")
      /\ (state' = "ABORTING" => mode = "ABORTING")
  BY <1>1, <1>5, <1>6, <1>8 DEF Answered, Final
<1>10. ~At(p, "again")' /\ ~At(p, "write")' /\ Agrees(mode, p)'
  BY <1>3 DEF At, Agrees, Working
<1> QED
  BY <1>1, <1>3, <1>7, <1>9, <1>10, FulfilProcessor

LEMMA FulfilNotify ==
  ASSUME BulkInv, Calm, ~Before, NEW mode \in Modes, Fulfilling(mode), NEW p \in Processor, Notify(p)
  PROVE  Fulfilling(mode)'
<1>1. /\ UNCHANGED <<state, association, toPrepare, transfer, streamer, answerer, aborting>>
      /\ results' \subseteq results /\ Goes(p, Idle) /\ told' \subseteq told \union {state, "error"}
  BY DEF Notify, tables, bulk, chain
<1>2. Others(p) /\ processor'[p].step = "idle"
  BY <1>1, GoesOnly DEF BulkInv, Types, Idle
<1>3. /\ state \notin {"none", "INVALID"} /\ (state \in Answered => mode = "PROCESSING")
      /\ (state = "ABORTING" => mode = "ABORTING")
      /\ Held # {} => state \notin Final /\ told \intersect Final = {}
  BY DEF Fulfilling, Closed, AgreesAll, Ended
<1>4. Held # {} => told' \intersect Final = {}
  BY <1>1, <1>3 DEF Final
<1>5. ~At(p, "again")' /\ ~At(p, "write")' /\ Agrees(mode, p)'
  BY <1>2 DEF At, Agrees, Working
<1> QED
  BY <1>1, <1>2, <1>3, <1>4, <1>5, FulfilProcessor

LEMMA FulfilNext ==
  ASSUME BulkInv, UnreadInv, FulfilInv, [Next]_vars
  PROVE  FulfilInv'
<1> SUFFICES ASSUME Calm', ~Before' PROVE \E mode \in Modes : Fulfilling(mode)'
  BY DEF FulfilInv, Fulfilling, Closed, AgreesAll, Ended, Agrees, Unsent, Left
<1>1. Calm
  BY Grows DEF Calm, BulkInv
<1>2. CASE Before
  <2>1. SaveAnswer
    <3>1. ~Crash
      BY DEF Crash, Calm
    <3>2. CASE BulkPrepare \/ BulkFulfil
      BY <1>2, <3>2 DEF BulkPrepare, BulkFulfil, Before, BulkInv, Types, Counters, Idle
    <3>3. CASE SaveBulkTransferReceived \/ Stream \/ SaveBulkTransferAborting
      BY <1>2, <3>3 DEF SaveBulkTransferReceived, Stream, SaveBulkTransferAborting, Before
    <3>4. CASE ListForPayee \/ SendIndividualTransfer
      BY <1>2, <3>4 DEF ListForPayee, SendIndividualTransfer, Before, BulkInv, Types, Answering, Idle
    <3>5. CASE \/ \E t \in Transfer : Prepare(t) \/ Expire(t) \/ TimeOut(t)
               \/ \E t \in Transfer, a \in FulfilAction : Fulfil(Ask(t, a))
      <4>1. UNCHANGED <<tables, answerer>>
        BY <3>5 DEF Prepare, Expire, TimeOut, Fulfil
      <4> QED
        BY <1>2, <4>1 DEF Before, tables
    <3>6. CASE \E p \in Processor : Process(p)
      BY <1>2, <3>6 DEF Process, Read, Update, Exists, ExistsAgain, Write, Notify, Before, tables
    <3>7. CASE UNCHANGED vars
      BY <1>2, <3>7 DEF vars, Before, tables
    <3> QED
      BY <3>1, <3>2, <3>3, <3>4, <3>5, <3>6, <3>7 DEF Next, Handle
  <2> QED
    BY <1>2, <2>1, FulfilStarts
<1>3. CASE ~Before
  <2>1. PICK mode \in Modes : Fulfilling(mode)
    BY <1>1, <1>3 DEF FulfilInv
  <2>2. Closed
    BY <2>1 DEF Fulfilling
  <2>3. CASE UNCHANGED vars
    <3>1. /\ UNCHANGED <<state, association, toPrepare, transfer, results, streamer, answerer, aborting, processor>>
          /\ told' = told
      BY <2>3 DEF vars, tables, bulk, chain, notices
    <3> QED
      BY <1>1, <1>3, <2>1, <3>1, FulfilSame
  <2>4. CASE BulkPrepare \/ BulkFulfil
    BY <1>1, <1>3, <2>1, <2>4, FulfilRequest
  <2>5. CASE SaveBulkTransferAborting \/ ListForPayee
    BY <1>1, <1>3, <2>1, <2>5, FulfilAborting, FulfilList
  <2>6. CASE SendIndividualTransfer
    BY <1>3, <2>1, <2>6, FulfilSend
  <2>7. ASSUME NEW t \in Transfer, NEW a \in FulfilAction, Fulfil(Ask(t, a))
        PROVE  \E m \in Modes : Fulfilling(m)'
    BY <1>1, <1>3, <2>1, <2>7, FulfilTransfer
  <2>8. ASSUME NEW p \in Processor, Process(p)
        PROVE  \E m \in Modes : Fulfilling(m)'
    <3>1. CASE Read(p)
      BY <1>3, <2>1, <3>1, FulfilRead
    <3>2. CASE Update(p)
      BY <1>1, <1>3, <2>1, <3>2, FulfilUpdate
    <3>3. CASE Exists(p) \/ ExistsAgain(p)
      BY <1>1, <1>3, <2>1, <3>3, FulfilExists
    <3>4. CASE Write(p)
      BY <1>1, <1>3, <2>1, <3>4, FulfilWrite
    <3>5. CASE Notify(p)
      BY <1>1, <1>3, <2>1, <3>5, FulfilNotify
    <3> QED
      BY <2>8, <3>1, <3>2, <3>3, <3>4, <3>5 DEF Process
  <2> QED
    BY <1>3, <2>2, <2>3, <2>4, <2>5, <2>6, <2>7, <2>8, ClosedForGood
<1> QED
  BY <1>2, <1>3

(* A bulk that payer and payee are told has ended, in a notification or in  *)
(* the reply to a GET, holds no funds: however many processes consume the   *)
(* results of its transfers, and while the fulfil handler is still sending  *)
(* them, the last state is written only once no transfer is reserved, even  *)
(* where one process overwrites the state another has just written          *)
(* (createBulkTransferState, bulk/processing/handler.js), and whichever     *)
(* transfers the answer lists.  The answer comes after the payee is asked:  *)
(* the fulfil handler does not see to that, and an earlier answer may end   *)
(* the bulk before its last transfer is reserved.  The proof takes UnreadInv, by which no result of a prepare is  *)
(* handled late, and FulfilInv: the answer was valid or invalid, states,    *)
(* associations and plans agree with it, and whatever is held has yet to be *)
(* heard of.                                                                *)
THEOREM TheEndIsTheEnd == Spec => []ToldIsFinished
<1>1. Init => BulkInv /\ UnreadInv /\ FulfilInv
  <2>1. Init => UnreadInv /\ FulfilInv
    BY DEF Init, UnreadInv, FulfilInv, Before
  <2> QED
    BY <2>1, BulkInvInit
<1>2. BulkInv /\ UnreadInv /\ FulfilInv /\ [Next]_vars => (BulkInv /\ UnreadInv /\ FulfilInv)'
  BY BulkInvNext, UnreadNext, FulfilNext
<1>3. BulkInv /\ UnreadInv /\ FulfilInv => ToldIsFinished
  <2> SUFFICES ASSUME BulkInv, FulfilInv, Calm, Held # {}
               PROVE  (told \union {GetBulkTransfer(f).state : f \in Fsp}) \intersect Final = {}
    BY DEF ToldIsFinished, Calm
  <2>1. told \intersect Final = {} /\ state \notin Final /\ state # "INVALID"
    <3>1. CASE Before
      <4>1. Preparing
        BY <3>1 DEF BulkInv, PrepareInv, Calm, Ordinary
      <4>2. PICK t \in Transfer : transfer[t] = "RESERVED"
        BY DEF Held
      <4>3. association[t] # "none"
        BY <4>1, <4>2 DEF Preparing, Accounted
      <4> QED
        BY <4>1, <4>3 DEF Preparing, Unanswered, Streamed, Final
    <3>2. CASE ~Before
      BY <3>2 DEF FulfilInv, Fulfilling, Closed, Ended
    <3> QED
      BY <3>1, <3>2
  <2>2. Enumeration \notin Final
    BY <2>1 DEF Enumeration, Final
  <2>3. \A f \in Fsp : GetBulkTransfer(f).state \in {"none", "not found", "refused", Enumeration}
    BY DEF GetBulkTransfer, Reply
  <2> QED
    BY <2>1, <2>2, <2>3 DEF Final
<1> QED
  BY <1>1, <1>2, <1>3, PTL DEF Spec

=============================================================================
