# The central ledger, modelled in TLA+

This directory holds TLA+ models of the Mojaloop central ledger, the TLC runs
that check them and TLAPS proofs of what matters most about them. Every
definition is translated from the source in `src/`; `PROJECT.json` names, for
each definition, the lines it stands for.

## The system

The central ledger keeps one *position* per participant and currency and moves
it as transfers are prepared, answered and timed out. It is a set of Node.js
processes that share one MySQL database and talk over Kafka. A participant's
HTTP request reaches another service, the ml-api-adapter, which puts it on a
Kafka topic; the ledger's handlers take it from there, and answer by producing
notifications that the ml-api-adapter delivers.

    participant --> [prepare topic]  --> prepare handler  --+
    participant --> [fulfil topic]   --> fulfil handler   --+--> [position topic] --> position handler
                         cron ---------> timeout handler  --+                              |
                                             |                                             |
                                             +--------> [notification topic] <-------------+

| component | state it keeps | operations | what makes it correct |
|---|---|---|---|
| prepare handler (`handlers/transfers/prepare.js`) | `transferDuplicateCheck`, `transfer`, first `transferStateChange` | check duplicates, validate, store, ask for a reservation; mark a transfer a proxy has forwarded | one reservation per transfer id, whatever is sent again |
| fulfil handler (`handlers/transfers/handler.js`, `FxFulfilService.js`) | `transferFulfilment`, `transferError`, their duplicate checks | judge the payee's answer, store it, ask for the money to move | only an answer to a reserved, unexpired transfer counts, and only one |
| position handler (`handlers/positions/handler.js`) | `participantPosition`, `participantPositionChange`, `transferStateChange` | reserve, commit, abort, time out | limits are kept; money is neither moved twice nor kept |
| batch position handler (`handlers/positions/handlerBatch.js`, `domain/position`) | the same tables | the same, a batch of messages in one transaction | what the single handler keeps, for any batch |
| timeout handler (`handlers/timeouts/handler.js`) | `transferTimeout`, `segment`, `transferForwarded` | sweep, list, produce; ask again about forwarded transfers | every reserved transfer that nobody answers is returned to its payer |
| FX (`domain/fx`, `models/fxTransfer`) | `fxTransfer*`, `fxWatchList` | conversions that a transfer depends on, settled or aborted with it | the parts of a payment end alike |
| admin handler (`handlers/admin/handler.js`) | settlement accounts, reconciliation transfers | funds in; funds out reserved, committed, aborted | no movement is lost, none ends half done |
| bulk handlers (`handlers/bulk`) | `bulkTransfer*` | split a bulk, collect its transfers' outcomes, answer | the bulk ends when its transfers have |
| participants, limits, accounts (`domain/participant`) | `participant*` | create, change, disable | a limit is never below what is in use unnoticed |
| proxies (`lib/proxyCache.js`, `models/participant/externalParticipant.js`) | who stands in for whom (kept by an external library) | look up, store external participants, forward, get | the books balance whoever stands in for whom |
| caches (`lib/cache.js`, `models/participant/*Cached.js`) | per-process copies | read, invalidate, expire | nothing decides on a copy that must not be old |

Hard behaviours: the handlers of one transfer run concurrently, and read the
transfer's state before the transaction that acts on it; a process may die
between its transaction, its offset commit and its messages, and Kafka then
delivers again or nothing at all; the timeout handler races with answers; a
batch's offset is committed before its transaction; every process reads
participants and limits through caches of its own. `PROJECT.json` lists the
hazards at their lines, with the properties aimed at each or the reason there is
none.

## What is modelled

`TransferLifecycle` follows one transfer through the four handlers statement by
statement; `FxPayments` follows transfers with currency conversions through the
batch position handler, with the other handlers one action each; `InterScheme`
has which accounts a payment moves when either side converts and proxies stand in
for participants. Four more models have the timeout job, funds in and out,
participants with their limits, and bulks. The proofs of a model are in a module of
their own, named after it with `_proofs`; `Sums` has the lemmas on sums over finite
sets that three of them share.

### The life of a transfer

| module | models |
|---|---|
| `TransferStore` | the tables, the topics, a message's way through a handler, participants and time |
| `PrepareHandler` | `prepare.js` with `saveTransferPrepared` and `updatePrepareReservedForwarded` |
| `FulfilHandler` | `processFulfilMessage` with `savePayeeTransferResponse` |
| `PositionHandler` | `positions` with the two transactions of `models/position/facade.js` |
| `TimeoutHandler` | `timeout` with `timeoutExpireReserved`, `_getTransferList`, the cleanup |
| `TransferLifecycle` | all of them composed; fairness; the properties |
| `TransferLedger` | the abstract ledger: reserve, then settle or release |
| `MCTransferLifecycle` | instances for TLC |
| `TransferLifecycle_proofs` | proofs: types, limits, credits, notices, the sweep, refunds, the ledger |

**State.** `state` is a transfer's latest `transferStateChange`; `position` an
account's `participantPosition.value`; `debited`, `refunded` and `credited`
count the `participantPositionChange` rows by what they did; `prepareHash`,
`fulfilHash` and `errorHash` are the three duplicate-check tables, `fulfilment`
and `transferError` the tables whose primary key is the transfer id. `pending`
holds the messages whose offset is not committed, `job` how far the handler of a
message has come, with what it has read. `timedOut` and `timeoutList` belong to
the timeout run, `notified` collects the notifications produced.

**Actions.** One action stands for one database statement or transaction of a
handler with the code around it, up to the next `await` at which another process
can interfere. So the fulfil handler is `CheckFulfil` (read, judge, store the
hash), `SaveFulfilment` or `SaveError` (the transaction) and `Proceed`
(`Kafka.proceed`: commit the offset, produce). `Crash` may strike between any
two of them. A handler that throws before `Kafka.proceed` abandons its message
(`Abandon`): nothing is committed, and the next message's commit covers it.

**Simplifications**, each sound for the properties checked:

- A topic is a set of messages, so messages of a partition may overtake each
  other. The code's order is among the orders explored; the trace of this model's
  violation respects it.
- The state `CheckFulfil` reads and its judgement are one step; the hash insert
  between them is the handler's own. The window that matters, from the judgement
  to `savePayeeTransferResponse`, is kept.
- Requests are kinds: well-formed, with another payload, invalid, with a
  fulfilment that does not match, with wrong FSPIOP headers. Two requests of one
  kind are byte-equal, so they hash alike.
- A participant answers a transfer after the notification of the prepare, so the
  branch "transfer not found" is not reached.
- A run of the timeout handler is a step here: it lists what it expired.
  `TimeoutJob` has its statements.
- Accounts, limits and the settlement position are constants here:
  `ParticipantAccounts` and `AdminFunds` change them.
- A database that fails is not modelled, except as the death of the process. The
  v1.0 RESERVE that is ignored, unknown event types, bulk actions and the FX
  results of cyril are left out.

The default configuration (`config/default.json`) sends ordinary position
messages to the handler modelled here and FX ones to the batch handler; the
repository's README describes how all of them are sent to the batch handler, as
`FxPayments` has it.

**Fairness** (`FairSpec`). Each consumer of a partition and the cron job keep
going (weak fairness on each), and an expiration date, once set, passes. The
Kafka client polls for as long as its process lives and the cron job runs every
15 seconds, so both are what a live deployment does. Participants owe no request
and processes no crash, hence no fairness there. Deadlock is not checked: the
requests of an instance are bounded, and when they are used up the system rightly
stops.

### Conversions and the batch position handler

| module | models |
|---|---|
| `PositionBatch` | `handlerBatch.js`, `processBins` and the seven bins of `domain/position` |
| `FxPayments` | conversions (`FxFulfilService`, `cyril.js`, `models/fxTransfer`), transfers that depend on them, the sweep over both; fairness; the properties |
| `MCFxPayments` | instances for TLC |
| `FxPayments_proofs` | proofs: types, statements, notices, stored states, funds that go to one side |

A payer whose money must be converted asks an FX provider first. The conversion
reserves the payer's funds in the source currency and, once fulfilled, waits
(RECEIVED_FULFIL_DEPENDENT); the transfer reserves the provider's funds in the
target currency; its commit pays the provider and then, with a follow-up message
to another account, the payee. An abort gives back both reservations in the same
way. `cyril.js` works out these movements when the answer arrives; a message
carries them as its `plan`, with `done` counting the `isDone` ones. Each movement
has its own account and its own party to tell: `CommitMove` and `AbortMove` tell
the payer and payee of the transfer and, with the movement of the conversion,
the FX provider.

**State.** `state`, `position` and `notified` are as above, for transfers and
conversions; `moved` counts the rows of `participantPositionChange` by kind;
`timeoutRow[x]` says whose expiration date the row of x holds, because an
expired transfer passes its date to its conversion and the other way round.
`work[c]` is the batch of a consumer: its open transaction, with the states and
the position each bin starts from, and what it will insert and produce.

**Actions.** `Poll` takes a batch and reads what `processBins` reads at the
start; `Item` is one message of the first bin that has one; `CommitOffset`,
`CommitTrx` and `Produce` are the three steps after the bins, in the code's
order. `Rollback` is a bin that throws: its batch is not read again unless the
process dies before the next offset is committed. `CrashBatch` may strike
anywhere. `Sweep` is a run of the timeout handler: cleanup, both inserts, the two
rounds of `_processTimeoutEntries` with the exchange of dates between them, and
the messages.

**Simplifications.**

- The prepare, fulfil and timeout handlers act at once here. What their own steps
  allow is the other model's subject.
- One conversion of the payer's per transfer. A request for a conversion of a
  transfer that exists already is the payee's and is left out, and so are
  reference currencies (several conversions), forwarding by a proxy and requests
  that fail validation otherwise.
- A payer asks for its transfer when it has been told what became of the
  conversion.
- Messages are a set, so a consumer may take them in any order and in batches of
  any size up to `MaxBatch`. Nothing in the code orders the messages of different
  producers, and a bin regroups those of one batch anyway.
- Limits and the settlement position do not change.
- A conversion that times out gives back what its reserving row holds; a timeout for
  one without such a row makes the bin throw.

**Fairness** (`FairSpec`): consumers, the cron job and time, as above.

### Conversions on both sides and other schemes

`InterScheme` (instances in `MCInterScheme`) asks what the two models above take as
given: which accounts a payment has to move. The payer may convert before the
transfer, the payee after it, both or neither; each of the four parties is in the
scheme, behind a proxy, or not known; and the proxies have position accounts or not.

**State.** `where` is what the proxy cache and the participants say of each party,
`accounts` the active position accounts; both are chosen at the start and stay.
`state`, `fxType` (the watch list), `answer`, `reserved` (the rows that reserved
funds) and `balance` are the tables, `pending` the position messages.

**Actions.** `Prepare` (who is found, what is validated, which participant is stored
for whom, which account is to reserve), `Forward`, `FxAccept`, `FxRefuse`, `Accept`,
`Refuse` and `Misanswer` (undefined error code, or wrong headers) with the movements
that `cyril.js` works out of them; `ReserveFunds`, `RejectFunds` and `Settle` of the
position handler; `Sweep`. `MisanswerOutOfTurn` and `FxMisanswerOutOfTurn` are the
answers that fail a check which comes before that of the state, wrong headers or a
fulfilment that does not match, when the request is not waiting for one: they abort it
in whatever state it is, and `outOfTurn` remembers that. `GetTransfer` is what the get
handler replies in a state, to whom and by which way; it changes nothing.

**Simplifications.** One action per handler, and all movements of a message in one:
interleaving and the chain of messages are the other models' subject. Amounts are 1.
One conversion on each side. `MaxOutOfTurn` bounds how many requests are answered out
of turn, each once. A converted payment expires as a whole: `MayExpire`
leaves out a conversion that expires under a transfer that has been forwarded or is
being settled, which pays the provider from what the payer got back.

**Fairness** (`FairSpec`): the position handler takes its messages (weakly).

### The timeout job

`TimeoutJob` models `handlers/timeouts/handler.js` as the processes that run it
see it, for transfers and conversions side by side.

**State.** `rows` are the two state-change tables, in the order of their ids, each
row open until its transaction commits; `segment` says how far a run has looked;
`timeoutRow` and `attempts` are the timeout and forwarded tables; `lock` is the
distributed lock; `run[p]` is the run of a process, with what it has read.

**Actions.** Those of a run, in order: `Tick` (the `running` flag, the lock),
`ReadIntervals`, `TimeoutExpireReserved` (the first transaction, with the insert
that waits for open rows), `ListTimedOut`, `ReservedForwardedTransfers` (the
second), `ProcessTimedOut`, `ProcessForwarded`, `IncrementForwardedAttemptCount`,
`Finish`. A run may `Fail`, its process may `Die`, and its lock may `Lapse` under
it; `InsertStateChange` and `CommitStateChange` are the other handlers.

**Simplifications.** What the other handlers do to a state is any step of the
state diagram; an `INSERT ... SELECT` waits for uncommitted rows, as it does under
MySQL's default isolation level. The scheduler cannot start a second run in a
process whose first is not over.

**Fairness.** Some process's run goes on, a lock nobody extends expires, and
transactions and time come to their end (weak fairness on each). No process is
promised the lock.

### Funds in and out

`AdminFunds` models `handlers/admin/handler.js` with the reconciliation transfers
of `models/transfer/facade.js`.

**State.** `topic` and `sent` are the requests; `hash`, `state` and `fulfilment`
the tables with the keys that can refuse a row; `position` the accounts, `moved`
what each transfer has moved; `handler[h]` how far a process has come.

**Actions.** `RecordFundsInOut` is the operator; `Prepare` and `ChangeStatus` the two
halves of the handler up to the transaction; `InsertFulfilment`,
`ReconciliationTransferPrepare` and `TransferStateAndPositionUpdate` the
transactions, the last with the read of its positions before it; `CommitOffset`
ends a message. `Sweep` is the timeout run, `Expire` time, `Crash` a death.

**Simplifications.** Messages may be handled in any order and by several processes
at once. Positions are read without a lock and written as absolute values, as in the
code: when two transactions do so at once one movement is lost, and `overtaken`
records the account. Notifications to the operator are left out.

**Fairness.** Consumers, the cron job and time, weakly.

### Participants, accounts and limits

`ParticipantAccounts` models the admin API that registers participants, the
settlement models that say which accounts they get, limits, and the caches.

**State.** `participant`, `account` (participantCurrency), `positions` (rows of
participantPosition), `limit` (participantLimit, in order) and `models` are the
tables; `cache[p]` and `pending[p]` what a process holds of them and what a read
of it has still to store; `worker[w]` the request in hand.

**Actions.** One per request or per transaction of it (`Create` and
`CreateParticipantCurrency`; `AddLimitAndInitialPosition`, `InsertLimit`,
`CommitLimit`; `AdjustLimits`, `CommitAdjust`; `Update`, `UpdateAccount`,
`CreateHubAccount`, and the two of settlement models). `Generate`, `Store`, `Expire`
are the cache; the drop of an entry is part of the transaction, before the commit,
as in the code. `Die` is the death of a process.

What is read of it is defined as well, over the tables or a process's copies:
`LimitUsed` and `CoveringAccount` are what a position message is checked against,
`GetLimits`, `GetLimitsForAllParticipants`, `GetPositions` and `GetAccounts` what the
API shows.

**Simplifications.** One currency. `CachedTable` chooses which tables are read through a
cache in an instance; the run caches the limits. Its operator never switches off the
POSITION model of the currency while another model of that currency stays active: every
position message of the currency would then fail with a `TypeError`
(`binProcessor.js:446`, `models/position/facade.js:70`). Requests come in stages, those
of one stage in any order: an operator registers before it sets limits. `Patient` is an
operator who waits for an answer before it asks for a participant's first limit again.
`Accounts` assumes one, and with it `OneActiveLimit`, `ActiveHasPosition` and
`LimitsTakeEffect` are checked; without it two requests at once both set the limit and
the position, which the model reaches when `Patient` is `FALSE`. The limit's transaction
inserts a row for every model and account (`Inserted`), so two models that share an
account type give its account two rows.

**Fairness.** Requests of a live process go on (strong fairness: they may have to
wait for a lock or a cache again and again), a worker takes a request, a cache read
stores and its entry expires.

### Bulk transfers

`BulkTransfer` models the three bulk handlers for one bulk: requests and their
hashes, the stream that takes a bulk apart, the single transfers as their results
show, the processing handler in several processes, and the answer of the payee.

**State.** `state` is the latest bulkTransferStateChange, `payee` the participant
stored for it, `association` the processing
state of each transfer, `toPrepare`, `toFulfil` and `results` the topics; `streamer`,
`answerer` and `processor[p]` how far each handler has come, `asked` and `told` the
notifications. `disturbed` records what happened out of the order the handlers
expect.

**Actions.** `BulkPrepare`, `SaveBulkTransferReceived`, `Stream`; `Read`, `Update`,
`Exists`, `ExistsAgain`, `Write`, `Notify` of the processing handler, none of which
share a transaction; `BulkFulfil`, `SaveAnswer`, `SaveBulkTransferAborting`,
`ListForPayee`, `SendIndividualTransfer`; `Prepare`, `Fulfil`, `TimeOut` are what the
single transfers' handlers make of it. The checks of the shared validator, of a
request and of an answer, decide on their fields (`BulkRequest`, `BulkAnswer`).
`GetBulkTransfer` is the reply of the get handler: it changes nothing, and the
properties say that it agrees with the notifications.

**Simplifications.** One bulk; its transfers are not sent again. An answer may come at
any time once the bulk is stored, from anyone, with whatever transfers in its list: the
handler looks at neither. One that comes before the payee was asked is recorded in
`disturbed` (early), which `AskedTogether` and `ToldIsFinished` exclude. Transfers of
the list that the bulk does not have are left out: the fulfil handler of transfers does
not find them and their results have no association. A listed transfer whose association
does not exist yet is in the model.

**Fairness.** None: only safety is checked. The bulk need not end, see the hazards.

## What the runs check

| run | instance | properties | what it shows |
|---|---|---|---|
| `Hostile` | one transfer, ten kinds of request, 3 requests, expiration, 2 crashes | `TypeOK`, `CreditIsFunded`, `NoticesMatchMoney`, `SweepNeverBlocked` | what holds whatever participants do and whenever processes die |
| `Racing` | one transfer, six kinds, 4 requests, expiration, no crash, fairness | `RefundedAtMostOnce`, `NothingHeldAtTheEnd`, `ReservedAbortedIsFinal`, `EveryTransferEnds` | answers and the timeout race, and the transfer comes to an end |
| `Contended` | two transfers from one account that can afford one, five kinds, 3 requests each, no expiration, no crash | `PositionWithinLimit`, `KeepsTheLedger` | limits under contention; the handlers implement `TransferLedger` |
| `FulfilTimeoutRace` | prepare and commit, expiration | `ExpiredReservedIsFinal` (violated) | finding 1 |
| `Settlement` | a transfer with a conversion, both may expire, two consumers, one crash, fairness | `TypeOK`, `ToldIsDone`, `StoredIsDone`, `MovedOnce`, `SettledTogether`, `EveryPaymentEnds` | money moves once, what participants are told and what is stored is true, the two end, and end alike |
| `SharedPayer` | the same with a second transfer on the payer's account and none of its own for the first, no expiration, no crash, fairness | `StatementsAddUp`, `AnswersTakeEffect` | bins and batches lose none of each other's changes; every answer takes effect |
| `BatchLimits` | two transfers, limits for one | `PositionsWithinLimits` (violated) | finding 2 |
| `Timeouts` | two processes, two transfers, one of which expires and goes through every state, one fault, fairness | `TypeOK`, `NothingOverlooked`, `OneTimeoutMessage`, `JobGoesOn`, `TimeoutsAreSent` | nothing falls between two runs; what expires is given back once, and is |
| `Funds` | one account with 1 in it, funds out of 2 and 1, funds in of 1, expiration, one crash, fairness | `TypeOK`, `MovesMatchState`, `AccountsAddUp`, `RequestsTakeEffect` | what a transfer has moved is what its state says |
| `Accounts` | a participant, three settlement models, two processes, two requests at a time, one crash, fairness | `TypeOK`, `OneActiveLimit`, `ActiveHasPosition`, `LimitsTakeEffect` | limits replace each other one at a time and reach every process; in the end a position message is checked against the limit and the accounts that the API shows |
| `Bulk` | a bulk of two transfers, two processing handlers, one death or expiration, the request twice, at most two kinds of disturbance | `TypeOK`, `AskedTogether`, `ToldIsFinished` | the payee is asked for what is reserved, nobody is told of an end that has not come, and a GET says the same |
| `Routing` | a payment converted on either side, both or none; parties in the scheme, behind one of two proxies or unknown; the payer's and the proxies' accounts varied; one answer out of turn; fairness | `TypeOK`, `EveryCurrencyBalances`, `RepliesTurnOutOfTurn`, `AnswersTakeEffect` | without an answer out of turn every currency balances in the end, answers take effect, and nobody is told of two ends |

The bounds are small and sufficient for their questions. A transfer has one
prepare, one answer of each table and one timeout that can matter; three or four
requests allow a prepare with two or three competing answers. Two crashes allow
the redelivery of one message and of the one it caused. Limits couple transfers
only through an account, and two transfers of which it can afford one make them
compete: amounts 2 and 1 against a net debit cap of 2 and a cover of 3, so that it is
the cap that refuses the second; the cover is checked beside it, and that neither is
ever exceeded for any values is the theorem `LimitsAreKept`.
For conversions, one transfer with its conversion has every step of a settlement,
over four accounts and two partitions, so that its messages overtake each other;
batches of two put two bins of one account into one transaction, which needs the
second transfer of `SharedPayer`. In `Timeouts` a second transfer is enough to
hold an id open while the first one's passes it, and one fault at any step of one
process meets every step of the other; conversions take the same path on their
own tables. In `Funds` one account serves both, so that its three transfers
compete for it. In `Accounts` two requests at a time suffice for a read of one
between a read and a write of the other, and the second process has only the
cache that must follow. In `Bulk` two transfers have a first and a last, and two
results in two processes are what it takes to overtake; a behaviour with a third kind
of disturbance is cut (`AtMostTwo`), which none of the properties tolerates. In `Routing` two proxies can
stand for two parties alike or differently, and all combinations of their accounts in
the two currencies they may be moved in are tried; one answer out of turn is enough to
turn an end, and what follows a second one no property speaks of. Every property of a
passing run has a mutant, a plausible bug in one definition, that TLC finds.

**Why some properties are checked without crashes, or bear exceptions.** A
redelivered abort message refunds twice, because that branch of the position
handler looks at no state; a position message lost after its offset was committed
leaves the transfer in RECEIVED_FULFIL for good. Those are facts of the code,
listed as hazards; `RefundedAtMostOnce` and `EveryTransferEnds` say what is true
without them. `misroutedCommit` is left out of `Racing` for the same reason: a
request with wrong FSPIOP headers aborts a transfer in any state. In the batch
handler it is the other way round: a batch that was committed is never read again,
and a crash loses messages instead. `MovedOnce`, `ToldIsDone` and `StoredIsDone`
hold with crashes; `SettledTogether`, `EveryPaymentEnds` and `AnswersTakeEffect` say in
their own text what a lost batch excuses.

`FxFulfilService` accepts an abort of a conversion that was fulfilled. The payer's
funds are then given back while the transfer goes on, its refusal gives them back
again, and the follow-up message of the abort finds the conversion aborted already
and rolls its batch back. `Undisturbed` and `WentBack` of `FxPayments` leave those
behaviours, which the model contains, out of the properties; a conversion that runs
out of time alone is left out of `MovedOnce` and `SettledTogether`, not of liveness.

In `TimeoutJob` a fault between the transaction and the messages loses the messages
(`TimeoutsAreSent` excuses faults, `JobGoesOn` does not), and a lock that lapses admits
a second run (`OneTimeoutMessage` excuses it). In `AdminFunds` `overtaken` marks the
accounts two transactions read at once; in `BulkTransfer` `disturbed` names the order
each property tolerates: an answer that comes before the payee is asked is beyond both
of them. In `InterScheme`, `Regular` leaves out deployments in which a proxy lacks the
account that its role requires, or has one that its role must not have, conversions of
the payee's that were refused (the position handler stops at the refused one), and
payments to which an answer came out of turn: a committed one that is aborted then does
not balance, since the payer is given back what it paid and the payee keeps it, and who
asks is told of two ends. `AnswersTakeEffect` leaves out a misanswer to a converted
transfer. All of these behaviours are reachable in the runs; only the property leaves
them out.

### Findings

1. *An expired transfer is committed.* The fulfil handler reads RESERVED, the
   sweep marks the transfer RESERVED_TIMEOUT and the position handler refunds the
   payer (EXPIRED_RESERVED); then `savePayeeTransferResponse` inserts
   RECEIVED_FULFIL without looking, and the payee is credited. The state diagram
   ends at EXPIRED_RESERVED.
2. *A batch exceeds the limits.* Each reservation of a bin adds its amount to what
   is still available instead of taking it away, so that every further transfer of
   the bin is judged with more room than before.

Met while modelling, and in the models without a run of their own:

- *A committed transfer is aborted.* The fulfil handler compares the headers of an answer
  with the parties before it looks at duplicates or the state
  (`handlers/transfers/handler.js:215`), and stores an answer whose headers differ as an
  error: COMMITTED becomes RECEIVED_ERROR and then ABORTED_ERROR, a GET that was answered
  COMMITTED is answered RESERVED and ABORTED, and the payer gets back what the payee keeps,
  though both state diagrams draw `COMMITTED --> [*]`. Take `outOfTurn' = {}` from
  `RepliesTurnOutOfTurn`, and TLC finds it.
- *An early answer aborts half a bulk.* The bulk fulfil handler takes an answer at any
  time and from anyone (`handlers/bulk/fulfil/handler.js:115`). One that fails its checks
  while one transfer is reserved and the other's prepare is unread makes the bulk ABORTING
  and "Abort-Reject[s] all individual transfers" it finds: the first. The other is reserved
  afterwards, its result is one that ABORTING does not expect, and the bulk is REJECTED
  when the first is aborted. Allow `"early"` in `ToldIsFinished`, and TLC finds it.
- *The first limit is set twice.* Two requests for a participant's first limit and
  position, served at the same time, both find none and both insert: two active limits
  and two position rows, though the function's comment says that they "can be set only
  once" (`models/participant/facade.js:454`). The check is outside the transaction, and no
  index helps. With `Patient` `FALSE`, TLC finds `OneActiveLimit` violated.
- Funds out that run out of time stay taken: the sweep marks them RESERVED_TIMEOUT, no
  list has them (`_getTransferList` joins roles they do not have), and neither a commit
  nor an abort is accepted any more.
- A refused reservation inserts a row in `participantPositionChange` with the transfer's
  amount as its `change`, although the position did not move
  (`models/position/facade.js:233-248`); `PositionHandler` leaves that row out, no handler
  reads it for a transfer that has ended.
- Nobody is told of EXPIRED_PREPARED: `_getTransferList` also joins with
  `participantPositionChange`, where a transfer that was never reserved has no row.
- A position message of a prepare that is read again finds RESERVED, takes it for an
  incorrect state and writes ABORTED_REJECTED; the funds stay held.
- A conversion's timeout row is not cleaned up while it waits for its transfer
  (RECEIVED_FULFIL_DEPENDENT), so the sweep may give the payer's funds back while
  the transfer is being committed.
- Two settlement models of a currency may share a settlement account type (only the
  ledger account type is unique, `401301_settlementModel-indexes.js`): one request for
  the first limit then gives that account two position rows.
- `addLimitAndInitialPosition` produces its notification before the transaction that it
  speaks of (`domain/participant/index.js:349`).
- A cached `getByNameAndCurrency` returns a participant that has no account in the
  currency; the uncached one does not (`models/participant/facade.js:69`).
- A misanswer to a converted transfer stores RECEIVED_ERROR, then fails with a
  `TypeError` because the payer has no account in the transfer's currency
  (`handlers/transfers/handler.js:254`, `:648`): the funds stay held. An accepted
  transfer whose payee's proxy has no account fails after RECEIVED_FULFIL in the same
  way (`:598`), or, when it was converted, debits the provider and credits nobody.
- A conversion whose provider is proxied and a transfer whose payee is not do not go
  together: `cyril.js:140` reads a row of the conversion that was not stored, and the
  transfer stays RECEIVED_PREPARE until it expires.
- `cyril.js:441` asks whether the stored payee is in the scheme, to treat one proxy for
  provider and payee apart; the stored name is the proxy's own, which always is. A
  proxy for both, with an account in the target currency, is credited without having
  been debited.
- A fulfilment of a conversion that does not match aborts it in any state: it is
  checked before the state is (`handlers/transfers/handler.js:755`), and so are its
  headers (`:734`). `FxMisanswerOutOfTurn` is that.
- A GET of a conversion through a proxy is always taken for one of a failed one: the
  handler reads `transferStateEnumeration`, which the query does not select (`:855`);
  where there is no error row it fails and does not reply. The error of a conversion
  that was invalid is written to `transferError` (`models/fxTransfer/stateChange.js:53`).
- The validators keep their `reasons` in a variable of the module, which concurrent
  validations share (`handlers/transfers/validator.js:57`).
- A late answer moves a COMPLETED bulk back to PROCESSING; an invalid fulfilment is
  never reported to the bulk; a bulk with no accepted transfer never tells its payer;
  a last result that carries an error sends the payer an error only. A stranger's
  answer aborts it. The processing state BULK_TIMEOUT_RECEIVED is handled and never
  produced. A repeated request whose hash is stored and whose bulk is not fails with a
  `TypeError`; a GET in PENDING_FULFIL, EXPIRING or ABORTING lists results of transfers
  that are still reserved.

## What is proved

Every theorem holds for all values of the constants that meet the assumptions of its
model: any number of transfers, accounts, processes, requests and crashes. The
assumptions are on the shape of the constants (amounts are numbers, payers are
accounts, the sets that something is counted over are finite), and TLC evaluates them
in every run. A theorem that needs more says so in its `ASSUME`, and is then about
what its run is about too.

Each argument has the same form: an inductive invariant that names what a step relies
on, a lemma for each action or group of actions, and one temporal step. The
invariants are large where the code keeps something true by where things *are* and
not by what it checks.

**`TransferLifecycle_proofs`**

- `TypeCorrect`: `Spec => []TypeOK`. One step per handler; `Goto`, `Abandon` and
  `Proceed` have a lemma each, because every action goes through one of them.
- `LimitsAreKept`: `Spec => []PositionWithinLimit`. Inductive given `TypeOK`: only
  `Debit` raises a position, it is guarded by `CanReserve`, and the transaction
  that evaluates the guard is the one that moves the account. No limit ever
  changes here; that is an assumption of this model, not of the code.
- `CreditsAreFunded`: `Spec => []CreditIsFunded`. The invariant alone is not
  inductive: that a commit credits only once depends on the message in the
  position handler's hands. `FundInv` adds what each state says about the
  movements (`StateAndMoves`: a fulfilled transfer has been debited and not yet
  credited) and what a job may rely on (`InHand`: a position job that saw
  RECEIVED_FULFIL still belongs to an uncredited transfer). `transferFulfilment`'s
  primary key is what keeps the state from returning to RECEIVED_FULFIL.

The others build on those three, one invariant on the other:

- `NoticesAreTrue`: `Spec => []NoticesMatchMoney`, whatever participants do and
  whenever processes die. `OriginInv` says what warrants each message, each job, each
  notice and each entry of the timeout list: something that happened to the transfer
  and cannot be undone, a hash, a row or a movement. A crash repeats a step, and what
  it repeats is still warranted.
- `SweepIsNeverBlocked`: `Spec => []SweepNeverBlocked`. A transfer that may still be
  swept has no row in `transferError` (`ErrorInv`). What could break it is a position
  handler that puts the transfer back to RESERVED after the row was written; while it
  is at work, nothing can write that row.
- `AbortedIsKept`: `Spec => []ReservedAbortedIsFinal`, when every answer comes with the
  right headers. Whoever is told ABORTED has an answer whose hash is stored and which
  fulfilled nothing, so every later answer is a duplicate (`AnswerInv`).
- `RefundedOnce` and `NothingIsHeld`: `RefundedAtMostOnce` and `NothingHeldAtTheEnd`
  when no process dies; with a crash the code refunds twice (see the hazards).
  `RefundInv` follows what stands for the return of the funds: the run that lists the
  transfer, the handler that is to send the message, or the message, never two of them
  (`Tokens`); `transferError`'s key lets either the abort or the timeout through
  (`Owed`); what is final has moved what its state says (`Ended`).
- `LedgerIsKept`: `Spec => KeepsTheLedger`, the refinement of `TransferLedger`, when
  nothing expires, nothing dies, no headers are wrong and nobody forwards, as in the
  run `Contended`. With a timeout it is false: that is finding 1. `LedgerInv` says that
  a movement is asked for in one state, and that the transfer stays in that state
  until it is made; every step is then a step of the ledger or none.

**`FxPayments_proofs`** is for batches of any size, any partition of the accounts, and
deaths anywhere.

- `PaymentTypes`: `Spec => []TypeOK`. Types need more than types: a bin reads the row
  that reserved the funds, or the next movement of a plan, and fails without it.
  `BatchInv` says that each message is well formed (`Sound`) and that what it speaks
  of is stored (`Backing`), wherever the message is: in the topic, given up, in a
  batch or about to be produced.
- `PositionsAddUp`: `Spec => []StatementsAddUp`, each account is what its rows say.
  `BooksInv` adds what an open transaction is to make of it. Two consumers never have
  one account open, since an account's messages are of one partition.
- `ToldOnlyWhatIsDone`: `Spec => []ToldIsDone`. The commit message that pays a
  conversion tells everyone of the transfer, so the proof needs what the *chain* of
  messages has done. `TellInv` has: every commit message is the one that pays its
  movement, every prepare the one that reserves (`TokenInv`); such a message is in one
  place at a time until its movement is made, and nowhere after (`DebitInv`,
  `CreditInv`, by `Once`); the payee's follows the one that paid the provider
  (`Chain`); and the notices of a batch are covered by its rows (`ToldInv`). A lost batch
  loses the rows together with the notices.
- `FundsGoToOneSide`: `Spec => []MovedOnce`. A commit, an abort and a timeout for the
  same payment may all be under way, and a bin checks little: what keeps funds from
  going both ways is that the transfer's state, once it has chosen a side, never
  leaves it (`Onward`, over all steps), and that everything else agrees with it.
  `SideInv` adds to `TellInv`: why each message is under way (`PlacedInv`: a commit's
  transfer was fulfilled, an abort's failed, a timeout's ran out of time); how the
  conversion follows the transfer (`CourseInv`); which states an open transaction may
  still insert, since it overwrites what the handlers wrote meanwhile (`WrittenInv`);
  that only a fulfilled transfer is paid (`PaidInv`); and that what is given back had
  been taken, has been given up, and is given back by one message (`RefundInv`). The
  timeout and the abort may both be sent for one conversion; they are worked by the one
  consumer of its account, and the second finds the state the first has written. It
  needs the provider not to go back on its answer, as the property says (with that, the
  hazard at `FxFulfilService.js:263` is real), and `ProxyAssumption`: a transfer without
  a debit, which has one proxy for provider and payee (`prepare.js:356`), pays nobody
  either.
- `StoredOnlyWhatIsDone`: `Spec => []StoredIsDone`, also where the provider goes back on
  its answer. A stored final state is read as a notice (`Said`), so the same `TellsTrue`
  speaks of it: `StoredInv` has it of what is stored and the movements made, and of what
  an open transaction is to insert and the movements it is to make. The proof shows that
  the transfer's state changes with the last movement of its chain, whose earlier one
  was another transaction's (`ToldInv`), and that the handlers outside the batch store
  no state of this kind.

**`InterScheme_proofs`**, any finite set of proxies, any deployments: wherever the parties
are and whichever accounts they have.

- `TypeCorrect`: `Spec => []TypeOK`.
- `BalancesInEveryCurrency`: `Spec => []EveryCurrencyBalances`. What each request holds
  is in a currency of its own, so the books can be kept by currency. `BooksInv` has
  them: a balance is what is reserved and not given back, less what a commit has paid.
  To know that each movement changes just that, the proof follows how far the
  conversions and the transfer are (`WatchInv`, `PaceInv`), that the accounts a
  settlement looks for are there (`AccountInv`), that what is reserved is on the account
  that backs it (`FundsInv`), and that each message finds the state it was sent for
  (`MailInv`). The property is about `Regular` deployments. That the payee's provider
  does not refuse is needed for the invariant too: a conversion refused on its own
  leaves the transfer behind; and so is that no answer came out of turn, which
  `Undisputed` adds. Which proxies have accounts is only needed at the end, for the sum.
- `RepliesTurnOnlyOutOfTurn`: `Spec => RepliesTurnOutOfTurn`. `ReplyInv` says which states
  a reply comes from; nothing is committed but what was fulfilled, and nothing undoes
  either but an answer out of turn (`CommittedOnce`).

**`TimeoutJob_proofs`**, any number of processes, faults and retries.

- `JobTypes`: `Spec => []TypeOK`. That an attempt is counted at most `MaxAttempts`
  times is what needs an invariant: only one run counts, but for the locks that lapsed
  (`AttemptsInv`).
- `NothingIsOverlooked`: `Spec => []NothingOverlooked`. Up to the segment no row is
  open and whoever may still expire is watched; the same of the point a run has read
  (`SegmentInv`). It rests on the insert that waits for open rows.
- `TimeoutsAreSentOnce`: `Spec => []OneTimeoutMessage`. What was timed out is only
  expired afterwards, so the job times out nobody twice; a message is sent for what was
  timed out; and while no lock lapses there is one run (`MessageInv`).

**`AdminFunds_proofs`**

- `TypeCorrect` and `MovesFollowTheState` (`Spec => []MovesMatchState`). That a
  transfer is moved once needs to know who else works on it, so `FundsInv` has:
  `Fulfilled` (the fulfilment's primary key holds exactly the transfers that were
  decided), `StoredIsKnown` (what is stored has its hash), `InHand` (what a handler may
  rely on between its steps) and `Alone` (no two handlers create one transfer, or decide
  it). Two of the code's keys carry the argument: the hash lets one process create, the
  fulfilment's row lets one decide.
- `FundsAddUp`: `Spec => []AccountsAddUp`. Each account is what its transfers have
  moved, unless two transactions overtook each other on it; the step that matters is
  that one that was not overtaken read the position it writes over.

**`ParticipantAccounts_proofs`**

- `OneLimitCounts`, `ASSUME Patient` (without it two requests both add an active limit,
  see above). `LimitInv` has, besides the property, `Relies` (a worker that sets
  a first limit found none, and one that replaces a limit still has the active row it
  locked) and `Alone` (one worker has a participant's limit in hand). Nothing about the
  caches is needed: the decision that matters is taken on the tables.
- `RowsReferToRows`: `Spec => []TypeOK`, patient or not: every row refers to rows that
  are there. Rows are never taken away, so what a stale cache has of them is still there
  (`CachesWereSo`), and so is what a worker has found (`Serving`).
- `OpenAccountsHavePositions`: `Spec => []ActiveHasPosition`, patient or not, from the same
  invariant: the accounts that a transaction switches on are those it gives rows to, each
  at least one (`RowsInserted`).

**`BulkTransfer_proofs`**, bulks of any size, any number of processing handlers.

- `BulkTypes`: `Spec => []TypeOK`.
- `PayeeIsAskedForAll`: `Spec => []AskedTogether`. `PrepareInv` follows the bulk through
  its preparation: how far the stream is, which results are unread, in hand or counted,
  so that the one handler that finds them complete finds all of them.
- `TheEndIsTheEnd`: `Spec => []ToldIsFinished`. The same for the answers (`FulfilInv`),
  with what the late results of the preparation may still do (`UnreadInv`), whichever
  transfers an answer lists. It speaks of bulks whose answer comes after the payee was
  asked; the handler does not see to that, and an earlier one aborts half of the bulk.

**`Sums`** proves what `SumFunctionOnSet` of the community modules does: it adds, it does
not depend on the order, and it moves by what one value does. It is defined by
recursion over subsets, and an induction over those would need a theorem with an
operator as a parameter; the proofs take a smallest subset that is an exception instead,
which a well-founded ordering has.

Only model-checked: liveness everywhere (`AnswersTakeEffect` and the other properties
under fairness), since fairness and `ENABLED` are out of the prover's reach, and
`SettledTogether` of `FxPayments`. That one is not true for every value of the
constants: a transfer that tight limits refuse leaves its conversion reserved until it
expires; the messages of a batch that was rolled back are given up with a later offset;
and with one proxy for provider and payee the transfer itself pays nothing. TLC checks
it for an instance where none of this can be, and `EveryPaymentEnds` beside it. The
violations are TLC's.

## What is left

- Several conversions on one side, and the payee's conversion step by step:
  `FxPayments` has the chain of messages for one conversion of the payer's,
  `InterScheme` has both sides with a settlement in one step.
- A proof that the two halves of a payment end alike (`SettledTogether`), under the
  conditions on limits and roll-backs that it would need.
- A model of the bulk handlers for bulks that share a payer.

## Not modelled

- *What the proxy cache keeps*: the external inter-scheme-proxy-cache library; who
  stands in for whom does not change in a run of `InterScheme`.
- *The wording of a request*: precision of amounts, dates and crypto-conditions are
  flaws a request has or has not.
- *Other reads and records*: the remaining queries of the API, callback endpoints,
  transfer extensions, ledger account types an operator adds one row at a time, and the
  caches of enums and external participants, which work as those of
  `ParticipantAccounts`. `createAssociatedParticipantAccounts` has
  no caller.
- *Wiring*: the HTTP server, health checks and process start-up.
- The ml-api-adapter, Kafka and MySQL are external; they are modelled as the handlers
  use them. Of `migrations/` and `seeds/`, a third of the repository's code, only the
  tables, keys and states that the models have are mapped: the rest defines columns
  and reference data, and does nothing at run time.
