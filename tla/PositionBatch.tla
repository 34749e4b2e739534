---------------------------- MODULE PositionBatch ----------------------------
(***************************************************************************)
(* The batch position handler (src/handlers/positions/handlerBatch.js) and *)
(* the bin processor behind it (src/domain/position).  A batch of position *)
(* messages is sorted into bins by account and action, worked through in   *)
(* one database transaction, and answered when that is committed.          *)
(*                                                                         *)
(* A message may ask for a chain of movements: the settlement of a         *)
(* transfer and of the currency conversion it depends on.  The handler     *)
(* makes one of them and sends the message on for the next.                *)
(***************************************************************************)
EXTENDS Integers, Sequences, FiniteSets, Functions

CONSTANTS
  Transfer,         \* transfers
  Conversion,       \* fxTransfers: conversions made for a transfer
  Account,          \* position accounts (participantCurrencyId)
  DebitAccount,     \* the account a transfer or conversion reserves funds on
  CreditAccount,    \* the account it pays to
  Amount,           \* what it moves
  NetDebitCap,      \* the NET_DEBIT_CAP limit of an account
  LiquidityCover,   \* what the participant has paid into its settlement account
  Consumer,         \* batch handlers, each with a partition of the topic
  ConsumerOf,       \* the handler of an account: messages are keyed by account
  MaxBatch,         \* options.batchSize
  MaxCrashes        \* bound: process deaths in a behaviour

(* Account 0 is no account: no position changes for it.  It is the key of a *)
(* transfer between two parties that the same proxy represents.             *)
NoAccount == 0
Id == Transfer \union Conversion

ASSUME PaymentAssumption ==
  /\ Account \subseteq Nat \ {NoAccount}
  /\ DebitAccount \in [Id -> Account \union {NoAccount}]
  /\ CreditAccount \in [Id -> Account \union {NoAccount}]
  /\ Amount \in [Id -> Nat]
  /\ IsFiniteSet(Id) /\ Transfer \intersect Conversion = {}
ASSUME AccountAssumption ==
  /\ NetDebitCap \in [Account -> Nat]
  /\ LiquidityCover \in [Account -> Nat]
ASSUME ConsumerAssumption ==
  /\ ConsumerOf \in [Account \union {NoAccount} -> Consumer]
  /\ MaxBatch \in Nat
  /\ MaxCrashes \in Nat

State == {"none", "RECEIVED_PREPARE", "INVALID", "RESERVED", "RECEIVED_FULFIL",
          "RECEIVED_FULFIL_DEPENDENT", "RECEIVED_ERROR", "RESERVED_TIMEOUT", "COMMITTED",
          "ABORTED_REJECTED", "ABORTED_ERROR", "EXPIRED_PREPARED", "EXPIRED_RESERVED"}
Notice == {"prepared", "prepareError", "accepted", "committed", "fulfilError", "aborted", "timedOut"}

(* A position message.  Its plan lists the movements of a cyrilResult, of   *)
(* which the first "done" are made; "unmoved" are transfers that change     *)
(* their state with the last movement and move nothing.                     *)
Action == {"fxTimeout", "fxReserve", "commit", "abort", "fxAbort", "timeout", "prepare", "fxPrepare"}
Plan   == UNION {[1..n -> Id] : n \in 0..2}
Message == [id : Id, action : Action, account : Account \union {NoAccount},
            plan : Plan, done : 0..1, unmoved : SUBSET Transfer]

Ask(x, action, account) ==
  [id |-> x, action |-> action, account |-> account, plan |-> <<>>, done |-> 0, unmoved |-> {}]

(* The participantPositionChange rows of a transfer, by kind.               *)
MoveKind == {"debit", "credit", "refund"}
NoMoves  == [k \in MoveKind |-> 0]

VARIABLES
  state,      \* the latest transferStateChange or fxTransferStateChange
  position,   \* participantPosition.value
  moved,      \* participantPositionChange rows, by transfer and kind
  pending,    \* messages of the topic that no consumer has taken
  unacked,    \* messages a consumer has given up, with no later offset committed
  work,       \* the batch a consumer has taken, and its transaction
  notified,   \* notifications produced
  crashes     \* process deaths so far

database  == <<state, position, moved>>
batchVars == <<database, pending, unacked, work, notified, crashes>>

(* What a transaction has accumulated.  A bin is judged by the states it    *)
(* starts with (seen) and leaves others (left); "base" is the position the  *)
(* limits of a bin of prepares are checked against.                         *)
Pc    == {"idle", "bins", "commit", "produce"}
NoBin == [account |-> -1, order |-> 0]
Bin   == [account : Account \union {NoAccount, -1}, order : 0..8]
Work  == [pc : Pc, batch : SUBSET Message, todo : SUBSET Message, bin : Bin,
          latest : [Id -> State], seen : [Id -> State], left : [Id -> State],
          rows : [Id -> State], value : [Account -> Int], base : Int,
          moved : [Id -> [MoveKind -> Nat]], notices : [Id -> SUBSET Notice],
          followUps : SUBSET Message]

NoStates == [x \in Id |-> "none"]
Idle == [pc |-> "idle", batch |-> {}, todo |-> {}, bin |-> NoBin,
         latest |-> NoStates, seen |-> NoStates, left |-> NoStates,
         rows |-> NoStates, value |-> [a \in Account |-> 0], base |-> 0,
         moved |-> [x \in Id |-> NoMoves], notices |-> [x \in Id |-> {}], followUps |-> {}]

BatchTypeOK ==
  /\ state \in [Id -> State]
  /\ position \in [Account -> Int]
  /\ moved \in [Id -> [MoveKind -> Nat]]
  /\ pending \subseteq Message
  /\ unacked \in [Consumer -> SUBSET Message]
  /\ work \in [Consumer -> Work]
  /\ notified \in [Id -> SUBSET Notice]
  /\ crashes \in Nat

BatchInit ==
  /\ state = NoStates
  /\ position = [a \in Account |-> 0]
  /\ moved = [x \in Id |-> NoMoves]
  /\ pending = {}
  /\ unacked = [c \in Consumer |-> {}]
  /\ work = [c \in Consumer |-> Idle]
  /\ notified = [x \in Id |-> {}]
  /\ crashes = 0

(***************************************************************************)
(* Taking a batch.  processBins reads the states of the transfers that its *)
(* messages name and locks the positions of the accounts that key them,    *)
(* which no other consumer moves.                                          *)
(***************************************************************************)
TransferIds(batch) == {m.id : m \in batch}
AccountIds(batch)  == {m.account : m \in batch} \ {NoAccount}
LatestStates(ids)  == [x \in Id |-> IF x \in ids THEN state[x] ELSE "none"]
LockedPositions(accounts) == [a \in Account |-> IF a \in accounts THEN position[a] ELSE 0]

Begin(batch) ==
  [Idle EXCEPT !.pc = "bins", !.batch = batch, !.todo = batch,
               !.latest = LatestStates(TransferIds(batch)),
               !.value = LockedPositions(AccountIds(batch))]

Poll(c) ==
  /\ work[c].pc = "idle"
  /\ \E batch \in SUBSET {m \in pending : ConsumerOf[m.account] = c} :
       /\ Cardinality(batch) \in 1..MaxBatch
       /\ pending' = pending \ batch
       /\ work' = [work EXCEPT ![c] = Begin(batch)]
  /\ UNCHANGED <<database, unacked, notified, crashes>>

(* The order of the bins: by account, and within an account by action.      *)
OrderOf(action) ==
  CASE action = "fxTimeout" -> 1 [] action = "fxReserve" -> 2 [] action = "commit"  -> 3
    [] action = "abort"     -> 4 [] action = "fxAbort"   -> 5 [] action = "timeout" -> 6
    [] action = "prepare"   -> 7 [] action = "fxPrepare" -> 8

BinOf(m) == [account |-> m.account, order |-> OrderOf(m.action)]
Before(b, d) == b.account < d.account \/ (b.account = d.account /\ b.order < d.order)

(* The next message of a batch: any of the first bin that has one left.     *)
NextItem(c, m, action) ==
  /\ work[c].pc = "bins"
  /\ m \in work[c].todo
  /\ m.action = action
  /\ \A n \in work[c].todo : ~Before(BinOf(n), BinOf(m))

ValueOf(w, a) == IF a = NoAccount THEN 0 ELSE w.value[a]

(* A bin starts from the value and the states the bin before it left; the   *)
(* first bin of an account starts from the states of the start of the batch.*)
\* Mutant: each bin starts from the account's value at the start of the batch.
ForgetValue(w, m) ==
  IF w.bin = BinOf(m) \/ m.account = NoAccount THEN w
  ELSE [w EXCEPT !.bin = BinOf(m), !.seen = w.latest, !.left = w.latest,
                 !.value[m.account] = position[m.account], !.base = position[m.account]]
Enter(w, m) ==
  IF w.bin = BinOf(m) THEN w
  ELSE LET states == IF w.bin.account = m.account THEN w.left ELSE w.latest
       IN [w EXCEPT !.bin = BinOf(m), !.seen = states, !.left = states,
                    !.base = ValueOf(w, m.account)]

(***************************************************************************)
(* What the bins do to the transaction.                                    *)
(***************************************************************************)

ChangeState(w, x, s) == [w EXCEPT !.rows[x] = s, !.left[x] = s]
Tell(w, x, notice)   == [w EXCEPT !.notices[x] = @ \union {notice}]

(* Without an account no position changes (changePositions = false).        *)
\* Mutant: funds are given back by taking back the row that reserved them.
TakeBack(w, m, x, kind) ==
  IF m.account = NoAccount THEN w
  ELSE [w EXCEPT !.value[m.account] = IF kind = "debit" THEN @ + Amount[x] ELSE @ - Amount[x],
                 !.moved[x][IF kind = "refund" THEN "debit" ELSE kind] =
                   IF kind = "refund" THEN @ - 1 ELSE @ + 1]
Move(w, m, x, kind) ==
  IF m.account = NoAccount THEN w
  ELSE [w EXCEPT !.value[m.account] = IF kind = "debit" THEN @ + Amount[x] ELSE @ - Amount[x],
                 !.moved[x][kind] = @ + 1]

(* One movement of a plan, and the state that comes with it.  An FX provider*)
(* is told with the movement of its conversion already (patchNotifications):*)
(* of a commit always, of an abort when it is the transfer that is aborted  *)
(* and no proxy stands for the provider, which is when the transfer has     *)
(* reserved funds on an account of the provider.                            *)
NextMove(m) == m.plan[m.done + 1]
PatchCommitted(w, x) == IF x \in Conversion THEN Tell(w, x, "committed") ELSE w
PatchAborted(w, m, x) ==
  IF x \in Conversion /\ m.id \in Transfer /\ DebitAccount[m.id] # NoAccount
  THEN Tell(w, x, "aborted") ELSE w

\* Mutant: the state of the transfer changes with the first movement.
CommitEarly(w, m) ==
  PatchCommitted(ChangeState(Move(w, m, NextMove(m), "credit"), m.id, "COMMITTED"), NextMove(m))
CommitMove(w, m) ==
  PatchCommitted(ChangeState(Move(w, m, NextMove(m), "credit"), NextMove(m), "COMMITTED"), NextMove(m))
AbortMove(w, m) ==
  PatchAborted(ChangeState(Move(w, m, NextMove(m), "refund"), NextMove(m), "ABORTED_ERROR"), m, NextMove(m))

(* With the last movement the transfers that move nothing follow and the    *)
(* participants are told; before it, the message goes on to the account of  *)
(* the next movement.                                                       *)
AccountFor(kind, x) == IF kind = "credit" THEN CreditAccount[x] ELSE DebitAccount[x]
IsLast(m) == m.done + 1 = Len(m.plan)

FollowUp(w, m, kind) ==
  [w EXCEPT !.followUps = @ \union
     {[m EXCEPT !.done = @ + 1, !.account = AccountFor(kind, m.plan[m.done + 2])]}]
MoveNothing(w, m, s) ==
  [w EXCEPT !.rows = [y \in Id |-> IF y \in m.unmoved THEN s ELSE @[y]],
            !.left = [y \in Id |-> IF y \in m.unmoved THEN s ELSE @[y]]]

(* A commit is told of the transfer; an abort of everything that was moved, *)
(* but of a conversion only if it was the one to be aborted.                *)
\* Mutant: the participants are told with the first movement.
CommitAtOnce(w, m) ==
  LET told == Tell(CommitMove(w, m), m.id, "committed")
  IN IF IsLast(m) THEN MoveNothing(told, m, "COMMITTED") ELSE FollowUp(told, m, "credit")
CommitStep(w, m) ==
  IF IsLast(m) THEN Tell(MoveNothing(CommitMove(w, m), m, "COMMITTED"), m.id, "committed")
  ELSE FollowUp(CommitMove(w, m), m, "credit")

NotifiedOf(m) == {x \in Range(m.plan) : x \in Transfer \/ x = m.id} \union m.unmoved
TellAll(w, xs, notice) ==
  [w EXCEPT !.notices = [x \in Id |-> IF x \in xs THEN @[x] \union {notice} ELSE @[x]]]

AbortStep(w, m) ==
  IF IsLast(m) THEN TellAll(MoveNothing(AbortMove(w, m), m, "ABORTED_ERROR"), NotifiedOf(m), "aborted")
  ELSE FollowUp(AbortMove(w, m), m, "refund")

(* The message is worked through; or a bin throws, and the whole batch is   *)
(* rolled back with its offset not committed.                               *)
Done(c, m, w) ==
  /\ work' = [work EXCEPT ![c] = [w EXCEPT !.todo = @ \ {m}]]
  /\ UNCHANGED <<database, pending, unacked, notified, crashes>>

Rollback(c) ==
  /\ unacked' = [unacked EXCEPT ![c] = @ \union work[c].batch]
  /\ work' = [work EXCEPT ![c] = Idle]
  /\ UNCHANGED <<database, pending, notified, crashes>>

(***************************************************************************)
(* The bins.                                                               *)
(***************************************************************************)

(* processPositionFxFulfilBin: the conversion waits for its transfer.       *)
FxReserveItem(c, m) ==
  /\ NextItem(c, m, "fxReserve")
  /\ LET w == Enter(work[c], m)
     IN IF w.seen[m.id] = "RECEIVED_FULFIL_DEPENDENT"
        THEN Done(c, m, Tell(w, m.id, "accepted"))
        ELSE Done(c, m, Tell(ChangeState(w, m.id, "ABORTED_REJECTED"), m.id, "fulfilError"))

(* What has timed out is given back to whom it was reserved from.           *)
TimeoutMove(w, m)   == ChangeState(Move(w, m, m.id, "refund"), m.id, "EXPIRED_RESERVED")
FxTimeoutMove(w, m) == [Move(w, m, m.id, "refund") EXCEPT !.rows[m.id] = "EXPIRED_RESERVED"]
TellTimeout(w, m)   == Tell(w, m.id, "timedOut")
TellFxTimeout(w, m) == Tell(w, m.id, "timedOut")

(* processPositionFxTimeoutReservedBin.  What it gives back is read from the*)
(* row that reserved it.  The states it leaves are dropped in favour of     *)
(* those of the bin above.                                                  *)
HasReservedPositionChange(x) == moved[x]["debit"] > 0

FxTimeoutItem(c, m) ==
  /\ NextItem(c, m, "fxTimeout")
  /\ LET w == Enter(work[c], m)
     IN IF w.seen[m.id] = "RESERVED_TIMEOUT" /\ HasReservedPositionChange(m.id)
        THEN Done(c, m, TellFxTimeout(FxTimeoutMove(w, m), m))
        ELSE Rollback(c)

FulfilError(w, m) == Tell(w, m.id, "fulfilError")

(* processPositionFulfilBin, for the actions commit and reserve.            *)
FulfilItem(c, m) ==
  /\ NextItem(c, m, "commit")
  /\ LET w == Enter(work[c], m)
     IN IF w.seen[m.id] = "RECEIVED_FULFIL"
        THEN Done(c, m, CommitStep(w, m))
        ELSE Done(c, m, FulfilError(w, m))

(* processPositionAbortBin, with the actions of a transfer and of a         *)
(* conversion.  It looks at the state of the one that was aborted, also     *)
(* when it moves the funds of the other.                                    *)
AbortMessage(c, m) ==
  LET w == Enter(work[c], m)
  IN IF w.seen[m.id] = "RECEIVED_ERROR"
     THEN Done(c, m, AbortStep(w, m))
     ELSE Rollback(c)

AbortItem(c, m)   == NextItem(c, m, "abort") /\ AbortMessage(c, m)
FxAbortItem(c, m) == NextItem(c, m, "fxAbort") /\ AbortMessage(c, m)

(* processPositionTimeoutReservedBin.                                       *)
TimeoutItem(c, m) ==
  /\ NextItem(c, m, "timeout")
  /\ LET w == Enter(work[c], m)
     IN IF w.seen[m.id] = "RESERVED_TIMEOUT"
        THEN Done(c, m, TellTimeout(TimeoutMove(w, m), m))
        ELSE Rollback(c)

(* processPositionPrepareBin.  What is left of the limits is worked out from*)
(* the position the bin starts with, and a reservation is added to it.      *)
Available(w, a, limit) == limit - w.base
CanReserve(w, m) ==
  \/ m.account = NoAccount
  \/ /\ Available(w, m.account, LiquidityCover[m.account]) >= Amount[m.id]
     /\ Available(w, m.account, NetDebitCap[m.account]) >= Amount[m.id]

Hold(w, m) == [ChangeState(Move(w, m, m.id, "debit"), m.id, "RESERVED") EXCEPT !.base = @ - Amount[m.id]]
Reserve(w, m) == Tell(Hold(w, m), m.id, "prepared")
Reject(w, m)  == Tell(ChangeState(w, m.id, "ABORTED_REJECTED"), m.id, "prepareError")

PrepareMessage(c, m) ==
  LET w == Enter(work[c], m)
  IN Done(c, m, IF w.seen[m.id] = "RECEIVED_PREPARE" /\ CanReserve(w, m)
                THEN Reserve(w, m) ELSE Reject(w, m))

(* processFxPositionPrepareBin: the limits anew, from the position the bin  *)
(* of prepares left.                                                        *)
FxReserve(w, m) == Tell(Hold(w, m), m.id, "prepared")
FxPrepareMessage(c, m) ==
  LET w == Enter(work[c], m)
  IN Done(c, m, IF w.seen[m.id] = "RECEIVED_PREPARE" /\ CanReserve(w, m)
                THEN FxReserve(w, m) ELSE Reject(w, m))

PrepareItem(c, m)   == NextItem(c, m, "prepare") /\ PrepareMessage(c, m)
FxPrepareItem(c, m) == NextItem(c, m, "fxPrepare") /\ FxPrepareMessage(c, m)

(***************************************************************************)
(* The end of a batch.                                                     *)
(***************************************************************************)

(* Kafka.proceed of the last message: the offset covers the batch, and with *)
(* it whatever the consumer gave up before.                                 *)
CommitOffset(c) ==
  /\ work[c].pc = "bins"
  /\ work[c].todo = {}
  /\ unacked' = [unacked EXCEPT ![c] = {}]
  /\ work' = [work EXCEPT ![c] =
       [@ EXCEPT !.pc = "commit", !.bin = NoBin, !.base = 0,
                 !.latest = NoStates, !.seen = NoStates, !.left = NoStates]]
  /\ UNCHANGED <<database, pending, notified, crashes>>

(* trx.commit: each touched account gets the value that was accumulated.    *)
UpdatedPositions(w) == [a \in Account |-> IF a \in AccountIds(w.batch) THEN w.value[a] ELSE position[a]]
InsertedStates(w)   == [x \in Id |-> IF w.rows[x] = "none" THEN state[x] ELSE w.rows[x]]
InsertedMoves(w)    == [x \in Id |-> [k \in MoveKind |-> moved[x][k] + w.moved[x][k]]]

CommitTrx(c) ==
  LET w == work[c]
  IN /\ w.pc = "commit"
     /\ state' = InsertedStates(w)
     /\ position' = UpdatedPositions(w)
     /\ moved' = InsertedMoves(w)
     /\ work' = [work EXCEPT ![c].pc = "produce"]
     /\ UNCHANGED <<pending, unacked, notified, crashes>>

(* The notifications and the follow-up messages.                            *)
Produce(c) ==
  /\ work[c].pc = "produce"
  /\ pending' = pending \union work[c].followUps
  /\ notified' = [x \in Id |-> notified[x] \union work[c].notices[x]]
  /\ work' = [work EXCEPT ![c] = Idle]
  /\ UNCHANGED <<database, unacked, crashes>>

(* The process dies.  What it had not committed the offset of is read again *)
(* by its successor; what it had is lost, with the transaction if it was    *)
(* open and with the messages it had still to produce.                      *)
\* Mutant: the offset is committed last, after the transaction.
UntilProduced(w) == w.batch
ReadAgain(w) == IF w.pc = "bins" THEN w.batch ELSE {}

CrashBatch(c) ==
  /\ crashes < MaxCrashes
  /\ work[c].pc # "idle" \/ unacked[c] # {}
  /\ crashes' = crashes + 1
  /\ \E sent \in {{}, IF work[c].pc = "produce" THEN work[c].followUps ELSE {}} :
       pending' = pending \union ReadAgain(work[c]) \union unacked[c] \union sent
  /\ unacked' = [unacked EXCEPT ![c] = {}]
  /\ work' = [work EXCEPT ![c] = Idle]
  /\ UNCHANGED <<database, notified>>

Item(c) ==
  \E m \in work[c].todo :
    \/ FxReserveItem(c, m) \/ FxTimeoutItem(c, m) \/ FulfilItem(c, m)
    \/ AbortItem(c, m) \/ FxAbortItem(c, m) \/ TimeoutItem(c, m)
    \/ PrepareItem(c, m) \/ FxPrepareItem(c, m)

BatchStep(c) == Poll(c) \/ Item(c) \/ CommitOffset(c) \/ CommitTrx(c) \/ Produce(c)
=============================================================================
