------------------------------ MODULE FxPayments ------------------------------
(***************************************************************************)
(* Transfers and the currency conversions (fxTransfers) they depend on,    *)
(* from the participants' requests to the batch position handler and the   *)
(* timeout handler.                                                        *)
(*                                                                         *)
(* A payer whose money has to be converted first asks an FX provider for   *)
(* the conversion, which reserves the payer's funds in the source currency.*)
(* The transfer then reserves the FX provider's funds in the target        *)
(* currency, and its commit pays both: the FX provider first, the payee    *)
(* with the follow-up message.                                             *)
(*                                                                         *)
(* The prepare, fulfil and timeout handlers are one action for a request   *)
(* or a run here: how their steps interleave with the others is the        *)
(* subject of TransferLifecycle.                                           *)
(***************************************************************************)
EXTENDS PositionBatch

CONSTANTS
  Determining,   \* the determiningTransferId of a conversion
  Expirable      \* the transfers and conversions whose expirationDate may pass

(* A payer's conversion, at most one for a transfer.  Only a transfer that  *)
(* has one can be without an account, so a settlement always moves something*)
(* and cyril's result is never the empty one that is refused.               *)
ASSUME DeterminingAssumption ==
  /\ Determining \in [Conversion -> Transfer]
  /\ \A c \in Conversion : NoAccount \notin {DebitAccount[c], CreditAccount[c]}
  /\ \A t \in Transfer : NoAccount \in {DebitAccount[t], CreditAccount[t]} =>
       \E c \in Conversion : Determining[c] = t
  /\ \A c, d \in Conversion : Determining[c] = Determining[d] => c = d
  /\ Expirable \subseteq Id

(* A transfer is without an account to reserve on when one proxy stands for *)
(* the FX provider and the payee: then nothing is paid for it either.       *)
ASSUME ProxyAssumption ==
  \A t \in Transfer : DebitAccount[t] = NoAccount => CreditAccount[t] = NoAccount

VARIABLES
  answers,   \* the answers given to a request, as the duplicate checks have them
  expired,   \* those whose expirationDate has passed
  timeoutRow \* transferTimeout and fxTransferTimeout: whose expirationDate a row holds

vars == <<batchVars, answers, expired, timeoutRow>>

Answer == {"accept", "refuse"}
ConversionsOf(t) == {c \in Conversion : Determining[c] = t}

TypeOK ==
  /\ BatchTypeOK
  /\ answers \in [Id -> SUBSET Answer]
  /\ expired \subseteq Id
  /\ timeoutRow \in [Id -> SUBSET Id]

Init ==
  /\ BatchInit
  /\ answers = [x \in Id |-> {}]
  /\ expired = {}
  /\ timeoutRow = [x \in Id |-> {}]

(***************************************************************************)
(* Cyril (src/domain/fx/cyril.js): the movements of a settlement.          *)
(***************************************************************************)

(* One movement for each of the conversions and the transfers, in this      *)
(* order, as the two loops of _getPositionChanges and those of              *)
(* processFulfilMessage make them; there is at most one of each.            *)
One(xs) == IF xs = {} THEN <<>> ELSE <<CHOOSE x \in xs : TRUE>>
PositionChanges(cs, ts) == One(cs) \o One(ts)

(* What is reserved is given back (_getPositionChanges).  When the transfer *)
(* that is aborted holds nothing, but its conversion does, its state follows*)
(* with the last movement.                                                  *)
Held(xs) == {x \in xs : moved[x]["debit"] > 0}

\* Mutant: a transfer that holds nothing is left as it is.
AbortHeld(t) ==
  [plan |-> PositionChanges(Held(ConversionsOf(t)), Held({t})), unmoved |-> {}]
ProcessAbort(t) ==
  [plan |-> PositionChanges(Held(ConversionsOf(t)), Held({t})),
   unmoved |-> IF Held({t}) = {} /\ ConversionsOf(t) # {} THEN {t} ELSE {}]

ProcessFxAbort(c) ==
  [plan |-> PositionChanges(Held({c}), Held({Determining[c]})), unmoved |-> {}]

(* The FX provider and the payee are paid where they have an account.       *)
ProcessFulfil(t) ==
  LET paid(xs) == {x \in xs : CreditAccount[x] # NoAccount}
  IN [plan |-> PositionChanges(paid(ConversionsOf(t)), paid({t})),
      unmoved |-> IF paid({t}) = {} THEN {t} ELSE {}]

Settlement(x, action, kind, cyril) ==
  [id |-> x, action |-> action, account |-> AccountFor(kind, cyril.plan[1]),
   plan |-> cyril.plan, done |-> 0, unmoved |-> cyril.unmoved]

(***************************************************************************)
(* Requests.                                                               *)
(***************************************************************************)
SetState(x, s) == state' = [state EXCEPT ![x] = s]
Send(m)        == pending' = pending \union {m}
HandlersStay   == UNCHANGED <<position, moved, unacked, work, notified, crashes>>

(* A payer asks for a conversion.  One that names a transfer which exists   *)
(* already would be the payee's (PAYEE_CONVERSION), which is not modelled.  *)
PayerConversion(c) == state[Determining[c]] = "none"
AskConversion(c)   == Ask(c, "fxPrepare", DebitAccount[c])

RequestConversion(c) ==
  /\ state[c] = "none"
  /\ PayerConversion(c)
  /\ SetState(c, "RECEIVED_PREPARE")
  /\ Send(AskConversion(c))
  /\ HandlersStay
  /\ UNCHANGED <<answers, expired, timeoutRow>>

(* The FX provider answers, each way at most once: the duplicate checks.    *)
SeenBefore(x, answer) == answer \in answers[x]
Answers(x, answer) ==
  /\ "prepared" \in notified[x]
  /\ ~SeenBefore(x, answer)
  /\ answers' = [answers EXCEPT ![x] = @ \union {answer}]

(* validateTransferState and validateExpirationDate.                        *)
FxAnswerable(c) == state[c] \in {"RESERVED", "RECEIVED_FULFIL_DEPENDENT"} /\ c \notin expired

SaveFxFulfilResponse(c, answer) ==
  SetState(c, IF answer = "accept" THEN "RECEIVED_FULFIL_DEPENDENT" ELSE "RECEIVED_ERROR")

AcceptConversion(c) ==
  /\ Answers(c, "accept")
  /\ IF FxAnswerable(c)
     THEN /\ SaveFxFulfilResponse(c, "accept")
          /\ Send(Ask(c, "fxReserve", CreditAccount[c]))
     ELSE UNCHANGED <<state, pending>>
  /\ HandlersStay
  /\ UNCHANGED <<expired, timeoutRow>>

RefuseConversion(c) ==
  /\ Answers(c, "refuse")
  /\ IF FxAnswerable(c)
     THEN /\ SaveFxFulfilResponse(c, "refuse")
          /\ Send(Settlement(c, "fxAbort", "refund", ProcessFxAbort(c)))
     ELSE UNCHANGED <<state, pending>>
  /\ HandlersStay
  /\ UNCHANGED <<expired, timeoutRow>>

AnswerConversion(c) == AcceptConversion(c) \/ RefuseConversion(c)

(* A payer makes a transfer, when it has been told what became of the       *)
(* conversion for it.                                                       *)
Settled == {"accepted", "prepareError", "aborted", "timedOut"}
Prepared(t) == \A c \in ConversionsOf(t) : state[c] = "RECEIVED_FULFIL_DEPENDENT"

AskTransfer(t) == Ask(t, "prepare", DebitAccount[t])

RequestTransfer(t) ==
  /\ state[t] = "none"
  /\ \A c \in ConversionsOf(t) : notified[c] \intersect Settled # {}
  /\ IF Prepared(t)
     THEN /\ SetState(t, "RECEIVED_PREPARE")
          /\ Send(AskTransfer(t))
     ELSE SetState(t, "INVALID") /\ UNCHANGED pending
  /\ HandlersStay
  /\ UNCHANGED <<answers, expired, timeoutRow>>

(* The payee answers.                                                       *)
Answerable(t) == state[t] = "RESERVED" /\ t \notin expired

AcceptTransfer(t) ==
  /\ Answers(t, "accept")
  /\ IF Answerable(t)
     THEN /\ SetState(t, "RECEIVED_FULFIL")
          /\ Send(Settlement(t, "commit", "credit", ProcessFulfil(t)))
     ELSE UNCHANGED <<state, pending>>
  /\ HandlersStay
  /\ UNCHANGED <<expired, timeoutRow>>

RefuseTransfer(t) ==
  /\ Answers(t, "refuse")
  /\ IF Answerable(t)
     THEN /\ SetState(t, "RECEIVED_ERROR")
          /\ Send(Settlement(t, "abort", "refund", ProcessAbort(t)))
     ELSE UNCHANGED <<state, pending>>
  /\ HandlersStay
  /\ UNCHANGED <<expired, timeoutRow>>

(***************************************************************************)
(* Time: timeoutExpireReserved, with the cleanup before it and the messages*)
(* after it.                                                               *)
(***************************************************************************)
Expire(x) ==
  /\ x \in Expirable \ expired
  /\ state[x] # "none"
  /\ expired' = expired \union {x}
  /\ UNCHANGED <<batchVars, answers, timeoutRow>>

\* Mutant: a reservation does not expire.
PreparedOnly == {"RECEIVED_PREPARE"}
Expiring == {"RECEIVED_PREPARE", "RESERVED"}
Cleaned  == {"RECEIVED_FULFIL", "COMMITTED", "RESERVED_TIMEOUT", "EXPIRED_PREPARED",
             "EXPIRED_RESERVED", "ABORTED_REJECTED", "ABORTED_ERROR"}

(* The rows after cleanup and the first insert.                             *)
Watched ==
  [x \in Id |-> IF timeoutRow[x] # {} /\ state[x] \notin Cleaned THEN timeoutRow[x]
                ELSE IF timeoutRow[x] = {} /\ state[x] \in Expiring THEN {x} ELSE {}]

Due(rows, x) == rows[x] \intersect expired # {}

(* _processTimeoutEntries and _processFxTimeoutEntries.                     *)
\* Mutant: a conversion that waits for its transfer is not expired with it.
TimedOutIgnoringFulfilled(rows, states) ==
  [x \in Id |-> CASE Due(rows, x) /\ states[x] = "RECEIVED_PREPARE" -> "EXPIRED_PREPARED"
                  [] Due(rows, x) /\ states[x] = "RESERVED" -> "RESERVED_TIMEOUT"
                  [] OTHER -> states[x]]
TimedOut(rows, states) ==
  [x \in Id |-> CASE Due(rows, x) /\ states[x] = "RECEIVED_PREPARE" -> "EXPIRED_PREPARED"
                  [] Due(rows, x) /\ states[x] \in {"RESERVED", "RECEIVED_FULFIL_DEPENDENT"} -> "RESERVED_TIMEOUT"
                  [] OTHER -> states[x]]

(* A transfer that expires passes its expiration date to its conversion,    *)
(* then a conversion that expires to its transfer.                          *)
Expired(rows, states, x) == Due(rows, x) /\ states[x] \in {"RESERVED_TIMEOUT", "EXPIRED_PREPARED"}

ToConversions(rows, states) ==
  [x \in Id |-> IF x \in Conversion /\ Expired(rows, states, Determining[x])
                THEN rows[Determining[x]] ELSE rows[x]]
ToTransfers(rows, states) ==
  [x \in Id |-> LET cs == {c \in ConversionsOf(x) : Expired(rows, states, c)}
                IN IF x \in Transfer /\ states[x] \in Expiring /\ cs # {}
                   THEN UNION {rows[c] : c \in cs} ELSE rows[x]]

(* _getTransferList and _getFxTransferList: only what has moved funds is    *)
(* listed.                                                                  *)
Listed(rows, states) == {x \in Id : Due(rows, x) /\ states[x] = "RESERVED_TIMEOUT"
                                    /\ moved[x]["debit"] > 0}

AskTimeout(t)   == Ask(t, "timeout", DebitAccount[t])
AskFxTimeout(c) == Ask(c, "fxTimeout", DebitAccount[c])

Sweep ==
  LET first  == TimedOut(Watched, state)
      rows   == ToTransfers(ToConversions(Watched, first), first)
      second == TimedOut(rows, first)
      listed == Listed(rows, second)
  IN /\ state' = second
     /\ timeoutRow' = rows
     /\ pending' = pending
          \union {AskTimeout(t) : t \in listed \intersect Transfer}
          \union {AskFxTimeout(c) : c \in listed \intersect Conversion}
     /\ HandlersStay
     /\ UNCHANGED <<answers, expired>>

(***************************************************************************)
(* The system.                                                             *)
(***************************************************************************)
Participants ==
  \/ \E c \in Conversion : RequestConversion(c) \/ AnswerConversion(c)
  \/ \E t \in Transfer : RequestTransfer(t) \/ AcceptTransfer(t) \/ RefuseTransfer(t)

Batches == \E c \in Consumer : BatchStep(c) \/ CrashBatch(c)

Next ==
  \/ Participants
  \/ \E x \in Id : Expire(x)
  \/ Sweep
  \/ Batches /\ UNCHANGED <<answers, expired, timeoutRow>>

(* The consumers and the timeout job run on, and time passes.  Participants *)
(* may fall silent, and processes need not die.                             *)
Fairness ==
  /\ \A c \in Consumer : WF_vars(BatchStep(c) /\ UNCHANGED <<answers, expired, timeoutRow>>)
  /\ WF_vars(Sweep)
  /\ \A x \in Id : WF_vars(Expire(x))

Spec     == Init /\ [][Next]_vars
FairSpec == Spec /\ Fairness

(***************************************************************************)
(* Properties.                                                             *)
(***************************************************************************)
Finals == {"INVALID", "COMMITTED", "ABORTED_REJECTED", "ABORTED_ERROR",
           "EXPIRED_PREPARED", "EXPIRED_RESERVED"}
Paid(x)     == moved[x]["credit"]
Returned(x) == moved[x]["refund"]
Taken(x)    == moved[x]["debit"]

(* The FX provider went back on its answer, or its conversion ran out of    *)
(* time before the transfer did.                                            *)
WentBack(c)    == answers[c] = Answer
Disturbed(c)   == WentBack(c) \/ c \in expired
Undisturbed(t) == \A c \in ConversionsOf(t) : ~Disturbed(c)

(* The position of an account is the sum of the participantPositionChange   *)
(* rows made on it: bins and batches that work on the same account do not   *)
(* lose each other's changes.                                               *)
Moved(x, a) ==
  (IF DebitAccount[x] = a THEN Taken(x) - Returned(x) ELSE 0) - (IF CreditAccount[x] = a THEN Paid(x) ELSE 0)
StatementsAddUp ==
  \A a \in Account : position[a] = SumFunctionOnSet([x \in Id |-> Amount[x] * Moved(x, a)], Id)

(* What a batch tells the participants has happened: a committed transfer   *)
(* has paid the payee and the FX provider, a provider that is told of the   *)
(* commit of its conversion has been paid even though the transfer may not  *)
(* have been, one that was aborted or timed out has been given back.        *)
(* Messages that were lost with a process break none of this.               *)
ToldIsDone ==
  \A t \in Transfer : \A x \in {t} \union ConversionsOf(t) :
    /\ "committed" \in notified[t] /\ CreditAccount[x] # NoAccount => Paid(x) = 1
    /\ x \in Conversion /\ "committed" \in notified[x] => Paid(x) = 1
    /\ "aborted" \in notified[t] => Returned(x) >= Taken(x)
    /\ {"aborted", "timedOut"} \intersect notified[x] # {} => Returned(x) >= Taken(x)

(* The state that is stored, and that a GET answers with, is as true as the *)
(* notices: it is written by the transaction of the last movement, when the *)
(* conversion has long been settled by another, of another account.         *)
StoredIsDone ==
  \A t \in Transfer : \A x \in {t} \union ConversionsOf(t) :
    /\ state[t] = "COMMITTED" /\ CreditAccount[x] # NoAccount => Paid(x) = 1
    /\ x \in Conversion /\ state[x] = "COMMITTED" => Paid(x) = 1
    /\ state[t] = "ABORTED_ERROR" => Returned(x) >= Taken(x)
    /\ state[x] \in {"ABORTED_ERROR", "EXPIRED_RESERVED"} => Returned(x) >= Taken(x)

(* Funds are reserved once, and then go to one side: they are paid or given *)
(* back, not both, whatever is lost or read again.                          *)
MovedOnce ==
  \A t \in Transfer : Undisturbed(t) =>
    \A x \in {t} \union ConversionsOf(t) :
      /\ Taken(x) <= 1
      /\ Paid(x) + Returned(x) <= Taken(x)

(* A transfer and its conversion are settled together: when a transfer has  *)
(* ended and no message is under way, the FX provider has been paid if the  *)
(* payee has, and nothing is still reserved.                                *)
Quiet == pending = {} /\ \A c \in Consumer : work[c].pc = "idle" /\ unacked[c] = {}
SettledTogether ==
  \A t \in Transfer :
    state[t] \in Finals /\ Quiet /\ Undisturbed(t) /\ crashes = 0 =>
      \A c \in ConversionsOf(t) :
        /\ Paid(c) = Paid(t)
        /\ Taken(c) = Paid(c) + Returned(c)
        /\ Taken(t) = Paid(t) + Returned(t)

(* Every transfer that is stored is committed, aborted or expired in the    *)
(* end, also when its conversion runs out of time before it does, as long as*)
(* no process dies and no FX provider goes back on its answer.              *)
EveryPaymentEnds ==
  \A t \in Transfer :
    (state[t] = "RECEIVED_PREPARE") ~>
      (state[t] \in Finals \/ crashes > 0 \/ \E c \in ConversionsOf(t) : WentBack(c))

(* The payee's answer takes effect: a transfer it fulfilled is committed and *)
(* one it refused is aborted, also when the transfer moves no position of   *)
(* its own, as long as no process dies and no FX provider goes back on its  *)
(* answer: that rolls a batch back, with the messages of other transfers.   *)
AnswersTakeEffect ==
  \A t \in Transfer :
    LET disturbed == crashes > 0 \/ \E c \in Conversion : WentBack(c)
    IN /\ (state[t] = "RECEIVED_FULFIL") ~> (state[t] = "COMMITTED" \/ disturbed)
       /\ (state[t] = "RECEIVED_ERROR") ~> (state[t] = "ABORTED_ERROR" \/ disturbed)

(* A position stays within the account's limits: the liquidity cover and the*)
(* net debit cap, which every reservation was checked against.              *)
PositionsWithinLimits ==
  \A a \in Account : position[a] <= LiquidityCover[a] /\ position[a] <= NetDebitCap[a]
===============================================================================
