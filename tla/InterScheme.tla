----------------------------- MODULE InterScheme -----------------------------
(***************************************************************************)
(* Whose accounts a payment moves when it is converted on the payer's side,*)
(* on the payee's, on both or on neither, and when a proxy stands in for   *)
(* participants of another scheme.                                         *)
(*                                                                         *)
(* One payment: a transfer and the conversions made for it.  Every handler *)
(* is one action, and the position handler makes all the movements of a    *)
(* message at once: how the handlers' steps interleave is the subject of   *)
(* TransferLifecycle, how a chain of movements is made that of FxPayments. *)
(***************************************************************************)
EXTENDS Integers, FiniteSets, Functions

CONSTANTS
  Proxy,          \* participants that stand in for those of another scheme
  Deployments,    \* where the parties are, and who has which position accounts
  PayeeValidated, \* PAYEE_PARTICIPANT_CURRENCY_VALIDATION_ENABLED
  MaxOutOfTurn    \* bound: how many requests are answered out of turn, once each

(* The payer's provider converts from the source currency to the one of the *)
(* transfer, the payee's from that to the target currency.                  *)
Fsp         == {"payer", "payee", "sendingFxp", "receivingFxp"}
Participant == Fsp \union Proxy
Currency    == {"source", "middle", "target"}
Account     == Participant \X Currency
NoAccount   == <<"0", "0">>

Place == {"scheme", "unknown"} \union Proxy
ASSUME DeploymentsAssumption ==
  /\ IsFiniteSet(Proxy)
  /\ Proxy \intersect (Fsp \union {"scheme", "unknown"}) = {}
  /\ Deployments \subseteq [where : [Fsp -> Place], accounts : SUBSET Account]
  /\ PayeeValidated \in BOOLEAN
  /\ MaxOutOfTurn \in Nat

Conversion == {"sendingFx", "receivingFx"}
Id         == Conversion \union {"transfer"}

Initiator(x)    == IF x = "receivingFx" THEN "payee" ELSE "payer"
CounterParty(x) == CASE x = "sendingFx" -> "sendingFxp" [] x = "receivingFx" -> "receivingFxp"
                     [] x = "transfer" -> "payee"
Source(x) == IF x = "sendingFx" THEN "source" ELSE "middle"
Target(x) == IF x = "receivingFx" THEN "target" ELSE "middle"

State == {"none", "INVALID", "RECEIVED_PREPARE", "RESERVED", "RESERVED_FORWARDED",
          "RECEIVED_FULFIL", "RECEIVED_FULFIL_DEPENDENT", "RECEIVED_ERROR", "RESERVED_TIMEOUT",
          "COMMITTED", "ABORTED_REJECTED", "ABORTED_ERROR", "EXPIRED_PREPARED", "EXPIRED_RESERVED"}
FxType == {"none", "PAYER_CONVERSION", "PAYEE_CONVERSION"}
Answer == {"none", "accept", "refuse", "misanswer"}

(* A position message: what to reserve, or the movements of a cyrilResult   *)
(* and the transfers that change their state without one.                   *)
Change  == [id : Id, account : Account]
Message ==
  [id : Id, action : {"prepare", "commit", "abort", "timeout"},
   account : Account \union {NoAccount}, changes : SUBSET Change, unmoved : SUBSET {"transfer"}]

VARIABLES
  where,     \* the proxy cache and the participants: who stands in for whom
  accounts,  \* active POSITION accounts
  state,     \* the latest state change
  fxType,    \* fxWatchList
  answer,    \* the fulfilment or error that was stored
  reserved,  \* the participantPositionChange rows that reserved funds
  balance,   \* participantPosition.value
  pending,   \* position messages that are not consumed
  outOfTurn  \* auxiliary: what was answered when it was not waiting for an answer

payment == <<state, fxType, answer, reserved, balance, pending, outOfTurn>>
vars    == <<where, accounts, payment>>

TypeOK ==
  /\ where \in [Fsp -> Place]
  /\ accounts \subseteq Account
  /\ state \in [Id -> State]
  /\ fxType \in [Conversion -> FxType]
  /\ answer \in [Id -> Answer]
  /\ reserved \in [Id -> SUBSET Account]
  /\ balance \in [Account -> Int]
  /\ pending \subseteq Message
  /\ outOfTurn \subseteq Id

Init ==
  /\ \E d \in Deployments : where = d.where /\ accounts = d.accounts
  /\ state = [x \in Id |-> "none"]
  /\ fxType = [c \in Conversion |-> "none"]
  /\ answer = [x \in Id |-> "none"]
  /\ reserved = [x \in Id |-> {}]
  /\ balance = [a \in Account |-> 0]
  /\ pending = {}
  /\ outOfTurn = {}

(***************************************************************************)
(* Who stands in for whom (lib/proxyCache.js, calculateProxyObligation).   *)
(***************************************************************************)

(* getFSPProxy.  A payee that has no account in the transfer's currency is  *)
(* not taken to be in the scheme, and has no proxy either.                  *)
InScheme(f, currencies) == where[f] = "scheme" /\ \A c \in currencies : <<f, c>> \in accounts
IsProxied(f) == where[f] \in Proxy
Validated(x) == IF x = "transfer" THEN {"middle"} ELSE {}

(* Nothing is done for a request one of whose parties is not found.         *)
Found(x) ==
  /\ InScheme(Initiator(x), {}) \/ IsProxied(Initiator(x))
  /\ InScheme(CounterParty(x), Validated(x)) \/ IsProxied(CounterParty(x))

(* The participant that is stored for a party: its proxy, if it has one.    *)
StandIn(f) == IF IsProxied(f) THEN where[f] ELSE f

(* What is read back of a transfer or a conversion: the names are those of  *)
(* the participants stored for its parties.                                 *)
TransferRecord ==
  [payerFsp |-> StandIn("payer"), payeeFsp |-> StandIn("payee"), payeeIsProxy |-> IsProxied("payee")]
FxRecord(c) ==
  [initiatingFspName |-> StandIn(Initiator(c)), counterPartyFspName |-> StandIn(CounterParty(c)),
   sourceCurrency |-> Source(c), targetCurrency |-> Target(c)]

(* getProxyParticipantAccountDetails of a participant that is stored, which *)
(* is always one in the scheme: the accounts it yields, one or none.        *)
AccountOf(p, currency) == {<<p, currency>>} \intersect accounts

(***************************************************************************)
(* Prepare (cyril.js, validator.js, prepare.js).                           *)
(***************************************************************************)
Exists(x) == state[x] # "none"
Watched   == {c \in Conversion : fxType[c] # "none"}

(* The accounts that have to exist.  A conversion for a transfer that is    *)
(* there already is the payee's.                                            *)
TransferAccounts ==
  LET payer == IF IsProxied("payer") THEN {} ELSE {<<"payer", "middle">>}
      payee == IF IsProxied("payee") THEN {} ELSE {<<"payee", "middle">>}
  IN IF Watched # {} THEN payee
     ELSE payer \union (IF PayeeValidated THEN payee ELSE {})

FxAccounts(c) ==
  {<<StandIn(CounterParty(c)), Source(c)>>,
   <<StandIn(Initiator(c)), IF Exists("transfer") THEN Target(c) ELSE Source(c)>>}
  \union (IF IsProxied(CounterParty(c)) THEN {} ELSE {<<CounterParty(c), Target(c)>>})

RelatedFulfilled == \A c \in Watched : state[c] = "RECEIVED_FULFIL_DEPENDENT"

(* What may be wrong with the request itself is not looked at when a proxy  *)
(* is involved.                                                             *)
Flaw       == {"source", "amount", "participant", "condition", "expiration", "sameFsp"}
Proxied(x) == IsProxied(Initiator(x)) \/ IsProxied(CounterParty(x))
ValidatePrepare(x, flaws) ==
  /\ x = "transfer" => RelatedFulfilled
  /\ Proxied(x) \/ flaws = {}
  /\ (IF x = "transfer" THEN TransferAccounts ELSE FxAccounts(x)) \subseteq accounts

(* The rows of a conversion name the accounts of the provider: without them *)
(* it is not stored, and the initiator is told of an error.                 *)
ProviderAccounts(c) ==
  {<<StandIn(CounterParty(c)), Source(c)>>} \union
  (IF IsProxied(CounterParty(c)) THEN {} ELSE {<<CounterParty(c), Target(c)>>})
Storable(x) == x \in Conversion => ProviderAccounts(x) \subseteq accounts

(* The account that is to reserve the funds: the initiator's, or that of the*)
(* provider whose conversion goes before.  None, and no message, when the   *)
(* record of that conversion lacks its target row, or there is no account:  *)
(* the handler fails after the transfer is stored.                          *)
ProviderRow(c) == IsProxied("payee") \/ ~IsProxied(CounterParty(c))
IsSameProxy(c) == IsProxied("payee") /\ FxRecord(c).counterPartyFspName = where["payee"]

TransferPositionAccount ==
  IF Watched = {} THEN AccountOf(TransferRecord.payerFsp, "middle")
  ELSE UNION {IF IsSameProxy(c) THEN {NoAccount}
              ELSE AccountOf(FxRecord(c).counterPartyFspName, FxRecord(c).targetCurrency) :
                c \in {d \in Watched : ProviderRow(d)}}
FxPositionAccount(c) ==
  IF Exists("transfer") THEN AccountOf(StandIn(CounterParty(c)), Target(c))
  ELSE AccountOf(StandIn(Initiator(c)), Source(c))
PositionAccount(x) == IF x = "transfer" THEN TransferPositionAccount ELSE FxPositionAccount(x)

Ask(x, account) ==
  [id |-> x, action |-> "prepare", account |-> account, changes |-> {}, unmoved |-> {}]

(* The payer asks for its conversion before the transfer; the payee for its *)
(* own when it has been asked for the transfer, and of a provider of its    *)
(* scheme.                                                                  *)
InTurn(x) ==
  CASE x = "sendingFx"   -> ~Exists("transfer")
    [] x = "transfer"    -> TRUE
    [] x = "receivingFx" -> state["transfer"] = "RESERVED" /\ where["payee"] = "scheme"

Prepare(x) ==
  /\ ~Exists(x) /\ InTurn(x) /\ Found(x) /\ Storable(x)
  /\ \E flaws \in {{}} \union {{f} : f \in Flaw} :
       IF ValidatePrepare(x, flaws)
       THEN /\ state' = [state EXCEPT ![x] = "RECEIVED_PREPARE"]
            /\ fxType' = [c \in Conversion |->
                 IF c # x THEN fxType[c]
                 ELSE IF Exists("transfer") THEN "PAYEE_CONVERSION" ELSE "PAYER_CONVERSION"]
            /\ pending' = pending \union {Ask(x, a) : a \in PositionAccount(x)}
       ELSE state' = [state EXCEPT ![x] = "INVALID"] /\ UNCHANGED <<fxType, pending>>
  /\ UNCHANGED <<where, accounts, answer, reserved, balance, outOfTurn>>

(* A proxy reports that it has passed the request on.                       *)
Forward(x) ==
  /\ IsProxied(CounterParty(x))
  /\ state[x] = "RESERVED"
  /\ state' = [state EXCEPT ![x] = "RESERVED_FORWARDED"]
  /\ UNCHANGED <<where, accounts, fxType, answer, reserved, balance, pending, outOfTurn>>

(***************************************************************************)
(* What a settlement moves (cyril.js).                                     *)
(***************************************************************************)
ChangesOf(x, as) == {[id |-> x, account |-> a] : a \in as}
OfType(t) == {c \in Conversion : fxType[c] = t}

(* processFulfilMessage: the provider of the payer's conversion is paid in  *)
(* the source currency, the payee in the currency the last conversion leads *)
(* to, the provider of the payee's conversion in the transfer's.  That one  *)
(* proxy stands for the provider and the payee is looked for in a branch no *)
(* participant that is stored reaches.                                      *)
ProviderIsPaid(c)  == ChangesOf(c, AccountOf(FxRecord(c).counterPartyFspName, FxRecord(c).sourceCurrency))
InitiatorIsPaid(c) == ChangesOf("transfer", AccountOf(FxRecord(c).initiatingFspName, FxRecord(c).targetCurrency))
PayeeIsPaid(c)     == ChangesOf("transfer", AccountOf(TransferRecord.payeeFsp, FxRecord(c).targetCurrency))

\* Mutant: with both conversions, the payee's provider is forgotten.
WithoutReceivingFxp ==
  LET sending == OfType("PAYER_CONVERSION") receiving == OfType("PAYEE_CONVERSION")
  IN (UNION {ProviderIsPaid(c) : c \in IF sending = {} THEN receiving ELSE sending})
     \union (UNION {InitiatorIsPaid(c) : c \in receiving})
     \union (UNION {PayeeIsPaid(c) : c \in IF receiving = {} THEN sending ELSE {}})
FulfilChanges ==
  LET sending == OfType("PAYER_CONVERSION") receiving == OfType("PAYEE_CONVERSION")
  IN (UNION {ProviderIsPaid(c) : c \in sending \union receiving})
     \union (UNION {InitiatorIsPaid(c) : c \in receiving})
     \union (UNION {PayeeIsPaid(c) : c \in IF receiving = {} THEN sending ELSE {}})

(* Without conversions the payee is paid; the handler fails if there is no  *)
(* account to do it on.  A payee without an account, next to a conversion,  *)
(* changes nothing but the transfer's state.                                *)
CommitChanges == IF Watched = {} THEN ChangesOf("transfer", AccountOf(TransferRecord.payeeFsp, "middle"))
                 ELSE FulfilChanges
CommitUnmoved ==
  IF OfType("PAYEE_CONVERSION") = {} /\ ~\E ch \in CommitChanges : ch.id = "transfer"
  THEN {"transfer"} ELSE {}

(* _getPositionChanges: whatever has been reserved, of the conversions and  *)
(* of the transfer; and processAbortMessage's transfer that has reserved    *)
(* nothing because one proxy stands for its provider and its payee.         *)
Reserved(xs)  == UNION {ChangesOf(x, reserved[x]) : x \in xs}
Conversions   == {c \in Conversion : Exists(c)}
\* Mutant: a transfer that reserved nothing is left as it is.
NeverUnmoved  == {}
\* Mutant: whatever reserved nothing changes its state, conversions too.
AllUnmoved    == {x \in Conversions \union {"transfer"} : reserved[x] = {}}
AbortUnmoved  == IF TransferRecord.payeeIsProxy /\ reserved["transfer"] = {} /\ Conversions # {}
                 THEN {"transfer"} ELSE {}

(* A settlement without movements is refused: no message is sent.           *)
Settlement(x, action, changes, unmoved) ==
  IF changes = {} THEN {}
  ELSE {[id |-> x, action |-> action, account |-> NoAccount, changes |-> changes,
         unmoved |-> unmoved]}

(***************************************************************************)
(* Answers (handler.js, FxFulfilService.js).                               *)
(***************************************************************************)
(* What is reserved takes an answer.                                        *)
\* Mutant: only what is committed takes no answer any more.
NotCommitted(x) == state[x] \notin {"none", "COMMITTED"}
Answerable(x) == state[x] \in {"RESERVED", "RESERVED_FORWARDED"}

Save(x, a, s, messages) ==
  /\ answer' = [answer EXCEPT ![x] = a]
  /\ state' = [state EXCEPT ![x] = s]
  /\ pending' = pending \union messages
  /\ UNCHANGED <<where, accounts, fxType, reserved, balance>>
Store(x, a, s, messages) == Answerable(x) /\ Save(x, a, s, messages) /\ UNCHANGED outOfTurn

FxAccept(c) == Store(c, "accept", "RECEIVED_FULFIL_DEPENDENT", {})

(* A provider refuses, its answer does not fulfil the condition or its      *)
(* headers are not those of the conversion: everything reserved for the     *)
(* payment is to be given back, of the payer's conversion first or not.  The*)
(* position handler stops at the one that was refused: its state is no      *)
(* longer RECEIVED_ERROR when the message comes back for the next.          *)
FxRefuse(c) ==
  \E before \in SUBSET (Conversions \ {c}) :
    Store(c, "refuse", "RECEIVED_ERROR",
          Settlement(c, "abort", Reserved(before \union {c}), {}))

(* The payee that has asked for a conversion waits for it.                  *)
Ready == \A c \in OfType("PAYEE_CONVERSION") : state[c] = "RECEIVED_FULFIL_DEPENDENT"
Accept == Ready /\ Store("transfer", "accept", "RECEIVED_FULFIL",
                         Settlement("transfer", "commit", CommitChanges, CommitUnmoved))

GiveBack == Settlement("transfer", "abort", Reserved(Conversions \union {"transfer"}), AbortUnmoved)
Refuse   == Store("transfer", "refuse", "RECEIVED_ERROR", GiveBack)

(* An error code that is not defined, or headers that are not those of the  *)
(* transfer: the payer is given back the transfer's amount, without a look  *)
(* at what was reserved.  A converted transfer takes the position handler   *)
(* with batches, which refuses such a message.                              *)
GiveBackPayer ==
  Settlement("transfer", "abort",
             IF Watched = {} THEN ChangesOf("transfer", AccountOf(TransferRecord.payerFsp, "middle")) ELSE {}, {})
Misanswer == Store("transfer", "misanswer", "RECEIVED_ERROR", GiveBackPayer)

(* Headers are compared before anything else is looked at, a fulfilment     *)
(* before the state: an answer that fails these checks aborts a request that*)
(* is not waiting for one, be it committed.  Headers can differ unless both *)
(* parties are proxies'; a fulfilment is judged unless one was read before; *)
(* and a provider that accepted may still refuse.  What has failed before   *)
(* has its row of transferError, whose primary key keeps out a second one.  *)
Misroutable(x) == ~(IsProxied(Initiator(x)) /\ IsProxied(CounterParty(x)))
OutOfTurn(x)   ==
  /\ Exists(x) /\ ~Answerable(x)
  /\ x \notin outOfTurn /\ Cardinality(outOfTurn) < MaxOutOfTurn
  /\ outOfTurn' = outOfTurn \union {x}

MisanswerOutOfTurn ==
  /\ OutOfTurn("transfer")
  /\ state["transfer"] \notin {"INVALID", "ABORTED_REJECTED", "RESERVED_TIMEOUT", "EXPIRED_RESERVED"}
  /\ answer["transfer"] \notin {"refuse", "misanswer"}
  /\ \/ Misroutable("transfer") /\ Save("transfer", "misanswer", "RECEIVED_ERROR", GiveBackPayer)
     \/ answer["transfer"] = "none" /\ Save("transfer", "refuse", "RECEIVED_ERROR", GiveBack)

(* With nothing of its own to give back, the position handler does not stop *)
(* before it has done all of the message.                                   *)
FxMisanswerOutOfTurn(c) ==
  /\ OutOfTurn(c)
  /\ Misroutable(c) \/ answer[c] # "accept" \/ state[c] = "RECEIVED_FULFIL_DEPENDENT"
  /\ \E others \in IF reserved[c] = {} THEN {Conversions \union {"transfer"}} ELSE SUBSET (Conversions \ {c}) :
       Save(c, "refuse", "RECEIVED_ERROR", Settlement(c, "abort", Reserved(others \union {c}), {}))

(***************************************************************************)
(* The position handler.                                                   *)
(***************************************************************************)
Consume(m) == m \in pending /\ pending' = pending \ {m}
ToBeSettled == {"commit", "abort", "timeout"}
EndOf(m) == CASE m.action = "commit" -> "COMMITTED" [] m.action = "abort" -> "ABORTED_ERROR"
              [] m.action = "timeout" -> "EXPIRED_RESERVED"
Awaited(m) == CASE m.action = "commit" -> "RECEIVED_FULFIL" [] m.action = "abort" -> "RECEIVED_ERROR"
                [] m.action = "timeout" -> "RESERVED_TIMEOUT" [] m.action = "prepare" -> "RECEIVED_PREPARE"

ReserveFunds(m) ==
  /\ Consume(m)
  /\ m.action = "prepare"
  /\ state[m.id] = Awaited(m)
  /\ state' = [state EXCEPT ![m.id] = "RESERVED"]
  /\ IF m.account = NoAccount THEN UNCHANGED <<reserved, balance>>
     ELSE /\ reserved' = [reserved EXCEPT ![m.id] = {m.account}]
          /\ balance' = [balance EXCEPT ![m.account] = @ + 1]
  /\ UNCHANGED <<where, accounts, fxType, answer, outOfTurn>>

(* Insufficient funds, or a request that has expired meanwhile.             *)
RejectFunds(m) ==
  /\ Consume(m)
  /\ m.action = "prepare"
  /\ state[m.id] # Awaited(m) \/ m.account # NoAccount
  /\ state' = [state EXCEPT ![m.id] = "ABORTED_REJECTED"]
  /\ UNCHANGED <<where, accounts, fxType, answer, reserved, balance, outOfTurn>>

Settle(m) ==
  /\ Consume(m)
  /\ m.action \in ToBeSettled
  /\ IF state[m.id] = Awaited(m)
     THEN LET ended == {ch.id : ch \in m.changes} \union m.unmoved
          IN /\ state' = [x \in Id |-> IF x \in ended THEN EndOf(m) ELSE state[x]]
             /\ balance' = [a \in Account |-> balance[a] - Cardinality({ch \in m.changes : ch.account = a})]
     ELSE UNCHANGED <<state, balance>>
  /\ UNCHANGED <<where, accounts, fxType, answer, reserved, outOfTurn>>

Position(m) == ReserveFunds(m) \/ RejectFunds(m) \/ Settle(m)

(***************************************************************************)
(* The date of the payment passes: what is reserved for it times out, with *)
(* the conversions that wait for the transfer.  A transfer that was        *)
(* forwarded does not expire; here its conversions do not either, nor when *)
(* the transfer is being settled.                                          *)
(***************************************************************************)
TimedOut(s) == CASE s = "RECEIVED_PREPARE" -> "EXPIRED_PREPARED"
                 [] s \in {"RESERVED", "RECEIVED_FULFIL_DEPENDENT"} -> "RESERVED_TIMEOUT"
                 [] OTHER -> s
MayExpire == state["transfer"] \notin {"RESERVED_FORWARDED", "RECEIVED_FULFIL", "RECEIVED_ERROR"}

Sweep ==
  LET swept == {x \in Id : TimedOut(state[x]) # state[x]}
  IN /\ MayExpire
     /\ swept # {}
     /\ state' = [x \in Id |-> TimedOut(state[x])]
     /\ pending' = pending \union
          UNION {Settlement(x, "timeout", Reserved({x}), {}) :
                   x \in {y \in swept : state[y] # "RECEIVED_PREPARE"}}
     /\ UNCHANGED <<where, accounts, fxType, answer, reserved, balance, outOfTurn>>

Next ==
  \/ \E x \in Id : Prepare(x) \/ Forward(x)
  \/ \E c \in Conversion : FxAccept(c) \/ FxRefuse(c) \/ FxMisanswerOutOfTurn(c)
  \/ Accept \/ Refuse \/ Misanswer \/ MisanswerOutOfTurn
  \/ \E m \in pending : Position(m)
  \/ Sweep

Spec     == Init /\ [][Next]_vars
FairSpec == Spec /\ WF_vars(\E m \in pending : Position(m))

(***************************************************************************)
(* Reading back (getTransfer): what a GET is answered.                     *)
(***************************************************************************)
Enumeration(s) ==
  CASE s \in {"RESERVED", "RESERVED_FORWARDED", "RESERVED_TIMEOUT", "RECEIVED_FULFIL",
              "RECEIVED_FULFIL_DEPENDENT", "RECEIVED_ERROR"} -> "RESERVED"
    [] s = "COMMITTED" -> "COMMITTED"
    [] s = "RECEIVED_PREPARE" -> "RECEIVED"
    [] s \in {"ABORTED_REJECTED", "ABORTED_ERROR", "EXPIRED_PREPARED", "EXPIRED_RESERVED",
              "INVALID"} -> "ABORTED"

Parties(x) == {Initiator(x), CounterParty(x)}

(* externalParticipant: those a request has been stored for.                *)
External == {f \in Fsp : IsProxied(f) /\ \E x \in Id : Exists(x) /\ f \in Parties(x)}
IsParty(f, x) == f \in {StandIn(p) : p \in Parties(x)}

(* transferError and fxTransferError.  That of a conversion is written by   *)
(* the timeout alone: a refusal leaves none, and the error of one that was  *)
(* invalid goes to the transfers' table.                                    *)
HasError(x) ==
  \/ state[x] \in {"RESERVED_TIMEOUT", "EXPIRED_RESERVED"}
  \/ x = "transfer" /\ (answer[x] \in {"refuse", "misanswer"} \/ state[x] = "INVALID")

(* A proxy is sent the error of what has failed, to be passed on.  For a    *)
(* conversion the handler reads a column that is not there, and takes every *)
(* one to have failed; without an error it fails itself, and does not reply.*)
ErrorReply(x)   == IF HasError(x) THEN "error" ELSE "none"
ToldTheError(x) == x \in Conversion \/ Enumeration(state[x]) \notin {"COMMITTED", "RESERVED"}

Reply(x, f, viaProxy) ==
  IF ~Exists(x) THEN "notFound"
  ELSE IF viaProxy /\ ToldTheError(x) THEN ErrorReply(x)
  ELSE IF f \in External \/ IsParty(f, x) THEN Enumeration(state[x])
  ELSE "refused"

(* Who is not known is not answered; what is meant for another scheme is    *)
(* passed on to it.                                                         *)
Known(f) == f \in Proxy \union External \/ where[f] = "scheme"
GetTransfer(x, f, viaProxy, destination) ==
  IF ~Known(f) THEN "none"
  ELSE IF destination \in External THEN "passedOn"
  ELSE Reply(x, f, viaProxy)

(***************************************************************************)
(* Properties.                                                             *)
(***************************************************************************)

(* The accounts that the code expects: a proxy that stands for a provider   *)
(* has none in the currency it converts to, one that stands for a payee that*)
(* is paid here has one in the transfer's currency.                         *)
ExpectedAccounts ==
  IF fxType["sendingFx"] # "none" /\ IsProxied("sendingFxp")
  THEN <<where["sendingFxp"], "middle">> \notin accounts
  ELSE IsProxied("payee") => <<where["payee"], "middle">> \in accounts
Regular == ExpectedAccounts /\ answer["receivingFx"] # "refuse" /\ outOfTurn = {}

Total(currency) == SumFunctionOnSet([p \in Participant |-> balance[<<p, currency>>]], Participant)
InFlight ==
  \/ pending # {}
  \/ \E c \in Conversion : TimedOut(state[c]) # state[c] \/ state[c] = "RESERVED_FORWARDED"

(* Whoever converts and whoever is stood in for, a payment that is done     *)
(* balances in every currency: what was reserved of one has been paid to    *)
(* another, and nothing has moved if it was aborted or has expired.         *)
EveryCurrencyBalances ==
  Regular /\ ~InFlight =>
    /\ state["transfer"] = "COMMITTED" => \A c \in Currency : Total(c) = 0
    /\ state["transfer"] \in {"ABORTED_ERROR", "EXPIRED_PREPARED", "EXPIRED_RESERVED"} =>
         \A a \in Account : balance[a] = 0

(* Who asks twice is not told of two ends, whoever it is and by whichever  *)
(* way, until an answer is rejected out of turn: after a GET that was       *)
(* answered COMMITTED nobody is told anything but that, after one that was  *)
(* answered ABORTED, or with the error, nobody of a success.                *)
Replies(x) == {GetTransfer(x, f, viaProxy, "hub") : f \in Participant, viaProxy \in BOOLEAN}
Failure    == {"ABORTED", "error"}
Unfinished == {"RECEIVED", "RESERVED"}
RepliesTurnOutOfTurn ==
  [][\A x \in Id :
       Regular /\ outOfTurn' = {} =>
         /\ "COMMITTED" \in Replies(x) => Replies(x)' \intersect (Failure \union Unfinished) = {}
         /\ Replies(x) \intersect Failure # {} => "COMMITTED" \notin Replies(x)']_vars

(* The payee's answer takes effect, whoever stands in for it: a transfer it *)
(* accepted is committed, one it refused aborted.                           *)
AnswersTakeEffect ==
  /\ (state["transfer"] = "RECEIVED_FULFIL") ~> (state["transfer"] = "COMMITTED" \/ ~Regular)
  /\ (state["transfer"] = "RECEIVED_ERROR") ~>
       (state["transfer"] = "ABORTED_ERROR" \/ ~Regular \/ (answer["transfer"] = "misanswer" /\ Watched # {}))
==============================================================================
