-------------------------- MODULE InterScheme_proofs --------------------------
(***************************************************************************)
(* Proofs about InterScheme, for any proxies and any deployments: whoever   *)
(* converts and whoever is stood in for, every currency balances when the   *)
(* payment is done, and nobody is told of two ends, as long as no answer    *)
(* was rejected out of turn.                                                *)
(***************************************************************************)
EXTENDS InterScheme, Sums

(***************************************************************************)
(* Types.                                                                  *)
(***************************************************************************)
LEMMA Deployed ==
  ASSUME TypeOK
  PROVE  where \in [Fsp -> Place] /\ accounts \subseteq Account
BY DEF TypeOK

(* Who is stored for a party is a participant of the scheme, and the        *)
(* accounts that are found are accounts that exist.                         *)
LEMMA StandInType ==
  ASSUME TypeOK, NEW f \in Fsp
  PROVE  StandIn(f) \in Participant
BY Deployed DEF StandIn, IsProxied, Place, Participant

LEMMA AccountOfType ==
  ASSUME TypeOK, NEW p, NEW currency
  PROVE  AccountOf(p, currency) \subseteq Account
BY Deployed DEF AccountOf

LEMMA PartyType ==
  ASSUME NEW x \in Id
  PROVE  Initiator(x) \in Fsp /\ CounterParty(x) \in Fsp
BY DEF Id, Conversion, Initiator, CounterParty, Fsp

(* Accounts are finitely many, and so is what a message can change.         *)
LEMMA AccountsFinite == IsFiniteSet(Participant) /\ IsFiniteSet(Account)
<1>1. IsFiniteSet(Fsp)
  <2> DEFINE p1 == {"payer"}
             p2 == p1 \union {"payee"}
             p3 == p2 \union {"sendingFxp"}
             p4 == p3 \union {"receivingFxp"}
  <2>1. IsFiniteSet(p1)
    BY FS_Singleton
  <2>2. IsFiniteSet(p2)
    BY <2>1, FS_AddElement
  <2>3. IsFiniteSet(p3)
    BY <2>2, FS_AddElement
  <2>4. IsFiniteSet(p4)
    BY <2>3, FS_AddElement
  <2>5. p4 = Fsp
    BY DEF Fsp
  <2> QED
    BY <2>4, <2>5
<1>2. IsFiniteSet(Participant)
  BY <1>1, DeploymentsAssumption, FS_Union DEF Participant
<1>3. IsFiniteSet(Currency)
  <2> DEFINE p1 == {"source"}
             p2 == p1 \union {"middle"}
             p3 == p2 \union {"target"}
  <2>1. IsFiniteSet(p1)
    BY FS_Singleton
  <2>2. IsFiniteSet(p2)
    BY <2>1, FS_AddElement
  <2>3. IsFiniteSet(p3)
    BY <2>2, FS_AddElement
  <2>4. p3 = Currency
    BY DEF Currency
  <2> QED
    BY <2>3, <2>4
<1> QED
  BY <1>2, <1>3, FS_Product DEF Account

LEMMA ChangesFinite ==
  ASSUME NEW changes \in SUBSET Change
  PROVE  IsFiniteSet(changes)
<1>1. IsFiniteSet(Id)
  <2> DEFINE p1 == {"sendingFx"}
             p2 == p1 \union {"receivingFx"}
             p3 == p2 \union {"transfer"}
  <2>1. IsFiniteSet(p1)
    BY FS_Singleton
  <2>2. IsFiniteSet(p2)
    BY <2>1, FS_AddElement
  <2>3. IsFiniteSet(p3)
    BY <2>2, FS_AddElement
  <2>4. p3 = Id
    BY DEF Id, Conversion
  <2> QED
    BY <2>3, <2>4
<1>2. IsFiniteSet(Id \X Account)
  BY <1>1, AccountsFinite, FS_Product
<1> DEFINE f == [ch \in changes |-> <<ch.id, ch.account>>]
<1>3. f \in Injection(changes, Id \X Account)
  <2>1. f \in [changes -> Id \X Account]
    BY DEF Change
  <2>2. ASSUME NEW c \in changes, NEW d \in changes, f[c] = f[d] PROVE c = d
    <3>1. c \in Change /\ d \in Change /\ c.id = d.id /\ c.account = d.account
      BY <2>2
    <3> QED
      BY <3>1 DEF Change
  <2> HIDE DEF f
  <2> QED
    BY <2>1, <2>2 DEF Injection, IsInjective
<1> QED
  BY <1>2, <1>3, FS_Injection

(* What is asked for and what is settled are messages.                      *)
LEMMA AskType ==
  ASSUME NEW x \in Id, NEW a \in Account \union {NoAccount}
  PROVE  Ask(x, a) \in Message
BY DEF Ask, Message

LEMMA SettlementType ==
  ASSUME NEW x \in Id, NEW action \in {"commit", "abort", "timeout"},
         NEW changes \in SUBSET Change, NEW unmoved \in SUBSET {"transfer"}
  PROVE  Settlement(x, action, changes, unmoved) \subseteq Message
<1> DEFINE m == [id |-> x, action |-> action, account |-> NoAccount, changes |-> changes, unmoved |-> unmoved]
<1>1. m \in Message
  BY DEF Message
<1> HIDE DEF m
<1>2. Settlement(x, action, changes, unmoved) \subseteq {m}
  BY DEF Settlement, m
<1> QED
  BY <1>1, <1>2

LEMMA ReservedType ==
  ASSUME TypeOK, NEW xs \in SUBSET Id
  PROVE  Reserved(xs) \in SUBSET Change
<1>1. \A x \in xs : ChangesOf(x, reserved[x]) \subseteq Change
  BY DEF TypeOK, ChangesOf, Change
<1> QED
  BY <1>1 DEF Reserved

LEMMA CommitType ==
  ASSUME TypeOK
  PROVE  CommitChanges \in SUBSET Change /\ CommitUnmoved \in SUBSET {"transfer"}
<1>1. \A x \in Id : \A p, currency : ChangesOf(x, AccountOf(p, currency)) \subseteq Change
  BY AccountOfType DEF ChangesOf, Change
<1>2. \A c \in Conversion : /\ ProviderIsPaid(c) \subseteq Change
                            /\ InitiatorIsPaid(c) \subseteq Change
                            /\ PayeeIsPaid(c) \subseteq Change
  BY <1>1 DEF ProviderIsPaid, InitiatorIsPaid, PayeeIsPaid, Id
<1>3. FulfilChanges \subseteq Change
  <2>1. /\ UNION {ProviderIsPaid(c) : c \in OfType("PAYER_CONVERSION") \union OfType("PAYEE_CONVERSION")} \subseteq Change
        /\ UNION {InitiatorIsPaid(c) : c \in OfType("PAYEE_CONVERSION")} \subseteq Change
        /\ UNION {PayeeIsPaid(c) : c \in IF OfType("PAYEE_CONVERSION") = {} THEN OfType("PAYER_CONVERSION") ELSE {}}
             \subseteq Change
    BY <1>2 DEF OfType
  <2> QED
    BY <2>1 DEF FulfilChanges
<1> QED
  BY <1>1, <1>3 DEF CommitChanges, CommitUnmoved, Id

LEMMA PositionAccountType ==
  ASSUME TypeOK, NEW x \in Id
  PROVE  PositionAccount(x) \subseteq Account \union {NoAccount}
BY AccountOfType DEF PositionAccount, TransferPositionAccount, FxPositionAccount

LEMMA TypeInit == Init => TypeOK
<1> SUFFICES ASSUME Init PROVE TypeOK
  OBVIOUS
<1>1. where \in [Fsp -> Place] /\ accounts \subseteq Account
  <2>1. PICK d \in Deployments : where = d.where /\ accounts = d.accounts
    BY DEF Init
  <2>2. d \in [where : [Fsp -> Place], accounts : SUBSET Account]
    BY DeploymentsAssumption
  <2> QED
    BY <2>1, <2>2
<1> QED
  BY <1>1 DEF Init, TypeOK, State, FxType, Answer

LEMMA SaveType ==
  ASSUME TypeOK, NEW x \in Id, NEW a \in Answer, NEW s \in State, NEW messages \in SUBSET Message,
         Save(x, a, s, messages), outOfTurn' \subseteq Id
  PROVE  TypeOK'
BY DEF TypeOK, Save

LEMMA StoreType ==
  ASSUME TypeOK, NEW x \in Id, NEW a \in Answer, NEW s \in State, NEW messages \in SUBSET Message,
         Store(x, a, s, messages)
  PROVE  TypeOK'
<1>1. outOfTurn' \subseteq Id /\ Save(x, a, s, messages)
  BY DEF TypeOK, Store
<1> QED
  BY <1>1, SaveType

(* The messages that give back are messages.                                *)
LEMMA GiveBackType ==
  ASSUME TypeOK
  PROVE  GiveBack \subseteq Message /\ GiveBackPayer \subseteq Message
<1>1. Reserved(Conversions \union {"transfer"}) \in SUBSET Change
  BY ReservedType DEF Conversions, Id
<1>2. AbortUnmoved \in SUBSET {"transfer"}
  BY DEF AbortUnmoved
<1> DEFINE changes == IF Watched = {} THEN ChangesOf("transfer", AccountOf(TransferRecord.payerFsp, "middle")) ELSE {}
<1>3. changes \in SUBSET Change
  BY AccountOfType DEF ChangesOf, Change, Id
<1>4. Settlement("transfer", "abort", changes, {}) \subseteq Message
  BY <1>3, SettlementType DEF Id
<1> QED
  BY <1>1, <1>2, <1>4, SettlementType DEF GiveBack, GiveBackPayer, Id

LEMMA TypeNext ==
  ASSUME TypeOK, [Next]_vars
  PROVE  TypeOK'
<1>1. CASE UNCHANGED vars
  BY <1>1 DEF vars, payment, TypeOK
<1>2. ASSUME NEW x \in Id, Prepare(x) PROVE TypeOK'
  <2>1. PICK flaws \in {{}} \union {{f} : f \in Flaw} :
       IF ValidatePrepare(x, flaws)
       THEN /\ state' = [state EXCEPT ![x] = "RECEIVED_PREPARE"]
            /\ fxType' = [c \in Conversion |->
                 IF c # x THEN fxType[c]
                 ELSE IF Exists("transfer") THEN "PAYEE_CONVERSION" ELSE "PAYER_CONVERSION"]
            /\ pending' = pending \union {Ask(x, a) : a \in PositionAccount(x)}
       ELSE state' = [state EXCEPT ![x] = "INVALID"] /\ UNCHANGED <<fxType, pending>>
    BY <1>2, Zenon DEF Prepare
  <2>2. UNCHANGED <<where, accounts, answer, reserved, balance, outOfTurn>>
    BY <1>2 DEF Prepare
  <2>3. {Ask(x, a) : a \in PositionAccount(x)} \subseteq Message
    BY PositionAccountType, AskType
  <2>4. state' \in [Id -> State]
    BY <2>1 DEF TypeOK, State
  <2>5. fxType' \in [Conversion -> FxType]
    BY <2>1 DEF TypeOK, FxType
  <2>6. pending' \subseteq Message
    BY <2>1, <2>3 DEF TypeOK
  <2> QED
    BY <2>2, <2>4, <2>5, <2>6 DEF TypeOK
<1>3. ASSUME NEW x \in Id, Forward(x) PROVE TypeOK'
  BY <1>3 DEF Forward, TypeOK, State
<1>4. ASSUME NEW c \in Conversion, FxAccept(c) PROVE TypeOK'
  BY <1>4, StoreType DEF FxAccept, Id, Answer, State
<1>5. ASSUME NEW c \in Conversion, FxRefuse(c) PROVE TypeOK'
  <2>1. PICK before \in SUBSET (Conversions \ {c}) :
          Store(c, "refuse", "RECEIVED_ERROR",
                Settlement(c, "abort", Reserved(before \union {c}), {}))
    BY <1>5 DEF FxRefuse
  <2>2. Reserved(before \union {c}) \in SUBSET Change
    BY ReservedType DEF Conversions, Id
  <2>3. Settlement(c, "abort", Reserved(before \union {c}), {}) \subseteq Message
    BY <2>2, SettlementType DEF Id
  <2>4. c \in Id /\ "refuse" \in Answer /\ "RECEIVED_ERROR" \in State
    BY DEF Id, Answer, State
  <2> QED
    BY <2>1, <2>3, <2>4, StoreType
<1>6. CASE Accept
  <2>1. Settlement("transfer", "commit", CommitChanges, CommitUnmoved) \subseteq Message
    BY CommitType, SettlementType DEF Id
  <2> QED
    BY <1>6, <2>1, StoreType DEF Accept, Id, Answer, State
<1>7. CASE Refuse \/ Misanswer
  BY <1>7, GiveBackType, StoreType DEF Refuse, Misanswer, Id, Answer, State
<1>8. CASE MisanswerOutOfTurn
  <2>1. outOfTurn' \subseteq Id
    BY <1>8 DEF MisanswerOutOfTurn, OutOfTurn, TypeOK, Id
  <2>2. \/ Save("transfer", "misanswer", "RECEIVED_ERROR", GiveBackPayer)
        \/ Save("transfer", "refuse", "RECEIVED_ERROR", GiveBack)
    BY <1>8 DEF MisanswerOutOfTurn
  <2> QED
    BY <2>1, <2>2, GiveBackType, SaveType DEF Id, Answer, State
<1>9. ASSUME NEW m \in pending, Position(m) PROVE TypeOK'
  <2>1. m \in Message
    BY DEF TypeOK
  <2>2. CASE ReserveFunds(m)
    <3>1. state' \in [Id -> State]
      BY <2>2 DEF ReserveFunds, TypeOK, State
    <3>2. reserved' \in [Id -> SUBSET Account] /\ balance' \in [Account -> Int]
      BY <2>1, <2>2 DEF ReserveFunds, TypeOK, Message
    <3> QED
      BY <2>2, <3>1, <3>2 DEF ReserveFunds, Consume, TypeOK
  <2>3. CASE RejectFunds(m)
    BY <2>3 DEF RejectFunds, Consume, TypeOK, State
  <2>4. CASE Settle(m)
    <3>1. EndOf(m) \in State
      BY <2>4 DEF Settle, ToBeSettled, EndOf, State
    <3>2. state' \in [Id -> State]
      BY <2>4, <3>1 DEF Settle, TypeOK
    <3>3. balance' \in [Account -> Int]
      <4>1. \A a \in Account : Cardinality({ch \in m.changes : ch.account = a}) \in Int
        <5> TAKE a \in Account
        <5>1. {ch \in m.changes : ch.account = a} \in SUBSET Change
          BY <2>1 DEF Message
        <5>2. IsFiniteSet({ch \in m.changes : ch.account = a})
          BY <5>1, ChangesFinite
        <5> QED
          BY <5>2, FS_CardinalityType
      <4> DEFINE n(a) == Cardinality({ch \in m.changes : ch.account = a})
      <4>2. balance' = [a \in Account |-> balance[a] - n(a)] \/ balance' = balance
        BY <2>4 DEF Settle
      <4>3. \A a \in Account : n(a) \in Int
        BY <4>1
      <4> HIDE DEF n
      <4> QED
        BY <4>2, <4>3 DEF TypeOK
    <3> QED
      BY <2>4, <3>2, <3>3 DEF Settle, Consume, TypeOK
  <2> QED
    BY <1>9, <2>2, <2>3, <2>4 DEF Position
<1>10. CASE Sweep
  <2>1. \A s \in State : TimedOut(s) \in State
    BY DEF TimedOut, State
  <2>2. state' \in [Id -> State]
    BY <1>10, <2>1 DEF Sweep, TypeOK
  <2> DEFINE swept == {x \in Id : TimedOut(state[x]) # state[x]}
  <2>3. \A x \in Id : Settlement(x, "timeout", Reserved({x}), {}) \subseteq Message
    BY ReservedType, SettlementType
  <2>4. pending' = pending \union UNION {Settlement(x, "timeout", Reserved({x}), {}) :
                                          x \in {y \in swept : state[y] # "RECEIVED_PREPARE"}}
    BY <1>10 DEF Sweep
  <2>5. pending' \subseteq Message
    BY <2>3, <2>4 DEF TypeOK
  <2> QED
    BY <1>10, <2>2, <2>5 DEF Sweep, TypeOK
<1>11. ASSUME NEW c \in Conversion, FxMisanswerOutOfTurn(c) PROVE TypeOK'
  <2>1. c \in Id /\ "refuse" \in Answer /\ "RECEIVED_ERROR" \in State
    BY DEF Id, Answer, State
  <2>2. outOfTurn' \subseteq Id
    BY <1>11, <2>1 DEF FxMisanswerOutOfTurn, OutOfTurn, TypeOK
  <2>3. PICK others \in SUBSET Id :
          Save(c, "refuse", "RECEIVED_ERROR", Settlement(c, "abort", Reserved(others \union {c}), {}))
    <3>1. PICK others \in (IF reserved[c] = {} THEN {Conversions \union {"transfer"}} ELSE SUBSET (Conversions \ {c})) :
            Save(c, "refuse", "RECEIVED_ERROR", Settlement(c, "abort", Reserved(others \union {c}), {}))
      BY <1>11 DEF FxMisanswerOutOfTurn
    <3>2. others \in SUBSET Id
      BY DEF Conversions, Id
    <3> QED
      BY <3>1, <3>2
  <2>4. Reserved(others \union {c}) \in SUBSET Change
    BY <2>1, ReservedType
  <2>5. Settlement(c, "abort", Reserved(others \union {c}), {}) \subseteq Message
    BY <2>1, <2>4, SettlementType
  <2> QED
    BY <2>1, <2>2, <2>3, <2>5, SaveType
<1> QED
  BY <1>1, <1>2, <1>3, <1>4, <1>5, <1>6, <1>7, <1>8, <1>9, <1>10, <1>11 DEF Next

(* Wherever the parties are, and whichever accounts they have, states,      *)
(* fulfilments, rows and messages are what the handlers take them to be.    *)
THEOREM TypeCorrect == Spec => []TypeOK
<1> QED
  BY TypeInit, TypeNext, PTL DEF Spec

(***************************************************************************)
(* The inductive invariant.  It says of a payment, as long as the payee's   *)
(* provider has not refused and no answer came out of turn, how far its     *)
(* parts are, which accounts are there, what is reserved, what the messages *)
(* on their way will do, and that the balances are the books of all that.   *)
(***************************************************************************)

(* What each request reserves is in a currency of its own.                  *)
Held(x) == CASE x = "sendingFx" -> "source" [] x = "transfer" -> "middle" [] x = "receivingFx" -> "target"

(* The account that backs a request; none, of a transfer whose provider and *)
(* payee one proxy stands for.                                              *)
Backing(x) ==
  CASE x = "sendingFx"   -> <<StandIn("payer"), "source">>
    [] x = "receivingFx" -> <<StandIn("receivingFxp"), "target">>
    [] x = "transfer"    ->
         IF fxType["sendingFx"] = "none" THEN <<StandIn("payer"), "middle">>
         ELSE IF IsSameProxy("sendingFx") THEN NoAccount
         ELSE <<StandIn("sendingFxp"), "middle">>

Early == {"none", "INVALID", "RECEIVED_PREPARE", "EXPIRED_PREPARED", "ABORTED_REJECTED"}
Back  == {"ABORTED_ERROR", "EXPIRED_RESERVED"}
Open  == {"RESERVED", "RESERVED_FORWARDED", "RECEIVED_FULFIL_DEPENDENT"}
Begun == state["transfer"] \notin {"none", "INVALID"}

(* A conversion is watched once it is accepted: the payer's before the      *)
(* transfer, the payee's after it was reserved.                             *)
WatchInv ==
  /\ \A c \in Conversion : fxType[c] = "none" <=> state[c] \in {"none", "INVALID"}
  /\ fxType["sendingFx"] \in {"none", "PAYER_CONVERSION"}
  /\ fxType["receivingFx"] \in {"none", "PAYEE_CONVERSION"}
  /\ state["receivingFx"] # "none" => state["transfer"] \notin Early
  /\ fxType["receivingFx"] # "none" => where["payee"] = "scheme"
  /\ \A c \in Conversion : state[c] # "RECEIVED_FULFIL"
  /\ state["transfer"] # "RECEIVED_FULFIL_DEPENDENT"
  /\ state["receivingFx"] # "RECEIVED_ERROR"

(* The conversions keep pace with the transfer: fulfilled before it is, and *)
(* committed with it.                                                       *)
PaceInv ==
  /\ Begun /\ fxType["sendingFx"] # "none" =>
       state["sendingFx"] \in {"RECEIVED_FULFIL_DEPENDENT", "RESERVED_TIMEOUT", "EXPIRED_RESERVED",
                               "COMMITTED", "ABORTED_ERROR"}
  /\ state["transfer"] \in {"RECEIVED_PREPARE", "RESERVED", "RESERVED_FORWARDED", "RECEIVED_FULFIL"}
       => (fxType["sendingFx"] # "none" => state["sendingFx"] = "RECEIVED_FULFIL_DEPENDENT")
  /\ state["transfer"] = "RECEIVED_FULFIL" =>
       \A c \in Watched : state[c] = "RECEIVED_FULFIL_DEPENDENT"
  /\ \A c \in Conversion : state[c] = "COMMITTED" => state["transfer"] = "COMMITTED"
  /\ state["transfer"] = "COMMITTED" => \A c \in Watched : state[c] = "COMMITTED"
  /\ state["transfer"] \in {"RESERVED", "RESERVED_FORWARDED"} =>
       \A c \in Conversion : state[c] \in Early \union Open

(* The accounts that a settlement will look for are there.                  *)
AccountInv ==
  /\ \A c \in Watched : ProviderAccounts(c) \subseteq accounts
  /\ fxType["receivingFx"] # "none" => <<StandIn("payee"), "target">> \in accounts
  /\ Begun /\ ~IsProxied("payee") => <<"payee", "middle">> \in accounts

(* What has been reserved is what backs it.                                 *)
FundsInv ==
  \A x \in Id :
    /\ reserved[x] \subseteq accounts
    /\ reserved[x] = IF state[x] \in Early THEN {} ELSE {Backing(x)} \ {NoAccount}

(* A message on its way finds the state it was sent for, and changes what   *)
(* was reserved, or pays whom a commit has to pay.                          *)
Right(m) ==
  \/ /\ m.action = "prepare"
     /\ state[m.id] \in {"RECEIVED_PREPARE", "EXPIRED_PREPARED"}
     /\ m.account = Backing(m.id) /\ m.account \in accounts \union {NoAccount}
  \/ /\ m.action = "timeout"
     /\ state[m.id] = "RESERVED_TIMEOUT"
     /\ m.changes = ChangesOf(m.id, reserved[m.id]) /\ m.unmoved = {}
  \/ /\ m.action = "commit"
     /\ m.id = "transfer" /\ state["transfer"] = "RECEIVED_FULFIL"
     /\ m.changes = CommitChanges /\ m.unmoved = CommitUnmoved
  \/ /\ m.action = "abort"
     /\ state[m.id] = "RECEIVED_ERROR"
     /\ \A ch \in m.changes : /\ ch.account \in reserved[ch.id]
                              /\ ch.id = m.id \/ (m.id = "transfer" /\ state[ch.id] \in Open)
     /\ m.unmoved # {} => m.id = "transfer" /\ reserved["transfer"] = {}

MailInv ==
  /\ \A m \in pending : Right(m)
  /\ \A m, n \in pending : m.id = n.id => m = n
  /\ \A x \in Id : state[x] = "RESERVED_TIMEOUT" /\ reserved[x] # {} => \E m \in pending : m.id = x

(* The balances: what is reserved and not given back, less what a commit    *)
(* has paid.                                                                *)
Paid == {ch.account : ch \in CommitChanges}
BooksInv ==
  \A x \in Id, p \in Participant :
    balance[<<p, Held(x)>>] =
      (IF <<p, Held(x)>> \in reserved[x] /\ state[x] \notin Back THEN 1 ELSE 0)
      - (IF state["transfer"] = "COMMITTED" /\ <<p, Held(x)>> \in Paid THEN 1 ELSE 0)

Undisputed == answer["receivingFx"] # "refuse" /\ outOfTurn = {}
AllInv     == WatchInv /\ PaceInv /\ AccountInv /\ FundsInv /\ MailInv /\ BooksInv
Inv        == TypeOK /\ (Undisputed => AllInv)

(***************************************************************************)
(* What does not depend on how far the payment is.                         *)
(***************************************************************************)
LEMMA PlacesStay ==
  ASSUME UNCHANGED <<where, accounts>>
  PROVE  /\ \A f : StandIn(f)' = StandIn(f) /\ IsProxied(f)' = IsProxied(f)
         /\ \A c : ProviderAccounts(c)' = ProviderAccounts(c)
         /\ \A c : IsSameProxy(c)' = IsSameProxy(c)
BY DEF StandIn, IsProxied, ProviderAccounts, IsSameProxy, FxRecord

LEMMA BackingStays ==
  ASSUME UNCHANGED <<where, accounts>>, NEW x \in Id,
         x = "transfer" => fxType'["sendingFx"] = fxType["sendingFx"]
  PROVE  Backing(x)' = Backing(x)
BY PlacesStay DEF Backing, Id, Conversion

LEMMA CommitStays ==
  ASSUME UNCHANGED <<where, accounts, fxType>>
  PROVE  CommitChanges' = CommitChanges /\ CommitUnmoved' = CommitUnmoved /\ Paid' = Paid
<1>1. \A p, currency : AccountOf(p, currency)' = AccountOf(p, currency)
  BY DEF AccountOf
<1>2. /\ Watched' = Watched
      /\ \A t : OfType(t)' = OfType(t)
      /\ TransferRecord' = TransferRecord
      /\ \A c : FxRecord(c)' = FxRecord(c)
  BY PlacesStay DEF Watched, OfType, TransferRecord, FxRecord
<1>3. \A c : /\ ProviderIsPaid(c)' = ProviderIsPaid(c)
             /\ InitiatorIsPaid(c)' = InitiatorIsPaid(c)
             /\ PayeeIsPaid(c)' = PayeeIsPaid(c)
  BY <1>1, <1>2 DEF ProviderIsPaid, InitiatorIsPaid, PayeeIsPaid
<1>4. FulfilChanges' = FulfilChanges
  BY <1>2, <1>3 DEF FulfilChanges
<1>5. CommitChanges' = CommitChanges
  BY <1>1, <1>2, <1>4 DEF CommitChanges
<1> QED
  BY <1>2, <1>5 DEF CommitUnmoved, Paid

(* The currency of what backs a request tells which one it is.              *)
LEMMA HeldApart ==
  ASSUME TypeOK, NEW x \in Id
  PROVE  /\ Held(x) \in Currency
         /\ \A y \in Id : Held(x) = Held(y) => x = y
         /\ Backing(x) # NoAccount => \E p \in Participant : Backing(x) = <<p, Held(x)>>
         /\ x # "transfer" => Backing(x) # NoAccount
<1>1. /\ StandIn("payer") \in Participant
      /\ StandIn("receivingFxp") \in Participant
      /\ StandIn("sendingFxp") \in Participant
  BY StandInType DEF Fsp
<1>2. Held(x) \in Currency /\ \A y \in Id : Held(x) = Held(y) => x = y
  BY DEF Held, Currency, Id, Conversion
<1>3. CASE x = "sendingFx"
  <2>1. Backing(x) = <<StandIn("payer"), "source">> /\ Held(x) = "source"
    BY <1>3 DEF Backing, Held
  <2> QED
    BY <1>1, <1>2, <2>1 DEF NoAccount
<1>4. CASE x = "receivingFx"
  <2>1. Backing(x) = <<StandIn("receivingFxp"), "target">> /\ Held(x) = "target"
    BY <1>4 DEF Backing, Held
  <2> QED
    BY <1>1, <1>2, <2>1 DEF NoAccount
<1>5. CASE x = "transfer"
  <2>1. /\ Backing(x) \in {<<StandIn("payer"), "middle">>, NoAccount, <<StandIn("sendingFxp"), "middle">>}
        /\ Held(x) = "middle"
    BY <1>5 DEF Backing, Held
  <2> QED
    BY <1>1, <1>2, <1>5, <2>1
<1> QED
  BY <1>3, <1>4, <1>5 DEF Id, Conversion

(***************************************************************************)
(* What keeps a part of the invariant.                                     *)
(***************************************************************************)
LEMMA FundsStay ==
  ASSUME FundsInv, UNCHANGED <<where, accounts, reserved>>,
         \A x \in Id : state'[x] \in Early <=> state[x] \in Early,
         fxType'["sendingFx"] = fxType["sendingFx"] \/ state["transfer"] \in Early
  PROVE  FundsInv'
<1>1. ASSUME NEW x \in Id
      PROVE  (/\ reserved[x] \subseteq accounts
              /\ reserved[x] = IF state[x] \in Early THEN {} ELSE {Backing(x)} \ {NoAccount})'
  <2>1. CASE state[x] \in Early
    BY <1>1, <2>1 DEF FundsInv
  <2>2. CASE state[x] \notin Early
    <3>1. Backing(x)' = Backing(x)
      BY <2>2, BackingStays
    <3> QED
      BY <1>1, <2>2, <3>1 DEF FundsInv
  <2> QED
    BY <2>1, <2>2
<1> QED
  BY <1>1 DEF FundsInv

LEMMA BooksStay ==
  ASSUME BooksInv, UNCHANGED <<where, accounts, balance, reserved>>,
         \A x \in Id : reserved[x] = {} \/ (state'[x] \in Back <=> state[x] \in Back),
         state'["transfer"] = "COMMITTED" <=> state["transfer"] = "COMMITTED",
         UNCHANGED fxType \/ state["transfer"] # "COMMITTED"
  PROVE  BooksInv'
<1>1. state["transfer"] = "COMMITTED" => Paid' = Paid
  BY CommitStays
<1> HIDE DEF Paid
<1> QED
  BY <1>1 DEF BooksInv

LEMMA RightStays ==
  ASSUME TypeOK, UNCHANGED <<where, accounts>>, NEW m \in pending, Right(m),
         state'[m.id] = state[m.id],
         reserved'[m.id] = reserved[m.id],
         fxType'["sendingFx"] = fxType["sendingFx"] \/ state["transfer"] = "none",
         UNCHANGED fxType \/ state["transfer"] # "RECEIVED_FULFIL",
         \A ch \in m.changes : m.action = "abort" =>
           /\ ch.account \in reserved[ch.id] => ch.account \in reserved'[ch.id]
           /\ state[ch.id] \in Open /\ m.id = "transfer" => state'[ch.id] \in Open
  PROVE  Right(m)'
<1>1. m \in Message /\ m.id \in Id
  BY DEF TypeOK, Message
<1>2. CASE m.action = "prepare"
  <2>1. Backing(m.id)' = Backing(m.id)
    <3>1. m.id = "transfer" => state["transfer"] # "none"
      BY <1>2 DEF Right
    <3> QED
      BY <1>1, <3>1, BackingStays
  <2> QED
    BY <1>2, <2>1 DEF Right
<1>3. CASE m.action = "timeout"
  BY <1>3 DEF Right, ChangesOf
<1>4. CASE m.action = "commit"
  <2>1. UNCHANGED fxType
    BY <1>4 DEF Right
  <2> QED
    BY <1>4, <2>1, CommitStays DEF Right
<1>5. CASE m.action = "abort"
  BY <1>5 DEF Right
<1> QED
  BY <1>1, <1>2, <1>3, <1>4, <1>5 DEF Message

(* Messages leave and join: each that stays is still right, each that joins *)
(* is right and the only one of its request.                                *)
LEMMA MailStays ==
  ASSUME MailInv, NEW new, pending' = pending \union new,
         \A m \in pending : Right(m)', \A m \in new : Right(m)',
         \A m \in new : /\ \A n \in pending : m.id # n.id
                        /\ \A n \in new : m.id = n.id => m = n,
         \A x \in Id : state'[x] = "RESERVED_TIMEOUT" /\ reserved'[x] # {} =>
                         \/ state[x] = "RESERVED_TIMEOUT" /\ reserved[x] # {}
                         \/ \E m \in new : m.id = x
  PROVE  MailInv'
<1>1. \A m, n \in pending' : m.id = n.id => m = n
  BY DEF MailInv
<1>2. \A x \in Id : state'[x] = "RESERVED_TIMEOUT" /\ reserved'[x] # {} => \E m \in pending' : m.id = x
  BY DEF MailInv
<1>3. \A m \in pending' : Right(m)'
  OBVIOUS
<1> HIDE DEF Right
<1> QED
  BY <1>1, <1>2, <1>3 DEF MailInv

(* Where a message can be sent from.                                        *)
LEMMA RightState ==
  ASSUME NEW m \in pending, MailInv
  PROVE  /\ state[m.id] \in {"RECEIVED_PREPARE", "EXPIRED_PREPARED", "RESERVED_TIMEOUT",
                             "RECEIVED_FULFIL", "RECEIVED_ERROR"}
         /\ state[m.id] = "RECEIVED_FULFIL" => m.action = "commit" /\ m.id = "transfer"
         /\ state[m.id] = "RECEIVED_ERROR" => m.action = "abort"
BY DEF MailInv, Right

(***************************************************************************)
(* Prepare.                                                                *)
(***************************************************************************)
LEMMA PrepareIs ==
  ASSUME NEW x \in Id, Prepare(x)
  PROVE  /\ state[x] = "none" /\ InTurn(x) /\ Found(x)
         /\ UNCHANGED <<where, accounts, answer, reserved, balance, outOfTurn>>
         /\ \/ state' = [state EXCEPT ![x] = "INVALID"] /\ UNCHANGED <<fxType, pending>>
            \/ /\ state' = [state EXCEPT ![x] = "RECEIVED_PREPARE"]
               /\ fxType' = [c \in Conversion |->
                    IF c # x THEN fxType[c]
                    ELSE IF Exists("transfer") THEN "PAYEE_CONVERSION" ELSE "PAYER_CONVERSION"]
               /\ pending' = pending \union {Ask(x, a) : a \in PositionAccount(x)}
               /\ Storable(x)
               /\ x = "transfer" => RelatedFulfilled
               /\ (IF x = "transfer" THEN TransferAccounts ELSE FxAccounts(x)) \subseteq accounts
<1>1. PICK flaws \in {{}} \union {{f} : f \in Flaw} :
       IF ValidatePrepare(x, flaws)
       THEN /\ state' = [state EXCEPT ![x] = "RECEIVED_PREPARE"]
            /\ fxType' = [c \in Conversion |->
                 IF c # x THEN fxType[c]
                 ELSE IF Exists("transfer") THEN "PAYEE_CONVERSION" ELSE "PAYER_CONVERSION"]
            /\ pending' = pending \union {Ask(x, a) : a \in PositionAccount(x)}
       ELSE state' = [state EXCEPT ![x] = "INVALID"] /\ UNCHANGED <<fxType, pending>>
  BY Zenon DEF Prepare
<1>2. CASE ValidatePrepare(x, flaws)
  BY <1>1, <1>2, Zenon DEF Prepare, Exists, ValidatePrepare
<1>3. CASE ~ValidatePrepare(x, flaws)
  BY <1>1, <1>3, Zenon DEF Prepare, Exists
<1> QED
  BY <1>2, <1>3

(* What is asked for is backed by the account that is asked.                *)
LEMMA AskBacked ==
  ASSUME TypeOK, AllInv, NEW x \in Id, state[x] = "none", InTurn(x), NEW a \in PositionAccount(x)
  PROVE  a = Backing(x) /\ a \in accounts \union {NoAccount}
<1>1. CASE x = "sendingFx"
  BY <1>1 DEF PositionAccount, FxPositionAccount, InTurn, AccountOf, Backing, Initiator, Source
<1>2. CASE x = "receivingFx"
  BY <1>2 DEF PositionAccount, FxPositionAccount, InTurn, AccountOf, Backing, CounterParty, Target, Exists
<1>3. CASE x = "transfer"
  <2>1. fxType["receivingFx"] = "none"
    BY <1>3 DEF AllInv, WatchInv, Conversion, Early
  <2>2. a \in TransferPositionAccount
    BY <1>3 DEF PositionAccount
  <2>3. CASE fxType["sendingFx"] = "none"
    <3>1. Watched = {}
      BY <2>1, <2>3 DEF Watched, Conversion
    <3> QED
      BY <1>3, <2>2, <2>3, <3>1 DEF TransferPositionAccount, AccountOf, Backing, TransferRecord
  <2>4. CASE fxType["sendingFx"] # "none"
    <3>1. Watched = {"sendingFx"}
      BY <2>1, <2>4 DEF Watched, Conversion
    <3>2. a \in (IF IsSameProxy("sendingFx") THEN {NoAccount}
                 ELSE AccountOf(FxRecord("sendingFx").counterPartyFspName, FxRecord("sendingFx").targetCurrency))
      BY <2>2, <3>1 DEF TransferPositionAccount
    <3>3. /\ FxRecord("sendingFx").counterPartyFspName = StandIn("sendingFxp")
          /\ FxRecord("sendingFx").targetCurrency = "middle"
      BY DEF FxRecord, CounterParty, Target
    <3> QED
      BY <1>3, <2>4, <3>2, <3>3 DEF AccountOf, Backing
  <2> QED
    BY <2>3, <2>4
<1> QED
  BY <1>1, <1>2, <1>3 DEF Id, Conversion

LEMMA InvPrepare ==
  ASSUME TypeOK, AllInv, NEW x \in Id, Prepare(x)
  PROVE  AllInv'
<1> USE DEF Id, Conversion
<1>1. /\ state[x] = "none" /\ InTurn(x)
      /\ UNCHANGED <<where, accounts, answer, reserved, balance>>
  BY PrepareIs
<1>2. /\ WatchInv /\ PaceInv /\ AccountInv /\ FundsInv /\ MailInv /\ BooksInv
  BY DEF AllInv
<1>3. /\ x = "sendingFx" => state["transfer"] = "none" /\ state["receivingFx"] = "none"
      /\ x = "transfer" => state["receivingFx"] = "none"
      /\ x = "receivingFx" => state["transfer"] = "RESERVED" /\ where["payee"] = "scheme"
  BY <1>1, <1>2 DEF InTurn, Exists, WatchInv, Early
<1>4. /\ \A y \in Id : y # x => state'[y] = state[y]
      /\ state'[x] \in {"INVALID", "RECEIVED_PREPARE"}
  BY PrepareIs DEF TypeOK
<1>5. \A y \in Id : (state'[y] \in Early <=> state[y] \in Early) /\ (state'[y] \in Back <=> state[y] \in Back)
  BY <1>1, <1>4 DEF Early, Back
<1>6. fxType'["sendingFx"] = fxType["sendingFx"] \/ state["transfer"] = "none"
  BY <1>3, PrepareIs DEF TypeOK
<1>7. UNCHANGED fxType \/ state["transfer"] \in {"none", "RESERVED"}
  BY <1>3, PrepareIs
<1>8. FundsInv'
  BY <1>1, <1>2, <1>5, <1>6, FundsStay DEF Early
<1>9. BooksInv'
  BY <1>1, <1>2, <1>3, <1>4, <1>5, <1>7, BooksStay
<1>10. ASSUME NEW m \in pending PROVE Right(m)' /\ m.id # x
  <2>1. m.id # x /\ m.id \in Id /\ Right(m)
    BY <1>1, <1>2, RightState DEF MailInv, TypeOK, Message
  <2>2. ASSUME NEW ch \in m.changes
        PROVE  state[ch.id] \in Open /\ m.id = "transfer" => state'[ch.id] \in Open
    <3>1. ch.id \in Id
      BY DEF TypeOK, Message, Change
    <3> QED
      BY <1>1, <1>4, <3>1 DEF Open
  <2> QED
    BY <1>1, <1>4, <1>6, <1>7, <2>1, <2>2, RightStays
<1>11. CASE state' = [state EXCEPT ![x] = "INVALID"] /\ UNCHANGED <<fxType, pending>>
  <2>1. state'[x] = "INVALID"
    BY <1>11 DEF TypeOK
  <2>2. WatchInv'
    BY <1>1, <1>2, <1>3, <1>4, <1>11, <2>1 DEF WatchInv, Early
  <2>3. Watched' = Watched /\ Begun' = Begun
    BY <1>1, <1>4, <1>11, <2>1 DEF Watched, Begun
  <2>4. x \notin Watched
    BY <1>1, <1>2 DEF Watched, WatchInv
  <2>5. PaceInv'
    BY <1>1, <1>2, <1>3, <1>4, <1>11, <2>1, <2>3, <2>4 DEF PaceInv, Watched, Early, Open
  <2>6. AccountInv'
    BY <1>1, <1>2, <1>11, <2>3, PlacesStay DEF AccountInv
  <2>7. MailInv'
    <3> DEFINE new == {}
    <3>1. pending' = pending \union new /\ \A m \in new : FALSE
      BY <1>11
    <3>2. \A y \in Id : state'[y] = "RESERVED_TIMEOUT" /\ reserved'[y] # {} =>
                           state[y] = "RESERVED_TIMEOUT" /\ reserved[y] # {}
      BY <1>1, <1>4
    <3> HIDE DEF new
    <3> QED
      BY <1>2, <1>10, <3>1, <3>2, MailStays
  <2> QED
    BY <1>8, <1>9, <2>2, <2>5, <2>6, <2>7 DEF AllInv
<1>12. CASE /\ state' = [state EXCEPT ![x] = "RECEIVED_PREPARE"]
            /\ fxType' = [c \in Conversion |->
                 IF c # x THEN fxType[c]
                 ELSE IF Exists("transfer") THEN "PAYEE_CONVERSION" ELSE "PAYER_CONVERSION"]
            /\ pending' = pending \union {Ask(x, a) : a \in PositionAccount(x)}
            /\ Storable(x)
            /\ x = "transfer" => RelatedFulfilled
            /\ (IF x = "transfer" THEN TransferAccounts ELSE FxAccounts(x)) \subseteq accounts
  <2>1. state'[x] = "RECEIVED_PREPARE"
    BY <1>12 DEF TypeOK
  <2>2. /\ \A c \in Conversion : c # x => fxType'[c] = fxType[c]
        /\ x = "sendingFx" => fxType'[x] = "PAYER_CONVERSION"
        /\ x = "receivingFx" => fxType'[x] = "PAYEE_CONVERSION"
    BY <1>3, <1>12 DEF Exists
  <2>3. WatchInv'
    BY <1>1, <1>2, <1>3, <1>4, <2>1, <2>2 DEF WatchInv, Early
  <2>4. PaceInv'
    <3>1. x = "transfer" => (fxType["sendingFx"] # "none" => state["sendingFx"] = "RECEIVED_FULFIL_DEPENDENT")
      BY <1>12 DEF RelatedFulfilled, Watched
    <3>2. Watched' \subseteq Watched \union {x}
      BY <2>2 DEF Watched
    <3> QED
      BY <1>1, <1>2, <1>3, <1>4, <2>1, <2>2, <3>1, <3>2 DEF PaceInv, Early, Open, Begun
  <2>5. AccountInv'
    <3>1. Watched' \subseteq Watched \union {x}
      BY <2>2 DEF Watched
    <3>2. x # "transfer" => ProviderAccounts(x) \subseteq accounts
      BY <1>12 DEF Storable
    <3>3. x = "receivingFx" => <<StandIn("payee"), "target">> \in accounts
      BY <1>3, <1>12 DEF FxAccounts, Exists, Initiator, Target
    <3>4. x = "transfer" /\ ~IsProxied("payee") => <<"payee", "middle">> \in accounts
      BY PrepareIs DEF Found, InScheme, Validated, CounterParty
    <3>5. UNCHANGED accounts
      BY <1>1
    <3>6. \A c \in Watched' : ProviderAccounts(c)' \subseteq accounts'
      BY <1>1, <1>2, <3>1, <3>2, <3>5, PlacesStay DEF AccountInv, Watched
    <3>7. fxType'["receivingFx"] # "none" => <<StandIn("payee")', "target">> \in accounts'
      BY <1>1, <1>2, <2>2, <3>3, <3>5, PlacesStay DEF AccountInv
    <3>8. Begun' /\ ~IsProxied("payee")' => <<"payee", "middle">> \in accounts'
      BY <1>1, <1>2, <1>3, <1>4, <2>2, <3>4, <3>5, PlacesStay DEF AccountInv, Begun
    <3> QED
      BY <3>6, <3>7, <3>8 DEF AccountInv
  <2>6. MailInv'
    <3> DEFINE new == {Ask(x, a) : a \in PositionAccount(x)}
    <3>1. ASSUME NEW m \in new PROVE Right(m)' /\ m.id = x /\ m = Ask(x, Backing(x))
      <4>1. PICK a \in PositionAccount(x) : m = Ask(x, a)
        OBVIOUS
      <4>2. a = Backing(x) /\ a \in accounts \union {NoAccount}
        BY <1>1, AskBacked
      <4>3. Backing(x)' = Backing(x)
        BY <1>1, <2>2, BackingStays
      <4>4. m.id = x /\ m.action = "prepare" /\ m.account = a
        BY <4>1 DEF Ask
      <4> QED
        BY <1>1, <2>1, <4>1, <4>2, <4>3, <4>4 DEF Right
    <3>2. pending' = pending \union new
      BY <1>12
    <3> HIDE DEF new
    <3> QED
      BY <1>1, <1>2, <1>4, <1>10, <2>1, <3>1, <3>2, MailStays
  <2> QED
    BY <1>8, <1>9, <2>3, <2>4, <2>5, <2>6 DEF AllInv
<1> QED
  BY <1>11, <1>12, PrepareIs

(***************************************************************************)
(* Forwarding and answers: one request, which has been reserved, goes on.   *)
(***************************************************************************)
LEMMA InvAnswered ==
  ASSUME TypeOK, AllInv, NEW x \in Id, Answerable(x), NEW s, state' = [state EXCEPT ![x] = s],
         UNCHANGED <<where, accounts, fxType, reserved, balance>>,
         \/ s = "RESERVED_FORWARDED"
         \/ s = "RECEIVED_FULFIL_DEPENDENT" /\ x # "transfer"
         \/ s = "RECEIVED_ERROR" /\ x # "receivingFx"
         \/ s = "RECEIVED_FULFIL" /\ x = "transfer" /\ Ready,
         NEW new, pending' = pending \union new,
         \A m \in new : Right(m)' /\ m.id = x, \A m, n \in new : m = n
  PROVE  AllInv'
<1> USE DEF Id, Conversion
<1>1. /\ WatchInv /\ PaceInv /\ AccountInv /\ FundsInv /\ MailInv /\ BooksInv
  BY DEF AllInv
<1>2. state[x] \in {"RESERVED", "RESERVED_FORWARDED"}
  BY DEF Answerable
<1>3. state'[x] = s /\ \A y \in Id : y # x => state'[y] = state[y]
  BY DEF TypeOK
<1>4. x = "sendingFx" => ~Begun /\ state["receivingFx"] = "none"
  <2>1. x = "sendingFx" => fxType["sendingFx"] # "none"
    BY <1>1, <1>2 DEF WatchInv
  <2> QED
    BY <1>1, <1>2, <2>1 DEF PaceInv, WatchInv, Begun, Early
<1>5. \A y \in Id : (state'[y] \in Early <=> state[y] \in Early) /\ (state'[y] \in Back <=> state[y] \in Back)
  BY <1>2, <1>3 DEF Early, Back
<1>6. Watched' = Watched /\ Begun' = Begun
  BY <1>2, <1>3 DEF Watched, Begun
<1>7. WatchInv'
  BY <1>1, <1>2, <1>3 DEF WatchInv, Early
<1>8. PaceInv'
  <2>1. s = "RECEIVED_FULFIL" => \A c \in Watched : state[c] = "RECEIVED_FULFIL_DEPENDENT"
    <3>1. fxType["receivingFx"] # "none" => fxType["receivingFx"] = "PAYEE_CONVERSION"
      BY <1>1 DEF WatchInv
    <3>2. s = "RECEIVED_FULFIL" /\ fxType["receivingFx"] # "none" =>
            state["receivingFx"] = "RECEIVED_FULFIL_DEPENDENT"
      BY <3>1 DEF Ready, OfType
    <3>3. s = "RECEIVED_FULFIL" /\ fxType["sendingFx"] # "none" =>
            state["sendingFx"] = "RECEIVED_FULFIL_DEPENDENT"
      BY <1>1, <1>2 DEF PaceInv
    <3> QED
      BY <3>2, <3>3 DEF Watched
  <2> QED
    BY <1>1, <1>2, <1>3, <1>4, <1>6, <2>1 DEF PaceInv, Early, Open, Begun, Watched
<1>9. AccountInv'
  BY <1>1, <1>6, PlacesStay DEF AccountInv
<1>10. FundsInv'
  BY <1>1, <1>5, FundsStay
<1>11. BooksInv'
  BY <1>1, <1>2, <1>3, <1>5, BooksStay
<1>12. ASSUME NEW m \in pending PROVE Right(m)' /\ m.id # x
  <2>1. m.id # x /\ m.id \in Id /\ Right(m)
    BY <1>1, <1>2, RightState DEF MailInv, TypeOK, Message
  <2>2. ASSUME NEW ch \in m.changes, m.action = "abort", m.id = "transfer"
        PROVE  state[ch.id] \in Open => state'[ch.id] \in Open
    <3>1. ch.id \in Id
      BY DEF TypeOK, Message, Change
    <3>2. Begun /\ x # "transfer"
      BY <2>1, <2>2 DEF Right, Begun
    <3> QED
      BY <1>2, <1>3, <1>4, <3>1, <3>2 DEF Open
  <2> QED
    BY <1>2, <1>3, <2>1, <2>2, RightStays
<1>13. MailInv'
  <2>1. \A y \in Id : state'[y] = "RESERVED_TIMEOUT" /\ reserved'[y] # {} =>
                         state[y] = "RESERVED_TIMEOUT" /\ reserved[y] # {}
    BY <1>3
  <2> QED
    BY <1>1, <1>12, <2>1, MailStays
<1> QED
  BY <1>7, <1>8, <1>9, <1>10, <1>11, <1>13 DEF AllInv

LEMMA InvForward ==
  ASSUME TypeOK, AllInv, NEW x \in Id, Forward(x)
  PROVE  AllInv'
<1> DEFINE new == {}
<1>1. pending' = pending \union new /\ \A m \in new : FALSE
  BY DEF Forward
<1>2. /\ Answerable(x) /\ state' = [state EXCEPT ![x] = "RESERVED_FORWARDED"]
      /\ UNCHANGED <<where, accounts, fxType, reserved, balance>>
  BY DEF Forward, Answerable
<1> HIDE DEF new
<1> QED
  BY <1>1, <1>2, InvAnswered

(* What a settlement is: nothing, or one message.                           *)
LEMMA SettlementIs ==
  ASSUME NEW x, NEW action, NEW changes, NEW unmoved
  PROVE  /\ \A m \in Settlement(x, action, changes, unmoved) :
              /\ m.id = x /\ m.action = action
              /\ m.changes = changes /\ m.unmoved = unmoved
         /\ \A m, n \in Settlement(x, action, changes, unmoved) : m = n
         /\ changes # {} => Settlement(x, action, changes, unmoved) # {}
<1> DEFINE m == [id |-> x, action |-> action, account |-> NoAccount, changes |-> changes, unmoved |-> unmoved]
<1>1. m.id = x /\ m.action = action /\ m.changes = changes /\ m.unmoved = unmoved
  OBVIOUS
<1>2. Settlement(x, action, changes, unmoved) = IF changes = {} THEN {} ELSE {m}
  BY DEF Settlement
<1> HIDE DEF m
<1> QED
  BY <1>1, <1>2

LEMMA ReservedHas ==
  ASSUME NEW xs, NEW ch \in Reserved(xs)
  PROVE  ch.id \in xs /\ ch.account \in reserved[ch.id] /\ ch = [id |-> ch.id, account |-> ch.account]
BY DEF Reserved, ChangesOf

LEMMA InvFxAccept ==
  ASSUME TypeOK, AllInv, NEW c \in Conversion, FxAccept(c)
  PROVE  AllInv'
<1> DEFINE new == {}
<1>1. pending' = pending \union new /\ \A m \in new : FALSE
  BY DEF FxAccept, Store, Save
<1>2. /\ Answerable(c) /\ state' = [state EXCEPT ![c] = "RECEIVED_FULFIL_DEPENDENT"]
      /\ UNCHANGED <<where, accounts, fxType, reserved, balance>>
  BY DEF FxAccept, Store, Save
<1>3. c \in Id /\ c # "transfer"
  BY DEF Id, Conversion
<1> HIDE DEF new
<1> QED
  BY <1>1, <1>2, <1>3, InvAnswered

(* A message that gives back what is reserved.                              *)
LEMMA AbortRight ==
  ASSUME TypeOK, UNCHANGED reserved, NEW x \in Id, state'[x] = "RECEIVED_ERROR",
         NEW changes, NEW unmoved, NEW m \in Settlement(x, "abort", changes, unmoved),
         \A ch \in changes : ch.account \in reserved[ch.id],
         \A ch \in changes : ch.id = x \/ (x = "transfer" /\ state'[ch.id] \in Open),
         unmoved # {} => x = "transfer" /\ reserved["transfer"] = {}
  PROVE  Right(m)' /\ m.id = x
<1>1. m.id = x /\ m.action = "abort" /\ m.changes = changes /\ m.unmoved = unmoved
  BY SettlementIs
<1> QED
  BY <1>1 DEF Right

(* The provider of the payer's conversion refuses before there is a         *)
(* transfer: its conversion alone is given back.                            *)
LEMMA InvFxRefuse ==
  ASSUME TypeOK, AllInv, NEW c \in Conversion, FxRefuse(c), Undisputed'
  PROVE  AllInv'
<1>1. PICK before \in SUBSET (Conversions \ {c}) :
        Store(c, "refuse", "RECEIVED_ERROR",
              Settlement(c, "abort", Reserved(before \union {c}), {}))
  BY DEF FxRefuse
<1>2. c = "sendingFx"
  BY <1>1 DEF Store, Save, Undisputed, Conversion, TypeOK, Id
<1>3. state["receivingFx"] = "none"
  <2>1. state["sendingFx"] \in {"RESERVED", "RESERVED_FORWARDED"}
    BY <1>1, <1>2 DEF Store, Answerable
  <2>2. ~Begun
    BY <2>1 DEF AllInv, PaceInv, WatchInv, Conversion
  <2> QED
    BY <2>2 DEF AllInv, WatchInv, Begun, Early
<1>4. before = {}
  BY <1>2, <1>3 DEF Conversions, Conversion, Exists
<1> DEFINE changes == Reserved({c})
           new == Settlement(c, "abort", changes, {})
<1>5. /\ pending' = pending \union new
      /\ Answerable(c) /\ state' = [state EXCEPT ![c] = "RECEIVED_ERROR"]
      /\ UNCHANGED <<where, accounts, fxType, reserved, balance>>
  BY <1>1, <1>4 DEF Store, Save
<1>6. c \in Id /\ state'[c] = "RECEIVED_ERROR"
  BY <1>5 DEF Id, TypeOK
<1>7. \A m \in new : Right(m)' /\ m.id = c
  <2>1. \A ch \in changes : ch.account \in reserved[ch.id] /\ ch.id = c
    BY ReservedHas
  <2> HIDE DEF changes
  <2> QED
    BY <1>5, <1>6, <2>1, AbortRight
<1>8. \A m, n \in new : m = n
  BY SettlementIs
<1> HIDE DEF new
<1> QED
  BY <1>2, <1>5, <1>6, <1>7, <1>8, InvAnswered

LEMMA InvAccept ==
  ASSUME TypeOK, AllInv, Accept
  PROVE  AllInv'
<1> DEFINE new == Settlement("transfer", "commit", CommitChanges, CommitUnmoved)
<1>1. /\ pending' = pending \union new
      /\ Answerable("transfer") /\ state' = [state EXCEPT !["transfer"] = "RECEIVED_FULFIL"]
      /\ UNCHANGED <<where, accounts, fxType, reserved, balance>> /\ Ready
  BY DEF Accept, Store, Save
<1>2. "transfer" \in Id /\ state'["transfer"] = "RECEIVED_FULFIL"
  BY <1>1 DEF Id, TypeOK
<1>3. \A m \in new : Right(m)' /\ m.id = "transfer"
  <2> TAKE m \in new
  <2>1. /\ m.id = "transfer" /\ m.action = "commit"
        /\ m.changes = CommitChanges /\ m.unmoved = CommitUnmoved
    BY SettlementIs
  <2> QED
    BY <1>1, <1>2, <2>1, CommitStays DEF Right
<1>4. \A m, n \in new : m = n
  BY SettlementIs
<1> HIDE DEF new
<1> QED
  BY <1>1, <1>2, <1>3, <1>4, InvAnswered

(* The payee refuses: what any conversion has reserved by then is open.     *)
LEMMA InvRefuse ==
  ASSUME TypeOK, AllInv, Refuse
  PROVE  AllInv'
<1> DEFINE changes == Reserved(Conversions \union {"transfer"})
           new == Settlement("transfer", "abort", changes, AbortUnmoved)
<1>1. /\ pending' = pending \union new
      /\ Answerable("transfer") /\ state' = [state EXCEPT !["transfer"] = "RECEIVED_ERROR"]
      /\ UNCHANGED <<where, accounts, fxType, reserved, balance>>
  BY DEF Refuse, GiveBack, Store, Save
<1>2. "transfer" \in Id /\ state'["transfer"] = "RECEIVED_ERROR"
  BY <1>1 DEF Id, TypeOK
<1>3. \A c \in Conversion : state'[c] = state[c] /\ (reserved[c] # {} => state[c] \in Open)
  <2> TAKE c \in Conversion
  <2>1. state'[c] = state[c] /\ c \in Id
    BY <1>1 DEF Id, Conversion, TypeOK
  <2>2. reserved[c] # {} => state[c] \notin Early
    BY <2>1 DEF AllInv, FundsInv
  <2>3. state["transfer"] \in {"RESERVED", "RESERVED_FORWARDED"}
    BY <1>1 DEF Answerable
  <2> QED
    BY <2>1, <2>2, <2>3 DEF AllInv, PaceInv
<1>4. \A m \in new : Right(m)' /\ m.id = "transfer"
  <2>1. \A ch \in changes : ch.account \in reserved[ch.id] /\ ch.id \in Conversions \union {"transfer"}
    BY ReservedHas
  <2>2. \A ch \in changes : ch.id = "transfer" \/ state'[ch.id] \in Open
    BY <1>3, <2>1 DEF Conversions
  <2>3. AbortUnmoved # {} => reserved["transfer"] = {}
    BY DEF AbortUnmoved
  <2> HIDE DEF changes
  <2> QED
    BY <1>1, <1>2, <2>1, <2>2, <2>3, AbortRight
<1>5. \A m, n \in new : m = n
  BY SettlementIs
<1> HIDE DEF new
<1> QED
  BY <1>1, <1>2, <1>4, <1>5, InvAnswered

(* Without a conversion the payer has reserved what the transfer reserves.  *)
LEMMA InvMisanswer ==
  ASSUME TypeOK, AllInv, Misanswer
  PROVE  AllInv'
<1> DEFINE changes == IF Watched = {} THEN ChangesOf("transfer", AccountOf(TransferRecord.payerFsp, "middle")) ELSE {}
           new == Settlement("transfer", "abort", changes, {})
<1>1. /\ pending' = pending \union new
      /\ Answerable("transfer") /\ state' = [state EXCEPT !["transfer"] = "RECEIVED_ERROR"]
      /\ UNCHANGED <<where, accounts, fxType, reserved, balance>>
  BY DEF Misanswer, GiveBackPayer, Store, Save
<1>2. "transfer" \in Id /\ state'["transfer"] = "RECEIVED_ERROR"
  BY <1>1 DEF Id, TypeOK
<1>3. \A m \in new : Right(m)' /\ m.id = "transfer"
  <2>1. \A ch \in changes : ch.account \in reserved[ch.id] /\ ch.id = "transfer"
    <3> TAKE ch \in changes
    <3>1. /\ Watched = {} /\ ch.id = "transfer"
          /\ ch.account = <<StandIn("payer"), "middle">>
      BY DEF ChangesOf, AccountOf, TransferRecord
    <3>2. fxType["sendingFx"] = "none"
      BY <3>1 DEF Watched, Conversion
    <3>3. Backing("transfer") = <<StandIn("payer"), "middle">> /\ Backing("transfer") # NoAccount
      BY <3>2 DEF Backing, NoAccount
    <3>4. state["transfer"] \notin Early
      BY <1>1 DEF Answerable, Early
    <3> HIDE DEF changes
    <3> QED
      BY <1>2, <3>1, <3>3, <3>4 DEF AllInv, FundsInv
  <2> HIDE DEF changes
  <2> QED
    BY <1>1, <1>2, <2>1, AbortRight
<1>4. \A m, n \in new : m = n
  BY SettlementIs
<1> HIDE DEF new
<1> QED
  BY <1>1, <1>2, <1>3, <1>4, InvAnswered

(***************************************************************************)
(* The position handler reserves, or rejects.                              *)
(***************************************************************************)
LEMMA MailLess ==
  ASSUME MailInv, NEW m \in pending, pending' = pending \ {m},
         \A n \in pending : n # m => Right(n)',
         \A x \in Id : state'[x] = "RESERVED_TIMEOUT" /\ reserved'[x] # {} =>
                         x # m.id /\ state[x] = "RESERVED_TIMEOUT" /\ reserved[x] # {}
  PROVE  MailInv'
<1>1. \A n, o \in pending' : n.id = o.id => n = o
  BY DEF MailInv
<1>2. \A x \in Id : state'[x] = "RESERVED_TIMEOUT" /\ reserved'[x] # {} => \E n \in pending' : n.id = x
  BY DEF MailInv
<1>3. \A n \in pending' : Right(n)'
  OBVIOUS
<1> HIDE DEF Right
<1> QED
  BY <1>1, <1>2, <1>3 DEF MailInv

LEMMA InvRejectFunds ==
  ASSUME TypeOK, AllInv, NEW m \in pending, RejectFunds(m)
  PROVE  AllInv'
<1> USE DEF Id, Conversion
<1> DEFINE x == m.id
<1>1. /\ WatchInv /\ PaceInv /\ AccountInv /\ FundsInv /\ MailInv /\ BooksInv
  BY DEF AllInv
<1>2. /\ pending' = pending \ {m} /\ state' = [state EXCEPT ![x] = "ABORTED_REJECTED"]
      /\ UNCHANGED <<where, accounts, fxType, answer, reserved, balance>>
  BY DEF RejectFunds, Consume
<1>3. x \in Id /\ Right(m)
  BY <1>1 DEF TypeOK, Message, MailInv
<1>4. state[x] \in {"RECEIVED_PREPARE", "EXPIRED_PREPARED"}
  BY <1>3 DEF RejectFunds, Right
<1> HIDE DEF x
<1>5. state'[x] = "ABORTED_REJECTED" /\ \A y \in Id : y # x => state'[y] = state[y]
  BY <1>2, <1>3 DEF TypeOK
<1>6. \A y \in Id : (state'[y] \in Early <=> state[y] \in Early) /\ (state'[y] \in Back <=> state[y] \in Back)
  BY <1>4, <1>5 DEF Early, Back
<1>7. Watched' = Watched /\ Begun' = Begun
  BY <1>2, <1>4, <1>5 DEF Watched, Begun
<1>8. WatchInv'
  BY <1>1, <1>2, <1>3, <1>4, <1>5 DEF WatchInv, Early
<1>9. PaceInv'
  BY <1>1, <1>2, <1>3, <1>4, <1>5, <1>7 DEF PaceInv, WatchInv, Watched, Begun, Early, Open
<1>10. AccountInv'
  BY <1>1, <1>2, <1>7, PlacesStay DEF AccountInv
<1>11. FundsInv'
  BY <1>1, <1>2, <1>6, FundsStay
<1>12. BooksInv'
  BY <1>1, <1>2, <1>4, <1>5, <1>6, BooksStay
<1>13. ASSUME NEW n \in pending, n # m PROVE Right(n)'
  <2>1. n.id # x /\ n.id \in Id /\ Right(n)
    BY <1>1, <1>13 DEF MailInv, TypeOK, Message, x
  <2>2. ASSUME NEW ch \in n.changes PROVE state[ch.id] \in Open => state'[ch.id] \in Open
    <3>1. ch.id \in Id
      BY DEF TypeOK, Message, Change
    <3> QED
      BY <1>4, <1>5, <3>1 DEF Open
  <2> QED
    BY <1>2, <1>4, <1>5, <2>1, <2>2, RightStays
<1>14. MailInv'
  <2>1. \A y \in Id : state'[y] = "RESERVED_TIMEOUT" /\ reserved'[y] # {} =>
                         y # x /\ state[y] = "RESERVED_TIMEOUT" /\ reserved[y] # {}
    BY <1>2, <1>5
  <2> QED
    BY <1>1, <1>2, <1>13, <2>1, MailLess DEF x
<1> QED
  BY <1>8, <1>9, <1>10, <1>11, <1>12, <1>14 DEF AllInv

LEMMA InvReserveFunds ==
  ASSUME TypeOK, AllInv, NEW m \in pending, ReserveFunds(m)
  PROVE  AllInv'
<1> USE DEF Id, Conversion
<1> DEFINE x == m.id
<1>1. /\ WatchInv /\ PaceInv /\ AccountInv /\ FundsInv /\ MailInv /\ BooksInv
  BY DEF AllInv
<1>2. /\ pending' = pending \ {m} /\ state' = [state EXCEPT ![x] = "RESERVED"]
      /\ UNCHANGED <<where, accounts, fxType, answer>>
      /\ m.action = "prepare"
      /\ state[x] = "RECEIVED_PREPARE"
  BY DEF ReserveFunds, Consume, Awaited
<1>3. x \in Id /\ m.account = Backing(x) /\ m.account \in accounts \union {NoAccount} /\ m \in Message
  BY <1>1, <1>2 DEF TypeOK, Message, MailInv, Right
<1>4. reserved[x] = {}
  BY <1>1, <1>2, <1>3 DEF FundsInv, Early
<1>5. /\ reserved' = [reserved EXCEPT ![x] = {Backing(x)} \ {NoAccount}]
      /\ IF Backing(x) = NoAccount THEN UNCHANGED balance
         ELSE balance' = [balance EXCEPT ![Backing(x)] = @ + 1]
  <2>1. CASE m.account = NoAccount
    BY <1>3, <1>4, <2>1 DEF ReserveFunds, TypeOK
  <2>2. CASE m.account # NoAccount
    BY <1>3, <2>2 DEF ReserveFunds
  <2> QED
    BY <2>1, <2>2
<1> HIDE DEF x
<1>6. state'[x] = "RESERVED" /\ \A y \in Id : y # x => state'[y] = state[y]
  BY <1>2, <1>3 DEF TypeOK
<1>7. Watched' = Watched /\ Begun' = Begun
  BY <1>2, <1>6 DEF Watched, Begun
<1>8. WatchInv'
  BY <1>1, <1>2, <1>3, <1>6 DEF WatchInv, Early
<1>9. PaceInv'
  <2>1. x = "transfer" => state["receivingFx"] = "none"
    BY <1>1, <1>2 DEF WatchInv, Early
  <2>2. x = "transfer" => state["sendingFx"] \in Early \union Open
    BY <1>1, <1>2 DEF WatchInv, PaceInv, Early, Open
  <2> QED
    BY <1>1, <1>2, <1>3, <1>6, <1>7, <2>1, <2>2 DEF PaceInv, WatchInv, Watched, Begun, Early, Open
<1>10. AccountInv'
  BY <1>1, <1>2, <1>7, PlacesStay DEF AccountInv
<1>11. \A y \in Id : Backing(y)' = Backing(y)
  BY <1>2, BackingStays
<1>12. reserved'[x] = {Backing(x)} \ {NoAccount} /\ \A y \in Id : y # x => reserved'[y] = reserved[y]
  BY <1>3, <1>5 DEF TypeOK
<1>13. FundsInv'
  <2>1. accounts' = accounts /\ {Backing(x)} \ {NoAccount} \subseteq accounts
    BY <1>2, <1>3
  <2> HIDE DEF Backing
  <2> QED
    BY <1>1, <1>6, <1>11, <1>12, <2>1 DEF FundsInv, Early
<1>14. BooksInv'
  <2>1. Paid' = Paid
    BY <1>2, CommitStays
  <2>2. state'["transfer"] = "COMMITTED" <=> state["transfer"] = "COMMITTED"
    BY <1>2, <1>6
  <2>3. ASSUME NEW y \in Id, NEW p \in Participant, y # x
        PROVE  balance'[<<p, Held(y)>>] = balance[<<p, Held(y)>>]
    <3>1. <<p, Held(y)>> # Backing(x) \/ Backing(x) = NoAccount
      BY <1>3, <2>3, HeldApart
    <3>2. <<p, Held(y)>> \in Account
      BY HeldApart DEF Account
    <3> QED
      BY <1>5, <3>1, <3>2 DEF TypeOK
  <2>4. ASSUME NEW p \in Participant
        PROVE  balance'[<<p, Held(x)>>] = balance[<<p, Held(x)>>] + (IF <<p, Held(x)>> \in reserved'[x] THEN 1 ELSE 0)
    <3>1. <<p, Held(x)>> \in Account
      BY <1>3, HeldApart DEF Account
    <3>2. balance[<<p, Held(x)>>] \in Int
      BY <3>1 DEF TypeOK
    <3>3. Backing(x) = NoAccount => <<p, Held(x)>> # Backing(x)
      BY <1>3, HeldApart DEF NoAccount, Currency
    <3> QED
      BY <1>5, <1>12, <3>1, <3>2, <3>3 DEF TypeOK
  <2>5. ASSUME NEW y \in Id, NEW p \in Participant
        PROVE  balance'[<<p, Held(y)>>] =
                 (IF <<p, Held(y)>> \in reserved'[y] /\ state'[y] \notin Back THEN 1 ELSE 0)
                 - (IF state'["transfer"] = "COMMITTED" /\ <<p, Held(y)>> \in Paid' THEN 1 ELSE 0)
    <3>1. balance[<<p, Held(y)>>] =
            (IF <<p, Held(y)>> \in reserved[y] /\ state[y] \notin Back THEN 1 ELSE 0)
            - (IF state["transfer"] = "COMMITTED" /\ <<p, Held(y)>> \in Paid THEN 1 ELSE 0)
      BY <1>1 DEF BooksInv
    <3>2. CASE y # x
      BY <1>6, <1>12, <2>1, <2>2, <2>3, <3>1, <3>2
    <3>3. CASE y = x
      <4>1. balance[<<p, Held(x)>>] = 0 - (IF state["transfer"] = "COMMITTED" /\ <<p, Held(x)>> \in Paid THEN 1 ELSE 0)
        BY <1>4, <3>1, <3>3
      <4>2. state'[x] \notin Back
        BY <1>6 DEF Back
      <4> QED
        BY <2>1, <2>2, <2>4, <3>3, <4>1, <4>2
    <3> QED
      BY <3>2, <3>3
  <2>6. \A y : Held(y)' = Held(y)
    BY DEF Held
  <2> QED
    BY <2>5, <2>6 DEF BooksInv
<1>15. ASSUME NEW n \in pending, n # m PROVE Right(n)'
  <2>1. n.id # x /\ n.id \in Id /\ Right(n)
    BY <1>1, <1>15 DEF MailInv, TypeOK, Message, x
  <2>2. ASSUME NEW ch \in n.changes
        PROVE  /\ state[ch.id] \in Open => state'[ch.id] \in Open
               /\ ch.account \in reserved[ch.id] => ch.account \in reserved'[ch.id]
    <3>1. ch.id \in Id
      BY DEF TypeOK, Message, Change
    <3> QED
      BY <1>2, <1>4, <1>6, <1>12, <3>1 DEF Open
  <2> QED
    BY <1>2, <1>6, <1>12, <2>1, <2>2, RightStays
<1>16. MailInv'
  <2>1. \A y \in Id : state'[y] = "RESERVED_TIMEOUT" /\ reserved'[y] # {} =>
                         y # x /\ state[y] = "RESERVED_TIMEOUT" /\ reserved[y] # {}
    BY <1>6, <1>12
  <2> QED
    BY <1>1, <1>2, <1>15, <2>1, MailLess DEF x
<1> QED
  BY <1>8, <1>9, <1>10, <1>13, <1>14, <1>16 DEF AllInv

(***************************************************************************)
(* The date of the payment passes.                                         *)
(***************************************************************************)
LEMMA InvSweep ==
  ASSUME TypeOK, AllInv, Sweep
  PROVE  AllInv'
<1> USE DEF Id, Conversion
<1>1. /\ WatchInv /\ PaceInv /\ AccountInv /\ FundsInv /\ MailInv /\ BooksInv
  BY DEF AllInv
<1> DEFINE swept == {y \in Id : TimedOut(state[y]) # state[y]}
           new   == UNION {Settlement(y, "timeout", Reserved({y}), {}) :
                             y \in {z \in swept : state[z] # "RECEIVED_PREPARE"}}
<1>2. /\ pending' = pending \union new
      /\ UNCHANGED <<where, accounts, fxType, answer, reserved, balance>>
      /\ state["transfer"] \notin {"RESERVED_FORWARDED", "RECEIVED_FULFIL", "RECEIVED_ERROR"}
  BY DEF Sweep, MayExpire
<1>3. \A y \in Id :
        \/ state[y] = "RECEIVED_PREPARE" /\ state'[y] = "EXPIRED_PREPARED"
        \/ state[y] \in {"RESERVED", "RECEIVED_FULFIL_DEPENDENT"} /\ state'[y] = "RESERVED_TIMEOUT"
        \/ /\ state[y] \notin {"RECEIVED_PREPARE", "RESERVED", "RECEIVED_FULFIL_DEPENDENT"}
           /\ state'[y] = state[y] /\ y \notin swept
  BY DEF Sweep, TimedOut
<1>4. \A y \in Id : (state'[y] \in Early <=> state[y] \in Early) /\ (state'[y] \in Back <=> state[y] \in Back)
  BY <1>3 DEF Early, Back
<1>5. ASSUME NEW m \in new
      PROVE  /\ m.id \in swept /\ state[m.id] # "RECEIVED_PREPARE"
             /\ m \in Settlement(m.id, "timeout", Reserved({m.id}), {})
  <2>1. PICK y \in {z \in swept : state[z] # "RECEIVED_PREPARE"} :
          m \in Settlement(y, "timeout", Reserved({y}), {})
    OBVIOUS
  <2>2. m.id = y
    BY <2>1, SettlementIs
  <2> QED
    BY <2>1, <2>2
<1>6. \A y \in Id : state[y] \in {"RESERVED", "RECEIVED_FULFIL_DEPENDENT"} =>
                      Settlement(y, "timeout", Reserved({y}), {}) \subseteq new
  BY DEF TimedOut
<1>7. swept \subseteq Id
  OBVIOUS
<1> HIDE DEF swept, new
<1>8. Watched' = Watched /\ Begun' = Begun
  BY <1>2, <1>3 DEF Watched, Begun
<1>9. WatchInv'
  BY <1>1, <1>2, <1>3 DEF WatchInv, Early
<1>10. PaceInv'
  BY <1>1, <1>2, <1>3, <1>8 DEF PaceInv, Watched, Begun, Early, Open
<1>11. AccountInv'
  BY <1>1, <1>2, <1>8, PlacesStay DEF AccountInv
<1>12. FundsInv'
  BY <1>1, <1>2, <1>4, FundsStay
<1>13. BooksInv'
  <2>1. state'["transfer"] = "COMMITTED" <=> state["transfer"] = "COMMITTED"
    BY <1>3
  <2> QED
    BY <1>1, <1>2, <1>4, <2>1, BooksStay
<1>14. ASSUME NEW m \in new
       PROVE  /\ Right(m)' /\ m.id \in Id
              /\ state[m.id] \in {"RESERVED", "RECEIVED_FULFIL_DEPENDENT"}
  <2>1. m.id \in Id /\ state[m.id] \in {"RESERVED", "RECEIVED_FULFIL_DEPENDENT"} /\ state'[m.id] = "RESERVED_TIMEOUT"
    BY <1>3, <1>5, <1>7
  <2>2. m.action = "timeout" /\ m.changes = Reserved({m.id}) /\ m.unmoved = {}
    BY <1>5, SettlementIs
  <2>3. Reserved({m.id}) = ChangesOf(m.id, reserved[m.id])
    BY DEF Reserved
  <2> QED
    BY <1>2, <2>1, <2>2, <2>3 DEF Right, ChangesOf
<1>15. ASSUME NEW m \in pending
       PROVE  Right(m)' /\ state[m.id] \notin {"RESERVED", "RECEIVED_FULFIL_DEPENDENT"}
  <2>1. m.id \in Id /\ Right(m)
    BY <1>1 DEF TypeOK, Message, MailInv
  <2>2. CASE state[m.id] = "RECEIVED_PREPARE" \/ state[m.id] = "EXPIRED_PREPARED"
    <3>1. m.action = "prepare" /\ m.account = Backing(m.id) /\ m.account \in accounts \union {NoAccount}
      BY <2>1, <2>2 DEF Right
    <3>2. Backing(m.id)' = Backing(m.id)
      BY <1>2, <2>1, BackingStays
    <3>3. state'[m.id] = "EXPIRED_PREPARED"
      BY <1>3, <2>1, <2>2
    <3> QED
      BY <1>2, <2>2, <3>1, <3>2, <3>3 DEF Right
  <2>3. CASE ~(state[m.id] = "RECEIVED_PREPARE" \/ state[m.id] = "EXPIRED_PREPARED")
    <3>1. state[m.id] \in {"RESERVED_TIMEOUT", "RECEIVED_FULFIL", "RECEIVED_ERROR"}
      BY <1>1, <2>3, RightState
    <3>2. state'[m.id] = state[m.id]
      BY <1>3, <2>1, <3>1
    <3>3. m.action = "abort" => m.id # "transfer"
      BY <1>2, <2>1 DEF Right
    <3> QED
      BY <1>2, <2>1, <3>1, <3>2, <3>3, RightStays
  <2> QED
    BY <2>2, <2>3
<1>16. MailInv'
  <2>1. ASSUME NEW m \in new
        PROVE  /\ \A n \in pending : m.id # n.id
               /\ \A n \in new : m.id = n.id => m = n
    <3>1. \A n \in pending : m.id # n.id
      BY <1>14, <1>15
    <3>2. ASSUME NEW n \in new, m.id = n.id PROVE m = n
      <4>1. /\ m \in Settlement(m.id, "timeout", Reserved({m.id}), {})
            /\ n \in Settlement(m.id, "timeout", Reserved({m.id}), {})
        BY <1>5, <3>2
      <4> QED
        BY <4>1, SettlementIs
    <3> QED
      BY <3>1, <3>2
  <2>2. ASSUME NEW y \in Id, state'[y] = "RESERVED_TIMEOUT", reserved'[y] # {}
        PROVE  \/ state[y] = "RESERVED_TIMEOUT" /\ reserved[y] # {}
               \/ \E m \in new : m.id = y
    <3>1. CASE state[y] \in {"RESERVED", "RECEIVED_FULFIL_DEPENDENT"}
      <4>1. Reserved({y}) # {}
        <5>1. Reserved({y}) = ChangesOf(y, reserved[y])
          BY DEF Reserved
        <5>2. PICK a \in reserved[y] : TRUE
          BY <1>2, <2>2
        <5> QED
          BY <5>1, <5>2 DEF ChangesOf
      <4> DEFINE sent == Settlement(y, "timeout", Reserved({y}), {})
      <4>2. sent # {} /\ \A m \in sent : m.id = y
        BY <4>1, SettlementIs
      <4>3. sent \subseteq new
        BY <1>6, <3>1
      <4> HIDE DEF sent
      <4> QED
        BY <4>2, <4>3
    <3>2. CASE state[y] \notin {"RESERVED", "RECEIVED_FULFIL_DEPENDENT"}
      BY <1>2, <1>3, <2>2, <3>2
    <3> QED
      BY <3>1, <3>2
  <2>3. /\ pending' = pending \union new
        /\ \A m \in pending : Right(m)'
        /\ \A m \in new : Right(m)'
        /\ \A m \in new : /\ \A n \in pending : m.id # n.id
                          /\ \A n \in new : m.id = n.id => m = n
        /\ \A y \in Id : state'[y] = "RESERVED_TIMEOUT" /\ reserved'[y] # {} =>
                            \/ state[y] = "RESERVED_TIMEOUT" /\ reserved[y] # {}
                            \/ \E m \in new : m.id = y
    BY <1>2, <1>14, <1>15, <2>1, <2>2
  <2>4. MailInv
    BY <1>1
  <2> HIDE DEF Right
  <2> QED
    BY <2>3, <2>4, MailStays
<1> QED
  BY <1>9, <1>10, <1>11, <1>12, <1>13, <1>16 DEF AllInv

(***************************************************************************)
(* Settlements.                                                            *)
(***************************************************************************)
Changed(x, account) == [id |-> x, account |-> account]

(* Whom a commit pays.  Each account is paid once at most.                  *)
LEMMA CommitIs ==
  ASSUME TypeOK, WatchInv, AccountInv
  PROVE  CommitChanges =
           (IF fxType["sendingFx"] = "none" THEN {}
            ELSE {Changed("sendingFx", <<StandIn("sendingFxp"), "source">>)})
           \union
           (IF fxType["receivingFx"] = "none"
            THEN ChangesOf("transfer", AccountOf(StandIn("payee"), "middle"))
            ELSE {Changed("receivingFx", <<StandIn("receivingFxp"), "middle">>),
                  Changed("transfer", <<StandIn("payee"), "target">>)})
<1> USE DEF Conversion
<1>1. OfType("PAYER_CONVERSION") = IF fxType["sendingFx"] = "none" THEN {} ELSE {"sendingFx"}
  BY DEF OfType, WatchInv
<1>2. OfType("PAYEE_CONVERSION") = IF fxType["receivingFx"] = "none" THEN {} ELSE {"receivingFx"}
  BY DEF OfType, WatchInv
<1>3. fxType["sendingFx"] # "none" => <<StandIn("sendingFxp"), "source">> \in accounts
  BY DEF AccountInv, Watched, ProviderAccounts, CounterParty, Source
<1>4. fxType["receivingFx"] # "none" =>
        <<StandIn("receivingFxp"), "middle">> \in accounts /\ <<StandIn("payee"), "target">> \in accounts
  BY DEF AccountInv, Watched, ProviderAccounts, CounterParty, Source
<1>5. fxType["sendingFx"] # "none" =>
        /\ ProviderIsPaid("sendingFx") = {Changed("sendingFx", <<StandIn("sendingFxp"), "source">>)}
        /\ PayeeIsPaid("sendingFx") = ChangesOf("transfer", AccountOf(StandIn("payee"), "middle"))
  BY <1>3 DEF ProviderIsPaid, PayeeIsPaid, ChangesOf, AccountOf, FxRecord, TransferRecord, CounterParty,
              Source, Target, Changed
<1>6. fxType["receivingFx"] # "none" =>
        /\ ProviderIsPaid("receivingFx") = {Changed("receivingFx", <<StandIn("receivingFxp"), "middle">>)}
        /\ InitiatorIsPaid("receivingFx") = {Changed("transfer", <<StandIn("payee"), "target">>)}
  BY <1>4 DEF ProviderIsPaid, InitiatorIsPaid, ChangesOf, AccountOf, FxRecord, CounterParty, Initiator,
              Source, Target, Changed
<1>7. Watched = OfType("PAYER_CONVERSION") \union OfType("PAYEE_CONVERSION")
  BY <1>1, <1>2 DEF Watched
<1>8. CASE fxType["sendingFx"] = "none" /\ fxType["receivingFx"] = "none"
  BY <1>1, <1>2, <1>7, <1>8 DEF CommitChanges, TransferRecord
<1>9. CASE fxType["sendingFx"] # "none" /\ fxType["receivingFx"] = "none"
  BY <1>1, <1>2, <1>5, <1>7, <1>9 DEF CommitChanges, FulfilChanges
<1>10. CASE fxType["sendingFx"] = "none" /\ fxType["receivingFx"] # "none"
  BY <1>1, <1>2, <1>6, <1>7, <1>10 DEF CommitChanges, FulfilChanges
<1>11. CASE fxType["sendingFx"] # "none" /\ fxType["receivingFx"] # "none"
  BY <1>1, <1>2, <1>5, <1>6, <1>7, <1>11 DEF CommitChanges, FulfilChanges
<1> QED
  BY <1>8, <1>9, <1>10, <1>11

(* What a commit ends: the transfer and the conversions that are watched.   *)
LEMMA CommitEnds ==
  ASSUME TypeOK, WatchInv, AccountInv
  PROVE  /\ \A c, d \in CommitChanges : c.account = d.account => c = d
         /\ {ch.id : ch \in CommitChanges} \union CommitUnmoved = Watched \union {"transfer"}
<1> DEFINE paid == ChangesOf("transfer", AccountOf(StandIn("payee"), "middle"))
           s == Changed("sendingFx", <<StandIn("sendingFxp"), "source">>)
           r == Changed("receivingFx", <<StandIn("receivingFxp"), "middle">>)
           t == Changed("transfer", <<StandIn("payee"), "target">>)
<1>1. /\ s.id = "sendingFx" /\ s.account = <<StandIn("sendingFxp"), "source">>
      /\ r.id = "receivingFx" /\ r.account = <<StandIn("receivingFxp"), "middle">>
      /\ t.id = "transfer" /\ t.account = <<StandIn("payee"), "target">>
  BY DEF Changed
<1>2. \A c \in paid : c.id = "transfer" /\ c.account = <<StandIn("payee"), "middle">>
  BY DEF ChangesOf, AccountOf
<1>3. \A c, d \in paid : c = d
  BY DEF ChangesOf, AccountOf
<1>4. CommitChanges =
           (IF fxType["sendingFx"] = "none" THEN {} ELSE {s})
           \union (IF fxType["receivingFx"] = "none" THEN paid ELSE {r, t})
  BY CommitIs
<1>5. CommitUnmoved =
        IF fxType["receivingFx"] = "none" /\ ~\E ch \in CommitChanges : ch.id = "transfer" THEN {"transfer"} ELSE {}
  <2>1. OfType("PAYEE_CONVERSION") = {} <=> fxType["receivingFx"] = "none"
    BY DEF OfType, WatchInv, Conversion
  <2> QED
    BY <2>1 DEF CommitUnmoved
<1>6. Watched = (IF fxType["sendingFx"] = "none" THEN {} ELSE {"sendingFx"})
                \union (IF fxType["receivingFx"] = "none" THEN {} ELSE {"receivingFx"})
  BY DEF Watched, Conversion
<1> HIDE DEF paid, s, r, t
<1>7. \A c, d \in CommitChanges : c.account = d.account => c = d
  <2>1. \A p, q : <<p, "source">> # <<q, "middle">> /\ <<p, "source">> # <<q, "target">> /\ <<p, "middle">> # <<q, "target">>
    OBVIOUS
  <2> QED
    BY <1>1, <1>2, <1>3, <1>4, <2>1
<1>8. CASE fxType["receivingFx"] = "none"
  BY <1>1, <1>2, <1>4, <1>5, <1>6, <1>7, <1>8
<1>9. CASE fxType["receivingFx"] # "none"
  BY <1>1, <1>4, <1>5, <1>6, <1>7, <1>9
<1> QED
  BY <1>7, <1>8, <1>9

(* What is taken from an account when no two changes are of the same one.   *)
LEMMA CountChanges ==
  ASSUME NEW changes \in SUBSET Change, \A c, d \in changes : c.account = d.account => c = d, NEW a
  PROVE  Cardinality({ch \in changes : ch.account = a}) =
           IF a \in {ch.account : ch \in changes} THEN 1 ELSE 0
<1>1. CASE a \in {ch.account : ch \in changes}
  <2>1. PICK c \in changes : c.account = a
    BY <1>1
  <2>2. {ch \in changes : ch.account = a} = {c}
    BY <2>1
  <2> QED
    BY <1>1, <2>2, FS_Singleton
<1>2. CASE a \notin {ch.account : ch \in changes}
  <2>1. {ch \in changes : ch.account = a} = {}
    BY <1>2
  <2> QED
    BY <1>2, <2>1, FS_EmptySet
<1> QED
  BY <1>1, <1>2

(* What every settlement that finds the state it was sent for does.         *)
Ended(m) == {ch.id : ch \in m.changes} \union m.unmoved
LEMMA SettleIs ==
  ASSUME TypeOK, AllInv, NEW m \in pending, Settle(m)
  PROVE  /\ m \in Message /\ m.id \in Id /\ Right(m) /\ m.action \in ToBeSettled
         /\ pending' = pending \ {m}
         /\ UNCHANGED <<where, accounts, fxType, answer, reserved>>
         /\ state[m.id] = Awaited(m)
         /\ \A x \in Id : state'[x] = IF x \in Ended(m) THEN EndOf(m) ELSE state[x]
         /\ \A c, d \in m.changes : c.account = d.account => c = d
         /\ \A a \in Account : balance'[a] = balance[a] - (IF a \in {ch.account : ch \in m.changes} THEN 1 ELSE 0)
<1>1. m \in Message /\ m.id \in Id /\ Right(m) /\ m.action \in ToBeSettled
  BY DEF TypeOK, Message, AllInv, MailInv, Settle
<1>2. state[m.id] = Awaited(m)
  BY <1>1 DEF Right, Awaited, ToBeSettled
<1>3. /\ pending' = pending \ {m}
      /\ UNCHANGED <<where, accounts, fxType, answer, reserved>>
      /\ state' = [x \in Id |-> IF x \in Ended(m) THEN EndOf(m) ELSE state[x]]
      /\ balance' = [a \in Account |-> balance[a] - Cardinality({ch \in m.changes : ch.account = a})]
  BY <1>2 DEF Settle, Consume, Ended
<1>4. \A c, d \in m.changes : c.account = d.account => c = d
  <2>1. CASE m.action = "commit"
    <3>1. m.changes = CommitChanges
      BY <1>1, <2>1 DEF Right
    <3> QED
      BY <3>1, CommitEnds DEF AllInv
  <2>2. CASE m.action \in {"abort", "timeout"}
    <3> SUFFICES ASSUME NEW c \in m.changes, NEW d \in m.changes, c.account = d.account PROVE c = d
      OBVIOUS
    <3>1. c \in Change /\ d \in Change
      BY <1>1 DEF Message
    <3>2. c.account \in reserved[c.id] /\ d.account \in reserved[d.id]
      BY <1>1, <2>2 DEF Right, ChangesOf
    <3>3. c.id \in Id /\ d.id \in Id
      BY <3>1 DEF Change
    <3>4. c.account = Backing(c.id) /\ d.account = Backing(d.id) /\ c.account # NoAccount
      BY <3>2, <3>3 DEF AllInv, FundsInv
    <3>5. c.id = d.id
      <4>1. PICK p \in Participant : c.account = <<p, Held(c.id)>>
        BY <3>3, <3>4, HeldApart
      <4>2. PICK q \in Participant : d.account = <<q, Held(d.id)>>
        BY <3>3, <3>4, HeldApart
      <4>3. <<p, Held(c.id)>> = <<q, Held(d.id)>>
        BY <4>1, <4>2
      <4>4. Held(c.id) = Held(d.id)
        BY <4>3
      <4> QED
        BY <3>3, <4>4, HeldApart
    <3> QED
      BY <3>1, <3>5 DEF Change
  <2> QED
    BY <1>1, <2>1, <2>2 DEF ToBeSettled
<1>5. m.changes \in SUBSET Change
  BY <1>1 DEF Message
<1>6. \A a \in Account : balance'[a] = balance[a] - (IF a \in {ch.account : ch \in m.changes} THEN 1 ELSE 0)
  <2> TAKE a \in Account
  <2>1. balance'[a] = balance[a] - Cardinality({ch \in m.changes : ch.account = a})
    BY <1>3
  <2>2. Cardinality({ch \in m.changes : ch.account = a}) = IF a \in {ch.account : ch \in m.changes} THEN 1 ELSE 0
    BY <1>4, <1>5, CountChanges
  <2> QED
    BY <2>1, <2>2
<1> QED
  BY <1>1, <1>2, <1>3, <1>4, <1>6

(* An abort or a timeout gives back what was reserved.                      *)
LEMMA InvGiveBack ==
  ASSUME TypeOK, AllInv, NEW m \in pending, Settle(m), m.action \in {"abort", "timeout"}
  PROVE  AllInv'
<1> USE DEF Id, Conversion
<1>1. /\ WatchInv /\ PaceInv /\ AccountInv /\ FundsInv /\ MailInv /\ BooksInv
  BY DEF AllInv
<1> DEFINE x == m.id
           ended == Ended(m)
           given == {ch.account : ch \in m.changes}
<1>2. /\ x \in Id /\ m \in Message /\ Right(m) /\ pending' = pending \ {m}
      /\ UNCHANGED <<where, accounts, fxType, answer, reserved>>
      /\ state[x] = Awaited(m)
      /\ \A y \in Id : state'[y] = IF y \in ended THEN EndOf(m) ELSE state[y]
      /\ \A a \in Account : balance'[a] = balance[a] - (IF a \in given THEN 1 ELSE 0)
  BY SettleIs
<1>3. state[x] \in {"RESERVED_TIMEOUT", "RECEIVED_ERROR"} /\ EndOf(m) \in Back
  BY <1>2 DEF Awaited, EndOf, Back
<1>4. /\ \A ch \in m.changes : /\ ch.account \in reserved[ch.id] /\ ch.id \in Id
                               /\ ch.id = x \/ (x = "transfer" /\ state[ch.id] \in Open)
      /\ m.unmoved # {} => x = "transfer" /\ reserved[x] = {}
      /\ m.unmoved \subseteq {"transfer"}
  BY <1>2 DEF Right, ChangesOf, Message, Change
<1>5. \A y \in ended : y = x \/ (x = "transfer" /\ y \in Conversion /\ state[y] \in Open)
  <2>1. \A y \in ended : (\E ch \in m.changes : y = ch.id) \/ y \in m.unmoved
    BY DEF Ended
  <2> QED
    BY <1>4, <2>1
<1>6. \A ch \in m.changes : ch.id \in ended
  BY DEF Ended
<1>7. \A y \in ended : (\E ch \in m.changes : y = ch.id) \/ reserved[y] = {}
  <2>1. \A y \in ended : (\E ch \in m.changes : y = ch.id) \/ y \in m.unmoved
    BY DEF Ended
  <2> QED
    BY <1>4, <2>1
<1>8. \A ch \in m.changes : ch.account \in given
  OBVIOUS
<1>9. \A a \in given : \E ch \in m.changes : a = ch.account
  OBVIOUS
<1> HIDE DEF x, ended, given
<1>10. \A y \in Id : (state'[y] = state[y] /\ y \notin ended) \/ (state'[y] \in Back /\ y \in ended)
  BY <1>2, <1>3
<1>11. \A y \in ended : state[y] \in {"RESERVED_TIMEOUT", "RECEIVED_ERROR"} \union Open
  BY <1>3, <1>5
<1>12. Watched' = Watched /\ Begun' = Begun
  BY <1>2, <1>10, <1>11 DEF Watched, Begun, Open, Back
<1>13. WatchInv'
  BY <1>1, <1>2, <1>10, <1>11 DEF WatchInv, Early, Open, Back
<1>14. PaceInv'
  <2>1. \A y \in Id : y \in ended =>
          state["transfer"] \notin {"COMMITTED", "RECEIVED_PREPARE", "RESERVED", "RESERVED_FORWARDED", "RECEIVED_FULFIL"}
    BY <1>1, <1>2, <1>3, <1>5 DEF WatchInv, PaceInv, Watched, Early, Open
  <2>2. state["transfer"] \in {"COMMITTED", "RECEIVED_PREPARE", "RESERVED", "RESERVED_FORWARDED", "RECEIVED_FULFIL"} =>
          \A y \in Id : state'[y] = state[y]
    BY <1>10, <2>1
  <2>3. state'["transfer"] = state["transfer"] \/ state'["transfer"] \in Back
    BY <1>10
  <2>4. \A c \in Conversion : state'[c] = state[c] \/ state'[c] \in Back
    BY <1>10
  <2>5. UNCHANGED fxType
    BY <1>2
  <2> QED
    BY <1>1, <1>12, <2>2, <2>3, <2>4, <2>5 DEF PaceInv, Watched, Back, Open, Early
<1>15. AccountInv'
  BY <1>1, <1>2, <1>12, PlacesStay DEF AccountInv
<1>16. FundsInv'
  <2>1. \A y \in Id : state'[y] \in Early <=> state[y] \in Early
    BY <1>10, <1>11 DEF Early, Back, Open
  <2> QED
    BY <1>1, <1>2, <2>1, FundsStay
<1>17. BooksInv'
  <2>1. Paid' = Paid
    BY <1>2, CommitStays
  <2>2. state'["transfer"] = "COMMITTED" <=> state["transfer"] = "COMMITTED"
    BY <1>10, <1>11 DEF Back, Open
  <2>3. ASSUME NEW y \in Id, NEW p \in Participant
        PROVE  <<p, Held(y)>> \in given <=> y \in ended /\ <<p, Held(y)>> \in reserved[y]
    <3> DEFINE a == <<p, Held(y)>>
    <3>1. ASSUME a \in given PROVE y \in ended /\ a \in reserved[y]
      <4>1. PICK ch \in m.changes : a = ch.account
        BY <1>9, <3>1
      <4>2. ch.id \in Id /\ ch.account = Backing(ch.id) /\ ch.account # NoAccount
        BY <1>1, <1>4 DEF FundsInv
      <4>3. ch.id = y
        <5>1. PICK q \in Participant : ch.account = <<q, Held(ch.id)>>
          BY <4>2, HeldApart
        <5>2. Held(ch.id) = Held(y)
          BY <4>1, <5>1
        <5> QED
          BY <4>2, <5>2, HeldApart
      <4> QED
        BY <1>4, <1>6, <4>1, <4>3
    <3>2. ASSUME y \in ended, a \in reserved[y] PROVE a \in given
      <4>1. PICK ch \in m.changes : y = ch.id
        BY <1>7, <3>2
      <4>2. ch.account \in reserved[y]
        BY <1>4, <4>1
      <4>3. ch.account = a
        BY <1>1, <3>2, <4>2 DEF FundsInv
      <4> QED
        BY <1>8, <4>3
    <3> QED
      BY <3>1, <3>2
  <2>4. ASSUME NEW y \in Id, NEW p \in Participant
        PROVE  balance'[<<p, Held(y)>>] =
                 (IF <<p, Held(y)>> \in reserved'[y] /\ state'[y] \notin Back THEN 1 ELSE 0)
                 - (IF state'["transfer"] = "COMMITTED" /\ <<p, Held(y)>> \in Paid' THEN 1 ELSE 0)
    <3> DEFINE a == <<p, Held(y)>>
    <3>1. balance[a] = (IF a \in reserved[y] /\ state[y] \notin Back THEN 1 ELSE 0)
                       - (IF state["transfer"] = "COMMITTED" /\ a \in Paid THEN 1 ELSE 0)
      BY <1>1 DEF BooksInv
    <3>2. balance'[a] = balance[a] - (IF a \in given THEN 1 ELSE 0)
      <4>1. a \in Account
        BY HeldApart DEF Account
      <4> QED
        BY <1>2, <4>1
    <3>3. a \in given <=> y \in ended /\ a \in reserved[y]
      BY <2>3
    <3>4. y \in ended => state[y] \notin Back
      BY <1>11 DEF Back, Open
    <3>5. reserved'[y] = reserved[y]
      BY <1>2
    <3> HIDE DEF a
    <3>6. CASE y \in ended
      BY <1>10, <2>1, <2>2, <3>1, <3>2, <3>3, <3>4, <3>5, <3>6 DEF a
    <3>7. CASE y \notin ended
      BY <1>10, <2>1, <2>2, <3>1, <3>2, <3>3, <3>5, <3>7 DEF a
    <3> QED
      BY <3>6, <3>7
  <2>5. \A y : Held(y)' = Held(y)
    BY DEF Held
  <2> QED
    BY <2>4, <2>5 DEF BooksInv
<1>18. ASSUME NEW n \in pending, n # m PROVE Right(n)'
  <2>1. n.id # x /\ n.id \in Id /\ Right(n)
    BY <1>1, <1>18 DEF MailInv, TypeOK, Message, x
  <2>2. n.id \notin ended
    BY <1>1, <1>5, <2>1, RightState DEF Open
  <2>3. ASSUME NEW ch \in n.changes, n.id = "transfer", n.action = "abort", state[ch.id] \in Open
        PROVE  state'[ch.id] \in Open
    <3>1. ch.id \in Id
      BY DEF TypeOK, Message, Change
    <3>2. ch.id \notin ended
      BY <1>3, <1>5, <2>1, <2>3 DEF Open
    <3> QED
      BY <1>10, <2>3, <3>1, <3>2
  <2>4. state'[n.id] = state[n.id]
    BY <1>10, <2>1, <2>2
  <2>5. UNCHANGED <<where, accounts, fxType, reserved>>
    BY <1>2
  <2> QED
    BY <2>1, <2>3, <2>4, <2>5, RightStays
<1>19. MailInv'
  <2>1. ASSUME NEW y \in Id, state'[y] = "RESERVED_TIMEOUT", reserved'[y] # {}
        PROVE  y # x /\ state[y] = "RESERVED_TIMEOUT" /\ reserved[y] # {}
    <3>1. y \notin ended /\ state[y] = "RESERVED_TIMEOUT" /\ reserved[y] # {}
      BY <1>2, <1>10, <2>1 DEF Back
    <3>2. y = x => x \in ended
      <4> SUFFICES ASSUME y = x PROVE x \in ended
        OBVIOUS
      <4>1. m.action = "timeout"
        BY <1>2, <3>1 DEF Awaited
      <4>2. m.changes = ChangesOf(x, reserved[x])
        BY <1>2, <4>1 DEF Right, x
      <4>3. PICK a \in reserved[x] : TRUE
        BY <3>1
      <4>4. Changed(x, a) \in m.changes /\ Changed(x, a).id = x
        BY <4>2, <4>3 DEF ChangesOf, Changed
      <4> QED
        BY <1>6, <4>4
    <3> QED
      BY <3>1, <3>2
  <2> QED
    BY <1>1, <1>2, <1>18, <2>1, MailLess DEF x
<1> QED
  BY <1>13, <1>14, <1>15, <1>16, <1>17, <1>19 DEF AllInv

(* A commit pays what it has to, and ends the conversions with the transfer.*)
LEMMA InvCommit ==
  ASSUME TypeOK, AllInv, NEW m \in pending, Settle(m), m.action = "commit"
  PROVE  AllInv'
<1> USE DEF Id, Conversion
<1>1. /\ WatchInv /\ PaceInv /\ AccountInv /\ FundsInv /\ MailInv /\ BooksInv
  BY DEF AllInv
<1>2. /\ m.id = "transfer" /\ state["transfer"] = "RECEIVED_FULFIL"
      /\ m.changes = CommitChanges /\ m.unmoved = CommitUnmoved
  BY SettleIs DEF Right
<1>3. Ended(m) = Watched \union {"transfer"}
  BY <1>1, <1>2, CommitEnds DEF Ended
<1>4. /\ pending' = pending \ {m}
      /\ UNCHANGED <<where, accounts, fxType, answer, reserved>>
      /\ \A y \in Id : state'[y] = IF y \in Watched \union {"transfer"} THEN "COMMITTED" ELSE state[y]
      /\ \A a \in Account : balance'[a] = balance[a] - (IF a \in Paid THEN 1 ELSE 0)
  BY <1>2, <1>3, SettleIs DEF EndOf, Paid
<1>5. \A c \in Conversion : IF c \in Watched THEN state[c] = "RECEIVED_FULFIL_DEPENDENT" ELSE state[c] \in {"none", "INVALID"}
  BY <1>1, <1>2 DEF PaceInv, WatchInv, Watched
<1>6. Watched' = Watched /\ Begun' = Begun /\ Watched \subseteq Conversion
  BY <1>2, <1>4 DEF Watched, Begun
<1>7. WatchInv'
  BY <1>1, <1>2, <1>4, <1>5 DEF WatchInv, Early
<1>8. PaceInv'
  BY <1>4, <1>5, <1>6 DEF PaceInv, Watched
<1>9. AccountInv'
  BY <1>1, <1>4, <1>6, PlacesStay DEF AccountInv
<1>10. \A y \in Id : (state'[y] \in Early <=> state[y] \in Early) /\ (state'[y] \in Back <=> state[y] \in Back)
  BY <1>2, <1>4, <1>5 DEF Early, Back
<1>11. FundsInv'
  BY <1>1, <1>4, <1>10, FundsStay
<1>12. BooksInv'
  <2>1. Paid' = Paid
    BY <1>4, CommitStays
  <2>2. state["transfer"] # "COMMITTED" /\ state'["transfer"] = "COMMITTED"
    BY <1>2, <1>4
  <2>3. ASSUME NEW y \in Id, NEW p \in Participant
        PROVE  balance'[<<p, Held(y)>>] =
                 (IF <<p, Held(y)>> \in reserved'[y] /\ state'[y] \notin Back THEN 1 ELSE 0)
                 - (IF state'["transfer"] = "COMMITTED" /\ <<p, Held(y)>> \in Paid' THEN 1 ELSE 0)
    <3> DEFINE a == <<p, Held(y)>>
    <3>1. balance[a] = (IF a \in reserved[y] /\ state[y] \notin Back THEN 1 ELSE 0) - 0
      BY <1>1, <2>2 DEF BooksInv
    <3>2. balance'[a] = balance[a] - (IF a \in Paid THEN 1 ELSE 0)
      <4>1. a \in Account
        BY HeldApart DEF Account
      <4> QED
        BY <1>4, <4>1
    <3> HIDE DEF a, Paid
    <3>3. reserved' = reserved /\ (state'[y] \in Back <=> state[y] \in Back)
      BY <1>4, <1>10
    <3> QED
      BY <2>1, <2>2, <3>1, <3>2, <3>3 DEF a
  <2>4. \A y : Held(y)' = Held(y)
    BY DEF Held
  <2> QED
    BY <2>3, <2>4 DEF BooksInv
<1>13. ASSUME NEW n \in pending, n # m PROVE FALSE
  <2>1. n.id # "transfer" /\ n.id \in Id
    BY <1>1, <1>2, <1>13 DEF MailInv, TypeOK, Message
  <2> QED
    BY <1>1, <1>5, <2>1, RightState
<1>14. MailInv'
  <2>1. \A y \in Id : state'[y] # "RESERVED_TIMEOUT"
    BY <1>4, <1>5
  <2> QED
    BY <1>1, <1>4, <1>13, <2>1, MailLess
<1> QED
  BY <1>7, <1>8, <1>9, <1>11, <1>12, <1>14 DEF AllInv

(***************************************************************************)
(* Together.                                                               *)
(***************************************************************************)

(* Whether a request was answered: it is then no longer open to an answer.  *)
AnswerInv ==
  \A x \in Id : answer[x] # "none" =>
    state[x] \notin {"none", "RECEIVED_PREPARE", "RESERVED", "RESERVED_FORWARDED"}

LEMMA AnswerNext ==
  ASSUME TypeOK, AnswerInv, [Next]_vars
  PROVE  AnswerInv' /\ (Undisputed' => Undisputed)
<1> USE DEF AnswerInv
<1>1. CASE UNCHANGED vars
  BY <1>1 DEF vars, payment, Undisputed
<1>2. ASSUME NEW x \in Id, Prepare(x) PROVE AnswerInv' /\ UNCHANGED <<answer, outOfTurn>>
  <2>1. state[x] = "none" /\ UNCHANGED <<answer, outOfTurn>> /\ \A y \in Id : y # x => state'[y] = state[y]
    BY <1>2, PrepareIs DEF TypeOK
  <2> QED
    BY <2>1
<1>3. ASSUME NEW x \in Id, Forward(x) PROVE AnswerInv' /\ UNCHANGED <<answer, outOfTurn>>
  BY <1>3 DEF Forward, TypeOK
<1>4. ASSUME NEW x \in Id, NEW a, NEW s \in {"RECEIVED_FULFIL_DEPENDENT", "RECEIVED_FULFIL", "RECEIVED_ERROR"}, NEW new, Store(x, a, s, new)
      PROVE  AnswerInv' /\ (Undisputed' => Undisputed)
  <2>1. /\ state[x] \in {"RESERVED", "RESERVED_FORWARDED"}
        /\ \A y \in Id : y # x => answer'[y] = answer[y] /\ state'[y] = state[y]
        /\ state'[x] = s
    BY <1>4 DEF Store, Save, Answerable, TypeOK
  <2>2. UNCHANGED outOfTurn
    BY <1>4 DEF Store
  <2> QED
    BY <2>1, <2>2 DEF Undisputed, Id, Conversion
<1>5. ASSUME NEW m \in pending, Position(m) PROVE AnswerInv' /\ UNCHANGED <<answer, outOfTurn>>
  <2>1. m.id \in Id /\ m.action \in {"prepare", "commit", "abort", "timeout"}
    BY DEF TypeOK, Message
  <2>2. CASE ReserveFunds(m)
    BY <2>1, <2>2 DEF ReserveFunds, TypeOK, Awaited
  <2>3. CASE RejectFunds(m)
    BY <2>1, <2>3 DEF RejectFunds, TypeOK
  <2>4. CASE Settle(m)
    <3>1. EndOf(m) \in {"COMMITTED", "ABORTED_ERROR", "EXPIRED_RESERVED"}
      BY <2>4 DEF Settle, EndOf, ToBeSettled
    <3>2. \A y \in Id : state'[y] = state[y] \/ state'[y] = EndOf(m)
      BY <2>4 DEF Settle
    <3> QED
      BY <2>4, <3>1, <3>2 DEF Settle
  <2> QED
    BY <1>5, <2>2, <2>3, <2>4 DEF Position
<1>6. CASE Sweep
  <2>1. \A y \in Id : state'[y] = state[y] \/ state'[y] \in {"EXPIRED_PREPARED", "RESERVED_TIMEOUT"}
    BY <1>6 DEF Sweep, TimedOut
  <2> QED
    BY <1>6, <2>1 DEF Sweep, Undisputed
<1>7. ASSUME NEW c \in Conversion, FxAccept(c) \/ FxRefuse(c) PROVE AnswerInv' /\ (Undisputed' => Undisputed)
  <2>1. c \in Id
    BY DEF Id
  <2> QED
    BY <1>4, <1>7, <2>1 DEF FxAccept, FxRefuse
<1>8. CASE Accept \/ Refuse \/ Misanswer
  <2>1. "transfer" \in Id
    BY DEF Id
  <2> QED
    BY <1>4, <1>8, <2>1 DEF Accept, Refuse, Misanswer
<1>9. ASSUME NEW x \in Id, OutOfTurn(x), NEW a, NEW new, Save(x, a, "RECEIVED_ERROR", new)
      PROVE  AnswerInv' /\ ~Undisputed'
  <2>1. /\ \A y \in Id : y # x => answer'[y] = answer[y] /\ state'[y] = state[y]
        /\ state'[x] = "RECEIVED_ERROR"
    BY <1>9 DEF Save, TypeOK
  <2>2. x \in outOfTurn'
    BY <1>9 DEF OutOfTurn
  <2> QED
    BY <2>1, <2>2 DEF Undisputed
<1>10. CASE MisanswerOutOfTurn \/ \E c \in Conversion : FxMisanswerOutOfTurn(c)
  BY <1>9, <1>10 DEF MisanswerOutOfTurn, FxMisanswerOutOfTurn, Id
<1> QED
  BY <1>1, <1>2, <1>3, <1>5, <1>6, <1>7, <1>8, <1>10 DEF Next, Undisputed

LEMMA InvInit == Init => Inv /\ AnswerInv
<1> SUFFICES ASSUME Init PROVE Inv /\ AnswerInv
  OBVIOUS
<1>1. TypeOK
  BY TypeInit
<1>2. /\ \A x \in Id : state[x] = "none" /\ answer[x] = "none" /\ reserved[x] = {}
      /\ \A c \in Conversion : fxType[c] = "none"
      /\ \A a \in Account : balance[a] = 0
      /\ pending = {}
  BY DEF Init
<1>3. WatchInv /\ PaceInv /\ AccountInv
  BY <1>2 DEF WatchInv, PaceInv, AccountInv, Watched, Begun, Id, Conversion
<1>4. FundsInv
  BY <1>2 DEF FundsInv, Early
<1>5. MailInv
  BY <1>2 DEF MailInv
<1>6. BooksInv
  <2>1. \A x \in Id, p \in Participant : <<p, Held(x)>> \in Account
    BY <1>1, HeldApart DEF Account
  <2> QED
    BY <1>2, <2>1 DEF BooksInv, Id
<1> QED
  BY <1>1, <1>2, <1>3, <1>4, <1>5, <1>6 DEF Inv, AllInv, AnswerInv

LEMMA InvNext ==
  ASSUME Inv, AnswerInv, [Next]_vars
  PROVE  Inv' /\ AnswerInv'
<1>1. TypeOK /\ TypeOK' /\ AnswerInv' /\ (Undisputed' => Undisputed)
  BY TypeNext, AnswerNext DEF Inv
<1>2. SUFFICES ASSUME Undisputed' PROVE AllInv'
  BY <1>1 DEF Inv
<1>3. AllInv
  BY <1>1, <1>2 DEF Inv
<1>4. CASE UNCHANGED vars
  <2>1. UNCHANGED <<where, accounts, fxType>>
    BY <1>4 DEF vars, payment
  <2>2. CommitChanges' = CommitChanges /\ CommitUnmoved' = CommitUnmoved /\ Paid' = Paid
    BY <2>1, CommitStays
  <2>3. \A x \in Id : Backing(x)' = Backing(x)
    BY <1>4, <2>1, BackingStays DEF vars, payment
  <2>4. WatchInv' /\ PaceInv' /\ AccountInv'
    BY <1>3, <1>4, PlacesStay DEF vars, payment, AllInv, WatchInv, PaceInv, AccountInv, Watched, Begun
  <2>5. FundsInv' /\ BooksInv'
    BY <1>3, <1>4, FundsStay, BooksStay DEF vars, payment, AllInv
  <2>6. MailInv'
    <3>1. \A m \in pending : m.id \in Id
      BY <1>1 DEF TypeOK, Message
    <3> QED
      BY <1>3, <1>4, <2>2, <2>3, <3>1 DEF vars, payment, AllInv, MailInv, Right, ChangesOf
  <2> QED
    BY <2>4, <2>5, <2>6 DEF AllInv
<1>5. ASSUME NEW m \in pending, Position(m) PROVE AllInv'
  BY <1>1, <1>3, <1>5, InvReserveFunds, InvRejectFunds, InvGiveBack, InvCommit
  DEF Position, Settle, ToBeSettled
<1>6. CASE MisanswerOutOfTurn \/ \E c \in Conversion : FxMisanswerOutOfTurn(c)
  BY <1>2, <1>6 DEF MisanswerOutOfTurn, FxMisanswerOutOfTurn, OutOfTurn, Undisputed
<1> QED
  BY <1>1, <1>2, <1>3, <1>4, <1>5, <1>6, InvPrepare, InvForward, InvFxAccept, InvFxRefuse, InvAccept, InvRefuse,
     InvMisanswer, InvSweep
  DEF Next

(***************************************************************************)
(* What follows for a payment that is done.                                *)
(***************************************************************************)
LEMMA SumOfPair ==
  ASSUME NEW S, IsFiniteSet(S), NEW f, NEW a \in S, NEW b \in S,
         \A p \in S : f[p] = (IF p = a THEN 1 ELSE 0) - (IF p = b THEN 1 ELSE 0)
  PROVE  SumFunctionOnSet(f, S) = 0
<1> DEFINE z == [p \in S |-> 0]
           g == [p \in S |-> IF p = a THEN 1 ELSE 0]
<1>1. /\ \A p \in S : z[p] = 0 /\ g[p] = IF p = a THEN 1 ELSE 0
      /\ z[a] = 0 /\ g[a] = 1
  OBVIOUS
<1> HIDE DEF z, g
<1>2. SumFunctionOnSet(z, S) = 0
  BY <1>1, SumOfNothing
<1>3. SumFunctionOnSet(g, S) = SumFunctionOnSet(z, S) + g[a] - z[a]
  BY <1>1, SumOneChanged
<1>4. SumFunctionOnSet(f, S) = SumFunctionOnSet(g, S) + f[b] - g[b]
  <2>1. \A p \in S : f[p] \in Int /\ g[p] \in Int
    BY <1>1
  <2>2. \A p \in S : p # b => g[p] = f[p]
    BY <1>1
  <2> QED
    BY <2>1, <2>2, SumOneChanged
<1>5. f[b] - g[b] = -1 /\ f[b] \in Int /\ g[b] \in Int
  BY <1>1
<1> QED
  BY <1>1, <1>2, <1>3, <1>4, <1>5

LEMMA PaidIs ==
  ASSUME TypeOK, WatchInv, AccountInv, NEW p
  PROVE  /\ <<p, "source">> \in Paid <=> fxType["sendingFx"] # "none" /\ p = StandIn("sendingFxp")
         /\ <<p, "target">> \in Paid <=> fxType["receivingFx"] # "none" /\ p = StandIn("payee")
         /\ fxType["receivingFx"] # "none" => (<<p, "middle">> \in Paid <=> p = StandIn("receivingFxp"))
         /\ fxType["receivingFx"] = "none" =>
              (<<p, "middle">> \in Paid <=> p = StandIn("payee") /\ <<StandIn("payee"), "middle">> \in accounts)
<1> DEFINE paid == ChangesOf("transfer", AccountOf(StandIn("payee"), "middle"))
           s == Changed("sendingFx", <<StandIn("sendingFxp"), "source">>)
           r == Changed("receivingFx", <<StandIn("receivingFxp"), "middle">>)
           t == Changed("transfer", <<StandIn("payee"), "target">>)
<1>1. /\ s.account = <<StandIn("sendingFxp"), "source">>
      /\ r.account = <<StandIn("receivingFxp"), "middle">>
      /\ t.account = <<StandIn("payee"), "target">>
  BY DEF Changed
<1>2. {c.account : c \in paid} = AccountOf(StandIn("payee"), "middle")
  <2> DEFINE as == AccountOf(StandIn("payee"), "middle")
  <2>1. paid = {Changed("transfer", a) : a \in as} /\ \A a : Changed("transfer", a).account = a
    BY DEF ChangesOf, Changed
  <2> HIDE DEF as, paid
  <2> QED
    BY <2>1 DEF as
<1>3. CommitChanges =
           (IF fxType["sendingFx"] = "none" THEN {} ELSE {s})
           \union (IF fxType["receivingFx"] = "none" THEN paid ELSE {r, t})
  BY CommitIs
<1> HIDE DEF paid, s, r, t
<1>4. Paid = (IF fxType["sendingFx"] = "none" THEN {} ELSE {<<StandIn("sendingFxp"), "source">>})
             \union (IF fxType["receivingFx"] = "none" THEN AccountOf(StandIn("payee"), "middle")
                     ELSE {<<StandIn("receivingFxp"), "middle">>, <<StandIn("payee"), "target">>})
  BY <1>1, <1>2, <1>3 DEF Paid
<1> QED
  BY <1>4 DEF AccountOf

(* What each currency's total is made of, when the transfer is committed.   *)
LEMMA TotalIs ==
  ASSUME TypeOK, AllInv, state["transfer"] = "COMMITTED", NEW x \in Id, state[x] \notin Back
  PROVE  /\ reserved[x] = {} /\ (\A p \in Participant : <<p, Held(x)>> \notin Paid) => Total(Held(x)) = 0
         /\ \A a, b \in Participant :
              reserved[x] = {<<a, Held(x)>>} /\ (\A p \in Participant : <<p, Held(x)>> \in Paid <=> p = b)
                => Total(Held(x)) = 0
<1> DEFINE f == [p \in Participant |-> balance[<<p, Held(x)>>]]
<1>1. \A p \in Participant : f[p] = (IF <<p, Held(x)>> \in reserved[x] THEN 1 ELSE 0)
                                    - (IF <<p, Held(x)>> \in Paid THEN 1 ELSE 0)
  BY DEF AllInv, BooksInv
<1>2. Total(Held(x)) = SumFunctionOnSet(f, Participant)
  BY DEF Total
<1> HIDE DEF f
<1>3. ASSUME reserved[x] = {}, \A p \in Participant : <<p, Held(x)>> \notin Paid
      PROVE  Total(Held(x)) = 0
  <2>1. ASSUME NEW p \in Participant PROVE f[p] = 0
    <3>1. <<p, Held(x)>> \notin reserved[x] /\ <<p, Held(x)>> \notin Paid
      BY <1>3
    <3>2. f[p] = 0 - 0
      BY <1>1, <3>1, Zenon
    <3> QED
      BY <3>2
  <2> QED
    BY <1>2, <2>1, AccountsFinite, SumOfNothing
<1>4. ASSUME NEW a \in Participant, NEW b \in Participant, reserved[x] = {<<a, Held(x)>>},
             \A p \in Participant : <<p, Held(x)>> \in Paid <=> p = b
      PROVE  Total(Held(x)) = 0
  <2>1. \A p \in Participant : f[p] = (IF p = a THEN 1 ELSE 0) - (IF p = b THEN 1 ELSE 0)
    BY <1>1, <1>4
  <2> QED
    BY <1>2, <2>1, AccountsFinite, SumOfPair
<1> QED
  BY <1>3, <1>4

LEMMA CommittedBalances ==
  ASSUME TypeOK, AllInv, Regular, state["transfer"] = "COMMITTED", NEW currency \in Currency
  PROVE  Total(currency) = 0
<1>1. /\ WatchInv /\ PaceInv /\ AccountInv /\ FundsInv
  BY DEF AllInv
<1>2. /\ \A f \in Fsp : StandIn(f) \in Participant
      /\ {"payer", "payee", "sendingFxp", "receivingFxp"} \subseteq Fsp
  BY StandInType DEF Fsp
<1>3. \A c \in Conversion : IF fxType[c] = "none" THEN state[c] \in {"none", "INVALID"} ELSE state[c] = "COMMITTED"
  BY <1>1 DEF WatchInv, PaceInv, Watched
<1>4. \A x \in Id : state[x] \notin Back
  BY <1>3 DEF Id, Back
<1>5. /\ \A c \in Conversion : fxType[c] = "none" => reserved[c] = {}
      /\ fxType["sendingFx"] # "none" => reserved["sendingFx"] = {<<StandIn("payer"), "source">>}
      /\ fxType["receivingFx"] # "none" => reserved["receivingFx"] = {<<StandIn("receivingFxp"), "target">>}
      /\ reserved["transfer"] = {Backing("transfer")} \ {NoAccount}
  <2>1. \A x \in Id : reserved[x] = IF state[x] \in Early THEN {} ELSE {Backing(x)} \ {NoAccount}
    BY <1>1 DEF FundsInv
  <2>2. /\ Backing("sendingFx") = <<StandIn("payer"), "source">>
        /\ Backing("receivingFx") = <<StandIn("receivingFxp"), "target">>
        /\ Backing("sendingFx") # NoAccount /\ Backing("receivingFx") # NoAccount
    BY HeldApart DEF Backing, Id, Conversion
  <2> HIDE DEF Backing
  <2> QED
    BY <1>3, <2>1, <2>2 DEF Id, Conversion, Early
<1>6. CASE currency = "source"
  <2>1. Held("sendingFx") = "source" /\ "sendingFx" \in Id /\ "sendingFx" \in Conversion
    BY DEF Held, Id, Conversion
  <2> QED
    <3>1. CASE fxType["sendingFx"] = "none"
      <4>1. reserved["sendingFx"] = {} /\ \A p \in Participant : <<p, "source">> \notin Paid
        BY <1>1, <1>5, <2>1, <3>1, PaidIs
      <4> QED
        BY <1>4, <1>6, <2>1, <4>1, TotalIs
    <3>2. CASE fxType["sendingFx"] # "none"
      <4>1. /\ reserved["sendingFx"] = {<<StandIn("payer"), "source">>}
            /\ \A p \in Participant : <<p, "source">> \in Paid <=> p = StandIn("sendingFxp")
        BY <1>1, <1>5, <3>2, PaidIs
      <4> QED
        BY <1>2, <1>4, <1>6, <2>1, <4>1, TotalIs
    <3> QED
      BY <3>1, <3>2
<1>7. CASE currency = "target"
  <2>1. Held("receivingFx") = "target" /\ "receivingFx" \in Id /\ "receivingFx" \in Conversion
    BY DEF Held, Id, Conversion
  <2> QED
    <3>1. CASE fxType["receivingFx"] = "none"
      <4>1. reserved["receivingFx"] = {} /\ \A p \in Participant : <<p, "target">> \notin Paid
        BY <1>1, <1>5, <2>1, <3>1, PaidIs
      <4> QED
        BY <1>4, <1>7, <2>1, <4>1, TotalIs
    <3>2. CASE fxType["receivingFx"] # "none"
      <4>1. /\ reserved["receivingFx"] = {<<StandIn("receivingFxp"), "target">>}
            /\ \A p \in Participant : <<p, "target">> \in Paid <=> p = StandIn("payee")
        BY <1>1, <1>5, <3>2, PaidIs
      <4> QED
        BY <1>2, <1>4, <1>7, <2>1, <4>1, TotalIs
    <3> QED
      BY <3>1, <3>2
<1>8. CASE currency = "middle"
  <2>1. Held("transfer") = "middle" /\ "transfer" \in Id
    BY DEF Held, Id
  <2>2. Backing("transfer") = IF fxType["sendingFx"] = "none" THEN <<StandIn("payer"), "middle">>
                              ELSE IF IsSameProxy("sendingFx") THEN NoAccount
                              ELSE <<StandIn("sendingFxp"), "middle">>
    BY DEF Backing
  <2>3. \A p : <<p, "middle">> # NoAccount
    BY DEF NoAccount
  <2>4. ~IsProxied("payee") => <<StandIn("payee"), "middle">> \in accounts
    BY <1>1 DEF AccountInv, Begun, StandIn
  <2>5. fxType["receivingFx"] # "none" => ~IsProxied("payee")
    BY <1>1, DeploymentsAssumption DEF WatchInv, IsProxied
  <2>6. CASE fxType["sendingFx"] = "none"
    <3>1. reserved["transfer"] = {<<StandIn("payer"), "middle">>}
      BY <1>5, <2>2, <2>3, <2>6
    <3>2. <<StandIn("payee"), "middle">> \in accounts
      BY <2>4, <2>6 DEF Regular, ExpectedAccounts, StandIn
    <3>3. \E b \in Participant : \A p \in Participant : <<p, "middle">> \in Paid <=> p = b
      BY <1>1, <1>2, <3>2, PaidIs
    <3> QED
      BY <1>2, <1>4, <1>8, <2>1, <3>1, <3>3, TotalIs
  <2>7. CASE fxType["sendingFx"] # "none" /\ IsSameProxy("sendingFx")
    <3>1. /\ IsProxied("payee") /\ StandIn("sendingFxp") = where["payee"]
      BY <2>7 DEF IsSameProxy, FxRecord, CounterParty
    <3>2. IsProxied("sendingFxp") /\ where["sendingFxp"] = where["payee"]
      BY <3>1, DeploymentsAssumption DEF StandIn, IsProxied, Fsp
    <3>3. <<StandIn("payee"), "middle">> \notin accounts
      BY <2>7, <3>1, <3>2 DEF Regular, ExpectedAccounts, StandIn
    <3>4. \A p \in Participant : <<p, "middle">> \notin Paid
      BY <1>1, <2>5, <3>1, <3>3, PaidIs
    <3>5. reserved["transfer"] = {}
      BY <1>5, <2>2, <2>7
    <3> QED
      BY <1>4, <1>8, <2>1, <3>4, <3>5, TotalIs
  <2>8. CASE fxType["sendingFx"] # "none" /\ ~IsSameProxy("sendingFx")
    <3>1. reserved["transfer"] = {<<StandIn("sendingFxp"), "middle">>}
      BY <1>5, <2>2, <2>3, <2>8
    <3>2. <<StandIn("sendingFxp"), "middle">> \in accounts
      BY <1>1, <2>1, <3>1 DEF FundsInv
    <3>3. <<StandIn("payee"), "middle">> \in accounts
      BY <2>4, <2>8, <3>2 DEF Regular, ExpectedAccounts, StandIn
    <3>4. \E b \in Participant : \A p \in Participant : <<p, "middle">> \in Paid <=> p = b
      BY <1>1, <1>2, <3>3, PaidIs
    <3> QED
      BY <1>2, <1>4, <1>8, <2>1, <3>1, <3>4, TotalIs
  <2> QED
    BY <2>6, <2>7, <2>8
<1> QED
  BY <1>6, <1>7, <1>8 DEF Currency

LEMMA AbortedBalances ==
  ASSUME TypeOK, AllInv, ~InFlight,
         state["transfer"] \in {"ABORTED_ERROR", "EXPIRED_PREPARED", "EXPIRED_RESERVED"}, NEW a \in Account
  PROVE  balance[a] = 0
<1>1. /\ WatchInv /\ PaceInv /\ FundsInv /\ MailInv /\ BooksInv
  BY DEF AllInv
<1>2. PICK p \in Participant, x \in Id : a = <<p, Held(x)>>
  <2>1. \A currency \in Currency : \E x \in Id : Held(x) = currency
    <3>1. Held("sendingFx") = "source" /\ Held("transfer") = "middle" /\ Held("receivingFx") = "target"
      BY DEF Held
    <3> QED
      BY <3>1 DEF Currency, Id, Conversion
  <2> QED
    BY <2>1 DEF Account
<1>3. reserved[x] = {} \/ state[x] \in Back
  <2>1. state[x] \in Early => reserved[x] = {}
    BY <1>1 DEF FundsInv
  <2>2. CASE x = "transfer"
    BY <2>1, <2>2 DEF Early, Back
  <2>3. CASE x \in Conversion
    <3>1. state[x] \notin {"RECEIVED_PREPARE", "RESERVED", "RECEIVED_FULFIL_DEPENDENT", "RESERVED_FORWARDED"}
      BY <2>3 DEF InFlight, TimedOut
    <3>2. state[x] # "RESERVED_TIMEOUT" \/ reserved[x] = {}
      BY <1>1 DEF MailInv, InFlight
    <3>3. state[x] \notin {"COMMITTED", "RECEIVED_FULFIL"}
      BY <1>1, <2>3 DEF PaceInv, WatchInv
    <3>4. state[x] # "RECEIVED_ERROR"
      BY <1>1, <2>3 DEF PaceInv, WatchInv, Begun, Conversion
    <3> QED
      BY <2>1, <3>1, <3>2, <3>3, <3>4 DEF TypeOK, State, Early, Back
  <2> QED
    BY <2>2, <2>3 DEF Id
<1> QED
  BY <1>1, <1>2, <1>3 DEF BooksInv

(* Whoever converts and whoever is stood in for: a payment that is          *)
(* committed has paid in every currency what was reserved in it, and one    *)
(* that was aborted or has expired has given everything back.               *)
THEOREM BalancesInEveryCurrency == Spec => []EveryCurrencyBalances
<1>1. Inv => EveryCurrencyBalances
  BY CommittedBalances, AbortedBalances DEF Inv, EveryCurrencyBalances, Regular, Undisputed
<1> QED
  BY <1>1, InvInit, InvNext, PTL DEF Spec

(***************************************************************************)
(* What a GET is answered.                                                 *)
(***************************************************************************)

(* Nothing is committed but what was fulfilled, and nothing undoes it but   *)
(* an answer out of turn.                                                   *)
LEMMA CommittedOnce ==
  ASSUME TypeOK, AllInv, [Next]_vars, outOfTurn' = {}, NEW x \in Id
  PROVE  /\ state[x] = "COMMITTED" => state'[x] = "COMMITTED"
         /\ state'[x] = "COMMITTED" => state[x] \in {"COMMITTED", "RECEIVED_FULFIL", "RECEIVED_FULFIL_DEPENDENT"}
<1>1. CASE UNCHANGED vars
  BY <1>1 DEF vars, payment
<1>2. ASSUME NEW y \in Id, Prepare(y) PROVE (x # y => state'[x] = state[x]) /\ state[y] = "none" /\ state'[y] # "COMMITTED"
  BY <1>2, PrepareIs DEF TypeOK
<1>3. ASSUME NEW y \in Id, Forward(y)
      PROVE  (x # y => state'[x] = state[x]) /\ state[y] # "COMMITTED" /\ state'[y] # "COMMITTED"
  BY <1>3 DEF Forward, TypeOK
<1>4. ASSUME NEW y \in Id, NEW a, NEW s \in {"RECEIVED_FULFIL_DEPENDENT", "RECEIVED_FULFIL", "RECEIVED_ERROR"},
             NEW new, Store(y, a, s, new)
      PROVE  (x # y => state'[x] = state[x]) /\ state[y] # "COMMITTED" /\ state'[y] # "COMMITTED"
  BY <1>4 DEF Store, Save, Answerable, TypeOK
<1>5. ASSUME NEW m \in pending, ReserveFunds(m) \/ RejectFunds(m)
      PROVE  (x # m.id => state'[x] = state[x]) /\ state[m.id] # "COMMITTED" /\ state'[m.id] # "COMMITTED"
  <2>1. m.id \in Id /\ Right(m) /\ m.action = "prepare"
    BY <1>5 DEF TypeOK, Message, AllInv, MailInv, ReserveFunds, RejectFunds
  <2> QED
    BY <1>5, <2>1 DEF ReserveFunds, RejectFunds, TypeOK, Right
<1>6. ASSUME NEW m \in pending, Settle(m)
      PROVE  /\ state[x] = "COMMITTED" => state'[x] = "COMMITTED"
             /\ state'[x] = "COMMITTED" => state[x] \in {"COMMITTED", "RECEIVED_FULFIL", "RECEIVED_FULFIL_DEPENDENT"}
  <2>1. /\ Right(m) /\ m.action \in ToBeSettled /\ m \in Message
        /\ state'[x] = IF x \in Ended(m) THEN EndOf(m) ELSE state[x]
    BY <1>6, SettleIs
  <2>2. CASE m.action = "commit"
    <3>1. /\ state["transfer"] = "RECEIVED_FULFIL"
          /\ m.changes = CommitChanges /\ m.unmoved = CommitUnmoved
      BY <2>1, <2>2 DEF Right
    <3>2. Ended(m) = Watched \union {"transfer"}
      BY <3>1, CommitEnds DEF Ended, AllInv
    <3>3. \A c \in Watched : state[c] = "RECEIVED_FULFIL_DEPENDENT"
      BY <3>1 DEF AllInv, PaceInv
    <3> QED
      BY <2>1, <2>2, <3>1, <3>2, <3>3 DEF EndOf
  <2>3. CASE m.action # "commit"
    <3>1. EndOf(m) # "COMMITTED"
      BY <2>1, <2>3 DEF EndOf, ToBeSettled
    <3>2. x \in Ended(m) => state[x] # "COMMITTED"
      <4>1. ASSUME NEW ch \in m.changes, ch.id = x PROVE state[x] # "COMMITTED"
        BY <2>1, <2>3, <4>1 DEF Right, ToBeSettled, ChangesOf, Open
      <4>2. ASSUME x \in m.unmoved PROVE state[x] # "COMMITTED"
        BY <2>1, <2>3, <4>2 DEF Right, ToBeSettled, Message
      <4> QED
        BY <4>1, <4>2 DEF Ended
    <3> QED
      BY <2>1, <3>1, <3>2
  <2> QED
    BY <2>2, <2>3
<1>7. CASE Sweep
  BY <1>7 DEF Sweep, TimedOut
<1>8. CASE \E c \in Conversion : FxAccept(c) \/ FxRefuse(c)
  BY <1>4, <1>8 DEF FxAccept, FxRefuse, Id
<1>9. CASE Accept \/ Refuse \/ Misanswer
  <2>1. "transfer" \in Id
    BY DEF Id
  <2> QED
    BY <1>4, <1>9, <2>1 DEF Accept, Refuse, Misanswer
<1>10. CASE MisanswerOutOfTurn \/ \E c \in Conversion : FxMisanswerOutOfTurn(c)
  BY <1>10 DEF MisanswerOutOfTurn, FxMisanswerOutOfTurn, OutOfTurn
<1> QED
  BY <1>1, <1>2, <1>3, <1>5, <1>6, <1>7, <1>8, <1>9, <1>10 DEF Next, Position

(* The replies that a state allows.                                         *)
ReplyInv ==
  \A x \in Id :
    /\ "COMMITTED" \in Replies(x) => state[x] = "COMMITTED"
    /\ state[x] = "COMMITTED" => Replies(x) \intersect (Failure \union Unfinished) = {}
    /\ Replies(x) \intersect Failure # {} =>
         state[x] \notin {"COMMITTED", "RECEIVED_FULFIL", "RECEIVED_FULFIL_DEPENDENT"}

LEMMA RepliesAre == TypeOK => ReplyInv
<1> SUFFICES ASSUME TypeOK, NEW x \in Id
             PROVE  /\ "COMMITTED" \in Replies(x) => state[x] = "COMMITTED"
                    /\ state[x] = "COMMITTED" => Replies(x) \intersect (Failure \union Unfinished) = {}
                    /\ Replies(x) \intersect Failure # {} =>
                         state[x] \notin {"COMMITTED", "RECEIVED_FULFIL", "RECEIVED_FULFIL_DEPENDENT"}
  BY DEF ReplyInv
<1>1. state[x] \in State
  BY DEF TypeOK
<1>2. \A r \in Replies(x) :
        \/ r \in {"none", "passedOn", "notFound", "refused"}
        \/ state[x] # "none" /\ r = ErrorReply(x) /\ ToldTheError(x)
        \/ state[x] # "none" /\ r = Enumeration(state[x])
  BY DEF Replies, GetTransfer, Reply, Exists
<1>3. ErrorReply(x) \in {"error", "none"}
  BY DEF ErrorReply
<1>4. state[x] # "none" =>
        /\ Enumeration(state[x]) = "COMMITTED" <=> state[x] = "COMMITTED"
        /\ Enumeration(state[x]) = "ABORTED" <=>
             state[x] \in {"ABORTED_REJECTED", "ABORTED_ERROR", "EXPIRED_PREPARED", "EXPIRED_RESERVED", "INVALID"}
        /\ Enumeration(state[x]) = "RESERVED" <=>
             state[x] \in {"RESERVED", "RESERVED_FORWARDED", "RESERVED_TIMEOUT", "RECEIVED_FULFIL",
                           "RECEIVED_FULFIL_DEPENDENT", "RECEIVED_ERROR"}
        /\ Enumeration(state[x]) \in {"COMMITTED", "ABORTED", "RESERVED", "RECEIVED"}
  BY <1>1 DEF Enumeration, State
<1>5. ErrorReply(x) = "error" /\ ToldTheError(x) /\ state[x] # "none" =>
        state[x] \notin {"COMMITTED", "RECEIVED_FULFIL", "RECEIVED_FULFIL_DEPENDENT"}
  <2>1. HasError(x) /\ x \in Conversion => state[x] \in {"RESERVED_TIMEOUT", "EXPIRED_RESERVED"}
    BY DEF HasError, Conversion
  <2>2. ToldTheError(x) /\ x \notin Conversion => Enumeration(state[x]) \notin {"COMMITTED", "RESERVED"}
    BY DEF ToldTheError
  <2> QED
    BY <1>4, <2>1, <2>2 DEF ErrorReply
<1> QED
  BY <1>2, <1>3, <1>4, <1>5 DEF Failure, Unfinished

(* Whoever asks, and by whichever way: as long as no answer is rejected out *)
(* of turn, a GET that was answered COMMITTED is never contradicted by a    *)
(* failure or an earlier state, nor a failure by COMMITTED.                 *)
THEOREM RepliesTurnOnlyOutOfTurn == Spec => RepliesTurnOutOfTurn
<1>1. ASSUME Inv, ReplyInv, ReplyInv', [Next]_vars
      PROVE  [\A x \in Id :
                Regular /\ outOfTurn' = {} =>
                  /\ "COMMITTED" \in Replies(x) => Replies(x)' \intersect (Failure \union Unfinished) = {}
                  /\ Replies(x) \intersect Failure # {} => "COMMITTED" \notin Replies(x)']_vars
  <2> SUFFICES ASSUME NEW x \in Id, Regular, outOfTurn' = {}
               PROVE  /\ "COMMITTED" \in Replies(x) => Replies(x)' \intersect (Failure \union Unfinished) = {}
                      /\ Replies(x) \intersect Failure # {} => "COMMITTED" \notin Replies(x)'
    OBVIOUS
  <2>1. TypeOK /\ AllInv
    BY <1>1 DEF Inv, Regular, Undisputed
  <2>2. /\ state[x] = "COMMITTED" => state'[x] = "COMMITTED"
        /\ state'[x] = "COMMITTED" => state[x] \in {"COMMITTED", "RECEIVED_FULFIL", "RECEIVED_FULFIL_DEPENDENT"}
    BY <1>1, <2>1, CommittedOnce
  <2>3. /\ "COMMITTED" \in Replies(x) => state[x] = "COMMITTED"
        /\ Replies(x) \intersect Failure # {} =>
             state[x] \notin {"COMMITTED", "RECEIVED_FULFIL", "RECEIVED_FULFIL_DEPENDENT"}
    BY <1>1 DEF ReplyInv
  <2>4. /\ "COMMITTED" \in Replies(x)' => state'[x] = "COMMITTED"
        /\ state'[x] = "COMMITTED" => Replies(x)' \intersect (Failure \union Unfinished) = {}
    BY <1>1 DEF ReplyInv
  <2> QED
    BY <2>2, <2>3, <2>4
<1>2. Inv => ReplyInv
  BY RepliesAre DEF Inv
<1> QED
  BY <1>1, <1>2, InvInit, InvNext, PTL DEF Spec, RepliesTurnOutOfTurn

=============================================================================
