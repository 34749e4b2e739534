-------------------------- MODULE ParticipantAccounts --------------------------
(***************************************************************************)
(* Participants, their accounts and limits in one currency: the admin API   *)
(* (src/api/participants), its service (src/domain/participant), the tables *)
(* (src/models/participant), the settlement models that say which accounts  *)
(* a participant has, and the caches (src/lib/cache.js) through which every *)
(* process reads the tables.                                                *)
(*                                                                          *)
(* A request reads, decides and writes in different steps.  A cache entry   *)
(* lives until it expires or its own process drops it, which the code does  *)
(* inside the transaction, before the commit.                               *)
(***************************************************************************)
EXTENDS Integers, Sequences, FiniteSets, SequencesExt

CONSTANTS
  Participant,
  Model,         \* settlement models
  OwnCurrency,   \* those of this currency; the others are the default ones
  LedgerOf, SettlementOf, \* the two account types of a model
  Process, Worker, ProcessOf,  \* requests a process serves at the same time
  Request,       \* bound: the requests that are sent, and in what order: those of
                 \* a stage together, once those of the stages before are done
  CachedTable,   \* bound: the tables read through a cache
  Patient,       \* a participant's limit is asked for again only after an answer
  MaxCrashes     \* bound

Position   == "POSITION"
Settlement == "SETTLEMENT"
AccountType == {Position, Settlement} \union {LedgerOf[m] : m \in Model} \union {SettlementOf[m] : m \in Model}
HubAccountType == {"HUB_RECONCILIATION", "HUB_MULTILATERAL_SETTLEMENT"}
Hub        == "Hub"
Table      == {"participant", "participantCurrency", "participantLimit"}
Cacheable  == Table \union {"settlementModel"}
Kind       == {"createHubAccount", "createSettlementModel", "updateSettlementModel", "create", "update",
               "addLimitAndInitialPosition", "adjustLimits", "updateAccount"}
ForLimit   == {"addLimitAndInitialPosition", "adjustLimits"}
ForFlag    == {"updateSettlementModel", "update", "updateAccount"}
ForParticipant == ForLimit \union {"create", "update", "updateAccount"}

ASSUME AccountsAssumption ==
  /\ IsFiniteSet(Model)
  /\ LedgerOf \in [Model -> STRING] /\ SettlementOf \in [Model -> STRING]
  /\ OwnCurrency \subseteq Model
  /\ ProcessOf \in [Worker -> Process]
  /\ \A r \in Request :
       /\ r.kind \in Kind /\ r.stage \in Nat
       /\ r.kind \in ForParticipant => r.participant \in Participant
       /\ r.kind \in ForLimit => r.value \in Nat
       /\ r.kind = "createHubAccount" => r.type \in HubAccountType
       /\ r.kind \in ForFlag => r.flag \in {"inactive", "active"}
  /\ Hub \notin Participant
  /\ CachedTable \subseteq Cacheable
  /\ Patient \in BOOLEAN
  /\ MaxCrashes \in Nat

HubAccount == {Hub} \X HubAccountType
Account    == (Participant \X AccountType) \union HubAccount

VARIABLES
  participant,   \* participant: absent, or isActive
  account,       \* participantCurrency: absent, or isActive
  limit,         \* participantLimit, in the order of its ids
  positions,     \* the number of participantPosition rows of an account
  models,        \* settlementModel: absent, or isActive
  cache, pending,\* a process's cached rows, and the rows a generate has read
  worker,        \* what each worker is doing
  unsent,        \* requests
  announced,     \* LIMIT_ADJUSTMENT notifications
  byHand,        \* auxiliary: accounts switched on by updateAccount
  crashes        \* auxiliary

rows   == <<participant, account, limit, positions, models>>
caches == <<cache, pending>>
vars   == <<rows, caches, worker, unsent, announced, byHand, crashes>>

Flag    == {"absent", "inactive", "active"}
Nothing == [empty |-> TRUE]
Idle    == [step |-> "idle"]
Row(n, v, on) == [participant |-> n, value |-> v, isActive |-> on]

Rows(table) == CASE table = "participant" -> participant
                 [] table = "participantCurrency" -> account
                 [] table = "participantLimit" -> limit
                 [] table = "settlementModel" -> models

Active(n) == {i \in DOMAIN limit : limit[i].participant = n /\ limit[i].isActive}

\* Types, and the foreign keys of limits and positions.
TypeOK ==
  /\ participant \in [Participant \union {Hub} -> Flag]
  /\ account \in [Account -> Flag]
  /\ \A i \in DOMAIN limit : account[<<limit[i].participant, Position>>] # "absent"
  /\ positions \in [Account -> Nat]
  /\ \A a \in Account : positions[a] > 0 => account[a] # "absent"
  /\ \A a \in Account : account[a] # "absent" => participant[a[1]] # "absent"
  /\ models \in [Model -> Flag]
  /\ unsent \subseteq Request
  /\ announced \subseteq Request
  /\ byHand \subseteq Account
  /\ crashes \in 0..MaxCrashes

Init ==
  /\ participant = [n \in Participant \union {Hub} |-> IF n = Hub THEN "active" ELSE "absent"]
  /\ account = [a \in Account |-> "absent"]
  /\ limit = <<>>
  /\ positions = [a \in Account |-> 0]
  /\ models = [m \in Model |-> IF m \in OwnCurrency THEN "absent" ELSE "active"]
  /\ cache = [p \in Process |-> [t \in CachedTable |-> Nothing]]
  /\ pending = cache
  /\ worker = [w \in Worker |-> Idle]
  /\ unsent = Request
  /\ announced = {} /\ byHand = {} /\ crashes = 0

-----------------------------------------------------------------------------
(* Caches.                                                                  *)

(* A get that finds no entry reads the table, and stores later what it read,*)
(* whatever was dropped meanwhile.                                          *)
Generate(p, t) ==
  /\ cache[p][t] = Nothing /\ pending[p][t] = Nothing
  /\ pending' = [pending EXCEPT ![p][t] = [rows |-> Rows(t)]]
  /\ UNCHANGED <<rows, cache, worker, unsent, announced, byHand, crashes>>

Store(p, t) ==
  /\ pending[p][t] # Nothing
  /\ cache' = [cache EXCEPT ![p][t] = pending[p][t]]
  /\ pending' = [pending EXCEPT ![p][t] = Nothing]
  /\ UNCHANGED <<rows, worker, unsent, announced, byHand, crashes>>

\* Mutant: an entry lives until its process drops it.
NeverExpires(p, t) == FALSE
Expires(p, t) == cache[p][t] # Nothing

Expire(p, t) ==
  /\ Expires(p, t)
  /\ cache' = [cache EXCEPT ![p][t] = Nothing]
  /\ UNCHANGED <<rows, pending, worker, unsent, announced, byHand, crashes>>

Drop(w, tables) ==
  cache' = [cache EXCEPT ![ProcessOf[w]] =
             [t \in CachedTable |-> IF t \in tables THEN Nothing ELSE cache[ProcessOf[w]][t]]]

CanRead(w, tables) == \A t \in tables \intersect CachedTable : cache[ProcessOf[w]][t] # Nothing
Seen(p, t) == IF t \in CachedTable THEN cache[p][t].rows ELSE Rows(t)
View(w, t) == Seen(ProcessOf[w], t)

ParticipantExists(p, n)  == Seen(p, "participant")[n] # "absent"
AccountFound(p, a)       == Seen(p, "participantCurrency")[a] # "absent"

-----------------------------------------------------------------------------
Doing(w, step) == worker[w].step = step
Asked(w) == worker[w].request
Become(w, op) == worker' = [worker EXCEPT ![w] = op]
Answer(w) == Become(w, Idle)

Asking(kind, n) ==
  \E w \in Worker : ~Doing(w, "idle") /\ Asked(w).kind = kind /\ Asked(w).participant = n

InHand(r) == \E w \in Worker : ~Doing(w, "idle") /\ Asked(w) = r

(* A request reaches a worker.                                              *)
Receive(w) ==
  /\ Doing(w, "idle")
  /\ \E r \in unsent :
       /\ Patient /\ r.kind = "addLimitAndInitialPosition" => ~Asking(r.kind, r.participant)
       /\ \A q \in Request : q.stage < r.stage => q \notin unsent /\ ~InHand(q)
       /\ unsent' = unsent \ {r}
       /\ Become(w, [step |-> r.kind, request |-> r])
  /\ UNCHANGED <<rows, caches, announced, byHand, crashes>>

(* The account with its position, in one transaction.                       *)
CreateHubAccount(w) ==
  /\ Doing(w, "createHubAccount")
  /\ CanRead(w, {"participant", "participantCurrency"})
  /\ LET a == <<Hub, Asked(w).type>>
     IN  IF account[a] = "absent"
         THEN /\ account' = [account EXCEPT ![a] = "active"]
              /\ positions' = [positions EXCEPT ![a] = 1]
              /\ Drop(w, {"participantCurrency"})
         ELSE UNCHANGED <<account, positions, cache>>
  /\ Answer(w)
  /\ UNCHANGED <<participant, limit, models, pending, unsent, announced, byHand, crashes>>

(* The name is unique, and so is the currency with the ledger account type. *)
NameTaken(m) == models[m] # "absent"
LedgerTaken(m) == \E k \in OwnCurrency : models[k] # "absent" /\ LedgerOf[k] = LedgerOf[m]

CreateSettlementModel(w) ==
  /\ Doing(w, "createSettlementModel")
  /\ LET m == Asked(w).model
     IN  models' = IF NameTaken(m) \/ LedgerTaken(m) THEN models ELSE [models EXCEPT ![m] = "active"]
  /\ Answer(w)
  /\ UNCHANGED <<participant, account, limit, positions, caches, unsent, announced, byHand, crashes>>

UpdateSettlementModel(w) ==
  /\ Doing(w, "updateSettlementModel")
  /\ LET m == Asked(w).model
     IN  models' = IF models[m] = "absent" THEN models
                   ELSE [models EXCEPT ![m] = Asked(w).flag]
  /\ Answer(w)
  /\ UNCHANGED <<participant, account, limit, positions, caches, unsent, announced, byHand, crashes>>

ActiveModels == {m \in Model : models[m] = "active"}
Own     == ActiveModels \intersect OwnCurrency
Default == ActiveModels \ OwnCurrency
AccountsOf(n, ms) == {<<n, LedgerOf[m]>> : m \in ms} \union {<<n, SettlementOf[m]>> : m \in ms}
AddingAccounts(w, failed, order, left) ==
  [step |-> "accounts", request |-> Asked(w), failed |-> failed, models |-> order, left |-> left]

CurrencyList(p, n) == {a \in Account : a[1] = n /\ AccountFound(p, a)}
HubAccountsExist(p) == \A t \in HubAccountType : AccountFound(p, <<Hub, t>>)

(* The participant, unless it is there; refused if it has any account.  Its *)
(* accounts are added outside of any transaction: a model's two together,   *)
(* one model after the other.                                               *)
Create(w) ==
  /\ Doing(w, "create")
  /\ CanRead(w, {"participant", "participantCurrency"})
  /\ LET n  == Asked(w).participant
         ms == IF Own # {} THEN Own ELSE Default
         p  == ProcessOf[w]
         Known   == ParticipantExists(p, n)
         Refused == \/ ~HubAccountsExist(p)
                    \/ Known /\ CurrencyList(p, n) # {}
                    \/ ~Known /\ participant[n] # "absent"
     IN  IF Refused THEN Answer(w) /\ UNCHANGED <<participant, cache>>
         ELSE /\ participant' = [participant EXCEPT ![n] = IF Known THEN @ ELSE "active"]
              /\ IF Known THEN UNCHANGED cache ELSE Drop(w, {"participant"})
              /\ IF ms = {} THEN Answer(w)
                 ELSE \E order \in SetToSeqs(ms) :
                        Become(w, AddingAccounts(w, FALSE, order, AccountsOf(n, {order[1]})))
  /\ UNCHANGED <<account, limit, positions, models, pending, unsent, announced, byHand, crashes>>

CreateParticipantCurrency(w) ==
  /\ Doing(w, "accounts")
  /\ \E a \in worker[w].left :
       LET taken  == account[a] # "absent"
           failed == worker[w].failed \/ taken
           left   == worker[w].left \ {a}
           next   == Tail(worker[w].models)
       IN  /\ account' = IF taken THEN account ELSE [account EXCEPT ![a] = "inactive"]
           /\ IF taken THEN UNCHANGED cache ELSE Drop(w, {"participantCurrency"})
           /\ \/ left # {} /\ Become(w, AddingAccounts(w, failed, worker[w].models, left))
              \/ left = {} /\ (failed \/ next = <<>>) /\ Answer(w)
              \/ /\ left = {} /\ ~failed /\ next # <<>>
                 /\ Become(w, AddingAccounts(w, FALSE, next, AccountsOf(a[1], {next[1]})))
  /\ UNCHANGED <<participant, limit, positions, models, pending, unsent, announced, byHand, crashes>>

Update(w) ==
  /\ Doing(w, "update")
  /\ CanRead(w, {"participant"})
  /\ LET n == Asked(w).participant
         found == ParticipantExists(ProcessOf[w], n)
     IN  /\ participant' = IF found THEN [participant EXCEPT ![n] = Asked(w).flag] ELSE participant
         /\ IF found THEN Drop(w, {"participant"}) ELSE UNCHANGED cache
  /\ Answer(w)
  /\ UNCHANGED <<account, limit, positions, models, pending, unsent, announced, byHand, crashes>>

(* Only a POSITION account can be switched.                                 *)
UpdateAccount(w) ==
  /\ Doing(w, "updateAccount")
  /\ CanRead(w, {"participant", "participantCurrency"})
  /\ LET a == <<Asked(w).participant, Position>>
         found == AccountFound(ProcessOf[w], a)
     IN  /\ account' = IF found THEN [account EXCEPT ![a] = Asked(w).flag] ELSE account
         /\ IF found THEN Drop(w, {"participantCurrency"}) ELSE UNCHANGED cache
         /\ byHand' = IF found THEN byHand \union {a} ELSE byHand
  /\ Answer(w)
  /\ UNCHANGED <<participant, limit, positions, models, pending, unsent, announced, crashes>>

-----------------------------------------------------------------------------
HasAccounts(w, n) == \A t \in {Position, Settlement} : AccountFound(ProcessOf[w], <<n, t>>)

AlreadySet(n) == Active(n) # {} \/ positions[<<n, Position>>] > 0 \/ positions[<<n, Settlement>>] > 0

(* The initial position and the limit: refused when they are set, announced *)
(* and then set.                                                            *)
AddLimitAndInitialPosition(w) ==
  /\ Doing(w, "addLimitAndInitialPosition")
  /\ CanRead(w, Table)
  /\ LET n == Asked(w).participant
     IN  IF ~HasAccounts(w, n) \/ AlreadySet(n)
         THEN Answer(w) /\ UNCHANGED announced
         ELSE /\ announced' = announced \union {Asked(w)}
              /\ Become(w, [step |-> "insertLimit", request |-> Asked(w)])
  /\ UNCHANGED <<rows, caches, unsent, byHand, crashes>>

Positioned(n) == IF Own # {} THEN AccountsOf(n, Own) ELSE {<<n, Position>>, <<n, Settlement>>}
\* A pair of rows for each model: an account type that two of them name gets two.
Inserted(a) ==
  IF Own = {} THEN 1
  ELSE Cardinality({m \in Own : LedgerOf[m] = a[2]}) + Cardinality({m \in Own : SettlementOf[m] = a[2]})
\* Mutant: every account of the participant is switched on.
ActivatesAll(n) == {a \in Account : a[1] = n /\ account[a] # "absent"}
Activates(n) == Positioned(n)
\* Mutant: the accounts of a model are taken to be there.
TakenToExist(w, n) == TRUE
AllExist(w, n) == \A a \in Positioned(n) : AccountFound(ProcessOf[w], a)

(* Inside the transaction: the rows are written, the caches dropped.  An    *)
(* account of a model that the participant lacks rolls everything back.     *)
InsertLimit(w) ==
  /\ Doing(w, "insertLimit")
  /\ CanRead(w, {"participant", "participantCurrency"})
  /\ LET n == Asked(w).participant
     IN  IF AllExist(w, n)
         THEN /\ Drop(w, {"participantCurrency", "participantLimit"})
              /\ Become(w, [step |-> "commitLimit", request |-> Asked(w),
                            positioned |-> [a \in Positioned(n) |-> Inserted(a)],
                            activated |-> Activates(n)])
         ELSE Answer(w) /\ UNCHANGED cache
  /\ UNCHANGED <<rows, pending, unsent, announced, byHand, crashes>>

\* Mutant: the active row is read without FOR UPDATE.
ReadUnlocked(n) == TRUE
RowsFree(n) == \A w \in Worker : ~(Doing(w, "commitAdjust") /\ Asked(w).participant = n)

CommitLimit(w) ==
  /\ Doing(w, "commitLimit")
  /\ LET n == Asked(w).participant
     IN  /\ RowsFree(n)
         /\ limit' = Append(limit, Row(n, Asked(w).value, TRUE))
         /\ positions' = [a \in Account |-> positions[a] + (IF a \in DOMAIN worker[w].positioned THEN worker[w].positioned[a] ELSE 0)]
         /\ account' = [a \in Account |-> IF a \in worker[w].activated /\ account[a] # "absent" THEN "active" ELSE account[a]]
  /\ Answer(w)
  /\ UNCHANGED <<participant, models, caches, unsent, announced, byHand, crashes>>

(* SELECT ... FOR UPDATE of the active limit waits for another adjustment.  *)
AdjustLimits(w) ==
  /\ Doing(w, "adjustLimits")
  /\ CanRead(w, {"participant", "participantCurrency"})
  /\ LET n == Asked(w).participant
     IN  /\ RowsFree(n)
         /\ IF ~AccountFound(ProcessOf[w], <<n, Position>>) \/ Active(n) = {}
            THEN Answer(w) /\ UNCHANGED cache
            ELSE /\ Drop(w, {"participantLimit"})
                 /\ Become(w, [step |-> "commitAdjust", request |-> Asked(w),
                               existing |-> CHOOSE i \in Active(n) : \A j \in Active(n) : i <= j])
  /\ UNCHANGED <<rows, pending, unsent, announced, byHand, crashes>>

CommitAdjust(w) ==
  /\ Doing(w, "commitAdjust")
  /\ limit' = Append([limit EXCEPT ![worker[w].existing] = Row(@.participant, @.value, FALSE)],
                     Row(Asked(w).participant, Asked(w).value, TRUE))
  /\ announced' = announced \union {Asked(w)}
  /\ Answer(w)
  /\ UNCHANGED <<participant, account, positions, models, caches, unsent, byHand, crashes>>

(* The process of a worker dies: nothing is rolled forward, nobody answers. *)
Die(p) ==
  /\ crashes < MaxCrashes
  /\ \E w \in Worker : ProcessOf[w] = p /\ ~Doing(w, "idle")
  /\ worker' = [w \in Worker |-> IF ProcessOf[w] = p THEN Idle ELSE worker[w]]
  /\ cache' = [cache EXCEPT ![p] = [t \in CachedTable |-> Nothing]]
  /\ pending' = [pending EXCEPT ![p] = [t \in CachedTable |-> Nothing]]
  /\ crashes' = crashes + 1
  /\ UNCHANGED <<rows, unsent, announced, byHand>>

Serve(w) ==
  \/ CreateHubAccount(w) \/ CreateSettlementModel(w) \/ UpdateSettlementModel(w)
  \/ Create(w) \/ CreateParticipantCurrency(w) \/ Update(w) \/ UpdateAccount(w)
  \/ AddLimitAndInitialPosition(w) \/ InsertLimit(w) \/ CommitLimit(w)
  \/ AdjustLimits(w) \/ CommitAdjust(w)

Finished == unsent = {} /\ (\A w \in Worker : Doing(w, "idle")) /\ UNCHANGED vars

Next ==
  \/ \E w \in Worker : Receive(w) \/ Serve(w)
  \/ \E p \in Process, t \in CachedTable : Generate(p, t) \/ Store(p, t) \/ Expire(p, t)
  \/ \E p \in Process : Die(p)
  \/ Finished

Spec == Init /\ [][Next]_vars

(* A process goes on with its requests, a get generates and its entry       *)
(* expires: the timer of the cache runs whatever the code does.             *)
FairSpec ==
  /\ Spec
  /\ \A w \in Worker : SF_vars(Serve(w)) /\ WF_vars(Receive(w))
  /\ \A p \in Process, t \in CachedTable :
       WF_vars(Generate(p, t)) /\ WF_vars(Store(p, t)) /\ WF_vars(Expire(p, t))

-----------------------------------------------------------------------------
(* What a position message is checked against in process p, if anything.    *)
CacheFull(p) == \A t \in CachedTable : cache[p][t] # Nothing
Open(participants, accounts, n) == participants[n] = "active" /\ accounts[<<n, Position>>] = "active"

LimitUsed(p, n) ==
  LET seen == Seen(p, "participantLimit")
      of   == {i \in DOMAIN seen : seen[i].participant = n}
      last == CHOOSE i \in of : \A j \in of : j <= i
  IN  IF Open(Seen(p, "participant"), Seen(p, "participantCurrency"), n) /\ of # {} /\ seen[last].isActive
      THEN {seen[last].value} ELSE {}

(* The settlement model it is under, and the account that has to cover it:  *)
(* without one the position handler fails.                                  *)
ModelsFor(p) ==
  LET active == {m \in Model : Seen(p, "settlementModel")[m] = "active"}
  IN  IF active \intersect OwnCurrency # {} THEN active \intersect OwnCurrency ELSE active \ OwnCurrency
PositionModel(p) == {m \in ModelsFor(p) : LedgerOf[m] = Position}
CoveringAccount(p, n) == {a \in {<<n, SettlementOf[m]>> : m \in PositionModel(p)} : positions[a] > 0}

(* What the API shows: the limits of every participant, those of one for a  *)
(* currency, whose account need not be active, and for any, whose must be.  *)
GetLimitsForAllParticipants ==
  {<<limit[i].participant, limit[i].value>> :
     i \in {j \in DOMAIN limit : limit[j].isActive /\ Open(participant, account, limit[j].participant)}}

LimitsByCurrency(n) == {limit[i].value : i \in Active(n)}
LimitsByParticipant(n) == IF account[<<n, Position>>] = "active" THEN LimitsByCurrency(n) ELSE {}

GetLimits(p, n, byCurrency) ==
  CASE ~ParticipantExists(p, n) -> {}
    [] byCurrency -> IF AccountFound(p, <<n, Position>>) THEN LimitsByCurrency(n) ELSE {}
    [] OTHER -> LimitsByParticipant(n)

(* A row for each position of an account, whatever is active; and those of  *)
(* the active accounts that hold positions.                                 *)
AccountRows(n) == {a \in Account : a[1] = n /\ positions[a] > 0}
PositionRows(n) == {a \in AccountRows(n) : Open(participant, account, n) /\ a[2] = Position}
GetAccounts(p, n)  == IF ParticipantExists(p, n) THEN AccountRows(n) ELSE {}
GetPositions(p, n) == IF ParticipantExists(p, n) THEN PositionRows(n) ELSE {}

(* An account has one limit that counts, however adjustments interleave:    *)
(* adjustLimits locks the active row before it replaces it.                 *)
OneActiveLimit == \A n \in Participant : Cardinality(Active(n)) <= 1

(* An account that the limit's transaction switched on can be posted to: it *)
(* has a position row, even when models change between the registration and *)
(* the limit.                                                               *)
ActiveHasPosition ==
  \A a \in Account \ byHand : account[a] = "active" => positions[a] > 0

(* However drops, reads and commits interleave, a change reaches every      *)
(* process: in the end position messages are checked against the limit that *)
(* GET /participants/limits shows, and against none when the participant or *)
(* its account is closed; and a participant that is checked has an account  *)
(* that covers it, and is shown its limit, its position and its accounts.   *)
CoveredAndShown(p, n) ==
  /\ CoveringAccount(p, n) # {} /\ CoveringAccount(p, n) \subseteq GetAccounts(p, n)
  /\ \A byCurrency \in BOOLEAN : LimitUsed(p, n) \subseteq GetLimits(p, n, byCurrency)
  /\ <<n, Position>> \in GetPositions(p, n) \intersect GetAccounts(p, n)

LimitsTakeEffect ==
  \A p \in Process, n \in Participant :
    <>[](CacheFull(p) => /\ {<<n, v>> : v \in LimitUsed(p, n)} = {l \in GetLimitsForAllParticipants : l[1] = n}
                         /\ LimitUsed(p, n) # {} => CoveredAndShown(p, n))
================================================================================
