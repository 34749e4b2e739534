----------------------- MODULE ParticipantAccounts_proofs -----------------------
(***************************************************************************)
(* Proofs about ParticipantAccounts, for any participants, models, requests,*)
(* processes, cached tables and crashes.  That one limit counts needs an    *)
(* operator who waits for the answer before asking for a participant's      *)
(* first limit again (Patient); the rest holds for any.                     *)
(***************************************************************************)
EXTENDS ParticipantAccounts, FiniteSetTheorems, SequenceTheorems, TLAPS

LimitRow == [participant : Participant, value : Nat, isActive : BOOLEAN]

(***************************************************************************)
(* The inductive invariant.                                                *)
(***************************************************************************)
LimitTypes ==
  /\ limit \in Seq(LimitRow)
  /\ DOMAIN worker = Worker
  /\ unsent \subseteq Request

Busy(w)   == ~Doing(w, "idle")
Adding(w) == Busy(w) /\ Asked(w).kind = "addLimitAndInitialPosition"
Adjusts(w) == Doing(w, "commitAdjust")

(* What a worker relies on: no limit is active while it sets the first one, *)
(* and the one it replaces still is.                                        *)
Relies(w) ==
  /\ Busy(w) => Asked(w) \in Request
  /\ worker[w].step \in Kind => Asked(w).kind = worker[w].step
  /\ worker[w].step \in {"insertLimit", "commitLimit"} => Adding(w) /\ Active(Asked(w).participant) = {}
  /\ Adjusts(w) => Asked(w).kind = "adjustLimits" /\ worker[w].existing \in Active(Asked(w).participant)

Alone ==
  \A v, w \in Worker :
    v # w /\ Asked(v).participant = Asked(w).participant =>
      ~(Adding(v) /\ Adding(w)) /\ ~(Adjusts(v) /\ Adjusts(w))

AtMostOne == \A n \in Participant : \A i, j \in Active(n) : i = j

LimitInv ==
  /\ LimitTypes
  /\ \A w \in Worker : Relies(w)
  /\ Alone
  /\ AtMostOne

(***************************************************************************)
(* The rows of participantLimit.                                           *)
(***************************************************************************)
LEMMA RowAppended ==
  ASSUME NEW base \in Seq(LimitRow), NEW n \in Participant, NEW v \in Nat
  PROVE  /\ Append(base, Row(n, v, TRUE)) \in Seq(LimitRow)
         /\ DOMAIN Append(base, Row(n, v, TRUE)) = DOMAIN base \union {Len(base) + 1}
         /\ Len(base) + 1 \notin DOMAIN base
         /\ Append(base, Row(n, v, TRUE))[Len(base) + 1] = Row(n, v, TRUE)
         /\ \A i \in DOMAIN base : Append(base, Row(n, v, TRUE))[i] = base[i]
<1> DEFINE row == Row(n, v, TRUE)
<1>1. row \in LimitRow
  BY DEF Row, LimitRow
<1> HIDE DEF row
<1>2. Len(base) \in Nat /\ DOMAIN base = 1..Len(base)
  BY LenProperties
<1>3. /\ Append(base, row) \in Seq(LimitRow) /\ Len(Append(base, row)) = Len(base) + 1
      /\ Append(base, row)[Len(base) + 1] = row
      /\ \A i \in 1..Len(base) : Append(base, row)[i] = base[i]
  BY <1>1, AppendProperties
<1>4. DOMAIN Append(base, row) = 1..(Len(base) + 1)
  BY <1>3, LenProperties
<1>5. 1..(Len(base) + 1) = 1..Len(base) \union {Len(base) + 1}
  BY <1>2
<1>6. Len(base) + 1 \notin DOMAIN base
  BY <1>2
<1>7. DOMAIN Append(base, row) = DOMAIN base \union {Len(base) + 1}
  BY <1>2, <1>4, <1>5
<1>8. \A i \in DOMAIN base : Append(base, row)[i] = base[i]
  BY <1>2, <1>3
<1> QED
  BY <1>3, <1>6, <1>7, <1>8, Zenon DEF row

(* What becomes of the active limits when one is added, or replaced.        *)
LEMMA ActiveAfterAppend ==
  ASSUME limit \in Seq(LimitRow), NEW n \in Participant, NEW v \in Nat,
         limit' = Append(limit, Row(n, v, TRUE))
  PROVE  /\ limit' \in Seq(LimitRow)
         /\ Active(n)' = Active(n) \union {Len(limit) + 1}
         /\ \A m \in Participant \ {n} : Active(m)' = Active(m)
BY RowAppended DEF Active, Row

LEMMA ActiveAfterAdjust ==
  ASSUME limit \in Seq(LimitRow), NEW n \in Participant, NEW v \in Nat, NEW i \in Active(n),
         limit' = Append([limit EXCEPT ![i] = Row(@.participant, @.value, FALSE)], Row(n, v, TRUE))
  PROVE  /\ limit' \in Seq(LimitRow)
         /\ Active(n)' = (Active(n) \ {i}) \union {Len(limit) + 1}
         /\ \A m \in Participant \ {n} : Active(m)' = Active(m)
<1> DEFINE off == Row(limit[i].participant, limit[i].value, FALSE)
           base == [limit EXCEPT ![i] = off]
<1>1. i \in DOMAIN limit /\ limit[i].participant = n /\ DOMAIN limit = 1..Len(limit)
  BY LenProperties DEF Active
<1>2. off \in LimitRow
  <2>1. limit[i] \in LimitRow
    BY <1>1, ElementOfSeq
  <2> QED
    BY <2>1 DEF LimitRow, Row
<1>3. off.participant = n /\ off.isActive = FALSE
  BY <1>1 DEF Row
<1>4. limit' = Append(base, Row(n, v, TRUE))
  OBVIOUS
<1> HIDE DEF off
<1>5. /\ base \in Seq(LimitRow) /\ Len(base) = Len(limit)
      /\ \A j \in 1..Len(limit) : base[j] = IF j = i THEN off ELSE limit[j]
  BY <1>1, <1>2, ExceptSeq
<1> HIDE DEF base
<1>6. DOMAIN base = DOMAIN limit
  BY <1>1, <1>5, LenProperties
<1>7. base[i].participant = n /\ base[i].isActive = FALSE
  BY <1>1, <1>3, <1>5
<1> DEFINE new == Append(base, Row(n, v, TRUE))
           k == Len(limit) + 1
<1>8. /\ new \in Seq(LimitRow)
      /\ DOMAIN new = DOMAIN limit \union {k} /\ k \notin DOMAIN limit
      /\ new[k] = Row(n, v, TRUE)
      /\ \A j \in DOMAIN limit : new[j] = base[j]
  <2>1. base \in Seq(LimitRow)
    BY <1>5
  <2>2. /\ new \in Seq(LimitRow)
        /\ DOMAIN new = DOMAIN base \union {Len(base) + 1} /\ Len(base) + 1 \notin DOMAIN base
        /\ new[Len(base) + 1] = Row(n, v, TRUE)
        /\ \A j \in DOMAIN base : new[j] = base[j]
    BY <2>1, RowAppended, Zenon
  <2> QED
    BY <1>5, <1>6, <2>2
<1>9. limit' = new
  BY <1>4
<1> HIDE DEF new
<1>10. new[k].participant = n /\ new[k].isActive = TRUE
  BY <1>8 DEF Row
<1>11. \A j \in DOMAIN limit \ {i} : new[j] = limit[j]
  BY <1>1, <1>5, <1>8
<1>12. new[i].isActive = FALSE /\ new[i].participant = n
  BY <1>1, <1>7, <1>8
<1> HIDE DEF k
<1>13. Active(n)' = (Active(n) \ {i}) \union {k}
  BY <1>1, <1>8, <1>9, <1>10, <1>11, <1>12 DEF Active
<1>14. ASSUME NEW m \in Participant \ {n}
       PROVE  Active(m)' = Active(m)
  <2>1. \A j : j \in DOMAIN new /\ new[j].participant = m /\ new[j].isActive
                 => j \in DOMAIN limit \ {i}
    BY <1>1, <1>8, <1>10, <1>12
  <2>2. \A j : j \in DOMAIN limit /\ limit[j].participant = m => j \in DOMAIN new \ {i, k}
    BY <1>1, <1>8
  <2>3. Active(m)' = {j \in DOMAIN new : new[j].participant = m /\ new[j].isActive}
    BY <1>9 DEF Active
  <2> QED
    BY <1>11, <2>1, <2>2, <2>3 DEF Active
<1> QED
  BY <1>8, <1>9, <1>13, <1>14, Zenon DEF k

(***************************************************************************)
(* The invariant.                                                          *)
(***************************************************************************)
LEMMA LimitInit == Init => LimitInv
<1> SUFFICES ASSUME Init PROVE LimitInv
  OBVIOUS
<1>1. \A w \in Worker : worker[w] = Idle
  BY DEF Init
<1>2. Idle.step = "idle"
  BY DEF Idle
<1>3. \A n : Active(n) = {}
  BY DEF Init, Active
<1>4. LimitTypes
  BY DEF Init, LimitTypes
<1>5. \A w \in Worker : Relies(w)
  BY <1>1, <1>2 DEF Relies, Busy, Adding, Adjusts, Doing, Kind
<1>6. Alone
  BY <1>1, <1>2 DEF Alone, Busy, Adding, Adjusts, Doing
<1>7. AtMostOne
  BY <1>3 DEF AtMostOne
<1> QED
  BY <1>4, <1>5, <1>6, <1>7 DEF LimitInv

(* A worker that stays, answers, or adds accounts relies on nothing new.    *)
Harmless(w) ==
  \/ worker'[w] = worker[w]
  \/ worker'[w].step = "idle"
  \/ /\ worker'[w].step = "accounts" /\ Busy(w)
     /\ worker'[w].request = worker[w].request

LEMMA WorkersKept ==
  ASSUME LimitInv, UNCHANGED limit, \A w \in Worker : Harmless(w)
  PROVE  (\A w \in Worker : Relies(w))' /\ Alone' /\ AtMostOne'
<1>1. \A n : Active(n)' = Active(n)
  BY DEF Active
<1>2. \A w \in Worker : /\ Busy(w)' => Busy(w) /\ Asked(w)' = Asked(w)
                        /\ Adding(w)' => Adding(w)
                        /\ Adjusts(w)' => Adjusts(w)
  BY DEF Harmless, Busy, Adding, Adjusts, Doing, Asked
<1>3. ASSUME NEW w \in Worker PROVE Relies(w)'
  <2>1. CASE worker'[w] = worker[w]
    BY <1>1, <2>1 DEF LimitInv, Relies, Busy, Adding, Adjusts, Doing, Asked
  <2>2. CASE worker'[w].step = "idle"
    BY <2>2 DEF Relies, Busy, Adjusts, Doing, Kind
  <2>3. CASE worker'[w].step = "accounts" /\ Busy(w) /\ worker'[w].request = worker[w].request
    BY <2>3 DEF LimitInv, Relies, Busy, Adjusts, Doing, Asked, Kind
  <2> QED
    BY <2>1, <2>2, <2>3 DEF Harmless
<1>4. Alone'
  <2>1. \A w \in Worker : (Adding(w)' \/ Adjusts(w)') => Busy(w)'
    BY DEF Adding, Adjusts, Busy, Doing
  <2> QED
    BY <1>2, <2>1 DEF LimitInv, Alone
<1>5. AtMostOne'
  BY <1>1 DEF LimitInv, AtMostOne
<1> QED
  BY <1>3, <1>4, <1>5

LEMMA BecomeOnly ==
  ASSUME LimitTypes, NEW w \in Worker, NEW op, Become(w, op)
  PROVE  /\ DOMAIN worker' = Worker /\ worker'[w] = op
         /\ \A v \in Worker \ {w} : worker'[v] = worker[v]
BY DEF LimitTypes, Become

LEMMA AnswerIsHarmless ==
  ASSUME LimitTypes, NEW w \in Worker, Answer(w)
  PROVE  DOMAIN worker' = Worker /\ \A v \in Worker : Harmless(v)
<1>1. DOMAIN worker' = Worker /\ worker'[w] = Idle /\ \A v \in Worker \ {w} : worker'[v] = worker[v]
  BY BecomeOnly DEF Answer
<1> QED
  BY <1>1 DEF Harmless, Idle

(* A step that leaves the limits alone.                                     *)
LEMMA LimitsKept ==
  ASSUME LimitInv, UNCHANGED <<limit, unsent>>, DOMAIN worker' = Worker,
         \A w \in Worker : Harmless(w)
  PROVE  LimitInv'
<1>1. LimitTypes'
  BY DEF LimitInv, LimitTypes
<1> QED
  BY <1>1, WorkersKept DEF LimitInv

LEMMA InvReceive ==
  ASSUME LimitInv, Patient, NEW w \in Worker, Receive(w)
  PROVE  LimitInv'
<1>1. PICK r \in unsent :
        /\ r.kind = "addLimitAndInitialPosition" => ~Asking(r.kind, r.participant)
        /\ unsent' = unsent \ {r}
        /\ Become(w, [step |-> r.kind, request |-> r])
  BY DEF Receive
<1>2. r \in Request /\ r.kind \in Kind
  BY AccountsAssumption DEF LimitInv, LimitTypes
<1>3. /\ DOMAIN worker' = Worker /\ worker'[w].step = r.kind /\ worker'[w].request = r
      /\ \A v \in Worker \ {w} : worker'[v] = worker[v]
  BY <1>1, BecomeOnly DEF LimitInv
<1>4. UNCHANGED limit
  BY DEF Receive, rows
<1>5. \A n : Active(n)' = Active(n)
  BY <1>4 DEF Active
<1>6. LimitTypes'
  BY <1>1, <1>3, <1>4 DEF LimitInv, LimitTypes
<1>7. Relies(w)'
  BY <1>2, <1>3 DEF Relies, Busy, Adding, Adjusts, Doing, Asked, Kind
<1>8. ASSUME NEW v \in Worker, v # w PROVE Relies(v)'
  BY <1>3, <1>5, <1>8 DEF LimitInv, Relies, Busy, Adding, Adjusts, Doing, Asked
<1>9. Alone'
  <2>1. ~Adjusts(w)' /\ (Adding(w)' => r.kind = "addLimitAndInitialPosition")
    BY <1>2, <1>3 DEF Adjusts, Adding, Doing, Asked, Kind
  <2>2. \A v \in Worker \ {w} : /\ Adding(v)' <=> Adding(v)
                                /\ Adjusts(v)' <=> Adjusts(v)
                                /\ Asked(v)' = Asked(v)
    BY <1>3 DEF Adding, Adjusts, Busy, Doing, Asked
  <2>3. \A v \in Worker \ {w} :
          r.kind = "addLimitAndInitialPosition" /\ Adding(v) => Asked(v).participant # r.participant
    BY <1>1 DEF Asking, Adding, Busy
  <2>4. Asked(w)' = r
    BY <1>3 DEF Asked
  <2> QED
    BY <2>1, <2>2, <2>3, <2>4 DEF LimitInv, Alone
<1>10. AtMostOne'
  BY <1>5 DEF LimitInv, AtMostOne
<1> QED
  BY <1>6, <1>7, <1>8, <1>9, <1>10 DEF LimitInv

(* Requests that have nothing to do with limits.                            *)
LEMMA InvAccounts ==
  ASSUME LimitInv, NEW w \in Worker,
         CreateHubAccount(w) \/ Create(w) \/ CreateParticipantCurrency(w) \/ UpdateAccount(w)
  PROVE  LimitInv'
<1>1. UNCHANGED <<limit, unsent>>
  BY DEF CreateHubAccount, Create, CreateParticipantCurrency, UpdateAccount
<1>2. Busy(w)
  BY DEF CreateHubAccount, Create, CreateParticipantCurrency, UpdateAccount, Busy, Doing
<1>3. DOMAIN worker' = Worker /\ \A v \in Worker : Harmless(v)
  <2>1. CASE Answer(w)
    BY <2>1, AnswerIsHarmless DEF LimitInv
  <2>2. ASSUME NEW failed, NEW order, NEW left, Become(w, AddingAccounts(w, failed, order, left))
        PROVE  DOMAIN worker' = Worker /\ \A v \in Worker : Harmless(v)
    BY <1>2, <2>2, BecomeOnly DEF LimitInv, Harmless, Asked, AddingAccounts
  <2> QED
    BY <2>1, <2>2 DEF CreateHubAccount, Create, CreateParticipantCurrency, UpdateAccount
<1> QED
  BY <1>1, <1>3, LimitsKept

LEMMA InvOthers ==
  ASSUME LimitInv, NEW w \in Worker,
         CreateSettlementModel(w) \/ UpdateSettlementModel(w) \/ Update(w)
  PROVE  LimitInv'
<1>1. Answer(w) /\ UNCHANGED <<limit, unsent>>
  BY DEF CreateSettlementModel, UpdateSettlementModel, Update
<1>2. DOMAIN worker' = Worker /\ \A v \in Worker : Harmless(v)
  BY <1>1, AnswerIsHarmless DEF LimitInv
<1> QED
  BY <1>1, <1>2, LimitsKept

LEMMA InvDie ==
  ASSUME LimitInv, NEW p \in Process, Die(p)
  PROVE  LimitInv'
<1>1. UNCHANGED <<limit, unsent>>
  BY DEF Die, rows
<1>2. worker' = [w \in Worker |-> IF ProcessOf[w] = p THEN Idle ELSE worker[w]]
  BY DEF Die
<1>3. DOMAIN worker' = Worker /\ \A v \in Worker : Harmless(v)
  BY <1>2 DEF Harmless, Idle
<1> QED
  BY <1>1, <1>3, LimitsKept

(* A worker takes a step with the request it has, the rows stay.            *)
LEMMA WorkerSteps ==
  ASSUME LimitInv, UNCHANGED <<limit, unsent>>, NEW w \in Worker, Busy(w), NEW op,
         Become(w, op), op.request = Asked(w), op.step \notin Kind, op.step # "idle",
         op.step = "commitAdjust" => Asked(w).kind = "adjustLimits",
         Relies(w)', Adjusts(w)' => \A v \in Worker \ {w} : Adjusts(v) => Asked(v).participant # Asked(w).participant
  PROVE  LimitInv'
<1>1. /\ DOMAIN worker' = Worker /\ worker'[w] = op
      /\ \A v \in Worker \ {w} : worker'[v] = worker[v]
  BY BecomeOnly DEF LimitInv
<1>2. LimitTypes'
  BY <1>1 DEF LimitInv, LimitTypes
<1>3. \A n : Active(n)' = Active(n)
  BY DEF Active
<1>4. AtMostOne'
  BY <1>3 DEF LimitInv, AtMostOne
<1>5. ASSUME NEW v \in Worker, v # w PROVE Relies(v)'
  BY <1>1, <1>3, <1>5 DEF LimitInv, Relies, Busy, Adding, Adjusts, Doing, Asked
<1>6. \A v \in Worker : Asked(v)' = Asked(v) /\ (Adding(v)' => Adding(v))
  BY <1>1 DEF Adding, Busy, Doing, Asked
<1>7. \A v \in Worker \ {w} : Adjusts(v)' <=> Adjusts(v)
  BY <1>1 DEF Adjusts, Doing
<1>8. Alone'
  <2>1. SUFFICES ASSUME NEW u \in Worker, NEW v \in Worker, u # v,
                        Asked(u)'.participant = Asked(v)'.participant
                 PROVE  ~(Adding(u)' /\ Adding(v)') /\ ~(Adjusts(u)' /\ Adjusts(v)')
    BY DEF Alone
  <2>2. Asked(u).participant = Asked(v).participant
    BY <1>6, <2>1
  <2>3. ~(Adding(u)' /\ Adding(v)')
    BY <1>6, <2>1, <2>2 DEF LimitInv, Alone
  <2>4. ~(Adjusts(u)' /\ Adjusts(v)')
    BY <1>7, <2>1, <2>2 DEF LimitInv, Alone
  <2> QED
    BY <2>3, <2>4
<1> QED
  BY <1>2, <1>4, <1>5, <1>8 DEF LimitInv

LEMMA InvSetting ==
  ASSUME LimitInv, NEW w \in Worker, AddLimitAndInitialPosition(w) \/ InsertLimit(w)
  PROVE  LimitInv'
<1>1. UNCHANGED <<limit, unsent>> /\ Busy(w)
  BY DEF AddLimitAndInitialPosition, InsertLimit, Busy, Doing, rows
<1>2. CASE Answer(w)
  BY <1>1, <1>2, AnswerIsHarmless, LimitsKept DEF LimitInv
<1>3. CASE AddLimitAndInitialPosition(w) /\ ~Answer(w)
  <2> DEFINE op == [step |-> "insertLimit", request |-> Asked(w)]
  <2>1. Become(w, op) /\ Active(Asked(w).participant) = {}
    BY <1>3 DEF AddLimitAndInitialPosition, AlreadySet
  <2>2. worker'[w] = op
    BY <2>1, BecomeOnly DEF LimitInv
  <2>3. Asked(w) \in Request /\ Asked(w).kind = "addLimitAndInitialPosition"
    BY <1>1, <1>3 DEF LimitInv, Relies, AddLimitAndInitialPosition, Doing, Kind
  <2>4. \A n : Active(n)' = Active(n)
    BY <1>1 DEF Active
  <2>5. Asked(w)' = Asked(w) /\ worker'[w].step = "insertLimit"
    BY <2>2 DEF Asked
  <2>6. Relies(w)' /\ ~Adjusts(w)'
    BY <2>1, <2>3, <2>4, <2>5 DEF Relies, Busy, Adding, Adjusts, Doing, Kind
  <2> QED
    BY <1>1, <2>1, <2>6, WorkerSteps DEF Kind
<1>4. CASE InsertLimit(w) /\ ~Answer(w)
  <2> DEFINE n == Asked(w).participant
             op == [step |-> "commitLimit", request |-> Asked(w),
                    positioned |-> [a \in Positioned(n) |-> Inserted(a)], activated |-> Activates(n)]
  <2>1. Become(w, op) /\ Doing(w, "insertLimit")
    BY <1>4 DEF InsertLimit
  <2>2. worker'[w] = op
    BY <2>1, BecomeOnly DEF LimitInv
  <2>3. Asked(w) \in Request /\ Adding(w) /\ Active(n) = {}
    BY <1>1, <2>1 DEF LimitInv, Relies, Doing
  <2>4. \A m : Active(m)' = Active(m)
    BY <1>1 DEF Active
  <2>5. Asked(w)' = Asked(w) /\ worker'[w].step = "commitLimit"
    BY <2>2 DEF Asked
  <2>7. Relies(w)' /\ ~Adjusts(w)'
    <3>2. Adding(w)' /\ ~Adjusts(w)' /\ Busy(w)' /\ worker'[w].step \notin Kind
      BY <2>3, <2>5 DEF Adding, Busy, Adjusts, Doing, Kind
    <3> HIDE DEF op
    <3> QED
      BY <2>3, <2>4, <2>5, <3>2 DEF Relies
  <2>8. op.request = Asked(w) /\ op.step = "commitLimit"
    OBVIOUS
  <2> HIDE DEF op
  <2> QED
    BY <1>1, <2>1, <2>7, <2>8, WorkerSteps DEF Kind
<1> QED
  BY <1>2, <1>3, <1>4

LEMMA InvAdjust ==
  ASSUME LimitInv, NEW w \in Worker, AdjustLimits(w)
  PROVE  LimitInv'
<1> DEFINE n == Asked(w).participant
<1>1. UNCHANGED <<limit, unsent>> /\ Busy(w) /\ Doing(w, "adjustLimits")
  BY DEF AdjustLimits, Busy, Doing, rows
<1>2. CASE Answer(w)
  BY <1>1, <1>2, AnswerIsHarmless, LimitsKept DEF LimitInv
<1>3. CASE ~Answer(w)
  <2> DEFINE first == CHOOSE i \in Active(n) : \A j \in Active(n) : i <= j
             op == [step |-> "commitAdjust", request |-> Asked(w), existing |-> first]
  <2>1. Become(w, op) /\ Active(n) # {} /\ RowsFree(n)
    BY <1>3 DEF AdjustLimits
  <2>2. Asked(w) \in Request /\ Asked(w).kind = "adjustLimits"
    BY <1>1 DEF LimitInv, Relies, Doing, Kind
  <2>3. first \in Active(n)
    <3>1. n \in Participant
      BY <2>2, AccountsAssumption DEF ForParticipant, ForLimit
    <3>2. \A i, j \in Active(n) : i = j
      BY <3>1 DEF LimitInv, AtMostOne
    <3>3. Active(n) \subseteq Nat
      BY LenProperties DEF Active, LimitInv, LimitTypes
    <3>4. \E i \in Active(n) : \A j \in Active(n) : i <= j
      BY <2>1, <3>2, <3>3
    <3> QED
      BY <3>4
  <2> HIDE DEF first
  <2>4. worker'[w] = op
    BY <2>1, BecomeOnly DEF LimitInv
  <2>5. \A m : Active(m)' = Active(m)
    BY <1>1 DEF Active
  <2>6. Asked(w)' = Asked(w) /\ worker'[w].step = "commitAdjust" /\ worker'[w].existing = first
    BY <2>4 DEF Asked
  <2>7. Relies(w)'
    BY <2>2, <2>3, <2>5, <2>6 DEF Relies, Busy, Adding, Adjusts, Doing, Kind
  <2>8. op.request = Asked(w) /\ op.step = "commitAdjust"
    OBVIOUS
  <2>9. \A v \in Worker \ {w} : Adjusts(v) => Asked(v).participant # n
    BY <2>1 DEF RowsFree, Adjusts
  <2> HIDE DEF op
  <2> QED
    BY <1>1, <2>1, <2>2, <2>7, <2>8, <2>9, WorkerSteps DEF Kind
<1> QED
  BY <1>2, <1>3

(* The commits: the worker answers, and no other relies on the limits of    *)
(* its participant.                                                         *)
LEMMA WorkersAfterCommit ==
  ASSUME LimitInv, NEW w \in Worker, Answer(w),
         \A m \in Participant \ {Asked(w).participant} : Active(m)' = Active(m),
         \A v \in Worker \ {w} :
           Asked(v).participant = Asked(w).participant =>
             worker[v].step \notin {"insertLimit", "commitLimit", "commitAdjust"}
  PROVE  DOMAIN worker' = Worker /\ (\A v \in Worker : Relies(v))' /\ Alone'
<1>1. DOMAIN worker' = Worker /\ worker'[w] = Idle /\ \A v \in Worker \ {w} : worker'[v] = worker[v]
  BY BecomeOnly DEF Answer, LimitInv
<1>2. worker'[w].step = "idle"
  BY <1>1 DEF Idle
<1>3. Relies(w)' /\ ~Busy(w)'
  BY <1>2 DEF Relies, Busy, Adjusts, Doing, Kind
<1>4. ASSUME NEW v \in Worker \ {w} PROVE Relies(v)'
  <2>1. worker'[v] = worker[v]
    BY <1>1
  <2>2. /\ Doing(v, "commitLimit")' <=> Doing(v, "commitLimit")
        /\ Asked(v)' = Asked(v) /\ (Busy(v)' <=> Busy(v)) /\ (Adding(v)' <=> Adding(v)) /\ (Adjusts(v)' <=> Adjusts(v))
    BY <2>1 DEF Busy, Adding, Adjusts, Doing, Asked
  <2>3. worker[v].step \in {"insertLimit", "commitLimit", "commitAdjust"} =>
          Active(Asked(v).participant)' = Active(Asked(v).participant)
    <3>1. SUFFICES ASSUME worker[v].step \in {"insertLimit", "commitLimit", "commitAdjust"}
                   PROVE  Asked(v).participant \in Participant
      BY <1>1, <2>2
    <3>2. Asked(v) \in Request /\ Asked(v).kind \in ForLimit
      BY <3>1 DEF LimitInv, Relies, Busy, Adding, Adjusts, Doing, ForLimit
    <3> QED
      BY <3>2, AccountsAssumption DEF ForParticipant
  <2>4. Relies(v)
    BY DEF LimitInv
  <2>5. worker[v].step \in {"insertLimit", "commitLimit"} => (Active(Asked(v).participant) = {})'
    BY <2>2, <2>3, <2>4 DEF Relies
  <2>6. Adjusts(v) => worker[v].existing \in Active(Asked(v).participant)'
    BY <2>3, <2>4 DEF Relies, Adjusts, Doing
  <2> QED
    BY <2>1, <2>2, <2>4, <2>5, <2>6 DEF Relies
<1>5. Alone'
  <2>1. \A v \in Worker : (Adding(v)' \/ Adjusts(v)') => Busy(v)'
    BY DEF Adding, Adjusts, Busy, Doing
  <2>2. \A v \in Worker \ {w} : /\ Asked(v)' = Asked(v)
                                /\ Adding(v)' => Adding(v)
                                /\ Adjusts(v)' => Adjusts(v)
    BY <1>1 DEF Adding, Adjusts, Busy, Doing, Asked
  <2> QED
    BY <1>3, <2>1, <2>2 DEF LimitInv, Alone
<1> QED
  BY <1>1, <1>3, <1>4, <1>5

LEMMA InvCommitLimit ==
  ASSUME LimitInv, NEW w \in Worker, CommitLimit(w)
  PROVE  LimitInv'
<1>n. PICK n : n = Asked(w).participant
  OBVIOUS
<1>1. /\ Doing(w, "commitLimit") /\ RowsFree(n) /\ Answer(w) /\ UNCHANGED unsent
      /\ limit' = Append(limit, Row(n, Asked(w).value, TRUE))
  BY <1>n DEF CommitLimit
<1>2. /\ Adding(w) /\ Active(n) = {} /\ Asked(w) \in Request
  BY <1>n, <1>1 DEF LimitInv, Relies, Busy, Doing
<1>3. n \in Participant /\ Asked(w).value \in Nat
  BY <1>n, <1>2, AccountsAssumption DEF Adding, ForLimit, ForParticipant
<1>4. /\ limit' \in Seq(LimitRow) /\ Active(n)' = {Len(limit) + 1}
      /\ \A m \in Participant \ {n} : Active(m)' = Active(m)
  BY <1>1, <1>2, <1>3, ActiveAfterAppend DEF LimitInv, LimitTypes
<1>5. DOMAIN worker' = Worker /\ (\A v \in Worker : Relies(v))' /\ Alone'
  <2>1. ASSUME NEW v \in Worker \ {w}, Asked(v).participant = n
        PROVE  worker[v].step \notin {"insertLimit", "commitLimit", "commitAdjust"}
    <3>1. ~Doing(v, "commitAdjust")
      BY <1>1, <2>1 DEF RowsFree
    <3>2. ~Adding(v)
      BY <1>n, <1>2, <2>1 DEF LimitInv, Alone
    <3> QED
      BY <3>1, <3>2 DEF LimitInv, Relies, Doing
  <2>2. \A v \in Worker \ {w} :
          Asked(v).participant = Asked(w).participant =>
            worker[v].step \notin {"insertLimit", "commitLimit", "commitAdjust"}
    BY <1>n, <2>1, Zenon
  <2>3. Answer(w) /\ \A m \in Participant \ {Asked(w).participant} : Active(m)' = Active(m)
    BY <1>n, <1>1, <1>4
  <2> QED
    BY <2>2, <2>3, WorkersAfterCommit
<1>6. LimitTypes'
  BY <1>1, <1>4, <1>5 DEF LimitInv, LimitTypes
<1>7. AtMostOne'
  BY <1>4 DEF LimitInv, AtMostOne
<1> QED
  BY <1>5, <1>6, <1>7 DEF LimitInv

LEMMA InvCommitAdjust ==
  ASSUME LimitInv, NEW w \in Worker, CommitAdjust(w)
  PROVE  LimitInv'
<1>n. PICK n, i : n = Asked(w).participant /\ i = worker[w].existing
  OBVIOUS
<1>1. /\ Adjusts(w) /\ Answer(w) /\ UNCHANGED unsent
      /\ limit' = Append([limit EXCEPT ![i] = Row(@.participant, @.value, FALSE)],
                         Row(n, Asked(w).value, TRUE))
  BY <1>n DEF CommitAdjust, Adjusts
<1>2. Asked(w) \in Request /\ Asked(w).kind = "adjustLimits" /\ i \in Active(n)
  BY <1>n, <1>1 DEF LimitInv, Relies, Busy, Adjusts, Doing
<1>3. n \in Participant /\ Asked(w).value \in Nat
  BY <1>n, <1>2, AccountsAssumption DEF ForLimit, ForParticipant
<1>4. /\ limit' \in Seq(LimitRow) /\ Active(n)' = (Active(n) \ {i}) \union {Len(limit) + 1}
      /\ \A m \in Participant \ {n} : Active(m)' = Active(m)
  BY <1>1, <1>2, <1>3, ActiveAfterAdjust DEF LimitInv, LimitTypes
<1>5. Active(n)' = {Len(limit) + 1}
  BY <1>2, <1>3, <1>4 DEF LimitInv, AtMostOne
<1>6. DOMAIN worker' = Worker /\ (\A v \in Worker : Relies(v))' /\ Alone'
  <2>1. ASSUME NEW v \in Worker \ {w}, Asked(v).participant = n
        PROVE  worker[v].step \notin {"insertLimit", "commitLimit", "commitAdjust"}
    <3>1. ~Adjusts(v)
      BY <1>n, <1>1, <2>1 DEF LimitInv, Alone
    <3>2. worker[v].step \notin {"insertLimit", "commitLimit"}
      BY <1>n, <1>2, <2>1 DEF LimitInv, Relies
    <3> QED
      BY <3>1, <3>2 DEF Adjusts, Doing
  <2> QED
    BY <1>1, <1>4, <1>n, <2>1, WorkersAfterCommit
<1>7. LimitTypes'
  BY <1>1, <1>4, <1>6 DEF LimitInv, LimitTypes
<1>8. AtMostOne'
  BY <1>4, <1>5 DEF LimitInv, AtMostOne
<1> QED
  BY <1>6, <1>7, <1>8 DEF LimitInv

LEMMA InvNext ==
  ASSUME LimitInv, Patient, [Next]_vars
  PROVE  LimitInv'
<1>1. CASE UNCHANGED vars
  <2>1. \A w \in Worker : Harmless(w)
    BY <1>1 DEF vars, Harmless
  <2> QED
    BY <1>1, <2>1, LimitsKept DEF vars, rows, LimitInv, LimitTypes
<1>2. ASSUME NEW w \in Worker, Receive(w) PROVE LimitInv'
  BY <1>2, InvReceive
<1>3. ASSUME NEW w \in Worker, Serve(w) PROVE LimitInv'
  BY <1>3, InvAccounts, InvOthers, InvSetting, InvCommitLimit, InvAdjust, InvCommitAdjust DEF Serve
<1>4. ASSUME NEW p \in Process, NEW t \in CachedTable, Generate(p, t) \/ Store(p, t) \/ Expire(p, t)
      PROVE  LimitInv'
  <2>1. UNCHANGED <<limit, unsent, worker>>
    BY <1>4 DEF Generate, Store, Expire, rows
  <2> QED
    BY <2>1, LimitsKept DEF Harmless, LimitInv, LimitTypes
<1>5. ASSUME NEW p \in Process, Die(p) PROVE LimitInv'
  BY <1>5, InvDie
<1> QED
  BY <1>1, <1>2, <1>3, <1>4, <1>5 DEF Next, Finished

LEMMA InvHolds ==
  ASSUME Patient
  PROVE  Spec => []LimitInv
<1>1. LimitInv /\ [Next]_vars => LimitInv'
  BY InvNext
<1> QED
  BY <1>1, LimitInit, PTL DEF Spec

LEMMA OneAtMost ==
  ASSUME LimitInv, NEW n \in Participant
  PROVE  Cardinality(Active(n)) <= 1
<1>1. CASE Active(n) = {}
  BY <1>1, FS_EmptySet
<1>2. CASE Active(n) # {}
  <2>1. PICK i \in Active(n) : TRUE
    BY <1>2
  <2>2. Active(n) = {i}
    BY <2>1 DEF LimitInv, AtMostOne
  <2>3. Cardinality(Active(n)) = 1
    BY <2>2, FS_Singleton, Zenon
  <2> QED
    BY <2>3
<1> QED
  BY <1>1, <1>2

(***************************************************************************)
(* The theorems.                                                           *)
(***************************************************************************)

(* Whatever requests do at the same time, in whatever processes and with    *)
(* whatever cached, a participant has at most one limit that counts, if its *)
(* operator waits for an answer before asking again (Patient).              *)
THEOREM OneLimitCounts ==
  ASSUME Patient
  PROVE  Spec => []OneActiveLimit
<1>1. LimitInv => OneActiveLimit
  BY OneAtMost DEF OneActiveLimit
<1> QED
  BY <1>1, InvHolds, PTL

(***************************************************************************)
(* Types and foreign keys, for any operator, patient or not.  Nothing that  *)
(* is referred to is ever taken away, so that what a process has cached or  *)
(* has found out when it decided still holds when it writes.                *)
(***************************************************************************)
Present(a) == account[a] # "absent"
Member(n)  == participant[n] # "absent"

RowTypes ==
  /\ participant \in [Participant \union {Hub} -> Flag]
  /\ account \in [Account -> Flag]
  /\ limit \in Seq(LimitRow)
  /\ positions \in [Account -> Nat]
  /\ models \in [Model -> Flag]
  /\ unsent \subseteq Request /\ announced \subseteq Request /\ byHand \subseteq Account
  /\ crashes \in 0..MaxCrashes
  /\ DOMAIN worker = Worker

References ==
  /\ Member(Hub)
  /\ \A i \in DOMAIN limit : Present(<<limit[i].participant, Position>>)
  /\ \A a \in Account : (positions[a] > 0 => Present(a)) /\ (Present(a) => Member(a[1]))

WasSo(entry, t) ==
  entry # Nothing =>
    /\ t = "participantCurrency" => \A a \in Account : entry.rows[a] # "absent" => Present(a)
    /\ t = "participant" => \A n \in Participant : entry.rows[n] # "absent" => Member(n)

CachesWereSo ==
  /\ DOMAIN cache = Process /\ \A p \in Process : DOMAIN cache[p] = CachedTable
  /\ DOMAIN pending = Process /\ \A p \in Process : DOMAIN pending[p] = CachedTable
  /\ \A p \in Process, t \in CachedTable : WasSo(cache[p][t], t) /\ WasSo(pending[p][t], t)

Writing == {"insertLimit", "commitLimit", "commitAdjust"}

Serving(w) ==
  /\ Busy(w) => Asked(w) \in Request
  /\ worker[w].step \in Kind => Asked(w).kind = worker[w].step
  /\ Doing(w, "accounts") =>
       /\ worker[w].left \subseteq Participant \X AccountType
       /\ \A a \in worker[w].left : Member(a[1])
       /\ worker[w].models \in Seq(Model) /\ worker[w].models # <<>>
  /\ worker[w].step \in Writing =>
       Asked(w).kind \in ForLimit /\ Present(<<Asked(w).participant, Position>>)
  /\ Doing(w, "commitLimit") =>
       /\ worker[w].activated = DOMAIN worker[w].positioned
       /\ \A a \in worker[w].activated : a \in Account /\ Present(a) /\ worker[w].positioned[a] \in Nat \ {0}
  /\ Doing(w, "commitAdjust") => worker[w].existing \in DOMAIN limit

TablesInv == RowTypes /\ References /\ CachesWereSo /\ \A w \in Worker : Serving(w)

(* Rows are added, and no row is taken away.                                *)
Grows ==
  /\ \A a \in Account : Present(a) => Present(a)'
  /\ \A n \in Participant \union {Hub} : Member(n) => Member(n)'
  /\ DOMAIN limit \subseteq DOMAIN limit'

LEMMA AccountParts ==
  /\ \A n \in Participant : \A t \in AccountType : <<n, t>> \in Account
  /\ \A n \in Participant : <<n, Position>> \in Account /\ <<n, Settlement>> \in Account
  /\ \A t \in HubAccountType : <<Hub, t>> \in Account
  /\ \A a \in Account : a[1] \in Participant \union {Hub}
  /\ \A a \in Participant \X AccountType : a \in Account /\ a[1] \in Participant
BY DEF Account, HubAccount, AccountType

LEMMA ServingKept ==
  ASSUME TablesInv, Grows, NEW v \in Worker,
         worker'[v] = worker[v] \/ worker'[v].step = "idle"
  PROVE  Serving(v)'
<1>1. CASE worker'[v].step = "idle"
  BY <1>1 DEF Serving, Busy, Doing, Kind, Writing
<1>2. CASE worker'[v] = worker[v]
  <2>1. Serving(v)
    BY DEF TablesInv
  <2>2. /\ Busy(v)' <=> Busy(v)
        /\ Asked(v)' = Asked(v)
        /\ \A s : Doing(v, s)' <=> Doing(v, s)
    BY <1>2 DEF Busy, Asked, Doing
  <2>3. Doing(v, "accounts") => \A a \in worker[v].left : Member(a[1])'
    BY <2>1, AccountParts DEF Serving, Grows
  <2>4. worker[v].step \in Writing => Present(<<Asked(v).participant, Position>>)'
    <3>1. worker[v].step \in Writing => Asked(v) \in Request /\ Asked(v).kind \in ForLimit
      BY <2>1 DEF Serving, Busy, Doing, Writing
    <3>2. worker[v].step \in Writing => Asked(v).participant \in Participant
      BY <3>1, AccountsAssumption DEF ForParticipant
    <3>3. worker[v].step \in Writing => <<Asked(v).participant, Position>> \in Account
      BY <3>2, AccountParts
    <3>4. worker[v].step \in Writing => Present(<<Asked(v).participant, Position>>)
      BY <2>1 DEF Serving
    <3> QED
      BY <2>2, <3>3, <3>4 DEF Grows
  <2>5. Doing(v, "commitLimit") => \A a \in worker[v].activated : Present(a)'
    BY <2>1 DEF Serving, Grows
  <2>6. Doing(v, "commitAdjust") => worker[v].existing \in DOMAIN limit'
    BY <2>1 DEF Serving, Grows
  <2> QED
    BY <1>2, <2>1, <2>2, <2>3, <2>4, <2>5, <2>6 DEF Serving
<1> QED
  BY <1>1, <1>2

(* What the steps of a worker leave of the workers, if it answers.          *)
LEMMA ServedAfterAnswer ==
  ASSUME TablesInv, Grows, NEW w \in Worker, Answer(w)
  PROVE  DOMAIN worker' = Worker /\ \A v \in Worker : Serving(v)'
<1>1. /\ DOMAIN worker' = Worker /\ worker'[w] = Idle
      /\ \A v \in Worker \ {w} : worker'[v] = worker[v]
  BY DEF TablesInv, RowTypes, Answer, Become
<1>2. \A v \in Worker : worker'[v] = worker[v] \/ worker'[v].step = "idle"
  BY <1>1 DEF Idle
<1> QED
  BY <1>1, <1>2, ServingKept

(* ... and if it goes on.                                                   *)
LEMMA ServedAfterStep ==
  ASSUME TablesInv, Grows, NEW w \in Worker, NEW op, Become(w, op), Serving(w)'
  PROVE  DOMAIN worker' = Worker /\ \A v \in Worker : Serving(v)'
<1>1. /\ DOMAIN worker' = Worker
      /\ \A v \in Worker \ {w} : worker'[v] = worker[v]
  BY DEF TablesInv, RowTypes, Become
<1> QED
  BY <1>1, ServingKept

LEMMA StepTaken ==
  ASSUME TablesInv, NEW w \in Worker, NEW op, Become(w, op)
  PROVE  worker'[w] = op
BY DEF TablesInv, RowTypes, Become

(* The caches: an entry is dropped, or what a get has read is stored.       *)
LEMMA CachesKept ==
  ASSUME TablesInv, Grows,
         DOMAIN cache' = Process, \A p \in Process : DOMAIN cache'[p] = CachedTable,
         DOMAIN pending' = Process, \A p \in Process : DOMAIN pending'[p] = CachedTable,
         \A p \in Process, t \in CachedTable :
           /\ cache'[p][t] = cache[p][t] \/ cache'[p][t] = Nothing \/ cache'[p][t] = pending[p][t]
           /\ pending'[p][t] = pending[p][t] \/ pending'[p][t] = Nothing
  PROVE  CachesWereSo'
<1>1. \A e, t : WasSo(e, t) => (e # Nothing =>
         /\ t = "participantCurrency" => \A a \in Account : e.rows[a] # "absent" => Present(a)'
         /\ t = "participant" => \A n \in Participant : e.rows[n] # "absent" => Member(n)')
  BY DEF WasSo, Grows
<1>2. ASSUME NEW p \in Process, NEW t \in CachedTable
      PROVE  WasSo(cache[p][t], t)' /\ WasSo(pending[p][t], t)'
  <2>1. WasSo(cache[p][t], t) /\ WasSo(pending[p][t], t)
    BY DEF TablesInv, CachesWereSo
  <2>2. WasSo(cache[p][t], t)'
    BY <1>1, <2>1 DEF WasSo
  <2>3. WasSo(pending[p][t], t)'
    BY <1>1, <2>1 DEF WasSo
  <2> QED
    BY <2>2, <2>3
<1> QED
  BY <1>2 DEF CachesWereSo

LEMMA CachesAfterDrop ==
  ASSUME TablesInv, Grows, NEW w \in Worker, NEW ts, Drop(w, ts) \/ cache' = cache, pending' = pending
  PROVE  CachesWereSo'
<1>1. ProcessOf[w] \in Process
  BY AccountsAssumption
<1>2. /\ DOMAIN cache = Process /\ \A p \in Process : DOMAIN cache[p] = CachedTable
      /\ DOMAIN pending = Process /\ \A p \in Process : DOMAIN pending[p] = CachedTable
  BY DEF TablesInv, CachesWereSo
<1>3. /\ DOMAIN cache' = Process /\ \A p \in Process : DOMAIN cache'[p] = CachedTable
      /\ \A p \in Process, t \in CachedTable : cache'[p][t] = cache[p][t] \/ cache'[p][t] = Nothing
  BY <1>1, <1>2 DEF Drop
<1> QED
  BY <1>2, <1>3, CachesKept

(* What a worker finds through the caches is there.                         *)
LEMMA FoundIsThere ==
  ASSUME TablesInv, NEW w \in Worker, NEW ts, CanRead(w, ts)
  PROVE  /\ "participantCurrency" \in ts =>
              \A a \in Account : AccountFound(ProcessOf[w], a) => Present(a)
         /\ "participant" \in ts =>
              \A n \in Participant : ParticipantExists(ProcessOf[w], n) => Member(n)
<1>1. ProcessOf[w] \in Process
  BY AccountsAssumption
<1>2. \A t \in ts \intersect CachedTable : cache[ProcessOf[w]][t] # Nothing /\ WasSo(cache[ProcessOf[w]][t], t)
  BY <1>1 DEF CanRead, TablesInv, CachesWereSo
<1> QED
  BY <1>2 DEF AccountFound, ParticipantExists, Seen, Rows, WasSo, Present, Member

(* A step that leaves the rows alone.                                       *)
LEMMA RowsStay ==
  ASSUME TablesInv, UNCHANGED <<rows, byHand, crashes>>, unsent' \subseteq Request,
         announced' \subseteq Request, DOMAIN worker' = Worker
  PROVE  RowTypes' /\ References' /\ Grows
<1>1. RowTypes'
  BY DEF TablesInv, RowTypes, rows
<1>2. References'
  BY DEF TablesInv, References, Present, Member, rows
<1> QED
  BY <1>1, <1>2 DEF Grows, Present, Member, rows

(***************************************************************************)
(* The steps.                                                              *)
(***************************************************************************)
LEMMA TablesInit == Init => TablesInv
<1> SUFFICES ASSUME Init PROVE TablesInv
  OBVIOUS
<1>1. RowTypes
  BY AccountsAssumption DEF Init, RowTypes, Flag
<1>2. References
  BY DEF Init, References, Present, Member
<1>3. CachesWereSo
  BY DEF Init, CachesWereSo, WasSo
<1>4. \A w \in Worker : Serving(w)
  <2>1. \A w \in Worker : worker[w] = Idle
    BY DEF Init
  <2>2. Idle.step = "idle"
    BY DEF Idle
  <2> QED
    BY <2>1, <2>2 DEF Serving, Busy, Doing, Kind, Writing
<1> QED
  BY <1>1, <1>2, <1>3, <1>4 DEF TablesInv

(* What a busy worker has been asked.                                       *)
LEMMA AskedRight ==
  ASSUME TablesInv, NEW w \in Worker, Busy(w)
  PROVE  /\ Asked(w) \in Request
         /\ worker[w].step \in Kind => Asked(w).kind = worker[w].step
         /\ worker[w].step \in Writing => Asked(w).kind \in ForLimit
BY DEF TablesInv, Serving

(* The accounts that limits refer to are there after a step that grows.     *)
LEMMA LimitsRefer ==
  ASSUME TablesInv, NEW i \in DOMAIN limit
  PROVE  /\ limit[i].participant \in Participant
         /\ <<limit[i].participant, Position>> \in Account
         /\ Present(<<limit[i].participant, Position>>)
<1>1. limit \in Seq(LimitRow) /\ Present(<<limit[i].participant, Position>>)
  BY DEF TablesInv, RowTypes, References
<1>2. i \in 1..Len(limit)
  BY <1>1, LenProperties
<1>3. limit[i] \in LimitRow
  BY <1>1, <1>2, ElementOfSeq
<1>4. limit[i].participant \in Participant
  BY <1>3 DEF LimitRow
<1> QED
  BY <1>1, <1>4, AccountParts

LEMMA TablesReceive ==
  ASSUME TablesInv, NEW w \in Worker, Receive(w)
  PROVE  TablesInv'
<1>1. PICK r \in unsent : unsent' = unsent \ {r} /\ Become(w, [step |-> r.kind, request |-> r])
  BY DEF Receive
<1>2. r \in Request /\ r.kind \in Kind /\ unsent' \subseteq Request
  BY <1>1, AccountsAssumption DEF TablesInv, RowTypes
<1>3. UNCHANGED <<rows, caches, announced, byHand, crashes>>
  BY DEF Receive
<1>4. /\ DOMAIN worker' = Worker /\ worker'[w].step = r.kind /\ worker'[w].request = r
  BY <1>1 DEF Become, TablesInv, RowTypes
<1>5. announced' \subseteq Request
  BY <1>3 DEF TablesInv, RowTypes
<1>6. RowTypes' /\ References' /\ Grows
  BY <1>2, <1>3, <1>4, <1>5, RowsStay
<1>7. CachesWereSo'
  BY <1>3, <1>6, CachesAfterDrop DEF caches
<1>8. Serving(w)'
  BY <1>2, <1>4 DEF Serving, Busy, Doing, Asked, Kind, Writing
<1>9. \A v \in Worker : Serving(v)'
  BY <1>1, <1>6, <1>8, ServedAfterStep
<1> QED
  BY <1>6, <1>7, <1>9 DEF TablesInv

(* A worker that answers and leaves the caches alone, or drops some.        *)
LEMMA TablesAfterAnswer ==
  ASSUME TablesInv, NEW w \in Worker, Answer(w), NEW ts, Drop(w, ts) \/ cache' = cache,
         UNCHANGED pending, RowTypes', References', Grows
  PROVE  TablesInv'
BY ServedAfterAnswer, CachesAfterDrop DEF TablesInv

LEMMA TablesCreateHubAccount ==
  ASSUME TablesInv, NEW w \in Worker, CreateHubAccount(w)
  PROVE  TablesInv'
<1>1. PICK a : a = <<Hub, Asked(w).type>>
  OBVIOUS
<1>2. Asked(w) \in Request /\ Asked(w).kind = "createHubAccount"
  BY AskedRight DEF CreateHubAccount, Busy, Doing, Kind
<1>3. a \in Account /\ a[1] = Hub
  BY <1>1, <1>2, AccountsAssumption, AccountParts
<1>4. /\ Answer(w)
      /\ UNCHANGED <<participant, limit, models, pending, unsent, announced, byHand, crashes>>
  BY DEF CreateHubAccount
<1>5. DOMAIN worker' = Worker
  BY <1>4 DEF Answer, Become, TablesInv, RowTypes
<1>6. CASE account[a] = "absent"
  <2>1. /\ account' = [account EXCEPT ![a] = "active"]
        /\ positions' = [positions EXCEPT ![a] = 1]
        /\ Drop(w, {"participantCurrency"})
    BY <1>1, <1>6 DEF CreateHubAccount
  <2>2. RowTypes'
    BY <1>4, <1>5, <2>1 DEF TablesInv, RowTypes, Flag
  <2>3. Grows
    BY <1>3, <1>4, <2>1 DEF Grows, Present, Member, TablesInv, RowTypes
  <2>4. References'
    <3>1. Member(Hub) /\ \A n : Member(n)' <=> Member(n)
      BY <1>4 DEF Member, TablesInv, References
    <3>2. \A x \in Account : Present(x)' <=> (x = a \/ Present(x))
      BY <1>3, <2>1 DEF Present, TablesInv, RowTypes
    <3>3. \A x \in Account : positions'[x] > 0 => (x = a \/ positions[x] > 0)
      BY <2>1 DEF TablesInv, RowTypes
    <3>4. (\A i \in DOMAIN limit : Present(<<limit[i].participant, Position>>))'
      BY <1>4, <3>2, LimitsRefer
    <3> QED
      BY <1>3, <1>4, <3>1, <3>2, <3>3, <3>4 DEF TablesInv, References
  <2> QED
    BY <1>4, <2>1, <2>2, <2>3, <2>4, TablesAfterAnswer
<1>7. CASE account[a] # "absent"
  <2>1. UNCHANGED <<account, positions, cache>>
    BY <1>1, <1>7 DEF CreateHubAccount
  <2>2. UNCHANGED rows /\ unsent' \subseteq Request /\ announced' \subseteq Request
    BY <1>4, <2>1 DEF rows, TablesInv, RowTypes
  <2>3. RowTypes' /\ References' /\ Grows
    BY <1>4, <1>5, <2>2, RowsStay
  <2> QED
    BY <1>4, <2>1, <2>3, TablesAfterAnswer
<1> QED
  BY <1>6, <1>7

LEMMA TablesModels ==
  ASSUME TablesInv, NEW w \in Worker, CreateSettlementModel(w) \/ UpdateSettlementModel(w)
  PROVE  TablesInv'
<1>1. /\ Answer(w)
      /\ UNCHANGED <<participant, account, limit, positions, caches, unsent, announced, byHand, crashes>>
  BY DEF CreateSettlementModel, UpdateSettlementModel
<1>2. DOMAIN worker' = Worker
  BY <1>1 DEF Answer, Become, TablesInv, RowTypes
<1>3. models' \in [Model -> Flag]
  <2>1. CASE CreateSettlementModel(w)
    BY <2>1 DEF CreateSettlementModel, TablesInv, RowTypes, Flag
  <2>2. CASE UpdateSettlementModel(w)
    <3>1. Asked(w) \in Request /\ Asked(w).kind = "updateSettlementModel"
      BY <2>2, AskedRight DEF UpdateSettlementModel, Busy, Doing, Kind
    <3>2. Asked(w).flag \in Flag
      BY <3>1, AccountsAssumption DEF ForFlag, Flag
    <3> QED
      BY <2>2, <3>2 DEF UpdateSettlementModel, TablesInv, RowTypes
  <2> QED
    BY <2>1, <2>2
<1>4. RowTypes' /\ References' /\ Grows
  BY <1>1, <1>2, <1>3 DEF TablesInv, RowTypes, References, Grows, Present, Member
<1> QED
  BY <1>1, <1>4, TablesAfterAnswer DEF caches

LEMMA TablesUpdate ==
  ASSUME TablesInv, NEW w \in Worker, Update(w)
  PROVE  TablesInv'
<1>1. PICK n : n = Asked(w).participant
  OBVIOUS
<1>2. /\ Answer(w)
      /\ UNCHANGED <<account, limit, positions, models, pending, unsent, announced, byHand, crashes>>
      /\ \/ participant' = [participant EXCEPT ![n] = Asked(w).flag]
         \/ participant' = participant
      /\ Drop(w, {"participant"}) \/ cache' = cache
  BY <1>1 DEF Update
<1>3. Asked(w) \in Request /\ Asked(w).kind = "update"
  BY AskedRight DEF Update, Busy, Doing, Kind
<1>4. Asked(w).flag \in Flag /\ Asked(w).flag # "absent"
  BY <1>3, AccountsAssumption DEF ForFlag, Flag
<1>5. DOMAIN worker' = Worker
  BY <1>2 DEF Answer, Become, TablesInv, RowTypes
<1>6. RowTypes'
  BY <1>2, <1>4, <1>5 DEF TablesInv, RowTypes
<1>7. /\ \A a : Present(a)' <=> Present(a)
      /\ \A m \in Participant \union {Hub} : Member(m) => Member(m)'
  BY <1>2, <1>4 DEF Present, Member, TablesInv, RowTypes
<1>8. Grows
  BY <1>2, <1>7 DEF Grows
<1>9. References'
  BY <1>2, <1>7, AccountParts DEF TablesInv, References
<1> QED
  BY <1>2, <1>6, <1>8, <1>9, TablesAfterAnswer

LEMMA TablesUpdateAccount ==
  ASSUME TablesInv, NEW w \in Worker, UpdateAccount(w)
  PROVE  TablesInv'
<1>1. PICK a : a = <<Asked(w).participant, Position>>
  OBVIOUS
<1>2. /\ Answer(w)
      /\ UNCHANGED <<participant, limit, positions, models, pending, unsent, announced, crashes>>
      /\ \/ account' = account /\ byHand' = byHand
         \/ /\ AccountFound(ProcessOf[w], a)
            /\ account' = [account EXCEPT ![a] = Asked(w).flag] /\ byHand' = byHand \union {a}
      /\ Drop(w, {"participantCurrency"}) \/ cache' = cache
      /\ CanRead(w, {"participant", "participantCurrency"})
  BY <1>1 DEF UpdateAccount
<1>3. Asked(w) \in Request /\ Asked(w).kind = "updateAccount"
  BY AskedRight DEF UpdateAccount, Busy, Doing, Kind
<1>4. Asked(w).flag \in Flag /\ Asked(w).flag # "absent"
  BY <1>3, AccountsAssumption DEF ForFlag, Flag
<1>5. a \in Account
  BY <1>1, <1>3, AccountsAssumption, AccountParts DEF ForParticipant
<1>6. AccountFound(ProcessOf[w], a) => Present(a)
  BY <1>2, <1>5, FoundIsThere
<1>7. DOMAIN worker' = Worker
  BY <1>2 DEF Answer, Become, TablesInv, RowTypes
<1>8. RowTypes'
  BY <1>2, <1>4, <1>5, <1>7 DEF TablesInv, RowTypes
<1>9. \A x \in Account : Present(x)' <=> Present(x)
  BY <1>2, <1>4, <1>6 DEF Present, TablesInv, RowTypes
<1>10. Grows
  BY <1>2, <1>9 DEF Grows, Member
<1>11. References'
  <2>1. (\A i \in DOMAIN limit : Present(<<limit[i].participant, Position>>))'
    BY <1>2, <1>9, LimitsRefer
  <2> QED
    BY <1>2, <1>9, <2>1 DEF TablesInv, References, Member
<1> QED
  BY <1>2, <1>8, <1>10, <1>11, TablesAfterAnswer

(* The accounts of a model are accounts of the participant.                 *)
LEMMA ModelAccounts ==
  ASSUME NEW n \in Participant, NEW m \in Model
  PROVE  AccountsOf(n, {m}) \subseteq Participant \X AccountType
         /\ \A a \in AccountsOf(n, {m}) : a[1] = n
BY DEF AccountsOf, AccountType

LEMMA OrderOfModels ==
  ASSUME NEW ms \in SUBSET Model, ms # {}, NEW order \in SetToSeqs(ms)
  PROVE  order \in Seq(Model) /\ order # <<>> /\ order[1] \in Model
<1>1. IsFiniteSet(ms)
  BY AccountsAssumption, FS_Subset
<1>2. Cardinality(ms) \in Nat /\ Cardinality(ms) # 0
  BY <1>1, FS_CardinalityType, FS_EmptySet
<1>3. order \in [1..Cardinality(ms) -> ms]
  BY DEF SetToSeqs
<1> QED
  BY <1>2, <1>3

LEMMA TablesCreate ==
  ASSUME TablesInv, NEW w \in Worker, Create(w)
  PROVE  TablesInv'
<1> DEFINE ms == IF Own # {} THEN Own ELSE Default
<1>1. PICK n : n = Asked(w).participant
  OBVIOUS
<1>2. /\ CanRead(w, {"participant", "participantCurrency"})
      /\ UNCHANGED <<account, limit, positions, models, pending, unsent, announced, byHand, crashes>>
      /\ \/ Answer(w) /\ UNCHANGED <<participant, cache>>
         \/ /\ participant' = [participant EXCEPT ![n] = IF ParticipantExists(ProcessOf[w], n) THEN @ ELSE "active"]
            /\ Drop(w, {"participant"}) \/ cache' = cache
            /\ \/ Answer(w)
               \/ ms # {} /\ \E order \in SetToSeqs(ms) :
                    Become(w, AddingAccounts(w, FALSE, order, AccountsOf(n, {order[1]})))
  BY <1>1 DEF Create
<1>3. Asked(w) \in Request /\ n \in Participant
  <2>1. Asked(w) \in Request /\ Asked(w).kind = "create"
    BY AskedRight DEF Create, Busy, Doing, Kind
  <2> QED
    BY <1>1, <2>1, AccountsAssumption DEF ForParticipant
<1>4. ParticipantExists(ProcessOf[w], n) => Member(n)
  BY <1>2, <1>3, FoundIsThere
<1>5. /\ participant' \in [Participant \union {Hub} -> Flag]
      /\ \A m \in Participant \union {Hub} : Member(m) => Member(m)'
      /\ participant' # participant \/ ~Answer(w) => Member(n)'
  <2>1. CASE participant' = participant /\ Answer(w)
    BY <2>1 DEF TablesInv, RowTypes, Member
  <2>2. CASE participant' = [participant EXCEPT ![n] = IF ParticipantExists(ProcessOf[w], n) THEN @ ELSE "active"]
    BY <1>3, <1>4, <2>2 DEF TablesInv, RowTypes, Member, Flag
  <2> QED
    BY <1>2, <2>1, <2>2
<1>6. DOMAIN worker' = Worker
  BY <1>2 DEF Answer, Become, TablesInv, RowTypes
<1>7. RowTypes'
  BY <1>2, <1>5, <1>6 DEF TablesInv, RowTypes
<1>8. \A a : Present(a)' <=> Present(a)
  BY <1>2 DEF Present
<1>9. Grows
  BY <1>2, <1>5, <1>8 DEF Grows
<1>10. References'
  BY <1>2, <1>5, <1>8, AccountParts DEF TablesInv, References
<1>11. CachesWereSo'
  BY <1>2, <1>9, CachesAfterDrop
<1>12. CASE Answer(w)
  BY <1>7, <1>9, <1>10, <1>11, <1>12, ServedAfterAnswer DEF TablesInv
<1>13. CASE ~Answer(w)
  <2>1. PICK order \in SetToSeqs(ms) :
          Become(w, AddingAccounts(w, FALSE, order, AccountsOf(n, {order[1]})))
    BY <1>2, <1>13
  <2>2. order \in Seq(Model) /\ order # <<>> /\ order[1] \in Model
    <3>1. ms \in SUBSET Model /\ ms # {}
      BY <1>2, <1>13 DEF Own, Default, ActiveModels
    <3> HIDE DEF ms
    <3> QED
      BY <2>1, <3>1, OrderOfModels
  <2> DEFINE left == AccountsOf(n, {order[1]})
  <2>3. left \subseteq Participant \X AccountType /\ \A a \in left : a[1] = n
    BY <1>3, <2>2, ModelAccounts
  <2> HIDE DEF left
  <2>4. /\ worker'[w].step = "accounts" /\ worker'[w].request = Asked(w)
        /\ worker'[w].left = left /\ worker'[w].models = order
    BY <2>1, StepTaken DEF AddingAccounts, left
  <2>5. \A a \in left : Member(a[1])'
    BY <1>5, <1>13, <2>3
  <2>6. Serving(w)'
    BY <1>3, <2>2, <2>3, <2>4, <2>5 DEF Serving, Busy, Doing, Asked, Kind, Writing
  <2>7. \A v \in Worker : Serving(v)'
    BY <1>9, <2>1, <2>6, ServedAfterStep
  <2> QED
    BY <1>7, <1>9, <1>10, <1>11, <2>7 DEF TablesInv
<1> QED
  BY <1>12, <1>13

LEMMA TablesCreateParticipantCurrency ==
  ASSUME TablesInv, NEW w \in Worker, CreateParticipantCurrency(w)
  PROVE  TablesInv'
<1>1. PICK a \in worker[w].left :
       LET taken  == account[a] # "absent"
           failed == worker[w].failed \/ taken
           left   == worker[w].left \ {a}
           next   == Tail(worker[w].models)
       IN  /\ account' = IF taken THEN account ELSE [account EXCEPT ![a] = "inactive"]
           /\ IF taken THEN UNCHANGED cache ELSE Drop(w, {"participantCurrency"})
           /\ \/ left # {} /\ Become(w, AddingAccounts(w, failed, worker[w].models, left))
              \/ left = {} /\ (failed \/ next = <<>>) /\ Answer(w)
              \/ /\ left = {} /\ ~failed /\ next # <<>>
                 /\ Become(w, AddingAccounts(w, FALSE, next, AccountsOf(a[1], {next[1]})))
  BY DEF CreateParticipantCurrency
<1>2. /\ Doing(w, "accounts")
      /\ UNCHANGED <<participant, limit, positions, models, pending, unsent, announced, byHand, crashes>>
  BY DEF CreateParticipantCurrency
<1>3. /\ worker[w].left \subseteq Participant \X AccountType
      /\ \A x \in worker[w].left : Member(x[1])
      /\ worker[w].models \in Seq(Model) /\ worker[w].models # <<>>
      /\ Asked(w) \in Request
  BY <1>2 DEF TablesInv, Serving, Busy, Doing
<1>4. a \in Account /\ a[1] \in Participant /\ Member(a[1])
  BY <1>3, AccountParts
<1>5. account' = account \/ account' = [account EXCEPT ![a] = "inactive"]
  BY <1>1
<1>6. Drop(w, {"participantCurrency"}) \/ cache' = cache
  BY <1>1
<1>7. DOMAIN worker' = Worker
  BY <1>1 DEF Answer, Become, TablesInv, RowTypes
<1>8. RowTypes'
  BY <1>2, <1>5, <1>7 DEF TablesInv, RowTypes, Flag
<1>9. /\ \A x \in Account : Present(x) => Present(x)'
      /\ \A x \in Account : Present(x)' => (x = a \/ Present(x))
      /\ \A m : Member(m)' <=> Member(m)
  BY <1>2, <1>4, <1>5 DEF Present, Member, TablesInv, RowTypes
<1>10. Grows
  BY <1>2, <1>9 DEF Grows
<1>11. References'
  <2>1. (\A i \in DOMAIN limit : Present(<<limit[i].participant, Position>>))'
    BY <1>2, <1>9, LimitsRefer
  <2> QED
    BY <1>2, <1>4, <1>9, <2>1 DEF TablesInv, References
<1>12. CachesWereSo'
  BY <1>2, <1>6, <1>10, CachesAfterDrop
<1>13. \A v \in Worker : Serving(v)'
  <2>1. CASE Answer(w)
    BY <1>10, <2>1, ServedAfterAnswer
  <2>2. ASSUME NEW failed, NEW order, NEW left, Become(w, AddingAccounts(w, failed, order, left)),
               left \subseteq Participant \X AccountType, \A x \in left : Member(x[1]),
               order \in Seq(Model), order # <<>>
        PROVE  \A v \in Worker : Serving(v)'
    <3>1. /\ worker'[w].step = "accounts" /\ worker'[w].request = Asked(w)
          /\ worker'[w].left = left /\ worker'[w].models = order
      BY <2>2, StepTaken DEF AddingAccounts
    <3>2. \A x \in left : Member(x[1])'
      BY <1>9, <2>2
    <3>3. Serving(w)'
      BY <1>3, <2>2, <3>1, <3>2 DEF Serving, Busy, Doing, Asked, Kind, Writing
    <3> QED
      BY <1>10, <2>2, <3>3, ServedAfterStep
  <2> DEFINE next == Tail(worker[w].models)
             more == AccountsOf(a[1], {next[1]})
  <2>3. next \in Seq(Model) /\ (next # <<>> => next[1] \in Model)
    BY <1>3
  <2>4. next # <<>> => more \subseteq Participant \X AccountType /\ \A x \in more : Member(x[1])
    <3>1. next # <<>> => more \subseteq Participant \X AccountType /\ \A x \in more : x[1] = a[1]
      BY <1>4, <2>3, ModelAccounts
    <3> HIDE DEF more
    <3> QED
      BY <1>4, <3>1
  <2>5. /\ worker[w].left \ {a} \subseteq Participant \X AccountType
        /\ \A x \in worker[w].left \ {a} : Member(x[1])
    BY <1>3
  <2>6. \/ Answer(w)
        \/ next # <<>> /\ Become(w, AddingAccounts(w, FALSE, next, more))
        \/ \E failed : Become(w, AddingAccounts(w, failed, worker[w].models, worker[w].left \ {a}))
    BY <1>1
  <2> HIDE DEF next, more
  <2> QED
    BY <1>3, <2>1, <2>2, <2>3, <2>4, <2>5, <2>6
<1> QED
  BY <1>8, <1>10, <1>11, <1>12, <1>13 DEF TablesInv

LEMMA TablesDie ==
  ASSUME TablesInv, NEW p \in Process, Die(p)
  PROVE  TablesInv'
<1>1. /\ UNCHANGED <<rows, unsent, announced, byHand>> /\ crashes < MaxCrashes /\ crashes' = crashes + 1
      /\ worker' = [w \in Worker |-> IF ProcessOf[w] = p THEN Idle ELSE worker[w]]
      /\ cache' = [cache EXCEPT ![p] = [t \in CachedTable |-> Nothing]]
      /\ pending' = [pending EXCEPT ![p] = [t \in CachedTable |-> Nothing]]
  BY DEF Die
<1>2. RowTypes'
  BY <1>1, AccountsAssumption DEF TablesInv, RowTypes, rows
<1>3. References' /\ Grows
  BY <1>1 DEF TablesInv, References, Grows, Present, Member, rows
<1>4. CachesWereSo'
  <2>1. /\ DOMAIN cache = Process /\ \A q \in Process : DOMAIN cache[q] = CachedTable
        /\ DOMAIN pending = Process /\ \A q \in Process : DOMAIN pending[q] = CachedTable
    BY DEF TablesInv, CachesWereSo
  <2>2. /\ DOMAIN cache' = Process /\ \A q \in Process : DOMAIN cache'[q] = CachedTable
        /\ DOMAIN pending' = Process /\ \A q \in Process : DOMAIN pending'[q] = CachedTable
    BY <1>1, <2>1
  <2>3. \A q \in Process, t \in CachedTable :
          /\ cache'[q][t] = cache[q][t] \/ cache'[q][t] = Nothing
          /\ pending'[q][t] = pending[q][t] \/ pending'[q][t] = Nothing
    BY <1>1, <2>1
  <2> QED
    BY <1>3, <2>2, <2>3, CachesKept
<1>5. \A v \in Worker : Serving(v)'
  <2>1. \A v \in Worker : worker'[v] = worker[v] \/ worker'[v].step = "idle"
    BY <1>1 DEF Idle
  <2> QED
    BY <1>3, <2>1, ServingKept
<1> QED
  BY <1>2, <1>3, <1>4, <1>5 DEF TablesInv

LEMMA TablesCaches ==
  ASSUME TablesInv, NEW p \in Process, NEW t \in CachedTable, Generate(p, t) \/ Store(p, t) \/ Expire(p, t)
  PROVE  TablesInv'
<1>1. UNCHANGED <<rows, worker, unsent, announced, byHand, crashes>>
  BY DEF Generate, Store, Expire
<1>2. RowTypes' /\ References' /\ Grows
  BY <1>1, RowsStay DEF TablesInv, RowTypes
<1>3. \A v \in Worker : Serving(v)'
  BY <1>1, <1>2, ServingKept
<1>4. /\ DOMAIN cache = Process /\ \A q \in Process : DOMAIN cache[q] = CachedTable
      /\ DOMAIN pending = Process /\ \A q \in Process : DOMAIN pending[q] = CachedTable
  BY DEF TablesInv, CachesWereSo
<1>5. CASE Generate(p, t)
  <2>0. PICK e : e = [rows |-> Rows(t)]
    OBVIOUS
  <2>1. cache' = cache /\ pending' = [pending EXCEPT ![p][t] = e]
    BY <1>5, <2>0 DEF Generate
  <2>2. WasSo(e, t)'
    BY <1>1, <2>0 DEF WasSo, Rows, Present, Member, rows
  <2>3. \A q \in Process, u \in CachedTable :
          pending'[q][u] = pending[q][u] \/ (u = t /\ pending'[q][u] = e)
    BY <1>4, <2>1
  <2>4. ASSUME NEW q \in Process, NEW u \in CachedTable
        PROVE  WasSo(cache[q][u], u)' /\ WasSo(pending[q][u], u)'
    <3>1. WasSo(cache[q][u], u) /\ WasSo(pending[q][u], u)
      BY DEF TablesInv, CachesWereSo
    <3>2. WasSo(cache[q][u], u)'
      BY <1>1, <2>1, <3>1 DEF WasSo, Present, Member, rows
    <3>3. CASE pending'[q][u] = pending[q][u]
      BY <1>1, <3>1, <3>2, <3>3 DEF WasSo, Present, Member, rows
    <3>4. CASE u = t /\ pending'[q][u] = e
      BY <2>2, <3>2, <3>4 DEF WasSo
    <3> QED
      BY <2>3, <3>3, <3>4
  <2> QED
    BY <1>2, <1>3, <1>4, <2>1, <2>4 DEF TablesInv, CachesWereSo
<1>6. CASE Store(p, t) \/ Expire(p, t)
  <2>1. /\ DOMAIN cache' = Process /\ \A q \in Process : DOMAIN cache'[q] = CachedTable
        /\ DOMAIN pending' = Process /\ \A q \in Process : DOMAIN pending'[q] = CachedTable
    BY <1>4, <1>6 DEF Store, Expire
  <2>2. \A q \in Process, u \in CachedTable :
          /\ cache'[q][u] = cache[q][u] \/ cache'[q][u] = Nothing \/ cache'[q][u] = pending[q][u]
          /\ pending'[q][u] = pending[q][u] \/ pending'[q][u] = Nothing
    BY <1>4, <1>6 DEF Store, Expire
  <2>3. CachesWereSo'
    BY <1>2, <2>1, <2>2, CachesKept
  <2> QED
    BY <1>2, <1>3, <2>3 DEF TablesInv
<1> QED
  BY <1>5, <1>6

(* A set of numbers has a smallest one.                                     *)
LEMMA SmallestNumber ==
  ASSUME NEW S \in SUBSET Nat, S # {}
  PROVE  \E i \in S : \A j \in S : i <= j
<1>1. PICK i \in S : \A j \in S : ~(<<j, i>> \in OpToRel(<, Nat))
  BY NatLessThanWellFounded, WFMin, Zenon
<1>2. \A j \in S : ~(j < i)
  BY <1>1 DEF OpToRel
<1> QED
  BY <1>2

(* Every account that the transaction puts a position to gets a row.         *)
LEMMA RowsInserted ==
  ASSUME NEW n, NEW a \in Positioned(n)
  PROVE  Inserted(a) \in Nat \ {0}
<1> DEFINE L == {m \in Own : LedgerOf[m] = a[2]}
           S == {m \in Own : SettlementOf[m] = a[2]}
<1>1. CASE Own = {}
  BY <1>1 DEF Inserted
<1>2. CASE Own # {}
  <2>1. IsFiniteSet(Own)
    BY AccountsAssumption, FS_Subset DEF Own, ActiveModels
  <2>2. IsFiniteSet(L) /\ IsFiniteSet(S)
    BY <2>1, FS_Subset
  <2>3. Cardinality(L) \in Nat /\ Cardinality(S) \in Nat
    BY <2>2, FS_CardinalityType
  <2>4. L # {} \/ S # {}
    BY <1>2 DEF Positioned, AccountsOf
  <2>5. Cardinality(L) # 0 \/ Cardinality(S) # 0
    BY <2>2, <2>4, FS_EmptySet
  <2>6. Inserted(a) = Cardinality(L) + Cardinality(S)
    BY <1>2 DEF Inserted
  <2> HIDE DEF L, S
  <2> QED
    BY <2>3, <2>5, <2>6
<1> QED
  BY <1>1, <1>2

(* The first limit: the account is found, the models' accounts too, and the *)
(* rows are written.                                                        *)
LEMMA TablesSetting ==
  ASSUME TablesInv, NEW w \in Worker, AddLimitAndInitialPosition(w) \/ InsertLimit(w) \/ AdjustLimits(w)
  PROVE  TablesInv'
<1>n. PICK n, r : r = Asked(w) /\ n = r.participant
  OBVIOUS
<1>1. UNCHANGED <<rows, pending, unsent, byHand, crashes>> /\ Busy(w)
  BY DEF AddLimitAndInitialPosition, InsertLimit, AdjustLimits, Busy, Doing, caches
<1>2. r \in Request /\ r.kind \in ForLimit
  BY <1>n, AskedRight DEF AddLimitAndInitialPosition, InsertLimit, AdjustLimits, Busy, Doing, Kind, Writing, ForLimit
<1>3. n \in Participant /\ <<n, Position>> \in Account
  BY <1>n, <1>2, AccountsAssumption, AccountParts DEF ForParticipant
<1>4. DOMAIN worker' = Worker
  BY DEF AddLimitAndInitialPosition, InsertLimit, AdjustLimits, Answer, Become, TablesInv, RowTypes
<1>5. announced' \subseteq Request /\ unsent' \subseteq Request
  BY <1>n, <1>1, <1>2 DEF AddLimitAndInitialPosition, InsertLimit, AdjustLimits, TablesInv, RowTypes
<1>6. RowTypes' /\ References' /\ Grows
  BY <1>1, <1>4, <1>5, RowsStay
<1>7. CachesWereSo'
  <2>1. cache' = cache \/ \E ts : Drop(w, ts)
    BY DEF AddLimitAndInitialPosition, InsertLimit, AdjustLimits, caches
  <2> QED
    BY <1>1, <1>6, <2>1, CachesAfterDrop
<1>8. \A x \in Account : Present(x)' <=> Present(x)
  BY <1>1 DEF Present, rows
<1>9. ASSUME NEW op, Become(w, op), Serving(w)'
      PROVE  TablesInv'
  BY <1>6, <1>7, <1>9, ServedAfterStep DEF TablesInv
<1>10. CASE Answer(w)
  BY <1>6, <1>7, <1>10, ServedAfterAnswer DEF TablesInv
<1>11. CASE AddLimitAndInitialPosition(w) /\ ~Answer(w)
  <2> DEFINE op == [step |-> "insertLimit", request |-> r]
  <2>1. Become(w, op) /\ HasAccounts(w, n) /\ CanRead(w, Table)
    BY <1>n, <1>11 DEF AddLimitAndInitialPosition
  <2>2. Present(<<n, Position>>)'
    BY <1>3, <1>8, <2>1, FoundIsThere DEF HasAccounts, Table
  <2>3. worker'[w].step = "insertLimit" /\ worker'[w].request = r
    BY <2>1, StepTaken
  <2>4. Serving(w)'
    BY <1>n, <1>2, <2>2, <2>3 DEF Serving, Busy, Doing, Asked, Kind, Writing
  <2> HIDE DEF op
  <2> QED
    BY <1>9, <2>1, <2>4
<1>12. CASE InsertLimit(w) /\ ~Answer(w)
  <2> DEFINE op == [step |-> "commitLimit", request |-> r,
                    positioned |-> [a \in Positioned(n) |-> Inserted(a)], activated |-> Activates(n)]
  <2>1. Become(w, op) /\ AllExist(w, n) /\ CanRead(w, {"participant", "participantCurrency"})
    BY <1>n, <1>12 DEF InsertLimit
  <2>2. Present(<<n, Position>>)'
    <3>1. Present(<<Asked(w).participant, Position>>)
      BY <1>12 DEF InsertLimit, TablesInv, Serving, Doing, Writing
    <3> QED
      BY <1>n, <1>3, <1>8, <3>1
  <2>3. Positioned(n) \subseteq Account
    BY <1>3, AccountParts DEF Positioned, AccountsOf, Own, ActiveModels, AccountType
  <2>4. \A a \in Positioned(n) : a \in Account /\ Present(a)'
    BY <1>8, <2>1, <2>3, FoundIsThere DEF AllExist
  <2>5. /\ worker'[w].step = "commitLimit" /\ worker'[w].request = r
        /\ worker'[w].positioned = [a \in Positioned(n) |-> Inserted(a)]
        /\ worker'[w].activated = Positioned(n)
    BY <2>1, StepTaken DEF Activates
  <2>6. \A a \in Positioned(n) : Inserted(a) \in Nat \ {0}
    BY RowsInserted
  <2>7. Serving(w)'
    <3> HIDE DEF op
    <3>1. /\ DOMAIN worker'[w].positioned = Positioned(n)
          /\ \A a \in Positioned(n) : worker'[w].positioned[a] = Inserted(a)
      BY <2>5
    <3> QED
      BY <1>n, <1>2, <2>2, <2>4, <2>5, <2>6, <3>1 DEF Serving, Busy, Doing, Asked, Kind, Writing
  <2> HIDE DEF op
  <2> QED
    BY <1>9, <2>1, <2>7
<1>13. CASE AdjustLimits(w) /\ ~Answer(w)
  <2> DEFINE first == CHOOSE i \in Active(n) : \A j \in Active(n) : i <= j
             op == [step |-> "commitAdjust", request |-> r, existing |-> first]
  <2>1. Become(w, op) /\ Active(n) # {}
    BY <1>n, <1>13 DEF AdjustLimits
  <2>2. first \in Active(n)
    <3>1. Active(n) \subseteq Nat
      <4>1. limit \in Seq(LimitRow)
        BY DEF TablesInv, RowTypes
      <4>2. Len(limit) \in Nat /\ DOMAIN limit = 1..Len(limit)
        BY <4>1, LenProperties
      <4> QED
        BY <4>2 DEF Active
    <3>2. \E i \in Active(n) : \A j \in Active(n) : i <= j
      BY <2>1, <3>1, SmallestNumber
    <3> QED
      BY <3>2
  <2> HIDE DEF first
  <2>3. first \in DOMAIN limit /\ limit[first].participant = n
    BY <2>2 DEF Active
  <2>4. Present(<<n, Position>>)'
    BY <1>3, <1>8, <2>3, LimitsRefer
  <2>5. worker'[w].step = "commitAdjust" /\ worker'[w].request = r /\ worker'[w].existing = first
    BY <2>1, StepTaken
  <2>6. Serving(w)'
    BY <1>n, <1>1, <1>2, <2>3, <2>4, <2>5 DEF Serving, Busy, Doing, Asked, Kind, Writing, rows
  <2> HIDE DEF op
  <2> QED
    BY <1>9, <2>1, <2>6
<1> QED
  BY <1>10, <1>11, <1>12, <1>13

LEMMA TablesCommitLimit ==
  ASSUME TablesInv, NEW w \in Worker, CommitLimit(w)
  PROVE  TablesInv'
<1>n. PICK n : n = Asked(w).participant
  OBVIOUS
<1>1. /\ Doing(w, "commitLimit") /\ Answer(w)
      /\ UNCHANGED <<participant, models, caches, unsent, announced, byHand, crashes>>
      /\ limit' = Append(limit, Row(n, Asked(w).value, TRUE))
      /\ positions' = [a \in Account |-> positions[a] + (IF a \in DOMAIN worker[w].positioned THEN worker[w].positioned[a] ELSE 0)]
      /\ account' = [a \in Account |-> IF a \in worker[w].activated /\ account[a] # "absent" THEN "active" ELSE account[a]]
  BY <1>n DEF CommitLimit
<1>2. /\ Asked(w) \in Request /\ Asked(w).kind \in ForLimit /\ Present(<<n, Position>>)
      /\ \A a \in DOMAIN worker[w].positioned : a \in Account /\ Present(a) /\ worker[w].positioned[a] \in Nat
  BY <1>n, <1>1 DEF TablesInv, Serving, Busy, Doing, Writing
<1>3. n \in Participant /\ Asked(w).value \in Nat /\ <<n, Position>> \in Account
  BY <1>n, <1>2, AccountsAssumption, AccountParts DEF ForParticipant
<1>4. \A a \in Account : Present(a)' <=> Present(a)
  BY <1>1 DEF Present, TablesInv, RowTypes
<1>5. /\ limit' \in Seq(LimitRow) /\ DOMAIN limit' = DOMAIN limit \union {Len(limit) + 1}
      /\ limit'[Len(limit) + 1].participant = n
      /\ \A i \in DOMAIN limit : limit'[i].participant = limit[i].participant
  BY <1>1, <1>3, RowAppended DEF TablesInv, RowTypes, Row
<1>6. DOMAIN worker' = Worker
  BY <1>1 DEF Answer, Become, TablesInv, RowTypes
<1>7. RowTypes'
  <2>1. \A a \in Account : positions[a] + (IF a \in DOMAIN worker[w].positioned THEN worker[w].positioned[a] ELSE 0) \in Nat
    BY <1>2 DEF TablesInv, RowTypes
  <2>2. positions' \in [Account -> Nat]
    BY <1>1, <2>1
  <2>3. account' \in [Account -> Flag]
    BY <1>1 DEF TablesInv, RowTypes, Flag
  <2> QED
    BY <1>1, <1>5, <1>6, <2>2, <2>3 DEF TablesInv, RowTypes
<1>8. Grows
  BY <1>1, <1>4, <1>5 DEF Grows, Member
<1>9. References'
  <2>1. \A i \in DOMAIN limit' : account'[<<limit'[i].participant, Position>>] # "absent"
    BY <1>2, <1>3, <1>4, <1>5, LimitsRefer DEF Present
  <2>2. \A a \in Account : positions'[a] > 0 => positions[a] > 0 \/ Present(a)
    BY <1>1, <1>2 DEF TablesInv, RowTypes
  <2> QED
    BY <1>1, <1>4, <2>1, <2>2 DEF TablesInv, References, Present, Member
<1> QED
  BY <1>1, <1>7, <1>8, <1>9, TablesAfterAnswer DEF caches

LEMMA TablesCommitAdjust ==
  ASSUME TablesInv, NEW w \in Worker, CommitAdjust(w)
  PROVE  TablesInv'
<1>n. PICK n, k : n = Asked(w).participant /\ k = worker[w].existing
  OBVIOUS
<1> DEFINE off == Row(limit[k].participant, limit[k].value, FALSE)
           base == [limit EXCEPT ![k] = off]
<1>1. /\ Doing(w, "commitAdjust") /\ Answer(w)
      /\ UNCHANGED <<participant, account, positions, models, caches, unsent, byHand, crashes>>
      /\ limit' = Append(base, Row(n, Asked(w).value, TRUE))
      /\ announced' = announced \union {Asked(w)}
  BY <1>n DEF CommitAdjust
<1>2. /\ Asked(w) \in Request /\ Asked(w).kind \in ForLimit /\ Present(<<n, Position>>)
      /\ k \in DOMAIN limit
  BY <1>n, <1>1 DEF TablesInv, Serving, Busy, Doing, Writing
<1>3. n \in Participant /\ Asked(w).value \in Nat
  BY <1>n, <1>2, AccountsAssumption DEF ForParticipant
<1>4. limit \in Seq(LimitRow) /\ DOMAIN limit = 1..Len(limit) /\ Len(limit) \in Nat
  BY LenProperties DEF TablesInv, RowTypes
<1>5. off \in LimitRow /\ off.participant = limit[k].participant
  <2>1. limit[k] \in LimitRow
    BY <1>2, <1>4, ElementOfSeq
  <2> QED
    BY <2>1 DEF LimitRow, Row
<1> HIDE DEF off
<1>6. /\ base \in Seq(LimitRow) /\ DOMAIN base = DOMAIN limit
      /\ \A i \in DOMAIN limit : base[i].participant = limit[i].participant
  <2>1. /\ base \in Seq(LimitRow) /\ Len(base) = Len(limit)
        /\ \A i \in 1..Len(limit) : base[i] = IF i = k THEN off ELSE limit[i]
    BY <1>2, <1>4, <1>5, ExceptSeq
  <2> QED
    BY <1>4, <1>5, <2>1
<1> HIDE DEF base
<1>7. /\ limit' \in Seq(LimitRow) /\ DOMAIN limit' = DOMAIN limit \union {Len(base) + 1}
      /\ limit'[Len(base) + 1].participant = n
      /\ \A i \in DOMAIN limit : limit'[i].participant = limit[i].participant
  BY <1>1, <1>3, <1>6, RowAppended DEF Row
<1>8. DOMAIN worker' = Worker
  BY <1>1 DEF Answer, Become, TablesInv, RowTypes
<1>9. RowTypes'
  BY <1>1, <1>2, <1>7, <1>8 DEF TablesInv, RowTypes
<1>10. \A a : Present(a)' <=> Present(a)
  BY <1>1 DEF Present
<1>11. Grows
  BY <1>1, <1>7, <1>10 DEF Grows, Member
<1>12. References'
  <2>1. \A i \in DOMAIN limit' : account'[<<limit'[i].participant, Position>>] # "absent"
    BY <1>2, <1>7, <1>10, LimitsRefer DEF Present
  <2> QED
    BY <1>1, <1>10, <2>1 DEF TablesInv, References, Present, Member
<1> QED
  BY <1>1, <1>9, <1>11, <1>12, TablesAfterAnswer DEF caches

LEMMA TablesNext == TablesInv /\ [Next]_vars => TablesInv'
<1> SUFFICES ASSUME TablesInv, [Next]_vars PROVE TablesInv'
  OBVIOUS
<1>1. CASE UNCHANGED vars
  <2>1. UNCHANGED <<rows, byHand, crashes, unsent, announced, worker, caches>>
    BY <1>1 DEF vars
  <2>2. RowTypes' /\ References' /\ Grows
    BY <2>1, RowsStay DEF TablesInv, RowTypes
  <2>3. \A v \in Worker : Serving(v)'
    BY <2>1, <2>2, ServingKept
  <2>4. CachesWereSo'
    BY <2>1, <2>2, CachesKept DEF caches, TablesInv, CachesWereSo
  <2> QED
    BY <2>2, <2>3, <2>4 DEF TablesInv
<1>2. ASSUME NEW w \in Worker, Receive(w) PROVE TablesInv'
  BY <1>2, TablesReceive
<1>3. ASSUME NEW w \in Worker, Serve(w) PROVE TablesInv'
  BY <1>3, TablesCreateHubAccount, TablesModels, TablesCreate, TablesCreateParticipantCurrency,
     TablesUpdate, TablesUpdateAccount, TablesSetting, TablesCommitLimit, TablesCommitAdjust DEF Serve
<1>4. ASSUME NEW p \in Process, NEW t \in CachedTable, Generate(p, t) \/ Store(p, t) \/ Expire(p, t)
      PROVE  TablesInv'
  BY <1>4, TablesCaches
<1>5. ASSUME NEW p \in Process, Die(p) PROVE TablesInv'
  BY <1>5, TablesDie
<1> QED
  BY <1>1, <1>2, <1>3, <1>4, <1>5 DEF Next, Finished

(* Types and foreign keys: however requests interleave, however old what a  *)
(* process has cached, whichever process dies, a limit has its account, a   *)
(* position too, and an account its participant.                            *)
THEOREM RowsReferToRows == Spec => []TypeOK
<1>1. TablesInv => TypeOK
  <2> SUFFICES ASSUME TablesInv PROVE TypeOK
    OBVIOUS
  <2>1. \A i \in DOMAIN limit : Present(<<limit[i].participant, Position>>)
    BY LimitsRefer
  <2> QED
    BY <2>1 DEF TablesInv, RowTypes, References, Present, Member, TypeOK
<1> QED
  BY <1>1, TablesInit, TablesNext, PTL DEF Spec

(***************************************************************************)
(* Open accounts and their positions, again for any operator.               *)
(***************************************************************************)

(* Where no position is taken away and no account becomes active but by     *)
(* hand.                                                                    *)
LEMMA OpenKept ==
  ASSUME ActiveHasPosition, UNCHANGED positions, byHand \subseteq byHand',
         \A a \in Account \ byHand' : account'[a] = "active" => account[a] = "active"
  PROVE  ActiveHasPosition'
BY DEF ActiveHasPosition

LEMMA OpenServe ==
  ASSUME TablesInv, ActiveHasPosition, NEW w \in Worker, Serve(w)
  PROVE  ActiveHasPosition'
<1>t. positions \in [Account -> Nat] /\ account \in [Account -> Flag]
  BY DEF TablesInv, RowTypes
<1>1. CASE CreateHubAccount(w)
  <2> DEFINE h == <<Hub, Asked(w).type>>
  <2>1. CASE account[h] = "absent"
    <3>1. /\ account' = [account EXCEPT ![h] = "active"]
          /\ positions' = [positions EXCEPT ![h] = 1] /\ UNCHANGED byHand
      BY <1>1, <2>1 DEF CreateHubAccount
    <3> HIDE DEF h
    <3> QED
      BY <1>t, <3>1 DEF ActiveHasPosition
  <2>2. CASE account[h] # "absent"
    BY <1>1, <2>2, OpenKept DEF CreateHubAccount
  <2> QED
    BY <2>1, <2>2
<1>2. CASE CreateParticipantCurrency(w)
  <2>1. UNCHANGED <<positions, byHand>>
    BY <1>2 DEF CreateParticipantCurrency
  <2>2. \A a \in Account : account'[a] = "active" => account[a] = "active"
    BY <1>2, <1>t DEF CreateParticipantCurrency
  <2> QED
    BY <2>1, <2>2, OpenKept
<1>3. CASE UpdateAccount(w)
  <2>1. UNCHANGED positions /\ byHand \subseteq byHand'
    BY <1>3 DEF UpdateAccount
  <2>2. \A a \in Account \ byHand' : account'[a] = account[a]
    BY <1>3, <1>t DEF UpdateAccount
  <2> QED
    BY <2>1, <2>2, OpenKept
<1>4. CASE CommitLimit(w)
  <2>1. /\ positions' = [a \in Account |-> positions[a] + (IF a \in DOMAIN worker[w].positioned THEN worker[w].positioned[a] ELSE 0)]
        /\ account' = [a \in Account |-> IF a \in worker[w].activated /\ account[a] # "absent" THEN "active" ELSE account[a]]
        /\ UNCHANGED byHand
    BY <1>4 DEF CommitLimit
  <2>2. /\ worker[w].activated = DOMAIN worker[w].positioned
        /\ \A a \in DOMAIN worker[w].positioned : worker[w].positioned[a] \in Nat \ {0}
    BY <1>4 DEF CommitLimit, TablesInv, Serving
  <2>3. SUFFICES ASSUME NEW a \in Account \ byHand, account'[a] = "active"
                 PROVE  positions'[a] > 0
    BY <2>1 DEF ActiveHasPosition
  <2>4. positions[a] \in Nat /\ (account[a] = "active" => positions[a] > 0)
    BY <1>t DEF ActiveHasPosition
  <2>5. CASE a \in DOMAIN worker[w].positioned
    BY <2>1, <2>2, <2>4, <2>5
  <2>6. CASE a \notin DOMAIN worker[w].positioned
    BY <2>1, <2>2, <2>3, <2>4, <2>6
  <2> QED
    BY <2>5, <2>6
<1>5. CASE \/ CreateSettlementModel(w) \/ UpdateSettlementModel(w) \/ Create(w) \/ Update(w)
           \/ AddLimitAndInitialPosition(w) \/ InsertLimit(w) \/ AdjustLimits(w) \/ CommitAdjust(w)
  <2>1. UNCHANGED <<account, positions, byHand>>
    BY <1>5 DEF CreateSettlementModel, UpdateSettlementModel, Create, Update, AddLimitAndInitialPosition,
                InsertLimit, AdjustLimits, CommitAdjust, rows
  <2> QED
    BY <2>1, OpenKept
<1> QED
  BY <1>1, <1>2, <1>3, <1>4, <1>5 DEF Serve

LEMMA OpenNext ==
  ASSUME TablesInv, ActiveHasPosition, [Next]_vars
  PROVE  ActiveHasPosition'
<1>1. ASSUME NEW w \in Worker, Serve(w) PROVE ActiveHasPosition'
  BY <1>1, OpenServe
<1>2. CASE \/ \E w \in Worker : Receive(w)
           \/ \E p \in Process, t \in CachedTable : Generate(p, t) \/ Store(p, t) \/ Expire(p, t)
           \/ \E p \in Process : Die(p)
           \/ UNCHANGED vars
  <2>1. UNCHANGED <<rows, byHand>>
    BY <1>2 DEF Receive, Generate, Store, Expire, Die, vars
  <2> QED
    BY <2>1, OpenKept DEF rows
<1> QED
  BY <1>1, <1>2 DEF Next, Finished

(* An account is opened for postings together with its position row, even   *)
(* when settlement models change between the steps of a request, and even   *)
(* when two requests set the same participant's position.                   *)
THEOREM OpenAccountsHavePositions == Spec => []ActiveHasPosition
<1>1. Init => ActiveHasPosition
  BY DEF Init, ActiveHasPosition
<1>2. TablesInv /\ ActiveHasPosition /\ [Next]_vars => ActiveHasPosition'
  BY OpenNext
<1> QED
  BY <1>1, <1>2, TablesInit, TablesNext, PTL DEF Spec
=============================================================================
