--------------------------- MODULE FxPayments_proofs ---------------------------
(***************************************************************************)
(* Proofs about FxPayments, for any transfers, conversions, accounts,      *)
(* consumers, sizes of batches, expirations and process deaths.            *)
(***************************************************************************)
EXTENDS FxPayments, Sums, SequenceTheorems

(***************************************************************************)
(* Messages.  What every message has in common, wherever it is: the        *)
(* movement it asks for is one on the account it is keyed by.              *)
(***************************************************************************)
OfTransfer == {"prepare", "timeout", "commit", "abort"}
Own        == {"prepare", "fxPrepare", "timeout", "fxTimeout"}
Aborts     == {"abort", "fxAbort"}
KindOf(m)  == IF m.action = "commit" THEN "credit" ELSE "refund"

Sound(m) ==
  /\ m \in Message
  /\ m.id \in IF m.action \in OfTransfer THEN Transfer ELSE Conversion
  /\ m.action \in Own => m.account = DebitAccount[m.id]
  /\ m.action \in Aborts \union {"commit"} =>
       /\ m.done < Len(m.plan)
       /\ m.account = AccountFor(KindOf(m), NextMove(m))

(* The transfers and conversions whose rows a message may change.           *)
Concerns(m) == {m.id} \union Range(m.plan) \union m.unmoved

(* Of a settlement, those whose rows it changes now.                        *)
Reached(m) == {NextMove(m)} \union (IF IsLast(m) THEN m.unmoved ELSE {})

Following(m) == [m EXCEPT !.done = @ + 1, !.account = AccountFor(KindOf(m), m.plan[m.done + 2])]

(***************************************************************************)
(* What a message does to the transaction of its batch, one of five things.*)
(***************************************************************************)
Kept(w, v) == v.value = w.value /\ v.moved = w.moved
Made(w, v, m, x, kind) ==
  IF m.account = NoAccount THEN Kept(w, v)
  ELSE /\ v.value = [w.value EXCEPT ![m.account] = IF kind = "debit" THEN @ + Amount[x] ELSE @ - Amount[x]]
       /\ v.moved = [w.moved EXCEPT ![x][kind] = @ + 1]

StatesBecome(w, v, xs, s) ==
  \A y \in Id : v.rows[y] = w.rows[y] \/ (y \in xs /\ v.rows[y] = s)
AreTold(w, v, xs, notices) ==
  \A y \in Id : v.notices[y] \subseteq w.notices[y] \union (IF y \in xs THEN notices ELSE {})

Declines(w, v, m) ==
  /\ Kept(w, v)
  /\ v.followUps = w.followUps
  /\ StatesBecome(w, v, {m.id}, "ABORTED_REJECTED")
  /\ AreTold(w, v, {m.id}, {"accepted", "fulfilError", "prepareError"})

Holds(w, v, m) ==
  /\ m.action \in {"prepare", "fxPrepare"}
  /\ Made(w, v, m, m.id, "debit")
  /\ v.followUps = w.followUps
  /\ StatesBecome(w, v, {m.id}, "RESERVED")
  /\ AreTold(w, v, {m.id}, {"prepared"})

Returns(w, v, m) ==
  /\ m.action \in {"timeout", "fxTimeout"}
  /\ Made(w, v, m, m.id, "refund")
  /\ v.followUps = w.followUps
  /\ StatesBecome(w, v, {m.id}, "EXPIRED_RESERVED")
  /\ AreTold(w, v, {m.id}, {"timedOut"})

Pays(w, v, m) ==
  /\ m.action = "commit"
  /\ Made(w, v, m, NextMove(m), "credit")
  /\ v.followUps = w.followUps \union (IF IsLast(m) THEN {} ELSE {Following(m)})
  /\ StatesBecome(w, v, Reached(m), "COMMITTED")
  /\ AreTold(w, v, ({NextMove(m)} \intersect Conversion) \union (IF IsLast(m) THEN {m.id} ELSE {}), {"committed"})

GivesBack(w, v, m) ==
  /\ m.action \in Aborts
  /\ Made(w, v, m, NextMove(m), "refund")
  /\ v.followUps = w.followUps \union (IF IsLast(m) THEN {} ELSE {Following(m)})
  /\ StatesBecome(w, v, Reached(m), "ABORTED_ERROR")
  /\ AreTold(w, v, ({NextMove(m)} \intersect Conversion) \union (IF IsLast(m) THEN NotifiedOf(m) ELSE {}), {"aborted"})

Effect(w, v, m) ==
  /\ v \in Work /\ v.pc = w.pc /\ v.batch = w.batch /\ v.todo = w.todo
  /\ Declines(w, v, m) \/ Holds(w, v, m) \/ Returns(w, v, m) \/ Pays(w, v, m) \/ GivesBack(w, v, m)

(***************************************************************************)
(* Types.                                                                  *)
(***************************************************************************)
LEMMA Parameters ==
  /\ Account \subseteq Nat /\ NoAccount \notin Account
  /\ \A x \in Id : /\ DebitAccount[x] \in Account \union {NoAccount}
                   /\ CreditAccount[x] \in Account \union {NoAccount}
                   /\ Amount[x] \in Nat
BY PaymentAssumption DEF NoAccount

(* The fields of a message.                                                 *)
LEMMA MessageType ==
  ASSUME NEW m \in Message
  PROVE  /\ m.id \in Id /\ m.action \in Action
         /\ m.account \in Account \union {NoAccount}
         /\ m.plan \in Plan /\ m.done \in 0..1 /\ m.unmoved \subseteq Transfer
BY DEF Message

(* A plan is a sequence of at most two movements.                           *)
LEMMA PlanType ==
  ASSUME NEW p \in Plan
  PROVE  /\ Len(p) \in 0..2 /\ DOMAIN p = 1..Len(p)
         /\ \A i \in 1..Len(p) : p[i] \in Id /\ p[i] \in Range(p)
         /\ Range(p) \subseteq Id
<1>1. PICK n \in 0..2 : p \in [1..n -> Id]
  BY DEF Plan
<1>2. p \in Seq(Id) /\ Len(p) = n
  BY <1>1
<1> QED
  BY <1>1, <1>2 DEF Range

(* The fields of a batch.                                                   *)
LEMMA WorkType ==
  ASSUME NEW w \in Work
  PROVE  /\ w.pc \in Pc /\ w.batch \subseteq Message /\ w.todo \subseteq Message /\ w.bin \in Bin
         /\ w.latest \in [Id -> State] /\ w.seen \in [Id -> State] /\ w.left \in [Id -> State]
         /\ w.rows \in [Id -> State] /\ w.value \in [Account -> Int] /\ w.base \in Int
         /\ w.moved \in [Id -> [MoveKind -> Nat]] /\ w.notices \in [Id -> SUBSET Notice]
         /\ w.followUps \subseteq Message
BY DEF Work

LEMMA IdleType == Idle \in Work
BY DEF Work, Idle, NoStates, NoMoves, NoBin, Bin, Pc, State

(* A bin is entered with the message: only what it is judged by changes.    *)
LEMMA EnterType ==
  ASSUME NEW w \in Work, NEW m \in Message
  PROVE  /\ Enter(w, m) \in Work
         /\ Enter(w, m).pc = w.pc /\ Enter(w, m).batch = w.batch /\ Enter(w, m).todo = w.todo
         /\ Enter(w, m).value = w.value /\ Enter(w, m).moved = w.moved
         /\ Enter(w, m).rows = w.rows /\ Enter(w, m).notices = w.notices
         /\ Enter(w, m).followUps = w.followUps
<1>1. BinOf(m) \in Bin
  BY MessageType DEF BinOf, OrderOf, Bin, Action
<1>2. ValueOf(w, m.account) \in Int
  BY MessageType, WorkType DEF ValueOf
<1> QED
  BY <1>1, <1>2 DEF Enter, Work

LEMMA ChangeStateType ==
  ASSUME NEW w \in Work, NEW x \in Id, NEW s \in State
  PROVE  /\ ChangeState(w, x, s) \in Work
         /\ ChangeState(w, x, s).pc = w.pc /\ ChangeState(w, x, s).batch = w.batch
         /\ ChangeState(w, x, s).todo = w.todo
         /\ ChangeState(w, x, s).value = w.value /\ ChangeState(w, x, s).moved = w.moved
         /\ ChangeState(w, x, s).rows = [w.rows EXCEPT ![x] = s]
         /\ ChangeState(w, x, s).notices = w.notices
         /\ ChangeState(w, x, s).followUps = w.followUps
BY DEF ChangeState, Work

LEMMA TellType ==
  ASSUME NEW w \in Work, NEW x \in Id, NEW n \in Notice
  PROVE  /\ Tell(w, x, n) \in Work
         /\ Tell(w, x, n).pc = w.pc /\ Tell(w, x, n).batch = w.batch /\ Tell(w, x, n).todo = w.todo
         /\ Tell(w, x, n).value = w.value /\ Tell(w, x, n).moved = w.moved
         /\ Tell(w, x, n).rows = w.rows
         /\ Tell(w, x, n).notices = [w.notices EXCEPT ![x] = @ \union {n}]
         /\ Tell(w, x, n).followUps = w.followUps
BY DEF Tell, Work

LEMMA MoveType ==
  ASSUME NEW w \in Work, NEW m \in Message, NEW x \in Id, NEW kind \in MoveKind
  PROVE  /\ Move(w, m, x, kind) \in Work
         /\ Move(w, m, x, kind).pc = w.pc /\ Move(w, m, x, kind).batch = w.batch
         /\ Move(w, m, x, kind).todo = w.todo
         /\ Made(w, Move(w, m, x, kind), m, x, kind)
         /\ Move(w, m, x, kind).rows = w.rows
         /\ Move(w, m, x, kind).notices = w.notices
         /\ Move(w, m, x, kind).followUps = w.followUps
<1>1. CASE m.account = NoAccount
  BY <1>1 DEF Move, Made, Kept
<1>2. CASE m.account # NoAccount
  <2>1. m.account \in Account /\ Amount[x] \in Int
    BY <1>2, MessageType, Parameters
  <2> DEFINE v == [w.value EXCEPT ![m.account] = IF kind = "debit" THEN @ + Amount[x] ELSE @ - Amount[x]]
             d == [w.moved EXCEPT ![x][kind] = @ + 1]
  <2>2. v \in [Account -> Int]
    BY <2>1, WorkType
  <2>3. d \in [Id -> [MoveKind -> Nat]]
    BY WorkType
  <2>4. Move(w, m, x, kind) = [w EXCEPT !.value = v, !.moved = d]
    BY <1>2 DEF Move, Work
  <2>5. Made(w, Move(w, m, x, kind), m, x, kind)
    BY <1>2, <2>4 DEF Made, Work
  <2> HIDE DEF v, d
  <2> QED
    BY <2>2, <2>3, <2>4, <2>5 DEF Work
<1> QED
  BY <1>1, <1>2

LEMMA MoveNothingType ==
  ASSUME NEW w \in Work, NEW m \in Message, NEW s \in State
  PROVE  LET v == MoveNothing(w, m, s)
         IN /\ v \in Work
            /\ v.pc = w.pc /\ v.batch = w.batch /\ v.todo = w.todo
            /\ v.value = w.value /\ v.moved = w.moved
            /\ \A y \in Id : v.rows[y] = IF y \in m.unmoved THEN s ELSE w.rows[y]
            /\ v.notices = w.notices /\ v.followUps = w.followUps
BY DEF MoveNothing, Work

LEMMA TellAllType ==
  ASSUME NEW w \in Work, NEW xs, NEW n \in Notice
  PROVE  LET v == TellAll(w, xs, n)
         IN /\ v \in Work
            /\ v.pc = w.pc /\ v.batch = w.batch /\ v.todo = w.todo
            /\ v.value = w.value /\ v.moved = w.moved /\ v.rows = w.rows
            /\ \A y \in Id : v.notices[y] = IF y \in xs THEN w.notices[y] \union {n} ELSE w.notices[y]
            /\ v.followUps = w.followUps
BY DEF TellAll, Work

LEMMA FollowUpType ==
  ASSUME NEW w \in Work, NEW m, Sound(m), m.action \in Aborts \union {"commit"}, ~IsLast(m)
  PROVE  LET v == FollowUp(w, m, KindOf(m))
         IN /\ v \in Work /\ Sound(Following(m))
            /\ v.pc = w.pc /\ v.batch = w.batch /\ v.todo = w.todo
            /\ v.value = w.value /\ v.moved = w.moved /\ v.rows = w.rows /\ v.notices = w.notices
            /\ v.followUps = w.followUps \union {Following(m)}
<1>1. m \in Message /\ m.done < Len(m.plan)
  BY DEF Sound
<1>2. m.done = 0 /\ Len(m.plan) = 2 /\ m.plan[2] \in Id /\ m.plan[m.done + 2] = m.plan[2]
  <2>1. m.plan \in Plan /\ m.done \in 0..1
    BY <1>1, MessageType
  <2>2. Len(m.plan) \in 0..2
    BY <2>1, PlanType
  <2> DEFINE n == Len(m.plan)
  <2>3. m.done + 1 # n
    BY DEF IsLast
  <2>4. m.done < n /\ n \in 0..2
    BY <1>1, <2>2
  <2> HIDE DEF n
  <2>5. m.done = 0 /\ n = 2
    BY <2>1, <2>3, <2>4
  <2>6. m.done = 0 /\ Len(m.plan) = 2
    BY <2>5 DEF n
  <2> QED
    BY <2>1, <2>6, PlanType
<1> DEFINE a == AccountFor(KindOf(m), m.plan[2])
<1>3. a \in Account \union {NoAccount}
  BY <1>2, Parameters DEF AccountFor
<1>4. Following(m) = [m EXCEPT !.done = 1, !.account = a]
  BY <1>1, <1>2 DEF Following, Message
<1>5. /\ Following(m) \in Message
      /\ Following(m).id = m.id /\ Following(m).action = m.action /\ Following(m).plan = m.plan
      /\ Following(m).done = 1 /\ Following(m).account = a
  <2> DEFINE f == [m EXCEPT !.done = 1, !.account = a]
  <2> HIDE DEF a
  <2>1. f.id = m.id /\ f.action = m.action /\ f.plan = m.plan /\ f.done = 1 /\ f.account = a
    BY <1>1 DEF Message
  <2>2. f \in Message
    <3> DEFINE d == [m EXCEPT !.done = 1]
    <3>1. d \in Message
      BY <1>1 DEF Message
    <3>2. f = [d EXCEPT !.account = a]
      BY <1>1 DEF Message
    <3> HIDE DEF d
    <3> QED
      BY <1>3, <3>1, <3>2 DEF Message
  <2> HIDE DEF f
  <2>3. Following(m) = f
    BY <1>4 DEF f
  <2> QED
    BY <2>1, <2>2, <2>3
<1>6. Sound(Following(m))
  <2>1. KindOf(Following(m)) = KindOf(m) /\ NextMove(Following(m)) = m.plan[2]
    BY <1>5 DEF KindOf, NextMove
  <2> HIDE DEF a
  <2>2. a = AccountFor(KindOf(Following(m)), NextMove(Following(m)))
    BY <2>1 DEF a
  <2> QED
    BY <1>2, <1>5, <2>2 DEF Sound, Aborts, Own
<1>7. FollowUp(w, m, KindOf(m)) = [w EXCEPT !.followUps = @ \union {Following(m)}]
  BY DEF FollowUp, Following
<1>8. Following(m) \in Message
  BY <1>5
<1> HIDE DEF a
<1> DEFINE v == [w EXCEPT !.followUps = @ \union {Following(m)}]
<1>9. /\ v \in Work
      /\ v.pc = w.pc /\ v.batch = w.batch /\ v.todo = w.todo
      /\ v.value = w.value /\ v.moved = w.moved /\ v.rows = w.rows /\ v.notices = w.notices
      /\ v.followUps = w.followUps \union {Following(m)}
  BY <1>8 DEF Work
<1> HIDE DEF v
<1>10. FollowUp(w, m, KindOf(m)) = v
  BY <1>7 DEF v
<1> QED
  BY <1>6, <1>9, <1>10

(* The movement that a message asks for is one of its plan.                 *)
LEMMA NextMoveType ==
  ASSUME NEW m, Sound(m), m.action \in Aborts \union {"commit"}
  PROVE  m \in Message /\ NextMove(m) \in Id /\ NextMove(m) \in Concerns(m) /\ NextMove(m) \in Range(m.plan)
         /\ Reached(m) \subseteq Concerns(m)
<1>1. m \in Message /\ m.done < Len(m.plan)
  BY DEF Sound
<1>2. m.plan \in Plan /\ m.done \in 0..1
  BY <1>1, MessageType
<1> DEFINE n == Len(m.plan)
<1>3. n \in 0..2 /\ m.done < n
  BY <1>1, <1>2, PlanType
<1> HIDE DEF n
<1>4. m.done + 1 \in 1..n
  BY <1>2, <1>3
<1>5. NextMove(m) \in Id /\ NextMove(m) \in Range(m.plan)
  BY <1>2, <1>4, PlanType DEF NextMove, n
<1> QED
  BY <1>1, <1>5 DEF Concerns, Reached

(***************************************************************************)
(* What each kind of message does.                                         *)
(***************************************************************************)
LEMMA CommitMoveIs ==
  ASSUME NEW w \in Work, NEW m, Sound(m), m.action = "commit"
  PROVE  LET v == CommitMove(w, m) IN
         /\ v \in Work /\ v.pc = w.pc /\ v.batch = w.batch /\ v.todo = w.todo
         /\ Made(w, v, m, NextMove(m), "credit")
         /\ v.rows = [w.rows EXCEPT ![NextMove(m)] = "COMMITTED"]
         /\ AreTold(w, v, {NextMove(m)} \intersect Conversion, {"committed"})
         /\ v.followUps = w.followUps
<1> DEFINE x == NextMove(m)
           f == Move(w, m, x, "credit")
           g == ChangeState(f, x, "COMMITTED")
           v == CommitMove(w, m)
<1>1. m \in Message /\ x \in Id /\ "credit" \in MoveKind /\ "COMMITTED" \in State /\ "committed" \in Notice
  BY NextMoveType DEF MoveKind, State, Notice
<1>2. w \in Work
  OBVIOUS
<1>3. v = PatchCommitted(g, x)
  BY DEF CommitMove
<1> HIDE DEF x, v
<1>4. /\ f \in Work /\ f.pc = w.pc /\ f.batch = w.batch /\ f.todo = w.todo
      /\ Made(w, f, m, x, "credit") /\ f.rows = w.rows /\ f.notices = w.notices /\ f.followUps = w.followUps
  BY <1>1, <1>2, MoveType
<1> HIDE DEF f
<1>5. /\ g \in Work /\ g.pc = w.pc /\ g.batch = w.batch /\ g.todo = w.todo
      /\ g.value = f.value /\ g.moved = f.moved
      /\ g.rows = [w.rows EXCEPT ![x] = "COMMITTED"] /\ g.notices = w.notices /\ g.followUps = w.followUps
  BY <1>1, <1>4, ChangeStateType
<1> HIDE DEF g
<1>6. /\ v \in Work /\ v.pc = w.pc /\ v.batch = w.batch /\ v.todo = w.todo
      /\ v.value = f.value /\ v.moved = f.moved /\ v.rows = g.rows /\ v.followUps = w.followUps
      /\ AreTold(w, v, {x} \intersect Conversion, {"committed"})
  <2>1. CASE x \in Conversion
    <3>1. v = Tell(g, x, "committed")
      BY <1>3, <2>1 DEF PatchCommitted
    <3>2. /\ v \in Work /\ v.pc = g.pc /\ v.batch = g.batch /\ v.todo = g.todo
          /\ v.value = g.value /\ v.moved = g.moved /\ v.rows = g.rows /\ v.followUps = g.followUps
          /\ v.notices = [g.notices EXCEPT ![x] = @ \union {"committed"}]
      BY <1>1, <1>5, <3>1, TellType
    <3>3. AreTold(w, v, {x} \intersect Conversion, {"committed"})
      BY <1>2, <1>5, <2>1, <3>2, WorkType DEF AreTold
    <3> QED
      BY <1>5, <3>2, <3>3
  <2>2. CASE x \notin Conversion
    <3>1. v = g
      BY <1>3, <2>2 DEF PatchCommitted
    <3> QED
      BY <1>5, <3>1 DEF AreTold
  <2> QED
    BY <2>1, <2>2
<1>7. Made(w, v, m, x, "credit")
  BY <1>4, <1>6 DEF Made, Kept
<1> QED
  BY <1>5, <1>6, <1>7 DEF x, v

LEMMA CommitStepIs ==
  ASSUME NEW w \in Work, NEW m, Sound(m), m.action = "commit"
  PROVE  /\ CommitStep(w, m) \in Work
         /\ CommitStep(w, m).pc = w.pc /\ CommitStep(w, m).batch = w.batch
         /\ CommitStep(w, m).todo = w.todo
         /\ Pays(w, CommitStep(w, m), m)
         /\ \A f \in CommitStep(w, m).followUps \ w.followUps : Sound(f)
<1> DEFINE x == NextMove(m)
           g == CommitMove(w, m)
           v == CommitStep(w, m)
<1>1. m \in Message /\ m.id \in Id /\ x \in Id
      /\ "COMMITTED" \in State /\ "committed" \in Notice
  BY NextMoveType, MessageType DEF State, Notice
<1>2. /\ g \in Work /\ g.pc = w.pc /\ g.batch = w.batch /\ g.todo = w.todo
      /\ Made(w, g, m, x, "credit")
      /\ g.rows = [w.rows EXCEPT ![x] = "COMMITTED"]
      /\ AreTold(w, g, {x} \intersect Conversion, {"committed"})
      /\ g.followUps = w.followUps
  BY CommitMoveIs
<1>3. /\ v = IF IsLast(m) THEN Tell(MoveNothing(g, m, "COMMITTED"), m.id, "committed")
             ELSE FollowUp(g, m, "credit")
      /\ KindOf(m) = "credit"
  BY DEF CommitStep, KindOf
<1>4. w \in Work
  OBVIOUS
<1> HIDE DEF x, g, v
<1>5. CASE IsLast(m)
  <2> DEFINE h == MoveNothing(g, m, "COMMITTED")
  <2>1. /\ h \in Work /\ h.pc = g.pc /\ h.batch = g.batch /\ h.todo = g.todo
        /\ h.value = g.value /\ h.moved = g.moved
        /\ \A y \in Id : h.rows[y] = IF y \in m.unmoved THEN "COMMITTED" ELSE g.rows[y]
        /\ h.notices = g.notices /\ h.followUps = g.followUps
    <3>1. g \in Work /\ m \in Message /\ "COMMITTED" \in State
      BY <1>1, <1>2
    <3> QED
      BY <3>1, MoveNothingType
  <2> HIDE DEF h
  <2>2. v = Tell(h, m.id, "committed")
    BY <1>3, <1>5 DEF h
  <2>3. /\ v \in Work /\ v.pc = h.pc /\ v.batch = h.batch /\ v.todo = h.todo
        /\ v.value = h.value /\ v.moved = h.moved /\ v.rows = h.rows /\ v.followUps = h.followUps
        /\ v.notices = [h.notices EXCEPT ![m.id] = @ \union {"committed"}]
    BY <1>1, <2>1, <2>2, TellType
  <2>4. Made(w, v, m, x, "credit")
    BY <1>2, <2>1, <2>3 DEF Made, Kept
  <2>5. StatesBecome(w, v, Reached(m), "COMMITTED")
    BY <1>1, <1>2, <1>4, <1>5, <2>1, <2>3, WorkType DEF StatesBecome, Reached, x
  <2>6. AreTold(w, v, ({x} \intersect Conversion) \union {m.id}, {"committed"})
    BY <1>1, <1>2, <2>1, <2>3, WorkType DEF AreTold
  <2>7. Pays(w, v, m)
    BY <1>2, <1>5, <2>1, <2>3, <2>4, <2>5, <2>6 DEF Pays, x
  <2> QED
    BY <1>2, <2>1, <2>3, <2>7 DEF v
<1>6. CASE ~IsLast(m)
  <2>1. v = FollowUp(g, m, KindOf(m))
    BY <1>3, <1>6
  <2>2. /\ v \in Work /\ Sound(Following(m))
        /\ v.pc = g.pc /\ v.batch = g.batch /\ v.todo = g.todo
        /\ v.value = g.value /\ v.moved = g.moved /\ v.rows = g.rows /\ v.notices = g.notices
        /\ v.followUps = g.followUps \union {Following(m)}
    BY <1>2, <1>6, <2>1, FollowUpType DEF Aborts
  <2>3. Made(w, v, m, x, "credit")
    BY <1>2, <2>2 DEF Made, Kept
  <2>4. StatesBecome(w, v, Reached(m), "COMMITTED")
    BY <1>1, <1>2, <1>4, <2>2, WorkType DEF StatesBecome, Reached, x
  <2>5. AreTold(w, v, {x} \intersect Conversion, {"committed"})
    BY <1>2, <2>2 DEF AreTold
  <2>6. AreTold(w, v, ({x} \intersect Conversion) \union {}, {"committed"})
    BY <2>5 DEF AreTold
  <2>7. Pays(w, v, m)
    BY <1>2, <1>6, <2>2, <2>3, <2>4, <2>6 DEF Pays, x
  <2> QED
    BY <1>2, <2>2, <2>7 DEF v
<1> QED
  BY <1>5, <1>6

LEMMA AbortMoveIs ==
  ASSUME NEW w \in Work, NEW m, Sound(m), m.action \in Aborts
  PROVE  LET v == AbortMove(w, m) IN
         /\ v \in Work /\ v.pc = w.pc /\ v.batch = w.batch /\ v.todo = w.todo
         /\ Made(w, v, m, NextMove(m), "refund")
         /\ v.rows = [w.rows EXCEPT ![NextMove(m)] = "ABORTED_ERROR"]
         /\ AreTold(w, v, {NextMove(m)} \intersect Conversion, {"aborted"})
         /\ v.followUps = w.followUps
<1> DEFINE x == NextMove(m)
           f == Move(w, m, x, "refund")
           g == ChangeState(f, x, "ABORTED_ERROR")
           v == AbortMove(w, m)
<1>1. m \in Message /\ x \in Id /\ "refund" \in MoveKind /\ "ABORTED_ERROR" \in State /\ "aborted" \in Notice
  BY NextMoveType DEF MoveKind, State, Notice
<1>2. w \in Work
  OBVIOUS
<1>3. v = PatchAborted(g, m, x)
  BY DEF AbortMove
<1> HIDE DEF x, v
<1>4. /\ f \in Work /\ f.pc = w.pc /\ f.batch = w.batch /\ f.todo = w.todo
      /\ Made(w, f, m, x, "refund") /\ f.rows = w.rows /\ f.notices = w.notices /\ f.followUps = w.followUps
  BY <1>1, <1>2, MoveType
<1> HIDE DEF f
<1>5. /\ g \in Work /\ g.pc = w.pc /\ g.batch = w.batch /\ g.todo = w.todo
      /\ g.value = f.value /\ g.moved = f.moved
      /\ g.rows = [w.rows EXCEPT ![x] = "ABORTED_ERROR"] /\ g.notices = w.notices /\ g.followUps = w.followUps
  BY <1>1, <1>4, ChangeStateType
<1> HIDE DEF g
<1>6. /\ v \in Work /\ v.pc = w.pc /\ v.batch = w.batch /\ v.todo = w.todo
      /\ v.value = f.value /\ v.moved = f.moved /\ v.rows = g.rows /\ v.followUps = w.followUps
      /\ AreTold(w, v, {x} \intersect Conversion, {"aborted"})
  <2>1. CASE x \in Conversion /\ m.id \in Transfer /\ DebitAccount[m.id] # NoAccount
    <3>1. v = Tell(g, x, "aborted")
      BY <1>3, <2>1 DEF PatchAborted
    <3>2. /\ v \in Work /\ v.pc = g.pc /\ v.batch = g.batch /\ v.todo = g.todo
          /\ v.value = g.value /\ v.moved = g.moved /\ v.rows = g.rows /\ v.followUps = g.followUps
          /\ v.notices = [g.notices EXCEPT ![x] = @ \union {"aborted"}]
      BY <1>1, <1>5, <3>1, TellType
    <3>3. AreTold(w, v, {x} \intersect Conversion, {"aborted"})
      BY <1>2, <1>5, <2>1, <3>2, WorkType DEF AreTold
    <3> QED
      BY <1>5, <3>2, <3>3
  <2>2. CASE ~(x \in Conversion /\ m.id \in Transfer /\ DebitAccount[m.id] # NoAccount)
    <3>1. v = g
      BY <1>3, <2>2 DEF PatchAborted
    <3> QED
      BY <1>5, <3>1 DEF AreTold
  <2> QED
    BY <2>1, <2>2
<1>7. Made(w, v, m, x, "refund")
  BY <1>4, <1>6 DEF Made, Kept
<1> QED
  BY <1>5, <1>6, <1>7 DEF x, v

LEMMA AbortStepIs ==
  ASSUME NEW w \in Work, NEW m, Sound(m), m.action \in Aborts
  PROVE  /\ AbortStep(w, m) \in Work
         /\ AbortStep(w, m).pc = w.pc /\ AbortStep(w, m).batch = w.batch
         /\ AbortStep(w, m).todo = w.todo
         /\ GivesBack(w, AbortStep(w, m), m)
         /\ \A f \in AbortStep(w, m).followUps \ w.followUps : Sound(f)
<1> DEFINE x == NextMove(m)
           g == AbortMove(w, m)
           v == AbortStep(w, m)
<1>1. m \in Message /\ m.id \in Id /\ x \in Id
      /\ "ABORTED_ERROR" \in State /\ "aborted" \in Notice
  BY NextMoveType, MessageType DEF State, Notice
<1>2. /\ g \in Work /\ g.pc = w.pc /\ g.batch = w.batch /\ g.todo = w.todo
      /\ Made(w, g, m, x, "refund")
      /\ g.rows = [w.rows EXCEPT ![x] = "ABORTED_ERROR"]
      /\ AreTold(w, g, {x} \intersect Conversion, {"aborted"})
      /\ g.followUps = w.followUps
  BY AbortMoveIs
<1>3. /\ v = IF IsLast(m) THEN TellAll(MoveNothing(g, m, "ABORTED_ERROR"), NotifiedOf(m), "aborted")
             ELSE FollowUp(g, m, "refund")
      /\ KindOf(m) = "refund"
  BY DEF AbortStep, KindOf, Aborts
<1>4. w \in Work
  OBVIOUS
<1> HIDE DEF x, g, v
<1>5. CASE IsLast(m)
  <2> DEFINE h == MoveNothing(g, m, "ABORTED_ERROR")
  <2>1. /\ h \in Work /\ h.pc = g.pc /\ h.batch = g.batch /\ h.todo = g.todo
        /\ h.value = g.value /\ h.moved = g.moved
        /\ \A y \in Id : h.rows[y] = IF y \in m.unmoved THEN "ABORTED_ERROR" ELSE g.rows[y]
        /\ h.notices = g.notices /\ h.followUps = g.followUps
    <3>1. g \in Work /\ m \in Message /\ "ABORTED_ERROR" \in State
      BY <1>1, <1>2
    <3> QED
      BY <3>1, MoveNothingType
  <2> HIDE DEF h
  <2>2. v = TellAll(h, NotifiedOf(m), "aborted")
    BY <1>3, <1>5 DEF h
  <2>3. /\ v \in Work /\ v.pc = h.pc /\ v.batch = h.batch /\ v.todo = h.todo
        /\ v.value = h.value /\ v.moved = h.moved /\ v.rows = h.rows /\ v.followUps = h.followUps
        /\ \A y \in Id : v.notices[y] = IF y \in NotifiedOf(m) THEN h.notices[y] \union {"aborted"} ELSE h.notices[y]
    <3>1. h \in Work /\ "aborted" \in Notice
      BY <1>1, <2>1
    <3> QED
      BY <2>2, <3>1, TellAllType
  <2>4. Made(w, v, m, x, "refund")
    BY <1>2, <2>1, <2>3 DEF Made, Kept
  <2>5. StatesBecome(w, v, Reached(m), "ABORTED_ERROR")
    BY <1>1, <1>2, <1>4, <1>5, <2>1, <2>3, WorkType DEF StatesBecome, Reached, x
  <2>6. AreTold(w, v, ({x} \intersect Conversion) \union NotifiedOf(m), {"aborted"})
    BY <1>1, <1>2, <2>1, <2>3, WorkType DEF AreTold
  <2>7. GivesBack(w, v, m)
    BY <1>2, <1>5, <2>1, <2>3, <2>4, <2>5, <2>6 DEF GivesBack, x
  <2> QED
    BY <1>2, <2>1, <2>3, <2>7 DEF v
<1>6. CASE ~IsLast(m)
  <2>1. v = FollowUp(g, m, KindOf(m))
    BY <1>3, <1>6
  <2>2. /\ v \in Work /\ Sound(Following(m))
        /\ v.pc = g.pc /\ v.batch = g.batch /\ v.todo = g.todo
        /\ v.value = g.value /\ v.moved = g.moved /\ v.rows = g.rows /\ v.notices = g.notices
        /\ v.followUps = g.followUps \union {Following(m)}
    BY <1>2, <1>6, <2>1, FollowUpType
  <2>3. Made(w, v, m, x, "refund")
    BY <1>2, <2>2 DEF Made, Kept
  <2>4. StatesBecome(w, v, Reached(m), "ABORTED_ERROR")
    BY <1>1, <1>2, <1>4, <2>2, WorkType DEF StatesBecome, Reached, x
  <2>5. AreTold(w, v, {x} \intersect Conversion, {"aborted"})
    BY <1>2, <2>2 DEF AreTold
  <2>6. AreTold(w, v, ({x} \intersect Conversion) \union {}, {"aborted"})
    BY <2>5 DEF AreTold
  <2>7. GivesBack(w, v, m)
    BY <1>2, <1>6, <2>2, <2>3, <2>4, <2>6 DEF GivesBack, x
  <2> QED
    BY <1>2, <2>2, <2>7 DEF v
<1> QED
  BY <1>5, <1>6

LEMMA HoldIs ==
  ASSUME NEW w \in Work, NEW m, Sound(m), m.action \in {"prepare", "fxPrepare"}
  PROVE  /\ Reserve(w, m) \in Work /\ Reserve(w, m).pc = w.pc
         /\ Reserve(w, m).batch = w.batch /\ Reserve(w, m).todo = w.todo
         /\ Holds(w, Reserve(w, m), m)
<1> DEFINE f == Move(w, m, m.id, "debit")
           g == ChangeState(f, m.id, "RESERVED")
           h == Hold(w, m)
           v == Reserve(w, m)
<1>1. m \in Message /\ m.id \in Id /\ "debit" \in MoveKind /\ "RESERVED" \in State /\ "prepared" \in Notice
      /\ Amount[m.id] \in Int
  BY MessageType, Parameters DEF Sound, MoveKind, State, Notice
<1>2. /\ h = [g EXCEPT !.base = @ - Amount[m.id]]
      /\ v = Tell(h, m.id, "prepared")
  BY DEF Hold, Reserve
<1>3. w \in Work
  OBVIOUS
<1>4. /\ f \in Work /\ f.pc = w.pc /\ f.batch = w.batch /\ f.todo = w.todo
      /\ Made(w, f, m, m.id, "debit") /\ f.rows = w.rows /\ f.notices = w.notices /\ f.followUps = w.followUps
  BY <1>1, <1>3, MoveType
<1> HIDE DEF f, h, v
<1>5. /\ g \in Work /\ g.pc = w.pc /\ g.batch = w.batch /\ g.todo = w.todo
      /\ g.value = f.value /\ g.moved = f.moved
      /\ g.rows = [w.rows EXCEPT ![m.id] = "RESERVED"] /\ g.notices = w.notices /\ g.followUps = w.followUps
  BY <1>1, <1>4, ChangeStateType
<1> HIDE DEF g
<1>6. /\ h \in Work /\ h.pc = g.pc /\ h.batch = g.batch /\ h.todo = g.todo
      /\ h.value = g.value /\ h.moved = g.moved
      /\ h.rows = g.rows /\ h.notices = g.notices /\ h.followUps = g.followUps
  <2>1. g.base - Amount[m.id] \in Int
    BY <1>1, <1>5, WorkType
  <2>2. h = [g EXCEPT !.base = g.base - Amount[m.id]]
    BY <1>2, <1>5 DEF Work
  <2> DEFINE b == g.base - Amount[m.id]
  <2> HIDE DEF b
  <2>3. b \in Int /\ h = [g EXCEPT !.base = b]
    BY <2>1, <2>2 DEF b
  <2> QED
    BY <1>5, <2>3 DEF Work
<1>7. /\ v \in Work /\ v.pc = h.pc /\ v.batch = h.batch /\ v.todo = h.todo
      /\ v.value = h.value /\ v.moved = h.moved /\ v.rows = h.rows /\ v.followUps = h.followUps
      /\ v.notices = [h.notices EXCEPT ![m.id] = @ \union {"prepared"}]
  <2>1. h \in Work /\ m.id \in Id /\ "prepared" \in Notice /\ v = Tell(h, m.id, "prepared")
    BY <1>1, <1>2, <1>6
  <2> QED
    BY <2>1, TellType
<1>8. Made(w, v, m, m.id, "debit")
  BY <1>4, <1>5, <1>6, <1>7 DEF Made, Kept
<1>9. StatesBecome(w, v, {m.id}, "RESERVED")
  BY <1>1, <1>3, <1>5, <1>6, <1>7, WorkType DEF StatesBecome
<1>10. AreTold(w, v, {m.id}, {"prepared"})
  BY <1>1, <1>3, <1>5, <1>6, <1>7, WorkType DEF AreTold
<1>11. Holds(w, v, m)
  BY <1>5, <1>6, <1>7, <1>8, <1>9, <1>10 DEF Holds
<1> QED
  BY <1>5, <1>6, <1>7, <1>11 DEF v

LEMMA RejectIs ==
  ASSUME NEW w \in Work, NEW m \in Message, NEW n \in {"prepareError", "fulfilError"}
  PROVE  LET v == Tell(ChangeState(w, m.id, "ABORTED_REJECTED"), m.id, n) IN
         /\ v \in Work /\ v.pc = w.pc /\ v.batch = w.batch /\ v.todo = w.todo
         /\ Declines(w, v, m)
<1> DEFINE g == ChangeState(w, m.id, "ABORTED_REJECTED")
           v == Tell(g, m.id, n)
<1>1. m.id \in Id /\ "ABORTED_REJECTED" \in State /\ n \in Notice
  BY MessageType DEF State, Notice
<1>2. w \in Work
  OBVIOUS
<1>3. /\ g \in Work /\ g.pc = w.pc /\ g.batch = w.batch /\ g.todo = w.todo
      /\ g.value = w.value /\ g.moved = w.moved
      /\ g.rows = [w.rows EXCEPT ![m.id] = "ABORTED_REJECTED"] /\ g.notices = w.notices /\ g.followUps = w.followUps
  BY <1>1, <1>2, ChangeStateType
<1> HIDE DEF g
<1>4. /\ v \in Work /\ v.pc = g.pc /\ v.batch = g.batch /\ v.todo = g.todo
      /\ v.value = g.value /\ v.moved = g.moved /\ v.rows = g.rows /\ v.followUps = g.followUps
      /\ v.notices = [g.notices EXCEPT ![m.id] = @ \union {n}]
  BY <1>1, <1>3, TellType
<1> HIDE DEF v
<1>5. StatesBecome(w, v, {m.id}, "ABORTED_REJECTED")
  BY <1>1, <1>2, <1>3, <1>4, WorkType DEF StatesBecome
<1>6. AreTold(w, v, {m.id}, {"accepted", "fulfilError", "prepareError"})
  BY <1>1, <1>2, <1>3, <1>4, WorkType DEF AreTold
<1>7. Declines(w, v, m)
  BY <1>3, <1>4, <1>5, <1>6 DEF Declines, Kept
<1> QED
  BY <1>3, <1>4, <1>7 DEF v, g

LEMMA AnswerIs ==
  ASSUME NEW w \in Work, NEW m \in Message, NEW n \in {"accepted", "fulfilError"}
  PROVE  LET v == Tell(w, m.id, n) IN
         /\ v \in Work /\ v.pc = w.pc /\ v.batch = w.batch /\ v.todo = w.todo
         /\ Declines(w, v, m)
<1> DEFINE v == Tell(w, m.id, n)
<1>1. m.id \in Id /\ n \in Notice
  BY MessageType DEF Notice
<1>2. w \in Work
  OBVIOUS
<1>3. /\ v \in Work /\ v.pc = w.pc /\ v.batch = w.batch /\ v.todo = w.todo
      /\ v.value = w.value /\ v.moved = w.moved /\ v.rows = w.rows /\ v.followUps = w.followUps
      /\ v.notices = [w.notices EXCEPT ![m.id] = @ \union {n}]
  BY <1>1, <1>2, TellType
<1> HIDE DEF v
<1>4. StatesBecome(w, v, {m.id}, "ABORTED_REJECTED")
  BY <1>3 DEF StatesBecome
<1>5. AreTold(w, v, {m.id}, {"accepted", "fulfilError", "prepareError"})
  BY <1>1, <1>2, <1>3, WorkType DEF AreTold
<1>6. Declines(w, v, m)
  BY <1>3, <1>4, <1>5 DEF Declines, Kept
<1> QED
  BY <1>3, <1>6 DEF v

LEMMA TimeoutIs ==
  ASSUME NEW w \in Work, NEW m, Sound(m), m.action \in {"timeout", "fxTimeout"}, NEW g,
         \/ g = TimeoutMove(w, m)
         \/ g = FxTimeoutMove(w, m)
  PROVE  LET v == Tell(g, m.id, "timedOut") IN
         /\ v \in Work /\ v.pc = w.pc /\ v.batch = w.batch /\ v.todo = w.todo
         /\ Returns(w, v, m)
<1> DEFINE f == Move(w, m, m.id, "refund")
           v == Tell(g, m.id, "timedOut")
<1>1. m \in Message /\ m.id \in Id /\ "refund" \in MoveKind /\ "EXPIRED_RESERVED" \in State /\ "timedOut" \in Notice
  BY MessageType DEF Sound, MoveKind, State, Notice
<1>2. w \in Work
  OBVIOUS
<1>3. /\ f \in Work /\ f.pc = w.pc /\ f.batch = w.batch /\ f.todo = w.todo
      /\ Made(w, f, m, m.id, "refund") /\ f.rows = w.rows /\ f.notices = w.notices /\ f.followUps = w.followUps
  BY <1>1, <1>2, MoveType
<1>4. /\ g \in Work /\ g.pc = w.pc /\ g.batch = w.batch /\ g.todo = w.todo
      /\ g.value = f.value /\ g.moved = f.moved
      /\ g.rows = [w.rows EXCEPT ![m.id] = "EXPIRED_RESERVED"] /\ g.notices = w.notices /\ g.followUps = w.followUps
  <2>1. CASE g = TimeoutMove(w, m)
    <3>1. g = ChangeState(f, m.id, "EXPIRED_RESERVED")
      BY <2>1 DEF TimeoutMove
    <3> HIDE DEF f
    <3> QED
      BY <1>1, <1>3, <3>1, ChangeStateType
  <2>2. CASE g = FxTimeoutMove(w, m)
    <3>1. g = [f EXCEPT !.rows[m.id] = "EXPIRED_RESERVED"]
      BY <2>2 DEF FxTimeoutMove
    <3> HIDE DEF f
    <3> QED
      BY <1>1, <1>3, <3>1 DEF Work
  <2> QED
    BY <2>1, <2>2
<1> HIDE DEF f
<1>5. /\ v \in Work /\ v.pc = g.pc /\ v.batch = g.batch /\ v.todo = g.todo
      /\ v.value = g.value /\ v.moved = g.moved /\ v.rows = g.rows /\ v.followUps = g.followUps
      /\ v.notices = [g.notices EXCEPT ![m.id] = @ \union {"timedOut"}]
  BY <1>1, <1>4, TellType
<1> HIDE DEF v
<1>6. Made(w, v, m, m.id, "refund")
  BY <1>3, <1>4, <1>5 DEF Made, Kept
<1>7. StatesBecome(w, v, {m.id}, "EXPIRED_RESERVED")
  BY <1>1, <1>2, <1>4, <1>5, WorkType DEF StatesBecome
<1>8. AreTold(w, v, {m.id}, {"timedOut"})
  BY <1>1, <1>2, <1>4, <1>5, WorkType DEF AreTold
<1>9. Returns(w, v, m)
  BY <1>4, <1>5, <1>6, <1>7, <1>8 DEF Returns
<1> QED
  BY <1>4, <1>5, <1>9 DEF v

(***************************************************************************)
(* A message of a bin is worked through, or the whole batch is rolled back.*)
(***************************************************************************)
NewAreSound(w, v) == \A f \in v.followUps \ w.followUps : Sound(f)

LEMMA EffectOfEntered ==
  ASSUME NEW w \in Work, NEW m \in Message, NEW v, Effect(Enter(w, m), v, m), NewAreSound(Enter(w, m), v)
  PROVE  Effect(w, v, m) /\ NewAreSound(w, v)
<1> DEFINE e == Enter(w, m)
<1>1. /\ e.pc = w.pc /\ e.batch = w.batch /\ e.todo = w.todo
      /\ e.value = w.value /\ e.moved = w.moved /\ e.rows = w.rows /\ e.notices = w.notices
      /\ e.followUps = w.followUps
  BY EnterType
<1>2. Effect(e, v, m) /\ NewAreSound(e, v)
  OBVIOUS
<1> HIDE DEF e
<1>3. v \in Work /\ v.pc = w.pc /\ v.batch = w.batch /\ v.todo = w.todo
  BY <1>1, <1>2 DEF Effect
<1>4. \A xs, s : StatesBecome(e, v, xs, s) => StatesBecome(w, v, xs, s)
  BY <1>1 DEF StatesBecome
<1>5. \A xs, s : AreTold(e, v, xs, s) => AreTold(w, v, xs, s)
  BY <1>1 DEF AreTold
<1>6. \A x, k : Made(e, v, m, x, k) => Made(w, v, m, x, k)
  BY <1>1 DEF Made, Kept
<1>7. Kept(e, v) => Kept(w, v)
  BY <1>1 DEF Kept
<1>8. Declines(e, v, m) => Declines(w, v, m)
  BY <1>1, <1>4, <1>5, <1>7 DEF Declines
<1>9. Holds(e, v, m) => Holds(w, v, m)
  BY <1>1, <1>4, <1>5, <1>6 DEF Holds
<1>10. Returns(e, v, m) => Returns(w, v, m)
  BY <1>1, <1>4, <1>5, <1>6 DEF Returns
<1>11. Pays(e, v, m) => Pays(w, v, m)
  BY <1>1, <1>4, <1>5, <1>6 DEF Pays
<1>12. GivesBack(e, v, m) => GivesBack(w, v, m)
  BY <1>1, <1>4, <1>5, <1>6 DEF GivesBack
<1>13. NewAreSound(w, v)
  BY <1>1, <1>2 DEF NewAreSound
<1> QED
  BY <1>2, <1>3, <1>8, <1>9, <1>10, <1>11, <1>12, <1>13 DEF Effect

Worked(c, m) == \E v : Effect(work[c], v, m) /\ NewAreSound(work[c], v) /\ Done(c, m, v)

LEMMA WorkedBy ==
  ASSUME NEW c, NEW m \in Message, work[c] \in Work, NEW v,
         v \in Work,
         v.pc = Enter(work[c], m).pc, v.batch = Enter(work[c], m).batch, v.todo = Enter(work[c], m).todo,
         NewAreSound(Enter(work[c], m), v),
         \/ Declines(Enter(work[c], m), v, m) \/ Holds(Enter(work[c], m), v, m)
         \/ Returns(Enter(work[c], m), v, m) \/ Pays(Enter(work[c], m), v, m)
         \/ GivesBack(Enter(work[c], m), v, m),
         Done(c, m, v)
  PROVE  Worked(c, m)
<1>1. Effect(Enter(work[c], m), v, m)
  BY DEF Effect
<1>2. Effect(work[c], v, m) /\ NewAreSound(work[c], v)
  BY <1>1, EffectOfEntered
<1> QED
  BY <1>2 DEF Worked

LEMMA NothingNew ==
  ASSUME NEW w, NEW v, NEW m, Declines(w, v, m) \/ Holds(w, v, m) \/ Returns(w, v, m)
  PROVE  NewAreSound(w, v)
BY DEF Declines, Holds, Returns, NewAreSound

LEMMA FxReserveItemIs ==
  ASSUME NEW c, NEW m, Sound(m), work[c] \in Work, FxReserveItem(c, m)
  PROVE  Worked(c, m)
<1> DEFINE w == Enter(work[c], m)
           r == Tell(ChangeState(w, m.id, "ABORTED_REJECTED"), m.id, "fulfilError")
           a == Tell(w, m.id, "accepted")
<1>1. m \in Message /\ w \in Work
  BY EnterType DEF Sound
<1>2. Done(c, m, a) \/ Done(c, m, r)
  BY DEF FxReserveItem
<1> HIDE DEF w
<1>3. a \in Work /\ a.pc = w.pc /\ a.batch = w.batch /\ a.todo = w.todo /\ Declines(w, a, m)
  BY <1>1, AnswerIs
<1>4. r \in Work /\ r.pc = w.pc /\ r.batch = w.batch /\ r.todo = w.todo /\ Declines(w, r, m)
  BY <1>1, RejectIs
<1> HIDE DEF a, r
<1> QED
  BY <1>1, <1>2, <1>3, <1>4, WorkedBy, NothingNew DEF w

LEMMA FxTimeoutItemIs ==
  ASSUME NEW c, NEW m, Sound(m), work[c] \in Work, FxTimeoutItem(c, m)
  PROVE  Worked(c, m) \/ Rollback(c)
<1> DEFINE w == Enter(work[c], m)
           g == FxTimeoutMove(w, m)
           v == Tell(g, m.id, "timedOut")
<1>1. m \in Message /\ w \in Work /\ m.action = "fxTimeout"
  BY EnterType DEF Sound, FxTimeoutItem, NextItem
<1>2. Done(c, m, v) \/ Rollback(c)
  BY DEF FxTimeoutItem, TellFxTimeout
<1> HIDE DEF w
<1>3. v \in Work /\ v.pc = w.pc /\ v.batch = w.batch /\ v.todo = w.todo /\ Returns(w, v, m)
  <2> HIDE DEF g
  <2> QED
    BY <1>1, TimeoutIs DEF g
<1> HIDE DEF v
<1> QED
  BY <1>1, <1>2, <1>3, WorkedBy, NothingNew DEF w

LEMMA TimeoutItemIs ==
  ASSUME NEW c, NEW m, Sound(m), work[c] \in Work, TimeoutItem(c, m)
  PROVE  Worked(c, m) \/ Rollback(c)
<1> DEFINE w == Enter(work[c], m)
           g == TimeoutMove(w, m)
           v == Tell(g, m.id, "timedOut")
<1>1. m \in Message /\ w \in Work /\ m.action = "timeout"
  BY EnterType DEF Sound, TimeoutItem, NextItem
<1>2. Done(c, m, v) \/ Rollback(c)
  BY DEF TimeoutItem, TellTimeout
<1> HIDE DEF w
<1>3. v \in Work /\ v.pc = w.pc /\ v.batch = w.batch /\ v.todo = w.todo /\ Returns(w, v, m)
  <2> HIDE DEF g
  <2> QED
    BY <1>1, TimeoutIs DEF g
<1> HIDE DEF v
<1> QED
  BY <1>1, <1>2, <1>3, WorkedBy, NothingNew DEF w

LEMMA FulfilItemIs ==
  ASSUME NEW c, NEW m, Sound(m), work[c] \in Work, FulfilItem(c, m)
  PROVE  Worked(c, m)
<1> DEFINE w == Enter(work[c], m)
           v == CommitStep(w, m)
           a == Tell(w, m.id, "fulfilError")
<1>1. m \in Message /\ w \in Work /\ m.action = "commit"
  BY EnterType DEF Sound, FulfilItem, NextItem
<1>2. Done(c, m, v) \/ Done(c, m, a)
  BY DEF FulfilItem, FulfilError
<1> HIDE DEF w
<1>3. a \in Work /\ a.pc = w.pc /\ a.batch = w.batch /\ a.todo = w.todo /\ Declines(w, a, m)
  BY <1>1, AnswerIs
<1>4. v \in Work /\ v.pc = w.pc /\ v.batch = w.batch /\ v.todo = w.todo /\ Pays(w, v, m) /\ NewAreSound(w, v)
  BY <1>1, CommitStepIs DEF NewAreSound
<1> HIDE DEF a, v
<1> QED
  BY <1>1, <1>2, <1>3, <1>4, WorkedBy, NothingNew DEF w

LEMMA AbortMessageIs ==
  ASSUME NEW c, NEW m, Sound(m), work[c] \in Work, m.action \in Aborts, AbortMessage(c, m)
  PROVE  Worked(c, m) \/ Rollback(c)
<1> DEFINE w == Enter(work[c], m)
           v == AbortStep(w, m)
<1>1. m \in Message /\ w \in Work
  BY EnterType DEF Sound
<1>2. Done(c, m, v) \/ Rollback(c)
  BY DEF AbortMessage
<1> HIDE DEF w
<1>3. v \in Work /\ v.pc = w.pc /\ v.batch = w.batch /\ v.todo = w.todo /\ GivesBack(w, v, m) /\ NewAreSound(w, v)
  BY <1>1, AbortStepIs DEF NewAreSound
<1> HIDE DEF v
<1> QED
  BY <1>1, <1>2, <1>3, WorkedBy DEF w

LEMMA PrepareMessageIs ==
  ASSUME NEW c, NEW m, Sound(m), work[c] \in Work, m.action \in {"prepare", "fxPrepare"},
         PrepareMessage(c, m) \/ FxPrepareMessage(c, m)
  PROVE  Worked(c, m)
<1> DEFINE w == Enter(work[c], m)
           v == Reserve(w, m)
           r == Tell(ChangeState(w, m.id, "ABORTED_REJECTED"), m.id, "prepareError")
<1>1. m \in Message /\ w \in Work
  BY EnterType DEF Sound
<1>2. Done(c, m, v) \/ Done(c, m, r)
  <2>1. CASE PrepareMessage(c, m)
    BY <2>1 DEF PrepareMessage, Reject
  <2>2. CASE FxPrepareMessage(c, m)
    BY <2>2 DEF FxPrepareMessage, FxReserve, Reserve, Reject
  <2> QED
    BY <2>1, <2>2
<1> HIDE DEF w
<1>3. v \in Work /\ v.pc = w.pc /\ v.batch = w.batch /\ v.todo = w.todo /\ Holds(w, v, m)
  BY <1>1, HoldIs
<1>4. r \in Work /\ r.pc = w.pc /\ r.batch = w.batch /\ r.todo = w.todo /\ Declines(w, r, m)
  BY <1>1, RejectIs
<1> HIDE DEF v, r
<1> QED
  BY <1>1, <1>2, <1>3, <1>4, WorkedBy, NothingNew DEF w

LEMMA ItemIs ==
  ASSUME NEW c, work[c] \in Work, \A m \in work[c].todo : Sound(m), Item(c)
  PROVE  /\ work[c].pc = "bins"
         /\ Rollback(c) \/ \E m \in work[c].todo : Worked(c, m)
<1>1. PICK m \in work[c].todo :
        \/ FxReserveItem(c, m) \/ FxTimeoutItem(c, m) \/ FulfilItem(c, m)
        \/ AbortItem(c, m) \/ FxAbortItem(c, m) \/ TimeoutItem(c, m)
        \/ PrepareItem(c, m) \/ FxPrepareItem(c, m)
  BY DEF Item
<1>2. work[c].pc = "bins"
  BY <1>1 DEF FxReserveItem, FxTimeoutItem, FulfilItem, AbortItem, FxAbortItem, TimeoutItem, PrepareItem,
       FxPrepareItem, NextItem
<1>3. Sound(m)
  OBVIOUS
<1>4. CASE FxReserveItem(c, m)
  BY <1>2, <1>3, <1>4, FxReserveItemIs
<1>5. CASE FxTimeoutItem(c, m)
  BY <1>2, <1>3, <1>5, FxTimeoutItemIs
<1>6. CASE FulfilItem(c, m)
  BY <1>2, <1>3, <1>6, FulfilItemIs
<1>7. CASE AbortItem(c, m) \/ FxAbortItem(c, m)
  <2>1. m.action \in Aborts /\ AbortMessage(c, m)
    BY <1>7 DEF AbortItem, FxAbortItem, NextItem, Aborts
  <2> QED
    BY <1>2, <1>3, <2>1, AbortMessageIs
<1>8. CASE TimeoutItem(c, m)
  BY <1>2, <1>3, <1>8, TimeoutItemIs
<1>9. CASE PrepareItem(c, m) \/ FxPrepareItem(c, m)
  <2>1. m.action \in {"prepare", "fxPrepare"} /\ (PrepareMessage(c, m) \/ FxPrepareMessage(c, m))
    BY <1>9 DEF PrepareItem, FxPrepareItem, NextItem
  <2> QED
    BY <1>2, <1>3, <2>1, PrepareMessageIs
<1> QED
  BY <1>1, <1>4, <1>5, <1>6, <1>7, <1>8, <1>9

(***************************************************************************)
(* The messages that settle a payment.                                     *)
(***************************************************************************)

LEMMA Pair ==
  ASSUME NEW S, NEW x \in S, NEW y \in S
  PROVE  <<x>> \o <<y>> = <<x, y>>
<1>1. /\ <<x>> \in Seq(S) /\ <<y>> \in Seq(S) /\ <<x, y>> \in Seq(S)
      /\ Len(<<x>>) = 1 /\ Len(<<y>>) = 1 /\ Len(<<x, y>>) = 2
  OBVIOUS
<1>2. <<x>> \o <<y>> \in Seq(S) /\ Len(<<x>> \o <<y>>) = 2
  BY <1>1
<1>3. \A i \in 1..2 : (<<x>> \o <<y>>)[i] = <<x, y>>[i]
  BY <1>1
<1> QED
  BY <1>1, <1>2, <1>3, SeqEqual

(* The movements of a settlement: one of each set, the conversion first.    *)
LEMMA PositionChangesAre ==
  ASSUME NEW cs \in SUBSET Id, NEW ts \in SUBSET Id
  PROVE  LET p == PositionChanges(cs, ts) IN
         \/ p = <<>> /\ cs = {} /\ ts = {}
         \/ cs = {} /\ \E y \in ts : p = <<y>>
         \/ ts = {} /\ \E x \in cs : p = <<x>>
         \/ \E x \in cs, y \in ts : p = <<x, y>>
<1> DEFINE a == CHOOSE x \in cs : TRUE
           b == CHOOSE x \in ts : TRUE
<1>1. (cs = {} /\ One(cs) = <<>>) \/ (a \in cs /\ One(cs) = <<a>>)
  BY DEF One
<1>2. (ts = {} /\ One(ts) = <<>>) \/ (b \in ts /\ One(ts) = <<b>>)
  BY DEF One
<1>3. \A x : <<>> \o <<x>> = <<x>> /\ <<x>> \o <<>> = <<x>>
  OBVIOUS
<1>4. \A x, y \in Id : <<x>> \o <<y>> = <<x, y>>
  BY Pair
<1>5. <<>> \o <<>> = <<>>
  OBVIOUS
<1> HIDE DEF a, b
<1> QED
  BY <1>1, <1>2, <1>3, <1>4, <1>5 DEF PositionChanges

LEMMA ShortPlans ==
  /\ <<>> \in Plan /\ Len(<<>>) = 0 /\ Range(<<>>) = {}
  /\ \A x \in Id : <<x>> \in Plan /\ Len(<<x>>) = 1 /\ Range(<<x>>) = {x} /\ <<x>>[1] = x
  /\ \A x, y \in Id : /\ <<x, y>> \in Plan /\ Len(<<x, y>>) = 2 /\ Range(<<x, y>>) = {x, y}
                      /\ <<x, y>>[1] = x /\ <<x, y>>[2] = y
<1>1. <<>> \in [1..0 -> Id] /\ 0 \in 0..2
  OBVIOUS
<1>2. \A x \in Id : <<x>> \in [1..1 -> Id] /\ 1 \in 0..2
  OBVIOUS
<1>3. \A x, y \in Id : <<x, y>> \in [1..2 -> Id] /\ 2 \in 0..2
  OBVIOUS
<1>4. /\ <<>> \in Plan
      /\ \A x \in Id : <<x>> \in Plan
      /\ \A x, y \in Id : <<x, y>> \in Plan
  BY <1>1, <1>2, <1>3 DEF Plan
<1>5. /\ Len(<<>>) = 0 /\ Range(<<>>) = {}
      /\ \A x \in Id : Len(<<x>>) = 1 /\ Range(<<x>>) = {x} /\ <<x>>[1] = x
      /\ \A x, y \in Id : Len(<<x, y>>) = 2 /\ <<x, y>>[1] = x /\ <<x, y>>[2] = y
  BY DEF Range
<1>6. \A x, y \in Id : Range(<<x, y>>) = {x, y}
  BY DEF Range
<1> QED
  BY <1>4, <1>5, <1>6

LEMMA PositionChangesType ==
  ASSUME NEW cs \in SUBSET Id, NEW ts \in SUBSET Id
  PROVE  LET p == PositionChanges(cs, ts) IN
         /\ p \in Plan /\ Range(p) \subseteq cs \union ts
         /\ cs \union ts # {} => Len(p) > 0 /\ p[1] \in Id
BY PositionChangesAre, ShortPlans

(* A settlement's message, if there is something to move.                   *)
LEMMA SettlementIs ==
  ASSUME NEW x \in Id, NEW action \in Aborts \union {"commit"},
         x \in IF action \in OfTransfer THEN Transfer ELSE Conversion,
         NEW kind, kind = IF action = "commit" THEN "credit" ELSE "refund",
         NEW cs \in SUBSET Id, NEW ts \in SUBSET Id, cs \union ts # {},
         NEW rest \in SUBSET Transfer, NEW m,
         m = Settlement(x, action, kind, [plan |-> PositionChanges(cs, ts), unmoved |-> rest])
  PROVE  /\ Sound(m) /\ m.id = x /\ m.action = action
         /\ m.plan = PositionChanges(cs, ts) /\ m.done = 0 /\ m.unmoved = rest
         /\ Concerns(m) \subseteq {x} \union cs \union ts \union rest
<1> DEFINE p == PositionChanges(cs, ts)
           a == AccountFor(kind, p[1])
<1>1. p \in Plan /\ Range(p) \subseteq cs \union ts /\ Len(p) > 0 /\ p[1] \in Id
  BY PositionChangesType
<1>2. a \in Account \union {NoAccount}
  BY <1>1, Parameters DEF AccountFor
<1>3. m = [id |-> x, action |-> action, account |-> a, plan |-> p, done |-> 0, unmoved |-> rest]
  BY DEF Settlement
<1>4. /\ m.id = x /\ m.action = action /\ m.account = a /\ m.plan = p /\ m.done = 0 /\ m.unmoved = rest
  BY <1>3
<1>5. action \in Action
  BY DEF Aborts, Action
<1> HIDE DEF a, p
<1>6. m \in Message
  BY <1>1, <1>2, <1>3, <1>5 DEF Message
<1>7. NextMove(m) = p[1] /\ KindOf(m) = kind
  BY <1>4 DEF NextMove, KindOf
<1>8. Sound(m)
  <2>1. m.account = AccountFor(KindOf(m), NextMove(m))
    BY <1>4, <1>7 DEF a
  <2>2. m.done < Len(m.plan)
    BY <1>1, <1>4
  <2>3. m.action \notin Own
    BY <1>4 DEF Aborts, Own
  <2> QED
    BY <1>4, <1>6, <2>1, <2>2, <2>3 DEF Sound
<1>9. Concerns(m) \subseteq {x} \union cs \union ts \union rest
  BY <1>1, <1>4 DEF Concerns
<1> QED
  BY <1>4, <1>8, <1>9 DEF p

(* A request's or a timeout's message.                                      *)
LEMMA AskIs ==
  ASSUME NEW x \in Id, NEW action \in Own \union {"fxReserve"},
         x \in IF action \in OfTransfer THEN Transfer ELSE Conversion,
         NEW a \in Account \union {NoAccount}, action \in Own => a = DebitAccount[x]
  PROVE  LET m == Ask(x, action, a) IN
         /\ Sound(m) /\ m.id = x /\ m.action = action /\ m.account = a
         /\ Concerns(m) = {x}
<1> DEFINE m == Ask(x, action, a)
<1>1. m.id = x /\ m.action = action /\ m.account = a /\ m.plan = <<>> /\ m.done = 0 /\ m.unmoved = {}
  BY DEF Ask
<1>2. action \in Action
  BY DEF Own, Action
<1>3. m \in Message
  BY <1>2, ShortPlans DEF Ask, Message
<1> HIDE DEF m
<1>4. Sound(m)
  BY <1>1, <1>3 DEF Sound, Own, Aborts
<1>5. Concerns(m) = {x}
  BY <1>1, ShortPlans DEF Concerns
<1> QED
  BY <1>1, <1>4, <1>5 DEF m

(***************************************************************************)
(* The invariant behind the types.  A settlement must have something to    *)
(* move, or its message had no account: a transfer is stored only when its *)
(* conversion holds the payer's funds, and is reserved only when it holds   *)
(* the funds it moves itself, if it moves any.                              *)
(***************************************************************************)
Backed(x)  == x \in Transfer => \A c \in ConversionsOf(x) : Taken(c) >= 1
Backing(m) == \A x \in Concerns(m) : Backed(x)
Fits(x, s) ==
  /\ s \notin {"none", "INVALID"} => Backed(x)
  /\ s \in {"RESERVED", "RECEIVED_FULFIL_DEPENDENT"} /\ DebitAccount[x] # NoAccount => Taken(x) >= 1

(* A consumer's messages, given up (u) and in work (w).                     *)
WorkSound(w, u, c) ==
  /\ \A m \in u \union w.batch : Sound(m) /\ ConsumerOf[m.account] = c
  /\ w.todo \subseteq w.batch
  /\ \A m \in w.followUps : Sound(m)
RowsFit(w) ==
  \A x \in Id : /\ w.rows[x] # "none" => Backed(x)
                /\ w.rows[x] # "RECEIVED_FULFIL_DEPENDENT"
                /\ w.rows[x] = "RESERVED" /\ DebitAccount[x] # NoAccount => w.moved[x]["debit"] >= 1
WorkBacked(w, u) ==
  /\ \A m \in u \union w.batch \union w.followUps : Backing(m)
  /\ RowsFit(w)

BatchInv ==
  /\ TypeOK
  /\ \A m \in pending : Sound(m) /\ Backing(m)
  /\ \A x \in Id : Fits(x, state[x])
  /\ \A c \in Consumer : WorkSound(work[c], unacked[c], c) /\ WorkBacked(work[c], unacked[c])

LEMMA IdleFits == WorkSound(Idle, {}, "none") /\ WorkBacked(Idle, {})
BY DEF WorkSound, WorkBacked, RowsFit, Idle, NoStates

LEMMA IdleSound ==
  ASSUME NEW c
  PROVE  WorkSound(Idle, {}, c)
BY DEF WorkSound, Idle

LEMMA BatchInvInit == Init => BatchInv
<1> SUFFICES ASSUME Init PROVE BatchInv
  OBVIOUS
<1>1. BatchInit
  BY DEF Init
<1>2. NoStates \in [Id -> State] /\ NoMoves \in [MoveKind -> Nat]
  BY DEF NoStates, NoMoves, State
<1>3. TypeOK
  BY <1>1, <1>2, IdleType DEF Init, BatchInit, TypeOK, BatchTypeOK
<1>4. \A x \in Id : Fits(x, state[x])
  BY <1>1 DEF BatchInit, NoStates, Fits
<1> QED
  BY <1>1, <1>3, <1>4, IdleFits, IdleSound DEF BatchInit, BatchInv

(* What is reserved stays reserved or paid: movements are only added.       *)
LEMMA MoreMoved ==
  ASSUME \A y \in Id : Taken(y)' >= Taken(y), moved \in [Id -> [MoveKind -> Nat]], moved' \in [Id -> [MoveKind -> Nat]]
  PROVE  /\ \A x : Backed(x) => Backed(x)'
         /\ \A m : Backing(m) => Backing(m)'
         /\ \A x \in Id : \A s : Fits(x, s) => Fits(x, s)'
<1>1. \A y \in Id : Taken(y) \in Nat /\ Taken(y)' \in Nat
  BY DEF Taken, MoveKind
<1>2. \A x : Backed(x) => Backed(x)'
  <2> SUFFICES ASSUME NEW x, Backed(x), x \in Transfer, NEW c \in ConversionsOf(x) PROVE Taken(c)' >= 1
    BY DEF Backed, ConversionsOf
  <2>1. c \in Id
    BY DEF ConversionsOf, Id
  <2> QED
    BY <1>1, <2>1 DEF Backed
<1>3. \A m : Backing(m) => Backing(m)'
  BY <1>2 DEF Backing, Concerns
<1>4. \A x \in Id : \A s : Fits(x, s) => Fits(x, s)'
  BY <1>1, <1>2 DEF Fits
<1> QED
  BY <1>2, <1>3, <1>4

(***************************************************************************)
(* Requests and the sweep: they set states and send messages.              *)
(***************************************************************************)
LEMMA RequestKeeps ==
  ASSUME BatchInv, HandlersStay, state' \in [Id -> State], \A x \in Id : Fits(x, state'[x]),
         \A m \in pending' : m \in pending \/ (Sound(m) /\ Backing(m)),
         answers' \in [Id -> SUBSET Answer], expired' \subseteq Id, timeoutRow' \in [Id -> SUBSET Id]
  PROVE  BatchInv'
<1>1. TypeOK'
  <2>1. pending' \subseteq Message
    BY DEF Sound, BatchInv, TypeOK, BatchTypeOK
  <2> QED
    BY <2>1 DEF HandlersStay, TypeOK, BatchTypeOK, BatchInv
<1>2. \A x \in Id : Taken(x)' = Taken(x) /\ Taken(x) \in Nat
  BY DEF Taken, HandlersStay, BatchInv, TypeOK, BatchTypeOK, MoveKind
<1>3. /\ \A x : Backed(x) => Backed(x)'
      /\ \A m : Backing(m) => Backing(m)'
      /\ \A x \in Id : \A s : Fits(x, s) => Fits(x, s)'
  <2>1. \A x \in Id : Taken(x)' >= Taken(x)
    BY <1>2
  <2> QED
    BY <1>1, <2>1, MoreMoved DEF BatchInv, TypeOK, BatchTypeOK
<1>4. \A m \in pending' : Sound(m) /\ Backing(m)'
  BY <1>3 DEF BatchInv
<1>5. \A x \in Id : Fits(x, state[x])'
  BY <1>3
<1>6. \A c \in Consumer : WorkSound(work[c], unacked[c], c)' /\ WorkBacked(work[c], unacked[c])'
  <2> TAKE c \in Consumer
  <2>1. work'[c] = work[c] /\ unacked'[c] = unacked[c] /\ WorkSound(work[c], unacked[c], c) /\ WorkBacked(work[c], unacked[c])
    BY DEF HandlersStay, BatchInv
  <2> QED
    BY <1>3, <2>1 DEF WorkSound, WorkBacked, RowsFit
<1> QED
  BY <1>1, <1>4, <1>5, <1>6 DEF BatchInv

LEMMA TheConversion ==
  ASSUME NEW t \in Transfer, NEW c \in ConversionsOf(t)
  PROVE  c \in Conversion /\ Determining[c] = t /\ ConversionsOf(t) = {c} /\ DebitAccount[c] # NoAccount
         /\ CreditAccount[c] # NoAccount
BY DeterminingAssumption DEF ConversionsOf

LEMMA DeterminedBy ==
  ASSUME NEW c \in Conversion
  PROVE  /\ c \in Id /\ c \notin Transfer /\ Determining[c] \in Transfer /\ Determining[c] \in Id
         /\ c \in ConversionsOf(Determining[c])
         /\ DebitAccount[c] # NoAccount /\ CreditAccount[c] # NoAccount
         /\ CreditAccount[c] \in Account \union {NoAccount}
BY DeterminingAssumption, PaymentAssumption, Parameters DEF ConversionsOf, Id

(* The states that a request or the sweep sets are those of a reserved      *)
(* payment, or of one whose conversion is.                                  *)
LEMMA SetStateFits ==
  ASSUME BatchInv, NEW x \in Id, NEW s \in State, SetState(x, s), Fits(x, s)
  PROVE  state' \in [Id -> State] /\ \A y \in Id : Fits(y, state'[y])
BY DEF SetState, BatchInv, TypeOK, BatchTypeOK

LEMMA AnswersType ==
  ASSUME BatchInv, NEW x \in Id, NEW a \in Answer, Answers(x, a)
  PROVE  answers' \in [Id -> SUBSET Answer]
BY DEF Answers, BatchInv, TypeOK

LEMMA RequestConversionKeeps ==
  ASSUME BatchInv, NEW c \in Conversion, RequestConversion(c)
  PROVE  BatchInv'
<1>1. c \in Id /\ c \notin Transfer /\ DebitAccount[c] \in Account \union {NoAccount} /\ "RECEIVED_PREPARE" \in State
  BY DeterminedBy, Parameters DEF State
<1>2. Backed(c) /\ Fits(c, "RECEIVED_PREPARE")
  BY <1>1 DEF Backed, Fits
<1>3. SetState(c, "RECEIVED_PREPARE") /\ Send(AskConversion(c)) /\ HandlersStay /\ UNCHANGED <<answers, expired, timeoutRow>>
  BY DEF RequestConversion
<1>4. state' \in [Id -> State] /\ \A y \in Id : Fits(y, state'[y])
  BY <1>1, <1>2, <1>3, SetStateFits
<1>5. Sound(AskConversion(c)) /\ Concerns(AskConversion(c)) = {c}
  <2>1. "fxPrepare" \in Own /\ "fxPrepare" \notin OfTransfer
    BY DEF Own, OfTransfer
  <2> QED
    BY <1>1, <2>1, AskIs DEF AskConversion
<1>6. Backing(AskConversion(c))
  BY <1>2, <1>5 DEF Backing
<1>7. \A m \in pending' : m \in pending \/ (Sound(m) /\ Backing(m))
  BY <1>3, <1>5, <1>6 DEF Send
<1> QED
  BY <1>3, <1>4, <1>7, RequestKeeps DEF BatchInv, TypeOK

LEMMA AcceptConversionKeeps ==
  ASSUME BatchInv, NEW c \in Conversion, AcceptConversion(c)
  PROVE  BatchInv'
<1>1. c \in Id /\ c \notin Transfer /\ CreditAccount[c] \in Account \union {NoAccount}
  BY DeterminedBy
<1>2. HandlersStay /\ answers' \in [Id -> SUBSET Answer] /\ expired' = expired /\ timeoutRow' = timeoutRow
  BY <1>1, AnswersType DEF AcceptConversion, Answer
<1>3. CASE FxAnswerable(c)
  <2>1. SetState(c, "RECEIVED_FULFIL_DEPENDENT") /\ Send(Ask(c, "fxReserve", CreditAccount[c]))
    BY <1>3 DEF AcceptConversion, SaveFxFulfilResponse
  <2>2. Backed(c) /\ Fits(c, "RECEIVED_FULFIL_DEPENDENT")
    BY <1>1, <1>3 DEF Backed, Fits, FxAnswerable, BatchInv
  <2>3. state' \in [Id -> State] /\ \A y \in Id : Fits(y, state'[y])
    <3>1. "RECEIVED_FULFIL_DEPENDENT" \in State
      BY DEF State
    <3> QED
      BY <1>1, <2>1, <2>2, <3>1, SetStateFits
  <2> DEFINE m == Ask(c, "fxReserve", CreditAccount[c])
  <2>4. Sound(m) /\ Concerns(m) = {c}
    <3>1. "fxReserve" \notin Own /\ "fxReserve" \notin OfTransfer
      BY DEF Own, OfTransfer
    <3> QED
      BY <1>1, <3>1, AskIs
  <2>5. Backing(m)
    BY <2>2, <2>4 DEF Backing
  <2>6. \A n \in pending' : n \in pending \/ (Sound(n) /\ Backing(n))
    BY <2>1, <2>4, <2>5 DEF Send
  <2> QED
    BY <1>2, <2>3, <2>6, RequestKeeps DEF BatchInv, TypeOK
<1>4. CASE ~FxAnswerable(c)
  <2>1. state' = state /\ pending' = pending
    BY <1>4 DEF AcceptConversion
  <2>2. \A x \in Id : Fits(x, state'[x])
    BY <2>1 DEF BatchInv
  <2> QED
    BY <1>2, <2>1, <2>2, RequestKeeps DEF BatchInv, TypeOK, BatchTypeOK
<1> QED
  BY <1>3, <1>4

LEMMA RefuseConversionKeeps ==
  ASSUME BatchInv, NEW c \in Conversion, RefuseConversion(c)
  PROVE  BatchInv'
<1> DEFINE t == Determining[c]
<1>1. c \in Id /\ c \notin Transfer /\ t \in Transfer /\ t \in Id /\ c \in ConversionsOf(t) /\ DebitAccount[c] # NoAccount
  BY DeterminedBy
<1>2. HandlersStay /\ answers' \in [Id -> SUBSET Answer] /\ expired' = expired /\ timeoutRow' = timeoutRow
  BY <1>1, AnswersType DEF RefuseConversion, Answer
<1>3. CASE FxAnswerable(c)
  <2>1. SetState(c, "RECEIVED_ERROR") /\ Send(Settlement(c, "fxAbort", "refund", ProcessFxAbort(c)))
    BY <1>3 DEF RefuseConversion, SaveFxFulfilResponse
  <2>2. Backed(c) /\ Fits(c, "RECEIVED_ERROR") /\ Taken(c) >= 1
    BY <1>1, <1>3 DEF Backed, Fits, FxAnswerable, BatchInv
  <2>3. Backed(t)
    BY <1>1, <2>2, TheConversion DEF Backed
  <2>4. state' \in [Id -> State] /\ \A y \in Id : Fits(y, state'[y])
    <3>1. "RECEIVED_ERROR" \in State
      BY DEF State
    <3> QED
      BY <1>1, <2>1, <2>2, <3>1, SetStateFits
  <2> DEFINE m == Settlement(c, "fxAbort", "refund", ProcessFxAbort(c))
             cs == Held({c})
             ts == Held({t})
  <2>5. cs \in SUBSET Id /\ ts \in SUBSET Id /\ cs \union ts \subseteq {c, t}
    BY <1>1 DEF Held
  <2>6. cs \union ts # {}
    <3>1. Taken(c) \in Nat
      BY <1>1 DEF Taken, BatchInv, TypeOK, BatchTypeOK, MoveKind
    <3>2. c \in cs
      BY <2>2, <3>1 DEF Held, Taken
    <3> QED
      BY <3>2
  <2>7. m = Settlement(c, "fxAbort", "refund", [plan |-> PositionChanges(cs, ts), unmoved |-> {}])
    BY DEF ProcessFxAbort
  <2> HIDE DEF m, cs, ts, t
  <2>8. Sound(m) /\ Concerns(m) \subseteq {c} \union cs \union ts \union {}
    <3>1. "fxAbort" \in Aborts \union {"commit"} /\ "fxAbort" \notin OfTransfer /\ {} \in SUBSET Transfer
      BY DEF Aborts, OfTransfer
    <3>2. /\ c \in Id /\ c \in IF "fxAbort" \in OfTransfer THEN Transfer ELSE Conversion
          /\ "refund" = IF "fxAbort" = "commit" THEN "credit" ELSE "refund"
          /\ cs \in SUBSET Id /\ ts \in SUBSET Id
      BY <1>1, <2>5, <3>1
    <3> QED
      BY <2>6, <2>7, <3>1, <3>2, SettlementIs
  <2>9. Backing(m)
    BY <2>2, <2>3, <2>5, <2>8 DEF Backing
  <2>10. \A n \in pending' : n \in pending \/ (Sound(n) /\ Backing(n))
    BY <2>1, <2>8, <2>9 DEF Send, m
  <2> QED
    BY <1>2, <2>4, <2>10, RequestKeeps DEF BatchInv, TypeOK
<1>4. CASE ~FxAnswerable(c)
  <2>1. state' = state /\ pending' = pending
    BY <1>4 DEF RefuseConversion
  <2>2. \A x \in Id : Fits(x, state'[x])
    BY <2>1 DEF BatchInv
  <2> QED
    BY <1>2, <2>1, <2>2, RequestKeeps DEF BatchInv, TypeOK, BatchTypeOK
<1> QED
  BY <1>3, <1>4

LEMMA RequestTransferKeeps ==
  ASSUME BatchInv, NEW t \in Transfer, RequestTransfer(t)
  PROVE  BatchInv'
<1>1. t \in Id /\ DebitAccount[t] \in Account \union {NoAccount}
  BY Parameters DEF Id
<1>2. HandlersStay /\ UNCHANGED <<answers, expired, timeoutRow>>
  BY DEF RequestTransfer
<1>3. CASE Prepared(t)
  <2>1. SetState(t, "RECEIVED_PREPARE") /\ Send(AskTransfer(t))
    BY <1>3 DEF RequestTransfer
  <2>2. Backed(t)
    <3> SUFFICES ASSUME NEW c \in ConversionsOf(t) PROVE Taken(c) >= 1
      BY DEF Backed
    <3>1. state[c] = "RECEIVED_FULFIL_DEPENDENT" /\ c \in Id /\ DebitAccount[c] # NoAccount
      BY <1>3, TheConversion, DeterminedBy DEF Prepared
    <3> QED
      BY <3>1 DEF BatchInv, Fits
  <2>3. Fits(t, "RECEIVED_PREPARE") /\ "RECEIVED_PREPARE" \in State
    BY <2>2 DEF Fits, State
  <2>4. state' \in [Id -> State] /\ \A y \in Id : Fits(y, state'[y])
    BY <1>1, <2>1, <2>3, SetStateFits
  <2>5. Sound(AskTransfer(t)) /\ Concerns(AskTransfer(t)) = {t}
    <3>1. "prepare" \in Own /\ "prepare" \in OfTransfer
      BY DEF Own, OfTransfer
    <3> QED
      BY <1>1, <3>1, AskIs DEF AskTransfer
  <2>6. \A m \in pending' : m \in pending \/ (Sound(m) /\ Backing(m))
    BY <2>1, <2>2, <2>5 DEF Send, Backing
  <2> QED
    BY <1>2, <2>4, <2>6, RequestKeeps DEF BatchInv, TypeOK
<1>4. CASE ~Prepared(t)
  <2>1. SetState(t, "INVALID") /\ pending' = pending
    BY <1>4 DEF RequestTransfer
  <2>2. Fits(t, "INVALID") /\ "INVALID" \in State
    BY DEF Fits, State
  <2>3. state' \in [Id -> State] /\ \A y \in Id : Fits(y, state'[y])
    BY <1>1, <2>1, <2>2, SetStateFits
  <2> QED
    BY <1>2, <2>1, <2>3, RequestKeeps DEF BatchInv, TypeOK
<1> QED
  BY <1>3, <1>4

LEMMA AnswerKeeps ==
  ASSUME BatchInv, NEW x \in Id, NEW a \in Answer, Answers(x, a), HandlersStay,
         UNCHANGED <<expired, timeoutRow>>, UNCHANGED <<state, pending>>
  PROVE  BatchInv'
<1>1. answers' \in [Id -> SUBSET Answer]
  BY AnswersType
<1>2. \A y \in Id : Fits(y, state'[y])
  BY DEF BatchInv
<1> QED
  BY <1>1, <1>2, RequestKeeps DEF BatchInv, TypeOK, BatchTypeOK

LEMMA SettleKeeps ==
  ASSUME BatchInv, NEW t \in Transfer, NEW a \in Answer, Answers(t, a), HandlersStay,
         UNCHANGED <<expired, timeoutRow>>, state[t] = "RESERVED",
         NEW s \in State, s \notin {"RESERVED", "RECEIVED_FULFIL_DEPENDENT"}, SetState(t, s),
         NEW action \in {"commit", "abort"},
         NEW kind, kind = IF action = "commit" THEN "credit" ELSE "refund",
         NEW cs \in SUBSET ConversionsOf(t), NEW ts \in SUBSET {t}, cs \union ts # {},
         NEW rest \in SUBSET {t},
         Send(Settlement(t, action, kind, [plan |-> PositionChanges(cs, ts), unmoved |-> rest]))
  PROVE  BatchInv'
<1> DEFINE m == Settlement(t, action, kind, [plan |-> PositionChanges(cs, ts), unmoved |-> rest])
<1>1. t \in Id /\ ConversionsOf(t) \in SUBSET Conversion /\ Conversion \subseteq Id
  BY DEF Id, ConversionsOf
<1>2. Backed(t) /\ Fits(t, s)
  BY <1>1 DEF BatchInv, Fits
<1>3. state' \in [Id -> State] /\ \A y \in Id : Fits(y, state'[y])
  BY <1>1, <1>2, SetStateFits
<1>4. Sound(m) /\ Concerns(m) \subseteq {t} \union cs \union ts \union rest
  <2>1. action \in Aborts \union {"commit"} /\ action \in OfTransfer
    BY DEF Aborts, OfTransfer
  <2>2. /\ t \in IF action \in OfTransfer THEN Transfer ELSE Conversion
        /\ cs \in SUBSET Id /\ ts \in SUBSET Id /\ rest \in SUBSET Transfer
    BY <1>1, <2>1
  <2>3. m = Settlement(t, action, kind, [plan |-> PositionChanges(cs, ts), unmoved |-> rest])
    OBVIOUS
  <2> HIDE DEF m
  <2>4. cs \union ts # {} /\ kind = IF action = "commit" THEN "credit" ELSE "refund"
    OBVIOUS
  <2>5. Sound(m) /\ Concerns(m) \subseteq {t} \union cs \union ts \union rest
    BY ONLY <1>1, <2>1, <2>2, <2>3, <2>4, SettlementIs
  <2> QED
    BY <2>5
<1> HIDE DEF m
<1>5. \A x \in Concerns(m) : Backed(x)
  <2> SUFFICES ASSUME NEW x \in Concerns(m) PROVE Backed(x)
    OBVIOUS
  <2>1. x = t \/ x \in Conversion
    BY <1>1, <1>4
  <2>2. CASE x = t
    BY <1>2, <2>2
  <2>3. CASE x \in Conversion
    BY <2>3, DeterminedBy DEF Backed
  <2> QED
    BY <2>1, <2>2, <2>3
<1>6. Backing(m)
  BY <1>5 DEF Backing
<1>7. \A n \in pending' : n \in pending \/ (Sound(n) /\ Backing(n))
  BY <1>4, <1>6 DEF Send, m
<1>8. answers' \in [Id -> SUBSET Answer]
  BY <1>1, AnswersType
<1> QED
  BY <1>3, <1>7, <1>8, RequestKeeps DEF BatchInv, TypeOK

LEMMA AcceptTransferKeeps ==
  ASSUME BatchInv, NEW t \in Transfer, AcceptTransfer(t)
  PROVE  BatchInv'
<1>1. t \in Id /\ "accept" \in Answer
  BY DEF Id, Answer
<1>2. Answers(t, "accept") /\ HandlersStay /\ UNCHANGED <<expired, timeoutRow>>
  BY DEF AcceptTransfer
<1>3. CASE Answerable(t)
  <2> DEFINE paid(xs) == {x \in xs : CreditAccount[x] # NoAccount}
             cs == paid(ConversionsOf(t))
             ts == paid({t})
             rest == IF ts = {} THEN {t} ELSE {}
  <2>1. /\ SetState(t, "RECEIVED_FULFIL") /\ state[t] = "RESERVED"
        /\ Send(Settlement(t, "commit", "credit", [plan |-> PositionChanges(cs, ts), unmoved |-> rest]))
    BY <1>3 DEF AcceptTransfer, Answerable, ProcessFulfil
  <2>2. cs \union ts # {}
    <3>1. CASE CreditAccount[t] # NoAccount
      BY <3>1
    <3>2. CASE CreditAccount[t] = NoAccount
      <4>1. PICK c \in Conversion : Determining[c] = t
        BY <3>2, DeterminingAssumption
      <4>2. c \in cs
        BY <4>1, DeterminedBy DEF ConversionsOf
      <4> QED
        BY <4>2
    <3> QED
      BY <3>1, <3>2
  <2>3. cs \in SUBSET ConversionsOf(t) /\ ts \in SUBSET {t} /\ rest \in SUBSET {t}
    OBVIOUS
  <2> HIDE DEF cs, ts, rest
  <2>4. "RECEIVED_FULFIL" \in State
    BY DEF State
  <2> QED
    BY <1>1, <1>2, <2>1, <2>2, <2>3, <2>4, SettleKeeps
<1>4. CASE ~Answerable(t)
  <2>1. UNCHANGED <<state, pending>>
    BY <1>4 DEF AcceptTransfer
  <2> QED
    BY <1>1, <1>2, <2>1, AnswerKeeps
<1> QED
  BY <1>3, <1>4

LEMMA RefuseTransferKeeps ==
  ASSUME BatchInv, NEW t \in Transfer, RefuseTransfer(t)
  PROVE  BatchInv'
<1>1. t \in Id /\ "refuse" \in Answer
  BY DEF Id, Answer
<1>2. Answers(t, "refuse") /\ HandlersStay /\ UNCHANGED <<expired, timeoutRow>>
  BY DEF RefuseTransfer
<1>3. CASE Answerable(t)
  <2> DEFINE cs == Held(ConversionsOf(t))
             ts == Held({t})
             rest == IF ts = {} /\ ConversionsOf(t) # {} THEN {t} ELSE {}
  <2>1. /\ SetState(t, "RECEIVED_ERROR") /\ state[t] = "RESERVED"
        /\ Send(Settlement(t, "abort", "refund", [plan |-> PositionChanges(cs, ts), unmoved |-> rest]))
    BY <1>3 DEF RefuseTransfer, Answerable, ProcessAbort
  <2>2. cs \union ts # {}
    <3>1. Fits(t, "RESERVED") /\ \A x \in Id : Taken(x) \in Nat
      BY <1>1, <2>1 DEF BatchInv, TypeOK, BatchTypeOK, Taken, MoveKind
    <3>2. CASE DebitAccount[t] # NoAccount
      <4>1. t \in ts
        BY <1>1, <3>1, <3>2 DEF Held, Taken, Fits
      <4> QED
        BY <4>1
    <3>3. CASE DebitAccount[t] = NoAccount
      <4>1. PICK c \in Conversion : Determining[c] = t
        BY <3>3, DeterminingAssumption
      <4>2. c \in ConversionsOf(t) /\ c \in Id
        BY <4>1, DeterminedBy DEF ConversionsOf
      <4>3. Taken(c) >= 1
        BY <3>1, <4>2 DEF Fits, Backed
      <4>4. c \in cs
        BY <3>1, <4>2, <4>3 DEF Held, Taken
      <4> QED
        BY <4>4
    <3> QED
      BY <3>2, <3>3
  <2>3. cs \in SUBSET ConversionsOf(t) /\ ts \in SUBSET {t} /\ rest \in SUBSET {t}
    BY DEF Held
  <2> HIDE DEF cs, ts, rest
  <2>4. "RECEIVED_ERROR" \in State
    BY DEF State
  <2> QED
    BY <1>1, <1>2, <2>1, <2>2, <2>3, <2>4, SettleKeeps
<1>4. CASE ~Answerable(t)
  <2>1. UNCHANGED <<state, pending>>
    BY <1>4 DEF RefuseTransfer
  <2> QED
    BY <1>1, <1>2, <2>1, AnswerKeeps
<1> QED
  BY <1>3, <1>4

LEMMA ExpireKeeps ==
  ASSUME BatchInv, NEW x \in Id, Expire(x)
  PROVE  BatchInv'
<1>1. HandlersStay /\ state' = state /\ pending' = pending /\ answers' = answers /\ timeoutRow' = timeoutRow
      /\ expired' = expired \union {x}
  BY DEF Expire, HandlersStay, batchVars, database
<1>2. \A y \in Id : Fits(y, state'[y])
  BY <1>1 DEF BatchInv
<1> QED
  BY <1>1, <1>2, RequestKeeps DEF BatchInv, TypeOK, BatchTypeOK

(* A sweep: what times out was reserved or on its way to be.                *)
LEMMA TimedOutFits ==
  ASSUME BatchInv, NEW rows, NEW s \in [Id -> State], \A x \in Id : Fits(x, s[x])
  PROVE  TimedOut(rows, s) \in [Id -> State] /\ \A x \in Id : Fits(x, TimedOut(rows, s)[x])
<1> DEFINE due(x) == Due(rows, x)
<1>1. \A x \in Id : TimedOut(rows, s)[x] =
        CASE due(x) /\ s[x] = "RECEIVED_PREPARE" -> "EXPIRED_PREPARED"
          [] due(x) /\ s[x] \in {"RESERVED", "RECEIVED_FULFIL_DEPENDENT"} -> "RESERVED_TIMEOUT"
          [] OTHER -> s[x]
  BY DEF TimedOut
<1>2. TimedOut(rows, s) = [x \in Id |-> TimedOut(rows, s)[x]]
  BY DEF TimedOut
<1> HIDE DEF due
<1>3. \A x \in Id : \/ TimedOut(rows, s)[x] = s[x]
                    \/ /\ TimedOut(rows, s)[x] \in {"EXPIRED_PREPARED", "RESERVED_TIMEOUT"}
                       /\ s[x] \in {"RECEIVED_PREPARE", "RESERVED", "RECEIVED_FULFIL_DEPENDENT"}
  BY <1>1
<1>4. "EXPIRED_PREPARED" \in State /\ "RESERVED_TIMEOUT" \in State
  BY DEF State
<1>5. \A x \in Id : TimedOut(rows, s)[x] \in State
  BY <1>3, <1>4
<1>6. \A x \in Id : Fits(x, TimedOut(rows, s)[x])
  BY <1>3 DEF Fits
<1>7. TimedOut(rows, s) \in [Id -> State]
  BY <1>2, <1>5
<1> QED
  BY <1>6, <1>7

LEMMA RowsType ==
  ASSUME BatchInv, NEW s
  PROVE  ToTransfers(ToConversions(Watched, s), s) \in [Id -> SUBSET Id]
<1>1. Watched \in [Id -> SUBSET Id]
  BY DEF Watched, BatchInv, TypeOK
<1> DEFINE r == Watched
           q == ToConversions(r, s)
<1>2. q \in [Id -> SUBSET Id]
  <2> HIDE DEF r
  <2> SUFFICES ASSUME NEW x \in Id
               PROVE  (IF x \in Conversion /\ Expired(r, s, Determining[x]) THEN r[Determining[x]] ELSE r[x]) \in SUBSET Id
    BY DEF ToConversions
  <2>1. x \in Conversion => Determining[x] \in Id
    BY DeterminedBy
  <2> QED
    BY <1>1, <2>1 DEF r
<1> HIDE DEF q
<1> SUFFICES ASSUME NEW x \in Id
             PROVE  (LET cs == {c \in ConversionsOf(x) : Expired(q, s, c)}
                     IN IF x \in Transfer /\ s[x] \in Expiring /\ cs # {}
                        THEN UNION {q[c] : c \in cs} ELSE q[x]) \in SUBSET Id
  BY DEF ToTransfers, q
<1>3. \A c \in ConversionsOf(x) : q[c] \in SUBSET Id
  BY <1>2 DEF ConversionsOf, Id
<1> QED
  BY <1>2, <1>3

LEMMA SweepKeeps ==
  ASSUME BatchInv, Sweep
  PROVE  BatchInv'
<1> DEFINE first  == TimedOut(Watched, state)
           rows   == ToTransfers(ToConversions(Watched, first), first)
           second == TimedOut(rows, first)
           listed == Listed(rows, second)
<1>1. /\ state' = second /\ timeoutRow' = rows /\ HandlersStay /\ answers' = answers /\ expired' = expired
      /\ pending' = pending \union {AskTimeout(t) : t \in listed \intersect Transfer}
                            \union {AskFxTimeout(c) : c \in listed \intersect Conversion}
  BY DEF Sweep
<1>2. first \in [Id -> State] /\ \A x \in Id : Fits(x, first[x])
  BY TimedOutFits DEF BatchInv, TypeOK, BatchTypeOK
<1>3. rows \in [Id -> SUBSET Id]
  BY RowsType
<1> HIDE DEF first
<1>4. second \in [Id -> State] /\ \A x \in Id : Fits(x, second[x])
  <2> HIDE DEF rows
  <2> QED
    BY <1>2, TimedOutFits
<1>5. \A x \in listed : x \in Id /\ second[x] = "RESERVED_TIMEOUT"
  BY DEF Listed
<1> HIDE DEF rows, second, listed
<1>6. \A x \in listed : x \in Id /\ Backed(x) /\ DebitAccount[x] \in Account \union {NoAccount}
  BY <1>4, <1>5, Parameters DEF Fits
<1>7. \A t \in listed \intersect Transfer : Sound(AskTimeout(t)) /\ Backing(AskTimeout(t))
  <2> TAKE t \in listed \intersect Transfer
  <2>1. "timeout" \in Own /\ "timeout" \in OfTransfer
    BY DEF Own, OfTransfer
  <2>2. Sound(AskTimeout(t)) /\ Concerns(AskTimeout(t)) = {t}
    BY <1>6, <2>1, AskIs DEF AskTimeout
  <2> QED
    BY <1>6, <2>2 DEF Backing
<1>8. \A c \in listed \intersect Conversion : Sound(AskFxTimeout(c)) /\ Backing(AskFxTimeout(c))
  <2> TAKE c \in listed \intersect Conversion
  <2>1. "fxTimeout" \in Own /\ "fxTimeout" \notin OfTransfer
    BY DEF Own, OfTransfer
  <2>2. Sound(AskFxTimeout(c)) /\ Concerns(AskFxTimeout(c)) = {c}
    BY <1>6, <2>1, AskIs DEF AskFxTimeout
  <2> QED
    BY <1>6, <2>2 DEF Backing
<1>9. \A m \in pending' : m \in pending \/ (Sound(m) /\ Backing(m))
  BY <1>1, <1>7, <1>8
<1> QED
  BY <1>1, <1>3, <1>4, <1>9, RequestKeeps DEF BatchInv, TypeOK

(***************************************************************************)
(* The batches.                                                            *)
(***************************************************************************)
LEMMA BatchKeeps ==
  ASSUME BatchInv, NEW c \in Consumer, TypeOK',
         \A d \in Consumer : d # c => work'[d] = work[d] /\ unacked'[d] = unacked[d],
         \A y \in Id : Taken(y)' >= Taken(y),
         \A x \in Id : Fits(x, state[x])',
         \A m \in pending' : Sound(m) /\ Backing(m),
         WorkSound(work'[c], unacked'[c], c),
         WorkBacked(work'[c], unacked'[c])
  PROVE  BatchInv'
<1>1. /\ \A x : Backed(x) => Backed(x)'
      /\ \A m : Backing(m) => Backing(m)'
  BY MoreMoved DEF BatchInv, TypeOK, BatchTypeOK
<1>2. \A d \in Consumer : WorkSound(work'[d], unacked'[d], d) /\ WorkBacked(work'[d], unacked'[d])
  BY DEF BatchInv
<1>3. \A d \in Consumer : WorkSound(work[d], unacked[d], d)' /\ WorkBacked(work[d], unacked[d])'
  BY <1>1, <1>2 DEF WorkSound, WorkBacked, RowsFit
<1>4. \A m \in pending' : Sound(m) /\ Backing(m)'
  BY <1>1
<1> QED
  BY <1>3, <1>4 DEF BatchInv

LEMMA OthersAlike ==
  ASSUME BatchInv, NEW c \in Consumer, NEW w \in Work, work' = [work EXCEPT ![c] = w]
  PROVE  /\ work' \in [Consumer -> Work] /\ work'[c] = w
         /\ \A d \in Consumer : d # c => work'[d] = work[d]
BY DEF BatchInv, TypeOK, BatchTypeOK

LEMMA BeginType ==
  ASSUME BatchInv, NEW b \in SUBSET Message
  PROVE  /\ Begin(b) \in Work /\ Begin(b).pc = "bins" /\ Begin(b).batch = b /\ Begin(b).todo = b
         /\ Begin(b).rows = NoStates /\ Begin(b).followUps = {} /\ Begin(b).moved = [x \in Id |-> NoMoves]
         /\ Begin(b).notices = [x \in Id |-> {}]
         /\ Begin(b).value = LockedPositions(AccountIds(b))
<1> DEFINE l == LatestStates(TransferIds(b))
           v == LockedPositions(AccountIds(b))
<1>1. l \in [Id -> State] /\ v \in [Account -> Int] /\ "bins" \in Pc
  BY DEF LatestStates, LockedPositions, BatchInv, TypeOK, BatchTypeOK, State, Pc
<1> DEFINE i == Idle
           e == [i EXCEPT !.pc = "bins", !.batch = b, !.todo = b, !.latest = l, !.value = v]
<1>2. Begin(b) = e /\ i \in Work
  BY IdleType DEF Begin
<1>3. i.rows = NoStates /\ i.followUps = {} /\ i.moved = [x \in Id |-> NoMoves] /\ i.notices = [x \in Id |-> {}]
  BY DEF Idle
<1> HIDE DEF l, v, i
<1>4. /\ e \in Work /\ e.pc = "bins" /\ e.batch = b /\ e.todo = b /\ e.value = v
      /\ e.rows = i.rows /\ e.followUps = i.followUps /\ e.moved = i.moved /\ e.notices = i.notices
  BY <1>1, <1>2 DEF Work
<1> HIDE DEF e
<1> QED
  BY <1>2, <1>3, <1>4 DEF v

RequestsStay == UNCHANGED <<answers, expired, timeoutRow>>

LEMMA PollKeeps ==
  ASSUME BatchInv, NEW c \in Consumer, Poll(c), RequestsStay
  PROVE  BatchInv'
<1>1. PICK b \in SUBSET {m \in pending : ConsumerOf[m.account] = c} :
        pending' = pending \ b /\ work' = [work EXCEPT ![c] = Begin(b)]
  BY DEF Poll
<1>2. UNCHANGED <<state, position, moved, unacked, notified, crashes>>
  BY DEF Poll, database
<1>3. b \in SUBSET Message /\ \A m \in b : Sound(m) /\ Backing(m) /\ ConsumerOf[m.account] = c
  BY <1>1 DEF BatchInv, TypeOK, BatchTypeOK
<1> DEFINE w == Begin(b)
<1>4. /\ w \in Work /\ w.pc = "bins" /\ w.batch = b /\ w.todo = b
      /\ w.rows = NoStates /\ w.followUps = {} /\ w.moved = [x \in Id |-> NoMoves]
  BY <1>3, BeginType
<1> HIDE DEF w
<1>5. /\ work' \in [Consumer -> Work] /\ work'[c] = w
      /\ \A d \in Consumer : d # c => work'[d] = work[d]
  BY <1>1, <1>4, OthersAlike DEF w
<1>6. TypeOK'
  BY <1>1, <1>2, <1>5 DEF BatchInv, TypeOK, BatchTypeOK, RequestsStay
<1>7. WorkSound(work'[c], unacked'[c], c)
  BY <1>2, <1>3, <1>4, <1>5 DEF WorkSound, BatchInv
<1>8. WorkBacked(work'[c], unacked'[c])
  BY <1>2, <1>3, <1>4, <1>5 DEF WorkBacked, RowsFit, NoStates, BatchInv
<1>9. \A y \in Id : Taken(y)' >= Taken(y)
  BY <1>2 DEF Taken, BatchInv, TypeOK, BatchTypeOK, MoveKind
<1>10. \A x \in Id : Fits(x, state[x])'
  BY <1>2 DEF BatchInv, Fits, Backed, Taken, ConversionsOf
<1>11. \A m \in pending' : Sound(m) /\ Backing(m)
  BY <1>1 DEF BatchInv
<1> QED
  BY <1>2, <1>5, <1>6, <1>7, <1>8, <1>9, <1>10, <1>11, BatchKeeps

(* What a worked message adds to the rows.                                  *)
LEMMA RowsOfEffect ==
  ASSUME NEW w \in Work, NEW v, NEW m, Sound(m), Backing(m), Effect(w, v, m), RowsFit(w)
  PROVE  RowsFit(v)
<1>1. v \in Work /\ w \in Work /\ m \in Message
  BY DEF Effect, Sound
<1>2. \A y \in Id : v.moved[y]["debit"] \in Nat /\ w.moved[y]["debit"] \in Nat
  BY <1>1, WorkType DEF MoveKind
<1>3. \A x \in Id, k \in MoveKind : Made(w, v, m, x, k) => \A y \in Id : v.moved[y]["debit"] >= w.moved[y]["debit"]
  <2> SUFFICES ASSUME NEW x \in Id, NEW k \in MoveKind, Made(w, v, m, x, k), NEW y \in Id
               PROVE  v.moved[y]["debit"] >= w.moved[y]["debit"]
    OBVIOUS
  <2>1. w.moved \in [Id -> [MoveKind -> Nat]] /\ "debit" \in MoveKind
    BY <1>1, WorkType DEF MoveKind
  <2>2. v.moved = w.moved \/ v.moved = [w.moved EXCEPT ![x][k] = @ + 1]
    BY DEF Made, Kept
  <2> QED
    BY <1>2, <2>1, <2>2
<1>4. CASE Holds(w, v, m)
  <2>1. Made(w, v, m, m.id, "debit") /\ StatesBecome(w, v, {m.id}, "RESERVED") /\ m.action \in Own
    BY <1>4 DEF Holds, Own
  <2>2. m.id \in Id /\ "debit" \in MoveKind /\ m.account = DebitAccount[m.id] /\ m.id \in Concerns(m)
    BY <1>1, <2>1, MessageType DEF MoveKind, Sound, Concerns
  <2>3. \A y \in Id : v.moved[y]["debit"] >= w.moved[y]["debit"]
    BY <1>3, <2>1, <2>2
  <2>4. DebitAccount[m.id] # NoAccount => v.moved[m.id]["debit"] >= 1
    BY <1>1, <1>2, <2>1, <2>2, WorkType DEF Made
  <2> QED
    BY <1>2, <2>1, <2>2, <2>3, <2>4 DEF RowsFit, StatesBecome, Backing
<1>5. CASE ~Holds(w, v, m)
  <2>1. \A y \in Id : v.moved[y]["debit"] >= w.moved[y]["debit"]
    <3>1. CASE Kept(w, v)
      BY <1>2, <3>1 DEF Kept
    <3>2. CASE \E x \in Id, k \in MoveKind : Made(w, v, m, x, k)
      BY <1>3, <3>2
    <3>3. m.id \in Id /\ "refund" \in MoveKind /\ "credit" \in MoveKind
      BY <1>1, MessageType DEF MoveKind
    <3>4. m.action \in Aborts \union {"commit"} => NextMove(m) \in Id
      BY NextMoveType
    <3> QED
      BY <1>5, <3>1, <3>2, <3>3, <3>4 DEF Effect, Declines, Returns, Pays, GivesBack
  <2>2. \E s \in State \ {"none", "RESERVED", "RECEIVED_FULFIL_DEPENDENT"}, xs \in SUBSET Concerns(m) : StatesBecome(w, v, xs, s)
    <3>1. m.id \in Concerns(m)
      BY DEF Concerns
    <3>2. {m.id} \in SUBSET Concerns(m) /\ (m.action \in Aborts \union {"commit"} => Reached(m) \in SUBSET Concerns(m))
      BY <3>1, NextMoveType
    <3>3. {"ABORTED_REJECTED", "EXPIRED_RESERVED", "COMMITTED", "ABORTED_ERROR"}
           \subseteq State \ {"none", "RESERVED", "RECEIVED_FULFIL_DEPENDENT"}
      BY DEF State
    <3> QED
      BY <1>5, <3>2, <3>3 DEF Effect, Declines, Returns, Pays, GivesBack
  <2> QED
    BY <1>2, <2>1, <2>2 DEF RowsFit, StatesBecome, Backing
<1> QED
  BY <1>4, <1>5

LEMMA FollowedConcern ==
  ASSUME NEW m, Sound(m), m.action \in Aborts \union {"commit"}, Backing(m)
  PROVE  Backing(Following(m))
<1>1. m \in Message
  BY DEF Sound
<1>2. Following(m).id = m.id /\ Following(m).plan = m.plan /\ Following(m).unmoved = m.unmoved
  BY <1>1 DEF Following, Message
<1> QED
  BY <1>2 DEF Backing, Concerns

LEMMA ItemKeeps ==
  ASSUME BatchInv, NEW c \in Consumer, Item(c), RequestsStay
  PROVE  BatchInv'
<1>1. /\ work[c] \in Work /\ unacked \in [Consumer -> SUBSET Message]
      /\ WorkSound(work[c], unacked[c], c) /\ WorkBacked(work[c], unacked[c])
  BY DEF BatchInv, TypeOK, BatchTypeOK
<1>2. \A m \in work[c].todo : Sound(m) /\ Backing(m) /\ m \in work[c].batch
  BY <1>1 DEF WorkSound, WorkBacked
<1>3. Rollback(c) \/ \E m \in work[c].todo : Worked(c, m)
  BY <1>1, <1>2, ItemIs
<1>4. CASE Rollback(c)
  <2>1. /\ UNCHANGED <<state, position, moved, pending, notified, crashes>>
        /\ unacked' = [unacked EXCEPT ![c] = @ \union work[c].batch]
        /\ work' = [work EXCEPT ![c] = Idle]
    BY <1>4 DEF Rollback, database
  <2>2. /\ work' \in [Consumer -> Work] /\ work'[c] = Idle
        /\ \A d \in Consumer : d # c => work'[d] = work[d]
    BY <2>1, IdleType, OthersAlike
  <2>3. /\ unacked' \in [Consumer -> SUBSET Message] /\ unacked'[c] = unacked[c] \union work[c].batch
        /\ \A d \in Consumer : d # c => unacked'[d] = unacked[d]
    BY <1>1, <2>1, WorkType
  <2>4. TypeOK'
    BY <2>1, <2>2, <2>3 DEF BatchInv, TypeOK, BatchTypeOK, RequestsStay
  <2>5. WorkSound(work'[c], unacked'[c], c)
    <3>1. Idle.batch = {} /\ Idle.todo = {} /\ Idle.followUps = {}
      BY DEF Idle
    <3> QED
      BY <1>1, <2>2, <2>3, <3>1 DEF WorkSound
  <2>6. WorkBacked(work'[c], unacked'[c])
    BY <1>1, <2>2, <2>3, IdleFits DEF WorkBacked
  <2>7. \A y \in Id : Taken(y)' >= Taken(y)
    BY <2>1 DEF Taken, BatchInv, TypeOK, BatchTypeOK, MoveKind
  <2>8. \A x \in Id : Fits(x, state[x])'
    BY <2>1 DEF BatchInv, Fits, Backed, Taken, ConversionsOf
  <2> QED
    BY <2>1, <2>2, <2>3, <2>4, <2>5, <2>6, <2>7, <2>8, BatchKeeps DEF BatchInv
<1>5. ASSUME NEW m \in work[c].todo, Worked(c, m)
      PROVE  BatchInv'
  <2>1. PICK v : Effect(work[c], v, m) /\ NewAreSound(work[c], v) /\ Done(c, m, v)
    BY <1>5 DEF Worked
  <2> DEFINE u == [v EXCEPT !.todo = @ \ {m}]
  <2>2. v \in Work /\ v.batch = work[c].batch /\ v.todo = work[c].todo
    BY <2>1 DEF Effect
  <2>3. /\ UNCHANGED <<state, position, moved, pending, unacked, notified, crashes>>
        /\ work' = [work EXCEPT ![c] = u]
    BY <2>1 DEF Done, database
  <2>4. /\ u \in Work /\ u.batch = v.batch /\ u.todo = v.todo \ {m} /\ u.followUps = v.followUps
        /\ u.rows = v.rows /\ u.moved = v.moved
    BY <2>2 DEF Work
  <2> HIDE DEF u
  <2>5. /\ work' \in [Consumer -> Work] /\ work'[c] = u
        /\ \A d \in Consumer : d # c => work'[d] = work[d]
    BY <2>3, <2>4, OthersAlike
  <2>6. TypeOK'
    BY <2>3, <2>5 DEF BatchInv, TypeOK, BatchTypeOK, RequestsStay
  <2>7. WorkSound(u, unacked[c], c)
    BY <1>1, <2>1, <2>2, <2>4 DEF WorkSound, NewAreSound
  <2>8. RowsFit(u)
    <3>1. RowsFit(v)
      BY <1>1, <1>2, <2>1, RowsOfEffect DEF WorkBacked
    <3> QED
      BY <2>4, <3>1 DEF RowsFit
  <2>9. \A f \in v.followUps : f \in work[c].followUps \/ Backing(f)
    <3>1. m.action \in Aborts \union {"commit"} => Backing(Following(m))
      BY <1>2, FollowedConcern
    <3> QED
      BY <2>1, <3>1 DEF Effect, Declines, Holds, Returns, Pays, GivesBack
  <2>10. WorkBacked(u, unacked[c])
    BY <1>1, <2>2, <2>4, <2>8, <2>9 DEF WorkBacked
  <2>11. \A y \in Id : Taken(y)' >= Taken(y)
    BY <2>3 DEF Taken, BatchInv, TypeOK, BatchTypeOK, MoveKind
  <2>12. \A x \in Id : Fits(x, state[x])'
    BY <2>3 DEF BatchInv, Fits, Backed, Taken, ConversionsOf
  <2> QED
    BY <2>3, <2>5, <2>6, <2>7, <2>10, <2>11, <2>12, BatchKeeps DEF BatchInv
<1> QED
  BY <1>3, <1>4, <1>5

LEMMA CommitOffsetKeeps ==
  ASSUME BatchInv, NEW c \in Consumer, CommitOffset(c), RequestsStay
  PROVE  BatchInv'
<1> DEFINE w == work[c]
           v == [w EXCEPT !.pc = "commit", !.bin = NoBin, !.base = 0,
                          !.latest = NoStates, !.seen = NoStates, !.left = NoStates]
<1>1. /\ UNCHANGED <<state, position, moved, pending, notified, crashes>>
      /\ unacked' = [unacked EXCEPT ![c] = {}] /\ work' = [work EXCEPT ![c] = v]
  BY DEF CommitOffset, database
<1>2. /\ w \in Work /\ unacked \in [Consumer -> SUBSET Message]
      /\ WorkSound(w, unacked[c], c) /\ WorkBacked(w, unacked[c])
  BY DEF BatchInv, TypeOK, BatchTypeOK
<1>3. "commit" \in Pc /\ NoBin \in Bin /\ NoStates \in [Id -> State]
  BY DEF Pc, NoBin, Bin, NoStates, State
<1> HIDE DEF w
<1> DEFINE f == [w EXCEPT !.pc = "commit", !.bin = NoBin, !.base = 0]
<1>12. f \in Work /\ v = [f EXCEPT !.latest = NoStates, !.seen = NoStates, !.left = NoStates]
  <2>1. f \in Work
    <3> DEFINE d == [w EXCEPT !.pc = "commit"]
               e == [d EXCEPT !.bin = NoBin]
               z == 0
    <3>1. d \in Work
      BY <1>2, <1>3 DEF Work
    <3>2. f = [e EXCEPT !.base = z] /\ z \in Int
      BY <1>2 DEF Work
    <3> HIDE DEF d
    <3>3. e \in Work
      BY <1>3, <3>1 DEF Work
    <3> HIDE DEF e, f, v, z
    <3> QED
      BY <3>2, <3>3 DEF Work
  <2> QED
    BY <1>2, <2>1 DEF Work
<1>4. /\ v \in Work /\ v.batch = w.batch /\ v.todo = w.todo /\ v.followUps = w.followUps
      /\ v.rows = w.rows /\ v.moved = w.moved
  <2>1. v \in Work
    <3> HIDE DEF f, v
    <3> QED
      BY <1>3, <1>12 DEF Work
  <2> QED
    BY <1>2, <2>1 DEF Work
<1> HIDE DEF v
<1>5. /\ work' \in [Consumer -> Work] /\ work'[c] = v
      /\ \A d \in Consumer : d # c => work'[d] = work[d]
  BY <1>1, <1>4, OthersAlike
<1>6. /\ unacked' \in [Consumer -> SUBSET Message] /\ unacked'[c] = {}
      /\ \A d \in Consumer : d # c => unacked'[d] = unacked[d]
  BY <1>1, <1>2
<1>7. TypeOK'
  BY <1>1, <1>5, <1>6 DEF BatchInv, TypeOK, BatchTypeOK, RequestsStay
<1>8. WorkSound(work'[c], unacked'[c], c)
  BY <1>2, <1>4, <1>5, <1>6 DEF WorkSound
<1>9. WorkBacked(work'[c], unacked'[c])
  BY <1>2, <1>4, <1>5, <1>6 DEF WorkBacked, RowsFit
<1>10. \A y \in Id : Taken(y)' >= Taken(y)
  BY <1>1 DEF Taken, BatchInv, TypeOK, BatchTypeOK, MoveKind
<1>11. \A x \in Id : Fits(x, state[x])'
  BY <1>1 DEF BatchInv, Fits, Backed, Taken, ConversionsOf
<1> QED
  BY <1>1, <1>5, <1>6, <1>7, <1>8, <1>9, <1>10, <1>11, BatchKeeps DEF BatchInv

LEMMA CommitTrxKeeps ==
  ASSUME BatchInv, NEW c \in Consumer, CommitTrx(c), RequestsStay
  PROVE  BatchInv'
<1> DEFINE w == work[c]
           v == [w EXCEPT !.pc = "produce"]
<1>1. /\ state' = InsertedStates(w) /\ position' = UpdatedPositions(w) /\ moved' = InsertedMoves(w)
      /\ UNCHANGED <<pending, unacked, notified, crashes>>
      /\ work' = [work EXCEPT ![c].pc = "produce"]
  BY DEF CommitTrx
<1>2. /\ w \in Work /\ WorkSound(w, unacked[c], c) /\ WorkBacked(w, unacked[c]) /\ RowsFit(w)
  BY DEF BatchInv, TypeOK, BatchTypeOK, WorkBacked
<1>3. work' = [work EXCEPT ![c] = v]
  BY <1>1 DEF BatchInv, TypeOK, BatchTypeOK
<1> HIDE DEF w
<1>4. /\ v \in Work /\ v.batch = w.batch /\ v.todo = w.todo /\ v.followUps = w.followUps
      /\ v.rows = w.rows /\ v.moved = w.moved
  BY <1>2 DEF Work, Pc
<1> HIDE DEF v
<1>5. /\ work' \in [Consumer -> Work] /\ work'[c] = v
      /\ \A d \in Consumer : d # c => work'[d] = work[d]
  BY <1>3, <1>4, OthersAlike
<1>6. state' \in [Id -> State] /\ \A x \in Id : state'[x] = IF w.rows[x] = "none" THEN state[x] ELSE w.rows[x]
  BY <1>1, <1>2, WorkType DEF InsertedStates, BatchInv, TypeOK, BatchTypeOK
<1>7. position' \in [Account -> Int]
  BY <1>1, <1>2, WorkType DEF UpdatedPositions, BatchInv, TypeOK, BatchTypeOK
<1>8. /\ moved' \in [Id -> [MoveKind -> Nat]]
      /\ \A x \in Id, k \in MoveKind : moved'[x][k] = moved[x][k] + w.moved[x][k]
  <2>1. w.moved \in [Id -> [MoveKind -> Nat]] /\ moved \in [Id -> [MoveKind -> Nat]]
    BY <1>2, WorkType DEF BatchInv, TypeOK, BatchTypeOK
  <2> QED
    BY <1>1, <2>1 DEF InsertedMoves
<1>9. TypeOK'
  BY <1>1, <1>5, <1>6, <1>7, <1>8 DEF BatchInv, TypeOK, BatchTypeOK, RequestsStay
<1>10. \A y \in Id : /\ Taken(y)' >= Taken(y) /\ Taken(y)' >= w.moved[y]["debit"]
  <2> TAKE y \in Id
  <2>1. w.moved[y]["debit"] \in Nat /\ moved[y]["debit"] \in Nat /\ "debit" \in MoveKind
    BY <1>2, WorkType DEF BatchInv, TypeOK, BatchTypeOK, MoveKind
  <2> QED
    BY <1>8, <2>1 DEF Taken
<1>11. /\ \A x : Backed(x) => Backed(x)'
       /\ \A x \in Id : \A s : Fits(x, s) => Fits(x, s)'
  BY <1>8, <1>10, MoreMoved DEF BatchInv, TypeOK, BatchTypeOK
<1>12. \A x \in Id : Fits(x, state[x])'
  <2> TAKE x \in Id
  <2>1. CASE w.rows[x] = "none"
    BY <1>6, <1>11, <2>1 DEF BatchInv
  <2>2. CASE w.rows[x] # "none"
    <3>1. state'[x] = w.rows[x] /\ Backed(x)'
      BY <1>2, <1>6, <1>11, <2>2 DEF RowsFit
    <3>2. CASE state'[x] = "RESERVED"
      <4>1. DebitAccount[x] # NoAccount => Taken(x)' >= 1
        <5>1. Taken(x)' \in Nat /\ w.moved[x]["debit"] \in Nat
          BY <1>2, <1>8, WorkType DEF Taken, MoveKind
        <5>2. DebitAccount[x] # NoAccount => w.moved[x]["debit"] >= 1
          BY <1>2, <3>1, <3>2 DEF RowsFit
        <5>3. Taken(x)' >= w.moved[x]["debit"]
          BY <1>10
        <5> QED
          BY <5>1, <5>2, <5>3
      <4> QED
        BY <3>1, <4>1 DEF Fits
    <3>3. CASE state'[x] = "RECEIVED_FULFIL_DEPENDENT"
      BY <1>2, <3>1, <3>3 DEF RowsFit
    <3> QED
      BY <3>1, <3>2, <3>3 DEF Fits
  <2> QED
    BY <2>1, <2>2
<1>13. WorkSound(work'[c], unacked'[c], c)
  BY <1>1, <1>2, <1>4, <1>5 DEF WorkSound
<1>14. WorkBacked(work'[c], unacked'[c])
  BY <1>1, <1>2, <1>4, <1>5 DEF WorkBacked, RowsFit
<1>15. \A m \in pending' : Sound(m) /\ Backing(m)
  BY <1>1 DEF BatchInv
<1>16. \A d \in Consumer : d # c => work'[d] = work[d] /\ unacked'[d] = unacked[d]
  BY <1>1, <1>5
<1>17. \A y \in Id : Taken(y)' >= Taken(y)
  BY <1>10
<1> QED
  BY <1>9, <1>12, <1>13, <1>14, <1>15, <1>16, <1>17, BatchKeeps

(* The batch ends, or its process dies: what is read again and what was     *)
(* produced are messages that were there already.                           *)
LEMMA EndKeeps ==
  ASSUME BatchInv, NEW c \in Consumer, RequestsStay, UNCHANGED <<state, position, moved>>,
         work' = [work EXCEPT ![c] = Idle], unacked' = unacked \/ unacked' = [unacked EXCEPT ![c] = {}],
         pending' \subseteq pending \union work[c].batch \union unacked[c] \union work[c].followUps,
         notified' \in [Id -> SUBSET Notice], crashes' \in Nat
  PROVE  BatchInv'
<1>1. /\ work[c] \in Work /\ unacked \in [Consumer -> SUBSET Message]
      /\ WorkSound(work[c], unacked[c], c) /\ WorkBacked(work[c], unacked[c])
  BY DEF BatchInv, TypeOK, BatchTypeOK
<1>2. /\ work' \in [Consumer -> Work] /\ work'[c] = Idle
      /\ \A d \in Consumer : d # c => work'[d] = work[d]
  BY IdleType, OthersAlike
<1>3. /\ unacked' \in [Consumer -> SUBSET Message] /\ unacked'[c] \subseteq unacked[c]
      /\ \A d \in Consumer : d # c => unacked'[d] = unacked[d]
  BY <1>1
<1>4. \A m \in pending' : Sound(m) /\ Backing(m)
  BY <1>1 DEF WorkSound, WorkBacked, BatchInv
<1>5. TypeOK'
  BY <1>2, <1>3, <1>4 DEF BatchInv, TypeOK, BatchTypeOK, RequestsStay, Sound
<1>6. Idle.batch = {} /\ Idle.todo = {} /\ Idle.followUps = {} /\ Idle.rows = NoStates
  BY DEF Idle
<1>7. WorkSound(work'[c], unacked'[c], c)
  BY <1>1, <1>2, <1>3, <1>6 DEF WorkSound
<1>8. WorkBacked(work'[c], unacked'[c])
  BY <1>1, <1>2, <1>3, <1>6 DEF WorkBacked, RowsFit, NoStates
<1>9. \A y \in Id : Taken(y)' >= Taken(y)
  BY DEF Taken, BatchInv, TypeOK, BatchTypeOK, MoveKind
<1>10. \A x \in Id : Fits(x, state[x])'
  BY DEF BatchInv, Fits, Backed, Taken, ConversionsOf
<1>11. \A d \in Consumer : d # c => work'[d] = work[d] /\ unacked'[d] = unacked[d]
  BY <1>2, <1>3
<1> QED
  BY <1>4, <1>5, <1>7, <1>8, <1>9, <1>10, <1>11, BatchKeeps

LEMMA ProduceKeeps ==
  ASSUME BatchInv, NEW c \in Consumer, Produce(c), RequestsStay
  PROVE  BatchInv'
<1>1. /\ UNCHANGED <<state, position, moved, unacked, crashes>>
      /\ pending' = pending \union work[c].followUps /\ work' = [work EXCEPT ![c] = Idle]
      /\ notified' = [x \in Id |-> notified[x] \union work[c].notices[x]]
  BY DEF Produce, database
<1>2. work[c].notices \in [Id -> SUBSET Notice] /\ notified \in [Id -> SUBSET Notice]
  BY WorkType DEF BatchInv, TypeOK, BatchTypeOK
<1>3. notified' \in [Id -> SUBSET Notice] /\ crashes' \in Nat
  BY <1>1, <1>2 DEF BatchInv, TypeOK, BatchTypeOK
<1> QED
  BY <1>1, <1>3, EndKeeps

LEMMA CrashKeeps ==
  ASSUME BatchInv, NEW c \in Consumer, CrashBatch(c), RequestsStay
  PROVE  BatchInv'
<1>1. /\ UNCHANGED <<state, position, moved, notified>> /\ crashes' = crashes + 1
      /\ unacked' = [unacked EXCEPT ![c] = {}] /\ work' = [work EXCEPT ![c] = Idle]
  BY DEF CrashBatch, database
<1>2. pending' \subseteq pending \union work[c].batch \union unacked[c] \union work[c].followUps
  BY DEF CrashBatch, ReadAgain
<1>3. notified' \in [Id -> SUBSET Notice] /\ crashes' \in Nat
  BY <1>1 DEF BatchInv, TypeOK, BatchTypeOK
<1> QED
  BY <1>1, <1>2, <1>3, EndKeeps

(* The actions, one by one.                                                 *)
LEMMA Steps ==
  ASSUME Next
  PROVE  \/ \E c \in Conversion : RequestConversion(c) \/ AcceptConversion(c) \/ RefuseConversion(c)
         \/ \E t \in Transfer : RequestTransfer(t) \/ AcceptTransfer(t) \/ RefuseTransfer(t)
         \/ \E x \in Id : Expire(x)
         \/ Sweep
         \/ RequestsStay /\ \E c \in Consumer :
              Poll(c) \/ Item(c) \/ CommitOffset(c) \/ CommitTrx(c) \/ Produce(c) \/ CrashBatch(c)
BY DEF Next, Participants, AnswerConversion, Batches, BatchStep, RequestsStay

LEMMA BatchInvStutters ==
  ASSUME BatchInv, UNCHANGED vars
  PROVE  BatchInv'
<1>1. UNCHANGED <<state, position, moved, pending, unacked, work, notified, crashes, answers, expired, timeoutRow>>
  BY DEF vars, batchVars, database
<1>2. TypeOK'
  BY <1>1 DEF BatchInv, TypeOK, BatchTypeOK
<1>3. HandlersStay
  BY <1>1 DEF HandlersStay
<1>4. \A x \in Id : Fits(x, state'[x])
  BY <1>1 DEF BatchInv
<1> QED
  BY <1>1, <1>3, <1>4, RequestKeeps DEF BatchInv, TypeOK, BatchTypeOK

LEMMA BatchInvNext == BatchInv /\ [Next]_vars => BatchInv'
<1> SUFFICES ASSUME BatchInv, [Next]_vars PROVE BatchInv'
  OBVIOUS
<1>1. CASE UNCHANGED vars
  BY <1>1, BatchInvStutters
<1>2. ASSUME NEW c \in Conversion, RequestConversion(c) \/ AcceptConversion(c) \/ RefuseConversion(c)
      PROVE  BatchInv'
  BY <1>2, RequestConversionKeeps, AcceptConversionKeeps, RefuseConversionKeeps
<1>3. ASSUME NEW t \in Transfer, RequestTransfer(t) \/ AcceptTransfer(t) \/ RefuseTransfer(t)
      PROVE  BatchInv'
  BY <1>3, RequestTransferKeeps, AcceptTransferKeeps, RefuseTransferKeeps
<1>4. ASSUME NEW x \in Id, Expire(x) PROVE BatchInv'
  BY <1>4, ExpireKeeps
<1>5. CASE Sweep
  BY <1>5, SweepKeeps
<1>6. ASSUME NEW c \in Consumer, RequestsStay,
             Poll(c) \/ Item(c) \/ CommitOffset(c) \/ CommitTrx(c) \/ Produce(c) \/ CrashBatch(c)
      PROVE  BatchInv'
  BY <1>6, PollKeeps, ItemKeeps, CommitOffsetKeeps, CommitTrxKeeps, ProduceKeeps, CrashKeeps
<1> QED
  BY <1>1, <1>2, <1>3, <1>4, <1>5, <1>6, Steps

LEMMA BatchInvHolds == Spec => []BatchInv
<1>1. Init => BatchInv
  BY BatchInvInit
<1>2. BatchInv /\ [Next]_vars => BatchInv'
  BY BatchInvNext
<1> QED
  BY <1>1, <1>2, PTL DEF Spec

(* The types of everything a payment with a conversion is made of: every    *)
(* message, also the follow-up of a settlement, is one a bin can work       *)
(* through, with an account and a movement.                                 *)
THEOREM PaymentTypes == Spec => []TypeOK
<1>1. BatchInv => TypeOK
  BY DEF BatchInv
<1> QED
  BY <1>1, BatchInvHolds, PTL

(***************************************************************************)
(* The books.  While a transaction is open, what it has accumulated for an *)
(* account it has locked is the position and the rows it is about to       *)
(* insert; and it is about to insert none for any other.  No two consumers *)
(* have the same account locked.                                           *)
(***************************************************************************)
MovedBy(rows, x, a) ==
  (IF DebitAccount[x] = a THEN rows["debit"] - rows["refund"] ELSE 0)
  - (IF CreditAccount[x] = a THEN rows["credit"] ELSE 0)
Entries(all, a) == [x \in Id |-> Amount[x] * MovedBy(all[x], x, a)]
Worth(all, a)   == SumFunctionOnSet(Entries(all, a), Id)

AddsUp(w) ==
  w.pc \in {"bins", "commit"} =>
    \A a \in Account :
      IF a \in AccountIds(w.batch) THEN w.value[a] = position[a] + Worth(w.moved, a)
      ELSE Worth(w.moved, a) = 0

BooksInv ==
  /\ \A a \in Account : position[a] = Worth(moved, a)
  /\ \A c \in Consumer : AddsUp(work[c])

Rows == [Id -> [MoveKind -> Nat]]

LEMMA EntriesType ==
  ASSUME NEW all \in Rows, NEW a \in Account
  PROVE  /\ \A x \in Id : /\ MovedBy(all[x], x, a) \in Int
                          /\ Entries(all, a)[x] \in Int
                          /\ Entries(all, a)[x] = Amount[x] * MovedBy(all[x], x, a)
         /\ Worth(all, a) \in Int
<1>1. \A x \in Id : MovedBy(all[x], x, a) \in Int
  BY DEF Rows, MovedBy, MoveKind
<1>2. \A x \in Id : Amount[x] \in Int
  BY Parameters
<1>3. \A x \in Id : Entries(all, a)[x] = Amount[x] * MovedBy(all[x], x, a)
  BY DEF Entries
<1>4. \A x \in Id : Entries(all, a)[x] \in Int
  BY <1>1, <1>2, <1>3
<1>5. Worth(all, a) \in Int
  BY <1>4, PaymentAssumption, SumType DEF Worth
<1> QED
  BY <1>1, <1>3, <1>4, <1>5

LEMMA NothingMoved ==
  ASSUME NEW a \in Account
  PROVE  [x \in Id |-> NoMoves] \in Rows /\ Worth([x \in Id |-> NoMoves], a) = 0
<1> DEFINE all == [x \in Id |-> NoMoves]
<1>1. all \in Rows
  BY DEF Rows, NoMoves
<1>2. \A x \in Id : MovedBy(all[x], x, a) = 0
  BY DEF MovedBy, NoMoves, MoveKind
<1> HIDE DEF all
<1>3. \A x \in Id : Entries(all, a)[x] = 0
  BY <1>1, <1>2, EntriesType, Parameters
<1>4. Worth(all, a) = 0
  BY <1>3, PaymentAssumption, SumOfNothing DEF Worth
<1> QED
  BY <1>1, <1>4 DEF all

LEMMA WorthAdds ==
  ASSUME NEW all \in Rows, NEW more \in Rows, NEW a \in Account
  PROVE  LET sum == [x \in Id |-> [k \in MoveKind |-> all[x][k] + more[x][k]]]
         IN sum \in Rows /\ Worth(sum, a) = Worth(all, a) + Worth(more, a)
<1> DEFINE sum == [x \in Id |-> [k \in MoveKind |-> all[x][k] + more[x][k]]]
<1>1. sum \in Rows
  BY DEF Rows
<1>2. \A x \in Id : MovedBy(sum[x], x, a) = MovedBy(all[x], x, a) + MovedBy(more[x], x, a)
  <2> TAKE x \in Id
  <2>1. \A k \in MoveKind : sum[x][k] = all[x][k] + more[x][k] /\ all[x][k] \in Nat /\ more[x][k] \in Nat
    BY DEF Rows
  <2> HIDE DEF sum
  <2> QED
    BY <2>1 DEF MovedBy, MoveKind
<1> HIDE DEF sum
<1>3. \A x \in Id : Entries(sum, a)[x] = Entries(all, a)[x] + Entries(more, a)[x]
  <2> TAKE x \in Id
  <2> DEFINE n == MovedBy(all[x], x, a)
             m == MovedBy(more[x], x, a)
  <2>1. n \in Int /\ m \in Int /\ Amount[x] \in Int
    BY EntriesType, Parameters
  <2>2. /\ Entries(sum, a)[x] = Amount[x] * (n + m)
        /\ Entries(all, a)[x] = Amount[x] * n /\ Entries(more, a)[x] = Amount[x] * m
    BY <1>1, <1>2, EntriesType
  <2> HIDE DEF n, m
  <2> QED
    BY <2>1, <2>2
<1>4. \A x \in Id : Entries(all, a)[x] \in Int /\ Entries(more, a)[x] \in Int
  BY EntriesType
<1>5. Worth(sum, a) = Worth(all, a) + Worth(more, a)
  BY <1>3, <1>4, PaymentAssumption, SumAdds DEF Worth
<1> QED
  BY <1>1, <1>5 DEF sum

(* One more row: worth its amount on its account, and nothing on others.    *)
Sign(kind) == IF kind = "debit" THEN 1 ELSE -1
AccountOf(x, kind) == IF kind = "credit" THEN CreditAccount[x] ELSE DebitAccount[x]

LEMMA WorthOfOne ==
  ASSUME NEW all \in Rows, NEW x \in Id, NEW kind \in MoveKind, NEW a \in Account
  PROVE  LET one == [all EXCEPT ![x][kind] = @ + 1]
         IN /\ one \in Rows
            /\ Worth(one, a) = IF a = AccountOf(x, kind)
                               THEN IF kind = "debit" THEN Worth(all, a) + Amount[x] ELSE Worth(all, a) - Amount[x]
                               ELSE Worth(all, a)
<1> DEFINE one == [all EXCEPT ![x][kind] = @ + 1]
           n   == MovedBy(all[x], x, a)
           d   == IF a = AccountOf(x, kind) THEN Sign(kind) ELSE 0
<1>1. one \in Rows
  BY DEF Rows
<1>2. \A k \in MoveKind : /\ all[x][k] \in Nat
                          /\ one[x][k] = IF k = kind THEN all[x][k] + 1 ELSE all[x][k]
  BY DEF Rows
<1>3. \A y \in Id : y # x => one[y] = all[y]
  BY DEF Rows
<1>4. Amount[x] \in Int /\ n \in Int
  BY Parameters, EntriesType
<1> HIDE DEF one
<1>5. MovedBy(one[x], x, a) = n + d
  BY <1>2 DEF MovedBy, MoveKind, AccountOf, Sign
<1>6. d = 0 \/ d = 1 \/ d = -1
  BY DEF Sign
<1>7. Entries(one, a)[x] = Amount[x] * (n + d) /\ Entries(all, a)[x] = Amount[x] * n
  BY <1>1, <1>5, EntriesType
<1> HIDE DEF n
<1>8. Entries(one, a)[x] - Entries(all, a)[x] = IF d = 0 THEN 0 ELSE IF d = 1 THEN Amount[x] ELSE 0 - Amount[x]
  <2> HIDE DEF d
  <2> QED
    BY <1>4, <1>6, <1>7
<1>9. \A y \in Id : Entries(one, a)[y] \in Int /\ Entries(all, a)[y] \in Int
  BY <1>1, EntriesType
<1>10. \A y \in Id : x # y => Entries(all, a)[y] = Entries(one, a)[y]
  BY <1>1, <1>3, EntriesType
<1>11. Worth(one, a) = Worth(all, a) + Entries(one, a)[x] - Entries(all, a)[x]
  BY <1>9, <1>10, PaymentAssumption, SumOneChanged DEF Worth
<1>12. Worth(all, a) \in Int
  BY EntriesType
<1>13. Worth(one, a) = Worth(all, a) + (IF d = 0 THEN 0 ELSE IF d = 1 THEN Amount[x] ELSE 0 - Amount[x])
  <2> HIDE DEF d
  <2> QED
    BY <1>8, <1>9, <1>11, <1>12
<1> QED
  BY <1>1, <1>4, <1>12, <1>13 DEF one, Sign

LEMMA MadeAddsUp ==
  ASSUME NEW w \in Work, NEW v \in Work, v.pc = w.pc, v.batch = w.batch, AddsUp(w),
         NEW m \in Message, m \in w.batch, NEW x \in Id, NEW kind \in MoveKind,
         m.account = AccountOf(x, kind), Made(w, v, m, x, kind), position \in [Account -> Int]
  PROVE  AddsUp(v)
<1>1. CASE m.account = NoAccount
  BY <1>1 DEF Made, Kept, AddsUp
<1>2. CASE m.account # NoAccount
  <2> SUFFICES ASSUME w.pc \in {"bins", "commit"}, NEW a \in Account
               PROVE  IF a \in AccountIds(w.batch) THEN v.value[a] = position[a] + Worth(v.moved, a)
                      ELSE Worth(v.moved, a) = 0
    BY DEF AddsUp
  <2>1. w.moved \in Rows /\ w.value \in [Account -> Int]
    BY WorkType DEF Rows
  <2>2. IF a \in AccountIds(w.batch) THEN w.value[a] = position[a] + Worth(w.moved, a)
        ELSE Worth(w.moved, a) = 0
    BY DEF AddsUp
  <2>3. m.account \in Account /\ m.account \in AccountIds(w.batch)
    BY <1>2, MessageType DEF AccountIds
  <2>4. /\ v.value = [w.value EXCEPT ![m.account] = IF kind = "debit" THEN @ + Amount[x] ELSE @ - Amount[x]]
        /\ v.moved = [w.moved EXCEPT ![x][kind] = @ + 1]
    BY <1>2 DEF Made
  <2>5. Worth(v.moved, a) = IF a = m.account
                            THEN IF kind = "debit" THEN Worth(w.moved, a) + Amount[x] ELSE Worth(w.moved, a) - Amount[x]
                            ELSE Worth(w.moved, a)
    <3> DEFINE old == w.moved
               one == [old EXCEPT ![x][kind] = @ + 1]
    <3>1. old \in Rows /\ x \in Id /\ kind \in MoveKind /\ a \in Account
      BY <2>1
    <3>2. v.moved = one
      BY <2>4
    <3> HIDE DEF old
    <3>3. Worth(one, a) = IF a = AccountOf(x, kind)
                          THEN IF kind = "debit" THEN Worth(old, a) + Amount[x] ELSE Worth(old, a) - Amount[x]
                          ELSE Worth(old, a)
      BY <3>1, WorthOfOne
    <3> HIDE DEF one
    <3> QED
      BY <3>2, <3>3 DEF old
  <2>6. v.value[a] = IF a = m.account
                     THEN IF kind = "debit" THEN w.value[a] + Amount[x] ELSE w.value[a] - Amount[x]
                     ELSE w.value[a]
    BY <2>1, <2>3, <2>4
  <2>7. Worth(w.moved, a) \in Int /\ Amount[x] \in Int /\ w.value[a] \in Int /\ position[a] \in Int
    BY <2>1, EntriesType, Parameters
  <2> QED
    BY <2>2, <2>3, <2>5, <2>6, <2>7
<1> QED
  BY <1>1, <1>2

LEMMA EffectAddsUp ==
  ASSUME NEW w \in Work, NEW v, NEW m, Sound(m), m \in w.batch, Effect(w, v, m), AddsUp(w),
         position \in [Account -> Int]
  PROVE  AddsUp(v)
<1>1. v \in Work /\ v.pc = w.pc /\ v.batch = w.batch /\ m \in Message /\ m.id \in Id
  BY MessageType DEF Effect, Sound
<1>2. Kept(w, v) => AddsUp(v)
  BY <1>1 DEF Kept, AddsUp
<1>3. ASSUME NEW x \in Id, NEW kind \in MoveKind, m.account = AccountOf(x, kind), Made(w, v, m, x, kind)
      PROVE  AddsUp(v)
  BY <1>1, <1>3, MadeAddsUp
<1>4. {"debit", "credit", "refund"} \subseteq MoveKind
  BY DEF MoveKind
<1>5. CASE Declines(w, v, m)
  BY <1>2, <1>5 DEF Declines
<1>6. CASE Holds(w, v, m)
  <2>1. m.account = AccountOf(m.id, "debit") /\ Made(w, v, m, m.id, "debit")
    BY <1>6 DEF Holds, Sound, Own, AccountOf
  <2> QED
    BY <1>1, <1>3, <1>4, <2>1
<1>7. CASE Returns(w, v, m)
  <2>1. m.account = AccountOf(m.id, "refund") /\ Made(w, v, m, m.id, "refund")
    BY <1>7 DEF Returns, Sound, Own, AccountOf
  <2> QED
    BY <1>1, <1>3, <1>4, <2>1
<1>8. CASE Pays(w, v, m)
  <2>1. /\ NextMove(m) \in Id /\ m.account = AccountOf(NextMove(m), "credit")
        /\ Made(w, v, m, NextMove(m), "credit")
    BY <1>8, NextMoveType DEF Pays, Sound, KindOf, AccountFor, AccountOf
  <2> QED
    BY <1>3, <1>4, <2>1
<1>9. CASE GivesBack(w, v, m)
  <2>1. /\ NextMove(m) \in Id /\ m.account = AccountOf(NextMove(m), "refund")
        /\ Made(w, v, m, NextMove(m), "refund")
    <3>1. m.action # "commit"
      BY <1>9 DEF GivesBack, Aborts
    <3> QED
      BY <1>9, <3>1, NextMoveType DEF GivesBack, Sound, KindOf, AccountFor, AccountOf
  <2> QED
    BY <1>3, <1>4, <2>1
<1> QED
  BY <1>5, <1>6, <1>7, <1>8, <1>9 DEF Effect

LEMMA BooksInvInit == Init => BooksInv
<1> SUFFICES ASSUME Init PROVE BooksInv
  OBVIOUS
<1>1. moved = [x \in Id |-> NoMoves] /\ \A a \in Account : position[a] = 0
  BY DEF Init, BatchInit
<1>2. \A c \in Consumer : work[c].pc = "idle"
  BY DEF Init, BatchInit, Idle
<1> QED
  BY <1>1, <1>2, NothingMoved DEF BooksInv, AddsUp

LEMMA BooksKept ==
  ASSUME BooksInv, position' = position, moved' = moved, NEW c,
         \A d \in Consumer : d # c => work'[d] = work[d],
         AddsUp(work'[c]) \/ c \notin Consumer
  PROVE  BooksInv'
<1>1. \A a \in Account : position'[a] = Worth(moved', a)
  BY DEF BooksInv
<1>2. \A d \in Consumer : AddsUp(work'[d])
  BY DEF BooksInv
<1> QED
  BY <1>1, <1>2 DEF BooksInv, AddsUp

LEMMA ItemAddsUp ==
  ASSUME BatchInv, BooksInv, NEW c \in Consumer, Item(c)
  PROVE  BooksInv'
<1>1. /\ work \in [Consumer -> Work] /\ work[c] \in Work /\ position \in [Account -> Int]
      /\ WorkSound(work[c], unacked[c], c) /\ AddsUp(work[c])
  BY DEF BatchInv, TypeOK, BatchTypeOK, BooksInv
<1>2. \A m \in work[c].todo : Sound(m) /\ m \in work[c].batch
  BY <1>1 DEF WorkSound
<1>3. Rollback(c) \/ \E m \in work[c].todo : Worked(c, m)
  BY <1>1, <1>2, ItemIs
<1>4. CASE Rollback(c)
  <2>1. position' = position /\ moved' = moved /\ work' = [work EXCEPT ![c] = Idle]
    BY <1>4 DEF Rollback, database
  <2>2. work'[c] = Idle /\ \A d \in Consumer : d # c => work'[d] = work[d]
    BY <1>1, <2>1
  <2>3. AddsUp(work'[c])
    BY <2>2 DEF AddsUp, Idle
  <2> QED
    BY <2>1, <2>2, <2>3, BooksKept
<1>5. ASSUME NEW m \in work[c].todo, Worked(c, m)
      PROVE  BooksInv'
  <2>1. PICK v : Effect(work[c], v, m) /\ Done(c, m, v)
    BY <1>5 DEF Worked
  <2>2. AddsUp(v) /\ v \in Work
    BY <1>1, <1>2, <2>1, EffectAddsUp DEF Effect
  <2> DEFINE u == [v EXCEPT !.todo = @ \ {m}]
  <2>3. position' = position /\ moved' = moved /\ work' = [work EXCEPT ![c] = u]
    BY <2>1 DEF Done, database
  <2>4. u.pc = v.pc /\ u.batch = v.batch /\ u.value = v.value /\ u.moved = v.moved
    BY <2>2 DEF Work
  <2> HIDE DEF u
  <2>5. work'[c] = u /\ \A d \in Consumer : d # c => work'[d] = work[d]
    BY <1>1, <2>3
  <2>6. AddsUp(work'[c])
    BY <2>2, <2>4, <2>5 DEF AddsUp
  <2> QED
    BY <2>3, <2>5, <2>6, BooksKept
<1> QED
  BY <1>3, <1>4, <1>5

LEMMA PollAddsUp ==
  ASSUME BatchInv, BooksInv, NEW c \in Consumer, Poll(c)
  PROVE  BooksInv'
<1>1. work \in [Consumer -> Work] /\ position \in [Account -> Int]
  BY DEF BatchInv, TypeOK, BatchTypeOK
<1>2. PICK b : work' = [work EXCEPT ![c] = Begin(b)] /\ position' = position /\ moved' = moved
  BY DEF Poll, database
<1> DEFINE w == Begin(b)
<1>3. /\ w.batch = b /\ w.value = LockedPositions(AccountIds(b)) /\ w.moved = [x \in Id |-> NoMoves]
  BY DEF Begin, Idle
<1> HIDE DEF w
<1>4. work'[c] = w /\ \A d \in Consumer : d # c => work'[d] = work[d]
  BY <1>1, <1>2 DEF w
<1>5. AddsUp(w)
  BY <1>1, <1>3, NothingMoved DEF AddsUp, LockedPositions
<1> QED
  BY <1>2, <1>4, <1>5, BooksKept

LEMMA CommitTrxAddsUp ==
  ASSUME BatchInv, BooksInv, NEW c \in Consumer, CommitTrx(c)
  PROVE  BooksInv'
<1> DEFINE w == work[c]
<1>1. /\ work \in [Consumer -> Work] /\ position \in [Account -> Int] /\ moved \in Rows
      /\ w \in Work /\ w.pc = "commit" /\ AddsUp(w)
      /\ \A d \in Consumer : WorkSound(work[d], unacked[d], d) /\ AddsUp(work[d])
  BY DEF BatchInv, TypeOK, BatchTypeOK, CommitTrx, Rows, BooksInv
<1>2. /\ position' = UpdatedPositions(w) /\ moved' = InsertedMoves(w)
      /\ work' = [work EXCEPT ![c].pc = "produce"]
  BY DEF CommitTrx
<1>3. w.moved \in Rows /\ w.value \in [Account -> Int]
  BY <1>1, WorkType DEF Rows
<1>4. \A d \in Consumer : d # c => work'[d] = work[d]
  BY <1>1, <1>2
<1>5. work'[c].pc = "produce"
  BY <1>1, <1>2 DEF Work
<1> HIDE DEF w
<1>6. \A a \in Account : Worth(moved', a) = Worth(moved, a) + Worth(w.moved, a)
  BY <1>1, <1>2, <1>3, WorthAdds DEF InsertedMoves
<1>7. \A a \in Account : position'[a] = IF a \in AccountIds(w.batch) THEN w.value[a] ELSE position[a]
  BY <1>2 DEF UpdatedPositions
<1>8. \A a \in Account : position'[a] = Worth(moved', a)
  <2> TAKE a \in Account
  <2>1. IF a \in AccountIds(w.batch) THEN w.value[a] = position[a] + Worth(w.moved, a) ELSE Worth(w.moved, a) = 0
    BY <1>1 DEF AddsUp
  <2>2. position[a] = Worth(moved, a) /\ Worth(moved, a) \in Int /\ Worth(w.moved, a) \in Int
    BY <1>1, <1>3, EntriesType DEF BooksInv
  <2> QED
    BY <1>6, <1>7, <2>1, <2>2
<1>9. ASSUME NEW d \in Consumer, d # c, NEW a \in Account, a \in AccountIds(work[d].batch)
      PROVE  position'[a] = position[a]
  <2>1. ConsumerOf[a] = d
    BY <1>1, <1>9 DEF AccountIds, WorkSound
  <2>2. a \in AccountIds(w.batch) => ConsumerOf[a] = c
    BY <1>1 DEF AccountIds, WorkSound, w
  <2> QED
    BY <1>7, <1>9, <2>1, <2>2
<1>10. ASSUME NEW d \in Consumer PROVE AddsUp(work[d])'
  <2>1. CASE d = c
    BY <1>5, <2>1 DEF AddsUp
  <2>2. CASE d # c
    BY <1>1, <1>4, <1>9, <2>2 DEF AddsUp, AccountIds
  <2> QED
    BY <2>1, <2>2
<1> QED
  BY <1>8, <1>10 DEF BooksInv

LEMMA BooksInvNext == BatchInv /\ BooksInv /\ [Next]_vars => BooksInv'
<1> SUFFICES ASSUME BatchInv, BooksInv, [Next]_vars PROVE BooksInv'
  OBVIOUS
<1>1. ASSUME position' = position, moved' = moved, work' = work PROVE BooksInv'
  BY <1>1 DEF BooksInv, AddsUp
<1>2. ASSUME NEW c \in Consumer, position' = position, moved' = moved, work' = [work EXCEPT ![c] = Idle]
      PROVE  BooksInv'
  <2>1. work'[c] = Idle /\ \A d \in Consumer : d # c => work'[d] = work[d]
    BY <1>2 DEF BatchInv, TypeOK, BatchTypeOK
  <2>2. AddsUp(work'[c])
    BY <2>1 DEF AddsUp, Idle
  <2> QED
    BY <1>2, <2>1, <2>2, BooksKept
<1>3. CASE UNCHANGED vars
  BY <1>1, <1>3 DEF vars, batchVars, database
<1>4. ASSUME NEW c \in Conversion, RequestConversion(c) \/ AcceptConversion(c) \/ RefuseConversion(c)
      PROVE  BooksInv'
  BY <1>1, <1>4 DEF RequestConversion, AcceptConversion, RefuseConversion, HandlersStay
<1>5. ASSUME NEW t \in Transfer, RequestTransfer(t) \/ AcceptTransfer(t) \/ RefuseTransfer(t)
      PROVE  BooksInv'
  BY <1>1, <1>5 DEF RequestTransfer, AcceptTransfer, RefuseTransfer, HandlersStay
<1>6. ASSUME NEW x \in Id, Expire(x) PROVE BooksInv'
  BY <1>1, <1>6 DEF Expire, batchVars, database
<1>7. CASE Sweep
  BY <1>1, <1>7 DEF Sweep, HandlersStay
<1>8. ASSUME NEW c \in Consumer, CommitOffset(c) PROVE BooksInv'
  <2> DEFINE w == work[c]
             v == [w EXCEPT !.pc = "commit", !.bin = NoBin, !.base = 0,
                            !.latest = NoStates, !.seen = NoStates, !.left = NoStates]
  <2>1. position' = position /\ moved' = moved /\ work' = [work EXCEPT ![c] = v] /\ w.pc = "bins"
    BY <1>8 DEF CommitOffset, database
  <2>2. work \in [Consumer -> Work] /\ w \in Work /\ AddsUp(w)
    BY DEF BatchInv, TypeOK, BatchTypeOK, BooksInv
  <2> HIDE DEF w
  <2>3. v.batch = w.batch /\ v.value = w.value /\ v.moved = w.moved
    BY <2>2 DEF Work
  <2> HIDE DEF v
  <2>4. work'[c] = v /\ \A d \in Consumer : d # c => work'[d] = work[d]
    BY <2>1, <2>2
  <2>5. AddsUp(work'[c])
    BY <2>1, <2>2, <2>3, <2>4 DEF AddsUp
  <2> QED
    BY <2>1, <2>4, <2>5, BooksKept
<1>9. ASSUME NEW c \in Consumer, Produce(c) PROVE BooksInv'
  BY <1>2, <1>9 DEF Produce, database
<1>10. ASSUME NEW c \in Consumer, CrashBatch(c) PROVE BooksInv'
  BY <1>2, <1>10 DEF CrashBatch, database
<1>11. ASSUME NEW c \in Consumer, Poll(c) \/ Item(c) \/ CommitTrx(c) PROVE BooksInv'
  BY <1>11, PollAddsUp, ItemAddsUp, CommitTrxAddsUp
<1> QED
  BY <1>3, <1>4, <1>5, <1>6, <1>7, <1>8, <1>9, <1>10, <1>11, Steps

(* Bins and batches lose none of each other's changes: an account's position *)
(* is the sum of the participantPositionChange rows made on it, for any      *)
(* number of handlers, transfers and conversions, whatever crashes or is     *)
(* rolled back.                                                             *)
THEOREM PositionsAddUp == Spec => []StatementsAddUp
<1>1. Init => BatchInv /\ BooksInv
  BY BatchInvInit, BooksInvInit
<1>2. BatchInv /\ BooksInv /\ [Next]_vars => (BatchInv /\ BooksInv)'
  BY BatchInvNext, BooksInvNext
<1>3. BooksInv => StatementsAddUp
  BY DEF BooksInv, Worth, Entries, MovedBy, StatementsAddUp, Moved, Taken, Returned, Paid
<1> QED
  BY <1>1, <1>2, <1>3, PTL DEF Spec

(***************************************************************************)
(* What participants are told.  The one message that reserves x, and the   *)
(* one that pays it: each is in one place at a time until its movement is   *)
(* made, and then nowhere.                                                  *)
(***************************************************************************)
TransferOf(x) == IF x \in Transfer THEN x ELSE Determining[x]
IsSecond(x)   == x \in Transfer /\ ConversionsOf(x) # {}
Asking(x) == Ask(x, IF x \in Transfer THEN "prepare" ELSE "fxPrepare", DebitAccount[x])
Paying(x) ==
  [id |-> TransferOf(x), action |-> "commit", account |-> CreditAccount[x],
   plan |-> ProcessFulfil(TransferOf(x)).plan, done |-> IF IsSecond(x) THEN 1 ELSE 0,
   unmoved |-> ProcessFulfil(TransferOf(x)).unmoved]

IsPaid(x) == CreditAccount[x] # NoAccount

(* A commit is one of these; an abort gives back, with what it tells of,    *)
(* what was reserved for that.                                              *)
Token(m) ==
  /\ m.action = "commit" => IsPaid(NextMove(m)) /\ m = Paying(NextMove(m))
  /\ m.action \in {"prepare", "fxPrepare"} => m = Asking(m.id)
  /\ m.action \in Aborts =>
       /\ NextMove(m) \in Transfer => IsLast(m)
       /\ \A y \in NotifiedOf(m) : \A x \in {y} \union ConversionsOf(y) :
            x \in Range(m.plan) \/ DebitAccount[x] = NoAccount

HandlerOf(m) == ConsumerOf[m.account]
Open(c)      == work[c].pc \in {"bins", "commit"}
Coming(m)    == \/ m \in pending \/ m \in unacked[HandlerOf(m)]
                \/ Open(HandlerOf(m)) /\ m \in work[HandlerOf(m)].batch
Followed(m)  == \E d \in Consumer : m \in work[d].followUps

Once(m, x, k) ==
  /\ ~(m \in pending /\ m \in unacked[HandlerOf(m)])
  /\ Open(HandlerOf(m)) /\ m \in work[HandlerOf(m)].batch => m \notin pending /\ m \notin unacked[HandlerOf(m)]
  /\ Followed(m) => ~Coming(m)
  /\ \A d, e \in Consumer : m \in work[d].followUps /\ m \in work[e].followUps => d = e
  /\ Coming(m) \/ Followed(m) => moved[x][k] = 0
  /\ moved[x][k] \in {0, 1}
  /\ \A d \in Consumer : Open(d) =>
       /\ work[d].moved[x][k] \in {0, 1}
       /\ work[d].moved[x][k] = 1 =>
            d = HandlerOf(m) /\ m \in work[d].batch /\ m \notin work[d].todo /\ moved[x][k] = 0
Nowhere(m, x, k) == ~Coming(m) /\ ~Followed(m) /\ moved[x][k] = 0

(* What the rows are for those a consumer's batch speaks to.                *)
RowsOf(d) == IF Open(d) THEN InsertedMoves(work[d]) ELSE moved

(* The payee's message follows the one that pays the FX provider.           *)
Chain(m, x, y) ==
  /\ Coming(m) \/ moved[x]["credit"] # 0 => moved[y]["credit"] # 0
  /\ \A d \in Consumer : m \in work[d].followUps => RowsOf(d)[y]["credit"] # 0

TokenInv ==
  /\ \A m \in pending : Token(m)
  /\ \A c \in Consumer : \A m \in unacked[c] \union work[c].batch : Token(m)
  /\ \A c \in Consumer : \A m \in work[c].followUps : Token(m) /\ m.done = 1
DebitInv ==
  \A x \in Id : /\ Once(Asking(x), x, "debit")
                /\ state[x] = "none" => Nowhere(Asking(x), x, "debit")
                /\ DebitAccount[x] = NoAccount =>
                     moved[x]["debit"] = 0 /\ \A d \in Consumer : work[d].moved[x]["debit"] = 0
CreditInv ==
  /\ \A x \in Id : IsPaid(x) =>
       /\ Once(Paying(x), x, "credit")
       /\ ~IsSecond(x) /\ "accept" \notin answers[TransferOf(x)] => Nowhere(Paying(x), x, "credit")
  /\ \A x \in Transfer : IsPaid(x) => \A y \in ConversionsOf(x) : Chain(Paying(x), x, y)

(* What is told is what the rows say.                                       *)
PaidIn(x, rows)  == IsPaid(x) => rows[x]["credit"] # 0
GivenIn(x, rows) == DebitAccount[x] # NoAccount => rows[x]["refund"] # 0
TellsTrue(told, rows) ==
  /\ \A t \in Transfer : \A x \in {t} \union ConversionsOf(t) :
       /\ "committed" \in told[t] => PaidIn(x, rows)
       /\ "aborted" \in told[t] => GivenIn(x, rows)
  /\ \A x \in Id : /\ x \in Conversion /\ "committed" \in told[x] => PaidIn(x, rows)
                   /\ {"aborted", "timedOut"} \intersect told[x] # {} => GivenIn(x, rows)

(* A state that is stored, taken for a notice.                              *)
Meaning(s) == CASE s = "COMMITTED"        -> {"committed"}
                [] s = "ABORTED_ERROR"    -> {"aborted"}
                [] s = "EXPIRED_RESERVED" -> {"timedOut"}
                [] OTHER                  -> {}
Said(states) == [x \in Id |-> Meaning(states[x])]

(* The second movement of an abort comes after the first.                   *)
FirstIn(m, rows) == m.action \in Aborts /\ m.done = 1 => GivenIn(m.plan[1], rows)

ToldInv ==
  /\ TellsTrue(notified, moved)
  /\ \A d \in Consumer : TellsTrue(work[d].notices, RowsOf(d))
  /\ \A m \in pending : FirstIn(m, moved)
  /\ \A d \in Consumer : /\ \A m \in unacked[d] \union work[d].batch : FirstIn(m, moved)
                         /\ \A m \in work[d].followUps : FirstIn(m, RowsOf(d))

(* The message that pays x moves x, and is made from the transfer's plan.   *)
LEMMA PlanOfTransfer ==
  ASSUME NEW t \in Transfer
  PROVE  /\ ConversionsOf(t) = {} => IsPaid(t) /\ ProcessFulfil(t).plan = <<t>>
         /\ \A c \in ConversionsOf(t) : ProcessFulfil(t).plan = IF IsPaid(t) THEN <<c, t>> ELSE <<c>>
<1> DEFINE paid(xs) == {x \in xs : CreditAccount[x] # NoAccount}
<1>1. ProcessFulfil(t).plan = PositionChanges(paid(ConversionsOf(t)), paid({t}))
  BY DEF ProcessFulfil
<1>2. paid({t}) = IF IsPaid(t) THEN {t} ELSE {}
  BY DEF IsPaid
<1>3. t \in Id /\ {t} \in SUBSET Id /\ {} \in SUBSET Id
  BY DEF Id
<1>4. CASE ConversionsOf(t) = {}
  <2>1. CreditAccount[t] # NoAccount
    BY <1>4, DeterminingAssumption DEF ConversionsOf
  <2>2. paid(ConversionsOf(t)) = {} /\ paid({t}) = {t}
    BY <1>2, <1>4, <2>1 DEF IsPaid
  <2> HIDE DEF paid
  <2>3. PositionChanges({}, {t}) = <<t>>
    BY <1>3, PositionChangesAre
  <2> QED
    BY <1>1, <1>4, <2>1, <2>2, <2>3 DEF IsPaid
<1>5. ASSUME NEW c \in ConversionsOf(t)
      PROVE  ProcessFulfil(t).plan = IF IsPaid(t) THEN <<c, t>> ELSE <<c>>
  <2>1. c \in Conversion /\ c \in Id /\ ConversionsOf(t) = {c} /\ CreditAccount[c] # NoAccount
    BY TheConversion DEF Id
  <2>2. paid(ConversionsOf(t)) = {c} /\ {c} \in SUBSET Id
    BY <2>1
  <2> HIDE DEF paid
  <2>3. PositionChanges({c}, {t}) = <<c, t>> /\ PositionChanges({c}, {}) = <<c>>
    BY <1>3, <2>1, PositionChangesAre
  <2> QED
    BY <1>1, <1>2, <2>2, <2>3
<1> QED
  BY <1>4, <1>5

LEMMA TransferOfType ==
  ASSUME NEW x \in Id
  PROVE  /\ TransferOf(x) \in Transfer /\ x \in {TransferOf(x)} \union ConversionsOf(TransferOf(x))
         /\ x \notin Transfer => x \in Conversion /\ x \in ConversionsOf(TransferOf(x))
BY DeterminedBy DEF TransferOf, Id

LEMMA PayingIs ==
  ASSUME NEW x \in Id, IsPaid(x)
  PROVE  /\ Paying(x).id = TransferOf(x) /\ Paying(x).action = "commit"
         /\ Paying(x).account = CreditAccount[x] /\ Paying(x).plan = ProcessFulfil(TransferOf(x)).plan
         /\ Paying(x).done = (IF IsSecond(x) THEN 1 ELSE 0)
         /\ Paying(x).unmoved = ProcessFulfil(TransferOf(x)).unmoved
         /\ NextMove(Paying(x)) = x
         /\ HandlerOf(Paying(x)) \in Consumer
<1> DEFINE t == TransferOf(x)
           m == Paying(x)
<1>1. /\ m.id = t /\ m.action = "commit" /\ m.account = CreditAccount[x]
      /\ m.plan = ProcessFulfil(t).plan /\ m.done = (IF IsSecond(x) THEN 1 ELSE 0)
      /\ m.unmoved = ProcessFulfil(t).unmoved
  BY DEF Paying
<1>2. t \in Transfer /\ (x \notin Transfer => x \in ConversionsOf(t)) /\ (x \in Transfer => t = x)
  BY TransferOfType DEF TransferOf
<1>3. /\ ConversionsOf(t) = {} => ProcessFulfil(t).plan = <<t>>
      /\ \A c \in ConversionsOf(t) : ProcessFulfil(t).plan = IF IsPaid(t) THEN <<c, t>> ELSE <<c>>
  BY <1>2, PlanOfTransfer
<1> HIDE DEF m
<1>4. NextMove(m) = x
  <2>1. CASE x \notin Transfer
    <3>2. m.plan = <<x, t>> \/ m.plan = <<x>>
      BY <1>1, <1>2, <1>3, <2>1
    <3> HIDE DEF t
    <3>3. m.plan[1] = x
      BY <3>2
    <3>1. m.done = 0 /\ m.plan[1] = x
      BY <1>1, <2>1, <3>3 DEF IsSecond
    <3> QED
      BY <3>1 DEF NextMove
  <2>2. CASE x \in Transfer /\ ConversionsOf(x) = {}
    <3>1. m.done = 0 /\ m.plan[1] = x
      BY <1>1, <1>2, <1>3, <2>2 DEF IsSecond
    <3> QED
      BY <3>1 DEF NextMove
  <2>3. CASE x \in Transfer /\ ConversionsOf(x) # {}
    <3>1. PICK c \in ConversionsOf(x) : TRUE
      BY <2>3
    <3>2. m.done = 1 /\ m.plan = <<c, x>>
      BY <1>1, <1>2, <1>3, <2>3, <3>1 DEF IsSecond
    <3> QED
      BY <3>2 DEF NextMove
  <2> QED
    BY <2>1, <2>2, <2>3
<1>5. HandlerOf(m) \in Consumer
  BY <1>1, Parameters, ConsumerAssumption DEF HandlerOf
<1> QED
  BY <1>1, <1>4, <1>5 DEF m

LEMMA AskingIs ==
  ASSUME NEW x \in Id
  PROVE  /\ Asking(x).id = x /\ Asking(x).done = 0 /\ HandlerOf(Asking(x)) \in Consumer
         /\ Asking(x).action = IF x \in Transfer THEN "prepare" ELSE "fxPrepare"
BY Parameters, ConsumerAssumption DEF Asking, Ask, HandlerOf

(* The message that follows the one that pays the FX provider.              *)
LEMMA PayingFollows ==
  ASSUME NEW m \in Message, NEW y \in Id, IsPaid(y), m = Paying(y), ~IsLast(m)
  PROVE  LET t == TransferOf(y)
         IN /\ IsPaid(t) /\ IsSecond(t) /\ y \in ConversionsOf(t) /\ Following(m) = Paying(t)
            /\ ~IsSecond(y)
<1> DEFINE t == TransferOf(y)
<1>1. /\ m.id = t /\ m.plan = ProcessFulfil(t).plan /\ m.done = (IF IsSecond(y) THEN 1 ELSE 0)
      /\ m.action = "commit" /\ m.account = CreditAccount[y] /\ m.unmoved = ProcessFulfil(t).unmoved
  BY PayingIs
<1>2. t \in Transfer /\ t \in Id /\ (y \notin Transfer => y \in ConversionsOf(t)) /\ (y \in Transfer => t = y)
  BY TransferOfType DEF TransferOf, Id
<1>3. PICK c \in ConversionsOf(t) : IsPaid(t) /\ m.plan = <<c, t>> /\ m.done = 0
  <2>2. ConversionsOf(t) # {}
    <3>1. SUFFICES ASSUME ConversionsOf(t) = {} PROVE FALSE
      OBVIOUS
    <3>2. m.plan = <<t>> /\ m.done = 0
      BY <1>1, <1>2, <3>1, PlanOfTransfer DEF IsSecond
    <3> QED
      BY <3>2 DEF IsLast
  <2>3. PICK c \in ConversionsOf(t) : TRUE
    BY <2>2
  <2>4. m.plan = IF IsPaid(t) THEN <<c, t>> ELSE <<c>>
    BY <1>1, <1>2, <2>3, PlanOfTransfer
  <2>5. CASE y \in Transfer
    <3>1. m.done = 1 /\ m.plan = <<c, t>>
      BY <1>1, <1>2, <2>2, <2>4, <2>5 DEF IsSecond
    <3> QED
      BY <3>1 DEF IsLast
  <2>6. CASE y \notin Transfer
    <3>1. m.done = 0
      BY <1>1, <2>6 DEF IsSecond
    <3>2. m.plan = <<c>> => IsLast(m)
      BY <3>1 DEF IsLast
    <3> QED
      BY <2>3, <2>4, <3>1, <3>2
  <2> QED
    BY <2>5, <2>6
<1>4. IsSecond(t) /\ ~IsSecond(y) /\ y \in ConversionsOf(t)
  <2>1. m.done # 1
    BY <1>3
  <2>2. ~IsSecond(y)
    BY <1>1, <2>1
  <2>3. IsSecond(t)
    BY <1>2, <1>3 DEF IsSecond
  <2> QED
    BY <1>2, <2>2, <2>3
<1>5. Following(m) = Paying(t)
  <2> DEFINE p == ProcessFulfil(t).plan
             u == ProcessFulfil(t).unmoved
  <2>1. m.plan[m.done + 2] = t /\ KindOf(m) = "credit"
    BY <1>1, <1>3 DEF KindOf
  <2>2. Following(m) = [m EXCEPT !.done = 1, !.account = CreditAccount[t]]
    BY <1>3, <2>1 DEF Following, AccountFor, Message
  <2> HIDE DEF p, u, t
  <2>3. m = [id |-> t, action |-> "commit", account |-> CreditAccount[y], plan |-> p, done |-> 0, unmoved |-> u]
    BY <1>1, <1>3, <1>4 DEF Paying, p, u, t
  <2>4. Paying(t) = [id |-> t, action |-> "commit", account |-> CreditAccount[t], plan |-> p, done |-> 1, unmoved |-> u]
    BY <1>2, <1>4 DEF Paying, TransferOf, p, u, t
  <2> DEFINE a == CreditAccount[t]
             d == [m EXCEPT !.done = 1]
             r == [id |-> t, action |-> "commit", account |-> CreditAccount[y], plan |-> p, done |-> 1, unmoved |-> u]
  <2>5. d = r
    BY <2>3
  <2>6. Following(m) = [d EXCEPT !.account = a]
    BY <2>2 DEF Message
  <2> HIDE DEF d, a
  <2>7. [r EXCEPT !.account = a]
          = [id |-> t, action |-> "commit", account |-> a, plan |-> p, done |-> 1, unmoved |-> u]
    OBVIOUS
  <2>8. Paying(t) = [id |-> t, action |-> "commit", account |-> a, plan |-> p, done |-> 1, unmoved |-> u]
    BY <2>4 DEF a
  <2> QED
    BY <2>5, <2>6, <2>7, <2>8
<1> QED
  BY <1>3, <1>4, <1>5

(***************************************************************************)
(* What each step of a consumer does to the messages, the rows and the     *)
(* notices, the others' left alone.                                         *)
(***************************************************************************)
Alone(c)  == \A d \in Consumer : d # c => work'[d] = work[d] /\ unacked'[d] = unacked[d]
Ending(c) == /\ work'[c].pc = "idle" /\ work'[c].batch = {} /\ work'[c].followUps = {}
             /\ \A x \in Id : /\ work'[c].notices[x] = {} /\ work'[c].rows[x] = "none"
                             /\ \A k \in MoveKind : work'[c].moved[x][k] = 0
SameBatch(c) == /\ work'[c].batch = work[c].batch /\ work'[c].todo = work[c].todo
                /\ work'[c].followUps = work[c].followUps /\ work'[c].notices = work[c].notices
                /\ work'[c].moved = work[c].moved /\ work'[c].rows = work[c].rows
RowsStay  == moved' = moved /\ notified' = notified

Taking(c, b) ==
  /\ Alone(c) /\ RowsStay
  /\ work[c].pc = "idle" /\ work'[c].pc = "bins"
  /\ b \subseteq pending /\ pending' = pending \ b /\ unacked'[c] = unacked[c]
  /\ \A m \in b : HandlerOf(m) = c
  /\ work'[c].batch = b /\ work'[c].todo = b /\ work'[c].followUps = {}
  /\ \A x \in Id : work'[c].notices[x] = {} /\ \A k \in MoveKind : work'[c].moved[x][k] = 0
GivingUp(c) ==
  /\ Alone(c) /\ RowsStay /\ Ending(c)
  /\ work[c].pc = "bins" /\ pending' = pending /\ unacked'[c] = unacked[c] \union work[c].batch
Working(c, m, v) ==
  /\ Alone(c) /\ RowsStay
  /\ work[c].pc = "bins" /\ work'[c].pc = "bins" /\ pending' = pending /\ unacked'[c] = unacked[c]
  /\ m \in work[c].todo /\ m \in work[c].batch /\ Effect(work[c], v, m)
  /\ work'[c].batch = work[c].batch /\ work'[c].todo = work[c].todo \ {m}
  /\ work'[c].followUps = v.followUps /\ work'[c].notices = v.notices /\ work'[c].moved = v.moved
  /\ work'[c].rows = v.rows
CommittingOffset(c) ==
  /\ Alone(c) /\ RowsStay /\ SameBatch(c)
  /\ work[c].pc = "bins" /\ work'[c].pc = "commit" /\ pending' = pending /\ unacked'[c] = {}
CommittingTrx(c) ==
  /\ Alone(c) /\ SameBatch(c) /\ notified' = notified /\ moved' = InsertedMoves(work[c])
  /\ work[c].pc = "commit" /\ work'[c].pc = "produce" /\ pending' = pending /\ unacked'[c] = unacked[c]
Producing(c) ==
  /\ Alone(c) /\ Ending(c) /\ moved' = moved
  /\ notified' = [x \in Id |-> notified[x] \union work[c].notices[x]]
  /\ work[c].pc = "produce" /\ pending' = pending \union work[c].followUps /\ unacked'[c] = unacked[c]
Crashing(c) ==
  /\ Alone(c) /\ RowsStay /\ Ending(c)
  /\ \E sent \in {{}, IF work[c].pc = "produce" THEN work[c].followUps ELSE {}} :
       pending' = pending \union ReadAgain(work[c]) \union unacked[c] \union sent
  /\ unacked'[c] = {}

LEMMA PollDoes ==
  ASSUME BatchInv, NEW c \in Consumer, Poll(c)
  PROVE  \E b : Taking(c, b)
<1>1. PICK b \in SUBSET {m \in pending : ConsumerOf[m.account] = c} :
             pending' = pending \ b /\ work' = [work EXCEPT ![c] = Begin(b)]
  BY DEF Poll
<1>2. UNCHANGED <<state, position, moved, unacked, notified, crashes>> /\ work[c].pc = "idle"
  BY DEF Poll, database
<1>3. b \in SUBSET Message /\ \A m \in b : ConsumerOf[m.account] = c
  BY <1>1 DEF BatchInv, TypeOK, BatchTypeOK
<1>4. /\ Begin(b) \in Work /\ Begin(b).pc = "bins" /\ Begin(b).batch = b /\ Begin(b).todo = b
      /\ Begin(b).followUps = {} /\ Begin(b).moved = [x \in Id |-> NoMoves]
      /\ Begin(b).notices = [x \in Id |-> {}]
  BY <1>3, BeginType
<1>5. work'[c] = Begin(b) /\ Alone(c)
  BY <1>1, <1>2, <1>4, OthersAlike DEF Alone
<1> QED
  BY <1>1, <1>2, <1>3, <1>4, <1>5 DEF Taking, RowsStay, HandlerOf, NoMoves

LEMMA IdleEnds ==
  ASSUME BatchInv, NEW c \in Consumer, work' = [work EXCEPT ![c] = Idle],
         unacked' = unacked \/ \E u : unacked' = [unacked EXCEPT ![c] = u]
  PROVE  Alone(c) /\ Ending(c)
<1>1. work'[c] = Idle /\ \A d \in Consumer : d # c => work'[d] = work[d]
  BY IdleType, OthersAlike
<1>2. \A d \in Consumer : d # c => unacked'[d] = unacked[d]
  BY DEF BatchInv, TypeOK, BatchTypeOK
<1> QED
  BY <1>1, <1>2 DEF Alone, Ending, Idle, NoMoves, NoStates

LEMMA RollbackDoes ==
  ASSUME BatchInv, NEW c \in Consumer, work[c].pc = "bins", Rollback(c)
  PROVE  GivingUp(c)
<1>1. /\ UNCHANGED <<moved, pending, notified>> /\ work' = [work EXCEPT ![c] = Idle]
      /\ unacked' = [unacked EXCEPT ![c] = @ \union work[c].batch]
  BY DEF Rollback, database
<1>2. Alone(c) /\ Ending(c)
  BY <1>1, IdleEnds
<1>3. unacked'[c] = unacked[c] \union work[c].batch
  BY <1>1 DEF BatchInv, TypeOK, BatchTypeOK
<1> QED
  BY <1>1, <1>2, <1>3 DEF GivingUp, RowsStay

LEMMA WorkedDoes ==
  ASSUME BatchInv, NEW c \in Consumer, work[c].pc = "bins", NEW m \in work[c].todo, Worked(c, m)
  PROVE  \E v : Working(c, m, v)
<1>1. PICK v : Effect(work[c], v, m) /\ Done(c, m, v)
  BY DEF Worked
<1> DEFINE u == [v EXCEPT !.todo = @ \ {m}]
<1>2. v \in Work /\ v.pc = work[c].pc /\ v.batch = work[c].batch /\ v.todo = work[c].todo
  BY <1>1 DEF Effect
<1>3. UNCHANGED <<moved, pending, unacked, notified>> /\ work' = [work EXCEPT ![c] = u]
  BY <1>1 DEF Done, database
<1>4. /\ u.pc = v.pc /\ u.batch = v.batch /\ u.todo = v.todo \ {m}
      /\ u.followUps = v.followUps /\ u.notices = v.notices /\ u.moved = v.moved /\ u.rows = v.rows
  BY <1>2 DEF Work
<1> HIDE DEF u
<1>5. work'[c] = u /\ Alone(c) /\ m \in work[c].batch
  BY <1>3 DEF Alone, BatchInv, TypeOK, BatchTypeOK, WorkSound
<1>6. Working(c, m, v)
  BY <1>1, <1>2, <1>3, <1>4, <1>5 DEF Working, RowsStay
<1> QED
  BY <1>6

LEMMA ItemDoes ==
  ASSUME BatchInv, NEW c \in Consumer, Item(c)
  PROVE  GivingUp(c) \/ \E m, v : Working(c, m, v)
<1>1. work[c] \in Work /\ \A m \in work[c].todo : Sound(m)
  BY DEF BatchInv, TypeOK, BatchTypeOK, WorkSound
<1>2. work[c].pc = "bins" /\ (Rollback(c) \/ \E m \in work[c].todo : Worked(c, m))
  BY <1>1, ItemIs
<1> QED
  BY <1>2, RollbackDoes, WorkedDoes

LEMMA CommitOffsetDoes ==
  ASSUME BatchInv, NEW c \in Consumer, CommitOffset(c)
  PROVE  CommittingOffset(c)
<1> DEFINE w == work[c]
           v == [w EXCEPT !.pc = "commit", !.bin = NoBin, !.base = 0,
                          !.latest = NoStates, !.seen = NoStates, !.left = NoStates]
<1>1. /\ UNCHANGED <<moved, pending, notified>> /\ w.pc = "bins"
      /\ unacked' = [unacked EXCEPT ![c] = {}] /\ work' = [work EXCEPT ![c] = v]
  BY DEF CommitOffset, database
<1>2. w \in Work /\ work \in [Consumer -> Work] /\ unacked \in [Consumer -> SUBSET Message]
  BY DEF BatchInv, TypeOK, BatchTypeOK
<1> HIDE DEF w
<1>3. /\ v.pc = "commit" /\ v.batch = w.batch /\ v.todo = w.todo /\ v.followUps = w.followUps
      /\ v.notices = w.notices /\ v.moved = w.moved /\ v.rows = w.rows
  BY <1>2 DEF Work
<1> HIDE DEF v
<1>4. work'[c] = v /\ unacked'[c] = {} /\ Alone(c)
  BY <1>1, <1>2 DEF Alone
<1> QED
  BY <1>1, <1>3, <1>4 DEF CommittingOffset, SameBatch, RowsStay, w

LEMMA CommitTrxDoes ==
  ASSUME BatchInv, NEW c \in Consumer, CommitTrx(c)
  PROVE  CommittingTrx(c)
<1> DEFINE w == work[c]
           v == [w EXCEPT !.pc = "produce"]
<1>1. /\ moved' = InsertedMoves(w) /\ UNCHANGED <<pending, unacked, notified>> /\ w.pc = "commit"
      /\ work' = [work EXCEPT ![c].pc = "produce"]
  BY DEF CommitTrx
<1>2. w \in Work /\ work \in [Consumer -> Work]
  BY DEF BatchInv, TypeOK, BatchTypeOK
<1>3. work' = [work EXCEPT ![c] = v]
  BY <1>1, <1>2
<1> HIDE DEF w
<1>4. /\ v.pc = "produce" /\ v.batch = w.batch /\ v.todo = w.todo /\ v.followUps = w.followUps
      /\ v.notices = w.notices /\ v.moved = w.moved /\ v.rows = w.rows
  BY <1>2 DEF Work
<1> HIDE DEF v
<1>5. work'[c] = v /\ Alone(c)
  BY <1>1, <1>2, <1>3 DEF Alone
<1> QED
  BY <1>1, <1>4, <1>5 DEF CommittingTrx, SameBatch, w

LEMMA ProduceDoes ==
  ASSUME BatchInv, NEW c \in Consumer, Produce(c)
  PROVE  Producing(c)
<1>1. /\ UNCHANGED <<moved, unacked>> /\ work[c].pc = "produce"
      /\ pending' = pending \union work[c].followUps /\ work' = [work EXCEPT ![c] = Idle]
      /\ notified' = [x \in Id |-> notified[x] \union work[c].notices[x]]
  BY DEF Produce, database
<1>2. Alone(c) /\ Ending(c)
  BY <1>1, IdleEnds
<1> QED
  BY <1>1, <1>2 DEF Producing

LEMMA CrashDoes ==
  ASSUME BatchInv, NEW c \in Consumer, CrashBatch(c)
  PROVE  Crashing(c)
<1>1. /\ UNCHANGED <<moved, notified>>
      /\ unacked' = [unacked EXCEPT ![c] = {}] /\ work' = [work EXCEPT ![c] = Idle]
  BY DEF CrashBatch, database
<1>2. \E sent \in {{}, IF work[c].pc = "produce" THEN work[c].followUps ELSE {}} :
        pending' = pending \union ReadAgain(work[c]) \union unacked[c] \union sent
  BY DEF CrashBatch
<1>3. Alone(c) /\ Ending(c) /\ unacked'[c] = {}
  BY <1>1, IdleEnds DEF BatchInv, TypeOK, BatchTypeOK
<1> QED
  BY <1>1, <1>2, <1>3 DEF Crashing, RowsStay

(***************************************************************************)
(* A message that is in one place stays in one: step by step.               *)
(***************************************************************************)
(* It comes, if it does, from where it was, or from what a closed batch sends. *)
Stays(m, x, k) ==
  /\ Once(m, x, k)'
  /\ Coming(m)' => Coming(m) \/ \E d \in Consumer : m \in work[d].followUps /\ ~Open(d)
  /\ moved'[x][k] = moved[x][k] \/ Coming(m)

LEMMA OnceTaking ==
  ASSUME NEW m, HandlerOf(m) \in Consumer, NEW x \in Id, NEW k \in MoveKind, Once(m, x, k),
         NEW c \in Consumer, NEW b, Taking(c, b)
  PROVE  Stays(m, x, k)
<1> DEFINE h == HandlerOf(m)
<1>1. /\ Alone(c) /\ moved' = moved /\ work[c].pc = "idle" /\ work'[c].pc = "bins"
      /\ b \subseteq pending /\ pending' = pending \ b /\ unacked'[c] = unacked[c] /\ (m \in b => h = c)
      /\ work'[c].batch = b /\ work'[c].followUps = {} /\ work'[c].moved[x][k] = 0
  BY DEF Taking, RowsStay
<1>2. Coming(m)' => Coming(m)
  BY <1>1 DEF Coming, Open, Alone
<1>3. Followed(m)' => Followed(m)
  BY <1>1 DEF Followed, Alone
<1> QED
  BY <1>1, <1>2, <1>3 DEF Stays, Once, Open, Coming, Alone

LEMMA OnceGivingUp ==
  ASSUME NEW m, HandlerOf(m) \in Consumer, NEW x \in Id, NEW k \in MoveKind, Once(m, x, k),
         NEW c \in Consumer, \A n \in work[c].batch : HandlerOf(n) = c, GivingUp(c)
  PROVE  Stays(m, x, k)
<1> DEFINE h == HandlerOf(m)
<1>1. /\ Alone(c) /\ moved' = moved /\ work[c].pc = "bins" /\ work'[c].pc = "idle"
      /\ pending' = pending /\ unacked'[c] = unacked[c] \union work[c].batch /\ (m \in work[c].batch => h = c)
      /\ work'[c].batch = {} /\ work'[c].followUps = {} /\ work'[c].moved[x][k] = 0
  BY DEF GivingUp, RowsStay, Ending
<1>2. Coming(m)' => Coming(m)
  BY <1>1 DEF Coming, Open, Alone
<1>3. Followed(m)' => Followed(m)
  BY <1>1 DEF Followed, Alone
<1> QED
  BY <1>1, <1>2, <1>3 DEF Stays, Once, Open, Coming, Alone

LEMMA OnceCommittingOffset ==
  ASSUME NEW m, HandlerOf(m) \in Consumer, NEW x \in Id, NEW k \in MoveKind, Once(m, x, k),
         NEW c \in Consumer, CommittingOffset(c)
  PROVE  Stays(m, x, k)
<1>1. /\ Alone(c) /\ moved' = moved /\ work[c].pc = "bins" /\ work'[c].pc = "commit"
      /\ pending' = pending /\ unacked'[c] = {}
      /\ work'[c].batch = work[c].batch /\ work'[c].todo = work[c].todo
      /\ work'[c].followUps = work[c].followUps /\ work'[c].moved = work[c].moved
  BY DEF CommittingOffset, RowsStay, SameBatch
<1>2. Coming(m)' => Coming(m)
  BY <1>1 DEF Coming, Open, Alone
<1>3. Followed(m)' => Followed(m)
  BY <1>1 DEF Followed, Alone
<1> QED
  BY <1>1, <1>2, <1>3 DEF Stays, Once, Open, Coming, Alone

LEMMA OnceCommittingTrx ==
  ASSUME NEW m, HandlerOf(m) \in Consumer, NEW x \in Id, NEW k \in MoveKind, Once(m, x, k),
         NEW c \in Consumer, CommittingTrx(c)
  PROVE  Stays(m, x, k)
<1>1. /\ Alone(c) /\ moved'[x][k] = moved[x][k] + work[c].moved[x][k]
      /\ work[c].pc = "commit" /\ work'[c].pc = "produce"
      /\ pending' = pending /\ unacked'[c] = unacked[c]
      /\ work'[c].batch = work[c].batch /\ work'[c].todo = work[c].todo
      /\ work'[c].followUps = work[c].followUps
  BY DEF CommittingTrx, SameBatch, InsertedMoves
<1>2. Coming(m)' => Coming(m)
  BY <1>1 DEF Coming, Open, Alone
<1>3. Followed(m)' => Followed(m)
  BY <1>1 DEF Followed, Alone
<1>4. CASE work[c].moved[x][k] = 0
  <2>1. moved'[x][k] = moved[x][k]
    BY <1>1, <1>4 DEF Once
  <2> QED
    BY <1>1, <1>2, <1>3, <2>1 DEF Stays, Once, Open, Coming, Alone
<1>5. CASE work[c].moved[x][k] = 1
  <2>1. c = HandlerOf(m) /\ m \in work[c].batch /\ moved[x][k] = 0 /\ moved'[x][k] = 1
    BY <1>1, <1>5 DEF Once, Open
  <2>2. ~Coming(m)'
    BY <1>1, <2>1 DEF Once, Coming, Open
  <2>3. ~Followed(m)'
    BY <1>1, <1>3, <2>1 DEF Once, Coming, Open
  <2> QED
    BY <1>1, <2>1, <2>2, <2>3 DEF Stays, Once, Open, Coming, Alone, Followed
<1> QED
  BY <1>1, <1>4, <1>5 DEF Once, Open

LEMMA OnceProducing ==
  ASSUME NEW m, HandlerOf(m) \in Consumer, NEW x \in Id, NEW k \in MoveKind, Once(m, x, k),
         NEW c \in Consumer, Producing(c)
  PROVE  Stays(m, x, k)
<1>1. /\ Alone(c) /\ moved' = moved /\ work[c].pc = "produce" /\ work'[c].pc = "idle"
      /\ pending' = pending \union work[c].followUps /\ unacked'[c] = unacked[c]
      /\ work'[c].batch = {} /\ work'[c].followUps = {} /\ work'[c].moved[x][k] = 0
  BY DEF Producing, Ending
<1>2. Coming(m)' => Coming(m) \/ m \in work[c].followUps
  BY <1>1 DEF Coming, Open, Alone
<1>3. Followed(m)' => Followed(m) /\ m \notin work[c].followUps
  BY <1>1 DEF Followed, Alone, Once
<1>4. m \in work[c].followUps => Followed(m)
  BY DEF Followed
<1> QED
  BY <1>1, <1>2, <1>3, <1>4 DEF Stays, Once, Open, Coming, Alone

LEMMA OnceCrashing ==
  ASSUME NEW m, HandlerOf(m) \in Consumer, NEW x \in Id, NEW k \in MoveKind, Once(m, x, k),
         NEW c \in Consumer, \A n \in unacked[c] \union work[c].batch : HandlerOf(n) = c, Crashing(c)
  PROVE  Stays(m, x, k)
<1>1. /\ Alone(c) /\ moved' = moved /\ work'[c].pc = "idle"
      /\ unacked'[c] = {}
      /\ work'[c].batch = {} /\ work'[c].followUps = {} /\ work'[c].moved[x][k] = 0
  BY DEF Crashing, Ending, RowsStay
<1>2. PICK sent \in {{}, IF work[c].pc = "produce" THEN work[c].followUps ELSE {}} :
        pending' = pending \union ReadAgain(work[c]) \union unacked[c] \union sent
  BY DEF Crashing
<1>3. /\ m \in ReadAgain(work[c]) => work[c].pc = "bins" /\ m \in work[c].batch /\ HandlerOf(m) = c
      /\ m \in unacked[c] => HandlerOf(m) = c
      /\ m \in sent => m \in work[c].followUps /\ ~Open(c)
  BY <1>2 DEF ReadAgain, Open
<1>4. Coming(m)' => Coming(m) \/ (m \in work[c].followUps /\ ~Open(c))
  BY <1>1, <1>2, <1>3 DEF Coming, Open, Alone
<1>5. Followed(m)' => Followed(m) /\ m \notin work[c].followUps
  BY <1>1 DEF Followed, Alone, Once
<1>6. m \in work[c].followUps => Followed(m)
  BY DEF Followed
<1> QED
  BY <1>1, <1>2, <1>3, <1>4, <1>5, <1>6 DEF Stays, Once, Open, Coming, Alone

(* A worked message makes its own movement only; and it may be followed.    *)
LEMMA OnceWorking ==
  ASSUME NEW m, HandlerOf(m) \in Consumer, NEW x \in Id, NEW k \in MoveKind, Once(m, x, k),
         NEW c \in Consumer, \A n \in work[c].batch : HandlerOf(n) = c, NEW n, NEW v, Working(c, n, v),
         \/ v.moved[x][k] = work[c].moved[x][k]
         \/ n = m /\ v.moved[x][k] = work[c].moved[x][k] + 1,
         \/ m \in v.followUps => m \in work[c].followUps
         \/ ~Coming(m) /\ ~Followed(m) /\ moved[x][k] = 0
  PROVE  Stays(m, x, k)
<1>1. /\ Alone(c) /\ moved' = moved /\ work[c].pc = "bins" /\ work'[c].pc = "bins"
      /\ pending' = pending /\ unacked'[c] = unacked[c]
      /\ n \in work[c].todo /\ n \in work[c].batch
      /\ work'[c].batch = work[c].batch /\ work'[c].todo = work[c].todo \ {n}
      /\ work'[c].followUps = v.followUps /\ work'[c].moved = v.moved
  BY DEF Working, RowsStay
<1>2. Coming(m)' <=> Coming(m)
  BY <1>1 DEF Coming, Open, Alone
<1>3. Followed(m)' => Followed(m) \/ m \in v.followUps
  BY <1>1 DEF Followed, Alone
<1>4. /\ Followed(m)' => ~Coming(m)' /\ moved'[x][k] = 0
      /\ \A d, e \in Consumer : m \in work'[d].followUps /\ m \in work'[e].followUps => d = e
  BY <1>1, <1>2, <1>3 DEF Once, Followed, Alone
<1>5. CASE v.moved[x][k] = work[c].moved[x][k]
  BY <1>1, <1>2, <1>3, <1>4, <1>5 DEF Stays, Once, Open, Coming, Alone
<1>6. CASE n = m /\ v.moved[x][k] = work[c].moved[x][k] + 1
  <2>1. c = HandlerOf(m) /\ Coming(m) /\ moved[x][k] = 0
    BY <1>1, <1>6 DEF Once, Coming, Open
  <2>2. work[c].moved[x][k] = 0 /\ v.moved[x][k] = 1
    BY <1>1, <1>6, <2>1 DEF Once, Open
  <2> QED
    BY <1>1, <1>2, <1>3, <1>4, <1>6, <2>1, <2>2 DEF Stays, Once, Open, Coming, Alone
<1> QED
  BY <1>5, <1>6

(* A request adds its message, which nothing had been before.               *)
LEMMA OnceAsking ==
  ASSUME NEW m, HandlerOf(m) \in Consumer, NEW x \in Id, NEW k \in MoveKind, Once(m, x, k), HandlersStay,
         pending \subseteq pending', m \in pending' => m \in pending \/ Nowhere(m, x, k)
  PROVE  Once(m, x, k)'
<1>1. moved' = moved /\ work' = work /\ unacked' = unacked
  BY DEF HandlersStay
<1>2. Coming(m)' => Coming(m) \/ Nowhere(m, x, k)
  BY <1>1 DEF Coming, Open
<1>3. Followed(m)' <=> Followed(m)
  BY <1>1 DEF Followed
<1>4. CASE m \in pending' /\ m \notin pending
  BY <1>1, <1>2, <1>3, <1>4 DEF Once, Coming, Open, Nowhere
<1>5. CASE m \in pending' => m \in pending
  BY <1>1, <1>3, <1>5 DEF Once, Coming, Open
<1> QED
  BY <1>4, <1>5

(***************************************************************************)
(* What a worked message moves, and what follows it.                        *)
(***************************************************************************)
LEMMA NotLast ==
  ASSUME NEW m, Sound(m), m.action \in Aborts \union {"commit"}, ~IsLast(m)
  PROVE  m \in Message /\ m.done = 0 /\ Len(m.plan) = 2 /\ NextMove(m) = m.plan[1]
<1>1. m \in Message /\ m.done < Len(m.plan) /\ m.plan \in Plan /\ m.done \in 0..1
  BY MessageType DEF Sound
<1> DEFINE n == Len(m.plan)
<1>2. n \in 0..2 /\ m.done < n /\ m.done + 1 # n
  BY <1>1, PlanType DEF IsLast
<1> HIDE DEF n
<1>3. m.done = 0 /\ n = 2
  BY <1>1, <1>2
<1> QED
  BY <1>1, <1>3 DEF NextMove, n

LEMMA FollowingIs ==
  ASSUME NEW m \in Message
  PROVE  /\ Following(m).id = m.id /\ Following(m).action = m.action /\ Following(m).plan = m.plan
         /\ Following(m).unmoved = m.unmoved /\ Following(m).done = m.done + 1
BY DEF Following, Message

LEMMA MadeMoves ==
  ASSUME NEW w \in Work, NEW v, NEW m, NEW y \in Id, NEW kind \in MoveKind, Made(w, v, m, y, kind),
         NEW x \in Id, NEW k \in MoveKind
  PROVE  v.moved[x][k] = IF x = y /\ k = kind /\ m.account # NoAccount
                         THEN w.moved[x][k] + 1 ELSE w.moved[x][k]
<1>1. w.moved \in [Id -> [MoveKind -> Nat]]
  BY WorkType
<1> QED
  BY <1>1 DEF Made, Kept

LEMMA MadeOne ==
  ASSUME NEW w \in Work, NEW v, NEW m, NEW y \in Id, NEW kind \in MoveKind, Made(w, v, m, y, kind),
         m.account # NoAccount
  PROVE  v.moved[y][kind] = w.moved[y][kind] + 1 /\ w.moved[y][kind] \in Nat
<1>1. w.moved \in [Id -> [MoveKind -> Nat]]
  BY WorkType
<1> QED
  BY <1>1 DEF Made

LEMMA EffectMoves ==
  ASSUME NEW w \in Work, NEW v, NEW m, Sound(m), Token(m), Effect(w, v, m), NEW x \in Id
  PROVE  /\ \/ v.moved[x]["debit"] = w.moved[x]["debit"]
            \/ /\ m = Asking(x) /\ DebitAccount[x] # NoAccount
               /\ v.moved[x]["debit"] = w.moved[x]["debit"] + 1
         /\ \/ v.moved[x]["credit"] = w.moved[x]["credit"]
            \/ /\ IsPaid(x) /\ m = Paying(x)
               /\ v.moved[x]["credit"] = w.moved[x]["credit"] + 1
         /\ \A k \in MoveKind : v.moved[x][k] >= w.moved[x][k]
<1>1. /\ m \in Message /\ m.id \in Id /\ "debit" \in MoveKind /\ "credit" \in MoveKind /\ "refund" \in MoveKind
      /\ \A k \in MoveKind : w.moved[x][k] \in Nat
  BY MessageType, WorkType DEF Sound, MoveKind
<1>2. CASE Declines(w, v, m)
  BY <1>1, <1>2 DEF Declines, Kept
<1>3. CASE Holds(w, v, m)
  <2>1. Made(w, v, m, m.id, "debit") /\ m = Asking(m.id) /\ m.account = DebitAccount[m.id]
    BY <1>3 DEF Holds, Token, Sound, Own
  <2> DEFINE y == m.id
  <2>3. y \in Id /\ Made(w, v, m, y, "debit")
    BY <1>1, <2>1
  <2>4. m = Asking(y) /\ m.account = DebitAccount[y]
    BY <2>1
  <2> HIDE DEF y
  <2>2. \A k \in MoveKind : v.moved[x][k] = IF x = y /\ k = "debit" /\ m.account # NoAccount
                                            THEN w.moved[x][k] + 1 ELSE w.moved[x][k]
    BY <1>1, <2>3, MadeMoves
  <2> QED
    BY <1>1, <2>2, <2>3, <2>4
<1>4. CASE Returns(w, v, m) \/ GivesBack(w, v, m)
  <2>1. PICK y \in Id : Made(w, v, m, y, "refund")
    <3>1. GivesBack(w, v, m) => NextMove(m) \in Id
      BY NextMoveType DEF GivesBack
    <3> QED
      BY <1>1, <1>4, <3>1 DEF Returns, GivesBack
  <2>2. \A k \in MoveKind : v.moved[x][k] = IF x = y /\ k = "refund" /\ m.account # NoAccount
                                            THEN w.moved[x][k] + 1 ELSE w.moved[x][k]
    BY <1>1, <2>1, MadeMoves
  <2> QED
    BY <1>1, <2>2
<1>5. CASE Pays(w, v, m)
  <2>1. Made(w, v, m, NextMove(m), "credit") /\ IsPaid(NextMove(m)) /\ m = Paying(NextMove(m)) /\ NextMove(m) \in Id
    BY <1>5, NextMoveType DEF Pays, Token
  <2>2. \A k \in MoveKind : v.moved[x][k] = IF x = NextMove(m) /\ k = "credit" /\ m.account # NoAccount
                                            THEN w.moved[x][k] + 1 ELSE w.moved[x][k]
    BY <1>1, <2>1, MadeMoves
  <2> QED
    BY <1>1, <2>1, <2>2
<1> QED
  BY <1>2, <1>3, <1>4, <1>5 DEF Effect

LEMMA EffectFollows ==
  ASSUME NEW w \in Work, NEW v, NEW m, Sound(m), Token(m), Effect(w, v, m)
  PROVE  \A f \in v.followUps : \/ f \in w.followUps
                                \/ /\ f = Following(m) /\ ~IsLast(m) /\ m.action \in Aborts \union {"commit"}
                                   /\ f.done = 1 /\ Token(f)
<1> SUFFICES ASSUME NEW f \in v.followUps, f \notin w.followUps
             PROVE  /\ f = Following(m) /\ ~IsLast(m) /\ m.action \in Aborts \union {"commit"}
                    /\ f.done = 1 /\ Token(f)
  OBVIOUS
<1>1. f = Following(m) /\ ~IsLast(m) /\ m.action \in Aborts \union {"commit"}
  BY DEF Effect, Declines, Holds, Returns, Pays, GivesBack
<1>2. m \in Message /\ m.done = 0
  BY <1>1, NotLast
<1>3. /\ f.id = m.id /\ f.action = m.action /\ f.plan = m.plan /\ f.unmoved = m.unmoved /\ f.done = 1
  BY <1>1, <1>2, FollowingIs
<1>4. Token(f)
  <2>1. CASE m.action = "commit"
    <3>1. IsPaid(NextMove(m)) /\ m = Paying(NextMove(m)) /\ NextMove(m) \in Id
      BY <1>1, <2>1, NextMoveType DEF Token
    <3> DEFINE t == TransferOf(NextMove(m))
    <3>2. IsPaid(t) /\ IsSecond(t) /\ f = Paying(t)
      BY <1>1, <1>2, <3>1, PayingFollows
    <3>3. NextMove(f) = t
      <4>1. t \in Id
        BY <3>2 DEF IsSecond, Id
      <4> QED
        BY <3>2, <4>1, PayingIs
    <3> QED
      BY <1>3, <2>1, <3>2, <3>3 DEF Token, Aborts
  <2>2. CASE m.action \in Aborts
    <3>1. NotifiedOf(f) = NotifiedOf(m)
      BY <1>3 DEF NotifiedOf
    <3>2. IsLast(f)
      BY <1>1, <1>3, NotLast DEF IsLast
    <3> QED
      BY <1>3, <2>2, <3>1, <3>2 DEF Token, Aborts
  <2> QED
    BY <1>1, <2>1, <2>2
<1> QED
  BY <1>1, <1>3, <1>4

(***************************************************************************)
(* The invariant, over the steps of a consumer.                            *)
(***************************************************************************)
TellInv == BatchInv /\ TokenInv /\ DebitInv /\ CreditInv /\ ToldInv

BatchActs(c) ==
  \/ \E b : Taking(c, b)
  \/ GivingUp(c)
  \/ \E m, v : Working(c, m, v)
  \/ CommittingOffset(c) \/ CommittingTrx(c) \/ Producing(c) \/ Crashing(c)

LEMMA BatchDoes ==
  ASSUME BatchInv, NEW c \in Consumer,
         Poll(c) \/ Item(c) \/ CommitOffset(c) \/ CommitTrx(c) \/ Produce(c) \/ CrashBatch(c)
  PROVE  BatchActs(c)
BY PollDoes, ItemDoes, CommitOffsetDoes, CommitTrxDoes, ProduceDoes, CrashDoes DEF BatchActs

LEMMA Messages ==
  ASSUME BatchInv, TokenInv, NEW c \in Consumer
  PROVE  /\ work[c] \in Work /\ moved \in Rows
         /\ \A m \in unacked[c] \union work[c].batch : Sound(m) /\ Token(m) /\ HandlerOf(m) = c
         /\ \A m \in work[c].followUps : Sound(m) /\ Token(m) /\ m.done = 1
BY DEF BatchInv, TypeOK, BatchTypeOK, WorkSound, HandlerOf, TokenInv, Rows

LEMMA RowsOfType ==
  ASSUME BatchInv, NEW d \in Consumer
  PROVE  /\ moved \in Rows /\ RowsOf(d) \in Rows /\ work[d].moved \in Rows
         /\ \A x \in Id, k \in MoveKind :
              RowsOf(d)[x][k] = moved[x][k] + (IF Open(d) THEN work[d].moved[x][k] ELSE 0)
<1>1. moved \in Rows /\ work[d].moved \in Rows
  BY WorkType DEF BatchInv, TypeOK, BatchTypeOK, Rows
<1>2. CASE Open(d)
  <2>1. RowsOf(d) = [x \in Id |-> [k \in MoveKind |-> moved[x][k] + work[d].moved[x][k]]]
    BY <1>2 DEF RowsOf, InsertedMoves
  <2> QED
    BY <1>1, <1>2, <2>1 DEF Rows
<1>3. CASE ~Open(d)
  <2>1. RowsOf(d) = moved
    BY <1>3 DEF RowsOf
  <2> QED
    BY <1>1, <1>3, <2>1 DEF Rows
<1> QED
  BY <1>2, <1>3

(* A settlement's second message comes when the first movement is made.     *)
LEMMA FollowsOnce ==
  ASSUME BatchInv, TokenInv, CreditInv, NEW c \in Consumer, NEW n, NEW v, Working(c, n, v),
         NEW x \in Id, IsPaid(x), Paying(x) = Following(n), ~IsLast(n), n.action = "commit"
  PROVE  /\ ~Coming(Paying(x)) /\ ~Followed(Paying(x)) /\ moved[x]["credit"] = 0
         /\ IsSecond(x) /\ \E y \in ConversionsOf(x) : y \in Id /\ IsPaid(y) /\ n = Paying(y)
<1> DEFINE m == Paying(x)
           y == NextMove(n)
<1>1. n \in work[c].todo /\ n \in work[c].batch /\ work[c].pc = "bins"
  BY DEF Working
<1>2. Sound(n) /\ Token(n) /\ HandlerOf(n) = c /\ n \in Message
  BY <1>1, Messages DEF Sound
<1>3. IsPaid(y) /\ n = Paying(y) /\ y \in Id
  BY <1>2, NextMoveType DEF Token
<1> HIDE DEF m, y
<1> DEFINE t == TransferOf(y)
<1>4. IsPaid(t) /\ IsSecond(t) /\ y \in ConversionsOf(t) /\ Following(n) = Paying(t)
  BY <1>2, <1>3, PayingFollows
<1>5. t = x
  <2>1. t \in Id
    BY <1>4 DEF IsSecond, Id
  <2>2. NextMove(Paying(t)) = t /\ NextMove(Paying(x)) = x
    BY <1>4, <2>1, PayingIs
  <2> QED
    BY <1>4, <2>2
<1> HIDE DEF t
<1>6. x \in Transfer /\ Chain(m, x, y) /\ Once(n, y, "credit")
  BY <1>3, <1>4, <1>5 DEF CreditInv, IsSecond, m
<1>7. moved[y]["credit"] = 0
  <2>1. Coming(n)
    BY <1>1, <1>2 DEF Coming, Open
  <2> QED
    BY <1>6, <2>1 DEF Once
<1>8. moved[x]["credit"] = 0 /\ ~Coming(m)
  BY <1>6, <1>7 DEF Chain
<1>9. ~Followed(m)
  <2> SUFFICES ASSUME NEW d \in Consumer, m \in work[d].followUps PROVE FALSE
    BY DEF Followed
  <2>1. RowsOf(d)[y]["credit"] # 0
    BY <1>6 DEF Chain
  <2>2. RowsOf(d)[y]["credit"] = moved[y]["credit"] + (IF Open(d) THEN work[d].moved[y]["credit"] ELSE 0)
    BY <1>3, RowsOfType DEF MoveKind
  <2>3. Open(d) /\ work[d].moved[y]["credit"] = 1
    BY <1>6, <1>7, <2>1, <2>2 DEF Once
  <2>4. d = c /\ n \notin work[d].todo
    BY <1>2, <1>6, <2>3 DEF Once
  <2> QED
    BY <1>1, <2>4
<1> QED
  BY <1>3, <1>4, <1>5, <1>8, <1>9 DEF m

IsToken(m, x, k) ==
  \/ k = "debit" /\ m = Asking(x)
  \/ k = "credit" /\ IsPaid(x) /\ m = Paying(x)

LEMMA TokenStays ==
  ASSUME BatchInv, TokenInv, CreditInv, NEW c \in Consumer, BatchActs(c),
         NEW x \in Id, NEW k, NEW m, IsToken(m, x, k), Once(m, x, k)
  PROVE  Stays(m, x, k)
<1>1. HandlerOf(m) \in Consumer /\ k \in MoveKind
  BY AskingIs, PayingIs DEF IsToken, MoveKind
<1>2. \A n \in unacked[c] \union work[c].batch : HandlerOf(n) = c
  BY Messages
<1>3. ASSUME NEW n, NEW v, Working(c, n, v) PROVE Stays(m, x, k)
  <2>1. work[c] \in Work /\ Sound(n) /\ Token(n) /\ Effect(work[c], v, n)
    BY <1>3, Messages DEF Working
  <2>2. \/ v.moved[x][k] = work[c].moved[x][k]
        \/ n = m /\ v.moved[x][k] = work[c].moved[x][k] + 1
    BY <2>1, EffectMoves DEF IsToken
  <2>3. \/ m \in v.followUps => m \in work[c].followUps
        \/ ~Coming(m) /\ ~Followed(m) /\ moved[x][k] = 0
    <3> SUFFICES ASSUME m \in v.followUps, m \notin work[c].followUps
                 PROVE  ~Coming(m) /\ ~Followed(m) /\ moved[x][k] = 0
      OBVIOUS
    <3>1. m = Following(n) /\ ~IsLast(n) /\ n.action \in Aborts \union {"commit"} /\ m.done = 1
      BY <2>1, EffectFollows
    <3>2. k = "credit" /\ IsPaid(x) /\ m = Paying(x)
      BY <3>1, AskingIs DEF IsToken
    <3>3. n.action = "commit"
      <4>1. n \in Message
        BY <2>1 DEF Sound
      <4>2. m.action = n.action /\ m.action = "commit"
        BY <3>1, <3>2, <4>1, FollowingIs, PayingIs
      <4> QED
        BY <4>2
    <3> QED
      BY <1>3, <3>1, <3>2, <3>3, FollowsOnce
  <2> QED
    BY <1>1, <1>2, <1>3, <2>2, <2>3, OnceWorking
<1> QED
  BY <1>1, <1>2, <1>3, OnceTaking, OnceGivingUp, OnceCommittingOffset, OnceCommittingTrx, OnceProducing, OnceCrashing
     DEF BatchActs

(* Where the messages of a consumer come from.                              *)
FromHere(c) ==
  /\ Alone(c)
  /\ \A m \in pending' : \/ m \in pending \union unacked[c] \union work[c].batch
                         \/ m \in work[c].followUps /\ ~Open(c)
  /\ \A m \in unacked'[c] \union work'[c].batch : m \in pending \union unacked[c] \union work[c].batch
  /\ work'[c].followUps \subseteq work[c].followUps \/ \E n, v : Working(c, n, v)
  /\ moved' = moved \/ CommittingTrx(c)

LEMMA WhereFrom ==
  ASSUME NEW c \in Consumer, BatchActs(c)
  PROVE  FromHere(c)
<1>1. ASSUME NEW b, Taking(c, b) PROVE FromHere(c)
  BY <1>1 DEF Taking, RowsStay, FromHere
<1>2. CASE GivingUp(c)
  BY <1>2 DEF GivingUp, RowsStay, Ending, FromHere
<1>3. ASSUME NEW n, NEW v, Working(c, n, v) PROVE FromHere(c)
  <2>1. /\ Alone(c) /\ moved' = moved /\ pending' = pending /\ unacked'[c] = unacked[c]
        /\ work'[c].batch = work[c].batch
    BY <1>3 DEF Working, RowsStay
  <2> QED
    BY <1>3, <2>1 DEF FromHere
<1>4. CASE CommittingOffset(c)
  BY <1>4 DEF CommittingOffset, RowsStay, SameBatch, FromHere
<1>5. CASE CommittingTrx(c)
  <2>1. /\ Alone(c) /\ pending' = pending /\ unacked'[c] = unacked[c]
        /\ work'[c].batch = work[c].batch /\ work'[c].followUps = work[c].followUps
    BY <1>5 DEF CommittingTrx, SameBatch
  <2> QED
    BY <1>5, <2>1 DEF FromHere
<1>6. CASE Producing(c)
  BY <1>6 DEF Producing, Ending, FromHere, Open
<1>7. CASE Crashing(c)
  <2>1. PICK sent \in {{}, IF work[c].pc = "produce" THEN work[c].followUps ELSE {}} :
          pending' = pending \union ReadAgain(work[c]) \union unacked[c] \union sent
    BY <1>7 DEF Crashing
  <2>2. ReadAgain(work[c]) \subseteq work[c].batch
    BY DEF ReadAgain
  <2>3. \A m \in sent : m \in work[c].followUps /\ ~Open(c)
    BY <2>1 DEF Open
  <2> QED
    BY <1>7, <2>1, <2>2, <2>3 DEF Crashing, Ending, RowsStay, FromHere
<1> QED
  BY <1>1, <1>2, <1>3, <1>4, <1>5, <1>6, <1>7 DEF BatchActs

(* New messages are tokens too, and the second of their settlement.         *)
LEMMA NewFollowUps ==
  ASSUME BatchInv, TokenInv, NEW c \in Consumer, NEW n, NEW v, Working(c, n, v)
  PROVE  /\ work[c] \in Work /\ Sound(n) /\ Token(n) /\ Effect(work[c], v, n)
         /\ work'[c].followUps = v.followUps
         /\ \A f \in v.followUps : \/ f \in work[c].followUps
                                   \/ /\ f = Following(n) /\ ~IsLast(n) /\ n.action \in Aborts \union {"commit"}
                                      /\ f.done = 1 /\ Token(f)
<1>1. /\ n \in work[c].batch /\ Effect(work[c], v, n) /\ work'[c].followUps = v.followUps
  BY DEF Working
<1>2. work[c] \in Work /\ Sound(n) /\ Token(n)
  BY <1>1, Messages
<1> QED
  BY <1>1, <1>2, EffectFollows

LEMMA TokensKept ==
  ASSUME BatchInv, TokenInv, NEW c \in Consumer, BatchActs(c)
  PROVE  TokenInv'
<1>1. FromHere(c)
  BY WhereFrom
<1>2. \A m \in pending \union unacked[c] \union work[c].batch \union work[c].followUps : Token(m)
  BY DEF TokenInv
<1>3. \A m \in pending' : Token(m)
  BY <1>1, <1>2 DEF FromHere
<1>4. \A m \in unacked'[c] \union work'[c].batch : Token(m)
  BY <1>1, <1>2 DEF FromHere
<1>5. \A m \in work'[c].followUps : Token(m) /\ m.done = 1
  <2>1. CASE work'[c].followUps \subseteq work[c].followUps
    BY <2>1 DEF TokenInv
  <2>2. ASSUME NEW n, NEW v, Working(c, n, v) PROVE \A m \in work'[c].followUps : Token(m) /\ m.done = 1
    <3>1. \A m \in work[c].followUps : Token(m) /\ m.done = 1
      BY DEF TokenInv
    <3> QED
      BY <2>2, <3>1, NewFollowUps
  <2> QED
    BY <1>1, <2>1, <2>2 DEF FromHere
<1>6. ASSUME NEW d \in Consumer, d # c
      PROVE  /\ \A m \in unacked'[d] \union work'[d].batch : Token(m)
             /\ \A m \in work'[d].followUps : Token(m) /\ m.done = 1
  <2>1. work'[d] = work[d] /\ unacked'[d] = unacked[d]
    BY <1>1, <1>6 DEF FromHere, Alone
  <2> QED
    BY <2>1 DEF TokenInv
<1> QED
  BY <1>3, <1>4, <1>5, <1>6 DEF TokenInv

(***************************************************************************)
(* Rows are only added: to the database, and to the transaction a batch is  *)
(* in until it ends.                                                        *)
(***************************************************************************)
Grows(d) == \A x \in Id : \A k \in MoveKind : RowsOf(d)'[x][k] >= RowsOf(d)[x][k]

LEMMA RowsOfNext ==
  ASSUME BatchInv', NEW d \in Consumer
  PROVE  /\ moved' \in Rows /\ work'[d].moved \in Rows /\ RowsOf(d)' \in Rows
         /\ \A x \in Id : \A k \in MoveKind :
              RowsOf(d)'[x][k] = moved'[x][k] + (IF Open(d)' THEN work'[d].moved[x][k] ELSE 0)
<1>1. moved' \in Rows /\ work'[d].moved \in Rows
  BY WorkType DEF BatchInv, TypeOK, BatchTypeOK, Rows
<1>2. CASE Open(d)'
  <2>1. RowsOf(d)' = [x \in Id |-> [k \in MoveKind |-> moved'[x][k] + work'[d].moved[x][k]]]
    BY <1>2 DEF RowsOf, InsertedMoves
  <2> QED
    BY <1>2, <1>1, <2>1 DEF Rows
<1>3. CASE ~Open(d)'
  <2>1. RowsOf(d)' = moved'
    BY <1>3 DEF RowsOf
  <2> QED
    BY <1>3, <1>1, <2>1 DEF Rows
<1> QED
  BY <1>2, <1>3

(* What moves: the rows of the batch that is committed, and those of the    *)
(* message that is worked.                                                  *)
MovesHere(c) ==
  \A x \in Id : \A k \in MoveKind :
    /\ \/ moved'[x][k] = moved[x][k]
       \/ CommittingTrx(c) /\ moved'[x][k] = moved[x][k] + work[c].moved[x][k]
    /\ \/ Ending(c)
       \/ (\E b : Taking(c, b)) /\ work'[c].moved[x][k] = 0
       \/ work'[c].moved[x][k] = work[c].moved[x][k] /\ (Open(c)' => Open(c))
       \/ Open(c) /\ Open(c)' /\ \E n, v : Working(c, n, v) /\ work'[c].moved[x][k] = v.moved[x][k]

LEMMA WhatMoves ==
  ASSUME NEW c \in Consumer, BatchActs(c)
  PROVE  MovesHere(c)
<1> SUFFICES ASSUME NEW x \in Id, NEW k \in MoveKind
    PROVE /\ \/ moved'[x][k] = moved[x][k]
             \/ CommittingTrx(c) /\ moved'[x][k] = moved[x][k] + work[c].moved[x][k]
          /\ \/ Ending(c)
             \/ (\E b : Taking(c, b)) /\ work'[c].moved[x][k] = 0
             \/ work'[c].moved[x][k] = work[c].moved[x][k] /\ (Open(c)' => Open(c))
             \/ Open(c) /\ Open(c)' /\ \E n, v : Working(c, n, v) /\ work'[c].moved[x][k] = v.moved[x][k]
  BY DEF MovesHere
<1>1. ASSUME NEW b, Taking(c, b) PROVE moved' = moved /\ work'[c].moved[x][k] = 0
  BY <1>1 DEF Taking, RowsStay
<1>2. CASE GivingUp(c)
  BY <1>2 DEF GivingUp, RowsStay
<1>3. ASSUME NEW n, NEW v, Working(c, n, v)
      PROVE  moved' = moved /\ work'[c].moved = v.moved /\ Open(c) /\ Open(c)'
  BY <1>3 DEF Working, RowsStay, Open
<1>4. CASE CommittingOffset(c)
  BY <1>4 DEF CommittingOffset, RowsStay, SameBatch, Open
<1>5. CASE CommittingTrx(c)
  BY <1>5 DEF CommittingTrx, SameBatch, InsertedMoves, Open
<1>6. CASE Producing(c)
  BY <1>6 DEF Producing
<1>7. CASE Crashing(c)
  BY <1>7 DEF Crashing, RowsStay
<1> QED
  BY <1>1, <1>2, <1>3, <1>4, <1>5, <1>6, <1>7 DEF BatchActs

LEMMA RowsGrow ==
  ASSUME BatchInv, BatchInv', TokenInv, NEW c \in Consumer, BatchActs(c), NEW d \in Consumer
  PROVE  /\ \A x \in Id : \A k \in MoveKind : moved'[x][k] >= moved[x][k]
         /\ Grows(d) \/ (d = c /\ Ending(c))
<1>1. MovesHere(c) /\ FromHere(c)
  BY WhatMoves, WhereFrom
<1>2. /\ \A x \in Id : \A k \in MoveKind :
           RowsOf(d)'[x][k] = moved'[x][k] + (IF Open(d)' THEN work'[d].moved[x][k] ELSE 0)
      /\ \A x \in Id : \A k \in MoveKind :
           RowsOf(d)[x][k] = moved[x][k] + (IF Open(d) THEN work[d].moved[x][k] ELSE 0)
  BY RowsOfNext, RowsOfType
<1>3. \A x \in Id : \A k \in MoveKind : /\ moved[x][k] \in Nat /\ moved'[x][k] \in Nat
                                        /\ work[d].moved[x][k] \in Nat /\ work'[d].moved[x][k] \in Nat
                                        /\ work[c].moved[x][k] \in Nat
  BY RowsOfNext, RowsOfType DEF Rows
<1>4. \A x \in Id : \A k \in MoveKind : moved'[x][k] >= moved[x][k]
  BY <1>1, <1>3 DEF MovesHere
<1>5. CASE d # c
  <2>1. work'[d] = work[d] /\ Open(d)' = Open(d)
    BY <1>1, <1>5 DEF FromHere, Alone, Open
  <2> QED
    BY <1>2, <1>3, <1>4, <2>1 DEF Grows
<1>6. CASE d = c /\ ~Ending(c)
  <2> SUFFICES ASSUME NEW x \in Id, NEW k \in MoveKind
               PROVE  RowsOf(d)'[x][k] >= RowsOf(d)[x][k]
    BY <1>4 DEF Grows
  <2>1. CASE CommittingTrx(c)
    <3>1. Open(c) /\ ~Open(c)' /\ moved'[x][k] = moved[x][k] + work[c].moved[x][k]
      BY <2>1 DEF CommittingTrx, Open, InsertedMoves
    <3> QED
      BY <1>2, <1>3, <1>6, <3>1
  <2>2. CASE ~CommittingTrx(c)
    <3>1. moved'[x][k] = moved[x][k]
      BY <1>1, <2>2 DEF MovesHere
    <3>2. ASSUME NEW b, Taking(c, b) PROVE ~Open(c)
      BY <3>2 DEF Taking, Open
    <3>3. ASSUME NEW n, NEW v, Working(c, n, v) PROVE v.moved[x][k] >= work[c].moved[x][k]
      BY <3>3, NewFollowUps, EffectMoves
    <3>4. CASE work'[c].moved[x][k] = work[c].moved[x][k] /\ (Open(c) => Open(c)')
      BY <1>2, <1>3, <1>6, <3>1, <3>4
    <3>5. CASE ~Open(c)
      BY <1>2, <1>3, <1>6, <3>1, <3>5
    <3>6. CASE Open(c)' /\ \E n, v : Working(c, n, v) /\ work'[c].moved[x][k] = v.moved[x][k]
      BY <1>2, <1>3, <1>6, <3>1, <3>3, <3>6
    <3>7. CASE Open(c) /\ ~Open(c)'
      <4>1. \/ CommittingTrx(c) \/ Ending(c)
        BY <3>7 DEF BatchActs, Taking, GivingUp, Working, CommittingOffset, Producing, Crashing, Open
      <4> QED
        BY <1>6, <2>2, <4>1
    <3> QED
      BY <1>1, <1>6, <3>2, <3>4, <3>5, <3>6, <3>7 DEF MovesHere
  <2> QED
    BY <2>1, <2>2
<1> QED
  BY <1>4, <1>5, <1>6

(* A first message that is not there yet is not sent by a consumer.         *)
LEMMA NowhereStays ==
  ASSUME TokenInv', NEW m, m.done = 0, NEW x \in Id, NEW k \in MoveKind, Nowhere(m, x, k), Stays(m, x, k)
  PROVE  Nowhere(m, x, k)'
<1>1. ~Coming(m) /\ ~Followed(m) /\ moved[x][k] = 0
  BY DEF Nowhere
<1>2. ~Coming(m)'
  BY <1>1 DEF Stays, Followed
<1>3. moved'[x][k] = 0
  BY <1>1 DEF Stays
<1>4. ~Followed(m)'
  BY DEF Followed, TokenInv
<1> QED
  BY <1>2, <1>3, <1>4 DEF Nowhere

LEMMA DebitsKept ==
  ASSUME BatchInv, BatchInv', TokenInv, TokenInv', DebitInv, CreditInv, NEW c \in Consumer, BatchActs(c),
         \A x \in Id : state'[x] = "none" => state[x] = "none"
  PROVE  DebitInv'
<1> SUFFICES ASSUME NEW x \in Id
             PROVE  /\ Once(Asking(x), x, "debit")'
                    /\ state'[x] = "none" => Nowhere(Asking(x), x, "debit")'
                    /\ DebitAccount[x] = NoAccount =>
                         moved'[x]["debit"] = 0 /\ \A d \in Consumer : work'[d].moved[x]["debit"] = 0
  BY DEF DebitInv
<1> DEFINE m == Asking(x)
<1>1. /\ Once(m, x, "debit") /\ "debit" \in MoveKind
      /\ state[x] = "none" => Nowhere(m, x, "debit")
      /\ DebitAccount[x] = NoAccount =>
           moved[x]["debit"] = 0 /\ \A d \in Consumer : work[d].moved[x]["debit"] = 0
  BY DEF DebitInv, MoveKind
<1>2. IsToken(m, x, "debit") /\ m.done = 0
  BY AskingIs DEF IsToken
<1> HIDE DEF m
<1>3. Stays(m, x, "debit")
  BY <1>1, <1>2, TokenStays
<1>4. state'[x] = "none" => Nowhere(m, x, "debit")'
  BY <1>1, <1>2, <1>3, NowhereStays
<1>5. ASSUME DebitAccount[x] = NoAccount
      PROVE  moved'[x]["debit"] = 0 /\ \A d \in Consumer : work'[d].moved[x]["debit"] = 0
  <2>1. MovesHere(c) /\ FromHere(c)
    BY WhatMoves, WhereFrom
  <2>2. moved[x]["debit"] = 0 /\ \A d \in Consumer : work[d].moved[x]["debit"] = 0
    BY <1>1, <1>5
  <2>3. moved'[x]["debit"] = 0
    BY <1>1, <2>1, <2>2 DEF MovesHere
  <2>4. ASSUME NEW n, NEW v, Working(c, n, v) PROVE v.moved[x]["debit"] = 0
    BY <1>5, <2>2, <2>4, NewFollowUps, EffectMoves
  <2>5. work'[c].moved[x]["debit"] = 0
    BY <1>1, <2>1, <2>2, <2>4 DEF MovesHere, Ending
  <2>6. \A d \in Consumer : d # c => work'[d] = work[d]
    BY <2>1 DEF FromHere, Alone
  <2> QED
    BY <2>2, <2>3, <2>5, <2>6
<1> QED
  BY <1>3, <1>4, <1>5 DEF Stays, m

(* The message for the payee follows when the FX provider has been paid.    *)
LEMMA ChainKept ==
  ASSUME BatchInv, BatchInv', TokenInv, CreditInv, NEW c \in Consumer, BatchActs(c),
         NEW x \in Transfer, IsPaid(x), NEW y \in ConversionsOf(x)
  PROVE  Chain(Paying(x), x, y)'
<1> DEFINE m == Paying(x)
<1>1. x \in Id /\ y \in Id /\ IsPaid(y) /\ ConversionsOf(x) = {y} /\ "credit" \in MoveKind
  BY TheConversion DEF IsPaid, Id, MoveKind
<1>2. /\ Once(m, x, "credit") /\ Chain(m, x, y) /\ IsToken(m, x, "credit")
      /\ FromHere(c)
  BY <1>1, WhereFrom DEF CreditInv, IsToken
<1>3. Stays(m, x, "credit")
  BY <1>1, <1>2, TokenStays
<1>4. /\ moved'[y]["credit"] >= moved[y]["credit"]
      /\ \A d \in Consumer : Grows(d) \/ (d = c /\ Ending(c))
  BY <1>1, RowsGrow
<1>5. /\ moved[y]["credit"] \in Nat /\ moved'[y]["credit"] \in Nat
      /\ \A d \in Consumer : /\ RowsOf(d)[y]["credit"] \in Nat /\ RowsOf(d)'[y]["credit"] \in Nat
                             /\ work[d].moved[y]["credit"] \in Nat
  BY <1>1, RowsOfType, RowsOfNext DEF Rows
<1> HIDE DEF m
<1>6. Coming(m)' \/ moved'[x]["credit"] # 0 => moved[y]["credit"] # 0
  <2>1. ASSUME NEW d \in Consumer, m \in work[d].followUps, ~Open(d) PROVE moved[y]["credit"] # 0
    BY <1>2, <2>1 DEF Chain, RowsOf
  <2> QED
    BY <1>2, <1>3, <2>1 DEF Stays, Chain
<1>7. ASSUME NEW d \in Consumer, m \in work'[d].followUps PROVE RowsOf(d)'[y]["credit"] # 0
  <2>1. Grows(d)
    BY <1>4, <1>7 DEF Ending
  <2>2. RowsOf(d)'[y]["credit"] >= RowsOf(d)[y]["credit"]
    BY <1>1, <2>1 DEF Grows
  <2>3. CASE m \in work[d].followUps
    <3>1. RowsOf(d)[y]["credit"] # 0
      BY <1>2, <2>3 DEF Chain
    <3> QED
      BY <1>5, <2>2, <3>1
  <2>4. CASE m \notin work[d].followUps
    <3>1. d = c /\ \E n, v : Working(c, n, v)
      BY <1>2, <1>7, <2>4 DEF FromHere, Alone
    <3>2. PICK n, v : Working(c, n, v)
      BY <3>1
    <3>3. /\ work[c] \in Work /\ Sound(n) /\ Token(n) /\ Effect(work[c], v, n)
          /\ m = Following(n) /\ ~IsLast(n) /\ n.action \in Aborts \union {"commit"}
      BY <1>7, <2>4, <3>1, <3>2, NewFollowUps
    <3>4. n.action = "commit"
      <4>1. n \in Message
        BY <3>3 DEF Sound
      <4>2. Following(n).action = n.action /\ m.action = "commit"
        BY <1>1, <4>1, FollowingIs, PayingIs DEF m
      <4> QED
        BY <3>3, <4>2
    <3>5. \E z \in ConversionsOf(x) : n = Paying(z)
      BY <1>1, <3>2, <3>3, <3>4, FollowsOnce DEF m
    <3>6. n = Paying(y) /\ NextMove(n) = y /\ n.account # NoAccount
      BY <1>1, <3>5, PayingIs DEF IsPaid
    <3>7. Made(work[c], v, n, y, "credit")
      BY <1>7, <2>4, <3>1, <3>2, <3>3, <3>4, <3>6 DEF Effect, Declines, Holds, Returns, Pays, GivesBack, Aborts, Working
    <3>8. v.moved[y]["credit"] = work[c].moved[y]["credit"] + 1
      <4> DEFINE w == work[c]
      <4>1. w \in Work /\ Made(w, v, n, y, "credit")
        BY <3>3, <3>7
      <4> HIDE DEF w
      <4>2. v.moved[y]["credit"] = w.moved[y]["credit"] + 1
        BY <1>1, <3>6, <4>1, MadeOne
      <4> QED
        BY <4>2 DEF w
    <3>9. Open(c)' /\ work'[c].moved = v.moved /\ moved' = moved
      BY <3>2 DEF Working, Open, RowsStay
    <3>10. RowsOf(c)'[y]["credit"] = moved'[y]["credit"] + work'[c].moved[y]["credit"]
      BY <1>1, <3>9, RowsOfNext
    <3> QED
      BY <1>5, <3>1, <3>8, <3>9, <3>10
  <2> QED
    BY <2>3, <2>4
<1>8. Coming(m)' \/ moved'[x]["credit"] # 0 => moved'[y]["credit"] # 0
  BY <1>4, <1>5, <1>6
<1> QED
  BY <1>7, <1>8 DEF Chain, m

LEMMA CreditsKept ==
  ASSUME BatchInv, BatchInv', TokenInv, TokenInv', CreditInv, NEW c \in Consumer, BatchActs(c), RequestsStay
  PROVE  CreditInv'
<1>1. ASSUME NEW x \in Id, IsPaid(x)
      PROVE  /\ Once(Paying(x), x, "credit")'
             /\ ~IsSecond(x) /\ "accept" \notin answers'[TransferOf(x)] => Nowhere(Paying(x), x, "credit")'
  <2> DEFINE m == Paying(x)
  <2>1. /\ Once(m, x, "credit") /\ IsToken(m, x, "credit") /\ "credit" \in MoveKind
        /\ ~IsSecond(x) /\ "accept" \notin answers[TransferOf(x)] => Nowhere(m, x, "credit")
        /\ ~IsSecond(x) => m.done = 0
    BY <1>1, PayingIs DEF CreditInv, IsToken, MoveKind
  <2> HIDE DEF m
  <2>2. Stays(m, x, "credit")
    BY <2>1, TokenStays
  <2>3. answers' = answers
    BY DEF RequestsStay
  <2>4. ~IsSecond(x) /\ "accept" \notin answers'[TransferOf(x)] => Nowhere(m, x, "credit")'
    BY <2>1, <2>2, <2>3, NowhereStays
  <2> QED
    BY <2>2, <2>4 DEF Stays, m
<1>2. \A x \in Transfer : IsPaid(x) => \A y \in ConversionsOf(x) : Chain(Paying(x), x, y)'
  BY ChainKept
<1> QED
  BY <1>1, <1>2 DEF CreditInv

(***************************************************************************)
(* What a batch tells is in its rows.                                       *)
(***************************************************************************)
LEMMA TellsMore ==
  ASSUME NEW rows \in Rows, NEW more \in Rows, NEW told, NEW less, TellsTrue(told, rows),
         \A x \in Id : \A k \in MoveKind : more[x][k] >= rows[x][k],
         \A x \in Id : less[x] \subseteq told[x]
  PROVE  TellsTrue(less, more)
<1>1. \A x \in Id : /\ PaidIn(x, rows) => PaidIn(x, more)
                    /\ GivenIn(x, rows) => GivenIn(x, more)
  BY DEF PaidIn, GivenIn, MoveKind, Rows
<1>2. \A t \in Transfer : t \in Id /\ \A x \in {t} \union ConversionsOf(t) : x \in Id
  BY DEF Id, ConversionsOf
<1> QED
  BY <1>1, <1>2 DEF TellsTrue

LEMMA TellsAlso ==
  ASSUME NEW a, NEW b, NEW told, NEW rows, TellsTrue(a, rows), TellsTrue(b, rows),
         \A x \in Id : told[x] \subseteq a[x] \union b[x]
  PROVE  TellsTrue(told, rows)
<1>1. \A t \in Transfer : t \in Id
  BY DEF Id
<1> QED
  BY <1>1 DEF TellsTrue

LEMMA TellsOf ==
  ASSUME NEW w, NEW v, NEW xs, NEW ns, AreTold(w, v, xs, ns), NEW rows, TellsTrue(w.notices, rows),
         "committed" \in ns =>
           /\ \A t \in Transfer : t \in xs => \A x \in {t} \union ConversionsOf(t) : PaidIn(x, rows)
           /\ \A x \in Conversion : x \in xs => PaidIn(x, rows),
         "aborted" \in ns =>
           \A t \in Transfer : t \in xs => \A x \in {t} \union ConversionsOf(t) : GivenIn(x, rows),
         {"aborted", "timedOut"} \intersect ns # {} => \A x \in Id : x \in xs => GivenIn(x, rows)
  PROVE  TellsTrue(v.notices, rows)
<1> DEFINE a == w.notices
           told == v.notices
           b == [x \in Id |-> IF x \in xs THEN ns ELSE {}]
<1>1. TellsTrue(b, rows)
  <2>1. \A t \in Transfer : t \in Id
    BY DEF Id
  <2>2. \A x \in Conversion : x \in Id
    BY DEF Id
  <2> QED
    BY <2>1, <2>2 DEF TellsTrue
<1>2. TellsTrue(a, rows)
  OBVIOUS
<1>3. \A x \in Id : told[x] \subseteq a[x] \union b[x]
  BY DEF AreTold
<1> HIDE DEF a, b, told
<1>4. TellsTrue(told, rows)
  BY <1>1, <1>2, <1>3, TellsAlso
<1> QED
  BY <1>4 DEF told

(* The movements that a message makes for what it tells.                    *)
LEMMA PaysWhatItTells ==
  ASSUME NEW w \in Work, NEW v, NEW m, Sound(m), Token(m), Pays(w, v, m), NEW rows \in Rows,
         \A x \in Id : \A k \in MoveKind : rows[x][k] >= v.moved[x][k],
         \A t \in Transfer : IsPaid(t) /\ m = Paying(t) => \A y \in ConversionsOf(t) : PaidIn(y, rows)
  PROVE  /\ PaidIn(NextMove(m), rows)
         /\ IsLast(m) => \A x \in {m.id} \union ConversionsOf(m.id) : PaidIn(x, rows)
<1> DEFINE y == NextMove(m)
<1>1. /\ y \in Id /\ IsPaid(y) /\ m = Paying(y) /\ Made(w, v, m, y, "credit") /\ m \in Message
      /\ "credit" \in MoveKind
  BY NextMoveType DEF Pays, Token, MoveKind
<1>2. /\ m.id = TransferOf(y) /\ m.account # NoAccount /\ m.plan = ProcessFulfil(TransferOf(y)).plan
      /\ m.done = IF IsSecond(y) THEN 1 ELSE 0
  BY <1>1, PayingIs DEF IsPaid
<1> HIDE DEF y
<1>3. v.moved[y]["credit"] = w.moved[y]["credit"] + 1 /\ w.moved[y]["credit"] \in Nat
  BY <1>1, <1>2, MadeOne
<1>4. PaidIn(y, rows)
  BY <1>1, <1>3 DEF PaidIn, Rows
<1>5. ASSUME IsLast(m), NEW x \in {m.id} \union ConversionsOf(m.id) PROVE PaidIn(x, rows)
  <2> DEFINE t == TransferOf(y)
  <2>1. t \in Transfer /\ y \in {t} \union ConversionsOf(t) /\ m.id = t
    BY <1>1, <1>2, TransferOfType
  <2> HIDE DEF t
  <2>2. CASE x = y
    BY <1>4, <2>2
  <2>3. CASE x # y /\ x \in ConversionsOf(t)
    <3>1. y = t
      BY <1>5, <2>1, <2>3, TheConversion
    <3> QED
      BY <1>1, <2>1, <2>3, <3>1
  <2>4. CASE x # y /\ x = t
    <3>1. y \in ConversionsOf(t) /\ y \in Conversion /\ y \notin Transfer
      BY <2>1, <2>4, PaymentAssumption DEF ConversionsOf
    <3>2. m.done = 0 /\ m.plan = IF IsPaid(t) THEN <<y, t>> ELSE <<y>>
      BY <1>2, <2>1, <3>1, PlanOfTransfer DEF IsSecond, t
    <3>3. ~IsPaid(t)
      BY <1>5, <3>2 DEF IsLast
    <3> QED
      BY <2>4, <3>3 DEF PaidIn
  <2> QED
    BY <1>5, <2>1, <2>2, <2>3, <2>4
<1> QED
  BY <1>4, <1>5 DEF y

LEMMA GivesWhatItTells ==
  ASSUME NEW w \in Work, NEW v, NEW m, Sound(m), Token(m), GivesBack(w, v, m), NEW rows \in Rows,
         \A x \in Id : \A k \in MoveKind : rows[x][k] >= v.moved[x][k],
         FirstIn(m, rows)
  PROVE  /\ GivenIn(NextMove(m), rows)
         /\ IsLast(m) => \A y \in NotifiedOf(m) : \A x \in {y} \union ConversionsOf(y) : GivenIn(x, rows)
<1> DEFINE y == NextMove(m)
<1>1. /\ y \in Id /\ m.action \in Aborts /\ Made(w, v, m, y, "refund") /\ m \in Message
      /\ "refund" \in MoveKind /\ m.account = DebitAccount[y]
  BY NextMoveType DEF GivesBack, MoveKind, Sound, AccountFor, KindOf, Aborts
<1>2. y = m.plan[m.done + 1]
  BY DEF NextMove
<1> HIDE DEF y
<1>3. GivenIn(y, rows)
  <2>1. m.account # NoAccount => v.moved[y]["refund"] = w.moved[y]["refund"] + 1 /\ w.moved[y]["refund"] \in Nat
    BY <1>1, MadeMoves, WorkType
  <2> QED
    BY <1>1, <2>1 DEF GivenIn, Rows
<1>4. ASSUME IsLast(m), NEW x \in Range(m.plan) PROVE GivenIn(x, rows)
  <2>1. m.plan \in Plan /\ m.done \in 0..1 /\ m.done + 1 = Len(m.plan)
    BY <1>1, <1>4, MessageType DEF IsLast
  <2>2. DOMAIN m.plan = 1..Len(m.plan)
    BY <2>1, PlanType
  <2>3. PICK i \in 1..Len(m.plan) : x = m.plan[i]
    BY <1>4, <2>2 DEF Range
  <2>4. i = m.done + 1 \/ (m.done = 1 /\ i = 1)
    <3> DEFINE n == Len(m.plan)
    <3>1. i \in 1..n /\ n = m.done + 1
      BY <2>1, <2>3
    <3> HIDE DEF n
    <3> QED
      BY <2>1, <3>1
  <2>5. CASE i = m.done + 1
    BY <1>2, <1>3, <2>3, <2>5
  <2>6. CASE m.done = 1 /\ i = 1
    BY <1>1, <2>3, <2>6 DEF FirstIn
  <2> QED
    BY <2>4, <2>5, <2>6
<1>5. ASSUME IsLast(m), NEW z \in NotifiedOf(m), NEW x \in {z} \union ConversionsOf(z)
      PROVE  GivenIn(x, rows)
  <2>1. x \in Range(m.plan) \/ DebitAccount[x] = NoAccount
    BY <1>1, <1>5 DEF Token
  <2> QED
    BY <1>4, <1>5, <2>1 DEF GivenIn
<1> QED
  BY <1>3, <1>5 DEF y

LEMMA ReturnsWhatItTells ==
  ASSUME NEW w \in Work, NEW v, NEW m, Sound(m), Returns(w, v, m), NEW rows \in Rows,
         \A x \in Id : \A k \in MoveKind : rows[x][k] >= v.moved[x][k]
  PROVE  GivenIn(m.id, rows)
<1>1. Made(w, v, m, m.id, "refund") /\ m.account = DebitAccount[m.id]
  BY DEF Sound, Returns, Own
<1> DEFINE z == m.id
<1>2. z \in Id /\ Made(w, v, m, z, "refund") /\ "refund" \in MoveKind
  BY <1>1, MessageType DEF Sound, MoveKind
<1> HIDE DEF z
<1>3. m.account # NoAccount => v.moved[z]["refund"] = w.moved[z]["refund"] + 1 /\ w.moved[z]["refund"] \in Nat
  BY <1>2, MadeOne
<1> QED
  BY <1>1, <1>2, <1>3 DEF GivenIn, Rows, z

LEMMA EffectTells ==
  ASSUME NEW w \in Work, NEW v, NEW m, Sound(m), Token(m), Effect(w, v, m), NEW rows \in Rows,
         \A x \in Id : \A k \in MoveKind : rows[x][k] >= v.moved[x][k],
         \A t \in Transfer : IsPaid(t) /\ m = Paying(t) => \A y \in ConversionsOf(t) : PaidIn(y, rows),
         FirstIn(m, rows), TellsTrue(w.notices, rows)
  PROVE  /\ TellsTrue(v.notices, rows)
         /\ m.action \in Aborts => v.followUps = w.followUps \/ GivenIn(NextMove(m), rows)
<1> DEFINE y == NextMove(m)
           last == IF IsLast(m) THEN {m.id} ELSE {}
           told == IF IsLast(m) THEN NotifiedOf(m) ELSE {}
<1>1. m \in Message /\ m.id \in Id
  BY MessageType DEF Sound
<1>2. CASE Declines(w, v, m)
  <2>1. AreTold(w, v, {m.id}, {"accepted", "fulfilError", "prepareError"}) /\ v.followUps = w.followUps
    BY <1>2 DEF Declines
  <2>2. TellsTrue(v.notices, rows)
    BY <2>1, TellsOf
  <2> QED
    BY <2>1, <2>2
<1>3. CASE Holds(w, v, m)
  <2>1. AreTold(w, v, {m.id}, {"prepared"}) /\ v.followUps = w.followUps
    BY <1>3 DEF Holds
  <2>2. TellsTrue(v.notices, rows)
    BY <2>1, TellsOf
  <2> QED
    BY <2>1, <2>2
<1>4. CASE Returns(w, v, m)
  <2>1. AreTold(w, v, {m.id}, {"timedOut"}) /\ v.followUps = w.followUps
    BY <1>4 DEF Returns
  <2>2. GivenIn(m.id, rows)
    BY <1>4, ReturnsWhatItTells
  <2>3. TellsTrue(v.notices, rows)
    BY <2>1, <2>2, TellsOf
  <2> QED
    BY <2>1, <2>3
<1>5. CASE Pays(w, v, m)
  <2>1. AreTold(w, v, ({y} \intersect Conversion) \union last, {"committed"})
    BY <1>5 DEF Pays
  <2>2. /\ PaidIn(y, rows)
        /\ IsLast(m) => \A x \in {m.id} \union ConversionsOf(m.id) : PaidIn(x, rows)
    BY <1>5, PaysWhatItTells
  <2>3. m.action = "commit" /\ m.id \in Transfer
    BY <1>5 DEF Pays, Sound, OfTransfer
  <2> HIDE DEF y
  <2>4. \A t \in Transfer : t \in ({y} \intersect Conversion) \union last =>
          \A x \in {t} \union ConversionsOf(t) : PaidIn(x, rows)
    BY <2>2, PaymentAssumption
  <2>5. \A x \in Conversion : x \in ({y} \intersect Conversion) \union last => PaidIn(x, rows)
    BY <2>2
  <2> HIDE DEF last
  <2>6. TellsTrue(v.notices, rows)
    BY <2>1, <2>4, <2>5, TellsOf
  <2> QED
    BY <2>3, <2>6 DEF Aborts
<1>6. CASE GivesBack(w, v, m)
  <2>1. AreTold(w, v, ({y} \intersect Conversion) \union told, {"aborted"})
    BY <1>6 DEF GivesBack
  <2>2. /\ GivenIn(y, rows)
        /\ IsLast(m) => \A z \in NotifiedOf(m) : \A x \in {z} \union ConversionsOf(z) : GivenIn(x, rows)
    BY <1>6, GivesWhatItTells
  <2> HIDE DEF y
  <2>4. \A t \in Transfer : t \in ({y} \intersect Conversion) \union told =>
          \A x \in {t} \union ConversionsOf(t) : GivenIn(x, rows)
    BY <2>2, PaymentAssumption
  <2>5. \A x \in Id : x \in ({y} \intersect Conversion) \union told => GivenIn(x, rows)
    BY <2>2
  <2> HIDE DEF told
  <2>6. TellsTrue(v.notices, rows)
    BY <2>1, <2>4, <2>5, TellsOf
  <2> QED
    BY <2>2, <2>6 DEF y
<1> QED
  BY <1>2, <1>3, <1>4, <1>5, <1>6 DEF Effect

(* What is stored tells as much.                                            *)
LEMMA SaysOf ==
  ASSUME NEW w, NEW v, NEW xs, NEW s, StatesBecome(w, v, xs, s), NEW rows, TellsTrue(Said(w.rows), rows),
         s = "COMMITTED" =>
           /\ \A t \in Transfer : t \in xs => \A x \in {t} \union ConversionsOf(t) : PaidIn(x, rows)
           /\ \A x \in Conversion : x \in xs => PaidIn(x, rows),
         s = "ABORTED_ERROR" =>
           \A t \in Transfer : t \in xs => \A x \in {t} \union ConversionsOf(t) : GivenIn(x, rows),
         s \in {"ABORTED_ERROR", "EXPIRED_RESERVED"} => \A x \in Id : x \in xs => GivenIn(x, rows)
  PROVE  TellsTrue(Said(v.rows), rows)
<1> DEFINE a == [notices |-> Said(w.rows)]
           b == [notices |-> Said(v.rows)]
           ns == Meaning(s)
<1>1. AreTold(a, b, xs, ns)
  BY DEF StatesBecome, AreTold, Said
<1>2. TellsTrue(a.notices, rows)
  OBVIOUS
<1>3. /\ "committed" \in ns => s = "COMMITTED"
      /\ "aborted" \in ns => s = "ABORTED_ERROR"
      /\ {"aborted", "timedOut"} \intersect ns # {} => s \in {"ABORTED_ERROR", "EXPIRED_RESERVED"}
  BY DEF Meaning
<1>4. b.notices = Said(v.rows)
  OBVIOUS
<1> HIDE DEF a, b, ns
<1>5. TellsTrue(b.notices, rows)
  BY <1>1, <1>2, <1>3, TellsOf
<1> QED
  BY <1>4, <1>5

(* A settlement changes the state of a transfer last.                       *)
LEMMA PaysReached ==
  ASSUME NEW m, Sound(m), Token(m), m.action = "commit"
  PROVE  \A x \in Reached(m) : IF x \in Transfer THEN x = m.id /\ IsLast(m) ELSE x = NextMove(m)
<1> DEFINE y == NextMove(m)
           t == TransferOf(y)
<1>1. /\ y \in Id /\ IsPaid(y) /\ m = Paying(y) /\ m \in Message
      /\ m.id = t /\ m.unmoved = ProcessFulfil(t).unmoved /\ t \in Transfer
  BY NextMoveType, PayingIs, TransferOfType DEF Token
<1>2. m.unmoved \subseteq {t}
  BY <1>1 DEF ProcessFulfil
<1>3. y \in Transfer => y = t /\ IsLast(m)
  <2>1. ~IsLast(m) => y \in ConversionsOf(t)
    BY <1>1, PayingFollows
  <2>2. y \in Transfer => y = t /\ y \notin ConversionsOf(t)
    BY PaymentAssumption DEF TransferOf, ConversionsOf
  <2> QED
    BY <2>1, <2>2
<1> HIDE DEF y, t
<1>4. \A x \in Reached(m) : x = y \/ (x \in m.unmoved /\ IsLast(m))
  BY DEF Reached, y
<1> QED
  BY <1>1, <1>2, <1>3, <1>4 DEF y

LEMMA GivesReached ==
  ASSUME NEW m, Sound(m), Token(m), m.action \in Aborts
  PROVE  \A x \in Reached(m) : IF x \in Transfer THEN x \in NotifiedOf(m) /\ IsLast(m) ELSE x = NextMove(m)
<1>1. m \in Message /\ NextMove(m) \in Range(m.plan) /\ m.unmoved \subseteq Transfer
  BY NextMoveType, MessageType
<1>2. NextMove(m) \in Transfer => IsLast(m)
  BY DEF Token
<1> QED
  BY <1>1, <1>2 DEF Reached, NotifiedOf

LEMMA EffectSays ==
  ASSUME NEW w \in Work, NEW v, NEW m, Sound(m), Token(m), Effect(w, v, m), NEW rows \in Rows,
         \A x \in Id : \A k \in MoveKind : rows[x][k] >= v.moved[x][k],
         \A t \in Transfer : IsPaid(t) /\ m = Paying(t) => \A y \in ConversionsOf(t) : PaidIn(y, rows),
         FirstIn(m, rows), TellsTrue(Said(w.rows), rows)
  PROVE  TellsTrue(Said(v.rows), rows)
<1>1. CASE Declines(w, v, m) \/ Holds(w, v, m)
  <2>1. \E s \in {"ABORTED_REJECTED", "RESERVED"} : StatesBecome(w, v, {m.id}, s)
    BY <1>1 DEF Declines, Holds
  <2> QED
    BY <2>1, SaysOf
<1>2. CASE Returns(w, v, m)
  <2>1. StatesBecome(w, v, {m.id}, "EXPIRED_RESERVED") /\ GivenIn(m.id, rows)
    BY <1>2, ReturnsWhatItTells DEF Returns
  <2> QED
    BY <2>1, SaysOf
<1>3. CASE Pays(w, v, m)
  <2> DEFINE xs == Reached(m)
  <2>1. m.action = "commit" /\ StatesBecome(w, v, xs, "COMMITTED")
    BY <1>3 DEF Pays
  <2>2. \A x \in xs : IF x \in Transfer THEN x = m.id /\ IsLast(m) ELSE x = NextMove(m)
    BY <2>1, PaysReached
  <2>3. /\ PaidIn(NextMove(m), rows)
        /\ IsLast(m) => \A x \in {m.id} \union ConversionsOf(m.id) : PaidIn(x, rows)
    BY <1>3, PaysWhatItTells
  <2> HIDE DEF xs
  <2>4. /\ \A t \in Transfer : t \in xs => \A x \in {t} \union ConversionsOf(t) : PaidIn(x, rows)
        /\ \A x \in Conversion : x \in xs => PaidIn(x, rows)
    BY <2>2, <2>3
  <2> QED
    BY <2>1, <2>4, SaysOf
<1>4. CASE GivesBack(w, v, m)
  <2> DEFINE xs == Reached(m)
  <2>1. m.action \in Aborts /\ StatesBecome(w, v, xs, "ABORTED_ERROR")
    BY <1>4 DEF GivesBack
  <2>2. \A x \in xs : IF x \in Transfer THEN x \in NotifiedOf(m) /\ IsLast(m) ELSE x = NextMove(m)
    BY <2>1, GivesReached
  <2>3. /\ GivenIn(NextMove(m), rows)
        /\ IsLast(m) => \A y \in NotifiedOf(m) : \A x \in {y} \union ConversionsOf(y) : GivenIn(x, rows)
    BY <1>4, GivesWhatItTells
  <2> HIDE DEF xs
  <2>4. /\ \A t \in Transfer : t \in xs => \A x \in {t} \union ConversionsOf(t) : GivenIn(x, rows)
        /\ \A x \in Id : x \in xs => GivenIn(x, rows)
    BY <2>2, <2>3
  <2> QED
    BY <2>1, <2>4, SaysOf
<1> QED
  BY <1>1, <1>2, <1>3, <1>4 DEF Effect

LEMMA NothingTold ==
  ASSUME NEW told, NEW rows, \A x \in Id : told[x] = {}
  PROVE  TellsTrue(told, rows)
<1>1. \A t \in Transfer : t \in Id
  BY DEF Id
<1> QED
  BY <1>1 DEF TellsTrue

LEMMA FirstMore ==
  ASSUME NEW rows \in Rows, NEW more \in Rows, NEW m, Sound(m), FirstIn(m, rows),
         \A x \in Id : \A k \in MoveKind : more[x][k] >= rows[x][k]
  PROVE  FirstIn(m, more)
<1> SUFFICES ASSUME m.action \in Aborts, m.done = 1 PROVE GivenIn(m.plan[1], more)
  BY DEF FirstIn
<1>1. m \in Message /\ m.plan \in Plan /\ m.done < Len(m.plan)
  BY MessageType DEF Sound
<1> DEFINE x == m.plan[1]
<1>2. x \in Id
  BY <1>1, PlanType
<1>3. GivenIn(x, rows)
  BY DEF FirstIn
<1> HIDE DEF x
<1>4. GivenIn(x, more)
  BY <1>2, <1>3 DEF GivenIn, Rows, MoveKind
<1> QED
  BY <1>4 DEF x

(* A batch that works a message.                                            *)
LEMMA WorkTells ==
  ASSUME BatchInv, BatchInv', TokenInv, CreditInv, ToldInv, NEW c \in Consumer,
         NEW n, NEW v, Working(c, n, v)
  PROVE  /\ TellsTrue(work'[c].notices, RowsOf(c)')
         /\ TellsTrue(Said(work[c].rows), RowsOf(c)) => TellsTrue(Said(work'[c].rows), RowsOf(c)')
         /\ \A f \in work'[c].followUps : FirstIn(f, RowsOf(c)')
<1> DEFINE rows == RowsOf(c)'
           w == work[c]
<1>1. /\ w \in Work /\ Sound(n) /\ Token(n) /\ Effect(w, v, n) /\ work'[c].followUps = v.followUps
      /\ \A f \in v.followUps : \/ f \in w.followUps
                                \/ /\ f = Following(n) /\ ~IsLast(n) /\ n.action \in Aborts \union {"commit"}
                                   /\ f.done = 1 /\ Token(f)
  BY NewFollowUps
<1>2. /\ work'[c].notices = v.notices /\ work'[c].moved = v.moved /\ moved' = moved
      /\ Open(c) /\ Open(c)' /\ n \in w.batch /\ HandlerOf(n) = c /\ work'[c].rows = v.rows
  BY Messages DEF Working, RowsStay, Open
<1>3. /\ rows \in Rows /\ moved \in Rows /\ RowsOf(c) \in Rows /\ v.moved \in Rows
      /\ \A x \in Id : \A k \in MoveKind : rows[x][k] = moved[x][k] + v.moved[x][k]
  <2>1. RowsOf(c)' = [x \in Id |-> [k \in MoveKind |-> moved'[x][k] + work'[c].moved[x][k]]]
    BY <1>2 DEF RowsOf, InsertedMoves
  <2> QED
    BY <1>2, <2>1, RowsOfType, RowsOfNext DEF Rows
<1>4. \A x \in Id : \A k \in MoveKind : /\ rows[x][k] >= v.moved[x][k] /\ rows[x][k] >= moved[x][k]
                                        /\ rows[x][k] >= RowsOf(c)[x][k]
  <2>1. Grows(c) \/ Ending(c)
    BY <1>2, RowsGrow DEF BatchActs
  <2>2. Grows(c)
    BY <1>2, <2>1 DEF Ending, Open
  <2> QED
    BY <1>3, <2>2 DEF Grows, Rows
<1> HIDE DEF rows
<1>5. ASSUME NEW t \in Transfer, IsPaid(t), n = Paying(t), NEW y \in ConversionsOf(t)
      PROVE  PaidIn(y, rows)
  <2>1. Coming(n)
    BY <1>2 DEF Coming
  <2>2. moved[y]["credit"] # 0 /\ y \in Id /\ "credit" \in MoveKind
    BY <1>5, <2>1, TheConversion DEF CreditInv, Chain, Id, MoveKind
  <2> QED
    BY <1>3, <1>4, <2>2 DEF PaidIn, Rows
<1>6. FirstIn(n, rows)
  <2>1. FirstIn(n, moved)
    BY <1>2 DEF ToldInv
  <2> QED
    BY <1>1, <1>3, <1>4, <2>1, FirstMore
<1>7. TellsTrue(w.notices, rows)
  <2>1. TellsTrue(w.notices, RowsOf(c))
    BY DEF ToldInv
  <2> HIDE DEF w
  <2> QED
    BY <1>3, <1>4, <2>1, TellsMore
<1> HIDE DEF w
<1>8. /\ TellsTrue(v.notices, rows)
      /\ n.action \in Aborts => v.followUps = w.followUps \/ GivenIn(NextMove(n), rows)
  BY <1>1, <1>3, <1>4, <1>5, <1>6, <1>7, EffectTells
<1>9. ASSUME NEW f \in v.followUps PROVE FirstIn(f, rows)
  <2>1. CASE f \in w.followUps
    <3>1. FirstIn(f, RowsOf(c)) /\ Sound(f)
      BY <2>1, Messages DEF ToldInv, w
    <3> QED
      BY <1>3, <1>4, <3>1, FirstMore
  <2>2. CASE f \notin w.followUps
    <3>1. f = Following(n) /\ ~IsLast(n) /\ n.action \in Aborts \union {"commit"}
      BY <1>1, <1>9, <2>2
    <3>2. n \in Message /\ f.action = n.action /\ f.plan = n.plan /\ NextMove(n) = n.plan[1]
      BY <1>1, <3>1, NotLast, FollowingIs
    <3>3. n.action \in Aborts => GivenIn(n.plan[1], rows)
      BY <1>8, <1>9, <2>2, <3>2
    <3> QED
      BY <3>2, <3>3 DEF FirstIn
  <2> QED
    BY <2>1, <2>2
<1>10. ASSUME TellsTrue(Said(w.rows), RowsOf(c)) PROVE TellsTrue(Said(v.rows), rows)
  <2>1. TellsTrue(Said(w.rows), rows)
    BY <1>3, <1>4, <1>10, TellsMore
  <2> QED
    BY <1>1, <1>3, <1>4, <1>5, <1>6, <2>1, EffectSays
<1> QED
  BY <1>1, <1>2, <1>8, <1>9, <1>10 DEF rows, w

LEMMA ToldKept ==
  ASSUME BatchInv, BatchInv', TokenInv, CreditInv, ToldInv, NEW c \in Consumer, BatchActs(c)
  PROVE  ToldInv'
<1>1. /\ FromHere(c)
      /\ \A x \in Id : \A k \in MoveKind : moved'[x][k] >= moved[x][k]
      /\ \A d \in Consumer : Grows(d) \/ (d = c /\ Ending(c))
  BY WhereFrom, RowsGrow
<1>2. /\ moved \in Rows /\ moved' \in Rows
      /\ \A d \in Consumer : RowsOf(d) \in Rows /\ RowsOf(d)' \in Rows
  BY RowsOfType, RowsOfNext
<1>3. /\ \A m \in pending : Sound(m) /\ FirstIn(m, moved)
      /\ \A d \in Consumer : /\ \A m \in unacked[d] \union work[d].batch : Sound(m) /\ FirstIn(m, moved)
                             /\ \A m \in work[d].followUps : Sound(m) /\ FirstIn(m, RowsOf(d))
  BY Messages DEF ToldInv, BatchInv
<1>4. \A m \in pending \union unacked[c] \union work[c].batch : FirstIn(m, moved')
  BY <1>1, <1>2, <1>3, FirstMore
<1>5. TellsTrue(notified', moved')
  <2>1. notified' = notified \/ Producing(c)
    BY DEF BatchActs, Taking, GivingUp, Working, CommittingOffset, CommittingTrx, Crashing, RowsStay
  <2>2. CASE notified' = notified
    <3>1. TellsTrue(notified, moved)
      BY DEF ToldInv
    <3>2. TellsTrue(notified, moved')
      BY <1>1, <1>2, <3>1, TellsMore
    <3> QED
      BY <2>2, <3>2
  <2>3. CASE Producing(c)
    <3> DEFINE b == work[c].notices
    <3>1. moved' = moved /\ ~Open(c) /\ \A x \in Id : notified'[x] \subseteq notified[x] \union b[x]
      BY <2>3 DEF Producing, Open
    <3>2. TellsTrue(notified, moved) /\ TellsTrue(b, moved)
      BY <3>1 DEF ToldInv, RowsOf
    <3> HIDE DEF b
    <3>3. TellsTrue(notified', moved)
      BY <3>1, <3>2, TellsAlso
    <3> QED
      BY <3>1, <3>3
  <2> QED
    BY <2>1, <2>2, <2>3
<1>6. ASSUME NEW d \in Consumer, work'[d].notices = work[d].notices PROVE TellsTrue(work'[d].notices, RowsOf(d)')
  <2> DEFINE told == work[d].notices
             rows == RowsOf(d)
             more == RowsOf(d)'
  <2>1. TellsTrue(told, rows) /\ rows \in Rows /\ more \in Rows
    BY <1>2 DEF ToldInv
  <2>2. CASE Grows(d)
    <3>1. \A x \in Id : \A k \in MoveKind : more[x][k] >= rows[x][k]
      BY <2>2 DEF Grows
    <3> HIDE DEF told, rows, more
    <3>2. TellsTrue(told, more)
      BY <2>1, <3>1, TellsMore
    <3> QED
      BY <1>6, <3>2 DEF told, more
  <2>3. CASE d = c /\ Ending(c)
    <3>1. \A x \in Id : work'[d].notices[x] = {}
      BY <2>3 DEF Ending
    <3> QED
      BY <3>1, NothingTold
  <2> QED
    BY <1>1, <2>2, <2>3
<1>7. TellsTrue(work'[c].notices, RowsOf(c)')
  <2>1. \/ \A x \in Id : work'[c].notices[x] = {}
        \/ work'[c].notices = work[c].notices
        \/ \E n, v : Working(c, n, v)
    BY DEF BatchActs, Taking, GivingUp, CommittingOffset, CommittingTrx, Producing, Crashing, SameBatch, Ending
  <2>2. CASE \A x \in Id : work'[c].notices[x] = {}
    BY <2>2, NothingTold
  <2>3. CASE work'[c].notices = work[c].notices
    BY <1>6, <2>3
  <2>4. CASE \E n, v : Working(c, n, v)
    BY <2>4, WorkTells
  <2> QED
    BY <2>1, <2>2, <2>3, <2>4
<1>8. ASSUME NEW m \in pending' PROVE FirstIn(m, moved')
  <2>1. CASE m \in pending \union unacked[c] \union work[c].batch
    BY <1>4, <2>1
  <2>2. CASE m \in work[c].followUps /\ ~Open(c)
    <3>1. Sound(m) /\ FirstIn(m, moved)
      BY <1>3, <2>2 DEF RowsOf
    <3> QED
      BY <1>1, <1>2, <3>1, FirstMore
  <2> QED
    BY <1>1, <1>8, <2>1, <2>2 DEF FromHere
<1>9. ASSUME NEW d \in Consumer, NEW m \in work[d].followUps, Grows(d) PROVE FirstIn(m, RowsOf(d)')
  <2> DEFINE rows == RowsOf(d)
             more == RowsOf(d)'
  <2>1. Sound(m) /\ FirstIn(m, rows) /\ rows \in Rows /\ more \in Rows
    BY <1>2, <1>3, <1>9
  <2>2. \A x \in Id : \A k \in MoveKind : more[x][k] >= rows[x][k]
    BY <1>9 DEF Grows
  <2> HIDE DEF rows, more
  <2>3. FirstIn(m, more)
    BY <2>1, <2>2, FirstMore
  <2> QED
    BY <2>3 DEF more
<1>10. ASSUME NEW d \in Consumer
       PROVE  /\ TellsTrue(work'[d].notices, RowsOf(d)')
              /\ \A m \in unacked'[d] \union work'[d].batch : FirstIn(m, moved')
              /\ \A m \in work'[d].followUps : FirstIn(m, RowsOf(d)')
  <2>1. CASE d # c
    <3>1. work'[d] = work[d] /\ unacked'[d] = unacked[d]
      BY <1>1, <2>1 DEF FromHere, Alone
    <3>2. Grows(d)
      BY <1>1, <2>1
    <3>3. \A m \in unacked[d] \union work[d].batch : FirstIn(m, moved')
      BY <1>1, <1>2, <1>3, FirstMore
    <3>4. \A m \in work[d].followUps : FirstIn(m, RowsOf(d)')
      BY <1>9, <3>2
    <3> QED
      BY <1>6, <3>1, <3>3, <3>4
  <2>2. CASE d = c
    <3>1. \A m \in unacked'[c] \union work'[c].batch : FirstIn(m, moved')
      BY <1>1, <1>4 DEF FromHere
    <3>2. \A m \in work'[c].followUps : FirstIn(m, RowsOf(c)')
      <4>1. CASE Ending(c)
        BY <4>1 DEF Ending
      <4>2. CASE Grows(c) /\ work'[c].followUps \subseteq work[c].followUps
        BY <1>9, <4>2
      <4>3. CASE \E n, v : Working(c, n, v)
        BY <4>3, WorkTells
      <4> QED
        BY <1>1, <4>1, <4>2, <4>3 DEF FromHere
    <3> QED
      BY <1>7, <2>2, <3>1, <3>2
  <2> QED
    BY <2>1, <2>2
<1> QED
  BY <1>5, <1>8, <1>10 DEF ToldInv

(***************************************************************************)
(* Requests.  A message that reserves comes with the row that stores its    *)
(* transfer or conversion, the first one that pays with the payee's answer. *)
(***************************************************************************)
Fresh(m) ==
  /\ Token(m) /\ m.done = 0
  /\ m.action \in {"prepare", "fxPrepare"} => state[m.id] = "none" /\ state'[m.id] # "none"
  /\ m.action = "commit" =>
       LET t == TransferOf(NextMove(m))
       IN ~IsSecond(NextMove(m)) /\ "accept" \notin answers[t] /\ "accept" \in answers'[t]

Asks ==
  /\ HandlersStay
  /\ pending \subseteq pending' /\ \A m \in pending' : m \in pending \/ Fresh(m)
  /\ \A x \in Id : state'[x] = "none" => state[x] = "none"
  /\ \A x \in Id : answers[x] \subseteq answers'[x]

LEMMA AskedTokens ==
  ASSUME TokenInv, ToldInv, Asks
  PROVE  TokenInv' /\ ToldInv'
<1>1. /\ moved' = moved /\ work' = work /\ unacked' = unacked /\ notified' = notified
      /\ \A m \in pending' : m \in pending \/ (Token(m) /\ m.done = 0)
  BY DEF Asks, HandlersStay, Fresh
<1>2. TokenInv'
  BY <1>1 DEF TokenInv
<1>3. \A d \in Consumer : RowsOf(d)' = RowsOf(d)
  BY <1>1 DEF RowsOf, Open, InsertedMoves
<1>4. \A m \in pending' : FirstIn(m, moved)
  <2>1. \A m \in pending : FirstIn(m, moved)
    BY DEF ToldInv
  <2>2. \A m : m.done = 0 => FirstIn(m, moved)
    BY DEF FirstIn
  <2> QED
    BY <1>1, <2>1, <2>2
<1>5. /\ TellsTrue(notified', moved')
      /\ \A d \in Consumer : /\ TellsTrue(work'[d].notices, RowsOf(d)')
                             /\ \A m \in unacked'[d] \union work'[d].batch : FirstIn(m, moved')
                             /\ \A m \in work'[d].followUps : FirstIn(m, RowsOf(d)')
  BY <1>1, <1>3 DEF ToldInv
<1> QED
  BY <1>1, <1>2, <1>4, <1>5 DEF ToldInv

LEMMA AskedDebits ==
  ASSUME DebitInv, Asks
  PROVE  DebitInv'
<1> SUFFICES ASSUME NEW x \in Id
             PROVE  /\ Once(Asking(x), x, "debit")'
                    /\ state'[x] = "none" => Nowhere(Asking(x), x, "debit")'
                    /\ DebitAccount[x] = NoAccount =>
                         moved'[x]["debit"] = 0 /\ \A d \in Consumer : work'[d].moved[x]["debit"] = 0
  BY DEF DebitInv
<1> DEFINE m == Asking(x)
<1>1. /\ Once(m, x, "debit") /\ "debit" \in MoveKind
      /\ state[x] = "none" => Nowhere(m, x, "debit")
      /\ DebitAccount[x] = NoAccount =>
           moved[x]["debit"] = 0 /\ \A d \in Consumer : work[d].moved[x]["debit"] = 0
  BY DEF DebitInv, MoveKind
<1>2. m.id = x /\ m.action \in {"prepare", "fxPrepare"} /\ HandlerOf(m) \in Consumer
  BY AskingIs
<1> HIDE DEF m
<1>3. m \in pending' => m \in pending \/ (state[x] = "none" /\ state'[x] # "none")
  BY <1>2 DEF Asks, Fresh
<1>4. HandlersStay /\ pending \subseteq pending' /\ (state'[x] = "none" => state[x] = "none")
  BY DEF Asks
<1>5. Once(m, x, "debit")'
  BY <1>1, <1>2, <1>3, <1>4, OnceAsking
<1>6. state'[x] = "none" => Nowhere(m, x, "debit")'
  BY <1>1, <1>3, <1>4 DEF Nowhere, Coming, Followed, Open, HandlersStay
<1> QED
  BY <1>1, <1>4, <1>5, <1>6 DEF m, HandlersStay

LEMMA AskedCredits ==
  ASSUME CreditInv, Asks
  PROVE  CreditInv'
<1>1. ASSUME NEW x \in Id, IsPaid(x)
      PROVE  /\ Paying(x) \in pending' => \/ Paying(x) \in pending
                                          \/ /\ ~IsSecond(x) /\ "accept" \notin answers[TransferOf(x)]
                                             /\ "accept" \in answers'[TransferOf(x)]
             /\ HandlerOf(Paying(x)) \in Consumer
  <2>1. NextMove(Paying(x)) = x /\ Paying(x).action = "commit" /\ HandlerOf(Paying(x)) \in Consumer
    BY <1>1, PayingIs
  <2> QED
    BY <2>1 DEF Asks, Fresh
<1>2. HandlersStay /\ pending \subseteq pending'
  BY DEF Asks
<1>3. ASSUME NEW x \in Id, IsPaid(x)
      PROVE  /\ Once(Paying(x), x, "credit")'
             /\ ~IsSecond(x) /\ "accept" \notin answers'[TransferOf(x)] => Nowhere(Paying(x), x, "credit")'
  <2> DEFINE m == Paying(x)
             t == TransferOf(x)
  <2>1. /\ Once(m, x, "credit") /\ "credit" \in MoveKind
        /\ ~IsSecond(x) /\ "accept" \notin answers[t] => Nowhere(m, x, "credit")
    BY <1>3 DEF CreditInv, MoveKind
  <2>2. /\ m \in pending' => m \in pending \/ (~IsSecond(x) /\ "accept" \notin answers[t] /\ "accept" \in answers'[t])
        /\ HandlerOf(m) \in Consumer
    BY <1>1, <1>3
  <2>3. answers[t] \subseteq answers'[t]
    BY TransferOfType DEF Asks, Id
  <2> HIDE DEF m, t
  <2>4. Once(m, x, "credit")'
    BY <1>2, <2>1, <2>2, OnceAsking
  <2>5. ~IsSecond(x) /\ "accept" \notin answers'[t] => Nowhere(m, x, "credit")'
    BY <1>2, <2>1, <2>2, <2>3 DEF Nowhere, Coming, Followed, Open, HandlersStay
  <2> QED
    BY <2>4, <2>5 DEF m, t
<1>4. ASSUME NEW x \in Transfer, IsPaid(x), NEW y \in ConversionsOf(x)
      PROVE  Chain(Paying(x), x, y)'
  <2> DEFINE m == Paying(x)
  <2>1. x \in Id /\ IsSecond(x) /\ Chain(m, x, y)
    BY <1>4 DEF CreditInv, IsSecond, Id
  <2>2. m \in pending' => m \in pending
    BY <1>1, <1>4, <2>1
  <2> HIDE DEF m
  <2>3. moved' = moved /\ work' = work /\ unacked' = unacked
    BY <1>2 DEF HandlersStay
  <2>4. Coming(m)' => Coming(m)
    BY <2>2, <2>3 DEF Coming, Open
  <2>5. \A d \in Consumer : RowsOf(d)' = RowsOf(d)
    BY <2>3 DEF RowsOf, Open, InsertedMoves
  <2>6. Chain(m, x, y)'
    BY <2>1, <2>3, <2>4, <2>5 DEF Chain
  <2> QED
    BY <2>6 DEF m
<1> QED
  BY <1>3, <1>4 DEF CreditInv

LEMMA AsksKeep ==
  ASSUME TokenInv, DebitInv, CreditInv, ToldInv, Asks
  PROVE  TokenInv' /\ DebitInv' /\ CreditInv' /\ ToldInv'
BY AskedTokens, AskedDebits, AskedCredits

(* What a request writes and sends.                                         *)
LEMMA SendsOne ==
  ASSUME BatchInv, HandlersStay, NEW x \in Id, NEW s, s # "none", SetState(x, s), NEW m, Send(m), Fresh(m),
         answers' = answers \/ \E y \in Id, a \in Answer : answers' = [answers EXCEPT ![y] = @ \union {a}]
  PROVE  Asks
<1>1. state \in [Id -> State] /\ answers \in [Id -> SUBSET Answer]
  BY DEF BatchInv, TypeOK, BatchTypeOK
<1>2. \A y \in Id : state'[y] = "none" => state[y] = "none"
  BY <1>1 DEF SetState
<1>3. \A y \in Id : answers[y] \subseteq answers'[y]
  BY <1>1
<1>4. pending \subseteq pending' /\ \A n \in pending' : n \in pending \/ Fresh(n)
  BY DEF Send
<1> QED
  BY <1>2, <1>3, <1>4 DEF Asks

LEMMA SendsNone ==
  ASSUME BatchInv, HandlersStay, pending' = pending, \A x \in Id : state'[x] = "none" => state[x] = "none",
         answers' = answers \/ \E y \in Id, a \in Answer : answers' = [answers EXCEPT ![y] = @ \union {a}]
  PROVE  Asks
<1>1. answers \in [Id -> SUBSET Answer]
  BY DEF BatchInv, TypeOK
<1> QED
  BY <1>1 DEF Asks

LEMMA RequestConversionAsks ==
  ASSUME BatchInv, NEW c \in Conversion, RequestConversion(c)
  PROVE  Asks
<1>1. /\ c \in Id /\ c \notin Transfer /\ state[c] = "none" /\ SetState(c, "RECEIVED_PREPARE")
      /\ Send(AskConversion(c)) /\ HandlersStay /\ answers' = answers
  BY DeterminedBy DEF RequestConversion
<1>2. AskConversion(c) = Asking(c)
  BY <1>1 DEF AskConversion, Asking
<1>3. /\ Asking(c).id = c /\ Asking(c).action = "fxPrepare" /\ Asking(c).done = 0
      /\ state'[c] = "RECEIVED_PREPARE"
  BY <1>1, AskingIs DEF SetState, BatchInv, TypeOK, BatchTypeOK
<1>4. Fresh(Asking(c))
  BY <1>1, <1>3 DEF Fresh, Token, Aborts
<1> QED
  BY <1>1, <1>2, <1>4, SendsOne

LEMMA RequestTransferAsks ==
  ASSUME BatchInv, NEW t \in Transfer, RequestTransfer(t)
  PROVE  Asks
<1>1. t \in Id /\ state[t] = "none" /\ HandlersStay /\ answers' = answers
  BY DEF RequestTransfer, Id
<1>2. CASE Prepared(t)
  <2>1. SetState(t, "RECEIVED_PREPARE") /\ Send(AskTransfer(t))
    BY <1>2 DEF RequestTransfer
  <2>2. AskTransfer(t) = Asking(t)
    BY DEF AskTransfer, Asking
  <2>3. /\ Asking(t).id = t /\ Asking(t).action = "prepare" /\ Asking(t).done = 0
        /\ state'[t] = "RECEIVED_PREPARE"
    BY <1>1, <2>1, AskingIs DEF SetState, BatchInv, TypeOK, BatchTypeOK
  <2>4. Fresh(Asking(t))
    BY <1>1, <2>3 DEF Fresh, Token, Aborts
  <2> QED
    BY <1>1, <2>1, <2>2, <2>4, SendsOne
<1>3. CASE ~Prepared(t)
  <2>1. SetState(t, "INVALID") /\ pending' = pending
    BY <1>3 DEF RequestTransfer
  <2>2. \A x \in Id : state'[x] = "none" => state[x] = "none"
    BY <1>1, <2>1 DEF SetState, BatchInv, TypeOK, BatchTypeOK
  <2> QED
    BY <1>1, <2>1, <2>2, SendsNone
<1> QED
  BY <1>2, <1>3

LEMMA AcceptConversionAsks ==
  ASSUME BatchInv, NEW c \in Conversion, AcceptConversion(c)
  PROVE  Asks
<1>1. /\ c \in Id /\ HandlersStay /\ "accept" \in Answer
      /\ answers' = [answers EXCEPT ![c] = @ \union {"accept"}]
  BY DeterminedBy DEF AcceptConversion, Answers, Answer
<1>2. CASE FxAnswerable(c)
  <2> DEFINE m == Ask(c, "fxReserve", CreditAccount[c])
  <2>1. SetState(c, "RECEIVED_FULFIL_DEPENDENT") /\ Send(m)
    BY <1>2 DEF AcceptConversion, SaveFxFulfilResponse
  <2>2. m.action = "fxReserve" /\ m.done = 0
    BY DEF Ask
  <2> HIDE DEF m
  <2>3. Fresh(m)
    BY <2>2 DEF Fresh, Token, Aborts
  <2> QED
    BY <1>1, <2>1, <2>3, SendsOne
<1>3. CASE ~FxAnswerable(c)
  <2>1. state' = state /\ pending' = pending
    BY <1>3 DEF AcceptConversion
  <2> QED
    BY <1>1, <2>1, SendsNone
<1> QED
  BY <1>2, <1>3

(* An abort of a conversion tells of it and, if that holds funds, of its    *)
(* transfer; the funds the conversion holds are always given back.          *)
LEMMA RefuseConversionAsks ==
  ASSUME BatchInv, NEW c \in Conversion, RefuseConversion(c)
  PROVE  Asks
<1> DEFINE t == Determining[c]
<1>1. /\ c \in Id /\ HandlersStay /\ "refuse" \in Answer
      /\ answers' = [answers EXCEPT ![c] = @ \union {"refuse"}]
      /\ c \notin Transfer /\ t \in Transfer /\ t \in Id /\ c \in ConversionsOf(t) /\ DebitAccount[c] # NoAccount
  BY DeterminedBy DEF RefuseConversion, Answers, Answer
<1>2. CASE FxAnswerable(c)
  <2> DEFINE m == Settlement(c, "fxAbort", "refund", ProcessFxAbort(c))
             cs == Held({c})
             ts == Held({t})
  <2>1. SetState(c, "RECEIVED_ERROR") /\ Send(m)
    BY <1>2 DEF RefuseConversion, SaveFxFulfilResponse
  <2>2. cs = {c}
    <3>1. Taken(c) >= 1 /\ Taken(c) \in Nat
      BY <1>1, <1>2 DEF Fits, FxAnswerable, BatchInv, TypeOK, BatchTypeOK, Taken, MoveKind
    <3> QED
      BY <3>1 DEF Held, Taken
  <2>3. ts = {} \/ ts = {t}
    BY DEF Held
  <2>4. /\ m.id = c /\ m.action = "fxAbort" /\ m.done = 0 /\ m.unmoved = {}
        /\ m.plan = PositionChanges(cs, ts)
    BY DEF Settlement, ProcessFxAbort
  <2> HIDE DEF m, cs, ts, t
  <2>5. Range(m.plan) = {c} \union ts
    <3>1. {c} \in SUBSET Id /\ {} \in SUBSET Id /\ {t} \in SUBSET Id
      BY <1>1
    <3>2. CASE ts = {}
      <4>1. PositionChanges({c}, {}) = <<c>>
        BY <3>1, PositionChangesAre
      <4> QED
        BY <1>1, <2>2, <2>4, <3>2, <4>1, ShortPlans
    <3>3. CASE ts = {t}
      <4>1. PositionChanges({c}, {t}) = <<c, t>>
        BY <3>1, PositionChangesAre
      <4> QED
        BY <1>1, <2>2, <2>4, <3>3, <4>1, ShortPlans
    <3> QED
      BY <2>3, <3>2, <3>3
  <2>6. ConversionsOf(t) = {c} /\ ConversionsOf(c) = {}
    <3>1. ConversionsOf(t) = {c}
      BY <1>1, TheConversion
    <3>2. \A d \in Conversion : Determining[d] \in Transfer
      BY DeterminedBy
    <3> QED
      BY <1>1, <3>1, <3>2 DEF ConversionsOf
  <2>7. \A y \in NotifiedOf(m) : \A x \in {y} \union ConversionsOf(y) : x \in Range(m.plan)
    BY <2>3, <2>4, <2>5, <2>6 DEF NotifiedOf
  <2>8. NextMove(m) = c
    <3>1. {c} \in SUBSET Id /\ {} \in SUBSET Id /\ {t} \in SUBSET Id
      BY <1>1
    <3>2. PositionChanges({c}, {}) = <<c>> /\ PositionChanges({c}, {t}) = <<c, t>>
      BY <3>1, PositionChangesAre
    <3>3. m.plan = <<c>> \/ m.plan = <<c, t>>
      BY <2>2, <2>3, <2>4, <3>2
    <3> QED
      BY <2>4, <3>3 DEF NextMove
  <2>9. Fresh(m)
    BY <1>1, <2>4, <2>7, <2>8 DEF Fresh, Token, Aborts
  <2> QED
    BY <1>1, <2>1, <2>9, SendsOne
<1>3. CASE ~FxAnswerable(c)
  <2>1. state' = state /\ pending' = pending
    BY <1>3 DEF RefuseConversion
  <2> QED
    BY <1>1, <2>1, SendsNone
<1> QED
  BY <1>2, <1>3

(* A commit's first message pays the FX provider or, without one, the payee.*)
LEMMA CommitIsPaying ==
  ASSUME NEW t \in Transfer, NEW m, m = Settlement(t, "commit", "credit", ProcessFulfil(t))
  PROVE  /\ m.action = "commit" /\ m.done = 0
         /\ IsPaid(NextMove(m)) /\ ~IsSecond(NextMove(m)) /\ TransferOf(NextMove(m)) = t
         /\ m = Paying(NextMove(m))
<1> DEFINE p == ProcessFulfil(t).plan
           u == ProcessFulfil(t).unmoved
           y == p[1]
<1>1. m = [id |-> t, action |-> "commit", account |-> CreditAccount[y], plan |-> p, done |-> 0, unmoved |-> u]
  BY DEF Settlement, AccountFor
<1>2. IsPaid(y) /\ ~IsSecond(y) /\ TransferOf(y) = t /\ y \in Id
  <2>1. t \in Id
    BY DEF Id
  <2>2. CASE ConversionsOf(t) = {}
    <3>1. IsPaid(t) /\ y = t
      BY <2>2, PlanOfTransfer
    <3> QED
      BY <2>1, <2>2, <3>1 DEF IsSecond, TransferOf
  <2>3. CASE ConversionsOf(t) # {}
    <3>1. PICK c \in ConversionsOf(t) : TRUE
      BY <2>3
    <3>2. p = IF IsPaid(t) THEN <<c, t>> ELSE <<c>>
      BY <3>1, PlanOfTransfer
    <3>3. y = c
      BY <3>2
    <3>4. c \in Conversion /\ c \in Id /\ c \notin Transfer /\ Determining[c] = t /\ CreditAccount[c] # NoAccount
      BY <3>1, TheConversion, DeterminedBy DEF ConversionsOf
    <3> QED
      BY <3>3, <3>4 DEF IsSecond, TransferOf, IsPaid
  <2> QED
    BY <2>2, <2>3
<1> HIDE DEF p, u
<1>3. NextMove(m) = y /\ m.action = "commit" /\ m.done = 0
  BY <1>1 DEF NextMove
<1> HIDE DEF y
<1>4. Paying(y) = [id |-> t, action |-> "commit", account |-> CreditAccount[y], plan |-> p, done |-> 0, unmoved |-> u]
  BY <1>2 DEF Paying, p, u
<1> QED
  BY <1>1, <1>2, <1>3, <1>4

LEMMA AcceptTransferAsks ==
  ASSUME BatchInv, NEW t \in Transfer, AcceptTransfer(t)
  PROVE  Asks
<1>1. /\ t \in Id /\ HandlersStay /\ "accept" \in Answer /\ "accept" \notin answers[t]
      /\ answers' = [answers EXCEPT ![t] = @ \union {"accept"}]
  BY DEF AcceptTransfer, Answers, Answer, SeenBefore, Id
<1>2. CASE Answerable(t)
  <2> DEFINE m == Settlement(t, "commit", "credit", ProcessFulfil(t))
  <2>1. SetState(t, "RECEIVED_FULFIL") /\ Send(m)
    BY <1>2 DEF AcceptTransfer
  <2>2. /\ m.action = "commit" /\ m.done = 0
        /\ IsPaid(NextMove(m)) /\ ~IsSecond(NextMove(m)) /\ TransferOf(NextMove(m)) = t
        /\ m = Paying(NextMove(m))
    BY CommitIsPaying
  <2> HIDE DEF m
  <2>3. "accept" \in answers'[t]
    BY <1>1 DEF BatchInv, TypeOK
  <2>4. Fresh(m)
    BY <1>1, <2>2, <2>3 DEF Fresh, Token, Aborts
  <2> QED
    BY <1>1, <2>1, <2>4, SendsOne
<1>3. CASE ~Answerable(t)
  <2>1. state' = state /\ pending' = pending
    BY <1>3 DEF AcceptTransfer
  <2> QED
    BY <1>1, <2>1, SendsNone
<1> QED
  BY <1>2, <1>3

(* An abort of a transfer gives back what it and its conversion hold.       *)
LEMMA RefuseTransferAsks ==
  ASSUME BatchInv, NEW t \in Transfer, RefuseTransfer(t)
  PROVE  Asks
<1>1. /\ t \in Id /\ HandlersStay /\ "refuse" \in Answer
      /\ answers' = [answers EXCEPT ![t] = @ \union {"refuse"}]
  BY DEF RefuseTransfer, Answers, Answer, Id
<1>2. CASE Answerable(t)
  <2> DEFINE m == Settlement(t, "abort", "refund", ProcessAbort(t))
             cs == Held(ConversionsOf(t))
             ts == Held({t})
             rest == IF ts = {} /\ ConversionsOf(t) # {} THEN {t} ELSE {}
  <2>1. SetState(t, "RECEIVED_ERROR") /\ Send(m) /\ state[t] = "RESERVED"
    BY <1>2 DEF RefuseTransfer, Answerable
  <2>2. Fits(t, "RESERVED") /\ \A x \in Id : Taken(x) \in Nat
    BY <1>1, <2>1 DEF BatchInv, TypeOK, BatchTypeOK, Taken, MoveKind
  <2>3. t \in ts \/ DebitAccount[t] = NoAccount
    BY <1>1, <2>2 DEF Held, Taken, Fits
  <2>4. cs = ConversionsOf(t)
    <3>1. \A c \in ConversionsOf(t) : c \in Id /\ Taken(c) >= 1
      BY <2>2 DEF Fits, Backed, ConversionsOf, Id
    <3> QED
      BY <2>2, <3>1 DEF Held, Taken
  <2>5. ts \subseteq {t} /\ rest \subseteq {t} /\ ts \in SUBSET Id /\ cs \in SUBSET Id
    BY <1>1, <2>4 DEF Held, ConversionsOf, Id
  <2>6. /\ m.id = t /\ m.action = "abort" /\ m.done = 0 /\ m.unmoved = rest
        /\ m.plan = PositionChanges(cs, ts)
    BY DEF Settlement, ProcessAbort
  <2> HIDE DEF m, cs, ts, rest
  <2>7. /\ cs \union ts \subseteq Range(m.plan) /\ Range(m.plan) \subseteq cs \union ts
        /\ NextMove(m) \in Transfer => IsLast(m)
    <3>1. \A c, d \in cs : c = d
      BY <2>4, TheConversion
    <3>2. \A x, y \in ts : x = y
      BY <2>5
    <3> DEFINE p == PositionChanges(cs, ts)
    <3>3. \/ p = <<>> /\ cs = {} /\ ts = {}
          \/ cs = {} /\ \E y \in ts : p = <<y>>
          \/ ts = {} /\ \E x \in cs : p = <<x>>
          \/ \E x \in cs, y \in ts : p = <<x, y>>
      BY <2>5, PositionChangesAre
    <3> HIDE DEF p
    <3>4. cs \union ts \subseteq Range(p) /\ Range(p) \subseteq cs \union ts
      BY <2>5, <3>1, <3>2, <3>3, ShortPlans
    <3>5. p # <<>>
      BY <1>1, <2>3, <2>4, <3>3, DeterminingAssumption DEF ConversionsOf
    <3>6. p[1] \in Transfer => Len(p) = 1
      BY <2>4, <3>3, <3>5, PaymentAssumption DEF ConversionsOf
    <3> QED
      BY <2>6, <3>4, <3>6 DEF p, NextMove, IsLast
  <2>8. NotifiedOf(m) \subseteq {t}
    <3>1. \A x \in Range(m.plan) : x \in Transfer => x = t
      BY <2>4, <2>5, <2>7, PaymentAssumption DEF ConversionsOf
    <3> QED
      BY <2>5, <2>6, <3>1 DEF NotifiedOf
  <2>9. \A y \in NotifiedOf(m) : \A x \in {y} \union ConversionsOf(y) :
          x \in Range(m.plan) \/ DebitAccount[x] = NoAccount
    BY <2>3, <2>4, <2>7, <2>8
  <2>10. Fresh(m)
    BY <2>6, <2>7, <2>9 DEF Fresh, Token, Aborts
  <2> QED
    BY <1>1, <2>1, <2>10, SendsOne
<1>3. CASE ~Answerable(t)
  <2>1. state' = state /\ pending' = pending
    BY <1>3 DEF RefuseTransfer
  <2> QED
    BY <1>1, <2>1, SendsNone
<1> QED
  BY <1>2, <1>3

LEMMA SweepAsks ==
  ASSUME BatchInv, Sweep
  PROVE  Asks
<1> DEFINE first  == TimedOut(Watched, state)
           rows   == ToTransfers(ToConversions(Watched, first), first)
           second == TimedOut(rows, first)
           listed == Listed(rows, second)
<1>1. /\ state' = second /\ HandlersStay /\ answers' = answers
      /\ pending' = pending \union {AskTimeout(t) : t \in listed \intersect Transfer}
                            \union {AskFxTimeout(c) : c \in listed \intersect Conversion}
  BY DEF Sweep
<1>2. \A r, s : \A x \in Id : TimedOut(r, s)[x] \in {"EXPIRED_PREPARED", "RESERVED_TIMEOUT", s[x]}
  BY DEF TimedOut
<1>3. \A x \in Id : state'[x] = "none" => state[x] = "none"
  BY <1>1, <1>2
<1>4. \A t : AskTimeout(t).action = "timeout" /\ AskTimeout(t).done = 0
  BY DEF AskTimeout, Ask
<1>5. \A c : AskFxTimeout(c).action = "fxTimeout" /\ AskFxTimeout(c).done = 0
  BY DEF AskFxTimeout, Ask
<1>6. \A m : m.action \in {"timeout", "fxTimeout"} /\ m.done = 0 => Fresh(m)
  BY DEF Fresh, Token, Aborts
<1> HIDE DEF first, rows, second, listed
<1>7. \A m \in pending' : m \in pending \/ Fresh(m)
  BY <1>1, <1>4, <1>5, <1>6
<1> QED
  BY <1>1, <1>3, <1>7 DEF Asks

LEMMA ExpireAsks ==
  ASSUME BatchInv, NEW x \in Id, Expire(x)
  PROVE  Asks
<1>1. HandlersStay /\ state' = state /\ pending' = pending /\ answers' = answers
  BY DEF Expire, HandlersStay, batchVars, database
<1> QED
  BY <1>1, SendsNone

(***************************************************************************)
(* The invariant of what is told.                                           *)
(***************************************************************************)
LEMMA TellInvInit == Init => TellInv
<1> SUFFICES ASSUME Init PROVE TellInv
  OBVIOUS
<1>1. /\ pending = {} /\ unacked = [c \in Consumer |-> {}] /\ work = [c \in Consumer |-> Idle]
      /\ moved = [x \in Id |-> NoMoves] /\ notified = [x \in Id |-> {}]
  BY DEF Init, BatchInit
<1>2. \A c \in Consumer : /\ unacked[c] = {} /\ work[c] = Idle /\ work[c].batch = {} /\ work[c].followUps = {}
                          /\ work[c].todo = {} /\ ~Open(c)
                          /\ \A x \in Id : work[c].notices[x] = {} /\ \A k \in MoveKind : work[c].moved[x][k] = 0
  BY <1>1 DEF Idle, Open, NoMoves
<1>3. \A x \in Id : \A k \in MoveKind : moved[x][k] = 0
  BY <1>1 DEF NoMoves
<1>4. ASSUME NEW m, NEW x \in Id, NEW k \in MoveKind, HandlerOf(m) \in Consumer
      PROVE  Once(m, x, k) /\ Nowhere(m, x, k)
  <2>1. ~Coming(m) /\ ~Followed(m)
    BY <1>1, <1>2, <1>4 DEF Coming, Followed
  <2> QED
    BY <1>1, <1>2, <1>3, <1>4, <2>1 DEF Once, Nowhere
<1>5. TokenInv
  BY <1>1, <1>2 DEF TokenInv
<1>6. DebitInv
  <2>1. \A x \in Id : HandlerOf(Asking(x)) \in Consumer
    BY AskingIs
  <2> QED
    BY <1>2, <1>3, <1>4, <2>1 DEF DebitInv, MoveKind
<1>7. CreditInv
  <2>1. \A x \in Id : IsPaid(x) => HandlerOf(Paying(x)) \in Consumer
    BY PayingIs
  <2>2. \A x \in Id : IsPaid(x) => Once(Paying(x), x, "credit") /\ Nowhere(Paying(x), x, "credit")
    BY <1>4, <2>1 DEF MoveKind
  <2>3. \A x \in Transfer : x \in Id
    BY DEF Id
  <2>4. \A x \in Transfer : IsPaid(x) => \A y \in ConversionsOf(x) : Chain(Paying(x), x, y)
    BY <1>2, <2>2, <2>3 DEF Chain, Nowhere
  <2> QED
    BY <2>2, <2>4 DEF CreditInv
<1>8. ToldInv
  <2>1. TellsTrue(notified, moved) /\ \A d \in Consumer : TellsTrue(work[d].notices, RowsOf(d))
    BY <1>1, <1>2, NothingTold
  <2> QED
    BY <1>1, <1>2, <2>1 DEF ToldInv
<1> QED
  BY <1>5, <1>6, <1>7, <1>8, BatchInvInit DEF TellInv

(* A row once stored is not taken back.                                     *)
LEMMA StoredStays ==
  ASSUME BatchInv, NEW c \in Consumer,
         Poll(c) \/ Item(c) \/ CommitOffset(c) \/ CommitTrx(c) \/ Produce(c) \/ CrashBatch(c),
         NEW x \in Id, state'[x] = "none"
  PROVE  state[x] = "none"
<1>1. CASE CommitTrx(c)
  BY <1>1 DEF CommitTrx, InsertedStates
<1>2. CASE Item(c)
  BY <1>2 DEF Item, FxReserveItem, FxTimeoutItem, FulfilItem, AbortItem, FxAbortItem, AbortMessage, TimeoutItem,
              PrepareItem, PrepareMessage, FxPrepareItem, FxPrepareMessage, Done, Rollback, database
<1>3. CASE Poll(c) \/ CommitOffset(c) \/ Produce(c) \/ CrashBatch(c)
  BY <1>3 DEF Poll, CommitOffset, Produce, CrashBatch, database
<1> QED
  BY <1>1, <1>2, <1>3

LEMMA TellInvNext == TellInv /\ [Next]_vars => TellInv'
<1> SUFFICES ASSUME TellInv, [Next]_vars PROVE TellInv'
  OBVIOUS
<1>1. BatchInv /\ TokenInv /\ DebitInv /\ CreditInv /\ ToldInv /\ BatchInv'
  BY BatchInvNext DEF TellInv
<1>2. CASE Asks
  BY <1>1, <1>2, AsksKeep DEF TellInv
<1>3. CASE UNCHANGED vars
  <2>1. HandlersStay /\ state' = state /\ pending' = pending /\ answers' = answers
    BY <1>3 DEF vars, HandlersStay, batchVars, database
  <2> QED
    BY <1>1, <1>2, <2>1, SendsNone
<1>4. ASSUME NEW c \in Conversion, RequestConversion(c) \/ AcceptConversion(c) \/ RefuseConversion(c)
      PROVE  TellInv'
  BY <1>1, <1>2, <1>4, RequestConversionAsks, AcceptConversionAsks, RefuseConversionAsks
<1>5. ASSUME NEW t \in Transfer, RequestTransfer(t) \/ AcceptTransfer(t) \/ RefuseTransfer(t)
      PROVE  TellInv'
  BY <1>1, <1>2, <1>5, RequestTransferAsks, AcceptTransferAsks, RefuseTransferAsks
<1>6. ASSUME NEW x \in Id, Expire(x) PROVE TellInv'
  BY <1>1, <1>2, <1>6, ExpireAsks
<1>7. CASE Sweep
  BY <1>1, <1>2, <1>7, SweepAsks
<1>8. ASSUME NEW c \in Consumer, RequestsStay,
             Poll(c) \/ Item(c) \/ CommitOffset(c) \/ CommitTrx(c) \/ Produce(c) \/ CrashBatch(c)
      PROVE  TellInv'
  <2>1. BatchActs(c)
    BY <1>1, <1>8, BatchDoes
  <2>2. TokenInv'
    BY <1>1, <2>1, TokensKept
  <2>3. DebitInv'
    <3>1. \A x \in Id : state'[x] = "none" => state[x] = "none"
      BY <1>1, <1>8, StoredStays
    <3> QED
      BY <1>1, <2>1, <2>2, <3>1, DebitsKept
  <2>4. CreditInv'
    BY <1>1, <1>8, <2>1, <2>2, CreditsKept
  <2>5. ToldInv'
    BY <1>1, <2>1, ToldKept
  <2> QED
    BY <1>1, <2>2, <2>3, <2>4, <2>5 DEF TellInv
<1> QED
  BY <1>3, <1>4, <1>5, <1>6, <1>7, <1>8, Steps

(* What true notices, or true states, say of the movements.                 *)
LEMMA WhatIsTrue ==
  ASSUME TellInv, NEW told, TellsTrue(told, moved), NEW t \in Transfer, NEW x \in {t} \union ConversionsOf(t)
  PROVE  /\ "committed" \in told[t] /\ CreditAccount[x] # NoAccount => Paid(x) = 1
         /\ x \in Conversion /\ "committed" \in told[x] => Paid(x) = 1
         /\ "aborted" \in told[t] => Returned(x) >= Taken(x)
         /\ {"aborted", "timedOut"} \intersect told[x] # {} => Returned(x) >= Taken(x)
<1>1. x \in Id /\ "debit" \in MoveKind /\ "credit" \in MoveKind /\ "refund" \in MoveKind
  BY DEF Id, ConversionsOf, MoveKind
<1>2. moved \in Rows
  BY DEF TellInv, BatchInv, TypeOK, BatchTypeOK, Rows
<1>3. IsPaid(x) => Paid(x) \in {0, 1}
  BY <1>1 DEF TellInv, CreditInv, Once, Paid
<1>4. Taken(x) \in {0, 1} /\ (DebitAccount[x] = NoAccount => Taken(x) = 0) /\ Returned(x) \in Nat
  BY <1>1, <1>2 DEF TellInv, DebitInv, Once, Taken, Returned, Rows
<1>5. /\ "committed" \in told[t] => PaidIn(x, moved)
      /\ "aborted" \in told[t] => GivenIn(x, moved)
      /\ x \in Conversion /\ "committed" \in told[x] => PaidIn(x, moved)
      /\ {"aborted", "timedOut"} \intersect told[x] # {} => GivenIn(x, moved)
  BY <1>1 DEF TellsTrue
<1>6. PaidIn(x, moved) /\ IsPaid(x) => Paid(x) = 1
  BY <1>3 DEF PaidIn, Paid
<1>7. GivenIn(x, moved) => Returned(x) >= Taken(x)
  BY <1>4 DEF GivenIn, Returned
<1>8. x \in Conversion => IsPaid(x)
  BY DeterminedBy DEF IsPaid
<1> QED
  BY <1>5, <1>6, <1>7, <1>8 DEF IsPaid

(* Whatever batches are rolled back, read again or lost with a process, and *)
(* in whatever order they are worked: the FX provider and the payee that    *)
(* are told of a commit have been paid, once, and those that are told of an *)
(* abort or a timeout have been given back what was reserved.               *)
THEOREM ToldOnlyWhatIsDone == Spec => []ToldIsDone
<1>1. TellInv => ToldIsDone
  <2> SUFFICES ASSUME TellInv PROVE ToldIsDone
    OBVIOUS
  <2>1. TellsTrue(notified, moved)
    BY DEF TellInv, ToldInv
  <2> QED
    BY <2>1, WhatIsTrue DEF ToldIsDone
<1> QED
  BY <1>1, TellInvInit, TellInvNext, PTL DEF Spec

(***************************************************************************)
(* Funds go to one side.  Of a payment whose FX provider stands by its      *)
(* answer, the state of the transfer says to which: it never turns back     *)
(* from one side to the other, and every message, every open transaction    *)
(* and every row agrees with it.                                            *)
(***************************************************************************)
Family(t)   == {t} \union ConversionsOf(t)
Refused(c)  == "refuse" \in answers[c]
Accepted(c) == "accept" \in answers[c]
Out(t)      == state[t] \in {"none", "INVALID"}
Awaiting(t) == state[t] \in {"RECEIVED_PREPARE", "EXPIRED_PREPARED"}
Timed(t)    == state[t] \in {"RESERVED_TIMEOUT", "EXPIRED_RESERVED"}
Fulfils(t)  == state[t] \in {"RECEIVED_FULFIL", "COMMITTED"}
Fails(t)    == state[t] \in {"RECEIVED_ERROR", "ABORTED_ERROR"}
Late(t)     == /\ t \in expired
               /\ state[t] \in {"EXPIRED_PREPARED", "RESERVED", "ABORTED_REJECTED",
                                 "RESERVED_TIMEOUT", "EXPIRED_RESERVED"}
Calm(x)     == Undisturbed(TransferOf(x))

(* Why x may be given back; and the states it ends in.                      *)
GivenUp(x) ==
  \/ Fails(TransferOf(x))
  \/ IF x \in Transfer THEN Timed(x) ELSE Late(TransferOf(x)) \/ Refused(x)
Over == {"EXPIRED_RESERVED", "ABORTED_ERROR", "ABORTED_REJECTED"}

(* The messages that give x back.                                           *)
TimingOut(x) == Ask(x, IF x \in Transfer THEN "timeout" ELSE "fxTimeout", DebitAccount[x])
AbortPlan(t) == PositionChanges(ConversionsOf(t), IF DebitAccount[t] = NoAccount THEN {} ELSE {t})
Aborting(x) ==
  [id |-> TransferOf(x), action |-> "abort", account |-> DebitAccount[x], plan |-> AbortPlan(TransferOf(x)),
   done |-> IF IsSecond(x) THEN 1 ELSE 0,
   unmoved |-> IF DebitAccount[TransferOf(x)] = NoAccount THEN {TransferOf(x)} ELSE {}]
Refusing(c) ==
  [id |-> c, action |-> "fxAbort", account |-> DebitAccount[c], plan |-> <<c>>, done |-> 0, unmoved |-> {}]

(* A message that settles a payment is under way for a reason that stays.   *)
Placed(m) ==
  /\ m.action \in Aborts \union {"commit"} => Concerns(m) \subseteq Family(TransferOf(m.id))
  /\ Calm(m.id) =>
       /\ m.action = "commit" => Fulfils(m.id)
       /\ m.action = "abort" => Fails(m.id) /\ m = Aborting(NextMove(m))
       /\ m.action = "fxAbort" => Refused(m.id) /\ m = Refusing(m.id)
       /\ m.action \in Aborts => DebitAccount[NextMove(m)] # NoAccount /\ Taken(NextMove(m)) >= 1
       /\ m.action = "timeout" => Timed(m.id)
       /\ m.action = "fxTimeout" => Late(TransferOf(m.id))
       /\ m.action \in {"timeout", "fxTimeout"} => m = TimingOut(m.id) /\ Taken(m.id) >= 1
PlacedInv ==
  /\ \A m \in pending : Placed(m)
  /\ \A c \in Consumer : \A m \in unacked[c] \union work[c].batch \union work[c].followUps : Placed(m)

(* A transfer's course, as its conversion and its rows follow it.           *)
Course(t) ==
  /\ ~Out(t) => \A c \in ConversionsOf(t) : Accepted(c)
  /\ Coming(Asking(t)) => Awaiting(t)
  /\ Taken(t) # 0 => ~Out(t)
  /\ (Fulfils(t) \/ Fails(t)) /\ DebitAccount[t] # NoAccount => Taken(t) >= 1
  /\ \A c \in ConversionsOf(t) : t \in timeoutRow[c] => Late(t)
CourseInv ==
  /\ \A t \in Transfer : Undisturbed(t) => Course(t)
  /\ \A x \in Id : timeoutRow[x] \subseteq Family(TransferOf(x))
  /\ \A c \in Conversion : state[c] = "RECEIVED_FULFIL_DEPENDENT" => Accepted(c)

(* The states that an open transaction is about to insert.                  *)
Written(d, x) ==
  LET s == work[d].rows[x]
  IN /\ s \in {"none", "RESERVED", "COMMITTED"} \union Over
     /\ s = "RESERVED" \/ (s = "ABORTED_REJECTED" /\ x \in Transfer) => Asking(x) \in work[d].batch
     /\ s = "EXPIRED_RESERVED" => IF x \in Transfer THEN Timed(x) ELSE Late(TransferOf(x))
     /\ s = "COMMITTED" => Fulfils(TransferOf(x))
     /\ s = "ABORTED_ERROR" => Fails(TransferOf(x)) \/ (x \in Conversion /\ Refused(x))
WrittenInv == \A d \in Consumer : Open(d) => \A x \in Id : Calm(x) => Written(d, x)

(* What is paid is of a transfer that was fulfilled.                        *)
PaidInv ==
  \A x \in Id :
    /\ ~IsPaid(x) => moved[x]["credit"] = 0 /\ \A d \in Consumer : work[d].moved[x]["credit"] = 0
    /\ Calm(x) /\ (moved[x]["credit"] # 0 \/ \E d \in Consumer : Open(d) /\ work[d].moved[x]["credit"] # 0)
         => Fulfils(TransferOf(x))

(* What is given back had been taken, and has been given up.  A batch that  *)
(* saw x timed out works on an account that x has not been given back to.   *)
SaysTimedOut(w, x) == "RESERVED_TIMEOUT" \in {w.latest[x], w.seen[x], w.left[x]}
PayerOf(x) == ConsumerOf[DebitAccount[x]]
GivingBack(d, x) ==
  /\ work[d].moved[x]["refund"] \in {0, 1}
  /\ work[d].moved[x]["refund"] # 0 =>
       /\ d = PayerOf(x) /\ moved[x]["refund"] = 0
       /\ Taken(x) >= 1 /\ work[d].rows[x] \in Over /\ GivenUp(x)
       /\ TimingOut(x) \notin work[d].todo
  /\ SaysTimedOut(work[d], x) /\ d = PayerOf(x) => moved[x]["refund"] = 0
Refund(x) ==
  /\ moved[x]["refund"] \in {0, 1}
  /\ moved[x]["refund"] # 0 => Taken(x) >= 1 /\ state[x] \in Over /\ GivenUp(x)
  /\ \A d \in Consumer : Open(d) => GivingBack(d, x)
  /\ Fails(TransferOf(x)) => Once(Aborting(x), x, "refund")
  /\ x \in Conversion /\ Refused(x) => Once(Refusing(x), x, "refund")
  /\ Fails(TransferOf(x)) /\ IsSecond(x) /\ moved[x]["refund"] # 0 =>
       \A c \in ConversionsOf(x) : moved[c]["refund"] # 0
RefundInv ==
  \A x \in Id :
    /\ DebitAccount[x] = NoAccount =>
         moved[x]["refund"] = 0 /\ \A d \in Consumer : work[d].moved[x]["refund"] = 0
    /\ DebitAccount[x] # NoAccount /\ Calm(x) => Refund(x)

SideInv == TellInv /\ PlacedInv /\ CourseInv /\ WrittenInv /\ PaidInv /\ RefundInv

(***************************************************************************)
(* What a worked message writes, and what the bins then see.                *)
(***************************************************************************)
Writes(m, y, s) ==
  \/ m.action \in {"prepare", "fxPrepare"} /\ y = m.id /\ s \in {"RESERVED", "ABORTED_REJECTED"}
  \/ m.action = "fxReserve" /\ y = m.id /\ s = "ABORTED_REJECTED"
  \/ m.action \in {"timeout", "fxTimeout"} /\ y = m.id /\ s = "EXPIRED_RESERVED"
  \/ m.action = "commit" /\ y \in Concerns(m) /\ s = "COMMITTED"
  \/ m.action \in Aborts /\ y \in Concerns(m) /\ s = "ABORTED_ERROR"
Steady(w, v, m) ==
  \A y \in Id : /\ v.rows[y] = w.rows[y] \/ Writes(m, y, v.rows[y])
                /\ SaysTimedOut(v, y) => SaysTimedOut(w, y)
Writing(w, v, m) ==
  /\ Steady(w, v, m)
  /\ m.action \in {"timeout", "fxTimeout"} => v.rows[m.id] = "EXPIRED_RESERVED" /\ SaysTimedOut(w, m.id)
  /\ m.action \in Aborts => v.rows[NextMove(m)] = "ABORTED_ERROR"

(* One state is changed, others follow; nothing is seen that was not.       *)
Alike(w, v)     == /\ v.latest = w.latest /\ v.seen = w.seen /\ v.left = w.left /\ v.rows = w.rows
Becomes(w, v, xs, s) ==
  /\ v.latest = w.latest /\ v.seen = w.seen
  /\ \A y \in Id : \/ v.rows[y] = w.rows[y] /\ v.left[y] = w.left[y]
                   \/ y \in xs /\ v.rows[y] = s /\ v.left[y] \in {s, w.left[y]}

LEMMA AlikeOf ==
  ASSUME NEW w \in Work
  PROVE  /\ \A x, n : Alike(w, Tell(w, x, n))
         /\ \A xs, n : Alike(w, TellAll(w, xs, n))
         /\ \A m, x, kind : Alike(w, Move(w, m, x, kind))
         /\ \A m, kind : Alike(w, FollowUp(w, m, kind))
<1>1. \A x, n : Alike(w, Tell(w, x, n))
  BY DEF Tell, Work, Alike
<1>2. \A xs, n : Alike(w, TellAll(w, xs, n))
  BY DEF TellAll, Work, Alike
<1>3. \A m, x, kind : Alike(w, Move(w, m, x, kind))
  BY DEF Move, Work, Alike
<1>4. \A m, kind : Alike(w, FollowUp(w, m, kind))
  BY DEF FollowUp, Work, Alike
<1> QED
  BY <1>1, <1>2, <1>3, <1>4

LEMMA BecomesOf ==
  ASSUME NEW w \in Work, NEW s
  PROVE  /\ \A x \in Id : Becomes(w, ChangeState(w, x, s), {x}, s) /\ ChangeState(w, x, s).rows[x] = s
         /\ \A m : Becomes(w, MoveNothing(w, m, s), m.unmoved, s)
         /\ \A m : \A x \in Id : w.rows[x] = s => MoveNothing(w, m, s).rows[x] = s
<1>1. \A x \in Id : Becomes(w, ChangeState(w, x, s), {x}, s) /\ ChangeState(w, x, s).rows[x] = s
  BY DEF ChangeState, Work, Becomes
<1>2. ASSUME NEW m
      PROVE  Becomes(w, MoveNothing(w, m, s), m.unmoved, s)
             /\ \A x \in Id : w.rows[x] = s => MoveNothing(w, m, s).rows[x] = s
  <2> DEFINE v == MoveNothing(w, m, s)
  <2>1. /\ v.latest = w.latest /\ v.seen = w.seen
        /\ v.rows = [y \in Id |-> IF y \in m.unmoved THEN s ELSE w.rows[y]]
        /\ v.left = [y \in Id |-> IF y \in m.unmoved THEN s ELSE w.left[y]]
    BY DEF MoveNothing, Work
  <2> HIDE DEF v
  <2> QED
    BY <2>1 DEF Becomes, v
<1> QED
  BY <1>1, <1>2

LEMMA EnterSees ==
  ASSUME NEW w \in Work, NEW m
  PROVE  /\ Enter(w, m).rows = w.rows
         /\ \A y : SaysTimedOut(Enter(w, m), y) => SaysTimedOut(w, y)
<1>1. CASE w.bin = BinOf(m)
  BY <1>1 DEF Enter
<1>2. CASE w.bin # BinOf(m)
  <2> DEFINE states == IF w.bin.account = m.account THEN w.left ELSE w.latest
             b == ValueOf(w, m.account)
  <2>1. Enter(w, m) = [w EXCEPT !.bin = BinOf(m), !.seen = states, !.left = states, !.base = b]
    BY <1>2 DEF Enter
  <2> HIDE DEF b
  <2>2. /\ Enter(w, m).latest = w.latest /\ Enter(w, m).rows = w.rows
        /\ Enter(w, m).seen = states /\ Enter(w, m).left = states
    BY <2>1 DEF Work
  <2> QED
    BY <2>2 DEF SaysTimedOut
<1> QED
  BY <1>1, <1>2

LEMMA AlikeThen ==
  ASSUME NEW w, NEW u, NEW v, NEW xs, NEW s
  PROVE  /\ Alike(w, u) /\ Alike(u, v) => Alike(w, v)
         /\ Alike(w, u) /\ Becomes(u, v, xs, s) => Becomes(w, v, xs, s)
         /\ Becomes(w, u, xs, s) /\ Alike(u, v) => Becomes(w, v, xs, s)
BY DEF Alike, Becomes

LEMMA BecomesMore ==
  ASSUME NEW w, NEW u, NEW v, NEW s, NEW xs, NEW ys, NEW zs, Becomes(w, u, xs, s), Becomes(u, v, ys, s),
         xs \subseteq zs, ys \subseteq zs
  PROVE  Becomes(w, v, zs, s)
BY DEF Becomes

(* A message's bin is entered, and then one state is written.               *)
LEMMA SteadyBy ==
  ASSUME NEW w \in Work, NEW m, NEW v, NEW xs, NEW s, s # "RESERVED_TIMEOUT",
         Becomes(Enter(w, m), v, xs, s), \A y \in xs : y \in Id => Writes(m, y, s)
  PROVE  Steady(w, v, m)
<1> DEFINE e == Enter(w, m)
<1>1. e.rows = w.rows /\ \A y : SaysTimedOut(e, y) => SaysTimedOut(w, y)
  BY EnterSees
<1>2. Becomes(e, v, xs, s)
  OBVIOUS
<1> HIDE DEF e
<1>3. \A y \in Id : SaysTimedOut(v, y) => SaysTimedOut(e, y)
  BY <1>2 DEF Becomes, SaysTimedOut
<1>4. \A y \in Id : v.rows[y] = w.rows[y] \/ Writes(m, y, v.rows[y])
  BY <1>1, <1>2 DEF Becomes
<1> QED
  BY <1>1, <1>3, <1>4 DEF Steady

LEMMA DoneAlike ==
  ASSUME NEW c \in Consumer, NEW m, NEW v \in Work, work \in [Consumer -> Work], Done(c, m, v)
  PROVE  Alike(v, work'[c]) /\ state' = state
<1>1. work' = [work EXCEPT ![c] = [v EXCEPT !.todo = @ \ {m}]] /\ state' = state
  BY DEF Done, database
<1>2. work'[c] = [v EXCEPT !.todo = @ \ {m}]
  BY <1>1
<1> QED
  BY <1>1, <1>2 DEF Alike, Work

LEMMA NothingBecomes ==
  ASSUME NEW w, NEW v, NEW s, Alike(w, v)
  PROVE  Becomes(w, v, {}, s)
BY DEF Alike, Becomes

(* What the bins write, one after another.                                  *)
LEMMA AnswerWrites ==
  ASSUME NEW w \in Work, NEW x \in Id, NEW n \in Notice
  PROVE  /\ Tell(w, x, n) \in Work /\ Becomes(w, Tell(w, x, n), {x}, "ABORTED_REJECTED")
         /\ LET v == Tell(ChangeState(w, x, "ABORTED_REJECTED"), x, n)
            IN v \in Work /\ Becomes(w, v, {x}, "ABORTED_REJECTED")
<1> DEFINE s == "ABORTED_REJECTED"
           g == ChangeState(w, x, s)
<1>1. s \in State
  BY DEF State
<1>2. g \in Work /\ Becomes(w, g, {x}, s)
  BY <1>1, ChangeStateType, BecomesOf
<1> HIDE DEF g
<1>3. Tell(g, x, n) \in Work /\ Alike(g, Tell(g, x, n)) /\ Tell(w, x, n) \in Work /\ Alike(w, Tell(w, x, n))
  BY <1>2, TellType, AlikeOf
<1>4. Becomes(w, Tell(g, x, n), {x}, s)
  BY <1>2, <1>3, AlikeThen
<1>5. Becomes(w, Tell(w, x, n), {x}, s)
  BY <1>3 DEF Alike, Becomes
<1> QED
  BY <1>3, <1>4, <1>5 DEF g

LEMMA HoldWrites ==
  ASSUME NEW w \in Work, NEW m \in Message
  PROVE  Reserve(w, m) \in Work /\ Becomes(w, Reserve(w, m), {m.id}, "RESERVED")
<1> DEFINE x == m.id
           f == Move(w, m, x, "debit")
           g == ChangeState(f, x, "RESERVED")
           h == [g EXCEPT !.base = @ - Amount[m.id]]
<1>1. x \in Id /\ "debit" \in MoveKind /\ "RESERVED" \in State /\ "prepared" \in Notice /\ Amount[x] \in Int
  BY MessageType, Parameters DEF MoveKind, State, Notice
<1>2. Reserve(w, m) = Tell(h, x, "prepared")
  BY DEF Reserve, Hold
<1>3. f \in Work /\ Alike(w, f)
  BY <1>1, MoveType, AlikeOf
<1> HIDE DEF f
<1>4. g \in Work /\ Becomes(f, g, {x}, "RESERVED")
  BY <1>1, <1>3, ChangeStateType, BecomesOf
<1> HIDE DEF g
<1>5. h \in Work /\ Alike(g, h)
  <2>1. g.base - Amount[m.id] \in Int
    BY <1>1, <1>4, WorkType
  <2> QED
    BY <1>4, <2>1 DEF Work, Alike
<1> HIDE DEF h
<1>6. Tell(h, x, "prepared") \in Work /\ Alike(h, Tell(h, x, "prepared"))
  BY <1>1, <1>5, TellType, AlikeOf
<1> QED
  BY <1>2, <1>3, <1>4, <1>5, <1>6, AlikeThen

LEMMA TimeoutWrites ==
  ASSUME NEW w \in Work, NEW m \in Message,
         NEW g, g = TimeoutMove(w, m) \/ g = FxTimeoutMove(w, m), NEW v, v = Tell(g, m.id, "timedOut")
  PROVE  v \in Work /\ Becomes(w, v, {m.id}, "EXPIRED_RESERVED") /\ v.rows[m.id] = "EXPIRED_RESERVED"
<1> DEFINE x == m.id
           s == "EXPIRED_RESERVED"
           f == Move(w, m, x, "refund")
<1>1. x \in Id /\ "refund" \in MoveKind /\ s \in State /\ "timedOut" \in Notice
  BY MessageType DEF MoveKind, State, Notice
<1>2. f \in Work /\ Alike(w, f)
  BY <1>1, MoveType, AlikeOf
<1>3. g \in Work /\ Becomes(f, g, {x}, s) /\ g.rows[x] = s
  <2>1. g = ChangeState(f, x, s) \/ g = [f EXCEPT !.rows[x] = s]
    BY DEF TimeoutMove, FxTimeoutMove
  <2> HIDE DEF f
  <2>2. CASE g = ChangeState(f, x, s)
    <3> HIDE DEF x
    <3>1. ChangeState(f, x, s) \in Work
      BY <1>1, <1>2, ChangeStateType
    <3>2. Becomes(f, ChangeState(f, x, s), {x}, s) /\ ChangeState(f, x, s).rows[x] = s
      BY <1>1, <1>2, BecomesOf
    <3> QED
      BY <2>2, <3>1, <3>2
  <2>3. CASE g = [f EXCEPT !.rows[x] = s]
    <3>1. /\ g \in Work /\ g.rows = [f.rows EXCEPT ![x] = s] /\ g.latest = f.latest /\ g.seen = f.seen
          /\ g.left = f.left
      BY <1>1, <1>2, <2>3 DEF Work
    <3>2. f.rows \in [Id -> State]
      BY <1>2, WorkType
    <3> QED
      BY <1>1, <3>1, <3>2 DEF Becomes
  <2> QED
    BY <2>1, <2>2, <2>3
<1> HIDE DEF f
<1>4. v \in Work /\ Alike(g, v)
  BY <1>1, <1>3, TellType, AlikeOf
<1>5. Becomes(w, v, {x}, s)
  BY <1>2, <1>3, <1>4, AlikeThen
<1> QED
  BY <1>3, <1>4, <1>5 DEF Alike

LEMMA CommitWrites ==
  ASSUME NEW w \in Work, NEW m, Sound(m), m.action = "commit"
  PROVE  CommitStep(w, m) \in Work /\ Becomes(w, CommitStep(w, m), Concerns(m), "COMMITTED")
<1> DEFINE x == NextMove(m)
           s == "COMMITTED"
           f == Move(w, m, x, "credit")
           g == ChangeState(f, x, s)
           h == CommitMove(w, m)
           n == MoveNothing(h, m, s)
<1>1. m \in Message /\ x \in Id /\ {x} \subseteq Concerns(m) /\ m.unmoved \subseteq Concerns(m) /\ m.id \in Id
      /\ "credit" \in MoveKind /\ s \in State /\ "committed" \in Notice
  BY NextMoveType, MessageType DEF Concerns, MoveKind, State, Notice
<1>2. h = PatchCommitted(g, x)
  BY DEF CommitMove
<1>3. CommitStep(w, m) = IF IsLast(m) THEN Tell(n, m.id, "committed") ELSE FollowUp(h, m, "credit")
  BY DEF CommitStep
<1>4. CommitStep(w, m) \in Work /\ h \in Work
  BY CommitStepIs, CommitMoveIs
<1> HIDE DEF x
<1>5. f \in Work /\ Alike(w, f)
  BY <1>1, MoveType, AlikeOf
<1> HIDE DEF f
<1>6. g \in Work /\ Becomes(f, g, {x}, s)
  BY <1>1, <1>5, ChangeStateType, BecomesOf
<1> HIDE DEF g
<1>7. Alike(g, h)
  BY <1>2, <1>6, AlikeOf DEF PatchCommitted, Alike
<1> HIDE DEF h
<1>8. Becomes(w, h, {x}, s)
  BY <1>5, <1>6, <1>7, AlikeThen
<1>9. n \in Work /\ Becomes(h, n, m.unmoved, s)
  BY <1>1, <1>4, MoveNothingType, BecomesOf
<1>10. Becomes(w, n, Concerns(m), s) /\ Becomes(w, h, Concerns(m), s)
  BY <1>1, <1>8, <1>9, BecomesMore DEF Becomes
<1> HIDE DEF n
<1>11. Alike(n, Tell(n, m.id, "committed")) /\ Alike(h, FollowUp(h, m, "credit"))
  BY <1>4, <1>9, AlikeOf
<1> QED
  BY <1>3, <1>4, <1>10, <1>11, AlikeThen

LEMMA AbortWrites ==
  ASSUME NEW w \in Work, NEW m, Sound(m), m.action \in Aborts
  PROVE  /\ AbortStep(w, m) \in Work /\ Becomes(w, AbortStep(w, m), Concerns(m), "ABORTED_ERROR")
         /\ AbortStep(w, m).rows[NextMove(m)] = "ABORTED_ERROR"
<1> DEFINE x == NextMove(m)
           s == "ABORTED_ERROR"
           f == Move(w, m, x, "refund")
           g == ChangeState(f, x, s)
           h == AbortMove(w, m)
           n == MoveNothing(h, m, s)
           v == AbortStep(w, m)
<1>1. m \in Message /\ x \in Id /\ {x} \subseteq Concerns(m) /\ m.unmoved \subseteq Concerns(m)
      /\ "refund" \in MoveKind /\ s \in State /\ "aborted" \in Notice
  BY NextMoveType, MessageType DEF Concerns, MoveKind, State, Notice
<1>2. h = PatchAborted(g, m, x)
  BY DEF AbortMove
<1>3. v = IF IsLast(m) THEN TellAll(n, NotifiedOf(m), "aborted") ELSE FollowUp(h, m, "refund")
  BY DEF AbortStep
<1>4. v \in Work /\ h \in Work
  BY AbortStepIs, AbortMoveIs
<1> HIDE DEF x, v
<1>5. f \in Work /\ Alike(w, f)
  BY <1>1, MoveType, AlikeOf
<1> HIDE DEF f
<1>6. g \in Work /\ Becomes(f, g, {x}, s) /\ g.rows[x] = s
  <2>1. g \in Work
    BY <1>1, <1>5, ChangeStateType
  <2>2. Becomes(f, g, {x}, s) /\ g.rows[x] = s
    BY <1>1, <1>5, BecomesOf
  <2> QED
    BY <2>1, <2>2
<1> HIDE DEF g
<1>7. Alike(g, h)
  BY <1>2, <1>6, AlikeOf DEF PatchAborted, Alike
<1> HIDE DEF h
<1>8. Becomes(w, h, {x}, s) /\ h.rows[x] = s
  BY <1>5, <1>6, <1>7, AlikeThen DEF Alike
<1>9. n \in Work /\ Becomes(h, n, m.unmoved, s) /\ n.rows[x] = s
  <2>1. n \in Work
    BY <1>1, <1>4, MoveNothingType
  <2>2. /\ \A k : Becomes(h, MoveNothing(h, k, s), k.unmoved, s)
        /\ \A k : \A y \in Id : h.rows[y] = s => MoveNothing(h, k, s).rows[y] = s
    BY <1>4, BecomesOf
  <2> QED
    BY <1>1, <1>8, <2>1, <2>2
<1>10. Becomes(w, n, Concerns(m), s) /\ Becomes(w, h, Concerns(m), s)
  BY <1>1, <1>8, <1>9, BecomesMore DEF Becomes
<1> HIDE DEF n
<1>11. Alike(n, TellAll(n, NotifiedOf(m), "aborted")) /\ Alike(h, FollowUp(h, m, "refund"))
  BY <1>4, <1>9, AlikeOf
<1>12. Becomes(w, v, Concerns(m), s) /\ v.rows[x] = s
  BY <1>3, <1>8, <1>9, <1>10, <1>11, AlikeThen DEF Alike
<1> QED
  BY <1>4, <1>12 DEF x, v

(* Each bin's message is worked as Writing says, or the batch is given up.  *)
LEMMA ItemWrites ==
  ASSUME NEW c \in Consumer, work \in [Consumer -> Work], NEW m, Sound(m),
         \/ FxReserveItem(c, m) \/ FxTimeoutItem(c, m) \/ FulfilItem(c, m)
         \/ AbortItem(c, m) \/ FxAbortItem(c, m) \/ TimeoutItem(c, m)
         \/ PrepareItem(c, m) \/ FxPrepareItem(c, m)
  PROVE  Rollback(c) \/ (Writing(work[c], work'[c], m) /\ state' = state)
<1> DEFINE w == work[c]
           e == Enter(w, m)
           u == work'[c]
<1>1. w \in Work /\ m \in Message /\ m.id \in Id /\ e \in Work
      /\ {"accepted", "fulfilError", "prepareError"} \subseteq Notice
  BY MessageType, EnterType DEF Sound, Notice
<1>2. \A y : SaysTimedOut(e, y) => SaysTimedOut(w, y)
  BY <1>1, EnterSees
<1>3. ASSUME NEW v \in Work, Done(c, m, v) PROVE Alike(v, u) /\ state' = state
  BY <1>3, DoneAlike
<1> HIDE DEF e, w, u
<1>4. ASSUME NEW v \in Work, Done(c, m, v), NEW xs, NEW s, s # "RESERVED_TIMEOUT", Becomes(e, v, xs, s),
             \A y \in xs : y \in Id => Writes(m, y, s)
      PROVE  Steady(w, u, m)
  <2>1. Becomes(e, u, xs, s)
    BY <1>3, <1>4, AlikeThen
  <2> QED
    BY <1>1, <1>4, <2>1, SteadyBy DEF e
<1>5. ASSUME m.action \notin Aborts \union {"timeout", "fxTimeout"}, Steady(w, u, m) PROVE Writing(w, u, m)
  BY <1>5 DEF Writing
<1>6. CASE FxReserveItem(c, m)
  <2> DEFINE a == Tell(e, m.id, "accepted")
             r == Tell(ChangeState(e, m.id, "ABORTED_REJECTED"), m.id, "fulfilError")
  <2>1. m.action = "fxReserve" /\ (Done(c, m, a) \/ Done(c, m, r))
    BY <1>6 DEF FxReserveItem, NextItem, e, w
  <2>2. /\ a \in Work /\ Becomes(e, a, {m.id}, "ABORTED_REJECTED")
        /\ r \in Work /\ Becomes(e, r, {m.id}, "ABORTED_REJECTED")
    BY <1>1, AnswerWrites
  <2>3. \A y \in {m.id} : Writes(m, y, "ABORTED_REJECTED")
    BY <2>1 DEF Writes
  <2> HIDE DEF a, r
  <2>4. Steady(w, u, m) /\ state' = state
    BY <1>3, <1>4, <2>1, <2>2, <2>3
  <2> QED
    BY <1>5, <2>1, <2>4 DEF Aborts, w, u
<1>7. CASE FulfilItem(c, m)
  <2> DEFINE a == Tell(e, m.id, "fulfilError")
             v == CommitStep(e, m)
  <2>1. m.action = "commit" /\ (Done(c, m, v) \/ Done(c, m, a))
    BY <1>7 DEF FulfilItem, FulfilError, NextItem, e, w
  <2>2. /\ v \in Work /\ Becomes(e, v, Concerns(m), "COMMITTED")
        /\ a \in Work /\ Becomes(e, a, {}, "COMMITTED")
    BY <1>1, <2>1, CommitWrites, AnswerWrites, AlikeOf, NothingBecomes
  <2>3. \A y \in Concerns(m) : Writes(m, y, "COMMITTED")
    BY <2>1 DEF Writes
  <2> HIDE DEF a, v
  <2>4. Steady(w, u, m) /\ state' = state
    BY <1>3, <1>4, <2>1, <2>2, <2>3
  <2> QED
    BY <1>5, <2>1, <2>4 DEF Aborts, w, u
<1>8. CASE PrepareItem(c, m) \/ FxPrepareItem(c, m)
  <2> DEFINE h == Reserve(e, m)
             r == Tell(ChangeState(e, m.id, "ABORTED_REJECTED"), m.id, "prepareError")
  <2>1. m.action \in {"prepare", "fxPrepare"} /\ (Done(c, m, h) \/ Done(c, m, r))
    <3>1. CASE PrepareItem(c, m)
      BY <3>1 DEF PrepareItem, PrepareMessage, NextItem, Reject, e, w
    <3>2. CASE FxPrepareItem(c, m)
      BY <3>2 DEF FxPrepareItem, FxPrepareMessage, NextItem, FxReserve, Reserve, Reject, e, w
    <3> QED
      BY <1>8, <3>1, <3>2
  <2>2. /\ h \in Work /\ Becomes(e, h, {m.id}, "RESERVED")
        /\ r \in Work /\ Becomes(e, r, {m.id}, "ABORTED_REJECTED")
    BY <1>1, HoldWrites, AnswerWrites
  <2>3. \A y \in {m.id} : Writes(m, y, "ABORTED_REJECTED") /\ Writes(m, y, "RESERVED")
    BY <2>1 DEF Writes
  <2> HIDE DEF h, r
  <2>4. Steady(w, u, m) /\ state' = state
    BY <1>3, <1>4, <2>1, <2>2, <2>3
  <2> QED
    BY <1>5, <2>1, <2>4 DEF Aborts, w, u
<1>9. CASE TimeoutItem(c, m) \/ FxTimeoutItem(c, m)
  <2>1. PICK g : /\ g = TimeoutMove(e, m) \/ g = FxTimeoutMove(e, m)
                 /\ m.action \in {"timeout", "fxTimeout"}
                 /\ \/ Rollback(c)
                    \/ e.seen[m.id] = "RESERVED_TIMEOUT" /\ Done(c, m, Tell(g, m.id, "timedOut"))
    <3>1. CASE TimeoutItem(c, m)
      BY <3>1 DEF TimeoutItem, TellTimeout, NextItem, e, w
    <3>2. CASE FxTimeoutItem(c, m)
      BY <3>2 DEF FxTimeoutItem, TellFxTimeout, NextItem, e, w
    <3> QED
      BY <1>9, <3>1, <3>2
  <2> DEFINE v == Tell(g, m.id, "timedOut")
  <2>2. CASE e.seen[m.id] = "RESERVED_TIMEOUT" /\ Done(c, m, v)
    <3>1. v \in Work /\ Becomes(e, v, {m.id}, "EXPIRED_RESERVED") /\ v.rows[m.id] = "EXPIRED_RESERVED"
      BY <1>1, <2>1, TimeoutWrites
    <3>2. \A y \in {m.id} : Writes(m, y, "EXPIRED_RESERVED")
      BY <2>1 DEF Writes
    <3>3. SaysTimedOut(w, m.id)
      BY <1>2, <2>2 DEF SaysTimedOut
    <3> HIDE DEF v
    <3>4. Steady(w, u, m) /\ state' = state /\ u.rows[m.id] = "EXPIRED_RESERVED"
      BY <1>3, <1>4, <2>2, <3>1, <3>2 DEF Alike
    <3> QED
      BY <2>1, <3>3, <3>4 DEF Writing, Aborts, w, u
  <2> QED
    BY <2>1, <2>2
<1>10. CASE AbortItem(c, m) \/ FxAbortItem(c, m)
  <2> DEFINE v == AbortStep(e, m)
  <2>1. m.action \in Aborts /\ (Rollback(c) \/ Done(c, m, v))
    BY <1>10 DEF AbortItem, FxAbortItem, AbortMessage, NextItem, Aborts, e, w
  <2>2. CASE Done(c, m, v)
    <3>1. /\ v \in Work /\ Becomes(e, v, Concerns(m), "ABORTED_ERROR")
          /\ v.rows[NextMove(m)] = "ABORTED_ERROR"
      BY <1>1, <2>1, AbortWrites
    <3>2. \A y \in Concerns(m) : Writes(m, y, "ABORTED_ERROR")
      BY <2>1 DEF Writes
    <3> HIDE DEF v
    <3>3. Steady(w, u, m) /\ state' = state /\ u.rows[NextMove(m)] = "ABORTED_ERROR"
      BY <1>3, <1>4, <2>2, <3>1, <3>2 DEF Alike
    <3> QED
      BY <2>1, <3>3 DEF Writing, Aborts, w, u
  <2> QED
    BY <2>1, <2>2
<1> QED
  BY <1>6, <1>7, <1>8, <1>9, <1>10

(* What the steps of a consumer do to the states.                           *)
Acts(c) ==
  \/ \E b : /\ Taking(c, b) /\ state' = state
            /\ \A x \in Id : /\ work'[c].rows[x] = "none"
                             /\ SaysTimedOut(work'[c], x) => state[x] = "RESERVED_TIMEOUT"
  \/ GivingUp(c) /\ state' = state
  \/ \E m, v : Working(c, m, v) /\ state' = state /\ Writing(work[c], work'[c], m)
  \/ /\ CommittingOffset(c) /\ state' = state /\ work'[c].rows = work[c].rows
     /\ \A x \in Id : ~SaysTimedOut(work'[c], x)
  \/ CommittingTrx(c) /\ state' = InsertedStates(work[c])
  \/ Producing(c) /\ state' = state
  \/ Crashing(c) /\ state' = state

LEMMA ItemActs ==
  ASSUME BatchInv, NEW c \in Consumer, Item(c)
  PROVE  Acts(c)
<1>1. /\ work[c] \in Work /\ work \in [Consumer -> Work] /\ \A m \in work[c].todo : Sound(m)
  BY DEF BatchInv, TypeOK, BatchTypeOK, WorkSound
<1>2. PICK m \in work[c].todo :
        \/ FxReserveItem(c, m) \/ FxTimeoutItem(c, m) \/ FulfilItem(c, m)
        \/ AbortItem(c, m) \/ FxAbortItem(c, m) \/ TimeoutItem(c, m)
        \/ PrepareItem(c, m) \/ FxPrepareItem(c, m)
  BY DEF Item
<1>3. Sound(m) /\ work[c].pc = "bins"
  BY <1>1, <1>2 DEF FxReserveItem, FxTimeoutItem, FulfilItem, AbortItem, FxAbortItem, TimeoutItem,
                    PrepareItem, FxPrepareItem, NextItem
<1>4. Rollback(c) \/ (Writing(work[c], work'[c], m) /\ state' = state)
  BY <1>1, <1>2, <1>3, ItemWrites
<1>5. CASE Rollback(c)
  BY <1>3, <1>5, RollbackDoes DEF Acts, Rollback, database
<1>6. CASE ~Rollback(c)
  <2>1. Worked(c, m)
    <3>1. AbortItem(c, m) => m.action \in Aborts /\ AbortMessage(c, m)
      BY DEF AbortItem, NextItem, Aborts
    <3>2. FxAbortItem(c, m) => m.action \in Aborts /\ AbortMessage(c, m)
      BY DEF FxAbortItem, NextItem, Aborts
    <3>3. PrepareItem(c, m) => m.action \in {"prepare", "fxPrepare"} /\ PrepareMessage(c, m)
      BY DEF PrepareItem, NextItem
    <3>4. FxPrepareItem(c, m) => m.action \in {"prepare", "fxPrepare"} /\ FxPrepareMessage(c, m)
      BY DEF FxPrepareItem, NextItem
    <3> QED
      BY <1>1, <1>2, <1>3, <1>6, <3>1, <3>2, <3>3, <3>4, FxReserveItemIs, FxTimeoutItemIs, FulfilItemIs,
         AbortMessageIs, TimeoutItemIs, PrepareMessageIs
  <2>2. \E v : Working(c, m, v)
    BY <1>3, <2>1, WorkedDoes
  <2> QED
    BY <1>4, <1>6, <2>2 DEF Acts
<1> QED
  BY <1>5, <1>6

LEMMA BatchActsMore ==
  ASSUME BatchInv, NEW c \in Consumer,
         Poll(c) \/ Item(c) \/ CommitOffset(c) \/ CommitTrx(c) \/ Produce(c) \/ CrashBatch(c)
  PROVE  Acts(c)
<1>1. work[c] \in Work /\ work \in [Consumer -> Work] /\ state \in [Id -> State] /\ pending \subseteq Message
  BY DEF BatchInv, TypeOK, BatchTypeOK
<1>2. CASE Poll(c)
  <2>1. PICK b \in SUBSET pending : work' = [work EXCEPT ![c] = Begin(b)] /\ pending' = pending \ b
             /\ \A m \in b : ConsumerOf[m.account] = c
    BY <1>2 DEF Poll
  <2>2. state' = state
    BY <1>2 DEF Poll, database
  <2>3. b \in SUBSET Message
    BY <1>1, <2>1
  <2>4. /\ work'[c] = Begin(b) /\ Begin(b).rows = NoStates /\ Begin(b).latest = LatestStates(TransferIds(b))
        /\ Begin(b).seen = NoStates /\ Begin(b).left = NoStates
    BY <1>1, <2>1, <2>3, BeginType DEF Begin, Idle
  <2>5. \A x \in Id : LatestStates(TransferIds(b))[x] \in {"none", state[x]}
    BY DEF LatestStates
  <2>6. \A x \in Id : /\ work'[c].rows[x] = "none"
                      /\ SaysTimedOut(work'[c], x) => state[x] = "RESERVED_TIMEOUT"
    BY <2>4, <2>5 DEF SaysTimedOut, NoStates
  <2>7. PICK d : Taking(c, d)
    BY <1>2, PollDoes
  <2> QED
    BY <2>2, <2>6, <2>7 DEF Acts
<1>3. CASE CommitOffset(c)
  <2>1. /\ CommittingOffset(c) /\ state' = state
        /\ work' = [work EXCEPT ![c] = [@ EXCEPT !.pc = "commit", !.bin = NoBin, !.base = 0,
                 !.latest = NoStates, !.seen = NoStates, !.left = NoStates]]
    BY <1>3, CommitOffsetDoes DEF CommitOffset, database
  <2>2. /\ work'[c].rows = work[c].rows /\ work'[c].latest = NoStates /\ work'[c].seen = NoStates
        /\ work'[c].left = NoStates
    BY <1>1, <2>1 DEF Work
  <2>3. \A x \in Id : ~SaysTimedOut(work'[c], x)
    BY <2>2 DEF SaysTimedOut, NoStates
  <2> QED
    BY <2>1, <2>2, <2>3 DEF Acts
<1>4. CASE CommitTrx(c)
  BY <1>4, CommitTrxDoes DEF Acts, CommitTrx
<1>5. CASE Produce(c)
  BY <1>5, ProduceDoes DEF Acts, Produce, database
<1>6. CASE CrashBatch(c)
  BY <1>6, CrashDoes DEF Acts, CrashBatch, database
<1>7. CASE Item(c)
  BY <1>7, ItemActs
<1> QED
  BY <1>2, <1>3, <1>4, <1>5, <1>6, <1>7

LEMMA ActsAct ==
  ASSUME NEW c, Acts(c)
  PROVE  BatchActs(c)
BY DEF Acts, BatchActs

(* The messages that give back.                                             *)
LEMMA FamilyOf ==
  /\ \A t \in Transfer : t \in Id /\ TransferOf(t) = t /\ \A x \in Family(t) : x \in Id /\ TransferOf(x) = t
  /\ \A x \in Id : TransferOf(x) \in Transfer /\ x \in Family(TransferOf(x))
<1>1. ASSUME NEW t \in Transfer, NEW x \in Family(t) PROVE x \in Id /\ TransferOf(x) = t
  <2>1. x \in ConversionsOf(t) => x \in Conversion /\ Determining[x] = t /\ x \notin Transfer
    BY DeterminedBy DEF ConversionsOf
  <2> QED
    BY <1>1, <2>1 DEF Family, TransferOf, Id
<1>2. \A t \in Transfer : t \in Id /\ TransferOf(t) = t
  BY DEF TransferOf, Id
<1>3. \A x \in Id : TransferOf(x) \in Transfer /\ x \in Family(TransferOf(x))
  BY TransferOfType DEF Family
<1> QED
  BY <1>1, <1>2, <1>3

LEMMA AbortPlanOf ==
  ASSUME NEW t \in Transfer
  PROVE  /\ ConversionsOf(t) = {} => DebitAccount[t] # NoAccount /\ AbortPlan(t) = <<t>>
         /\ \A c \in ConversionsOf(t) : AbortPlan(t) = IF DebitAccount[t] # NoAccount THEN <<c, t>> ELSE <<c>>
<1> DEFINE ts == IF DebitAccount[t] = NoAccount THEN {} ELSE {t}
<1>1. AbortPlan(t) = PositionChanges(ConversionsOf(t), ts)
  BY DEF AbortPlan
<1>2. t \in Id /\ {t} \in SUBSET Id /\ {} \in SUBSET Id
  BY DEF Id
<1>3. CASE ConversionsOf(t) = {}
  <2>1. DebitAccount[t] # NoAccount
    BY <1>3, DeterminingAssumption DEF ConversionsOf
  <2>2. PositionChanges({}, {t}) = <<t>>
    BY <1>2, PositionChangesAre
  <2> QED
    BY <1>1, <1>3, <2>1, <2>2
<1>4. ASSUME NEW c \in ConversionsOf(t)
      PROVE  AbortPlan(t) = IF DebitAccount[t] # NoAccount THEN <<c, t>> ELSE <<c>>
  <2>1. c \in Id /\ {c} \in SUBSET Id /\ ConversionsOf(t) = {c}
    BY TheConversion DEF Id
  <2>2. PositionChanges({c}, {t}) = <<c, t>> /\ PositionChanges({c}, {}) = <<c>>
    BY <1>2, <2>1, PositionChangesAre
  <2> QED
    BY <1>1, <2>1, <2>2
<1> QED
  BY <1>3, <1>4

LEMMA AbortingIs ==
  ASSUME NEW x \in Id, DebitAccount[x] # NoAccount
  PROVE  /\ Aborting(x).id = TransferOf(x) /\ Aborting(x).action = "abort"
         /\ Aborting(x).account = DebitAccount[x] /\ Aborting(x).plan = AbortPlan(TransferOf(x))
         /\ Aborting(x).done = (IF IsSecond(x) THEN 1 ELSE 0)
         /\ NextMove(Aborting(x)) = x
         /\ HandlerOf(Aborting(x)) = PayerOf(x) /\ PayerOf(x) \in Consumer
         /\ IsSecond(x) => \A c \in ConversionsOf(x) : Aborting(x).plan[1] = c
<1> DEFINE t == TransferOf(x)
           m == Aborting(x)
           p == AbortPlan(t)
<1>1. /\ m.id = t /\ m.action = "abort" /\ m.account = DebitAccount[x] /\ m.plan = p
      /\ m.done = (IF IsSecond(x) THEN 1 ELSE 0)
  BY DEF Aborting
<1>2. t \in Transfer /\ (x \notin Transfer => x \in ConversionsOf(t)) /\ (x \in Transfer => t = x)
  BY TransferOfType DEF TransferOf
<1>3. /\ ConversionsOf(t) = {} => p = <<t>>
      /\ \A c \in ConversionsOf(t) : p = IF DebitAccount[t] # NoAccount THEN <<c, t>> ELSE <<c>>
  BY <1>2, AbortPlanOf
<1> HIDE DEF m, p
<1>4. NextMove(m) = x /\ (IsSecond(x) => \A c \in ConversionsOf(x) : m.plan[1] = c)
  <2>1. CASE x \notin Transfer
    <3>1. p = <<x, t>> \/ p = <<x>>
      BY <1>2, <1>3, <2>1
    <3> HIDE DEF t
    <3>2. p[1] = x
      BY <3>1
    <3> QED
      BY <1>1, <2>1, <3>2 DEF IsSecond, NextMove
  <2>2. CASE x \in Transfer /\ ConversionsOf(x) = {}
    <3>1. m.done = 0 /\ m.plan[1] = x
      BY <1>1, <1>2, <1>3, <2>2 DEF IsSecond
    <3> QED
      BY <2>2, <3>1 DEF NextMove, IsSecond
  <2>3. ASSUME x \in Transfer, NEW c \in ConversionsOf(x) PROVE NextMove(m) = x /\ m.plan[1] = c
    <3>1. m.done = 1 /\ m.plan = <<c, x>>
      BY <1>1, <1>2, <1>3, <2>3 DEF IsSecond
    <3> QED
      BY <3>1 DEF NextMove
  <2> QED
    BY <2>1, <2>2, <2>3 DEF IsSecond
<1>5. HandlerOf(m) = PayerOf(x) /\ PayerOf(x) \in Consumer
  BY <1>1, Parameters, ConsumerAssumption DEF HandlerOf, PayerOf
<1> QED
  BY <1>1, <1>4, <1>5 DEF m, p

LEMMA AbortingFollows ==
  ASSUME NEW m \in Message, NEW y \in Id, DebitAccount[y] # NoAccount, m = Aborting(y), ~IsLast(m)
  PROVE  LET t == TransferOf(y)
         IN /\ DebitAccount[t] # NoAccount /\ IsSecond(t) /\ y \in ConversionsOf(t) /\ Following(m) = Aborting(t)
            /\ ~IsSecond(y) /\ t \in Transfer
<1> DEFINE t == TransferOf(y)
           p == AbortPlan(t)
           u == IF DebitAccount[t] = NoAccount THEN {t} ELSE {}
           a == DebitAccount[t]
<1>1. /\ m.plan = p /\ m.done = (IF IsSecond(y) THEN 1 ELSE 0) /\ m.action = "abort"
  BY AbortingIs
<1>2. t \in Transfer /\ t \in Id /\ (y \notin Transfer => y \in ConversionsOf(t)) /\ (y \in Transfer => t = y)
  BY TransferOfType DEF TransferOf, Id
<1>3. PICK c \in ConversionsOf(t) : a # NoAccount /\ m.plan = <<c, t>> /\ m.done = 0
  <2>2. ConversionsOf(t) # {}
    <3>1. SUFFICES ASSUME ConversionsOf(t) = {} PROVE FALSE
      OBVIOUS
    <3>2. m.plan = <<t>> /\ m.done = 0
      BY <1>1, <1>2, <3>1, AbortPlanOf DEF IsSecond
    <3> QED
      BY <3>2 DEF IsLast
  <2>3. PICK c \in ConversionsOf(t) : TRUE
    BY <2>2
  <2>4. m.plan = IF a # NoAccount THEN <<c, t>> ELSE <<c>>
    BY <1>1, <1>2, <2>3, AbortPlanOf
  <2>5. CASE y \in Transfer
    <3>1. m.done = 1 /\ m.plan = <<c, t>>
      BY <1>1, <1>2, <2>2, <2>4, <2>5 DEF IsSecond
    <3> QED
      BY <3>1 DEF IsLast
  <2>6. CASE y \notin Transfer
    <3>1. m.done = 0
      BY <1>1, <2>6 DEF IsSecond
    <3>2. m.plan = <<c>> => IsLast(m)
      BY <3>1 DEF IsLast
    <3> QED
      BY <2>3, <2>4, <3>1, <3>2
  <2> QED
    BY <2>5, <2>6
<1>4. IsSecond(t) /\ ~IsSecond(y) /\ y \in ConversionsOf(t)
  <2>1. m.done # 1
    BY <1>3
  <2>2. ~IsSecond(y)
    BY <1>1, <2>1
  <2>3. IsSecond(t)
    BY <1>2, <1>3 DEF IsSecond
  <2> QED
    BY <1>2, <2>2, <2>3
<1>5. Following(m) = Aborting(t)
  <2>1. m.plan[m.done + 2] = t /\ KindOf(m) = "refund"
    BY <1>1, <1>3 DEF KindOf
  <2>2. Following(m) = [m EXCEPT !.done = 1, !.account = a]
    BY <1>3, <2>1 DEF Following, AccountFor, Message
  <2>3. m = [id |-> t, action |-> "abort", account |-> DebitAccount[y], plan |-> p, done |-> 0, unmoved |-> u]
    BY <1>4 DEF Aborting
  <2>4. Aborting(t) = [id |-> t, action |-> "abort", account |-> a, plan |-> p, done |-> 1, unmoved |-> u]
    BY <1>2, <1>4 DEF Aborting, TransferOf
  <2> HIDE DEF p, u, t, a
  <2> DEFINE d == [m EXCEPT !.done = 1]
             r == [id |-> t, action |-> "abort", account |-> DebitAccount[y], plan |-> p, done |-> 1, unmoved |-> u]
  <2>5. d = r
    BY <2>3
  <2>6. Following(m) = [d EXCEPT !.account = a]
    BY <2>2 DEF Message
  <2> HIDE DEF d
  <2>7. [r EXCEPT !.account = a]
          = [id |-> t, action |-> "abort", account |-> a, plan |-> p, done |-> 1, unmoved |-> u]
    OBVIOUS
  <2> QED
    BY <2>4, <2>5, <2>6, <2>7
<1> QED
  BY <1>2, <1>3, <1>4, <1>5

LEMMA RefusingIs ==
  ASSUME NEW c \in Conversion
  PROVE  /\ Refusing(c).id = c /\ Refusing(c).action = "fxAbort" /\ Refusing(c).account = DebitAccount[c]
         /\ Refusing(c).plan = <<c>> /\ Refusing(c).done = 0 /\ NextMove(Refusing(c)) = c /\ IsLast(Refusing(c))
         /\ HandlerOf(Refusing(c)) = PayerOf(c) /\ PayerOf(c) \in Consumer /\ Concerns(Refusing(c)) = {c}
<1>1. c \in Id
  BY DeterminedBy
<1>2. PayerOf(c) \in Consumer
  BY <1>1, Parameters, ConsumerAssumption DEF PayerOf
<1>3. Range(<<c>>) = {c}
  BY <1>1, ShortPlans
<1> QED
  BY <1>2, <1>3 DEF Refusing, NextMove, IsLast, HandlerOf, PayerOf, Concerns

LEMMA TimingOutIs ==
  ASSUME NEW x \in Id
  PROVE  /\ TimingOut(x).id = x /\ TimingOut(x).account = DebitAccount[x]
         /\ TimingOut(x).action = IF x \in Transfer THEN "timeout" ELSE "fxTimeout"
BY DEF TimingOut, Ask

(* What a message gives back.                                               *)
GivesTo(m, x) ==
  /\ m.account # NoAccount /\ m.account = DebitAccount[x]
  /\ \/ m.action \in {"timeout", "fxTimeout"} /\ x = m.id
     \/ m.action \in Aborts /\ x = NextMove(m)

LEMMA RefundMoves ==
  ASSUME NEW w \in Work, NEW v, NEW m, Sound(m), Effect(w, v, m), NEW x \in Id
  PROVE  \/ v.moved[x]["refund"] = w.moved[x]["refund"]
         \/ v.moved[x]["refund"] = w.moved[x]["refund"] + 1 /\ GivesTo(m, x)
<1>1. /\ m \in Message /\ m.id \in Id /\ "debit" \in MoveKind /\ "credit" \in MoveKind /\ "refund" \in MoveKind
  BY MessageType DEF Sound, MoveKind
<1>2. CASE Declines(w, v, m)
  BY <1>2 DEF Declines, Kept
<1>3. CASE Holds(w, v, m)
  <2>1. Made(w, v, m, m.id, "debit")
    BY <1>3 DEF Holds
  <2>2. v.moved[x]["refund"] = IF x = m.id /\ "refund" = "debit" /\ m.account # NoAccount
                               THEN w.moved[x]["refund"] + 1 ELSE w.moved[x]["refund"]
    BY <1>1, <2>1, MadeMoves
  <2> QED
    BY <2>2
<1>4. CASE Pays(w, v, m)
  <2>1. Made(w, v, m, NextMove(m), "credit") /\ NextMove(m) \in Id
    BY <1>4, NextMoveType DEF Pays
  <2> DEFINE y == NextMove(m)
  <2>3. y \in Id /\ Made(w, v, m, y, "credit")
    BY <2>1
  <2> HIDE DEF y
  <2>2. \A k \in MoveKind : v.moved[x][k] = IF x = y /\ k = "credit" /\ m.account # NoAccount
                                            THEN w.moved[x][k] + 1 ELSE w.moved[x][k]
    BY <1>1, <2>3, MadeMoves
  <2> QED
    BY <1>1, <2>2
<1>5. CASE Returns(w, v, m)
  <2>1. Made(w, v, m, m.id, "refund") /\ m.action \in {"timeout", "fxTimeout"} /\ m.account = DebitAccount[m.id]
    BY <1>5 DEF Returns, Sound, Own
  <2>2. \A y \in Id : Made(w, v, m, y, "refund") =>
          v.moved[x]["refund"] = IF x = y /\ m.account # NoAccount THEN w.moved[x]["refund"] + 1 ELSE w.moved[x]["refund"]
    BY <1>1, MadeMoves
  <2> QED
    BY <1>1, <2>1, <2>2 DEF GivesTo
<1>6. CASE GivesBack(w, v, m)
  <2>1. /\ Made(w, v, m, NextMove(m), "refund") /\ m.action \in Aborts /\ NextMove(m) \in Id
        /\ m.account = DebitAccount[NextMove(m)]
    BY <1>6, NextMoveType DEF GivesBack, Sound, Aborts, AccountFor, KindOf
  <2>2. v.moved[x]["refund"] = IF x = NextMove(m) /\ m.account # NoAccount THEN w.moved[x]["refund"] + 1 ELSE w.moved[x]["refund"]
    BY <1>1, <2>1, MadeMoves
  <2> QED
    BY <2>1, <2>2 DEF GivesTo
<1> QED
  BY <1>2, <1>3, <1>4, <1>5, <1>6 DEF Effect

(***************************************************************************)
(* Requests, runs of the timeout job and the passing of time: what becomes *)
(* of the states, and what is sent.                                        *)
(***************************************************************************)
Turns(x) ==
  \/ state'[x] = state[x]
  \/ state[x] = "none" /\ x \in Transfer /\ state'[x] = "INVALID"
  \/ state[x] = "none" /\ state'[x] = "RECEIVED_PREPARE" /\ (x \in Transfer => Prepared(x))
  \/ state[x] = "RECEIVED_PREPARE" /\ state'[x] = "EXPIRED_PREPARED"
  \/ state[x] = "RESERVED" /\ x \in Transfer /\ x \notin expired /\ state'[x] \in {"RECEIVED_FULFIL", "RECEIVED_ERROR"}
  \/ /\ state[x] \in {"RESERVED", "RECEIVED_FULFIL_DEPENDENT"}
     /\ \/ state'[x] = "RESERVED_TIMEOUT"
        \/ x \in Conversion /\ state'[x] = "RECEIVED_ERROR"
        \/ x \in Conversion /\ state'[x] = "RECEIVED_FULFIL_DEPENDENT" /\ Accepted(x)'
Sends(m) ==
  /\ Placed(m)'
  /\ m.action \in {"prepare", "fxPrepare"} => state[m.id] = "none" /\ state'[m.id] = "RECEIVED_PREPARE"
  /\ m.action = "abort" => ~Fails(m.id)
  /\ m.action = "fxAbort" => ~Refused(m.id)
Requested ==
  /\ HandlersStay
  /\ \A x \in Id : Turns(x) /\ answers[x] \subseteq answers'[x]
  /\ expired \subseteq expired'
  /\ pending \subseteq pending' /\ \A m \in pending' : m \in pending \/ Sends(m)
  /\ \A x \in Id : timeoutRow'[x] \subseteq Family(TransferOf(x))
  /\ \A t \in Transfer : Undisturbed(t)' =>
       \A c \in ConversionsOf(t) : t \in timeoutRow'[c] => t \in timeoutRow[c] \/ Late(t)'

LEMMA RequestsOne ==
  ASSUME BatchInv, CourseInv, HandlersStay, UNCHANGED <<expired, timeoutRow>>,
         answers' = answers \/ \E y \in Id, a \in Answer : answers' = [answers EXCEPT ![y] = @ \union {a}],
         \/ state' = state /\ pending' = pending
         \/ \E x \in Id, s \in State : SetState(x, s) /\ Turns(x) /\ (pending' = pending \/ \E m : Send(m) /\ Sends(m))
  PROVE  Requested
<1>1. state \in [Id -> State] /\ answers \in [Id -> SUBSET Answer]
  BY DEF BatchInv, TypeOK, BatchTypeOK
<1>2. \A y \in Id : Turns(y)
  <2>1. ASSUME NEW x \in Id, NEW s \in State, SetState(x, s), Turns(x), NEW y \in Id PROVE Turns(y)
    BY <1>1, <2>1 DEF SetState, Turns
  <2> QED
    BY <2>1 DEF Turns
<1>3. \A y \in Id : answers[y] \subseteq answers'[y]
  BY <1>1
<1>4. pending \subseteq pending' /\ \A m \in pending' : m \in pending \/ Sends(m)
  BY DEF Send
<1>5. \A x \in Id : timeoutRow'[x] \subseteq Family(TransferOf(x))
  BY DEF CourseInv
<1> QED
  BY <1>2, <1>3, <1>4, <1>5 DEF Requested

LEMMA RequestConversionTurns ==
  ASSUME BatchInv, CourseInv, NEW c \in Conversion, RequestConversion(c)
  PROVE  Requested
<1>1. /\ c \in Id /\ c \notin Transfer /\ state[c] = "none" /\ SetState(c, "RECEIVED_PREPARE")
      /\ Send(AskConversion(c)) /\ HandlersStay /\ UNCHANGED <<answers, expired, timeoutRow>>
      /\ "RECEIVED_PREPARE" \in State
  BY DeterminedBy DEF RequestConversion, State
<1> DEFINE m == AskConversion(c)
<1>2. m.id = c /\ m.action = "fxPrepare"
  BY DEF AskConversion, Ask
<1> HIDE DEF m
<1>3. state'[c] = "RECEIVED_PREPARE"
  BY <1>1 DEF SetState, BatchInv, TypeOK, BatchTypeOK
<1>4. Placed(m)'
  BY <1>2 DEF Placed, Aborts
<1>5. Sends(m)
  BY <1>1, <1>2, <1>3, <1>4 DEF Sends
<1>6. Turns(c)
  BY <1>1, <1>3 DEF Turns
<1> QED
  BY <1>1, <1>5, <1>6, RequestsOne DEF m

LEMMA RequestTransferTurns ==
  ASSUME BatchInv, CourseInv, NEW t \in Transfer, RequestTransfer(t)
  PROVE  Requested
<1>1. /\ t \in Id /\ state[t] = "none" /\ HandlersStay /\ UNCHANGED <<answers, expired, timeoutRow>>
      /\ "RECEIVED_PREPARE" \in State /\ "INVALID" \in State /\ state \in [Id -> State]
  BY DEF RequestTransfer, Id, State, BatchInv, TypeOK, BatchTypeOK
<1>2. CASE Prepared(t)
  <2> DEFINE m == AskTransfer(t)
  <2>1. SetState(t, "RECEIVED_PREPARE") /\ Send(m)
    BY <1>2 DEF RequestTransfer
  <2>2. m.id = t /\ m.action = "prepare"
    BY DEF AskTransfer, Ask
  <2> HIDE DEF m
  <2>3. state'[t] = "RECEIVED_PREPARE"
    BY <1>1, <2>1 DEF SetState
  <2>4. Placed(m)'
    BY <2>2 DEF Placed, Aborts
  <2>5. Sends(m) /\ Turns(t)
    BY <1>1, <1>2, <2>2, <2>3, <2>4 DEF Sends, Turns
  <2> QED
    BY <1>1, <2>1, <2>5, RequestsOne
<1>3. CASE ~Prepared(t)
  <2>1. SetState(t, "INVALID") /\ pending' = pending
    BY <1>3 DEF RequestTransfer
  <2>2. Turns(t)
    BY <1>1, <2>1 DEF SetState, Turns
  <2> QED
    BY <1>1, <2>1, <2>2, RequestsOne
<1> QED
  BY <1>2, <1>3

LEMMA AcceptConversionTurns ==
  ASSUME BatchInv, CourseInv, NEW c \in Conversion, AcceptConversion(c)
  PROVE  Requested
<1>1. /\ c \in Id /\ HandlersStay /\ "accept" \in Answer /\ UNCHANGED <<expired, timeoutRow>>
      /\ answers' = [answers EXCEPT ![c] = @ \union {"accept"}]
      /\ state \in [Id -> State] /\ answers \in [Id -> SUBSET Answer] /\ "RECEIVED_FULFIL_DEPENDENT" \in State
  BY DeterminedBy DEF AcceptConversion, Answers, Answer, State, BatchInv, TypeOK, BatchTypeOK
<1>2. CASE FxAnswerable(c)
  <2> DEFINE m == Ask(c, "fxReserve", CreditAccount[c])
  <2>1. SetState(c, "RECEIVED_FULFIL_DEPENDENT") /\ Send(m)
    BY <1>2 DEF AcceptConversion, SaveFxFulfilResponse
  <2>2. m.action = "fxReserve"
    BY DEF Ask
  <2> HIDE DEF m
  <2>3. Sends(m)
    <3>1. Placed(m)'
      BY <2>2 DEF Placed, Aborts
    <3> QED
      BY <2>2, <3>1 DEF Sends
  <2>4. Turns(c)
    BY <1>1, <1>2, <2>1 DEF SetState, Turns, FxAnswerable, Accepted
  <2> QED
    BY <1>1, <2>1, <2>3, <2>4, RequestsOne
<1>3. CASE ~FxAnswerable(c)
  <2>1. state' = state /\ pending' = pending
    BY <1>3 DEF AcceptConversion
  <2> QED
    BY <1>1, <2>1, RequestsOne
<1> QED
  BY <1>2, <1>3

LEMMA ExpireTurns ==
  ASSUME BatchInv, CourseInv, NEW x \in Id, Expire(x)
  PROVE  Requested
<1>1. /\ HandlersStay /\ state' = state /\ pending' = pending /\ answers' = answers /\ timeoutRow' = timeoutRow
      /\ expired \subseteq expired'
  BY DEF Expire, HandlersStay, batchVars, database
<1>2. \A y \in Id : timeoutRow'[y] \subseteq Family(TransferOf(y))
  BY <1>1 DEF CourseInv
<1> QED
  BY <1>1, <1>2 DEF Requested, Turns

LEMMA NothingTurns ==
  ASSUME CourseInv, UNCHANGED vars
  PROVE  Requested
<1>1. /\ HandlersStay /\ UNCHANGED <<state, pending, answers, expired, timeoutRow>>
  BY DEF vars, HandlersStay, batchVars, database
<1>2. \A y \in Id : timeoutRow'[y] \subseteq Family(TransferOf(y))
  BY <1>1 DEF CourseInv
<1> QED
  BY <1>1, <1>2 DEF Requested, Turns

LEMMA UndisturbedBefore ==
  ASSUME BatchInv, BatchInv', NEW t \in Transfer, Undisturbed(t)', expired \subseteq expired',
         \A x \in Id : answers[x] \subseteq answers'[x]
  PROVE  Undisturbed(t)
<1>1. \A c \in ConversionsOf(t) : c \in Id
  BY DEF ConversionsOf, Id
<1>2. answers' \in [Id -> SUBSET Answer]
  BY DEF BatchInv, TypeOK
<1>3. \A c \in ConversionsOf(t) : answers[c] = Answer => answers'[c] = Answer
  BY <1>1, <1>2
<1> QED
  BY <1>3 DEF Undisturbed, Disturbed, WentBack

(* An FX provider that refuses what it had not accepted.                    *)
LEMMA RefuseConversionTurns ==
  ASSUME BatchInv, BatchInv', CourseInv, NEW c \in Conversion, RefuseConversion(c)
  PROVE  Requested
<1> DEFINE t == Determining[c]
<1>1. /\ c \in Id /\ HandlersStay /\ "refuse" \in Answer /\ UNCHANGED <<expired, timeoutRow>>
      /\ answers' = [answers EXCEPT ![c] = @ \union {"refuse"}] /\ ~Refused(c)
      /\ c \notin Transfer /\ t \in Transfer /\ t \in Id /\ c \in ConversionsOf(t) /\ DebitAccount[c] # NoAccount
      /\ TransferOf(c) = t
      /\ state \in [Id -> State] /\ answers \in [Id -> SUBSET Answer] /\ "RECEIVED_ERROR" \in State
  BY DeterminedBy DEF RefuseConversion, Answers, Answer, State, BatchInv, TypeOK, BatchTypeOK, SeenBefore,
                      Refused, TransferOf
<1>2. CASE FxAnswerable(c)
  <2>. PICK m : m = Settlement(c, "fxAbort", "refund", ProcessFxAbort(c))
    OBVIOUS
  <2> DEFINE cs == Held({c})
             ts == Held({t})
  <2>1. SetState(c, "RECEIVED_ERROR") /\ Send(m) /\ state[c] \in {"RESERVED", "RECEIVED_FULFIL_DEPENDENT"}
    BY <1>2 DEF RefuseConversion, SaveFxFulfilResponse, FxAnswerable
  <2>2. cs = {c} /\ Taken(c) >= 1 /\ Taken(c)' = Taken(c)
    <3>1. Taken(c) >= 1 /\ Taken(c) \in Nat
      BY <1>1, <2>1 DEF Fits, BatchInv, TypeOK, BatchTypeOK, Taken, MoveKind
    <3> QED
      BY <1>1, <3>1 DEF Held, Taken, HandlersStay
  <2>3. ts \subseteq {t} /\ (t \in ts => Taken(t) # 0)
    <3>1. Taken(t) \in Nat
      BY <1>1 DEF BatchInv, TypeOK, BatchTypeOK, Taken, MoveKind
    <3> QED
      BY <3>1 DEF Held, Taken
  <2>4. m = Settlement(c, "fxAbort", "refund", [plan |-> PositionChanges(cs, ts), unmoved |-> {}])
    BY DEF ProcessFxAbort
  <2>5. m.account = AccountFor("refund", m.plan[1])
    BY <2>4 DEF Settlement
  <2> HIDE DEF cs, ts, t
  <2>6. /\ m.id = c /\ m.action = "fxAbort" /\ m.done = 0 /\ m.unmoved = {} /\ m \in Message
        /\ m.plan = PositionChanges(cs, ts) /\ Concerns(m) \subseteq {c} \union cs \union ts
    <3>1. "fxAbort" \in Aborts \union {"commit"} /\ "fxAbort" \notin OfTransfer /\ {} \in SUBSET Transfer
      BY DEF Aborts, OfTransfer
    <3>2. /\ c \in Id /\ c \in IF "fxAbort" \in OfTransfer THEN Transfer ELSE Conversion
          /\ "refund" = IF "fxAbort" = "commit" THEN "credit" ELSE "refund"
          /\ cs \in SUBSET Id /\ ts \in SUBSET Id /\ cs \union ts # {}
      BY <1>1, <2>2, <2>3, <3>1
    <3>3. /\ Sound(m) /\ m.id = c /\ m.action = "fxAbort" /\ m.plan = PositionChanges(cs, ts) /\ m.done = 0
          /\ m.unmoved = {} /\ Concerns(m) \subseteq {c} \union cs \union ts \union {}
      BY <2>4, <3>1, <3>2, SettlementIs
    <3> QED
      BY <3>3 DEF Sound
  <2>7. ASSUME Calm(c)' PROVE Refused(c)' /\ m = Refusing(c)
    <3>1. Refused(c)'
      BY <1>1 DEF Refused
    <3>2. ~WentBack(c)' /\ Undisturbed(t)
      <4>1. Undisturbed(t)'
        BY <1>1, <2>7 DEF Calm
      <4>2. \A x \in Id : answers[x] \subseteq answers'[x]
        BY <1>1
      <4> QED
        BY <1>1, <4>1, <4>2, UndisturbedBefore DEF Undisturbed, Disturbed
    <3>3. ~Accepted(c)
      <4>1. SUFFICES ASSUME Accepted(c) PROVE FALSE
        OBVIOUS
      <4>2. answers'[c] = Answer
        BY <1>1, <4>1 DEF Accepted, Answer
      <4> QED
        BY <3>2, <4>2 DEF WentBack
    <3>4. ts = {}
      <4>1. Course(t)
        BY <1>1, <3>2 DEF CourseInv
      <4> QED
        BY <1>1, <2>3, <3>3, <4>1 DEF Course
    <3>5. m.plan = <<c>>
      <4>1. {c} \in SUBSET Id /\ {} \in SUBSET Id
        BY <1>1
      <4>2. PositionChanges({c}, {}) = <<c>>
        BY <4>1, PositionChangesAre
      <4> QED
        BY <2>2, <2>6, <3>4, <4>2
    <3>6. m.account = DebitAccount[c]
      BY <2>5, <3>5 DEF AccountFor
    <3> QED
      BY <2>6, <3>1, <3>5, <3>6 DEF Refusing, Message
  <2>8. Concerns(m) \subseteq Family(TransferOf(c))
    BY <1>1, <2>2, <2>3, <2>6 DEF Family
  <2>9. Calm(c)' => DebitAccount[NextMove(m)] # NoAccount /\ Taken(NextMove(m))' >= 1
    BY <1>1, <2>2, <2>7, RefusingIs
  <2>10. Placed(m)'
    BY <1>1, <2>6, <2>7, <2>8, <2>9 DEF Placed
  <2>11. Sends(m)
    BY <1>1, <2>6, <2>10 DEF Sends
  <2>12. Turns(c)
    BY <1>1, <2>1 DEF SetState, Turns
  <2> QED
    BY <1>1, <2>1, <2>11, <2>12, RequestsOne
<1>3. CASE ~FxAnswerable(c)
  <2>1. state' = state /\ pending' = pending
    BY <1>3 DEF RefuseConversion
  <2> QED
    BY <1>1, <2>1, RequestsOne
<1> QED
  BY <1>2, <1>3

LEMMA AcceptTransferTurns ==
  ASSUME BatchInv, CourseInv, NEW t \in Transfer, AcceptTransfer(t)
  PROVE  Requested
<1>1. /\ t \in Id /\ HandlersStay /\ "accept" \in Answer /\ UNCHANGED <<expired, timeoutRow>>
      /\ answers' = [answers EXCEPT ![t] = @ \union {"accept"}] /\ TransferOf(t) = t
      /\ state \in [Id -> State] /\ "RECEIVED_FULFIL" \in State
  BY DEF AcceptTransfer, Answers, Answer, Id, State, BatchInv, TypeOK, BatchTypeOK, TransferOf
<1>2. CASE Answerable(t)
  <2>. PICK m : m = Settlement(t, "commit", "credit", ProcessFulfil(t))
    OBVIOUS
  <2>. PICK p : p = ProcessFulfil(t).plan
    OBVIOUS
  <2>1. SetState(t, "RECEIVED_FULFIL") /\ Send(m) /\ state[t] = "RESERVED" /\ t \notin expired
    BY <1>2 DEF AcceptTransfer, Answerable
  <2>2. m.id = t /\ m.action = "commit" /\ m.plan = p /\ m.unmoved = ProcessFulfil(t).unmoved
    BY DEF Settlement
  <2>3. m.unmoved \subseteq {t}
    BY <2>2 DEF ProcessFulfil
  <2>4. Range(p) \subseteq {t} \union ConversionsOf(t)
    <3>1. CASE ConversionsOf(t) = {}
      <4>1. p = <<t>>
        BY <3>1, PlanOfTransfer
      <4> QED
        BY <1>1, <4>1, ShortPlans
    <3>2. ASSUME NEW c \in ConversionsOf(t) PROVE Range(p) \subseteq {t} \union ConversionsOf(t)
      <4>1. p = <<c, t>> \/ p = <<c>>
        BY <3>2, PlanOfTransfer
      <4>2. c \in Id
        BY TheConversion DEF Id
      <4>3. Range(<<c, t>>) = {c, t} /\ Range(<<c>>) = {c}
        BY <1>1, <4>2, ShortPlans
      <4> QED
        BY <3>2, <4>1, <4>3
    <3> QED
      BY <3>1, <3>2
  <2>5. Concerns(m) \subseteq Family(t)
    BY <2>2, <2>3, <2>4 DEF Concerns, Family
  <2>6. state'[t] = "RECEIVED_FULFIL"
    BY <1>1, <2>1 DEF SetState
  <2>7. Placed(m)'
    BY <1>1, <2>2, <2>5, <2>6 DEF Placed, Fulfils, Aborts
  <2>8. Sends(m) /\ Turns(t)
    BY <2>1, <2>2, <2>6, <2>7 DEF Sends, Turns
  <2> QED
    BY <1>1, <2>1, <2>8, RequestsOne
<1>3. CASE ~Answerable(t)
  <2>1. state' = state /\ pending' = pending
    BY <1>3 DEF AcceptTransfer
  <2> QED
    BY <1>1, <2>1, RequestsOne
<1> QED
  BY <1>2, <1>3

(* What a transfer and its conversion hold is all given back.               *)
LEMMA AbortIsAborting ==
  ASSUME BatchInv, DebitInv, NEW t \in Transfer, state[t] = "RESERVED", NEW m,
         m = Settlement(t, "abort", "refund", ProcessAbort(t))
  PROVE  /\ m.id = t /\ m.action = "abort" /\ Concerns(m) \subseteq Family(t)
         /\ NextMove(m) \in Id /\ m = Aborting(NextMove(m))
         /\ DebitAccount[NextMove(m)] # NoAccount /\ Taken(NextMove(m)) >= 1
<1> DEFINE cs == Held(ConversionsOf(t))
           ts == Held({t})
           rest == IF ts = {} /\ ConversionsOf(t) # {} THEN {t} ELSE {}
           own == IF DebitAccount[t] = NoAccount THEN {} ELSE {t}
<1>1. t \in Id /\ Fits(t, "RESERVED") /\ \A x \in Id : Taken(x) \in Nat
  BY DEF BatchInv, TypeOK, BatchTypeOK, Taken, MoveKind, Id
<1>2. ts = own
  <2>1. DebitAccount[t] = NoAccount => Taken(t) = 0
    BY <1>1 DEF DebitInv, Taken
  <2> QED
    BY <1>1, <2>1 DEF Held, Taken, Fits
<1>3. cs = ConversionsOf(t) /\ \A c \in ConversionsOf(t) : c \in Id /\ Taken(c) >= 1
  <2>1. \A c \in ConversionsOf(t) : c \in Id /\ Taken(c) >= 1
    BY <1>1 DEF Fits, Backed, ConversionsOf, Id
  <2> QED
    BY <1>1, <2>1 DEF Held, Taken
<1>4. ConversionsOf(t) = {} => DebitAccount[t] # NoAccount
  BY DeterminingAssumption DEF ConversionsOf
<1>5. rest = IF DebitAccount[t] = NoAccount THEN {t} ELSE {}
  BY <1>2, <1>4
<1>6. m = Settlement(t, "abort", "refund", [plan |-> PositionChanges(cs, ts), unmoved |-> rest])
  BY DEF ProcessAbort
<1>7. m.account = AccountFor("refund", m.plan[1])
  BY <1>6 DEF Settlement
<1> HIDE DEF cs, ts, rest
<1>8. /\ m.id = t /\ m.action = "abort" /\ m.done = 0 /\ m.unmoved = rest /\ m \in Message
      /\ m.plan = PositionChanges(cs, ts) /\ Concerns(m) \subseteq {t} \union cs \union ts \union rest
  <2>1. "abort" \in Aborts \union {"commit"} /\ "abort" \in OfTransfer
    BY DEF Aborts, OfTransfer
  <2>2. /\ t \in IF "abort" \in OfTransfer THEN Transfer ELSE Conversion
        /\ "refund" = IF "abort" = "commit" THEN "credit" ELSE "refund"
        /\ cs \in SUBSET Id /\ ts \in SUBSET Id /\ cs \union ts # {} /\ rest \in SUBSET Transfer
    BY <1>1, <1>2, <1>3, <1>4, <1>5, <2>1
  <2>3. /\ Sound(m) /\ m.id = t /\ m.action = "abort" /\ m.plan = PositionChanges(cs, ts) /\ m.done = 0
        /\ m.unmoved = rest /\ Concerns(m) \subseteq {t} \union cs \union ts \union rest
    BY <1>1, <1>6, <2>1, <2>2, SettlementIs
  <2> QED
    BY <2>3 DEF Sound
<1>9. m.plan = AbortPlan(t)
  BY <1>2, <1>3, <1>8 DEF AbortPlan
<1> DEFINE y == NextMove(m)
<1>10. y = m.plan[1]
  BY <1>8 DEF NextMove
<1>11. /\ y \in Id /\ DebitAccount[y] # NoAccount /\ Taken(y) >= 1 /\ TransferOf(y) = t /\ ~IsSecond(y)
  <2>1. CASE ConversionsOf(t) = {}
    <3>1. y = t /\ DebitAccount[t] # NoAccount
      BY <1>9, <1>10, <2>1, AbortPlanOf
    <3>2. Taken(t) >= 1
      BY <1>1, <3>1 DEF Fits
    <3> QED
      BY <1>1, <2>1, <3>1, <3>2 DEF IsSecond, TransferOf
  <2>2. ASSUME NEW c \in ConversionsOf(t)
        PROVE  y \in Id /\ DebitAccount[y] # NoAccount /\ Taken(y) >= 1 /\ TransferOf(y) = t /\ ~IsSecond(y)
    <3>1. m.plan = <<c, t>> \/ m.plan = <<c>>
      BY <1>9, <2>2, AbortPlanOf
    <3>2. y = c
      BY <1>10, <3>1
    <3>3. c \in Conversion /\ c \notin Transfer /\ Determining[c] = t /\ DebitAccount[c] # NoAccount
      BY TheConversion, DeterminedBy DEF ConversionsOf
    <3> QED
      BY <1>3, <3>2, <3>3 DEF IsSecond, TransferOf
  <2> QED
    BY <2>1, <2>2
<1> HIDE DEF y, own
<1>12. m = Aborting(y)
  <2>1. m.account = DebitAccount[y]
    BY <1>7, <1>10 DEF AccountFor
  <2>2. Aborting(y) = [id |-> t, action |-> "abort", account |-> DebitAccount[y], plan |-> AbortPlan(t), done |-> 0,
                       unmoved |-> IF DebitAccount[t] = NoAccount THEN {t} ELSE {}]
    BY <1>11 DEF Aborting
  <2> QED
    BY <1>5, <1>8, <1>9, <2>1, <2>2 DEF Message
<1>13. Concerns(m) \subseteq Family(t)
  BY <1>2, <1>3, <1>5, <1>8 DEF Family, own
<1> QED
  BY <1>8, <1>11, <1>12, <1>13 DEF y

LEMMA RefuseTransferTurns ==
  ASSUME BatchInv, DebitInv, CourseInv, NEW t \in Transfer, RefuseTransfer(t)
  PROVE  Requested
<1>1. /\ t \in Id /\ HandlersStay /\ "refuse" \in Answer /\ UNCHANGED <<expired, timeoutRow>>
      /\ answers' = [answers EXCEPT ![t] = @ \union {"refuse"}] /\ TransferOf(t) = t
      /\ state \in [Id -> State] /\ "RECEIVED_ERROR" \in State
  BY DEF RefuseTransfer, Answers, Answer, Id, State, BatchInv, TypeOK, BatchTypeOK, TransferOf
<1>2. CASE Answerable(t)
  <2>. PICK m : m = Settlement(t, "abort", "refund", ProcessAbort(t))
    OBVIOUS
  <2>1. SetState(t, "RECEIVED_ERROR") /\ Send(m) /\ state[t] = "RESERVED" /\ t \notin expired
    BY <1>2 DEF RefuseTransfer, Answerable
  <2>2. /\ m.id = t /\ m.action = "abort" /\ Concerns(m) \subseteq Family(t)
        /\ NextMove(m) \in Id /\ m = Aborting(NextMove(m))
        /\ DebitAccount[NextMove(m)] # NoAccount /\ Taken(NextMove(m)) >= 1
    BY <2>1, AbortIsAborting
  <2>3. Taken(NextMove(m))' = Taken(NextMove(m))
    BY <1>1 DEF Taken, HandlersStay
  <2>4. state'[t] = "RECEIVED_ERROR"
    BY <1>1, <2>1 DEF SetState
  <2>5. Placed(m)'
    BY <1>1, <2>2, <2>3, <2>4 DEF Placed, Fails
  <2>6. Sends(m) /\ Turns(t)
    BY <2>1, <2>2, <2>4, <2>5 DEF Sends, Turns, Fails
  <2> QED
    BY <1>1, <2>1, <2>6, RequestsOne
<1>3. CASE ~Answerable(t)
  <2>1. state' = state /\ pending' = pending
    BY <1>3 DEF RefuseTransfer
  <2> QED
    BY <1>1, <2>1, RequestsOne
<1> QED
  BY <1>2, <1>3

(* A run of the timeout job.  What it may do to one state; and what a row   *)
(* that holds a transfer's expirationDate says of the transfer.             *)
MayTime(s, u) ==
  \/ u = s
  \/ s = "RECEIVED_PREPARE" /\ u = "EXPIRED_PREPARED"
  \/ s \in {"RESERVED", "RECEIVED_FULFIL_DEPENDENT"} /\ u = "RESERVED_TIMEOUT"

LEMMA TimesOut ==
  ASSUME NEW rows, NEW s, NEW x \in Id
  PROVE  MayTime(s[x], TimedOut(rows, s)[x])
<1> DEFINE due == Due(rows, x)
<1>1. TimedOut(rows, s)[x] =
        CASE due /\ s[x] = "RECEIVED_PREPARE" -> "EXPIRED_PREPARED"
          [] due /\ s[x] \in {"RESERVED", "RECEIVED_FULFIL_DEPENDENT"} -> "RESERVED_TIMEOUT"
          [] OTHER -> s[x]
  BY DEF TimedOut
<1> HIDE DEF due
<1> QED
  BY <1>1 DEF MayTime

(* The rows of a payment hold only its own expirationDates.                 *)
LEMMA RowsOfFamily ==
  ASSUME CourseInv, NEW s
  PROVE  LET q == ToConversions(Watched, s)
             rows == ToTransfers(q, s)
         IN /\ \A x \in Id : Watched[x] \subseteq Family(TransferOf(x))
            /\ \A x \in Id : rows[x] \subseteq Family(TransferOf(x))
            /\ \A c \in Conversion : rows[c] = IF Expired(Watched, s, Determining[c])
                                               THEN Watched[Determining[c]] ELSE Watched[c]
            /\ \A c \in Conversion : Watched[c] \in {timeoutRow[c], {c}, {}}
<1> DEFINE r == Watched
           q == ToConversions(r, s)
           rows == ToTransfers(q, s)
<1>1. \A x \in Id : r[x] \in {timeoutRow[x], {x}, {}}
  BY DEF Watched
<1>2. \A x \in Id : r[x] \subseteq Family(TransferOf(x))
  BY <1>1, FamilyOf DEF CourseInv
<1>3. \A c \in Conversion : c \in Id /\ c \notin Transfer /\ Determining[c] \in Transfer /\ Determining[c] \in Id
                            /\ TransferOf(c) = Determining[c] /\ TransferOf(Determining[c]) = Determining[c]
  BY DeterminedBy DEF TransferOf
<1> HIDE DEF r
<1>4. \A x \in Id : q[x] = IF x \in Conversion /\ Expired(r, s, Determining[x]) THEN r[Determining[x]] ELSE r[x]
  BY DEF ToConversions
<1>5. \A x \in Id : q[x] \subseteq Family(TransferOf(x))
  <2> TAKE x \in Id
  <2>1. x \in Conversion => r[Determining[x]] \subseteq Family(TransferOf(x))
    BY <1>2, <1>3
  <2> QED
    BY <1>2, <1>4, <2>1
<1> HIDE DEF q
<1>6. ASSUME NEW x \in Id PROVE rows[x] \subseteq Family(TransferOf(x))
  <2>1. rows[x] = LET cs == {c \in ConversionsOf(x) : Expired(q, s, c)}
                  IN IF x \in Transfer /\ s[x] \in Expiring /\ cs # {} THEN UNION {q[c] : c \in cs} ELSE q[x]
    BY DEF ToTransfers
  <2> DEFINE cs == {c \in ConversionsOf(x) : Expired(q, s, c)}
  <2>2. x \in Transfer => \A c \in cs : c \in Id /\ TransferOf(c) = TransferOf(x)
    BY FamilyOf DEF Family
  <2>3. cs \subseteq ConversionsOf(x)
    OBVIOUS
  <2> HIDE DEF cs
  <2>4. x \in Transfer => UNION {q[c] : c \in cs} \subseteq Family(TransferOf(x))
    BY <1>5, <2>2
  <2> QED
    BY <1>5, <2>1, <2>4 DEF cs
<1>7. ASSUME NEW c \in Conversion PROVE rows[c] = q[c]
  <2>1. c \in Id /\ c \notin Transfer
    BY <1>3
  <2>2. rows[c] = LET cs == {d \in ConversionsOf(c) : Expired(q, s, d)}
                  IN IF c \in Transfer /\ s[c] \in Expiring /\ cs # {} THEN UNION {q[d] : d \in cs} ELSE q[c]
    BY <2>1 DEF ToTransfers
  <2> QED
    BY <2>1, <2>2
<1> HIDE DEF rows
<1> QED
  BY <1>1, <1>2, <1>3, <1>4, <1>6, <1>7 DEF r, q, rows

LEMMA SweepTurns ==
  ASSUME BatchInv, CourseInv, Sweep
  PROVE  Requested
<1> DEFINE r      == Watched
           first  == TimedOut(r, state)
           rows   == ToTransfers(ToConversions(r, first), first)
           second == TimedOut(rows, first)
           listed == Listed(rows, second)
<1>1. /\ state' = second /\ timeoutRow' = rows /\ HandlersStay /\ answers' = answers /\ expired' = expired
      /\ pending' = pending \union {AskTimeout(t) : t \in listed \intersect Transfer}
                            \union {AskFxTimeout(c) : c \in listed \intersect Conversion}
  BY DEF Sweep
<1>2. \A x \in Id : MayTime(state[x], first[x])
  BY TimesOut
<1>3. /\ \A x \in Id : r[x] \subseteq Family(TransferOf(x)) /\ rows[x] \subseteq Family(TransferOf(x))
      /\ \A c \in Conversion : rows[c] = IF Expired(r, first, Determining[c]) THEN r[Determining[c]] ELSE r[c]
      /\ \A c \in Conversion : r[c] \in {timeoutRow[c], {c}, {}}
  BY RowsOfFamily
<1> HIDE DEF r, first
<1>4. \A x \in Id : MayTime(first[x], second[x])
  <2> HIDE DEF rows
  <2> QED
    BY TimesOut
<1>5. \A x \in listed : /\ x \in Id /\ rows[x] \intersect expired # {} /\ second[x] = "RESERVED_TIMEOUT"
                        /\ moved[x]["debit"] > 0
  BY DEF Listed, Due
<1>6. \A x \in Id : Expired(r, first, x) => r[x] \intersect expired # {} /\ first[x] \in {"RESERVED_TIMEOUT", "EXPIRED_PREPARED"}
  BY DEF Expired, Due
<1> HIDE DEF rows, second, listed
<1>7. \A x \in Id : Turns(x)
  BY <1>1, <1>2, <1>4 DEF MayTime, Turns
<1>8. \A x \in Id : timeoutRow'[x] \subseteq Family(TransferOf(x))
  BY <1>1, <1>3
<1>9. ASSUME NEW t \in Transfer, Undisturbed(t)', NEW c \in ConversionsOf(t)
      PROVE  /\ t \in timeoutRow'[c] => t \in timeoutRow[c] \/ Late(t)'
             /\ c \in listed => Late(t)'
  <2>1. /\ c \in Conversion /\ Determining[c] = t /\ c \in Id /\ t \in Id /\ c # t /\ Family(t) = {t, c}
        /\ TransferOf(c) = t /\ TransferOf(t) = t
    BY TheConversion, DeterminedBy DEF Family, TransferOf
  <2>2. c \notin expired /\ Undisturbed(t)
    BY <1>1, <1>9 DEF Undisturbed, Disturbed, WentBack
  <2>3. t \in rows[c] => t \in timeoutRow[c] \/ Late(t)'
    <3>1. CASE Expired(r, first, t)
      <4>1. t \in expired
        BY <1>3, <1>6, <2>1, <2>2, <3>1
      <4>2. first[t] \in {"RESERVED_TIMEOUT", "EXPIRED_PREPARED"}
        BY <1>6, <2>1, <3>1
      <4>3. second[t] = first[t]
        BY <1>4, <2>1, <4>2 DEF MayTime
      <4> QED
        BY <1>1, <4>1, <4>2, <4>3 DEF Late
    <3>2. CASE ~Expired(r, first, t)
      BY <1>3, <2>1, <3>2
    <3> QED
      BY <3>1, <3>2
  <2>4. t \in timeoutRow[c] => Late(t)'
    <3> SUFFICES ASSUME t \in timeoutRow[c] PROVE Late(t)'
      OBVIOUS
    <3>1. Late(t)
      BY <1>9, <2>2 DEF CourseInv, Course
    <3> QED
      BY <1>1, <1>7, <2>1, <3>1, DeterminedBy DEF Late, Turns
  <2>5. c \in listed => t \in rows[c]
    BY <1>3, <1>5, <2>1, <2>2
  <2> QED
    BY <1>1, <2>3, <2>4, <2>5
<1>10. ASSUME NEW x \in listed PROVE Taken(x)' >= 1 /\ x \in Id
  <2>1. moved[x]["debit"] \in Nat /\ x \in Id
    BY <1>5 DEF BatchInv, TypeOK, BatchTypeOK, MoveKind
  <2> QED
    BY <1>1, <1>5, <2>1 DEF Taken, HandlersStay
<1>11. ASSUME NEW t \in listed \intersect Transfer PROVE Sends(AskTimeout(t))
  <2>1. /\ AskTimeout(t).action = "timeout" /\ AskTimeout(t).id = t /\ AskTimeout(t) = TimingOut(t)
    BY DEF AskTimeout, Ask, TimingOut
  <2>2. Timed(t)'
    BY <1>1, <1>5 DEF Timed
  <2>3. Placed(AskTimeout(t))'
    BY <1>10, <2>1, <2>2 DEF Placed, Aborts
  <2> QED
    BY <2>1, <2>3 DEF Sends
<1>12. ASSUME NEW c \in listed \intersect Conversion PROVE Sends(AskFxTimeout(c))
  <2>0. c \notin Transfer /\ TransferOf(c) \in Transfer /\ c \in ConversionsOf(TransferOf(c))
    BY DeterminedBy DEF TransferOf
  <2>1. /\ AskFxTimeout(c).action = "fxTimeout" /\ AskFxTimeout(c).id = c /\ AskFxTimeout(c) = TimingOut(c)
    BY <2>0 DEF AskFxTimeout, Ask, TimingOut
  <2>2. Calm(c)' => Late(TransferOf(c))'
    BY <1>9, <2>0 DEF Calm
  <2>3. Placed(AskFxTimeout(c))'
    BY <1>10, <2>1, <2>2 DEF Placed, Aborts
  <2> QED
    BY <2>1, <2>3 DEF Sends
<1>13. \A m \in pending' : m \in pending \/ Sends(m)
  BY <1>1, <1>11, <1>12
<1> QED
  BY <1>1, <1>7, <1>8, <1>9, <1>13 DEF Requested

(***************************************************************************)
(* What stays, whatever step is taken, of a payment that is undisturbed.    *)
(***************************************************************************)
Onward(t) ==
  /\ Undisturbed(t)
  /\ Timed(t) => Timed(t)'
  /\ Fulfils(t) => Fulfils(t)'
  /\ Fails(t) => Fails(t)'
  /\ Late(t) => Late(t)'
  /\ Out(t)' => Out(t)
  /\ Out(t) => Out(t)' \/ Prepared(t)
  /\ (Fulfils(t) \/ Fails(t))' => Fulfils(t) \/ Fails(t) \/ state[t] = "RESERVED"
  /\ \A c \in ConversionsOf(t) : (Accepted(c) => Accepted(c)') /\ (Refused(c) => Refused(c)')
  /\ \A x \in Family(t) : Taken(x) \in Nat /\ Taken(x)' \in Nat /\ Taken(x)' >= Taken(x)

LEMMA OnwardByRequest ==
  ASSUME BatchInv, BatchInv', Requested, NEW t \in Transfer, Undisturbed(t)'
  PROVE  Onward(t)
<1>1. /\ t \in Id /\ t \notin Conversion /\ expired \subseteq expired' /\ moved' = moved
      /\ \A x \in Id : answers[x] \subseteq answers'[x]
  BY DeterminedBy, FamilyOf DEF Requested, HandlersStay
<1>2. Undisturbed(t)
  BY <1>1, UndisturbedBefore
<1>3. Turns(t)
  BY <1>1 DEF Requested
<1>4. \A c \in ConversionsOf(t) : (Accepted(c) => Accepted(c)') /\ (Refused(c) => Refused(c)')
  BY <1>1, FamilyOf DEF Family, Accepted, Refused
<1>5. \A x \in Family(t) : Taken(x) \in Nat /\ Taken(x)' = Taken(x)
  BY <1>1, FamilyOf DEF Taken, BatchInv, TypeOK, BatchTypeOK, MoveKind
<1>6. \A x \in Family(t) : Taken(x) \in Nat /\ Taken(x)' \in Nat /\ Taken(x)' >= Taken(x)
  BY <1>5
<1>7. /\ Timed(t) => Timed(t)'
      /\ Fulfils(t) => Fulfils(t)'
      /\ Fails(t) => Fails(t)'
      /\ Out(t)' => Out(t)
      /\ (Fulfils(t) \/ Fails(t))' => Fulfils(t) \/ Fails(t) \/ state[t] = "RESERVED"
  BY <1>1, <1>3 DEF Turns, Timed, Fulfils, Fails, Out
<1>8. Out(t) => Out(t)' \/ Prepared(t)
  BY <1>1, <1>3 DEF Turns, Out
<1>9. Late(t) => Late(t)'
  BY <1>1, <1>3 DEF Turns, Late
<1> QED
  BY <1>2, <1>4, <1>6, <1>7, <1>8, <1>9 DEF Onward

(* What an open transaction has written, if it closes.                      *)
LEMMA WritesOnward ==
  ASSUME BatchInv, TokenInv, CourseInv, WrittenInv, NEW c \in Consumer, CommittingTrx(c),
         NEW t \in Transfer, Undisturbed(t)
  PROVE  \/ work[c].rows[t] = "none"
         \/ Awaiting(t) /\ Asking(t) \in work[c].batch /\ work[c].rows[t] \in {"RESERVED", "ABORTED_REJECTED"}
         \/ Timed(t) /\ work[c].rows[t] = "EXPIRED_RESERVED"
         \/ Fulfils(t) /\ work[c].rows[t] = "COMMITTED"
         \/ Fails(t) /\ work[c].rows[t] = "ABORTED_ERROR"
<1>1. t \in Id /\ TransferOf(t) = t /\ t \notin Conversion /\ Course(t) /\ Calm(t)
  BY FamilyOf, DeterminedBy DEF CourseInv, Calm
<1>2. Open(c)
  BY DEF CommittingTrx, Open
<1>3. Written(c, t)
  BY <1>1, <1>2 DEF WrittenInv
<1>4. Asking(t) \in work[c].batch => Coming(Asking(t))
  <2>1. \A m \in work[c].batch : HandlerOf(m) = c
    BY Messages
  <2> QED
    BY <1>2, <2>1 DEF Coming
<1> QED
  BY <1>1, <1>3, <1>4 DEF Written, Course, Over

LEMMA OnwardByBatch ==
  ASSUME BatchInv, BatchInv', TokenInv, CourseInv, WrittenInv, NEW c \in Consumer, Acts(c), RequestsStay,
         NEW t \in Transfer, Undisturbed(t)'
  PROVE  Onward(t)
<1>1. t \in Id /\ t \notin Conversion /\ expired' = expired /\ answers' = answers
  BY DeterminedBy, FamilyOf DEF RequestsStay
<1>2. Undisturbed(t)
  BY <1>1, UndisturbedBefore
<1>3. \A x \in Family(t) : Taken(x) \in Nat /\ Taken(x)' \in Nat /\ Taken(x)' >= Taken(x)
  <2>1. \A x \in Family(t) : x \in Id
    BY FamilyOf
  <2>2. BatchActs(c) /\ "debit" \in MoveKind
    BY ActsAct DEF MoveKind
  <2>3. \A x \in Id : \A k \in MoveKind : moved'[x][k] >= moved[x][k]
    BY <2>2, RowsGrow
  <2>4. \A x \in Id : moved[x]["debit"] \in Nat /\ moved'[x]["debit"] \in Nat
    BY <2>2 DEF BatchInv, TypeOK, BatchTypeOK
  <2> QED
    BY <2>1, <2>2, <2>3, <2>4 DEF Taken
<1>4. \A d \in ConversionsOf(t) : (Accepted(d) => Accepted(d)') /\ (Refused(d) => Refused(d)')
  BY <1>1 DEF Accepted, Refused
<1> DEFINE Ahead == /\ Timed(t) => Timed(t)'
                    /\ Fulfils(t) => Fulfils(t)'
                    /\ Fails(t) => Fails(t)'
                    /\ Late(t) => Late(t)'
                    /\ Out(t)' => Out(t)
                    /\ Out(t) => Out(t)' \/ Prepared(t)
                    /\ (Fulfils(t) \/ Fails(t))' => Fulfils(t) \/ Fails(t) \/ state[t] = "RESERVED"
<1>5. ASSUME CommittingTrx(c) /\ state' = InsertedStates(work[c]) PROVE Ahead
  <2>1. state'[t] = IF work[c].rows[t] = "none" THEN state[t] ELSE work[c].rows[t]
    BY <1>1, <1>5 DEF InsertedStates
  <2>2. CASE work[c].rows[t] = "none"
    BY <1>1, <2>1, <2>2 DEF Timed, Fulfils, Fails, Late, Out
  <2>3. CASE Awaiting(t) /\ work[c].rows[t] \in {"RESERVED", "ABORTED_REJECTED"}
    <3>1. state'[t] \in {"RESERVED", "ABORTED_REJECTED"}
      BY <2>1, <2>3
    <3> QED
      BY <1>1, <2>3, <3>1 DEF Timed, Fulfils, Fails, Late, Out, Awaiting
  <2>4. CASE \/ Timed(t) /\ work[c].rows[t] = "EXPIRED_RESERVED"
             \/ Fulfils(t) /\ work[c].rows[t] = "COMMITTED"
             \/ Fails(t) /\ work[c].rows[t] = "ABORTED_ERROR"
    <3>1. \/ Timed(t) /\ state'[t] = "EXPIRED_RESERVED"
          \/ Fulfils(t) /\ state'[t] = "COMMITTED"
          \/ Fails(t) /\ state'[t] = "ABORTED_ERROR"
      BY <2>1, <2>4
    <3> QED
      BY <1>1, <3>1 DEF Timed, Fulfils, Fails, Late, Out
  <2> HIDE DEF Ahead
  <2> QED
    BY <1>2, <1>5, <2>2, <2>3, <2>4, WritesOnward
<1>6. ASSUME state' = state PROVE Ahead
  BY <1>1, <1>6 DEF Timed, Fulfils, Fails, Late, Out
<1> HIDE DEF Ahead
<1>7. Ahead
  BY <1>5, <1>6 DEF Acts
<1> QED
  BY <1>2, <1>3, <1>4, <1>7 DEF Onward, Ahead

(* The two sides exclude each other.                                        *)
LEMMA Apart ==
  ASSUME BatchInv, CourseInv, NEW t \in Transfer, Undisturbed(t)
  PROVE  /\ ~(Fulfils(t) /\ Fails(t)) /\ ~((Timed(t) \/ Late(t)) /\ (Fulfils(t) \/ Fails(t)))
         /\ \A c \in ConversionsOf(t) : Refused(c) => Out(t) /\ ~Accepted(c)
         /\ \A x \in Family(t) : ~(GivenUp(x) /\ Fulfils(t))
<1>1. ~(Fulfils(t) /\ Fails(t)) /\ ~((Timed(t) \/ Late(t)) /\ (Fulfils(t) \/ Fails(t))) /\ ~(Out(t) /\ Fulfils(t))
  BY DEF Fulfils, Fails, Timed, Late, Out
<1>2. ASSUME NEW c \in ConversionsOf(t), Refused(c) PROVE Out(t) /\ ~Accepted(c)
  <2>1. ~Accepted(c)
    <3> SUFFICES ASSUME Accepted(c) PROVE FALSE
      OBVIOUS
    <3>1. answers[c] \subseteq Answer
      BY FamilyOf DEF Family, BatchInv, TypeOK
    <3>2. answers[c] = Answer
      BY <1>2, <3>1 DEF Accepted, Refused, Answer
    <3> QED
      BY <3>2 DEF Undisturbed, Disturbed, WentBack
  <2> QED
    BY <2>1 DEF CourseInv, Course
<1>3. ASSUME NEW x \in Family(t), GivenUp(x), Fulfils(t) PROVE FALSE
  <2>1. TransferOf(x) = t /\ (x \in Transfer => x = t) /\ (x \notin Transfer => x \in ConversionsOf(t))
    BY FamilyOf DEF Family, TransferOf
  <2> QED
    BY <1>1, <1>2, <1>3, <2>1 DEF GivenUp
<1> QED
  BY <1>1, <1>2, <1>3

(* A message that has its reason keeps it.                                  *)
LEMMA PlacedOn ==
  ASSUME NEW m, Sound(m), Placed(m), Calm(m.id)' => Onward(TransferOf(m.id))
  PROVE  Placed(m)'
<1>1. m \in Message /\ m.id \in Id /\ m.id \in Family(TransferOf(m.id)) /\ TransferOf(m.id) \in Transfer
  BY MessageType, FamilyOf DEF Sound
<1>2. m.action \in {"timeout", "commit", "abort"} => TransferOf(m.id) = m.id
  BY DEF Sound, OfTransfer, TransferOf
<1>3. m.action = "fxAbort" => m.id \in ConversionsOf(TransferOf(m.id))
  BY TransferOfType, DeterminedBy DEF Sound, OfTransfer
<1>4. m.action \in Aborts \union {"commit"} => NextMove(m) \in Family(TransferOf(m.id))
  BY NextMoveType DEF Placed
<1>5. ASSUME Calm(m.id)'
      PROVE  /\ Onward(TransferOf(m.id)) /\ Calm(m.id)
             /\ m.action \in Aborts => (Taken(NextMove(m)) >= 1 => Taken(NextMove(m))' >= 1)
             /\ Taken(m.id) >= 1 => Taken(m.id)' >= 1
  <2>1. Onward(TransferOf(m.id))
    BY <1>5
  <2>2. \A x \in Family(TransferOf(m.id)) : Taken(x) >= 1 => Taken(x)' >= 1
    BY <2>1 DEF Onward
  <2> QED
    BY <1>1, <1>4, <2>1, <2>2 DEF Onward, Calm
<1>6. ASSUME Calm(m.id)'
      PROVE  /\ m.action = "commit" => Fulfils(m.id)'
             /\ m.action = "abort" => Fails(m.id)' /\ m = Aborting(NextMove(m))
             /\ m.action = "fxAbort" => Refused(m.id)' /\ m = Refusing(m.id)
             /\ m.action \in Aborts => DebitAccount[NextMove(m)] # NoAccount /\ Taken(NextMove(m))' >= 1
             /\ m.action = "timeout" => Timed(m.id)'
             /\ m.action = "fxTimeout" => Late(TransferOf(m.id))'
             /\ m.action \in {"timeout", "fxTimeout"} => m = TimingOut(m.id) /\ Taken(m.id)' >= 1
  <2>1. /\ Onward(TransferOf(m.id)) /\ Calm(m.id)
        /\ m.action \in Aborts => (Taken(NextMove(m)) >= 1 => Taken(NextMove(m))' >= 1)
        /\ Taken(m.id) >= 1 => Taken(m.id)' >= 1
    BY <1>5, <1>6
  <2>2. /\ m.action = "commit" => Fulfils(m.id)
        /\ m.action = "abort" => Fails(m.id) /\ m = Aborting(NextMove(m))
        /\ m.action = "fxAbort" => Refused(m.id) /\ m = Refusing(m.id)
        /\ m.action \in Aborts => DebitAccount[NextMove(m)] # NoAccount /\ Taken(NextMove(m)) >= 1
        /\ m.action = "timeout" => Timed(m.id)
        /\ m.action = "fxTimeout" => Late(TransferOf(m.id))
        /\ m.action \in {"timeout", "fxTimeout"} => m = TimingOut(m.id) /\ Taken(m.id) >= 1
    BY <2>1 DEF Placed
  <2>3. m.action = "fxAbort" /\ Refused(m.id) => Refused(m.id)'
    BY <1>3, <2>1 DEF Onward
  <2> QED
    BY <1>2, <2>1, <2>2, <2>3 DEF Onward
<1> HIDE DEF Calm
<1>7. m.action \in Aborts \union {"commit"} => Concerns(m) \subseteq Family(TransferOf(m.id))
  BY DEF Placed
<1> QED
  BY <1>6, <1>7 DEF Placed

AllOnward == \A t \in Transfer : Undisturbed(t)' => Onward(t)

LEMMA OnwardAll ==
  ASSUME BatchInv, BatchInv', TokenInv, CourseInv, WrittenInv,
         Requested \/ \E c \in Consumer : Acts(c) /\ RequestsStay
  PROVE  AllOnward
<1> SUFFICES ASSUME NEW t \in Transfer, Undisturbed(t)' PROVE Onward(t)
  BY DEF AllOnward
<1>1. CASE Requested
  BY <1>1, OnwardByRequest
<1>2. ASSUME NEW c \in Consumer, Acts(c), RequestsStay PROVE Onward(t)
  BY <1>2, OnwardByBatch
<1> QED
  BY <1>1, <1>2

LEMMA PlacedStays ==
  ASSUME AllOnward, NEW m, Sound(m), Placed(m)
  PROVE  Placed(m)'
<1>1. TransferOf(m.id) \in Transfer
  BY MessageType, FamilyOf DEF Sound
<1>2. Calm(m.id)' => Onward(TransferOf(m.id))
  BY <1>1 DEF Calm, AllOnward
<1> QED
  BY <1>2, PlacedOn

LEMMA PlacedByRequest ==
  ASSUME BatchInv, PlacedInv, Requested, AllOnward
  PROVE  PlacedInv'
<1>1. unacked' = unacked /\ work' = work /\ \A m \in pending' : m \in pending \/ Placed(m)'
  BY DEF Requested, HandlersStay, Sends
<1>2. \A m \in pending' : Placed(m)'
  <2>1. \A m \in pending : Sound(m) /\ Placed(m)
    BY DEF BatchInv, PlacedInv
  <2> QED
    BY <1>1, <2>1, PlacedStays
<1>3. \A c \in Consumer : \A m \in unacked'[c] \union work'[c].batch \union work'[c].followUps : Placed(m)'
  <2> TAKE c \in Consumer
  <2>1. \A m \in unacked[c] \union work[c].batch \union work[c].followUps : Sound(m) /\ Placed(m)
    BY DEF BatchInv, WorkSound, PlacedInv
  <2> QED
    BY <1>1, <2>1, PlacedStays
<1> QED
  BY <1>2, <1>3 DEF PlacedInv

(* A settlement is followed for the reason it was placed for.               *)
LEMMA FollowingPlaced ==
  ASSUME BatchInv, CourseInv, NEW n, Sound(n), Placed(n), n.action \in Aborts \union {"commit"}, ~IsLast(n)
  PROVE  Placed(Following(n))
<1>1. n \in Message /\ n.id \in Id /\ NextMove(n) \in Id
  BY NextMoveType, MessageType
<1> DEFINE f == Following(n)
<1>2. f.id = n.id /\ f.action = n.action /\ f.plan = n.plan /\ f.unmoved = n.unmoved
  BY <1>1, FollowingIs
<1>3. Concerns(f) = Concerns(n)
  BY <1>2 DEF Concerns
<1>4. ASSUME Calm(n.id), n.action = "abort"
      PROVE  /\ Fails(n.id) /\ f = Aborting(NextMove(f))
             /\ DebitAccount[NextMove(f)] # NoAccount /\ Taken(NextMove(f)) >= 1
  <2>0. PICK y \in Id : y = NextMove(n)
    BY <1>1
  <2>1. Fails(n.id) /\ n = Aborting(y) /\ DebitAccount[y] # NoAccount
    BY <1>4, <2>0 DEF Placed, Aborts
  <2> DEFINE t == TransferOf(y)
  <2>2. DebitAccount[t] # NoAccount /\ f = Aborting(t) /\ t \in Transfer
    BY <1>1, <2>1, AbortingFollows
  <2>3. n.id = t
    BY <2>1, AbortingIs
  <2>4. t \in Id /\ TransferOf(t) = t
    BY <2>2, FamilyOf
  <2> HIDE DEF t, f
  <2>5. NextMove(Aborting(t)) = t
    BY <2>2, <2>4, AbortingIs
  <2>6. Taken(t) >= 1
    <3>1. Course(t)
      BY <1>4, <2>2, <2>3, <2>4 DEF Calm, CourseInv
    <3> QED
      BY <2>1, <2>2, <2>3, <3>1 DEF Course
  <2> QED
    BY <2>1, <2>2, <2>5, <2>6
<1>5. ~(Calm(n.id) /\ n.action = "fxAbort")
  <2> SUFFICES ASSUME Calm(n.id), n.action = "fxAbort" PROVE FALSE
    OBVIOUS
  <2>1. n.id \in Conversion /\ n = Refusing(n.id)
    BY DEF Sound, OfTransfer, Placed
  <2> QED
    BY <2>1, RefusingIs
<1> HIDE DEF f
<1>6. Placed(f)
  <2>1. Concerns(n) \subseteq Family(TransferOf(n.id)) /\ (Calm(n.id) /\ n.action = "commit" => Fulfils(n.id))
    BY DEF Placed
  <2> QED
    BY <1>2, <1>3, <1>4, <1>5, <2>1 DEF Placed, Aborts
<1> QED
  BY <1>6 DEF f

LEMMA PlacedByBatch ==
  ASSUME BatchInv, BatchInv', TokenInv, CourseInv, PlacedInv, AllOnward, NEW c \in Consumer, Acts(c)
  PROVE  PlacedInv'
<1>1. BatchActs(c) /\ FromHere(c)
  BY ActsAct, WhereFrom
<1>2. /\ \A m \in pending : Placed(m)'
      /\ \A d \in Consumer : \A m \in unacked[d] \union work[d].batch \union work[d].followUps : Placed(m)'
  <2>1. /\ \A m \in pending : Sound(m) /\ Placed(m)
        /\ \A d \in Consumer : \A m \in unacked[d] \union work[d].batch \union work[d].followUps : Sound(m) /\ Placed(m)
    BY DEF BatchInv, WorkSound, PlacedInv
  <2> QED
    BY <2>1, PlacedStays
<1>3. \A m \in pending' : Placed(m)'
  BY <1>1, <1>2 DEF FromHere
<1>4. \A m \in unacked'[c] \union work'[c].batch : Placed(m)'
  BY <1>1, <1>2 DEF FromHere
<1>5. \A f \in work'[c].followUps : Placed(f)'
  <2>1. CASE work'[c].followUps \subseteq work[c].followUps
    BY <1>2, <2>1
  <2>2. ASSUME NEW n, NEW v, Working(c, n, v), NEW f \in work'[c].followUps PROVE Placed(f)'
    <3>1. /\ Sound(n) /\ f \in v.followUps
          /\ \/ f \in work[c].followUps
             \/ f = Following(n) /\ ~IsLast(n) /\ n.action \in Aborts \union {"commit"}
      BY <2>2, NewFollowUps
    <3>2. CASE f = Following(n) /\ ~IsLast(n) /\ n.action \in Aborts \union {"commit"}
      <4>1. n \in work[c].batch
        BY <2>2 DEF Working
      <4>2. Placed(n)
        BY <4>1 DEF PlacedInv
      <4>3. Placed(f)
        BY <3>1, <3>2, <4>2, FollowingPlaced
      <4>4. Sound(f)
        BY <2>2 DEF BatchInv, WorkSound
      <4> QED
        BY <4>3, <4>4, PlacedStays
    <3> QED
      BY <1>2, <3>1, <3>2
  <2> QED
    BY <1>1, <2>1, <2>2 DEF FromHere
<1>6. \A d \in Consumer : d # c => work'[d] = work[d] /\ unacked'[d] = unacked[d]
  BY <1>1 DEF FromHere, Alone
<1>7. ASSUME NEW d \in Consumer PROVE \A m \in unacked'[d] \union work'[d].batch \union work'[d].followUps : Placed(m)'
  <2>1. CASE d = c
    BY <1>4, <1>5, <2>1
  <2>2. CASE d # c
    BY <1>2, <1>6, <2>2
  <2> QED
    BY <2>1, <2>2
<1> QED
  BY <1>3, <1>7 DEF PlacedInv

(* The course of a transfer, from what stays and what its message does.     *)
LEMMA CourseOn ==
  ASSUME BatchInv, CourseInv, NEW t \in Transfer, Onward(t),
         \A c \in ConversionsOf(t) : state[c] = "RECEIVED_FULFIL_DEPENDENT" => Accepted(c),
         Coming(Asking(t))' => Awaiting(t)',
         Taken(t)' = Taken(t) \/ Coming(Asking(t)),
         \A c \in ConversionsOf(t) : t \in timeoutRow'[c] => t \in timeoutRow[c] \/ Late(t)'
  PROVE  Course(t)'
<1>1. Course(t) /\ t \in Id /\ t \in Family(t)
  BY FamilyOf DEF Onward, CourseInv, Family
<1>2. ~Out(t)' => \A c \in ConversionsOf(t) : Accepted(c)'
  BY <1>1 DEF Onward, Course, Prepared
<1>3. Taken(t)' # 0 => ~Out(t)'
  <2>1. Awaiting(t) => ~Out(t)
    BY DEF Awaiting, Out
  <2> QED
    BY <1>1, <2>1 DEF Onward, Course
<1>4. (Fulfils(t) \/ Fails(t))' /\ DebitAccount[t] # NoAccount => Taken(t)' >= 1
  <2> SUFFICES ASSUME (Fulfils(t) \/ Fails(t))', DebitAccount[t] # NoAccount PROVE Taken(t)' >= 1
    OBVIOUS
  <2>1. state[t] = "RESERVED" => Taken(t) >= 1
    BY <1>1 DEF BatchInv, Fits
  <2>2. Taken(t) >= 1
    BY <1>1, <2>1 DEF Onward, Course
  <2>3. Taken(t) \in Nat /\ Taken(t)' \in Nat /\ Taken(t)' >= Taken(t)
    BY <1>1 DEF Onward
  <2> QED
    BY <2>2, <2>3
<1>5. \A c \in ConversionsOf(t) : t \in timeoutRow'[c] => Late(t)'
  BY <1>1 DEF Onward, Course
<1> QED
  BY <1>2, <1>3, <1>4, <1>5 DEF Course

LEMMA CourseByRequest ==
  ASSUME BatchInv, CourseInv, AllOnward, Requested
  PROVE  CourseInv'
<1>1. \A x \in Id : timeoutRow'[x] \subseteq Family(TransferOf(x))
  BY DEF Requested
<1>2. ASSUME NEW c \in Conversion, state'[c] = "RECEIVED_FULFIL_DEPENDENT" PROVE Accepted(c)'
  <2>1. c \in Id /\ c \notin Transfer
    BY DeterminedBy
  <2>2. Turns(c) /\ answers[c] \subseteq answers'[c]
    BY <2>1 DEF Requested
  <2>3. state'[c] = state[c] \/ Accepted(c)'
    BY <1>2, <2>1, <2>2 DEF Turns
  <2> QED
    BY <1>2, <2>2, <2>3 DEF CourseInv, Accepted
<1>3. ASSUME NEW t \in Transfer, Undisturbed(t)' PROVE Course(t)'
  <2>1. Onward(t) /\ Course(t) /\ t \in Id
    BY <1>3, FamilyOf DEF AllOnward, Onward, CourseInv
  <2>2. \A c \in ConversionsOf(t) : state[c] = "RECEIVED_FULFIL_DEPENDENT" => Accepted(c)
    BY DEF CourseInv, ConversionsOf
  <2>3. Coming(Asking(t))' => Awaiting(t)'
    <3> SUFFICES ASSUME Coming(Asking(t))' PROVE Awaiting(t)'
      OBVIOUS
    <3> DEFINE m == Asking(t)
    <3>1. m.id = t /\ m.action = "prepare"
      BY <2>1, AskingIs
    <3> HIDE DEF m
    <3>2. Turns(t) /\ t \notin Conversion
      BY <2>1, DeterminedBy DEF Requested
    <3>3. CASE Coming(m)
      <4>1. Awaiting(t)
        BY <2>1, <3>3 DEF Course, m
      <4> QED
        BY <3>2, <4>1 DEF Turns, Awaiting
    <3>4. CASE ~Coming(m)
      <4>1. unacked' = unacked /\ work' = work
        BY DEF Requested, HandlersStay
      <4>2. m \in pending' /\ m \notin pending
        BY <3>4, <4>1 DEF Coming, Open, HandlerOf, m
      <4>3. Sends(m)
        BY <4>2 DEF Requested
      <4> QED
        BY <3>1, <4>3 DEF Sends, Awaiting
    <3> QED
      BY <3>3, <3>4
  <2>4. Taken(t)' = Taken(t)
    BY DEF Taken, Requested, HandlersStay
  <2>5. \A c \in ConversionsOf(t) : t \in timeoutRow'[c] => t \in timeoutRow[c] \/ Late(t)'
    BY <1>3 DEF Requested
  <2> QED
    BY <2>1, <2>2, <2>3, <2>4, <2>5, CourseOn
<1> QED
  BY <1>1, <1>2, <1>3 DEF CourseInv

LEMMA CourseByBatch ==
  ASSUME TellInv, CourseInv, WrittenInv, AllOnward, NEW c \in Consumer, Acts(c), RequestsStay
  PROVE  CourseInv'
<1>0. BatchInv /\ TokenInv /\ CreditInv /\ DebitInv /\ BatchActs(c)
  BY ActsAct DEF TellInv
<1>1. \A x \in Id : timeoutRow'[x] \subseteq Family(TransferOf(x))
  BY DEF CourseInv, RequestsStay
<1>2. ASSUME NEW d \in Conversion, state'[d] = "RECEIVED_FULFIL_DEPENDENT" PROVE Accepted(d)'
  <2>1. d \in Id /\ RowsFit(work[c])
    BY <1>0, DeterminedBy DEF BatchInv, WorkBacked
  <2>2. state'[d] = state[d] \/ state'[d] = work[c].rows[d]
    BY <2>1 DEF Acts, InsertedStates
  <2>3. state'[d] = state[d]
    BY <1>2, <2>1, <2>2 DEF RowsFit
  <2> QED
    BY <1>2, <2>3 DEF CourseInv, Accepted, RequestsStay
<1>3. ASSUME NEW t \in Transfer, Undisturbed(t)' PROVE Course(t)'
  <2>1. Onward(t) /\ Course(t) /\ t \in Id /\ Undisturbed(t)
    BY <1>3, FamilyOf DEF AllOnward, Onward, CourseInv
  <2>2. \A d \in ConversionsOf(t) : state[d] = "RECEIVED_FULFIL_DEPENDENT" => Accepted(d)
    BY DEF CourseInv, ConversionsOf
  <2> DEFINE m == Asking(t)
  <2>3. m.done = 0 /\ HandlerOf(m) \in Consumer /\ Once(m, t, "debit") /\ IsToken(m, t, "debit")
    BY <1>0, <2>1, AskingIs DEF DebitInv, IsToken
  <2> HIDE DEF m
  <2>4. Stays(m, t, "debit")
    BY <1>0, <2>1, <2>3, TokenStays
  <2>5. Coming(m)' => Coming(m)
    <3>1. \A d \in Consumer : m \notin work[d].followUps
      BY <1>0, <2>3 DEF TokenInv
    <3> QED
      BY <2>4, <3>1 DEF Stays
  <2>6. Coming(m)' => Awaiting(t)'
    <3> SUFFICES ASSUME Coming(m)' PROVE Awaiting(t)'
      OBVIOUS
    <3>1. Awaiting(t)
      BY <2>1, <2>5 DEF Course, m
    <3>2. CASE state' = state
      BY <3>1, <3>2 DEF Awaiting
    <3>3. CASE CommittingTrx(c) /\ state' = InsertedStates(work[c])
      <4>1. work[c].rows[t] = "none" \/ m \in work[c].batch
        BY <1>0, <2>1, <3>1, <3>3, WritesOnward DEF Awaiting, Timed, Fulfils, Fails, m
      <4>2. CASE work[c].rows[t] = "none"
        BY <2>1, <3>1, <3>3, <4>2 DEF Awaiting, InsertedStates
      <4>3. CASE m \in work[c].batch
        <5>1. HandlerOf(m) = c
          BY <1>0, <4>3, Messages
        <5>2. Open(HandlerOf(m)) /\ m \notin pending /\ m \notin unacked[c]
          BY <2>3, <3>3, <4>3, <5>1 DEF CommittingTrx, Open, Once
        <5>3. m \notin pending' /\ m \notin unacked'[c] /\ ~Open(c)'
          BY <3>3, <5>2 DEF CommittingTrx, Open
        <5> QED
          BY <5>1, <5>3 DEF Coming, Open, HandlerOf
      <4> QED
        BY <4>1, <4>2, <4>3
    <3> QED
      BY <3>2, <3>3 DEF Acts
  <2>7. Taken(t)' = Taken(t) \/ Coming(m)
    BY <2>4 DEF Stays, Taken
  <2>8. \A d \in ConversionsOf(t) : t \in timeoutRow'[d] => t \in timeoutRow[d] \/ Late(t)'
    BY DEF RequestsStay
  <2> QED
    BY <1>0, <2>1, <2>2, <2>6, <2>7, <2>8, CourseOn DEF m
<1> QED
  BY <1>1, <1>2, <1>3 DEF CourseInv

(* What an open transaction has written goes on to be right.                *)
LEMMA WrittenOn ==
  ASSUME NEW d \in Consumer, NEW x \in Id, Written(d, x), Onward(TransferOf(x)),
         work'[d].rows[x] = work[d].rows[x], work'[d].batch = work[d].batch
  PROVE  Written(d, x)'
<1>1. TransferOf(x) \in Transfer /\ x \in Family(TransferOf(x)) /\ (x \in Transfer => TransferOf(x) = x)
  BY FamilyOf
<1>2. x \in Conversion => x \in ConversionsOf(TransferOf(x))
  BY TransferOfType, DeterminedBy
<1> QED
  BY <1>1, <1>2 DEF Written, Onward

(* What a message writes has the message's reason.                          *)
LEMMA WritesPlaced ==
  ASSUME NEW m, Sound(m), Token(m), Placed(m), NEW x \in Id, Calm(x), NEW s, Writes(m, x, s)
  PROVE  /\ s \in {"none", "RESERVED", "COMMITTED"} \union Over
         /\ s = "RESERVED" \/ (s = "ABORTED_REJECTED" /\ x \in Transfer) => m = Asking(x)
         /\ s = "EXPIRED_RESERVED" => IF x \in Transfer THEN Timed(x) ELSE Late(TransferOf(x))
         /\ s = "COMMITTED" => Fulfils(TransferOf(x))
         /\ s = "ABORTED_ERROR" => Fails(TransferOf(x)) \/ (x \in Conversion /\ Refused(x))
<1>1. m \in Message /\ m.id \in Id /\ TransferOf(m.id) \in Transfer /\ (m.id \in Transfer => TransferOf(m.id) = m.id)
  BY MessageType, FamilyOf DEF Sound
<1>2. s \in {"none", "RESERVED", "COMMITTED"} \union Over
  BY DEF Writes, Over
<1>3. CASE m.action \in {"prepare", "fxPrepare"} /\ x = m.id /\ s \in {"RESERVED", "ABORTED_REJECTED"}
  BY <1>2, <1>3 DEF Token
<1>4. CASE m.action = "fxReserve" /\ x = m.id /\ s = "ABORTED_REJECTED"
  BY <1>2, <1>4, DeterminedBy DEF Sound, OfTransfer
<1>5. CASE m.action \in {"timeout", "fxTimeout"} /\ x = m.id /\ s = "EXPIRED_RESERVED"
  <2>1. m.action = "timeout" => x \in Transfer /\ Timed(x)
    BY <1>5 DEF Sound, OfTransfer, Placed
  <2>2. m.action = "fxTimeout" => x \notin Transfer /\ Late(TransferOf(x))
    BY <1>5, DeterminedBy DEF Sound, OfTransfer, Placed
  <2> QED
    BY <1>2, <1>5, <2>1, <2>2
<1>6. m.action \in Aborts \union {"commit"} /\ x \in Concerns(m) => TransferOf(x) = TransferOf(m.id) /\ Calm(m.id)
  BY <1>1, FamilyOf DEF Placed, Calm
<1>7. CASE m.action = "commit" /\ x \in Concerns(m) /\ s = "COMMITTED"
  <2>1. m.id \in Transfer /\ Fulfils(m.id)
    BY <1>6, <1>7 DEF Sound, OfTransfer, Placed
  <2> QED
    BY <1>1, <1>2, <1>6, <1>7, <2>1
<1>8. CASE m.action \in Aborts /\ x \in Concerns(m) /\ s = "ABORTED_ERROR"
  <2>1. m.action = "abort" => m.id \in Transfer /\ Fails(m.id)
    BY <1>6, <1>8 DEF Sound, OfTransfer, Placed
  <2>2. m.action = "fxAbort" => m.id \in Conversion /\ Refused(m.id) /\ x = m.id
    <3> SUFFICES ASSUME m.action = "fxAbort" PROVE m.id \in Conversion /\ Refused(m.id) /\ x = m.id
      OBVIOUS
    <3>1. m.id \in Conversion /\ Refused(m.id) /\ m = Refusing(m.id)
      BY <1>6, <1>8 DEF Sound, OfTransfer, Placed
    <3>2. Concerns(m) = {m.id}
      BY <3>1, RefusingIs
    <3> QED
      BY <1>8, <3>1, <3>2
  <2> QED
    BY <1>1, <1>2, <1>6, <1>8, <2>1, <2>2 DEF Aborts
<1> QED
  BY <1>3, <1>4, <1>5, <1>7, <1>8 DEF Writes

LEMMA WrittenByRequest ==
  ASSUME WrittenInv, AllOnward, Requested
  PROVE  WrittenInv'
<1>1. work' = work
  BY DEF Requested, HandlersStay
<1> SUFFICES ASSUME NEW d \in Consumer, Open(d)', NEW x \in Id, Calm(x)' PROVE Written(d, x)'
  BY DEF WrittenInv
<1>2. Onward(TransferOf(x)) /\ Calm(x)
  BY FamilyOf DEF AllOnward, Calm, Onward
<1>3. Open(d)
  BY <1>1 DEF Open
<1> QED
  BY <1>1, <1>2, <1>3, WrittenOn DEF WrittenInv

LEMMA WrittenByBatch ==
  ASSUME BatchInv, TokenInv, PlacedInv, WrittenInv, AllOnward, NEW c \in Consumer, Acts(c)
  PROVE  WrittenInv'
<1>1. Alone(c)
  BY ActsAct, WhereFrom DEF FromHere
<1> SUFFICES ASSUME NEW d \in Consumer, Open(d)', NEW x \in Id, Calm(x)' PROVE Written(d, x)'
  BY DEF WrittenInv
<1>2. Onward(TransferOf(x)) /\ Calm(x)
  BY FamilyOf DEF AllOnward, Calm, Onward
<1>3. ASSUME Open(d), work'[d].rows[x] = work[d].rows[x], work'[d].batch = work[d].batch
      PROVE  Written(d, x)'
  BY <1>2, <1>3, WrittenOn DEF WrittenInv
<1>4. CASE d # c
  <2>1. work'[d] = work[d]
    BY <1>1, <1>4 DEF Alone
  <2> QED
    BY <1>3, <2>1 DEF Open
<1>5. CASE d = c
  <2>1. ASSUME NEW b, Taking(c, b), work'[c].rows[x] = "none" PROVE Written(d, x)'
    BY <1>5, <2>1 DEF Written, Over
  <2>2. ASSUME NEW m, NEW v, Working(c, m, v), Writing(work[c], work'[c], m) PROVE Written(d, x)'
    <3>1. Open(d) /\ work'[d].batch = work[d].batch /\ m \in work[c].batch
      BY <1>5, <2>2 DEF Working, Open
    <3>2. CASE work'[d].rows[x] = work[d].rows[x]
      BY <1>3, <3>1, <3>2
    <3>3. CASE Writes(m, x, work'[d].rows[x])
      <4>1. PICK s : s = work'[d].rows[x]
        OBVIOUS
      <4>2. Sound(m) /\ Token(m) /\ Placed(m)
        BY <3>1, Messages DEF PlacedInv
      <4>3. /\ s \in {"none", "RESERVED", "COMMITTED"} \union Over
            /\ s = "RESERVED" \/ (s = "ABORTED_REJECTED" /\ x \in Transfer) => m = Asking(x)
            /\ s = "EXPIRED_RESERVED" => IF x \in Transfer THEN Timed(x) ELSE Late(TransferOf(x))
            /\ s = "COMMITTED" => Fulfils(TransferOf(x))
            /\ s = "ABORTED_ERROR" => Fails(TransferOf(x)) \/ (x \in Conversion /\ Refused(x))
        BY <1>2, <3>3, <4>1, <4>2, WritesPlaced
      <4>4. /\ TransferOf(x) \in Transfer /\ (x \in Transfer => TransferOf(x) = x)
            /\ (x \in Conversion => x \in ConversionsOf(TransferOf(x)))
        BY FamilyOf, TransferOfType, DeterminedBy
      <4>5. /\ s = "EXPIRED_RESERVED" => (IF x \in Transfer THEN Timed(x) ELSE Late(TransferOf(x)))'
            /\ s = "COMMITTED" => Fulfils(TransferOf(x))'
            /\ s = "ABORTED_ERROR" => Fails(TransferOf(x))' \/ (x \in Conversion /\ Refused(x)')
        BY <1>2, <4>3, <4>4 DEF Onward
      <4> QED
        BY <1>5, <3>1, <4>1, <4>3, <4>5 DEF Written
    <3> QED
      BY <1>5, <2>2, <3>2, <3>3 DEF Writing, Steady
  <2>3. CASE CommittingOffset(c) /\ work'[c].rows = work[c].rows
    <3>1. Open(d) /\ work'[d].batch = work[d].batch
      BY <1>5, <2>3 DEF CommittingOffset, Open, SameBatch
    <3> QED
      BY <1>3, <1>5, <2>3, <3>1
  <2>4. CASE GivingUp(c) \/ CommittingTrx(c) \/ Producing(c) \/ Crashing(c)
    <3>1. ~Open(c)'
      BY <2>4 DEF GivingUp, CommittingTrx, Producing, Crashing, Ending, Open
    <3> QED
      BY <1>5, <3>1
  <2> QED
    BY <2>1, <2>2, <2>3, <2>4 DEF Acts
<1> QED
  BY <1>4, <1>5

(* What is paid goes on to be of a transfer that was fulfilled.             *)
LEMMA PaidByRequest ==
  ASSUME PaidInv, AllOnward, Requested
  PROVE  PaidInv'
<1>1. work' = work /\ moved' = moved
  BY DEF Requested, HandlersStay
<1> SUFFICES ASSUME NEW x \in Id
             PROVE  /\ ~IsPaid(x) => moved'[x]["credit"] = 0 /\ \A d \in Consumer : work'[d].moved[x]["credit"] = 0
                    /\ Calm(x)' /\ (moved'[x]["credit"] # 0 \/ \E d \in Consumer : Open(d)' /\ work'[d].moved[x]["credit"] # 0)
                         => Fulfils(TransferOf(x))'
  BY DEF PaidInv
<1>2. Calm(x)' => Onward(TransferOf(x)) /\ Calm(x)
  BY FamilyOf DEF AllOnward, Calm, Onward
<1>3. \A d : Open(d)' = Open(d)
  BY <1>1 DEF Open
<1> QED
  BY <1>1, <1>2, <1>3 DEF PaidInv, Onward

LEMMA PaidByBatch ==
  ASSUME BatchInv, TokenInv, PlacedInv, PaidInv, AllOnward, NEW c \in Consumer, Acts(c)
  PROVE  PaidInv'
<1>1. BatchActs(c) /\ MovesHere(c) /\ Alone(c) /\ "credit" \in MoveKind
  BY ActsAct, WhatMoves, WhereFrom DEF FromHere, MoveKind
<1> SUFFICES ASSUME NEW x \in Id
             PROVE  /\ ~IsPaid(x) => moved'[x]["credit"] = 0 /\ \A d \in Consumer : work'[d].moved[x]["credit"] = 0
                    /\ Calm(x)' /\ (moved'[x]["credit"] # 0 \/ \E d \in Consumer : Open(d)' /\ work'[d].moved[x]["credit"] # 0)
                         => Fulfils(TransferOf(x))'
  BY DEF PaidInv
<1>2. Calm(x)' => Onward(TransferOf(x)) /\ Calm(x)
  BY FamilyOf DEF AllOnward, Calm, Onward
<1>3. Calm(x)' /\ Fulfils(TransferOf(x)) => Fulfils(TransferOf(x))'
  BY <1>2 DEF Onward
<1> DEFINE paid(d) == work[d].moved[x]["credit"]
<1>4. /\ ~IsPaid(x) => moved[x]["credit"] = 0 /\ \A d \in Consumer : paid(d) = 0
      /\ Calm(x) /\ (moved[x]["credit"] # 0 \/ \E d \in Consumer : Open(d) /\ paid(d) # 0) => Fulfils(TransferOf(x))
  BY DEF PaidInv
<1>5. moved'[x]["credit"] # 0 => moved[x]["credit"] # 0 \/ (Open(c) /\ paid(c) # 0)
  <2>1. CASE moved'[x]["credit"] = moved[x]["credit"]
    BY <2>1
  <2>2. CASE CommittingTrx(c) /\ moved'[x]["credit"] = moved[x]["credit"] + work[c].moved[x]["credit"]
    <3>1. Open(c)
      BY <2>2 DEF CommittingTrx, Open
    <3> QED
      BY <2>2, <3>1
  <2> QED
    BY <1>1, <2>1, <2>2 DEF MovesHere
<1>6. work'[c].moved[x]["credit"] # 0 =>
        \/ paid(c) # 0 /\ (Open(c)' => Open(c))
        \/ IsPaid(x) /\ (Calm(x) => Fulfils(TransferOf(x)))
  <2>1. CASE Ending(c)
    BY <1>1, <2>1 DEF Ending
  <2>2. CASE work'[c].moved[x]["credit"] = 0
    BY <2>2
  <2>3. CASE work'[c].moved[x]["credit"] = work[c].moved[x]["credit"] /\ (Open(c)' => Open(c))
    BY <2>3
  <2>4. ASSUME Open(c), NEW n, NEW v, Working(c, n, v), work'[c].moved[x]["credit"] = v.moved[x]["credit"]
        PROVE  \/ paid(c) # 0 \/ work'[c].moved[x]["credit"] = 0
               \/ IsPaid(x) /\ (Calm(x) => Fulfils(TransferOf(x)))
    <3>1. n \in work[c].batch /\ Effect(work[c], v, n)
      BY <2>4 DEF Working
    <3>2. work[c] \in Work /\ Sound(n) /\ Token(n) /\ Placed(n)
      BY <3>1, Messages DEF PlacedInv
    <3>3. v.moved[x]["credit"] = paid(c) \/ (IsPaid(x) /\ n = Paying(x))
      BY <3>1, <3>2, EffectMoves
    <3>4. IsPaid(x) /\ n = Paying(x) => n.id = TransferOf(x) /\ n.action = "commit"
      BY PayingIs
    <3>5. TransferOf(TransferOf(x)) = TransferOf(x)
      BY FamilyOf
    <3> QED
      BY <2>4, <3>2, <3>3, <3>4, <3>5 DEF Placed, Calm
  <2> HIDE DEF paid
  <2> QED
    BY <1>1, <2>1, <2>2, <2>3, <2>4 DEF MovesHere, paid
<1>7. \A d \in Consumer : d # c => work'[d].moved[x]["credit"] = paid(d) /\ (Open(d)' => Open(d))
  BY <1>1 DEF Alone, Open
<1> HIDE DEF paid
<1>8. ~IsPaid(x) => moved'[x]["credit"] = 0 /\ \A d \in Consumer : work'[d].moved[x]["credit"] = 0
  BY <1>4, <1>5, <1>6, <1>7
<1>9. Calm(x)' /\ moved'[x]["credit"] # 0 => Fulfils(TransferOf(x))'
  BY <1>2, <1>3, <1>4, <1>5
<1>10. ASSUME Calm(x)', NEW d \in Consumer, Open(d)', work'[d].moved[x]["credit"] # 0 PROVE Fulfils(TransferOf(x))'
  <2>1. CASE d = c
    BY <1>2, <1>3, <1>4, <1>6, <1>10, <2>1
  <2>2. CASE d # c
    BY <1>2, <1>3, <1>4, <1>7, <1>10, <2>2
  <2> QED
    BY <2>1, <2>2
<1> QED
  BY <1>8, <1>9, <1>10

(***************************************************************************)
(* Giving back.  What gives to x is the message that times it out, the one  *)
(* that aborts it, or the one that its FX provider refused it with.         *)
(***************************************************************************)
IsReturn(m, x) ==
  \/ m = Aborting(x) /\ Fails(TransferOf(x))
  \/ m = Refusing(x) /\ x \in Conversion /\ Refused(x)
IsTimeout(m, x) ==
  m = TimingOut(x) /\ IF x \in Transfer THEN Timed(x) ELSE Late(TransferOf(x))

LEMMA GivesOnly ==
  ASSUME NEW n, Sound(n), Placed(n), NEW x \in Id, Calm(x), GivesTo(n, x)
  PROVE  /\ Taken(x) >= 1 /\ GivenUp(x)
         /\ IsReturn(n, x) \/ IsTimeout(n, x)
<1>1. n \in Message /\ n.id \in Id /\ (n.id \in Transfer => TransferOf(n.id) = n.id)
  BY MessageType, FamilyOf DEF Sound
<1>2. CASE n.action \in {"timeout", "fxTimeout"} /\ x = n.id
  <2>1. n = TimingOut(x) /\ Taken(x) >= 1
    BY <1>2 DEF Placed
  <2>2. n.action = "timeout" => x \in Transfer /\ Timed(x)
    BY <1>2 DEF Sound, OfTransfer, Placed
  <2>3. n.action = "fxTimeout" => x \notin Transfer /\ Late(TransferOf(x))
    BY <1>2, DeterminedBy DEF Sound, OfTransfer, Placed
  <2> QED
    BY <1>2, <2>1, <2>2, <2>3 DEF IsTimeout, GivenUp
<1>3. CASE n.action \in Aborts /\ x = NextMove(n)
  <2>1. TransferOf(x) = TransferOf(n.id) /\ Calm(n.id)
    BY <1>1, <1>3, NextMoveType, FamilyOf DEF Placed, Calm
  <2>2. Taken(x) >= 1
    BY <1>3, <2>1 DEF Placed
  <2>3. CASE n.action = "abort"
    <3>1. Fails(TransferOf(x)) /\ n = Aborting(x)
      BY <1>1, <1>3, <2>1, <2>3 DEF Placed, Sound, OfTransfer
    <3> QED
      BY <2>2, <3>1 DEF GivenUp, IsReturn
  <2>4. CASE n.action = "fxAbort"
    <3>1. n.id \in Conversion /\ Refused(n.id) /\ n = Refusing(n.id)
      BY <2>1, <2>4 DEF Placed, Sound, OfTransfer
    <3>2. x = n.id
      BY <1>3, <3>1, RefusingIs
    <3>3. x \notin Transfer
      BY <3>1, <3>2, DeterminedBy
    <3> QED
      BY <2>2, <3>1, <3>2, <3>3 DEF GivenUp, IsReturn
  <2> QED
    BY <1>3, <2>3, <2>4 DEF Aborts
<1> QED
  BY <1>2, <1>3 DEF GivesTo

LEMMA ReturnIs ==
  ASSUME NEW x \in Id, DebitAccount[x] # NoAccount, NEW m, IsReturn(m, x)
  PROVE  /\ HandlerOf(m) = PayerOf(x) /\ HandlerOf(m) \in Consumer /\ NextMove(m) = x /\ m.action \in Aborts
         /\ TransferOf(m.id) = TransferOf(x)
<1>1. TransferOf(TransferOf(x)) = TransferOf(x)
  BY FamilyOf
<1> QED
  BY <1>1, AbortingIs, RefusingIs DEF IsReturn, Aborts

(* There is only one of each.                                               *)
LEMMA OneReturn ==
  ASSUME BatchInv, CourseInv, NEW x \in Id, Calm(x), NEW m, IsReturn(m, x), NEW n, IsReturn(n, x) \/ IsTimeout(n, x)
  PROVE  n = m /\ ~IsTimeout(n, x)
<1> DEFINE t == TransferOf(x)
<1>1. /\ t \in Transfer /\ x \in Family(t) /\ (x \in Transfer => t = x)
      /\ (x \in Conversion => x \in ConversionsOf(t) /\ x \notin Transfer)
  BY FamilyOf, TransferOfType, DeterminedBy
<1> HIDE DEF t
<1>2. /\ ~((Timed(t) \/ Late(t)) /\ Fails(t))
      /\ x \in Conversion /\ Refused(x) => Out(t)
  BY <1>1, Apart DEF Calm, t
<1>3. ~(Out(t) /\ (Late(t) \/ Fails(t)))
  BY DEF Out, Late, Fails
<1>4. ~IsTimeout(n, x)
  BY <1>1, <1>2, <1>3 DEF IsTimeout, IsReturn, t
<1> QED
  BY <1>1, <1>2, <1>3, <1>4 DEF IsReturn, t

(* The second movement of an abort follows the first, which was the only one.*)
LEMMA ReturnsOnce ==
  ASSUME TellInv, PlacedInv, CourseInv, RefundInv, NEW c \in Consumer, NEW n, NEW v, Working(c, n, v),
         NEW x \in Id, DebitAccount[x] # NoAccount, Calm(x), NEW m, IsReturn(m, x),
         m = Following(n), n.action \in Aborts \union {"commit"}, ~IsLast(n)
  PROVE  ~Coming(m) /\ ~Followed(m) /\ moved[x]["refund"] = 0
<1>1. /\ BatchInv /\ TokenInv /\ ToldInv
      /\ n \in work[c].batch /\ n \in work[c].todo /\ Open(c)
  BY DEF TellInv, Working, Open
<1>2. Sound(n) /\ Placed(n) /\ HandlerOf(n) = c /\ n \in Message
  BY <1>1, Messages DEF PlacedInv, Sound
<1>3. m.id = n.id /\ m.action = n.action
  BY <1>2, FollowingIs
<1>4. Calm(n.id) /\ n.action \in Aborts
  BY <1>3, ReturnIs DEF Calm
<1>5. n.action = "abort"
  <2> SUFFICES ASSUME n.action = "fxAbort" PROVE FALSE
    BY <1>4 DEF Aborts
  <2>1. n.id \in Conversion /\ n = Refusing(n.id)
    BY <1>2, <1>4 DEF Sound, OfTransfer, Placed
  <2> QED
    BY <2>1, RefusingIs
<1>6. PICK y \in Id : y = NextMove(n)
  BY <1>2, <1>4, NextMoveType
<1>7. Fails(n.id) /\ n = Aborting(y) /\ DebitAccount[y] # NoAccount
  BY <1>2, <1>4, <1>5, <1>6 DEF Placed, Aborts
<1> DEFINE t == TransferOf(y)
<1>8. /\ DebitAccount[t] # NoAccount /\ IsSecond(t) /\ y \in ConversionsOf(t) /\ m = Aborting(t) /\ t \in Transfer
      /\ t \in Id /\ n.id = t
  BY <1>2, <1>7, AbortingFollows, AbortingIs, FamilyOf
<1>9. x = t /\ IsSecond(x) /\ y \in ConversionsOf(x) /\ m.done = 1 /\ m.plan[1] = y /\ m.action = "abort" /\ Fails(TransferOf(x))
      /\ m = Aborting(x)
  <2>1. NextMove(m) = x /\ NextMove(m) = t
    BY <1>8, ReturnIs, AbortingIs
  <2> QED
    BY <1>7, <1>8, <2>1, AbortingIs, FamilyOf
<1> HIDE DEF t
<1>10. Calm(y) /\ Fails(TransferOf(y))
  BY <1>4, <1>7, <1>8, FamilyOf DEF Calm, t
<1>11. Once(n, y, "refund")
  BY <1>7, <1>10 DEF RefundInv, Refund
<1>12. moved[y]["refund"] = 0 /\ \A d \in Consumer : Open(d) => work[d].moved[y]["refund"] = 0
  <2>1. Coming(n)
    BY <1>1, <1>2 DEF Coming
  <2> QED
    BY <1>1, <1>2, <1>11, <2>1 DEF Once
<1>13. \A d \in Consumer : RowsOf(d)[y]["refund"] = 0
  BY <1>1, <1>12, RowsOfType DEF MoveKind
<1>14. \A rows : FirstIn(m, rows) => rows[y]["refund"] # 0
  BY <1>7, <1>9 DEF FirstIn, GivenIn, Aborts
<1>15. HandlerOf(m) \in Consumer
  BY ReturnIs
<1>16. ~Coming(m)
  BY <1>1, <1>12, <1>14, <1>15 DEF Coming, ToldInv
<1>17. ~Followed(m)
  BY <1>1, <1>13, <1>14 DEF Followed, ToldInv
<1>18. moved[x]["refund"] = 0
  BY <1>9, <1>12 DEF RefundInv, Refund
<1> QED
  BY <1>16, <1>17, <1>18

LEMMA ReturnStays ==
  ASSUME TellInv, PlacedInv, CourseInv, RefundInv, NEW c \in Consumer, BatchActs(c),
         NEW x \in Id, DebitAccount[x] # NoAccount, Calm(x), NEW m, IsReturn(m, x)
  PROVE  Once(m, x, "refund") /\ Stays(m, x, "refund")
<1>1. /\ BatchInv /\ TokenInv /\ HandlerOf(m) \in Consumer /\ "refund" \in MoveKind
      /\ Once(m, x, "refund")
  BY ReturnIs DEF TellInv, MoveKind, RefundInv, Refund, IsReturn
<1>2. \A n \in unacked[c] \union work[c].batch : HandlerOf(n) = c
  BY <1>1, Messages
<1>3. ASSUME NEW n, NEW v, Working(c, n, v) PROVE Stays(m, x, "refund")
  <2>1. /\ work[c] \in Work /\ Sound(n) /\ Placed(n) /\ Effect(work[c], v, n)
    BY <1>1, <1>3, Messages DEF Working, PlacedInv
  <2>2. \/ v.moved[x]["refund"] = work[c].moved[x]["refund"]
        \/ n = m /\ v.moved[x]["refund"] = work[c].moved[x]["refund"] + 1
    <3>1. GivesTo(n, x) => n = m
      BY <1>1, <2>1, GivesOnly, OneReturn
    <3> QED
      BY <2>1, <3>1, RefundMoves
  <2>3. \/ m \in v.followUps => m \in work[c].followUps
        \/ ~Coming(m) /\ ~Followed(m) /\ moved[x]["refund"] = 0
    <3> SUFFICES ASSUME m \in v.followUps, m \notin work[c].followUps
                 PROVE  ~Coming(m) /\ ~Followed(m) /\ moved[x]["refund"] = 0
      OBVIOUS
    <3>1. m = Following(n) /\ ~IsLast(n) /\ n.action \in Aborts \union {"commit"}
      BY <1>1, <1>3, NewFollowUps
    <3> QED
      BY <1>3, <3>1, ReturnsOnce
  <2> QED
    BY <1>1, <1>2, <1>3, <2>2, <2>3, OnceWorking
<1> QED
  BY <1>1, <1>2, <1>3, OnceTaking, OnceGivingUp, OnceCommittingOffset, OnceCommittingTrx, OnceProducing, OnceCrashing
     DEF BatchActs

LEMMA GivenUpOn ==
  ASSUME NEW x \in Id, Onward(TransferOf(x))
  PROVE  /\ GivenUp(x) => GivenUp(x)'
         /\ Taken(x) >= 1 => Taken(x)' >= 1
<1>1. /\ TransferOf(x) \in Transfer /\ (x \in Transfer => TransferOf(x) = x) /\ x \in Family(TransferOf(x))
      /\ (x \notin Transfer => x \in ConversionsOf(TransferOf(x)))
  BY FamilyOf, TransferOfType
<1>2. GivenUp(x) => GivenUp(x)'
  BY <1>1 DEF Onward, GivenUp
<1>3. Taken(x) >= 1 => Taken(x)' >= 1
  BY <1>1 DEF Onward
<1> QED
  BY <1>2, <1>3

(* A message that is nowhere, and a movement that nobody has made.          *)
LEMMA NowhereOnce ==
  ASSUME NEW m, HandlerOf(m) \in Consumer, NEW x \in Id, NEW k \in MoveKind, m \notin pending,
         \A d \in Consumer : m \notin unacked[d] \union work[d].batch \union work[d].followUps,
         moved[x][k] = 0, \A d \in Consumer : Open(d) => work[d].moved[x][k] = 0
  PROVE  Once(m, x, k) /\ Nowhere(m, x, k)
<1>1. ~Coming(m) /\ ~Followed(m)
  BY DEF Coming, Followed
<1> QED
  BY <1>1 DEF Once, Nowhere

(* Only what was given up is given back.                                    *)
LEMMA NothingBack ==
  ASSUME RefundInv, NEW x \in Id, DebitAccount[x] # NoAccount, Calm(x), ~GivenUp(x)
  PROVE  moved[x]["refund"] = 0 /\ \A d \in Consumer : Open(d) => work[d].moved[x]["refund"] = 0
BY DEF RefundInv, Refund, GivingBack

LEMMA ReturnUnplaced ==
  ASSUME BatchInv, PlacedInv, NEW x \in Id, DebitAccount[x] # NoAccount, Calm(x), NEW m,
         \/ m = Aborting(x) /\ ~Fails(TransferOf(x))
         \/ m = Refusing(x) /\ x \in Conversion /\ ~Refused(x)
  PROVE  ~Placed(m) /\ HandlerOf(m) \in Consumer
<1>1. TransferOf(TransferOf(x)) = TransferOf(x)
  BY FamilyOf
<1>2. CASE m = Aborting(x) /\ ~Fails(TransferOf(x))
  <2>1. m.id = TransferOf(x) /\ m.action = "abort" /\ HandlerOf(m) \in Consumer
    BY <1>2, AbortingIs
  <2> QED
    BY <1>1, <1>2, <2>1 DEF Placed, Calm
<1>3. CASE m = Refusing(x) /\ x \in Conversion /\ ~Refused(x)
  <2>1. m.id = x /\ m.action = "fxAbort" /\ HandlerOf(m) \in Consumer
    BY <1>3, RefusingIs
  <2> QED
    BY <1>3, <2>1 DEF Placed
<1> QED
  BY <1>2, <1>3

(* An FX provider that has not gone back on its answer refused before there *)
(* was a transfer.                                                          *)
LEMMA RefusedEarly ==
  ASSUME BatchInv', CourseInv', NEW t \in Transfer, Undisturbed(t)', NEW c \in ConversionsOf(t), Refused(c)'
  PROVE  Out(t)'
<1> SUFFICES ASSUME ~Out(t)' PROVE FALSE
  OBVIOUS
<1>1. Accepted(c)' /\ c \in Id
  BY FamilyOf DEF Family, CourseInv, Course
<1>2. answers'[c] \subseteq Answer
  BY <1>1 DEF BatchInv, TypeOK
<1>3. answers'[c] = Answer
  BY <1>1, <1>2 DEF Accepted, Refused, Answer
<1> QED
  BY <1>3 DEF Undisturbed, Disturbed, WentBack

(* A request that asks for x to be given back asks for the first time.      *)
LEMMA ReturnAsked ==
  ASSUME BatchInv, PlacedInv, RefundInv, Requested, NEW x \in Id, DebitAccount[x] # NoAccount, Calm(x), NEW m,
         \/ m = Aborting(x) /\ (~Fails(TransferOf(x)) => ~GivenUp(x))
         \/ m = Refusing(x) /\ x \in Conversion /\ (~Refused(x) => ~GivenUp(x))
  PROVE  Once(m, x, "refund")'
<1>1. HandlersStay /\ pending \subseteq pending' /\ "refund" \in MoveKind
  BY DEF Requested, MoveKind
<1>2. CASE IsReturn(m, x)
  <2>1. Once(m, x, "refund") /\ HandlerOf(m) \in Consumer
    BY <1>2, ReturnIs DEF RefundInv, Refund, IsReturn
  <2>2. m \in pending' => m \in pending
    <3> SUFFICES ASSUME Sends(m) PROVE FALSE
      BY DEF Requested
    <3>1. CASE m = Aborting(x) /\ Fails(TransferOf(x))
      BY <3>1, AbortingIs DEF Sends
    <3>2. CASE m = Refusing(x) /\ x \in Conversion /\ Refused(x)
      BY <3>2, RefusingIs DEF Sends
    <3> QED
      BY <1>2, <3>1, <3>2 DEF IsReturn
  <2> QED
    BY <1>1, <2>1, <2>2, OnceAsking
<1>3. CASE ~IsReturn(m, x)
  <2>1. /\ ~GivenUp(x)
        /\ \/ m = Aborting(x) /\ ~Fails(TransferOf(x))
           \/ m = Refusing(x) /\ x \in Conversion /\ ~Refused(x)
    BY <1>3 DEF IsReturn
  <2>2. ~Placed(m) /\ HandlerOf(m) \in Consumer
    BY <2>1, ReturnUnplaced
  <2>3. Once(m, x, "refund") /\ Nowhere(m, x, "refund")
    BY <1>1, <2>1, <2>2, NothingBack, NowhereOnce DEF PlacedInv
  <2> QED
    BY <1>1, <2>2, <2>3, OnceAsking
<1> QED
  BY <1>2, <1>3

LEMMA RefundByRequest ==
  ASSUME BatchInv, BatchInv', PlacedInv, CourseInv, CourseInv', RefundInv, AllOnward, Requested
  PROVE  RefundInv'
<1>1. work' = work /\ moved' = moved /\ "refund" \in MoveKind
  BY DEF Requested, HandlersStay, MoveKind
<1>2. \A x \in Id : DebitAccount[x] = NoAccount =>
        moved'[x]["refund"] = 0 /\ \A d \in Consumer : work'[d].moved[x]["refund"] = 0
  BY <1>1 DEF RefundInv
<1>3. ASSUME NEW x \in Id, DebitAccount[x] # NoAccount, Calm(x)' PROVE Refund(x)'
  <2> DEFINE t == TransferOf(x)
  <2>1. /\ t \in Transfer /\ t \in Id /\ t \notin Conversion /\ (x \in Transfer => t = x) /\ x \in Family(t)
        /\ (x \notin Transfer => x \in ConversionsOf(t) /\ x \in Conversion)
        /\ (x \in Conversion => x \notin Transfer)
    BY FamilyOf, TransferOfType, DeterminedBy
  <2> HIDE DEF t
  <2>2. Onward(t) /\ Calm(x) /\ Undisturbed(t) /\ Undisturbed(t)' /\ Refund(x)
    BY <1>3, <2>1 DEF AllOnward, Calm, Onward, RefundInv, t
  <2>3. (GivenUp(x) => GivenUp(x)') /\ (Taken(x) >= 1 => Taken(x)' >= 1)
    BY <2>2, GivenUpOn DEF t
  <2>4. state[x] \in Over => state'[x] \in Over
    BY DEF Requested, Turns, Over
  <2>5. ASSUME NEW d \in Consumer, Open(d)' PROVE GivingBack(d, x)'
    <3>1. Open(d) /\ GivingBack(d, x)
      BY <1>1, <2>2, <2>5 DEF Open, Refund
    <3> QED
      BY <1>1, <2>3, <3>1 DEF GivingBack, SaysTimedOut
  <2>6. Fails(t)' /\ ~Fails(t) => ~GivenUp(x)
    <3> SUFFICES ASSUME Fails(t)', ~Fails(t) PROVE ~GivenUp(x)
      OBVIOUS
    <3>1. Turns(t)
      BY <2>1 DEF Requested
    <3>2. state[t] = "RESERVED" /\ t \notin expired
      BY <2>1, <3>1 DEF Turns, Fails
    <3>3. x \in Conversion => ~Refused(x)
      BY <2>1, <2>2, <3>2, Apart DEF Out
    <3> QED
      BY <2>1, <3>2, <3>3 DEF GivenUp, Fails, Timed, Late, t
  <2>7. x \in Conversion /\ Refused(x)' /\ ~Refused(x) => ~GivenUp(x)
    <3> SUFFICES ASSUME x \in Conversion, Refused(x)', ~Refused(x) PROVE ~GivenUp(x)
      OBVIOUS
    <3>1. Out(t)'
      BY <2>1, <2>2, RefusedEarly
    <3>2. Out(t)
      BY <2>2, <3>1 DEF Onward
    <3> QED
      BY <2>1, <3>2 DEF GivenUp, Out, Fails, Late, t
  <2>8. Fails(t)' => Once(Aborting(x), x, "refund")'
    BY <1>3, <2>2, <2>6, ReturnAsked DEF t
  <2>9. x \in Conversion /\ Refused(x)' => Once(Refusing(x), x, "refund")'
    BY <1>3, <2>2, <2>7, ReturnAsked DEF t
  <2>10. Fails(t)' /\ IsSecond(x) /\ moved'[x]["refund"] # 0 => \A c \in ConversionsOf(x) : moved'[c]["refund"] # 0
    BY <1>1, <1>3, <2>2, <2>6, NothingBack DEF Refund, t
  <2> QED
    BY <1>1, <2>2, <2>3, <2>4, <2>5, <2>8, <2>9, <2>10 DEF Refund, t
<1> QED
  BY <1>2, <1>3 DEF RefundInv

(* A batch aborts what had failed before.                                   *)
LEMMA FailsBefore ==
  ASSUME BatchInv, TokenInv, CourseInv, WrittenInv, NEW c \in Consumer, Acts(c), NEW t \in Transfer, Undisturbed(t),
         Fails(t)'
  PROVE  Fails(t)
<1>0. t \in Id
  BY FamilyOf
<1>1. CASE state' = state
  BY <1>1 DEF Fails
<1>2. CASE CommittingTrx(c) /\ state' = InsertedStates(work[c])
  <2>1. state'[t] = IF work[c].rows[t] = "none" THEN state[t] ELSE work[c].rows[t]
    BY <1>0, <1>2 DEF InsertedStates
  <2> QED
    BY <1>2, <2>1, WritesOnward DEF Fails
<1> QED
  BY <1>1, <1>2 DEF Acts

(* What gives back x, and then has: whose state is written with it.         *)
LEMMA RowsStayOver ==
  ASSUME BatchInv, TokenInv, DebitInv, CourseInv, NEW d \in Consumer, NEW x \in Id, Calm(x), Written(d, x), Open(d),
         Taken(x) >= 1, GivenUp(x)
  PROVE  work[d].rows[x] \in {"none"} \union Over
<1>1. TransferOf(x) \in Transfer /\ x \in Family(TransferOf(x))
  BY FamilyOf
<1>2. work[d].rows[x] # "RESERVED"
  <2> SUFFICES ASSUME Asking(x) \in work[d].batch PROVE FALSE
    BY DEF Written
  <2>1. HandlerOf(Asking(x)) = d
    BY Messages
  <2>2. Coming(Asking(x))
    BY <2>1 DEF Coming
  <2>3. moved[x]["debit"] = 0
    BY <2>2 DEF DebitInv, Once
  <2> QED
    BY <2>3 DEF Taken
<1>3. work[d].rows[x] # "COMMITTED"
  BY <1>1, Apart DEF Calm, Written
<1> QED
  BY <1>2, <1>3 DEF Written, Over

(* A message that is worked gives x back at most once.                      *)
LEMMA GivingWorks ==
  ASSUME BatchInv, TokenInv, PlacedInv, CourseInv, RefundInv, NEW c \in Consumer, NEW n, NEW v, Working(c, n, v),
         Writing(work[c], work'[c], n), NEW x \in Id, DebitAccount[x] # NoAccount, Calm(x), GivesTo(n, x)
  PROVE  /\ c = PayerOf(x) /\ Taken(x) >= 1 /\ GivenUp(x)
         /\ work[c].moved[x]["refund"] = 0 /\ moved[x]["refund"] = 0
         /\ work'[c].rows[x] \in Over /\ TimingOut(x) \notin work'[c].todo
<1>1. /\ n \in work[c].batch /\ n \in work[c].todo /\ Open(c) /\ work'[c].todo = work[c].todo \ {n}
      /\ work[c].todo \subseteq work[c].batch
  BY DEF Working, Open, BatchInv, WorkSound
<1>2. Sound(n) /\ Placed(n) /\ HandlerOf(n) = c
  BY <1>1, Messages DEF PlacedInv
<1>3. c = PayerOf(x)
  BY <1>2 DEF GivesTo, HandlerOf, PayerOf
<1>4. Taken(x) >= 1 /\ GivenUp(x) /\ (IsReturn(n, x) \/ IsTimeout(n, x))
  BY <1>2, GivesOnly
<1>5. Refund(x) /\ GivingBack(c, x)
  BY <1>1 DEF RefundInv, Refund
<1>6. CASE IsTimeout(n, x)
  <2>1. n = TimingOut(x) /\ n.id = x /\ n.action \in {"timeout", "fxTimeout"}
    BY <1>6, TimingOutIs DEF IsTimeout
  <2>2. work'[c].rows[x] = "EXPIRED_RESERVED" /\ SaysTimedOut(work[c], x)
    BY <2>1 DEF Writing
  <2>3. moved[x]["refund"] = 0
    BY <1>3, <1>5, <2>2 DEF GivingBack
  <2>4. work[c].moved[x]["refund"] = 0
    BY <1>1, <1>5, <2>1 DEF GivingBack
  <2> QED
    BY <1>1, <1>3, <1>4, <2>1, <2>2, <2>3, <2>4 DEF Over
<1>7. CASE IsReturn(n, x)
  <2>1. Once(n, x, "refund") /\ NextMove(n) = x /\ n.action \in Aborts
    BY <1>5, <1>7, ReturnIs DEF Refund, IsReturn
  <2>2. Coming(n)
    BY <1>1, <1>2 DEF Coming
  <2>3. moved[x]["refund"] = 0 /\ work[c].moved[x]["refund"] = 0
    BY <1>1, <2>1, <2>2 DEF Once
  <2>4. work'[c].rows[x] = "ABORTED_ERROR"
    BY <2>1 DEF Writing
  <2>5. TimingOut(x) \notin work[c].todo
    <3> SUFFICES ASSUME TimingOut(x) \in work[c].todo PROVE FALSE
      OBVIOUS
    <3> DEFINE m == TimingOut(x)
    <3>1. m.id = x /\ m.action = IF x \in Transfer THEN "timeout" ELSE "fxTimeout"
      BY TimingOutIs
    <3>2. Placed(m)
      BY <1>1 DEF PlacedInv
    <3>3. IsTimeout(m, x)
      BY <3>1, <3>2 DEF Placed, IsTimeout
    <3> QED
      BY <1>7, <3>3, OneReturn
  <2> QED
    BY <1>1, <1>3, <1>4, <2>3, <2>4, <2>5 DEF Over
<1> QED
  BY <1>4, <1>6, <1>7

LEMMA WritesOver ==
  ASSUME BatchInv, TokenInv, DebitInv, PlacedInv, CourseInv, NEW c \in Consumer, Open(c),
         NEW n \in work[c].batch, NEW x \in Id, Calm(x), Taken(x) >= 1, GivenUp(x), NEW s, Writes(n, x, s)
  PROVE  s \in Over
<1>1. Sound(n) /\ Token(n) /\ Placed(n) /\ HandlerOf(n) = c /\ TransferOf(x) \in Transfer /\ x \in Family(TransferOf(x))
  BY Messages, FamilyOf DEF PlacedInv
<1>2. s \in {"RESERVED", "COMMITTED"} \union Over
  BY DEF Writes, Over
<1>3. s # "RESERVED"
  <2> SUFFICES ASSUME n = Asking(x) PROVE FALSE
    BY <1>1, WritesPlaced
  <2>1. Coming(Asking(x))
    BY <1>1 DEF Coming
  <2>2. moved[x]["debit"] = 0
    BY <2>1 DEF DebitInv, Once
  <2> QED
    BY <2>2 DEF Taken
<1>4. s # "COMMITTED"
  <2> SUFFICES ASSUME s = "COMMITTED" PROVE FALSE
    OBVIOUS
  <2>1. Fulfils(TransferOf(x))
    BY <1>1, WritesPlaced
  <2> QED
    BY <1>1, <2>1, Apart DEF Calm
<1> QED
  BY <1>2, <1>3, <1>4

(* The batches, open transaction by open transaction.                       *)
LEMMA GivingByBatch ==
  ASSUME TellInv, PlacedInv, CourseInv, RefundInv, AllOnward, NEW c \in Consumer, Acts(c),
         NEW x \in Id, DebitAccount[x] # NoAccount, Calm(x)', NEW d \in Consumer, Open(d)'
  PROVE  GivingBack(d, x)'
<1>1. /\ BatchInv /\ TokenInv /\ DebitInv /\ BatchActs(c) /\ MovesHere(c) /\ Alone(c) /\ "refund" \in MoveKind
  BY ActsAct, WhatMoves, WhereFrom DEF TellInv, FromHere, MoveKind
<1>2. Onward(TransferOf(x)) /\ Calm(x) /\ Refund(x)
  BY FamilyOf DEF AllOnward, Calm, Onward, RefundInv
<1>3. (GivenUp(x) => GivenUp(x)') /\ (Taken(x) >= 1 => Taken(x)' >= 1)
  BY <1>2, GivenUpOn
<1>4. CASE d # c
  <2>1. work'[d] = work[d] /\ Open(d) /\ GivingBack(d, x)
    BY <1>1, <1>2, <1>4 DEF Alone, Open, Refund
  <2>2. d = PayerOf(x) => moved'[x]["refund"] = moved[x]["refund"]
    <3> SUFFICES ASSUME d = PayerOf(x), CommittingTrx(c), moved'[x]["refund"] = moved[x]["refund"] + work[c].moved[x]["refund"]
                 PROVE  moved'[x]["refund"] = moved[x]["refund"]
      BY <1>1 DEF MovesHere
    <3>1. GivingBack(c, x)
      BY <1>2 DEF CommittingTrx, Open, Refund
    <3>2. work[c].moved[x]["refund"] = 0
      BY <1>4, <3>1 DEF GivingBack
    <3> QED
      BY <1>2, <3>2 DEF Refund
  <2> QED
    BY <1>3, <2>1, <2>2 DEF GivingBack, SaysTimedOut
<1>5. CASE d = c
  <2>1. ASSUME NEW b, Taking(c, b), SaysTimedOut(work'[c], x) => state[x] = "RESERVED_TIMEOUT" PROVE GivingBack(d, x)'
    <3>1. work'[c].moved[x]["refund"] = 0 /\ moved' = moved
      BY <1>1, <2>1 DEF Taking, RowsStay
    <3>2. SaysTimedOut(work'[c], x) => moved[x]["refund"] = 0
      BY <1>2, <2>1 DEF Refund, Over
    <3> QED
      BY <1>5, <3>1, <3>2 DEF GivingBack, SaysTimedOut
  <2>2. ASSUME NEW n, NEW v, Working(c, n, v), Writing(work[c], work'[c], n) PROVE GivingBack(d, x)'
    <3>1. /\ n \in work[c].batch /\ n \in work[c].todo /\ Open(c) /\ work'[c].todo = work[c].todo \ {n}
          /\ moved' = moved /\ Effect(work[c], v, n) /\ work'[c].moved = v.moved
      BY <2>2 DEF Working, Open, RowsStay
    <3>2. Sound(n) /\ work[c] \in Work /\ GivingBack(c, x)
      BY <1>1, <1>2, <3>1, Messages DEF Refund
    <3>3. SaysTimedOut(work'[c], x) => SaysTimedOut(work[c], x)
      BY <2>2 DEF Writing, Steady
    <3>4. SaysTimedOut(work'[c], x) /\ c = PayerOf(x) => moved'[x]["refund"] = 0
      BY <3>1, <3>2, <3>3 DEF GivingBack
    <3>5. CASE work'[c].moved[x]["refund"] = work[c].moved[x]["refund"]
      <4>1. work[c].moved[x]["refund"] # 0 => work'[c].rows[x] \in Over
        <5> SUFFICES ASSUME work[c].moved[x]["refund"] # 0 PROVE work'[c].rows[x] \in Over
          OBVIOUS
        <5>1. work[c].rows[x] \in Over /\ Taken(x) >= 1 /\ GivenUp(x)
          BY <3>2 DEF GivingBack
        <5>2. work'[c].rows[x] = work[c].rows[x] \/ Writes(n, x, work'[c].rows[x])
          BY <2>2 DEF Writing, Steady
        <5> QED
          BY <1>1, <1>2, <3>1, <5>1, <5>2, WritesOver
      <4>2. work'[c].moved[x]["refund"] \in {0, 1}
        BY <3>2, <3>5 DEF GivingBack
      <4>3. work'[c].moved[x]["refund"] # 0 =>
              /\ c = PayerOf(x) /\ moved'[x]["refund"] = 0
              /\ Taken(x)' >= 1 /\ work'[c].rows[x] \in Over /\ GivenUp(x)' /\ TimingOut(x) \notin work'[c].todo
        BY <1>3, <3>1, <3>2, <3>5, <4>1 DEF GivingBack
      <4> QED
        BY <1>5, <3>4, <4>2, <4>3 DEF GivingBack, SaysTimedOut
    <3>6. CASE work'[c].moved[x]["refund"] # work[c].moved[x]["refund"]
      <4>1. v.moved[x]["refund"] = work[c].moved[x]["refund"] + 1 /\ GivesTo(n, x)
        BY <3>1, <3>2, <3>6, RefundMoves
      <4>2. /\ c = PayerOf(x) /\ Taken(x) >= 1 /\ GivenUp(x)
            /\ work[c].moved[x]["refund"] = 0 /\ moved[x]["refund"] = 0
            /\ work'[c].rows[x] \in Over /\ TimingOut(x) \notin work'[c].todo
        BY <1>1, <1>2, <2>2, <4>1, GivingWorks
      <4>3. work'[c].moved[x]["refund"] = 1
        BY <3>1, <4>1, <4>2
      <4> QED
        BY <1>3, <1>5, <3>1, <4>2, <4>3 DEF GivingBack, SaysTimedOut
    <3> QED
      BY <3>5, <3>6
  <2>3. CASE CommittingOffset(c) /\ work'[c].rows = work[c].rows /\ \A y \in Id : ~SaysTimedOut(work'[c], y)
    <3>1. /\ work'[c].moved = work[c].moved /\ work'[c].todo = work[c].todo /\ moved' = moved
          /\ GivingBack(c, x)
      BY <1>2, <2>3 DEF CommittingOffset, SameBatch, RowsStay, Open, Refund
    <3> QED
      BY <1>3, <1>5, <2>3, <3>1 DEF GivingBack, SaysTimedOut
  <2>4. CASE GivingUp(c) \/ CommittingTrx(c) \/ Producing(c) \/ Crashing(c)
    <3>1. ~Open(c)'
      BY <2>4 DEF GivingUp, CommittingTrx, Producing, Crashing, Ending, Open
    <3> QED
      BY <1>5, <3>1
  <2> QED
    BY <2>1, <2>2, <2>3, <2>4 DEF Acts
<1> QED
  BY <1>4, <1>5

(* Nothing is given back of what nobody paid for.                           *)
LEMMA NothingGiven ==
  ASSUME BatchInv, TokenInv, RefundInv, NEW c \in Consumer, BatchActs(c), NEW x \in Id, DebitAccount[x] = NoAccount
  PROVE  moved'[x]["refund"] = 0 /\ \A d \in Consumer : work'[d].moved[x]["refund"] = 0
<1>1. MovesHere(c) /\ Alone(c) /\ "refund" \in MoveKind
  BY WhatMoves, WhereFrom DEF FromHere, MoveKind
<1>2. moved[x]["refund"] = 0 /\ \A d \in Consumer : work[d].moved[x]["refund"] = 0
  BY DEF RefundInv
<1>3. moved'[x]["refund"] = 0
  <2>1. CASE moved'[x]["refund"] = moved[x]["refund"]
    BY <1>2, <2>1
  <2>2. CASE moved'[x]["refund"] = moved[x]["refund"] + work[c].moved[x]["refund"]
    BY <1>2, <2>2
  <2> QED
    BY <1>1, <2>1, <2>2 DEF MovesHere
<1>4. work'[c].moved[x]["refund"] = 0
  <2>1. CASE Ending(c)
    BY <1>1, <2>1 DEF Ending
  <2>2. CASE work'[c].moved[x]["refund"] = work[c].moved[x]["refund"]
    BY <1>2, <2>2
  <2>3. ASSUME NEW n, NEW v, Working(c, n, v), work'[c].moved[x]["refund"] = v.moved[x]["refund"]
        PROVE  work'[c].moved[x]["refund"] = 0
    <3>1. n \in work[c].batch /\ Effect(work[c], v, n)
      BY <2>3 DEF Working
    <3>2. work[c] \in Work /\ Sound(n)
      BY <3>1, Messages
    <3>3. v.moved[x]["refund"] = work[c].moved[x]["refund"]
      BY <3>1, <3>2, RefundMoves DEF GivesTo
    <3> QED
      BY <1>2, <2>3, <3>3
  <2> QED
    BY <1>1, <2>1, <2>2, <2>3 DEF MovesHere
<1>5. \A d \in Consumer : d # c => work'[d].moved[x]["refund"] = 0
  BY <1>1, <1>2 DEF Alone
<1> QED
  BY <1>3, <1>4, <1>5

(* What is given back when a transaction is committed.                      *)
LEMMA GivenByCommit ==
  ASSUME BatchInv, TokenInv, RefundInv, NEW c \in Consumer, BatchActs(c), NEW x \in Id,
         DebitAccount[x] # NoAccount, Calm(x)
  PROVE  /\ moved'[x]["refund"] \in {0, 1}
         /\ \/ moved'[x]["refund"] = moved[x]["refund"]
            \/ /\ CommittingTrx(c) /\ Open(c) /\ GivingBack(c, x)
               /\ work[c].moved[x]["refund"] = 1 /\ moved[x]["refund"] = 0
<1>1. MovesHere(c) /\ "refund" \in MoveKind /\ Refund(x)
  BY WhatMoves DEF MoveKind, RefundInv
<1>2. CASE moved'[x]["refund"] = moved[x]["refund"]
  BY <1>1, <1>2 DEF Refund
<1>3. CASE CommittingTrx(c) /\ moved'[x]["refund"] = moved[x]["refund"] + work[c].moved[x]["refund"]
  <2>1. Open(c) /\ GivingBack(c, x)
    BY <1>1, <1>3 DEF CommittingTrx, Open, Refund
  <2>2. CASE work[c].moved[x]["refund"] = 0
    BY <1>1, <1>3, <2>2 DEF Refund
  <2>3. CASE work[c].moved[x]["refund"] # 0
    <3>1. work[c].moved[x]["refund"] = 1 /\ moved[x]["refund"] = 0
      BY <2>1, <2>3 DEF GivingBack
    <3> QED
      BY <1>3, <2>1, <3>1
  <2> QED
    BY <2>2, <2>3
<1> QED
  BY <1>1, <1>2, <1>3 DEF MovesHere

(* The states of what was given back stay the last.                         *)
LEMMA OverByBatch ==
  ASSUME BatchInv, TokenInv, DebitInv, CourseInv, WrittenInv, RefundInv, NEW c \in Consumer, Acts(c),
         NEW x \in Id, DebitAccount[x] # NoAccount, Calm(x), moved'[x]["refund"] # 0
  PROVE  Taken(x) >= 1 /\ GivenUp(x) /\ state'[x] \in Over
<1>1. Refund(x) /\ BatchActs(c)
  BY ActsAct DEF RefundInv
<1>2. (Open(c) /\ CommittingTrx(c) /\ state' = InsertedStates(work[c])) \/ state' = state
  BY DEF Acts, CommittingTrx, Open
<1>3. state' = InsertedStates(work[c]) => state'[x] = IF work[c].rows[x] = "none" THEN state[x] ELSE work[c].rows[x]
  BY DEF InsertedStates
<1>4. CASE moved[x]["refund"] # 0
  <2>1. Taken(x) >= 1 /\ GivenUp(x) /\ state[x] \in Over
    BY <1>1, <1>4 DEF Refund
  <2>2. Open(c) => work[c].rows[x] \in {"none"} \union Over
    <3> SUFFICES ASSUME Open(c) PROVE work[c].rows[x] \in {"none"} \union Over
      OBVIOUS
    <3>1. Written(c, x)
      BY DEF WrittenInv
    <3> QED
      BY <2>1, <3>1, RowsStayOver
  <2> QED
    BY <1>2, <1>3, <2>1, <2>2
<1>5. CASE moved[x]["refund"] = 0
  <2>1. CommittingTrx(c) /\ GivingBack(c, x) /\ work[c].moved[x]["refund"] # 0
    BY <1>1, <1>5, GivenByCommit
  <2>2. Taken(x) >= 1 /\ GivenUp(x) /\ work[c].rows[x] \in Over
    BY <2>1 DEF GivingBack
  <2>3. state' = InsertedStates(work[c])
    BY <2>1 DEF Acts, CommittingTrx, Taking, GivingUp, Working, CommittingOffset, Producing, Crashing, Ending, RowsStay
  <2> QED
    BY <1>3, <2>2, <2>3 DEF Over
<1> QED
  BY <1>4, <1>5

(* The transfer that is given back follows its conversion.                  *)
LEMMA FirstByBatch ==
  ASSUME TellInv, BatchInv', CourseInv, WrittenInv, RefundInv, NEW c \in Consumer, Acts(c),
         NEW x \in Id, DebitAccount[x] # NoAccount, Calm(x), Fails(TransferOf(x))', IsSecond(x),
         moved'[x]["refund"] # 0, NEW y \in ConversionsOf(x)
  PROVE  moved'[y]["refund"] # 0
<1>1. /\ BatchInv /\ TokenInv /\ ToldInv /\ BatchActs(c) /\ Refund(x) /\ "refund" \in MoveKind
      /\ TransferOf(x) \in Transfer
  BY ActsAct, FamilyOf DEF TellInv, RefundInv, MoveKind
<1>2. Fails(TransferOf(x))
  BY <1>1, FailsBefore DEF Calm
<1>3. y \in Id /\ DebitAccount[y] # NoAccount
  BY TheConversion, DeterminedBy DEF IsSecond
<1>4. moved'[y]["refund"] >= moved[y]["refund"] /\ moved[y]["refund"] \in Nat /\ moved'[y]["refund"] \in Nat
  <2>1. moved \in Rows /\ moved' \in Rows
    BY <1>1, RowsOfType, RowsOfNext
  <2> QED
    BY <1>1, <1>3, <2>1, RowsGrow DEF Rows
<1>5. moved[y]["refund"] # 0
  <2>1. CASE moved[x]["refund"] # 0
    BY <1>1, <1>2, <2>1 DEF Refund
  <2>2. CASE moved[x]["refund"] = 0
    <3>1. Open(c) /\ work[c].moved[x]["refund"] = 1
      BY <1>1, <2>2, GivenByCommit
    <3>2. PICK m : m = Aborting(x)
      OBVIOUS
    <3>3. m \in work[c].batch
      BY <1>1, <1>2, <3>1, <3>2 DEF Refund, Once
    <3>4. FirstIn(m, moved)
      BY <1>1, <3>3 DEF ToldInv
    <3>5. m.action \in Aborts /\ m.done = 1 /\ m.plan[1] = y
      BY <3>2, AbortingIs DEF Aborts
    <3> QED
      BY <1>3, <3>4, <3>5 DEF FirstIn, GivenIn
  <2> QED
    BY <2>1, <2>2
<1> QED
  BY <1>4, <1>5

LEMMA RefundByBatch ==
  ASSUME TellInv, BatchInv', PlacedInv, CourseInv, WrittenInv, RefundInv, AllOnward, NEW c \in Consumer, Acts(c),
         RequestsStay
  PROVE  RefundInv'
<1>1. BatchInv /\ TokenInv /\ DebitInv /\ BatchActs(c)
  BY ActsAct DEF TellInv
<1>2. \A x \in Id : DebitAccount[x] = NoAccount =>
        moved'[x]["refund"] = 0 /\ \A d \in Consumer : work'[d].moved[x]["refund"] = 0
  BY <1>1, NothingGiven
<1>3. ASSUME NEW x \in Id, DebitAccount[x] # NoAccount, Calm(x)' PROVE Refund(x)'
  <2>1. TransferOf(x) \in Transfer /\ Undisturbed(TransferOf(x))'
    BY <1>3, FamilyOf DEF Calm
  <2>2. Onward(TransferOf(x)) /\ Calm(x)
    BY <2>1 DEF AllOnward, Calm, Onward
  <2>3. moved'[x]["refund"] \in {0, 1}
    BY <1>1, <1>3, <2>2, GivenByCommit
  <2>4. moved'[x]["refund"] # 0 => Taken(x)' >= 1 /\ state'[x] \in Over /\ GivenUp(x)'
    <3> SUFFICES ASSUME moved'[x]["refund"] # 0 PROVE Taken(x)' >= 1 /\ state'[x] \in Over /\ GivenUp(x)'
      OBVIOUS
    <3>1. Taken(x) >= 1 /\ GivenUp(x) /\ state'[x] \in Over
      BY <1>1, <1>3, <2>2, OverByBatch
    <3> QED
      BY <2>2, <3>1, GivenUpOn
  <2>5. \A d \in Consumer : Open(d)' => GivingBack(d, x)'
    BY <1>3, GivingByBatch
  <2>6. Fails(TransferOf(x))' => Once(Aborting(x), x, "refund")'
    <3> SUFFICES ASSUME Fails(TransferOf(x))' PROVE Once(Aborting(x), x, "refund")'
      OBVIOUS
    <3>1. Fails(TransferOf(x))
      BY <1>1, <2>1, <2>2, FailsBefore DEF Calm
    <3>2. PICK m : m = Aborting(x)
      OBVIOUS
    <3>3. Stays(m, x, "refund")
      BY <1>1, <1>3, <2>2, <3>1, <3>2, ReturnStays DEF IsReturn
    <3> QED
      BY <3>2, <3>3 DEF Stays
  <2>7. x \in Conversion /\ Refused(x)' => Once(Refusing(x), x, "refund")'
    <3> SUFFICES ASSUME x \in Conversion, Refused(x)' PROVE Once(Refusing(x), x, "refund")'
      OBVIOUS
    <3>1. Refused(x)
      BY DEF RequestsStay, Refused
    <3>2. PICK m : m = Refusing(x)
      OBVIOUS
    <3>3. Stays(m, x, "refund")
      BY <1>1, <1>3, <2>2, <3>1, <3>2, ReturnStays DEF IsReturn
    <3> QED
      BY <3>2, <3>3 DEF Stays
  <2>8. Fails(TransferOf(x))' /\ IsSecond(x) /\ moved'[x]["refund"] # 0 =>
          \A y \in ConversionsOf(x) : moved'[y]["refund"] # 0
    BY <1>3, <2>2, FirstByBatch
  <2> QED
    BY <2>3, <2>4, <2>5, <2>6, <2>7, <2>8 DEF Refund
<1> QED
  BY <1>2, <1>3 DEF RefundInv

(***************************************************************************)
(* The invariant of who gets the funds.                                     *)
(***************************************************************************)
LEMMA SideInvInit == Init => SideInv
<1> SUFFICES ASSUME Init PROVE SideInv
  OBVIOUS
<1>1. /\ pending = {} /\ unacked = [c \in Consumer |-> {}] /\ work = [c \in Consumer |-> Idle]
      /\ moved = [x \in Id |-> NoMoves] /\ state = [x \in Id |-> "none"]
      /\ answers = [x \in Id |-> {}] /\ timeoutRow = [x \in Id |-> {}]
  BY DEF Init, BatchInit, NoStates
<1>2. \A c \in Consumer : /\ unacked[c] = {} /\ work[c].batch = {} /\ work[c].followUps = {} /\ ~Open(c)
                          /\ \A x \in Id : \A k \in MoveKind : work[c].moved[x][k] = 0
  BY <1>1 DEF Idle, Open, NoMoves
<1>3. \A x \in Id : \A k \in MoveKind : moved[x][k] = 0
  BY <1>1 DEF NoMoves
<1>4. PlacedInv
  BY <1>1, <1>2 DEF PlacedInv
<1>5. \A t \in Transfer : t \in Id /\ Out(t) /\ ~Fulfils(t) /\ ~Fails(t)
  BY <1>1, FamilyOf DEF Out, Fulfils, Fails
<1>6. CourseInv
  <2>1. \A x \in Id : timeoutRow[x] = {}
    BY <1>1
  <2>2. ASSUME NEW t \in Transfer PROVE Course(t)
    <3>1. ~Coming(Asking(t))
      <4>1. HandlerOf(Asking(t)) \in Consumer
        BY <1>5, AskingIs
      <4> QED
        BY <1>1, <1>2, <4>1 DEF Coming
    <3>2. \A c \in ConversionsOf(t) : c \in Id
      BY FamilyOf DEF Family
    <3>3. Taken(t) = 0
      BY <1>3, <1>5 DEF Taken, MoveKind
    <3> QED
      BY <1>5, <2>1, <3>1, <3>2, <3>3 DEF Course
  <2>3. \A c \in Conversion : state[c] # "RECEIVED_FULFIL_DEPENDENT"
    BY <1>1, DeterminedBy
  <2> QED
    BY <2>1, <2>2, <2>3 DEF CourseInv
<1>7. WrittenInv
  BY <1>2 DEF WrittenInv
<1>8. PaidInv
  BY <1>2, <1>3 DEF PaidInv, MoveKind
<1>9. RefundInv
  <2>1. \A x \in Id : ~Fails(TransferOf(x)) /\ ~Refused(x)
    BY <1>1, <1>5, FamilyOf DEF Refused
  <2>2. \A x \in Id : Refund(x)
    BY <1>2, <1>3, <2>1 DEF Refund, MoveKind
  <2> QED
    BY <1>2, <1>3, <2>2 DEF RefundInv, MoveKind
<1> QED
  BY <1>4, <1>6, <1>7, <1>8, <1>9, TellInvInit DEF SideInv

(* A step is a request or one of a consumer.                                *)
LEMMA StepsTurn ==
  ASSUME BatchInv, BatchInv', DebitInv, CourseInv, [Next]_vars
  PROVE  Requested \/ \E c \in Consumer : Acts(c) /\ RequestsStay
<1>1. CASE UNCHANGED vars
  BY <1>1, NothingTurns
<1>2. ASSUME NEW c \in Conversion, RequestConversion(c) \/ AcceptConversion(c) \/ RefuseConversion(c) PROVE Requested
  <2>1. CASE RequestConversion(c)
    BY <2>1, RequestConversionTurns
  <2>2. CASE AcceptConversion(c)
    BY <2>2, AcceptConversionTurns
  <2>3. CASE RefuseConversion(c)
    BY <2>3, RefuseConversionTurns
  <2> QED
    BY <1>2, <2>1, <2>2, <2>3
<1>3. ASSUME NEW t \in Transfer, RequestTransfer(t) \/ AcceptTransfer(t) \/ RefuseTransfer(t) PROVE Requested
  <2>1. CASE RequestTransfer(t)
    BY <2>1, RequestTransferTurns
  <2>2. CASE AcceptTransfer(t)
    BY <2>2, AcceptTransferTurns
  <2>3. CASE RefuseTransfer(t)
    BY <2>3, RefuseTransferTurns
  <2> QED
    BY <1>3, <2>1, <2>2, <2>3
<1>4. ASSUME NEW x \in Id, Expire(x) PROVE Requested
  BY <1>4, ExpireTurns
<1>5. ASSUME Sweep PROVE Requested
  BY <1>5, SweepTurns
<1>6. ASSUME NEW c \in Consumer,
             Poll(c) \/ Item(c) \/ CommitOffset(c) \/ CommitTrx(c) \/ Produce(c) \/ CrashBatch(c)
      PROVE  Acts(c)
  BY <1>6, BatchActsMore
<1> QED
  BY <1>1, <1>2, <1>3, <1>4, <1>5, <1>6, Steps

LEMMA SideInvNext == SideInv /\ [Next]_vars => SideInv'
<1> SUFFICES ASSUME SideInv, [Next]_vars PROVE SideInv'
  OBVIOUS
<1>1. TellInv /\ PlacedInv /\ CourseInv /\ WrittenInv /\ PaidInv /\ RefundInv
  BY DEF SideInv
<1>2. TellInv'
  BY <1>1, TellInvNext
<1>3. BatchInv /\ BatchInv' /\ TokenInv /\ DebitInv
  BY <1>1, <1>2 DEF TellInv
<1>4. CASE Requested
  <2>1. AllOnward
    BY <1>1, <1>3, <1>4, OnwardAll
  <2>2. CourseInv'
    BY <1>1, <1>3, <1>4, <2>1, CourseByRequest
  <2>3. PlacedInv' /\ WrittenInv' /\ PaidInv'
    BY <1>1, <1>3, <1>4, <2>1, PlacedByRequest, WrittenByRequest, PaidByRequest
  <2>4. RefundInv'
    BY <1>1, <1>3, <1>4, <2>1, <2>2, RefundByRequest
  <2> QED
    BY <1>2, <2>2, <2>3, <2>4 DEF SideInv
<1>5. ASSUME NEW c \in Consumer, Acts(c), RequestsStay PROVE SideInv'
  <2>1. AllOnward
    BY <1>1, <1>3, <1>5, OnwardAll
  <2>2. CourseInv'
    BY <1>1, <1>5, <2>1, CourseByBatch
  <2>3. PlacedInv'
    BY <1>1, <1>3, <1>5, <2>1, PlacedByBatch
  <2>4. WrittenInv'
    BY <1>1, <1>3, <1>5, <2>1, WrittenByBatch
  <2>5. PaidInv'
    BY <1>1, <1>3, <1>5, <2>1, PaidByBatch
  <2>6. RefundInv'
    BY <1>1, <1>3, <1>5, <2>1, RefundByBatch
  <2> QED
    BY <1>2, <2>2, <2>3, <2>4, <2>5, <2>6 DEF SideInv
<1> QED
  BY <1>1, <1>3, <1>4, <1>5, StepsTurn

(* Whatever is lost, read again or rolled back, and in whatever order the   *)
(* answers, the timeout job and the batches take their turns: of a payment  *)
(* whose FX provider stands by its answer, what was reserved was reserved   *)
(* once, and is paid or given back, never both and never twice.             *)
THEOREM FundsGoToOneSide == Spec => []MovedOnce
<1>1. SideInv => MovedOnce
  <2> SUFFICES ASSUME SideInv, NEW t \in Transfer, Undisturbed(t), NEW x \in {t} \union ConversionsOf(t)
               PROVE  Taken(x) <= 1 /\ Paid(x) + Returned(x) <= Taken(x)
    BY DEF MovedOnce
  <2>1. BatchInv /\ DebitInv /\ CreditInv /\ CourseInv /\ PaidInv /\ RefundInv
    BY DEF SideInv, TellInv
  <2>2. /\ x \in Id /\ TransferOf(x) = t /\ t \in Id /\ x \in Family(t) /\ Calm(x) /\ Course(t)
        /\ (x \in Transfer => x = t) /\ (x # t => x \in ConversionsOf(t))
    BY <2>1, FamilyOf DEF Family, Calm, CourseInv
  <2>3. Taken(x) \in {0, 1}
    BY <2>1, <2>2 DEF DebitInv, Once, Taken
  <2>4. Paid(x) \in {0, 1} /\ (Paid(x) # 0 => IsPaid(x) /\ Fulfils(t))
    <3>1. IsPaid(x) => Paid(x) \in {0, 1}
      BY <2>1, <2>2 DEF CreditInv, Once, Paid
    <3>2. ~IsPaid(x) => Paid(x) = 0
      BY <2>1, <2>2 DEF PaidInv, Paid
    <3>3. Paid(x) # 0 => Fulfils(t)
      BY <2>1, <2>2 DEF PaidInv, Paid
    <3> QED
      BY <3>1, <3>2, <3>3
  <2>5. Returned(x) \in {0, 1} /\ (Returned(x) # 0 => Taken(x) >= 1 /\ GivenUp(x))
    BY <2>1, <2>2 DEF RefundInv, Refund, Returned
  <2>6. ~(Paid(x) # 0 /\ Returned(x) # 0)
    BY <2>1, <2>2, <2>4, <2>5, Apart
  <2>7. Paid(x) # 0 => Taken(x) >= 1
    <3> SUFFICES ASSUME IsPaid(x), Fulfils(t) PROVE Taken(x) >= 1
      BY <2>4
    <3>1. CASE x = t
      BY <2>2, <3>1, ProxyAssumption DEF IsPaid, Course
    <3>2. CASE x # t
      <4>1. Fits(t, state[t]) /\ x \in ConversionsOf(t)
        BY <2>1, <2>2, <3>2 DEF BatchInv
      <4> QED
        BY <4>1 DEF Fits, Fulfils, Backed, Taken
    <3> QED
      BY <3>1, <3>2
  <2> QED
    BY <2>3, <2>4, <2>5, <2>6, <2>7
<1> QED
  BY <1>1, SideInvInit, SideInvNext, PTL DEF Spec

(***************************************************************************)
(* What is stored: in the database, and by the transactions to come.        *)
(***************************************************************************)
StoredInv == TellsTrue(Said(state), moved) /\ \A d \in Consumer : TellsTrue(Said(work[d].rows), RowsOf(d))

LEMMA NothingSaid ==
  ASSUME NEW states, NEW rows, \A x \in Id : states[x] = "none"
  PROVE  TellsTrue(Said(states), rows)
<1>1. \A x \in Id : Said(states)[x] = {}
  BY DEF Said, Meaning
<1> QED
  BY <1>1, NothingTold

LEMMA StoredInit == Init => StoredInv
<1> SUFFICES ASSUME Init PROVE StoredInv
  OBVIOUS
<1>1. \A x \in Id : state[x] = "none" /\ \A d \in Consumer : work[d].rows[x] = "none"
  BY DEF Init, BatchInit, Idle, NoStates
<1> QED
  BY <1>1, NothingSaid DEF StoredInv

LEMMA StoredByRequest ==
  ASSUME StoredInv, BatchInv, Requested
  PROVE  StoredInv'
<1>1. moved' = moved /\ work' = work /\ \A x \in Id : Turns(x)
  BY DEF Requested, HandlersStay
<1>2. \A x \in Id : Said(state')[x] \subseteq Said(state)[x]
  BY <1>1 DEF Turns, Said, Meaning
<1>3. moved \in Rows /\ \A x \in Id : \A k \in MoveKind : moved[x][k] >= moved[x][k]
  BY DEF BatchInv, TypeOK, BatchTypeOK, Rows
<1>4. TellsTrue(Said(state'), moved)
  BY <1>2, <1>3, TellsMore DEF StoredInv
<1>5. \A d \in Consumer : RowsOf(d)' = RowsOf(d)
  BY <1>1 DEF RowsOf, Open, InsertedMoves
<1> QED
  BY <1>1, <1>4, <1>5 DEF StoredInv

(* The states of a batch are stored with its movements.                     *)
LEMMA StoredByBatch ==
  ASSUME TellInv, BatchInv', StoredInv, NEW c \in Consumer, Acts(c)
  PROVE  StoredInv'
<1>1. /\ BatchInv /\ TokenInv /\ CreditInv /\ ToldInv /\ BatchActs(c) /\ FromHere(c)
      /\ moved \in Rows /\ moved' \in Rows
      /\ \A d \in Consumer : RowsOf(d) \in Rows /\ RowsOf(d)' \in Rows
  BY ActsAct, WhereFrom, RowsOfType, RowsOfNext DEF TellInv
<1>2. /\ \A x \in Id : \A k \in MoveKind : moved'[x][k] >= moved[x][k]
      /\ \A d \in Consumer : Grows(d) \/ (d = c /\ Ending(c))
  BY <1>1, RowsGrow
<1>3. TellsTrue(Said(state), moved')
  <2>1. TellsTrue(Said(state), moved)
    BY DEF StoredInv
  <2> QED
    BY <1>1, <1>2, <2>1, TellsMore
<1>4. TellsTrue(Said(state'), moved')
  <2>1. CASE state' = state
    BY <1>3, <2>1
  <2>2. CASE CommittingTrx(c) /\ state' = InsertedStates(work[c])
    <3>1. moved' = RowsOf(c)
      BY <2>2 DEF CommittingTrx, RowsOf, Open
    <3>2. TellsTrue(Said(work[c].rows), moved')
      BY <3>1 DEF StoredInv
    <3>3. \A x \in Id : Said(state')[x] \subseteq Said(state)[x] \union Said(work[c].rows)[x]
      BY <2>2 DEF InsertedStates, Said
    <3> QED
      BY <1>3, <3>2, <3>3, TellsAlso
  <2> QED
    BY <2>1, <2>2 DEF Acts
<1>5. ASSUME NEW d \in Consumer, work'[d].rows = work[d].rows, Grows(d)
      PROVE  TellsTrue(Said(work'[d].rows), RowsOf(d)')
  <2> DEFINE told == Said(work[d].rows)
             rows == RowsOf(d)
             more == RowsOf(d)'
  <2>1. TellsTrue(told, rows) /\ rows \in Rows /\ more \in Rows
    BY <1>1 DEF StoredInv
  <2>2. \A x \in Id : \A k \in MoveKind : more[x][k] >= rows[x][k]
    BY <1>5 DEF Grows
  <2> HIDE DEF told, rows, more
  <2>3. TellsTrue(told, more)
    BY <2>1, <2>2, TellsMore
  <2> QED
    BY <1>5, <2>3 DEF told, more
<1>6. TellsTrue(Said(work'[c].rows), RowsOf(c)')
  <2>1. \/ \A x \in Id : work'[c].rows[x] = "none"
        \/ Grows(c) /\ work'[c].rows = work[c].rows
        \/ \E n, v : Working(c, n, v)
    BY <1>2 DEF Acts, GivingUp, CommittingTrx, SameBatch, Producing, Crashing, Ending
  <2>2. CASE \A x \in Id : work'[c].rows[x] = "none"
    BY <2>2, NothingSaid
  <2>3. CASE Grows(c) /\ work'[c].rows = work[c].rows
    BY <1>5, <2>3
  <2>4. ASSUME NEW n, NEW v, Working(c, n, v) PROVE TellsTrue(Said(work'[c].rows), RowsOf(c)')
    BY <1>1, <2>4, WorkTells DEF StoredInv
  <2> QED
    BY <2>1, <2>2, <2>3, <2>4
<1>7. ASSUME NEW d \in Consumer, d # c PROVE TellsTrue(Said(work'[d].rows), RowsOf(d)')
  <2>1. work'[d] = work[d] /\ Grows(d)
    BY <1>1, <1>2, <1>7 DEF FromHere, Alone
  <2> QED
    BY <1>5, <2>1
<1> QED
  BY <1>4, <1>6, <1>7 DEF StoredInv

(* The state that is stored, and that a GET answers with, never speaks of   *)
(* movements that have not been made, whatever is rolled back, read again   *)
(* or lost: those of the conversion, which another transaction made, too.   *)
THEOREM StoredOnlyWhatIsDone == Spec => []StoredIsDone
<1>1. Init => SideInv /\ StoredInv
  BY SideInvInit, StoredInit
<1>2. SideInv /\ StoredInv /\ [Next]_vars => (SideInv /\ StoredInv)'
  <2> SUFFICES ASSUME SideInv, StoredInv, [Next]_vars PROVE SideInv' /\ StoredInv'
    OBVIOUS
  <2>1. SideInv'
    BY SideInvNext
  <2>2. TellInv /\ BatchInv /\ DebitInv /\ CourseInv /\ BatchInv'
    BY <2>1 DEF SideInv, TellInv
  <2> QED
    BY <2>1, <2>2, StepsTurn, StoredByRequest, StoredByBatch
<1>3. SideInv /\ StoredInv => StoredIsDone
  <2> SUFFICES ASSUME SideInv, StoredInv, NEW t \in Transfer, NEW x \in {t} \union ConversionsOf(t)
               PROVE  /\ state[t] = "COMMITTED" /\ CreditAccount[x] # NoAccount => Paid(x) = 1
                      /\ x \in Conversion /\ state[x] = "COMMITTED" => Paid(x) = 1
                      /\ state[t] = "ABORTED_ERROR" => Returned(x) >= Taken(x)
                      /\ state[x] \in {"ABORTED_ERROR", "EXPIRED_RESERVED"} => Returned(x) >= Taken(x)
    BY DEF StoredIsDone
  <2> DEFINE told == Said(state)
  <2>1. TellInv /\ TellsTrue(told, moved) /\ t \in Id /\ x \in Id
    BY DEF SideInv, StoredInv, Id, ConversionsOf
  <2>2. \A y \in Id : told[y] = Meaning(state[y])
    BY DEF Said
  <2> HIDE DEF told
  <2>3. /\ "committed" \in told[t] /\ CreditAccount[x] # NoAccount => Paid(x) = 1
        /\ x \in Conversion /\ "committed" \in told[x] => Paid(x) = 1
        /\ "aborted" \in told[t] => Returned(x) >= Taken(x)
        /\ {"aborted", "timedOut"} \intersect told[x] # {} => Returned(x) >= Taken(x)
    BY <2>1, WhatIsTrue
  <2> QED
    BY <2>1, <2>2, <2>3 DEF Meaning
<1> QED
  BY <1>1, <1>2, <1>3, PTL DEF Spec

=============================================================================
