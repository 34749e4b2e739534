-------------------------- MODULE TimeoutJob_proofs --------------------------
(***************************************************************************)
(* The timeout job for every number of processes, transfers and faults.    *)
(***************************************************************************)
EXTENDS TimeoutJob, FiniteSetTheorems, SequenceTheorems, TLAPS

(***************************************************************************)
(* Sets and sequences.                                                     *)
(***************************************************************************)

(* A set of numbers with a bound has a largest one.                         *)
LEMMA Largest ==
  ASSUME NEW S \in SUBSET Nat, NEW n \in Nat, S # {}, \A y \in S : y <= n
  PROVE  Max(S) \in S /\ \A y \in S : y <= Max(S)
<1> DEFINE T == {m \in Nat : n - m \in S}
<1>1. T \subseteq Nat /\ T # {}
  <2>1. PICK y \in S : TRUE
    OBVIOUS
  <2>2. n - y \in Nat /\ n - (n - y) = y
    BY <2>1
  <2> QED
    BY <2>1, <2>2
<1>2. PICK x \in T : \A y \in T : ~(<<y, x>> \in OpToRel(<, Nat))
  BY <1>1, NatLessThanWellFounded, WFMin, Zenon
<1>3. \A y \in T : ~(y < x)
  BY <1>1, <1>2 DEF OpToRel
<1>4. \A y \in S : n - y \in T
  OBVIOUS
<1>5. \A y \in S : y <= n - x
  <2> TAKE y \in S
  <2>1. ~(n - y < x)
    BY <1>3, <1>4
  <2> QED
    BY <2>1
<1>6. n - x \in S
  OBVIOUS
<1>7. \E z \in S : \A y \in S : z >= y
  BY <1>5, <1>6
<1>8. Max(S) \in S /\ \A y \in S : Max(S) >= y
  BY <1>7 DEF Max
<1> QED
  BY <1>8

(* What a sequence can name is finite.                                      *)
LEMMA NamedFinite ==
  ASSUME NEW n \in Nat, NEW f, NEW S, \A x \in S : \E i \in 1..n : f[i] = x
  PROVE  IsFiniteSet(S)
<1>1. CASE S = {}
  BY <1>1, FS_EmptySet
<1>2. CASE S # {}
  <2>1. PICK s \in S : TRUE
    BY <1>2
  <2> DEFINE g == [i \in 1..n |-> IF f[i] \in S THEN f[i] ELSE s]
  <2>2. g \in Surjection(1..n, S)
    BY <2>1 DEF Surjection
  <2> QED
    BY <2>2, FS_NatSurjection DEF ExistsSurjection
<1> QED
  BY <1>1, <1>2

(* A finite set can be put in an order.                                     *)
LEMMA Enumerable ==
  ASSUME NEW S, IsFiniteSet(S)
  PROVE  /\ Cardinality(S) \in Nat
         /\ \E f \in [1..Cardinality(S) -> S] : \A x \in S : \E i \in DOMAIN f : f[i] = x
<1>1. Cardinality(S) \in Nat /\ ExistsBijection(1..Cardinality(S), S)
  BY FS_CardinalityType
<1>2. PICK f : f \in Bijection(1..Cardinality(S), S)
  BY <1>1 DEF ExistsBijection
<1>3. f \in [1..Cardinality(S) -> S] /\ \A x \in S : \E i \in DOMAIN f : f[i] = x
  BY <1>2 DEF Bijection, Injection, Surjection
<1> QED
  BY <1>1, <1>3

(***************************************************************************)
(* The tables.                                                             *)
(***************************************************************************)

(* What the variables are, but for how far the attempts may go.             *)
Shape ==
  /\ rows \in [Table -> Seq(Row)]
  /\ \A tab \in Table : \A i \in DOMAIN rows[tab] : TableOf(rows[tab][i].id) = tab
  /\ expired \subseteq Id
  /\ segment \in [Table -> Nat] /\ \A tab \in Table : segment[tab] <= Len(rows[tab])
  /\ timeoutRow \subseteq Id /\ IsFiniteSet(timeoutRow)
  /\ DOMAIN attempts \subseteq Id /\ attempts \in [DOMAIN attempts -> Nat]
  /\ lock \in Process \union {NoOne}
  /\ run \in [Process -> Run]
  /\ \A p \in Process : \A tab \in Table : run[p].from[tab] <= Len(rows[tab]) /\ run[p].to[tab] <= Len(rows[tab])
  /\ sent \in [Id -> Nat] /\ asked \in [Id -> Nat]
  /\ faults \in [Fault -> Nat] /\ FaultCount <= MaxFaults

LEMMA TableFacts ==
  ASSUME Shape, NEW tab \in Table
  PROVE  /\ Len(rows[tab]) \in Nat
         /\ DOMAIN rows[tab] = 1..Len(rows[tab])
         /\ rows[tab] \in Seq(Row)
         /\ \A i \in 1..Len(rows[tab]) : rows[tab][i] \in Row
<1>1. rows[tab] \in Seq(Row)
  BY DEF Shape
<1> QED
  BY <1>1, LenProperties, ElementOfSeq

LEMMA TableOfId ==
  ASSUME NEW x \in Id
  PROVE  TableOf(x) \in Table /\ x \in IdsOf(TableOf(x))
BY DEF Id, TableOf, Table, IdsOf

LEMMA IdsOfTable ==
  ASSUME NEW tab \in Table, NEW x \in IdsOf(tab)
  PROVE  x \in Id /\ TableOf(x) = tab
BY JobAssumption DEF Id, TableOf, Table, IdsOf

(* The committed rows of an id have a latest one, which has its state.      *)
LEMMA LatestRow ==
  ASSUME Shape, NEW x \in Id, NEW is \in SUBSET Of(x), is # {}
  PROVE  /\ Max(is) \in is
         /\ Max(is) \in 1..Len(rows[TableOf(x)])
         /\ \A i \in is : i <= Max(is)
         /\ Latest(x, is) = rows[TableOf(x)][Max(is)].state
         /\ Latest(x, is) \in State
<1> DEFINE n == Len(rows[TableOf(x)])
<1>1. /\ n \in Nat
      /\ DOMAIN rows[TableOf(x)] = 1..n
      /\ \A i \in 1..n : rows[TableOf(x)][i] \in Row
  BY TableFacts, TableOfId
<1>2. is \subseteq 1..n
  BY <1>1 DEF Of
<1>3. is \in SUBSET Nat /\ \A i \in is : i <= n
  BY <1>1, <1>2
<1> HIDE DEF n
<1>4. Max(is) \in is /\ \A i \in is : i <= Max(is)
  BY <1>1, <1>3, Largest
<1> USE DEF n
<1>5. Max(is) \in 1..n
  BY <1>2, <1>4
<1>6. Latest(x, is) = rows[TableOf(x)][Max(is)].state
  BY DEF Latest
<1>7. rows[TableOf(x)][Max(is)] \in Row
  BY <1>1, <1>5
<1> QED
  BY <1>4, <1>5, <1>6, <1>7 DEF Row

LEMMA LatestType ==
  ASSUME Shape, NEW x \in Id, NEW is \in SUBSET Of(x)
  PROVE  Latest(x, is) \in State \union {"none"}
<1>1. CASE is = {}
  BY <1>1 DEF Latest
<1>2. CASE is # {}
  BY <1>2, LatestRow
<1> QED
  BY <1>1, <1>2

LEMMA NoneIsNoState == "none" \notin State
BY DEF State

LEMMA LatestCommittedType ==
  ASSUME Shape, NEW tab \in Table
  PROVE  /\ LatestCommitted(tab) \in 0..Len(rows[tab])
         /\ \A i \in DOMAIN rows[tab] : rows[tab][i].committed => i <= LatestCommitted(tab)
<1> DEFINE S == {0} \union {i \in DOMAIN rows[tab] : rows[tab][i].committed}
<1>1. Len(rows[tab]) \in Nat /\ DOMAIN rows[tab] = 1..Len(rows[tab])
  BY TableFacts
<1>2. S \in SUBSET Nat /\ S # {} /\ \A y \in S : y <= Len(rows[tab])
  BY <1>1
<1> HIDE DEF S
<1>3. Max(S) \in S /\ \A y \in S : y <= Max(S)
  BY <1>1, <1>2, Largest
<1>4. Max(S) \in 0..Len(rows[tab])
  <2>1. Max(S) \in Nat /\ Max(S) <= Len(rows[tab])
    BY <1>2, <1>3, Zenon
  <2> QED
    BY <1>1, <2>1
<1>5. LatestCommitted(tab) = Max(S)
  BY DEF LatestCommitted, S
<1> QED
  BY <1>3, <1>4, <1>5 DEF S

(* What a run finds is named by the rows, so it is finite.                  *)
LEMMA FoundFinite ==
  ASSUME Shape, NEW p \in Process, NEW states, "none" \notin states
  PROVE  IsFiniteSet(Found(p, states)) /\ Found(p, states) \subseteq Id
<1> DEFINE F(tab) == {x \in Found(p, states) : TableOf(x) = tab}
<1>1. ASSUME NEW tab \in Table
      PROVE  IsFiniteSet(F(tab))
  <2> DEFINE f == [i \in 1..Len(rows[tab]) |-> rows[tab][i].id]
  <2>1. Len(rows[tab]) \in Nat /\ DOMAIN rows[tab] = 1..Len(rows[tab])
    BY TableFacts
  <2>2. ASSUME NEW x \in F(tab)
        PROVE  \E i \in 1..Len(rows[tab]) : f[i] = x
    <3>1. Latest(x, Within(p, x)) \in states
      BY DEF Found
    <3>2. PICK i \in Within(p, x) : TRUE
      BY <3>1 DEF Latest
    <3>3. i \in Of(x) /\ TableOf(x) = tab
      BY <3>2 DEF Within
    <3>4. i \in 1..Len(rows[tab]) /\ rows[tab][i].id = x
      BY <2>1, <3>3 DEF Of
    <3> QED
      BY <3>4
  <2> HIDE DEF f, F
  <2> QED
    BY <2>1, <2>2, NamedFinite
<1>2. Found(p, states) = F("transferStateChange") \union F("fxTransferStateChange")
  BY DEF Found, TableOf
<1>3. IsFiniteSet(F("transferStateChange")) /\ IsFiniteSet(F("fxTransferStateChange"))
  BY <1>1 DEF Table
<1>4. IsFiniteSet(F("transferStateChange") \union F("fxTransferStateChange"))
  BY <1>3, FS_Union
<1> QED
  BY <1>2, <1>4 DEF Found

LEMMA WatchedFinite ==
  ASSUME Shape, NEW p \in Process
  PROVE  IsFiniteSet(Watched(p)) /\ Watched(p) \subseteq Id
<1>1. IsFiniteSet(Found(p, {"RECEIVED_PREPARE", "RESERVED"}))
      /\ Found(p, {"RECEIVED_PREPARE", "RESERVED"}) \subseteq Id
  BY FoundFinite
<1>2. IsFiniteSet(timeoutRow) /\ timeoutRow \subseteq Id
  BY DEF Shape
<1>3. IsFiniteSet(timeoutRow \union Found(p, {"RECEIVED_PREPARE", "RESERVED"}))
  BY <1>1, <1>2, FS_Union
<1> QED
  BY <1>1, <1>2, <1>3 DEF Watched

LEMMA MarkedStates ==
  /\ DOMAIN Marked = {"RECEIVED_PREPARE", "RESERVED", "RECEIVED_FULFIL_DEPENDENT"}
  /\ Marked["RECEIVED_PREPARE"] = "EXPIRED_PREPARED"
  /\ Marked["RESERVED"] = "RESERVED_TIMEOUT"
  /\ Marked["RECEIVED_FULFIL_DEPENDENT"] = "RESERVED_TIMEOUT"
BY DEF Marked

(* The rows a run marks with: one for each id that is due, and no others.   *)
LEMMA MarksAre ==
  ASSUME Shape, NEW p \in Process, NEW tab \in Table
  PROVE  /\ Marks(p, tab) \in Seq(Row)
         /\ Len(Marks(p, tab)) \in Nat
         /\ \A i \in 1..Len(Marks(p, tab)) :
              /\ Marks(p, tab)[i].id \in Due(p) \intersect IdsOf(tab)
              /\ Marks(p, tab)[i].state = Marked[StateOf(Marks(p, tab)[i].id)]
              /\ Marks(p, tab)[i].committed
         /\ \A x \in Due(p) \intersect IdsOf(tab) :
              \E i \in 1..Len(Marks(p, tab)) : Marks(p, tab)[i].id = x
         /\ \A i, j \in 1..Len(Marks(p, tab)) : Marks(p, tab)[i].id = Marks(p, tab)[j].id => i = j
<1> DEFINE due == Due(p) \intersect IdsOf(tab)
           n == Cardinality(due)
           enum(f) == \A x \in due : \E i \in DOMAIN f : f[i] = x
           ord == CHOOSE f \in [1..n -> due] : enum(f)
           e == [i \in 1..n |-> [id |-> ord[i], state |-> Marked[StateOf(ord[i])], committed |-> TRUE]]
<1>1. IsFiniteSet(due)
  <2>1. due \in SUBSET Watched(p)
    BY DEF Due
  <2> QED
    BY <2>1, WatchedFinite, FS_Subset
<1>2. n \in Nat /\ \E f \in [1..n -> due] : enum(f)
  BY <1>1, Enumerable
<1>3. ord \in [1..n -> due] /\ enum(ord)
  BY <1>2
<1>10. \A i, j \in 1..n : ord[i] = ord[j] => i = j
  <2> HIDE DEF due, n, ord
  <2>1. ord \in Surjection(1..n, due)
    BY <1>3 DEF Surjection
  <2>2. IsFiniteSet(1..n) /\ Cardinality(1..n) = n
    BY <1>2, FS_Interval
  <2>3. Cardinality(due) = n
    BY DEF n
  <2>4. ord \in Injection(1..n, due)
    BY <2>1, <2>2, <2>3, FS_Surjection
  <2> QED
    BY <2>4 DEF Injection, IsInjective
<1>4. Marks(p, tab) = e
  BY DEF Marks
<1>5. ASSUME NEW x \in due
      PROVE  x \in Id /\ Marked[StateOf(x)] \in State
  <2>1. x \in Id
    BY IdsOfTable
  <2>2. StateOf(x) \in DOMAIN Marked
    BY DEF Due
  <2> QED
    BY <2>1, <2>2, MarkedStates DEF State
<1> HIDE DEF due, ord, n
<1>6. ASSUME NEW i \in 1..n
      PROVE  /\ e[i] \in Row
             /\ e[i].id = ord[i] /\ e[i].id \in due
             /\ e[i].state = Marked[StateOf(e[i].id)] /\ e[i].committed
  <2>1. ord[i] \in due
    BY <1>3
  <2> QED
    BY <2>1, <1>5 DEF Row
<1>7. e \in [1..n -> Row]
  BY <1>6
<1>8. e \in Seq(Row) /\ Len(e) = n
  BY <1>2, <1>7
<1>9. \A x \in due : \E i \in 1..n : e[i].id = x
  BY <1>3, <1>6
<1>11. \A i, j \in 1..n : e[i].id = e[j].id => i = j
  BY <1>6, <1>10
<1> HIDE DEF e
<1> QED
  BY <1>2, <1>4, <1>6, <1>8, <1>9, <1>11 DEF due

(***************************************************************************)
(* What the steps do to the rows.                                          *)
(***************************************************************************)

(* A handler's insert.                                                      *)
LEMMA RowsInserted ==
  ASSUME Shape, NEW x \in Id, InsertStateChange(x)
  PROVE  \E s \in State :
           /\ s \in Successors(x)[StateOf(x)]
           /\ rows' \in [Table -> Seq(Row)]
           /\ Len(rows'[TableOf(x)]) = Len(rows[TableOf(x)]) + 1
           /\ rows'[TableOf(x)][Len(rows[TableOf(x)]) + 1] = [id |-> x, state |-> s, committed |-> FALSE]
           /\ \A i \in 1..Len(rows[TableOf(x)]) : rows'[TableOf(x)][i] = rows[TableOf(x)][i]
           /\ \A tab \in Table \ {TableOf(x)} : rows'[tab] = rows[tab]
<1>1. PICK s \in Successors(x)[StateOf(x)] \intersect Reached[x] :
        rows' = [rows EXCEPT ![TableOf(x)] = Append(@, [id |-> x, state |-> s, committed |-> FALSE])]
  BY DEF InsertStateChange
<1>2. s \in State
  BY JobAssumption
<1> DEFINE r == [id |-> x, state |-> s, committed |-> FALSE]
           tb == TableOf(x)
<1>3. r \in Row
  BY <1>2 DEF Row
<1>4. tb \in Table
  BY TableOfId
<1>5. rows[tb] \in Seq(Row) /\ rows \in [Table -> Seq(Row)]
  BY <1>4 DEF Shape
<1>6. Append(rows[tb], r) \in Seq(Row)
  BY <1>3, <1>5
<1>7. rows'[tb] = Append(rows[tb], r) /\ rows' \in [Table -> Seq(Row)]
      /\ \A tab \in Table \ {tb} : rows'[tab] = rows[tab]
  BY <1>1, <1>4, <1>5, <1>6
<1> HIDE DEF r, tb
<1>8. /\ Len(Append(rows[tb], r)) = Len(rows[tb]) + 1
      /\ Append(rows[tb], r)[Len(rows[tb]) + 1] = r
      /\ \A i \in 1..Len(rows[tb]) : Append(rows[tb], r)[i] = rows[tb][i]
  BY <1>3, <1>5
<1> QED
  BY <1>1, <1>2, <1>7, <1>8 DEF r, tb

(* A handler's commit.                                                      *)
LEMMA RowsCommitted ==
  ASSUME Shape, NEW x \in Id, CommitStateChange(x)
  PROVE  \E k \in 1..Len(rows[TableOf(x)]) :
           /\ rows[TableOf(x)][k].id = x /\ ~rows[TableOf(x)][k].committed
           /\ rows' \in [Table -> Seq(Row)]
           /\ Len(rows'[TableOf(x)]) = Len(rows[TableOf(x)])
           /\ rows'[TableOf(x)][k].id = x /\ rows'[TableOf(x)][k].committed
           /\ rows'[TableOf(x)][k].state = rows[TableOf(x)][k].state
           /\ \A i \in 1..Len(rows[TableOf(x)]) : i # k => rows'[TableOf(x)][i] = rows[TableOf(x)][i]
           /\ \A tab \in Table \ {TableOf(x)} : rows'[tab] = rows[tab]
<1> DEFINE tb == TableOf(x)
<1>1. PICK k \in DOMAIN rows[tb] :
        /\ rows[tb][k].id = x /\ ~rows[tb][k].committed
        /\ rows' = [rows EXCEPT ![tb][k].committed = TRUE]
  BY DEF CommitStateChange
<1>2. tb \in Table
  BY TableOfId
<1>3. /\ rows[tb] \in Seq(Row) /\ rows \in [Table -> Seq(Row)]
      /\ k \in 1..Len(rows[tb]) /\ rows[tb][k] \in Row
  BY <1>1, <1>2, TableFacts DEF Shape
<1> DEFINE r == [rows[tb][k] EXCEPT !.committed = TRUE]
<1>4. r.id = x /\ r.state = rows[tb][k].state /\ r.committed /\ r \in Row
  BY <1>1, <1>3 DEF Row
<1>5. rows' = [rows EXCEPT ![tb] = [rows[tb] EXCEPT ![k] = r]]
  BY <1>1
<1> HIDE DEF r, tb
<1>6. /\ [rows[tb] EXCEPT ![k] = r] \in Seq(Row)
      /\ Len([rows[tb] EXCEPT ![k] = r]) = Len(rows[tb])
      /\ \A j \in 1..Len(rows[tb]) : [rows[tb] EXCEPT ![k] = r][j] = IF j = k THEN r ELSE rows[tb][j]
  BY <1>3, <1>4, ExceptSeq
<1>7. rows'[tb] = [rows[tb] EXCEPT ![k] = r] /\ rows' \in [Table -> Seq(Row)]
      /\ \A tab \in Table \ {tb} : rows'[tab] = rows[tab]
  BY <1>2, <1>3, <1>5, <1>6
<1> QED
  BY <1>1, <1>3, <1>4, <1>6, <1>7 DEF tb

(* A run's marks, at the end of each table.                                 *)
LEMMA RowsMarked ==
  ASSUME Shape, NEW p \in Process, TimeoutExpireReserved(p)
  PROVE  /\ rows' \in [Table -> Seq(Row)]
         /\ \A tab \in Table :
              /\ Len(rows'[tab]) = Len(rows[tab]) + Len(Marks(p, tab))
              /\ Len(Marks(p, tab)) \in Nat
              /\ \A i \in 1..Len(rows[tab]) : rows'[tab][i] = rows[tab][i]
              /\ \A i \in Len(rows[tab]) + 1..Len(rows'[tab]) :
                   /\ rows'[tab][i] \in Row
                   /\ rows'[tab][i].id \in Due(p) \intersect IdsOf(tab)
                   /\ rows'[tab][i].state = Marked[StateOf(rows'[tab][i].id)]
                   /\ rows'[tab][i].committed
              /\ \A x \in Due(p) \intersect IdsOf(tab) :
                   \E i \in Len(rows[tab]) + 1..Len(rows'[tab]) : rows'[tab][i].id = x
              /\ \A i, j \in Len(rows[tab]) + 1..Len(rows'[tab]) : rows'[tab][i].id = rows'[tab][j].id => i = j
<1>1. rows' = [tab \in Table |-> rows[tab] \o Marks(p, tab)]
  BY DEF TimeoutExpireReserved
<1>2. ASSUME NEW tab \in Table
      PROVE  /\ rows'[tab] \in Seq(Row)
             /\ Len(rows'[tab]) = Len(rows[tab]) + Len(Marks(p, tab))
             /\ Len(Marks(p, tab)) \in Nat
             /\ \A i \in 1..Len(rows[tab]) : rows'[tab][i] = rows[tab][i]
             /\ \A i \in Len(rows[tab]) + 1..Len(rows'[tab]) :
                  /\ rows'[tab][i] \in Row
                  /\ rows'[tab][i].id \in Due(p) \intersect IdsOf(tab)
                  /\ rows'[tab][i].state = Marked[StateOf(rows'[tab][i].id)]
                  /\ rows'[tab][i].committed
             /\ \A x \in Due(p) \intersect IdsOf(tab) :
                  \E i \in Len(rows[tab]) + 1..Len(rows'[tab]) : rows'[tab][i].id = x
             /\ \A i, j \in Len(rows[tab]) + 1..Len(rows'[tab]) : rows'[tab][i].id = rows'[tab][j].id => i = j
  <2> DEFINE a == rows[tab]
             b == Marks(p, tab)
  <2>1. a \in Seq(Row) /\ Len(a) \in Nat
    BY TableFacts
  <2>2. /\ b \in Seq(Row) /\ Len(b) \in Nat
        /\ \A i \in 1..Len(b) : /\ b[i].id \in Due(p) \intersect IdsOf(tab)
                                /\ b[i].state = Marked[StateOf(b[i].id)]
                                /\ b[i].committed
        /\ \A x \in Due(p) \intersect IdsOf(tab) : \E i \in 1..Len(b) : b[i].id = x
        /\ \A i, j \in 1..Len(b) : b[i].id = b[j].id => i = j
    BY MarksAre
  <2>3. rows'[tab] = a \o b
    BY <1>1
  <2> HIDE DEF a, b
  <2>4. /\ a \o b \in Seq(Row)
        /\ Len(a \o b) = Len(a) + Len(b)
        /\ \A i \in 1..Len(a) + Len(b) : (a \o b)[i] = IF i <= Len(a) THEN a[i] ELSE b[i - Len(a)]
    BY <2>1, <2>2, ConcatProperties
  <2>5. ASSUME NEW i \in Len(a) + 1..Len(a) + Len(b)
        PROVE  i - Len(a) \in 1..Len(b) /\ (a \o b)[i] = b[i - Len(a)] /\ (a \o b)[i] \in Row
    BY <2>1, <2>2, <2>4
  <2>6. \A i \in 1..Len(a) : (a \o b)[i] = a[i]
    BY <2>1, <2>2, <2>4
  <2>7. ASSUME NEW x \in Due(p) \intersect IdsOf(tab)
        PROVE  \E i \in Len(a) + 1..Len(a) + Len(b) : (a \o b)[i].id = x
    <3>1. PICK j \in 1..Len(b) : b[j].id = x
      BY <2>2
    <3>2. Len(a) + j \in Len(a) + 1..Len(a) + Len(b) /\ (Len(a) + j) - Len(a) = j
      BY <2>1, <2>2
    <3>3. (a \o b)[Len(a) + j] = b[j]
      BY <2>5, <3>2
    <3> QED
      BY <3>1, <3>2, <3>3
  <2>8. /\ Len(rows'[tab]) = Len(a) + Len(b)
        /\ Len(b) \in Nat
    BY <2>2, <2>3, <2>4
  <2>9. \A i \in Len(a) + 1..Len(a) + Len(b) :
          /\ (a \o b)[i].id \in Due(p) \intersect IdsOf(tab)
          /\ (a \o b)[i].state = Marked[StateOf((a \o b)[i].id)]
          /\ (a \o b)[i].committed
    BY <2>2, <2>5
  <2>10. \A i, j \in Len(a) + 1..Len(a) + Len(b) : (a \o b)[i].id = (a \o b)[j].id => i = j
    <3> TAKE i, j \in Len(a) + 1..Len(a) + Len(b)
    <3> HAVE (a \o b)[i].id = (a \o b)[j].id
    <3>1. i - Len(a) = j - Len(a)
      BY <2>2, <2>5
    <3> QED
      BY <2>1, <2>2, <3>1
  <2> QED
    BY <2>3, <2>4, <2>5, <2>6, <2>7, <2>8, <2>9, <2>10 DEF a, b
<1>3. rows' \in [Table -> Seq(Row)]
  BY <1>1, <1>2
<1> QED
  BY <1>2, <1>3

(* All steps: rows are added at the end, and keep what they say.            *)
LEMMA RowsGrow ==
  ASSUME Shape, [Next]_vars
  PROVE  /\ rows' \in [Table -> Seq(Row)]
         /\ \A tab \in Table : \A i \in DOMAIN rows'[tab] : TableOf(rows'[tab][i].id) = tab
         /\ \A tab \in Table :
              /\ Len(rows'[tab]) \in Nat /\ DOMAIN rows'[tab] = 1..Len(rows'[tab])
              /\ Len(rows'[tab]) >= Len(rows[tab])
              /\ \A i \in 1..Len(rows[tab]) :
                   /\ rows'[tab][i].id = rows[tab][i].id
                   /\ rows'[tab][i].state = rows[tab][i].state
                   /\ rows[tab][i].committed => rows'[tab][i].committed
<1> DEFINE Grows(tab) ==
      /\ Len(rows'[tab]) >= Len(rows[tab])
      /\ \A i \in 1..Len(rows[tab]) :
           /\ rows'[tab][i].id = rows[tab][i].id
           /\ rows'[tab][i].state = rows[tab][i].state
           /\ rows[tab][i].committed => rows'[tab][i].committed
      /\ \A i \in 1..Len(rows'[tab]) : TableOf(rows'[tab][i].id) = tab
<1>1. \A tab \in Table : Len(rows[tab]) \in Nat /\ DOMAIN rows[tab] = 1..Len(rows[tab])
  BY TableFacts
<1>2. \A tab \in Table : \A i \in 1..Len(rows[tab]) : TableOf(rows[tab][i].id) = tab
  BY <1>1 DEF Shape
<1>3. CASE rows' = rows
  BY <1>1, <1>2, <1>3 DEF Shape
<1>4. ASSUME NEW x \in Id, InsertStateChange(x)
      PROVE  rows' \in [Table -> Seq(Row)] /\ \A tab \in Table : Grows(tab)
  <2> DEFINE tb == TableOf(x)
             n == Len(rows[tb])
  <2>1. PICK s \in State :
           /\ rows' \in [Table -> Seq(Row)]
           /\ Len(rows'[tb]) = n + 1
           /\ rows'[tb][n + 1] = [id |-> x, state |-> s, committed |-> FALSE]
           /\ \A i \in 1..n : rows'[tb][i] = rows[tb][i]
           /\ \A tab \in Table \ {tb} : rows'[tab] = rows[tab]
    BY <1>4, RowsInserted
  <2>2. tb \in Table /\ n \in Nat
    BY <1>1, TableOfId
  <2> HIDE DEF n
  <2>3. \A i \in 1..n + 1 : i \in 1..n \/ i = n + 1
    BY <2>2
  <2>4. rows'[tb][n + 1].id = x
    BY <2>1
  <2>5. Grows(tb)
    <3>1. \A i \in 1..n : rows'[tb][i] = rows[tb][i] /\ TableOf(rows[tb][i].id) = tb
      BY <1>2, <2>1, <2>2 DEF n
    <3>2. \A i \in 1..n + 1 : TableOf(rows'[tb][i].id) = tb
      BY <2>1, <2>3, <2>4, <3>1
    <3>3. Len(rows'[tb]) >= n
      BY <2>1, <2>2
    <3> QED
      BY <2>1, <3>1, <3>2, <3>3 DEF n
  <2>6. \A tab \in Table \ {tb} : Grows(tab)
    BY <1>1, <1>2, <2>1
  <2> QED
    BY <2>1, <2>5, <2>6
<1>5. ASSUME NEW x \in Id, CommitStateChange(x)
      PROVE  rows' \in [Table -> Seq(Row)] /\ \A tab \in Table : Grows(tab)
  <2> DEFINE tb == TableOf(x)
             n == Len(rows[tb])
  <2>1. PICK k \in 1..n :
           /\ rows[tb][k].id = x /\ ~rows[tb][k].committed
           /\ rows' \in [Table -> Seq(Row)]
           /\ Len(rows'[tb]) = n
           /\ rows'[tb][k].id = x /\ rows'[tb][k].committed
           /\ rows'[tb][k].state = rows[tb][k].state
           /\ \A i \in 1..n : i # k => rows'[tb][i] = rows[tb][i]
           /\ \A tab \in Table \ {tb} : rows'[tab] = rows[tab]
    BY <1>5, RowsCommitted
  <2>2. tb \in Table /\ n \in Nat
    BY <1>1, TableOfId
  <2>3. Grows(tb)
    BY <1>2, <2>1, <2>2
  <2>4. \A tab \in Table \ {tb} : Grows(tab)
    BY <1>1, <1>2, <2>1
  <2> QED
    BY <2>1, <2>3, <2>4
<1>6. ASSUME NEW p \in Process, TimeoutExpireReserved(p)
      PROVE  rows' \in [Table -> Seq(Row)] /\ \A tab \in Table : Grows(tab)
  <2>1. rows' \in [Table -> Seq(Row)]
    BY <1>6, RowsMarked
  <2>2. ASSUME NEW tab \in Table
        PROVE  Grows(tab)
    <3>1. /\ Len(rows'[tab]) = Len(rows[tab]) + Len(Marks(p, tab))
          /\ Len(Marks(p, tab)) \in Nat
          /\ \A i \in 1..Len(rows[tab]) : rows'[tab][i] = rows[tab][i]
          /\ \A i \in Len(rows[tab]) + 1..Len(rows'[tab]) : rows'[tab][i].id \in IdsOf(tab)
      BY <1>6, RowsMarked
    <3>2. \A i \in 1..Len(rows'[tab]) : i \in 1..Len(rows[tab]) \/ i \in Len(rows[tab]) + 1..Len(rows'[tab])
      BY <1>1, <3>1
    <3>3. \A x \in IdsOf(tab) : TableOf(x) = tab
      BY IdsOfTable
    <3>4. \A i \in 1..Len(rows'[tab]) : TableOf(rows'[tab][i].id) = tab
      BY <1>2, <3>1, <3>2, <3>3
    <3> QED
      BY <1>1, <3>1, <3>4
  <2> QED
    BY <2>1, <2>2
<1>7. \/ rows' = rows
      \/ \E x \in Id : InsertStateChange(x) \/ CommitStateChange(x)
      \/ \E p \in Process : TimeoutExpireReserved(p)
  BY DEF Next, vars, tables, Expire, RunStep, Tick, ReadIntervals, ListTimedOut, ReservedForwardedTransfers,
         ProcessTimedOut, ProcessForwarded, IncrementForwardedAttemptCount, Finish, Fail, Die, LockExpires, Lapse
<1>8. rows' \in [Table -> Seq(Row)] /\ \A tab \in Table : Grows(tab)
  BY <1>1, <1>2, <1>3, <1>4, <1>5, <1>6, <1>7 DEF Shape
<1>9. \A tab \in Table : Len(rows'[tab]) \in Nat /\ DOMAIN rows'[tab] = 1..Len(rows'[tab])
  BY <1>8, LenProperties
<1> HIDE DEF Grows
<1> QED
  BY <1>8, <1>9 DEF Grows

(* A run is a record, and an update of one of its fields leaves the others. *)
LEMMA ShapeNext ==
  ASSUME Shape, [Next]_vars
  PROVE  Shape'
<1>1. /\ rows' \in [Table -> Seq(Row)]
      /\ \A tab \in Table : \A i \in DOMAIN rows'[tab] : TableOf(rows'[tab][i].id) = tab
      /\ \A tab \in Table : Len(rows'[tab]) \in Nat /\ Len(rows'[tab]) >= Len(rows[tab])
  BY RowsGrow
<1>2. \A tab \in Table : Len(rows[tab]) \in Nat
  BY TableFacts
<1>3. /\ segment \in [Table -> Nat] /\ \A tab \in Table : segment[tab] <= Len(rows'[tab])
      /\ \A p \in Process : \A tab \in Table :
           run[p].from[tab] <= Len(rows'[tab]) /\ run[p].to[tab] <= Len(rows'[tab])
  BY <1>1, <1>2 DEF Shape, Run
<1> DEFINE RunShape == run' \in [Process -> Run]
                       /\ \A p \in Process : \A tab \in Table :
                            run'[p].from[tab] <= Len(rows'[tab]) /\ run'[p].to[tab] <= Len(rows'[tab])
           Rest == /\ expired' \subseteq Id
                   /\ segment' \in [Table -> Nat] /\ \A tab \in Table : segment'[tab] <= Len(rows'[tab])
                   /\ timeoutRow' \subseteq Id /\ IsFiniteSet(timeoutRow')
                   /\ DOMAIN attempts' \subseteq Id /\ attempts' \in [DOMAIN attempts' -> Nat]
                   /\ lock' \in Process \union {NoOne}
                   /\ RunShape
                   /\ sent' \in [Id -> Nat] /\ asked' \in [Id -> Nat]
                   /\ faults' \in [Fault -> Nat] /\ FaultCount' <= MaxFaults
<1>4. SUFFICES Rest
  BY <1>1 DEF Shape
<1>5. ASSUME NEW f \in Fault, NEW p \in Process, Happens(f, p)
      PROVE  faults' \in [Fault -> Nat] /\ FaultCount' <= MaxFaults
  BY <1>5, JobAssumption DEF Happens, FaultCount, Fault, Shape
<1>20. ASSUME NEW p \in Process, NEW r \in Run, run' = [run EXCEPT ![p] = r],
              \A tab \in Table : r.from[tab] <= Len(rows'[tab]) /\ r.to[tab] <= Len(rows'[tab])
       PROVE  RunShape
  <2>1. run' \in [Process -> Run]
    BY <1>20 DEF Shape
  <2>2. \A q \in Process : run'[q] = IF q = p THEN r ELSE run[q]
    BY <1>20 DEF Shape
  <2>3. ASSUME NEW q \in Process, NEW tab \in Table
        PROVE  run'[q].from[tab] <= Len(rows'[tab]) /\ run'[q].to[tab] <= Len(rows'[tab])
    <3>1. CASE q = p
      BY <1>20, <2>2, <3>1
    <3>2. CASE q # p
      BY <1>3, <2>2, <3>2
    <3> QED
      BY <3>1, <3>2
  <2> QED
    BY <2>1, <2>3
<1>6. ASSUME NEW p \in Process, NEW s \in Step, Goto(p, s)
      PROVE  RunShape
  <2> DEFINE r == [run[p] EXCEPT !.pc = s]
  <2>1. r \in Run /\ r.from = run[p].from /\ r.to = run[p].to
    BY DEF Run, Shape
  <2>2. run' = [run EXCEPT ![p] = r]
    BY <1>6 DEF Goto
  <2> HIDE DEF r, RunShape
  <2> QED
    BY <1>3, <1>20, <2>1, <2>2
<1>7. ASSUME NEW p \in Process, EndRun(p)
      PROVE  RunShape
  <2>1. Idle \in Run /\ \A tab \in Table : Idle.from[tab] = 0 /\ Idle.to[tab] = 0
    BY DEF Idle, Run, Step, Table
  <2>2. run' = [run EXCEPT ![p] = Idle]
    BY <1>7 DEF EndRun
  <2>3. \A tab \in Table : Idle.from[tab] <= Len(rows'[tab]) /\ Idle.to[tab] <= Len(rows'[tab])
    BY <1>1, <2>1
  <2> HIDE DEF RunShape
  <2> QED
    BY <1>20, <2>1, <2>2, <2>3
<1>8. CASE UNCHANGED vars
  BY <1>3, <1>8 DEF vars, tables, Shape, FaultCount
<1>9. ASSUME NEW x \in Id, InsertStateChange(x) \/ CommitStateChange(x) \/ Expire(x)
      PROVE  Rest
  BY <1>3, <1>9 DEF InsertStateChange, CommitStateChange, Expire, Shape, FaultCount
<1>10. ASSUME NEW p \in Process, Tick(p)
       PROVE  Rest
  <2>1. RunShape
    BY <1>6, <1>10 DEF Tick, Step
  <2> HIDE DEF RunShape
  <2> QED
    BY <1>3, <1>10, <2>1 DEF Tick, Shape, FaultCount, tables
<1>11. ASSUME NEW p \in Process, ReadIntervals(p)
       PROVE  Rest
  <2>1. [tab \in Table |-> LatestCommitted(tab)] \in [Table -> Nat]
        /\ \A tab \in Table : LatestCommitted(tab) <= Len(rows'[tab])
    BY <1>1, <1>2, LatestCommittedType
  <2>2. RunShape
    <3> DEFINE r == [run[p] EXCEPT !.from = segment, !.to = [tab \in Table |-> LatestCommitted(tab)], !.pc = "expire"]
    <3>1. r \in Run /\ \A tab \in Table : r.from[tab] <= Len(rows'[tab]) /\ r.to[tab] <= Len(rows'[tab])
      BY <2>1, <1>3 DEF Run, Shape, Step
    <3>2. run' = [run EXCEPT ![p] = r]
      BY <1>11 DEF ReadIntervals
    <3> HIDE DEF r, RunShape
    <3> QED
      BY <1>3, <1>20, <3>1, <3>2
  <2>3. timeoutRow' \in SUBSET timeoutRow
    BY <1>11 DEF ReadIntervals
  <2>4. timeoutRow' \subseteq Id /\ IsFiniteSet(timeoutRow')
    BY <2>3, FS_Subset DEF Shape
  <2> HIDE DEF RunShape
  <2> QED
    BY <1>3, <1>11, <2>2, <2>4 DEF ReadIntervals, Shape, FaultCount
<1>12. ASSUME NEW p \in Process, TimeoutExpireReserved(p)
       PROVE  Rest
  <2>1. RunShape
    BY <1>6, <1>12 DEF TimeoutExpireReserved, Step
  <2>2. timeoutRow' \subseteq Id /\ IsFiniteSet(timeoutRow')
    BY <1>12, WatchedFinite DEF TimeoutExpireReserved
  <2>3. segment' = run[p].to /\ run[p].to \in [Table -> Nat]
    BY <1>12 DEF TimeoutExpireReserved, SegmentAfter, Shape, Run
  <2>4. segment' \in [Table -> Nat] /\ \A tab \in Table : segment'[tab] <= Len(rows'[tab])
    BY <1>3, <2>3
  <2> HIDE DEF RunShape
  <2> QED
    BY <1>12, <2>1, <2>2, <2>4 DEF TimeoutExpireReserved, Shape, FaultCount
<1>13. ASSUME NEW p \in Process, ListTimedOut(p)
       PROVE  Rest
  <2>1. RunShape
    <3> DEFINE r == [run[p] EXCEPT !.list = {x \in timeoutRow \intersect expired : StateOf(x) = "RESERVED_TIMEOUT"},
                                  !.pc = "forward"]
    <3>1. r \in Run /\ r.from = run[p].from /\ r.to = run[p].to
      BY <1>3 DEF Run, Shape, Step
    <3>2. run' = [run EXCEPT ![p] = r]
      BY <1>13 DEF ListTimedOut
    <3> HIDE DEF r, RunShape
    <3> QED
      BY <1>3, <1>20, <3>1, <3>2
  <2> HIDE DEF RunShape
  <2> QED
    BY <1>3, <1>13, <2>1 DEF ListTimedOut, Shape, FaultCount, tables
<1>14. ASSUME NEW p \in Process, ReservedForwardedTransfers(p)
       PROVE  Rest
  <2>1. Found(p, {"RESERVED_FORWARDED"}) \subseteq Id
    BY DEF Found
  <2>2. DOMAIN attempts' \subseteq Id /\ attempts' \in [DOMAIN attempts' -> Nat]
    BY <1>14, <2>1 DEF ReservedForwardedTransfers, Shape
  <2>3. RunShape
    <3> DEFINE r == [run[p] EXCEPT !.ask = {x \in DOMAIN attempts' \intersect expired :
                                            MayAsk(attempts'[x]) /\ StateOf(x) = "RESERVED_FORWARDED"},
                                  !.pc = "produce"]
    <3>1. r \in Run /\ r.from = run[p].from /\ r.to = run[p].to
      BY <2>2, <1>3 DEF Run, Shape, Step
    <3>2. run' = [run EXCEPT ![p] = r]
      BY <1>14 DEF ReservedForwardedTransfers
    <3> HIDE DEF r, RunShape
    <3> QED
      BY <1>3, <1>20, <3>1, <3>2
  <2> HIDE DEF RunShape
  <2> QED
    BY <1>3, <1>14, <2>2, <2>3 DEF ReservedForwardedTransfers, Shape, FaultCount
<1>15. ASSUME NEW p \in Process, ProcessTimedOut(p)
       PROVE  Rest
  <2>3. PICK x \in run[p].list : run' = [run EXCEPT ![p].list = @ \ {x}]
    BY <1>15 DEF ProcessTimedOut
  <2>1. RunShape
    <3> DEFINE r == [run[p] EXCEPT !.list = run[p].list \ {x}]
    <3>1. r \in Run /\ r.from = run[p].from /\ r.to = run[p].to
      BY DEF Run, Shape
    <3>2. run' = [run EXCEPT ![p] = r]
      BY <2>3
    <3> HIDE DEF r, RunShape
    <3> QED
      BY <1>3, <1>20, <3>1, <3>2
  <2>2. run[p].list \subseteq Id
    BY DEF Shape, Run
  <2> HIDE DEF RunShape
  <2> QED
    BY <1>3, <1>15, <2>1, <2>2 DEF ProcessTimedOut, Shape, FaultCount, tables
<1>16. ASSUME NEW p \in Process, ProcessForwarded(p)
       PROVE  Rest
  <2>1. run[p].ask \subseteq Id
    BY DEF Shape, Run
  <2>3. PICK x \in run[p].ask : run' = [run EXCEPT ![p].list = {x}, ![p].ask = @ \ {x}, ![p].pc = "count"]
    BY <1>16 DEF ProcessForwarded
  <2>2. RunShape
    <3> DEFINE r == [run[p] EXCEPT !.list = {x}, !.ask = run[p].ask \ {x}, !.pc = "count"]
    <3>3. {x} \in SUBSET Id /\ run[p].ask \ {x} \in SUBSET Id /\ run[p] \in Run /\ "count" \in Step
      BY <2>1 DEF Shape, Step
    <3>1. r \in Run /\ r.from = run[p].from /\ r.to = run[p].to
      BY <3>3 DEF Run
    <3>2. run' = [run EXCEPT ![p] = r]
      BY <2>3
    <3> HIDE DEF r, RunShape
    <3> QED
      BY <1>3, <1>20, <3>1, <3>2
  <2> HIDE DEF RunShape
  <2> QED
    BY <1>3, <1>16, <2>1, <2>2 DEF ProcessForwarded, Shape, FaultCount, tables
<1>17. ASSUME NEW p \in Process, IncrementForwardedAttemptCount(p)
       PROVE  Rest
  <2>1. RunShape
    <3> DEFINE r == [run[p] EXCEPT !.list = {}, !.pc = "produce"]
    <3>1. r \in Run /\ r.from = run[p].from /\ r.to = run[p].to
      BY DEF Run, Shape, Step
    <3>2. run' = [run EXCEPT ![p] = r]
      BY <1>17 DEF IncrementForwardedAttemptCount
    <3> HIDE DEF r, RunShape
    <3> QED
      BY <1>3, <1>20, <3>1, <3>2
  <2>2. DOMAIN attempts' \subseteq Id /\ attempts' \in [DOMAIN attempts' -> Nat]
    <3>1. PICK x \in run[p].list : attempts' = [attempts EXCEPT ![x] = @ + 1]
      BY <1>17 DEF IncrementForwardedAttemptCount
    <3>2. attempts \in [DOMAIN attempts -> Nat] /\ DOMAIN attempts \subseteq Id
      BY DEF Shape
    <3>3. DOMAIN attempts' = DOMAIN attempts
      BY <3>1
    <3>4. \A y \in DOMAIN attempts : attempts'[y] \in Nat
      BY <3>1, <3>2
    <3>5. attempts' = [y \in DOMAIN attempts |-> attempts'[y]]
      BY <3>1
    <3>6. attempts' \in [DOMAIN attempts -> Nat]
      BY <3>4, <3>5
    <3> QED
      BY <3>2, <3>3, <3>6
  <2> HIDE DEF RunShape
  <2> QED
    BY <1>3, <1>17, <2>1, <2>2 DEF IncrementForwardedAttemptCount, Shape, FaultCount
<1>18. ASSUME NEW p \in Process, Finish(p) \/ Fail(p) \/ Die(p)
       PROVE  Rest
  <2>1. RunShape
    BY <1>7, <1>18 DEF Finish, Fail, Die
  <2>2. faults' \in [Fault -> Nat] /\ FaultCount' <= MaxFaults
    BY <1>5, <1>18 DEF Finish, Fail, Die, Fault, FaultCount, Shape
  <2> HIDE DEF RunShape
  <2> QED
    BY <1>3, <1>18, <2>1, <2>2 DEF Finish, Fail, Die, LockAfter, Shape, tables
<1>19. ASSUME NEW p \in Process, LockExpires(p) \/ Lapse(p)
       PROVE  Rest
  <2>1. faults' \in [Fault -> Nat] /\ FaultCount' <= MaxFaults
    BY <1>5, <1>19 DEF LockExpires, Lapse, Fault, FaultCount, Shape
  <2> QED
    BY <1>3, <1>19, <2>1 DEF LockExpires, Lapse, Shape, tables
<1> HIDE DEF Rest
<1> QED
  BY <1>8, <1>9, <1>10, <1>11, <1>12, <1>13, <1>14, <1>15, <1>16, <1>17, <1>18, <1>19
  DEF Next, RunStep

LEMMA ShapeInit ==
  ASSUME Init
  PROVE  Shape
<1>1. Idle \in Run /\ \A tab \in Table : Idle.from[tab] = 0 /\ Idle.to[tab] = 0
  BY DEF Idle, Run, Step, Table
<1>2. rows \in [Table -> Seq(Row)] /\ \A tab \in Table : rows[tab] = <<>> /\ Len(rows[tab]) = 0
  BY DEF Init
<1>3. IsFiniteSet({})
  BY FS_EmptySet
<1>4. FaultCount = 0
  BY DEF Init, FaultCount, Fault
<1> QED
  BY <1>1, <1>2, <1>3, <1>4, JobAssumption DEF Init, Shape, Fault

(***************************************************************************)
(* What the steps do to the runs.                                          *)
(***************************************************************************)
Others(p) == \A q \in Process \ {p} : run'[q] = run[q]

LEMMA RunFields ==
  ASSUME Shape, NEW p \in Process
  PROVE  /\ Tick(p) => /\ Others(p) /\ run'[p].pc = "read"
                       /\ run'[p].list = run[p].list /\ run'[p].ask = run[p].ask
         /\ ReadIntervals(p) =>
              /\ Others(p) /\ run'[p].pc = "expire"
              /\ run'[p].from = segment /\ run'[p].to = [tab \in Table |-> LatestCommitted(tab)]
              /\ run'[p].list = run[p].list /\ run'[p].ask = run[p].ask
         /\ TimeoutExpireReserved(p) =>
              /\ Others(p) /\ run'[p].pc = "list"
              /\ run'[p].list = run[p].list /\ run'[p].ask = run[p].ask
         /\ ListTimedOut(p) =>
              /\ Others(p) /\ run'[p].pc = "forward"
              /\ run'[p].list = {x \in timeoutRow \intersect expired : StateOf(x) = "RESERVED_TIMEOUT"}
              /\ run'[p].ask = run[p].ask
         /\ ReservedForwardedTransfers(p) =>
              /\ Others(p) /\ run'[p].pc = "produce"
              /\ run'[p].list = run[p].list
              /\ run'[p].ask = {x \in DOMAIN attempts' \intersect expired :
                                  MayAsk(attempts'[x]) /\ StateOf(x) = "RESERVED_FORWARDED"}
         /\ ProcessTimedOut(p) =>
              \E x \in run[p].list :
                /\ Others(p) /\ run'[p].pc = "produce"
                /\ run'[p].list = run[p].list \ {x} /\ run'[p].ask = run[p].ask
                /\ sent' = [sent EXCEPT ![x] = @ + 1]
         /\ ProcessForwarded(p) =>
              \E x \in run[p].ask :
                /\ Others(p) /\ run'[p].pc = "count"
                /\ run'[p].list = {x} /\ run'[p].ask = run[p].ask \ {x}
         /\ IncrementForwardedAttemptCount(p) =>
              /\ Others(p) /\ run'[p].pc = "produce"
              /\ run'[p].list = {} /\ run'[p].ask = run[p].ask
         /\ Finish(p) \/ Fail(p) \/ Die(p) => Others(p) /\ run'[p] = Idle
         /\ LockExpires(p) \/ Lapse(p) => run' = run
<1> USE DEF Others
<1>1. run \in [Process -> Run]
  BY DEF Shape
<1>2. Tick(p) => /\ Others(p) /\ run'[p].pc = "read"
                 /\ run'[p].list = run[p].list /\ run'[p].ask = run[p].ask
  BY <1>1 DEF Tick, Goto, Run
<1>3. ReadIntervals(p) =>
        /\ Others(p) /\ run'[p].pc = "expire"
        /\ run'[p].from = segment /\ run'[p].to = [tab \in Table |-> LatestCommitted(tab)]
        /\ run'[p].list = run[p].list /\ run'[p].ask = run[p].ask
  BY <1>1 DEF ReadIntervals, Run
<1>4. TimeoutExpireReserved(p) =>
        /\ Others(p) /\ run'[p].pc = "list"
        /\ run'[p].list = run[p].list /\ run'[p].ask = run[p].ask
  BY <1>1 DEF TimeoutExpireReserved, Goto, Run
<1>5. ListTimedOut(p) =>
        /\ Others(p) /\ run'[p].pc = "forward"
        /\ run'[p].list = {x \in timeoutRow \intersect expired : StateOf(x) = "RESERVED_TIMEOUT"}
        /\ run'[p].ask = run[p].ask
  BY <1>1 DEF ListTimedOut, Run
<1>6. ReservedForwardedTransfers(p) =>
        /\ Others(p) /\ run'[p].pc = "produce"
        /\ run'[p].list = run[p].list
        /\ run'[p].ask = {x \in DOMAIN attempts' \intersect expired :
                            MayAsk(attempts'[x]) /\ StateOf(x) = "RESERVED_FORWARDED"}
  BY <1>1 DEF ReservedForwardedTransfers, Run
<1>7. ProcessTimedOut(p) =>
        \E x \in run[p].list :
          /\ Others(p) /\ run'[p].pc = "produce"
          /\ run'[p].list = run[p].list \ {x} /\ run'[p].ask = run[p].ask
          /\ sent' = [sent EXCEPT ![x] = @ + 1]
  BY <1>1 DEF ProcessTimedOut, At, Run
<1>8. ProcessForwarded(p) =>
        \E x \in run[p].ask :
          /\ Others(p) /\ run'[p].pc = "count"
          /\ run'[p].list = {x} /\ run'[p].ask = run[p].ask \ {x}
  BY <1>1 DEF ProcessForwarded, Run
<1>9. IncrementForwardedAttemptCount(p) =>
        /\ Others(p) /\ run'[p].pc = "produce"
        /\ run'[p].list = {} /\ run'[p].ask = run[p].ask
  BY <1>1 DEF IncrementForwardedAttemptCount, Run
<1>10. Finish(p) \/ Fail(p) \/ Die(p) => Others(p) /\ run'[p] = Idle
  BY <1>1 DEF Finish, Fail, Die, EndRun
<1>11. LockExpires(p) \/ Lapse(p) => run' = run
  BY DEF LockExpires, Lapse
<1> HIDE DEF Others
<1> QED
  BY <1>2, <1>3, <1>4, <1>5, <1>6, <1>7, <1>8, <1>9, <1>10, <1>11

(* What is in the hands of a run at each of its steps.                      *)
Hands ==
  \A p \in Process :
    /\ At(p, "idle") => run[p] = Idle
    /\ run[p].pc \in {"idle", "read", "expire", "list"} => run[p].list = {}
    /\ run[p].pc \in {"idle", "read", "expire", "list", "forward"} => run[p].ask = {}
    /\ At(p, "count") => \E x \in DOMAIN attempts : run[p].list = {x} /\ x \notin run[p].ask
    /\ run[p].ask \subseteq DOMAIN attempts

LEMMA IdleIs == Idle.pc = "idle" /\ Idle.list = {} /\ Idle.ask = {}
BY DEF Idle

LEMMA HandsNext ==
  ASSUME Shape, Hands, [Next]_vars
  PROVE  Hands'
<1> DEFINE Hand(p) ==
      /\ run'[p].pc = "idle" => run'[p] = Idle
      /\ run'[p].pc \in {"idle", "read", "expire", "list"} => run'[p].list = {}
      /\ run'[p].pc \in {"idle", "read", "expire", "list", "forward"} => run'[p].ask = {}
      /\ run'[p].pc = "count" => \E x \in DOMAIN attempts' : run'[p].list = {x} /\ x \notin run'[p].ask
      /\ run'[p].ask \subseteq DOMAIN attempts'
<1>1. DOMAIN attempts \subseteq DOMAIN attempts'
  BY DEF Next, vars, tables, InsertStateChange, CommitStateChange, Expire, RunStep, Tick, ReadIntervals,
         TimeoutExpireReserved, ListTimedOut, ReservedForwardedTransfers, ProcessTimedOut, ProcessForwarded,
         IncrementForwardedAttemptCount, Finish, Fail, Die, LockExpires, Lapse
<1>2. ASSUME NEW q \in Process, run'[q] = run[q]
      PROVE  Hand(q)
  BY <1>1, <1>2 DEF Hands, At
<1>3. ASSUME NEW q \in Process, run'[q] = Idle
      PROVE  Hand(q)
  BY <1>3, IdleIs
<1>4. ASSUME NEW p \in Process, RunStep(p) \/ Fail(p) \/ Die(p)
      PROVE  Others(p) /\ Hand(p)
  <2> USE DEF At
  <2>1. CASE Tick(p)
    BY <2>1, RunFields, <1>1 DEF Tick, Hands
  <2>2. CASE ReadIntervals(p)
    BY <2>2, RunFields, <1>1 DEF ReadIntervals, Hands
  <2>3. CASE TimeoutExpireReserved(p)
    BY <2>3, RunFields, <1>1 DEF TimeoutExpireReserved, Hands
  <2>4. CASE ListTimedOut(p)
    BY <2>4, RunFields, <1>1 DEF ListTimedOut, Hands
  <2>5. CASE ReservedForwardedTransfers(p)
    BY <2>5, RunFields, <1>1
  <2>6. CASE ProcessTimedOut(p)
    BY <2>6, RunFields, <1>1 DEF Hands
  <2>7. CASE ProcessForwarded(p)
    <3>1. PICK x \in run[p].ask :
            /\ Others(p) /\ run'[p].pc = "count"
            /\ run'[p].list = {x} /\ run'[p].ask = run[p].ask \ {x}
      BY <2>7, RunFields
    <3>2. x \in DOMAIN attempts' /\ run[p].ask \subseteq DOMAIN attempts'
      BY <1>1 DEF Hands
    <3> QED
      BY <3>1, <3>2
  <2>8. CASE IncrementForwardedAttemptCount(p)
    BY <2>8, RunFields, <1>1 DEF Hands
  <2>9. CASE Finish(p) \/ Fail(p) \/ Die(p)
    BY <1>3, <2>9, RunFields
  <2> HIDE DEF Hand
  <2> QED
    BY <1>4, <2>1, <2>2, <2>3, <2>4, <2>5, <2>6, <2>7, <2>8, <2>9 DEF RunStep
<1>5. \/ run' = run
      \/ \E p \in Process : RunStep(p) \/ Fail(p) \/ Die(p)
  BY DEF Next, vars, InsertStateChange, CommitStateChange, Expire, LockExpires, Lapse
<1> HIDE DEF Hand
<1>6. \A q \in Process : Hand(q)
  BY <1>2, <1>4, <1>5 DEF Others
<1> QED
  BY <1>6 DEF Hands, Hand, At

(* Runs that go on without the lock: each lost it to a lapse of its own.    *)
Strays == {p \in Process : ~At(p, "idle") /\ lock # p}
FewStrays == IsFiniteSet(Strays) /\ Cardinality(Strays) <= faults["lapse"]

LEMMA StraysNext ==
  ASSUME Shape, Hands, FewStrays, [Next]_vars
  PROVE  FewStrays'
<1> DEFINE Fewer == Strays' \in SUBSET Strays /\ faults'["lapse"] >= faults["lapse"]
<1>1. faults["lapse"] \in Nat /\ faults'["lapse"] \in Nat
  BY ShapeNext DEF Shape, Fault
<1>2. ASSUME Fewer
      PROVE  FewStrays'
  <2>1. IsFiniteSet(Strays') /\ Cardinality(Strays') <= Cardinality(Strays)
    BY <1>2, FS_Subset DEF FewStrays
  <2>2. Cardinality(Strays) \in Nat /\ Cardinality(Strays') \in Nat
    BY <2>1, FS_CardinalityType DEF FewStrays
  <2> QED
    BY <1>1, <1>2, <2>1, <2>2 DEF FewStrays
<1>3. CASE UNCHANGED vars
  BY <1>1, <1>2, <1>3 DEF vars, Strays, At
<1>4. ASSUME NEW x \in Id, InsertStateChange(x) \/ CommitStateChange(x) \/ Expire(x)
      PROVE  Fewer
  BY <1>1, <1>4 DEF InsertStateChange, CommitStateChange, Expire, Strays, At
<1>5. ASSUME NEW p \in Process, Tick(p)
      PROVE  Fewer
  <2>1. Others(p) /\ lock = NoOne /\ lock' = p /\ faults' = faults
    BY <1>5, RunFields DEF Tick, Acquired
  <2>2. \A q \in Process : ~At(q, "idle")' /\ lock' # q => ~At(q, "idle") /\ lock # q
    BY <2>1, JobAssumption DEF At, Others
  <2> QED
    BY <1>1, <2>1, <2>2 DEF Strays
<1>6. ASSUME NEW p \in Process,
             \/ ReadIntervals(p) \/ TimeoutExpireReserved(p)
             \/ ListTimedOut(p) \/ ReservedForwardedTransfers(p) \/ ProcessTimedOut(p)
             \/ ProcessForwarded(p) \/ IncrementForwardedAttemptCount(p)
      PROVE  Fewer
  <2>1. /\ Others(p) /\ ~At(p, "idle")
        /\ lock' = lock /\ faults' = faults
    BY <1>6, RunFields DEF ReadIntervals, TimeoutExpireReserved, ListTimedOut, ReservedForwardedTransfers,
       ProcessTimedOut, ProcessForwarded, IncrementForwardedAttemptCount, At
  <2> QED
    BY <1>1, <2>1 DEF Strays, At, Others
<1>7. ASSUME NEW p \in Process, Finish(p) \/ Fail(p) \/ Die(p)
      PROVE  Fewer
  <2>1. Others(p) /\ run'[p].pc = "idle"
    BY <1>7, RunFields, IdleIs
  <2>2. lock' = lock \/ (lock = p /\ lock' = NoOne)
    BY <1>7 DEF Finish, Fail, Die, LockAfter
  <2>3. faults'["lapse"] = faults["lapse"]
    BY <1>7 DEF Finish, Fail, Die, Happens, Shape, Fault
  <2>4. \A q \in Process : ~At(q, "idle")' /\ lock' # q => q # p /\ ~At(q, "idle") /\ lock # q
    BY <2>1, <2>2, JobAssumption DEF At, Others
  <2> QED
    BY <1>1, <2>3, <2>4 DEF Strays
<1>8. ASSUME NEW p \in Process, LockExpires(p)
      PROVE  Fewer
  BY <1>1, <1>8 DEF LockExpires, Strays, At
<1>9. ASSUME NEW p \in Process, Lapse(p)
      PROVE  FewStrays'
  <2>1. faults'["lapse"] = faults["lapse"] + 1
    BY <1>9 DEF Lapse, Happens, Shape, Fault
  <2>2. Strays' \in SUBSET (Strays \union {p})
    BY <1>9 DEF Lapse, Strays, At
  <2>3. IsFiniteSet(Strays \union {p}) /\ Cardinality(Strays \union {p}) <= Cardinality(Strays) + 1
    <3>1. /\ IsFiniteSet(Strays \union {p})
          /\ Cardinality(Strays \union {p}) = IF p \in Strays THEN Cardinality(Strays) ELSE Cardinality(Strays) + 1
      BY FS_AddElement DEF FewStrays
    <3>2. Cardinality(Strays) \in Nat
      BY FS_CardinalityType DEF FewStrays
    <3> QED
      BY <3>1, <3>2
  <2>4. IsFiniteSet(Strays') /\ Cardinality(Strays') <= Cardinality(Strays \union {p})
    BY <2>2, <2>3, FS_Subset
  <2>5. Cardinality(Strays) \in Nat /\ Cardinality(Strays \union {p}) \in Nat /\ Cardinality(Strays') \in Nat
    BY <2>3, <2>4, FS_CardinalityType DEF FewStrays
  <2> QED
    BY <1>1, <2>1, <2>3, <2>4, <2>5 DEF FewStrays
<1> HIDE DEF Fewer
<1> QED
  BY <1>2, <1>3, <1>4, <1>5, <1>6, <1>7, <1>8, <1>9 DEF Next, RunStep

(* Those that have asked for a forwarded id, or are about to, and have not  *)
(* counted it.                                                              *)
Counting(x) == {p \in Process : x \in run[p].ask \/ (At(p, "count") /\ x \in run[p].list)}
AttemptsCounted ==
  \A x \in DOMAIN attempts :
    IsFiniteSet(Counting(x)) /\ attempts[x] + Cardinality(Counting(x)) <= MaxAttempts + faults["lapse"]

LEMMA FewRuns ==
  ASSUME Shape, FewStrays, NEW S \in SUBSET {p \in Process : ~At(p, "idle")}
  PROVE  /\ IsFiniteSet(S) /\ Cardinality(S) \in Nat
         /\ Cardinality(S) <= faults["lapse"] + 1
<1>1. /\ IsFiniteSet(Strays \union {lock})
      /\ Cardinality(Strays \union {lock}) = IF lock \in Strays THEN Cardinality(Strays) ELSE Cardinality(Strays) + 1
  BY FS_AddElement DEF FewStrays
<1>2. S \in SUBSET (Strays \union {lock})
  BY DEF Strays
<1>3. IsFiniteSet(S) /\ Cardinality(S) <= Cardinality(Strays \union {lock})
  BY <1>1, <1>2, FS_Subset
<1>4. Cardinality(Strays) \in Nat /\ Cardinality(S) \in Nat /\ faults["lapse"] \in Nat
  BY <1>3, FS_CardinalityType DEF FewStrays, Shape, Fault
<1> QED
  BY <1>1, <1>3, <1>4 DEF FewStrays

LEMMA AttemptsNext ==
  ASSUME Shape, Hands, FewStrays, AttemptsCounted, [Next]_vars
  PROVE  AttemptsCounted'
<1> DEFINE Bounded(x) == IsFiniteSet(Counting(x)')
                         /\ attempts'[x] + Cardinality(Counting(x)') <= MaxAttempts + faults'["lapse"]
           Fewer(x) == /\ x \in DOMAIN attempts /\ attempts'[x] = attempts[x]
                       /\ Counting(x)' \in SUBSET Counting(x)
<1>1. /\ faults["lapse"] \in Nat /\ faults'["lapse"] \in Nat
      /\ attempts \in [DOMAIN attempts -> Nat] /\ attempts' \in [DOMAIN attempts' -> Nat]
      /\ MaxAttempts \in Nat /\ Shape'
  BY ShapeNext, JobAssumption DEF Shape, Fault
<1>2. faults'["lapse"] >= faults["lapse"]
  <2>1. ASSUME NEW f \in Fault, NEW p \in Process, Happens(f, p)
        PROVE  faults'["lapse"] >= faults["lapse"]
    BY <1>1, <2>1 DEF Happens, Shape, Fault
  <2>2. faults' = faults \/ \E f \in Fault, p \in Process : Happens(f, p)
    BY DEF Next, vars, InsertStateChange, CommitStateChange, Expire, RunStep, Tick, ReadIntervals,
           TimeoutExpireReserved, ListTimedOut, ReservedForwardedTransfers, ProcessTimedOut, ProcessForwarded,
           IncrementForwardedAttemptCount, Finish, Fail, Die, LockExpires, Lapse, Fault
  <2> QED
    BY <1>1, <2>1, <2>2
<1>3. ASSUME NEW x, Fewer(x)
      PROVE  Bounded(x)
  <2>1. IsFiniteSet(Counting(x)) /\ attempts[x] + Cardinality(Counting(x)) <= MaxAttempts + faults["lapse"]
    BY <1>3 DEF AttemptsCounted
  <2>2. IsFiniteSet(Counting(x)') /\ Cardinality(Counting(x)') <= Cardinality(Counting(x))
    BY <1>3, <2>1, FS_Subset
  <2>3. Cardinality(Counting(x)) \in Nat /\ Cardinality(Counting(x)') \in Nat /\ attempts[x] \in Nat
    BY <1>1, <1>3, <2>1, <2>2, FS_CardinalityType
  <2> QED
    BY <1>1, <1>2, <1>3, <2>1, <2>2, <2>3
<1>4. CASE UNCHANGED <<run, attempts>>
  <2>1. \A x \in DOMAIN attempts' : Fewer(x)
    BY <1>4 DEF Counting, At
  <2> QED
    BY <1>3, <2>1 DEF AttemptsCounted
<1>5. ASSUME NEW p \in Process,
             Tick(p) \/ ReadIntervals(p) \/ TimeoutExpireReserved(p) \/ ListTimedOut(p)
      PROVE  \A x \in DOMAIN attempts' : Fewer(x)
  <2>1. Others(p) /\ run'[p].ask = {} /\ run'[p].pc # "count" /\ attempts' = attempts
    BY <1>5, RunFields DEF Tick, ReadIntervals, TimeoutExpireReserved, ListTimedOut, At, Hands, tables
  <2> QED
    BY <2>1 DEF Counting, At, Others
<1>6. ASSUME NEW p \in Process, ReservedForwardedTransfers(p), NEW x \in DOMAIN attempts'
      PROVE  Bounded(x)
  <2>1. /\ Others(p) /\ At(p, "forward") /\ run'[p].pc = "produce"
        /\ \A y \in run'[p].ask : MayAsk(attempts'[y])
        /\ faults' = faults
    BY <1>6, RunFields DEF ReservedForwardedTransfers
  <2>2. x \in DOMAIN attempts => attempts'[x] = attempts[x]
    BY <1>6 DEF ReservedForwardedTransfers
  <2>3. x \notin DOMAIN attempts => attempts'[x] = 0
    BY <1>6 DEF ReservedForwardedTransfers
  <2>4. CASE x \in run'[p].ask
    <3>1. Counting(x)' \in SUBSET {q \in Process : ~At(q, "idle")}
      <4>1. ASSUME NEW q \in Counting(x)' PROVE q \in Process /\ ~At(q, "idle")
        <5>1. CASE q = p
          BY <2>1, <5>1 DEF At
        <5>2. CASE q # p
          <6>1. x \in run[q].ask \/ At(q, "count")
            BY <2>1, <4>1, <5>2 DEF Counting, At, Others
          <6> QED
            BY <4>1, <6>1 DEF Hands, At, Counting
        <5> QED
          BY <5>1, <5>2
      <4> QED
        BY <4>1
    <3>2. /\ IsFiniteSet(Counting(x)') /\ Cardinality(Counting(x)') \in Nat
          /\ Cardinality(Counting(x)') <= faults["lapse"] + 1
      BY <3>1, FewRuns
    <3>3. attempts'[x] < MaxAttempts /\ attempts'[x] \in Nat
      BY <1>1, <2>1, <2>4 DEF MayAsk
    <3> QED
      BY <1>1, <2>1, <3>2, <3>3
  <2>5. CASE x \notin run'[p].ask /\ x \in DOMAIN attempts
    <3>1. Counting(x)' \in SUBSET Counting(x)
      BY <2>1, <2>5 DEF Counting, At, Others
    <3> QED
      BY <1>3, <2>2, <2>5, <3>1
  <2>6. CASE x \notin run'[p].ask /\ x \notin DOMAIN attempts
    <3>1. \A q \in Process : x \notin run[q].ask /\ ~(At(q, "count") /\ x \in run[q].list)
      BY <2>6 DEF Hands
    <3>2. Counting(x)' = {}
      BY <2>1, <2>6, <3>1 DEF Counting, At, Others
    <3>3. IsFiniteSet(Counting(x)') /\ Cardinality(Counting(x)') = 0
      BY <3>2, FS_EmptySet
    <3> QED
      BY <1>1, <2>3, <2>6, <3>3
  <2> QED
    BY <2>4, <2>5, <2>6
<1>7. ASSUME NEW p \in Process, ProcessTimedOut(p)
      PROVE  \A x \in DOMAIN attempts' : Fewer(x)
  <2>1. Others(p) /\ run'[p].ask = run[p].ask /\ run'[p].pc # "count" /\ attempts' = attempts
    BY <1>7, RunFields DEF ProcessTimedOut, tables
  <2> QED
    BY <2>1 DEF Counting, At, Others
<1>8. ASSUME NEW p \in Process, ProcessForwarded(p)
      PROVE  \A x \in DOMAIN attempts' : Fewer(x)
  <2>1. PICK y \in run[p].ask :
          Others(p) /\ run'[p].pc = "count" /\ run'[p].list = {y} /\ run'[p].ask = run[p].ask \ {y}
    BY <1>8, RunFields
  <2>2. attempts' = attempts
    BY <1>8 DEF ProcessForwarded, tables
  <2> QED
    BY <2>1, <2>2 DEF Counting, At, Others
<1>9. ASSUME NEW p \in Process, IncrementForwardedAttemptCount(p), NEW x \in DOMAIN attempts'
      PROVE  Bounded(x)
  <2>1. PICK y \in DOMAIN attempts : run[p].list = {y} /\ y \notin run[p].ask
    BY <1>9 DEF IncrementForwardedAttemptCount, Hands
  <2>2. attempts' = [attempts EXCEPT ![y] = @ + 1] /\ faults' = faults /\ At(p, "count")
    BY <1>9, <2>1 DEF IncrementForwardedAttemptCount
  <2>3. Others(p) /\ run'[p].pc = "produce" /\ run'[p].list = {} /\ run'[p].ask = run[p].ask
    BY <1>9, RunFields
  <2>4. x \in DOMAIN attempts
    BY <2>2
  <2>5. CASE x # y
    <3>1. Fewer(x)
      BY <2>2, <2>3, <2>4, <2>5 DEF Counting, At, Others
    <3> QED
      BY <1>3, <3>1
  <2>6. CASE x = y
    <3>1. attempts'[x] = attempts[x] + 1 /\ attempts[x] \in Nat
      BY <1>1, <2>2, <2>4, <2>6
    <3>2. p \in Counting(x) /\ Counting(x)' = Counting(x) \ {p}
      BY <2>1, <2>2, <2>3, <2>6 DEF Counting, At, Others
    <3>3. IsFiniteSet(Counting(x)) /\ attempts[x] + Cardinality(Counting(x)) <= MaxAttempts + faults["lapse"]
      BY <2>4 DEF AttemptsCounted
    <3>4. IsFiniteSet(Counting(x)') /\ Cardinality(Counting(x)') = Cardinality(Counting(x)) - 1
      BY <3>2, <3>3, FS_RemoveElement
    <3>5. Cardinality(Counting(x)) \in Nat
      BY <3>3, FS_CardinalityType
    <3> QED
      BY <1>1, <2>2, <3>1, <3>3, <3>4, <3>5
  <2> QED
    BY <2>5, <2>6
<1>10. ASSUME NEW p \in Process, Finish(p) \/ Fail(p) \/ Die(p)
       PROVE  \A x \in DOMAIN attempts' : Fewer(x)
  <2>1. Others(p) /\ run'[p].ask = {} /\ run'[p].pc # "count"
    BY <1>10, RunFields, IdleIs
  <2>2. attempts' = attempts
    BY <1>10 DEF Finish, Fail, Die, tables
  <2> QED
    BY <2>1, <2>2 DEF Counting, At, Others
<1>11. \/ UNCHANGED <<run, attempts>>
       \/ \E p \in Process : RunStep(p) \/ Fail(p) \/ Die(p)
  BY DEF Next, vars, tables, InsertStateChange, CommitStateChange, Expire, LockExpires, Lapse
<1> HIDE DEF Fewer
<1>12. \A x \in DOMAIN attempts' : Bounded(x)
  <2> HIDE DEF Bounded
  <2>1. CASE UNCHANGED <<run, attempts>>
    BY <1>4, <2>1 DEF AttemptsCounted, Bounded
  <2> QED
    BY <1>3, <1>5, <1>6, <1>7, <1>8, <1>9, <1>10, <1>11, <2>1 DEF RunStep
<1> QED
  BY <1>12 DEF AttemptsCounted

AttemptsInv == Shape /\ Hands /\ FewStrays /\ AttemptsCounted

LEMMA AttemptsAlways == Spec => []AttemptsInv
<1>1. ASSUME Init
      PROVE  AttemptsInv
  <2>1. Shape
    BY <1>1, ShapeInit
  <2>2. \A p \in Process : run[p] = Idle
    BY <1>1 DEF Init
  <2>3. DOMAIN attempts = {}
    BY <1>1 DEF Init
  <2>4. Hands
    BY <2>2, IdleIs DEF Hands, At
  <2>5. Strays = {} /\ faults["lapse"] = 0
    BY <1>1, <2>2, IdleIs DEF Strays, At, Init, Fault
  <2>6. FewStrays
    BY <2>5, FS_EmptySet DEF FewStrays
  <2> QED
    BY <2>1, <2>3, <2>4, <2>6 DEF AttemptsInv, AttemptsCounted
<1>2. AttemptsInv /\ [Next]_vars => AttemptsInv'
  BY ShapeNext, HandsNext, StraysNext, AttemptsNext DEF AttemptsInv
<1> QED
  BY <1>1, <1>2, PTL DEF Spec

(* Type correctness of the job, for any number of processes, ids and faults.*)
(* What takes an argument is the bound on attemptCount: a run that has lost *)
(* its lock counts an attempt of its own for each lapse, and no more.       *)
THEOREM JobTypes == Spec => []TypeOK
<1>1. ASSUME AttemptsInv
      PROVE  TypeOK
  <2>1. ASSUME NEW x \in DOMAIN attempts
        PROVE  attempts[x] \in 0..(MaxAttempts + faults["lapse"])
    <3>1. /\ IsFiniteSet(Counting(x))
          /\ attempts[x] + Cardinality(Counting(x)) <= MaxAttempts + faults["lapse"]
      BY <1>1 DEF AttemptsInv, AttemptsCounted
    <3>2. Cardinality(Counting(x)) \in Nat /\ attempts[x] \in Nat /\ faults["lapse"] \in Nat /\ MaxAttempts \in Nat
      BY <1>1, <3>1, FS_CardinalityType, JobAssumption DEF AttemptsInv, Shape, Fault
    <3> QED
      BY <3>1, <3>2
  <2> QED
    BY <1>1, <2>1 DEF TypeOK, AttemptsInv, Shape
<1> QED
  BY <1>1, AttemptsAlways, PTL

(***************************************************************************)
(* The segment.                                                            *)
(***************************************************************************)

(* No row up to a point of each table is still open; and who has its latest *)
(* row there, and may still expire, is watched.                             *)
AllIn(s) ==
  \A tab \in Table : \A i \in DOMAIN rows[tab] : ~rows[tab][i].committed => i > s[tab]
Expiring == {"RECEIVED_PREPARE", "RESERVED"}
UpTo(s, x) == Of(x) # {} /\ Max(Of(x)) <= s[TableOf(x)] /\ StateOf(x) \in Expiring
NoHole(s) == \A x \in Id : UpTo(s, x) => x \in timeoutRow

SegmentInv ==
  /\ AllIn(segment) /\ NoHole(segment)
  /\ \A p \in Process : At(p, "expire") => AllIn(run[p].from) /\ NoHole(run[p].from)

LEMMA OfFacts ==
  ASSUME Shape, NEW x \in Id
  PROVE  \A i : i \in Of(x) <=> /\ i \in 1..Len(rows[TableOf(x)])
                                /\ rows[TableOf(x)][i].id = x /\ rows[TableOf(x)][i].committed
BY TableFacts, TableOfId DEF Of

(* The rows of an id only become more, and new ones are beyond the point.   *)
LEMMA OfGrows ==
  ASSUME Shape, [Next]_vars, NEW x \in Id
  PROVE  /\ Of(x) \subseteq Of(x)'
         /\ \A i \in Of(x)' : rows'[TableOf(x)][i].state \in State
         /\ Of(x)' = Of(x) => StateOf(x)' = StateOf(x)
<1> DEFINE tb == TableOf(x)
<1>1. tb \in Table
  BY TableOfId
<1>2. /\ Len(rows'[tb]) \in Nat /\ Len(rows'[tb]) >= Len(rows[tb]) /\ Len(rows[tb]) \in Nat
      /\ \A i \in 1..Len(rows[tb]) :
           /\ rows'[tb][i].id = rows[tb][i].id
           /\ rows'[tb][i].state = rows[tb][i].state
           /\ rows[tb][i].committed => rows'[tb][i].committed
  BY <1>1, RowsGrow, TableFacts
<1>3. Shape' /\ \A i \in Of(x)' : i \in 1..Len(rows'[tb])
  <2>1. Shape'
    BY ShapeNext
  <2>2. DOMAIN rows'[tb] = 1..Len(rows'[tb])
    BY <1>1, RowsGrow
  <2> QED
    BY <2>1, <2>2 DEF Of
<1>4. Of(x) \subseteq Of(x)'
  <2>1. DOMAIN rows'[tb] = 1..Len(rows'[tb]) /\ DOMAIN rows[tb] = 1..Len(rows[tb])
    BY <1>1, RowsGrow, TableFacts
  <2> QED
    BY <1>2, <2>1 DEF Of
<1>5. ASSUME Of(x)' = Of(x)
      PROVE  StateOf(x)' = StateOf(x)
  <2>1. CASE Of(x) = {}
    BY <1>5, <2>1 DEF StateOf, Latest
  <2>2. CASE Of(x) # {}
    <3>1. Max(Of(x)) \in 1..Len(rows[tb])
      BY <2>2, LatestRow
    <3>2. StateOf(x) = rows[tb][Max(Of(x))].state
      BY <2>2 DEF StateOf, Latest
    <3>3. StateOf(x)' = rows'[tb][Max(Of(x)')].state
      BY <1>5, <2>2 DEF StateOf, Latest
    <3> QED
      BY <1>2, <1>5, <3>1, <3>2, <3>3
  <2> QED
    BY <2>1, <2>2
<1>6. \A i \in Of(x)' : rows'[tb][i].state \in State
  <2>1. rows'[tb] \in Seq(Row)
    BY <1>1, RowsGrow
  <2>2. \A i \in 1..Len(rows'[tb]) : rows'[tb][i] \in Row
    BY <2>1, ElementOfSeq
  <2> QED
    BY <1>3, <2>2 DEF Row
<1> QED
  BY <1>4, <1>5, <1>6

LEMMA BeyondThePoint ==
  ASSUME Shape, [Next]_vars, NEW s \in [Table -> Nat], AllIn(s),
         \A tab \in Table : s[tab] <= Len(rows[tab])
  PROVE  /\ \A tab \in Table : \A i \in DOMAIN rows'[tab] : ~rows'[tab][i].committed => i > s[tab]
         /\ \A x \in Id : Of(x)' # {} /\ Max(Of(x)') <= s[TableOf(x)]
                          => Of(x)' = Of(x) /\ StateOf(x)' = StateOf(x)
<1>1. ASSUME NEW tab \in Table, NEW i \in DOMAIN rows'[tab], ~rows'[tab][i].committed
      PROVE  i > s[tab]
  <2>1. /\ Len(rows[tab]) \in Nat /\ DOMAIN rows[tab] = 1..Len(rows[tab])
        /\ i \in 1..Len(rows'[tab]) /\ Len(rows'[tab]) \in Nat
        /\ \A j \in 1..Len(rows[tab]) : rows[tab][j].committed => rows'[tab][j].committed
        /\ s[tab] \in Nat /\ s[tab] <= Len(rows[tab])
    BY <1>1, RowsGrow, TableFacts
  <2>2. CASE i \in 1..Len(rows[tab])
    BY <1>1, <2>1, <2>2 DEF AllIn
  <2>3. CASE i > Len(rows[tab])
    BY <2>1, <2>3
  <2> QED
    BY <2>1, <2>2, <2>3
<1>2. ASSUME NEW x \in Id, Of(x)' # {}, Max(Of(x)') <= s[TableOf(x)]
      PROVE  Of(x)' = Of(x) /\ StateOf(x)' = StateOf(x)
  <2> DEFINE tb == TableOf(x)
  <2>1. tb \in Table
    BY TableOfId
  <2>2. /\ Len(rows[tb]) \in Nat /\ DOMAIN rows[tb] = 1..Len(rows[tb])
        /\ Len(rows'[tb]) \in Nat /\ DOMAIN rows'[tb] = 1..Len(rows'[tb])
        /\ \A j \in 1..Len(rows[tb]) : rows'[tb][j].id = rows[tb][j].id
        /\ s[tb] \in Nat /\ s[tb] <= Len(rows[tb])
    BY <2>1, RowsGrow, TableFacts
  <2>3. Of(x)' \in SUBSET Nat /\ \A i \in Of(x)' : i <= Len(rows'[tb])
    BY <2>2 DEF Of
  <2>4. \A i \in Of(x)' : i <= Max(Of(x)')
    <3> DEFINE S == Of(x)'
               n == Len(rows'[tb])
    <3>1. S \in SUBSET Nat /\ S # {} /\ n \in Nat /\ \A i \in S : i <= n
      BY <1>2, <2>2, <2>3
    <3> HIDE DEF S, n
    <3>2. \A y \in S : y <= Max(S)
      BY <3>1, Largest
    <3> QED
      BY <3>2 DEF S
  <2>5. Max(Of(x)') \in Nat
    <3> DEFINE S == Of(x)'
               n == Len(rows'[tb])
    <3>1. S \in SUBSET Nat /\ S # {} /\ n \in Nat /\ \A i \in S : i <= n
      BY <1>2, <2>2, <2>3
    <3> HIDE DEF S, n
    <3>2. Max(S) \in S
      BY <3>1, Largest
    <3>3. Max(S) \in Nat
      BY <3>1, <3>2
    <3> QED
      BY <3>3 DEF S
  <2>6. ASSUME NEW i \in Of(x)'
        PROVE  i \in Of(x)
    <3>1. i \in Nat /\ i <= s[tb] /\ i \in DOMAIN rows'[tb] /\ rows'[tb][i].id = x
      <4>1. i \in Nat /\ i \in DOMAIN rows'[tb] /\ rows'[tb][i].id = x
        BY <2>3 DEF Of
      <4>2. i <= Max(Of(x)') /\ Max(Of(x)') <= s[tb]
        BY <1>2, <2>4
      <4> QED
        BY <2>2, <2>5, <4>1, <4>2
    <3>2. i \in 1..Len(rows[tb])
      BY <2>2, <3>1
    <3>3. rows[tb][i].id = x
      BY <2>2, <3>1, <3>2
    <3>4. rows[tb][i].committed
      BY <2>1, <2>2, <3>1, <3>2 DEF AllIn
    <3> QED
      BY <2>2, <3>2, <3>3, <3>4 DEF Of
  <2>7. Of(x)' = Of(x)
    BY <2>6, OfGrows
  <2> QED
    BY <2>7, OfGrows
<1> QED
  BY <1>1, <1>2

(* A timeout row that may still be needed is kept.                          *)
LEMMA TimeoutRowsStay ==
  ASSUME Shape, [Next]_vars, NEW x \in timeoutRow, StateOf(x) \in Expiring
  PROVE  x \in timeoutRow'
<1>1. ASSUME NEW p \in Process, ReadIntervals(p)
      PROVE  x \in timeoutRow'
  BY <1>1 DEF ReadIntervals, Expiring, Cleaned
<1>2. ASSUME NEW p \in Process, TimeoutExpireReserved(p)
      PROVE  x \in timeoutRow'
  BY <1>2 DEF TimeoutExpireReserved, Watched
<1>3. timeoutRow' = timeoutRow \/ \E p \in Process : ReadIntervals(p) \/ TimeoutExpireReserved(p)
  BY DEF Next, vars, tables, InsertStateChange, CommitStateChange, Expire, RunStep, Tick, ListTimedOut,
         ReservedForwardedTransfers, ProcessTimedOut, ProcessForwarded, IncrementForwardedAttemptCount,
         Finish, Fail, Die, LockExpires, Lapse
<1> QED
  BY <1>1, <1>2, <1>3

LEMMA HolesStayClosed ==
  ASSUME Shape, [Next]_vars, NEW s \in [Table -> Nat], AllIn(s), NoHole(s),
         \A tab \in Table : s[tab] <= Len(rows[tab])
  PROVE  /\ \A tab \in Table : \A i \in DOMAIN rows'[tab] : ~rows'[tab][i].committed => i > s[tab]
         /\ \A x \in Id : Of(x)' # {} /\ Max(Of(x)') <= s[TableOf(x)] /\ StateOf(x)' \in Expiring
                          => x \in timeoutRow'
BY BeyondThePoint, TimeoutRowsStay DEF NoHole, UpTo

(* The run that moves the segment has looked at what it moves it past.      *)
LEMMA SegmentMoves ==
  ASSUME Shape, SegmentInv, NEW p \in Process, TimeoutExpireReserved(p)
  PROVE  AllIn(segment)' /\ NoHole(segment)'
<1> DEFINE s == run[p].to
           f == run[p].from
<1>1. /\ s \in [Table -> Nat] /\ f \in [Table -> Nat] /\ segment' = s
      /\ \A tab \in Table : s[tab] <= Len(rows[tab])
      /\ timeoutRow' = Watched(p)
  BY DEF TimeoutExpireReserved, SegmentAfter, Shape, Run
<1>2. [Next]_vars
  BY DEF Next, RunStep
<1>3. AllIn(s)
  BY DEF TimeoutExpireReserved, NothingOpen, AllIn
<1>4. NoHole(f)
  BY DEF TimeoutExpireReserved, SegmentInv
<1>5. ASSUME NEW x \in Id, UpTo(s, x)
      PROVE  x \in Watched(p)
  <2> DEFINE tb == TableOf(x)
             m == Max(Of(x))
  <2>1. /\ m \in Of(x) /\ m \in 1..Len(rows[tb]) /\ \A i \in Of(x) : i <= m
        /\ StateOf(x) = rows[tb][m].state
    BY <1>5, LatestRow DEF UpTo, StateOf
  <2>2. tb \in Table /\ Len(rows[tb]) \in Nat /\ s[tb] \in Nat /\ f[tb] \in Nat
    BY <1>1, TableOfId, TableFacts
  <2>3. CASE m <= f[tb]
    BY <1>4, <1>5, <2>3 DEF NoHole, UpTo, Watched
  <2>4. CASE m > f[tb]
    <3> DEFINE W == Within(p, x)
    <3>1. m \in W /\ W \in SUBSET Of(x)
      BY <1>5, <2>1, <2>2, <2>4 DEF Within, UpTo
    <3>2. /\ Max(W) \in W /\ \A i \in W : i <= Max(W)
          /\ Latest(x, W) = rows[tb][Max(W)].state /\ Max(W) \in 1..Len(rows[tb])
      <4> HIDE DEF W
      <4> QED
        BY <3>1, LatestRow
    <3>3. Max(W) = m
      <4> HIDE DEF W, m
      <4>1. Max(W) <= m /\ m <= Max(W)
        BY <2>1, <3>1, <3>2
      <4> QED
        BY <2>1, <2>2, <3>2, <4>1
    <3>4. Latest(x, W) \in Expiring
      BY <1>5, <2>1, <3>2, <3>3 DEF UpTo
    <3> QED
      BY <3>4 DEF Watched, Found, Expiring
  <2> QED
    BY <2>1, <2>2, <2>3, <2>4
<1> HIDE DEF s, f
<1>6. /\ \A tab \in Table : \A i \in DOMAIN rows'[tab] : ~rows'[tab][i].committed => i > s[tab]
      /\ \A x \in Id : Of(x)' # {} /\ Max(Of(x)') <= s[TableOf(x)]
                       => Of(x)' = Of(x) /\ StateOf(x)' = StateOf(x)
  BY <1>1, <1>2, <1>3, BeyondThePoint
<1>7. ASSUME NEW x \in Id, Of(x)' # {}, Max(Of(x)') <= s[TableOf(x)], StateOf(x)' \in Expiring
      PROVE  x \in timeoutRow'
  <2>1. Of(x)' = Of(x) /\ StateOf(x)' = StateOf(x)
    BY <1>6, <1>7
  <2>2. UpTo(s, x)
    BY <1>7, <2>1 DEF UpTo
  <2> QED
    BY <1>1, <1>5, <2>2
<1> QED
  BY <1>1, <1>6, <1>7 DEF AllIn, NoHole, UpTo

LEMMA SegmentNext ==
  ASSUME Shape, SegmentInv, [Next]_vars
  PROVE  SegmentInv'
<1>1. ASSUME NEW s \in [Table -> Nat], AllIn(s), NoHole(s), \A tab \in Table : s[tab] <= Len(rows[tab])
      PROVE  /\ \A tab \in Table : \A i \in DOMAIN rows'[tab] : ~rows'[tab][i].committed => i > s[tab]
             /\ \A x \in Id : Of(x)' # {} /\ Max(Of(x)') <= s[TableOf(x)] /\ StateOf(x)' \in Expiring
                              => x \in timeoutRow'
  BY <1>1, HolesStayClosed
<1>2. /\ segment \in [Table -> Nat] /\ AllIn(segment) /\ NoHole(segment)
      /\ \A tab \in Table : segment[tab] <= Len(rows[tab])
  BY DEF Shape, SegmentInv
<1>3. /\ \A tab \in Table : \A i \in DOMAIN rows'[tab] : ~rows'[tab][i].committed => i > segment[tab]
      /\ \A x \in Id : Of(x)' # {} /\ Max(Of(x)') <= segment[TableOf(x)] /\ StateOf(x)' \in Expiring
                       => x \in timeoutRow'
  BY <1>1, <1>2
<1>4. AllIn(segment)' /\ NoHole(segment)'
  <2>1. CASE segment' = segment
    BY <1>3, <2>1 DEF AllIn, NoHole, UpTo
  <2>2. segment' = segment \/ \E p \in Process : TimeoutExpireReserved(p)
    BY DEF Next, vars, tables, InsertStateChange, CommitStateChange, Expire, RunStep, Tick, ReadIntervals,
           ListTimedOut, ReservedForwardedTransfers, ProcessTimedOut, ProcessForwarded,
           IncrementForwardedAttemptCount, Finish, Fail, Die, LockExpires, Lapse
  <2> QED
    BY <2>1, <2>2, SegmentMoves
<1>5. ASSUME NEW q \in Process, run'[q].pc = "expire"
      PROVE  AllIn(run[q].from)' /\ NoHole(run[q].from)'
  <2>1. run'[q].from = segment \/ (At(q, "expire") /\ run'[q] = run[q])
    <3>1. CASE run' = run
      BY <1>5, <3>1 DEF At
    <3>2. ASSUME NEW p \in Process, RunStep(p) \/ Fail(p) \/ Die(p)
          PROVE  run'[q].from = segment \/ (At(q, "expire") /\ run'[q] = run[q])
      <4>1. Others(p) /\ (run'[p].pc = "expire" => run'[p].from = segment)
        BY <3>2, RunFields, IdleIs DEF RunStep
      <4> QED
        BY <1>5, <4>1 DEF At, Others
    <3>3. run' = run \/ \E p \in Process : RunStep(p) \/ Fail(p) \/ Die(p)
      BY DEF Next, vars, InsertStateChange, CommitStateChange, Expire, LockExpires, Lapse
    <3> QED
      BY <3>1, <3>2, <3>3
  <2>2. CASE run'[q].from = segment
    BY <1>3, <2>2 DEF AllIn, NoHole, UpTo
  <2>3. CASE At(q, "expire") /\ run'[q] = run[q]
    <3> DEFINE s == run[q].from
    <3>1. s \in [Table -> Nat] /\ AllIn(s) /\ NoHole(s)
      BY <2>3 DEF Shape, Run, SegmentInv
    <3>2. \A tab \in Table : s[tab] <= Len(rows[tab])
      BY <2>3 DEF Shape, Run
    <3>3. /\ \A tab \in Table : \A i \in DOMAIN rows'[tab] : ~rows'[tab][i].committed => i > s[tab]
          /\ \A x \in Id : Of(x)' # {} /\ Max(Of(x)') <= s[TableOf(x)] /\ StateOf(x)' \in Expiring
                           => x \in timeoutRow'
      <4> HIDE DEF s
      <4> QED
        BY <1>1, <3>1, <3>2
    <3> QED
      BY <2>3, <3>3 DEF AllIn, NoHole, UpTo
  <2> QED
    BY <2>1, <2>2, <2>3
<1> QED
  BY <1>4, <1>5 DEF SegmentInv, At

JobInv == AttemptsInv /\ SegmentInv

LEMMA JobAlways == Spec => []JobInv
<1>1. ASSUME Init
      PROVE  SegmentInv
  <2>1. \A tab \in Table : rows[tab] = <<>>
    BY <1>1 DEF Init
  <2>2. \A tab \in Table : DOMAIN rows[tab] = {}
    BY <2>1
  <2>3. \A x \in Id : Of(x) = {}
    BY <2>2, TableOfId DEF Of
  <2>4. \A p \in Process : ~At(p, "expire")
    BY <1>1, IdleIs DEF Init, At
  <2> QED
    BY <2>2, <2>3, <2>4 DEF SegmentInv, AllIn, NoHole, UpTo
<1>2. AttemptsInv /\ SegmentInv /\ [Next]_vars => SegmentInv'
  BY SegmentNext DEF AttemptsInv
<1> QED
  BY <1>1, <1>2, AttemptsAlways, PTL DEF Spec, JobInv

(* The segment hides nothing (timeoutExpireReserved and the two segment     *)
(* rows): an id whose state changes the job will not look at again, and     *)
(* which can still expire, is in the timeout tables, whatever fails, dies   *)
(* or loses its lock in between, and for any number of processes.           *)
THEOREM NothingIsOverlooked == Spec => []NothingOverlooked
<1>1. ASSUME JobInv
      PROVE  NothingOverlooked
  BY <1>1 DEF JobInv, SegmentInv, NoHole, UpTo, NothingOverlooked, Expiring
<1> QED
  BY <1>1, JobAlways, PTL

(***************************************************************************)
(* The timeout messages.                                                   *)
(***************************************************************************)
After == {"RESERVED_TIMEOUT", "EXPIRED_RESERVED"}

(* What was timed out is expired next, if anything; its row is committed.   *)
Onward ==
  \A tab \in Table : \A i \in DOMAIN rows[tab] :
    /\ rows[tab][i].state = "RESERVED_TIMEOUT" => rows[tab][i].committed
    /\ \A j \in DOMAIN rows[tab] :
         i < j /\ rows[tab][i].id = rows[tab][j].id /\ rows[tab][i].state \in After
         => rows[tab][j].state = "EXPIRED_RESERVED"

LEMMA StaysAfter ==
  ASSUME Shape, Onward, NEW x \in Id, NEW i \in Of(x), rows[TableOf(x)][i].state \in After,
         NEW is \in SUBSET Of(x), is # {}, i <= Max(is)
  PROVE  Latest(x, is) \in After
<1> DEFINE tb == TableOf(x)
           m == Max(is)
<1>1. m \in is /\ m \in 1..Len(rows[tb]) /\ Latest(x, is) = rows[tb][m].state
  BY LatestRow
<1>2. /\ DOMAIN rows[tb] = 1..Len(rows[tb]) /\ Len(rows[tb]) \in Nat /\ tb \in Table
      /\ i \in 1..Len(rows[tb]) /\ rows[tb][i].id = x /\ rows[tb][m].id = x
  BY <1>1, TableFacts, TableOfId DEF Of
<1>3. CASE i = m
  BY <1>1, <1>3
<1>4. CASE i < m
  <2>1. rows[tb][m].state = "EXPIRED_RESERVED"
    BY <1>1, <1>2, <1>4 DEF Onward
  <2> QED
    BY <1>1, <2>1 DEF After
<1> HIDE DEF m
<1> QED
  BY <1>1, <1>2, <1>3, <1>4 DEF m

LEMMA OnwardNext ==
  ASSUME Shape, Onward, [Next]_vars
  PROVE  Onward'
<1> DEFINE On(tab) == \A i \in 1..Len(rows'[tab]) :
             /\ rows'[tab][i].state = "RESERVED_TIMEOUT" => rows'[tab][i].committed
             /\ \A j \in 1..Len(rows'[tab]) :
                  i < j /\ rows'[tab][i].id = rows'[tab][j].id /\ rows'[tab][i].state \in After
                  => rows'[tab][j].state = "EXPIRED_RESERVED"
<1>1. ASSUME NEW tab \in Table
      PROVE  /\ Len(rows[tab]) \in Nat /\ Len(rows'[tab]) \in Nat
             /\ DOMAIN rows[tab] = 1..Len(rows[tab]) /\ DOMAIN rows'[tab] = 1..Len(rows'[tab])
             /\ Len(rows'[tab]) >= Len(rows[tab])
             /\ \A i \in 1..Len(rows[tab]) : /\ rows'[tab][i].id = rows[tab][i].id
                                             /\ rows'[tab][i].state = rows[tab][i].state
                                             /\ rows[tab][i].committed => rows'[tab][i].committed
  BY RowsGrow, TableFacts
<1>2. SUFFICES ASSUME NEW tab \in Table
               PROVE  On(tab)
  BY <1>1 DEF Onward
<1> DEFINE n == Len(rows[tab])
(* A row beyond the old ones is the mark of an id that is due, or a handler's.*)
<1>3. ASSUME NEW j \in 1..Len(rows'[tab]), j > n
      PROVE  \E x \in Id :
               /\ rows'[tab][j].id = x /\ TableOf(x) = tab /\ ~Open(x)
               /\ rows'[tab][j].state = "RESERVED_TIMEOUT" => rows'[tab][j].committed
               /\ StateOf(x) \in After => rows'[tab][j].state = "EXPIRED_RESERVED"
               /\ \A i \in 1..Len(rows'[tab]) : ~(i > n /\ i < j /\ rows'[tab][i].id = x)
  <2>1. CASE rows' = rows
    BY <1>1, <1>3, <2>1
  <2>2. ASSUME NEW x \in Id, CommitStateChange(x)
        PROVE  FALSE
    <3>1. Len(rows'[tab]) = Len(rows[tab])
      BY <2>2, RowsCommitted
    <3> QED
      BY <1>1, <1>3, <3>1
  <2>3. ASSUME NEW x \in Id, InsertStateChange(x)
        PROVE  /\ rows'[tab][j].id = x /\ TableOf(x) = tab /\ ~Open(x)
               /\ rows'[tab][j].state = "RESERVED_TIMEOUT" => rows'[tab][j].committed
               /\ StateOf(x) \in After => rows'[tab][j].state = "EXPIRED_RESERVED"
               /\ \A i \in 1..Len(rows'[tab]) : ~(i > n /\ i < j)
    <3>1. PICK s \in State :
           /\ s \in Successors(x)[StateOf(x)]
           /\ Len(rows'[TableOf(x)]) = Len(rows[TableOf(x)]) + 1
           /\ rows'[TableOf(x)][Len(rows[TableOf(x)]) + 1] = [id |-> x, state |-> s, committed |-> FALSE]
           /\ \A tt \in Table \ {TableOf(x)} : rows'[tt] = rows[tt]
      BY <2>3, RowsInserted
    <3>2. TableOf(x) = tab
      BY <1>1, <1>3, <3>1
    <3>3. j = n + 1
      BY <1>1, <1>3, <3>1, <3>2
    <3>4. rows'[tab][j] = [id |-> x, state |-> s, committed |-> FALSE]
      BY <3>1, <3>2, <3>3
    <3>5. ~Open(x) /\ StateOf(x) \in DOMAIN Successors(x)
      BY <2>3 DEF InsertStateChange
    <3>6. s # "RESERVED_TIMEOUT" /\ (StateOf(x) \in After => s = "EXPIRED_RESERVED")
      BY <3>1, <3>5 DEF Successors, After
    <3>7. \A i \in 1..Len(rows'[tab]) : ~(i > n /\ i < j)
      BY <1>1, <3>3
    <3> QED
      BY <3>2, <3>4, <3>5, <3>6, <3>7
  <2>4. ASSUME NEW p \in Process, TimeoutExpireReserved(p)
        PROVE  \E x \in Id :
               /\ rows'[tab][j].id = x /\ TableOf(x) = tab /\ ~Open(x)
               /\ rows'[tab][j].committed
               /\ StateOf(x) \in DOMAIN Marked
               /\ \A i \in 1..Len(rows'[tab]) : ~(i > n /\ i < j /\ rows'[tab][i].id = x)
    <3>1. rows'[tab][j].id \in Due(p) \intersect IdsOf(tab) /\ rows'[tab][j].committed
      <4>1. j \in n + 1..Len(rows'[tab])
        BY <1>1, <1>3
      <4> QED
        BY <2>4, <4>1, RowsMarked
    <3>2. PICK x \in Id : x = rows'[tab][j].id /\ TableOf(x) = tab /\ x \in Watched(p) /\ StateOf(x) \in DOMAIN Marked
      BY <3>1, IdsOfTable DEF Due
    <3>3. ~Open(x)
      BY <2>4, <3>2 DEF TimeoutExpireReserved, NothingOpen, Open
    <3>4. \A i \in 1..Len(rows'[tab]) : ~(i > n /\ i < j /\ rows'[tab][i].id = x)
      <4> TAKE i \in 1..Len(rows'[tab])
      <4>1. i > n => i \in n + 1..Len(rows'[tab]) /\ j \in n + 1..Len(rows'[tab])
        BY <1>1, <1>3
      <4>2. \A k, l \in n + 1..Len(rows'[tab]) : rows'[tab][k].id = rows'[tab][l].id => k = l
        BY <2>4, RowsMarked
      <4> QED
        BY <1>1, <3>2, <4>1, <4>2
    <3> QED
      BY <3>1, <3>2, <3>3, <3>4
  <2>5. \A s \in DOMAIN Marked : s \notin After
    BY MarkedStates DEF After
  <2>6. \/ rows' = rows
        \/ \E x \in Id : InsertStateChange(x) \/ CommitStateChange(x)
        \/ \E p \in Process : TimeoutExpireReserved(p)
    BY DEF Next, vars, tables, Expire, RunStep, Tick, ReadIntervals, ListTimedOut, ReservedForwardedTransfers,
           ProcessTimedOut, ProcessForwarded, IncrementForwardedAttemptCount, Finish, Fail, Die, LockExpires, Lapse
  <2> QED
    BY <2>1, <2>2, <2>3, <2>4, <2>5, <2>6
<1>4. ASSUME NEW i \in 1..Len(rows'[tab]), rows'[tab][i].state = "RESERVED_TIMEOUT"
      PROVE  rows'[tab][i].committed
  <2>1. CASE i \in 1..n
    BY <1>1, <1>4, <2>1 DEF Onward
  <2>2. CASE i > n
    BY <1>3, <1>4, <2>2
  <2> QED
    BY <1>1, <2>1, <2>2
<1>5. ASSUME NEW i \in 1..Len(rows'[tab]), NEW j \in 1..Len(rows'[tab]),
             i < j, rows'[tab][i].id = rows'[tab][j].id, rows'[tab][i].state \in After
      PROVE  rows'[tab][j].state = "EXPIRED_RESERVED"
  <2>1. CASE j \in 1..n
    <3>1. i \in 1..n
      BY <1>1, <1>5, <2>1
    <3> QED
      BY <1>1, <1>5, <2>1, <3>1 DEF Onward
  <2>2. CASE j > n
    <3>1. PICK x \in Id :
               /\ rows'[tab][j].id = x /\ TableOf(x) = tab /\ ~Open(x)
               /\ StateOf(x) \in After => rows'[tab][j].state = "EXPIRED_RESERVED"
               /\ \A k \in 1..Len(rows'[tab]) : ~(k > n /\ k < j /\ rows'[tab][k].id = x)
      BY <1>3, <2>2
    <3>2. i \in 1..n
      BY <1>1, <1>5, <3>1
    <3>3. rows[tab][i].id = x /\ rows[tab][i].state \in After
      BY <1>1, <1>5, <3>1, <3>2
    <3>4. i \in Of(x)
      BY <1>1, <3>1, <3>2, <3>3 DEF Open, Of
    <3>5. Of(x) # {} /\ i <= Max(Of(x))
      BY <3>4, LatestRow
    <3>6. StateOf(x) \in After
      BY <3>1, <3>3, <3>4, <3>5, StaysAfter DEF StateOf
    <3> QED
      BY <3>1, <3>6
  <2> QED
    BY <1>1, <2>1, <2>2
<1> QED
  BY <1>4, <1>5

Timed(x) == \E i \in Of(x) : rows[TableOf(x)][i].state = "RESERVED_TIMEOUT"

(* Who a message was sent for, or is about to be, was timed out.            *)
SentWasTimed ==
  \A x \in Id :
    /\ sent[x] > 0 => Timed(x)
    /\ \A p \in Process : run[p].pc \in {"forward", "produce"} /\ x \in run[p].list => Timed(x)

(* While no lock has been lost: who was timed out in an earlier run has no  *)
(* timeout row when the next one looks for what is due, and is not found in *)
(* its interval; so who is listed has had no message.                       *)
OneRunAtATime ==
  \A x \in Id :
    /\ sent[x] <= 1
    /\ \A p \in Process :
         /\ At(p, "expire") /\ Timed(x) =>
              /\ x \notin timeoutRow
              /\ \E i \in Of(x) : rows[TableOf(x)][i].state = "RESERVED_TIMEOUT" /\ i <= run[p].to[TableOf(x)]
         /\ At(p, "list") /\ Timed(x) /\ x \in timeoutRow => sent[x] = 0
         /\ run[p].pc \in {"forward", "produce"} /\ x \in run[p].list => sent[x] = 0

MessageInv ==
  /\ Onward /\ SentWasTimed
  /\ faults["lapse"] = 0 => OneRunAtATime

LEMMA TimedIsAfter ==
  ASSUME Shape, Onward, NEW x \in Id, Timed(x)
  PROVE  StateOf(x) \in After
<1>1. PICK i \in Of(x) : rows[TableOf(x)][i].state = "RESERVED_TIMEOUT"
  BY DEF Timed
<1>2. Of(x) # {} /\ i <= Max(Of(x))
  BY LatestRow
<1> QED
  BY <1>1, <1>2, StaysAfter DEF StateOf, After

LEMMA StateIsTimed ==
  ASSUME Shape, NEW x \in Id, StateOf(x) = "RESERVED_TIMEOUT"
  PROVE  Timed(x)
<1>1. Of(x) # {}
  BY DEF StateOf, Latest
<1> QED
  BY <1>1, LatestRow DEF Timed, StateOf

LEMMA TimedStays ==
  ASSUME Shape, [Next]_vars, NEW x \in Id, Timed(x)
  PROVE  Timed(x)'
<1>1. PICK i \in Of(x) : rows[TableOf(x)][i].state = "RESERVED_TIMEOUT"
  BY DEF Timed
<1>2. i \in 1..Len(rows[TableOf(x)]) /\ TableOf(x) \in Table
  BY OfFacts, TableOfId
<1>3. rows'[TableOf(x)][i].state = "RESERVED_TIMEOUT" /\ i \in Of(x)'
  BY <1>1, <1>2, RowsGrow, OfGrows
<1> QED
  BY <1>3 DEF Timed

(* Only a run times out.                                                    *)
LEMMA OnlyARunTimesOut ==
  ASSUME Shape, Onward, [Next]_vars, NEW x \in Id, Timed(x)'
  PROVE  Timed(x) \/ \E p \in Process : TimeoutExpireReserved(p) /\ x \in Due(p)
<1> DEFINE tb == TableOf(x)
<1>1. PICK i \in Of(x)' : rows'[tb][i].state = "RESERVED_TIMEOUT"
  BY DEF Timed
<1>2. /\ tb \in Table /\ Len(rows[tb]) \in Nat /\ Len(rows'[tb]) \in Nat
      /\ DOMAIN rows[tb] = 1..Len(rows[tb]) /\ DOMAIN rows'[tb] = 1..Len(rows'[tb])
      /\ \A j \in 1..Len(rows[tb]) : rows'[tb][j].id = rows[tb][j].id /\ rows'[tb][j].state = rows[tb][j].state
  BY RowsGrow, TableFacts, TableOfId
<1>3. i \in 1..Len(rows'[tb]) /\ rows'[tb][i].id = x
  BY <1>2 DEF Of
<1>4. CASE i \in 1..Len(rows[tb])
  <2>1. rows[tb][i].id = x /\ rows[tb][i].state = "RESERVED_TIMEOUT"
    BY <1>1, <1>2, <1>3, <1>4
  <2>2. rows[tb][i].committed
    BY <1>2, <1>4, <2>1 DEF Onward
  <2>3. i \in Of(x)
    BY <1>2, <1>4, <2>1, <2>2 DEF Of
  <2> QED
    BY <2>1, <2>3 DEF Timed
<1>5. CASE i > Len(rows[tb])
  <2>1. CASE rows' = rows
    BY <1>2, <1>3, <1>5, <2>1
  <2>2. ASSUME NEW y \in Id, CommitStateChange(y)
        PROVE  FALSE
    <3>1. Len(rows'[tb]) = Len(rows[tb])
      BY <1>2, <2>2, RowsCommitted
    <3> QED
      BY <1>2, <1>3, <1>5, <3>1
  <2>3. ASSUME NEW y \in Id, InsertStateChange(y)
        PROVE  FALSE
    <3>1. PICK s \in State :
           /\ s \in Successors(y)[StateOf(y)]
           /\ Len(rows'[TableOf(y)]) = Len(rows[TableOf(y)]) + 1
           /\ rows'[TableOf(y)][Len(rows[TableOf(y)]) + 1] = [id |-> y, state |-> s, committed |-> FALSE]
           /\ \A tt \in Table \ {TableOf(y)} : rows'[tt] = rows[tt]
      BY <2>3, RowsInserted
    <3>2. TableOf(y) = tb
      BY <1>2, <1>3, <1>5, <3>1
    <3>3. i = Len(rows[tb]) + 1
      BY <1>2, <1>3, <1>5, <3>1, <3>2
    <3>4. s = "RESERVED_TIMEOUT"
      BY <1>1, <3>1, <3>2, <3>3
    <3>5. StateOf(y) \in DOMAIN Successors(y)
      BY <2>3 DEF InsertStateChange
    <3> QED
      BY <3>1, <3>4, <3>5 DEF Successors
  <2>4. ASSUME NEW p \in Process, TimeoutExpireReserved(p)
        PROVE  x \in Due(p)
    <3>1. i \in Len(rows[tb]) + 1..Len(rows'[tb])
      BY <1>2, <1>3, <1>5
    <3>2. rows'[tb][i].id \in Due(p)
      BY <1>2, <2>4, <3>1, RowsMarked
    <3> QED
      BY <1>3, <3>2
  <2>5. \/ rows' = rows
        \/ \E y \in Id : InsertStateChange(y) \/ CommitStateChange(y)
        \/ \E p \in Process : TimeoutExpireReserved(p)
    BY DEF Next, vars, tables, Expire, RunStep, Tick, ReadIntervals, ListTimedOut, ReservedForwardedTransfers,
           ProcessTimedOut, ProcessForwarded, IncrementForwardedAttemptCount, Finish, Fail, Die, LockExpires, Lapse
  <2> QED
    BY <2>1, <2>2, <2>3, <2>4, <2>5
<1> QED
  BY <1>2, <1>3, <1>4, <1>5

LEMMA SentNext ==
  ASSUME Shape, Onward, SentWasTimed, [Next]_vars
  PROVE  SentWasTimed'
<1> SUFFICES ASSUME NEW x \in Id
             PROVE  /\ sent'[x] > 0 => Timed(x)'
                    /\ \A q \in Process : run'[q].pc \in {"forward", "produce"} /\ x \in run'[q].list => Timed(x)'
  BY DEF SentWasTimed
<1>1. Timed(x) => Timed(x)'
  BY TimedStays
<1>2. CASE sent' = sent /\ run' = run
  BY <1>1, <1>2 DEF SentWasTimed
<1>3. ASSUME NEW p \in Process, RunStep(p) \/ Fail(p) \/ Die(p)
      PROVE  /\ sent'[x] > 0 => Timed(x)
             /\ Others(p)
             /\ run'[p].pc \in {"forward", "produce"} /\ x \in run'[p].list => Timed(x)
  <2> USE DEF At
  <2>1. CASE ListTimedOut(p)
    BY <2>1, RunFields, StateIsTimed DEF ListTimedOut, SentWasTimed
  <2>2. CASE ReservedForwardedTransfers(p)
    BY <2>2, RunFields DEF ReservedForwardedTransfers, SentWasTimed
  <2>3. CASE ProcessTimedOut(p)
    <3>1. PICK y \in run[p].list :
            /\ Others(p) /\ run'[p].pc = "produce"
            /\ run'[p].list = run[p].list \ {y} /\ sent' = [sent EXCEPT ![y] = @ + 1]
      BY <2>3, RunFields
    <3>2. run[p].pc = "produce"
      BY <2>3 DEF ProcessTimedOut
    <3>3. CASE x = y
      BY <3>1, <3>2, <3>3 DEF SentWasTimed
    <3>4. CASE x # y
      <4>1. sent'[x] = sent[x]
        BY <3>1, <3>4 DEF Shape
      <4> QED
        BY <3>1, <3>2, <4>1 DEF SentWasTimed
    <3> QED
      BY <3>3, <3>4
  <2>4. CASE Tick(p) \/ ReadIntervals(p) \/ TimeoutExpireReserved(p)
    BY <2>4, RunFields DEF Tick, ReadIntervals, TimeoutExpireReserved, SentWasTimed
  <2>5. CASE ProcessForwarded(p)
    BY <2>5, RunFields DEF ProcessForwarded, SentWasTimed
  <2>6. CASE IncrementForwardedAttemptCount(p)
    BY <2>6, RunFields DEF IncrementForwardedAttemptCount, SentWasTimed
  <2>7. CASE Finish(p) \/ Fail(p) \/ Die(p)
    BY <2>7, RunFields, IdleIs DEF Finish, Fail, Die, SentWasTimed
  <2> QED
    BY <1>3, <2>1, <2>2, <2>3, <2>4, <2>5, <2>6, <2>7 DEF RunStep
<1>4. \/ sent' = sent /\ run' = run
      \/ \E p \in Process : RunStep(p) \/ Fail(p) \/ Die(p)
  BY DEF Next, vars, InsertStateChange, CommitStateChange, Expire, LockExpires, Lapse
<1>5. ASSUME NEW p \in Process, RunStep(p) \/ Fail(p) \/ Die(p), NEW q \in Process,
             run'[q].pc \in {"forward", "produce"}, x \in run'[q].list
      PROVE  Timed(x)'
  <2>1. CASE q = p
    BY <1>1, <1>3, <1>5, <2>1
  <2>2. CASE q # p
    BY <1>1, <1>3, <1>5, <2>2 DEF Others, SentWasTimed
  <2> QED
    BY <2>1, <2>2
<1> QED
  BY <1>1, <1>2, <1>3, <1>4, <1>5

(* With no lapse the run with the lock is the only one.                     *)
LEMMA TheOnlyRun ==
  ASSUME FewStrays, faults["lapse"] = 0, NEW p \in Process, NEW q \in Process,
         ~At(p, "idle"), ~At(q, "idle")
  PROVE  p = q
<1>1. Cardinality(Strays) \in Nat
  BY FS_CardinalityType DEF FewStrays
<1>2. Strays = {}
  BY <1>1, FS_EmptySet DEF FewStrays
<1> QED
  BY <1>2 DEF Strays

(* The marks of a run are for those that have had no message.               *)
LEMMA WatchedIsNew ==
  ASSUME Shape, Onward, OneRunAtATime, NEW p \in Process, At(p, "expire"), NEW x \in Id, Timed(x)
  PROVE  x \notin Watched(p)
<1> DEFINE tb == TableOf(x)
           W == Within(p, x)
           from == run[p].from[tb]
           to == run[p].to[tb]
<1>1. x \notin timeoutRow /\ \E i \in Of(x) : rows[tb][i].state = "RESERVED_TIMEOUT" /\ i <= to
  BY DEF OneRunAtATime
<1>2. PICK i \in Of(x) : rows[tb][i].state = "RESERVED_TIMEOUT" /\ i <= to
  BY <1>1
<1>3. SUFFICES ASSUME x \in Found(p, {"RECEIVED_PREPARE", "RESERVED"})
               PROVE  FALSE
  BY <1>1 DEF Watched
<1>4. Latest(x, W) \in {"RECEIVED_PREPARE", "RESERVED"}
  BY <1>3 DEF Found
<1>5. W \in SUBSET Of(x) /\ W # {}
  BY <1>4 DEF Within, Latest
<1>6. Max(W) \in W /\ \A j \in W : j <= Max(W)
  <2> HIDE DEF W
  <2> QED
    BY <1>5, LatestRow
<1>7. /\ from \in Nat /\ to \in Nat /\ \A j \in Of(x) : j \in Nat
  BY TableOfId, OfFacts DEF Shape, Run
<1>8. i <= Max(W)
  <2>1. CASE from < i
    BY <1>2, <1>6, <2>1 DEF Within
  <2>2. CASE i <= from
    <3>1. from < Max(W)
      BY <1>6 DEF Within
    <3>2. Max(W) \in Nat
      BY <1>5, <1>6, <1>7
    <3> QED
      BY <1>7, <2>2, <3>1, <3>2
  <2> QED
    BY <1>7, <2>1, <2>2
<1>9. Latest(x, W) \in After
  <2> HIDE DEF W
  <2> QED
    BY <1>2, <1>5, <1>8, StaysAfter DEF After
<1> QED
  BY <1>4, <1>9 DEF After

LEMMA OneRunNext ==
  ASSUME Shape, Hands, FewStrays, Onward, SentWasTimed, OneRunAtATime, faults["lapse"] = 0, [Next]_vars
  PROVE  OneRunAtATime'
<1> DEFINE One(x, p) ==
      /\ run'[p].pc = "expire" /\ Timed(x)' =>
           /\ x \notin timeoutRow'
           /\ \E i \in Of(x)' : rows'[TableOf(x)][i].state = "RESERVED_TIMEOUT" /\ i <= run'[p].to[TableOf(x)]
      /\ run'[p].pc = "list" /\ Timed(x)' /\ x \in timeoutRow' => sent'[x] = 0
      /\ run'[p].pc \in {"forward", "produce"} /\ x \in run'[p].list => sent'[x] = 0
<1>1. SUFFICES ASSUME NEW x \in Id
               PROVE  sent'[x] <= 1 /\ \A p \in Process : One(x, p)
  BY DEF OneRunAtATime, At
<1>2. sent[x] \in Nat /\ sent[x] <= 1 /\ (~Timed(x) => sent[x] = 0)
  BY DEF Shape, OneRunAtATime, SentWasTimed
<1>3. ASSUME NEW p \in Process, RunStep(p) \/ Fail(p) \/ Die(p), NEW q \in Process, q # p
      PROVE  One(x, q)
  <2>1. At(q, "idle")
    <3>1. CASE Tick(p)
      <4>1. lock # q
        BY <3>1, JobAssumption DEF Tick, Acquired
      <4>2. Cardinality(Strays) \in Nat
        BY FS_CardinalityType DEF FewStrays
      <4>3. Strays = {}
        BY <4>2, FS_EmptySet DEF FewStrays
      <4> QED
        BY <4>1, <4>3 DEF Strays
    <3>2. CASE Fail(p) \/ Die(p)
      <4>1. run[p].pc # "idle"
        BY <3>2, JobAssumption DEF Fail, Die, Happens, Fault
      <4> QED
        BY <1>3, <4>1, TheOnlyRun DEF At
    <3>3. CASE RunStep(p) /\ ~Tick(p)
      <4>1. ~At(p, "idle")
        BY <3>3 DEF RunStep, ReadIntervals, TimeoutExpireReserved, ListTimedOut, ReservedForwardedTransfers,
                    ProcessTimedOut, ProcessForwarded, IncrementForwardedAttemptCount, Finish, At
      <4> QED
        BY <1>3, <4>1, TheOnlyRun
    <3> QED
      BY <1>3, <3>1, <3>2, <3>3
  <2>2. run'[q].pc = "idle"
    BY <1>3, <2>1, RunFields DEF RunStep, Others, At
  <2> QED
    BY <2>2
<1>4. ASSUME NEW p \in Process, RunStep(p) \/ Fail(p) \/ Die(p)
      PROVE  sent'[x] <= 1 /\ One(x, p)
  <2> USE DEF At
  <2>1. CASE Tick(p)
    BY <1>2, <2>1, RunFields DEF Tick
  <2>2. CASE ReadIntervals(p)
    <3>1. /\ rows' = rows /\ sent' = sent
          /\ run'[p].pc = "expire" /\ run'[p].to = [tab \in Table |-> LatestCommitted(tab)]
          /\ timeoutRow' = {y \in timeoutRow : StateOf(y) \notin Cleaned}
      BY <2>2, RunFields DEF ReadIntervals
    <3>2. Of(x)' = Of(x) /\ (Timed(x)' <=> Timed(x))
      BY <3>1 DEF Of, Timed
    <3>3. ASSUME Timed(x)
          PROVE  /\ x \notin timeoutRow'
                 /\ \E i \in Of(x)' : rows'[TableOf(x)][i].state = "RESERVED_TIMEOUT" /\ i <= run'[p].to[TableOf(x)]
      <4>1. StateOf(x) \in After
        BY <3>3, TimedIsAfter
      <4>2. PICK i \in Of(x) : rows[TableOf(x)][i].state = "RESERVED_TIMEOUT"
        BY <3>3 DEF Timed
      <4>3. TableOf(x) \in Table /\ i \in DOMAIN rows[TableOf(x)] /\ rows[TableOf(x)][i].committed
        BY <4>2, TableOfId DEF Of
      <4>4. i <= LatestCommitted(TableOf(x))
        BY <4>3, LatestCommittedType
      <4> QED
        BY <3>1, <3>2, <4>1, <4>2, <4>3, <4>4 DEF After, Cleaned
    <3> QED
      BY <1>2, <3>1, <3>2, <3>3
  <2>3. CASE TimeoutExpireReserved(p)
    <3>1. sent' = sent /\ run'[p].pc = "list" /\ timeoutRow' = Watched(p) /\ At(p, "expire")
      BY <2>3, RunFields DEF TimeoutExpireReserved
    <3>2. x \in Watched(p) => ~Timed(x)
      BY <3>1, WatchedIsNew
    <3> QED
      BY <1>2, <3>1, <3>2
  <2>4. CASE ListTimedOut(p)
    <3>1. /\ sent' = sent /\ run'[p].pc = "forward" /\ At(p, "list")
          /\ run'[p].list = {y \in timeoutRow \intersect expired : StateOf(y) = "RESERVED_TIMEOUT"}
      BY <2>4, RunFields DEF ListTimedOut
    <3>2. x \in run'[p].list => sent[x] = 0
      BY <3>1, StateIsTimed DEF OneRunAtATime
    <3> QED
      BY <1>2, <3>1, <3>2
  <2>5. CASE ReservedForwardedTransfers(p)
    BY <1>2, <2>5, RunFields DEF ReservedForwardedTransfers, OneRunAtATime
  <2>6. CASE ProcessTimedOut(p)
    <3>1. PICK y \in run[p].list :
            /\ run'[p].pc = "produce"
            /\ run'[p].list = run[p].list \ {y} /\ sent' = [sent EXCEPT ![y] = @ + 1]
      BY <2>6, RunFields
    <3>2. run[p].pc = "produce" /\ (x \in run[p].list => sent[x] = 0)
      BY <2>6 DEF ProcessTimedOut, OneRunAtATime
    <3>3. CASE x = y
      <4>1. sent'[x] = sent[x] + 1
        BY <3>1, <3>3 DEF Shape
      <4> QED
        BY <3>1, <3>2, <3>3, <4>1
    <3>4. CASE x # y
      <4>1. sent'[x] = sent[x]
        BY <3>1, <3>4 DEF Shape
      <4> QED
        BY <1>2, <3>1, <3>2, <4>1
    <3> QED
      BY <3>3, <3>4
  <2>7. CASE ProcessForwarded(p)
    BY <1>2, <2>7, RunFields DEF ProcessForwarded
  <2>8. CASE IncrementForwardedAttemptCount(p)
    BY <1>2, <2>8, RunFields DEF IncrementForwardedAttemptCount
  <2>9. CASE Finish(p) \/ Fail(p) \/ Die(p)
    <3>1. sent' = sent /\ run'[p].pc = "idle"
      BY <2>9, RunFields, IdleIs DEF Finish, Fail, Die
    <3> QED
      BY <1>2, <3>1
  <2> HIDE DEF One
  <2> QED
    BY <1>4, <2>1, <2>2, <2>3, <2>4, <2>5, <2>6, <2>7, <2>8, <2>9 DEF RunStep
<1>5. ASSUME run' = run, sent' = sent, timeoutRow' = timeoutRow, NEW p \in Process
      PROVE  One(x, p)
  <2>1. Timed(x)' => Timed(x)
    <3>1. ASSUME NEW q \in Process, TimeoutExpireReserved(q)
          PROVE  FALSE
      <4>1. At(q, "expire") /\ run'[q].pc = "list"
        BY <3>1, RunFields DEF TimeoutExpireReserved
      <4> QED
        BY <1>5, <4>1 DEF At
    <3> QED
      BY <3>1, OnlyARunTimesOut
  <2>2. ASSUME NEW i \in Of(x), rows[TableOf(x)][i].state = "RESERVED_TIMEOUT"
        PROVE  i \in Of(x)' /\ rows'[TableOf(x)][i].state = "RESERVED_TIMEOUT"
    BY <2>2, OfGrows, OfFacts, RowsGrow, TableOfId
  <2> QED
    BY <1>5, <2>1, <2>2 DEF OneRunAtATime, At
<1>6. \/ run' = run /\ sent' = sent /\ timeoutRow' = timeoutRow
      \/ \E p \in Process : RunStep(p) \/ Fail(p) \/ Die(p)
  BY DEF Next, vars, tables, InsertStateChange, CommitStateChange, Expire, LockExpires, Lapse
<1> HIDE DEF One
<1> QED
  BY <1>2, <1>3, <1>4, <1>5, <1>6

LEMMA MessagesAlways == Spec => [](AttemptsInv /\ MessageInv)
<1>1. ASSUME Init
      PROVE  MessageInv
  <2>1. \A tab \in Table : rows[tab] = <<>>
    BY <1>1 DEF Init
  <2>2. \A tab \in Table : DOMAIN rows[tab] = {}
    BY <2>1
  <2>3. \A p \in Process : run[p] = Idle
    BY <1>1 DEF Init
  <2>4. \A x \in Id : sent[x] = 0
    BY <1>1 DEF Init
  <2> QED
    BY <2>2, <2>3, <2>4, IdleIs DEF MessageInv, Onward, SentWasTimed, OneRunAtATime, At
<1>2. AttemptsInv /\ MessageInv /\ [Next]_vars => MessageInv'
  <2> SUFFICES ASSUME AttemptsInv, MessageInv, [Next]_vars
               PROVE  MessageInv'
    OBVIOUS
  <2>1. Shape /\ Hands /\ FewStrays /\ Onward /\ SentWasTimed
    BY DEF AttemptsInv, MessageInv
  <2>2. Onward' /\ SentWasTimed'
    BY <2>1, OnwardNext, SentNext
  <2>3. faults'["lapse"] = 0 => faults["lapse"] = 0
    <3>1. faults["lapse"] \in Nat
      BY <2>1 DEF Shape, Fault
    <3>2. ASSUME NEW f \in Fault, NEW p \in Process, Happens(f, p), faults'["lapse"] = 0
          PROVE  faults["lapse"] = 0
      BY <2>1, <3>1, <3>2 DEF Happens, Shape, Fault
    <3>3. faults' = faults \/ \E f \in Fault, p \in Process : Happens(f, p)
      BY DEF Next, vars, InsertStateChange, CommitStateChange, Expire, RunStep, Tick, ReadIntervals,
             TimeoutExpireReserved, ListTimedOut, ReservedForwardedTransfers, ProcessTimedOut, ProcessForwarded,
             IncrementForwardedAttemptCount, Finish, Fail, Die, LockExpires, Lapse, Fault
    <3> QED
      BY <3>2, <3>3
  <2>4. faults["lapse"] = 0 => OneRunAtATime'
    BY <2>1, OneRunNext DEF MessageInv
  <2> QED
    BY <2>2, <2>3, <2>4 DEF MessageInv
<1> QED
  BY <1>1, <1>2, AttemptsAlways, PTL DEF Spec

(* As long as the lock is never lost under a run, the position handler is   *)
(* told of a timeout at most once (_processTimedOutTransfers), however many *)
(* processes run the job, and wherever one of them fails or dies: the rows  *)
(* that were marked are cleaned by the next run before it looks again, and  *)
(* its interval holds their latest state.                                   *)
THEOREM TimeoutsAreSentOnce == Spec => []OneTimeoutMessage
<1>1. ASSUME MessageInv
      PROVE  OneTimeoutMessage
  BY <1>1 DEF MessageInv, OneRunAtATime, OneTimeoutMessage
<1> QED
  BY <1>1, MessagesAlways, PTL

=============================================================================
