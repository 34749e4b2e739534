-------------------------------- MODULE Sums --------------------------------
(***************************************************************************)
(* Lemmas about SumFunctionOnSet of the community modules, for the books    *)
(* the models keep: an account against the moves of its transfers, the      *)
(* obligations of a scheme's participants to one another.  The sum is       *)
(* defined by recursion over subsets; what is proved of it goes by the      *)
(* smallest subset that would be an exception.                              *)
(***************************************************************************)
EXTENDS Functions, FiniteSetTheorems, TLAPS

(* Induction over finite sets, as the existence of a smallest exception.    *)
LEMMA SmallestSubset ==
  ASSUME NEW S, IsFiniteSet(S), NEW B \in SUBSET SUBSET S, B # {}
  PROVE  \E T \in B : \A U \in SUBSET T : U # T => U \notin B
<1>1. IsWellFoundedOn(StrictSubsetOrdering(S), SUBSET S)
  BY FS_StrictSubsetOrderingWellFounded, FS_FiniteSubsetsOfFinite
<1>2. PICK T \in B : \A U \in B : ~(<<U, T>> \in StrictSubsetOrdering(S))
  BY <1>1, WFMin
<1> QED
  BY <1>2 DEF StrictSubsetOrdering

(* The function that SumFunctionOnSet defines on the subsets of a set.      *)
IsIter(g, f, S) ==
  g = [s \in SUBSET S |-> IF s = {} THEN 0 ELSE LET x == CHOOSE x \in s : TRUE IN f[x] + g[s \ {x}]]
Iter(f, S) == CHOOSE g : IsIter(g, f, S)
AnyOf(s) == CHOOSE x \in s : TRUE

(* A sum is that function's value.                                          *)
LEMMA SumIs ==
  ASSUME NEW f, NEW S
  PROVE  SumFunctionOnSet(f, S) = Iter(f, S)[S]
BY DEF SumFunctionOnSet, FoldFunctionOnSet, MapThenFoldSet, IsIter, Iter

(* What the recursive equation says, subset by subset.                      *)
LEMMA IterIs ==
  ASSUME NEW f, NEW S, NEW g
  PROVE  IsIter(g, f, S) <=>
           /\ g = [s \in SUBSET S |-> g[s]]
           /\ \A s \in SUBSET S : g[s] = IF s = {} THEN 0 ELSE f[AnyOf(s)] + g[s \ {AnyOf(s)}]
<1> DEFINE r(s) == IF s = {} THEN 0 ELSE f[AnyOf(s)] + g[s \ {AnyOf(s)}]
<1>1. IsIter(g, f, S) <=> g = [s \in SUBSET S |-> r(s)]
  BY DEF IsIter, AnyOf
<1> HIDE DEF r
<1>2. g = [s \in SUBSET S |-> r(s)] <=> g = [s \in SUBSET S |-> g[s]] /\ \A s \in SUBSET S : g[s] = r(s)
  OBVIOUS
<1> QED
  BY <1>1, <1>2 DEF r

(* No two functions satisfy it.                                             *)
LEMMA IterUnique ==
  ASSUME NEW f, NEW S, IsFiniteSet(S), NEW g, NEW h, NEW R, NEW T,
         IsIter(g, f, T), IsIter(h, f, R), S \subseteq T, S \subseteq R
  PROVE  g[S] = h[S]
<1> DEFINE B == {s \in SUBSET S : g[s] # h[s]}
<1>1. SUFFICES ASSUME B # {} PROVE FALSE
  OBVIOUS
<1>2. PICK s \in B : \A u \in SUBSET s : u # s => u \notin B
  <2>1. B \in SUBSET SUBSET S
    OBVIOUS
  <2> HIDE DEF B
  <2> QED
    BY <1>1, <2>1, SmallestSubset
<1>3. /\ g[s] = IF s = {} THEN 0 ELSE f[AnyOf(s)] + g[s \ {AnyOf(s)}]
      /\ h[s] = IF s = {} THEN 0 ELSE f[AnyOf(s)] + h[s \ {AnyOf(s)}]
  BY IterIs
<1> DEFINE u == s \ {AnyOf(s)}
<1>4. CASE s = {}
  BY <1>2, <1>3, <1>4, Zenon
<1>5. CASE s # {}
  <2>1. u \in SUBSET s /\ u # s
    BY <1>5 DEF AnyOf
  <2>2. u \in SUBSET S /\ u \notin B
    BY <1>2, <2>1
  <2>3. g[u] = h[u]
    BY <2>2
  <2> QED
    BY <1>2, <1>3, <1>5, <2>3
<1> QED
  BY <1>4, <1>5

(* One does, for every finite set.                                          *)
LEMMA IterExists ==
  ASSUME NEW f, NEW S, IsFiniteSet(S)
  PROVE  IsIter(Iter(f, S), f, S)
<1> DEFINE B == {s \in SUBSET S : ~ \E g : IsIter(g, f, s)}
<1>1. SUFFICES ASSUME B # {} PROVE FALSE
  BY DEF Iter
<1>2. PICK T \in B : \A u \in SUBSET T : u # T => u \notin B
  <2>1. B \in SUBSET SUBSET S
    OBVIOUS
  <2> HIDE DEF B
  <2> QED
    BY <1>1, <2>1, SmallestSubset
<1>3. ASSUME NEW u \in SUBSET T, u # T
      PROVE  IsIter(Iter(f, u), f, u) /\ IsFiniteSet(u)
  <2>1. u \notin B /\ u \in SUBSET S
    BY <1>2, <1>3
  <2>2. \E g : IsIter(g, f, u)
    BY <2>1
  <2>3. IsFiniteSet(u)
    BY <2>1, FS_Subset
  <2> QED
    BY <2>2, <2>3 DEF Iter
<1> DEFINE v(s) == IF s = {} THEN 0 ELSE f[AnyOf(s)] + Iter(f, s \ {AnyOf(s)})[s \ {AnyOf(s)}]
           g == [s \in SUBSET T |-> v(s)]
<1>4. ASSUME NEW u \in SUBSET T, u # T
      PROVE  g[u] = Iter(f, u)[u]
  <2>1. Iter(f, u)[u] = IF u = {} THEN 0 ELSE f[AnyOf(u)] + Iter(f, u)[u \ {AnyOf(u)}]
    <3>1. IsIter(Iter(f, u), f, u)
      BY <1>3, <1>4
    <3> QED
      BY <3>1, IterIs
  <2>2. CASE u = {}
    BY <2>1, <2>2
  <2>3. CASE u # {}
    <3> DEFINE w == u \ {AnyOf(u)}
    <3>1. w \in SUBSET T /\ w # T /\ w \subseteq u
      BY <2>3 DEF AnyOf
    <3> HIDE DEF w
    <3>2. Iter(f, u)[w] = Iter(f, w)[w]
      BY <1>3, <1>4, <3>1, IterUnique
    <3> QED
      BY <2>1, <2>3, <3>2 DEF w
  <2> QED
    BY <2>2, <2>3
<1>5. \A s \in SUBSET T : g[s] = IF s = {} THEN 0 ELSE f[AnyOf(s)] + g[s \ {AnyOf(s)}]
  <2> TAKE s \in SUBSET T
  <2>1. CASE s = {}
    BY <2>1
  <2>2. CASE s # {}
    <3> DEFINE w == s \ {AnyOf(s)}
    <3>1. w \in SUBSET T /\ w # T
      BY <2>2 DEF AnyOf
    <3>2. g[s] = f[AnyOf(s)] + Iter(f, w)[w]
      BY <2>2
    <3> HIDE DEF w, g
    <3>3. g[w] = Iter(f, w)[w]
      BY <1>4, <3>1
    <3> QED
      BY <2>2, <3>2, <3>3 DEF w
  <2> QED
    BY <2>1, <2>2
<1>6. IsIter(g, f, T)
  <2>1. g = [s \in SUBSET T |-> g[s]]
    OBVIOUS
  <2> HIDE DEF g
  <2> QED
    BY <1>5, <2>1, IterIs
<1> HIDE DEF g
<1> QED
  BY <1>2, <1>6

(* What SumFunctionOnSet returns: nothing for the empty set, and otherwise  *)
(* the sum of any one element and of the others.                            *)
LEMMA SumStep ==
  ASSUME NEW f, NEW S, IsFiniteSet(S)
  PROVE  SumFunctionOnSet(f, S) =
           IF S = {} THEN 0 ELSE f[AnyOf(S)] + SumFunctionOnSet(f, S \ {AnyOf(S)})
<1> DEFINE w == S \ {AnyOf(S)}
<1>1. IsIter(Iter(f, S), f, S)
  BY IterExists
<1>2. Iter(f, S)[S] = IF S = {} THEN 0 ELSE f[AnyOf(S)] + Iter(f, S)[w]
  BY <1>1, IterIs
<1>3. IsFiniteSet(w) /\ w \subseteq S
  BY FS_RemoveElement
<1>4. IsIter(Iter(f, w), f, w)
  BY <1>3, IterExists
<1>5. Iter(f, S)[w] = Iter(f, w)[w]
  BY <1>1, <1>3, <1>4, IterUnique
<1> QED
  BY <1>2, <1>5, SumIs

(* A sum depends on nothing but the values that are added.                  *)
LEMMA SumAlike ==
  ASSUME NEW S, IsFiniteSet(S), NEW f, NEW g, \A x \in S : f[x] = g[x]
  PROVE  SumFunctionOnSet(f, S) = SumFunctionOnSet(g, S)
<1> DEFINE B == {s \in SUBSET S : SumFunctionOnSet(f, s) # SumFunctionOnSet(g, s)}
<1>1. SUFFICES ASSUME B # {} PROVE FALSE
  OBVIOUS
<1>2. PICK T \in B : \A u \in SUBSET T : u # T => u \notin B
  <2>1. B \in SUBSET SUBSET S
    OBVIOUS
  <2> HIDE DEF B
  <2> QED
    BY <1>1, <2>1, SmallestSubset
<1> DEFINE w == T \ {AnyOf(T)}
<1>3. IsFiniteSet(T)
  BY FS_Subset
<1>4. /\ SumFunctionOnSet(f, T) = IF T = {} THEN 0 ELSE f[AnyOf(T)] + SumFunctionOnSet(f, w)
      /\ SumFunctionOnSet(g, T) = IF T = {} THEN 0 ELSE g[AnyOf(T)] + SumFunctionOnSet(g, w)
  BY <1>3, SumStep
<1>5. T # {}
  BY <1>2, <1>4
<1>6. AnyOf(T) \in T /\ f[AnyOf(T)] = g[AnyOf(T)]
  BY <1>5 DEF AnyOf
<1>7. w \in SUBSET T /\ w # T /\ w \in SUBSET S
  BY <1>6
<1>8. SumFunctionOnSet(f, w) = SumFunctionOnSet(g, w)
  BY <1>2, <1>7
<1> QED
  BY <1>2, <1>4, <1>5, <1>6, <1>8

(* A sum of integers is an integer.                                         *)
LEMMA SumType ==
  ASSUME NEW S, IsFiniteSet(S), NEW f, \A x \in S : f[x] \in Int
  PROVE  SumFunctionOnSet(f, S) \in Int
<1> DEFINE B == {s \in SUBSET S : SumFunctionOnSet(f, s) \notin Int}
<1>1. SUFFICES ASSUME B # {} PROVE FALSE
  OBVIOUS
<1>2. PICK T \in B : \A u \in SUBSET T : u # T => u \notin B
  <2>1. B \in SUBSET SUBSET S
    OBVIOUS
  <2> HIDE DEF B
  <2> QED
    BY <1>1, <2>1, SmallestSubset
<1> DEFINE w == T \ {AnyOf(T)}
<1>3. IsFiniteSet(T)
  BY FS_Subset
<1>4. SumFunctionOnSet(f, T) = IF T = {} THEN 0 ELSE f[AnyOf(T)] + SumFunctionOnSet(f, w)
  BY <1>3, SumStep
<1>5. T # {}
  BY <1>2, <1>4
<1>6. AnyOf(T) \in T /\ f[AnyOf(T)] \in Int
  BY <1>5 DEF AnyOf
<1>7. w \in SUBSET T /\ w # T /\ w \in SUBSET S
  BY <1>6
<1>8. SumFunctionOnSet(f, w) \in Int
  BY <1>2, <1>7
<1> QED
  BY <1>2, <1>4, <1>5, <1>6, <1>8

(* A sum of zeros is zero.                                                  *)
LEMMA SumOfNothing ==
  ASSUME NEW S, IsFiniteSet(S), NEW f, \A x \in S : f[x] = 0
  PROVE  SumFunctionOnSet(f, S) = 0
<1> DEFINE B == {s \in SUBSET S : SumFunctionOnSet(f, s) # 0}
<1>1. SUFFICES ASSUME B # {} PROVE FALSE
  OBVIOUS
<1>2. PICK T \in B : \A u \in SUBSET T : u # T => u \notin B
  <2>1. B \in SUBSET SUBSET S
    OBVIOUS
  <2> HIDE DEF B
  <2> QED
    BY <1>1, <2>1, SmallestSubset
<1> DEFINE w == T \ {AnyOf(T)}
<1>3. IsFiniteSet(T)
  BY FS_Subset
<1>4. SumFunctionOnSet(f, T) = IF T = {} THEN 0 ELSE f[AnyOf(T)] + SumFunctionOnSet(f, w)
  BY <1>3, SumStep
<1>5. T # {}
  BY <1>2, <1>4
<1>6. AnyOf(T) \in T /\ f[AnyOf(T)] = 0
  BY <1>5 DEF AnyOf
<1>7. w \in SUBSET T /\ w # T /\ w \in SUBSET S
  BY <1>6
<1>8. SumFunctionOnSet(f, w) = 0
  BY <1>2, <1>7
<1> QED
  BY <1>2, <1>4, <1>5, <1>6, <1>8

(* Any one of the values may be added last.                                 *)
LEMMA SumTakeOne ==
  ASSUME NEW S, IsFiniteSet(S), NEW f, \A x \in S : f[x] \in Int, NEW y \in S
  PROVE  SumFunctionOnSet(f, S) = f[y] + SumFunctionOnSet(f, S \ {y})
<1> DEFINE B == {s \in SUBSET S : \E x \in s : SumFunctionOnSet(f, s) # f[x] + SumFunctionOnSet(f, s \ {x})}
<1>1. SUFFICES ASSUME B # {} PROVE FALSE
  <2>1. S \notin B
    OBVIOUS
  <2>2. S \in SUBSET S
    OBVIOUS
  <2> QED
    BY <2>1, <2>2
<1>2. PICK T \in B : \A u \in SUBSET T : u # T => u \notin B
  <2>1. B \in SUBSET SUBSET S
    OBVIOUS
  <2> HIDE DEF B
  <2> QED
    BY <1>1, <2>1, SmallestSubset
<1>3. PICK x \in T : SumFunctionOnSet(f, T) # f[x] + SumFunctionOnSet(f, T \ {x})
  BY <1>2
<1> DEFINE o == AnyOf(T)
           w == T \ {o}
           v == T \ {x}
           b == (T \ {x}) \ {o}
<1>4. IsFiniteSet(T) /\ T \subseteq S
  BY FS_Subset
<1>5. o \in T
  BY <1>3 DEF AnyOf
<1>6. IsFiniteSet(w) /\ IsFiniteSet(v) /\ IsFiniteSet(b)
  BY <1>4, FS_Subset
<1>7. SumFunctionOnSet(f, T) = f[o] + SumFunctionOnSet(f, w)
  BY <1>3, <1>4, SumStep
<1>8. x # o
  BY <1>3, <1>7
<1>9. SumFunctionOnSet(f, w) = f[x] + SumFunctionOnSet(f, b)
  <2>1. w \in SUBSET T /\ w # T /\ w \in SUBSET S
    BY <1>4, <1>5
  <2>2. x \in w
    BY <1>3, <1>8
  <2>3. w \ {x} = b
    OBVIOUS
  <2>4. w \notin B
    BY <1>2, <2>1
  <2> HIDE DEF w, b
  <2> QED
    BY <2>1, <2>2, <2>3, <2>4
<1>10. SumFunctionOnSet(f, v) = f[o] + SumFunctionOnSet(f, b)
  <2>1. v \in SUBSET T /\ v # T /\ v \in SUBSET S
    BY <1>3, <1>4
  <2>2. o \in v
    BY <1>5, <1>8
  <2>3. v \ {o} = b
    OBVIOUS
  <2>4. v \notin B
    BY <1>2, <2>1
  <2> HIDE DEF v, b
  <2> QED
    BY <2>1, <2>2, <2>3, <2>4
<1>11. f[x] \in Int /\ f[o] \in Int /\ SumFunctionOnSet(f, b) \in Int
  <2>1. f[x] \in Int /\ f[o] \in Int
    BY <1>3, <1>4, <1>5
  <2>2. \A z \in b : f[z] \in Int
    BY <1>4
  <2> QED
    BY <1>6, <2>1, <2>2, SumType
<1> HIDE DEF o, w, v, b
<1>12. SumFunctionOnSet(f, T) = f[x] + SumFunctionOnSet(f, v)
  BY <1>7, <1>9, <1>10, <1>11
<1> QED
  BY <1>3, <1>12 DEF v

(* A sum moves by what one of its values does.                              *)
LEMMA SumOneChanged ==
  ASSUME NEW S, IsFiniteSet(S), NEW f, NEW g,
         \A x \in S : f[x] \in Int, \A x \in S : g[x] \in Int,
         NEW y \in S, \A x \in S : x # y => f[x] = g[x]
  PROVE  SumFunctionOnSet(g, S) = SumFunctionOnSet(f, S) + g[y] - f[y]
<1> DEFINE w == S \ {y}
<1>1. IsFiniteSet(w)
  BY FS_Subset
<1>2. /\ SumFunctionOnSet(g, S) = g[y] + SumFunctionOnSet(g, w)
      /\ SumFunctionOnSet(f, S) = f[y] + SumFunctionOnSet(f, w)
  BY SumTakeOne
<1>3. SumFunctionOnSet(f, w) = SumFunctionOnSet(g, w)
  <2>1. \A x \in w : f[x] = g[x]
    OBVIOUS
  <2> HIDE DEF w
  <2> QED
    BY <1>1, <2>1, SumAlike
<1>4. SumFunctionOnSet(f, w) \in Int /\ f[y] \in Int /\ g[y] \in Int
  <2>1. \A x \in w : f[x] \in Int
    OBVIOUS
  <2> HIDE DEF w
  <2> QED
    BY <1>1, <2>1, SumType
<1> QED
  BY <1>2, <1>3, <1>4
(* The sum of two functions is the sum of their sums.                       *)
LEMMA SumAdds ==
  ASSUME NEW S, IsFiniteSet(S), NEW f, NEW g, NEW h,
         \A x \in S : f[x] \in Int, \A x \in S : g[x] \in Int, \A x \in S : h[x] = f[x] + g[x]
  PROVE  SumFunctionOnSet(h, S) = SumFunctionOnSet(f, S) + SumFunctionOnSet(g, S)
<1> DEFINE B == {s \in SUBSET S : SumFunctionOnSet(h, s) # SumFunctionOnSet(f, s) + SumFunctionOnSet(g, s)}
<1>1. SUFFICES ASSUME B # {} PROVE FALSE
  OBVIOUS
<1>2. PICK T \in B : \A u \in SUBSET T : u # T => u \notin B
  <2>1. B \in SUBSET SUBSET S
    OBVIOUS
  <2> HIDE DEF B
  <2> QED
    BY <1>1, <2>1, SmallestSubset
<1> DEFINE o == AnyOf(T)
           w == T \ {o}
<1>3. IsFiniteSet(T)
  BY FS_Subset
<1>4. /\ SumFunctionOnSet(f, T) = IF T = {} THEN 0 ELSE f[o] + SumFunctionOnSet(f, w)
      /\ SumFunctionOnSet(g, T) = IF T = {} THEN 0 ELSE g[o] + SumFunctionOnSet(g, w)
      /\ SumFunctionOnSet(h, T) = IF T = {} THEN 0 ELSE h[o] + SumFunctionOnSet(h, w)
  BY <1>3, SumStep
<1>5. T # {}
  BY <1>2, <1>4
<1>6. o \in T /\ f[o] \in Int /\ g[o] \in Int /\ h[o] = f[o] + g[o]
  BY <1>5 DEF AnyOf
<1>7. w \in SUBSET T /\ w # T /\ w \in SUBSET S
  BY <1>6
<1>8. SumFunctionOnSet(h, w) = SumFunctionOnSet(f, w) + SumFunctionOnSet(g, w)
  BY <1>2, <1>7
<1>9. SumFunctionOnSet(f, w) \in Int /\ SumFunctionOnSet(g, w) \in Int
  <2>1. IsFiniteSet(w) /\ \A x \in w : f[x] \in Int /\ g[x] \in Int
    BY <1>7, FS_Subset
  <2> HIDE DEF w
  <2> QED
    BY <2>1, SumType
<1>10. SumFunctionOnSet(h, T) # SumFunctionOnSet(f, T) + SumFunctionOnSet(g, T)
  BY <1>2
<1> HIDE DEF o, w
<1> QED
  BY <1>4, <1>5, <1>6, <1>8, <1>9, <1>10

=============================================================================
