------------------------- MODULE WorkBuilderProofs -------------------------
(***************************************************************************)
(* Theorems about WorkBuilder, for any manifests, demands, limit and names *)
(* of works.                                                               *)
(***************************************************************************)
EXTENDS WorkBuilder, FiniteSetTheorems, SequenceTheorems, TLAPS

-----------------------------------------------------------------------------
(* Least counterexamples, among numbers and among the parts of a finite    *)
(* set.                                                                    *)

LEMMA LeastNumber ==
    ASSUME NEW S \in SUBSET Nat, S # {}
    PROVE  \E i \in S : \A j \in S : i <= j
<1>1. PICK i \in S : \A j \in S : ~(<<j, i>> \in OpToRel(<, Nat))
  <2>1. S \subseteq Nat OBVIOUS
  <2> QED BY <2>1, NatLessThanWellFounded, WFMin
<1>2. \A j \in S : ~(j < i) BY <1>1 DEF OpToRel
<1> QED BY <1>2

LEMMA Counting ==
    ASSUME NEW n \in Nat, NEW P, 0 \in P, \A i \in 1..n : i - 1 \in P => i \in P
    PROVE  0..n \subseteq P
<1> DEFINE bad == 0..n \ P
<1> SUFFICES ASSUME bad # {} PROVE FALSE OBVIOUS
<1>1. PICK i \in bad : \A j \in bad : i <= j
  <2>1. bad \in SUBSET Nat OBVIOUS
  <2> HIDE DEF bad
  <2> QED BY <2>1, LeastNumber
<1>3. i \in 0..n /\ i \notin P BY <1>1
<1>4. i \in 1..n /\ i - 1 \in 0..n /\ i - 1 < i BY <1>3
<1>5. i - 1 \in P BY <1>1, <1>4
<1> QED BY <1>3, <1>4, <1>5

LEMMA SmallestSet ==
    ASSUME NEW S, IsFiniteSet(S), NEW B \in SUBSET (SUBSET S), B # {}
    PROVE  \E T \in B : \A U \in SUBSET T : U # T => U \notin B
<1> DEFINE R == StrictSubsetOrdering(S)
<1>1. IsWellFoundedOn(R, SUBSET S)
  BY FS_StrictSubsetOrderingWellFounded, FS_FiniteSubsetsOfFinite
<1>2. PICK T \in B : \A U \in B : ~(<<U, T>> \in R)
  <2> HIDE DEF R
  <2> QED BY <1>1, WFMin
<1> QED BY <1>2 DEF StrictSubsetOrdering

LEMMA MaxInterval ==
    ASSUME NEW n \in Nat \ {0}
    PROVE  Max(1..n) = n /\ (1..n) \ {n} = 1..(n - 1) /\ 1..n # {}
<1>1. n \in 1..n /\ \A y \in 1..n : n >= y OBVIOUS
<1>2. \A x \in 1..n : (\A y \in 1..n : x >= y) => x = n OBVIOUS
<1>3. Max(1..n) = n BY <1>1, <1>2 DEF Max
<1> QED BY <1>1, <1>3

-----------------------------------------------------------------------------
(* Folds.  The function that defines one exists: it is built for sets of   *)
(* one more element at a time.                                             *)

IsFold(g, S, V, base, pick, F) ==
    /\ g \in [SUBSET S -> V]
    /\ \A T \in SUBSET S : g[T] = IF T = {} THEN base ELSE F[<<pick[T], g[T \ {pick[T]}]>>]

LEMMA FoldExists ==
    ASSUME NEW S, IsFiniteSet(S), NEW V, NEW base \in V,
           NEW pick, \A T \in SUBSET S : T # {} => pick[T] \in T,
           NEW F \in [S \X V -> V]
    PROVE  \E g : IsFold(g, S, V, base, pick, F)
<1> DEFINE Sets(k) == {T \in SUBSET S : Cardinality(T) <= k}
           Fold(k, g) == /\ g \in [Sets(k) -> V]
                         /\ \A T \in Sets(k) : g[T] = IF T = {} THEN base
                                ELSE F[<<pick[T], g[T \ {pick[T]}]>>]
           P == {k \in Nat : \E g : Fold(k, g)}
           n == Cardinality(S)
<1>1. \A T \in SUBSET S : IsFiniteSet(T) /\ Cardinality(T) \in Nat /\ Cardinality(T) <= n
  BY FS_Subset, FS_CardinalityType
<1>2. n \in Nat BY FS_CardinalityType
<1>3. \A T \in SUBSET S : T # {} =>
         /\ T \ {pick[T]} \in SUBSET S
         /\ Cardinality(T \ {pick[T]}) = Cardinality(T) - 1
  BY <1>1, FS_RemoveElement
<1>4. \A T \in SUBSET S : Cardinality(T) = 0 <=> T = {}
  BY <1>1, FS_EmptySet
<1>5. 0 \in P
  <2> DEFINE g == [T \in Sets(0) |-> base]
  <2>1. \A T \in Sets(0) : T = {} BY <1>1, <1>4
  <2>2. Fold(0, g) BY <2>1
  <2> QED BY <2>2
<1>6. ASSUME NEW i \in 1..n, i - 1 \in P PROVE i \in P
  <2>1. PICK h : Fold(i - 1, h) BY <1>6
  <2> DEFINE g == [T \in Sets(i) |-> IF T = {} THEN base
                                     ELSE F[<<pick[T], h[T \ {pick[T]}]>>]]
  <2>2. \A T \in Sets(i) : T # {} => T \ {pick[T]} \in Sets(i - 1) BY <1>1, <1>3
  <2>3. \A T \in Sets(i - 1) : T \in Sets(i) /\ g[T] = h[T]
    <3> SUFFICES ASSUME NEW T \in Sets(i - 1) PROVE T \in Sets(i) /\ g[T] = h[T]
      OBVIOUS
    <3>1. T \in Sets(i) BY <1>1, <1>2
    <3>2. h[T] = IF T = {} THEN base ELSE F[<<pick[T], h[T \ {pick[T]}]>>] BY <2>1
    <3> QED BY <3>1, <3>2
  <2>4. g \in [Sets(i) -> V]
    <3>1. ASSUME NEW T \in Sets(i), T # {} PROVE F[<<pick[T], h[T \ {pick[T]}]>>] \in V
      <4>1. pick[T] \in S BY <3>1
      <4>2. h[T \ {pick[T]}] \in V BY <2>1, <2>2, <3>1
      <4> QED BY <4>1, <4>2
    <3> QED BY <3>1
  <2>5. Fold(i, g)
    <3>1. ASSUME NEW T \in Sets(i), T # {}
          PROVE  g[T] = F[<<pick[T], g[T \ {pick[T]}]>>]
      BY <2>2, <2>3, <3>1
    <3>2. ASSUME NEW T \in Sets(i), T = {} PROVE g[T] = base BY <3>2
    <3> HIDE DEF g
    <3>3. \A T \in Sets(i) : g[T] = IF T = {} THEN base
                                   ELSE F[<<pick[T], g[T \ {pick[T]}]>>]
      BY <3>1, <3>2
    <3> QED BY <2>4, <3>3
  <2>6. i \in Nat OBVIOUS
  <2> QED BY <2>5, <2>6
<1>7. n \in P
  <2> HIDE DEF P, n
  <2>1. 0..n \subseteq P BY <1>2, <1>5, <1>6, Counting
  <2> QED BY <1>2, <2>1
<1>8. Sets(n) = SUBSET S BY <1>1
<1> QED BY <1>7, <1>8 DEF IsFold

LEMMA MaxIn ==
    ASSUME NEW n \in Nat, NEW T \in SUBSET (1..n), T # {}
    PROVE  Max(T) \in T
<1> DEFINE bounds == {b \in Nat : \A x \in T : x <= b}
<1>1. n \in bounds OBVIOUS
<1>2. PICK m \in bounds : \A b \in bounds : m <= b
  <2>1. bounds \in SUBSET Nat OBVIOUS
  <2> HIDE DEF bounds
  <2> QED BY <1>1, <2>1, LeastNumber
<1>3. m \in T
  <2> SUFFICES ASSUME m \notin T PROVE FALSE OBVIOUS
  <2>1. \A x \in T : x <= m - 1 BY <1>2
  <2>2. m - 1 \in Nat
    <3>1. PICK x \in T : TRUE OBVIOUS
    <3>2. x \in Nat /\ x <= m - 1 /\ m \in Nat BY <2>1, <3>1
    <3> QED BY <3>2
  <2> QED BY <1>2, <2>1, <2>2
<1>4. \E x \in T : \A y \in T : x >= y BY <1>2, <1>3
<1> QED BY <1>4 DEF Max

Latest(n) == [T \in SUBSET (1..n) |-> Max(T)]

\* A fold over the positions 1..n.
LEMMA FoldLeftExists ==
    ASSUME NEW n \in Nat, NEW V, NEW base \in V, NEW F \in [(1..n) \X V -> V]
    PROVE  \E g : IsFold(g, 1..n, V, base, Latest(n), F)
<1>1. \A T \in SUBSET (1..n) : T # {} => Latest(n)[T] \in T
  BY MaxIn DEF Latest
<1>2. IsFiniteSet(1..n) BY FS_Interval
<1> QED BY <1>1, <1>2, FoldExists

\* What holds for the start of a fold and is kept by its steps holds for its result.
LEMMA FoldResult ==
    ASSUME NEW n \in Nat, NEW V, NEW iter, iter[{}] \in V,
           \A i \in 1..n : iter[1..(i - 1)] \in V => iter[1..i] \in V
    PROVE  iter[1..n] \in V
<1> DEFINE P == {i \in 0..n : iter[1..i] \in V}
<1>1. 0 \in P
  <2>1. 1..0 = {} OBVIOUS
  <2> QED BY <2>1
<1>2. ASSUME NEW i \in 1..n, i - 1 \in P PROVE i \in P BY <1>2
<1> HIDE DEF P
<1>3. 0..n \subseteq P BY <1>1, <1>2, Counting
<1> QED BY <1>3 DEF P

-----------------------------------------------------------------------------
(* The works the lister shows.                                             *)

UpdateStart == [works |-> <<>>, left |-> wanted]

LEMMA UpdatedSteps ==
    ASSUME NEW n \in Nat, NEW order, DOMAIN order = 1..n
    PROVE  \E acc : /\ acc[0] = UpdateStart
                    /\ \A i \in 1..n : acc[i] = Update(acc[i - 1], order[i])
                    /\ Updated(order) = acc[n]
<1> DEFINE V == [works: Seq(SUBSET wanted), left: SUBSET wanted]
           F == [p \in (1..n) \X V |-> Update(p[2], order[p[1]])]
           Defines(g) == g = [T \in SUBSET (1..n) |->
                IF T = {} THEN UpdateStart ELSE Update(g[T \ {Max(T)}], order[Max(T)])]
           iter == CHOOSE g : Defines(g)
<1>1. F \in [(1..n) \X V -> V]
  <2>1. ASSUME NEW a \in V, NEW w PROVE Update(a, w) \in V
    BY <2>1 DEF Update
  <2> QED BY <2>1
<1>2. UpdateStart \in V BY DEF UpdateStart
<1>3. PICK g : IsFold(g, 1..n, V, UpdateStart, Latest(n), F)
  <2> HIDE DEF V, F
  <2> QED BY <1>1, <1>2, FoldLeftExists
<1>4. Defines(g)
  <2>1. g \in [SUBSET (1..n) -> V] BY <1>3 DEF IsFold
  <2>2. ASSUME NEW T \in SUBSET (1..n)
        PROVE  g[T] = IF T = {} THEN UpdateStart
                      ELSE Update(g[T \ {Max(T)}], order[Max(T)])
    <3>1. CASE T = {} BY <1>3, <3>1 DEF IsFold
    <3>2. CASE T # {}
      <4>1. g[T] = F[<<Max(T), g[T \ {Max(T)}]>>] BY <1>3, <3>2 DEF IsFold, Latest
      <4>2. Max(T) \in 1..n /\ g[T \ {Max(T)}] \in V
        <5> HIDE DEF V
        <5> QED BY <2>1, <3>2, MaxIn
      <4> HIDE DEF V
      <4> QED BY <3>2, <4>1, <4>2
    <3> QED BY <3>1, <3>2
  <2> HIDE DEF V, F
  <2> QED BY <2>1, <2>2
<1>5. Defines(iter)
  <2> HIDE DEF Defines, V, F
  <2> QED BY <1>4
<1>6. Updated(order) = iter[1..n] BY DEF Updated, FoldLeft, MapThenFoldSet, UpdateStart
<1> HIDE DEF iter
<1> DEFINE acc == [i \in 0..n |-> iter[1..i]]
<1>7. acc[0] = UpdateStart
  <2>1. {} \in SUBSET (1..n) /\ 1..0 = {} OBVIOUS
  <2>2. iter[{}] = UpdateStart BY <1>5, <2>1
  <2> QED BY <2>1, <2>2
<1>8. ASSUME NEW i \in 1..n PROVE acc[i] = Update(acc[i - 1], order[i])
  <2>1. 1..i \in SUBSET (1..n) /\ i \in Nat \ {0} /\ i - 1 \in 0..n OBVIOUS
  <2>2. Max(1..i) = i /\ (1..i) \ {i} = 1..(i - 1) /\ 1..i # {} BY <2>1, MaxInterval
  <2>3. \A T \in SUBSET (1..n) :
           T # {} => iter[T] = Update(iter[T \ {Max(T)}], order[Max(T)])
    BY <1>5
  <2>4. iter[1..i] = Update(iter[1..(i - 1)], order[i]) BY <2>1, <2>2, <2>3
  <2> QED BY <2>1, <2>4
<1>9. acc[n] = iter[1..n] OBVIOUS
<1> QED BY <1>6, <1>7, <1>8, <1>9

\* After i works: each keeps manifests it had that none before it has, and what
\* is left is in none of them.
UpdateInv(a, order, i) ==
    /\ a.works \in Seq(SUBSET wanted) /\ Len(a.works) = i
    /\ a.left \in SUBSET wanted
    /\ \A j \in 1..i : \A m \in a.works[j] : m.key \in KeysOf(listed[order[j]])
    /\ \A m \in wanted : m \in a.left \/ \E j \in 1..i : m \in a.works[j]
    /\ \A j \in 1..i : \A m \in a.left : m.key \notin KeysOf(listed[order[j]])
    /\ \A j, k \in 1..i : j # k => a.works[j] \cap a.works[k] = {}

LEMMA UpdateStep ==
    ASSUME NEW order, NEW i \in Nat \ {0}, NEW a, UpdateInv(a, order, i - 1)
    PROVE  UpdateInv(Update(a, order[i]), order, i)
<1> DEFINE kept == {m \in a.left : m.key \in KeysOf(listed[order[i]])}
           b == Update(a, order[i])
<1>1. b.works = Append(a.works, kept) /\ b.left = a.left \ kept
  BY DEF Update
<1>2. a.works \in Seq(SUBSET wanted) /\ Len(a.works) = i - 1 /\ kept \in SUBSET wanted
  BY DEF UpdateInv
<1>3. b.works \in Seq(SUBSET wanted) /\ Len(b.works) = i
  BY <1>1, <1>2
<1>4. \A j \in 1..i : b.works[j] = IF j = i THEN kept ELSE a.works[j]
  BY <1>1, <1>2
<1>5. i \in 1..i /\ \A j \in 1..i : j = i \/ j \in 1..(i - 1) OBVIOUS
<1> HIDE DEF b
<1>6. \A j \in 1..(i - 1) : j \in 1..i /\ j # i OBVIOUS
<1>7. \A j \in 1..i : \A m \in b.works[j] : m.key \in KeysOf(listed[order[j]])
  BY <1>4, <1>5 DEF UpdateInv
<1>8. \A m \in wanted : m \in b.left \/ \E j \in 1..i : m \in b.works[j]
  <2> SUFFICES ASSUME NEW m \in wanted, m \notin b.left
               PROVE  \E j \in 1..i : m \in b.works[j]
    OBVIOUS
  <2>1. CASE m \in kept
    <3>1. b.works[i] = kept BY <1>4, <1>5
    <3> QED BY <1>5, <2>1, <3>1
  <2>2. CASE m \notin a.left
    <3>1. PICK j \in 1..(i - 1) : m \in a.works[j] BY <2>2 DEF UpdateInv
    <3>2. j \in 1..i /\ b.works[j] = a.works[j] BY <1>4, <1>6
    <3> QED BY <3>1, <3>2
  <2> QED BY <1>1, <2>1, <2>2
<1>9. \A j \in 1..i : \A m \in b.left : m.key \notin KeysOf(listed[order[j]])
  BY <1>1, <1>5 DEF UpdateInv
<1>10. b.left \in SUBSET wanted BY <1>1 DEF UpdateInv
<1>11. \A j \in 1..(i - 1) : a.works[j] \cap kept = {}
  <2> SUFFICES ASSUME NEW j \in 1..(i - 1), NEW m \in a.works[j], m \in a.left
               PROVE  FALSE
    OBVIOUS
  <2>1. m.key \in KeysOf(listed[order[j]]) BY DEF UpdateInv
  <2> QED BY <2>1 DEF UpdateInv
<1>12. ASSUME NEW j \in 1..i, NEW k \in 1..i, j # k
       PROVE  b.works[j] \cap b.works[k] = {}
  <2> HIDE DEF kept
  <2>1. CASE j = i
    <3>1. k \in 1..(i - 1) /\ b.works[j] = kept /\ b.works[k] = a.works[k]
      BY <1>4, <1>5, <1>12, <2>1
    <3> QED BY <1>11, <3>1
  <2>2. CASE k = i
    <3>1. j \in 1..(i - 1) /\ b.works[k] = kept /\ b.works[j] = a.works[j]
      BY <1>4, <1>5, <1>12, <2>2
    <3> QED BY <1>11, <3>1
  <2>3. CASE j # i /\ k # i
    <3>1. j \in 1..(i - 1) /\ k \in 1..(i - 1) BY <1>5, <2>3
    <3>2. b.works[k] = a.works[k] /\ b.works[j] = a.works[j] BY <1>4, <2>3
    <3> QED BY <1>12, <3>1, <3>2 DEF UpdateInv
  <2> QED BY <2>1, <2>2, <2>3
<1>13. UpdateInv(b, order, i) BY <1>3, <1>7, <1>8, <1>9, <1>10, <1>12 DEF UpdateInv
<1> QED BY <1>13 DEF b

LEMMA UpdatedWorks ==
    ASSUME NEW n \in Nat, NEW order, DOMAIN order = 1..n
    PROVE  UpdateInv(Updated(order), order, n)
<1>1. PICK acc : /\ acc[0] = UpdateStart
                 /\ \A i \in 1..n : acc[i] = Update(acc[i - 1], order[i])
                 /\ Updated(order) = acc[n]
  BY UpdatedSteps
<1> DEFINE P == {i \in 0..n : UpdateInv(acc[i], order, i)}
<1>2. 0 \in P
  <2>1. UpdateInv(UpdateStart, order, 0) BY DEF UpdateInv, UpdateStart
  <2> QED BY <1>1, <2>1
<1>3. ASSUME NEW i \in 1..n, i - 1 \in P PROVE i \in P
  <2>1. acc[i] = Update(acc[i - 1], order[i]) /\ UpdateInv(acc[i - 1], order, i - 1)
    BY <1>1, <1>3
  <2>2. i \in Nat \ {0} /\ i \in 0..n OBVIOUS
  <2> QED BY <2>1, <2>2, UpdateStep
<1>4. n \in P
  <2> HIDE DEF P
  <2>1. 0..n \subseteq P BY <1>2, <1>3, Counting
  <2> QED BY <2>1
<1> QED BY <1>1, <1>4
-----------------------------------------------------------------------------
(* The size of a work: the sum does not depend on the order of its terms.  *)

Some(T) == CHOOSE x \in T : TRUE

\* g is the sum that MapThenSumSet computes, for every part of W.
Sums(g, W) == \A T \in SUBSET W :
    g[T] = IF T = {} THEN 0 ELSE Some(T).size + g[T \ {Some(T)}]

LEMMA SomeIn == ASSUME NEW T, T # {} PROVE Some(T) \in T
BY DEF Some

LEMMA SumsAgree ==
    ASSUME NEW V, NEW W, NEW T \in SUBSET (V \cap W), IsFiniteSet(T),
           NEW g, NEW h, Sums(g, V), Sums(h, W)
    PROVE  g[T] = h[T]
<1> DEFINE B == {U \in SUBSET T : g[U] # h[U]}
<1> SUFFICES ASSUME B # {} PROVE FALSE BY T \in SUBSET T
<1>1. PICK U \in B : \A R \in SUBSET U : R # U => R \notin B
  <2>1. B \in SUBSET (SUBSET T) OBVIOUS
  <2> HIDE DEF B
  <2> QED BY <2>1, SmallestSet
<1>2. U \in SUBSET V /\ U \in SUBSET W /\ U \in SUBSET T BY <1>1
<1>3. CASE U = {} BY <1>1, <1>2, <1>3 DEF Sums
<1>4. CASE U # {}
  <2> DEFINE R == U \ {Some(U)}
  <2>1. R \in SUBSET U /\ R # U BY <1>4, SomeIn
  <2>2. g[R] = h[R] BY <1>1, <1>2, <2>1
  <2>3. g[U] = Some(U).size + g[R] /\ h[U] = Some(U).size + h[R]
    BY <1>2, <1>4 DEF Sums
  <2> QED BY <1>1, <2>2, <2>3
<1> QED BY <1>3, <1>4

LEMMA SizeSums ==
    ASSUME NEW W \in SUBSET Manifests, IsFiniteSet(W)
    PROVE  \E g : Sums(g, W) /\ g \in [SUBSET W -> Nat] /\ SizeOf(W) = g[W]
<1> DEFINE F == [p \in W \X Nat |-> p[1].size + p[2]]
           pick == [T \in SUBSET W |-> Some(T)]
           Defines(g) == g = [T \in SUBSET W |->
                IF T = {} THEN 0 ELSE Some(T).size + g[T \ {Some(T)}]]
           iter == CHOOSE g : Defines(g)
<1>1. F \in [W \X Nat -> Nat]
  <2>1. \A m \in W : m.size \in Nat BY ConstantsOK DEF Manifests
  <2> QED BY <2>1
<1>2. \A T \in SUBSET W : T # {} => pick[T] \in T BY SomeIn
<1>3. PICK g : IsFold(g, W, Nat, 0, pick, F)
  <2> HIDE DEF F, pick
  <2> QED BY <1>1, <1>2, FoldExists
<1>4. g \in [SUBSET W -> Nat] BY <1>3 DEF IsFold
<1>5. ASSUME NEW T \in SUBSET W
      PROVE  g[T] = IF T = {} THEN 0 ELSE Some(T).size + g[T \ {Some(T)}]
  <2>1. CASE T = {} BY <1>3, <2>1 DEF IsFold
  <2>2. CASE T # {}
    <3>1. g[T] = F[<<Some(T), g[T \ {Some(T)}]>>] BY <1>3, <2>2 DEF IsFold
    <3>2. Some(T) \in W /\ g[T \ {Some(T)}] \in Nat BY <1>4, <2>2, SomeIn
    <3> QED BY <2>2, <3>1, <3>2
  <2> QED BY <2>1, <2>2
<1>6. Defines(g) /\ Sums(g, W)
  <2> HIDE DEF F
  <2> QED BY <1>4, <1>5 DEF Sums
<1>7. Defines(iter)
  <2> HIDE DEF Defines, F
  <2> QED BY <1>6
<1>8. SizeOf(W) = iter[W] BY DEF SizeOf, MapThenSumSet, MapThenFoldSet, Some
<1> HIDE DEF iter
<1>9. Sums(iter, W) BY <1>7 DEF Sums
<1>10. \A T \in SUBSET W : iter[T] = g[T]
  <2> SUFFICES ASSUME NEW T \in SUBSET W PROVE iter[T] = g[T] OBVIOUS
  <2>1. IsFiniteSet(T) BY FS_Subset
  <2>2. T \in SUBSET (W \cap W) OBVIOUS
  <2> HIDE DEF F, Defines
  <2> QED BY <1>6, <1>9, <2>1, <2>2, SumsAgree
<1>11. W \in SUBSET W OBVIOUS
<1> QED BY <1>4, <1>6, <1>8, <1>10, <1>11

LEMMA SizeOfParts ==
    ASSUME NEW W \in SUBSET Manifests, IsFiniteSet(W)
    PROVE  /\ SizeOf(W) \in Nat
           /\ W = {} => SizeOf(W) = 0
           /\ W # {} => SizeOf(W) = Some(W).size + SizeOf(W \ {Some(W)})
<1>1. PICK g : Sums(g, W) /\ g \in [SUBSET W -> Nat] /\ SizeOf(W) = g[W]
  BY SizeSums
<1> DEFINE R == W \ {Some(W)}
<1>2. R \in SUBSET W /\ R \in SUBSET Manifests /\ IsFiniteSet(R) BY FS_Subset
<1>3. PICK h : Sums(h, R) /\ SizeOf(R) = h[R]
  <2> HIDE DEF R
  <2> QED BY <1>2, SizeSums
<1>4. g[R] = h[R]
  <2>1. R \in SUBSET (W \cap R) BY <1>2
  <2> HIDE DEF R
  <2> QED BY <1>1, <1>2, <1>3, <2>1, SumsAgree
<1>5. W \in SUBSET W OBVIOUS
<1>6. W # {} => g[W] = Some(W).size + g[R] BY <1>1, <1>5 DEF Sums
<1>7. W = {} => g[W] = 0 BY <1>1, <1>5 DEF Sums
<1> QED BY <1>1, <1>3, <1>4, <1>5, <1>6, <1>7

LEMMA SizeWithout ==
    ASSUME NEW W \in SUBSET Manifests, IsFiniteSet(W), NEW m \in W
    PROVE  SizeOf(W) = m.size + SizeOf(W \ {m})
<1> DEFINE B == {U \in SUBSET W : \E x \in U : SizeOf(U) # x.size + SizeOf(U \ {x})}
<1> SUFFICES ASSUME B # {} PROVE FALSE BY W \in SUBSET W
<1>1. PICK U \in B : \A R \in SUBSET U : R # U => R \notin B
  <2>1. B \in SUBSET (SUBSET W) OBVIOUS
  <2> HIDE DEF B
  <2> QED BY <2>1, SmallestSet
<1>2. U \in SUBSET W /\ U \in SUBSET Manifests /\ IsFiniteSet(U) BY <1>1, FS_Subset
<1>3. PICK x \in U : SizeOf(U) # x.size + SizeOf(U \ {x}) BY <1>1
<1> DEFINE y == Some(U)
<1>4. y \in U /\ SizeOf(U) = y.size + SizeOf(U \ {y})
  BY <1>2, <1>3, SomeIn, SizeOfParts
<1>5. x # y BY <1>3, <1>4
<1> HIDE DEF y
<1>6. \A z \in U : U \ {z} \in SUBSET U /\ U \ {z} # U /\ U \ {z} \in SUBSET W OBVIOUS
<1>7. SizeOf(U \ {y}) = x.size + SizeOf((U \ {y}) \ {x})
  <2>1. x \in U \ {y} /\ U \ {y} \in SUBSET W BY <1>4, <1>5, <1>6
  <2>2. U \ {y} \notin B
    <3> HIDE DEF B
    <3> QED BY <1>1, <1>4, <1>6
  <2> QED BY <2>1, <2>2
<1>8. SizeOf(U \ {x}) = y.size + SizeOf((U \ {x}) \ {y})
  <2>1. y \in U \ {x} /\ U \ {x} \in SUBSET W BY <1>4, <1>5, <1>6
  <2>2. U \ {x} \notin B
    <3> HIDE DEF B
    <3> QED BY <1>1, <1>6
  <2> QED BY <2>1, <2>2
<1>9. SizeOf((U \ {y}) \ {x}) = SizeOf((U \ {x}) \ {y})
  <2>1. (U \ {y}) \ {x} = (U \ {x}) \ {y} OBVIOUS
  <2> QED BY <2>1
<1>10. x.size \in Nat /\ y.size \in Nat BY <1>2, <1>4, ConstantsOK DEF Manifests
<1>11. SizeOf((U \ {x}) \ {y}) \in Nat
  <2>1. (U \ {x}) \ {y} \in SUBSET Manifests /\ IsFiniteSet((U \ {x}) \ {y})
    BY <1>2, FS_Subset
  <2> QED BY <2>1, SizeOfParts
<1> QED BY <1>3, <1>4, <1>7, <1>8, <1>9, <1>10, <1>11

\* Another manifest adds its size, if it is not there already.
LEMMA SizeWith ==
    ASSUME NEW W \in SUBSET Manifests, IsFiniteSet(W), NEW m \in Manifests
    PROVE  SizeOf(W \cup {m}) \in Nat /\ SizeOf(W \cup {m}) <= SizeOf(W) + m.size
<1>1. m.size \in Nat /\ SizeOf(W) \in Nat BY ConstantsOK, SizeOfParts DEF Manifests
<1>2. W \cup {m} \in SUBSET Manifests /\ IsFiniteSet(W \cup {m}) BY FS_AddElement
<1>3. CASE m \in W
  <2>1. W \cup {m} = W BY <1>3
  <2>2. SizeOf(W \cup {m}) = SizeOf(W) BY <2>1
  <2> QED BY <1>1, <2>2
<1>4. CASE m \notin W
  <2>1. (W \cup {m}) \ {m} = W BY <1>4
  <2>2. SizeOf(W \cup {m}) = m.size + SizeOf(W) BY <1>2, <2>1, SizeWithout
  <2> QED BY <1>1, <2>2
<1> QED BY <1>3, <1>4

-----------------------------------------------------------------------------
(* New manifests in existing works.                                        *)

LEMMA WantedWorks ==
    ASSUME wanted \in Demands, NEW W \in SUBSET wanted
    PROVE  /\ W \in SUBSET Manifests /\ IsFiniteSet(W) /\ SizeOf(W) \in Nat
           /\ W \in Bundles /\ W # None
<1>1. wanted \in Bundles /\ IsFiniteSet(wanted) BY ConstantsOK
<1>2. W \in SUBSET Manifests /\ IsFiniteSet(W) BY <1>1, FS_Subset DEF Bundles
<1>3. W \in Bundles BY <1>1, <1>2 DEF Bundles
<1> QED BY <1>2, <1>3, SizeOfParts, ConstantsOK

\* A work keeps what it has, and is given no more than there is room for.
PlaceInv(a, works) ==
    /\ a \in [works: Seq(SUBSET wanted), left: Seq(wanted)]
    /\ Len(a.works) = Len(works)
    /\ \A i \in 1..Len(works) :
          /\ works[i] \subseteq a.works[i]
          /\ a.works[i] = works[i] \/ SizeOf(a.works[i]) < Limit

LEMMA BufferIsRest ==
    ASSUME NEW W, SizeOf(W) \in Nat, Buffer(W) > 0
    PROVE  Buffer(W) = Limit - SizeOf(W)
BY ConstantsOK DEF Buffer

LEMMA PlaceStep ==
    ASSUME wanted \in Demands, NEW works \in Seq(SUBSET wanted), NEW a, PlaceInv(a, works),
           NEW m \in wanted
    PROVE  PlaceInv(Place(a, m), works)
<1> DEFINE room == {i \in Roomiest(a.works) : m.size < Buffer(a.works[i])}
           i == CHOOSE i \in room : TRUE
<1>1. a.works \in Seq(SUBSET wanted) /\ a.left \in Seq(wanted) /\ Len(a.works) = Len(works)
  BY DEF PlaceInv
<1>2. CASE room = {}
  <2>1. Place(a, m) = [works |-> a.works, left |-> Append(a.left, m)]
    BY <1>2 DEF Place, PlaceInv
  <2> QED BY <1>1, <2>1 DEF PlaceInv
<1>3. CASE room # {}
  <2>1. i \in room BY <1>3
  <2>2. i \in 1..Len(works) /\ Buffer(a.works[i]) > 0 /\ m.size < Buffer(a.works[i])
    BY <1>1, <2>1 DEF Roomiest
  <2> DEFINE w == a.works[i] \cup {m}
             b == [works |-> [a.works EXCEPT ![i] = w], left |-> a.left]
  <2>3. Place(a, m) = b BY <1>3 DEF Place, PlaceInv
  <2> HIDE DEF i, room
  <2>4. a.works[i] \in SUBSET wanted /\ w \in SUBSET wanted BY <1>1, <2>2
  <2>5. SizeOf(w) < Limit
    <3>1. /\ a.works[i] \in SUBSET Manifests /\ IsFiniteSet(a.works[i])
          /\ SizeOf(a.works[i]) \in Nat
      BY <2>4, WantedWorks
    <3>2. m \in Manifests /\ m.size \in Nat
      <4>1. wanted \in SUBSET Manifests BY WantedWorks
      <4> QED BY <4>1, ConstantsOK DEF Manifests
    <3>3. SizeOf(w) \in Nat /\ SizeOf(w) <= SizeOf(a.works[i]) + m.size
      BY <3>1, <3>2, SizeWith
    <3>4. Limit \in Nat BY ConstantsOK
    <3> HIDE DEF w
    <3>5. Buffer(a.works[i]) = Limit - SizeOf(a.works[i])
      BY <2>2, <3>1, BufferIsRest
    <3> QED BY <2>2, <3>1, <3>2, <3>3, <3>4, <3>5
  <2>6. a.works[i] \subseteq w OBVIOUS
  <2> HIDE DEF w
  <2>7. b.works \in Seq(SUBSET wanted) /\ Len(b.works) = Len(works)
    <3>1. b.works = [a.works EXCEPT ![i] = w] OBVIOUS
    <3> HIDE DEF b
    <3> QED BY <1>1, <2>2, <2>4, <3>1, ExceptSeq
  <2>8. \A j \in 1..Len(works) : b.works[j] = IF j = i THEN w ELSE a.works[j]
    <3>1. b.works = [a.works EXCEPT ![i] = w] OBVIOUS
    <3>2. DOMAIN a.works = 1..Len(works) BY <1>1, LenProperties
    <3> HIDE DEF b
    <3> QED BY <3>1, <3>2
  <2>9. b.left = a.left /\ b \in [works: Seq(SUBSET wanted), left: Seq(wanted)]
    BY <1>1, <2>7
  <2> HIDE DEF b
  <2>10. ASSUME NEW j \in 1..Len(works)
         PROVE  /\ works[j] \subseteq b.works[j]
                /\ b.works[j] = works[j] \/ SizeOf(b.works[j]) < Limit
    <3>1. CASE j = i
      <4>1. b.works[j] = w /\ works[j] \subseteq a.works[j]
        BY <2>8, <3>1 DEF PlaceInv
      <4> QED BY <2>5, <2>6, <3>1, <4>1
    <3>2. CASE j # i
      <4>1. b.works[j] = a.works[j] BY <2>8, <3>2
      <4> QED BY <4>1 DEF PlaceInv
    <3> QED BY <3>1, <3>2
  <2> QED BY <2>3, <2>7, <2>9, <2>10 DEF PlaceInv
<1> QED BY <1>2, <1>3

LEMMA PlacedSteps ==
    ASSUME wanted \in Demands, NEW works \in Seq(SUBSET wanted),
           NEW n \in Nat, NEW manifests \in [1..n -> wanted]
    PROVE  \E acc : /\ acc[0] = [works |-> works, left |-> <<>>]
                    /\ \A i \in 1..n : acc[i] = Place(acc[i - 1], manifests[i])
                    /\ \A i \in 0..n : PlaceInv(acc[i], works)
                    /\ Placed(works, manifests) = acc[n]
<1> DEFINE start == [works |-> works, left |-> <<>>]
           V == {a \in [works: Seq(SUBSET wanted), left: Seq(wanted)] : PlaceInv(a, works)}
           F == [p \in (1..n) \X V |-> Place(p[2], manifests[p[1]])]
           Defines(g) == g = [T \in SUBSET (1..n) |->
                IF T = {} THEN start ELSE Place(g[T \ {Max(T)}], manifests[Max(T)])]
           iter == CHOOSE g : Defines(g)
<1>1. start \in V
  <2>1. start.works = works /\ start \in [works: Seq(SUBSET wanted), left: Seq(wanted)]
    OBVIOUS
  <2> HIDE DEF start
  <2>2. PlaceInv(start, works) BY <2>1 DEF PlaceInv
  <2> QED BY <2>1, <2>2
<1>2. \A a \in V : \A i \in 1..n : Place(a, manifests[i]) \in V
  <2> SUFFICES ASSUME NEW a \in V, NEW i \in 1..n PROVE Place(a, manifests[i]) \in V
    OBVIOUS
  <2>1. PlaceInv(Place(a, manifests[i]), works) BY PlaceStep
  <2> QED BY <2>1 DEF PlaceInv
<1> HIDE DEF V
<1>3. F \in [(1..n) \X V -> V] BY <1>2
<1>4. PICK g : IsFold(g, 1..n, V, start, Latest(n), F)
  <2> HIDE DEF F, start
  <2> QED BY <1>1, <1>3, FoldLeftExists
<1>5. Defines(g)
  <2>1. g \in [SUBSET (1..n) -> V] BY <1>4 DEF IsFold
  <2>2. ASSUME NEW T \in SUBSET (1..n)
        PROVE  g[T] = IF T = {} THEN start ELSE Place(g[T \ {Max(T)}], manifests[Max(T)])
    <3>1. CASE T = {} BY <1>4, <3>1 DEF IsFold
    <3>2. CASE T # {}
      <4>1. g[T] = F[<<Max(T), g[T \ {Max(T)}]>>] BY <1>4, <3>2 DEF IsFold, Latest
      <4>2. Max(T) \in 1..n /\ g[T \ {Max(T)}] \in V BY <2>1, <3>2, MaxIn
      <4> QED BY <3>2, <4>1, <4>2
    <3> QED BY <3>1, <3>2
  <2> HIDE DEF F, start
  <2> QED BY <2>1, <2>2
<1>6. Defines(iter)
  <2> HIDE DEF Defines, F
  <2> QED BY <1>5
<1>7. Placed(works, manifests) = iter[1..n]
  BY DEF Placed, FoldLeft, MapThenFoldSet
<1> HIDE DEF iter, start
<1>8. \A T \in SUBSET (1..n) : iter[T] =
         IF T = {} THEN start ELSE Place(iter[T \ {Max(T)}], manifests[Max(T)])
  BY <1>6
<1>9. iter[{}] \in V BY <1>1, <1>8
<1>10. ASSUME NEW i \in 1..n, iter[1..(i - 1)] \in V PROVE iter[1..i] \in V
  <2>1. 1..i \in SUBSET (1..n) /\ i \in Nat \ {0} OBVIOUS
  <2>2. Max(1..i) = i /\ (1..i) \ {i} = 1..(i - 1) /\ 1..i # {} BY <2>1, MaxInterval
  <2>3. iter[1..i] = Place(iter[1..(i - 1)], manifests[i]) BY <1>8, <2>1, <2>2
  <2> QED BY <1>2, <1>10, <2>3
<1> DEFINE acc == [i \in 0..n |-> iter[1..i]]
<1>11. acc[0] = start
  <2>1. 1..0 = {} /\ {} \in SUBSET (1..n) OBVIOUS
  <2>2. iter[{}] = start BY <1>8, <2>1
  <2> QED BY <2>1, <2>2
<1>12. ASSUME NEW i \in 1..n PROVE acc[i] = Place(acc[i - 1], manifests[i])
  <2>1. 1..i \in SUBSET (1..n) /\ i \in Nat \ {0} /\ i - 1 \in 0..n OBVIOUS
  <2>2. Max(1..i) = i /\ (1..i) \ {i} = 1..(i - 1) /\ 1..i # {} BY <2>1, MaxInterval
  <2>3. iter[1..i] = Place(iter[1..(i - 1)], manifests[i]) BY <1>8, <2>1, <2>2
  <2> QED BY <2>1, <2>3
<1>13. \A i \in 0..n : acc[i] \in V
  <2> DEFINE P == {i \in 0..n : iter[1..i] \in V}
  <2>1. 0 \in P
    <3>1. 1..0 = {} OBVIOUS
    <3> QED BY <1>9, <3>1
  <2>2. ASSUME NEW i \in 1..n, i - 1 \in P PROVE i \in P BY <1>10, <2>2
  <2> HIDE DEF P
  <2>3. 0..n \subseteq P BY <2>1, <2>2, Counting
  <2> QED BY <2>3 DEF P
<1>14. acc[n] = iter[1..n] OBVIOUS
<1> HIDE DEF acc
<1>15. \A i \in 0..n : PlaceInv(acc[i], works) BY <1>13 DEF V
<1> QED BY <1>7, <1>11, <1>12, <1>14, <1>15 DEF start

LEMMA PlacedWorks ==
    ASSUME wanted \in Demands, NEW works \in Seq(SUBSET wanted),
           NEW n \in Nat, NEW manifests \in [1..n -> wanted]
    PROVE  PlaceInv(Placed(works, manifests), works)
<1>1. n \in 0..n OBVIOUS
<1> QED BY <1>1, PlacedSteps

\* What Place makes of a: m is passed on, or goes into the i-th of n works.
PassedOn(a, b) == b.works = a.works /\ b.left # <<>>
PlacedIn(a, b, m, i, n) ==
    /\ b.left = a.left
    /\ \A j \in 1..n : b.works[j] = IF j = i THEN a.works[i] \cup {m} ELSE a.works[j]

LEMMA PlaceEither ==
    ASSUME NEW works, NEW a, PlaceInv(a, works), Len(works) \in Nat, NEW m
    PROVE  \/ PassedOn(a, Place(a, m))
           \/ \E i \in 1..Len(works) : PlacedIn(a, Place(a, m), m, i, Len(works))
<1> DEFINE room == {i \in Roomiest(a.works) : m.size < Buffer(a.works[i])}
           i == CHOOSE i \in room : TRUE
<1>1. a.works \in Seq(SUBSET wanted) /\ a.left \in Seq(wanted) /\ Len(a.works) = Len(works)
  BY DEF PlaceInv
<1>2. CASE room = {}
  <2>1. Place(a, m) = [works |-> a.works, left |-> Append(a.left, m)]
    BY <1>2 DEF Place, PlaceInv
  <2> DEFINE l == Append(a.left, m)
  <2>2. l # <<>> BY <1>1
  <2> HIDE DEF l
  <2> QED BY <2>1, <2>2 DEF l, PassedOn
<1>3. CASE room # {}
  <2>1. i \in room BY <1>3
  <2>2. DOMAIN a.works = 1..Len(works) BY <1>1, LenProperties
  <2>3. i \in 1..Len(works) BY <2>1, <2>2 DEF Roomiest
  <2> DEFINE w == a.works[i] \cup {m}
  <2>4. Place(a, m) = [works |-> [a.works EXCEPT ![i] = w], left |-> a.left]
    BY <1>3 DEF Place, PlaceInv
  <2> HIDE DEF i, room, w
  <2>5. Place(a, m).left = a.left /\ Place(a, m).works = [a.works EXCEPT ![i] = w] BY <2>4
  <2>6. \A j \in 1..Len(works) : Place(a, m).works[j] = IF j = i THEN w ELSE a.works[j]
    BY <2>2, <2>5
  <2> QED BY <2>3, <2>5, <2>6 DEF w, PlacedIn
<1> QED BY <1>2, <1>3

\* After i manifests: each is in one of the works, or one is left for a new one.
SplitInv(a, works, manifests, i) ==
    /\ \A j \in 1..Len(works) : \A m \in a.works[j] :
          m \in works[j] \/ \E t \in 1..i : m = manifests[t]
    /\ \A j, k \in 1..Len(works) : j # k => a.works[j] \cap a.works[k] = {}
    /\ a.left = <<>> => \A t \in 1..i : \E j \in 1..Len(works) : manifests[t] \in a.works[j]

LEMMA SplitStep ==
    ASSUME NEW n \in Nat, NEW manifests, NEW works, Len(works) \in Nat,
           \A t, u \in 1..n : manifests[t] = manifests[u] => t = u,
           \A t \in 1..n : \A j \in 1..Len(works) : manifests[t] \notin works[j],
           NEW i \in 1..n, NEW a, PlaceInv(a, works), SplitInv(a, works, manifests, i - 1)
    PROVE  SplitInv(Place(a, manifests[i]), works, manifests, i)
<1> DEFINE m == manifests[i]
           b == Place(a, m)
<1>1. \A t \in 1..i : t = i \/ t \in 1..(i - 1) OBVIOUS
<1>2. \A t \in 1..(i - 1) : t \in 1..i /\ t \in 1..n /\ t # i OBVIOUS
<1>3. i \in 1..i /\ i \in 1..n OBVIOUS
<1>4. \A j \in 1..Len(works) : m \notin a.works[j]
  <2> SUFFICES ASSUME NEW j \in 1..Len(works), m \in a.works[j] PROVE FALSE OBVIOUS
  <2>1. PICK t \in 1..(i - 1) : m = manifests[t] BY DEF SplitInv
  <2> QED BY <1>2, <2>1
<1>5. /\ \A j \in 1..Len(works) : \A x \in a.works[j] :
            x \in works[j] \/ \E t \in 1..i : x = manifests[t]
      /\ \A j, k \in 1..Len(works) : j # k => a.works[j] \cap a.works[k] = {}
  BY <1>2 DEF SplitInv
<1>6. CASE PassedOn(a, b)
  <2> HIDE DEF b
  <2>1. SplitInv(b, works, manifests, i) BY <1>5, <1>6 DEF SplitInv, PassedOn
  <2> QED BY <2>1 DEF b
<1>7. ASSUME NEW p \in 1..Len(works), PlacedIn(a, b, m, p, Len(works))
      PROVE  SplitInv(b, works, manifests, i)
  <2>0. /\ b.left = a.left
        /\ \A j \in 1..Len(works) :
              b.works[j] = IF j = p THEN a.works[p] \cup {m} ELSE a.works[j]
    BY <1>7 DEF PlacedIn
  <2> HIDE DEF b
  <2>1. ASSUME NEW j \in 1..Len(works), NEW x \in b.works[j]
        PROVE  x \in works[j] \/ \E t \in 1..i : x = manifests[t]
    <3>1. x \in a.works[j] \/ x = m BY <2>0
    <3> QED BY <1>3, <1>5, <3>1
  <2>2. ASSUME NEW j \in 1..Len(works), NEW k \in 1..Len(works), j # k
        PROVE  b.works[j] \cap b.works[k] = {}
    <3>1. a.works[j] \cap a.works[k] = {} BY <1>5, <2>2
    <3> HIDE DEF m
    <3> QED BY <1>4, <2>0, <2>2, <3>1
  <2>3. ASSUME b.left = <<>>, NEW t \in 1..i
        PROVE  \E j \in 1..Len(works) : manifests[t] \in b.works[j]
    <3>1. CASE t = i BY <2>0, <3>1
    <3>2. CASE t \in 1..(i - 1)
      <4>1. PICK j \in 1..Len(works) : manifests[t] \in a.works[j]
        BY <2>0, <2>3, <3>2 DEF SplitInv
      <4> QED BY <2>0, <4>1
    <3> QED BY <1>1, <3>1, <3>2
  <2> QED BY <2>1, <2>2, <2>3 DEF SplitInv
<1>8. PassedOn(a, b) \/ \E p \in 1..Len(works) : PlacedIn(a, b, m, p, Len(works))
  BY PlaceEither
<1>9. CASE \E p \in 1..Len(works) : PlacedIn(a, b, m, p, Len(works))
  <2>1. PICK p \in 1..Len(works) : PlacedIn(a, b, m, p, Len(works)) BY <1>9
  <2> HIDE DEF b, m
  <2>2. SplitInv(b, works, manifests, i) BY <1>7, <2>1
  <2> QED BY <2>2 DEF b, m
<1> HIDE DEF b, m
<1>10. SplitInv(b, works, manifests, i) BY <1>6, <1>8, <1>9 DEF b, m
<1> QED BY <1>10 DEF b, m

LEMMA SplitWorks ==
    ASSUME wanted \in Demands, NEW works \in Seq(SUBSET wanted),
           NEW n \in Nat, NEW manifests \in [1..n -> wanted],
           \A t, u \in 1..n : manifests[t] = manifests[u] => t = u,
           \A t \in 1..n : \A j \in 1..Len(works) : manifests[t] \notin works[j],
           \A j, k \in 1..Len(works) : j # k => works[j] \cap works[k] = {}
    PROVE  SplitInv(Placed(works, manifests), works, manifests, n)
<1>1. PICK acc : /\ acc[0] = [works |-> works, left |-> <<>>]
                 /\ \A i \in 1..n : acc[i] = Place(acc[i - 1], manifests[i])
                 /\ \A i \in 0..n : PlaceInv(acc[i], works)
                 /\ Placed(works, manifests) = acc[n]
  BY PlacedSteps
<1>2. Len(works) \in Nat BY LenProperties
<1> DEFINE P == {i \in 0..n : SplitInv(acc[i], works, manifests, i)}
<1>3. 0 \in P
  <2>1. acc[0].works = works BY <1>1
  <2>2. SplitInv(acc[0], works, manifests, 0) BY <2>1 DEF SplitInv
  <2> QED BY <2>2
<1>4. ASSUME NEW i \in 1..n, i - 1 \in P PROVE i \in P
  <2>1. i - 1 \in 0..n /\ i \in 0..n OBVIOUS
  <2>2. PlaceInv(acc[i - 1], works) /\ SplitInv(acc[i - 1], works, manifests, i - 1)
    BY <1>1, <1>4, <2>1
  <2>3. SplitInv(Place(acc[i - 1], manifests[i]), works, manifests, i)
    BY <1>2, <2>2, SplitStep
  <2> QED BY <1>1, <2>1, <2>3
<1>5. n \in P
  <2> HIDE DEF P
  <2>1. 0..n \subseteq P BY <1>3, <1>4, Counting
  <2> QED BY <2>1
<1> QED BY <1>1, <1>5

-----------------------------------------------------------------------------
(* New works, and those that are left over.                                *)

\* What newManifestWorks makes of manifests: works within the limit, or of one
\* manifest, or empty.
Filled(works) ==
    /\ works \in Seq(SUBSET wanted) /\ works # <<>>
    /\ \A i \in 1..Len(works) :
          works[i] = {} \/ SizeOf(works[i]) < Limit \/ Cardinality(works[i]) = 1

LEMMA FillStep ==
    ASSUME wanted \in Demands, NEW works, Filled(works), NEW m \in wanted
    PROVE  Filled(Fill(works, m))
<1> DEFINE n == Len(works)
           w == works[n] \cup {m}
<1>1. works \in Seq(SUBSET wanted) /\ n \in Nat \ {0} /\ Last(works) = works[n]
  BY EmptySeq, LenProperties DEF Filled, Last
<1>2. works[n] \in SUBSET wanted /\ w \in SUBSET wanted BY <1>1
<1>3. CASE SizeOf(works[n]) + m.size < Limit
  <2> DEFINE b == Append(Front(works), w)
  <2>1. Fill(works, m) = b BY <1>1, <1>3 DEF Fill
  <2>2. Front(works) \in Seq(SUBSET wanted) /\ Len(Front(works)) = n - 1
        /\ \A i \in 1..(n - 1) : Front(works)[i] = works[i]
    <3>1. Front(works) = SubSeq(works, 1, n - 1) BY DEF Front
    <3>2. n - 1 \in Int /\ 1 \in Int /\ \A i \in 1..(n - 1) : works[i] \in SUBSET wanted
      BY <1>1
    <3> HIDE DEF n
    <3>3. /\ SubSeq(works, 1, n - 1) \in Seq(SUBSET wanted)
          /\ Len(SubSeq(works, 1, n - 1)) = IF 1 <= n - 1 THEN n - 1 - 1 + 1 ELSE 0
          /\ \A i \in 1..(n - 1 - 1 + 1) : SubSeq(works, 1, n - 1)[i] = works[1 + i - 1]
      BY <3>2, SubSeqProperties
    <3>4. n - 1 - 1 + 1 = n - 1 /\ n \in Nat \ {0} /\ \A i \in 1..(n - 1) : 1 + i - 1 = i
      BY <1>1
    <3> QED BY <3>1, <3>3, <3>4
  <2>3. SizeOf(w) < Limit
    <3>1. /\ works[n] \in SUBSET Manifests /\ IsFiniteSet(works[n])
          /\ SizeOf(works[n]) \in Nat
      BY <1>2, WantedWorks
    <3>2. m \in Manifests /\ m.size \in Nat
      <4>1. wanted \in SUBSET Manifests BY WantedWorks
      <4> QED BY <4>1, ConstantsOK DEF Manifests
    <3>3. SizeOf(w) \in Nat /\ SizeOf(w) <= SizeOf(works[n]) + m.size
      BY <3>1, <3>2, SizeWith
    <3> HIDE DEF w, n
    <3> QED BY <1>3, <3>1, <3>2, <3>3, ConstantsOK
  <2> DEFINE f == Front(works)
  <2> HIDE DEF w, n, f
  <2>4. b \in Seq(SUBSET wanted) /\ Len(b) = n /\ b # <<>>
        /\ \A i \in 1..n : b[i] = IF i = n THEN w ELSE works[i]
    <3>1. f \in Seq(SUBSET wanted) /\ Len(f) = n - 1 /\ \A i \in 1..(n - 1) : f[i] = works[i]
      BY <2>2 DEF f
    <3>2. b = Append(f, w) BY DEF f
    <3> HIDE DEF b
    <3> QED BY <1>1, <1>2, <3>1, <3>2
  <2> HIDE DEF b
  <2>5. ASSUME NEW i \in 1..n
        PROVE  b[i] = {} \/ SizeOf(b[i]) < Limit \/ Cardinality(b[i]) = 1
    <3>1. CASE i = n
      <4>1. b[i] = w BY <2>4, <3>1
      <4> QED BY <2>3, <4>1
    <3>2. CASE i # n
      <4>1. b[i] = works[i] BY <2>4, <3>2
      <4> QED BY <4>1 DEF Filled, n
    <3> QED BY <3>1, <3>2
  <2> QED BY <2>1, <2>4, <2>5 DEF Filled
<1>4. CASE ~(SizeOf(works[n]) + m.size < Limit)
  <2> DEFINE b == Append(works, {m})
  <2>1. Fill(works, m) = b BY <1>1, <1>4 DEF Fill
  <2>2. b \in Seq(SUBSET wanted) /\ Len(b) = n + 1 /\ b # <<>>
        /\ \A i \in 1..(n + 1) : b[i] = IF i = n + 1 THEN {m} ELSE works[i]
    BY <1>1
  <2> HIDE DEF b
  <2>3. ASSUME NEW i \in 1..(n + 1)
        PROVE  b[i] = {} \/ SizeOf(b[i]) < Limit \/ Cardinality(b[i]) = 1
    <3>1. CASE i = n + 1
      <4>1. b[i] = {m} BY <2>2, <3>1
      <4> QED BY <4>1, FS_Singleton
    <3>2. CASE i # n + 1
      <4>1. b[i] = works[i] BY <2>2, <3>2
      <4> QED BY <3>2, <4>1, <1>1 DEF Filled
    <3> QED BY <3>1, <3>2
  <2> QED BY <2>1, <2>2, <2>3 DEF Filled
<1> QED BY <1>3, <1>4

LEMMA FilledWorks ==
    ASSUME wanted \in Demands, NEW n \in Nat, NEW manifests \in [1..n -> wanted]
    PROVE  Filled(FoldLeft(Fill, <<{}>>, manifests))
<1> DEFINE start == <<{}>>
           V == {works \in Seq(SUBSET wanted) : Filled(works)}
           F == [p \in (1..n) \X V |-> Fill(p[2], manifests[p[1]])]
           Defines(g) == g = [T \in SUBSET (1..n) |->
                IF T = {} THEN start ELSE Fill(g[T \ {Max(T)}], manifests[Max(T)])]
           iter == CHOOSE g : Defines(g)
<1>1. start \in V BY DEF Filled
<1>2. \A a \in V : \A i \in 1..n : Fill(a, manifests[i]) \in V
  <2> SUFFICES ASSUME NEW a \in V, NEW i \in 1..n PROVE Fill(a, manifests[i]) \in V
    OBVIOUS
  <2>1. Filled(Fill(a, manifests[i])) BY FillStep
  <2> QED BY <2>1 DEF Filled
<1> HIDE DEF V
<1>3. F \in [(1..n) \X V -> V] BY <1>2
<1>4. PICK g : IsFold(g, 1..n, V, start, Latest(n), F)
  <2> HIDE DEF F, start
  <2> QED BY <1>1, <1>3, FoldLeftExists
<1>5. Defines(g)
  <2>1. g \in [SUBSET (1..n) -> V] BY <1>4 DEF IsFold
  <2>2. ASSUME NEW T \in SUBSET (1..n)
        PROVE  g[T] = IF T = {} THEN start ELSE Fill(g[T \ {Max(T)}], manifests[Max(T)])
    <3>1. CASE T = {} BY <1>4, <3>1 DEF IsFold
    <3>2. CASE T # {}
      <4>1. g[T] = F[<<Max(T), g[T \ {Max(T)}]>>] BY <1>4, <3>2 DEF IsFold, Latest
      <4>2. Max(T) \in 1..n /\ g[T \ {Max(T)}] \in V BY <2>1, <3>2, MaxIn
      <4> QED BY <3>2, <4>1, <4>2
    <3> QED BY <3>1, <3>2
  <2> HIDE DEF F, start
  <2> QED BY <2>1, <2>2
<1>6. Defines(iter)
  <2> HIDE DEF Defines, F
  <2> QED BY <1>5
<1>7. FoldLeft(Fill, <<{}>>, manifests) = iter[1..n]
  BY DEF FoldLeft, MapThenFoldSet
<1> HIDE DEF iter, start
<1>8. \A T \in SUBSET (1..n) : iter[T] =
         IF T = {} THEN start ELSE Fill(iter[T \ {Max(T)}], manifests[Max(T)])
  BY <1>6
<1>9. iter[{}] \in V BY <1>1, <1>8
<1>10. ASSUME NEW i \in 1..n, iter[1..(i - 1)] \in V PROVE iter[1..i] \in V
  <2>1. 1..i \in SUBSET (1..n) /\ i \in Nat \ {0} OBVIOUS
  <2>2. Max(1..i) = i /\ (1..i) \ {i} = 1..(i - 1) /\ 1..i # {} BY <2>1, MaxInterval
  <2>3. iter[1..i] = Fill(iter[1..(i - 1)], manifests[i]) BY <1>8, <2>1, <2>2
  <2> QED BY <1>2, <1>10, <2>3
<1>11. iter[1..n] \in V BY <1>9, <1>10, FoldResult
<1> QED BY <1>7, <1>11 DEF V

-----------------------------------------------------------------------------
(* The calls.                                                              *)

Calls == [name: Names, work: {None} \cup Bundles]

\* The calls for updated works, by whether they are in K or in G.
Sortable(updated, n, K, G) ==
    \A i \in 1..n : IF updated[i].work = {}
                   THEN [name |-> updated[i].name, work |-> None] \in G
                   ELSE updated[i] \in K

Lists(K, G) == [applied: Seq(K), deleted: Seq(G)]

IsSorting(acc, new, updated, n, K, G) ==
    /\ acc[0] = [applied |-> new, deleted |-> <<>>]
    /\ \A i \in 1..n : acc[i] = Sort(acc[i - 1], updated[i])
    /\ \A i \in 0..n : acc[i] \in Lists(K, G)
    /\ Sorted(new, updated) = acc[n]

LEMMA SortedSteps ==
    ASSUME NEW K, NEW G, NEW new \in Seq(K), NEW n \in Nat, NEW updated \in [1..n -> Calls],
           Sortable(updated, n, K, G)
    PROVE  \E acc : IsSorting(acc, new, updated, n, K, G)
<1> DEFINE start == [applied |-> new, deleted |-> <<>>]
           V == [applied: Seq(K), deleted: Seq(G)]
           F == [p \in (1..n) \X V |-> Sort(p[2], updated[p[1]])]
           Defines(g) == g = [T \in SUBSET (1..n) |->
                IF T = {} THEN start ELSE Sort(g[T \ {Max(T)}], updated[Max(T)])]
           iter == CHOOSE g : Defines(g)
<1> USE DEF Sortable, Lists
<1>1. start \in V OBVIOUS
<1>2. \A a \in V : \A i \in 1..n : Sort(a, updated[i]) \in V
  <2> SUFFICES ASSUME NEW a \in V, NEW i \in 1..n PROVE Sort(a, updated[i]) \in V
    OBVIOUS
  <2> DEFINE c == updated[i]
  <2>1. c \in Calls OBVIOUS
  <2>2. CASE c.work = {}
    <3>1. [c EXCEPT !.work = None] = [name |-> c.name, work |-> None] BY <2>1 DEF Calls
    <3>2. Sort(a, c) = [a EXCEPT !.deleted = Append(a.deleted, [name |-> c.name, work |-> None])]
      BY <2>2, <3>1 DEF Sort
    <3> DEFINE d == Append(a.deleted, [name |-> c.name, work |-> None])
    <3>3. [name |-> c.name, work |-> None] \in G BY <2>2
    <3>4. d \in Seq(G) BY <3>3
    <3>5. Sort(a, c) = [a EXCEPT !.deleted = d] BY <3>2
    <3> HIDE DEF d, c
    <3> QED BY <3>4, <3>5 DEF c
  <2>3. CASE c.work # {}
    <3>1. Sort(a, c) = [a EXCEPT !.applied = Append(a.applied, c)] BY <2>3 DEF Sort
    <3> DEFINE d == Append(a.applied, c)
    <3>2. c \in K BY <2>3
    <3>3. d \in Seq(K) BY <3>2
    <3>4. Sort(a, c) = [a EXCEPT !.applied = d] BY <3>1
    <3> HIDE DEF d, c
    <3> QED BY <3>3, <3>4 DEF c
  <2> QED BY <2>2, <2>3
<1> HIDE DEF V
<1>3. F \in [(1..n) \X V -> V] BY <1>2
<1>4. PICK g : IsFold(g, 1..n, V, start, Latest(n), F)
  <2> HIDE DEF F, start
  <2> QED BY <1>1, <1>3, FoldLeftExists
<1>5. Defines(g)
  <2>1. g \in [SUBSET (1..n) -> V] BY <1>4 DEF IsFold
  <2>2. ASSUME NEW T \in SUBSET (1..n)
        PROVE  g[T] = IF T = {} THEN start ELSE Sort(g[T \ {Max(T)}], updated[Max(T)])
    <3>1. CASE T = {} BY <1>4, <3>1 DEF IsFold
    <3>2. CASE T # {}
      <4>1. g[T] = F[<<Max(T), g[T \ {Max(T)}]>>] BY <1>4, <3>2 DEF IsFold, Latest
      <4>2. Max(T) \in 1..n /\ g[T \ {Max(T)}] \in V BY <2>1, <3>2, MaxIn
      <4> QED BY <3>2, <4>1, <4>2
    <3> QED BY <3>1, <3>2
  <2> HIDE DEF F, start
  <2> QED BY <2>1, <2>2
<1>6. Defines(iter)
  <2> HIDE DEF Defines, F
  <2> QED BY <1>5
<1>7. Sorted(new, updated) = iter[1..n]
  BY DEF Sorted, FoldLeft, MapThenFoldSet
<1> HIDE DEF iter, start
<1>8. \A T \in SUBSET (1..n) : iter[T] =
         IF T = {} THEN start ELSE Sort(iter[T \ {Max(T)}], updated[Max(T)])
  BY <1>6
<1>9. iter[{}] \in V BY <1>1, <1>8
<1>10. ASSUME NEW i \in 1..n, iter[1..(i - 1)] \in V PROVE iter[1..i] \in V
  <2>1. 1..i \in SUBSET (1..n) /\ i \in Nat \ {0} OBVIOUS
  <2>2. Max(1..i) = i /\ (1..i) \ {i} = 1..(i - 1) /\ 1..i # {} BY <2>1, MaxInterval
  <2>3. iter[1..i] = Sort(iter[1..(i - 1)], updated[i]) BY <1>8, <2>1, <2>2
  <2> QED BY <1>2, <1>10, <2>3
<1> DEFINE acc == [i \in 0..n |-> iter[1..i]]
<1>11. acc[0] = start
  <2>1. 1..0 = {} /\ {} \in SUBSET (1..n) OBVIOUS
  <2>2. iter[{}] = start BY <1>8, <2>1
  <2> QED BY <2>1, <2>2
<1>12. ASSUME NEW i \in 1..n PROVE acc[i] = Sort(acc[i - 1], updated[i])
  <2>1. 1..i \in SUBSET (1..n) /\ i \in Nat \ {0} /\ i - 1 \in 0..n OBVIOUS
  <2>2. Max(1..i) = i /\ (1..i) \ {i} = 1..(i - 1) /\ 1..i # {} BY <2>1, MaxInterval
  <2>3. iter[1..i] = Sort(iter[1..(i - 1)], updated[i]) BY <1>8, <2>1, <2>2
  <2> QED BY <2>1, <2>3
<1>13. \A i \in 0..n : acc[i] \in V
  <2> DEFINE P == {i \in 0..n : iter[1..i] \in V}
  <2>1. 0 \in P
    <3>1. 1..0 = {} OBVIOUS
    <3> QED BY <1>9, <3>1
  <2>2. ASSUME NEW i \in 1..n, i - 1 \in P PROVE i \in P BY <1>10, <2>2
  <2> HIDE DEF P
  <2>3. 0..n \subseteq P BY <2>1, <2>2, Counting
  <2> QED BY <2>3 DEF P
<1>14. acc[n] = iter[1..n] OBVIOUS
<1> HIDE DEF acc
<1> QED BY <1>7, <1>11, <1>12, <1>13, <1>14 DEF start, V, IsSorting

In(s, x) == \E k \in 1..Len(s) : s[k] = x

LEMMA InAppend ==
    ASSUME NEW S, NEW s \in Seq(S), NEW x, NEW y \in S
    PROVE  In(Append(s, y), y) /\ (In(s, x) => In(Append(s, y), x))
<1> DEFINE u == Append(s, y)
           l == Len(s)
<1>1. l \in Nat /\ Len(u) = l + 1 /\ u[l + 1] = y /\ \A k \in 1..l : u[k] = s[k]
  OBVIOUS
<1> HIDE DEF u, l
<1>2. l + 1 \in 1..Len(u) /\ \A k \in 1..l : k \in 1..Len(u) BY <1>1
<1>3. In(u, y) BY <1>1, <1>2 DEF In
<1>4. (\E k \in 1..l : s[k] = x) => In(u, x) BY <1>1, <1>2 DEF In
<1> QED BY <1>3, <1>4 DEF u, l, In

LEMMA InConcat ==
    ASSUME NEW S, NEW s \in Seq(S), NEW t \in Seq(S), NEW x, In(s, x) \/ In(t, x)
    PROVE  In(s \o t, x)
<1> DEFINE u == s \o t
           l == Len(s)
           m == Len(t)
<1>1. l \in Nat /\ m \in Nat /\ Len(u) = l + m
      /\ \A k \in 1..(l + m) : u[k] = IF k <= l THEN s[k] ELSE t[k - l]
  BY ConcatProperties
<1> HIDE DEF u, l, m
<1>2. \A k \in 1..l : k \in 1..Len(u) /\ u[k] = s[k] BY <1>1
<1>3. ASSUME NEW k \in 1..m PROVE l + k \in 1..Len(u) /\ u[l + k] = t[k]
  <2>1. l + k \in 1..(l + m) /\ ~(l + k <= l) /\ l + k - l = k BY <1>1
  <2> QED BY <1>1, <2>1
<1> QED BY <1>2, <1>3 DEF In, u, l, m

\* After i updated works: each is in one of the lists, as are the new works.
SortInv(a, new, updated, i) ==
    /\ \A t \in 1..Len(new) : In(a.applied, new[t])
    /\ \A t \in 1..i : IF updated[t].work = {}
                       THEN In(a.deleted, [name |-> updated[t].name, work |-> None])
                       ELSE In(a.applied, updated[t])

LEMMA SortStep ==
    ASSUME NEW K, NEW G, NEW a \in [applied: Seq(K), deleted: Seq(G)], NEW new,
           NEW n \in Nat, NEW updated \in [1..n -> Calls], NEW i \in 1..n,
           IF updated[i].work = {}
           THEN [name |-> updated[i].name, work |-> None] \in G ELSE updated[i] \in K,
           SortInv(a, new, updated, i - 1)
    PROVE  SortInv(Sort(a, updated[i]), new, updated, i)
<1> DEFINE c == updated[i]
           d == [name |-> c.name, work |-> None]
           b == Sort(a, c)
<1>1. \A t \in 1..i : t = i \/ t \in 1..(i - 1) OBVIOUS
<1>2. c \in Calls OBVIOUS
<1>3. CASE c.work = {}
  <2>1. [c EXCEPT !.work = None] = d BY <1>2 DEF Calls
  <2>2. b = [a EXCEPT !.deleted = Append(a.deleted, d)] BY <1>3, <2>1 DEF Sort
  <2>3. b.applied = a.applied /\ b.deleted = Append(a.deleted, d)
    <3> DEFINE e == Append(a.deleted, d)
    <3>1. b = [a EXCEPT !.deleted = e] BY <2>2
    <3> HIDE DEF e, b
    <3> QED BY <3>1 DEF e
  <2>4. a.deleted \in Seq(G) /\ d \in G BY <1>3
  <2> HIDE DEF b, c, d
  <2>5. In(b.deleted, d) /\ \A x : In(a.deleted, x) => In(b.deleted, x)
    BY <2>3, <2>4, InAppend
  <2>6. ASSUME NEW t \in 1..i
        PROVE  IF updated[t].work = {}
               THEN In(b.deleted, [name |-> updated[t].name, work |-> None])
               ELSE In(b.applied, updated[t])
    <3>1. CASE t = i BY <1>3, <2>5, <3>1 DEF c, d
    <3>2. CASE t \in 1..(i - 1) BY <2>3, <2>5, <3>2 DEF SortInv
    <3> QED BY <1>1, <3>1, <3>2
  <2>7. SortInv(b, new, updated, i) BY <2>3, <2>6 DEF SortInv
  <2> QED BY <2>7 DEF b, c
<1>4. CASE c.work # {}
  <2>1. b = [a EXCEPT !.applied = Append(a.applied, c)] BY <1>4 DEF Sort
  <2>2. b.deleted = a.deleted /\ b.applied = Append(a.applied, c)
    <3> DEFINE e == Append(a.applied, c)
    <3>1. b = [a EXCEPT !.applied = e] BY <2>1
    <3> HIDE DEF e, b
    <3> QED BY <3>1 DEF e
  <2>3. a.applied \in Seq(K) /\ c \in K BY <1>4
  <2> HIDE DEF b, c, d
  <2>4. In(b.applied, c) /\ \A x : In(a.applied, x) => In(b.applied, x)
    BY <2>2, <2>3, InAppend
  <2>5. ASSUME NEW t \in 1..i
        PROVE  IF updated[t].work = {}
               THEN In(b.deleted, [name |-> updated[t].name, work |-> None])
               ELSE In(b.applied, updated[t])
    <3>1. CASE t = i BY <1>4, <2>4, <3>1 DEF c
    <3>2. CASE t \in 1..(i - 1) BY <2>2, <2>4, <3>2 DEF SortInv
    <3> QED BY <1>1, <3>1, <3>2
  <2>6. SortInv(b, new, updated, i) BY <2>4, <2>5 DEF SortInv
  <2> QED BY <2>6 DEF b, c
<1> QED BY <1>3, <1>4

\* Every work is in the calls, and nothing else is.
LEMMA SortedWorks ==
    ASSUME NEW K, NEW G, NEW new \in Seq(K), NEW n \in Nat, NEW updated \in [1..n -> Calls],
           Sortable(updated, n, K, G)
    PROVE  /\ Ordered(new, updated) \in Seq(K \cup G)
           /\ \A t \in 1..Len(new) : In(Ordered(new, updated), new[t])
           /\ \A t \in 1..n : IF updated[t].work = {}
                 THEN In(Ordered(new, updated), [name |-> updated[t].name, work |-> None])
                 ELSE In(Ordered(new, updated), updated[t])
<1>1. PICK acc : IsSorting(acc, new, updated, n, K, G) BY SortedSteps
<1>2. /\ acc[0] = [applied |-> new, deleted |-> <<>>]
      /\ \A i \in 1..n : acc[i] = Sort(acc[i - 1], updated[i])
      /\ \A i \in 0..n : acc[i] \in Lists(K, G)
      /\ Sorted(new, updated) = acc[n]
  BY <1>1 DEF IsSorting
<1> DEFINE P == {i \in 0..n : SortInv(acc[i], new, updated, i)}
<1>3. 0 \in P
  <2>1. acc[0].applied = new BY <1>2
  <2>2. \A t \in 1..Len(new) : In(new, new[t]) BY DEF In
  <2>3. SortInv(acc[0], new, updated, 0) BY <2>1, <2>2 DEF SortInv
  <2> QED BY <2>3
<1>4. ASSUME NEW i \in 1..n, i - 1 \in P PROVE i \in P
  <2>1. i - 1 \in 0..n /\ i \in 0..n OBVIOUS
  <2>2. acc[i - 1] \in [applied: Seq(K), deleted: Seq(G)] BY <1>2, <2>1 DEF Lists
  <2>3. SortInv(acc[i - 1], new, updated, i - 1) BY <1>4
  <2>4. IF updated[i].work = {}
        THEN [name |-> updated[i].name, work |-> None] \in G ELSE updated[i] \in K
    BY DEF Sortable
  <2>5. SortInv(Sort(acc[i - 1], updated[i]), new, updated, i)
    BY <2>2, <2>3, <2>4, SortStep
  <2> QED BY <1>2, <2>1, <2>5
<1>5. n \in P
  <2> HIDE DEF P
  <2>1. 0..n \subseteq P BY <1>3, <1>4, Counting
  <2> QED BY <2>1
<1> DEFINE a == Sorted(new, updated)
<1>6. a.applied \in Seq(K \cup G) /\ a.deleted \in Seq(K \cup G)
  <2>1. a \in [applied: Seq(K), deleted: Seq(G)] BY <1>2, <1>5 DEF Lists
  <2> HIDE DEF a
  <2> QED BY <2>1, SeqMonotonic
<1>7. SortInv(a, new, updated, n) BY <1>2, <1>5
<1>8. Ordered(new, updated) = a.applied \o a.deleted BY DEF Ordered
<1> HIDE DEF a
<1>9. \A x : In(a.applied, x) \/ In(a.deleted, x) => In(Ordered(new, updated), x)
  BY <1>6, <1>8, InConcat
<1>10. Ordered(new, updated) \in Seq(K \cup G) BY <1>6, <1>8
<1>11. \A t \in 1..Len(new) : In(Ordered(new, updated), new[t]) BY <1>7, <1>9 DEF SortInv
<1>12. ASSUME NEW t \in 1..n
       PROVE  IF updated[t].work = {}
              THEN In(Ordered(new, updated), [name |-> updated[t].name, work |-> None])
              ELSE In(Ordered(new, updated), updated[t])
  BY <1>7, <1>9 DEF SortInv
<1> QED BY <1>10, <1>11, <1>12

-----------------------------------------------------------------------------
(* Names of new works.                                                     *)

LEMMA RankExists ==
    ASSUME NEW S \in SUBSET Nat, IsFiniteSet(S), NEW i \in 1..Cardinality(S)
    PROVE  \E n \in S : Cardinality({o \in S : o <= n}) = i
<1> DEFINE upTo == [n \in S |-> {o \in S : o <= n}]
           rank == [n \in S |-> Cardinality(upTo[n])]
           k == Cardinality(S)
<1>1. k \in Nat BY FS_CardinalityType
<1>2. \A n \in S : upTo[n] \in SUBSET S /\ n \in upTo[n] OBVIOUS
<1>3. ASSUME NEW m \in S, NEW n \in S, m < n PROVE upTo[m] \in SUBSET upTo[n] /\ n \notin upTo[m]
  <2>1. m \in Nat /\ n \in Nat OBVIOUS
  <2>2. n \notin upTo[m] BY <1>3, <2>1
  <2>3. ASSUME NEW o \in upTo[m] PROVE o \in upTo[n]
    <3>1. o \in S /\ o \in Nat /\ o <= m OBVIOUS
    <3> QED BY <1>3, <2>1, <3>1
  <2> QED BY <2>2, <2>3
<1>4. \A n \in S : IsFiniteSet(upTo[n]) /\ rank[n] \in 1..k
  <2> SUFFICES ASSUME NEW n \in S PROVE IsFiniteSet(upTo[n]) /\ rank[n] \in 1..k OBVIOUS
  <2>1. rank[n] = Cardinality(upTo[n]) OBVIOUS
  <2> HIDE DEF upTo, rank
  <2>2. IsFiniteSet(upTo[n]) /\ Cardinality(upTo[n]) <= k /\ Cardinality(upTo[n]) \in Nat
    BY <1>2, FS_Subset, FS_CardinalityType
  <2>3. Cardinality(upTo[n]) # 0 BY <1>2, <2>2, FS_EmptySet
  <2> QED BY <1>1, <2>1, <2>2, <2>3
<1>5. ASSUME NEW m \in S, NEW n \in S, m < n PROVE rank[m] # rank[n]
  <2>1. rank[n] = Cardinality(upTo[n]) /\ rank[m] = Cardinality(upTo[m]) OBVIOUS
  <2>2. upTo[m] \in SUBSET upTo[n] /\ upTo[m] # upTo[n] BY <1>2, <1>3, <1>5
  <2> HIDE DEF upTo, rank
  <2> QED BY <1>4, <2>1, <2>2, FS_Subset
<1>6. \A m, n \in S : rank[m] = rank[n] => m = n
  <2> SUFFICES ASSUME NEW m \in S, NEW n \in S, m # n PROVE rank[m] # rank[n] OBVIOUS
  <2>1. m < n \/ n < m OBVIOUS
  <2> HIDE DEF rank
  <2> QED BY <1>5, <2>1
<1>7. rank \in Injection(S, 1..k)
  <2>1. DOMAIN rank = S /\ rank = [n \in S |-> rank[n]] OBVIOUS
  <2> HIDE DEF rank
  <2>2. rank \in [S -> 1..k] BY <1>4, <2>1
  <2> QED BY <1>6, <2>2 DEF Injection, IsInjective
<1>8. IsFiniteSet(1..k) /\ Cardinality(1..k) = k BY <1>1, FS_Interval
<1>9. rank \in Surjection(S, 1..k)
  <2> HIDE DEF rank
  <2> QED BY <1>7, <1>8, FS_Injection
<1>10. PICK n \in S : rank[n] = i
  <2> HIDE DEF rank
  <2> QED BY <1>9 DEF Surjection
<1> QED BY <1>10

LEMMA NewNames ==
    ASSUME UniqueNames, NEW e, NEW i \in 1..Cardinality(Free)
    PROVE  /\ NewName(e, i) \in Free
           /\ Cardinality({o \in Free : o <= NewName(e, i)}) = i
<1>1. Free \in SUBSET Nat /\ IsFiniteSet(Free)
  <2>1. Free \in SUBSET Names BY DEF Free
  <2> QED BY <2>1, ConstantsOK, FS_Subset
<1>2. \E n \in Free : Cardinality({o \in Free : o <= n}) = i BY <1>1, RankExists
<1>3. NewName(e, i) = CHOOSE n \in Free : Cardinality({o \in Free : o <= n}) = i
  BY DEF NewName
<1> QED BY <1>2, <1>3

-----------------------------------------------------------------------------
(* A build.                                                                *)

\* What a build found and decided: the n works it began with, in their order,
\* what it made of them, and the new ones.
Planned(n, order, updated, placed, works) ==
    /\ n \in Nat /\ order \in [1..n -> {o \in Names : listed[o] # None}]
    /\ \A i, j \in 1..n : order[i] = order[j] => i = j
    /\ \A o \in Names : listed[o] # None => \E i \in 1..n : order[i] = o
    /\ UpdateInv(updated, order, n)
    /\ PlaceInv(placed, updated.works)
    /\ works = <<>> \/ Filled(works)
    /\ Enough(n, works)
    /\ \A i, j \in 1..n : i # j => placed.works[i] \cap placed.works[j] = {}
    /\ works = <<>> => \A m \in wanted : \E i \in 1..n : m \in placed.works[i]

Created(n, works) == {[name |-> NewName(n, i), work |-> works[i]] : i \in 1..Len(works)}
Kept(n, order, placed) ==
    {[name |-> order[i], work |-> placed.works[i]] : i \in {j \in 1..n : placed.works[j] # {}}}
Emptied(n, order, placed) ==
    {[name |-> order[i], work |-> None] : i \in {j \in 1..n : placed.works[j] = {}}}

LEMMA AllInSequence ==
    ASSUME NEW S, IsFiniteSet(S), NEW s \in SetToSeqs(S)
    PROVE  \E n \in Nat :
              /\ s \in [1..n -> S] /\ n = Len(s)
              /\ \A i, j \in 1..n : s[i] = s[j] => i = j
              /\ \A x \in S : \E i \in 1..n : s[i] = x
<1> DEFINE n == Cardinality(S)
<1>1. n \in Nat BY FS_CardinalityType
<1>2. s \in [1..n -> S] /\ \A i, j \in 1..n : i # j => s[i] # s[j] BY DEF SetToSeqs
<1>3. s \in Injection(1..n, S) BY <1>2 DEF Injection, IsInjective
<1>4. Cardinality(1..n) = n BY <1>1, FS_Interval
<1> HIDE DEF n
<1>5. s \in Surjection(1..n, S) BY <1>1, <1>3, <1>4, FS_Injection DEF n
<1>6. \A x \in S : \E i \in 1..n : s[i] = x BY <1>5 DEF Surjection
<1>7. n = Len(s) BY <1>1, <1>2
<1> QED BY <1>1, <1>2, <1>6, <1>7

LEMMA OrderOfNames ==
    ASSUME NEW order \in SetToSeqs({o \in Names : listed[o] # None})
    PROVE  \E n \in Nat :
              /\ order \in [1..n -> {o \in Names : listed[o] # None}]
              /\ n = Len(order)
              /\ \A i, j \in 1..n : order[i] = order[j] => i = j
              /\ \A o \in Names : listed[o] # None => \E i \in 1..n : order[i] = o
<1> DEFINE D == {o \in Names : listed[o] # None}
<1>1. D \in SUBSET Names OBVIOUS
<1>2. \A o \in Names : listed[o] # None => o \in D OBVIOUS
<1> HIDE DEF D
<1>3. IsFiniteSet(D) BY <1>1, ConstantsOK, FS_Subset
<1>4. order \in SetToSeqs(D) BY DEF D
<1>5. PICK n \in Nat : /\ order \in [1..n -> D] /\ n = Len(order)
                       /\ \A i, j \in 1..n : order[i] = order[j] => i = j
                       /\ \A x \in D : \E i \in 1..n : order[i] = x
  BY <1>3, <1>4, AllInSequence
<1> QED BY <1>2, <1>5 DEF D

LEMMA NewWorksFilled ==
    ASSUME wanted \in Demands, NEW manifests \in Seq(wanted)
    PROVE  NewWorks(manifests) = <<>> \/ Filled(NewWorks(manifests))
<1>1. manifests \in [1..Len(manifests) -> wanted] /\ Len(manifests) \in Nat
  BY LenProperties
<1>2. Filled(FoldLeft(Fill, <<{}>>, manifests)) BY <1>1, FilledWorks
<1> QED BY <1>2 DEF NewWorks

LEMMA SplitPlan ==
    ASSUME wanted \in Demands, NEW n \in Nat, NEW order, NEW updated,
           UpdateInv(updated, order, n), NEW added \in BySize(updated.left)
    PROVE  /\ \E k \in Nat : added \in [1..k -> wanted]
           /\ LET placed == Placed(updated.works, added) IN
              /\ \A i, j \in 1..n : i # j => placed.works[i] \cap placed.works[j] = {}
              /\ placed.left = <<>> => \A m \in wanted : \E i \in 1..n : m \in placed.works[i]
<1> DEFINE placed == Placed(updated.works, added)
<1>1. updated.works \in Seq(SUBSET wanted) /\ Len(updated.works) = n
      /\ updated.left \in SUBSET wanted
  BY DEF UpdateInv
<1>2. IsFiniteSet(updated.left) BY <1>1, WantedWorks
<1>3. added \in SetToSeqs(updated.left) BY DEF BySize
<1>4. PICK k \in Nat : /\ added \in [1..k -> updated.left]
                       /\ \A t, u \in 1..k : added[t] = added[u] => t = u
                       /\ \A m \in updated.left : \E t \in 1..k : added[t] = m
  BY <1>2, <1>3, AllInSequence
<1>5. added \in [1..k -> wanted] BY <1>1, <1>4
<1>6. \A t \in 1..k : \A j \in 1..n : added[t] \notin updated.works[j]
  <2> SUFFICES ASSUME NEW t \in 1..k, NEW j \in 1..n, added[t] \in updated.works[j]
               PROVE  FALSE
    OBVIOUS
  <2>1. added[t] \in updated.left BY <1>4
  <2> QED BY <2>1 DEF UpdateInv
<1>7. \A j, i \in 1..n : j # i => updated.works[j] \cap updated.works[i] = {}
  BY DEF UpdateInv
<1>8. SplitInv(placed, updated.works, added, k) BY <1>1, <1>4, <1>5, <1>6, <1>7, SplitWorks
<1>9. PlaceInv(placed, updated.works) BY <1>1, <1>5, PlacedWorks
<1> HIDE DEF placed
<1>10. \A i, j \in 1..n : i # j => placed.works[i] \cap placed.works[j] = {}
  BY <1>1, <1>8 DEF SplitInv
<1>11. ASSUME placed.left = <<>>, NEW m \in wanted
       PROVE  \E i \in 1..n : m \in placed.works[i]
  <2>1. CASE m \in updated.left
    <3>1. PICK t \in 1..k : added[t] = m BY <1>4, <2>1
    <3> QED BY <1>1, <1>8, <1>11, <3>1 DEF SplitInv
  <2>2. CASE m \notin updated.left
    <3>1. PICK i \in 1..n : m \in updated.works[i] BY <2>2 DEF UpdateInv
    <3>2. updated.works[i] \subseteq placed.works[i] BY <1>1, <1>9 DEF PlaceInv
    <3> QED BY <3>1, <3>2
  <2> QED BY <2>1, <2>2
<1> QED BY <1>5, <1>10, <1>11 DEF placed

LEMMA BuildPlans ==
    ASSUME TypeOK, Build
    PROVE  \E n, order, updated, placed, works :
              /\ Planned(n, order, updated, placed, works)
              /\ calls' \in Seq((Created(n, works) \cup Kept(n, order, placed))
                                  \cup Emptied(n, order, placed))
              /\ \A c \in (Created(n, works) \cup Kept(n, order, placed))
                              \cup Emptied(n, order, placed) : In(calls', c)
<1>1. wanted \in Demands BY DEF TypeOK
<1> DEFINE D == {o \in Names : listed[o] # None}
<1>2. PICK order \in SetToSeqs(D) :
         \E updated \in {Updated(order)} :
         \E added \in BySize(updated.left) :
         \E placed \in {Placed(updated.works, added)} :
         \E works \in {NewWorks(placed.left)} :
           /\ Enough(Len(order), works)
           /\ calls' = Ordered(
                 [i \in DOMAIN works |-> [name |-> NewName(Len(order), i), work |-> works[i]]],
                 [i \in DOMAIN order |-> [name |-> order[i], work |-> placed.works[i]]])
  BY DEF Build
<1> DEFINE updated == Updated(order)
<1>3. PICK added \in BySize(updated.left) :
         \E placed \in {Placed(updated.works, added)} :
         \E works \in {NewWorks(placed.left)} :
           /\ Enough(Len(order), works)
           /\ calls' = Ordered(
                 [i \in DOMAIN works |-> [name |-> NewName(Len(order), i), work |-> works[i]]],
                 [i \in DOMAIN order |-> [name |-> order[i], work |-> placed.works[i]]])
  BY <1>2
<1> DEFINE placed == Placed(updated.works, added)
           works == NewWorks(placed.left)
           new == [i \in DOMAIN works |-> [name |-> NewName(Len(order), i), work |-> works[i]]]
           old == [i \in DOMAIN order |-> [name |-> order[i], work |-> placed.works[i]]]
<1>4. Enough(Len(order), works) /\ calls' = Ordered(new, old) BY <1>3
<1>5. PICK n \in Nat :
         /\ order \in [1..n -> D] /\ n = Len(order)
         /\ \A i, j \in 1..n : order[i] = order[j] => i = j
         /\ \A o \in Names : listed[o] # None => \E i \in 1..n : order[i] = o
  BY OrderOfNames
<1>6. UpdateInv(updated, order, n) BY <1>5, UpdatedWorks
<1> HIDE DEF updated
<1>7. updated.works \in Seq(SUBSET wanted) /\ Len(updated.works) = n
      /\ updated.left \in SUBSET wanted
  BY <1>6 DEF UpdateInv
<1>8. /\ \E k \in Nat : added \in [1..k -> wanted]
      /\ \A i, j \in 1..n : i # j => placed.works[i] \cap placed.works[j] = {}
      /\ placed.left = <<>> => \A m \in wanted : \E i \in 1..n : m \in placed.works[i]
  BY <1>1, <1>6, SplitPlan
<1>9. PlaceInv(placed, updated.works) BY <1>1, <1>7, <1>8, PlacedWorks
<1> HIDE DEF placed
<1>10. placed.works \in Seq(SUBSET wanted) /\ Len(placed.works) = n /\ placed.left \in Seq(wanted)
  BY <1>7, <1>9 DEF PlaceInv
<1>11. works = <<>> \/ Filled(works) BY <1>1, <1>10, NewWorksFilled
<1>12. works = <<>> => placed.left = <<>>
  <2> DEFINE filled == FoldLeft(Fill, <<{}>>, placed.left)
  <2>2. placed.left \in [1..Len(placed.left) -> wanted] /\ Len(placed.left) \in Nat
    BY <1>10, LenProperties
  <2>3. Filled(filled) BY <1>1, <2>2, FilledWorks
  <2> HIDE DEF filled
  <2>4. filled # <<>> BY <2>3 DEF Filled
  <2> QED BY <2>4 DEF NewWorks, filled
<1> HIDE DEF works
<1>13. works \in Seq(SUBSET wanted)
  <2>1. <<>> \in Seq(SUBSET wanted) OBVIOUS
  <2> QED BY <1>11, <2>1 DEF Filled
<1>14. Planned(n, order, updated, placed, works)
  BY <1>4, <1>5, <1>6, <1>8, <1>9, <1>11, <1>12 DEF Planned
<1> DEFINE K == Created(n, works) \cup Kept(n, order, placed)
           G == Emptied(n, order, placed)
<1>15. new \in Seq(K)
  <2>1. DOMAIN works = 1..Len(works) /\ Len(works) \in Nat BY <1>13, LenProperties
  <2>2. new \in [1..Len(works) -> Created(n, works)]
    BY <1>5, <2>1 DEF Created
  <2> HIDE DEF new
  <2>3. new \in Seq(Created(n, works)) BY <2>1, <2>2
  <2> QED BY <2>3, SeqMonotonic
<1>16. old \in [1..n -> Calls]
  <2> SUFFICES ASSUME NEW i \in 1..n
               PROVE  [name |-> order[i], work |-> placed.works[i]] \in Calls
    BY <1>5
  <2>1. order[i] \in Names BY <1>5
  <2>2. placed.works[i] \in SUBSET wanted BY <1>10
  <2>3. placed.works[i] \in Bundles BY <1>1, <2>2, WantedWorks
  <2> QED BY <2>1, <2>3 DEF Calls
<1>17. \A i \in 1..n : IF old[i].work = {} THEN [name |-> old[i].name, work |-> None] \in G
                       ELSE old[i] \in K
  <2> SUFFICES ASSUME NEW i \in 1..n
               PROVE  IF old[i].work = {} THEN [name |-> old[i].name, work |-> None] \in G
                      ELSE old[i] \in K
    OBVIOUS
  <2>1. old[i] = [name |-> order[i], work |-> placed.works[i]] BY <1>5
  <2>2. old[i].name = order[i] /\ old[i].work = placed.works[i] BY <2>1
  <2> HIDE DEF old
  <2>3. CASE placed.works[i] = {} BY <2>2, <2>3 DEF Emptied
  <2>4. CASE placed.works[i] # {} BY <2>1, <2>2, <2>4 DEF Kept
  <2> QED BY <2>2, <2>3, <2>4
<1>18. /\ calls' \in Seq(K \cup G)
       /\ \A t \in 1..Len(new) : In(calls', new[t])
       /\ \A t \in 1..n : IF old[t].work = {}
                         THEN In(calls', [name |-> old[t].name, work |-> None])
                         ELSE In(calls', old[t])
  <2>1. Sortable(old, n, K, G)
    <3> HIDE DEF old, K, G
    <3> QED BY <1>17 DEF Sortable
  <2> HIDE DEF new, old, K, G
  <2> QED BY <1>4, <1>15, <1>16, <2>1, SortedWorks
<1>19. \A c \in Created(n, works) : In(calls', c)
  <2> SUFFICES ASSUME NEW i \in 1..Len(works)
               PROVE  In(calls', [name |-> NewName(n, i), work |-> works[i]])
    BY DEF Created
  <2>1. DOMAIN works = 1..Len(works) /\ Len(works) \in Nat BY <1>13, LenProperties
  <2>2. Len(new) = Len(works) /\ new[i] = [name |-> NewName(n, i), work |-> works[i]]
    BY <1>5, <2>1
  <2> HIDE DEF new
  <2> QED BY <1>18, <2>2
<1>20. \A c \in Kept(n, order, placed) : In(calls', c)
  <2> SUFFICES ASSUME NEW i \in 1..n, placed.works[i] # {}
               PROVE  In(calls', [name |-> order[i], work |-> placed.works[i]])
    BY DEF Kept
  <2>1. old[i] = [name |-> order[i], work |-> placed.works[i]] BY <1>5
  <2> HIDE DEF old
  <2>2. old[i].work # {} BY <2>1
  <2> QED BY <1>18, <2>1, <2>2
<1>21. \A c \in Emptied(n, order, placed) : In(calls', c)
  <2> SUFFICES ASSUME NEW i \in 1..n, placed.works[i] = {}
               PROVE  In(calls', [name |-> order[i], work |-> None])
    BY DEF Emptied
  <2>1. old[i] = [name |-> order[i], work |-> placed.works[i]] BY <1>5
  <2> HIDE DEF old
  <2>2. old[i].work = {} /\ old[i].name = order[i] BY <2>1
  <2> QED BY <1>18, <2>2
<1> HIDE DEF new, old, works, placed, updated
<1> QED BY <1>14, <1>18, <1>19, <1>20, <1>21

-----------------------------------------------------------------------------
(* Types.                                                                  *)

LEMMA PlannedCalls ==
    ASSUME TypeOK, NEW n, NEW order, NEW updated, NEW placed, NEW works,
           Planned(n, order, updated, placed, works)
    PROVE  /\ Created(n, works) \cup Kept(n, order, placed) \cup Emptied(n, order, placed)
                \subseteq Calls
           /\ \A i \in 1..n : placed.works[i] \in SUBSET wanted
           /\ \A i \in 1..Len(works) : works[i] \in SUBSET wanted /\ NewName(n, i) \in Names
<1>1. wanted \in Demands BY DEF TypeOK
<1>2. ASSUME NEW i \in 1..n PROVE placed.works[i] \in SUBSET wanted
  BY DEF Planned, UpdateInv, PlaceInv
<1>3. ASSUME NEW i \in 1..Len(works) PROVE works[i] \in SUBSET wanted
  <2>1. works # <<>> BY EmptySeq
  <2> QED BY <2>1 DEF Planned, Filled
<1>4. ASSUME NEW i \in 1..Len(works) PROVE NewName(n, i) \in Names
  <2>1. works # <<>> BY EmptySeq
  <2>2. works \in Seq(SUBSET wanted) BY <2>1 DEF Planned, Filled
  <2>3. i \in DOMAIN works /\ i \in Nat \ {0} BY <2>2, LenProperties
  <2>4. IF UniqueNames THEN i <= Cardinality(Free) ELSE n + i - 1 \in Names
    BY <2>3 DEF Planned, Enough
  <2>5. CASE UniqueNames
    <3>1. IsFiniteSet(Free) /\ Free \subseteq Names
      <4>1. Free \in SUBSET Names BY DEF Free
      <4> QED BY <4>1, ConstantsOK, FS_Subset
    <3>2. Cardinality(Free) \in Nat BY <3>1, FS_CardinalityType
    <3>3. i \in 1..Cardinality(Free) BY <2>3, <2>4, <2>5, <3>2
    <3> QED BY <2>5, <3>1, <3>3, NewNames
  <2>6. CASE ~UniqueNames BY <2>4, <2>6 DEF NewName
  <2> QED BY <2>5, <2>6
<1>5. Created(n, works) \subseteq Calls
  <2> SUFFICES ASSUME NEW i \in 1..Len(works)
               PROVE  [name |-> NewName(n, i), work |-> works[i]] \in Calls
    BY DEF Created
  <2>1. works[i] \in Bundles BY <1>1, <1>3, WantedWorks
  <2> QED BY <1>4, <2>1 DEF Calls
<1>6. \A i \in 1..n : order[i] \in Names BY DEF Planned
<1>7. Kept(n, order, placed) \subseteq Calls
  <2> SUFFICES ASSUME NEW i \in 1..n
               PROVE  [name |-> order[i], work |-> placed.works[i]] \in Calls
    BY DEF Kept
  <2>1. placed.works[i] \in Bundles BY <1>1, <1>2, WantedWorks
  <2> QED BY <1>6, <2>1 DEF Calls
<1>8. Emptied(n, order, placed) \subseteq Calls BY <1>6 DEF Emptied, Calls
<1> QED BY <1>2, <1>3, <1>4, <1>5, <1>7, <1>8

LEMMA TypeInit == Init => TypeOK
<1> SUFFICES ASSUME Init PROVE TypeOK OBVIOUS
<1>1. hub \in [Names -> {None} \cup Bundles] /\ listed = hub BY DEF Init
<1>2. calls \in Seq([name: Names, work: {None} \cup Bundles]) BY DEF Init
<1>3. wants \in 0..MaxWants /\ mishaps \in 0..MaxMishaps BY ConstantsOK DEF Init
<1> QED BY <1>1, <1>2, <1>3 DEF Init, TypeOK

LEMMA HeadAndTail ==
    ASSUME TypeOK, calls # <<>>
    PROVE  /\ Head(calls) \in Calls
           /\ Tail(calls) \in Seq(Calls)
           /\ Effect(Head(calls)) \in [Names -> {None} \cup Bundles]
<1>1. calls \in Seq(Calls) BY DEF TypeOK, Calls
<1>2. Head(calls) \in Calls /\ Tail(calls) \in Seq(Calls) BY <1>1
<1>3. Effect(Head(calls)) \in [Names -> {None} \cup Bundles]
  BY <1>2 DEF TypeOK, Effect, Calls
<1> QED BY <1>2, <1>3

LEMMA TypeStep == TypeOK /\ [Next]_vars => TypeOK'
<1> SUFFICES ASSUME TypeOK, [Next]_vars PROVE TypeOK' OBVIOUS
<1> USE DEF TypeOK
<1>1. CASE Build
  <2>1. PICK n, order, updated, placed, works :
           /\ Planned(n, order, updated, placed, works)
           /\ calls' \in Seq((Created(n, works) \cup Kept(n, order, placed))
                               \cup Emptied(n, order, placed))
    BY <1>1, BuildPlans
  <2>2. calls' \in Seq(Calls) BY <2>1, PlannedCalls, SeqMonotonic
  <2>3. mishaps' \in 0..MaxMishaps BY <1>1, ConstantsOK DEF Build
  <2>4. UNCHANGED <<wanted, hub, listed, wants>> /\ objects' = wanted
        /\ current' = (listed = hub) /\ dirty' = FALSE
    BY <1>1 DEF Build
  <2> QED BY <2>2, <2>3, <2>4 DEF Calls
<1>2. CASE Call
  <2>1. calls # <<>> /\ calls' = Tail(calls) BY <1>2 DEF Call
  <2>2. hub' \in {hub, Effect(Head(calls))} /\ dirty' \in BOOLEAN BY <1>2 DEF Call
  <2>3. UNCHANGED <<wanted, listed, objects, current, wants, mishaps>> BY <1>2 DEF Call
  <2> QED BY <2>1, <2>2, <2>3, HeadAndTail DEF Calls
<1>3. CASE FailCall
  <2>1. calls # <<>> /\ calls' = Tail(calls) /\ dirty' = TRUE BY <1>3 DEF FailCall
  <2>2. hub' \in {hub, Effect(Head(calls))} BY <1>3 DEF FailCall
  <2>3. UNCHANGED <<wanted, listed, objects, current, wants>> BY <1>3 DEF FailCall
  <2>4. mishaps' \in 0..MaxMishaps BY <1>3, ConstantsOK DEF FailCall
  <2> QED BY <2>1, <2>2, <2>3, <2>4, HeadAndTail DEF Calls
<1>4. CASE Want BY <1>4, ConstantsOK DEF Want
<1>5. CASE Listen BY <1>5 DEF Listen
<1>6. CASE Restart
  <2>1. calls' \in Seq([name: Names, work: {None} \cup Bundles]) BY <1>6 DEF Restart
  <2>2. mishaps' \in 0..MaxMishaps BY <1>6, ConstantsOK DEF Restart
  <2> QED BY <1>6, <2>1, <2>2 DEF Restart
<1>7. CASE UNCHANGED vars BY <1>7 DEF vars
<1> QED BY <1>1, <1>2, <1>3, <1>4, <1>5, <1>6, <1>7 DEF Next

\* Works on the hub and in the calls have one manifest with each key, at most.
THEOREM TypeCorrect == Spec => []TypeOK
BY TypeInit, TypeStep, PTL DEF Spec

-----------------------------------------------------------------------------
(* The limit.                                                              *)

LEMMA LimitStep ==
    ASSUME TypeOK, [Next]_vars, calls = <<>>, NEW i \in DOMAIN calls'
    PROVE  LET c == calls'[i] IN
           KeysOf(c.work) \subseteq KeysOf(listed[c.name])
              \/ SizeOf(c.work) < Limit \/ Cardinality(c.work) = 1
<1> DEFINE c == calls'[i]
<1>1. Build
  <2>1. calls' # <<>> OBVIOUS
  <2> QED BY <2>1 DEF Next, Call, FailCall, Want, Listen, Restart, vars
<1>2. PICK n, order, updated, placed, works :
         /\ Planned(n, order, updated, placed, works)
         /\ calls' \in Seq((Created(n, works) \cup Kept(n, order, placed))
                             \cup Emptied(n, order, placed))
  BY <1>1, BuildPlans
<1>3. c \in (Created(n, works) \cup Kept(n, order, placed)) \cup Emptied(n, order, placed)
  BY <1>2
<1> HIDE DEF c
<1>4. CASE c \in Created(n, works)
  <2>1. PICK j \in 1..Len(works) : c = [name |-> NewName(n, j), work |-> works[j]]
    BY <1>4 DEF Created
  <2>2. works # <<>> BY EmptySeq
  <2>3. works[j] = {} \/ SizeOf(works[j]) < Limit \/ Cardinality(works[j]) = 1
    BY <1>2, <2>2 DEF Planned, Filled
  <2>4. c.work = works[j] BY <2>1
  <2>5. c.work = {} => KeysOf(c.work) = {} BY DEF KeysOf
  <2> QED BY <2>3, <2>4, <2>5 DEF c
<1>5. CASE c \in Kept(n, order, placed)
  <2>1. PICK j \in 1..n : c = [name |-> order[j], work |-> placed.works[j]]
    BY <1>5 DEF Kept
  <2>2. placed.works[j] = updated.works[j] \/ SizeOf(placed.works[j]) < Limit
    BY <1>2 DEF Planned, UpdateInv, PlaceInv
  <2>3. \A m \in updated.works[j] : m.key \in KeysOf(listed[order[j]])
    BY <1>2 DEF Planned, UpdateInv
  <2>4. KeysOf(updated.works[j]) \subseteq KeysOf(listed[order[j]])
    BY <2>3 DEF KeysOf
  <2>5. c.name = order[j] /\ c.work = placed.works[j] BY <2>1
  <2> QED BY <2>2, <2>4, <2>5 DEF c
<1>6. CASE c \in Emptied(n, order, placed)
  <2>1. c.work = None BY <1>6 DEF Emptied
  <2> QED BY <2>1 DEF KeysOf, c
<1> QED BY <1>3, <1>4, <1>5, <1>6

\* "buildManifestWorks": a work that is given a manifest it did not have stays below
\* the limit, or holds nothing else, whatever the lister shows.
THEOREM WorksWithinLimit == Spec => WithinLimit
<1>1. TypeOK /\ [Next]_vars =>
         [calls = <<>> => \A i \in DOMAIN calls' :
            LET c == calls'[i] IN
            KeysOf(c.work) \subseteq KeysOf(listed[c.name])
               \/ SizeOf(c.work) < Limit \/ Cardinality(c.work) = 1]_calls
  BY LimitStep
<1> QED BY <1>1, TypeCorrect, PTL DEF Spec, WithinLimit

-----------------------------------------------------------------------------
(* What a build from a current copy holds on to.  Each call makes of its   *)
(* work what any other call for that work makes of it.  A manifest that is *)
(* required and on the hub is in a work that no call left takes it from:   *)
(* the first of the works that had it when the build began, for Update     *)
(* leaves it there, or one that has been applied since.                    *)

Consistent(cs) == \A i, j \in DOMAIN cs : cs[i].name = cs[j].name => cs[i].work = cs[j].work

Holds(works, k, cs) ==
    \E n \in Names :
       /\ k \in KeysOf(works[n])
       /\ \A i \in DOMAIN cs : cs[i].name = n => k \in KeysOf(cs[i].work)

HeldInv ==
    current =>
       /\ Consistent(calls)
       /\ \A k \in KeysOf(objects) : k \in OnHub => Holds(hub, k, calls)

LEMMA PlannedNames ==
    ASSUME UniqueNames, TypeOK, NEW n, NEW order, NEW updated, NEW placed, NEW works,
           Planned(n, order, updated, placed, works)
    PROVE  /\ \A i \in 1..Len(works) :
                 NewName(n, i) \in Free /\ Cardinality({o \in Free : o <= NewName(n, i)}) = i
           /\ \A i \in 1..n : order[i] \in Names /\ order[i] \notin Free
<1>1. ASSUME NEW i \in 1..Len(works)
      PROVE  NewName(n, i) \in Free /\ Cardinality({o \in Free : o <= NewName(n, i)}) = i
  <2>1. works # <<>> BY EmptySeq
  <2>2. works \in Seq(SUBSET wanted) BY <2>1 DEF Planned, Filled
  <2>3. i \in DOMAIN works /\ i \in Nat \ {0} BY <2>2, LenProperties
  <2>4. i <= Cardinality(Free) BY <2>3 DEF Planned, Enough
  <2>5. Cardinality(Free) \in Nat
    <3>1. Free \in SUBSET Names BY DEF Free
    <3> QED BY <3>1, ConstantsOK, FS_Subset, FS_CardinalityType
  <2>6. i \in 1..Cardinality(Free) BY <2>3, <2>4, <2>5
  <2> QED BY <2>6, NewNames
<1>2. \A i \in 1..n : order[i] \in Names /\ order[i] \notin Free BY DEF Planned, Free
<1> QED BY <1>1, <1>2

\* A call for a work that was there before.
LEMMA OldCalls ==
    ASSUME NEW n, NEW order, NEW placed,
           NEW c \in Kept(n, order, placed) \cup Emptied(n, order, placed)
    PROVE  \E i \in 1..n :
              /\ c.name = order[i]
              /\ c.work = IF placed.works[i] = {} THEN None ELSE placed.works[i]
<1>1. CASE c \in Kept(n, order, placed)
  <2>1. PICK i \in {j \in 1..n : placed.works[j] # {}} :
           c = [name |-> order[i], work |-> placed.works[i]]
    BY <1>1 DEF Kept
  <2> QED BY <2>1
<1>2. CASE c \in Emptied(n, order, placed)
  <2>1. PICK i \in {j \in 1..n : placed.works[j] = {}} :
           c = [name |-> order[i], work |-> None]
    BY <1>2 DEF Emptied
  <2> QED BY <2>1
<1> QED BY <1>1, <1>2

LEMMA PlannedConsistent ==
    ASSUME UniqueNames, TypeOK, NEW n, NEW order, NEW updated, NEW placed, NEW works,
           Planned(n, order, updated, placed, works),
           NEW c \in (Created(n, works) \cup Kept(n, order, placed))
                        \cup Emptied(n, order, placed),
           NEW d \in (Created(n, works) \cup Kept(n, order, placed))
                        \cup Emptied(n, order, placed),
           c.name = d.name
    PROVE  c.work = d.work
<1> DEFINE Old == Kept(n, order, placed) \cup Emptied(n, order, placed)
<1>1. ASSUME NEW e \in Created(n, works)
      PROVE  \E i \in 1..Len(works) : e.name = NewName(n, i) /\ e.work = works[i]
  BY DEF Created
<1>2. /\ \A i \in 1..Len(works) :
             NewName(n, i) \in Free /\ Cardinality({o \in Free : o <= NewName(n, i)}) = i
      /\ \A i \in 1..n : order[i] \in Names /\ order[i] \notin Free
  BY PlannedNames
<1>3. ASSUME NEW e \in Old
      PROVE  \E i \in 1..n :
                /\ e.name = order[i]
                /\ e.work = IF placed.works[i] = {} THEN None ELSE placed.works[i]
  BY OldCalls
<1> HIDE DEF Old
<1>4. ASSUME NEW e \in Created(n, works) PROVE e.name \in Free
  <2>1. PICK i \in 1..Len(works) : e.name = NewName(n, i) BY <1>1
  <2> QED BY <1>2, <2>1
<1>5. ASSUME NEW e \in Old PROVE e.name \notin Free
  <2>1. PICK i \in 1..n : e.name = order[i] BY <1>3
  <2> QED BY <1>2, <2>1
<1>6. CASE c \in Created(n, works) /\ d \in Created(n, works)
  <2>1. PICK i \in 1..Len(works) : c.name = NewName(n, i) /\ c.work = works[i]
    BY <1>1, <1>6
  <2>2. PICK j \in 1..Len(works) : d.name = NewName(n, j) /\ d.work = works[j]
    BY <1>1, <1>6
  <2>3. Cardinality({o \in Free : o <= c.name}) = i BY <1>2, <2>1
  <2>4. Cardinality({o \in Free : o <= d.name}) = j BY <1>2, <2>2
  <2>5. i = j BY <2>3, <2>4
  <2> QED BY <2>1, <2>2, <2>5
<1>7. CASE c \in Old /\ d \in Old
  <2>1. PICK i \in 1..n :
           /\ c.name = order[i]
           /\ c.work = IF placed.works[i] = {} THEN None ELSE placed.works[i]
    BY <1>3, <1>7
  <2>2. PICK j \in 1..n :
           /\ d.name = order[j]
           /\ d.work = IF placed.works[j] = {} THEN None ELSE placed.works[j]
    BY <1>3, <1>7
  <2>3. i = j BY <2>1, <2>2 DEF Planned
  <2> QED BY <2>1, <2>2, <2>3
<1> QED BY <1>4, <1>5, <1>6, <1>7 DEF Old

LEMMA PlannedHolds ==
    ASSUME UniqueNames, TypeOK, NEW n, NEW order, NEW updated, NEW placed, NEW works,
           Planned(n, order, updated, placed, works),
           NEW k \in KeysOf(wanted), NEW p \in Names, k \in KeysOf(listed[p])
    PROVE  \E o \in Names :
              /\ k \in KeysOf(listed[o])
              /\ \A c \in (Created(n, works) \cup Kept(n, order, placed))
                             \cup Emptied(n, order, placed) :
                    c.name = o => k \in KeysOf(c.work)
<1>1. wanted \in Demands BY DEF TypeOK
<1>2. PICK m \in wanted : k = m.key BY DEF KeysOf
<1>3. PICK h \in 1..n : order[h] = p BY DEF KeysOf, Planned
<1>4. m \notin updated.left BY <1>2, <1>3 DEF Planned, UpdateInv
<1>5. PICK j \in 1..n : m \in updated.works[j] BY <1>4 DEF Planned, UpdateInv
<1>6. k \in KeysOf(listed[order[j]]) BY <1>2, <1>5 DEF Planned, UpdateInv
<1>7. m \in placed.works[j] BY <1>5 DEF Planned, UpdateInv, PlaceInv
<1>8. k \in KeysOf(placed.works[j])
  <2>1. placed.works[j] \in SUBSET wanted BY PlannedCalls
  <2>2. placed.works[j] # None BY <1>1, <2>1, WantedWorks
  <2> QED BY <1>2, <1>7, <2>2 DEF KeysOf
<1>9. /\ \A i \in 1..Len(works) :
             NewName(n, i) \in Free /\ Cardinality({o \in Free : o <= NewName(n, i)}) = i
      /\ \A i \in 1..n : order[i] \in Names /\ order[i] \notin Free
  BY PlannedNames
<1>10. ASSUME NEW c \in Created(n, works) PROVE c.name # order[j]
  <2>1. PICK i \in 1..Len(works) : c.name = NewName(n, i) BY DEF Created
  <2> QED BY <1>9, <2>1
<1>11. ASSUME NEW c \in Kept(n, order, placed) \cup Emptied(n, order, placed),
              c.name = order[j]
       PROVE  k \in KeysOf(c.work)
  <2>1. PICK i \in 1..n :
           /\ c.name = order[i]
           /\ c.work = IF placed.works[i] = {} THEN None ELSE placed.works[i]
    BY OldCalls
  <2>2. i = j BY <1>11, <2>1 DEF Planned
  <2>3. c.work = placed.works[j] BY <1>7, <2>1, <2>2
  <2> QED BY <1>8, <2>3
<1>12. \A c \in (Created(n, works) \cup Kept(n, order, placed))
                   \cup Emptied(n, order, placed) :
          c.name = order[j] => k \in KeysOf(c.work)
  BY <1>10, <1>11
<1> QED BY <1>3, <1>5, <1>6, <1>9, <1>12

\* A build from a current copy.
LEMMA BuildHolds ==
    ASSUME UniqueNames, TypeOK, Build, listed = hub
    PROVE  HeldInv'
<1>1. PICK n, order, updated, placed, works :
         /\ Planned(n, order, updated, placed, works)
         /\ calls' \in Seq((Created(n, works) \cup Kept(n, order, placed))
                             \cup Emptied(n, order, placed))
  BY BuildPlans
<1> DEFINE C == (Created(n, works) \cup Kept(n, order, placed)) \cup Emptied(n, order, placed)
<1>2. \A i \in DOMAIN calls' : calls'[i] \in C BY <1>1
<1>3. hub' = hub /\ objects' = wanted BY DEF Build
<1>4. Consistent(calls')
  <2>1. \A c, d \in C : c.name = d.name => c.work = d.work BY <1>1, PlannedConsistent
  <2> HIDE DEF C
  <2> QED BY <1>2, <2>1 DEF Consistent
<1>5. ASSUME NEW k \in KeysOf(wanted), k \in OnHub PROVE Holds(hub, k, calls')
  <2>1. PICK p \in Names : k \in KeysOf(listed[p]) BY <1>5 DEF OnHub
  <2>2. PICK o \in Names :
           /\ k \in KeysOf(listed[o])
           /\ \A c \in C : c.name = o => k \in KeysOf(c.work)
    BY <1>1, <2>1, PlannedHolds
  <2> HIDE DEF C
  <2> QED BY <1>2, <2>2 DEF Holds
<1> QED BY <1>3, <1>4, <1>5 DEF HeldInv, OnHub, KeysOf, Holds, Consistent

\* A call, whatever it makes of its work: it gives the work a manifest, or it
\* takes from that work alone, which is not the one that holds the manifest.
LEMMA CallHolds ==
    ASSUME TypeOK, calls # <<>>, Consistent(calls), NEW k,
           NEW after \in {hub, Effect(Head(calls))},
           k \in OnHub => Holds(hub, k, calls),
           NEW p \in Names, k \in KeysOf(hub[p]) \/ k \in KeysOf(after[p])
    PROVE  Holds(after, k, Tail(calls))
<1> DEFINE c == Head(calls)
<1>1. calls \in Seq(Calls) /\ hub \in [Names -> {None} \cup Bundles]
  BY DEF TypeOK, Calls
<1>2. c \in Calls /\ c = calls[1] /\ 1 \in DOMAIN calls BY <1>1
<1>3. c.name \in Names BY <1>2 DEF Calls
<1>4. \A i \in DOMAIN Tail(calls) : i + 1 \in DOMAIN calls /\ Tail(calls)[i] = calls[i + 1]
  BY <1>1
<1> HIDE DEF c
<1>5. CASE after = hub
  <2>1. PICK n \in Names :
           /\ k \in KeysOf(hub[n])
           /\ \A i \in DOMAIN calls : calls[i].name = n => k \in KeysOf(calls[i].work)
    BY <1>5 DEF Holds, OnHub
  <2> QED BY <1>4, <1>5, <2>1 DEF Holds
<1>6. CASE after = [hub EXCEPT ![c.name] = c.work]
  <2>1. \A n \in Names : after[n] = IF n = c.name THEN c.work ELSE hub[n] BY <1>1, <1>6
  <2>2. CASE k \in KeysOf(c.work)
    <3>1. k \in KeysOf(after[c.name]) BY <1>3, <2>1, <2>2
    <3>2. \A i \in DOMAIN calls : calls[i].name = c.name => calls[i].work = c.work
      BY <1>2 DEF Consistent
    <3> QED BY <1>3, <1>4, <2>2, <3>1, <3>2 DEF Holds
  <2>3. CASE k \notin KeysOf(c.work)
    <3>1. k \in OnHub BY <2>1, <2>3 DEF OnHub
    <3>2. PICK n \in Names :
             /\ k \in KeysOf(hub[n])
             /\ \A i \in DOMAIN calls : calls[i].name = n => k \in KeysOf(calls[i].work)
      BY <3>1 DEF Holds
    <3>3. n # c.name BY <1>2, <2>3, <3>2
    <3>4. k \in KeysOf(after[n]) BY <2>1, <3>2, <3>3
    <3> QED BY <1>4, <3>2, <3>4 DEF Holds
  <2> QED BY <2>2, <2>3
<1> QED BY <1>5, <1>6 DEF Effect, c

LEMMA CallKeeps ==
    ASSUME TypeOK, HeldInv, Call \/ FailCall
    PROVE  HeldInv' /\ (current => OnHub \cap KeysOf(objects) \subseteq OnHub')
<1>1. calls # <<>> /\ calls' = Tail(calls) /\ hub' \in {hub, Effect(Head(calls))}
  BY DEF Call, FailCall
<1>2. objects' = objects /\ current' = current BY DEF Call, FailCall
<1>3. SUFFICES ASSUME current
               PROVE  /\ Consistent(calls')
                      /\ \A k \in KeysOf(objects) : k \in OnHub' => Holds(hub', k, calls')
                      /\ OnHub \cap KeysOf(objects) \subseteq OnHub'
  BY <1>2 DEF HeldInv, OnHub, KeysOf, Holds, Consistent
<1>4. Consistent(calls) BY <1>3 DEF HeldInv
<1>5. Consistent(calls')
  <2>1. calls \in Seq(Calls) BY DEF TypeOK, Calls
  <2>2. \A i \in DOMAIN calls' : i + 1 \in DOMAIN calls /\ calls'[i] = calls[i + 1]
    BY <1>1, <2>1
  <2> QED BY <1>4, <2>2 DEF Consistent
<1>6. ASSUME NEW k \in KeysOf(objects), NEW p \in Names,
             k \in KeysOf(hub[p]) \/ k \in KeysOf(hub'[p])
      PROVE  Holds(hub', k, calls')
  <2>1. k \in OnHub => Holds(hub, k, calls) BY <1>3 DEF HeldInv
  <2>2. Holds(hub', k, Tail(calls)) BY <1>1, <1>4, <1>6, <2>1, CallHolds
  <2> QED BY <1>1, <2>2
<1>7. \A k \in KeysOf(objects) : k \in OnHub' => Holds(hub', k, calls')
  BY <1>6 DEF OnHub, KeysOf
<1>8. ASSUME NEW k \in OnHub, k \in KeysOf(objects) PROVE k \in OnHub'
  <2>1. PICK p \in Names : k \in KeysOf(hub[p]) BY DEF OnHub
  <2>2. Holds(hub', k, calls') BY <1>6, <1>8, <2>1
  <2> QED BY <2>2 DEF Holds, OnHub, KeysOf
<1> QED BY <1>5, <1>7, <1>8

LEMMA HeldInit == Init => HeldInv
BY DEF Init, HeldInv, Consistent, OnHub, KeysOf

LEMMA HeldStep == UniqueNames => (TypeOK /\ HeldInv /\ [Next]_vars => HeldInv')
<1> SUFFICES ASSUME UniqueNames, TypeOK, HeldInv, [Next]_vars PROVE HeldInv' OBVIOUS
<1>1. CASE Build
  <2>1. CASE listed = hub BY <1>1, <2>1, BuildHolds
  <2>2. CASE listed # hub
    <3>1. current' = FALSE BY <1>1, <2>2 DEF Build
    <3> QED BY <3>1 DEF HeldInv
  <2> QED BY <2>1, <2>2
<1>2. CASE Call \/ FailCall BY <1>2, CallKeeps
<1>3. CASE Want \/ Listen \/ UNCHANGED vars
  <2>1. UNCHANGED <<hub, objects, current, calls>> BY <1>3 DEF Want, Listen, vars
  <2> QED BY <2>1 DEF HeldInv, Consistent, Holds, OnHub, KeysOf
<1>4. CASE Restart
  <2>1. calls' = <<>> /\ UNCHANGED <<hub, objects, current>> BY <1>4 DEF Restart
  <2>2. HeldInv' BY <2>1 DEF HeldInv, Consistent, Holds, OnHub, KeysOf
  <2> QED BY <2>2
<1> QED BY <1>1, <1>2, <1>3, <1>4 DEF Next

\* While the works of a build from a current copy are applied, whichever of the
\* calls fail, conflict or are cut off by a restart, a manifest that is on the hub
\* and required stays on the hub.  The works that "GenerateManifestWorks" makes
\* have names no other work has.
THEOREM RequiredStay == UniqueNames => (Spec => NeverWithdrawn)
<1>1. TypeOK /\ HeldInv /\ [Next]_vars =>
         [current => OnHub \cap KeysOf(objects) \subseteq OnHub']_hub
  <2> SUFFICES ASSUME TypeOK, HeldInv, [Next]_vars, hub' # hub, current
               PROVE  OnHub \cap KeysOf(objects) \subseteq OnHub'
    OBVIOUS
  <2>1. Call \/ FailCall BY DEF Next, Build, Want, Listen, Restart, vars
  <2> QED BY <2>1, CallKeeps
<1> SUFFICES ASSUME UniqueNames PROVE Spec => NeverWithdrawn OBVIOUS
<1>2. TypeOK /\ HeldInv /\ [Next]_vars => HeldInv' BY HeldStep
<1> QED BY <1>1, <1>2, HeldInit, TypeCorrect, PTL DEF Spec, NeverWithdrawn

-----------------------------------------------------------------------------
(* The controller rests when its manifests are distributed.  A build that  *)
(* finds them as it wants them makes calls that change nothing; any other  *)
(* makes one that changes the hub, which the lister does not know yet, or  *)
(* that ends with an error.                                                *)

Changeless(cs) == \A i \in DOMAIN cs : cs[i].work = listed[cs[i].name]

\* Only works the lister shows are deleted.
RestInv ==
    ~dirty =>
       /\ \A i \in DOMAIN calls : calls[i].work = None => listed[calls[i].name] # None
       /\ listed = hub /\ Changeless(calls) => Distributed

LEMMA PlanRests ==
    ASSUME UniqueNames, TypeOK, NEW n, NEW order, NEW updated, NEW placed, NEW works,
           Planned(n, order, updated, placed, works), listed = hub,
           \A c \in (Created(n, works) \cup Kept(n, order, placed))
                      \cup Emptied(n, order, placed) : c.work = listed[c.name]
    PROVE  Distributed
<1>1. wanted \in Demands BY DEF TypeOK
<1>2. /\ \A i \in 1..n : placed.works[i] \in SUBSET wanted
      /\ \A i \in 1..Len(works) : works[i] \in SUBSET wanted
  BY PlannedCalls
<1>3. /\ \A i \in 1..Len(works) : NewName(n, i) \in Free
      /\ \A i \in 1..n : order[i] \in Names
  BY PlannedNames
<1>4. works = <<>>
  <2> SUFFICES ASSUME works # <<>> PROVE FALSE OBVIOUS
  <2>1. works \in Seq(SUBSET wanted) BY DEF Planned, Filled
  <2>2. 1 \in 1..Len(works) BY <2>1
  <2>3. [name |-> NewName(n, 1), work |-> works[1]] \in Created(n, works)
    BY <2>2 DEF Created
  <2>4. works[1] = listed[NewName(n, 1)] BY <2>3
  <2>5. works[1] = None BY <1>3, <2>2, <2>4 DEF Free
  <2> QED BY <1>1, <1>2, <2>2, <2>5, WantedWorks
<1>5. ASSUME NEW i \in 1..n PROVE placed.works[i] # {} /\ hub[order[i]] = placed.works[i]
  <2>1. placed.works[i] # {}
    <3> SUFFICES ASSUME placed.works[i] = {} PROVE FALSE OBVIOUS
    <3>1. [name |-> order[i], work |-> None] \in Emptied(n, order, placed) BY DEF Emptied
    <3>2. listed[order[i]] = None BY <3>1
    <3>3. listed[order[i]] # None BY DEF Planned
    <3> QED BY <3>2, <3>3
  <2>2. [name |-> order[i], work |-> placed.works[i]] \in Kept(n, order, placed)
    BY <2>1 DEF Kept
  <2> QED BY <2>1, <2>2
<1>6. \A o \in Names : hub[o] # None => \E i \in 1..n : order[i] = o BY DEF Planned
<1>7. \A i \in 1..n : hub[order[i]] # None BY DEF Planned
<1>8. UNION {hub[o] : o \in {p \in Names : hub[p] # None}} = wanted
  <2>1. ASSUME NEW o \in Names, hub[o] # None PROVE hub[o] \in SUBSET wanted
    <3>1. PICK i \in 1..n : order[i] = o BY <1>6, <2>1
    <3> QED BY <1>2, <1>5, <3>1
  <2>2. ASSUME NEW m \in wanted PROVE \E o \in Names : hub[o] # None /\ m \in hub[o]
    <3>1. PICK i \in 1..n : m \in placed.works[i] BY <1>4 DEF Planned
    <3>2. m \in hub[order[i]] /\ hub[order[i]] # None BY <1>5, <1>7, <3>1
    <3> QED BY <1>3, <3>2
  <2> QED BY <2>1, <2>2
<1>9. ASSUME NEW o \in Names, NEW p \in Names, o # p
      PROVE  KeysOf(hub[o]) \cap KeysOf(hub[p]) = {}
  <2> SUFFICES ASSUME NEW k, k \in KeysOf(hub[o]), k \in KeysOf(hub[p]) PROVE FALSE
    OBVIOUS
  <2>1. hub[o] # None /\ hub[p] # None BY DEF KeysOf
  <2>2. PICK x \in hub[o] : k = x.key BY <2>1 DEF KeysOf
  <2>3. PICK y \in hub[p] : k = y.key BY <2>1 DEF KeysOf
  <2>4. PICK i \in 1..n : order[i] = o BY <1>6, <2>1
  <2>5. PICK j \in 1..n : order[j] = p BY <1>6, <2>1
  <2>6. x \in placed.works[i] /\ y \in placed.works[j] BY <1>5, <2>2, <2>3, <2>4, <2>5
  <2>7. x = y
    <3>1. x \in wanted /\ y \in wanted BY <1>2, <2>6
    <3>2. wanted \in Bundles BY <1>1, ConstantsOK
    <3> QED BY <2>2, <2>3, <3>1, <3>2 DEF Bundles
  <2>8. i # j BY <1>9, <2>4, <2>5
  <2> QED BY <2>6, <2>7, <2>8 DEF Planned
<1>10. ASSUME NEW o \in Names PROVE hub[o] # {}
  <2>1. CASE hub[o] = None
    <3>1. {} \in Bundles BY DEF Bundles
    <3> QED BY <2>1, <3>1, ConstantsOK
  <2>2. CASE hub[o] # None
    <3>1. PICK i \in 1..n : order[i] = o BY <1>6, <2>2
    <3> QED BY <1>5, <3>1
  <2> QED BY <2>1, <2>2
<1> QED BY <1>8, <1>9, <1>10 DEF Distributed

LEMMA BuildRests ==
    ASSUME UniqueNames, TypeOK, Build
    PROVE  RestInv'
<1>1. PICK n, order, updated, placed, works :
         /\ Planned(n, order, updated, placed, works)
         /\ calls' \in Seq((Created(n, works) \cup Kept(n, order, placed))
                             \cup Emptied(n, order, placed))
         /\ \A c \in (Created(n, works) \cup Kept(n, order, placed))
                         \cup Emptied(n, order, placed) : In(calls', c)
  BY BuildPlans
<1> DEFINE C == (Created(n, works) \cup Kept(n, order, placed)) \cup Emptied(n, order, placed)
<1>2. UNCHANGED <<hub, listed, wanted>> BY DEF Build
<1>3. calls' \in Seq(C) /\ \A c \in C : In(calls', c) BY <1>1
<1>4. ASSUME NEW c \in C, c.work = None PROVE listed[c.name] # None
  <2>1. CASE c \in Created(n, works)
    <3>1. PICK i \in 1..Len(works) : c.work = works[i] BY <2>1 DEF Created
    <3>2. works[i] \in SUBSET wanted /\ wanted \in Demands BY <1>1, PlannedCalls DEF TypeOK
    <3> QED BY <1>4, <3>1, <3>2, WantedWorks
  <2>2. CASE c \in Kept(n, order, placed) \cup Emptied(n, order, placed)
    <3>1. PICK i \in 1..n : c.name = order[i] BY <2>2, OldCalls
    <3> QED BY <1>1, <3>1 DEF Planned
  <2> QED BY <2>1, <2>2
<1>5. ASSUME listed = hub, \A i \in DOMAIN calls' : calls'[i].work = listed[calls'[i].name]
      PROVE  Distributed
  <2>1. ASSUME NEW c \in C PROVE c.work = listed[c.name]
    <3>1. PICK i \in 1..Len(calls') : calls'[i] = c BY <1>3 DEF In
    <3>2. i \in DOMAIN calls' BY <1>3, LenProperties
    <3> QED BY <1>5, <3>1, <3>2
  <2> QED BY <1>1, <1>5, <2>1, PlanRests
<1> HIDE DEF C
<1>6. \A i \in DOMAIN calls' : calls'[i].work = None => listed[calls'[i].name] # None
  BY <1>3, <1>4
<1> QED BY <1>2, <1>5, <1>6 DEF RestInv, Changeless, Distributed, KeysOf

LEMMA CallRests ==
    ASSUME TypeOK, RestInv, Call
    PROVE  RestInv'
<1>1. SUFFICES ASSUME ~dirty' PROVE RestInv' BY DEF RestInv
<1> DEFINE c == Head(calls)
<1>2. /\ ~dirty /\ calls # <<>> /\ calls' = Tail(calls) /\ hub' = Effect(c)
      /\ listed' = listed /\ wanted' = wanted
  BY <1>1 DEF Call
<1>3. calls \in Seq(Calls) /\ hub \in [Names -> {None} \cup Bundles] BY DEF TypeOK, Calls
<1>4. c \in Calls /\ c = calls[1] /\ 1 \in DOMAIN calls BY <1>2, <1>3
<1>5. \A i \in DOMAIN calls' : i + 1 \in DOMAIN calls /\ calls'[i] = calls[i + 1]
  BY <1>2, <1>3
<1>6. \A i \in DOMAIN calls : i = 1 \/ (i - 1 \in DOMAIN calls' /\ calls'[i - 1] = calls[i])
  BY <1>2, <1>3
<1>7. \A i \in DOMAIN calls' : calls'[i].work = None => listed[calls'[i].name] # None
  BY <1>2, <1>5 DEF RestInv
<1>8. c.work = None => listed[c.name] # None BY <1>2, <1>4 DEF RestInv
<1> HIDE DEF c
<1>9. ASSUME listed = hub', \A i \in DOMAIN calls' : calls'[i].work = listed[calls'[i].name]
      PROVE  Distributed'
  <2>1. c.work # None /\ listed[c.name] = c.work
    <3>1. CASE c.work # None /\ listed[c.name] = None /\ hub[c.name] # None
      BY <1>2, <1>9, <3>1 DEF Effect
    <3>2. CASE hub' = [hub EXCEPT ![c.name] = c.work]
      <4>1. c.name \in Names BY <1>4 DEF Calls
      <4>2. listed[c.name] = c.work BY <1>3, <1>9, <3>2, <4>1
      <4> QED BY <1>8, <4>2
    <3> QED BY <1>2, <3>1, <3>2 DEF Effect
  <2>2. hub' = hub BY <1>2, <2>1 DEF Effect
  <2>3. Changeless(calls)
    <3> SUFFICES ASSUME NEW i \in DOMAIN calls PROVE calls[i].work = listed[calls[i].name]
      BY DEF Changeless
    <3>1. CASE i = 1 BY <1>4, <2>1, <3>1
    <3>2. CASE i - 1 \in DOMAIN calls' /\ calls'[i - 1] = calls[i] BY <1>9, <3>2
    <3> QED BY <1>6, <3>1, <3>2
  <2>4. Distributed BY <1>2, <1>9, <2>2, <2>3 DEF RestInv
  <2> QED BY <1>2, <2>2, <2>4 DEF Distributed, KeysOf
<1> QED BY <1>2, <1>7, <1>9 DEF RestInv, Changeless

LEMMA RestInit == Init => RestInv
BY DEF Init, RestInv

LEMMA RestStep == UniqueNames => (TypeOK /\ RestInv /\ [Next]_vars => RestInv')
<1> SUFFICES ASSUME UniqueNames, TypeOK, RestInv, [Next]_vars PROVE RestInv' OBVIOUS
<1>1. CASE Build BY <1>1, BuildRests
<1>2. CASE Call BY <1>2, CallRests
<1>3. CASE FailCall \/ Want \/ Listen \/ Restart
  <2>1. dirty' = TRUE BY <1>3 DEF FailCall, Want, Listen, Restart
  <2> QED BY <2>1 DEF RestInv
<1>4. CASE UNCHANGED vars
  BY <1>4 DEF vars, RestInv, Changeless, Distributed, KeysOf
<1> QED BY <1>1, <1>2, <1>3, <1>4 DEF Next

\* When every call of "BuildAndApply" has returned without an error and the lister
\* shows what is on the hub, the hub has the wanted manifests: a controller that
\* builds again after errors and changes does not stop too early.
THEOREM RestsDistributed == UniqueNames => (Spec => []Rested)
<1> SUFFICES ASSUME UniqueNames PROVE Spec => []Rested OBVIOUS
<1>1. TypeOK /\ RestInv /\ [Next]_vars => RestInv' BY RestStep
<1>2. RestInv => Rested BY DEF RestInv, Rested, Changeless
<1> QED BY <1>1, <1>2, RestInit, TypeCorrect, PTL DEF Spec
=============================================================================
