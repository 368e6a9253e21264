--------------------------- MODULE RolloutProofs ---------------------------
(***************************************************************************)
(* Theorems about Rollout, for any clusters, groups and strategies.        *)
(***************************************************************************)
EXTENDS Rollout, FiniteSetTheorems, TLAPS

-----------------------------------------------------------------------------
(* The least and the greatest of some numbers, and how many there are.     *)

LEMMA LeastExists ==
    ASSUME NEW S \in SUBSET Nat, S # {}
    PROVE  Lowest(S) \in S /\ \A j \in S : Lowest(S) <= j
<1>1. PICK i \in S : \A j \in S : ~(<<j, i>> \in OpToRel(<, Nat))
  <2>1. S \subseteq Nat OBVIOUS
  <2> QED BY <2>1, NatLessThanWellFounded, WFMin
<1>2. \A j \in S : ~(j < i)
  BY <1>1 DEF OpToRel
<1>3. \A j \in S : i <= j
  BY <1>2
<1> QED BY <1>3 DEF Lowest

LEMMA GreatestExists ==
    ASSUME NEW S \in SUBSET Nat, S # {}, NEW n \in Nat, \A i \in S : i < n
    PROVE  \E m \in S : m < n /\ \A i \in S : i <= m
<1> DEFINE bounds == {b \in Nat : \A i \in S : i <= b}
<1>1. n \in bounds OBVIOUS
<1>2. PICK m \in bounds : \A b \in bounds : m <= b
  <2>1. bounds \in SUBSET Nat OBVIOUS
  <2> HIDE DEF bounds
  <2> QED BY <1>1, <2>1, LeastExists
<1>3. m \in S
  <2> SUFFICES ASSUME m \notin S PROVE FALSE OBVIOUS
  <2>1. \A i \in S : i < m BY <1>2
  <2>2. m \in Nat /\ m > 0
    <3>1. PICK i \in S : TRUE OBVIOUS
    <3> QED BY <2>1, <3>1
  <2>3. m - 1 \in bounds BY <2>1, <2>2
  <2> QED BY <1>2, <2>2, <2>3
<1> QED BY <1>2, <1>3

LEMMA FiniteBounded ==
    ASSUME NEW S \in SUBSET Nat, IsFiniteSet(S)
    PROVE  \E n \in Nat : \A c \in S : c < n
<1> DEFINE unbounded == {T \in SUBSET S : ~\E n \in Nat : \A c \in T : c < n}
           R == StrictSubsetOrdering(S)
<1> SUFFICES ASSUME unbounded # {} PROVE FALSE
  OBVIOUS
<1>1. IsWellFoundedOn(R, SUBSET S)
  BY FS_StrictSubsetOrderingWellFounded, FS_FiniteSubsetsOfFinite
<1>2. PICK T \in unbounded : \A U \in unbounded : ~(<<U, T>> \in R)
  <2>1. unbounded \subseteq SUBSET S OBVIOUS
  <2> HIDE DEF unbounded, R
  <2> QED BY <1>1, <2>1, WFMin
<1>3. PICK x \in T : TRUE
  BY 0 \in Nat
<1>4. <<T \ {x}, T>> \in R
  BY <1>3 DEF StrictSubsetOrdering
<1>5. T \ {x} \notin unbounded
  BY <1>2, <1>4
<1>6. PICK n \in Nat : \A c \in T \ {x} : c < n
  BY <1>5
<1>7. x \in Nat
  BY <1>3
<1>8. PICK m \in Nat : n <= m /\ x < m
  <2>1. n <= n + x + 1 /\ x < n + x + 1 /\ n + x + 1 \in Nat BY <1>7
  <2> QED BY <2>1
<1>9. \A c \in T : c < m
  BY <1>6, <1>8
<1> QED BY <1>9

\* A finite set of numbers has at most room elements with fewer than room below.
LEMMA FirstOnes ==
    ASSUME NEW new \in SUBSET Nat, IsFiniteSet(new), NEW room \in Int
    PROVE  /\ IsFiniteSet(Amended(new, room))
           /\ Cardinality(Amended(new, room)) <= IF room > 0 THEN room ELSE 0
<1> DEFINE below == [c \in new |-> {d \in new : d < c}]
           rank  == [c \in new |-> Cardinality(below[c])]
           A     == {c \in new : rank[c] < room}
           T     == 0..(room - 1)
<1>1. Amended(new, room) = A
  BY DEF Amended
<1>2. \A c \in new : below[c] \in SUBSET new
  OBVIOUS
<1>3. ASSUME NEW c \in new, NEW d \in new, c < d
      PROVE  below[c] \subseteq below[d] /\ below[c] # below[d]
  <2>1. c \in Nat /\ d \in Nat /\ \A e \in new : e \in Nat OBVIOUS
  <2>2. c \in below[d] /\ c \notin below[c] BY <1>3, <2>1
  <2>3. ASSUME NEW e \in below[c] PROVE e \in below[d]
    <3>1. e \in new /\ e \in Nat /\ e < c BY <2>1
    <3> QED BY <1>3, <2>1, <3>1
  <2> QED BY <2>2, <2>3
<1>4. /\ \A c \in new : rank[c] \in Nat
      /\ \A c, d \in new : c < d => rank[c] < rank[d]
  <2> SUFFICES ASSUME NEW c \in new, NEW d \in new
               PROVE  rank[c] \in Nat /\ (c < d => rank[c] < rank[d])
    OBVIOUS
  <2>1. rank[c] = Cardinality(below[c]) /\ rank[d] = Cardinality(below[d])
    OBVIOUS
  <2> HIDE DEF rank, below
  <2>2. IsFiniteSet(below[d]) /\ Cardinality(below[c]) \in Nat /\ Cardinality(below[d]) \in Nat
    BY <1>2, FS_Subset, FS_CardinalityType
  <2>3. ASSUME c < d PROVE Cardinality(below[c]) < Cardinality(below[d])
    <3>1. below[c] \in SUBSET below[d] /\ below[c] # below[d]
      BY <1>3, <2>3
    <3> QED BY <2>2, <3>1, FS_Subset
  <2> QED BY <2>1, <2>2, <2>3
<1> HIDE DEF rank, below
<1>5. CASE room <= 0
  <2>1. \A c \in new : ~(rank[c] < room) BY <1>4, <1>5
  <2>2. A = {} BY <2>1
  <2> QED BY <1>1, <2>2, <1>5, FS_EmptySet
<1>6. CASE room > 0
  <2> DEFINE f == [c \in A |-> rank[c]]
  <2>1. f \in [A -> T]
    <3>1. \A c \in new : rank[c] < room => rank[c] \in T BY <1>4, <1>6
    <3> QED BY <3>1
  <2>2. \A c, d \in A : f[c] = f[d] => c = d
    <3> SUFFICES ASSUME NEW c \in A, NEW d \in A, rank[c] = rank[d] PROVE c = d
      OBVIOUS
    <3>1. c \in Nat /\ d \in Nat /\ rank[c] \in Nat BY <1>4
    <3> QED BY <1>4, <3>1
  <2>3. f \in Injection(A, T)
    <3> HIDE DEF f, A, T
    <3> QED BY <2>1, <2>2 DEF Injection, IsInjective
  <2>4. IsFiniteSet(T) /\ Cardinality(T) = room
    BY <1>6, FS_Interval
  <2>5. IsFiniteSet(A) /\ Cardinality(A) <= Cardinality(T)
    <3> HIDE DEF f, A, T
    <3> QED BY <2>3, <2>4, FS_Injection
  <2> QED BY <1>1, <1>6, <2>4, <2>5
<1> QED BY <1>5, <1>6

LEMMA UnionBound ==
    ASSUME NEW S, NEW T, IsFiniteSet(S), IsFiniteSet(T)
    PROVE  /\ IsFiniteSet(S \cup T)
           /\ Cardinality(S \cup T) <= Cardinality(S) + Cardinality(T)
           /\ Cardinality(S \cup T) \in Nat /\ Cardinality(S) \in Nat /\ Cardinality(T) \in Nat
<1>1. IsFiniteSet(S \cap T) BY FS_Intersection
<1>2. IsFiniteSet(S \cup T) BY FS_Union
<1>3. /\ Cardinality(S) \in Nat /\ Cardinality(T) \in Nat
      /\ Cardinality(S \cap T) \in Nat /\ Cardinality(S \cup T) \in Nat
  BY <1>1, <1>2, FS_CardinalityType
<1>4. Cardinality(S \cup T) = Cardinality(S) + Cardinality(T) - Cardinality(S \cap T)
  BY FS_Union
<1> QED BY <1>2, <1>3, <1>4

\* A list that is filled from the elements of a set in their order, until it has
\* a size, has no more than that size.
UpTo(S, c) == {d \in S : d <= c}
Full(S, list, size) == {c \in S : Cardinality(list \cap UpTo(S, c)) >= size}

LEMMA ListFilled ==
    ASSUME NEW S \in SUBSET Nat, IsFiniteSet(S), NEW list \in SUBSET S, NEW size \in Nat \ {0}
    PROVE  /\ Full(S, list, size) = {} => Cardinality(list) < size
           /\ Full(S, list, size) # {} =>
                 /\ Lowest(Full(S, list, size)) \in S
                 /\ Cardinality(list \cap UpTo(S, Lowest(Full(S, list, size)))) <= size
<1> DEFINE upto == [c \in S |-> list \cap {d \in S : d <= c}]
           full == Full(S, list, size)
<1>1. /\ \A n \in S : n \in Nat
      /\ \A c \in S : upto[c] = list \cap UpTo(S, c) /\ upto[c] = list \cap {d \in S : d <= c}
      /\ full = {c \in S : Cardinality(upto[c]) >= size}
  BY DEF Full, UpTo
<1> HIDE DEF full
<1>2. \A T \in SUBSET list : IsFiniteSet(T) /\ Cardinality(T) \in Nat
  BY FS_Subset, FS_CardinalityType
<1>3. \A c \in S : upto[c] \in SUBSET list
  OBVIOUS
<1>4. ASSUME full = {} PROVE Cardinality(list) < size
  <2>1. CASE S = {}
    <3>1. list = {} BY <2>1
    <3> QED BY <3>1, FS_EmptySet
  <2>2. CASE S # {}
    <3>1. PICK n \in Nat : \A c \in S : c < n
      BY FiniteBounded
    <3>2. PICK m \in S : \A c \in S : c <= m
      BY <2>2, <3>1, GreatestExists
    <3>3. upto[m] = list BY <3>2
    <3>4. ~(Cardinality(upto[m]) >= size) BY <1>1, <1>4
    <3> QED BY <1>2, <3>3, <3>4
  <2> QED BY <2>1, <2>2
<1>5. ASSUME full # {} PROVE Cardinality(upto[Lowest(full)]) <= size
  <2> DEFINE k == Lowest(full)
             below == {c \in S : c < k}
             before == {d \in list : d < k}
  <2>1. k \in S /\ k \in full /\ \A c \in full : k <= c
    BY <1>1, <1>5, LeastExists
  <2> HIDE DEF k
  <2>2. Cardinality(before) < size
    <3>1. CASE below = {}
      <4>1. before = {} BY <3>1
      <4> QED BY <4>1, FS_EmptySet
    <3>2. CASE below # {}
      <4>1. below \in SUBSET Nat /\ k \in Nat /\ \A c \in below : c < k BY <1>1, <2>1
      <4>2. PICK m \in below : \A c \in below : c <= m
        BY <3>2, <4>1, GreatestExists
      <4>3. m \in S /\ m < k BY <4>2
      <4>4. upto[m] = before
        <5>1. \A d \in S : d < k <=> d <= m BY <1>1, <2>1, <4>2, <4>3
        <5> QED BY <1>1, <4>3, <5>1
      <4>5. m \notin full BY <1>1, <2>1, <4>3
      <4>6. ~(Cardinality(upto[m]) >= size) BY <1>1, <4>3, <4>5
      <4>7. Cardinality(before) \in Nat BY <1>2
      <4> QED BY <4>4, <4>6, <4>7
    <3> QED BY <3>1, <3>2
  <2>3. upto[k] \subseteq before \cup {k}
    <3>1. \A d \in S : d <= k => d < k \/ d = k BY <1>1, <2>1
    <3> QED BY <1>1, <2>1, <3>1
  <2>4. IsFiniteSet(before) /\ Cardinality(before) \in Nat
    BY <1>2
  <2> HIDE DEF before
  <2>5. IsFiniteSet(before \cup {k}) /\ Cardinality(before \cup {k}) <= size
    <3>1. /\ IsFiniteSet(before \cup {k})
          /\ Cardinality(before \cup {k}) \in {Cardinality(before), Cardinality(before) + 1}
      BY <2>4, FS_AddElement
    <3> QED BY <2>2, <2>4, <3>1
  <2>6. Cardinality(upto[k]) <= Cardinality(before \cup {k})
    BY <2>3, <2>5, FS_Subset
  <2>7. Cardinality(upto[k]) \in Nat /\ Cardinality(before \cup {k}) \in Nat
    BY <1>2, <1>3, <2>1, <2>5, FS_CardinalityType
  <2> QED BY <2>5, <2>6, <2>7 DEF k
<1>6. full # {} => Lowest(full) \in S
  BY <1>1, LeastExists
<1> QED BY <1>1, <1>4, <1>5, <1>6 DEF full

-----------------------------------------------------------------------------
(* What the operators of the handler return.                               *)

\* The clusters a threshold stands for: a number, above zero if the default is,
\* and with a default of zero at most what the user of the API has written.
LEMMA RolloutSizeRange ==
    ASSUME NEW t \in Thresholds, NEW total \in Nat, NEW default \in Nat
    PROVE  /\ RolloutSize(t, total, default) \in Nat
           /\ default > 0 => RolloutSize(t, total, default) > 0
           /\ RolloutSize(t, total, 0) <= IF t.percent THEN (t.n * total + 99) \div 100
                                                       ELSE t.n
           /\ t.n = 0 => RolloutSize(t, total, 0) = 0
<1> DEFINE n == IF t.percent THEN (t.n * total + 99) \div 100 ELSE t.n
<1>1. t.percent \in BOOLEAN /\ t.n \in Nat
  BY DEF Thresholds
<1>2. n \in Nat /\ (t.n = 0 => n = 0)
  <2>1. t.n * total \in Nat /\ (t.n = 0 => t.n * total = 0) BY <1>1
  <2>2. \A p \in Nat : (p + 99) \div 100 \in Nat /\ (p = 0 => (p + 99) \div 100 = 0) OBVIOUS
  <2> QED BY <1>1, <2>1, <2>2
<1>3. \A d : RolloutSize(t, total, d) = IF n <= 0 \/ n > total THEN d ELSE n
  BY DEF RolloutSize
<1> HIDE DEF n
<1>4. RolloutSize(t, total, 0) <= n /\ (t.n = 0 => RolloutSize(t, total, 0) = 0)
  BY <1>2, <1>3
<1>5. RolloutSize(t, total, default) \in Nat /\ (default > 0 => RolloutSize(t, total, default) > 0)
  BY <1>2, <1>3
<1> QED BY <1>4, <1>5 DEF n

\* Of the clusters with a status, progressivePerCluster returns those that are
\* in the rollout, up to some name.  It adds others only when it has gone
\* through all of these and MaxFailures is not breached, and it returns no more
\* than the rollout size.
Continued(c, existing, max, soak) ==
    /\ InRollout(c, soak)
    /\ status[c] = "ToApply" => ~Breached({d \in existing : d < c}, max)

LEMMA PerClusterRollout ==
    ASSUME NEW existing \in SUBSET Clusters, NEW clusters \in SUBSET Clusters,
           NEW size \in Nat, NEW max, NEW soak,
           NEW rollout, rollout = PerCluster(existing, clusters, size, max, soak).rollout
    PROVE  /\ rollout \subseteq Clusters
           /\ \A c \in rollout \cap existing : Continued(c, existing, max, soak)
           /\ \A c \in rollout \ existing : c \in clusters /\ ~Breached(existing, max)
           /\ \A c \in rollout, d \in existing :
                 (c \in existing => d < c) /\ Continued(d, existing, max, soak) => d \in rollout
           /\ size > 0 => IsFiniteSet(rollout) /\ Cardinality(rollout) <= size
<1> DEFINE listed  == {c \in existing : Continued(c, existing, max, soak)}
           full    == Full(existing, listed, size)
           seen    == IF full = {} THEN existing ELSE UpTo(existing, Lowest(full))
           new     == clusters \ existing
           amended == Amended(new, size - Cardinality(listed))
           breach  == Breached(seen, max)
<1>1. rollout = (listed \cap seen) \cup (IF full = {} /\ ~breach THEN amended ELSE {})
  BY DEF PerCluster, Continued, Full, UpTo
<1>2. Clusters \subseteq Nat /\ IsFiniteSet(Clusters) BY ConstantsOK
<1>3. amended \subseteq new
  BY DEF Amended
<1>4. /\ IsFiniteSet(existing) /\ IsFiniteSet(new) /\ IsFiniteSet(listed)
      /\ existing \in SUBSET Nat /\ new \in SUBSET Nat /\ listed \in SUBSET existing
      /\ new \in SUBSET clusters /\ new \cap existing = {}
      /\ \A c \in existing : c \in listed <=> Continued(c, existing, max, soak)
  BY <1>2, FS_Subset
<1>5. /\ full = {} => seen = existing
      /\ full # {} => seen = UpTo(existing, Lowest(full))
  OBVIOUS
<1>6. Cardinality(listed) \in Nat
  BY <1>4, FS_CardinalityType
<1>7. size > 0 =>
         /\ full = {} => Cardinality(listed) < size
         /\ full # {} => Cardinality(listed \cap UpTo(existing, Lowest(full))) <= size
  <2> HIDE DEF listed, new
  <2>1. size > 0 => size \in Nat \ {0} OBVIOUS
  <2> QED BY <1>4, <2>1, ListFilled
<1>8. full # {} => Lowest(full) \in Nat
  <2>1. full \in SUBSET Nat BY <1>4 DEF Full
  <2> QED BY <2>1, LeastExists
<1>9. /\ IsFiniteSet(amended)
      /\ Cardinality(listed) < size => Cardinality(amended) <= size - Cardinality(listed)
  <2> HIDE DEF listed, new
  <2> QED BY <1>4, <1>6, FirstOnes
<1> HIDE DEF listed, full, seen, new, amended, breach
<1>10. CASE full = {}
  <2>1. rollout = listed \cup (IF ~breach THEN amended ELSE {})
    BY <1>1, <1>4, <1>5, <1>10
  <2>2. breach = Breached(existing, max)
    BY <1>5, <1>10 DEF breach
  <2>3. ASSUME size > 0 PROVE IsFiniteSet(rollout) /\ Cardinality(rollout) <= size
    <3>1. Cardinality(listed) < size BY <1>7, <1>10, <2>3
    <3>2. /\ IsFiniteSet(listed \cup amended)
          /\ Cardinality(listed \cup amended) <= Cardinality(listed) + Cardinality(amended)
          /\ Cardinality(listed \cup amended) \in Nat /\ Cardinality(amended) \in Nat
      BY <1>4, <1>9, UnionBound
    <3>3. Cardinality(listed \cup amended) <= size
      BY <1>6, <1>9, <3>1, <3>2
    <3>4. rollout = listed \/ rollout = listed \cup amended BY <2>1
    <3>5. Cardinality(listed) <= size BY <1>6, <3>1
    <3>6. CASE rollout = listed BY <1>4, <3>5, <3>6
    <3>7. CASE rollout = listed \cup amended BY <3>2, <3>3, <3>7
    <3> QED BY <3>4, <3>6, <3>7
  <2> QED BY <1>3, <1>4, <2>1, <2>2, <2>3
<1>11. CASE full # {}
  <2> DEFINE k == Lowest(full)
  <2>1. rollout = listed \cap UpTo(existing, k)
    BY <1>1, <1>5, <1>11
  <2>2. size > 0 => IsFiniteSet(rollout) /\ Cardinality(rollout) <= size
    BY <1>4, <1>7, <1>11, <2>1, FS_Subset
  <2>3. k \in Nat BY <1>8, <1>11
  <2> HIDE DEF k
  <2>4. \A c \in existing : c \in rollout <=> Continued(c, existing, max, soak) /\ c <= k
    BY <1>4, <2>1 DEF UpTo
  <2>5. rollout \subseteq existing BY <1>4, <2>1
  <2>6. \A c, d \in existing : c <= k /\ d < c => d <= k
    BY <1>2, <2>3
  <2>7. ASSUME NEW c \in rollout, NEW d \in existing, d < c, Continued(d, existing, max, soak)
        PROVE  d \in rollout
    <3>1. c \in existing /\ c <= k BY <2>4, <2>5
    <3> QED BY <2>4, <2>6, <2>7, <3>1
  <2>8. \A c \in rollout \cap existing : Continued(c, existing, max, soak) BY <2>4
  <2> HIDE DEF Continued
  <2> QED BY <2>2, <2>5, <2>7, <2>8
<1> QED BY <1>10, <1>11

\* progressivePerGroup, in the terms of its local variables: what has begun, and
\* of it what is in the rollout and what fails; the groups at which it stops.
Begun(existing)       == {c \in existing : status[c] # "ToApply"}
Listed(existing, soak) == {c \in Begun(existing) : InRollout(c, soak)}
Failures(existing, S) == {c \in S \cap Begun(existing) : Failing(c)}
Through(clusters, k)  == {c \in clusters : GroupOf[c] <= k}
Open(existing, clusters, soak, k) ==
    Cardinality(Listed(existing, soak) \cup (Through(clusters, k) \ Begun(existing)))
        - Cardinality(Failures(existing, Through(clusters, k))) > 0
BreachedIn(existing, clusters, threshold, k) ==
    Cardinality(Failures(existing, Members(clusters, k)))
        > RolloutSize(threshold, Cardinality(Members(clusters, k)), 0)
Stops(existing, clusters, threshold, soak) ==
    {k \in {GroupOf[c] : c \in clusters} :
        Open(existing, clusters, soak, k) \/ BreachedIn(existing, clusters, threshold, k)}
Seen(existing, clusters, threshold, soak) ==
    LET stops == Stops(existing, clusters, threshold, soak)
    IN IF stops = {} THEN clusters ELSE Through(clusters, Lowest(stops))

LEMMA PerGroupIs ==
    ASSUME NEW existing, NEW clusters, NEW threshold, NEW soak
    PROVE  LET result == PerGroup(existing, clusters, threshold, soak)
           IN /\ result.rollout = Listed(existing, soak)
                     \cup (Seen(existing, clusters, threshold, soak) \ Begun(existing))
              /\ result.timeout = {c \in Begun(existing) : TimesOut(c)}
BY DEF PerGroup, Listed, Begun, Failures, Through, Open, BreachedIn, Stops, Seen, Members

\* Of the clusters with a status it returns some that are in the rollout; the
\* workload is started on clusters of the groups it goes through only, and in a
\* group only when it has not stopped at one before.
LEMMA PerGroupRollout ==
    ASSUME NEW existing \in SUBSET Clusters, \A c \in existing : status[c] # "None",
           NEW clusters \in SUBSET Clusters, NEW threshold, NEW soak,
           NEW rollout, rollout = PerGroup(existing, clusters, threshold, soak).rollout
    PROVE  /\ rollout \subseteq Clusters
           /\ \A c \in rollout \cap existing : InRollout(c, soak)
           /\ \A c \in rollout : status[c] \in {"None", "ToApply"} =>
                 /\ c \in clusters
                 /\ \A d \in clusters : GroupOf[d] < GroupOf[c] =>
                       GroupOf[d] \notin Stops(existing, clusters, threshold, soak)
<1> DEFINE stops == Stops(existing, clusters, threshold, soak)
           seen  == Seen(existing, clusters, threshold, soak)
<1>1. rollout = Listed(existing, soak) \cup (seen \ Begun(existing))
  BY PerGroupIs
<1>2. /\ Listed(existing, soak) \subseteq existing
      /\ \A c \in Listed(existing, soak) :
            InRollout(c, soak) /\ status[c] \notin {"None", "ToApply"}
  BY DEF Listed, Begun
<1>3. seen \subseteq clusters
  BY DEF Seen, Through
<1>4. \A c \in existing \ Begun(existing) : InRollout(c, soak)
  BY DEF Begun, InRollout
<1>5. ASSUME NEW c \in seen, NEW d \in clusters, GroupOf[d] < GroupOf[c], GroupOf[d] \in stops
      PROVE  FALSE
  <2>1. stops \in SUBSET Nat
    BY ConstantsOK DEF Stops
  <2>2. stops # {} /\ Lowest(stops) \in Nat /\ Lowest(stops) <= GroupOf[d]
    BY <1>5, <2>1, LeastExists
  <2>3. GroupOf[c] <= Lowest(stops)
    BY <2>2 DEF Seen, Through
  <2>4. GroupOf[c] \in Nat /\ GroupOf[d] \in Nat
    BY <1>3, ConstantsOK
  <2> HIDE DEF stops
  <2> QED BY <1>5, <2>2, <2>3, <2>4
<1> HIDE DEF seen
<1> QED BY <1>1, <1>2, <1>3, <1>4, <1>5

LEMMA NoStopBefore ==
    ASSUME NEW existing \in SUBSET Clusters, \A c \in existing : status[c] # "None",
           NEW clusters \in SUBSET Clusters, NEW threshold, NEW soak,
           NEW c \in PerGroup(existing, clusters, threshold, soak).rollout,
           status[c] \in {"None", "ToApply"},
           NEW d \in clusters, GroupOf[d] < GroupOf[c]
    PROVE  GroupOf[d] \notin Stops(existing, clusters, threshold, soak)
<1> DEFINE rollout == PerGroup(existing, clusters, threshold, soak).rollout
<1>1. c \in rollout /\ rollout = PerGroup(existing, clusters, threshold, soak).rollout
  OBVIOUS
<1> HIDE DEF rollout
<1> QED BY <1>1, PerGroupRollout

-----------------------------------------------------------------------------
(* Types.                                                                  *)

LEMMA StrategyType ==
    ASSUME TypeOK
    PROVE  /\ Type \in {"All", "Progressive", "ProgressivePerGroup"}
           /\ Mandatory \in SUBSET Nat /\ (Type = "All" => Mandatory = {})
           /\ MaxConcurrency \in Thresholds /\ MaxFailures \in Thresholds
           /\ MinSuccessTime \in Nat /\ ProgressDeadline \in Nat \cup {None}
           /\ Horizon \in Nat /\ MinSuccessTime <= Horizon
           /\ ProgressDeadline # None => ProgressDeadline \in Nat /\ ProgressDeadline <= Horizon
<1>1. strategy \in RolloutStrategies
  BY ConstantsOK DEF TypeOK
<1>2. /\ Type \in {"All", "Progressive", "ProgressivePerGroup"}
      /\ Mandatory \in SUBSET Nat /\ (Type = "All" => Mandatory = {})
      /\ MaxConcurrency \in Thresholds /\ MaxFailures \in Thresholds
      /\ MinSuccessTime \in Nat /\ ProgressDeadline \in Nat \cup {None}
  BY <1>1 DEF RolloutStrategies, Type, Mandatory, MaxConcurrency, MaxFailures,
              MinSuccessTime, ProgressDeadline
<1> QED BY <1>2, ConstantsOK DEF Horizon

\* The placements that one decision reads.
Reads == [1..3 -> SUBSET Clusters]

LEMMA ExistingStatuses ==
    ASSUME NEW read \in SUBSET Clusters
    PROVE  /\ Existing(read) \in SUBSET Clusters /\ Existing(read) \subseteq read
           /\ InMandatory(read) \in SUBSET Clusters /\ Rest(read) \in SUBSET Clusters
           /\ \A c \in Existing(read) : status[c] # "None"
BY DEF Existing, InMandatory, Rest

\* What the handler returns is what one of its two procedures returns, for the
\* mandatory groups or for the others.
LEMMA Decision ==
    ASSUME TypeOK, NEW reads \in Reads,
           NEW result, result = GetRolloutCluster(reads)
    PROVE  LET existing  == Existing(reads[1])
               mandatory == InMandatory(reads[2])
               first     == PerGroup(existing, mandatory, NoFailures, MinSuccessTime)
           IN \/ /\ Type = "All" /\ Mandatory = {}
                 /\ result = PerCluster(existing, reads[1], Cardinality(reads[1]),
                                       Cardinality(reads[1]), 0)
              \/ Type # "All" /\ mandatory # {} /\ Unfinished(first) /\ result = first
              \/ /\ Type = "Progressive" /\ (mandatory = {} \/ ~Unfinished(first))
                 /\ result = PerCluster(existing, Rest(reads[3]),
                       RolloutSize(MaxConcurrency, Cardinality(Rest(reads[3])),
                                                   Cardinality(Rest(reads[3]))),
                       RolloutSize(MaxFailures, Cardinality(reads[1]), 0), MinSuccessTime)
              \/ /\ Type = "ProgressivePerGroup" /\ (mandatory = {} \/ ~Unfinished(first))
                 /\ result = PerGroup(existing, Rest(reads[3]), MaxFailures, MinSuccessTime)
<1>1. CASE Type = "All"
  BY <1>1, StrategyType DEF GetRolloutCluster
<1>2. CASE Type = "Progressive"
  BY <1>2 DEF GetRolloutCluster, AfterMandatory
<1>3. CASE Type = "ProgressivePerGroup"
  BY <1>3 DEF GetRolloutCluster, AfterMandatory
<1> QED BY <1>1, <1>2, <1>3, StrategyType

LEMMA ReadsType ==
    ASSUME NEW reads \in Reads
    PROVE  /\ \A i \in 1..3 : /\ reads[i] \in SUBSET Clusters
                             /\ Cardinality(reads[i]) \in Nat
                             /\ Cardinality(Rest(reads[i])) \in Nat
<1> SUFFICES ASSUME NEW i \in 1..3
             PROVE  /\ reads[i] \in SUBSET Clusters
                    /\ Cardinality(reads[i]) \in Nat /\ Cardinality(Rest(reads[i])) \in Nat
  OBVIOUS
<1>1. reads[i] \in SUBSET Clusters BY DEF Reads
<1>2. Rest(reads[i]) \in SUBSET Clusters BY <1>1 DEF Rest
<1>3. \A S \in SUBSET Clusters : Cardinality(S) \in Nat
  BY ConstantsOK, FS_Subset, FS_CardinalityType
<1> QED BY <1>1, <1>2, <1>3

\* No cluster that it keeps in the rollout has timed out.
LEMMA RolloutHasNotTimedOut ==
    ASSUME TypeOK, NEW reads \in Reads, NEW rollout,
           rollout = GetRolloutCluster(reads).rollout
    PROVE  /\ rollout \subseteq Clusters
           /\ \A c \in rollout \cap Existing(reads[1]) : ~TimesOut(c)
<1> DEFINE existing == Existing(reads[1])
           result   == GetRolloutCluster(reads)
<1>1. /\ existing \in SUBSET Clusters /\ reads[1] \in SUBSET Clusters
      /\ \A c \in existing : status[c] # "None"
      /\ InMandatory(reads[2]) \in SUBSET Clusters /\ Rest(reads[3]) \in SUBSET Clusters
  BY ReadsType, ExistingStatuses
<1>2. \A c, soak : InRollout(c, soak) => ~TimesOut(c)
  BY DEF InRollout, TimesOut
<1>3. ASSUME NEW clusters \in SUBSET Clusters, NEW threshold, NEW soak,
             result = PerGroup(existing, clusters, threshold, soak)
      PROVE  rollout \subseteq Clusters /\ \A c \in rollout \cap existing : ~TimesOut(c)
  <2> HIDE DEF existing, result
  <2>1. rollout = PerGroup(existing, clusters, threshold, soak).rollout
    BY <1>3 DEF result
  <2>2. rollout \subseteq Clusters /\ \A c \in rollout \cap existing : InRollout(c, soak)
    BY <1>1, <2>1, PerGroupRollout
  <2> QED BY <1>2, <2>2
<1>4. ASSUME NEW clusters \in SUBSET Clusters, NEW size \in Nat, NEW max, NEW soak,
             result = PerCluster(existing, clusters, size, max, soak)
      PROVE  rollout \subseteq Clusters /\ \A c \in rollout \cap existing : ~TimesOut(c)
  <2> HIDE DEF existing, result
  <2>1. rollout = PerCluster(existing, clusters, size, max, soak).rollout
    BY <1>4 DEF result
  <2>2. /\ rollout \subseteq Clusters
        /\ \A c \in rollout \cap existing : Continued(c, existing, max, soak)
    BY <1>1, <2>1, PerClusterRollout
  <2> QED BY <1>2, <2>2 DEF Continued
<1>5. /\ Cardinality(reads[1]) \in Nat
      /\ RolloutSize(MaxConcurrency, Cardinality(Rest(reads[3])),
                     Cardinality(Rest(reads[3]))) \in Nat
  BY ReadsType, StrategyType, RolloutSizeRange
<1>6. \/ \E clusters \in SUBSET Clusters : \E threshold, soak :
            result = PerGroup(existing, clusters, threshold, soak)
      \/ \E clusters \in SUBSET Clusters, size \in Nat : \E max, soak :
            result = PerCluster(existing, clusters, size, max, soak)
  BY <1>1, <1>5, Decision
<1> QED BY <1>3, <1>4, <1>6

\* A recheck is asked for within the time that ages are counted to.
LEMMA RecheckAfterType ==
    ASSUME TypeOK, NEW rollout \in SUBSET Clusters, \A c \in rollout : ~TimesOut(c)
    PROVE  RecheckAfter(rollout) \in 0..Horizon \cup {None}
<1> DEFINE soak     == IF Type = "All" THEN 0 ELSE MinSuccessTime
           deadline == {d \in rollout : /\ ProgressDeadline # None
                                        /\ status[d] \in {"Progressing", "Failed"}}
           times    == {ProgressDeadline - age[c] : c \in deadline}
                          \cup (IF soak # 0 THEN {soak} ELSE {})
<1>1. soak \in 0..Horizon
  BY StrategyType
<1>2. ASSUME NEW c \in deadline PROVE ProgressDeadline - age[c] \in 0..Horizon
  <2>1. /\ ProgressDeadline \in Nat /\ ProgressDeadline <= Horizon /\ Horizon \in Nat
    BY StrategyType
  <2>2. age[c] \in Nat /\ ~(age[c] >= ProgressDeadline)
    BY <2>1 DEF TypeOK, TimesOut
  <2> QED BY <2>1, <2>2
<1>3. times \subseteq 0..Horizon
  <2> HIDE DEF soak, deadline
  <2> QED BY <1>1, <1>2
<1>4. times \in SUBSET Nat BY <1>3
<1>5. RecheckAfter(rollout) = IF times = {} THEN None ELSE Lowest(times)
  BY DEF RecheckAfter
<1> HIDE DEF times
<1>6. CASE times = {} BY <1>5, <1>6
<1>7. CASE times # {}
  <2>1. Lowest(times) \in times BY <1>4, <1>7, LeastExists
  <2> QED BY <1>3, <1>5, <1>7, <2>1
<1> QED BY <1>6, <1>7

\* A decision leaves the types as they are.
LEMMA DecideType ==
    ASSUME TypeOK, NEW reads \in Reads, Decide(reads)
    PROVE  /\ strategy' = strategy /\ Horizon' = Horizon
           /\ status' \in [Clusters -> Statuses]
           /\ age' \in [Clusters -> 0..Horizon]
           /\ timer' \in 0..Horizon \cup {None}
<1> DEFINE result == GetRolloutCluster(reads)
<1>1. strategy' = strategy /\ Horizon' = Horizon
  BY DEF Decide, Horizon, ProgressDeadline, MinSuccessTime
<1>2. status' \in [Clusters -> Statuses]
  <2>1. \A c \in Clusters : status[c] \in Statuses BY DEF TypeOK
  <2>2. "Progressing" \in Statuses /\ "None" \in Statuses BY DEF Statuses
  <2> QED BY <2>1, <2>2 DEF Decide
<1>3. age' \in [Clusters -> 0..Horizon]
  <2>1. \A c \in Clusters : age[c] \in 0..Horizon BY DEF TypeOK
  <2>2. 0 \in 0..Horizon BY StrategyType
  <2> QED BY <2>1, <2>2 DEF Decide
<1>4. timer' \in 0..Horizon \cup {None}
  <2> DEFINE rollout == GetRolloutCluster(reads).rollout \cap Existing(reads[1])
  <2>1. rollout \in SUBSET Clusters /\ \A c \in rollout : ~TimesOut(c)
    BY RolloutHasNotTimedOut
  <2>2. timer' = RecheckAfter(rollout)
    BY DEF Decide
  <2> HIDE DEF rollout
  <2> QED BY <2>1, <2>2, RecheckAfterType
<1> QED BY <1>1, <1>2, <1>3, <1>4

\* What Reconcile and PlaceDuringDecision have read: the statuses are those of
\* the placement before the step, the groups those of the placement after it.
LEMMA ReconcileReads ==
    ASSUME TypeOK, Reconcile
    PROVE  \E reads \in Reads : /\ Decide(reads) /\ reads[1] = placed /\ reads[3] = placed'
                               /\ \A i \in 1..3 : reads[i] \in {placed, placed'}
<1> DEFINE reads == [i \in 1..3 |-> placed]
<1>1. reads \in Reads BY DEF TypeOK, Reads
<1>2. Decide(reads) /\ placed' = placed BY DEF Reconcile
<1>3. reads[1] = placed /\ reads[3] = placed /\ \A i \in 1..3 : reads[i] = placed OBVIOUS
<1> HIDE DEF reads
<1> QED BY <1>1, <1>2, <1>3

LEMMA MovedType ==
    ASSUME TypeOK, NEW c \in Clusters
    PROVE  Moved(c) \in SUBSET Clusters
BY DEF TypeOK, Moved

LEMMA PlaceReads ==
    ASSUME TypeOK, NEW c \in Clusters, PlaceDuringDecision(c)
    PROVE  \E reads \in Reads : /\ Decide(reads) /\ reads[1] = placed /\ reads[3] = placed'
                               /\ \A i \in 1..3 : reads[i] \in {placed, placed'}
<1>1. PICK k \in 2..3 : Decide([i \in 1..3 |-> IF i < k THEN placed ELSE placed'])
  BY DEF PlaceDuringDecision
<1> DEFINE reads == [i \in 1..3 |-> IF i < k THEN placed ELSE placed']
<1>2. placed \in SUBSET Clusters /\ placed' \in SUBSET Clusters
  BY MovedType DEF TypeOK, PlaceDuringDecision
<1>3. reads \in Reads BY <1>2 DEF Reads
<1>4. Decide(reads) BY <1>1
<1>5. reads[1] = placed /\ reads[3] = placed' /\ \A i \in 1..3 : reads[i] \in {placed, placed'}
  OBVIOUS
<1> HIDE DEF reads
<1> QED BY <1>3, <1>4, <1>5

\* A report changes one status, and the strategy is the same for good.
LEMMA ReportType ==
    ASSUME TypeOK, NEW c \in Clusters, NEW s \in Statuses, Report(c, s)
    PROVE  /\ strategy' \in Strategies /\ Horizon' = Horizon
           /\ placed' \subseteq Clusters
           /\ status' \in [Clusters -> Statuses] /\ age' \in [Clusters -> 0..Horizon]
           /\ dirty' \in BOOLEAN /\ timer' \in 0..Horizon \cup {None}
<1>1. 0 \in 0..Horizon BY StrategyType
<1>2. Horizon' = Horizon BY DEF Report, Horizon, ProgressDeadline, MinSuccessTime
<1> QED BY <1>1, <1>2 DEF Report, TypeOK

\* Every other step for one cluster.
LEMMA OtherTypes ==
    ASSUME TypeOK, NEW c \in Clusters,
           \/ Succeed(c) \/ Fail(c) \/ Recover(c) \/ Skip(c) \/ TimeOut(c)
           \/ Drift(c) \/ Place(c)
    PROVE  TypeOK'
<1>1. /\ MaxChanges \in Nat /\ MaxDrifts \in Nat
      /\ changes \in 0..MaxChanges /\ drifts \in 0..MaxDrifts
  BY ConstantsOK DEF TypeOK
<1>2. {"None", "ToApply", "Progressing", "Succeeded", "Failed", "TimeOut", "Skip"} = Statuses
  BY DEF Statuses
<1>3. Changed => changes' \in 0..MaxChanges /\ drifts' \in 0..MaxDrifts
  BY <1>1 DEF Changed
<1>4. CASE Succeed(c)
  <2>1. Report(c, "Succeeded") /\ UNCHANGED <<changes, drifts>> BY <1>4 DEF Succeed, env
  <2> QED BY <1>1, <1>2, <2>1, ReportType DEF TypeOK
<1>5. CASE Fail(c)
  <2>1. Report(c, "Failed") /\ Changed BY <1>5 DEF Fail
  <2> QED BY <1>2, <1>3, <2>1, ReportType DEF TypeOK
<1>6. CASE Recover(c)
  <2>1. Report(c, "Succeeded") /\ Changed BY <1>6 DEF Recover
  <2> QED BY <1>2, <1>3, <2>1, ReportType DEF TypeOK
<1>7. CASE Skip(c)
  <2>1. Report(c, "Skip") /\ Changed BY <1>7 DEF Skip
  <2> QED BY <1>2, <1>3, <2>1, ReportType DEF TypeOK
<1>8. CASE TimeOut(c)
  <2>1. Report(c, "TimeOut") /\ UNCHANGED <<changes, drifts>> BY <1>8 DEF TimeOut, env
  <2> QED BY <1>1, <1>2, <2>1, ReportType DEF TypeOK
<1>9. CASE Drift(c)
  <2>1. Report(c, "ToApply") /\ changes' = changes /\ drifts' \in 0..MaxDrifts
    BY <1>1, <1>9 DEF Drift
  <2> QED BY <1>1, <1>2, <2>1, ReportType DEF TypeOK
<1>10. CASE Place(c)
  <2>1. Horizon' = Horizon BY <1>10 DEF Place, Horizon, ProgressDeadline, MinSuccessTime
  <2>2. placed' \subseteq Clusters BY <1>10, MovedType DEF Place
  <2> QED BY <1>3, <1>10, <2>1, <2>2 DEF Place, TypeOK
<1> QED BY <1>4, <1>5, <1>6, <1>7, <1>8, <1>9, <1>10

LEMMA ReviseType ==
    ASSUME TypeOK, Revise PROVE TypeOK'
<1>1. Horizon' = Horizon BY DEF Revise, Horizon, ProgressDeadline, MinSuccessTime
<1>2. status' \in [Clusters -> Statuses] BY DEF Revise, TypeOK, Statuses
<1>3. age' \in [Clusters -> 0..Horizon]
  <2>1. 0 \in 0..Horizon BY StrategyType
  <2> QED BY <2>1 DEF Revise, TypeOK
<1>4. changes' \in 0..MaxChanges /\ drifts' \in 0..MaxDrifts
  BY ConstantsOK DEF Revise, Changed, TypeOK
<1> QED BY <1>1, <1>2, <1>3, <1>4 DEF Revise, TypeOK

LEMMA TickType ==
    ASSUME TypeOK, Tick PROVE TypeOK'
<1>1. Horizon' = Horizon /\ Horizon \in Nat
  BY StrategyType DEF Tick, Horizon, ProgressDeadline, MinSuccessTime
<1>2. age' \in [Clusters -> 0..Horizon]
  <2>1. \A a \in 0..Horizon : a < Horizon => a + 1 \in 0..Horizon BY <1>1
  <2> QED BY <2>1 DEF Tick, TypeOK
<1>3. timer' \in 0..Horizon \cup {None}
  <2>1. \A t \in 0..Horizon : t # 0 => t - 1 \in 0..Horizon BY <1>1
  <2> QED BY <2>1 DEF Tick, TypeOK
<1> QED BY <1>1, <1>2, <1>3 DEF Tick, TypeOK, env

LEMMA TypeInit == Init => TypeOK
<1> SUFFICES ASSUME Init PROVE TypeOK OBVIOUS
<1>1. strategy \in RolloutStrategies /\ strategy \in Strategies
  BY ConstantsOK DEF Init
<1>2. 0 \in 0..Horizon
  BY <1>1, ConstantsOK DEF RolloutStrategies, Horizon, ProgressDeadline, MinSuccessTime
<1>3. "None" \in Statuses BY DEF Statuses
<1>4. 0 \in 0..MaxChanges /\ 0 \in 0..MaxDrifts BY ConstantsOK
<1> QED BY <1>1, <1>2, <1>3, <1>4 DEF Init, TypeOK

LEMMA TypeStep == TypeOK /\ [Next]_vars => TypeOK'
<1> SUFFICES ASSUME TypeOK, [Next]_vars PROVE TypeOK' OBVIOUS
<1>1. CASE UNCHANGED vars
  BY <1>1 DEF vars, env, TypeOK, Horizon, ProgressDeadline, MinSuccessTime
<1>2. CASE Reconcile
  <2>1. PICK reads \in Reads : Decide(reads) BY <1>2, ReconcileReads
  <2>2. UNCHANGED <<placed, changes, drifts>> /\ dirty' \in BOOLEAN
    BY <1>2 DEF Reconcile, env
  <2> QED BY <2>1, <2>2, DecideType DEF TypeOK
<1>3. ASSUME NEW c \in Clusters, PlaceDuringDecision(c) PROVE TypeOK'
  <2>1. PICK reads \in Reads : Decide(reads) BY <1>3, PlaceReads
  <2>2. placed' \subseteq Clusters /\ dirty' \in BOOLEAN
    BY <1>3, MovedType DEF PlaceDuringDecision
  <2>3. changes' \in 0..MaxChanges /\ drifts' \in 0..MaxDrifts
    BY <1>3, ConstantsOK DEF PlaceDuringDecision, Changed, TypeOK
  <2> QED BY <2>1, <2>2, <2>3, DecideType DEF TypeOK
<1> QED BY <1>1, <1>2, <1>3, OtherTypes, ReviseType, TickType DEF Next

\* Types, and with them that a recheck is asked for neither in the past nor later
\* than any age that matters.
THEOREM TypeCorrect == Spec => []TypeOK
BY TypeInit, TypeStep, PTL DEF Spec

-----------------------------------------------------------------------------
(* What a step that starts the workload on a cluster has decided.          *)

\* Only decisions start the workload, and only on clusters they roll out to.
LEMMA OnlyDecisionsStart ==
    ASSUME TypeOK, [Next]_vars, NEW c \in Clusters, Starts(c)
    PROVE  \E reads \in Reads : /\ Decide(reads) /\ reads[1] = placed /\ reads[3] = placed'
                               /\ \A i \in 1..3 : reads[i] \in {placed, placed'}
<1>1. status'[c] # status[c] /\ status[c] \in {"None", "ToApply"} /\ status'[c] = "Progressing"
  BY DEF Starts
<1>2. ASSUME NEW d, NEW s, Report(d, s), s # "Progressing" PROVE FALSE
  <2>1. status'[c] = IF c = d THEN s ELSE status[c] BY <1>2 DEF Report, TypeOK
  <2> QED BY <1>1, <1>2, <2>1
<1>3. ASSUME NEW d \in Clusters,
             \/ Succeed(d) \/ Fail(d) \/ Recover(d) \/ Skip(d) \/ TimeOut(d) \/ Drift(d)
      PROVE  FALSE
  BY <1>2, <1>3 DEF Succeed, Fail, Recover, Skip, TimeOut, Drift
<1>4. ASSUME NEW d \in Clusters, Place(d) PROVE FALSE BY <1>1, <1>4 DEF Place
<1>5. ~Tick BY <1>1 DEF Tick
<1>6. ~Revise BY <1>1 DEF Revise
<1>7. ~UNCHANGED vars BY <1>1 DEF vars
<1> QED BY <1>3, <1>4, <1>5, <1>6, <1>7, ReconcileReads, PlaceReads DEF Next

LEMMA StartsInRollout ==
    ASSUME NEW c \in Clusters, Starts(c), NEW reads, Decide(reads)
    PROVE  c \in GetRolloutCluster(reads).rollout
BY DEF Starts, Decide, Starting

LEMMA DecideStatus ==
    ASSUME NEW reads, Decide(reads), NEW c \in Clusters
    PROVE  status'[c] = IF Starting(c, GetRolloutCluster(reads)) THEN "Progressing"
                        ELSE IF c \in Removed(reads[1]) THEN "None" ELSE status[c]
BY DEF Decide

LEMMA StayingIsRead ==
    ASSUME NEW reads \in Reads, \A i \in 1..3 : reads[i] \in {placed, placed'},
           NEW c \in Staying
    PROVE  c \in Clusters /\ \A i \in 1..3 : c \in reads[i]
<1>1. \A i \in 1..3 : c \in reads[i] BY DEF Staying
<1> QED BY <1>1 DEF Reads

-----------------------------------------------------------------------------
(* RolloutProgressive.                                                     *)

LEMMA ProgressiveDecision ==
    ASSUME TypeOK, Progressive, NEW reads \in Reads,
           NEW rollout, rollout = GetRolloutCluster(reads).rollout
    PROVE  LET existing == Existing(reads[1])
               max      == RolloutSize(MaxFailures, Cardinality(reads[1]), 0)
               size     == RolloutSize(MaxConcurrency, Cardinality(reads[3]), Cardinality(reads[3]))
           IN /\ rollout \subseteq Clusters
              /\ \A c \in rollout \cap existing : Continued(c, existing, max, MinSuccessTime)
              /\ \A c \in rollout \ existing : ~Breached(existing, max)
              /\ \A c \in rollout, d \in existing :
                    (c \in existing => d < c) /\ Continued(d, existing, max, MinSuccessTime)
                       => d \in rollout
              /\ reads[3] # {} => IsFiniteSet(rollout) /\ Cardinality(rollout) <= size
<1> DEFINE existing == Existing(reads[1])
           max      == RolloutSize(MaxFailures, Cardinality(reads[1]), 0)
           size     == RolloutSize(MaxConcurrency, Cardinality(reads[3]), Cardinality(reads[3]))
<1>1. InMandatory(reads[2]) = {} /\ Rest(reads[3]) = reads[3]
  BY DEF Progressive, InMandatory, Rest
<1>2. GetRolloutCluster(reads) = PerCluster(existing, reads[3], size, max, MinSuccessTime)
  BY <1>1, Decision DEF Progressive
<1>3. /\ existing \in SUBSET Clusters /\ reads[3] \in SUBSET Clusters
      /\ Cardinality(reads[3]) \in Nat
  BY ReadsType, ExistingStatuses
<1>4. size \in Nat /\ (Cardinality(reads[3]) > 0 => size > 0)
  BY <1>3, StrategyType, RolloutSizeRange
<1>5. reads[3] # {} => Cardinality(reads[3]) > 0
  <2>1. IsFiniteSet(reads[3]) BY <1>3, ConstantsOK, FS_Subset
  <2> QED BY <1>3, <2>1, FS_EmptySet
<1> HIDE DEF existing, max, size
<1>6. rollout = PerCluster(existing, reads[3], size, max, MinSuccessTime).rollout
  BY <1>2
<1>7. /\ rollout \subseteq Clusters
      /\ \A c \in rollout \cap existing : Continued(c, existing, max, MinSuccessTime)
  BY <1>3, <1>4, <1>6, PerClusterRollout
<1>8. \A c \in rollout \ existing : ~Breached(existing, max)
  <2>1. ASSUME NEW clusters \in SUBSET Clusters, NEW c \in rollout \ existing,
               rollout = PerCluster(existing, clusters, size, max, MinSuccessTime).rollout
        PROVE  ~Breached(existing, max)
    BY <1>3, <1>4, <2>1, PerClusterRollout
  <2> QED BY <1>3, <1>6, <2>1
<1>9. \A c \in rollout, d \in existing :
         (c \in existing => d < c) /\ Continued(d, existing, max, MinSuccessTime)
            => d \in rollout
  BY <1>3, <1>4, <1>6, PerClusterRollout
<1>10. size > 0 => IsFiniteSet(rollout) /\ Cardinality(rollout) <= size
  BY <1>3, <1>4, <1>6, PerClusterRollout
<1> QED BY <1>4, <1>5, <1>7, <1>8, <1>9, <1>10 DEF existing, max, size

LEMMA BreachedGrows ==
    ASSUME NEW T \in SUBSET Clusters, NEW S \in SUBSET T, NEW max \in Nat, ~Breached(T, max)
    PROVE  ~Breached(S, max)
<1> DEFINE FS == {c \in S : Failing(c)}
           FT == {c \in T : Failing(c)}
<1>1. FS \in SUBSET FT /\ FT \in SUBSET Clusters OBVIOUS
<1>2. ~(Cardinality(FT) > max) BY DEF Breached
<1> HIDE DEF FS, FT
<1>3. IsFiniteSet(FT) BY <1>1, ConstantsOK, FS_Subset
<1>4. IsFiniteSet(FS) /\ Cardinality(FS) <= Cardinality(FT)
  BY <1>1, <1>3, FS_Subset
<1>5. Cardinality(FS) \in Nat /\ Cardinality(FT) \in Nat
  BY <1>3, <1>4, FS_CardinalityType
<1>6. ~(Cardinality(FS) > max) BY <1>2, <1>4, <1>5
<1> QED BY <1>6 DEF Breached, FS

LEMMA MaxType ==
    ASSUME TypeOK, NEW reads \in Reads
    PROVE  RolloutSize(MaxFailures, Cardinality(reads[1]), 0) \in Nat
BY ReadsType, StrategyType, RolloutSizeRange

\* The handler allows no more failures than the user of the API.
LEMMA AllowedBounds ==
    ASSUME TypeOK, NEW S \in SUBSET Clusters
    PROVE  /\ RolloutSize(MaxFailures, Cardinality(S), 0) <= Allowed(Cardinality(S))
           /\ Allowed(Cardinality(S)) \in Int
<1>1. Cardinality(S) \in Nat BY ConstantsOK, FS_Subset, FS_CardinalityType
<1>2. MaxFailures \in Thresholds BY StrategyType
<1>3. MaxFailures.n \in Nat BY <1>2 DEF Thresholds
<1>4. Allowed(Cardinality(S)) \in Int
  <2>1. MaxFailures.n * Cardinality(S) \in Nat BY <1>1, <1>3
  <2>2. \A p \in Nat : (p + 99) \div 100 \in Int OBVIOUS
  <2> QED BY <1>3, <2>1, <2>2 DEF Allowed
<1> QED BY <1>1, <1>2, <1>4, RolloutSizeRange DEF Allowed

\* When a decision starts the workload on cluster d, it starts it on every cluster
\* before d that has the old one.
LEMMA DecideInNameOrder ==
    ASSUME TypeOK, Progressive, InNameOrder, drifts = 0,
           NEW reads \in Reads, Decide(reads)
    PROVE  \A c, d \in Clusters : c < d /\ status'[c] = "ToApply" =>
               status'[d] \in {"None", "ToApply", "Skip"}
<1> DEFINE rollout  == GetRolloutCluster(reads).rollout
           existing == Existing(reads[1])
           max      == RolloutSize(MaxFailures, Cardinality(reads[1]), 0)
<1> SUFFICES ASSUME NEW c \in Clusters, NEW d \in Clusters, c < d, status'[c] = "ToApply",
                    status'[d] \notin {"None", "ToApply", "Skip"}
             PROVE  FALSE
  OBVIOUS
<1>1. status[c] = "ToApply" /\ c \notin rollout /\ c \notin Removed(reads[1])
  BY DecideStatus DEF Starting
<1>2. c \in existing
  BY <1>1, ReadsType DEF Removed, Existing
<1>3. status[d] \in {"None", "ToApply", "Skip"}
  BY <1>1 DEF InNameOrder
<1>4. d \in rollout /\ status[d] \in {"None", "ToApply"}
  BY <1>3, DecideStatus DEF Starting
<1>5. existing \in SUBSET Clusters /\ max \in Nat
  BY MaxType, ReadsType, ExistingStatuses
<1>6. /\ \A e \in rollout \cap existing : Continued(e, existing, max, MinSuccessTime)
      /\ \A e \in rollout \ existing : ~Breached(existing, max)
      /\ (d \in existing => c < d) /\ Continued(c, existing, max, MinSuccessTime) => c \in rollout
  BY <1>2, <1>4, ProgressiveDecision
<1> HIDE DEF rollout, existing, max
<1>7. InRollout(c, MinSuccessTime) BY <1>1 DEF InRollout
<1>8. ~Breached({e \in existing : e < c}, max)
  <2>1. CASE d \in existing
    <3>1. ~Breached({e \in existing : e < d}, max)
      <4>1. d \in existing /\ status[d] = "ToApply"
        BY <1>4, <2>1 DEF existing, Existing
      <4> QED BY <1>4, <1>6, <4>1 DEF Continued
    <3>2. {e \in existing : e < c} \in SUBSET {e \in existing : e < d}
      <4>1. \A e \in existing : e < c => e < d BY <1>5, ConstantsOK
      <4> QED BY <4>1
    <3>3. {e \in existing : e < d} \in SUBSET Clusters BY <1>5
    <3> QED BY <1>5, <3>1, <3>2, <3>3, BreachedGrows
  <2>2. CASE d \notin existing
    <3>1. ~Breached(existing, max) BY <1>4, <1>6, <2>2
    <3>2. {e \in existing : e < c} \in SUBSET existing OBVIOUS
    <3> QED BY <1>5, <3>1, <3>2, BreachedGrows
  <2> QED BY <2>1, <2>2
<1> QED BY <1>1, <1>6, <1>7, <1>8 DEF Continued

LEMMA NameOrderStep == TypeOK /\ InNameOrder /\ [Next]_vars => InNameOrder'
<1> SUFFICES ASSUME TypeOK, InNameOrder, [Next]_vars, Progressive', drifts' = 0
             PROVE  \A c, d \in Clusters : c < d /\ status'[c] = "ToApply" =>
                        status'[d] \in {"None", "ToApply", "Skip"}
  BY DEF InNameOrder
<1>1. Progressive
  BY DEF Progressive, Type, Mandatory, Next, Reconcile, Decide, Revise, Tick, Report, Succeed,
         Fail, Recover, Skip, TimeOut, Drift, Place, PlaceDuringDecision, vars
<1>2. drifts = 0
  <2>1. drifts' = drifts \/ drifts' = drifts + 1
    BY DEF Next, Reconcile, Revise, Tick, Succeed, Fail, Recover, Skip, TimeOut, Drift, Place,
           PlaceDuringDecision, Changed, env, vars
  <2>2. drifts \in Nat BY ConstantsOK DEF TypeOK
  <2> QED BY <2>1, <2>2
<1>3. \A c, d \in Clusters : c < d /\ status[c] = "ToApply" =>
                              status[d] \in {"None", "ToApply", "Skip"}
  BY <1>1, <1>2 DEF InNameOrder
<1>4. ASSUME NEW reads \in Reads, Decide(reads)
      PROVE  \A c, d \in Clusters : c < d /\ status'[c] = "ToApply" =>
                 status'[d] \in {"None", "ToApply", "Skip"}
  BY <1>1, <1>2, <1>4, DecideInNameOrder
<1>5. ASSUME NEW e \in Clusters, NEW s, Report(e, s), s # "ToApply",
             status[e] \in {"None", "ToApply", "Skip"} => s = "Skip"
      PROVE  \A c, d \in Clusters : c < d /\ status'[c] = "ToApply" =>
                 status'[d] \in {"None", "ToApply", "Skip"}
  <2>1. \A c \in Clusters : status'[c] = IF c = e THEN s ELSE status[c]
    BY <1>5 DEF Report, TypeOK
  <2> QED BY <1>3, <1>5, <2>1
<1>6. ASSUME NEW e \in Clusters,
             Succeed(e) \/ Fail(e) \/ Recover(e) \/ Skip(e) \/ TimeOut(e)
      PROVE  \A c, d \in Clusters : c < d /\ status'[c] = "ToApply" =>
                 status'[d] \in {"None", "ToApply", "Skip"}
  <2>1. \/ status[e] = "Progressing" /\ Report(e, "Succeeded")
        \/ status[e] \in {"Progressing", "Succeeded"} /\ Report(e, "Failed")
        \/ status[e] \in {"Failed", "TimeOut"} /\ Report(e, "Succeeded")
        \/ Report(e, "Skip")
        \/ status[e] \in {"Progressing", "Failed"} /\ Report(e, "TimeOut")
    BY <1>6 DEF Succeed, Fail, Recover, Skip, TimeOut, TimesOut
  <2> QED BY <1>5, <2>1
<1>7. ASSUME NEW e \in Clusters, Drift(e) PROVE FALSE
  <2>1. drifts' = drifts + 1 BY <1>7 DEF Drift
  <2> QED BY <1>2, <2>1
<1>8. CASE Revise
  <2>1. \A c \in Clusters : status'[c] = IF status[c] \in {"None", "Skip"} THEN status[c]
                                         ELSE "ToApply"
    BY <1>8 DEF Revise
  <2> QED BY <2>1
<1>9. CASE Tick \/ (\E e \in Clusters : Place(e)) \/ UNCHANGED vars
  <2>1. status' = status BY <1>9 DEF Tick, Place, vars
  <2> QED BY <1>3, <2>1
<1> QED BY <1>4, <1>6, <1>7, <1>8, <1>9, ReconcileReads, PlaceReads DEF Next

LEMMA NameOrderInit == Init => InNameOrder
BY DEF Init, InNameOrder

\* Clusters get a changed workload in the order of their names.
THEOREM RenewsInNameOrder == Spec => []InNameOrder
BY TypeInit, TypeStep, NameOrderInit, NameOrderStep, PTL DEF Spec

\* Every cluster at work, or failing, comes before one that a decision starts the
\* changed workload on.
LEMMA StartedIsLast ==
    ASSUME TypeOK, InNameOrder, Progressive, drifts = 0, NEW read \in SUBSET Clusters,
           NEW s \in Clusters, Starts(s),
           NEW d \in Clusters, status[d] \in {"Progressing", "Failed", "TimeOut"}
    PROVE  s \in Existing(read) => d < s
<1> SUFFICES ASSUME s \in Existing(read), ~(d < s) PROVE FALSE
  OBVIOUS
<1>1. status[s] = "ToApply" BY DEF Existing, Starts
<1>2. s \in Nat /\ d \in Nat BY ConstantsOK
<1>3. s < d
  <2>1. s # d BY <1>1
  <2> QED BY <1>2, <2>1
<1> QED BY <1>1, <1>3 DEF InNameOrder

LEMMA ConcurrencyStep ==
    ASSUME TypeOK, InNameOrder, [Next]_vars, Progressive, drifts = 0, Started # {}
    PROVE  Cardinality(Started \cup {c \in Staying : InFlight(c)})
             <= RolloutSize(MaxConcurrency, Cardinality(placed'), Cardinality(placed'))
<1> DEFINE busy == Started \cup {c \in Staying : InFlight(c)}
<1>1. PICK s \in Staying : Starts(s) BY DEF Started
<1>2. s \in Clusters BY <1>1 DEF Staying, TypeOK
<1>3. PICK reads \in Reads : /\ Decide(reads) /\ reads[1] = placed /\ reads[3] = placed'
                            /\ \A i \in 1..3 : reads[i] \in {placed, placed'}
  BY <1>1, <1>2, OnlyDecisionsStart
<1> DEFINE rollout  == GetRolloutCluster(reads).rollout
           existing == Existing(placed)
           max      == RolloutSize(MaxFailures, Cardinality(placed), 0)
<1>4. \A c \in Staying : c \in Clusters /\ c \in placed /\ c \in placed'
  BY <1>3, StayingIsRead DEF Staying
<1>5. placed' # {} BY <1>1, <1>4
<1>6. /\ \A c \in rollout, d \in existing :
            (c \in existing => d < c) /\ Continued(d, existing, max, MinSuccessTime)
               => d \in rollout
      /\ IsFiniteSet(rollout)
      /\ Cardinality(rollout)
            <= RolloutSize(MaxConcurrency, Cardinality(placed'), Cardinality(placed'))
      /\ rollout \subseteq Clusters
  BY <1>3, <1>5, ProgressiveDecision
<1>7. \A c \in Started : c \in rollout
  BY <1>3, <1>4, StartsInRollout DEF Started
<1>8. ASSUME NEW d \in Staying, InFlight(d) PROVE d \in rollout
  <2>1. d \in Clusters /\ status[d] = "Progressing" /\ d \in existing
    BY <1>4, <1>8 DEF InFlight, Existing
  <2>2. Continued(d, existing, max, MinSuccessTime)
    BY <1>8, <2>1 DEF Continued, InFlight, InRollout
  <2>3. s \in existing => d < s
    <3>1. placed \in SUBSET Clusters BY DEF TypeOK
    <3> QED BY <1>1, <1>2, <2>1, <3>1, StartedIsLast
  <2>4. s \in rollout BY <1>1, <1>2, <1>3, StartsInRollout
  <2> HIDE DEF rollout, existing, max
  <2> QED BY <1>6, <2>1, <2>2, <2>3, <2>4
<1>9. busy \subseteq rollout BY <1>7, <1>8
<1> HIDE DEF busy, rollout
<1>10. Cardinality(busy) <= Cardinality(rollout) /\ IsFiniteSet(busy)
  BY <1>6, <1>9, FS_Subset
<1>11. Cardinality(busy) \in Nat /\ Cardinality(rollout) \in Nat
  BY <1>6, <1>10, FS_CardinalityType
<1>12. RolloutSize(MaxConcurrency, Cardinality(placed'), Cardinality(placed')) \in Nat
  <2>1. Cardinality(placed') \in Nat BY <1>3, ReadsType
  <2> QED BY <2>1, StrategyType, RolloutSizeRange
<1>13. Cardinality(busy)
         <= RolloutSize(MaxConcurrency, Cardinality(placed'), Cardinality(placed'))
  BY <1>6, <1>10, <1>11, <1>12
<1> QED BY <1>13 DEF busy

\* "MaxConcurrency is the max number of clusters to deploy workload
\* concurrently": it is never exceeded, whatever the statuses and their ages, also
\* when the placement changes while the decision is taken.
THEOREM ConcurrencyIsLimited == Spec => WithinConcurrency
<1>1. TypeOK /\ InNameOrder /\ [Next]_vars =>
        [Progressive /\ drifts = 0 /\ Started # {} =>
          Cardinality(Started \cup {c \in Staying : InFlight(c)})
            <= RolloutSize(MaxConcurrency, Cardinality(placed'), Cardinality(placed'))]_vars
  BY ConcurrencyStep
<1> QED
  BY <1>1, TypeInit, TypeStep, NameOrderInit, NameOrderStep, PTL DEF Spec, WithinConcurrency

LEMMA BreachStep ==
    ASSUME TypeOK, InNameOrder, [Next]_vars, Progressive, drifts = 0, Started # {}
    PROVE  ~TooMany(Staying, placed)
<1> DEFINE failing == {c \in Staying : Failing(c)}
<1>1. PICK s \in Staying : Starts(s) BY DEF Started
<1>2. s \in Clusters BY <1>1 DEF Staying, TypeOK
<1>3. PICK reads \in Reads : /\ Decide(reads) /\ reads[1] = placed /\ reads[3] = placed'
                            /\ \A i \in 1..3 : reads[i] \in {placed, placed'}
  BY <1>1, <1>2, OnlyDecisionsStart
<1> DEFINE rollout  == GetRolloutCluster(reads).rollout
           existing == Existing(placed)
           max      == RolloutSize(MaxFailures, Cardinality(placed), 0)
           before   == {d \in existing : d < s}
<1>4. \A c \in Staying : c \in Clusters /\ c \in placed
  BY <1>3, StayingIsRead DEF Staying
<1>5. existing \in SUBSET Clusters /\ placed \in SUBSET Clusters
  BY ExistingStatuses DEF TypeOK
<1>6. max \in Nat BY <1>3, MaxType
<1>7. s \in rollout BY <1>1, <1>2, <1>3, StartsInRollout
<1>8. /\ s \in existing => Continued(s, existing, max, MinSuccessTime)
      /\ s \notin existing => ~Breached(existing, max)
  BY <1>3, <1>7, ProgressiveDecision
<1>9. \A d \in failing : d \in existing /\ (s \in existing => d < s)
  <2> SUFFICES ASSUME NEW d \in Staying, Failing(d)
               PROVE  d \in existing /\ (s \in existing => d < s)
    OBVIOUS
  <2>1. status[d] \in {"Progressing", "Failed", "TimeOut"} BY DEF Failing, TimesOut
  <2>2. d \in existing BY <1>4, <2>1 DEF Existing
  <2> QED BY <1>1, <1>2, <1>4, <1>5, <2>1, <2>2, StartedIsLast
<1>10. PICK S \in SUBSET existing : failing \subseteq S /\ ~Breached(S, max)
  <2>1. CASE s \in existing
    <3>1. status[s] = "ToApply" BY <1>1, <2>1 DEF Starts, Existing
    <3>2. ~Breached(before, max) BY <1>8, <2>1, <3>1 DEF Continued
    <3> QED BY <1>9, <2>1, <3>2
  <2>2. CASE s \notin existing
    <3>1. ~Breached(existing, max) BY <1>8, <2>2
    <3> HIDE DEF existing, max
    <3> QED BY <1>9, <3>1
  <2> QED BY <2>1, <2>2
<1> HIDE DEF existing, max
<1>11. ~(Cardinality({c \in S : Failing(c)}) > max) BY <1>10 DEF Breached
<1>12. failing \in SUBSET {c \in S : Failing(c)} BY <1>10
<1>13. IsFiniteSet({c \in S : Failing(c)})
  <2>1. {c \in S : Failing(c)} \in SUBSET Clusters BY <1>5, <1>10
  <2> QED BY <2>1, ConstantsOK, FS_Subset
<1> HIDE DEF failing
<1>14. /\ IsFiniteSet(failing)
       /\ Cardinality(failing) <= Cardinality({c \in S : Failing(c)})
  BY <1>12, <1>13, FS_Subset
<1>15. Cardinality(failing) \in Nat /\ Cardinality({c \in S : Failing(c)}) \in Nat
  BY <1>13, <1>14, FS_CardinalityType
<1>16. max <= Allowed(Cardinality(placed)) /\ Allowed(Cardinality(placed)) \in Int
  BY <1>5, AllowedBounds DEF max
<1>17. ~(Cardinality(failing) > Allowed(Cardinality(placed)))
  BY <1>6, <1>11, <1>14, <1>15, <1>16
<1> QED BY <1>17 DEF TooMany, failing

\* "Once the MaxFailures is breached, the rollout will stop": a step that starts
\* the workload anywhere leaves no more failures than the user allows.
THEOREM BreachStops == Spec => StopsWhenBreached
<1>1. TypeOK /\ InNameOrder /\ [Next]_vars =>
        [Progressive /\ drifts = 0 /\ Started # {} => ~TooMany(Staying, placed)]_vars
  BY BreachStep
<1> QED
  BY <1>1, TypeInit, TypeStep, NameOrderInit, NameOrderStep, PTL DEF Spec, StopsWhenBreached

-----------------------------------------------------------------------------
(* Groups.                                                                 *)

\* Nobody but the handler applies the deadline.
NoTimeOuts == ~ReportsTimeOut => \A c \in Clusters : status[c] # "TimeOut"

LEMMA NoTimeOutsInit == Init => NoTimeOuts
BY DEF Init, NoTimeOuts

LEMMA NoTimeOutsStep == TypeOK /\ NoTimeOuts /\ [Next]_vars => NoTimeOuts'
<1> SUFFICES ASSUME TypeOK, NoTimeOuts, [Next]_vars, ~ReportsTimeOut, NEW c \in Clusters
             PROVE  status'[c] # "TimeOut"
  BY DEF NoTimeOuts
<1>1. status[c] # "TimeOut" BY DEF NoTimeOuts
<1>2. ASSUME NEW d \in Clusters, NEW s, Report(d, s), s # "TimeOut"
      PROVE  status'[c] # "TimeOut"
  BY <1>1, <1>2 DEF Report, TypeOK
<1>3. ASSUME NEW reads \in Reads, Decide(reads) PROVE status'[c] # "TimeOut"
  BY <1>1, <1>3, DecideStatus
<1>4. CASE Revise BY <1>1, <1>4 DEF Revise
<1>5. CASE Tick \/ (\E d \in Clusters : Place(d)) \/ UNCHANGED vars
  BY <1>1, <1>5 DEF Tick, Place, vars
<1>6. ASSUME NEW d \in Clusters,
             Succeed(d) \/ Fail(d) \/ Recover(d) \/ Skip(d) \/ TimeOut(d) \/ Drift(d)
      PROVE  status'[c] # "TimeOut"
  BY <1>2, <1>6 DEF Succeed, Fail, Recover, Skip, TimeOut, Drift
<1> QED BY <1>3, <1>4, <1>5, <1>6, ReconcileReads, PlaceReads DEF Next

LEMMA FiniteParts ==
    ASSUME NEW S \in SUBSET Clusters
    PROVE  IsFiniteSet(S) /\ Cardinality(S) \in Nat /\ (Cardinality(S) = 0 <=> S = {})
<1>1. IsFiniteSet(S) BY ConstantsOK, FS_Subset
<1> QED BY <1>1, FS_CardinalityType, FS_EmptySet

\* When progressivePerGroup, with no failure tolerated, has nothing to roll out and
\* finds no timeout, every cluster is done.
LEMMA FinishedIsDone ==
    ASSUME TypeOK, NoTimeOuts, ~ReportsTimeOut,
           NEW existing \in SUBSET Clusters, \A c \in existing : status[c] # "None",
           NEW clusters \in SUBSET Clusters,
           ~Unfinished(PerGroup(existing, clusters, NoFailures, MinSuccessTime))
    PROVE  \A d \in clusters : Done(d)
<1> DEFINE begun  == Begun(existing)
           listed == Listed(existing, MinSuccessTime)
           stops  == Stops(existing, clusters, NoFailures, MinSuccessTime)
           seen   == Seen(existing, clusters, NoFailures, MinSuccessTime)
<1>1. listed = {} /\ seen \ begun = {} /\ \A c \in begun : ~TimesOut(c)
  <2>1. listed \cup (seen \ begun) = {} /\ {c \in begun : TimesOut(c)} = {}
    BY PerGroupIs DEF Unfinished
  <2> QED BY <2>1
<1>2. begun \subseteq existing /\ \A c \in begun : status[c] \notin {"None", "ToApply"}
  BY DEF Begun
<1>3. \A c \in begun : ~InRollout(c, MinSuccessTime) BY <1>1 DEF Listed
<1>4. \A c \in begun : Done(c) /\ ~Failing(c)
  <2> SUFFICES ASSUME NEW c \in begun PROVE Done(c) /\ ~Failing(c) OBVIOUS
  <2>1. c \in Clusters /\ ~TimesOut(c) /\ ~InRollout(c, MinSuccessTime) BY <1>1, <1>2, <1>3
  <2>2. status[c] \in Statuses /\ status[c] \notin {"None", "ToApply", "TimeOut"}
    BY <1>2, <2>1 DEF TypeOK, NoTimeOuts
  <2>3. age[c] \in Int /\ MinSuccessTime \in Int BY <2>1, StrategyType DEF TypeOK
  <2>4. status[c] \in {"Succeeded", "Skip"} BY <2>1, <2>2 DEF InRollout, Statuses
  <2> QED BY <2>1, <2>3, <2>4 DEF InRollout, Done, Failing
<1>5. \A S : Failures(existing, S) = {} BY <1>4 DEF Failures
<1>6. stops = {}
  <2> SUFFICES ASSUME stops # {} PROVE FALSE OBVIOUS
  <2> DEFINE k == Lowest(stops)
  <2>1. stops \in SUBSET Nat BY ConstantsOK DEF Stops
  <2>2. k \in stops BY <2>1, LeastExists
  <2>3. seen = Through(clusters, k) BY DEF Seen
  <2>4. Open(existing, clusters, MinSuccessTime, k) \/ BreachedIn(existing, clusters, NoFailures, k)
    BY <2>2 DEF Stops
  <2>5. Cardinality({}) = 0 BY FS_EmptySet
  <2>6. ~Open(existing, clusters, MinSuccessTime, k)
    <3>1. listed \cup (Through(clusters, k) \ begun) = {} BY <1>1, <2>3
    <3> QED BY <1>5, <2>5, <3>1 DEF Open
  <2>7. ~BreachedIn(existing, clusters, NoFailures, k)
    <3>1. Cardinality(Members(clusters, k)) \in Nat
      <4>1. Members(clusters, k) \in SUBSET Clusters BY DEF Members
      <4> QED BY <4>1, FiniteParts
    <3>2. NoFailures \in Thresholds /\ NoFailures.n = 0 BY DEF NoFailures, Thresholds
    <3>3. RolloutSize(NoFailures, Cardinality(Members(clusters, k)), 0) = 0
      BY <3>1, <3>2, RolloutSizeRange
    <3> QED BY <1>5, <2>5, <3>3 DEF BreachedIn
  <2> QED BY <2>4, <2>6, <2>7
<1>7. clusters \subseteq begun BY <1>1, <1>6 DEF Seen
<1> QED BY <1>4, <1>7

\* A decision that starts the workload on a cluster of another group has found the
\* mandatory groups finished.
LEMMA MandatoryFinished ==
    ASSUME TypeOK, NEW reads \in Reads, NEW c \in Clusters,
           c \in GetRolloutCluster(reads).rollout, status[c] \in {"None", "ToApply"},
           GroupOf[c] \notin Mandatory
    PROVE  LET mandatory == InMandatory(reads[2])
               first == PerGroup(Existing(reads[1]), mandatory, NoFailures, MinSuccessTime)
           IN /\ mandatory = {} \/ ~Unfinished(first)
              /\ Type = "ProgressivePerGroup" =>
                    GetRolloutCluster(reads) = PerGroup(Existing(reads[1]), Rest(reads[3]),
                                                        MaxFailures, MinSuccessTime)
<1> DEFINE existing  == Existing(reads[1])
           mandatory == InMandatory(reads[2])
           first     == PerGroup(existing, mandatory, NoFailures, MinSuccessTime)
<1>1. ASSUME Type # "All", GetRolloutCluster(reads) = first PROVE FALSE
  <2>1. /\ existing \in SUBSET Clusters /\ mandatory \in SUBSET Clusters
        /\ \A d \in existing : status[d] # "None"
    BY ReadsType, ExistingStatuses
  <2> DEFINE rollout == first.rollout
  <2>2. c \in rollout /\ rollout = PerGroup(existing, mandatory, NoFailures, MinSuccessTime).rollout
    BY <1>1
  <2> HIDE DEF existing, mandatory, first, rollout
  <2>3. c \in mandatory BY <2>1, <2>2, PerGroupRollout
  <2> QED BY <2>3 DEF mandatory, InMandatory
<1>2. Mandatory = {} => mandatory = {} BY DEF InMandatory
<1> QED BY <1>1, <1>2, Decision

LEMMA MandatoryStep ==
    ASSUME TypeOK, NoTimeOuts, ~ReportsTimeOut, [Next]_vars, Rest(Started) # {},
           NEW d \in InMandatory(Staying)
    PROVE  Done(d)
<1>1. PICK c \in Staying : Starts(c) /\ GroupOf[c] \notin Mandatory BY DEF Rest, Started
<1>2. c \in Clusters BY <1>1 DEF Staying, TypeOK
<1>3. PICK reads \in Reads : /\ Decide(reads) /\ reads[1] = placed /\ reads[3] = placed'
                            /\ \A i \in 1..3 : reads[i] \in {placed, placed'}
  BY <1>1, <1>2, OnlyDecisionsStart
<1> DEFINE existing  == Existing(reads[1])
           mandatory == InMandatory(reads[2])
<1>4. d \in mandatory
  <2>1. d \in Staying /\ GroupOf[d] \in Mandatory BY DEF InMandatory
  <2>2. d \in reads[2] BY <1>3, <2>1, StayingIsRead
  <2> QED BY <2>1, <2>2 DEF InMandatory
<1>5. ~Unfinished(PerGroup(existing, mandatory, NoFailures, MinSuccessTime))
  <2>1. c \in GetRolloutCluster(reads).rollout /\ status[c] \in {"None", "ToApply"}
    BY <1>1, <1>2, <1>3, StartsInRollout DEF Starts
  <2> QED BY <1>1, <1>2, <1>4, <2>1, MandatoryFinished
<1>6. /\ existing \in SUBSET Clusters /\ mandatory \in SUBSET Clusters
      /\ \A e \in existing : status[e] # "None"
  BY ReadsType, ExistingStatuses
<1> HIDE DEF existing, mandatory
<1> QED BY <1>4, <1>5, <1>6, FinishedIsDone

\* The workload is started outside the mandatory groups only when all clusters of
\* these have succeeded and soaked, or are skipped, as long as the deadline is the
\* handler's affair: a TimeOut that the status function reports is not waited for.
THEOREM MandatoryGroupsFirst ==
    ASSUME ~ReportsTimeOut PROVE Spec => MandatoryFirst
<1>1. TypeOK /\ NoTimeOuts /\ [Next]_vars =>
        [Rest(Started) # {} => \A d \in InMandatory(Staying) : Done(d)]_vars
  BY MandatoryStep
<1> QED
  BY <1>1, TypeInit, TypeStep, NoTimeOutsInit, NoTimeOutsStep, PTL DEF Spec, MandatoryFirst

\* No strategy tolerates a cluster that has timed out: it tolerates no failures, or
\* has no deadline.  The handler subtracts the failures of the groups so far from
\* the clusters in the rollout, and a tolerated timeout, which is not among these,
\* would hide a cluster that the group has to wait for.
NoTimeOutTolerated ==
    \A s \in Strategies : s.Type = "ProgressivePerGroup" =>
        s.MaxFailures.n = 0 \/ (s.ProgressDeadline = None /\ ~ReportsTimeOut)

\* A group at which progressivePerGroup does not stop, nor at one before it, has
\* only clusters that are done or have failed.
LEMMA PassedGroup ==
    ASSUME TypeOK, NoTimeOuts, NEW threshold \in Thresholds,
           threshold.n = 0 \/ (ProgressDeadline = None /\ ~ReportsTimeOut),
           NEW existing \in SUBSET Clusters, \A c \in existing : status[c] # "None",
           NEW clusters \in SUBSET Clusters, NEW d \in clusters,
           \A c \in clusters : GroupOf[c] <= GroupOf[d] =>
              GroupOf[c] \notin Stops(existing, clusters, threshold, MinSuccessTime)
    PROVE  Done(d) \/ Failing(d)
<1> DEFINE k        == GroupOf[d]
           begun    == Begun(existing)
           listed   == Listed(existing, MinSuccessTime)
           through  == Through(clusters, k)
           failures == Failures(existing, through)
           waiting  == listed \cup (through \ begun)
<1>1. /\ begun \subseteq existing /\ listed \subseteq begun /\ through \subseteq clusters
      /\ failures \subseteq through \cap begun
      /\ \A c \in begun : status[c] \notin {"None", "ToApply"}
  BY DEF Begun, Listed, Through, Failures
<1>2. k \in Nat /\ d \in through
  <2>1. k \in Nat BY ConstantsOK
  <2> QED BY <2>1 DEF Through
<1>3. \A c \in through : /\ ~Open(existing, clusters, MinSuccessTime, GroupOf[c])
                        /\ ~BreachedIn(existing, clusters, threshold, GroupOf[c])
  BY DEF Stops, Through
<1>4. failures \subseteq listed
  <2>1. CASE threshold.n = 0
    <3> SUFFICES ASSUME NEW c \in failures PROVE FALSE OBVIOUS
    <3> DEFINE members == Members(clusters, GroupOf[c])
    <3>1. c \in through BY <1>1
    <3>2. RolloutSize(threshold, Cardinality(members), 0) = 0
      <4>1. members \in SUBSET Clusters BY DEF Members
      <4> QED BY <2>1, <4>1, FiniteParts, RolloutSizeRange
    <3>3. Failures(existing, members) \in SUBSET Clusters BY DEF Failures, Members
    <3>4. ~(Cardinality(Failures(existing, members)) > 0)
      BY <1>3, <3>1, <3>2 DEF BreachedIn
    <3>5. Failures(existing, members) = {} BY <3>3, <3>4, FiniteParts
    <3>6. c \in Failures(existing, members) BY <1>1 DEF Failures, Members
    <3> QED BY <3>5, <3>6
  <2>2. CASE ProgressDeadline = None /\ ~ReportsTimeOut
    <3> SUFFICES ASSUME NEW c \in failures PROVE c \in listed OBVIOUS
    <3>1. c \in begun /\ c \in Clusters /\ Failing(c) BY <1>1 DEF Failures
    <3>2. status[c] = "Failed" /\ ~TimesOut(c)
      BY <2>2, <3>1 DEF Failing, TimesOut, NoTimeOuts
    <3> QED BY <3>1, <3>2 DEF Listed, InRollout
  <2> QED BY <2>1, <2>2
<1>5. waiting = failures
  <2>1. ~(Cardinality(waiting) - Cardinality(failures) > 0)
    BY <1>2, <1>3 DEF Open
  <2>2. waiting \in SUBSET Clusters /\ failures \in SUBSET waiting BY <1>1, <1>4
  <2> HIDE DEF waiting, failures
  <2>3. /\ IsFiniteSet(waiting) /\ Cardinality(waiting) \in Nat
        /\ Cardinality(failures) \in Nat
    BY <2>2, FiniteParts
  <2>4. waiting # failures => Cardinality(failures) < Cardinality(waiting)
    BY <2>2, <2>3, FS_Subset
  <2> QED BY <2>1, <2>3, <2>4
<1>6. d \in begun BY <1>1, <1>2, <1>5
<1>7. CASE InRollout(d, MinSuccessTime)
  <2>1. d \in failures BY <1>5, <1>6, <1>7 DEF Listed
  <2> QED BY <2>1 DEF Failures
<1>8. CASE ~InRollout(d, MinSuccessTime)
  <2>1. status[d] \in Statuses /\ status[d] \notin {"None", "ToApply"}
    BY <1>1, <1>6 DEF TypeOK
  <2>2. age[d] \in Int /\ MinSuccessTime \in Int BY StrategyType DEF TypeOK
  <2> QED BY <1>8, <2>1, <2>2 DEF InRollout, Done, Failing, Statuses
<1> QED BY <1>7, <1>8

\* Nor has it too many failures.
LEMMA PassedGroupFailures ==
    ASSUME TypeOK, NEW read \in SUBSET Clusters, NEW clusters \in SUBSET Clusters,
           NEW S \in SUBSET Clusters, S \subseteq read, NEW k,
           Members(S, k) \subseteq Members(clusters, k),
           ~BreachedIn(Existing(read), clusters, MaxFailures, k)
    PROVE  ~TooMany(Members(S, k), Members(clusters, k))
<1> DEFINE failing  == {c \in Members(S, k) : Failing(c)}
           failures == Failures(Existing(read), Members(clusters, k))
           total    == Cardinality(Members(clusters, k))
<1>1. failing \in SUBSET failures
  <2> SUFFICES ASSUME NEW c \in failing PROVE c \in failures OBVIOUS
  <2>1. c \in S /\ c \in Members(clusters, k) /\ Failing(c) BY DEF Members
  <2>2. status[c] \notin {"None", "ToApply"} BY <2>1 DEF Failing, TimesOut
  <2> QED BY <2>1, <2>2 DEF Failures, Begun, Existing
<1>2. failures \in SUBSET Clusters /\ Members(clusters, k) \in SUBSET Clusters
  BY DEF Failures, Members
<1>3. ~(Cardinality(failures) > RolloutSize(MaxFailures, total, 0))
  BY DEF BreachedIn
<1> HIDE DEF failing, failures
<1>4. /\ IsFiniteSet(failures) /\ Cardinality(failing) <= Cardinality(failures)
      /\ Cardinality(failing) \in Nat /\ Cardinality(failures) \in Nat
  <2>1. IsFiniteSet(failures) /\ Cardinality(failures) \in Nat BY <1>2, FiniteParts
  <2>2. failing \in SUBSET Clusters BY <1>1, <1>2
  <2> QED BY <1>1, <2>1, <2>2, FiniteParts, FS_Subset
<1>5. RolloutSize(MaxFailures, total, 0) <= Allowed(total) /\ Allowed(total) \in Int
  BY <1>2, AllowedBounds
<1>6. RolloutSize(MaxFailures, total, 0) \in Nat
  <2>1. total \in Nat BY <1>2, FiniteParts
  <2> QED BY <2>1, StrategyType, RolloutSizeRange
<1>7. ~(Cardinality(failing) > Allowed(total)) BY <1>3, <1>4, <1>5, <1>6
<1> QED BY <1>7 DEF TooMany, failing

LEMMA GroupStep ==
    ASSUME NoTimeOutTolerated, TypeOK, NoTimeOuts, [Next]_vars, Type = "ProgressivePerGroup",
           NEW c \in Rest(Started), NEW d \in Rest(Staying), GroupOf[d] < GroupOf[c]
    PROVE  /\ Done(d) \/ Failing(d)
           /\ ~TooMany(Members(Staying, GroupOf[d]), Members(placed', GroupOf[d]))
<1>1. c \in Staying /\ Starts(c) /\ GroupOf[c] \notin Mandatory
  BY DEF Rest, Started
<1>2. d \in Staying /\ GroupOf[d] \notin Mandatory BY DEF Rest
<1>3. c \in Clusters /\ d \in Clusters /\ Staying \in SUBSET Clusters
  BY <1>1, <1>2 DEF Staying, TypeOK
<1>4. PICK reads \in Reads : /\ Decide(reads) /\ reads[1] = placed /\ reads[3] = placed'
                            /\ \A i \in 1..3 : reads[i] \in {placed, placed'}
  BY <1>1, <1>3, OnlyDecisionsStart
<1> DEFINE existing == Existing(placed)
           rest     == Rest(placed')
           rollout  == GetRolloutCluster(reads).rollout
           k        == GroupOf[d]
<1>5. c \in rollout /\ status[c] \in {"None", "ToApply"}
  BY <1>1, <1>3, <1>4, StartsInRollout DEF Starts
<1>6. rollout = PerGroup(existing, rest, MaxFailures, MinSuccessTime).rollout
  BY <1>1, <1>3, <1>4, <1>5, MandatoryFinished
<1>7. /\ placed \in SUBSET Clusters /\ placed' \in SUBSET Clusters
      /\ existing \in SUBSET Clusters /\ rest \in SUBSET Clusters
      /\ \A e \in existing : status[e] # "None"
  <2>1. placed \in SUBSET Clusters /\ placed' \in SUBSET Clusters BY <1>4, ReadsType
  <2> QED BY <2>1, ExistingStatuses
<1>8. d \in rest BY <1>2 DEF Staying, Rest
<1>9. \A e \in rest : GroupOf[e] < GroupOf[c] =>
         GroupOf[e] \notin Stops(existing, rest, MaxFailures, MinSuccessTime)
  <2> HIDE DEF existing, rest, rollout
  <2> QED BY <1>5, <1>6, <1>7, NoStopBefore
<1>10. \A e \in rest : GroupOf[e] <= k =>
          GroupOf[e] \notin Stops(existing, rest, MaxFailures, MinSuccessTime)
  <2>1. \A e \in rest : GroupOf[e] \in Nat /\ k \in Nat /\ GroupOf[c] \in Nat
    BY <1>3, <1>7, ConstantsOK
  <2> HIDE DEF rest, existing
  <2> QED BY <1>9, <2>1
<1>11. Done(d) \/ Failing(d)
  <2>1. MaxFailures \in Thresholds BY StrategyType
  <2>2. MaxFailures.n = 0 \/ (ProgressDeadline = None /\ ~ReportsTimeOut)
    BY DEF NoTimeOutTolerated, TypeOK, Type, MaxFailures, ProgressDeadline
  <2> HIDE DEF existing, rest
  <2> QED BY <1>7, <1>8, <1>10, <2>1, <2>2, PassedGroup
<1>12. ~TooMany(Members(Staying, k), Members(placed', k))
  <2>1. Members(placed', k) = Members(rest, k) BY <1>2 DEF Members, Rest
  <2>2. Members(Staying, k) \subseteq Members(rest, k) BY <1>2 DEF Members, Rest, Staying
  <2>3. ~BreachedIn(existing, rest, MaxFailures, k)
    <3>1. k \notin Stops(existing, rest, MaxFailures, MinSuccessTime) BY <1>8, <1>9
    <3> QED BY <1>8, <3>1 DEF Stops
  <2>4. Staying \subseteq placed BY DEF Staying
  <2> HIDE DEF rest
  <2> QED BY <1>3, <1>7, <2>1, <2>2, <2>3, <2>4, PassedGroupFailures
<1> QED BY <1>11, <1>12

\* "The workload will not be applied to the next decisionGroup unless all clusters
\* in the current group reach the successful state and haven't breached the
\* MaxFailures configuration", when no timeout is tolerated.
THEOREM GroupsInOrder ==
    ASSUME NoTimeOutTolerated PROVE Spec => GroupOrder
<1>1. TypeOK /\ NoTimeOuts /\ [Next]_vars =>
        [Type = "ProgressivePerGroup" =>
          \A c \in Rest(Started) : \A d \in Rest(Staying) :
              GroupOf[d] < GroupOf[c] =>
                  (Done(d) \/ Failing(d)) /\ ~TooMany(Members(Staying, GroupOf[d]),
                                                   Members(placed', GroupOf[d]))]_vars
  BY GroupStep
<1> QED
  BY <1>1, TypeInit, TypeStep, NoTimeOutsInit, NoTimeOutsStep, PTL DEF Spec, GroupOrder
=============================================================================
