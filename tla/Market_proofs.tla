--------------------------- MODULE Market_proofs ---------------------------
(***************************************************************************)
(* Proofs about the market: what its analysis never takes back, and where  *)
(* the stop and the target of an entry may stand.  The analysis sorts and  *)
(* folds, so the first part is about sorting and folding.  It speaks of    *)
(* relations and functions, never of operators: a lemma with an operator   *)
(* for a parameter could not be applied.                                   *)
(***************************************************************************)
EXTENDS Rules_proofs, FunctionTheorems, WellFoundedInduction

-----------------------------------------------------------------------------
(* Induction, as the existence of a least element.                         *)

LEMMA LeastOf ==
  ASSUME NEW T, T \subseteq Nat, T # {}
  PROVE  \E least \in T : \A n \in T : least <= n
<1> DEFINE R == {ss \in Nat \X Nat : ss[1] < ss[2]}
<1>1. IsWellFoundedOn(R, Nat)
  BY NatLessThanWellFounded DEF OpToRel
<1>2. \A n, m \in Nat : n < m => <<n, m>> \in R
  OBVIOUS
<1> HIDE DEF R
<1>3. PICK least \in T : \A n \in T : ~ (<<n, least>> \in R)
  BY <1>1, WFMin
<1>4. ASSUME NEW n \in T
      PROVE  least <= n
  <2>1. n \in Nat /\ least \in Nat
    OBVIOUS
  <2>2. ~ (n < least)
    BY <1>2, <1>3, <2>1, Zenon
  <2> QED BY <2>1, <2>2
<1> QED BY <1>4

(* What holds of 0, and of k + 1 when it holds of k, holds up to n.        *)
LEMMA UpTo ==
  ASSUME NEW n \in Nat, NEW Good, 0 \in Good,
         \A k \in 0..n : k < n /\ k \in Good => k + 1 \in Good
  PROVE  \A k \in 0..n : k \in Good
<1> DEFINE Bad == {k \in 0..n : k \notin Good}
<1> SUFFICES ASSUME Bad # {} PROVE FALSE
  OBVIOUS
<1>1. PICK least \in Bad : \A k \in Bad : least <= k
  <2>1. Bad \subseteq Nat
    OBVIOUS
  <2> HIDE DEF Bad
  <2> QED BY <2>1, LeastOf
<1>2. least \in 0..n /\ least \notin Good /\ least # 0
  OBVIOUS
<1>3. least - 1 \in 0..n /\ least - 1 < n
  BY <1>2
<1>4. least - 1 \in Good
  BY <1>1, <1>2, <1>3
<1>5. (least - 1) + 1 = least
  BY <1>2
<1> QED BY <1>2, <1>3, <1>4, <1>5

LEMMA MostOf ==
  ASSUME NEW n \in Nat, NEW T, T \subseteq 1..n, T # {}
  PROVE  Market!Max(T) \in T /\ \A k \in T : k <= Market!Max(T)
<1> DEFINE Bounds == {m \in 0..n : \A k \in T : k <= m}
<1>1. PICK least \in Bounds : \A m \in Bounds : least <= m
  <2>1. Bounds \subseteq Nat /\ n \in Bounds
    OBVIOUS
  <2> HIDE DEF Bounds
  <2> QED BY <2>1, LeastOf
<1>2. least \in 0..n /\ \A k \in T : k <= least
  OBVIOUS
<1>3. least \in T
  <2> SUFFICES ASSUME least \notin T PROVE FALSE
    OBVIOUS
  <2>1. \A k \in T : k \in 1..n /\ k <= least - 1
    BY <1>2
  <2>2. least - 1 \in 0..n
    <3>1. PICK k \in T : TRUE
      OBVIOUS
    <3>2. k \in 1..n /\ k <= least - 1
      BY <2>1
    <3> QED BY <1>2, <3>2
  <2>3. least - 1 \in Bounds
    BY <2>1, <2>2
  <2> QED BY <1>1, <1>2, <2>3
<1>4. \E x \in T : \A y \in T : x >= y
  BY <1>2, <1>3
<1>5. Market!Max(T) = CHOOSE x \in T : \A y \in T : x >= y
  BY DEF Market!Max
<1>6. Market!Max(T) \in T /\ \A y \in T : Market!Max(T) >= y
  BY <1>4, <1>5
<1> QED BY <1>6

LEMMA WithoutMost ==
  ASSUME NEW k \in Nat, NEW T, T \subseteq 1..k + 1, T # {}
  PROVE  /\ Market!Max(T) \in T /\ Market!Max(T) \in 1..k + 1
         /\ T \ {Market!Max(T)} \subseteq 1..k
         /\ T \subseteq 1..k \/ Market!Max(T) = k + 1
<1> DEFINE m == Market!Max(T)
<1>1. m \in T /\ \A j \in T : j <= m
  <2>1. k + 1 \in Nat
    OBVIOUS
  <2> QED BY <2>1, MostOf
<1> HIDE DEF m
<1>2. m \in 1..k + 1 /\ m \in Int
  BY <1>1
<1>3. ASSUME NEW j \in T, j # m
      PROVE  j \in 1..k
  <2>1. j \in 1..k + 1 /\ j <= m
    BY <1>1
  <2> QED BY <1>2, <1>3, <2>1
<1>4. ASSUME NEW j \in T, j \notin 1..k
      PROVE  m = k + 1
  <2>1. j \in 1..k + 1 /\ j <= m
    BY <1>1
  <2> QED BY <1>2, <1>4, <2>1
<1>5. m \in T /\ m \in 1..k + 1 /\ T \ {m} \subseteq 1..k /\ (T \subseteq 1..k \/ m = k + 1)
  BY <1>1, <1>2, <1>3, <1>4
<1> QED BY <1>5 DEF m

(* What holds of the empty set, and of a set when it holds of what is left *)
(* without its largest member, holds of every subset of 1..n.              *)
LEMMA SubsetInduction ==
  ASSUME NEW n \in Nat, NEW Good, {} \in Good,
         \A s \in SUBSET (1..n) : s # {} /\ s \ {Market!Max(s)} \in Good => s \in Good
  PROVE  \A s \in SUBSET (1..n) : s \in Good
<1> DEFINE Fine == {k \in 0..n : \A s \in SUBSET (1..k) : s \in Good}
<1>1. 0 \in Fine
  <2>1. \A s \in SUBSET (1..0) : s = {}
    OBVIOUS
  <2>2. \A s \in SUBSET (1..0) : s \in Good
    BY <2>1
  <2> QED BY <2>2
<1>2. ASSUME NEW k \in 0..n, k < n, k \in Fine
      PROVE  k + 1 \in Fine
  <2> SUFFICES ASSUME NEW s \in SUBSET (1..k + 1) PROVE s \in Good
    BY <1>2
  <2>1. CASE s = {}
    BY <2>1
  <2>2. CASE s # {}
    <3>1. k \in Nat /\ s \subseteq 1..k + 1 /\ s \in SUBSET (1..n)
      BY <1>2
    <3>3. s \ {Market!Max(s)} \subseteq 1..k
      BY <2>2, <3>1, WithoutMost
    <3>4. s \ {Market!Max(s)} \in Good
      BY <1>2, <3>3
    <3> QED BY <2>2, <3>1, <3>4
  <2> QED BY <2>1, <2>2
<1> HIDE DEF Fine
<1>3. \A k \in 0..n : k \in Fine
  BY <1>1, <1>2, UpTo
<1>4. n \in Fine
  BY <1>3
<1> QED BY <1>4 DEF Fine

(* The function behind a fold: of each set of positions, the result of     *)
(* going over them in order.                                               *)
Goes(iter, n, base, Step) ==
    iter = [s \in SUBSET (1..n) |->
              IF s = {} THEN base ELSE Step[<<iter[s \ {Market!Max(s)}], Market!Max(s)>>]]

LEMMA FoldExists ==
  ASSUME NEW n \in Nat, NEW base, NEW Step
  PROVE  \E iter : Goes(iter, n, base, Step)
<1> DEFINE Some == {k \in 0..n : \E iter : Goes(iter, k, base, Step)}
<1>1. 0 \in Some
  <2>1. SUBSET (1..0) = {{}}
    OBVIOUS
  <2>2. Goes([s \in SUBSET (1..0) |-> base], 0, base, Step)
    BY <2>1 DEF Goes
  <2> QED BY <2>2
<1>2. ASSUME NEW k \in 0..n, k < n, k \in Some
      PROVE  k + 1 \in Some
  <2>1. PICK iter : Goes(iter, k, base, Step)
    BY <1>2
  <2> DEFINE longer == [s \in SUBSET (1..k + 1) |->
                          IF s \subseteq 1..k THEN iter[s]
                          ELSE Step[<<iter[s \ {k + 1}], k + 1>>]]
  <2>2. ASSUME NEW s \in SUBSET (1..k + 1)
        PROVE  longer[s] = IF s = {} THEN base
                           ELSE Step[<<longer[s \ {Market!Max(s)}], Market!Max(s)>>]
    <3>1. CASE s = {}
      <4>1. {} \in SUBSET (1..k) /\ {} \subseteq 1..k
        OBVIOUS
      <4>2. iter[{}] = base
        BY <2>1, <4>1 DEF Goes
      <4> QED BY <3>1, <4>1, <4>2
    <3>2. CASE s # {}
      <4>1. k \in Nat /\ s \subseteq 1..k + 1
        BY <1>2
      <4>2. s \ {Market!Max(s)} \subseteq 1..k /\ (s \subseteq 1..k \/ Market!Max(s) = k + 1)
        BY <3>2, <4>1, WithoutMost
      <4>3. s \ {Market!Max(s)} \subseteq 1..k /\ s \ {Market!Max(s)} \in SUBSET (1..k + 1)
        BY <4>1, <4>2
      <4>4. longer[s \ {Market!Max(s)}] = iter[s \ {Market!Max(s)}]
        BY <4>3
      <4>5. CASE s \subseteq 1..k
        <5>1. s \in SUBSET (1..k)
          BY <4>5
        <5>2. iter[s] = Step[<<iter[s \ {Market!Max(s)}], Market!Max(s)>>]
          BY <2>1, <3>2, <5>1 DEF Goes
        <5>3. longer[s] = iter[s]
          BY <4>5
        <5> QED BY <3>2, <4>4, <5>2, <5>3
      <4>6. CASE ~ (s \subseteq 1..k)
        <5>1. Market!Max(s) = k + 1
          BY <4>2, <4>6
        <5>2. longer[s] = Step[<<iter[s \ {k + 1}], k + 1>>]
          BY <4>6
        <5> HIDE DEF longer
        <5> QED BY <3>2, <4>4, <5>1, <5>2
      <4> QED BY <4>5, <4>6
    <3> QED BY <3>1, <3>2
  <2>3. longer = [s \in SUBSET (1..k + 1) |-> longer[s]]
    OBVIOUS
  <2> HIDE DEF longer
  <2>4. longer = [s \in SUBSET (1..k + 1) |->
                    IF s = {} THEN base
                    ELSE Step[<<longer[s \ {Market!Max(s)}], Market!Max(s)>>]]
    BY <2>2, <2>3, Zenon
  <2>5. Goes(longer, k + 1, base, Step)
    BY <2>4 DEF Goes
  <2>6. k + 1 \in 0..n
    BY <1>2
  <2> QED BY <2>5, <2>6
<1> HIDE DEF Some
<1>3. \A k \in 0..n : k \in Some
  BY <1>1, <1>2, UpTo
<1>4. n \in Some
  BY <1>3
<1> QED BY <1>4 DEF Some

(* Whatever the steps keep is kept by the whole fold.                      *)
LEMMA FoldTyped ==
  ASSUME NEW n \in Nat, NEW V, NEW base \in V, NEW Step \in [V \X (1..n) -> V]
  PROVE  \E iter \in [SUBSET (1..n) -> V] : Goes(iter, n, base, Step)
<1>1. PICK iter : Goes(iter, n, base, Step)
  BY FoldExists
<1> DEFINE Good == {s \in SUBSET (1..n) : iter[s] \in V}
<1>2. {} \in Good
  <2>1. {} \in SUBSET (1..n)
    OBVIOUS
  <2> QED BY <1>1, <2>1 DEF Goes
<1>3. ASSUME NEW s \in SUBSET (1..n), s # {}, s \ {Market!Max(s)} \in Good
      PROVE  s \in Good
  <2>1. Market!Max(s) \in 1..n
    BY <1>3, MostOf
  <2>2. iter[s] = Step[<<iter[s \ {Market!Max(s)}], Market!Max(s)>>]
    BY <1>1, <1>3 DEF Goes
  <2>3. iter[s \ {Market!Max(s)}] \in V
    BY <1>3
  <2>4. Step[<<iter[s \ {Market!Max(s)}], Market!Max(s)>>] \in V
    BY <2>1, <2>3
  <2> QED BY <2>2, <2>4
<1> HIDE DEF Good
<1>4. \A s \in SUBSET (1..n) : s \in Good
  BY <1>2, <1>3, SubsetInduction
<1>5. \A s \in SUBSET (1..n) : iter[s] \in V
  BY <1>4 DEF Good
<1>6. iter \in [SUBSET (1..n) -> V]
  BY <1>1, <1>5 DEF Goes
<1> QED BY <1>1, <1>6

(* A fold whose steps keep to V ends in V.                                 *)
LEMMA FoldKeeps ==
  ASSUME NEW n \in Nat, NEW V, NEW it, it[{}] \in V,
         \A s \in SUBSET (1..n) : s # {} /\ it[s \ {Market!Max(s)}] \in V => it[s] \in V
  PROVE  it[1..n] \in V
<1> DEFINE Good == {s \in SUBSET (1..n) : it[s] \in V}
<1>1. {} \in Good
  OBVIOUS
<1>2. \A s \in SUBSET (1..n) : s # {} /\ s \ {Market!Max(s)} \in Good => s \in Good
  OBVIOUS
<1> HIDE DEF Good
<1>3. 1..n \in Good
  BY <1>1, <1>2, SubsetInduction
<1> QED BY <1>3 DEF Good

LEMMA TotalOK ==
  ASSUME NEW W, \A s \in W : s.price \in Int, NEW c \in Seq(W)
  PROVE  Market!Total(c) \in Int
<1> DEFINE Sums(iter) == iter = [s \in SUBSET DOMAIN c |->
                             IF s = {} THEN 0
                             ELSE iter[s \ {Market!Max(s)}] + c[Market!Max(s)].price]
           n == Len(c)
           Step == [p \in Int \X (1..n) |-> p[1] + c[p[2]].price]
<1>1. Market!Total(c) = (CHOOSE iter : Sums(iter))[DOMAIN c]
  BY Zenon DEF Market!Total, Market!FoldLeft, Market!MapThenFoldSet
<1>2. DOMAIN c = 1..n /\ n \in Nat /\ \A i \in 1..n : c[i].price \in Int
  OBVIOUS
<1>3. Step \in [Int \X (1..n) -> Int]
  BY <1>2
<1> HIDE DEF n
<1>4. PICK iter \in [SUBSET (1..n) -> Int] : Goes(iter, n, 0, Step)
  <2> HIDE DEF Step
  <2>1. 0 \in Int /\ n \in Nat
    BY <1>2
  <2> QED BY <1>3, <2>1, FoldTyped, Zenon
<1>5. Sums(iter)
  <2>1. ASSUME NEW s \in SUBSET (1..n), s # {}
        PROVE  Step[<<iter[s \ {Market!Max(s)}], Market!Max(s)>>]
                 = iter[s \ {Market!Max(s)}] + c[Market!Max(s)].price
    <3>1. Market!Max(s) \in 1..n /\ iter[s \ {Market!Max(s)}] \in Int
      BY <1>2, <2>1, MostOf
    <3> QED BY <3>1
  <2> HIDE DEF Step
  <2> QED BY <1>2, <1>4, <2>1, Zenon DEF Goes
<1>6. ASSUME NEW it, Sums(it)
      PROVE  it[1..n] \in Int
  <2>1. it[{}] \in Int
    BY <1>2, <1>6
  <2>2. ASSUME NEW s \in SUBSET (1..n), s # {}, it[s \ {Market!Max(s)}] \in Int
        PROVE  it[s] \in Int
    <3>1. Market!Max(s) \in 1..n
      BY <1>2, <2>2, MostOf
    <3>2. it[s] = it[s \ {Market!Max(s)}] + c[Market!Max(s)].price
      BY <1>2, <1>6, <2>2
    <3> QED BY <1>2, <2>2, <3>1, <3>2
  <2> QED BY <1>2, <2>1, <2>2, FoldKeeps
<1> HIDE DEF Sums
<1>7. Sums(CHOOSE it : Sums(it))
  BY <1>5
<1> QED BY <1>1, <1>2, <1>6, <1>7

-----------------------------------------------------------------------------
(* Sorting: the rank of an element is the number of those before it.       *)

Strict(R, M) ==
    /\ \A a \in M : <<a, a>> \notin R
    /\ \A a, b, c \in M : <<a, b>> \in R /\ <<b, c>> \in R => <<a, c>> \in R
Connected(R, M) == \A a, b \in M : a = b \/ <<a, b>> \in R \/ <<b, a>> \in R
Below(R, M, s) == {t \in M : <<t, s>> \in R}

LEMMA Ranked ==
  ASSUME NEW M, IsFiniteSet(M), NEW R, Strict(R, M), Connected(R, M)
  PROVE  /\ \A a, b \in M : <<a, b>> \in R => Cardinality(Below(R, M, a)) < Cardinality(Below(R, M, b))
         /\ \A i \in 1..Cardinality(M) : \E s \in M : Cardinality(Below(R, M, s)) = i - 1
<1> DEFINE n == Cardinality(M)
           Rank == [s \in M |-> Cardinality(Below(R, M, s)) + 1]
<1>1. n \in Nat
  BY FS_CardinalityType
<1>2. ASSUME NEW s \in M
      PROVE  /\ IsFiniteSet(Below(R, M, s)) /\ Cardinality(Below(R, M, s)) \in Nat
             /\ Cardinality(Below(R, M, s)) < n
  <2>1. Below(R, M, s) \in SUBSET M /\ Below(R, M, s) # M
    BY DEF Strict, Below
  <2>2. IsFiniteSet(Below(R, M, s)) /\ Cardinality(Below(R, M, s)) <= n /\ Cardinality(Below(R, M, s)) # n
    BY <2>1, FS_Subset
  <2>3. Cardinality(Below(R, M, s)) \in Nat
    BY <2>2, FS_CardinalityType
  <2> QED BY <1>1, <2>2, <2>3
<1>3. ASSUME NEW a \in M, NEW b \in M, <<a, b>> \in R
      PROVE  Cardinality(Below(R, M, a)) < Cardinality(Below(R, M, b))
  <2>1. Below(R, M, a) \in SUBSET Below(R, M, b) /\ Below(R, M, a) # Below(R, M, b)
    BY <1>3 DEF Strict, Below
  <2>2. IsFiniteSet(Below(R, M, b)) /\ Cardinality(Below(R, M, b)) \in Nat /\ Cardinality(Below(R, M, a)) \in Nat
    BY <1>2
  <2>3. Cardinality(Below(R, M, a)) <= Cardinality(Below(R, M, b)) /\ Cardinality(Below(R, M, a)) # Cardinality(Below(R, M, b))
    BY <2>1, <2>2, FS_Subset
  <2> QED BY <2>2, <2>3
<1>4. Rank \in [M -> 1..n]
  BY <1>1, <1>2
<1>5. ASSUME NEW a \in M, NEW b \in M, Rank[a] = Rank[b]
      PROVE  a = b
  <2>1. Cardinality(Below(R, M, a)) = Cardinality(Below(R, M, b)) /\ Cardinality(Below(R, M, a)) \in Nat
    BY <1>2, <1>5
  <2>2. ~ (<<a, b>> \in R) /\ ~ (<<b, a>> \in R)
    BY <1>3, <2>1
  <2> QED BY <2>2 DEF Connected
<1> HIDE DEF n
<1>6. IsFiniteSet(1..n) /\ Cardinality(1..n) = n
  BY <1>1, FS_Interval
<1>7. Rank \in Injection(M, 1..n)
  <2> HIDE DEF Rank
  <2> QED BY <1>4, <1>5 DEF Injection, IsInjective
<1>8. Rank \in Surjection(M, 1..n)
  <2> HIDE DEF Rank
  <2> QED BY <1>6, <1>7, FS_Injection DEF n
<1>9. ASSUME NEW i \in 1..n
      PROVE  \E s \in M : Cardinality(Below(R, M, s)) = i - 1
  <2>1. PICK s \in M : Rank[s] = i
    BY <1>8 DEF Surjection
  <2>2. Cardinality(Below(R, M, s)) + 1 = i /\ Cardinality(Below(R, M, s)) \in Nat
    BY <1>2, <2>1
  <2> QED BY <2>2
<1> QED BY <1>3, <1>9 DEF n

LEMMA Sorted ==
  ASSUME NEW M, IsFiniteSet(M), NEW R, Strict(R, M), Connected(R, M),
         NEW seq \in [1..Cardinality(M) -> M],
         \A i \in 1..Cardinality(M) : Cardinality(Below(R, M, seq[i])) = i - 1
  PROVE  /\ seq \in Seq(M) /\ Len(seq) = Cardinality(M)
         /\ \A i, j \in 1..Len(seq) : i < j => <<seq[i], seq[j]>> \in R
<1> DEFINE n == Cardinality(M)
           Rank == [s \in M |-> Cardinality(Below(R, M, s))]
<1>1. \A a, b \in M : <<a, b>> \in R => Rank[a] < Rank[b]
  BY Ranked
<1>2. n \in Nat
  BY FS_CardinalityType
<1>3. \A i \in 1..n : seq[i] \in M /\ Rank[seq[i]] = i - 1
  OBVIOUS
<1> HIDE DEF n, Rank
<1>4. seq \in Seq(M) /\ Len(seq) = n
  BY <1>2 DEF n
<1>5. ASSUME NEW i \in 1..n, NEW j \in 1..n, i < j
      PROVE  <<seq[i], seq[j]>> \in R
  <2>1. Rank[seq[i]] < Rank[seq[j]]
    BY <1>2, <1>3, <1>5
  <2>2. seq[i] \in M /\ seq[j] \in M /\ Rank[seq[i]] \in Int /\ Rank[seq[j]] \in Int
    BY <1>2, <1>3
  <2>3. seq[i] # seq[j] /\ ~ (<<seq[j], seq[i]>> \in R)
    BY <1>1, <2>1, <2>2
  <2> QED BY <2>2, <2>3 DEF Connected
<1> QED BY <1>4, <1>5 DEF n

(* Of a set there is one sorted sequence.                                  *)
LEMMA SameSorted ==
  ASSUME NEW M, NEW R, Strict(R, M), NEW c \in Seq(M), NEW d \in Seq(M),
         \A i, j \in 1..Len(c) : i < j => <<c[i], c[j]>> \in R,
         \A i, j \in 1..Len(d) : i < j => <<d[i], d[j]>> \in R,
         {c[i] : i \in 1..Len(c)} = {d[i] : i \in 1..Len(d)}
  PROVE  c = d
<1>1. Len(c) \in Nat /\ Len(d) \in Nat /\ (\A i \in 1..Len(c) : c[i] \in M)
      /\ \A i \in 1..Len(d) : d[i] \in M
  OBVIOUS
<1>2. /\ \A i \in 1..Len(c) : \E j \in 1..Len(d) : c[i] = d[j]
      /\ \A j \in 1..Len(d) : \E i \in 1..Len(c) : d[j] = c[i]
  OBVIOUS
<1>3. /\ \A i, j \in 1..Len(c) : c[i] = c[j] => i = j
      /\ \A i, j \in 1..Len(d) : d[i] = d[j] => i = j
  <2>1. \A a \in M : <<a, a>> \notin R
    BY DEF Strict
  <2>2. \A i, j \in 1..Len(c) : i = j \/ i < j \/ j < i
    OBVIOUS
  <2>3. \A i, j \in 1..Len(d) : i = j \/ i < j \/ j < i
    OBVIOUS
  <2>4. \A i, j \in 1..Len(c) : c[i] = c[j] => i = j
    BY <1>1, <2>1, <2>2, Zenon
  <2>5. \A i, j \in 1..Len(d) : d[i] = d[j] => i = j
    BY <1>1, <2>1, <2>3, Zenon
  <2> QED BY <2>4, <2>5
<1> DEFINE Good == {k \in 0..Len(c) : k <= Len(d) /\ \A i \in 1..k : c[i] = d[i]}
<1>4. 0 \in Good
  BY <1>1
<1>5. ASSUME NEW k \in 0..Len(c), k < Len(c), k \in Good
      PROVE  k + 1 \in Good
  <2>1. k + 1 \in 1..Len(c) /\ k \in Int /\ k <= Len(d) /\ \A i \in 1..k : c[i] = d[i]
    BY <1>1, <1>5
  <2>2. PICK j \in 1..Len(d) : c[k + 1] = d[j]
    BY <1>2, <2>1
  <2>3. j > k
    <3> SUFFICES ASSUME j <= k PROVE FALSE
      BY <2>1
    <3>1. j \in 1..k /\ j \in 1..Len(c)
      BY <1>5, <2>1
    <3>2. c[j] = c[k + 1]
      BY <2>1, <2>2, <3>1
    <3> QED BY <1>3, <2>1, <3>1, <3>2
  <2>4. k + 1 \in 1..Len(d)
    BY <1>1, <2>1, <2>3
  <2>5. PICK m \in 1..Len(c) : d[k + 1] = c[m]
    BY <1>2, <2>4
  <2>6. m > k
    <3> SUFFICES ASSUME m <= k PROVE FALSE
      BY <2>1
    <3>1. m \in 1..k /\ m \in 1..Len(d)
      BY <1>1, <2>1
    <3>2. d[m] = d[k + 1]
      BY <2>1, <2>5, <3>1
    <3> QED BY <1>3, <2>1, <2>4, <3>1, <3>2
  <2>7. j = k + 1
    <3> SUFFICES ASSUME j # k + 1 PROVE FALSE
      OBVIOUS
    <3>1. k + 1 < j
      BY <2>1, <2>3
    <3>2. <<d[k + 1], c[k + 1]>> \in R
      BY <2>2, <2>4, <3>1
    <3>3. m = k + 1 \/ k + 1 < m
      BY <2>1, <2>6
    <3>4. c[k + 1] = d[k + 1] \/ <<c[k + 1], d[k + 1]>> \in R
      BY <2>1, <2>5, <3>3
    <3>5. c[k + 1] \in M /\ d[k + 1] \in M
      BY <1>1, <2>1, <2>4
    <3>6. ~ (<<d[k + 1], d[k + 1]>> \in R)
      BY <3>5 DEF Strict
    <3>7. <<d[k + 1], c[k + 1]>> \in R /\ <<c[k + 1], d[k + 1]>> \in R
            => <<d[k + 1], d[k + 1]>> \in R
      BY <3>5 DEF Strict
    <3> QED BY <3>2, <3>4, <3>6, <3>7
  <2>8. c[k + 1] = d[k + 1]
    BY <2>2, <2>7
  <2>9. \A i \in 1..k + 1 : i \in 1..k \/ i = k + 1
    BY <2>1
  <2> QED BY <2>1, <2>4, <2>8, <2>9
<1> HIDE DEF Good
<1>6. Len(c) \in Good
  BY <1>1, <1>4, <1>5, UpTo
<1>7. Len(c) <= Len(d) /\ \A i \in 1..Len(c) : c[i] = d[i]
  BY <1>6 DEF Good
<1>8. Len(c) = Len(d)
  <2> SUFFICES ASSUME Len(c) < Len(d) PROVE FALSE
    BY <1>1, <1>7
  <2>1. Len(d) \in 1..Len(d)
    BY <1>1
  <2>2. PICK i \in 1..Len(c) : d[Len(d)] = c[i]
    BY <1>2, <2>1
  <2>3. i \in 1..Len(d) /\ d[i] = d[Len(d)] /\ i # Len(d)
    BY <1>1, <1>7, <2>2
  <2> QED BY <1>3, <2>1, <2>3
<1> QED BY <1>7, <1>8

-----------------------------------------------------------------------------
(* Swings, and the two orders the analysis puts them in.                   *)

Swings == [at : Nat, kind : Market!Kinds, price : Int]
InTime == {p \in Swings \X Swings : Market!Earlier(p[1], p[2])}
InPrice == {p \in Swings \X Swings : Market!Cheaper(p[1], p[2])}

LEMMA SameSize ==
    \A T : (Market!IsFiniteSet(T) <=> IsFiniteSet(T)) /\ Market!Cardinality(T) = Cardinality(T)
<1>1. \A T : Market!IsFiniteSet(T) <=> IsFiniteSet(T)
  BY DEF Market!IsFiniteSet, IsFiniteSet
<1> QED BY <1>1 DEF Market!Cardinality, Cardinality

LEMMA BarsAreNumbers ==
    /\ \A b \in Shapes : /\ b.low \in Int /\ b.close \in Int /\ b.high \in Int
                         /\ b.low <= b.close /\ b.close <= b.high
    /\ \A atr \in AtrValues : atr \in Nat /\ atr % 40 = 0
  BY RulesAssumption DEF RulesAssumption, Market!LocationAssumption

LEMMA SwingsTyped ==
  ASSUME NEW bs \in Seq(Shapes)
  PROVE  /\ Market!ConfirmedSwings(bs) \subseteq Swings
         /\ \A s \in Market!ConfirmedSwings(bs) : s.at \in 1..Len(bs)
         /\ \A s, u \in Market!ConfirmedSwings(bs) : s.at = u.at /\ s.kind = u.kind => s = u
<1>1. \A s \in Market!ConfirmedSwings(bs) :
        \E kind \in Market!Kinds, i \in Market!FirstHost(bs) .. Len(bs) - Right :
          s = Market!SwingAt(bs, kind, i)
  <2> DEFINE Where == Market!FirstHost(bs) .. Len(bs) - Right
  <2>1. Market!ConfirmedSwings(bs) = Market!SwingsAmong(bs, Where, Right)
    BY DEF Market!ConfirmedSwings
  <2> HIDE DEF Where
  <2>2. \A s \in Market!SwingsAmong(bs, Where, Right) :
          \E kind \in Market!Kinds, i \in Where : s = Market!SwingAt(bs, kind, i)
    BY SwingsWhere
  <2> QED BY <2>1, <2>2 DEF Where
<1>2. \A i \in Market!FirstHost(bs) .. Len(bs) - Right : i \in 1..Len(bs) /\ i \in Nat
  BY MarketConstants, HostAfterLeft
<1>3. \A i \in 1..Len(bs) : bs[i] \in Shapes
  OBVIOUS
<1>4. ASSUME NEW kind \in Market!Kinds, NEW i \in 1..Len(bs), i \in Nat
      PROVE  Market!SwingAt(bs, kind, i) \in Swings /\ Market!SwingAt(bs, kind, i).at = i
             /\ Market!SwingAt(bs, kind, i).kind = kind
  <2>1. bs[i].high \in Int /\ bs[i].low \in Int
    BY <1>3, BarsAreNumbers
  <2> QED BY <1>4, <2>1 DEF Swings, Market!SwingAt
<1>5. \A s \in Market!ConfirmedSwings(bs) : s \in Swings /\ s.at \in 1..Len(bs)
  BY <1>1, <1>2, <1>4
<1>6. \A s \in Market!ConfirmedSwings(bs) : s = Market!SwingAt(bs, s.kind, s.at)
  BY <1>1, <1>2, <1>4
<1> QED BY <1>5, <1>6

LEMMA SwingsFinite ==
  ASSUME NEW bs \in Seq(Shapes)
  PROVE  IsFiniteSet(Market!ConfirmedSwings(bs))
<1> DEFINE T == Market!ConfirmedSwings(bs)
           n == 2 * Len(bs) + 1
           Place == [s \in T |-> IF s.kind = "HIGH" THEN 2 * s.at ELSE 2 * s.at + 1]
<1>1. /\ T \subseteq Swings /\ \A s \in T : s.at \in 1..Len(bs)
      /\ \A s, u \in T : s.at = u.at /\ s.kind = u.kind => s = u
  BY SwingsTyped
<1>2. \A s \in T : s.kind = "HIGH" \/ s.kind = "LOW"
  BY <1>1 DEF Swings, Market!Kinds, Market!HIGH, Market!LOW
<1>3. Len(bs) \in Nat
  OBVIOUS
<1> HIDE DEF T
<1>4. Place \in [T -> 1..n]
  BY <1>1, <1>2, <1>3
<1>5. ASSUME NEW s \in T, NEW u \in T, Place[s] = Place[u]
      PROVE  s = u
  <2>1. s.at \in Int /\ u.at \in Int
    BY <1>1, <1>3
  <2>2. s.at = u.at /\ s.kind = u.kind
    BY <1>2, <1>5, <2>1
  <2> QED BY <1>1, <2>2
<1>6. Place \in Injection(T, 1..n)
  <2> HIDE DEF Place, n
  <2> QED BY <1>4, <1>5 DEF Injection, IsInjective
<1>7. IsFiniteSet(1..n)
  <2>1. n \in Int /\ 1 \in Int
    BY <1>3
  <2> HIDE DEF n
  <2> QED BY <2>1, FS_Interval
<1>8. IsFiniteSet(T)
  <2> HIDE DEF Place, n
  <2> QED BY <1>6, <1>7, FS_Injection
<1> QED BY <1>8 DEF T

LEMMA OrdersAreStrict == Strict(InTime, Swings) /\ Strict(InPrice, Swings)
<1>1. \A s \in Swings : s.at \in Int /\ s.price \in Int /\ s.kind \in {"HIGH", "LOW"}
  BY DEF Swings, Market!Kinds, Market!HIGH, Market!LOW
<1>2. \A s, u \in Swings : <<s, u>> \in InTime <=>
        s.at < u.at \/ (s.at = u.at /\ s.kind = "HIGH" /\ u.kind = "LOW")
  BY DEF InTime, Market!Earlier, Market!HIGH, Market!LOW
<1>3. \A s, u \in Swings : <<s, u>> \in InPrice <=>
        s.price < u.price \/ (s.price = u.price /\ s.at < u.at)
  BY DEF InPrice, Market!Cheaper
<1> HIDE DEF InTime, InPrice
<1>4. Strict(InTime, Swings)
  BY <1>1, <1>2 DEF Strict
<1>5. Strict(InPrice, Swings)
  BY <1>1, <1>3 DEF Strict
<1> QED BY <1>4, <1>5

(* Each order, on the swings it sorts, is a line.                          *)
LEMMA Chronology ==
  ASSUME NEW bs \in Seq(Shapes)
  PROVE  Market!Chronological(Market!ConfirmedSwings(bs)) \in Seq(Market!ConfirmedSwings(bs))
<1> DEFINE T == Market!ConfirmedSwings(bs)
           seq == Market!Chronological(T)
<1>1. /\ T \subseteq Swings /\ IsFiniteSet(T)
      /\ \A s, u \in T : s.at = u.at /\ s.kind = u.kind => s = u
  BY SwingsTyped, SwingsFinite
<1> HIDE DEF T
<1>2. Strict(InTime, T)
  BY <1>1, OrdersAreStrict DEF Strict
<1>3. \A s, u \in T : <<s, u>> \in InTime <=> Market!Earlier(s, u)
  BY <1>1 DEF InTime
<1>4. Connected(InTime, T)
  <2>1. \A s \in T : s.at \in Int /\ s.kind \in {"HIGH", "LOW"}
    BY <1>1 DEF Swings, Market!Kinds, Market!HIGH, Market!LOW
  <2>2. \A s, u \in T : s = u \/ Market!Earlier(s, u) \/ Market!Earlier(u, s)
    BY <1>1, <2>1 DEF Market!Earlier, Market!HIGH, Market!LOW
  <2> QED BY <1>3, <2>2 DEF Connected
<1>5. \A s \in T : {u \in T : Market!Earlier(u, s)} = Below(InTime, T, s)
  BY <1>3 DEF Below
<1>6. \A i \in 1..Cardinality(T) : \E s \in T :
        Market!Cardinality({u \in T : Market!Earlier(u, s)}) = i - 1
  <2>1. \A i \in 1..Cardinality(T) : \E s \in T : Cardinality(Below(InTime, T, s)) = i - 1
    BY <1>1, <1>2, <1>4, Ranked
  <2>2. \A s \in T : Market!Cardinality({u \in T : Market!Earlier(u, s)})
                      = Cardinality(Below(InTime, T, s))
    BY <1>5, SameSize
  <2> QED BY <2>1, <2>2, Zenon
<1>7. seq = [i \in 1..Cardinality(T) |->
               CHOOSE s \in T : Market!Cardinality({u \in T : Market!Earlier(u, s)}) = i - 1]
  BY SameSize DEF Market!Chronological, Market!InOrder
<1> HIDE DEF seq
<1>8. seq \in [1..Cardinality(T) -> T]
  BY <1>6, <1>7, Zenon
<1>9. \A i \in 1..Cardinality(T) :
        Market!Cardinality({u \in T : Market!Earlier(u, seq[i])}) = i - 1
  BY <1>6, <1>7, Zenon
<1>10. \A i \in 1..Cardinality(T) : Cardinality(Below(InTime, T, seq[i])) = i - 1
  BY <1>5, <1>8, <1>9, SameSize
<1>11. seq \in Seq(T)
  BY <1>1, <1>2, <1>4, <1>8, <1>10, Sorted
<1> QED BY <1>11 DEF seq, T

LEMMA PriceOrder ==
  ASSUME NEW T, T \subseteq Swings, IsFiniteSet(T), \A s, u \in T : s.at = u.at => s = u
  PROVE  /\ Market!InOrder(T, Market!Cheaper) \in Seq(T)
         /\ \A i, j \in 1..Len(Market!InOrder(T, Market!Cheaper)) :
              i < j => <<Market!InOrder(T, Market!Cheaper)[i],
                         Market!InOrder(T, Market!Cheaper)[j]>> \in InPrice
<1> DEFINE seq == Market!InOrder(T, Market!Cheaper)
<1>1. /\ T \subseteq Swings /\ IsFiniteSet(T)
      /\ \A s, u \in T : s.at = u.at => s = u
  OBVIOUS
<1>2. Strict(InPrice, T)
  BY <1>1, OrdersAreStrict DEF Strict
<1>3. \A s, u \in T : <<s, u>> \in InPrice <=> Market!Cheaper(s, u)
  BY <1>1 DEF InPrice
<1>4. Connected(InPrice, T)
  <2>1. \A s \in T : s.at \in Int /\ s.price \in Int
    BY <1>1 DEF Swings
  <2>2. \A s, u \in T : s = u \/ Market!Cheaper(s, u) \/ Market!Cheaper(u, s)
    BY <1>1, <2>1 DEF Market!Cheaper
  <2> QED BY <1>3, <2>2 DEF Connected
<1>5. \A s \in T : {u \in T : Market!Cheaper(u, s)} = Below(InPrice, T, s)
  BY <1>3 DEF Below
<1>6. \A i \in 1..Cardinality(T) : \E s \in T :
        Market!Cardinality({u \in T : Market!Cheaper(u, s)}) = i - 1
  <2>1. \A i \in 1..Cardinality(T) : \E s \in T : Cardinality(Below(InPrice, T, s)) = i - 1
    BY <1>1, <1>2, <1>4, Ranked
  <2>2. \A s \in T : Market!Cardinality({u \in T : Market!Cheaper(u, s)})
                      = Cardinality(Below(InPrice, T, s))
    BY <1>5, SameSize
  <2> QED BY <2>1, <2>2, Zenon
<1>7. seq = [i \in 1..Cardinality(T) |->
               CHOOSE s \in T : Market!Cardinality({u \in T : Market!Cheaper(u, s)}) = i - 1]
  BY SameSize DEF Market!InOrder
<1> HIDE DEF seq
<1>8. seq \in [1..Cardinality(T) -> T]
  BY <1>6, <1>7, Zenon
<1>9. \A i \in 1..Cardinality(T) :
        Market!Cardinality({u \in T : Market!Cheaper(u, seq[i])}) = i - 1
  BY <1>6, <1>7, Zenon
<1>10. \A i \in 1..Cardinality(T) : Cardinality(Below(InPrice, T, seq[i])) = i - 1
  BY <1>5, <1>8, <1>9, SameSize
<1>11. seq \in Seq(T) /\ \A i, j \in 1..Len(seq) : i < j => <<seq[i], seq[j]>> \in InPrice
  BY <1>1, <1>2, <1>4, <1>8, <1>10, Sorted
<1> QED BY <1>11 DEF seq

LEMMA OfKindOK ==
  ASSUME NEW W, NEW q \in Seq(W), NEW kind
  PROVE  Market!OfKind(q, kind) \in Seq(W)
<1> DEFINE Over(iter) == iter = [s \in SUBSET DOMAIN q |->
                             IF s = {} THEN <<>>
                             ELSE IF q[Market!Max(s)].kind = kind
                                  THEN Append(iter[s \ {Market!Max(s)}], q[Market!Max(s)])
                                  ELSE iter[s \ {Market!Max(s)}]]
           n == Len(q)
           Step == [p \in Seq(W) \X (1..n) |->
                      IF q[p[2]].kind = kind THEN Append(p[1], q[p[2]]) ELSE p[1]]
<1>1. Market!OfKind(q, kind) = (CHOOSE iter : Over(iter))[DOMAIN q]
  BY Zenon DEF Market!OfKind, Market!Those, Market!FoldLeft, Market!MapThenFoldSet
<1>2. DOMAIN q = 1..n /\ n \in Nat /\ \A i \in 1..n : q[i] \in W
  OBVIOUS
<1>3. Step \in [Seq(W) \X (1..n) -> Seq(W)]
  BY <1>2
<1> HIDE DEF n
<1>4. PICK iter \in [SUBSET (1..n) -> Seq(W)] : Goes(iter, n, <<>>, Step)
  <2> HIDE DEF Step
  <2>1. <<>> \in Seq(W) /\ n \in Nat
    BY <1>2
  <2> QED BY <1>3, <2>1, FoldTyped, Zenon
<1>5. Over(iter)
  <2>1. ASSUME NEW s \in SUBSET (1..n), s # {}
        PROVE  Step[<<iter[s \ {Market!Max(s)}], Market!Max(s)>>]
                 = IF q[Market!Max(s)].kind = kind
                   THEN Append(iter[s \ {Market!Max(s)}], q[Market!Max(s)])
                   ELSE iter[s \ {Market!Max(s)}]
    <3>1. Market!Max(s) \in 1..n /\ iter[s \ {Market!Max(s)}] \in Seq(W)
      BY <1>2, <2>1, MostOf
    <3> QED BY <3>1
  <2> HIDE DEF Step
  <2> QED BY <1>2, <1>4, <2>1, Zenon DEF Goes
<1>6. ASSUME NEW it, Over(it)
      PROVE  it[1..n] \in Seq(W)
  <2>1. it[{}] \in Seq(W)
    BY <1>2, <1>6
  <2>2. ASSUME NEW s \in SUBSET (1..n), s # {}, it[s \ {Market!Max(s)}] \in Seq(W)
        PROVE  it[s] \in Seq(W)
    <3>1. Market!Max(s) \in 1..n
      BY <1>2, <2>2, MostOf
    <3>2. it[s] = IF q[Market!Max(s)].kind = kind
                  THEN Append(it[s \ {Market!Max(s)}], q[Market!Max(s)])
                  ELSE it[s \ {Market!Max(s)}]
      BY <1>2, <1>6, <2>2
    <3> QED BY <1>2, <2>2, <3>1, <3>2
  <2> QED BY <1>2, <2>1, <2>2, FoldKeeps
<1> HIDE DEF Over
<1>7. Over(CHOOSE it : Over(it))
  BY <1>5
<1> QED BY <1>1, <1>2, <1>6, <1>7

LEMMA UpToBarOK ==
  ASSUME NEW W, NEW q \in Seq(W), NEW limit
  PROVE  Market!UpToBar(q, limit) \in Seq(W)
<1> DEFINE Over(iter) == iter = [s \in SUBSET DOMAIN q |->
                             IF s = {} THEN <<>>
                             ELSE IF q[Market!Max(s)].at < limit
                                  THEN Append(iter[s \ {Market!Max(s)}], q[Market!Max(s)])
                                  ELSE iter[s \ {Market!Max(s)}]]
           n == Len(q)
           Step == [p \in Seq(W) \X (1..n) |->
                      IF q[p[2]].at < limit THEN Append(p[1], q[p[2]]) ELSE p[1]]
<1>1. Market!UpToBar(q, limit) = (CHOOSE iter : Over(iter))[DOMAIN q]
  BY Zenon DEF Market!UpToBar, Market!Those, Market!FoldLeft, Market!MapThenFoldSet
<1>2. DOMAIN q = 1..n /\ n \in Nat /\ \A i \in 1..n : q[i] \in W
  OBVIOUS
<1>3. Step \in [Seq(W) \X (1..n) -> Seq(W)]
  BY <1>2
<1> HIDE DEF n
<1>4. PICK iter \in [SUBSET (1..n) -> Seq(W)] : Goes(iter, n, <<>>, Step)
  <2> HIDE DEF Step
  <2>1. <<>> \in Seq(W) /\ n \in Nat
    BY <1>2
  <2> QED BY <1>3, <2>1, FoldTyped, Zenon
<1>5. Over(iter)
  <2>1. ASSUME NEW s \in SUBSET (1..n), s # {}
        PROVE  Step[<<iter[s \ {Market!Max(s)}], Market!Max(s)>>]
                 = IF q[Market!Max(s)].at < limit
                   THEN Append(iter[s \ {Market!Max(s)}], q[Market!Max(s)])
                   ELSE iter[s \ {Market!Max(s)}]
    <3>1. Market!Max(s) \in 1..n /\ iter[s \ {Market!Max(s)}] \in Seq(W)
      BY <1>2, <2>1, MostOf
    <3> QED BY <3>1
  <2> HIDE DEF Step
  <2> QED BY <1>2, <1>4, <2>1, Zenon DEF Goes
<1>6. ASSUME NEW it, Over(it)
      PROVE  it[1..n] \in Seq(W)
  <2>1. it[{}] \in Seq(W)
    BY <1>2, <1>6
  <2>2. ASSUME NEW s \in SUBSET (1..n), s # {}, it[s \ {Market!Max(s)}] \in Seq(W)
        PROVE  it[s] \in Seq(W)
    <3>1. Market!Max(s) \in 1..n
      BY <1>2, <2>2, MostOf
    <3>2. it[s] = IF q[Market!Max(s)].at < limit
                  THEN Append(it[s \ {Market!Max(s)}], q[Market!Max(s)])
                  ELSE it[s \ {Market!Max(s)}]
      BY <1>2, <1>6, <2>2
    <3> QED BY <1>2, <2>2, <3>1, <3>2
  <2> QED BY <1>2, <2>1, <2>2, FoldKeeps
<1> HIDE DEF Over
<1>7. Over(CHOOSE it : Over(it))
  BY <1>5
<1> QED BY <1>1, <1>2, <1>6, <1>7

LEMMA AlternatingOK ==
  ASSUME NEW W, NEW q \in Seq(W)
  PROVE  Market!Alternating(q) \in Seq(W)
<1> DEFINE Turn(out, s) == IF out = <<>> \/ Market!Last(out).kind # s.kind THEN Append(out, s)
                           ELSE IF (IF s.kind = Market!HIGH THEN s.price > Market!Last(out).price
                                   ELSE s.price < Market!Last(out).price)
                               THEN Append(Market!Front(out), s) ELSE out
           Over(iter) == iter = [s \in SUBSET DOMAIN q |->
                             IF s = {} THEN <<>>
                             ELSE Turn(iter[s \ {Market!Max(s)}], q[Market!Max(s)])]
           n == Len(q)
           Step == [p \in Seq(W) \X (1..n) |-> Turn(p[1], q[p[2]])]
<1>1. Market!Alternating(q) = (CHOOSE iter : Over(iter))[DOMAIN q]
  BY Zenon DEF Market!Alternating, Market!FoldLeft, Market!MapThenFoldSet
<1>2. DOMAIN q = 1..n /\ n \in Nat /\ \A i \in 1..n : q[i] \in W
  OBVIOUS
<1>3. ASSUME NEW out \in Seq(W), NEW s \in W
      PROVE  Turn(out, s) \in Seq(W)
  <2>1. Append(out, s) \in Seq(W)
    OBVIOUS
  <2>2. ASSUME out # <<>>
        PROVE  Market!Front(out) \in Seq(W)
    BY <2>2 DEF Market!Front
  <2>3. out # <<>> => Append(Market!Front(out), s) \in Seq(W)
    BY <2>2
  <2> QED BY <2>1, <2>3
<1> HIDE DEF Turn
<1>4. Step \in [Seq(W) \X (1..n) -> Seq(W)]
  BY <1>2, <1>3
<1> HIDE DEF n
<1>5. PICK iter \in [SUBSET (1..n) -> Seq(W)] : Goes(iter, n, <<>>, Step)
  <2> HIDE DEF Step
  <2>1. <<>> \in Seq(W) /\ n \in Nat
    BY <1>2
  <2> QED BY <1>4, <2>1, FoldTyped, Zenon
<1>6. Over(iter)
  <2>1. ASSUME NEW s \in SUBSET (1..n), s # {}
        PROVE  Step[<<iter[s \ {Market!Max(s)}], Market!Max(s)>>]
                 = Turn(iter[s \ {Market!Max(s)}], q[Market!Max(s)])
    <3>1. Market!Max(s) \in 1..n /\ iter[s \ {Market!Max(s)}] \in Seq(W)
      BY <1>2, <2>1, MostOf
    <3> QED BY <3>1
  <2> HIDE DEF Step
  <2> QED BY <1>2, <1>5, <2>1, Zenon DEF Goes
<1>7. ASSUME NEW it, Over(it)
      PROVE  it[1..n] \in Seq(W)
  <2>1. it[{}] \in Seq(W)
    BY <1>2, <1>7
  <2>2. ASSUME NEW s \in SUBSET (1..n), s # {}, it[s \ {Market!Max(s)}] \in Seq(W)
        PROVE  it[s] \in Seq(W)
    <3>1. Market!Max(s) \in 1..n
      BY <1>2, <2>2, MostOf
    <3>2. it[s] = Turn(it[s \ {Market!Max(s)}], q[Market!Max(s)])
      BY <1>2, <1>7, <2>2
    <3>3. q[Market!Max(s)] \in W
      BY <1>2, <3>1
    <3>4. it[s \ {Market!Max(s)}] \in Seq(W)
      BY <2>2
    <3> HIDE DEF Over
    <3>5. Turn(it[s \ {Market!Max(s)}], q[Market!Max(s)]) \in Seq(W)
      BY <1>3, <3>3, <3>4
    <3> QED BY <3>2, <3>5
  <2> QED BY <1>2, <2>1, <2>2, FoldKeeps
<1> HIDE DEF Over
<1>8. Over(CHOOSE it : Over(it))
  BY <1>6
<1> QED BY <1>1, <1>2, <1>7, <1>8

(* Clusters of swings of E: not empty, and in the order of price.          *)
Lines(E) == {c \in Seq(E) : c # <<>> /\ \A i, j \in 1..Len(c) : i < j => <<c[i], c[j]>> \in InPrice}

LEMMA Lengthened ==
  ASSUME NEW E, NEW x, \A e \in E : <<e, x>> \in InPrice
  PROVE  /\ Lines(E) \subseteq Lines(E \cup {x})
         /\ <<x>> \in Lines(E \cup {x})
         /\ \A c \in Lines(E) : Append(c, x) \in Lines(E \cup {x})
<1>1. Lines(E) \subseteq Lines(E \cup {x})
  <2>1. \A c \in Seq(E) : c \in Seq(E \cup {x})
    OBVIOUS
  <2> QED BY <2>1 DEF Lines
<1>2. <<x>> \in Lines(E \cup {x})
  <2>1. <<x>> \in Seq(E \cup {x}) /\ Len(<<x>>) = 1 /\ <<x>> # <<>>
    OBVIOUS
  <2>2. \A i, j \in 1..1 : ~ (i < j)
    OBVIOUS
  <2> QED BY <2>1, <2>2 DEF Lines
<1>3. ASSUME NEW c \in Lines(E)
      PROVE  Append(c, x) \in Lines(E \cup {x})
  <2> DEFINE d == Append(c, x)
  <2>1. c \in Seq(E) /\ \A i, j \in 1..Len(c) : i < j => <<c[i], c[j]>> \in InPrice
    BY DEF Lines
  <2>2. /\ d \in Seq(E \cup {x}) /\ d # <<>> /\ Len(c) \in Nat /\ Len(d) = Len(c) + 1
        /\ d[Len(c) + 1] = x /\ \A i \in 1..Len(c) : d[i] = c[i] /\ d[i] \in E
    BY <2>1
  <2> HIDE DEF d
  <2>3. ASSUME NEW i \in 1..Len(d), NEW j \in 1..Len(d), i < j
        PROVE  <<d[i], d[j]>> \in InPrice
    <3>1. i \in 1..Len(c)
      BY <2>2, <2>3
    <3>2. CASE j \in 1..Len(c)
      BY <2>1, <2>2, <2>3, <3>1, <3>2
    <3>3. CASE j = Len(c) + 1
      BY <2>2, <3>1, <3>3
    <3> QED BY <2>2, <3>2, <3>3
  <2>4. d \in Lines(E \cup {x})
    BY <2>2, <2>3 DEF Lines
  <2> QED BY <2>4 DEF d
<1> QED BY <1>1, <1>2, <1>3

LEMMA ClustersOK ==
  ASSUME NEW swings, swings \subseteq Swings, IsFiniteSet(swings), NEW kind, NEW tolerance,
         \A s, u \in swings : s.at = u.at /\ s.kind = u.kind => s = u
  PROVE  \A c \in Market!ToSet(Market!Clusters(swings, kind, tolerance)) :
           c \in Lines({s \in swings : s.kind = kind})
<1> DEFINE T == {s \in swings : s.kind = kind}
           q == Market!InOrder(T, Market!Cheaper)
           n == Len(q)
           Join(out, s) ==
             IF /\ out # <<>>
                /\ Market!Distance(s.price * Len(Market!Last(out)), Market!Total(Market!Last(out)))
                     <= tolerance * Len(Market!Last(out))
             THEN Append(Market!Front(out), Append(Market!Last(out), s))
             ELSE Append(out, <<s>>)
           Over(iter) == iter = [s \in SUBSET DOMAIN q |->
                             IF s = {} THEN <<>>
                             ELSE Join(iter[s \ {Market!Max(s)}], q[Market!Max(s)])]
           V == Seq(Seq(T) \ {<<>>})
           Step == [p \in V \X (1..n) |-> Join(p[1], q[p[2]])]
<1>1. Market!Clusters(swings, kind, tolerance) = (CHOOSE iter : Over(iter))[DOMAIN q]
  BY Zenon DEF Market!Clusters, Market!FoldLeft, Market!MapThenFoldSet
<1>2. T \subseteq Swings /\ IsFiniteSet(T) /\ \A s, u \in T : s.at = u.at => s = u
  <2>1. T \in SUBSET swings
    OBVIOUS
  <2>2. IsFiniteSet(T)
    BY <2>1, FS_Subset
  <2> QED BY <2>2
<1>3. q \in Seq(T) /\ \A i, j \in 1..n : i < j => <<q[i], q[j]>> \in InPrice
  <2> HIDE DEF T
  <2> QED BY <1>2, PriceOrder
<1> HIDE DEF T, q
<1>4. DOMAIN q = 1..n /\ n \in Nat /\ \A i \in 1..n : q[i] \in T
  BY <1>3
<1>5. ASSUME NEW E, NEW F, NEW out \in Seq(E), NEW s,
             E \subseteq F, <<s>> \in F, \A c \in E : Append(c, s) \in F
      PROVE  Join(out, s) \in Seq(F)
  <2>1. out \in Seq(F)
    BY <1>5
  <2>2. Append(out, <<s>>) \in Seq(F)
    BY <1>5, <2>1
  <2>3. ASSUME out # <<>>
        PROVE  Market!Front(out) \in Seq(F) /\ Market!Last(out) \in E
    BY <2>1, <2>3 DEF Market!Front, Market!Last
  <2>4. out # <<>> => Append(Market!Front(out), Append(Market!Last(out), s)) \in Seq(F)
    <3> SUFFICES ASSUME out # <<>>
                 PROVE  Append(Market!Front(out), Append(Market!Last(out), s)) \in Seq(F)
      OBVIOUS
    <3>1. Append(Market!Last(out), s) \in F
      BY <1>5, <2>3
    <3> QED BY <2>3, <3>1
  <2> QED BY <2>2, <2>4
<1> HIDE DEF Join
<1>6. Step \in [V \X (1..n) -> V]
  <2>1. ASSUME NEW out \in V, NEW i \in 1..n
        PROVE  Join(out, q[i]) \in V
    <3>1. q[i] \in T
      BY <1>4
    <3>2. <<q[i]>> \in Seq(T) \ {<<>>} /\ \A c \in Seq(T) \ {<<>>} : Append(c, q[i]) \in Seq(T) \ {<<>>}
      BY <3>1
    <3> QED BY <1>5, <3>2
  <2> HIDE DEF V
  <2> QED BY <2>1
<1> HIDE DEF n
<1>7. PICK iter \in [SUBSET (1..n) -> V] : Goes(iter, n, <<>>, Step)
  <2>1. <<>> \in V /\ n \in Nat
    BY <1>4
  <2> HIDE DEF Step, V
  <2> QED BY <1>6, <2>1, FoldTyped, Zenon
<1>8. Over(iter)
  <2> HIDE DEF V
  <2>1. ASSUME NEW s \in SUBSET (1..n), s # {}
        PROVE  Step[<<iter[s \ {Market!Max(s)}], Market!Max(s)>>]
                 = Join(iter[s \ {Market!Max(s)}], q[Market!Max(s)])
    <3>1. Market!Max(s) \in 1..n /\ iter[s \ {Market!Max(s)}] \in V
      BY <1>4, <2>1, MostOf
    <3>2. <<iter[s \ {Market!Max(s)}], Market!Max(s)>> \in V \X (1..n)
      BY <3>1
    <3> QED BY <3>2
  <2> HIDE DEF Step
  <2> QED BY <1>4, <1>7, <2>1, Zenon DEF Goes
<1>9. ASSUME NEW it, Over(it)
      PROVE  it[1..n] \in Seq(Lines(T))
  <2> DEFINE Among(s) == {q[i] : i \in s}
             Good == {s \in SUBSET (1..n) : it[s] \in Seq(Lines(Among(s)))}
  <2>1. {} \in Good
    <3>1. it[{}] = <<>>
      BY <1>4, <1>9
    <3>2. \A A : <<>> \in Seq(A)
      OBVIOUS
    <3>3. {} \in SUBSET (1..n)
      OBVIOUS
    <3> HIDE DEF Among
    <3> QED BY <3>1, <3>2, <3>3
  <2>2. ASSUME NEW s \in SUBSET (1..n), s # {}, s \ {Market!Max(s)} \in Good
        PROVE  s \in Good
    <3> DEFINE m == Market!Max(s)
               E == Among(s \ {m})
               F == Among(s)
    <3>1. m \in s /\ m \in 1..n /\ \A i \in s \ {m} : i \in 1..n /\ i < m
      <4>1. m \in s /\ \A i \in s : i <= m
        BY <1>4, <2>2, MostOf
      <4> HIDE DEF m
      <4> QED BY <1>4, <4>1
    <3>2. it[s] = Join(it[s \ {m}], q[m])
      BY <1>4, <1>9, <2>2
    <3>3. it[s \ {m}] \in Seq(Lines(E))
      BY <2>2
    <3> HIDE DEF m
    <3>4. \A e \in E : <<e, q[m]>> \in InPrice
      BY <1>3, <3>1 DEF n
    <3>5. F = E \cup {q[m]}
      BY <3>1
    <3> HIDE DEF E, F
    <3>6. /\ Lines(E) \subseteq Lines(F) /\ <<q[m]>> \in Lines(F)
          /\ \A c \in Lines(E) : Append(c, q[m]) \in Lines(F)
      BY <3>4, <3>5, Lengthened
    <3>7. Join(it[s \ {m}], q[m]) \in Seq(Lines(F))
      BY <1>5, <3>3, <3>6
    <3> QED BY <3>2, <3>7 DEF F
  <2> HIDE DEF Good
  <2>3. 1..n \in Good
    BY <1>4, <2>1, <2>2, SubsetInduction
  <2>4. it[1..n] \in Seq(Lines(Among(1..n)))
    BY <2>3 DEF Good
  <2>5. Among(1..n) \subseteq T
    BY <1>4
  <2>6. Lines(Among(1..n)) \subseteq Lines(T)
    <3> HIDE DEF Among
    <3> QED BY <2>5 DEF Lines
  <2> HIDE DEF Among
  <2> QED BY <2>4, <2>6
<1> HIDE DEF Over
<1>10. Over(CHOOSE it : Over(it))
  BY <1>8
<1>11. Market!Clusters(swings, kind, tolerance) \in Seq(Lines(T))
  BY <1>1, <1>4, <1>9, <1>10
<1> QED BY <1>11 DEF Market!ToSet, T

-----------------------------------------------------------------------------
(* What the analysis of a series of bars is made of.                       *)

LEMMA SwingsInTime ==
  ASSUME NEW bs \in Seq(Shapes)
  PROVE  Market!Chronological(Market!ConfirmedSwings(bs)) \in Seq(Swings)
<1>1. Market!ConfirmedSwings(bs) \subseteq Swings
  BY SwingsTyped
<1>2. Market!Chronological(Market!ConfirmedSwings(bs)) \in Seq(Market!ConfirmedSwings(bs))
  BY Chronology
<1> QED BY <1>1, <1>2

LEMMA AnchorOK ==
  ASSUME NEW bs \in Seq(Shapes), NEW direction
  PROVE  LET anchor == Market!ActiveSwing(Market!Structure(bs), direction)
         IN  anchor = Market!Nothing \/ anchor \in Swings
<1> DEFINE seq == Market!Structure(bs).swings
           kind == IF direction > 0 THEN Market!LOW ELSE Market!HIGH
           own == {i \in DOMAIN seq : seq[i].kind = kind}
<1>1. seq \in Seq(Swings)
  <2>1. Market!Chronological(Market!ConfirmedSwings(bs)) \in Seq(Swings)
    BY SwingsInTime
  <2>2. seq = Market!Alternating(Market!Chronological(Market!ConfirmedSwings(bs)))
    BY DEF Market!Structure
  <2> QED BY <2>1, <2>2, AlternatingOK
<1>2. Market!ActiveSwing(Market!Structure(bs), direction)
        = IF own = {} THEN Market!Nothing ELSE seq[Market!Max(own)]
  BY DEF Market!ActiveSwing, kind
<1> HIDE DEF seq, kind
<1>3. own \subseteq 1..Len(seq) /\ Len(seq) \in Nat
  BY <1>1
<1> HIDE DEF own
<1>4. own # {} => Market!Max(own) \in own
  BY <1>3, MostOf
<1>5. own # {} => seq[Market!Max(own)] \in Swings
  <2>1. \A i \in 1..Len(seq) : seq[i] \in Swings
    BY <1>1
  <2> QED BY <1>3, <1>4, <2>1
<1> QED BY <1>2, <1>5

LEMMA RangeOK ==
  ASSUME NEW bs \in Seq(Shapes), NEW atr
  PROVE  LET range == Market!ActiveRange(bs, atr)
         IN  \/ range = Market!Nothing
             \/ range \in [high : Int, low : Int] /\ range.low < range.high
<1> DEFINE seq == Market!Chronological(Market!ConfirmedSwings(bs))
           highs == Market!OfKind(seq, Market!HIGH)
           lows == Market!OfKind(seq, Market!LOW)
           high == Market!Last(highs).price
           low == Market!Last(lows).price
<1>1. highs \in Seq(Swings) /\ lows \in Seq(Swings)
  <2>1. seq \in Seq(Swings)
    BY SwingsInTime
  <2> HIDE DEF seq
  <2> QED BY <2>1, OfKindOK
<1>2. Market!ActiveRange(bs, atr) =
        IF highs = <<>> \/ lows = <<>> THEN Market!Nothing
        ELSE IF high <= low \/ (atr > 0 /\ high - low < Market!OfAtr(atr, 150)) THEN Market!Nothing
        ELSE [high |-> high, low |-> low]
  BY Zenon DEF Market!ActiveRange
<1> HIDE DEF highs, lows
<1>3. highs # <<>> /\ lows # <<>> => high \in Int /\ low \in Int
  <2>1. ASSUME NEW q \in Seq(Swings), q # <<>>
        PROVE  Market!Last(q).price \in Int
    <3>1. Market!Last(q) \in Swings
      BY <2>1 DEF Market!Last
    <3>2. \A s \in Swings : s.price \in Int
      BY DEF Swings
    <3> QED BY <3>1, <3>2
  <2> QED BY <1>1, <2>1
<1> HIDE DEF high, low
<1> QED BY <1>2, <1>3

LEMMA SnapInteger ==
  ASSUME NEW quote \in Int, NEW tick \in Nat
  PROVE  Market!Snap(quote, tick) \in Int
  BY DEF Market!Snap

(* The clusters of the confirmed swings of one series.                     *)
LEMMA ClustersOfOK ==
  ASSUME NEW bs \in Seq(Shapes), NEW tolerance, NEW c \in Market!ClustersOf(bs, tolerance)
  PROVE  c \in Lines(Market!ConfirmedSwings(bs)) /\ c \in Lines(Swings)
<1>1. PICK kind \in Market!Kinds :
        c \in Market!ToSet(Market!Clusters(Market!ConfirmedSwings(bs), kind, tolerance))
  BY DEF Market!ClustersOf
<1>2. c \in Lines({s \in Market!ConfirmedSwings(bs) : s.kind = kind})
  BY <1>1, SwingsTyped, SwingsFinite, ClustersOK
<1>3. \A A, B : A \subseteq B => Lines(A) \subseteq Lines(B)
  BY DEF Lines
<1>4. {s \in Market!ConfirmedSwings(bs) : s.kind = kind} \subseteq Market!ConfirmedSwings(bs)
  OBVIOUS
<1>5. Market!ConfirmedSwings(bs) \subseteq Swings
  BY SwingsTyped
<1> QED BY <1>2, <1>3, <1>4, <1>5

LEMMA PoolPrice ==
  ASSUME NEW bs \in Seq(Shapes), NEW tick \in Nat, NEW atr,
         NEW pool \in Market!ScanLiquidity(bs, tick, atr)
  PROVE  pool.price \in Int
<1>1. \E tolerance : \E c \in Market!ClustersOf(bs, tolerance) : pool = Market!Pool(bs, c, tick, atr)
  BY DEF Market!ScanLiquidity
<1>2. PICK c \in Seq(Swings) : c # <<>> /\ pool = Market!Pool(bs, c, tick, atr)
  BY <1>1, ClustersOfOK DEF Lines
<1>3. Len(c) \in Nat /\ Len(c) > 0
  BY <1>2
<1>4. \A s \in Swings : s.price \in Int
  BY DEF Swings
<1>5. Market!Total(c) \in Int
  BY <1>2, <1>4, TotalOK
<1> DEFINE mean == Market!Snap(Market!Total(c) \div Len(c), tick)
<1>6. mean \in Int
  BY <1>3, <1>5, SnapInteger
<1>7. ASSUME NEW swept
      PROVE  LET before == Market!UpToBar(c, swept)
             IN  (IF before = <<>> THEN mean ELSE Market!Total(before) \div Len(before)) \in Int
  <2> DEFINE before == Market!UpToBar(c, swept)
  <2>1. before \in Seq(Swings)
    BY <1>2, UpToBarOK
  <2> HIDE DEF before, mean
  <2>2. Market!Total(before) \in Int
    BY <1>4, <2>1, TotalOK
  <2>3. before # <<>> => Len(before) \in Nat /\ Len(before) > 0
    BY <2>1
  <2>4. before # <<>> => Market!Total(before) \div Len(before) \in Int
    BY <2>2, <2>3
  <2> QED BY <1>6, <2>4 DEF before
<1>8. \E swept : pool.price = IF swept = 0 THEN mean
        ELSE LET before == Market!UpToBar(c, swept)
             IN  IF before = <<>> THEN mean ELSE Market!Total(before) \div Len(before)
  BY <1>2 DEF Market!Pool
<1> HIDE DEF mean
<1> QED BY <1>6, <1>7, <1>8

-----------------------------------------------------------------------------
(* Rounding to the grid of the broker.                                     *)

Multiple(p, tick) == \E k \in Int : p = k * tick

LEMMA Between ==
  ASSUME NEW n \in Int, NEW m \in Int, m > 0
  PROVE  n \div m \in Int /\ (n \div m) * m <= n /\ n < (n \div m) * m + m
  OBVIOUS

LEMMA OneQuotient ==
  ASSUME NEW m \in Int, m > 0, NEW p \in Int, NEW q \in Int, NEW r \in Int,
         p * m <= r, r < p * m + m, q * m <= r, r < q * m + m
  PROVE  p = q
<1>1. ASSUME NEW a \in Int, NEW b \in Int, a < b
      PROVE  a * m + m <= b * m
  <2>1. a + 1 <= b
    BY <1>1
  <2>2. (a + 1) * m <= b * m
    BY <2>1
  <2> QED BY <2>2
<1>2. ~ (p < q)
  BY <1>1
<1>3. ~ (q < p)
  BY <1>1
<1> QED BY <1>2, <1>3

LEMMA Nearest ==
  ASSUME NEW quote \in Int, NEW tick \in Nat, tick > 0
  PROVE  LET snapped == Market!Snap(quote, tick)
         IN  /\ snapped \in Int /\ 2 * (snapped - quote) <= tick /\ 2 * (quote - snapped) <= tick
             /\ Multiple(snapped, tick)
<1> DEFINE q == (2 * quote + tick) \div (2 * tick)
<1>1. q \in Int /\ q * (2 * tick) <= 2 * quote + tick /\ 2 * quote + tick < q * (2 * tick) + 2 * tick
  BY Between
<1>2. Market!Snap(quote, tick) = q * tick
  BY DEF Market!Snap
<1> HIDE DEF q
<1>3. q * tick \in Int /\ q * (2 * tick) = 2 * (q * tick)
  BY <1>1
<1>4. Multiple(Market!Snap(quote, tick), tick)
  BY <1>1, <1>2 DEF Multiple
<1>5. /\ Market!Snap(quote, tick) \in Int /\ 2 * (Market!Snap(quote, tick) - quote) <= tick
      /\ 2 * (quote - Market!Snap(quote, tick)) <= tick
  BY <1>1, <1>2, <1>3
<1> QED BY <1>4, <1>5

LEMMA OnGridAlready ==
  ASSUME NEW tick \in Nat, tick > 0, NEW quote, Multiple(quote, tick)
  PROVE  Market!Snap(quote, tick) = quote
<1> PICK k \in Int : quote = k * tick
  BY DEF Multiple
<1> SUFFICES Market!Snap(k * tick, tick) = k * tick
  OBVIOUS
<1> DEFINE q == (2 * (k * tick) + tick) \div (2 * tick)
           p == k * tick
<1>1. q \in Int /\ q * (2 * tick) <= 2 * p + tick /\ 2 * p + tick < q * (2 * tick) + 2 * tick
  BY Between
<1>2. k * (2 * tick) = 2 * p /\ p \in Int
  OBVIOUS
<1>3. Market!Snap(k * tick, tick) = q * tick
  BY DEF Market!Snap
<1> HIDE DEF q, p
<1>4. k * (2 * tick) <= 2 * p + tick /\ 2 * p + tick < k * (2 * tick) + 2 * tick
  BY <1>2
<1>5. q = k
  <2> DEFINE m == 2 * tick
             r == 2 * p + tick
  <2>1. m \in Int /\ m > 0 /\ r \in Int
    BY <1>2
  <2>2. k * m <= r /\ r < k * m + m /\ q * m <= r /\ r < q * m + m
    BY <1>1, <1>4
  <2> HIDE DEF m, r
  <2> QED BY <1>1, <2>1, <2>2, OneQuotient
<1> QED BY <1>3, <1>5

LEMMA SnapMonotone ==
  ASSUME NEW p \in Int, NEW q \in Int, p <= q, NEW tick \in Nat
  PROVE  Market!Snap(p, tick) <= Market!Snap(q, tick)
<1>1. CASE tick = 0
  BY <1>1 DEF Market!Snap
<1>2. CASE tick > 0
  <2> DEFINE k == (2 * p + tick) \div (2 * tick)
             l == (2 * q + tick) \div (2 * tick)
  <2>1. /\ k \in Int /\ k * (2 * tick) <= 2 * p + tick
        /\ l \in Int /\ 2 * q + tick < l * (2 * tick) + 2 * tick
    BY <1>2, Between
  <2>2. Market!Snap(p, tick) = k * tick /\ Market!Snap(q, tick) = l * tick
    BY <1>2 DEF Market!Snap
  <2> HIDE DEF k, l
  <2>3. /\ k * tick \in Int /\ k * (2 * tick) = 2 * (k * tick)
        /\ l * tick \in Int /\ l * (2 * tick) = 2 * (l * tick)
    BY <2>1
  <2>4. k * tick < l * tick + tick
    BY <2>1, <2>3
  <2>5. (l + 1) * tick = l * tick + tick
    BY <2>1
  <2>6. ~ (k >= l + 1)
    <3> SUFFICES ASSUME k >= l + 1 PROVE FALSE
      OBVIOUS
    <3>1. k * tick >= (l + 1) * tick
      BY <2>1
    <3> QED BY <2>3, <2>4, <2>5, <3>1
  <2>7. k <= l
    BY <2>1, <2>6
  <2>8. k * tick <= l * tick
    BY <2>1, <2>7
  <2> QED BY <2>2, <2>8
<1> QED BY <1>1, <1>2

(* Two prices of the grid less than two ticks apart are at most one apart. *)
LEMMA OneTickApart ==
  ASSUME NEW tick \in Nat, tick > 0, NEW p, Multiple(p, tick), NEW q, Multiple(q, tick),
         2 * (p - q) <= 3 * tick
  PROVE  p - q <= tick
<1> PICK k \in Int : p = k * tick
  BY DEF Multiple
<1> PICK l \in Int : q = l * tick
  BY DEF Multiple
<1>1. (k - l) * tick = p - q /\ (k - l) * tick \in Int
  OBVIOUS
<1>2. k - l <= 1
  <2> SUFFICES ASSUME k - l >= 2 PROVE FALSE
    OBVIOUS
  <2>1. (k - l) * tick >= 2 * tick
    OBVIOUS
  <2> QED BY <1>1, <2>1
<1>3. (k - l) * tick <= 1 * tick
  BY <1>2
<1> QED BY <1>1, <1>3

(* The rounded stop is held to its bounds, and stays on the grid.          *)
LEMMA HeldOK ==
  ASSUME NEW origin \in Int, NEW direction \in {-1, 1}, NEW tick \in Nat, tick > 0,
         NEW least \in Nat, NEW most \in Nat, tick <= most - least, tick < 4 * least,
         NEW sl \in Int, Multiple(sl, tick),
         2 * least - tick <= 2 * ((origin - sl) * direction),
         2 * ((origin - sl) * direction) <= 2 * most + tick
  PROVE  LET held == Market!HeldToBounds(origin, sl, direction, tick, least, most)
         IN  /\ held \in Int /\ Multiple(held, tick)
             /\ least <= (origin - held) * direction /\ (origin - held) * direction <= most
<1> DEFINE x == (origin - sl) * direction
           d == Market!Distance(origin, sl)
           low == (least - d) \div tick
           high == (d - most) \div tick
<1>1. x \in Int /\ d \in Int /\ d = IF x >= 0 THEN x ELSE -x
  BY DEF Market!Distance
<1>2. 2 * least - tick <= 2 * x /\ 2 * x <= 2 * most + tick
  OBVIOUS
<1>3. Market!HeldToBounds(origin, sl, direction, tick, least, most) =
        IF d < least THEN sl - direction * tick * (low + 1)
        ELSE IF d > most THEN sl + direction * tick * (high + 1)
        ELSE sl
  BY DEF Market!HeldToBounds
<1>4. \A w \in Int : (origin - (sl - direction * tick * w)) * direction = x + w * tick
  <2>1. CASE direction = 1
    BY <2>1
  <2>2. CASE direction = -1
    BY <2>2
  <2> QED BY <2>1, <2>2
<1>5. \A w \in Int : /\ sl - direction * tick * w \in Int
                     /\ Multiple(sl - direction * tick * w, tick)
  <2> TAKE w \in Int
  <2> PICK k \in Int : sl = k * tick
    BY DEF Multiple
  <2>1. sl - direction * tick * w = (k - direction * w) * tick
    OBVIOUS
  <2>2. k - direction * w \in Int /\ (k - direction * w) * tick \in Int
    OBVIOUS
  <2> QED BY <2>1, <2>2 DEF Multiple
<1> HIDE DEF x, d
<1>6. CASE d < least
  <2>1. low \in Int /\ low * tick <= least - d /\ least - d < low * tick + tick
    BY <1>1, Between
  <2> HIDE DEF low
  <2>2. (low + 1) * tick = low * tick + tick /\ low * tick \in Int
    BY <2>1
  <2>3. least <= x + (low + 1) * tick /\ x + (low + 1) * tick <= most
    <3>1. CASE x >= 0
      BY <1>1, <2>1, <2>2, <3>1
    <3>2. CASE x < 0
      <4>1. d = -x /\ 0 <= least - d /\ least - d < tick
        BY <1>1, <1>2, <1>6, <3>2
      <4>2. low = 0
        <5>1. 0 * tick <= least - d /\ least - d < 0 * tick + tick
          BY <4>1
        <5>2. least - d \in Int
          BY <1>1
        <5> QED BY <2>1, <5>1, <5>2, OneQuotient
      <4> QED BY <1>1, <1>2, <2>2, <3>2, <4>1, <4>2
    <3> QED BY <1>1, <3>1, <3>2
  <2>4. low + 1 \in Int
    BY <2>1
  <2> QED BY <1>3, <1>4, <1>5, <1>6, <2>3, <2>4
<1>7. CASE d > most
  <2>1. high \in Int /\ high * tick <= d - most /\ d - most < high * tick + tick
    BY <1>1, Between
  <2> HIDE DEF high
  <2>2. d = x /\ 0 <= d - most /\ d - most < tick
    BY <1>1, <1>2, <1>7
  <2>3. high = 0
    <3>1. 0 * tick <= d - most /\ d - most < 0 * tick + tick
      BY <2>2
    <3>2. d - most \in Int
      BY <1>1
    <3> QED BY <2>1, <3>1, <3>2, OneQuotient
  <2>4. sl + direction * tick * (high + 1) = sl - direction * tick * (-1)
    BY <2>3
  <2>5. least <= x + (-1) * tick /\ x + (-1) * tick <= most
    BY <1>1, <1>2, <1>7, <2>2
  <2>6. Market!HeldToBounds(origin, sl, direction, tick, least, most)
          = sl - direction * tick * (-1)
    BY <1>1, <1>2, <1>3, <1>7, <2>2, <2>4
  <2>7. -1 \in Int
    OBVIOUS
  <2> QED BY <1>4, <1>5, <2>5, <2>6, <2>7
<1>8. CASE least <= d /\ d <= most
  <2>1. d = x
    BY <1>1, <1>2, <1>8
  <2>2. Market!HeldToBounds(origin, sl, direction, tick, least, most) = sl
    BY <1>1, <1>3, <1>8
  <2> QED BY <1>1, <1>8, <2>1, <2>2 DEF x
<1> QED BY <1>1, <1>6, <1>7, <1>8

LEMMA RoundedApart ==
  ASSUME NEW origin \in Int, NEW direction \in {-1, 1}, NEW exact \in Int, NEW rounded \in Int,
         NEW tick \in Int, 2 * (rounded - exact) <= tick, 2 * (exact - rounded) <= tick,
         NEW least \in Int, NEW most \in Int,
         least <= (origin - exact) * direction, (origin - exact) * direction <= most
  PROVE  /\ (origin - rounded) * direction \in Int
         /\ 2 * least - tick <= 2 * ((origin - rounded) * direction)
         /\ 2 * ((origin - rounded) * direction) <= 2 * most + tick
<1>1. CASE direction = 1
  BY <1>1
<1>2. CASE direction = -1
  BY <1>2
<1> QED BY <1>1, <1>2

(* The structural stop exists and keeps its bounds whatever swing it hangs *)
(* on.                                                                     *)
LEMMA StructuralOK ==
  ASSUME NEW bs \in Seq(Shapes), NEW location, location.structure = Market!Structure(bs),
         location.atr # 0,
         NEW origin \in Int, NEW direction \in {-1, 1}, NEW tick \in Nat,
         NEW least \in Nat, NEW most \in Nat, least > 0, tick <= most - least, tick < 4 * least
  PROVE  LET draft == Market!StructuralStop(location, origin, direction, tick, least, most)
         IN  /\ draft # Market!Nothing /\ draft.price \in Int
             /\ tick > 0 => Multiple(draft.price, tick)
             /\ least <= (origin - draft.price) * direction
             /\ (origin - draft.price) * direction <= most
<1> DEFINE anchor == Market!ActiveSwing(location.structure, direction)
           usable == anchor # Market!Nothing /\ (origin - anchor.price) * direction > 0
           raw == IF usable THEN anchor.price ELSE origin - direction * least
           d == Market!Larger(least, Market!Smaller(Market!Distance(origin, raw), most))
           bounded == origin - direction * d
           final == IF tick = 0 THEN bounded
                    ELSE Market!HeldToBounds(origin, Market!Snap(bounded, tick), direction, tick,
                                             least, most)
           draft == Market!StructuralStop(location, origin, direction, tick, least, most)
<1>1. draft = IF direction = 0 \/ location.atr = 0 \/ final = origin THEN Market!Nothing
             ELSE [price |-> final]
  BY Zenon DEF Market!StructuralStop
<1> HIDE DEF draft
<1>2. raw \in Int
  <2>1. anchor = Market!Nothing \/ anchor \in Swings
    BY AnchorOK
  <2> HIDE DEF anchor
  <2>2. anchor # Market!Nothing => anchor.price \in Int
    BY <2>1 DEF Swings
  <2>3. origin - direction * least \in Int
    OBVIOUS
  <2> QED BY <2>2, <2>3
<1> HIDE DEF raw
<1>3. d \in Int /\ least <= d /\ d <= most
  BY <1>2 DEF Market!Distance, Market!Smaller, Market!Larger
<1> HIDE DEF d
<1>4. bounded \in Int /\ (origin - bounded) * direction = d
  <2>1. CASE direction = 1
    BY <1>3, <2>1
  <2>2. CASE direction = -1
    BY <1>3, <2>2
  <2> QED BY <2>1, <2>2
<1> HIDE DEF bounded
<1>5. /\ final \in Int
      /\ tick > 0 => Multiple(final, tick)
      /\ least <= (origin - final) * direction /\ (origin - final) * direction <= most
  <2>1. CASE tick = 0
    BY <1>3, <1>4, <2>1
  <2>2. CASE tick > 0
    <3> DEFINE sl == Market!Snap(bounded, tick)
    <3>1. /\ sl \in Int /\ 2 * (sl - bounded) <= tick /\ 2 * (bounded - sl) <= tick
          /\ Multiple(sl, tick)
      BY <1>4, <2>2, Nearest
    <3> HIDE DEF sl
    <3>2. least <= (origin - bounded) * direction /\ (origin - bounded) * direction <= most
      BY <1>3, <1>4
    <3>3. 2 * least - tick <= 2 * ((origin - sl) * direction)
          /\ 2 * ((origin - sl) * direction) <= 2 * most + tick
      <4>1. tick \in Int /\ least \in Int /\ most \in Int
        OBVIOUS
      <4> QED BY <1>4, <3>1, <3>2, <4>1, RoundedApart, Zenon
    <3> DEFINE held == Market!HeldToBounds(origin, sl, direction, tick, least, most)
    <3>4. final = held
      BY <2>2 DEF sl
    <3>5. /\ held \in Int /\ Multiple(held, tick)
          /\ least <= (origin - held) * direction /\ (origin - held) * direction <= most
      BY <2>2, <3>1, <3>3, HeldOK
    <3> HIDE DEF final, held
    <3> QED BY <3>4, <3>5
  <2> QED BY <2>1, <2>2
<1> HIDE DEF final
<1>6. final # origin
  BY <1>5
<1>7. draft = [price |-> final]
  BY <1>1, <1>6
<1>8. draft # Market!Nothing /\ draft.price = final
  BY <1>7 DEF Market!Nothing
<1>9. /\ draft # Market!Nothing /\ draft.price \in Int
      /\ tick > 0 => Multiple(draft.price, tick)
      /\ least <= (origin - draft.price) * direction /\ (origin - draft.price) * direction <= most
  BY <1>5, <1>8
<1> QED BY <1>9 DEF draft

LEMMA StopDefended == MarketInv => Market!StopIsDefensible
<1> SUFFICES ASSUME MarketInv, bars # <<>>, NEW t \in Ticks, NEW direction \in {-1, 1},
                    NEW slip \in {-1, 0, 1}
             PROVE  LET atr == view[t].atr
                        origin == view[t].price + slip
                        draft == Market!StructuralStop(view[t], origin, direction, t,
                                                      Market!OfAtr(atr, 75), Market!OfAtr(atr, 300))
                    IN  draft # Market!Nothing =>
                          /\ (origin - draft.price) * direction >= Market!OfAtr(atr, 75)
                          /\ (origin - draft.price) * direction <= Market!OfAtr(atr, 300)
  BY Zenon DEF Market!StopIsDefensible
<1> DEFINE atr == view[t].atr
           origin == view[t].price + slip
           draft == Market!StructuralStop(view[t], origin, direction, t,
                                         Market!OfAtr(atr, 75), Market!OfAtr(atr, 300))
<1>1. bars \in Seq(Shapes) /\ \E a \in AtrValues : view[t] = Market!AnalyseLocation(bars, t, a)
  BY DEF MarketInv
<1>2. /\ view[t].structure = Market!Structure(bars) /\ view[t].price = bars[Len(bars)].close
      /\ atr \in AtrValues
  BY <1>1 DEF Market!AnalyseLocation
<1>3. origin \in Int
  <2>1. bars[Len(bars)] \in Shapes
    BY <1>1
  <2>2. bars[Len(bars)].close \in Int
    BY <2>1, BarsAreNumbers
  <2> QED BY <1>2, <2>2
<1> HIDE DEF origin
<1>4. CASE atr = 0
  BY <1>4 DEF Market!StructuralStop
<1>5. CASE atr > 0
  <2>0. atr \in AtrValues /\ atr # 0
    BY <1>2, <1>5
  <2> HIDE DEF atr
  <2>1. atr \in Nat /\ t \in Nat /\ t <= Market!OfAtr(atr, 300) - Market!OfAtr(atr, 75)
    BY <2>0, MarketConstants, RulesAssumption DEF RulesAssumption, Market!PlanAssumption
  <2>2. /\ Market!OfAtr(atr, 75) \in Nat /\ Market!OfAtr(atr, 300) \in Nat
        /\ Market!OfAtr(atr, 75) > 0 /\ t < 4 * Market!OfAtr(atr, 75)
    <3>1. PICK k \in Nat : atr = 40 * k
      BY <2>0, <2>1, BarsAreNumbers
    <3>2. Market!OfAtr(atr, 75) = 30 * k /\ Market!OfAtr(atr, 300) = 120 * k
      BY <3>1 DEF Market!OfAtr
    <3> QED BY <1>5, <2>1, <3>1, <3>2
  <2> DEFINE least == Market!OfAtr(atr, 75)
             most == Market!OfAtr(atr, 300)
  <2>3. least \in Nat /\ most \in Nat /\ least > 0 /\ t <= most - least /\ t < 4 * least
    BY <2>1, <2>2
  <2> HIDE DEF least, most
  <2>4. LET p == Market!StructuralStop(view[t], origin, direction, t, least, most)
        IN  /\ p.price \in Int /\ least <= (origin - p.price) * direction
            /\ (origin - p.price) * direction <= most
    <3>1. view[t].atr # 0
      BY <2>0 DEF atr
    <3> QED BY <1>1, <1>2, <1>3, <2>1, <2>3, <3>1, StructuralOK
  <2>5. /\ draft.price \in Int /\ least <= (origin - draft.price) * direction
        /\ (origin - draft.price) * direction <= most
    BY <2>4 DEF least, most
  <2> HIDE DEF draft
  <2>6. (origin - draft.price) * direction >= least /\ (origin - draft.price) * direction <= most
    BY <1>3, <2>3, <2>5
  <2> QED BY <2>6 DEF draft, origin, least, most, atr
<1>6. atr = 0 \/ atr > 0
  <2>1. \A a \in AtrValues : a = 0 \/ a > 0
    BY MarketConstants
  <2> HIDE DEF atr
  <2> QED BY <1>2, <2>1
<1> QED BY <1>4, <1>5, <1>6

-----------------------------------------------------------------------------
(* The plan of an entry.                                                   *)

(* A price rounded beside the entry is where it was meant to be, up to     *)
(* half a tick.                                                            *)
LEMMA Beside ==
  ASSUME NEW at \in Int, NEW side \in {-1, 1}, NEW distance \in Int, NEW tick \in Nat, tick > 0
  PROVE  LET snapped == Market!Snap(at + side * distance, tick)
         IN  /\ snapped \in Int /\ (snapped - at) * side \in Int
             /\ 2 * distance - tick <= 2 * ((snapped - at) * side)
             /\ 2 * ((snapped - at) * side) <= 2 * distance + tick
<1> DEFINE exact == at + side * distance
           snapped == Market!Snap(exact, tick)
<1>1. exact \in Int /\ exact - at = side * distance
  OBVIOUS
<1> HIDE DEF exact
<1>2. snapped \in Int /\ 2 * (snapped - exact) <= tick /\ 2 * (exact - snapped) <= tick
  BY <1>1, Nearest
<1> HIDE DEF snapped
<1>3. /\ (snapped - at) * side \in Int
      /\ 2 * distance - tick <= 2 * ((snapped - at) * side)
      /\ 2 * ((snapped - at) * side) <= 2 * distance + tick
  <2>1. CASE side = 1
    BY <1>1, <1>2, <2>1
  <2>2. CASE side = -1
    BY <1>1, <1>2, <2>2
  <2> QED BY <2>1, <2>2
<1> QED BY <1>2, <1>3 DEF snapped, exact

(* The reward w, at least rr times the planned risk x up to half a tick,   *)
(* pays for a risk r that rounding made a tick larger.                     *)
LEMMA RewardPays ==
  ASSUME NEW rr \in Nat, NEW tick \in Nat, NEW x \in Nat, NEW r \in Int, NEW w \in Int,
         r <= x + tick, 2 * w >= 2 * (rr * x) - tick
  PROVE  2 * w + tick * (1 + 2 * rr) >= 2 * rr * r
<1>1. /\ rr * x \in Nat /\ rr * tick \in Nat /\ rr * r \in Int
      /\ tick * (1 + 2 * rr) = tick + 2 * (rr * tick) /\ 2 * rr * r = 2 * (rr * r)
  OBVIOUS
<1>2. rr * r <= rr * (x + tick)
  OBVIOUS
<1>3. rr * (x + tick) = rr * x + rr * tick
  OBVIOUS
<1> QED BY <1>1, <1>2, <1>3

(* What EntryIsBalanced says of one entry.                                 *)
Balanced(at, direction, tick, sl, tp, atr) ==
    LET risk == (at - sl) * direction
        reward == (tp - at) * direction
    IN  /\ 2 * risk >= 2 * Market!OfAtr(atr, LeastPercent) - tick
        /\ risk > 0
        /\ 2 * risk <= 2 * Market!Larger(Market!OfAtr(atr, MostPercent), BrokerDistance) + tick
        /\ 2 * reward + tick * (1 + 2 * MinRR) >= 2 * MinRR * risk

LEMMA PlanConstants ==
  ASSUME NEW atr \in AtrValues, atr > 0, NEW t \in Ticks, NEW tick, tick = Market!Grid(t)
  PROVE  /\ tick \in Nat /\ tick > 0 /\ MinRR \in Nat /\ BrokerDistance \in Nat
         /\ Market!OfAtr(atr, LeastPercent) \in Nat /\ Market!OfAtr(atr, LeastPercent) > 0
         /\ Market!OfAtr(atr, StopPercent) \in Nat /\ Market!OfAtr(atr, MostPercent) \in Nat
         /\ Market!OfAtr(atr, LeastPercent) <= Market!OfAtr(atr, StopPercent)
         /\ Market!OfAtr(atr, StopPercent) <= Market!OfAtr(atr, MostPercent)
         /\ tick <= Market!OfAtr(atr, MostPercent) - Market!OfAtr(atr, LeastPercent)
         /\ 2 * Market!Larger(BrokerDistance, 2 * tick) <= 2 * Market!OfAtr(atr, LeastPercent) + tick
         /\ 3 * tick <= 2 * Market!OfAtr(atr, LeastPercent)
<1>1. t \in Nat /\ tick \in Nat /\ tick > 0
  BY MarketConstants DEF Market!Grid
<1>2. /\ {MinRR, StopPercent, LeastPercent, MostPercent, BrokerDistance} \subseteq Nat
      /\ LeastPercent <= StopPercent /\ StopPercent <= MostPercent
      /\ tick <= Market!OfAtr(atr, MostPercent) - Market!OfAtr(atr, LeastPercent)
      /\ 2 * Market!Larger(BrokerDistance, 2 * tick) <= 2 * Market!OfAtr(atr, LeastPercent) + tick
  BY RulesAssumption DEF RulesAssumption, Market!PlanAssumption
<1>3. ASSUME NEW p \in Nat, NEW q \in Nat, p <= q
      PROVE  /\ Market!OfAtr(atr, p) \in Nat /\ Market!OfAtr(atr, q) \in Nat
             /\ Market!OfAtr(atr, p) <= Market!OfAtr(atr, q)
  <2>1. atr * p \in Nat /\ atr * q \in Nat /\ atr * p <= atr * q
    BY <1>3, MarketConstants
  <2> DEFINE a == atr * p
             b == atr * q
  <2>2. a \in Nat /\ b \in Nat /\ a <= b
    BY <2>1
  <2> HIDE DEF a, b
  <2>3. a \div 100 \in Nat /\ b \div 100 \in Nat /\ a \div 100 <= b \div 100
    BY <2>2
  <2> QED BY <2>3 DEF a, b, Market!OfAtr
<1>5. Market!OfAtr(atr, LeastPercent) \in Nat
  BY <1>2, <1>3
<1>6. Market!OfAtr(atr, StopPercent) \in Nat /\ Market!OfAtr(atr, LeastPercent) <= Market!OfAtr(atr, StopPercent)
  BY <1>2, <1>3
<1>7. Market!OfAtr(atr, MostPercent) \in Nat /\ Market!OfAtr(atr, StopPercent) <= Market!OfAtr(atr, MostPercent)
  BY <1>2, <1>3
<1>8. 4 * tick <= 2 * Market!Larger(BrokerDistance, 2 * tick)
  BY <1>1, <1>2 DEF Market!Larger
<1>9. Market!Larger(BrokerDistance, 2 * tick) \in Int
  BY <1>1, <1>2 DEF Market!Larger
<1>10. 3 * tick <= 2 * Market!OfAtr(atr, LeastPercent)
  BY <1>1, <1>2, <1>5, <1>8, <1>9
<1>11. Market!OfAtr(atr, LeastPercent) > 0
  BY <1>1, <1>5, <1>10
<1> QED BY <1>1, <1>2, <1>5, <1>6, <1>7, <1>10, <1>11

(* A price of the grid that is too near is moved out, never in.            *)
LEMMA MovedOut ==
  ASSUME NEW at \in Int, NEW side \in {-1, 1}, NEW distance \in Nat, NEW quote \in Int,
         NEW tick \in Nat, tick > 0, Multiple(quote, tick)
  PROVE  LET moved == Market!AtLeast(distance, at, side, quote, tick)
         IN  /\ moved \in Int /\ Multiple(moved, tick)
             /\ (quote - at) * side <= (moved - at) * side
             /\ \/ moved = quote
                \/ /\ (quote - at) * side < distance
                   /\ 2 * ((moved - at) * side) <= 2 * distance + tick
<1> DEFINE exact == at + side * distance
           snapped == Market!Snap(exact, tick)
           moved == Market!AtLeast(distance, at, side, quote, tick)
<1>1. moved = IF Market!Distance(at, quote) < distance THEN snapped ELSE quote
  BY DEF Market!AtLeast
<1>2. exact \in Int /\ Multiple(snapped, tick)
  <2>1. exact \in Int
    OBVIOUS
  <2> HIDE DEF exact
  <2> QED BY <2>1, Nearest
<1>3. /\ snapped \in Int /\ (snapped - at) * side \in Int
      /\ 2 * ((snapped - at) * side) <= 2 * distance + tick
  <2>1. distance \in Int
    OBVIOUS
  <2> QED BY <2>1, Beside
<1>4. Market!Snap(quote, tick) = quote
  BY OnGridAlready
<1>5. ASSUME Market!Distance(at, quote) < distance
      PROVE  (quote - at) * side < distance /\ (quote - at) * side <= (snapped - at) * side
  <2>1. CASE side = 1
    <3>1. quote < at + distance /\ exact = at + distance
      BY <1>5, <2>1 DEF Market!Distance
    <3> HIDE DEF exact
    <3>2. quote <= snapped
      BY <1>2, <1>4, <3>1, SnapMonotone
    <3> HIDE DEF snapped
    <3> QED BY <1>3, <2>1, <3>1, <3>2
  <2>2. CASE side = -1
    <3>1. at - distance < quote /\ exact = at - distance
      BY <1>5, <2>2 DEF Market!Distance
    <3> HIDE DEF exact
    <3>2. snapped <= quote
      BY <1>2, <1>4, <3>1, SnapMonotone
    <3> HIDE DEF snapped
    <3> QED BY <1>3, <2>2, <3>1, <3>2
  <2> QED BY <2>1, <2>2
<1> HIDE DEF snapped, moved
<1>6. CASE Market!Distance(at, quote) < distance
  BY <1>1, <1>2, <1>3, <1>5, <1>6 DEF moved
<1>7. CASE ~ (Market!Distance(at, quote) < distance)
  <2>1. moved = quote
    BY <1>1, <1>7
  <2>2. (quote - at) * side \in Int
    OBVIOUS
  <2> QED BY <2>1, <2>2 DEF moved
<1> QED BY <1>6, <1>7

LEMMA FarOK ==
  ASSUME NEW at \in Int, NEW direction \in {-1, 1}, NEW tick \in Nat, tick > 0, MinRR \in Nat,
         NEW sl \in Int, NEW x \in Nat, x = (at - sl) * direction,
         NEW tp \in Int, (tp - at) * direction > 0, Multiple(tp, tick)
  PROVE  LET far == Market!FarEnough(at, direction, sl, tp, tick)
         IN  /\ far \in Int /\ 2 * ((far - at) * direction) >= 2 * (MinRR * x) - tick
             /\ Multiple(far, tick)
<1> DEFINE far == Market!FarEnough(at, direction, sl, tp, tick)
           snapped == Market!Snap(at + direction * (MinRR * x), tick)
<1>1. Market!Distance(at, sl) = x /\ Market!Distance(at, tp) = (tp - at) * direction
  <2>1. CASE direction = 1
    BY <2>1 DEF Market!Distance
  <2>2. CASE direction = -1
    BY <2>2 DEF Market!Distance
  <2> QED BY <2>1, <2>2
<1>2. direction * MinRR * x = direction * (MinRR * x) /\ MinRR * x \in Int
  OBVIOUS
<1>3. far = IF (tp - at) * direction < MinRR * x THEN snapped ELSE tp
  BY <1>1, <1>2 DEF Market!FarEnough
<1>4. /\ snapped \in Int /\ (snapped - at) * direction \in Int
      /\ 2 * (MinRR * x) - tick <= 2 * ((snapped - at) * direction)
  BY <1>2, Beside
<1>5. Multiple(snapped, tick)
  <2> DEFINE exact == at + direction * (MinRR * x)
  <2>1. exact \in Int
    BY <1>2
  <2> HIDE DEF exact
  <2>2. Multiple(Market!Snap(exact, tick), tick)
    BY <2>1, Nearest
  <2> QED BY <2>2 DEF exact
<1> HIDE DEF far, snapped
<1>6. CASE (tp - at) * direction < MinRR * x
  BY <1>2, <1>3, <1>4, <1>5, <1>6 DEF far
<1>7. CASE ~ ((tp - at) * direction < MinRR * x)
  <2>1. (tp - at) * direction \in Int
    OBVIOUS
  <2>2. 2 * ((tp - at) * direction) >= 2 * (MinRR * x) - tick
    BY <1>2, <1>7, <2>1
  <2> QED BY <1>3, <1>7, <2>2 DEF far
<1> QED BY <1>6, <1>7

(* A stop proposed within the bounds is not moved by them once rounded: a  *)
(* bound it crossed in rounding rounds to the same price.                  *)
LEMMA KeptWhenRounded ==
  ASSUME NEW at \in Int, NEW direction \in {-1, 1}, NEW tick \in Nat, tick > 0,
         NEW sl \in Int, NEW st \in Int, st = Market!Snap(sl, tick), (at - st) * direction > 0,
         NEW atr, Market!OfAtr(atr, LeastPercent) \in Nat, Market!OfAtr(atr, MostPercent) \in Nat,
         Market!OfAtr(atr, LeastPercent) <= (at - sl) * direction,
         (at - sl) * direction <= Market!OfAtr(atr, MostPercent)
  PROVE  Market!WithinBounds(at, direction, st, tick, atr) = st
<1> DEFINE lower == Market!OfAtr(atr, LeastPercent)
           upper == Market!OfAtr(atr, MostPercent)
           x == (at - st) * direction
<1>1. lower \in Nat /\ upper \in Nat /\ lower <= (at - sl) * direction
      /\ (at - sl) * direction <= upper /\ x > 0
  OBVIOUS
<1>2. Market!Distance(at, st) = x
  <2>1. CASE direction = 1
    BY <2>1 DEF Market!Distance
  <2>2. CASE direction = -1
    BY <2>2 DEF Market!Distance
  <2> QED BY <2>1, <2>2
<1>3. Market!WithinBounds(at, direction, st, tick, atr) =
        IF atr > 0 /\ x < lower THEN Market!Snap(at - direction * lower, tick)
        ELSE IF atr > 0 /\ x > upper THEN Market!Snap(at - direction * upper, tick)
        ELSE st
  BY <1>2 DEF Market!WithinBounds
<1> HIDE DEF lower, upper
<1>4. Multiple(st, tick)
  BY Nearest
<1>5. Market!Snap(st, tick) = st
  BY <1>4, OnGridAlready
<1>6. ASSUME NEW edge \in Int, (sl <= edge /\ edge <= st) \/ (st <= edge /\ edge <= sl)
      PROVE  Market!Snap(edge, tick) = st
  <2>1. Market!Snap(edge, tick) \in Int
    BY SnapInteger
  <2>2. CASE sl <= edge /\ edge <= st
    <3>1. st <= Market!Snap(edge, tick) /\ Market!Snap(edge, tick) <= st
      BY <1>5, <2>2, SnapMonotone
    <3> QED BY <2>1, <3>1
  <2>3. CASE st <= edge /\ edge <= sl
    <3>1. Market!Snap(edge, tick) <= st /\ st <= Market!Snap(edge, tick)
      BY <1>5, <2>3, SnapMonotone
    <3> QED BY <2>1, <3>1
  <2> QED BY <1>6, <2>2, <2>3
<1>7. ASSUME NEW bound \in Nat,
             \/ x < bound /\ bound <= (at - sl) * direction
             \/ x > bound /\ (at - sl) * direction <= bound
      PROVE  Market!Snap(at - direction * bound, tick) = st
  <2> DEFINE edge == at - direction * bound
  <2>1. edge \in Int /\ ((sl <= edge /\ edge <= st) \/ (st <= edge /\ edge <= sl))
    <3>1. CASE direction = 1
      BY <1>7, <3>1
    <3>2. CASE direction = -1
      BY <1>7, <3>2
    <3> QED BY <3>1, <3>2
  <2> HIDE DEF edge
  <2>2. Market!Snap(edge, tick) = st
    BY <1>6, <2>1
  <2> QED BY <2>2 DEF edge
<1> QED BY <1>1, <1>3, <1>7

LEMMA ValidPlan ==
  ASSUME NEW atr \in AtrValues, atr > 0, NEW t \in Ticks, NEW tick, tick = Market!Grid(t),
         NEW at \in Int, NEW direction \in {-1, 1}, NEW sl \in Int,
         Market!OfAtr(atr, LeastPercent) <= (at - sl) * direction,
         (at - sl) * direction <= Market!OfAtr(atr, MostPercent),
         NEW tp \in Int,
         Market!ValidateEntry(at, direction, sl, tp, tick, atr) # Market!Nothing
  PROVE  LET valid == Market!ValidateEntry(at, direction, sl, tp, tick, atr)
         IN  Balanced(at, direction, tick, valid.stop, valid.target, atr)
<1> DEFINE lower == Market!OfAtr(atr, LeastPercent)
           upper == Market!OfAtr(atr, MostPercent)
           least == Market!Larger(BrokerDistance, 2 * tick)
           st == Market!Snap(sl, tick)
           goal == Market!Snap(tp, tick)
           kept == Market!WithinBounds(at, direction, st, tick, atr)
           far == Market!FarEnough(at, direction, st, goal, tick)
           x == (at - st) * direction
           s == Market!AtLeast(least, at, -direction, st, tick)
           g == Market!AtLeast(least, at, direction, far, tick)
           r == (at - s) * direction
           w == (g - at) * direction
<1>1. /\ tick \in Nat /\ tick > 0 /\ MinRR \in Nat /\ BrokerDistance \in Nat
      /\ lower \in Nat /\ lower > 0 /\ upper \in Nat
      /\ tick <= upper - lower /\ 2 * least <= 2 * lower + tick /\ 3 * tick <= 2 * lower
  BY PlanConstants
<1>2. /\ st \in Int /\ 2 * (st - sl) <= tick /\ 2 * (sl - st) <= tick /\ Multiple(st, tick)
      /\ goal \in Int /\ Multiple(goal, tick)
  BY <1>1, Nearest
<1>3. x \in Int /\ 2 * lower - tick <= 2 * x /\ 2 * x <= 2 * upper + tick
  <2>1. tick \in Int /\ lower \in Int /\ upper \in Int
    BY <1>1
  <2> HIDE DEF st
  <2> QED BY <1>2, <2>1, RoundedApart
<1>4. x \in Nat /\ x > 0
  BY <1>1, <1>3
<1>5. kept = st
  <2>1. /\ Market!OfAtr(atr, LeastPercent) <= (at - sl) * direction
        /\ (at - sl) * direction <= Market!OfAtr(atr, MostPercent)
        /\ Market!OfAtr(atr, LeastPercent) \in Nat /\ Market!OfAtr(atr, MostPercent) \in Nat
    BY <1>1
  <2>2. /\ (at - st) * direction > 0 /\ st = Market!Snap(sl, tick)
        /\ st \in Int /\ tick \in Nat /\ tick > 0
    BY <1>1, <1>2, <1>4
  <2> HIDE DEF least, st, goal, far, s, g, r, w, x, kept, lower, upper
  <2>3. Market!WithinBounds(at, direction, st, tick, atr) = st
    BY <2>1, <2>2, KeptWhenRounded
  <2> QED BY <2>3 DEF kept
<1>6. /\ Market!ValidateEntry(at, direction, sl, tp, tick, atr) = [stop |-> s, target |-> g]
      /\ (goal - at) * direction > 0
  <2>1. Market!ValidateEntry(at, direction, sl, tp, tick, atr) =
          IF (at - st) * direction <= 0 \/ (goal - at) * direction <= 0 THEN Market!Nothing
          ELSE [stop |-> Market!AtLeast(least, at, -direction, kept, tick), target |-> g]
    BY Zenon DEF Market!ValidateEntry
  <2> HIDE DEF st, goal, kept, far, least, g
  <2>2. ~ ((at - st) * direction <= 0 \/ (goal - at) * direction <= 0)
    BY <2>1
  <2>3. (goal - at) * direction > 0
    BY <1>2, <2>2
  <2> QED BY <1>5, <2>1, <2>2, <2>3
<1>7. least \in Nat /\ (least = BrokerDistance \/ least = 2 * tick)
  BY <1>1 DEF Market!Larger
<1> HIDE DEF least, lower, upper, kept, st, goal
<1>8. far \in Int /\ 2 * ((far - at) * direction) >= 2 * (MinRR * x) - tick /\ Multiple(far, tick)
  BY <1>1, <1>2, <1>4, <1>6, FarOK
<1> HIDE DEF far
<1>9. /\ s \in Int /\ Multiple(s, tick) /\ x <= r
      /\ r = x \/ (x < least /\ 2 * r <= 2 * least + tick)
  <2>1. -direction \in {-1, 1}
    OBVIOUS
  <2>2. \A p \in Int : (p - at) * (-direction) = (at - p) * direction
    OBVIOUS
  <2>3. /\ s \in Int /\ Multiple(s, tick)
        /\ (st - at) * (-direction) <= (s - at) * (-direction)
        /\ \/ s = st
           \/ /\ (st - at) * (-direction) < least
              /\ 2 * ((s - at) * (-direction)) <= 2 * least + tick
    BY <1>1, <1>2, <1>7, <2>1, MovedOut
  <2> HIDE DEF s
  <2>4. (st - at) * (-direction) = x /\ (s - at) * (-direction) = r
    BY <1>2, <2>2, <2>3
  <2> QED BY <2>3, <2>4
<1>10. g \in Int /\ (far - at) * direction <= w
  BY <1>1, <1>7, <1>8, MovedOut
<1>11. r \in Int /\ w \in Int
  <2> HIDE DEF s, g
  <2> QED BY <1>9, <1>10
<1>12. 2 * w >= 2 * (MinRR * x) - tick
  <2>1. (far - at) * direction \in Int /\ MinRR * x \in Int
    BY <1>1, <1>3, <1>8
  <2> HIDE DEF w, x
  <2> QED BY <1>1, <1>8, <1>10, <1>11, <2>1
<1>13. r <= x + tick
  <2>1. 2 * (r - x) <= 3 * tick
    <3> HIDE DEF r, x
    <3> QED BY <1>1, <1>3, <1>7, <1>9, <1>11
  <2> HIDE DEF s
  <2>2. CASE direction = 1
    <3>1. r - x = st - s
      BY <1>2, <1>9, <2>2
    <3>2. st - s <= tick
      BY <1>1, <1>2, <1>9, <2>1, <3>1, OneTickApart
    <3> QED BY <1>1, <1>3, <1>11, <3>1, <3>2
  <2>3. CASE direction = -1
    <3>1. r - x = s - st
      BY <1>2, <1>9, <2>3
    <3>2. s - st <= tick
      BY <1>1, <1>2, <1>9, <2>1, <3>1, OneTickApart
    <3> QED BY <1>1, <1>3, <1>11, <3>1, <3>2
  <2> QED BY <2>2, <2>3
<1> HIDE DEF x, s, g, r, w
<1>14. 2 * w + tick * (1 + 2 * MinRR) >= 2 * MinRR * r
  BY <1>1, <1>4, <1>11, <1>12, <1>13, RewardPays
<1>15. 2 * r >= 2 * lower - tick /\ r > 0
  BY <1>1, <1>3, <1>4, <1>9, <1>11
<1>16. 2 * r <= 2 * Market!Larger(upper, BrokerDistance) + tick
  BY <1>1, <1>3, <1>7, <1>9, <1>11 DEF Market!Larger
<1>17. Balanced(at, direction, tick, s, g, atr)
  BY <1>14, <1>15, <1>16 DEF Balanced, r, w, lower, upper
<1> QED BY <1>6, <1>17

LEMMA MultiplesAreNumbers ==
  ASSUME NEW atr \in Nat, NEW p \in Nat
  PROVE  Market!OfAtr(atr, p) \in Nat
<1>1. atr * p \in Nat
  OBVIOUS
<1> DEFINE a == atr * p
<1>2. a \in Nat
  BY <1>1
<1> HIDE DEF a
<1>3. a \div 100 \in Nat
  BY <1>2
<1> QED BY <1>3 DEF a, Market!OfAtr

LEMMA NearestPool ==
  ASSUME NEW pools, \A p \in pools : p.price \in Int, NEW at \in Int, NEW direction
  PROVE  LET pool == Market!TargetPool(pools, at, direction)
         IN  pool = Market!Nothing \/ pool \in pools
<1> DEFINE ahead == {p \in pools : p.state = "RESTING"
                         /\ p.kind = (IF direction > 0 THEN Market!HIGH ELSE Market!LOW)
                         /\ (p.price - at) * direction > 0}
           Far(p) == Market!Distance(p.price, at)
           distances == {Far(p) : p \in ahead}
<1>1. Market!TargetPool(pools, at, direction) =
        IF ahead = {} THEN Market!Nothing
        ELSE CHOOSE p \in ahead : \A q \in ahead : Far(p) <= Far(q)
  BY Zenon DEF Market!TargetPool
<1>2. ahead \subseteq pools
  OBVIOUS
<1> HIDE DEF ahead
<1>3. CASE ahead = {}
  BY <1>1, <1>3
<1>4. CASE ahead # {}
  <2>1. \A p \in ahead : Far(p) \in Nat
    BY <1>2 DEF Market!Distance
  <2>2. PICK least \in distances : \A n \in distances : least <= n
    <3>1. distances \subseteq Nat /\ distances # {}
      BY <1>4, <2>1
    <3> HIDE DEF distances
    <3> QED BY <3>1, LeastOf
  <2>3. \E p \in ahead : \A q \in ahead : Far(p) <= Far(q)
    <3> HIDE DEF Far
    <3> QED BY <2>2
  <2> HIDE DEF Far
  <2>4. Market!TargetPool(pools, at, direction) \in ahead
    BY <1>1, <1>4, <2>3
  <2> QED BY <1>2, <2>4
<1> QED BY <1>3, <1>4

LEMMA TargetOK ==
  ASSUME NEW bs \in Seq(Shapes), NEW location, NEW tick \in Nat,
         NEW atr \in AtrValues, location.atr = atr,
         location.pools = Market!ScanLiquidity(bs, tick, atr), location.price \in Int,
         location.range = Market!ActiveRange(bs, atr),
         NEW at \in Int, NEW direction \in {-1, 1}, NEW risk, NEW plain \in Int
  PROVE  /\ Market!PoolTarget(location, at, direction, risk, plain) \in Int
         /\ Market!FibTarget(location, at, direction, risk, plain) \in Int
<1>1. Market!PoolTarget(location, at, direction, risk, plain) \in Int
  <2> DEFINE pool == Market!TargetPool(location.pools, location.price, direction)
             short == pool.price - direction * Market!OfAtr(location.atr, 15)
  <2>1. Market!PoolTarget(location, at, direction, risk, plain) = short
        \/ Market!PoolTarget(location, at, direction, risk, plain) = plain
    BY DEF Market!PoolTarget
  <2>2. pool = Market!Nothing =>
          Market!PoolTarget(location, at, direction, risk, plain) = plain
    BY DEF Market!PoolTarget
  <2>3. pool = Market!Nothing \/ pool.price \in Int
    <3>1. \A p \in location.pools : p.price \in Int
      BY PoolPrice
    <3>2. pool = Market!Nothing \/ pool \in location.pools
      BY <3>1, NearestPool
    <3> HIDE DEF pool
    <3> QED BY <3>1, <3>2
  <2> HIDE DEF pool
  <2>4. Market!OfAtr(location.atr, 15) \in Int
    BY BarsAreNumbers, MultiplesAreNumbers
  <2>5. pool # Market!Nothing => short \in Int
    BY <2>3, <2>4
  <2> HIDE DEF short
  <2> QED BY <2>1, <2>2, <2>5
<1>2. Market!FibTarget(location, at, direction, risk, plain) \in Int
  <2> DEFINE range == Market!ActiveRange(bs, atr)
             short == location.range.high - direction * Market!OfAtr(location.atr, 10)
  <2>1. Market!FibTarget(location, at, direction, risk, plain) = short
        \/ Market!FibTarget(location, at, direction, risk, plain) = plain
    BY DEF Market!FibTarget
  <2>2. location.range = Market!Nothing =>
          Market!FibTarget(location, at, direction, risk, plain) = plain
    BY DEF Market!FibTarget
  <2>3. range = Market!Nothing \/ range.high \in Int
    <3>1. range = Market!Nothing \/ range \in [high : Int, low : Int]
      BY RangeOK
    <3> HIDE DEF range
    <3> QED BY <3>1
  <2> HIDE DEF range
  <2>4. Market!OfAtr(location.atr, 10) \in Int
    BY BarsAreNumbers, MultiplesAreNumbers
  <2>5. location.range # Market!Nothing => short \in Int
    BY <2>3, <2>4 DEF range
  <2> HIDE DEF short
  <2> QED BY <2>1, <2>2, <2>5
<1> QED BY <1>1, <1>2

LEMMA FallbackPlan ==
  ASSUME NEW atr \in AtrValues, atr > 0, NEW t \in Ticks, NEW tick, tick = Market!Grid(t),
         NEW at \in Int, NEW direction \in {-1, 1}
  PROVE  Balanced(at, direction, tick,
                  Market!Snap(at - direction * Market!OfAtr(atr, StopPercent), tick),
                  Market!Snap(at + direction * MinRR * Market!OfAtr(atr, StopPercent), tick), atr)
<1> DEFINE lower == Market!OfAtr(atr, LeastPercent)
           upper == Market!OfAtr(atr, MostPercent)
           d == Market!OfAtr(atr, StopPercent)
           s == Market!Snap(at + (-direction) * d, tick)
           g == Market!Snap(at + direction * (MinRR * d), tick)
           r == (at - s) * direction
           w == (g - at) * direction
<1>1. /\ tick \in Nat /\ tick > 0 /\ MinRR \in Nat /\ BrokerDistance \in Nat
      /\ lower \in Nat /\ lower > 0 /\ upper \in Nat /\ d \in Nat /\ lower <= d /\ d <= upper
      /\ 3 * tick <= 2 * lower
  BY PlanConstants
<1>2. /\ at - direction * d = at + (-direction) * d
      /\ at + direction * MinRR * d = at + direction * (MinRR * d)
      /\ MinRR * d \in Nat /\ MinRR * tick \in Nat
  <2> HIDE DEF d
  <2> QED BY <1>1
<1>3. s \in Int /\ r \in Int /\ 2 * d - tick <= 2 * r /\ 2 * r <= 2 * d + tick
  <2>1. -direction \in {-1, 1} /\ d \in Int
    BY <1>1
  <2>2. /\ s \in Int /\ (s - at) * (-direction) \in Int
        /\ 2 * d - tick <= 2 * ((s - at) * (-direction))
        /\ 2 * ((s - at) * (-direction)) <= 2 * d + tick
    BY <1>1, <2>1, Beside
  <2> HIDE DEF s
  <2>3. (s - at) * (-direction) = (at - s) * direction
    BY <2>2
  <2> QED BY <2>2, <2>3
<1>4. g \in Int /\ w \in Int /\ 2 * (MinRR * d) - tick <= 2 * w
  <2>1. MinRR * d \in Int
    BY <1>2
  <2> QED BY <1>1, <2>1, Beside
<1> HIDE DEF lower, upper, d, s, g, r, w
<1>5. 2 * w + tick * (1 + 2 * MinRR) >= 2 * MinRR * r
  <2>1. 0 \in Nat /\ 2 * 0 <= 2 * d + tick /\ 3 * tick <= 2 * d
    BY <1>1
  <2>2. 2 * MinRR * r <= MinRR * (2 * d + tick)
    <3>1. MinRR * (2 * r) <= MinRR * (2 * d + tick)
      BY <1>1, <1>3
    <3>2. MinRR * (2 * r) = 2 * MinRR * r
      BY <1>1, <1>3
    <3> QED BY <3>1, <3>2
  <2>3. MinRR * (2 * d + tick) = 2 * (MinRR * d) + MinRR * tick
    BY <1>1
  <2>4. tick * (1 + 2 * MinRR) = tick + 2 * (MinRR * tick)
    BY <1>1
  <2>5. 2 * MinRR * r \in Int
    BY <1>1, <1>3
  <2> QED BY <1>1, <1>2, <1>4, <2>2, <2>3, <2>4, <2>5
<1>6. 2 * r >= 2 * lower - tick /\ r > 0
  BY <1>1, <1>3
<1>7. 2 * r <= 2 * Market!Larger(upper, BrokerDistance) + tick
  BY <1>1, <1>3 DEF Market!Larger
<1>8. Balanced(at, direction, tick, s, g, atr)
  BY <1>5, <1>6, <1>7 DEF Balanced, r, w, lower, upper
<1> QED BY <1>2, <1>8 DEF s, g, d

LEMMA EntryPlanned ==
  ASSUME NEW bs \in Seq(Shapes), NEW t \in Ticks, NEW location,
         NEW atr \in AtrValues, atr > 0, location.atr = atr,
         location.structure = Market!Structure(bs), location.price \in Int,
         location.pools = Market!ScanLiquidity(bs, t, atr),
         location.range = Market!ActiveRange(bs, atr),
         NEW at \in Int, NEW direction \in {-1, 1}, NEW tick, tick = Market!Grid(t)
  PROVE  LET planned == Market!CalculateEntry(location, at, direction, tick)
         IN  Balanced(at, direction, tick, planned.stop, planned.target, atr)
<1> DEFINE least == Market!OfAtr(atr, LeastPercent)
           most == Market!OfAtr(atr, MostPercent)
           volatile == Market!OfAtr(atr, StopPercent)
           found == location.bias # "UNDEFINED"
           structural == Market!StructuralStop(location, at, direction, tick, least, most)
           sl == IF found /\ structural # Market!Nothing THEN structural.price
                 ELSE at - direction * volatile
           risk == Market!Distance(at, sl)
           plain == at + direction * MinRR * risk
           tp == IF ~found \/ location.atr = 0 THEN plain
                 ELSE Market!FibTarget(location, at, direction, risk,
                        Market!PoolTarget(location, at, direction, risk, plain))
           checked == Market!ValidateEntry(at, direction, sl, tp, tick, atr)
           fallback == [stop |-> Market!Snap(at - direction * volatile, tick),
                        target |-> Market!Snap(at + direction * MinRR * volatile, tick)]
           planned == Market!CalculateEntry(location, at, direction, tick)
<1>1. /\ tick \in Nat /\ tick > 0 /\ MinRR \in Nat /\ least \in Nat /\ least > 0 /\ most \in Nat
      /\ tick <= most - least /\ 3 * tick <= 2 * least
      /\ volatile \in Nat /\ least <= volatile /\ volatile <= most
  BY PlanConstants
<1>2. planned = IF checked # Market!Nothing THEN checked ELSE fallback
  BY Zenon DEF Market!CalculateEntry
<1>3. sl \in Int /\ least <= (at - sl) * direction /\ (at - sl) * direction <= most
  <2>1. tick < 4 * least /\ location.atr # 0
    <3> HIDE DEF least, most
    <3> QED BY <1>1
  <2>2. /\ structural # Market!Nothing /\ structural.price \in Int
        /\ least <= (at - structural.price) * direction
        /\ (at - structural.price) * direction <= most
    <3> HIDE DEF least, most
    <3> QED BY <1>1, <2>1, StructuralOK
  <2> DEFINE plainStop == at - direction * volatile
  <2>3. /\ plainStop \in Int /\ least <= (at - plainStop) * direction
        /\ (at - plainStop) * direction <= most
    <3> HIDE DEF least, most, volatile
    <3>1. CASE direction = 1
      BY <1>1, <3>1
    <3>2. CASE direction = -1
      BY <1>1, <3>2
    <3> QED BY <3>1, <3>2
  <2> HIDE DEF structural, plainStop, least, most, found
  <2>4. sl = structural.price \/ sl = plainStop
    BY DEF plainStop
  <2> HIDE DEF sl
  <2> QED BY <2>2, <2>3, <2>4
<1> HIDE DEF planned, structural, sl, found
<1>4. tp \in Int
  <2>1. risk \in Int
    BY <1>3 DEF Market!Distance
  <2>2. plain \in Int
    <3> HIDE DEF risk
    <3> QED BY <1>1, <2>1
  <2>3. t \in Nat
    BY MarketConstants
  <2> HIDE DEF risk, plain
  <2>4. Market!PoolTarget(location, at, direction, risk, plain) \in Int
    BY <2>2, <2>3, TargetOK
  <2>5. Market!FibTarget(location, at, direction, risk,
                         Market!PoolTarget(location, at, direction, risk, plain)) \in Int
    BY <2>3, <2>4, TargetOK
  <2> QED BY <2>2, <2>5
<1> HIDE DEF tp
<1>5. CASE checked # Market!Nothing
  <2>1. Balanced(at, direction, tick, checked.stop, checked.target, atr)
    BY <1>3, <1>4, <1>5, ValidPlan
  <2> QED BY <1>2, <1>5, <2>1 DEF planned
<1>6. CASE checked = Market!Nothing
  <2>1. Balanced(at, direction, tick, fallback.stop, fallback.target, atr)
    BY FallbackPlan
  <2> QED BY <1>2, <1>6, <2>1 DEF planned
<1> QED BY <1>5, <1>6

LEMMA LocationOf ==
  ASSUME MarketInv, bars # <<>>, NEW t \in Ticks
  PROVE  /\ bars \in Seq(Shapes) /\ view[t].price \in Int /\ view[t].atr \in AtrValues
         /\ view[t].structure = Market!Structure(bars)
         /\ view[t].pools = Market!ScanLiquidity(bars, t, view[t].atr)
         /\ view[t].levels = Market!BuildLevels(bars, t, view[t].atr)
         /\ view[t].range = Market!ActiveRange(bars, view[t].atr)
         /\ view[t].bias = Market!RangePosition(view[t].price,
                                                Market!ActiveRange(bars, view[t].atr))
<1>1. PICK atr \in AtrValues : view[t] = Market!AnalyseLocation(bars, t, atr)
  BY DEF MarketInv
<1>2. bars \in Seq(Shapes)
  BY DEF MarketInv
<1>3. bars[Len(bars)] \in Shapes
  BY <1>2
<1>4. bars[Len(bars)].close \in Int
  BY <1>3, BarsAreNumbers
<1>5. view[t].atr = atr
  BY <1>1 DEF Market!AnalyseLocation
<1> QED BY <1>1, <1>2, <1>4, <1>5 DEF Market!AnalyseLocation

LEMMA EntriesBalanced == MarketInv => Market!EntryIsBalanced
<1> SUFFICES ASSUME MarketInv, bars # <<>>, NEW t \in Ticks, NEW direction \in {-1, 1},
                    NEW slip \in {-1, 0, 1}, view[t].atr > 0
             PROVE  LET at == view[t].price + slip
                        planned == Market!CalculateEntry(view[t], at, direction, Market!Grid(t))
                    IN  Balanced(at, direction, Market!Grid(t), planned.stop, planned.target,
                                 view[t].atr)
  BY Zenon DEF Market!EntryIsBalanced, Balanced
<1> DEFINE at == view[t].price + slip
           tick == Market!Grid(t)
           location == view[t]
           atr == location.atr
<1>1. /\ bars \in Seq(Shapes) /\ location.structure = Market!Structure(bars)
      /\ location.price \in Int /\ location.pools = Market!ScanLiquidity(bars, t, atr)
      /\ location.range = Market!ActiveRange(bars, atr) /\ at \in Int
      /\ atr \in AtrValues /\ atr > 0 /\ location.atr = atr
  BY LocationOf
<1> HIDE DEF at, atr, location, tick
<1>2. tick = Market!Grid(t)
  BY DEF tick
<1>3. LET planned == Market!CalculateEntry(location, at, direction, tick)
      IN  Balanced(at, direction, tick, planned.stop, planned.target, atr)
  BY <1>1, <1>2, EntryPlanned
<1> QED BY <1>3 DEF at, atr, tick, location

(* Against the trend the gate opens only in the fifth at the far end.      *)
LEMMA FadesAtTheExtreme == MarketInv => Market!FadesOnlyTheExtreme
<1> SUFFICES ASSUME MarketInv, bars # <<>>, NEW t \in Ticks
             PROVE  LET l == view[t]
                        span == l.range.high - l.range.low
                    IN  /\ (Market!EntryGate(l, 1) /\ l.structure.bias = "BEARISH")
                             => l.price >= l.range.low /\ 5 * (l.price - l.range.low) <= span
                        /\ (Market!EntryGate(l, -1) /\ l.structure.bias = "BULLISH")
                             => l.price <= l.range.high /\ 5 * (l.range.high - l.price) <= span
  BY Zenon DEF Market!FadesOnlyTheExtreme
<1> DEFINE l == view[t]
           range == Market!ActiveRange(bars, l.atr)
           at == l.price
<1>1. /\ l.range = range /\ at \in Int /\ l.bias = Market!RangePosition(at, range)
      /\ range = Market!Nothing \/ (range \in [high : Int, low : Int] /\ range.low < range.high)
  BY LocationOf, RangeOK
<1>2. range = Market!Nothing => l.bias = "UNDEFINED"
  BY <1>1 DEF Market!RangePosition
<1> HIDE DEF l, range
<1>3. ASSUME Market!EntryGate(l, 1), l.structure.bias = "BEARISH"
      PROVE  at >= range.low /\ 5 * (at - range.low) <= range.high - range.low
  <2>1. l.bias # "UNDEFINED" /\ l.bias = "DISCOUNT" /\ ~ (at < range.low)
    BY <1>1, <1>3 DEF Market!EntryGate
  <2>2. range.high \in Int /\ range.low \in Int /\ range.low < range.high
    BY <1>1, <1>2, <2>1
  <2>3. Market!RangePosition(at, range) = "DISCOUNT" /\ range # Market!Nothing
    BY <1>1, <1>2, <2>1
  <2>4. ~ ((Market!Smaller(Market!Larger(at, range.low), range.high) - range.low) * 100
             > 20 * (range.high - range.low))
    BY <2>3 DEF Market!RangePosition
  <2> QED BY <1>1, <2>1, <2>2, <2>4 DEF Market!Smaller, Market!Larger
<1>4. ASSUME Market!EntryGate(l, -1), l.structure.bias = "BULLISH"
      PROVE  at <= range.high /\ 5 * (range.high - at) <= range.high - range.low
  <2>1. l.bias # "UNDEFINED" /\ l.bias = "PREMIUM" /\ ~ (at > range.high)
    BY <1>1, <1>4 DEF Market!EntryGate
  <2>2. range.high \in Int /\ range.low \in Int /\ range.low < range.high
    BY <1>1, <1>2, <2>1
  <2>3. Market!RangePosition(at, range) = "PREMIUM" /\ range # Market!Nothing
    BY <1>1, <1>2, <2>1
  <2>4. (Market!Smaller(Market!Larger(at, range.low), range.high) - range.low) * 100
             >= 80 * (range.high - range.low)
    BY <2>3 DEF Market!RangePosition
  <2> QED BY <1>1, <2>1, <2>2, <2>4 DEF Market!Smaller, Market!Larger
<1> QED BY <1>1, <1>3, <1>4 DEF l

-----------------------------------------------------------------------------
(* What another bar leaves as it was.                                      *)

LEMMA FirstBarOf ==
  ASSUME NEW hits, hits \subseteq Nat \ {0}
  PROVE  /\ hits = {} => Market!FirstBar(hits) = 0
         /\ hits # {} => /\ Market!FirstBar(hits) \in hits /\ Market!FirstBar(hits) # 0
                         /\ \A j \in hits : Market!FirstBar(hits) <= j
<1>1. CASE hits = {}
  BY <1>1 DEF Market!FirstBar
<1>2. CASE hits # {}
  <2>1. \E i \in hits : \A j \in hits : i <= j
    BY <1>2, LeastOf
  <2>2. Market!FirstBar(hits) = CHOOSE i \in hits : \A j \in hits : i <= j
    BY <1>2 DEF Market!FirstBar
  <2>3. Market!FirstBar(hits) \in hits /\ \A j \in hits : Market!FirstBar(hits) <= j
    BY <2>1, <2>2
  <2> QED BY <1>2, <2>3
<1> QED BY <1>1, <1>2

(* The first of the hits is still the first when later ones are added.     *)
LEMMA FirstStays ==
  ASSUME NEW n \in Nat, NEW hits, hits \subseteq 1..n, NEW more, more \subseteq Nat \ {0},
         hits \subseteq more, \A i \in more : i \in hits \/ i > n, Market!FirstBar(hits) # 0
  PROVE  Market!FirstBar(more) = Market!FirstBar(hits)
<1> DEFINE f == Market!FirstBar(hits)
           g == Market!FirstBar(more)
<1>1. hits \subseteq Nat \ {0}
  OBVIOUS
<1>2. hits # {} /\ f \in hits /\ \A j \in hits : f <= j
  BY <1>1, FirstBarOf
<1>3. g \in more /\ \A j \in more : g <= j
  BY <1>2, FirstBarOf
<1> HIDE DEF f, g
<1>4. f \in more /\ f \in 1..n
  BY <1>2
<1>5. g <= f /\ g \in Nat
  BY <1>3, <1>4
<1>6. g \in hits
  BY <1>3, <1>4, <1>5
<1>7. f <= g /\ f \in Nat
  BY <1>2, <1>4, <1>6
<1>8. f = g
  BY <1>5, <1>7
<1> QED BY <1>8 DEF f, g

LEMMA MembersAt ==
  ASSUME NEW bs \in Seq(Shapes), NEW c \in Lines(Market!ConfirmedSwings(bs))
  PROVE  Market!FirstAt(c) \in 1..Len(bs) /\ Market!LastAt(c) \in 1..Len(bs)
<1> DEFINE at == {s.at : s \in Market!ToSet(c)}
<1>1. c \in Seq(Market!ConfirmedSwings(bs)) /\ c # <<>>
  BY DEF Lines
<1>2. Market!ToSet(c) # {} /\ Market!ToSet(c) \subseteq Market!ConfirmedSwings(bs)
  <2>1. DOMAIN c = 1..Len(c) /\ 1 \in 1..Len(c)
    BY <1>1
  <2> QED BY <1>1, <2>1 DEF Market!ToSet
<1>3. \A s \in Market!ToSet(c) : s.at \in 1..Len(bs)
  BY <1>2, SwingsTyped
<1>4. at \subseteq 1..Len(bs) /\ at # {} /\ Len(bs) \in Nat
  BY <1>2, <1>3
<1>5. Market!FirstAt(c) \in at
  <2>1. \E i \in at : \A j \in at : i <= j
    <3>1. at \subseteq Nat
      BY <1>4
    <3> HIDE DEF at
    <3> QED BY <1>4, <3>1, LeastOf
  <2>2. \E i \in at : \A s \in Market!ToSet(c) : i <= s.at
    BY <2>1
  <2>3. Market!FirstAt(c) = CHOOSE i \in at : \A s \in Market!ToSet(c) : i <= s.at
    BY DEF Market!FirstAt
  <2> HIDE DEF at
  <2> QED BY <2>2, <2>3
<1>6. Market!LastAt(c) \in at
  <2>1. \E i \in at : \A j \in at : j <= i
    <3> HIDE DEF at
    <3>1. Market!Max(at) \in at /\ \A j \in at : j <= Market!Max(at)
      BY <1>4, MostOf
    <3> QED BY <3>1
  <2>2. \E i \in at : \A s \in Market!ToSet(c) : s.at <= i
    BY <2>1
  <2>3. Market!LastAt(c) = CHOOSE i \in at : \A s \in Market!ToSet(c) : s.at <= i
    BY DEF Market!LastAt
  <2> HIDE DEF at
  <2> QED BY <2>2, <2>3
<1> QED BY <1>4, <1>5, <1>6

(* When the later analysis hits all that the earlier one did, its first    *)
(* hit is no later.                                                        *)
LEMMA FirstNoLater ==
  ASSUME NEW hits, hits \subseteq Nat \ {0}, NEW more, more \subseteq Nat \ {0},
         hits \subseteq more, Market!FirstBar(hits) # 0
  PROVE  Market!FirstBar(more) \in 1..Market!FirstBar(hits)
<1> DEFINE f == Market!FirstBar(hits)
           g == Market!FirstBar(more)
<1>1. f \in hits
  BY FirstBarOf
<1>2. g \in more /\ \A j \in more : g <= j
  BY <1>1, FirstBarOf
<1> HIDE DEF f, g
<1>3. f \in Nat \ {0} /\ g \in Nat \ {0} /\ g <= f
  BY <1>1, <1>2
<1>4. g \in 1..f
  BY <1>3
<1> QED BY <1>4 DEF f, g

LEMMA MultiplesGrow ==
  ASSUME NEW small \in Nat, NEW large \in Nat, small <= large, NEW p \in Nat
  PROVE  Market!OfAtr(small, p) <= Market!OfAtr(large, p)
<1> DEFINE a == small * p
           b == large * p
<1>1. a \in Nat /\ b \in Nat /\ a <= b
  OBVIOUS
<1> HIDE DEF a, b
<1>2. a \div 100 <= b \div 100
  BY <1>1
<1> QED BY <1>2 DEF a, b, Market!OfAtr

(* The prices of a cluster have a least and a most.                        *)
LEMMA Extremes ==
  ASSUME NEW c \in Lines(Swings)
  PROVE  LET prices == {s.price : s \in Market!ToSet(c)}
         IN  /\ (CHOOSE p \in prices : \A q \in prices : p <= q) \in Int
             /\ (CHOOSE p \in prices : \A q \in prices : q <= p) \in Int
<1> DEFINE prices == {s.price : s \in Market!ToSet(c)}
           n == Len(c)
<1>1. c \in Seq(Swings) /\ n \in Nat /\ n >= 1 /\ \A i \in 1..n : c[i] \in Swings
  BY DEF Lines
<1>2. Market!ToSet(c) = {c[i] : i \in 1..n}
  <2>1. DOMAIN c = 1..n
    BY <1>1
  <2> QED BY <2>1 DEF Market!ToSet
<1>3. /\ \A i \in 1..n : c[i].price \in prices
      /\ \A p \in prices : \E i \in 1..n : p = c[i].price
  BY <1>2
<1>4. \A i \in 1..n : c[i].price \in Int
  BY <1>1 DEF Swings
<1>5. \A i, j \in 1..n : i < j => c[i].price <= c[j].price
  <2> SUFFICES ASSUME NEW i \in 1..n, NEW j \in 1..n, i < j
               PROVE  c[i].price <= c[j].price
    OBVIOUS
  <2>1. <<c[i], c[j]>> \in InPrice
    BY DEF Lines
  <2>2. c[i].price < c[j].price \/ c[i].price = c[j].price
    BY <2>1 DEF InPrice, Market!Cheaper
  <2> QED BY <1>4, <2>2
<1> HIDE DEF prices
<1>6. 1 \in 1..n /\ n \in 1..n
  BY <1>1
<1>7. \A i \in 1..n : c[1].price <= c[i].price /\ c[i].price <= c[n].price
  <2> TAKE i \in 1..n
  <2>1. (1 < i \/ 1 = i) /\ (i < n \/ i = n)
    BY <1>1
  <2> QED BY <1>4, <1>5, <1>6, <2>1
<1>8. \E p \in prices : \A q \in prices : p <= q
  BY <1>3, <1>6, <1>7
<1>9. \E p \in prices : \A q \in prices : q <= p
  BY <1>3, <1>6, <1>7
<1>10. \A p \in prices : p \in Int
  BY <1>3, <1>4
<1>11. /\ (CHOOSE p \in prices : \A q \in prices : p <= q) \in Int
       /\ (CHOOSE p \in prices : \A q \in prices : q <= p) \in Int
  BY <1>8, <1>9, <1>10
<1> QED BY <1>11 DEF prices

(* The band of a zone and the margin beyond it shrink with the ATR, so a   *)
(* bar that broke the zone breaks the narrower one.                        *)
LEMMA ZoneStays ==
  ASSUME NEW bs \in Seq(Shapes), NEW b \in Shapes,
         NEW c \in Lines(Market!ConfirmedSwings(bs)), c \in Lines(Swings),
         NEW wide \in Nat, NEW narrow \in Nat, narrow <= wide,
         NEW tick \in Nat, NEW before \in Nat, NEW after \in Nat, after <= before,
         Market!Zone(bs, c, wide, tick, before).broken # 0
  PROVE  LET zone == Market!Zone(bs, c, wide, tick, before)
             next == Market!Zone(Append(bs, b), c, narrow, tick, after)
         IN  /\ next.broken \in 1..zone.broken
             /\ wide = narrow /\ before = after => next.broken = zone.broken
<1> DEFINE cs == Append(bs, b)
           last == Market!LastAt(c)
           up == c[1].kind = Market!HIGH
           prices == {s.price : s \in Market!ToSet(c)}
           bottom == CHOOSE p \in prices : \A q \in prices : p <= q
           top == CHOOSE p \in prices : \A q \in prices : q <= p
           Lower(tolerance) == Market!Snap(bottom - tolerance \div 4, tick)
           Upper(tolerance) == Market!Snap(top + tolerance \div 4, tick)
           Beyond(newest, tolerance, atr) ==
             IF up THEN newest.close > Upper(tolerance) + Market!OfAtr(atr, 10)
                   ELSE newest.close < Lower(tolerance) - Market!OfAtr(atr, 10)
           hits == {i \in last + 1 .. Len(bs) : Beyond(bs[i], wide, before)}
           more == {i \in last + 1 .. Len(cs) : Beyond(cs[i], narrow, after)}
<1>1. Market!Zone(bs, c, wide, tick, before).broken = Market!FirstBar(hits)
  BY DEF Market!Zone
<1>2. Market!Zone(cs, c, narrow, tick, after).broken = Market!FirstBar(more)
  BY DEF Market!Zone
<1>3. /\ Len(bs) \in Nat /\ Len(cs) = Len(bs) + 1 /\ \A i \in 1..Len(bs) : cs[i] = bs[i]
      /\ \A i \in 1..Len(bs) : bs[i] \in Shapes
  OBVIOUS
<1>4. last \in 1..Len(bs)
  BY MembersAt
<1>5. bottom \in Int /\ top \in Int
  BY Extremes
<1> HIDE DEF bottom, top
<1>6. \A newest \in Shapes : Beyond(newest, wide, before) => Beyond(newest, narrow, after)
  <2> DEFINE w == wide \div 4
             n == narrow \div 4
  <2>1. w \in Nat /\ n \in Nat /\ n <= w
    OBVIOUS
  <2> HIDE DEF w, n
  <2>2. /\ Market!Snap(bottom - w, tick) <= Market!Snap(bottom - n, tick)
        /\ Market!Snap(top + n, tick) <= Market!Snap(top + w, tick)
        /\ Market!Snap(bottom - w, tick) \in Int /\ Market!Snap(bottom - n, tick) \in Int
        /\ Market!Snap(top + w, tick) \in Int /\ Market!Snap(top + n, tick) \in Int
    <3>1. /\ bottom - w \in Int /\ bottom - n \in Int /\ bottom - w <= bottom - n
          /\ top + n \in Int /\ top + w \in Int /\ top + n <= top + w
      BY <1>5, <2>1
    <3> QED BY <3>1, SnapMonotone, SnapInteger
  <2>3. /\ Lower(wide) <= Lower(narrow) /\ Upper(narrow) <= Upper(wide)
        /\ Lower(wide) \in Int /\ Lower(narrow) \in Int
        /\ Upper(wide) \in Int /\ Upper(narrow) \in Int
    BY <2>2 DEF w, n
  <2>4. /\ Market!OfAtr(after, 10) <= Market!OfAtr(before, 10)
        /\ Market!OfAtr(after, 10) \in Nat /\ Market!OfAtr(before, 10) \in Nat
    BY MultiplesGrow, MultiplesAreNumbers
  <2>5. \A newest \in Shapes : newest.close \in Int
    BY BarsAreNumbers
  <2> HIDE DEF Lower, Upper, up
  <2> QED BY <2>3, <2>4, <2>5
<1> HIDE DEF cs, last, Beyond
<1>7. hits \subseteq 1..Len(bs) /\ more \subseteq Nat \ {0}
  BY <1>3, <1>4
<1>8. hits \subseteq more
  BY <1>3, <1>4, <1>6
<1>9. wide = narrow /\ before = after => \A i \in more : i \in hits \/ i > Len(bs)
  BY <1>3, <1>4
<1> HIDE DEF hits, more
<1>10. Market!FirstBar(more) \in 1..Market!FirstBar(hits)
  <2>1. hits \subseteq Nat \ {0}
    BY <1>7
  <2> QED BY <1>1, <1>7, <1>8, <2>1, FirstNoLater
<1>11. ASSUME wide = narrow, before = after
       PROVE  Market!FirstBar(more) = Market!FirstBar(hits)
  <2>1. Market!FirstBar(hits) # 0 /\ \A i \in more : i \in hits \/ i > Len(bs)
    BY <1>1, <1>9, <1>11
  <2>2. Len(bs) \in Nat
    BY <1>3
  <2> QED BY <1>7, <1>8, <2>1, <2>2, FirstStays, Zenon
<1> QED BY <1>1, <1>2, <1>10, <1>11 DEF cs

LEMMA PoolStays ==
  ASSUME NEW bs \in Seq(Shapes), NEW b \in Shapes,
         NEW c \in Lines(Market!ConfirmedSwings(bs)), c \in Lines(Swings), NEW tick \in Nat,
         NEW before \in Nat, NEW after \in Nat, after <= before,
         Market!Pool(bs, c, tick, before).swept # 0
  PROVE  LET pool == Market!Pool(bs, c, tick, before)
             next == Market!Pool(Append(bs, b), c, tick, after)
         IN  /\ next.swept \in 1..pool.swept
             /\ before = after => /\ next.swept = pool.swept
                                  /\ pool.state = "MITIGATED" => next.state = "MITIGATED"
<1> DEFINE cs == Append(bs, b)
           head == Market!FirstAt(c)
           up == c[1].kind = Market!HIGH
           mean == Market!Snap(Market!Total(c) \div Len(c), tick)
           Through(newest, atr) ==
             IF up THEN newest.high > mean /\ newest.close < mean - Market!OfAtr(atr, 15)
                   ELSE newest.low < mean /\ newest.close > mean + Market!OfAtr(atr, 15)
           Level(swept) == LET early == Market!UpToBar(c, swept)
                           IN  IF early = <<>> THEN mean ELSE Market!Total(early) \div Len(early)
           Away(newest, swept, atr) == (IF up THEN Level(swept) - newest.close
                                              ELSE newest.close - Level(swept)) >= Market!OfAtr(atr, 75)
           Rejected(ks, swept, atr) == \E i \in swept..Len(ks) : Away(ks[i], swept, atr)
           State(ks, swept, atr) == IF swept = 0 THEN "RESTING"
                                    ELSE IF Rejected(ks, swept, atr) THEN "MITIGATED" ELSE "SWEPT"
           hits == {i \in head .. Len(bs) : Through(bs[i], before)}
           more == {i \in head .. Len(cs) : Through(cs[i], after)}
<1>1. /\ Market!Pool(bs, c, tick, before).swept = Market!FirstBar(hits)
      /\ Market!Pool(bs, c, tick, before).state = State(bs, Market!FirstBar(hits), before)
  BY DEF Market!Pool
<1>2. /\ Market!Pool(cs, c, tick, after).swept = Market!FirstBar(more)
      /\ Market!Pool(cs, c, tick, after).state = State(cs, Market!FirstBar(more), after)
  BY DEF Market!Pool
<1>3. /\ Len(bs) \in Nat /\ Len(cs) = Len(bs) + 1 /\ \A i \in 1..Len(bs) : cs[i] = bs[i]
      /\ \A i \in 1..Len(bs) : bs[i] \in Shapes
  OBVIOUS
<1>4. head \in 1..Len(bs)
  BY MembersAt
<1>5. mean \in Int
  <2>1. c \in Seq(Swings) /\ Len(c) \in Nat /\ Len(c) > 0
    BY DEF Lines
  <2>2. Market!Total(c) \in Int
    <3>1. \A s \in Swings : s.price \in Int
      BY DEF Swings
    <3> QED BY <2>1, <3>1, TotalOK
  <2>3. Market!Total(c) \div Len(c) \in Int
    BY <2>1, <2>2
  <2> QED BY <2>3, SnapInteger
<1> HIDE DEF mean
<1>6. \A newest \in Shapes : Through(newest, before) => Through(newest, after)
  <2>1. /\ Market!OfAtr(after, 15) <= Market!OfAtr(before, 15)
        /\ Market!OfAtr(after, 15) \in Nat /\ Market!OfAtr(before, 15) \in Nat
    BY MultiplesGrow, MultiplesAreNumbers
  <2>2. \A newest \in Shapes : newest.close \in Int
    BY BarsAreNumbers
  <2> HIDE DEF up
  <2> QED BY <1>5, <2>1, <2>2
<1> HIDE DEF cs, head, Through, Away
<1>7. hits \subseteq 1..Len(bs) /\ more \subseteq Nat \ {0}
  BY <1>3, <1>4
<1>8. hits \subseteq more
  BY <1>3, <1>4, <1>6
<1>9. before = after => \A i \in more : i \in hits \/ i > Len(bs)
  BY <1>3, <1>4
<1> HIDE DEF hits, more
<1> DEFINE swept == Market!FirstBar(hits)
<1>10. swept \in 1..Len(bs)
  <2>1. hits \subseteq Nat \ {0}
    BY <1>7
  <2> QED BY <1>1, <1>7, <2>1, FirstBarOf
<1>11. Market!FirstBar(more) \in 1..swept
  <2>1. hits \subseteq Nat \ {0}
    BY <1>7
  <2> QED BY <1>1, <1>7, <1>8, <2>1, FirstNoLater
<1>12. before = after => Market!FirstBar(more) = swept
  BY <1>1, <1>3, <1>7, <1>8, <1>9, FirstStays
<1> HIDE DEF swept
<1>13. Rejected(bs, swept, before) => Rejected(cs, swept, before)
  <2> SUFFICES ASSUME NEW i \in swept..Len(bs), Away(bs[i], swept, before)
               PROVE  \E j \in swept..Len(cs) : Away(cs[j], swept, before)
    OBVIOUS
  <2>1. i \in swept..Len(cs) /\ cs[i] = bs[i]
    BY <1>3, <1>10
  <2> QED BY <2>1
<1> HIDE DEF Rejected
<1>14. State(bs, swept, before) = "MITIGATED" => State(cs, swept, before) = "MITIGATED"
  BY <1>13
<1> HIDE DEF State
<1> QED BY <1>1, <1>2, <1>11, <1>12, <1>14 DEF swept, cs

(* A cluster is its set of swings in the order of price.                   *)
LEMMA SameCluster ==
  ASSUME NEW c \in Lines(Swings), NEW d \in Lines(Swings), Market!ToSet(c) = Market!ToSet(d)
  PROVE  c = d
<1>1. /\ c \in Seq(Swings) /\ d \in Seq(Swings)
      /\ \A i, j \in 1..Len(c) : i < j => <<c[i], c[j]>> \in InPrice
      /\ \A i, j \in 1..Len(d) : i < j => <<d[i], d[j]>> \in InPrice
  BY DEF Lines
<1>2. {c[i] : i \in 1..Len(c)} = {d[i] : i \in 1..Len(d)}
  <2>1. DOMAIN c = 1..Len(c) /\ DOMAIN d = 1..Len(d)
    BY <1>1
  <2>2. {c[i] : i \in DOMAIN c} = {d[i] : i \in DOMAIN d}
    BY DEF Market!ToSet
  <2> QED BY <2>1, <2>2, Zenon
<1> QED BY <1>1, <1>2, OrdersAreStrict, SameSorted, Zenon

LEMMA LevelsStay ==
  ASSUME NEW bs \in Seq(Shapes), NEW b \in Shapes, NEW tick \in Nat,
         NEW before \in Nat, NEW after \in Nat, after <= before,
         NEW z \in Market!BuildLevels(bs, tick, before),
         NEW y \in Market!BuildLevels(Append(bs, b), tick, after),
         z.members = y.members, z.broken # 0
  PROVE  y.broken \in 1..z.broken /\ (after = before => y.broken = z.broken)
<1> DEFINE cs == Append(bs, b)
           wide == Market!Larger(Market!OfAtr(before, 30), tick)
           narrow == Market!Larger(Market!OfAtr(after, 30), tick)
<1>1. PICK c \in Market!ClustersOf(bs, wide) : z = Market!Zone(bs, c, wide, tick, before)
  BY DEF Market!BuildLevels
<1>2. PICK d \in Market!ClustersOf(cs, narrow) : y = Market!Zone(cs, d, narrow, tick, after)
  BY DEF Market!BuildLevels
<1>3. /\ wide \in Nat /\ narrow \in Nat /\ narrow <= wide
      /\ before = after => wide = narrow
  <2>1. /\ Market!OfAtr(after, 30) <= Market!OfAtr(before, 30)
        /\ Market!OfAtr(after, 30) \in Nat /\ Market!OfAtr(before, 30) \in Nat
    BY MultiplesGrow, MultiplesAreNumbers
  <2> QED BY <2>1 DEF Market!Larger
<1> HIDE DEF wide, narrow
<1>4. cs \in Seq(Shapes)
  OBVIOUS
<1>5. c \in Lines(Market!ConfirmedSwings(bs)) /\ c \in Lines(Swings)
  BY ClustersOfOK
<1>6. d \in Lines(Swings)
  <2> HIDE DEF cs
  <2> QED BY <1>4, ClustersOfOK
<1>7. z.members = Market!ToSet(c) /\ y.members = Market!ToSet(d)
  BY <1>1, <1>2 DEF Market!Zone
<1>8. c = d
  BY <1>5, <1>6, <1>7, SameCluster
<1>9. LET zone == Market!Zone(bs, c, wide, tick, before)
          next == Market!Zone(Append(bs, b), c, narrow, tick, after)
      IN  /\ next.broken \in 1..zone.broken
          /\ wide = narrow /\ before = after => next.broken = zone.broken
  BY <1>1, <1>3, <1>5, ZoneStays
<1> QED BY <1>1, <1>2, <1>3, <1>8, <1>9

LEMMA LiquidityStays ==
  ASSUME NEW bs \in Seq(Shapes), NEW b \in Shapes, NEW tick \in Nat,
         NEW before \in Nat, NEW after \in Nat, after <= before,
         NEW p \in Market!ScanLiquidity(bs, tick, before),
         NEW q \in Market!ScanLiquidity(Append(bs, b), tick, after),
         p.members = q.members, p.swept # 0
  PROVE  /\ q.swept \in 1..p.swept
         /\ after = before => q.swept = p.swept /\ (p.state = "MITIGATED" => q.state = "MITIGATED")
<1> DEFINE cs == Append(bs, b)
           wide == Market!Larger(Market!OfAtr(before, 20), tick)
           narrow == Market!Larger(Market!OfAtr(after, 20), tick)
<1>1. PICK c \in Market!ClustersOf(bs, wide) : p = Market!Pool(bs, c, tick, before)
  BY DEF Market!ScanLiquidity
<1>2. PICK d \in Market!ClustersOf(cs, narrow) : q = Market!Pool(cs, d, tick, after)
  BY DEF Market!ScanLiquidity
<1> HIDE DEF wide, narrow
<1>3. cs \in Seq(Shapes)
  OBVIOUS
<1>4. c \in Lines(Market!ConfirmedSwings(bs)) /\ c \in Lines(Swings)
  BY ClustersOfOK
<1>5. d \in Lines(Swings)
  <2> HIDE DEF cs
  <2> QED BY <1>3, ClustersOfOK
<1>6. p.members = Market!ToSet(c) /\ q.members = Market!ToSet(d)
  BY <1>1, <1>2 DEF Market!Pool
<1>7. c = d
  BY <1>4, <1>5, <1>6, SameCluster
<1>8. LET pool == Market!Pool(bs, c, tick, before)
          next == Market!Pool(Append(bs, b), c, tick, after)
      IN  /\ next.swept \in 1..pool.swept
          /\ before = after => /\ next.swept = pool.swept
                               /\ pool.state = "MITIGATED" => next.state = "MITIGATED"
  BY <1>1, <1>4, PoolStays
<1> QED BY <1>1, <1>2, <1>7, <1>8

-----------------------------------------------------------------------------
(* What the invariant says, for every series of bars and every tick.       *)

(* location and dynamic_sltp: the structural stop keeps its distance after *)
(* rounding, the whole plan pays for the risk it takes, and an entry       *)
(* against the trend is let through only where the trend has stretched.    *)
THEOREM EntriesDefended == Spec => []EntryIsDefensible
<1>1. Init => MarketInv
  BY MarketInit DEF Init
<1>2. MarketInv /\ [Next]_vars => MarketInv'
  BY MarketStep, MarketInductive
<1>3. MarketInv => EntryIsDefensible
  BY StopDefended, EntriesBalanced, FadesAtTheExtreme DEF EntryIsDefensible
<1> QED BY <1>1, <1>2, <1>3, PTL DEF Spec

(* swings, levels, liquidity: another bar takes back no confirmed swing    *)
(* that the window still reaches; while the ATR does not rise it mends no  *)
(* broken zone and fills no swept pool, and with the ATR as it was both    *)
(* stay exactly as they are, although every analysis starts from nothing.  *)
THEOREM NothingRepaints == Spec => ConfirmedNeverRepaints
<1> DEFINE Untaken ==
      /\ {s \in Market!ConfirmedSwings(bars) : s.at >= Market!FirstHost(bars')}
           \subseteq Market!ConfirmedSwings(bars')
      /\ bars # <<>> => \A t \in Ticks : view'[t].atr <= view[t].atr =>
           /\ \A z \in view[t].levels : \A y \in view'[t].levels :
                z.members = y.members /\ z.broken # 0 =>
                    /\ y.broken \in 1..z.broken
                    /\ view'[t].atr = view[t].atr => y.broken = z.broken
           /\ \A p \in view[t].pools : \A q \in view'[t].pools :
                p.members = q.members /\ p.swept # 0 =>
                    /\ q.swept \in 1..p.swept
                    /\ view'[t].atr = view[t].atr =>
                         q.swept = p.swept /\ (p.state = "MITIGATED" => q.state = "MITIGATED")
<1>1. Init => MarketInv
  BY MarketInit DEF Init
<1>2. MarketInv /\ [Next]_vars => MarketInv'
  BY MarketStep, MarketInductive
<1>3. MarketInv /\ [Next]_vars => [Untaken]_Market!vars
  <2> SUFFICES ASSUME MarketInv, Market!Next PROVE Untaken
    BY MarketStep DEF Market!vars, marketVars
  <2>1. PICK b \in Shapes, atr \in AtrValues :
          /\ bars' = Append(bars, b)
          /\ view' = [t \in Ticks |-> Market!AnalyseLocation(bars', t, atr)]
    BY DEF Market!Next, Market!CloseBar
  <2>2. bars \in Seq(Shapes)
    BY DEF MarketInv
  <2>3. {s \in Market!ConfirmedSwings(bars) : s.at >= Market!FirstHost(bars')}
          \subseteq Market!ConfirmedSwings(bars')
    BY <2>1, <2>2, ConfirmedStays
  <2>4. ASSUME bars # <<>>, NEW t \in Ticks
        PROVE  /\ t \in Nat /\ view[t].atr \in Nat /\ view'[t].atr \in Nat
               /\ view[t].levels = Market!BuildLevels(bars, t, view[t].atr)
               /\ view'[t].levels = Market!BuildLevels(bars', t, view'[t].atr)
               /\ view[t].pools = Market!ScanLiquidity(bars, t, view[t].atr)
               /\ view'[t].pools = Market!ScanLiquidity(bars', t, view'[t].atr)
    <3>1. view'[t] = Market!AnalyseLocation(bars', t, atr)
      BY <2>1
    <3>2. view'[t].atr = atr
      BY <3>1 DEF Market!AnalyseLocation
    <3>3. view[t].atr \in Nat /\ atr \in Nat /\ t \in Nat
      BY <2>4, LocationOf, MarketConstants
    <3> QED BY <2>4, <3>1, <3>2, <3>3, LocationOf DEF Market!AnalyseLocation
  <2>5. ASSUME bars # <<>>, NEW t \in Ticks, view'[t].atr <= view[t].atr,
               NEW z \in view[t].levels, NEW y \in view'[t].levels,
               z.members = y.members, z.broken # 0
        PROVE  /\ y.broken \in 1..z.broken
               /\ view'[t].atr = view[t].atr => y.broken = z.broken
    BY <2>1, <2>2, <2>4, <2>5, LevelsStay
  <2>6. ASSUME bars # <<>>, NEW t \in Ticks, view'[t].atr <= view[t].atr,
               NEW p \in view[t].pools, NEW q \in view'[t].pools,
               p.members = q.members, p.swept # 0
        PROVE  /\ q.swept \in 1..p.swept
               /\ view'[t].atr = view[t].atr =>
                    q.swept = p.swept /\ (p.state = "MITIGATED" => q.state = "MITIGATED")
    BY <2>1, <2>2, <2>4, <2>6, LiquidityStays
  <2> QED BY <2>3, <2>5, <2>6
<1> QED BY <1>1, <1>2, <1>3, PTL DEF Spec, ConfirmedNeverRepaints, Market!ConfirmedNeverRepaints

=============================================================================
