------------------------ MODULE TBBTimeseries_proofs ------------------------
(* Proofs about TBBTimeseries, for any files, dipoles and recordings.           *)
EXTENDS TBBTimeseries, FiniteSetTheorems, WellFoundedInduction, TLAPS

-----------------------------------------------------------------------------
(* Numbers.                                                                     *)

\* Every set of natural numbers that is not empty has a smallest member.
LEMMA Smallest ==
    ASSUME NEW T \in SUBSET Nat, T # {}
    PROVE  \E m \in T : \A k \in T : m <= k
<1>. DEFINE R == {ss \in Nat \X Nat : ss[1] < ss[2]}
<1>1. IsWellFoundedOn(R, Nat)
  BY NatLessThanWellFounded DEF OpToRel
<1>2. \E m \in T : \A k \in T : ~ (<<k, m>> \in R)
  <2>. HIDE DEF R
  <2>. QED BY <1>1, WFMin
<1>3. PICK m \in T : \A k \in T : ~ (<<k, m>> \in R)
  BY <1>2
<1>4. \A k \in T : m <= k
  <2>. TAKE k \in T
  <2>1. m \in Nat /\ k \in Nat
    OBVIOUS
  <2>2. <<k, m>> \in Nat \X Nat /\ <<k,m>>[1] = k /\ <<k,m>>[2] = m
    BY <2>1
  <2>3. ~(k < m)
    BY <2>2, <1>3
  <2>. QED BY <2>1, <2>3
<1>. QED BY <1>4

\* Induction: a set of numbers that has 0, and the next of each up to k, has all up to k.
LEMMA Reaches ==
    ASSUME NEW k \in Nat, NEW T, 0 \in T, \A n \in 1..k : n - 1 \in T => n \in T
    PROVE  0..k \subseteq T
<1>. DEFINE F == {n \in 0..k : n \notin T}
<1>1. SUFFICES ASSUME F # {} PROVE FALSE
  OBVIOUS
<1>2. PICK m \in F : \A n \in F : m <= n
  <2>1. F \in SUBSET Nat
    OBVIOUS
  <2>. HIDE DEF F
  <2>. QED BY <1>1, <2>1, Smallest
<1>3. m \in 1..k
  OBVIOUS
<1>4. m - 1 \in 0..k /\ m - 1 \notin F
  BY <1>2, <1>3
<1>. QED BY <1>3, <1>4

-----------------------------------------------------------------------------
(* A set in order.                                                              *)

\* How many are before a member of a set: less than there are ...
LEMMA RankIs ==
    ASSUME NEW S \in SUBSET Nat, IsFiniteSet(S), NEW x \in S
    PROVE  /\ IsFiniteSet(Before(S, x)) /\ Cardinality(S) \in Nat
           /\ Cardinality(Before(S, x)) \in 0..Cardinality(S) - 1
<1>1. Before(S, x) \in SUBSET S /\ x \notin Before(S, x)
  BY DEF Before
<1>2. IsFiniteSet(Before(S, x)) /\ Cardinality(Before(S, x)) <= Cardinality(S)
      /\ Cardinality(Before(S, x)) # Cardinality(S)
  BY <1>1, FS_Subset
<1>3. Cardinality(Before(S, x)) \in Nat /\ Cardinality(S) \in Nat
  BY <1>2, FS_CardinalityType
<1>. QED BY <1>2, <1>3

\* ... and more of them before a later one.
LEMMA RankGrows ==
    ASSUME NEW S \in SUBSET Nat, IsFiniteSet(S), NEW x \in S, NEW y \in S, x < y
    PROVE  Cardinality(Before(S, x)) < Cardinality(Before(S, y))
<1>1. Before(S, x) \in SUBSET Before(S, y) /\ x \in Before(S, y) /\ x \notin Before(S, x)
  <2>1. ~(x < x) /\ \A z \in S : z < x => z < y
    OBVIOUS
  <2>. QED BY <2>1, Zenon DEF Before
<1>2. IsFiniteSet(Before(S, y)) /\ Cardinality(Before(S, x)) \in Nat
      /\ Cardinality(Before(S, y)) \in Nat
  BY RankIs
<1>3. Cardinality(Before(S, x)) <= Cardinality(Before(S, y))
      /\ Cardinality(Before(S, y)) # Cardinality(Before(S, x))
  BY <1>1, <1>2, FS_Subset
<1>. QED BY <1>2, <1>3

\* So no two members have the same number before them ...
LEMMA RankTells ==
    ASSUME NEW S \in SUBSET Nat, IsFiniteSet(S), NEW x \in S, NEW y \in S,
           Cardinality(Before(S, x)) = Cardinality(Before(S, y))
    PROVE  x = y
<1>1. CASE x < y
  <2>1. Cardinality(Before(S, x)) < Cardinality(Before(S, y))
    BY <1>1, RankGrows
  <2>. QED BY <2>1, RankIs
<1>2. CASE y < x
  <2>1. Cardinality(Before(S, y)) < Cardinality(Before(S, x))
    BY <1>2, RankGrows
  <2>. QED BY <2>1, RankIs
<1>3. x \in Nat /\ y \in Nat
  OBVIOUS
<1>. QED BY <1>1, <1>2, <1>3

\* ... and there is a member for each number.
LEMMA RankFound ==
    ASSUME NEW S \in SUBSET Nat, IsFiniteSet(S), NEW n \in 1..Cardinality(S)
    PROVE  \E x \in S : Cardinality(Before(S, x)) = n - 1
<1>. DEFINE k == Cardinality(S)
            rank == [x \in S |-> Cardinality(Before(S, x))]
<1>1. k \in Nat /\ 0 \in Int /\ k - 1 \in Int
  BY FS_CardinalityType
<1>2. IsFiniteSet(0..k - 1) /\ Cardinality(0..k - 1) = k
  <2>1. IsFiniteSet(0..k - 1) /\ Cardinality(0..k - 1) = IF 0 > k - 1 THEN 0 ELSE k - 1 - 0 + 1
    BY <1>1, FS_Interval
  <2>. QED BY <1>1, <2>1
<1>3. rank \in [S -> 0..k - 1]
  BY RankIs
<1>4. \A x, y \in S : rank[x] = rank[y] => x = y
  BY RankTells
<1>5. rank \in Injection(S, 0..k - 1)
  BY <1>3, <1>4 DEF Injection, IsInjective
<1>6. rank \in Surjection(S, 0..k - 1)
  <2>. HIDE DEF rank, k
  <2>. QED BY <1>2, <1>5, FS_Injection DEF k
<1>7. \A m \in 0..k - 1 : \E x \in S : rank[x] = m
  <2>. HIDE DEF rank
  <2>. QED BY <1>6 DEF Surjection
<1>8. n - 1 \in 0..k - 1
  BY <1>1
<1>. QED BY <1>7, <1>8

\* InOrder has every member at its place.
LEMMA InOrderIs ==
    ASSUME NEW S \in SUBSET Nat, IsFiniteSet(S)
    PROVE  /\ Cardinality(S) \in Nat /\ InOrder(S) \in [1..Cardinality(S) -> S]
           /\ InOrder(S) \in Seq(S) /\ Len(InOrder(S)) = Cardinality(S)
           /\ \A n \in 1..Cardinality(S) : Cardinality(Before(S, InOrder(S)[n])) = n - 1
           /\ \A n \in 1..Cardinality(S), x \in S :
                Cardinality(Before(S, x)) = n - 1 => InOrder(S)[n] = x
           /\ \A x \in S : \E n \in 1..Cardinality(S) : InOrder(S)[n] = x
<1>. DEFINE k == Cardinality(S)
            s == InOrder(S)
<1>1. k \in Nat
  BY FS_CardinalityType
<1>2. \A n \in 1..k : s[n] \in S /\ Cardinality(Before(S, s[n])) = n - 1
  <2>. TAKE n \in 1..k
  <2>1. \E x \in S : Cardinality(Before(S, x)) = n - 1
    BY RankFound
  <2>2. s[n] = CHOOSE x \in S : Cardinality(Before(S, x)) = n - 1
    BY DEF InOrder
  <2>. QED BY <2>1, <2>2
<1>3. s = [n \in 1..k |-> s[n]]
  BY DEF InOrder
<1>. HIDE DEF s, k
<1>4. s \in [1..k -> S]
  BY <1>2, <1>3
<1>5. s \in Seq(S) /\ Len(s) = k
  BY <1>1, <1>4
<1>6. \A n \in 1..k, x \in S : Cardinality(Before(S, x)) = n - 1 => s[n] = x
  BY <1>2, RankTells
<1>7. \A x \in S : \E n \in 1..k : s[n] = x
  <2>. TAKE x \in S
  <2>. DEFINE r == Cardinality(Before(S, x))
  <2>1. r \in 0..k - 1 /\ Cardinality(Before(S, x)) = r
    BY RankIs DEF k
  <2>. HIDE DEF r
  <2>2. r + 1 \in 1..k
    BY <1>1, <2>1
  <2>3. PICK n \in 1..k : n = r + 1
    BY <2>2
  <2>4. Cardinality(Before(S, x)) = n - 1
    BY <2>1, <2>3
  <2>. QED BY <1>6, <2>4
<1>. QED BY <1>1, <1>2, <1>4, <1>5, <1>6, <1>7 DEF s, k

\* Two sequences one after the other.
LEMMA Joined ==
    ASSUME NEW S, NEW a \in Seq(S), NEW b \in Seq(S)
    PROVE  /\ a \o b \in Seq(S) /\ Len(a \o b) = Len(a) + Len(b)
           /\ \A n \in 1..Len(a) + Len(b) :
                (a \o b)[n] = IF n <= Len(a) THEN a[n] ELSE b[n - Len(a)]
  OBVIOUS

\* Two sets one after the other: the order of both together.
LEMMA InOrderAfter ==
    ASSUME NEW A \in SUBSET Nat, IsFiniteSet(A), NEW B \in SUBSET Nat, IsFiniteSet(B),
           \A a \in A, b \in B : a < b
    PROVE  InOrder(A \cup B) = InOrder(A) \o InOrder(B)
<1>. DEFINE S == A \cup B
            i == Cardinality(A)
            j == Cardinality(B)
            t == InOrder(A) \o InOrder(B)
<1>1. S \in SUBSET Nat /\ A \cap B = {}
  OBVIOUS
<1>2. IsFiniteSet(S) /\ Cardinality(S) = i + j /\ i \in Nat /\ j \in Nat
  <2>1. IsFiniteSet(S) /\ Cardinality(S) = i + j - Cardinality(A \cap B)
    BY FS_Union
  <2>2. Cardinality(A \cap B) = 0 /\ i \in Nat /\ j \in Nat
    BY <1>1, FS_EmptySet, FS_CardinalityType
  <2>. QED BY <2>1, <2>2
<1>n. \A a \in A, b \in B : a \in Nat /\ b \in Nat /\ a < b /\ ~(b < a)
  OBVIOUS
<1>3. \A x \in A : Before(S, x) = Before(A, x)
  <2>. TAKE x \in A
  <2>1. \A y \in B : ~(y < x)
    BY <1>n
  <2>. QED BY <2>1 DEF Before
<1>4. \A x \in B : Cardinality(Before(S, x)) = i + Cardinality(Before(B, x))
  <2>. TAKE x \in B
  <2>1. Before(S, x) = A \cup Before(B, x) /\ A \cap Before(B, x) = {}
    BY <1>n, <1>1 DEF Before
  <2>2. IsFiniteSet(Before(B, x)) /\ Cardinality(Before(B, x)) \in Nat
    BY RankIs
  <2>3. Cardinality(A \cup Before(B, x))
          = i + Cardinality(Before(B, x)) - Cardinality(A \cap Before(B, x))
    BY <2>2, FS_Union
  <2>4. Cardinality(A \cap Before(B, x)) = 0
    BY <2>1, FS_EmptySet
  <2>. HIDE DEF i, S
  <2>. QED BY <1>2, <2>1, <2>2, <2>3, <2>4
<1>5. /\ InOrder(A) \in Seq(A) /\ Len(InOrder(A)) = i
      /\ \A n \in 1..i : InOrder(A)[n] \in A /\ Cardinality(Before(A, InOrder(A)[n])) = n - 1
  BY InOrderIs
<1>6. /\ InOrder(B) \in Seq(B) /\ Len(InOrder(B)) = j
      /\ \A n \in 1..j : InOrder(B)[n] \in B /\ Cardinality(Before(B, InOrder(B)[n])) = n - 1
  BY InOrderIs
<1>7. /\ InOrder(S) \in Seq(S) /\ Len(InOrder(S)) = i + j
      /\ \A n \in 1..i + j, x \in S : Cardinality(Before(S, x)) = n - 1 => InOrder(S)[n] = x
  <2>. HIDE DEF S, i, j
  <2>. QED BY <1>1, <1>2, InOrderIs
<1>. HIDE DEF S, i, j
<1>8. t \in Seq(A \cup B) /\ Len(t) = i + j
      /\ \A n \in 1..i + j : t[n] = IF n <= i THEN InOrder(A)[n] ELSE InOrder(B)[n - i]
  <2>1. /\ InOrder(A) \in Seq(A \cup B) /\ InOrder(B) \in Seq(A \cup B)
    BY <1>5, <1>6
  <2>. QED BY <1>2, <1>5, <1>6, <2>1, Joined
<1>. HIDE DEF t
<1>9. \A n \in 1..i + j : InOrder(S)[n] = t[n]
  <2>. TAKE n \in 1..i + j
  <2>1. CASE n <= i
    <3>1. n \in 1..i /\ t[n] = InOrder(A)[n]
      BY <1>2, <1>8, <2>1
    <3>2. t[n] \in A /\ Cardinality(Before(S, t[n])) = n - 1
      BY <1>3, <1>5, <3>1
    <3>. QED BY <1>7, <3>2 DEF S
  <2>2. CASE ~(n <= i)
    <3>1. n - i \in 1..j /\ t[n] = InOrder(B)[n - i]
      BY <1>2, <1>8, <2>2
    <3>2. t[n] \in B /\ Cardinality(Before(B, t[n])) = n - i - 1
      BY <1>6, <3>1
    <3>3. Cardinality(Before(S, t[n])) = i + (n - i - 1)
      BY <1>4, <3>2
    <3>4. Cardinality(Before(S, t[n])) = n - 1
      BY <1>2, <3>3
    <3>. QED BY <1>7, <3>2, <3>4 DEF S
  <2>. QED BY <2>1, <2>2
<1>10. InOrder(S) = t
  BY <1>2, <1>7, <1>8, <1>9
<1>. QED BY <1>10 DEF S, t

-----------------------------------------------------------------------------
(* Set after set.                                                               *)

\* What comes before the next set when n of them are listed.
Taken(sets, order, n) == UNION {sets[order[i]] : i \in 1..n}

\* The sets of stations: a number has its set, and later numbers have later sets.
Apart(sets) ==
  /\ DOMAIN sets \in SUBSET Nat /\ IsFiniteSet(DOMAIN sets)
  /\ \A g \in DOMAIN sets : sets[g] \in SUBSET Nat /\ IsFiniteSet(sets[g])
  /\ \A g, h \in DOMAIN sets : g < h => \A d \in sets[g], e \in sets[h] : d < e

LEMMA OrderGrows ==
    ASSUME NEW S \in SUBSET Nat, IsFiniteSet(S), NEW i \in 1..Cardinality(S),
           NEW j \in 1..Cardinality(S), i < j
    PROVE  InOrder(S)[i] < InOrder(S)[j]
<1>. DEFINE s == InOrder(S)
<1>1. /\ s[i] \in S /\ s[j] \in S /\ Cardinality(S) \in Nat
      /\ Cardinality(Before(S, s[i])) = i - 1 /\ Cardinality(Before(S, s[j])) = j - 1
  BY InOrderIs
<1>. HIDE DEF s
<1>2. s[i] # s[j]
  BY <1>1
<1>3. ASSUME s[j] < s[i] PROVE FALSE
  <2>1. Cardinality(Before(S, s[j])) < Cardinality(Before(S, s[i]))
    BY <1>1, <1>3, RankGrows
  <2>. QED BY <1>1, <2>1
<1>4. s[i] \in Nat /\ s[j] \in Nat
  BY <1>1
<1>5. s[i] < s[j]
  BY <1>2, <1>3, <1>4
<1>. QED BY <1>5 DEF s

\* One set more.
LEMMA TakenNext ==
    ASSUME NEW sets, Apart(sets), NEW n \in 1..Cardinality(DOMAIN sets)
    PROVE  LET order == InOrder(DOMAIN sets)
           IN  /\ Taken(sets, order, n) \in SUBSET Nat /\ IsFiniteSet(Taken(sets, order, n))
               /\ InOrder(Taken(sets, order, n))
                    = InOrder(Taken(sets, order, n - 1)) \o InOrder(sets[order[n]])
<1>. DEFINE D == DOMAIN sets
            order == InOrder(D)
            k == Cardinality(D)
<1>1. /\ k \in Nat /\ order \in [1..k -> D] /\ D \in SUBSET Nat /\ IsFiniteSet(D)
  BY InOrderIs DEF Apart
<1>2. \A i, j \in 1..k : i < j => order[i] < order[j]
  BY <1>1, OrderGrows
<1>. HIDE DEF order, k
<1>3. \A i \in 1..k : order[i] \in D /\ sets[order[i]] \in SUBSET Nat /\ IsFiniteSet(sets[order[i]])
  BY <1>1 DEF Apart
<1>4. \A m \in 0..k : Taken(sets, order, m) \in SUBSET Nat /\ IsFiniteSet(Taken(sets, order, m))
  <2>. TAKE m \in 0..k
  <2>1. 1..m \subseteq 1..k /\ m \in Int
    BY <1>1
  <2>2. IsFiniteSet({sets[order[i]] : i \in 1..m})
    <3>1. IsFiniteSet(1..m)
      BY <2>1, FS_Interval
    <3>. DEFINE f == [i \in 1..m |-> sets[order[i]]]
                T == {sets[order[i]] : i \in 1..m}
    <3>2. f \in Surjection(1..m, T)
      BY DEF Surjection
    <3>. HIDE DEF f, T
    <3>3. IsFiniteSet(T)
      BY <3>1, <3>2, FS_Surjection
    <3>. QED BY <3>3 DEF T
  <2>3. \A T \in {sets[order[i]] : i \in 1..m} : IsFiniteSet(T) /\ T \in SUBSET Nat
    BY <1>3, <2>1
  <2>. QED BY <2>2, <2>3, FS_UNION DEF Taken
<1>5. n \in 0..k /\ n - 1 \in 0..k /\ n \in 1..k /\ 1..n = (1..n - 1) \cup {n}
  BY <1>1 DEF k
<1>6. Taken(sets, order, n) = Taken(sets, order, n - 1) \cup sets[order[n]]
  BY <1>5 DEF Taken
<1>7. \A a \in Taken(sets, order, n - 1), b \in sets[order[n]] : a < b
  <2>. SUFFICES ASSUME NEW i \in 1..n - 1, NEW a \in sets[order[i]], NEW b \in sets[order[n]]
                PROVE  a < b
    BY DEF Taken
  <2>1. i \in 1..k /\ i < n
    BY <1>1, <1>5
  <2>2. order[i] < order[n] /\ order[i] \in D /\ order[n] \in D
    BY <1>2, <1>3, <1>5, <2>1
  <2>. QED BY <2>2 DEF Apart
<1>8. InOrder(Taken(sets, order, n - 1) \cup sets[order[n]])
        = InOrder(Taken(sets, order, n - 1)) \o InOrder(sets[order[n]])
  BY <1>3, <1>4, <1>5, <1>7, InOrderAfter
<1>. QED BY <1>4, <1>5, <1>6, <1>8 DEF order

\* Nothing in order is the empty sequence.
LEMMA InOrderEmpty == InOrder({}) = << >>
<1>1. Cardinality({}) = 0
  BY FS_EmptySet
<1>2. 1..0 = {}
  OBVIOUS
<1>. QED BY <1>1, <1>2 DEF InOrder

\* Station by station, all in order: what is listed is the union, in order.
LEMMA ListedIs ==
    ASSUME NEW sets, Apart(sets)
    PROVE  Listed(sets) = InOrder(UNION {sets[g] : g \in DOMAIN sets})
<1>. DEFINE D == DOMAIN sets
            order == InOrder(D)
            k == Len(order)
            Rest(f) == [n \in 0..k |->
                          IF n = 0 THEN << >> ELSE f[n - 1] \o InOrder(sets[order[n]])]
            all == [n \in 0..k |-> InOrder(Taken(sets, order, n))]
            upto == CHOOSE f : f = Rest(f)
<1>1. /\ k \in Nat /\ k = Cardinality(D) /\ order \in [1..k -> D]
      /\ \A g \in D : \E i \in 1..k : order[i] = g
  <2>1. D \in SUBSET Nat /\ IsFiniteSet(D)
    BY DEF Apart
  <2>2. k = Cardinality(D)
    BY <2>1, InOrderIs
  <2>. HIDE DEF k, D
  <2>. QED BY <2>1, <2>2, InOrderIs
<1>2. all[0] = << >> /\ \A n \in 1..k : all[n] = all[n - 1] \o InOrder(sets[order[n]])
  <2>1. Taken(sets, order, 0) = {} /\ 0 \in 0..k
    BY <1>1 DEF Taken
  <2>2. ASSUME NEW n \in 1..k PROVE all[n] = all[n - 1] \o InOrder(sets[order[n]])
    <3>1. InOrder(Taken(sets, order, n))
            = InOrder(Taken(sets, order, n - 1)) \o InOrder(sets[order[n]])
      BY <1>1, TakenNext
    <3>2. n \in 0..k /\ n - 1 \in 0..k
      BY <1>1
    <3>. HIDE DEF order, k
    <3>. QED BY <3>1, <3>2
  <2>. HIDE DEF order, k
  <2>. QED BY <2>1, <2>2, InOrderEmpty
<1>. HIDE DEF order, k
<1>3. all = Rest(all)
  <2>. DEFINE rest == Rest(all)
  <2>1. \A n \in 0..k : all[n] = rest[n]
    <3>. HIDE DEF all
    <3>. TAKE n \in 0..k
    <3>1. n # 0 => n \in 1..k
      BY <1>1
    <3>. QED BY <1>2, <3>1
  <2>2. all = [n \in 0..k |-> all[n]] /\ rest = [n \in 0..k |-> rest[n]]
    OBVIOUS
  <2>3. all = rest
    <3>. HIDE DEF all, rest
    <3>. QED BY <2>1, <2>2, Zenon
  <2>. QED BY <2>3
<1>4. upto = Rest(upto)
  <2>. HIDE DEF all, Rest
  <2>. QED BY <1>3
<1>5. \A n \in 0..k : upto[n] = all[n]
  <2>. DEFINE T == {n \in 0..k : upto[n] = all[n]}
  <2>1. upto[0] = << >> /\ \A n \in 1..k : upto[n] = upto[n - 1] \o InOrder(sets[order[n]])
    <3>1. 0 \in 0..k /\ \A n \in 1..k : n \in 0..k /\ n # 0
      BY <1>1
    <3>. HIDE DEF upto
    <3>2. upto = [n \in 0..k |->
                    IF n = 0 THEN << >> ELSE upto[n - 1] \o InOrder(sets[order[n]])]
      BY <1>4
    <3>. HIDE DEF Rest
    <3>. QED BY <3>1, <3>2
  <2>2. 0 \in T /\ \A n \in 1..k : n - 1 \in T => n \in T
    <3>. HIDE DEF upto, all
    <3>1. 0 \in 0..k /\ \A n \in 1..k : n \in 0..k
      BY <1>1
    <3>. QED BY <1>2, <2>1, <3>1
  <2>3. 0..k \subseteq T
    <3>. HIDE DEF T
    <3>. QED BY <1>1, <2>2, Reaches
  <2>. QED BY <2>3
<1>6. Listed(sets) = upto[k]
  BY DEF Listed, order, k
<1>7. all[k] = InOrder(Taken(sets, order, k))
  BY <1>1
<1>8. Taken(sets, order, k) = UNION {sets[g] : g \in DOMAIN sets}
  BY <1>1 DEF Taken
<1>9. k \in 0..k
  BY <1>1
<1>. HIDE DEF upto, all
<1>. QED BY <1>5, <1>6, <1>7, <1>8, <1>9

-----------------------------------------------------------------------------
(* Stations.                                                                    *)

\* Dipoles of two stations are not in the same place, nor are they the same.
LEMMA DipolesApart ==
    ASSUME NEW g, NEW h, g < h, NEW d \in DipolesOf(g), NEW e \in DipolesOf(h)
    PROVE  d < e
<1>1. PICK f1 \in Files : g \in DOMAIN Contents[f1].groups
  BY DEF DipolesOf, FilesWith
<1>2. PICK f2 \in Files : h \in DOMAIN Contents[f2].groups
  BY DEF DipolesOf, FilesWith
<1>. QED BY <1>1, <1>2, NamesAssumption

LEMMA DipolesOfDipoles == \A g : DipolesOf(g) \in SUBSET Dipoles
  BY NamesAssumption DEF DipolesOf, FilesWith

\* Sets of the stations' dipoles are apart.
LEMMA StationsApart ==
    ASSUME NEW sets, DOMAIN sets \in SUBSET Nat, IsFiniteSet(DOMAIN sets),
           \A g \in DOMAIN sets : sets[g] \in SUBSET DipolesOf(g)
    PROVE  Apart(sets)
<1>1. ASSUME NEW g \in DOMAIN sets PROVE sets[g] \in SUBSET Nat /\ IsFiniteSet(sets[g])
  <2>1. sets[g] \in SUBSET Dipoles
    BY DipolesOfDipoles
  <2>. QED BY <2>1, ContentsAssumption, FS_Subset
<1>2. ASSUME NEW g \in DOMAIN sets, NEW h \in DOMAIN sets, g < h,
             NEW d \in sets[g], NEW e \in sets[h]
      PROVE  d < e
  BY <1>2, DipolesApart
<1>. QED BY <1>1, <1>2 DEF Apart

\* What the attributes are listed by is what was selected, in order ...
LEMMA RowsAre ==
    ASSUME NEW groups, StationInv(groups)
    PROVE  Rows(groups) = InOrder(Chosen(groups))
<1>. DEFINE sets == [g \in DOMAIN groups |-> groups[g].selected]
<1>1. DOMAIN sets = DOMAIN groups /\ \A g \in DOMAIN groups : sets[g] = groups[g].selected
  OBVIOUS
<1>. HIDE DEF sets
<1>2. Apart(sets)
  BY <1>1, StationsApart DEF StationInv
<1>3. Listed(sets) = InOrder(UNION {sets[g] : g \in DOMAIN sets})
  BY <1>2, ListedIs
<1>4. UNION {sets[g] : g \in DOMAIN sets} = Chosen(groups)
  BY <1>1 DEF Chosen
<1>5. Rows(groups) = Listed(sets)
  BY DEF Rows, sets
<1>. QED BY <1>3, <1>4, <1>5

\* ... and the names are those of all dipoles.
AllOf(groups) == UNION {groups[g].datasets : g \in DOMAIN groups}

LEMMA AllNamesAre ==
    ASSUME NEW groups, StationInv(groups)
    PROVE  AllNames(groups) = InOrder(AllOf(groups))
<1>. DEFINE sets == [g \in DOMAIN groups |-> groups[g].datasets]
<1>1. DOMAIN sets = DOMAIN groups /\ \A g \in DOMAIN groups : sets[g] = groups[g].datasets
  OBVIOUS
<1>. HIDE DEF sets
<1>2. Apart(sets)
  BY <1>1, StationsApart DEF StationInv
<1>3. Listed(sets) = InOrder(UNION {sets[g] : g \in DOMAIN sets})
  BY <1>2, ListedIs
<1>4. UNION {sets[g] : g \in DOMAIN sets} = AllOf(groups)
  BY <1>1 DEF AllOf
<1>5. AllNames(groups) = Listed(sets)
  BY DEF AllNames, sets
<1>. QED BY <1>3, <1>4, <1>5

\* The dipoles are finite in number, and numbers.
LEMMA AllOfFinite ==
    ASSUME NEW groups, StationInv(groups)
    PROVE  AllOf(groups) \in SUBSET Dipoles /\ AllOf(groups) \in SUBSET Nat /\ IsFiniteSet(AllOf(groups))
<1>1. AllOf(groups) \in SUBSET Dipoles
  BY DipolesOfDipoles DEF StationInv, AllOf
<1>. QED BY <1>1, ContentsAssumption, FS_Subset

-----------------------------------------------------------------------------
(* Selections.                                                                  *)

Station == [datasets : SUBSET Dipoles, selected : SUBSET Dipoles]

\* A station as it should be: it selects of its own, and something if it can.
IsStation(g, s) ==
  /\ s \in Station
  /\ s.datasets \subseteq DipolesOf(g) /\ s.selected \subseteq s.datasets
  /\ s.datasets # {} => s.selected # {}

LEMMA StationsAre ==
    ASSUME NEW groups
    PROVE  StationInv(groups) <=>
             /\ DOMAIN groups \subseteq Nat /\ IsFiniteSet(DOMAIN groups)
             /\ groups = [g \in DOMAIN groups |-> groups[g]]
             /\ \A g \in DOMAIN groups : IsStation(g, groups[g])
  BY DEF StationInv, IsStation, Station

\* selectDipoles and selectAllDipoles in a station: which datasets there are stays, and
\* what is selected is what was asked for, or what it was.
LEMMA SelectInIs ==
    ASSUME NEW g, NEW s, IsStation(g, s), NEW names
    PROVE  /\ IsStation(g, SelectIn(s, names)) /\ SelectIn(s, names).datasets = s.datasets
           /\ s.datasets \cap names = {} => SelectIn(s, names).selected = s.selected
           /\ s.datasets \cap names # {} => SelectIn(s, names).selected = s.datasets \cap names
  BY DEF IsStation, Station, SelectIn

LEMMA SelectAllInIs ==
    ASSUME NEW g, NEW s, IsStation(g, s)
    PROVE  /\ IsStation(g, SelectAllIn(s)) /\ SelectAllIn(s).datasets = s.datasets
           /\ SelectAllIn(s).selected = s.datasets
  BY DEF IsStation, Station, SelectAllIn

\* Two stations with the same fields are the same.
LEMMA SameStation ==
    ASSUME NEW g, NEW s, IsStation(g, s), NEW t, IsStation(g, t),
           s.datasets = t.datasets, s.selected = t.selected
    PROVE  s = t
  BY DEF IsStation, Station

LEMMA NarrowedIs ==
    ASSUME NEW groups, StationInv(groups), NEW names
    PROVE  /\ StationInv(Narrowed(groups, names))
           /\ DOMAIN Narrowed(groups, names) = DOMAIN groups
           /\ \A g \in DOMAIN groups : Narrowed(groups, names)[g] = SelectIn(groups[g], names)
<1>. DEFINE after == Narrowed(groups, names)
<1>1. /\ DOMAIN after = DOMAIN groups /\ \A g \in DOMAIN groups : after[g] = SelectIn(groups[g], names)
      /\ after = [g \in DOMAIN after |-> after[g]]
  BY DEF Narrowed
<1>. HIDE DEF after
<1>2. \A g \in DOMAIN groups : IsStation(g, groups[g])
  BY StationsAre
<1>3. \A g \in DOMAIN after : IsStation(g, after[g])
  BY <1>1, <1>2, SelectInIs
<1>4. StationInv(after)
  BY <1>1, <1>3, StationsAre
<1>. QED BY <1>1, <1>4 DEF after

LEMMA EverythingIs ==
    ASSUME NEW groups, StationInv(groups)
    PROVE  /\ StationInv(Everything(groups)) /\ DOMAIN Everything(groups) = DOMAIN groups
           /\ \A g \in DOMAIN groups : Everything(groups)[g] = SelectAllIn(groups[g])
<1>. DEFINE after == Everything(groups)
<1>1. /\ DOMAIN after = DOMAIN groups /\ \A g \in DOMAIN groups : after[g] = SelectAllIn(groups[g])
      /\ after = [g \in DOMAIN after |-> after[g]]
  BY DEF Everything
<1>. HIDE DEF after
<1>2. \A g \in DOMAIN groups : IsStation(g, groups[g])
  BY StationsAre
<1>3. \A g \in DOMAIN after : IsStation(g, after[g])
  BY <1>1, <1>2, SelectAllInIs
<1>4. StationInv(after)
  BY <1>1, <1>3, StationsAre
<1>. QED BY <1>1, <1>4 DEF after

\* Of all that is selected a station finds its own again: no other has its dipoles.
LEMMA FindsItsOwn ==
    ASSUME NEW groups, StationInv(groups), NEW g \in DOMAIN groups
    PROVE  groups[g].datasets \cap Chosen(groups) = groups[g].selected
<1>1. groups[g].selected \subseteq groups[g].datasets \cap Chosen(groups)
  BY DEF StationInv, Chosen
<1>2. ASSUME NEW d \in groups[g].datasets, d \in Chosen(groups)
      PROVE  d \in groups[g].selected
  <2>1. PICK h \in DOMAIN groups : d \in groups[h].selected
    BY <1>2 DEF Chosen
  <2>2. d \in DipolesOf(g) /\ d \in DipolesOf(h) /\ g \in Nat /\ h \in Nat /\ d \in Nat
    BY <2>1, DipolesOfDipoles, ContentsAssumption DEF StationInv
  <2>3. ~(g < h) /\ ~(h < g)
    <3>1. ~(d < d)
      BY <2>2
    <3>. QED BY <2>2, <3>1, DipolesApart
  <2>4. g = h
    BY <2>2, <2>3
  <2>. QED BY <2>1, <2>4
<1>. QED BY <1>1, <1>2

\* Whatever is selected in between, selecting what was selected puts the stations back.
LEMMA PutBack ==
    ASSUME NEW groups, StationInv(groups), NEW between, StationInv(between),
           DOMAIN between = DOMAIN groups,
           \A g \in DOMAIN groups : between[g].datasets = groups[g].datasets
    PROVE  Narrowed(between, Chosen(groups)) = groups
<1>. DEFINE after == Narrowed(between, Chosen(groups))
<1>1. /\ StationInv(after) /\ DOMAIN after = DOMAIN groups
      /\ \A g \in DOMAIN groups : after[g] = SelectIn(between[g], Chosen(groups))
  BY NarrowedIs
<1>. HIDE DEF after
<1>2. \A g \in DOMAIN groups : IsStation(g, groups[g]) /\ IsStation(g, between[g])
                                /\ IsStation(g, after[g])
  BY <1>1, StationsAre
<1>3. ASSUME NEW g \in DOMAIN groups PROVE after[g] = groups[g]
  <2>. DEFINE s == between[g]
              names == Chosen(groups)
  <2>0. IsStation(g, s) /\ s.datasets = groups[g].datasets /\ after[g] = SelectIn(s, names)
    BY <1>1, <1>2
  <2>. HIDE DEF s, names
  <2>1. /\ after[g].datasets = groups[g].datasets
        /\ groups[g].datasets \cap Chosen(groups) = {} => after[g].selected = between[g].selected
        /\ groups[g].datasets \cap Chosen(groups) # {}
             => after[g].selected = groups[g].datasets \cap Chosen(groups)
    BY <2>0, SelectInIs DEF s, names
  <2>2. groups[g].datasets \cap Chosen(groups) = groups[g].selected
    BY FindsItsOwn
  <2>3. CASE groups[g].selected = {}
    <3>1. groups[g].datasets = {} /\ between[g].selected = {}
      BY <1>2, <2>3 DEF IsStation
    <3>2. after[g].selected = groups[g].selected
      BY <2>1, <2>2, <2>3, <3>1
    <3>. QED BY <1>2, <2>1, <3>2, SameStation
  <2>4. CASE groups[g].selected # {}
    <3>1. after[g].selected = groups[g].selected
      BY <2>1, <2>2, <2>4
    <3>. QED BY <1>2, <2>1, <3>1, SameStation
  <2>. QED BY <2>3, <2>4
<1>4. groups = [g \in DOMAIN groups |-> groups[g]] /\ after = [g \in DOMAIN after |-> after[g]]
  BY <1>1, StationsAre
<1>5. after = groups
  BY <1>1, <1>3, <1>4, Zenon
<1>. QED BY <1>5 DEF after

LEMMA ReferencePutBack ==
    ASSUME NEW names, StationInv(stations), selected = Chosen(stations)
    PROVE  Narrowed(Narrowed(stations, names), selected) = stations
<1>. DEFINE between == Narrowed(stations, names)
<1>1. StationInv(between) /\ DOMAIN between = DOMAIN stations
      /\ \A g \in DOMAIN stations : between[g] = SelectIn(stations[g], names)
  BY NarrowedIs
<1>2. \A g \in DOMAIN stations : between[g].datasets = stations[g].datasets
  <2>. HIDE DEF between
  <2>. QED BY <1>1, StationsAre, SelectInIs
<1>. HIDE DEF between
<1>3. Narrowed(between, Chosen(stations)) = stations
  BY <1>1, <1>2, PutBack
<1>. QED BY <1>3 DEF between

LEMMA EverythingPutBack ==
    ASSUME StationInv(stations), selected = Chosen(stations)
    PROVE  Narrowed(Everything(stations), selected) = stations
<1>. DEFINE between == Everything(stations)
<1>1. StationInv(between) /\ DOMAIN between = DOMAIN stations
      /\ \A g \in DOMAIN stations : between[g] = SelectAllIn(stations[g])
  BY EverythingIs
<1>2. \A g \in DOMAIN stations : between[g].datasets = stations[g].datasets
  <2>. HIDE DEF between
  <2>. QED BY <1>1, StationsAre, SelectAllInIs
<1>. HIDE DEF between
<1>3. Narrowed(between, Chosen(stations)) = stations
  BY <1>1, <1>2, PutBack
<1>. QED BY <1>3 DEF between

-----------------------------------------------------------------------------
(* The reference antenna.                                                       *)

\* What is not larger stays so when both are multiplied.
LEMMA Scaled ==
    ASSUME NEW a \in Int, NEW b \in Int, NEW c \in Nat, a <= b
    PROVE  a * c <= b * c
<1>1. (b - a) * c >= 0
  <2>1. b - a \in Nat
    OBVIOUS
  <2>2. \A m \in Nat : m * c >= 0
    OBVIOUS
  <2>. QED BY <2>1, <2>2
<1>2. (b - a) * c = b * c - a * c
  OBVIOUS
<1>. QED BY <1>1, <1>2

\* The double is at most half a step from the instant.
LEMMA Nearest ==
    ASSUME NEW d \in Dipoles
    PROVE  /\ Frequency[d] \in Nat \ {0} /\ Instant(d) \in Nat /\ Current(d) \in Nat
           /\ 2 * Instant(d) <= (2 * Current(d) + 1) * Frequency[d]
           /\ 2 * Current(d) * Frequency[d] <= 2 * Instant(d) + Frequency[d]
<1>. DEFINE f == Frequency[d]
            n == Instant(d)
            q == n \div f
            r == n % f
<1>1. f \in Nat \ {0} /\ n \in Nat
  BY RecordingAssumption DEF Instant
<1>2. Current(d) = IF 2 * r < f \/ (2 * r = f /\ q % 2 = 0) THEN q ELSE q + 1
  BY DEF Current
<1>. HIDE DEF f, n
<1>3. q \in Nat /\ r \in 0 .. f - 1 /\ n = f * q + r
  BY <1>1
<1>. HIDE DEF q, r
<1>4. f * q = q * f /\ (2 * q + 1) * f = 2 * (q * f) + f /\ 2 * q * f = 2 * (q * f)
      /\ (2 * (q + 1) + 1) * f = 2 * (q * f) + 3 * f
      /\ 2 * (q + 1) * f = 2 * (q * f) + 2 * f
      /\ q * f \in Nat
  BY <1>1, <1>3
<1>5. CASE Current(d) = q /\ 2 * r <= f
  BY <1>1, <1>3, <1>4, <1>5 DEF f, n
<1>6. CASE Current(d) = q + 1 /\ 2 * r >= f
  BY <1>1, <1>3, <1>4, <1>6 DEF f, n
<1>7. 2 * r <= f \/ 2 * r >= f
  BY <1>1, <1>3
<1>8. (Current(d) = q /\ 2 * r <= f) \/ (Current(d) = q + 1 /\ 2 * r >= f)
  BY <1>1, <1>2, <1>3
<1>. QED BY <1>5, <1>6, <1>8

\* So one whose double is not larger is at most a step later.
LEMMA StepLater ==
    ASSUME NEW d \in Dipoles, NEW e \in Dipoles, Current(d) <= Current(e)
    PROVE  NotMuchLater(d, e)
<1>. DEFINE f == Frequency[d]
            g == Frequency[e]
            m == Instant(d)
            n == Instant(e)
            c == Current(d)
            k == Current(e)
<1>1. /\ f \in Nat /\ m \in Nat /\ c \in Nat /\ 2 * m <= (2 * c + 1) * f
      /\ g \in Nat /\ n \in Nat /\ k \in Nat /\ 2 * k * g <= 2 * n + g
      /\ c <= k
  BY Nearest
<1>. HIDE DEF f, g, m, n, c, k
<1>2. 2 * m <= (2 * k + 1) * f
  <2>1. (2 * c + 1) * f <= (2 * k + 1) * f
    BY <1>1, Scaled
  <2>2. (2 * c + 1) * f \in Int /\ (2 * k + 1) * f \in Int /\ 2 * m \in Int
    BY <1>1
  <2>. QED BY <1>1, <2>1, <2>2
<1>3. (2 * m) * g <= ((2 * k + 1) * f) * g
  <2>1. 2 * m \in Int /\ (2 * k + 1) * f \in Int
    BY <1>1
  <2>. QED BY <1>1, <1>2, <2>1, Scaled
<1>4. (2 * k * g) * f <= (2 * n + g) * f
  <2>1. 2 * k * g \in Int /\ 2 * n + g \in Int
    BY <1>1
  <2>. QED BY <1>1, <2>1, Scaled
<1>5. /\ (2 * m) * g = 2 * (m * g)
      /\ ((2 * k + 1) * f) * g = (2 * k * g) * f + f * g
      /\ (2 * n + g) * f = 2 * (n * f) + f * g
  BY <1>1
<1>6. m * g \in Int /\ n * f \in Int /\ f * g \in Int /\ (2 * k * g) * f \in Int
  BY <1>1
<1>7. m * g <= n * f + f * g
  BY <1>3, <1>4, <1>5, <1>6
<1>. QED BY <1>7 DEF NotMuchLater, f, g, m, n

\* Of a sequence of numbers one is largest, and of these one is first.
LEMMA FirstLargest ==
    ASSUME NEW k \in Nat \ {0}, NEW v \in [1..k -> Nat]
    PROVE  \E i \in 1..k : /\ \A j \in 1..k : v[j] <= v[i]
                           /\ \A j \in 1..i - 1 : v[j] < v[i]
<1>. DEFINE Top(m, i) == \A j \in 1..m : v[j] <= v[i]
            T == {m \in 0..k : m = 0 \/ \E i \in 1..m : Top(m, i)}
            L == {i \in 1..k : Top(k, i)}
<1>1. ASSUME NEW n \in 1..k, n - 1 \in T PROVE n \in T
  <2>1. CASE n = 1
    BY <2>1
  <2>2. CASE n # 1
    <3>1. PICK i \in 1..n - 1 : Top(n - 1, i)
      BY <1>1, <2>2
    <3>2. i \in 1..n /\ n \in 1..n /\ 1..n = (1..n - 1) \cup {n}
      OBVIOUS
    <3>3. v[i] \in Nat /\ v[n] \in Nat /\ \A j \in 1..n : v[j] \in Nat
      OBVIOUS
    <3>4. Top(n, i) \/ Top(n, n)
      <4>0. \A j \in 1..n : j \in 1..n - 1 \/ j = n
        OBVIOUS
      <4>1. CASE v[n] <= v[i]
        BY <3>1, <4>0, <4>1
      <4>2. ASSUME ~(v[n] <= v[i]), NEW j \in 1..n PROVE v[j] <= v[n]
        <5>1. j = n \/ (j \in 1..n - 1 /\ v[j] <= v[i])
          BY <3>1, <4>0
        <5>2. v[j] \in Nat
          BY <3>3
        <5>. QED BY <3>3, <4>2, <5>1, <5>2
      <4>. QED BY <4>1, <4>2
    <3>5. \E i2 \in 1..n : Top(n, i2)
      <4>. HIDE DEF Top
      <4>. QED BY <3>2, <3>4
    <3>. QED BY <3>5
  <2>. QED BY <2>1, <2>2
<1>2. 0..k \subseteq T
  <2>1. 0 \in T
    OBVIOUS
  <2>. HIDE DEF T
  <2>. QED BY <1>1, <2>1, Reaches
<1>3. L # {} /\ L \in SUBSET Nat
  <2>1. k \in T /\ k # 0
    <3>. HIDE DEF T
    <3>. QED BY <1>2
  <2>2. PICK i \in 1..k : Top(k, i)
    <3>. HIDE DEF Top
    <3>. QED BY <2>1
  <2>3. i \in L
    BY <2>2
  <2>. QED BY <2>3
<1>4. PICK i \in L : \A j \in L : i <= j
  <2>. HIDE DEF L
  <2>. QED BY <1>3, Smallest
<1>5. ASSUME NEW j \in 1..i - 1 PROVE v[j] < v[i]
  <2>1. j \in 1..k /\ j \notin L /\ i \in 1..k
    BY <1>4
  <2>2. PICK m \in 1..k : ~(v[m] <= v[j])
    BY <2>1
  <2>3. v[m] <= v[i] /\ v[m] \in Nat /\ v[j] \in Nat /\ v[i] \in Nat
    BY <1>4, <2>1
  <2>. QED BY <2>2, <2>3
<1>. QED BY <1>4, <1>5

LEMMA LatestIs ==
    ASSUME NEW rows \in Seq(Dipoles), rows # << >>
    PROVE  /\ Latest(rows) \in DOMAIN rows
           /\ \A j \in DOMAIN rows : Current(rows[j]) <= Current(rows[Latest(rows)])
<1>. DEFINE k == Len(rows)
            v == [i \in 1..k |-> Current(rows[i])]
<1>1. k \in Nat \ {0} /\ DOMAIN rows = 1..k /\ \A i \in 1..k : rows[i] \in Dipoles
  OBVIOUS
<1>2. v \in [1..k -> Nat]
  BY <1>1, Nearest
<1>3. \E i \in 1..k : (\A j \in 1..k : v[j] <= v[i]) /\ (\A j \in 1..i - 1 : v[j] < v[i])
  <2>. HIDE DEF v, k
  <2>. QED BY <1>1, <1>2, FirstLargest
<1>4. PICK i \in 1..k : /\ \A j \in 1..k : Current(rows[j]) <= Current(rows[i])
                        /\ \A j \in 1..i - 1 : Current(rows[j]) < Current(rows[i])
  <2>1. \A i \in 1..k : \A j \in 1..i - 1 : j \in 1..k
    BY <1>1
  <2>. QED BY <1>3, <2>1
<1>5. \E i2 \in DOMAIN rows : /\ \A j \in DOMAIN rows : Current(rows[j]) <= Current(rows[i2])
                              /\ \A j \in 1 .. i2 - 1 : Current(rows[j]) < Current(rows[i2])
  BY <1>1, <1>4
<1>. QED BY <1>5 DEF Latest

\* With all dipoles selected the rows are all names.
LEMMA AllRows ==
    ASSUME NEW groups, StationInv(groups)
    PROVE  Rows(Everything(groups)) = AllNames(groups)
<1>1. StationInv(Everything(groups)) /\ DOMAIN Everything(groups) = DOMAIN groups
      /\ \A g \in DOMAIN groups : Everything(groups)[g].selected = groups[g].datasets
  BY EverythingIs, StationsAre, SelectAllInIs
<1>2. Chosen(Everything(groups)) = AllOf(groups)
  BY <1>1 DEF Chosen, AllOf
<1>. QED BY <1>1, <1>2, RowsAre, AllNamesAre

-----------------------------------------------------------------------------
(* The steps.                                                                   *)

LEMMA OverIs ==
    ASSUME NEW new, NEW old
    PROVE  /\ DOMAIN Over(new, old) = DOMAIN new \cup DOMAIN old
           /\ \A k \in DOMAIN new : Over(new, old)[k] = new[k]
  BY DEF Over

LEMMA GroupsAre ==
    ASSUME IInv, NEW f \in Files, NEW flags
    PROVE  OfStations(Groups(f, flags))
<1>. DEFINE found == IF file[f].kind = "hdf5" THEN file[f].groups ELSE << >>
            log == [g \in {SysLog} |-> {}]
<1>1. OfStations(found)
  <2>1. OfStations(file[f].groups)
    BY DEF IInv
  <2>2. OfStations(<< >>)
    BY FS_EmptySet DEF OfStations
  <2>. QED BY <2>1, <2>2
<1>2. DOMAIN log = {SysLog} /\ log[SysLog] = {} /\ SysLog \in Nat
  BY ContentsAssumption
<1>3. Groups(f, flags) = found \/ Groups(f, flags) = Over(found, log)
  BY DEF Groups
<1>. HIDE DEF found, log
<1>4. OfStations(Over(found, log))
  <2>1. DOMAIN Over(found, log) = DOMAIN found \cup {SysLog}
    BY <1>2, OverIs
  <2>2. IsFiniteSet(DOMAIN found \cup {SysLog})
    BY <1>1, FS_AddElement DEF OfStations
  <2>3. \A g \in DOMAIN Over(found, log) : Over(found, log)[g] \subseteq DipolesOf(g)
    <3>1. \A g \in DOMAIN found : Over(found, log)[g] \subseteq DipolesOf(g)
      BY <1>1, OverIs DEF OfStations
    <3>2. SysLog \notin DOMAIN found => Over(found, log)[SysLog] = {}
      BY <1>2 DEF Over
    <3>. QED BY <2>1, <3>1, <3>2
  <2>. QED BY <1>1, <1>2, <2>1, <2>2, <2>3 DEF OfStations
<1>. QED BY <1>1, <1>3, <1>4

\* A station that is opened has all its datasets selected.
LEMMA OpenStationIs ==
    ASSUME IInv, NEW g, NEW datasets, datasets \subseteq DipolesOf(g)
    PROVE  IsStation(g, OpenStation(datasets, OldDatasets(g)))
<1>1. OldDatasets(g) \subseteq DipolesOf(g)
  BY DEF IInv, StationInv, OldDatasets
<1>. QED BY <1>1, DipolesOfDipoles DEF OpenStation, IsStation, Station

LEMMA OpenKeeps ==
    ASSUME IInv, NEW f \in Files, NEW flags, Open(f, flags)
    PROVE  IInv'
<1>. DEFINE groups == Groups(f, flags)
            new == [g \in DOMAIN groups |-> OpenStation(groups[g], OldDatasets(g))]
<1>1. /\ OfStations(groups) /\ StationInv(stations) /\ selected = Chosen(stations)
  BY GroupsAre DEF IInv
<1>2. /\ file' = [file EXCEPT ![f] = [kind |-> "hdf5", groups |-> groups]]
      /\ stations' = Over(new, stations)
      /\ selected' = IF groups = << >> THEN selected ELSE Chosen(stations')
  BY DEF Open
<1>. HIDE DEF groups
<1>3. /\ DOMAIN new = DOMAIN groups
      /\ \A g \in DOMAIN groups : new[g] = OpenStation(groups[g], OldDatasets(g))
  OBVIOUS
<1>4. groups = << >> => DOMAIN new = {}
  BY <1>3
<1>. HIDE DEF new
<1>5. StationInv(stations')
  <2>1. IsFiniteSet(DOMAIN new \cup DOMAIN stations)
    BY <1>1, <1>3, FS_Union DEF OfStations, StationInv
  <2>2. ASSUME NEW g \in DOMAIN stations' PROVE IsStation(g, stations'[g])
    <3>1. CASE g \in DOMAIN new
      <4>1. IsStation(g, new[g])
        BY <1>1, <1>3, <3>1, OpenStationIs DEF OfStations
      <4>. QED BY <1>2, <3>1, <4>1, OverIs
    <3>2. CASE g \notin DOMAIN new
      <4>1. g \in DOMAIN stations /\ stations'[g] = stations[g]
        BY <1>2, <3>2 DEF Over
      <4>. QED BY <1>1, <4>1, StationsAre
    <3>. QED BY <3>1, <3>2
  <2>3. DOMAIN stations' = DOMAIN new \cup DOMAIN stations
        /\ stations' = [g \in DOMAIN stations' |-> stations'[g]]
    BY <1>2 DEF Over
  <2>4. DOMAIN stations' \subseteq Nat
    BY <1>1, <1>3, <2>3 DEF OfStations, StationInv
  <2>5. IsFiniteSet(DOMAIN stations')
    BY <2>1, <2>3
  <2>. QED BY <2>2, <2>3, <2>4, <2>5, StationsAre
<1>6. selected' = Chosen(stations')
  <2>1. CASE groups = << >>
    <3>1. DOMAIN stations' = DOMAIN stations
          /\ \A g \in DOMAIN stations : stations'[g] = stations[g]
      BY <1>2, <1>4, <2>1 DEF Over
    <3>2. Chosen(stations') = Chosen(stations)
      BY <3>1 DEF Chosen
    <3>. QED BY <1>1, <1>2, <2>1, <3>2
  <2>2. CASE groups # << >>
    BY <1>2, <2>2
  <2>. QED BY <2>1, <2>2
<1>7. DOMAIN file' = Files /\ \A f2 \in Files : OfStations(file'[f2].groups)
  BY <1>1, <1>2 DEF IInv
<1>. QED BY <1>5, <1>6, <1>7 DEF IInv

\* What leaves the files alone and keeps stations and map together.
LEMMA SelectionKeeps ==
    ASSUME IInv, UNCHANGED file, StationInv(stations'), selected' = Chosen(stations')
    PROVE  IInv'
  BY DEF IInv

\* The reference antenna alone, or all dipoles, is a selection like any other.
LEMMA Between ==
    ASSUME IInv
    PROVE  /\ StationInv(Everything(stations))
           /\ \A ref : StationInv(AtReference(ref))
  BY NarrowedIs, EverythingIs DEF IInv, AtReference

\* What a question leaves the stations as: as they were when it returns.
LEMMA AskedOf ==
    ASSUME IInv, NEW ref, Asks(ref)
    PROVE  /\ UNCHANGED file /\ selected' = Chosen(stations')
           /\ \/ stations' = stations
              \/ thrown' /\ (stations' = AtReference(ref) \/ stations' = Everything(stations))
<1>1. StationInv(stations) /\ selected = Chosen(stations)
  BY DEF IInv
<1>2. AfterReference(ref) = stations /\ Narrowed(Everything(stations), selected) = stations
  BY <1>1, ReferencePutBack, EverythingPutBack DEF AfterReference, AtReference
<1>3. ASSUME NEW value, AsksOffset(ref, value)
      PROVE  /\ UNCHANGED file /\ selected' = Chosen(stations')
             /\ stations' = stations \/ (thrown' /\ stations' = AtReference(ref))
  BY <1>2, <1>3 DEF AsksOffset, Asked
<1>4. CASE SampleOffset(ref)
  BY <1>3, <1>4 DEF SampleOffset
<1>5. CASE MaximumReadLength(ref)
  BY <1>1, <1>3, <1>5 DEF MaximumReadLength
<1>6. CASE AlignmentReferenceAntenna
  BY <1>2, <1>6 DEF AlignmentReferenceAntenna, Asked
<1>. QED BY <1>4, <1>5, <1>6 DEF Asks

LEMMA AskingKeeps == ASSUME IInv, NEW ref, Asks(ref) PROVE IInv'
<1>1. UNCHANGED file /\ selected' = Chosen(stations')
  BY AskedOf
<1>2. stations' = stations \/ stations' = AtReference(ref) \/ stations' = Everything(stations)
  BY AskedOf
<1>3. StationInv(stations')
  BY <1>2, Between DEF IInv
<1>. QED BY <1>1, <1>3, SelectionKeeps

LEMMA InitRight == ASSUME Init PROVE IInv
<1>1. ASSUME NEW f \in Files PROVE OfStations(file[f].groups)
  <2>1. file[f] = Contents[f]
    BY DEF Init
  <2>2. \A g \in DOMAIN Contents[f].groups : Contents[f].groups[g] \subseteq DipolesOf(g)
    BY DEF DipolesOf, FilesWith
  <2>. QED BY <2>1, <2>2, ContentsAssumption DEF OfStations
<1>2. StationInv(stations)
  BY FS_EmptySet DEF Init, StationInv
<1>3. selected = Chosen(stations)
  BY DEF Init, Chosen
<1>4. DOMAIN file = Files
  BY ContentsAssumption DEF Init
<1>. QED BY <1>1, <1>2, <1>3, <1>4 DEF IInv

LEMMA NextRight == ASSUME IInv, [Next]_vars PROVE IInv'
<1>0. StationInv(stations) /\ selected = Chosen(stations)
  BY DEF IInv
<1>1. ASSUME NEW f \in Files, NEW flags \in Flags, Open(f, flags) PROVE IInv'
  BY <1>1, OpenKeeps
<1>2. ASSUME NEW f \in Files, NEW flags \in Flags, OpenFails(f, flags) PROVE IInv'
  BY <1>0, <1>2, SelectionKeeps DEF OpenFails
<1>3. ASSUME NEW names \in Names, SelectDipoles(names) PROVE IInv'
  BY <1>0, <1>3, NarrowedIs, SelectionKeeps DEF SelectDipoles
<1>4. CASE SelectAllDipoles
  BY <1>0, <1>4, EverythingIs, SelectionKeeps DEF SelectAllDipoles
<1>5. ASSUME NEW ref \in 1 .. Cardinality(Dipoles), Asks(ref) PROVE IInv'
  BY <1>5, AskingKeeps
<1>6. CASE AlignmentReferenceAntenna
  <2>1. Asks(1)
    BY <1>6 DEF Asks
  <2>. QED BY <2>1, AskingKeeps
<1>7. ASSUME NEW start \in Starts, NEW count \in Counts, ReadData(start, count) PROVE IInv'
  BY <1>0, <1>7, SelectionKeeps DEF ReadData
<1>8. CASE UNCHANGED vars
  BY <1>0, <1>8, SelectionKeeps DEF vars
<1>. QED BY <1>1, <1>2, <1>3, <1>4, <1>5, <1>6, <1>7, <1>8 DEF Next, Asks

\* The invariant of the stations, for any files and dipoles whose names tell their station.
THEOREM SeriesInvariant == Spec => []IInv
<1>1. Init => IInv
  BY InitRight
<1>2. IInv /\ [Next]_vars => IInv'
  BY NextRight
<1>. QED BY <1>1, <1>2, PTL DEF Spec

\* The time series selects what its stations select, in the order of their attributes.
THEOREM SelectionsStayOne == Spec => []SelectionsAgree
<1>1. IInv => SelectionsAgree
  <2>. SUFFICES ASSUME IInv PROVE SelectionsAgree
    OBVIOUS
  <2>1. StationInv(stations) /\ selected = Chosen(stations)
    BY DEF IInv
  <2>2. Columns = Rows(stations)
    BY <2>1, RowsAre DEF Columns
  <2>. QED BY <2>1, <2>2 DEF SelectionsAgree, StationInv
<1>. QED BY <1>1, SeriesInvariant, PTL

\* What asks for offsets, the reference antenna or the length puts the selection back if
\* it does not throw.
THEOREM SelectionIsPutBack == Spec => LeavesSelection
<1>. DEFINE Leaves == \A ref \in 1 .. Cardinality(Dipoles) :
              Asks(ref) /\ ~thrown' => UNCHANGED << stations, selected >>
<1>1. IInv => Leaves
  <2>. SUFFICES ASSUME IInv, NEW ref \in 1 .. Cardinality(Dipoles), Asks(ref), ~thrown'
                PROVE  UNCHANGED << stations, selected >>
    OBVIOUS
  <2>1. stations' = stations /\ selected' = Chosen(stations')
    BY AskedOf
  <2>. QED BY <2>1 DEF IInv
<1>2. IInv /\ [Next]_vars => [Leaves]_vars
  BY <1>1
<1>. QED BY <1>2, SeriesInvariant, PTL DEF Spec, LeavesSelection

\* No dipole of the file starts later than the reference antenna by more than doubles tell.
THEOREM ReferenceIsLatest == Spec => ReferenceStartsLast
<1>. DEFINE Last == AlignmentReferenceAntenna /\ ~thrown' =>
              \A d \in UNION {stations[g].datasets : g \in DOMAIN stations} :
                NotMuchLater(d, AllNames(stations)[answer'[1]])
<1>1. IInv => Last
  <2>. SUFFICES ASSUME IInv, AlignmentReferenceAntenna, ~thrown', NEW d \in AllOf(stations)
                PROVE  NotMuchLater(d, AllNames(stations)[answer'[1]])
    BY DEF AllOf
  <2>. DEFINE rows == AllNames(stations)
  <2>1. StationInv(stations)
    BY DEF IInv
  <2>2. rows # << >> /\ answer'[1] = Latest(rows)
    BY <2>1, AllRows DEF AlignmentReferenceAntenna, Asked
  <2>3. rows = InOrder(AllOf(stations))
    BY <2>1, AllNamesAre
  <2>4. AllOf(stations) \in SUBSET Dipoles /\ AllOf(stations) \in SUBSET Nat
        /\ IsFiniteSet(AllOf(stations))
    BY <2>1, AllOfFinite
  <2>5. rows \in Seq(AllOf(stations)) /\ \E n \in DOMAIN rows : rows[n] = d
    <3>. DEFINE S == AllOf(stations)
    <3>. HIDE DEF S, rows
    <3>1. S \in SUBSET Nat /\ IsFiniteSet(S) /\ d \in S /\ rows = InOrder(S)
      BY <2>3, <2>4 DEF S
    <3>2. /\ rows \in Seq(S) /\ Len(rows) = Cardinality(S)
          /\ \E n \in 1..Cardinality(S) : rows[n] = d
      BY <3>1, InOrderIs
    <3>. QED BY <3>2 DEF S
  <2>. HIDE DEF rows
  <2>6. rows \in Seq(Dipoles)
    BY <2>4, <2>5
  <2>7. /\ Latest(rows) \in DOMAIN rows
        /\ \A j \in DOMAIN rows : Current(rows[j]) <= Current(rows[Latest(rows)])
    BY <2>2, <2>6, LatestIs
  <2>8. rows[Latest(rows)] \in Dipoles /\ d \in Dipoles
    BY <2>4, <2>6, <2>7
  <2>9. Current(d) <= Current(rows[Latest(rows)])
    BY <2>5, <2>7
  <2>10. NotMuchLater(d, rows[Latest(rows)])
    BY <2>8, <2>9, StepLater
  <2>. QED BY <2>2, <2>10 DEF rows
<1>2. IInv /\ [Next]_vars => [Last]_vars
  BY <1>1
<1>. QED BY <1>2, SeriesInvariant, PTL DEF Spec, ReferenceStartsLast
=============================================================================
