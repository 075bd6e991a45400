------------------------- MODULE BFRootGroup_proofs -------------------------
(* Proofs about BFRootGroup.                                                    *)
EXTENDS BFRootGroup, FiniteSetTheorems, WellFoundedInduction, TLAPS

-----------------------------------------------------------------------------
(* Loops.                                                                       *)

\* Every set of natural numbers that is not empty has a smallest member.
LEMMA Smallest ==
    ASSUME NEW T \in SUBSET Nat, T # {}
    PROVE  \E m \in T : \A k \in T : m <= k
<1>. DEFINE R == {ss \in Nat \X Nat : ss[1] < ss[2]}
<1>1. IsWellFoundedOn(R, Nat)
  BY NatLessThanWellFounded DEF OpToRel
<1>2. \E m \in T : \A k \in T : ~ (<<k, m>> \in R)
  <2>. HIDE DEF R
  <2>. QED BY <1>1, WFMin
<1>3. PICK m \in T : \A k \in T : ~ (<<k, m>> \in R)
  BY <1>2
<1>4. \A k \in T : m <= k
  <2>. TAKE k \in T
  <2>1. m \in Nat /\ k \in Nat
    OBVIOUS
  <2>2. <<k, m>> \in Nat \X Nat /\ <<k,m>>[1] = k /\ <<k,m>>[2] = m
    BY <2>1
  <2>3. ~(k < m)
    BY <2>2, <1>3
  <2>. QED BY <2>1, <2>3
<1>. QED BY <1>4

\* Induction: a set of numbers that has 0, and the next of each up to k, has all up to k.
LEMMA Reaches ==
    ASSUME NEW k \in Nat, NEW T, 0 \in T, \A n \in 1..k : n - 1 \in T => n \in T
    PROVE  0..k \subseteq T
<1>. DEFINE F == {n \in 0..k : n \notin T}
<1>1. SUFFICES ASSUME F # {} PROVE FALSE
  OBVIOUS
<1>2. PICK m \in F : \A n \in F : m <= n
  <2>1. F \in SUBSET Nat
    OBVIOUS
  <2>. HIDE DEF F
  <2>. QED BY <1>1, <2>1, Smallest
<1>3. m \in 1..k
  OBVIOUS
<1>4. m - 1 \in 0..k /\ m - 1 \notin F
  BY <1>2, <1>3
<1>. QED BY <1>3, <1>4

\* A loop of k rounds that goes from S[0] through S[1], S[2] ...: what each round
\* makes of what the one before left.
Advances(k, S, base, step) ==
  base \in S[0] /\ \A n \in 1..k : \A s \in S[n-1] : step[<<n, s>>] \in S[n]
Runs(k, S, base, step) ==
  \E f : /\ f[0] = base /\ \A n \in 1..k : f[n] = step[<<n, f[n-1]>>]
         /\ \A n \in 0..k : f[n] \in S[n]

LEMMA Rounds ==
    ASSUME NEW k \in Nat, NEW S, NEW base, NEW step, Advances(k, S, base, step)
    PROVE  Runs(k, S, base, step)
<1>. USE DEF Advances
<1>. DEFINE Right(f, m) == /\ f[0] = base /\ \A n \in 1..m : f[n] = step[<<n, f[n-1]>>]
                           /\ \A n \in 0..m : f[n] \in S[n]
            Upto(m) == \E f : Right(f, m)
            T == {m \in 0..k : Upto(m)}
<1>1. Upto(0)
  <2>. DEFINE f == [n \in 0..0 |-> base]
  <2>1. Right(f, 0)
    OBVIOUS
  <2>. QED BY <2>1
<1>2. ASSUME NEW m \in 1..k, Upto(m - 1) PROVE Upto(m)
  <2>1. PICK f : Right(f, m - 1)
    BY <1>2
  <2>. DEFINE g == [n \in 0..m |-> IF n = m THEN step[<<m, f[m-1]>>] ELSE f[n]]
  <2>2. m \in Nat /\ m - 1 \in 0..m-1 /\ f[m-1] \in S[m-1] /\ step[<<m, f[m-1]>>] \in S[m]
    BY <2>1
  <2>3. ASSUME NEW n \in 0..m
        PROVE  g[n] \in S[n] /\ (n = 0 => g[n] = base) /\ (n # 0 => g[n] = step[<<n, g[n-1]>>])
    <3>1. CASE n = m
      <4>1. n - 1 \in 0..m /\ n - 1 # m /\ n # 0 /\ g[n - 1] = f[m - 1]
        BY <3>1
      <4>. QED BY <2>2, <3>1, <4>1
    <3>2. CASE n # m
      <4>1. n \in 0..m-1 /\ g[n] = f[n]
        BY <3>2
      <4>2. f[n] \in S[n] /\ (n = 0 => f[n] = base) /\ (n # 0 => f[n] = step[<<n, f[n-1]>>])
        BY <2>1, <4>1
      <4>3. n # 0 => n - 1 \in 0..m /\ n - 1 # m
        BY <3>2
      <4>. QED BY <4>1, <4>2, <4>3
    <3>. QED BY <3>1, <3>2
  <2>. HIDE DEF g
  <2>4. 0 \in 0..m /\ \A n \in 1..m : n \in 0..m /\ n # 0
    BY <2>2
  <2>5. Right(g, m)
    BY <2>3, <2>4
  <2>. QED BY <2>5
<1>3. 0..k \subseteq T
  <2>1. 0 \in T /\ \A n \in 1..k : n - 1 \in T => n \in T
    <3>. HIDE DEF Upto
    <3>. QED BY <1>1, <1>2
  <2>. HIDE DEF T
  <2>. QED BY <2>1, Reaches
<1>. QED BY <1>3 DEF Runs

\* SetToSeq lists the members of a finite set.
LEMMA Listed ==
    ASSUME NEW S, IsFiniteSet(S)
    PROVE  /\ Len(SetToSeq(S)) = Cardinality(S) /\ Cardinality(S) \in Nat
           /\ SetToSeq(S) \in [1..Cardinality(S) -> S]
           /\ \A x \in S : \E i \in 1..Cardinality(S) : SetToSeq(S)[i] = x
           /\ \A i, j \in 1..Cardinality(S) : SetToSeq(S)[i] = SetToSeq(S)[j] => i = j
<1>. DEFINE c == Cardinality(S)
<1>1. c \in Nat /\ ExistsBijection(1..c, S)
  BY FS_CardinalityType
<1>2. PICK f : f \in [1..c -> S] /\ IsInjective(f)
  BY <1>1 DEF ExistsBijection, Bijection, Injection, IsInjective
<1>3. SetToSeq(S) \in [1..c -> S] /\ IsInjective(SetToSeq(S))
  BY <1>2 DEF SetToSeq
<1>. HIDE DEF c
<1>4. Len(SetToSeq(S)) = c
  BY <1>1, <1>3
<1>5. \A x \in S : \E i \in 1..c : SetToSeq(S)[i] = x
  <2>1. SetToSeq(S) \in Injection(1..c, S)
    BY <1>3 DEF Injection, IsInjective
  <2>2. IsFiniteSet(1..c) /\ Cardinality(1..c) = c
    BY <1>1, FS_Interval
  <2>3. SetToSeq(S) \in Surjection(1..c, S)
    BY <2>1, <2>2, FS_Injection DEF c
  <2>. QED BY <2>3 DEF Surjection
<1>6. \A i, j \in 1..c : SetToSeq(S)[i] = SetToSeq(S)[j] => i = j
  BY <1>3 DEF IsInjective
<1>. QED BY <1>1, <1>3, <1>4, <1>5, <1>6 DEF c

-----------------------------------------------------------------------------
(* Maps.                                                                        *)

LEMMA PutValue ==
    ASSUME NEW f, NEW k, NEW v
    PROVE  /\ DOMAIN Put(f, k, v) = DOMAIN f \cup {k}
           /\ Put(f, k, v)[k] = v
           /\ \A x \in DOMAIN f : x # k => Put(f, k, v)[x] = f[x]
  BY DEF Put

LEMMA PutMap ==
    ASSUME NEW K, NEW V, NEW f, IsMap(f, K, V), NEW k \in K, NEW v \in V
    PROVE  IsMap(Put(f, k, v), K, V)
  BY DEF IsMap, Put

LEMMA EmptyMap ==
    /\ DOMAIN Empty = {}
    /\ \A K, V : IsMap(Empty, K, V)
    /\ \A f : f = [x \in DOMAIN f |-> f[x]] /\ DOMAIN f = {} => f = Empty
  BY DEF IsMap, Empty

\* The datasets of a beam, and one more or one changed.
LEMMA DatasetsAre ==
    /\ Empty \in Datasets
    /\ \A m \in Datasets : DOMAIN m \in SUBSET Stokes
    /\ \A m \in Datasets, n \in Stokes, x \in BOOLEAN : Put(m, n, x) \in Datasets
<1>1. \A m \in Datasets : DOMAIN m \in SUBSET Stokes /\ m \in [DOMAIN m -> BOOLEAN]
  BY DEF Datasets
<1>2. Empty \in Datasets
  <2>1. Empty \in [{} -> BOOLEAN]
    BY EmptyMap DEF IsMap
  <2>. QED BY <2>1 DEF Datasets
<1>3. ASSUME NEW m \in Datasets, NEW n \in Stokes, NEW x \in BOOLEAN
      PROVE  Put(m, n, x) \in Datasets
  <2>1. Put(m, n, x) \in [DOMAIN m \cup {n} -> BOOLEAN]
    BY <1>1, <1>3 DEF Put
  <2>2. DOMAIN m \cup {n} \in SUBSET Stokes
    BY <1>1, <1>3
  <2>. QED BY <2>1, <2>2 DEF Datasets
<1>. QED BY <1>1, <1>2, <1>3

LEMMA NoObjects == AreObjects(Empty) /\ AreGroups(Empty)
  BY EmptyMap DEF AreObjects, AreGroups

LEMMA PutObject ==
    ASSUME NEW e, AreObjects(e), NEW p \in Names, NEW sap, IsPointing(sap)
    PROVE  AreObjects(Put(e, p, sap))
<1>. DEFINE f == Put(e, p, sap)
<1>1. DOMAIN e \subseteq Names
  BY DEF AreObjects, IsMap
<1>2. \A q \in DOMAIN f : IsPointing(f[q])
  <2>1. \A q \in DOMAIN e : IsPointing(e[q])
    BY DEF AreObjects
  <2>2. DOMAIN f = DOMAIN e \cup {p} /\ f[p] = sap /\ \A q \in DOMAIN e : q # p => f[q] = e[q]
    BY DEF Put
  <2>. HIDE DEF f
  <2>. QED BY <2>1, <2>2
<1>3. IsMap(f, Names, {f[q] : q \in DOMAIN f})
  <2>1. DOMAIN f = DOMAIN e \cup {p} /\ f = [x \in DOMAIN e \cup {p} |-> f[x]]
    BY DEF Put
  <2>. HIDE DEF f
  <2>2. DOMAIN f \subseteq Names /\ f = [x \in DOMAIN f |-> f[x]]
    BY <1>1, <2>1
  <2>. QED BY <2>2 DEF IsMap
<1>. QED BY <1>2, <1>3 DEF AreObjects

LEMMA PutGroup ==
    ASSUME NEW g, AreGroups(g), NEW p \in Names, NEW group, IsGroup(group)
    PROVE  AreGroups(Put(g, p, group))
<1>. DEFINE f == Put(g, p, group)
<1>1. DOMAIN g \subseteq Names
  BY DEF AreGroups, IsMap
<1>2. \A q \in DOMAIN f : IsGroup(f[q])
  <2>1. \A q \in DOMAIN g : IsGroup(g[q])
    BY DEF AreGroups
  <2>2. DOMAIN f = DOMAIN g \cup {p} /\ f[p] = group /\ \A q \in DOMAIN g : q # p => f[q] = g[q]
    BY DEF Put
  <2>. HIDE DEF f
  <2>. QED BY <2>1, <2>2
<1>3. IsMap(f, Names, {f[q] : q \in DOMAIN f})
  <2>1. DOMAIN f = DOMAIN g \cup {p} /\ f = [x \in DOMAIN g \cup {p} |-> f[x]]
    BY DEF Put
  <2>. HIDE DEF f
  <2>2. DOMAIN f \subseteq Names /\ f = [x \in DOMAIN f |-> f[x]]
    BY <1>1, <2>1
  <2>. QED BY <2>2 DEF IsMap
<1>. QED BY <1>2, <1>3 DEF AreGroups

LEMMA ObjectsAre ==
    ASSUME NEW e, AreObjects(e)
    PROVE  /\ DOMAIN e \subseteq Names /\ e = [p \in DOMAIN e |-> e[p]]
           /\ \A p \in DOMAIN e : IsPointing(e[p])
  BY DEF AreObjects, IsMap

LEMMA GroupsAre ==
    ASSUME NEW g, AreGroups(g)
    PROVE  /\ DOMAIN g \subseteq Names /\ g = [p \in DOMAIN g |-> g[p]]
           /\ \A p \in DOMAIN g : IsGroup(g[p])
  BY DEF AreGroups, IsMap

\* To replace an entry is to put it in again.
LEMMA Replaced ==
    ASSUME NEW e, e = [p \in DOMAIN e |-> e[p]], NEW p \in DOMAIN e, NEW v
    PROVE  [e EXCEPT ![p] = v] = Put(e, p, v)
  BY DEF Put

-----------------------------------------------------------------------------
(* Worlds and identifiers.                                                      *)

Own(w) == w.hdf5.owners

LEMMA WorldParts ==
    ASSUME NEW w, IsWorld(w)
    PROVE  /\ w = [file |-> w.file, hdf5 |-> w.hdf5]
           /\ w.file = [exists |-> w.file.exists, nof |-> w.file.nof, groups |-> w.file.groups]
           /\ w.file.exists \in BOOLEAN /\ w.file.nof \in Nat /\ AreGroups(w.file.groups)
           /\ Own(w) \in [Identifiers -> Nat] /\ w.hdf5.writable \in BOOLEAN
           /\ w.hdf5.orphans \in SUBSET Identifiers
           /\ w.hdf5 = [owners |-> Own(w), writable |-> w.hdf5.writable, orphans |-> w.hdf5.orphans]
  BY DEF IsWorld, Own

LEMMA WorldOf ==
    ASSUME NEW f, NEW h,
           f \in [exists : BOOLEAN, nof : Nat, groups : {f.groups}], AreGroups(f.groups),
           h \in [owners : [Identifiers -> Nat], writable : BOOLEAN, orphans : SUBSET Identifiers]
    PROVE  IsWorld([file |-> f, hdf5 |-> h])
  BY DEF IsWorld

LEMMA LibraryChanged ==
    ASSUME NEW w, IsWorld(w), NEW o \in [Identifiers -> Nat], NEW q \in SUBSET Identifiers
    PROVE  LET v == WithLibrary(w, o, q) IN
           /\ IsWorld(v) /\ v.file = w.file /\ v.hdf5.writable = w.hdf5.writable /\ Own(v) = o
           /\ v.hdf5.orphans = q
<1>. DEFINE h == [owners |-> o, writable |-> w.hdf5.writable, orphans |-> q]
<1>1. WithLibrary(w, o, q) = [file |-> w.file, hdf5 |-> h]
  <2>1. w = [file |-> w.file, hdf5 |-> w.hdf5]
    BY WorldParts
  <2>2. WithLibrary(w, o, q) = [w EXCEPT !.hdf5 = h]
    BY DEF WithLibrary
  <2>. HIDE DEF h
  <2>. QED BY <2>1, <2>2
<1>2. h \in [owners : [Identifiers -> Nat], writable : BOOLEAN, orphans : SUBSET Identifiers]
  BY WorldParts
<1>3. w.file \in [exists : BOOLEAN, nof : Nat, groups : {w.file.groups}] /\ AreGroups(w.file.groups)
  BY DEF IsWorld
<1>4. IsWorld([file |-> w.file, hdf5 |-> h])
  <2>. HIDE DEF h
  <2>. QED BY <1>2, <1>3, WorldOf
<1>. QED BY <1>1, <1>4 DEF Own

LEMMA GroupsChanged ==
    ASSUME NEW w, IsWorld(w), NEW g, AreGroups(g)
    PROVE  LET v == WithGroups(w, g) IN
           /\ IsWorld(v) /\ v.hdf5 = w.hdf5 /\ v.file.exists = w.file.exists /\ v.file.groups = g
<1>. DEFINE f == [exists |-> w.file.exists, nof |-> w.file.nof, groups |-> g]
<1>1. WithGroups(w, g) = [w EXCEPT !.file = [w.file EXCEPT !.groups = g]]
  BY DEF WithGroups
<1>2. [w.file EXCEPT !.groups = g] = f
  <2>1. w.file = [exists |-> w.file.exists, nof |-> w.file.nof, groups |-> w.file.groups]
    BY WorldParts
  <2>. QED BY <2>1
<1>3. [w EXCEPT !.file = f] = [file |-> f, hdf5 |-> w.hdf5]
  <2>1. w = [file |-> w.file, hdf5 |-> w.hdf5]
    BY WorldParts
  <2>. HIDE DEF f
  <2>. QED BY <2>1
<1>4. f \in [exists : BOOLEAN, nof : Nat, groups : {f.groups}] /\ f.groups = g
  BY WorldParts
<1>5. w.hdf5 \in [owners : [Identifiers -> Nat], writable : BOOLEAN, orphans : SUBSET Identifiers]
  BY DEF IsWorld
<1>6. IsWorld([file |-> f, hdf5 |-> w.hdf5])
  <2>. HIDE DEF f
  <2>. QED BY <1>4, <1>5, WorldOf
<1>7. WithGroups(w, g) = [file |-> f, hdf5 |-> w.hdf5]
  BY <1>1, <1>2, <1>3
<1>. QED BY <1>6, <1>7

LEMMA CountChanged ==
    ASSUME NEW w, IsWorld(w), NEW n \in Nat
    PROVE  LET v == [w EXCEPT !.file.nof = n] IN
           IsWorld(v) /\ v.hdf5 = w.hdf5 /\ v.file.exists = w.file.exists
             /\ v.file.groups = w.file.groups
<1>. DEFINE f == [exists |-> w.file.exists, nof |-> n, groups |-> w.file.groups]
<1>1. [w EXCEPT !.file.nof = n] = [w EXCEPT !.file = [w.file EXCEPT !.nof = n]]
  OBVIOUS
<1>2. [w.file EXCEPT !.nof = n] = f
  <2>1. w.file = [exists |-> w.file.exists, nof |-> w.file.nof, groups |-> w.file.groups]
    BY WorldParts
  <2>. QED BY <2>1
<1>3. [w EXCEPT !.file = f] = [file |-> f, hdf5 |-> w.hdf5]
  <2>1. w = [file |-> w.file, hdf5 |-> w.hdf5]
    BY WorldParts
  <2>. HIDE DEF f
  <2>. QED BY <2>1
<1>4. /\ f \in [exists : BOOLEAN, nof : Nat, groups : {f.groups}] /\ AreGroups(f.groups)
      /\ f.groups = w.file.groups
  BY WorldParts
<1>5. w.hdf5 \in [owners : [Identifiers -> Nat], writable : BOOLEAN, orphans : SUBSET Identifiers]
  BY DEF IsWorld
<1>6. IsWorld([file |-> f, hdf5 |-> w.hdf5])
  <2>. HIDE DEF f
  <2>. QED BY <1>4, <1>5, WorldOf
<1>7. [w EXCEPT !.file.nof = n] = [file |-> f, hdf5 |-> w.hdf5]
  BY <1>1, <1>2, <1>3
<1>. QED BY <1>6, <1>7

LEMMA IdsType == None \notin Identifiers /\ Identifiers \subseteq Nat
  BY NumbersAssumption DEF None

LEMMA AliveIff ==
    ASSUME NEW w, IsWorld(w), NEW id \in Ids
    PROVE  Alive(w, id) <=> id # None /\ Own(w)[id] # 0
<1>1. Own(w) \in [Identifiers -> Nat]
  BY WorldParts
<1>2. CASE id = None
  BY <1>2 DEF Alive
<1>3. CASE id # None
  <2>1. Own(w)[id] \in Nat
    BY <1>1, <1>3 DEF Ids
  <2>. QED BY <2>1, <1>3 DEF Alive, Own
<1>. QED BY <1>2, <1>3

\* The library gives an identifier that is free, or none.
LEMMA FreshIsFree ==
    ASSUME NEW w, IsWorld(w)
    PROVE  Fresh(w) \in Ids /\ (Fresh(w) # None => Own(w)[Fresh(w)] = 0)
<1>1. CASE Free(w) = {}
  BY <1>1 DEF Fresh, Ids
<1>2. CASE Free(w) # {}
  <2>1. Free(w) \in SUBSET Nat
    BY IdsType DEF Free
  <2>2. PICK m \in Free(w) : \A k \in Free(w) : m <= k
    BY <1>2, <2>1, Smallest
  <2>3. Min(Free(w)) \in Free(w)
    BY <2>2 DEF Min
  <2>4. Fresh(w) \in Free(w)
    BY <2>3, <1>2 DEF Fresh
  <2>5. Fresh(w) \in Identifiers /\ ~Alive(w, Fresh(w))
    BY <2>4 DEF Free
  <2>. QED BY <2>5, AliveIff DEF Ids
<1>. QED BY <1>1, <1>2

LEMMA OwnedWorld ==
    ASSUME NEW w, IsWorld(w), NEW id \in Ids
    PROVE  LET v == Owned(w, id) IN
           /\ IsWorld(v) /\ v.file = w.file /\ v.hdf5.writable = w.hdf5.writable
           /\ \A i \in Identifiers : Own(v)[i] = IF i = id THEN Own(w)[i] + 1 ELSE Own(w)[i]
<1>1. CASE id = None
  <2>1. Owned(w, id) = w
    BY <1>1 DEF Owned
  <2>. QED BY <1>1, <2>1, IdsType
<1>2. CASE id # None
  <2>. DEFINE o == [Own(w) EXCEPT ![id] = @ + 1]
              q == w.hdf5.orphans \ {id}
  <2>1. id \in Identifiers
    BY <1>2 DEF Ids
  <2>2. Own(w) \in [Identifiers -> Nat] /\ w.hdf5.orphans \in SUBSET Identifiers
    BY WorldParts
  <2>3. Owned(w, id) = WithLibrary(w, o, q)
    BY <1>2 DEF Owned, Own
  <2>4. o \in [Identifiers -> Nat] /\ q \in SUBSET Identifiers
    BY <2>1, <2>2
  <2>5. \A i \in Identifiers : o[i] = IF i = id THEN Own(w)[i] + 1 ELSE Own(w)[i]
    BY <2>1, <2>2
  <2>. HIDE DEF o, q
  <2>. QED BY <2>3, <2>4, <2>5, LibraryChanged
<1>. QED BY <1>1, <1>2

LEMMA ClosedWorld ==
    ASSUME NEW w, IsWorld(w), NEW ids
    PROVE  LET v == Closed(w, ids) IN
           /\ IsWorld(v) /\ v.file = w.file /\ v.hdf5.writable = w.hdf5.writable
           /\ \A i \in Identifiers :
                Own(v)[i] = IF i \in ids /\ Own(w)[i] # 0 THEN Own(w)[i] - 1 ELSE Own(w)[i]
<1>. DEFINE o == [i \in Identifiers |-> IF i \in ids /\ Own(w)[i] > 0 THEN Own(w)[i] - 1 ELSE Own(w)[i]]
<1>1. Own(w) \in [Identifiers -> Nat] /\ w.hdf5.orphans \in SUBSET Identifiers
  BY WorldParts
<1>2. Closed(w, ids) = WithLibrary(w, o, w.hdf5.orphans)
  BY DEF Closed, Own
<1>3. o \in [Identifiers -> Nat]
  BY <1>1
<1>4. \A i \in Identifiers : o[i] = IF i \in ids /\ Own(w)[i] # 0 THEN Own(w)[i] - 1 ELSE Own(w)[i]
  BY <1>1
<1>. HIDE DEF o
<1>. QED BY <1>1, <1>2, <1>3, <1>4, LibraryChanged

-----------------------------------------------------------------------------
(* The types as sets.                                                           *)

Maps(K, V) == UNION {[D -> V] : D \in SUBSET K}
Library == [owners : [Identifiers -> Nat], writable : BOOLEAN, orphans : SUBSET Identifiers]
Worlds ==
  [file : [exists : BOOLEAN, nof : Nat,
           groups : Maps(Names, [nof : Nat, beams : Maps(Beams, Datasets)])],
   hdf5 : Library]
PointingSet == [id : Ids, beams : Maps(Beams, [id : Ids, stokes : SUBSET Stokes])]
ObjectMaps == Maps(Names, PointingSet)

LEMMA InMaps ==
    ASSUME NEW K, NEW V, NEW f, IsMap(f, K, V)
    PROVE  f \in Maps(K, V)
  BY DEF Maps, IsMap

LEMMA InPointingSet ==
    ASSUME NEW sap, IsPointing(sap)
    PROVE  sap \in PointingSet
<1>1. sap.beams \in Maps(Beams, [id : Ids, stokes : SUBSET Stokes])
  BY InMaps DEF IsPointing
<1>2. sap \in [id : Ids, beams : {sap.beams}]
  BY DEF IsPointing
<1>. QED BY <1>1, <1>2 DEF PointingSet

LEMMA InObjectMaps ==
    ASSUME NEW e, AreObjects(e)
    PROVE  e \in ObjectMaps
<1>1. \A p \in DOMAIN e : e[p] \in PointingSet
  BY InPointingSet, ObjectsAre
<1>2. DOMAIN e \subseteq Names /\ e = [p \in DOMAIN e |-> e[p]]
  BY ObjectsAre
<1>3. IsMap(e, Names, PointingSet)
  BY <1>1, <1>2 DEF IsMap
<1>. QED BY <1>3, InMaps DEF ObjectMaps

LEMMA InWorlds ==
    ASSUME NEW w, IsWorld(w)
    PROVE  w \in Worlds
<1>. DEFINE G == [nof : Nat, beams : Maps(Beams, Datasets)]
            g == w.file.groups
<1>1. DOMAIN g \subseteq Names /\ g = [p \in DOMAIN g |-> g[p]] /\ \A p \in DOMAIN g : IsGroup(g[p])
  BY WorldParts, GroupsAre
<1>2. ASSUME NEW p \in DOMAIN g PROVE g[p] \in G
  <2>1. IsGroup(g[p])
    BY <1>1
  <2>2. g[p] \in [nof : Nat, beams : {g[p].beams}] /\ IsMap(g[p].beams, Beams, Datasets)
    BY <2>1 DEF IsGroup
  <2>3. g[p].beams \in Maps(Beams, Datasets)
    BY <2>2, InMaps
  <2>. QED BY <2>2, <2>3
<1>3. IsMap(g, Names, G)
  <2>. HIDE DEF G, g
  <2>. QED BY <1>1, <1>2 DEF IsMap
<1>4. g \in Maps(Names, G)
  <2>. HIDE DEF G, g
  <2>. QED BY <1>3, InMaps
<1>5. w \in [file : [exists : BOOLEAN, nof : Nat, groups : {g}], hdf5 : Library]
  BY DEF IsWorld, Library
<1>6. w \in [file : [exists : BOOLEAN, nof : Nat, groups : Maps(Names, G)], hdf5 : Library]
  <2>. HIDE DEF G, g
  <2>. QED BY <1>4, <1>5
<1>. QED BY <1>6 DEF Worlds

-----------------------------------------------------------------------------
(* Pointings.                                                                   *)

BeamIds(sap) == {sap.beams[b].id : b \in DOMAIN sap.beams}

LEMMA PointingIs ==
    ASSUME NEW sap, IsPointing(sap)
    PROVE  /\ sap = [id |-> sap.id, beams |-> sap.beams] /\ sap.id \in Ids
           /\ DOMAIN sap.beams \subseteq Beams /\ sap.beams = [b \in DOMAIN sap.beams |-> sap.beams[b]]
           /\ \A b \in DOMAIN sap.beams : sap.beams[b] \in [id : Ids, stokes : SUBSET Stokes]
           /\ IsMap(sap.beams, Beams, [id : Ids, stokes : SUBSET Stokes])
           /\ BeamIds(sap) \subseteq Ids /\ IdsOf(sap) = {sap.id} \cup BeamIds(sap)
           /\ IdsOf(sap) \subseteq Ids
<1>1. sap \in [id : Ids, beams : {sap.beams}] /\ IsMap(sap.beams, Beams, [id : Ids, stokes : SUBSET Stokes])
  BY DEF IsPointing
<1>2. /\ DOMAIN sap.beams \subseteq Beams /\ sap.beams = [b \in DOMAIN sap.beams |-> sap.beams[b]]
      /\ \A b \in DOMAIN sap.beams : sap.beams[b] \in [id : Ids, stokes : SUBSET Stokes]
  BY <1>1 DEF IsMap
<1>3. BeamIds(sap) \subseteq Ids
  BY <1>2 DEF BeamIds
<1>4. IdsOf(sap) = {sap.id} \cup BeamIds(sap)
  BY DEF IdsOf, BeamIds
<1>. QED BY <1>1, <1>2, <1>3, <1>4

LEMMA PointingOf ==
    ASSUME NEW id \in Ids, NEW beams, IsMap(beams, Beams, [id : Ids, stokes : SUBSET Stokes])
    PROVE  IsPointing([id |-> id, beams |-> beams])
  BY DEF IsPointing

LEMMA NoBeams ==
    ASSUME NEW id \in Ids
    PROVE  LET sap == [id |-> id, beams |-> Empty] IN IsPointing(sap) /\ BeamIds(sap) = {}
<1>1. IsMap(Empty, Beams, [id : Ids, stokes : SUBSET Stokes]) /\ DOMAIN Empty = {}
  BY EmptyMap
<1>. QED BY <1>1, PointingOf DEF BeamIds

\* A beam more, or another one of that number.
LEMMA PutBeam ==
    ASSUME NEW sap, IsPointing(sap), NEW b \in Beams, NEW x \in Ids, NEW st \in SUBSET Stokes
    PROVE  LET v == Entered(sap, b, x, st) IN
           /\ IsPointing(v) /\ v.id = sap.id /\ DOMAIN v.beams = DOMAIN sap.beams \cup {b}
           /\ v.beams[b].id = x /\ v.beams[b].stokes = st
           /\ b \notin DOMAIN sap.beams => BeamIds(v) = BeamIds(sap) \cup {x}
           /\ (b \in DOMAIN sap.beams /\ sap.beams[b].id = x) => BeamIds(v) = BeamIds(sap)
<1>. DEFINE new == [id |-> x, stokes |-> st]
            m == Put(sap.beams, b, new)
            v == Entered(sap, b, x, st)
<1>1. v = [id |-> sap.id, beams |-> m] /\ sap.id \in Ids
  <2>1. sap = [id |-> sap.id, beams |-> sap.beams] /\ sap.id \in Ids
    BY PointingIs
  <2>2. v = [sap EXCEPT !.beams = m]
    BY DEF Entered
  <2>. HIDE DEF m, v
  <2>. QED BY <2>1, <2>2
<1>2. IsMap(m, Beams, [id : Ids, stokes : SUBSET Stokes])
  <2>1. IsMap(sap.beams, Beams, [id : Ids, stokes : SUBSET Stokes]) /\ new \in [id : Ids, stokes : SUBSET Stokes]
    BY PointingIs
  <2>. HIDE DEF new
  <2>. QED BY <2>1, PutMap
<1>3. /\ DOMAIN m = DOMAIN sap.beams \cup {b} /\ m[b] = new
      /\ \A c \in DOMAIN sap.beams : c # b => m[c] = sap.beams[c]
  BY DEF Put
<1>4. new.id = x /\ new.stokes = st
  OBVIOUS
<1>. HIDE DEF m, v, new
<1>5. IsPointing(v) /\ v.id = sap.id /\ v.beams = m
  BY <1>1, <1>2, PointingOf
<1>6. BeamIds(v) = {m[c].id : c \in DOMAIN sap.beams \cup {b}}
  BY <1>3, <1>5 DEF BeamIds
<1>7. b \notin DOMAIN sap.beams => BeamIds(v) = BeamIds(sap) \cup {x}
  <2>1. SUFFICES ASSUME b \notin DOMAIN sap.beams PROVE BeamIds(v) = BeamIds(sap) \cup {x}
    OBVIOUS
  <2>2. BeamIds(v) = {m[c].id : c \in DOMAIN sap.beams} \cup {m[b].id}
    BY <1>6
  <2>3. \A c \in DOMAIN sap.beams : m[c].id = sap.beams[c].id
    BY <1>3, <2>1
  <2>4. {m[c].id : c \in DOMAIN sap.beams} = BeamIds(sap)
    BY <2>3 DEF BeamIds
  <2>. QED BY <1>3, <1>4, <2>2, <2>4
<1>8. (b \in DOMAIN sap.beams /\ sap.beams[b].id = x) => BeamIds(v) = BeamIds(sap)
  <2>1. SUFFICES ASSUME b \in DOMAIN sap.beams, sap.beams[b].id = x PROVE BeamIds(v) = BeamIds(sap)
    OBVIOUS
  <2>2. DOMAIN sap.beams \cup {b} = DOMAIN sap.beams
    BY <2>1
  <2>3. \A c \in DOMAIN sap.beams : m[c].id = sap.beams[c].id
    BY <1>3, <1>4, <2>1
  <2>. QED BY <1>6, <2>2, <2>3 DEF BeamIds
<1>. QED BY <1>3, <1>4, <1>5, <1>7, <1>8 DEF v

\* One round of openEmbedded.
LEMMA NextWorld ==
    ASSUME NEW w, NEW sap, IsWorld(w), IsPointing(sap), NEW p \in DOMAIN w.file.groups,
           NEW b \in DOMAIN BeamsOf(w, p), b \notin DOMAIN sap.beams
    PROVE  LET r == WithNext(w, sap, p, b) IN
           /\ IsWorld(r.w) /\ r.w.file = w.file /\ r.w.hdf5.writable = w.hdf5.writable
           /\ IsPointing(r.sap) /\ r.sap.id = sap.id
           /\ DOMAIN r.sap.beams = DOMAIN sap.beams \cup {b}
           /\ \E x \in Ids : /\ BeamIds(r.sap) = BeamIds(sap) \cup {x}
                             /\ x # None => Own(w)[x] = 0
                             /\ \A i \in Identifiers :
                                  Own(r.w)[i] = IF i = x THEN 1 ELSE Own(w)[i]
<1>. DEFINE r == WithNext(w, sap, p, b)
            x == Fresh(w)
            st == IF x = None THEN {} ELSE DOMAIN BeamsOf(w, p)[b]
<1>1. /\ r.w = Owned(w, x)
      /\ r.sap = Entered(sap, b, x, st)
  BY DEF WithNext
<1>2. x \in Ids /\ (x # None => Own(w)[x] = 0)
  BY FreshIsFree
<1>3. b \in Beams /\ st \in SUBSET Stokes
  <2>1. IsGroup(w.file.groups[p])
    BY WorldParts, GroupsAre
  <2>2. IsMap(BeamsOf(w, p), Beams, Datasets)
    BY <2>1 DEF IsGroup, BeamsOf
  <2>3. b \in Beams /\ BeamsOf(w, p)[b] \in Datasets
    BY <2>2 DEF IsMap
  <2>. QED BY <2>3, DatasetsAre
<1>. HIDE DEF r, x, st
<1>4. /\ IsWorld(r.w) /\ r.w.file = w.file /\ r.w.hdf5.writable = w.hdf5.writable
      /\ \A i \in Identifiers : Own(r.w)[i] = IF i = x THEN Own(w)[i] + 1 ELSE Own(w)[i]
  BY <1>1, <1>2, OwnedWorld
<1>5. \A i \in Identifiers : Own(r.w)[i] = IF i = x THEN 1 ELSE Own(w)[i]
  <2>1. x \in Identifiers => Own(w)[x] = 0
    BY <1>2, IdsType
  <2>2. ASSUME x \in Identifiers PROVE Own(r.w)[x] = 1
    <3>1. Own(r.w)[x] = Own(w)[x] + 1
      BY <1>4, <2>2
    <3>. QED BY <2>1, <2>2, <3>1
  <2>. QED BY <1>4, <2>2
<1>6. /\ IsPointing(r.sap) /\ r.sap.id = sap.id
      /\ DOMAIN r.sap.beams = DOMAIN sap.beams \cup {b}
      /\ BeamIds(r.sap) = BeamIds(sap) \cup {x}
  BY <1>1, <1>2, <1>3, PutBeam
<1>. QED BY <1>1, <1>2, <1>4, <1>5, <1>6 DEF r

\* openEmbedded: the new beams have identifiers that were free, and the rest is as it was.
LEMMA EmbeddedWorld ==
    ASSUME NEW w, IsWorld(w), NEW p \in DOMAIN w.file.groups, NEW id \in Ids
    PROVE  LET r == WithEmbedded(w, p, id) IN
           /\ IsWorld(r.w) /\ r.w.file = w.file /\ r.w.hdf5.writable = w.hdf5.writable
           /\ IsPointing(r.sap) /\ r.sap.id = id
           /\ \A i \in Identifiers :
                /\ i \in BeamIds(r.sap) => Own(w)[i] = 0 /\ Own(r.w)[i] = 1
                /\ i \notin BeamIds(r.sap) => Own(r.w)[i] = Own(w)[i]
<1>. DEFINE D == DOMAIN BeamsOf(w, p)
            names == SetToSeq(D)
            k == Cardinality(D)
            base == [w |-> w, sap |-> [id |-> id, beams |-> Empty]]
            Next1(s, n) == WithNext(s.w, s.sap, p, names[n])
            Good(s, n) ==
              /\ IsWorld(s.w) /\ s.w.file = w.file /\ s.w.hdf5.writable = w.hdf5.writable
              /\ IsPointing(s.sap) /\ s.sap.id = id
              /\ DOMAIN s.sap.beams = {names[j] : j \in 1..n}
              /\ \A i \in Identifiers :
                   /\ i \in BeamIds(s.sap) => Own(w)[i] = 0 /\ Own(s.w)[i] = 1
                   /\ i \notin BeamIds(s.sap) => Own(s.w)[i] = Own(w)[i]
            States == [w : Worlds, sap : PointingSet]
            S == [n \in 0..k |-> {s \in States : Good(s, n)}]
            step == [ns \in (1..k) \X States |-> Next1(ns[2], ns[1])]
<1>1. IsFiniteSet(D)
  <2>1. IsGroup(w.file.groups[p])
    BY WorldParts, GroupsAre
  <2>2. D \subseteq Beams
    BY <2>1 DEF IsGroup, BeamsOf, IsMap
  <2>. QED BY <2>2, NumbersAssumption, FS_Subset
<1>2. /\ Len(names) = k /\ k \in Nat /\ names \in [1..k -> D]
      /\ \A i, j \in 1..k : names[i] = names[j] => i = j
  <2>. HIDE DEF D
  <2>. QED BY <1>1, Listed
<1>. HIDE DEF D, names, k
<1>3. base \in States /\ Good(base, 0)
  <2>1. base.w = w /\ base.sap = [id |-> id, beams |-> Empty]
    OBVIOUS
  <2>2. IsPointing(base.sap) /\ BeamIds(base.sap) = {} /\ base.sap.id = id
    BY <2>1, NoBeams
  <2>3. DOMAIN base.sap.beams = {}
    BY <2>1, EmptyMap
  <2>4. base = [w |-> base.w, sap |-> base.sap] /\ base.w \in Worlds /\ base.sap \in PointingSet
    BY <2>1, <2>2, InWorlds, InPointingSet
  <2>5. {names[j] : j \in 1..0} = {}
    OBVIOUS
  <2>. HIDE DEF base
  <2>. QED BY <2>1, <2>2, <2>3, <2>4, <2>5
<1>4. ASSUME NEW n \in 1..k, NEW s \in States, Good(s, n - 1)
      PROVE  Next1(s, n) \in States /\ Good(Next1(s, n), n)
  <2>. DEFINE r == Next1(s, n)
  <2>1. n \in Nat /\ n - 1 \in Nat /\ names[n] \in D
    BY <1>2
  <2>2. names[n] \notin DOMAIN s.sap.beams
    <3>1. \A j \in 1..n-1 : j \in 1..k /\ j # n
      BY <1>2
    <3>. QED BY <1>2, <1>4, <3>1
  <2>3. p \in DOMAIN s.w.file.groups /\ names[n] \in DOMAIN BeamsOf(s.w, p)
    BY <1>4, <2>1 DEF D, BeamsOf
  <2>4. /\ IsWorld(r.w) /\ r.w.file = s.w.file /\ r.w.hdf5.writable = s.w.hdf5.writable
        /\ IsPointing(r.sap) /\ r.sap.id = s.sap.id
        /\ DOMAIN r.sap.beams = DOMAIN s.sap.beams \cup {names[n]}
    BY <1>4, <2>2, <2>3, NextWorld
  <2>5. PICK x \in Ids :
          /\ BeamIds(r.sap) = BeamIds(s.sap) \cup {x}
          /\ x # None => Own(s.w)[x] = 0
          /\ \A i \in Identifiers : Own(r.w)[i] = IF i = x THEN 1 ELSE Own(s.w)[i]
    BY <1>4, <2>2, <2>3, NextWorld
  <2>6. r = [w |-> r.w, sap |-> r.sap]
    BY DEF WithNext
  <2>. HIDE DEF r
  <2>7. r \in States
    BY <2>4, <2>6, InWorlds, InPointingSet
  <2>8. DOMAIN r.sap.beams = {names[j] : j \in 1..n}
    <3>1. 1..n = (1..n-1) \cup {n}
      BY <2>1
    <3>. QED BY <1>4, <2>4, <3>1
  <2>9. ASSUME NEW i \in Identifiers
        PROVE  /\ i \in BeamIds(r.sap) => Own(w)[i] = 0 /\ Own(r.w)[i] = 1
               /\ i \notin BeamIds(r.sap) => Own(r.w)[i] = Own(w)[i]
    <3>1. /\ i \in BeamIds(s.sap) => Own(w)[i] = 0 /\ Own(s.w)[i] = 1
          /\ i \notin BeamIds(s.sap) => Own(s.w)[i] = Own(w)[i]
      BY <1>4
    <3>2. i # None
      BY IdsType
    <3>. QED BY <2>5, <3>1, <3>2
  <2>. QED BY <1>4, <2>4, <2>7, <2>8, <2>9 DEF r
<1>5. k \in Nat
  BY <1>2
<1>. HIDE DEF base, Next1, States
<1>6. \E f : f = [n \in 0..k |-> IF n = 0 THEN base ELSE Next1(f[n-1], n)]
  <2>1. base \in S[0]
    BY <1>3, <1>5
  <2>2. ASSUME NEW n \in 1..k, NEW s \in S[n - 1] PROVE step[<<n, s>>] \in S[n] /\ step[<<n, s>>] = Next1(s, n)
    <3>1. n - 1 \in 0..k /\ n \in 0..k
      BY <1>5
    <3>2. s \in States /\ Good(s, n - 1)
      <4>. HIDE DEF Good
      <4>. QED BY <3>1
    <3>3. step[<<n, s>>] = Next1(s, n)
      BY <3>2
    <3>4. Next1(s, n) \in States /\ Good(Next1(s, n), n)
      BY <1>4, <3>2
    <3>. HIDE DEF Good, step
    <3>. QED BY <3>1, <3>3, <3>4
  <2>. HIDE DEF S, step
  <2>3. PICK f : /\ f[0] = base /\ \A n \in 1..k : f[n] = step[<<n, f[n-1]>>]
                 /\ \A n \in 0..k : f[n] \in S[n]
    <3>1. Advances(k, S, base, step)
      BY <2>1, <2>2 DEF Advances
    <3>2. Runs(k, S, base, step)
      BY <1>5, <3>1, Rounds
    <3>. QED BY <3>2 DEF Runs
  <2>4. \A n \in 1..k : step[<<n, f[n-1]>>] = Next1(f[n-1], n)
    <3>1. \A n \in 1..k : n - 1 \in 0..k
      BY <1>5
    <3>. QED BY <2>2, <2>3, <3>1
  <2>. DEFINE g == [n \in 0..k |-> f[n]]
  <2>5. g = [n \in 0..k |-> IF n = 0 THEN base ELSE Next1(g[n-1], n)]
    <3>1. \A n \in 0..k : n = 0 \/ (n \in 1..k /\ n # 0 /\ n - 1 \in 0..k)
      BY <1>5
    <3>. QED BY <2>3, <2>4, <3>1
  <2>. QED BY <2>5
<1>7. ASSUME NEW f, f = [n \in 0..k |-> IF n = 0 THEN base ELSE Next1(f[n-1], n)] PROVE Good(f[k], k)
  <2>. DEFINE T == {n \in 0..k : f[n] \in States /\ Good(f[n], n)}
  <2>. HIDE DEF Good
  <2>1. 0 \in T
    BY <1>3, <1>5, <1>7
  <2>2. \A n \in 1..k : n - 1 \in T => n \in T
    <3>. TAKE n \in 1..k
    <3>. HAVE n - 1 \in T
    <3>1. n \in 0..k /\ n # 0
      BY <1>5
    <3>2. f[n] = Next1(f[n - 1], n)
      BY <1>7, <3>1
    <3>. QED BY <1>4, <3>1, <3>2
  <2>. HIDE DEF T
  <2>3. k \in T
    BY <1>5, <2>1, <2>2, Reaches
  <2>. QED BY <2>3 DEF T
<1>8. Good(WithEmbedded(w, p, id), k)
  <2>. DEFINE after[n \in 0..k] == IF n = 0 THEN base ELSE Next1(after[n - 1], n)
  <2>1. after = [n \in 0..k |-> IF n = 0 THEN base ELSE Next1(after[n - 1], n)]
    BY <1>6
  <2>2. WithEmbedded(w, p, id) = after[k]
    BY <1>2 DEF WithEmbedded, base, Next1, names, D
  <2>. HIDE DEF after, Good
  <2>. QED BY <1>7, <2>1, <2>2
<1>. QED BY <1>8

LEMMA NewGroupIs == IsGroup(NewGroup) /\ DOMAIN NewGroup.beams = {}
<1>1. IsMap(Empty, Beams, Datasets) /\ DOMAIN Empty = {}
  BY EmptyMap
<1>. QED BY <1>1 DEF IsGroup, NewGroup

\* The constructor of a pointing: it has an identifier that was free, and so have its beams;
\* if it has one the pointing is in the file.
LEMMA NewPointingWorld ==
    ASSUME NEW w, IsWorld(w), NEW valid, NEW p \in Names, NEW flag
    PROVE  LET r == NewPointing(w, valid, p, flag) IN
           /\ IsWorld(r.w) /\ r.w.hdf5.writable = w.hdf5.writable /\ r.w.file.exists = w.file.exists
           /\ r.w.file.groups = IF MadeIn(w, valid, p \in DOMAIN w.file.groups, flag)
                                THEN Put(w.file.groups, p, NewGroup) ELSE w.file.groups
           /\ IsPointing(r.sap)
           /\ r.sap.id # None => /\ p \in DOMAIN r.w.file.groups /\ r.sap.id \notin BeamIds(r.sap)
                                 /\ Own(w)[r.sap.id] = 0 /\ Own(r.w)[r.sap.id] = 1
           /\ \A i \in Identifiers :
                /\ i \in BeamIds(r.sap) => Own(w)[i] = 0 /\ Own(r.w)[i] = 1
                /\ i \notin IdsOf(r.sap) => Own(r.w)[i] = Own(w)[i]
<1>. DEFINE r == NewPointing(w, valid, p, flag)
            there == p \in DOMAIN w.file.groups
            m == MadeIn(w, valid, there, flag)
            id == OpenedId(w, valid, there, flag)
            made == IF m THEN WithGroups(w, Put(w.file.groups, p, NewGroup)) ELSE w
            o == Owned(made, id)
<1>1. r = IF id = None THEN [w |-> made, sap |-> [id |-> None, beams |-> Empty]]
          ELSE WithEmbedded(o, p, id)
  BY DEF NewPointing
<1>2. /\ IsWorld(made) /\ made.hdf5 = w.hdf5 /\ made.file.exists = w.file.exists
      /\ made.file.groups = IF m THEN Put(w.file.groups, p, NewGroup) ELSE w.file.groups
  <2>1. AreGroups(w.file.groups)
    BY WorldParts
  <2>2. AreGroups(Put(w.file.groups, p, NewGroup))
    BY <2>1, NewGroupIs, PutGroup
  <2>3. CASE m
    <3>1. made = WithGroups(w, Put(w.file.groups, p, NewGroup))
      BY <2>3
    <3>. HIDE DEF made, m
    <3>. QED BY <2>2, <2>3, <3>1, GroupsChanged
  <2>4. CASE ~m
    BY <2>4
  <2>. QED BY <2>3, <2>4
<1>3. id \in Ids /\ (id # None => Own(w)[id] = 0 /\ (m \/ there))
  <2>1. id = None \/ id = Fresh(w)
    BY DEF OpenedId
  <2>2. id # None => m \/ there
    BY DEF OpenedId, Opens
  <2>3. Fresh(w) \in Ids /\ (Fresh(w) # None => Own(w)[Fresh(w)] = 0)
    BY FreshIsFree
  <2>. HIDE DEF id, m
  <2>. QED BY <2>1, <2>2, <2>3 DEF Ids
<1>4. id # None => p \in DOMAIN made.file.groups
  <2>1. DOMAIN Put(w.file.groups, p, NewGroup) = DOMAIN w.file.groups \cup {p}
    BY PutValue
  <2>. HIDE DEF made, m, id
  <2>. QED BY <1>2, <1>3, <2>1
<1>. HIDE DEF made, m, id, r
<1>5. CASE id = None
  <2>1. r.w = made /\ r.sap = [id |-> None, beams |-> Empty] /\ r.sap.id = None
    BY <1>1, <1>5
  <2>2. IsPointing(r.sap) /\ BeamIds(r.sap) = {}
    BY <2>1, NoBeams DEF Ids
  <2>3. \A i \in Identifiers : Own(r.w)[i] = Own(w)[i]
    BY <1>2, <2>1 DEF Own
  <2>. QED BY <1>2, <2>1, <2>2, <2>3 DEF r, m
<1>6. CASE id # None
  <2>1. r = WithEmbedded(o, p, id)
    BY <1>1, <1>6
  <2>2. /\ IsWorld(o) /\ o.file = made.file /\ o.hdf5.writable = made.hdf5.writable
        /\ \A i \in Identifiers : Own(o)[i] = IF i = id THEN Own(made)[i] + 1 ELSE Own(made)[i]
    BY <1>2, <1>3, OwnedWorld
  <2>3. id \in Identifiers /\ Own(made) = Own(w) /\ Own(o)[id] = 1
    <3>1. id \in Identifiers /\ Own(made) = Own(w)
      BY <1>2, <1>3, <1>6 DEF Ids, Own
    <3>2. Own(o)[id] = Own(w)[id] + 1
      BY <2>2, <3>1
    <3>. QED BY <1>3, <1>6, <3>1, <3>2
  <2>4. /\ IsWorld(r.w) /\ r.w.file = o.file /\ r.w.hdf5.writable = o.hdf5.writable
        /\ IsPointing(r.sap) /\ r.sap.id = id
        /\ \A i \in Identifiers :
             /\ i \in BeamIds(r.sap) => Own(o)[i] = 0 /\ Own(r.w)[i] = 1
             /\ i \notin BeamIds(r.sap) => Own(r.w)[i] = Own(o)[i]
    <3>1. p \in DOMAIN o.file.groups
      BY <1>4, <1>6, <2>2
    <3>. HIDE DEF o
    <3>. QED BY <1>3, <2>1, <2>2, <3>1, EmbeddedWorld
  <2>. HIDE DEF o
  <2>5. id \notin BeamIds(r.sap) /\ Own(r.w)[id] = 1
    BY <2>3, <2>4
  <2>6. IdsOf(r.sap) = {id} \cup BeamIds(r.sap)
    BY <2>4, PointingIs
  <2>7. ASSUME NEW i \in Identifiers
        PROVE  /\ i \in BeamIds(r.sap) => Own(w)[i] = 0 /\ Own(r.w)[i] = 1
               /\ i \notin IdsOf(r.sap) => Own(r.w)[i] = Own(w)[i]
    <3>1. i # id => Own(o)[i] = Own(w)[i]
      BY <2>2, <2>3
    <3>. QED BY <2>4, <2>5, <2>6, <3>1
  <2>8. r.w.hdf5.writable = w.hdf5.writable /\ r.w.file.exists = w.file.exists
    BY <1>2, <2>2, <2>4
  <2>9. r.w.file.groups = IF m THEN Put(w.file.groups, p, NewGroup) ELSE w.file.groups
    BY <1>2, <2>2, <2>4
  <2>10. p \in DOMAIN r.w.file.groups
    BY <1>4, <1>6, <2>2, <2>4
  <2>. QED BY <1>3, <1>6, <2>4, <2>5, <2>7, <2>8, <2>9, <2>10 DEF r, m
<1>. QED BY <1>5, <1>6

\* An object after something was closed has no identifier that is, and all that are left.
LEMMA NowIs ==
    ASSUME NEW v, IsWorld(v), NEW sap, IsPointing(sap)
    PROVE  LET n == Now(v, sap) IN
           /\ IsPointing(n)
           /\ n.id = IF sap.id # None /\ Own(v)[sap.id] # 0 THEN sap.id ELSE None
           /\ \A i \in IdsOf(n) : i = None \/ (i \in IdsOf(sap) /\ Own(v)[i] # 0)
           /\ \A i \in IdsOf(sap) : i # None /\ Own(v)[i] # 0 => i \in IdsOf(n)
<1>. DEFINE Left(i) == IF Alive(v, i) THEN i ELSE None
            m == [b \in DOMAIN sap.beams |-> [sap.beams[b] EXCEPT !.id = Left(@)]]
            n == Now(v, sap)
<1>1. n = [id |-> Left(sap.id), beams |-> m]
  BY DEF Now
<1>2. \A i \in Ids : Left(i) \in Ids /\ Left(i) = IF i # None /\ Own(v)[i] # 0 THEN i ELSE None
  BY AliveIff DEF Ids
<1>3. /\ sap.id \in Ids /\ DOMAIN sap.beams \subseteq Beams
      /\ \A b \in DOMAIN sap.beams : sap.beams[b] \in [id : Ids, stokes : SUBSET Stokes]
  BY PointingIs
<1>. HIDE DEF Left
<1>4. \A b \in DOMAIN sap.beams : m[b].id = Left(sap.beams[b].id)
                                   /\ m[b] \in [id : Ids, stokes : SUBSET Stokes]
  BY <1>2, <1>3
<1>5. IsMap(m, Beams, [id : Ids, stokes : SUBSET Stokes]) /\ DOMAIN m = DOMAIN sap.beams
  BY <1>3, <1>4 DEF IsMap
<1>. HIDE DEF m, n
<1>6. IsPointing(n) /\ n.id = Left(sap.id) /\ n.beams = m
  BY <1>1, <1>2, <1>3, <1>5, PointingOf
<1>7. IdsOf(n) = {Left(sap.id)} \cup {m[b].id : b \in DOMAIN sap.beams}
  BY <1>5, <1>6 DEF IdsOf
<1>8. IdsOf(sap) = {sap.id} \cup {sap.beams[b].id : b \in DOMAIN sap.beams}
  BY DEF IdsOf
<1>9. \A i \in IdsOf(n) : i = None \/ (i \in IdsOf(sap) /\ Own(v)[i] # 0)
  <2>. TAKE i \in IdsOf(n)
  <2>1. CASE i = Left(sap.id)
    BY <1>2, <1>3, <1>8, <2>1
  <2>2. CASE \E b \in DOMAIN sap.beams : i = m[b].id
    <3>1. PICK b \in DOMAIN sap.beams : i = m[b].id
      BY <2>2
    <3>2. sap.beams[b].id \in Ids /\ sap.beams[b].id \in IdsOf(sap)
      BY <1>3, <1>8
    <3>. QED BY <1>2, <1>4, <3>1, <3>2
  <2>. QED BY <1>7, <2>1, <2>2
<1>10. \A i \in IdsOf(sap) : i # None /\ Own(v)[i] # 0 => i \in IdsOf(n)
  <2>. TAKE i \in IdsOf(sap)
  <2>. HAVE i # None /\ Own(v)[i] # 0
  <2>1. CASE i = sap.id
    BY <1>2, <1>3, <1>7, <2>1
  <2>2. CASE \E b \in DOMAIN sap.beams : i = sap.beams[b].id
    <3>1. PICK b \in DOMAIN sap.beams : i = sap.beams[b].id
      BY <2>2
    <3>2. m[b].id = i
      BY <1>2, <1>3, <1>4, <3>1
    <3>. QED BY <1>7, <3>2
  <2>. QED BY <1>8, <2>1, <2>2
<1>11. n.id = IF sap.id # None /\ Own(v)[sap.id] # 0 THEN sap.id ELSE None
  BY <1>2, <1>3, <1>6
<1>. QED BY <1>6, <1>9, <1>10, <1>11 DEF n

\* What is left of a new pointing when the root has it: its own identifier, and
\* nothing of its beams.
AssignedRight(w, valid, p, flag) ==
  LET r == NewPointing(w, valid, p, flag)
      v == Assigned(r.w, r.sap)
      n == Now(v, r.sap)
  IN  /\ IsWorld(v) /\ v.hdf5.writable = w.hdf5.writable /\ v.file = r.w.file
      /\ IsPointing(n) /\ n.id = r.sap.id
      /\ \A i \in IdsOf(n) : i = None \/ i = n.id
      /\ n.id # None => Own(w)[n.id] = 0
      /\ \A i \in Identifiers : Own(v)[i] = IF i = n.id THEN 1 ELSE Own(w)[i]

LEMMA AssignedWorld ==
    ASSUME NEW w, IsWorld(w), NEW valid, NEW p \in Names, NEW flag
    PROVE  AssignedRight(w, valid, p, flag)
<1>. DEFINE r == NewPointing(w, valid, p, flag)
            id == r.sap.id
            o == Owned(r.w, id)
            v == Assigned(r.w, r.sap)
            n == Now(v, r.sap)
<1>1. /\ IsWorld(r.w) /\ r.w.hdf5.writable = w.hdf5.writable
      /\ IsPointing(r.sap)
      /\ r.sap.id # None => /\ r.sap.id \notin BeamIds(r.sap)
                            /\ Own(w)[r.sap.id] = 0 /\ Own(r.w)[r.sap.id] = 1
      /\ \A i \in Identifiers :
           /\ i \in BeamIds(r.sap) => Own(w)[i] = 0 /\ Own(r.w)[i] = 1
           /\ i \notin IdsOf(r.sap) => Own(r.w)[i] = Own(w)[i]
  BY NewPointingWorld
<1>. HIDE DEF r
<1>2. id \in Ids /\ IdsOf(r.sap) = {id} \cup BeamIds(r.sap)
  BY <1>1, PointingIs
<1>. HIDE DEF id
<1>3. /\ IsWorld(o) /\ o.file = r.w.file /\ o.hdf5.writable = r.w.hdf5.writable
      /\ \A i \in Identifiers : Own(o)[i] = IF i = id THEN Own(r.w)[i] + 1 ELSE Own(r.w)[i]
  BY <1>1, <1>2, OwnedWorld
<1>4. v = Closed(o, IdsOf(r.sap))
  BY DEF Assigned, Destroyed, id
<1>. HIDE DEF o, v
<1>5. /\ IsWorld(v) /\ v.file = o.file /\ v.hdf5.writable = o.hdf5.writable
      /\ \A i \in Identifiers :
           Own(v)[i] = IF i \in IdsOf(r.sap) /\ Own(o)[i] # 0 THEN Own(o)[i] - 1 ELSE Own(o)[i]
  BY <1>3, <1>4, ClosedWorld
<1>6. ASSUME NEW i \in Identifiers PROVE Own(v)[i] = IF i = id THEN 1 ELSE Own(w)[i]
  <2>1. CASE i = id
    <3>1. id # None /\ Own(r.w)[i] = 1
      BY <1>1, <2>1, IdsType DEF id
    <3>2. Own(o)[i] = 2
      BY <1>3, <2>1, <3>1
    <3>. QED BY <1>2, <1>5, <2>1, <3>2
  <2>2. CASE i \in BeamIds(r.sap) /\ i # id
    BY <1>1, <1>2, <1>3, <1>5, <2>2
  <2>3. CASE i \notin BeamIds(r.sap) /\ i # id
    BY <1>1, <1>2, <1>3, <1>5, <2>3
  <2>. QED BY <2>1, <2>2, <2>3
<1>7. /\ IsPointing(n)
      /\ n.id = IF id # None /\ Own(v)[id] # 0 THEN id ELSE None
      /\ \A i \in IdsOf(n) : i = None \/ (i \in IdsOf(r.sap) /\ Own(v)[i] # 0)
  BY <1>1, <1>5, NowIs DEF id
<1>. HIDE DEF n
<1>8. n.id = id
  BY <1>2, <1>6, <1>7 DEF Ids
<1>9. ASSUME NEW i \in IdsOf(n), i # None PROVE i = n.id
  <2>1. i \in IdsOf(r.sap) /\ Own(v)[i] # 0 /\ i \in Identifiers
    BY <1>1, <1>7, <1>9, PointingIs DEF Ids
  <2>. QED BY <1>1, <1>2, <1>6, <1>8, <2>1
<1>10. n.id # None => Own(w)[n.id] = 0
  BY <1>1, <1>8 DEF id
<1>11. /\ IsWorld(v) /\ v.hdf5.writable = w.hdf5.writable /\ v.file = r.w.file
       /\ IsPointing(n) /\ n.id = r.sap.id
  BY <1>1, <1>3, <1>5, <1>7, <1>8 DEF id
<1>12. \A i \in Identifiers : Own(v)[i] = IF i = n.id THEN 1 ELSE Own(w)[i]
  BY <1>6, <1>8
<1>. QED BY <1>9, <1>10, <1>11, <1>12 DEF AssignedRight, r, v, n

-----------------------------------------------------------------------------
(* Groups in the file.                                                          *)

LEMMA NewBeams ==
    ASSUME NEW g, AreGroups(g), NEW p \in DOMAIN g, NEW m, IsMap(m, Beams, Datasets)
    PROVE  LET v == [g EXCEPT ![p].beams = m] IN
           /\ AreGroups(v) /\ DOMAIN v = DOMAIN g /\ v[p].beams = m
           /\ \A q \in DOMAIN g : q # p => v[q] = g[q]
<1>. DEFINE r == [nof |-> g[p].nof, beams |-> m]
            v == [g EXCEPT ![p].beams = m]
<1>1. /\ p \in Names /\ g = [q \in DOMAIN g |-> g[q]] /\ DOMAIN g \subseteq Names
      /\ g[p] \in [nof : Nat, beams : {g[p].beams}]
  BY GroupsAre DEF IsGroup
<1>2. v = [g EXCEPT ![p] = [g[p] EXCEPT !.beams = m]]
  OBVIOUS
<1>3. [g[p] EXCEPT !.beams = m] = r
  BY <1>1
<1>4. v = Put(g, p, r)
  <2>1. v = [g EXCEPT ![p] = r]
    BY <1>2, <1>3
  <2>. HIDE DEF v, r
  <2>. QED BY <1>1, <2>1, Replaced
<1>5. IsGroup(r) /\ r.beams = m
  BY <1>1 DEF IsGroup
<1>6. /\ DOMAIN Put(g, p, r) = DOMAIN g /\ Put(g, p, r)[p] = r
      /\ \A q \in DOMAIN g : q # p => Put(g, p, r)[q] = g[q]
  <2>. HIDE DEF r
  <2>. QED BY DEF Put
<1>7. AreGroups(Put(g, p, r))
  <2>. HIDE DEF r
  <2>. QED BY <1>1, <1>5, PutGroup
<1>. HIDE DEF r
<1>8. AreGroups(v) /\ DOMAIN v = DOMAIN g /\ v[p].beams = m /\ \A q \in DOMAIN g : q # p => v[q] = g[q]
  <2>. HIDE DEF v
  <2>. QED BY <1>4, <1>5, <1>6, <1>7
<1>. QED BY <1>8

LEMMA NewCount ==
    ASSUME NEW g, AreGroups(g), NEW p \in DOMAIN g, NEW n \in Nat
    PROVE  LET v == [g EXCEPT ![p].nof = n] IN
           AreGroups(v) /\ DOMAIN v = DOMAIN g /\ \A q \in DOMAIN g : v[q].beams = g[q].beams
<1>. DEFINE r == [nof |-> n, beams |-> g[p].beams]
            v == [g EXCEPT ![p].nof = n]
<1>1. /\ p \in Names /\ g = [q \in DOMAIN g |-> g[q]] /\ DOMAIN g \subseteq Names
      /\ g[p] \in [nof : Nat, beams : {g[p].beams}] /\ IsMap(g[p].beams, Beams, Datasets)
  BY GroupsAre DEF IsGroup
<1>2. v = [g EXCEPT ![p] = [g[p] EXCEPT !.nof = n]]
  OBVIOUS
<1>3. [g[p] EXCEPT !.nof = n] = r
  BY <1>1
<1>4. v = Put(g, p, r)
  <2>1. v = [g EXCEPT ![p] = r]
    BY <1>2, <1>3
  <2>. HIDE DEF v, r
  <2>. QED BY <1>1, <2>1, Replaced
<1>5. IsGroup(r) /\ r.beams = g[p].beams
  BY <1>1 DEF IsGroup
<1>6. /\ DOMAIN Put(g, p, r) = DOMAIN g /\ Put(g, p, r)[p] = r
      /\ \A q \in DOMAIN g : q # p => Put(g, p, r)[q] = g[q]
  <2>. HIDE DEF r
  <2>. QED BY DEF Put
<1>7. AreGroups(Put(g, p, r))
  <2>. HIDE DEF r
  <2>. QED BY <1>1, <1>5, PutGroup
<1>. HIDE DEF r
<1>8. AreGroups(v) /\ DOMAIN v = DOMAIN g /\ \A q \in DOMAIN g : v[q].beams = g[q].beams
  <2>. HIDE DEF v
  <2>. QED BY <1>4, <1>5, <1>6, <1>7
<1>. QED BY <1>8

LEMMA WithinItself == \A g : Within(g, g)
  BY DEF Within, WithinBut

LEMMA WithinMore ==
    ASSUME NEW f, NEW g, NEW r, Within(f, g)
    PROVE  WithinBut(f, g, r)
  BY DEF Within, WithinBut

LEMMA MoreReplaced ==
    ASSUME NEW f, NEW g, NEW r, NEW q, r \subseteq q, WithinBut(f, g, r)
    PROVE  WithinBut(f, g, q)
<1>1. \A d : d \notin q => d \notin r
  OBVIOUS
<1>. QED BY <1>1 DEF WithinBut

LEMMA ButTransitive ==
    ASSUME NEW f, NEW g, NEW h, NEW r, WithinBut(f, g, r), WithinBut(g, h, r)
    PROVE  WithinBut(f, h, r)
<1>1. ASSUME NEW p \in DOMAIN f
      PROVE  p \in DOMAIN g /\ p \in DOMAIN h
  BY DEF WithinBut
<1>2. ASSUME NEW p \in DOMAIN f, NEW b \in DOMAIN f[p].beams
      PROVE  b \in DOMAIN g[p].beams /\ b \in DOMAIN h[p].beams
  BY <1>1 DEF WithinBut
<1>3. ASSUME NEW p \in DOMAIN f, NEW b \in DOMAIN f[p].beams, NEW n \in DOMAIN f[p].beams[b]
      PROVE  /\ n \in DOMAIN h[p].beams[b]
             /\ f[p].beams[b][n] /\ << p, b, n >> \notin r => h[p].beams[b][n]
  <2>1. /\ n \in DOMAIN g[p].beams[b]
        /\ f[p].beams[b][n] /\ << p, b, n >> \notin r => g[p].beams[b][n]
    BY DEF WithinBut
  <2>2. p \in DOMAIN g /\ b \in DOMAIN g[p].beams
    BY <1>1, <1>2
  <2>3. /\ n \in DOMAIN h[p].beams[b]
        /\ g[p].beams[b][n] /\ << p, b, n >> \notin r => h[p].beams[b][n]
    BY <2>1, <2>2 DEF WithinBut
  <2>. QED BY <2>1, <2>3
<1>. QED BY <1>1, <1>2, <1>3 DEF WithinBut

LEMMA WithinTransitive ==
    ASSUME NEW f, NEW g, NEW h, Within(f, g), Within(g, h)
    PROVE  Within(f, h)
  BY ButTransitive DEF Within

\* A dataset of a beam is made, or gets samples.
LEMMA MoreStokes ==
    ASSUME NEW g, AreGroups(g), NEW p, NEW b, NEW n \in Stokes, NEW x \in BOOLEAN
    PROVE  LET v == [g EXCEPT ![p].beams[b] = Put(@, n, x)] IN
           /\ AreGroups(v) /\ DOMAIN v = DOMAIN g /\ WithinBut(g, v, {<< p, b, n >>})
           /\ x \/ n \notin DOMAIN g[p].beams[b] => Within(g, v)
<1>. DEFINE v == [g EXCEPT ![p].beams[b] = Put(@, n, x)]
<1>1. CASE p \notin DOMAIN g
  <2>1. v = g
    BY <1>1, GroupsAre
  <2>. QED BY <1>1, <2>1, WithinItself, WithinMore
<1>2. CASE p \in DOMAIN g
  <2>. DEFINE old == g[p].beams
              new == Put(old[b], n, x)
              m == [old EXCEPT ![b] = Put(@, n, x)]
              u == [g EXCEPT ![p].beams = m]
  <2>1. IsMap(old, Beams, Datasets)
    BY <1>2, GroupsAre DEF IsGroup
  <2>2. b \in DOMAIN old => new \in Datasets
    <3>1. b \in DOMAIN old => old[b] \in Datasets
      BY <2>1 DEF IsMap
    <3>. HIDE DEF old
    <3>. QED BY <3>1, DatasetsAre
  <2>3. /\ DOMAIN new = DOMAIN old[b] \cup {n} /\ new[n] = x
        /\ \A k \in DOMAIN old[b] : k # n => new[k] = old[b][k]
    BY DEF Put
  <2>4. /\ DOMAIN m = DOMAIN old /\ m = [old EXCEPT ![b] = new]
        /\ b \in DOMAIN old => m[b] = new
        /\ \A c \in DOMAIN old : c # b => m[c] = old[c]
    <3>. HIDE DEF old
    <3>. QED OBVIOUS
  <2>5. v = u
    OBVIOUS
  <2>. HIDE DEF m, new
  <2>6. IsMap(m, Beams, Datasets)
    <3>. HIDE DEF old
    <3>. QED BY <2>1, <2>2, <2>4 DEF IsMap
  <2>7. /\ AreGroups(u) /\ DOMAIN u = DOMAIN g /\ u[p].beams = m
        /\ \A q \in DOMAIN g : q # p => u[q] = g[q]
    BY <1>2, <2>6, NewBeams
  <2>. HIDE DEF u
  <2>8. ASSUME NEW q \in DOMAIN g, NEW c \in DOMAIN g[q].beams
        PROVE  /\ c \in DOMAIN u[q].beams
               /\ \A k \in DOMAIN g[q].beams[c] :
                    /\ k \in DOMAIN u[q].beams[c]
                    /\ << q, c, k >> # << p, b, n >> => u[q].beams[c][k] = g[q].beams[c][k]
               /\ q = p /\ c = b => u[q].beams[c][n] = x
    <3>1. CASE q # p
      BY <2>7, <3>1
    <3>2. CASE q = p /\ c # b
      BY <2>4, <2>7, <3>2
    <3>3. CASE q = p /\ c = b
      <4>1. c \in DOMAIN u[q].beams /\ u[q].beams[c] = new
        BY <2>4, <2>7, <3>3
      <4>. QED BY <2>3, <3>3, <4>1
    <3>. QED BY <3>1, <3>2, <3>3
  <2>9. WithinBut(g, u, {<< p, b, n >>})
    <3>1. DOMAIN g \subseteq DOMAIN u
      BY <2>7
    <3>2. \A q, c, k : << q, c, k >> \notin {<< p, b, n >>} <=> << q, c, k >> # << p, b, n >>
      OBVIOUS
    <3>. QED BY <2>8, <3>1, <3>2 DEF WithinBut
  <2>10. ASSUME x \/ n \notin DOMAIN g[p].beams[b] PROVE Within(g, u)
    <3>1. ASSUME NEW q \in DOMAIN g, NEW c \in DOMAIN g[q].beams, NEW k \in DOMAIN g[q].beams[c],
                 g[q].beams[c][k]
          PROVE  u[q].beams[c][k]
      <4>1. CASE << q, c, k >> # << p, b, n >>
        BY <2>8, <3>1, <4>1
      <4>2. CASE << q, c, k >> = << p, b, n >>
        <5>1. q = p /\ c = b /\ k = n
          BY <4>2
        <5>2. x
          BY <2>10, <3>1, <5>1
        <5>3. u[q].beams[c][k] = x
          BY <2>8, <3>1, <5>1
        <5>. QED BY <5>2, <5>3
      <4>. QED BY <4>1, <4>2
    <3>. QED BY <2>7, <2>8, <3>1 DEF Within, WithinBut
  <2>. QED BY <2>5, <2>7, <2>9, <2>10
<1>. QED BY <1>1, <1>2

LEMMA WithinPut ==
    ASSUME NEW g, NEW p, p \notin DOMAIN g, NEW x
    PROVE  Within(g, Put(g, p, x))
<1>1. /\ DOMAIN Put(g, p, x) = DOMAIN g \cup {p}
      /\ \A q \in DOMAIN g : q # p => Put(g, p, x)[q] = g[q]
  BY DEF Put
<1>2. \A q \in DOMAIN g : q \in DOMAIN Put(g, p, x) /\ Put(g, p, x)[q] = g[q]
  BY <1>1
<1>. QED BY <1>2 DEF Within, WithinBut

-----------------------------------------------------------------------------
(* What every operation keeps: w is the world, e and c the two maps of objects. *)

AllIds(e) == UNION {IdsOf(e[p]) : p \in DOMAIN e}
Placed(w, e) == \A p \in DOMAIN e : e[p].id # None => p \in DOMAIN w.file.groups

\* An identifier has one owner, which is an object; an object has no identifier
\* that is closed; a pointing that is open is in the file.
Sound(w, e, c) ==
  /\ IsWorld(w) /\ AreObjects(e) /\ AreObjects(c)
  /\ \A i \in Identifiers : Own(w)[i] # 0 => Own(w)[i] = 1 /\ i \in AllIds(e) \cup AllIds(c)
  /\ \A i \in AllIds(e) \cup AllIds(c) : i # None => Own(w)[i] # 0
  /\ Placed(w, e) /\ Placed(w, c)

\* What an operation of the objects leaves of the world.
Grows(w, v) ==
  /\ IsWorld(v) /\ v.hdf5.writable = w.hdf5.writable /\ v.file.exists = w.file.exists
  /\ DOMAIN w.file.groups \subseteq DOMAIN v.file.groups
  /\ ~w.hdf5.writable => v.file.groups = w.file.groups

LEMMA GrowsTransitive ==
    ASSUME NEW u, NEW v, NEW w, Grows(u, v), Grows(v, w)
    PROVE  Grows(u, w)
  BY DEF Grows

LEMMA GrowsItself ==
    ASSUME NEW w, IsWorld(w)
    PROVE  Grows(w, w)
  BY DEF Grows

LEMMA AllIdsAre ==
    ASSUME NEW e, AreObjects(e)
    PROVE  AllIds(e) \subseteq Ids
<1>1. ASSUME NEW p \in DOMAIN e PROVE IdsOf(e[p]) \subseteq Ids
  BY ObjectsAre, PointingIs
<1>. QED BY <1>1 DEF AllIds

\* An entry that is put in: its identifiers and those of the others.
LEMMA PutIds ==
    ASSUME NEW e, NEW p, NEW sap
    PROVE  AllIds(Put(e, p, sap)) = IdsOf(sap) \cup UNION {IdsOf(e[q]) : q \in DOMAIN e \ {p}}
<1>. DEFINE f == Put(e, p, sap)
<1>1. DOMAIN f = DOMAIN e \cup {p} /\ f[p] = sap /\ \A q \in DOMAIN e : q # p => f[q] = e[q]
  BY DEF Put
<1>. HIDE DEF f
<1>2. \A q \in DOMAIN e \ {p} : q \in DOMAIN f /\ f[q] = e[q]
  BY <1>1
<1>3. AllIds(f) = UNION {IdsOf(f[q]) : q \in DOMAIN f}
  BY DEF AllIds
<1>4. p \in DOMAIN f /\ \A q \in DOMAIN f : q = p \/ q \in DOMAIN e \ {p}
  BY <1>1
<1>. QED BY <1>1, <1>2, <1>3, <1>4 DEF f

\* A step that gives at most one identifier that was free to an object: p's entry in e
\* is put in, which has the identifiers it had, that one, and no other.
LEMMA Grown ==
    ASSUME NEW w, NEW e, NEW c, Sound(w, e, c), NEW v, Grows(w, v),
           NEW p \in Names, NEW sap, IsPointing(sap),
           sap.id # None => p \in DOMAIN v.file.groups,
           NEW x \in Ids, x # None => Own(w)[x] = 0 /\ x \in IdsOf(sap),
           \A i \in Identifiers : Own(v)[i] = IF i = x THEN 1 ELSE Own(w)[i],
           p \in DOMAIN e => IdsOf(e[p]) \subseteq IdsOf(sap),
           \A i \in IdsOf(sap) : i = None \/ i = x \/ (p \in DOMAIN e /\ i \in IdsOf(e[p]))
    PROVE  Sound(v, Put(e, p, sap), c)
<1>. DEFINE f == Put(e, p, sap)
<1>1. IsWorld(v) /\ DOMAIN w.file.groups \subseteq DOMAIN v.file.groups
  BY DEF Grows
<1>2. AreObjects(f) /\ AreObjects(c) /\ AreObjects(e)
  BY PutObject DEF Sound
<1>3. DOMAIN f = DOMAIN e \cup {p} /\ f[p] = sap /\ \A q \in DOMAIN e : q # p => f[q] = e[q]
  BY DEF Put
<1>4. AllIds(f) = IdsOf(sap) \cup UNION {IdsOf(e[q]) : q \in DOMAIN e \ {p}}
  BY PutIds
<1>. HIDE DEF f
<1>5. AllIds(e) = UNION {IdsOf(e[q]) : q \in DOMAIN e}
  BY DEF AllIds
<1>6. AllIds(e) \subseteq AllIds(f)
  <2>. SUFFICES ASSUME NEW q \in DOMAIN e, NEW i \in IdsOf(e[q]) PROVE i \in AllIds(f)
    BY <1>5
  <2>1. CASE q = p
    BY <1>4, <2>1
  <2>2. CASE q # p
    BY <1>4, <2>2
  <2>. QED BY <2>1, <2>2
<1>7. \A i \in AllIds(f) : i = None \/ i = x \/ i \in AllIds(e)
  BY <1>4, <1>5
<1>8. x # None => x \in AllIds(f) /\ x \in Identifiers
  BY <1>4 DEF Ids
<1>9. AllIds(f) \subseteq Ids /\ AllIds(c) \subseteq Ids
  BY <1>2, AllIdsAre
<1>10. ASSUME NEW i \in Identifiers, Own(v)[i] # 0
       PROVE  Own(v)[i] = 1 /\ i \in AllIds(f) \cup AllIds(c)
  <2>1. CASE i = x
    BY <1>8, <2>1, IdsType
  <2>2. CASE i # x
    <3>1. Own(w)[i] # 0 /\ Own(v)[i] = Own(w)[i]
      BY <1>10, <2>2
    <3>. QED BY <1>6, <3>1 DEF Sound
  <2>. QED BY <2>1, <2>2
<1>11. ASSUME NEW i \in AllIds(f) \cup AllIds(c), i # None PROVE Own(v)[i] # 0
  <2>1. i \in Identifiers
    BY <1>9, <1>11 DEF Ids
  <2>2. CASE i = x
    BY <2>1, <2>2
  <2>3. CASE i # x
    <3>1. Own(w)[i] # 0
      BY <1>7, <1>11, <2>3 DEF Sound
    <3>. QED BY <2>1, <2>3, <3>1
  <2>. QED BY <2>2, <2>3
<1>12. Placed(v, f)
  <2>. SUFFICES ASSUME NEW q \in DOMAIN f, f[q].id # None PROVE q \in DOMAIN v.file.groups
    BY DEF Placed
  <2>1. CASE q = p
    BY <1>3, <2>1
  <2>2. CASE q # p
    BY <1>1, <1>3, <2>2 DEF Sound, Placed
  <2>. QED BY <2>1, <2>2
<1>13. Placed(v, c)
  BY <1>1 DEF Sound, Placed
<1>14. Sound(v, f, c)
  BY <1>1, <1>2, <1>10, <1>11, <1>12, <1>13 DEF Sound
<1>. QED BY <1>14 DEF f

LEMMA SoundTurned ==
    ASSUME NEW w, NEW e, NEW c, Sound(w, e, c)
    PROVE  Sound(w, c, e)
  BY DEF Sound

-----------------------------------------------------------------------------
(* The operations of the root object.                                           *)

NoReplacing(flag) == flag \notin {"Create", "Truncate"}

LEMMA NamesFinite == IsFiniteSet(Names)
<1>1. IsFiniteSet({Log})
  BY FS_Singleton
<1>. QED BY <1>1, NumbersAssumption, FS_Union DEF Names

LEMMA PointingWorld ==
    ASSUME NEW w, NEW e, NEW c, Sound(w, e, c), NEW valid, NEW p \in Names, NEW flag
    PROVE  LET r == WithPointing(w, e, valid, p, flag) IN
           /\ Sound(r.w, r.entries, c) /\ Grows(w, r.w)
           /\ DOMAIN r.entries = DOMAIN e \cup {p}
           /\ NoReplacing(flag) => Within(w.file.groups, r.w.file.groups)
<1>. DEFINE r == WithPointing(w, e, valid, p, flag)
            new == NewPointing(w, valid, p, flag)
            v == Assigned(new.w, new.sap)
            n == Now(v, new.sap)
            all == Put(e, p, n)
            m == MadeIn(w, valid, p \in DOMAIN w.file.groups, flag)
            u == IF valid /\ w.hdf5.writable
                 THEN [v EXCEPT !.file.nof = Cardinality(DOMAIN all)] ELSE v
<1>1. CASE p \in DOMAIN e
  <2>1. r.w = w /\ r.entries = e
    BY <1>1 DEF WithPointing
  <2>2. IsWorld(w)
    BY DEF Sound
  <2>. HIDE DEF r
  <2>. QED BY <1>1, <2>1, <2>2, GrowsItself, WithinItself DEF r
<1>2. CASE p \notin DOMAIN e
  <2>1. r.w = u /\ r.entries = all
    BY <1>2 DEF WithPointing
  <2>2. IsWorld(w) /\ AreObjects(e)
    BY DEF Sound
  <2>3. /\ IsWorld(v) /\ v.hdf5.writable = w.hdf5.writable /\ v.file = new.w.file
        /\ IsPointing(n) /\ n.id = new.sap.id /\ \A i \in IdsOf(n) : i = None \/ i = n.id
        /\ n.id # None => Own(w)[n.id] = 0
        /\ \A i \in Identifiers : Own(v)[i] = IF i = n.id THEN 1 ELSE Own(w)[i]
    <3>1. AssignedRight(w, valid, p, flag)
      BY <2>2, AssignedWorld
    <3>. QED BY <3>1 DEF AssignedRight
  <2>4. /\ new.w.file.exists = w.file.exists
        /\ new.w.file.groups = IF m THEN Put(w.file.groups, p, NewGroup) ELSE w.file.groups
        /\ new.sap.id # None => p \in DOMAIN new.w.file.groups
    BY <2>2, NewPointingWorld
  <2>. HIDE DEF new, v, n, m
  <2>5. DOMAIN all = DOMAIN e \cup {p}
    BY DEF Put
  <2>6. IsWorld(u) /\ u.hdf5 = v.hdf5 /\ u.file.exists = v.file.exists /\ u.file.groups = v.file.groups
    <3>1. DOMAIN e \cup {p} \subseteq Names
      BY <2>2, ObjectsAre
    <3>2. Cardinality(DOMAIN all) \in Nat
      <4>1. IsFiniteSet(DOMAIN e \cup {p})
        BY <3>1, NamesFinite, FS_Subset
      <4>. HIDE DEF all
      <4>. QED BY <2>5, <4>1, FS_CardinalityType
    <3>. HIDE DEF all
    <3>3. CASE valid /\ w.hdf5.writable
      <4>1. u = [v EXCEPT !.file.nof = Cardinality(DOMAIN all)]
        BY <3>3
      <4>. HIDE DEF u
      <4>. QED BY <2>3, <3>2, <4>1, CountChanged
    <3>4. CASE ~(valid /\ w.hdf5.writable)
      BY <2>3, <3>4
    <3>. QED BY <3>3, <3>4
  <2>. HIDE DEF u, all
  <2>7. m => w.hdf5.writable /\ (NoReplacing(flag) => p \notin DOMAIN w.file.groups)
    BY DEF m, MadeIn, Makes, NoReplacing
  <2>8. u.file.groups = IF m THEN Put(w.file.groups, p, NewGroup) ELSE w.file.groups
    BY <2>3, <2>4, <2>6
  <2>9. DOMAIN w.file.groups \subseteq DOMAIN u.file.groups
    <3>1. DOMAIN Put(w.file.groups, p, NewGroup) = DOMAIN w.file.groups \cup {p}
      BY DEF Put
    <3>. QED BY <2>8, <3>1
  <2>10. Grows(w, u)
    BY <2>3, <2>4, <2>6, <2>7, <2>8, <2>9 DEF Grows
  <2>11. NoReplacing(flag) => Within(w.file.groups, u.file.groups)
    BY <2>7, <2>8, WithinPut, WithinItself
  <2>12. n.id \in Ids /\ n.id \in IdsOf(n)
    BY <2>3, PointingIs
  <2>13. n.id # None => p \in DOMAIN u.file.groups
    BY <2>3, <2>4, <2>6
  <2>14. \A i \in Identifiers : Own(u)[i] = IF i = n.id THEN 1 ELSE Own(w)[i]
    BY <2>3, <2>6 DEF Own
  <2>15. Sound(u, all, c)
    BY <1>2, <2>3, <2>10, <2>12, <2>13, <2>14, Grown DEF all
  <2>. QED BY <2>1, <2>5, <2>10, <2>11, <2>15 DEF r
<1>. QED BY <1>1, <1>2

\* The identifiers that become orphans are identifiers.
LEMMA StaleIds ==
    ASSUME AreObjects(root.entries), AreObjects(held), NEW p, NEW b
    PROVE  Stale(p, b) \subseteq Identifiers
<1>1. ASSUME NEW o \in {root.entries, held}, p \in DOMAIN o /\ b \in DOMAIN o[p].beams
      PROVE  o[p].beams[b].id \in Ids
  <2>1. AreObjects(o)
    OBVIOUS
  <2>2. IsPointing(o[p])
    BY <1>1, <2>1, ObjectsAre
  <2>3. o[p].beams[b] \in [id : Ids, stokes : SUBSET Stokes]
    BY <1>1, <2>2, PointingIs
  <2>. QED BY <2>3
<1>. QED BY <1>1 DEF Stale, Ids

\* openBeam of a pointing.
BeamRight(w, sap, p, b, flag) ==
  LET r == WithBeam(w, sap, p, b, flag)
  IN  /\ Grows(w, r.w) /\ DOMAIN r.w.file.groups = DOMAIN w.file.groups
      /\ NoReplacing(flag) => Within(w.file.groups, r.w.file.groups)
      /\ IsPointing(r.sap) /\ r.sap.id = sap.id /\ b \in DOMAIN r.sap.beams
      /\ IdsOf(sap) \subseteq IdsOf(r.sap)
      /\ \E x \in Ids : /\ x # None => Own(w)[x] = 0 /\ x \in IdsOf(r.sap)
                        /\ \A i \in IdsOf(r.sap) : i = None \/ i = x \/ i \in IdsOf(sap)
                        /\ \A i \in Identifiers : Own(r.w)[i] = IF i = x THEN 1 ELSE Own(w)[i]

LEMMA BeamWorld ==
    ASSUME AreObjects(root.entries), AreObjects(held),
           NEW w, IsWorld(w), NEW sap, IsPointing(sap), NEW p, NEW b \in Beams, NEW flag,
           sap.id # None => p \in DOMAIN w.file.groups
    PROVE  BeamRight(w, sap, p, b, flag)
<1>. DEFINE r == WithBeam(w, sap, p, b, flag)
            valid == Alive(w, sap.id)
            there == valid /\ b \in DOMAIN BeamsOf(w, p)
            id == OpenedId(w, valid, there, flag)
            m == MadeIn(w, valid, there, flag)
            l == WithLibrary(w, w.hdf5.owners, w.hdf5.orphans \cup Stale(p, b))
            g == [w.file.groups EXCEPT ![p].beams = Put(@, b, Empty)]
            made == IF ~m THEN w ELSE WithGroups(l, g)
            stokes == IF id = None THEN {} ELSE DOMAIN BeamsOf(made, p)[b]
            after == Entered(sap, b, id, stokes)
            count == Cardinality(DOMAIN after.beams)
            opened == Owned(made, id)
            h == [opened.file.groups EXCEPT ![p].nof = count]
            last == IF valid /\ w.hdf5.writable THEN WithGroups(opened, h) ELSE opened
<1>1. sap.id \in Ids /\ IdsOf(sap) = {sap.id} \cup BeamIds(sap) /\ sap.id \in IdsOf(sap)
      /\ DOMAIN sap.beams \subseteq Beams
  BY PointingIs
<1>2. CASE b \in DOMAIN sap.beams
  <2>1. r.w = w /\ r.sap = sap
    BY <1>2 DEF WithBeam
  <2>2. None \in Ids /\ \A i \in Identifiers : i # None
    BY IdsType DEF Ids
  <2>. HIDE DEF r
  <2>. QED BY <1>2, <2>1, <2>2, GrowsItself, WithinItself DEF r, BeamRight
<1>3. CASE b \notin DOMAIN sap.beams
  <2>1. r.w = last /\ r.sap = after
    BY <1>3 DEF WithBeam
  <2>2. valid => p \in DOMAIN w.file.groups
    BY <1>1, AliveIff
  <2>3. AreGroups(w.file.groups) /\ Own(w) \in [Identifiers -> Nat] /\ w.hdf5.orphans \in SUBSET Identifiers
    BY WorldParts
  <2>4. m => valid /\ w.hdf5.writable /\ (NoReplacing(flag) => ~there)
    BY DEF MadeIn, Makes, NoReplacing
  <2>5. id \in Ids /\ (id # None => Own(w)[id] = 0 /\ (m \/ there))
    <3>1. id = None \/ id = Fresh(w)
      BY DEF OpenedId
    <3>2. id # None => m \/ there
      BY DEF OpenedId, Opens
    <3>3. Fresh(w) \in Ids /\ (Fresh(w) # None => Own(w)[Fresh(w)] = 0)
      BY FreshIsFree
    <3>. HIDE DEF id, m, there
    <3>. QED BY <3>1, <3>2, <3>3 DEF Ids
  <2>6. there => valid /\ b \in DOMAIN BeamsOf(w, p)
    OBVIOUS
  <2>. HIDE DEF r, id, m, there
  \* The group is made.
  <2>7. /\ IsWorld(made) /\ Own(made) = Own(w) /\ made.hdf5.writable = w.hdf5.writable
        /\ made.file.exists = w.file.exists /\ DOMAIN made.file.groups = DOMAIN w.file.groups
        /\ ~m => made = w
        /\ m => b \in DOMAIN BeamsOf(made, p)
        /\ NoReplacing(flag) => Within(w.file.groups, made.file.groups)
    <3>1. CASE ~m
      BY <3>1, WithinItself
    <3>2. CASE m
      <4>1. p \in DOMAIN w.file.groups
        BY <2>2, <2>4, <3>2
      <4>2. IsMap(w.file.groups[p].beams, Beams, Datasets)
        BY <2>3, <4>1, GroupsAre DEF IsGroup
      <4>3. IsMap(Put(w.file.groups[p].beams, b, Empty), Beams, Datasets)
        BY <4>2, PutMap, DatasetsAre
      <4>4. /\ AreGroups(g) /\ DOMAIN g = DOMAIN w.file.groups
            /\ g[p].beams = Put(w.file.groups[p].beams, b, Empty)
            /\ \A q \in DOMAIN w.file.groups : q # p => g[q] = w.file.groups[q]
        <5>. DEFINE beams == Put(w.file.groups[p].beams, b, Empty)
                    u == [w.file.groups EXCEPT ![p].beams = beams]
        <5>1. g = u
          OBVIOUS
        <5>. HIDE DEF beams
        <5>2. /\ AreGroups(u) /\ DOMAIN u = DOMAIN w.file.groups /\ u[p].beams = beams
              /\ \A q \in DOMAIN w.file.groups : q # p => u[q] = w.file.groups[q]
          <6>1. IsMap(beams, Beams, Datasets)
            BY <4>3 DEF beams
          <6>. QED BY <2>3, <4>1, <6>1, NewBeams
        <5>. HIDE DEF u, g
        <5>. QED BY <5>1, <5>2 DEF beams
      <4>5. Stale(p, b) \subseteq Identifiers
        BY StaleIds
      <4>6. /\ IsWorld(l) /\ l.file = w.file /\ l.hdf5.writable = w.hdf5.writable /\ Own(l) = Own(w)
        BY <2>3, <4>5, LibraryChanged DEF Own
      <4>. HIDE DEF g, l
      <4>7. /\ IsWorld(made) /\ made.hdf5 = l.hdf5 /\ made.file.exists = l.file.exists
            /\ made.file.groups = g
        BY <3>2, <4>4, <4>6, GroupsChanged
      <4>. HIDE DEF made
      <4>8. /\ DOMAIN g[p].beams = DOMAIN w.file.groups[p].beams \cup {b}
            /\ \A a \in DOMAIN w.file.groups[p].beams : a # b => g[p].beams[a] = w.file.groups[p].beams[a]
        BY <4>4 DEF Put
      <4>9. NoReplacing(flag) => b \notin DOMAIN w.file.groups[p].beams
        BY <2>4, <3>2 DEF there, BeamsOf
      <4>10. ASSUME NoReplacing(flag) PROVE Within(w.file.groups, g)
        <5>1. ASSUME NEW q \in DOMAIN w.file.groups, NEW a \in DOMAIN w.file.groups[q].beams
              PROVE  a \in DOMAIN g[q].beams /\ w.file.groups[q].beams[a] = g[q].beams[a]
          <6>1. CASE q = p
            BY <4>8, <4>9, <4>10, <6>1
          <6>2. CASE q # p
            BY <4>4, <6>2
          <6>. QED BY <6>1, <6>2
        <5>. QED BY <4>4, <5>1 DEF Within, WithinBut
      <4>11. Own(made) = Own(w) /\ made.hdf5.writable = w.hdf5.writable /\ made.file.exists = w.file.exists
        BY <4>6, <4>7 DEF Own
      <4>12. b \in DOMAIN BeamsOf(made, p)
        BY <4>7, <4>8 DEF BeamsOf
      <4>. QED BY <3>2, <4>4, <4>7, <4>10, <4>11, <4>12
    <3>. QED BY <3>1, <3>2
  <2>. HIDE DEF made
  \* The beam has what is in the group.
  <2>8. stokes \in SUBSET Stokes
    <3>1. CASE id = None
      BY <3>1
    <3>2. CASE id # None
      <4>1. m \/ there
        BY <2>5, <3>2
      <4>2. valid /\ b \in DOMAIN BeamsOf(made, p)
        BY <2>4, <2>6, <2>7, <4>1
      <4>3. p \in DOMAIN made.file.groups
        BY <2>2, <2>7, <4>2
      <4>4. AreGroups(made.file.groups)
        BY <2>7, WorldParts
      <4>5. IsMap(BeamsOf(made, p), Beams, Datasets)
        BY <4>3, <4>4, GroupsAre DEF IsGroup, BeamsOf
      <4>6. BeamsOf(made, p)[b] \in Datasets
        BY <4>2, <4>5 DEF IsMap
      <4>. QED BY <3>2, <4>6, DatasetsAre
    <3>. QED BY <3>1, <3>2
  <2>. HIDE DEF stokes
  <2>9. /\ IsPointing(after) /\ after.id = sap.id /\ DOMAIN after.beams = DOMAIN sap.beams \cup {b}
        /\ BeamIds(after) = BeamIds(sap) \cup {id}
    BY <1>3, <2>5, <2>8, PutBeam
  <2>. HIDE DEF after
  <2>10. /\ IsWorld(opened) /\ opened.file = made.file /\ opened.hdf5.writable = made.hdf5.writable
         /\ \A i \in Identifiers : Own(opened)[i] = IF i = id THEN Own(made)[i] + 1 ELSE Own(made)[i]
    BY <2>5, <2>7, OwnedWorld
  <2>. HIDE DEF opened
  <2>11. count \in Nat
    <3>1. DOMAIN after.beams \subseteq Beams
      BY <1>1, <2>9
    <3>2. IsFiniteSet(DOMAIN after.beams)
      BY <3>1, NumbersAssumption, FS_Subset
    <3>. QED BY <3>2, FS_CardinalityType
  <2>. HIDE DEF count
  <2>12. /\ IsWorld(last) /\ last.hdf5 = opened.hdf5 /\ last.file.exists = opened.file.exists
         /\ DOMAIN last.file.groups = DOMAIN opened.file.groups
         /\ \A q \in DOMAIN opened.file.groups : last.file.groups[q].beams = opened.file.groups[q].beams
         /\ ~w.hdf5.writable => last = opened
    <3>1. CASE valid /\ w.hdf5.writable
      <4>1. p \in DOMAIN opened.file.groups /\ AreGroups(opened.file.groups)
        BY <2>2, <2>7, <2>10, <3>1, WorldParts
      <4>2. /\ AreGroups(h) /\ DOMAIN h = DOMAIN opened.file.groups
            /\ \A q \in DOMAIN opened.file.groups : h[q].beams = opened.file.groups[q].beams
        BY <2>11, <4>1, NewCount
      <4>3. last = WithGroups(opened, h)
        BY <3>1
      <4>. HIDE DEF h, last
      <4>4. /\ IsWorld(last) /\ last.hdf5 = opened.hdf5 /\ last.file.exists = opened.file.exists
            /\ last.file.groups = h
        BY <2>10, <4>2, <4>3, GroupsChanged
      <4>. QED BY <3>1, <4>2, <4>4
    <3>2. CASE ~(valid /\ w.hdf5.writable)
      BY <2>10, <3>2
    <3>. QED BY <3>1, <3>2
  <2>. HIDE DEF last, valid
  <2>13. Within(opened.file.groups, last.file.groups)
    BY <2>12 DEF Within, WithinBut
  <2>14. NoReplacing(flag) => Within(w.file.groups, last.file.groups)
    BY <2>7, <2>10, <2>13, WithinTransitive
  <2>15. Grows(w, last) /\ DOMAIN last.file.groups = DOMAIN w.file.groups
    <3>1. last.hdf5.writable = w.hdf5.writable /\ last.file.exists = w.file.exists
          /\ DOMAIN last.file.groups = DOMAIN w.file.groups
      BY <2>7, <2>10, <2>12
    <3>2. ~w.hdf5.writable => last.file.groups = w.file.groups
      BY <2>4, <2>7, <2>10, <2>12
    <3>. QED BY <2>12, <3>1, <3>2 DEF Grows
  <2>16. ASSUME NEW i \in Identifiers PROVE Own(last)[i] = IF i = id THEN 1 ELSE Own(w)[i]
    <3>1. Own(last)[i] = IF i = id THEN Own(w)[i] + 1 ELSE Own(w)[i]
      BY <2>7, <2>10, <2>12 DEF Own
    <3>2. CASE i = id
      <4>1. Own(w)[i] = 0 /\ Own(last)[i] = Own(w)[i] + 1
        BY <2>5, <3>1, <3>2, IdsType
      <4>. QED BY <3>2, <4>1
    <3>3. CASE i # id
      BY <3>1, <3>3
    <3>. QED BY <3>2, <3>3
  <2>17. IdsOf(after) = {sap.id} \cup BeamIds(sap) \cup {id}
    <3>1. IdsOf(after) = {after.id} \cup BeamIds(after)
      BY DEF IdsOf, BeamIds
    <3>. QED BY <2>9, <3>1
  <2>18. BeamRight(w, sap, p, b, flag) <=>
           /\ Grows(w, last) /\ DOMAIN last.file.groups = DOMAIN w.file.groups
           /\ NoReplacing(flag) => Within(w.file.groups, last.file.groups)
           /\ IsPointing(after) /\ after.id = sap.id /\ b \in DOMAIN after.beams
           /\ IdsOf(sap) \subseteq IdsOf(after)
           /\ \E x \in Ids : /\ x # None => Own(w)[x] = 0 /\ x \in IdsOf(after)
                             /\ \A i \in IdsOf(after) : i = None \/ i = x \/ i \in IdsOf(sap)
                             /\ \A i \in Identifiers : Own(last)[i] = IF i = x THEN 1 ELSE Own(w)[i]
    BY <2>1 DEF BeamRight, r
  <2>19. \E x \in Ids : /\ x # None => Own(w)[x] = 0 /\ x \in IdsOf(after)
                        /\ \A i \in IdsOf(after) : i = None \/ i = x \/ i \in IdsOf(sap)
                        /\ \A i \in Identifiers : Own(last)[i] = IF i = x THEN 1 ELSE Own(w)[i]
    <3>1. /\ id # None => Own(w)[id] = 0 /\ id \in IdsOf(after)
          /\ \A i \in IdsOf(after) : i = None \/ i = id \/ i \in IdsOf(sap)
      BY <1>1, <2>5, <2>17
    <3>. QED BY <2>5, <2>16, <3>1
  <2>. QED BY <1>1, <2>9, <2>14, <2>15, <2>17, <2>18, <2>19
<1>. QED BY <1>2, <1>3

\* An entry may be replaced by one with the same identifiers, when no identifier changes.
LEMMA SameIds ==
    ASSUME NEW w, NEW e, NEW c, Sound(w, e, c), NEW v, Grows(w, v), Own(v) = Own(w),
           NEW p \in DOMAIN e, NEW sap, IsPointing(sap), sap.id = e[p].id, IdsOf(sap) = IdsOf(e[p])
    PROVE  Sound(v, Put(e, p, sap), c)
<1>1. p \in Names
  BY ObjectsAre DEF Sound
<1>2. sap.id # None => p \in DOMAIN v.file.groups
  BY DEF Sound, Placed, Grows
<1>3. None \in Ids /\ \A i \in Identifiers : Own(v)[i] = IF i = None THEN 1 ELSE Own(w)[i]
  BY IdsType DEF Ids
<1>. QED BY <1>1, <1>2, <1>3, Grown

LEMMA BeamSound ==
    ASSUME AreObjects(root.entries), AreObjects(held),
           NEW w, NEW e, NEW c, Sound(w, e, c), NEW p \in DOMAIN e, NEW b \in Beams, NEW flag
    PROVE  /\ BeamRight(w, e[p], p, b, flag)
           /\ Sound(WithBeam(w, e[p], p, b, flag).w, Put(e, p, WithBeam(w, e[p], p, b, flag).sap), c)
<1>. DEFINE r == WithBeam(w, e[p], p, b, flag)
<1>1. IsWorld(w) /\ IsPointing(e[p]) /\ p \in Names /\ (e[p].id # None => p \in DOMAIN w.file.groups)
  BY ObjectsAre DEF Sound, Placed
<1>2. BeamRight(w, e[p], p, b, flag)
  BY <1>1, BeamWorld
<1>3. /\ Grows(w, r.w) /\ DOMAIN r.w.file.groups = DOMAIN w.file.groups
      /\ IsPointing(r.sap) /\ r.sap.id = e[p].id /\ IdsOf(e[p]) \subseteq IdsOf(r.sap)
  BY <1>2 DEF BeamRight
<1>4. PICK x \in Ids : /\ x # None => Own(w)[x] = 0 /\ x \in IdsOf(r.sap)
                       /\ \A i \in IdsOf(r.sap) : i = None \/ i = x \/ i \in IdsOf(e[p])
                       /\ \A i \in Identifiers : Own(r.w)[i] = IF i = x THEN 1 ELSE Own(w)[i]
  BY <1>2 DEF BeamRight
<1>. HIDE DEF r
<1>5. Sound(r.w, Put(e, p, r.sap), c)
  BY <1>1, <1>3, <1>4, Grown
<1>. QED BY <1>2, <1>5 DEF r

\* A dataset more in a beam of an object: the identifiers are the same.
LEMMA EnteredStokes ==
    ASSUME NEW sap, IsPointing(sap), NEW b \in DOMAIN sap.beams, NEW n \in Stokes
    PROVE  LET v == Entered(sap, b, sap.beams[b].id, sap.beams[b].stokes \cup {n}) IN
           IsPointing(v) /\ v.id = sap.id /\ IdsOf(v) = IdsOf(sap)
<1>. DEFINE x == sap.beams[b].id
            st == sap.beams[b].stokes \cup {n}
            v == Entered(sap, b, x, st)
<1>1. b \in Beams /\ x \in Ids /\ st \in SUBSET Stokes
  BY PointingIs
<1>2. sap.beams[b].id = x
  OBVIOUS
<1>. HIDE DEF x, st
<1>3. IsPointing(v) /\ v.id = sap.id /\ BeamIds(v) = BeamIds(sap)
  BY <1>1, <1>2, PutBeam
<1>. HIDE DEF v
<1>4. IdsOf(v) = IdsOf(sap)
  BY <1>3, PointingIs
<1>. QED BY <1>3, <1>4 DEF v, x, st

LEMMA OpenStokesRight ==
    ASSUME NEW w, NEW sap, IsPointing(sap), NEW p, NEW b \in DOMAIN sap.beams, NEW n \in Stokes
    PROVE  LET v == OpenStokes(w, sap, p, b, n) IN
           IsPointing(v) /\ v.id = sap.id /\ IdsOf(v) = IdsOf(sap)
<1>. DEFINE v == OpenStokes(w, sap, p, b, n)
            u == Entered(sap, b, sap.beams[b].id, sap.beams[b].stokes \cup {n})
<1>1. v = u \/ v = sap
  BY DEF OpenStokes
<1>2. IsPointing(u) /\ u.id = sap.id /\ IdsOf(u) = IdsOf(sap)
  BY EnteredStokes
<1>. HIDE DEF u, v
<1>3. IsPointing(v) /\ v.id = sap.id /\ IdsOf(v) = IdsOf(sap)
  BY <1>1, <1>2
<1>. QED BY <1>3 DEF v

MadeRight(w, sap, p, b, n, flag) ==
  LET u == MakeStokes(w, sap, p, b, n, flag)
  IN  /\ Grows(w, u.w) /\ Own(u.w) = Own(w)
      /\ WithinBut(w.file.groups, u.w.file.groups, {<< p, b, n >>})
      /\ flag \notin Overwriting => Within(w.file.groups, u.w.file.groups)
      /\ IsPointing(u.sap) /\ u.sap.id = sap.id /\ IdsOf(u.sap) = IdsOf(sap)
      /\ u.status \in BOOLEAN

LEMMA MakeStokesRight ==
    ASSUME NEW w, IsWorld(w), NEW sap, IsPointing(sap), NEW p, NEW b \in DOMAIN sap.beams,
           NEW n \in Stokes, NEW flag
    PROVE  MadeRight(w, sap, p, b, n, flag)
<1>. DEFINE u == MakeStokes(w, sap, p, b, n, flag)
            g == [w.file.groups EXCEPT ![p].beams[b] = Put(@, n, FALSE)]
            sap2 == Entered(sap, b, sap.beams[b].id, sap.beams[b].stokes \cup {n})
            deleted == n \in sap.beams[b].stokes /\ flag \in Overwriting
            k == /\ InFile(w, sap.beams[b]) /\ w.hdf5.writable
                 /\ n \notin DOMAIN w.file.groups[p].beams[b] \/ deleted
            v == IF k THEN WithGroups(w, g) ELSE w
<1>1. u.w = v /\ u.sap = sap2 /\ u.status \in BOOLEAN
  BY DEF MakeStokes, BeamsOf
<1>2. IsPointing(sap2) /\ sap2.id = sap.id /\ IdsOf(sap2) = IdsOf(sap)
  BY EnteredStokes
<1>3. /\ AreGroups(g) /\ DOMAIN g = DOMAIN w.file.groups
      /\ WithinBut(w.file.groups, g, {<< p, b, n >>})
      /\ n \notin DOMAIN w.file.groups[p].beams[b] => Within(w.file.groups, g)
  <2>1. AreGroups(w.file.groups)
    BY WorldParts
  <2>. QED BY <2>1, MoreStokes
<1>. HIDE DEF sap2, g, u
<1>4. /\ Grows(w, v) /\ Own(v) = Own(w)
      /\ WithinBut(w.file.groups, v.file.groups, {<< p, b, n >>})
      /\ flag \notin Overwriting => Within(w.file.groups, v.file.groups)
  <2>1. CASE k
    <3>1. /\ v = WithGroups(w, g) /\ w.hdf5.writable
          /\ flag \notin Overwriting => n \notin DOMAIN w.file.groups[p].beams[b]
      BY <2>1
    <3>. HIDE DEF v, k
    <3>2. IsWorld(v) /\ v.hdf5 = w.hdf5 /\ v.file.exists = w.file.exists /\ v.file.groups = g
      BY <1>3, <3>1, GroupsChanged
    <3>. QED BY <1>3, <3>1, <3>2 DEF Grows, Own
  <2>2. CASE ~k
    BY <2>2, GrowsItself, WithinItself, WithinMore
  <2>. QED BY <2>1, <2>2
<1>. HIDE DEF v
<1>. QED BY <1>1, <1>2, <1>4 DEF MadeRight, u

-----------------------------------------------------------------------------
(* The end of an operation: identifiers that were closed are forgotten.         *)

Loose(w, e, c) ==
  /\ IsWorld(w) /\ AreObjects(e) /\ AreObjects(c)
  /\ \A i \in Identifiers : Own(w)[i] # 0 => Own(w)[i] = 1 /\ i \in AllIds(e) \cup AllIds(c)
  /\ \A o \in {e, c} : \A p \in DOMAIN o :
       o[p].id # None /\ Own(w)[o[p].id] # 0 => p \in DOMAIN w.file.groups

LEMMA SoundIsLoose ==
    ASSUME NEW w, NEW e, NEW c, Sound(w, e, c)
    PROVE  Loose(w, e, c)
  BY DEF Sound, Loose, Placed

Remembered(w, o, n) ==
  /\ AreObjects(n)
  /\ \A i \in AllIds(n) : i = None \/ (i \in AllIds(o) /\ Own(w)[i] # 0)
  /\ \A i \in AllIds(o) : i # None /\ Own(w)[i] # 0 => i \in AllIds(n)
  /\ \A p \in DOMAIN n : p \in DOMAIN o /\ (n[p].id # None => n[p].id = o[p].id /\ Own(w)[n[p].id] # 0)

LEMMA NowObjects ==
    ASSUME NEW w, IsWorld(w), NEW o, AreObjects(o)
    PROVE  Remembered(w, o, [p \in DOMAIN o |-> Now(w, o[p])])
<1>. DEFINE n == [p \in DOMAIN o |-> Now(w, o[p])]
<1>1. DOMAIN n = DOMAIN o /\ \A p \in DOMAIN o : n[p] = Now(w, o[p])
  OBVIOUS
<1>2. DOMAIN o \subseteq Names /\ n = [p \in DOMAIN n |-> n[p]]
  BY ObjectsAre
<1>. HIDE DEF n
<1>3. ASSUME NEW p \in DOMAIN o
      PROVE  /\ IsPointing(n[p])
             /\ n[p].id = IF o[p].id # None /\ Own(w)[o[p].id] # 0 THEN o[p].id ELSE None
             /\ \A i \in IdsOf(n[p]) : i = None \/ (i \in IdsOf(o[p]) /\ Own(w)[i] # 0)
             /\ \A i \in IdsOf(o[p]) : i # None /\ Own(w)[i] # 0 => i \in IdsOf(n[p])
  BY <1>1, ObjectsAre, NowIs
<1>4. AreObjects(n)
  <2>1. IsMap(n, Names, {n[p] : p \in DOMAIN n})
    BY <1>1, <1>2 DEF IsMap
  <2>. QED BY <1>1, <1>3, <2>1 DEF AreObjects
<1>5. ASSUME NEW i \in AllIds(n), i # None PROVE i \in AllIds(o) /\ Own(w)[i] # 0
  <2>1. PICK p \in DOMAIN n : i \in IdsOf(n[p])
    BY DEF AllIds
  <2>2. i \in IdsOf(o[p]) /\ Own(w)[i] # 0
    BY <1>1, <1>3, <1>5, <2>1
  <2>. QED BY <1>1, <2>2 DEF AllIds
<1>6. ASSUME NEW i \in AllIds(o), i # None, Own(w)[i] # 0 PROVE i \in AllIds(n)
  <2>1. PICK p \in DOMAIN o : i \in IdsOf(o[p])
    BY DEF AllIds
  <2>2. i \in IdsOf(n[p])
    BY <1>3, <1>6, <2>1
  <2>. QED BY <1>1, <2>2 DEF AllIds
<1>7. \A p \in DOMAIN n : p \in DOMAIN o /\ (n[p].id # None => n[p].id = o[p].id /\ Own(w)[n[p].id] # 0)
  BY <1>1, <1>3
<1>8. Remembered(w, o, n)
  BY <1>4, <1>5, <1>6, <1>7 DEF Remembered
<1>. QED BY <1>8 DEF n

LEMMA Forgotten ==
    ASSUME NEW w, NEW e, NEW c, Loose(w, e, c), NEW v, IsWorld(v), v.file = w.file, Own(v) = Own(w),
           NEW e2, Remembered(w, e, e2), NEW c2, Remembered(w, c, c2)
    PROVE  Sound(v, e2, c2)
<1>1. AreObjects(e2) /\ AreObjects(c2)
  BY DEF Remembered
<1>2. ASSUME NEW i \in Identifiers, Own(v)[i] # 0
      PROVE  Own(v)[i] = 1 /\ i \in AllIds(e2) \cup AllIds(c2)
  <2>1. Own(w)[i] = 1 /\ i \in AllIds(e) \cup AllIds(c) /\ i # None
    BY <1>2, IdsType DEF Loose
  <2>2. CASE i \in AllIds(e)
    BY <1>2, <2>1, <2>2 DEF Remembered
  <2>3. CASE i \in AllIds(c)
    BY <1>2, <2>1, <2>3 DEF Remembered
  <2>. QED BY <2>1, <2>2, <2>3
<1>3. ASSUME NEW i \in AllIds(e2) \cup AllIds(c2), i # None PROVE Own(v)[i] # 0
  BY <1>3 DEF Remembered
<1>4. Placed(v, e2)
  BY DEF Placed, Remembered, Loose
<1>5. Placed(v, c2)
  BY DEF Placed, Remembered, Loose
<1>. QED BY <1>1, <1>2, <1>3, <1>4, <1>5 DEF Sound

-----------------------------------------------------------------------------
(* The invariant, said with what every operation keeps.                         *)

LEMMA InvMeans ==
    ASSUME IInv
    PROVE  /\ Sound(World, root.entries, held)
           /\ root.state \in {"none", "open", "failed"} /\ status \in BOOLEAN
           /\ World.file = file /\ World.hdf5 = hdf5 /\ FileInv
<1>1. IsWorld(World) /\ AreObjects(root.entries) /\ AreObjects(held)
  BY DEF IInv, TypeOK
<1>2. World.file = file /\ World.hdf5 = hdf5 /\ Own(World) = hdf5.owners
  BY DEF World, Own
<1>3. Own(World) \in [Identifiers -> Nat]
  BY <1>1, WorldParts
<1>4. ASSUME NEW i \in Identifiers, Own(World)[i] # 0
      PROVE  Own(World)[i] = 1 /\ i \in AllIds(root.entries) \cup AllIds(held)
  <2>1. hdf5.owners[i] > 0
    BY <1>2, <1>3, <1>4
  <2>2. /\ hdf5.owners[i] = 1
        /\ \E objects \in {root.entries, held} : \E p \in DOMAIN objects : i \in IdsOf(objects[p])
    BY <2>1 DEF IInv, NothingLeaks
  <2>. QED BY <1>2, <2>2 DEF AllIds
<1>5. ASSUME NEW o \in {root.entries, held}, NEW p \in DOMAIN o
      PROVE  /\ \A i \in IdsOf(o[p]) : i # None => Own(World)[i] # 0
             /\ o[p].id # None => p \in DOMAIN World.file.groups
  <2>1. IsPointing(o[p])
    BY <1>1, ObjectsAre
  <2>2. IdsOf(o[p]) \subseteq Ids /\ o[p].id \in IdsOf(o[p])
    BY <2>1, PointingIs
  <2>3. Tidy(World, o)
    BY DEF IInv
  <2>4. /\ \A i \in IdsOf(o[p]) : i = None \/ Alive(World, i)
        /\ Alive(World, o[p].id) => p \in DOMAIN World.file.groups
    BY <2>3 DEF Tidy
  <2>. QED BY <1>1, <2>2, <2>4, AliveIff
<1>6. \A i \in AllIds(root.entries) \cup AllIds(held) : i # None => Own(World)[i] # 0
  BY <1>5 DEF AllIds
<1>7. Placed(World, root.entries) /\ Placed(World, held)
  BY <1>5 DEF Placed
<1>8. Sound(World, root.entries, held)
  BY <1>1, <1>4, <1>6, <1>7 DEF Sound
<1>9. root.state \in {"none", "open", "failed"} /\ status \in BOOLEAN
  BY DEF IInv, TypeOK
<1>. QED BY <1>2, <1>8, <1>9 DEF IInv

LEMMA MeansInv ==
    ASSUME NEW w, NEW e, NEW c, NEW st \in {"none", "open", "failed"}, Sound(w, e, c),
           file' = w.file, hdf5' = w.hdf5, held' = c,
           root'.state = st, root'.entries = e,
           root' \in [state : {"none", "open", "failed"}, entries : {root'.entries}],
           status' \in BOOLEAN,
           (st = "open" \/ w.hdf5.writable \/ w.file.groups # Empty) => w.file.exists,
           st = "none" => DOMAIN e = {},
           \A p, q \in DOMAIN c : p = q
    PROVE  IInv'
<1>1. IsWorld(w) /\ AreObjects(e) /\ AreObjects(c)
  BY DEF Sound
<1>2. /\ World' = w /\ Own(w) = hdf5'.owners
      /\ root'.state = st /\ root'.entries = e
  <2>1. w = [file |-> w.file, hdf5 |-> w.hdf5]
    BY <1>1, WorldParts
  <2>. QED BY <2>1 DEF World, Own
<1>3. TypeOK'
  <2>. QED BY <1>1, <1>2 DEF TypeOK
<1>4. Own(w) \in [Identifiers -> Nat]
  BY <1>1, WorldParts
<1>5. NothingLeaks'
  <2>. SUFFICES ASSUME NEW i \in Identifiers, hdf5'.owners[i] > 0
                PROVE  /\ hdf5'.owners[i] = 1
                       /\ \E objects \in {root'.entries, held'} :
                            \E p \in DOMAIN objects : i \in IdsOf(objects[p])
    BY DEF NothingLeaks
  <2>1. Own(w)[i] = 1 /\ i \in AllIds(e) \cup AllIds(c)
    BY <1>2, <1>4 DEF Sound
  <2>. QED BY <1>2, <2>1 DEF AllIds
<1>6. ASSUME NEW o \in {e, c} PROVE Tidy(w, o)
  <2>. SUFFICES ASSUME NEW p \in DOMAIN o
                PROVE  /\ \A id \in IdsOf(o[p]) : id = None \/ Alive(w, id)
                       /\ Alive(w, o[p].id) => p \in DOMAIN w.file.groups
    BY DEF Tidy
  <2>1. IsPointing(o[p])
    BY <1>1, ObjectsAre
  <2>2. IdsOf(o[p]) \subseteq Ids /\ o[p].id \in Ids
    BY <2>1, PointingIs
  <2>3. \A i \in IdsOf(o[p]) : i # None => Own(w)[i] # 0
    BY DEF Sound, AllIds
  <2>4. o[p].id # None => p \in DOMAIN w.file.groups
    BY DEF Sound, Placed
  <2>. QED BY <1>1, <2>2, <2>3, <2>4, AliveIff
<1>7. FileInv'
  <2>1. root'.state = "none" => root'.entries = Empty
    <3>1. e = [p \in DOMAIN e |-> e[p]]
      BY <1>1, ObjectsAre
    <3>. QED BY <1>2, <3>1 DEF Empty
  <2>. QED BY <1>2, <2>1 DEF FileInv
<1>. QED BY <1>2, <1>3, <1>5, <1>6, <1>7 DEF IInv


\* The objects that are left, and the world an operation has come to, are sound again
\* when the identifiers that were closed are forgotten.
LEMMA BecomesSound ==
    ASSUME NEW w, NEW e, NEW c, Loose(w, e, c), NEW st \in {"none", "open", "failed"},
           Becomes(w, st, e, c), status' \in BOOLEAN,
           (st = "open" \/ w.hdf5.writable \/ w.file.groups # Empty) => w.file.exists,
           st = "none" => DOMAIN e = {},
           \A p, q \in DOMAIN c : p = q
    PROVE  IInv' /\ file' = w.file
<1>. DEFINE q == {id \in w.hdf5.orphans : Alive(w, id)}
            v == WithLibrary(w, w.hdf5.owners, q)
            e2 == [p \in DOMAIN e |-> Now(w, e[p])]
            c2 == [p \in DOMAIN c |-> Now(w, c[p])]
<1>1. IsWorld(w) /\ AreObjects(e) /\ AreObjects(c)
  BY DEF Loose
<1>2. /\ w.hdf5.owners \in [Identifiers -> Nat] /\ q \in SUBSET Identifiers
      /\ w.hdf5 = [owners |-> Own(w), writable |-> w.hdf5.writable, orphans |-> w.hdf5.orphans]
      /\ w = [file |-> w.file, hdf5 |-> w.hdf5]
  BY <1>1, WorldParts DEF Own
<1>3. /\ file' = w.file /\ hdf5' = [w.hdf5 EXCEPT !.orphans = q]
      /\ root' = [state |-> st, entries |-> e2] /\ held' = c2
  BY DEF Becomes
<1>4. /\ IsWorld(v) /\ v.file = w.file /\ v.hdf5.writable = w.hdf5.writable /\ Own(v) = w.hdf5.owners
      /\ v.hdf5.orphans = q
  <2>. HIDE DEF q
  <2>. QED BY <1>1, <1>2, LibraryChanged
<1>5. hdf5' = v.hdf5
  <2>. HIDE DEF q, v
  <2>1. v.hdf5 = [owners |-> Own(v), writable |-> v.hdf5.writable, orphans |-> v.hdf5.orphans]
    BY <1>4, WorldParts
  <2>2. [w.hdf5 EXCEPT !.orphans = q] = [owners |-> Own(w), writable |-> w.hdf5.writable, orphans |-> q]
    BY <1>2
  <2>. QED BY <1>3, <1>4, <2>1, <2>2 DEF Own
<1>6. Remembered(w, e, e2) /\ Remembered(w, c, c2)
  BY <1>1, NowObjects
<1>7. DOMAIN e2 = DOMAIN e /\ DOMAIN c2 = DOMAIN c
  OBVIOUS
<1>. HIDE DEF q, v, e2, c2
<1>8. Sound(v, e2, c2)
  BY <1>4, <1>6, Forgotten DEF Own
<1>9. (st = "open" \/ v.hdf5.writable \/ v.file.groups # Empty) => v.file.exists
  BY <1>4
<1>10. /\ root'.state = st /\ root'.entries = e2
       /\ root' \in [state : {"none", "open", "failed"}, entries : {root'.entries}]
  BY <1>3
<1>11. IInv'
  BY <1>3, <1>4, <1>5, <1>7, <1>8, <1>9, <1>10, MeansInv
<1>. QED BY <1>3, <1>11

\* ... and so after an operation that leaves the file there and open as it was.
LEMMA OperationSound ==
    ASSUME IInv, NEW w, NEW e, NEW c, Loose(w, e, c), Grows(World, w),
           Becomes(w, root.state, e, c), status' \in BOOLEAN,
           root.state # "none" \/ DOMAIN e = {},
           \A p, q \in DOMAIN c : p = q
    PROVE  IInv' /\ file' = w.file
<1>1. /\ root.state \in {"none", "open", "failed"} /\ FileInv
      /\ World.file = file /\ World.hdf5 = hdf5
  BY InvMeans
<1>2. (root.state = "open" \/ w.hdf5.writable \/ w.file.groups # Empty) => w.file.exists
  BY <1>1 DEF FileInv, Grows
<1>. QED BY <1>1, <1>2, BecomesSound

-----------------------------------------------------------------------------
(* The actions.                                                                 *)

LEMMA PointingStep ==
    ASSUME IInv, NEW p \in Names, NEW flag
    PROVE  LET s == Pointing(p, flag) IN
           /\ Sound(s.w, s.entries, held) /\ Grows(World, s.w) /\ p \in DOMAIN s.entries
           /\ NoReplacing(flag) => Within(file.groups, s.w.file.groups)
<1>1. Sound(World, root.entries, held) /\ World.file = file
  BY InvMeans
<1>2. LET s == WithPointing(World, root.entries, root.state = "open", p, flag) IN
      /\ Sound(s.w, s.entries, held) /\ Grows(World, s.w)
      /\ DOMAIN s.entries = DOMAIN root.entries \cup {p}
      /\ NoReplacing(flag) => Within(World.file.groups, s.w.file.groups)
  BY <1>1, PointingWorld
<1>. QED BY <1>1, <1>2 DEF Pointing

LEMMA OpenPointingRight ==
    ASSUME IInv, NEW p \in Pointings, NEW flag, OpenSubArrayPointing(p, flag)
    PROVE  IInv' /\ (NoReplacing(flag) => Within(file.groups, file'.groups))
<1>. DEFINE s == Pointing(p, flag)
<1>1. /\ Sound(s.w, s.entries, held) /\ Grows(World, s.w)
      /\ NoReplacing(flag) => Within(file.groups, s.w.file.groups)
  BY PointingStep DEF Names
<1>2. root.state # "none" /\ Becomes(s.w, root.state, s.entries, held) /\ status' = TRUE
  BY DEF OpenSubArrayPointing
<1>3. \A x, y \in DOMAIN held : x = y
  BY InvMeans DEF FileInv
<1>. HIDE DEF s
<1>4. IInv' /\ file' = s.w.file
  BY <1>1, <1>2, <1>3, SoundIsLoose, OperationSound
<1>. QED BY <1>1, <1>4

\* The pointing and the beam.
LEMMA BeamStep ==
    ASSUME IInv, NEW p \in Pointings, NEW b \in Beams, NEW flag, NEW other
    PROVE  LET s == Pointing(p, flag)
               t == WithBeam(s.w, s.entries[p], p, b, other) IN
           /\ p \in DOMAIN s.entries /\ s.entries = [x \in DOMAIN s.entries |-> s.entries[x]]
           /\ Sound(t.w, Put(s.entries, p, t.sap), held) /\ Grows(World, t.w)
           /\ IsPointing(t.sap) /\ b \in DOMAIN t.sap.beams
           /\ NoReplacing(flag) /\ NoReplacing(other) => Within(file.groups, t.w.file.groups)
<1>. DEFINE s == Pointing(p, flag)
            t == WithBeam(s.w, s.entries[p], p, b, other)
<1>1. /\ Sound(s.w, s.entries, held) /\ Grows(World, s.w) /\ p \in DOMAIN s.entries
      /\ NoReplacing(flag) => Within(file.groups, s.w.file.groups)
  BY PointingStep DEF Names
<1>2. AreObjects(root.entries) /\ AreObjects(held)
  BY InvMeans DEF Sound
<1>3. AreObjects(s.entries)
  <2>. HIDE DEF s
  <2>. QED BY <1>1 DEF Sound
<1>4. s.entries = [x \in DOMAIN s.entries |-> s.entries[x]]
  <2>. HIDE DEF s
  <2>. QED BY <1>3, ObjectsAre
<1>. HIDE DEF s
<1>5. BeamRight(s.w, s.entries[p], p, b, other) /\ Sound(t.w, Put(s.entries, p, t.sap), held)
  BY <1>1, <1>2, BeamSound
<1>6. /\ Grows(s.w, t.w) /\ IsPointing(t.sap) /\ b \in DOMAIN t.sap.beams
      /\ NoReplacing(other) => Within(s.w.file.groups, t.w.file.groups)
  BY <1>5 DEF BeamRight
<1>. HIDE DEF t
<1>7. Grows(World, t.w)
  BY <1>1, <1>6, GrowsTransitive
<1>8. NoReplacing(flag) /\ NoReplacing(other) => Within(file.groups, t.w.file.groups)
  BY <1>1, <1>6, WithinTransitive
<1>. QED BY <1>1, <1>4, <1>5, <1>6, <1>7, <1>8 DEF s, t

LEMMA OpenBeamRight ==
    ASSUME IInv, NEW p \in Pointings, NEW b \in Beams, NEW flag, OpenBeam(p, b, flag)
    PROVE  IInv' /\ (NoReplacing(flag) => Within(file.groups, file'.groups))
<1>. DEFINE s == Pointing(p, flag)
            t == WithBeam(s.w, s.entries[p], p, b, flag)
            e == Put(s.entries, p, t.sap)
<1>1. /\ p \in DOMAIN s.entries /\ s.entries = [x \in DOMAIN s.entries |-> s.entries[x]]
      /\ Sound(t.w, e, held) /\ Grows(World, t.w)
      /\ NoReplacing(flag) => Within(file.groups, t.w.file.groups)
  BY BeamStep
<1>2. /\ root.state # "none" /\ status' = TRUE
      /\ Becomes(t.w, root.state, [s.entries EXCEPT ![p] = t.sap], held)
  BY DEF OpenBeam
<1>. HIDE DEF s, t
<1>3. [s.entries EXCEPT ![p] = t.sap] = e
  BY <1>1, Replaced
<1>4. \A x, y \in DOMAIN held : x = y
  BY InvMeans DEF FileInv
<1>. HIDE DEF e
<1>5. IInv' /\ file' = t.w.file
  BY <1>1, <1>2, <1>3, <1>4, SoundIsLoose, OperationSound
<1>. QED BY <1>1, <1>5

LEMMA PutTwice ==
    ASSUME NEW e, NEW p, NEW x, NEW y
    PROVE  Put(Put(e, p, x), p, y) = Put(e, p, y)
  BY DEF Put

LEMMA OpenStokesDatasetRight ==
    ASSUME IInv, NEW p \in Pointings, NEW b \in Beams, NEW n \in Stokes, NEW flag,
           OpenStokesDataset(p, b, n, flag)
    PROVE  IInv' /\ (NoReplacing(flag) => Within(file.groups, file'.groups))
<1>. DEFINE s == Pointing(p, flag)
            t == WithBeam(s.w, s.entries[p], p, b, "OpenOrCreate")
            e == Put(s.entries, p, t.sap)
            o == OpenStokes(t.w, t.sap, p, b, n)
            f == Put(s.entries, p, o)
<1>1. /\ p \in DOMAIN s.entries /\ s.entries = [x \in DOMAIN s.entries |-> s.entries[x]]
      /\ Sound(t.w, e, held) /\ Grows(World, t.w)
      /\ IsPointing(t.sap) /\ b \in DOMAIN t.sap.beams
      /\ NoReplacing(flag) => Within(file.groups, t.w.file.groups)
  BY BeamStep DEF NoReplacing
<1>2. /\ root.state # "none" /\ status' = TRUE
      /\ Becomes(t.w, root.state, [s.entries EXCEPT ![p] = o], held)
  BY DEF OpenStokesDataset
<1>. HIDE DEF s, t
<1>3. IsPointing(o) /\ o.id = t.sap.id /\ IdsOf(o) = IdsOf(t.sap)
  BY <1>1, OpenStokesRight
<1>. HIDE DEF o
<1>4. [s.entries EXCEPT ![p] = o] = f /\ Put(e, p, o) = f
  BY <1>1, Replaced, PutTwice
<1>5. p \in DOMAIN e /\ e[p] = t.sap
  BY DEF Put
<1>. HIDE DEF e, f
<1>6. Sound(t.w, f, held)
  <2>1. IsWorld(t.w)
    BY <1>1 DEF Sound
  <2>. QED BY <1>1, <1>3, <1>4, <1>5, <2>1, GrowsItself, SameIds
<1>7. \A x, y \in DOMAIN held : x = y
  BY InvMeans DEF FileInv
<1>8. IInv' /\ file' = t.w.file
  BY <1>1, <1>2, <1>4, <1>6, <1>7, SoundIsLoose, OperationSound
<1>. QED BY <1>1, <1>8

LEMMA CreateStokesDatasetRight ==
    ASSUME IInv, NEW p \in Pointings, NEW b \in Beams, NEW n \in Stokes, NEW flag,
           CreateStokesDataset(p, b, n, flag)
    PROVE  /\ IInv'
           /\ NoReplacing(flag) => WithinBut(file.groups, file'.groups, {<< p, b, n >>})
           /\ NoReplacing(flag) /\ flag \notin Overwriting => Within(file.groups, file'.groups)
<1>. DEFINE s == Pointing(p, flag)
            t == WithBeam(s.w, s.entries[p], p, b, flag)
            e == Put(s.entries, p, t.sap)
            u == MakeStokes(t.w, t.sap, p, b, n, flag)
            f == Put(s.entries, p, u.sap)
<1>1. /\ p \in DOMAIN s.entries /\ s.entries = [x \in DOMAIN s.entries |-> s.entries[x]]
      /\ Sound(t.w, e, held) /\ Grows(World, t.w)
      /\ IsPointing(t.sap) /\ b \in DOMAIN t.sap.beams
      /\ NoReplacing(flag) => Within(file.groups, t.w.file.groups)
  BY BeamStep
<1>2. /\ root.state # "none" /\ status' = u.status
      /\ Becomes(u.w, root.state, [s.entries EXCEPT ![p] = u.sap], held)
  BY DEF CreateStokesDataset
<1>. HIDE DEF s, t
<1>3. IsWorld(t.w)
  BY <1>1 DEF Sound
<1>4. MadeRight(t.w, t.sap, p, b, n, flag)
  BY <1>1, <1>3, MakeStokesRight
<1>5. /\ Grows(t.w, u.w) /\ Own(u.w) = Own(t.w)
      /\ WithinBut(t.w.file.groups, u.w.file.groups, {<< p, b, n >>})
      /\ flag \notin Overwriting => Within(t.w.file.groups, u.w.file.groups)
      /\ IsPointing(u.sap) /\ u.sap.id = t.sap.id /\ IdsOf(u.sap) = IdsOf(t.sap)
      /\ u.status \in BOOLEAN
  BY <1>4 DEF MadeRight
<1>. HIDE DEF u
<1>6. [s.entries EXCEPT ![p] = u.sap] = f /\ Put(e, p, u.sap) = f
  BY <1>1, Replaced, PutTwice
<1>7. p \in DOMAIN e /\ e[p] = t.sap
  BY DEF Put
<1>. HIDE DEF e, f
<1>8. Sound(u.w, f, held)
  BY <1>1, <1>5, <1>6, <1>7, SameIds
<1>9. \A x, y \in DOMAIN held : x = y
  BY InvMeans DEF FileInv
<1>10. Grows(World, u.w)
  BY <1>1, <1>5, GrowsTransitive
<1>12. NoReplacing(flag) => WithinBut(file.groups, u.w.file.groups, {<< p, b, n >>})
  BY <1>1, <1>5, WithinMore, ButTransitive
<1>13. NoReplacing(flag) /\ flag \notin Overwriting => Within(file.groups, u.w.file.groups)
  BY <1>1, <1>5, WithinTransitive
<1>11. IInv' /\ file' = u.w.file
  BY <1>2, <1>5, <1>6, <1>8, <1>9, <1>10, SoundIsLoose, OperationSound
<1>. QED BY <1>11, <1>12, <1>13

\* Samples are written: the objects are the same.
LEMMA WriteDataRight ==
    ASSUME IInv, NEW p \in Pointings, NEW b \in Beams, NEW n \in Stokes, WriteData(p, b, n)
    PROVE  IInv' /\ Within(file.groups, file'.groups)
<1>. DEFINE g == [file.groups EXCEPT ![p].beams[b] = Put(@, n, TRUE)]
            w == WithGroups(World, g)
<1>1. /\ root.state = "open" /\ hdf5.writable /\ status' = TRUE
      /\ Becomes(w, root.state, root.entries, held)
  BY DEF WriteData
<1>2. /\ Sound(World, root.entries, held) /\ World.file = file /\ World.hdf5 = hdf5 /\ FileInv
      /\ AreObjects(root.entries) /\ AreObjects(held)
  BY InvMeans DEF Sound, World
<1>3. IsWorld(World) /\ AreGroups(file.groups)
  BY <1>2, WorldParts DEF Sound
<1>4. AreGroups(g) /\ DOMAIN g = DOMAIN file.groups /\ Within(file.groups, g)
  BY <1>3, MoreStokes
<1>. HIDE DEF g
<1>5. /\ IsWorld(w) /\ w.hdf5 = hdf5 /\ w.file.exists = file.exists /\ w.file.groups = g
  BY <1>2, <1>3, <1>4, GroupsChanged
<1>. HIDE DEF w
<1>6. Grows(World, w) /\ Own(w) = Own(World)
  BY <1>1, <1>2, <1>4, <1>5 DEF Grows, Own
<1>7. Sound(w, root.entries, held)
  BY <1>2, <1>6 DEF Sound, Placed, Grows
<1>8. Loose(w, root.entries, held)
  BY <1>7, SoundIsLoose
<1>9. \A x, y \in DOMAIN held : x = y
  BY <1>2 DEF FileInv
<1>10. IInv' /\ file' = w.file
  BY <1>1, <1>6, <1>8, <1>9, OperationSound
<1>. QED BY <1>4, <1>5, <1>10

LEMMA HeldOpenBeamRight ==
    ASSUME IInv, NEW p \in Pointings, NEW b \in Beams, NEW flag, HeldOpenBeam(p, b, flag)
    PROVE  IInv' /\ (NoReplacing(flag) => Within(file.groups, file'.groups))
<1>. DEFINE t == WithBeam(World, held[p], p, b, flag)
            c == Put(held, p, t.sap)
<1>1. /\ p \in DOMAIN held /\ status' = TRUE
      /\ Becomes(t.w, root.state, root.entries, Put(Empty, p, t.sap))
  BY DEF HeldOpenBeam
<1>2. /\ Sound(World, held, root.entries) /\ World.file = file /\ FileInv
      /\ AreObjects(root.entries) /\ AreObjects(held)
  BY InvMeans DEF Sound
<1>3. DOMAIN held = {p}
  BY <1>1, <1>2 DEF FileInv
<1>4. BeamRight(World, held[p], p, b, flag) /\ Sound(t.w, c, root.entries)
  BY <1>1, <1>2, BeamSound
<1>5. Grows(World, t.w) /\ (NoReplacing(flag) => Within(World.file.groups, t.w.file.groups))
  BY <1>4 DEF BeamRight
<1>. HIDE DEF t
<1>6. Put(Empty, p, t.sap) = c /\ DOMAIN c = {p}
  BY <1>3, EmptyMap DEF Put
<1>7. root.state # "none" \/ DOMAIN root.entries = {}
  BY <1>2, EmptyMap DEF FileInv
<1>. HIDE DEF c
<1>8. Sound(t.w, root.entries, c)
  BY <1>4, SoundTurned
<1>9. \A x, y \in DOMAIN c : x = y
  BY <1>6
<1>10. Becomes(t.w, root.state, root.entries, c)
  BY <1>1, <1>6
<1>11. Loose(t.w, root.entries, c)
  BY <1>8, SoundIsLoose
<1>12. IInv' /\ file' = t.w.file
  BY <1>1, <1>5, <1>7, <1>9, <1>10, <1>11, OperationSound
<1>. QED BY <1>2, <1>5, <1>12

\* Destroying what has these identifiers leaves the others with their owners.
LEMMA ClosedLoose ==
    ASSUME NEW w, NEW e, NEW c, Sound(w, e, c), NEW ids,
           NEW e2, NEW c2, AreObjects(e2), AreObjects(c2),
           \A i \in AllIds(e) \cup AllIds(c) : i \in ids \/ i \in AllIds(e2) \cup AllIds(c2),
           \A o \in {e2, c2} : \A p \in DOMAIN o : o[p].id # None => p \in DOMAIN w.file.groups
    PROVE  Loose(Closed(w, ids), e2, c2) /\ Grows(w, Closed(w, ids)) /\ Closed(w, ids).file = w.file
<1>. DEFINE v == Closed(w, ids)
<1>1. IsWorld(w) /\ Own(w) \in [Identifiers -> Nat]
  BY WorldParts DEF Sound
<1>2. /\ IsWorld(v) /\ v.file = w.file /\ v.hdf5.writable = w.hdf5.writable
      /\ \A i \in Identifiers :
           Own(v)[i] = IF i \in ids /\ Own(w)[i] # 0 THEN Own(w)[i] - 1 ELSE Own(w)[i]
  BY <1>1, ClosedWorld
<1>. HIDE DEF v
<1>3. ASSUME NEW i \in Identifiers, Own(v)[i] # 0
      PROVE  Own(v)[i] = 1 /\ i \in AllIds(e2) \cup AllIds(c2)
  <2>1. Own(w)[i] # 0
    BY <1>2, <1>3
  <2>2. Own(w)[i] = 1 /\ i \in AllIds(e) \cup AllIds(c)
    BY <2>1 DEF Sound
  <2>3. i \notin ids
    BY <1>2, <1>3, <2>2
  <2>. QED BY <1>2, <2>2, <2>3
<1>4. Loose(v, e2, c2)
  BY <1>2, <1>3 DEF Loose
<1>5. Grows(w, v)
  BY <1>2 DEF Grows
<1>. QED BY <1>2, <1>4, <1>5 DEF v

LEMMA DestroyHeldRight ==
    ASSUME IInv, NEW p \in Pointings, DestroyHeld(p)
    PROVE  IInv' /\ file' = file
<1>. DEFINE w == Closed(World, IdsOf(held[p]))
<1>1. p \in DOMAIN held /\ Becomes(w, root.state, root.entries, Empty) /\ status' = status
  BY DEF DestroyHeld, Destroyed
<1>2. /\ Sound(World, root.entries, held) /\ World.file = file /\ FileInv /\ status \in BOOLEAN
      /\ AreObjects(root.entries) /\ AreObjects(Empty) /\ DOMAIN Empty = {}
  BY InvMeans, NoObjects, EmptyMap DEF Sound
<1>3. AllIds(held) = IdsOf(held[p])
  <2>1. DOMAIN held = {p}
    BY <1>1, <1>2 DEF FileInv
  <2>. QED BY <2>1 DEF AllIds
<1>4. \A o \in {root.entries, Empty} : \A x \in DOMAIN o : o[x].id # None => x \in DOMAIN World.file.groups
  BY <1>2 DEF Sound, Placed
<1>5. Loose(w, root.entries, Empty) /\ Grows(World, w) /\ w.file = file
  BY <1>2, <1>3, <1>4, ClosedLoose
<1>. HIDE DEF w
<1>6. root.state # "none" \/ DOMAIN root.entries = {}
  BY <1>2 DEF FileInv
<1>. QED BY <1>1, <1>2, <1>5, <1>6, OperationSound

LEMMA GetBeamGroupRight ==
    ASSUME IInv, NEW p \in Pointings, GetBeamGroup(p)
    PROVE  IInv' /\ file' = file
<1>. DEFINE w == Closed(World, IdsOf(root.entries[p]))
<1>1. root.state = "open" /\ Becomes(w, root.state, root.entries, held) /\ status' = FALSE
  BY DEF GetBeamGroup, Destroyed
<1>2. /\ Sound(World, root.entries, held) /\ World.file = file /\ FileInv
      /\ AreObjects(root.entries) /\ AreObjects(held)
  BY InvMeans DEF Sound
<1>3. \A o \in {root.entries, held} : \A x \in DOMAIN o : o[x].id # None => x \in DOMAIN World.file.groups
  BY <1>2 DEF Sound, Placed
<1>4. Loose(w, root.entries, held) /\ Grows(World, w) /\ w.file = file
  BY <1>2, <1>3, ClosedLoose
<1>. HIDE DEF w
<1>5. \A x, y \in DOMAIN held : x = y
  BY <1>2 DEF FileInv
<1>6. root.state # "none" /\ status' \in BOOLEAN /\ Becomes(w, root.state, root.entries, held)
  BY <1>1
<1>. QED BY <1>4, <1>5, <1>6, OperationSound

LEMMA DestroyRootRight ==
    ASSUME IInv, DestroyRoot
    PROVE  IInv' /\ file' = file
<1>. DEFINE ids == UNION {IdsOf(root.entries[p]) : p \in DOMAIN root.entries}
            w == Closed(World, ids)
<1>1. Becomes(w, "none", Empty, held) /\ status' = status
  BY DEF DestroyRoot
<1>2. /\ Sound(World, root.entries, held) /\ World.file = file /\ World.hdf5 = hdf5
      /\ FileInv /\ status \in BOOLEAN
      /\ AreObjects(Empty) /\ AreObjects(held) /\ DOMAIN Empty = {}
  BY InvMeans, NoObjects, EmptyMap DEF Sound
<1>3. AllIds(root.entries) = ids
  BY DEF AllIds
<1>. HIDE DEF ids
<1>4. \A o \in {Empty, held} : \A x \in DOMAIN o : o[x].id # None => x \in DOMAIN World.file.groups
  BY <1>2 DEF Sound, Placed
<1>5. Loose(w, Empty, held) /\ Grows(World, w) /\ w.file = file
  BY <1>2, <1>3, <1>4, ClosedLoose
<1>. HIDE DEF w
<1>6. /\ \A x, y \in DOMAIN held : x = y
      /\ w.hdf5.writable \/ w.file.groups # Empty => w.file.exists
  BY <1>2, <1>5 DEF FileInv, Grows
<1>. QED BY <1>1, <1>2, <1>5, <1>6, BecomesSound

LEMMA GetSubArrayPointingRight ==
    ASSUME IInv, NEW p \in Pointings, GetSubArrayPointing(p)
    PROVE  IInv' /\ file' = file
<1>. DEFINE sap == root.entries[p]
            c == Put(Empty, p, sap)
<1>1. /\ root.state = "open" /\ p \in DOMAIN root.entries /\ held = Empty
      /\ held' = c /\ status' = Alive(World, sap.id) /\ file' = file /\ hdf5' = hdf5 /\ root' = root
  BY DEF GetSubArrayPointing
<1>2. /\ Sound(World, root.entries, held) /\ World.file = file /\ World.hdf5 = hdf5 /\ FileInv
      /\ root.state \in {"none", "open", "failed"}
  BY InvMeans
<1>3. /\ IsWorld(World) /\ AreObjects(root.entries) /\ AreObjects(Empty) /\ DOMAIN Empty = {}
      /\ IsPointing(sap) /\ p \in Names
  <2>1. IsWorld(World) /\ AreObjects(root.entries) /\ AreObjects(Empty) /\ DOMAIN Empty = {}
    BY <1>2, NoObjects, EmptyMap DEF Sound
  <2>. QED BY <1>1, <2>1, ObjectsAre
<1>4. AreObjects(c) /\ DOMAIN c = {p} /\ c[p] = sap
  <2>1. AreObjects(c)
    <3>. HIDE DEF sap
    <3>. QED BY <1>3, PutObject
  <2>. QED BY <1>3, <2>1 DEF Put
<1>5. AllIds(c) \subseteq AllIds(root.entries) /\ AllIds(held) = {}
  <2>. HIDE DEF c
  <2>. QED BY <1>1, <1>3, <1>4 DEF AllIds
<1>. HIDE DEF c
<1>6. Sound(World, root.entries, c)
  BY <1>1, <1>2, <1>4, <1>5 DEF Sound, Placed
<1>7. status' \in BOOLEAN
  BY <1>1 DEF Alive
<1>8. root \in [state : {"none", "open", "failed"}, entries : {root.entries}]
  BY DEF IInv, TypeOK
<1>9. /\ (root.state = "open" \/ World.hdf5.writable \/ World.file.groups # Empty) => World.file.exists
      /\ root.state = "none" => DOMAIN root.entries = {}
      /\ \A x, y \in DOMAIN c : x = y
  BY <1>2, <1>1, <1>4 DEF FileInv
<1>10. /\ file' = World.file /\ hdf5' = World.hdf5 /\ held' = c
       /\ root'.state = root.state /\ root'.entries = root.entries
       /\ root' \in [state : {"none", "open", "failed"}, entries : {root'.entries}]
  BY <1>1, <1>2, <1>8
<1>. QED BY <1>1, <1>2, <1>6, <1>7, <1>9, <1>10, MeansInv

LEMMA OpenRootFailsRight ==
    ASSUME IInv, NEW flag, OpenRootFails(flag)
    PROVE  IInv' /\ file' = file
<1>1. /\ root.state = "none" /\ root' = [state |-> "failed", entries |-> Empty]
      /\ status' = FALSE /\ file' = file /\ hdf5' = hdf5 /\ held' = held
  BY DEF OpenRootFails, NoRoot
<1>2. /\ Sound(World, root.entries, held) /\ World.file = file /\ World.hdf5 = hdf5 /\ FileInv
  BY InvMeans
<1>3. root.entries = Empty /\ DOMAIN Empty = {}
  BY <1>1, <1>2, EmptyMap DEF FileInv
<1>4. /\ ("failed" = "open" \/ World.hdf5.writable \/ World.file.groups # Empty) => World.file.exists
      /\ \A x, y \in DOMAIN held : x = y
  BY <1>2 DEF FileInv
<1>5. /\ root'.state = "failed" /\ root'.entries = Empty
      /\ root' \in [state : {"none", "open", "failed"}, entries : {root'.entries}]
  BY <1>1
<1>6. Sound(World, Empty, held)
  BY <1>2, <1>3
<1>. QED BY <1>1, <1>2, <1>3, <1>4, <1>5, <1>6, MeansInv

\* Opening the pointings of a file.
AllRight(w, names, c) ==
  LET r == WithAll(w, names)
  IN  Sound(r.w, r.entries, c) /\ Grows(w, r.w) /\ Within(w.file.groups, r.w.file.groups)

LEMMA AllWorld ==
    ASSUME NEW w, NEW c, Sound(w, Empty, c), NEW names \in SUBSET Names
    PROVE  AllRight(w, names, c)
<1>. DEFINE order == SetToSeq(names)
            k == Cardinality(names)
            base == [w |-> w, entries |-> Empty]
            Next1(s, n) == WithPointing(s.w, s.entries, TRUE, order[n], "OpenOrCreate")
            Good(s) == Sound(s.w, s.entries, c) /\ Grows(w, s.w) /\ Within(w.file.groups, s.w.file.groups)
            States == [w : Worlds, entries : ObjectMaps]
            S == [n \in 0..k |-> {s \in States : Good(s)}]
            step == [ns \in (1..k) \X States |-> Next1(ns[2], ns[1])]
<1>1. IsFiniteSet(names)
  BY NamesFinite, FS_Subset
<1>2. Len(order) = k /\ k \in Nat /\ order \in [1..k -> names]
  BY <1>1, Listed
<1>. HIDE DEF order, k
<1>3. base \in States /\ Good(base)
  <2>1. base.w = w /\ base.entries = Empty /\ base = [w |-> base.w, entries |-> base.entries]
    OBVIOUS
  <2>2. IsWorld(w) /\ AreObjects(Empty)
    BY DEF Sound
  <2>. HIDE DEF base
  <2>3. Good(base)
    BY <2>1, <2>2, GrowsItself, WithinItself
  <2>. HIDE DEF Good
  <2>. QED BY <2>1, <2>2, <2>3, InWorlds, InObjectMaps
<1>4. ASSUME NEW n \in 1..k, NEW s \in States, Good(s)
      PROVE  Next1(s, n) \in States /\ Good(Next1(s, n))
  <2>. DEFINE r == Next1(s, n)
  <2>1. order[n] \in Names
    BY <1>2
  <2>2. /\ Sound(r.w, r.entries, c) /\ Grows(s.w, r.w)
        /\ NoReplacing("OpenOrCreate") => Within(s.w.file.groups, r.w.file.groups)
    BY <1>4, <2>1, PointingWorld
  <2>3. NoReplacing("OpenOrCreate")
    BY DEF NoReplacing
  <2>4. r = [w |-> r.w, entries |-> r.entries]
    BY DEF WithPointing
  <2>. HIDE DEF r
  <2>5. IsWorld(r.w) /\ AreObjects(r.entries)
    BY <2>2 DEF Sound
  <2>6. r \in States
    BY <2>4, <2>5, InWorlds, InObjectMaps
  <2>7. Good(r)
    BY <1>4, <2>2, <2>3, GrowsTransitive, WithinTransitive
  <2>. QED BY <2>6, <2>7 DEF r
<1>. HIDE DEF base, Next1, States, Good
<1>5. \E f : f = [n \in 0..k |-> IF n = 0 THEN base ELSE Next1(f[n-1], n)]
  <2>1. base \in S[0]
    BY <1>2, <1>3
  <2>2. ASSUME NEW n \in 1..k, NEW s \in S[n - 1]
        PROVE  step[<<n, s>>] \in S[n] /\ step[<<n, s>>] = Next1(s, n)
    <3>1. n - 1 \in 0..k /\ n \in 0..k
      BY <1>2
    <3>2. s \in States /\ Good(s)
      BY <3>1
    <3>3. step[<<n, s>>] = Next1(s, n)
      BY <3>2
    <3>4. Next1(s, n) \in States /\ Good(Next1(s, n))
      BY <1>4, <3>2
    <3>. HIDE DEF step
    <3>. QED BY <3>1, <3>3, <3>4
  <2>. HIDE DEF S, step
  <2>3. PICK f : /\ f[0] = base /\ \A n \in 1..k : f[n] = step[<<n, f[n-1]>>]
                 /\ \A n \in 0..k : f[n] \in S[n]
    <3>1. Advances(k, S, base, step)
      BY <2>1, <2>2 DEF Advances
    <3>2. Runs(k, S, base, step)
      BY <1>2, <3>1, Rounds
    <3>. QED BY <3>2 DEF Runs
  <2>4. \A n \in 1..k : step[<<n, f[n-1]>>] = Next1(f[n-1], n)
    <3>1. \A n \in 1..k : n - 1 \in 0..k
      BY <1>2
    <3>. QED BY <2>2, <2>3, <3>1
  <2>. DEFINE g == [n \in 0..k |-> f[n]]
  <2>5. g = [n \in 0..k |-> IF n = 0 THEN base ELSE Next1(g[n-1], n)]
    <3>1. \A n \in 0..k : n = 0 \/ (n \in 1..k /\ n # 0 /\ n - 1 \in 0..k)
      BY <1>2
    <3>. QED BY <2>3, <2>4, <3>1
  <2>. QED BY <2>5
<1>6. ASSUME NEW f, f = [n \in 0..k |-> IF n = 0 THEN base ELSE Next1(f[n-1], n)] PROVE Good(f[k])
  <2>. DEFINE T == {n \in 0..k : f[n] \in States /\ Good(f[n])}
  <2>1. 0 \in T
    BY <1>2, <1>3, <1>6
  <2>2. \A n \in 1..k : n - 1 \in T => n \in T
    <3>. TAKE n \in 1..k
    <3>. HAVE n - 1 \in T
    <3>1. n \in 0..k /\ n # 0
      BY <1>2
    <3>2. f[n] = Next1(f[n - 1], n)
      BY <1>6, <3>1
    <3>. QED BY <1>4, <3>1, <3>2
  <2>. HIDE DEF T
  <2>3. k \in T
    BY <1>2, <2>1, <2>2, Reaches
  <2>. QED BY <2>3 DEF T
<1>7. Good(WithAll(w, names))
  <2>. DEFINE after[n \in 0..k] == IF n = 0 THEN base ELSE Next1(after[n - 1], n)
  <2>1. after = [n \in 0..k |-> IF n = 0 THEN base ELSE Next1(after[n - 1], n)]
    BY <1>5
  <2>2. WithAll(w, names) = after[k]
    BY <1>2 DEF WithAll, base, Next1, order
  <2>. HIDE DEF after
  <2>. QED BY <1>6, <2>1, <2>2
<1>. QED BY <1>7 DEF Good, AllRight

\* Opening the root: the file is there then; unless it is made anew what it has stays.
LEMMA OpenRootRight ==
    ASSUME IInv, NEW flag, OpenRoot(flag)
    PROVE  IInv' /\ (NoReplacing(flag) => Within(file.groups, file'.groups))
<1>. DEFINE opened == FileOpened(flag)
            names == DOMAIN opened.file.groups
            logs == opened.hdf5.writable /\ Log \notin names
            logged == IF logs THEN WithGroups(opened, Put(opened.file.groups, Log, NewGroup)) ELSE opened
            after == WithAll(logged, names)
            new == [exists |-> TRUE, nof |-> 0, groups |-> Empty]
<1>1. /\ root.state = "none" /\ ~Fails(flag) /\ status' = TRUE
      /\ Becomes(after.w, "open", after.entries, held)
  BY DEF OpenRoot
<1>2. /\ Sound(World, root.entries, held) /\ World.file = file /\ World.hdf5 = hdf5 /\ FileInv
      /\ IsWorld(World) /\ AreObjects(held)
  BY InvMeans DEF Sound
<1>3. root.entries = Empty /\ DOMAIN Empty = {} /\ AreObjects(Empty)
  BY <1>1, <1>2, EmptyMap, NoObjects DEF FileInv
<1>4. /\ hdf5 = [owners |-> hdf5.owners, writable |-> hdf5.writable, orphans |-> hdf5.orphans]
      /\ hdf5.owners \in [Identifiers -> Nat] /\ hdf5.orphans \in SUBSET Identifiers
      /\ World = [file |-> file, hdf5 |-> hdf5]
      /\ file \in [exists : BOOLEAN, nof : Nat, groups : {file.groups}] /\ AreGroups(file.groups)
  <2>1. IsWorld([file |-> file, hdf5 |-> hdf5])
    BY <1>2 DEF World
  <2>. QED BY <2>1 DEF IsWorld, World
<1>. HIDE DEF names, logs, after, new, logged
<1>5. /\ Sound(opened, Empty, held) /\ opened.file.exists
      /\ NoReplacing(flag) => Within(file.groups, opened.file.groups)
  <2>1. CASE Truncates(flag)
    <3>. DEFINE h == [hdf5 EXCEPT !.writable = TRUE]
    <3>1. opened = [file |-> new, hdf5 |-> h]
      BY <2>1 DEF FileOpened, new
    <3>2. /\ h \in [owners : [Identifiers -> Nat], writable : BOOLEAN, orphans : SUBSET Identifiers]
          /\ h.owners = hdf5.owners
      BY <1>4
    <3>3. new \in [exists : BOOLEAN, nof : Nat, groups : {new.groups}] /\ new.exists /\ new.groups = Empty
      BY DEF new
    <3>4. AreGroups(new.groups)
      BY <3>3, NoObjects
    <3>. HIDE DEF h
    <3>5. IsWorld([file |-> new, hdf5 |-> h])
      BY <3>2, <3>3, <3>4, WorldOf
    <3>6. opened.file = new /\ opened.hdf5 = h /\ IsWorld(opened) /\ Own(opened) = Own(World)
      BY <1>2, <3>1, <3>2, <3>5 DEF Own
    <3>. HIDE DEF opened
    <3>7. ~Busy(World)
      BY <1>1, <2>1 DEF Fails
    <3>8. \A i \in Identifiers : Own(World)[i] = 0
      <4>. TAKE i \in Identifiers
      <4>1. ~Alive(World, i) /\ i \in Ids /\ i # None
        BY <3>7, IdsType DEF Busy, Ids
      <4>. QED BY <1>2, <4>1, AliveIff
    <3>9. AllIds(held) \subseteq {None} /\ AllIds(Empty) = {}
      <4>1. AllIds(held) \subseteq Ids
        BY <1>2, AllIdsAre
      <4>2. \A i \in AllIds(held) : i # None => Own(World)[i] # 0
        BY <1>2 DEF Sound
      <4>3. AllIds(held) \subseteq {None}
        BY <3>8, <4>1, <4>2 DEF Ids
      <4>. QED BY <1>3, <4>3 DEF AllIds
    <3>10. \A p \in DOMAIN held : held[p].id = None
      <4>. TAKE p \in DOMAIN held
      <4>1. IsPointing(held[p])
        BY <1>2, ObjectsAre
      <4>2. held[p].id \in IdsOf(held[p])
        BY <4>1, PointingIs
      <4>. QED BY <3>9, <4>2 DEF AllIds
    <3>11. Sound(opened, Empty, held)
      BY <1>2, <1>3, <3>6, <3>8, <3>9, <3>10 DEF Sound, Placed
    <3>12. NoReplacing(flag) => DOMAIN file.groups = {}
      <4>1. NoReplacing(flag) => ~file.exists
        BY <2>1 DEF Truncates, NoReplacing
      <4>. QED BY <1>2, <1>3, <4>1 DEF FileInv
    <3>13. NoReplacing(flag) => Within(file.groups, opened.file.groups)
      BY <3>12 DEF Within, WithinBut
    <3>. QED BY <3>3, <3>6, <3>11, <3>13
  <2>2. CASE ~Truncates(flag)
    <3>. DEFINE x == IF Busy(World) THEN hdf5.writable ELSE flag = "ReadWrite"
                h == [hdf5 EXCEPT !.writable = x]
    <3>1. opened = [file |-> file, hdf5 |-> h]
      <4>1. opened = [World EXCEPT !.hdf5.writable = x]
        BY <1>2, <2>2 DEF FileOpened
      <4>2. [World EXCEPT !.hdf5.writable = x] = [World EXCEPT !.hdf5 = [World.hdf5 EXCEPT !.writable = x]]
        OBVIOUS
      <4>. HIDE DEF x, opened
      <4>. QED BY <1>2, <1>4, <4>1, <4>2
    <3>2. x \in BOOLEAN
      BY <1>2 DEF IsWorld
    <3>. HIDE DEF x
    <3>3. /\ h \in [owners : [Identifiers -> Nat], writable : BOOLEAN, orphans : SUBSET Identifiers]
          /\ h.owners = hdf5.owners
      BY <1>4, <3>2
    <3>. HIDE DEF h
    <3>4. IsWorld([file |-> file, hdf5 |-> h])
      BY <1>4, <3>3, WorldOf
    <3>5. opened.file = file /\ opened.hdf5 = h /\ IsWorld(opened) /\ Own(opened) = Own(World)
      BY <1>2, <3>1, <3>3, <3>4 DEF Own
    <3>. HIDE DEF opened
    <3>6. file.exists
      BY <2>2 DEF Truncates
    <3>7. Sound(opened, Empty, held)
      BY <1>2, <1>3, <3>5 DEF Sound, Placed
    <3>. QED BY <3>5, <3>6, <3>7, WithinItself
  <2>. QED BY <2>1, <2>2
<1>. HIDE DEF opened
<1>6. AreGroups(opened.file.groups) /\ names \in SUBSET Names /\ IsWorld(opened)
  <2>1. AreGroups(opened.file.groups) /\ IsWorld(opened)
    BY <1>5, WorldParts DEF Sound
  <2>. QED BY <2>1, GroupsAre DEF names
<1>7. /\ Grows(opened, logged) /\ Own(logged) = Own(opened)
      /\ Within(opened.file.groups, logged.file.groups)
  <2>1. CASE logs
    <3>1. AreGroups(Put(opened.file.groups, Log, NewGroup))
      BY <1>6, NewGroupIs, PutGroup DEF Names
    <3>2. logged = WithGroups(opened, Put(opened.file.groups, Log, NewGroup))
      BY <2>1 DEF logged
    <3>3. /\ IsWorld(logged) /\ logged.hdf5 = opened.hdf5 /\ logged.file.exists = opened.file.exists
          /\ logged.file.groups = Put(opened.file.groups, Log, NewGroup)
      BY <1>6, <3>1, <3>2, GroupsChanged
    <3>4. DOMAIN opened.file.groups \subseteq DOMAIN logged.file.groups
      BY <3>3 DEF Put
    <3>5. opened.hdf5.writable /\ Within(opened.file.groups, logged.file.groups)
      BY <2>1, <3>3, WithinPut DEF logs, names
    <3>. QED BY <3>3, <3>4, <3>5 DEF Grows, Own
  <2>2. CASE ~logs
    BY <1>6, <2>2, GrowsItself, WithinItself DEF logged
  <2>. QED BY <2>1, <2>2
<1>8. Sound(logged, Empty, held)
  BY <1>3, <1>5, <1>7 DEF Sound, Placed, Grows
<1>9. AllRight(logged, names, held)
  BY <1>6, <1>8, AllWorld
<1>10. /\ Sound(after.w, after.entries, held) /\ Grows(logged, after.w)
       /\ Within(logged.file.groups, after.w.file.groups)
  BY <1>9 DEF AllRight, after
<1>11. after.w.file.exists
  BY <1>5, <1>7, <1>10 DEF Grows
<1>12. NoReplacing(flag) => Within(file.groups, after.w.file.groups)
  BY <1>5, <1>7, <1>10, WithinTransitive
<1>13. \A x, y \in DOMAIN held : x = y
  BY <1>2 DEF FileInv
<1>14. Loose(after.w, after.entries, held)
  BY <1>10, SoundIsLoose
<1>15. IInv' /\ file' = after.w.file
  BY <1>1, <1>11, <1>13, <1>14, BecomesSound
<1>. QED BY <1>12, <1>15

-----------------------------------------------------------------------------
(* Results.                                                                     *)

LEMMA InitRight == Init => IInv
<1>. SUFFICES ASSUME Init PROVE IInv
  OBVIOUS
<1>1. /\ file = [exists |-> FALSE, nof |-> 0, groups |-> Empty]
      /\ hdf5 = [owners |-> [id \in Identifiers |-> 0], writable |-> FALSE, orphans |-> {}]
      /\ root = [state |-> "none", entries |-> Empty] /\ held = Empty /\ status = TRUE
  BY DEF Init, NoRoot
<1>2. AreObjects(Empty) /\ AreGroups(Empty) /\ DOMAIN Empty = {}
  BY NoObjects, EmptyMap
<1>3. /\ file \in [exists : BOOLEAN, nof : Nat, groups : {file.groups}] /\ file.groups = Empty
      /\ hdf5 \in [owners : [Identifiers -> Nat], writable : BOOLEAN, orphans : SUBSET Identifiers]
      /\ root \in [state : {"none", "open", "failed"}, entries : {root.entries}]
      /\ root.state = "none" /\ root.entries = Empty /\ ~hdf5.writable
      /\ \A i \in Identifiers : hdf5.owners[i] = 0
  BY <1>1
<1>4. TypeOK
  <2>1. IsWorld([file |-> file, hdf5 |-> hdf5])
    BY <1>2, <1>3, WorldOf
  <2>. QED BY <1>1, <1>2, <1>3, <2>1 DEF TypeOK, World
<1>5. NothingLeaks
  BY <1>3 DEF NothingLeaks
<1>6. Tidy(World, root.entries) /\ Tidy(World, held)
  BY <1>1, <1>2, <1>3 DEF Tidy
<1>7. FileInv
  BY <1>1, <1>2, <1>3 DEF FileInv
<1>. QED BY <1>4, <1>5, <1>6, <1>7 DEF IInv

\* The flags with which no group that is there is made once more, and the file is
\* truncated by "Create" only.
NothingReplaced == (\A flag \in Flags : NoReplacing(flag)) /\ "Truncate" \notin FileFlags

LEMMA NextRight ==
    ASSUME IInv, Next
    PROVE  IInv' /\ (NothingReplaced /\ ~OpenRoot("Create") => WithinBut(file.groups, file'.groups, Overwritten))
<1>1. CASE \E flag \in FileFlags : OpenRoot(flag)
  <2>1. PICK flag \in FileFlags : OpenRoot(flag)
    BY <1>1
  <2>2. IInv' /\ (NoReplacing(flag) => WithinBut(file.groups, file'.groups, Overwritten))
    BY <2>1, OpenRootRight, WithinMore
  <2>3. NothingReplaced /\ ~OpenRoot("Create") => NoReplacing(flag)
    BY <2>1 DEF NothingReplaced, NoReplacing
  <2>. QED BY <2>2, <2>3
<1>2. CASE \E flag \in FileFlags : OpenRootFails(flag)
  BY <1>2, OpenRootFailsRight, WithinItself, WithinMore
<1>3. CASE DestroyRoot
  BY <1>3, DestroyRootRight, WithinItself, WithinMore
<1>4. ASSUME NEW p \in Pointings, NEW flag \in Flags, OpenSubArrayPointing(p, flag)
      PROVE  IInv' /\ (NothingReplaced => WithinBut(file.groups, file'.groups, Overwritten))
  BY <1>4, OpenPointingRight, WithinMore DEF NothingReplaced
<1>5. ASSUME NEW p \in Pointings, NEW flag \in Flags, NEW b \in Beams, OpenBeam(p, b, flag)
      PROVE  IInv' /\ (NothingReplaced => WithinBut(file.groups, file'.groups, Overwritten))
  BY <1>5, OpenBeamRight, WithinMore DEF NothingReplaced
<1>6. ASSUME NEW p \in Pointings, NEW flag \in Flags, NEW b \in Beams, HeldOpenBeam(p, b, flag)
      PROVE  IInv' /\ (NothingReplaced => WithinBut(file.groups, file'.groups, Overwritten))
  BY <1>6, HeldOpenBeamRight, WithinMore DEF NothingReplaced
<1>7. ASSUME NEW p \in Pointings, NEW flag \in Flags, NEW b \in Beams, NEW n \in Stokes,
             OpenStokesDataset(p, b, n, flag)
      PROVE  IInv' /\ (NothingReplaced => WithinBut(file.groups, file'.groups, Overwritten))
  BY <1>7, OpenStokesDatasetRight, WithinMore DEF NothingReplaced
<1>8. ASSUME NEW p \in Pointings, NEW flag \in Flags, NEW b \in Beams, NEW n \in Stokes,
             CreateStokesDataset(p, b, n, flag)
      PROVE  IInv' /\ (NothingReplaced => WithinBut(file.groups, file'.groups, Overwritten))
  <2>1. CASE flag \in Overwriting
    <3>1. << p, b, n >> \in Overwritten
      <4>1. Replaces(p, b, n)
        BY <1>8, <2>1 DEF Replaces
      <4>2. << p, b, n >> \in Pointings \X Beams \X Stokes
            /\ << p, b, n >>[1] = p /\ << p, b, n >>[2] = b /\ << p, b, n >>[3] = n
        OBVIOUS
      <4>. QED BY <4>1, <4>2 DEF Overwritten
    <3>2. IInv' /\ (NothingReplaced => WithinBut(file.groups, file'.groups, {<< p, b, n >>}))
      BY <1>8, CreateStokesDatasetRight DEF NothingReplaced
    <3>. QED BY <3>1, <3>2, MoreReplaced
  <2>2. CASE flag \notin Overwriting
    BY <1>8, <2>2, CreateStokesDatasetRight, WithinMore DEF NothingReplaced
  <2>. QED BY <2>1, <2>2
<1>9. ASSUME NEW p \in Pointings, GetSubArrayPointing(p) \/ GetBeamGroup(p) \/ DestroyHeld(p)
      PROVE  IInv' /\ WithinBut(file.groups, file'.groups, Overwritten)
  <2>1. IInv' /\ file' = file
    BY <1>9, GetSubArrayPointingRight, GetBeamGroupRight, DestroyHeldRight
  <2>. QED BY <2>1, WithinItself, WithinMore
<1>10. ASSUME NEW p \in Pointings, NEW b \in Beams, NEW n \in Stokes, WriteData(p, b, n)
       PROVE  IInv' /\ WithinBut(file.groups, file'.groups, Overwritten)
  BY <1>10, WriteDataRight, WithinMore
<1>. QED BY <1>1, <1>2, <1>3, <1>4, <1>5, <1>6, <1>7, <1>8, <1>9, <1>10 DEF Next

LEMMA Stutters ==
    ASSUME IInv, UNCHANGED vars
    PROVE  IInv' /\ Within(file.groups, file'.groups)
<1>1. file' = file /\ hdf5' = hdf5 /\ root' = root /\ held' = held /\ status' = status
  BY DEF vars
<1>2. IInv' = IInv
  BY <1>1 DEF IInv, TypeOK, NothingLeaks, Tidy, FileInv, World, Alive
<1>. QED BY <1>1, <1>2, WithinItself

\* The invariant, for all numbers of pointings, beams and Stokes datasets, all
\* identifiers, however few, and all flags.
THEOREM RootInvariant == Spec => []IInv
<1>1. Init => IInv
  BY InitRight
<1>2. IInv /\ [Next]_vars => IInv'
  BY NextRight, Stutters
<1>. QED BY <1>1, <1>2, PTL DEF Spec

\* Whatever is shared and closed, an identifier that is open has an object that
\* will close it.
THEOREM NothingIsLost == Spec => []NothingLeaks
<1>1. IInv => NothingLeaks
  BY DEF IInv
<1>. QED BY <1>1, RootInvariant, PTL

\* The objects and the file have the types they are declared with.
THEOREM RootTypeCorrect == Spec => []TypeOK
<1>1. IInv => TypeOK
  BY DEF IInv
<1>. QED BY <1>1, RootInvariant, PTL

\* With flags that replace no group, no group or dataset is lost until the file is made
\* anew, and samples only of a dataset that is asked for with a flag that replaces it.
THEOREM WrittenStays ==
    ASSUME NothingReplaced
    PROVE  Spec => Kept
<1>1. IInv /\ [Next]_vars
        => [~OpenRoot("Create") => WithinBut(file.groups, file'.groups, Overwritten)]_vars
  BY NextRight, Stutters, WithinMore
<1>. QED BY <1>1, RootInvariant, PTL DEF Spec, Kept

=============================================================================
