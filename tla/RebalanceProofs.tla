--------------------------- MODULE RebalanceProofs ---------------------------
(***************************************************************************)
(* The queues of a topic are divided among the clients of a group, for any *)
(* number of clients, queues and changes of either; and no wakeup of the   *)
(* service threads that rebalance and pull is lost, for any number of      *)
(* pull requests and of calling threads.                                   *)
(***************************************************************************)
EXTENDS Rebalance, Services, FiniteSetTheorems, TLAPS

-----------------------------------------------------------------------------
(* The arithmetic of AllocateMessageQueueAveragely. *)

\* Quotient and remainder.
LEMMA DivMod ==
    ASSUME NEW n \in Nat, NEW k \in Nat \ {0}
    PROVE  \E d \in Nat, r \in 0 .. k - 1 :
              /\ d = n \div k /\ r = n % k /\ n = k * d + r
              /\ n >= k => d >= 1
<1>1. n - k * (n \div k) = n % k
  BY SMT
<1>2. PICK d \in Int : d = n \div k
  BY SMT
<1>3. PICK r \in 0 .. k - 1 : r = n % k
  BY SMT
<1>4. n = k * d + r
  <2>1. n - k * d = r
    BY <1>1, <1>2, <1>3
  <2>2. k * d \in Int
    BY <1>2
  <2> QED BY <2>1, <2>2
<1>5. d >= 0
  <2> SUFFICES ASSUME d <= -1 PROVE FALSE
    OBVIOUS
  <2>1. k * d <= k * (-1)
    OBVIOUS
  <2> QED BY <2>1, <1>4
<1>6. n >= k => d >= 1
  <2> SUFFICES ASSUME n >= k, d = 0 PROVE FALSE
    BY <1>5
  <2>1. k * d = 0
    OBVIOUS
  <2> QED BY <2>1, <1>4
<1>7. d \in Nat
  BY <1>5
<1> QED BY <1>2, <1>3, <1>4, <1>6, <1>7

\* The same without the operators that compute them.
LEMMA Quotient ==
    ASSUME NEW n \in Nat, NEW k \in Nat \ {0}
    PROVE  \E d \in Nat, r \in 0 .. k - 1 : n = k * d + r
<1>1. PICK d \in Nat, r \in 0 .. k - 1 : d = n \div k /\ r = n % k /\ n = k * d + r
  BY DivMod
<1>2. n = k * d + r
  BY <1>1
<1> QED BY ONLY <1>2, d \in Nat, r \in 0 .. k - 1

\* Where client number i's run begins and how long it is: d queues for everyone
\* and one more for the first r.
LEMMA RunsAre ==
    ASSUME NEW n \in Nat, NEW k \in Nat \ {0}, n > k
    PROVE  \E d \in Nat \ {0}, r \in 0 .. k - 1 :
              /\ n = k * d + r
              /\ \A i \in 0 .. k - 1 :
                    /\ i < r => AverageSize(n, k, i) = d + 1 /\ StartIndex(n, k, i) = i * d + i
                    /\ i >= r => AverageSize(n, k, i) = d /\ StartIndex(n, k, i) = i * d + r
<1>1. PICK d \in Nat, r \in 0 .. k - 1 :
         d = n \div k /\ r = n % k /\ n = k * d + r /\ (n >= k => d >= 1)
  BY DivMod
<1>2. ASSUME NEW i \in 0 .. k - 1
      PROVE  /\ i < r => AverageSize(n, k, i) = d + 1 /\ StartIndex(n, k, i) = i * d + i
             /\ i >= r => AverageSize(n, k, i) = d /\ StartIndex(n, k, i) = i * d + r
  <2>1. AverageSize(n, k, i) = d + IF i < r THEN 1 ELSE 0
    BY <1>1 DEF AverageSize
  <2>2. StartIndex(n, k, i) = i * AverageSize(n, k, i) + IF i < r THEN 0 ELSE r
    BY <1>1 DEF StartIndex
  <2>3. i * (d + 1) = i * d + i
    OBVIOUS
  <2>4. CASE i < r
    <3>1. AverageSize(n, k, i) = d + 1
      BY <2>1, <2>4
    <3> QED BY <3>1, <2>2, <2>3, <2>4
  <2>5. CASE i >= r
    <3>1. AverageSize(n, k, i) = d
      BY <2>1, <2>5
    <3> QED BY <3>1, <2>2, <2>5
  <2> QED BY <2>4, <2>5
<1>3. d \in Nat \ {0} /\ n = k * d + r
  BY <1>1
<1> QED BY <1>2, <1>3

\* With no more queues than clients the first n clients get one each.
LEMMA RunIsOne ==
    ASSUME NEW n \in Nat, NEW k \in Nat \ {0}, NEW i \in 0 .. k - 1, n <= k
    PROVE  Allocated(n, k, i) = {q \in 0 .. n - 1 : q = i}
<1>1. PICK d \in Nat, r \in 0 .. k - 1 :
         d = n \div k /\ r = n % k /\ n = k * d + r /\ (n >= k => d >= 1)
  BY DivMod
<1>2. AverageSize(n, k, i) = 1
  BY DEF AverageSize
<1>3. StartIndex(n, k, i) = i * 1 + IF i < r THEN 0 ELSE r
  BY <1>1, <1>2 DEF StartIndex
<1>4. StartIndex(n, k, i) = IF i < r THEN i ELSE i + r
  BY <1>3
<1>5. CASE n = k
  <2>1. k * d >= k * 1
    BY <1>1, <1>5
  <2>2. r = 0
    BY <2>1, <1>1, <1>5
  <2> QED BY <2>2, <1>2, <1>4 DEF Allocated
<1>6. CASE n < k
  <2>1. d = 0
    <3> SUFFICES ASSUME d >= 1 PROVE FALSE
      BY <1>1
    <3>1. k * d >= k * 1
      BY <1>1
    <3> QED BY <3>1, <1>1, <1>6
  <2>2. r = n
    BY <2>1, <1>1
  <2> QED BY <2>2, <1>2, <1>4 DEF Allocated
<1> QED BY <1>5, <1>6

\* A later client's run begins behind the end of an earlier one's.
LEMMA RunsOrdered ==
    ASSUME NEW n \in Nat, NEW k \in Nat \ {0}, NEW i \in 0 .. k - 1, NEW j \in 0 .. k - 1, i < j
    PROVE  Allocated(n, k, i) \cap Allocated(n, k, j) = {}
<1>1. CASE n <= k
  BY <1>1, RunIsOne
<1>2. CASE n > k
  <2> DEFINE End(x) == StartIndex(n, k, x) + AverageSize(n, k, x)
  <2>1. PICK d \in Nat \ {0}, r \in 0 .. k - 1 :
           /\ n = k * d + r
           /\ \A x \in 0 .. k - 1 :
                 /\ x < r => AverageSize(n, k, x) = d + 1 /\ StartIndex(n, k, x) = x * d + x
                 /\ x >= r => AverageSize(n, k, x) = d /\ StartIndex(n, k, x) = x * d + r
    BY <1>2, RunsAre
  <2>2. /\ i < r => AverageSize(n, k, i) = d + 1 /\ StartIndex(n, k, i) = i * d + i
        /\ i >= r => AverageSize(n, k, i) = d /\ StartIndex(n, k, i) = i * d + r
        /\ j < r => AverageSize(n, k, j) = d + 1 /\ StartIndex(n, k, j) = j * d + j
        /\ j >= r => AverageSize(n, k, j) = d /\ StartIndex(n, k, j) = j * d + r
    BY <2>1
  <2>3. (i + 1) * d <= j * d
    <3>1. PICK m \in Nat : j = i + 1 + m
      <4>1. j - i - 1 \in Nat /\ j = i + 1 + (j - i - 1)
        OBVIOUS
      <4> QED BY <4>1
    <3>2. j * d = (i + 1) * d + m * d
      BY <3>1
    <3>3. m * d >= 0
      BY <3>1, <2>1
    <3> QED BY <3>2, <3>3, <3>1, <2>1
  <2>4. (i + 1) * d = i * d + d /\ i * d \in Nat /\ j * d \in Nat
    BY <2>1
  <2>5. End(i) <= StartIndex(n, k, j)
    BY <2>1, <2>2, <2>3, <2>4
  <2>6. \A q : q \in Allocated(n, k, i) => q \in Int /\ q < End(i)
    BY DEF Allocated
  <2>7. \A q : q \in Allocated(n, k, j) => q \in Int /\ StartIndex(n, k, j) <= q
    BY DEF Allocated
  <2>8. End(i) \in Int /\ StartIndex(n, k, j) \in Int
    BY <2>1, <2>2, <2>4
  <2> HIDE DEF End
  <2> QED BY <2>5, <2>6, <2>7, <2>8
<1> QED BY <1>1, <1>2

\* The runs of k clients reach every queue.
LEMMA RunsCover ==
    ASSUME NEW n \in Nat, NEW k \in Nat \ {0}, NEW q \in 0 .. n - 1
    PROVE  \E i \in 0 .. k - 1 : q \in Allocated(n, k, i)
<1>1. CASE n <= k
  <2>1. q \in 0 .. k - 1
    BY <1>1
  <2> QED BY <2>1, <1>1, RunIsOne
<1>2. CASE n > k
  <2>1. PICK d \in Nat \ {0}, r \in 0 .. k - 1 :
           /\ n = k * d + r
           /\ \A x \in 0 .. k - 1 :
                 /\ x < r => AverageSize(n, k, x) = d + 1 /\ StartIndex(n, k, x) = x * d + x
                 /\ x >= r => AverageSize(n, k, x) = d /\ StartIndex(n, k, x) = x * d + r
    BY <1>2, RunsAre
  <2>2. n = k * d + r
    BY <2>1
  <2>3. r * (d + 1) \in Nat /\ r * (d + 1) = r * d + r /\ r * d \in Nat
    OBVIOUS
  <2>4. CASE q < r * (d + 1)
    <3>1. PICK i \in Nat, s \in 0 .. d : q = (d + 1) * i + s
      <4>1. PICK e \in Nat \ {0} : e = d + 1
        OBVIOUS
      <4>2. q \in Nat
        OBVIOUS
      <4>3. PICK i \in Nat, s \in 0 .. e - 1 : q = e * i + s
        BY <4>2, Quotient
      <4> QED BY <4>1, <4>3
    <3>2. i < r
      <4> SUFFICES ASSUME i >= r PROVE FALSE
        BY <3>1
      <4>1. PICK m \in Nat : i = r + m
        <5>1. i - r \in Nat /\ i = r + (i - r)
          BY <3>1
        <5> QED BY <5>1
      <4>2. (d + 1) * i = r * (d + 1) + m * (d + 1)
        BY <4>1
      <4>3. m * (d + 1) >= 0
        BY <4>1
      <4> QED BY <4>2, <4>3, <3>1, <2>3, <2>4, <2>1, <4>1
    <3>3. (d + 1) * i = i * d + i /\ i * d \in Nat
      BY <3>1
    <3>4. i \in 0 .. k - 1
      BY <3>1, <3>2, <2>1
    <3>5. AverageSize(n, k, i) = d + 1 /\ StartIndex(n, k, i) = i * d + i
      BY <2>1, <3>2, <3>4
    <3>6. q \in Allocated(n, k, i)
      BY <3>1, <3>3, <3>5 DEF Allocated
    <3> QED BY <3>4, <3>6
  <2>5. CASE q >= r * (d + 1)
    <3> DEFINE p == q - r * (d + 1)
    <3>0. p \in Nat
      BY <2>3, <2>5
    <3> HIDE DEF p
    <3>1. PICK i \in Nat, s \in 0 .. d - 1 : p = d * i + s
      BY <3>0, Quotient
    <3>2. q = r * d + r + p
      BY <2>3, <2>5, <3>0, <3>1 DEF p
    <3>3. d * i = i * d /\ i * d \in Nat /\ (r + i) * d = r * d + i * d
      BY <3>1
    <3>4. r + i < k
      <4> SUFFICES ASSUME r + i >= k PROVE FALSE
        BY <3>1
      <4>1. PICK m \in Nat : r + i = k + m
        <5>1. r + i - k \in Nat /\ r + i = k + (r + i - k)
          BY <3>1
        <5> QED BY <5>1
      <4>2. (r + i) * d = k * d + m * d
        BY <4>1
      <4>3. m * d >= 0 /\ m * d \in Int /\ k * d \in Int
        BY <4>1
      <4>4. q >= n
        BY <4>2, <4>3, <3>1, <3>2, <3>3, <2>2, <2>3
      <4> QED BY <4>4
    <3>5. r + i \in 0 .. k - 1 /\ r + i >= r
      BY <3>1, <3>4, <2>1
    <3>6. AverageSize(n, k, r + i) = d /\ StartIndex(n, k, r + i) = (r + i) * d + r
      BY <2>1, <3>5
    <3>7. q \in Allocated(n, k, r + i)
      BY <3>1, <3>2, <3>3, <3>6, <2>3 DEF Allocated
    <3> QED BY <3>5, <3>7
  <2> QED BY <2>3, <2>4, <2>5
<1> QED BY <1>1, <1>2

\* A run is as long as another, or one longer or shorter.
LEMMA RunsEven ==
    ASSUME NEW n \in Nat, NEW k \in Nat \ {0}
    PROVE  \E d \in Nat : \A i \in 0 .. k - 1 :
              Cardinality(Allocated(n, k, i)) = d \/ Cardinality(Allocated(n, k, i)) = d + 1
<1>1. CASE n <= k
  <2>1. ASSUME NEW i \in 0 .. k - 1
        PROVE  Cardinality(Allocated(n, k, i)) = 0 \/ Cardinality(Allocated(n, k, i)) = 0 + 1
    <3>1. Allocated(n, k, i) = {} \/ Allocated(n, k, i) = {i}
      BY <1>1, RunIsOne
    <3> QED BY <3>1, FS_EmptySet, FS_Singleton
  <2> QED BY <2>1
<1>2. CASE n > k
  <2>1. PICK d \in Nat \ {0}, r \in 0 .. k - 1 :
              /\ n = k * d + r
              /\ \A i \in 0 .. k - 1 :
                    /\ i < r => AverageSize(n, k, i) = d + 1 /\ StartIndex(n, k, i) = i * d + i
                    /\ i >= r => AverageSize(n, k, i) = d /\ StartIndex(n, k, i) = i * d + r
    BY <1>2, RunsAre
  <2>2. ASSUME NEW i \in 0 .. k - 1
        PROVE  Cardinality(Allocated(n, k, i)) = d \/ Cardinality(Allocated(n, k, i)) = d + 1
    <3>1. PICK s \in Nat : s = StartIndex(n, k, i)
      <4>1. i * d + i \in Nat /\ i * d + r \in Nat
        OBVIOUS
      <4> QED BY <2>1, <4>1
    <3>2. PICK a \in Nat : a = AverageSize(n, k, i) /\ (a = d \/ a = d + 1)
      BY <2>1
    <3>3. s + a <= n
      <4>1. (i + 1) * d <= k * d
        OBVIOUS
      <4>2. (i + 1) * d = i * d + d
        OBVIOUS
      <4>3. PICK x \in Nat, y \in Nat : x = i * d /\ y = k * d
        OBVIOUS
      <4>4. x + d <= y /\ n = y + r
        BY <2>1, <4>1, <4>2, <4>3
      <4>5. CASE i < r
        <5>1. s = x + i /\ a = d + 1
          BY <2>1, <3>1, <3>2, <4>3, <4>5
        <5> QED BY ONLY <5>1, <4>4, <4>5, i \in 0 .. k - 1, k \in Nat, d \in Nat, r \in 0 .. k - 1, x \in Nat, y \in Nat
      <4>6. CASE i >= r
        <5>1. s = x + r /\ a = d
          BY <2>1, <3>1, <3>2, <4>3, <4>6
        <5> QED BY ONLY <5>1, <4>4, k \in Nat, d \in Nat, r \in 0 .. k - 1, x \in Nat, y \in Nat
      <4> QED BY <4>5, <4>6
    <3>4. Allocated(n, k, i) = s .. s + a - 1
      <4>1. Allocated(n, k, i) = {q \in 0 .. n - 1 : s <= q /\ q < s + a}
        BY <3>1, <3>2 DEF Allocated
      <4> QED BY ONLY <3>3, <4>1, s \in Nat, a \in Nat, n \in Nat
    <3>5. Cardinality(s .. s + a - 1) = a
      <4>1. Cardinality(s .. s + a - 1) = IF s > s + a - 1 THEN 0 ELSE (s + a - 1) - s + 1
        BY FS_Interval
      <4> QED BY ONLY <4>1, s \in Nat, a \in Nat
    <3> QED BY <3>2, <3>4, <3>5
  <2>3. d \in Nat
    OBVIOUS
  <2> QED BY ONLY <2>2, <2>3
<1> QED BY <1>1, <1>2

-----------------------------------------------------------------------------
(* The place of a client among the members. *)

Place(c, cids) == Cardinality({d \in cids : d < c})

\* A list of k members gives them k different places, 0 to k - 1.
LEMMA PlaceBetween ==
    ASSUME NEW cids, cids \subseteq Nat, IsFiniteSet(cids), NEW c \in cids
    PROVE  /\ Cardinality(cids) \in Nat \ {0}
           /\ Place(c, cids) \in 0 .. Cardinality(cids) - 1
<1>1. {d \in cids : d < c} \in SUBSET cids /\ {d \in cids : d < c} # cids
  OBVIOUS
<1>2. /\ IsFiniteSet({d \in cids : d < c}) /\ Cardinality({d \in cids : d < c}) <= Cardinality(cids)
      /\ Cardinality({d \in cids : d < c}) # Cardinality(cids)
  BY <1>1, FS_Subset
<1>3. Cardinality(cids) \in Nat /\ Cardinality({d \in cids : d < c}) \in Nat
  BY <1>2, FS_CardinalityType
<1> QED BY <1>2, <1>3 DEF Place

\* A member with a smaller id comes earlier.
LEMMA PlaceMonotonic ==
    ASSUME NEW cids, cids \subseteq Nat, IsFiniteSet(cids), NEW c \in cids, NEW e \in cids, c < e
    PROVE  Place(c, cids) < Place(e, cids)
<1> DEFINE A == {d \in cids : d < c}
           B == {d \in cids : d < e}
<1>1. A \in SUBSET B /\ A # B /\ B \in SUBSET cids
  <2>1. \A d \in cids : d < c => d < e
    OBVIOUS
  <2>2. c \in B /\ c \notin A
    OBVIOUS
  <2> QED BY <2>1, <2>2
<1>2. IsFiniteSet(B)
  BY <1>1, FS_Subset
<1>3. Cardinality(A) <= Cardinality(B) /\ Cardinality(A) # Cardinality(B) /\ IsFiniteSet(A)
  BY <1>1, <1>2, FS_Subset
<1>4. Cardinality(A) \in Nat /\ Cardinality(B) \in Nat
  BY <1>2, <1>3, FS_CardinalityType
<1> QED BY <1>3, <1>4 DEF Place

\* Every place has its member.
LEMMA PlaceTaken ==
    ASSUME NEW cids, cids \subseteq Nat, IsFiniteSet(cids), NEW i \in 0 .. Cardinality(cids) - 1
    PROVE  \E c \in cids : Place(c, cids) = i
<1> DEFINE k == Cardinality(cids)
           f == [c \in cids |-> Place(c, cids)]
<1>1. k \in Nat
  BY FS_CardinalityType
<1>2. \A c \in cids : Place(c, cids) \in 0 .. k - 1
  BY PlaceBetween
<1>3. \A c, e \in cids : Place(c, cids) = Place(e, cids) => c = e
  <2> SUFFICES ASSUME NEW c \in cids, NEW e \in cids, c # e PROVE Place(c, cids) # Place(e, cids)
    OBVIOUS
  <2>1. Place(c, cids) \in Int /\ Place(e, cids) \in Int
    BY <1>2
  <2>2. c < e \/ e < c
    OBVIOUS
  <2>3. CASE c < e
    <3>1. Place(c, cids) < Place(e, cids)
      BY <2>3, PlaceMonotonic
    <3> QED BY <2>1, <3>1
  <2>4. CASE e < c
    <3>1. Place(e, cids) < Place(c, cids)
      BY <2>4, PlaceMonotonic
    <3> QED BY <2>1, <3>1
  <2> QED BY <2>2, <2>3, <2>4
<1>4. IsFiniteSet(0 .. k - 1) /\ Cardinality(0 .. k - 1) = k
  <2> HIDE DEF k
  <2>1. PICK m \in Int : m = k - 1
    BY <1>1
  <2>2. IsFiniteSet(0 .. m) /\ Cardinality(0 .. m) = IF 0 > m THEN 0 ELSE m - 0 + 1
    BY FS_Interval
  <2> QED BY <1>1, <2>1, <2>2
<1>5. f \in Injection(cids, 0 .. k - 1)
  BY <1>2, <1>3 DEF Injection, IsInjective
<1>6. f \in Surjection(cids, 0 .. k - 1)
  BY <1>4, <1>5, FS_Injection
<1> QED BY <1>6 DEF Surjection

\* Members that use the same list and number of queues take each queue once, and
\* no two queues more than another.
LEMMA AllocatePartitions ==
    ASSUME NEW cids, cids \subseteq Nat, IsFiniteSet(cids), cids # {}, NEW n \in Nat
    PROVE  /\ \A q : q \in 0 .. n - 1 <=> \E c \in cids : q \in Allocate(c, n, cids)
           /\ \A c, e \in cids : c # e => Allocate(c, n, cids) \cap Allocate(e, n, cids) = {}
           /\ \A c, e \in cids :
                 Cardinality(Allocate(c, n, cids)) <= Cardinality(Allocate(e, n, cids)) + 1
<1> DEFINE k == Cardinality(cids)
<1>1. k \in Nat \ {0} /\ \A c \in cids : Place(c, cids) \in 0 .. k - 1
  BY PlaceBetween
<1>2. \A c \in cids : Allocate(c, n, cids) = Allocated(n, k, Place(c, cids))
  BY DEF Allocate, Place
<1> HIDE DEF k
<1>3. ASSUME NEW c \in cids, NEW e \in cids, c < e
      PROVE  Allocate(c, n, cids) \cap Allocate(e, n, cids) = {}
  BY <1>1, <1>2, <1>3, PlaceMonotonic, RunsOrdered
<1>4. \A c, e \in cids : c # e => Allocate(c, n, cids) \cap Allocate(e, n, cids) = {}
  <2> SUFFICES ASSUME NEW c \in cids, NEW e \in cids, c # e
               PROVE  Allocate(c, n, cids) \cap Allocate(e, n, cids) = {}
    OBVIOUS
  <2>1. c < e \/ e < c
    OBVIOUS
  <2> QED BY <2>1, <1>3
<1>5. \A c \in cids : Allocate(c, n, cids) \subseteq 0 .. n - 1
  BY <1>2 DEF Allocated
<1>6. ASSUME NEW q \in 0 .. n - 1 PROVE \E c \in cids : q \in Allocate(c, n, cids)
  <2>1. PICK i \in 0 .. k - 1 : q \in Allocated(n, k, i)
    BY <1>1, RunsCover
  <2>2. PICK c \in cids : Place(c, cids) = i
    BY PlaceTaken DEF k
  <2> QED BY <2>1, <2>2, <1>2
<1>7. ASSUME NEW c \in cids, NEW e \in cids
      PROVE  Cardinality(Allocate(c, n, cids)) <= Cardinality(Allocate(e, n, cids)) + 1
  <2>1. PICK d \in Nat : \A i \in 0 .. k - 1 :
           Cardinality(Allocated(n, k, i)) = d \/ Cardinality(Allocated(n, k, i)) = d + 1
    BY <1>1, RunsEven
  <2> QED BY <2>1, <1>1, <1>2
<1> QED BY <1>4, <1>5, <1>6, <1>7

-----------------------------------------------------------------------------
(* The inductive invariant. *)

TypeOK ==
    /\ queues \in Nat /\ running \subseteq Clients /\ registered \subseteq Clients
    /\ routeTable \in [Clients -> Nat] /\ subscribeInfo \in [Clients -> Nat]
    /\ cidAll \in [Clients -> SUBSET Clients] /\ assigned \in [Clients -> SUBSET Nat]
    /\ settled \subseteq Clients /\ changes \in Nat

\* What c would take if its lists were the present ones.
Due(c) == IF Broadcasting THEN 0 .. queues - 1 ELSE Allocate(c, queues, registered)

\* A settled client has what is due to it, whoever has come and gone since.
SettledOK == \A c \in settled : assigned[c] = Due(c)

IInv == TypeOK /\ SettledOK

\* Nobody has started.
LEMMA InitIInv == Init => IInv
BY RebalanceAssumption DEF Init, IInv, TypeOK, SettledOK, None

\* A run is part of the queues.
LEMMA AllocateType ==
    ASSUME NEW c, NEW n \in Nat, NEW cids
    PROVE  Allocate(c, n, cids) \subseteq Nat
BY DEF Allocate, Allocated

\* Members, routes and rebalances keep the types.
LEMMA NextTypeOK == TypeOK /\ [Next]_vars => TypeOK'
<1> SUFFICES ASSUME TypeOK, [Next]_vars PROVE TypeOK'
  OBVIOUS
<1> USE RebalanceAssumption DEF TypeOK
<1>1. CASE TopicGrows
  BY <1>1 DEF TopicGrows, Changed, group, tables
<1>2. ASSUME NEW c \in Clients, Start(c) PROVE TypeOK'
  BY <1>2 DEF Start, Changed, tables
<1>3. ASSUME NEW c \in Clients, Crash(c) PROVE TypeOK'
  BY <1>3 DEF Crash, Changed, None
<1>4. ASSUME NEW c \in Clients, SendHeartbeat(c) PROVE TypeOK'
  BY <1>4 DEF SendHeartbeat, tables
<1>5. ASSUME NEW c \in Clients, BrokerExpires(c) PROVE TypeOK'
  BY <1>5 DEF BrokerExpires, Changed, tables
<1>6. ASSUME NEW c \in Clients, UpdateTopicRouteInfo(c) PROVE TypeOK'
  BY <1>6 DEF UpdateTopicRouteInfo, UpdateTopicSubscribeInfo, group
<1>7. ASSUME NEW c \in Clients, FindConsumerIdList(c) PROVE TypeOK'
  BY <1>7 DEF FindConsumerIdList, GetConsumerIdListByGroup, group, tables
<1>8. ASSUME NEW c \in Clients, NEW S \in SUBSET NewQueues(c), UpdateProcessQueueTable(c, S)
      PROVE  TypeOK'
  <2>1. AllocateResult(c) \subseteq Nat
    <3>1. Allocate(c, subscribeInfo[c], cidAll[c]) \subseteq Nat
      BY AllocateType
    <3>2. 0 .. subscribeInfo[c] - 1 \subseteq Nat
      OBVIOUS
    <3> QED BY <3>1, <3>2 DEF AllocateResult
  <2>2. Keeps(c) \cup S \subseteq Nat
    BY <2>1 DEF Keeps, NewQueues
  <2> QED BY <1>8, <2>2 DEF UpdateProcessQueueTable, group, tables
<1>9. CASE UNCHANGED vars
  BY <1>9 DEF vars, group, tables
<1> QED BY <1>1, <1>2, <1>3, <1>4, <1>5, <1>6, <1>7, <1>8, <1>9 DEF Next

\* A client becomes settled with what is due to it; whatever changes what is due
\* unsettles everyone.
LEMMA NextSettledOK == IInv /\ [Next]_vars => SettledOK'
<1> SUFFICES ASSUME TypeOK, SettledOK, [Next]_vars PROVE SettledOK'
  BY DEF IInv
<1> USE DEF SettledOK
<1>1. CASE TopicGrows
  BY <1>1 DEF TopicGrows
<1>2. ASSUME NEW c \in Clients, Start(c) PROVE SettledOK'
  BY <1>2 DEF Start, Due
<1>3. ASSUME NEW c \in Clients, Crash(c) PROVE SettledOK'
  BY <1>3 DEF Crash, Due, TypeOK
<1>4. ASSUME NEW c \in Clients, SendHeartbeat(c) PROVE SettledOK'
  BY <1>4 DEF SendHeartbeat
<1>5. ASSUME NEW c \in Clients, BrokerExpires(c) PROVE SettledOK'
  BY <1>5 DEF BrokerExpires
<1>6. ASSUME NEW c \in Clients, UpdateTopicRouteInfo(c) PROVE SettledOK'
  BY <1>6 DEF UpdateTopicRouteInfo, Due, group
<1>7. ASSUME NEW c \in Clients, FindConsumerIdList(c) PROVE SettledOK'
  BY <1>7 DEF FindConsumerIdList, Due, group
<1>8. ASSUME NEW c \in Clients, NEW S \in SUBSET NewQueues(c), UpdateProcessQueueTable(c, S)
      PROVE  SettledOK'
  <2> DEFINE Complete == /\ S = NewQueues(c)
                         /\ Broadcasting \/ cidAll[c] = registered
                         /\ subscribeInfo[c] = queues
  <2>1. /\ assigned' = [assigned EXCEPT ![c] = Keeps(c) \cup S]
        /\ UNCHANGED <<queues, registered>>
    BY <1>8 DEF UpdateProcessQueueTable, group
  <2>2. \A e : Due(e)' = Due(e)
    BY <2>1 DEF Due
  <2>3. \A e \in settled \ {c} : assigned'[e] = Due(e)'
    BY <2>1, <2>2 DEF TypeOK
  <2>4. CASE Complete
    <3>1. AllocateResult(c) = Due(c)
      BY <2>4 DEF AllocateResult, Due
    <3>2. assigned'[c] = AllocateResult(c)
      BY <2>1, <2>4 DEF TypeOK, Keeps, NewQueues
    <3>3. settled' = settled \cup {c}
      BY <1>8, <2>4 DEF UpdateProcessQueueTable
    <3> QED BY <3>1, <3>2, <3>3, <2>2, <2>3
  <2>5. CASE ~Complete
    <3>1. settled' = settled \ {c}
      BY <1>8, <2>5 DEF UpdateProcessQueueTable
    <3> QED BY <3>1, <2>3
  <2> QED BY <2>4, <2>5
<1>9. CASE UNCHANGED vars
  BY <1>9 DEF vars, group, Due
<1> QED BY <1>1, <1>2, <1>3, <1>4, <1>5, <1>6, <1>7, <1>8, <1>9 DEF Next

\* Members that all have what is due divide the queues, or have all of them each.
LEMMA IInvImplies == IInv => SettledBalanced
<1> SUFFICES ASSUME IInv, running = registered, running # {}, running \subseteq settled
             PROVE  Balanced
  BY DEF SettledBalanced
<1>1. \A c \in running : assigned[c] = Due(c)
  BY DEF IInv, SettledOK
<1>2. CASE Broadcasting
  BY <1>1, <1>2 DEF Balanced, Due
<1>3. CASE ~Broadcasting
  <2>1. \A c \in running : assigned[c] = Allocate(c, queues, running)
    BY <1>1, <1>3 DEF Due
  <2>2. running \subseteq Nat /\ IsFiniteSet(running) /\ queues \in Nat
    BY RebalanceAssumption, FS_Subset DEF IInv, TypeOK
  <2>3. \A q : q \in 0 .. queues - 1 <=> \E c \in running : q \in Allocate(c, queues, running)
    BY <2>2, AllocatePartitions
  <2>4. \A c, e \in running :
           c # e => Allocate(c, queues, running) \cap Allocate(e, queues, running) = {}
    BY <2>2, AllocatePartitions
  <2>5. UNION {assigned[c] : c \in running} = 0 .. queues - 1
    BY <2>1, <2>3
  <2>6. ASSUME NEW c \in running, NEW e \in running
        PROVE  Cardinality(assigned[c]) <= Cardinality(assigned[e]) + 1
    <3>1. Cardinality(Allocate(c, queues, running)) <= Cardinality(Allocate(e, queues, running)) + 1
      BY <2>2, AllocatePartitions
    <3>2. assigned[c] = Allocate(c, queues, running) /\ assigned[e] = Allocate(e, queues, running)
      BY <2>1
    <3> QED BY <3>1, <3>2
  <2> QED BY <1>3, <2>1, <2>4, <2>5, <2>6 DEF Balanced, Shared
<1> QED BY <1>2, <1>3

\* Clients that rebalanced completely with the same members and queues divide
\* the queues among them, evenly: AllocateMessageQueueAveragely needs no coordinator, for
\* any number of clients and queues, whatever each had before.
THEOREM RebalanceSettledBalanced == Spec => []SettledBalanced
<1>1. IInv /\ [Next]_vars => IInv'
  BY NextTypeOK, NextSettledOK DEF IInv
<1> QED BY InitIInv, <1>1, IInvImplies, PTL DEF Spec

-----------------------------------------------------------------------------
(* The service threads. *)

ServiceInv == ServiceTypeOK /\ WakeupInv

\* The state the constructor of ServiceThread leaves satisfies the invariant.
LEMMA ServiceInitInv == ServiceInit => ServiceInv
<1> SUFFICES ASSUME ServiceInit PROVE ServiceInv
  OBVIOUS
<1>1. ServiceTypeOK
  <2>1. queue \in Seq(Requests) /\ callers \in 0 .. MaxCallers
    BY ServicesAssumption DEF ServiceInit
  <2>2. /\ notified \in [Threads -> BOOLEAN] /\ stoped \in [Threads -> BOOLEAN]
        /\ stopping \in [Threads -> BOOLEAN] /\ asked \in BOOLEAN
    BY DEF ServiceInit
  <2>3. QED BY <2>1, <2>2 DEF ServiceInit, ServiceTypeOK
<1>2. WakeupInv
  BY DEF ServiceInit, WakeupInv, Threads
<1>3. QED BY <1>1, <1>2 DEF ServiceInv

\* Every step of a service thread, of ServiceThread::stop and of the callers of
\* wakeup preserves the types.
LEMMA ServiceNextTypeOK == ServiceTypeOK /\ [ServiceNext]_serviceVars => ServiceTypeOK'
<1> SUFFICES ASSUME ServiceTypeOK, [ServiceNext]_serviceVars PROVE ServiceTypeOK'
  OBVIOUS
<1> USE ServicesAssumption DEF ServiceTypeOK, Threads
<1>1. ASSUME NEW t \in Threads, ThreadStep(t) PROVE ServiceTypeOK'
  <2>1. CASE WaitForRunning(t)  BY <2>1, <1>1 DEF WaitForRunning, Goto
  <2>2. CASE WaitReturns(t)     BY <2>2, <1>1 DEF WaitReturns, Goto
  <2>3. CASE LoopHead(t)
    <3>1. pc'[t] \in {"ended", "woken", "wait"}
      BY <2>3, <1>1 DEF LoopHead, Goto
    <3>2. QED BY <3>1, <2>3, <1>1 DEF LoopHead, Goto
  <2>4. QED BY <1>1, <2>1, <2>2, <2>3 DEF ThreadStep
<1>2. CASE TakeRequest
  <2>1. CASE queue = <<>>  BY <1>2, <2>1 DEF TakeRequest, Goto
  <2>2. CASE queue # <<>>
    <3>1. Head(queue) \in Requests /\ Tail(queue) \in Seq(Requests)
      BY <2>2
    <3>2. QED BY <1>2, <2>2, <3>1 DEF TakeRequest, Goto
  <2>3. QED BY <2>1, <2>2
<1>3. ASSUME NEW r \in Requests, PullMessage(r) PROVE ServiceTypeOK'
  BY <1>3 DEF PullMessage, Goto
<1>4. CASE DoRebalance            BY <1>4 DEF DoRebalance, Goto
<1>5. CASE DispatchWakes          BY <1>5 DEF DispatchWakes
<1>6. CASE RebalanceEnds          BY <1>6 DEF RebalanceEnds, Goto
<1>7. CASE WakePullThread         BY <1>7 DEF WakePullThread, Wakeup
<1>8. CASE RebalanceImmediately   BY <1>8 DEF RebalanceImmediately, Wakeup
<1>9. ASSUME NEW t \in Threads, Stop(t) \/ StopWakes(t) \/ WaitTimesOut(t) PROVE ServiceTypeOK'
  <2>1. CASE Stop(t)          BY <2>1, <1>9 DEF Stop
  <2>2. CASE StopWakes(t)     BY <2>2, <1>9 DEF StopWakes, Wakeup
  <2>3. CASE WaitTimesOut(t)  BY <2>3, <1>9 DEF WaitTimesOut, Goto
  <2>4. QED BY <1>9, <2>1, <2>2, <2>3
<1>10. ASSUME NEW r \in Requests, QueueRequest(r) \/ ExecutePullRequestLater(r) PROVE ServiceTypeOK'
  <2>1. CASE QueueRequest(r)
    <3>1. queue' \in Seq(Requests) /\ callers' \in 0 .. MaxCallers
      BY <2>1, <1>10 DEF QueueRequest
    <3>2. QED BY <3>1, <2>1, <1>10 DEF QueueRequest, threadVars
  <2>2. CASE ExecutePullRequestLater(r)
    BY <2>2, <1>10 DEF ExecutePullRequestLater, threadVars
  <2>3. QED BY <1>10, <2>1, <2>2
<1>11. ASSUME NEW r \in Requests, DispatchPullRequest(r) PROVE ServiceTypeOK'
  BY <1>11 DEF DispatchPullRequest, Goto
<1>12. CASE UNCHANGED serviceVars        BY <1>12 DEF serviceVars, threadVars
<1>13. QED
  BY <1>1, <1>2, <1>3, <1>4, <1>5, <1>6, <1>7, <1>8, <1>9, <1>10, <1>11, <1>12
  DEF ServiceNext, PullStep, RebalanceStep

\* Every such step also keeps the flag between a thread's last look and its wait.
LEMMA ServiceNextWakeupInv == ServiceInv /\ [ServiceNext]_serviceVars => WakeupInv'
<1> SUFFICES ASSUME ServiceInv, [ServiceNext]_serviceVars PROVE WakeupInv'
  OBVIOUS
<1> USE DEF ServiceInv, ServiceTypeOK, WakeupInv, Threads
<1>1. ASSUME NEW t \in Threads, ThreadStep(t) PROVE WakeupInv'
  <2>1. CASE WaitForRunning(t)  BY <2>1, <1>1 DEF WaitForRunning, Goto
  <2>2. CASE WaitReturns(t)     BY <2>2, <1>1 DEF WaitReturns, Goto
  <2>3. CASE LoopHead(t)
    <3>1. CASE stoped[t]
      BY <3>1, <2>3, <1>1 DEF LoopHead, Goto
    <3>2. CASE ~stoped[t] /\ t = "pull"
      BY <3>2, <2>3 DEF LoopHead, Goto
    <3>3. CASE ~stoped[t] /\ t = "rebalance"
      BY <3>3, <2>3 DEF LoopHead, Goto
    <3>4. QED BY <3>1, <3>2, <3>3
  <2>4. QED BY <1>1, <2>1, <2>2, <2>3 DEF ThreadStep
<1>2. CASE TakeRequest            BY <1>2 DEF TakeRequest, Goto
<1>3. ASSUME NEW r \in Requests, PullMessage(r) PROVE WakeupInv'
  BY <1>3 DEF PullMessage, Goto
<1>4. CASE DoRebalance            BY <1>4 DEF DoRebalance, Goto
<1>5. CASE DispatchWakes          BY <1>5 DEF DispatchWakes
<1>6. CASE RebalanceEnds          BY <1>6 DEF RebalanceEnds, Goto
<1>7. CASE WakePullThread         BY <1>7 DEF WakePullThread, Wakeup
<1>8. CASE RebalanceImmediately   BY <1>8 DEF RebalanceImmediately, Wakeup
<1>9. ASSUME NEW t \in Threads, Stop(t) PROVE WakeupInv'
  BY <1>9 DEF Stop
<1>10. ASSUME NEW t \in Threads, StopWakes(t) PROVE WakeupInv'
  BY <1>10 DEF StopWakes, Wakeup
<1>11. ASSUME NEW t \in Threads, WaitTimesOut(t) PROVE WakeupInv'
  BY <1>11 DEF WaitTimesOut, Goto
<1>12. ASSUME NEW r \in Requests, QueueRequest(r) PROVE WakeupInv'
  BY <1>12, ServicesAssumption DEF QueueRequest, threadVars
<1>13. ASSUME NEW r \in Requests, ExecutePullRequestLater(r) PROVE WakeupInv'
  BY <1>13 DEF ExecutePullRequestLater, threadVars
<1>14. ASSUME NEW r \in Requests, DispatchPullRequest(r) PROVE WakeupInv'
  BY <1>14 DEF DispatchPullRequest, Goto
<1>15. CASE UNCHANGED serviceVars        BY <1>15 DEF serviceVars, threadVars
<1>16. QED
  BY <1>1, <1>2, <1>3, <1>4, <1>5, <1>6, <1>7, <1>8, <1>9, <1>10, <1>11, <1>12, <1>13, <1>14,
     <1>15
  DEF ServiceNext, PullStep, RebalanceStep

\* ServiceThread::wakeup and waitForRunning lose no wakeup: neither service
\* sleeps on a queued request, an asked rebalance or a stop.
THEOREM NoLostWakeupHolds == ServiceSpec => []NoLostWakeup
<1>1. ServiceInit => ServiceInv
  BY ServiceInitInv
<1>2. ServiceInv /\ [ServiceNext]_serviceVars => ServiceInv'
  BY ServiceNextTypeOK, ServiceNextWakeupInv DEF ServiceInv
<1>3. ServiceInv => NoLostWakeup
  BY DEF ServiceInv, ServiceTypeOK, WakeupInv, NoLostWakeup, Threads
<1>4. QED
  BY <1>1, <1>2, <1>3, PTL DEF ServiceSpec
=============================================================================
