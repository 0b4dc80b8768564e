--------------------- MODULE LatestValueQueueOps_proofs ----------------------
(* What a push that drops old values does to a bounded sequence, and what  *)
(* the erasing of elements does.                                           *)
EXTENDS LatestValueQueueOps, SequenceTheorems, FiniteSetTheorems, TLAPS

(* Shedding leaves room for one value and keeps a suffix of the queue.     *)
LEMMA ShedFacts ==
  ASSUME NEW S, NEW q \in Seq(S), NEW capacity \in Nat, capacity >= 1, Len(q) <= capacity
  PROVE  /\ Shed(q, capacity) \in Seq(S)
         /\ Len(Shed(q, capacity)) < capacity
         /\ Len(q) = capacity => Len(Shed(q, capacity)) = capacity - 1
         /\ \E k \in Nat : /\ Len(Shed(q, capacity)) + k = Len(q)
                           /\ \A i \in 1..Len(Shed(q, capacity)) : Shed(q, capacity)[i] = q[i + k]
<1>1. CASE Len(q) < capacity
  <2>1. Shed(q, capacity) = q
    BY <1>1 DEF Shed
  <2>2. \E k \in Nat : Len(q) + k = Len(q) /\ \A i \in 1..Len(q) : q[i] = q[i + k]
    <3>1. Len(q) + 0 = Len(q) /\ \A i \in 1..Len(q) : q[i] = q[i + 0]
      OBVIOUS
    <3>2. QED
      BY <3>1
  <2>3. QED
    BY <1>1, <2>1, <2>2
<1>2. CASE Len(q) = capacity
  <2> DEFINE s == SubSeq(q, 2, Len(q))
  <2>1. Shed(q, capacity) = s
    BY <1>2 DEF Shed
  <2>2. \A i \in 2..Len(q) : q[i] \in S
    OBVIOUS
  <2>3. /\ s \in Seq(S)
        /\ Len(s) = IF 2 <= Len(q) THEN Len(q) - 2 + 1 ELSE 0
        /\ \A i \in 1..(Len(q) - 2 + 1) : s[i] = q[2 + i - 1]
    <3> HIDE DEF s
    <3>1. 2 \in Int /\ Len(q) \in Int
      OBVIOUS
    <3>2. QED
      BY <2>2, <3>1, SubSeqProperties DEF s
  <2> HIDE DEF s
  <2>4. Len(s) + 1 = Len(q) /\ \A i \in 1..Len(s) : s[i] = q[i + 1]
    BY <1>2, <2>3
  <2>5. QED
    BY <1>2, <2>1, <2>3, <2>4
<1>3. QED
  BY <1>1, <1>2

(* What a push writes: r is a suffix of the queue q and, last, the value v. *)
PushedOnto(r, q, v, S, capacity) ==
  /\ r \in Seq(S)
  /\ Len(r) \in 1..capacity
  /\ Len(r) <= Len(q) + 1
  /\ r[Len(r)] = v
  /\ \A i \in 1..(Len(r) - 1) :
       /\ i + (Len(q) + 1 - Len(r)) \in 1..Len(q)
       /\ r[i] = q[i + (Len(q) + 1 - Len(r))]
  /\ Len(q) < capacity => Len(r) = Len(q) + 1
  /\ Len(q) = capacity => Len(r) = capacity

(* A push that drops the oldest writes just that.                          *)
LEMMA PushFacts ==
  ASSUME NEW S, NEW q \in Seq(S), NEW capacity \in Nat, capacity >= 1, Len(q) <= capacity,
         NEW v \in S
  PROVE  PushedOnto(PushLatest(q, v, capacity), q, v, S, capacity)
<1> DEFINE s == Shed(q, capacity)
           r == Append(s, v)
<1>1. /\ s \in Seq(S)
      /\ Len(s) < capacity
      /\ Len(q) = capacity => Len(s) = capacity - 1
      /\ \E k \in Nat : /\ Len(s) + k = Len(q)
                        /\ \A i \in 1..Len(s) : s[i] = q[i + k]
  BY ShedFacts
<1>2. Len(q) < capacity => s = q
  BY DEF Shed
<1> HIDE DEF s
<1>3. /\ r \in Seq(S)
      /\ Len(r) = Len(s) + 1
      /\ \A i \in 1..Len(s) : r[i] = s[i]
      /\ r[Len(s) + 1] = v
  BY <1>1, AppendProperties
<1> HIDE DEF r
<1>4. PICK k \in Nat : /\ Len(s) + k = Len(q)
                       /\ \A i \in 1..Len(s) : s[i] = q[i + k]
  BY <1>1
<1>5. k = Len(q) + 1 - Len(r) /\ Len(s) \in Nat /\ Len(q) \in Nat
  <2>1. Len(s) \in Nat /\ Len(q) \in Nat
    BY <1>1
  <2>2. QED
    BY <1>3, <1>4, <2>1
<1>6. \A i \in 1..(Len(r) - 1) :
         /\ i + (Len(q) + 1 - Len(r)) \in 1..Len(q)
         /\ r[i] = q[i + (Len(q) + 1 - Len(r))]
  BY <1>3, <1>4, <1>5
<1>7. QED
  BY <1>1, <1>2, <1>3, <1>5, <1>6 DEF r, s, PushLatest, PushedOnto
-----------------------------------------------------------------------------
(* A set of natural numbers has a least element: finite sets of them are  *)
(* well-founded by inclusion.                                              *)
LEMMA LeastNumber ==
  ASSUME NEW T, T \subseteq Nat, T # {}
  PROVE  \E x \in T : \A y \in T : x <= y
<1>1. PICK n \in T : TRUE
  OBVIOUS
<1> DEFINE Below == {0..x : x \in {y \in T : y <= n}}
<1>0. FiniteSubsetsOf(0..n) = SUBSET (0..n)
  <2>1. IsFiniteSet(0..n)
    BY <1>1, FS_Interval
  <2>2. QED
    BY <2>1, FS_FiniteSubsetsOfFinite
<1>2. IsWellFoundedOn(StrictSubsetOrdering(0..n), SUBSET (0..n))
  BY FS_StrictSubsetOrderingWellFounded, <1>0
<1>3. Below \subseteq SUBSET (0..n) /\ Below # {}
  BY <1>1
<1>4. PICK b \in Below : \A c \in Below : ~(<<c, b>> \in StrictSubsetOrdering(0..n))
  BY <1>2, <1>3, WFMin
<1>5. PICK x \in T : x <= n /\ b = 0..x
  OBVIOUS
<1>6. ASSUME NEW y \in T, y < x PROVE FALSE
  <2>1. 0..y \in Below /\ 0..y \subseteq 0..x /\ x \notin 0..y /\ x \in 0..x
    BY <1>1, <1>5, <1>6
  <2>2. 0..y \in SUBSET (0..n) /\ 0..x \in SUBSET (0..n) /\ 0..y # 0..x
    BY <1>1, <1>5, <1>6, <2>1
  <2> QED
    BY <1>4, <1>5, <2>1, <2>2 DEF StrictSubsetOrdering
<1> QED
  BY <1>5, <1>6

(* Induction, over a set of numbers rather than over a formula.            *)
LEMMA InductionOnSet ==
  ASSUME NEW T, 0 \in T, \A n \in Nat : n \in T => n + 1 \in T
  PROVE  Nat \subseteq T
<1>1. SUFFICES ASSUME Nat \ T # {} PROVE FALSE
  OBVIOUS
<1>2. PICK x \in Nat \ T : \A y \in Nat \ T : x <= y
  <2>1. Nat \ T \subseteq Nat
    OBVIOUS
  <2>2. QED
    BY <1>1, <2>1, LeastNumber
<1>3. x # 0 /\ x - 1 \in Nat
  BY <1>2
<1>4. x - 1 \in T
  BY <1>2, <1>3
<1>5. (x - 1) + 1 = x
  BY <1>2
<1>6. QED
  BY <1>2, <1>3, <1>4, <1>5

(* The function that Kept defines by recursion, on the first n positions.  *)
Part(f, n, q, positions) ==
  f = [i \in 0..n |-> IF i = 0 THEN <<>>
                      ELSE IF i \in positions THEN Append(f[i - 1], q[i]) ELSE f[i - 1]]

(* Such a function exists.                                                 *)
LEMMA PartExists ==
  ASSUME NEW q, NEW positions
  PROVE  \A n \in Nat : \E f : Part(f, n, q, positions)
<1> DEFINE T == {n \in Nat : \E f : Part(f, n, q, positions)}
<1>1. 0 \in T
  <2> DEFINE f == [i \in 0..0 |-> <<>>]
  <2>1. Part(f, 0, q, positions)
    BY DEF Part
  <2>2. QED
    BY <2>1
<1>2. ASSUME NEW n \in Nat, n \in T PROVE n + 1 \in T
  <2>1. PICK f : Part(f, n, q, positions)
    BY <1>2
  <2> DEFINE g == [i \in 0..(n + 1) |->
                     IF i <= n THEN f[i]
                     ELSE IF i \in positions THEN Append(f[n], q[i]) ELSE f[n]]
  <2>2. ASSUME NEW i \in 0..(n + 1)
        PROVE  g[i] = IF i = 0 THEN <<>>
                      ELSE IF i \in positions THEN Append(g[i - 1], q[i]) ELSE g[i - 1]
    <3>1. CASE i = 0
      BY <2>1, <3>1 DEF Part
    <3>2. CASE i \in 1..n
      <4>1. i \in 0..n /\ i - 1 \in 0..n /\ i # 0
        BY <3>2
      <4>2. f[i] = IF i \in positions THEN Append(f[i - 1], q[i]) ELSE f[i - 1]
        BY <2>1, <4>1 DEF Part
      <4>3. g[i] = f[i] /\ g[i - 1] = f[i - 1]
        BY <4>1
      <4>4. QED
        BY <4>1, <4>2, <4>3
    <3>3. CASE i = n + 1
      <4>1. i # 0 /\ ~(i <= n) /\ i - 1 = n /\ n \in 0..(n + 1)
        BY <3>3
      <4>2. g[i - 1] = f[n]
        BY <4>1
      <4>3. QED
        BY <4>1, <4>2
    <3>4. QED
      BY <3>1, <3>2, <3>3
  <2>3. Part(g, n + 1, q, positions)
    <3> HIDE DEF g
    <3>1. g = [i \in 0..(n + 1) |-> g[i]]
      BY DEF g
    <3>2. QED
      BY <2>2, <3>1 DEF Part
  <2>4. QED
    BY <2>3
<1>3. Nat \subseteq T
  <2> HIDE DEF T
  <2>1. QED
    BY <1>1, <1>2, InductionOnSet
<1>4. QED
  BY <1>3

(* Induction along Kept: a set for each number of positions looked at, the *)
(* empty sequence in the first, and no step leads out of them.             *)
LEMMA InductionOnKept ==
  ASSUME NEW q, Len(q) \in Nat, NEW positions, NEW I,
         <<>> \in I[0],
         \A n \in Nat : n + 1 <= Len(q) =>
           \A r \in I[n] : IF n + 1 \in positions THEN Append(r, q[n + 1]) \in I[n + 1]
                           ELSE r \in I[n + 1]
  PROVE  Kept(q, positions) \in I[Len(q)]
<1> DEFINE f == CHOOSE part : Part(part, Len(q), q, positions)
           T == {n \in Nat : n <= Len(q) => f[n] \in I[n]}
<1>1. Part(f, Len(q), q, positions)
  <2>1. \E part : Part(part, Len(q), q, positions)
    BY PartExists
  <2>2. QED
    BY <2>1
<1>2. Kept(q, positions) = f[Len(q)]
  BY DEF Kept, Part
<1> HIDE DEF f
<1>3. 0 \in T
  <2>1. f[0] = <<>>
    BY <1>1 DEF Part
  <2>2. QED
    BY <2>1
<1>4. ASSUME NEW n \in Nat, n \in T PROVE n + 1 \in T
  <2>1. SUFFICES ASSUME n + 1 <= Len(q) PROVE f[n + 1] \in I[n + 1]
    OBVIOUS
  <2>2. f[n] \in I[n]
    BY <1>4, <2>1
  <2>3. f[n + 1] = IF n + 1 \in positions THEN Append(f[n], q[n + 1]) ELSE f[n]
    <3>1. n + 1 \in 0..Len(q) /\ n + 1 # 0 /\ (n + 1) - 1 = n
      BY <2>1
    <3>2. QED
      BY <1>1, <3>1 DEF Part
  <2>4. QED
    BY <2>1, <2>2, <2>3
<1>5. Nat \subseteq T
  <2> HIDE DEF T
  <2>1. QED
    BY <1>3, <1>4, InductionOnSet
<1>6. QED
  BY <1>2, <1>5

(* What is kept comes from a kept position of the queue, not from one      *)
(* further in front.                                                       *)
LEMMA KeptFacts ==
  ASSUME NEW S, NEW q \in Seq(S), NEW positions
  PROVE  /\ Kept(q, positions) \in Seq(S)
         /\ Len(Kept(q, positions)) <= Len(q)
         /\ \A i \in 1..Len(Kept(q, positions)) :
              \E j \in i..Len(q) : j \in positions /\ Kept(q, positions)[i] = q[j]
<1> DEFINE Holds(r, n) == /\ Len(r) <= n
                          /\ \A i \in 1..Len(r) :
                               \E j \in i..n : j \in positions /\ r[i] = q[j]
           I == [n \in Nat |-> {r \in Seq(S) : Holds(r, n)}]
<1>1. Len(q) \in Nat
  OBVIOUS
<1>2. <<>> \in I[0]
  OBVIOUS
<1>3. ASSUME NEW n \in Nat, n + 1 <= Len(q), NEW r \in I[n]
      PROVE  IF n + 1 \in positions THEN Append(r, q[n + 1]) \in I[n + 1] ELSE r \in I[n + 1]
  <2>1. q[n + 1] \in S /\ r \in Seq(S) /\ Holds(r, n) /\ Len(r) \in Nat
    BY <1>3
  <2>2. CASE n + 1 \in positions
    <3> DEFINE s == Append(r, q[n + 1])
    <3>1. /\ s \in Seq(S)
          /\ Len(s) = Len(r) + 1
          /\ \A i \in 1..Len(r) : s[i] = r[i]
          /\ s[Len(r) + 1] = q[n + 1]
      BY <2>1, AppendProperties
    <3> HIDE DEF s
    <3>2. ASSUME NEW i \in 1..Len(s)
          PROVE  \E j \in i..(n + 1) : j \in positions /\ s[i] = q[j]
      <4>1. i \in 1..Len(r) \/ i = Len(r) + 1
        BY <2>1, <3>1
      <4>2. CASE i \in 1..Len(r)
        <5>1. PICK j \in i..n : j \in positions /\ r[i] = q[j]
          BY <2>1, <4>2
        <5>2. j \in i..(n + 1) /\ s[i] = r[i]
          BY <3>1, <4>2
        <5>3. QED
          BY <5>1, <5>2
      <4>3. CASE i = Len(r) + 1
        <5>1. n + 1 \in i..(n + 1) /\ s[i] = q[n + 1]
          BY <2>1, <3>1, <4>3
        <5>2. QED
          BY <2>2, <5>1
      <4>4. QED
        BY <4>1, <4>2, <4>3
    <3>3. Holds(s, n + 1)
      BY <2>1, <3>1, <3>2
    <3>4. s \in I[n + 1]
      BY <3>1, <3>3
    <3>5. QED
      BY <2>2, <3>4 DEF s
  <2>3. CASE n + 1 \notin positions
    <3>1. Holds(r, n + 1)
      BY <2>1
    <3>2. r \in I[n + 1]
      BY <2>1, <3>1
    <3>3. QED
      BY <2>3, <3>2
  <2>4. QED
    BY <2>2, <2>3
<1>4. Kept(q, positions) \in I[Len(q)]
  <2> HIDE DEF I
  <2>1. QED
    BY <1>1, <1>2, <1>3, InductionOnKept
<1>5. QED
  BY <1>1, <1>4

(* No value of the sequence stands at two positions.                       *)
Once(q) == \A i, j \in 1..Len(q) : q[i] = q[j] => i = j

(* Erasing duplicates nothing.                                             *)
LEMMA KeptOnce ==
  ASSUME NEW S, NEW q \in Seq(S), NEW positions, Once(q)
  PROVE  Once(Kept(q, positions))
<1> DEFINE Holds(r, n) == /\ \A i \in 1..Len(r) : \E j \in 1..n : r[i] = q[j]
                          /\ Once(r)
           I == [n \in Nat |-> {r \in Seq(S) : Holds(r, n)}]
<1>1. Len(q) \in Nat
  OBVIOUS
<1>2. <<>> \in I[0]
  <2>1. Once(<<>>)
    BY DEF Once
  <2>2. QED
    BY <2>1
<1>3. ASSUME NEW n \in Nat, n + 1 <= Len(q), NEW r \in I[n]
      PROVE  IF n + 1 \in positions THEN Append(r, q[n + 1]) \in I[n + 1] ELSE r \in I[n + 1]
  <2> DEFINE s == Append(r, q[n + 1])
  <2>1. q[n + 1] \in S /\ r \in Seq(S) /\ Holds(r, n) /\ Len(r) \in Nat
    BY <1>3
  <2>2. /\ s \in Seq(S)
        /\ Len(s) = Len(r) + 1
        /\ \A i \in 1..Len(r) : s[i] = r[i]
        /\ s[Len(r) + 1] = q[n + 1]
    BY <2>1, AppendProperties
  <2> HIDE DEF s
  <2>3. \A i \in 1..Len(r) : \E j \in 1..(n + 1) : r[i] = q[j]
    <3>1. 1..n \subseteq 1..(n + 1)
      OBVIOUS
    <3>2. QED
      BY <2>1, <3>1
  <2>4. \A i \in 1..Len(s) : i \in 1..Len(r) \/ i = Len(r) + 1
    BY <2>1, <2>2
  <2>5. \A i \in 1..Len(s) : \E j \in 1..(n + 1) : s[i] = q[j]
    <3>1. n + 1 \in 1..(n + 1)
      OBVIOUS
    <3>2. QED
      BY <2>2, <2>3, <2>4, <3>1
  <2>6. \A i \in 1..Len(r) : r[i] # q[n + 1]
    <3>1. \A j \in 1..n : j # n + 1 /\ j \in 1..Len(q) /\ n + 1 \in 1..Len(q)
      BY <1>1, <1>3
    <3>2. QED
      BY <2>1, <3>1 DEF Once
  <2>7. Once(s)
    BY <2>1, <2>2, <2>4, <2>6 DEF Once
  <2>8. s \in I[n + 1] /\ r \in I[n + 1]
    BY <2>1, <2>2, <2>3, <2>5, <2>7
  <2>9. QED
    BY <2>8 DEF s
<1>4. Kept(q, positions) \in I[Len(q)]
  <2> HIDE DEF I
  <2>1. QED
    BY <1>1, <1>2, <1>3, InductionOnKept
<1>5. QED
  BY <1>1, <1>4

(* Nothing that is to be kept is erased.                                   *)
LEMMA KeptHas ==
  ASSUME NEW S, NEW q \in Seq(S), NEW positions, NEW j \in 1..Len(q), j \in positions
  PROVE  \E i \in 1..Len(Kept(q, positions)) : Kept(q, positions)[i] = q[j]
<1> DEFINE Holds(r, n) == \A k \in 1..n : k \in positions => \E i \in 1..Len(r) : r[i] = q[k]
           I == [n \in Nat |-> {r \in Seq(S) : Holds(r, n)}]
<1>1. Len(q) \in Nat
  OBVIOUS
<1>2. <<>> \in I[0]
  OBVIOUS
<1>3. ASSUME NEW n \in Nat, n + 1 <= Len(q), NEW r \in I[n]
      PROVE  IF n + 1 \in positions THEN Append(r, q[n + 1]) \in I[n + 1] ELSE r \in I[n + 1]
  <2>1. q[n + 1] \in S /\ r \in Seq(S) /\ Holds(r, n) /\ Len(r) \in Nat
    BY <1>3
  <2>2. \A k \in 1..(n + 1) : k \in 1..n \/ k = n + 1
    OBVIOUS
  <2>3. CASE n + 1 \in positions
    <3> DEFINE s == Append(r, q[n + 1])
    <3>1. /\ s \in Seq(S)
          /\ Len(s) = Len(r) + 1
          /\ \A i \in 1..Len(r) : s[i] = r[i]
          /\ s[Len(r) + 1] = q[n + 1]
      BY <2>1, AppendProperties
    <3> HIDE DEF s
    <3>2. 1..Len(r) \subseteq 1..Len(s) /\ Len(r) + 1 \in 1..Len(s)
      BY <2>1, <3>1
    <3>3. Holds(s, n + 1)
      BY <2>1, <2>2, <3>1, <3>2
    <3>4. s \in I[n + 1]
      BY <3>1, <3>3
    <3>5. QED
      BY <2>3, <3>4 DEF s
  <2>4. CASE n + 1 \notin positions
    <3>1. Holds(r, n + 1)
      BY <2>1, <2>2, <2>4
    <3>2. r \in I[n + 1]
      BY <2>1, <3>1
    <3>3. QED
      BY <2>4, <3>2
  <2>5. QED
    BY <2>3, <2>4
<1>4. Kept(q, positions) \in I[Len(q)]
  <2> HIDE DEF I
  <2>1. QED
    BY <1>1, <1>2, <1>3, InductionOnKept
<1>5. QED
  BY <1>1, <1>4
=============================================================================
