---------------------- MODULE InferenceScheduler_proofs ----------------------
(* The theorems of the inference scheduler: what its weighted round robin  *)
(* owes to every camera, and that its worker sleeps on no frame.           *)
EXTENDS InferenceScheduler, LatestValueQueueOps_proofs

-----------------------------------------------------------------------------
(* The slots of a list of cameras.                                         *)

(* The function that FlattenSeq defines by recursion, on the first n        *)
(* sequences.                                                              *)
Flattened(f, n, q) == f = [i \in 1..n |-> IF i = 1 THEN q[i] ELSE f[i - 1] \o q[i]]

(* Such a function exists.                                                 *)
LEMMA FlattenedExists ==
  ASSUME NEW q
  PROVE  \A n \in Nat : \E f : Flattened(f, n, q)
<1> DEFINE T == {n \in Nat : \E f : Flattened(f, n, q)}
<1>1. 0 \in T
  <2> DEFINE f == [i \in 1..0 |-> q[i]]
  <2>1. f = [i \in 1..0 |-> IF i = 1 THEN q[i] ELSE f[i - 1] \o q[i]]
    OBVIOUS
  <2>2. Flattened(f, 0, q)
    BY <2>1 DEF Flattened
  <2>3. QED
    BY <2>2
<1>2. ASSUME NEW n \in Nat, n \in T PROVE n + 1 \in T
  <2>1. PICK f : Flattened(f, n, q)
    BY <1>2
  <2> DEFINE g == [i \in 1..(n + 1) |->
                     IF i <= n THEN f[i] ELSE IF i = 1 THEN q[i] ELSE f[n] \o q[i]]
  <2>2. ASSUME NEW i \in 1..(n + 1)
        PROVE  g[i] = IF i = 1 THEN q[i] ELSE g[i - 1] \o q[i]
    <3>1. CASE i \in 1..n /\ i = 1
      <4>1. f[i] = q[i]
        BY <2>1, <3>1 DEF Flattened
      <4>2. QED
        BY <3>1, <4>1
    <3>2. CASE i \in 1..n /\ i # 1
      <4>1. i - 1 \in 1..n /\ i - 1 \in 1..(n + 1)
        BY <3>2
      <4>2. f[i] = f[i - 1] \o q[i]
        BY <2>1, <3>2 DEF Flattened
      <4>3. g[i] = f[i] /\ g[i - 1] = f[i - 1]
        BY <3>2, <4>1
      <4>4. QED
        BY <3>2, <4>2, <4>3
    <3>3. CASE i = n + 1 /\ i = 1
      BY <3>3
    <3>4. CASE i = n + 1 /\ i # 1
      <4>1. ~(i <= n) /\ i - 1 = n /\ n \in 1..(n + 1)
        BY <3>4
      <4>2. g[i - 1] = f[n]
        BY <4>1
      <4>3. QED
        BY <3>4, <4>1, <4>2
    <3>5. QED
      BY <3>1, <3>2, <3>3, <3>4
  <2>3. Flattened(g, n + 1, q)
    <3> HIDE DEF g
    <3>1. g = [i \in 1..(n + 1) |-> g[i]]
      BY DEF g
    <3>2. QED
      BY <2>2, <3>1 DEF Flattened
  <2>4. QED
    BY <2>3
<1>3. Nat \subseteq T
  <2> HIDE DEF T
  <2>1. QED
    BY <1>1, <1>2, InductionOnSet
<1>4. QED
  BY <1>3

(* Where the slots of c are among those of a list: after the first a ones. *)
Block(c, a, slots) ==
  /\ a + Weight[c] <= Len(slots)
  /\ \A i \in 1..Len(slots) : slots[i] = c <=> a < i /\ i <= a + Weight[c]

(* r holds the slots of the first n cameras of the list.                   *)
SlotsOf(r, n, list) ==
  /\ r \in Seq(Cameras)
  /\ Len(r) > 0
  /\ \A i \in 1..n : \E a \in Nat : Block(list[i], a, r)
  /\ \A k \in 1..Len(r) : \E i \in 1..n : r[k] = list[i]

(* The slots of one camera.                                                *)
LEMMA OneCamera ==
  ASSUME NEW c \in Cameras
  PROVE  LET s == [slot \in 1..Weight[c] |-> c]
         IN  /\ s \in Seq(Cameras)
             /\ Len(s) = Weight[c]
             /\ \A k \in 1..Weight[c] : s[k] = c
             /\ Weight[c] \in 1..16
<1>1. Weight[c] \in 1..16
  BY WeightAssumption
<1> DEFINE w == Weight[c]
<1> HIDE DEF w
<1>2. w \in Nat
  BY <1>1 DEF w
<1> DEFINE s == [slot \in 1..w |-> c]
<1>3. s \in Seq(Cameras) /\ Len(s) = w /\ \A k \in 1..w : s[k] = c
  BY <1>2
<1>4. QED
  BY <1>1, <1>3 DEF w

(* One more camera is appended to them.                                    *)
LEMMA OneMore ==
  ASSUME NEW list \in Seq(Cameras), Once(list), NEW n \in 1..Len(list), n # Len(list),
         NEW r, SlotsOf(r, n, list)
  PROVE  SlotsOf(r \o [slot \in 1..Weight[list[n + 1]] |-> list[n + 1]], n + 1, list)
<1> DEFINE c == list[n + 1]
           w == Weight[c]
           s == [slot \in 1..w |-> c]
           t == r \o s
           l == Len(r)
<1>0. c \in Cameras /\ n + 1 \in 1..Len(list) /\ n \in Nat
  OBVIOUS
<1>1. s \in Seq(Cameras) /\ Len(s) = w /\ (\A k \in 1..w : s[k] = c) /\ w \in 1..16
  <2> HIDE DEF c
  <2>1. QED
    BY <1>0, OneCamera
<1>2. r \in Seq(Cameras) /\ l \in Nat /\ l > 0
  BY DEF SlotsOf
<1> HIDE DEF c, w, s
<1>3. /\ t \in Seq(Cameras)
      /\ Len(t) = l + w
      /\ \A k \in 1..l : t[k] = r[k]
      /\ \A k \in (l + 1)..(l + w) : t[k] = c
  <2>1. /\ t \in Seq(Cameras) /\ Len(t) = Len(r) + Len(s)
        /\ \A k \in 1..(Len(r) + Len(s)) : t[k] = IF k <= Len(r) THEN r[k] ELSE s[k - Len(r)]
    BY <1>1, <1>2, ConcatProperties
  <2> HIDE DEF t, l
  <2>2. ASSUME NEW k \in 1..l PROVE t[k] = r[k]
    <3>1. k \in 1..(l + w) /\ k <= l
      BY <1>1, <1>2
    <3>2. QED
      BY <1>1, <1>2, <2>1, <3>1 DEF l
  <2>3. ASSUME NEW k \in (l + 1)..(l + w) PROVE t[k] = c
    <3>1. k \in 1..(l + w) /\ ~(k <= l) /\ k - l \in 1..w
      BY <1>1, <1>2
    <3>2. t[k] = s[k - l]
      BY <1>1, <1>2, <2>1, <3>1 DEF l
    <3>3. QED
      BY <1>1, <3>1, <3>2
  <2>4. QED
    BY <1>1, <2>1, <2>2, <2>3 DEF l
<1> HIDE DEF t
<1>4. \A i \in 1..n : list[i] # c
  BY <1>0 DEF c, Once
<1>5. \A k \in 1..l : r[k] # c /\ \E i \in 1..n : r[k] = list[i]
  BY <1>4 DEF SlotsOf
<1>6. \A k \in 1..Len(t) : k \in 1..l \/ k \in (l + 1)..(l + w)
  BY <1>1, <1>2, <1>3
<1>7. ASSUME NEW i \in 1..n PROVE \E a \in Nat : Block(list[i], a, t)
  <2>1. PICK a \in Nat : Block(list[i], a, r)
    BY DEF SlotsOf
  <2> DEFINE d == list[i]
             v == Weight[d]
  <2>2. d \in Cameras /\ d # c
    BY <1>4
  <2>3. v \in 1..16
    BY <2>2, WeightAssumption
  <2>4. a + v <= l /\ \A k \in 1..l : r[k] = d <=> a < k /\ k <= a + v
    BY <2>1 DEF Block
  <2> HIDE DEF d, v, l
  <2>5. \A k \in 1..Len(t) : t[k] = d <=> a < k /\ k <= a + v
    <3>1. \A k \in 1..l : t[k] = d <=> a < k /\ k <= a + v
      BY <1>3, <2>4
    <3>2. ASSUME NEW k \in (l + 1)..(l + w) PROVE t[k] # d /\ ~(k <= a + v)
      BY <1>1, <1>2, <1>3, <2>2, <2>3, <2>4
    <3>3. QED
      BY <1>6, <3>1, <3>2
  <2>6. a + v <= Len(t)
    BY <1>1, <1>2, <1>3, <2>3, <2>4
  <2>7. QED
    BY <2>5, <2>6 DEF Block, d, v
<1>8. Block(c, l, t)
  <2> HIDE DEF l
  <2>1. l + w <= Len(t)
    BY <1>1, <1>2, <1>3
  <2>2. \A k \in 1..l : t[k] # c /\ ~(l < k)
    BY <1>2, <1>3, <1>5
  <2>3. \A k \in (l + 1)..(l + w) : t[k] = c /\ l < k /\ k <= l + w
    BY <1>1, <1>2, <1>3
  <2>4. QED
    BY <1>6, <2>1, <2>2, <2>3 DEF Block, w
<1>9. \A i \in 1..(n + 1) : i \in 1..n \/ i = n + 1
  BY <1>0
<1>10. \A i \in 1..(n + 1) : \E a \in Nat : Block(list[i], a, t)
  BY <1>2, <1>7, <1>8, <1>9 DEF c
<1>11. \A k \in 1..Len(t) : \E i \in 1..(n + 1) : t[k] = list[i]
  <2>1. 1..n \subseteq 1..(n + 1) /\ n + 1 \in 1..(n + 1)
    BY <1>0
  <2>2. QED
    BY <1>3, <1>5, <1>6, <2>1 DEF c
<1>12. SlotsOf(t, n + 1, list)
  <2>1. Len(t) > 0
    BY <1>1, <1>2, <1>3
  <2>2. QED
    BY <1>3, <1>10, <1>11, <2>1 DEF SlotsOf
<1>13. QED
  BY <1>12 DEF t, s, w, c

(* The slots of a list without duplicates: as many in a row for each       *)
(* camera as its weight, and no others.                                    *)
LEMMA SlotsFacts ==
  ASSUME NEW list \in Seq(Cameras), Once(list), list # <<>>
  PROVE  SlotsOf(Slots(list), Len(list), list)
<1> DEFINE q == [i \in DOMAIN list |-> [slot \in 1..Weight[list[i]] |-> list[i]]]
           f == CHOOSE g : Flattened(g, Len(list), q)
           T == {n \in Nat : n + 1 <= Len(list) => SlotsOf(f[n + 1], n + 1, list)}
<1>0. Len(list) \in Nat /\ Len(list) # 0 /\ DOMAIN list = 1..Len(list)
  BY EmptySeq
<1>1. Flattened(f, Len(list), q)
  <2>1. \E g : Flattened(g, Len(list), q)
    BY <1>0, FlattenedExists
  <2>2. QED
    BY <2>1
<1>2. Slots(list) = f[Len(list)]
  <2> DEFINE p == q
  <2> HIDE DEF q
  <2>1. Len(q) = Len(list)
    <3>1. DOMAIN q = 1..Len(list)
      BY <1>0 DEF q
    <3>2. q \in Seq({q[i] : i \in 1..Len(list)})
      <4>1. q = [i \in 1..Len(list) |-> q[i]]
        BY <1>0 DEF q
      <4>2. QED
        BY <1>0, <4>1
    <3>3. QED
      BY <1>0, <3>1, <3>2
  <2>2. FlattenSeq(q) = f[Len(list)]
    BY <1>0, <2>1 DEF FlattenSeq, Flattened
  <2>3. QED
    BY <2>2 DEF Slots, q
<1>3. ASSUME NEW i \in 1..Len(list)
      PROVE  f[i] = IF i = 1 THEN q[i] ELSE f[i - 1] \o q[i]
  <2> HIDE DEF q, f
  <2>1. QED
    BY <1>1 DEF Flattened
<1>4. \A i \in 1..Len(list) : q[i] = [slot \in 1..Weight[list[i]] |-> list[i]]
  BY <1>0
<1> HIDE DEF f, q
<1>5. 0 \in T
  <2> DEFINE c == list[1]
             s == [slot \in 1..Weight[c] |-> c]
  <2>1. c \in Cameras /\ 1 \in 1..Len(list)
    BY <1>0
  <2>2. f[0 + 1] = s
    BY <1>3, <1>4, <2>1
  <2> HIDE DEF c
  <2>3. s \in Seq(Cameras) /\ Len(s) = Weight[c] /\ (\A k \in 1..Weight[c] : s[k] = c)
        /\ Weight[c] \in 1..16
    BY <2>1, OneCamera
  <2> HIDE DEF s
  <2>4. Block(c, 0, s)
    BY <2>3 DEF Block
  <2>5. SlotsOf(s, 1, list)
    <3>1. \A i \in 1..1 : list[i] = c
      BY DEF c
    <3>2. \A k \in 1..Len(s) : s[k] = list[1]
      BY <2>3 DEF c
    <3>3. \A i \in 1..1 : \E a \in Nat : Block(list[i], a, s)
      BY <2>4, <3>1
    <3>4. 1 \in 1..1 /\ Len(s) > 0
      BY <2>3
    <3>5. QED
      BY <2>3, <3>2, <3>3, <3>4 DEF SlotsOf
  <2>6. QED
    BY <2>2, <2>5
<1>6. ASSUME NEW n \in Nat, n \in T PROVE n + 1 \in T
  <2>1. SUFFICES ASSUME (n + 1) + 1 <= Len(list)
                 PROVE  SlotsOf(f[(n + 1) + 1], (n + 1) + 1, list)
    OBVIOUS
  <2> DEFINE m == n + 1
  <2> DEFINE l == Len(list)
  <2> HIDE DEF l
  <2>2. m \in 1..l /\ m # l /\ m + 1 \in 1..l /\ m + 1 # 1 /\ (m + 1) - 1 = m
    <3>1. l \in Nat /\ (n + 1) + 1 <= l
      BY <1>0, <2>1 DEF l
    <3>2. QED
      BY <3>1
  <2> USE DEF l
  <2>3. SlotsOf(f[m], m, list)
    BY <1>6, <2>2
  <2> HIDE DEF m
  <2>4. f[m + 1] = f[m] \o [slot \in 1..Weight[list[m + 1]] |-> list[m + 1]]
    BY <1>3, <1>4, <2>2
  <2>5. SlotsOf(f[m + 1], m + 1, list)
    BY <2>2, <2>3, <2>4, OneMore
  <2>6. QED
    BY <2>5 DEF m
<1>7. Nat \subseteq T
  <2> HIDE DEF T
  <2>1. QED
    BY <1>5, <1>6, InductionOnSet
<1>8. SlotsOf(f[Len(list)], Len(list), list)
  <2> DEFINE m == Len(list) - 1
  <2>1. m \in Nat /\ m + 1 = Len(list)
    BY <1>0
  <2> HIDE DEF m
  <2>2. m \in T
    BY <1>7, <2>1
  <2>3. QED
    BY <1>0, <2>1, <2>2
<1>9. QED
  BY <1>2, <1>8

-----------------------------------------------------------------------------
(* The round.                                                              *)

(* The slots from u up to the next one of a camera whose w slots follow    *)
(* the first a ones, in a round of n slots.                                *)
Gap(u, a, w, n) == IF u <= a THEN a - u ELSE IF u < a + w THEN 0 ELSE (n - u) + a

(* The remainder at most once around.                                      *)
LEMMA Wrap ==
  ASSUME NEW n \in Nat, n > 0, NEW x \in Nat, x < 2 * n
  PROVE  x % n = IF x < n THEN x ELSE x - n
<1>1. CASE x < n
  BY <1>1
<1>2. CASE ~(x < n)
  <2>1. x = n * 1 + (x - n) /\ x - n \in 0..(n - 1)
    BY <1>2
  <2>2. QED
    BY <1>2, <2>1
<1>3. QED
  BY <1>1, <1>2

(* A remainder is a position of the round.                                 *)
LEMMA WrapRange ==
  ASSUME NEW n \in Nat, n > 0, NEW x \in Nat
  PROVE  x % n \in 0..(n - 1)
OBVIOUS

(* A round reaches every slot, wherever it starts.                         *)
LEMMA RoundIsComplete ==
  ASSUME NEW n \in Nat, NEW s \in 0..(n - 1), NEW j \in 0..(n - 1)
  PROVE  \E k \in 0..(n - 1) : (s + k) % n = j
<1>0. n > 0
  OBVIOUS
<1>1. CASE s <= j
  <2>1. j - s \in 0..(n - 1) /\ s + (j - s) = j /\ j \in Nat /\ j < 2 * n
    BY <1>1
  <2>2. (s + (j - s)) % n = j
    BY <1>0, <2>1, Wrap
  <2>3. QED
    BY <2>1, <2>2
<1>2. CASE ~(s <= j)
  <2> DEFINE k == (n - s) + j
  <2>1. k \in 0..(n - 1) /\ s + k = n + j /\ s + k \in Nat /\ s + k < 2 * n /\ ~(s + k < n)
    BY <1>2
  <2>2. (s + k) % n = (s + k) - n
    BY <1>0, <2>1, Wrap
  <2>3. QED
    BY <2>1, <2>2
<1>3. QED
  BY <1>1, <1>2

(* The gap is bounded by the slots of the others and ends at a slot of the *)
(* camera.                                                                 *)
LEMMA GapFacts ==
  ASSUME NEW n \in Nat, NEW a \in Nat, NEW w \in Nat, w >= 1, a + w <= n,
         NEW u \in 0..(n - 1)
  PROVE  /\ Gap(u, a, w, n) \in Nat
         /\ Gap(u, a, w, n) <= n - w
         /\ a <= (u + Gap(u, a, w, n)) % n
         /\ (u + Gap(u, a, w, n)) % n < a + w
<1>0. n > 0 /\ u \in Nat /\ u < n
  OBVIOUS
<1> DEFINE g == Gap(u, a, w, n)
<1>1. CASE u <= a
  <2>1. g = a - u
    BY <1>1 DEF Gap
  <2>2. u + g = a /\ a \in Nat /\ a < n /\ a < 2 * n
    BY <2>1
  <2>3. (u + g) % n = a
    BY <1>0, <2>2, Wrap
  <2>4. QED
    BY <1>0, <1>1, <2>1, <2>3
<1>2. CASE ~(u <= a) /\ u < a + w
  <2>1. g = 0
    BY <1>2 DEF Gap
  <2>2. u + g = u /\ u < 2 * n
    BY <1>0, <2>1
  <2>3. (u + g) % n = u
    BY <1>0, <2>2, Wrap
  <2>4. QED
    BY <1>0, <1>2, <2>1, <2>3
<1>3. CASE ~(u <= a) /\ ~(u < a + w)
  <2>1. g = (n - u) + a
    BY <1>3 DEF Gap
  <2>2. u + g = n + a /\ n + a \in Nat /\ n + a < 2 * n /\ ~(n + a < n)
    BY <1>0, <2>1
  <2>3. (u + g) % n = a
    <3>1. (n + a) % n = (n + a) - n
      BY <1>0, <2>2, Wrap
    <3>2. QED
      BY <2>2, <3>1
  <2>4. QED
    BY <1>0, <1>3, <2>1, <2>3
<1>4. QED
  BY <1>1, <1>2, <1>3

(* Before the gap is over every slot shortens it by one.                   *)
LEMMA GapShrinks ==
  ASSUME NEW n \in Nat, NEW a \in Nat, NEW w \in Nat, w >= 1, a + w <= n,
         NEW u \in 0..(n - 1), NEW o \in Nat, o < Gap(u, a, w, n)
  PROVE  Gap((((u + o) % n) + 1) % n, a, w, n) = Gap(u, a, w, n) - o - 1
<1>0. n > 0 /\ u \in Nat /\ u < n
  OBVIOUS
<1> DEFINE g == Gap(u, a, w, n)
           j == (u + o) % n
           v == (j + 1) % n
<1>1. CASE u <= a
  <2>1. g = a - u
    BY <1>1 DEF Gap
  <2>2. u + o \in Nat /\ u + o < n /\ u + o < 2 * n /\ u + o + 1 <= a
    BY <1>0, <2>1
  <2>3. j = u + o
    BY <1>0, <2>2, Wrap
  <2> HIDE DEF j
  <2>4. j + 1 \in Nat /\ j + 1 < n /\ j + 1 < 2 * n
    BY <1>0, <2>2, <2>3
  <2>5. v = j + 1
    BY <1>0, <2>4, Wrap
  <2> HIDE DEF v
  <2>6. v <= a
    BY <2>2, <2>3, <2>5
  <2>7. Gap(v, a, w, n) = a - v
    BY <2>6 DEF Gap
  <2>8. Gap(v, a, w, n) = g - o - 1
    BY <1>0, <2>1, <2>3, <2>5, <2>7
  <2>9. QED
    BY <2>8 DEF v, j
<1>2. CASE ~(u <= a) /\ u < a + w
  BY <1>2 DEF Gap
<1>3. CASE ~(u <= a) /\ ~(u < a + w)
  <2>1. g = (n - u) + a
    BY <1>3 DEF Gap
  <2>2. u + o \in Nat /\ u + o < 2 * n /\ u + o + 1 <= n + a
    BY <1>0, <2>1
  <2>3. j = IF u + o < n THEN u + o ELSE (u + o) - n
    BY <1>0, <2>2, Wrap
  <2> HIDE DEF j
  <2>4. j + 1 \in Nat /\ j + 1 <= n /\ j + 1 < 2 * n
    BY <1>0, <2>2, <2>3
  <2>5. v = IF j + 1 < n THEN j + 1 ELSE (j + 1) - n
    BY <1>0, <2>4, Wrap
  <2> HIDE DEF v
  <2>6. CASE u + o + 1 < n
    <3>1. v = u + o + 1
      BY <1>0, <2>3, <2>5, <2>6
    <3>2. ~(v <= a) /\ ~(v < a + w)
      BY <1>0, <1>3, <3>1
    <3>3. Gap(v, a, w, n) = (n - v) + a
      BY <3>2 DEF Gap
    <3>4. Gap(v, a, w, n) = g - o - 1
      BY <1>0, <2>1, <3>1, <3>3
    <3>5. QED
      BY <3>4 DEF v, j
  <2>7. CASE ~(u + o + 1 < n)
    <3>1. v = (u + o + 1) - n
      BY <1>0, <2>2, <2>3, <2>5, <2>7
    <3>2. v <= a
      BY <1>0, <2>2, <3>1
    <3>3. Gap(v, a, w, n) = a - v
      BY <3>2 DEF Gap
    <3>4. Gap(v, a, w, n) = g - o - 1
      BY <1>0, <2>1, <3>1, <3>3
    <3>5. QED
      BY <3>4 DEF v, j
  <2>8. QED
    BY <2>6, <2>7
<1>4. QED
  BY <1>1, <1>2, <1>3

(* After a slot of another camera the gap is shorter than the longest.     *)
LEMMA GapAfterAnother ==
  ASSUME NEW n \in Nat, NEW a \in Nat, NEW w \in Nat, w >= 1, a + w <= n,
         NEW j \in 0..(n - 1), ~(a <= j /\ j < a + w)
  PROVE  Gap((j + 1) % n, a, w, n) + 1 <= n - w
<1> DEFINE v == (j + 1) % n
<1>0. n > 0 /\ j + 1 \in Nat /\ j + 1 <= n /\ j + 1 < 2 * n
  OBVIOUS
<1>1. v = IF j + 1 < n THEN j + 1 ELSE (j + 1) - n
  BY <1>0, Wrap
<1> HIDE DEF v
<1>2. CASE j + 1 < n
  <2>1. v = j + 1
    BY <1>1, <1>2
  <2>2. v <= a \/ (~(v <= a) /\ ~(v < a + w))
    BY <2>1
  <2>3. QED
    BY <1>2, <2>1, <2>2 DEF Gap, v
<1>3. CASE ~(j + 1 < n)
  <2>1. v = 0 /\ j = n - 1
    BY <1>0, <1>1, <1>3
  <2>2. Gap(v, a, w, n) = a
    BY <2>1 DEF Gap
  <2>3. a + w <= n - 1
    BY <2>1
  <2>4. Gap(v, a, w, n) + 1 <= n - w
    BY <2>2, <2>3
  <2>5. QED
    BY <2>4 DEF v
<1>4. QED
  BY <1>2, <1>3

-----------------------------------------------------------------------------
(* The invariant.                                                          *)

Points == {"none", "next", "scan", "look", "took", "infer", "wait", "asleep", "ended"}

WorkerType == [at : Points, slots : Seq(Cameras), start : Nat, offset : Nat,
               early : SUBSET Cameras, awaited : SUBSET Cameras]

TypeOK ==
  /\ running \in BOOLEAN /\ cameras \in Seq(Cameras) /\ cursor \in Nat /\ changed \in BOOLEAN
  /\ active \in BOOLEAN /\ restarting \in BOOLEAN
  /\ api \in {"idle", "start", "spawn", "stop", "stopScheduler", "join"}
  /\ pending \subseteq Cameras /\ notifying \subseteq Cameras /\ throttled \subseteq Cameras
  /\ worker \in WorkerType
  /\ changes \in Nat /\ starts \in Nat /\ passed \in [Cameras -> Nat]

(* addCamera refuses a camera it has.                                      *)
CamerasOnce == Once(cameras)

(* No worker runs while the service starts one.                            *)
ServiceInv == api \in {"start", "spawn"} => At("none")

Scans == {"scan", "look", "took"}

(* Where the worker is in its slots.                                       *)
ScanInv == worker.at \in Scans =>
             /\ worker.start < Len(worker.slots)
             /\ worker.offset <= Len(worker.slots)
             /\ ~At("scan") => worker.offset < Len(worker.slots)

(* The cameras that the scan has still to look at.                         *)
Unlooked(w) ==
  IF w.at \in {"scan", "look"}
  THEN {w.slots[((w.start + k) % Len(w.slots)) + 1] : k \in w.offset..(Len(w.slots) - 1)}
  ELSE {}

(* As long as the version has not moved, a frame that waits is about to be *)
(* notified of, has been seen, or lies where the scan has yet to look.     *)
SleepInv ==
  /\ At("asleep") => running /\ ~changed
  /\ worker.at \in {"scan", "look", "wait", "asleep"} /\ ~changed =>
       Registered \cap pending \subseteq notifying \cup worker.awaited \cup Unlooked(worker)

(* c, whose slots follow the first a ones, waits, and the round comes to   *)
(* it before the bound is reached.                                         *)
Turn(c, a) ==
  LET n == Len(Slots(cameras))
      w == Weight[c]
  IN  /\ Ready(c)
      /\ worker.at \in {"scan", "look"} =>
           /\ worker.slots = Slots(cameras)
           /\ c \notin worker.early
           /\ passed[c] + Gap(worker.start, a, w, n) <= n - w
           /\ worker.offset <= Gap(worker.start, a, w, n)
           /\ At("look") => worker.offset < Gap(worker.start, a, w, n)
      /\ At("took") =>
           /\ worker.slots = Slots(cameras)
           /\ passed[c] + Gap((Index + 1) % n, a, w, n) <= n - w
      /\ worker.at \notin Scans =>
           /\ cursor < n
           /\ passed[c] + Gap(cursor, a, w, n) <= n - w

TurnInv == \A c \in Cameras : \A a \in Nat :
             passed[c] > 0 /\ Block(c, a, Slots(cameras)) => Turn(c, a)

SchedulerInv == TypeOK /\ CamerasOnce /\ ServiceInv /\ ScanInv /\ SleepInv /\ TurnInv

(* The slots the scheduler hands to a scan.                                *)
LEMMA SlotsNow ==
  ASSUME TypeOK, CamerasOnce, cameras # <<>>
  PROVE  /\ Slots(cameras) \in Seq(Cameras)
         /\ Len(Slots(cameras)) \in Nat
         /\ Len(Slots(cameras)) > 0
         /\ \A c \in Registered : \E a \in Nat : Block(c, a, Slots(cameras))
<1>1. SlotsOf(Slots(cameras), Len(cameras), cameras)
  BY SlotsFacts DEF TypeOK, CamerasOnce
<1>2. Registered = {cameras[i] : i \in 1..Len(cameras)}
  BY DEF Registered, ToSet, TypeOK
<1>3. Slots(cameras) \in Seq(Cameras) /\ Len(Slots(cameras)) > 0
  BY <1>1 DEF SlotsOf
<1>4. \A i \in 1..Len(cameras) : \E a \in Nat : Block(cameras[i], a, Slots(cameras))
  BY <1>1 DEF SlotsOf
<1> DEFINE s == Slots(cameras)
<1> HIDE DEF s
<1>5. s \in Seq(Cameras) => Len(s) \in Nat
  OBVIOUS
<1>6. QED
  BY <1>2, <1>3, <1>4, <1>5 DEF s

(* A camera that waits is one of a scheduler that has some.                *)
LEMMA SomeCamera ==
  ASSUME TypeOK, NEW c \in Registered
  PROVE  cameras # <<>> /\ c \in Cameras
<1>1. Registered = {cameras[i] : i \in 1..Len(cameras)}
  BY DEF Registered, ToSet, TypeOK
<1>2. PICK i \in 1..Len(cameras) : c = cameras[i]
  BY <1>1
<1>3. cameras[i] \in Cameras
  BY <1>2 DEF TypeOK
<1>4. cameras # <<>>
  BY <1>2
<1>5. QED
  BY <1>2, <1>3, <1>4

(* The invariant holds at the start.                                       *)
LEMMA InitInv ==
  ASSUME Init
  PROVE  SchedulerInv
<1>1. worker \in WorkerType /\ worker.at = "none"
  BY DEF Init, NoWorker, WorkerType, Points
<1>2. passed \in [Cameras -> Nat] /\ \A c \in Cameras : passed[c] = 0
  BY DEF Init
<1>3. cameras \in Seq(Cameras) /\ Len(cameras) = 0
  BY DEF Init
<1>4. TypeOK
  BY <1>1, <1>2, <1>3 DEF Init, TypeOK
<1>5. CamerasOnce
  BY <1>3 DEF CamerasOnce, Once
<1>6. ServiceInv /\ ScanInv /\ SleepInv
  BY <1>1 DEF Init, ServiceInv, ScanInv, SleepInv, At, Scans
<1>7. TurnInv
  BY <1>2 DEF TurnInv
<1>8. QED
  BY <1>4, <1>5, <1>6, <1>7 DEF SchedulerInv

(* What a notification does to the worker: it wakes it up.                 *)
LEMMA BumpFacts ==
  ASSUME worker \in WorkerType, Bump
  PROVE  /\ worker' \in WorkerType
         /\ changed'
         /\ worker'.at = IF worker.at = "asleep" THEN "wait" ELSE worker.at
         /\ worker'.slots = worker.slots /\ worker'.start = worker.start
         /\ worker'.offset = worker.offset /\ worker'.early = worker.early
         /\ worker'.awaited = worker.awaited
<1>1. CASE worker.at = "asleep"
  <2>1. worker' = [worker EXCEPT !.at = "wait"]
    BY <1>1 DEF Bump
  <2>2. QED
    BY <1>1, <2>1 DEF Bump, WorkerType, Points
<1>2. CASE worker.at # "asleep"
  <2>1. worker' = worker
    BY <1>2 DEF Bump
  <2>2. QED
    BY <1>2, <2>1 DEF Bump
<1>3. QED
  BY <1>1, <1>2

(* What a jump does to the worker.                                         *)
LEMMA GotoFacts ==
  ASSUME worker \in WorkerType, NEW p \in Points, Goto(p)
  PROVE  /\ worker' \in WorkerType
         /\ worker'.at = p
         /\ worker'.slots = worker.slots /\ worker'.start = worker.start
         /\ worker'.offset = worker.offset /\ worker'.early = worker.early
         /\ worker'.awaited = worker.awaited
BY DEF Goto, WorkerType

(* What the steps outside the worker do to it.                             *)
Outside ==
  \/ UNCHANGED worker
  \/ Bump
  \/ At("none") /\ worker' = [NoWorker EXCEPT !.at = "next"]
  \/ At("ended") /\ worker' = NoWorker

(* A worker that has not begun.                                            *)
LEMMA NewWorker ==
  /\ NoWorker \in WorkerType
  /\ [NoWorker EXCEPT !.at = "next"] \in WorkerType
  /\ NoWorker.at = "none"
  /\ [NoWorker EXCEPT !.at = "next"].at = "next"
<1>1. <<>> \in Seq(Cameras)
  OBVIOUS
<1>2. NoWorker \in WorkerType
  BY <1>1 DEF NoWorker, WorkerType, Points
<1>3. QED
  BY <1>2 DEF NoWorker, WorkerType, Points

CameraStep ==
  \E c \in Cameras : \/ AddCamera(c) \/ RemoveCamera(c)
                     \/ PushFrame(c) \/ NotifyFrameAvailable(c)
                     \/ ClearFrames(c) \/ NextInferenceReached(c)

(* Every step but the worker's own treats it like that.                    *)
LEMMA OutsideSteps ==
  ASSUME TypeOK, ServiceInv, ServiceCall \/ ServiceStep \/ CameraStep
  PROVE  Outside
<1>1. CASE ServiceCall
  BY <1>1 DEF ServiceCall, ServiceStart, ServiceStop, Outside
<1>2. CASE ServiceStep
  <2>1. CASE SchedulerStart
    BY <2>1 DEF SchedulerStart, Outside
  <2>2. CASE Spawn
    BY <2>2 DEF Spawn, Outside, ServiceInv
  <2>3. CASE SchedulerStop
    BY <2>3 DEF SchedulerStop, Outside
  <2>4. CASE Join
    BY <2>4 DEF Join, Outside, At
  <2>5. CASE ServiceStop
    BY <2>5 DEF ServiceStop, Outside
  <2>6. QED
    BY <1>2, <2>1, <2>2, <2>3, <2>4, <2>5 DEF ServiceStep
<1>3. CASE CameraStep
  BY <1>3 DEF CameraStep, AddCamera, RemoveCamera, PushFrame, NotifyFrameAvailable,
              ClearFrames, NextInferenceReached, Outside
<1>4. QED
  BY <1>1, <1>2, <1>3

(* What a look at a camera does to the worker.                             *)
LEMMA LookFacts ==
  ASSUME worker \in WorkerType, pending \subseteq Cameras, LookPending
  PROVE  /\ worker' \in WorkerType
         /\ worker'.at = "scan"
         /\ worker'.slots = worker.slots /\ worker'.start = worker.start
         /\ worker'.offset = worker.offset + 1 /\ worker'.early = worker.early
         /\ worker'.awaited = worker.awaited \cup ({Camera} \cap pending)
<1> DEFINE seen == {Camera} \cap pending
<1>1. seen \subseteq Cameras
  OBVIOUS
<1>2. worker' = [worker EXCEPT !.at = "scan", !.offset = @ + 1, !.awaited = @ \cup seen]
  BY DEF LookPending
<1> HIDE DEF seen
<1>3. /\ worker.slots \in Seq(Cameras) /\ worker.start \in Nat /\ worker.offset \in Nat
      /\ worker.early \subseteq Cameras /\ worker.awaited \subseteq Cameras
  BY DEF WorkerType
<1>4. /\ worker.offset + 1 \in Nat
      /\ worker.awaited \cup seen \subseteq Cameras
  BY <1>1, <1>3
<1>5. worker' = [at |-> "scan", slots |-> worker.slots, start |-> worker.start,
                 offset |-> worker.offset + 1, early |-> worker.early,
                 awaited |-> worker.awaited \cup seen]
  BY <1>2 DEF WorkerType
<1>6. worker' \in WorkerType
  BY <1>3, <1>4, <1>5 DEF WorkerType, Points
<1>7. QED
  BY <1>5, <1>6 DEF seen

(* The worker keeps its type outside its own steps.                        *)
LEMMA OutsideType ==
  ASSUME worker \in WorkerType, Outside
  PROVE  worker' \in WorkerType
BY BumpFacts, NewWorker DEF Outside

(* The sequences of cameras that are written.                              *)
LEMMA CameraLists ==
  ASSUME TypeOK, CamerasOnce, NEW c \in Cameras
  PROVE  /\ AddCamera(c) => cameras' \in Seq(Cameras) /\ Once(cameras')
         /\ RemoveCamera(c) => cameras' \in Seq(Cameras) /\ Once(cameras')
<1>0. cameras \in Seq(Cameras) /\ Once(cameras)
  BY DEF TypeOK, CamerasOnce
<1>1. ASSUME AddCamera(c) PROVE cameras' \in Seq(Cameras) /\ Once(cameras')
  <2> DEFINE q == cameras
             s == Append(q, c)
             l == Len(q)
  <2>1. cameras' = s /\ c \notin Registered
    BY <1>1 DEF AddCamera
  <2>2. Registered = {q[i] : i \in 1..l}
    BY <1>0 DEF Registered, ToSet
  <2>3. \A i \in 1..l : q[i] # c
    BY <2>1, <2>2
  <2> HIDE DEF q
  <2>4. s \in Seq(Cameras) /\ Len(s) = l + 1 /\ (\A i \in 1..l : s[i] = q[i]) /\ s[l + 1] = c
        /\ l \in Nat
    BY <1>0, AppendProperties DEF q
  <2> HIDE DEF s, l
  <2>5. \A i \in 1..Len(s) : i \in 1..l \/ i = l + 1
    BY <2>4
  <2>6. \A i, j \in 1..l : q[i] = q[j] => i = j
    BY <1>0 DEF Once, q, l
  <2>7. Once(s)
    BY <2>3, <2>4, <2>5, <2>6 DEF Once
  <2>8. QED
    BY <2>1, <2>4, <2>7
<1>2. ASSUME RemoveCamera(c) PROVE cameras' \in Seq(Cameras) /\ Once(cameras')
  BY <1>0, <1>2, KeptFacts, KeptOnce DEF RemoveCamera
<1>3. QED
  BY <1>1, <1>2

(* What a scan begins with.                                                *)
LEMMA ScanBegun ==
  ASSUME TypeOK, CamerasOnce, NextBegins
  PROVE  /\ worker' \in WorkerType
         /\ worker'.at = "scan" /\ worker'.slots = Slots(cameras)
         /\ worker'.start = cursor % Len(Slots(cameras)) /\ worker'.offset = 0
         /\ worker'.early = throttled /\ worker'.awaited = {}
         /\ Slots(cameras) \in Seq(Cameras)
         /\ Len(Slots(cameras)) \in Nat /\ Len(Slots(cameras)) > 0
         /\ cursor' = cursor % Len(Slots(cameras))
         /\ cursor' \in 0..(Len(Slots(cameras)) - 1)
<1> DEFINE s == Slots(cameras)
           n == Len(s)
<1>1. cameras # <<>> /\ cursor' = cursor % n
      /\ worker' = [at |-> "scan", slots |-> s, start |-> cursor', offset |-> 0,
                    early |-> throttled, awaited |-> {}]
  BY DEF NextBegins
<1>2. s \in Seq(Cameras) /\ n \in Nat /\ n > 0
  BY <1>1, SlotsNow
<1> HIDE DEF n
<1>3. cursor' \in 0..(n - 1)
  BY <1>1, <1>2, WrapRange DEF TypeOK
<1> HIDE DEF s
<1>4. worker' \in WorkerType
  BY <1>1, <1>2, <1>3 DEF TypeOK, WorkerType, Points
<1>5. QED
  BY <1>1, <1>2, <1>3, <1>4 DEF s, n

(* Where the worker looks.                                                 *)
LEMMA CameraFacts ==
  ASSUME TypeOK, ScanInv, worker.at \in Scans, worker.offset < Len(worker.slots)
  PROVE  /\ Len(worker.slots) \in Nat /\ Len(worker.slots) > 0
         /\ worker.start \in 0..(Len(worker.slots) - 1)
         /\ worker.offset \in Nat
         /\ Index \in 0..(Len(worker.slots) - 1)
         /\ Camera \in Cameras
<1> DEFINE s == worker.slots
           n == Len(s)
<1>1. s \in Seq(Cameras) /\ worker.start \in Nat /\ worker.offset \in Nat
  BY DEF TypeOK, WorkerType
<1> HIDE DEF s
<1>2. n \in Nat
  BY <1>1
<1>3. worker.start < n /\ worker.offset < n
  BY DEF ScanInv, s
<1> HIDE DEF n
<1>4. n > 0 /\ worker.start \in 0..(n - 1) /\ worker.start + worker.offset \in Nat
  BY <1>1, <1>2, <1>3
<1> DEFINE j == (worker.start + worker.offset) % n
<1>5. j \in 0..(n - 1)
  BY <1>2, <1>4, WrapRange
<1> HIDE DEF j
<1>6. j + 1 \in 1..n
  BY <1>2, <1>5
<1>7. s[j + 1] \in Cameras
  BY <1>1, <1>6 DEF n
<1>8. Index = j /\ Camera = s[j + 1]
  BY DEF Index, Camera, j, n, s
<1>9. QED
  BY <1>1, <1>2, <1>4, <1>5, <1>7, <1>8 DEF n, s

(* Every variable keeps its type.                                          *)
LEMMA TypeStep ==
  ASSUME TypeOK, CamerasOnce, ServiceInv, ScanInv, Next
  PROVE  TypeOK'
<1>1. CASE ServiceCall \/ ServiceStep
  <2>1. worker' \in WorkerType
    BY <1>1, OutsideSteps, OutsideType DEF TypeOK
  <2>2. CASE ServiceStart /\ ServiceUnchanged
    BY <2>1, <2>2 DEF ServiceStart, ServiceUnchanged, sources, scheduler, TypeOK
  <2>3. CASE ServiceStop /\ ServiceUnchanged
    BY <2>1, <2>3 DEF ServiceStop, ServiceUnchanged, sources, scheduler, TypeOK
  <2>4. CASE SchedulerStart /\ ServiceUnchanged
    BY <2>1, <2>4 DEF SchedulerStart, ServiceUnchanged, sources, Bump, TypeOK
  <2>5. CASE Spawn /\ ServiceUnchanged
    BY <2>1, <2>5 DEF Spawn, ServiceUnchanged, sources, Bump, TypeOK
  <2>6. CASE SchedulerStop /\ ServiceUnchanged
    BY <2>1, <2>6 DEF SchedulerStop, ServiceUnchanged, sources, Bump, TypeOK
  <2>7. CASE Join /\ ServiceUnchanged
    BY <2>1, <2>7 DEF Join, ServiceUnchanged, sources, scheduler, TypeOK
  <2>8. QED
    BY <1>1, <2>2, <2>3, <2>4, <2>5, <2>6, <2>7 DEF ServiceCall, ServiceStep
<1>2. CASE CameraStep
  <2>1. worker' \in WorkerType
    BY <1>2, OutsideSteps, OutsideType DEF TypeOK
  <2>2. PICK c \in Cameras : \/ AddCamera(c) \/ RemoveCamera(c)
                             \/ PushFrame(c) \/ NotifyFrameAvailable(c)
                             \/ ClearFrames(c) \/ NextInferenceReached(c)
    BY <1>2 DEF CameraStep
  <2>3. Unpassed \in [Cameras -> Nat]
    BY DEF Unpassed
  <2>4. CASE AddCamera(c)
    <3>1. cameras' \in Seq(Cameras)
      BY <2>4, CameraLists
    <3>2. QED
      BY <2>1, <2>3, <2>4, <3>1 DEF AddCamera, Bump, service, TypeOK
  <2>5. CASE RemoveCamera(c)
    <3>1. cameras' \in Seq(Cameras)
      BY <2>5, CameraLists
    <3>2. QED
      BY <2>1, <2>3, <2>5, <3>1 DEF RemoveCamera, Bump, service, sources, TypeOK
  <2>6. CASE PushFrame(c)
    BY <2>1, <2>6 DEF PushFrame, scheduler, service, TypeOK
  <2>7. CASE NotifyFrameAvailable(c)
    BY <2>1, <2>7 DEF NotifyFrameAvailable, Bump, service, TypeOK
  <2>8. CASE ClearFrames(c)
    BY <2>1, <2>8 DEF ClearFrames, scheduler, service, TypeOK
  <2>9. CASE NextInferenceReached(c)
    BY <2>1, <2>9 DEF NextInferenceReached, scheduler, service, TypeOK
  <2>10. QED
    BY <2>2, <2>4, <2>5, <2>6, <2>7, <2>8, <2>9
<1>3. CASE WorkerStep
  <2>0. UNCHANGED <<service, notifying, changes>> /\ worker \in WorkerType
    BY <1>3 DEF WorkerStep, TypeOK
  <2>1. CASE NextStopped
    BY <2>0, <2>1, GotoFacts DEF NextStopped, scheduler, service, Points, TypeOK
  <2>2. CASE NextWithoutCameras
    <3>1. worker' \in WorkerType
      BY <2>0, <2>2 DEF NextWithoutCameras, WorkerType, Points
    <3>2. QED
      BY <2>0, <2>2, <3>1 DEF NextWithoutCameras, scheduler, service, TypeOK
  <2>3. CASE NextBegins
    <3>1. worker' \in WorkerType /\ cursor' \in Nat
      BY <2>3, ScanBegun
    <3>2. QED
      BY <2>0, <2>3, <3>1 DEF NextBegins, scheduler, service, TypeOK
  <2>4. CASE TakeNothing
    BY <2>0, <2>4, GotoFacts DEF TakeNothing, scheduler, service, Points, TypeOK
  <2>5. CASE TakeStale
    <3>1. worker' \in WorkerType
      BY <2>0, <2>5, GotoFacts DEF TakeStale, Points
    <3>2. passed' \in [Cameras -> Nat]
      BY <2>5 DEF TakeStale, TypeOK
    <3>3. QED
      BY <2>0, <2>5, <3>1, <3>2 DEF TakeStale, scheduler, service, TypeOK
  <2>6. CASE Take
    <3>1. worker' \in WorkerType
      BY <2>0, <2>6, GotoFacts DEF Take, Points
    <3>2. passed' \in [Cameras -> Nat]
      BY <2>6 DEF Take, TypeOK
    <3>3. Camera \in Cameras
      BY <2>6 DEF Take, TypeOK
    <3>4. QED
      BY <2>0, <2>6, <3>1, <3>2, <3>3 DEF Take, scheduler, service, TypeOK
  <2>7. CASE MoveCursor
    <3>1. worker' \in WorkerType
      BY <2>0, <2>7, GotoFacts DEF MoveCursor, Points
    <3>2. Index + 1 \in Nat /\ Len(worker.slots) \in Nat /\ Len(worker.slots) > 0
      BY <2>7, CameraFacts DEF MoveCursor, At, Scans, ScanInv
    <3>3. cursor' \in Nat
      BY <2>7, <3>2, WrapRange DEF MoveCursor
    <3>4. QED
      BY <2>0, <2>7, <3>1, <3>3 DEF MoveCursor, scheduler, service, TypeOK
  <2>8. CASE LookPending
    <3>1. worker' \in WorkerType
      BY <2>0, <2>8, LookFacts DEF TypeOK
    <3>2. QED
      BY <2>0, <2>8, <3>1 DEF LookPending, scheduler, service, TypeOK
  <2>9. CASE ScanEnds
    BY <2>0, <2>9, GotoFacts DEF ScanEnds, scheduler, service, Points, TypeOK
  <2>10. CASE Wait
    <3>1. (IF ~running THEN "ended" ELSE IF changed THEN "next" ELSE "asleep") \in Points
      BY DEF Points
    <3>2. worker' \in WorkerType
      BY <2>0, <2>10, <3>1, GotoFacts DEF Wait
    <3>3. QED
      BY <2>0, <2>10, <3>2 DEF Wait, scheduler, service, TypeOK
  <2>11. CASE TimedWaitEnds
    <3>1. (IF running THEN "next" ELSE "ended") \in Points
      BY DEF Points
    <3>2. worker' \in WorkerType
      BY <2>0, <2>11, <3>1, GotoFacts DEF TimedWaitEnds
    <3>3. QED
      BY <2>0, <2>11, <3>2 DEF TimedWaitEnds, scheduler, service, TypeOK
  <2>12. CASE Infer
    <3>1. (IF active THEN "next" ELSE "ended") \in Points
      BY DEF Points
    <3>2. worker' \in WorkerType
      BY <2>0, <2>12, <3>1, GotoFacts DEF Infer
    <3>3. QED
      BY <2>0, <2>12, <3>2 DEF Infer, scheduler, service, TypeOK
  <2>13. QED
    BY <1>3, <2>1, <2>2, <2>3, <2>4, <2>5, <2>6, <2>7, <2>8, <2>9, <2>10, <2>11, <2>12
       DEF WorkerStep
<1>4. QED
  BY <1>1, <1>2, <1>3 DEF Next, CameraStep

(* Only the two operations of the service touch the list of cameras.       *)
LEMMA CamerasStep ==
  ASSUME TypeOK, CamerasOnce, Next
  PROVE  CamerasOnce'
<1>1. CASE CameraStep
  <2>1. PICK c \in Cameras : \/ AddCamera(c) \/ RemoveCamera(c)
                             \/ PushFrame(c) \/ NotifyFrameAvailable(c)
                             \/ ClearFrames(c) \/ NextInferenceReached(c)
    BY <1>1 DEF CameraStep
  <2>2. CASE AddCamera(c) \/ RemoveCamera(c)
    BY <2>2, CameraLists DEF CamerasOnce
  <2>3. CASE ~(AddCamera(c) \/ RemoveCamera(c))
    BY <2>1, <2>3 DEF PushFrame, NotifyFrameAvailable, ClearFrames, NextInferenceReached,
                      scheduler, CamerasOnce
  <2>4. QED
    BY <2>2, <2>3
<1>2. CASE ServiceCall \/ ServiceStep
  BY <1>2 DEF ServiceCall, ServiceStep, ServiceStart, ServiceStop, SchedulerStart, Spawn,
              SchedulerStop, Join, scheduler, CamerasOnce
<1>3. CASE WorkerStep
  BY <1>3 DEF WorkerStep, NextStopped, NextWithoutCameras, NextBegins, TakeNothing, TakeStale,
              Take, MoveCursor, LookPending, ScanEnds, Wait, TimedWaitEnds, Infer, scheduler,
              CamerasOnce
<1>4. QED
  BY <1>1, <1>2, <1>3 DEF Next, CameraStep

(* A worker's step begins at one of these points.                          *)
LEMMA WorkerIsThere ==
  ASSUME WorkerStep
  PROVE  ~At("none") /\ UNCHANGED <<service, notifying, changes>>
BY DEF WorkerStep, NextStopped, NextWithoutCameras, NextBegins, TakeNothing, TakeStale,
       Take, MoveCursor, LookPending, ScanEnds, Wait, TimedWaitEnds, Infer, Scanning, At

(* start() joins the worker of before first.                               *)
LEMMA ServiceInvStep ==
  ASSUME TypeOK, ServiceInv, Next
  PROVE  ServiceInv'
<1>1. CASE ServiceCall \/ ServiceStep
  <2>1. CASE ServiceStart
    BY <2>1 DEF ServiceStart, ServiceInv, At
  <2>2. CASE ServiceStop
    BY <2>2 DEF ServiceStop, ServiceInv, At
  <2>3. CASE SchedulerStart
    BY <2>3, BumpFacts DEF SchedulerStart, ServiceInv, At, TypeOK
  <2>4. CASE Spawn \/ SchedulerStop
    BY <2>4 DEF Spawn, SchedulerStop, ServiceInv
  <2>5. CASE Join
    BY <2>5, NewWorker DEF Join, ServiceInv, At
  <2>6. QED
    BY <1>1, <2>1, <2>2, <2>3, <2>4, <2>5 DEF ServiceCall, ServiceStep
<1>2. CASE CameraStep
  <2>1. UNCHANGED api /\ (UNCHANGED worker \/ Bump)
    BY <1>2 DEF CameraStep, AddCamera, RemoveCamera, PushFrame, NotifyFrameAvailable,
                ClearFrames, NextInferenceReached, service
  <2>2. QED
    BY <2>1, BumpFacts DEF ServiceInv, At, TypeOK
<1>3. CASE WorkerStep
  BY <1>3, WorkerIsThere DEF ServiceInv, service
<1>4. QED
  BY <1>1, <1>2, <1>3 DEF Next, CameraStep

(* The worker stays in its slots.                                          *)
LEMMA ScanStep ==
  ASSUME TypeOK, CamerasOnce, ServiceInv, ScanInv, Next
  PROVE  ScanInv'
<1>0. worker \in WorkerType
  BY DEF TypeOK
<1>1. CASE ServiceCall \/ ServiceStep \/ CameraStep
  <2>1. Outside
    BY <1>1, OutsideSteps
  <2>2. CASE UNCHANGED worker
    BY <2>2 DEF ScanInv, At, Scans
  <2>3. CASE Bump
    BY <1>0, <2>3, BumpFacts DEF ScanInv, At, Scans
  <2>4. CASE worker' = [NoWorker EXCEPT !.at = "next"] \/ worker' = NoWorker
    BY <2>4, NewWorker DEF ScanInv, At, Scans
  <2>5. QED
    BY <2>1, <2>2, <2>3, <2>4 DEF Outside
<1>2. CASE WorkerStep
  <2>1. CASE worker'.at \notin Scans
    BY <2>1 DEF ScanInv
  <2>2. CASE NextBegins
    <3> DEFINE n == Len(Slots(cameras))
    <3>1. n \in Nat /\ worker'.start \in 0..(n - 1) /\ worker'.offset = 0
          /\ Len(worker'.slots) = n /\ worker'.at = "scan"
      BY <2>2, ScanBegun
    <3> HIDE DEF n
    <3>2. worker'.start < Len(worker'.slots) /\ worker'.offset <= Len(worker'.slots)
      BY <3>1
    <3>3. QED
      BY <3>1, <3>2 DEF ScanInv, At
  <2>3. CASE TakeNothing \/ TakeStale \/ Take
    <3>1. Goto("look") \/ Goto("took")
      BY <2>3 DEF TakeNothing, TakeStale, Take
    <3>2. worker.offset < Len(worker.slots) /\ worker.start < Len(worker.slots)
      BY <2>3 DEF TakeNothing, TakeStale, Take, Scanning, ScanInv, At, Scans
    <3>3. worker'.slots = worker.slots /\ worker'.start = worker.start
          /\ worker'.offset = worker.offset
      BY <1>0, <3>1, GotoFacts DEF Points
    <3>4. worker.offset <= Len(worker.slots)
      BY <2>3 DEF TakeNothing, TakeStale, Take, Scanning, ScanInv, At, Scans
    <3>5. QED
      BY <3>2, <3>3, <3>4 DEF ScanInv
  <2>4. CASE LookPending
    <3>1. worker.offset < Len(worker.slots) /\ worker.start < Len(worker.slots)
      BY <2>4 DEF LookPending, ScanInv, At, Scans
    <3>2. worker'.at = "scan" /\ worker'.slots = worker.slots /\ worker'.start = worker.start
          /\ worker'.offset = worker.offset + 1
      BY <1>0, <2>4, LookFacts DEF TypeOK
    <3>3. Len(worker.slots) \in Nat /\ worker.offset \in Nat
      BY <1>0 DEF WorkerType
    <3>4. worker.offset + 1 <= Len(worker.slots)
      BY <3>1, <3>3
    <3>5. QED
      BY <3>1, <3>2, <3>4 DEF ScanInv, At
  <2>5. CASE NextStopped \/ MoveCursor \/ ScanEnds \/ Infer \/ Wait \/ TimedWaitEnds
             \/ NextWithoutCameras
    <3>1. worker'.at \notin Scans
      <4>1. Goto("ended") \/ Goto("infer") \/ Goto("wait") \/ Goto("next") \/ Goto("asleep")
            => worker'.at \notin Scans
        BY <1>0, GotoFacts DEF Points, Scans
      <4>2. CASE NextWithoutCameras
        BY <1>0, <4>2 DEF NextWithoutCameras, WorkerType, Scans
      <4>3. CASE NextStopped \/ MoveCursor \/ ScanEnds \/ Infer \/ Wait \/ TimedWaitEnds
        BY <4>1, <4>3 DEF NextStopped, MoveCursor, ScanEnds, Infer, Wait, TimedWaitEnds
      <4>4. QED
        BY <2>5, <4>2, <4>3
    <3>2. QED
      BY <2>1, <3>1
  <2>6. QED
    BY <1>2, <2>2, <2>3, <2>4, <2>5 DEF WorkerStep
<1>3. QED
  BY <1>1, <1>2 DEF Next, CameraStep

(* No frame is lost from sight: a scan covers every camera, and what comes *)
(* behind its back is notified.                                            *)
LEMMA SleepStep ==
  ASSUME TypeOK, CamerasOnce, ServiceInv, ScanInv, SleepInv, Next
  PROVE  SleepInv'
<1>0. worker \in WorkerType /\ worker' \in WorkerType
  BY TypeStep DEF TypeOK
<1>1. CASE ServiceCall \/ ServiceStep \/ CameraStep
  <2>1. Outside
    BY <1>1, OutsideSteps
  <2>2. CASE Bump
    BY <1>0, <2>2, BumpFacts DEF SleepInv, At
  <2>3. CASE worker' = [NoWorker EXCEPT !.at = "next"] \/ worker' = NoWorker
    BY <2>3, NewWorker DEF SleepInv, At
  <2>4. CASE UNCHANGED worker /\ ~Bump
    <3>1. UNCHANGED <<running, changed, cameras>>
      BY <1>1, <2>4 DEF ServiceCall, ServiceStep, ServiceStart, ServiceStop, SchedulerStart,
                        Spawn, SchedulerStop, Join, CameraStep, AddCamera, RemoveCamera,
                        PushFrame, NotifyFrameAvailable, ClearFrames, NextInferenceReached,
                        scheduler, At, NoWorker
    <3>2. pending' \ notifying' \subseteq pending \ notifying
      BY <1>1, <2>4 DEF ServiceCall, ServiceStep, CameraStep, AddCamera, RemoveCamera,
                        PushFrame, NotifyFrameAvailable, ClearFrames, NextInferenceReached,
                        ServiceUnchanged, sources
    <3>3. Registered' = Registered
      BY <3>1 DEF Registered
    <3>4. UNCHANGED worker
      BY <2>4
    <3>5. QED
      BY <3>1, <3>2, <3>3, <3>4 DEF SleepInv, At
  <2>5. QED
    BY <2>1, <2>2, <2>3, <2>4 DEF Outside
<1>2. CASE WorkerStep
  <2>0. UNCHANGED notifying
    BY <1>2 DEF WorkerStep
  <2>1. CASE NextStopped \/ Take \/ MoveCursor \/ Infer \/ TimedWaitEnds
    <3>1. worker'.at \notin {"scan", "look", "wait", "asleep"}
      <4>1. Goto("ended") \/ Goto("took") \/ Goto("infer") \/ Goto("next")
            => worker'.at \notin {"scan", "look", "wait", "asleep"}
        BY <1>0, GotoFacts DEF Points
      <4>2. QED
        BY <2>1, <4>1 DEF NextStopped, Take, MoveCursor, Infer, TimedWaitEnds
    <3>2. QED
      BY <3>1 DEF SleepInv, At
  <2>2. CASE NextWithoutCameras
    <3>1. Registered' = {}
      BY <2>2 DEF NextWithoutCameras, Registered, ToSet
    <3>2. QED
      BY <2>2, <3>1 DEF NextWithoutCameras, SleepInv
  <2>3. CASE NextBegins
    <3> DEFINE s == Slots(cameras)
               n == Len(s)
    <3>1. /\ worker'.at = "scan" /\ worker'.slots = s /\ worker'.offset = 0
          /\ n \in Nat /\ n > 0 /\ worker'.start \in 0..(n - 1)
      BY <2>3, ScanBegun
    <3>2. UNCHANGED <<cameras, pending>> /\ Registered' = Registered
      BY <2>3 DEF NextBegins, Registered
    <3>3. \A c \in Registered : \E i \in 1..n : s[i] = c
      <4>1. TAKE c \in Registered
      <4>2. c \in Cameras /\ cameras # <<>>
        BY SomeCamera
      <4>3. PICK a \in Nat : Block(c, a, s)
        BY <4>2, SlotsNow
      <4>4. Weight[c] \in 1..16
        BY <4>2, WeightAssumption
      <4> DEFINE w == Weight[c]
      <4>5. a + w <= n /\ \A i \in 1..n : s[i] = c <=> a < i /\ i <= a + w
        BY <4>3 DEF Block
      <4> HIDE DEF w, n
      <4>6. a + 1 \in 1..n /\ a < a + 1 /\ a + 1 <= a + w
        BY <3>1, <4>4, <4>5 DEF w
      <4>7. QED
        BY <4>5, <4>6
    <3> HIDE DEF n
    <3>4. Registered \subseteq Unlooked(worker')
      <4>1. SUFFICES ASSUME NEW c \in Registered PROVE c \in Unlooked(worker')
        OBVIOUS
      <4>2. PICK i \in 1..n : s[i] = c
        BY <3>3
      <4>3. i - 1 \in 0..(n - 1) /\ (i - 1) + 1 = i
        BY <3>1
      <4>4. PICK k \in 0..(n - 1) : (worker'.start + k) % n = i - 1
        <5>1. \A u, j \in 0..(n - 1) : \E k \in 0..(n - 1) : (u + k) % n = j
          BY <3>1, RoundIsComplete
        <5>2. QED
          BY <3>1, <4>3, <5>1
      <4>5. c = worker'.slots[((worker'.start + k) % n) + 1]
        BY <3>1, <4>2, <4>3, <4>4
      <4>6. Len(worker'.slots) = n
        BY <3>1 DEF n
      <4>7. QED
        BY <3>1, <4>5, <4>6 DEF Unlooked
    <3>5. ~At("asleep")'
      BY <3>1 DEF At
    <3>6. QED
      BY <3>2, <3>4, <3>5 DEF SleepInv
  <2>4. CASE TakeNothing \/ TakeStale
    <3>1. /\ worker'.at = "look" /\ worker'.slots = worker.slots
          /\ worker'.start = worker.start /\ worker'.offset = worker.offset
          /\ worker'.awaited = worker.awaited
      BY <1>0, <2>4, GotoFacts DEF TakeNothing, TakeStale, Points
    <3>2. worker.at = "scan" /\ pending' \subseteq pending /\ UNCHANGED <<cameras, changed>>
      BY <2>4 DEF TakeNothing, TakeStale, Scanning, At, scheduler
    <3>3. Unlooked(worker') = Unlooked(worker)
      BY <3>1, <3>2 DEF Unlooked
    <3>4. Registered' = Registered
      BY <3>2 DEF Registered
    <3>5. QED
      BY <2>0, <3>1, <3>2, <3>3, <3>4 DEF SleepInv, At
  <2>5. CASE LookPending
    <3> DEFINE n == Len(worker.slots)
    <3>1. /\ worker'.at = "scan" /\ worker'.slots = worker.slots
          /\ worker'.start = worker.start /\ worker'.offset = worker.offset + 1
          /\ worker'.awaited = worker.awaited \cup ({Camera} \cap pending)
      BY <1>0, <2>5, LookFacts DEF TypeOK
    <3>2. worker.at = "look" /\ UNCHANGED <<cameras, changed, pending>>
      BY <2>5 DEF LookPending, At, scheduler
    <3>3. worker.offset \in Nat /\ n \in Nat
      BY <1>0 DEF WorkerType
    <3>4. Unlooked(worker) \subseteq Unlooked(worker') \cup {Camera}
      <4>1. SUFFICES ASSUME NEW c \in Unlooked(worker), c # Camera
                     PROVE  c \in Unlooked(worker')
        OBVIOUS
      <4>2. PICK k \in worker.offset..(n - 1) : c = worker.slots[((worker.start + k) % n) + 1]
        BY <3>2 DEF Unlooked
      <4>3. k # worker.offset
        BY <4>1, <4>2 DEF Camera, Index
      <4>4. k \in (worker.offset + 1)..(n - 1)
        <5> HIDE DEF n
        <5>1. QED
          BY <3>3, <4>2, <4>3
      <4>5. QED
        BY <3>1, <4>2, <4>4 DEF Unlooked
    <3>5. Registered' = Registered
      BY <3>2 DEF Registered
    <3>6. QED
      BY <2>0, <3>1, <3>2, <3>4, <3>5 DEF SleepInv, At
  <2>6. CASE ScanEnds
    <3>1. worker'.at = "wait" /\ worker'.awaited = worker.awaited
      BY <1>0, <2>6, GotoFacts DEF ScanEnds, Points
    <3>2. worker.at = "scan" /\ worker.offset = Len(worker.slots)
          /\ UNCHANGED <<cameras, changed, pending>>
      BY <2>6 DEF ScanEnds, At, scheduler
    <3>3. Unlooked(worker) = {}
      <4>1. Len(worker.slots) \in Nat
        BY <1>0 DEF WorkerType
      <4> DEFINE n == Len(worker.slots)
      <4>2. worker.offset..(n - 1) = {}
        <5>1. worker.offset = n
          BY <3>2
        <5> HIDE DEF n
        <5>2. n \in Nat
          BY <4>1 DEF n
        <5>3. QED
          BY <5>1, <5>2
      <4>3. QED
        BY <4>2 DEF Unlooked
    <3>4. Registered' = Registered
      BY <3>2 DEF Registered
    <3>5. QED
      BY <2>0, <3>1, <3>2, <3>3, <3>4 DEF SleepInv, At
  <2>7. CASE Wait
    <3>1. worker.at = "wait" /\ UNCHANGED <<running, cameras, changed, pending>>
      BY <2>7 DEF Wait, At, scheduler
    <3>2. Registered' = Registered
      BY <3>1 DEF Registered
    <3>3. CASE ~running \/ changed
      <4>1. Goto("ended") \/ Goto("next")
        BY <2>7, <3>3 DEF Wait
      <4>2. worker'.at = "ended" \/ worker'.at = "next"
        BY <1>0, <4>1, GotoFacts DEF Points
      <4>3. QED
        BY <4>2 DEF SleepInv, At
    <3>4. CASE running /\ ~changed
      <4>1. Goto("asleep")
        BY <2>7, <3>4 DEF Wait
      <4>2. worker'.at = "asleep" /\ worker'.awaited = worker.awaited
        BY <1>0, <4>1, GotoFacts DEF Points
      <4>3. Unlooked(worker) = {}
        BY <3>1 DEF Unlooked
      <4>4. QED
        BY <2>0, <3>1, <3>2, <3>4, <4>2, <4>3 DEF SleepInv, At
    <3>5. QED
      BY <3>3, <3>4
  <2>8. QED
    BY <1>2, <2>1, <2>2, <2>3, <2>4, <2>5, <2>6, <2>7 DEF WorkerStep
<1>3. QED
  BY <1>1, <1>2 DEF Next, CameraStep

(* A camera whose turn is coming keeps it as long as neither the list nor  *)
(* the worker's place in it changes.                                       *)
LEMMA TurnKept ==
  ASSUME TurnInv, NEW c \in Cameras, NEW a \in Nat, passed[c] > 0, passed'[c] = passed[c],
         cameras' = cameras, cursor' = cursor, Block(c, a, Slots(cameras)), Ready(c)',
         worker' = worker \/ (worker.at \notin Scans /\ worker'.at \notin Scans)
  PROVE  Turn(c, a)'
<1>1. Turn(c, a)
  BY DEF TurnInv
<1>2. CASE worker' = worker
  <2>1. worker' = worker
    BY <1>2
  <2>2. QED
    BY <1>1, <2>1 DEF Turn, At, Index
<1>3. CASE worker.at \notin Scans /\ worker'.at \notin Scans
  BY <1>1, <1>3 DEF Turn, At, Scans
<1>4. QED
  BY <1>2, <1>3

(* Nothing outside the worker passes a camera over.                        *)
LEMMA TurnOutside ==
  ASSUME TypeOK, ServiceInv, TurnInv, ServiceCall \/ ServiceStep \/ CameraStep
  PROVE  TurnInv'
<1>0. worker \in WorkerType
  BY DEF TypeOK
<1>1. SUFFICES ASSUME NEW c \in Cameras, NEW a \in Nat,
                      passed'[c] > 0, Block(c, a, Slots(cameras)')
               PROVE  Turn(c, a)'
  BY DEF TurnInv
<1>2. worker' = worker \/ (worker.at \notin Scans /\ worker'.at \notin Scans)
  <2>1. Outside
    BY OutsideSteps
  <2>2. CASE Bump
    BY <1>0, <2>2, BumpFacts DEF Bump, Scans
  <2>3. CASE (At("none") /\ worker' = [NoWorker EXCEPT !.at = "next"])
             \/ (At("ended") /\ worker' = NoWorker)
    BY <2>3, NewWorker DEF At, Scans
  <2>4. QED
    BY <2>1, <2>2, <2>3 DEF Outside
<1>3. CASE ServiceCall \/ ServiceStep
  <2>1. UNCHANGED <<cameras, cursor, sources, passed>>
    BY <1>3 DEF ServiceCall, ServiceStep, ServiceStart, ServiceStop, SchedulerStart,
                Spawn, SchedulerStop, Join, ServiceUnchanged, scheduler
  <2>2. Ready(c)' = Ready(c)
    BY <2>1 DEF Ready, Registered, sources
  <2>3. passed[c] > 0 /\ Block(c, a, Slots(cameras))
    BY <1>1, <2>1
  <2>4. Ready(c)
    BY <2>3 DEF TurnInv, Turn
  <2>5. QED
    BY <1>2, <2>1, <2>2, <2>3, <2>4, TurnKept
<1>4. CASE CameraStep
  <2>1. PICK d \in Cameras : \/ AddCamera(d) \/ RemoveCamera(d)
                             \/ PushFrame(d) \/ NotifyFrameAvailable(d)
                             \/ ClearFrames(d) \/ NextInferenceReached(d)
    BY <1>4 DEF CameraStep
  <2>2. ~AddCamera(d) /\ ~RemoveCamera(d)
    BY <1>1 DEF AddCamera, RemoveCamera, Unpassed
  <2>3. UNCHANGED <<cameras, cursor>> /\ throttled' \subseteq throttled
    BY <2>1, <2>2 DEF PushFrame, NotifyFrameAvailable, ClearFrames, NextInferenceReached,
                      scheduler
  <2>4. passed'[c] = passed[c] /\ (c \in pending => c \in pending')
    <3>1. CASE ClearFrames(d)
      <4>1. passed' = [passed EXCEPT ![d] = 0] /\ passed \in [Cameras -> Nat]
        BY <3>1 DEF ClearFrames, TypeOK
      <4>2. c # d
        BY <1>1, <4>1
      <4>3. QED
        BY <3>1, <4>1, <4>2 DEF ClearFrames
    <3>2. CASE ~ClearFrames(d)
      BY <2>1, <2>2, <3>2 DEF PushFrame, NotifyFrameAvailable, NextInferenceReached
    <3>3. QED
      BY <3>1, <3>2
  <2>5. passed[c] > 0 /\ Block(c, a, Slots(cameras))
    BY <1>1, <2>3, <2>4
  <2>6. Ready(c)
    BY <2>5 DEF TurnInv, Turn
  <2>7. Ready(c)'
    BY <2>3, <2>4, <2>6 DEF Ready, Registered
  <2>8. QED
    BY <1>2, <2>3, <2>4, <2>5, <2>7, TurnKept
<1>5. QED
  BY <1>3, <1>4

(* The slot the scan looks at is one of c exactly when its number is one   *)
(* of c's.                                                                 *)
LEMMA SlotIsTurn ==
  ASSUME TypeOK, CamerasOnce, ScanInv, worker.at \in Scans, worker.offset < Len(worker.slots),
         worker.slots = Slots(cameras), NEW c \in Cameras, NEW a \in Nat,
         Block(c, a, Slots(cameras))
  PROVE  LET n == Len(Slots(cameras))
             g == Gap(worker.start, a, Weight[c], n)
         IN  /\ n \in Nat /\ Weight[c] \in 1..16 /\ a + Weight[c] <= n /\ g \in Nat
             /\ g <= n - Weight[c]
             /\ worker.offset = g => Camera = c
             /\ Camera # c => Gap((Index + 1) % n, a, Weight[c], n) + 1 <= n - Weight[c]
             /\ worker.offset < g => Gap((Index + 1) % n, a, Weight[c], n) = g - worker.offset - 1
<1> DEFINE s == worker.slots
           n == Len(s)
           w == Weight[c]
           u == worker.start
           o == worker.offset
           g == Gap(u, a, w, n)
           j == (u + o) % n
<1>1. n \in Nat /\ n > 0 /\ u \in 0..(n - 1) /\ o \in Nat /\ j \in 0..(n - 1)
      /\ Index = j /\ Camera = s[j + 1]
  BY CameraFacts DEF Index, Camera
<1>2. w \in 1..16
  BY WeightAssumption
<1>3. a + w <= n /\ \A i \in 1..n : s[i] = c <=> a < i /\ i <= a + w
  BY DEF Block
<1>4. s = Slots(cameras)
  OBVIOUS
<1> HIDE DEF n, w, u, o, s
<1>5. g \in Nat /\ g <= n - w /\ a <= (u + g) % n /\ (u + g) % n < a + w
  <2>1. w \in Nat /\ w >= 1 /\ a + w <= n
    BY <1>2, <1>3
  <2>2. n \in Nat /\ u \in 0..(n - 1)
    BY <1>1
  <2>3. QED
    BY ONLY <2>1, <2>2, a \in Nat, GapFacts
<1>6. Camera = c <=> a <= j /\ j < a + w
  <2> HIDE DEF j
  <2>1. j + 1 \in 1..n /\ (a < j + 1 <=> a <= j) /\ (j + 1 <= a + w <=> j < a + w)
    BY <1>1, <1>2
  <2>2. QED
    BY <1>1, <1>3, <2>1
<1>7. o = g => Camera = c
  BY <1>5, <1>6
<1>8. Camera # c => Gap((j + 1) % n, a, w, n) + 1 <= n - w
  <2>1. SUFFICES ASSUME Camera # c PROVE Gap((j + 1) % n, a, w, n) + 1 <= n - w
    OBVIOUS
  <2>2. ~(a <= j /\ j < a + w)
    BY <1>6, <2>1
  <2> HIDE DEF j
  <2>3. QED
    BY <1>1, <1>2, <1>3, <2>2, GapAfterAnother
<1>9. o < g => Gap((j + 1) % n, a, w, n) = g - o - 1
  BY <1>1, <1>2, <1>3, GapShrinks
<1>10. QED
  BY <1>1, <1>2, <1>3, <1>4, <1>5, <1>7, <1>8, <1>9 DEF n, w, u, o, s, j

(* A round of the worker counts no camera out of its turn.                 *)
LEMMA TurnWorker ==
  ASSUME SchedulerInv, WorkerStep
  PROVE  TurnInv'
<1>0. TypeOK /\ CamerasOnce /\ ScanInv /\ TurnInv /\ worker \in WorkerType
  BY DEF SchedulerInv, TypeOK
<1>1. SUFFICES ASSUME NEW c \in Cameras, NEW a \in Nat,
                      passed'[c] > 0, Block(c, a, Slots(cameras)')
               PROVE  Turn(c, a)'
  BY DEF TurnInv
<1>2. UNCHANGED cameras
  BY DEF WorkerStep, NextStopped, NextWithoutCameras, NextBegins, TakeNothing, TakeStale,
         Take, MoveCursor, LookPending, ScanEnds, Wait, TimedWaitEnds, Infer, scheduler
<1> DEFINE n == Len(Slots(cameras))
           w == Weight[c]
           Left(u) == Gap(u, a, w, n)
<1>3. Block(c, a, Slots(cameras)) /\ passed[c] \in Nat
  BY <1>0, <1>1, <1>2 DEF TypeOK
<1>4. ASSUME passed[c] > 0 PROVE Turn(c, a)
  BY <1>0, <1>3, <1>4 DEF TurnInv
<1>5. w \in 1..16 /\ a + w <= n
  BY <1>3, WeightAssumption DEF Block
<1>6. n \in Nat /\ n > 0
  <2>1. CASE cameras = <<>>
    <3>1. Slots(cameras) = <<>>
      BY <2>1 DEF Slots, FlattenSeq
    <3>2. Slots(cameras) \in Seq(Cameras)
      BY <3>1
    <3>3. QED
      BY <1>5, <3>2
  <2>2. CASE cameras # <<>>
    BY <1>0, <2>2, SlotsNow
  <2>3. QED
    BY <2>1, <2>2
<1>7. \A u \in 0..(n - 1) : Left(u) \in Nat /\ Left(u) <= n - w
  <2> HIDE DEF n, w
  <2>1. w \in Nat /\ w >= 1
    BY <1>5
  <2>2. QED
    BY <1>5, <1>6, <2>1, GapFacts
<1>8. CASE NextStopped \/ NextWithoutCameras \/ Wait \/ TimedWaitEnds \/ Infer
  <2>1. UNCHANGED <<cursor, pending, throttled, passed>>
    BY <1>8 DEF NextStopped, NextWithoutCameras, Wait, TimedWaitEnds, Infer, scheduler
  <2>2. worker.at \notin Scans
    BY <1>8 DEF NextStopped, NextWithoutCameras, Wait, TimedWaitEnds, Infer, At, Scans
  <2>3. worker'.at \notin Scans
    <3>1. Goto("ended") \/ Goto("next") \/ Goto("asleep") => worker'.at \notin Scans
      BY <1>0, GotoFacts DEF Points, Scans
    <3>2. CASE NextWithoutCameras
      BY <1>0, <3>2 DEF NextWithoutCameras, WorkerType, Scans
    <3>3. CASE NextStopped \/ Wait \/ TimedWaitEnds \/ Infer
      BY <3>1, <3>3 DEF NextStopped, Wait, TimedWaitEnds, Infer
    <3>4. QED
      BY <1>8, <3>2, <3>3
  <2>4. passed[c] > 0 /\ passed'[c] = passed[c]
    BY <1>1, <2>1
  <2>5. Ready(c)'
    BY <1>2, <1>4, <2>1, <2>4 DEF Turn, Ready, Registered
  <2>6. QED
    BY <1>0, <1>2, <1>3, <2>1, <2>2, <2>3, <2>4, <2>5, TurnKept
<1>9. CASE NextBegins
  <2>1. UNCHANGED <<pending, throttled, passed>> /\ worker.at = "next"
    BY <1>9 DEF NextBegins, At
  <2>2. Turn(c, a) /\ passed'[c] = passed[c]
    BY <1>1, <1>4, <2>1
  <2>3. Ready(c) /\ cursor < n /\ passed[c] + Left(cursor) <= n - w /\ cursor \in Nat
    BY <1>0, <2>1, <2>2 DEF Turn, Scans, TypeOK
  <2>4. worker'.at = "scan" /\ worker'.slots = Slots(cameras) /\ worker'.offset = 0
        /\ worker'.early = throttled /\ worker'.start = cursor % n
    BY <1>0, <1>9, ScanBegun
  <2>5. cursor % n = cursor /\ cursor \in 0..(n - 1)
    <3> HIDE DEF n
    <3>1. QED
      BY <1>6, <2>3, Wrap
  <2>6. Ready(c)' /\ c \notin throttled
    BY <1>2, <2>1, <2>3 DEF Ready, Registered
  <2>7. 0 <= Left(cursor)
    BY <1>7, <2>5
  <2>8. QED
    BY <1>2, <2>2, <2>3, <2>4, <2>5, <2>6, <2>7 DEF Turn, At, Scans
<1>10. CASE TakeNothing \/ TakeStale
  <2>1. worker.at = "scan" /\ worker.offset < Len(worker.slots)
        /\ UNCHANGED <<cursor, throttled>>
    BY <1>10 DEF TakeNothing, TakeStale, Scanning, At, scheduler
  <2>2. passed[c] > 0 /\ passed'[c] = passed[c]
        /\ (Camera = c => TakeNothing) /\ (c \in pending => c \in pending' \/ Camera = c)
    <3>1. passed \in [Cameras -> Nat]
      BY <1>0 DEF TypeOK
    <3>2. CASE TakeNothing
      BY <1>1, <3>2 DEF TakeNothing
    <3>3. CASE TakeStale
      BY <1>1, <3>1, <3>3 DEF TakeStale
    <3>4. QED
      BY <1>10, <3>2, <3>3
  <2>3. Turn(c, a)
    BY <1>4, <2>2
  <2>4. /\ Ready(c) /\ worker.slots = Slots(cameras) /\ c \notin worker.early
        /\ passed[c] + Left(worker.start) <= n - w
        /\ worker.offset <= Left(worker.start)
    BY <2>1, <2>3 DEF Turn
  <2>5. Camera # c
    BY <2>2, <2>4 DEF TakeNothing, Ready
  <2>6. worker.offset # Left(worker.start)
    BY <1>0, <1>3, <2>1, <2>4, <2>5, SlotIsTurn DEF Scans
  <2>7. worker.offset < Left(worker.start)
    <3>1. worker.offset \in Nat /\ Left(worker.start) \in Nat
      BY <1>0, <1>3, <2>1, <2>4, SlotIsTurn DEF Scans, WorkerType
    <3> HIDE DEF Left
    <3>2. QED
      BY <2>4, <2>6, <3>1
  <2>8. worker'.at = "look" /\ worker'.slots = worker.slots /\ worker'.start = worker.start
        /\ worker'.offset = worker.offset /\ worker'.early = worker.early
    BY <1>0, <1>10, GotoFacts DEF TakeNothing, TakeStale, Points
  <2>9. Ready(c)'
    BY <1>2, <2>1, <2>2, <2>4, <2>5 DEF Ready, Registered
  <2>10. QED
    BY <1>2, <2>2, <2>4, <2>7, <2>8, <2>9 DEF Turn, At, Scans
<1>11. CASE Take
  <2>1. worker.at = "scan" /\ worker.offset < Len(worker.slots)
    BY <1>11 DEF Take, Scanning, At
  <2>2. Camera # c /\ passed'[c] = IF Ready(c) /\ worker.slots = Slots(cameras)
                                   THEN passed[c] + 1 ELSE passed[c]
    BY <1>1, <1>11 DEF Take
  <2>3. Ready(c) /\ worker.slots = Slots(cameras) /\ passed'[c] = passed[c] + 1
    <3>1. CASE passed[c] > 0
      BY <1>4, <2>1, <2>2, <3>1 DEF Turn
    <3>2. CASE ~(passed[c] > 0)
      BY <1>1, <2>2, <3>2
    <3>3. QED
      BY <3>1, <3>2
  <2> DEFINE v == Left((Index + 1) % n)
             g == Left(worker.start)
             o == worker.offset
  <2>4. /\ n \in Nat /\ g \in Nat
        /\ v + 1 <= n - w
        /\ o < g => v = g - o - 1
        /\ o = g => Camera = c
    BY <1>0, <1>3, <2>1, <2>2, <2>3, SlotIsTurn DEF Scans
  <2>5. passed[c] > 0 => passed[c] + g <= n - w /\ o <= g
    BY <1>4, <2>1 DEF Turn
  <2>6. o \in Nat
    BY <1>0 DEF WorkerType
  <2>7. passed'[c] + v <= n - w
    <3> HIDE DEF v, g, o, n, w
    <3>1. CASE passed[c] > 0
      <4>1. o < g
        BY <2>2, <2>4, <2>5, <2>6, <3>1
      <4>2. v = g - o - 1
        BY <2>4, <4>1
      <4>3. \A p, x, y, z \in Nat : \A b \in Int : p + x <= z - b => (p + 1) + (x - y - 1) <= z - b
        OBVIOUS
      <4>4. w \in Int
        BY <1>5
      <4>5. QED
        BY <1>3, <2>3, <2>4, <2>5, <2>6, <3>1, <4>2, <4>3, <4>4
    <3>2. CASE ~(passed[c] > 0)
      <4>1. passed[c] = 0
        BY <1>3, <3>2
      <4>2. v \in Int
        <5>1. Index + 1 \in Nat
          BY <1>0, <2>1, CameraFacts DEF Scans
        <5>2. (Index + 1) % n \in 0..(n - 1)
          BY <1>6, <5>1, WrapRange
        <5>3. QED
          BY <1>7, <5>2 DEF v
      <4>3. QED
        BY <2>3, <2>4, <4>1, <4>2
    <3>3. QED
      BY <3>1, <3>2
  <2>8. worker'.at = "took" /\ worker'.slots = worker.slots /\ worker'.start = worker.start
        /\ worker'.offset = worker.offset
    BY <1>0, <1>11, GotoFacts DEF Take, Points
  <2>9. Index' = Index
    BY <2>8 DEF Index
  <2>10. Ready(c)'
    BY <1>2, <1>11, <2>2, <2>3 DEF Take, Ready, Registered
  <2>11. QED
    BY <1>2, <2>3, <2>7, <2>8, <2>9, <2>10 DEF Turn, At, Scans
<1>12. CASE MoveCursor
  <2>1. worker.at = "took" /\ UNCHANGED <<pending, throttled, passed>>
        /\ cursor' = (Index + 1) % Len(worker.slots)
    BY <1>12 DEF MoveCursor, At
  <2>2. Turn(c, a) /\ passed'[c] = passed[c]
    BY <1>1, <1>4, <2>1
  <2>3. Ready(c) /\ worker.slots = Slots(cameras)
        /\ passed[c] + Left((Index + 1) % n) <= n - w
    BY <2>1, <2>2 DEF Turn, At
  <2>4. worker'.at = "infer"
    BY <1>0, <1>12, GotoFacts DEF MoveCursor, Points
  <2>5. cursor' < n
    <3>1. Index + 1 \in Nat
      BY <1>0, <2>1, CameraFacts DEF ScanInv, At, Scans
    <3> DEFINE x == Index + 1
    <3> HIDE DEF n, x
    <3>2. x % n \in 0..(n - 1)
      BY <1>6, <3>1, WrapRange DEF x
    <3>3. x % n < n
      BY <1>6, <3>2
    <3>4. QED
      BY <2>1, <2>3, <3>3 DEF n, x
  <2>6. Ready(c)'
    BY <1>2, <2>1, <2>3 DEF Ready, Registered
  <2>7. QED
    BY <1>2, <2>1, <2>2, <2>3, <2>4, <2>5, <2>6 DEF Turn, At, Scans
<1>13. CASE LookPending
  <2>1. worker.at = "look" /\ UNCHANGED <<cursor, pending, throttled, passed>>
    BY <1>13 DEF LookPending, At, scheduler
  <2>2. Turn(c, a) /\ passed'[c] = passed[c]
    BY <1>1, <1>4, <2>1
  <2>3. /\ Ready(c) /\ worker.slots = Slots(cameras) /\ c \notin worker.early
        /\ passed[c] + Left(worker.start) <= n - w
        /\ worker.offset < Left(worker.start)
    BY <2>1, <2>2 DEF Turn, At
  <2>4. worker'.at = "scan" /\ worker'.slots = worker.slots /\ worker'.start = worker.start
        /\ worker'.offset = worker.offset + 1 /\ worker'.early = worker.early
    BY <1>0, <1>13, LookFacts DEF TypeOK
  <2>5. worker.offset + 1 <= Left(worker.start)
    <3>1. worker.offset < Len(worker.slots)
      BY <1>0, <2>1 DEF ScanInv, At, Scans
    <3>2. worker.offset \in Nat /\ Left(worker.start) \in Nat
      BY <1>0, <1>3, <2>1, <2>3, <3>1, SlotIsTurn DEF Scans, WorkerType
    <3> HIDE DEF Left
    <3>3. QED
      BY <2>3, <3>2
  <2>6. Ready(c)'
    BY <1>2, <2>1, <2>3 DEF Ready, Registered
  <2>7. QED
    BY <1>2, <2>2, <2>3, <2>4, <2>5, <2>6 DEF Turn, At, Scans
<1>14. CASE ScanEnds
  <2>1. worker.at = "scan" /\ worker.offset = Len(worker.slots) /\ UNCHANGED passed
    BY <1>14 DEF ScanEnds, At
  <2>2. Turn(c, a)
    BY <1>1, <1>4, <2>1
  <2>3. worker.slots = Slots(cameras) /\ worker.offset <= Left(worker.start)
    BY <2>1, <2>2 DEF Turn
  <2>4. worker.start \in 0..(n - 1)
    <3>1. worker.start < n /\ worker.start \in Nat
      BY <1>0, <2>1, <2>3 DEF ScanInv, Scans, WorkerType
    <3> HIDE DEF n
    <3>2. QED
      BY <1>6, <3>1
  <2>5. n <= Left(worker.start) /\ Left(worker.start) \in Nat /\ Left(worker.start) <= n - w
    BY <1>7, <2>1, <2>3, <2>4
  <2> HIDE DEF n, w, Left
  <2>6. FALSE
    BY <1>5, <1>6, <2>5
  <2>7. QED
    BY <2>6
<1>15. QED
  BY <1>8, <1>9, <1>10, <1>11, <1>12, <1>13, <1>14 DEF WorkerStep
-----------------------------------------------------------------------------
(* Nothing changes, nothing is lost.                                       *)
LEMMA StutterInv ==
  ASSUME SchedulerInv, UNCHANGED vars
  PROVE  SchedulerInv'
<1>1. /\ UNCHANGED <<running, cameras, cursor, changed, active, api, restarting, starts>>
      /\ UNCHANGED <<pending, notifying, throttled, worker, changes, passed>>
  BY DEF vars, scheduler, service, sources
<1>2. TypeOK' /\ CamerasOnce' /\ ServiceInv' /\ ScanInv' /\ SleepInv'
  BY <1>1 DEF SchedulerInv, TypeOK, CamerasOnce, ServiceInv, ScanInv, SleepInv, Registered, At
<1>3. TurnInv'
  <2>1. SUFFICES ASSUME NEW c \in Cameras, NEW a \in Nat,
                        passed'[c] > 0, Block(c, a, Slots(cameras)')
                 PROVE  Turn(c, a)'
    BY DEF TurnInv
  <2>2. Turn(c, a) /\ passed[c] > 0 /\ Block(c, a, Slots(cameras)) /\ TurnInv
    BY <1>1, <2>1 DEF SchedulerInv, TurnInv
  <2>3. Ready(c)'
    BY <1>1, <2>2 DEF Turn, Ready, Registered
  <2>4. QED
    BY <1>1, <2>2, <2>3, TurnKept
<1>4. QED
  BY <1>2, <1>3 DEF SchedulerInv

(* Every reachable state of the scheduler and its worker satisfies the     *)
(* invariant.                                                              *)
THEOREM SchedulerInvariant == Spec => []SchedulerInv
<1>1. Init => SchedulerInv
  BY InitInv
<1>2. ASSUME SchedulerInv, Next PROVE SchedulerInv'
  <2>1. TypeOK' /\ CamerasOnce' /\ ServiceInv' /\ ScanInv' /\ SleepInv'
    BY <1>2, TypeStep, CamerasStep, ServiceInvStep, ScanStep, SleepStep DEF SchedulerInv
  <2>2. TurnInv'
    BY <1>2, TurnOutside, TurnWorker DEF SchedulerInv, Next, CameraStep
  <2>3. QED
    BY <2>1, <2>2 DEF SchedulerInv
<1>3. SchedulerInv /\ [Next]_vars => SchedulerInv'
  BY <1>2, StutterInv
<1>4. QED
  BY <1>1, <1>3, PTL DEF Spec

(* The variables keep their types.                                         *)
THEOREM TypeCorrect == Spec => []TypeOK
<1>1. SchedulerInv => TypeOK
  BY DEF SchedulerInv
<1>2. QED
  BY <1>1, SchedulerInvariant, PTL

(* NoFrameStranded: next() (InferenceScheduler.cpp) goes to sleep on no    *)
(* frame it does not know of and whose notification is not still to come,  *)
(* nor on a scheduler that was stopped, however many cameras there are.    *)
THEOREM WorkerMissesNoFrame == Spec => []NoFrameStranded
<1>1. SchedulerInv => NoFrameStranded
  <2>1. SUFFICES ASSUME SchedulerInv, At("asleep") PROVE NoFrameStranded
    BY DEF NoFrameStranded
  <2>2. Unlooked(worker) = {}
    BY <2>1 DEF Unlooked, At
  <2>3. QED
    BY <2>1, <2>2 DEF SchedulerInv, SleepInv, NoFrameStranded, At
<1>2. QED
  BY <1>1, SchedulerInvariant, PTL

(* BoundedBypass: in the weighted round robin a camera that could be       *)
(* served is passed over at most once for every slot of the others,        *)
(* whatever the cameras and their weights.                                 *)
THEOREM RoundRobinIsFair == Spec => []BoundedBypass
<1>1. ASSUME SchedulerInv PROVE BoundedBypass
  <2>0. TypeOK /\ CamerasOnce /\ ScanInv /\ TurnInv /\ worker \in WorkerType
    BY <1>1 DEF SchedulerInv, TypeOK
  <2>1. SUFFICES ASSUME NEW c \in Registered
                 PROVE  passed[c] <= Len(Slots(cameras)) - Weight[c]
    BY DEF BoundedBypass
  <2>2. c \in Cameras /\ cameras # <<>>
    BY <2>0, SomeCamera
  <2> DEFINE n == Len(Slots(cameras))
             w == Weight[c]
  <2>3. PICK a \in Nat : Block(c, a, Slots(cameras))
    BY <2>0, <2>2, SlotsNow
  <2>4. n \in Nat /\ n > 0 /\ w \in 1..16 /\ a + w <= n /\ passed[c] \in Nat
    BY <2>0, <2>2, <2>3, SlotsNow, WeightAssumption DEF Block, TypeOK
  <2> DEFINE Left(u) == Gap(u, a, w, n)
  <2>5. \A u \in 0..(n - 1) : Left(u) \in Nat
    <3> HIDE DEF n, w
    <3>1. w \in Nat /\ w >= 1
      BY <2>4
    <3>2. QED
      BY <2>4, <3>1, GapFacts
  <2>6. CASE passed[c] = 0
    <3> HIDE DEF n, w
    <3>1. passed[c] <= n - w
      BY <2>4, <2>6
    <3>2. QED
      BY <3>1 DEF n, w
  <2>7. CASE passed[c] > 0
    <3>1. Turn(c, a)
      BY <2>0, <2>2, <2>3, <2>7 DEF TurnInv
    <3>2. \E u \in 0..(n - 1) : passed[c] + Left(u) <= n - w
      <4>1. CASE worker.at \in {"scan", "look"}
        <5>1. worker.slots = Slots(cameras) /\ passed[c] + Left(worker.start) <= n - w
          BY <3>1, <4>1 DEF Turn
        <5>2. worker.start \in Nat /\ worker.start < n
          BY <2>0, <4>1, <5>1 DEF ScanInv, Scans, WorkerType
        <5>3. worker.start \in 0..(n - 1)
          <6> HIDE DEF n
          <6>1. QED
            BY <2>4, <5>2
        <5>4. QED
          BY <5>1, <5>3
      <4>2. CASE worker.at = "took"
        <5>1. worker.slots = Slots(cameras) /\ passed[c] + Left((Index + 1) % n) <= n - w
          BY <3>1, <4>2 DEF Turn, At
        <5>2. Index + 1 \in Nat
          BY <2>0, <4>2, CameraFacts DEF ScanInv, At, Scans
        <5>3. (Index + 1) % n \in 0..(n - 1)
          BY <2>4, <5>2, WrapRange
        <5>4. QED
          BY <5>1, <5>3
      <4>3. CASE worker.at \notin Scans
        <5>1. cursor < n /\ passed[c] + Left(cursor) <= n - w /\ cursor \in Nat
          BY <2>0, <3>1, <4>3 DEF Turn, TypeOK
        <5>2. cursor \in 0..(n - 1)
          <6> HIDE DEF n
          <6>1. QED
            BY <2>4, <5>1
        <5>3. QED
          BY <5>1, <5>2
      <4>4. QED
        BY <4>1, <4>2, <4>3 DEF Scans
    <3>3. PICK u \in 0..(n - 1) : passed[c] + Left(u) <= n - w
      BY <3>2
    <3>4. Left(u) \in Nat
      BY <2>5, <3>3
    <3> HIDE DEF n, w, Left
    <3>5. passed[c] <= n - w
      BY <2>4, <3>3, <3>4
    <3>6. QED
      BY <3>5 DEF n, w
  <2>8. QED
    BY <2>4, <2>6, <2>7
<1>2. QED
  BY <1>1, SchedulerInvariant, PTL
=============================================================================
