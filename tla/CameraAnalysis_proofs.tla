------------------------ MODULE CameraAnalysis_proofs -------------------------
(***************************************************************************)
(* Theorems about the monitor alone, and about tracker and monitor         *)
(* together as a camera session runs them: for any objects, limits and     *)
(* thresholds, and results of any detections.                              *)
(***************************************************************************)
EXTENDS CameraAnalysis, LatestValueQueueOps_proofs

Said  == {"nothing", "detected", "confirmed", "lost"}
Entry == [state : {"Candidate", "Confirmed"}, observed : Nat, missed : Nat]

MonitorTypeOK == /\ Known \subseteq Objects
                 /\ objects \in [Known -> Entry]
                 /\ told \in [Objects -> Said]

(* What was last said of a candidate is that it was detected.              *)
CandidatesTold == \A o \in Known : objects[o].state = "Candidate" => told[o] = "detected"

MonitorInv == MonitorTypeOK /\ EventsTellPresence /\ CandidatesTold

(* The limits after the constructor has seen to them are numbers.           *)
LEMMA LimitsAreNatural == ToConfirm \in Nat /\ ToLose \in Nat
BY FramesAssumption DEF ToConfirm, ToLose

(* What update() makes of an object's entry is an entry again.             *)
LEMMA ObservedType == ASSUME MonitorTypeOK, NEW o PROVE Observed(o) \in Entry
<1>1. Before(o) \in Entry
  BY DEF Before, Entry, MonitorTypeOK
<1>2. QED
  BY <1>1, LimitsAreNatural DEF Observed, Entry

(* Only an object that was confirmed is given up.                          *)
LEMMA GivenAreConfirmed ==
  ASSUME MonitorInv, NEW seen, NEW o \in Given(seen)
  PROVE  o \in Objects /\ o \in Known /\ o \notin seen /\ told[o] = "confirmed"
BY DEF Given, Missed, MonitorInv, MonitorTypeOK, EventsTellPresence

(* What the events of a result say of an object that is in it.             *)
LEMMA SeenAreTold ==
  ASSUME MonitorInv, NEW o \in Objects
  PROVE  /\ ToldOf(o) = IF Observed(o).state = "Confirmed" THEN "confirmed" ELSE "detected"
         /\ \/ ToldOf(o) = told[o]
            \/ ToldOf(o) = Life!Heard(told[o], ToldOf(o))
            \/ ToldOf(o) = Life!Heard(Life!Heard(told[o], "detected"), ToldOf(o))
<1>1. told[o] \in Said
  BY DEF MonitorInv, MonitorTypeOK
<1>2. CASE o \in Known
  <2>1. objects[o].state \in {"Candidate", "Confirmed"}
    BY <1>2 DEF MonitorInv, MonitorTypeOK, Entry
  <2>2. CASE objects[o].state = "Candidate"
    <3>1. told[o] = "detected"
      BY <1>2, <2>2 DEF MonitorInv, CandidatesTold
    <3>2. QED
      BY <1>2, <2>2, <3>1 DEF ToldOf, Announced, Confirms, Observed, Before, Life!Heard
  <2>3. CASE objects[o].state = "Confirmed"
    <3>1. told[o] = "confirmed"
      BY <1>2, <2>3 DEF MonitorInv, EventsTellPresence
    <3>2. QED
      BY <1>2, <2>3, <3>1 DEF ToldOf, Announced, Confirms, Observed, Before
  <2>4. QED
    BY <2>1, <2>2, <2>3
<1>3. CASE o \notin Known
  <2>1. told[o] \in {"nothing", "detected", "lost"}
    BY <1>1, <1>3 DEF MonitorInv, EventsTellPresence, Said
  <2>2. Announced(o) = "detected"
    BY <1>3, <2>1 DEF Announced, Life!Heard
  <2>3. Before(o).state = "Candidate"
    BY <1>3 DEF Before
  <2>4. QED
    BY <2>1, <2>2, <2>3, <1>3 DEF ToldOf, Announced, Confirms, Observed, Life!Heard
<1>4. QED
  BY <1>2, <1>3

(* An update keeps the types.                                              *)
LEMMA UpdateKeepsType ==
  ASSUME MonitorInv, NEW seen \in SUBSET Objects, MonitorUpdate(seen)
  PROVE  MonitorTypeOK'
<1>1. /\ Known' = seen \cup StillKnown(seen)
      /\ StillKnown(seen) \subseteq Known
  BY DEF MonitorUpdate, Known, StillKnown, Missed
<1>2. Known' \subseteq Objects
  BY <1>1 DEF MonitorInv, MonitorTypeOK
<1>3. objects' \in [Known' -> Entry]
  <2>1. \A o \in seen : Observed(o) \in Entry
    BY ObservedType DEF MonitorInv
  <2>2. \A o \in StillKnown(seen) : [objects[o] EXCEPT !.missed = @ + 1] \in Entry
    BY <1>1 DEF MonitorInv, MonitorTypeOK, Entry
  <2>3. QED
    BY <1>1, <2>1, <2>2 DEF MonitorUpdate
<1>4. told' \in [Objects -> Said]
  <2>1. \A o \in Objects : ToldOf(o) \in Said
    BY SeenAreTold DEF Said
  <2>2. \A o \in Given(seen) : Life!Heard(told[o], "lost") \in Said
    BY GivenAreConfirmed DEF Life!Heard, Said
  <2>3. \A o \in Objects : told[o] \in Said
    BY DEF MonitorInv, MonitorTypeOK
  <2>4. QED
    BY <2>1, <2>2, <2>3 DEF MonitorUpdate
<1>5. QED
  BY <1>2, <1>3, <1>4 DEF MonitorTypeOK

(* An update keeps what a subscriber holds for present true.               *)
LEMMA UpdateKeepsTruth ==
  ASSUME MonitorInv, NEW seen \in SUBSET Objects, MonitorUpdate(seen)
  PROVE  EventsTellPresence' /\ CandidatesTold'
<1>1. Known' = seen \cup StillKnown(seen)
  BY DEF MonitorUpdate, Known
<1>2. SUFFICES ASSUME NEW o \in Objects
               PROVE  /\ told'[o] = "confirmed"
                           <=> o \in Known' /\ objects'[o].state = "Confirmed"
                      /\ o \in Known' /\ objects'[o].state = "Candidate"
                           => told'[o] = "detected"
  <2>1. Known' \subseteq Objects
    BY UpdateKeepsType DEF MonitorTypeOK
  <2>2. QED
    BY <2>1, <1>2 DEF EventsTellPresence, CandidatesTold
<1>3. CASE o \in seen
  <2>1. o \in Known' /\ objects'[o] = Observed(o) /\ told'[o] = ToldOf(o)
    BY <1>1, <1>3 DEF MonitorUpdate
  <2>2. Observed(o) \in Entry
    BY ObservedType DEF MonitorInv
  <2>3. QED
    BY <2>1, <2>2, SeenAreTold DEF Entry
<1>4. CASE o \in StillKnown(seen) /\ o \notin seen
  <2>1. /\ o \in Known /\ o \notin Given(seen)
        /\ objects[o].state = "Confirmed" /\ objects[o] \in Entry
    BY <1>4 DEF StillKnown, Missed, MonitorInv, MonitorTypeOK
  <2>2. objects'[o] = [objects[o] EXCEPT !.missed = @ + 1] /\ told'[o] = told[o]
    BY <1>4, <2>1 DEF MonitorUpdate
  <2>3. objects'[o].state = "Confirmed"
    BY <2>1, <2>2 DEF Entry
  <2>4. told[o] = "confirmed"
    BY <2>1 DEF MonitorInv, EventsTellPresence
  <2>5. QED
    BY <1>1, <1>4, <2>2, <2>3, <2>4
<1>5. CASE o \notin seen /\ o \notin StillKnown(seen)
  <2>1. o \notin Known'
    BY <1>1, <1>5
  <2>2. CASE o \in Given(seen)
    <3>1. told'[o] = Life!Heard(told[o], "lost")
      BY <1>5, <2>2 DEF MonitorUpdate
    <3>2. told'[o] = "lost"
      BY <3>1, <2>2, GivenAreConfirmed DEF Life!Heard
    <3>3. QED
      BY <2>1, <3>2
  <2>3. CASE o \notin Given(seen)
    <3>1. told'[o] = told[o]
      BY <1>5, <2>3 DEF MonitorUpdate
    <3>2. ~(o \in Known /\ objects[o].state = "Confirmed")
      BY <1>5, <2>3 DEF StillKnown, Missed
    <3>3. QED
      BY <2>1, <3>1, <3>2 DEF MonitorInv, EventsTellPresence
  <2>4. QED
    BY <2>2, <2>3
<1>6. QED
  BY <1>3, <1>4, <1>5

(* The invariant holds initially.                                          *)
LEMMA MonitorInvInit == MonitorInit => MonitorInv
BY DEF MonitorInit, MonitorInv, MonitorTypeOK, EventsTellPresence, CandidatesTold, NoObjects,
       Known, Life!Silence, Said

(* Every step keeps it.                                                    *)
LEMMA MonitorInvNext == MonitorInv /\ [MonitorNext]_monitor => MonitorInv'
<1> SUFFICES ASSUME MonitorInv, [MonitorNext]_monitor PROVE MonitorInv'
  OBVIOUS
<1>1. CASE \E seen \in SUBSET Objects : MonitorUpdate(seen)
  BY <1>1, UpdateKeepsType, UpdateKeepsTruth DEF MonitorInv
<1>2. CASE MonitorReset
  BY <1>2 DEF MonitorReset, MonitorInv, MonitorTypeOK, EventsTellPresence, CandidatesTold,
              NoObjects, Known, Life!Silence, Said
<1>3. CASE UNCHANGED monitor
  BY <1>3 DEF monitor, MonitorInv, MonitorTypeOK, EventsTellPresence, CandidatesTold, Known
<1>4. QED
  BY <1>1, <1>2, <1>3 DEF MonitorNext

(* It holds in every reachable state.                                      *)
LEMMA MonitorInvAlways == MonitorSpec => []MonitorInv
BY MonitorInvInit, MonitorInvNext, PTL DEF MonitorSpec

(* A subscriber of the monitor's events holds an object for present        *)
(* exactly while the monitor does: whatever is seen and missed, in any     *)
(* order, with any limits, and after any number of resets                  *)
(* (MultiObjectMonitor.cpp, update and reset).                             *)
THEOREM EventsAreTheWholeTruth == MonitorSpec => []EventsTellPresence
<1>1. MonitorInv => EventsTellPresence
  BY DEF MonitorInv
<1>2. QED
  BY <1>1, MonitorInvAlways, PTL

(* What an update tells is a step of the abstract lives.                   *)
LEMMA UpdateTells ==
  ASSUME MonitorInv, NEW seen \in SUBSET Objects, MonitorUpdate(seen)
  PROVE  Life!Tell
<1> DEFINE S == {o \in Objects : told'[o] # told[o]}
<1>1. told' \in [Objects -> Said]
  BY UpdateKeepsType DEF MonitorTypeOK
<1>2. ASSUME NEW o \in S
      PROVE  \/ told'[o] = Life!Heard(told[o], told'[o])
             \/ told'[o] = Life!Heard(Life!Heard(told[o], "detected"), told'[o])
  <2>1. CASE o \in seen
    BY <1>2, <2>1, SeenAreTold DEF MonitorUpdate
  <2>2. CASE o \notin seen
    <3>1. o \in Given(seen) /\ told'[o] = Life!Heard(told[o], "lost")
      BY <1>2, <2>2 DEF MonitorUpdate
    <3>2. QED
      BY <3>1, GivenAreConfirmed DEF Life!Heard
  <2>3. QED
    BY <2>1, <2>2
<1>3. \A o \in Objects \ S : told'[o] = told[o]
  OBVIOUS
<1>4. S \in SUBSET Objects
  OBVIOUS
<1> HIDE DEF S
<1>5. QED
  BY <1>1, <1>2, <1>3, <1>4 DEF Life!Tell, Said

(* The events of update() and the silence of reset() follow the life of an *)
(* object: announced before it is confirmed, confirmed once, and lost once *)
(* and only after that (MultiObjectMonitor.cpp, update and reset).         *)
THEOREM MonitorImplementsObjectLife == MonitorSpec => ImplementsObjectLife
<1>1. MonitorInit => Life!Init
  BY DEF MonitorInit, Life!Init
<1>2. MonitorInv /\ [MonitorNext]_monitor => [Life!Next]_told
  <2> SUFFICES ASSUME MonitorInv, [MonitorNext]_monitor PROVE [Life!Next]_told
    OBVIOUS
  <2>1. CASE \E seen \in SUBSET Objects : MonitorUpdate(seen)
    BY <2>1, UpdateTells DEF Life!Next
  <2>2. CASE MonitorReset
    BY <2>2 DEF MonitorReset, Life!Next, Life!Restart
  <2>3. CASE UNCHANGED monitor
    BY <2>3 DEF monitor
  <2>4. QED
    BY <2>1, <2>2, <2>3 DEF MonitorNext
<1>3. QED
  BY <1>1, <1>2, MonitorInvAlways, PTL DEF MonitorSpec, ImplementsObjectLife, Life!Spec

-----------------------------------------------------------------------------
(* Tracks.                                                                 *)

(* What the tracker keeps of one.                                          *)
Track == [id : Nat \ {0}, class : Int, box : Box, hits : Nat, lost : Nat]

(* Tracks have ids that have been given out.                               *)
TracksOK(ts, next) == /\ ts \in Seq(Track) /\ next \in Nat \ {0}
                      /\ \A i \in 1..Len(ts) : ts[i].id < next

-----------------------------------------------------------------------------
(* The choice of a track.                                                  *)

(* Multiplying keeps an order, and dividing by a positive number does.     *)
LEMMA Multiply ==
  ASSUME NEW a \in Nat, NEW b \in Nat, NEW c \in Nat
  PROVE  /\ a <= b => a * c <= b * c
         /\ c > 0 /\ a * c <= b * c => a <= b
         /\ a * c \in Nat
OBVIOUS

(* Fractions compared by cross-multiplication are ordered.                 *)
LEMMA FractionsAreOrdered ==
  ASSUME NEW p \in Nat, NEW q \in Nat, NEW r \in Nat,
         NEW u \in Nat, NEW v \in Nat, NEW w \in Nat, v > 0,
         p * v <= q * u, q * w <= r * v
  PROVE  p * w <= r * u
<1>1. (p * v) * w <= (q * u) * w
  BY Multiply
<1>2. (q * w) * u <= (r * v) * u
  BY Multiply
<1>3. (q * u) * w = (q * w) * u /\ (p * v) * w = (p * w) * v /\ (r * v) * u = (r * u) * v
  OBVIOUS
<1>4. (p * w) * v <= (r * u) * v
  <2>1. p * w \in Nat /\ r * u \in Nat /\ (p * w) * v \in Nat /\ (r * u) * v \in Nat
        /\ (q * w) * u \in Nat
    BY Multiply
  <2>2. QED
    BY <1>1, <1>2, <1>3, <2>1
<1>5. p * w \in Nat /\ r * u \in Nat
  BY Multiply
<1>6. QED
  BY <1>4, <1>5, Multiply

(* An overlap is an area, and what two boxes cover together is not empty.  *)
LEMMA Areas ==
  ASSUME NEW a \in Box, NEW b \in Box
  PROVE  Overlap(a, b) \in Nat /\ Union(a, b) \in Nat /\ Union(a, b) > 0
<1> DEFINE s == Shared(a.x, b.x, a.size, b.size)
           t == Shared(a.y, b.y, a.size, b.size)
           m == a.size
           n == b.size
<1>1. a.x \in Int /\ a.y \in Int /\ b.x \in Int /\ b.y \in Int /\ m \in Nat /\ m > 0
      /\ n \in Nat /\ n > 0
  BY DEF Box
<1>2. s \in Nat /\ s <= m
  BY <1>1 DEF Shared
<1>3. t \in Nat /\ t <= m
  BY <1>1 DEF Shared
<1> HIDE DEF s, t, m, n
<1>4. s * t \in Nat /\ s * t <= m * m
  <2>1. s * t <= m * t /\ t * m <= m * m /\ t * m = m * t
    BY <1>1, <1>2, <1>3, Multiply
  <2>2. s * t \in Nat /\ m * t \in Nat /\ m * m \in Nat
    BY <1>1, <1>2, <1>3, Multiply
  <2>3. QED
    BY <2>1, <2>2
<1>5. m * m \in Nat /\ n * n \in Nat /\ n * n > 0
  BY <1>1, Multiply
<1>6. (m * m) + (n * n) - (s * t) \in Nat /\ (m * m) + (n * n) - (s * t) > 0
  BY <1>4, <1>5
<1>7. QED
  BY <1>4, <1>6 DEF Overlap, Union, s, t, m, n

Prefers(s, d, i, j) ==
  \/ OverlapsLess(s.tracks[j].box, s.tracks[i].box, d.box)
  \/ ~OverlapsLess(s.tracks[i].box, s.tracks[j].box, d.box) /\ j <= i

(* Of the boxes a, b and c compared with another: if a does not overlap    *)
(* less than b, and b not less than c, then a does not less than c.        *)
LEMMA OverlapsAreOrdered ==
  ASSUME NEW a \in Box, NEW b \in Box, NEW c \in Box, NEW e \in Box,
         ~OverlapsLess(a, b, e), ~OverlapsLess(b, c, e)
  PROVE  ~OverlapsLess(a, c, e)
<1> DEFINE p == Overlap(a, e)
           q == Overlap(b, e)
           r == Overlap(c, e)
           u == Union(a, e)
           v == Union(b, e)
           w == Union(c, e)
<1>1. p \in Nat /\ q \in Nat /\ r \in Nat /\ u \in Nat /\ v \in Nat /\ w \in Nat /\ v > 0
  BY Areas
<1>2. ~(p * v < q * u) /\ ~(q * w < r * v)
  BY DEF OverlapsLess
<1> HIDE DEF p, q, r, u, v, w
<1>3. p * v \in Nat /\ q * u \in Nat /\ q * w \in Nat /\ r * v \in Nat
      /\ p * w \in Nat /\ r * u \in Nat
  BY <1>1, Multiply
<1>4. r * v <= q * w /\ q * u <= p * v
  BY <1>2, <1>3
<1>5. r * u <= p * w
  BY <1>1, <1>4, FractionsAreOrdered
<1>6. ~(p * w < r * u)
  BY <1>3, <1>5
<1>7. QED
  BY <1>6 DEF OverlapsLess, p, r, u, w

(* Neither of two boxes overlaps less than the other does than it.         *)
LEMMA OverlapsAreStrict ==
  ASSUME NEW a \in Box, NEW b \in Box, NEW e \in Box
  PROVE  ~(OverlapsLess(a, b, e) /\ OverlapsLess(b, a, e)) /\ ~OverlapsLess(a, a, e)
<1> DEFINE p == Overlap(a, e)
           q == Overlap(b, e)
           u == Union(a, e)
           v == Union(b, e)
<1>1. p \in Nat /\ q \in Nat /\ u \in Nat /\ v \in Nat
  BY Areas
<1> HIDE DEF p, q, u, v
<1>2. p * v \in Nat /\ q * u \in Nat /\ p * u \in Nat
  BY <1>1, Multiply
<1>3. ~(p * v < q * u /\ q * u < p * v) /\ ~(p * u < p * u)
  BY <1>2
<1>4. QED
  BY <1>3 DEF OverlapsLess, p, q, u, v

(* A best candidate exists, and it is the one chosen.                      *)
LEMMA BestIsCandidate ==
  ASSUME NEW s, s.tracks \in Seq(Track), NEW d \in Detection, Candidates(s, d) # {}
  PROVE  BestTrack(s, d) \in Candidates(s, d)
<1> DEFINE K == Candidates(s, d)
           B(i) == s.tracks[i].box
           L == Len(s.tracks)
           Below(n) == {i \in K : i <= n}
           Is(b, n) == b \in K /\ b <= n /\ \A j \in Below(n) : Prefers(s, d, b, j)
           T == {n \in Nat : Below(n) # {} => \E b \in K : Is(b, n)}
<1>1. L \in Nat /\ K \subseteq 1..L /\ d.box \in Box
  BY DEF Candidates, Detection
<1>2. \A i \in K : B(i) \in Box /\ i \in Nat /\ i >= 1
  <2>1. \A i \in 1..L : s.tracks[i] \in Track
    OBVIOUS
  <2>2. \A i \in 1..L : B(i) \in Box
    BY <2>1 DEF Track
  <2>3. QED
    BY <1>1, <2>2
<1> HIDE DEF K, B, L
<1>3. 0 \in T
  BY <1>2
<1>4. ASSUME NEW n \in Nat, n \in T PROVE n + 1 \in T
  <2>1. SUFFICES ASSUME Below(n + 1) # {} PROVE \E b \in K : Is(b, n + 1)
    OBVIOUS
  <2>2. \A i \in Below(n + 1) : i \in Below(n) \/ i = n + 1
    BY <1>2
  <2>3. CASE n + 1 \notin K
    <3>1. Below(n) = Below(n + 1)
      BY <1>2, <2>2, <2>3
    <3>2. PICK b \in K : Is(b, n)
      BY <1>4, <2>1, <3>1
    <3>3. b <= n + 1
      BY <1>2, <3>2
    <3>4. QED
      BY <3>1, <3>2, <3>3
  <2>4. CASE n + 1 \in K /\ Below(n) = {}
    <3>1. Below(n + 1) \subseteq {n + 1}
      BY <2>2, <2>4
    <3>2. Prefers(s, d, n + 1, n + 1)
      <4>1. ~OverlapsLess(B(n + 1), B(n + 1), d.box)
        BY <1>1, <1>2, <2>4, OverlapsAreStrict
      <4>2. QED
        BY <4>1 DEF Prefers, B
    <3>3. Is(n + 1, n + 1)
      BY <2>4, <3>1, <3>2
    <3>4. QED
      BY <2>4, <3>3
  <2>5. CASE n + 1 \in K /\ Below(n) # {}
    <3>1. PICK b \in K : Is(b, n)
      BY <1>4, <2>5
    <3>2. CASE OverlapsLess(B(n + 1), B(b), d.box)
      <4>1. Prefers(s, d, b, n + 1)
        BY <3>2 DEF Prefers, B
      <4>2. b <= n + 1
        BY <1>2, <3>1
      <4>3. Is(b, n + 1)
        BY <2>2, <3>1, <4>1, <4>2
      <4>4. QED
        BY <4>3
    <3>3. CASE ~OverlapsLess(B(n + 1), B(b), d.box)
      <4>1. ASSUME NEW j \in Below(n) PROVE Prefers(s, d, n + 1, j)
        <5>1. Prefers(s, d, b, j) /\ j \in K /\ j <= n
          BY <3>1
        <5>2. ~OverlapsLess(B(b), B(j), d.box)
          BY <1>1, <1>2, <5>1, OverlapsAreStrict DEF Prefers, B
        <5>3. ~OverlapsLess(B(n + 1), B(j), d.box)
          BY <1>1, <1>2, <2>5, <3>3, <5>1, <5>2, OverlapsAreOrdered
        <5>4. j <= n + 1
          BY <1>2, <5>1
        <5>5. QED
          BY <5>3, <5>4 DEF Prefers, B
      <4>2. Prefers(s, d, n + 1, n + 1)
        <5>1. ~OverlapsLess(B(n + 1), B(n + 1), d.box)
          BY <1>1, <1>2, <2>5, OverlapsAreStrict
        <5>2. QED
          BY <5>1 DEF Prefers, B
      <4>3. Is(n + 1, n + 1)
        BY <2>2, <2>5, <4>1, <4>2
      <4>4. QED
        BY <2>5, <4>3
    <3>4. QED
      BY <3>2, <3>3
  <2>6. QED
    BY <2>3, <2>4, <2>5
<1>5. Nat \subseteq T
  <2> HIDE DEF T
  <2>1. QED
    BY <1>3, <1>4, InductionOnSet
<1>6. \E b \in K : \A j \in K : Prefers(s, d, b, j)
  <2>1. L \in T
    BY <1>1, <1>5
  <2>2. Below(L) = K
    <3>1. \A i \in 1..L : i <= L
      BY <1>1
    <3>2. \A i \in K : i <= L
      BY <1>1, <3>1
    <3>3. QED
      BY <3>2
  <2>3. K # {}
    BY DEF K
  <2>4. QED
    BY <2>1, <2>2, <2>3
<1>7. QED
  BY <1>6 DEF K, BestTrack, Prefers

-----------------------------------------------------------------------------
(* What an update makes of the tracks.                                     *)

(* Where update() stands between two detections.                           *)
State == [tracks : Seq(Track), nextId : Nat \ {0}, matched : SUBSET Nat, labels : Seq(Nat)]

(* The label is none, or the id of a track that is in the result.          *)
Earned(label, ts) == \/ label = 0
                     \/ \E i \in 1..Len(ts) : ts[i].id = label /\ ts[i].lost = 0

(* s is what the first n detections make of the tracks ts: the old ones    *)
(* keep their place and id and age by one at most.                         *)
Updated(s, ts, next, n) ==
  /\ s \in State /\ TracksOK(s.tracks, s.nextId) /\ next <= s.nextId
  /\ Len(ts) <= Len(s.tracks)
  /\ \A i \in 1..Len(ts) : s.tracks[i].id = ts[i].id /\ s.tracks[i].lost <= ts[i].lost + 1
  /\ Len(s.labels) = n
  /\ \A k \in 1..n : Earned(s.labels[k], s.tracks)

(* A new track is last.                                                    *)
LEMMA NewTrackFacts ==
  ASSUME NEW s \in State, NEW d \in Detection
  PROVE  LET r == NewTrack(s, d)
         IN  /\ r \in State
             /\ r.nextId = s.nextId + 1 /\ r.labels = s.labels /\ r.matched = s.matched
             /\ Len(r.tracks) = Len(s.tracks) + 1
             /\ \A i \in 1..Len(s.tracks) : r.tracks[i] = s.tracks[i]
             /\ r.tracks[Len(s.tracks) + 1].id = s.nextId
             /\ r.tracks[Len(s.tracks) + 1].lost = 0
<1> DEFINE t == [id |-> s.nextId, class |-> d.class, box |-> d.box, hits |-> 1, lost |-> 0]
           q == s.tracks
           a == Append(q, t)
           r == NewTrack(s, d)
<1>1. t \in Track
  BY DEF State, Track, Detection
<1>2. t.id = s.nextId /\ t.lost = 0
  OBVIOUS
<1>3. r = [s EXCEPT !.tracks = a, !.nextId = @ + 1]
  BY DEF NewTrack
<1>4. q \in Seq(Track) /\ s.nextId \in Nat \ {0}
  BY DEF State
<1> HIDE DEF t, r, q
<1>5. a \in Seq(Track) /\ Len(a) = Len(q) + 1 /\ (\A i \in 1..Len(q) : a[i] = q[i])
      /\ a[Len(q) + 1] = t
  BY <1>1, <1>4, AppendProperties
<1> HIDE DEF a
<1>6. s.nextId + 1 \in Nat \ {0}
  BY <1>4
<1>7. r = [tracks |-> a, nextId |-> s.nextId + 1, matched |-> s.matched, labels |-> s.labels]
  BY <1>3 DEF State
<1>8. r \in State
  BY <1>5, <1>6, <1>7 DEF State
<1>9. QED
  BY <1>2, <1>5, <1>7, <1>8 DEF r, q

(* A hit changes no id.                                                    *)
LEMMA HitFacts ==
  ASSUME NEW s \in State, NEW i \in 1..Len(s.tracks), NEW d \in Detection
  PROVE  LET r == Hit(s, i, d)
         IN  /\ r \in State
             /\ r.nextId = s.nextId /\ r.labels = s.labels /\ r.matched = s.matched
             /\ Len(r.tracks) = Len(s.tracks)
             /\ \A j \in 1..Len(s.tracks) :
                  /\ r.tracks[j].id = s.tracks[j].id
                  /\ r.tracks[j].lost = IF j = i THEN 0 ELSE s.tracks[j].lost
<1> DEFINE q == s.tracks
           t == q[i]
           u == Seen(t, d)
           a == [q EXCEPT ![i] = u]
           r == Hit(s, i, d)
<1>1. q \in Seq(Track) /\ i \in 1..Len(q)
  BY DEF State
<1>2. t \in Track
  BY <1>1
<1>3. r = [s EXCEPT !.tracks = a]
  BY DEF Hit, State
<1> HIDE DEF r, t
<1>4. u \in Track /\ u.id = t.id /\ u.lost = 0
  <2>1. /\ t.hits \in Nat /\ t.id \in Nat \ {0} /\ t.class \in Int /\ t.lost \in Nat
        /\ d.box \in Box
        /\ t = [id |-> t.id, class |-> t.class, box |-> t.box, hits |-> t.hits, lost |-> t.lost]
    BY <1>2 DEF Track, Detection
  <2> DEFINE h == IF t.hits < MinimumHits THEN t.hits + 1 ELSE t.hits
  <2>2. h \in Nat
    BY <2>1
  <2>3. u = [t EXCEPT !.box = d.box, !.lost = 0, !.hits = h]
    BY DEF Seen
  <2> HIDE DEF h
  <2>4. u = [id |-> t.id, class |-> t.class, box |-> d.box, hits |-> h, lost |-> 0]
    BY <2>1, <2>3
  <2>5. QED
    BY <2>1, <2>2, <2>4 DEF Track
<1> HIDE DEF u, q
<1>5. a \in Seq(Track) /\ Len(a) = Len(q) /\ \A j \in 1..Len(q) : a[j] = IF j = i THEN u ELSE q[j]
  BY <1>1, <1>4
<1>6. u.id = q[i].id
  BY <1>4 DEF t
<1> HIDE DEF a
<1>7. r = [tracks |-> a, nextId |-> s.nextId, matched |-> s.matched, labels |-> s.labels]
  BY <1>3 DEF State
<1>8. r \in State
  BY <1>5, <1>7 DEF State
<1>9. QED
  BY <1>4, <1>5, <1>6, <1>7, <1>8 DEF r, q

(* A label is added.                                                       *)
LEMMA LabelledFacts ==
  ASSUME NEW s \in State, NEW i \in 1..Len(s.tracks)
  PROVE  LET r == Labelled(s, i)
             label == IF s.tracks[i].hits >= MinimumHits THEN s.tracks[i].id ELSE 0
         IN  /\ r \in State
             /\ r.tracks = s.tracks /\ r.nextId = s.nextId /\ r.matched = s.matched \cup {i}
             /\ Len(r.labels) = Len(s.labels) + 1
             /\ \A k \in 1..Len(s.labels) : r.labels[k] = s.labels[k]
             /\ r.labels[Len(s.labels) + 1] = label
<1> DEFINE label == IF s.tracks[i].hits >= MinimumHits THEN s.tracks[i].id ELSE 0
           q == s.labels
           a == Append(q, label)
           r == Labelled(s, i)
<1>1. s.tracks[i].id \in Nat
  <2>1. s.tracks \in Seq(Track)
    BY DEF State
  <2>2. s.tracks[i] \in Track
    BY <2>1
  <2>3. QED
    BY <2>2 DEF Track
<1>2. q \in Seq(Nat) /\ label \in Nat
  BY <1>1 DEF State
<1>3. r = [s EXCEPT !.matched = @ \cup {i}, !.labels = a]
  BY DEF Labelled
<1> HIDE DEF label, r, q
<1>4. a \in Seq(Nat) /\ Len(a) = Len(q) + 1 /\ (\A k \in 1..Len(q) : a[k] = q[k])
      /\ a[Len(q) + 1] = label
  BY <1>2, AppendProperties
<1> HIDE DEF a
<1>5. i \in Nat /\ s.matched \cup {i} \in SUBSET Nat
  BY DEF State
<1>6. r = [tracks |-> s.tracks, nextId |-> s.nextId, matched |-> s.matched \cup {i}, labels |-> a]
  BY <1>3 DEF State
<1>7. r \in State
  BY <1>4, <1>5, <1>6 DEF State
<1>8. QED
  BY <1>4, <1>6, <1>7 DEF r, q, label

(* A new track does not disturb the others.                                *)
LEMMA NewTrackStep ==
  ASSUME NEW ts \in Seq(Track), NEW next \in Nat, NEW n \in Nat, NEW s,
         Updated(s, ts, next, n), NEW d \in Detection
  PROVE  LET r == NewTrack(s, d)
         IN  /\ Updated(r, ts, next, n)
             /\ Len(s.tracks) + 1 \in 1..Len(r.tracks)
             /\ r.tracks[Len(s.tracks) + 1].lost = 0
<1> DEFINE r == NewTrack(s, d)
           l == Len(s.tracks)
<1>1. s \in State /\ TracksOK(s.tracks, s.nextId) /\ next <= s.nextId /\ Len(ts) <= l
      /\ Len(s.labels) = n /\ s.tracks \in Seq(Track) /\ s.nextId \in Nat
  BY DEF Updated, State
<1>2. /\ r \in State
      /\ r.nextId = s.nextId + 1 /\ r.labels = s.labels
      /\ Len(r.tracks) = l + 1
      /\ \A i \in 1..l : r.tracks[i] = s.tracks[i]
      /\ r.tracks[l + 1].id = s.nextId
      /\ r.tracks[l + 1].lost = 0
  BY <1>1, NewTrackFacts
<1> HIDE DEF r
<1>3. l \in Nat /\ Len(ts) \in Nat
  BY <1>1
<1>4. \A i \in 1..l : s.tracks[i].id < s.nextId /\ s.tracks[i].id \in Nat
  <2>1. \A i \in 1..l : s.tracks[i] \in Track
    BY <1>1
  <2>2. QED
    BY <1>1, <2>1 DEF TracksOK, Track
<1> HIDE DEF l
<1>5. \A i \in 1..(l + 1) : i \in 1..l \/ i = l + 1
  BY <1>3
<1>6. TracksOK(r.tracks, r.nextId)
  <2>1. ASSUME NEW i \in 1..l
        PROVE  r.tracks[i].id < r.nextId
    <3>1. r.tracks[i].id = s.tracks[i].id
      BY <1>2
    <3>2. s.tracks[i].id < s.nextId /\ s.tracks[i].id \in Nat
      BY <1>4
    <3>3. r.nextId = s.nextId + 1 /\ s.nextId \in Nat
      BY <1>1, <1>2
    <3>4. QED
      BY <3>1, <3>2, <3>3
  <2>2. r.tracks[l + 1].id < r.nextId
    BY <1>1, <1>2
  <2>3. QED
    BY <1>2, <1>5, <2>1, <2>2 DEF TracksOK, State
<1>7. next <= r.nextId /\ Len(ts) <= Len(r.tracks) /\ l + 1 \in 1..Len(r.tracks)
  BY <1>1, <1>2, <1>3
<1>8. \A i \in 1..Len(ts) : r.tracks[i].id = ts[i].id /\ r.tracks[i].lost <= ts[i].lost + 1
  <2>1. 1..Len(ts) \subseteq 1..l
    BY <1>1, <1>3
  <2>2. QED
    BY <1>2, <2>1 DEF Updated
<1>9. \A k \in 1..n : Earned(r.labels[k], r.tracks)
  <2>1. 1..l \subseteq 1..Len(r.tracks)
    BY <1>2, <1>3
  <2>2. TAKE k \in 1..n
  <2>3. Earned(s.labels[k], s.tracks)
    BY DEF Updated
  <2>4. ASSUME NEW i \in 1..l
        PROVE  i \in 1..Len(r.tracks) /\ r.tracks[i] = s.tracks[i]
    BY <1>2, <2>1
  <2>5. r.labels[k] = s.labels[k]
    BY <1>2
  <2>6. QED
    BY <2>3, <2>4, <2>5 DEF Earned, l
<1>10. QED
  BY <1>1, <1>2, <1>6, <1>7, <1>8, <1>9 DEF Updated, r, l

(* Neither does a hit.                                                     *)
LEMMA HitStep ==
  ASSUME NEW ts \in Seq(Track), NEW next \in Nat, NEW n \in Nat, NEW s,
         Updated(s, ts, next, n), NEW d \in Detection, NEW i \in 1..Len(s.tracks)
  PROVE  LET r == Hit(s, i, d)
         IN  /\ Updated(r, ts, next, n)
             /\ i \in 1..Len(r.tracks)
             /\ r.tracks[i].lost = 0
<1> DEFINE r == Hit(s, i, d)
           l == Len(s.tracks)
<1>1. s \in State /\ TracksOK(s.tracks, s.nextId) /\ next <= s.nextId /\ Len(ts) <= l
      /\ Len(s.labels) = n /\ s.tracks \in Seq(Track)
  BY DEF Updated, State
<1>2. /\ r \in State
      /\ r.nextId = s.nextId /\ r.labels = s.labels /\ Len(r.tracks) = l
      /\ \A j \in 1..l : /\ r.tracks[j].id = s.tracks[j].id
                         /\ r.tracks[j].lost = IF j = i THEN 0 ELSE s.tracks[j].lost
  BY <1>1, HitFacts
<1> HIDE DEF r
<1>3. l \in Nat /\ Len(ts) \in Nat /\ i \in 1..l
  BY <1>1
<1>4. TracksOK(r.tracks, r.nextId)
  BY <1>1, <1>2 DEF TracksOK, State
<1> HIDE DEF l
<1>5. \A j \in 1..Len(ts) : r.tracks[j].id = ts[j].id /\ r.tracks[j].lost <= ts[j].lost + 1
  <2>1. 1..Len(ts) \subseteq 1..l
    BY <1>1, <1>3
  <2>2. ASSUME NEW j \in 1..Len(ts)
        PROVE  r.tracks[j].id = ts[j].id /\ r.tracks[j].lost <= ts[j].lost + 1
    <3>1. ts[j] \in Track /\ j \in 1..l
      BY <2>1
    <3>2. s.tracks[j].id = ts[j].id /\ s.tracks[j].lost <= ts[j].lost + 1
      BY DEF Updated
    <3>3. ts[j].lost \in Nat
      BY <3>1 DEF Track
    <3>4. QED
      BY <1>2, <3>1, <3>2, <3>3
  <2>3. QED
    BY <2>2
<1>6. \A k \in 1..n : Earned(r.labels[k], r.tracks)
  <2>1. TAKE k \in 1..n
  <2>2. Earned(s.labels[k], s.tracks)
    BY DEF Updated
  <2>3. QED
    BY <1>2, <2>2 DEF Earned, l
<1>7. QED
  BY <1>1, <1>2, <1>3, <1>4, <1>5, <1>6 DEF Updated, r

(* The label of a track that is in the result is earned.                   *)
LEMMA LabelledStep ==
  ASSUME NEW ts \in Seq(Track), NEW next \in Nat, NEW n \in Nat, NEW s,
         Updated(s, ts, next, n), NEW i \in 1..Len(s.tracks), s.tracks[i].lost = 0
  PROVE  Updated(Labelled(s, i), ts, next, n + 1)
<1> DEFINE r == Labelled(s, i)
           label == IF s.tracks[i].hits >= MinimumHits THEN s.tracks[i].id ELSE 0
<1>1. s \in State /\ Len(s.labels) = n
  BY DEF Updated
<1>2. /\ r \in State
      /\ r.tracks = s.tracks /\ r.nextId = s.nextId
      /\ Len(r.labels) = n + 1
      /\ \A k \in 1..n : r.labels[k] = s.labels[k]
      /\ r.labels[n + 1] = label
  BY <1>1, LabelledFacts
<1>3. Earned(label, s.tracks)
  BY DEF Earned
<1> HIDE DEF r, label
<1>4. \A k \in 1..(n + 1) : k \in 1..n \/ k = n + 1
  OBVIOUS
<1>5. \A k \in 1..(n + 1) : Earned(r.labels[k], r.tracks)
  BY <1>2, <1>3, <1>4 DEF Updated
<1>6. QED
  BY <1>2, <1>5 DEF Updated, r

(* One detection.                                                          *)
LEMMA MatchStep ==
  ASSUME NEW ts \in Seq(Track), NEW next \in Nat, NEW n \in Nat, NEW s,
         Updated(s, ts, next, n), NEW d \in Detection
  PROVE  Updated(Match(s, d), ts, next, n + 1)
<1>1. CASE Candidates(s, d) = {}
  <2> DEFINE m == NewTrack(s, d)
  <2>1. Updated(m, ts, next, n) /\ Len(s.tracks) + 1 \in 1..Len(m.tracks)
        /\ m.tracks[Len(s.tracks) + 1].lost = 0
    BY NewTrackStep
  <2>2. Match(s, d) = Labelled(m, Len(s.tracks) + 1)
    BY <1>1 DEF Match
  <2> HIDE DEF m
  <2>3. QED
    BY <2>1, <2>2, LabelledStep
<1>2. CASE Candidates(s, d) # {}
  <2> DEFINE i == BestTrack(s, d)
             m == Hit(s, i, d)
  <2>1. s.tracks \in Seq(Track)
    BY DEF Updated, State
  <2>2. i \in Candidates(s, d)
    BY <1>2, <2>1, BestIsCandidate
  <2>3. i \in 1..Len(s.tracks)
    BY <2>1, <2>2 DEF Candidates
  <2>4. Match(s, d) = Labelled(m, i)
    BY <1>2 DEF Match
  <2> HIDE DEF i
  <2>5. Updated(m, ts, next, n) /\ i \in 1..Len(m.tracks) /\ m.tracks[i].lost = 0
    BY <2>3, HitStep
  <2> HIDE DEF m
  <2>6. QED
    BY <2>4, <2>5, LabelledStep
<1>3. QED
  BY <1>1, <1>2

(* Ageing.                                                                 *)
LEMMA AgedFacts ==
  ASSUME NEW ts, NEW next, TracksOK(ts, next)
  PROVE  /\ Updated([tracks |-> Aged(ts), nextId |-> next, matched |-> {}, labels |-> <<>>],
                    ts, next, 0)
         /\ Len(Aged(ts)) = Len(ts) /\ \A i \in 1..Len(ts) : Aged(ts)[i].id = ts[i].id
<1> DEFINE q == Aged(ts)
           s == [tracks |-> q, nextId |-> next, matched |-> {}, labels |-> <<>>]
<1>1. ts \in Seq(Track) /\ next \in Nat \ {0} /\ \A i \in 1..Len(ts) : ts[i].id < next
  BY DEF TracksOK
<1>2. \A i \in 1..Len(ts) : ts[i] \in Track
  BY <1>1
<1>3. DOMAIN ts = 1..Len(ts) /\ Len(ts) \in Nat
  BY <1>1
<1>4. \A i \in 1..Len(ts) : q[i] = [ts[i] EXCEPT !.lost = @ + 1]
  BY <1>3 DEF Aged
<1>5. \A i \in 1..Len(ts) : q[i] \in Track /\ q[i].id = ts[i].id /\ q[i].lost = ts[i].lost + 1
  <2>1. TAKE i \in 1..Len(ts)
  <2> DEFINE t == ts[i]
  <2>2. t \in Track /\ q[i] = [t EXCEPT !.lost = @ + 1]
    BY <1>2, <1>4
  <2> HIDE DEF t, q
  <2>3. t = [id |-> t.id, class |-> t.class, box |-> t.box, hits |-> t.hits, lost |-> t.lost]
    BY <2>2 DEF Track
  <2>4. q[i] = [id |-> t.id, class |-> t.class, box |-> t.box, hits |-> t.hits,
                lost |-> t.lost + 1]
    BY <2>2, <2>3
  <2>5. q[i] \in Track
    BY <2>2, <2>4 DEF Track
  <2>6. QED
    BY <2>4, <2>5 DEF t
<1>6. q \in Seq(Track) /\ Len(q) = Len(ts)
  <2>1. q = [i \in 1..Len(ts) |-> q[i]]
    BY <1>3 DEF Aged
  <2> HIDE DEF q
  <2>2. QED
    BY <1>3, <1>5, <2>1
<1>7. \A i \in 1..Len(ts) : q[i].lost <= ts[i].lost + 1
  BY <1>2, <1>5 DEF Track
<1> HIDE DEF q
<1>8. s \in State
  <2>1. <<>> \in Seq(Nat)
    OBVIOUS
  <2>2. QED
    BY <1>1, <1>6, <2>1 DEF State
<1>9. TracksOK(q, next)
  BY <1>1, <1>5, <1>6 DEF TracksOK
<1>10. Len(s.labels) = 0
  OBVIOUS
<1>11. next <= next /\ Len(ts) <= Len(q)
  BY <1>1, <1>3, <1>6
<1>12. QED
  BY <1>5, <1>6, <1>7, <1>8, <1>9, <1>10, <1>11 DEF Updated, q

(* No two tracks have the same id.                                         *)
Distinct(ts) == \A i, j \in 1..Len(ts) : ts[i].id = ts[j].id => i = j

(* No two of n detections were given the same id: each belongs to a track  *)
(* that is taken.                                                          *)
Unique(s, n) ==
  /\ Distinct(s.tracks) /\ s.matched \subseteq 1..Len(s.tracks)
  /\ \A k \in 1..n : s.labels[k] = 0 \/ \E i \in s.matched : s.tracks[i].id = s.labels[k]
  /\ \A k, m \in 1..n : s.labels[k] = s.labels[m] /\ s.labels[k] # 0 => k = m

(* A new track has an id of its own and is not taken.                      *)
LEMMA NewTrackUnique ==
  ASSUME NEW s \in State, TracksOK(s.tracks, s.nextId), NEW n \in Nat, Unique(s, n),
         NEW d \in Detection
  PROVE  LET r == NewTrack(s, d)
         IN  Unique(r, n) /\ Len(s.tracks) + 1 \notin r.matched
<1> DEFINE r == NewTrack(s, d)
           l == Len(s.tracks)
<1>1. /\ r.labels = s.labels /\ r.matched = s.matched
      /\ Len(r.tracks) = l + 1
      /\ \A i \in 1..l : r.tracks[i] = s.tracks[i]
      /\ r.tracks[l + 1].id = s.nextId
  BY NewTrackFacts
<1>2. /\ l \in Nat /\ s.matched \subseteq 1..l
      /\ \A i, j \in 1..l : s.tracks[i].id = s.tracks[j].id => i = j
  BY DEF State, Unique, Distinct
<1>3. \A i \in 1..l : s.tracks[i].id # s.nextId
  <2>1. s.tracks \in Seq(Track) /\ s.nextId \in Nat
    BY DEF State
  <2> SUFFICES ASSUME NEW i \in 1..l
               PROVE  s.tracks[i].id # s.nextId
    OBVIOUS
  <2>2. s.tracks[i] \in Track
    BY <2>1
  <2>3. s.tracks[i].id \in Nat
    BY <2>2 DEF Track
  <2>4. s.tracks[i].id < s.nextId
    BY DEF TracksOK
  <2>5. QED
    BY <2>1, <2>3, <2>4
<1> HIDE DEF r
<1>4. l + 1 \notin r.matched
  BY <1>1, <1>2
<1>5. \A i \in 1..(l + 1) : i \in 1..l \/ i = l + 1
  BY <1>2
<1>6. Distinct(r.tracks)
  <2> SUFFICES ASSUME NEW i \in 1..(l + 1), NEW j \in 1..(l + 1), r.tracks[i].id = r.tracks[j].id
               PROVE  i = j
    BY <1>1 DEF Distinct
  <2>1. CASE i \in 1..l /\ j \in 1..l
    BY <1>1, <1>2, <2>1
  <2>2. QED
    BY <1>1, <1>3, <1>5, <2>1
<1>7. r.matched \subseteq 1..(l + 1)
  BY <1>1, <1>2
<1>8. ASSUME NEW k \in 1..n
      PROVE  r.labels[k] = 0 \/ \E i \in r.matched : r.tracks[i].id = r.labels[k]
  <2>1. s.labels[k] = 0 \/ \E i \in s.matched : s.tracks[i].id = s.labels[k]
    BY DEF Unique
  <2> HIDE DEF l
  <2>2. QED
    BY <1>1, <1>2, <2>1
<1>9. \A k, m \in 1..n : r.labels[k] = r.labels[m] /\ r.labels[k] # 0 => k = m
  BY <1>1 DEF Unique
<1>10. QED
  BY <1>1, <1>4, <1>6, <1>7, <1>8, <1>9 DEF Unique, r

(* A hit changes no id and takes nothing.                                  *)
LEMMA HitUnique ==
  ASSUME NEW s \in State, NEW n \in Nat, Unique(s, n), NEW d \in Detection,
         NEW i \in 1..Len(s.tracks)
  PROVE  Unique(Hit(s, i, d), n) /\ Hit(s, i, d).matched = s.matched
<1> DEFINE r == Hit(s, i, d)
<1>1. /\ r.labels = s.labels /\ r.matched = s.matched
      /\ Len(r.tracks) = Len(s.tracks)
      /\ \A j \in 1..Len(s.tracks) : r.tracks[j].id = s.tracks[j].id
  BY HitFacts
<1> HIDE DEF r
<1>2. Distinct(r.tracks)
  BY <1>1 DEF Unique, Distinct
<1>3. s.matched \subseteq 1..Len(s.tracks)
  BY DEF Unique
<1>4. ASSUME NEW k \in 1..n
      PROVE  r.labels[k] = 0 \/ \E j \in r.matched : r.tracks[j].id = r.labels[k]
  <2>1. s.labels[k] = 0 \/ \E j \in s.matched : s.tracks[j].id = s.labels[k]
    BY DEF Unique
  <2>2. QED
    BY <1>1, <1>3, <2>1
<1>5. QED
  BY <1>1, <1>2, <1>3, <1>4 DEF Unique, r

(* A label of a track that was not taken is new.                           *)
LEMMA LabelledUnique ==
  ASSUME NEW s \in State, NEW n \in Nat, Unique(s, n), Len(s.labels) = n,
         NEW i \in 1..Len(s.tracks), i \notin s.matched
  PROVE  Unique(Labelled(s, i), n + 1)
<1> DEFINE r == Labelled(s, i)
           label == IF s.tracks[i].hits >= MinimumHits THEN s.tracks[i].id ELSE 0
<1>1. /\ r.tracks = s.tracks /\ r.matched = s.matched \cup {i}
      /\ \A k \in 1..n : r.labels[k] = s.labels[k]
      /\ r.labels[n + 1] = label
  BY LabelledFacts
<1>2. label = 0 \/ label = s.tracks[i].id
  OBVIOUS
<1> HIDE DEF r, label
<1>3. /\ Distinct(s.tracks) /\ s.matched \subseteq 1..Len(s.tracks)
      /\ \A k \in 1..n : s.labels[k] = 0 \/ \E j \in s.matched : s.tracks[j].id = s.labels[k]
      /\ \A k, m \in 1..n : s.labels[k] = s.labels[m] /\ s.labels[k] # 0 => k = m
  BY DEF Unique
<1>4. \A k \in 1..(n + 1) : k \in 1..n \/ k = n + 1
  OBVIOUS
<1>5. ASSUME NEW k \in 1..n, s.labels[k] = label PROVE label = 0
  <2>1. SUFFICES ASSUME label # 0 PROVE FALSE
    OBVIOUS
  <2>2. PICK j \in s.matched : s.tracks[j].id = s.tracks[i].id
    BY <1>2, <1>3, <1>5, <2>1
  <2>3. j = i
    BY <1>3, <2>2 DEF Distinct
  <2>4. QED
    BY <2>2, <2>3
<1>6. \A k \in 1..(n + 1) : r.labels[k] = 0 \/ \E j \in r.matched : r.tracks[j].id = r.labels[k]
  <2>1. \A k \in 1..n : r.labels[k] = 0 \/ \E j \in r.matched : r.tracks[j].id = r.labels[k]
    BY <1>1, <1>3
  <2>2. r.labels[n + 1] = 0 \/ \E j \in r.matched : r.tracks[j].id = r.labels[n + 1]
    BY <1>1, <1>2
  <2>3. QED
    BY <1>4, <2>1, <2>2
<1>7. \A k, m \in 1..(n + 1) : r.labels[k] = r.labels[m] /\ r.labels[k] # 0 => k = m
  <2> TAKE k, m \in 1..(n + 1)
  <2> HAVE r.labels[k] = r.labels[m] /\ r.labels[k] # 0
  <2>1. CASE k \in 1..n /\ m \in 1..n
    BY <1>1, <1>3, <2>1
  <2>2. CASE k \in 1..n /\ m = n + 1
    BY <1>1, <1>5, <2>2
  <2>3. CASE k = n + 1 /\ m \in 1..n
    BY <1>1, <1>5, <2>3
  <2>4. QED
    BY <1>4, <2>1, <2>2, <2>3
<1>8. r.matched \subseteq 1..Len(r.tracks)
  BY <1>1, <1>3
<1>9. QED
  BY <1>1, <1>3, <1>6, <1>7, <1>8 DEF Unique, r

(* One detection.                                                          *)
LEMMA MatchUnique ==
  ASSUME NEW ts \in Seq(Track), NEW next \in Nat, NEW n \in Nat, NEW s,
         Updated(s, ts, next, n), Unique(s, n), NEW d \in Detection
  PROVE  Unique(Match(s, d), n + 1)
<1>1. s \in State /\ TracksOK(s.tracks, s.nextId) /\ s.tracks \in Seq(Track)
  BY DEF Updated, State
<1>2. CASE Candidates(s, d) = {}
  <2> DEFINE m == NewTrack(s, d)
             i == Len(s.tracks) + 1
  <2>1. Updated(m, ts, next, n) /\ i \in 1..Len(m.tracks)
    BY NewTrackStep
  <2>2. Unique(m, n) /\ i \notin m.matched
    BY <1>1, NewTrackUnique
  <2>3. Match(s, d) = Labelled(m, i)
    BY <1>2 DEF Match
  <2> HIDE DEF m, i
  <2>4. m \in State /\ Len(m.labels) = n
    BY <2>1 DEF Updated
  <2>5. QED
    BY <2>1, <2>2, <2>3, <2>4, LabelledUnique
<1>3. CASE Candidates(s, d) # {}
  <2> DEFINE i == BestTrack(s, d)
             m == Hit(s, i, d)
  <2>1. i \in Candidates(s, d)
    BY <1>1, <1>3, BestIsCandidate
  <2>2. i \in 1..Len(s.tracks) /\ i \notin s.matched
    BY <1>1, <2>1 DEF Candidates
  <2>3. Match(s, d) = Labelled(m, i)
    BY <1>3 DEF Match
  <2> HIDE DEF i
  <2>4. Updated(m, ts, next, n) /\ i \in 1..Len(m.tracks)
    BY <2>2, HitStep
  <2>5. Unique(m, n) /\ i \notin m.matched
    BY <1>1, <2>2, HitUnique
  <2> HIDE DEF m
  <2>6. m \in State /\ Len(m.labels) = n
    BY <2>4 DEF Updated
  <2>7. QED
    BY <2>3, <2>4, <2>5, <2>6, LabelledUnique
<1>4. QED
  BY <1>2, <1>3

(* Ageing changes no id.                                                   *)
LEMMA AgedUnique ==
  ASSUME NEW ts, NEW next, TracksOK(ts, next), Distinct(ts)
  PROVE  Unique([tracks |-> Aged(ts), nextId |-> next, matched |-> {}, labels |-> <<>>], 0)
<1> DEFINE q == Aged(ts)
<1>1. Len(q) = Len(ts) /\ \A i \in 1..Len(ts) : q[i].id = ts[i].id
  BY AgedFacts
<1> HIDE DEF q
<1>2. Distinct(q)
  BY <1>1 DEF Distinct
<1>3. \A k \in 1..0 : FALSE
  OBVIOUS
<1>4. QED
  BY <1>2, <1>3 DEF Unique, q

(* The function that update() defines by recursion, on n detections.       *)
Matching(f, n, ts, next, ds) ==
  f = [k \in 0..n |->
         IF k = 0 THEN [tracks |-> Aged(ts), nextId |-> next, matched |-> {}, labels |-> <<>>]
         ELSE Match(f[k - 1], ds[k])]

(* Such a function exists.                                                 *)
LEMMA MatchingExists ==
  ASSUME NEW ts, NEW next, NEW ds
  PROVE  \A n \in Nat : \E f : Matching(f, n, ts, next, ds)
<1> DEFINE Start == [tracks |-> Aged(ts), nextId |-> next, matched |-> {}, labels |-> <<>>]
           T == {n \in Nat : \E f : Matching(f, n, ts, next, ds)}
<1>1. 0 \in T
  <2> DEFINE f == [k \in 0..0 |-> Start]
  <2>1. Matching(f, 0, ts, next, ds)
    <3>1. f = [k \in 0..0 |-> IF k = 0 THEN Start ELSE Match(f[k - 1], ds[k])]
      OBVIOUS
    <3>2. QED
      BY <3>1 DEF Matching
  <2>2. QED
    BY <2>1
<1>2. ASSUME NEW n \in Nat, n \in T PROVE n + 1 \in T
  <2>1. PICK f : Matching(f, n, ts, next, ds)
    BY <1>2
  <2>2. /\ f[0] = Start
        /\ \A k \in 1..n : f[k] = Match(f[k - 1], ds[k])
    <3>1. 0 \in 0..n /\ 1..n \subseteq 0..n /\ 0 \notin 1..n
      OBVIOUS
    <3>2. f = [k \in 0..n |-> IF k = 0 THEN Start ELSE Match(f[k - 1], ds[k])]
      BY <2>1 DEF Matching
    <3> HIDE DEF Start
    <3>3. \A k \in 0..n : f[k] = IF k = 0 THEN Start ELSE Match(f[k - 1], ds[k])
      BY <3>2
    <3>4. QED
      BY <3>1, <3>3
  <2> DEFINE g == [k \in 0..(n + 1) |-> IF k <= n THEN f[k] ELSE Match(f[n], ds[k])]
  <2> HIDE DEF Start
  <2>3. ASSUME NEW k \in 0..(n + 1)
        PROVE  g[k] = IF k = 0 THEN Start ELSE Match(g[k - 1], ds[k])
    <3>1. CASE k = 0
      BY <2>2, <3>1
    <3>2. CASE k \in 1..n
      <4>1. k # 0 /\ g[k] = f[k] /\ g[k - 1] = f[k - 1]
        BY <3>2
      <4>2. QED
        BY <2>2, <3>2, <4>1
    <3>3. CASE k = n + 1
      <4>1. k # 0 /\ g[k] = Match(f[n], ds[k]) /\ g[k - 1] = f[n]
        BY <3>3
      <4>2. QED
        BY <4>1
    <3>4. QED
      BY <3>1, <3>2, <3>3
  <2>4. Matching(g, n + 1, ts, next, ds)
    <3> HIDE DEF g
    <3>1. g = [k \in 0..(n + 1) |-> g[k]]
      BY DEF g
    <3>2. g = [k \in 0..(n + 1) |-> IF k = 0 THEN Start ELSE Match(g[k - 1], ds[k])]
      BY <2>3, <3>1
    <3>3. QED
      BY <3>2 DEF Matching, Start
  <2>5. QED
    BY <2>4
<1>3. Nat \subseteq T
  <2> HIDE DEF T
  <2>1. QED
    BY <1>1, <1>2, InductionOnSet
<1>4. QED
  BY <1>3

(* All detections of a result, before the tracks that are too old go.      *)
LEMMA MatchedAll ==
  ASSUME NEW ts, NEW next, TracksOK(ts, next), Distinct(ts), NEW ds \in Seq(Detection)
  PROVE  \E s : /\ Updated(s, ts, next, Len(ds)) /\ Unique(s, Len(ds))
                /\ TrackerUpdate(ts, next, ds) = WithoutOld(s)
<1> DEFINE f == CHOOSE g : Matching(g, Len(ds), ts, next, ds)
           Start == [tracks |-> Aged(ts), nextId |-> next, matched |-> {}, labels |-> <<>>]
           T == {n \in Nat : n <= Len(ds) => Updated(f[n], ts, next, n) /\ Unique(f[n], n)}
<1>0. Len(ds) \in Nat /\ ts \in Seq(Track) /\ next \in Nat
  BY DEF TracksOK
<1>1. Matching(f, Len(ds), ts, next, ds)
  <2>1. \E g : Matching(g, Len(ds), ts, next, ds)
    BY <1>0, MatchingExists
  <2>2. QED
    BY <2>1
<1>2. TrackerUpdate(ts, next, ds) = WithoutOld(f[Len(ds)])
  BY DEF TrackerUpdate, Matching
<1> HIDE DEF f
<1>3. f = [k \in 0..Len(ds) |-> IF k = 0 THEN Start ELSE Match(f[k - 1], ds[k])]
  BY <1>1 DEF Matching
<1>4. Updated(Start, ts, next, 0) /\ Unique(Start, 0)
  BY AgedFacts, AgedUnique
<1> HIDE DEF Start
<1>5. 0 \in T
  <2>1. f[0] = Start
    BY <1>0, <1>3
  <2>2. QED
    BY <1>4, <2>1
<1>6. ASSUME NEW n \in Nat, n \in T PROVE n + 1 \in T
  <2>1. SUFFICES ASSUME n + 1 <= Len(ds)
               PROVE  Updated(f[n + 1], ts, next, n + 1) /\ Unique(f[n + 1], n + 1)
    OBVIOUS
  <2>2. Updated(f[n], ts, next, n) /\ Unique(f[n], n)
    BY <1>0, <1>6, <2>1
  <2>3. f[n + 1] = Match(f[n], ds[n + 1])
    <3>1. n + 1 \in 0..Len(ds) /\ n + 1 # 0 /\ (n + 1) - 1 = n
      BY <1>0, <2>1
    <3>2. QED
      BY <1>3, <3>1
  <2>4. ds[n + 1] \in Detection
    BY <1>0, <2>1
  <2>5. QED
    BY <1>0, <2>2, <2>3, <2>4, MatchStep, MatchUnique
<1>7. Nat \subseteq T
  <2> HIDE DEF T
  <2>1. QED
    BY <1>5, <1>6, InductionOnSet
<1>8. Updated(f[Len(ds)], ts, next, Len(ds)) /\ Unique(f[Len(ds)], Len(ds))
  BY <1>0, <1>7
<1>9. QED
  BY <1>2, <1>8

(* After update() tracks are tracks, with ids that have been given out,    *)
(* each to one; a label is the id of a track just seen, and of no other    *)
(* detection; a track from before is kept, or was missed too often.        *)
LEMMA TrackerFacts ==
  ASSUME NEW ts, NEW next, TracksOK(ts, next), Distinct(ts), NEW ds \in Seq(Detection)
  PROVE  LET after == TrackerUpdate(ts, next, ds)
         IN  /\ TracksOK(after.tracks, after.nextId) /\ Distinct(after.tracks)
             /\ next <= after.nextId
             /\ after.labels \in Seq(Nat) /\ Len(after.labels) = Len(ds)
             /\ \A k \in 1..Len(ds) : Earned(after.labels[k], after.tracks)
             /\ \A k, m \in 1..Len(ds) :
                  after.labels[k] = after.labels[m] /\ after.labels[k] # 0 => k = m
             /\ \A i \in 1..Len(ts) :
                  \/ \E j \in 1..Len(after.tracks) :
                       /\ after.tracks[j].id = ts[i].id
                       /\ after.tracks[j].lost <= ts[i].lost + 1
                  \/ ts[i].lost + 1 > MaxLostFrames
<1> DEFINE after == TrackerUpdate(ts, next, ds)
<1>1. PICK s : /\ Updated(s, ts, next, Len(ds)) /\ Unique(s, Len(ds))
               /\ after = WithoutOld(s)
  BY MatchedAll
<1> HIDE DEF after
<1> DEFINE q == s.tracks
           positions == {i \in DOMAIN q : q[i].lost <= MaxLostFrames}
           kept == Kept(q, positions)
<1>2. s \in State /\ TracksOK(q, s.nextId) /\ next <= s.nextId /\ Len(ts) <= Len(q)
      /\ Len(s.labels) = Len(ds)
      /\ (\A i \in 1..Len(ts) : q[i].id = ts[i].id /\ q[i].lost <= ts[i].lost + 1)
      /\ (\A k \in 1..Len(ds) : Earned(s.labels[k], q))
  BY <1>1 DEF Updated
<1>3. after = [s EXCEPT !.tracks = kept]
  BY <1>1 DEF WithoutOld
<1>4. q \in Seq(Track) /\ s.labels \in Seq(Nat) /\ Len(q) \in Nat /\ DOMAIN q = 1..Len(q)
  BY <1>2 DEF State
<1>5. \A i \in 1..Len(q) : q[i] \in Track /\ q[i].lost \in Nat
  <2>1. \A i \in 1..Len(q) : q[i] \in Track
    BY <1>4
  <2>2. QED
    BY <2>1 DEF Track
<1>6. /\ Distinct(q)
       /\ \A k, m \in 1..Len(ds) : s.labels[k] = s.labels[m] /\ s.labels[k] # 0 => k = m
  BY <1>1 DEF Unique
<1> HIDE DEF q
<1>7. Once(q)
  BY <1>6 DEF Once, Distinct
<1>8. /\ kept \in Seq(Track)
      /\ \A i \in 1..Len(kept) : \E j \in 1..Len(q) : kept[i] = q[j]
  <2>1. /\ kept \in Seq(Track)
        /\ \A i \in 1..Len(kept) : \E j \in i..Len(q) : kept[i] = q[j]
    <3> HIDE DEF positions
    <3>1. QED
      BY <1>4, KeptFacts
  <2>2. \A i \in 1..Len(kept) : i..Len(q) \subseteq 1..Len(q)
    OBVIOUS
  <2>3. QED
    BY <2>1, <2>2
<1>9. ASSUME NEW j \in 1..Len(q), q[j].lost <= MaxLostFrames
      PROVE  \E i \in 1..Len(kept) : kept[i] = q[j]
  <2>1. j \in positions
    BY <1>4, <1>9
  <2> HIDE DEF positions
  <2>2. QED
    BY <1>4, <2>1, KeptHas
<1>10. Once(kept)
  <2> HIDE DEF positions
  <2>1. QED
    BY <1>4, <1>7, KeptOnce
<1> HIDE DEF kept
<1>11. Distinct(kept)
  <2> SUFFICES ASSUME NEW i \in 1..Len(kept), NEW j \in 1..Len(kept), kept[i].id = kept[j].id
               PROVE  i = j
    BY DEF Distinct
  <2>1. PICK a \in 1..Len(q) : kept[i] = q[a]
    BY <1>8
  <2>2. PICK b \in 1..Len(q) : kept[j] = q[b]
    BY <1>8
  <2>3. a = b
    BY <1>6, <2>1, <2>2 DEF Distinct
  <2>4. QED
    BY <1>10, <2>1, <2>2, <2>3 DEF Once
<1>12. after = [tracks |-> kept, nextId |-> s.nextId, matched |-> s.matched, labels |-> s.labels]
  BY <1>2, <1>3 DEF State
<1>13. TracksOK(kept, s.nextId)
  BY <1>2, <1>8 DEF TracksOK
<1>14. ASSUME NEW k \in 1..Len(ds) PROVE Earned(s.labels[k], kept)
  <2>1. Earned(s.labels[k], q)
    BY <1>2
  <2>2. MaxLostFrames \in Nat
    BY TrackerAssumption
  <2>3. QED
    BY <1>9, <2>1, <2>2 DEF Earned
<1>15. ASSUME NEW i \in 1..Len(ts)
       PROVE  \/ \E j \in 1..Len(kept) : kept[j].id = ts[i].id /\ kept[j].lost <= ts[i].lost + 1
              \/ ts[i].lost + 1 > MaxLostFrames
  <2>1. i \in 1..Len(q) /\ ts[i] \in Track
    BY <1>2, <1>4 DEF TracksOK
  <2>2. q[i].id = ts[i].id /\ q[i].lost <= ts[i].lost + 1 /\ q[i].lost \in Nat
    BY <1>2, <1>5, <2>1
  <2>3. ts[i].lost \in Nat /\ MaxLostFrames \in Nat
    BY <2>1, TrackerAssumption DEF Track
  <2>4. CASE q[i].lost <= MaxLostFrames
    BY <1>9, <2>1, <2>2, <2>4
  <2>5. CASE ~(q[i].lost <= MaxLostFrames)
    BY <2>2, <2>3, <2>5
  <2>6. QED
    BY <2>4, <2>5
<1>16. QED
  BY <1>2, <1>4, <1>6, <1>11, <1>12, <1>13, <1>14, <1>15 DEF after

-----------------------------------------------------------------------------
(* The result in the session: tracker and monitor together.                *)

AnalysisInv == /\ TracksOK(tracks, nextId) /\ Distinct(tracks)
               /\ MonitorInv
               /\ MonitorFollowsTracker

(* The ids a result shows the monitor.                                     *)
Shown(here) == {here[i].id : i \in {j \in DOMAIN here : Accepts(here[j])}}

(* They are labels the tracker gave, and not the label of an object that   *)
(* still has none.                                                         *)
LEMMA ShownAreLabels ==
  ASSUME NEW scene \in Seq(Detection), NEW labels \in Seq(Nat), Len(labels) = Len(scene)
  PROVE  \A o \in Shown(Tracked(WithIds(scene, labels))) :
           o # 0 /\ \E k \in 1..Len(scene) : o = labels[k]
<1> DEFINE q == WithIds(scene, labels)
           R == [class : Int, box : Box, confidence : Nat, id : Nat]
           positions == {i \in DOMAIN q : q[i].id # 0}
<1>1. DOMAIN scene = 1..Len(scene) /\ Len(scene) \in Nat
  OBVIOUS
<1>2. ASSUME NEW i \in 1..Len(scene) PROVE q[i] \in R /\ q[i].id = labels[i]
  <2> DEFINE d == scene[i]
  <2>1. d \in Detection /\ labels[i] \in Nat
    BY <1>1
  <2> HIDE DEF d
  <2>2. d.class \in Int /\ d.box \in Box /\ d.confidence \in Nat
    BY <2>1 DEF Detection
  <2>3. q[i] = [class |-> d.class, box |-> d.box, confidence |-> d.confidence, id |-> labels[i]]
    BY <1>1 DEF WithIds, d
  <2> HIDE DEF q
  <2>4. QED
    BY <2>1, <2>2, <2>3
<1>3. q \in Seq(R) /\ Len(q) = Len(scene)
  <2>1. q = [i \in 1..Len(scene) |-> q[i]]
    BY <1>1 DEF WithIds
  <2> HIDE DEF q, R
  <2>2. QED
    BY <1>1, <1>2, <2>1
<1> HIDE DEF q, R
<1> DEFINE here == Kept(q, positions)
<1>4. /\ here \in Seq(R)
      /\ \A i \in 1..Len(here) : \E j \in i..Len(q) : j \in positions /\ here[i] = q[j]
  <2> HIDE DEF positions
  <2>1. QED
    BY <1>3, KeptFacts
<1>5. Tracked(q) = here
  BY DEF Tracked
<1> HIDE DEF here
<1>6. ASSUME NEW i \in DOMAIN here
      PROVE  here[i].id # 0 /\ \E k \in 1..Len(scene) : here[i].id = labels[k]
  <2>1. i \in 1..Len(here)
    BY <1>4
  <2>2. PICK j \in i..Len(q) : j \in positions /\ here[i] = q[j]
    BY <1>4, <2>1
  <2>3. j \in 1..Len(scene)
    BY <1>3, <2>1
  <2>4. QED
    BY <1>2, <2>2, <2>3
<1>7. QED
  BY <1>5, <1>6 DEF Shown, q

(* Ids that have been given out, when the bound allows the next one.       *)
LEMMA IdsAreObjects ==
  ASSUME NEW next \in Nat, next - 1 \in Objects \cup {0}, NEW o \in Nat \ {0}, o < next
  PROVE  o \in Objects
<1> DEFINE c == Cardinality(Objects)
<1>1. c \in Nat
  BY ObjectsAssumption, FS_CardinalityType
<1>2. Objects = 1..c
  BY ObjectsAssumption
<1> HIDE DEF c
<1>3. QED
  BY <1>1, <1>2

(* What a result shows the monitor are objects with a track just seen.     *)
LEMMA ShownAreSeen ==
  ASSUME AnalysisInv, NEW scene \in Seq(Detection),
         NEW after, after = TrackerUpdate(tracks, nextId, scene),
         after.nextId - 1 \in Objects \cup {0},
         NEW o \in Shown(Tracked(WithIds(scene, after.labels)))
  PROVE  /\ o \in Objects
         /\ \E i \in DOMAIN after.tracks : after.tracks[i].id = o /\ after.tracks[i].lost = 0
<1>1. /\ TracksOK(after.tracks, after.nextId)
      /\ after.labels \in Seq(Nat) /\ Len(after.labels) = Len(scene)
      /\ \A k \in 1..Len(scene) : Earned(after.labels[k], after.tracks)
  BY TrackerFacts DEF AnalysisInv
<1>2. o # 0 /\ \E k \in 1..Len(scene) : o = after.labels[k]
  BY <1>1, ShownAreLabels
<1>3. PICK i \in 1..Len(after.tracks) : after.tracks[i].id = o /\ after.tracks[i].lost = 0
  BY <1>1, <1>2 DEF Earned
<1>4. DOMAIN after.tracks = 1..Len(after.tracks) /\ after.tracks[i] \in Track
      /\ after.tracks[i].id < after.nextId /\ after.nextId \in Nat
  BY <1>1 DEF TracksOK
<1>5. o \in Nat \ {0} /\ o < after.nextId
  BY <1>3, <1>4 DEF Track
<1>6. o \in Objects
  BY <1>4, <1>5, IdsAreObjects
<1>7. QED
  BY <1>3, <1>4, <1>6

(* A result is an update of the monitor.                                   *)
LEMMA ResultUpdatesMonitor ==
  ASSUME AnalysisInv, NEW scene \in Scenes, ProcessResult(scene)
  PROVE  \E after : /\ after = TrackerUpdate(tracks, nextId, scene)
                    /\ after.nextId - 1 \in Objects \cup {0}
                    /\ tracks' = after.tracks /\ nextId' = after.nextId
                    /\ LET seen == Shown(Tracked(WithIds(scene, after.labels)))
                       IN  seen \in SUBSET Objects /\ MonitorUpdate(seen)
<1> DEFINE after == TrackerUpdate(tracks, nextId, scene)
           seen == Shown(Tracked(WithIds(scene, after.labels)))
<1>1. /\ after.nextId - 1 \in Objects \cup {0}
      /\ Analyse(after, Tracked(WithIds(scene, after.labels)))
  BY DEF ProcessResult
<1>2. scene \in Seq(Detection)
  BY ScenesAssumption
<1>3. tracks' = after.tracks /\ nextId' = after.nextId /\ MonitorUpdate(seen)
  BY <1>1 DEF Analyse, Shown
<1> HIDE DEF after
<1>4. seen \subseteq Objects
  <2>1. after = TrackerUpdate(tracks, nextId, scene)
    BY DEF after
  <2>2. QED
    BY <1>1, <1>2, <2>1, ShownAreSeen
<1>5. QED
  BY <1>1, <1>3, <1>4 DEF after

(* A result keeps tracker and monitor in step: what is seen has a track    *)
(* that was just seen, and what is missed has a track not older than that, *)
(* or one that was missed too often.                                       *)
LEMMA ResultKeepsStep ==
  ASSUME AnalysisInv, NEW scene \in Scenes, ProcessResult(scene)
  PROVE  TracksOK(tracks, nextId)' /\ Distinct(tracks)' /\ MonitorFollowsTracker'
<1>1. PICK after : /\ after = TrackerUpdate(tracks, nextId, scene)
                   /\ after.nextId - 1 \in Objects \cup {0}
                   /\ tracks' = after.tracks /\ nextId' = after.nextId
                   /\ LET seen == Shown(Tracked(WithIds(scene, after.labels)))
                      IN  seen \in SUBSET Objects /\ MonitorUpdate(seen)
  BY ResultUpdatesMonitor
<1> DEFINE seen == Shown(Tracked(WithIds(scene, after.labels)))
<1>2. scene \in Seq(Detection) /\ TracksOK(tracks, nextId) /\ Distinct(tracks)
  BY ScenesAssumption DEF AnalysisInv
<1>3. \A o \in seen : \E i \in DOMAIN tracks' : tracks'[i].id = o /\ tracks'[i].lost = 0
  BY <1>1, <1>2, ShownAreSeen
<1>4. /\ TracksOK(after.tracks, after.nextId) /\ Distinct(after.tracks)
      /\ nextId <= after.nextId
      /\ \A i \in 1..Len(tracks) :
           \/ \E j \in 1..Len(after.tracks) : /\ after.tracks[j].id = tracks[i].id
                                              /\ after.tracks[j].lost <= tracks[i].lost + 1
           \/ tracks[i].lost + 1 > MaxLostFrames
  BY <1>1, <1>2, TrackerFacts
<1>5. seen \subseteq Objects /\ MonitorUpdate(seen)
  BY <1>1
<1> HIDE DEF seen
<1>6. TracksOK(tracks', nextId') /\ Distinct(tracks')
  BY <1>1, <1>4
<1>7. /\ tracks \in Seq(Track) /\ nextId \in Nat
      /\ \A i \in 1..Len(tracks) : tracks[i].id < nextId
      /\ tracks' \in Seq(Track) /\ nextId' \in Nat
      /\ \A i \in 1..Len(tracks') : tracks'[i].id < nextId'
  BY <1>2, <1>6 DEF TracksOK
<1>8. /\ DOMAIN tracks = 1..Len(tracks) /\ DOMAIN tracks' = 1..Len(tracks')
      /\ \A i \in DOMAIN tracks : tracks[i].id \in Nat /\ tracks[i].lost \in Nat
      /\ \A i \in DOMAIN tracks' : tracks'[i].id \in Nat /\ tracks'[i].lost \in Nat
  <2>1. /\ DOMAIN tracks = 1..Len(tracks) /\ DOMAIN tracks' = 1..Len(tracks')
        /\ \A i \in DOMAIN tracks : tracks[i] \in Track
        /\ \A i \in DOMAIN tracks' : tracks'[i] \in Track
    BY <1>7
  <2>2. QED
    BY <2>1 DEF Track
<1>9. Objects \subseteq Nat
  <2>1. Cardinality(Objects) \in Nat
    BY ObjectsAssumption, FS_CardinalityType
  <2>2. QED
    BY <2>1, ObjectsAssumption
<1>10. MaxLostFrames \in Nat
  BY TrackerAssumption
<1>11. ASSUME NEW o \in Known'
       PROVE  \/ \E i \in DOMAIN tracks' : /\ tracks'[i].id = o
                                           /\ tracks'[i].lost <= objects'[o].missed
              \/ objects'[o].missed > MaxLostFrames /\ o < nextId'
  <2>1. CASE o \in seen
    <3>1. objects'[o] = Observed(o)
      BY <1>5, <2>1 DEF MonitorUpdate
    <3>2. objects'[o].missed = 0
      BY <3>1 DEF Observed
    <3>3. QED
      BY <1>3, <2>1, <3>2
  <2>2. CASE o \notin seen
    <3>1. /\ o \in StillKnown(seen) /\ o \in Known
          /\ objects'[o] = [objects[o] EXCEPT !.missed = @ + 1]
      BY <1>5, <2>2 DEF MonitorUpdate, Known, StillKnown, Missed
    <3>2. objects[o] \in Entry /\ o \in Nat
      BY <1>9, <3>1 DEF AnalysisInv, MonitorInv, MonitorTypeOK
    <3>3. objects[o].missed \in Nat /\ objects'[o].missed = objects[o].missed + 1
      <4> DEFINE e == objects[o]
      <4>1. e \in Entry /\ objects'[o] = [e EXCEPT !.missed = @ + 1]
        BY <3>1, <3>2
      <4> HIDE DEF e
      <4>2. /\ e.missed \in Nat
            /\ e = [state |-> e.state, observed |-> e.observed, missed |-> e.missed]
        BY <4>1 DEF Entry
      <4>3. QED
        BY <4>1, <4>2 DEF e
    <3>4. CASE objects[o].missed > MaxLostFrames /\ o < nextId
      BY <1>1, <1>4, <1>7, <1>10, <3>2, <3>3, <3>4
    <3>5. CASE \E i \in DOMAIN tracks : tracks[i].id = o /\ tracks[i].lost <= objects[o].missed
      <4>1. PICK i \in DOMAIN tracks : tracks[i].id = o /\ tracks[i].lost <= objects[o].missed
        BY <3>5
      <4>2. CASE tracks[i].lost + 1 > MaxLostFrames
        <5>1. objects'[o].missed > MaxLostFrames
          BY <1>8, <1>10, <3>3, <4>1, <4>2
        <5>2. o < nextId'
          BY <1>1, <1>4, <1>7, <1>8, <3>2, <4>1
        <5>3. QED
          BY <5>1, <5>2
      <4>3. CASE \E j \in DOMAIN tracks' : /\ tracks'[j].id = tracks[i].id
                                           /\ tracks'[j].lost <= tracks[i].lost + 1
        <5>1. PICK j \in DOMAIN tracks' : /\ tracks'[j].id = tracks[i].id
                                          /\ tracks'[j].lost <= tracks[i].lost + 1
          BY <4>3
        <5>2. tracks'[j].lost <= objects'[o].missed
          BY <1>8, <3>3, <4>1, <5>1
        <5>3. QED
          BY <4>1, <5>1, <5>2
      <4>4. QED
        BY <1>1, <1>4, <1>8, <4>2, <4>3
    <3>6. QED
      BY <3>1, <3>4, <3>5 DEF AnalysisInv, MonitorFollowsTracker
  <2>3. QED
    BY <2>1, <2>2
<1>12. QED
  BY <1>6, <1>11 DEF MonitorFollowsTracker

(* The invariant holds initially.                                          *)
LEMMA AnalysisInvInit == Init => AnalysisInv
<1> SUFFICES ASSUME Init PROVE AnalysisInv
  OBVIOUS
<1>1. MonitorInv
  BY MonitorInvInit DEF Init
<1>2. TracksOK(tracks, nextId) /\ Distinct(tracks)
  BY DEF Init, TracksOK, Distinct
<1>3. MonitorFollowsTracker
  BY DEF Init, MonitorInit, NoObjects, Known, MonitorFollowsTracker
<1>4. QED
  BY <1>1, <1>2, <1>3 DEF AnalysisInv

(* Every step of the analysis is one of the monitor, or none of its.       *)
LEMMA AnalysisStepsMonitor == AnalysisInv /\ [Next]_vars => [MonitorNext]_monitor
<1> SUFFICES ASSUME AnalysisInv, [Next]_vars PROVE [MonitorNext]_monitor
  OBVIOUS
<1>1. ASSUME NEW scene \in Scenes, ProcessResult(scene) PROVE MonitorNext
  BY <1>1, ResultUpdatesMonitor DEF MonitorNext
<1>2. CASE ResetPerConnectionState
  BY <1>2 DEF ResetPerConnectionState, MonitorNext
<1>3. CASE (ManualCommand \/ OverrideEnds \/ Tick) /\ UNCHANGED <<tracks, nextId, monitor>>
  BY <1>3
<1>4. CASE UNCHANGED vars
  BY <1>4 DEF vars
<1>5. QED
  BY <1>1, <1>2, <1>3, <1>4 DEF Next, Results

(* Every step keeps the invariant.                                         *)
LEMMA AnalysisInvNext == AnalysisInv /\ [Next]_vars => AnalysisInv'
<1> SUFFICES ASSUME AnalysisInv, [Next]_vars PROVE AnalysisInv'
  OBVIOUS
<1>1. MonitorInv'
  BY AnalysisStepsMonitor, MonitorInvNext DEF AnalysisInv
<1>2. ASSUME NEW scene \in Scenes, ProcessResult(scene)
      PROVE  TracksOK(tracks, nextId)' /\ Distinct(tracks)' /\ MonitorFollowsTracker'
  BY <1>2, ResultKeepsStep
<1>3. ASSUME ResetPerConnectionState
      PROVE  TracksOK(tracks, nextId)' /\ Distinct(tracks)' /\ MonitorFollowsTracker'
  <2>1. TracksOK(tracks', nextId') /\ Distinct(tracks')
    BY <1>3 DEF ResetPerConnectionState, TracksOK, Distinct
  <2>2. MonitorFollowsTracker'
    BY <1>3 DEF ResetPerConnectionState, MonitorReset, NoObjects, Known, MonitorFollowsTracker
  <2>3. QED
    BY <2>1, <2>2
<1>4. ASSUME UNCHANGED <<tracks, nextId, monitor>>
      PROVE  TracksOK(tracks, nextId)' /\ Distinct(tracks)' /\ MonitorFollowsTracker'
  <2>1. tracks' = tracks /\ nextId' = nextId /\ objects' = objects
    BY <1>4 DEF monitor
  <2>2. QED
    BY <2>1 DEF AnalysisInv, MonitorFollowsTracker, Known
<1>5. QED
  BY <1>1, <1>2, <1>3, <1>4 DEF Next, Results, vars, AnalysisInv

(* It holds in every reachable state.                                      *)
LEMMA AnalysisInvAlways == FairSpec => []AnalysisInv
BY AnalysisInvInit, AnalysisInvNext, PTL DEF FairSpec

(* An object the monitor holds has a track seen at least as recently, or   *)
(* one the tracker gave up: with any results, thresholds and resets no new *)
(* track is taken for an old object (CameraSession.cpp, processResult and  *)
(* resetPerConnectionState; ObjectTracker.cpp, update).                    *)
THEOREM MonitorNeverRunsAhead == FairSpec => []MonitorFollowsTracker
<1>1. AnalysisInv => MonitorFollowsTracker
  BY DEF AnalysisInv
<1>2. QED
  BY <1>1, AnalysisInvAlways, PTL

(* A result gives no two detections the same id, with any number of        *)
(* detections that overlap in any way (ObjectTracker.cpp, update).         *)
THEOREM ObjectsAreSeenOnce == FairSpec => []LabelsAreUnique
<1>1. AnalysisInv => LabelsAreUnique
  <2> SUFFICES ASSUME AnalysisInv, NEW scene \in Scenes
               PROVE  LET labels == TrackerUpdate(tracks, nextId, scene).labels
                      IN  \A i, j \in DOMAIN labels :
                            labels[i] = labels[j] /\ labels[i] # 0 => i = j
    BY DEF LabelsAreUnique
  <2> DEFINE labels == TrackerUpdate(tracks, nextId, scene).labels
  <2>1. scene \in Seq(Detection) /\ TracksOK(tracks, nextId) /\ Distinct(tracks)
    BY ScenesAssumption DEF AnalysisInv
  <2>2. /\ labels \in Seq(Nat) /\ Len(labels) = Len(scene)
        /\ \A i, j \in 1..Len(scene) : labels[i] = labels[j] /\ labels[i] # 0 => i = j
    BY <2>1, TrackerFacts
  <2> HIDE DEF labels
  <2>3. DOMAIN labels = 1..Len(scene)
    BY <2>2
  <2>4. QED
    BY <2>2, <2>3 DEF labels
<1>2. QED
  BY <1>1, AnalysisInvAlways, PTL

(* Between tracker and camera control the monitor behaves as it does on    *)
(* its own (CameraSession.cpp, processResult and resetPerConnectionState): *)
(* the ids it is shown are those of objects.                               *)
THEOREM AnalysisImplementsMonitor == FairSpec => MonitorSpec
<1>1. Init => MonitorInit
  BY DEF Init
<1>2. QED
  BY <1>1, AnalysisInvAlways, AnalysisStepsMonitor, PTL DEF FairSpec, MonitorSpec

(* So what is said of its events holds of the camera session's: they tell  *)
(* what is present, and follow the life of an object.                      *)
THEOREM SessionEventsAreTrue == FairSpec => []EventsTellPresence /\ ImplementsObjectLife
BY AnalysisImplementsMonitor, EventsAreTheWholeTruth, MonitorImplementsObjectLife
=============================================================================
