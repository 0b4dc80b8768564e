--------------------------- MODULE ObjectTracking ----------------------------
(***************************************************************************)
(* core/tracking/ObjectTracker.cpp: matches the detections of a result     *)
(* with the tracks of the camera, greedily and by overlap.  Boxes are      *)
(* squares with integer corners, overlaps are compared as fractions.       *)
(***************************************************************************)
EXTENDS LatestValueQueueOps

CONSTANTS MinimumIou,     \* in percent
          MaxLostFrames, MinimumHits

ASSUME TrackerAssumption == /\ MinimumIou \in 0..100
                            /\ MaxLostFrames \in Nat /\ MinimumHits \in Nat

(* Length two intervals have in common.                                    *)
Shared(p, q, size, other) ==
  LET from == IF p < q THEN q ELSE p
      to   == IF p + size < q + other THEN p + size ELSE q + other
  IN IF from < to THEN to - from ELSE 0

Overlap(a, b) == Shared(a.x, b.x, a.size, b.size) * Shared(a.y, b.y, a.size, b.size)
Union(a, b)   == a.size * a.size + b.size * b.size - Overlap(a, b)

OverlapsEnough(a, b) == 100 * Overlap(a, b) >= MinimumIou * Union(a, b)

(* iou(a, c) < iou(b, c)                                                   *)
OverlapsLess(a, b, c) == Overlap(a, c) * Union(b, c) < Overlap(b, c) * Union(a, c)

(* Plausible bug: what one detection has taken another may take as well.   *)
CandidatesAgain(s, d) ==
  {i \in DOMAIN s.tracks : /\ s.tracks[i].class = d.class
                           /\ OverlapsEnough(s.tracks[i].box, d.box)}
Candidates(s, d) ==
  {i \in DOMAIN s.tracks : /\ i \notin s.matched
                           /\ s.tracks[i].class = d.class
                           /\ OverlapsEnough(s.tracks[i].box, d.box)}

(* Of two tracks that overlap equally the later one is taken.              *)
BestTrack(s, d) ==
  LET candidates == Candidates(s, d)
  IN CHOOSE i \in candidates : \A j \in candidates :
       \/ OverlapsLess(s.tracks[j].box, s.tracks[i].box, d.box)
       \/ ~OverlapsLess(s.tracks[i].box, s.tracks[j].box, d.box) /\ j <= i

NewTrack(s, d) ==
  [s EXCEPT !.tracks = Append(@, [id |-> s.nextId, class |-> d.class, box |-> d.box,
                                  hits |-> 1, lost |-> 0]),
            !.nextId = @ + 1]

Seen(t, d) == [t EXCEPT !.box = d.box, !.lost = 0,
                        !.hits = IF @ < MinimumHits THEN @ + 1 ELSE @]
Hit(s, i, d) == [s EXCEPT !.tracks[i] = Seen(@, d)]

(* A detection is labelled with its track's id once the track has its hits. *)
Labelled(s, i) ==
  [s EXCEPT !.matched = @ \cup {i},
            !.labels = Append(@, IF s.tracks[i].hits >= MinimumHits THEN s.tracks[i].id ELSE 0)]

Match(s, d) == IF Candidates(s, d) = {}
                 THEN Labelled(NewTrack(s, d), Len(s.tracks) + 1)
                 ELSE LET i == BestTrack(s, d) IN Labelled(Hit(s, i, d), i)

Aged(tracks) == [i \in DOMAIN tracks |-> [tracks[i] EXCEPT !.lost = @ + 1]]

WithoutOld(s) ==
  [s EXCEPT !.tracks = Kept(@, {i \in DOMAIN @ : @[i].lost <= MaxLostFrames})]

(* update(): the tracks after the result, and the label of each detection. *)
TrackerUpdate(tracks, nextId, detections) ==
  LET matched[n \in 0..Len(detections)] ==
        IF n = 0 THEN [tracks |-> Aged(tracks), nextId |-> nextId,
                       matched |-> {}, labels |-> <<>>]
        ELSE Match(matched[n - 1], detections[n])
  IN WithoutOld(matched[Len(detections)])
=============================================================================
