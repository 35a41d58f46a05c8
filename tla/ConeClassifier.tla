--------------------------- MODULE ConeClassifier ---------------------------
(***************************************************************************)
(* Colours for the lidar's cones (perception/src/ConeClassifier.cpp):      *)
(* every camera's detections are placed on the ground and matched with the *)
(* cones, closest pairs first, each detection and each cone once; a cone   *)
(* takes the colour of the most confident of the detections matched to it. *)
(*                                                                         *)
(* A detection stands for its colour.  Where detections land, and how far  *)
(* from which cone, is any function: `dist' counts MatchDistance and more  *)
(* as too far.                                                             *)
(***************************************************************************)
EXTENDS Integers, Sequences, FiniteSets

CONSTANTS
  Cones,          \* the cones are 1..Cones
  Dets,           \* the detections of a camera are 1..Dets
  Cameras,        \* the cameras, 1..Cameras in the order of their names
  MatchDistance,  \* MATCH_DISTANCE_M
  MaxScore        \* bound: scores are 1..MaxScore

VARIABLES
  cam,       \* how many cameras have been begun
  dist,      \* dist[i][j]: from cone i to detection j of this camera, on the ground
  score,     \* score[j]: the confidence of detection j
  pairs,     \* the pairs within reach that are left
  matched,   \* history: the pairs matched, with the camera and the score
  best,      \* best_score
  color      \* where each cone's colour is from: <<camera, detection>>, or Unknown

classifierVars == <<cam, dist, score, pairs, matched, best, color>>

Unknown == <<0, 0>>

Distances == [1..Cones -> [1..Dets -> 0..MatchDistance]]
Scores == [1..Dets -> 1..MaxScore]

(* No detection is anywhere near. *)
Nowhere == [i \in 1..Cones |-> [j \in 1..Dets |-> MatchDistance]]

Init ==
  /\ cam = 0 /\ dist = Nowhere /\ score = [j \in 1..Dets |-> MaxScore]
  /\ pairs = {} /\ matched = {}
  /\ best = [i \in 1..Cones |-> 0]
  /\ color = [i \in 1..Cones |-> Unknown]

-----------------------------------------------------------------------------
(* The order in which std::sort puts the pairs. *)
Closer(p, q) ==
  \/ p.d < q.d
  \/ p.d = q.d /\ (p.i < q.i \/ (p.i = q.i /\ p.j < q.j))

(* Every pair within the match distance.  A detection place_detections     *)
(* drops, because it is above the horizon or too far away, is in none.     *)
InReach(D) ==
  {[d |-> D[x[1]][x[2]], i |-> x[1], j |-> x[2]] :
     x \in {y \in (1..Cones) \X (1..Dets) : D[y[1]][y[2]] < MatchDistance}}

(* classify: the next camera and its detections ... *)
NextCamera(D, S) ==
  /\ pairs = {} /\ cam < Cameras
  /\ cam' = cam + 1
  /\ dist' = D /\ score' = S
  /\ pairs' = InReach(D)
  /\ UNCHANGED <<matched, best, color>>

(* ... one without intrinsics, or without detections, is skipped. *)
SkipCamera ==
  /\ pairs = {} /\ cam < Cameras
  /\ cam' = cam + 1
  /\ dist' = Nowhere
  /\ UNCHANGED <<score, pairs, matched, best, color>>

Used(p) == \E q \in matched : q.c = cam /\ (q.i = p.i \/ q.j = p.j)

Matching(p) == [c |-> cam, d |-> p.d, i |-> p.i, j |-> p.j, s |-> score[p.j]]

(* Mutated: the pairs are not sorted. *)
Match_Unsorted ==
  \E p \in pairs :
    /\ pairs' = pairs \ {p}
    /\ IF Used(p)
         THEN UNCHANGED <<matched, best, color>>
         ELSE /\ matched' = matched \cup {Matching(p)}
              /\ IF score[p.j] > best[p.i]
                   THEN /\ best' = [best EXCEPT ![p.i] = score[p.j]]
                        /\ color' = [color EXCEPT ![p.i] = <<cam, p.j>>]
                   ELSE UNCHANGED <<best, color>>
    /\ UNCHANGED <<cam, dist, score>>

(* Mutated: the last camera wins. *)
Match_LastWins ==
  \E p \in pairs :
    /\ \A q \in pairs : q = p \/ Closer(p, q)
    /\ pairs' = pairs \ {p}
    /\ IF Used(p)
         THEN UNCHANGED <<matched, best, color>>
         ELSE /\ matched' = matched \cup {Matching(p)}
              /\ best' = [best EXCEPT ![p.i] = score[p.j]]
              /\ color' = [color EXCEPT ![p.i] = <<cam, p.j>>]
    /\ UNCHANGED <<cam, dist, score>>

(* ... the closest pair that is left is matched, unless its cone or its    *)
(* detection already is.                                                   *)
Match ==
  \E p \in pairs :
    /\ \A q \in pairs : q = p \/ Closer(p, q)
    /\ pairs' = pairs \ {p}
    /\ IF Used(p)
         THEN UNCHANGED <<matched, best, color>>
         ELSE /\ matched' = matched \cup {Matching(p)}
              /\ IF score[p.j] > best[p.i]
                   THEN /\ best' = [best EXCEPT ![p.i] = score[p.j]]
                        /\ color' = [color EXCEPT ![p.i] = <<cam, p.j>>]
                   ELSE UNCHANGED <<best, color>>
    /\ UNCHANGED <<cam, dist, score>>

Next == (\E D \in Distances, S \in Scores : NextCamera(D, S)) \/ SkipCamera \/ Match

Spec == Init /\ [][Next]_classifierVars

-----------------------------------------------------------------------------
(* The matching of every camera is one-to-one and, when its pairs have     *)
(* been gone through, stable: a cone and a detection within reach of each  *)
(* other are apart only when one of the two has a partner as close.        *)
MatchingIsStable ==
  /\ \A p, q \in matched : p.c = q.c /\ (p.i = q.i \/ p.j = q.j) => p = q
  /\ pairs = {} =>
       \A p \in InReach(dist) :
         \E q \in matched : q.c = cam /\ (q.i = p.i \/ q.j = p.j) /\ q.d <= p.d

(* A cone has the colour of the most confident detection matched to it,    *)
(* whichever camera saw it and in whichever order the cameras come; a cone *)
(* that none is matched to stays unknown.                                  *)
MostConfidentWins ==
  \A i \in 1..Cones :
    \/ color[i] = Unknown /\ \A p \in matched : p.i # i
    \/ \E p \in matched :
         /\ p.i = i /\ color[i] = <<p.c, p.j>>
         /\ \A q \in matched : q.i = i => q.s <= p.s

(* What the comment on classify says of a cone: that it gets the colour of *)
(* the nearest detection, here among those that are matched to it.         *)
NearestColours ==
  \A p, q \in matched : p.i = q.i /\ color[p.i] = <<p.c, p.j>> => p.d <= q.d
=============================================================================
