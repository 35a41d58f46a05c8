----------------------------- MODULE Perception -----------------------------
(***************************************************************************)
(* From the sensors to coloured cones: the lidar driver (OusterComms) and  *)
(* the cameras (BlackflyComms), each with a thread of its own, and the two *)
(* algorithms the autonomy thread runs on what they leave in the state     *)
(* tracker, the filter that finds cones in a scan (LidarFilter) and the    *)
(* classifier that colours them (ConeClassifier).                          *)
(*                                                                         *)
(* The algorithms work on copies, so the four share no variable and no     *)
(* property speaks of two of them.  A behaviour is one of a single part,   *)
(* chosen in the initial state: the states of the four add up.             *)
(***************************************************************************)
EXTENDS Integers, Sequences, FiniteSets

CONSTANTS
  Points, MaxPoints, GridMin, GridMax, Bin, Floor, MinPerCell, Percent, Clearance, Tol,
  MinSize, MaxSize, MaxRange, NearRange, MidRange, Gate, MaxHeight, MaxTop, MaxElongation,
  MinWidth,                                              \* LidarFilter
  Cones, Dets, Cameras, MatchDistance, MaxScore,         \* ConeClassifier
  Buffers, MaxFrames,                                    \* BlackflyComms
  MaxAttempts, MaxScans                                  \* OusterComms

ASSUME FilterAssumption ==
  /\ \A p \in Points : p.x \in Int /\ p.y \in Int /\ p.z \in Int
  /\ Bin \in Nat \ {0} /\ Tol \in Nat \ {0} /\ GridMin < GridMax
  /\ Percent \in 0..100 /\ MinSize \in Nat \ {0} /\ NearRange <= MidRange
ASSUME MatchingAssumption ==
  /\ Cones \in Nat /\ Dets \in Nat /\ Cameras \in Nat
  /\ MatchDistance \in Nat /\ MaxScore \in Nat \ {0}
ASSUME SensorAssumption ==
  IsFiniteSet(Buffers) /\ MaxFrames \in Nat /\ MaxAttempts \in Nat /\ MaxScans \in Nat

VARIABLES
  part,        \* what this behaviour is about: "filter", "classifier", "camera" or "lidar"
  scan, ground, kept, visited, queue, current, clusters, cones, stage,
  cam, dist, score, pairs, matched, best, color,
  camera, empty, filled, loop, hand, live, closing, frames, encoder, detections,
  task, attempts, source, lut, scans, up, quit

Filter     == INSTANCE LidarFilter
Classifier == INSTANCE ConeClassifier
Camera     == INSTANCE BlackflyComms
Lidar      == INSTANCE OusterComms

filterVars     == <<scan, ground, kept, visited, queue, current, clusters, cones, stage>>
classifierVars == <<cam, dist, score, pairs, matched, best, color>>
cameraVars     == <<camera, empty, filled, loop, hand, live, closing, frames, encoder,
                    detections>>
lidarVars      == <<task, attempts, source, lut, scans, up, quit>>
vars == <<part, filterVars, classifierVars, cameraVars, lidarVars>>

Init ==
  /\ part \in {"filter", "classifier", "camera", "lidar"}
  /\ Filter!Init /\ Classifier!Init /\ Camera!Init /\ Lidar!Init

Next ==
  \/ /\ part = "filter" /\ Filter!Next
     /\ UNCHANGED <<part, classifierVars, cameraVars, lidarVars>>
  \/ /\ part = "classifier" /\ Classifier!Next
     /\ UNCHANGED <<part, filterVars, cameraVars, lidarVars>>
  \/ /\ part = "camera" /\ Camera!Next
     /\ UNCHANGED <<part, filterVars, classifierVars, lidarVars>>
  \/ /\ part = "lidar" /\ Lidar!Next
     /\ UNCHANGED <<part, filterVars, classifierVars, cameraVars>>

Spec == Init /\ [][Next]_vars

(* The lidar's thread is scheduled and its waits have timeouts; a          *)
(* destructor that has begun goes on.                                      *)
OthersRest == UNCHANGED <<part, filterVars, classifierVars, cameraVars>>
Fairness ==
  /\ WF_vars(part = "lidar" /\ Lidar!Thread /\ OthersRest)
  /\ WF_vars(part = "lidar" /\ Lidar!QuitJoins /\ OthersRest)

FairSpec == Spec /\ Fairness

-----------------------------------------------------------------------------
(* The clusters found on the grid are the connected components of the      *)
(* points that are near each other.                                        *)
ClustersAreComponents == Filter!ClustersAreComponents

(* Each camera's matching of detections and cones is one-to-one and        *)
(* stable.                                                                 *)
MatchingIsStable == Classifier!MatchingIsStable

(* A cone has the colour of the most confident detection matched to it,    *)
(* in whichever order the cameras come.                                    *)
MostConfidentWins == Classifier!MostConfidentWins

(* No frame, good or bad, costs the camera's stream a buffer, and the      *)
(* thread holds none when the camera is let go.                            *)
BuffersConserved == Camera!BuffersConserved

(* A cloud is made with the lookup table of the connection it came over,   *)
(* however many attempts to connect failed, and wherever.                  *)
CloudUsesItsTable == Lidar!CloudUsesItsTable

(* Destroying the lidar interface ends, also while the sensor is absent.   *)
LidarStops == Lidar!LidarStops

-----------------------------------------------------------------------------
(* What the comment on classify says: the nearest detection colours.       *)
NearestColours == Classifier!NearestColours
=============================================================================
