-------------------------- MODULE PerceptionProofs --------------------------
(***************************************************************************)
(* Proofs about Perception: of the cone classifier for any number of       *)
(* cones, detections and cameras, wherever the detections land and however *)
(* confident they are; of the lidar for any number of attempts to connect; *)
(* of the lidar filter for any scan, grid and tolerance; of a camera for   *)
(* any set of buffers and whatever frames come.                            *)
(***************************************************************************)
EXTENDS Perception, FiniteSetTheorems, SequenceTheorems, TLAPS

(* What the classifier's variables hold. *)
PairType == [d : Nat, i : 1..Cones, j : 1..Dets]
MatchType == [c : Nat, d : Nat, i : 1..Cones, j : 1..Dets, s : Nat \ {0}]

ClassifierType ==
  /\ cam \in Nat
  /\ dist \in [1..Cones -> [1..Dets -> Nat]]
  /\ score \in [1..Dets -> Nat \ {0}]
  /\ pairs \subseteq Classifier!InReach(dist)
  /\ matched \subseteq MatchType
  /\ best \in [1..Cones -> Nat]
  /\ DOMAIN color = 1..Cones

(* Cameras are gone through in order: none is matched before its turn. *)
CamerasInOrder == \A q \in matched : q.c <= cam

(* What this camera has matched is no further apart than what is left, so  *)
(* it comes first.                                                         *)
ClosestFirst == \A q \in matched, p \in pairs : q.c = cam => q.d <= p.d

OneToOne == \A p, q \in matched : p.c = q.c /\ (p.i = q.i \/ p.j = q.j) => p = q

(* A pair that has been gone through has a partner as close.               *)
Settled ==
  \A p \in Classifier!InReach(dist) : p \in pairs \/
    \E q \in matched : q.c = cam /\ (q.i = p.i \/ q.j = p.j) /\ q.d <= p.d

MatchInv == CamerasInOrder /\ ClosestFirst /\ OneToOne /\ Settled

(* best_score is the score of the detection that gave the cone its colour, *)
(* and none that was matched to the cone is above it.                      *)
BestInv ==
  \A i \in 1..Cones :
    /\ \A q \in matched : q.i = i => q.s <= best[i]
    /\ \/ color[i] = Classifier!Unknown /\ best[i] = 0
       \/ \E p \in matched : p.i = i /\ color[i] = <<p.c, p.j>> /\ p.s = best[i]

IInv == ClassifierType /\ MatchInv /\ BestInv

-----------------------------------------------------------------------------
(* The pairs within reach, one by one. *)
LEMMA InReachIs ==
  ASSUME NEW D \in [1..Cones -> [1..Dets -> Nat]]
  PROVE  /\ Classifier!InReach(D) \subseteq PairType
         /\ \A p \in Classifier!InReach(D) : p.d = D[p.i][p.j] /\ p.d < MatchDistance
  <1> SUFFICES ASSUME NEW p \in Classifier!InReach(D)
               PROVE  p \in PairType /\ p.d = D[p.i][p.j] /\ p.d < MatchDistance
    OBVIOUS
  <1>1. PICK x \in (1..Cones) \X (1..Dets) :
          D[x[1]][x[2]] < MatchDistance /\ p = [d |-> D[x[1]][x[2]], i |-> x[1], j |-> x[2]]
    BY DEF Classifier!InReach
  <1>2. x[1] \in 1..Cones /\ x[2] \in 1..Dets
    BY <1>1
  <1>3. D[x[1]][x[2]] \in Nat
    BY <1>2
  <1> QED BY <1>1, <1>2, <1>3 DEF PairType

LEMMA NothingInReach == Classifier!InReach(Classifier!Nowhere) = {}
  <1>0. MatchDistance \in Nat
    BY MatchingAssumption
  <1>1. Classifier!Nowhere \in [1..Cones -> [1..Dets -> Nat]]
    BY <1>0 DEF Classifier!Nowhere
  <1>2. ASSUME NEW p \in Classifier!InReach(Classifier!Nowhere) PROVE FALSE
    <2>1. /\ p \in PairType /\ p.d = Classifier!Nowhere[p.i][p.j] /\ p.d < MatchDistance
      BY <1>1, InReachIs
    <2>2. p.i \in 1..Cones /\ p.j \in 1..Dets
      BY <2>1 DEF PairType
    <2>3. Classifier!Nowhere[p.i][p.j] = MatchDistance
      BY <2>2 DEF Classifier!Nowhere
    <2> QED BY <1>0, <2>1, <2>3
  <1> QED BY <1>2

(* The step of another part leaves the classifier, and the lidar, alone. *)
LEMMA OtherParts ==
  ASSUME [Next]_vars
  PROVE  /\ Classifier!Next \/ UNCHANGED classifierVars
         /\ Lidar!Next \/ UNCHANGED lidarVars
  BY DEF Next, vars

-----------------------------------------------------------------------------
(* A camera's turn begins: nothing is matched for it yet. *)
LEMMA TurnBegins ==
  ASSUME IInv, NEW D \in [1..Cones -> [1..Dets -> Nat]], cam' = cam + 1, dist' = D,
         pairs' = Classifier!InReach(D), score' \in [1..Dets -> Nat \ {0}],
         UNCHANGED <<matched, best, color>>
  PROVE  IInv'
  <1>1. cam \in Nat /\ matched \subseteq MatchType
    BY DEF IInv, ClassifierType
  <1>2. \A q \in matched : q.c \in Nat /\ q.c <= cam
    BY <1>1 DEF IInv, MatchInv, CamerasInOrder, MatchType
  <1>3. \A q \in matched : q.c <= cam + 1 /\ q.c # cam + 1
    BY ONLY <1>1, <1>2
  <1>4. ClassifierType'
    <2>1. cam' \in Nat
      BY <1>1
    <2> QED BY <2>1 DEF IInv, ClassifierType
  <1>5. MatchInv'
    BY <1>3 DEF IInv, MatchInv, CamerasInOrder, ClosestFirst, OneToOne, Settled
  <1>6. BestInv'
    BY DEF IInv, BestInv
  <1> QED BY <1>4, <1>5, <1>6 DEF IInv

LEMMA NextCameraStep ==
  ASSUME IInv, NEW D \in Classifier!Distances, NEW S \in Classifier!Scores,
         Classifier!NextCamera(D, S)
  PROVE  IInv'
  <1>1. D \in [1..Cones -> [1..Dets -> Nat]]
    <2>1. 0..MatchDistance \subseteq Nat
      BY MatchingAssumption
    <2> QED BY <2>1 DEF Classifier!Distances
  <1>2. S \in [1..Dets -> Nat \ {0}]
    <2>1. 1..MaxScore \subseteq Nat \ {0}
      BY MatchingAssumption
    <2> QED BY <2>1 DEF Classifier!Scores
  <1>3. /\ cam' = cam + 1 /\ dist' = D /\ score' = S /\ pairs' = Classifier!InReach(D)
        /\ UNCHANGED <<matched, best, color>>
    BY DEF Classifier!NextCamera
  <1> QED BY <1>1, <1>2, <1>3, TurnBegins

LEMMA SkipCameraStep ==
  ASSUME IInv, Classifier!SkipCamera
  PROVE  IInv'
  <1>1. Classifier!Nowhere \in [1..Cones -> [1..Dets -> Nat]]
    BY MatchingAssumption DEF Classifier!Nowhere
  <1>2. /\ cam' = cam + 1 /\ dist' = Classifier!Nowhere /\ pairs = {}
        /\ UNCHANGED <<score, pairs, matched, best, color>>
    BY DEF Classifier!SkipCamera
  <1>3. pairs' = Classifier!InReach(Classifier!Nowhere)
    BY <1>2, NothingInReach
  <1>4. score' \in [1..Dets -> Nat \ {0}]
    BY <1>2 DEF IInv, ClassifierType
  <1> QED BY <1>1, <1>2, <1>3, <1>4, TurnBegins

(* The closest pair that is left is settled. *)
LEMMA MatchStep ==
  ASSUME IInv, Classifier!Match
  PROVE  IInv'
  <1>1. PICK p \in pairs :
          /\ \A q \in pairs : q = p \/ Classifier!Closer(p, q)
          /\ pairs' = pairs \ {p}
          /\ IF Classifier!Used(p)
               THEN UNCHANGED <<matched, best, color>>
               ELSE /\ matched' = matched \cup {Classifier!Matching(p)}
                    /\ IF score[p.j] > best[p.i]
                         THEN /\ best' = [best EXCEPT ![p.i] = score[p.j]]
                              /\ color' = [color EXCEPT ![p.i] = <<cam, p.j>>]
                         ELSE UNCHANGED <<best, color>>
          /\ UNCHANGED <<cam, dist, score>>
    BY DEF Classifier!Match
  <1>t. /\ cam \in Nat /\ dist \in [1..Cones -> [1..Dets -> Nat]]
        /\ score \in [1..Dets -> Nat \ {0}] /\ matched \subseteq MatchType
        /\ best \in [1..Cones -> Nat] /\ DOMAIN color = 1..Cones
        /\ pairs \subseteq Classifier!InReach(dist)
    BY DEF IInv, ClassifierType
  <1>p. pairs \subseteq PairType
    BY <1>t, InReachIs
  <1>q. /\ p.d \in Nat /\ p.i \in 1..Cones /\ p.j \in 1..Dets
        /\ \A q \in pairs : q.d \in Nat
        /\ \A q \in matched : q.d \in Nat /\ q.s \in Nat /\ q.c \in Nat
    BY <1>t, <1>p DEF PairType, MatchType
  <1>2. \A q \in pairs : p.d <= q.d
    BY <1>1, <1>q DEF Classifier!Closer
  <1>u. cam' = cam /\ dist' = dist /\ score' = score /\ pairs' = pairs \ {p}
    BY <1>1
  <1>3. CASE Classifier!Used(p)
    <2>1. matched' = matched /\ best' = best /\ color' = color
      BY <1>1, <1>3
    <2>2. PICK q \in matched : q.c = cam /\ (q.i = p.i \/ q.j = p.j)
      BY <1>3 DEF Classifier!Used
    <2>3. q.d <= p.d
      BY <2>2 DEF IInv, MatchInv, ClosestFirst
    <2>4. Settled'
      BY <1>u, <2>1, <2>2, <2>3 DEF IInv, MatchInv, Settled
    <2>5. CamerasInOrder' /\ ClosestFirst' /\ OneToOne'
      BY <1>u, <2>1 DEF IInv, MatchInv, CamerasInOrder, ClosestFirst, OneToOne
    <2>6. BestInv'
      BY <2>1 DEF IInv, BestInv
    <2>7. ClassifierType'
      BY <1>u, <2>1 DEF IInv, ClassifierType
    <2> QED BY <2>4, <2>5, <2>6, <2>7 DEF IInv, MatchInv
  <1>4. CASE ~Classifier!Used(p)
    <2> DEFINE m == [c |-> cam, d |-> p.d, i |-> p.i, j |-> p.j, s |-> score[p.j]]
    <2>1. matched' = matched \cup {m}
      BY <1>1, <1>4 DEF Classifier!Matching
    <2>2. m \in MatchType /\ score[p.j] \in Nat \ {0}
      BY <1>q, <1>t DEF MatchType
    <2>3. m.c = cam /\ m.d = p.d /\ m.i = p.i /\ m.j = p.j /\ m.s = score[p.j]
      OBVIOUS
    <2> HIDE DEF m
    <2>4. \A q \in matched : q.c = cam => q.i # p.i /\ q.j # p.j
      BY <1>4 DEF Classifier!Used
    <2>5. p.d <= p.d /\ cam <= cam
      BY ONLY <1>q, <1>t
    <2>6. Settled'
      BY <1>u, <2>1, <2>3, <2>5 DEF IInv, MatchInv, Settled
    <2>7. CamerasInOrder'
      BY <1>u, <2>1, <2>3, <2>5 DEF IInv, MatchInv, CamerasInOrder
    <2>8. ClosestFirst'
      BY <1>2, <1>u, <2>1, <2>3 DEF IInv, MatchInv, ClosestFirst
    <2>9. OneToOne'
      BY <2>1, <2>3, <2>4 DEF IInv, MatchInv, OneToOne
    <2>10. CASE score[p.j] > best[p.i]
      <3>1. /\ best' = [best EXCEPT ![p.i] = score[p.j]]
            /\ color' = [color EXCEPT ![p.i] = <<cam, p.j>>]
        BY <1>1, <1>4, <2>10
      <3>2. ClassifierType'
        BY <1>t, <1>q, <1>u, <2>1, <2>2, <3>1 DEF ClassifierType
      <3>3. ASSUME NEW i \in 1..Cones PROVE
              /\ \A q \in matched' : q.i = i => q.s <= best'[i]
              /\ \/ color'[i] = Classifier!Unknown /\ best'[i] = 0
                 \/ \E r \in matched' : r.i = i /\ color'[i] = <<r.c, r.j>> /\ r.s = best'[i]
        <4>1. CASE i = p.i
          <5>1. best'[i] = score[p.j] /\ color'[i] = <<cam, p.j>>
            BY <1>t, <1>q, <3>1, <4>1
          <5>2. \A q \in matched : q.i = i => q.s <= best[p.i]
            BY <4>1, <1>q DEF IInv, BestInv
          <5>3. \A q \in matched : q.i = i => q.s <= score[p.j]
            BY <5>2, <1>q, <1>t, <2>2, <2>10
          <5>4. score[p.j] <= score[p.j]
            BY <2>2
          <5> QED BY <2>1, <2>3, <4>1, <5>1, <5>3, <5>4
        <4>2. CASE i # p.i
          <5>1. best'[i] = best[i] /\ color'[i] = color[i]
            BY <1>t, <1>q, <3>1, <4>2
          <5> QED BY <2>1, <2>3, <4>2, <5>1 DEF IInv, BestInv
        <4> QED BY <4>1, <4>2
      <3> QED BY <2>6, <2>7, <2>8, <2>9, <3>2, <3>3 DEF IInv, MatchInv, BestInv
    <2>11. CASE ~(score[p.j] > best[p.i])
      <3>1. best' = best /\ color' = color
        BY <1>1, <1>4, <2>11
      <3>2. ClassifierType'
        BY <1>t, <1>u, <2>1, <2>2, <3>1 DEF ClassifierType
      <3>3. score[p.j] <= best[p.i]
        BY <1>t, <1>q, <2>2, <2>11
      <3>4. BestInv'
        BY <2>1, <2>3, <3>1, <3>3 DEF IInv, BestInv
      <3> QED BY <2>6, <2>7, <2>8, <2>9, <3>2, <3>4 DEF IInv, MatchInv
    <2> QED BY <2>10, <2>11
  <1> QED BY <1>3, <1>4

LEMMA IInvAlways == Spec => []IInv
  <1>1. Init => IInv
    <2> SUFFICES ASSUME Classifier!Init PROVE IInv
      BY DEF Init
    <2>1. Classifier!Nowhere \in [1..Cones -> [1..Dets -> Nat]]
      BY MatchingAssumption DEF Classifier!Nowhere
    <2>2. /\ cam = 0 /\ dist = Classifier!Nowhere /\ pairs = {} /\ matched = {}
          /\ score = [j \in 1..Dets |-> MaxScore]
          /\ best = [i \in 1..Cones |-> 0] /\ color = [i \in 1..Cones |-> Classifier!Unknown]
      BY DEF Classifier!Init
    <2>3. ClassifierType
      BY <2>1, <2>2, MatchingAssumption DEF ClassifierType
    <2>4. MatchInv
      BY <2>2, NothingInReach
         DEF MatchInv, CamerasInOrder, ClosestFirst, OneToOne, Settled
    <2>5. BestInv
      BY <2>2 DEF BestInv
    <2> QED BY <2>3, <2>4, <2>5 DEF IInv
  <1>2. IInv /\ [Next]_vars => IInv'
    <2> SUFFICES ASSUME IInv, [Next]_vars PROVE IInv'
      OBVIOUS
    <2>1. CASE UNCHANGED classifierVars
      BY <2>1 DEF classifierVars, IInv, ClassifierType, MatchInv, CamerasInOrder, ClosestFirst,
                  OneToOne, Settled, BestInv
    <2>2. CASE Classifier!Next
      BY <2>2, NextCameraStep, SkipCameraStep, MatchStep DEF Classifier!Next
    <2> QED BY <2>1, <2>2, OtherParts
  <1> QED BY <1>1, <1>2, PTL DEF Spec

(* Taking the pairs in the order of their distance gives a one-to-one and  *)
(* stable matching of each camera's detections with the cones.             *)
THEOREM StableMatching == Spec => []MatchingIsStable
  <1>1. IInv => MatchingIsStable
    <2> SUFFICES ASSUME IInv PROVE MatchingIsStable
      OBVIOUS
    <2>1. OneToOne /\ Settled
      BY DEF IInv, MatchInv
    <2> QED BY <2>1 DEF MatchingIsStable, Classifier!MatchingIsStable, OneToOne, Settled
  <1> QED BY <1>1, IInvAlways, PTL

(* A cone's colour is that of the most confident detection matched to it,  *)
(* in whichever order the cameras are gone through.                        *)
THEOREM ConfidentColours == Spec => []MostConfidentWins
  <1>1. IInv => MostConfidentWins
    <2> SUFFICES ASSUME IInv, NEW i \in 1..Cones
                 PROVE  \/ color[i] = Classifier!Unknown /\ \A p \in matched : p.i # i
                        \/ \E p \in matched :
                             /\ p.i = i /\ color[i] = <<p.c, p.j>>
                             /\ \A q \in matched : q.i = i => q.s <= p.s
      BY DEF MostConfidentWins, Classifier!MostConfidentWins
    <2>1. /\ \A q \in matched : q.i = i => q.s <= best[i]
          /\ \/ color[i] = Classifier!Unknown /\ best[i] = 0
             \/ \E p \in matched : p.i = i /\ color[i] = <<p.c, p.j>> /\ p.s = best[i]
      BY DEF IInv, BestInv
    <2>2. \A q \in matched : q.s \in Nat \ {0}
      BY DEF IInv, ClassifierType, MatchType
    <2>3. best[i] = 0 => \A q \in matched : q.i # i
      BY <2>1, <2>2
    <2> QED BY <2>1, <2>3
  <1> QED BY <1>1, IInvAlways, PTL

-----------------------------------------------------------------------------
(* An attempt to connect begins without a table, and leaves at most the    *)
(* one of its own connection.                                              *)
TableInv ==
  /\ task \in {"connecting", "table"} => lut = <<>>
  /\ Lidar!CloudUsesItsTable

LEMMA FirstTable ==
  ASSUME NEW x
  PROVE  Append(<<>>, x) = <<x>>
  <1> DEFINE S == {x}
  <1>1. x \in S
    OBVIOUS
  <1> HIDE DEF S
  <1>2. <<>> \in Seq(S) /\ <<x>> \in Seq(S)
    BY <1>1, EmptySeq
  <1>3. Append(<<>>, x) = <<>> \o <<x>>
    BY <1>1, <1>2, AppendIsConcat
  <1> QED BY <1>2, <1>3, ConcatEmptySeq

LEMMA TableStep == TableInv /\ [Next]_vars => TableInv'
  <1> SUFFICES ASSUME TableInv, [Next]_vars PROVE TableInv'
    OBVIOUS
  <1> USE DEF TableInv, Lidar!CloudUsesItsTable
  <1>1. ASSUME Lidar!TryInit PROVE TableInv'
    BY <1>1 DEF Lidar!TryInit
  <1>2. ASSUME Lidar!Connect PROVE TableInv'
    BY <1>2 DEF Lidar!Connect
  <1>3. ASSUME Lidar!MakeTable PROVE TableInv'
    <2>1. Append(<<>>, source) = <<source>>
      BY FirstTable
    <2> QED BY <1>3, <2>1 DEF Lidar!MakeTable
  <1>4. ASSUME Lidar!Retry PROVE TableInv'
    BY <1>4 DEF Lidar!Retry
  <1>5. ASSUME Lidar!LoopTop PROVE TableInv'
    BY <1>5 DEF Lidar!LoopTop
  <1>6. ASSUME Lidar!GetFrame PROVE TableInv'
    BY <1>6 DEF Lidar!GetFrame
  <1>7. ASSUME Lidar!Convert PROVE TableInv'
    <2>1. lut = <<source>> /\ lut[1] = source
      BY <1>7 DEF Lidar!Convert
    <2>2. scans'.lut = scans'.source /\ task' = "top" /\ UNCHANGED <<lut, source>>
      BY <1>7, <2>1 DEF Lidar!Convert
    <2> QED BY <2>1, <2>2
  <1>8. ASSUME Lidar!Quit \/ Lidar!QuitJoins PROVE TableInv'
    BY <1>8 DEF Lidar!Quit, Lidar!QuitJoins
  <1>9. ASSUME UNCHANGED lidarVars PROVE TableInv'
    BY <1>9 DEF lidarVars
  <1> QED BY <1>1, <1>2, <1>3, <1>4, <1>5, <1>6, <1>7, <1>8, <1>9, OtherParts
          DEF Lidar!Next, Lidar!Thread

(* Every cloud is made with the table of the connection its frame came     *)
(* over, however many attempts failed and however far each of them got.    *)
THEOREM CloudsUseTheirTable == Spec => []CloudUsesItsTable
  <1>1. Init => TableInv
    BY DEF Init, Lidar!Init, TableInv, Lidar!CloudUsesItsTable
  <1>2. TableInv => CloudUsesItsTable
    BY DEF TableInv, CloudUsesItsTable
  <1> QED BY <1>1, <1>2, TableStep, PTL DEF Spec

-----------------------------------------------------------------------------
(* The cluster under construction: what has been taken from the queue and  *)
(* what is in it; and what belongs to the clusters before.                 *)
Building == current \cup Range(queue)
Finished == visited \ Building

InOnePiece(C) == \A D \in (SUBSET C) \ {{}, C} : \E i \in D, j \in C \ D : Filter!Near(i, j)

Wanted == {C \in SUBSET Finished :
             Filter!IsComponent(C) /\ Cardinality(C) \in MinSize..MaxSize}

FilterType ==
  /\ scan \in Seq(Points) /\ kept \subseteq DOMAIN scan
  /\ visited \subseteq kept /\ Building \subseteq visited /\ queue \in Seq(kept)
  /\ clusters \in Seq(SUBSET kept)
  /\ stage \in {"scan", "cluster", "done"}
  /\ stage = "scan" => visited = {} /\ clusters = <<>>
  /\ stage = "done" => visited = kept /\ current = {} /\ queue = <<>>

(* No point of a finished cluster is near one outside, and whatever is     *)
(* near a point taken from the queue has been put into it.                 *)
NothingCutOff ==
  /\ \A i \in Finished, j \in kept \ Finished : ~Filter!Near(i, j)
  /\ \A i \in current, j \in kept : Filter!Near(i, j) => j \in Building

FoundOnce ==
  /\ \A a, b \in DOMAIN clusters : a # b => clusters[a] # clusters[b]
  /\ Range(clusters) = Wanted

FilterInv == FilterType /\ NothingCutOff /\ InOnePiece(Building) /\ FoundOnce

-----------------------------------------------------------------------------
(* The parts count alike. *)
LEMMA SameSize ==
  \A S : Filter!Cardinality(S) = Cardinality(S) /\ Camera!Cardinality(S) = Cardinality(S)
  BY DEF Filter!Cardinality, Camera!Cardinality, Cardinality

(* Two points that are near are in the same cell or in adjacent ones. *)
LEMMA ShortSides ==
  ASSUME NEW d \in Int, NEW e \in Int, NEW t \in Nat \ {0}, d * d + e * e <= t * t
  PROVE  -t <= d /\ d <= t /\ -t <= e /\ e <= t
  <1>1. ASSUME NEW a \in Int, NEW b \in Int, a * a + b * b <= t * t PROVE a <= t
    <2> SUFFICES ASSUME a > t PROVE FALSE
      OBVIOUS
    <2>1. a * a > t * t /\ b * b >= 0
      BY SMTT(30)
    <2> QED BY <1>1, <2>1
  <1>2. (-d) * (-d) = d * d /\ (-e) * (-e) = e * e /\ e * e + d * d = d * d + e * e
    OBVIOUS
  <1>3. d <= t /\ e <= t
    BY <1>1, <1>2
  <1>4. -d <= t /\ -e <= t
    BY <1>1, <1>2
  <1> QED BY <1>3, <1>4

LEMMA NextCell ==
  ASSUME NEW a \in Int, NEW b \in Int, NEW t \in Nat \ {0}, -t <= a - b, a - b <= t
  PROVE  (b \div t) - (a \div t) \in -1..1
  <1> DEFINE p == a \div t
             q == b \div t
  <1>1. /\ p \in Int /\ t * p <= a /\ a < t * p + t
        /\ q \in Int /\ t * q <= b /\ b < t * q + t
    OBVIOUS
  <1> HIDE DEF p, q
  <1>2. t * (p - q) < 2 * t /\ t * (q - p) < 2 * t
    BY <1>1
  <1>3. q - p \in -1..1
    BY <1>1, <1>2
  <1> QED BY <1>3 DEF p, q

LEMMA NearIsAround ==
  ASSUME scan \in Seq(Points), NEW i \in DOMAIN scan, NEW j \in DOMAIN scan, Filter!Near(i, j)
  PROVE  Filter!Around(i, j) /\ Filter!Near(j, i)
  <1> DEFINE dx == scan[i].x - scan[j].x
             dy == scan[i].y - scan[j].y
  <1>1. scan[i] \in Points /\ scan[j] \in Points
    OBVIOUS
  <1>2. /\ scan[i].x \in Int /\ scan[i].y \in Int /\ scan[j].x \in Int /\ scan[j].y \in Int
        /\ Tol \in Nat \ {0}
    BY <1>1, FilterAssumption
  <1>3. dx * dx + dy * dy <= Tol * Tol
    BY DEF Filter!Near
  <1>4. -Tol <= dx /\ dx <= Tol /\ -Tol <= dy /\ dy <= Tol
    <2>1. dx \in Int /\ dy \in Int
      BY <1>2
    <2> HIDE DEF dx, dy
    <2> QED BY <1>2, <1>3, <2>1, ShortSides
  <1>5. Filter!Around(i, j)
    <2>1. (scan[j].x \div Tol) - (scan[i].x \div Tol) \in -1..1
      BY <1>2, <1>4, NextCell
    <2>2. (scan[j].y \div Tol) - (scan[i].y \div Tol) \in -1..1
      BY <1>2, <1>4, NextCell
    <2> QED BY <2>1, <2>2 DEF Filter!Around, Filter!Column, Filter!Row
  <1>6. Filter!Near(j, i)
    <2> DEFINE ex == scan[j].x - scan[i].x
               ey == scan[j].y - scan[i].y
    <2>1. ex = -dx /\ ey = -dy /\ dx \in Int /\ dy \in Int
      BY <1>2
    <2>2. ex * ex + ey * ey = dx * dx + dy * dy
      <3> HIDE DEF dx, dy, ex, ey
      <3> QED BY <2>1
    <2> QED BY <1>3, <2>2 DEF Filter!Near
  <1> QED BY <1>5, <1>6

(* Two components that share a point are the same. *)
LEMMA SharedPoint ==
  ASSUME NEW C \in SUBSET kept, NEW D \in SUBSET kept, Filter!IsComponent(C),
         Filter!IsComponent(D), C \cap D # {}
  PROVE  C = D
  <1>1. ASSUME NEW A \in SUBSET kept, NEW B \in SUBSET kept, Filter!IsComponent(A),
               Filter!IsComponent(B), A \cap B # {}
        PROVE  A \subseteq B
    <2> SUFFICES ASSUME ~(A \subseteq B) PROVE FALSE
      OBVIOUS
    <2>1. A \cap B \in (SUBSET A) \ {{}, A}
      BY <1>1
    <2>2. PICK i \in A \cap B, j \in A \ (A \cap B) : Filter!Near(i, j)
      BY <1>1, <2>1 DEF Filter!IsComponent
    <2>3. i \in B /\ j \in kept \ B
      BY <2>2
    <2> QED BY <1>1, <2>2, <2>3 DEF Filter!IsComponent
  <1> QED BY <1>1

(* A piece to which points near one of its own are added is one piece. *)
LEMMA OnePieceGrows ==
  ASSUME NEW B, NEW c \in B, NEW N, InOnePiece(B),
         \A n \in N : Filter!Near(c, n) /\ Filter!Near(n, c)
  PROVE  InOnePiece(B \cup N)
  <1> SUFFICES ASSUME NEW D \in (SUBSET (B \cup N)) \ {{}, B \cup N}
               PROVE  \E i \in D, j \in (B \cup N) \ D : Filter!Near(i, j)
    BY DEF InOnePiece
  <1>1. CASE D \cap B = {}
    <2>1. PICK n \in D : n \in N
      BY <1>1
    <2>2. c \in (B \cup N) \ D /\ Filter!Near(n, c)
      BY <1>1, <2>1
    <2> QED BY <2>1, <2>2
  <1>2. CASE B \subseteq D
    <2>1. PICK n \in N : n \notin D
      BY <1>2
    <2> QED BY <1>2, <2>1
  <1>3. CASE D \cap B # {} /\ ~(B \subseteq D)
    <2>1. D \cap B \in (SUBSET B) \ {{}, B}
      BY <1>3
    <2>2. PICK i \in D \cap B, j \in B \ (D \cap B) : Filter!Near(i, j)
      BY <2>1 DEF InOnePiece
    <2> QED BY <2>2
  <1> QED BY <1>1, <1>2, <1>3

LEMMA EmptyRange == Range(<<>>) = {}
  BY DEF Range
LEMMA SingleRange == ASSUME NEW x PROVE Range(<<x>>) = {x}
  BY DEF Range
LEMMA HeadTailRange ==
  ASSUME NEW T, NEW s \in Seq(T), s # <<>>
  PROVE  /\ Head(s) \in T /\ Tail(s) \in Seq(T)
         /\ Range(s) = {Head(s)} \cup Range(Tail(s))
  <1>1. /\ Head(s) \in T /\ Tail(s) \in Seq(T) /\ Len(Tail(s)) = Len(s) - 1
        /\ \A i \in 1..Len(Tail(s)) : Tail(s)[i] = s[i + 1]
    BY HeadTailProperties
  <1>2. Len(s) \in Nat /\ Len(s) > 0 /\ DOMAIN s = 1..Len(s) /\ Head(s) = s[1]
    OBVIOUS
  <1>3. DOMAIN Tail(s) = 1..(Len(s) - 1)
    BY <1>1
  <1>4. Range(s) \subseteq {Head(s)} \cup Range(Tail(s))
    <2> SUFFICES ASSUME NEW k \in DOMAIN s, k # 1
                 PROVE  \E i \in DOMAIN Tail(s) : Tail(s)[i] = s[k]
      BY <1>2 DEF Range
    <2>1. k - 1 \in DOMAIN Tail(s) /\ Tail(s)[k - 1] = s[k]
      BY <1>1, <1>2, <1>3
    <2> QED BY <2>1
  <1>5. Range(Tail(s)) \subseteq Range(s)
    <2> SUFFICES ASSUME NEW k \in DOMAIN Tail(s) PROVE \E i \in DOMAIN s : s[i] = Tail(s)[k]
      BY DEF Range
    <2>1. k + 1 \in DOMAIN s /\ s[k + 1] = Tail(s)[k]
      BY <1>1, <1>2, <1>3
    <2> QED BY <2>1
  <1>6. Head(s) \in Range(s)
    <2>1. 1 \in DOMAIN s
      BY <1>2
    <2> QED BY <1>2, <2>1 DEF Range
  <1> QED BY <1>1, <1>4, <1>5, <1>6

-----------------------------------------------------------------------------
(* The points do not move once the ground is removed. *)
LEMMA SamePoints ==
  ASSUME UNCHANGED <<scan, kept>>
  PROVE  /\ \A i, j : Filter!Near(i, j)' <=> Filter!Near(i, j)
         /\ \A C : InOnePiece(C)' <=> InOnePiece(C)
         /\ \A C : Filter!IsComponent(C)' <=> Filter!IsComponent(C)
  <1>1. \A i, j : Filter!Near(i, j)' <=> Filter!Near(i, j)
    BY DEF Filter!Near
  <1>2. \A C : InOnePiece(C)' <=> InOnePiece(C)
    BY <1>1 DEF InOnePiece
  <1>3. \A C : Filter!IsComponent(C)' <=> Filter!IsComponent(C)
    BY <1>1 DEF Filter!IsComponent
  <1> QED BY <1>1, <1>2, <1>3

LEMMA SameClusters ==
  ASSUME FoundOnce, UNCHANGED <<scan, kept, clusters>>, Finished' = Finished
  PROVE  FoundOnce'
  BY SamePoints DEF FoundOnce, Wanted

(* Before the first cluster there is nothing to be cut off. *)
LEMMA NothingVisited ==
  ASSUME visited' = {}, Building' = {}, clusters' = <<>>
  PROVE  NothingCutOff' /\ InOnePiece(Building)' /\ FoundOnce'
  <1>1. Finished' = {} /\ current' = {}
    BY DEF Finished, Building
  <1>2. NothingCutOff'
    BY <1>1 DEF NothingCutOff
  <1>3. InOnePiece(Building)'
    BY DEF InOnePiece
  <1>4. Wanted' = {}
    BY <1>1 DEF Wanted, Filter!IsComponent
  <1>5. FoundOnce'
    BY <1>4, EmptyRange DEF FoundOnce
  <1> QED BY <1>2, <1>3, <1>5

LEMMA MeasureStep ==
  ASSUME FilterInv, NEW p \in Points, Filter!Measure(p)
  PROVE  FilterInv'
  <1>1. /\ scan' = Append(scan, p) /\ stage = "scan"
        /\ UNCHANGED <<kept, visited, queue, current, clusters, stage>>
    BY DEF Filter!Measure
  <1>2. scan \in Seq(Points) /\ kept \subseteq DOMAIN scan
    BY DEF FilterInv, FilterType
  <1>3. scan' \in Seq(Points) /\ DOMAIN scan \subseteq DOMAIN scan'
    <2>1. Append(scan, p) \in Seq(Points) /\ Len(Append(scan, p)) = Len(scan) + 1
      BY <1>2, AppendProperties
    <2>2. DOMAIN scan = 1..Len(scan) /\ DOMAIN Append(scan, p) = 1..(Len(scan) + 1)
          /\ Len(scan) \in Nat
      BY <1>2, <2>1
    <2> QED BY <1>1, <2>1, <2>2
  <1>4. FilterType'
    BY <1>1, <1>2, <1>3 DEF FilterInv, FilterType, Building
  <1>5. visited' = {} /\ Building' = {} /\ clusters' = <<>>
    BY <1>1 DEF FilterInv, FilterType, Building
  <1> QED BY <1>4, <1>5, NothingVisited DEF FilterInv

LEMMA RemoveGroundStep ==
  ASSUME FilterInv, Filter!RemoveGround
  PROVE  FilterInv'
  <1>1. /\ kept' \subseteq DOMAIN scan /\ stage = "scan" /\ stage' = "cluster"
        /\ UNCHANGED <<scan, visited, queue, current, clusters>>
    BY DEF Filter!RemoveGround
  <1>2. visited' = {} /\ Building' = {} /\ clusters' = <<>> /\ Range(queue) = {}
    BY <1>1 DEF FilterInv, FilterType, Building
  <1>3. queue = <<>>
    <2>1. queue \in Seq(kept)
      BY DEF FilterInv, FilterType
    <2> QED BY <1>2, <2>1, HeadTailRange
  <1>4. FilterType'
    <2>1. queue' \in Seq(kept') /\ clusters' \in Seq(SUBSET kept')
      BY <1>1, <1>2, <1>3, EmptySeq
    <2> QED BY <1>1, <1>2, <2>1 DEF FilterInv, FilterType
  <1> QED BY <1>2, <1>4, NothingVisited DEF FilterInv

LEMMA SeedStep ==
  ASSUME FilterInv, Filter!Seed
  PROVE  FilterInv'
  <1>1. PICK i \in kept \ visited : visited' = visited \cup {i} /\ queue' = <<i>>
    BY DEF Filter!Seed
  <1>2. /\ stage = "cluster" /\ queue = <<>> /\ current = {}
        /\ UNCHANGED <<scan, kept, current, clusters, stage>>
    BY DEF Filter!Seed
  <1>3. Building = {} /\ Building' = {i}
    BY <1>1, <1>2, EmptyRange, SingleRange DEF Building
  <1>4. Finished' = Finished
    BY <1>1, <1>3 DEF Finished
  <1>5. FilterType'
    BY <1>1, <1>2, <1>3 DEF FilterInv, FilterType
  <1>6. NothingCutOff'
    BY <1>2, <1>4, SamePoints DEF FilterInv, NothingCutOff
  <1>7. InOnePiece(Building)'
    BY <1>3 DEF InOnePiece
  <1>8. FoundOnce'
    BY <1>2, <1>4, SameClusters DEF FilterInv
  <1> QED BY <1>5, <1>6, <1>7, <1>8 DEF FilterInv

LEMMA GrowStep ==
  ASSUME FilterInv, Filter!Grow
  PROVE  FilterInv'
  <1> DEFINE cur == Head(queue)
             N == Filter!Unvisited(cur)
  <1>1. PICK found \in [1..Cardinality(N) -> N] :
          {found[k] : k \in DOMAIN found} = N /\ queue' = Tail(queue) \o found
    BY SameSize DEF Filter!Grow
  <1>2. /\ stage = "cluster" /\ queue # <<>>
        /\ current' = current \cup {cur} /\ visited' = visited \cup N
        /\ UNCHANGED <<scan, kept, clusters, stage>>
    BY DEF Filter!Grow
  <1>t. /\ scan \in Seq(Points) /\ kept \subseteq DOMAIN scan /\ visited \subseteq kept
        /\ Building \subseteq visited /\ queue \in Seq(kept)
    BY DEF FilterInv, FilterType
  <1>3. /\ cur \in kept /\ Tail(queue) \in Seq(kept)
        /\ Range(queue) = {cur} \cup Range(Tail(queue))
    BY <1>2, <1>t, HeadTailRange
  <1>4. N \subseteq kept \ visited /\ \A n \in N : Filter!Near(cur, n)
    BY DEF Filter!Unvisited
  <1>5. found \in Seq(kept) /\ Range(found) = N
    <2>1. IsFiniteSet(N)
      <3>1. DOMAIN scan = 1..Len(scan) /\ Len(scan) \in Nat
        BY <1>t
      <3>2. IsFiniteSet(DOMAIN scan)
        BY <3>1, FS_Interval
      <3> QED BY <1>t, <1>4, <3>2, FS_Subset
    <2>2. Cardinality(N) \in Nat
      BY <2>1, FS_CardinalityType
    <2> HIDE DEF N
    <2> QED BY <1>1, <1>4, <2>2 DEF Range
  <1> HIDE DEF cur, N
  <1>6. queue' \in Seq(kept) /\ Range(queue') = Range(Tail(queue)) \cup N
    <2>1. queue' = Tail(queue) \o found
      BY <1>1
    <2>2. Tail(queue) \o found \in Seq(kept)
      BY ONLY <1>3, <1>5, ConcatProperties
    <2>3. \A s, t \in Seq(kept) : Range(s \o t) = Range(s) \cup Range(t)
      BY RangeConcatenation
    <2> QED BY <1>3, <1>5, <2>1, <2>2, <2>3
  <1>7. cur \in Building /\ Building' = Building \cup N
    BY <1>2, <1>3, <1>6 DEF Building
  <1>8. Finished' = Finished
    BY <1>2, <1>4, <1>7 DEF Finished
  <1>9. \A n \in kept : Filter!Near(cur, n) => Filter!Near(n, cur) /\ Filter!Around(cur, n)
    BY <1>t, <1>3, NearIsAround
  <1>10. FilterType'
    BY <1>2, <1>4, <1>6, <1>7 DEF FilterInv, FilterType
  <1>11. NothingCutOff'
    <2>1. \A i, j : Filter!Near(i, j)' <=> Filter!Near(i, j)
      BY <1>2, SamePoints
    <2>2. ASSUME NEW j \in kept, Filter!Near(cur, j) PROVE j \in Building'
      <3>1. CASE j \notin visited
        <4>1. j \in N
          BY <1>9, <2>2, <3>1 DEF N, Filter!Unvisited
        <4> QED BY <1>7, <4>1
      <3>2. CASE j \in visited
        <4>1. cur \in kept \ Finished
          BY <1>3, <1>7 DEF Finished
        <4>2. j \notin Finished
          BY <1>9, <2>2, <4>1 DEF FilterInv, NothingCutOff
        <4> QED BY <1>7, <3>2, <4>2 DEF Finished
      <3> QED BY <3>1, <3>2
    <2>3. \A i \in current, j \in kept : Filter!Near(i, j) => j \in Building
      BY DEF FilterInv, NothingCutOff
    <2>4. \A i \in current', j \in kept' : Filter!Near(i, j)' => j \in Building'
      BY <1>2, <1>7, <2>1, <2>2, <2>3
    <2>5. \A i \in Finished', j \in kept' \ Finished' : ~Filter!Near(i, j)'
      BY <1>2, <1>8, <2>1 DEF FilterInv, NothingCutOff
    <2> QED BY <2>4, <2>5 DEF NothingCutOff
  <1>12. InOnePiece(Building)'
    <2>1. \A n \in N : Filter!Near(cur, n) /\ Filter!Near(n, cur)
      BY <1>4, <1>9
    <2>2. InOnePiece(Building \cup N)
      BY <1>7, <2>1, OnePieceGrows DEF FilterInv
    <2>3. \A i, j : Filter!Near(i, j)' <=> Filter!Near(i, j)
      BY <1>2, SamePoints
    <2> QED BY <1>7, <2>2, <2>3 DEF InOnePiece
  <1>13. FoundOnce'
    BY <1>2, <1>8, SameClusters DEF FilterInv
  <1> QED BY <1>10, <1>11, <1>12, <1>13 DEF FilterInv

(* With the queue empty, the cluster is a component, and those within the  *)
(* finished ones and it are those within the finished ones, and it.        *)
LEMMA CloseStep ==
  ASSUME FilterInv, Filter!Close
  PROVE  FilterInv'
  <1>1. /\ stage = "cluster" /\ queue = <<>> /\ current # {} /\ current' = {}
        /\ clusters' = IF Cardinality(current) \in MinSize..MaxSize
                         THEN Append(clusters, current) ELSE clusters
        /\ UNCHANGED <<scan, kept, visited, queue, stage>>
    BY SameSize DEF Filter!Close
  <1>t. /\ visited \subseteq kept /\ Building \subseteq visited
        /\ clusters \in Seq(SUBSET kept)
    BY DEF FilterInv, FilterType
  <1>2. Building = current /\ Building' = {}
    BY <1>1, EmptyRange DEF Building
  <1>3. /\ Finished' = Finished \cup current /\ Finished \cap current = {}
        /\ Finished' \subseteq kept /\ current \in SUBSET kept
    BY <1>1, <1>2, <1>t DEF Finished
  <1>n. /\ \A i, j : Filter!Near(i, j)' <=> Filter!Near(i, j)
        /\ \A C : Filter!IsComponent(C)' <=> Filter!IsComponent(C)
    BY <1>1, SamePoints
  <1>4. Filter!IsComponent(current)
    BY <1>1, <1>2, <1>3 DEF FilterInv, NothingCutOff, InOnePiece, Filter!IsComponent
  <1>5. NothingCutOff'
    <2>1. \A i \in current, j \in kept \ current : ~Filter!Near(i, j)
      BY <1>2 DEF FilterInv, NothingCutOff
    <2>2. \A i \in Finished, j \in kept \ Finished : ~Filter!Near(i, j)
      BY DEF FilterInv, NothingCutOff
    <2> QED BY <1>1, <1>3, <1>n, <2>1, <2>2 DEF NothingCutOff
  <1>6. InOnePiece(Building)'
    BY <1>2 DEF InOnePiece
  <1> DEFINE Fits(C) == Cardinality(C) \in MinSize..MaxSize
  <1>7. Wanted' = Wanted \cup (IF Fits(current) THEN {current} ELSE {})
    <2>1. \A C : C \in Wanted' <=> C \in SUBSET Finished' /\ Filter!IsComponent(C) /\ Fits(C)
      BY <1>n DEF Wanted
    <2>2. \A C : C \in Wanted <=> C \in SUBSET Finished /\ Filter!IsComponent(C) /\ Fits(C)
      BY DEF Wanted
    <2>3. ASSUME NEW C \in SUBSET Finished', Filter!IsComponent(C)
          PROVE  C \in SUBSET Finished \/ C = current
      <3>1. CASE C \cap current = {}
        BY <1>3, <3>1
      <3>2. CASE C \cap current # {}
        BY <1>3, <1>4, <2>3, <3>2, SharedPoint
      <3> QED BY <3>1, <3>2
    <2> HIDE DEF Fits
    <2>4. \A C : C \in Wanted' <=> C \in Wanted \/ (C = current /\ Fits(current))
      BY <1>3, <1>4, <2>1, <2>2, <2>3
    <2> QED BY <2>4
  <1>8. current \notin Range(clusters)
    BY <1>1, <1>3 DEF FilterInv, FoundOnce, Wanted
  <1>9. clusters' \in Seq(SUBSET kept) /\ FoundOnce'
    <2>0. /\ \A a, b \in DOMAIN clusters : a # b => clusters[a] # clusters[b]
          /\ Range(clusters) = Wanted
      BY DEF FilterInv, FoundOnce
    <2>1. CASE Fits(current)
      <3>1. clusters' = Append(clusters, current)
        BY <1>1, <2>1
      <3>2. /\ clusters' \in Seq(SUBSET kept) /\ Len(clusters') = Len(clusters) + 1
            /\ \A k \in 1..Len(clusters) : clusters'[k] = clusters[k]
            /\ clusters'[Len(clusters) + 1] = current
        BY <1>3, <1>t, <3>1, AppendProperties
      <3>3. Len(clusters) \in Nat /\ DOMAIN clusters = 1..Len(clusters)
            /\ DOMAIN clusters' = 1..(Len(clusters) + 1)
        BY <1>t, <3>2
      <3>4. \A k \in DOMAIN clusters' : k = Len(clusters) + 1 \/ k \in DOMAIN clusters
        BY <3>3
      <3>5. \A k \in DOMAIN clusters : clusters'[k] = clusters[k] /\ clusters[k] # current
        BY <1>8, <3>2, <3>3 DEF Range
      <3>6. \A a, b \in DOMAIN clusters' : a # b => clusters'[a] # clusters'[b]
        BY <2>0, <3>2, <3>4, <3>5
      <3>7. Range(clusters') = Range(clusters) \cup {current}
        <4>1. Len(clusters) + 1 \in DOMAIN clusters' /\ DOMAIN clusters \subseteq DOMAIN clusters'
          BY <3>3
        <4> QED BY <3>2, <3>4, <3>5, <4>1 DEF Range
      <3> QED BY <1>7, <2>0, <2>1, <3>2, <3>6, <3>7 DEF FoundOnce
    <2>2. CASE ~Fits(current)
      BY <1>1, <1>t, <1>7, <2>0, <2>2 DEF FoundOnce
    <2> QED BY <2>1, <2>2
  <1>10. FilterType'
    BY <1>1, <1>2, <1>9 DEF FilterInv, FilterType
  <1> QED BY <1>5, <1>6, <1>9, <1>10 DEF FilterInv

LEMMA ExtractConesStep ==
  ASSUME FilterInv, Filter!ExtractCones
  PROVE  FilterInv'
  <1>1. /\ queue = <<>> /\ current = {} /\ visited = kept /\ stage' = "done"
        /\ UNCHANGED <<scan, kept, visited, queue, current, clusters>>
    BY DEF Filter!ExtractCones
  <1>2. Building' = Building /\ Finished' = Finished
    BY <1>1 DEF Building, Finished
  <1>3. FilterType'
    BY <1>1, <1>2 DEF FilterInv, FilterType
  <1>4. NothingCutOff' /\ InOnePiece(Building)'
    BY <1>1, <1>2, SamePoints DEF FilterInv, NothingCutOff, InOnePiece
  <1>5. FoundOnce'
    BY <1>1, <1>2, SameClusters DEF FilterInv
  <1> QED BY <1>3, <1>4, <1>5 DEF FilterInv

LEMMA FilterInvAlways == Spec => []FilterInv
  <1>1. Init => FilterInv
    <2> SUFFICES ASSUME Filter!Init PROVE FilterInv
      BY DEF Init
    <2>1. /\ scan = <<>> /\ kept = {} /\ visited = {} /\ queue = <<>> /\ current = {}
          /\ clusters = <<>> /\ stage = "scan"
      BY DEF Filter!Init
    <2>2. Building = {} /\ Finished = {}
      BY <2>1, EmptyRange DEF Building, Finished
    <2>3. FilterType
      <3>1. scan \in Seq(Points) /\ queue \in Seq(kept) /\ clusters \in Seq(SUBSET kept)
        BY <2>1, EmptySeq
      <3> QED BY <2>1, <2>2, <3>1 DEF FilterType
    <2>4. NothingCutOff /\ InOnePiece(Building)
      BY <2>1, <2>2 DEF NothingCutOff, InOnePiece
    <2>5. Wanted = {}
      BY <2>2 DEF Wanted, Filter!IsComponent
    <2>6. FoundOnce
      BY <2>1, <2>5, EmptyRange DEF FoundOnce
    <2> QED BY <2>3, <2>4, <2>6 DEF FilterInv
  <1>2. FilterInv /\ [Next]_vars => FilterInv'
    <2> SUFFICES ASSUME FilterInv, [Next]_vars PROVE FilterInv'
      OBVIOUS
    <2>1. CASE UNCHANGED filterVars
      <3>1. UNCHANGED <<scan, kept, visited, queue, current, clusters, stage>>
        BY <2>1 DEF filterVars
      <3>2. Building' = Building /\ Finished' = Finished
        BY <3>1 DEF Building, Finished
      <3>3. FilterType'
        BY <3>1, <3>2 DEF FilterInv, FilterType
      <3>4. NothingCutOff' /\ InOnePiece(Building)'
        BY <3>1, <3>2, SamePoints DEF FilterInv, NothingCutOff, InOnePiece
      <3>5. FoundOnce'
        BY <3>1, <3>2, SameClusters DEF FilterInv
      <3> QED BY <3>3, <3>4, <3>5 DEF FilterInv
    <2>2. CASE Filter!Next
      BY <2>2, MeasureStep, RemoveGroundStep, SeedStep, GrowStep, CloseStep, ExtractConesStep
         DEF Filter!Next
    <2> QED BY <2>1, <2>2 DEF Next, vars
  <1> QED BY <1>1, <1>2, PTL DEF Spec

(* Whatever the scan, the clusters the search on the grid finds are the    *)
(* connected components of a permitted size of its non-ground points, each *)
(* found once.                                                             *)
THEOREM ClustersComplete == Spec => []ClustersAreComponents
  <1>1. FilterInv => ClustersAreComponents
    <2> SUFFICES ASSUME FilterInv, stage = "done"
                 PROVE  /\ \A a, b \in DOMAIN clusters : a # b => clusters[a] # clusters[b]
                        /\ {clusters[k] : k \in DOMAIN clusters} =
                             {C \in SUBSET kept : /\ Filter!IsComponent(C)
                                                  /\ Cardinality(C) \in MinSize..MaxSize}
      BY SameSize DEF ClustersAreComponents, Filter!ClustersAreComponents
    <2>1. current = {} /\ queue = <<>> /\ visited = kept
      BY DEF FilterInv, FilterType
    <2>2. Finished = kept
      BY <2>1, EmptyRange DEF Finished, Building
    <2> QED BY <2>2 DEF FilterInv, FoundOnce, Wanted, Range
  <1> QED BY <1>1, FilterInvAlways, PTL

-----------------------------------------------------------------------------
(* What the stream has filled, and what the thread holds of it. *)
FilledType == [buffer : Buffers, frame : Nat, status : Camera!Status]
InHand == {h.buffer : h \in hand}

Holding == loop \in {"rejecting", "recording", "detecting", "returning", "terminated"}

CameraType ==
  /\ empty \subseteq Buffers /\ filled \in Seq(FilledType) /\ frames \in Nat
  /\ IF Holding THEN \E h \in FilledType : hand = {h} ELSE hand = {}
  /\ camera \in {"none", "open"} => loop \in {"none", "never"}
  /\ camera = "gone" => loop \in {"never", "done"}
  /\ loop = "none" => camera = "none"
  /\ loop \in {"none", "never"} => filled = <<>>

(* No buffer is in two places ... *)
OnePlace ==
  /\ \A j, k \in DOMAIN filled : filled[j].buffer = filled[k].buffer => j = k
  /\ \A k \in DOMAIN filled : filled[k].buffer \notin empty \cup InHand
  /\ empty \cap InHand = {}

(* ... and none is missing. *)
NoneMissing ==
  camera = "streaming" /\ loop # "never" =>
    /\ \A b \in Buffers : b \in empty \cup InHand \/ \E k \in DOMAIN filled : b = filled[k].buffer
    /\ Cardinality(empty) + Len(filled) + Cardinality(hand) = Cardinality(Buffers)

CameraInv == CameraType /\ OnePlace /\ NoneMissing

LEMMA SubsetsAreFinite ==
  ASSUME NEW S \in SUBSET Buffers
  PROVE  IsFiniteSet(S) /\ Cardinality(S) \in Nat
  <1>1. IsFiniteSet(S)
    BY SensorAssumption, FS_Subset
  <1> QED BY <1>1, FS_CardinalityType

LEMMA OneIsOne == \A x : Cardinality({x}) = 1
  BY FS_Singleton

LEMMA NoneIsZero == Cardinality({}) = 0
  BY FS_EmptySet

-----------------------------------------------------------------------------
LEMMA StartStep ==
  ASSUME CameraInv, Camera!StartFails \/ Camera!StartSucceeds
  PROVE  CameraInv'
  <1>1. /\ loop = "none" /\ loop' \in {"never", "top"} /\ UNCHANGED <<filled, hand, frames>>
        /\ camera' \in {"none", "open", "streaming"}
        /\ loop' = "top" => camera' = "streaming" /\ empty' = Buffers
    BY DEF Camera!StartFails, Camera!StartSucceeds
  <1>2. filled = <<>> /\ hand = {} /\ frames \in Nat /\ empty \subseteq Buffers
    BY <1>1 DEF CameraInv, CameraType, Holding
  <1>3. empty' \subseteq Buffers
    BY <1>2 DEF Camera!StartFails, Camera!StartSucceeds
  <1>4. hand' = {} /\ InHand' = {} /\ filled' = <<>> /\ DOMAIN filled' = {} /\ Len(filled') = 0
    BY <1>1, <1>2 DEF InHand
  <1>5. CameraType'
    <2>1. filled' \in Seq(FilledType)
      BY <1>4, EmptySeq
    <2> QED BY <1>1, <1>2, <1>3, <1>4, <2>1 DEF CameraType, Holding
  <1>6. OnePlace'
    BY <1>4 DEF OnePlace
  <1>7. NoneMissing'
    <2> SUFFICES ASSUME loop' = "top"
                 PROVE  /\ \A b \in Buffers : b \in empty'
                        /\ Cardinality(empty') + Len(filled') + Cardinality(hand')
                             = Cardinality(Buffers)
      BY <1>1 DEF NoneMissing
    <2>1. empty' = Buffers
      BY <1>1
    <2>2. Cardinality(Buffers) \in Nat /\ Cardinality({}) = 0
      BY SubsetsAreFinite, NoneIsZero
    <2> QED BY <1>4, <2>1, <2>2
  <1> QED BY <1>5, <1>6, <1>7 DEF CameraInv

LEMMA CameraDeliversStep ==
  ASSUME CameraInv, NEW s \in Camera!Status, Camera!CameraDelivers(s)
  PROVE  CameraInv'
  <1>t. /\ empty \subseteq Buffers /\ filled \in Seq(FilledType) /\ frames \in Nat
    BY DEF CameraInv, CameraType
  <1>1. /\ camera = "streaming" /\ loop # "never" /\ frames' = frames + 1
        /\ UNCHANGED <<camera, loop, hand>>
    BY DEF Camera!CameraDelivers
  <1>2. loop # "none" /\ InHand' = InHand /\ (Holding' <=> Holding) /\ frames' \in Nat
    BY <1>t, <1>1 DEF CameraInv, CameraType, InHand, Holding
  <1>3. CASE empty = {}
    <2>1. UNCHANGED <<empty, filled>>
      BY <1>3 DEF Camera!CameraDelivers
    <2> QED BY <1>1, <1>2, <2>1 DEF CameraInv, CameraType, OnePlace, NoneMissing
  <1>4. CASE empty # {}
    <2> DEFINE New(b) == [buffer |-> b, frame |-> frames + 1, status |-> s]
    <2>1. PICK b \in empty : empty' = empty \ {b} /\ filled' = Append(filled, New(b))
      BY <1>4 DEF Camera!CameraDelivers
    <2>2. New(b) \in FilledType /\ New(b).buffer = b
      BY <1>t DEF FilledType
    <2> HIDE DEF New
    <2>3. /\ filled' \in Seq(FilledType) /\ Len(filled') = Len(filled) + 1
          /\ \A k \in 1..Len(filled) : filled'[k] = filled[k]
          /\ filled'[Len(filled) + 1] = New(b)
      BY <1>t, <2>1, <2>2, AppendProperties
    <2>4. /\ Len(filled) \in Nat /\ DOMAIN filled = 1..Len(filled)
          /\ DOMAIN filled' = 1..(Len(filled) + 1)
      BY <1>t, <2>3
    <2>5. /\ \A k \in DOMAIN filled' : k = Len(filled) + 1 \/ k \in DOMAIN filled
          /\ \A k \in DOMAIN filled : k \in DOMAIN filled' /\ k # Len(filled) + 1
          /\ Len(filled) + 1 \in DOMAIN filled'
      BY <2>4
    <2>6. /\ \A k \in DOMAIN filled : filled'[k].buffer = filled[k].buffer
          /\ filled'[Len(filled) + 1].buffer = b
      BY <2>2, <2>3, <2>4
    <2>7. CameraType'
      BY <1>1, <1>2, <2>1, <2>3 DEF CameraInv, CameraType
    <2>8. OnePlace'
      <3>1. /\ \A j, k \in DOMAIN filled : filled[j].buffer = filled[k].buffer => j = k
            /\ \A k \in DOMAIN filled : filled[k].buffer \notin empty \cup InHand
            /\ empty \cap InHand = {}
        BY DEF CameraInv, OnePlace
      <3>2. \A k \in DOMAIN filled : filled[k].buffer # b
        BY <3>1
      <3>3. \A j, k \in DOMAIN filled' : filled'[j].buffer = filled'[k].buffer => j = k
        BY <2>5, <2>6, <3>1, <3>2
      <3>4. \A k \in DOMAIN filled' : filled'[k].buffer \notin empty' \cup InHand'
        BY <1>2, <2>1, <2>5, <2>6, <3>1
      <3>5. empty' \cap InHand' = {}
        BY <1>2, <2>1, <3>1
      <3> QED BY <3>3, <3>4, <3>5 DEF OnePlace
    <2>9. NoneMissing'
      <3>1. /\ \A c \in Buffers : \/ c \in empty \cup InHand
                                  \/ \E k \in DOMAIN filled : c = filled[k].buffer
            /\ Cardinality(empty) + Len(filled) + Cardinality(hand) = Cardinality(Buffers)
        BY <1>1 DEF CameraInv, NoneMissing
      <3>2. \A c \in Buffers : \/ c \in empty' \cup InHand'
                               \/ \E k \in DOMAIN filled' : c = filled'[k].buffer
        BY <1>2, <2>1, <2>5, <2>6, <3>1
      <3>3. Cardinality(empty') = Cardinality(empty) - 1
        BY <1>t, <2>1, SubsetsAreFinite, FS_RemoveElement
      <3>4. Cardinality(empty) \in Nat /\ Cardinality(hand) \in Nat
        <4>1. Cardinality(hand) \in {0, 1}
          BY OneIsOne, NoneIsZero DEF CameraInv, CameraType
        <4> QED BY <1>t, <4>1, SubsetsAreFinite
      <3>5. Cardinality(empty') + Len(filled') + Cardinality(hand') = Cardinality(Buffers)
        BY <1>1, <2>3, <2>4, <3>1, <3>3, <3>4
      <3> QED BY <3>2, <3>5 DEF NoneMissing
    <2> QED BY <2>7, <2>8, <2>9 DEF CameraInv
  <1> QED BY <1>3, <1>4

(* The thread takes the oldest filled buffer into its hand ... *)
LEMMA PopStep ==
  ASSUME CameraInv, Camera!Pop
  PROVE  CameraInv'
  <1>t. /\ empty \subseteq Buffers /\ filled \in Seq(FilledType) /\ frames \in Nat
    BY DEF CameraInv, CameraType
  <1>1. loop = "popping" /\ UNCHANGED <<camera, empty, frames>>
    BY DEF Camera!Pop
  <1>2. hand = {} /\ InHand = {} /\ camera \notin {"none", "open", "gone"}
    BY <1>1 DEF CameraInv, CameraType, Holding, InHand
  <1>3. CASE filled = <<>>
    <2>1. loop' = "top" /\ UNCHANGED <<filled, hand>>
      BY <1>3 DEF Camera!Pop
    <2>2. InHand' = InHand /\ ~Holding'
      BY <2>1 DEF InHand, Holding
    <2>3. CameraType'
      BY <1>1, <1>2, <2>1, <2>2 DEF CameraInv, CameraType
    <2>4. OnePlace' /\ NoneMissing'
      BY <1>1, <2>1, <2>2 DEF CameraInv, OnePlace, NoneMissing
    <2> QED BY <2>3, <2>4 DEF CameraInv
  <1>4. CASE filled # <<>>
    <2>1. /\ hand' = {Head(filled)} /\ filled' = Tail(filled)
          /\ loop' \in {"recording", "rejecting", "returning"}
      BY <1>4 DEF Camera!Pop
    <2>2. /\ Head(filled) \in FilledType /\ filled' \in Seq(FilledType)
          /\ Len(filled') = Len(filled) - 1
          /\ \A k \in 1..Len(filled') : filled'[k] = filled[k + 1]
      BY <1>t, <1>4, <2>1, HeadTailProperties
    <2>3. Len(filled) \in Nat /\ Len(filled) > 0 /\ DOMAIN filled = 1..Len(filled)
          /\ Head(filled) = filled[1] /\ DOMAIN filled' = 1..(Len(filled) - 1)
      BY <1>t, <1>4, <2>2
    <2>4. /\ \A k \in DOMAIN filled' : k + 1 \in DOMAIN filled /\ filled'[k] = filled[k + 1]
                                       /\ k + 1 # 1
          /\ \A k \in DOMAIN filled : k = 1 \/ (k - 1 \in DOMAIN filled' /\ (k - 1) + 1 = k)
          /\ 1 \in DOMAIN filled
          /\ \A j, k \in DOMAIN filled' : j + 1 = k + 1 => j = k
      BY <2>2, <2>3
    <2>5. InHand' = {filled[1].buffer}
      BY <2>1, <2>3 DEF InHand
    <2>6. CameraType'
      BY <1>1, <1>t, <1>2, <2>1, <2>2 DEF CameraType, Holding
    <2>7. OnePlace'
      <3>1. /\ \A j, k \in DOMAIN filled : filled[j].buffer = filled[k].buffer => j = k
            /\ \A k \in DOMAIN filled : filled[k].buffer \notin empty
        BY DEF CameraInv, OnePlace
      <3>2. \A j, k \in DOMAIN filled' : filled'[j].buffer = filled'[k].buffer => j = k
        BY <2>4, <3>1
      <3>3. \A k \in DOMAIN filled' : filled'[k].buffer \notin empty' \cup InHand'
        BY <1>1, <2>4, <2>5, <3>1
      <3>4. empty' \cap InHand' = {}
        BY <1>1, <2>4, <2>5, <3>1
      <3> QED BY <3>2, <3>3, <3>4 DEF OnePlace
    <2>8. NoneMissing'
      <3> SUFFICES ASSUME camera = "streaming"
                   PROVE  NoneMissing'
        BY <1>1 DEF NoneMissing
      <3>1. /\ \A c \in Buffers : c \in empty \/ \E k \in DOMAIN filled : c = filled[k].buffer
            /\ Cardinality(empty) + Len(filled) + Cardinality(hand) = Cardinality(Buffers)
        BY <1>1, <1>2 DEF CameraInv, NoneMissing
      <3>2. ASSUME NEW c \in Buffers
            PROVE  \/ c \in empty' \cup InHand'
                   \/ \E k \in DOMAIN filled' : c = filled'[k].buffer
        <4>1. CASE c \in empty
          BY <1>1, <4>1
        <4>2. ASSUME NEW k \in DOMAIN filled, c = filled[k].buffer, k # 1
              PROVE  \E j \in DOMAIN filled' : c = filled'[j].buffer
          <5>1. k - 1 \in DOMAIN filled' /\ filled'[k - 1] = filled[k]
            BY <2>4, <4>2
          <5> QED BY <4>2, <5>1
        <4> QED BY <2>5, <3>1, <4>1, <4>2
      <3>3. Cardinality(hand) = 0 /\ Cardinality(hand') = 1 /\ Cardinality(empty) \in Nat
        BY <1>2, <1>t, <2>1, OneIsOne, NoneIsZero, SubsetsAreFinite
      <3>4. Cardinality(empty') + Len(filled') + Cardinality(hand') = Cardinality(Buffers)
        BY <1>1, <2>2, <2>3, <3>1, <3>3
      <3> QED BY <3>2, <3>4 DEF NoneMissing
    <2> QED BY <2>6, <2>7, <2>8 DEF CameraInv
  <1> QED BY <1>3, <1>4

(* ... and gives it back, whatever the frame was. *)
LEMMA GiveBackStep ==
  ASSUME CameraInv, Camera!Reject \/ Camera!GiveBack
  PROVE  CameraInv'
  <1>1. /\ loop \in {"rejecting", "returning"} /\ loop' = "top"
        /\ empty' = empty \cup InHand /\ hand' = {} /\ UNCHANGED <<camera, filled, frames>>
    BY DEF Camera!Reject, Camera!GiveBack, InHand
  <1>2. PICK h \in FilledType : hand = {h}
    BY <1>1 DEF CameraInv, CameraType, Holding
  <1>3. InHand = {h.buffer} /\ h.buffer \in Buffers /\ InHand' = {}
    BY <1>1, <1>2 DEF InHand, FilledType
  <1>t. /\ empty \subseteq Buffers /\ filled \in Seq(FilledType) /\ frames \in Nat
        /\ camera \notin {"none", "open", "gone"}
    BY <1>1 DEF CameraInv, CameraType
  <1>4. h.buffer \notin empty
    BY <1>3 DEF CameraInv, OnePlace
  <1>5. CameraType'
    BY <1>1, <1>3, <1>t DEF CameraType, Holding
  <1>6. OnePlace'
    BY <1>1, <1>3 DEF CameraInv, OnePlace
  <1>7. NoneMissing'
    <2> SUFFICES ASSUME camera = "streaming" PROVE NoneMissing'
      BY <1>1 DEF NoneMissing
    <2>1. /\ \A b \in Buffers : \/ b \in empty \cup InHand
                                \/ \E k \in DOMAIN filled : b = filled[k].buffer
          /\ Cardinality(empty) + Len(filled) + Cardinality(hand) = Cardinality(Buffers)
      BY <1>1 DEF CameraInv, NoneMissing
    <2>2. Cardinality(hand) = 1 /\ Cardinality(hand') = 0
      BY <1>1, <1>2, OneIsOne, NoneIsZero
    <2>n. Len(filled) \in Nat
      BY <1>t
    <2>3. Cardinality(empty') = Cardinality(empty) + 1 /\ Cardinality(empty) \in Nat
      BY <1>1, <1>3, <1>4, <1>t, SubsetsAreFinite, FS_AddElement
    <2>4. Cardinality(empty') + Len(filled') + Cardinality(hand') = Cardinality(Buffers)
      BY <1>1, <2>1, <2>2, <2>3, <2>n
    <2> QED BY <1>1, <2>1, <2>4 DEF NoneMissing
  <1> QED BY <1>5, <1>6, <1>7 DEF CameraInv

(* Nothing else moves a buffer, until all go with the stream. *)
LEMMA NoBufferMoves ==
  ASSUME CameraInv, \/ Camera!LoopTop \/ Camera!Record \/ Camera!Detect \/ Camera!Throws
                    \/ Camera!Close
  PROVE  CameraInv'
  <1>1. UNCHANGED <<camera, empty, filled, hand, frames>>
    BY DEF Camera!LoopTop, Camera!Record, Camera!Detect, Camera!Throws, Camera!Close
  <1>2. /\ Holding' <=> Holding
        /\ loop' = loop \/ (loop \notin {"none", "never", "done"} /\ loop' \notin {"none", "never"})
    BY DEF Camera!LoopTop, Camera!Record, Camera!Detect, Camera!Throws, Camera!Close, Holding
  <1>3. InHand' = InHand
    BY <1>1 DEF InHand
  <1>4. CameraType'
    BY <1>1, <1>2 DEF CameraInv, CameraType
  <1>5. OnePlace' /\ NoneMissing'
    BY <1>1, <1>2, <1>3 DEF CameraInv, OnePlace, NoneMissing
  <1> QED BY <1>4, <1>5 DEF CameraInv

LEMMA ReleaseStep ==
  ASSUME CameraInv, Camera!Release
  PROVE  CameraInv'
  <1>1. /\ loop \in {"never", "done"} /\ camera' = "gone" /\ empty' = {} /\ filled' = <<>>
        /\ UNCHANGED <<loop, hand, frames>>
    BY DEF Camera!Release
  <1>2. hand = {} /\ frames \in Nat
    BY <1>1 DEF CameraInv, CameraType, Holding
  <1>3. filled' \in Seq(FilledType) /\ DOMAIN filled' = {}
    BY <1>1, EmptySeq
  <1>4. CameraType'
    BY <1>1, <1>2, <1>3 DEF CameraType, Holding
  <1>5. OnePlace' /\ NoneMissing'
    BY <1>1, <1>3 DEF OnePlace, NoneMissing
  <1> QED BY <1>4, <1>5 DEF CameraInv

LEMMA CameraInvAlways == Spec => []CameraInv
  <1>1. Init => CameraInv
    <2> SUFFICES ASSUME Camera!Init PROVE CameraInv
      BY DEF Init
    <2>1. /\ camera = "none" /\ empty = {} /\ filled = <<>> /\ loop = "none" /\ hand = {}
          /\ frames = 0 /\ DOMAIN filled = {} /\ filled \in Seq(FilledType)
      BY EmptySeq DEF Camera!Init
    <2> QED BY <2>1 DEF CameraInv, CameraType, Holding, OnePlace, NoneMissing
  <1>2. CameraInv /\ [Next]_vars => CameraInv'
    <2> SUFFICES ASSUME CameraInv, [Next]_vars PROVE CameraInv'
      OBVIOUS
    <2>1. CASE UNCHANGED cameraVars
      <3>1. UNCHANGED <<camera, empty, filled, loop, hand, frames>>
        BY <2>1 DEF cameraVars
      <3>2. InHand' = InHand /\ (Holding' <=> Holding)
        BY <3>1 DEF InHand, Holding
      <3> QED BY <3>1, <3>2 DEF CameraInv, CameraType, OnePlace, NoneMissing
    <2>2. CASE Camera!Next
      BY <2>2, StartStep, CameraDeliversStep, PopStep, GiveBackStep, NoBufferMoves, ReleaseStep
         DEF Camera!Next, Camera!Thread
    <2> QED BY <2>1, <2>2 DEF Next, vars
  <1> QED BY <1>1, <1>2, PTL DEF Spec

(* However many buffers a camera has and whatever frames come, none of     *)
(* them is lost while it streams, and none outlives the stream.            *)
THEOREM NoBufferIsLost == Spec => []BuffersConserved
  <1>1. CameraInv => BuffersConserved
    <2> SUFFICES ASSUME CameraInv
                 PROVE  /\ camera = "streaming" /\ loop # "never" =>
                             /\ empty \cup Camera!InQueue \cup InHand = Buffers
                             /\ Cardinality(empty) + Len(filled) + Cardinality(hand)
                                  = Cardinality(Buffers)
                        /\ camera = "gone" => hand = {}
      BY SameSize DEF BuffersConserved, Camera!BuffersConserved, InHand
    <2>1. camera = "gone" => hand = {}
      BY DEF CameraInv, CameraType, Holding
    <2>2. empty \subseteq Buffers /\ InHand \subseteq Buffers /\ Camera!InQueue \subseteq Buffers
      <3>1. empty \subseteq Buffers /\ filled \in Seq(FilledType)
        BY DEF CameraInv, CameraType
      <3>2. InHand \subseteq Buffers
        BY DEF CameraInv, CameraType, FilledType, InHand
      <3>3. \A k \in DOMAIN filled : filled[k].buffer \in Buffers
        <4>1. \A k \in DOMAIN filled : filled[k] \in FilledType
          BY <3>1
        <4>2. \A x \in FilledType : x.buffer \in Buffers
          BY DEF FilledType
        <4> QED BY <4>1, <4>2
      <3> QED BY <3>1, <3>2, <3>3 DEF Camera!InQueue
    <2>3. ASSUME camera = "streaming", loop # "never"
          PROVE  Buffers \subseteq empty \cup Camera!InQueue \cup InHand
      BY <2>3 DEF CameraInv, NoneMissing, Camera!InQueue
    <2> QED BY <2>1, <2>2, <2>3 DEF CameraInv, NoneMissing
  <1> QED BY <1>1, CameraInvAlways, PTL
=============================================================================
