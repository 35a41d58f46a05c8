---------------------------- MODULE LidarFilter ----------------------------
(***************************************************************************)
(* Cones from a lidar scan (perception/src/LidarFilter.cpp): remove the    *)
(* ground, cluster what is left on a grid of square cells, keep the        *)
(* clusters that look like a cone.                                         *)
(*                                                                         *)
(* Lengths are integers.  Of the polar grid that estimates the ground one  *)
(* sector is modelled, with x for the range.  Indices are those of the     *)
(* code plus one.                                                          *)
(***************************************************************************)
EXTENDS Integers, Sequences, FiniteSets

CONSTANTS
  Points,                 \* what the lidar may see: a set of [x, y, z]
  MaxPoints,              \* bound: points in a scan
  GridMin, GridMax, Bin,  \* GRID_MIN_RANGE_M, GRID_MAX_RANGE_M, GRID_RADIAL_BIN_SIZE_M
  Floor,                  \* -SENSOR_HEIGHT_ABOVE_GROUND_M
  MinPerCell, Percent,    \* MIN_POINTS_PER_CELL, GROUND_PERCENTILE
  Clearance,              \* NON_GROUND_HEIGHT_THRESHOLD_M
  Tol,                    \* CLUSTER_TOLERANCE_M
  MinSize, MaxSize,       \* MIN_CLUSTER_SIZE, MAX_CLUSTER_SIZE
  MaxRange,               \* MAX_DETECTION_RANGE_M
  NearRange, MidRange,    \* NEAR_RANGE_M, MID_RANGE_M
  Gate,                   \* the limits [points, height, width] for "near", "mid", "far"
  MaxHeight, MaxTop, MaxElongation, MinWidth

VARIABLES
  scan,      \* the points of the scan
  ground,    \* GroundGrid::ground_z
  kept,      \* the non-ground points, by their indices in the scan
  visited,   \* indices that have been put in the queue
  queue,     \* the queue of the breadth-first search
  current,   \* the cluster it is building
  clusters,  \* the clusters found, each a set of indices
  cones,     \* their centroids, as sums and number of points
  stage

filterVars == <<scan, ground, kept, visited, queue, current, clusters, cones, stage>>

-----------------------------------------------------------------------------
Cells == 0..(((GridMax - GridMin) + Bin - 1) \div Bin) - 1
Outside == -1

(* GroundGrid::cell of a point at range num/den. *)
CellOf(num, den) ==
  LET c == (num - GridMin * den) \div (Bin * den) IN IF c \in Cells THEN c ELSE Outside

(* GroundGrid::at *)
GroundAt(num, den) ==
  LET c == CellOf(num, den) IN IF c = Outside THEN Floor ELSE ground[c]

(* std::nth_element: the k-th smallest height, from zero, of some points. *)
NthHeight(S, k) ==
  CHOOSE z \in {scan[i].z : i \in S} :
    /\ Cardinality({i \in S : scan[i].z < z}) <= k
    /\ Cardinality({i \in S : scan[i].z <= z}) > k

Init ==
  /\ scan = <<>> /\ ground = [c \in Cells |-> Floor]
  /\ kept = {} /\ visited = {} /\ queue = <<>> /\ current = {} /\ clusters = <<>>
  /\ cones = <<>> /\ stage = "scan"

(* The lidar measures a point.  It sweeps over x; the points of one column *)
(* come in a fixed order, and none comes twice.                            *)
Before(p, q) ==
  \/ p.x < q.x
  \/ p.x = q.x /\ (p.y < q.y \/ (p.y = q.y /\ p.z < q.z))

Measure(p) ==
  /\ stage = "scan" /\ Len(scan) < MaxPoints
  /\ \A i \in DOMAIN scan : Before(scan[i], p)
  /\ scan' = Append(scan, p)
  /\ UNCHANGED <<ground, kept, visited, queue, current, clusters, cones, stage>>

(* remove_ground: the ground of a cell is a low percentile of its heights, *)
(* when there are enough of them; points not clearly above it, and points  *)
(* outside the grid, are dropped.                                          *)
RemoveGround ==
  LET In(c) == {i \in DOMAIN scan : CellOf(scan[i].x, 1) = c}
      Estimate(c) ==
        IF Cardinality(In(c)) >= MinPerCell /\ In(c) # {}
          THEN NthHeight(In(c), (Percent * (Cardinality(In(c)) - 1)) \div 100)
          ELSE Floor
      Above(p) == LET c == CellOf(p.x, 1) IN c # Outside /\ p.z > Estimate(c) + Clearance
  IN /\ stage = "scan" /\ stage' = "cluster"
     /\ ground' = [c \in Cells |-> Estimate(c)]
     /\ kept' = {i \in DOMAIN scan : Above(scan[i])}
     /\ UNCHANGED <<scan, visited, queue, current, clusters, cones>>

-----------------------------------------------------------------------------
(* Two points belong together when they are at most the tolerance apart, *)
(* seen from above.                                                        *)
Near(i, j) ==
  LET dx == scan[i].x - scan[j].x
      dy == scan[i].y - scan[j].y
  IN dx * dx + dy * dy <= Tol * Tol

(* The square cell of a point.  The cells around it hold every point near. *)
Column(i) == scan[i].x \div Tol
Row(i)    == scan[i].y \div Tol

(* Mutated: the cells of the rows above and below are forgotten. *)
Around_SameRow(i, j) == Column(j) - Column(i) \in -1..1 /\ Row(j) = Row(i)

Around(i, j) == Column(j) - Column(i) \in -1..1 /\ Row(j) - Row(i) \in -1..1

(* cluster: the next point that belongs to no cluster starts one ... *)
Seed ==
  /\ stage = "cluster" /\ queue = <<>> /\ current = {}
  /\ \E i \in kept \ visited :
        /\ \A j \in kept \ visited : i <= j
        /\ visited' = visited \cup {i} /\ queue' = <<i>>
  /\ UNCHANGED <<scan, ground, kept, current, clusters, cones, stage>>

(* ... a point is taken from the queue and its unvisited neighbours are    *)
(* put into it, in the order of the cells around it and of the points in   *)
(* each, which is left open ...                                            *)
Unvisited(cur) == {j \in kept \ visited : Around(cur, j) /\ Near(cur, j)}

Grow ==
  /\ stage = "cluster" /\ queue # <<>>
  /\ LET cur == Head(queue)
         N == Unvisited(cur)
     IN /\ current' = current \cup {cur}
        /\ \E found \in [1..Cardinality(N) -> N] :
             /\ {found[k] : k \in DOMAIN found} = N
             /\ queue' = Tail(queue) \o found
        /\ visited' = visited \cup N
  /\ UNCHANGED <<scan, ground, kept, clusters, cones, stage>>

(* ... and the cluster is kept when its size is right. *)
Close ==
  /\ stage = "cluster" /\ queue = <<>> /\ current # {}
  /\ clusters' = IF Cardinality(current) \in MinSize..MaxSize
                   THEN Append(clusters, current) ELSE clusters
  /\ current' = {}
  /\ UNCHANGED <<scan, ground, kept, visited, queue, cones, stage>>

-----------------------------------------------------------------------------
SumOver(C, axis) ==
  LET sum[k \in 0..Len(scan)] ==
        IF k = 0 THEN 0 ELSE sum[k - 1] + (IF k \in C THEN scan[k][axis] ELSE 0)
  IN sum[Len(scan)]

Extent(C, axis) ==
  LET V == {scan[i][axis] : i \in C}
      hi == CHOOSE v \in V : \A w \in V : w <= v
      lo == CHOOSE v \in V : \A w \in V : v <= w
  IN [low |-> lo, high |-> hi, width |-> hi - lo]

(* extract_features and extract_cones: what a cluster must look like.      *)
(* Distances are compared as squares, centroids as sums.                   *)
LooksLikeCone(C) ==
  LET n == Cardinality(C)
      sx == SumOver(C, "x")
      range2 == sx * sx + SumOver(C, "y") * SumOver(C, "y")
      wx == Extent(C, "x").width
      wy == Extent(C, "y").width
      wide == IF wx > wy THEN wx ELSE wy
      slim == IF wx > wy THEN wy ELSE wx
      tall == Extent(C, "z").width
      class == CASE range2 < (NearRange * n) * (NearRange * n) -> "near"
                 [] range2 >= (NearRange * n) * (NearRange * n)
                    /\ range2 <= (MidRange * n) * (MidRange * n) -> "mid"
                 [] OTHER -> "far"
      gate == Gate[class]
  IN /\ range2 <= (MaxRange * n) * (MaxRange * n)
     /\ n >= gate.points
     /\ tall >= gate.height /\ tall <= MaxHeight
     /\ wide <= gate.width
     /\ wide <= MaxElongation * (IF slim > MinWidth THEN slim ELSE MinWidth)
     /\ Extent(C, "z").high - GroundAt(sx, n) <= MaxTop

ExtractCones ==
  /\ stage = "cluster" /\ queue = <<>> /\ current = {} /\ visited = kept
  /\ stage' = "done"
  /\ LET good == SelectSeq(clusters, LooksLikeCone)
     IN cones' = [k \in DOMAIN good |->
                    [x |-> SumOver(good[k], "x"), y |-> SumOver(good[k], "y"),
                     n |-> Cardinality(good[k])]]
  /\ UNCHANGED <<scan, ground, kept, visited, queue, current, clusters>>

(* filter_cloud *)
Next == (\E p \in Points : Measure(p)) \/ RemoveGround \/ Seed \/ Grow \/ Close \/ ExtractCones

Spec == Init /\ [][Next]_filterVars

-----------------------------------------------------------------------------
(* The reference: a cluster is a connected component of the graph of near  *)
(* points, that is closed under nearness and in one piece.                 *)
IsComponent(C) ==
  /\ C # {}
  /\ \A i \in C, j \in kept \ C : ~Near(i, j)
  /\ \A D \in (SUBSET C) \ {{}, C} : \E i \in D, j \in C \ D : Near(i, j)

(* When the search on the grid is done, the clusters it found are exactly  *)
(* the connected components of a permitted size, each found once: no cell  *)
(* boundary cuts an object in two, and no two objects are merged.          *)
ClustersAreComponents ==
  stage = "done" =>
    /\ \A a, b \in DOMAIN clusters : a # b => clusters[a] # clusters[b]
    /\ {clusters[k] : k \in DOMAIN clusters} =
         {C \in SUBSET kept : IsComponent(C) /\ Cardinality(C) \in MinSize..MaxSize}
=============================================================================
