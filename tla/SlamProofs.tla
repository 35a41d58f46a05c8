----------------------------- MODULE SlamProofs -----------------------------
(***************************************************************************)
(* The driverless pipeline.  Frontend and backend of the map agree on the  *)
(* landmarks, for any evidence, ages, solve period and number of cones;    *)
(* and the control loop follows the thread around them, for any timeout    *)
(* and any run of the clock.                                               *)
(***************************************************************************)
EXTENDS Slam, Autonomy, FiniteSetTheorems, TLAPS

(* An id is given to one candidate, and taken over by the map. *)
IdsInv ==
  /\ \A k \in DOMAIN cands : cands[k].id < nextId
  /\ \A j, k \in InGraph : cands[j].id = cands[k].id => j = k
  /\ \A k \in InGraph : cands[k].id \notin mapIds
  /\ \A o \in obs : o.id < nextId

(* As long as the backend works it knows the landmarks of the frontend, or *)
(* is about to be told of them.                                            *)
AgreeInv ==
  /\ mapIds \subseteq known
  /\ phase = "frontend" /\ ~failed => \A k \in InGraph : cands[k].id \in known
  /\ phase = "backend" /\ ~failed =>
       /\ \A k \in InGraph : \/ cands[k].id \in known
                             \/ [id |-> cands[k].id, status |-> "New"] \in obs
       /\ \A o \in obs : o.status = "New" <=> o.id \notin known

(* A candidate that has gathered enough evidence has done so from a second *)
(* place, if evidence needs a baseline.                                    *)
EvidenceInv ==
  /\ \A k \in DOMAIN cands : cands[k].born <= cands[k].place /\ cands[k].place <= place
  /\ Baseline = 1 => \A k \in DOMAIN cands :
       cands[k].place = cands[k].born =>
         cands[k].id = Unconfirmed /\ cands[k].evidence < MinEvidence

IInv ==
  /\ TypeOK /\ IdsInv /\ AgreeInv /\ EvidenceInv
  /\ ObservationsAdmitted /\ SolveRecoversPruned

-----------------------------------------------------------------------------
(* The ids given so far only grow in number. *)
LEMMA IntervalGrows == ASSUME NEW m \in Nat, NEW n \in Nat, m <= n
                       PROVE  1..(m - 1) \subseteq 1..(n - 1)
  OBVIOUS

LEMMA InitIInv == ASSUME Init PROVE IInv
<1>1. DOMAIN cands = {} /\ InGraph = {}
  BY DEF Init, InGraph
<1>2. TypeOK
  <2>1. \A k \in DOMAIN cands : cands[k] \in Candidate
    BY <1>1
  <2>2. sinceSolve \in 0..(SolvePerFrame - 1)
    BY FrameAssumption DEF Init
  <2>3. /\ mapIds = {} /\ known = {} /\ obs = {} /\ refused = {} /\ DOMAIN cands = {}
        /\ phase \in {"frontend", "backend"}
        /\ now \in Nat /\ place \in Nat /\ spawned \in Nat /\ nextId \in Nat \ {0}
    BY <1>1 DEF Init
  <2>4. failed \in BOOLEAN /\ rejectedMap \in BOOLEAN
    BY DEF Init
  <2> QED BY <2>1, <2>2, <2>3, <2>4 DEF TypeOK
<1>3. IdsInv /\ AgreeInv /\ EvidenceInv
  BY <1>1 DEF Init, IdsInv, AgreeInv, EvidenceInv
<1>4. ObservationsAdmitted /\ SolveRecoversPruned
  BY DEF Init, ObservationsAdmitted, SolveRecoversPruned
<1> QED BY <1>2, <1>3, <1>4 DEF IInv

(* The fields of a matched candidate. *)
Fields(m, k, here, c, id) ==
  /\ m \in Candidate
  /\ m.id = id /\ m.born = cands[k].born
  /\ k \in InGraph => m.place = cands[k].place
  /\ k \notin InGraph => m.evidence = Evidence(k, here, c)
  /\ k \notin InGraph /\ Moved(k, here) => m.place = here
  /\ ~Moved(k, here) => m.place = cands[k].place

LEMMA MatchedFields ==
  ASSUME NEW k \in DOMAIN cands, cands[k] \in Candidate,
         NEW here \in Nat, NEW c \in Nat, NEW t \in Nat, NEW id \in Nat
  PROVE  Fields(Matched(k, here, c, t, id), k, here, c, id)
<1> DEFINE m == Matched(k, here, c, t, id)
<1>1. Evidence(k, here, c) \in Nat
  BY DEF Evidence, Candidate
<1>2. PICK e \in Nat, p \in Nat :
        /\ e = IF k \in InGraph THEN cands[k].evidence ELSE Evidence(k, here, c)
        /\ p = IF k \notin InGraph /\ Moved(k, here) THEN here ELSE cands[k].place
  BY <1>1 DEF Candidate
<1>3. m = [cands[k] EXCEPT !.id = id, !.seen = t, !.evidence = e, !.place = p]
  BY <1>2 DEF Matched
<1> HIDE DEF m
<1>4. m \in Candidate /\ m.id = id /\ m.born = cands[k].born /\ m.evidence = e /\ m.place = p
  BY ONLY <1>3, cands[k] \in Candidate, id \in Nat, t \in Nat, e \in Nat, p \in Nat
  DEF Candidate
<1>5. Fields(m, k, here, c, id)
  BY <1>2, <1>4 DEF Fields
<1> QED BY <1>5 DEF m

(* What a frame makes of the candidates: P are promoted with the ids given *)
(* to them, V are matched otherwise, N are spawned.                        *)
Framed(P, V, N, ids, here, c, t) ==
  /\ DOMAIN cands' \subseteq DOMAIN cands \cup N
  /\ \A k \in DOMAIN cands' :
       /\ k \in P => cands'[k] = Matched(k, here, c, t, ids[k])
       /\ k \in V \ P => cands'[k] = Matched(k, here, c, t, cands[k].id)
       /\ k \in DOMAIN cands \ (P \cup V) => cands'[k] = cands[k]
       /\ k \notin DOMAIN cands => cands'[k] = Spawned(here, c, t)

(* A frame of the frontend, with its numbers named. *)
FrameResult(step, c, M, G, U, new, P, n) ==
  /\ n \in Nat /\ nextId' = nextId + n
  /\ now' \in Nat /\ place' = place + step /\ spawned' = spawned + new
  /\ \E ids \in [P -> nextId..(nextId + n - 1)] :
       /\ \A j, k \in P : j # k => ids[j] # ids[k]
       /\ Framed(P, G \cup U, (spawned + 1)..(spawned + new), ids, place', c, now')
       /\ obs' =      {[id |-> i, status |-> "InMap"] : i \in M}
                 \cup {[id |-> cands[k].id, status |-> "InGraph"] : k \in G}
                 \cup {[id |-> ids[k], status |-> "New"] : k \in P}

LEMMA FrameFacts ==
  ASSUME IInv, NEW gap \in Gaps, NEW step \in {0, 1}, NEW c \in Confidences,
         NEW new \in 0..MaxCandidates, NEW M \in SUBSET mapIds, NEW G \in SUBSET InGraph,
         NEW U \in SUBSET (DOMAIN cands \ InGraph), ProcessFrame(gap, step, c, M, G, U, new)
  PROVE  FrameResult(step, c, M, G, U, new, Promoted(U, place', c),
                     Cardinality(Promoted(U, place', c)))
<1> DEFINE P == Promoted(U, place', c)
           n == Cardinality(P)
<1>1. now \in Nat /\ place \in Nat /\ spawned \in Nat /\ DOMAIN cands \subseteq 1..spawned
  BY DEF IInv, TypeOK
<1>2. /\ now' = now + gap /\ place' = place + step /\ spawned' = spawned + new
  BY DEF ProcessFrame
<1>3. now' \in Nat
  BY <1>1, <1>2, FrameAssumption
<1>4. P \subseteq 1..spawned
  BY <1>1 DEF Promoted
<1>5. n \in Nat
  <2>1. IsFiniteSet(1..spawned)
    BY <1>1, FS_Interval
  <2>2. IsFiniteSet(P)
    BY <1>4, <2>1, FS_Subset
  <2> QED BY <2>2, FS_CardinalityType
<1>6. PICK ids \in [P -> nextId..(nextId + n - 1)] :
           /\ \A j, k \in P : j # k => ids[j] # ids[k]
           /\ nextId' = nextId + n
           /\ LET all == [k \in DOMAIN cands \cup (spawned + 1)..(spawned + new) |->
                            IF k \in P THEN Matched(k, place', c, now', ids[k])
                            ELSE IF k \in G \cup U THEN Matched(k, place', c, now', cands[k].id)
                            ELSE IF k \in DOMAIN cands THEN cands[k]
                            ELSE Spawned(place', c, now')]
              IN  cands' = [k \in {j \in DOMAIN all : Current(all[j], now')} |-> all[k]]
           /\ obs' =      {[id |-> i, status |-> "InMap"] : i \in M}
                     \cup {[id |-> cands[k].id, status |-> "InGraph"] : k \in G}
                     \cup {[id |-> ids[k], status |-> "New"] : k \in P}
  BY <1>2 DEF ProcessFrame
<1>7. Framed(P, G \cup U, (spawned + 1)..(spawned + new), ids, place', c, now')
  <2> DEFINE all == [k \in DOMAIN cands \cup (spawned + 1)..(spawned + new) |->
                       IF k \in P THEN Matched(k, place', c, now', ids[k])
                       ELSE IF k \in G \cup U THEN Matched(k, place', c, now', cands[k].id)
                       ELSE IF k \in DOMAIN cands THEN cands[k]
                       ELSE Spawned(place', c, now')]
  <2>1. cands' = [k \in {j \in DOMAIN all : Current(all[j], now')} |-> all[k]]
    BY <1>6
  <2>2. DOMAIN all = DOMAIN cands \cup (spawned + 1)..(spawned + new)
    OBVIOUS
  <2>3. P \subseteq DOMAIN cands /\ G \cup U \subseteq DOMAIN cands
    BY DEF Promoted, InGraph
  <2>4. ASSUME NEW k \in DOMAIN all
        PROVE  /\ k \in P => all[k] = Matched(k, place', c, now', ids[k])
               /\ k \in (G \cup U) \ P => all[k] = Matched(k, place', c, now', cands[k].id)
               /\ k \in DOMAIN cands \ (P \cup (G \cup U)) => all[k] = cands[k]
               /\ k \notin DOMAIN cands => all[k] = Spawned(place', c, now')
    BY <2>2, <2>3
  <2> HIDE DEF all
  <2>5. DOMAIN cands' \subseteq DOMAIN all /\ \A k \in DOMAIN cands' : cands'[k] = all[k]
    BY <2>1
  <2> QED BY <2>2, <2>4, <2>5 DEF Framed
<1> QED BY <1>2, <1>3, <1>5, <1>6, <1>7 DEF FrameResult

-----------------------------------------------------------------------------
(* The candidates after a frame: those known before keep their id or are   *)
(* given one of the new ones.                                              *)
LEMMA FrameStep ==
  ASSUME IInv, NEW gap \in Gaps, NEW step \in {0, 1}, NEW c \in Confidences,
         NEW new \in 0..MaxCandidates, NEW M \in SUBSET mapIds, NEW G \in SUBSET InGraph,
         NEW U \in SUBSET (DOMAIN cands \ InGraph), ProcessFrame(gap, step, c, M, G, U, new)
  PROVE  IInv'
<1> DEFINE P == Promoted(U, place', c)
           n == Cardinality(P)
<1>0. FrameResult(step, c, M, G, U, new, P, n)
  BY FrameFacts
<1>1. /\ n \in Nat /\ nextId' = nextId + n
      /\ now' \in Nat /\ place' = place + step /\ spawned' = spawned + new
  BY <1>0 DEF FrameResult
<1>2. PICK ids \in [P -> nextId..(nextId + n - 1)] :
           /\ \A j, k \in P : j # k => ids[j] # ids[k]
           /\ Framed(P, G \cup U, (spawned + 1)..(spawned + new), ids, place', c, now')
           /\ obs' =      {[id |-> i, status |-> "InMap"] : i \in M}
                     \cup {[id |-> cands[k].id, status |-> "InGraph"] : k \in G}
                     \cup {[id |-> ids[k], status |-> "New"] : k \in P}
  BY <1>0 DEF FrameResult
<1>3. /\ phase = "frontend" /\ phase' = "backend"
      /\ UNCHANGED <<mapIds, known, sinceSolve, failed, refused, rejectedMap>>
  BY DEF ProcessFrame, backVars
<1>4. /\ nextId \in Nat \ {0} /\ place \in Nat /\ spawned \in Nat /\ place' \in Nat
      /\ c \in Nat /\ c < MinEvidence /\ MinEvidence \in Nat
      /\ spawned' \in Nat /\ nextId' \in Nat \ {0} /\ nextId <= nextId'
      /\ place <= place'
  <2>1. nextId \in Nat \ {0} /\ place \in Nat /\ spawned \in Nat
    BY DEF IInv, TypeOK
  <2>2. c \in Nat /\ c < MinEvidence /\ MinEvidence \in Nat
    BY EvidenceAssumption
  <2>3. new \in Nat
    BY FrameAssumption
  <2> QED BY <1>1, <2>1, <2>2, <2>3
<1>5. P \subseteq U /\ P \subseteq DOMAIN cands /\ P \cap InGraph = {}
      /\ \A k \in P : Evidence(k, place', c) >= MinEvidence
  BY DEF Promoted
<1>6. \A k \in P : ids[k] \in Nat /\ nextId <= ids[k] /\ ids[k] < nextId'
  BY <1>1, <1>2, <1>4, SMTT(30)
<1> HIDE DEF P
<1>7. \A k \in DOMAIN cands : cands[k] \in Candidate /\ cands[k].id \in Nat
  BY DEF IInv, TypeOK, Candidate
<1>8. Spawned(place', c, now') \in Candidate
      /\ Spawned(place', c, now').id = Unconfirmed
      /\ Spawned(place', c, now').place = place' /\ Spawned(place', c, now').born = place'
      /\ Spawned(place', c, now').evidence = c
  BY <1>1, <1>4 DEF Spawned, Candidate, Unconfirmed
<1>9. G \subseteq DOMAIN cands /\ U \subseteq DOMAIN cands /\ G \subseteq InGraph
      /\ U \cap InGraph = {}
  BY DEF InGraph
<1>10. ASSUME NEW k \in DOMAIN cands, NEW id \in Nat,
             cands'[k] = Matched(k, place', c, now', id)
      PROVE  Fields(cands'[k], k, place', c, id)
  <2>1. cands[k] \in Candidate /\ place' \in Nat /\ c \in Nat /\ now' \in Nat
    BY <1>1, <1>4, <1>7
  <2>2. Fields(Matched(k, place', c, now', id), k, place', c, id)
    BY <2>1, MatchedFields
  <2> QED BY <1>10, <2>2
(* Which id a candidate has now. *)
<1>11. ASSUME NEW k \in DOMAIN cands'
       PROVE  /\ cands'[k] \in Candidate
              /\ k \in P => cands'[k].id = ids[k]
              /\ k \in DOMAIN cands \ P => cands'[k].id = cands[k].id
              /\ k \notin DOMAIN cands => cands'[k].id = Unconfirmed
  <2>1. CASE k \in P
    <3>1. cands'[k] = Matched(k, place', c, now', ids[k]) /\ ids[k] \in Nat
      BY <1>2, <1>6, <2>1 DEF Framed
    <3> QED BY <1>5, <1>10, <2>1, <3>1 DEF Fields
  <2>2. CASE k \in (G \cup U) \ P
    <3>1. cands'[k] = Matched(k, place', c, now', cands[k].id) /\ k \in DOMAIN cands
      BY <1>2, <1>9, <2>2 DEF Framed
    <3> QED BY <1>7, <1>10, <2>2, <3>1 DEF Fields
  <2>3. CASE k \in DOMAIN cands \ (P \cup (G \cup U))
    BY <1>2, <1>7, <2>3 DEF Framed
  <2>4. CASE k \notin DOMAIN cands
    BY <1>2, <1>5, <1>8, <2>4 DEF Framed
  <2> QED BY <1>5, <2>1, <2>2, <2>3, <2>4
(* Where it was, and how much evidence it has. *)
<1>12. ASSUME NEW k \in DOMAIN cands'
       PROVE  /\ cands'[k].born <= cands'[k].place /\ cands'[k].place <= place'
              /\ Baseline = 1 /\ cands'[k].place = cands'[k].born =>
                   cands'[k].id = Unconfirmed /\ cands'[k].evidence < MinEvidence
  <2>1. CASE k \notin DOMAIN cands
    BY <1>2, <1>4, <1>8, <2>1 DEF Framed
  <2>2. CASE k \in DOMAIN cands
    <3>1. /\ cands[k].born <= cands[k].place /\ cands[k].place <= place
          /\ Baseline = 1 /\ cands[k].place = cands[k].born =>
               cands[k].id = Unconfirmed /\ cands[k].evidence < MinEvidence
      BY <2>2 DEF IInv, EvidenceInv
    <3>2. /\ cands[k].born \in Nat /\ cands[k].place \in Nat /\ cands[k].evidence \in Nat
      BY <1>7, <2>2 DEF Candidate
    <3>3. CASE k \notin P \cup (G \cup U)
      BY <1>2, <1>4, <2>2, <3>1, <3>2, <3>3 DEF Framed
    <3>4. CASE k \in InGraph /\ k \in P \cup (G \cup U)
      <4>1. cands[k].id # Unconfirmed
        BY <3>4 DEF InGraph
      <4>2. cands'[k] = Matched(k, place', c, now', cands[k].id)
        BY <1>2, <1>5, <3>4 DEF Framed
      <4>3. cands'[k].born = cands[k].born /\ cands'[k].place = cands[k].place
        BY <1>7, <1>10, <2>2, <3>4, <4>2 DEF Fields
      <4> QED BY <1>4, <3>1, <3>2, <4>1, <4>3
    <3>5. CASE k \notin InGraph /\ k \in P \cup (G \cup U)
      <4>1. PICK id \in Nat : cands'[k] = Matched(k, place', c, now', id)
        BY <1>2, <1>5, <1>6, <1>7, <1>9, <3>5 DEF Framed
      <4>2. /\ cands'[k].born = cands[k].born
            /\ cands'[k].evidence = Evidence(k, place', c)
            /\ Moved(k, place') => cands'[k].place = place'
            /\ ~Moved(k, place') => cands'[k].place = cands[k].place
        BY <1>10, <2>2, <3>5, <4>1 DEF Fields
      <4>3. CASE Moved(k, place')
        <5>1. Baseline = 1 => place' >= cands[k].place + 1
          BY <1>4, <3>2, <4>3 DEF Moved
        <5> QED BY <1>4, <3>1, <3>2, <4>2, <4>3, <5>1
      <4>4. CASE ~Moved(k, place')
        <5>1. cands'[k].evidence = cands[k].evidence
          BY <3>2, <4>2, <4>4 DEF Evidence
        <5>2. ASSUME Baseline = 1, cands'[k].place = cands'[k].born
              PROVE  cands'[k].id = Unconfirmed /\ cands'[k].evidence < MinEvidence
          <6>1. cands[k].evidence < MinEvidence /\ cands[k].id = Unconfirmed
            BY <3>1, <4>2, <4>4, <5>2
          <6>2. k \notin P
            <7>1. ~(Evidence(k, place', c) >= MinEvidence)
              BY <1>4, <3>2, <4>2, <5>1, <6>1
            <7> QED BY <1>5, <7>1
          <6> QED BY <1>11, <2>2, <5>1, <6>1, <6>2
        <5> QED BY <1>4, <3>1, <3>2, <4>2, <4>4, <5>2
      <4> QED BY <4>3, <4>4
    <3> QED BY <3>3, <3>4, <3>5
  <2> QED BY <2>1, <2>2
<1>13. \A k \in InGraph' : \/ k \in InGraph /\ k \notin P /\ cands'[k].id = cands[k].id
                           \/ k \in P /\ cands'[k].id = ids[k]
  BY <1>5, <1>11 DEF InGraph
<1>14. IdsInv /\ AgreeInv /\ mapIds \subseteq 1..(nextId - 1) /\ known \subseteq 1..(nextId - 1)
       /\ (~failed => \A k \in InGraph : cands[k].id \in known)
  BY <1>3 DEF IInv, TypeOK, AgreeInv
<1>15. IdsInv'
  <2>1. ASSUME NEW k \in DOMAIN cands' PROVE cands'[k].id < nextId'
    <3>1. CASE k \in P
      BY <1>6, <1>11, <3>1
    <3>2. CASE k \in DOMAIN cands \ P
      <4>1. cands[k].id < nextId /\ cands[k].id \in Nat /\ cands'[k].id = cands[k].id
        BY <1>7, <1>11, <1>14, <3>2 DEF IdsInv
      <4> QED BY <1>4, <4>1
    <3>3. CASE k \notin DOMAIN cands
      BY <1>4, <1>11, <3>3 DEF Unconfirmed
    <3> QED BY <1>5, <3>1, <3>2, <3>3
  <2>2. ASSUME NEW j \in InGraph', NEW k \in InGraph', cands'[j].id = cands'[k].id
        PROVE  j = k
    <3>1. ASSUME NEW i \in InGraph PROVE cands[i].id < nextId /\ cands[i].id \in Nat
      BY <1>7, <1>14 DEF IdsInv, InGraph
    <3>2. CASE j \in P /\ k \in P
      BY <1>2, <1>13, <2>2, <3>2
    <3>3. CASE j \notin P /\ k \notin P
      BY <1>13, <1>14, <2>2, <3>3 DEF IdsInv
    <3>4. CASE j \in P /\ k \notin P
      <4>1. cands[k].id < nextId /\ cands[k].id \in Nat /\ cands'[k].id = cands[k].id
        BY <1>13, <3>1, <3>4
      <4>2. cands'[j].id \in Nat /\ nextId <= cands'[j].id
        BY <1>6, <1>13, <3>4
      <4> QED BY <1>4, <2>2, <4>1, <4>2
    <3>5. CASE j \notin P /\ k \in P
      <4>1. cands[j].id < nextId /\ cands[j].id \in Nat /\ cands'[j].id = cands[j].id
        BY <1>13, <3>1, <3>5
      <4>2. cands'[k].id \in Nat /\ nextId <= cands'[k].id
        BY <1>6, <1>13, <3>5
      <4> QED BY <1>4, <2>2, <4>1, <4>2
    <3> QED BY <3>2, <3>3, <3>4, <3>5
  <2>3. ASSUME NEW k \in InGraph' PROVE cands'[k].id \notin mapIds'
    <3>1. CASE k \in P
      <4>1. cands'[k].id \in Nat /\ nextId <= cands'[k].id
        BY <1>6, <1>13, <3>1
      <4>2. cands'[k].id \notin 1..(nextId - 1)
        BY <1>4, <4>1
      <4> QED BY <1>3, <1>14, <4>2
    <3>2. CASE k \notin P
      BY <1>3, <1>13, <1>14, <3>2 DEF IdsInv
    <3> QED BY <3>1, <3>2
  <2>4. ASSUME NEW o \in obs' PROVE o.id < nextId'
    <3>1. CASE o \in {[id |-> i, status |-> "InMap"] : i \in M}
      <4>1. PICK i \in M : o = [id |-> i, status |-> "InMap"]
        BY <3>1
      <4>2. i \in 1..(nextId - 1)
        BY <1>14
      <4> QED BY <1>4, <4>1, <4>2
    <3>2. CASE o \in {[id |-> cands[k].id, status |-> "InGraph"] : k \in G}
      <4>1. PICK k \in G : o = [id |-> cands[k].id, status |-> "InGraph"]
        BY <3>2
      <4>2. cands[k].id < nextId /\ cands[k].id \in Nat
        BY <1>7, <1>9, <1>14 DEF IdsInv
      <4> QED BY <1>4, <4>1, <4>2
    <3>3. CASE o \in {[id |-> ids[k], status |-> "New"] : k \in P}
      BY <1>6, <3>3
    <3> QED BY <1>2, <3>1, <3>2, <3>3
  <2> QED BY <2>1, <2>2, <2>3, <2>4 DEF IdsInv
<1>16. AgreeInv'
  <2>1. ASSUME ~failed, NEW k \in InGraph'
        PROVE  cands'[k].id \in known \/ [id |-> cands'[k].id, status |-> "New"] \in obs'
    BY <1>2, <1>13, <1>14, <2>1
  <2>2. ASSUME ~failed, NEW o \in obs'
        PROVE  o.status = "New" <=> o.id \notin known
    <3>1. CASE o \in {[id |-> i, status |-> "InMap"] : i \in M}
      <4>1. PICK i \in M : o = [id |-> i, status |-> "InMap"]
        BY <3>1
      <4>2. i \in known
        BY <1>14 DEF AgreeInv
      <4> QED BY <4>1, <4>2
    <3>2. CASE o \in {[id |-> cands[k].id, status |-> "InGraph"] : k \in G}
      <4>1. PICK k \in G : o = [id |-> cands[k].id, status |-> "InGraph"]
        BY <3>2
      <4>2. cands[k].id \in known
        BY <1>9, <1>14, <2>2
      <4> QED BY <4>1, <4>2
    <3>3. CASE o \in {[id |-> ids[k], status |-> "New"] : k \in P}
      <4>1. PICK k \in P : o = [id |-> ids[k], status |-> "New"]
        BY <3>3
      <4>2. ids[k] \notin 1..(nextId - 1)
        BY <1>4, <1>6
      <4> QED BY <1>14, <4>1, <4>2
    <3> QED BY <1>2, <3>1, <3>2, <3>3
  <2> QED BY <1>3, <1>14, <2>1, <2>2 DEF AgreeInv
<1>17. EvidenceInv'
  BY <1>12 DEF EvidenceInv
<1>18. TypeOK'
  <2>1. DOMAIN cands' \subseteq 1..spawned'
    <3>1. DOMAIN cands' \subseteq DOMAIN cands \cup (spawned + 1)..(spawned + new)
      BY <1>2 DEF Framed
    <3>2. DOMAIN cands \subseteq 1..spawned
      BY DEF IInv, TypeOK
    <3>3. new \in Nat
      BY FrameAssumption
    <3> QED BY <1>1, <1>4, <3>1, <3>2, <3>3
  <2>2. obs' \subseteq Observation
    <3>1. ASSUME NEW o \in {[id |-> i, status |-> "InMap"] : i \in M} PROVE o \in Observation
      <4>1. PICK i \in M : o = [id |-> i, status |-> "InMap"]
        OBVIOUS
      <4>2. i \in 1..(nextId - 1)
        BY <1>14
      <4> QED BY <1>4, <4>1, <4>2 DEF Observation, Unconfirmed
    <3>2. ASSUME NEW o \in {[id |-> cands[k].id, status |-> "InGraph"] : k \in G}
          PROVE  o \in Observation
      <4>1. PICK k \in G : o = [id |-> cands[k].id, status |-> "InGraph"]
        OBVIOUS
      <4>2. cands[k].id \in Nat /\ cands[k].id # Unconfirmed
        BY <1>7, <1>9 DEF InGraph
      <4> QED BY <4>1, <4>2 DEF Observation
    <3>3. ASSUME NEW o \in {[id |-> ids[k], status |-> "New"] : k \in P}
          PROVE  o \in Observation
      <4>1. PICK k \in P : o = [id |-> ids[k], status |-> "New"]
        OBVIOUS
      <4>2. ids[k] \in Nat /\ ids[k] # 0
        BY <1>4, <1>6
      <4> QED BY <4>1, <4>2 DEF Observation, Unconfirmed
    <3> QED BY <1>2, <3>1, <3>2, <3>3
  <2>3. mapIds' \subseteq 1..(nextId' - 1) /\ known' \subseteq 1..(nextId' - 1)
    <3>1. 1..(nextId - 1) \subseteq 1..(nextId' - 1)
      BY <1>4, IntervalGrows
    <3> QED BY <1>3, <1>14, <3>1
  <2> QED BY <1>1, <1>3, <1>4, <1>11, <2>1, <2>2, <2>3 DEF IInv, TypeOK
<1>19. ObservationsAdmitted' /\ SolveRecoversPruned'
  BY <1>3 DEF IInv, ObservationsAdmitted, SolveRecoversPruned
<1> QED BY <1>15, <1>16, <1>17, <1>18, <1>19 DEF IInv

-----------------------------------------------------------------------------
LEMMA BackendStep == ASSUME IInv, BackendUpdate PROVE IInv'
<1>1. /\ phase = "backend" /\ phase' = "frontend" /\ obs' = {}
      /\ UNCHANGED <<now, place, spawned, nextId>>
  BY DEF BackendUpdate, frontVars
<1>2. ~failed => Admitted = obs
  BY <1>1 DEF IInv, AgreeInv, Admitted
<1>3. refused' = {}
  BY <1>2 DEF BackendUpdate, backVars, IInv, ObservationsAdmitted
(* The candidates stay, except for those that have become landmarks. *)
<1>4. CASE failed
  <2>1. UNCHANGED <<cands, mapIds, backVars, rejectedMap>>
    BY <1>4 DEF BackendUpdate
  <2>2. InGraph' = InGraph
    BY <2>1 DEF InGraph
  <2>3. TypeOK'
    BY <1>1, <2>1 DEF IInv, TypeOK, backVars
  <2>4. IdsInv' /\ AgreeInv' /\ EvidenceInv'
    BY <1>1, <1>4, <2>1, <2>2 DEF IInv, IdsInv, AgreeInv, EvidenceInv, backVars
  <2>5. ObservationsAdmitted' /\ SolveRecoversPruned'
    BY <1>3, <1>4, <2>1 DEF ObservationsAdmitted, SolveRecoversPruned, backVars
  <2> QED BY <2>3, <2>4, <2>5 DEF IInv
<1>5. CASE ~failed
  <2> DEFINE told == known \cup {o.id : o \in obs}
  <2>1. known' \in {known, told} /\ (~failed' => known' = told)
    BY <1>2, <1>5 DEF BackendUpdate
  <2>2. told \subseteq 1..(nextId - 1)
    <3>1. ASSUME NEW o \in obs PROVE o.id \in 1..(nextId - 1)
      <4>1. o.id \in Nat \ {0} /\ nextId \in Nat /\ o.id < nextId
        BY DEF IInv, TypeOK, IdsInv, Observation, Unconfirmed
      <4> QED BY <4>1
    <3> QED BY <3>1 DEF IInv, TypeOK
  <2>3. \A k \in InGraph : cands[k].id \in told
    <3>1. ASSUME NEW k \in InGraph PROVE cands[k].id \in told
      <4>1. cands[k].id \in known \/ [id |-> cands[k].id, status |-> "New"] \in obs
        BY <1>1, <1>5 DEF IInv, AgreeInv
      <4>2. [id |-> cands[k].id, status |-> "New"].id = cands[k].id
        OBVIOUS
      <4> QED BY <4>1, <4>2
    <3> QED BY <3>1
  <2>4. /\ mapIds \subseteq told /\ known \subseteq told /\ known \subseteq 1..(nextId - 1)
        /\ mapIds \subseteq 1..(nextId - 1) /\ mapIds \subseteq known
    BY DEF IInv, TypeOK, AgreeInv
  <2>5. known' \subseteq 1..(nextId - 1) /\ mapIds \subseteq known'
    BY <2>1, <2>2, <2>4
  <2>6. /\ sinceSolve' \in 0..(SolvePerFrame - 1)
        /\ failed' \in BOOLEAN /\ rejectedMap' \in BOOLEAN
    <3>1. /\ sinceSolve \in 0..(SolvePerFrame - 1) /\ failed \in BOOLEAN
          /\ rejectedMap \in BOOLEAN
      BY DEF IInv, TypeOK
    <3>2. sinceSolve' \in 0..(SolvePerFrame - 1)
      <4>1. \/ sinceSolve' = sinceSolve \/ sinceSolve' = 0
            \/ sinceSolve + 1 < SolvePerFrame /\ sinceSolve' = sinceSolve + 1
        BY <1>5 DEF BackendUpdate
      <4> QED BY ONLY <3>1, <4>1, FrameAssumption
    <3>3. failed' \in BOOLEAN
      BY <1>5, <3>1, Zenon DEF BackendUpdate
    <3>4. rejectedMap' \in BOOLEAN
      BY <1>5, <3>1 DEF BackendUpdate, SetMap
    <3> QED BY <3>2, <3>3, <3>4
  <2>7. CASE UNCHANGED <<cands, mapIds>>
    <3>1. InGraph' = InGraph
      BY <2>7 DEF InGraph
    <3>2. TypeOK'
      BY <1>1, <1>3, <2>5, <2>6, <2>7 DEF IInv, TypeOK
    <3>3. IdsInv' /\ EvidenceInv'
      BY <1>1, <2>7, <3>1 DEF IInv, IdsInv, EvidenceInv
    <3>4. AgreeInv'
      BY <1>1, <2>1, <2>3, <2>5, <2>7, <3>1 DEF AgreeInv
    <3>5. SolveRecoversPruned'
      <4>1. failed' \/ sinceSolve' # 0 \/ rejectedMap' \/ SetMap(known')
        <5>1. \/ failed' = TRUE
              \/ sinceSolve' = sinceSolve + 1
              \/ rejectedMap' = TRUE
              \/ SetMap(known')
          BY <1>5 DEF BackendUpdate
        <5>2. sinceSolve \in Nat
          BY FrameAssumption DEF IInv, TypeOK
        <5> QED BY <5>1, <5>2
      <4> QED BY <4>1 DEF SolveRecoversPruned, SetMap
    <3> QED BY <1>3, <3>2, <3>3, <3>4, <3>5 DEF IInv, ObservationsAdmitted
  <2>8. CASE SetMap(known') /\ ~failed'
    <3>1. /\ mapIds' = told /\ known' = told
          /\ DOMAIN cands' = {j \in DOMAIN cands : cands[j].id \notin told}
          /\ \A k \in DOMAIN cands' : cands'[k] = cands[k]
      BY <2>1, <2>8 DEF SetMap
    <3>2. InGraph' = {}
      BY <2>3, <3>1 DEF InGraph
    <3>3. TypeOK'
      BY <1>1, <1>3, <2>2, <2>6, <3>1 DEF IInv, TypeOK
    <3>4. IdsInv' /\ EvidenceInv'
      BY <1>1, <3>1, <3>2 DEF IInv, IdsInv, EvidenceInv
    <3>5. AgreeInv' /\ SolveRecoversPruned'
      BY <1>1, <3>1, <3>2 DEF AgreeInv, SolveRecoversPruned
    <3> QED BY <1>3, <3>3, <3>4, <3>5 DEF IInv, ObservationsAdmitted
  <2>9. UNCHANGED <<cands, mapIds>> \/ (SetMap(known') /\ ~failed')
    BY <1>5 DEF BackendUpdate
  <2> QED BY <2>7, <2>8, <2>9
<1> QED BY <1>4, <1>5

LEMMA NextIInv == ASSUME IInv, [Next]_vars PROVE IInv'
<1>1. CASE Next
  BY <1>1, FrameStep, BackendStep DEF Next
<1>2. CASE UNCHANGED vars
  <2>1. /\ UNCHANGED <<phase, now, place, spawned, nextId, cands, mapIds, obs, known>>
        /\ UNCHANGED <<sinceSolve, failed, refused, rejectedMap>>
        /\ InGraph' = InGraph
    BY <1>2 DEF vars, frontVars, backVars, InGraph
  <2>2. TypeOK'
    BY <2>1 DEF IInv, TypeOK
  <2>3. IdsInv' /\ AgreeInv' /\ EvidenceInv'
    BY <2>1 DEF IInv, IdsInv, AgreeInv, EvidenceInv
  <2>4. ObservationsAdmitted' /\ SolveRecoversPruned'
    BY <2>1 DEF IInv, ObservationsAdmitted, SolveRecoversPruned
  <2> QED BY <2>2, <2>3, <2>4 DEF IInv
<1> QED BY <1>1, <1>2

LEMMA InvariantHolds == Spec => []IInv
  BY InitIInv, NextIInv, PTL DEF Spec

-----------------------------------------------------------------------------
(* Every variable of the two halves keeps its type; the ids of the map and *)
(* of the backend are ones the frontend has given (TypeOK).                *)
THEOREM TypeCorrect == Spec => []TypeOK
<1>1. IInv => TypeOK
  BY DEF IInv
<1> QED BY <1>1, InvariantHolds, PTL

(* The backend never refuses an observation as new when it has the         *)
(* landmark, or as known when it has not.                                  *)
THEOREM HalvesAgree == Spec => []ObservationsAdmitted
<1>1. IInv => ObservationsAdmitted
  BY DEF IInv
<1> QED BY <1>1, InvariantHolds, PTL

(* The cardinality of a set with at most one element. *)
LEMMA AtMostOne == ASSUME NEW S, \A x, y \in S : x = y
                   PROVE  IsFiniteSet(S) /\ (S = {} => Cardinality(S) = 0)
                          /\ (S # {} => Cardinality(S) = 1)
<1>1. CASE S = {}
  BY <1>1, FS_EmptySet
<1>2. CASE S # {}
  <2>1. PICK x : S = {x}
    BY <1>2
  <2> QED BY <2>1, FS_Singleton
<1> QED BY <1>1, <1>2

(* A landmark is listed once in the cone map, as a landmark or as one      *)
(* candidate.                                                              *)
THEOREM ListedOnce == Spec => []LandmarkListedOnce
<1>1. ASSUME IInv, NEW i \in 1..(nextId - 1) PROVE Listed(i) <= 1
  <2> DEFINE A == mapIds \cap {i}
             B == {k \in InGraph : cands[k].id = i}
  <2>1. \A x, y \in A : x = y
    OBVIOUS
  <2>2. \A x, y \in B : x = y
    BY <1>1 DEF IInv, IdsInv
  <2>3. A = {} \/ B = {}
    BY <1>1 DEF IInv, IdsInv
  <2>4. Listed(i) = Cardinality(A) + Cardinality(B)
    BY DEF Listed
  <2> HIDE DEF A, B
  <2>5. Cardinality(A) \in {0, 1} /\ (A = {} => Cardinality(A) = 0)
    BY <2>1, AtMostOne
  <2>6. Cardinality(B) \in {0, 1} /\ (B = {} => Cardinality(B) = 0)
    BY <2>2, AtMostOne
  <2> QED BY <2>3, <2>4, <2>5, <2>6
<1>2. IInv => LandmarkListedOnce
  BY <1>1 DEF LandmarkListedOnce
<1> QED BY <1>2, InvariantHolds, PTL

(* A solve brings every landmark the backend knows into the cone map, also *)
(* those whose candidates were pruned.                                     *)
THEOREM SolveRecovers == Spec => []SolveRecoversPruned
<1>1. IInv => SolveRecoversPruned
  BY DEF IInv
<1> QED BY <1>1, InvariantHolds, PTL

(* With a baseline, evidence from one place alone confirms no landmark.    *)
THEOREM ParkedConfirmsNothing ==
  ASSUME Baseline = 1 PROVE Spec => []ParkedCarConfirmsNothing
<1>1. IInv => ParkedCarConfirmsNothing
  BY Baseline = 1 DEF IInv, EvidenceInv, ParkedCarConfirmsNothing, InGraph
<1> QED BY <1>1, InvariantHolds, PTL

-----------------------------------------------------------------------------
(* The pipeline.  The thread publishes a pose only when the path of the    *)
(* round before is out, and the path of the round it is in before it takes *)
(* up another scan.                                                        *)
PublishInv ==
  /\ pose.of <= last /\ pose.prior <= path.of
  /\ thread \notin {"plan", "path"} => pose.of <= path.of
  /\ thread = "path" => plan.of = last

(* The loop reads the path after the pose.                                 *)
ReadInv ==
  /\ loop = "path" => cmd.pose.prior <= path.of
  /\ PathKeepsUpWithPose

PipelineInv == PipelineTypeOK /\ PublishInv /\ ReadInv


(* The clock, the lidar and odometry threads, start and stop, and what the *)
(* thread does before it publishes: nothing of it is a pose or a path.     *)
LEMMA BeforePublishing ==
  ASSUME PipelineInv,
         \/ Tick \/ NotifyScan \/ Start \/ Stop \/ Join \/ WaitForScan \/ EndScanWait
         \/ \E s \in 1..MaxClock : DeliverScan(s)
         \/ \E b \in BOOLEAN : SetOdometry(b)
         \/ \E found \in BOOLEAN : OdomPose(found)
         \/ \E map, solves \in BOOLEAN : UpdateSlam(map, solves)
  PROVE  PipelineInv'
<1> USE DEF dvVars, thrVars
<1>t. /\ clock \in Nat /\ scan \in 0..clock /\ last \in 0..scan /\ scan \in Nat /\ last \in Nat
      /\ pose.of \in Nat /\ path.of \in Nat
  BY DEF PipelineInv, PipelineTypeOK, PoseType, PathType
<1>1. /\ UNCHANGED <<pose, path, plan, loop, cmd>>
      /\ \/ thread' = thread
         \/ thread' \notin {"plan", "path"} /\ thread \notin {"plan", "path"}
      /\ \/ last' = last
         \/ last' = scan /\ thread' \notin {"plan", "path"}
  BY DEF Tick, NotifyScan, Start, Stop, Join, WaitForScan, EndScanWait, DeliverScan, SetOdometry,
         OdomPose, UpdateSlam
<1>2. /\ clock' \in Nat /\ scan' \in 0..clock' /\ last' \in 0..scan' /\ last <= last'
      /\ last' \in Nat
  <2> DEFINE P == /\ clock' \in Nat /\ scan' \in 0..clock' /\ last' \in 0..scan'
                  /\ last <= last' /\ last' \in Nat
  <2>1. CASE Tick
    BY <1>t, <2>1 DEF Tick
  <2>2. ASSUME NEW s \in 1..MaxClock, DeliverScan(s) PROVE P
    <3>1. s \in Nat /\ s > scan /\ s <= clock /\ scan' = s /\ UNCHANGED <<clock, last>>
      BY <2>2, AutonomyAssumption DEF DeliverScan
    <3> QED BY <1>t, <3>1
  <2>3. CASE UNCHANGED <<clock, scan>>
    BY <1>t, <1>1, <2>3
  <2> HIDE DEF P
  <2>4. P
    BY <2>1, <2>2, <2>3 DEF P, NotifyScan, Start, Stop, Join, WaitForScan, EndScanWait,
                            SetOdometry, OdomPose, UpdateSlam
  <2> QED BY <2>4 DEF P
<1>3. /\ running' \in BOOLEAN /\ solved' \in BOOLEAN /\ odometry' \in BOOLEAN
  BY DEF PipelineInv, PipelineTypeOK, Tick, NotifyScan, Start, Stop, Join, WaitForScan,
         EndScanWait, DeliverScan, SetOdometry, OdomPose, UpdateSlam
<1>4. /\ notifier' \in {"idle", "notifying"}
      /\ thread' \in {"none", "awake", "asleep", "notified", "odometry", "slam", "pose", "plan",
                      "path", "done", "joined"}
  BY DEF PipelineInv, PipelineTypeOK, Tick, NotifyScan, Start, Stop, Join, WaitForScan,
         EndScanWait, DeliverScan, SetOdometry, OdomPose, UpdateSlam
<1>m. missed \in Nat /\ MaxMissed \in Nat /\ missed' \in Nat
  BY AutonomyAssumption DEF PipelineInv, PipelineTypeOK, Tick, NotifyScan, Start, Stop, Join,
     WaitForScan, EndScanWait, DeliverScan, SetOdometry, OdomPose, UpdateSlam, GivenUp
<1>5. PipelineTypeOK'
  BY <1>t, <1>m, <1>1, <1>2, <1>3, <1>4 DEF PipelineInv, PipelineTypeOK
<1>6. PublishInv'
  BY <1>t, <1>1, <1>2 DEF PipelineInv, PublishInv
<1>7. ReadInv'
  BY <1>1 DEF PipelineInv, ReadInv, PathKeepsUpWithPose
<1> QED BY <1>5, <1>6, <1>7 DEF PipelineInv

LEMMA PublishStep ==
  ASSUME PipelineInv, PublishPose \/ PublishPath \/ \E empty \in BOOLEAN : PlanPath(empty)
  PROVE  PipelineInv'
<1> USE DEF dvVars
<1>t. /\ last \in Nat /\ pose \in PoseType /\ path \in PathType /\ plan \in PathType
      /\ pose.of \in Nat /\ pose.prior \in Nat /\ path.of \in Nat /\ path.of <= last
      /\ cmd.pose.prior \in Nat
  BY DEF PipelineInv, PipelineTypeOK, PoseType, PathType
<1>u. UNCHANGED <<clock, scan, notifier, odometry, running, last, solved, loop, cmd>>
  BY DEF PublishPose, PublishPath, PlanPath
<1>m. missed' \in Nat
  BY DEF PipelineInv, PipelineTypeOK, PublishPose, PublishPath, PlanPath
<1>1. CASE PublishPose
  <2>1. /\ thread = "pose" /\ thread' = "plan" /\ UNCHANGED <<path, plan>>
        /\ pose' = [of |-> last, prior |-> pose.of] \/ pose' = pose
    BY <1>1 DEF PublishPose
  <2>2. pose' \in PoseType /\ pose'.of <= last /\ pose'.prior <= path.of
    <3>1. pose.of <= path.of /\ pose.of <= last /\ pose.prior <= path.of
      BY <2>1 DEF PipelineInv, PublishInv
    <3>2. CASE pose' = [of |-> last, prior |-> pose.of]
      BY <1>t, <3>1, <3>2 DEF PoseType
    <3>3. CASE pose' = pose
      BY <1>t, <3>1, <3>3
    <3> QED BY <2>1, <3>2, <3>3
  <2>3. PipelineTypeOK'
    BY <1>u, <1>m, <2>1, <2>2 DEF PipelineInv, PipelineTypeOK
  <2>4. PublishInv' /\ ReadInv'
    BY <1>u, <2>1, <2>2 DEF PipelineInv, PublishInv, ReadInv, PathKeepsUpWithPose
  <2> QED BY <2>3, <2>4 DEF PipelineInv
<1>2. ASSUME NEW empty \in BOOLEAN, PlanPath(empty) PROVE PipelineInv'
  <2>1. /\ thread = "plan" /\ thread' = "path" /\ UNCHANGED <<pose, path>>
        /\ plan' = [of |-> last, empty |-> empty]
    BY <1>2 DEF PlanPath
  <2>2. plan' \in PathType /\ plan'.of = last
    BY <1>t, <2>1 DEF PathType
  <2>3. PipelineTypeOK'
    BY <1>u, <1>m, <2>1, <2>2 DEF PipelineInv, PipelineTypeOK
  <2>4. PublishInv' /\ ReadInv'
    BY <1>u, <2>1, <2>2 DEF PipelineInv, PublishInv, ReadInv, PathKeepsUpWithPose
  <2> QED BY <2>3, <2>4 DEF PipelineInv
<1>3. CASE PublishPath
  <2>1. /\ thread = "path" /\ thread' = "awake" /\ UNCHANGED <<pose, plan>> /\ path' = plan
    BY <1>3 DEF PublishPath
  <2>2. path'.of = last /\ path' \in PathType
    BY <1>t, <2>1 DEF PipelineInv, PublishInv
  <2>3. PipelineTypeOK'
    BY <1>t, <1>u, <1>m, <2>1, <2>2 DEF PipelineInv, PipelineTypeOK
  <2>4. PublishInv'
    BY <1>t, <1>u, <2>1, <2>2 DEF PipelineInv, PublishInv
  <2>5. ReadInv'
    BY <1>t, <1>u, <2>1, <2>2 DEF PipelineInv, ReadInv, PathKeepsUpWithPose
  <2> QED BY <2>3, <2>4, <2>5 DEF PipelineInv
<1> QED BY <1>1, <1>2, <1>3

LEMMA ControlLoopStep ==
  ASSUME PipelineInv, LoopReadsPose \/ LoopSteps \/ LoopJudges \/ LoopEnds
  PROVE  PipelineInv'
<1> USE DEF dvVars, thrVars
<1> DEFINE Commands == [pose : PoseType, path : PathType, valid : BOOLEAN, missed : Nat]
<1>t. cmd \in Commands /\ pose \in PoseType /\ path \in PathType /\ missed \in Nat
  BY DEF PipelineInv, PipelineTypeOK
<1>u. UNCHANGED <<clock, scan, notifier, odometry, pose, path, running, thread, last, solved, plan,
                missed>>
  BY DEF LoopReadsPose, LoopSteps, LoopJudges, LoopEnds
<1>n. NoCommand \in Commands
  BY DEF NoCommand, NoPose, NoPath, PoseType, PathType
<1>1. /\ cmd' \in Commands
      /\ loop' \in {"state", "path", "valid", "judged", "ended"}
      /\ ReadInv'
  <2>1. CASE LoopReadsPose
    <3>1. cmd' = [NoCommand EXCEPT !.pose = pose] /\ loop' = "path"
      BY <2>1 DEF LoopReadsPose
    <3>2. cmd' \in Commands /\ cmd'.pose = pose
      BY <1>n, <1>t, <3>1
    <3>3. pose.prior <= path.of
      BY DEF PipelineInv, PublishInv
    <3> QED BY <1>u, <3>1, <3>2, <3>3 DEF ReadInv, PathKeepsUpWithPose
  <2>2. CASE LoopSteps
    <3>1. cmd' = [cmd EXCEPT !.path = path] /\ loop = "path" /\ loop' = "valid"
      BY <2>2 DEF LoopSteps
    <3>2. cmd' \in Commands /\ cmd'.pose = cmd.pose /\ cmd'.path = path
      BY <1>t, <3>1
    <3>3. cmd.pose.prior <= path.of /\ cmd.pose.prior \in Nat /\ path.of \in Nat
      BY <1>t, <3>1 DEF PipelineInv, ReadInv, PoseType, PathType
    <3> QED BY <3>1, <3>2, <3>3 DEF ReadInv, PathKeepsUpWithPose
  <2>3. CASE LoopJudges
    <3> DEFINE v == LidarValid /\ path.of # 0 /\ ~path.empty
    <3>0. v \in BOOLEAN
      BY DEF LidarValid
    <3>1. cmd' = [cmd EXCEPT !.valid = v, !.missed = missed] /\ loop = "valid" /\ loop' = "judged"
      BY <2>3 DEF LoopJudges
    <3> HIDE DEF v
    <3>2. cmd' \in Commands /\ cmd'.pose = cmd.pose /\ cmd'.path = cmd.path
      BY <1>t, <3>0, <3>1
    <3> QED BY <3>1, <3>2 DEF PipelineInv, ReadInv, PathKeepsUpWithPose
  <2>4. CASE LoopEnds
    BY <1>n, <2>4 DEF LoopEnds, ReadInv, PathKeepsUpWithPose
  <2> QED BY <2>1, <2>2, <2>3, <2>4
<1>2. PipelineTypeOK'
  BY <1>u, <1>1 DEF PipelineInv, PipelineTypeOK
<1>3. PublishInv'
  BY <1>u DEF PipelineInv, PublishInv
<1> QED BY <1>1, <1>2, <1>3 DEF PipelineInv

LEMMA PipelineAlways == PipelineSpec => []PipelineInv
<1>1. PipelineInit => PipelineInv
  <2> SUFFICES ASSUME PipelineInit PROVE PipelineInv
    OBVIOUS
  <2>1. /\ NoPose \in PoseType /\ NoPath \in PathType /\ NoPose.of = 0 /\ NoPose.prior = 0
        /\ NoPath.of = 0
        /\ NoCommand \in [pose : PoseType, path : PathType, valid : BOOLEAN, missed : Nat]
    BY DEF NoPose, NoPath, NoCommand, PoseType, PathType
  <2>2. PipelineTypeOK
    <3>1. clock \in Nat /\ scan \in 0..clock /\ last \in 0..scan /\ path.of <= last
      BY <2>1 DEF PipelineInit
    <3>2. odometry \in BOOLEAN /\ running \in BOOLEAN /\ solved \in BOOLEAN
      BY DEF PipelineInit
    <3> QED BY <2>1, <3>1, <3>2 DEF PipelineInit, PipelineTypeOK
  <2> QED
    BY <2>1, <2>2 DEF PipelineInit, PipelineInv, PublishInv, ReadInv, PathKeepsUpWithPose
<1>2. PipelineInv /\ [PipelineNext]_pipelineVars => PipelineInv'
  <2> SUFFICES ASSUME PipelineInv, UNCHANGED pipelineVars PROVE PipelineInv'
    BY BeforePublishing, PublishStep, ControlLoopStep DEF PipelineNext, Thread
  <2> QED BY DEF pipelineVars, dvVars, thrVars, PipelineInv, PipelineTypeOK, PublishInv, ReadInv,
                 PathKeepsUpWithPose
<1> QED BY <1>1, <1>2, PTL DEF PipelineSpec

(* The pipeline keeps its types, and the path never belongs to a scan the  *)
(* thread has not taken up.                                                *)
THEOREM PipelineTypeCorrect == PipelineSpec => []PipelineTypeOK
<1>1. PipelineInv => PipelineTypeOK
  BY DEF PipelineInv
<1> QED BY <1>1, PipelineAlways, PTL

(* However the pipeline's steps and the loop's fall between each other,    *)
(* the loop never steers along a path two rounds older than its pose.      *)
THEOREM LoopKeepsUp == PipelineSpec => []PathKeepsUpWithPose
<1>1. PipelineInv => PathKeepsUpWithPose
  BY DEF PipelineInv, ReadInv
<1> QED BY <1>1, PipelineAlways, PTL
=============================================================================
