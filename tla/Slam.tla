-------------------------------- MODULE Slam --------------------------------
(***************************************************************************)
(* The life of a landmark (slam/src/SlamFrontend.cpp, GraphSlam.cpp): a    *)
(* cone is an unconfirmed candidate of the frontend, then a candidate that *)
(* the backend's graph knows, then a landmark of a solved map.  Frontend   *)
(* and backend keep separate sets of ids and meet only through the         *)
(* observations of a frame and the maps the backend solves every few       *)
(* frames.                                                                 *)
(*                                                                         *)
(* One thread calls Slam::update: the frontend's half and the backend's    *)
(* half are two actions that alternate.  Geometry is left out: which       *)
(* detections fall into which gates is any one-to-one choice, the car's    *)
(* position a number that changes when the car has moved by the baseline.  *)
(* Colours and diagnostics are left out.                                   *)
(***************************************************************************)
EXTENDS Integers, FiniteSets

CONSTANTS
  Confidences,      \* confidences of a detection, scaled to integers
  MinEvidence,      \* minimum_evidence_to_confirm, in the same scale
  Baseline,         \* minimum_evidence_baseline_m: 0, or 1 for the step of the car
  SolvePerFrame,    \* SOLVE_PER_FRAME
  InGraphMaxAge,    \* IN_GRAPH_MAX_AGE_NS
  UnconfirmedMaxAge,\* UNCONFIRMED_MAX_AGE_NS
  Gaps,             \* time from one frame to the next
  Finite,           \* whether a solved map may hold non-finite numbers
  MaxTime,          \* bound: time stamp of the last frame
  MaxCandidates     \* bound: how many candidates are spawned

ASSUME EvidenceAssumption ==
  /\ MinEvidence \in Nat /\ Confidences \subseteq 0..(MinEvidence - 1)
  /\ Baseline \in {0, 1}
ASSUME FrameAssumption ==
  /\ SolvePerFrame \in Nat \ {0}
  /\ InGraphMaxAge \in Nat /\ UnconfirmedMaxAge \in Nat
  /\ Gaps \subseteq Nat \ {0} /\ Finite \subseteq BOOLEAN
  /\ MaxTime \in Nat /\ MaxCandidates \in Nat

VARIABLES
  phase,       \* whose half of Slam::update is next
  now,         \* _last_frame_ns
  place,       \* where the car is
  spawned,     \* history: candidates spawned so far, which also name them
  cands,       \* _candidates
  nextId,      \* _next_landmark_id
  mapIds,      \* the landmarks of _map_state
  obs,         \* the observations of the frame
  known,       \* _landmark_ids of the backend
  sinceSolve,  \* _frames_since_solve
  failed,      \* _failed
  refused,     \* history: observations the backend rejected
  rejectedMap  \* history: the last solved map was rejected by the frontend

frontVars == <<now, place, spawned, nextId>>
backVars  == <<known, sinceSolve, failed, refused>>
vars == <<phase, frontVars, cands, mapIds, obs, backVars, rejectedMap>>

Unconfirmed == 0      \* ids start at 1

Init ==
  /\ phase = "frontend"
  /\ now = 0 /\ place = 0 /\ spawned = 0 /\ nextId = 1
  /\ cands = [k \in {} |-> {}] /\ mapIds = {} /\ obs = {}
  /\ known = {} /\ sinceSolve = 0 /\ failed = FALSE /\ refused = {}
  /\ rejectedMap = FALSE

InGraph == {k \in DOMAIN cands : cands[k].id # Unconfirmed}

(* What the matched unconfirmed candidates have gathered: evidence only    *)
(* counts when the car has moved by the baseline since the last time.      *)
Moved(k, here) == here - cands[k].place >= Baseline

(* Mutated: every sighting counts. *)
Evidence_AnyPlace(k, here, c) == cands[k].evidence + c

Evidence(k, here, c) == cands[k].evidence + (IF Moved(k, here) THEN c ELSE 0)

(* A candidate that was matched; id is its own, or the one it is given. *)
Matched(k, here, c, t, id) ==
  [cands[k] EXCEPT !.id = id,
                   !.seen = t,
                   !.evidence = IF k \in InGraph THEN @ ELSE Evidence(k, here, c),
                   !.place = IF k \notin InGraph /\ Moved(k, here) THEN here ELSE @]

Spawned(here, c, t) ==
  [id |-> Unconfirmed, evidence |-> c, born |-> here, place |-> here, seen |-> t]

(* _prune_candidates *)
Current(cand, t) ==
  t - cand.seen <= IF cand.id = Unconfirmed THEN UnconfirmedMaxAge ELSE InGraphMaxAge

Promoted(U, here, c) == {k \in U : Evidence(k, here, c) >= MinEvidence}

(* process_frame of a frame with a newer time stamp (others change         *)
(* nothing): detections are matched with the map M, with candidates in the *)
(* graph G and with unconfirmed ones U; new many are left over.  Promoted  *)
(* candidates are given consecutive ids in the order of their matches.     *)
ProcessFrame(gap, step, c, M, G, U, new) ==
  /\ phase = "frontend" /\ phase' = "backend"
  /\ now + gap <= MaxTime /\ spawned + new <= MaxCandidates
  /\ now' = now + gap /\ place' = place + step /\ spawned' = spawned + new
  /\ LET t    == now + gap
         here == place + step
         P    == Promoted(U, here, c)
         n    == Cardinality(P)
     IN  \E ids \in [P -> nextId..(nextId + n - 1)] :
           /\ \A j, k \in P : j # k => ids[j] # ids[k]
           /\ nextId' = nextId + n
           /\ LET all == [k \in DOMAIN cands \cup (spawned + 1)..(spawned + new) |->
                            IF k \in P THEN Matched(k, here, c, t, ids[k])
                            ELSE IF k \in G \cup U THEN Matched(k, here, c, t, cands[k].id)
                            ELSE IF k \in DOMAIN cands THEN cands[k]
                            ELSE Spawned(here, c, t)]
              IN  cands' = [k \in {j \in DOMAIN all : Current(all[j], t)} |-> all[k]]
           /\ obs' =      {[id |-> i, status |-> "InMap"] : i \in M}
                     \cup {[id |-> cands[k].id, status |-> "InGraph"] : k \in G}
                     \cup {[id |-> ids[k], status |-> "New"] : k \in P}
  /\ UNCHANGED <<mapIds, backVars, rejectedMap>>

-----------------------------------------------------------------------------
(* Mutated: every landmark must be one that does not exist yet. *)
Admitted_Unknown == {o \in obs : o.id \notin known}

(* A new landmark must not exist yet, any other must. *)
Admitted == {o \in obs : (o.status = "New") # (o.id \in known)}

(* Mutated: candidates that are now in the map are kept. *)
SetMap_KeepsCandidates(ids) ==
  /\ mapIds' = ids
  /\ rejectedMap' = FALSE
  /\ UNCHANGED cands

(* Mutated: only what was observed in this frame makes it to the map. *)
SetMap_Latest(ids) ==
  /\ mapIds' = {o.id : o \in obs}
  /\ cands' = [k \in {j \in DOMAIN cands : cands[j].id \notin ids} |-> cands[k]]
  /\ rejectedMap' = FALSE

(* set_map, accepted: later sequence number and time stamp are certain,    *)
(* and so is that no id reaches _next_landmark_id.                         *)
SetMap(ids) ==
  /\ mapIds' = ids
  /\ cands' = [k \in {j \in DOMAIN cands : cands[j].id \notin ids} |-> cands[k]]
  /\ rejectedMap' = FALSE

(* GraphSlam::update.  Anything it throws stops mapping for good; it may   *)
(* throw before or after it has taken the new ids in.                      *)
BackendUpdate ==
  /\ phase = "backend" /\ phase' = "frontend"
  /\ obs' = {}
  /\ \/ /\ failed
        /\ UNCHANGED <<cands, mapIds, backVars, rejectedMap>>
     \/ /\ ~failed /\ failed' = TRUE
        /\ known' \in {known, known \cup {o.id : o \in Admitted}}
        /\ refused' = refused \cup (obs \ Admitted)
        /\ UNCHANGED <<cands, mapIds, sinceSolve, rejectedMap>>
     \/ /\ ~failed /\ UNCHANGED failed
        /\ refused' = refused \cup (obs \ Admitted)
        /\ known' = known \cup {o.id : o \in Admitted}
        /\ \/ /\ sinceSolve + 1 < SolvePerFrame /\ sinceSolve' = sinceSolve + 1
              /\ UNCHANGED <<cands, mapIds, rejectedMap>>
           \/ /\ sinceSolve + 1 >= SolvePerFrame /\ sinceSolve' = 0
              /\ \/ TRUE \in Finite /\ SetMap(known')
                 \/ FALSE \in Finite /\ rejectedMap' = TRUE /\ UNCHANGED <<cands, mapIds>>
  /\ UNCHANGED frontVars

Next ==
  \/ \E gap \in Gaps, step \in {0, 1}, c \in Confidences, new \in 0..MaxCandidates :
       \E M \in SUBSET mapIds, G \in SUBSET InGraph, U \in SUBSET (DOMAIN cands \ InGraph) :
         ProcessFrame(gap, step, c, M, G, U, new)
  \/ BackendUpdate

Spec == Init /\ [][Next]_vars

-----------------------------------------------------------------------------
Candidate == [id : Nat, evidence : Nat, born : Nat, place : Nat, seen : Nat]
Observation == [id : Nat \ {Unconfirmed}, status : {"InMap", "InGraph", "New"}]

(* Type invariant of the two halves. *)
TypeOK ==
  /\ phase \in {"frontend", "backend"}
  /\ now \in Nat /\ place \in Nat /\ spawned \in Nat /\ nextId \in Nat \ {0}
  /\ DOMAIN cands \subseteq 1..spawned
  /\ \A k \in DOMAIN cands : cands[k] \in Candidate
  /\ mapIds \subseteq 1..(nextId - 1) /\ known \subseteq 1..(nextId - 1)
  /\ obs \subseteq Observation /\ refused \subseteq Observation
  /\ sinceSolve \in 0..(SolvePerFrame - 1)
  /\ failed \in BOOLEAN /\ rejectedMap \in BOOLEAN

(* The two sides agree on every landmark: the backend never refuses an     *)
(* observation as new when it has the landmark, or as known when it has    *)
(* not, through any sequence of promotions, prunings, solves and rejected  *)
(* maps.                                                                   *)
ObservationsAdmitted == refused = {}

(* cone_map: how often it lists a landmark. *)
Listed(i) ==
  Cardinality(mapIds \cap {i}) + Cardinality({k \in InGraph : cands[k].id = i})

(* A landmark is listed once in the cone map: as a landmark of the map or  *)
(* as one candidate, never as both.                                        *)
LandmarkListedOnce == \A i \in 1..(nextId - 1) : Listed(i) <= 1

(* A landmark the backend knows is in the cone map, even when its          *)
(* candidate was pruned, as soon as the graph has been solved.             *)
SolveRecoversPruned ==
  phase = "frontend" /\ sinceSolve = 0 /\ ~failed /\ ~rejectedMap => known \subseteq mapIds

(* What the comment on minimum_evidence_baseline_m says: a parked car does *)
(* not confirm a landmark by staring at it.                                *)
ParkedCarConfirmsNothing == \A k \in InGraph : cands[k].place # cands[k].born
=============================================================================
