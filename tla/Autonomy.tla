------------------------------ MODULE Autonomy ------------------------------
(***************************************************************************)
(* The driverless pipeline (app/src/autonomy.cpp): a thread of its own     *)
(* waits for a lidar scan, looks up the odometry pose for it, updates the  *)
(* map, publishes the car's pose in the map, plans a path from it and      *)
(* publishes the path.  The control loop reads pose, path and validity in  *)
(* three separate calls of the state tracker and drives on them.           *)
(*                                                                         *)
(* A scan is named by its time stamp, and so is everything computed from   *)
(* it; 0 is none.  The map itself is in module Slam, the odometry's buffer *)
(* in module Odometry: here a lookup or an update may or may not succeed.  *)
(***************************************************************************)
EXTENDS Integers

CONSTANTS
  LidarTimeout,  \* LIDAR_TIMEOUT
  MaxMissed,     \* so many scans in a row without a path are too many; missed counts up to it
  MaxClock       \* bound: how far the system clock runs

ASSUME AutonomyAssumption ==
  /\ LidarTimeout \in Nat \ {0}
  /\ MaxMissed \in Nat \ {0} /\ MaxClock \in Nat

VARIABLES
  clock,     \* the system clock
  scan,      \* _dv_state.lidar_cloud
  notifier,  \* the lidar thread: "idle", or "notifying" after it stored a scan
  odometry,  \* whether the odometry has samples around the newest scan
  pose,      \* the car's pose in _vehicle_state: its scan, and (history) the scan of the
             \* pose before it
  path,      \* _dv_state.path: its scan, and whether it is empty
  running,   \* Autonomy::_running
  thread,    \* where the autonomy thread is
  last,      \* last_scan
  solved,    \* _slam->map_state has a value
  plan,      \* the path that is about to be published
  missed,    \* history: scans taken up since the last path was published, and given up
  loop,      \* where the control loop is
  cmd        \* what it has read, and (history) the scans missed when it was judged

dvVars  == <<scan, notifier, odometry>>
thrVars == <<running, thread, last, solved, plan, missed>>
pipelineVars == <<clock, dvVars, pose, path, thrVars, loop, cmd>>

NoPose == [of |-> 0, prior |-> 0]
NoPath == [of |-> 0, empty |-> TRUE]
NoCommand == [pose |-> NoPose, path |-> NoPath, valid |-> FALSE, missed |-> 0]

PipelineInit ==
  /\ clock = 1
  /\ scan = 0 /\ notifier = "idle" /\ odometry = TRUE
  /\ pose = NoPose /\ path = NoPath
  /\ running = FALSE /\ thread = "none" /\ last = 0 /\ solved = FALSE /\ plan = NoPath
  /\ missed = 0
  /\ loop = "state" /\ cmd = NoCommand

-----------------------------------------------------------------------------
Tick ==
  /\ clock < MaxClock /\ clock' = clock + 1
  /\ UNCHANGED <<dvVars, pose, path, thrVars, loop, cmd>>

(* The lidar thread stores a scan, which it has stamped with the host's    *)
(* clock when it converted it; the clock is not set back here ...          *)
DeliverScan(s) ==
  /\ notifier = "idle" /\ notifier' = "notifying"
  /\ s > scan /\ s <= clock /\ scan' = s
  /\ UNCHANGED <<clock, odometry, pose, path, thrVars, loop, cmd>>

(* ... and notifies with the mutex free. *)
NotifyScan ==
  /\ notifier = "notifying" /\ notifier' = "idle"
  /\ thread' = IF thread = "asleep" THEN "notified" ELSE thread
  /\ UNCHANGED <<clock, scan, odometry, pose, path, running, last, solved, plan, missed, loop, cmd>>

(* The speed sensor's samples stop, or come again. *)
SetOdometry(b) ==
  /\ odometry' = b
  /\ UNCHANGED <<clock, scan, notifier, pose, path, thrVars, loop, cmd>>

-----------------------------------------------------------------------------
(* start(), called by run() and then by every driverless iteration of the  *)
(* loop.                                                                   *)
Start ==
  /\ ~running /\ thread = "none" /\ loop = "state"
  /\ running' = TRUE /\ thread' = "awake"
  /\ UNCHANGED <<clock, dvVars, pose, path, last, solved, plan, missed, loop, cmd>>

(* stop(), when the loop has ended: the flag, then the join. *)
Stop ==
  /\ loop = "ended" /\ running /\ running' = FALSE
  /\ UNCHANGED <<clock, dvVars, pose, path, thread, last, solved, plan, missed, loop, cmd>>

Join ==
  /\ loop = "ended" /\ ~running /\ thread = "done"
  /\ thread' = "joined"
  /\ UNCHANGED <<clock, dvVars, pose, path, running, last, solved, plan, missed, loop, cmd>>

(* The head of _run's loop and wait_for_scan: leave, go to sleep, or take  *)
(* the newest scan.                                                        *)
WaitForScan ==
  /\ thread = "awake"
  /\ \/ /\ ~running /\ thread' = "done" /\ UNCHANGED last
     \/ /\ running /\ scan = last /\ thread' = "asleep" /\ UNCHANGED last
     \/ /\ running /\ scan # last /\ thread' = "odometry" /\ last' = scan
  /\ UNCHANGED <<clock, dvVars, pose, path, running, solved, plan, missed, loop, cmd>>

(* It is notified, or SCAN_WAIT has passed: what is there now is taken, if *)
(* it is new.                                                              *)
EndScanWait ==
  /\ thread \in {"asleep", "notified"}
  /\ \/ /\ scan = last /\ UNCHANGED last
        /\ thread' = IF thread = "asleep" THEN "awake" ELSE "asleep"
     \/ /\ scan # last /\ thread' = "odometry" /\ last' = scan
  /\ UNCHANGED <<clock, dvVars, pose, path, running, solved, plan, missed, loop, cmd>>

(* Mutated: the lookup waits until the odometry has the pose. *)
OdomPose_Waits(found) ==
  /\ thread = "odometry" /\ odometry
  /\ thread' = IF found THEN "slam" ELSE "awake"
  /\ UNCHANGED <<clock, dvVars, pose, path, running, last, solved, plan, missed, loop, cmd>>

GivenUp == missed' = IF missed < MaxMissed THEN missed + 1 ELSE missed

(* odom_pose: a pose if there are samples around the scan, otherwise the   *)
(* scan is skipped after ODOM_TIMEOUT.                                     *)
OdomPose(found) ==
  /\ thread = "odometry"
  /\ found => odometry
  /\ thread' = IF found THEN "slam" ELSE "awake"
  /\ IF found THEN UNCHANGED missed ELSE GivenUp
  /\ UNCHANGED <<clock, dvVars, pose, path, running, last, solved, plan, loop, cmd>>

(* Slam::update: there may be no map yet; the graph may be solved for the  *)
(* first time, after which map_state keeps its last value.                 *)
UpdateSlam(map, solves) ==
  /\ thread = "slam"
  /\ thread' = IF map THEN "pose" ELSE "awake"
  /\ solved' = (solved \/ solves)
  /\ IF map THEN UNCHANGED missed ELSE GivenUp
  /\ UNCHANGED <<clock, dvVars, pose, path, running, last, plan, loop, cmd>>

(* The map pose goes through the tracker to the planner and to the         *)
(* controller.                                                             *)
PublishPose ==
  /\ thread = "pose" /\ thread' = "plan"
  /\ pose' = IF solved THEN [of |-> last, prior |-> pose.of] ELSE pose
  /\ UNCHANGED <<clock, dvVars, path, running, last, solved, plan, missed, loop, cmd>>

(* set_cone_observations and plan_path, which asks the tracker for the     *)
(* pose; few or badly placed cones give an empty path.                     *)
PlanPath(empty) ==
  /\ thread = "plan" /\ thread' = "path"
  /\ plan' = [of |-> last, empty |-> empty]
  /\ UNCHANGED <<clock, dvVars, pose, path, running, last, solved, missed, loop, cmd>>

(* Mutated: an empty path is not published. *)
PublishPath_NonEmpty ==
  /\ thread = "path" /\ thread' = "awake"
  /\ path' = IF plan.empty THEN path ELSE plan
  /\ UNCHANGED <<clock, dvVars, pose, running, last, solved, plan, missed, loop, cmd>>

(* set_dv_path *)
PublishPath ==
  /\ thread = "path" /\ thread' = "awake"
  /\ path' = plan /\ missed' = 0
  /\ UNCHANGED <<clock, dvVars, pose, running, last, solved, plan, loop, cmd>>

-----------------------------------------------------------------------------
(* A driverless iteration of the control loop: the vehicle state, then the *)
(* path in PurePursuitController::step, then is_valid.                     *)
LoopReadsPose ==
  /\ loop = "state" /\ thread # "none" /\ loop' = "path"
  /\ cmd' = [NoCommand EXCEPT !.pose = pose]
  /\ UNCHANGED <<clock, dvVars, pose, path, thrVars>>

LoopSteps ==
  /\ loop = "path" /\ loop' = "valid"
  /\ cmd' = [cmd EXCEPT !.path = path]
  /\ UNCHANGED <<clock, dvVars, pose, path, thrVars>>

(* dv_state, whose age is taken from the newest scan, not from the path. *)
LidarValid == scan # 0 /\ clock - scan < LidarTimeout

LoopJudges ==
  /\ loop = "valid" /\ loop' = "judged"
  /\ cmd' = [cmd EXCEPT !.valid = LidarValid /\ path.of # 0 /\ ~path.empty, !.missed = missed]
  /\ UNCHANGED <<clock, dvVars, pose, path, thrVars>>

(* The command is sent, or not, and the next iteration begins or the       *)
(* program ends.                                                           *)
LoopEnds ==
  /\ loop = "judged" /\ loop' \in {"state", "ended"}
  /\ cmd' = NoCommand
  /\ UNCHANGED <<clock, dvVars, pose, path, thrVars>>

Thread ==
  \/ WaitForScan \/ EndScanWait
  \/ \E found \in BOOLEAN : OdomPose(found)
  \/ \E map, solves \in BOOLEAN : UpdateSlam(map, solves)
  \/ PublishPose
  \/ \E empty \in BOOLEAN : PlanPath(empty)
  \/ PublishPath

PipelineNext ==
  \/ Tick
  \/ \E s \in 1..MaxClock : DeliverScan(s)
  \/ NotifyScan
  \/ \E b \in BOOLEAN : SetOdometry(b)
  \/ Start \/ Stop \/ Join \/ Thread
  \/ LoopReadsPose \/ LoopSteps \/ LoopJudges \/ LoopEnds

PipelineSpec == PipelineInit /\ [][PipelineNext]_pipelineVars

(* The thread is scheduled, its waits end by their timeouts, and run()     *)
(* calls stop() after the loop, which joins the thread.                    *)
Fairness == WF_pipelineVars(Thread) /\ WF_pipelineVars(Stop) /\ WF_pipelineVars(Join)

PipelineFairSpec == PipelineSpec /\ Fairness

-----------------------------------------------------------------------------
PoseType == [of : Nat, prior : Nat]
PathType == [of : Nat, empty : BOOLEAN]

(* Type invariant; the path never belongs to a scan that the thread has    *)
(* not taken up.                                                           *)
PipelineTypeOK ==
  /\ clock \in Nat /\ scan \in 0..clock /\ last \in 0..scan
  /\ notifier \in {"idle", "notifying"} /\ odometry \in BOOLEAN
  /\ pose \in PoseType /\ path \in PathType /\ plan \in PathType
  /\ running \in BOOLEAN /\ solved \in BOOLEAN
  /\ thread \in {"none", "awake", "asleep", "notified", "odometry", "slam", "pose", "plan",
                 "path", "done", "joined"}
  /\ loop \in {"state", "path", "valid", "judged", "ended"}
  /\ cmd \in [pose : PoseType, path : PathType, valid : BOOLEAN, missed : Nat]
  /\ missed \in Nat
  /\ path.of <= last

(* Although pose and path are published in two steps and read in two, the  *)
(* loop never steers along a path that is two rounds older than its pose:  *)
(* an empty path replaces the one before it just as any other.             *)
PathKeepsUpWithPose ==
  loop \in {"valid", "judged"} => cmd.path.of >= cmd.pose.prior

(* Every scan is taken up, or a newer one is, whatever the odometry does.  *)
NewestScanIsTaken ==
  \A s \in 1..MaxClock : (running /\ scan = s) ~> (last >= s \/ ~running)

(* stop() returns: whichever wait the thread is in, it ends by itself.     *)
StopReturns == (loop = "ended" /\ running) ~> (thread = "joined")

-----------------------------------------------------------------------------
(* What the comment on is_valid() says: the stack is producing usable      *)
(* output, in the sense in which driver mode looks at the time stamps of   *)
(* its inputs.  So when the loop judges a path to be valid, the pipeline   *)
(* has not by then given up MaxMissed scans one after the other since.     *)
ValidMeansRecentPath == loop = "judged" /\ cmd.valid => cmd.missed < MaxMissed
=============================================================================
