# A TLA+ model of drivebrain

drivebrain is the program that runs on the computer of an electric (and driverless) race car. It
receives the car's and the driver's state over CAN, Ethernet and serial links, estimates what it
does not measure, computes drivetrain and steering commands in a control loop, builds a map of cones
from lidar scans, records everything in an MCAP file and streams it to Foxglove clients, which may
change its parameters while it runs. It is one process with a dozen threads that share a few
singletons. This directory models those threads and what they share, checks them with TLC on small
instances, and proves the safety properties of those runs for every instance with TLAPS.

Paths below are relative to the root of the repository.

## 1. Inventory

| component | state | operations | threads that meet in it | correct if |
|---|---|---|---|---|
| State tracker (`core/src/StateTracker.cpp`) | vehicle state, driverless state, array of time stamps | apply a message (two critical sections), take a snapshot (two), wait for a scan, set pose/path/teleop command | CAN reader, io_context, lidar, simulator; loop, steering, autonomy, parameter handler | a state called valid is recent; estimates never go back |
| MCAP logger (`core/src/MCAPLogger.cpp`) | input buffer, flag, writer thread, file | log_msg, log_params, open, init, stop, destroy | every thread; the writer | accepted messages are written once, in order, also at the end; stopping ends |
| Foxglove server (`core/src/FoxgloveServer.cpp`) | parameters; channels, bounded send queue, broadcast thread | change/read parameters, send telemetry, destroy | every thread; the websocket's handler thread; the broadcast thread | telemetry in order, lost only by overflow; updates reach their listeners |
| Controller interface, controller manager (`core/`) | mode, enable flag, active controller | parameter callback, swap | handler thread; control loop | the loop acts on settings that are in force; swaps are gated |
| Control loop (`app/src/drivebrain_app.cpp`) | none of its own | read, command, actuate, every 4 ms | | nothing is sent that is invalid or disabled |
| Steering motor (`comms/src/KrakenComms.cpp`) | commanded angle, arm/enable/test flags; the thread's profile and PID | tick; set_angle; parameter updates | its thread, the loop, the handler, the motor | no jump when it engages; neutral on faults; stops when disabled |
| Driverless pipeline (`app/src/autonomy.cpp`) | flag, thread, SLAM, last scan | start, stop, is_valid; scan -> pose -> map -> path | its thread, lidar, io_context, loop | path and pose belong together; it follows the scans; it stops |
| SLAM (`slam/`) | frontend: candidates, map, next id; backend: graph, ids, solve counter, failure latch | process_frame, set_map, update | autonomy thread only | both halves agree on the landmarks |
| Odometry (`estimation/src/Odometry.cpp`) | buffer of poses, clock offset | update, pose (waits) | io_context, autonomy | ordered, correctly stamped samples; no lost wake-up |
| Speed sensor client (`comms/src/OMSComms.cpp`) | byte stream, socket, timer | connect, receive, parse, reconnect | io_context only | every frame once and in order |
| Joystick controller (`control/src/TeleopController.cpp`) | inputs and arming flags in atomics, device | joystick thread; step_controller | its thread, the loop | no torque from a trigger that was never released, or a device that is gone |
| Start and shutdown (`app/src/drivebrain_app.cpp`, `main.cpp`) | singletons, threads, `running` | run(), destructor, signal handler | all | no thread uses what is not there; the process ends |
| CAN (`comms/src/CANComms.cpp`) | table of messages, socket, transmit queue of the kernel | read and dispatch a frame, send a command | reader, loop | the process ends only by a race on the table or by a signal without a field; null pointers left in the table are never met |
| Ethernet ports, VectorNav (`comms/include/ETHRecvComms.tpp`, `comms/src/VNComms.cpp`) | receive buffer, one message object per port, the asynchronous read | complete a read, parse, hand on, read again | io_context only | messages in order, with nothing of an earlier one in them |
| Lidar (`comms/src/OusterComms.cpp`) | connection, lookup table, thread | connect, retry, take a frame, make a cloud, destroy | its thread, its owner | a cloud belongs to its connection; it stops |
| Cameras (`comms/src/BlackflyComms.cpp`) | eight stream buffers, encoder, detector, thread | open, receive, encode, detect, destroy; the search for cameras at the start | its thread, the stream's, its owner | no buffer is lost |
| Perception (`perception/`) | the grid, the clusters, the matching | filter a scan, cluster, gate; match and colour | autonomy thread only | clusters are what is connected; the matching is stable |
| Ethernet send, simulator link, estimators, load-cell controller, power limiter | sockets; real-valued arithmetic | | | not modelled, section 5 |

What makes it hard: state is read, the lock released, and the state used afterwards (snapshots,
parameter updates, the loop's five reads); condition variables are notified inside or outside the
mutex; clocks differ (steady, system, the sensor's, the lidar's) and jump; devices disappear; a
start that fails half way; a shutdown that destroys singletons in an order of its own. The
`hazards` of PROJECT.json list these at their lines, with the properties that watch them.

## 2. Modules and how they correspond to the code

`PROJECT.json` maps every definition to its lines. One action is the code between two points where
another thread can be seen: a critical section, an atomic access, a blocking call.

* **StateTracker** — `stamp` is `_timestamp_array`, `recvAt`/`dataAt` the steady times of the last
  message and of the message a field was computed from. `Receive` is a handler's first critical
  section, `UpdateEstimators` the second; `CopyStamps`, `Judge`, `Snapshot` are `vehicle_state()`.
  `high_resolution_clock` is the system clock in libstdc++, so `AdjustClock` may move it either way.
  The array is not initialised: `InitialStamps` says what it may hold.
* **MCAPLogger**, **MessageLog** — one action per critical section. MessageLog is the promise:
  an accepted sequence that only grows, and a written prefix of it that follows. MCAPLogger
  implements it with the same `accepted` and `written`.
* **ControlLoop** — the Foxglove server's parameters and handler thread, the controller interface,
  the controller manager and the loop. The handler copies the parameters under the mutex, logs them
  and signals; the callback swaps the controller (snapshot, then step both controllers and switch),
  sets the mode, sets the flag. The loop reads state, mode, command, flag, and actuates. Clients may
  set any integers. Parameters of the wrong type are refused by the server and are not modelled.
  The value TELEOP is not in the instance: the loop treats it as AUTONOMOUS up to the command.
* **KrakenComms** — `TickFeeds`, `TickReads`, `TickSeeds`, `TickArms`, `TickCommands` are one
  iteration of `_run`. An angle is where it came from: `"old"` (commanded before arming), `"hold"`,
  `"new"`, `"test"`. `SetPosition` may or may not be acknowledged.
* **FoxgloveServer** — the telemetry half: a producer finds or makes its channel, queues (dropping
  the oldest), notifies after the mutex. **LossyChannel** is its promise: messages are
  delivered once each, in the order in which they were put, and one is lost only to make room when
  a queue's worth of newer ones is on its way. The server implements it with `count` messages
  offered, `batch \o queue` pending, `sent` delivered and `dropped` lost.
* **AppLifecycle** — `run()` statement by statement, the destructor, the order in which members are
  destroyed, the loop conditions of the threads and the singletons each uses in an iteration. The
  thread `"kraken"` stands for every member that is destroyed with its thread running: the steering
  motor's, the lidar's and the cameras'. The thread that looks for cameras gives up after fifteen
  attempts, is joined at the end of `run()`, and is still joinable if `run()` throws before. A
  call on a missing singleton is undefined behaviour in the release build (no assertions): the
  process crashes or goes on.
* **Slam** — `ProcessFrame` is the frontend's frame, `BackendUpdate` the backend's and, when it
  solves, `set_map`. Which detection falls into which gate is any one-to-one choice.
* **Autonomy** — the pipeline thread and the loop that reads pose, path and validity. Everything
  carries the time stamp of its scan. `missed` counts the scans taken up since the path was published
  and given up again; what the loop judges is recorded at the moment it judges (`cmd`).
* **OMSComms**, **Odometry**, **TeleopController**, **CANComms**, **Receivers**, composed in
  **InputFeeds** — the socket client with packets as cells (a header of two, so that a read can end
  inside it), parsed one packet after another from a cursor (`pos`), as `parse_buffer` does within
  one call; the sample buffer with the sensor's clock, the joystick, the CAN reader and sender
  with the table they share, the chains of asynchronous reads. The table is the set of its keys:
  `operator[]` puts in an id it does not find, and a lookup during that may end the process; so may
  a message with a signal that its protobuf message has no field for (`Incomplete`): the null pointer
  of `FindFieldByName` is used unchecked (`CANComms.cpp:191`, `:235`), always for a command, and for a
  frame unless the signal is multiplexed and not in it. The sensor's clock drifts against the
  host's (`Rates`), starts again at zero, and is read as a float of seconds (`Reading`, to the nearest
  multiple of `Ulp`); `lag` is the history by which the stamps are judged, section 4. They share no variable, so InputFeeds lets each behaviour be about one of them: it checks the five
  specifications side by side.
* **LidarFilter**, **ConeClassifier**, **BlackflyComms**, **OusterComms**, composed in the same way
  in **Perception** — the ground filter, the flood fill over the grid of cells and the gates, with
  integers for lengths and one sector of the polar grid; the greedy matching, one pair after
  another, and the colours; the camera's buffers; the lidar's connection.
* **MC…** modules give the constants their small values. The modules whose names end in
  **Proofs** hold the proofs: of StateTracker, MCAPLogger, AppLifecycle, FoxgloveServer, ControlLoop
  (with KrakenComms), Slam (with Autonomy), InputFeeds and Perception, the last two about the
  modules they compose.

Operators whose names end in `_Something` and whose comment begins with "Mutated" are deliberate
bugs. No specification uses them; putting one in the place of its original (`mutants` in
PROJECT.json) makes TLC find the property it is listed with violated.

The components meet in these places: the tracker's two critical sections are repeated in
KrakenComms (steering) and Autonomy (scans); the result of `vehicle_state()` is a free choice in
ControlLoop; Slam's and Odometry's success is a free choice in Autonomy, and so is what Perception
finds; the singletons are only alive or not in AppLifecycle.

## 3. Runs

States are distinct states, times are of two workers.

| run | bounds | states | shows |
|---|---|---|---|
| StateTracker | 2 producers, 1 reader, steering and one other sensor, clock to 4, one clock adjustment, threshold 1 | 2.3 M, 45 s | `FreshWhenValid`, `SteeringLagsOnlyInFlight`, `SteeringNeverRegresses` |
| MCAPLogger | 3 messages, 1 parameter update, 1 restart, the file may not open | 37 k, 6 s | `StopDrainsMessages`, `ImplementsLog`, `AcceptedIsWritten`, `StopReturns` |
| ControlLoop | 2 controllers, indices -1..2, modes 0, 1 and an invalid one, 4 outputs | 1.9 M, 66 s | `InterfaceFollowsParams`, `ActuatesCurrentSettings`, `SwapIsGated` |
| KrakenComms | clock to 1, timeout 1, seed retry 1 | 212 k, 33 s | `ResumesFromColumn`, `ObservedArmHolds`, `ResetStopsMotor`, `DisabledMotorStops` |
| FoxgloveServer | 2 producers, 2 topics (one new), queue of 2, 5 messages | 209 k, 43 s | `ImplementsChannel`, `StopDrains`, `QueuedIsSent` |
| AppLifecycle | none: the model is finite | 217 k, 54 s | `JoinedThreadsFindSingletons`, `ArmedInterruptStops`, `LoopEndEndsProcess` |
| Slam | 2 candidates, time to 7, solve every 2 frames | 340 k, 20 s | `ObservationsAdmitted`, `LandmarkListedOnce`, `SolveRecoversPruned`, `ParkedCarConfirmsNothing` (baseline > 0) |
| Autonomy | clock to 4, lidar timeout 2 | 128 k, 28 s | `PathKeepsUpWithPose`, `NewestScanIsTaken`, `StopReturns` |
| InputFeeds | packets of 0..3 frames with at most 2 allowed, 5 samples, 2 drops; 2 samples in flight, 1 sensor restart, clock 4 on, 2 ticks at which the sensor's advances by 0 or 2, floats 2 apart; 2 plug-ins, 2 events; 2 known ids, one of them incomplete, one without a message, 2 foreign, a transmit queue of 1, 3 calls; a port and the VectorNav, 3 packets each | 1.35 M, 2 min 5 s | `FramesArriveOnce`, `StampWithinLatency`, `BufferInOrder`, `NoLostWakeup`, `HeldTriggerDoesNotDrive`, `UnpluggedStops`, `EndsByRaceOrField`, `ReceivedAsSent` |
| Perception | scans of at most 4 points on a grid of 6 by 2 by 3; 2 cones, 2 detections, 2 cameras, 2 scores; 2 buffers, 4 frames; 3 attempts to connect, 2 scans | 536 k, 40 s | `ClustersAreComponents`, `MatchingIsStable`, `MostConfidentWins`, `BuffersConserved`, `LidarStops` |
| AppLifecycleDestroyed, AutonomyStalePath | as above; the pipeline's clock to 6, 3 missed scans | seconds | disagreements, section 6 |

Why the bounds are enough to be interesting. StateTracker: the clock range lets a stamp be fresh,
one threshold old and two thresholds old, before and after an adjustment, and two producers are
needed for one's estimator section to run inside the other's message. KrakenComms: one time unit is
the difference between fresh and stale feedback, and between a seed attempt and its retry; nothing
looks at older times. FoxgloveServer: five messages overflow a queue of two while the sender holds a
batch. Slam: two candidates can be promoted in the same frame or in different ones, and time 7
allows promotion, pruning by either age, and three solves. Autonomy: the thread may miss a scan,
fail on one, and be two rounds apart from the loop. InputFeeds: packets of two frames can be cut in
every place, and the third header is too large; two foreign ids let the reader insert one while a
command, itself foreign or not, is looked up; three datagrams let a cut one fall between two whole
ones; two lost ticks of four let the sensor's clock fall behind by more than one sample's creep, so
that the creep is needed and is late, and floats two apart are rounded up and down. Perception: six columns at three to a bin and a tolerance of two make clusters that cross a
cell, that touch at exactly the tolerance, and that are joined only by a third point; with two cones
and two detections the greedy choice can leave a cone or a detection without a partner, and two
cameras can disagree; two buffers and four frames make every buffer go around twice.

CHECK_DEADLOCK is off where the instance's clock or message budget ends the behaviour (StateTracker,
MCAPLogger, FoxgloveServer, Slam, Autonomy, InputFeeds, Perception); ControlLoop, KrakenComms and
AppLifecycle never stop and are checked for deadlock.

### Fairness

Only what the scheduler and the operating system give: each thread that can take a step eventually
does (weak fairness of the thread's steps); an owner that has begun to stop or destroy something
finishes; a wait with a timeout ends (the lidar's, of a frame and of an attempt to connect, among
them); the search for cameras ends after its attempts; the motor's watchdog is in the motor and
expires when it is not fed. Nothing is assumed of callers, clients, devices, clocks or signals. The
logger's owner need not stop it, a scan need not come, the joystick need not return.

## 4. Proofs

All statements are for every value of the constants that meets the assumptions named in the modules.

**StateTracker** (`SensorsAssumption`, `ClockAssumption`: a positive threshold, integer stamps and
adjustments). `FreshWhenValid` alone is not inductive: it speaks of a finished call. `IInv` adds
what the tracker knows (`StampInv`: a stamp makes a message look younger than it is by at most what
the system clock was ever set back) and what a reader carries at each point of its call
(`CallInv`). The age bound of two thresholds comes from `ValidStampsAge`: the newest stamp is less
than a threshold behind the clock, every other less than a threshold behind that one.
`AngleNeverRegresses` is an action property from `dataAt <= recvAt`; `AngleLagIsTransient` follows
each producer through its two sections.

**MCAPLogger** (`MessagesAssumption`, `OpenAssumption`). `ControlInv` relates owner, flag, writer
and batch; `NothingLost` (`accepted = written \o batch \o buffer`) is the abstraction invariant.
`Refinement` shows that every step is a step of MessageLog or changes neither of its variables: the
only interesting one writes the head of the batch, which is then the next element of `accepted`
(`MoveHead`). `StopDrains` needs `LeftoverInv`: with logging off and no writer, what is in the
buffer came from `log_params`. `WakeupIsNotLost` is the safety half of `StopReturns`.

**AppLifecycle** (no assumptions). `JoinedThreadsFindSingletons` rests on where the main thread is
while a joined thread runs (`ThreadsInPhase`) and on which singletons are live there
(`SingletonsLive`).

**FoxgloveServer** (`QueueAssumption`: a limit of at least one). `IInv` is `TypeOK`, the bound of the
queue included, and `BatchInv`; on top of it `Accounting` says that every message queued was sent,
is taken or waiting, or was dropped. `Refinement` shows that every step
is a step of LossyChannel or a stutter; `DestructorDrains` needs `ShutdownInv`: the sender leaves
only after the flag is cleared, and what is queued behind it is newer than the destructor's call.
`BroadcastIsWoken` is the safety half of `QueuedIsSent`: producers and the destructor notify outside
the mutex, and still the thread never waits with something to do unless that call is under way.

**ControlLoop** (`ControllersAssumption`, `ParamsAssumption`). `HandlerInv`: the handler's copy is
what clients see, because no other thread writes the parameters, and it calls the interface only
after the constructor has registered it. `IterationInv`: at each point of an iteration, what the
loop has read so far was in force at some time of it. `SwapsAreGated` is an action property from
both. `IndexStaysInRange` is the type invariant, for any integers a client may send.

**KrakenComms** (in ControlLoopProofs; `KrakenAssumption`, for the types only). `EngageInv` follows
the thread's flags: `wasActive` outlives a motor reset only together with the record that the
position is lost. `ArmInv`: an angle from before arming is left only if the thread missed the edge.
`FaultIsFinal`, the safety half of `ResetStopsMotor`, rests on `FaultInv`: a faulted thread does not
come to the command. The motor may be driven once more between its reset and the tick that notices
it, and not after that.

**Slam** (`EvidenceAssumption`, `FrameAssumption`). `IdsInv`: ids are below `nextId`, no two
candidates share one, and none is in the map too. `AgreeInv`: as long as the backend works it knows
the frontend's landmarks, or the observations on their way tell it of them; so it admits all.
`EvidenceInv` is for `ParkedConfirmsNothing`, which assumes a baseline. `ListedOnce` counts with the
library's cardinality facts.

**Autonomy** (in SlamProofs; `AutonomyAssumption`). `PathKeepsUpWithPose` compares what the loop has
read at two moments. `PublishInv` says how far the two that are published may be apart: a pose goes
out only when the path of the pose before it is out. `ReadInv` carries that over to the loop, which
reads the pose first and the path later.

**InputFeeds** (no step of one feed touches another: `OtherFeeds`). CAN (no assumption used):
`CANInv`, what the reader inserts is foreign and what the sender looks up is in the DBC; a process
that ends at a missing field leaves the message in work. Joystick: `JoystickInv`, what is armed or
stored has been seen at rest on this connection, at every step of the field-by-field reset. Odometry
(`OdometryAssumption`), for every latency, drift, restart, creep, distance of the floats and number
of samples in flight: the clock offset is at most the latency of the sample it is applied to, which
bounds the stamp from above; and it is less than the distance of the two clocks by at most
`lag.behind` and the rounding (`OffsetFollows`, with `Rounding` and `StampIs`), which bounds it from
below. `lag.behind` is what a leaky bucket holds: what the sensor's clock has lost against the
host's goes in, the creep of every sample goes out. It is 0 as long as the clock loses no more than
the creep between two samples. A restart puts the sensor's whole time in: newer samples are refused
until the creep has made up for it, or are stamped that much too early. `OnTheirWay` and `Newest`
(what is in flight is newer than what is in the buffer) give the order, through restarts too,
because a sample whose stamp does not grow is refused. Receivers (`ReceiversAssumption`): `Numbered`
says which packet is in the buffer and which are behind it; `PortGives` and `SerialGives` what was
made of those taken. Speed sensor (`OMSAssumption`): the packets lie in the log one behind another
(`PacketsInARow`), the stream is what was read of the log and not yet consumed (`StreamOfLog`), and
the cursor is always where a packet begins or behind the last (`CursorAtPacket`); so what was
delivered on this connection is what the packets before the cursor hold (`DeliveredHere`), wherever
the reads cut them, and when the parser is idle no whole packet is left (`NoPacketWaits`).

**Perception**. The classifier (`MatchingAssumption`), for any number of cones, detections and
cameras: `ClosestFirst` (what is matched is no further apart than what is left) and `Settled` (a
pair that was gone through has a partner as close) give `StableMatching`, `BestInv` gives
`ConfidentColours`. The filter (`FilterAssumption`: integer coordinates, a bin and a tolerance of at
least one), for any scan, grid and gates: no point of a finished cluster is near one outside, and
the neighbours of a point taken from the queue are in the cluster under construction
(`NothingCutOff`); what is under construction cannot be split in two parts that are far from each
other (`InOnePiece`, kept when a neighbour of a member is added: `OnePieceGrows`). Stating
connectedness by cuts, not by paths, is what makes induction over paths unnecessary. With an empty
queue both say that the cluster is a component, so the list is what `Wanted` says (`FoundOnce`). That
the nine cells around a point hold all that is near it is `NearIsAround`. The camera
(`SensorAssumption`): no buffer is in two places (`OnePlace`) and, while it streams, none is missing
(`NoneMissing`). The lidar: `CloudsUseTheirTable`.

The type invariants of StateTracker, MCAPLogger, AppLifecycle, FoxgloveServer, ControlLoop
(`IndexStaysInRange`), KrakenComms, Slam and Autonomy are theorems, so the runs leave them out; of the
modules that InputFeeds and Perception compose, the invariants above have what they need of the
types, and InputFeeds' `TypeOK` is a line to add to the configuration. Every invariant and every action property of a passing run is stated by a theorem.

Only model-checked are the eleven liveness properties (`AcceptedIsWritten`, both `StopReturns`,
`QueuedIsSent`, `ResetStopsMotor`, `DisabledMotorStops`, `NewestScanIsTaken`, `UnpluggedStops`,
`LidarStops`, `ArmedInterruptStops`, `LoopEndEndsProcess`), because TLAPS does not prove liveness
under fairness, nor handle ENABLED; of `StopReturns` (of the logger), `QueuedIsSent` and
`ResetStopsMotor` the safety halves are proved, and so is the odometry's `NoLostWakeup`. The runs
of section 6 that end in a violation are statements about one instance, as they should be. No module
that is proved about uses RECURSIVE.

## 5. What is not modelled

Real-valued computation (estimators, controllers, planner, SLAM geometry; of perception the camera
models, the projection to the ground and the deskewing of a cloud); the vendor SDKs behind lidar,
cameras, INS and motor; the cone detector, the video encoder and the compression; the values of CAN
signals; `ETHSendComms`, which nothing instantiates; the simulator link, which replaces the drivers
in the hardware-out-of-the-loop build; data races on plain (non-atomic) fields such as `_config` of
the joystick controller. Of the floats of the speed sensor's time, `Ulp` is one constant, although
the distance grows with the time since the sensor's start; the truncation below a nanosecond is
left out. An exception of the Ouster SDK outside its connecting ends the lidar's thread and the
process (`OusterComms.cpp:89-207` has no `try`); the two critical sections of `open_new_mcap` are one
step, as no writer runs then; the filter's scans are sorted and repeat no point, on which its
clusters do not depend. A connection of the speed sensor that goes silent without an error is never
given up (`OMSComms.cpp:57` has no timeout), and a camera's detections stay in the tracker after the
camera has stopped (`StateTracker.cpp:189`): the models have both, no property is about them. The
singletons' `create()` is called once; a second call would delete its own instance, whose destructor
clears the pointer to the first (`MCAPLogger.hpp:61`, `StateTracker.hpp:377`,
`ControllerManager.hpp:49`, `DrivebrainControllerInterface.hpp:36`). That foxglove-websocket runs
its handlers on one thread is an assumption about that library. In the simulator build
`SimComms.cpp:189` overwrites the pose that SLAM publishes.

## 6. Where the code and what is said of it differ

Runs of PROJECT.json:

* **AppLifecycleDestroyed** — "Logging singletons safely destroyed" (`app/src/drivebrain_app.cpp:40`)
  is logged before the members are destroyed whose destructors end their threads. In the trace a
  regular run has ended and the steering motor's thread, in the middle of an iteration, logs through
  the server that is gone. (The CAN reader has the same life time; the invariant is about the
  steering motor's thread.)
* **AutonomyStalePath** — validity "the same way driver mode gates on the driver input timestamps"
  (`app/include/autonomy.hpp:44`), but only the last scan's age and that there is a path are looked
  at. In the trace a path is published, the next three scans are each taken up and given up for want
  of a pose, and the loop, judging at that moment, finds the stack valid; any number is reached by a
  longer run.

Further statements, each of which TLC refutes in seconds: with the configuration named
(`tlc -config <name>.cfg <module>`), or, where it says "as", with that run's, `SPECIFICATION Spec`
(`FairSpec` for `InterruptStops`) and this property in place of its own.

| configuration | module, property | what is said | what happens |
|---|---|---|---|
| StateTrackerGarbage | MCStateTracker, ValidOnlyIfAllReceived | `all_members_received` (`StateTracker.cpp:441`) | the uninitialised array (`StateTracker.hpp:500`) passes for received stamps |
| MCAPLoggerParams | MCMCAPLogger, ParamsSuccessMeansLogged | "@return 0 on success" (`MCAPLogger.hpp:115-119`) | parameters logged without a writer, or after a stop, are never written |
| as MCAPLogger | MCMCAPLogger, SuccessMeansLogged | "@return 0 on success" (`MCAPLogger.hpp:107-111`) | the file did not open, nobody looks (`drivebrain_app.cpp:51`, `MCAPLogger.cpp:301`) |
| as ControlLoop | MCControlLoop, InterfaceLearnsEveryUpdate | "Registers a callback function to be run whenever a parameter is updated in Foxglove." (`FoxgloveServer.hpp:110`) | an update between reading and registering (`DrivebrainControllerInterface.cpp:32-49`) is not learnt |
| as ControlLoop | MCControlLoop, SwapUsesFreshState | "inputs must be coming in at a reasonable time period" (`core/README.md:14`) | a swap is decided on a state that is not valid (`DrivebrainControllerInterface.cpp:91`) |
| KrakenCommsStaleAngle | KrakenComms, ColumnAngleIsFresh | "Column angle older than this is treated as lost feedback" (`KrakenComms.hpp:37`) | the receive time is newer than the angle between the two sections of a message |
| KrakenCommsReArm | KrakenComms, ArmHolds | "Hold where the column is until something else commands an angle" (`KrakenComms.cpp:538`) | disarming and arming unseen by the thread drives to the old angle |
| KrakenCommsFalseFault | KrakenComms, FaultMeansReferenceLost | "FAULT motor reset detected, position reference lost." (`KrakenComms.cpp:496`) | a reset from before seeding is reported after it |
| FoxgloveServerDead | MCFoxgloveServer, NoneQueuedWhenDead | "before any producer can enqueue into a dead server" (`FoxgloveServer.hpp:85-87`) | a producer that had found its channel still queues |
| as AppLifecycle | AppLifecycle, InterruptStops | "Interrupted, stopping Drivebrain app" (`drivebrain_app.cpp:26`) | `running = true` (line 159) undoes a signal handled during the start |
| as AppLifecycle | AppLifecycle, TrackerExistsForClients | the assertion in `StateTracker::instance` (`StateTracker.cpp:33`) | the server takes messages before the tracker is created |
| as AppLifecycle | AppLifecycle, SingletonsExistForDestructor | the assertions in `instance()` (`MCAPLogger.cpp:142`, `FoxgloveServer.cpp:70`) | an exception in a singleton's constructor leads to a destructor that uses it |
| as AppLifecycle | AppLifecycle, ReaderEndsWithInterface | "runs until the interface is destructed" (`CANComms.hpp:71`) | it never ends: `std::terminate` in the thread's destructor |
| as AppLifecycle | AppLifecycle, FailedRunReturns | `main.cpp`'s handler: log the error, return 1 | `run()` throwing after `drivebrain_app.cpp:104` leaves the camera search joinable: `std::terminate` |
| SlamParked | MCSlam, ParkedCarConfirmsNothing | "so a parked car cannot confirm a landmark by staring at it" (`SlamFrontend.hpp:171-172`) | the shipped baseline is 0 (`config/drivebrain_config.json:89`) and the comparison `>=` |
| PerceptionNearest | MCPerception, NearestColours | "giving each LiDAR cone the color of the nearest placed detection" (`ConeClassifier.hpp:37-38`) | the more confident of two cameras wins, also when its detection is farther |
| OdometryNewer | Odometry, NewerIsIntegrated | "@return false if the sample was not newer than the last one" (`Odometry.hpp:31`) | a sample that arrives faster than the one before it, or after a restart of the sensor, is refused though newer |

The comment at `KrakenComms.hpp:145` ("Zeroes the motor encoder once at startup (wheel assumed
centered)") describes an earlier version: the thread seeds the motor from the column.

## 7. What is left

Done: every part that runs on the car and keeps state of its own, except for the parts of section 5;
proofs of every safety property that a passing run checks.

What would come next: the safety halves of the remaining liveness properties (of `UnpluggedStops`:
a device that is gone leaves no input behind when the reset is over; of `LoopEndEndsProcess`: no
thread that is joined waits for one that has ended), a refinement of Receivers to a lossy channel
as the Foxglove server has it, and the simulator link as a further feed beside InputFeeds' five.
