----------------------------- MODULE KrakenComms -----------------------------
(***************************************************************************)
(* The steering motor's command thread (comms/src/KrakenComms.cpp).        *)
(*                                                                         *)
(* Every tick the thread feeds the motor's enable watchdog, looks for a    *)
(* motor reset, reads the column angle from the state tracker, seeds the   *)
(* motor's position once, and then drives the motor to the commanded angle *)
(* or sets it to neutral.  Meanwhile the control loop commands angles, the *)
(* parameter thread arms, disarms and disables, steering messages arrive   *)
(* (in the two critical sections of StateTracker), and the motor may lose  *)
(* power.                                                                  *)
(*                                                                         *)
(* Angles are reduced to where they come from, the PID and the profile to  *)
(* whether the profile was restarted since the motor was last in neutral.  *)
(***************************************************************************)
EXTENDS Integers

CONSTANTS
  Timeout,      \* _config.steering_timeout_ms
  SeedRetry,    \* seed_retry_period
  ArmSpaced,    \* TRUE: no two changes of arm_steering within one tick of the thread
  MaxTime       \* bound: how far the steady clock runs

ASSUME KrakenAssumption ==
  /\ Timeout \in Nat \ {0} /\ SeedRetry \in Nat \ {0} /\ MaxTime \in Nat
  /\ ArmSpaced \in BOOLEAN

VARIABLES
  now,        \* std::chrono::steady_clock
  \* StateTracker
  recvAt,     \* last_steering_recv_time
  angleAt,    \* time of the message steering_column_angle_deg was computed from
  updated,    \* updated_steering_estimator
  inflight,   \* a steering message is between its two critical sections
  \* set by other threads
  enable,     \* _enable_output
  arm,        \* _arm_steering
  test,       \* _use_test_angle
  angle,      \* _angle_deg: where the commanded angle comes from
  \* the motor
  watchdog,   \* "fed", "lapsing" (no longer fed) or "expired"
  reset,      \* a reset HasResetOccurred has not reported yet
  motor,      \* the last control sent
  target,     \* where the angle it is driven to comes from
  \* the thread
  pc, vehicle, isFresh, seeded, faulted, wasArmed, wasActive, lastSeed,
  \* history
  profile,    \* "restarted" since the motor was last in neutral, or "stale"
  usedAge,    \* age of the column angle of this tick when it was judged
  lost,       \* the motor was reset after it had been seeded
  missed,     \* steering was armed again before the thread saw it disarmed
  settled     \* a whole tick has passed since arm_steering was changed

trackerVars == <<recvAt, angleAt, updated, inflight>>
paramVars   == <<enable, test>>
armVars     == <<arm, missed>>
motorVars   == <<motor, target, profile>>
threadVars  == <<vehicle, isFresh, seeded, faulted, wasArmed, wasActive, lastSeed, usedAge>>
krakenVars == <<now, trackerVars, paramVars, armVars, angle, watchdog, reset, lost, motorVars,
          pc, threadVars, settled>>

NoSnap == [recv |-> 0, at |-> 0, updated |-> FALSE]

KrakenInit ==
  /\ now = 0
  /\ recvAt = 0 /\ angleAt = 0 /\ updated = FALSE /\ inflight = FALSE
  /\ enable = TRUE /\ arm = FALSE /\ test = FALSE /\ angle = "old"
  /\ watchdog = "expired" /\ reset = FALSE /\ lost = FALSE
  /\ motor = "neutral" /\ target = "none" /\ profile = "stale"
  /\ pc = "feed" /\ vehicle = NoSnap /\ isFresh = FALSE /\ usedAge = 0
  /\ seeded = FALSE /\ faulted = FALSE
  /\ wasArmed = FALSE /\ wasActive = FALSE /\ lastSeed = -SeedRetry
  /\ missed = FALSE /\ settled = TRUE

-----------------------------------------------------------------------------
Tick ==
  /\ now < MaxTime
  /\ now' = now + 1
  /\ UNCHANGED <<trackerVars, paramVars, armVars, angle, watchdog, reset, lost, motorVars, pc,
                 threadVars, settled>>

(* A steering message: first its time of arrival, then the column angle. *)
ReceiveSteering ==
  /\ ~inflight /\ inflight' = TRUE
  /\ recvAt' = now
  /\ UNCHANGED <<now, angleAt, updated, paramVars, armVars, angle, watchdog, reset, lost,
                 motorVars, pc, threadVars, settled>>

UpdateSteering ==
  /\ inflight /\ inflight' = FALSE
  /\ angleAt' = recvAt /\ updated' = TRUE
  /\ UNCHANGED <<now, recvAt, paramVars, armVars, angle, watchdog, reset, lost, motorVars, pc,
                 threadVars, settled>>

(* _handle_param_updates: three independent flags.  A rising arm_steering  *)
(* makes every angle commanded so far an old one.                          *)
SetEnable(b) ==
  /\ enable' = b
  /\ UNCHANGED <<now, trackerVars, test, armVars, angle, watchdog, reset, lost, motorVars, pc,
                 threadVars, settled>>

SetArm(b) ==
  /\ b # arm /\ arm' = b
  /\ ArmSpaced => settled /\ pc = "feed"
  /\ settled' = ~ArmSpaced
  /\ angle' = IF b THEN "old" ELSE angle
  /\ missed' = IF b THEN wasArmed ELSE missed
  /\ UNCHANGED <<now, trackerVars, paramVars, watchdog, reset, lost, motorVars, pc, threadVars>>

SetTest(b) ==
  /\ test' = b
  /\ UNCHANGED <<now, trackerVars, enable, armVars, angle, watchdog, reset, lost, motorVars, pc,
                 threadVars, settled>>

(* set_angle, called by the control loop. *)
SetAngle ==
  /\ angle' = "new"
  /\ UNCHANGED <<now, trackerVars, paramVars, armVars, watchdog, reset, lost, motorVars, pc,
                 threadVars, settled>>

(* The motor loses power: its position and its control are gone. *)
MotorResets ==
  /\ ~reset /\ reset' = TRUE
  /\ lost' = (lost \/ seeded)
  /\ motor' = "neutral" /\ target' = "none" /\ profile' = "stale"
  /\ UNCHANGED <<now, trackerVars, paramVars, armVars, angle, watchdog, pc, threadVars, settled>>

(* The motor stops by itself when it is not fed for enable_timeout_ms. *)
WatchdogExpires ==
  /\ watchdog = "lapsing" /\ watchdog' = "expired"
  /\ UNCHANGED <<now, trackerVars, paramVars, armVars, angle, reset, lost, motorVars, pc,
                 threadVars, settled>>

-----------------------------------------------------------------------------
(* Mutated: the watchdog is fed as long as the thread runs. *)
TickFeeds_Always ==
  /\ pc = "feed" /\ pc' = "read"
  /\ watchdog' = "fed"
  /\ faulted' = (faulted \/ (seeded /\ reset))
  /\ reset' = IF seeded /\ ~faulted THEN FALSE ELSE reset
  /\ UNCHANGED <<now, trackerVars, paramVars, armVars, angle, lost, motorVars, vehicle, isFresh,
                 seeded, wasArmed, wasActive, lastSeed, usedAge, settled>>

(* Mutated: the fault is forgotten at the next tick. *)
TickFeeds_Forgets ==
  /\ pc = "feed" /\ pc' = "read"
  /\ watchdog' = IF enable THEN "fed" ELSE IF watchdog = "fed" THEN "lapsing" ELSE watchdog
  /\ faulted' = (seeded /\ reset)
  /\ reset' = IF seeded THEN FALSE ELSE reset
  /\ UNCHANGED <<now, trackerVars, paramVars, armVars, angle, lost, motorVars, vehicle, isFresh,
                 seeded, wasArmed, wasActive, lastSeed, usedAge, settled>>

(* FeedEnable, and HasResetOccurred, which is only asked once the motor is *)
(* seeded and as long as it has not faulted.                               *)
TickFeeds ==
  /\ pc = "feed" /\ pc' = "read"
  /\ watchdog' = IF enable THEN "fed" ELSE IF watchdog = "fed" THEN "lapsing" ELSE watchdog
  /\ faulted' = (faulted \/ (seeded /\ reset))
  /\ reset' = IF seeded /\ ~faulted THEN FALSE ELSE reset
  /\ UNCHANGED <<now, trackerVars, paramVars, armVars, angle, lost, motorVars, vehicle, isFresh,
                 seeded, wasArmed, wasActive, lastSeed, usedAge, settled>>

TickReads ==
  /\ pc = "read" /\ pc' = "seed"
  /\ vehicle' = [recv |-> recvAt, at |-> angleAt, updated |-> updated]
  /\ UNCHANGED <<now, trackerVars, paramVars, armVars, angle, watchdog, reset, lost, motorVars,
                 isFresh, seeded, faulted, wasArmed, wasActive, lastSeed, usedAge, settled>>

(* The age is judged, and the motor seeded if it has to be: SetPosition    *)
(* may or may not be acknowledged.                                         *)
TickSeeds(ack) ==
  /\ pc = "seed" /\ pc' = "drive"
  /\ isFresh' = (vehicle.updated /\ now - vehicle.recv < Timeout)
  /\ usedAge' = now - vehicle.at
  /\ IF ~seeded /\ isFresh' /\ now - lastSeed >= SeedRetry
       THEN seeded' = ack /\ lastSeed' = now
       ELSE UNCHANGED <<seeded, lastSeed>>
  /\ UNCHANGED <<now, trackerVars, paramVars, armVars, angle, watchdog, reset, lost, motorVars,
                 vehicle, faulted, wasArmed, wasActive, settled>>

(* Mutated: the thread still thinks it was driving. *)
EndNeutral_Active ==
  /\ pc' = "feed" /\ vehicle' = NoSnap /\ settled' = TRUE
  /\ motor' = "neutral" /\ target' = "none" /\ profile' = "stale"
  /\ UNCHANGED wasActive

(* The tick ends with SetControl(neutral). *)
EndNeutral ==
  /\ pc' = "feed" /\ vehicle' = NoSnap /\ settled' = TRUE
  /\ motor' = "neutral" /\ target' = "none" /\ profile' = "stale"
  /\ wasActive' = FALSE

(* Mutated: arming does not hold the column where it is. *)
TickArms_NoHold ==
  /\ pc = "drive"
  /\ \/ /\ faulted \/ ~seeded \/ ~isFresh
        /\ EndNeutral
        /\ UNCHANGED <<angle, wasArmed>>
     \/ /\ ~faulted /\ seeded /\ isFresh
        /\ wasArmed' = arm
        /\ UNCHANGED angle
        /\ \/ /\ arm /\ pc' = "command"
              /\ UNCHANGED <<motorVars, vehicle, wasActive, settled>>
           \/ /\ ~arm /\ EndNeutral
  /\ UNCHANGED <<now, trackerVars, paramVars, armVars, watchdog, reset, lost, isFresh, seeded,
                 faulted, lastSeed, usedAge>>

(* Neutral without feedback, without a seeded position or after a fault;   *)
(* otherwise a rising edge of arm_steering commands the column angle.      *)
TickArms ==
  /\ pc = "drive"
  /\ \/ /\ faulted \/ ~seeded \/ ~isFresh
        /\ EndNeutral
        /\ UNCHANGED <<angle, wasArmed>>
     \/ /\ ~faulted /\ seeded /\ isFresh
        /\ wasArmed' = arm
        /\ angle' = IF arm /\ ~wasArmed THEN "hold" ELSE angle
        /\ \/ /\ arm /\ pc' = "command"
              /\ UNCHANGED <<motorVars, vehicle, wasActive, settled>>
           \/ /\ ~arm /\ EndNeutral
  /\ UNCHANGED <<now, trackerVars, paramVars, armVars, watchdog, reset, lost, isFresh, seeded,
                 faulted, lastSeed, usedAge>>

(* The target is read, the profile restarted from the column if the motor  *)
(* was not driven in the tick before, and the motor driven.                *)
TickCommands ==
  /\ pc = "command" /\ pc' = "feed" /\ vehicle' = NoSnap /\ settled' = TRUE
  /\ target' = IF test THEN "test" ELSE angle
  /\ profile' = IF wasActive THEN profile ELSE "restarted"
  /\ motor' = "driving" /\ wasActive' = TRUE
  /\ UNCHANGED <<now, trackerVars, paramVars, armVars, angle, watchdog, reset, lost, isFresh,
                 seeded, faulted, wasArmed, lastSeed, usedAge>>

Thread ==
  \/ TickFeeds \/ TickReads
  \/ \E ack \in BOOLEAN : TickSeeds(ack)
  \/ TickArms \/ TickCommands

KrakenNext ==
  \/ Tick
  \/ ReceiveSteering \/ UpdateSteering
  \/ \E b \in BOOLEAN : SetEnable(b) \/ SetArm(b) \/ SetTest(b)
  \/ SetAngle
  \/ MotorResets \/ WatchdogExpires
  \/ Thread

KrakenSpec == KrakenInit /\ [][KrakenNext]_krakenVars

(* The thread runs as long as the program does, and the watchdog is in the *)
(* motor.                                                                  *)
Fairness == WF_krakenVars(Thread) /\ WF_krakenVars(WatchdogExpires)

KrakenFairSpec == KrakenSpec /\ Fairness

-----------------------------------------------------------------------------
Sources == {"old", "hold", "new"}

(* Type invariant of the steering thread. *)
KrakenTypeOK ==
  /\ now \in Nat /\ recvAt \in Nat /\ angleAt \in Nat
  /\ updated \in BOOLEAN /\ inflight \in BOOLEAN
  /\ enable \in BOOLEAN /\ arm \in BOOLEAN /\ test \in BOOLEAN
  /\ angle \in Sources
  /\ watchdog \in {"fed", "lapsing", "expired"} /\ reset \in BOOLEAN /\ lost \in BOOLEAN
  /\ motor \in {"neutral", "driving"}
  /\ target \in IF motor = "driving" THEN Sources \cup {"test"} ELSE {"none"}
  /\ pc \in {"feed", "read", "seed", "drive", "command"}
  /\ vehicle \in [recv : Nat, at : Nat, updated : BOOLEAN]
  /\ isFresh \in BOOLEAN /\ seeded \in BOOLEAN /\ faulted \in BOOLEAN
  /\ wasArmed \in BOOLEAN /\ wasActive \in BOOLEAN /\ lastSeed \in Int
  /\ profile \in {"restarted", "stale"} /\ usedAge \in Int
  /\ missed \in BOOLEAN /\ settled \in BOOLEAN

(* However the motor came to be in neutral, the profile is restarted from  *)
(* the column before it is driven again: engaging never follows a          *)
(* reference left over from before.  (A motor that lost power is the       *)
(* exception for the one tick in which that is not known yet.)             *)
ResumesFromColumn == motor = "driving" /\ ~lost => profile = "restarted"

(* If the thread saw steering disarmed, then after it is armed the motor   *)
(* is driven to where the column was, or to an angle commanded since.      *)
ObservedArmHolds == motor = "driving" /\ target = "old" => missed

(* A reset after seeding is noticed whatever the other threads do, and     *)
(* leaves the motor in neutral for good.                                   *)
ResetStopsMotor == (seeded /\ reset) ~> [](motor = "neutral")

(* If enable_output stays off the motor's own watchdog stops it, in        *)
(* whatever state the steering is.                                         *)
DisabledMotorStops == <>[]~enable => <>[](watchdog = "expired")

-----------------------------------------------------------------------------
(* What the comment on steering_timeout_ms says: the motor is not driven   *)
(* on a column angle older than that.                                      *)
ColumnAngleIsFresh == motor = "driving" /\ pc = "feed" => usedAge < Timeout

(* What the comment in _run says of arming: hold where the column is until *)
(* something else commands an angle.                                       *)
ArmHolds == motor = "driving" => target # "old"

(* What the message of the fault says: the position reference is lost.     *)
FaultMeansReferenceLost == faulted => lost
=============================================================================
