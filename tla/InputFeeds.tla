----------------------------- MODULE InputFeeds -----------------------------
(***************************************************************************)
(* drivebrain's inputs, each served by threads of its own: the ground      *)
(* speed sensor's socket (OMSComms), the odometry that integrates its      *)
(* samples (Odometry), the joystick (TeleopController), CAN (CANComms),    *)
(* the Ethernet ports and the VectorNav (Receivers).                       *)
(*                                                                         *)
(* They share no variable, and no property below speaks of two of them, so *)
(* how their steps interleave does not matter.  A behaviour is therefore   *)
(* one of a single feed, chosen in the initial state, with the others at   *)
(* rest: what is checked of a feed is what a specification of its own      *)
(* would say, and the states of the feeds add up instead of multiplying.   *)
(***************************************************************************)
EXTENDS Integers, Sequences

CONSTANTS
  MaxFrames, PacketSizes, MaxSamples, MaxDrops, MaxFailures,   \* OMSComms
  Epoch, Ulp, Rates, History, Creep,                           \* Odometry
  MaxInFlight, MaxRestarts, MaxDrifts, MaxTime,
  Positions, MaxPlugs, MaxEvents,                              \* TeleopController
  Known, Incomplete, NoProto, Foreign, Commands,               \* CANComms
  TxLimit, MaxCalls,
  Ports, MaxPackets                                            \* Receivers

ASSUME OMSAssumption ==
  /\ MaxFrames \in Nat \ {0} /\ PacketSizes \subseteq Nat
  /\ MaxSamples \in Nat /\ MaxDrops \in Nat /\ MaxFailures \in Nat
ASSUME OdometryAssumption ==
  /\ Epoch \in Nat /\ Ulp \in Nat \ {0} /\ Rates \subseteq Nat /\ History \in Nat /\ Creep \in Nat
  /\ MaxInFlight \in Nat /\ MaxRestarts \in Nat /\ MaxDrifts \in Nat /\ MaxTime \in Nat
ASSUME TeleopAssumption ==
  0 \in Positions /\ Positions \subseteq Nat /\ MaxPlugs \in Nat /\ MaxEvents \in Nat

ASSUME CANAssumption ==
  /\ Known # {} /\ Incomplete \subseteq Known /\ Known \cap NoProto = {}
  /\ Foreign \cap (Known \cup NoProto) = {}
  /\ TxLimit \in Nat /\ MaxCalls \in Nat
ASSUME ReceiversAssumption == "vn" \notin Ports /\ MaxPackets \in Nat

VARIABLES
  feed,        \* the feed this behaviour is about
  conn, log, got, stream, pos, sampled, origin, packets, good, delivered, here, drops, failures,
  now, sensor, drifts, restarts, inflight, measured, offset, lag, stamp, buffer, updater, reader,
  want, answer, dropped,
  plugged, plugs, trigger, fd, dead, joystick, events, inputs, armed, rested, running, dtor,
  step, cmd, honest,
  table, reading, sending, received, handled, calls, tx, first, canEnd,
  arrived, read, buffered, message, taken, given, broken, io

OMS      == INSTANCE OMSComms
Odom     == INSTANCE Odometry
Joystick == INSTANCE TeleopController
CAN      == INSTANCE CANComms
IO       == INSTANCE Receivers

omsVars  == <<conn, log, got, stream, pos, sampled, origin, packets, good, delivered, here,
              drops, failures>>
odomVars == <<now, sensor, drifts, restarts, inflight, measured, offset, lag, stamp, buffer,
              updater, reader, want, answer, dropped>>
joyVars  == <<plugged, plugs, trigger, fd, dead, joystick, events, inputs, armed, rested,
              running, dtor, step, cmd, honest>>
canVars  == <<table, reading, sending, received, handled, calls, tx, first, canEnd>>
ioVars   == <<arrived, read, buffered, message, taken, given, broken, io>>
vars == <<feed, omsVars, odomVars, joyVars, canVars, ioVars>>

Init ==
  /\ feed \in {"oms", "odometry", "joystick", "can", "io"}
  /\ OMS!Init /\ Odom!Init /\ Joystick!Init /\ CAN!Init /\ IO!Init
  /\ feed # "can" => table = {}          \* a feed at rest needs one initial state
  /\ feed # "io" => read["vn"] = "none"

Rest == UNCHANGED <<feed, omsVars, odomVars, canVars, ioVars>>

Next ==
  \/ feed = "oms" /\ OMS!Next /\ UNCHANGED <<feed, odomVars, joyVars, canVars, ioVars>>
  \/ feed = "odometry" /\ Odom!Next /\ UNCHANGED <<feed, omsVars, joyVars, canVars, ioVars>>
  \/ feed = "joystick" /\ Joystick!Next /\ Rest
  \/ feed = "can" /\ CAN!Next /\ UNCHANGED <<feed, omsVars, odomVars, joyVars, ioVars>>
  \/ feed = "io" /\ IO!Next /\ UNCHANGED <<feed, omsVars, odomVars, joyVars, canVars>>

Spec == Init /\ [][Next]_vars

(* The joystick's thread and the control loop that reads it are scheduled. *)
Fairness ==
  /\ WF_vars(feed = "joystick" /\ Joystick!Joystick /\ Rest)
  /\ WF_vars(feed = "joystick" /\ Joystick!StepChecks /\ Rest)
  /\ WF_vars(feed = "joystick" /\ Joystick!StepLoads /\ Rest)

FairSpec == Spec /\ Fairness

-----------------------------------------------------------------------------
(* The type invariants of the feeds that have one. *)
TypeOK == OMS!TypeOK /\ Odom!TypeOK /\ Joystick!TypeOK

(* Every sample of the speed sensor is delivered at most once and in       *)
(* order, across broken connections and malformed headers; while a         *)
(* connection lasts none sent over it is left out, and what has been read  *)
(* to its end has been delivered; and less than a packet waits in the      *)
(* stream.                                                                 *)
FramesArriveOnce == OMS!FramesArriveOnce

(* A sample is stamped no later than now, and earlier than it was taken    *)
(* only by what the sensor's clock has lost against the host's faster than *)
(* the offset creeps, and by less than one unit of the float.              *)
StampWithinLatency == Odom!StampWithinLatency

(* The odometry's buffer is in the order in which the samples were taken,  *)
(* also when the sensor's clock drifts, rounds or restarts.                *)
BufferInOrder == Odom!BufferInOrder

(* The thread that waits for the pose of a scan does not sleep through the *)
(* sample it needs.                                                        *)
NoLostWakeup == Odom!NoLostWakeup

(* A trigger that was held when the joystick was plugged in does not drive *)
(* the car before it has been released.                                    *)
HeldTriggerDoesNotDrive == Joystick!HeldTriggerDoesNotDrive

(* A joystick that is gone for good leaves a neutral command behind.       *)
UnpluggedStops == Joystick!UnpluggedStops

(* Sending and receiving on CAN share their table of messages without a    *)
(* lock: the process ends by the first sighting of an id that is not in    *)
(* the DBC, or by a message with a signal that has no field, and by        *)
(* nothing else; no command meets the entries that foreign ids leave.      *)
EndsByRaceOrField == CAN!EndsByRaceOrField

(* The Ethernet ports and the VectorNav hand on what arrived, in order,    *)
(* with nothing of an earlier packet in it, until they are told of an      *)
(* error.                                                                  *)
ReceivedAsSent == IO!ReceivedAsSent
=============================================================================
