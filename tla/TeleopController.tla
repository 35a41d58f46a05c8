-------------------------- MODULE TeleopController --------------------------
(***************************************************************************)
(* Driving with a joystick (control/src/TeleopController.cpp): a thread    *)
(* opens the device, reads its events and stores the inputs in atomics,    *)
(* one by one; the control loop steps the controller and loads them, one   *)
(* by one.  Nothing else orders the two threads.                           *)
(*                                                                         *)
(* A trigger is 0 at rest or in its dead zone, and 1 or 2 when pulled; the *)
(* cubic curve, the torque limits and the angle range keep 0 at 0 and the  *)
(* rest above it.                                                          *)
(***************************************************************************)
EXTENDS Integers

CONSTANTS
  Positions,    \* trigger and stick positions after _normalize_trigger, _normalize_axis
  MaxPlugs,     \* bound: how often the device is plugged in
  MaxEvents     \* bound: how many events are read in one connection

VARIABLES
  plugged,     \* the device is there
  plugs,       \* history: how often it was plugged in
  trigger,     \* the positions the driver holds
  fd,          \* _fd: "closed" or "open"
  dead,        \* the open file belongs to a device that was unplugged
  joystick,    \* where the joystick thread is
  events,      \* history: events read in this connection
  inputs,      \* _accel, _brake, _steering
  armed,       \* _accel_armed, _brake_armed
  rested,      \* history: triggers seen at rest in this connection
  running,     \* _running
  dtor,        \* the destructor: "not called", "joining" or "done"
  step,        \* where the control loop is in step_controller
  cmd,         \* the inputs it has loaded
  honest       \* history: each loaded input was armed in the connection it came from

device  == <<plugged, plugs, trigger>>
thrVars == <<fd, dead, joystick, events, inputs, armed, rested>>
vars == <<device, thrVars, running, dtor, step, cmd, honest>>

Triggers == {"accel", "brake"}
Axes == Triggers \cup {"steering"}
Neutral == [a \in Axes |-> 0]

Init ==
  /\ plugged = TRUE /\ plugs = 1 /\ trigger = Neutral
  /\ fd = "closed" /\ dead = FALSE /\ joystick = "top" /\ events = 0
  /\ inputs = Neutral /\ armed = [t \in Triggers |-> FALSE] /\ rested = {}
  /\ running = TRUE /\ dtor = "not called"
  /\ step = "idle" /\ cmd = Neutral /\ honest = TRUE

-----------------------------------------------------------------------------
Unplug ==
  /\ plugged /\ plugged' = FALSE
  /\ dead' = (fd = "open")
  /\ UNCHANGED <<plugs, trigger, fd, joystick, events, inputs, armed, rested, running, dtor, step,
                 cmd, honest>>

Plug ==
  /\ ~plugged /\ plugs < MaxPlugs
  /\ plugged' = TRUE /\ plugs' = plugs + 1
  /\ UNCHANGED <<trigger, thrVars, running, dtor, step, cmd, honest>>

Move(a, v) ==
  /\ trigger' = [trigger EXCEPT ![a] = v]
  /\ UNCHANGED <<plugged, plugs, thrVars, running, dtor, step, cmd, honest>>

-----------------------------------------------------------------------------
(* The top of _run_joystick's loop: leave, or open the device if it is not *)
(* open; a failed open sleeps and tries again.                             *)
OpenDevice ==
  /\ joystick = "top"
  /\ \/ /\ ~running /\ joystick' = "done"
        /\ UNCHANGED <<fd, dead, events, rested>>
     \/ /\ running /\ fd = "closed" /\ plugged
        /\ fd' = "open" /\ dead' = FALSE /\ joystick' = "polling"
        /\ events' = 0 /\ rested' = {}
     \/ /\ running /\ fd = "open" /\ joystick' = "polling"
        /\ UNCHANGED <<fd, dead, events, rested>>
  /\ UNCHANGED <<device, inputs, armed, running, dtor, step, cmd, honest>>

(* Nothing has happened for 500 ms. *)
PollTimesOut ==
  /\ joystick = "polling" /\ ~dead /\ joystick' = "top"
  /\ UNCHANGED <<device, fd, dead, events, inputs, armed, rested, running, dtor, step, cmd, honest>>

(* An event of a trigger: it is armed when it is seen at rest, and counts  *)
(* only once it is armed.  The device reports every axis after it is       *)
(* opened, and then whatever changes.                                      *)
ReadTrigger(t) ==
  /\ joystick = "polling" /\ ~dead /\ events < MaxEvents
  /\ joystick' = "top" /\ events' = events + 1
  /\ LET rest == trigger[t] = 0
     IN  /\ armed' = [armed EXCEPT ![t] = @ \/ rest]
         /\ rested' = IF rest THEN rested \cup {t} ELSE rested
         /\ inputs' = [inputs EXCEPT ![t] = IF armed[t] \/ rest THEN trigger[t] ELSE 0]
  /\ UNCHANGED <<device, fd, dead, running, dtor, step, cmd, honest>>

ReadSteering ==
  /\ joystick = "polling" /\ ~dead /\ events < MaxEvents
  /\ joystick' = "top" /\ events' = events + 1
  /\ inputs' = [inputs EXCEPT !["steering"] = trigger["steering"]]
  /\ UNCHANGED <<device, fd, dead, armed, rested, running, dtor, step, cmd, honest>>

(* Mutated: an error is treated like a timeout. *)
LoseDevice_Ignored ==
  /\ joystick = "polling" /\ joystick' = "top"
  /\ UNCHANGED <<device, fd, dead, events, inputs, armed, rested, running, dtor, step, cmd, honest>>

(* poll or read fails: the file is closed, _fd is -1 ... *)
LoseDevice ==
  /\ joystick = "polling" /\ joystick' = "reset accel"
  /\ fd' = "closed" /\ dead' = FALSE
  /\ UNCHANGED <<device, events, inputs, armed, rested, running, dtor, step, cmd, honest>>

(* ... and _reset_inputs stores five atomics, one after the other. *)
Store(from, to) ==
  /\ joystick = from /\ joystick' = to
  /\ UNCHANGED <<device, fd, dead, events, rested, running, dtor, step, cmd, honest>>

Zero(a) == inputs' = [inputs EXCEPT ![a] = 0] /\ UNCHANGED armed

(* Mutated: the arming is kept. *)
Disarm_Not(t) == UNCHANGED <<armed, inputs>>

Disarm(t) == armed' = [armed EXCEPT ![t] = FALSE] /\ UNCHANGED inputs

ResetInputs ==
  \/ Store("reset accel", "reset brake") /\ Zero("accel")
  \/ Store("reset brake", "reset steering") /\ Zero("brake")
  \/ Store("reset steering", "disarm accel") /\ Zero("steering")
  \/ Store("disarm accel", "disarm brake") /\ Disarm("accel")
  \/ Store("disarm brake", "top") /\ Disarm("brake")

-----------------------------------------------------------------------------
(* step_controller: a closed device gives no torque and no angle; otherwise*)
(* the three inputs are loaded in turn.                                    *)
StepChecks ==
  /\ step = "idle" /\ dtor = "not called"
  /\ cmd' = Neutral /\ honest' = TRUE
  /\ step' = IF fd = "open" THEN "accel" ELSE "idle"
  /\ UNCHANGED <<device, thrVars, running, dtor>>

StepLoads ==
  /\ step \in Axes
  /\ cmd' = [cmd EXCEPT ![step] = inputs[step]]
  /\ honest' = (honest /\ (step \in Triggers /\ inputs[step] # 0 => step \in rested))
  /\ step' = CASE step = "accel" -> "brake"
               [] step = "brake" -> "steering"
               [] step = "steering" -> "idle"
  /\ UNCHANGED <<device, thrVars, running, dtor>>

(* The destructor runs when the loop has ended. *)
Destroy ==
  /\ dtor = "not called" /\ step = "idle"
  /\ dtor' = "joining" /\ running' = FALSE
  /\ UNCHANGED <<device, thrVars, step, cmd, honest>>

JoinJoystick ==
  /\ dtor = "joining" /\ joystick = "done"
  /\ dtor' = "done" /\ fd' = "closed" /\ dead' = FALSE
  /\ UNCHANGED <<device, joystick, events, inputs, armed, rested, running, step, cmd, honest>>

Joystick ==
  \/ OpenDevice \/ PollTimesOut
  \/ \E t \in Triggers : ReadTrigger(t)
  \/ ReadSteering \/ LoseDevice \/ ResetInputs

Next ==
  \/ Unplug \/ Plug
  \/ \E a \in Axes, v \in Positions : Move(a, v)
  \/ Joystick
  \/ StepChecks \/ StepLoads
  \/ Destroy \/ JoinJoystick

Spec == Init /\ [][Next]_vars

-----------------------------------------------------------------------------
(* Type invariant. *)
TypeOK ==
  /\ plugged \in BOOLEAN /\ plugs \in Nat /\ trigger \in [Axes -> Positions]
  /\ fd \in {"closed", "open"} /\ dead \in BOOLEAN
  /\ joystick \in {"top", "polling", "reset accel", "reset brake", "reset steering",
                   "disarm accel", "disarm brake", "done"}
  /\ events \in Nat /\ inputs \in [Axes -> Positions]
  /\ armed \in [Triggers -> BOOLEAN] /\ rested \subseteq Triggers
  /\ running \in BOOLEAN /\ dtor \in {"not called", "joining", "done"}
  /\ step \in Axes \cup {"idle"} /\ cmd \in [Axes -> Positions] /\ honest \in BOOLEAN
  /\ dead => fd = "open"

(* A trigger that is held when the device comes back does not drive the    *)
(* car until it has been released, however the stores of the joystick      *)
(* thread interleave with the loads of a step that began before the device *)
(* was lost.                                                               *)
HeldTriggerDoesNotDrive == honest

(* If the device is gone for good, the controller stops commanding torque  *)
(* and angles.                                                             *)
UnpluggedStops == <>[](~plugged /\ dtor = "not called") => <>[](cmd = Neutral)

=============================================================================
