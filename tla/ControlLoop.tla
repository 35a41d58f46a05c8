----------------------------- MODULE ControlLoop -----------------------------
(***************************************************************************)
(* Who decides what reaches the drivetrain (app/src/drivebrain_app.cpp,    *)
(* core/src/DrivebrainControllerInterface.cpp, ControllerManager.tpp).     *)
(*                                                                         *)
(* The control loop, a thread of its own, reads in turn the vehicle state, *)
(* the drive mode, the active controller and the enable flag, and then     *)
(* actuates.  The Foxglove server's handler thread applies parameter       *)
(* changes made by a client: it may swap the controller, then sets the     *)
(* mode, then the flag.  Nothing is held across either sequence.           *)
(*                                                                         *)
(* Whether a command is valid is the tracker's business (StateTracker for  *)
(* the time stamps): here it may turn out either way.  A controller output *)
(* is reduced to what the swap gate tells apart.                           *)
(***************************************************************************)
EXTENDS Integers

CONSTANTS
  NumControllers,   \* constants::NUM_DRIVERED_CONTROLLERS
  Requests,         \* what clients set the parameter controller_index to
  ModeValues,       \* what clients set the parameter drive_mode to
  InitialParams,    \* the config file: a record of the three parameters
  Outputs           \* what step_controller may return

(* enum DriveMode *)
MANUAL == 0
AUTONOMOUS == 1
TELEOP == 2

Controllers == 0..(NumControllers - 1)
ParamType == [index : Requests, mode : ModeValues, enabled : BOOLEAN]
OutputType == [kind : {"speed", "torque", "none"}, rpmHigh : BOOLEAN, torqueHigh : BOOLEAN]

ASSUME ControllersAssumption == NumControllers \in Nat \ {0} /\ Requests \subseteq Int
ASSUME ParamsAssumption == ModeValues \subseteq Int /\ InitialParams \in ParamType
ASSUME OutputsAssumption == Outputs \subseteq OutputType

VARIABLES
  \* the environment
  seen,      \* the tracker's copy of the vehicle state: "calm", "moving" (the wheels
             \* turn too fast) or "pedal" (the driver accelerates)
  fresh,     \* whether that copy is still valid
  \* FoxgloveServer and its handler thread
  params,    \* _foxglove_params_map
  handler,   \* where the handler thread is
  copy,      \* param_copy
  snap,      \* the vehicle state _request_controller_change works on
  \* DrivebrainControllerInterface and ControllerManager
  ctor,      \* where the constructor of the interface is
  mode,      \* _drive_mode
  enabled,   \* _enabled
  active,    \* _current_controller_index
  told,      \* history: an update has gone through since the callback was registered
  \* the control loop
  loop,      \* where the loop is
  cmd,       \* the command of this iteration
  during     \* history: the settings that held at some time during this iteration

envVars     == <<seen, fresh>>
handlerVars == <<params, handler, copy, snap>>
settings    == <<mode, enabled, active>>
loopVars    == <<loop, cmd>>
vars == <<envVars, handlerVars, ctor, settings, told, loopVars, during>>

Vehicles == {"calm", "moving", "pedal"}
NoState == [of |-> "calm", valid |-> FALSE]
NoCommand == [mode |-> MANUAL, controller |-> 0, valid |-> FALSE]
Nothing == [modes |-> {}, enables |-> {}, actives |-> {}]

Init ==
  /\ seen = "calm" /\ fresh = FALSE
  /\ params = InitialParams /\ copy = InitialParams
  /\ handler = "idle" /\ snap = NoState
  /\ ctor = "reading mode"
  /\ mode = MANUAL /\ enabled = FALSE /\ active = 0
  /\ told = FALSE
  /\ loop = "not started" /\ cmd = NoCommand
  /\ during = Nothing

InIteration == loop \notin {"not started", "top"}

(* What an action of another thread adds to the history of the iteration.  *)
Noted ==
  during' = IF InIteration
              THEN [modes   |-> during.modes \cup {mode'},
                    enables |-> during.enables \cup {enabled'},
                    actives |-> during.actives \cup {active'}]
              ELSE during

-----------------------------------------------------------------------------
(* A message reports what the car and the driver do ... *)
VehicleReported(v) ==
  /\ seen' = v /\ fresh' = TRUE
  /\ UNCHANGED <<handlerVars, ctor, settings, told, loopVars, during>>

(* ... or none has come for longer than the tracker allows. *)
VehicleStale ==
  /\ fresh' = FALSE
  /\ UNCHANGED <<seen, handlerVars, ctor, settings, told, loopVars, during>>

-----------------------------------------------------------------------------
(* The constructor of DrivebrainControllerInterface reads two parameters   *)
(* and then registers its callback; the server is already serving clients. *)
CtorReadsMode ==
  /\ ctor = "reading mode" /\ ctor' = "reading enabled"
  /\ mode' = params.mode
  /\ UNCHANGED <<envVars, handlerVars, enabled, active, told, loopVars>>
  /\ Noted

CtorReadsEnabled ==
  /\ ctor = "reading enabled" /\ ctor' = "registering"
  /\ enabled' = params.enabled
  /\ UNCHANGED <<envVars, handlerVars, mode, active, told, loopVars>>
  /\ Noted

CtorRegisters ==
  /\ ctor = "registering" /\ ctor' = "done"
  /\ loop' = "top"
  /\ UNCHANGED <<envVars, handlerVars, settings, told, cmd, during>>

-----------------------------------------------------------------------------
(* parameterChangeHandler: one client message changes any of the           *)
(* parameters, under the parameter mutex, and copies the whole map.        *)
ChangeParams(p) ==
  /\ handler = "idle" /\ handler' = "copied"
  /\ params' = p /\ copy' = p
  /\ UNCHANGED <<envVars, snap, ctor, settings, told, loopVars, during>>

(* The signal calls the slots that are connected when it is emitted. *)
EmitSignal ==
  /\ handler = "copied"
  /\ handler' = IF ctor = "done" THEN "controller" ELSE "idle"
  /\ UNCHANGED <<envVars, params, copy, snap, ctor, settings, told, loopVars, during>>

(* _request_controller_change, called for every update of any parameter.   *)
(* The validity of the vehicle state is not looked at.                     *)
RequestController ==
  /\ handler = "controller"
  /\ \/ /\ copy.index = active \/ copy.index < 0
        /\ handler' = "mode"
        /\ UNCHANGED snap
     \/ /\ copy.index # active /\ copy.index >= 0
        /\ handler' = "swapping"
        /\ snap' = [of |-> seen, valid |-> fresh]
  /\ UNCHANGED <<envVars, params, copy, ctor, settings, told, loopVars, during>>

(* verify_controller_output *)
OutputStatus(o) ==
  CASE o.kind = "speed" /\ o.rpmHigh        -> "ERROR_OUTPUT_EXCEEDS_PHYS_LIMITS"
    [] o.kind = "speed" /\ ~o.rpmHigh /\ o.torqueHigh -> "ERROR_TORQUE_TOO_HIGH"
    [] o.kind = "torque" /\ o.torqueHigh    -> "ERROR_TORQUE_TOO_HIGH"
    [] o.kind = "none"                      -> "ERROR_CONTROLLER_NO_TORQUE_OR_SPEED_OUTPUT"
    [] OTHER                                -> "NO_ERROR"

(* Mutated: the pedal is not looked at. *)
SwitchStatus_AnyPedal(state, previous, next) ==
  CASE state = "moving"                     -> "ERROR_SPEED_TOO_HIGH"
    [] OutputStatus(next) # "NO_ERROR" /\ state # "moving" -> OutputStatus(next)
    [] OTHER                                -> OutputStatus(previous)

(* _can_switch_controller *)
SwitchStatus(state, previous, next) ==
  CASE state = "moving"                     -> "ERROR_SPEED_TOO_HIGH"
    [] state = "pedal"                      -> "ERROR_DRIVER_ON_PEDAL"
    [] OutputStatus(next) # "NO_ERROR" /\ state = "calm" -> OutputStatus(next)
    [] OTHER                                -> OutputStatus(previous)

(* swap_active_controller: steps both controllers and judges the outputs.  *)
SwapController(previous, next) ==
  /\ handler = "swapping" /\ handler' = "mode"
  /\ snap' = NoState
  /\ active' = IF /\ copy.index < NumControllers
                  /\ SwitchStatus(snap.of, previous, next) = "NO_ERROR"
                 THEN copy.index ELSE active
  /\ UNCHANGED <<envVars, params, copy, ctor, mode, enabled, told, loopVars>>
  /\ Noted

ApplyMode ==
  /\ handler = "mode" /\ handler' = "enabled"
  /\ mode' = IF copy.mode < MANUAL \/ copy.mode > TELEOP THEN mode ELSE copy.mode
  /\ UNCHANGED <<envVars, params, copy, snap, ctor, enabled, active, told, loopVars>>
  /\ Noted

(* Mutated: a rejected mode ends the update. *)
ApplyEnabled_AfterGoodMode ==
  /\ handler = "enabled" /\ handler' = "idle"
  /\ enabled' = IF copy.mode < MANUAL \/ copy.mode > TELEOP THEN enabled ELSE copy.enabled
  /\ told' = TRUE
  /\ UNCHANGED <<envVars, params, copy, snap, ctor, mode, active, loopVars>>
  /\ Noted

ApplyEnabled ==
  /\ handler = "enabled" /\ handler' = "idle"
  /\ enabled' = copy.enabled
  /\ told' = TRUE
  /\ UNCHANGED <<envVars, params, copy, snap, ctor, mode, active, loopVars>>
  /\ Noted

-----------------------------------------------------------------------------
(* One iteration of _loop. *)
LoopReadsState ==
  /\ loop = "top" /\ loop' = "mode"
  /\ cmd' = [cmd EXCEPT !.valid = fresh]
  /\ during' = [modes |-> {mode}, enables |-> {enabled}, actives |-> {active}]
  /\ UNCHANGED <<envVars, handlerVars, ctor, settings, told>>

LoopReadsMode ==
  /\ loop = "mode" /\ loop' = "command"
  /\ cmd' = [cmd EXCEPT !.mode = mode]
  /\ UNCHANGED <<envVars, handlerVars, ctor, settings, told, during>>

(* step_active_controller with the state read above; or the command and    *)
(* the validity of the autonomy stack, or of the teleop client.  Any mode  *)
(* but the two is MANUAL.  set_previous_control_output follows.            *)
LoopCommands(valid) ==
  /\ loop = "command" /\ loop' = "enabled"
  /\ cmd' = IF cmd.mode \in {AUTONOMOUS, TELEOP}
               THEN [cmd EXCEPT !.valid = valid]
               ELSE [cmd EXCEPT !.controller = active]
  /\ UNCHANGED <<envVars, handlerVars, ctor, settings, told, during>>

(* The command goes out of scope with the iteration. *)
EndIteration ==
  /\ loop' = "top"
  /\ cmd' = NoCommand /\ during' = Nothing

(* Mutated: the flag is not looked at. *)
LoopReadsEnabled_Ignored ==
  /\ loop = "enabled"
  /\ \/ cmd.valid /\ loop' = "actuating" /\ UNCHANGED <<cmd, during>>
     \/ ~cmd.valid /\ EndIteration
  /\ UNCHANGED <<envVars, handlerVars, ctor, settings, told>>

LoopReadsEnabled ==
  /\ loop = "enabled"
  /\ \/ cmd.valid /\ enabled /\ loop' = "actuating" /\ UNCHANGED <<cmd, during>>
     \/ ~(cmd.valid /\ enabled) /\ EndIteration
  /\ UNCHANGED <<envVars, handlerVars, ctor, settings, told>>

(* _actuate *)
LoopActuates ==
  /\ loop = "actuating"
  /\ EndIteration
  /\ UNCHANGED <<envVars, handlerVars, ctor, settings, told>>

Handler ==
  \/ EmitSignal \/ RequestController \/ ApplyMode \/ ApplyEnabled
  \/ \E previous, next \in Outputs : SwapController(previous, next)
Loop ==
  \/ LoopReadsState \/ LoopReadsMode
  \/ \E valid \in BOOLEAN : LoopCommands(valid)
  \/ LoopReadsEnabled \/ LoopActuates

Next ==
  \/ \E v \in Vehicles : VehicleReported(v)
  \/ VehicleStale
  \/ CtorReadsMode \/ CtorReadsEnabled \/ CtorRegisters
  \/ \E p \in ParamType : ChangeParams(p)
  \/ Handler \/ Loop

Spec == Init /\ [][Next]_vars

-----------------------------------------------------------------------------
(* Type invariant.  The index the manager uses is one of its controllers,  *)
(* whatever integer a client sets the parameter to.                        *)
TypeOK ==
  /\ seen \in Vehicles /\ fresh \in BOOLEAN
  /\ params \in ParamType /\ copy \in ParamType
  /\ handler \in {"idle", "copied", "controller", "swapping", "mode", "enabled"}
  /\ snap \in [of : Vehicles, valid : BOOLEAN]
  /\ ctor \in {"reading mode", "reading enabled", "registering", "done"}
  /\ mode \in ModeValues \cup {MANUAL} /\ enabled \in BOOLEAN
  /\ active \in Controllers
  /\ told \in BOOLEAN
  /\ loop \in {"not started", "top", "mode", "command", "enabled", "actuating"}
  /\ cmd \in [mode : ModeValues \cup {MANUAL}, controller : Controllers, valid : BOOLEAN]
  /\ during \in [modes : SUBSET (ModeValues \cup {MANUAL}), enables : SUBSET BOOLEAN,
                 actives : SUBSET Controllers]

(* Once an update has gone through, the interface has the mode and the     *)
(* flag the clients see whenever the handler is idle: although they are    *)
(* applied one after the other, from a copy, outside the mutex.            *)
InterfaceFollowsParams ==
  told /\ handler = "idle" =>
    /\ enabled = params.enabled
    /\ params.mode \in MANUAL..TELEOP => mode = params.mode

(* A command that is actuated was computed for a mode, and by a controller,*)
(* that was in force during that same iteration, and the flag was set at   *)
(* some time during it: no setting is acted on for longer than the         *)
(* iteration in which it was withdrawn.                                    *)
ActuatesCurrentSettings ==
  loop = "actuating" =>
    /\ cmd.mode \in during.modes
    /\ cmd.mode \notin {AUTONOMOUS, TELEOP} => cmd.controller \in during.actives
    /\ TRUE \in during.enables

(* The controller changes only to the index the clients see, and only on a *)
(* state in which the car was slow and the driver off the pedal: although  *)
(* the state is read, and the controllers stepped, before the change, and  *)
(* a rejected request is tried again with every later update.              *)
SwapIsGated ==
  [][active' # active => active' = params.index /\ snap.of = "calm"]_vars

-----------------------------------------------------------------------------
(* What the comments on register_param_callback say: the interface learns  *)
(* of every update.                                                        *)
InterfaceLearnsEveryUpdate ==
  ctor = "done" /\ handler = "idle" => enabled = params.enabled

(* What core/README.md asks of controllers, and the comment on             *)
(* _max_switch_rpm of the swap: the inputs a swap is decided on are recent.*)
SwapUsesFreshState == [][active' # active => snap.valid]_vars
=============================================================================
