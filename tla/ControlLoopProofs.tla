-------------------------- MODULE ControlLoopProofs --------------------------
(***************************************************************************)
(* From a client's settings to the steering motor.  First the control      *)
(* loop: the settings a client makes, and the settings the loop acts on,   *)
(* for any number of controllers, any parameter values and any controller  *)
(* outputs.  Then the thread that drives the motor to the angle the loop   *)
(* commands: what it promises when it engages, for any timeout and retry   *)
(* period and however clients, messages and resets fall between its steps. *)
(***************************************************************************)
EXTENDS ControlLoop, KrakenComms, TLAPS

(* What the handler thread carries from its copy of the parameters to the  *)
(* interface.  Only the handler writes the parameters, so that its copy    *)
(* stays what the clients see, and it calls the interface only once the    *)
(* constructor has registered the callback.                                *)
HandlerInv ==
  /\ copy = params
  /\ handler \in {"controller", "swapping", "mode", "enabled"} => ctor = "done"
  /\ handler = "swapping" => copy.index >= 0
  /\ handler = "enabled" /\ params.mode \in MANUAL..TELEOP => mode = params.mode
  /\ told => ctor = "done"

(* What the loop has seen so far in its iteration. *)
IterationInv ==
  /\ ctor # "done" => loop = "not started"
  /\ InIteration => /\ mode \in during.modes
                    /\ enabled \in during.enables
                    /\ active \in during.actives
  /\ loop \in {"command", "enabled", "actuating"} => cmd.mode \in during.modes
  /\ loop \in {"enabled", "actuating"} /\ cmd.mode \notin {AUTONOMOUS, TELEOP}
       => cmd.controller \in during.actives
  /\ loop = "actuating" => TRUE \in during.enables

(* The two halves of TypeOK: the flags, and the rest. *)
Flags == fresh \in BOOLEAN /\ enabled \in BOOLEAN /\ told \in BOOLEAN

Data ==
  /\ seen \in Vehicles
  /\ params \in ParamType /\ copy \in ParamType
  /\ handler \in {"idle", "copied", "controller", "swapping", "mode", "enabled"}
  /\ snap \in [of : Vehicles, valid : BOOLEAN]
  /\ ctor \in {"reading mode", "reading enabled", "registering", "done"}
  /\ mode \in ModeValues \cup {MANUAL} /\ active \in Controllers
  /\ loop \in {"not started", "top", "mode", "command", "enabled", "actuating"}
  /\ cmd \in [mode : ModeValues \cup {MANUAL}, controller : Controllers, valid : BOOLEAN]
  /\ during \in [modes : SUBSET (ModeValues \cup {MANUAL}), enables : SUBSET BOOLEAN,
                 actives : SUBSET Controllers]

LEMMA TypeHalves == TypeOK <=> Flags /\ Data
  BY DEF TypeOK, Flags, Data

IInv == TypeOK /\ HandlerInv /\ IterationInv /\ InterfaceFollowsParams

-----------------------------------------------------------------------------
LEMMA ParamFields == ASSUME NEW p \in ParamType
                     PROVE  p.index \in Requests /\ p.index \in Int
                            /\ p.mode \in ModeValues /\ p.mode \in Int /\ p.enabled \in BOOLEAN
  BY ControllersAssumption, ParamsAssumption DEF ParamType

(* A swap is admitted only on a calm vehicle state. *)
LEMMA AdmittedIsCalm == ASSUME NEW s \in Vehicles, NEW p, NEW n,
                               SwitchStatus(s, p, n) = "NO_ERROR"
                        PROVE  s = "calm"
  BY DEF SwitchStatus, Vehicles

(* The history of an iteration only grows while the iteration lasts. *)
LEMMA NotedGrows ==
  ASSUME TypeOK, IterationInv, Noted, UNCHANGED loopVars, UNCHANGED ctor,
         mode' \in ModeValues \cup {MANUAL}, enabled' \in BOOLEAN, active' \in Controllers
  PROVE  /\ during' \in [modes : SUBSET (ModeValues \cup {MANUAL}), enables : SUBSET BOOLEAN,
                         actives : SUBSET Controllers]
         /\ IterationInv'
<1>1. CASE ~InIteration
  BY <1>1 DEF TypeOK, IterationInv, InIteration, Noted, loopVars
<1>2. CASE InIteration
  <2>1. during' = [modes   |-> during.modes \cup {mode'},
                   enables |-> during.enables \cup {enabled'},
                   actives |-> during.actives \cup {active'}]
    BY <1>2 DEF Noted
  <2>2. /\ during.modes \subseteq ModeValues \cup {MANUAL}
        /\ during.enables \subseteq BOOLEAN
        /\ during.actives \subseteq Controllers
    BY DEF TypeOK
  <2>3. /\ during'.modes = during.modes \cup {mode'}
        /\ during'.enables = during.enables \cup {enabled'}
        /\ during'.actives = during.actives \cup {active'}
    BY <2>1
  <2>4. during' \in [modes : SUBSET (ModeValues \cup {MANUAL}), enables : SUBSET BOOLEAN,
                     actives : SUBSET Controllers]
    BY <2>1, <2>2
  <2>5. IterationInv'
    BY <1>2, <2>3 DEF IterationInv, InIteration, loopVars
  <2> QED BY <2>4, <2>5
<1> QED BY <1>1, <1>2

LEMMA InitIInv == ASSUME Init PROVE IInv
<1>1. 0 \in Controllers
  BY ControllersAssumption DEF Controllers
<1>2. TypeOK
  BY <1>1, ParamsAssumption
  DEF Init, TypeOK, Vehicles, NoState, NoCommand, Nothing, MANUAL
<1>3. HandlerInv /\ IterationInv /\ InterfaceFollowsParams
  BY DEF Init, HandlerInv, IterationInv, InIteration, InterfaceFollowsParams
<1> QED BY <1>2, <1>3 DEF IInv

-----------------------------------------------------------------------------
(* The environment changes only the vehicle state. *)
LEMMA EnvironmentStep ==
  ASSUME IInv, VehicleStale \/ \E v \in Vehicles : VehicleReported(v)
  PROVE  IInv'
<1>1. /\ seen' \in Vehicles /\ fresh' \in BOOLEAN
      /\ UNCHANGED <<handlerVars, ctor, settings, told, loopVars, during>>
  BY DEF IInv, TypeOK, VehicleStale, VehicleReported
<1>2. TypeOK'
  <2>1. Flags /\ Data
    BY TypeHalves DEF IInv
  <2>2. Flags'
    BY <1>1, <2>1, Zenon DEF Flags, settings
  <2>3. Data'
    BY <1>1, <2>1, ZenonT(60) DEF Data, handlerVars, settings, loopVars
  <2> QED BY <2>2, <2>3 DEF TypeOK, Flags, Data
<1>3. HandlerInv' /\ IterationInv' /\ InterfaceFollowsParams'
  BY <1>1 DEF IInv, HandlerInv, IterationInv, InIteration, InterfaceFollowsParams,
              handlerVars, settings, loopVars
<1> QED BY <1>2, <1>3 DEF IInv

LEMMA CtorStep ==
  ASSUME IInv, CtorReadsMode \/ CtorReadsEnabled \/ CtorRegisters
  PROVE  IInv'
<1> USE DEF IInv
<1>1. params.mode \in ModeValues /\ params.enabled \in BOOLEAN
  BY ParamFields DEF TypeOK
<1>2. CASE CtorReadsMode \/ CtorReadsEnabled
  <2>1. /\ UNCHANGED <<envVars, handlerVars, active, told, loopVars>>
        /\ ctor # "done" /\ ctor' \in {"reading enabled", "registering"}
        /\ mode' \in ModeValues \cup {MANUAL} /\ enabled' \in BOOLEAN
        /\ loop = "not started" /\ during' = during
    BY <1>1, <1>2 DEF CtorReadsMode, CtorReadsEnabled, TypeOK, Noted, IterationInv, InIteration
  <2>2. TypeOK'
    BY <2>1 DEF TypeOK, envVars, handlerVars, loopVars
  <2>3. ~told /\ handler \notin {"controller", "swapping", "mode", "enabled"}
    BY <2>1 DEF HandlerInv
  <2>4. HandlerInv' /\ InterfaceFollowsParams'
    BY <2>1, <2>3 DEF HandlerInv, InterfaceFollowsParams, handlerVars
  <2>5. IterationInv'
    BY <2>1 DEF IterationInv, InIteration, loopVars
  <2> QED BY <2>2, <2>4, <2>5
<1>3. CASE CtorRegisters
  <2>1. TypeOK'
    BY <1>3, ZenonT(60) DEF CtorRegisters, TypeOK, envVars, handlerVars, settings
  <2>2. HandlerInv' /\ InterfaceFollowsParams'
    BY <1>3 DEF CtorRegisters, HandlerInv, InterfaceFollowsParams, handlerVars, settings
  <2>3. IterationInv'
    BY <1>3 DEF CtorRegisters, IterationInv, InIteration
  <2> QED BY <2>1, <2>2, <2>3
<1> QED BY <1>2, <1>3

(* The steps of the handler that leave the interface alone. *)
LEMMA ParameterStep ==
  ASSUME IInv, \/ \E p \in ParamType : ChangeParams(p)
               \/ EmitSignal \/ RequestController
  PROVE  IInv'
<1> USE DEF IInv
<1>1. UNCHANGED <<envVars, ctor, settings, told, loopVars, during>>
  BY DEF ChangeParams, EmitSignal, RequestController
<1>2. IterationInv'
  BY <1>1 DEF IterationInv, InIteration, settings, loopVars
<1>3. CASE \E p \in ParamType : ChangeParams(p)
  <2>1. /\ params' = copy' /\ params' \in ParamType /\ handler' = "copied"
        /\ UNCHANGED snap
    BY <1>3 DEF ChangeParams
  <2>2. TypeOK'
    BY <1>1, <2>1, ZenonT(60) DEF TypeOK, envVars, settings, loopVars
  <2>3. HandlerInv' /\ InterfaceFollowsParams'
    BY <1>1, <2>1 DEF HandlerInv, InterfaceFollowsParams, settings
  <2> QED BY <1>2, <2>2, <2>3
<1>4. CASE EmitSignal
  <2>1. TypeOK'
    BY <1>1, <1>4 DEF EmitSignal, TypeOK, envVars, settings, loopVars
  <2>2. HandlerInv' /\ InterfaceFollowsParams'
    BY <1>1, <1>4 DEF EmitSignal, HandlerInv, InterfaceFollowsParams, settings
  <2> QED BY <1>2, <2>1, <2>2
<1>5. CASE RequestController
  <2>1. snap' \in [of : Vehicles, valid : BOOLEAN]
    <3>1. snap' = snap \/ snap' = [of |-> seen, valid |-> fresh]
      BY <1>5 DEF RequestController
    <3>2. [of |-> seen, valid |-> fresh] \in [of : Vehicles, valid : BOOLEAN]
      BY DEF TypeOK
    <3> QED BY <3>1, <3>2 DEF TypeOK
  <2>2. /\ UNCHANGED <<params, copy>>
        /\ handler' \in {"mode", "swapping"} /\ handler = "controller"
        /\ handler' = "swapping" => copy.index >= 0
    BY <1>5 DEF RequestController
  <2>3. TypeOK'
    BY <1>1, <2>1, <2>2, ZenonT(60) DEF TypeOK, envVars, settings, loopVars
  <2>4. HandlerInv' /\ InterfaceFollowsParams'
    BY <1>1, <2>1, <2>2 DEF HandlerInv, InterfaceFollowsParams, settings
  <2> QED BY <1>2, <2>3, <2>4
<1> QED BY <1>3, <1>4, <1>5

(* The steps of the handler that change the interface. *)
LEMMA InterfaceStep ==
  ASSUME IInv, \/ \E previous, next \in Outputs : SwapController(previous, next)
               \/ ApplyMode \/ ApplyEnabled
  PROVE  IInv'
<1> USE DEF IInv
<1>1. /\ UNCHANGED <<envVars, params, copy, ctor, loopVars>> /\ Noted
      /\ copy \in ParamType /\ copy = params
  BY DEF SwapController, ApplyMode, ApplyEnabled, TypeOK, HandlerInv
<1>2. copy.index \in Int /\ copy.mode \in ModeValues /\ copy.mode \in Int
      /\ copy.enabled \in BOOLEAN
  BY <1>1, ParamFields
<1>3. CASE \E previous, next \in Outputs : SwapController(previous, next)
  <2>1. PICK previous \in Outputs, next \in Outputs : SwapController(previous, next)
    BY <1>3
  <2>2. active' = active \/ (active' = copy.index /\ copy.index < NumControllers)
    BY <2>1 DEF SwapController
  <2>3. handler = "swapping" /\ handler' = "mode" /\ UNCHANGED <<mode, enabled, told>>
    BY <2>1 DEF SwapController
  <2>4. active' \in Controllers
    <3>1. copy.index >= 0 /\ active \in Controllers
      BY <2>3 DEF HandlerInv, TypeOK
    <3>2. copy.index < NumControllers => copy.index \in Controllers
      BY ONLY <1>2, <3>1, ControllersAssumption DEF Controllers
    <3> QED BY <2>2, <3>1, <3>2
  <2>5. snap' \in [of : Vehicles, valid : BOOLEAN]
    BY <2>1 DEF SwapController, NoState, Vehicles
  <2>6. /\ during' \in [modes : SUBSET (ModeValues \cup {MANUAL}), enables : SUBSET BOOLEAN,
                        actives : SUBSET Controllers]
        /\ IterationInv'
    BY <1>1, <2>3, <2>4, NotedGrows DEF TypeOK
  <2>7. TypeOK'
    BY <1>1, <2>3, <2>4, <2>5, <2>6, ZenonT(60) DEF TypeOK, envVars, loopVars
  <2>8. HandlerInv' /\ InterfaceFollowsParams'
    BY <1>1, <2>3 DEF HandlerInv, InterfaceFollowsParams
  <2> QED BY <2>6, <2>7, <2>8
<1>4. CASE ApplyMode
  <2>1. /\ handler = "mode" /\ handler' = "enabled"
        /\ UNCHANGED <<snap, enabled, active, told>>
    BY <1>4 DEF ApplyMode
  <2>2. mode' \in ModeValues \cup {MANUAL}
    BY <1>2, <1>4 DEF ApplyMode, TypeOK
  <2>3. params.mode \in MANUAL..TELEOP => mode' = params.mode
    BY <1>1, <1>2, <1>4 DEF ApplyMode, MANUAL, TELEOP
  <2>4. /\ during' \in [modes : SUBSET (ModeValues \cup {MANUAL}), enables : SUBSET BOOLEAN,
                        actives : SUBSET Controllers]
        /\ IterationInv'
    BY <1>1, <2>1, <2>2, NotedGrows DEF TypeOK
  <2>5. TypeOK'
    BY <1>1, <2>1, <2>2, <2>4, ZenonT(60) DEF TypeOK, envVars, loopVars
  <2>6. HandlerInv' /\ InterfaceFollowsParams'
    BY <1>1, <2>1, <2>3 DEF HandlerInv, InterfaceFollowsParams
  <2> QED BY <2>4, <2>5, <2>6
<1>5. CASE ApplyEnabled
  <2>1. /\ handler = "enabled" /\ handler' = "idle"
        /\ enabled' = copy.enabled /\ told'
        /\ UNCHANGED <<snap, mode, active>>
    BY <1>5 DEF ApplyEnabled
  <2>2. /\ during' \in [modes : SUBSET (ModeValues \cup {MANUAL}), enables : SUBSET BOOLEAN,
                        actives : SUBSET Controllers]
        /\ IterationInv'
    BY <1>1, <1>2, <2>1, NotedGrows DEF TypeOK
  <2>3. told' \in BOOLEAN
    BY <1>5 DEF ApplyEnabled
  <2>4. TypeOK'
    BY <1>1, <1>2, <2>1, <2>2, <2>3, ZenonT(60) DEF TypeOK, envVars, loopVars
  <2>5. HandlerInv' /\ InterfaceFollowsParams'
    BY <1>1, <2>1 DEF HandlerInv, InterfaceFollowsParams
  <2> QED BY <2>2, <2>4, <2>5
<1> QED BY <1>3, <1>4, <1>5

LEMMA LoopStep == ASSUME IInv, Loop PROVE IInv'
<1> USE DEF IInv
<1>1. UNCHANGED <<envVars, handlerVars, ctor, settings, told>>
  BY DEF Loop, LoopReadsState, LoopReadsMode, LoopCommands, LoopReadsEnabled, LoopActuates
<1>2. HandlerInv' /\ InterfaceFollowsParams'
  BY <1>1 DEF HandlerInv, InterfaceFollowsParams, handlerVars, settings
<1>3. SUFFICES /\ loop' \in {"top", "mode", "command", "enabled", "actuating"}
               /\ cmd' \in [mode : ModeValues \cup {MANUAL}, controller : Controllers,
                            valid : BOOLEAN]
               /\ during' \in [modes : SUBSET (ModeValues \cup {MANUAL}),
                               enables : SUBSET BOOLEAN, actives : SUBSET Controllers]
               /\ IterationInv'
  <2>1. Flags /\ Data
    BY TypeHalves
  <2>2. Flags'
    BY <1>1, <2>1, Zenon DEF Flags, envVars, settings
  <2>3. Data'
    BY <1>1, <1>3, <2>1 DEF Data, envVars, handlerVars, settings
  <2>4. TypeOK'
    BY <2>2, <2>3 DEF TypeOK, Flags, Data
  <2> QED BY <1>2, <1>3, <2>4
<1>4. ctor' = "done"
  <2>1. loop # "not started"
    BY DEF Loop, LoopReadsState, LoopReadsMode, LoopCommands, LoopReadsEnabled, LoopActuates
  <2> QED BY <1>1, <2>1 DEF IterationInv
<1>5. mode \in ModeValues \cup {MANUAL} /\ enabled \in BOOLEAN /\ active \in Controllers
      /\ fresh \in BOOLEAN
  BY DEF TypeOK
<1>6. CASE LoopReadsState
  <2>1. /\ loop' = "mode" /\ cmd' = [cmd EXCEPT !.valid = fresh]
        /\ during' = [modes |-> {mode}, enables |-> {enabled}, actives |-> {active}]
    BY <1>6 DEF LoopReadsState
  <2>2. IterationInv'
    BY <1>1, <1>4, <2>1 DEF IterationInv, settings
  <2> QED BY <1>5, <2>1, <2>2 DEF TypeOK
<1>7. CASE LoopReadsMode
  <2>1. /\ loop = "mode" /\ loop' = "command" /\ cmd' = [cmd EXCEPT !.mode = mode]
        /\ during' = during
    BY <1>7 DEF LoopReadsMode
  <2>2. cmd'.mode = mode
    BY <2>1 DEF TypeOK
  <2>3. IterationInv'
    BY <1>1, <1>4, <2>1, <2>2 DEF IterationInv, InIteration, settings
  <2> QED BY <1>5, <2>1, <2>3 DEF TypeOK
<1>8. CASE \E valid \in BOOLEAN : LoopCommands(valid)
  <2>1. PICK valid \in BOOLEAN : LoopCommands(valid)
    BY <1>8
  <2>2. /\ loop = "command" /\ loop' = "enabled" /\ during' = during
        /\ cmd' = IF cmd.mode \in {AUTONOMOUS, TELEOP}
                    THEN [cmd EXCEPT !.valid = valid]
                    ELSE [cmd EXCEPT !.controller = active]
    BY <2>1 DEF LoopCommands
  <2>3. cmd' \in [mode : ModeValues \cup {MANUAL}, controller : Controllers, valid : BOOLEAN]
    BY <1>5, <2>2 DEF TypeOK
  <2>4. /\ cmd'.mode = cmd.mode
        /\ cmd.mode \notin {AUTONOMOUS, TELEOP} => cmd'.controller = active
    BY <2>2 DEF TypeOK
  <2>5. IterationInv'
    BY <1>1, <1>4, <2>2, <2>4 DEF IterationInv, InIteration, settings
  <2> QED BY <2>2, <2>3, <2>5 DEF TypeOK
<1>9. ASSUME EndIteration
      PROVE  /\ loop' \in {"top", "mode", "command", "enabled", "actuating"}
             /\ cmd' \in [mode : ModeValues \cup {MANUAL}, controller : Controllers,
                          valid : BOOLEAN]
             /\ during' \in [modes : SUBSET (ModeValues \cup {MANUAL}),
                             enables : SUBSET BOOLEAN, actives : SUBSET Controllers]
             /\ IterationInv'
  <2>1. 0 \in Controllers
    BY ControllersAssumption DEF Controllers
  <2>2. loop' = "top" /\ cmd' = NoCommand /\ during' = Nothing
    BY <1>9 DEF EndIteration
  <2>3. IterationInv'
    BY <1>4, <2>2 DEF IterationInv, InIteration
  <2> QED BY <2>1, <2>2, <2>3 DEF NoCommand, Nothing
<1>10. CASE LoopReadsEnabled
  <2>1. CASE EndIteration
    BY <1>9, <2>1
  <2>2. CASE enabled /\ loop' = "actuating" /\ UNCHANGED <<cmd, during>>
    <3>1. loop = "enabled" /\ enabled = TRUE
      BY <1>5, <1>10, <2>2 DEF LoopReadsEnabled
    <3>2. IterationInv'
      BY <1>1, <1>4, <2>2, <3>1 DEF IterationInv, InIteration, settings
    <3> QED BY <2>2, <3>2 DEF TypeOK
  <2> QED BY <1>10, <2>1, <2>2 DEF LoopReadsEnabled
<1>11. CASE LoopActuates
  BY <1>9, <1>11 DEF LoopActuates
<1> QED BY <1>6, <1>7, <1>8, <1>10, <1>11 DEF Loop

LEMMA NextIInv == ASSUME IInv, [Next]_vars PROVE IInv'
<1>1. CASE Next
  BY <1>1, EnvironmentStep, CtorStep, ParameterStep, InterfaceStep, LoopStep
  DEF Next, Handler
<1>2. CASE UNCHANGED vars
  <2>1. TypeOK'
    <3>1. Flags /\ Data
      BY TypeHalves DEF IInv
    <3>2. Flags'
      BY <1>2, <3>1, Zenon DEF Flags, vars, envVars, settings
    <3>3. Data'
      BY <1>2, <3>1, ZenonT(60) DEF Data, vars, envVars, handlerVars, settings, loopVars
    <3> QED BY <3>2, <3>3 DEF TypeOK, Flags, Data
  <2>2. HandlerInv' /\ IterationInv' /\ InterfaceFollowsParams'
    BY <1>2 DEF IInv, HandlerInv, IterationInv, InIteration, InterfaceFollowsParams,
                vars, handlerVars, settings, loopVars
  <2> QED BY <2>1, <2>2 DEF IInv
<1> QED BY <1>1, <1>2

LEMMA InvariantHolds == Spec => []IInv
  BY InitIInv, NextIInv, PTL DEF Spec

-----------------------------------------------------------------------------
(* The index the manager uses is one of its controllers, whatever integers *)
(* the clients set (TypeOK), for any number of controllers.                *)
THEOREM IndexStaysInRange == Spec => []TypeOK
<1>1. IInv => TypeOK
  BY DEF IInv
<1> QED BY <1>1, InvariantHolds, PTL

(* Once an update has gone through, the interface has the mode and the     *)
(* flag the clients see whenever the handler thread is idle.               *)
THEOREM ParamsReachInterface == Spec => []InterfaceFollowsParams
<1>1. IInv => InterfaceFollowsParams
  BY DEF IInv
<1> QED BY <1>1, InvariantHolds, PTL

(* What is actuated was commanded in a mode, and by a controller, in force *)
(* during the same iteration, in which the flag was set at some time.      *)
THEOREM LoopActuatesCurrent == Spec => []ActuatesCurrentSettings
<1>1. IInv => ActuatesCurrentSettings
  BY DEF IInv, IterationInv, ActuatesCurrentSettings
<1> QED BY <1>1, InvariantHolds, PTL

(* A swap goes to the index the clients see, decided on a vehicle state in *)
(* which the car was slow and the driver off the pedal.                    *)
THEOREM SwapsAreGated == Spec => SwapIsGated
<1>1. ASSUME IInv, Next, active' # active
      PROVE  active' = params.index /\ snap.of = "calm"
  <2>1. PICK previous \in Outputs, next \in Outputs : SwapController(previous, next)
    BY <1>1 DEF Next, VehicleReported, VehicleStale, CtorReadsMode, CtorReadsEnabled,
      CtorRegisters, ChangeParams, Handler, EmitSignal, RequestController, ApplyMode,
      ApplyEnabled, Loop, LoopReadsState, LoopReadsMode, LoopCommands, LoopReadsEnabled,
      LoopActuates, settings
  <2>2. active' = copy.index /\ SwitchStatus(snap.of, previous, next) = "NO_ERROR"
    BY <1>1, <2>1 DEF SwapController
  <2>3. snap.of \in Vehicles /\ copy = params
    BY <1>1 DEF IInv, TypeOK, HandlerInv
  <2> QED BY <2>2, <2>3, AdmittedIsCalm
<1>2. IInv /\ [Next]_vars => [active' # active => active' = params.index /\ snap.of = "calm"]_vars
  BY <1>1
<1> QED BY <1>2, InvariantHolds, PTL DEF Spec, SwapIsGated

-----------------------------------------------------------------------------
(* The steering motor.                                                     *)

(* Engaging is a matter of the thread's own flags: it is at the command    *)
(* only with a seeded motor it saw armed, and wasActive survives a reset   *)
(* of the motor only together with the record that the position is lost.   *)
EngageInv ==
  /\ pc = "command" => seeded /\ wasArmed
  /\ motor = "driving" => wasActive /\ wasArmed
  /\ wasActive => seeded
  /\ wasActive /\ ~lost => profile = "restarted"

(* An angle from before arming is left only if the thread did not see the  *)
(* edge.                                                                   *)
ArmInv ==
  /\ wasArmed /\ angle = "old" => missed
  /\ ObservedArmHolds

SteeringInv == EngageInv /\ ArmInv

-----------------------------------------------------------------------------
LEMMA InitSteeringInv == ASSUME KrakenInit PROVE SteeringInv
  BY DEF KrakenInit, SteeringInv, EngageInv, ArmInv, ObservedArmHolds

(* Time, messages, the watchdog and the flags the invariant leaves out. *)
LEMMA QuietStep ==
  ASSUME SteeringInv,
         \/ Tick \/ ReceiveSteering \/ UpdateSteering \/ WatchdogExpires
         \/ \E b \in BOOLEAN : SetEnable(b) \/ SetTest(b)
         \/ TickFeeds \/ TickReads
  PROVE  SteeringInv'
<1>1. /\ UNCHANGED <<armVars, angle, lost, motorVars, seeded, wasArmed, wasActive>>
      /\ pc' = pc \/ pc' \in {"read", "seed"}
  BY DEF Tick, ReceiveSteering, UpdateSteering, WatchdogExpires, SetEnable, SetTest, TickFeeds,
         TickReads, threadVars
<1> QED
  BY <1>1 DEF SteeringInv, EngageInv, ArmInv, ObservedArmHolds, armVars, motorVars

(* The parameter thread arms or disarms, the control loop commands. *)
LEMMA CommandStep ==
  ASSUME SteeringInv, SetAngle \/ \E b \in BOOLEAN : SetArm(b)
  PROVE  SteeringInv'
<1>1. UNCHANGED <<lost, motorVars, pc, seeded, wasArmed, wasActive>>
  BY DEF SetAngle, SetArm, threadVars
<1>2. EngageInv'
  BY <1>1 DEF SteeringInv, EngageInv, motorVars
<1>3. CASE SetAngle
  BY <1>1, <1>2, <1>3 DEF SetAngle, SteeringInv, ArmInv, ObservedArmHolds, motorVars, armVars
<1>4. CASE SetArm(FALSE)
  BY <1>1, <1>2, <1>4 DEF SetArm, SteeringInv, ArmInv, ObservedArmHolds, motorVars
<1>5. CASE SetArm(TRUE)
  <2>1. missed' = wasArmed
    BY <1>5 DEF SetArm
  <2>2. motor' = "driving" => wasArmed
    BY <1>1 DEF SteeringInv, EngageInv, motorVars
  <2> QED BY <1>1, <1>2, <2>1, <2>2 DEF SteeringInv, ArmInv, ObservedArmHolds
<1> QED BY <1>3, <1>4, <1>5

LEMMA ResetStep == ASSUME SteeringInv, MotorResets PROVE SteeringInv'
<1>1. /\ UNCHANGED <<armVars, angle, pc, seeded, wasArmed, wasActive>>
      /\ motor' = "neutral" /\ (lost' <=> lost \/ seeded)
  BY DEF MotorResets, threadVars
<1> QED
  BY <1>1 DEF SteeringInv, EngageInv, ArmInv, ObservedArmHolds, armVars

LEMMA SeedStep == ASSUME SteeringInv, NEW ack \in BOOLEAN, TickSeeds(ack) PROVE SteeringInv'
<1>1. /\ UNCHANGED <<armVars, angle, lost, motorVars, wasArmed, wasActive>>
      /\ pc' = "drive" /\ (seeded => seeded')
  BY DEF TickSeeds
<1> QED
  BY <1>1 DEF SteeringInv, EngageInv, ArmInv, ObservedArmHolds, armVars, motorVars

LEMMA ArmStep == ASSUME SteeringInv, TickArms PROVE SteeringInv'
<1>1. UNCHANGED <<armVars, lost, seeded>>
  BY DEF TickArms
<1>2. CASE EndNeutral
  <2>1. pc' = "feed" /\ motor' = "neutral" /\ ~wasActive'
    BY <1>2 DEF EndNeutral
  <2>2. wasArmed' /\ angle' = "old" => wasArmed /\ angle = "old"
    BY DEF TickArms
  <2> QED BY <1>1, <2>1, <2>2 DEF SteeringInv, EngageInv, ArmInv, ObservedArmHolds, armVars
<1>3. CASE ~EndNeutral
  <2>1. /\ UNCHANGED motorVars /\ wasActive' = wasActive
        /\ seeded /\ wasArmed'
    BY <1>3 DEF TickArms
  <2>2. angle' = "old" => angle = "old" /\ wasArmed
    BY <1>3 DEF TickArms
  <2>3. EngageInv'
    BY <1>1, <2>1 DEF SteeringInv, EngageInv, motorVars
  <2>4. ArmInv'
    BY <1>1, <2>1, <2>2 DEF SteeringInv, ArmInv, ObservedArmHolds, motorVars, armVars
  <2> QED BY <2>3, <2>4 DEF SteeringInv
<1> QED BY <1>2, <1>3

LEMMA DriveStep == ASSUME SteeringInv, TickCommands PROVE SteeringInv'
<1>1. /\ UNCHANGED <<armVars, angle, lost, seeded, wasArmed>>
      /\ pc = "command" /\ pc' = "feed"
      /\ motor' = "driving" /\ wasActive'
      /\ wasActive => profile' = profile
      /\ ~wasActive => profile' = "restarted"
      /\ target' = "old" => angle = "old"
  BY DEF TickCommands
<1>2. EngageInv'
  BY <1>1 DEF SteeringInv, EngageInv
<1>3. ArmInv'
  BY <1>1 DEF SteeringInv, EngageInv, ArmInv, ObservedArmHolds, armVars
<1> QED BY <1>2, <1>3 DEF SteeringInv

LEMMA NextSteeringInv == ASSUME SteeringInv, [KrakenNext]_krakenVars PROVE SteeringInv'
<1>1. CASE KrakenNext
  BY <1>1, QuietStep, CommandStep, ResetStep, SeedStep, ArmStep, DriveStep DEF KrakenNext, Thread
<1>2. CASE UNCHANGED krakenVars
  BY <1>2 DEF SteeringInv, EngageInv, ArmInv, ObservedArmHolds, krakenVars, armVars, motorVars,
             threadVars
<1> QED BY <1>1, <1>2

LEMMA SteeringInvAlways == KrakenSpec => []SteeringInv
  BY InitSteeringInv, NextSteeringInv, PTL DEF KrakenSpec

-----------------------------------------------------------------------------
(* The two halves of KrakenTypeOK: the flags, and the rest. *)
KrakenFlags ==
  /\ updated \in BOOLEAN /\ inflight \in BOOLEAN
  /\ enable \in BOOLEAN /\ arm \in BOOLEAN /\ test \in BOOLEAN
  /\ reset \in BOOLEAN /\ lost \in BOOLEAN
  /\ isFresh \in BOOLEAN /\ seeded \in BOOLEAN /\ faulted \in BOOLEAN
  /\ wasArmed \in BOOLEAN /\ wasActive \in BOOLEAN
  /\ missed \in BOOLEAN /\ settled \in BOOLEAN

KrakenData ==
  /\ now \in Nat /\ recvAt \in Nat /\ angleAt \in Nat
  /\ angle \in Sources
  /\ watchdog \in {"fed", "lapsing", "expired"}
  /\ motor \in {"neutral", "driving"}
  /\ target \in IF motor = "driving" THEN Sources \cup {"test"} ELSE {"none"}
  /\ pc \in {"feed", "read", "seed", "drive", "command"}
  /\ vehicle \in [recv : Nat, at : Nat, updated : BOOLEAN]
  /\ lastSeed \in Int
  /\ profile \in {"restarted", "stale"} /\ usedAge \in Int

LEMMA KrakenFlagsStep == ASSUME KrakenFlags, [KrakenNext]_krakenVars PROVE KrakenFlags'
  <1> USE DEF KrakenFlags, trackerVars, paramVars, armVars, motorVars, threadVars
  <1>1. CASE Tick
    BY <1>1 DEF Tick
  <1>2. CASE ReceiveSteering
    BY <1>2 DEF ReceiveSteering
  <1>3. CASE UpdateSteering
    BY <1>3, ZenonT(60) DEF UpdateSteering
  <1>4. ASSUME NEW b \in BOOLEAN, SetEnable(b) PROVE KrakenFlags'
    BY <1>4 DEF SetEnable
  <1>5. ASSUME NEW b \in BOOLEAN, SetArm(b) PROVE KrakenFlags'
    BY <1>5 DEF SetArm
  <1>6. ASSUME NEW b \in BOOLEAN, SetTest(b) PROVE KrakenFlags'
    BY <1>6 DEF SetTest
  <1>7. CASE SetAngle
    BY <1>7 DEF SetAngle
  <1>8. CASE MotorResets
    BY <1>8 DEF MotorResets
  <1>9. CASE WatchdogExpires
    BY <1>9 DEF WatchdogExpires
  <1>10. CASE TickFeeds
    BY <1>10, ZenonT(60) DEF TickFeeds
  <1>11. CASE TickReads
    BY <1>11 DEF TickReads
  <1>12. ASSUME NEW ack \in BOOLEAN, TickSeeds(ack) PROVE KrakenFlags'
    BY <1>12 DEF TickSeeds
  <1>13. CASE TickArms
    <2>1. wasArmed' \in BOOLEAN
      BY <1>13 DEF TickArms
    <2>2. wasActive' \in BOOLEAN /\ settled' \in BOOLEAN
      <3>1. CASE EndNeutral
        BY <3>1 DEF EndNeutral
      <3>2. CASE ~EndNeutral
        BY <1>13, <3>2 DEF TickArms
      <3> QED BY <3>1, <3>2
    <2>3. UNCHANGED <<trackerVars, paramVars, armVars, reset, lost, isFresh, seeded, faulted>>
      BY <1>13 DEF TickArms
    <2> QED BY <2>1, <2>2, <2>3
  <1>14. CASE TickCommands
    BY <1>14 DEF TickCommands
  <1>15. CASE UNCHANGED krakenVars
    BY <1>15 DEF krakenVars
  <1> QED
    BY <1>1, <1>2, <1>3, <1>4, <1>5, <1>6, <1>7, <1>8, <1>9, <1>10, <1>11, <1>12, <1>13, <1>14,
       <1>15 DEF KrakenNext, Thread

LEMMA KrakenDataStep == ASSUME KrakenFlags, KrakenData, [KrakenNext]_krakenVars PROVE KrakenData'
  <1> USE DEF KrakenData, trackerVars, paramVars, armVars, motorVars, threadVars
  <1>1. CASE Tick
    BY <1>1 DEF Tick
  <1>2. CASE ReceiveSteering
    BY <1>2 DEF ReceiveSteering
  <1>3. CASE UpdateSteering
    BY <1>3 DEF UpdateSteering
  <1>4. ASSUME NEW b \in BOOLEAN, SetEnable(b) \/ SetTest(b) PROVE KrakenData'
    BY <1>4 DEF SetEnable, SetTest
  <1>5. ASSUME NEW b \in BOOLEAN, SetArm(b) PROVE KrakenData'
    BY <1>5 DEF SetArm, Sources
  <1>6. CASE SetAngle
    BY <1>6 DEF SetAngle, Sources
  <1>7. CASE MotorResets
    BY <1>7 DEF MotorResets
  <1>8. CASE WatchdogExpires
    BY <1>8 DEF WatchdogExpires
  <1>9. CASE TickFeeds
    BY <1>9 DEF TickFeeds
  <1>10. CASE TickReads
    <2>1. vehicle' \in [recv : Nat, at : Nat, updated : BOOLEAN]
      BY <1>10 DEF TickReads, KrakenFlags
    <2> QED BY <1>10, <2>1 DEF TickReads
  <1>11. ASSUME NEW ack \in BOOLEAN, TickSeeds(ack) PROVE KrakenData'
    <2>1. vehicle.recv \in Nat /\ vehicle.at \in Nat
      OBVIOUS
    <2>2. usedAge' \in Int
      BY <1>11, <2>1 DEF TickSeeds
    <2>3. lastSeed' \in Int
      BY <1>11 DEF TickSeeds
    <2> QED BY <1>11, <2>2, <2>3 DEF TickSeeds
  <1>12. CASE TickArms
    <2>1. angle' \in Sources
      BY <1>12 DEF TickArms, Sources
    <2>2. NoSnap \in [recv : Nat, at : Nat, updated : BOOLEAN]
      BY DEF NoSnap
    <2>3. CASE EndNeutral
      BY <1>12, <2>1, <2>2, <2>3 DEF TickArms, EndNeutral
    <2>4. CASE ~EndNeutral
      BY <1>12, <2>1, <2>4 DEF TickArms
    <2> QED BY <2>3, <2>4
  <1>13. CASE TickCommands
    <2>1. NoSnap \in [recv : Nat, at : Nat, updated : BOOLEAN]
      BY DEF NoSnap
    <2>2. target' \in Sources \cup {"test"}
      BY <1>13 DEF TickCommands
    <2> QED BY <1>13, <2>1, <2>2 DEF TickCommands
  <1>14. CASE UNCHANGED krakenVars
    BY <1>14 DEF krakenVars
  <1> QED
    BY <1>1, <1>2, <1>3, <1>4, <1>5, <1>6, <1>7, <1>8, <1>9, <1>10, <1>11, <1>12, <1>13, <1>14
    DEF KrakenNext, Thread

(* The steering thread, the tracker's fields and the motor keep their      *)
(* types; a motor that is not driven has no target (KrakenTypeOK).               *)
THEOREM KrakenTypeCorrect == KrakenSpec => []KrakenTypeOK
<1>1. ASSUME KrakenInit PROVE KrakenFlags /\ KrakenData
  <2>1. KrakenFlags
    BY <1>1 DEF KrakenInit, KrakenFlags
  <2>2. NoSnap \in [recv : Nat, at : Nat, updated : BOOLEAN]
    BY DEF NoSnap
  <2>3. KrakenData
    BY <1>1, <2>2, KrakenAssumption DEF KrakenInit, KrakenData, Sources
  <2> QED BY <2>1, <2>3
<1>2. KrakenFlags /\ KrakenData /\ [KrakenNext]_krakenVars => (KrakenFlags /\ KrakenData)'
  BY KrakenFlagsStep, KrakenDataStep
<1>3. KrakenFlags /\ KrakenData => KrakenTypeOK
  BY DEF KrakenFlags, KrakenData, KrakenTypeOK
<1> QED BY <1>1, <1>2, <1>3, PTL DEF KrakenSpec

(* However the motor came to be in neutral, the profile is restarted from  *)
(* the column before the motor is driven again.                            *)
THEOREM EngagesFromColumn == KrakenSpec => []ResumesFromColumn
<1>1. SteeringInv => ResumesFromColumn
  BY DEF SteeringInv, EngageInv, ResumesFromColumn
<1> QED BY <1>1, SteeringInvAlways, PTL

(* A motor that is driven to an angle from before it was armed was armed   *)
(* again behind the thread's back: an edge the thread sees holds the       *)
(* column.                                                                 *)
THEOREM SeenArmHolds == KrakenSpec => []ObservedArmHolds
<1>1. SteeringInv => ObservedArmHolds
  BY DEF SteeringInv, ArmInv
<1> QED BY <1>1, SteeringInvAlways, PTL

-----------------------------------------------------------------------------
(* The safety half of ResetStopsMotor.  A reset of a seeded motor stays to *)
(* be noticed until it is reported as a fault; the fault is never taken    *)
(* back; and a motor in neutral is not driven again after it.              *)
FaultStops ==
  [][/\ seeded /\ reset => seeded' /\ (reset' \/ faulted')
     /\ faulted => faulted' /\ (motor = "neutral" => motor' = "neutral")]_krakenVars

(* A thread that has reported the fault does not come to the command, and  *)
(* has the motor in neutral when its tick is over.                         *)
FaultInv == faulted => pc # "command" /\ (pc = "feed" => motor = "neutral")

LEMMA FaultStep == ASSUME FaultInv, [KrakenNext]_krakenVars
                   PROVE  /\ FaultInv'
                          /\ seeded /\ reset => seeded' /\ (reset' \/ faulted')
                          /\ faulted => faulted' /\ (motor = "neutral" => motor' = "neutral")
  <1> DEFINE Goal == /\ FaultInv'
                     /\ seeded /\ reset => seeded' /\ (reset' \/ faulted')
                     /\ faulted => faulted' /\ (motor = "neutral" => motor' = "neutral")
  <1> USE DEF FaultInv
  <1>1. CASE UNCHANGED <<seeded, reset, faulted, motor, pc>>
    BY <1>1
  <1>2. CASE \/ Tick \/ ReceiveSteering \/ UpdateSteering \/ WatchdogExpires \/ SetAngle
             \/ \E b \in BOOLEAN : SetEnable(b) \/ SetArm(b) \/ SetTest(b)
    BY <1>1, <1>2 DEF Tick, ReceiveSteering, UpdateSteering, WatchdogExpires, SetAngle, SetEnable,
                      SetArm, SetTest, motorVars, threadVars
  <1>3. CASE MotorResets
    BY <1>3 DEF MotorResets, threadVars
  <1>4. CASE TickFeeds
    <2>1. pc' = "read" /\ motor' = motor /\ seeded' = seeded
      BY <1>4 DEF TickFeeds, motorVars
    <2>2. faulted' <=> faulted \/ (seeded /\ reset)
      BY <1>4 DEF TickFeeds
    <2> QED BY <2>1, <2>2
  <1>5. CASE TickReads
    BY <1>5 DEF TickReads, motorVars
  <1>6. ASSUME NEW ack \in BOOLEAN, TickSeeds(ack) PROVE Goal
    <2>1. /\ pc' = "drive" /\ UNCHANGED <<reset, faulted, motor>>
          /\ seeded => seeded'
      BY <1>6 DEF TickSeeds, motorVars
    <2> QED BY <2>1
  <1>7. CASE TickArms
    <2>1. UNCHANGED <<reset, seeded, faulted>> /\ pc = "drive"
      BY <1>7 DEF TickArms
    <2>2. CASE EndNeutral
      BY <2>1, <2>2 DEF EndNeutral
    <2>3. CASE ~EndNeutral
      BY <1>7, <2>1, <2>3 DEF TickArms, motorVars
    <2> QED BY <2>2, <2>3
  <1>8. CASE TickCommands
    BY <1>8 DEF TickCommands
  <1>9. CASE UNCHANGED krakenVars
    BY <1>1, <1>9 DEF krakenVars, motorVars, threadVars
  <1> QED BY <1>2, <1>3, <1>4, <1>5, <1>6, <1>7, <1>8, <1>9 DEF KrakenNext, Thread

(* A reset of the seeded motor is not overlooked, and after the fault it   *)
(* leads to the motor is not driven again, whatever the car's other        *)
(* threads command (_run, is_motor_faulted).                   *)
THEOREM FaultIsFinal == KrakenSpec => FaultStops
<1>1. KrakenInit => FaultInv
  BY DEF KrakenInit, FaultInv
<1>2. FaultInv /\ [KrakenNext]_krakenVars => FaultInv'
  BY FaultStep
<1>3. FaultInv /\ [KrakenNext]_krakenVars =>
        [/\ seeded /\ reset => seeded' /\ (reset' \/ faulted')
         /\ faulted => faulted' /\ (motor = "neutral" => motor' = "neutral")]_krakenVars
  BY FaultStep
<1> QED BY <1>1, <1>2, <1>3, PTL DEF KrakenSpec, FaultStops

(* When the thread is between two ticks after the fault, the motor is in   *)
(* neutral.                                                                *)
THEOREM FaultLeavesNeutral == KrakenSpec => []FaultInv
<1>1. KrakenInit => FaultInv
  BY DEF KrakenInit, FaultInv
<1>2. FaultInv /\ [KrakenNext]_krakenVars => FaultInv'
  BY FaultStep
<1> QED BY <1>1, <1>2, PTL DEF KrakenSpec
=============================================================================
