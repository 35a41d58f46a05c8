---------------------------- MODULE AppLifecycle ----------------------------
(***************************************************************************)
(* Start and shutdown of the process (app/src/drivebrain_app.cpp run and   *)
(* destructor, app/src/main.cpp): the main thread creates the singletons,  *)
(* starts the drivers' threads, a thread that looks for cameras, the       *)
(* autonomy thread, the io_context thread and the control loop, waits for  *)
(* the loop, joins some of the threads and destroys the logging singletons *)
(* and the drivers.  Meanwhile the threads use the singletons, Foxglove    *)
(* clients send teleop messages, and SIGINT or SIGTERM may arrive.         *)
(*                                                                         *)
(* instance() asserts that its singleton exists.  The release build leaves *)
(* assertions out, so a call on a singleton that is not there is undefined *)
(* behaviour: the process crashes or carries on.                           *)
(*                                                                         *)
(* The thread "kraken" also stands for the lidar's and the cameras': like  *)
(* the steering motor's they are ended by the destructors of members.      *)
(***************************************************************************)
EXTENDS Naturals, Sequences

VARIABLES
  pc,          \* where the main thread is
  failed,      \* run() has left by an exception
  singleton,   \* the singletons' _s_instance
  running,     \* the flag the signal handler clears
  interrupted, \* history: when a signal was handled
  flag,        \* Autonomy::_running, KrakenComms::_running, the io_context's state
  thread,      \* the life of each thread the main thread starts
  at,          \* how far each thread is in the calls of its current iteration
  ended,       \* how the process ended
  missing      \* history: the singletons each caller did not find

vars == <<pc, failed, singleton, running, interrupted, flag, thread, at, ended, missing>>

Singletons == {"logger", "server", "tracker"}
Threads == {"loop", "io", "autonomy", "kraken", "can"}
Joined == {"loop", "io", "autonomy"}     \* joined before the singletons go

Spawned == Threads \cup {"cameras"}      \* "cameras" calls no singleton
Callers == Threads \cup {"main", "client"}

(* The singletons an iteration of each thread calls, in order. *)
Uses == [loop     |-> <<"tracker", "logger", "server">>,
         io       |-> <<"logger", "server", "tracker">>,
         autonomy |-> <<"tracker", "logger", "server">>,
         kraken   |-> <<"tracker", "logger", "server">>,
         can      |-> <<"logger", "server", "tracker">>]

Init ==
  /\ pc = "create logger" /\ failed = FALSE
  /\ singleton = [s \in Singletons |-> "none"]
  /\ running = TRUE /\ interrupted = "no"
  /\ flag = [autonomy |-> FALSE, kraken |-> FALSE, io |-> TRUE]
  /\ thread = [t \in Spawned |-> "none"]
  /\ at = [t \in Threads |-> 0]
  /\ ended = "no" /\ missing = [c \in Callers |-> {}]

(* An exception leaves run(): the destructor of the app is next. *)
Throw == pc' = "destroy logger" /\ failed' = TRUE

(* who calls instance() on a singleton that is not there. *)
Misses(who, s) ==
  missing' = [missing EXCEPT ![who] = @ \cup {s}] /\ ended' \in {"no", "crash"}

Started(t) == thread' = [thread EXCEPT ![t] = "running"]

-----------------------------------------------------------------------------
(* run(), in the order of its statements. *)

(* The constructor parses the configuration, which may fail. *)
CreateLogger ==
  /\ ended = "no" /\ pc = "create logger"
  /\ \/ /\ pc' = "create server" /\ UNCHANGED failed
        /\ singleton' = [singleton EXCEPT !["logger"] = "live"]
     \/ Throw /\ UNCHANGED singleton
  /\ UNCHANGED <<running, interrupted, flag, thread, at, ended, missing>>

(* The websocket server may not be able to listen. *)
CreateServer ==
  /\ ended = "no" /\ pc = "create server"
  /\ \/ /\ pc' = "create tracker" /\ UNCHANGED failed
        /\ singleton' = [singleton EXCEPT !["server"] = "live"]
     \/ Throw /\ UNCHANGED singleton
  /\ UNCHANGED <<running, interrupted, flag, thread, at, ended, missing>>

(* The constructor needs the static transforms of the configuration. *)
CreateTracker ==
  /\ ended = "no" /\ pc = "create tracker"
  /\ \/ /\ pc' = "start kraken" /\ UNCHANGED failed
        /\ singleton' = [singleton EXCEPT !["tracker"] = "live"]
     \/ Throw /\ UNCHANGED singleton
  /\ UNCHANGED <<running, interrupted, flag, thread, at, ended, missing>>

(* A steering motor that cannot be initialised is left out. *)
StartKraken ==
  /\ ended = "no" /\ pc = "start kraken" /\ pc' = "start can"
  /\ \/ Started("kraken") /\ flag' = [flag EXCEPT !.kraken = TRUE]
     \/ UNCHANGED <<thread, flag>>
  /\ UNCHANGED <<failed, singleton, running, interrupted, at, ended, missing>>

(* The device name may be missing from the configuration; a socket that    *)
(* cannot be opened leaves the interface without a reader thread.          *)
StartCan ==
  /\ ended = "no" /\ pc = "start can"
  /\ \/ pc' = "start cameras" /\ Started("can") /\ UNCHANGED failed
     \/ pc' = "start cameras" /\ UNCHANGED <<thread, failed>>
     \/ Throw /\ UNCHANGED thread
  /\ UNCHANGED <<singleton, running, interrupted, flag, at, ended, missing>>

(* In the Jetson build a thread looks for cameras, for half a minute at    *)
(* most, and starts those it finds; a failure it keeps to itself.          *)
StartCameras ==
  /\ ended = "no" /\ pc = "start cameras" /\ pc' = "start controllers"
  /\ Started("cameras") \/ UNCHANGED thread
  /\ UNCHANGED <<failed, singleton, running, interrupted, flag, at, ended, missing>>

CamerasFound ==
  /\ ended = "no" /\ thread["cameras"] = "running"
  /\ thread' = [thread EXCEPT !["cameras"] = "done"]
  /\ UNCHANGED <<pc, failed, singleton, running, interrupted, flag, at, ended, missing>>

(* The controller manager and the interface to the controllers. *)
StartControllers ==
  /\ ended = "no" /\ pc = "start controllers"
  /\ (pc' = "start autonomy" /\ UNCHANGED failed) \/ Throw
  /\ UNCHANGED <<singleton, running, interrupted, flag, thread, at, ended, missing>>

(* Autonomy::start sets its flag first; constructing SLAM may throw. *)
AutonomyStart ==
  IF flag.autonomy
    THEN UNCHANGED <<flag, thread>>
    ELSE /\ flag' = [flag EXCEPT !.autonomy = TRUE]
         /\ Started("autonomy")

AutonomyStartFails ==
  ~flag.autonomy /\ flag' = [flag EXCEPT !.autonomy = TRUE] /\ UNCHANGED thread

(* In the manual mode the stack is not started yet. *)
StartAutonomy ==
  /\ ended = "no" /\ pc = "start autonomy"
  /\ \/ pc' = "arm" /\ UNCHANGED <<failed, flag, thread>>
     \/ pc' = "arm" /\ UNCHANGED failed /\ AutonomyStart
     \/ Throw /\ AutonomyStartFails
  /\ UNCHANGED <<singleton, running, interrupted, at, ended, missing>>

(* running = true. *)
Arm ==
  /\ ended = "no" /\ pc = "arm" /\ pc' = "spawn"
  /\ running' = TRUE
  /\ UNCHANGED <<failed, singleton, interrupted, flag, thread, at, ended, missing>>

Spawn ==
  /\ ended = "no" /\ pc = "spawn" /\ pc' = "join loop"
  /\ thread' = [thread EXCEPT !["loop"] = "running", !["io"] = "running"]
  /\ UNCHANGED <<failed, singleton, running, interrupted, flag, at, ended, missing>>

(* Mutated: the flag of the autonomy stack is left set. *)
JoinLoop_NoStop ==
  /\ ended = "no" /\ pc = "join loop" /\ thread["loop"] = "done"
  /\ pc' = "join autonomy"
  /\ UNCHANGED <<failed, singleton, running, interrupted, flag, thread, at, ended, missing>>

(* The loop thread is done: _autonomy.stop() clears its flag ... *)
JoinLoop ==
  /\ ended = "no" /\ pc = "join loop" /\ thread["loop"] = "done"
  /\ pc' = "join autonomy"
  /\ flag' = [flag EXCEPT !.autonomy = FALSE]
  /\ UNCHANGED <<failed, singleton, running, interrupted, thread, at, ended, missing>>

(* Mutated: the thread is left to itself. *)
JoinAutonomy_Detaches ==
  /\ ended = "no" /\ pc = "join autonomy"
  /\ pc' = "join io"
  /\ flag' = [flag EXCEPT !.io = FALSE]
  /\ UNCHANGED <<failed, singleton, running, interrupted, thread, at, ended, missing>>

(* ... and joins it; _io_context.stop() ... *)
JoinAutonomy ==
  /\ ended = "no" /\ pc = "join autonomy" /\ thread["autonomy"] # "running"
  /\ pc' = "join io"
  /\ flag' = [flag EXCEPT !.io = FALSE]
  /\ UNCHANGED <<failed, singleton, running, interrupted, thread, at, ended, missing>>

(* ... and its thread is joined ... *)
JoinIo ==
  /\ ended = "no" /\ pc = "join io" /\ thread["io"] = "done"
  /\ pc' = "join cameras"
  /\ UNCHANGED <<failed, singleton, running, interrupted, flag, thread, at, ended, missing>>

(* ... and so is the one that looks for cameras: run() returns. *)
JoinCameras ==
  /\ ended = "no" /\ pc = "join cameras" /\ thread["cameras"] # "running"
  /\ pc' = "destroy logger"
  /\ UNCHANGED <<failed, singleton, running, interrupted, flag, thread, at, ended, missing>>

-----------------------------------------------------------------------------
(* The destructor of the app, then of its members. *)

(* X::instance().destroy() *)
Destroyed(s) ==
  IF singleton[s] = "live"
    THEN /\ singleton' = [singleton EXCEPT ![s] = "destroyed"]
         /\ UNCHANGED <<ended, missing>>
    ELSE Misses("main", s) /\ UNCHANGED singleton

DestroyLogger ==
  /\ ended = "no" /\ pc = "destroy logger" /\ pc' = "destroy server"
  /\ running' = FALSE
  /\ Destroyed("logger")
  /\ UNCHANGED <<failed, interrupted, flag, thread, at>>

DestroyServer ==
  /\ ended = "no" /\ pc = "destroy server" /\ pc' = "destroy members"
  /\ Destroyed("server")
  /\ UNCHANGED <<failed, running, interrupted, flag, thread, at>>

(* The members go in the reverse order of their declarations: the stack's  *)
(* destructor stops it again, the motor's clears its flag ...              *)
DestroyMembers ==
  /\ ended = "no" /\ pc = "destroy members" /\ pc' = "join kraken"
  /\ flag' = [flag EXCEPT !.autonomy = FALSE, !.kraken = FALSE]
  /\ UNCHANGED <<failed, singleton, running, interrupted, thread, at, ended, missing>>

(* ... and joins its thread ... *)
JoinKraken ==
  /\ ended = "no" /\ pc = "join kraken" /\ thread["kraken"] # "running"
  /\ pc' = "destroy can"
  /\ UNCHANGED <<failed, singleton, running, interrupted, flag, thread, at, ended, missing>>

(* ... and the CAN interface goes without its thread being joined, and,    *)
(* after an exception, so does the thread that looks for cameras: the      *)
(* destructor of a joinable std::thread calls std::terminate.              *)
Joinable(t) ==
  CASE t = "can" -> thread["can"] = "running"
    [] t = "cameras" -> failed /\ thread["cameras"] # "none"

DestroyCan ==
  /\ ended = "no" /\ pc = "destroy can"
  /\ ended' = IF \E t \in {"can", "cameras"} : Joinable(t) THEN "terminate"
              ELSE IF failed THEN "exit 1" ELSE "exit 0"
  /\ UNCHANGED <<pc, failed, singleton, running, interrupted, flag, thread, at, missing>>

-----------------------------------------------------------------------------
(* The threads.  Each one's loop condition; the CAN reader has none. *)
Leaves(t) ==
  CASE t = "loop"     -> ~running
    [] t = "io"       -> ~flag.io
    [] t = "autonomy" -> ~flag.autonomy
    [] t = "kraken"   -> ~flag.kraken
    [] t = "can"      -> FALSE

(* Mutated: the control loop does not look at the flag. *)
Iterate_Forever(t) ==
  /\ ended = "no" /\ thread[t] = "running" /\ at[t] = 0
  /\ IF Leaves(t) /\ t # "loop"
       THEN thread' = [thread EXCEPT ![t] = "done"] /\ UNCHANGED at
       ELSE at' = [at EXCEPT ![t] = 1] /\ UNCHANGED thread
  /\ UNCHANGED <<pc, failed, singleton, running, interrupted, flag, ended, missing>>

Iterate(t) ==
  /\ ended = "no" /\ thread[t] = "running" /\ at[t] = 0
  /\ IF Leaves(t)
       THEN thread' = [thread EXCEPT ![t] = "done"] /\ UNCHANGED at
       ELSE at' = [at EXCEPT ![t] = 1] /\ UNCHANGED thread
  /\ UNCHANGED <<pc, failed, singleton, running, interrupted, flag, ended, missing>>

(* The next singleton of the iteration is used, if it is there. *)
Use(t) ==
  /\ ended = "no" /\ thread[t] = "running" /\ at[t] > 0
  /\ LET s == Uses[t][at[t]]
     IN  IF singleton[s] = "live" THEN UNCHANGED <<ended, missing>> ELSE Misses(t, s)
  /\ at' = [at EXCEPT ![t] = (@ + 1) % (Len(Uses[t]) + 1)]
  /\ UNCHANGED <<pc, failed, singleton, running, interrupted, flag, thread>>

(* In the autonomous mode the loop starts the stack, which does nothing    *)
(* when it has been started; an exception ends the loop thread.            *)
LoopStartsAutonomy ==
  /\ ended = "no" /\ thread["loop"] = "running" /\ at["loop"] = 2
  /\ \/ ~flag.autonomy /\ AutonomyStart
     \/ /\ ~flag.autonomy
        /\ flag' = [flag EXCEPT !.autonomy = TRUE]
        /\ thread' = [thread EXCEPT !["loop"] = "done"]
  /\ UNCHANGED <<pc, failed, singleton, running, interrupted, at, ended, missing>>

(* An exception in an iteration ends the loop's or the io_context's thread,*)
(* which catches and logs it.                                              *)
ThreadThrows(t) ==
  /\ ended = "no" /\ thread[t] = "running" /\ at[t] > 0
  /\ thread' = [thread EXCEPT ![t] = "done"] /\ at' = [at EXCEPT ![t] = 0]
  /\ UNCHANGED <<pc, failed, singleton, running, interrupted, flag, ended, missing>>

(* A Foxglove client publishes a teleop message, which the server's handler*)
(* stores in the tracker, or changes a parameter, which it logs.  The      *)
(* handlers run from the server's construction on.                         *)
ClientMessage(s) ==
  /\ ended = "no" /\ singleton["server"] = "live"
  /\ singleton[s] # "live"
  /\ Misses("client", s)
  /\ UNCHANGED <<pc, failed, singleton, running, interrupted, flag, thread, at>>

(* sig_handler. *)
Signal ==
  /\ ended = "no"
  /\ running' = FALSE
  /\ interrupted' = IF pc \in {"spawn", "join loop"} THEN "armed"
                    ELSE IF interrupted = "no" THEN "elsewhere" ELSE interrupted
  /\ UNCHANGED <<pc, failed, singleton, flag, thread, at, ended, missing>>

-----------------------------------------------------------------------------
Main ==
  \/ CreateLogger \/ CreateServer \/ CreateTracker \/ StartKraken \/ StartCan
  \/ StartCameras \/ StartControllers \/ StartAutonomy \/ Arm \/ Spawn
  \/ JoinLoop \/ JoinAutonomy \/ JoinIo \/ JoinCameras
  \/ DestroyLogger \/ DestroyServer \/ DestroyMembers \/ JoinKraken \/ DestroyCan

(* The process is over. *)
Ended == ended # "no" /\ UNCHANGED vars

Next ==
  \/ Main
  \/ \E t \in Threads : Iterate(t) \/ Use(t)
  \/ \E t \in {"loop", "io"} : ThreadThrows(t)
  \/ \E s \in {"tracker", "logger"} : ClientMessage(s)
  \/ LoopStartsAutonomy \/ CamerasFound \/ Signal
  \/ Ended

Spec == Init /\ [][Next]_vars

(* Every thread is scheduled, and no call in an iteration blocks for ever: *)
(* the waits of the autonomy stack have timeouts, and the search for       *)
(* cameras ends after fifteen attempts.                                    *)
Fairness ==
  /\ WF_vars(Main) /\ WF_vars(CamerasFound)
  /\ \A t \in Threads : WF_vars(Iterate(t) \/ Use(t))

FairSpec == Spec /\ Fairness

-----------------------------------------------------------------------------
(* Type invariant; the process ends only in DestroyCan or by a crash. *)
TypeOK ==
  /\ pc \in {"create logger", "create server", "create tracker", "start kraken",
             "start can", "start cameras", "start controllers", "start autonomy", "arm", "spawn",
             "join loop", "join autonomy", "join io", "join cameras", "destroy logger",
             "destroy server", "destroy members", "join kraken", "destroy can"}
  /\ failed \in BOOLEAN /\ running \in BOOLEAN
  /\ singleton \in [Singletons -> {"none", "live", "destroyed"}]
  /\ interrupted \in {"no", "elsewhere", "armed"}
  /\ flag \in [autonomy : BOOLEAN, kraken : BOOLEAN, io : BOOLEAN]
  /\ thread \in [Spawned -> {"none", "running", "done"}]
  /\ at \in [Threads -> 0..3]
  /\ ended \in {"no", "crash", "terminate", "exit 0", "exit 1"}
  /\ missing \in [Callers -> SUBSET Singletons]

(* However far the start got and wherever an exception or a signal struck, *)
(* the threads that run() joins never meet a singleton that is not there.  *)
JoinedThreadsFindSingletons == \A t \in Joined : missing[t] = {}

(* A signal handled once the loop has been armed ends the process. *)
ArmedInterruptStops == interrupted = "armed" ~> ended # "no"

(* When the loop thread ends, for whatever reason, the process ends: no    *)
(* join waits for ever.                                                    *)
LoopEndEndsProcess == thread["loop"] = "done" ~> ended # "no"

-----------------------------------------------------------------------------
(* What the log says of a handled signal: "Interrupted, stopping           *)
(* Drivebrain app".                                                        *)
InterruptStops == interrupted # "no" ~> ended # "no"

(* What the log says at the end: "Logging singletons safely destroyed".    *)
(* After a run without an exception, the thread of the steering motor does *)
(* not call the one that is destroyed last.                                *)
SafelyDestroyed == ~failed => "server" \notin missing["kraken"]

(* What the assertion in StateTracker::instance says of its callers: the   *)
(* tracker exists when a client's message arrives.                         *)
TrackerExistsForClients == "tracker" \notin missing["client"]

(* What main's handler is for: an exception of run() is reported and the   *)
(* process returns: the app's destructor meets no missing singleton.       *)
SingletonsExistForDestructor == missing["main"] = {}

(* What CANComms.hpp says of the reader: it "runs until the interface is   *)
(* destructed", so destroying the interface does not find it running.      *)
ReaderEndsWithInterface == ended = "terminate" => thread["can"] # "running"

(* What main's handler is for, again: when run() fails, the process        *)
(* reports it and returns 1.                                               *)
FailedRunReturns == failed => ended # "terminate" \/ thread["can"] = "running"
=============================================================================
