---------------------------- MODULE StateTracker ----------------------------
(***************************************************************************)
(* The vehicle state shared by every thread of drivebrain                  *)
(* (core/src/StateTracker.cpp).  Comms threads (CAN readers, the io_context*)
(* thread, the simulator link) deliver messages; the control loop, the     *)
(* steering thread and the parameter thread take snapshots.                *)
(*                                                                         *)
(* A message is applied in two critical sections of _state_mutex: the      *)
(* fields of the message first, the estimators in a second one.  A         *)
(* snapshot is taken in two critical sections as well: the time stamps are *)
(* copied and judged, then the state is copied.  Any other thread may run  *)
(* between the two.                                                        *)
(*                                                                         *)
(* Data is abstracted to its age: the value of a field is the steady time  *)
(* at which the message it came from was received.                         *)
(***************************************************************************)
EXTENDS Integers

CONSTANTS
  Sensors,        \* the time-stamped messages, slots of _timestamp_array
  Steering,       \* the one whose angle goes through an estimator
  Producers,      \* threads that call handle_receive_protobuf_message
  Readers,        \* threads that call vehicle_state
  Threshold,      \* 500 ms in _validate_timestamps
  InitialStamps,  \* what an element of _timestamp_array may hold before it is written
  ClockSteps,     \* adjustments of the system clock (NTP, manual)
  StartTime,      \* the system clock when the tracker is created
  MaxTime,        \* bound: how far the steady clock runs
  MaxSteps        \* bound: how often the system clock is adjusted

ASSUME SensorsAssumption == Steering \in Sensors
ASSUME ClockAssumption ==
  /\ Threshold \in Nat \ {0}
  /\ InitialStamps \subseteq Int
  /\ ClockSteps \subseteq Int
  /\ StartTime \in Nat /\ MaxTime \in Nat /\ MaxSteps \in Nat

(* Every message that carries no time stamp of its own: VNData, VCRData_s, *)
(* ACUAllData, OMSData, PointCloud, pose, em_measurement, the inverters'.  *)
Other == "other"

VARIABLES
  mono,      \* std::chrono::steady_clock
  wall,      \* std::chrono::high_resolution_clock, the system clock in libstdc++
  back,      \* history: by how much wall has been set back altogether
  steps,     \* history: how often wall was adjusted
  stamp,     \* _timestamp_array
  received,  \* history: sensors that have sent at least one message
  recvAt,    \* steady time of the last message (last_steering_recv_time for Steering)
  dataAt,    \* steady time of the message the field in _vehicle_state comes from
  producer,  \* "idle", or "applied": between the two sections of a message
  reader,    \* "idle", "copied" or "judged": where a reader is in vehicle_state()
  call       \* what a reader holds while in vehicle_state(), and what it returned

clocks == <<mono, wall, back, steps>>
state  == <<stamp, received, recvAt, dataAt>>
vars   == <<clocks, state, producer, reader, call>>

-----------------------------------------------------------------------------
(* Mutated: the spread between the stamps is not checked. *)
ValidStamps_AnySpread(ts, now) ==
  /\ \A s \in Sensors : ts[s] > 0
  /\ \E s \in Sensors : now - ts[s] < Threshold

(* _validate_timestamps: max - min within the threshold, min positive, and *)
(* max recent.  The sort only serves to find the two ends.                 *)
ValidStamps(ts, now) ==
  /\ \A s, t \in Sensors : ts[s] - ts[t] <= Threshold
  /\ \A s \in Sensors : ts[s] > 0
  /\ \E s \in Sensors : now - ts[s] < Threshold

(* _timestamp_array has no initializer and the constructor is user         *)
(* provided, so its elements start with whatever the heap block held.      *)
Init ==
  /\ mono = 0 /\ wall = StartTime /\ back = 0 /\ steps = 0
  /\ stamp \in [Sensors -> InitialStamps]
  /\ received = {}
  /\ recvAt = [s \in Sensors |-> 0]
  /\ dataAt = [s \in Sensors |-> 0]
  /\ producer = [p \in Producers |-> "idle"]
  /\ reader = [r \in Readers |-> "idle"]
  /\ call = [r \in Readers |-> [stamps |-> stamp, seen |-> {}, at |-> 0, back |-> 0,
                                valid |-> FALSE, dataAt |-> dataAt]]

-----------------------------------------------------------------------------
(* Time passes on both clocks. *)
Tick ==
  /\ mono < MaxTime
  /\ mono' = mono + 1
  /\ wall' = wall + 1
  /\ UNCHANGED <<back, steps, state, producer, reader, call>>

(* The system clock is adjusted, forwards or backwards. *)
AdjustClock(d) ==
  /\ steps < MaxSteps
  /\ steps' = steps + 1
  /\ wall' = wall + d
  /\ back' = IF d < 0 THEN back - d ELSE back
  /\ UNCHANGED <<mono, state, producer, reader, call>>

(* Mutated: the handler returns before it runs the estimators. *)
Receive_NoEstimators(p, m) ==
  /\ producer[p] = "idle"
  /\ m \in Sensors
  /\ stamp' = [stamp EXCEPT ![m] = wall]
  /\ received' = received \cup {m}
  /\ recvAt' = [recvAt EXCEPT ![m] = mono]
  /\ dataAt' = IF m = Steering THEN dataAt ELSE [dataAt EXCEPT ![m] = mono]
  /\ UNCHANGED <<clocks, producer, reader, call>>

(* Mutated: a steering message clears the angle until the estimator runs. *)
Receive_ClearsAngle(p, m) ==
  /\ producer[p] = "idle"
  /\ producer' = [producer EXCEPT ![p] = "applied"]
  /\ m \in Sensors
  /\ stamp' = [stamp EXCEPT ![m] = wall]
  /\ received' = received \cup {m}
  /\ recvAt' = [recvAt EXCEPT ![m] = mono]
  /\ dataAt' = [dataAt EXCEPT ![m] = IF m = Steering THEN 0 ELSE mono]
  /\ UNCHANGED <<clocks, reader, call>>

(* handle_receive_protobuf_message up to the end of the message's own      *)
(* critical section.  The steering message only stores raw values here.    *)
Receive(p, m) ==
  /\ producer[p] = "idle"
  /\ producer' = [producer EXCEPT ![p] = "applied"]
  /\ \/ /\ m = Other
        /\ UNCHANGED state
     \/ /\ m \in Sensors
        /\ stamp' = [stamp EXCEPT ![m] = wall]
        /\ received' = received \cup {m}
        /\ recvAt' = [recvAt EXCEPT ![m] = mono]
        /\ dataAt' = IF m = Steering THEN dataAt ELSE [dataAt EXCEPT ![m] = mono]
  /\ UNCHANGED <<clocks, reader, call>>

(* _update_estimators: once any steering message has been received, every  *)
(* message of any kind recomputes the angle from the latest raw values.    *)
UpdateEstimators(p) ==
  /\ producer[p] = "applied"
  /\ producer' = [producer EXCEPT ![p] = "idle"]
  /\ dataAt' = IF Steering \in received
                 THEN [dataAt EXCEPT ![Steering] = recvAt[Steering]]
                 ELSE dataAt
  /\ UNCHANGED <<clocks, stamp, received, recvAt, reader, call>>

(* _validate_timestamps copies the array under the mutex. *)
CopyStamps(r) ==
  /\ reader[r] = "idle"
  /\ reader' = [reader EXCEPT ![r] = "copied"]
  /\ call' = [call EXCEPT ![r] = [@ EXCEPT !.stamps = stamp, !.seen = received]]
  /\ UNCHANGED <<clocks, state, producer>>

(* ... and judges the copy by the clock it reads after the mutex is free.  *)
Judge(r) ==
  /\ reader[r] = "copied"
  /\ reader' = [reader EXCEPT ![r] = "judged"]
  /\ call' = [call EXCEPT ![r] = [@ EXCEPT !.at = mono, !.back = back,
                                   !.valid = ValidStamps(call[r].stamps, wall)]]
  /\ UNCHANGED <<clocks, state, producer>>

(* vehicle_state copies the state under the mutex and returns it with the  *)
(* verdict reached before.                                                 *)
Snapshot(r) ==
  /\ reader[r] = "judged"
  /\ reader' = [reader EXCEPT ![r] = "idle"]
  /\ call' = [call EXCEPT ![r] = [@ EXCEPT !.dataAt = dataAt]]
  /\ UNCHANGED <<clocks, state, producer>>

(* The reader's last vehicle_state() has returned, with the verdict valid. *)
ReturnedValid(r) == reader[r] = "idle" /\ call[r].valid

Next ==
  \/ Tick
  \/ \E d \in ClockSteps : AdjustClock(d)
  \/ \E p \in Producers, m \in Sensors \cup {Other} : Receive(p, m)
  \/ \E p \in Producers : UpdateEstimators(p)
  \/ \E r \in Readers : CopyStamps(r) \/ Judge(r) \/ Snapshot(r)

Spec == Init /\ [][Next]_vars

-----------------------------------------------------------------------------
Stamps == [Sensors -> Int]
CallType == [stamps : Stamps, seen : SUBSET Sensors, at : Int, back : Int,
             valid : BOOLEAN, dataAt : Stamps]

(* Type invariant of the tracker. *)
TypeOK ==
  /\ mono \in Int /\ wall \in Int /\ back \in Int /\ steps \in Int
  /\ stamp \in Stamps /\ recvAt \in Stamps /\ dataAt \in Stamps
  /\ received \subseteq Sensors
  /\ producer \in [Producers -> {"idle", "applied"}]
  /\ reader \in [Readers -> {"idle", "copied", "judged"}]
  /\ call \in [Readers -> CallType]

(* A state that vehicle_state() returns as valid holds, for every sensor   *)
(* heard of when the stamps were copied, data less than two thresholds old *)
(* when it was judged, plus whatever the system clock has been set back:   *)
(* although the clock is read and the state copied after the mutex was     *)
(* released, and although only the newest stamp is compared to the clock.  *)
FreshWhenValid ==
  \A r \in Readers : ReturnedValid(r) =>
    \A s \in call[r].seen \ {Steering} :
      call[r].at - call[r].dataAt[s] < 2 * Threshold + call[r].back

(* The steering angle is behind the last steering message only while some  *)
(* comms thread is between the two critical sections of a message.         *)
SteeringLagsOnlyInFlight ==
  Steering \in received /\ dataAt[Steering] # recvAt[Steering]
    => \E p \in Producers : producer[p] = "applied"

(* However the estimator sections of different threads interleave, the     *)
(* steering angle is never recomputed from an older message than before.   *)
SteeringNeverRegresses == [][dataAt'[Steering] >= dataAt[Steering]]_vars

(* What all_members_received in _validate_timestamps claims: a state is    *)
(* only valid once every sensor has been heard of.                         *)
ValidOnlyIfAllReceived ==
  \A r \in Readers : ReturnedValid(r) => call[r].seen = Sensors
=============================================================================
