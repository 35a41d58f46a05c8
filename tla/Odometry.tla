------------------------------ MODULE Odometry ------------------------------
(***************************************************************************)
(* Dead reckoning from the optical speed sensor (estimation/src/           *)
(* Odometry.cpp).  Samples carry the sensor's own clock, which drifts      *)
(* against the host's, in a float of seconds.  They arrive in order but    *)
(* late, in bursts, and are stamped with host time by an offset that       *)
(* follows the smallest latency seen and creeps up after the drift.  The   *)
(* autonomy thread asks for the pose at the time of a lidar scan and waits *)
(* for the samples around it.                                              *)
(*                                                                         *)
(* Poses are left out: the buffer is the set of its samples, each with the *)
(* stamp it was given and the host time at which it was really taken.      *)
(***************************************************************************)
EXTENDS Integers, Sequences, FiniteSets

CONSTANTS
  Epoch,        \* the host's time at the start, far ahead of the sensor's
  Ulp,          \* the distance between two floats around the sensor's time in seconds
  Rates,        \* what the sensor's clock may advance while the host's advances by 1
  History,      \* HISTORY_NS
  Creep,        \* by how much the clock offset may grow with a sample, 2000 ns
  MaxInFlight,  \* bound: samples on their way
  MaxRestarts,  \* bound: how often the sensor restarts
  MaxDrifts,    \* bound: how often the two clocks advance by different amounts
  MaxTime       \* bound: how far the host clock runs

VARIABLES
  now,       \* the host's system clock
  sensor,    \* the sensor's clock
  drifts,    \* history: how often it did not advance with the host's
  restarts,  \* history: how often the sensor restarted
  inflight,  \* samples on their way
  measured,  \* history: when the last sample was taken
  offset,    \* _clock_offset_ns, or Unset
  lag,       \* history: of the last sample, how far apart the two clocks were, and what the
             \* sensor's has lost against the host's that the creep did not make up for
  stamp,     \* _timestamp_ns
  buffer,    \* _buffer
  updater,   \* the thread in update(): "idle" or "notifying"
  reader,    \* the thread in pose(): "idle", "awake" or "asleep"
  want,      \* the time stamp it asks for
  answer,    \* what pose() returned last
  dropped    \* history: a sample taken after the newest one was not integrated

sensorVars == <<sensor, drifts, restarts, inflight, measured>>
updateVars == <<offset, lag, stamp, buffer, updater, dropped>>
readerVars == <<reader, want, answer>>
vars == <<now, sensorVars, updateVars, readerVars>>

Unset == -1     \* std::numeric_limits<std::int64_t>::max()

NoSample == [apart |-> 0, behind |-> 0]

Init ==
  /\ now = Epoch /\ sensor = 0 /\ drifts = 0 /\ restarts = 0 /\ inflight = <<>>
  /\ measured = 0
  /\ offset = Unset /\ lag = NoSample /\ stamp = 0 /\ buffer = {}
  /\ updater = "idle" /\ reader = "idle" /\ want = 0 /\ answer = "none"
  /\ dropped = FALSE

-----------------------------------------------------------------------------
(* The sensor's clock advances with the host's, or drifts. *)
Tick ==
  /\ now < Epoch + MaxTime /\ now' = now + 1
  /\ \E d \in Rates :
       /\ sensor' = sensor + d
       /\ \/ d = 1 /\ UNCHANGED drifts
          \/ d # 1 /\ drifts < MaxDrifts /\ drifts' = drifts + 1
  /\ UNCHANGED <<restarts, inflight, measured, updateVars, readerVars>>

(* The sensor takes a sample, with the time on its own clock. *)
Measure ==
  /\ Len(inflight) < MaxInFlight
  /\ measured < now /\ measured' = now
  /\ inflight' = Append(inflight, [taken |-> now, clock |-> sensor])
  /\ UNCHANGED <<now, sensor, drifts, restarts, updateVars, readerVars>>

(* The sensor starts again, with a new clock; samples on their way arrive. *)
Restart ==
  /\ restarts < MaxRestarts /\ restarts' = restarts + 1
  /\ sensor' = 0
  /\ UNCHANGED <<now, drifts, inflight, measured, updateVars, readerVars>>

(* sample_time_s: the float nearest to the time on the sensor's clock. *)
Reading(clock) == ((clock + Ulp \div 2) \div Ulp) * Ulp

(* Mutated: the offset only ever falls. *)
ClockOffset_Fixed(latency) ==
  IF offset = Unset \/ latency < offset THEN latency ELSE offset

(* _host_time_ns: the new clock offset. *)
ClockOffset(latency) ==
  IF offset = Unset \/ latency < offset + Creep THEN latency ELSE offset + Creep

(* What the sensor's clock has lost since the sample against which it has  *)
(* lost most, less the creep of the samples since.                         *)
Lag(s) ==
  LET apart == s.taken - s.clock
      lost  == lag.behind + (apart - lag.apart) - Creep
  IN  [apart |-> apart, behind |-> IF offset = Unset \/ lost < 0 THEN 0 ELSE lost]

Buffered(s, t) == [stamp |-> t, taken |-> s.taken, behind |-> Lag(s).behind]

(* Mutated: a sample with an older stamp is buffered as well. *)
Update_AnyOrder ==
  /\ updater = "idle" /\ inflight # <<>>
  /\ inflight' = Tail(inflight)
  /\ LET s == Head(inflight)
         o == ClockOffset(now - Reading(s.clock))
         t == Reading(s.clock) + o
     IN  /\ offset' = o /\ lag' = Lag(s)
         /\ stamp' = t
         /\ buffer' = {b \in buffer \cup {Buffered(s, t)} : t - b.stamp <= History}
         /\ updater' = "notifying"
  /\ UNCHANGED <<now, sensor, drifts, restarts, measured, readerVars, dropped>>

(* update(): one critical section.  The clock offset follows every sample, *)
(* also the ones that are then rejected.                                   *)
Update ==
  /\ updater = "idle" /\ inflight # <<>>
  /\ inflight' = Tail(inflight)
  /\ LET s == Head(inflight)
         o == ClockOffset(now - Reading(s.clock))
         t == Reading(s.clock) + o
     IN  /\ offset' = o /\ lag' = Lag(s)
         /\ \/ /\ t <= stamp
               /\ dropped' = (dropped \/ \A b \in buffer : b.taken < s.taken)
               /\ UNCHANGED <<stamp, buffer, updater>>
            \/ /\ t > stamp
               /\ stamp' = t
               /\ buffer' = {b \in buffer \cup {Buffered(s, t)} : t - b.stamp <= History}
               /\ updater' = "notifying"
               /\ UNCHANGED dropped
  /\ UNCHANGED <<now, sensor, drifts, restarts, measured, readerVars>>

(* Mutated: nobody is told. *)
Notify_Silent ==
  /\ updater = "notifying" /\ updater' = "idle"
  /\ UNCHANGED <<now, sensorVars, offset, lag, stamp, buffer, dropped, readerVars>>

(* _cv.notify_all(), after the mutex is free. *)
Notify ==
  /\ updater = "notifying" /\ updater' = "idle"
  /\ reader' = IF reader = "asleep" THEN "awake" ELSE reader
  /\ UNCHANGED <<now, sensorVars, offset, lag, stamp, buffer, dropped, want, answer>>

-----------------------------------------------------------------------------
(* What pose() waits for, and what it can answer. *)
Covered(q) == (\E b \in buffer : q <= b.stamp) /\ (\E b \in buffer : b.stamp <= q)
TooOld(q)  == buffer # {} /\ \A b \in buffer : q < b.stamp
Ready(q)   == TooOld(q) \/ \E b \in buffer : q <= b.stamp

(* pose() is called for a scan that has been taken. *)
Ask(q) ==
  /\ reader = "idle" /\ reader' = "awake"
  /\ q <= now /\ want' = q /\ answer' = "none"
  /\ UNCHANGED <<now, sensorVars, updateVars>>

Return ==
  /\ reader' = "idle" /\ want' = 0
  /\ answer' = IF Covered(want) THEN "pose" ELSE "nullopt"

(* The wait's predicate is evaluated under the mutex; when it holds, the   *)
(* answer follows in the same critical section.                            *)
Wait ==
  /\ reader = "awake"
  /\ \/ ~Ready(want) /\ reader' = "asleep" /\ UNCHANGED <<want, answer>>
     \/ Ready(want) /\ Return
  /\ UNCHANGED <<now, sensorVars, updateVars>>

(* The timeout: the predicate is evaluated once more. *)
TimeOut ==
  /\ reader = "asleep" /\ Return
  /\ UNCHANGED <<now, sensorVars, updateVars>>

Next ==
  \/ Tick \/ Measure \/ Restart
  \/ Update \/ Notify
  \/ \E q \in Epoch..(Epoch + MaxTime) : Ask(q)
  \/ Wait \/ TimeOut

Spec == Init /\ [][Next]_vars

-----------------------------------------------------------------------------
(* Type invariant; the buffer keeps its newest sample, whose stamp is the  *)
(* odometry's.                                                             *)
TypeOK ==
  /\ now \in Nat /\ sensor \in Nat /\ drifts \in Nat /\ restarts \in Nat /\ measured \in Nat
  /\ inflight \in Seq([taken : Nat, clock : Nat])
  /\ offset \in Nat \cup {Unset} /\ lag \in [apart : Int, behind : Nat] /\ stamp \in Nat
  /\ buffer \subseteq [stamp : Nat, taken : Nat, behind : Nat]
  /\ updater \in {"idle", "notifying"} /\ reader \in {"idle", "awake", "asleep"}
  /\ want \in Nat /\ answer \in {"none", "pose", "nullopt"}
  /\ dropped \in BOOLEAN
  /\ stamp # 0 => \E b \in buffer : b.stamp = stamp

(* Whatever latencies the samples have met and however the sensor's clock  *)
(* drifts, rounds or restarts, a sample is never stamped later than now;   *)
(* and it is stamped earlier than it was taken by less than what the creep *)
(* of the samples so far has not made up for, and one unit of the float.   *)
(* Without such a loss a scan is matched with the motion of its own time.  *)
StampWithinLatency ==
  \A b \in buffer : b.stamp <= now /\ b.taken < b.stamp + b.behind + Ulp

(* The buffer is in the order in which the samples were taken, through     *)
(* latencies, drift, rounding and restarts of the sensor's clock:          *)
(* interpolation never runs backwards.                                     *)
BufferInOrder ==
  \A a, b \in buffer : (a.stamp < b.stamp) <=> (a.taken < b.taken)

(* The reader does not sleep through the sample it waits for, although     *)
(* update() notifies after it has released the mutex.                      *)
NoLostWakeup == reader = "asleep" /\ Ready(want) => updater = "notifying"

-----------------------------------------------------------------------------
(* What the comment on update() says: a sample is refused only if it was   *)
(* not newer than the last one.                                            *)
NewerIsIntegrated == ~dropped
=============================================================================
