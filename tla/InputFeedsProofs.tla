-------------------------- MODULE InputFeedsProofs --------------------------
(***************************************************************************)
(* Proofs about drivebrain's inputs, for any sizes, bounds, ports, ids and *)
(* latencies.  Each feed has an invariant of its own, which the steps of   *)
(* the other feeds do not touch.                                           *)
(***************************************************************************)
EXTENDS InputFeeds, SequenceTheorems, TLAPS

(* The step of another feed leaves a feed alone. *)
LEMMA OtherFeeds ==
  ASSUME [Next]_vars
  PROVE  /\ OMS!Next \/ UNCHANGED omsVars
         /\ Odom!Next \/ UNCHANGED odomVars
         /\ Joystick!Next \/ UNCHANGED joyVars
         /\ CAN!Next \/ UNCHANGED canVars
         /\ IO!Next \/ UNCHANGED ioVars
  BY DEF Next, Rest, vars

-----------------------------------------------------------------------------
(* CAN.  Only an id that the DBC does not have is inserted, and only a     *)
(* message of the DBC is looked up.                                        *)
CANInv ==
  /\ CAN!EndsByRaceOrField
  /\ reading.at = "inserting" => reading.id \in Foreign
  /\ sending \in [at : {"idle", "lookup", "encode", "write"}, id : CAN!DBC \cup {0}]
  /\ sending.at = "lookup" => sending.id \in CAN!DBC

LEMMA CANStep == CANInv /\ [Next]_vars => CANInv'
  <1> SUFFICES ASSUME CANInv, [Next]_vars PROVE CANInv'
    OBVIOUS
  <1> USE DEF CANInv, CAN!EndsByRaceOrField
  <1>1. ASSUME NEW id \in CAN!DBC \cup Foreign, CAN!Read(id) PROVE CANInv'
    BY <1>1 DEF CAN!Read, CAN!Loaded
  <1>2. CASE CAN!Insert
    BY <1>2 DEF CAN!Insert
  <1>3. CASE CAN!Decode \/ CAN!DecodeWithoutField
    BY <1>3 DEF CAN!Decode, CAN!DecodeWithoutField, CAN!Nothing
  <1>4. ASSUME NEW n \in Commands, CAN!Send(n) PROVE CANInv'
    BY <1>4 DEF CAN!Send, CAN!DBC
  <1>5. CASE CAN!Lookup
    BY <1>5 DEF CAN!Lookup
  <1>6. CASE CAN!Encode
    BY <1>6 DEF CAN!Encode
  <1>7. CASE CAN!Write
    BY <1>7 DEF CAN!Write, CAN!Nothing
  <1>8. CASE CAN!Transmit
    BY <1>8 DEF CAN!Transmit
  <1>9. CASE UNCHANGED canVars
    BY <1>9 DEF canVars
  <1> QED
    BY <1>1, <1>2, <1>3, <1>4, <1>5, <1>6, <1>7, <1>8, <1>9, OtherFeeds DEF CAN!Next

(* Whatever ids are on the bus, whatever signals the DBC has and whatever  *)
(* is sent, the interface ends the process only by a lookup that falls     *)
(* into the first insertion of an id the DBC does not have, or while it    *)
(* works on a message with a signal that has no field.                     *)
THEOREM InterfaceEndsByRaceOrField == Spec => []EndsByRaceOrField
  <1>1. Init => CANInv
    BY DEF Init, CAN!Init, CANInv, CAN!EndsByRaceOrField, CAN!Nothing
  <1>2. CANInv => EndsByRaceOrField
    BY DEF CANInv, EndsByRaceOrField
  <1> QED BY <1>1, <1>2, CANStep, PTL DEF Spec

-----------------------------------------------------------------------------
(* The joystick.  What the thread stores belongs to the connection it is   *)
(* in: an input counts and a trigger is armed only after the trigger was   *)
(* seen at rest, and nothing of an old connection is left when the device  *)
(* is opened again.                                                        *)
JoystickInv ==
  /\ fd \in {"closed", "open"}
  /\ DOMAIN inputs = Joystick!Axes /\ DOMAIN armed = Joystick!Triggers
  /\ \A t \in Joystick!Triggers : (armed[t] \/ inputs[t] # 0) => t \in rested
  /\ joystick = "polling" => fd = "open"
  /\ joystick \in {"reset accel", "reset brake", "reset steering", "disarm accel", "disarm brake"}
       => fd = "closed"
  /\ joystick = "top" /\ fd = "closed" =>
       \A t \in Joystick!Triggers : inputs[t] = 0 /\ ~armed[t]
  /\ joystick \in {"reset brake", "reset steering", "disarm accel", "disarm brake"}
       => inputs["accel"] = 0
  /\ joystick \in {"reset steering", "disarm accel", "disarm brake"} => inputs["brake"] = 0
  /\ joystick = "disarm brake" => ~armed["accel"]
  /\ HeldTriggerDoesNotDrive

LEMMA JoystickStep == JoystickInv /\ [Next]_vars => JoystickInv'
  <1> SUFFICES ASSUME JoystickInv, [Next]_vars PROVE JoystickInv'
    OBVIOUS
  <1> USE DEF JoystickInv, HeldTriggerDoesNotDrive, Joystick!HeldTriggerDoesNotDrive,
              Joystick!thrVars
  <1>1. CASE Joystick!Unplug \/ Joystick!Plug
    BY <1>1 DEF Joystick!Unplug, Joystick!Plug
  <1>2. ASSUME NEW a, NEW v, Joystick!Move(a, v) PROVE JoystickInv'
    BY <1>2 DEF Joystick!Move
  <1>3. CASE Joystick!OpenDevice
    BY <1>3 DEF Joystick!OpenDevice
  <1>4. CASE Joystick!PollTimesOut \/ Joystick!LoseDevice
    BY <1>4 DEF Joystick!PollTimesOut, Joystick!LoseDevice
  <1>5. ASSUME NEW t \in Joystick!Triggers, Joystick!ReadTrigger(t) PROVE JoystickInv'
    BY <1>5 DEF Joystick!ReadTrigger, Joystick!Triggers, Joystick!Axes
  <1>6. CASE Joystick!ReadSteering
    BY <1>6 DEF Joystick!ReadSteering, Joystick!Triggers, Joystick!Axes
  <1>7. CASE Joystick!ResetInputs
    BY <1>7 DEF Joystick!ResetInputs, Joystick!Store, Joystick!Zero, Joystick!Disarm,
                Joystick!Triggers, Joystick!Axes
  <1>8. CASE Joystick!StepChecks \/ Joystick!StepLoads
    BY <1>8 DEF Joystick!StepChecks, Joystick!StepLoads
  <1>9. CASE Joystick!Destroy \/ Joystick!JoinJoystick
    BY <1>9 DEF Joystick!Destroy, Joystick!JoinJoystick
  <1>10. CASE UNCHANGED joyVars
    BY <1>10 DEF joyVars
  <1> QED
    BY <1>1, <1>2, <1>3, <1>4, <1>5, <1>6, <1>7, <1>8, <1>9, <1>10, OtherFeeds
    DEF Joystick!Next, Joystick!Joystick

(* However the loads of a step interleave with the stores of the joystick  *)
(* thread, and however often the device is lost and comes back, a trigger  *)
(* drives the car only after it was seen at rest in its connection.        *)
THEOREM HeldTriggersDoNotDrive == Spec => []HeldTriggerDoesNotDrive
  <1>1. Init => JoystickInv
    BY DEF Init, Joystick!Init, JoystickInv, HeldTriggerDoesNotDrive,
           Joystick!HeldTriggerDoesNotDrive, Joystick!Neutral, Joystick!Axes, Joystick!Triggers
  <1>2. JoystickInv => HeldTriggerDoesNotDrive
    BY DEF JoystickInv
  <1> QED BY <1>1, <1>2, JoystickStep, PTL DEF Spec

-----------------------------------------------------------------------------
(* The odometry's types. *)
Sample == [taken : Nat, clock : Nat]
Buffered == [stamp : Nat, taken : Nat, behind : Nat]

OdomType ==
  /\ now \in Nat /\ sensor \in Nat /\ measured \in Nat
  /\ inflight \in Seq(Sample)
  /\ offset \in Int /\ lag \in [apart : Int, behind : Nat] /\ stamp \in Nat
  /\ buffer \subseteq Buffered

(* Samples on their way are in the order in which they were taken, and     *)
(* none in the future.                                                     *)
OnTheirWay ==
  /\ measured <= now
  /\ \A i \in 1..Len(inflight) :
       /\ inflight[i].taken <= measured
       /\ \A j \in 1..(i - 1) : inflight[j].taken < inflight[i].taken

(* The newest sample has the newest stamp, and those on their way are      *)
(* newer still.                                                            *)
Newest ==
  /\ \A b \in buffer : b.stamp <= stamp /\ b.taken <= measured
  /\ \A b \in buffer, i \in 1..Len(inflight) : b.taken < inflight[i].taken

(* The offset is no further below the distance of the two clocks than what *)
(* the creep has not made up for, and the rounding.                        *)
OffsetFollows == offset # Odom!Unset => lag.apart <= offset + lag.behind + Ulp \div 2

OdomInv ==
  /\ OdomType /\ OnTheirWay /\ Newest /\ OffsetFollows
  /\ StampWithinLatency /\ BufferInOrder /\ NoLostWakeup

(* The head of a queue and what is left of it, element by element. *)
LEMMA QueueParts ==
  ASSUME NEW T, NEW q \in Seq(T), q # <<>>
  PROVE  /\ Len(q) \in Nat \ {0} /\ Head(q) = q[1] /\ q[1] \in T
         /\ Tail(q) \in Seq(T) /\ Len(Tail(q)) = Len(q) - 1
         /\ \A i \in 1..Len(Tail(q)) : Tail(q)[i] = q[i + 1] /\ i + 1 \in 2..Len(q)
  <1>1. /\ Len(q) \in Nat /\ Len(q) # 0 /\ Head(q) = q[1] /\ q[1] \in T
    BY EmptySeq
  <1>2. Tail(q) \in Seq(T) /\ Len(Tail(q)) = Len(q) - 1
    OBVIOUS
  <1>3. \A i \in 1..Len(Tail(q)) : Tail(q)[i] = q[i + 1] /\ i + 1 \in 2..Len(q)
    BY <1>1, <1>2
  <1> QED BY <1>1, <1>2, <1>3

LEMMA QueueGrows ==
  ASSUME NEW T, NEW q \in Seq(T), NEW x \in T, NEW r, r = Append(q, x)
  PROVE  /\ r \in Seq(T) /\ Len(q) \in Nat /\ Len(r) = Len(q) + 1
         /\ \A i \in 1..Len(r) : \/ i \in 1..Len(q) /\ r[i] = q[i]
                                 \/ i = Len(r) /\ r[i] = x
  <1>1. /\ r \in Seq(T) /\ Len(q) \in Nat /\ Len(r) = Len(q) + 1
        /\ \A i \in 1..Len(q) : r[i] = q[i]
        /\ r[Len(q) + 1] = x
    OBVIOUS
  <1>2. \A i \in 1..Len(r) : i \in 1..Len(q) \/ i = Len(r)
    BY ONLY <1>1
  <1> QED BY <1>1, <1>2

(* A float of the sensor's time is at most half a unit above it, and less  *)
(* than half a unit below.                                                 *)
LEMMA Rounding ==
  ASSUME NEW c \in Nat
  PROVE  /\ Odom!Reading(c) \in Int /\ Ulp \in Nat \ {0} /\ Ulp \div 2 \in Nat
         /\ Odom!Reading(c) <= c + Ulp \div 2
         /\ c + Ulp \div 2 < Odom!Reading(c) + Ulp
  <1>1. Ulp \in Nat \ {0} /\ Ulp \div 2 \in Nat
    BY OdometryAssumption
  <1> DEFINE x == c + Ulp \div 2
             q == x \div Ulp
  <1>2. x \in Nat
    BY <1>1
  <1> HIDE DEF x
  <1>3. q \in Int /\ Ulp * q <= x /\ x < Ulp * q + Ulp
    BY <1>1, <1>2
  <1>4. Odom!Reading(c) = q * Ulp
    BY DEF x, Odom!Reading
  <1> HIDE DEF q
  <1>5. q * Ulp = Ulp * q /\ q * Ulp \in Int
    BY <1>1, <1>3
  <1> QED BY <1>1, <1>3, <1>4, <1>5 DEF x

(* What update() makes of the sample at the head of the queue: the offset  *)
(* is at most this sample's latency, so the stamp is not in the future;    *)
(* and it has followed the sensor's clock as far as the creep allows, so   *)
(* the stamp is not further in the past than that and the rounding.        *)
LEMMA StampIs ==
  ASSUME OdomInv, inflight # <<>>,
         NEW s, s = inflight[1],
         NEW r, r = Odom!Reading(s.clock),
         NEW o, o = Odom!ClockOffset(now - r),
         NEW l, l = Odom!Lag(s)
  PROVE  /\ s.taken \in Nat /\ o \in Int /\ r + o \in Int /\ r + o <= now
         /\ l \in [apart : Int, behind : Nat]
         /\ l.apart <= o + l.behind + Ulp \div 2
         /\ s.taken < (r + o) + l.behind + Ulp
  <1>1. s \in Sample /\ 1 \in 1..Len(inflight)
    BY QueueParts DEF OdomInv, OdomType
  <1>2. s.taken \in Nat /\ s.clock \in Nat
    BY <1>1 DEF Sample
  <1>3. s.taken <= measured /\ measured <= now
    BY <1>1 DEF OdomInv, OnTheirWay
  <1>4. /\ now \in Nat /\ measured \in Nat /\ offset \in Int /\ Creep \in Nat
        /\ lag.apart \in Int /\ lag.behind \in Nat
    BY OdometryAssumption DEF OdomInv, OdomType
  <1>5. /\ r \in Int /\ Ulp \in Nat \ {0} /\ Ulp \div 2 \in Nat
        /\ r <= s.clock + Ulp \div 2 /\ s.clock + Ulp \div 2 < r + Ulp
    BY <1>2, Rounding
  <1> DEFINE h == Ulp \div 2
             a == s.taken - s.clock
             lost == lag.behind + (a - lag.apart) - Creep
             b == IF offset = Odom!Unset \/ lost < 0 THEN 0 ELSE lost
  <1>6. a \in Int /\ lost \in Int /\ h \in Nat
    <2>1. a \in Int /\ h \in Nat
      BY ONLY <1>2, <1>5
    <2> HIDE DEF a
    <2> QED BY ONLY <1>4, <2>1
  <1>7. b \in Nat /\ (offset # Odom!Unset => lost <= b)
    BY <1>6
  <1>8. l = [apart |-> a, behind |-> b]
    BY DEF Odom!Lag
  <1>9. l \in [apart : Int, behind : Nat] /\ l.apart = a /\ l.behind = b
    BY <1>6, <1>7, <1>8
  <1>10. /\ o \in Int /\ o <= now - r
         /\ \/ o = now - r
            \/ offset # Odom!Unset /\ o = offset + Creep
    BY <1>4, <1>5 DEF Odom!ClockOffset
  <1>11. offset # Odom!Unset => lag.apart <= offset + lag.behind + h
    BY DEF OdomInv, OffsetFollows
  <1>12. a <= o + b + h
    <2>1. CASE o = now - r
      <3>1. a <= now - s.clock
        BY ONLY <1>2, <1>3, <1>4
      <3>2. now - s.clock <= o + h
        BY ONLY <1>2, <1>4, <1>5, <1>6, <2>1
      <3> HIDE DEF a, b, h
      <3> QED BY ONLY <1>2, <1>4, <1>6, <1>7, <1>10, <3>1, <3>2
    <2>2. CASE offset # Odom!Unset /\ o = offset + Creep
      <3>1. lag.behind + (a - lag.apart) - Creep <= b
        BY <1>7, <2>2
      <3> HIDE DEF a, b, h, lost
      <3> QED BY ONLY <1>4, <1>6, <1>7, <1>11, <2>2, <3>1
    <2> QED BY <1>10, <2>1, <2>2
  <1>13. s.taken < (r + o) + b + Ulp
    <2>1. s.taken <= s.clock + (o + b + h)
      <3>1. s.taken - s.clock <= o + b + h
        BY <1>12
      <3> HIDE DEF b, h
      <3> QED BY ONLY <1>2, <1>6, <1>7, <1>10, <3>1
    <2>2. s.clock + h < r + Ulp
      BY <1>5
    <2> HIDE DEF a, b, h
    <2> QED BY ONLY <1>2, <1>5, <1>6, <1>7, <1>10, <2>1, <2>2
  <1>14. r + o \in Int /\ r + o <= now
    BY ONLY <1>4, <1>5, <1>10
  <1> HIDE DEF a, b, lost
  <1> QED BY <1>2, <1>9, <1>10, <1>12, <1>13, <1>14

LEMMA UpdateStep ==
  ASSUME OdomInv, Odom!Update
  PROVE  OdomInv'
  <1> DEFINE s == inflight[1]
             r == Odom!Reading(s.clock)
             o == Odom!ClockOffset(now - r)
             t == r + o
             l == Odom!Lag(s)
             m == [stamp |-> t, taken |-> s.taken, behind |-> l.behind]
  <1>q. inflight \in Seq(Sample) /\ inflight # <<>>
    BY DEF Odom!Update, OdomInv, OdomType
  <1>1. /\ inflight' = Tail(inflight) /\ offset' = o /\ lag' = l /\ updater = "idle"
        /\ UNCHANGED <<now, sensor, measured, reader, want>>
        /\ \/ t <= stamp /\ UNCHANGED <<stamp, buffer, updater>>
           \/ /\ t > stamp /\ stamp' = t /\ updater' = "notifying"
              /\ buffer' = {b \in buffer \cup {m} : t - b.stamp <= History}
    BY <1>q, QueueParts DEF Odom!Update, Odom!Buffered, Odom!readerVars
  <1>2. /\ s.taken \in Nat /\ o \in Int /\ t \in Int /\ t <= now
        /\ l \in [apart : Int, behind : Nat] /\ l.behind \in Nat
        /\ l.apart <= o + l.behind + Ulp \div 2
        /\ s.taken < t + l.behind + Ulp
    BY <1>q, StampIs
  <1>3. /\ Len(inflight) \in Nat \ {0} /\ inflight' \in Seq(Sample)
        /\ Len(inflight') = Len(inflight) - 1
        /\ \A i \in 1..Len(inflight') : inflight'[i] = inflight[i + 1] /\ i + 1 \in 2..Len(inflight)
    BY <1>1, <1>q, QueueParts
  <1>4. \A i \in 1..Len(inflight') : s.taken < inflight'[i].taken
    <2> SUFFICES ASSUME NEW i \in 1..Len(inflight') PROVE inflight[1].taken < inflight[i + 1].taken
      BY <1>3
    <2>1. i + 1 \in 1..Len(inflight) /\ 1 \in 1..((i + 1) - 1)
      BY <1>3
    <2> QED BY <2>1 DEF OdomInv, OnTheirWay
  <1>5. s.taken <= measured /\ \A b \in buffer : b.taken < s.taken
    BY <1>3 DEF OdomInv, OnTheirWay, Newest
  <1>6. OnTheirWay'
    <2> SUFFICES ASSUME NEW i \in 1..Len(inflight') PROVE
          /\ inflight'[i].taken <= measured
          /\ \A j \in 1..(i - 1) : inflight'[j].taken < inflight'[i].taken
      BY <1>1 DEF OdomInv, OnTheirWay
    <2>1. i + 1 \in 1..Len(inflight) /\ inflight'[i] = inflight[i + 1]
      BY <1>3
    <2>2. ASSUME NEW j \in 1..(i - 1) PROVE inflight'[j].taken < inflight'[i].taken
      <3>1. j \in 1..Len(inflight') /\ j + 1 \in 1..((i + 1) - 1)
        BY <1>3
      <3> QED BY <1>3, <2>1, <3>1 DEF OdomInv, OnTheirWay
    <2> QED BY <2>1, <2>2 DEF OdomInv, OnTheirWay
  <1>f. OffsetFollows'
    BY <1>1, <1>2 DEF OffsetFollows
  <1>r. t > stamp => m \in Buffered /\ m.stamp = t /\ m.taken = s.taken /\ m.behind = l.behind
    BY <1>2 DEF Buffered, OdomInv, OdomType
  <1> HIDE DEF s, r, o, t, l, m
  <1>7. CASE UNCHANGED <<stamp, buffer, updater>>
    <2>1. Newest'
      BY <1>1, <1>3, <1>7 DEF OdomInv, Newest
    <2>2. OdomType'
      BY <1>1, <1>2, <1>3, <1>7 DEF OdomInv, OdomType
    <2>3. StampWithinLatency' /\ BufferInOrder' /\ NoLostWakeup'
      BY <1>1, <1>7 DEF OdomInv, StampWithinLatency, Odom!StampWithinLatency, BufferInOrder,
         Odom!BufferInOrder, NoLostWakeup, Odom!NoLostWakeup, Odom!Ready, Odom!TooOld
    <2> QED BY <1>6, <1>f, <2>1, <2>2, <2>3 DEF OdomInv
  <1>8. CASE /\ t > stamp /\ stamp' = t /\ updater' = "notifying"
             /\ buffer' = {b \in buffer \cup {m} : t - b.stamp <= History}
    <2>1. m \in Buffered /\ m.stamp = t /\ m.taken = s.taken /\ m.behind = l.behind
      BY <1>8, <1>r
    <2>2. \A b \in buffer' : b \in buffer \/ b = m
      BY <1>8
    <2>3. /\ stamp \in Nat /\ now \in Nat
          /\ \A b \in buffer : b.stamp \in Nat /\ b.taken \in Nat /\ b.stamp <= stamp
      BY DEF OdomInv, OdomType, Newest, Buffered
    <2>t. t \in Nat
      BY <1>2, <1>8, <2>3
    <2>4. \A b \in buffer : b.stamp < t
      BY <1>2, <1>8, <2>3
    <2>5. OdomType'
      BY <1>1, <1>2, <1>3, <1>8, <2>1, <2>2, <2>t DEF OdomInv, OdomType
    <2>6. Newest'
      <3>1. \A b \in buffer' : b.stamp <= t /\ b.taken <= s.taken
        BY <1>2, <1>5, <2>1, <2>2, <2>3, <2>4
      <3>2. \A i \in 1..Len(inflight') : inflight'[i].taken \in Nat
        <4>1. \A i \in 1..Len(inflight') : inflight'[i] \in Sample
          BY <1>3
        <4> QED BY <4>1 DEF Sample
      <3>3. measured \in Nat /\ \A b \in buffer' : b.taken \in Nat
        BY <1>2, <2>1, <2>2, <2>3 DEF OdomInv, OdomType
      <3>4. \A b \in buffer', i \in 1..Len(inflight') : b.taken < inflight'[i].taken
        BY <1>2, <1>4, <3>1, <3>2, <3>3
      <3> QED BY <1>1, <1>2, <1>5, <1>8, <3>1, <3>3, <3>4 DEF Newest
    <2>7. BufferInOrder'
      <3>1. \A a, b \in buffer : (a.stamp < b.stamp) <=> (a.taken < b.taken)
        BY DEF OdomInv, BufferInOrder, Odom!BufferInOrder
      <3>2. ASSUME NEW a \in buffer', NEW b \in buffer'
            PROVE  (a.stamp < b.stamp) <=> (a.taken < b.taken)
        <4>1. CASE a \in buffer /\ b \in buffer
          BY <3>1, <4>1
        <4>2. CASE a \in buffer /\ b = m
          BY <1>5, <2>1, <2>4, <4>2
        <4>3. CASE a = m /\ b \in buffer
          <5>1. ~(t < b.stamp) /\ ~(s.taken < b.taken)
            BY <1>2, <1>5, <2>3, <2>4, <4>3
          <5> QED BY <2>1, <4>3, <5>1
        <4>4. CASE a = m /\ b = m
          <5>1. ~(t < t) /\ ~(s.taken < s.taken)
            BY <1>2
          <5> QED BY <2>1, <4>4, <5>1
        <4> QED BY <2>2, <4>1, <4>2, <4>3, <4>4
      <3> QED BY <3>2 DEF BufferInOrder, Odom!BufferInOrder
    <2>8. StampWithinLatency'
      BY <1>1, <1>2, <2>1, <2>2 DEF OdomInv, StampWithinLatency, Odom!StampWithinLatency
    <2>9. NoLostWakeup'
      BY <1>8 DEF NoLostWakeup, Odom!NoLostWakeup
    <2> QED BY <1>6, <1>f, <2>5, <2>6, <2>7, <2>8, <2>9 DEF OdomInv
  <1> QED BY <1>1, <1>7, <1>8

(* The sensor measures.                                                    *)
LEMMA MeasureStep ==
  ASSUME OdomInv, Odom!Measure
  PROVE  OdomInv'
  <1>t. /\ now \in Nat /\ sensor \in Nat /\ measured \in Nat
        /\ inflight \in Seq(Sample) /\ Len(inflight) \in Nat
    BY DEF OdomInv, OdomType
  <1>1. UNCHANGED <<now, sensor, offset, lag, stamp, buffer, updater, reader, want>>
    BY DEF Odom!Measure, Odom!updateVars, Odom!readerVars
  <1>2. /\ BufferInOrder' /\ NoLostWakeup' /\ OffsetFollows' /\ StampWithinLatency'
    BY <1>1 DEF OdomInv, BufferInOrder, Odom!BufferInOrder, NoLostWakeup, Odom!NoLostWakeup,
                Odom!Ready, Odom!TooOld, OffsetFollows, StampWithinLatency,
                Odom!StampWithinLatency
  <1> DEFINE s == [taken |-> now, clock |-> sensor]
  <1>3. measured < now /\ measured' = now /\ inflight' = Append(inflight, s)
    BY DEF Odom!Measure
  <1>4. s \in Sample /\ s.taken = now
    BY <1>t DEF Sample
  <1> HIDE DEF s
  <1>5. /\ inflight' \in Seq(Sample) /\ Len(inflight') = Len(inflight) + 1
        /\ \A i \in 1..Len(inflight') :
             \/ i \in 1..Len(inflight) /\ inflight'[i] = inflight[i]
             \/ i = Len(inflight') /\ inflight'[i] = s
    BY <1>t, <1>3, <1>4, QueueGrows
  <1>6. \A i \in 1..Len(inflight) : inflight[i].taken \in Nat /\ inflight[i].taken <= measured
    <2>1. \A i \in 1..Len(inflight) : inflight[i] \in Sample
      BY <1>t
    <2> QED BY <2>1 DEF Sample, OdomInv, OnTheirWay
  <1>7. OdomType'
    BY <1>1, <1>t, <1>3, <1>5 DEF OdomInv, OdomType
  <1>8. ASSUME NEW i \in 1..Len(inflight') PROVE
          /\ inflight'[i].taken <= now
          /\ \A j \in 1..(i - 1) : inflight'[j].taken < inflight'[i].taken
    <2>1. CASE i \in 1..Len(inflight) /\ inflight'[i] = inflight[i]
      <3>1. \A j \in 1..(i - 1) : j \in 1..Len(inflight) /\ inflight'[j] = inflight[j]
        BY <1>t, <1>5, <2>1
      <3>2. inflight[i].taken <= now
        BY <1>t, <1>3, <1>6, <2>1
      <3> QED BY <2>1, <3>1, <3>2 DEF OdomInv, OnTheirWay
    <2>2. CASE i = Len(inflight') /\ inflight'[i] = s
      <3>1. \A j \in 1..(i - 1) : j \in 1..Len(inflight) /\ inflight'[j] = inflight[j]
        BY <1>t, <1>5, <2>2
      <3>2. \A j \in 1..(i - 1) : inflight'[j].taken < now
        BY <1>t, <1>3, <1>6, <3>1
      <3> QED BY <1>t, <1>4, <2>2, <3>2
    <2> QED BY <1>5, <2>1, <2>2
  <1>9. OnTheirWay'
    BY <1>1, <1>t, <1>3, <1>8 DEF OdomInv, OnTheirWay
  <1>10. Newest'
    <2>1. \A b \in buffer : b.taken \in Nat /\ b.taken < now
      BY <1>t, <1>3 DEF OdomInv, OdomType, Newest, Buffered
    <2> QED BY <1>1, <1>t, <1>3, <1>4, <1>5, <2>1 DEF OdomInv, Newest
  <1> QED BY <1>2, <1>7, <1>9, <1>10 DEF OdomInv

(* The clocks run, the sensor starts again, and the thread that asks for a *)
(* pose.                                                                   *)
LEMMA ClockAndReaderStep ==
  ASSUME OdomInv,
         \/ Odom!Tick \/ Odom!Restart \/ Odom!Notify \/ Odom!Wait \/ Odom!TimeOut
         \/ \E q \in Epoch..(Epoch + MaxTime) : Odom!Ask(q)
         \/ UNCHANGED odomVars
  PROVE  OdomInv'
  <1>t. now \in Nat /\ sensor \in Nat /\ Rates \subseteq Nat
    BY OdometryAssumption DEF OdomInv, OdomType
  <1> USE DEF Odom!sensorVars, Odom!updateVars, Odom!readerVars
  <1>1. UNCHANGED <<inflight, measured, offset, lag, stamp, buffer>>
    BY DEF Odom!Tick, Odom!Restart, Odom!Notify, Odom!Wait, Odom!TimeOut, Odom!Ask, odomVars
  <1>2. now' \in Nat /\ now <= now'
    BY <1>t DEF Odom!Tick, Odom!Restart, Odom!Notify, Odom!Wait, Odom!TimeOut, Odom!Ask, odomVars
  <1>3. sensor' \in Nat
    BY <1>t DEF Odom!Tick, Odom!Restart, Odom!Notify, Odom!Wait, Odom!TimeOut, Odom!Ask, odomVars
  <1>4. OdomType' /\ Newest' /\ BufferInOrder' /\ OffsetFollows'
    BY <1>1, <1>2, <1>3 DEF OdomInv, OdomType, Newest, BufferInOrder, Odom!BufferInOrder,
                            OffsetFollows
  <1>5. OnTheirWay'
    <2>1. measured <= now'
      BY <1>2, <1>t DEF OdomInv, OdomType, OnTheirWay
    <2> QED BY <1>1, <2>1 DEF OdomInv, OnTheirWay
  <1>6. StampWithinLatency'
    <2>1. \A b \in buffer : b.stamp \in Nat
      BY DEF OdomInv, OdomType, Buffered
    <2> QED BY <1>1, <1>2, <1>t, <2>1 DEF OdomInv, StampWithinLatency, Odom!StampWithinLatency
  <1>7. NoLostWakeup'
    BY <1>1 DEF OdomInv, NoLostWakeup, Odom!NoLostWakeup, Odom!Ready, Odom!TooOld, Odom!Tick,
                Odom!Restart, Odom!Notify, Odom!Wait, Odom!Return, Odom!TimeOut, Odom!Ask, odomVars
  <1> QED BY <1>4, <1>5, <1>6, <1>7 DEF OdomInv

LEMMA OdomAlways == Spec => []OdomInv
  <1>1. Init => OdomInv
    <2> SUFFICES ASSUME Odom!Init PROVE OdomInv
      BY DEF Init
    <2> USE DEF Odom!Init
    <2>1. OdomType
      BY OdometryAssumption DEF OdomType, Odom!NoSample, Odom!Unset
    <2>2. OnTheirWay /\ Newest /\ OffsetFollows
      BY OdometryAssumption DEF OnTheirWay, Newest, OffsetFollows
    <2>3. StampWithinLatency /\ BufferInOrder /\ NoLostWakeup
      BY DEF StampWithinLatency, Odom!StampWithinLatency, BufferInOrder, Odom!BufferInOrder,
             NoLostWakeup, Odom!NoLostWakeup
    <2> QED BY <2>1, <2>2, <2>3 DEF OdomInv
  <1>2. OdomInv /\ [Next]_vars => OdomInv'
    BY UpdateStep, MeasureStep, ClockAndReaderStep, OtherFeeds DEF Odom!Next
  <1> QED BY <1>1, <1>2, PTL DEF Spec

(* Whatever latencies the samples meet, however fast the offset may creep, *)
(* and however the sensor's clock runs, rounds or starts again, no sample  *)
(* is stamped after now, and none further before it was taken than what    *)
(* the creep has not made up for and one unit of the float.                *)
THEOREM StampsWithinLatency == Spec => []StampWithinLatency
  <1>1. OdomInv => StampWithinLatency
    BY DEF OdomInv
  <1> QED BY <1>1, OdomAlways, PTL

(* The odometry's buffer is ordered by when the samples were taken,        *)
(* through drift, rounding and any number of restarts of the sensor.       *)
THEOREM BufferStaysInOrder == Spec => []BufferInOrder
  <1>1. OdomInv => BufferInOrder
    BY DEF OdomInv
  <1> QED BY <1>1, OdomAlways, PTL

(* The thread that waits for a pose does not sleep on when the sample it   *)
(* waits for is there, unless a notification is on its way.                *)
THEOREM NoWakeupIsLost == Spec => []NoLostWakeup
  <1>1. OdomInv => NoLostWakeup
    BY DEF OdomInv
  <1> QED BY <1>1, OdomAlways, PTL

-----------------------------------------------------------------------------
(* The receivers.  Packets, and the messages made of them.                 *)
PacketType == [id : Nat, quality : {"whole", "cut", "other"}]
MessageType == [head : Nat, tail : Nat]

(* The packets of a chain are numbered as they arrive: those the handler   *)
(* was called for, the one in the buffer, the ones behind it.              *)
Numbered(a, r, b, t) ==
  /\ a \in Seq(PacketType) /\ t \in Seq(PacketType) /\ b \in PacketType
  /\ \A k \in 1..Len(t) : t[k].id = k
  /\ r = "complete" => b.id = Len(t) + 1
  /\ \A k \in 1..Len(a) : a[k].id = Len(t) + (IF r = "complete" THEN 1 ELSE 0) + k

(* What a port has given for the packets t, and what the VectorNav has.    *)
PortGives(g, t) ==
  /\ g \in Seq(MessageType) /\ Len(g) = Len(t)
  /\ \A k \in 1..Len(t) :
       /\ {g[k].head, g[k].tail} \subseteq {k, 0}
       /\ t[k].quality = "whole" => g[k] = [head |-> k, tail |-> k]

SerialGives(g, t) ==
  /\ g \in Seq(MessageType)
  /\ \A k \in 1..Len(g) :
       /\ g[k].head \in 1..Len(t) /\ g[k].tail = g[k].head
       /\ t[g[k].head].quality = "whole"
       /\ \A l \in 1..(k - 1) : g[l].head < g[k].head
  /\ \A k \in 1..Len(t) : t[k].quality = "whole" => \E l \in 1..Len(g) : g[l].head = k

IOInv ==
  /\ DOMAIN arrived = IO!Chains /\ DOMAIN read = IO!Chains /\ DOMAIN buffered = IO!Chains
  /\ DOMAIN taken = IO!Chains /\ DOMAIN given = IO!Chains
  /\ \A c \in IO!Chains : Numbered(arrived[c], read[c], buffered[c], taken[c])
  /\ \A c \in IO!Chains : read[c] = "none" => c \in broken
  /\ \A c \in Ports : PortGives(given[c], taken[c])
  /\ SerialGives(given[IO!VN], taken[IO!VN])

LEMMA ArrivalNumbered ==
  ASSUME NEW a, NEW r, NEW b, NEW t, Numbered(a, r, b, t), NEW q \in {"whole", "cut", "other"},
         NEW n, n = Len(a) + Len(t) + (IF r = "complete" THEN 1 ELSE 0) + 1,
         NEW x, x = Append(a, [id |-> n, quality |-> q])
  PROVE  Numbered(x, r, b, t)
  <1> DEFINE p == [id |-> n, quality |-> q]
  <1>1. a \in Seq(PacketType) /\ t \in Seq(PacketType) /\ Len(a) \in Nat /\ Len(t) \in Nat
    BY DEF Numbered
  <1>2. p \in PacketType /\ p.id = n
    BY <1>1 DEF PacketType
  <1> HIDE DEF p
  <1>3. /\ x \in Seq(PacketType) /\ Len(x) = Len(a) + 1
        /\ \A i \in 1..Len(x) : \/ i \in 1..Len(a) /\ x[i] = a[i]
                                \/ i = Len(x) /\ x[i] = p
    BY <1>1, <1>2, QueueGrows DEF p
  <1> DEFINE f == IF r = "complete" THEN 1 ELSE 0
  <1>4. /\ f \in Nat /\ n = Len(a) + Len(t) + f + 1
        /\ \A k \in 1..Len(a) : a[k].id = Len(t) + f + k
    BY DEF Numbered
  <1>5. \A k \in 1..Len(x) : x[k].id = Len(t) + f + k
    <2> HIDE DEF f
    <2> SUFFICES ASSUME NEW k \in 1..Len(x) PROVE x[k].id = Len(t) + f + k
      OBVIOUS
    <2>1. CASE k \in 1..Len(a) /\ x[k] = a[k]
      BY <1>4, <2>1
    <2>2. CASE k = Len(x) /\ x[k] = p
      <3>1. x[k].id = n
        BY <1>2, <2>2
      <3> QED BY ONLY <1>1, <1>3, <1>4, <2>2, <3>1
    <2> QED BY <1>3, <2>1, <2>2
  <1> QED BY <1>3, <1>5 DEF Numbered

LEMMA ReadNumbered ==
  ASSUME NEW a, NEW b, NEW t, Numbered(a, "started", b, t), a # <<>>
  PROVE  Numbered(Tail(a), "complete", Head(a), t)
  <1>1. a \in Seq(PacketType) /\ t \in Seq(PacketType) /\ Len(t) \in Nat
    BY DEF Numbered
  <1>2. /\ Len(a) \in Nat \ {0} /\ Head(a) = a[1] /\ a[1] \in PacketType
        /\ Tail(a) \in Seq(PacketType) /\ Len(Tail(a)) = Len(a) - 1
        /\ \A i \in 1..Len(Tail(a)) : Tail(a)[i] = a[i + 1] /\ i + 1 \in 2..Len(a)
    BY <1>1, QueueParts
  <1>3. \A k \in 1..Len(a) : a[k].id = Len(t) + k
    BY <1>1 DEF Numbered
  <1>4. Head(a).id = Len(t) + 1
    BY <1>2, <1>3
  <1>5. \A k \in 1..Len(Tail(a)) : Tail(a)[k].id = Len(t) + 1 + k
    BY <1>1, <1>2, <1>3
  <1> QED BY <1>1, <1>2, <1>4, <1>5 DEF Numbered

LEMMA TakenNumbered ==
  ASSUME NEW a, NEW b, NEW t, Numbered(a, "complete", b, t)
  PROVE  Numbered(a, "started", b, Append(t, b))
  <1>1. a \in Seq(PacketType) /\ t \in Seq(PacketType) /\ b \in PacketType /\ Len(t) \in Nat
    BY DEF Numbered
  <1> DEFINE u == Append(t, b)
  <1>2. /\ u \in Seq(PacketType) /\ Len(u) = Len(t) + 1
        /\ \A i \in 1..Len(u) : \/ i \in 1..Len(t) /\ u[i] = t[i]
                                \/ i = Len(u) /\ u[i] = b
    BY <1>1, QueueGrows
  <1> HIDE DEF u
  <1>3. \A k \in 1..Len(u) : u[k].id = k
    BY <1>1, <1>2 DEF Numbered
  <1>4. \A k \in 1..Len(a) : a[k].id = Len(u) + k
    BY <1>1, <1>2 DEF Numbered
  <1>5. Numbered(a, "started", b, u)
    BY <1>1, <1>2, <1>3, <1>4 DEF Numbered
  <1> QED BY <1>5 DEF u

(* A datagram is parsed into a message that has nothing of an earlier one. *)
LEMMA PortGivesOn ==
  ASSUME NEW g, NEW t, NEW b \in PacketType, NEW old, NEW m \in IO!Parse(old, b),
         t \in Seq(PacketType), PortGives(g, t), b.id = Len(t) + 1
  PROVE  PortGives(Append(g, m), Append(t, b))
  <1> DEFINE u == Append(t, b)
             h == Append(g, m)
  <1>1. g \in Seq(MessageType) /\ Len(g) = Len(t) /\ Len(t) \in Nat
    BY DEF PortGives
  <1>2. /\ m \in MessageType /\ {m.head, m.tail} \subseteq {b.id, 0}
        /\ b.quality = "whole" => m = [head |-> b.id, tail |-> b.id]
    <2>1. b.id \in Nat
      BY DEF PacketType
    <2> QED BY <2>1 DEF IO!Parse, IO!Unset, MessageType
  <1>3. /\ u \in Seq(PacketType) /\ Len(u) = Len(t) + 1
        /\ \A i \in 1..Len(u) : \/ i \in 1..Len(t) /\ u[i] = t[i]
                                \/ i = Len(u) /\ u[i] = b
    BY QueueGrows
  <1>4. /\ h \in Seq(MessageType) /\ Len(h) = Len(g) + 1
        /\ \A i \in 1..Len(h) : \/ i \in 1..Len(g) /\ h[i] = g[i]
                                \/ i = Len(h) /\ h[i] = m
    BY <1>1, <1>2, QueueGrows
  <1> HIDE DEF u, h
  <1>5. Len(h) = Len(u)
    BY <1>1, <1>3, <1>4
  <1>6. ASSUME NEW k \in 1..Len(u)
        PROVE  /\ {h[k].head, h[k].tail} \subseteq {k, 0}
               /\ u[k].quality = "whole" => h[k] = [head |-> k, tail |-> k]
    <2>1. CASE k \in 1..Len(t)
      <3>1. u[k] = t[k] /\ h[k] = g[k]
        BY <1>1, <1>3, <1>4, <2>1
      <3> QED BY <2>1, <3>1 DEF PortGives
    <2>2. CASE k = Len(t) + 1
      <3>1. u[k] = b /\ h[k] = m
        BY <1>1, <1>3, <1>4, <2>2
      <3> QED BY <1>2, <2>2, <3>1
    <2> QED BY <1>1, <1>3, <2>1, <2>2
  <1>7. PortGives(h, u)
    BY <1>4, <1>5, <1>6 DEF PortGives
  <1> QED BY <1>7 DEF u, h

(* A packet of the kind the VectorNav is asked for is given, another is    *)
(* skipped.                                                                *)
LEMMA SerialGivesOn ==
  ASSUME NEW g, NEW t, NEW b \in PacketType, t \in Seq(PacketType), SerialGives(g, t),
         b.id = Len(t) + 1, NEW h,
         h = IF b.quality = "whole" THEN Append(g, [head |-> b.id, tail |-> b.id]) ELSE g
  PROVE  SerialGives(h, Append(t, b))
  <1> DEFINE u == Append(t, b)
             m == [head |-> b.id, tail |-> b.id]
  <1>1. g \in Seq(MessageType) /\ Len(g) \in Nat /\ Len(t) \in Nat
    BY DEF SerialGives
  <1>2. m \in MessageType /\ m.head = Len(t) + 1 /\ m.tail = m.head
    BY <1>1 DEF MessageType
  <1>3. /\ u \in Seq(PacketType) /\ Len(u) = Len(t) + 1
        /\ \A i \in 1..Len(u) : \/ i \in 1..Len(t) /\ u[i] = t[i]
                                \/ i = Len(u) /\ u[i] = b
    BY QueueGrows
  <1>a. h = IF b.quality = "whole" THEN Append(g, m) ELSE g
    OBVIOUS
  <1> HIDE DEF u, m
  <1>4. /\ \A k \in 1..Len(t) : k \in 1..Len(u) /\ u[k] = t[k]
        /\ Len(u) \in 1..Len(u) /\ u[Len(u)] = b
    BY <1>1, <1>3
  <1>5. \A k \in 1..Len(g) :
          /\ g[k].head \in 1..Len(u) /\ g[k].head < Len(u) /\ g[k].tail = g[k].head
          /\ u[g[k].head].quality = "whole"
          /\ \A l \in 1..(k - 1) : g[l].head < g[k].head
    BY <1>1, <1>3, <1>4 DEF SerialGives
  <1>6. CASE b.quality # "whole"
    <2>1. h = g
      BY <1>a, <1>6
    <2>2. \A k \in 1..Len(u) : u[k].quality = "whole" => k \in 1..Len(t)
      BY <1>3, <1>6
    <2> QED BY <1>1, <1>4, <1>5, <2>1, <2>2 DEF SerialGives, u
  <1>7. CASE b.quality = "whole"
    <2>1. /\ h \in Seq(MessageType) /\ Len(h) = Len(g) + 1
          /\ \A i \in 1..Len(h) : \/ i \in 1..Len(g) /\ h[i] = g[i]
                                  \/ i = Len(h) /\ h[i] = m
      BY <1>1, <1>2, <1>a, <1>7, QueueGrows
    <2>2. \A k \in 1..Len(g) : k \in 1..Len(h) /\ h[k] = g[k]
      BY <1>1, <2>1
    <2>3. Len(h) \in 1..Len(h) /\ h[Len(h)] = m
      BY <1>1, <2>1, <2>2
    <2>4. ASSUME NEW k \in 1..Len(h)
          PROVE  /\ h[k].head \in 1..Len(u) /\ h[k].tail = h[k].head
                 /\ u[h[k].head].quality = "whole"
                 /\ \A l \in 1..(k - 1) : h[l].head < h[k].head
      <3>1. CASE k \in 1..Len(g)
        <4>1. \A l \in 1..(k - 1) : l \in 1..Len(g) /\ h[l] = g[l]
          BY <1>1, <2>2, <3>1
        <4> QED BY <1>5, <2>2, <3>1, <4>1
      <3>2. CASE k = Len(h)
        <4>1. \A l \in 1..(k - 1) : l \in 1..Len(g) /\ h[l] = g[l]
          BY <1>1, <2>1, <2>2, <3>2
        <4>2. h[k] = m /\ m.head = Len(u) /\ u[m.head] = b
          BY <1>2, <1>3, <1>4, <2>3, <3>2
        <4> QED BY <1>2, <1>4, <1>5, <1>7, <4>1, <4>2
      <3> QED BY <2>1, <3>1, <3>2
    <2>5. \A k \in 1..Len(u) : u[k].quality = "whole" => \E l \in 1..Len(h) : h[l].head = k
      <3> SUFFICES ASSUME NEW k \in 1..Len(u), u[k].quality = "whole"
                   PROVE  \E l \in 1..Len(h) : h[l].head = k
        OBVIOUS
      <3>1. CASE k \in 1..Len(t) /\ u[k] = t[k]
        BY <2>2, <3>1 DEF SerialGives
      <3>2. CASE k = Len(u)
        BY <1>2, <1>3, <2>3, <3>2
      <3> QED BY <1>3, <3>1, <3>2
    <2> QED BY <2>1, <2>4, <2>5 DEF SerialGives, u
  <1> QED BY <1>6, <1>7

(* One step of a receiver touches one chain.                               *)
LEMMA ReceiverStep ==
  ASSUME IOInv, IO!Next
  PROVE  IOInv'
  <1> DEFINE C == IO!Chains
             VN == IO!VN
  <1>c. VN \in C /\ VN \notin Ports /\ Ports \subseteq C /\ C = Ports \cup {VN}
    BY ReceiversAssumption DEF IO!Chains, IO!VN
  <1>i. /\ DOMAIN arrived = C /\ DOMAIN read = C /\ DOMAIN buffered = C
        /\ DOMAIN taken = C /\ DOMAIN given = C
        /\ \A c \in C : Numbered(arrived[c], read[c], buffered[c], taken[c])
        /\ \A c \in C : read[c] = "none" => c \in broken
        /\ \A c \in Ports : PortGives(given[c], taken[c])
        /\ SerialGives(given[VN], taken[VN])
    BY DEF IOInv
  <1> HIDE DEF C, VN
  <1>1. ASSUME NEW c \in C, NEW q \in {"whole", "cut", "other"}, IO!Arrive(c, q)
        PROVE  IOInv'
    <2> DEFINE n == IO!Total(c) + 1
               x == Append(arrived[c], [id |-> n, quality |-> q])
    <2>1. Numbered(x, read[c], buffered[c], taken[c])
      <3>1. n = Len(arrived[c]) + Len(taken[c]) + (IF read[c] = "complete" THEN 1 ELSE 0) + 1
        BY DEF IO!Total
      <3> HIDE DEF n
      <3> QED BY <1>i, <3>1, ArrivalNumbered
    <2> HIDE DEF n
    <2>2. arrived' = [arrived EXCEPT ![c] = x]
      BY <1>1 DEF IO!Arrive, n
    <2>3. UNCHANGED <<read, buffered, message, taken, given, broken, io>>
      BY <1>1 DEF IO!Arrive
    <2> HIDE DEF x
    <2> QED BY <1>i, <2>1, <2>2, <2>3 DEF IOInv, C, VN
  <1>2. ASSUME NEW c \in C, IO!Complete(c)
        PROVE  IOInv'
    <2>1. Numbered(Tail(arrived[c]), "complete", Head(arrived[c]), taken[c])
      <3>1. read[c] = "started" /\ arrived[c] # <<>>
        BY <1>2 DEF IO!Complete
      <3> QED BY <1>i, <3>1, ReadNumbered
    <2>2. /\ read' = [read EXCEPT ![c] = "complete"]
          /\ buffered' = [buffered EXCEPT ![c] = Head(arrived[c])]
          /\ arrived' = [arrived EXCEPT ![c] = Tail(arrived[c])]
          /\ UNCHANGED <<message, taken, given, broken, io>>
      BY <1>2 DEF IO!Complete
    <2> QED BY <1>i, <2>1, <2>2 DEF IOInv, C, VN
  <1>3. ASSUME NEW c \in C, IO!Fail(c)
        PROVE  IOInv'
    <2>1. /\ read[c] = "started" /\ read' = [read EXCEPT ![c] = "none"]
          /\ broken' = broken \cup {c}
          /\ UNCHANGED <<arrived, buffered, message, taken, given, io>>
      BY <1>3 DEF IO!Fail
    <2>2. Numbered(arrived[c], "none", buffered[c], taken[c])
      <3>1. Numbered(arrived[c], "started", buffered[c], taken[c])
        BY <1>i, <2>1
      <3> QED BY <3>1 DEF Numbered
    <2> QED BY <1>i, <2>1, <2>2 DEF IOInv, C, VN
  <1>4. ASSUME NEW c \in C, IO!HandleDatagram(c)
        PROVE  IOInv'
    <2>1. PICK m \in IO!Parse(message[c], buffered[c]) :
            given' = [given EXCEPT ![c] = Append(given[c], m)]
      BY <1>4 DEF IO!HandleDatagram
    <2>2. /\ c \in Ports /\ read[c] = "complete"
          /\ taken' = [taken EXCEPT ![c] = Append(taken[c], buffered[c])]
          /\ read' = [read EXCEPT ![c] = "started"]
          /\ UNCHANGED <<arrived, buffered, broken, io>>
      BY <1>4 DEF IO!HandleDatagram
    <2>3. Numbered(arrived[c], "complete", buffered[c], taken[c])
      BY <1>i, <2>2
    <2>4. Numbered(arrived[c], "started", buffered[c], Append(taken[c], buffered[c]))
      BY <2>3, TakenNumbered
    <2>5. /\ buffered[c] \in PacketType /\ buffered[c].id = Len(taken[c]) + 1
          /\ taken[c] \in Seq(PacketType)
      BY <2>3 DEF Numbered
    <2>6. PortGives(Append(given[c], m), Append(taken[c], buffered[c]))
      BY <1>i, <2>1, <2>2, <2>5, PortGivesOn
    <2>7. \A d \in C : Numbered(arrived'[d], read'[d], buffered'[d], taken'[d])
      BY <1>i, <2>2, <2>4
    <2>8. \A d \in Ports : PortGives(given'[d], taken'[d])
      BY <1>c, <1>i, <2>1, <2>2, <2>6
    <2>9. SerialGives(given'[VN], taken'[VN])
      BY <1>c, <1>i, <2>1, <2>2
    <2>10. \A d \in C : read'[d] = "none" => d \in broken'
      BY <1>i, <2>2
    <2> QED BY <1>i, <2>1, <2>2, <2>7, <2>8, <2>9, <2>10 DEF IOInv, C, VN
  <1>5. ASSUME IO!HandleSerial
        PROVE  IOInv'
    <2> DEFINE b == buffered[VN]
               h == IF b.quality = "whole"
                      THEN Append(given[VN], [head |-> b.id, tail |-> b.id]) ELSE given[VN]
    <2>1. /\ read[VN] = "complete"
          /\ taken' = [taken EXCEPT ![VN] = Append(taken[VN], b)]
          /\ read' = [read EXCEPT ![VN] = "started"]
          /\ UNCHANGED <<arrived, buffered, message, broken, io>>
      BY <1>5 DEF IO!HandleSerial, VN
    <2>2. DOMAIN given' = C /\ \A d \in C : given'[d] = IF d = VN THEN h ELSE given[d]
      <3>1. CASE b.quality = "whole"
        BY <1>c, <1>i, <1>5, <3>1 DEF IO!HandleSerial, VN
      <3>2. CASE b.quality # "whole"
        BY <1>i, <1>5, <3>2 DEF IO!HandleSerial, VN
      <3> QED BY <3>1, <3>2
    <2>3. Numbered(arrived[VN], "complete", b, taken[VN])
      BY <1>c, <1>i, <2>1
    <2>4. Numbered(arrived[VN], "started", b, Append(taken[VN], b))
      BY <2>3, TakenNumbered
    <2>5. b \in PacketType /\ b.id = Len(taken[VN]) + 1 /\ taken[VN] \in Seq(PacketType)
      BY <2>3 DEF Numbered
    <2>6. SerialGives(h, Append(taken[VN], b))
      <3> HIDE DEF b
      <3> QED BY <1>i, <2>5, SerialGivesOn
    <2> HIDE DEF h
    <2>7. \A d \in C : Numbered(arrived'[d], read'[d], buffered'[d], taken'[d])
      BY <1>i, <2>1, <2>4
    <2>8. \A d \in Ports : PortGives(given'[d], taken'[d])
      BY <1>c, <1>i, <2>1, <2>2
    <2>9. SerialGives(given'[VN], taken'[VN])
      BY <1>c, <1>i, <2>1, <2>2, <2>6
    <2>10. \A d \in C : read'[d] = "none" => d \in broken'
      BY <1>i, <2>1
    <2> QED BY <1>i, <2>1, <2>2, <2>7, <2>8, <2>9, <2>10 DEF IOInv, C, VN
  <1>6. ASSUME NEW c \in C, IO!HandlerThrows(c)
        PROVE  IOInv'
    BY <1>i, <1>6 DEF IO!HandlerThrows, IOInv, C, VN
  <1>7. \A c \in C : IO!Qualities(c) \subseteq {"whole", "cut", "other"}
    BY DEF IO!Qualities
  <1> QED BY <1>1, <1>2, <1>3, <1>4, <1>5, <1>6, <1>7 DEF IO!Next, C

LEMMA ReceiversAlways == Spec => []IOInv
  <1>1. Init => IOInv
    <2> SUFFICES ASSUME IO!Init PROVE IOInv
      BY DEF Init
    <2>1. IO!VN \in IO!Chains /\ Ports \subseteq IO!Chains
      BY DEF IO!Chains
    <2>2. \A r \in {"started", "none"} : Numbered(<<>>, r, IO!NoPacket, <<>>)
      BY DEF Numbered, IO!NoPacket, PacketType
    <2>3. PortGives(<<>>, <<>>) /\ SerialGives(<<>>, <<>>)
      BY DEF PortGives, SerialGives
    <2> QED BY <2>1, <2>2, <2>3 DEF IO!Init, IOInv
  <1>2. IOInv /\ [Next]_vars => IOInv'
    <2> SUFFICES ASSUME IOInv, UNCHANGED ioVars PROVE IOInv'
      BY ReceiverStep, OtherFeeds
    <2> QED BY DEF IOInv, ioVars
  <1> QED BY <1>1, <1>2, PTL DEF Spec

(* Whatever arrives and whichever chain breaks, what the tracker is given  *)
(* is what arrived, in order, with nothing of an earlier packet in it.     *)
THEOREM WhatIsReceivedWasSent == Spec => []ReceivedAsSent
  <1>1. ASSUME IOInv PROVE ReceivedAsSent
    <2>1. ASSUME NEW c \in IO!Chains
          PROVE  /\ \A k \in DOMAIN taken[c] : taken[c][k].id = k
                 /\ read[c] = "none" => c \in broken
      <3>1. taken[c] \in Seq(PacketType) /\ \A k \in 1..Len(taken[c]) : taken[c][k].id = k
        BY <1>1 DEF IOInv, Numbered
      <3>2. DOMAIN taken[c] = 1..Len(taken[c])
        BY <3>1
      <3> QED BY <1>1, <3>1, <3>2 DEF IOInv
    <2>2. ASSUME NEW c \in Ports
          PROVE  /\ Len(given[c]) = Len(taken[c])
                 /\ \A k \in DOMAIN taken[c] :
                      /\ {given[c][k].head, given[c][k].tail} \subseteq {k, 0}
                      /\ taken[c][k].quality = "whole"
                           => given[c][k] = [head |-> k, tail |-> k]
      <3>1. taken[c] \in Seq(PacketType) /\ PortGives(given[c], taken[c])
        BY <1>1 DEF IOInv, Numbered, IO!Chains
      <3> QED BY <3>1 DEF PortGives
    <2>3. /\ taken[IO!VN] \in Seq(PacketType) /\ given[IO!VN] \in Seq(MessageType)
          /\ SerialGives(given[IO!VN], taken[IO!VN])
      BY <1>1 DEF IOInv, Numbered, IO!Chains, SerialGives
    <2>4. /\ DOMAIN taken[IO!VN] = 1..Len(taken[IO!VN])
          /\ DOMAIN given[IO!VN] = 1..Len(given[IO!VN])
      BY <2>3
    <2> QED BY <2>1, <2>2, <2>3, <2>4 DEF ReceivedAsSent, IO!ReceivedAsSent, SerialGives
  <1> QED BY <1>1, ReceiversAlways, PTL

-----------------------------------------------------------------------------
(* The speed sensor.  The packets lie in the log one behind the other, up  *)
(* to a malformed header or to the end; the client's cursor is always at   *)
(* the beginning of a packet or behind the last one, and what it has       *)
(* delivered by then is exactly what the packets before the cursor hold.   *)
Up == conn \in {"connected", "lost"}
End(p) == p.at + OMS!HeaderSize + p.n
Upto(p) == p.sample + p.n

(* At cell c the packets go on with the sample that follows s, or end.     *)
Boundary(c, s) ==
  \/ c = good /\ (conn = "connected" /\ good = Len(log) => s = sampled)
  \/ \E q \in packets : q.at = c /\ q.sample = s

PacketsInLog ==
  /\ good <= Len(log)
  /\ good < Len(log) => OMS!Malformed(log[good + 1])
  /\ \A p \in packets :
       /\ End(p) <= good /\ Upto(p) <= sampled
       /\ log[p.at + 1] = OMS!Head1(p.n)
       /\ \A i \in 1..p.n : log[p.at + OMS!HeaderSize + i] = OMS!Frame(p.sample + i)

PacketsInARow ==
  /\ Boundary(0, origin)
  /\ \A p \in packets : Boundary(End(p), Upto(p))
  /\ \A p, q \in packets : p.at < q.at => End(p) <= q.at

Base == got - Len(stream)
Cursor == Base + (IF pos = OMS!Idle THEN 0 ELSE pos)
Reached == origin + (Len(delivered) - here)

StreamOfLog ==
  /\ got <= Len(log) /\ Len(stream) <= got
  /\ \A i \in 1..Len(stream) : stream[i] = log[Base + i]
  /\ pos # OMS!Idle => pos <= Len(stream)

CursorAtPacket ==
  /\ Boundary(Cursor, Reached) /\ Reached <= sampled
  /\ \A p \in packets : p.at < Cursor => Upto(p) <= Reached

DeliveredHere ==
  /\ here <= Len(delivered)
  /\ \A i \in 1..here : delivered[i] <= origin
  /\ \A i \in 1..(Len(delivered) - here) : delivered[here + i] = origin + i

NoPacketWaits ==
  pos = OMS!Idle => /\ Len(stream) < OMS!HeaderSize + MaxFrames
                    /\ \A p \in packets : p.at = Base => got < End(p)

Delivered ==
  /\ \A i, j \in 1..Len(delivered) : i < j => delivered[i] < delivered[j]
  /\ \A i \in 1..Len(delivered) : delivered[i] <= sampled

OMSInv ==
  /\ OMS!TypeOK /\ Delivered
  /\ pos # OMS!Idle => Up
  /\ Up => /\ PacketsInLog /\ PacketsInARow /\ StreamOfLog /\ CursorAtPacket
           /\ DeliveredHere /\ NoPacketWaits

LEMMA Concatenation ==
  ASSUME NEW T, NEW l \in Seq(T), NEW m \in Seq(T), NEW r, r = l \o m
  PROVE  /\ r \in Seq(T) /\ Len(l) \in Nat /\ Len(m) \in Nat /\ Len(r) = Len(l) + Len(m)
         /\ \A i \in 1..Len(l) : r[i] = l[i]
         /\ \A i \in 1..Len(m) : r[Len(l) + i] = m[i]
  <1>1. Len(l) \in Nat /\ Len(m) \in Nat
    OBVIOUS
  <1>2. r \in Seq(T) /\ Len(r) = Len(l) + Len(m)
    OBVIOUS
  <1>3. \A i \in 1..Len(l) : r[i] = l[i]
    BY ConcatProperties
  <1>4. \A i \in 1..Len(m) : r[Len(l) + i] = m[i]
    <2> SUFFICES ASSUME NEW i \in 1..Len(m) PROVE r[Len(l) + i] = m[i]
      OBVIOUS
    <2>1. Len(l) + i \in 1..Len(r) /\ Len(l) + i > Len(l) /\ (Len(l) + i) - Len(l) = i
      BY <1>1, <1>2
    <2> QED BY <2>1, ConcatProperties
  <1> QED BY <1>1, <1>2, <1>3, <1>4

LEMMA Part ==
  ASSUME NEW T, NEW l \in Seq(T), NEW a \in 1..(Len(l) + 1), NEW b \in (a - 1)..Len(l),
         NEW r, r = SubSeq(l, a, b)
  PROVE  /\ r \in Seq(T) /\ Len(r) = b - a + 1
         /\ \A i \in 1..Len(r) : r[i] = l[a + i - 1]
  BY SubSeqProperties

(* The sensor: what is sent next. *)
LEMMA HeaderCells ==
  ASSUME NEW n \in Nat, NEW h, h = <<OMS!Head1(n), OMS!Head2>>
  PROVE  h \in Seq(OMS!Cell) /\ Len(h) = 2 /\ h[1] = OMS!Head1(n)
  <1>1. OMS!Head1(n) \in OMS!Cell /\ OMS!Head2 \in OMS!Cell
    BY DEF OMS!Head1, OMS!Head2, OMS!Cell
  <1> QED BY <1>1

LEMMA SendPacketStep ==
  ASSUME OMSInv, NEW n \in PacketSizes, OMS!SendPacket(n)
  PROVE  OMSInv'
  <1>t. /\ log \in Seq(OMS!Cell) /\ got \in Nat /\ stream \in Seq(OMS!Cell)
        /\ Len(log) \in Nat /\ Len(stream) \in Nat /\ Len(delivered) \in Nat
        /\ pos \in Nat \cup {OMS!Idle} /\ sampled \in Nat /\ origin \in Nat /\ good \in Nat
        /\ packets \subseteq OMS!Packet /\ here \in Nat
    BY DEF OMSInv, OMS!TypeOK
  <1>i. /\ PacketsInLog /\ PacketsInARow /\ StreamOfLog /\ CursorAtPacket
        /\ DeliveredHere /\ NoPacketWaits /\ Delivered
        /\ conn = "connected" /\ conn' = conn /\ Up /\ Up'
        /\ UNCHANGED <<got, stream, pos, origin, delivered, here, drops, failures>>
    BY DEF OMSInv, OMS!SendPacket, Up, OMS!counts
  <1>s. /\ sampled' = sampled + n /\ n \in 1..MaxFrames /\ n \in Nat /\ sampled <= sampled'
        /\ sampled' \in Nat
    BY <1>t, OMSAssumption DEF OMS!SendPacket
  <1>l. /\ log' \in Seq(OMS!Cell) /\ Len(log') = Len(log) + 2 + n
        /\ \A i \in 1..Len(log) : log'[i] = log[i]
        /\ log'[Len(log) + 1] = OMS!Head1(n)
        /\ \A i \in 1..n : log'[Len(log) + 2 + i] = OMS!Frame(sampled + i)
    <2> DEFINE h == <<OMS!Head1(n), OMS!Head2>>
               f == [i \in 1..n |-> OMS!Frame(sampled + i)]
    <2>1. PICK k : k = log \o h /\ log' = k \o f
      BY DEF OMS!SendPacket
    <2>2. h \in Seq(OMS!Cell) /\ Len(h) = 2 /\ h[1] = OMS!Head1(n)
      <3> HIDE DEF h
      <3>1. h = <<OMS!Head1(n), OMS!Head2>>
        BY DEF h
      <3> QED BY <1>s, <3>1, HeaderCells
    <2>3. f \in Seq(OMS!Cell) /\ Len(f) = n /\ \A i \in 1..n : f[i] = OMS!Frame(sampled + i)
      <3>1. \A i \in 1..n : OMS!Frame(sampled + i) \in OMS!Cell
        BY <1>t, <1>s DEF OMS!Frame, OMS!Cell
      <3> QED BY <1>s, <3>1
    <2> HIDE DEF h, f
    <2>4. log \in Seq(OMS!Cell) /\ h \in Seq(OMS!Cell) /\ k = log \o h
      BY <1>t, <2>1, <2>2
    <2>5. /\ k \in Seq(OMS!Cell) /\ Len(log) \in Nat /\ Len(k) = Len(log) + Len(h)
          /\ \A i \in 1..Len(log) : k[i] = log[i]
          /\ \A i \in 1..Len(h) : k[Len(log) + i] = h[i]
      BY ONLY <2>4, Concatenation
    <2>6. k \in Seq(OMS!Cell) /\ f \in Seq(OMS!Cell) /\ log' = k \o f
      BY <2>1, <2>3, <2>5
    <2>7. /\ log' \in Seq(OMS!Cell) /\ Len(log') = Len(k) + Len(f)
          /\ \A i \in 1..Len(k) : log'[i] = k[i]
          /\ \A i \in 1..Len(f) : log'[Len(k) + i] = f[i]
      BY ONLY <2>6, Concatenation
    <2>8. /\ \A i \in 1..Len(log) : i \in 1..Len(k) /\ log'[i] = log[i]
          /\ Len(log) + 1 \in 1..Len(k) /\ 1 \in 1..Len(h)
      BY <2>2, <2>5, <2>7
    <2> QED BY <1>s, <2>2, <2>3, <2>5, <2>7, <2>8
  <1>g. good <= Len(log)
    BY <1>i DEF PacketsInLog
  <1> DEFINE new == [at |-> good, n |-> n, sample |-> sampled]
  <1>n. new \in OMS!Packet /\ new.at = good /\ new.n = n /\ new.sample = sampled
    BY <1>t, <1>s DEF OMS!Packet
  <1>m. \/ good = Len(log) /\ good' = good + 2 + n /\ packets' = packets \cup {new}
        \/ good # Len(log) /\ good' = good /\ packets' = packets
    BY DEF OMS!SendPacket, OMS!HeaderSize
  <1> HIDE DEF new
  <1>e. /\ \A p \in packets : /\ p.at \in Nat /\ p.n \in Nat \ {0} /\ p.sample \in Nat
                              /\ End(p) \in Nat /\ End(p) = p.at + 2 + p.n /\ p.at < End(p)
                              /\ Upto(p) \in Nat
        /\ End(new) = good + 2 + n /\ Upto(new) = sampled'
    BY <1>t, <1>s, <1>n, SMTT(30) DEF OMS!Packet, End, Upto, OMS!HeaderSize
  <1>1. OMS!TypeOK'
    <2>1. good' \in Nat /\ packets' \subseteq OMS!Packet
      BY <1>t, <1>s, <1>n, <1>m
    <2> QED BY <1>i, <1>s, <1>l, <2>1 DEF OMSInv, OMS!TypeOK
  <1>2. Delivered'
    <2>1. \A i \in 1..Len(delivered) : delivered[i] \in Nat
      BY DEF OMSInv, OMS!TypeOK
    <2> QED BY <1>i, <1>t, <1>s, <2>1 DEF Delivered
  <1>3. PacketsInLog'
    <2>1. good' <= Len(log')
      BY <1>t, <1>s, <1>l, <1>g, <1>m
    <2>2. good' < Len(log') => OMS!Malformed(log'[good' + 1])
      <3>1. CASE good = Len(log)
        BY <1>t, <1>s, <1>l, <1>m, <3>1
      <3>2. CASE good # Len(log)
        <4>1. good + 1 \in 1..Len(log) /\ good < Len(log) /\ good' = good
          BY <1>t, <1>g, <1>m, <3>2
        <4>2. log'[good' + 1] = log[good + 1]
          BY <1>l, <4>1
        <4> QED BY <1>i, <4>1, <4>2 DEF PacketsInLog
      <3> QED BY <3>1, <3>2
    <2>3. ASSUME NEW p \in packets'
          PROVE  /\ End(p) <= good' /\ Upto(p) <= sampled'
                 /\ log'[p.at + 1] = OMS!Head1(p.n)
                 /\ \A i \in 1..p.n : log'[p.at + 2 + i] = OMS!Frame(p.sample + i)
      <3>1. CASE p \in packets
        <4>1. End(p) <= good /\ Upto(p) <= sampled
          BY <1>i, <3>1 DEF PacketsInLog
        <4>2. good <= good'
          BY <1>t, <1>s, <1>m
        <4>3. good' \in Nat
          BY <1>t, <1>s, <1>m
        <4>a. /\ p.at \in Nat /\ p.n \in Nat \ {0} /\ p.at + 2 + p.n <= Len(log)
              /\ Len(log) \in Nat
          BY <1>t, <1>g, <1>e, <3>1, <4>1
        <4>4. p.at + 1 \in 1..Len(log) /\ \A i \in 1..p.n : p.at + 2 + i \in 1..Len(log)
          BY ONLY <4>a, SMTT(30)
        <4>5. /\ log'[p.at + 1] = log[p.at + 1]
              /\ \A i \in 1..p.n : log'[p.at + 2 + i] = log[p.at + 2 + i]
          BY <1>l, <4>4
        <4>6. /\ log[p.at + 1] = OMS!Head1(p.n)
              /\ \A i \in 1..p.n : log[p.at + 2 + i] = OMS!Frame(p.sample + i)
          BY <1>i, <3>1 DEF PacketsInLog, OMS!HeaderSize
        <4>7. End(p) <= good' /\ Upto(p) <= sampled'
          BY ONLY <1>t, <1>s, <1>e, <3>1, <4>1, <4>2, <4>3
        <4> QED BY <4>5, <4>6, <4>7
      <3>2. CASE p = new /\ good = Len(log) /\ good' = good + 2 + n
        <4>1. End(p) = good' /\ Upto(p) = sampled'
          BY <1>e, <3>2
        <4>2. /\ log'[p.at + 1] = OMS!Head1(p.n)
              /\ \A i \in 1..p.n : log'[p.at + 2 + i] = OMS!Frame(p.sample + i)
          BY <1>l, <1>n, <3>2
        <4> QED BY <1>t, <1>s, <3>2, <4>1, <4>2
      <3> QED BY <1>m, <3>1, <3>2
    <2> QED BY <2>1, <2>2, <2>3 DEF PacketsInLog, OMS!HeaderSize, End, Upto
  <1> DEFINE Goes(c, s) ==
               \/ c = good' /\ (conn' = "connected" /\ good' = Len(log') => s = sampled')
               \/ \E q \in packets' : q.at = c /\ q.sample = s
  <1>4. \A c, s : Boundary(c, s) => Goes(c, s)
    <2>1. CASE good = Len(log)
      BY <1>i, <1>n, <1>m, <2>1 DEF Boundary
    <2>2. CASE good # Len(log)
      <3>1. good' # Len(log')
        BY <1>t, <1>s, <1>l, <1>g, <1>m, <2>2
      <3> QED BY <1>m, <2>2, <3>1 DEF Boundary
    <2> QED BY <2>1, <2>2
  <1>5. PacketsInARow'
    <2>0. Goes(0, origin)
      BY <1>4, <1>i DEF PacketsInARow
    <2>1. Boundary(0, origin)'
      BY <1>i, <2>0 DEF Boundary
    <2>2. ASSUME NEW p \in packets' PROVE Goes(End(p), Upto(p))
      <3>1. CASE p \in packets
        BY <1>4, <1>i, <3>1 DEF PacketsInARow
      <3>2. CASE p = new /\ good = Len(log) /\ good' = good + 2 + n
        BY <1>e, <3>2
      <3> QED BY <1>m, <3>1, <3>2
    <2>3. ASSUME NEW p \in packets', NEW q \in packets', p.at < q.at PROVE End(p) <= q.at
      <3>1. CASE p \in packets /\ q \in packets
        BY <1>i, <2>3, <3>1 DEF PacketsInARow
      <3>2. CASE p \in packets /\ q = new
        BY <1>i, <1>n, <3>2 DEF PacketsInLog
      <3>3. CASE p = new /\ q \in packets
        <4>1. End(q) <= good
          BY <1>i, <3>3 DEF PacketsInLog
        <4> QED BY <1>t, <1>e, <1>n, <2>3, <3>3, <4>1
      <3>4. CASE p = new /\ q = new
        BY <1>n, <1>t, <2>3, <3>4
      <3> QED BY <1>m, <3>1, <3>2, <3>3, <3>4
    <2> QED BY <2>1, <2>2, <2>3 DEF PacketsInARow, Boundary, End, Upto
  <1>6. /\ Base' = Base /\ Cursor' = Cursor /\ Reached' = Reached
        /\ Base \in Int /\ Cursor \in Int /\ Reached \in Int
    BY <1>i, <1>t DEF Base, Cursor, Reached
  <1>7. StreamOfLog'
    <2>1. Len(stream) <= got /\ got <= Len(log)
      BY <1>i DEF StreamOfLog
    <2>2. \A i \in 1..Len(stream) : Base + i \in 1..Len(log)
      BY <1>t, <2>1 DEF Base
    <2>3. got <= Len(log')
      BY <1>t, <1>s, <1>l, <2>1, SMTT(30)
    <2> QED BY <1>i, <1>l, <1>6, <2>1, <2>2, <2>3 DEF StreamOfLog
  <1>c. Base <= got /\ Cursor <= got /\ got <= Len(log)
    BY <1>i, <1>t DEF Base, Cursor, StreamOfLog
  <1>8. CursorAtPacket'
    <2>1. Goes(Cursor, Reached) /\ Reached <= sampled'
      BY <1>4, <1>i, <1>6, <1>s, <1>t DEF CursorAtPacket
    <2>2. ASSUME NEW p \in packets', p.at < Cursor PROVE Upto(p) <= Reached
      <3>1. CASE p \in packets
        BY <1>i, <2>2, <3>1 DEF CursorAtPacket
      <3>2. CASE p = new /\ good = Len(log)
        BY <1>c, <1>n, <1>t, <1>6, <2>2, <3>2
      <3> QED BY <1>m, <3>1, <3>2
    <2> QED BY <1>6, <2>1, <2>2 DEF CursorAtPacket, Boundary, Upto
  <1>9. NoPacketWaits'
    <2>1. ASSUME pos = OMS!Idle, NEW p \in packets', p.at = Base PROVE got < End(p)
      <3>1. CASE p \in packets
        BY <1>i, <2>1, <3>1 DEF NoPacketWaits
      <3>2. CASE p = new /\ good = Len(log)
        BY <1>c, <1>e, <1>s, <1>t, <3>2
      <3> QED BY <1>m, <3>1, <3>2
    <2> QED BY <1>i, <1>6, <2>1 DEF NoPacketWaits, End
  <1>10. DeliveredHere'
    BY <1>i DEF DeliveredHere
  <1> QED BY <1>i, <1>1, <1>2, <1>3, <1>5, <1>7, <1>8, <1>9, <1>10 DEF OMSInv

LEMMA SendMalformedStep ==
  ASSUME OMSInv, NEW n \in PacketSizes, OMS!SendMalformed(n)
  PROVE  OMSInv'
  <1>t. /\ log \in Seq(OMS!Cell) /\ got \in Nat /\ stream \in Seq(OMS!Cell)
        /\ Len(log) \in Nat /\ Len(stream) \in Nat /\ Len(delivered) \in Nat
        /\ pos \in Nat \cup {OMS!Idle} /\ sampled \in Nat /\ origin \in Nat /\ good \in Nat
        /\ packets \subseteq OMS!Packet /\ here \in Nat
    BY DEF OMSInv, OMS!TypeOK
  <1>i. /\ PacketsInLog /\ PacketsInARow /\ StreamOfLog /\ CursorAtPacket
        /\ DeliveredHere /\ NoPacketWaits /\ Delivered
        /\ conn = "connected" /\ conn' = conn /\ Up /\ Up' /\ good = Len(log)
        /\ UNCHANGED <<got, stream, pos, sampled, origin, packets, good, delivered, here,
                       drops, failures>>
    BY DEF OMSInv, OMS!SendMalformed, Up, OMS!counts, OMS!history
  <1>s. n \in Nat /\ n \notin 1..MaxFrames /\ MaxFrames \in Nat
    BY OMSAssumption DEF OMS!SendMalformed
  <1>l. /\ log' \in Seq(OMS!Cell) /\ Len(log') = Len(log) + 2
        /\ \A i \in 1..Len(log) : log'[i] = log[i]
        /\ log'[Len(log) + 1] = OMS!Head1(n)
    <2> DEFINE h == <<OMS!Head1(n), OMS!Head2>>
    <2>1. h \in Seq(OMS!Cell) /\ Len(h) = 2 /\ h[1] = OMS!Head1(n)
      <3> HIDE DEF h
      <3>1. h = <<OMS!Head1(n), OMS!Head2>>
        BY DEF h
      <3> QED BY <1>s, <3>1, HeaderCells
    <2>2. log' = log \o h
      BY DEF OMS!SendMalformed
    <2> HIDE DEF h
    <2>3. log \in Seq(OMS!Cell) /\ h \in Seq(OMS!Cell)
      BY <1>t, <2>1
    <2>4. /\ log' \in Seq(OMS!Cell) /\ Len(log') = Len(log) + Len(h)
          /\ \A i \in 1..Len(log) : log'[i] = log[i]
          /\ \A i \in 1..Len(h) : log'[Len(log) + i] = h[i]
      BY ONLY <2>2, <2>3, Concatenation
    <2>5. 1 \in 1..Len(h)
      BY <2>1
    <2> QED BY <2>1, <2>4, <2>5
  <1>1. OMS!TypeOK'
    BY <1>i, <1>l DEF OMSInv, OMS!TypeOK
  <1>2. Delivered' /\ DeliveredHere'
    BY <1>i DEF Delivered, DeliveredHere
  <1>3. PacketsInLog'
    <2>1. good' <= Len(log') /\ good' + 1 = Len(log) + 1
      BY <1>t, <1>i, <1>l
    <2>2. OMS!Malformed(log'[good' + 1])
      <3>1. log'[good' + 1] = OMS!Head1(n)
        BY <1>l, <2>1
      <3> QED BY <1>s, <3>1 DEF OMS!Malformed, OMS!Head1
    <2>3. ASSUME NEW p \in packets
          PROVE  /\ log'[p.at + 1] = log[p.at + 1]
                 /\ \A i \in 1..p.n : log'[p.at + 2 + i] = log[p.at + 2 + i]
      <3>1. /\ p.at \in Nat /\ p.n \in Nat \ {0} /\ p.at + 2 + p.n <= Len(log)
            /\ Len(log) \in Nat
        BY <1>t, <1>i, OMSAssumption DEF OMS!Packet, PacketsInLog, End, OMS!HeaderSize
      <3>2. p.at + 1 \in 1..Len(log) /\ \A i \in 1..p.n : p.at + 2 + i \in 1..Len(log)
        BY ONLY <3>1, SMTT(30)
      <3> QED BY <1>l, <3>2
    <2> QED BY <1>i, <2>1, <2>2, <2>3 DEF PacketsInLog, OMS!HeaderSize, End, Upto
  <1>4. \A c, s : Boundary(c, s) => \/ c = good' /\ (conn' = "connected" /\ good' = Len(log')
                                                      => s = sampled')
                                    \/ \E q \in packets' : q.at = c /\ q.sample = s
    <2>1. good' # Len(log')
      BY <1>t, <1>i, <1>l
    <2> QED BY <1>i, <2>1 DEF Boundary
  <1>5. PacketsInARow'
    <2>1. Boundary(0, origin) /\ \A p \in packets : Boundary(End(p), Upto(p))
      BY <1>i DEF PacketsInARow
    <2>2. Boundary(0, origin)' /\ \A p \in packets' : Boundary(End(p), Upto(p))'
      BY <1>4, <1>i, <2>1 DEF Boundary, End, Upto
    <2> QED BY <1>i, <2>2 DEF PacketsInARow, End
  <1>6. Base' = Base /\ Cursor' = Cursor /\ Reached' = Reached
    BY <1>i DEF Base, Cursor, Reached
  <1>7. StreamOfLog'
    <2>1. Len(stream) <= got /\ got <= Len(log)
      BY <1>i DEF StreamOfLog
    <2>2. \A i \in 1..Len(stream) : Base + i \in 1..Len(log)
      BY <1>t, <2>1 DEF Base
    <2>3. got <= Len(log')
      BY <1>t, <1>l, <2>1
    <2> QED BY <1>i, <1>l, <1>6, <2>1, <2>2, <2>3 DEF StreamOfLog
  <1>8. CursorAtPacket'
    <2>1. Boundary(Cursor, Reached)'
      BY <1>4, <1>i, <1>6 DEF CursorAtPacket, Boundary
    <2> QED BY <1>i, <1>6, <2>1 DEF CursorAtPacket, Upto
  <1>9. NoPacketWaits'
    BY <1>i, <1>6 DEF NoPacketWaits, End
  <1> QED BY <1>i, <1>1, <1>2, <1>3, <1>5, <1>7, <1>8, <1>9 DEF OMSInv

(* The connection comes and goes.                                          *)
LEMMA ConnectionStep ==
  ASSUME OMSInv,
         \/ OMS!SkipSample \/ OMS!DropConnection \/ OMS!Connected \/ OMS!ConnectFails
         \/ OMS!Reconnect \/ OMS!HandleError \/ UNCHANGED omsVars
  PROVE  OMSInv'
  <1> USE DEF OMS!history, OMS!counts, OMS!tcp
  <1>t. /\ sampled \in Nat /\ origin \in Nat /\ here \in Nat /\ Len(delivered) \in Nat
        /\ \A i \in 1..Len(delivered) : delivered[i] \in Nat
        /\ MaxFrames \in Nat
    BY OMSAssumption DEF OMSInv, OMS!TypeOK
  <1>1. OMS!TypeOK'
    <2> SUFFICES ASSUME OMS!TypeOK PROVE OMS!TypeOK'
      BY DEF OMSInv
    <2> USE DEF OMS!TypeOK
    <2>1. CASE OMS!SkipSample
      BY <2>1 DEF OMS!SkipSample
    <2>2. CASE OMS!DropConnection
      BY <2>2 DEF OMS!DropConnection
    <2>3. CASE OMS!Connected
      <3>1. log' \in Seq(OMS!Cell) /\ stream' \in Seq(OMS!Cell)
        BY <2>3 DEF OMS!Connected
      <3> QED BY <1>t, <2>3, <3>1 DEF OMS!Connected
    <2>4. CASE OMS!ConnectFails
      BY <2>4 DEF OMS!ConnectFails
    <2>5. CASE OMS!Reconnect
      BY <2>5 DEF OMS!Reconnect
    <2>6. CASE OMS!HandleError
      BY <2>6 DEF OMS!HandleError
    <2>7. CASE UNCHANGED omsVars
      BY <2>7 DEF omsVars
    <2> QED BY <2>1, <2>2, <2>3, <2>4, <2>5, <2>6, <2>7
  <1>2. CASE OMS!SkipSample
    <2>1. /\ UNCHANGED <<conn, log, got, stream, pos, origin, packets, good, delivered, here>>
          /\ sampled' = sampled + 1 /\ conn # "connected"
      BY <1>2 DEF OMS!SkipSample
    <2>2. Delivered'
      BY <1>t, <2>1 DEF OMSInv, Delivered
    <2>3. (pos # OMS!Idle => Up)'
      BY <2>1 DEF OMSInv, Up
    <2>4. CASE Up
      <3>0. /\ PacketsInLog /\ PacketsInARow /\ StreamOfLog /\ CursorAtPacket
            /\ DeliveredHere /\ NoPacketWaits
        BY <2>4 DEF OMSInv
      <3>1. PacketsInLog'
        <4>1. \A p \in packets : Upto(p) \in Nat
          BY DEF OMSInv, OMS!TypeOK, OMS!Packet, Upto
        <4> QED BY <1>t, <2>1, <3>0, <4>1 DEF PacketsInLog, End, Upto
      <3>2. PacketsInARow'
        BY <2>1, <3>0 DEF PacketsInARow, Boundary, End, Upto
      <3>3. CursorAtPacket'
        <4>1. Reached \in Int /\ Reached' = Reached /\ Cursor' = Cursor
          BY <1>t, <2>1 DEF Reached, Cursor, Base
        <4> QED BY <1>t, <2>1, <3>0, <4>1 DEF CursorAtPacket, Boundary, Upto
      <3>4. StreamOfLog' /\ DeliveredHere' /\ NoPacketWaits'
        BY <2>1, <3>0 DEF StreamOfLog, DeliveredHere, NoPacketWaits, Base, End
      <3> QED BY <1>1, <2>2, <2>3, <3>1, <3>2, <3>3, <3>4 DEF OMSInv
    <2>5. CASE ~Up
      BY <1>1, <2>1, <2>2, <2>3, <2>5 DEF OMSInv, Up
    <2> QED BY <2>4, <2>5
  <1>3. CASE OMS!DropConnection \/ UNCHANGED omsVars
    <2>1. /\ UNCHANGED <<log, got, stream, pos, sampled, origin, packets, good, delivered, here>>
          /\ Up' <=> Up
          /\ conn' = "connected" => conn = "connected"
      BY <1>3 DEF OMS!DropConnection, omsVars, Up
    <2>2. Delivered' /\ (pos # OMS!Idle => Up)'
      BY <2>1 DEF OMSInv, Delivered
    <2>3. Up => PacketsInLog' /\ StreamOfLog' /\ DeliveredHere' /\ NoPacketWaits'
      BY <2>1 DEF OMSInv, PacketsInLog, StreamOfLog, DeliveredHere, NoPacketWaits, Base, End, Upto
    <2>4. Up => PacketsInARow' /\ CursorAtPacket'
      BY <2>1 DEF OMSInv, PacketsInARow, CursorAtPacket, Boundary, Reached, Cursor, Base, End, Upto
    <2> QED BY <1>1, <2>1, <2>2, <2>3, <2>4 DEF OMSInv
  <1>4. CASE OMS!Connected
    <2>1. /\ pos = OMS!Idle /\ pos' = pos /\ stream' = <<>> /\ log' = <<>> /\ got' = 0
          /\ packets' = {} /\ good' = 0 /\ origin' = sampled /\ here' = Len(delivered)
          /\ sampled' = sampled /\ delivered' = delivered
      BY <1>4 DEF OMS!Connected, OMSInv, Up
    <2>2. Delivered' /\ DeliveredHere'
      BY <1>t, <2>1 DEF OMSInv, Delivered, DeliveredHere
    <2>3. Base' = 0 /\ Cursor' = 0 /\ Reached' = sampled
      <3>1. Len(stream') = 0
        BY <2>1
      <3>2. Base' = 0
        <4>1. got' = 0
          BY <2>1
        <4>2. Base' = got' - Len(stream')
          BY DEF Base
        <4> QED BY ONLY <3>1, <4>1, <4>2
      <3>3. Cursor' = 0
        BY <2>1, <3>2 DEF Cursor
      <3>4. Reached' = sampled
        <4>1. Reached' = sampled + (Len(delivered) - here')
          BY <2>1 DEF Reached
        <4>2. sampled \in Nat /\ Len(delivered) \in Nat /\ here' = Len(delivered)
          BY <1>t, <2>1
        <4> QED BY ONLY <4>1, <4>2
      <3> QED BY <3>2, <3>3, <3>4
    <2>4. PacketsInLog' /\ PacketsInARow' /\ StreamOfLog' /\ NoPacketWaits'
      BY <1>t, <2>1, <2>3 DEF PacketsInLog, PacketsInARow, StreamOfLog, NoPacketWaits, Boundary,
                              OMS!HeaderSize
    <2>5. CursorAtPacket'
      BY <1>t, <2>1, <2>3 DEF CursorAtPacket, Boundary
    <2> QED BY <1>1, <2>1, <2>2, <2>4, <2>5 DEF OMSInv
  <1>5. CASE OMS!ConnectFails \/ OMS!Reconnect \/ OMS!HandleError
    <2>1. /\ pos = OMS!Idle /\ UNCHANGED <<pos, sampled, delivered>> /\ ~Up'
      BY <1>5 DEF OMS!ConnectFails, OMS!Reconnect, OMS!HandleError, OMSInv, Up
    <2> QED BY <1>1, <2>1 DEF OMSInv, Delivered
  <1> QED BY <1>2, <1>3, <1>4, <1>5

(* The client reads and parses. *)
LEMMA ReadStep ==
  ASSUME OMSInv, NEW k \in 1..(Len(log) - got), OMS!HandleReceive(k)
  PROVE  OMSInv'
  <1>t. /\ log \in Seq(OMS!Cell) /\ got \in Nat /\ stream \in Seq(OMS!Cell)
        /\ Len(log) \in Nat /\ Len(stream) \in Nat /\ Len(delivered) \in Nat
        /\ origin \in Nat /\ here \in Nat
    BY DEF OMSInv, OMS!TypeOK
  <1>i. /\ PacketsInLog /\ PacketsInARow /\ StreamOfLog /\ CursorAtPacket
        /\ DeliveredHere /\ NoPacketWaits /\ Delivered
        /\ Up /\ Up' /\ pos = OMS!Idle /\ pos' = 0 /\ got' = got + k
        /\ UNCHANGED <<conn, log, sampled, origin, packets, good, delivered, here, drops, failures>>
    BY DEF OMSInv, OMS!HandleReceive, Up, OMS!counts, OMS!history
  <1> DEFINE m == SubSeq(log, got + 1, got + k)
  <1>r. stream' = stream \o m
    BY DEF OMS!HandleReceive
  <1>k. k \in Nat \ {0} /\ got + k <= Len(log)
    BY <1>t
  <1>m. /\ m \in Seq(OMS!Cell) /\ Len(m) = k
        /\ \A i \in 1..Len(m) : m[i] = log[got + i]
    <2>1. got + 1 \in 1..(Len(log) + 1) /\ got + k \in ((got + 1) - 1)..Len(log)
      BY ONLY <1>t, <1>k
    <2> HIDE DEF m
    <2>2. m = SubSeq(log, got + 1, got + k)
      BY DEF m
    <2>3. /\ m \in Seq(OMS!Cell) /\ Len(m) = (got + k) - (got + 1) + 1
          /\ \A i \in 1..Len(m) : m[i] = log[(got + 1) + i - 1]
      BY <1>t, <2>1, <2>2, Part
    <2>4. Len(m) = k /\ \A i \in 1..Len(m) : (got + 1) + i - 1 = got + i
      BY <1>t, <1>k, <2>3, SMTT(30)
    <2> QED BY <2>3, <2>4
  <1> HIDE DEF m
  <1>s. /\ stream' \in Seq(OMS!Cell) /\ Len(stream') = Len(stream) + k
        /\ \A i \in 1..Len(stream) : stream'[i] = stream[i]
        /\ \A i \in 1..k : stream'[Len(stream) + i] = m[i]
    <2>1. stream \in Seq(OMS!Cell) /\ m \in Seq(OMS!Cell)
      BY <1>t, <1>m
    <2>2. /\ stream' \in Seq(OMS!Cell) /\ Len(stream') = Len(stream) + Len(m)
          /\ \A i \in 1..Len(stream) : stream'[i] = stream[i]
          /\ \A i \in 1..Len(m) : stream'[Len(stream) + i] = m[i]
      BY ONLY <1>r, <2>1, Concatenation
    <2> QED BY <1>m, <2>2
  <1>b. /\ Base \in Int /\ Base = got - Len(stream) /\ Cursor = Base
        /\ Base' = Base /\ Cursor' = Cursor /\ Reached' = Reached
    <2>1. Base \in Int /\ Base = got - Len(stream)
      BY <1>t DEF Base
    <2>2. Base' = (got + k) - Len(stream')
      BY <1>i DEF Base
    <2>3. Base' = Base
      BY ONLY <1>t, <1>k, <1>s, <2>1, <2>2
    <2>4. Cursor = Base /\ Cursor' = Base' /\ Reached' = Reached
      BY <1>i, <2>1, <2>3 DEF Cursor, Reached, OMS!Idle
    <2> QED BY <2>1, <2>3, <2>4
  <1>1. OMS!TypeOK'
    BY <1>i, <1>k, <1>t, <1>s DEF OMSInv, OMS!TypeOK
  <1>2. Delivered' /\ DeliveredHere' /\ PacketsInLog' /\ PacketsInARow'
    BY <1>i DEF Delivered, DeliveredHere, PacketsInLog, PacketsInARow, Boundary, End, Upto
  <1>3. StreamOfLog'
    <2>1. Len(stream) <= got
      BY <1>i DEF StreamOfLog
    <2>2. got' <= Len(log') /\ Len(stream') <= got' /\ pos' <= Len(stream')
      BY <1>i, <1>k, <1>t, <1>s, <2>1
    <2>3. ASSUME NEW i \in 1..Len(stream') PROVE stream'[i] = log[Base + i]
      <3>1. CASE i \in 1..Len(stream)
        BY <1>i, <1>s, <3>1 DEF StreamOfLog
      <3>2. CASE i \notin 1..Len(stream)
        <4> DEFINE j == i - Len(stream)
        <4>1. j \in 1..k /\ i = Len(stream) + j /\ Base + i = got + j
          BY <1>b, <1>k, <1>t, <1>s, <3>2
        <4> HIDE DEF j
        <4> QED BY <1>m, <1>s, <4>1
      <3> QED BY <3>1, <3>2
    <2> QED BY <1>b, <1>i, <2>2, <2>3 DEF StreamOfLog
  <1>4. CursorAtPacket'
    BY <1>i, <1>b DEF CursorAtPacket, Boundary, Upto
  <1>5. NoPacketWaits'
    BY <1>i DEF NoPacketWaits, OMS!Idle
  <1> QED BY <1>i, <1>1, <1>2, <1>3, <1>4, <1>5 DEF OMSInv

LEMMA CellsOfPacket ==
  ASSUME PacketsInLog, packets \subseteq OMS!Packet, NEW p \in packets
  PROVE  /\ p.at \in Nat /\ p.n \in 1..MaxFrames /\ p.n \in Nat \ {0} /\ p.sample \in Nat
         /\ Upto(p) = p.sample + p.n /\ Upto(p) <= sampled
         /\ End(p) = p.at + 2 + p.n /\ End(p) <= good
         /\ log[p.at + 1] = OMS!Head1(p.n)
         /\ \A i \in 1..p.n : log[p.at + 2 + i] = OMS!Frame(p.sample + i)
  <1>1. p.at \in Nat /\ p.n \in 1..MaxFrames /\ p.n \in Nat \ {0} /\ p.sample \in Nat
    BY OMSAssumption DEF OMS!Packet
  <1>2. Upto(p) = p.sample + p.n /\ End(p) = p.at + 2 + p.n
    BY DEF Upto, End, OMS!HeaderSize
  <1> QED BY <1>1, <1>2 DEF PacketsInLog, OMS!HeaderSize

LEMMA Numbers ==
  ASSUME NEW a, NEW b
  PROVE  /\ OMS!Head1(a) = OMS!Head1(b) => a = b
         /\ OMS!Frame(a) = OMS!Frame(b) => a = b
         /\ OMS!Head1(a).n = a /\ OMS!Frame(a).n = a
  <1>1. OMS!Head1(a).n = a /\ OMS!Frame(a).n = a /\ OMS!Head1(b).n = b /\ OMS!Frame(b).n = b
    BY DEF OMS!Head1, OMS!Frame
  <1> QED BY <1>1

LEMMA ParsePacketStep ==
  ASSUME OMSInv, OMS!ParsePacket
  PROVE  OMSInv'
  <1>t. /\ log \in Seq(OMS!Cell) /\ got \in Nat /\ stream \in Seq(OMS!Cell)
        /\ Len(log) \in Nat /\ Len(stream) \in Nat /\ delivered \in Seq(Nat)
        /\ Len(delivered) \in Nat /\ sampled \in Nat /\ good \in Nat
        /\ origin \in Nat /\ here \in Nat /\ packets \subseteq OMS!Packet /\ MaxFrames \in Nat
    BY OMSAssumption DEF OMSInv, OMS!TypeOK
  <1> DEFINE n == stream[pos + 1].n
             f == [i \in 1..n |-> stream[pos + 2 + i].n]
  <1>i. /\ PacketsInLog /\ PacketsInARow /\ StreamOfLog /\ CursorAtPacket
        /\ DeliveredHere /\ NoPacketWaits /\ Delivered /\ Up /\ Up'
        /\ pos \in Nat /\ pos # OMS!Idle /\ pos' = pos + 2 + n /\ delivered' = delivered \o f
        /\ ~OMS!Malformed(stream[pos + 1])
        /\ Len(stream) - pos >= 2 /\ Len(stream) - pos >= 2 + n
        /\ UNCHANGED <<conn, log, got, stream, sampled, origin, packets, good, here,
                       drops, failures>>
    BY DEF OMSInv, OMS!TypeOK, OMS!ParsePacket, OMS!PacketRead, OMS!HeaderRead, OMS!Left,
           OMS!HeaderSize, Up, OMS!counts, OMS!history, OMS!tcp
  <1>s. /\ got <= Len(log) /\ Len(stream) <= got
        /\ \A i \in 1..Len(stream) : stream[i] = log[Base + i]
    BY <1>i DEF StreamOfLog
  <1>b. /\ Base \in Nat /\ Base + Len(stream) = got /\ Cursor = Base + pos
        /\ Cursor \in Nat /\ Reached \in Int /\ Reached = origin + (Len(delivered) - here)
    BY <1>i, <1>s, <1>t DEF Base, Cursor, Reached
  <1>h. /\ pos + 1 \in 1..Len(stream) /\ Cursor + 2 <= Len(log)
        /\ stream[pos + 1] = log[Cursor + 1]
    <2>1. pos \in Nat /\ Len(stream) - pos >= 2
      BY <1>i
    <2>2. /\ Base \in Nat /\ Base + Len(stream) = got /\ Cursor = Base + pos
          /\ got <= Len(log)
      BY <1>b, <1>s
    <2>3. Len(stream) \in Nat /\ Len(log) \in Nat /\ got \in Nat
      BY <1>t
    <2>4. pos + 1 \in 1..Len(stream) /\ Base + (pos + 1) = Cursor + 1 /\ Cursor + 2 <= Len(log)
      BY ONLY <2>1, <2>2, <2>3
    <2> QED BY <1>s, <2>4
  <1>1. PICK q \in packets : q.at = Cursor /\ q.sample = Reached
    <2>1. Cursor # good
      <3> SUFFICES ASSUME Cursor = good PROVE FALSE
        OBVIOUS
      <3>1. OMS!Malformed(log[good + 1])
        BY <1>i, <1>h, <1>t DEF PacketsInLog
      <3> QED BY <1>i, <1>h, <3>1
    <2> QED BY <1>i, <2>1 DEF CursorAtPacket, Boundary
  <1>q. /\ q.n \in 1..MaxFrames /\ q.n \in Nat \ {0} /\ Reached \in Nat
        /\ log[Cursor + 1] = OMS!Head1(q.n) /\ Upto(q) <= sampled
        /\ \A i \in 1..q.n : log[Cursor + 2 + i] = OMS!Frame(Reached + i)
    <2>1. /\ q.n \in 1..MaxFrames /\ q.n \in Nat \ {0} /\ q.sample \in Nat
          /\ Upto(q) <= sampled /\ log[q.at + 1] = OMS!Head1(q.n)
          /\ \A i \in 1..q.n : log[q.at + 2 + i] = OMS!Frame(q.sample + i)
      BY <1>i, <1>t, CellsOfPacket
    <2> QED BY <1>1, <2>1
  <1>n. n = q.n
    <2>1. stream[pos + 1] = OMS!Head1(q.n)
      BY <1>h, <1>q
    <2> QED BY <2>1, Numbers
  <1>f. f \in Seq(Nat) /\ Len(f) = n /\ \A i \in 1..n : f[i] = Reached + i
    <2>1. \A i \in 1..n : stream[pos + 2 + i].n = Reached + i /\ Reached + i \in Nat
      <3> SUFFICES ASSUME NEW i \in 1..n
                   PROVE  stream[pos + 2 + i].n = Reached + i /\ Reached + i \in Nat
        OBVIOUS
      <3>1. n \in Nat \ {0}
        BY <1>n, <1>q
      <3> HIDE DEF n
      <3>2. pos + 2 + i \in 1..Len(stream) /\ Base + (pos + 2 + i) = Cursor + 2 + i
        BY <1>i, <1>b, <1>t, <3>1
      <3>3. stream[pos + 2 + i] = log[Cursor + 2 + i]
        BY <1>s, <3>2
      <3>4. log[Cursor + 2 + i] = OMS!Frame(Reached + i)
        BY <1>q, <1>n
      <3> QED BY <1>q, <3>3, <3>4 DEF OMS!Frame
    <2>2. n \in Nat
      BY <1>n, <1>q
    <2> HIDE DEF n
    <2> QED BY <2>1, <2>2
  <1> HIDE DEF n, f
  <1>d. /\ delivered' \in Seq(Nat) /\ Len(delivered') = Len(delivered) + n
        /\ \A i \in 1..Len(delivered) : delivered'[i] = delivered[i]
        /\ \A i \in 1..n : delivered'[Len(delivered) + i] = Reached + i
    <2>1. delivered \in Seq(Nat) /\ f \in Seq(Nat) /\ delivered' = delivered \o f
      BY <1>t, <1>f, <1>i
    <2>2. /\ delivered' \in Seq(Nat) /\ Len(delivered') = Len(delivered) + Len(f)
          /\ \A i \in 1..Len(delivered) : delivered'[i] = delivered[i]
          /\ \A i \in 1..Len(f) : delivered'[Len(delivered) + i] = f[i]
      BY ONLY <2>1, Concatenation
    <2> QED BY <1>f, <2>2
  <1>e. n \in Nat \ {0} /\ End(q) = Cursor + 2 + n /\ Upto(q) = Reached + n
    BY <1>1, <1>n, <1>q DEF End, Upto, OMS!HeaderSize
  <1>c. /\ Base' = Base /\ Cursor' = End(q) /\ Reached' = Upto(q)
        /\ Cursor' \in Nat /\ Reached' \in Nat
    <2>1. Base' = Base
      BY <1>i DEF Base
    <2>2. pos' \in Nat /\ pos' # OMS!Idle
      BY <1>i, <1>e DEF OMS!Idle
    <2>3. Cursor' = Base + (pos + 2 + n)
      BY <1>i, <2>1, <2>2 DEF Cursor
    <2>4. Reached' = origin + (Len(delivered) + n - here)
      <3>1. Reached' = origin' + (Len(delivered') - here')
        BY DEF Reached
      <3>2. origin' = origin /\ here' = here /\ Len(delivered') = Len(delivered) + n
        BY <1>i, <1>d
      <3>3. origin \in Nat /\ here \in Nat /\ n \in Nat /\ Len(delivered) \in Nat
        BY <1>t, <1>e
      <3> QED BY ONLY <3>1, <3>2, <3>3
    <2>5. Cursor' = Cursor + 2 + n /\ Cursor' \in Nat
      BY ONLY <1>b, <1>e, <2>3, <1>i
    <2>6. Reached' = Reached + n
      BY ONLY <1>b, <1>e, <2>4, <1>t
    <2> QED BY <1>e, <1>q, <2>1, <2>5, <2>6
  <1>2. OMS!TypeOK'
    <2>1. pos' \in Nat
      BY <1>i, <1>e
    <2> QED BY <1>i, <1>d, <2>1 DEF OMSInv, OMS!TypeOK
  <1>3. PacketsInLog' /\ PacketsInARow'
    BY <1>i DEF PacketsInLog, PacketsInARow, Boundary, End, Upto
  <1>4. StreamOfLog' /\ NoPacketWaits'
    <2>1. pos' <= Len(stream') /\ pos' # OMS!Idle
      BY <1>i, <1>e, <1>t DEF OMS!Idle
    <2> QED BY <1>c, <1>i, <1>s, <2>1 DEF StreamOfLog, NoPacketWaits
  <1>5. CursorAtPacket'
    <2>1. Boundary(End(q), Upto(q))
      BY <1>i DEF PacketsInARow
    <2>2. ASSUME NEW p \in packets, p.at < Cursor' PROVE Upto(p) <= Reached'
      <3>1. p.at \in Nat /\ q.at \in Nat /\ Upto(p) \in Nat
        BY <1>t DEF OMS!Packet, Upto
      <3>2. CASE p.at < Cursor
        <4>1. Upto(p) <= Reached
          BY <1>i, <3>2 DEF CursorAtPacket
        <4> QED BY ONLY <1>b, <1>c, <1>e, <1>q, <3>1, <4>1, SMTT(30)
      <3>3. CASE p.at = Cursor
        <4>1. /\ log[Cursor + 1] = OMS!Head1(p.n) /\ p.n \in Nat \ {0} /\ p.sample \in Nat
              /\ \A i \in 1..p.n : log[Cursor + 2 + i] = OMS!Frame(p.sample + i)
          <5>1. /\ log[p.at + 1] = OMS!Head1(p.n) /\ p.n \in Nat \ {0} /\ p.sample \in Nat
                /\ \A i \in 1..p.n : log[p.at + 2 + i] = OMS!Frame(p.sample + i)
            BY <1>i, <1>t, CellsOfPacket
          <5> QED BY <3>3, <5>1
        <4>2. p.n = n /\ 1 \in 1..p.n /\ 1 \in 1..q.n
          <5>1. p.n = q.n
            BY <1>q, <4>1, Numbers
          <5> QED BY <1>n, <1>q, <4>1, <5>1
        <4>3. p.sample + 1 = Reached + 1
          <5>1. OMS!Frame(p.sample + 1) = OMS!Frame(Reached + 1)
            BY <1>q, <4>1, <4>2
          <5> QED BY <5>1, Numbers
        <4> QED BY <1>c, <1>e, <1>q, <4>1, <4>2, <4>3 DEF Upto
      <3>4. CASE p.at > Cursor
        <4>1. End(q) <= p.at
          BY <1>1, <1>i, <3>4 DEF PacketsInARow
        <4> QED BY <1>c, <2>2, <3>1, <4>1
      <3> QED BY <1>b, <3>1, <3>2, <3>3, <3>4
    <2>3. Boundary(Cursor, Reached)'
      BY <1>c, <1>i, <2>1 DEF Boundary
    <2> QED BY <1>c, <1>i, <1>q, <2>2, <2>3 DEF CursorAtPacket, Upto
  <1>w. here <= Len(delivered)
    BY <1>i DEF DeliveredHere
  <1>v. \A i \in 1..Len(delivered) : delivered[i] \in Nat /\ delivered[i] <= Reached
    <2> SUFFICES ASSUME NEW i \in 1..Len(delivered)
                 PROVE  delivered[i] \in Nat /\ delivered[i] <= Reached
      OBVIOUS
    <2>0. delivered[i] \in Nat
      BY <1>t
    <2>1. CASE i \in 1..here
      <3>1. delivered[i] <= origin
        BY <1>i, <2>1 DEF DeliveredHere
      <3> QED BY <1>b, <1>t, <1>w, <2>0, <3>1, SMTT(30)
    <2>2. CASE i \notin 1..here
      <3> DEFINE j == i - here
      <3>1. j \in 1..(Len(delivered) - here) /\ i = here + j /\ origin + j <= Reached
        BY <1>b, <1>t, <1>w, <2>2
      <3> HIDE DEF j
      <3>2. delivered[i] = origin + j
        BY <1>i, <3>1 DEF DeliveredHere
      <3> QED BY <2>0, <3>1, <3>2
    <2> QED BY <2>1, <2>2
  <1>6. DeliveredHere'
    <2>1. here <= Len(delivered')
      BY <1>d, <1>e, <1>t, <1>w
    <2>2. \A i \in 1..here : delivered'[i] <= origin
      <3>1. \A i \in 1..here : i \in 1..Len(delivered)
        BY <1>t, <1>w
      <3> QED BY <1>d, <1>i, <3>1 DEF DeliveredHere
    <2>3. ASSUME NEW i \in 1..(Len(delivered') - here) PROVE delivered'[here + i] = origin + i
      <3>1. CASE i \in 1..(Len(delivered) - here)
        <4>1. here + i \in 1..Len(delivered)
          BY <1>t, <1>w, <3>1
        <4> QED BY <1>d, <1>i, <3>1, <4>1 DEF DeliveredHere
      <3>2. CASE i \notin 1..(Len(delivered) - here)
        <4> DEFINE j == here + i - Len(delivered)
        <4>1. /\ j \in 1..n /\ here + i = Len(delivered) + j /\ Reached + j = origin + i
          BY <1>b, <1>d, <1>e, <1>t, <1>w, <3>2
        <4> HIDE DEF j
        <4>2. delivered'[Len(delivered) + j] = Reached + j
          BY <1>d, <4>1
        <4> QED BY <4>1, <4>2
      <3> QED BY <3>1, <3>2
    <2> QED BY <1>i, <2>1, <2>2, <2>3 DEF DeliveredHere
  <1>7. Delivered'
    <2>1. ASSUME NEW i \in 1..Len(delivered')
          PROVE  \/ i \in 1..Len(delivered) /\ delivered'[i] = delivered[i]
                 \/ \E k \in 1..n : i = Len(delivered) + k /\ delivered'[i] = Reached + k
      <3>1. CASE i \in 1..Len(delivered)
        BY <1>d, <3>1
      <3>2. CASE i \notin 1..Len(delivered)
        <4> DEFINE k == i - Len(delivered)
        <4>1. k \in 1..n /\ i = Len(delivered) + k
          BY <1>d, <1>e, <1>t, <3>2
        <4> HIDE DEF k
        <4>2. delivered'[Len(delivered) + k] = Reached + k
          BY <1>d, <4>1
        <4> QED BY <4>1, <4>2
      <3> QED BY <3>1, <3>2
    <2>2. ASSUME NEW i \in 1..Len(delivered'), NEW j \in 1..Len(delivered'), i < j
          PROVE  delivered'[i] < delivered'[j]
      <3>1. CASE j \in 1..Len(delivered) /\ delivered'[j] = delivered[j]
        <4>1. i \in 1..Len(delivered)
          BY <1>t, <2>2, <3>1
        <4> QED BY <1>d, <1>i, <2>2, <3>1, <4>1 DEF Delivered
      <3>2. ASSUME NEW k \in 1..n, j = Len(delivered) + k, delivered'[j] = Reached + k
            PROVE  delivered'[i] < delivered'[j]
        <4>1. CASE i \in 1..Len(delivered) /\ delivered'[i] = delivered[i]
          <5>1. delivered[i] \in Nat /\ delivered[i] <= Reached
            BY <1>v, <4>1
          <5> QED BY <1>e, <1>q, <3>2, <4>1, <5>1
        <4>2. ASSUME NEW l \in 1..n, i = Len(delivered) + l, delivered'[i] = Reached + l
              PROVE  delivered'[i] < delivered'[j]
          BY <1>e, <1>q, <1>t, <2>2, <3>2, <4>2
        <4> QED BY <2>1, <4>1, <4>2
      <3> QED BY <2>1, <3>1, <3>2
    <2>3. ASSUME NEW i \in 1..Len(delivered') PROVE delivered'[i] <= sampled
      <3>1. CASE i \in 1..Len(delivered) /\ delivered'[i] = delivered[i]
        BY <1>i, <3>1 DEF Delivered
      <3>2. ASSUME NEW k \in 1..n, delivered'[i] = Reached + k PROVE delivered'[i] <= sampled
        <4>1. Reached + n <= sampled
          BY <1>e, <1>q
        <4> QED BY <1>e, <1>q, <1>t, <3>2, <4>1
      <3> QED BY <2>1, <3>1, <3>2
    <2> QED BY <1>i, <2>2, <2>3 DEF Delivered
  <1> QED BY <1>i, <1>2, <1>3, <1>4, <1>5, <1>6, <1>7 DEF OMSInv

LEMMA ParseEndsStep ==
  ASSUME OMSInv, OMS!ParseEnds
  PROVE  OMSInv'
  <1>t. /\ log \in Seq(OMS!Cell) /\ got \in Nat /\ stream \in Seq(OMS!Cell)
        /\ Len(log) \in Nat /\ Len(stream) \in Nat /\ Len(delivered) \in Nat
        /\ origin \in Nat /\ here \in Nat /\ packets \subseteq OMS!Packet /\ MaxFrames \in Nat
    BY OMSAssumption DEF OMSInv, OMS!TypeOK
  <1> DEFINE n == stream[pos + 1].n
             left == Len(stream) - pos
  <1>i. /\ PacketsInLog /\ PacketsInARow /\ StreamOfLog /\ CursorAtPacket
        /\ DeliveredHere /\ NoPacketWaits /\ Delivered /\ Up /\ Up'
        /\ pos \in Nat /\ pos # OMS!Idle /\ pos' = OMS!Idle /\ pos <= Len(stream)
        /\ stream' = SubSeq(stream, pos + 1, Len(stream))
        /\ UNCHANGED <<conn, log, got, sampled, origin, packets, good, delivered, here,
                       drops, failures>>
    BY DEF OMSInv, OMS!TypeOK, OMS!ParseEnds, StreamOfLog, Up, OMS!counts, OMS!history, OMS!tcp
  <1>l. \/ left < 2
        \/ /\ left >= 2 /\ left < 2 + n
           /\ ~OMS!Malformed(stream[pos + 1])
    <2>1. left \in Int
      BY <1>i, <1>t
    <2>2. /\ ~OMS!PacketRead /\ (OMS!HeaderRead => ~OMS!Malformed(stream[pos + 1]))
      BY DEF OMS!ParseEnds
    <2>3. OMS!HeaderRead <=> left >= 2
      BY DEF OMS!HeaderRead, OMS!Left, OMS!HeaderSize
    <2>4. CASE left < 2
      BY <2>4
    <2>5. CASE left >= 2
      <3>1. n \in Nat
        <4>1. pos + 1 \in 1..Len(stream)
          BY <1>i, <1>t, <2>5
        <4>2. stream[pos + 1] \in OMS!Cell
          BY <1>t, <4>1
        <4> QED BY <4>2 DEF OMS!Cell
      <3>2. ~(left >= 2 + n)
        BY <2>2, <2>3, <2>5 DEF OMS!PacketRead, OMS!Left, OMS!HeaderSize
      <3> QED BY <2>1, <2>2, <2>3, <2>5, <3>1, <3>2
    <2> QED BY <2>1, <2>4, <2>5
  <1>s. /\ got <= Len(log) /\ Len(stream) <= got
        /\ \A i \in 1..Len(stream) : stream[i] = log[Base + i]
    BY <1>i DEF StreamOfLog
  <1>b. /\ Base \in Nat /\ Base + Len(stream) = got /\ Cursor = Base + pos
        /\ Cursor \in Nat /\ left \in Nat /\ got = Cursor + left
    BY <1>i, <1>s, <1>t DEF Base, Cursor
  <1>r. /\ stream' \in Seq(OMS!Cell) /\ Len(stream') = left
        /\ \A i \in 1..left : stream'[i] = stream[pos + i]
    <2>1. pos + 1 \in 1..(Len(stream) + 1) /\ Len(stream) \in ((pos + 1) - 1)..Len(stream)
      BY ONLY <1>i, <1>t
    <2>2. /\ stream' \in Seq(OMS!Cell) /\ Len(stream') = Len(stream) - (pos + 1) + 1
          /\ \A i \in 1..Len(stream') : stream'[i] = stream[(pos + 1) + i - 1]
      BY <1>i, <1>t, <2>1, Part
    <2>3. Len(stream') = left /\ \A i \in 1..left : (pos + 1) + i - 1 = pos + i
      BY <1>i, <1>t, <2>2
    <2> QED BY <2>2, <2>3
  <1>h. left >= 2 => stream[pos + 1] = log[Cursor + 1]
    <2> SUFFICES ASSUME left >= 2 PROVE stream[pos + 1] = log[Cursor + 1]
      OBVIOUS
    <2>1. pos + 1 \in 1..Len(stream) /\ Base + (pos + 1) = Cursor + 1
      BY <1>b, <1>i, <1>t
    <2> QED BY <1>s, <2>1
  <1> HIDE DEF n, left
  <1>c. /\ Base' = Cursor /\ Cursor' = Cursor /\ Reached' = Reached
    <2>1. Base' = got - left
      BY <1>i, <1>r DEF Base
    <2>2. Base' = Cursor
      BY ONLY <1>b, <2>1
    <2>3. Cursor' = Base' + 0
      BY <1>i DEF Cursor
    <2>4. Cursor' = Cursor
      BY ONLY <1>b, <2>2, <2>3
    <2>5. Reached' = Reached
      BY <1>i DEF Reached
    <2> QED BY <2>2, <2>4, <2>5
  <1>1. OMS!TypeOK'
    BY <1>i, <1>r DEF OMSInv, OMS!TypeOK
  <1>2. Delivered' /\ DeliveredHere' /\ PacketsInLog' /\ PacketsInARow'
    BY <1>i DEF Delivered, DeliveredHere, PacketsInLog, PacketsInARow, Boundary, End, Upto
  <1>3. StreamOfLog'
    <2>1. Len(stream') <= got' /\ got' <= Len(log')
      BY <1>b, <1>i, <1>r, <1>s
    <2>2. ASSUME NEW i \in 1..left PROVE stream'[i] = log[Cursor + i]
      <3>1. pos + i \in 1..Len(stream) /\ Base + (pos + i) = Cursor + i
        BY <1>b, <1>i, <1>t
      <3>2. stream[pos + i] = log[Cursor + i]
        BY <1>s, <3>1
      <3> QED BY <1>r, <3>2
    <2> QED BY <1>c, <1>i, <1>r, <2>1, <2>2 DEF StreamOfLog
  <1>4. CursorAtPacket'
    BY <1>c, <1>i DEF CursorAtPacket, Boundary, Upto
  <1>5. NoPacketWaits'
    <2>1. Len(stream') < 2 + MaxFrames
      <3>1. CASE left < 2
        BY <1>b, <1>r, <1>t, <3>1
      <3>2. CASE left >= 2 /\ left < 2 + n /\ ~OMS!Malformed(stream[pos + 1])
        <4>1. stream[pos + 1] \in OMS!Cell
          <5>1. pos + 1 \in 1..Len(stream)
            BY <1>i, <1>t, <3>2 DEF left
          <5> QED BY <1>t, <5>1
        <4>2. n \in Nat /\ ~(n > MaxFrames)
          BY <3>2, <4>1 DEF n, OMS!Malformed, OMS!Cell
        <4> QED BY ONLY <1>b, <1>r, <1>t, <3>2, <4>2
      <3> QED BY <1>l, <3>1, <3>2
    <2>2. ASSUME NEW p \in packets, p.at = Cursor PROVE got < End(p)
      <3>1. /\ p.n \in Nat \ {0} /\ End(p) = p.at + 2 + p.n
            /\ log[p.at + 1] = OMS!Head1(p.n)
        BY <1>i, <1>t, CellsOfPacket
      <3>2. CASE left < 2
        BY <1>b, <2>2, <3>1, <3>2
      <3>3. CASE left >= 2 /\ left < 2 + n
        <4>1. stream[pos + 1] = OMS!Head1(p.n)
          BY <1>h, <2>2, <3>1, <3>3
        <4>2. n = p.n
          BY <4>1, Numbers DEF n
        <4> QED BY <1>b, <2>2, <3>1, <3>3, <4>2
      <3> QED BY <1>l, <3>2, <3>3
    <2> QED BY <1>c, <1>i, <2>1, <2>2 DEF NoPacketWaits, End, OMS!HeaderSize
  <1> QED BY <1>i, <1>1, <1>2, <1>3, <1>4, <1>5 DEF OMSInv

LEMMA ParseFailsStep ==
  ASSUME OMSInv, OMS!ParseFails
  PROVE  OMSInv'
  <1>1. /\ pos' = OMS!Idle /\ conn' = "waiting" /\ ~Up'
        /\ UNCHANGED <<log, got, stream, sampled, origin, packets, good, delivered, here,
                       drops, failures>>
    BY DEF OMS!ParseFails, Up, OMS!counts, OMS!history, OMS!tcp
  <1>2. OMS!TypeOK' /\ Delivered'
    BY <1>1 DEF OMSInv, OMS!TypeOK, Delivered
  <1> QED BY <1>1, <1>2 DEF OMSInv

LEMMA OMSAlways == Spec => []OMSInv
  <1>1. Init => OMSInv
    <2> SUFFICES ASSUME OMS!Init PROVE OMSInv
      BY DEF Init
    <2>1. log = <<>> /\ stream = <<>> /\ delivered = <<>> /\ Len(delivered) = 0 /\ ~Up
      BY DEF OMS!Init, Up
    <2>2. log \in Seq(OMS!Cell) /\ stream \in Seq(OMS!Cell) /\ delivered \in Seq(Nat)
      BY <2>1
    <2>3. OMS!TypeOK /\ pos = OMS!Idle
      BY <2>2 DEF OMS!Init, OMS!TypeOK
    <2>4. Delivered
      BY <2>1 DEF Delivered
    <2> QED BY <2>1, <2>3, <2>4 DEF OMSInv
  <1>2. OMSInv /\ [Next]_vars => OMSInv'
    <2> SUFFICES ASSUME OMSInv, OMS!Next \/ UNCHANGED omsVars PROVE OMSInv'
      BY OtherFeeds
    <2> QED BY SendPacketStep, SendMalformedStep, ConnectionStep, ReadStep, ParsePacketStep,
               ParseEndsStep, ParseFailsStep DEF OMS!Next
  <1> QED BY <1>1, <1>2, PTL DEF Spec

(* However the packets are cut, whatever a header announces, and whenever  *)
(* the connection breaks, samples are delivered at most once and in order; *)
(* a connection that lasts leaves none out.                                *)
THEOREM FramesArriveOnceEach == Spec => []FramesArriveOnce
  <1>1. ASSUME OMSInv PROVE FramesArriveOnce
    <2>1. \A i, j \in 1..Len(delivered) : i < j => delivered[i] < delivered[j]
      BY <1>1 DEF OMSInv, Delivered
    <2>2. ASSUME conn \in {"connected", "lost"}
          PROVE  /\ \A i \in 1..(Len(delivered) - here) : delivered[here + i] = origin + i
                 /\ pos = OMS!Idle =>
                      /\ \A p \in packets : p.at + OMS!HeaderSize + p.n <= got =>
                            p.sample + p.n <= origin + (Len(delivered) - here)
                      /\ Len(stream) < OMS!HeaderSize + MaxFrames
      <3>0. /\ PacketsInLog /\ PacketsInARow /\ CursorAtPacket /\ DeliveredHere /\ NoPacketWaits
            /\ packets \subseteq OMS!Packet /\ got \in Nat
        BY <1>1, <2>2 DEF OMSInv, Up, OMS!TypeOK
      <3>1. \A i \in 1..(Len(delivered) - here) : delivered[here + i] = origin + i
        BY <3>0 DEF DeliveredHere
      <3>2. ASSUME pos = OMS!Idle, NEW p \in packets, End(p) <= got
            PROVE  Upto(p) <= Reached
        <4> SUFFICES ASSUME ~(p.at < Cursor) PROVE FALSE
          BY <3>0 DEF CursorAtPacket
        <4>0. /\ Base \in Int /\ Cursor = Base
          <5>1. Len(stream) \in Nat
            BY <1>1 DEF OMSInv, OMS!TypeOK
          <5> QED BY <3>0, <3>2, <5>1 DEF Base, Cursor
        <4>1. p.at \in Nat /\ p.n \in Nat \ {0} /\ End(p) = p.at + 2 + p.n /\ End(p) <= good
          BY <3>0, CellsOfPacket
        <4>2. CASE Cursor = good
          <5>1. good \in Nat
            BY <1>1 DEF OMSInv, OMS!TypeOK
          <5> QED BY <4>0, <4>1, <4>2, <5>1
        <4>3. ASSUME NEW q \in packets, q.at = Cursor PROVE FALSE
          <5>1. q.n \in Nat \ {0} /\ End(q) = q.at + 2 + q.n /\ got < End(q)
            BY <3>0, <3>2, <4>0, <4>3, CellsOfPacket DEF NoPacketWaits
          <5>2. CASE p.at > Cursor
            <6>1. End(q) <= p.at
              BY <3>0, <4>3, <5>2 DEF PacketsInARow
            <6> QED BY <3>0, <3>2, <4>0, <4>1, <4>3, <5>1, <6>1
          <5>3. CASE p.at = Cursor
            BY <3>0, <3>2, <4>0, <4>1, <5>3 DEF NoPacketWaits
          <5> QED BY <4>0, <4>1, <5>2, <5>3
        <4> QED BY <3>0, <4>2, <4>3 DEF CursorAtPacket, Boundary
      <3>3. pos = OMS!Idle => Len(stream) < OMS!HeaderSize + MaxFrames
        BY <3>0 DEF NoPacketWaits
      <3> QED BY <3>1, <3>2, <3>3 DEF End, Upto, Reached
    <2> QED BY <2>1, <2>2 DEF FramesArriveOnce, OMS!FramesArriveOnce
  <1> QED BY <1>1, OMSAlways, PTL
=============================================================================
