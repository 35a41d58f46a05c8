------------------------- MODULE StateTrackerProofs -------------------------
(***************************************************************************)
(* Proofs about StateTracker for any number of sensors, comms threads and  *)
(* readers, any threshold, any adjustment of the system clock and any      *)
(* contents of the uninitialized time stamps.                              *)
(***************************************************************************)
EXTENDS StateTracker, TLAPS

(* By how much a stamp can make a message look younger than it is: by what *)
(* the system clock has been set back.                                     *)
LooksNoYounger(ts, s) == mono - recvAt[s] <= (wall - ts[s]) + back

(* The stamps in the tracker, and the steering data behind the raw values. *)
StampInv ==
  /\ back >= 0
  /\ \A s \in Sensors : recvAt[s] <= mono
  /\ dataAt[Steering] <= recvAt[Steering]
  /\ \A s \in received : LooksNoYounger(stamp, s)
  /\ \A s \in received \ {Steering} : dataAt[s] = recvAt[s]

(* What a reader knows at each point of vehicle_state(). *)
CallInv(r) ==
  /\ call[r].seen \subseteq received
  /\ reader[r] = "copied" =>
       \A s \in call[r].seen : LooksNoYounger(call[r].stamps, s)
  /\ reader[r] = "judged" /\ call[r].valid =>
       \A s \in call[r].seen : call[r].at - recvAt[s] < 2 * Threshold + call[r].back
  /\ ReturnedValid(r) =>
       \A s \in call[r].seen \ {Steering} :
         call[r].at - call[r].dataAt[s] < 2 * Threshold + call[r].back

(* The inductive invariant behind FreshWhenValid. *)
IInv == TypeOK /\ StampInv /\ \A r \in Readers : CallInv(r)

-----------------------------------------------------------------------------
(* Stamps that validate are all less than two thresholds behind the clock: *)
(* one behind the newest, which is less than one behind.                   *)
LEMMA ValidStampsAge ==
  ASSUME NEW ts \in Stamps, NEW now \in Int, ValidStamps(ts, now), NEW s \in Sensors
  PROVE  now - ts[s] < 2 * Threshold
  <1>1. PICK t \in Sensors : now - ts[t] < Threshold
    BY DEF ValidStamps
  <1>2. ts[t] - ts[s] <= Threshold
    BY DEF ValidStamps
  <1>3. ts[s] \in Int /\ ts[t] \in Int /\ Threshold \in Int
    BY ClockAssumption DEF Stamps
  <1> QED BY <1>1, <1>2, <1>3

(* The initial states are well typed, whatever the time stamps start with. *)
LEMMA InitType == Init => TypeOK
  <1> SUFFICES ASSUME Init PROVE TypeOK
    OBVIOUS
  <1> USE ClockAssumption DEF Init
  <1>1. stamp \in Stamps
    <2>1. stamp \in [Sensors -> InitialStamps] OBVIOUS
    <2> QED BY <2>1, ClockAssumption DEF Stamps
  <1>2. recvAt \in Stamps /\ dataAt \in Stamps
    BY DEF Stamps
  <1>3. [stamps |-> stamp, seen |-> {}, at |-> 0, back |-> 0,
         valid |-> FALSE, dataAt |-> dataAt] \in CallType
    BY <1>1, <1>2 DEF CallType
  <1>4. call \in [Readers -> CallType]
    BY <1>3
  <1>5. /\ producer \in [Producers -> {"idle", "applied"}]
        /\ reader \in [Readers -> {"idle", "copied", "judged"}]
    OBVIOUS
  <1>6. /\ mono \in Int /\ wall \in Int /\ back \in Int /\ steps \in Int
        /\ received \subseteq Sensors
    OBVIOUS
  <1> QED BY <1>1, <1>2, <1>4, <1>5, <1>6 DEF TypeOK

(* Every step keeps every variable in its type. *)
LEMMA TypeStep == TypeOK /\ [Next]_vars => TypeOK'
  <1> SUFFICES ASSUME TypeOK, [Next]_vars PROVE TypeOK'
    OBVIOUS
  <1> USE SensorsAssumption, ClockAssumption DEF TypeOK, Stamps, CallType
  <1>1. CASE Tick
    BY <1>1 DEF Tick, state
  <1>2. ASSUME NEW d \in ClockSteps, AdjustClock(d) PROVE TypeOK'
    <2>1. d \in Int OBVIOUS
    <2> QED BY <1>2, <2>1 DEF AdjustClock, state
  <1>3. ASSUME NEW p \in Producers, NEW m \in Sensors \cup {Other}, Receive(p, m)
        PROVE TypeOK'
    BY <1>3 DEF Receive, clocks, state
  <1>4. ASSUME NEW p \in Producers, UpdateEstimators(p) PROVE TypeOK'
    BY <1>4 DEF UpdateEstimators, clocks
  <1>5. ASSUME NEW r \in Readers, CopyStamps(r) PROVE TypeOK'
    <2>1. call[r] \in CallType OBVIOUS
    <2>2. [call[r] EXCEPT !.stamps = stamp, !.seen = received] \in CallType
      BY <2>1
    <2> HIDE DEF CallType
    <2>3. call' \in [Readers -> CallType]
      BY <1>5, <2>2 DEF CopyStamps
    <2> QED BY <1>5, <2>3 DEF CopyStamps, clocks, state
  <1>6. ASSUME NEW r \in Readers, Judge(r) PROVE TypeOK'
    <2>1. ValidStamps(call[r].stamps, wall) \in BOOLEAN
      BY DEF ValidStamps
    <2>2. call[r] \in CallType OBVIOUS
    <2>3. [call[r] EXCEPT !.at = mono, !.back = back,
                          !.valid = ValidStamps(call[r].stamps, wall)] \in CallType
      BY <2>1, <2>2
    <2> HIDE DEF CallType
    <2>4. call' \in [Readers -> CallType]
      BY <1>6, <2>3 DEF Judge
    <2> QED BY <1>6, <2>4 DEF Judge, clocks, state
  <1>7. ASSUME NEW r \in Readers, Snapshot(r) PROVE TypeOK'
    <2>1. call[r] \in CallType OBVIOUS
    <2>2. [call[r] EXCEPT !.dataAt = dataAt] \in CallType
      BY <2>1
    <2> HIDE DEF CallType
    <2>3. call' \in [Readers -> CallType]
      BY <1>7, <2>2 DEF Snapshot
    <2> QED BY <1>7, <2>3 DEF Snapshot, clocks, state
  <1>8. CASE UNCHANGED vars
    BY <1>8 DEF vars, clocks, state
  <1> QED BY <1>1, <1>2, <1>3, <1>4, <1>5, <1>6, <1>7, <1>8 DEF Next

(* Type correctness of the tracker. *)
THEOREM TypeCorrect == Spec => []TypeOK
  <1>1. Init => TypeOK
    BY InitType
  <1> QED BY <1>1, TypeStep, PTL DEF Spec

-----------------------------------------------------------------------------
(* Every step keeps the inductive invariant: messages and clock steps move *)
(* both sides of LooksNoYounger alike, and a verdict bounds the age of     *)
(* what was received before the stamps were copied.                        *)
LEMMA IInvStep == IInv /\ [Next]_vars => IInv'
  <1> SUFFICES ASSUME IInv, [Next]_vars PROVE IInv'
    OBVIOUS
  <1>0. TypeOK /\ TypeOK'
    BY TypeStep DEF IInv
  <1>a. /\ mono \in Int /\ wall \in Int /\ back \in Int /\ Threshold \in Int
        /\ \A s \in Sensors : stamp[s] \in Int /\ recvAt[s] \in Int /\ dataAt[s] \in Int
        /\ received \subseteq Sensors /\ Steering \in Sensors
        /\ \A r \in Readers : /\ call[r].at \in Int /\ call[r].back \in Int
                              /\ call[r].stamps \in Stamps
                              /\ call[r].seen \subseteq Sensors
                              /\ \A s \in Sensors : /\ call[r].stamps[s] \in Int
                                                    /\ call[r].dataAt[s] \in Int
    BY <1>0, SensorsAssumption, ClockAssumption DEF TypeOK, Stamps, CallType
  <1>b. StampInv /\ \A r \in Readers : CallInv(r)
    BY DEF IInv
  <1> USE DEF LooksNoYounger
  <1>1. CASE Tick
    <2>1. StampInv'
      BY <1>1, <1>a, <1>b DEF Tick, state, StampInv
    <2>2. ASSUME NEW r \in Readers PROVE CallInv(r)'
      BY <1>1, <1>a, <1>b DEF Tick, state, CallInv, ReturnedValid
    <2> QED BY <1>0, <2>1, <2>2 DEF IInv
  <1>2. ASSUME NEW d \in ClockSteps, AdjustClock(d) PROVE IInv'
    <2>0. d \in Int BY ClockAssumption
    <2>1. StampInv'
      BY <1>2, <2>0, <1>a, <1>b DEF AdjustClock, state, StampInv
    <2>2. ASSUME NEW r \in Readers PROVE CallInv(r)'
      BY <1>2, <2>0, <1>a, <1>b DEF AdjustClock, state, CallInv, ReturnedValid
    <2> QED BY <1>0, <2>1, <2>2 DEF IInv
  <1>3. ASSUME NEW p \in Producers, NEW m \in Sensors \cup {Other}, Receive(p, m)
        PROVE IInv'
    <2>0. /\ UNCHANGED <<mono, wall, back, reader, call>>
          /\ received \subseteq received'
          /\ \A s \in Sensors : recvAt'[s] >= recvAt[s]
      BY <1>3, <1>0, <1>a, <1>b DEF Receive, clocks, state, StampInv, TypeOK, Stamps
    <2>1. StampInv'
      <3>1. CASE m = Other /\ UNCHANGED state
        BY <3>1, <2>0, <1>b DEF state, StampInv
      <3>2. CASE m \in Sensors /\ ~UNCHANGED state
        <4>1. /\ stamp' = [stamp EXCEPT ![m] = wall]
              /\ received' = received \cup {m}
              /\ recvAt' = [recvAt EXCEPT ![m] = mono]
              /\ dataAt' = IF m = Steering THEN dataAt ELSE [dataAt EXCEPT ![m] = mono]
          BY <1>3, <3>2 DEF Receive
        <4>2. stamp \in Stamps /\ recvAt \in Stamps /\ dataAt \in Stamps
          BY <1>0 DEF TypeOK
        <4>3. \A s \in Sensors : recvAt'[s] <= mono'
          BY <4>1, <4>2, <2>0, <1>a, <1>b DEF StampInv, Stamps
        <4>4. dataAt'[Steering] <= recvAt'[Steering]
          BY <4>1, <4>2, <1>a, <1>b DEF StampInv, Stamps
        <4>5. ASSUME NEW s \in received' PROVE LooksNoYounger(stamp, s)'
          <5>1. CASE s = m
            <6>1. stamp'[s] = wall /\ recvAt'[s] = mono
              BY <5>1, <4>1, <4>2, <3>2 DEF Stamps
            <6> QED BY <6>1, <2>0, <1>a, <1>b DEF StampInv
          <5>2. CASE s # m
            <6>1. s \in received /\ stamp'[s] = stamp[s] /\ recvAt'[s] = recvAt[s]
              BY <5>2, <4>1, <4>2, <1>a DEF Stamps
            <6> QED BY <6>1, <2>0, <1>a, <1>b DEF StampInv
          <5> QED BY <5>1, <5>2
        <4>6. ASSUME NEW s \in received' \ {Steering} PROVE dataAt'[s] = recvAt'[s]
          <5>1. CASE s = m
            BY <5>1, <4>1, <4>2, <3>2 DEF Stamps
          <5>2. CASE s # m
            <6>1. s \in received /\ dataAt'[s] = dataAt[s] /\ recvAt'[s] = recvAt[s]
              BY <5>2, <4>1, <4>2, <1>a DEF Stamps
            <6> QED BY <6>1, <1>b DEF StampInv
          <5> QED BY <5>1, <5>2
        <4> QED BY <4>3, <4>4, <4>5, <4>6, <2>0, <1>b DEF StampInv
      <3>3. CASE m \in Sensors /\ UNCHANGED state
        BY <3>3, <2>0, <1>b DEF state, StampInv
      <3> QED BY <1>3, <3>1, <3>2, <3>3 DEF Receive
    <2>2. ASSUME NEW r \in Readers PROVE CallInv(r)'
      <3>1. \A s \in Sensors : recvAt'[s] \in Int
        BY <1>0 DEF TypeOK, Stamps
      <3> QED BY <2>0, <3>1, <1>a, <1>b DEF CallInv, ReturnedValid
    <2> QED BY <1>0, <2>1, <2>2 DEF IInv
  <1>4. ASSUME NEW p \in Producers, UpdateEstimators(p) PROVE IInv'
    <2>1. StampInv'
      BY <1>4, <1>0, <1>a, <1>b DEF UpdateEstimators, clocks, StampInv, TypeOK, Stamps
    <2>2. ASSUME NEW r \in Readers PROVE CallInv(r)'
      BY <1>4, <1>a, <1>b DEF UpdateEstimators, clocks, CallInv, ReturnedValid
    <2> QED BY <1>0, <2>1, <2>2 DEF IInv
  <1>5. ASSUME NEW q \in Readers, CopyStamps(q) PROVE IInv'
    <2>1. StampInv'
      BY <1>5, <1>a, <1>b DEF CopyStamps, clocks, state, StampInv
    <2>2. ASSUME NEW r \in Readers PROVE CallInv(r)'
      <3>1. CASE r # q
        BY <1>5, <3>1, <1>0, <1>a, <1>b DEF CopyStamps, clocks, state, CallInv, ReturnedValid, TypeOK
      <3>2. CASE r = q
        <4>1. /\ reader'[r] = "copied" /\ call'[r].stamps = stamp /\ call'[r].seen = received
              /\ UNCHANGED <<mono, wall, back, recvAt, received>>
          BY <1>5, <3>2, <1>0 DEF CopyStamps, clocks, state, TypeOK, CallType
        <4> QED BY <4>1, <1>a, <1>b DEF CallInv, ReturnedValid, StampInv
      <3> QED BY <3>1, <3>2
    <2> QED BY <1>0, <2>1, <2>2 DEF IInv
  <1>6. ASSUME NEW q \in Readers, Judge(q) PROVE IInv'
    <2>1. StampInv'
      BY <1>6, <1>a, <1>b DEF Judge, clocks, state, StampInv
    <2>2. ASSUME NEW r \in Readers PROVE CallInv(r)'
      <3>1. CASE r # q
        BY <1>6, <3>1, <1>0, <1>a, <1>b DEF Judge, clocks, state, CallInv, ReturnedValid, TypeOK
      <3>2. CASE r = q
        <4>1. /\ reader[r] = "copied" /\ reader'[r] = "judged"
              /\ call'[r].at = mono /\ call'[r].back = back
              /\ call'[r].seen = call[r].seen
              /\ call'[r].valid = ValidStamps(call[r].stamps, wall)
              /\ UNCHANGED <<recvAt, received>>
          BY <1>6, <3>2, <1>0 DEF Judge, clocks, state, TypeOK, CallType
        <4>2. ASSUME call'[r].valid, NEW s \in call[r].seen
              PROVE  mono - recvAt[s] < 2 * Threshold + back
          <5>1. wall - call[r].stamps[s] < 2 * Threshold
            BY <4>1, <4>2, <1>a, ValidStampsAge
          <5>2. mono - recvAt[s] <= (wall - call[r].stamps[s]) + back
            BY <4>1, <4>2, <1>b DEF CallInv
          <5> QED BY <5>1, <5>2, <1>a
        <4> QED BY <4>1, <4>2, <1>b DEF CallInv, ReturnedValid
      <3> QED BY <3>1, <3>2
    <2> QED BY <1>0, <2>1, <2>2 DEF IInv
  <1>7. ASSUME NEW q \in Readers, Snapshot(q) PROVE IInv'
    <2>1. StampInv'
      BY <1>7, <1>a, <1>b DEF Snapshot, clocks, state, StampInv
    <2>2. ASSUME NEW r \in Readers PROVE CallInv(r)'
      <3>1. CASE r # q
        BY <1>7, <3>1, <1>0, <1>a, <1>b DEF Snapshot, clocks, state, CallInv, ReturnedValid, TypeOK
      <3>2. CASE r = q
        <4>1. /\ reader[r] = "judged" /\ reader'[r] = "idle"
              /\ call'[r].at = call[r].at /\ call'[r].back = call[r].back
              /\ call'[r].seen = call[r].seen /\ call'[r].valid = call[r].valid
              /\ call'[r].dataAt = dataAt
              /\ UNCHANGED <<recvAt, received>>
          BY <1>7, <3>2, <1>0 DEF Snapshot, clocks, state, TypeOK, CallType
        <4> QED BY <4>1, <1>b DEF CallInv, ReturnedValid, StampInv
      <3> QED BY <3>1, <3>2
    <2> QED BY <1>0, <2>1, <2>2 DEF IInv
  <1>8. CASE UNCHANGED vars
    <2>1. StampInv'
      BY <1>8, <1>b DEF vars, clocks, state, StampInv
    <2>2. ASSUME NEW r \in Readers PROVE CallInv(r)'
      BY <1>8, <1>b DEF vars, clocks, state, CallInv, ReturnedValid
    <2> QED BY <1>0, <2>1, <2>2 DEF IInv
  <1> QED BY <1>1, <1>2, <1>3, <1>4, <1>5, <1>6, <1>7, <1>8 DEF Next

(* The inductive invariant holds initially and is kept by every step. *)
LEMMA IInvAlways == Spec => []IInv
  <1>1. Init => IInv
    <2> SUFFICES ASSUME Init PROVE IInv
      OBVIOUS
    <2>1. TypeOK BY InitType
    <2>2. StampInv
      BY SensorsAssumption DEF Init, StampInv
    <2>3. ASSUME NEW r \in Readers PROVE CallInv(r)
      BY DEF Init, CallInv, ReturnedValid
    <2> QED BY <2>1, <2>2, <2>3 DEF IInv
  <1> QED BY <1>1, IInvStep, PTL DEF Spec

(* Every state vehicle_state() returns as valid is fresh, in spite of the  *)
(* verdict being reached on a copy, outside the mutex and before the state *)
(* is read, and whatever the system clock does.                            *)
THEOREM ValidMeansFresh == Spec => []FreshWhenValid
  <1>1. IInv => FreshWhenValid
    BY DEF IInv, CallInv, FreshWhenValid
  <1> QED BY <1>1, IInvAlways, PTL

(* No interleaving of the two sections of messages on different threads    *)
(* takes the steering angle back to an older sample.                       *)
THEOREM AngleNeverRegresses == Spec => SteeringNeverRegresses
  <1>1. IInv /\ [Next]_vars => [dataAt'[Steering] >= dataAt[Steering]]_vars
    <2> SUFFICES ASSUME IInv, [Next]_vars
                 PROVE  dataAt'[Steering] >= dataAt[Steering]
      OBVIOUS
    <2>0. /\ dataAt[Steering] \in Int /\ recvAt[Steering] \in Int
          /\ dataAt[Steering] <= recvAt[Steering]
          /\ dataAt \in [Sensors -> Int] /\ Steering \in Sensors
      BY SensorsAssumption DEF IInv, TypeOK, StampInv, Stamps
    <2>1. ASSUME NEW p \in Producers, NEW m \in Sensors \cup {Other}, Receive(p, m)
          PROVE  dataAt'[Steering] >= dataAt[Steering]
      BY <2>0, <2>1 DEF Receive, state
    <2>2. ASSUME NEW p \in Producers, UpdateEstimators(p)
          PROVE  dataAt'[Steering] >= dataAt[Steering]
      BY <2>0, <2>2 DEF UpdateEstimators
    <2>3. CASE UNCHANGED dataAt
      BY <2>0, <2>3
    <2>4. CASE Tick \/ (\E d \in ClockSteps : AdjustClock(d)) \/ UNCHANGED vars
      BY <2>3, <2>4 DEF Tick, AdjustClock, state, vars
    <2>5. CASE \E r \in Readers : CopyStamps(r) \/ Judge(r) \/ Snapshot(r)
      BY <2>3, <2>5 DEF CopyStamps, Judge, Snapshot, state
    <2> QED BY <2>1, <2>2, <2>4, <2>5 DEF Next
  <1> QED BY <1>1, IInvAlways, PTL DEF Spec, SteeringNeverRegresses

(* The angle only lags behind the last steering message while a comms      *)
(* thread is between the two critical sections of a message.               *)
THEOREM AngleLagIsTransient == Spec => []SteeringLagsOnlyInFlight
  <1> USE DEF SteeringLagsOnlyInFlight
  <1>1. Init => SteeringLagsOnlyInFlight
    BY DEF Init
  <1>2. TypeOK /\ SteeringLagsOnlyInFlight /\ [Next]_vars => SteeringLagsOnlyInFlight'
    <2> SUFFICES ASSUME TypeOK, SteeringLagsOnlyInFlight, [Next]_vars
                 PROVE  SteeringLagsOnlyInFlight'
      OBVIOUS
    <2> USE SensorsAssumption DEF TypeOK, Stamps
    <2>1. ASSUME NEW p \in Producers, NEW m \in Sensors \cup {Other}, Receive(p, m)
          PROVE  SteeringLagsOnlyInFlight'
      <3>1. producer'[p] = "applied"
        BY <2>1 DEF Receive
      <3> QED BY <3>1
    <2>2. ASSUME NEW p \in Producers, UpdateEstimators(p)
          PROVE  SteeringLagsOnlyInFlight'
      BY <2>2 DEF UpdateEstimators
    <2>3. CASE UNCHANGED <<received, dataAt, recvAt, producer>>
      BY <2>3
    <2>4. CASE Tick \/ (\E d \in ClockSteps : AdjustClock(d)) \/ UNCHANGED vars
      BY <2>3, <2>4 DEF Tick, AdjustClock, state, vars
    <2>5. CASE \E r \in Readers : CopyStamps(r) \/ Judge(r) \/ Snapshot(r)
      BY <2>3, <2>5 DEF CopyStamps, Judge, Snapshot, state
    <2> QED BY <2>1, <2>2, <2>4, <2>5 DEF Next
  <1> QED BY <1>1, <1>2, TypeCorrect, PTL DEF Spec
=============================================================================
