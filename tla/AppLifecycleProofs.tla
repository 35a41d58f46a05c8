------------------------- MODULE AppLifecycleProofs -------------------------
(***************************************************************************)
(* The threads that run() joins find the singletons they call: the proof   *)
(* rests on where the main thread is while each of them runs.              *)
(***************************************************************************)
EXTENDS AppLifecycle, TLAPS

(* The main thread has created every singleton and destroyed none. *)
Serving ==
  {"start kraken", "start can", "start cameras", "start controllers", "start autonomy", "arm",
   "spawn", "join loop", "join autonomy", "join io", "join cameras"}

(* Where the main thread may be while a joined thread runs. *)
ThreadsInPhase ==
  /\ thread["loop"] = "running" => pc = "join loop"
  /\ thread["io"] = "running" => pc \in {"join loop", "join autonomy", "join io"}
  /\ thread["autonomy"] = "running" => pc \in {"arm", "spawn", "join loop", "join autonomy"}

SingletonsLive ==
  /\ pc \in {"create server", "create tracker"} => singleton["logger"] = "live"
  /\ pc = "create tracker" => singleton["server"] = "live"
  /\ pc \in Serving => /\ singleton["logger"] = "live"
                       /\ singleton["server"] = "live"
                       /\ singleton["tracker"] = "live"

(* The two halves of TypeOK: the flags, and the rest. *)
Flags ==
  /\ failed \in BOOLEAN /\ running \in BOOLEAN
  /\ flag \in [autonomy : BOOLEAN, kraken : BOOLEAN, io : BOOLEAN]

Data ==
  /\ pc \in {"create logger", "create server", "create tracker", "start kraken",
             "start can", "start cameras", "start controllers", "start autonomy", "arm", "spawn",
             "join loop", "join autonomy", "join io", "join cameras", "destroy logger",
             "destroy server", "destroy members", "join kraken", "destroy can"}
  /\ singleton \in [Singletons -> {"none", "live", "destroyed"}]
  /\ interrupted \in {"no", "elsewhere", "armed"}
  /\ thread \in [Spawned -> {"none", "running", "done"}]
  /\ at \in [Threads -> 0..3]
  /\ ended \in {"no", "crash", "terminate", "exit 0", "exit 1"}
  /\ missing \in [Callers -> SUBSET Singletons]

LEMMA TypeHalves == TypeOK <=> Flags /\ Data
  BY DEF TypeOK, Flags, Data

IInv == TypeOK /\ SingletonsLive /\ ThreadsInPhase /\ JoinedThreadsFindSingletons

LEMMA UsesSingletons == ASSUME NEW t \in Threads
                        PROVE  Len(Uses[t]) = 3 /\ \A i \in 1..3 : Uses[t][i] \in Singletons
  BY DEF Threads, Spawned, Uses, Singletons

(* A joined thread runs only while every singleton is live. *)
LEMMA RunningFinds == ASSUME IInv, NEW t \in Joined, thread[t] = "running", NEW s \in Singletons
                      PROVE  singleton[s] = "live"
  BY DEF IInv, SingletonsLive, ThreadsInPhase, Serving, Joined, Singletons

LEMMA InitIInv == ASSUME Init PROVE IInv
  <1>1. Flags
    BY DEF Init, Flags
  <1>2. Data
    <2>1. singleton \in [Singletons -> {"none", "live", "destroyed"}]
      BY DEF Init
    <2>2. thread \in [Spawned -> {"none", "running", "done"}]
      BY DEF Init
    <2>4. at \in [Threads -> 0..3]
      <3>1. 0 \in 0..3
        OBVIOUS
      <3> QED BY <3>1 DEF Init
    <2>3. missing \in [Callers -> SUBSET Singletons]
      BY DEF Init
    <2> QED BY <2>1, <2>2, <2>3, <2>4 DEF Init, Data
  <1>3. SingletonsLive /\ ThreadsInPhase
    BY DEF Init, SingletonsLive, ThreadsInPhase, Serving, Threads, Spawned
  <1>4. JoinedThreadsFindSingletons
    BY DEF Init, JoinedThreadsFindSingletons, Joined, Callers, Threads, Spawned
  <1> QED BY <1>1, <1>2, <1>3, <1>4, TypeHalves DEF IInv

(* A call that finds nothing keeps the types of what it records. *)
LEMMA MissesType == ASSUME Data, NEW c \in Callers, NEW s \in Singletons, Misses(c, s)
                    PROVE  /\ missing' \in [Callers -> SUBSET Singletons]
                           /\ ended' \in {"no", "crash"}
  <1>1. missing[c] \cup {s} \in SUBSET Singletons
    BY DEF Data
  <1> QED BY <1>1 DEF Data, Misses

-----------------------------------------------------------------------------
(* The main thread: the data. *)
LEMMA MainData == ASSUME Data, Main PROVE Data'
  <1> USE DEF Data, Started, Throw
  <1>1. CASE CreateLogger BY <1>1 DEF CreateLogger
  <1>2. CASE CreateServer BY <1>2 DEF CreateServer
  <1>3. CASE CreateTracker BY <1>3 DEF CreateTracker
  <1>4. CASE StartKraken
    <2>1. thread' \in [Spawned -> {"none", "running", "done"}]
      BY <1>4 DEF StartKraken, Threads, Spawned
    <2>2. /\ pc' = "start can"
          /\ UNCHANGED <<singleton, interrupted, at, ended, missing>>
      BY <1>4 DEF StartKraken
    <2> QED BY <2>1, <2>2
  <1>5. CASE StartCan BY <1>5 DEF StartCan, Threads, Spawned
  <1>6. CASE StartControllers BY <1>6 DEF StartControllers
  <1>7. CASE StartAutonomy BY <1>7 DEF StartAutonomy, AutonomyStart, AutonomyStartFails, Threads, Spawned
  <1>8. CASE Arm BY <1>8 DEF Arm
  <1>9. CASE Spawn BY <1>9 DEF Spawn, Threads, Spawned
  <1>10. CASE JoinLoop BY <1>10 DEF JoinLoop
  <1>11. CASE JoinAutonomy BY <1>11 DEF JoinAutonomy
  <1>12. CASE JoinIo BY <1>12 DEF JoinIo
  <1>13. CASE DestroyLogger
    <2>1. pc' = "destroy server" /\ UNCHANGED <<interrupted, thread, at>>
      BY <1>13 DEF DestroyLogger
    <2>2. CASE singleton["logger"] = "live"
      BY <1>13, <2>1, <2>2 DEF DestroyLogger, Destroyed, Singletons
    <2>3. CASE singleton["logger"] # "live"
      BY <1>13, <2>1, <2>3, MissesType DEF DestroyLogger, Destroyed, Singletons, Callers
    <2> QED BY <2>2, <2>3
  <1>14. CASE DestroyServer
    <2>1. pc' = "destroy members" /\ UNCHANGED <<interrupted, thread, at>>
      BY <1>14 DEF DestroyServer
    <2>2. CASE singleton["server"] = "live"
      BY <1>14, <2>1, <2>2 DEF DestroyServer, Destroyed, Singletons
    <2>3. CASE singleton["server"] # "live"
      BY <1>14, <2>1, <2>3, MissesType DEF DestroyServer, Destroyed, Singletons, Callers
    <2> QED BY <2>2, <2>3
  <1>15. CASE DestroyMembers BY <1>15 DEF DestroyMembers
  <1>16. CASE JoinKraken BY <1>16 DEF JoinKraken
  <1>17. CASE DestroyCan BY <1>17 DEF DestroyCan
  <1>18. CASE StartCameras BY <1>18 DEF StartCameras, Started, Threads, Spawned
  <1>19. CASE JoinCameras BY <1>19 DEF JoinCameras
  <1> QED BY <1>1, <1>2, <1>3, <1>4, <1>5, <1>6, <1>7, <1>8, <1>9, <1>10, <1>11, <1>12,
             <1>13, <1>14, <1>15, <1>16, <1>17, <1>18, <1>19 DEF Main


LEMMA MainFlags == ASSUME Flags, Main PROVE Flags'
  <1> USE DEF Flags, Throw
  <1>1. CASE CreateLogger BY <1>1 DEF CreateLogger
  <1>2. CASE CreateServer BY <1>2 DEF CreateServer
  <1>3. CASE CreateTracker BY <1>3 DEF CreateTracker
  <1>4. CASE StartKraken BY <1>4 DEF StartKraken
  <1>5. CASE StartCan BY <1>5 DEF StartCan
  <1>6. CASE StartControllers BY <1>6 DEF StartControllers
  <1>7. CASE StartAutonomy BY <1>7 DEF StartAutonomy, AutonomyStart, AutonomyStartFails
  <1>8. CASE Arm BY <1>8 DEF Arm
  <1>9. CASE Spawn BY <1>9 DEF Spawn
  <1>10. CASE JoinLoop BY <1>10 DEF JoinLoop
  <1>11. CASE JoinAutonomy BY <1>11 DEF JoinAutonomy
  <1>12. CASE JoinIo BY <1>12 DEF JoinIo
  <1>13. CASE DestroyLogger BY <1>13 DEF DestroyLogger, Destroyed, Misses
  <1>14. CASE DestroyServer BY <1>14 DEF DestroyServer, Destroyed, Misses
  <1>15. CASE DestroyMembers BY <1>15 DEF DestroyMembers
  <1>16. CASE JoinKraken BY <1>16 DEF JoinKraken
  <1>17. CASE DestroyCan BY <1>17 DEF DestroyCan
  <1>18. CASE StartCameras BY <1>18 DEF StartCameras, Started, Threads, Spawned
  <1>19. CASE JoinCameras BY <1>19 DEF JoinCameras
  <1> QED BY <1>1, <1>2, <1>3, <1>4, <1>5, <1>6, <1>7, <1>8, <1>9, <1>10, <1>11, <1>12,
             <1>13, <1>14, <1>15, <1>16, <1>17, <1>18, <1>19 DEF Main

LEMMA MainType == ASSUME TypeOK, Main PROVE TypeOK'
  <1>1. Flags /\ Data
    BY TypeHalves
  <1>2. Flags' /\ Data'
    BY <1>1, MainData, MainFlags
  <1> QED BY <1>2, TypeHalves DEF TypeOK, Flags, Data

(* The main thread: it has every singleton in the serving phases. *)
LEMMA MainSingletons == ASSUME TypeOK, SingletonsLive, Main PROVE SingletonsLive'
  <1> USE DEF TypeOK, SingletonsLive, Serving, Throw, Singletons
  <1>1. CASE CreateLogger BY <1>1 DEF CreateLogger
  <1>2. CASE CreateServer BY <1>2 DEF CreateServer
  <1>3. CASE CreateTracker BY <1>3 DEF CreateTracker
  <1>4. CASE StartKraken BY <1>4 DEF StartKraken
  <1>5. CASE StartCan BY <1>5 DEF StartCan
  <1>6. CASE StartControllers BY <1>6 DEF StartControllers
  <1>7. CASE StartAutonomy BY <1>7 DEF StartAutonomy
  <1>8. CASE Arm BY <1>8 DEF Arm
  <1>9. CASE Spawn BY <1>9 DEF Spawn
  <1>10. CASE JoinLoop BY <1>10 DEF JoinLoop
  <1>11. CASE JoinAutonomy BY <1>11 DEF JoinAutonomy
  <1>12. CASE JoinIo BY <1>12 DEF JoinIo
  <1>13. CASE DestroyLogger BY <1>13 DEF DestroyLogger, Destroyed, Misses
  <1>14. CASE DestroyServer BY <1>14 DEF DestroyServer, Destroyed, Misses
  <1>15. CASE DestroyMembers BY <1>15 DEF DestroyMembers
  <1>16. CASE JoinKraken BY <1>16 DEF JoinKraken
  <1>17. CASE DestroyCan BY <1>17 DEF DestroyCan
  <1>18. CASE StartCameras BY <1>18 DEF StartCameras, Started, Threads, Spawned
  <1>19. CASE JoinCameras BY <1>19 DEF JoinCameras
  <1> QED BY <1>1, <1>2, <1>3, <1>4, <1>5, <1>6, <1>7, <1>8, <1>9, <1>10, <1>11, <1>12,
             <1>13, <1>14, <1>15, <1>16, <1>17, <1>18, <1>19 DEF Main

(* The main thread: it leaves a phase when the threads of that phase have  *)
(* ended.                                                                  *)
LEMMA MainPhase == ASSUME TypeOK, ThreadsInPhase, Main PROVE ThreadsInPhase'
  <1> USE DEF TypeOK, ThreadsInPhase, Throw, Started, Threads, Spawned
  <1>1. CASE CreateLogger BY <1>1 DEF CreateLogger
  <1>2. CASE CreateServer BY <1>2 DEF CreateServer
  <1>3. CASE CreateTracker BY <1>3 DEF CreateTracker
  <1>4. CASE StartKraken BY <1>4 DEF StartKraken
  <1>5. CASE StartCan BY <1>5 DEF StartCan
  <1>6. CASE StartControllers BY <1>6 DEF StartControllers
  <1>7. CASE StartAutonomy BY <1>7 DEF StartAutonomy, AutonomyStart, AutonomyStartFails
  <1>8. CASE Arm BY <1>8 DEF Arm
  <1>9. CASE Spawn BY <1>9 DEF Spawn
  <1>10. CASE JoinLoop BY <1>10 DEF JoinLoop
  <1>11. CASE JoinAutonomy BY <1>11 DEF JoinAutonomy
  <1>12. CASE JoinIo BY <1>12 DEF JoinIo
  <1>13. CASE DestroyLogger BY <1>13 DEF DestroyLogger, Destroyed, Misses
  <1>14. CASE DestroyServer BY <1>14 DEF DestroyServer, Destroyed, Misses
  <1>15. CASE DestroyMembers BY <1>15 DEF DestroyMembers
  <1>16. CASE JoinKraken BY <1>16 DEF JoinKraken
  <1>17. CASE DestroyCan BY <1>17 DEF DestroyCan
  <1>18. CASE StartCameras BY <1>18 DEF StartCameras, Started, Threads, Spawned
  <1>19. CASE JoinCameras BY <1>19 DEF JoinCameras
  <1> QED BY <1>1, <1>2, <1>3, <1>4, <1>5, <1>6, <1>7, <1>8, <1>9, <1>10, <1>11, <1>12,
             <1>13, <1>14, <1>15, <1>16, <1>17, <1>18, <1>19 DEF Main

(* The main thread: no joined thread's call is recorded. *)
LEMMA MainMissing == ASSUME TypeOK, JoinedThreadsFindSingletons, Main PROVE JoinedThreadsFindSingletons'
  <1> USE DEF TypeOK, JoinedThreadsFindSingletons, Joined, Callers, Threads, Spawned
  <1>1. CASE CreateLogger BY <1>1 DEF CreateLogger
  <1>2. CASE CreateServer BY <1>2 DEF CreateServer
  <1>3. CASE CreateTracker BY <1>3 DEF CreateTracker
  <1>4. CASE StartKraken BY <1>4 DEF StartKraken
  <1>5. CASE StartCan BY <1>5 DEF StartCan
  <1>6. CASE StartControllers BY <1>6 DEF StartControllers
  <1>7. CASE StartAutonomy BY <1>7 DEF StartAutonomy
  <1>8. CASE Arm BY <1>8 DEF Arm
  <1>9. CASE Spawn BY <1>9 DEF Spawn
  <1>10. CASE JoinLoop BY <1>10 DEF JoinLoop
  <1>11. CASE JoinAutonomy BY <1>11 DEF JoinAutonomy
  <1>12. CASE JoinIo BY <1>12 DEF JoinIo
  <1>13. CASE DestroyLogger BY <1>13 DEF DestroyLogger, Destroyed, Misses
  <1>14. CASE DestroyServer BY <1>14 DEF DestroyServer, Destroyed, Misses
  <1>15. CASE DestroyMembers BY <1>15 DEF DestroyMembers
  <1>16. CASE JoinKraken BY <1>16 DEF JoinKraken
  <1>17. CASE DestroyCan BY <1>17 DEF DestroyCan
  <1>18. CASE StartCameras BY <1>18 DEF StartCameras, Started, Threads, Spawned
  <1>19. CASE JoinCameras BY <1>19 DEF JoinCameras
  <1> QED BY <1>1, <1>2, <1>3, <1>4, <1>5, <1>6, <1>7, <1>8, <1>9, <1>10, <1>11, <1>12,
             <1>13, <1>14, <1>15, <1>16, <1>17, <1>18, <1>19 DEF Main

LEMMA MainIInv == ASSUME IInv, Main PROVE IInv'
  BY MainType, MainSingletons, MainPhase, MainMissing DEF IInv

-----------------------------------------------------------------------------
(* A thread at the head of its loop. *)
LEMMA IterateIInv == ASSUME IInv, NEW t \in Threads, Iterate(t) PROVE IInv'
  <1>1. Flags'
    BY TypeHalves DEF IInv, Flags, Iterate
  <1>2. Data'
    <2>1. thread \in [Spawned -> {"none", "running", "done"}] /\ at \in [Threads -> 0..3]
      BY TypeHalves DEF IInv, Data
    <2>2. thread' \in [Spawned -> {"none", "running", "done"}] /\ at' \in [Threads -> 0..3]
      BY <2>1 DEF Iterate
    <2> QED BY <2>2, TypeHalves DEF IInv, Data, Iterate
  <1>3. ThreadsInPhase'
    BY TypeHalves DEF IInv, Data, ThreadsInPhase, Iterate, Threads, Spawned
  <1>4. SingletonsLive' /\ JoinedThreadsFindSingletons'
    BY DEF IInv, SingletonsLive, JoinedThreadsFindSingletons, Iterate
  <1> QED BY <1>1, <1>2, <1>3, <1>4 DEF IInv, TypeOK, Flags, Data

(* A thread in its iteration. *)
LEMMA UseIInv == ASSUME IInv, NEW t \in Threads, Use(t) PROVE IInv'
  <1> DEFINE s == Uses[t][at[t]]
  <1>1. Flags /\ Data
    BY TypeHalves DEF IInv
  <1>2. /\ UNCHANGED <<pc, failed, singleton, running, interrupted, flag, thread>>
        /\ thread[t] = "running" /\ at[t] > 0
        /\ at' = [at EXCEPT ![t] = (at[t] + 1) % (Len(Uses[t]) + 1)]
    BY DEF Use
  <1>3. \/ UNCHANGED <<ended, missing>> /\ singleton[s] = "live"
        \/ Misses(t, s) /\ singleton[s] # "live"
    BY DEF Use
  <1>4. at[t] \in 1..3
    <2>1. at[t] \in 0..3
      BY <1>1 DEF Data
    <2> QED BY <2>1, <1>2
  <1>5. s \in Singletons
    BY <1>4, UsesSingletons
  <1> HIDE DEF s
  <1>6. at' \in [Threads -> 0..3]
    <2>1. (at[t] + 1) % (3 + 1) \in 0..3
      BY <1>4
    <2> QED BY <2>1, <1>1, <1>2, UsesSingletons DEF Data
  <1>7. Data'
    <2>1. CASE UNCHANGED <<ended, missing>>
      BY <2>1, <1>1, <1>2, <1>6 DEF Data
    <2>2. CASE Misses(t, s)
      BY <2>2, <1>1, <1>2, <1>5, <1>6, MissesType DEF Data, Callers
    <2> QED BY <2>1, <2>2, <1>3
  <1>8. Flags' /\ SingletonsLive' /\ ThreadsInPhase'
    BY <1>1, <1>2 DEF IInv, Flags, SingletonsLive, ThreadsInPhase
  <1>9. JoinedThreadsFindSingletons'
    <2>1. CASE t \in Joined
      BY <2>1, <1>2, <1>3, <1>5, RunningFinds DEF IInv, JoinedThreadsFindSingletons
    <2>2. CASE t \notin Joined
      BY <2>2, <1>1, <1>3
      DEF IInv, Data, JoinedThreadsFindSingletons, Misses, Joined, Callers, Threads, Spawned
    <2> QED BY <2>1, <2>2
  <1> QED BY <1>7, <1>8, <1>9 DEF IInv, TypeOK, Flags, Data

(* The loop starts the stack while the main thread waits for the loop. *)
LEMMA LoopStartsIInv == ASSUME IInv, LoopStartsAutonomy PROVE IInv'
  <1>1. Flags'
    BY TypeHalves DEF IInv, Flags, LoopStartsAutonomy, AutonomyStart
  <1>2. Data'
    <2>1. thread \in [Spawned -> {"none", "running", "done"}]
      BY TypeHalves DEF IInv, Data
    <2>2. thread' \in [Spawned -> {"none", "running", "done"}]
      BY <2>1 DEF Threads, Spawned, LoopStartsAutonomy, AutonomyStart, Started
    <2> QED BY <2>2, TypeHalves DEF IInv, Data, LoopStartsAutonomy
  <1>3. ThreadsInPhase'
    BY TypeHalves
    DEF IInv, Data, ThreadsInPhase, Threads, Spawned, LoopStartsAutonomy, AutonomyStart, Started
  <1>4. SingletonsLive' /\ JoinedThreadsFindSingletons'
    BY DEF IInv, SingletonsLive, JoinedThreadsFindSingletons, LoopStartsAutonomy
  <1> QED BY <1>1, <1>2, <1>3, <1>4 DEF IInv, TypeOK, Flags, Data

(* A thread that ends by an exception. *)
LEMMA ThreadThrowsIInv == ASSUME IInv, NEW t \in {"loop", "io"}, ThreadThrows(t) PROVE IInv'
  <1>1. Flags'
    BY TypeHalves DEF IInv, Flags, ThreadThrows
  <1>2. Data'
    <2>1. thread \in [Spawned -> {"none", "running", "done"}] /\ at \in [Threads -> 0..3]
      BY TypeHalves DEF IInv, Data
    <2>2. thread' \in [Spawned -> {"none", "running", "done"}]
      BY <2>1 DEF ThreadThrows
    <2>3. at' \in [Threads -> 0..3]
      <3>1. 0 \in 0..3
        OBVIOUS
      <3> QED BY <2>1, <3>1 DEF ThreadThrows
    <2> QED BY <2>2, <2>3, TypeHalves DEF IInv, Data, ThreadThrows
  <1>3. ThreadsInPhase'
    BY TypeHalves DEF IInv, Data, ThreadsInPhase, ThreadThrows, Threads, Spawned
  <1>4. SingletonsLive' /\ JoinedThreadsFindSingletons'
    BY DEF IInv, SingletonsLive, JoinedThreadsFindSingletons, ThreadThrows
  <1> QED BY <1>1, <1>2, <1>3, <1>4 DEF IInv, TypeOK, Flags, Data

LEMMA ClientMessageIInv == ASSUME IInv, NEW s \in {"tracker", "logger"}, ClientMessage(s)
                           PROVE  IInv'
  <1>1. Flags'
    BY TypeHalves DEF IInv, Flags, ClientMessage
  <1>2. Data'
    <2>1. Data
      BY TypeHalves DEF IInv
    <2>2. /\ missing' \in [Callers -> SUBSET Singletons]
          /\ ended' \in {"no", "crash"}
      <3>1. s \in Singletons /\ "client" \in Callers
        BY DEF Singletons, Callers
      <3>2. Misses("client", s)
        BY DEF ClientMessage
      <3> QED BY <2>1, <3>1, <3>2, MissesType
    <2>3. UNCHANGED <<pc, singleton, interrupted, thread, at>>
      BY DEF ClientMessage
    <2> QED BY <2>1, <2>2, <2>3 DEF Data
  <1>3. SingletonsLive' /\ ThreadsInPhase'
    BY DEF IInv, SingletonsLive, ThreadsInPhase, ClientMessage
  <1>4. JoinedThreadsFindSingletons'
    BY TypeHalves
    DEF IInv, Data, JoinedThreadsFindSingletons, ClientMessage, Misses, Joined, Callers, Threads, Spawned
  <1> QED BY <1>1, <1>2, <1>3, <1>4 DEF IInv, TypeOK, Flags, Data

(* The search for cameras ends. *)
LEMMA CamerasFoundIInv == ASSUME IInv, CamerasFound PROVE IInv'
  <1>1. Flags'
    BY TypeHalves DEF IInv, Flags, CamerasFound
  <1>2. Data'
    <2>1. thread \in [Spawned -> {"none", "running", "done"}]
      BY TypeHalves DEF IInv, Data
    <2>2. thread' \in [Spawned -> {"none", "running", "done"}]
      BY <2>1 DEF CamerasFound
    <2> QED BY <2>2, TypeHalves DEF IInv, Data, CamerasFound
  <1>3. ThreadsInPhase'
    BY TypeHalves DEF IInv, Data, ThreadsInPhase, CamerasFound, Threads, Spawned
  <1>4. SingletonsLive' /\ JoinedThreadsFindSingletons'
    BY DEF IInv, SingletonsLive, JoinedThreadsFindSingletons, CamerasFound
  <1> QED BY <1>1, <1>2, <1>3, <1>4 DEF IInv, TypeOK, Flags, Data

LEMMA SignalIInv == ASSUME IInv, Signal PROVE IInv'
  <1>1. Flags'
    BY TypeHalves DEF IInv, Flags, Signal
  <1>2. Data'
    BY TypeHalves DEF IInv, Data, Signal
  <1>3. SingletonsLive' /\ ThreadsInPhase' /\ JoinedThreadsFindSingletons'
    BY DEF IInv, SingletonsLive, ThreadsInPhase, JoinedThreadsFindSingletons, Signal
  <1> QED BY <1>1, <1>2, <1>3 DEF IInv, TypeOK, Flags, Data

LEMMA StutterIInv == ASSUME IInv, UNCHANGED vars PROVE IInv'
  <1>1. Flags' /\ Data'
    <2>1. Flags /\ Data
      BY TypeHalves DEF IInv
    <2>2. Flags'
      BY <2>1 DEF Flags, vars
    <2>3. Data'
      BY <2>1 DEF Data, vars
    <2> QED BY <2>2, <2>3
  <1>2. SingletonsLive' /\ ThreadsInPhase' /\ JoinedThreadsFindSingletons'
    BY DEF IInv, SingletonsLive, ThreadsInPhase, JoinedThreadsFindSingletons, vars
  <1> QED BY <1>1, <1>2 DEF IInv, TypeOK, Flags, Data

LEMMA NextIInv == IInv /\ [Next]_vars => IInv'
  BY MainIInv, IterateIInv, UseIInv, LoopStartsIInv, ThreadThrowsIInv,
     ClientMessageIInv, CamerasFoundIInv, SignalIInv, StutterIInv
  DEF Next, Ended

THEOREM Invariance == Spec => []IInv
  BY InitIInv, NextIInv, PTL DEF Spec

(* The state of the process keeps its type from start to end. *)
THEOREM TypeCorrect == Spec => []TypeOK
  BY Invariance, PTL DEF IInv

(* The threads that run() joins never call a singleton that has not been   *)
(* created or has been destroyed.                                          *)
THEOREM JoinedThreadsSafe == Spec => []JoinedThreadsFindSingletons
  BY Invariance, PTL DEF IInv
=============================================================================
