----------------------------- MODULE OusterComms -----------------------------
(***************************************************************************)
(* The lidar (comms/src/OusterComms.cpp): a thread connects to the sensor, *)
(* again and again until it succeeds, then turns every frame into a cloud  *)
(* with the sensor's lookup table and hands it to the state tracker; the   *)
(* destructor ends the thread.                                             *)
(*                                                                         *)
(* A connection is numbered by the attempt that made it, and a lookup      *)
(* table by the connection it was made from.  The sensor and its SDK are   *)
(* external.                                                               *)
(***************************************************************************)
EXTENDS Naturals, Sequences

CONSTANTS
  MaxAttempts,   \* bound: connections and failures that change the state
  MaxScans       \* bound: clouds counted

VARIABLES
  task,          \* where the thread is
  attempts,      \* history: connections made so far
  source,        \* _source: the connection, 0 when there is none
  lut,           \* _lut
  scans,         \* history: the connection and table of the last cloud, and their number
  up,            \* _running
  quit           \* where the destructor is

lidarVars == <<task, attempts, source, lut, scans, up, quit>>

Init ==
  /\ task = "init?" /\ attempts = 0 /\ source = 0 /\ lut = <<>>
  /\ scans = [count |-> 0, source |-> 0, lut |-> 0]
  /\ up = TRUE /\ quit = "no"

-----------------------------------------------------------------------------
(* Mutated: the flag is only looked at when the sensor is there. *)
TryInit_Stubborn ==
  /\ task = "init?" /\ task' = "connecting"
  /\ lut' = <<>>
  /\ UNCHANGED <<attempts, source, scans, up, quit>>

(* while (_running && _init() < 0): begin with nothing ... *)
TryInit ==
  /\ task = "init?"
  /\ task' = IF up THEN "connecting" ELSE "done"
  /\ lut' = IF up THEN <<>> ELSE lut
  /\ UNCHANGED <<attempts, source, scans, up, quit>>

(* ... connect.  An exception leaves the connection of an earlier attempt  *)
(* in place ...                                                            *)
Connect ==
  /\ task = "connecting"
  /\ \/ /\ attempts < MaxAttempts
        /\ attempts' = attempts + 1 /\ source' = attempts + 1
        /\ task' = "table"
     \/ task' = "waiting" /\ UNCHANGED <<attempts, source>>
  /\ UNCHANGED <<lut, scans, up, quit>>

(* ... make the table from the sensor's description, which may be missing, *)
(* and log it as calibration, which may throw.                             *)
MakeTable ==
  /\ task = "table"
  /\ \/ task' = "waiting" /\ UNCHANGED lut
     \/ task' \in {"top", "waiting"} /\ lut' = Append(lut, source)
  /\ UNCHANGED <<attempts, source, scans, up, quit>>

(* Two seconds later it is tried again. *)
Retry ==
  /\ task = "waiting" /\ task' = "init?"
  /\ UNCHANGED <<attempts, source, lut, scans, up, quit>>

(* _loop: while (_running), wait up to half a second for a frame ... *)
LoopTop ==
  /\ task = "top"
  /\ task' = IF up THEN "waiting for frame" ELSE "done"
  /\ UNCHANGED <<attempts, source, lut, scans, up, quit>>

GetFrame ==
  /\ task = "waiting for frame" /\ task' \in {"top", "converting"}
  /\ UNCHANGED <<attempts, source, lut, scans, up, quit>>

(* ... make a cloud of it with the table of the only sensor, record the    *)
(* ranges, give the cloud to the tracker, stream every 16th point.         *)
Convert ==
  /\ task = "converting" /\ task' = "top"
  /\ scans' = [count |-> IF scans.count < MaxScans THEN scans.count + 1 ELSE scans.count,
               source |-> source, lut |-> lut[1]]
  /\ UNCHANGED <<attempts, source, lut, up, quit>>

(* The destructor. *)
Quit ==
  /\ quit = "no" /\ quit' = "joining" /\ up' = FALSE
  /\ UNCHANGED <<task, attempts, source, lut, scans>>

QuitJoins ==
  /\ quit = "joining" /\ task = "done" /\ quit' = "joined"
  /\ UNCHANGED <<task, attempts, source, lut, scans, up>>

Thread == TryInit \/ Connect \/ MakeTable \/ Retry \/ LoopTop \/ GetFrame \/ Convert

Next == Thread \/ Quit \/ QuitJoins

Spec == Init /\ [][Next]_lidarVars

-----------------------------------------------------------------------------
(* Every cloud is made with the one table that belongs to the connection   *)
(* its frame came over, however many attempts failed before and how far    *)
(* each one got.                                                           *)
CloudUsesItsTable ==
  /\ scans.lut = scans.source
  /\ task \in {"top", "waiting for frame", "converting"} => lut = <<source>>

(* Destroying the interface ends, also when the sensor is never there. *)
LidarStops == quit = "joining" ~> quit = "joined"
=============================================================================
