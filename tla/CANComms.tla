------------------------------ MODULE CANComms ------------------------------
(***************************************************************************)
(* The CAN interface (comms/src/CANComms.cpp): a reader thread decodes     *)
(* frames and hands them to the logger and the state tracker; the control  *)
(* loop encodes its commands and writes them, without blocking, to the     *)
(* same socket.  Both look ids up in _messages with operator[], which      *)
(* inserts the ids it does not find, and no mutex protects the table.      *)
(*                                                                         *)
(* A lookup during an insertion is a data race: the process crashes or     *)
(* carries on.  Of the signals of a message only this is modelled: whether *)
(* each has a field of its name in the protobuf message, which the code    *)
(* takes for granted.                                                      *)
(***************************************************************************)
EXTENDS Naturals

CONSTANTS
  Known,       \* ids of the DBC, each with a protobuf message of the same name
  Incomplete,  \* those of them with a signal that the protobuf message has no field for
  NoProto,     \* ids of the DBC that no protobuf message is named after
  Foreign,     \* ids on the bus that the DBC does not have
  Commands,    \* the messages the control loop may send, by their ids
  TxLimit,     \* the socket's send queue
  MaxCalls     \* bound: frames read, and messages sent

VARIABLES
  table,       \* the keys of _messages
  reading,     \* the frame the reader is working on, and where
  sending,     \* the message the loop is sending, and where
  received,    \* history: frames read
  handled,     \* history: messages given to logger and tracker
  calls,       \* history: how each call of send_message ended
  tx,          \* frames in the send queue
  first,       \* history: ids whose first sighting fell into a lookup
  canEnd       \* "up", or how the process ended

canVars == <<table, reading, sending, received, handled, calls, tx, first, canEnd>>

Nothing == [at |-> "idle", id |-> 0]
Outcomes == {"written", "dropped", "error", "unknown"}
DBC == Known \cup NoProto

(* The constructor has loaded the DBC and started the reader; or it failed *)
(* at any of its steps and has left an interface without a table.          *)
Init ==
  /\ table \in {DBC, {}}
  /\ reading = Nothing /\ sending = Nothing
  /\ received = 0 /\ handled = 0 /\ calls = [o \in Outcomes |-> 0] /\ tx = 0
  /\ first = {} /\ canEnd = "up"

Loaded == DBC \subseteq table
Made == calls["written"] + calls["dropped"] + calls["error"] + calls["unknown"]

-----------------------------------------------------------------------------
(* _receive_handler reads a frame.  Nothing to read, an error of the       *)
(* socket and a short read only make it try again.                         *)
Read(id) ==
  /\ Loaded /\ canEnd = "up" /\ reading.at = "idle" /\ received < MaxCalls
  /\ received' = received + 1
  /\ reading' = [at |-> IF id \in table THEN "decoding" ELSE "inserting", id |-> id]
  /\ UNCHANGED <<table, sending, handled, calls, tx, first, canEnd>>

(* _messages[frame.can_id]: an id that is not there is put in, with a null *)
(* pointer.                                                                *)
Insert ==
  /\ canEnd = "up" /\ reading.at = "inserting"
  /\ table' = table \cup {reading.id}
  /\ reading' = [reading EXCEPT !.at = "decoding"]
  /\ UNCHANGED <<sending, received, handled, calls, tx, first, canEnd>>

(* A frame without a DBC entry or a protobuf message is skipped; the       *)
(* others are decoded, logged and given to the tracker.                    *)
Decode ==
  /\ canEnd = "up" /\ reading.at = "decoding"
  /\ reading' = Nothing
  /\ handled' = IF reading.id \in Known THEN handled + 1 ELSE handled
  /\ UNCHANGED <<table, sending, received, calls, tx, first, canEnd>>

(* A signal without a field: the null pointer that FindFieldByName returns *)
(* is dereferenced.  A multiplexed signal need not be in the frame, so     *)
(* such a message may also be decoded.                                     *)
DecodeWithoutField ==
  /\ canEnd = "up" /\ reading.at = "decoding" /\ reading.id \in Incomplete
  /\ canEnd' = "field"
  /\ UNCHANGED <<table, reading, sending, received, handled, calls, tx, first>>

-----------------------------------------------------------------------------
(* Mutated: a message that is not in the DBC is looked up all the same. *)
Send_Unchecked(n) ==
  /\ canEnd = "up" /\ sending.at = "idle" /\ Made < MaxCalls
  /\ sending' = [at |-> "lookup", id |-> n]
  /\ UNCHANGED <<table, reading, received, handled, calls, tx, first, canEnd>>

(* send_message: a message that is not in _names_to_can_id is refused ... *)
Send(n) ==
  /\ canEnd = "up" /\ sending.at = "idle" /\ Made < MaxCalls
  /\ IF Loaded /\ n \in DBC
       THEN sending' = [at |-> "lookup", id |-> n] /\ UNCHANGED calls
       ELSE calls' = [calls EXCEPT !["unknown"] = @ + 1] /\ UNCHANGED sending
  /\ UNCHANGED <<table, reading, received, handled, tx, first, canEnd>>

(* ... _messages[id]->Clone() is looked up, while the reader may be        *)
(* inserting; a null pointer is not checked for ...                        *)
Lookup ==
  /\ canEnd = "up" /\ sending.at = "lookup"
  /\ sending' = [sending EXCEPT !.at = "encode"]
  /\ IF reading.at = "inserting"
       THEN first' = first \cup {reading.id} /\ canEnd' \in {"up", "race"}
       ELSE UNCHANGED first /\ canEnd' = IF sending.id \in DBC THEN "up" ELSE "null"
  /\ UNCHANGED <<table, reading, received, handled, calls, tx>>

(* ... every signal is encoded from the field of its name, multiplexed or  *)
(* not, and a field that is not there is not checked for either ...        *)
Encode ==
  /\ canEnd = "up" /\ sending.at = "encode"
  /\ IF sending.id \in Incomplete
       THEN canEnd' = "field" /\ UNCHANGED sending
       ELSE sending' = [sending EXCEPT !.at = "write"] /\ UNCHANGED canEnd
  /\ UNCHANGED <<table, reading, received, handled, calls, tx, first>>

(* ... and the frame written, dropped when the queue is full, or refused   *)
(* by the socket.                                                          *)
Write ==
  /\ canEnd = "up" /\ sending.at = "write"
  /\ sending' = Nothing
  /\ \/ /\ tx < TxLimit /\ tx' = tx + 1
        /\ calls' = [calls EXCEPT !["written"] = @ + 1]
     \/ /\ tx = TxLimit /\ UNCHANGED tx
        /\ calls' = [calls EXCEPT !["dropped"] = @ + 1]
     \/ /\ UNCHANGED tx
        /\ calls' = [calls EXCEPT !["error"] = @ + 1]
  /\ UNCHANGED <<table, reading, received, handled, first, canEnd>>

(* The bus takes a frame. *)
Transmit ==
  /\ canEnd = "up" /\ tx > 0 /\ tx' = tx - 1
  /\ UNCHANGED <<table, reading, sending, received, handled, calls, first, canEnd>>

Next ==
  \/ \E id \in DBC \cup Foreign : Read(id)
  \/ Insert \/ Decode \/ DecodeWithoutField
  \/ \E n \in Commands : Send(n)
  \/ Lookup \/ Encode \/ Write \/ Transmit

Spec == Init /\ [][Next]_canVars

-----------------------------------------------------------------------------
(* The interface ends the process in two ways.  A command is looked up     *)
(* while the reader inserts an id, which is one that the DBC does not have *)
(* and happens at its first sighting only; or the message in work, a frame *)
(* or a command, has a signal without a field.  The null pointers that the *)
(* reader leaves in the table are never dereferenced.                      *)
EndsByRaceOrField ==
  /\ canEnd \in {"up", "race", "field"}
  /\ canEnd = "race" => first # {}
  /\ first \subseteq Foreign
  /\ reading.at = "inserting" => reading.id \notin table
  /\ canEnd = "field" =>
       \/ reading.at = "decoding" /\ reading.id \in Incomplete
       \/ sending.at = "encode" /\ sending.id \in Incomplete
=============================================================================
