----------------------------- MODULE Receivers -----------------------------
(***************************************************************************)
(* The receivers on the io_context: the four Ethernet ports                *)
(* (comms/include/ETHRecvComms.tpp) and the VectorNav's serial port        *)
(* (comms/src/VNComms.cpp).  Each is a chain of asynchronous reads: a read *)
(* completes, its handler runs on the io_context's only thread, gives a    *)
(* message to the logger and the state tracker, and starts the next read.  *)
(*                                                                         *)
(* A port parses every datagram into the same message object.  A message   *)
(* is two fields, each with the packet it is from; 0 is a field that is    *)
(* not set.  A read of the serial port is one packet: finding packets in   *)
(* the byte stream is the vendor's library.                                *)
(***************************************************************************)
EXTENDS Naturals, Sequences

CONSTANTS
  Ports,         \* Ethernet ports
  MaxPackets     \* bound: packets that arrive on a chain

VARIABLES
  arrived,       \* packets in the socket's or the serial port's buffer
  read,          \* the chain's asynchronous read
  buffered,      \* _recv_buffer, _input_buff: the packet it holds
  message,       \* _received_msg
  taken,         \* history: packets the handler was called for
  given,         \* history: messages given to logger and tracker
  broken,        \* history: chains that were told of an error
  io             \* the io_context's thread: "up" or "down"

receiverVars == <<arrived, read, buffered, message, taken, given, broken, io>>

VN == "vn"
Chains == Ports \cup {VN}

(* A packet is whole; or it cannot be parsed to its end, because it is     *)
(* malformed or was cut at the buffer's size; or it is one that the        *)
(* VectorNav is not asked for.                                             *)
Qualities(c) == IF c = VN THEN {"whole", "other"} ELSE {"whole", "cut"}
Unset == [head |-> 0, tail |-> 0]
NoPacket == [id |-> 0, quality |-> "whole"]

Init ==
  /\ arrived = [c \in Chains |-> <<>>]
  /\ read \in [Chains -> {"started", "none"}]    \* a port that is not there has no chain
  /\ \A c \in Ports : read[c] = "started"
  /\ buffered = [c \in Chains |-> NoPacket]
  /\ message = [c \in Chains |-> Unset]
  /\ taken = [c \in Chains |-> <<>>] /\ given = [c \in Chains |-> <<>>]
  /\ broken = {c \in Chains : read[c] = "none"}
  /\ io = "up"

-----------------------------------------------------------------------------
Total(c) == Len(arrived[c]) + Len(taken[c]) + (IF read[c] = "complete" THEN 1 ELSE 0)

Arrive(c, q) ==
  /\ Total(c) < MaxPackets
  /\ arrived' = [arrived EXCEPT ![c] = Append(@, [id |-> Total(c) + 1, quality |-> q])]
  /\ UNCHANGED <<read, buffered, message, taken, given, broken, io>>

(* The read completes with the next packet ... *)
Complete(c) ==
  /\ read[c] = "started" /\ arrived[c] # <<>>
  /\ read' = [read EXCEPT ![c] = "complete"]
  /\ buffered' = [buffered EXCEPT ![c] = Head(arrived[c])]
  /\ arrived' = [arrived EXCEPT ![c] = Tail(@)]
  /\ UNCHANGED <<message, taken, given, broken, io>>

(* ... or with an error: the handler returns and no read follows. *)
Fail(c) ==
  /\ read[c] = "started" /\ io = "up"
  /\ read' = [read EXCEPT ![c] = "none"]
  /\ broken' = broken \cup {c}
  /\ UNCHANGED <<arrived, buffered, message, taken, given, io>>

(* Mutated: the message is not cleared before it is parsed into. *)
Parse_Merges(old, p) ==
  IF p.quality = "whole" THEN {[head |-> p.id, tail |-> p.id]}
                         ELSE {old, [old EXCEPT !.head = p.id]}

(* ParseFromArray clears the message and fills it as far as it gets; what  *)
(* it returns is not looked at.                                            *)
Parse(old, p) ==
  IF p.quality = "whole" THEN {[head |-> p.id, tail |-> p.id]}
                         ELSE {Unset, [Unset EXCEPT !.head = p.id]}

(* ETHRecvComms::_handle_receive *)
HandleDatagram(c) ==
  /\ io = "up" /\ c \in Ports /\ read[c] = "complete"
  /\ \E m \in Parse(message[c], buffered[c]) :
        /\ message' = [message EXCEPT ![c] = m]
        /\ given' = [given EXCEPT ![c] = Append(@, m)]
  /\ taken' = [taken EXCEPT ![c] = Append(@, buffered[c])]
  /\ read' = [read EXCEPT ![c] = "started"]
  /\ UNCHANGED <<arrived, buffered, broken, io>>

(* VNDriver::_start_recieve's handler and _handle_recieve, with a message  *)
(* of its own for every packet; packets of another kind are skipped.       *)
HandleSerial ==
  /\ io = "up" /\ read[VN] = "complete"
  /\ given' = IF buffered[VN].quality = "whole"
                THEN [given EXCEPT ![VN] = Append(@, [head |-> buffered[VN].id,
                                                      tail |-> buffered[VN].id])]
                ELSE given
  /\ taken' = [taken EXCEPT ![VN] = Append(@, buffered[VN])]
  /\ read' = [read EXCEPT ![VN] = "started"]
  /\ UNCHANGED <<arrived, buffered, message, broken, io>>

(* An exception in a handler ends the io_context's thread, and with it     *)
(* every chain.                                                            *)
HandlerThrows(c) ==
  /\ io = "up" /\ read[c] = "complete"
  /\ io' = "down"
  /\ UNCHANGED <<arrived, read, buffered, message, taken, given, broken>>

Next ==
  \/ \E c \in Chains : \/ \E q \in Qualities(c) : Arrive(c, q)
                       \/ Complete(c) \/ Fail(c) \/ HandleDatagram(c) \/ HandlerThrows(c)
  \/ HandleSerial

Spec == Init /\ [][Next]_receiverVars

-----------------------------------------------------------------------------
(* What the tracker is given is what arrived: each message comes from the  *)
(* one packet it is made of, in the order of arrival and none twice,       *)
(* fields of an earlier packet never show through; a whole packet is       *)
(* complete; and a chain falls silent only when it was told of an error or *)
(* the thread is down.  A port hands on every packet, the VectorNav        *)
(* exactly the ones it is asked for.                                       *)
ReceivedAsSent ==
  /\ \A c \in Chains :
       /\ \A k \in DOMAIN taken[c] : taken[c][k].id = k
       /\ read[c] = "none" => c \in broken
  /\ \A c \in Ports :
       /\ Len(given[c]) = Len(taken[c])
       /\ \A k \in DOMAIN taken[c] :
            /\ {given[c][k].head, given[c][k].tail} \subseteq {k, 0}
            /\ taken[c][k].quality = "whole" => given[c][k] = [head |-> k, tail |-> k]
  /\ \A k \in DOMAIN given[VN] :
       /\ given[VN][k].head \in DOMAIN taken[VN] /\ given[VN][k].tail = given[VN][k].head
       /\ taken[VN][given[VN][k].head].quality = "whole"
       /\ \A l \in 1..(k - 1) : given[VN][l].head < given[VN][k].head
  /\ \A k \in DOMAIN taken[VN] : taken[VN][k].quality = "whole" =>
       \E l \in DOMAIN given[VN] : given[VN][l].head = k
=============================================================================
