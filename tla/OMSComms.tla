------------------------------ MODULE OMSComms ------------------------------
(***************************************************************************)
(* The client of the ground speed sensor (comms/src/OMSComms.cpp): it      *)
(* connects over TCP, collects what it reads in _stream, takes complete    *)
(* packets off its front and delivers their frames one by one.  It         *)
(* connects again after an error and after a malformed header.             *)
(*                                                                         *)
(* The bytes of a packet are reduced to cells: two for its header, so that *)
(* a read can end inside it, and one for each frame.  A frame is the       *)
(* number of its sample.  The connection is the log of what was sent over  *)
(* it and how far it has been read.  All handlers run on the io_context's  *)
(* thread; the sensor and the network go on while it parses.               *)
(***************************************************************************)
EXTENDS Integers, Sequences

CONSTANTS
  MaxFrames,    \* frames that _recv_buffer.size() allows a packet to announce
  PacketSizes,  \* frames a header may announce; 0 or too many is malformed
  MaxSamples,   \* bound: how many samples the sensor takes
  MaxDrops,     \* bound: how often the connection is lost
  MaxFailures   \* bound: how often connecting fails

VARIABLES
  conn,      \* "connecting", "connected", "lost" (not known yet) or "waiting" for the timer
  log,       \* the cells sent over this connection
  got,       \* how many of them have been read
  stream,    \* _stream
  pos,       \* pos of _parse_packets, or Idle
  sampled,   \* history: samples taken so far
  origin,    \* history: samples taken before this connection
  packets,   \* history: the packets in the log before a malformed header
  good,      \* history: how many cells they are
  delivered, \* history: frames handed to the logger and to the tracker, in order
  here,      \* history: how many of them were delivered over earlier connections
  drops, failures

tcp     == <<log, got>>
history == <<sampled, origin, packets, good>>
counts  == <<drops, failures>>
vars == <<conn, tcp, stream, pos, history, delivered, here, counts>>

Idle == -1
HeaderSize == 2

Init ==
  /\ conn = "connecting" /\ log = <<>> /\ got = 0 /\ stream = <<>> /\ pos = Idle
  /\ sampled = 0 /\ origin = 0 /\ packets = {} /\ good = 0
  /\ delivered = <<>> /\ here = 0 /\ drops = 0 /\ failures = 0

Head1(n)  == [kind |-> "head1", n |-> n]
Head2     == [kind |-> "head2", n |-> 0]
Frame(i)  == [kind |-> "frame", n |-> i]

-----------------------------------------------------------------------------
(* The sensor: a packet of the next n samples; a header that announces     *)
(* none or too many; samples that nobody is connected for are skipped.     *)
SendPacket(n) ==
  /\ conn = "connected" /\ sampled + n <= MaxSamples /\ n \in 1..MaxFrames
  /\ log' = log \o <<Head1(n), Head2>> \o [i \in 1..n |-> Frame(sampled + i)]
  /\ sampled' = sampled + n
  /\ IF good = Len(log)
       THEN /\ good' = good + HeaderSize + n
            /\ packets' = packets \cup {[at |-> good, n |-> n, sample |-> sampled]}
       ELSE UNCHANGED <<good, packets>>
  /\ UNCHANGED <<conn, got, stream, pos, origin, delivered, here, counts>>

SendMalformed(n) ==
  /\ conn = "connected" /\ n \notin 1..MaxFrames /\ good = Len(log)
  /\ log' = log \o <<Head1(n), Head2>>
  /\ UNCHANGED <<conn, got, stream, pos, history, delivered, here, counts>>

SkipSample ==
  /\ conn # "connected" /\ sampled < MaxSamples
  /\ sampled' = sampled + 1
  /\ UNCHANGED <<conn, tcp, stream, pos, origin, packets, good, delivered, here, counts>>

(* The connection breaks; what has been sent may or may not be read before *)
(* the error is.                                                           *)
DropConnection ==
  /\ conn = "connected" /\ drops < MaxDrops
  /\ conn' = "lost" /\ drops' = drops + 1
  /\ UNCHANGED <<tcp, stream, pos, history, delivered, here, failures>>

-----------------------------------------------------------------------------
(* Mutated: what is left of the old connection is kept. *)
Connected_KeepsStream ==
  /\ conn = "connecting" /\ conn' = "connected"
  /\ log' = <<>> /\ got' = 0 /\ packets' = {} /\ good' = 0
  /\ origin' = sampled /\ here' = Len(delivered)
  /\ UNCHANGED <<stream, pos, sampled, delivered, counts>>

(* _connect's handler. *)
Connected ==
  /\ conn = "connecting" /\ conn' = "connected"
  /\ stream' = <<>>
  /\ log' = <<>> /\ got' = 0 /\ packets' = {} /\ good' = 0
  /\ origin' = sampled /\ here' = Len(delivered)
  /\ UNCHANGED <<pos, sampled, delivered, counts>>

ConnectFails ==
  /\ conn = "connecting" /\ failures < MaxFailures
  /\ conn' = "waiting" /\ failures' = failures + 1
  /\ UNCHANGED <<tcp, stream, pos, history, delivered, here, drops>>

(* The timer of _reconnect_later. *)
Reconnect ==
  /\ conn = "waiting" /\ conn' = "connecting"
  /\ UNCHANGED <<tcp, stream, pos, history, delivered, here, counts>>

(* _handle_receive of k cells calls _parse_packets ... *)
HandleReceive(k) ==
  /\ conn \in {"connected", "lost"} /\ pos = Idle /\ k \in 1..(Len(log) - got)
  /\ stream' = stream \o SubSeq(log, got + 1, got + k)
  /\ got' = got + k /\ pos' = 0
  /\ UNCHANGED <<conn, log, history, delivered, here, counts>>

(* _handle_receive with an error. *)
HandleError ==
  /\ conn = "lost" /\ pos = Idle /\ conn' = "waiting"
  /\ UNCHANGED <<tcp, stream, pos, history, delivered, here, counts>>

(* ... the header at pos is one this client understands, or is not; and    *)
(* its packet is complete, or is not ...                                   *)
Left == Len(stream) - pos
Malformed(c) == c.kind # "head1" \/ c.n < 1 \/ c.n > MaxFrames
HeaderRead == Left >= HeaderSize
PacketRead == HeaderRead /\ Left >= HeaderSize + stream[pos + 1].n

(* ... a complete packet's frames are delivered ... *)
ParsePacket ==
  /\ pos # Idle /\ PacketRead /\ ~Malformed(stream[pos + 1])
  /\ LET n == stream[pos + 1].n
     IN  /\ delivered' = delivered \o [i \in 1..n |-> stream[pos + HeaderSize + i].n]
         /\ pos' = pos + HeaderSize + n
  /\ UNCHANGED <<conn, tcp, stream, history, here, counts>>

(* ... and what may be the beginning of the next one stays in the stream.  *)
ParseEnds ==
  /\ pos # Idle /\ ~PacketRead /\ (HeaderRead => ~Malformed(stream[pos + 1]))
  /\ stream' = SubSeq(stream, pos + 1, Len(stream)) /\ pos' = Idle
  /\ UNCHANGED <<conn, tcp, history, delivered, here, counts>>

(* When the header is malformed, the packets before it have been delivered *)
(* but are not taken off the stream.                                       *)
ParseFails ==
  /\ pos # Idle /\ HeaderRead /\ Malformed(stream[pos + 1])
  /\ pos' = Idle /\ conn' = "waiting"
  /\ UNCHANGED <<tcp, stream, history, delivered, here, counts>>

Next ==
  \/ \E n \in PacketSizes : SendPacket(n) \/ SendMalformed(n)
  \/ SkipSample \/ DropConnection
  \/ Connected \/ ConnectFails \/ Reconnect
  \/ \E k \in 1..(Len(log) - got) : HandleReceive(k)
  \/ HandleError
  \/ ParsePacket \/ ParseEnds \/ ParseFails

Spec == Init /\ [][Next]_vars

-----------------------------------------------------------------------------
Cell == [kind : {"head1", "head2", "frame"}, n : Nat]
Packet == [at : Nat, n : 1..MaxFrames, sample : Nat]

(* Type invariant. *)
TypeOK ==
  /\ conn \in {"connecting", "connected", "lost", "waiting"}
  /\ log \in Seq(Cell) /\ got \in Nat /\ stream \in Seq(Cell) /\ pos \in Nat \cup {Idle}
  /\ sampled \in Nat /\ origin \in Nat /\ packets \subseteq Packet /\ good \in Nat
  /\ delivered \in Seq(Nat) /\ here \in Nat
  /\ drops \in Nat /\ failures \in Nat

(* Every sample is delivered at most once, and in the order in which it    *)
(* was taken: also when a connection ended inside a packet, or in a        *)
(* malformed header behind packets that had been delivered already.  While *)
(* a connection lasts no sample sent over it is left out, and when the     *)
(* handler returns, every packet that has been read to its end has been    *)
(* delivered.  (What follows a malformed header is not.)  And however the  *)
(* packets are cut and whatever a header announces, less than one packet   *)
(* stays in the stream.                                                    *)
FramesArriveOnce ==
  /\ \A i, j \in 1..Len(delivered) : i < j => delivered[i] < delivered[j]
  /\ conn \in {"connected", "lost"} =>
       /\ \A i \in 1..(Len(delivered) - here) : delivered[here + i] = origin + i
       /\ pos = Idle =>
            /\ \A p \in packets : p.at + HeaderSize + p.n <= got =>
                  p.sample + p.n <= origin + (Len(delivered) - here)
            /\ Len(stream) < HeaderSize + MaxFrames
=============================================================================
