---------------------------- MODULE BlackflyComms ----------------------------
(***************************************************************************)
(* One camera (comms/src/BlackflyComms.cpp): start() opens it and gives    *)
(* its stream a fixed set of buffers; the camera fills buffers; a thread   *)
(* takes the filled ones, records, streams and detects, and gives them     *)
(* back; the destructor joins the thread and lets go of the camera.        *)
(*                                                                         *)
(* The camera and the stream's queues are Aravis: external, modelled by    *)
(* what the calls promise.  Frames are numbered; what is in them is not    *)
(* modelled.                                                               *)
(***************************************************************************)
EXTENDS Naturals, Sequences, FiniteSets

CONSTANTS
  Buffers,     \* the buffers start() allocates
  MaxFrames    \* bound: frames the camera delivers

VARIABLES
  camera,      \* _camera and _stream: "none", "open" (a camera only), "streaming", "gone"
  empty,       \* buffers the stream may fill
  filled,      \* buffers it has filled, oldest first
  loop,        \* where the receive thread is
  hand,        \* the buffer the thread holds, as a set
  live,        \* _running
  closing,     \* where the destructor is
  frames,      \* history: frames taken by the camera
  encoder,     \* whether there is a video encoder
  detections   \* the frame whose detections the state tracker has; 0 is none

cameraVars == <<camera, empty, filled, loop, hand, live, closing, frames, encoder, detections>>

(* A filled buffer: a whole frame, one whose size is wrong, or one the     *)
(* stream reports as incomplete.                                           *)
Status == {"success", "bad size", "incomplete"}

Init ==
  /\ camera = "none" /\ empty = {} /\ filled = <<>>
  /\ loop = "none" /\ hand = {} /\ live = FALSE /\ closing = "no"
  /\ frames = 0 /\ encoder = FALSE /\ detections = 0

-----------------------------------------------------------------------------
(* start() gives up: no camera or not a GigE one, no payload, no stream,   *)
(* or a buffer that cannot be allocated, after some have been pushed.      *)
(* Nothing is undone, and the caller keeps the object.                     *)
StartFails ==
  /\ camera = "none" /\ loop = "none" /\ closing = "no"
  /\ \/ /\ camera' \in {"none", "open"} /\ loop' = "never"
        /\ UNCHANGED empty
     \/ /\ camera' = "streaming" /\ loop' = "never"
        /\ \E S \in (SUBSET Buffers) \ {Buffers} : empty' = S
  /\ UNCHANGED <<filled, hand, live, closing, frames, encoder, detections>>

(* start() pushes the buffers, starts the acquisition and the thread. *)
StartSucceeds ==
  /\ camera = "none" /\ loop = "none" /\ closing = "no"
  /\ camera' = "streaming" /\ empty' = Buffers
  /\ live' = TRUE /\ loop' = "top"
  /\ UNCHANGED <<filled, hand, closing, frames, encoder, detections>>

(* The camera delivers a frame.  Without an empty buffer it is lost. *)
CameraDelivers(s) ==
  /\ camera = "streaming" /\ loop # "never" /\ frames < MaxFrames
  /\ frames' = frames + 1
  /\ IF empty = {}
       THEN UNCHANGED <<empty, filled>>
       ELSE \E b \in empty :
              /\ empty' = empty \ {b}
              /\ filled' = Append(filled, [buffer |-> b, frame |-> frames + 1, status |-> s])
  /\ UNCHANGED <<camera, loop, hand, live, closing, encoder, detections>>

-----------------------------------------------------------------------------
(* _aravis_receive_loop: while (_running) ... *)
LoopTop ==
  /\ loop = "top"
  /\ loop' = IF live THEN "popping" ELSE "done"
  /\ UNCHANGED <<camera, empty, filled, hand, live, closing, frames, encoder, detections>>

(* ... wait up to a second for a filled buffer ... *)
Pop ==
  /\ loop = "popping"
  /\ IF filled = <<>>
       THEN loop' = "top" /\ UNCHANGED <<filled, hand>>
       ELSE /\ hand' = {Head(filled)} /\ filled' = Tail(filled)
            /\ loop' = CASE Head(filled).status = "success" -> "recording"
                         [] Head(filled).status = "bad size" -> "rejecting"
                         [] OTHER -> "returning"
  /\ UNCHANGED <<camera, empty, live, closing, frames, encoder, detections>>

(* Mutated: a bad frame is skipped with its buffer. *)
Reject_Keeps ==
  /\ loop = "rejecting" /\ loop' = "top"
  /\ hand' = {}
  /\ UNCHANGED <<camera, empty, filled, live, closing, frames, encoder, detections>>

(* ... a frame of the wrong size goes straight back ... *)
Reject ==
  /\ loop = "rejecting" /\ loop' = "top"
  /\ empty' = empty \cup {h.buffer : h \in hand} /\ hand' = {}
  /\ UNCHANGED <<camera, filled, live, closing, frames, encoder, detections>>

(* ... a good one is encoded and logged; a failure drops the encoder ... *)
Record ==
  /\ loop = "recording" /\ loop' = "detecting"
  /\ encoder' \in BOOLEAN
  /\ UNCHANGED <<camera, empty, filled, hand, live, closing, frames, detections>>

(* ... streamed and, if there is a detector, its cones are published. *)
Detect ==
  /\ loop = "detecting" /\ loop' = "returning"
  /\ \/ \E h \in hand : detections' = h.frame
     \/ UNCHANGED detections
  /\ UNCHANGED <<camera, empty, filled, hand, live, closing, frames, encoder>>

(* Outside the try an exception ends the process. *)
Throws ==
  /\ loop = "detecting" /\ loop' = "terminated"
  /\ UNCHANGED <<camera, empty, filled, hand, live, closing, frames, encoder, detections>>

(* arv_stream_push_buffer at the end of the iteration. *)
GiveBack ==
  /\ loop = "returning" /\ loop' = "top"
  /\ empty' = empty \cup {h.buffer : h \in hand} /\ hand' = {}
  /\ UNCHANGED <<camera, filled, live, closing, frames, encoder, detections>>

-----------------------------------------------------------------------------
(* The destructor clears the flag ... *)
Close ==
  /\ closing = "no" /\ closing' = "joining" /\ loop \notin {"none", "terminated"}
  /\ live' = FALSE
  /\ UNCHANGED <<camera, empty, filled, loop, hand, frames, encoder, detections>>

(* ... joins the thread, if there is one, stops the acquisition and drops  *)
(* the stream, with its buffers, and the camera.                           *)
Release ==
  /\ closing = "joining" /\ loop \in {"never", "done"} /\ closing' = "closed"
  /\ camera' = "gone" /\ empty' = {} /\ filled' = <<>>
  /\ UNCHANGED <<loop, hand, live, frames, encoder, detections>>

Thread == LoopTop \/ Pop \/ Reject \/ Record \/ Detect \/ GiveBack

Next ==
  \/ StartFails \/ StartSucceeds \/ (\E s \in Status : CameraDelivers(s))
  \/ Thread \/ Throws \/ Close \/ Release

Spec == Init /\ [][Next]_cameraVars

-----------------------------------------------------------------------------
InQueue == {filled[k].buffer : k \in DOMAIN filled}

(* While the camera streams, every buffer start() allocated is in exactly  *)
(* one place, so the stream cannot run dry for good, whatever frames come; *)
(* and the thread never holds a buffer of a stream that is gone.           *)
BuffersConserved ==
  /\ camera = "streaming" /\ loop # "never" =>
       /\ empty \cup InQueue \cup {h.buffer : h \in hand} = Buffers
       /\ Cardinality(empty) + Len(filled) + Cardinality(hand) = Cardinality(Buffers)
  /\ camera = "gone" => hand = {}
=============================================================================
