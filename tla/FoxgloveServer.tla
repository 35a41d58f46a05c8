--------------------------- MODULE FoxgloveServer ---------------------------
(***************************************************************************)
(* Live telemetry (core/src/FoxgloveServer.cpp): any thread queues a       *)
(* message for broadcast in a bounded queue that drops its oldest message  *)
(* when it is full; one thread takes the whole queue and sends it to the   *)
(* clients outside the mutex; the destructor stops that thread.            *)
(*                                                                         *)
(* Messages are numbered in the order in which they enter the queue.  The  *)
(* parameters the server also keeps are in module ControlLoop.             *)
(***************************************************************************)
EXTENDS Naturals, Sequences, FiniteSets

CONSTANTS
  Producers,   \* threads that call core::log
  Topics,
  Known,       \* the topics the constructor has advertised
  MaxQueue,    \* MAX_SEND_QUEUE
  MaxMsgs      \* bound: how many messages are queued

ASSUME QueueAssumption ==
  MaxQueue \in Nat \ {0} /\ MaxMsgs \in Nat /\ Known \subseteq Topics /\ Topics # {}

VARIABLES
  advertised,  \* _name_to_id_map: topics that have a channel
  producer,    \* where each producer is in send_live_telem_msg, and its topic
  count,       \* history: messages queued so far
  queue,       \* _send_queue
  batch,       \* what the broadcast thread has taken
  sent,        \* history: what was broadcast
  dropped,     \* history: the messages pushed out of a full queue
  sender,      \* the broadcast thread
  running,     \* _send_running
  dtor,        \* where the destructor is
  atStop       \* history: count when the destructor was called

queueVars == <<count, queue, dropped>>
vars == <<advertised, producer, queueVars, batch, sent, sender, running, dtor, atStop>>

Idle == [at |-> "idle", topic |-> CHOOSE t \in Topics : TRUE]

Init ==
  /\ advertised = Known
  /\ producer = [p \in Producers |-> Idle]
  /\ count = 0 /\ queue = <<>> /\ batch = <<>> /\ sent = <<>> /\ dropped = {}
  /\ sender = "awake" /\ running = TRUE
  /\ dtor = "not called" /\ atStop = 0

Woken == IF sender = "asleep" THEN "awake" ELSE sender

-----------------------------------------------------------------------------
(* send_live_telem_msg: under the channel mutex, advertise a channel for a *)
(* topic that is used for the first time ...  A producer that took the     *)
(* pointer before destroy() cleared it may begin until the object is gone. *)
FindChannel(p, t) ==
  /\ producer[p].at = "idle" /\ dtor # "stopped"
  /\ count + Cardinality({q \in Producers : producer[q].at = "queueing"}) < MaxMsgs
  /\ producer' = [producer EXCEPT ![p] = [at |-> "queueing", topic |-> t]]
  /\ advertised' = advertised \cup {t}
  /\ UNCHANGED <<queueVars, batch, sent, sender, running, dtor, atStop>>

(* Mutated: the queue is compared to its limit after the message is in. *)
Enqueue_OffByOne(p) ==
  /\ producer[p].at = "queueing"
  /\ producer' = [producer EXCEPT ![p].at = "notifying"]
  /\ count' = count + 1
  /\ IF Len(queue) > MaxQueue
       THEN /\ dropped' = dropped \cup {Head(queue).id}
            /\ queue' = Append(Tail(queue), [id |-> count + 1, topic |-> producer[p].topic])
       ELSE /\ queue' = Append(queue, [id |-> count + 1, topic |-> producer[p].topic])
            /\ UNCHANGED dropped
  /\ UNCHANGED <<advertised, batch, sent, sender, running, dtor, atStop>>

(* ... under the send mutex, queue the message ... *)
Enqueue(p) ==
  /\ producer[p].at = "queueing"
  /\ producer' = [producer EXCEPT ![p].at = "notifying"]
  /\ count' = count + 1
  /\ IF Len(queue) >= MaxQueue
       THEN /\ dropped' = dropped \cup {Head(queue).id}
            /\ queue' = Append(Tail(queue), [id |-> count + 1, topic |-> producer[p].topic])
       ELSE /\ queue' = Append(queue, [id |-> count + 1, topic |-> producer[p].topic])
            /\ UNCHANGED dropped
  /\ UNCHANGED <<advertised, batch, sent, sender, running, dtor, atStop>>

(* Mutated: nobody is told. *)
Notify_Silent(p) ==
  /\ producer[p].at = "notifying"
  /\ producer' = [producer EXCEPT ![p] = Idle]
  /\ UNCHANGED <<advertised, queueVars, batch, sent, sender, running, dtor, atStop>>

(* ... and, with no mutex held, notify. *)
Notify(p) ==
  /\ producer[p].at = "notifying"
  /\ producer' = [producer EXCEPT ![p] = Idle]
  /\ sender' = Woken
  /\ UNCHANGED <<advertised, queueVars, batch, sent, running, dtor, atStop>>

-----------------------------------------------------------------------------
(* Mutated: the thread leaves as soon as it is told to. *)
SenderTakes_LeavesEarly ==
  /\ sender = "awake"
  /\ \/ /\ queue = <<>> /\ running
        /\ sender' = "asleep" /\ UNCHANGED <<queue, batch>>
     \/ /\ ~running
        /\ sender' = "done" /\ UNCHANGED <<queue, batch>>
     \/ /\ queue # <<>> /\ running
        /\ sender' = "sending" /\ batch' = queue /\ queue' = <<>>
  /\ UNCHANGED <<advertised, producer, count, dropped, sent, running, dtor, atStop>>

(* _broadcast_loop: wait, leave when told to and there is nothing left, or *)
(* take the whole queue ...                                                *)
SenderTakes ==
  /\ sender = "awake"
  /\ \/ /\ queue = <<>> /\ running
        /\ sender' = "asleep" /\ UNCHANGED <<queue, batch>>
     \/ /\ queue = <<>> /\ ~running
        /\ sender' = "done" /\ UNCHANGED <<queue, batch>>
     \/ /\ queue # <<>>
        /\ sender' = "sending" /\ batch' = queue /\ queue' = <<>>
  /\ UNCHANGED <<advertised, producer, count, dropped, sent, running, dtor, atStop>>

(* ... and broadcast it outside the mutex. *)
SenderSends ==
  /\ sender = "sending"
  /\ sent' = Append(sent, Head(batch))
  /\ batch' = Tail(batch)
  /\ sender' = IF Len(batch) = 1 THEN "awake" ELSE "sending"
  /\ UNCHANGED <<advertised, producer, queueVars, running, dtor, atStop>>

-----------------------------------------------------------------------------
(* The destructor: clear the flag under the mutex, notify, join, stop the  *)
(* websocket server.                                                       *)
Stop ==
  /\ dtor = "not called" /\ dtor' = "notifying"
  /\ running' = FALSE
  /\ atStop' = count
  /\ UNCHANGED <<advertised, producer, queueVars, batch, sent, sender>>

StopNotifies ==
  /\ dtor = "notifying" /\ dtor' = "joining"
  /\ sender' = Woken
  /\ UNCHANGED <<advertised, producer, queueVars, batch, sent, running, atStop>>

StopJoins ==
  /\ dtor = "joining" /\ sender = "done"
  /\ dtor' = "stopped"
  /\ UNCHANGED <<advertised, producer, queueVars, batch, sent, sender, running, atStop>>

Next ==
  \/ \E p \in Producers : \/ \E t \in Topics : FindChannel(p, t)
                          \/ Enqueue(p) \/ Notify(p)
  \/ SenderTakes \/ SenderSends
  \/ Stop \/ StopNotifies \/ StopJoins

Spec == Init /\ [][Next]_vars

(* The broadcast thread is scheduled; a producer and the destructor finish *)
(* the calls they are in.                                                  *)
Fairness ==
  /\ WF_vars(SenderTakes) /\ WF_vars(SenderSends)
  /\ \A p \in Producers : WF_vars(Enqueue(p)) /\ WF_vars(Notify(p))
  /\ WF_vars(StopNotifies) /\ WF_vars(StopJoins)

FairSpec == Spec /\ Fairness

-----------------------------------------------------------------------------
Message == [id : Nat, topic : Topics]
Handled == sent \o batch \o queue
Ids(s) == {s[i].id : i \in 1..Len(s)}

(* Type invariant, with the bounds on the queue and on a batch. *)
TypeOK ==
  /\ advertised \subseteq Topics
  /\ producer \in [Producers -> [at : {"idle", "queueing", "notifying"}, topic : Topics]]
  /\ count \in Nat /\ atStop \in Nat
  /\ queue \in Seq(Message) /\ Len(queue) <= MaxQueue
  /\ batch \in Seq(Message) /\ Len(batch) <= MaxQueue
  /\ sent \in Seq(Message)
  /\ dropped \subseteq Nat
  /\ sender \in {"awake", "asleep", "sending", "done"} /\ running \in BOOLEAN
  /\ dtor \in {"not called", "notifying", "joining", "stopped"}

(* Whatever the threads do, messages are broadcast in the order in which   *)
(* they were queued, each at most once, on a channel that is advertised,   *)
(* and every message is sent, on its way, or was dropped.                  *)
BroadcastInOrder ==
  /\ \A i, j \in 1..Len(Handled) : i < j => Handled[i].id < Handled[j].id
  /\ \A i \in 1..Len(Handled) : Handled[i].topic \in advertised
  /\ 1..count = Ids(Handled) \cup dropped

(* The server implements a lossy channel whose messages on their way are   *)
(* the batch of the broadcast thread followed by the queue: each is        *)
(* broadcast once and in the order in which it was queued, at most twice   *)
(* the queue's limit are kept, and a message is lost only to make room     *)
(* when the limit of newer ones, the last one included, is behind it.      *)
Channel == INSTANCE LossyChannel WITH
             Capacity <- MaxQueue, offered <- count, pending <- batch \o queue,
             delivered <- sent, lost <- dropped
ImplementsChannel == Channel!Spec

(* When the destructor has joined the thread, what had been queued before  *)
(* it was called has been broadcast or dropped.                            *)
StopDrains == dtor = "stopped" => 1..atStop \subseteq Ids(sent) \cup dropped

(* A message that is queued while the server runs is eventually broadcast  *)
(* or pushed out by newer ones.                                            *)
QueuedIsSent ==
  \A i \in 1..MaxMsgs :
    (count >= i /\ running) ~> (i \in Ids(sent) \cup dropped)

-----------------------------------------------------------------------------
(* What the comment on the destructor says: the broadcast thread is        *)
(* stopped before any producer can enqueue into a dead server.             *)
NoneQueuedWhenDead == dtor = "stopped" => queue = <<>>
=============================================================================
