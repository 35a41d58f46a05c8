---------------------------- MODULE LossyChannel ----------------------------
(***************************************************************************)
(* What live telemetry promises, without threads, mutexes or batches: a    *)
(* channel that delivers messages once each and in the order in which they *)
(* were put, never keeps more than 2 * Capacity of them, and loses one     *)
(* only to make room for another, when Capacity newer ones are on their    *)
(* way behind it.                                                          *)
(***************************************************************************)
EXTENDS Naturals, Sequences

CONSTANTS Topics, Capacity

VARIABLES
  offered,    \* how many messages were put so far
  pending,    \* the messages that are on their way
  delivered,  \* the messages delivered, in order
  lost        \* the messages, by number, that had to make room

channelVars == <<offered, pending, delivered, lost>>

Init == offered = 0 /\ pending = <<>> /\ delivered = <<>> /\ lost = {}

Numbered(t) == [id |-> offered + 1, topic |-> t]

Put(t) ==
  /\ Len(pending) < 2 * Capacity
  /\ offered' = offered + 1
  /\ pending' = Append(pending, Numbered(t))
  /\ UNCHANGED <<delivered, lost>>

(* The message in place k is lost; with the one that is put, Capacity      *)
(* newer messages are then on their way behind it.                         *)
PutInPlaceOf(k, t) ==
  /\ Len(pending) - k >= Capacity - 1
  /\ offered' = offered + 1
  /\ pending' = [i \in 1..Len(pending) |->
                   IF i < k THEN pending[i]
                   ELSE IF i < Len(pending) THEN pending[i + 1] ELSE Numbered(t)]
  /\ lost' = lost \cup {pending[k].id}
  /\ UNCHANGED delivered

Deliver ==
  /\ pending # <<>>
  /\ delivered' = Append(delivered, Head(pending))
  /\ pending' = Tail(pending)
  /\ UNCHANGED <<offered, lost>>

Next ==
  \/ \E t \in Topics : \/ Put(t)
                       \/ \E k \in 1..Len(pending) : PutInPlaceOf(k, t)
  \/ Deliver

Spec == Init /\ [][Next]_channelVars
=============================================================================
