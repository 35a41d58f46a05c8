------------------------ MODULE FoxgloveServerProofs ------------------------
(***************************************************************************)
(* Proofs about FoxgloveServer for any producers, topics and queue limit:  *)
(* the server implements the lossy channel of module LossyChannel, and     *)
(* what was queued before its destructor is broadcast or dropped.          *)
(***************************************************************************)
EXTENDS FoxgloveServer, SequenceTheorems, TLAPS

(* The broadcast thread holds messages exactly while it sends them. *)
BatchInv == sender = "sending" <=> batch # <<>>

IInv == TypeOK /\ BatchInv

-----------------------------------------------------------------------------
(* What Enqueue appends is a message. *)
LEMMA NewMessage ==
  ASSUME TypeOK, NEW p \in Producers
  PROVE  [id |-> count + 1, topic |-> producer[p].topic] \in Message
  <1>0. count \in Nat
    BY DEF TypeOK
  <1>1. count + 1 \in Nat
    BY ONLY <1>0
  <1>2. producer[p].topic \in Topics
    BY DEF TypeOK
  <1> QED BY <1>1, <1>2 DEF Message

(* The parts of the type invariant: what only concerns the control ... *)
ControlType ==
  /\ advertised \subseteq Topics
  /\ producer \in [Producers -> [at : {"idle", "queueing", "notifying"}, topic : Topics]]
  /\ sender \in {"awake", "asleep", "sending", "done"} /\ running \in BOOLEAN
  /\ dtor \in {"not called", "notifying", "joining", "stopped"}

(* ... and what concerns the messages. *)
DataType ==
  /\ count \in Nat /\ atStop \in Nat
  /\ queue \in Seq(Message) /\ Len(queue) <= MaxQueue
  /\ batch \in Seq(Message) /\ Len(batch) <= MaxQueue
  /\ sent \in Seq(Message)
  /\ dropped \subseteq Nat

LEMMA TypeParts == /\ TypeOK <=> ControlType /\ DataType
                   /\ TypeOK' <=> ControlType' /\ DataType'
  BY DEF TypeOK, ControlType, DataType

LEMMA ControlTypeStep == TypeOK /\ [Next]_vars => ControlType'
  <1> SUFFICES ASSUME ControlType, [Next]_vars PROVE ControlType'
    BY TypeParts
  <1> USE DEF ControlType
  <1>1. ASSUME NEW p \in Producers, NEW t \in Topics, FindChannel(p, t) PROVE ControlType'
    <2>1. [at |-> "queueing", topic |-> t]
            \in [at : {"idle", "queueing", "notifying"}, topic : Topics]
      OBVIOUS
    <2> QED BY <1>1, <2>1 DEF FindChannel
  <1>2. ASSUME NEW p \in Producers, Enqueue(p) PROVE ControlType'
    BY <1>2 DEF Enqueue
  <1>3. ASSUME NEW p \in Producers, Notify(p) PROVE ControlType'
    <2>1. Idle \in [at : {"idle", "queueing", "notifying"}, topic : Topics]
      BY QueueAssumption DEF Idle
    <2> QED BY <1>3, <2>1 DEF Notify, Woken
  <1>4. ASSUME SenderTakes PROVE ControlType'
    BY <1>4 DEF SenderTakes
  <1>5. ASSUME SenderSends PROVE ControlType'
    BY <1>5 DEF SenderSends
  <1>6. ASSUME Stop PROVE ControlType'
    BY <1>6 DEF Stop
  <1>7. ASSUME StopNotifies PROVE ControlType'
    BY <1>7 DEF StopNotifies, Woken
  <1>8. ASSUME StopJoins PROVE ControlType'
    BY <1>8 DEF StopJoins
  <1>9. ASSUME UNCHANGED vars PROVE ControlType'
    BY <1>9 DEF vars
  <1> QED BY <1>1, <1>2, <1>3, <1>4, <1>5, <1>6, <1>7, <1>8, <1>9 DEF Next

LEMMA DataTypeStep == TypeOK /\ BatchInv /\ [Next]_vars => DataType'
  <1> SUFFICES ASSUME TypeOK, DataType, BatchInv, [Next]_vars PROVE DataType'
    BY TypeParts
  <1>t. /\ count \in Nat /\ queue \in Seq(Message) /\ batch \in Seq(Message)
        /\ Len(queue) \in Nat /\ Len(batch) \in Nat /\ MaxQueue \in Nat \ {0}
        /\ Len(queue) <= MaxQueue /\ Len(batch) <= MaxQueue
        /\ sent \in Seq(Message)
    BY LenProperties, QueueAssumption DEF DataType
  <1>1. ASSUME NEW p \in Producers, NEW t \in Topics, FindChannel(p, t) PROVE DataType'
    BY <1>1 DEF FindChannel, DataType, queueVars
  <1>2. ASSUME NEW p \in Producers, Enqueue(p) PROVE DataType'
    <2> DEFINE m == [id |-> count + 1, topic |-> producer[p].topic]
    <2>1. m \in Message
      BY NewMessage
    <2>2. count' \in Nat
      BY <1>2, <1>t DEF Enqueue
    <2>3. /\ Len(queue) >= MaxQueue =>
               queue' = Append(Tail(queue), m) /\ dropped' = dropped \cup {Head(queue).id}
          /\ ~(Len(queue) >= MaxQueue) => queue' = Append(queue, m) /\ dropped' = dropped
      BY <1>2 DEF Enqueue
    <2>u. UNCHANGED <<atStop, batch, sent>>
      BY <1>2 DEF Enqueue
    <2> HIDE DEF m
    <2>4. CASE Len(queue) >= MaxQueue
      <3>1. queue # <<>>
        BY <2>4, <1>t, EmptySeq
      <3>2. /\ Head(queue) \in Message /\ Tail(queue) \in Seq(Message)
            /\ Len(Tail(queue)) = Len(queue) - 1
        BY <1>t, <3>1, HeadTailProperties
      <3>3. /\ Append(Tail(queue), m) \in Seq(Message)
            /\ Len(Append(Tail(queue), m)) = Len(Tail(queue)) + 1
        BY <2>1, <3>2, AppendProperties
      <3>4. Head(queue).id \in Nat
        BY <3>2 DEF Message
      <3>5. queue' = Append(Tail(queue), m)
        BY <2>3, <2>4
      <3>6. Len(Append(Tail(queue), m)) <= MaxQueue
        BY ONLY <3>2, <3>3, <1>t
      <3>7. dropped' \subseteq Nat
        BY <2>3, <2>4, <3>4 DEF DataType
      <3> QED BY <2>2, <2>u, <3>3, <3>5, <3>6, <3>7 DEF DataType
    <2>5. CASE ~(Len(queue) >= MaxQueue)
      <3>1. /\ Append(queue, m) \in Seq(Message)
            /\ Len(Append(queue, m)) = Len(queue) + 1
        BY <2>1, <1>t, AppendProperties
      <3>2. queue' = Append(queue, m)
        BY <2>3, <2>5
      <3>4. Len(Append(queue, m)) <= MaxQueue
        BY ONLY <2>5, <3>1, <1>t
      <3>3. dropped' \subseteq Nat
        BY <2>3, <2>5 DEF DataType
      <3> QED BY <2>2, <2>u, <3>1, <3>2, <3>3, <3>4 DEF DataType
    <2> QED BY <2>4, <2>5
  <1>3. ASSUME NEW p \in Producers, Notify(p) PROVE DataType'
    BY <1>3 DEF Notify, DataType, queueVars
  <1>4. ASSUME SenderTakes PROVE DataType'
    <2>1. <<>> \in Seq(Message) /\ Len(<<>>) = 0 /\ 0 <= MaxQueue
      BY EmptySeq, <1>t
    <2>2. UNCHANGED <<count, atStop, sent, dropped>>
      BY <1>4 DEF SenderTakes
    <2>3. \/ queue' = queue /\ batch' = batch
          \/ queue' = <<>> /\ batch' = queue
      BY <1>4 DEF SenderTakes
    <2> QED BY <2>1, <2>2, <2>3 DEF DataType
  <1>5. ASSUME SenderSends PROVE DataType'
    <2>1. batch # <<>>
      BY <1>5 DEF SenderSends, BatchInv
    <2>2. /\ Head(batch) \in Message /\ Tail(batch) \in Seq(Message)
          /\ Len(Tail(batch)) = Len(batch) - 1
      BY <1>t, <2>1, HeadTailProperties
    <2>3. Append(sent, Head(batch)) \in Seq(Message)
      BY <1>t, <2>2, AppendProperties
    <2>4. Len(Tail(batch)) <= MaxQueue
      BY <2>2, <1>t
    <2>5. /\ sent' = Append(sent, Head(batch)) /\ batch' = Tail(batch)
          /\ UNCHANGED <<count, queue, dropped, atStop>>
      BY <1>5 DEF SenderSends, queueVars
    <2> QED BY <2>2, <2>3, <2>4, <2>5 DEF DataType
  <1>6. ASSUME Stop PROVE DataType'
    BY <1>6 DEF Stop, DataType, queueVars
  <1>7. ASSUME StopNotifies PROVE DataType'
    BY <1>7 DEF StopNotifies, DataType, queueVars
  <1>8. ASSUME StopJoins PROVE DataType'
    BY <1>8 DEF StopJoins, DataType, queueVars
  <1>9. ASSUME UNCHANGED vars PROVE DataType'
    BY <1>9 DEF vars, DataType, queueVars
  <1> QED BY <1>1, <1>2, <1>3, <1>4, <1>5, <1>6, <1>7, <1>8, <1>9 DEF Next

LEMMA BatchStep == IInv /\ [Next]_vars => BatchInv'
  <1> SUFFICES ASSUME TypeOK, BatchInv, [Next]_vars PROVE BatchInv'
    BY DEF IInv
  <1> USE DEF BatchInv, queueVars
  <1>0. batch \in Seq(Message) /\ queue \in Seq(Message)
    BY DEF TypeOK
  <1>1. ASSUME NEW p \in Producers, NEW t \in Topics, FindChannel(p, t) PROVE BatchInv'
    BY <1>1 DEF FindChannel
  <1>2. ASSUME NEW p \in Producers, Enqueue(p) PROVE BatchInv'
    BY <1>2 DEF Enqueue
  <1>3. ASSUME NEW p \in Producers, Notify(p) PROVE BatchInv'
    BY <1>3 DEF Notify, Woken
  <1>4. ASSUME SenderTakes PROVE BatchInv'
    BY <1>4 DEF SenderTakes
  <1>5. ASSUME SenderSends PROVE BatchInv'
    <2>1. batch # <<>>
      BY <1>5 DEF SenderSends
    <2>2. Tail(batch) \in Seq(Message) /\ Len(Tail(batch)) = Len(batch) - 1 /\ Len(batch) \in Nat
      BY <1>0, <2>1, HeadTailProperties, LenProperties
    <2>3. Tail(batch) = <<>> <=> Len(Tail(batch)) = 0
      BY ONLY <2>2, EmptySeq
    <2>4. Tail(batch) = <<>> <=> Len(batch) = 1
      BY ONLY <2>2, <2>3
    <2> QED BY <1>5, <2>4 DEF SenderSends
  <1>6. ASSUME Stop PROVE BatchInv'
    BY <1>6 DEF Stop
  <1>7. ASSUME StopNotifies PROVE BatchInv'
    BY <1>7 DEF StopNotifies, Woken
  <1>8. ASSUME StopJoins PROVE BatchInv'
    BY <1>8 DEF StopJoins
  <1>9. ASSUME UNCHANGED vars PROVE BatchInv'
    BY <1>9 DEF vars
  <1> QED BY <1>1, <1>2, <1>3, <1>4, <1>5, <1>6, <1>7, <1>8, <1>9 DEF Next

LEMMA IInvAlways == Spec => []IInv
  <1>1. Init => IInv
    <2> SUFFICES ASSUME Init PROVE IInv
      OBVIOUS
    <2>1. <<>> \in Seq(Message) /\ Len(<<>>) = 0
      BY EmptySeq
    <2>2. producer \in [Producers -> [at : {"idle", "queueing", "notifying"}, topic : Topics]]
      BY QueueAssumption DEF Init, Idle
    <2>3. BatchInv
      BY DEF Init, BatchInv
    <2>4. ControlType
      BY <2>2, QueueAssumption DEF Init, ControlType
    <2>5. DataType
      <3>1. 0 \in Nat /\ 0 <= MaxQueue
        BY QueueAssumption
      <3>2. /\ count = 0 /\ queue = <<>> /\ batch = <<>> /\ sent = <<>> /\ dropped = {}
            /\ atStop = 0
        BY DEF Init
      <3> QED BY ONLY <2>1, <3>1, <3>2 DEF DataType
    <2> QED BY <2>3, <2>4, <2>5, TypeParts DEF IInv
  <1>2. IInv /\ [Next]_vars => IInv'
    BY ControlTypeStep, DataTypeStep, BatchStep, TypeParts DEF IInv
  <1> QED BY <1>1, <1>2, PTL DEF Spec

(* The server's state keeps its type, with its queue and its batch within  *)
(* the limit.                                                              *)
THEOREM TypeCorrect == Spec => []TypeOK
  <1>1. IInv => TypeOK
    BY DEF IInv
  <1> QED BY <1>1, IInvAlways, PTL

-----------------------------------------------------------------------------
(* Sequences, element by element: what is put behind two that are joined, *)
(* what is taken from their front ...                                     *)
LEMMA JoinAppend ==
  ASSUME NEW S, NEW a \in Seq(S), NEW b \in Seq(S), NEW x \in S
  PROVE  a \o Append(b, x) = Append(a \o b, x)
  <1>1. Append(b, x) = b \o <<x>> /\ Append(a \o b, x) = (a \o b) \o <<x>> /\ <<x>> \in Seq(S)
    BY AppendIsConcat, ConcatProperties
  <1> QED BY <1>1, ConcatAssociative

LEMMA JoinHead ==
  ASSUME NEW S, NEW a \in Seq(S), NEW b \in Seq(S), a # <<>>
  PROVE  a \o b # <<>> /\ Head(a \o b) = Head(a) /\ Tail(a \o b) = Tail(a) \o b
  <1>1. Head(a) \in S /\ Tail(a) \in Seq(S) /\ <<Head(a)>> \in Seq(S)
    BY HeadTailProperties
  <1>2. a = <<Head(a)>> \o Tail(a)
    BY <1>1, HeadTailProperties, ConcatProperties, SeqEqual
  <1>3. a \o b = <<Head(a)>> \o (Tail(a) \o b) /\ Tail(a) \o b \in Seq(S)
    BY <1>1, <1>2, ConcatAssociative, ConcatProperties
  <1> QED BY <1>1, <1>3, SMTT(30)

(* ... and what is left when the first element of the second one makes     *)
(* room for a new last one.                                                *)
LEMMA JoinShift ==
  ASSUME NEW S, NEW a \in Seq(S), NEW b \in Seq(S), NEW x \in S, b # <<>>
  PROVE  /\ Len(a \o b) = Len(a) + Len(b) /\ Len(a) \in Nat /\ Len(b) \in Nat \ {0}
         /\ (a \o b)[Len(a) + 1] = Head(b)
         /\ a \o Append(Tail(b), x) =
              [i \in 1..Len(a \o b) |->
                 IF i < Len(a) + 1 THEN (a \o b)[i]
                 ELSE IF i < Len(a \o b) THEN (a \o b)[i + 1] ELSE x]
  <1> DEFINE c == Append(Tail(b), x)
             R == [i \in 1..Len(a \o b) |->
                     IF i < Len(a) + 1 THEN (a \o b)[i]
                     ELSE IF i < Len(a \o b) THEN (a \o b)[i + 1] ELSE x]
  <1>1. Len(a) \in Nat /\ Len(b) \in Nat \ {0}
    BY LenProperties, EmptySeq
  <1>2. /\ Head(b) = b[1] /\ Tail(b) \in Seq(S) /\ Len(Tail(b)) = Len(b) - 1
        /\ \A i \in 1..Len(Tail(b)) : Tail(b)[i] = b[i + 1]
    BY HeadTailProperties
  <1>3. /\ c \in Seq(S) /\ Len(c) = Len(Tail(b)) + 1 /\ c[Len(Tail(b)) + 1] = x
        /\ \A i \in 1..Len(Tail(b)) : c[i] = Tail(b)[i]
    BY <1>2, AppendProperties
  <1> HIDE DEF c
  <1>4. Len(c) = Len(b) /\ c[Len(b)] = x
    BY ONLY <1>1, <1>2, <1>3
  <1>5. \A i \in 1..Len(b) - 1 : c[i] = b[i + 1]
    BY ONLY <1>1, <1>2, <1>3
  <1>6. /\ a \o b \in Seq(S) /\ Len(a \o b) = Len(a) + Len(b)
        /\ \A i \in 1..Len(a) + Len(b) :
             (a \o b)[i] = IF i <= Len(a) THEN a[i] ELSE b[i - Len(a)]
    BY ConcatProperties
  <1>7. /\ a \o c \in Seq(S) /\ Len(a \o c) = Len(a) + Len(c)
        /\ \A i \in 1..Len(a) + Len(c) :
             (a \o c)[i] = IF i <= Len(a) THEN a[i] ELSE c[i - Len(a)]
    BY <1>3, ConcatProperties
  <1>8. (a \o b)[Len(a) + 1] = Head(b)
    BY ONLY <1>1, <1>2, <1>6
  <1>9. ASSUME NEW i \in 1..Len(a) + Len(b) PROVE (a \o c)[i] = R[i]
    <2>1. CASE i <= Len(a)
      BY <1>1, <1>4, <1>6, <1>7, <2>1
    <2>2. CASE i > Len(a) /\ i < Len(a) + Len(b)
      <3>1. i - Len(a) \in 1..Len(b) - 1 /\ i + 1 \in 1..Len(a) + Len(b)
        BY ONLY <1>1, <2>2
      <3>2. (a \o c)[i] = c[i - Len(a)]
        BY ONLY <1>1, <1>4, <1>7, <2>2, <1>9
      <3>3. (a \o b)[i + 1] = b[i + 1 - Len(a)]
        BY ONLY <1>1, <1>6, <2>2, <3>1
      <3>4. c[i - Len(a)] = b[(i - Len(a)) + 1] /\ (i - Len(a)) + 1 = i + 1 - Len(a)
        BY ONLY <1>1, <1>5, <3>1, <2>2
      <3>5. R[i] = (a \o b)[i + 1]
        BY <1>1, <1>6, <2>2
      <3> QED BY ONLY <3>2, <3>3, <3>4, <3>5
    <2>3. CASE i = Len(a) + Len(b)
      <3>1. (a \o c)[i] = c[Len(b)]
        BY ONLY <1>1, <1>4, <1>7, <2>3
      <3>2. R[i] = x
        BY <1>1, <1>6, <2>3
      <3> QED BY ONLY <1>4, <3>1, <3>2
    <2>4. i <= Len(a) \/ (i > Len(a) /\ i < Len(a) + Len(b)) \/ i = Len(a) + Len(b)
      BY ONLY <1>1, <1>9
    <2> HIDE DEF R
    <2> QED BY ONLY <2>1, <2>2, <2>3, <2>4
  <1>10. a \o c = [i \in 1..Len(a) + Len(b) |-> (a \o c)[i]]
    <2>1. a \o c \in [1..Len(a \o c) -> S]
      BY ONLY <1>7, LenProperties
    <2> QED BY ONLY <1>4, <1>7, <2>1
  <1>11. R = [i \in 1..Len(a) + Len(b) |-> R[i]]
    BY <1>6
  <1>12. a \o c = R
    <2> HIDE DEF R
    <2> QED BY <1>9, <1>10, <1>11
  <1> QED BY <1>1, <1>6, <1>8, <1>12 DEF c

-----------------------------------------------------------------------------
(* A step of the server is a step of the channel or none. *)
LEMMA ChannelStep == IInv /\ [Next]_vars => [Channel!Next]_(Channel!channelVars)
  <1> SUFFICES ASSUME TypeOK, BatchInv, [Next]_vars
               PROVE  [Channel!Next]_(Channel!channelVars)
    BY DEF IInv
  <1> DEFINE Goal == [Channel!Next]_(Channel!channelVars)
  <1>t. /\ count \in Nat /\ queue \in Seq(Message) /\ batch \in Seq(Message)
        /\ Len(queue) \in Nat /\ Len(batch) \in Nat /\ MaxQueue \in Nat \ {0}
        /\ Len(queue) <= MaxQueue /\ Len(batch) <= MaxQueue
        /\ sent \in Seq(Message)
    BY LenProperties, QueueAssumption DEF TypeOK
  <1>s. UNCHANGED <<count, batch, queue, sent, dropped>> => Goal
    BY DEF Channel!channelVars
  <1>1. ASSUME NEW p \in Producers, NEW t \in Topics, FindChannel(p, t) PROVE Goal
    BY <1>1, <1>s DEF FindChannel, queueVars
  <1>2. ASSUME NEW p \in Producers, Enqueue(p) PROVE Goal
    <2> DEFINE t == producer[p].topic
               m == [id |-> count + 1, topic |-> t]
    <2>1. m \in Message /\ t \in Topics
      BY NewMessage DEF TypeOK
    <2>2. count' = count + 1 /\ batch' = batch /\ sent' = sent
      BY <1>2 DEF Enqueue
    <2>3. Channel!Numbered(t) = m
      BY DEF Channel!Numbered
    <2>4. CASE Len(queue) >= MaxQueue
      <3>1. queue' = Append(Tail(queue), m) /\ dropped' = dropped \cup {Head(queue).id}
        BY <1>2, <2>4 DEF Enqueue
      <3> HIDE DEF t, m
      <3>2. queue # <<>>
        BY <2>4, <1>t, EmptySeq
      <3> DEFINE k == Len(batch) + 1
      <3>3. /\ Len(batch \o queue) = Len(batch) + Len(queue)
            /\ (batch \o queue)[k] = Head(queue)
            /\ batch \o Append(Tail(queue), m) =
                 [i \in 1..Len(batch \o queue) |->
                    IF i < k THEN (batch \o queue)[i]
                    ELSE IF i < Len(batch \o queue) THEN (batch \o queue)[i + 1] ELSE m]
        BY <1>t, <2>1, <3>2, JoinShift
      <3>4. Len(batch \o queue) - k >= MaxQueue - 1 /\ k \in 1..Len(batch \o queue)
        BY ONLY <1>t, <2>4, <3>3
      <3>5. Channel!PutInPlaceOf(k, t)
        BY <2>2, <2>3, <3>1, <3>3, <3>4 DEF Channel!PutInPlaceOf
      <3> QED BY <2>1, <3>4, <3>5 DEF Channel!Next
    <2>5. CASE ~(Len(queue) >= MaxQueue)
      <3>1. queue' = Append(queue, m) /\ dropped' = dropped
        BY <1>2, <2>5 DEF Enqueue
      <3> HIDE DEF t, m
      <3>2. batch \o Append(queue, m) = Append(batch \o queue, m)
        BY <1>t, <2>1, JoinAppend
      <3>3. Len(batch \o queue) = Len(batch) + Len(queue)
        BY <1>t, ConcatProperties
      <3>4. Len(batch \o queue) < 2 * MaxQueue
        BY ONLY <1>t, <2>5, <3>3
      <3>5. Channel!Put(t)
        BY <2>2, <2>3, <3>1, <3>2, <3>4 DEF Channel!Put
      <3> QED BY <2>1, <3>5 DEF Channel!Next
    <2> QED BY <2>4, <2>5
  <1>3. ASSUME NEW p \in Producers, Notify(p) PROVE Goal
    BY <1>3, <1>s DEF Notify, queueVars
  <1>4. ASSUME SenderTakes PROVE Goal
    <2>1. UNCHANGED <<count, sent, dropped>>
      BY <1>4 DEF SenderTakes
    <2>2. \/ queue' = queue /\ batch' = batch
          \/ queue' = <<>> /\ batch' = queue /\ batch = <<>>
      BY <1>4 DEF SenderTakes, BatchInv
    <2>3. queue \o <<>> = queue /\ <<>> \o queue = queue
      BY <1>t, ConcatEmptySeq
    <2> QED BY <2>1, <2>2, <2>3 DEF Channel!channelVars
  <1>5. ASSUME SenderSends PROVE Goal
    <2>1. batch # <<>>
      BY <1>5 DEF SenderSends, BatchInv
    <2>2. /\ batch \o queue # <<>> /\ Head(batch \o queue) = Head(batch)
          /\ Tail(batch \o queue) = Tail(batch) \o queue
      BY <1>t, <2>1, JoinHead
    <2>3. /\ sent' = Append(sent, Head(batch)) /\ batch' = Tail(batch)
          /\ UNCHANGED <<count, queue, dropped>>
      BY <1>5 DEF SenderSends, queueVars
    <2>4. Channel!Deliver
      BY <2>2, <2>3 DEF Channel!Deliver
    <2> QED BY <2>4 DEF Channel!Next
  <1>6. ASSUME Stop PROVE Goal
    BY <1>6, <1>s DEF Stop, queueVars
  <1>7. ASSUME StopNotifies PROVE Goal
    BY <1>7, <1>s DEF StopNotifies, queueVars
  <1>8. ASSUME StopJoins PROVE Goal
    BY <1>8, <1>s DEF StopJoins, queueVars
  <1>9. ASSUME UNCHANGED vars PROVE Goal
    BY <1>9, <1>s DEF vars, queueVars
  <1> QED BY <1>1, <1>2, <1>3, <1>4, <1>5, <1>6, <1>7, <1>8, <1>9 DEF Next

(* The threaded, batching server implements the lossy channel: once, in    *)
(* order, bounded, and no loss but to make room.                           *)
THEOREM Refinement == Spec => ImplementsChannel
  <1>1. Init => Channel!Init
    <2>1. <<>> \o <<>> = <<>>
      BY ConcatEmptySeq, EmptySeq
    <2> QED BY <2>1 DEF Init, Channel!Init
  <1>2. IInv /\ [Next]_vars => [Channel!Next]_(Channel!channelVars)
    BY ChannelStep
  <1> QED BY <1>1, <1>2, IInvAlways, PTL DEF Spec, ImplementsChannel, Channel!Spec

-----------------------------------------------------------------------------
(* Every message is sent, on its way, or was dropped. *)
Accounting == \A i \in 1..count : i \in Ids(sent) \cup Ids(batch) \cup Ids(queue) \cup dropped

(* Where the destructor is, the flag, the thread: it leaves only after the *)
(* flag is cleared, and what is queued behind it is newer than the         *)
(* destructor's call.                                                      *)
ShutdownInv ==
  /\ atStop <= count
  /\ running <=> dtor = "not called"
  /\ sender = "done" => ~running
  /\ dtor = "stopped" => sender = "done"
  /\ sender = "done" => \A x \in Ids(queue) : x > atStop

(* What the elements of an extended, and of a shortened sequence are. *)
LEMMA IdsAppend ==
  ASSUME NEW q \in Seq(Message), NEW m \in Message
  PROVE  Ids(Append(q, m)) = Ids(q) \cup {m.id}
  <1>1. /\ Len(Append(q, m)) = Len(q) + 1 /\ Len(q) \in Nat
        /\ Append(q, m)[Len(q) + 1] = m
        /\ \A i \in 1..Len(q) : Append(q, m)[i] = q[i]
    BY AppendProperties, LenProperties
  <1>2. 1..Len(Append(q, m)) = 1..Len(q) \cup {Len(q) + 1}
    BY ONLY <1>1
  <1>3. \A i \in 1..Len(q) : Append(q, m)[i].id = q[i].id
    BY <1>1
  <1> QED BY <1>1, <1>2, <1>3 DEF Ids

LEMMA IdsHead ==
  ASSUME NEW q \in Seq(Message), q # <<>>
  PROVE  /\ Ids(q) = {Head(q).id} \cup Ids(Tail(q))
         /\ Head(q) \in Message /\ Tail(q) \in Seq(Message)
  <1>1. /\ Len(q) \in Nat \ {0} /\ Head(q) = q[1]
        /\ Head(q) \in Message /\ Tail(q) \in Seq(Message) /\ Len(Tail(q)) = Len(q) - 1
        /\ \A i \in 1..Len(Tail(q)) : Tail(q)[i] = q[i + 1]
    BY HeadTailProperties, LenProperties, EmptySeq
  <1>2. ASSUME NEW i \in 1..Len(q) PROVE q[i].id \in {Head(q).id} \cup Ids(Tail(q))
    <2>1. CASE i = 1
      BY <1>1, <2>1
    <2>2. CASE i # 1
      <3>1. i - 1 \in 1..Len(Tail(q)) /\ (i - 1) + 1 = i
        BY ONLY <1>1, <1>2, <2>2
      <3>2. Tail(q)[i - 1] = q[i]
        BY ONLY <1>1, <3>1
      <3> QED BY <3>1, <3>2 DEF Ids
    <2> QED BY <2>1, <2>2
  <1>3. ASSUME NEW i \in 1..Len(Tail(q)) PROVE Tail(q)[i].id \in Ids(q)
    <2>1. i + 1 \in 1..Len(q)
      BY ONLY <1>1, <1>3
    <2> QED BY <1>1, <2>1 DEF Ids
  <1>4. Head(q).id \in Ids(q)
    <2>1. 1 \in 1..Len(q)
      BY ONLY <1>1
    <2> QED BY <1>1, <2>1 DEF Ids
  <1>5. Ids(q) \subseteq {Head(q).id} \cup Ids(Tail(q))
    BY <1>2 DEF Ids
  <1>6. Ids(Tail(q)) \subseteq Ids(q)
    BY <1>3 DEF Ids
  <1> QED BY <1>1, <1>4, <1>5, <1>6

LEMMA AccountingStep == IInv /\ Accounting /\ [Next]_vars => Accounting'
  <1> SUFFICES ASSUME TypeOK, BatchInv, Accounting, [Next]_vars PROVE Accounting'
    BY DEF IInv
  <1>t. /\ count \in Nat /\ queue \in Seq(Message) /\ batch \in Seq(Message)
        /\ sent \in Seq(Message) /\ Len(queue) \in Nat /\ MaxQueue \in Nat \ {0}
    BY LenProperties, QueueAssumption DEF TypeOK
  <1>s. UNCHANGED <<count, batch, queue, sent, dropped>> => Accounting'
    BY DEF Accounting, Ids
  <1>1. ASSUME NEW p \in Producers, NEW t \in Topics, FindChannel(p, t) PROVE Accounting'
    BY <1>1, <1>s DEF FindChannel, queueVars
  <1>2. ASSUME NEW p \in Producers, Enqueue(p) PROVE Accounting'
    <2> DEFINE m == [id |-> count + 1, topic |-> producer[p].topic]
    <2>1. m \in Message /\ m.id = count + 1
      BY NewMessage
    <2>2. count' = count + 1 /\ batch' = batch /\ sent' = sent
      BY <1>2 DEF Enqueue
    <2>3. /\ Len(queue) >= MaxQueue =>
               queue' = Append(Tail(queue), m) /\ dropped' = dropped \cup {Head(queue).id}
          /\ ~(Len(queue) >= MaxQueue) => queue' = Append(queue, m) /\ dropped' = dropped
      BY <1>2 DEF Enqueue
    <2> HIDE DEF m
    <2>4. Ids(queue') \cup dropped' = Ids(queue) \cup {count + 1} \cup dropped
      <3>1. CASE Len(queue) >= MaxQueue
        <4>1. queue # <<>>
          BY <3>1, <1>t, EmptySeq
        <4>2. Ids(queue) = {Head(queue).id} \cup Ids(Tail(queue)) /\ Tail(queue) \in Seq(Message)
          BY <1>t, <4>1, IdsHead
        <4>3. Ids(Append(Tail(queue), m)) = Ids(Tail(queue)) \cup {m.id}
          BY <2>1, <4>2, IdsAppend
        <4> QED BY <2>1, <2>3, <3>1, <4>2, <4>3
      <3>2. CASE ~(Len(queue) >= MaxQueue)
        <4>1. Ids(Append(queue, m)) = Ids(queue) \cup {m.id}
          BY <1>t, <2>1, IdsAppend
        <4> QED BY <2>1, <2>3, <3>2, <4>1
      <3> QED BY <3>1, <3>2
    <2>5. 1..count' = 1..count \cup {count + 1}
      BY ONLY <1>t, <2>2
    <2>6. Ids(sent') = Ids(sent) /\ Ids(batch') = Ids(batch)
      BY <2>2 DEF Ids
    <2> QED BY ONLY Accounting, <2>4, <2>5, <2>6 DEF Accounting
  <1>3. ASSUME NEW p \in Producers, Notify(p) PROVE Accounting'
    BY <1>3, <1>s DEF Notify, queueVars
  <1>4. ASSUME SenderTakes PROVE Accounting'
    <2>1. UNCHANGED <<count, sent, dropped>>
      BY <1>4 DEF SenderTakes
    <2>2. \/ queue' = queue /\ batch' = batch
          \/ queue' = <<>> /\ batch' = queue /\ batch = <<>>
      BY <1>4 DEF SenderTakes, BatchInv
    <2>3. Ids(<<>>) = {}
      BY EmptySeq DEF Ids
    <2>4. Ids(batch') \cup Ids(queue') = Ids(batch) \cup Ids(queue)
      BY <2>2, <2>3 DEF Ids
    <2>5. Ids(sent') = Ids(sent)
      BY <2>1 DEF Ids
    <2> QED BY ONLY Accounting, <2>1, <2>4, <2>5 DEF Accounting
  <1>5. ASSUME SenderSends PROVE Accounting'
    <2>1. batch # <<>>
      BY <1>5 DEF SenderSends, BatchInv
    <2>2. Ids(batch) = {Head(batch).id} \cup Ids(Tail(batch)) /\ Head(batch) \in Message
      BY <1>t, <2>1, IdsHead
    <2>3. Ids(Append(sent, Head(batch))) = Ids(sent) \cup {Head(batch).id}
      BY <1>t, <2>2, IdsAppend
    <2>4. /\ sent' = Append(sent, Head(batch)) /\ batch' = Tail(batch)
          /\ UNCHANGED <<count, queue, dropped>>
      BY <1>5 DEF SenderSends, queueVars
    <2>5. Ids(sent') \cup Ids(batch') = Ids(sent) \cup Ids(batch)
      BY <2>2, <2>3, <2>4
    <2>6. Ids(queue') = Ids(queue)
      BY <2>4
    <2> QED BY ONLY Accounting, <2>4, <2>5, <2>6 DEF Accounting
  <1>6. ASSUME Stop PROVE Accounting'
    BY <1>6, <1>s DEF Stop, queueVars
  <1>7. ASSUME StopNotifies PROVE Accounting'
    BY <1>7, <1>s DEF StopNotifies, queueVars
  <1>8. ASSUME StopJoins PROVE Accounting'
    BY <1>8, <1>s DEF StopJoins, queueVars
  <1>9. ASSUME UNCHANGED vars PROVE Accounting'
    BY <1>9, <1>s DEF vars, queueVars
  <1> QED BY <1>1, <1>2, <1>3, <1>4, <1>5, <1>6, <1>7, <1>8, <1>9 DEF Next

LEMMA ShutdownStep == IInv /\ ShutdownInv /\ [Next]_vars => ShutdownInv'
  <1> SUFFICES ASSUME TypeOK, ShutdownInv, [Next]_vars PROVE ShutdownInv'
    BY DEF IInv
  <1>t. /\ count \in Nat /\ atStop \in Nat /\ queue \in Seq(Message)
        /\ Len(queue) \in Nat /\ MaxQueue \in Nat \ {0} /\ running \in BOOLEAN
    BY LenProperties, QueueAssumption DEF TypeOK
  <1>1. ASSUME NEW p \in Producers, NEW t \in Topics, FindChannel(p, t) PROVE ShutdownInv'
    BY <1>1 DEF FindChannel, queueVars, ShutdownInv
  <1>2. ASSUME NEW p \in Producers, Enqueue(p) PROVE ShutdownInv'
    <2> DEFINE m == [id |-> count + 1, topic |-> producer[p].topic]
    <2>1. m \in Message /\ m.id = count + 1
      BY NewMessage
    <2>2. count' = count + 1 /\ UNCHANGED <<sender, running, dtor, atStop>>
      BY <1>2 DEF Enqueue
    <2>3. /\ Len(queue) >= MaxQueue => queue' = Append(Tail(queue), m)
          /\ ~(Len(queue) >= MaxQueue) => queue' = Append(queue, m)
      BY <1>2 DEF Enqueue
    <2> HIDE DEF m
    <2>4. Ids(queue') \subseteq Ids(queue) \cup {count + 1}
      <3>1. CASE Len(queue) >= MaxQueue
        <4>1. queue # <<>>
          BY <3>1, <1>t, EmptySeq
        <4>2. Ids(queue) = {Head(queue).id} \cup Ids(Tail(queue)) /\ Tail(queue) \in Seq(Message)
          BY <1>t, <4>1, IdsHead
        <4>3. Ids(Append(Tail(queue), m)) = Ids(Tail(queue)) \cup {m.id}
          BY <2>1, <4>2, IdsAppend
        <4> QED BY <2>1, <2>3, <3>1, <4>2, <4>3
      <3>2. CASE ~(Len(queue) >= MaxQueue)
        <4>1. Ids(Append(queue, m)) = Ids(queue) \cup {m.id}
          BY <1>t, <2>1, IdsAppend
        <4> QED BY <2>1, <2>3, <3>2, <4>1
      <3> QED BY <3>1, <3>2
    <2>a. atStop <= count /\ atStop' = atStop
      BY <2>2 DEF ShutdownInv
    <2>5. atStop' <= count' /\ count + 1 > atStop'
      BY ONLY <1>t, <2>2, <2>a
    <2>6. sender' = "done" => \A x \in Ids(queue') : x > atStop'
      BY <2>2, <2>4, <2>5 DEF ShutdownInv
    <2> QED BY <2>2, <2>5, <2>6 DEF ShutdownInv
  <1>3. ASSUME NEW p \in Producers, Notify(p) PROVE ShutdownInv'
    BY <1>3 DEF Notify, Woken, queueVars, ShutdownInv
  <1>4. ASSUME SenderTakes PROVE ShutdownInv'
    <2>1. UNCHANGED <<count, running, dtor, atStop>> /\ sender = "awake"
      BY <1>4 DEF SenderTakes
    <2>2. sender' = "done" => ~running /\ queue' = <<>>
      BY <1>4 DEF SenderTakes
    <2>3. Ids(<<>>) = {}
      BY EmptySeq DEF Ids
    <2>4. dtor # "stopped"
      BY <2>1 DEF ShutdownInv
    <2> QED BY <2>1, <2>2, <2>3, <2>4 DEF ShutdownInv
  <1>5. ASSUME SenderSends PROVE ShutdownInv'
    <2>1. sender = "sending" /\ sender' # "done" /\ UNCHANGED <<count, running, dtor, atStop>>
      BY <1>5 DEF SenderSends, queueVars
    <2> QED BY <2>1 DEF ShutdownInv
  <1>6. ASSUME Stop PROVE ShutdownInv'
    <2>1. /\ dtor = "not called" /\ dtor' = "notifying" /\ running' = FALSE /\ atStop' = count
          /\ UNCHANGED <<count, queue, sender>>
      BY <1>6 DEF Stop, queueVars
    <2>2. sender # "done"
      BY <2>1 DEF ShutdownInv
    <2>a. atStop' = count /\ count' = count
      BY <2>1
    <2>3. atStop' <= count'
      BY ONLY <1>t, <2>a
    <2> QED BY <2>1, <2>2, <2>3 DEF ShutdownInv
  <1>7. ASSUME StopNotifies PROVE ShutdownInv'
    BY <1>7 DEF StopNotifies, Woken, queueVars, ShutdownInv
  <1>8. ASSUME StopJoins PROVE ShutdownInv'
    BY <1>8 DEF StopJoins, queueVars, ShutdownInv
  <1>9. ASSUME UNCHANGED vars PROVE ShutdownInv'
    BY <1>9 DEF vars, queueVars, ShutdownInv
  <1> QED BY <1>1, <1>2, <1>3, <1>4, <1>5, <1>6, <1>7, <1>8, <1>9 DEF Next

(* What had been queued when the destructor was called has been broadcast  *)
(* or dropped when it has joined the broadcast thread.                     *)
THEOREM DestructorDrains == Spec => []StopDrains
  <1>1. Init => Accounting /\ ShutdownInv
    <2>1. Ids(<<>>) = {}
      BY EmptySeq DEF Ids
    <2>2. 1..0 = {} /\ 0 <= 0
      OBVIOUS
    <2>3. Init => /\ count = 0 /\ atStop = 0 /\ queue = <<>> /\ running /\ dtor = "not called"
                  /\ sender = "awake"
      BY DEF Init
    <2> QED BY <2>1, <2>2, <2>3 DEF Accounting, ShutdownInv
  <1>2. IInv /\ Accounting /\ ShutdownInv /\ [Next]_vars => Accounting' /\ ShutdownInv'
    BY AccountingStep, ShutdownStep
  <1>3. IInv /\ Accounting /\ ShutdownInv => StopDrains
    <2> SUFFICES ASSUME IInv, Accounting, ShutdownInv, dtor = "stopped", NEW x \in 1..atStop
                 PROVE  x \in Ids(sent) \cup dropped
      BY DEF StopDrains
    <2>1. atStop \in Nat /\ count \in Nat /\ atStop <= count
      BY DEF IInv, TypeOK, ShutdownInv
    <2>2. x \in 1..count /\ ~(x > atStop)
      BY ONLY <2>1, x \in 1..atStop
    <2>3. batch = <<>> /\ \A y \in Ids(queue) : y > atStop
      BY DEF IInv, BatchInv, ShutdownInv
    <2>4. Ids(<<>>) = {}
      BY EmptySeq DEF Ids
    <2> QED BY <2>2, <2>3, <2>4 DEF Accounting
  <1> QED BY <1>1, <1>2, <1>3, IInvAlways, PTL DEF Spec

-----------------------------------------------------------------------------
(* The broadcast thread never waits while there is something for it to do  *)
(* (a message in the queue, or the flag cleared) unless someone is about   *)
(* to notify it.  Both notify outside the mutex, so the thread may fall    *)
(* asleep, or be woken by another, in between.  This is the safety half of *)
(* QueuedIsSent, and of the destructor's join.                             *)
SleepsOnlyIfIdle ==
  sender = "asleep" =>
    /\ queue # <<>> => \E p \in Producers : producer[p].at = "notifying"
    /\ ~running => dtor = "notifying"

LEMMA SleepStep == TypeOK /\ ShutdownInv /\ SleepsOnlyIfIdle /\ [Next]_vars => SleepsOnlyIfIdle'
  <1> SUFFICES ASSUME TypeOK, ShutdownInv, SleepsOnlyIfIdle, [Next]_vars PROVE SleepsOnlyIfIdle'
    OBVIOUS
  <1> USE DEF SleepsOnlyIfIdle
  <1>a. \A p \in Producers : producer[p].at \in {"idle", "queueing", "notifying"}
    BY DEF TypeOK
  <1>b. producer \in [Producers -> [at : {"idle", "queueing", "notifying"}, topic : Topics]]
    BY DEF TypeOK
  <1>1. ASSUME NEW p \in Producers, NEW t \in Topics, FindChannel(p, t) PROVE SleepsOnlyIfIdle'
    <2>1. /\ producer[p].at = "idle"
          /\ producer' = [producer EXCEPT ![p] = [at |-> "queueing", topic |-> t]]
          /\ UNCHANGED <<queue, sender, running, dtor>>
      BY <1>1 DEF FindChannel, queueVars
    <2>2. \A q \in Producers : producer[q].at = "notifying" => producer'[q].at = "notifying"
      BY <2>1, <1>b
    <2> QED BY <2>1, <2>2
  <1>2. ASSUME NEW p \in Producers, Enqueue(p) PROVE SleepsOnlyIfIdle'
    <2>1. /\ producer' = [producer EXCEPT ![p].at = "notifying"]
          /\ UNCHANGED <<sender, running, dtor>>
      BY <1>2 DEF Enqueue
    <2>2. producer'[p].at = "notifying"
      BY <2>1, <1>b
    <2> QED BY <2>1, <2>2
  <1>3. ASSUME NEW p \in Producers, Notify(p) PROVE SleepsOnlyIfIdle'
    BY <1>3 DEF Notify, Woken
  <1>4. ASSUME SenderTakes PROVE SleepsOnlyIfIdle'
    BY <1>4 DEF SenderTakes
  <1>5. ASSUME SenderSends PROVE SleepsOnlyIfIdle'
    BY <1>5 DEF SenderSends
  <1>6. ASSUME Stop PROVE SleepsOnlyIfIdle'
    BY <1>6 DEF Stop, queueVars
  <1>7. ASSUME StopNotifies PROVE SleepsOnlyIfIdle'
    BY <1>7 DEF StopNotifies, Woken
  <1>8. ASSUME StopJoins PROVE SleepsOnlyIfIdle'
    BY <1>8 DEF StopJoins, queueVars
  <1>9. ASSUME UNCHANGED vars PROVE SleepsOnlyIfIdle'
    BY <1>9 DEF vars, queueVars
  <1> QED BY <1>1, <1>2, <1>3, <1>4, <1>5, <1>6, <1>7, <1>8, <1>9 DEF Next

(* No wake-up of the broadcast thread is lost: whenever it waits with      *)
(* something to do, the call that will wake it has not returned yet.       *)
THEOREM BroadcastIsWoken == Spec => []SleepsOnlyIfIdle
  <1>1. Init => ShutdownInv /\ SleepsOnlyIfIdle
    <2>1. Ids(<<>>) = {}
      BY EmptySeq DEF Ids
    <2>2. Init => /\ count = 0 /\ atStop = 0 /\ queue = <<>> /\ running /\ dtor = "not called"
                  /\ sender = "awake"
      BY DEF Init
    <2>3. 0 <= 0
      OBVIOUS
    <2> QED BY <2>1, <2>2, <2>3 DEF ShutdownInv, SleepsOnlyIfIdle
  <1>2. IInv /\ ShutdownInv /\ SleepsOnlyIfIdle /\ [Next]_vars => ShutdownInv' /\ SleepsOnlyIfIdle'
    BY ShutdownStep, SleepStep DEF IInv
  <1> QED BY <1>1, <1>2, IInvAlways, PTL DEF Spec
=============================================================================
