-------------------------- MODULE MCAPLoggerProofs --------------------------
(***************************************************************************)
(* Proofs about MCAPLogger for any messages, any number of restarts and    *)
(* whether or not the file can be opened: the logger implements the        *)
(* abstract log of module MessageLog, and drains before it stops.          *)
(***************************************************************************)
EXTENDS MCAPLogger, SequenceTheorems, TLAPS

(* The writer holds messages exactly while it is writing them. *)
BatchInv == writer = "writing" <=> batch # <<>>

(* The phases of the owner: when logging is on, and when a writer exists.  *)
PhaseInv ==
  /\ logging <=> owner \in {"spawning", "logging"}
  /\ owner \in {"created", "opened", "spawning", "stopped", "destroyed"}
       => writer \in {"none", "done"}
  /\ owner = "logging" => writer \notin {"none", "done"}

(* Without a writer, and with logging off, the buffer only grows by        *)
(* log_params: what is left in it was never accepted by log_msg.           *)
LeftoverInv ==
  writer \in {"none", "done"} /\ ~logging
    => \A i \in 1..Len(buffer) : buffer[i] \in Params

(* The inductive invariants: of the control, and of the data.              *)
ControlInv == TypeOK /\ BatchInv /\ PhaseInv
IInv == ControlInv /\ NothingLost

-----------------------------------------------------------------------------
(* Regrouping the concatenation of four sequences. *)
LEMMA ConcatFour ==
  ASSUME NEW S, NEW a \in Seq(S), NEW b \in Seq(S), NEW c \in Seq(S), NEW d \in Seq(S)
  PROVE  (a \o b \o c) \o d = a \o b \o (c \o d)
  <1>1. a \o b \in Seq(S)
    BY ConcatProperties
  <1> QED BY <1>1, ConcatAssociative

(* Moving the head of the middle one to the end of the first changes       *)
(* nothing.                                                                *)
LEMMA MoveHead ==
  ASSUME NEW S, NEW a \in Seq(S), NEW b \in Seq(S), NEW c \in Seq(S), b # <<>>
  PROVE  /\ Append(a, Head(b)) \o Tail(b) \o c = a \o b \o c
         /\ Head(b) \in S /\ Tail(b) \in Seq(S)
         /\ Len(a) < Len(a \o b \o c)
         /\ (a \o b \o c)[Len(a) + 1] = Head(b)
  <1>1. Head(b) \in S /\ Tail(b) \in Seq(S) /\ b = <<Head(b)>> \o Tail(b)
    BY HeadTailProperties, ConcatProperties, SeqEqual
  <1>2. Append(a, Head(b)) \o Tail(b) = a \o b
    <2>1. Append(a, Head(b)) = a \o <<Head(b)>>
      BY <1>1, AppendIsConcat
    <2>2. <<Head(b)>> \in Seq(S)
      BY <1>1
    <2>3. (a \o <<Head(b)>>) \o Tail(b) = a \o (<<Head(b)>> \o Tail(b))
      BY <1>1, <2>2, ConcatAssociative
    <2> QED BY <1>1, <2>1, <2>3
  <1>3. /\ Len(a) \in Nat /\ Len(b) \in Nat \ {0} /\ Len(c) \in Nat
        /\ a \o b \in Seq(S) /\ Len(a \o b) = Len(a) + Len(b)
        /\ Len(a \o b \o c) = Len(a) + Len(b) + Len(c)
    BY ConcatProperties, LenProperties, EmptySeq
  <1>4. (a \o b \o c)[Len(a) + 1] = b[1]
    BY <1>3, ConcatProperties
  <1>5. b[1] = Head(b)
    BY HeadTailProperties
  <1> QED BY <1>1, <1>2, <1>3, <1>4, <1>5

-----------------------------------------------------------------------------
(* Every step keeps every variable in its type. *)
LEMMA TypeStep == TypeOK /\ BatchInv /\ [Next]_vars => TypeOK'
  <1> SUFFICES ASSUME TypeOK, BatchInv, [Next]_vars PROVE TypeOK'
    OBVIOUS
  <1> USE DEF TypeOK, Messages, ownerVars
  <1>1. ASSUME NEW m \in Msgs, log_msg(m) PROVE TypeOK'
    <2>1. Append(buffer, m) \in Seq(Messages) /\ Append(accepted, m) \in Seq(Messages)
      BY AppendProperties
    <2> QED BY <1>1, <2>1 DEF log_msg, Notified
  <1>2. ASSUME NEW m \in Params, log_params(m) PROVE TypeOK'
    BY <1>2 DEF log_params, Notified
  <1>3. ASSUME NEW ok \in OpenResults, open_new_mcap(ok) PROVE TypeOK'
    <2>1. ok \in BOOLEAN BY OpenAssumption
    <2>2. <<InitialParams, GitMetadata>> \in Seq(Messages)
      BY MessagesAssumption
    <2>3. /\ buffer \o <<InitialParams, GitMetadata>> \in Seq(Messages)
          /\ accepted \o <<InitialParams, GitMetadata>> \in Seq(Messages)
      BY <2>2, ConcatProperties
    <2> QED BY <1>3, <2>1, <2>3, MessagesAssumption DEF open_new_mcap
  <1>4. CASE init_logging
    BY <1>4 DEF init_logging
  <1>5. CASE SpawnWriter
    BY <1>5 DEF SpawnWriter
  <1>6. CASE stop_logging
    BY <1>6 DEF stop_logging
  <1>7. CASE NotifyStop
    BY <1>7 DEF NotifyStop, Notified
  <1>8. CASE JoinWriter
    BY <1>8 DEF JoinWriter
  <1>9. CASE WriterTakes
    <2>1. buffer' \in Seq(Messages) /\ batch' \in Seq(Messages)
      BY <1>9, EmptySeq DEF WriterTakes
    <2>2. writer' \in {"asleep", "done", "writing"}
      BY <1>9 DEF WriterTakes
    <2> QED BY <1>9, <2>1, <2>2 DEF WriterTakes
  <1>10. CASE WriterWrites
    <2>1. Head(batch) \in Messages /\ Tail(batch) \in Seq(Messages)
      BY <1>10, HeadTailProperties DEF WriterWrites, BatchInv
    <2>2. Append(written, Head(batch)) \in Seq(Messages)
      BY <2>1, AppendProperties
    <2> QED BY <1>10, <2>1, <2>2 DEF WriterWrites
  <1>11. CASE UNCHANGED vars
    BY <1>11 DEF vars
  <1> QED BY <1>1, <1>2, <1>3, <1>4, <1>5, <1>6, <1>7, <1>8, <1>9, <1>10, <1>11 DEF Next

(* Every step keeps the control invariant. *)
LEMMA ControlStep == ControlInv /\ [Next]_vars => ControlInv'
  <1> SUFFICES ASSUME ControlInv, [Next]_vars PROVE ControlInv'
    OBVIOUS
  <1>0. TypeOK' /\ TypeOK
    BY TypeStep DEF ControlInv
  <1> SUFFICES BatchInv' /\ PhaseInv'
    BY <1>0 DEF ControlInv
  <1> USE <1>0 DEF ControlInv, BatchInv, PhaseInv, ownerVars
  <1>1. ASSUME NEW m \in Msgs, log_msg(m) PROVE BatchInv' /\ PhaseInv'
    BY <1>1 DEF log_msg, Notified
  <1>2. ASSUME NEW m \in Params, log_params(m) PROVE BatchInv' /\ PhaseInv'
    BY <1>2 DEF log_params, Notified
  <1>3. ASSUME NEW ok \in OpenResults, open_new_mcap(ok) PROVE BatchInv' /\ PhaseInv'
    BY <1>3 DEF open_new_mcap
  <1>4. CASE init_logging
    BY <1>4 DEF init_logging
  <1>5. CASE SpawnWriter
    BY <1>5 DEF SpawnWriter
  <1>6. CASE stop_logging
    BY <1>6 DEF stop_logging
  <1>7. CASE NotifyStop
    BY <1>7 DEF NotifyStop, Notified
  <1>8. CASE JoinWriter
    BY <1>8 DEF JoinWriter
  <1>9. CASE WriterTakes
    BY <1>9 DEF WriterTakes
  <1>10. CASE WriterWrites
    <2>1. batch \in Seq(Messages) /\ batch # <<>>
      BY <1>10 DEF WriterWrites, TypeOK
    <2>2. Len(batch) = 1 <=> Tail(batch) = <<>>
      <3>1. Tail(batch) \in Seq(Messages) /\ Len(Tail(batch)) = Len(batch) - 1
        BY <2>1, HeadTailProperties
      <3>2. Len(batch) \in Nat /\ (Tail(batch) = <<>> <=> Len(Tail(batch)) = 0)
        BY <2>1, <3>1, EmptySeq, LenProperties
      <3> QED BY <3>1, <3>2
    <2> QED BY <1>10, <2>2 DEF WriterWrites
  <1>11. CASE UNCHANGED vars
    BY <1>11 DEF vars
  <1> QED BY <1>1, <1>2, <1>3, <1>4, <1>5, <1>6, <1>7, <1>8, <1>9, <1>10, <1>11 DEF Next

(* What each step does to the accepted and the written messages: nothing,  *)
(* one step of the abstract log, or the same; and NothingLost is kept.     *)
LEMMA DataStep == IInv /\ [Next]_vars => NothingLost' /\ [Log!Next]_<<accepted, written>>
  <1> SUFFICES ASSUME IInv, [Next]_vars
               PROVE  NothingLost' /\ [Log!Next]_<<accepted, written>>
    OBVIOUS
  <1> DEFINE Goal == NothingLost' /\ [Log!Next]_<<accepted, written>>
  <1>0. TypeOK /\ BatchInv /\ NothingLost
    BY DEF IInv, ControlInv
  <1>t. /\ accepted \in Seq(Messages) /\ written \in Seq(Messages)
        /\ batch \in Seq(Messages) /\ buffer \in Seq(Messages)
        /\ Msgs \subseteq Messages /\ Params \subseteq Messages
    BY <1>0 DEF TypeOK, Messages
  <1>1. ASSUME UNCHANGED <<accepted, written, batch, buffer>> PROVE Goal
    BY <1>0, <1>1 DEF NothingLost
  <1>2. ASSUME NEW ms \in Seq(Messages), Len(ms) > 0,
               buffer' = buffer \o ms, accepted' = accepted \o ms,
               UNCHANGED <<batch, written>>
        PROVE  Goal
    <2>2. (written \o batch \o buffer) \o ms = written \o batch \o (buffer \o ms)
      <3>1. /\ written \in Seq(Messages) /\ batch \in Seq(Messages)
            /\ buffer \in Seq(Messages) /\ ms \in Seq(Messages)
        BY <1>t
      <3>2. written \o batch \in Seq(Messages)
        BY <3>1, ConcatProperties
      <3> QED BY ONLY <3>1, <3>2, ConcatAssociative
    <2>3. NothingLost'
      BY <1>0, <1>2, <2>2 DEF NothingLost
    <2>4. Len(accepted') > Len(accepted)
      BY <1>t, <1>2, ConcatProperties, LenProperties
    <2>5. SubSeq(accepted', 1, Len(accepted)) = accepted
      <3>1. CASE accepted = <<>>
        BY <3>1, SubSeqEmpty
      <3>2. CASE accepted # <<>>
        <4>1. Len(accepted) \in Nat \ {0}
          BY <3>2, <1>t, EmptySeq, LenProperties
        <4>2. SubSeq(accepted \o ms, 1, Len(accepted)) = SubSeq(accepted, 1, Len(accepted))
          BY <4>1, <1>t, <1>2, SubSeqOfConcat1
        <4>3. SubSeq(accepted, 1, Len(accepted)) = accepted
          BY <1>t, SubSeqFull
        <4> QED BY <4>2, <4>3, <1>2
      <3> QED BY <3>1, <3>2
    <2>6. Log!Accept
      BY <1>2, <2>4, <2>5 DEF Log!Accept
    <2> QED BY <2>3, <2>6 DEF Log!Next
  <1>3. ASSUME NEW m \in Messages,
               buffer' = Append(buffer, m), accepted' = Append(accepted, m),
               UNCHANGED <<batch, written>>
        PROVE  Goal
    <2>1. <<m>> \in Seq(Messages) /\ Len(<<m>>) > 0
      OBVIOUS
    <2>2. buffer' = buffer \o <<m>> /\ accepted' = accepted \o <<m>>
      BY <1>t, <1>3, AppendIsConcat
    <2> HIDE DEF Goal
    <2> QED BY <1>2, <1>3, <2>1, <2>2
  <1>4. ASSUME NEW m \in Msgs, log_msg(m) PROVE Goal
    <2> HIDE DEF Goal
    <2> QED BY <1>1, <1>3, <1>4, <1>t DEF log_msg
  <1>5. ASSUME NEW m \in Params, log_params(m) PROVE Goal
    <2> HIDE DEF Goal
    <2> QED BY <1>3, <1>5, <1>t DEF log_params
  <1>6. ASSUME NEW ok \in OpenResults, open_new_mcap(ok) PROVE Goal
    <2> DEFINE two == <<InitialParams, GitMetadata>>
    <2>1. two \in Seq(Messages) /\ Len(two) > 0
      BY MessagesAssumption DEF Messages
    <2>2. \/ UNCHANGED <<accepted, written, batch, buffer>>
          \/ /\ buffer' = buffer \o two /\ accepted' = accepted \o two
             /\ UNCHANGED <<batch, written>>
      BY <1>6 DEF open_new_mcap
    <2> HIDE DEF Goal, two
    <2> QED BY <1>1, <1>2, <2>1, <2>2
  <1>7. ASSUME init_logging \/ SpawnWriter \/ stop_logging \/ NotifyStop \/ JoinWriter
        PROVE  Goal
    <2>1. UNCHANGED <<accepted, written, batch, buffer>>
      BY <1>7 DEF init_logging, SpawnWriter, stop_logging, NotifyStop, JoinWriter
    <2> QED BY <1>1, <2>1
  <1>8. ASSUME WriterTakes PROVE Goal
    <2>1. CASE buffer = <<>>
      BY <1>1, <1>8, <2>1 DEF WriterTakes
    <2>2. CASE buffer # <<>>
      <3>1. /\ batch = <<>> /\ batch' = buffer /\ buffer' = <<>>
            /\ UNCHANGED <<accepted, written>>
        BY <1>8, <2>2, <1>0 DEF WriterTakes, BatchInv
      <3>2. written \o <<>> \o buffer = written \o buffer \o <<>>
        BY <1>t, ConcatEmptySeq, ConcatProperties
      <3> QED BY <1>0, <3>1, <3>2 DEF NothingLost
    <2> QED BY <2>1, <2>2
  <1>9. ASSUME WriterWrites PROVE Goal
    <2>1. /\ batch # <<>> /\ written' = Append(written, Head(batch))
          /\ batch' = Tail(batch) /\ UNCHANGED <<accepted, buffer>>
      BY <1>9, <1>0 DEF WriterWrites, BatchInv
    <2>2. /\ Append(written, Head(batch)) \o Tail(batch) \o buffer = written \o batch \o buffer
          /\ Len(written) < Len(written \o batch \o buffer)
          /\ (written \o batch \o buffer)[Len(written) + 1] = Head(batch)
      <3>1. /\ written \in Seq(Messages) /\ batch \in Seq(Messages)
            /\ buffer \in Seq(Messages) /\ batch # <<>>
        BY <1>t, <2>1
      <3>2. Append(written, Head(batch)) \o Tail(batch) \o buffer = written \o batch \o buffer
        BY ONLY <3>1, MoveHead, SMTT(30)
      <3>3. Len(written) < Len(written \o batch \o buffer)
        BY ONLY <3>1, MoveHead, SMTT(30)
      <3>4. (written \o batch \o buffer)[Len(written) + 1] = Head(batch)
        BY ONLY <3>1, MoveHead, SMTT(30)
      <3> QED BY <3>2, <3>3, <3>4
    <2>3. Log!Write
      BY <1>0, <2>1, <2>2 DEF Log!Write, NothingLost
    <2> QED BY <1>0, <2>1, <2>2, <2>3 DEF NothingLost, Log!Next
  <1>10. ASSUME UNCHANGED vars PROVE Goal
    <2>1. UNCHANGED <<accepted, written, batch, buffer>>
      BY <1>10 DEF vars
    <2> HIDE DEF Goal
    <2> QED BY <1>1, <2>1
  <1> HIDE DEF Goal
  <1>11. Goal
    BY <1>4, <1>5, <1>6, <1>7, <1>8, <1>9, <1>10 DEF Next
  <1> QED BY <1>11 DEF Goal

(* The inductive invariant holds throughout. *)
LEMMA IInvAlways == Spec => []IInv
  <1>1. Init => IInv
    <2> SUFFICES ASSUME Init PROVE IInv
      OBVIOUS
    <2>1. BatchInv /\ PhaseInv
      BY DEF Init, BatchInv, PhaseInv
    <2>3. <<>> \in Seq(Messages)
      BY EmptySeq
    <2>4. TypeOK
      BY <2>3 DEF Init, TypeOK
    <2>2. NothingLost
      BY ConcatEmptySeq DEF Init, NothingLost
    <2> QED BY <2>1, <2>2, <2>4 DEF IInv, ControlInv
  <1>2. IInv /\ [Next]_vars => IInv'
    BY ControlStep, DataStep DEF IInv
  <1> QED BY <1>1, <1>2, PTL DEF Spec

(* Type correctness of the logger. *)
THEOREM TypeCorrect == Spec => []TypeOK
  <1>1. IInv => TypeOK
    BY DEF IInv, ControlInv
  <1> QED BY <1>1, IInvAlways, PTL

(* Nothing that was accepted is lost, repeated or reordered between the    *)
(* buffer, the writer's batch and the file.                                *)
THEOREM NothingIsLost == Spec => []NothingLost
  <1>1. IInv => NothingLost
    BY DEF IInv
  <1> QED BY <1>1, IInvAlways, PTL

(* The buffered, threaded logger implements the abstract log.              *)
THEOREM Refinement == Spec => ImplementsLog
  <1>1. Init => Log!Init
    BY DEF Init, Log!Init
  <1>2. IInv /\ [Next]_vars => [Log!Next]_<<accepted, written>>
    BY DataStep
  <1> QED BY <1>1, <1>2, IInvAlways, PTL DEF Spec, ImplementsLog, Log!Spec
-----------------------------------------------------------------------------
(* What the writer leaves in the buffer when it is gone was not accepted   *)
(* by log_msg, and a writer that sleeps has been or will be woken.         *)
DrainInv == LeftoverInv /\ NoLostWakeup

(* Every step keeps it. *)
LEMMA DrainStep == ControlInv /\ DrainInv /\ [Next]_vars => DrainInv'
  <1> SUFFICES ASSUME ControlInv, DrainInv, [Next]_vars PROVE DrainInv'
    OBVIOUS
  <1>0. buffer \in Seq(Messages) /\ logging \in BOOLEAN
    BY DEF ControlInv, TypeOK
  <1> USE <1>0 DEF DrainInv, LeftoverInv, NoLostWakeup, ControlInv, PhaseInv, ownerVars
  <1>1. ASSUME NEW m \in Params PROVE
          (\A i \in 1..Len(buffer) : buffer[i] \in Params)
            => \A i \in 1..Len(Append(buffer, m)) : Append(buffer, m)[i] \in Params
    BY AppendProperties
  <1>2. ASSUME NEW m \in Msgs, log_msg(m) PROVE DrainInv'
    BY <1>2 DEF log_msg, Notified
  <1>3. ASSUME NEW m \in Params, log_params(m) PROVE DrainInv'
    <2>1. LeftoverInv'
      BY <1>1, <1>3 DEF log_params, Notified
    <2>2. NoLostWakeup'
      BY <1>3 DEF log_params, Notified
    <2> QED BY <2>1, <2>2
  <1>4. ASSUME NEW ok \in OpenResults, open_new_mcap(ok) PROVE DrainInv'
    <2>1. writer \in {"none", "done"} /\ ~logging /\ writer' = writer
      BY <1>4 DEF open_new_mcap
    <2>2. \A i \in 1..Len(buffer') : buffer'[i] \in Params
      <3>1. CASE ok
        <4>1. buffer' = Append(Append(buffer, InitialParams), GitMetadata)
          BY <1>4, <3>1 DEF open_new_mcap
        <4>2. InitialParams \in Params /\ GitMetadata \in Params
          BY MessagesAssumption
        <4> QED BY <2>1, <4>1, <4>2
      <3>2. CASE ~ok
        BY <1>4, <2>1, <3>2 DEF open_new_mcap
      <3> QED BY <3>1, <3>2
    <2> QED BY <2>1, <2>2
  <1>5. CASE init_logging
    BY <1>5 DEF init_logging
  <1>6. CASE SpawnWriter
    BY <1>6 DEF SpawnWriter
  <1>7. CASE stop_logging
    BY <1>7 DEF stop_logging
  <1>8. CASE NotifyStop
    BY <1>8 DEF NotifyStop, Notified
  <1>9. CASE JoinWriter
    BY <1>9 DEF JoinWriter
  <1>10. CASE WriterTakes
    BY <1>10 DEF WriterTakes
  <1>11. CASE WriterWrites
    BY <1>11 DEF WriterWrites
  <1>12. CASE UNCHANGED vars
    BY <1>12 DEF vars
  <1> QED BY <1>2, <1>3, <1>4, <1>5, <1>6, <1>7, <1>8, <1>9, <1>10, <1>11, <1>12 DEF Next

(* It holds throughout. *)
LEMMA DrainInvAlways == Spec => []DrainInv
  <1>1. Init => DrainInv
    BY DEF Init, DrainInv, LeftoverInv, NoLostWakeup
  <1>2. IInv /\ DrainInv /\ [Next]_vars => DrainInv'
    BY DrainStep DEF IInv
  <1> QED BY <1>1, <1>2, IInvAlways, PTL DEF Spec

(* The writer never sleeps through a message or through the request to     *)
(* stop: every change it waits for is followed by a notification.          *)
THEOREM WakeupIsNotLost == Spec => []NoLostWakeup
  <1>1. DrainInv => NoLostWakeup
    BY DEF DrainInv
  <1> QED BY <1>1, DrainInvAlways, PTL

(* stop_logging and the destructor drain: every message log_msg accepted   *)
(* has been written when they have joined the writer.                      *)
THEOREM StopDrains == Spec => []StopDrainsMessages
  <1>1. IInv /\ DrainInv => StopDrainsMessages
    <2> SUFFICES ASSUME IInv, DrainInv, owner \in {"stopped", "destroyed"},
                        NEW m \in Msgs, InSeq(m, accepted)
                 PROVE  InSeq(m, written)
      BY DEF StopDrainsMessages
    <2>1. batch = <<>> /\ \A i \in 1..Len(buffer) : buffer[i] \in Params
      BY DEF IInv, ControlInv, BatchInv, PhaseInv, DrainInv, LeftoverInv
    <2>2. written \in Seq(Messages) /\ buffer \in Seq(Messages)
      BY DEF IInv, ControlInv, TypeOK
    <2>3. accepted = written \o buffer
      <3>1. written \o <<>> = written
        BY <2>2, ConcatEmptySeq
      <3> QED BY <2>1, <3>1 DEF IInv, NothingLost
    <2>4. PICK i \in 1..Len(accepted) : accepted[i] = m
      BY DEF InSeq
    <2>5. CASE i <= Len(written)
      BY <2>2, <2>3, <2>4, <2>5, ConcatProperties, LenProperties DEF InSeq
    <2>6. CASE i > Len(written)
      <3>1. i - Len(written) \in 1..Len(buffer) /\ buffer[i - Len(written)] = m
        BY <2>2, <2>3, <2>4, <2>6, ConcatProperties, LenProperties
      <3> QED BY <2>1, <3>1, MessagesAssumption
    <2> QED BY <2>2, <2>4, <2>5, <2>6, LenProperties
  <1> QED BY <1>1, IInvAlways, DrainInvAlways, PTL
=============================================================================
