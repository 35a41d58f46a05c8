----------------------------- MODULE MCAPLogger -----------------------------
(***************************************************************************)
(* The message logger (core/src/MCAPLogger.cpp): any thread appends to     *)
(* _input_buffer under a mutex; one writer thread takes the whole buffer,  *)
(* writes it outside the mutex and sleeps on a condition variable when     *)
(* there is nothing to do; its owner starts, stops and destroys it.        *)
(*                                                                         *)
(* A message is a model value that stands for one call of log_msg or       *)
(* log_params.  Serialization, schemas and channel ids are left out.       *)
(***************************************************************************)
EXTENDS Naturals, Sequences

CONSTANTS
  Msgs,           \* calls of log_msg
  Params,         \* calls of log_params and _log_git_metadata
  InitialParams,  \* the two that open_new_mcap makes itself
  GitMetadata,
  OpenResults,    \* whether _writer.open may succeed, fail, or both
  MaxRestarts     \* bound: how often logging is started again after a stop

ASSUME MessagesAssumption ==
  /\ Msgs \cap Params = {}
  /\ InitialParams \in Params /\ GitMetadata \in Params
ASSUME OpenAssumption == OpenResults \subseteq BOOLEAN /\ MaxRestarts \in Nat

VARIABLES
  owner,      \* what the thread that owns the logger is doing
  destroying, \* it is in the destructor, not in stop_logging
  restarts,   \* history: how often logging was started again
  fileOpen,   \* _writer.open succeeded
  logging,    \* _logging
  buffer,     \* _input_buffer
  batch,      \* write_buffer, the messages the writer thread has taken
  writer,     \* the writer thread
  accepted,   \* history: messages whose call returned 0, in that order
  written,    \* history: messages handed to _writer.write
  called      \* history: calls made, rejected ones included

ownerVars == <<owner, destroying, restarts>>
vars == <<ownerVars, fileOpen, logging, buffer, batch, writer, accepted, written, called>>

Init ==
  /\ owner = "created" /\ destroying = FALSE /\ restarts = 0
  /\ fileOpen = FALSE /\ logging = FALSE
  /\ buffer = <<>> /\ batch = <<>> /\ writer = "none"
  /\ accepted = <<>> /\ written = <<>> /\ called = {}

(* _input_buffer_cv.notify_one: only the writer thread waits on it. *)
Notified == IF writer = "asleep" THEN "awake" ELSE writer

-----------------------------------------------------------------------------
(* Mutated: the message is queued without a notification. *)
log_msg_Silent(m) ==
  /\ owner # "destroyed" /\ logging
  /\ m \notin called
  /\ called' = called \cup {m}
  /\ buffer' = Append(buffer, m)
  /\ accepted' = Append(accepted, m)
  /\ UNCHANGED <<ownerVars, fileOpen, logging, batch, writer, written>>

(* log_msg: refused while logging is off.  The message is built before the *)
(* mutex is taken; what follows is one critical section.                   *)
log_msg(m) ==
  /\ owner # "destroyed"
  /\ m \notin called
  /\ called' = called \cup {m}
  /\ \/ /\ ~logging
        /\ UNCHANGED <<buffer, accepted, writer>>
     \/ /\ logging
        /\ buffer' = Append(buffer, m)
        /\ accepted' = Append(accepted, m)
        /\ writer' = Notified
  /\ UNCHANGED <<ownerVars, fileOpen, logging, batch, written>>

(* log_params: accepts in every state of the logger. *)
log_params(m) ==
  /\ owner # "destroyed"
  /\ m \notin called
  /\ called' = called \cup {m}
  /\ buffer' = Append(buffer, m)
  /\ accepted' = Append(accepted, m)
  /\ writer' = Notified
  /\ UNCHANGED <<ownerVars, fileOpen, logging, batch, written>>

-----------------------------------------------------------------------------
(* open_new_mcap: on failure it returns before it logs the parameters and  *)
(* the build's git metadata; the app ignores the result.                   *)
open_new_mcap(ok) ==
  /\ owner = "created"
  /\ owner' = "opened"
  /\ fileOpen' = ok
  /\ \/ /\ ok
        /\ buffer' = buffer \o <<InitialParams, GitMetadata>>
        /\ accepted' = accepted \o <<InitialParams, GitMetadata>>
        /\ called' = called \cup {InitialParams, GitMetadata}
     \/ /\ ~ok
        /\ UNCHANGED <<buffer, accepted, called>>
  /\ UNCHANGED <<destroying, restarts, logging, batch, writer, written>>

(* init_logging sets the flag under the mutex and then spawns the writer.  *)
init_logging ==
  /\ \/ owner = "opened" /\ UNCHANGED restarts
     \/ owner = "stopped" /\ restarts < MaxRestarts /\ restarts' = restarts + 1
  /\ owner' = "spawning"
  /\ logging' = TRUE
  /\ UNCHANGED <<destroying, fileOpen, buffer, batch, writer, accepted, written, called>>

SpawnWriter ==
  /\ owner = "spawning"
  /\ owner' = "logging"
  /\ writer' = "awake"
  /\ UNCHANGED <<destroying, restarts, fileOpen, logging, buffer, batch, accepted,
                 written, called>>

(* stop_logging, and the destructor, first clear the flag under the mutex, *)
(* then notify without it, then join the writer if there is one.           *)
stop_logging ==
  /\ \/ owner = "logging" /\ destroying' \in BOOLEAN
     \/ owner \in {"created", "opened", "stopped"} /\ destroying' = TRUE
  /\ owner' = "stopping"
  /\ logging' = FALSE
  /\ UNCHANGED <<restarts, fileOpen, buffer, batch, writer, accepted, written, called>>

(* Mutated: the flag is cleared but nobody is told. *)
NotifyStop_Silent ==
  /\ owner = "stopping"
  /\ owner' = "joining"
  /\ UNCHANGED <<destroying, restarts, fileOpen, logging, buffer, batch, writer, accepted,
                 written, called>>

NotifyStop ==
  /\ owner = "stopping"
  /\ owner' = "joining"
  /\ writer' = Notified
  /\ UNCHANGED <<destroying, restarts, fileOpen, logging, buffer, batch, accepted,
                 written, called>>

JoinWriter ==
  /\ owner = "joining"
  /\ writer \in {"none", "done"}
  /\ owner' = IF destroying THEN "destroyed" ELSE "stopped"
  /\ UNCHANGED <<destroying, restarts, fileOpen, logging, buffer, batch, writer,
                 accepted, written, called>>

-----------------------------------------------------------------------------
(* Mutated: the writer leaves as soon as logging is off. *)
WriterTakes_LeavesEarly ==
  /\ writer = "awake"
  /\ \/ /\ ~logging
        /\ writer' = "done"
        /\ UNCHANGED <<buffer, batch>>
     \/ /\ logging /\ buffer # <<>>
        /\ writer' = "writing"
        /\ batch' = buffer
        /\ buffer' = <<>>
  /\ UNCHANGED <<ownerVars, fileOpen, logging, accepted, written, called>>

(* The writer's critical section: sleep if there is nothing to do, leave   *)
(* if logging is off and the buffer is empty, otherwise take the buffer.   *)
WriterTakes ==
  /\ writer = "awake"
  /\ \/ /\ buffer = <<>> /\ logging
        /\ writer' = "asleep"
        /\ UNCHANGED <<buffer, batch>>
     \/ /\ buffer = <<>> /\ ~logging
        /\ writer' = "done"
        /\ UNCHANGED <<buffer, batch>>
     \/ /\ buffer # <<>>
        /\ writer' = "writing"
        /\ batch' = buffer
        /\ buffer' = <<>>
  /\ UNCHANGED <<ownerVars, fileOpen, logging, accepted, written, called>>

(* Mutated: the batch is written from its end. *)
WriterWrites_Backwards ==
  /\ writer = "writing"
  /\ written' = Append(written, batch[Len(batch)])
  /\ batch' = SubSeq(batch, 1, Len(batch) - 1)
  /\ writer' = IF Len(batch) = 1 THEN "awake" ELSE "writing"
  /\ UNCHANGED <<ownerVars, fileOpen, logging, buffer, accepted, called>>

(* It writes the batch outside the mutex, ignoring what write returns, and *)
(* goes back to the mutex when the batch is empty.                         *)
WriterWrites ==
  /\ writer = "writing"
  /\ written' = Append(written, Head(batch))
  /\ batch' = Tail(batch)
  /\ writer' = IF Len(batch) = 1 THEN "awake" ELSE "writing"
  /\ UNCHANGED <<ownerVars, fileOpen, logging, buffer, accepted, called>>

Next ==
  \/ \E m \in Msgs : log_msg(m)
  \/ \E m \in Params \ {InitialParams, GitMetadata} : log_params(m)
  \/ \E ok \in OpenResults : open_new_mcap(ok)
  \/ init_logging \/ SpawnWriter
  \/ stop_logging \/ NotifyStop \/ JoinWriter
  \/ WriterTakes \/ WriterWrites

Spec == Init /\ [][Next]_vars

(* The writer thread is scheduled, and the owner finishes what it is in    *)
(* the middle of.  Nobody has to call the logger, or to stop it.           *)
Fairness ==
  /\ WF_vars(WriterTakes) /\ WF_vars(WriterWrites)
  /\ WF_vars(SpawnWriter) /\ WF_vars(NotifyStop) /\ WF_vars(JoinWriter)

FairSpec == Spec /\ Fairness

-----------------------------------------------------------------------------
Messages == Msgs \cup Params
InSeq(m, s) == \E i \in 1..Len(s) : s[i] = m

(* Type invariant of the logger. *)
TypeOK ==
  /\ owner \in {"created", "opened", "spawning", "logging", "stopping", "joining",
                "stopped", "destroyed"}
  /\ destroying \in BOOLEAN /\ restarts \in Nat
  /\ fileOpen \in BOOLEAN /\ logging \in BOOLEAN
  /\ writer \in {"none", "awake", "asleep", "writing", "done"}
  /\ buffer \in Seq(Messages) /\ batch \in Seq(Messages)
  /\ accepted \in Seq(Messages) /\ written \in Seq(Messages)
  /\ called \subseteq Messages

(* Whatever the callers and the writer are doing, what was accepted is     *)
(* what was written, followed by what the writer has taken, followed by    *)
(* what is still in the buffer: nothing lost, repeated or reordered.       *)
NothingLost == accepted = written \o batch \o buffer

(* The logger implements the abstract log. *)
Log == INSTANCE MessageLog WITH accepted <- accepted, written <- written
ImplementsLog == Log!Spec

(* A logger that is being stopped or destroyed first writes every message  *)
(* log_msg accepted: by the time the writer has been joined none of them   *)
(* is left behind.                                                         *)
StopDrainsMessages ==
  owner \in {"stopped", "destroyed"} =>
    \A m \in Msgs : InSeq(m, accepted) => InSeq(m, written)

(* The writer sleeps only while there is nothing to do, or somebody is     *)
(* about to wake it: no wake-up is lost.                                   *)
NoLostWakeup == writer = "asleep" => buffer = <<>> /\ (logging \/ owner = "stopping")

(* A message log_msg accepted is eventually written. *)
AcceptedIsWritten ==
  \A m \in Msgs : InSeq(m, accepted) ~> InSeq(m, written)

(* stop_logging and the destructor return: the writer they join finishes.  *)
StopReturns == owner = "stopping" ~> owner \in {"stopped", "destroyed"}

-----------------------------------------------------------------------------
(* What the comments on log_msg and log_params say of a call that returned *)
(* 0, "success": once the logger is gone its message is in the file.       *)
SuccessMeansLogged ==
  owner = "destroyed" => \A m \in Msgs : InSeq(m, accepted) => fileOpen /\ InSeq(m, written)

ParamsSuccessMeansLogged ==
  owner = "destroyed" => \A m \in Params : InSeq(m, accepted) => InSeq(m, written)
=============================================================================
