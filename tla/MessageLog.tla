----------------------------- MODULE MessageLog -----------------------------
(***************************************************************************)
(* What a message log promises its users, without threads or buffers: the  *)
(* messages it has accepted are written once each and in the order in      *)
(* which they were accepted.                                               *)
(***************************************************************************)
EXTENDS Naturals, Sequences

VARIABLES
  accepted,  \* the messages whose log call has returned success
  written    \* the messages handed to the file writer

Init == accepted = <<>> /\ written = <<>>

(* One call accepts one message or, when a file is opened, a few. *)
Accept ==
  /\ Len(accepted') > Len(accepted)
  /\ SubSeq(accepted', 1, Len(accepted)) = accepted
  /\ UNCHANGED written

Write ==
  /\ Len(written) < Len(accepted)
  /\ written' = Append(written, accepted[Len(written) + 1])
  /\ UNCHANGED accepted

Next == Accept \/ Write

Spec == Init /\ [][Next]_<<accepted, written>>
=============================================================================
