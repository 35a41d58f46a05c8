------------------------------- MODULE MCSlam -------------------------------
(* Small instances of Slam for TLC. *)
EXTENDS Slam

(* A detection brings two of the three points of evidence needed. *)
MCConfidences == {2}
(* The next frame, and one after a pause longer than the age in the graph. *)
MCGaps == {1, 3}
MCFinite == {TRUE, FALSE}
=============================================================================
