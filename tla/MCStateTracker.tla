-------------------------- MODULE MCStateTracker --------------------------
(* Small instances of StateTracker for TLC. *)
EXTENDS StateTracker, TLC

CONSTANTS p1, p2, r1

MCSensors == {"pedals", "steering"}
MCProducers == {p1, p2}
MCReaders == {r1}
(* What the heap block may hold: zero, or a positive number near the clock. *)
MCGarbage == {0, 1}
MCSymmetry == Permutations(MCProducers)
MCSteps == {-1, 1}
=============================================================================
