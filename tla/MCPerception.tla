---------------------------- MODULE MCPerception ----------------------------
(* Small instances of Perception for TLC. *)
EXTENDS Perception

MCPoints == [x : 0..5, y : -1..0, z : 0..2]
MCGate == [near |-> [points |-> 2, height |-> 1, width |-> 2],
           mid  |-> [points |-> 1, height |-> 0, width |-> 2],
           far  |-> [points |-> 1, height |-> 0, width |-> 1]]
=============================================================================
