--------------------------- MODULE MCControlLoop ---------------------------
(* Small instances of ControlLoop for TLC. *)
EXTENDS ControlLoop

(* Two controllers, and two indices that name none. *)
MCRequests == {-1, 0, 1, 2}
(* Two modes, and a number that is none. *)
MCModes == {0, 1, 3}
MCConfig == [index |-> 0, mode |-> 0, enabled |-> TRUE]
MCOutputs ==
  { [kind |-> "speed", rpmHigh |-> FALSE, torqueHigh |-> FALSE],
    [kind |-> "speed", rpmHigh |-> TRUE, torqueHigh |-> FALSE],
    [kind |-> "torque", rpmHigh |-> FALSE, torqueHigh |-> TRUE],
    [kind |-> "none", rpmHigh |-> FALSE, torqueHigh |-> FALSE] }
=============================================================================
