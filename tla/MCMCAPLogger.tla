---------------------------- MODULE MCMCAPLogger ----------------------------
(* Small instances of MCAPLogger for TLC. *)
EXTENDS MCAPLogger

CONSTANTS m1, m2, m3, config, git, q1

MCMsgs == {m1, m2, m3}
MCParams == {config, git, q1}
MCOpens == {TRUE}
MCMayFail == {TRUE, FALSE}
=============================================================================
