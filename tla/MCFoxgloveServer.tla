-------------------------- MODULE MCFoxgloveServer --------------------------
(* Small instances of FoxgloveServer for TLC. *)
EXTENDS FoxgloveServer

CONSTANTS p1, p2, t1, t2

MCProducers == {p1, p2}
MCTopics == {t1, t2}
MCKnown == {t1}
=============================================================================
