---------------------------- MODULE MCCarCommands ----------------------------
(* Two commands for the same car.                                            *)
EXTENDS CarCommands

CONSTANTS t1, t2, c1

MCCarOf == [t \in {t1, t2} |-> c1]
=============================================================================
