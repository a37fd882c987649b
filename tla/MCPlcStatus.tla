----------------------------- MODULE MCPlcStatus -----------------------------
(* The valves of one PLC.                                                    *)
EXTENDS PlcStatus, TLC

CONSTANT q1

MCPlcOf == [d \in Dev |-> q1]
ClientSymmetry == Permutations(Client)
==============================================================================
