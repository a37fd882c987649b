--------------------------- MODULE MCJobScheduler ---------------------------
(* Three commands: two for the same car, one from MQTT and a malformed one   *)
(* from HTTP, and one request without an ack.                               *)
EXTENDS JobScheduler

CONSTANTS t1, t2, t3, c1

MCCarOf == [t \in {t1, t2, t3} |-> IF t = t3 THEN NoCar ELSE c1]
=============================================================================
