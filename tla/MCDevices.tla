----------------------------- MODULE MCDevices -----------------------------
(* Two configurations in one run: one has cameras only, the other a valve and  *)
(* its sensors.  Cameras and sensors share no state; where a command needs a   *)
(* picture, TakePicture says what it may get.                                  *)
EXTENDS Camera, ValveVerify

VARIABLE deployment

MCVars == <<deployment, camVars, valveVars>>

MCInit ==
    /\ CamInit /\ ValveInit
    /\ deployment \in {"cameras", "sensors"}
    \* one initial state of what is not there
    /\ deployment = "cameras" =>
        /\ ~valve
        /\ \A s \in Opened : humidity[s] = 0
        /\ \A s \in Sensor : cache[s] = OFFLINE

MCNext ==
    \/ deployment = "cameras" /\ CamNext /\ UNCHANGED <<deployment, valveVars>>
    \/ deployment = "sensors" /\ ValveNext /\ UNCHANGED <<deployment, camVars>>

MCSpec == MCInit /\ [][MCNext]_MCVars /\ ValveFairness
=============================================================================
