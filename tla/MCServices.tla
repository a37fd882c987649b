----------------------------- MODULE MCServices -----------------------------
(* Eight configurations in one run, of parts that share no state: the MQTT link with   *)
(* a broker that comes and goes; commands while the services start; HTTP requests of   *)
(* all kinds; downloads of a growing file; updates of the configuration; the           *)
(* recognizer; one picture; and the log.                                               *)
EXTENDS MqttLink, FrontEnd, MCConfigUpdate, Logger, Recognition, Vision

VARIABLE deployment

servicesVars == <<deployment, mqttVars, frontVars, cfgVars, logVars, recVars, visionVars>>

PlainRequest == [route |-> "getAll", body |-> "complete", length |-> TRUE]

\* Which inode holds config.json makes no difference.
FirstInode == CHOOSE i \in Inode : TRUE

\* A connection that nothing happens to.
QuietLink ==
    /\ up = TRUE /\ connected = TRUE /\ subscribed = Topic /\ lost = 0 /\ losses = 0
    /\ reconnecting = FALSE /\ pc = [t \in Thread |-> IF t = Main THEN "send" ELSE "start"]
    /\ todo = [t \in Thread |-> {}]

\* A log file that nothing happens to.
PlainLog == clock = Midnight(FirstDay) /\ logFiles = {FirstDay} /\ logFile = TRUE

MCInit ==
    /\ deployment \in {"link", "commands", "requests", "downloads",
                       "update", "recognizer", "picture", "log"}
    /\ IF deployment = "link" THEN MqttInit ELSE QuietLink
    /\ FrontInit /\ (deployment # "downloads" => size = 1)
    /\ CfgInit /\ (deployment # "update" => config = FirstInode)
    /\ LogInit /\ (deployment # "log" => PlainLog)
    /\ RecInit /\ VisionInit

\* Services start, MQTT messages arrive, and there is one plain HTTP request.
Commands ==
    /\ FrontNext /\ UNCHANGED <<diskVars, reading>>
    /\ \A c \in Client : /\ conn'[c] # "away" => request'[c] = PlainRequest
                         /\ arrived'[c] \in {"nothing", "all"}

\* Requests of all kinds, in pieces, after the start.
Requesting ==
    /\ FrontNext /\ UNCHANGED <<diskVars, messages>>
    /\ \A c \in Client : request'[c].route # "file"
    /\ \A c \in Client : conn'[c] # "away" => boot' = "up"

\* Somebody downloads the file while it is written.
Downloads ==
    /\ FrontNext /\ UNCHANGED messages
    /\ \A c \in Client : conn'[c] # "away" => request'[c].route = "file"

MCNext ==
    /\ UNCHANGED deployment
    /\ \/ /\ deployment = "link" /\ MqttNext
          /\ UNCHANGED <<frontVars, cfgVars, logVars, recVars, visionVars>>
       \/ /\ deployment = "commands" /\ Commands
          /\ UNCHANGED <<mqttVars, cfgVars, logVars, recVars, visionVars>>
       \/ /\ deployment = "requests" /\ Requesting
          /\ UNCHANGED <<mqttVars, cfgVars, logVars, recVars, visionVars>>
       \/ /\ deployment = "downloads" /\ Downloads
          /\ UNCHANGED <<mqttVars, cfgVars, logVars, recVars, visionVars>>
       \/ /\ deployment = "update" /\ CfgNext
          /\ UNCHANGED <<mqttVars, frontVars, logVars, recVars, visionVars>>
       \/ /\ deployment = "recognizer" /\ RecNext
          /\ UNCHANGED <<mqttVars, frontVars, cfgVars, logVars, visionVars>>
       \/ /\ deployment = "picture" /\ VisionNext
          /\ UNCHANGED <<mqttVars, frontVars, cfgVars, logVars, recVars>>
       \/ /\ deployment = "log" /\ LogNext
          /\ UNCHANGED <<mqttVars, frontVars, cfgVars, recVars, visionVars>>

MCSpec == MCInit /\ [][MCNext]_servicesVars /\ MqttFairness /\ FrontFairness

-----------------------------------------------------------------------------
Orders == [route : {"getRealImage", "getAll", "unknown"}, body : Bodies \ {"notUtf8"}]
Zp == -128
Threshold == -65

\* Three cells, the first two next to each other, the third one on a coarser grid.
Cells == <<[i |-> 0, j |-> 1, stride |-> 2], [i |-> 1, j |-> 1, stride |-> 2],
           [i |-> 0, j |-> 0, stride |-> 4]>>
Scores == {<<-128, -128>>, <<-64, -64>>, <<60, 60>>, <<-70, 60>>}
Boxes == {<< <<1, 0, 1, 1>>, <<1, 1, 1, 1>>, <<0, 0, 1, 1>> >>,    \* the second overlaps both
          << <<0, 1, 5, 2>>, <<0, 1, 5, 2>>, <<0, 0, 1, 1>> >>,    \* two leave the picture
          << <<1, 1, 1, 0>>, <<0, 0, 0, 0>>, <<1, 1, 0, 0>> >>}    \* an empty one, and edges
Models == {[width |-> 8, height |-> 8], [width |-> 12, height |-> 6],
           [width |-> 5, height |-> 9], [width |-> 4, height |-> 4]}

\* Scores that are not quantised count from 0.
Score(s, quant) == [c \in Classes |-> IF quant THEN s[c + 1] ELSE s[c + 1] - Zp]
Sum(s, quant) == (IF s[1] = -128 THEN -128 ELSE 100) - (IF quant THEN 0 ELSE Zp)

SceneOf(m, quant, hasSum, s, b) ==
    [model |-> m, quant |-> quant, hasSum |-> hasSum,
     outputs |-> [k \in 1 .. 3 |->
        [i |-> Cells[k].i, j |-> Cells[k].j, stride |-> Cells[k].stride,
         score |-> Score(s[k], quant), box |-> b[k], sum |-> Sum(s[k], quant)]]]

Pictures == {SceneOf(m, quant, hasSum, s, b) :
                m \in Models, quant \in BOOLEAN, hasSum \in BOOLEAN,
                s \in [1 .. 3 -> Scores], b \in Boxes}
SomeText == <<"printed", "newline", "printed", "other", "printed">>
=============================================================================
