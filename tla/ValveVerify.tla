----------------------------- MODULE ValveVerify -----------------------------
(***************************************************************************)
(* DeviceManager::operatePlcWithVerify: a pool worker operates a valve and, *)
(* after an "ON", watches a humidity sensor for up to 10 seconds: the      *)
(* command counts as verified once the humidity is 5 % above what it was.  *)
(*                                                                         *)
(* The call of PLCManager::operate is one step here (PlcStatus has its     *)
(* parts), with the outcomes it can have; other commands for the valve may *)
(* come at any time.  MaxChecks passes of the loop, which sleeps 100 ms in *)
(* each, take the 10 seconds; fewer do if the sensor is slow.              *)
(***************************************************************************)
EXTENDS SensorManager

CONSTANTS SensorId,   \* the ids in commands: configured or not
          Rise,       \* the 5 % of targetHumidity
          MaxChecks

ASSUME VerifyAssumption ==
    /\ Sensor \subseteq SensorId /\ SensorId # {}
    /\ Rise \in Nat \ {0}
    /\ MaxChecks \in Nat

VARIABLES
    valve,      \* the valve, as the PLC has it
    verifyPc,   \* where each worker is in operatePlcWithVerify
    sensorId,   \* its sensor
    initial,    \* initialHumidity
    checks,     \* passes of the loop
    report      \* the OperatePLCWithVerify of a worker that has returned

VARIABLES
    baselineRead,  \* history: initial was read from the sensor
    wasOpen        \* history: the valve has been open since initial was read

verifyVars == <<valve, verifyPc, sensorId, initial, checks, report, baselineRead, wasOpen>>
valveVars == <<sensorVars, verifyVars>>

VerifyLabel == {"idle", "baseline", "readBaseline", "loop", "check", "picture", "returned"}
Report == [isSuccess : BOOLEAN, integrity : BOOLEAN, picture : BOOLEAN]
NoReport == [isSuccess |-> FALSE, integrity |-> FALSE, picture |-> FALSE]

ValveTypeOK ==
    /\ SensorTypeOK
    /\ valve \in BOOLEAN
    /\ verifyPc \in [Asker -> VerifyLabel]
    /\ sensorId \in [Asker -> SensorId]
    /\ initial \in [Asker -> Humidity]
    /\ checks \in [Asker -> 0 .. MaxChecks]
    /\ report \in [Asker -> Report]
    /\ baselineRead \in [Asker -> BOOLEAN] /\ wasOpen \in [Asker -> BOOLEAN]
    /\ \A v \in Asker : verifyPc[v] \in {"readBaseline", "check"} <=> mu = v
    \* only known sensors are watched
    /\ \A v \in Asker : verifyPc[v] \in {"readBaseline", "loop", "check", "picture"} => sensorId[v] \in Sensor

ValveInit ==
    /\ SensorInit
    /\ valve \in BOOLEAN
    /\ verifyPc = [v \in Asker |-> "idle"]
    /\ sensorId = [v \in Asker |-> CHOOSE s \in SensorId : TRUE]
    /\ initial = [v \in Asker |-> 0]
    /\ checks = [v \in Asker |-> 0]
    /\ report = [v \in Asker |-> NoReport]
    /\ baselineRead = [v \in Asker |-> FALSE]
    /\ wasOpen = [v \in Asker |-> FALSE]

VerifyAt(v, label) == verifyPc[v] = label
VerifyGoto(v, label) == verifyPc' = [verifyPc EXCEPT ![v] = label]
ValveTurns(open) ==
    /\ valve' = open
    /\ wasOpen' = [v \in Asker |-> wasOpen[v] \/ (open /\ verifyPc[v] \in {"loop", "check"})]

\* Only water from the open valve raises the humidity.
HumidityChanges(s) ==
    /\ \/ valve /\ humidity' = [humidity EXCEPT ![s] = @ + 1]
       \/ humidity' = [humidity EXCEPT ![s] = @ - 1]
    /\ humidity'[s] \in Humidity
    /\ UNCHANGED <<mu, cache, sensorPc, todo, list, unread, verifyVars>>

\* Another command for the valve.
OtherCommand ==
    /\ \E open \in BOOLEAN : ValveTurns(open)
    /\ UNCHANGED <<sensorVars, verifyPc, sensorId, initial, checks, report, baselineRead>>

-----------------------------------------------------------------------------
\* Lines 144-158.  A success means the write was executed; a failure says nothing.
\* Only "ON" is verified: what else is asked for returns here, line 237.
Operate(v, on, s) ==
    /\ VerifyAt(v, "idle")
    /\ \E success \in BOOLEAN :
        /\ \/ ValveTurns(on)
           \/ ~success /\ UNCHANGED <<valve, wasOpen>>
        /\ report' = [report EXCEPT ![v] = [NoReport EXCEPT !.integrity = success]]
    /\ sensorId' = [sensorId EXCEPT ![v] = s]
    /\ VerifyGoto(v, IF on THEN "baseline" ELSE "returned")
    /\ UNCHANGED <<sensorVars, initial, checks, baselineRead>>

\* Lines 164-170: getSensorDataRealTime has nothing only for an unknown id.
NoSuchSensor(v) ==
    /\ VerifyAt(v, "baseline")
    /\ sensorId[v] \notin Sensor /\ mu = NoThread
    /\ report' = [report EXCEPT ![v].integrity = FALSE]
    /\ VerifyGoto(v, "returned")
    /\ UNCHANGED <<sensorVars, valve, sensorId, initial, checks, baselineRead, wasOpen>>

\* getSensorDataRealTime: the mutex, and the request of readData.
AskSensor(v) ==
    /\ mu = NoThread
    /\ mu' = v
    /\ UNCHANGED <<humidity, cache, sensorPc, todo, list, unread>>

\* Its answer.  A failed reading is OFFLINE with humidity 0, and is not cached.
SensorAnswers(v, r) ==
    /\ mu' = NoThread
    /\ cache' = IF r = OFFLINE THEN cache ELSE [cache EXCEPT ![sensorId[v]] = r]
    /\ unread' = IF r = OFFLINE THEN unread ELSE [u \in Reader |-> unread[u] \ {sensorId[v]}]
    /\ UNCHANGED <<humidity, sensorPc, todo, list>>

ReadBaseline(v) ==
    /\ VerifyAt(v, "baseline")
    /\ sensorId[v] \in Sensor
    /\ AskSensor(v)
    /\ VerifyGoto(v, "readBaseline")
    /\ UNCHANGED <<valve, sensorId, initial, checks, report, baselineRead, wasOpen>>

\* Mutant of Baseline: what the cache holds.
BaselineCached(v, r) == cache[sensorId[v]]
Baseline(v, r) == r

\* Lines 163-173.
TakeBaseline(v) ==
    /\ VerifyAt(v, "readBaseline")
    /\ \E r \in Outcomes(sensorId[v]) :
        /\ SensorAnswers(v, r)
        /\ initial' = [initial EXCEPT ![v] = HumidityOf(Baseline(v, r))]
        /\ baselineRead' = [baselineRead EXCEPT ![v] = Baseline(v, r) # OFFLINE]
    /\ wasOpen' = [wasOpen EXCEPT ![v] = valve]
    /\ VerifyGoto(v, "loop")
    /\ UNCHANGED <<valve, sensorId, checks, report>>

\* Line 180: less than 10 seconds have passed, and the sensor is asked again.
Check(v) ==
    /\ VerifyAt(v, "loop") /\ checks[v] < MaxChecks
    /\ AskSensor(v)
    /\ VerifyGoto(v, "check")
    /\ UNCHANGED <<valve, sensorId, initial, checks, report, baselineRead, wasOpen>>

Verified(v, r) == HumidityOf(r) >= initial[v] + Rise

\* Lines 191-194 and 212.
CheckSucceeds(v) ==
    /\ VerifyAt(v, "check")
    /\ \E r \in Outcomes(sensorId[v]) : Verified(v, r) /\ SensorAnswers(v, r)
    /\ report' = [report EXCEPT ![v].isSuccess = TRUE]
    /\ VerifyGoto(v, "returned")
    /\ UNCHANGED <<valve, sensorId, initial, checks, baselineRead, wasOpen>>

\* Mutant of CheckAgain: a failed reading takes no time.
CheckAgainUncounted(v) ==
    /\ VerifyAt(v, "check")
    /\ \E r \in Outcomes(sensorId[v]) :
        /\ ~Verified(v, r) /\ SensorAnswers(v, r)
        /\ checks' = IF r = OFFLINE THEN checks ELSE [checks EXCEPT ![v] = @ + 1]
    /\ VerifyGoto(v, "loop")
    /\ UNCHANGED <<valve, sensorId, initial, report, baselineRead, wasOpen>>

\* Lines 195-209: not yet.
CheckAgain(v) ==
    /\ VerifyAt(v, "check")
    /\ \E r \in Outcomes(sensorId[v]) : ~Verified(v, r) /\ SensorAnswers(v, r)
    /\ checks' = [checks EXCEPT ![v] = @ + 1]
    /\ VerifyGoto(v, "loop")
    /\ UNCHANGED <<valve, sensorId, initial, report, baselineRead, wasOpen>>

\* Lines 213-216: the 10 seconds are over.
TimeIsUp(v) ==
    /\ VerifyAt(v, "loop")
    /\ report' = [report EXCEPT ![v].integrity = FALSE]
    /\ VerifyGoto(v, "picture")
    /\ UNCHANGED <<sensorVars, valve, sensorId, initial, checks, baselineRead, wasOpen>>

\* Lines 221-234: the camera's last key frame, if it has one.
TakePicture(v) ==
    /\ VerifyAt(v, "picture")
    /\ \E ok \in BOOLEAN : report' = [report EXCEPT ![v].picture = ok]
    /\ VerifyGoto(v, "returned")
    /\ UNCHANGED <<sensorVars, valve, sensorId, initial, checks, baselineRead, wasOpen>>

\* OperateValueWithVerifyTask::run publishes the report.
ReportPublished(v) ==
    /\ VerifyAt(v, "returned")
    /\ report' = [report EXCEPT ![v] = NoReport]
    /\ initial' = [initial EXCEPT ![v] = 0]
    /\ checks' = [checks EXCEPT ![v] = 0]
    /\ baselineRead' = [baselineRead EXCEPT ![v] = FALSE]
    /\ wasOpen' = [wasOpen EXCEPT ![v] = FALSE]
    /\ VerifyGoto(v, "idle")
    /\ UNCHANGED <<sensorVars, valve, sensorId>>

Asking(v) == ReadBaseline(v) \/ NoSuchSensor(v) \/ Check(v)
Verifying(v) ==
    \/ Asking(v) \/ TakeBaseline(v) \/ CheckSucceeds(v) \/ CheckAgain(v)
    \/ TimeIsUp(v) \/ TakePicture(v)

SensorStep ==
    /\ \/ StartRefresher
       \/ \E t \in Reader : CallRefreshAll(t) \/ Refreshing(t) \/ ListReported(t)
    /\ UNCHANGED verifyVars

ValveNext ==
    \/ SensorStep
    \/ \E s \in Opened : HumidityChanges(s)
    \/ OtherCommand
    \/ \E v \in Asker : \/ \E on \in BOOLEAN, s \in SensorId : Operate(v, on, s)
                        \/ Verifying(v)
                        \/ ReportPublished(v)

(* Threads run; mu_ is released again and again, and who waits for it gets it. *)
ValveFairness ==
    /\ \A t \in Reader : WF_valveVars(Refreshing(t) /\ UNCHANGED verifyVars)
    /\ \A v \in Asker : WF_valveVars(Verifying(v)) /\ SF_valveVars(Asking(v))

ValveSpec == ValveInit /\ [][ValveNext]_valveVars /\ ValveFairness

-----------------------------------------------------------------------------
(* Properties.                                                             *)

\* A command is reported as verified only if the valve was open at some time since
\* its baseline was read, whoever opened or shut it in between: unless the baseline
\* is the 0 of a failed reading (device_manager.cpp:163-194).
VerifiedMeansOpen ==
    \A v \in Asker : report[v].isSuccess /\ baselineRead[v] => wasOpen[v]

\* A verification ends, although the sensor may fail again and again and others
\* keep taking the mutex.
VerifyReturns ==
    \A v \in Asker : VerifyAt(v, "baseline") ~> VerifyAt(v, "returned")
=============================================================================
