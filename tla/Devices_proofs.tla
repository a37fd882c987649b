--------------------------- MODULE Devices_proofs ---------------------------
(***************************************************************************)
(* Theorems about the devices of MCDevices: sensors and valves, for any    *)
(* number of sensors, of threads that read them and of valve commands; and *)
(* one camera, for any lengths of a minute, a day and a segment and any    *)
(* retention times.  The two share no state.                               *)
(***************************************************************************)
EXTENDS Camera, ValveVerify, WellFoundedInduction, TLAPS

-----------------------------------------------------------------------------
(* Sensors and valves: the inductive invariant.                            *)

USE SensorAssumption, VerifyAssumption

\* The entries that are older than a call are among those it has still to refresh.
UnreadInv ==
    \A t \in Reader :
        /\ sensorPc[t] \in {"refresh", "read"} => unread[t] \subseteq todo[t]
        /\ sensorPc[t] = "listed" => unread[t] = {}

\* While the valve has not been open since the baseline was read it is shut, and the
\* humidity has not risen; only a verification that is over has a verdict.
BaselineInv ==
    \A v \in Asker :
        /\ verifyPc[v] \in {"loop", "check"} /\ baselineRead[v] /\ ~wasOpen[v] =>
              /\ sensorId[v] \in Opened
              /\ ~valve /\ humidity[sensorId[v]] <= initial[v]
        /\ verifyPc[v] # "returned" => ~report[v].isSuccess
        /\ verifyPc[v] = "check" => checks[v] < MaxChecks

ValveInv == ValveTypeOK /\ UnreadInv /\ ListIsFresh /\ BaselineInv /\ VerifiedMeansOpen

\* What readData can give, and what is made of it.
LEMMA OutcomeTypes ==
  ASSUME ValveTypeOK, NEW s \in Sensor, NEW r \in Outcomes(s)
  PROVE  /\ r \in Reading /\ HumidityOf(r) \in Humidity
         /\ r # OFFLINE => s \in Opened /\ r = humidity[s] /\ HumidityOf(r) = humidity[s]
         /\ r = OFFLINE => HumidityOf(r) = 0
<1>1. humidity \in [Opened -> Humidity]
  BY DEF ValveTypeOK, SensorTypeOK
<1>2. Humidity \subseteq Nat /\ 0 \in Humidity /\ OFFLINE \notin Humidity
  BY DEF Humidity, OFFLINE
<1> QED BY <1>1, <1>2 DEF Outcomes, PortOpen, Reading, HumidityOf

\* Nothing has been read and nothing is watched.
LEMMA ValveInvInit == ValveInit => ValveInv
<1> SUFFICES ASSUME ValveInit PROVE ValveInv
  OBVIOUS
<1>1. (CHOOSE s \in SensorId : TRUE) \in SensorId
  OBVIOUS
<1>2. SensorTypeOK
  BY DEF ValveInit, SensorInit, SensorTypeOK, Reader, Reading, Humidity
<1>3. ValveTypeOK
  BY <1>1, <1>2 DEF ValveInit, SensorInit, ValveTypeOK, VerifyLabel, Report, NoReport, Humidity
<1>4. UnreadInv /\ ListIsFresh /\ BaselineInv /\ VerifiedMeansOpen
  BY DEF ValveInit, SensorInit, UnreadInv, ListIsFresh, SensorAt, BaselineInv, NoReport,
     VerifiedMeansOpen, Reader
<1> QED BY <1>3, <1>4 DEF ValveInv

\* What the sensors' threads leave alone.
LEMMA WatchKept ==
  ASSUME ValveInv, UNCHANGED <<humidity, verifyVars>>
  PROVE  BaselineInv' /\ VerifiedMeansOpen'
BY DEF ValveInv, verifyVars, BaselineInv, VerifiedMeansOpen

\* Any of them keeps the invariant.
LEMMA SensorStepKeeps == ValveInv /\ SensorStep => ValveInv'
<1> SUFFICES ASSUME ValveInv, SensorStep PROVE ValveInv'
  OBVIOUS
<1> USE DEF SensorAt, SensorGoto
<1>1. UNCHANGED verifyVars
  BY DEF SensorStep
<1>2. Refresher \in Reader /\ \A t \in Reader : t \notin Asker /\ t # NoThread
  BY DEF Reader
<1>3. ASSUME SensorTypeOK', \A v \in Asker : mu' = v <=> mu = v PROVE ValveTypeOK'
  BY <1>1, <1>3 DEF ValveInv, ValveTypeOK, verifyVars
<1>4. CASE StartRefresher
  <2>1. SensorTypeOK' /\ UnreadInv' /\ ListIsFresh'
    BY <1>2, <1>4 DEF StartRefresher, ValveInv, ValveTypeOK, SensorTypeOK, UnreadInv, ListIsFresh
  <2> QED BY <1>1, <1>3, <1>4, <2>1, WatchKept DEF StartRefresher, ValveInv
<1>5. ASSUME NEW t \in Reader, CallRefreshAll(t) PROVE ValveInv'
  <2>1. SensorTypeOK' /\ UnreadInv' /\ ListIsFresh'
    BY <1>2, <1>5 DEF CallRefreshAll, ValveInv, ValveTypeOK, SensorTypeOK, UnreadInv, ListIsFresh
  <2> QED BY <1>1, <1>3, <1>5, <2>1, WatchKept DEF CallRefreshAll, ValveInv
<1>6. ASSUME NEW t \in Reader, RefreshBegins(t) PROVE ValveInv'
  <2>1. SensorTypeOK' /\ UnreadInv' /\ ListIsFresh'
    BY <1>2, <1>6 DEF RefreshBegins, ValveInv, ValveTypeOK, SensorTypeOK, UnreadInv, ListIsFresh
  <2> QED BY <1>1, <1>2, <1>3, <1>6, <2>1, WatchKept DEF RefreshBegins, ValveInv
<1>7. ASSUME NEW t \in Reader, NEW s \in todo[t], NEW r \in Outcomes(s), RefreshSensor(t, s, r)
      PROVE  ValveInv'
  <2>1. s \in Sensor /\ r \in Reading
    BY <1>7, OutcomeTypes DEF ValveInv, ValveTypeOK, SensorTypeOK
  <2>2. mu = t
    BY <1>7 DEF RefreshSensor, ValveInv, ValveTypeOK, SensorTypeOK
  <2>3. SensorTypeOK'
    BY <1>2, <1>7, <2>1, <2>2 DEF RefreshSensor, ValveInv, ValveTypeOK, SensorTypeOK
  <2>4. UnreadInv' /\ ListIsFresh'
    BY <1>7, <2>1 DEF RefreshSensor, ValveInv, ValveTypeOK, SensorTypeOK, UnreadInv, ListIsFresh
  <2> QED BY <1>1, <1>2, <1>3, <1>7, <2>2, <2>3, <2>4, WatchKept DEF RefreshSensor, ValveInv
<1>8. CASE RoundEnds
  <2>1. SensorTypeOK' /\ UnreadInv' /\ ListIsFresh'
    BY <1>2, <1>8 DEF RoundEnds, ValveInv, ValveTypeOK, SensorTypeOK, UnreadInv, ListIsFresh
  <2> QED BY <1>1, <1>3, <1>8, <2>1, WatchKept DEF RoundEnds, ValveInv
<1>9. ASSUME NEW t \in Reader, TakeList(t) PROVE ValveInv'
  <2>1. SensorTypeOK'
    BY <1>2, <1>9 DEF TakeList, ValveInv, ValveTypeOK, SensorTypeOK
  <2>2. UnreadInv' /\ ListIsFresh'
    BY <1>9 DEF TakeList, ValveInv, ValveTypeOK, SensorTypeOK, UnreadInv, ListIsFresh
  <2> QED BY <1>1, <1>3, <1>9, <2>1, <2>2, WatchKept DEF TakeList, ValveInv
<1>10. ASSUME NEW t \in Reader, ListReported(t) PROVE ValveInv'
  <2>1. SensorTypeOK'
    BY <1>2, <1>10 DEF ListReported, ValveInv, ValveTypeOK, SensorTypeOK
  <2>2. UnreadInv' /\ ListIsFresh'
    BY <1>10 DEF ListReported, ValveInv, ValveTypeOK, SensorTypeOK, UnreadInv, ListIsFresh
  <2> QED BY <1>1, <1>3, <1>10, <2>1, <2>2, WatchKept DEF ListReported, ValveInv
<1> QED
  BY <1>4, <1>5, <1>6, <1>7, <1>8, <1>9, <1>10 DEF SensorStep, Refreshing

\* What a verification does leaves the threads of the sensors where they are.
LEMMA ListsKept ==
  ASSUME ValveInv, UNCHANGED <<sensorPc, todo>>,
         unread' = unread \/ \E s : unread' = [t \in Reader |-> unread[t] \ {s}]
  PROVE  UnreadInv' /\ ListIsFresh'
BY DEF ValveInv, UnreadInv, ListIsFresh, SensorAt

\* A worker asks a sensor while nobody else does.
LEMMA AskKeeps ==
  ASSUME ValveInv, NEW v \in Asker, AskSensor(v)
  PROVE  SensorTypeOK' /\ \A u \in Asker : mu' = u <=> u = v
<1>1. mu = NoThread /\ NoThread # v /\ \A t \in Reader : t # v /\ t # NoThread
  BY DEF Reader, AskSensor
<1> QED BY <1>1 DEF ValveInv, ValveTypeOK, SensorTypeOK, AskSensor

\* The answer goes to the cache, and the mutex is free again.
LEMMA AnswerKeeps ==
  ASSUME ValveInv, NEW v \in Asker, mu = v, sensorId[v] \in Sensor,
         NEW r \in Outcomes(sensorId[v]), SensorAnswers(v, r)
  PROVE  /\ SensorTypeOK' /\ \A u \in Asker : mu' # u
         /\ unread' = unread \/ \E s : unread' = [t \in Reader |-> unread[t] \ {s}]
<1>1. /\ \A t \in Reader : t # v /\ t # NoThread
      /\ \A u \in Asker : u # NoThread
  BY DEF Reader
<1>2. r \in Reading
  BY OutcomeTypes DEF ValveInv
<1>3. cache' \in [Sensor -> Reading] /\ unread' \in [Reader -> SUBSET Sensor]
  BY <1>2 DEF ValveInv, ValveTypeOK, SensorTypeOK, SensorAnswers
<1>4. SensorTypeOK'
  BY <1>1, <1>3 DEF ValveInv, ValveTypeOK, SensorTypeOK, SensorAnswers
<1> QED BY <1>1, <1>4 DEF SensorAnswers

\* A valve that is opened has been open since every baseline.
LEMMA TurnKeeps ==
  ASSUME ValveInv, NEW open \in BOOLEAN, ValveTurns(open),
         UNCHANGED <<sensorVars, initial, checks, baselineRead>>,
         \A v \in Asker : \/ UNCHANGED <<verifyPc[v], sensorId[v], report[v]>>
                          \/ /\ verifyPc'[v] \in {"baseline", "returned"}
                             /\ verifyPc[v] = "idle" /\ ~report'[v].isSuccess
  PROVE  wasOpen' \in [Asker -> BOOLEAN] /\ BaselineInv' /\ VerifiedMeansOpen'
<1>1. wasOpen' = [v \in Asker |-> wasOpen[v] \/ (open /\ verifyPc[v] \in {"loop", "check"})]
      /\ wasOpen \in [Asker -> BOOLEAN] /\ valve' = open /\ humidity' = humidity
  BY DEF ValveInv, ValveTypeOK, ValveTurns, sensorVars
<1>2. wasOpen' \in [Asker -> BOOLEAN]
  BY <1>1
<1>3. ASSUME NEW v \in Asker
      PROVE  /\ verifyPc'[v] \in {"loop", "check"} /\ baselineRead'[v] /\ ~wasOpen'[v] =>
                  sensorId'[v] \in Opened /\ ~valve' /\ humidity'[sensorId'[v]] <= initial'[v]
             /\ verifyPc'[v] # "returned" => ~report'[v].isSuccess
             /\ verifyPc'[v] = "check" => checks'[v] < MaxChecks
             /\ report'[v].isSuccess /\ baselineRead'[v] => wasOpen'[v]
  BY <1>1 DEF ValveInv, BaselineInv, VerifiedMeansOpen
<1> QED BY <1>2, <1>3 DEF BaselineInv, VerifiedMeansOpen

\* Another command turns the valve.
LEMMA OtherCommandKeeps == ValveInv /\ OtherCommand => ValveInv'
<1> SUFFICES ASSUME ValveInv, NEW open \in BOOLEAN, ValveTurns(open),
                    UNCHANGED <<sensorVars, verifyPc, sensorId, initial, checks, report,
                                baselineRead>>
             PROVE  ValveInv'
  BY DEF OtherCommand
<1>1. wasOpen' \in [Asker -> BOOLEAN] /\ BaselineInv' /\ VerifiedMeansOpen'
  BY TurnKeeps
<1>2. ValveTypeOK'
  BY <1>1 DEF ValveInv, ValveTypeOK, SensorTypeOK, sensorVars, ValveTurns
<1>3. UnreadInv' /\ ListIsFresh'
  BY ListsKept DEF sensorVars
<1> QED BY <1>1, <1>2, <1>3 DEF ValveInv

\* The humidity rises only while the valve is open.
LEMMA HumidityKeeps ==
  ASSUME ValveInv, NEW s \in Opened, HumidityChanges(s) PROVE ValveInv'
<1>1. humidity \in [Opened -> Humidity] /\ humidity' \in [Opened -> Humidity]
  BY DEF ValveInv, ValveTypeOK, SensorTypeOK, HumidityChanges
<1>2. ValveTypeOK'
  BY <1>1 DEF ValveInv, ValveTypeOK, SensorTypeOK, HumidityChanges, verifyVars
<1>3. UnreadInv' /\ ListIsFresh'
  BY ListsKept DEF HumidityChanges
<1>4. ~valve => \A x \in Opened : humidity'[x] <= humidity[x]
  BY <1>1 DEF HumidityChanges, Humidity
<1>5. BaselineInv' /\ VerifiedMeansOpen'
  <2>1. initial \in [Asker -> Nat]
    BY DEF ValveInv, ValveTypeOK, Humidity
  <2>2. \A x \in Opened : humidity[x] \in Nat /\ humidity'[x] \in Nat
    BY <1>1 DEF Humidity
  <2> QED BY <1>4, <2>1, <2>2 DEF ValveInv, BaselineInv, VerifiedMeansOpen, HumidityChanges, verifyVars
<1> QED BY <1>2, <1>3, <1>5 DEF ValveInv

\* A command that is refused, or turns the valve, has no verdict yet.
LEMMA OperateKeeps ==
  ASSUME ValveInv, NEW v \in Asker, NEW on \in BOOLEAN, NEW s \in SensorId, Operate(v, on, s)
  PROVE  ValveInv'
<1> USE DEF VerifyAt, VerifyGoto
<1>1. PICK success \in BOOLEAN :
        /\ ValveTurns(on) \/ UNCHANGED <<valve, wasOpen>>
        /\ report' = [report EXCEPT ![v] = [NoReport EXCEPT !.integrity = success]]
  BY DEF Operate
<1>2. /\ report'[v] \in Report /\ ~report'[v].isSuccess /\ report' \in [Asker -> Report]
      /\ \A u \in Asker \ {v} : report'[u] = report[u]
  BY <1>1 DEF ValveInv, ValveTypeOK, NoReport, Report
<1>3. /\ verifyPc[v] = "idle" /\ verifyPc'[v] \in {"baseline", "returned"}
      /\ verifyPc' \in [Asker -> VerifyLabel] /\ sensorId' \in [Asker -> SensorId]
      /\ \A u \in Asker \ {v} : verifyPc'[u] = verifyPc[u] /\ sensorId'[u] = sensorId[u]
      /\ UNCHANGED <<sensorVars, initial, checks, baselineRead>>
  BY DEF Operate, ValveInv, ValveTypeOK, VerifyLabel
<1>4. wasOpen' \in [Asker -> BOOLEAN] /\ valve' \in BOOLEAN /\ BaselineInv' /\ VerifiedMeansOpen'
  <2>1. CASE ValveTurns(on)
    BY <1>2, <1>3, <2>1, TurnKeeps DEF ValveTurns
  <2>2. CASE UNCHANGED <<valve, wasOpen>>
    BY <1>2, <1>3, <2>2 DEF ValveInv, ValveTypeOK, BaselineInv, VerifiedMeansOpen, sensorVars
  <2> QED BY <1>1, <2>1, <2>2
<1>5. ValveTypeOK'
  BY <1>2, <1>3, <1>4 DEF ValveInv, ValveTypeOK, SensorTypeOK, sensorVars
<1>6. UnreadInv' /\ ListIsFresh'
  BY <1>3, ListsKept DEF sensorVars
<1> QED BY <1>4, <1>5, <1>6 DEF ValveInv

\* One field of a report is filled in.
LEMMA ReportTypes ==
  ASSUME ValveTypeOK, NEW v \in Asker, NEW b \in BOOLEAN
  PROVE  /\ [report EXCEPT ![v].isSuccess = b] \in [Asker -> Report]
         /\ [report EXCEPT ![v].integrity = b] \in [Asker -> Report]
         /\ [report EXCEPT ![v].picture = b] \in [Asker -> Report]
<1>1. report \in [Asker -> Report] /\ report[v] \in Report
  BY DEF ValveTypeOK
<1>2. /\ [report[v] EXCEPT !.isSuccess = b] \in Report
      /\ [report[v] EXCEPT !.integrity = b] \in Report
      /\ [report[v] EXCEPT !.picture = b] \in Report
  BY <1>1 DEF Report
<1> QED BY <1>1, <1>2

\* The sensor is asked: for the baseline, or once more.
LEMMA AskingKeeps == ASSUME ValveInv, NEW v \in Asker, Asking(v) PROVE ValveInv'
<1> USE DEF VerifyAt, VerifyGoto
<1>1. CASE NoSuchSensor(v)
  <2>0. report' \in [Asker -> Report]
    BY <1>1, ReportTypes DEF NoSuchSensor, ValveInv
  <2>1. ValveTypeOK'
    BY <1>1, <2>0 DEF NoSuchSensor, ValveInv, ValveTypeOK, SensorTypeOK, sensorVars, VerifyLabel
  <2>2. UnreadInv' /\ ListIsFresh'
    BY <1>1, ListsKept DEF NoSuchSensor, sensorVars
  <2>3. BaselineInv' /\ VerifiedMeansOpen'
    BY <1>1 DEF NoSuchSensor, ValveInv, ValveTypeOK, BaselineInv, VerifiedMeansOpen, sensorVars,
       Report
  <2> QED BY <2>1, <2>2, <2>3 DEF ValveInv
<1>2. CASE ReadBaseline(v) \/ Check(v)
  <2>1. AskSensor(v) /\ mu = NoThread
        /\ UNCHANGED <<valve, sensorId, initial, checks, report, baselineRead, wasOpen>>
        /\ \/ verifyPc[v] = "baseline" /\ verifyPc' = [verifyPc EXCEPT ![v] = "readBaseline"]
           \/ verifyPc[v] = "loop" /\ verifyPc' = [verifyPc EXCEPT ![v] = "check"]
        /\ sensorId[v] \in Sensor
    BY <1>2 DEF ReadBaseline, Check, AskSensor, ValveInv, ValveTypeOK
  <2>2. SensorTypeOK' /\ \A u \in Asker : mu' = u <=> u = v
    BY <2>1, AskKeeps
  <2>3. \A u \in Asker : mu # u
    BY <2>1
  <2>4. ValveTypeOK'
    BY <2>1, <2>2, <2>3 DEF ValveInv, ValveTypeOK, VerifyLabel
  <2>5. UnreadInv' /\ ListIsFresh'
    BY <2>1, ListsKept DEF AskSensor
  <2>6. BaselineInv' /\ VerifiedMeansOpen'
    BY <1>2, <2>1 DEF ReadBaseline, Check, AskSensor, ValveInv, ValveTypeOK, BaselineInv, VerifiedMeansOpen
  <2> QED BY <2>4, <2>5, <2>6 DEF ValveInv
<1> QED BY <1>1, <1>2 DEF Asking

\* The baseline is what the sensor says, with the valve as it is.
LEMMA TakeBaselineKeeps == ASSUME ValveInv, NEW v \in Asker, TakeBaseline(v) PROVE ValveInv'
<1> USE DEF VerifyAt, VerifyGoto
<1>1. PICK r \in Outcomes(sensorId[v]) :
        /\ SensorAnswers(v, r)
        /\ initial' = [initial EXCEPT ![v] = HumidityOf(r)]
        /\ baselineRead' = [baselineRead EXCEPT ![v] = r # OFFLINE]
  BY DEF TakeBaseline, Baseline
<1>2. /\ verifyPc[v] = "readBaseline" /\ verifyPc' = [verifyPc EXCEPT ![v] = "loop"]
      /\ wasOpen' = [wasOpen EXCEPT ![v] = valve]
      /\ UNCHANGED <<valve, sensorId, checks, report>>
      /\ mu = v /\ sensorId[v] \in Sensor
  BY DEF TakeBaseline, ValveInv, ValveTypeOK
<1>3. /\ HumidityOf(r) \in Humidity
      /\ r # OFFLINE => sensorId[v] \in Opened /\ HumidityOf(r) = humidity[sensorId[v]]
  BY <1>2, OutcomeTypes DEF ValveInv
<1>4. /\ SensorTypeOK' /\ \A u \in Asker : mu' # u
      /\ unread' = unread \/ \E s : unread' = [t \in Reader |-> unread[t] \ {s}]
  BY <1>1, <1>2, AnswerKeeps
<1>5. ValveTypeOK'
  BY <1>1, <1>2, <1>3, <1>4 DEF ValveInv, ValveTypeOK, VerifyLabel
<1>6. UnreadInv' /\ ListIsFresh'
  BY <1>1, <1>4, ListsKept DEF SensorAnswers
<1>7. BaselineInv' /\ VerifiedMeansOpen'
  <2>1. humidity' = humidity /\ \A x \in Opened : humidity[x] \in Nat
    BY <1>1 DEF SensorAnswers, ValveInv, ValveTypeOK, SensorTypeOK, Humidity
  <2> QED BY <1>1, <1>2, <1>3, <2>1 DEF ValveInv, ValveTypeOK, BaselineInv, VerifiedMeansOpen
<1> QED BY <1>5, <1>6, <1>7 DEF ValveInv

\* A rise since a baseline that was read means that the valve has been open.
LEMMA CheckKeeps ==
  ASSUME ValveInv, NEW v \in Asker, CheckSucceeds(v) \/ CheckAgain(v) PROVE ValveInv'
<1> USE DEF VerifyAt, VerifyGoto
<1>1. PICK r \in Outcomes(sensorId[v]) :
        /\ SensorAnswers(v, r)
        /\ \/ /\ Verified(v, r) /\ verifyPc' = [verifyPc EXCEPT ![v] = "returned"]
              /\ report' = [report EXCEPT ![v].isSuccess = TRUE] /\ UNCHANGED checks
           \/ /\ checks' = [checks EXCEPT ![v] = @ + 1] /\ UNCHANGED report
              /\ verifyPc' = [verifyPc EXCEPT ![v] = "loop"]
  BY DEF CheckSucceeds, CheckAgain
<1>2. /\ verifyPc[v] = "check"
      /\ UNCHANGED <<valve, sensorId, initial, baselineRead, wasOpen>>
      /\ mu = v /\ sensorId[v] \in Sensor
      /\ checks[v] \in 0 .. MaxChecks /\ checks[v] + 1 \in 0 .. MaxChecks
      /\ report[v] \in Report
  BY DEF CheckSucceeds, CheckAgain, ValveInv, ValveTypeOK, BaselineInv
<1>3. /\ SensorTypeOK' /\ \A u \in Asker : mu' # u
      /\ unread' = unread \/ \E s : unread' = [t \in Reader |-> unread[t] \ {s}]
  BY <1>1, <1>2, AnswerKeeps
<1>4. ValveTypeOK'
  <2>1. report' \in [Asker -> Report]
    <3>1. [report EXCEPT ![v].isSuccess = TRUE] \in [Asker -> Report]
      BY ReportTypes DEF ValveInv
    <3> QED BY <1>1, <3>1 DEF ValveInv, ValveTypeOK
  <2> QED BY <1>1, <1>2, <1>3, <2>1 DEF ValveInv, ValveTypeOK, VerifyLabel
<1>5. UnreadInv' /\ ListIsFresh'
  BY <1>1, <1>3, ListsKept DEF SensorAnswers
<1>6. Verified(v, r) /\ baselineRead[v] => wasOpen[v]
  <2> SUFFICES ASSUME Verified(v, r), baselineRead[v], ~wasOpen[v] PROVE FALSE
    BY DEF ValveInv, ValveTypeOK
  <2>1. humidity[sensorId[v]] <= initial[v] /\ sensorId[v] \in Opened
    BY <1>2 DEF ValveInv, BaselineInv
  <2>2. initial[v] \in Nat /\ humidity[sensorId[v]] \in Nat
    BY <2>1 DEF ValveInv, ValveTypeOK, SensorTypeOK, Humidity
  <2>3. HumidityOf(r) = humidity[sensorId[v]] \/ HumidityOf(r) = 0
    BY <1>2, OutcomeTypes DEF ValveInv
  <2> QED BY <2>1, <2>2, <2>3 DEF Verified
<1>7. BaselineInv' /\ VerifiedMeansOpen'
  <2>1. humidity' = humidity
    BY <1>1 DEF SensorAnswers
  <2> QED BY <1>1, <1>2, <1>6, <2>1 DEF ValveInv, ValveTypeOK, BaselineInv, VerifiedMeansOpen, Report
<1> QED BY <1>4, <1>5, <1>7 DEF ValveInv

\* The verification is over without a verdict, or its report is taken.
LEMMA EndKeeps ==
  ASSUME ValveInv, NEW v \in Asker, TimeIsUp(v) \/ TakePicture(v) \/ ReportPublished(v)
  PROVE  ValveInv'
<1> USE DEF VerifyAt, VerifyGoto
<1>1. UNCHANGED sensorVars
  BY DEF TimeIsUp, TakePicture, ReportPublished
<1>2. UnreadInv' /\ ListIsFresh'
  BY <1>1, ListsKept DEF sensorVars
<1>3. CASE TimeIsUp(v) \/ TakePicture(v)
  <2>1. /\ report' \in [Asker -> Report]
        /\ \A u \in Asker : report'[u].isSuccess = report[u].isSuccess
    <3>1. CASE TimeIsUp(v)
      <4>1. report' = [report EXCEPT ![v].integrity = FALSE]
        BY <3>1 DEF TimeIsUp
      <4>2. report' \in [Asker -> Report]
        BY <4>1, ReportTypes DEF ValveInv
      <4> QED BY <4>1, <4>2 DEF ValveInv, ValveTypeOK, Report
    <3>2. CASE TakePicture(v)
      <4>1. PICK ok \in BOOLEAN : report' = [report EXCEPT ![v].picture = ok]
        BY <3>2 DEF TakePicture
      <4>2. report' \in [Asker -> Report]
        BY <4>1, ReportTypes DEF ValveInv
      <4> QED BY <4>1, <4>2 DEF ValveInv, ValveTypeOK, Report
    <3> QED BY <1>3, <3>1, <3>2
  <2>2. /\ verifyPc[v] \in {"loop", "picture"} /\ verifyPc \in [Asker -> VerifyLabel]
        /\ \/ verifyPc' = [verifyPc EXCEPT ![v] = "picture"]
           \/ verifyPc' = [verifyPc EXCEPT ![v] = "returned"]
        /\ UNCHANGED <<sensorVars, valve, sensorId, initial, checks, baselineRead, wasOpen>>
    BY <1>3 DEF TimeIsUp, TakePicture, ValveInv, ValveTypeOK
  <2>3. ValveTypeOK'
    BY <1>3, <2>1, <2>2 DEF ValveInv, ValveTypeOK, SensorTypeOK, sensorVars, VerifyLabel
  <2>4. BaselineInv' /\ VerifiedMeansOpen'
    BY <2>1, <2>2 DEF ValveInv, BaselineInv, VerifiedMeansOpen, sensorVars
  <2> QED BY <1>2, <2>3, <2>4 DEF ValveInv
<1>5. CASE ReportPublished(v)
  BY <1>2, <1>5 DEF ReportPublished, ValveInv, ValveTypeOK, SensorTypeOK, sensorVars,
     VerifyLabel, Report, NoReport, Humidity, BaselineInv, VerifiedMeansOpen
<1> QED BY <1>3, <1>5

-----------------------------------------------------------------------------
(* Sensors and valves: the theorems.                                       *)

\* Every step keeps the invariant.
LEMMA ValveInvStep == ValveInv /\ [ValveNext]_valveVars => ValveInv'
<1> SUFFICES ASSUME ValveInv, [ValveNext]_valveVars PROVE ValveInv'
  OBVIOUS
<1>1. CASE UNCHANGED valveVars
  BY <1>1 DEF valveVars, sensorVars, verifyVars, ValveInv, ValveTypeOK, SensorTypeOK, UnreadInv,
     ListIsFresh, SensorAt, BaselineInv, VerifiedMeansOpen
<1>2. CASE ValveNext
  BY <1>2, SensorStepKeeps, HumidityKeeps, OtherCommandKeeps, OperateKeeps, AskingKeeps,
     TakeBaselineKeeps, CheckKeeps, EndKeeps DEF ValveNext, Verifying
<1> QED BY <1>1, <1>2

LEMMA ValveInvariant == ValveSpec => []ValveInv
BY ValveInvInit, ValveInvStep, PTL DEF ValveSpec

\* The types, and that a sensor is read by the one thread that holds mu_.
THEOREM ValveTypeCorrect == ValveSpec => []ValveTypeOK
<1>1. ValveInv => ValveTypeOK
  BY DEF ValveInv
<1> QED BY <1>1, ValveInvariant, PTL

\* Every entry that getAllSensorData lists was read after the call began.
THEOREM ListCorrect == ValveSpec => []ListIsFresh
<1>1. ValveInv => ListIsFresh
  BY DEF ValveInv
<1> QED BY <1>1, ValveInvariant, PTL

\* A command counts as verified only if the valve was open at some time since its
\* baseline was read.
THEOREM VerifiedCorrect == ValveSpec => []VerifiedMeansOpen
<1>1. ValveInv => VerifiedMeansOpen
  BY DEF ValveInv
<1> QED BY <1>1, ValveInvariant, PTL

-----------------------------------------------------------------------------
(* The camera: minutes.                                                    *)

USE CameraAssumption

LEMMA MinuteType == \A t \in Clock : Minute(t) \in Nat
BY DEF Clock, Minute

LEMMA MinuteMonotone == \A t, u \in Clock : t <= u => Minute(t) <= Minute(u)
<1>1. ASSUME NEW k \in Nat \ {0}, NEW t \in Int, NEW u \in Int, t <= u PROVE t \div k <= u \div k
  BY <1>1
<1> QED BY <1>1 DEF Clock, Minute

\* A segment is not shorter than a minute.
LEMMA MinuteOver == \A t, u \in Clock : u - t >= SegmentTicks => Minute(t) < Minute(u)
<1>1. ASSUME NEW k \in Nat \ {0}, NEW t \in Int, NEW u \in Int, t + k <= u
      PROVE  t \div k < u \div k
  BY <1>1
<1> QED BY <1>1 DEF Clock, Minute

\* A set of minutes that are bounded has a latest one.
LEMMA Latest ==
  ASSUME NEW b \in Nat, NEW S \in SUBSET (0 .. b), S # {}
  PROVE  Max(S) \in S /\ \A x \in S : Max(S) >= x
<1> DEFINE T == {b - x : x \in S}
<1>1. T \subseteq Nat /\ T # {}
  <2>1. PICK x \in S : TRUE
    OBVIOUS
  <2>2. b - x \in T
    BY <2>1, Zenon
  <2>3. \A y \in S : b - y \in Nat
    OBVIOUS
  <2> QED BY <2>2, <2>3
<1>2. PICK y \in T : \A z \in T : <<z, y>> \notin OpToRel(<, Nat)
  BY <1>1, NatLessThanWellFounded, WFMin
<1>3. \A z \in T : ~ (z < y)
  BY <1>1, <1>2 DEF OpToRel
<1>4. PICK x \in S : y = b - x
  BY <1>2
<1>5. ASSUME NEW z \in S PROVE x >= z
  <2>1. b - z \in T
    BY Zenon
  <2>2. ~ (b - z < b - x)
    BY <1>3, <1>4, <2>1, Zenon
  <2>3. z \in Int /\ x \in Int
    <3> HIDE DEF T
    <3> QED BY SMT
  <2> QED
    <3> HIDE DEF T
    <3> QED BY <2>2, <2>3
<1> QED BY <1>4, <1>5 DEF Max

-----------------------------------------------------------------------------
(* The camera: the inductive invariant.                                    *)

Writing == {"loop", "read", "decode"}

\* Nothing is later than now.
ClockInv ==
    /\ named <= now /\ lastStart <= now /\ base <= now
    /\ \A m \in DOMAIN files : files[m].begun <= files[m].last /\ files[m].last <= now

\* The timestamps of a segment count from its first packet.
SpanInv ==
    /\ span.first = base
    /\ span.last # NoTime => base # NoTime
    /\ SegmentTimes

\* A segment was closed when the next one was named.
FileOrder ==
    \A m, n \in DOMAIN files : m < n => files[m].last <= files[n].begun

\* How the name of the present segment, or of the next, relates to the earlier ones.
NameInv ==
    /\ named # NoTime <=> camPc \in Writing \cup {"init"}
    /\ camPc \in {"none", "open"} => DOMAIN files = {}
    /\ camPc \in {"sweep", "name"} => \A m \in DOMAIN files : m < Minute(now)
    /\ camPc = "init" => \A m \in DOMAIN files : m < Minute(named) /\ files[m].last <= named
    /\ camPc \in Writing =>
          /\ named <= lastStart
          /\ \A m \in DOMAIN files : IF m = Minute(named) THEN files[m].begun = named
                                     ELSE m < Minute(named) /\ files[m].last <= named

CamInv == CamTypeOK /\ ClockInv /\ SpanInv /\ FileOrder /\ NameInv

LEMMA CamInvInit == CamInit => CamInv
<1> SUFFICES ASSUME CamInit PROVE CamInv
  OBVIOUS
<1>1. DOMAIN files = {} /\ 0 \in Clock
  BY DEF CamInit, Clock
<1>2. CamTypeOK
  BY <1>1 DEF CamInit, CamTypeOK, NoSpan, CamLabel
<1>3. ClockInv /\ SpanInv /\ FileOrder /\ NameInv
  BY <1>1 DEF CamInit, ClockInv, SpanInv, SegmentTimes, FileOrder, NameInv, Writing, NoTime, NoSpan
<1> QED BY <1>2, <1>3 DEF CamInv

\* What the file system holds after a write, a creation and a removal.
LEMMA TouchedFiles ==
  ASSUME CamInv, NEW m
  PROVE  /\ DOMAIN Touched(m) = DOMAIN files
         /\ \A n \in DOMAIN files :
              /\ Touched(m)[n] \in [begun : Clock, last : Clock]
              /\ Touched(m)[n].begun = files[n].begun
              /\ Touched(m)[n].last = IF n = m THEN now ELSE files[n].last
BY DEF CamInv, CamTypeOK, Touched

LEMMA CreatedFiles ==
  ASSUME CamInv, named \in Clock
  PROVE  /\ DOMAIN Created = DOMAIN files \cup {Minute(named)}
         /\ Created[Minute(named)] = [begun |-> named, last |-> now]
         /\ \A n \in DOMAIN files : n # Minute(named) => Created[n] = files[n]
BY DEF Created

LEMMA WithoutFiles ==
  ASSUME NEW S
  PROVE  /\ DOMAIN Without(S) = DOMAIN files \ S
         /\ \A n \in DOMAIN files \ S : Without(S)[n] = files[n]
BY DEF Without

-----------------------------------------------------------------------------
(* The camera: the steps.                                                  *)

\* Time goes on.
LEMMA TickKeeps == CamInv /\ Tick => CamInv'
<1> SUFFICES ASSUME CamInv, Tick PROVE CamInv'
  OBVIOUS
<1>1. now \in Clock /\ now + 1 \in Clock /\ now' = now + 1
  BY DEF CamInv, CamTypeOK, Tick, Clock
<1>2. Minute(now) <= Minute(now') /\ Minute(now) \in Nat /\ Minute(now') \in Nat
  BY <1>1, MinuteMonotone, MinuteType DEF Clock
<1>3. CamTypeOK'
  BY <1>1 DEF CamInv, CamTypeOK, Tick, threadVars, diskVars, timeVars
<1>4. ClockInv' /\ SpanInv' /\ FileOrder'
  BY <1>1 DEF CamInv, CamTypeOK, ClockInv, SpanInv, SegmentTimes, FileOrder, Tick, threadVars,
     diskVars, timeVars, Clock, NoTime
<1>5. \A m \in DOMAIN files : m \in Nat
  BY MinuteType DEF CamInv, CamTypeOK
<1>6. NameInv'
  BY <1>1, <1>2, <1>5 DEF CamInv, NameInv, Tick, threadVars, diskVars, timeVars
<1> QED BY <1>3, <1>4, <1>6 DEF CamInv

\* The thread moves without a file or a segment being touched.
LEMMA MovesKeep ==
  ASSUME CamInv, \/ StartCamera \/ OpenStream \/ OpenFails \/ NameThrows \/ AwaitPacket \/ ReadFails
                 \/ DecodeKeyFrame \/ CleanDangling
  PROVE  CamInv'
<1> USE DEF CamAt, Ends, First, threadVars, diskVars, timeVars
<1>1. CamTypeOK'
  <2> USE DEF CamInv, CamTypeOK, CamLabel
  <2>1. CASE StartCamera \/ OpenStream \/ OpenFails
    BY <2>1 DEF StartCamera, OpenStream, OpenFails
  <2>2. CASE NameThrows \/ AwaitPacket \/ ReadFails
    BY <2>2 DEF NameThrows, AwaitPacket, ReadFails
  <2>3. CASE DecodeKeyFrame \/ CleanDangling
    BY <2>3 DEF DecodeKeyFrame, CleanDangling
  <2> QED BY <2>1, <2>2, <2>3
<1>2. ClockInv' /\ SpanInv' /\ FileOrder'
  BY DEF StartCamera, OpenStream, OpenFails, NameThrows, AwaitPacket, ReadFails, DecodeKeyFrame,
     CleanDangling, CamInv, CamTypeOK, ClockInv, SpanInv, SegmentTimes, FileOrder, Clock, NoTime
<1>3. NameInv'
  BY DEF StartCamera, OpenStream, OpenFails, NameThrows, AwaitPacket, ReadFails, DecodeKeyFrame,
     CleanDangling, CamInv, CamTypeOK, NameInv, Writing
<1> QED BY <1>1, <1>2, <1>3 DEF CamInv

\* The name is of this minute, and every file of an earlier one.
LEMMA NameSegmentKeeps == CamInv /\ NameSegment => CamInv'
<1> SUFFICES ASSUME CamInv, NameSegment PROVE CamInv'
  OBVIOUS
<1> USE DEF NameSegment, CamAt, threadVars, timeVars
<1>1. CamTypeOK'
  BY DEF CamInv, CamTypeOK, CamLabel
<1>2. ClockInv' /\ SpanInv' /\ FileOrder'
  BY DEF CamInv, CamTypeOK, ClockInv, SpanInv, SegmentTimes, FileOrder, Clock, NoTime
<1>3. NameInv'
  BY DEF CamInv, CamTypeOK, NameInv, ClockInv, Writing, Clock, NoTime
<1> QED BY <1>1, <1>2, <1>3 DEF CamInv

\* A file of the name is created; there was none.
LEMMA CreationKeeps ==
  ASSUME CamInv, InitSegment \/ InitFails
  PROVE  CamInv' /\ \A m \in DOMAIN files : m \in DOMAIN files' /\ files'[m] = files[m]
<1> USE DEF CamAt, Ends, First, timeVars
<1>1. /\ camPc = "init" /\ named \in Clock /\ named <= now /\ now \in Clock
      /\ \A m \in DOMAIN files : /\ m < Minute(named) /\ files[m].last <= named
                                 /\ files[m] \in [begun : Clock, last : Clock]
                                 /\ m \in Nat
      /\ Minute(named) \in Nat
  BY MinuteType DEF InitSegment, InitFails, CamInv, CamTypeOK, ClockInv, NameInv, Writing
<1>2. /\ UNCHANGED <<now, dirs>>
      /\ \/ UNCHANGED files
         \/ files' = Created /\ Day(Minute(named)) \in dirs
  BY DEF InitSegment, InitFails
<1>3. /\ \A m \in DOMAIN files : m \in DOMAIN files' /\ files'[m] = files[m]
      /\ \A m \in DOMAIN files' : m \in DOMAIN files \/ /\ m = Minute(named)
                                                        /\ files'[m] = [begun |-> named, last |-> now]
                                                        /\ Day(m) \in dirs
  BY <1>1, <1>2, CreatedFiles
<1>4. /\ DOMAIN files' \subseteq {Minute(t) : t \in Clock}
      /\ \A m \in DOMAIN files' : /\ files'[m] \in [begun : Clock, last : Clock]
                                  /\ Minute(files'[m].begun) = m /\ Day(m) \in dirs'
                                  /\ files'[m].begun <= files'[m].last /\ files'[m].last <= now
  <2>1. DOMAIN files' \subseteq {Minute(t) : t \in Clock}
    BY <1>1, <1>3 DEF CamInv, CamTypeOK
  <2>2. ASSUME NEW m \in DOMAIN files', m \in DOMAIN files
        PROVE  /\ files'[m] \in [begun : Clock, last : Clock]
               /\ Minute(files'[m].begun) = m /\ Day(m) \in dirs'
               /\ files'[m].begun <= files'[m].last /\ files'[m].last <= now
    BY <1>2, <1>3, <2>2 DEF CamInv, CamTypeOK, ClockInv
  <2>3. ASSUME NEW m \in DOMAIN files', m \notin DOMAIN files
        PROVE  /\ files'[m] \in [begun : Clock, last : Clock]
               /\ Minute(files'[m].begun) = m /\ Day(m) \in dirs'
               /\ files'[m].begun <= files'[m].last /\ files'[m].last <= now
    <3>1. m = Minute(named) /\ files'[m] = [begun |-> named, last |-> now] /\ Day(m) \in dirs
      BY <1>3, <2>3
    <3> QED BY <1>1, <1>2, <3>1 DEF Clock
  <2> QED BY <2>1, <2>2, <2>3
<1>5. FileOrder'
  BY <1>1, <1>3 DEF CamInv, FileOrder
<1>6. CASE InitSegment
  <2>1. CamTypeOK'
    <3>1. /\ camPc' = "loop" /\ lastStart' = now /\ base' = NoTime /\ span' = NoSpan
          /\ cleaner' = "running"
          /\ UNCHANGED <<now, named, alive, isRunning, online, picture, dirs>>
      BY <1>6 DEF InitSegment
    <3>2. named' # NoTime /\ NoSpan \in [first : Clock \cup {NoTime}, last : Clock \cup {NoTime},
                                         stamp : Clock \cup {NoTime}]
      BY <1>1, <3>1 DEF Clock, NoTime, NoSpan
    <3> QED BY <1>1, <1>4, <3>1, <3>2 DEF CamInv, CamTypeOK, CamLabel
  <2>2. ClockInv' /\ SpanInv'
    BY <1>1, <1>4, <1>6 DEF InitSegment, ClockInv, SpanInv, SegmentTimes, NoSpan, NoTime, Clock
  <2>3. NameInv'
    BY <1>1, <1>3, <1>6 DEF InitSegment, NameInv, Writing, NoTime, Clock
  <2> QED BY <1>3, <1>5, <2>1, <2>2, <2>3 DEF CamInv
<1>7. CASE InitFails
  <2>1. CamTypeOK'
    BY <1>1, <1>4, <1>7 DEF InitFails, CamInv, CamTypeOK, CamLabel, NoTime
  <2>2. ClockInv' /\ SpanInv'
    BY <1>1, <1>4, <1>7 DEF InitFails, CamInv, ClockInv, SpanInv, SegmentTimes, NoTime, Clock
  <2>3. NameInv'
    BY <1>1, <1>7 DEF InitFails, NameInv, Writing
  <2> QED BY <1>3, <1>5, <2>1, <2>2, <2>3 DEF CamInv
<1> QED BY <1>6, <1>7

\* A write touches the file of the present segment and no other.
LEMMA WriteKeeps ==
  ASSUME CamInv, camPc \in Writing, files' = Touched(Minute(named)), UNCHANGED <<now, dirs>>
  PROVE  /\ DOMAIN files' = DOMAIN files
         /\ \A m \in DOMAIN files :
               /\ files'[m] \in [begun : Clock, last : Clock]
               /\ files'[m].begun = files[m].begun
               /\ files'[m].begun <= files'[m].last /\ files'[m].last <= now
               /\ m # Minute(named) => files'[m].last = files[m].last
         /\ FileOrder'
<1>1. /\ DOMAIN files' = DOMAIN files
      /\ \A m \in DOMAIN files :
            /\ files'[m] \in [begun : Clock, last : Clock]
            /\ files'[m].begun = files[m].begun
            /\ files'[m].last = IF m = Minute(named) THEN now ELSE files[m].last
            /\ files[m] \in [begun : Clock, last : Clock] /\ m \in Nat
            /\ files[m].begun <= files[m].last /\ files[m].last <= now
  BY TouchedFiles, MinuteType DEF CamInv, CamTypeOK, ClockInv
<1>2. now \in Nat /\ named \in Nat /\ Minute(named) \in Nat
  BY MinuteType DEF CamInv, CamTypeOK, Clock, NoTime, NameInv
<1>3. \A m \in DOMAIN files : files'[m].begun <= files'[m].last /\ files'[m].last <= now
  BY <1>1, <1>2 DEF Clock
<1>4. FileOrder'
  BY <1>1, <1>2 DEF CamInv, FileOrder, NameInv
<1> QED BY <1>1, <1>3, <1>4

\* A segment is closed when another minute has begun.
LEMMA CloseSegmentKeeps == CamInv /\ CloseSegment => CamInv'
<1> SUFFICES ASSUME CamInv, CloseSegment PROVE CamInv'
  OBVIOUS
<1> USE DEF CloseSegment, CamAt, threadVars, timeVars
<1>1. /\ camPc \in Writing /\ UNCHANGED <<now, dirs>> /\ named \in Clock /\ lastStart \in Clock
      /\ now \in Clock /\ named <= lastStart /\ now - lastStart >= SegmentTicks
  BY DEF Writing, needNewSegment, CamInv, CamTypeOK, NameInv
<1>2. Minute(named) < Minute(now) /\ Minute(named) \in Nat /\ Minute(now) \in Nat
  BY <1>1, MinuteMonotone, MinuteOver, MinuteType
<1>3. CamTypeOK'
  BY <1>1, WriteKeeps DEF CamInv, CamTypeOK, CamLabel
<1>4. ClockInv' /\ SpanInv' /\ FileOrder'
  BY <1>1, WriteKeeps DEF CamInv, ClockInv, SpanInv, SegmentTimes, Clock, NoTime
<1>5. \A m \in DOMAIN files : m \in Nat /\ m <= Minute(named)
  BY <1>1, <1>2, MinuteType DEF CamInv, CamTypeOK, NameInv
<1>6. NameInv'
  BY <1>1, <1>2, <1>5, WriteKeeps DEF NameInv, Writing
<1> QED BY <1>3, <1>4, <1>6 DEF CamInv

\* A packet is written with its distance from the segment's first one.
LEMMA RecordPacketKeeps == CamInv /\ RecordPacket => CamInv'
<1> SUFFICES ASSUME CamInv, RecordPacket PROVE CamInv'
  OBVIOUS
<1> USE DEF RecordPacket, CamAt, threadVars
<1>1. /\ camPc \in Writing /\ camPc' \in Writing /\ camPc' \in CamLabel
      /\ UNCHANGED <<now, dirs, lastStart, named>> /\ now \in Nat
  BY DEF Writing, CamLabel, CamInv, CamTypeOK, Clock
<1>2. files' = files \/ files' = Touched(Minute(named))
  OBVIOUS
<1>3. /\ DOMAIN files' = DOMAIN files
      /\ \A m \in DOMAIN files :
            /\ files'[m] \in [begun : Clock, last : Clock]
            /\ files'[m].begun = files[m].begun
            /\ files'[m].begun <= files'[m].last /\ files'[m].last <= now
            /\ m # Minute(named) => files'[m].last = files[m].last
      /\ FileOrder'
  BY <1>1, <1>2, WriteKeeps DEF CamInv, CamTypeOK, ClockInv, FileOrder
<1>4. /\ span' \in [first : Clock \cup {NoTime}, last : Clock \cup {NoTime}, stamp : Clock \cup {NoTime}]
      /\ base' \in Clock \cup {NoTime} /\ base' <= now
      /\ SpanInv'
  <2>1. /\ base \in Clock \cup {NoTime} /\ base <= now /\ now \in Clock
        /\ span \in [first : Clock \cup {NoTime}, last : Clock \cup {NoTime}, stamp : Clock \cup {NoTime}]
        /\ span.first = base
        /\ span.last # NoTime => base # NoTime /\ span.stamp = span.last - base
    BY DEF CamInv, CamTypeOK, ClockInv, SpanInv, SegmentTimes
  <2>2. PICK t \in {now, NoTime}, written \in BOOLEAN :
          /\ base' = IF base = NoTime THEN t ELSE base
          /\ LET begun == [span EXCEPT !.first = IF @ = NoTime THEN t ELSE @]
             IN  span' = IF written /\ t # NoTime
                         THEN [begun EXCEPT !.last = t, !.stamp = Adjusted(t)]
                         ELSE begun
    OBVIOUS
  <2>3. /\ span'.first = base' /\ base' \in Clock \cup {NoTime} /\ base' <= now
        /\ base # NoTime => base' = base
    BY <2>1, <2>2 DEF Clock, NoTime
  <2>4. CASE written /\ t # NoTime
    <3>1. t = now /\ base' # NoTime /\ Adjusted(t) = t - base' /\ Adjusted(t) \in Clock
      BY <2>1, <2>2, <2>3, <2>4 DEF Adjusted, Clock, NoTime
    <3>2. span'.last = t /\ span'.stamp = t - base'
      BY <2>1, <2>2, <2>4, <3>1
    <3>3. span' \in [first : Clock \cup {NoTime}, last : Clock \cup {NoTime}, stamp : Clock \cup {NoTime}]
      BY <2>1, <2>2, <2>4, <3>1
    <3> QED BY <2>3, <3>1, <3>2, <3>3 DEF SpanInv, SegmentTimes
  <2>5. CASE ~(written /\ t # NoTime)
    <3>1. span'.last = span.last /\ span'.stamp = span.stamp
      BY <2>1, <2>2, <2>5
    <3>2. span' \in [first : Clock \cup {NoTime}, last : Clock \cup {NoTime}, stamp : Clock \cup {NoTime}]
      BY <2>1, <2>2, <2>5
    <3> QED BY <2>1, <2>3, <3>1, <3>2 DEF SpanInv, SegmentTimes
  <2> QED BY <2>4, <2>5
<1>5. CamTypeOK'
  BY <1>1, <1>3, <1>4 DEF CamInv, CamTypeOK, Writing
<1>6. ClockInv'
  BY <1>1, <1>3, <1>4 DEF CamInv, ClockInv
<1>7. NameInv'
  BY <1>1, <1>3 DEF CamInv, NameInv, Writing
<1> QED BY <1>3, <1>4, <1>5, <1>6, <1>7 DEF CamInv

\* Whatever is removed: what is left was there, with a directory to be in.
LEMMA RemovalKeeps ==
  ASSUME CamInv, Sweep \/ (\E m \in DOMAIN files : CleanFile(m)) \/ (\E d \in dirs : CleanDirectory(d))
  PROVE  CamInv'
<1> USE DEF CamAt, threadVars, timeVars
<1>1. /\ UNCHANGED <<now, named, lastStart, base, span, alive, isRunning, online, picture, cleaner>>
      /\ camPc' = camPc \/ (camPc = "sweep" /\ camPc' = "name")
      /\ dirs' \subseteq dirs
  BY DEF Sweep, CleanFile, CleanDirectory
<1>2. /\ DOMAIN files' \subseteq DOMAIN files
      /\ \A m \in DOMAIN files' : files'[m] = files[m] /\ Day(m) \in dirs'
  <2>1. CASE Sweep
    <3>1. PICK removed \in SUBSET dirs :
            /\ dirs' = dirs \ removed
            /\ files' = Without({m \in DOMAIN files : Day(m) \in removed})
      BY <2>1 DEF Sweep
    <3>2. /\ DOMAIN files' = DOMAIN files \ {m \in DOMAIN files : Day(m) \in removed}
          /\ \A m \in DOMAIN files' : files'[m] = files[m]
      BY <3>1, WithoutFiles
    <3> QED BY <3>1, <3>2 DEF CamInv, CamTypeOK
  <2>2. ASSUME NEW m \in DOMAIN files, CleanFile(m)
        PROVE  /\ DOMAIN files' \subseteq DOMAIN files
               /\ \A n \in DOMAIN files' : files'[n] = files[n] /\ Day(n) \in dirs'
    BY <2>2, WithoutFiles DEF CleanFile, CamInv, CamTypeOK
  <2>3. ASSUME NEW d \in dirs, CleanDirectory(d)
        PROVE  /\ DOMAIN files' \subseteq DOMAIN files
               /\ \A n \in DOMAIN files' : files'[n] = files[n] /\ Day(n) \in dirs'
    BY <2>3 DEF CleanDirectory, CamInv, CamTypeOK
  <2> QED BY <2>1, <2>2, <2>3
<1>3. CamTypeOK'
  BY <1>1, <1>2 DEF CamInv, CamTypeOK, CamLabel
<1>4. ClockInv' /\ SpanInv' /\ FileOrder'
  BY <1>1, <1>2 DEF CamInv, ClockInv, SpanInv, SegmentTimes, FileOrder
<1>5. NameInv'
  BY <1>1, <1>2 DEF CamInv, NameInv, Writing
<1> QED BY <1>3, <1>4, <1>5 DEF CamInv

\* Every step keeps the invariant.
LEMMA CamInvStep == CamInv /\ [CamNext]_camVars => CamInv'
<1> SUFFICES ASSUME CamInv, [CamNext]_camVars PROVE CamInv'
  OBVIOUS
<1>1. CASE UNCHANGED camVars
  BY <1>1 DEF camVars, CamInv, CamTypeOK, ClockInv, SpanInv, SegmentTimes, FileOrder, NameInv
<1>2. CASE CamNext
  BY <1>2, TickKeeps, MovesKeep, NameSegmentKeeps, CreationKeeps, CloseSegmentKeeps,
     RecordPacketKeeps, RemovalKeeps DEF CamNext, Capturing, Cleaning
<1> QED BY <1>1, <1>2

LEMMA CamInvariant == CamSpec => []CamInv
BY CamInvInit, CamInvStep, PTL DEF CamSpec

-----------------------------------------------------------------------------
(* The camera: the theorems.                                               *)

\* The types, and that every file is in the directory of its day.
THEOREM CamTypeCorrect == CamSpec => []CamTypeOK
<1>1. CamInv => CamTypeOK
  BY DEF CamInv
<1> QED BY <1>1, CamInvariant, PTL

\* Every segment's time starts from 0 with its own first packet.
THEOREM SegmentTimesCorrect == CamSpec => []SegmentTimes
<1>1. CamInv => SegmentTimes
  BY DEF CamInv, SpanInv
<1> QED BY <1>1, CamInvariant, PTL

\* No segment is opened over an earlier one, for a segment lasts a minute or longer.
THEOREM NoOverwriteCorrect == CamSpec => NoSegmentOverwritten
<1>1. CamInv /\ [CamNext]_camVars =>
         [\A m \in DOMAIN files \cap DOMAIN files' : files'[m].begun = files[m].begun]_camVars
  <2> SUFFICES ASSUME CamInv, CamNext, NEW m \in DOMAIN files \cap DOMAIN files'
               PROVE  files'[m].begun = files[m].begun
    OBVIOUS
  <2> USE DEF diskVars, threadVars, timeVars
  <2>1. CASE UNCHANGED files
    BY <2>1
  <2>2. CASE InitSegment \/ InitFails
    BY <2>2, CreationKeeps
  <2>3. CASE CloseSegment \/ RecordPacket
    BY <2>3, TouchedFiles DEF CloseSegment, RecordPacket
  <2>4. CASE Sweep \/ \E n \in DOMAIN files : CleanFile(n)
    <3>1. PICK S : files' = Without(S)
      BY <2>4 DEF Sweep, CleanFile
    <3> QED BY <3>1, WithoutFiles
  <2> QED
    BY <2>1, <2>2, <2>3, <2>4 DEF CamNext, Tick, StartCamera, Capturing, Cleaning, OpenStream,
       OpenFails, NameSegment, NameThrows, AwaitPacket, ReadFails, DecodeKeyFrame,
       CleanDirectory, CleanDangling
<1> QED BY <1>1, CamInvariant, PTL DEF CamSpec, NoSegmentOverwritten

\* If a file that was begun on the day has footage of the minute asked for, findVideoUrl
\* gives such a file.
THEOREM PlaybackCorrect == CamSpec => []Playback
<1>1. CamInv => Playback
  <2> SUFFICES ASSUME CamInv, NEW target \in 0 .. Minute(now), NEW m \in DOMAIN files,
                      Day(m) = Day(target), Records(m, target)
               PROVE  Records(FindVideo(target), target)
    BY DEF Playback
  <2> DEFINE candidates == {n \in DOMAIN files : Day(n) = Day(target) /\ n <= target}
             End(n) == IF named = files[n].begun THEN now ELSE files[n].last
  <2>1. /\ now \in Clock /\ Minute(now) \in Nat /\ target \in Nat
        /\ \A n \in DOMAIN files : /\ n \in Nat /\ files[n] \in [begun : Clock, last : Clock]
                                   /\ Minute(files[n].begun) = n
                                   /\ files[n].begun <= files[n].last /\ files[n].last <= now
    BY MinuteType DEF CamInv, CamTypeOK, ClockInv
  <2>2. m <= target /\ target <= Minute(End(m))
    BY DEF Records
  <2>3. candidates \in SUBSET (0 .. target) /\ m \in candidates
    BY <2>1, <2>2
  <2>4. PICK x : x = FindVideo(target)
    OBVIOUS
  <2>5. x \in candidates /\ x >= m
    <3>1. FindVideo(target) = Max(candidates)
      BY <2>3 DEF FindVideo
    <3>2. candidates # {}
      BY <2>3
    <3>3. Max(candidates) \in candidates /\ \A n \in candidates : Max(candidates) >= n
      <4> HIDE DEF candidates
      <4> QED BY <2>1, <2>3, <3>2, Latest
    <3> QED BY <2>3, <2>4, <3>1, <3>3
  <2>6. CASE x = m
    BY <2>4, <2>6
  <2>7. CASE m < x
    <3>1. files[m].last <= files[x].begun
      BY <2>5, <2>7 DEF CamInv, FileOrder
    <3>2. named # files[m].begun
      <4> SUFFICES ASSUME named = files[m].begun PROVE FALSE
        OBVIOUS
      <4>1. Minute(named) = m /\ camPc \in Writing \cup {"init"}
        BY <2>1 DEF CamInv, NameInv, Clock, NoTime
      <4> QED BY <2>1, <2>5, <2>7, <4>1 DEF CamInv, NameInv
    <3>3. target <= x
      <4>1. End(m) = files[m].last /\ files[m].last \in Clock /\ files[x].begun \in Clock
        BY <2>1, <2>5, <3>2
      <4>2. Minute(files[m].last) <= Minute(files[x].begun) /\ Minute(files[x].begun) = x
        BY <2>1, <2>5, <3>1, <4>1, MinuteMonotone
      <4>3. Minute(files[m].last) \in Nat /\ x \in Nat
        BY <2>1, <2>5, <4>1, MinuteType
      <4> QED BY <2>1, <2>2, <4>1, <4>2, <4>3
    <3>4. files[x].begun <= End(x) /\ End(x) \in Clock
      BY <2>1, <2>5 DEF Clock
    <3>5. x <= Minute(End(x))
      BY <2>1, <2>5, <3>4, MinuteMonotone
    <3>6. End(x) \in Clock /\ Minute(End(x)) \in Nat
      BY <3>4, MinuteType
    <3> QED BY <2>1, <2>4, <2>5, <3>3, <3>5, <3>6 DEF Records
  <2> QED BY <2>1, <2>5, <2>6, <2>7
<1> QED BY <1>1, CamInvariant, PTL
=============================================================================
