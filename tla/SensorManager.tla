---------------------------- MODULE SensorManager ----------------------------
(***************************************************************************)
(* src/sensor/sensor_manager.cpp over its sensors: a refresh thread reads  *)
(* every sensor every 5 seconds, getAllSensorData() reads them all and     *)
(* lists the cache, getSensorDataRealTime() reads one.  One mutex, mu_, is *)
(* held while a sensor is read.                                            *)
(*                                                                         *)
(* A reading is a humidity, or OFFLINE when readData() failed, for which   *)
(* the code stores a humidity of 0.  A sensor answers in time or never.    *)
(***************************************************************************)
EXTENDS Integers

CONSTANTS Sensor,       \* the configured sensors
          Opened,       \* those whose port init() could open
          MaxHumidity,  \* in steps that the readings tell apart
          Lister,       \* the threads that call getAllSensorData()
          Asker,        \* the threads that call getSensorDataRealTime()
          Refresher,    \* refreshThread_
          NoThread

ASSUME SensorAssumption ==
    /\ Opened \subseteq Sensor
    /\ MaxHumidity \in Nat
    /\ Lister \cap Asker = {} /\ Refresher \notin Lister \cup Asker
    /\ NoThread \notin Lister \cup Asker \cup {Refresher}

VARIABLES
    humidity,  \* what each sensor measures
    mu,        \* mu_, who holds it
    cache,     \* cache_
    sensorPc,  \* where each thread of refreshAllSensors is
    todo,      \* the ids it has still to refresh
    list       \* the SensorList a thread has been given

VARIABLE unread   \* history: the sensors whose entry is older than the call

sensorVars == <<humidity, mu, cache, sensorPc, todo, list, unread>>

Humidity == 0 .. MaxHumidity
OFFLINE == -1
Reading == Humidity \cup {OFFLINE}
Reader == Lister \cup {Refresher}        \* the threads of refreshAllSensors
NoList == [s \in {} |-> OFFLINE]

\* d.humidity of a reading: an OFFLINE one says 0.
HumidityOf(r) == IF r = OFFLINE THEN 0 ELSE r

SensorTypeOK ==
    /\ humidity \in [Opened -> Humidity]
    /\ mu \in Reader \cup Asker \cup {NoThread}
    /\ cache \in [Sensor -> Reading]
    /\ sensorPc \in [Reader -> {"none", "idle", "refresh", "read", "listed"}]
    /\ todo \in [Reader -> SUBSET Sensor]
    /\ list \in [Reader -> {NoList} \cup [Sensor -> Reading]]
    /\ unread \in [Reader -> SUBSET Sensor]
    /\ \A t \in Reader : sensorPc[t] = "read" <=> mu = t

\* The constructor has filled the cache with what the sensors say before they are
\* read: nothing, or a 0 that counts as a reading (simulated and GPIO sensors).
SensorInit ==
    /\ humidity \in [Opened -> Humidity]
    /\ mu = NoThread
    /\ cache \in [Sensor -> {OFFLINE, 0}]
    /\ sensorPc = [t \in Reader |-> IF t = Refresher THEN "none" ELSE "idle"]
    /\ todo = [t \in Reader |-> {}]
    /\ list = [t \in Reader |-> NoList]
    /\ unread = [t \in Reader |-> {}]

SensorAt(t, label) == sensorPc[t] = label
SensorGoto(t, label) == sensorPc' = [sensorPc EXCEPT ![t] = label]

\* init() opens the port once; a sensor whose port did not open is never tried again.
PortOpen(s) == s \in Opened
\* readData(): ModbusSensor takes any answer of 9 bytes or more for its own.
Outcomes(s) == (IF PortOpen(s) THEN {humidity[s]} ELSE {}) \cup {OFFLINE}

-----------------------------------------------------------------------------
\* The constructor's last lines.
StartRefresher ==
    /\ SensorAt(Refresher, "none")
    /\ SensorGoto(Refresher, "idle")
    /\ UNCHANGED <<humidity, mu, cache, todo, list, unread>>

\* refreshAllSensors, called by refreshLoop or by getAllSensorData: the ids.
CallRefreshAll(t) ==
    /\ SensorAt(t, "idle") /\ mu = NoThread
    /\ todo' = [todo EXCEPT ![t] = Sensor]
    /\ unread' = [unread EXCEPT ![t] = Sensor]
    /\ SensorGoto(t, "refresh")
    /\ UNCHANGED <<humidity, mu, cache, list>>

\* refreshSensor(s): the mutex, then readData sends its request.
RefreshBegins(t) ==
    /\ SensorAt(t, "refresh") /\ todo[t] # {}
    /\ mu = NoThread
    /\ mu' = t
    /\ SensorGoto(t, "read")
    /\ UNCHANGED <<humidity, cache, todo, list, unread>>

\* Mutant of RefreshSensor: a failed reading leaves the entry as it is.
RefreshSensorKeeps(t, s, r) ==
    /\ SensorAt(t, "read")
    /\ s \in todo[t]
    /\ cache' = IF r = OFFLINE THEN cache ELSE [cache EXCEPT ![s] = r]
    /\ unread' = IF r = OFFLINE THEN unread ELSE [u \in Reader |-> unread[u] \ {s}]
    /\ todo' = [todo EXCEPT ![t] = @ \ {s}]
    /\ mu' = NoThread
    /\ SensorGoto(t, "refresh")
    /\ UNCHANGED <<humidity, list>>

\* Its outcome is stored, a failure too.
RefreshSensor(t, s, r) ==
    /\ SensorAt(t, "read")
    /\ s \in todo[t]
    /\ cache' = [cache EXCEPT ![s] = r]
    /\ unread' = [u \in Reader |-> unread[u] \ {s}]
    /\ todo' = [todo EXCEPT ![t] = @ \ {s}]
    /\ mu' = NoThread
    /\ SensorGoto(t, "refresh")
    /\ UNCHANGED <<humidity, list>>

\* refreshLoop goes to sleep again.
RoundEnds ==
    /\ SensorAt(Refresher, "refresh") /\ todo[Refresher] = {}
    /\ SensorGoto(Refresher, "idle")
    /\ unread' = [unread EXCEPT ![Refresher] = {}]
    /\ UNCHANGED <<humidity, mu, cache, todo, list>>

\* getAllSensorData, lines 192-196.
TakeList(t) ==
    /\ t # Refresher
    /\ SensorAt(t, "refresh") /\ todo[t] = {}
    /\ mu = NoThread
    /\ list' = [list EXCEPT ![t] = cache]
    /\ SensorGoto(t, "listed")
    /\ UNCHANGED <<humidity, mu, cache, todo, unread>>

ListReported(t) ==
    /\ SensorAt(t, "listed")
    /\ list' = [list EXCEPT ![t] = NoList]
    /\ unread' = [unread EXCEPT ![t] = {}]
    /\ SensorGoto(t, "idle")
    /\ UNCHANGED <<humidity, mu, cache, todo>>

Refreshing(t) ==
    \/ RefreshBegins(t)
    \/ \E s \in todo[t] : \E r \in Outcomes(s) : RefreshSensor(t, s, r)
    \/ t = Refresher /\ RoundEnds
    \/ TakeList(t)

-----------------------------------------------------------------------------
\* What getAllSensorData lists was read after the call began, from every sensor: a
\* sensor that does not answer any more is listed as OFFLINE and never with the last
\* value it gave (sensor_manager.cpp:140-150, 189-197).
ListIsFresh ==
    \A t \in Reader : SensorAt(t, "listed") => unread[t] = {}
=============================================================================
