# Verification of allin

`allin` is a C++17 program that runs on an edge box. It takes commands from an MQTT broker and
from an HTTP server and carries them out on cars (serial line), PLC valves (Modbus over TCP or a
serial line), cameras and sensors. This directory holds TLA+ models of its core, TLC
configurations that check them on small instances, and TLAPS proofs of the main results for every
value of the constants. All paths below are relative to the repository's root, and all line
numbers refer to the commit that is modelled.

## 1. Inventory

The program is `src/main.cpp`. It builds everything once and then sleeps; nothing is ever torn
down. Threads: the MQTT client's callback thread, one detached thread per HTTP request, the
scheduler's dispatcher, eight pool workers, the PLC refresher, the sensor refresher, two threads
per camera, the AI loop, a status reporter, and an MQTT reconnecting thread when it is needed.

| Part | State | Operations | What makes it hard | What makes it correct |
| --- | --- | --- | --- | --- |
| `JobScheduler` (`src/task/JobScheduler.cpp`) | `readyQueue_`, `taskTable_`, `runningSet_`, `latestCarControlTask_`, `stop_` | `submit`, `getTaskStatus`, the dispatcher, the lambda of the workers, the destructor | two locks, a condition variable, id drawn outside the lock, code outside the `try` block | nothing is lost, doubled or overtaken; only older car commands are skipped; one answer for each task |
| `ThreadPool`, `ThreadSafeQueue` (`include/common/threads`) | job queue, `done` | `submit`, `worker_thread` | sleep without predicate, lost notifications, destructor | every job is taken once, in order, in the end |
| `CarControlManager` (`src/carControl`) | per car: mutex, `cancelSeq`, last status | `operate`, `interrupt`, `getLastStatus` | an interrupt takes no lock; the snapshot is read before the mutex | windows do not overlap; an interrupt stops exactly what it was meant for; the stored status is current |
| Car commands (`mqtt_command_dispatcher.cpp`, `task.cpp`, `WebController.cpp`) | – | `handleOperateCar`, the HTTP route, `CarControlTask::run` | two independent mechanisms (latest command, cancel sequence) meet | the newest command wins, a skipped one never drives |
| `PLCManager` (`src/plc/plc_manager.cpp`) | status cache, connectors | `operate`, `getStatus`, `getAllStatus`, refresher | a query that is in progress when a write takes place | nobody is told a status older than a write that has succeeded |
| PLC connectors (`gateway_tcp_connector.cpp`, `serial_plc_connector.cpp`) | socket or port, transaction id | `connect`, `readRegister`, `writeRegister` | time-outs and late replies, no reconnection | an answer belongs to its request |
| `DeviceManager` (`src/device`) | – | facade over the managers; `operatePlcWithVerify` | a failed sensor reading looks like humidity 0 | a verification succeeds only when the humidity rose |
| Configuration (`src/config/update_config.cpp`, `config_parser.cpp`) | `temp.json`, `config.json` | `updateConfig`, `loadFromFile` | restarts half-way, two updaters with one temporary path | `config.json` is always complete and validated |
| `MqttService`, publishers, `DeviceStatusReporter` | connection, `reconnecting_` | `start`, `connection_lost`, `publish` | a loss while the reconnecting thread is about to finish | the service is connected again in the end |
| Camera (`src/camera`) | status, `isRunning_`, last key frame | `start`, `stop`, capture loop, cleaner | the loop ends in several ways; the cleaner removes files and directories beside it | a segment is never lost to another one |
| `SensorManager`, sensors (`src/sensor`) | readings | `getSensorDataRealTime`, `getAllSensorData`, refresher | refreshing and listing are separate holds of one mutex; a sensor may stop answering | a list is not older than the call |
| Segments and timestamps (`common/timestamp`, `FileUtils`, `find_video_url.h`) | segment start, offsets | `needNewSegment`, `createSegment`, `adjust`, `findVideoUrl` | missing timestamps, names with minutes only, midnight | each segment counts from 0; footage that exists is found |
| `WebService`, `WebController` (`src/http`) | listening socket, `m_running`; one detached thread per connection | `start`, `run`, `handleClient`, `handleHttp`, `handleStaticFile` | requests arrive in pieces, clients leave, files grow and are removed while they are sent, exceptions in a detached thread | the answer fits what was asked, one task at most is submitted, each connection ends |
| AI recognition (`src/ai`, `common/yolo8`) | the model, the list of pictures, buffers | `initialize`, `consumeLoop`, `processFrame`, `inference_yolov8_model`, `post_process` | allocations with early returns, uninitialised results, indices permuted by a hand-written sort | alarms are justified, memory does not run out, detections are the best ones |
| Pictures (`rknn/utils`, `common/imageprocess`) | – | letterboxing, scaling, rectangles, text | edges, rounding to multiples of 2 and 4, two planes of different size | nothing outside the buffer is read or written |
| `Logger` (`common/logger`) | the open file, `currentDate` | `log`, `rotateIfNeeded`, `cleanupOldLogs` | midnight between two lines, one `localtime()` buffer for all threads, a disk that fails without anybody being told | a line that was written is kept for its time; a clean-up that works brings the disk back to its bound |
| `main` (`src/main.cpp`) | – | start of the services, in order | commands arrive before everything is there | each task finds its publisher |
| base64 | – | – | – | not state that commands depend on |

How they interact: the MQTT callback (`MqttCommandDispatcher::onMessage`) and
`WebController::handleHttp` build tasks and call `JobScheduler::submit`. A pool worker runs the
task, which calls `DeviceManager`, which calls `PLCManager`, `CarControlManager`, the cameras, the
sensors or `ConfigUpdater`, and publishes one or two answers. The recognizer takes the cameras' last key
frames and publishes alarms by HTTP; the web server hands out the segments the cameras record. Besides `submit`, the MQTT handler of
car commands calls `cancelCarControl` directly, from its own thread.

Hazards, each at its line and with the properties that would catch it, are in `PROJECT.json`.

## 2. Modules

| Module | Models | State and actions |
| --- | --- | --- |
| `ThreadPool` | `thread_pool.h`, `threadsafe_queue.h` | the queue, each worker's place; `Submit`, `TryPop`, `FallAsleep`, `WakeUp`, `JobReturns` |
| `TaskService` | nothing: the abstract promise of the scheduler | commands are accepted in an order, start in that order, each once, at most one per server, and each is answered once at most |
| `JobScheduler` | `JobScheduler.cpp`, over `ThreadPool` | one action per critical section of `mtx_` or `carControlMtx_` and one per step between them |
| `CarControl` | `car_control_manager.cpp` and its driver | one action per step of `operate()` that another thread can come between; `Interrupt` is the call without a lock |
| `CarCommands` | the composition of `JobScheduler` and `CarControl` by the MQTT handler, the HTTP route and `CarControlTask::run` | the workers of one are the callers of the other |
| `PlcStatus` | `plc_manager.cpp`, `operatePlc` and the PLC part of `getStatus` in `device_manager.cpp` | `Write`, `Erase`, the lookup, and a query as lock, one step per register, store |
| `ConfigUpdate` | `updateConfig` in `update_config.cpp`, the start of `config_parser.cpp`, and a file system (external) | one action per file operation; `Restart` at any step |
| `ConfigRules` | the validation in `update_config.cpp`, what `config_parser.cpp` takes from a document | no state: `validateJsonFormat`, `checkAndAddId`, and `validateBusinessLogic` as a fold over the items of a section, for one section after the other; `Parsed`, `Misfits` (the fields the parser throws at), `Loads` |
| `ConfigDocuments` | `ConfigUpdate` with `ConfigRules`: a text is valid when the rules accept what it says | no state of its own; what the process may take for granted of a loaded configuration |
| `PlcRegisters` | nothing: the abstract promise of a connector, from `plc_connector.h` | registers and the writes that may still take effect; a call that succeeds acts at once, and none of those is left |
| `PlcConnector` | `gateway_tcp_connector.cpp`, `serial_plc_connector.cpp`, under `PLCManager`'s mutex | a call is its request (`Connect`, `Send`) and the loop that collects a reply (`Receive`, `GiveUp`); the PLC and the network are external |
| `MqttLink` | `mqtt_service.cpp` as `main`, pool workers and `DeviceStatusReporter` use it | who is connecting, subscribing, sleeping; one action per step that another thread or a loss can come between; the client library is external |
| `Camera` | one camera: `camera.cpp`, `video_capture.cpp`, `video_storage.cpp`, `SegmentManager.cpp`, `FileUtils.cpp`, `TimestampAdjuster.h`, `find_video_url.h` | a clock, the files by name, the capture thread step by step, the cleaner's removals; `FindVideo` is an operator |
| `SensorManager` | `sensor_manager.cpp` over `modbus_sensor.cpp` | `mu_`, the cache; a reading is the step that takes the mutex and the step that stores the outcome |
| `ValveVerify` | `operatePlcWithVerify` in `device_manager.cpp`, over `SensorManager` | baseline, checks, report; other commands turn the valve meanwhile |
| `FrontEnd` | `main.cpp`, `WebService.cpp`, `WebController.cpp`, `mqtt_command_dispatcher.cpp` and how a worker finds a task's publisher | how far `main` is, each connection's thread step by step, what has arrived of its request, a file that changes; `onMessage`; clients are external |
| `HttpPublisher` | `HttpPublisher::publish` | no state: the text that is posted, as a sequence of the characters JSON gives a meaning to |
| `Recognition` | `ai_model_service.cpp`, `ai_recognize.cpp`, the allocations of `yolov8.cc`, `GetCameraRealImageTask` | the step of `processFrame`, the buffers it holds, what was lost; the cameras and tasks beside it |
| `Detection` | `postprocess.cc` | no state: candidates, the quicksort, the suppression and the list of objects, as functions of the model's outputs |
| `ImageBuffer` | `image_utils.c`, `image_drawing.c` | no state: which bytes each function reads and writes |
| `Vision` | `avframeToRGB` to `drawDetections` for one picture, over `Detection` and `ImageBuffer` | the picture, its place in the model's input, the objects, the bytes drawn; one action per step |
| `Logger` | `logger.cpp` | a clock, the files by day, the present one and whether its stream takes lines, one of the lines that were written; restarts |
| `Recursion` | nothing: when there is a function that satisfies a recursive definition | lemmas to be instantiated with the body of the definition |
| `*_proofs` | – | theorems about the module of the same name; `CarCommands_proofs` also about `JobScheduler`, `Recognition_proofs` also about `ImageBuffer`, `Detection` and `Vision`; `Devices_proofs` is about `Camera`, `SensorManager` and `ValveVerify`, and `Services_proofs` about `MqttLink`, `ConfigDocuments`, `Logger` and `FrontEnd` |
| `MC*` | – | instances for TLC |

Conventions. A value a thread keeps between two steps is a function on threads; `pc` is where it is.
Variables marked *history* are read by properties only. Operators marked as *mutants* are plausible
wrong versions of the action that follows them; no specification uses them. They are there to show
that each property notices a mistake, and `PROJECT.json` says which one.

### What is abstracted

* Time. `Camera` counts ticks, so many to a minute and to a day; the system clock and the steady
  clock run alike. Elsewhere windows, polls and time-outs are counted in rounds or may end at any moment; the 50 ms
  sleep of a pool worker, the 8 s lifetime of a cache entry and the 5 s refresh are steps that may
  happen any time. `WakeUp` of `ThreadPool` stands for a notification and for the 50 ms alike: that a lost
  notification does no harm is shown, that the time-out is there to repair it is taken from
  `thread_pool.h:44`.
* Data. A command is a model value. A car's payload is its task; malformed payloads are a set of
  tasks. A status is one of `"0"`, `"1"`, `"ERROR"`, `"UNKNOWN"`, stamped with the number of writes
  executed so far, which is what the properties call its age. `ConfigUpdate` has the validation as
  one set, `Valid`; the run `services` gives it what `ConfigRules` accepts. Of a document
  `ConfigRules` keeps the ids, kinds and references, which fields are there, and the JSON type of each.
* Ids. `nextTaskId_` gives every task an id of its own; the task itself stands for it.
* Environment. Serial lines may lose a frame, bring a late reply or none. A PLC may execute a write
  and lose the reply. `rename()` is atomic and what was written stays; a power failure is not
  modelled.
* Modbus. Of a reply `PlcConnector` keeps its length and the fields the connectors compare. A piece
  of a reply without its beginning is taken to fail the checks of the header: its bytes stand two or
  more fields away from where they are looked for. A gateway executes requests in the order it gets
  them. `Punctual` says how late an answer may be: a serial PLC has answered, or never will, when
  its line is used again, and no reply of a gateway is 2^16 requests late. Nothing in the code
  makes the former true; the hazards say what it leaves open.
* `PlcStatus` reads and writes a register in one step. It may because a connector implements
  `PlcRegisters`, which is proved (`RegistersRefinement`): there a call that succeeds is one step.
* Sensors. A sensor measures a humidity of a few steps and answers in time or not at all; only water
  from the open valve makes it rise, which is what the verification takes for granted. A sensor whose
  port did not open is never tried again.
* `ValveVerify` operates the valve in one step, since `PlcStatus` has the parts, and takes the ten
  seconds of polling as at most `MaxChecks` passes.
* `Camera` writes a packet with one time instead of `pts` and `dts`, so streams with B-frames are not
  covered. Directories are removed with their files, or when they are empty, as the code does.
* HTTP. Of a request `FrontEnd` keeps its route and whether the body has what the route needs; it
  arrives in up to four pieces, cut within the request line, the headers or the body. A file is as long
  as so many units, two to a buffer. A client may leave, or stay and read no more; one whose host has vanished
  without a FIN is of the latter kind, until TCP notices. `send()` to a client that has left fails sooner
  or later and does not end the process: the Paho library, which is external, ignores `SIGPIPE` for it.
* Pictures. `ImageBuffer` keeps which bytes are touched, not what they hold; factors of type `float` are
  fractions, and their rounding is left out. `Detection` has whole distances where the code has mean
  values of floats, and a score is the quantised number that stands for it. That a cell without objects
  does not pass is a fact about the model's zero point, and that the quantised threshold is not below
  it follows from `BOX_THRESH` being positive (`DetectionAssumption`).
* `Recognition` treats converting, inferring and drawing as steps that succeed or fail. A local
  variable without a value may be anything, and using it as an index may end the process.
* `Logger` counts ticks, two to a day. `localtime()` may return the time another thread asked for a
  tick before; a file is a day. A file may not open, a write may fail, and any part of what has expired
  may stay. The directory of the log is there or can be made.
* The MQTT client library: `reconnect()` brings a connection or throws, and returns at once when there
  is one; `subscribe()` throws without a connection; `connection_lost()` is called once per loss.

## 3. What the runs check

**`job_scheduler`** – three tasks (an MQTT and a malformed HTTP command for one car, and a request
without an ack), two workers, and a destructor that may begin at any time. `QueueOrder`: what was
accepted is exactly what has started, then what the pool holds, the dispatcher carries and the ready
queue holds, in that order. `OnlyOlderSuperseded`: what is skipped is always
older than an accepted command of its car. `OneAnswer`: an ack first, then one answer, and the status
agrees with it. `ImplementsTaskService`: the scheduler refines `TaskService`. Three tasks are the
least with which a command can be newer than, older than and unrelated to another; two workers are
enough for two tasks to be carried out at the same time while the third one waits in either queue.

**`superseded_malformed`** (violation) – see findings.

**`car_control`** – two threads, a ready car, a car whose port is closed, an unknown id, up to two
interrupts per car, windows of two frames with one poll each. `PromptAbort`: after an interrupt at
most the frame that was already past its check is sent. `LastStatusIsLastWindow`: the stored status
is that of the last window. `OperateReturns`. Two frames are the least with a frame before and one after an interrupt; the code
has 8 frames of 4 polls, which repeat the same steps; the theorems hold for any number.

**`car_commands`** – two MQTT commands for one car through both layers. `AbortOnlyForNewer`: an
interrupt never hits its own command or a later one.
`LastCommandWinsUnlessRaced`: the car is left with the newest command, except in the one race that
`last_command_wins` shows. `EveryCommandEnds`: the worker that answers a superseded command waits
for the device mutex, and gets it.

**`last_command_wins`** (violation) – see findings.

**`plc_status`** – two clients and the refresher on one valve, up to two executed writes, the entry
may expire at any time, clients are symmetric. `CacheNotStale`, `NoStaleAnswer`,
`AnswerMatchesCommand`. Two writes are the least with which a thread can be overtaken by another one
between its write and its `erase`.

**`plc_refresh`** – one client and the refresher, two devices of which one cannot be operated, and a
PLC without a connector. `OneSnapshot`, and under fairness `WrongStatusHeals` and `CallReturns`. One
write suffices to come between the two readings or to lose its reply.

**`config_two_updaters`** (violation) – see findings.

**`plc_connector`** – two registers, both connectors, a health check and up to three calls, which may
be given up at any time while their requests and replies are still under way, lost or cut in two.
`OwnAnswer`: a call that succeeds has accepted its own reply. `ReadIsCurrent`: what a reading returns
stays true until the next call. `ImplementsRegisters`: a connector refines `PlcRegisters`, so that no
write that was given up is executed behind the back of a call that succeeded.
The transaction id has three values so that it wraps around within the run; a reply is cut after 9
bytes because a health check is content with 9 of its 10, and the last byte then precedes every later
reply.

**`services`** – eight deployments of parts that share no state. Each takes the state of one part
through all it can do while the others stand still.

* `link`: main, the background thread, one worker and the reporter, two topics, a broker that may be
  away at first, and two losses or absences. `NoDeafSession`: whoever reconnects, every topic is
  subscribed to or about to be. `ConnectedAgain`: if the broker stays within reach the service ends up
  connected and subscribed. Two losses are the least with which a connection is lost again while it is
  being repaired. The background thread alone does not do it, see the mutant `LeaveIt`: a loss before
  line 122 finds `reconnecting_` still set and is dropped, and only the next `publish()` notices.
* `commands`: two MQTT messages, good and bad ones, and a plain HTTP request arrive at any step of
  `main`. `CommandsDoNotEndIt`: a task finds its publisher, except for one that came by MQTT before
  `setMqttPublisher`; and commands end the process for three reasons only, of which the hazards have
  the lines. The mutant starts the web service first.
* `requests`: one connection, every route with every kind of body, cut at any place, with or without
  `Content-Length`, and a client that may leave. `RequestUnderstood`: what a client is told is what its
  request deserves, and that a task was submitted if and only if one was. A request that is cut before
  the blank line is the exception, since the code never reads on then (`WebService.cpp:137`).
  `ConnectionsEnd`: its thread ends once the request is complete or the client has left, unless the
  client stays without reading. The code sets no time-out on `recv()` or `send()`, so such a client, and
  one that never completes its request, may hold its thread for ever. One client is enough: connections share
  nothing but the scheduler, which has runs of its own.
* `downloads`: a file of up to three units that grows and is removed while it is sent in buffers of two.
  `FileServedWhole`: a client that stays and reads gets as much as its headers announce. `ConnectionsEnd`
  is about these connections, too. The sizes are those with
  an empty, a full and a part-filled last buffer.
* `update`: one updater at a time, thirteen documents (a good one and others that differ from it in one
  respect) of which the code's own rules accept eight and can load four of these, failures of every file
  operation, a restart at every step. `ConfigSound`, `SuccessMeansInstalled`, `FailureLeavesConfig`.
  `LoadedIsConsistent`: what `config.json` gives a started process has no id twice and no PLC device
  without its PLC; and where the parser throws, which ends the process at this start and each later one
  (`Running`), it is at the root's texts or at a field of `Unvalidated`, the table of what the validator
  does not look at: optional fields of another type, a `serial_config` that is no object
  (`update_config.cpp:190` only asks whether it is there) or, of a sensor other than modbus, that is
  missing, a `slave_id` that is not a number. A field the validator vouches for is never to blame. The
  property is stated for sections that are arrays; others are passed over by the validator and parsed.
  Four documents show that the table is needed: `versioned`, `windowed`, `slaveless` and `five`.
  Two inodes are enough for one updater: `config.json`, and `temp.json` or the free one. Leftovers of
  an update are met by the next, so the run is not limited in length.
* `recognizer`: two cameras, whose frames come and may be empty, up to two failed inferences (before
  the model's input is allocated, after that, or when the outputs are fetched) and one picture for a
  task, with a model or without. `AlarmJustified`: an alarm is for a picture of the
  camera it names with an object the model found, or there is no model. `LeaksExplained`: every buffer
  that was lost was lost by a failure, two or one of them by where it happened, or given away. Two cameras are the
  least with which a result could be taken for another one's.
* `picture`: 3072 outputs of a model for a square picture of 8 by 8: models larger, smaller, wider and
  higher than the picture, quantised or not, with and without the sums; three cells of which the second
  overlaps both others, boxes across the edges and empty ones. `PicturesInside`: scaling reads and
  fills what it should, and what is drawn stays in the picture with a frame to be seen for every object.
  `DetectionsSound`: there is an object for every cell that holds something, and the list is the best of
  each class, no two of which overlap, however the quicksort permutes.
* `log`: four days of two ticks after the files of two earlier ones, retention of two days, restarts; a
  file may not open, a write may fail, and any part of what has expired may stay. `LogKept`: a line that
  reached its file is there for the time promised, less the day it was written on; lines only go to a
  file that is there; and after a clean-up that succeeded, whatever earlier ones left, the number of files
  is bounded. What the code does not promise is left out of it: while a file does not open, or once a
  write has failed, lines are lost until the next day or the next start. Files of the first days expire at
  the start, and the line that is followed can expire before the end.

**`http_message`** (violation) – see findings.

**`devices`** – two deployments that share no state, a camera and a valve with sensors.

* The camera records four segments of one minute, three minutes to the day, so that midnight is
  crossed and a day has a file that is not its latest. Packets come at any pace, with or without a
  time, or not at all for minutes; every step of opening a segment may fail; the cleaner may come at
  any time. A day is retained 0 days so that the sweep of directories happens. `NoSegmentOverwritten`:
  although names have minutes only, no segment is opened over another. `Playback`: if a file begun on
  a day has footage of a minute, `findVideoUrl` answers with such a file. `SegmentTimes`: time starts
  from 0 in each segment and keeps the pace of the stream. The mutants of the first and the last, a
  rollover one tick early and a forgotten reset, are single-line mistakes.
* The valve: a refresher, a status report and a verification compete for `mu_`; one sensor's port
  never opened, and commands may name an unknown id. Humidity has two levels and `Rise` is one of
  them, the least with which a rise can be told from none. `VerifiedMeansOpen`: a verified valve was
  open since its baseline was read, whatever other commands did; stated for a baseline that was read,
  because a failed reading counts as humidity 0 (`device_manager.cpp:163`). `ListIsFresh`: a sensor
  that stopped answering is listed as OFFLINE. `VerifyReturns`: the verification ends. `MaxChecks` is
  one: a pass leads back to the state before it, but for the count.

Deadlock is checked except where the process may end in `std::terminate`, all commands are done or the
bounded clock has stopped.

### Fairness

Threads are scheduled: weak fairness on the steps of the dispatcher, of the workers and of the
refresher. A mutex that is released again and again is got in the end: strong fairness on the steps
that take one (POSIX mutexes do not promise it, but none of the threads here loops on a mutex
without sleeping). For the same reason a verification gets `mu_` in the end. I/O on
devices ends, because each read has a time-out. `run()` returns for the same reason.
The threads of HTTP connections run. `recv()` and `send()` have no time-out, and so nothing is assumed of
them: a `recv()` returns when the client sends or leaves, and a step with a `send()` is not fair as
long as its client is there and does not read (`SendMayWait`). The reporter publishes for
ever (`autoReportLoop`), and a broker that stays within reach accepts a connection in the end: strong fairness on `Connected`.
Nothing makes a client submit, a PLC or a sensor answer, an entry expire, a condition variable wake up
spuriously, or the destructor begin.

### Findings

* `superseded_malformed`: a superseded HTTP car command whose motor is not a number ends the process.
  `JobScheduler.cpp:115` says that it counts as finished normally.
* `last_command_wins`: an older command can pass the latest check before the newer one is queued, take
  its snapshot after the newer handler's interrupt, and drive the car last.
  `mqtt_command_dispatcher.cpp:114` and `car_control_manager.cpp:69-71` say that the interrupt makes
  it abort.
* `config_two_updaters`: two update tasks share `temp.json`, so that an empty or unvalidated text can
  become `config.json` and be reported as validated (`update_config.cpp:266` and `:276`).
* `http_message`: `HttpPublisher` puts a JSON text between quotes without escaping it
  (`task_result_publisher.h:40`), so that what it posts as `application/json` is none. Line 39 says that
  it is sent in JSON.

## 4. What is proved

For every value of the constants that satisfies the assumption of its module
(`SchedulerAssumption`, `CarAssumption`, `CommandAssumption`, `PlcAssumption`, `ConfigAssumption`,
`ConnectorAssumption`, `MqttAssumption`, `LoggerAssumption`, `FrontEndAssumption`, `SensorAssumption`,
`VerifyAssumption`, `CameraAssumption`, `RecognitionAssumption`, `DocumentAssumption`,
`VisionAssumption`, `DetectionAssumption`). The bounds among the constants
(`MaxNow`, `MaxTime`, `MaxLosses`, ...) are any numbers there.

* `CarCommands_proofs`, the scheduler: `TypeCorrect`, `QueueOrderCorrect`, `AcceptedOnceCorrect`, `OnlyOlderCorrect`,
  `OneAnswerCorrect`, and `Refinement`,
  the safety part of `ImplementsTaskService`. `QueueOrder` is inductive only with `TypeOK` (a worker
  holds a task exactly while it is in the lambda, the dispatcher exactly between taking and handing
  off) and with the fact that a task is accepted once. The refinement also needs that a task whose
  execution is over was started before, so that the answers of `TaskService` only grow. For
  `OneAnswer` the answers a task has follow from the step its worker is at; for `OnlyOlderSuperseded`
  the latest command of a car is the last one accepted for it.
* `CarControl_proofs`: `CarTypeCorrect`, `PromptAbortCorrect`, `OneWindowCorrect`,
  `LastStatusCorrect`. `WindowInv`: who is in a window holds the mutex. `ToldInv`: a thread that was
  interrupted has a snapshot smaller than the sequence for the rest of its window, because the
  sequence only grows, and has sent nothing since but the frame it was past its check for.
* `CarCommands_proofs`, both layers: `AbortCorrect` and `LastCommandCorrect`, for any number of commands, cars and
  workers, over both layers. Every step is a step of one layer, or leaves it alone (`SchedulerSteps`,
  `DeviceSteps`), so the invariants of both carry over. New is how they meet: a worker inside
  `operate()` is there for the task it holds (`LinkInv`); a handler interrupts before it submits
  (`HandlerInv`); an operation that nobody has told to stop, and that did not race, knows of every
  newer handler that has interrupted (`SnapshotInv`), so it is about to send only if no newer MQTT
  command has driven the car (`FrameInv`), and what drives the car is not older than what has
  driven it (`LineInv`).
* `PlcStatus_proofs`: all five safety properties. A query holds `connectorMutex_` until it has stored
  its entry, so its readings bear the present clock when they are stored (`PartInv`); a write is
  settled in the step that drops the entries of its PLC (`CacheInv`); who asks later expects no more
  than what is settled (`TimeInv`). `CommandInv` adds that as long as nobody else writes the device,
  every reading at or after a caller's own write shows its command.
* `PlcConnector_proofs`: `ConnTypeCorrect`, `OwnAnswerCorrect`, `ReadCorrect`, `WriteCorrect`,
  `RegistersRefinement`. Every message that may
  still be read is less than `TidMod` requests old and its id counts the requests since (`TidInv`),
  so that an id names one request (`TidNamesCall`). Requests are executed in order, so once the
  newest one has its reply nothing is left that could change a register (`ExecInv`, `ResultInv`). On a
  serial line the flush leaves the call alone with its own messages (`SerialInv`). In the refinement a
  successful call takes effect when it returns: the same invariants say that by then no write is under
  way, its own included, and that the register holds what it returns.
* `Services_proofs`, the MQTT link: `MqttTypeCorrect`, `NoDeafSessionCorrect`. Only `Connected` begins a
  session, and its
  thread owes every topic until it subscribes or the session is gone. The invariant is inductive
  with the types, which say that the flag is set exactly while the background thread is alive.
* `Services_proofs`, updates: `ConfigSoundCorrect`, `SuccessCorrect`, `FailureCorrect`, of every
  behaviour in which no two updates overlap (`[]NoOverlap`), with any number of updaters, restarts and
  failures. The stream writes only to the temporary inode (`FileInv`), and what is renamed is what was
  received and validated (`StageInv`). The hypothesis is needed: `config_two_updaters` refutes the
  theorem without it. The code does not see to it; an installation has it when one client sends
  configurations and waits for each answer.
* `Services_proofs`, what is loaded: `LoadedCorrect`, under the same hypothesis, for documents with any
  number of sections and items. The validation is a fold over the items of a section, so there is a
  path of states from the first item to the last (`FoldExists`, `FoldPath`); along it the ids that
  were taken only grow, and each item was checked against those before it (`ItemsChecked`). A section
  finds the ids of the sections before it taken (`SectionChecked`), so that what the parser reads has
  ids of its own. An item that passed has its required fields with types that the parser can read
  (`PassedIsReadable`), so that what is left of `Misfits` is in `Unvalidated`. That the process can be
  started is not claimed: it is false of documents that the validator accepts. `DocumentAssumption` says
  that a section is a finite sequence of items, and which documents are accepted and can be loaded.
* `Services_proofs`, the log: `LogTypeCorrect`, `LogKeptCorrect`. After a clean-up that succeeded the files
  are of a day and of the `retentionDays_` before it (`FilesInv`), which bounds their number, whatever
  earlier ones could not remove; a stream that takes lines has its file, since nothing but a clean-up removes one
  and today's does not expire; the line is in its file or that has expired (`LineInv`). `Retention` is the arithmetic: what has not expired is at
  most `retentionDays_` days older than today, today's file never expires, and a file that does
  takes lines with it that are older than the promise. Days and ticks are related by `\div`
  (`DayBounds`, `DayMonotone`, `DaysApart`).
* `Services_proofs`, commands coming in: `FrontTypeCorrect`, `UnderstoodCorrect`, `FileServedCorrect`,
  `CommandsCorrect`, for any number of connections, messages and tasks and any size of the file and of
  the buffer. `JsonInv`: what is known of the path and of the body by how the first piece ended, as far
  as the client is still there; `TaskInv`: a connection has the one task it is told of, or none;
  `FileInvOf`: no more is announced or sent than the file has; `BootInv`: who has a connection has
  all publishers (`PublishersBeforeWeb`), because of the order in `main`.
* `Devices_proofs`, sensors and valves: `ValveTypeCorrect`, `ListCorrect`, `VerifiedCorrect`, for any
  number of sensors, readers and commands. The entries older than a call are among those it has still to
  refresh (`UnreadInv`); until the valve has been open it is shut and the humidity is not above the
  baseline (`BaselineInv`).
* `Devices_proofs`, the camera: `CamTypeCorrect`, `NoOverwriteCorrect`, `SegmentTimesCorrect`,
  `PlaybackCorrect`, for any lengths of a minute, a day and a segment with `SegmentTicks >=
  MinuteTicks`, which the program's 60 seconds satisfy just so. Every file but the present one has an
  earlier name and was closed before the present one was named (`NameInv`, `FileOrder`); that a
  segment of a minute or more ends in a later minute is `MinuteOver`. `Playback` follows: a later
  file of the day that is not after the minute asked for was begun when the earlier one was closed.
* `Recognition_proofs`: `RecTypeCorrect`, `AlarmCorrect`, `LeaksCorrect`. What is allocated follows from
  the step (`StageInv`), so each way out of the inference loses a known number of buffers (`LeakInv`);
  with a model the count is the one that was inferred last, for that camera. For pictures and boxes of
  any size: `RectangleInside` and `TextInside` (drawing writes bytes of the picture only, in one plane
  or two), `RectangleIsRing` (the four bands are exactly a frame), `LetterboxInside`,
  `ScaleReadsInside` and `GlyphReadsInside`. They rest on `PixelInside`, that `k * n + c` is below `m * n`, whose
  multiplications are kept in steps of their own.
* `Recognition_proofs`, one picture: `PicturesCorrect`, for a square picture of two pixels a side or more
  and a model whose input has four lines and columns or more, with any outputs. `VisionInv` says what
  each step has left. A square fits into the input with a box that is not empty (`SquareFits`), so
  scaling reads the picture and fills the input (`ScaleFills`); the boxes of the list come out of a
  clamp, whatever was detected (`BackIsBox`), so a frame begins inside the picture and is seen
  (`MarkedInside`, `RingSeen`).
* `Recognition_proofs`, what was detected: `DetectionsCorrect`, for any number of cells, classes and
  results, with `QuickSorted` and `PostProcessed` for the parts. The loops and the quicksort are
  recursive functions. That there is a function that satisfies such a definition, when each value
  depends on values for smaller arguments only, is proved once in `Recursion` (`FunctionExists`: its
  approximations agree as far as they go); what its values are follows by induction, for which the module has
  the principle in a form without an operator as a parameter (`UpTo`, `BySize`: the hypothesis is about a
  set). The loops count their turns (`LoopRuns`); the arguments of the two functions of the sort
  are measured by the length of the part. Moving pairs into the hole and the hole to where they came from
  rearranges the list and nothing else (`Rearranged`), and when the hole stops, what is left and
  right of it is not less and not more than the pair (`Parted`); the two parts are shorter, and sorting them does
  not spoil this (`PartsSorted`). Of the suppression `Thinned` is the invariant: up to the place
  reached no two that are left overlap, and what is dropped overlaps one that is left before it;
  another class is not touched (`OnlyClass`). `ListedBy` relates the list to the places it was
  taken from.

`AcceptedOnce` (nothing is queued twice or held by two workers), `OneWindow` (two windows on a car
never overlap) and `WriteHolds` (after a write that succeeded the register holds its value until the
next call, which follows from the refinement, too) are proved and not checked by a run of their own.

The types (`TypeOK`, `CarTypeOK`, `PlcTypeOK`, `ConnTypeOK`, `MqttTypeOK`, `RecTypeOK`, `LogTypeOK`,
`FrontTypeOK`, `ValveTypeOK`, `CamTypeOK`) are proved and not
run either: each is a conjunct of the inductive invariant of its module.

Every safety property that a run checks is a theorem. Only model-checked: all liveness properties,
because the prover does no reasoning about fairness or `ENABLED`. What the four runs that expect a
violation check is false.

## 5. How it was built

In this order: `ThreadPool`, `TaskService`, `JobScheduler` with the refinement and its proof;
`CarControl`; `CarCommands`; `PlcStatus`; `ConfigUpdate`; `PlcConnector`; `MqttLink`; `Camera`;
`SensorManager` and `ValveVerify`; `ConfigRules`; `ImageBuffer`, `Detection` and `Vision`;
`Recognition`; `HttpPublisher` and `FrontEnd`; `Logger`; then `PlcRegisters` with its refinement,
`ConfigDocuments` and `Recursion` for the proofs. What a change of the code asks for: the definition
whose lines changed (`map` in `PROJECT.json`), its runs, and then the lemma of the action
concerned, since each proof has one step per action.

What could follow: properties for the five hazards that have none in `PROJECT.json`, each with the
reason, and playback of streams with B-frames.

## 6. What is not modelled, and why

* The destructor of `ThreadPool` and the destruction of the scheduler's members, the destructor of
  `PLCManager`, `CarControlManager::shutdown`, and the `stop()` of the services: `main` never returns.
* `WebService`: percent-decoding, content types and header wording, data without an effect on the
  control.
* AI recognition: the vendor's library, and `compute_dfl` with the floats that follow it: TLA+ has no
  floats, and `Detection` has whole numbers in their place.
* Pictures: the RGA path, which the build disables (`DISABLE_RGA`); scaling of YUV pictures, and lines,
  circles and images, which nothing in the program draws; the font's data; base64.
* The logger's `setLogPath` and `setLogRetentionDays`, which nothing calls, and a directory that cannot
  be made, at which the constructor throws. That threads read a torn
  `localtime()` buffer elsewhere (`FileUtils.cpp:16`) would change a name or a label only.
* Cameras: a restart of the process, after which a camera that records within the same minute opens that
  minute's file again and truncates it (`video_storage.cpp:97`); `stop()` and `removeCamera`, which nothing calls; a system clock that is set back; streams
  with B-frames. Sensors: what GPIO and custom sensors read, `getSensorDataCached`, whose only
  user (`GetSensorDataTask`) is commented out, and garbled Modbus frames.
* `disconnect()` of the connectors and `stopAutoReport()`: only destructors that the process never
  reaches call them.
