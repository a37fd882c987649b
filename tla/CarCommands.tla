----------------------------- MODULE CarCommands -----------------------------
(***************************************************************************)
(* Car commands end to end: the MQTT handler (handleOperateCar) and the    *)
(* HTTP route (/device/carControl) in front of JobScheduler, and           *)
(* CarControlTask::run on a pool worker driving the CarControl layer.      *)
(*                                                                         *)
(* The MQTT handler first interrupts what runs on the car and then submits *)
(* its task; the HTTP route only submits.  A worker first looks whether    *)
(* its command is still the car's latest and later calls operate().        *)
(* Nothing ties the two mechanisms together, and what follows is about the *)
(* steps between them.                                                     *)
(*                                                                         *)
(* Every task is a well-formed car command for a car whose port is open;   *)
(* malformed payloads and the scheduler's destructor are in JobScheduler,  *)
(* closed ports in CarControl.                                             *)
(***************************************************************************)
EXTENDS JobScheduler

CONSTANTS Device, Ready, StatusByte, NoReply, Frames, Polls, NoCommand

VARIABLES owner, cancelSeq, lastStatus, lastAny, line, pc, call, mySeq, sent, polled,
          anyReply, lastSt, result, toldAt, late, reported     \* the device layer

VARIABLES cancelled,  \* the MQTT commands whose handler has called cancelCarControl
          drove,      \* history: the commands that have put a frame on the line
          raced       \* history: the commands whose snapshot already held a newer interrupt

ASSUME CommandAssumption ==
    /\ Malformed = {}
    /\ \A t \in Task : CarOf[t] \in Ready
    \* CarAssumption of CarControl, for the constants given to it below
    /\ Ready \subseteq Device /\ Device \subseteq Car /\ Car # {}
    /\ StatusByte \subseteq Nat /\ NoReply \in Nat
    /\ {Frames, Polls} \subseteq Nat \ {0}
    /\ NoTask \notin Worker /\ NoCommand \notin Task

\* A worker is a caller of operate(); the command it passes is its task.
Dev == INSTANCE CarControl WITH Proc <- Worker, CarId <- Car, Command <- Task, NoProc <- NoTask

devVars == <<owner, cancelSeq, lastStatus, lastAny, line, pc, call, mySeq, sent, polled,
             anyReply, lastSt, result, toldAt, late, reported>>
cmdVars == <<cancelled, drove, raced>>
allVars == <<vars, devVars, cmdVars>>

CmdInit ==
    /\ Init
    /\ Dev!CarInit
    /\ cancelled = {}
    /\ drove = {}
    /\ raced = {}

\* The car's commands in order: a command that is not yet accepted is newer than
\* every accepted one.
Accepted(t) == t \in ToSet(accepted)
Position(t) == CHOOSE i \in 1 .. Len(accepted) : accepted[i] = t
NewerThan(u, t) ==
    /\ u # t /\ CarOf[u] = CarOf[t]
    /\ Accepted(t) /\ (Accepted(u) => Position(t) < Position(u))

-----------------------------------------------------------------------------
(* The clients.                                                            *)

\* Mutants of Cancel: the handler interrupts again once its task is queued; it
\* does not interrupt at all.
CancelAgain(t) ==
    /\ t \in Mqtt
    /\ IF t \in cancelled THEN subPc[t] = "returned"
       ELSE subPc[t] = "none" /\ \A u \in cancelled : subPc[u] = "returned"
    /\ cancelSeq[CarOf[t]] < 3
    /\ cancelled' = cancelled \cup {t}
    /\ Dev!Interrupt(CarOf[t])
    /\ UNCHANGED <<vars, drove, raced>>

CancelNothing(t) ==
    /\ t \in Mqtt \ cancelled
    /\ subPc[t] = "none"
    /\ \A u \in cancelled : subPc[u] = "returned"
    /\ cancelled' = cancelled \cup {t}
    /\ UNCHANGED <<vars, devVars, drove, raced>>

\* handleOperateCar, line 116: the interrupt comes first (line 117 submits).  The
\* MQTT thread handles one message at a time.
Cancel(t) ==
    /\ t \in Mqtt \ cancelled
    /\ subPc[t] = "none"
    /\ \A u \in cancelled : subPc[u] = "returned"
    /\ cancelled' = cancelled \cup {t}
    /\ Dev!Interrupt(CarOf[t])
    /\ UNCHANGED <<vars, drove, raced>>

\* handleOperateCar, line 117, and WebController::handleHttp, lines 82-83.
SubmitCommand(t) ==
    /\ t \in Mqtt => t \in cancelled
    /\ Client(t)
    /\ UNCHANGED <<devVars, cmdVars>>

-----------------------------------------------------------------------------
(* CarControlTask::run on worker w (task.cpp:196-255).                     *)

Scheduling ==
    /\ \/ Dispatcher
       \/ SpuriousWakeUp
       \/ \E w \in Worker : \/ TakeJob(w) \/ WorkerSleeps(w) \/ WorkerWakes(w)
                            \/ CheckLatest(w) \/ PublishAck(w) \/ RunReturns(w)
                            \/ EraseRunning(w)
    /\ UNCHANGED <<devVars, cmdVars>>

\* JobScheduler.cpp:126: a superseded command's answer holds the status of the
\* last window, so the worker waits for the device mutex.
AnswerWithLastStatus(w) ==
    /\ AnswerSuperseded(w)
    /\ Dev!CanGetLastStatus(CarOf[wjob[w]])
    /\ UNCHANGED <<devVars, cmdVars>>

\* Line 223: operateCarControl.
StartOperate(w) ==
    /\ phase[w] = "acked"
    /\ Dev!Call(w, CarOf[wjob[w]], wjob[w])
    /\ UNCHANGED <<vars, cmdVars>>

TakeSnapshot(w) ==
    /\ Dev!Capture(w)
    /\ raced' = IF \E u \in cancelled : NewerThan(u, wjob[w])
                THEN raced \cup {wjob[w]} ELSE raced
    /\ UNCHANGED <<vars, cancelled, drove>>

SendFrame(w) ==
    /\ Dev!Send(w)
    /\ drove' = IF line' # line THEN drove \cup {wjob[w]} ELSE drove
    /\ UNCHANGED <<vars, cancelled, raced>>

OtherDeviceStep(w) ==
    /\ \/ Dev!Lock(w) \/ Dev!Abort(w) \/ Dev!WindowEnds(w)
       \/ Dev!CheckBeforeSend(w) \/ Dev!Poll(w) \/ Dev!NextRound(w)
    /\ UNCHANGED <<vars, cmdVars>>

\* Lines 225-252: the result goes to the publisher.
FinishOperate(w) ==
    /\ Dev!TakeResult(w)
    /\ PublishResult(w)
    /\ UNCHANGED cmdVars

WorkerOperates(w) ==
    \/ AnswerWithLastStatus(w) \/ StartOperate(w) \/ TakeSnapshot(w)
    \/ SendFrame(w) \/ OtherDeviceStep(w) \/ FinishOperate(w)

CmdNext ==
    /\ up
    /\ \/ \E t \in Task : Cancel(t) \/ SubmitCommand(t)
       \/ Scheduling
       \/ \E w \in Worker : WorkerOperates(w)

(* As in the two components: threads run, run() and mutexes are not starved.  A
   handler that has begun, goes on. *)
CmdFairness ==
    /\ WF_allVars(up /\ Dispatcher /\ UNCHANGED <<devVars, cmdVars>>)
    /\ \A w \in Worker :
         /\ WF_allVars(/\ up /\ UNCHANGED <<devVars, cmdVars>>
                       /\ \/ TakeJob(w) \/ WorkerWakes(w) \/ CheckLatest(w)
                          \/ PublishAck(w) \/ RunReturns(w))
         /\ WF_allVars(up /\ WorkerOperates(w))
         /\ SF_allVars(up /\ EraseRunning(w) /\ UNCHANGED <<devVars, cmdVars>>)
    /\ \A t \in Task : SF_allVars(up /\ (t \in cancelled \/ subPc[t] # "none") /\ SubmitCommand(t))

CmdSpec == CmdInit /\ [][CmdNext]_allVars /\ CmdFairness

-----------------------------------------------------------------------------
(* Properties.                                                             *)

\* The types of both layers, and their agreement: a worker is inside operate()
\* only while it carries out an acknowledged task, and for that task.
CmdTypeOK ==
    /\ TypeOK
    /\ Dev!CarTypeOK
    /\ cancelled \subseteq Mqtt
    /\ drove \subseteq Task /\ raced \subseteq Task
    /\ \A w \in Worker : pc[w] # "idle" => /\ phase[w] = "acked"
                                           /\ call[w] = [car |-> CarOf[wjob[w]], cmd |-> wjob[w]]

\* An operation is interrupted only for a newer command of its car: the interrupt
\* of a handler never hits its own command or a later one.
AbortOnlyForNewer ==
    \A w \in Worker :
        toldAt[w] # "no" => \E u \in cancelled : NewerThan(u, wjob[w])

Idle == \A t \in Task : status[t] \in {"NEW", "FINISHED", "FAILED"}
Newest(c) == latest[c]

\* When everything is over, the car was last driven by the newest command, if that
\* came from MQTT and any of its frames got through: unless an older command
\* took its snapshot between the newer handler's interrupt and the end.
LastCommandWinsUnlessRaced ==
    \A c \in Device :
        Idle /\ Newest(c) \in Mqtt \cap drove =>
            line[c] = Newest(c) \/ line[c] \in raced

\* mqtt_command_dispatcher.cpp:114 and car_control_manager.cpp:69: the device layer
\* interrupts the command that is being carried out, and an operation aborts as
\* superseded by a newer one; so the newest command is the one the car is left with.
LastCommandWins ==
    \A c \in Device :
        Idle /\ Newest(c) \in Mqtt \cap drove => line[c] = Newest(c)

\* Every command that is accepted ends, however long others hold the car.
EveryCommandEnds ==
    \A t \in Task : (subPc[t] = "enqueued") ~> (status[t] \in {"FINISHED", "FAILED"} \/ ~up)
=============================================================================
