---------------------------- MODULE JobScheduler ----------------------------
(***************************************************************************)
(* src/task/JobScheduler.cpp: clients (the MQTT callback thread and one    *)
(* detached thread per HTTP request) call submit(); one dispatcher thread  *)
(* moves tasks from readyQueue_ to the thread pool; pool workers execute   *)
(* the lambda of dispatchLoop.                                             *)
(*                                                                         *)
(* Every task is one call of submit().  A critical section of mtx_ or      *)
(* carControlMtx_ is one action; what happens between two sections is a    *)
(* step of its own.  The one place where mtx_ is visibly held is the       *)
(* moment between the dispatcher's evaluation of its wait predicate and    *)
(* its going to sleep (dpc = "checked"), because the destructor changes    *)
(* stop_ without taking mtx_.                                              *)
(***************************************************************************)
EXTENDS Naturals, Sequences, SequencesExt

CONSTANTS Task,       \* the commands clients submit
          Worker,     \* the threads of pool_ (8 in main.cpp)
          Car,        \* the car ids
          CarOf,      \* the car of a CarControlTask, NoCar for the other tasks
          Mqtt,       \* the tasks whose source is "mqtt"; the others are "http"
          Acking,     \* the tasks whose run() publishes an ack first
          Malformed,  \* HTTP car commands whose motor field is not a number
          NoTask, NoCar

ASSUME SchedulerAssumption ==
    /\ NoTask \notin Task
    /\ NoCar \notin Car
    /\ CarOf \in [Task -> Car \cup {NoCar}]
    /\ Mqtt \subseteq Task
    /\ Acking \subseteq Task
    /\ \A t \in Task : CarOf[t] # NoCar => t \in Acking
    \* handleOperateCar reads the motors itself, so such a command never gets here from MQTT
    /\ Malformed \subseteq {t \in Task \ Mqtt : CarOf[t] # NoCar}

VARIABLES
    subPc,       \* where each submit() call is
    readyQueue,  \* readyQueue_
    latest,      \* latestCarControlTask_, NoTask when the car has no entry
    status,      \* TaskControlBlock::status
    runningSet,  \* runningSet_
    dpc,         \* where the dispatcher thread is
    tcb,         \* the dispatcher's local tcb
    dtorPc,      \* how far ~JobScheduler is: stop_ is TRUE once it is not "alive"
    phase,       \* where each worker is in the lambda
    replies,     \* what the task's publisher was given, in order
    up           \* FALSE once std::terminate has ended the process

VARIABLES workQueue, wpc, wjob          \* the thread pool

VARIABLES accepted,  \* history: the tasks in the order they entered readyQueue_
          started    \* history: the tasks in the order workers took them

Pool == INSTANCE ThreadPool WITH Job <- Task, NoJob <- NoTask

queueVars == <<readyQueue, latest, accepted>>
taskVars  == <<status, runningSet, replies>>
poolVars  == <<workQueue, wpc, wjob>>
dispVars  == <<dpc, tcb>>
workVars  == <<phase, started>>
vars == <<subPc, queueVars, taskVars, dispVars, workVars, dtorPc, up, poolVars>>

IsCar(t) == CarOf[t] # NoCar
stop == dtorPc # "alive"

\* mtx_ is held across two steps only while the dispatcher is about to sleep.
MtxFree == dpc # "checked"

\* Every accepted task has its entry in taskTable_, and entries are never removed.
taskTable == {t \in Task : subPc[t] \in {"enqueued", "returned"}}

\* getTaskStatus: an id the table does not know is reported as FAILED.
GetTaskStatus(t) == IF t \in taskTable THEN status[t] ELSE "FAILED"

Init ==
    /\ subPc = [t \in Task |-> "none"]
    /\ readyQueue = <<>>
    /\ latest = [c \in Car |-> NoTask]
    /\ status = [t \in Task |-> "NEW"]
    /\ runningSet = {}
    /\ dpc = "test"
    /\ tcb = NoTask
    /\ dtorPc = "alive"
    /\ phase = [w \in Worker |-> "none"]
    /\ replies = [t \in Task |-> <<>>]
    /\ up = TRUE
    /\ accepted = <<>>
    /\ started = <<>>
    /\ Pool!PoolInit

-----------------------------------------------------------------------------
(* Clients: submit().                                                      *)

\* Mutant of AllocId: the car's latest command is recorded before the task is queued.
AllocIdRecordsLatest(t) ==
    /\ subPc[t] = "none"
    /\ dtorPc = "alive"
    /\ t \in Mqtt => \A u \in Mqtt : subPc[u] \in {"none", "returned"}
    /\ status' = [status EXCEPT ![t] = "READY"]
    /\ subPc' = [subPc EXCEPT ![t] = "hasId"]
    /\ latest' = IF IsCar(t) THEN [latest EXCEPT ![CarOf[t]] = t] ELSE latest
    /\ UNCHANGED <<readyQueue, accepted, runningSet, replies, dispVars, workVars, dtorPc, up,
                   poolVars>>

\* Lines 24-30: the control block, with an id from the atomic counter, drawn
\* before mtx_ is taken (the id is the task itself here).  MQTT messages are
\* handled by one callback thread, one after the other.
AllocId(t) ==
    /\ subPc[t] = "none"
    /\ dtorPc = "alive"
    /\ t \in Mqtt => \A u \in Mqtt : subPc[u] \in {"none", "returned"}
    /\ status' = [status EXCEPT ![t] = "READY"]
    /\ subPc' = [subPc EXCEPT ![t] = "hasId"]
    /\ UNCHANGED <<queueVars, runningSet, replies, dispVars, workVars, dtorPc, up, poolVars>>

\* Lines 33-43: under mtx_ and, for a car command, carControlMtx_ inside it.
Enqueue(t) ==
    /\ subPc[t] = "hasId"
    /\ MtxFree
    /\ readyQueue' = Append(readyQueue, t)
    /\ accepted' = Append(accepted, t)
    /\ latest' = IF IsCar(t) THEN [latest EXCEPT ![CarOf[t]] = t] ELSE latest
    /\ subPc' = [subPc EXCEPT ![t] = "enqueued"]
    /\ UNCHANGED <<taskVars, dispVars, workVars, dtorPc, up, poolVars>>

\* Lines 44-45: notify_one wakes the dispatcher if it sleeps; submit returns.
Notify(t) ==
    /\ subPc[t] = "enqueued"
    /\ dpc' = IF dpc = "asleep" THEN "test" ELSE dpc
    /\ subPc' = [subPc EXCEPT ![t] = "returned"]
    /\ UNCHANGED <<queueVars, taskVars, tcb, workVars, dtorPc, up, poolVars>>

-----------------------------------------------------------------------------
(* The dispatcher thread: dispatchLoop().                                  *)

\* Lines 73 and 78-82: stop_ is seen, at the loop head or by the predicate.
DispatchStops ==
    /\ dpc = "test"
    /\ stop
    /\ dpc' = "exited"
    /\ UNCHANGED <<subPc, queueVars, taskVars, tcb, workVars, dtorPc, up, poolVars>>

\* Line 78: the predicate is false; mtx_ is still held.
DispatchFindsNothing ==
    /\ dpc = "test"
    /\ ~stop
    /\ readyQueue = <<>>
    /\ dpc' = "checked"
    /\ UNCHANGED <<subPc, queueVars, taskVars, tcb, workVars, dtorPc, up, poolVars>>

\* cv_.wait releases mtx_ and blocks.
DispatchSleeps ==
    /\ dpc = "checked"
    /\ dpc' = "asleep"
    /\ UNCHANGED <<subPc, queueVars, taskVars, tcb, workVars, dtorPc, up, poolVars>>

\* A condition variable may wake without being notified; the predicate is tested again.
SpuriousWakeUp ==
    /\ dpc = "asleep"
    /\ dpc' = "test"
    /\ UNCHANGED <<subPc, queueVars, taskVars, tcb, workVars, dtorPc, up, poolVars>>

\* Lines 84-89: pop the oldest task and mark it running.
DispatchTakes ==
    /\ dpc = "test"
    /\ ~stop
    /\ readyQueue # <<>>
    /\ tcb' = Head(readyQueue)
    /\ readyQueue' = Tail(readyQueue)
    /\ status' = [status EXCEPT ![Head(readyQueue)] = "RUNNING"]
    /\ runningSet' = runningSet \cup {Head(readyQueue)}
    /\ dpc' = "handoff"
    /\ UNCHANGED <<subPc, latest, accepted, replies, workVars, dtorPc, up, poolVars>>

\* Line 92: the lambda goes to the pool, outside mtx_.
DispatchHandsOff ==
    /\ dpc = "handoff"
    /\ Pool!Submit(tcb)
    /\ tcb' = NoTask
    /\ dpc' = "test"
    /\ UNCHANGED <<subPc, queueVars, taskVars, workVars, dtorPc, up>>

-----------------------------------------------------------------------------
(* The pool workers: worker_thread() and the lambda of lines 92-161.       *)

\* A worker takes a job and enters the lambda.
TakeJob(w) ==
    /\ Pool!TryPop(w)
    /\ started' = Append(started, Head(workQueue))
    /\ phase' = [phase EXCEPT ![w] = IF IsCar(Head(workQueue)) THEN "check" ELSE "run"]
    /\ UNCHANGED <<subPc, queueVars, taskVars, dispVars, dtorPc, up>>

WorkerSleeps(w) ==
    /\ Pool!FallAsleep(w)
    /\ UNCHANGED <<subPc, queueVars, taskVars, dispVars, workVars, dtorPc, up>>

WorkerWakes(w) ==
    /\ Pool!WakeUp(w)
    /\ UNCHANGED <<subPc, queueVars, taskVars, dispVars, workVars, dtorPc, up>>

\* Lines 101-112: under carControlMtx_.  The weak_ptr never expires, because
\* taskTable_ keeps every control block alive.
IsLatest(t) == latest[CarOf[t]] \in {NoTask, t}

CheckLatest(w) ==
    /\ phase[w] = "check"
    /\ phase' = [phase EXCEPT ![w] = IF IsLatest(wjob[w]) THEN "run" ELSE "superseded"]
    /\ UNCHANGED <<subPc, queueVars, taskVars, dispVars, started, dtorPc, up, poolVars>>

\* Mutant of AnswerSuperseded: the lambda goes on to run() after the answer.
AnswerSupersededGoesOn(w) ==
    /\ phase[w] = "superseded"
    /\ wjob[w] \notin Malformed
    /\ replies' = [replies EXCEPT ![wjob[w]] = Append(@, "superseded")]
    /\ status' = [status EXCEPT ![wjob[w]] = "FINISHED"]
    /\ phase' = [phase EXCEPT ![w] = "run"]
    /\ UNCHANGED <<subPc, queueVars, runningSet, dispVars, started, dtorPc, up, poolVars>>

\* Lines 114-144: a superseded command is answered with a success result and
\* is FINISHED.  The lambda returns here: runningSet_ keeps the id.
AnswerSuperseded(w) ==
    /\ phase[w] = "superseded"
    /\ wjob[w] \notin Malformed
    /\ replies' = [replies EXCEPT ![wjob[w]] = Append(@, "superseded")]
    /\ status' = [status EXCEPT ![wjob[w]] = "FINISHED"]
    /\ phase' = [phase EXCEPT ![w] = "none"]
    /\ Pool!JobReturns(w)
    /\ UNCHANGED <<subPc, queueVars, runningSet, dispVars, started, dtorPc, up>>

\* Lines 120-121 are outside the try block: getMotor1() of a malformed payload
\* throws out of the thread, and std::terminate ends the process.
SupersededThrows(w) ==
    /\ phase[w] = "superseded"
    /\ wjob[w] \in Malformed
    /\ up' = FALSE
    /\ UNCHANGED <<subPc, queueVars, taskVars, dispVars, workVars, dtorPc, poolVars>>

\* task.cpp: run() begins with the ack, for the tasks that have one.
PublishAck(w) ==
    /\ phase[w] = "run"
    /\ wjob[w] \in Acking
    /\ replies' = [replies EXCEPT ![wjob[w]] = Append(@, "ack")]
    /\ phase' = [phase EXCEPT ![w] = "acked"]
    /\ UNCHANGED <<subPc, queueVars, status, runningSet, dispVars, started, dtorPc, up,
                   poolVars>>

\* The task's own work is going on: after the ack, or at once without one.
Executing(w) ==
    phase[w] = "acked" \/ (phase[w] = "run" /\ wjob[w] \notin Acking)

\* run() publishes its result; a malformed car command gets an error result
\* (task.cpp:205-211).  Most tasks sleep for a second before they return.
PublishResult(w) ==
    /\ Executing(w)
    /\ replies' = [replies EXCEPT ![wjob[w]] = Append(@, "result")]
    /\ phase' = [phase EXCEPT ![w] = "published"]
    /\ UNCHANGED <<subPc, queueVars, status, runningSet, dispVars, started, dtorPc, up,
                   poolVars>>

\* Lines 149-151: run() has returned.
RunReturns(w) ==
    /\ phase[w] = "published"
    /\ status' = [status EXCEPT ![wjob[w]] = "FINISHED"]
    /\ phase' = [phase EXCEPT ![w] = "erase"]
    /\ UNCHANGED <<subPc, queueVars, runningSet, replies, dispVars, started, dtorPc, up,
                   poolVars>>

\* Lines 152-154: run() throws before its result is published.
RunThrows(w) ==
    /\ Executing(w)
    /\ status' = [status EXCEPT ![wjob[w]] = "FAILED"]
    /\ phase' = [phase EXCEPT ![w] = "erase"]
    /\ UNCHANGED <<subPc, queueVars, runningSet, replies, dispVars, started, dtorPc, up,
                   poolVars>>

\* Lines 155-161: under mtx_, then the lambda returns to the worker loop.
EraseRunning(w) ==
    /\ phase[w] = "erase"
    /\ MtxFree
    /\ runningSet' = runningSet \ {wjob[w]}
    /\ phase' = [phase EXCEPT ![w] = "none"]
    /\ Pool!JobReturns(w)
    /\ UNCHANGED <<subPc, queueVars, status, replies, dispVars, started, dtorPc, up>>

-----------------------------------------------------------------------------
(* ~JobScheduler, lines 12-16, up to the join.  No client is inside        *)
(* submit() when it begins.                                                *)

DestructorStops ==
    /\ dtorPc = "alive"
    /\ \A t \in Task : subPc[t] \in {"none", "returned"}
    /\ dtorPc' = "stopped"
    /\ UNCHANGED <<subPc, queueVars, taskVars, dispVars, workVars, up, poolVars>>

DestructorNotifies ==
    /\ dtorPc = "stopped"
    /\ dpc' = IF dpc = "asleep" THEN "test" ELSE dpc
    /\ dtorPc' = "joining"
    /\ UNCHANGED <<subPc, queueVars, taskVars, tcb, workVars, up, poolVars>>

-----------------------------------------------------------------------------
Client(t) == AllocId(t) \/ Enqueue(t) \/ Notify(t)

Dispatcher ==
    \/ DispatchStops \/ DispatchFindsNothing \/ DispatchSleeps
    \/ DispatchTakes \/ DispatchHandsOff

Lambda(w) ==
    \/ CheckLatest(w) \/ AnswerSuperseded(w) \/ SupersededThrows(w)
    \/ PublishAck(w) \/ PublishResult(w) \/ RunReturns(w) \/ RunThrows(w) \/ EraseRunning(w)

WorkerThread(w) == TakeJob(w) \/ WorkerSleeps(w) \/ WorkerWakes(w) \/ Lambda(w)

Destructor == DestructorStops \/ DestructorNotifies

Next ==
    /\ up
    /\ \/ \E t \in Task : Client(t)
       \/ Dispatcher
       \/ SpuriousWakeUp
       \/ \E w \in Worker : WorkerThread(w)
       \/ Destructor

(* The operating system runs every thread that can run: the dispatcher, each
   worker, and a client that is inside submit().  A thread that waits for mtx_
   gets it if it is released again and again, even by a dispatcher that keeps
   waking spuriously (strong fairness).  run() comes back: every device operation
   has a timeout.  Nothing makes clients submit, conditions wake spuriously, or
   the destructor start. *)
Fairness ==
    /\ WF_vars(up /\ Dispatcher)
    /\ \A w \in Worker :
         /\ WF_vars(up /\ (TakeJob(w) \/ WorkerWakes(w) \/ Lambda(w)))
         /\ SF_vars(up /\ EraseRunning(w))
    /\ \A t \in Task : SF_vars(up /\ Enqueue(t)) /\ WF_vars(up /\ Notify(t))
    /\ WF_vars(up /\ DestructorNotifies)

Spec == Init /\ [][Next]_vars /\ Fairness

-----------------------------------------------------------------------------
(* Properties.                                                             *)

\* The types of the variables, and the agreement between what a thread holds
\* and where it is (the local tcb of the dispatcher, the job of a worker).
TypeOK ==
    /\ subPc \in [Task -> {"none", "hasId", "enqueued", "returned"}]
    /\ readyQueue \in Seq(Task)
    /\ latest \in [Car -> Task \cup {NoTask}]
    /\ status \in [Task -> {"NEW", "READY", "RUNNING", "FINISHED", "FAILED"}]
    /\ runningSet \subseteq Task
    /\ dpc \in {"test", "checked", "asleep", "handoff", "exited"}
    /\ tcb \in Task \cup {NoTask}
    /\ (dpc = "handoff") <=> (tcb # NoTask)
    /\ dtorPc \in {"alive", "stopped", "joining"}
    /\ phase \in [Worker -> {"none", "check", "superseded", "run", "acked", "published",
                                 "erase"}]
    /\ replies \in [Task -> Seq({"ack", "result", "superseded"})]
    /\ up \in BOOLEAN
    /\ accepted \in Seq(Task)
    /\ started \in Seq(Task)
    /\ Pool!PoolTypeOK
    /\ \A w \in Worker : (wpc[w] = "busy") <=> (wjob[w] # NoTask)
    /\ \A w \in Worker : (wpc[w] = "busy") <=> (phase[w] # "none")

InHand == IF dpc = "handoff" THEN <<tcb>> ELSE <<>>

\* Across the two queues and the hands of the dispatcher, no task is lost,
\* duplicated or overtaken: what clients put in is, in this order, what workers
\* have taken, what waits in the pool, what the dispatcher holds and what is ready.
QueueOrder == accepted = started \o workQueue \o InHand \o readyQueue

\* submit() puts a task into the ready queue once, so with QueueOrder each task
\* is executed at most once, and never by two workers.
AcceptedOnce ==
    /\ \A i, j \in 1 .. Len(accepted) : accepted[i] = accepted[j] => i = j
    /\ \A i \in 1 .. Len(accepted) : accepted[i] \in taskTable
    /\ \A v, w \in Worker : wjob[v] = wjob[w] /\ wjob[v] # NoTask => v = w

\* Only a command with a newer one behind it is ever skipped: the newest command
\* of a car is always carried out.
OnlyOlderSuperseded ==
    \A t \in Task :
        "superseded" \in ToSet(replies[t]) =>
            \E i, j \in 1 .. Len(accepted) :
                i < j /\ accepted[i] = t /\ CarOf[accepted[j]] = CarOf[t]

\* A task is answered exactly once: by its result, with or without an ack before,
\* or as superseded and then without an ack; a task that threw or is not over yet
\* has no answer.  getTaskStatus() says FINISHED just of those answered.
Published(t) == \E w \in Worker : phase[w] = "published" /\ wjob[w] = t
OneAnswer ==
    \A t \in Task :
        replies[t] \in IF GetTaskStatus(t) = "FINISHED" \/ Published(t)
                      THEN {<<"superseded">>, <<"result">>, <<"ack", "result">>}
                      ELSE {<<>>, <<"ack">>}

Svc == INSTANCE TaskService WITH
         Server   <- Worker,
         nStarted <- Len(started),
         serving  <- [w \in Worker |->
                        IF phase[w] \in {"none", "erase"} THEN NoTask ELSE wjob[w]],
         answered <- {t \in Task : status[t] \in {"FINISHED", "FAILED"}},
         open     <- up /\ ~stop

\* The scheduler with its threads, queues and locks implements TaskService.
ImplementsTaskService == Svc!Safety

\* JobScheduler.cpp:115 says a superseded command counts as finished normally,
\* early: answering it never ends the process.
SupersededEndsNormally == up
=============================================================================
