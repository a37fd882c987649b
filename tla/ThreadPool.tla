----------------------------- MODULE ThreadPool -----------------------------
(***************************************************************************)
(* The worker pool of include/common/threads/thread_pool.h: one shared     *)
(* FIFO of jobs (threadsafe_queue.h) and a fixed set of worker threads.    *)
(*                                                                         *)
(* A worker that finds the queue empty sleeps on wake_cv WITHOUT a         *)
(* predicate and for at most 50 ms, so a notify_one that arrives while no  *)
(* worker sleeps is simply lost.  Time is abstracted: WakeUp stands for    *)
(* the notification, the timeout and a spurious wake-up, which have the    *)
(* same effect on the worker.  The destructor (done) is not modelled: the  *)
(* pool lives as long as the process.                                      *)
(***************************************************************************)
EXTENDS Naturals, Sequences

CONSTANTS Worker,   \* the worker threads
          Job,      \* the jobs that can be submitted
          NoJob     \* what an idle worker holds

VARIABLES workQueue,  \* ThreadSafeQueue::data_queue
          wpc,        \* where each worker is in worker_thread()
          wjob        \* the std::function a worker is running

poolVars == <<workQueue, wpc, wjob>>

PoolTypeOK ==
    /\ workQueue \in Seq(Job)
    /\ wpc \in [Worker -> {"poll", "asleep", "busy"}]
    /\ wjob \in [Worker -> Job \cup {NoJob}]

PoolInit ==
    /\ workQueue = <<>>
    /\ wpc = [w \in Worker |-> "poll"]
    /\ wjob = [w \in Worker |-> NoJob]

\* ThreadPool::submit: push under the queue's mutex, then notify_one.
Submit(j) ==
    /\ workQueue' = Append(workQueue, j)
    /\ UNCHANGED <<wpc, wjob>>

\* Mutants of TryPop: the queue as a stack; front() without pop().
TryPopNewest(w) ==
    /\ wpc[w] = "poll"
    /\ workQueue # <<>>
    /\ wjob' = [wjob EXCEPT ![w] = workQueue[Len(workQueue)]]
    /\ workQueue' = SubSeq(workQueue, 1, Len(workQueue) - 1)
    /\ wpc' = [wpc EXCEPT ![w] = "busy"]

TryPopKeeps(w) ==
    /\ wpc[w] = "poll"
    /\ workQueue # <<>>
    /\ wjob' = [wjob EXCEPT ![w] = Head(workQueue)]
    /\ wpc' = [wpc EXCEPT ![w] = "busy"]
    /\ UNCHANGED workQueue

\* try_pop succeeds: the worker leaves the queue with the oldest job.
TryPop(w) ==
    /\ wpc[w] = "poll"
    /\ workQueue # <<>>
    /\ wjob' = [wjob EXCEPT ![w] = Head(workQueue)]
    /\ workQueue' = Tail(workQueue)
    /\ wpc' = [wpc EXCEPT ![w] = "busy"]

\* try_pop fails and done is false: the worker goes to sleep on wake_cv.
\* A job pushed after the failed try_pop does not stop it.
FallAsleep(w) ==
    /\ wpc[w] = "poll"
    /\ workQueue = <<>>
    /\ wpc' = [wpc EXCEPT ![w] = "asleep"]
    /\ UNCHANGED <<workQueue, wjob>>

\* wait_for returns: notified, timed out after 50 ms, or spuriously.
WakeUp(w) ==
    /\ wpc[w] = "asleep"
    /\ wpc' = [wpc EXCEPT ![w] = "poll"]
    /\ UNCHANGED <<workQueue, wjob>>

\* task() returns and the worker looks for the next job.
JobReturns(w) ==
    /\ wpc[w] = "busy"
    /\ wpc' = [wpc EXCEPT ![w] = "poll"]
    /\ wjob' = [wjob EXCEPT ![w] = NoJob]
    /\ UNCHANGED workQueue
=============================================================================
