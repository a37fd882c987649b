------------------------- MODULE CarCommands_proofs -------------------------
(***************************************************************************)
(* Theorems about JobScheduler, for any tasks, workers and cars, and then  *)
(* about CarCommands, which extends it with the device layer.  What is     *)
(* proved of JobScheduler and of CarControl carries over, because every    *)
(* step of the composition is a step of the one or the other, or leaves it *)
(* alone; what is new is how the two mechanisms meet.                      *)
(***************************************************************************)
EXTENDS CarCommands, SequenceTheorems, TLAPS

USE SchedulerAssumption

-----------------------------------------------------------------------------
(* Type correctness.                                                       *)

\* Every step of the scheduler keeps the types, and the agreement of the places of
\* the dispatcher and of the workers with what they hold.
LEMMA TypeStep == TypeOK /\ [Next]_vars => TypeOK'
<1> SUFFICES ASSUME TypeOK, [Next]_vars PROVE TypeOK'
  OBVIOUS
<1> USE DEF TypeOK, Pool!PoolTypeOK
<1>1. ASSUME NEW t \in Task, AllocId(t) PROVE TypeOK'
  BY <1>1 DEF AllocId, queueVars, dispVars, workVars, poolVars
<1>2. ASSUME NEW t \in Task, Enqueue(t) PROVE TypeOK'
  BY <1>2 DEF Enqueue, taskVars, dispVars, workVars, poolVars, IsCar
<1>3. ASSUME NEW t \in Task, Notify(t) PROVE TypeOK'
  BY <1>3 DEF Notify, queueVars, taskVars, workVars, poolVars
<1>4. CASE Dispatcher \/ SpuriousWakeUp
  <2>1. CASE DispatchStops
    BY <2>1 DEF DispatchStops, queueVars, taskVars, workVars, poolVars
  <2>2. CASE DispatchFindsNothing
    BY <2>2 DEF DispatchFindsNothing, queueVars, taskVars, workVars, poolVars
  <2>3. CASE DispatchSleeps
    BY <2>3 DEF DispatchSleeps, queueVars, taskVars, workVars, poolVars
  <2>4. CASE DispatchTakes
    BY <2>4 DEF DispatchTakes, workVars, poolVars
  <2>5. CASE DispatchHandsOff
    BY <2>5 DEF DispatchHandsOff, Pool!Submit, queueVars, taskVars, workVars
  <2>6. CASE SpuriousWakeUp
    BY <2>6 DEF SpuriousWakeUp, queueVars, taskVars, workVars, poolVars
  <2> QED BY <1>4, <2>1, <2>2, <2>3, <2>4, <2>5, <2>6 DEF Dispatcher
<1>5. ASSUME NEW w \in Worker, WorkerThread(w) PROVE TypeOK'
  <2> USE DEF queueVars, dispVars
  <2>1. CASE TakeJob(w)
    BY <2>1 DEF TakeJob, Pool!TryPop, taskVars
  <2>2. CASE WorkerSleeps(w)
    BY <2>2 DEF WorkerSleeps, Pool!FallAsleep, taskVars, workVars
  <2>10. CASE WorkerWakes(w)
    BY <2>10 DEF WorkerWakes, Pool!WakeUp, taskVars, workVars
  <2>3. CASE CheckLatest(w)
    BY <2>3 DEF CheckLatest, taskVars, poolVars
  <2>4. CASE AnswerSuperseded(w)
    BY <2>4 DEF AnswerSuperseded, Pool!JobReturns
  <2>5. CASE SupersededThrows(w)
    BY <2>5 DEF SupersededThrows, taskVars, workVars, poolVars
  <2>6. CASE PublishAck(w)
    BY <2>6 DEF PublishAck, poolVars
  <2>7. CASE PublishResult(w)
    BY <2>7 DEF PublishResult, Executing, poolVars
  <2>11. CASE RunReturns(w)
    BY <2>11 DEF RunReturns, poolVars
  <2>8. CASE RunThrows(w)
    BY <2>8 DEF RunThrows, Executing, poolVars
  <2>9. CASE EraseRunning(w)
    BY <2>9 DEF EraseRunning, Pool!JobReturns
  <2> QED
    BY <1>5, <2>1, <2>2, <2>3, <2>4, <2>5, <2>6, <2>7, <2>8, <2>9, <2>10, <2>11
    DEF WorkerThread, Lambda
<1>6. CASE Destructor
  BY <1>6 DEF Destructor, DestructorStops, DestructorNotifies, queueVars, taskVars, dispVars,
     workVars, poolVars
<1>7. CASE UNCHANGED vars
  BY <1>7 DEF vars, queueVars, taskVars, dispVars, workVars, poolVars
<1> QED
  BY <1>1, <1>2, <1>3, <1>4, <1>5, <1>6, <1>7 DEF Next, Client

\* The scheduler's state always has its types, whatever the threads do.
THEOREM TypeCorrect == Spec => []TypeOK
<1>1. Init => TypeOK
  BY DEF Init, TypeOK, Pool!PoolInit, Pool!PoolTypeOK
<1> QED BY <1>1, TypeStep, PTL DEF Spec

-----------------------------------------------------------------------------
(* Lemmas on sequences.                                                    *)

\* Moving the head of a queue to the end of what precedes it changes nothing.
LEMMA MoveHead ==
  ASSUME NEW S, NEW s \in Seq(S), NEW q \in Seq(S), q # <<>>
  PROVE  Append(s, Head(q)) \o Tail(q) = s \o q
<1>1. /\ Append(s, Head(q)) \in Seq(S) /\ Len(Append(s, Head(q))) = Len(s) + 1
      /\ Tail(q) \in Seq(S) /\ Len(Tail(q)) = Len(q) - 1
      /\ Len(q) \in Nat \ {0} /\ Len(s) \in Nat
  BY HeadTailProperties, AppendProperties, EmptySeq, LenProperties
<1>2. /\ Append(s, Head(q)) \o Tail(q) \in Seq(S) /\ s \o q \in Seq(S)
      /\ Len(Append(s, Head(q)) \o Tail(q)) = Len(s \o q)
      /\ Len(s \o q) = Len(s) + Len(q)
  BY <1>1, ConcatProperties
<1>3. ASSUME NEW i \in 1 .. Len(Append(s, Head(q)) \o Tail(q))
      PROVE  (Append(s, Head(q)) \o Tail(q))[i] = (s \o q)[i]
  BY <1>1, <1>2, HeadTailProperties, AppendProperties, ConcatProperties
<1> QED BY <1>2, <1>3, SeqEqual

\* Appending to a concatenation appends to its second part.
LEMMA AppendToConcat ==
  ASSUME NEW S, NEW s \in Seq(S), NEW q \in Seq(S), NEW e \in S
  PROVE  s \o Append(q, e) = Append(s \o q, e)
<1>1. <<e>> \in Seq(S) /\ s \o q \in Seq(S)
  BY ConcatProperties
<1>2. Append(s \o q, e) = (s \o q) \o <<e>>
  BY <1>1, AppendIsConcat
<1>3. (s \o q) \o <<e>> = s \o (q \o <<e>>)
  BY <1>1, ConcatAssociative
<1>4. q \o <<e>> = Append(q, e)
  BY AppendIsConcat
<1> QED BY <1>2, <1>3, <1>4

-----------------------------------------------------------------------------
(* The order of the queues.                                                *)

\* A step that leaves the two queues, the histories and the dispatcher's hands
\* alone keeps their order.
LEMMA QueuesUntouched ==
  ASSUME QueueOrder, UNCHANGED <<accepted, started, workQueue, readyQueue, tcb>>,
         (dpc = "handoff")' = (dpc = "handoff")
  PROVE  QueueOrder'
BY DEF QueueOrder, InHand

\* The dispatcher's hand is a sequence of tasks.
LEMMA InHandType == TypeOK => InHand \in Seq(Task)
BY DEF TypeOK, InHand

\* Every step keeps the order of the queues.
LEMMA QueueOrderStep == TypeOK /\ QueueOrder /\ [Next]_vars => QueueOrder'
<1> SUFFICES ASSUME TypeOK, QueueOrder, [Next]_vars PROVE QueueOrder'
  OBVIOUS
<1> DEFINE taken == started \o workQueue
<1> DEFINE front == taken \o InHand
<1>0. /\ started \in Seq(Task) /\ workQueue \in Seq(Task) /\ readyQueue \in Seq(Task)
      /\ InHand \in Seq(Task)
      /\ taken \in Seq(Task) /\ front \in Seq(Task)
  BY InHandType, ConcatProperties DEF TypeOK, Pool!PoolTypeOK
<1>1. ASSUME NEW t \in Task, AllocId(t) PROVE QueueOrder'
  BY <1>1, QueuesUntouched DEF AllocId, queueVars, dispVars, workVars, poolVars
<1>2. ASSUME NEW t \in Task, Enqueue(t) PROVE QueueOrder'
  <2>1. /\ readyQueue' = Append(readyQueue, t) /\ accepted' = Append(accepted, t)
        /\ UNCHANGED <<started, workQueue, InHand>>
    BY <1>2 DEF Enqueue, workVars, poolVars, dispVars, InHand
  <2>2. front \o Append(readyQueue, t) = Append(front \o readyQueue, t)
    BY <1>0, AppendToConcat
  <2> QED BY <2>1, <2>2 DEF QueueOrder
<1>3. ASSUME NEW t \in Task, Notify(t) PROVE QueueOrder'
  BY <1>3, QueuesUntouched DEF Notify, queueVars, workVars, poolVars
<1>4. CASE DispatchTakes
  <2>1. /\ UNCHANGED <<accepted, started, workQueue>>
        /\ InHand = <<>> /\ InHand' = <<Head(readyQueue)>>
        /\ readyQueue # <<>> /\ readyQueue' = Tail(readyQueue)
        /\ Head(readyQueue) \in Task
    BY <1>4, <1>0, HeadTailProperties DEF DispatchTakes, workVars, poolVars, InHand
  <2>2. front = taken
    BY <2>1, <1>0, ConcatEmptySeq
  <2>3. taken \o <<Head(readyQueue)>> = Append(taken, Head(readyQueue))
    BY <2>1, <1>0, AppendIsConcat
  <2>4. Append(taken, Head(readyQueue)) \o Tail(readyQueue) = taken \o readyQueue
    BY <2>1, <1>0, MoveHead
  <2> QED BY <2>1, <2>2, <2>3, <2>4 DEF QueueOrder
<1>5. CASE DispatchHandsOff
  <2>1. /\ UNCHANGED <<accepted, started, readyQueue>>
        /\ InHand = <<tcb>> /\ InHand' = <<>> /\ tcb \in Task
        /\ workQueue' = Append(workQueue, tcb)
    BY <1>5 DEF DispatchHandsOff, Pool!Submit, queueVars, workVars, InHand, TypeOK
  <2>2. started \o Append(workQueue, tcb) = Append(taken, tcb)
    BY <2>1, <1>0, AppendToConcat
  <2>3. Append(taken, tcb) = front
    BY <2>1, <1>0, AppendIsConcat
  <2>4. front \o <<>> = front
    BY <1>0, ConcatEmptySeq
  <2> QED BY <2>1, <2>2, <2>3, <2>4 DEF QueueOrder
<1>6. CASE DispatchStops \/ DispatchFindsNothing \/ DispatchSleeps \/ SpuriousWakeUp
  BY <1>6, QueuesUntouched DEF DispatchStops, DispatchFindsNothing, DispatchSleeps,
     SpuriousWakeUp, queueVars, workVars, poolVars
<1>7. ASSUME NEW w \in Worker, TakeJob(w) PROVE QueueOrder'
  <2>1. /\ UNCHANGED <<accepted, InHand, readyQueue>>
        /\ workQueue # <<>> /\ workQueue' = Tail(workQueue)
        /\ started' = Append(started, Head(workQueue))
    BY <1>7 DEF TakeJob, Pool!TryPop, queueVars, dispVars, InHand
  <2>2. Append(started, Head(workQueue)) \o Tail(workQueue) = taken
    BY <2>1, <1>0, MoveHead
  <2> QED BY <2>1, <2>2 DEF QueueOrder
<1>8. ASSUME NEW w \in Worker,
             WorkerSleeps(w) \/ WorkerWakes(w) \/ Lambda(w)
      PROVE  QueueOrder'
  BY <1>8, QueuesUntouched DEF WorkerSleeps, WorkerWakes, Pool!FallAsleep, Pool!WakeUp,
     Pool!JobReturns, Lambda, CheckLatest, AnswerSuperseded, SupersededThrows, PublishAck,
     PublishResult, RunReturns, RunThrows, EraseRunning, queueVars, dispVars, workVars, poolVars
<1>9. CASE Destructor
  BY <1>9, QueuesUntouched DEF Destructor, DestructorStops, DestructorNotifies, queueVars,
     dispVars, workVars, poolVars
<1>10. CASE UNCHANGED vars
  BY <1>10, QueuesUntouched DEF vars, queueVars, dispVars, workVars, poolVars
<1> QED
  BY <1>1, <1>2, <1>3, <1>4, <1>5, <1>6, <1>7, <1>8, <1>9, <1>10
  DEF Next, Client, Dispatcher, WorkerThread

\* No task is lost, duplicated or overtaken between submit() and the worker that
\* takes it, across both queues and the dispatcher's hands.
THEOREM QueueOrderCorrect == Spec => []QueueOrder
<1>1. Init => QueueOrder
  BY DEF Init, Pool!PoolInit, QueueOrder, InHand
<1> QED BY <1>1, QueueOrderStep, TypeCorrect, PTL DEF Spec

-----------------------------------------------------------------------------
(* Each task is accepted once and executed by one worker.                  *)

\* What QueueOrder says of positions: workers take the tasks in the order of
\* acceptance, and the heads of the two queues lie behind all that was taken.
LEMMA Positions ==
  ASSUME TypeOK, QueueOrder
  PROVE  /\ Len(started) \in Nat /\ Len(accepted) \in Nat /\ Len(started) <= Len(accepted)
         /\ \A i \in 1 .. Len(started) : accepted[i] = started[i]
         /\ workQueue # <<>> => /\ Len(started) + 1 \in 1 .. Len(accepted)
                                /\ accepted[Len(started) + 1] = Head(workQueue)
         /\ readyQueue # <<>> => \E k \in Len(started) + 1 .. Len(accepted) :
                                    accepted[k] = Head(readyQueue)
<1> DEFINE taken == started \o workQueue
<1> DEFINE front == taken \o InHand
<1>1. /\ started \in Seq(Task) /\ workQueue \in Seq(Task) /\ readyQueue \in Seq(Task)
      /\ InHand \in Seq(Task)
  BY InHandType DEF TypeOK, Pool!PoolTypeOK
<1>2. ASSUME NEW s \in Seq(Task), NEW q \in Seq(Task)
      PROVE  /\ s \o q \in Seq(Task) /\ Len(s) \in Nat /\ Len(q) \in Nat
             /\ Len(s \o q) = Len(s) + Len(q)
             /\ \A i \in 1 .. Len(s) : (s \o q)[i] = s[i]
             /\ q # <<>> => Len(q) > 0 /\ (s \o q)[Len(s) + 1] = Head(q)
  <2>1. /\ s \o q \in Seq(Task) /\ Len(s) \in Nat /\ Len(q) \in Nat
        /\ Len(s \o q) = Len(s) + Len(q)
        /\ q # <<>> => Len(q) > 0
    BY ConcatProperties, LenProperties, EmptySeq
  <2>2. \A i \in 1 .. Len(s) + Len(q) :
          (s \o q)[i] = IF i <= Len(s) THEN s[i] ELSE q[i - Len(s)]
    BY ConcatProperties
  <2>3. \A i \in 1 .. Len(s) : (s \o q)[i] = s[i]
    BY <2>1, <2>2
  <2>4. q # <<>> => (s \o q)[Len(s) + 1] = q[1]
    BY <2>1, <2>2
  <2> QED BY <2>1, <2>3, <2>4
<1>3. /\ taken \in Seq(Task) /\ Len(taken) = Len(started) + Len(workQueue)
      /\ Len(started) \in Nat /\ Len(workQueue) \in Nat
      /\ \A i \in 1 .. Len(started) : taken[i] = started[i]
      /\ workQueue # <<>> => Len(workQueue) > 0 /\ taken[Len(started) + 1] = Head(workQueue)
  BY <1>1, <1>2
<1> HIDE DEF taken
<1>4. /\ front \in Seq(Task) /\ Len(front) = Len(taken) + Len(InHand)
      /\ Len(InHand) \in Nat
      /\ \A i \in 1 .. Len(taken) : front[i] = taken[i]
  BY <1>1, <1>2, <1>3
<1> HIDE DEF front
<1>5. /\ Len(front \o readyQueue) = Len(front) + Len(readyQueue)
      /\ Len(readyQueue) \in Nat
      /\ \A i \in 1 .. Len(front) : (front \o readyQueue)[i] = front[i]
      /\ readyQueue # <<>> => /\ Len(readyQueue) > 0
                              /\ (front \o readyQueue)[Len(front) + 1] = Head(readyQueue)
  BY <1>1, <1>2, <1>4
<1>6. accepted = front \o readyQueue
  BY DEF QueueOrder, taken, front
<1>7. \A i \in 1 .. Len(taken) : accepted[i] = taken[i]
  BY <1>3, <1>4, <1>5, <1>6
<1>8. readyQueue # <<>> => \E k \in Len(started) + 1 .. Len(accepted) :
                             accepted[k] = Head(readyQueue)
  <2> SUFFICES ASSUME readyQueue # <<>>
               PROVE  /\ Len(front) + 1 \in Len(started) + 1 .. Len(accepted)
                      /\ accepted[Len(front) + 1] = Head(readyQueue)
    OBVIOUS
  <2> QED BY <1>3, <1>4, <1>5, <1>6
<1>9. /\ \A i \in 1 .. Len(started) : accepted[i] = started[i]
      /\ workQueue # <<>> => /\ Len(started) + 1 \in 1 .. Len(accepted)
                             /\ accepted[Len(started) + 1] = Head(workQueue)
  BY <1>3, <1>4, <1>5, <1>6, <1>7
<1> QED BY <1>3, <1>4, <1>5, <1>6, <1>8, <1>9, SMTT(30)

\* AcceptedOnce with what makes it inductive: a worker's task is one of those taken.
OnceInv ==
    /\ AcceptedOnce
    /\ \A w \in Worker : wjob[w] # NoTask => \E i \in 1 .. Len(started) : started[i] = wjob[w]

\* A step that adds no task to the ready queue, takes none and gives none to a worker.
LEMMA OnceUntouched ==
  ASSUME OnceInv, UNCHANGED <<accepted, started>>,
         taskTable \subseteq taskTable',
         \A w \in Worker : wjob'[w] \in {wjob[w], NoTask}
  PROVE  OnceInv'
BY DEF OnceInv, AcceptedOnce

\* Every step keeps OnceInv; the interesting ones are Enqueue and TakeJob.
LEMMA OnceStep == TypeOK /\ QueueOrder /\ OnceInv /\ [Next]_vars => OnceInv'
<1> SUFFICES ASSUME TypeOK, QueueOrder, OnceInv, [Next]_vars PROVE OnceInv'
  OBVIOUS
<1> USE DEF TypeOK, Pool!PoolTypeOK
<1>1. ASSUME NEW t \in Task, AllocId(t) PROVE OnceInv'
  BY <1>1, OnceUntouched DEF AllocId, taskTable, queueVars, dispVars, workVars, poolVars
<1>2. ASSUME NEW t \in Task, Enqueue(t) PROVE OnceInv'
  <2>1. /\ accepted' = Append(accepted, t) /\ UNCHANGED <<started, wjob>>
        /\ t \notin taskTable /\ taskTable' = taskTable \cup {t}
    BY <1>2 DEF Enqueue, taskTable, workVars, poolVars
  <2>2. /\ Len(accepted) \in Nat /\ Len(accepted') = Len(accepted) + 1
        /\ \A i \in 1 .. Len(accepted) : accepted'[i] = accepted[i]
        /\ accepted'[Len(accepted) + 1] = t
    BY <2>1, AppendProperties, LenProperties
  <2>3. \A i \in 1 .. Len(accepted) : accepted[i] # t
    BY <2>1 DEF OnceInv, AcceptedOnce
  <2>4. ASSUME NEW i \in 1 .. Len(accepted'), NEW j \in 1 .. Len(accepted'),
               accepted'[i] = accepted'[j]
        PROVE  i = j
    <3>1. \A k, l \in 1 .. Len(accepted) : accepted[k] = accepted[l] => k = l
      BY DEF OnceInv, AcceptedOnce
    <3>2. /\ i \in 1 .. Len(accepted) \/ i = Len(accepted) + 1
          /\ j \in 1 .. Len(accepted) \/ j = Len(accepted) + 1
      BY <2>2
    <3> QED BY <2>2, <2>3, <2>4, <3>1, <3>2, ZenonT(40)
  <2>5. ASSUME NEW i \in 1 .. Len(accepted') PROVE accepted'[i] \in taskTable'
    <3>1. i \in 1 .. Len(accepted) \/ i = Len(accepted) + 1
      BY <2>2
    <3> QED BY <2>1, <2>2, <3>1 DEF OnceInv, AcceptedOnce
  <2> QED BY <2>1, <2>4, <2>5 DEF OnceInv, AcceptedOnce
<1>3. ASSUME NEW t \in Task, Notify(t) PROVE OnceInv'
  BY <1>3, OnceUntouched DEF Notify, taskTable, queueVars, workVars, poolVars
<1>4. CASE Dispatcher \/ SpuriousWakeUp
  BY <1>4, OnceUntouched DEF Dispatcher, DispatchStops, DispatchFindsNothing, DispatchSleeps,
     DispatchTakes, DispatchHandsOff, Pool!Submit, SpuriousWakeUp, taskTable, queueVars,
     taskVars, workVars, poolVars
<1>5. ASSUME NEW w \in Worker, TakeJob(w) PROVE OnceInv'
  <2> DEFINE job == Head(workQueue)
  <2>1. /\ workQueue # <<>> /\ wjob' = [wjob EXCEPT ![w] = job]
        /\ job \in Task /\ job # NoTask
        /\ started' = Append(started, job) /\ UNCHANGED <<accepted, subPc>>
    BY <1>5, HeadTailProperties DEF TakeJob, Pool!TryPop, queueVars
  <2>2. /\ Len(started) \in Nat /\ Len(accepted) \in Nat
        /\ Len(started) + 1 \in 1 .. Len(accepted)
        /\ accepted[Len(started) + 1] = job
        /\ \A i \in 1 .. Len(started) : accepted[i] = started[i]
    BY <2>1, Positions
  <2> HIDE DEF job
  <2>3. /\ Len(started') = Len(started) + 1
        /\ \A i \in 1 .. Len(started) : started'[i] = started[i]
        /\ started'[Len(started) + 1] = job
    BY <2>1, AppendProperties
  <2>4. ASSUME NEW i \in 1 .. Len(started) PROVE started[i] # job
    <3>1. \A k, l \in 1 .. Len(accepted) : accepted[k] = accepted[l] => k = l
      BY DEF OnceInv, AcceptedOnce
    <3>2. i \in 1 .. Len(accepted) /\ i # Len(started) + 1
      BY <2>2
    <3> QED BY <2>2, <3>1, <3>2
  <2>5. \A v \in Worker : wjob[v] # job
    BY <2>1, <2>4 DEF OnceInv
  <2>6. \A u, v \in Worker : wjob'[u] = wjob'[v] /\ wjob'[u] # NoTask => u = v
    BY <2>1, <2>5 DEF OnceInv, AcceptedOnce
  <2>7. ASSUME NEW v \in Worker, wjob'[v] # NoTask
        PROVE  \E i \in 1 .. Len(started') : started'[i] = wjob'[v]
    <3>1. CASE v = w
      <4>1. Len(started) + 1 \in 1 .. Len(started')
        BY <2>2, <2>3
      <4> QED BY <3>1, <4>1, <2>1, <2>3
    <3>2. CASE v # w
      <4>1. PICK i \in 1 .. Len(started) : started[i] = wjob[v]
        BY <2>1, <2>7, <3>2 DEF OnceInv
      <4> QED BY <2>1, <2>2, <2>3, <3>2, <4>1, SMTT(30)
    <3> QED BY <3>1, <3>2
  <2>8. /\ \A i, j \in 1 .. Len(accepted') : accepted'[i] = accepted'[j] => i = j
        /\ \A i \in 1 .. Len(accepted') : accepted'[i] \in taskTable'
    BY <2>1 DEF OnceInv, AcceptedOnce, taskTable
  <2> QED BY <2>6, <2>7, <2>8 DEF OnceInv, AcceptedOnce
<1>6. ASSUME NEW w \in Worker, WorkerSleeps(w) \/ WorkerWakes(w) \/ Lambda(w) PROVE OnceInv'
  <2> USE <1>6, OnceUntouched DEF taskTable, queueVars, workVars, poolVars
  <2>1. CASE WorkerSleeps(w) \/ WorkerWakes(w)
    BY <2>1 DEF WorkerSleeps, WorkerWakes, Pool!FallAsleep, Pool!WakeUp
  <2>2. CASE AnswerSuperseded(w) \/ EraseRunning(w)
    BY <2>2 DEF AnswerSuperseded, EraseRunning, Pool!JobReturns
  <2>3. CASE CheckLatest(w) \/ SupersededThrows(w) \/ PublishAck(w)
    BY <2>3 DEF CheckLatest, SupersededThrows, PublishAck
  <2>4. CASE PublishResult(w) \/ RunReturns(w) \/ RunThrows(w)
    BY <2>4 DEF PublishResult, RunReturns, RunThrows
  <2> QED BY <2>1, <2>2, <2>3, <2>4 DEF Lambda
<1>7. CASE Destructor
  BY <1>7, OnceUntouched DEF Destructor, DestructorStops, DestructorNotifies, taskTable,
     queueVars, workVars, poolVars
<1>8. CASE UNCHANGED vars
  BY <1>8, OnceUntouched DEF vars, taskTable, queueVars, workVars, poolVars
<1> QED
  BY <1>1, <1>2, <1>3, <1>4, <1>5, <1>6, <1>7, <1>8 DEF Next, Client, WorkerThread

\* submit() puts each task into the ready queue once, and no two workers ever have
\* the same task.
THEOREM AcceptedOnceCorrect == Spec => []AcceptedOnce
<1>1. Init => OnceInv
  BY DEF Init, Pool!PoolInit, OnceInv, AcceptedOnce
<1>2. OnceInv => AcceptedOnce
  BY DEF OnceInv
<1> QED BY <1>1, <1>2, OnceStep, TypeCorrect, QueueOrderCorrect, PTL DEF Spec

-----------------------------------------------------------------------------
(* Only older commands of a car are skipped.                               *)

\* A later command of the same car was accepted behind t.
NewerAccepted(t) ==
    \E i, j \in 1 .. Len(accepted) :
        i < j /\ accepted[i] = t /\ CarOf[accepted[j]] = CarOf[t]

\* latestCarControlTask_ holds the command of its car that was accepted last.
LatestIsNewest ==
    \A c \in Car : latest[c] # NoTask =>
        \E j \in 1 .. Len(accepted) :
            /\ accepted[j] = latest[c] /\ CarOf[latest[c]] = c
            /\ \A k \in 1 .. Len(accepted) : CarOf[accepted[k]] = c => k <= j

\* OnlyOlderSuperseded with what makes it inductive: what the map holds, and that a
\* worker which found a newer command was right.
SupersededInv ==
    /\ LatestIsNewest
    /\ \A w \in Worker : phase[w] = "check" => IsCar(wjob[w])
    /\ \A w \in Worker : phase[w] = "superseded" => NewerAccepted(wjob[w])
    /\ \A t \in Task : "superseded" \in ToSet(replies[t]) => NewerAccepted(t)

\* Accepting one more command makes no command newer.
LEMMA NewerStays ==
  ASSUME TypeOK, NEW t,
         UNCHANGED accepted \/ \E u \in Task : accepted' = Append(accepted, u),
         NewerAccepted(t)
  PROVE  NewerAccepted(t)'
<1>1. PICK i, j \in 1 .. Len(accepted) :
             i < j /\ accepted[i] = t /\ CarOf[accepted[j]] = CarOf[t]
  BY DEF NewerAccepted
<1>2. CASE UNCHANGED accepted
  BY <1>1, <1>2 DEF NewerAccepted
<1>3. ASSUME NEW u \in Task, accepted' = Append(accepted, u) PROVE NewerAccepted(t)'
  <2>1. /\ Len(accepted) \in Nat /\ Len(accepted') = Len(accepted) + 1
        /\ \A k \in 1 .. Len(accepted) : accepted'[k] = accepted[k]
    BY <1>3, AppendProperties, LenProperties DEF TypeOK
  <2>2. /\ i \in 1 .. Len(accepted') /\ j \in 1 .. Len(accepted')
        /\ accepted'[i] = t /\ CarOf[accepted'[j]] = CarOf[t]
    BY <1>1, <2>1
  <2> QED BY <1>1, <2>2 DEF NewerAccepted
<1> QED BY <1>2, <1>3

\* The positions of the ready queue's history after one more.
LEMMA AppendedPositions ==
  \A s \in Seq(Task), e \in Task :
      \A k \in 1 .. Len(Append(s, e)) : k \in 1 .. Len(s) \/ k = Len(s) + 1
BY AppendProperties, LenProperties

\* What the replies to a task hold after one more.
LEMMA ReplyAppended ==
  \A s \in Seq({"ack", "result", "superseded"}), e \in {"ack", "result", "superseded"} :
      \A x \in ToSet(Append(s, e)) : x = e \/ x \in ToSet(s)
<1> TAKE s \in Seq({"ack", "result", "superseded"}), e \in {"ack", "result", "superseded"}
<1> TAKE x \in ToSet(Append(s, e))
<1>1. /\ Len(s) \in Nat /\ Len(Append(s, e)) = Len(s) + 1
      /\ \A k \in 1 .. Len(s) : Append(s, e)[k] = s[k]
      /\ Append(s, e)[Len(s) + 1] = e
  BY AppendProperties, LenProperties
<1>2. PICK k \in 1 .. Len(s) + 1 : Append(s, e)[k] = x
  BY <1>1 DEF ToSet
<1> QED BY <1>1, <1>2 DEF ToSet

\* A step that leaves the map, the queue's history and the replies alone, and after
\* which no worker checks or has checked that did not before.
LEMMA SupersededUntouched ==
  ASSUME TypeOK, SupersededInv, UNCHANGED <<accepted, latest, replies>>,
         \A w \in Worker : phase'[w] \in {"check", "superseded"} =>
                               phase'[w] = phase[w] /\ wjob'[w] = wjob[w]
  PROVE  SupersededInv'
BY DEF SupersededInv, LatestIsNewest, NewerAccepted, IsCar

\* Every step keeps SupersededInv; the interesting ones are Enqueue, which records the
\* newest command, and CheckLatest, which compares with it.
LEMMA SupersededStep ==
  TypeOK /\ QueueOrder /\ OnceInv /\ SupersededInv /\ [Next]_vars => SupersededInv'
<1> SUFFICES ASSUME TypeOK, QueueOrder, OnceInv, SupersededInv, [Next]_vars
             PROVE  SupersededInv'
  OBVIOUS
<1> USE DEF TypeOK, Pool!PoolTypeOK
<1>1. ASSUME NEW t \in Task, AllocId(t) \/ Notify(t) PROVE SupersededInv'
  BY <1>1, SupersededUntouched DEF AllocId, Notify, queueVars, taskVars, workVars, poolVars
<1>2. ASSUME NEW t \in Task, Enqueue(t) PROVE SupersededInv'
  <2>1. /\ accepted' = Append(accepted, t)
        /\ latest' = IF IsCar(t) THEN [latest EXCEPT ![CarOf[t]] = t] ELSE latest
        /\ UNCHANGED <<replies, phase, wjob>>
    BY <1>2 DEF Enqueue, taskVars, workVars, poolVars
  <2>2. /\ Len(accepted) \in Nat /\ Len(accepted') = Len(accepted) + 1
        /\ \A k \in 1 .. Len(accepted) : accepted'[k] = accepted[k]
        /\ accepted'[Len(accepted) + 1] = t
    BY <2>1, AppendProperties, LenProperties
  <2>3. \A u : NewerAccepted(u) => NewerAccepted(u)'
    BY <2>1, NewerStays
  <2>4. ASSUME NEW c \in Car, latest'[c] # NoTask
        PROVE  \E j \in 1 .. Len(accepted') :
                 /\ accepted'[j] = latest'[c] /\ CarOf[latest'[c]] = c
                 /\ \A k \in 1 .. Len(accepted') : CarOf[accepted'[k]] = c => k <= j
    <3>1. CASE CarOf[t] = c
      <4>1. latest'[c] = t
        BY <2>1, <3>1 DEF IsCar
      <4>2. /\ Len(accepted) + 1 \in 1 .. Len(accepted')
            /\ \A k \in 1 .. Len(accepted') : k <= Len(accepted) + 1
        BY <2>2
      <4> QED BY <2>2, <3>1, <4>1, <4>2
    <3>2. CASE CarOf[t] # c
      <4>1. latest'[c] = latest[c]
        BY <2>1, <3>2 DEF IsCar
      <4>2. PICK j \in 1 .. Len(accepted) :
                   /\ accepted[j] = latest[c] /\ CarOf[latest[c]] = c
                   /\ \A k \in 1 .. Len(accepted) : CarOf[accepted[k]] = c => k <= j
        BY <2>4, <4>1 DEF SupersededInv, LatestIsNewest
      <4>3. j \in 1 .. Len(accepted') /\ accepted'[j] = latest'[c] /\ CarOf[latest'[c]] = c
        BY <2>2, <4>1, <4>2
      <4>4. ASSUME NEW k \in 1 .. Len(accepted'), CarOf[accepted'[k]] = c PROVE k <= j
        <5>1. k # Len(accepted) + 1
          BY <2>2, <3>2, <4>4
        <5>2. k \in 1 .. Len(accepted)
          BY <2>1, <5>1, AppendedPositions
        <5> QED BY <2>2, <4>2, <4>4, <5>2
      <4> QED BY <4>3, <4>4
    <3> QED BY <3>1, <3>2
  <2> QED BY <2>1, <2>3, <2>4 DEF SupersededInv, LatestIsNewest, IsCar
<1>3. CASE Dispatcher \/ SpuriousWakeUp \/ Destructor \/ UNCHANGED vars
  BY <1>3, SupersededUntouched DEF Dispatcher, DispatchStops, DispatchFindsNothing,
     DispatchSleeps, DispatchTakes, DispatchHandsOff, Pool!Submit, SpuriousWakeUp, Destructor,
     DestructorStops, DestructorNotifies, vars, queueVars, taskVars, workVars, poolVars
<1>4. ASSUME NEW w \in Worker, TakeJob(w) PROVE SupersededInv'
  <2> DEFINE job == Head(workQueue)
  <2>1. /\ wjob' = [wjob EXCEPT ![w] = job]
        /\ phase' = [phase EXCEPT ![w] = IF IsCar(job) THEN "check" ELSE "run"]
        /\ UNCHANGED <<accepted, latest, replies>>
    BY <1>4 DEF TakeJob, Pool!TryPop, queueVars, taskVars
  <2> HIDE DEF job
  <2>2. \A u : NewerAccepted(u)' <=> NewerAccepted(u)
    BY <2>1 DEF NewerAccepted
  <2> QED BY <2>1, <2>2 DEF SupersededInv, LatestIsNewest, IsCar
<1>5. ASSUME NEW w \in Worker, CheckLatest(w) PROVE SupersededInv'
  <2> DEFINE t == wjob[w]
  <2>1. /\ phase[w] = "check" /\ t \in Task /\ t # NoTask /\ CarOf[t] \in Car
        /\ phase' = [phase EXCEPT ![w] = IF IsLatest(t) THEN "run" ELSE "superseded"]
        /\ UNCHANGED <<accepted, latest, replies, wjob>>
    BY <1>5 DEF CheckLatest, queueVars, taskVars, poolVars, SupersededInv, IsCar
  <2>2. ~IsLatest(t) => NewerAccepted(t)
    <3> SUFFICES ASSUME latest[CarOf[t]] # NoTask, latest[CarOf[t]] # t PROVE NewerAccepted(t)
      BY DEF IsLatest
    <3>1. PICK j \in 1 .. Len(accepted) :
                 /\ accepted[j] = latest[CarOf[t]] /\ CarOf[latest[CarOf[t]]] = CarOf[t]
                 /\ \A k \in 1 .. Len(accepted) : CarOf[accepted[k]] = CarOf[t] => k <= j
      BY <2>1 DEF SupersededInv, LatestIsNewest
    <3>2. PICK i \in 1 .. Len(started) : started[i] = t
      BY <2>1 DEF OnceInv
    <3>3. i \in 1 .. Len(accepted) /\ accepted[i] = t
      <4>1. /\ Len(started) \in Nat /\ Len(accepted) \in Nat /\ Len(started) <= Len(accepted)
            /\ \A k \in 1 .. Len(started) : accepted[k] = started[k]
        BY Positions
      <4> QED BY <3>2, <4>1
    <3>4. i <= j /\ i # j
      BY <3>1, <3>3
    <3>5. i < j
      BY <3>1, <3>3, <3>4
    <3> QED BY <3>1, <3>3, <3>5 DEF NewerAccepted
  <2>3. \A u : NewerAccepted(u)' <=> NewerAccepted(u)
    BY <2>1 DEF NewerAccepted
  <2> QED BY <2>1, <2>2, <2>3 DEF SupersededInv, LatestIsNewest, IsCar
<1>6. ASSUME NEW w \in Worker, AnswerSuperseded(w) PROVE SupersededInv'
  <2>1. /\ phase[w] = "superseded" /\ wjob[w] \in Task
        /\ replies' = [replies EXCEPT ![wjob[w]] = Append(@, "superseded")]
        /\ phase' = [phase EXCEPT ![w] = "none"] /\ wjob' = [wjob EXCEPT ![w] = NoTask]
        /\ UNCHANGED <<accepted, latest>>
    BY <1>6 DEF AnswerSuperseded, Pool!JobReturns, queueVars
  <2>2. \A u : NewerAccepted(u)' <=> NewerAccepted(u)
    BY <2>1 DEF NewerAccepted
  <2>3. NewerAccepted(wjob[w])
    BY <2>1 DEF SupersededInv
  <2>4. ASSUME NEW t \in Task, "superseded" \in ToSet(replies'[t]) PROVE NewerAccepted(t)'
    <3>1. CASE t = wjob[w]
      BY <2>2, <2>3, <3>1
    <3>2. CASE t # wjob[w]
      BY <2>1, <2>2, <2>4, <3>2 DEF SupersededInv
    <3> QED BY <3>1, <3>2
  <2> QED BY <2>1, <2>2, <2>4 DEF SupersededInv, LatestIsNewest, IsCar
<1>7. ASSUME NEW w \in Worker, PublishAck(w) \/ PublishResult(w) PROVE SupersededInv'
  <2>1. PICK e \in {"ack", "result"} : replies' = [replies EXCEPT ![wjob[w]] = Append(@, e)]
    BY <1>7 DEF PublishAck, PublishResult
  <2>2. /\ wjob[w] \in Task /\ UNCHANGED <<accepted, latest, wjob>>
        /\ phase'[w] \in {"acked", "published"}
        /\ \A v \in Worker \ {w} : phase'[v] = phase[v]
    BY <1>7 DEF PublishAck, PublishResult, Executing, queueVars, poolVars
  <2>3. \A u : NewerAccepted(u)' <=> NewerAccepted(u)
    BY <2>2 DEF NewerAccepted
  <2>4. ASSUME NEW t \in Task, "superseded" \in ToSet(replies'[t]) PROVE NewerAccepted(t)'
    <3>1. CASE t = wjob[w]
      <4>1. replies'[t] = Append(replies[t], e) /\ replies[t] \in Seq({"ack", "result", "superseded"})
        BY <2>1, <3>1
      <4>2. "superseded" = e \/ "superseded" \in ToSet(replies[t])
        BY <2>4, <4>1, ReplyAppended
      <4> QED BY <2>3, <4>2 DEF SupersededInv
    <3>2. CASE t # wjob[w]
      <4>1. replies'[t] = replies[t]
        BY <2>1, <3>2
      <4> QED BY <2>3, <2>4, <4>1 DEF SupersededInv
    <3> QED BY <3>1, <3>2
  <2> QED BY <2>2, <2>3, <2>4 DEF SupersededInv, LatestIsNewest, IsCar
<1>8. ASSUME NEW w \in Worker,
             \/ WorkerSleeps(w) \/ WorkerWakes(w) \/ SupersededThrows(w)
             \/ RunReturns(w) \/ RunThrows(w) \/ EraseRunning(w)
      PROVE  SupersededInv'
  BY <1>8, SupersededUntouched DEF WorkerSleeps, WorkerWakes, Pool!FallAsleep, Pool!WakeUp,
     SupersededThrows, RunReturns, RunThrows, EraseRunning, Pool!JobReturns, queueVars, taskVars,
     workVars, poolVars
<1> QED
  BY <1>1, <1>2, <1>3, <1>4, <1>5, <1>6, <1>7, <1>8 DEF Next, Client, WorkerThread, Lambda

\* A command is answered as superseded only if a newer command of its car was accepted:
\* the newest one is always carried out.
THEOREM OnlyOlderCorrect == Spec => []OnlyOlderSuperseded
<1>1. Init => OnceInv
  BY DEF Init, Pool!PoolInit, OnceInv, AcceptedOnce
<1>2. Init => SupersededInv
  BY DEF Init, SupersededInv, LatestIsNewest, ToSet
<1>3. SupersededInv => OnlyOlderSuperseded
  BY DEF SupersededInv, OnlyOlderSuperseded, NewerAccepted
<1> QED
  BY <1>1, <1>2, <1>3, OnceStep, SupersededStep, TypeCorrect, QueueOrderCorrect, PTL DEF Spec

-----------------------------------------------------------------------------
(* Each task is answered once, and its status agrees.                      *)

\* No worker has taken the task yet.
Untaken(t) == \A i \in 1 .. Len(started) : started[i] # t

Answers == {<<"superseded">>, <<"result">>, <<"ack", "result">>}

\* OneAnswer with what makes it inductive: how many replies a task has at each place of
\* the lambda, and that a task nobody has taken has none.
AnswerInv ==
    /\ \A t \in Task : IF status[t] = "FINISHED" \/ Published(t) THEN replies[t] \in Answers
                       ELSE replies[t] \in {<<>>, <<"ack">>}
    /\ \A w \in Worker :
        /\ phase[w] \in {"check", "superseded", "run"} => replies[wjob[w]] = <<>>
        /\ phase[w] = "acked" => replies[wjob[w]] = <<"ack">>
        /\ phase[w] \in {"check", "superseded", "run", "acked"} => status[wjob[w]] # "FINISHED"
    /\ \A t \in Task : Untaken(t) => replies[t] = <<>> /\ status[t] # "FINISHED"

\* What waits in a queue has not been taken.
LEMMA HeadsUntaken ==
  ASSUME TypeOK, QueueOrder, OnceInv
  PROVE  /\ workQueue # <<>> => Untaken(Head(workQueue))
         /\ readyQueue # <<>> => Untaken(Head(readyQueue))
<1>1. /\ Len(started) \in Nat /\ Len(accepted) \in Nat /\ Len(started) <= Len(accepted)
      /\ \A i \in 1 .. Len(started) : accepted[i] = started[i]
      /\ workQueue # <<>> => \E k \in Len(started) + 1 .. Len(accepted) :
                                accepted[k] = Head(workQueue)
      /\ readyQueue # <<>> => \E k \in Len(started) + 1 .. Len(accepted) :
                                accepted[k] = Head(readyQueue)
  BY Positions
<1>2. \A i, j \in 1 .. Len(accepted) : accepted[i] = accepted[j] => i = j
  BY DEF OnceInv, AcceptedOnce
<1>3. ASSUME NEW k \in Len(started) + 1 .. Len(accepted) PROVE Untaken(accepted[k])
  <2> SUFFICES ASSUME NEW i \in 1 .. Len(started) PROVE started[i] # accepted[k]
    BY DEF Untaken
  <2>1. i \in 1 .. Len(accepted) /\ k \in 1 .. Len(accepted) /\ i # k
    BY <1>1
  <2> QED BY <1>1, <1>2, <2>1
<1> QED BY <1>1, <1>3

\* A task that was taken has its entry in taskTable_, so one that was not is the only
\* one the table may not know.
LEMMA TakenInTable ==
  ASSUME TypeOK, QueueOrder, OnceInv, NEW t \in Task, t \notin taskTable
  PROVE  Untaken(t)
<1>1. /\ Len(started) \in Nat /\ Len(accepted) \in Nat /\ Len(started) <= Len(accepted)
      /\ \A i \in 1 .. Len(started) : accepted[i] = started[i]
  BY Positions
<1>2. \A i \in 1 .. Len(accepted) : accepted[i] # t
  BY DEF OnceInv, AcceptedOnce
<1> QED BY <1>1, <1>2 DEF Untaken

\* A step that leaves the replies, the statuses and the workers alone.
LEMMA AnswersUntouched ==
  ASSUME AnswerInv, UNCHANGED <<replies, status, phase, wjob, started>>
  PROVE  AnswerInv'
BY DEF AnswerInv, Published, Untaken, Answers

\* What one more reply makes of none or of an ack.
LEMMA OneMore ==
  /\ Append(<<>>, "ack") = <<"ack">>
  /\ Append(<<>>, "superseded") \in Answers
  /\ Append(<<>>, "result") \in Answers /\ Append(<<"ack">>, "result") \in Answers
<1>1. /\ Append(<<>>, "ack") = <<"ack">>
      /\ Append(<<>>, "superseded") = <<"superseded">>
      /\ Append(<<>>, "result") = <<"result">>
  <2>1. ASSUME NEW x \in {"ack", "superseded", "result"} PROVE Append(<<>>, x) = <<x>>
    <3>1. /\ <<>> \in Seq({"ack", "superseded", "result"})
          /\ <<x>> \in Seq({"ack", "superseded", "result"})
      BY EmptySeq
    <3>2. Append(<<>>, x) = <<>> \o <<x>>
      BY <3>1, AppendIsConcat
    <3> QED BY <3>1, <3>2, ConcatEmptySeq
  <2> QED BY <2>1
<1>2. Append(<<"ack">>, "result") = <<"ack", "result">>
  <2> DEFINE both == Append(<<"ack">>, "result")
  <2>1. /\ <<"ack">> \in Seq({"ack", "result"}) /\ Len(<<"ack">>) = 1
        /\ <<"ack", "result">> \in Seq({"ack", "result"}) /\ Len(<<"ack", "result">>) = 2
    OBVIOUS
  <2>2. both \in Seq({"ack", "result"}) /\ Len(both) = 2 /\ both[1] = "ack" /\ both[2] = "result"
    BY <2>1, AppendProperties
  <2> HIDE DEF both
  <2>3. Len(both) = Len(<<"ack", "result">>)
    BY <2>1, <2>2
  <2>4. \A i \in 1 .. Len(both) : both[i] = <<"ack", "result">>[i]
    BY <2>2
  <2>5. both = <<"ack", "result">>
    BY <2>1, <2>2, <2>3, <2>4, SeqEqual
  <2> QED BY <2>5 DEF both
<1> QED BY <1>1, <1>2 DEF Answers

\* A worker's step on its own task: it suffices to look at that task.
LEMMA OwnTaskStep ==
  ASSUME TypeOK, OnceInv, AnswerInv, NEW w \in Worker, phase[w] # "none",
         UNCHANGED started,
         \A t \in Task \ {wjob[w]} : replies'[t] = replies[t] /\ status'[t] = status[t],
         \A v \in Worker \ {w} : phase'[v] = phase[v] /\ wjob'[v] = wjob[v],
         phase'[w] # "none" => wjob'[w] = wjob[w],
         IF status'[wjob[w]] = "FINISHED" \/ phase'[w] = "published"
         THEN replies'[wjob[w]] \in Answers
         ELSE replies'[wjob[w]] \in {<<>>, <<"ack">>},
         phase'[w] \in {"check", "superseded", "run"} => replies'[wjob[w]] = <<>>,
         phase'[w] = "acked" => replies'[wjob[w]] = <<"ack">>,
         phase'[w] \in {"check", "superseded", "run", "acked"} => status'[wjob[w]] # "FINISHED"
  PROVE  AnswerInv'
<1> PICK t : t = wjob[w]
  OBVIOUS
<1>1. /\ t \in Task /\ t # NoTask
      /\ \A v \in Worker \ {w} : phase[v] # "none" => wjob[v] # t
  BY DEF TypeOK, Pool!PoolTypeOK, OnceInv, AcceptedOnce
<1>2. ~Untaken(t) /\ \A u \in Task : Untaken(u)' <=> Untaken(u)
  BY <1>1 DEF OnceInv, Untaken
<1>3. \A u \in Task \ {t} : Published(u)' <=> Published(u)
  BY DEF Published
<1>4. Published(t)' <=> phase'[w] = "published"
  BY <1>1 DEF Published
<1>5. \A u \in Task : IF (status[u] = "FINISHED" \/ Published(u))' THEN replies'[u] \in Answers
                      ELSE replies'[u] \in {<<>>, <<"ack">>}
  <2> TAKE u \in Task
  <2>1. CASE u = t
    BY <1>4, <2>1
  <2>2. CASE u # t
    BY <1>3, <2>2 DEF AnswerInv
  <2> QED BY <2>1, <2>2
<1>6. \A v \in Worker :
        /\ phase'[v] \in {"check", "superseded", "run"} => replies'[wjob'[v]] = <<>>
        /\ phase'[v] = "acked" => replies'[wjob'[v]] = <<"ack">>
        /\ phase'[v] \in {"check", "superseded", "run", "acked"}
              => status'[wjob'[v]] # "FINISHED"
  <2> TAKE v \in Worker
  <2>1. CASE v = w
    BY <2>1
  <2>2. CASE v # w
    <3>1. phase[v] # "none" => wjob[v] \in Task \ {t}
      BY <1>1, <2>2 DEF TypeOK, Pool!PoolTypeOK
    <3> QED BY <2>2, <3>1 DEF AnswerInv
  <2> QED BY <2>1, <2>2
<1>7. \A u \in Task : Untaken(u)' => replies'[u] = <<>> /\ status'[u] # "FINISHED"
  BY <1>2 DEF AnswerInv
<1> QED BY <1>5, <1>6, <1>7 DEF AnswerInv, Answers

\* Every step keeps AnswerInv.
LEMMA AnswerStep ==
  TypeOK /\ QueueOrder /\ OnceInv /\ AnswerInv /\ [Next]_vars => AnswerInv'
<1> SUFFICES ASSUME TypeOK, QueueOrder, OnceInv, AnswerInv, [Next]_vars PROVE AnswerInv'
  OBVIOUS
<1> USE DEF Pool!PoolTypeOK
<1>1. ASSUME NEW t \in Task, UNCHANGED <<replies, phase, wjob, started>>, Untaken(t),
             NEW s \in {"READY", "RUNNING"}, status' = [status EXCEPT ![t] = s]
      PROVE  AnswerInv'
  <2>1. \A u \in Task : (Published(u)' <=> Published(u)) /\ (Untaken(u)' <=> Untaken(u))
    BY <1>1 DEF Published, Untaken
  <2>2. \A u \in Task \ {t} : status'[u] = status[u]
    BY <1>1 DEF TypeOK
  <2>3. status'[t] # "FINISHED" /\ status[t] # "FINISHED"
    BY <1>1 DEF TypeOK, AnswerInv
  <2>4. \A u \in Task : status'[u] = "FINISHED" <=> status[u] = "FINISHED"
    BY <2>2, <2>3
  <2>5. \A v \in Worker : phase[v] # "none" => wjob[v] \in Task
    BY DEF TypeOK
  <2> QED BY <1>1, <2>1, <2>4, <2>5 DEF AnswerInv, Answers
<1>2. ASSUME NEW t \in Task, AllocId(t) PROVE AnswerInv'
  <2>1. Untaken(t)
    BY <1>2, TakenInTable DEF AllocId, taskTable
  <2> QED BY <1>1, <1>2, <2>1 DEF AllocId, queueVars, workVars, poolVars
<1>3. ASSUME NEW t \in Task, Enqueue(t) \/ Notify(t) PROVE AnswerInv'
  BY <1>3, AnswersUntouched DEF Enqueue, Notify, taskVars, workVars, poolVars
<1>4. CASE DispatchTakes
  <2>1. Head(readyQueue) \in Task /\ Untaken(Head(readyQueue))
    BY <1>4, HeadsUntaken, HeadTailProperties DEF DispatchTakes, TypeOK
  <2> QED BY <1>1, <1>4, <2>1 DEF DispatchTakes, workVars, poolVars
<1>5. CASE \/ DispatchStops \/ DispatchFindsNothing \/ DispatchSleeps \/ DispatchHandsOff
           \/ SpuriousWakeUp \/ Destructor \/ UNCHANGED vars
  BY <1>5, AnswersUntouched DEF DispatchStops, DispatchFindsNothing, DispatchSleeps,
     DispatchHandsOff, Pool!Submit, SpuriousWakeUp, Destructor, DestructorStops,
     DestructorNotifies, vars, queueVars, taskVars, workVars, poolVars
<1>6. ASSUME NEW w \in Worker, TakeJob(w) PROVE AnswerInv'
  <2> DEFINE job == Head(workQueue)
  <2>1. /\ job \in Task /\ Untaken(job)
        /\ wpc[w] = "poll" /\ wjob' = [wjob EXCEPT ![w] = job]
        /\ phase' = [phase EXCEPT ![w] = IF IsCar(job) THEN "check" ELSE "run"]
        /\ started' = Append(started, job) /\ UNCHANGED <<status, replies>>
    BY <1>6, HeadsUntaken, HeadTailProperties DEF TakeJob, Pool!TryPop, taskVars, TypeOK
  <2> HIDE DEF job
  <2>2. phase[w] = "none"
    BY <2>1 DEF TypeOK
  <2>3. phase'[w] \in {"check", "run"} /\ wjob'[w] = job
    BY <2>1 DEF TypeOK
  <2>4. \A v \in Worker \ {w} : phase'[v] = phase[v] /\ wjob'[v] = wjob[v]
    BY <2>1 DEF TypeOK
  <2>5. \A u \in Task : Published(u)' <=> Published(u)
    BY <2>2, <2>3, <2>4 DEF Published
  <2>6. \A u \in Task : Untaken(u)' => Untaken(u)
    <3>1. /\ Len(started) \in Nat /\ Len(started') = Len(started) + 1
          /\ \A i \in 1 .. Len(started) : started'[i] = started[i]
      BY <2>1, AppendProperties, LenProperties DEF TypeOK
    <3> QED BY <3>1 DEF Untaken
  <2>7. replies[job] = <<>> /\ status[job] # "FINISHED"
    BY <2>1 DEF AnswerInv
  <2>8. \A t \in Task : IF (status[t] = "FINISHED" \/ Published(t))' THEN replies'[t] \in Answers
                        ELSE replies'[t] \in {<<>>, <<"ack">>}
    BY <2>1, <2>5 DEF AnswerInv
  <2>9. ASSUME NEW v \in Worker
        PROVE  /\ phase'[v] \in {"check", "superseded", "run"} => replies'[wjob'[v]] = <<>>
               /\ phase'[v] = "acked" => replies'[wjob'[v]] = <<"ack">>
               /\ phase'[v] \in {"check", "superseded", "run", "acked"}
                     => status'[wjob'[v]] # "FINISHED"
    <3>1. CASE v = w
      BY <2>1, <2>3, <2>7, <3>1
    <3>2. CASE v # w
      BY <2>1, <2>4, <3>2 DEF AnswerInv
    <3> QED BY <3>1, <3>2
  <2>10. \A t \in Task : Untaken(t)' => replies'[t] = <<>> /\ status'[t] # "FINISHED"
    BY <2>1, <2>6 DEF AnswerInv
  <2> QED BY <2>8, <2>9, <2>10 DEF AnswerInv, Answers
<1>7. ASSUME NEW w \in Worker, WorkerSleeps(w) \/ WorkerWakes(w) \/ SupersededThrows(w)
      PROVE  AnswerInv'
  BY <1>7, AnswersUntouched DEF WorkerSleeps, WorkerWakes, Pool!FallAsleep, Pool!WakeUp,
     SupersededThrows, taskVars, workVars, poolVars
<1>8. ASSUME NEW w \in Worker, Lambda(w), ~SupersededThrows(w) PROVE AnswerInv'
  <2> DEFINE t == wjob[w]
  <2>1. /\ phase[w] # "none" /\ t \in Task
        /\ IF status[t] = "FINISHED" \/ phase[w] = "published" THEN replies[t] \in Answers
           ELSE replies[t] \in {<<>>, <<"ack">>}
        /\ phase[w] \in {"check", "superseded", "run"} => replies[t] = <<>>
        /\ phase[w] = "acked" => replies[t] = <<"ack">>
        /\ phase[w] \in {"check", "superseded", "run", "acked"} => status[t] # "FINISHED"
    <3>1. phase[w] # "none"
      BY <1>8 DEF Lambda, CheckLatest, AnswerSuperseded, SupersededThrows, PublishAck,
         PublishResult, RunReturns, RunThrows, EraseRunning, Executing
    <3>2. t \in Task /\ t # NoTask
      BY <3>1 DEF TypeOK
    <3>3. Published(t) <=> phase[w] = "published"
      BY <3>2 DEF Published, OnceInv, AcceptedOnce
    <3> QED BY <3>1, <3>2, <3>3 DEF AnswerInv
  <2>2. CASE CheckLatest(w)
    BY <2>1, <2>2, OwnTaskStep DEF CheckLatest, taskVars, poolVars, TypeOK
  <2>3. CASE AnswerSuperseded(w)
    BY <2>1, <2>3, OwnTaskStep, OneMore DEF AnswerSuperseded, Pool!JobReturns, TypeOK
  <2>4. CASE PublishAck(w)
    BY <2>1, <2>4, OwnTaskStep, OneMore DEF PublishAck, poolVars, TypeOK
  <2>5. CASE PublishResult(w)
    <3>1. Append(replies[t], "result") \in Answers
      BY <2>1, <2>5, OneMore DEF PublishResult, Executing
    <3> QED BY <2>1, <2>5, <3>1, OwnTaskStep DEF PublishResult, poolVars, TypeOK
  <2>6. CASE RunReturns(w)
    BY <2>1, <2>6, OwnTaskStep DEF RunReturns, poolVars, TypeOK
  <2>7. CASE RunThrows(w)
    BY <2>1, <2>7, OwnTaskStep DEF RunThrows, Executing, poolVars, TypeOK
  <2>8. CASE EraseRunning(w)
    BY <2>1, <2>8, OwnTaskStep DEF EraseRunning, Pool!JobReturns, TypeOK
  <2> QED BY <1>8, <2>2, <2>3, <2>4, <2>5, <2>6, <2>7, <2>8 DEF Lambda
<1> QED
  BY <1>2, <1>3, <1>4, <1>5, <1>6, <1>7, <1>8
  DEF Next, Client, Dispatcher, WorkerThread, Lambda

\* Each task is answered once, by its result or as superseded, and getTaskStatus says
\* FINISHED just of those that were answered.
THEOREM OneAnswerCorrect == Spec => []OneAnswer
<1>1. Init => OnceInv
  BY DEF Init, Pool!PoolInit, OnceInv, AcceptedOnce
<1>2. Init => AnswerInv
  BY DEF Init, Pool!PoolInit, AnswerInv, Published, Untaken, Answers
<1>3. TypeOK /\ QueueOrder /\ OnceInv /\ AnswerInv => OneAnswer
  <2> SUFFICES ASSUME TypeOK, QueueOrder, OnceInv, AnswerInv, NEW t \in Task
               PROVE  replies[t] \in IF GetTaskStatus(t) = "FINISHED" \/ Published(t)
                                     THEN {<<"superseded">>, <<"result">>, <<"ack", "result">>}
                                     ELSE {<<>>, <<"ack">>}
    BY DEF OneAnswer
  <2>1. GetTaskStatus(t) = "FINISHED" <=> status[t] = "FINISHED"
    BY TakenInTable DEF GetTaskStatus, AnswerInv
  <2> QED BY <2>1 DEF AnswerInv, Answers
<1> QED
  BY <1>1, <1>2, <1>3, OnceStep, AnswerStep, TypeCorrect, QueueOrderCorrect, PTL DEF Spec

-----------------------------------------------------------------------------
(* The scheduler implements TaskService.                                   *)

\* The state functions that stand for the variables of TaskService.
servingBar  == [w \in Worker |-> IF phase[w] \in {"none", "erase"} THEN NoTask ELSE wjob[w]]
answeredBar == {t \in Task : status[t] \in {"FINISHED", "FAILED"}}
openBar     == up /\ ~stop

\* Only a task that a worker has taken is ever over.
OverWasTaken ==
    \A t \in answeredBar : \E i \in 1 .. Len(started) : started[i] = t

\* Every step keeps OverWasTaken: only the worker that holds a task ends it.
LEMMA OverStep == TypeOK /\ OnceInv /\ OverWasTaken /\ [Next]_vars => OverWasTaken'
<1> SUFFICES ASSUME TypeOK, OnceInv, OverWasTaken, [Next]_vars PROVE OverWasTaken'
  OBVIOUS
<1> USE DEF TypeOK, Pool!PoolTypeOK
<1>1. ASSUME UNCHANGED started, answeredBar' \subseteq answeredBar PROVE OverWasTaken'
  BY <1>1 DEF OverWasTaken
<1>2. ASSUME NEW w \in Worker, UNCHANGED started, phase[w] # "none",
             answeredBar' \subseteq answeredBar \cup {wjob[w]}
      PROVE  OverWasTaken'
  <2>1. \E i \in 1 .. Len(started) : started[i] = wjob[w]
    BY <1>2 DEF OnceInv
  <2> QED BY <1>2, <2>1 DEF OverWasTaken
<1>3. ASSUME NEW w \in Worker, TakeJob(w) PROVE OverWasTaken'
  <2>1. /\ Head(workQueue) \in Task /\ started' = Append(started, Head(workQueue))
        /\ answeredBar' = answeredBar
    BY <1>3, HeadTailProperties DEF TakeJob, Pool!TryPop, taskVars, answeredBar
  <2>2. /\ Len(started) \in Nat /\ Len(started') = Len(started) + 1
        /\ \A i \in 1 .. Len(started) : started'[i] = started[i]
    BY <2>1, AppendProperties, LenProperties
  <2> QED BY <2>1, <2>2 DEF OverWasTaken
<1>4. ASSUME NEW t \in Task, Client(t) PROVE OverWasTaken'
  BY <1>1, <1>4 DEF Client, AllocId, Enqueue, Notify, answeredBar, taskVars, workVars
<1>5. CASE Dispatcher \/ SpuriousWakeUp
  BY <1>1, <1>5 DEF Dispatcher, DispatchStops, DispatchFindsNothing, DispatchSleeps,
     DispatchTakes, DispatchHandsOff, SpuriousWakeUp, answeredBar, taskVars, workVars
<1>6. ASSUME NEW w \in Worker, WorkerSleeps(w) \/ WorkerWakes(w) PROVE OverWasTaken'
  BY <1>1, <1>6 DEF WorkerSleeps, WorkerWakes, answeredBar, taskVars, workVars
<1>7. ASSUME NEW w \in Worker, Lambda(w) PROVE OverWasTaken'
  <2>1. CASE \/ CheckLatest(w) \/ SupersededThrows(w) \/ PublishAck(w)
             \/ PublishResult(w) \/ EraseRunning(w)
    BY <1>1, <2>1 DEF CheckLatest, SupersededThrows, PublishAck, PublishResult, EraseRunning,
       answeredBar, taskVars, workVars
  <2>2. CASE AnswerSuperseded(w) \/ RunReturns(w) \/ RunThrows(w)
    BY <1>2, <2>2 DEF AnswerSuperseded, RunReturns, RunThrows, Executing, answeredBar
  <2> QED BY <1>7, <2>1, <2>2 DEF Lambda
<1>8. CASE Destructor \/ UNCHANGED vars
  BY <1>1, <1>8 DEF Destructor, DestructorStops, DestructorNotifies, vars, answeredBar, taskVars,
     workVars
<1> QED
  BY <1>3, <1>4, <1>5, <1>6, <1>7, <1>8 DEF Next, WorkerThread

\* Every step of the scheduler is a step of TaskService on the mapped state, or
\* leaves the mapped state alone.
LEMMA StepRefines ==
  ASSUME TypeOK, QueueOrder, OnceInv, OverWasTaken, [Next]_vars
  PROVE  [Svc!Next]_(Svc!svcVars)
<1> USE DEF TypeOK, Pool!PoolTypeOK
<1>1. ASSUME UNCHANGED <<accepted, started, servingBar, answeredBar, openBar>>
      PROVE  UNCHANGED Svc!svcVars
  BY <1>1 DEF Svc!svcVars, servingBar, answeredBar, openBar
<1>2. ASSUME NEW t \in Task, AllocId(t) PROVE UNCHANGED Svc!svcVars
  <2>1. t \notin answeredBar
    <3>1. /\ Len(started) \in Nat /\ Len(accepted) \in Nat /\ Len(started) <= Len(accepted)
          /\ \A i \in 1 .. Len(started) : accepted[i] = started[i]
      BY Positions
    <3>2. \A i \in 1 .. Len(accepted) : accepted[i] # t
      BY <1>2 DEF AllocId, OnceInv, AcceptedOnce, taskTable
    <3>3. ASSUME NEW i \in 1 .. Len(started) PROVE started[i] # t
      <4>1. i \in 1 .. Len(accepted)
        BY <3>1
      <4> QED BY <3>1, <3>2, <4>1
    <3> QED BY <3>3 DEF OverWasTaken
  <2>2. answeredBar' = answeredBar
    BY <1>2, <2>1 DEF AllocId, answeredBar
  <2> QED
    BY <1>1, <1>2, <2>2 DEF AllocId, servingBar, openBar, stop, queueVars, workVars, poolVars
<1>3. ASSUME NEW t \in Task, Enqueue(t) PROVE Svc!Accept(t)
  <2>1. \A i \in 1 .. Len(accepted) : accepted[i] # t
    BY <1>3 DEF Enqueue, OnceInv, AcceptedOnce, taskTable
  <2> QED
    BY <1>3, <2>1 DEF Enqueue, Svc!Accept, stop, taskVars, workVars, poolVars
<1>4. ASSUME NEW t \in Task, Notify(t) PROVE UNCHANGED Svc!svcVars
  BY <1>1, <1>4 DEF Notify, servingBar, answeredBar, openBar, stop, queueVars, taskVars, workVars,
     poolVars
<1>5. CASE DispatchTakes
  <2> DEFINE task == Head(readyQueue)
  <2>1. /\ readyQueue # <<>> /\ task \in Task
        /\ status' = [status EXCEPT ![task] = "RUNNING"]
        /\ UNCHANGED <<accepted, started, servingBar, openBar>>
    BY <1>5, HeadTailProperties DEF DispatchTakes, servingBar, openBar, stop, workVars, poolVars
  <2>2. PICK k \in Len(started) + 1 .. Len(accepted) : accepted[k] = task
    BY <2>1, Positions
  <2>3. /\ Len(started) \in Nat /\ Len(accepted) \in Nat
        /\ Len(started) <= Len(accepted)
        /\ \A i \in 1 .. Len(started) : accepted[i] = started[i]
    BY Positions
  <2> HIDE DEF task
  <2>4. \A i, j \in 1 .. Len(accepted) : accepted[i] = accepted[j] => i = j
    BY DEF OnceInv, AcceptedOnce
  <2>5. ASSUME NEW i \in 1 .. Len(started) PROVE started[i] # task
    <3>1. i \in 1 .. Len(accepted) /\ k \in 1 .. Len(accepted) /\ i # k
      BY <2>2, <2>3, SMTT(30)
    <3> QED BY <2>2, <2>3, <2>4, <3>1
  <2>6. task \notin answeredBar
    BY <2>5 DEF OverWasTaken
  <2>7. answeredBar' = answeredBar
    BY <2>1, <2>6 DEF answeredBar
  <2> QED BY <1>1, <2>1, <2>7
<1>6. CASE DispatchStops \/ DispatchFindsNothing \/ DispatchSleeps \/ SpuriousWakeUp
  BY <1>1, <1>6 DEF DispatchStops, DispatchFindsNothing, DispatchSleeps, SpuriousWakeUp,
     servingBar, answeredBar, openBar, stop, queueVars, taskVars, workVars, poolVars
<1>7. CASE DispatchHandsOff
  BY <1>1, <1>7 DEF DispatchHandsOff, Pool!Submit, servingBar, answeredBar, openBar, stop,
     queueVars, taskVars, workVars
<1>8. ASSUME NEW w \in Worker, TakeJob(w) PROVE Svc!Start(w)
  <2> DEFINE job == Head(workQueue)
  <2>1. /\ workQueue # <<>> /\ job \in Task
        /\ wpc[w] = "poll" /\ wjob' = [wjob EXCEPT ![w] = job]
        /\ phase' = [phase EXCEPT ![w] = IF IsCar(job) THEN "check" ELSE "run"]
        /\ started' = Append(started, job)
        /\ UNCHANGED <<accepted, status, up, dtorPc>>
    BY <1>8, HeadTailProperties DEF TakeJob, Pool!TryPop, queueVars, taskVars
  <2>2. /\ Len(started) < Len(accepted) /\ accepted[Len(started) + 1] = job
    BY <2>1, Positions
  <2> HIDE DEF job
  <2>3. Len(started') = Len(started) + 1
    BY <2>1, AppendProperties
  <2>4. servingBar[w] = NoTask /\ servingBar' = [servingBar EXCEPT ![w] = job]
    BY <2>1 DEF servingBar
  <2>5. UNCHANGED <<answeredBar, openBar>>
    BY <2>1 DEF answeredBar, openBar, stop
  <2> QED BY <2>1, <2>2, <2>3, <2>4, <2>5 DEF Svc!Start, servingBar, answeredBar, openBar
<1>9. ASSUME NEW w \in Worker, WorkerSleeps(w) \/ WorkerWakes(w) PROVE UNCHANGED Svc!svcVars
  BY <1>1, <1>9 DEF WorkerSleeps, WorkerWakes, Pool!FallAsleep, Pool!WakeUp, servingBar,
     answeredBar, openBar, stop, queueVars, taskVars, workVars
<1>10. ASSUME NEW w \in Worker,
              CheckLatest(w) \/ PublishAck(w) \/ PublishResult(w) \/ EraseRunning(w)
       PROVE  UNCHANGED Svc!svcVars
  <2>1. CASE CheckLatest(w)
    BY <1>1, <2>1 DEF CheckLatest, servingBar, answeredBar, openBar, stop, queueVars, taskVars,
       poolVars
  <2>2. CASE PublishAck(w) \/ PublishResult(w)
    BY <1>1, <2>2 DEF PublishAck, PublishResult, Executing, servingBar, answeredBar, openBar, stop, queueVars, poolVars
  <2>3. CASE EraseRunning(w)
    BY <1>1, <2>3 DEF EraseRunning, Pool!JobReturns, servingBar, answeredBar, openBar, stop,
       queueVars
  <2> QED BY <1>10, <2>1, <2>2, <2>3
<1>11. ASSUME NEW w \in Worker, AnswerSuperseded(w) \/ RunReturns(w) \/ RunThrows(w)
       PROVE  Svc!Answer(w)
  <2>1. /\ phase[w] \in {"superseded", "run", "acked", "published"} /\ wjob[w] \in Task
        /\ \/ phase' = [phase EXCEPT ![w] = "none"]
           \/ phase' = [phase EXCEPT ![w] = "erase"] /\ wjob' = wjob
        /\ \A v \in Worker \ {w} : wjob'[v] = wjob[v]
        /\ \E s \in {"FINISHED", "FAILED"} : status' = [status EXCEPT ![wjob[w]] = s]
        /\ UNCHANGED <<accepted, started, up, dtorPc>>
    <3>1. CASE AnswerSuperseded(w)
      BY <3>1 DEF AnswerSuperseded, Pool!JobReturns, queueVars
    <3>2. CASE RunReturns(w)
      BY <3>2 DEF RunReturns, Executing, queueVars, poolVars
    <3>3. CASE RunThrows(w)
      BY <3>3 DEF RunThrows, Executing, queueVars, poolVars
    <3> QED BY <1>11, <3>1, <3>2, <3>3
  <2>2. servingBar[w] = wjob[w] /\ wjob[w] # NoTask
    BY <2>1 DEF servingBar
  <2>3. servingBar' = [servingBar EXCEPT ![w] = NoTask]
    BY <2>1, ZenonT(40) DEF servingBar
  <2>4. answeredBar' = answeredBar \cup {wjob[w]}
    BY <2>1 DEF answeredBar
  <2>5. UNCHANGED <<accepted, started, openBar>>
    BY <2>1 DEF openBar, stop
  <2> QED BY <2>2, <2>3, <2>4, <2>5 DEF Svc!Answer, servingBar, answeredBar, openBar
<1>12. ASSUME NEW w \in Worker, SupersededThrows(w) PROVE Svc!Close \/ UNCHANGED Svc!svcVars
  BY <1>12 DEF SupersededThrows, Svc!Close, Svc!svcVars, stop, queueVars, taskVars, workVars,
     poolVars
<1>13. ASSUME DestructorStops PROVE Svc!Close \/ UNCHANGED Svc!svcVars
  BY <1>13 DEF DestructorStops, Next, Svc!Close, Svc!svcVars, stop, queueVars, taskVars, workVars,
     poolVars
<1>14. CASE DestructorNotifies
  BY <1>1, <1>14 DEF DestructorNotifies, servingBar, answeredBar, openBar, stop, queueVars, taskVars,
     workVars, poolVars
<1>15. CASE UNCHANGED vars
  BY <1>1, <1>15 DEF vars, servingBar, answeredBar, openBar, stop, queueVars, taskVars, workVars,
     poolVars
<1> QED
  BY <1>2, <1>3, <1>4, <1>5, <1>6, <1>7, <1>8, <1>9, <1>10, <1>11, <1>12, <1>13, <1>14, <1>15
  DEF Next, Client, Dispatcher, WorkerThread, Lambda, Destructor, Svc!Next

\* Whatever the threads do, clients see a service that accepts commands in some
\* order, starts them in that order on at most one server each, and ends each once.
THEOREM Refinement == Spec => ImplementsTaskService
<1>1. Init => Svc!Init
  BY DEF Init, Pool!PoolInit, Svc!Init, stop
<1>2. Init => OnceInv /\ OverWasTaken
  BY DEF Init, Pool!PoolInit, OnceInv, AcceptedOnce, OverWasTaken, answeredBar
<1>3. TypeOK /\ QueueOrder /\ OnceInv /\ OverWasTaken /\ [Next]_vars => [Svc!Next]_(Svc!svcVars)
  BY StepRefines
<1> QED
  BY <1>1, <1>2, <1>3, OnceStep, OverStep, TypeCorrect, QueueOrderCorrect, PTL
  DEF Spec, ImplementsTaskService, Svc!Safety

-----------------------------------------------------------------------------
(* From here on CarCommands: the scheduler together with the device layer.  *)

\* The device layer with its theorems; its definitions are those of Dev.
DevP == INSTANCE CarControl_proofs
          WITH Proc <- Worker, CarId <- Car, Command <- Task, NoProc <- NoTask

USE CommandAssumption

\* What the proofs know of the scheduler.
SchedulerInv == TypeOK /\ QueueOrder /\ OnceInv /\ SupersededInv

\* Every step is one of the scheduler, or leaves the scheduler alone.
LEMMA SchedulerSteps == [CmdNext]_allVars => [Next]_vars
<1> SUFFICES ASSUME [CmdNext]_allVars PROVE [Next]_vars
  OBVIOUS
<1>1. CASE UNCHANGED allVars
  BY <1>1 DEF allVars
<1>2. ASSUME up, NEW t \in Task, Cancel(t) \/ SubmitCommand(t) PROVE [Next]_vars
  BY <1>2 DEF Cancel, SubmitCommand, Next
<1>3. ASSUME up, Scheduling PROVE [Next]_vars
  BY <1>3 DEF Scheduling, Next, WorkerThread, Lambda
<1>4. ASSUME up, NEW w \in Worker, WorkerOperates(w) PROVE [Next]_vars
  <2>1. CASE AnswerWithLastStatus(w)
    BY <1>4, <2>1 DEF AnswerWithLastStatus, Next, WorkerThread, Lambda
  <2>2. CASE FinishOperate(w)
    BY <1>4, <2>2 DEF FinishOperate, Next, WorkerThread, Lambda
  <2>3. CASE StartOperate(w) \/ TakeSnapshot(w) \/ SendFrame(w) \/ OtherDeviceStep(w)
    BY <2>3 DEF StartOperate, TakeSnapshot, SendFrame, OtherDeviceStep
  <2> QED BY <1>4, <2>1, <2>2, <2>3 DEF WorkerOperates
<1> QED BY <1>1, <1>2, <1>3, <1>4 DEF CmdNext

\* The scheduler's invariants are kept.
LEMMA SchedulerInvStep == SchedulerInv /\ [CmdNext]_allVars => SchedulerInv'
BY SchedulerSteps, TypeStep, QueueOrderStep, OnceStep, SupersededStep DEF SchedulerInv

\* A worker that holds a task holds one that was accepted.
LEMMA HeldIsAccepted ==
  ASSUME SchedulerInv, NEW w \in Worker, phase[w] # "none"
  PROVE  wjob[w] \in Task /\ wjob[w] # NoTask /\ Accepted(wjob[w])
<1>1. wjob[w] \in Task /\ wjob[w] # NoTask
  BY DEF SchedulerInv, TypeOK, Pool!PoolTypeOK
<1>2. PICK i \in 1 .. Len(started) : started[i] = wjob[w]
  BY <1>1 DEF SchedulerInv, OnceInv
<1>3. /\ Len(started) \in Nat /\ Len(accepted) \in Nat /\ Len(started) <= Len(accepted)
      /\ \A k \in 1 .. Len(started) : accepted[k] = started[k]
  BY Positions DEF SchedulerInv
<1>4. i \in 1 .. Len(accepted) /\ accepted[i] = wjob[w]
  BY <1>2, <1>3
<1>5. accepted \in Seq(Task)
  BY DEF SchedulerInv, TypeOK
<1> QED BY <1>1, <1>4, <1>5 DEF Accepted, ToSet

\* Every step is one of the device layer, or leaves that alone.
LEMMA DeviceSteps == SchedulerInv /\ [CmdNext]_allVars => [DevP!CarNext]_(DevP!carVars)
<1> SUFFICES ASSUME SchedulerInv, [CmdNext]_allVars PROVE [DevP!CarNext]_(DevP!carVars)
  OBVIOUS
<1> USE DEF Dev!At, Dev!Goto, Dev!CarOfCall, Dev!Superseded, Dev!ctxVars, Dev!procVars,
        Dev!histVars, DevP!At, DevP!Goto, DevP!CarOfCall, DevP!Superseded, DevP!ctxVars,
        DevP!procVars, DevP!histVars
<1>1. ASSUME UNCHANGED devVars PROVE UNCHANGED DevP!carVars
  BY <1>1 DEF devVars, DevP!carVars
<1>2. ASSUME NEW t \in Task, Cancel(t) PROVE DevP!CarNext
  <2>1. CarOf[t] \in Car /\ DevP!Interrupt(CarOf[t])
    BY <1>2 DEF Cancel, Dev!Interrupt, DevP!Interrupt
  <2> QED BY <2>1 DEF DevP!CarNext
<1>3. ASSUME NEW w \in Worker, StartOperate(w) PROVE DevP!CarNext
  <2>1. wjob[w] \in Task
    BY <1>3, HeldIsAccepted DEF StartOperate
  <2>2. CarOf[wjob[w]] \in Car /\ DevP!Call(w, CarOf[wjob[w]], wjob[w])
    BY <1>3, <2>1 DEF StartOperate, Dev!Call, DevP!Call
  <2> QED BY <2>1, <2>2 DEF DevP!CarNext
<1>4. ASSUME NEW w \in Worker, TakeSnapshot(w) \/ SendFrame(w) \/ OtherDeviceStep(w)
      PROVE  DevP!CarNext
  <2>1. CASE TakeSnapshot(w)
    BY <2>1 DEF TakeSnapshot, Dev!Capture, DevP!Capture, DevP!Operating, DevP!CarNext
  <2>2. CASE SendFrame(w)
    BY <2>2 DEF SendFrame, Dev!Send, DevP!Send, DevP!Operating, DevP!CarNext
  <2>3. CASE Dev!Lock(w)
    BY <2>3 DEF Dev!Lock, DevP!Lock, DevP!Operating, DevP!CarNext
  <2>4. CASE Dev!Abort(w) \/ Dev!WindowEnds(w)
    <3>1. Dev!Return(w) => DevP!Return(w)
      BY DEF Dev!Return, DevP!Return, Dev!LocalsEnd, DevP!LocalsEnd
    <3> QED BY <2>4, <3>1 DEF Dev!Abort, DevP!Abort, Dev!WindowEnds, DevP!WindowEnds,
            DevP!Operating, DevP!CarNext
  <2>5. CASE Dev!CheckBeforeSend(w)
    BY <2>5 DEF Dev!CheckBeforeSend, DevP!CheckBeforeSend, DevP!Operating, DevP!CarNext
  <2>6. CASE Dev!Poll(w)
    BY <2>6 DEF Dev!Poll, DevP!Poll, DevP!Operating, DevP!CarNext
  <2>7. CASE Dev!NextRound(w)
    BY <2>7 DEF Dev!NextRound, DevP!NextRound, DevP!Operating, DevP!CarNext
  <2> QED BY <1>4, <2>1, <2>2, <2>3, <2>4, <2>5, <2>6, <2>7 DEF OtherDeviceStep
<1>5. ASSUME NEW w \in Worker, FinishOperate(w) PROVE DevP!CarNext
  BY <1>5 DEF FinishOperate, Dev!TakeResult, DevP!TakeResult, Dev!NoCall, DevP!NoCall,
     Dev!NoResult, DevP!NoResult, DevP!CarNext
<1>6. ASSUME NEW t \in Task, SubmitCommand(t) PROVE UNCHANGED devVars
  BY <1>6 DEF SubmitCommand
<1>7. ASSUME NEW w \in Worker, AnswerWithLastStatus(w) PROVE UNCHANGED devVars
  BY <1>7 DEF AnswerWithLastStatus
<1>8. CASE Scheduling \/ UNCHANGED allVars
  BY <1>1, <1>8 DEF Scheduling, allVars
<1> QED
  BY <1>1, <1>2, <1>3, <1>4, <1>5, <1>6, <1>7, <1>8 DEF CmdNext, WorkerOperates

\* The device layer's invariant is kept.
LEMMA DeviceInvStep == SchedulerInv /\ DevP!CarInv /\ [CmdNext]_allVars => DevP!CarInv'
BY DeviceSteps, DevP!CarInvStep

-----------------------------------------------------------------------------
(* The order of the commands.                                              *)

\* The place of an element in a sequence that holds nothing twice.
LEMMA PlaceInSequence ==
  ASSUME NEW q \in Seq(Task), \A i, j \in 1 .. Len(q) : q[i] = q[j] => i = j,
         NEW t \in ToSet(q)
  PROVE  LET k == CHOOSE i \in 1 .. Len(q) : q[i] = t
         IN  k \in 1 .. Len(q) /\ q[k] = t /\ \A i \in 1 .. Len(q) : q[i] = t => i = k
<1> DEFINE k == CHOOSE i \in 1 .. Len(q) : q[i] = t
<1>1. \E i \in 1 .. Len(q) : q[i] = t
  BY DEF ToSet
<1>2. k \in 1 .. Len(q) /\ q[k] = t
  BY <1>1
<1> QED BY <1>2

\* What Accepted and Position mean, now and after a step.
LEMMA PositionOf ==
  ASSUME SchedulerInv, NEW t, Accepted(t)
  PROVE  /\ Position(t) \in 1 .. Len(accepted) /\ accepted[Position(t)] = t
         /\ \A i \in 1 .. Len(accepted) : accepted[i] = t => i = Position(t)
<1>1. accepted \in Seq(Task) /\ \A i, j \in 1 .. Len(accepted) : accepted[i] = accepted[j] => i = j
  BY DEF SchedulerInv, TypeOK, OnceInv, AcceptedOnce
<1> QED BY <1>1, PlaceInSequence DEF Accepted, Position

LEMMA PositionOfNext ==
  ASSUME SchedulerInv', NEW t, Accepted(t)'
  PROVE  /\ Position(t)' \in 1 .. Len(accepted') /\ accepted'[Position(t)'] = t
         /\ \A i \in 1 .. Len(accepted') : accepted'[i] = t => i = Position(t)'
<1>1. /\ accepted' \in Seq(Task)
      /\ \A i, j \in 1 .. Len(accepted') : accepted'[i] = accepted'[j] => i = j
  BY DEF SchedulerInv, TypeOK, OnceInv, AcceptedOnce
<1> QED BY <1>1, PlaceInSequence DEF Accepted, Position

\* Of two accepted commands of a car one is the newer.
LEMMA OneIsNewer ==
  ASSUME SchedulerInv, NEW t, NEW u, Accepted(t), Accepted(u), t # u, CarOf[t] = CarOf[u],
         ~NewerThan(u, t)
  PROVE  NewerThan(t, u)
<1>1. /\ Position(t) \in Nat /\ Position(u) \in Nat
      /\ Position(t) # Position(u)
  <2>1. accepted \in Seq(Task) /\ Len(accepted) \in Nat
    BY LenProperties DEF SchedulerInv, TypeOK
  <2> QED BY <2>1, PositionOf
<1> QED BY <1>1 DEF NewerThan

\* Which commands are newer than an accepted one is settled when it is accepted.
LEMMA NewerSettled ==
  ASSUME SchedulerInv, SchedulerInv', NEW t, Accepted(t),
         UNCHANGED accepted \/ \E x \in Task : accepted' = Append(accepted, x)
  PROVE  Accepted(t)' /\ \A u : NewerThan(u, t)' <=> NewerThan(u, t)
<1>1. CASE UNCHANGED accepted
  BY <1>1 DEF Accepted, NewerThan, Position
<1>2. ASSUME NEW x \in Task, accepted' = Append(accepted, x)
      PROVE  Accepted(t)' /\ \A u : NewerThan(u, t)' <=> NewerThan(u, t)
  <2>1. /\ accepted \in Seq(Task) /\ Len(accepted) \in Nat /\ Len(accepted') = Len(accepted) + 1
        /\ accepted' \in Seq(Task)
        /\ \A i \in 1 .. Len(accepted) : accepted'[i] = accepted[i]
        /\ accepted'[Len(accepted) + 1] = x
    BY <1>2, AppendProperties, LenProperties DEF SchedulerInv, TypeOK
  <2>2. ASSUME NEW u, Accepted(u) PROVE Accepted(u)' /\ Position(u)' = Position(u)
    <3>1. Position(u) \in 1 .. Len(accepted) /\ accepted[Position(u)] = u
      BY <2>2, PositionOf
    <3>2. Position(u) \in 1 .. Len(accepted') /\ accepted'[Position(u)] = u
      BY <2>1, <3>1
    <3>3. Accepted(u)'
      BY <2>1, <3>2 DEF Accepted, ToSet
    <3>4. \A i \in 1 .. Len(accepted') : accepted'[i] = u => i = Position(u)'
      BY <3>3, PositionOfNext
    <3> QED BY <3>2, <3>3, <3>4
  <2>3. ASSUME NEW u, ~Accepted(u), Accepted(u)' PROVE Position(u)' > Position(t)
    <3>1. Position(u)' \in 1 .. Len(accepted') /\ accepted'[Position(u)'] = u
      BY <2>3, PositionOfNext
    <3>2. \A i \in 1 .. Len(accepted) : accepted[i] # u
      BY <2>1, <2>3 DEF Accepted, ToSet
    <3>3. Position(u)' = Len(accepted) + 1
      BY <2>1, <3>1, <3>2
    <3>4. Position(t) \in 1 .. Len(accepted)
      BY PositionOf
    <3> QED BY <2>1, <3>3, <3>4
  <2>4. Accepted(t)' /\ Position(t)' = Position(t)
    BY <2>2
  <2>5. ASSUME NEW u PROVE NewerThan(u, t)' <=> NewerThan(u, t)
    <3>1. CASE Accepted(u)
      BY <2>2, <2>4, <3>1 DEF NewerThan
    <3>2. CASE ~Accepted(u)
      BY <2>3, <2>4, <3>2 DEF NewerThan
    <3> QED BY <3>1, <3>2
  <2> QED BY <2>4, <2>5
<1> QED BY <1>1, <1>2

\* The ready queue's history grows by one command at a time.
LEMMA AcceptedGrows ==
  SchedulerInv /\ [CmdNext]_allVars =>
      UNCHANGED accepted \/ \E x \in Task : accepted' = Append(accepted, x)
<1> SUFFICES ASSUME [Next]_vars
             PROVE  UNCHANGED accepted \/ \E x \in Task : accepted' = Append(accepted, x)
  BY SchedulerSteps
<1>1. ASSUME NEW t \in Task, Client(t)
      PROVE  UNCHANGED accepted \/ \E x \in Task : accepted' = Append(accepted, x)
  BY <1>1 DEF Client, AllocId, Enqueue, Notify, queueVars
<1>2. CASE Dispatcher \/ SpuriousWakeUp \/ Destructor \/ UNCHANGED vars
  BY <1>2 DEF Dispatcher, DispatchStops, DispatchFindsNothing, DispatchSleeps, DispatchTakes,
     DispatchHandsOff, SpuriousWakeUp, Destructor, DestructorStops, DestructorNotifies, vars,
     queueVars
<1>3. ASSUME NEW w \in Worker, WorkerThread(w) PROVE UNCHANGED accepted
  BY <1>3 DEF WorkerThread, TakeJob, WorkerSleeps, WorkerWakes, Lambda, CheckLatest,
     AnswerSuperseded, SupersededThrows, PublishAck, PublishResult, RunReturns, RunThrows,
     EraseRunning, queueVars
<1> QED BY <1>1, <1>2, <1>3 DEF Next

-----------------------------------------------------------------------------
(* How the two mechanisms meet.                                            *)

InOperate == {"lock", "loop", "send", "poll"}

\* A worker inside operate() is there for the task it holds, which it has acked.
LinkInv ==
    \A w \in Worker : pc[w] # "idle" =>
        phase[w] = "acked" /\ call[w] = [car |-> CarOf[wjob[w]], cmd |-> wjob[w]]

\* The MQTT handler has interrupted before it submits, and what has driven a car was
\* accepted.
HandlerInv ==
    /\ cancelled \subseteq Mqtt
    /\ \A t \in Mqtt : subPc[t] # "none" => t \in cancelled
    /\ drove \subseteq Task /\ raced \subseteq Task
    /\ \A t \in drove : Accepted(t)
    /\ \A c \in Device : line[c] # NoCommand => line[c] \in drove /\ CarOf[line[c]] = c

\* An operation that nobody has told to stop knows of every newer handler that
\* has interrupted, unless it raced with one when it took its snapshot.
SnapshotInv ==
    \A w \in Worker :
        pc[w] \in InOperate /\ toldAt[w] = "no" /\ wjob[w] \notin raced
        => \A u \in cancelled : ~NewerThan(u, wjob[w])

\* So it is about to send only if no newer MQTT command has driven the car: and
\* none can before it has sent, because it holds the car's mutex.
FrameInv ==
    \A w \in Worker :
        pc[w] = "send" /\ wjob[w] \notin raced
        => \A n \in Mqtt \cap drove : ~NewerThan(n, wjob[w])

\* What drives a car now is not older than any MQTT command that has driven it.
LineInv ==
    \A n \in Mqtt \cap drove :
        LET l == line[CarOf[n]]
        IN  l = n \/ l \in raced \/ (Accepted(l) /\ NewerThan(l, n))

CmdInv == LinkInv /\ HandlerInv /\ SnapshotInv /\ FrameInv /\ LineInv /\ AbortOnlyForNewer

IInv == SchedulerInv /\ DevP!CarInv /\ CmdInv

\* Nothing has been commanded yet.
LEMMA IInvInit == CmdInit => IInv
<1> SUFFICES ASSUME CmdInit PROVE IInv
  OBVIOUS
<1>1. SchedulerInv
  <2>1. TypeOK
    BY DEF CmdInit, Init, TypeOK, Pool!PoolInit, Pool!PoolTypeOK
  <2>2. QueueOrder
    BY DEF CmdInit, Init, Pool!PoolInit, QueueOrder, InHand
  <2>3. OnceInv
    BY DEF CmdInit, Init, Pool!PoolInit, OnceInv, AcceptedOnce
  <2>4. SupersededInv
    BY DEF CmdInit, Init, SupersededInv, LatestIsNewest, ToSet
  <2> QED BY <2>1, <2>2, <2>3, <2>4 DEF SchedulerInv
<1>2. DevP!CarInv
  <2>1. DevP!CarInit
    BY DEF CmdInit, Dev!CarInit, DevP!CarInit, Dev!NoCall, DevP!NoCall, Dev!NoResult,
       DevP!NoResult
  <2> QED BY <2>1, DevP!CarInvInit
<1>3. CmdInv
  BY DEF CmdInit, Init, Dev!CarInit, CmdInv, LinkInv, HandlerInv, SnapshotInv, FrameInv, LineInv,
     AbortOnlyForNewer, InOperate
<1> QED BY <1>1, <1>2, <1>3 DEF IInv

\* Where a worker may be in operate(), with the types that the proofs use.
LEMMA Labels ==
  ASSUME DevP!CarInv, NEW w \in Worker
  PROVE  /\ pc[w] \in {"idle", "capture", "lock", "loop", "send", "poll", "returned"}
         /\ pc \in [Worker -> {"idle", "capture", "lock", "loop", "send", "poll", "returned"}]
         /\ pc[w] \in {"idle", "capture"} => toldAt[w] = "no"
BY DEF DevP!CarInv, DevP!CarTypeOK, DevP!Label, DevP!ToldInv

\* While a worker is inside operate(), no step of the scheduler takes its task.
LEMMA TaskIsHeld ==
  ASSUME SchedulerInv, LinkInv, [CmdNext]_allVars, NEW w \in Worker, pc[w] # "idle"
  PROVE  wjob'[w] = wjob[w] /\ (phase'[w] = "acked" \/ FinishOperate(w))
<1>1. phase[w] = "acked" /\ wpc[w] = "busy" /\ w \in DOMAIN phase /\ w \in DOMAIN wjob
      /\ phase \in [Worker -> {"none", "check", "superseded", "run", "acked", "published",
                               "erase"}]
      /\ wjob \in [Worker -> Task \cup {NoTask}]
  BY DEF SchedulerInv, TypeOK, LinkInv, Pool!PoolTypeOK
<1>2. ASSUME UNCHANGED vars PROVE wjob'[w] = wjob[w] /\ phase'[w] = "acked"
  BY <1>1, <1>2 DEF vars, poolVars, workVars
<1>3. ASSUME NEW t \in Task, SubmitCommand(t) PROVE wjob'[w] = wjob[w] /\ phase'[w] = "acked"
  BY <1>1, <1>3 DEF SubmitCommand, Client, AllocId, Enqueue, Notify, poolVars, workVars
<1>4. ASSUME Dispatcher \/ SpuriousWakeUp PROVE wjob'[w] = wjob[w] /\ phase'[w] = "acked"
  BY <1>1, <1>4 DEF Dispatcher, DispatchStops, DispatchFindsNothing, DispatchSleeps,
     DispatchTakes, DispatchHandsOff, SpuriousWakeUp, Pool!Submit, poolVars, workVars
<1>5. ASSUME NEW v \in Worker, TakeJob(v) \/ WorkerSleeps(v) \/ WorkerWakes(v)
      PROVE  wjob'[w] = wjob[w] /\ phase'[w] = "acked"
  BY <1>1, <1>5 DEF TakeJob, WorkerSleeps, WorkerWakes, Pool!TryPop, Pool!FallAsleep,
     Pool!WakeUp, workVars
<1>6. ASSUME NEW v \in Worker, \/ CheckLatest(v) \/ PublishAck(v) \/ RunReturns(v)
                              \/ EraseRunning(v) \/ AnswerSuperseded(v)
      PROVE  wjob'[w] = wjob[w] /\ phase'[w] = "acked"
  BY <1>1, <1>6 DEF CheckLatest, PublishAck, RunReturns, EraseRunning, AnswerSuperseded,
     Pool!JobReturns, poolVars
<1>7. ASSUME NEW v \in Worker, FinishOperate(v)
      PROVE  wjob'[w] = wjob[w] /\ (phase'[w] = "acked" \/ FinishOperate(w))
  BY <1>1, <1>7 DEF FinishOperate, PublishResult, poolVars
<1> QED
  BY <1>2, <1>3, <1>4, <1>5, <1>6, <1>7 DEF CmdNext, Scheduling, WorkerOperates, Cancel,
     AnswerWithLastStatus, StartOperate, TakeSnapshot, SendFrame, OtherDeviceStep, allVars

\* A step of the scheduler leaves what a worker in operate() is doing, and the order of
\* its command among the others.
LEMMA HeldKeepsOrder ==
  ASSUME SchedulerInv, SchedulerInv', LinkInv, [CmdNext]_allVars, NEW w \in Worker,
         pc[w] # "idle"
  PROVE  wjob'[w] = wjob[w] /\ \A u : NewerThan(u, wjob[w])' <=> NewerThan(u, wjob[w])
<1>1. wjob'[w] = wjob[w]
  BY TaskIsHeld
<1>2. PICK t \in Task : t = wjob[w] /\ Accepted(t)
  BY HeldIsAccepted DEF LinkInv
<1>3. \A u : NewerThan(u, t)' <=> NewerThan(u, t)
  BY <1>2, AcceptedGrows, NewerSettled
<1> QED BY <1>1, <1>2, <1>3 DEF NewerThan

-----------------------------------------------------------------------------
(* One lemma for each conjunct.                                            *)

\* What moves a worker into operate(), and what leaves it there.
LEMMA CallIsKept ==
  ASSUME IInv, [CmdNext]_allVars, NEW w \in Worker, pc'[w] # "idle"
  PROVE  StartOperate(w) \/ (pc[w] # "idle" /\ call'[w] = call[w])
<1> DEFINE Goal == StartOperate(w) \/ (pc[w] # "idle" /\ call'[w] = call[w])
<1>1. /\ pc \in [Worker -> {"idle", "capture", "lock", "loop", "send", "poll", "returned"}]
      /\ DOMAIN call = Worker
  BY Labels DEF IInv, DevP!CarInv, DevP!CarTypeOK
<1> USE <1>1 DEF Dev!At, Dev!Goto, Dev!ctxVars, Dev!procVars, Dev!histVars
<1>2. ASSUME UNCHANGED <<pc, call>> PROVE Goal
  BY <1>2
<1>3. ASSUME NEW t \in Task, Cancel(t) \/ SubmitCommand(t) PROVE Goal
  BY <1>2, <1>3 DEF Cancel, SubmitCommand, Dev!Interrupt, devVars
<1>4. ASSUME NEW v \in Worker, StartOperate(v) PROVE Goal
  BY <1>4 DEF StartOperate, Dev!Call
<1>5. ASSUME NEW v \in Worker, TakeSnapshot(v) \/ SendFrame(v) PROVE Goal
  BY <1>5 DEF TakeSnapshot, SendFrame, Dev!Capture, Dev!Send
<1>6. ASSUME NEW v \in Worker, OtherDeviceStep(v) PROVE Goal
  BY <1>6 DEF OtherDeviceStep, Dev!Lock, Dev!Abort, Dev!WindowEnds, Dev!Return,
     Dev!CheckBeforeSend, Dev!Poll, Dev!NextRound
<1>7. ASSUME NEW v \in Worker, FinishOperate(v) PROVE Goal
  BY <1>7 DEF FinishOperate, Dev!TakeResult
<1> QED
  BY <1>2, <1>3, <1>4, <1>5, <1>6, <1>7 DEF CmdNext, Scheduling, WorkerOperates,
     AnswerWithLastStatus, allVars, devVars

\* A worker that carries out its task stays with it until operate() is over.
LEMMA LinkStep == IInv /\ [CmdNext]_allVars => LinkInv'
<1> SUFFICES ASSUME IInv, [CmdNext]_allVars, NEW w \in Worker, pc'[w] # "idle"
             PROVE  /\ phase'[w] = "acked"
                    /\ call'[w] = [car |-> CarOf[wjob'[w]], cmd |-> wjob'[w]]
  BY DEF LinkInv
<1>1. CASE StartOperate(w)
  <2>1. UNCHANGED <<phase, wjob>> /\ phase[w] = "acked" /\ w \in DOMAIN call
    BY <1>1 DEF StartOperate, vars, workVars, poolVars, IInv, DevP!CarInv, DevP!CarTypeOK
  <2> QED BY <1>1, <2>1 DEF StartOperate, Dev!Call
<1>2. ASSUME pc[w] # "idle", call'[w] = call[w]
      PROVE  /\ phase'[w] = "acked"
             /\ call'[w] = [car |-> CarOf[wjob'[w]], cmd |-> wjob'[w]]
  <2>1. wjob'[w] = wjob[w] /\ (phase'[w] = "acked" \/ FinishOperate(w))
    BY <1>2, TaskIsHeld DEF IInv, CmdInv
  <2>2. ~FinishOperate(w)
    BY Labels DEF FinishOperate, Dev!TakeResult, Dev!Goto, IInv
  <2> QED BY <1>2, <2>1, <2>2 DEF IInv, CmdInv, LinkInv
<1> QED BY <1>1, <1>2, CallIsKept

\* Who carries out a task has it from the queue, and drives the task's car with it.
LEMMA InOperation ==
  ASSUME IInv, NEW w \in Worker, pc[w] # "idle"
  PROVE  /\ wjob[w] \in Task /\ wjob[w] # NoTask /\ wjob[w] # NoCommand /\ Accepted(wjob[w])
         /\ CarOf[wjob[w]] \in Device
         /\ call[w].car = CarOf[wjob[w]] /\ call[w].cmd = wjob[w]
<1>1. phase[w] # "none" /\ call[w] = [car |-> CarOf[wjob[w]], cmd |-> wjob[w]]
  BY DEF IInv, CmdInv, LinkInv
<1> QED BY <1>1, HeldIsAccepted DEF IInv

\* The handler interrupts before it submits, and a frame carries an accepted command.
LEMMA HandlerStep == IInv /\ SchedulerInv' /\ [CmdNext]_allVars => HandlerInv'
<1> SUFFICES ASSUME IInv, SchedulerInv', [CmdNext]_allVars PROVE HandlerInv'
  OBVIOUS
<1>1. /\ cancelled \subseteq Mqtt /\ drove \subseteq Task /\ raced \subseteq Task
      /\ \A t \in Mqtt : subPc[t] # "none" => t \in cancelled
      /\ \A t \in drove : Accepted(t)
      /\ \A c \in Device : line[c] # NoCommand => line[c] \in drove /\ CarOf[line[c]] = c
      /\ DOMAIN line = Device /\ DOMAIN subPc = Task
  BY DEF IInv, CmdInv, HandlerInv, SchedulerInv, TypeOK, DevP!CarInv, DevP!CarTypeOK
<1>2. \A t \in drove : Accepted(t)'
  BY <1>1, AcceptedGrows, NewerSettled DEF IInv
<1>3. ASSUME UNCHANGED <<subPc, line, cmdVars>> PROVE HandlerInv'
  BY <1>1, <1>2, <1>3 DEF HandlerInv, cmdVars
<1>4. ASSUME NEW t \in Task, Cancel(t) PROVE HandlerInv'
  BY <1>1, <1>2, <1>4 DEF Cancel, Dev!Interrupt, HandlerInv, vars
<1>5. ASSUME NEW t \in Task, SubmitCommand(t) PROVE HandlerInv'
  <2>1. \A u \in Task : u # t => subPc'[u] = subPc[u]
    BY <1>1, <1>5 DEF SubmitCommand, Client, AllocId, Enqueue, Notify
  <2> QED BY <1>1, <1>2, <1>5, <2>1 DEF SubmitCommand, HandlerInv, devVars, cmdVars
<1>6. ASSUME Scheduling PROVE UNCHANGED <<subPc, line, cmdVars>>
  BY <1>6 DEF Scheduling, devVars, Dispatcher, DispatchStops, DispatchFindsNothing,
     DispatchSleeps, DispatchTakes, DispatchHandsOff, SpuriousWakeUp, TakeJob, WorkerSleeps,
     WorkerWakes, CheckLatest, PublishAck, RunReturns, EraseRunning
<1>7. ASSUME NEW w \in Worker, TakeSnapshot(w) PROVE HandlerInv'
  <2>1. wjob[w] \in Task
    BY <1>7, InOperation DEF TakeSnapshot, Dev!Capture, Dev!At
  <2>2. raced' \subseteq Task
    BY <1>1, <1>7, <2>1 DEF TakeSnapshot
  <2> QED BY <1>1, <1>2, <1>7, <2>2 DEF TakeSnapshot, Dev!Capture, Dev!ctxVars, HandlerInv, vars
<1>8. ASSUME NEW w \in Worker, SendFrame(w) PROVE HandlerInv'
  <2>1. PICK t \in Task : t = wjob[w] /\ Accepted(t) /\ CarOf[t] \in Device
                          /\ call[w].car = CarOf[t] /\ call[w].cmd = t
    BY <1>8, InOperation DEF SendFrame, Dev!Send, Dev!At
  <2>2. UNCHANGED <<vars, cancelled, raced>>
    BY <1>8 DEF SendFrame
  <2>3. Accepted(t)'
    BY <2>1, AcceptedGrows, NewerSettled DEF IInv
  <2>4. CASE line' = line
    BY <1>1, <1>2, <1>8, <2>2, <2>4 DEF SendFrame, HandlerInv, vars
  <2>5. ASSUME line' # line PROVE HandlerInv'
    <3>1. line' = [line EXCEPT ![CarOf[t]] = t] /\ drove' = drove \cup {t}
      BY <1>8, <2>1, <2>5 DEF SendFrame, Dev!Send, Dev!CarOfCall
    <3> QED BY <1>1, <1>2, <2>1, <2>2, <2>3, <3>1 DEF HandlerInv, vars
  <2> QED BY <2>4, <2>5
<1>9. ASSUME NEW w \in Worker, OtherDeviceStep(w) PROVE UNCHANGED <<subPc, line, cmdVars>>
  BY <1>9 DEF OtherDeviceStep, Dev!Lock, Dev!Abort, Dev!WindowEnds, Dev!Return,
     Dev!CheckBeforeSend, Dev!Poll, Dev!NextRound, Dev!ctxVars, vars
<1>10. ASSUME NEW w \in Worker, StartOperate(w) \/ AnswerWithLastStatus(w) \/ FinishOperate(w)
       PROVE  UNCHANGED <<subPc, line, cmdVars>>
  BY <1>10 DEF StartOperate, AnswerWithLastStatus, FinishOperate, AnswerSuperseded,
     PublishResult, Dev!Call, Dev!TakeResult, Dev!ctxVars, devVars, vars
<1> QED
  BY <1>3, <1>4, <1>5, <1>6, <1>7, <1>8, <1>9, <1>10 DEF CmdNext, WorkerOperates, allVars,
     devVars, vars

\* A handler that interrupts has not submitted yet: its command is newer than every
\* accepted one of the car.
LEMMA HandlerIsNewer ==
  ASSUME IInv, NEW u \in Task, Cancel(u), NEW w \in Worker, pc[w] # "idle"
  PROVE  NewerThan(u, wjob[w]) <=> CarOf[u] = CarOf[wjob[w]]
<1>1. ~Accepted(u)
  <2>1. \A i \in 1 .. Len(accepted) : accepted[i] \in taskTable
    BY DEF IInv, SchedulerInv, OnceInv, AcceptedOnce
  <2>2. u \notin taskTable
    BY DEF Cancel, taskTable
  <2> QED BY <2>1, <2>2 DEF Accepted, ToSet
<1> QED BY <1>1, InOperation DEF NewerThan

\* How a worker comes to be past its snapshot, to be about to send, and to be told.
LEMMA DeviceMoves ==
  ASSUME IInv, [CmdNext]_allVars, NEW w \in Worker
  PROVE  /\ pc'[w] \in InOperate => TakeSnapshot(w) \/ pc[w] \in InOperate
         /\ pc'[w] = "send" => \/ pc[w] = "send"
                               \/ Dev!CheckBeforeSend(w) /\ UNCHANGED <<vars, cmdVars>>
         /\ pc'[w] \in InOperate /\ toldAt'[w] = "no" => toldAt[w] = "no"
         /\ toldAt'[w] # "no" =>
               \/ toldAt[w] # "no"
               \/ \E u \in Task : Cancel(u) /\ CarOf[u] = call[w].car /\ pc[w] \in InOperate
<1> DEFINE Moves ==
             /\ pc'[w] \in InOperate => TakeSnapshot(w) \/ pc[w] \in InOperate
             /\ pc'[w] = "send" => \/ pc[w] = "send"
                                   \/ Dev!CheckBeforeSend(w) /\ UNCHANGED <<vars, cmdVars>>
             /\ pc'[w] \in InOperate /\ toldAt'[w] = "no" => toldAt[w] = "no"
             /\ toldAt'[w] # "no" =>
                   \/ toldAt[w] # "no"
                   \/ \E u \in Task : /\ Cancel(u) /\ CarOf[u] = call[w].car
                                      /\ pc[w] \in InOperate
<1>1. /\ pc \in [Worker -> {"idle", "capture", "lock", "loop", "send", "poll", "returned"}]
      /\ DOMAIN toldAt = Worker
  BY Labels DEF IInv, DevP!CarInv, DevP!CarTypeOK
<1> USE <1>1 DEF Dev!At, Dev!Goto, Dev!CarOfCall, Dev!ctxVars, Dev!procVars, Dev!histVars, InOperate
<1>2. ASSUME UNCHANGED <<pc, toldAt>> PROVE Moves
  BY <1>2
<1>3. ASSUME NEW u \in Task, Cancel(u) PROVE Moves
  BY <1>3 DEF Cancel, Dev!Interrupt
<1>4. ASSUME NEW v \in Worker, StartOperate(v) \/ TakeSnapshot(v) \/ SendFrame(v) PROVE Moves
  BY <1>4 DEF StartOperate, TakeSnapshot, SendFrame, Dev!Call, Dev!Capture, Dev!Send
<1>5. ASSUME NEW v \in Worker, OtherDeviceStep(v) PROVE Moves
  BY <1>5 DEF OtherDeviceStep, Dev!Lock, Dev!Abort, Dev!WindowEnds, Dev!Return,
     Dev!CheckBeforeSend, Dev!Poll, Dev!NextRound
<1>6. ASSUME NEW v \in Worker, FinishOperate(v) PROVE Moves
  BY <1>6 DEF FinishOperate, Dev!TakeResult
<1> HIDE DEF Moves
<1>7. Moves
  BY <1>2, <1>3, <1>4, <1>5, <1>6 DEF CmdNext, Scheduling, WorkerOperates, SubmitCommand,
     AnswerWithLastStatus, allVars, devVars
<1> QED BY <1>7 DEF Moves

\* The sets of handlers, drivers and racers, step by step.
LEMMA HistoryGrows ==
  ASSUME [CmdNext]_allVars
  PROVE  /\ cancelled' = cancelled \/ \E u \in Task : Cancel(u) /\ cancelled' = cancelled \cup {u}
         /\ raced \subseteq raced'
         /\ UNCHANGED <<drove, line>> \/ \E v \in Worker : SendFrame(v) /\ line' # line
         /\ drove \subseteq drove'
<1> DEFINE Grows ==
      /\ cancelled' = cancelled \/ \E u \in Task : Cancel(u) /\ cancelled' = cancelled \cup {u}
      /\ raced \subseteq raced'
      /\ UNCHANGED <<drove, line>> \/ \E v \in Worker : SendFrame(v) /\ line' # line
      /\ drove \subseteq drove'
<1>1. ASSUME UNCHANGED <<line, cmdVars>> PROVE Grows
  BY <1>1 DEF cmdVars
<1>2. ASSUME NEW u \in Task, Cancel(u) PROVE Grows
  BY <1>2 DEF Cancel, Dev!Interrupt
<1>3. ASSUME NEW w \in Worker, TakeSnapshot(w) \/ SendFrame(w) PROVE Grows
  BY <1>3 DEF TakeSnapshot, SendFrame, Dev!Capture, Dev!ctxVars
<1>4. ASSUME NEW w \in Worker, OtherDeviceStep(w) PROVE UNCHANGED <<line, cmdVars>>
  BY <1>4 DEF OtherDeviceStep, Dev!Lock, Dev!Abort, Dev!WindowEnds, Dev!Return,
     Dev!CheckBeforeSend, Dev!Poll, Dev!NextRound, Dev!ctxVars
<1>5. ASSUME NEW w \in Worker, StartOperate(w) \/ FinishOperate(w)
      PROVE  UNCHANGED <<line, cmdVars>>
  BY <1>5 DEF StartOperate, FinishOperate, Dev!Call, Dev!TakeResult, Dev!ctxVars
<1> HIDE DEF Grows
<1>6. Grows
  BY <1>1, <1>2, <1>3, <1>4, <1>5 DEF CmdNext, Scheduling, WorkerOperates, SubmitCommand,
     AnswerWithLastStatus, allVars, devVars
<1> QED BY <1>6 DEF Grows

\* A later interrupt reaches every operation of the car that has its snapshot.
LEMMA SnapshotStep == IInv /\ SchedulerInv' /\ [CmdNext]_allVars => SnapshotInv'
<1> SUFFICES ASSUME IInv, SchedulerInv', [CmdNext]_allVars, NEW w \in Worker,
                    pc'[w] \in InOperate, toldAt'[w] = "no", wjob'[w] \notin raced',
                    NEW u \in cancelled', NewerThan(u, wjob[w])'
             PROVE  FALSE
  BY DEF SnapshotInv, NewerThan
<1>1. pc[w] # "idle"
  BY DeviceMoves DEF InOperate, TakeSnapshot, Dev!Capture, Dev!At
<1>2. wjob'[w] = wjob[w] /\ NewerThan(u, wjob[w])
  BY <1>1, HeldKeepsOrder DEF IInv, CmdInv
<1>3. CASE TakeSnapshot(w)
  BY <1>2, <1>3 DEF TakeSnapshot
<1>4. CASE ~TakeSnapshot(w)
  <2>1. pc[w] \in InOperate /\ toldAt[w] = "no" /\ wjob[w] \notin raced
    BY <1>2, <1>4, DeviceMoves, HistoryGrows
  <2>2. u \notin cancelled
    BY <1>2, <2>1 DEF IInv, CmdInv, SnapshotInv
  <2>3. PICK t \in Task : Cancel(t) /\ cancelled' = cancelled \cup {t}
    BY <2>2, HistoryGrows
  <2>4. t = u
    BY <2>2, <2>3
  <2>5. CarOf[u] = call[w].car
    BY <1>1, <1>2, <2>3, <2>4, HandlerIsNewer, InOperation
  <2>6. toldAt'[w] = pc[w]
    BY <2>1, <2>3, <2>4, <2>5 DEF Cancel, Dev!Interrupt, Dev!CarOfCall, InOperate
  <2> QED BY <2>1, <2>6 DEF InOperate
<1> QED BY <1>3, <1>4

\* The check before a frame sees the interrupt of every newer handler, and the mutex
\* keeps the others out until the frame is sent.
LEMMA FrameStep == IInv /\ SchedulerInv' /\ [CmdNext]_allVars => FrameInv'
<1> SUFFICES ASSUME IInv, SchedulerInv', [CmdNext]_allVars, NEW w \in Worker,
                    pc'[w] = "send", wjob'[w] \notin raced',
                    NEW n \in Mqtt \cap drove', NewerThan(n, wjob[w])'
             PROVE  FALSE
  BY DEF FrameInv, NewerThan
<1>1. pc[w] # "idle"
  BY DeviceMoves DEF Dev!CheckBeforeSend, Dev!At
<1>2. wjob'[w] = wjob[w] /\ NewerThan(n, wjob[w]) /\ wjob[w] \notin raced
  BY <1>1, HeldKeepsOrder, HistoryGrows DEF IInv, CmdInv
<1>3. ASSUME Dev!CheckBeforeSend(w), UNCHANGED <<vars, cmdVars>> PROVE FALSE
  <2>1. pc[w] = "loop" /\ toldAt[w] = "no"
    BY <1>3, InOperation DEF Dev!CheckBeforeSend, Dev!At, Dev!Superseded, Dev!CarOfCall, IInv,
       DevP!CarInv, DevP!CarTypeOK, DevP!ToldInv
  <2>2. n \in cancelled
    <3>1. Accepted(n) /\ n \in drove
      BY <1>3 DEF IInv, CmdInv, HandlerInv, cmdVars
    <3>2. n \in taskTable
      BY <3>1 DEF Accepted, ToSet, IInv, SchedulerInv, OnceInv, AcceptedOnce
    <3> QED BY <3>2 DEF taskTable, IInv, CmdInv, HandlerInv
  <2> QED BY <1>2, <2>1, <2>2 DEF IInv, CmdInv, SnapshotInv, InOperate
<1>4. CASE pc[w] = "send"
  <2>1. n \notin drove
    BY <1>2, <1>4 DEF IInv, CmdInv, FrameInv
  <2>2. PICK v \in Worker : SendFrame(v)
    BY <2>1, HistoryGrows
  <2>3. n = wjob[v] /\ pc[v] = "send"
    BY <2>1, <2>2 DEF SendFrame, Dev!Send, Dev!At
  <2>4. call[v].car = call[w].car /\ call[v].car \in Device
    BY <1>1, <1>2, <2>3, InOperation DEF NewerThan
  <2>5. v = w
    BY <1>4, <2>3, <2>4 DEF IInv, DevP!CarInv, DevP!WindowInv
  <2> QED BY <1>2, <2>3, <2>5 DEF NewerThan
<1> QED BY <1>3, <1>4, DeviceMoves

\* A frame is put on the line over that of an older command, or by one that raced.
LEMMA LineStep == IInv /\ SchedulerInv' /\ [CmdNext]_allVars => LineInv'
<1> SUFFICES ASSUME IInv, SchedulerInv', [CmdNext]_allVars, NEW n \in Mqtt \cap drove',
                    line'[CarOf[n]] # n, line'[CarOf[n]] \notin raced'
             PROVE  Accepted(line[CarOf[n]])' /\ NewerThan(line[CarOf[n]], n)'
  BY DEF LineInv
<1>1. PICK l : l = line'[CarOf[n]]
  OBVIOUS
<1>2. l # n /\ l \notin raced
  BY <1>1, HistoryGrows
<1>3. /\ n \in Task /\ CarOf[n] \in Device
      /\ line \in [Device -> Task \cup {NoCommand}]
  BY SchedulerAssumption DEF IInv, DevP!CarInv, DevP!CarTypeOK
<1>4. Accepted(l) /\ Accepted(n) /\ NewerThan(l, n)
  <2>1. ASSUME n \in drove, line[CarOf[n]] = l PROVE Accepted(l) /\ Accepted(n) /\ NewerThan(l, n)
    BY <1>2, <2>1 DEF IInv, CmdInv, LineInv, HandlerInv
  <2>2. ASSUME NEW v \in Worker, SendFrame(v), line' # line
        PROVE  Accepted(l) /\ Accepted(n) /\ NewerThan(l, n)
    <3>1. PICK t \in Task : /\ t = wjob[v] /\ Accepted(t) /\ CarOf[t] \in Device
                            /\ call[v].car = CarOf[t] /\ call[v].cmd = t
      BY <2>2, InOperation DEF SendFrame, Dev!Send, Dev!At
    <3>2. /\ line' = [line EXCEPT ![CarOf[t]] = t] /\ drove' = drove \cup {t}
          /\ pc[v] = "send"
      BY <2>2, <3>1 DEF SendFrame, Dev!Send, Dev!CarOfCall, Dev!At
    <3>3. CASE CarOf[n] = CarOf[t]
      <4>1. l = t /\ n \in drove
        BY <1>1, <1>2, <1>3, <3>2, <3>3
      <4>2. Accepted(n) /\ ~NewerThan(n, t)
        BY <1>2, <3>1, <3>2, <4>1 DEF IInv, CmdInv, FrameInv, HandlerInv
      <4>3. SchedulerInv
        BY DEF IInv
      <4> QED BY <1>2, <3>1, <3>3, <4>1, <4>2, <4>3, OneIsNewer
    <3>4. CASE CarOf[n] # CarOf[t]
      BY <1>1, <1>3, <2>1, <3>2, <3>4
    <3> QED BY <3>3, <3>4
  <2> QED BY <1>1, <2>1, <2>2, HistoryGrows
<1>5. \A t : Accepted(t) => Accepted(t)' /\ \A u : NewerThan(u, t)' <=> NewerThan(u, t)
  BY AcceptedGrows, NewerSettled DEF IInv
<1>6. Accepted(l)' /\ NewerThan(l, n)'
  BY <1>4, <1>5
<1> QED BY <1>1, <1>6 DEF Accepted, NewerThan, Position

\* Only a handler tells, and it has not submitted its command yet.
LEMMA AbortStep == IInv /\ SchedulerInv' /\ [CmdNext]_allVars => AbortOnlyForNewer'
<1> SUFFICES ASSUME IInv, SchedulerInv', [CmdNext]_allVars, NEW w \in Worker, toldAt'[w] # "no"
             PROVE  \E u \in cancelled' : NewerThan(u, wjob[w])'
  BY DEF AbortOnlyForNewer, NewerThan
<1>1. PICK u \in cancelled' : pc[w] # "idle" /\ NewerThan(u, wjob[w])
  <2>1. CASE toldAt[w] # "no"
    <3>1. pc[w] # "idle"
      BY <2>1, Labels DEF IInv
    <3>2. \E u \in cancelled : NewerThan(u, wjob[w])
      BY <2>1 DEF IInv, CmdInv, AbortOnlyForNewer
    <3> QED BY <3>1, <3>2, HistoryGrows
  <2>2. ASSUME NEW u \in Task, Cancel(u), CarOf[u] = call[w].car, pc[w] \in InOperate
        PROVE  u \in cancelled' /\ pc[w] # "idle" /\ NewerThan(u, wjob[w])
    <3>1. pc[w] # "idle" /\ u \in cancelled'
      BY <2>2 DEF Cancel, InOperate
    <3> QED BY <2>2, <3>1, HandlerIsNewer, InOperation
  <2> QED BY <2>1, <2>2, DeviceMoves
<1>2. wjob'[w] = wjob[w] /\ NewerThan(u, wjob[w])'
  <2>1. SchedulerInv /\ LinkInv
    BY DEF IInv, CmdInv
  <2> QED BY <1>1, <2>1, HeldKeepsOrder
<1> QED BY <1>1, <1>2

-----------------------------------------------------------------------------
(* The theorems.                                                           *)

\* Every step keeps the invariants of both layers and of their meeting.
LEMMA IInvStep == IInv /\ [CmdNext]_allVars => IInv'
<1> SUFFICES ASSUME IInv, [CmdNext]_allVars PROVE IInv'
  OBVIOUS
<1>1. SchedulerInv'
  BY SchedulerInvStep DEF IInv
<1>2. DevP!CarInv'
  BY DeviceInvStep DEF IInv
<1>3. CmdInv'
  BY <1>1, LinkStep, HandlerStep, SnapshotStep, FrameStep, LineStep, AbortStep DEF CmdInv
<1> QED BY <1>1, <1>2, <1>3 DEF IInv

\* The invariant holds of every reachable state.
THEOREM CmdInvariant == CmdSpec => []IInv
BY IInvInit, IInvStep, PTL DEF CmdSpec

\* However handlers, dispatcher and workers interleave, an operation on a car is only
\* interrupted for a command that is newer than its own.
THEOREM AbortCorrect == CmdSpec => []AbortOnlyForNewer
<1>1. IInv => AbortOnlyForNewer
  BY DEF IInv, CmdInv
<1> QED BY <1>1, CmdInvariant, PTL

\* The car is left with its newest command if that came from MQTT and drove it, or with
\* one that took its snapshot after a newer handler's interrupt: there is no other way
\* for an older command to have the last word.
THEOREM LastCommandCorrect == CmdSpec => []LastCommandWinsUnlessRaced
<1>1. IInv => LastCommandWinsUnlessRaced
  <2> SUFFICES ASSUME IInv, NEW c \in Device, latest[c] \in Mqtt \cap drove,
                      line[c] # latest[c], line[c] \notin raced
               PROVE  FALSE
    BY DEF LastCommandWinsUnlessRaced, Newest
  <2>1. PICK n \in Task : n = latest[c] /\ n # NoTask
    BY SchedulerAssumption
  <2>2. PICK j \in 1 .. Len(accepted) :
          /\ accepted[j] = n /\ CarOf[n] = c
          /\ \A k \in 1 .. Len(accepted) : CarOf[accepted[k]] = c => k <= j
    BY <2>1 DEF IInv, SchedulerInv, SupersededInv, LatestIsNewest
  <2>3. PICK l : l = line[c]
    OBVIOUS
  <2>4. Accepted(l) /\ NewerThan(l, n)
    BY <2>1, <2>2, <2>3 DEF IInv, CmdInv, LineInv
  <2>5. SchedulerInv
    BY DEF IInv
  <2>6. Position(n) = j /\ Position(l) \in 1 .. Len(accepted) /\ accepted[Position(l)] = l
    BY <2>2, <2>4, <2>5, PositionOf DEF NewerThan
  <2>7. Len(accepted) \in Nat
    BY <2>5, LenProperties DEF SchedulerInv, TypeOK
  <2> QED BY <2>2, <2>4, <2>6, <2>7 DEF NewerThan
<1> QED BY <1>1, CmdInvariant, PTL
=============================================================================
