------------------------- MODULE CarControl_proofs -------------------------
(***************************************************************************)
(* Theorems about CarControl, for any threads, cars, windows and number of *)
(* interrupts.                                                             *)
(***************************************************************************)
EXTENDS CarControl, TLAPS

USE CarAssumption

-----------------------------------------------------------------------------
(* The inductive invariant.                                                *)

\* Who is inside a window holds the car's mutex, and the window has not sent more
\* frames than it may.
WindowInv ==
    /\ \A p \in Proc : pc[p] \in {"capture", "lock", "loop", "send", "poll"}
                         => call[p].car \in Device /\ call[p].cmd \in Command
    /\ \A p \in Proc : pc[p] \in {"loop", "send", "poll"} => owner[call[p].car] = p
    /\ \A p \in Proc : pc[p] = "send" => sent[p] < Frames

\* Interrupts only grow, so an operation that was told once is told for good; it
\* has sent nothing since, or the one frame it was already past its check for.
ToldInv ==
    /\ \A p \in Proc : pc[p] \in {"lock", "loop", "send", "poll"} =>
          /\ mySeq[p] <= cancelSeq[call[p].car]
          /\ toldAt[p] # "no" => mySeq[p] < cancelSeq[call[p].car]
    /\ \A p \in Proc : pc[p] \in {"idle", "capture"} => toldAt[p] = "no"
    /\ \A p \in Proc : pc[p] = "send" => toldAt[p] \in {"no", "send"} /\ late[p] = 0
    /\ \A p \in Proc : late[p] <= IF toldAt[p] = "send" THEN 1 ELSE 0

CarInv == CarTypeOK /\ WindowInv /\ ToldInv /\ LastStatusIsLastWindow

\* The record a thread holds when it is not calling.
LEMMA NoCallType == NoCall \in [car : CarId, cmd : Command \cup {NoCommand}]
<1>1. (CHOOSE c \in CarId : TRUE) \in CarId
  OBVIOUS
<1> QED BY <1>1 DEF NoCall

\* The invariant holds before anybody has called or interrupted.
LEMMA CarInvInit == CarInit => CarInv
<1> SUFFICES ASSUME CarInit PROVE CarInv
  OBVIOUS
<1>1. CarTypeOK
  BY NoCallType DEF CarInit, CarTypeOK, NoResult, Result, Word, Label
<1>2. WindowInv /\ ToldInv /\ LastStatusIsLastWindow
  BY DEF CarInit, WindowInv, ToldInv, LastStatusIsLastWindow
<1> QED BY <1>1, <1>2 DEF CarInv

-----------------------------------------------------------------------------
(* One lemma for each action of operate().                                 *)

\* The call only fills in the arguments.
LEMMA CallStep ==
  ASSUME CarInv, NEW p \in Proc, NEW c \in CarId, NEW cmd \in Command, Call(p, c, cmd)
  PROVE  CarInv'
<1> USE DEF CarInv, Call, At, Goto, CarOfCall, ctxVars, histVars
<1>1. CarTypeOK'
  BY DEF CarTypeOK, Label
<1>2. WindowInv' /\ ToldInv'
  BY DEF CarTypeOK, WindowInv, ToldInv
<1>3. LastStatusIsLastWindow'
  BY DEF LastStatusIsLastWindow
<1> QED BY <1>1, <1>2, <1>3

\* The snapshot is the sequence as it is: nobody has told the thread anything yet.
LEMMA CaptureStep == ASSUME CarInv, NEW p \in Proc, Capture(p) PROVE CarInv'
<1> USE DEF CarInv, Capture, At, Goto, CarOfCall, ctxVars, histVars
<1>1. CarTypeOK'
  BY DEF CarTypeOK, Label, WindowInv
<1>2. WindowInv' /\ ToldInv'
  BY DEF CarTypeOK, WindowInv, ToldInv
<1>3. LastStatusIsLastWindow'
  BY DEF LastStatusIsLastWindow
<1> QED BY <1>1, <1>2, <1>3

\* The mutex is free, so no other thread is inside a window of this car.
LEMMA LockStep == ASSUME CarInv, NEW p \in Proc, Lock(p) PROVE CarInv'
<1> USE DEF CarInv, Lock, At, Goto, CarOfCall, histVars
<1>1. CarTypeOK'
  BY DEF CarTypeOK, Label, WindowInv
<1>2. WindowInv' /\ ToldInv'
  BY DEF CarTypeOK, WindowInv, ToldInv
<1>3. LastStatusIsLastWindow'
  BY DEF CarTypeOK, LastStatusIsLastWindow
<1> QED BY <1>1, <1>2, <1>3

\* A car whose port is closed is left as it is.
LEMMA NotInitializedStep == ASSUME CarInv, NEW p \in Proc, NotInitialized(p) PROVE CarInv'
<1> USE DEF CarInv, NotInitialized, LocalsEnd, At, Goto, CarOfCall, ctxVars, histVars
<1>1. CarTypeOK'
  BY DEF CarTypeOK, Label, Word
<1>2. WindowInv' /\ ToldInv'
  BY DEF CarTypeOK, WindowInv, ToldInv
<1>3. LastStatusIsLastWindow'
  BY DEF LastStatusIsLastWindow
<1> QED BY <1>1, <1>2, <1>3

\* Every way out of the window stores what it reports before it frees the mutex.
LEMMA ReturnStep ==
  ASSUME CarInv, NEW p \in Proc, pc[p] \in {"loop", "poll"}, Return(p)
  PROVE  CarInv'
<1> DEFINE c  == CarOfCall(p)
           sb == IF anyReply[p] THEN lastSt[p] ELSE NoReply
<1>1. c \in Device /\ sb \in Word /\ anyReply[p] \in BOOLEAN
  BY DEF CarInv, CarTypeOK, WindowInv, CarOfCall, Word
<1>2. CarTypeOK'
  BY <1>1 DEF CarInv, CarTypeOK, Return, LocalsEnd, Goto, Label, Result, Word
<1>3. WindowInv' /\ ToldInv'
  BY <1>1 DEF CarInv, CarTypeOK, WindowInv, ToldInv, Return, LocalsEnd, Goto, CarOfCall
<1>4. LastStatusIsLastWindow'
  BY <1>1 DEF CarInv, CarTypeOK, LastStatusIsLastWindow, Return
<1> QED BY <1>2, <1>3, <1>4 DEF CarInv

\* A thread that goes on to send has just seen that nobody told it to stop.
LEMMA CheckBeforeSendStep == ASSUME CarInv, NEW p \in Proc, CheckBeforeSend(p) PROVE CarInv'
<1> USE DEF CarInv, CheckBeforeSend, Superseded, At, Goto, CarOfCall, ctxVars, histVars
<1>1. CarTypeOK'
  BY DEF CarTypeOK, Label
<1>2. WindowInv'
  BY DEF CarTypeOK, WindowInv
<1>3. toldAt[p] = "no" /\ late[p] = 0
  BY SMTT(30) DEF CarTypeOK, WindowInv, ToldInv
<1>4. ToldInv'
  BY <1>3 DEF CarTypeOK, WindowInv, ToldInv
<1>5. LastStatusIsLastWindow'
  BY DEF LastStatusIsLastWindow
<1> QED BY <1>1, <1>2, <1>4, <1>5

\* A frame that goes out late was already past the check.
LEMMA SendStep == ASSUME CarInv, NEW p \in Proc, Send(p) PROVE CarInv'
<1> USE DEF CarInv, Send, At, Goto, CarOfCall
<1>1. /\ sent[p] + 1 \in 0 .. Frames /\ late[p] = 0 /\ 1 \in 0 .. Frames
      /\ toldAt[p] \in {"no", "send"} /\ call[p].car \in Device /\ call[p].cmd \in Command
  BY DEF CarTypeOK, WindowInv, ToldInv
<1>2. CarTypeOK'
  BY <1>1, SMTT(30) DEF CarTypeOK, Label
<1>3. WindowInv' /\ ToldInv'
  BY <1>1 DEF CarTypeOK, WindowInv, ToldInv
<1>4. LastStatusIsLastWindow'
  BY DEF LastStatusIsLastWindow
<1> QED BY <1>2, <1>3, <1>4

\* A reply is stored while the mutex is held.
LEMMA PollStep == ASSUME CarInv, NEW p \in Proc, Poll(p) PROVE CarInv'
<1> USE DEF CarInv, Poll, At, CarOfCall, histVars
<1>1. /\ call[p].car \in Device /\ owner[call[p].car] = p /\ p # NoProc
      /\ polled[p] + 1 \in 0 .. Polls
  BY DEF CarTypeOK, WindowInv
<1>2. CarTypeOK'
  <2>1. CASE UNCHANGED <<anyReply, lastSt, lastStatus, lastAny>>
    BY <1>1, <2>1 DEF CarTypeOK
  <2>2. ASSUME NEW sb \in StatusByte,
               anyReply' = [anyReply EXCEPT ![p] = TRUE],
               lastSt' = [lastSt EXCEPT ![p] = sb],
               lastStatus' = [lastStatus EXCEPT ![call[p].car] = sb],
               lastAny' = [lastAny EXCEPT ![call[p].car] = TRUE]
        PROVE  CarTypeOK'
    <3>1. sb \in Word
      BY DEF Word
    <3> QED BY <1>1, <2>2, <3>1 DEF CarTypeOK
  <2> QED BY <2>1, <2>2
<1>3. WindowInv' /\ ToldInv'
  BY <1>1 DEF CarTypeOK, WindowInv, ToldInv
<1>4. LastStatusIsLastWindow'
  BY <1>1 DEF CarTypeOK, LastStatusIsLastWindow
<1> QED BY <1>2, <1>3, <1>4

\* The next round of a window touches no car.
LEMMA NextRoundStep == ASSUME CarInv, NEW p \in Proc, NextRound(p) PROVE CarInv'
<1> USE DEF CarInv, NextRound, At, Goto, ctxVars, histVars
<1>1. CarTypeOK'
  BY DEF CarTypeOK, Label
<1>2. WindowInv' /\ ToldInv'
  BY DEF CarTypeOK, WindowInv, ToldInv
<1>3. LastStatusIsLastWindow'
  BY DEF LastStatusIsLastWindow
<1> QED BY <1>1, <1>2, <1>3

\* The end of the call forgets what the thread was told.
LEMMA TakeResultStep == ASSUME CarInv, NEW p \in Proc, TakeResult(p) PROVE CarInv'
<1> USE DEF CarInv, TakeResult, At, Goto, ctxVars
<1>1. NoResult \in Result
  BY DEF NoResult, Result, Word
<1>2. CarTypeOK'
  BY <1>1, NoCallType DEF CarTypeOK, Label
<1>3. WindowInv' /\ ToldInv'
  BY DEF CarTypeOK, WindowInv, ToldInv
<1>4. LastStatusIsLastWindow'
  BY DEF LastStatusIsLastWindow
<1> QED BY <1>2, <1>3, <1>4

\* An interrupt tells every thread of the car that has its snapshot.
LEMMA InterruptStep == ASSUME CarInv, NEW c \in CarId, Interrupt(c) PROVE CarInv'
<1> USE DEF CarInv, Interrupt, CarOfCall, procVars
<1>1. CarTypeOK'
  BY DEF CarTypeOK, Label
<1>2. WindowInv'
  BY DEF CarTypeOK, WindowInv
<1>3. ToldInv'
  BY DEF CarTypeOK, WindowInv, ToldInv
<1>4. LastStatusIsLastWindow'
  BY DEF LastStatusIsLastWindow
<1> QED BY <1>1, <1>2, <1>3, <1>4

-----------------------------------------------------------------------------
(* The theorems.                                                           *)

\* Every step keeps the invariant.
LEMMA CarInvStep == CarInv /\ [CarNext]_carVars => CarInv'
<1> SUFFICES ASSUME CarInv, [CarNext]_carVars PROVE CarInv'
  OBVIOUS
<1>1. ASSUME NEW p \in Proc, Abort(p) \/ WindowEnds(p) PROVE CarInv'
  BY <1>1, ReturnStep DEF Abort, WindowEnds, At
<1>2. ASSUME NEW p \in Proc, Operating(p) PROVE CarInv'
  BY <1>1, <1>2, CaptureStep, LockStep, NotInitializedStep, CheckBeforeSendStep, SendStep,
     PollStep, NextRoundStep DEF Operating
<1>3. CASE UNCHANGED carVars
  BY <1>3 DEF carVars, ctxVars, procVars, histVars, CarInv, CarTypeOK, WindowInv, ToldInv,
     LastStatusIsLastWindow
<1> QED BY <1>2, <1>3, CallStep, TakeResultStep, InterruptStep DEF CarNext

\* The invariant holds of every reachable state.
THEOREM CarInvariant == CarSpec => []CarInv
BY CarInvInit, CarInvStep, PTL DEF CarSpec, CarSafety

\* The types are kept; in particular no window ever sends more than Frames frames.
THEOREM CarTypeCorrect == CarSpec => []CarTypeOK
<1>1. CarInv => CarTypeOK
  BY DEF CarInv
<1> QED BY <1>1, CarInvariant, PTL

\* However the threads interleave, an operation that has taken its snapshot sends at
\* most one frame after the first interrupt, and that one only if it had already
\* passed its check.
THEOREM PromptAbortCorrect == CarSpec => []PromptAbort
<1>1. CarInv => PromptAbort
  BY DEF CarInv, ToldInv, PromptAbort
<1> QED BY <1>1, CarInvariant, PTL

\* Two windows on the same car never overlap.
THEOREM OneWindowCorrect == CarSpec => []OneWindow
<1>1. CarInv => OneWindow
  BY DEF CarInv, WindowInv, OneWindow, CarOfCall
<1> QED BY <1>1, CarInvariant, PTL

\* Between windows the status that getLastStatus() returns is the one the last window
\* ended with.
THEOREM LastStatusCorrect == CarSpec => []LastStatusIsLastWindow
<1>1. CarInv => LastStatusIsLastWindow
  BY DEF CarInv
<1> QED BY <1>1, CarInvariant, PTL
=============================================================================
