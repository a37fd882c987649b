----------------------------- MODULE CarControl -----------------------------
(***************************************************************************)
(* src/carControl/car_control_manager.cpp with its serial driver: each car *)
(* has a device context with a mutex, a cancel sequence and the last       *)
(* status read.  operate() sends the same frame again and again during a   *)
(* window and polls for replies; interrupt() bumps the cancel sequence     *)
(* without the mutex; getLastStatus() waits for the mutex.                 *)
(*                                                                         *)
(* Time is counted in iterations: Frames is the number of passes of the    *)
(* outer loop (8 with the defaults of 600 ms and 80 ms), Polls the number  *)
(* of reads after each frame (4).                                          *)
(***************************************************************************)
EXTENDS Integers

CONSTANTS Proc,         \* the threads that call operate()
          Device,       \* the cars of the configuration, the keys of devices_
          CarId,        \* the ids callers use: configured or not
          Ready,        \* the cars whose serial port could be opened
          Command,      \* what callers ask for: a pair of motor speeds
          StatusByte,   \* the status words a reply can carry
          NoReply,      \* static_cast<uint16_t>(-1), reported when no reply came
          Frames, Polls,
          NoProc, NoCommand

ASSUME CarAssumption ==
    /\ Device \subseteq CarId /\ CarId # {}
    /\ Ready \subseteq Device
    /\ StatusByte \subseteq Nat /\ NoReply \in Nat
    /\ Frames \in Nat \ {0}
    /\ Polls \in Nat \ {0}
    /\ NoProc \notin Proc
    /\ NoCommand \notin Command

VARIABLES
    owner,       \* DeviceCtx::mtx, who holds it
    cancelSeq,   \* DeviceCtx::cancelSeq
    lastStatus,  \* DeviceCtx::lastStatusByte
    lastAny,     \* DeviceCtx::lastAnyReply
    line,        \* the command of the last frame that went out to the car
    pc,          \* where each thread is in operate()
    call,        \* its arguments: the car and the command
    mySeq,       \* its snapshot of cancelSeq
    sent,        \* frames sent so far (elapsed / interval_ms)
    polled,      \* reads since the last frame (slept / pollStepMs)
    anyReply, lastSt,
    result       \* the CarControlResult of a thread that has returned

VARIABLES
    toldAt,      \* history: where a thread was at its first interrupt() since the snapshot
    late,        \* history: frames it has sent since then
    reported     \* history: what the last window on each car ended with

ctxVars == <<owner, cancelSeq, lastStatus, lastAny, line>>
procVars == <<pc, call, mySeq, sent, polled, anyReply, lastSt, result>>
histVars == <<toldAt, late, reported>>
carVars == <<ctxVars, procVars, histVars>>

Label == {"idle", "capture", "lock", "loop", "send", "poll", "returned"}
Word == StatusByte \cup {0, NoReply}     \* a uint16_t that starts as 0
Result == [success : BOOLEAN, statusByte : Word]
NoResult == [success |-> FALSE, statusByte |-> 0]

NoCall == [car |-> CHOOSE c \in CarId : TRUE, cmd |-> NoCommand]

CarTypeOK ==
    /\ owner \in [Device -> Proc \cup {NoProc}]
    /\ cancelSeq \in [Device -> Nat]
    /\ lastStatus \in [Device -> Word]
    /\ lastAny \in [Device -> BOOLEAN]
    /\ line \in [Device -> Command \cup {NoCommand}]
    /\ pc \in [Proc -> Label]
    /\ call \in [Proc -> [car : CarId, cmd : Command \cup {NoCommand}]]
    /\ mySeq \in [Proc -> Nat]
    /\ sent \in [Proc -> 0 .. Frames]
    /\ polled \in [Proc -> 0 .. Polls]
    /\ anyReply \in [Proc -> BOOLEAN]
    /\ lastSt \in [Proc -> Word]
    /\ result \in [Proc -> Result]
    /\ toldAt \in [Proc -> Label \cup {"no"}]
    /\ late \in [Proc -> 0 .. Frames]
    /\ reported \in [Device -> Word]

CarInit ==
    /\ owner = [c \in Device |-> NoProc]
    /\ cancelSeq = [c \in Device |-> 0]
    /\ lastStatus = [c \in Device |-> 0]
    /\ lastAny = [c \in Device |-> FALSE]
    /\ line = [c \in Device |-> NoCommand]
    /\ pc = [p \in Proc |-> "idle"]
    /\ call = [p \in Proc |-> NoCall]
    /\ mySeq = [p \in Proc |-> 0]
    /\ sent = [p \in Proc |-> 0]
    /\ polled = [p \in Proc |-> 0]
    /\ anyReply = [p \in Proc |-> FALSE]
    /\ lastSt = [p \in Proc |-> 0]
    /\ result = [p \in Proc |-> NoResult]
    /\ toldAt = [p \in Proc |-> "no"]
    /\ late = [p \in Proc |-> 0]
    /\ reported = [c \in Device |-> NoReply]

At(p, label) == pc[p] = label
Goto(p, label) == pc' = [pc EXCEPT ![p] = label]
CarOfCall(p) == call[p].car
Superseded(p) == cancelSeq[CarOfCall(p)] # mySeq[p]

-----------------------------------------------------------------------------
(* operate(): one action for each step another thread can come between.    *)

\* Lines 64-67: an unknown id fails at once.
Call(p, c, cmd) ==
    /\ At(p, "idle")
    /\ call' = [call EXCEPT ![p] = [car |-> c, cmd |-> cmd]]
    /\ Goto(p, IF c \in Device THEN "capture" ELSE "returned")
    /\ UNCHANGED <<ctxVars, mySeq, sent, polled, anyReply, lastSt, result, histVars>>

\* Line 72: the cancel sequence is read before the mutex is taken.
Capture(p) ==
    /\ At(p, "capture")
    /\ mySeq' = [mySeq EXCEPT ![p] = cancelSeq[CarOfCall(p)]]
    /\ Goto(p, "lock")
    /\ UNCHANGED <<ctxVars, call, sent, polled, anyReply, lastSt, result, histVars>>

\* Mutant of Lock: the snapshot is taken after the mutex.
LockThenCapture(p) ==
    /\ At(p, "lock")
    /\ owner[CarOfCall(p)] = NoProc
    /\ CarOfCall(p) \in Ready
    /\ owner' = [owner EXCEPT ![CarOfCall(p)] = p]
    /\ mySeq' = [mySeq EXCEPT ![p] = cancelSeq[CarOfCall(p)]]
    /\ Goto(p, "loop")
    /\ UNCHANGED <<cancelSeq, lastStatus, lastAny, line, call, sent, polled, anyReply,
                   lastSt, result, histVars>>

\* Lines 74-89: the mutex; the locals of the window start from zero.
Lock(p) ==
    /\ At(p, "lock")
    /\ owner[CarOfCall(p)] = NoProc
    /\ CarOfCall(p) \in Ready
    /\ owner' = [owner EXCEPT ![CarOfCall(p)] = p]
    /\ Goto(p, "loop")
    /\ UNCHANGED <<cancelSeq, lastStatus, lastAny, line, call, mySeq, sent, polled, anyReply,
                   lastSt, result, histVars>>

\* The locals of operate() end with it.
LocalsEnd(p) ==
    /\ mySeq' = [mySeq EXCEPT ![p] = 0]
    /\ sent' = [sent EXCEPT ![p] = 0]
    /\ polled' = [polled EXCEPT ![p] = 0]
    /\ anyReply' = [anyReply EXCEPT ![p] = FALSE]
    /\ lastSt' = [lastSt EXCEPT ![p] = 0]

\* Line 75: the port of this car could not be opened.
NotInitialized(p) ==
    /\ At(p, "lock")
    /\ owner[CarOfCall(p)] = NoProc
    /\ CarOfCall(p) \notin Ready
    /\ LocalsEnd(p)
    /\ Goto(p, "returned")
    /\ UNCHANGED <<ctxVars, call, result, histVars>>

\* Mutants of Return: the replies of the window are not stored when it ends; the
\* mutex is not released.
ReturnStoresNothing(p) ==
    LET c  == CarOfCall(p)
        sb == IF anyReply[p] THEN lastSt[p] ELSE NoReply
    IN  /\ result' = [result EXCEPT ![p] = [success |-> TRUE, statusByte |-> sb]]
        /\ reported' = [reported EXCEPT ![c] = sb]
        /\ owner' = [owner EXCEPT ![c] = NoProc]
        /\ LocalsEnd(p)
        /\ Goto(p, "returned")
        /\ UNCHANGED <<lastStatus, lastAny, cancelSeq, line, call, toldAt, late>>

ReturnKeepsMutex(p) ==
    LET c  == CarOfCall(p)
        sb == IF anyReply[p] THEN lastSt[p] ELSE NoReply
    IN  /\ result' = [result EXCEPT ![p] = [success |-> TRUE, statusByte |-> sb]]
        /\ lastStatus' = [lastStatus EXCEPT ![c] = sb]
        /\ lastAny' = [lastAny EXCEPT ![c] = anyReply[p]]
        /\ reported' = [reported EXCEPT ![c] = sb]
        /\ LocalsEnd(p)
        /\ Goto(p, "returned")
        /\ UNCHANGED <<owner, cancelSeq, line, call, toldAt, late>>

\* Lines 97-105, 115-122, 146-159: the three ways out of the window store the same.
Return(p) ==
    LET c  == CarOfCall(p)
        sb == IF anyReply[p] THEN lastSt[p] ELSE NoReply
    IN  /\ result' = [result EXCEPT ![p] = [success |-> TRUE, statusByte |-> sb]]
        /\ lastStatus' = [lastStatus EXCEPT ![c] = sb]
        /\ lastAny' = [lastAny EXCEPT ![c] = anyReply[p]]
        /\ reported' = [reported EXCEPT ![c] = sb]
        /\ owner' = [owner EXCEPT ![c] = NoProc]
        /\ LocalsEnd(p)
        /\ Goto(p, "returned")
        /\ UNCHANGED <<cancelSeq, line, call, toldAt, late>>

\* Lines 95 and 114: superseded, at the head of the window loop or between polls.
Abort(p) ==
    /\ \/ At(p, "loop") /\ sent[p] < Frames
       \/ At(p, "poll") /\ polled[p] < Polls
    /\ Superseded(p)
    /\ Return(p)

\* Line 93: the window is over.
WindowEnds(p) ==
    /\ At(p, "loop")
    /\ sent[p] = Frames
    /\ Return(p)

\* Lines 93-95: another round, not superseded so far.
CheckBeforeSend(p) ==
    /\ At(p, "loop")
    /\ sent[p] < Frames
    /\ ~Superseded(p)
    /\ Goto(p, "send")
    /\ UNCHANGED <<ctxVars, call, mySeq, sent, polled, anyReply, lastSt, result, histVars>>

\* Mutant of Send: elapsed is not advanced.
SendForgetsElapsed(p) ==
    /\ At(p, "send")
    /\ line' \in {line, [line EXCEPT ![CarOfCall(p)] = call[p].cmd]}
    /\ polled' = [polled EXCEPT ![p] = 0]
    /\ late' = IF toldAt[p] = "no" THEN late ELSE [late EXCEPT ![p] = 1]
    /\ Goto(p, "poll")
    /\ UNCHANGED <<owner, cancelSeq, lastStatus, lastAny, call, mySeq, sent, anyReply, lastSt,
                   result, toldAt, reported>>

\* Line 108: one frame; whether the write succeeded is not looked at.
Send(p) ==
    /\ At(p, "send")
    /\ line' \in {line, [line EXCEPT ![CarOfCall(p)] = call[p].cmd]}
    /\ sent' = [sent EXCEPT ![p] = @ + 1]
    /\ polled' = [polled EXCEPT ![p] = 0]
    /\ late' = IF toldAt[p] = "no" THEN late ELSE [late EXCEPT ![p] = @ + 1]
    /\ Goto(p, "poll")
    /\ UNCHANGED <<owner, cancelSeq, lastStatus, lastAny, call, mySeq, anyReply, lastSt, result,
                   toldAt, reported>>

\* Lines 112-141: not superseded so far, one read.  It brings a reply (maybe to
\* an earlier frame: nothing flushes the port), or none within its timeout.
Poll(p) ==
    /\ At(p, "poll")
    /\ polled[p] < Polls
    /\ ~Superseded(p)
    /\ \/ \E sb \in StatusByte :
            /\ anyReply' = [anyReply EXCEPT ![p] = TRUE]
            /\ lastSt' = [lastSt EXCEPT ![p] = sb]
            /\ lastStatus' = [lastStatus EXCEPT ![CarOfCall(p)] = sb]
            /\ lastAny' = [lastAny EXCEPT ![CarOfCall(p)] = TRUE]
       \/ UNCHANGED <<anyReply, lastSt, lastStatus, lastAny>>
    /\ polled' = [polled EXCEPT ![p] = @ + 1]
    /\ UNCHANGED <<owner, cancelSeq, line, pc, call, mySeq, sent, result, histVars>>

\* Lines 112 and 142: the interval is over, the next round begins.
NextRound(p) ==
    /\ At(p, "poll")
    /\ polled[p] = Polls
    /\ Goto(p, "loop")
    /\ UNCHANGED <<ctxVars, call, mySeq, sent, polled, anyReply, lastSt, result, histVars>>

\* The caller takes the result, and the call is over.
TakeResult(p) ==
    /\ At(p, "returned")
    /\ call' = [call EXCEPT ![p] = NoCall]
    /\ result' = [result EXCEPT ![p] = NoResult]
    /\ toldAt' = [toldAt EXCEPT ![p] = "no"]
    /\ late' = [late EXCEPT ![p] = 0]
    /\ Goto(p, "idle")
    /\ UNCHANGED <<ctxVars, mySeq, sent, polled, anyReply, lastSt, reported>>

-----------------------------------------------------------------------------
(* The other two operations.                                               *)

\* interrupt(): no lock.
Interrupt(c) ==
    /\ cancelSeq' = IF c \in Device THEN [cancelSeq EXCEPT ![c] = @ + 1] ELSE cancelSeq
    /\ toldAt' = [p \in Proc |->
                    IF /\ CarOfCall(p) = c
                       /\ pc[p] \in {"lock", "loop", "send", "poll"}
                       /\ toldAt[p] = "no"
                    THEN pc[p] ELSE toldAt[p]]
    /\ UNCHANGED <<owner, lastStatus, lastAny, line, procVars, late, reported>>

\* getLastStatus(): it has to wait for the mutex, and so for a running operate().
CanGetLastStatus(c) == c \in Device => owner[c] = NoProc
GetLastStatus(c) ==
    IF c \in Device /\ lastAny[c] THEN lastStatus[c] ELSE -1

-----------------------------------------------------------------------------
(* The steps of operate() between the call and its return.                 *)
Operating(p) ==
    \/ Capture(p) \/ Lock(p) \/ NotInitialized(p) \/ Abort(p) \/ WindowEnds(p)
    \/ CheckBeforeSend(p) \/ Send(p) \/ Poll(p) \/ NextRound(p)

CarNext ==
    \/ \E p \in Proc : \/ \E c \in CarId, cmd \in Command : Call(p, c, cmd)
                       \/ Operating(p)
                       \/ TakeResult(p)
    \/ \E c \in CarId : Interrupt(c)

(* A thread inside operate() is run; one that waits for a device mutex gets it if
   it is released again and again.  Nothing makes anybody call or interrupt. *)
CarFairness ==
    \A p \in Proc : WF_carVars(Operating(p)) /\ SF_carVars(Lock(p) \/ NotInitialized(p))

CarSafety == CarInit /\ [][CarNext]_carVars
CarSpec == CarSafety /\ CarFairness

-----------------------------------------------------------------------------
(* Properties.                                                             *)

\* An operation that has taken its snapshot obeys interrupt(): it sends no frame
\* after it, except the one it was already past its check for.
PromptAbort ==
    \A p \in Proc : late[p] <= IF toldAt[p] = "send" THEN 1 ELSE 0

\* The windows of two operations on a car never overlap.
OneWindow ==
    \A p, q \in Proc :
        /\ pc[p] \in {"loop", "send", "poll"}
        /\ pc[q] \in {"loop", "send", "poll"}
        /\ CarOfCall(p) = CarOfCall(q)
        => p = q

\* Between windows getLastStatus() says what the last window ended with: its own
\* last reply, or -1 if it got none, never a reply of an earlier window.
LastStatusIsLastWindow ==
    \A c \in Device :
        owner[c] = NoProc =>
            /\ lastAny[c] => lastStatus[c] = reported[c]
            /\ ~lastAny[c] => reported[c] = NoReply

\* operate() comes back, interrupted or not, whatever other callers do.
OperateReturns ==
    \A p \in Proc : (pc[p] = "capture") ~> (pc[p] = "returned")
=============================================================================
