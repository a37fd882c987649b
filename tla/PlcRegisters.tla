---------------------------- MODULE PlcRegisters ----------------------------
(***************************************************************************)
(* What a connector promises PLCManager, with no frames, ids or time-outs: *)
(* readRegister and writeRegister of include/plc/plc_connector.h on the    *)
(* registers of one PLC, one call at a time.  A call that fails leaves     *)
(* open whether its write takes effect, and when; a call that succeeds     *)
(* acts at once on registers that nothing else is about to change.         *)
(***************************************************************************)
EXTENDS Naturals

CONSTANTS Coil, Bit, Op

VARIABLES register,  \* what the registers hold
          underway,  \* the writes that may still take effect, by number of their call
          waiting,   \* a call has begun and not returned
          call,      \* the operation, the register and the value of the last call
          answer,    \* what it returned
          calls      \* how many calls there were

regVars == <<register, underway, waiting, call, answer, calls>>

Calls == [op : Op, coil : Coil, val : Bit]

Init ==
    /\ register \in [Coil -> Bit]
    /\ underway = {}
    /\ waiting = FALSE
    /\ call \in Calls
    /\ answer = "none"
    /\ calls = 0

\* A write may be lost before it is on its way.
Invoke(c) ==
    /\ ~waiting
    /\ waiting' = TRUE
    /\ call' = c
    /\ answer' = "none"
    /\ calls' = calls + 1
    /\ \/ UNCHANGED underway
       \/ /\ c.op = "write"
          /\ underway' = underway \cup {[number |-> calls, coil |-> c.coil, val |-> c.val]}
    /\ UNCHANGED register

\* Writes take effect in the order of their calls, each once at most.
TakeEffect(w) ==
    /\ w \in underway /\ \A u \in underway : w.number <= u.number
    /\ underway' = underway \ {w}
    /\ register' = [register EXCEPT ![w.coil] = w.val]
    /\ UNCHANGED <<waiting, call, answer, calls>>

Lose ==
    /\ underway' \in SUBSET underway
    /\ UNCHANGED <<register, waiting, call, answer, calls>>

\* The register has the value that was written, or the one that is returned.
Succeed ==
    /\ waiting
    /\ \/ /\ call.op = "write" /\ register[call.coil] = call.val
          /\ answer' = "true"
          /\ underway = {}
       \/ /\ call.op = "read"
          /\ answer' = register[call.coil]
          /\ underway = {}
       \/ /\ call.op = "health"
          /\ answer' = "online"
    /\ waiting' = FALSE
    /\ UNCHANGED <<register, underway, call, calls>>

Fail ==
    /\ waiting
    /\ waiting' = FALSE
    /\ answer' = "ERROR"
    /\ UNCHANGED <<register, underway, call, calls>>

\* A call that does not get as far as the PLC.
Refuse ==
    /\ ~waiting
    /\ answer' = "ERROR"
    /\ UNCHANGED <<register, underway, waiting, call, calls>>

Next ==
    \/ \E c \in Calls : Invoke(c)
    \/ \E w \in underway : TakeEffect(w)
    \/ Lose
    \/ Succeed \/ Fail \/ Refuse

Safety == Init /\ [][Next]_regVars
=============================================================================
