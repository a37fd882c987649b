---------------------------- MODULE PlcConnector ----------------------------
(***************************************************************************)
(* src/plc/gateway_tcp_connector.cpp and src/plc/serial_plc_connector.cpp: *)
(* Modbus over TCP through a gateway, and Modbus RTU on a serial line.     *)
(* PlcManager makes one or the other for a PLC and lets one call at a time *)
(* in (connectorMutex_, and io_mutex_ of the gateway's connector).         *)
(*                                                                         *)
(* A call sends one request and collects what arrives until it has enough  *)
(* bytes or its time is up.  What it gave up on may still arrive, so that  *)
(* the next call may find the answer of an earlier one, or the rest of it. *)
(* A message is a request that becomes a reply when the PLC executes it,   *)
(* and of a reply only its length and the fields the connectors compare    *)
(* are kept.  A piece of a reply without its beginning is taken to fail    *)
(* every check of its header.                                              *)
(***************************************************************************)
EXTENDS Naturals, FiniteSetsExt

CONSTANTS Coil,        \* the registers of the PLC
          HealthCoil,  \* the register at address 0x0000
          Kind,        \* the classes of connector that are considered
          TidMod,      \* the size of the transaction id: 2^16
          Cut,         \* external: where the network may cut a reply in two
          MaxRequests  \* bound on the requests sent

ASSUME ConnectorAssumption ==
    /\ HealthCoil \in Coil
    /\ Kind \subseteq {"gateway", "serial"}
    /\ TidMod \in Nat \ {0, 1}
    /\ Cut \subseteq Nat \ {0}
    /\ MaxRequests \in Nat

VARIABLES
    kind,      \* PLCConfig::connectionType
    \* external: the PLC and the way to it
    coil,      \* what the registers hold
    pending,   \* requests not executed yet, and replies on their way
    inbox,     \* what has arrived and is not read: the kernel's buffer
    linked,    \* the gateway has not closed the connection
    \* the connector
    status,    \* status_
    open,      \* socket_fd_ or serialHandle_ can be used
    tid,       \* next_transaction_id_
    pc, call,  \* what is going on, and for which request
    got,       \* receivedData
    result     \* what the last call returned

VARIABLES
    requests,  \* history: how many requests were sent
    accepted   \* history: whose reply the last call accepted

lineVars == <<coil, pending, linked>>
connVars == <<kind, coil, pending, inbox, linked, status, open, tid, pc, call, got, result,
              requests, accepted>>

Bit == {"0", "1"}
Op == {"health", "read", "write"}
Success == Bit \cup {"true", "online"}

Message == [seq : 0 .. MaxRequests, tid : 0 .. TidMod - 1, op : Op, coil : Coil, val : Bit,
            form : {"request", "reply", "exception"}, start : BOOLEAN, len : Nat]

Call == [op : Op, coil : Coil, val : Bit, seq : 0 .. MaxRequests, tid : 0 .. TidMod - 1]

ConnTypeOK ==
    /\ kind \in Kind
    /\ coil \in [Coil -> Bit] /\ pending \subseteq Message /\ inbox \subseteq Message
    /\ linked \in BOOLEAN /\ open \in BOOLEAN
    /\ status \in {"DISCONNECTED", "PORT_ERROR", "CONNECTED"}
    /\ status = "CONNECTED" => open
    /\ tid \in 0 .. TidMod - 1
    /\ pc \in {"boot", "idle", "await"}
    /\ call \in Call /\ got \subseteq Message
    /\ result \in Success \cup {"none", "ERROR"}
    /\ requests \in 0 .. MaxRequests + 1 /\ accepted \in 0 .. MaxRequests

ConnInit ==
    /\ kind \in Kind
    /\ coil \in [Coil -> Bit] /\ pending = {} /\ inbox = {} /\ linked = FALSE
    /\ status = "DISCONNECTED" /\ open = FALSE /\ tid = 1
    /\ pc = "boot"
    /\ call = [op |-> "health", coil |-> HealthCoil, val |-> "0", seq |-> 0, tid |-> 0]
    /\ got = {} /\ result = "none"
    /\ requests = 0 /\ accepted = 0

-----------------------------------------------------------------------------
(* Frames.  The gateway's bear the header of Modbus TCP, the serial ones a  *)
(* checksum that nobody looks at.                                           *)

\* MIN_RESPONSE_LENGTH and EXPECTED_ECHO_LENGTH.
MinLength(op) ==
    CASE op = "health" -> IF kind = "gateway" THEN 9 ELSE 6
      [] op = "read"   -> IF kind = "gateway" THEN 10 ELSE 6
      [] op = "write"  -> IF kind = "gateway" THEN 12 ELSE 8

\* External: the length of a reply.
ReplyLength(op, form) ==
    CASE form = "exception"                 -> IF kind = "gateway" THEN 9 ELSE 5
      [] form # "exception" /\ op = "write" -> IF kind = "gateway" THEN 12 ELSE 8
      [] OTHER                              -> IF kind = "gateway" THEN 10 ELSE 6

Bytes(S) == MapThenSumSet(LAMBDA m : m.len, S)

Precedes(m, n) == m.seq < n.seq \/ (m.seq = n.seq /\ m.start)

\* m is the piece of S whose bytes come first.
IsFirst(m, S) == m \in S /\ \A n \in S : n = m \/ Precedes(m, n)

\* readRegister and performHealthCheck both read a coil, which is function code 1.
FunctionCode(op) == IF op = "write" THEN 5 ELSE 1

\* Mutant of HeaderOk: the transaction id is not compared.
HeaderOkAnyTid(m) ==
    /\ m.start
    /\ m.form = "reply"
    /\ FunctionCode(m.op) = FunctionCode(call.op)

\* validateResponse.  A serial frame has nothing that tells requests apart.
HeaderOk(m) ==
    /\ m.start
    /\ kind = "gateway" => m.tid = call.tid
    /\ m.form = "reply"
    /\ FunctionCode(m.op) = FunctionCode(call.op)

\* isEchoMatch: S is exactly one frame, and it repeats the request.
EchoOk(m, S) ==
    /\ Bytes(S) = ReplyLength("write", "reply")
    /\ m.coil = call.coil /\ m.val = call.val

\* What the connector concludes from the bytes S, which begin with m.
Accepts(m, S) == HeaderOk(m) /\ (call.op = "write" => EchoOk(m, S))

ResultOf(m) ==
    CASE call.op = "health" -> "online"
      [] call.op = "read"   -> m.val
      [] call.op = "write"  -> "true"

-----------------------------------------------------------------------------
(* Sending.                                                                *)

\* Mutant of NextTid: the id stays.
SameTid(t) == t

\* next_transaction_id_.fetch_add(1) on a uint16_t.  (A serial frame has no such id; what
\* it is given here is never looked at.)
NextTid(t) == IF t = TidMod - 1 THEN 0 ELSE t + 1

\* Mutant of Flushed: the serial line keeps what arrived late.
NotFlushed == inbox

\* writeToSerial: tcflush drops what has arrived; the gateway's connector keeps it.
Flushed == IF kind = "serial" THEN {} ELSE inbox

\* External.  A serial PLC has answered, or never will, when its line is used again;
\* no reply of a gateway is 2^16 requests late.
Punctual ==
    /\ kind = "serial" => pending = {}
    /\ \A m \in pending \cup inbox : requests < m.seq + TidMod

Request(op, c, v) ==
    LET cl == [op |-> op, coil |-> c, val |-> v, seq |-> requests, tid |-> tid]
    IN /\ call' = cl
       /\ requests' = requests + 1
       /\ tid' = NextTid(tid)
       /\ inbox' = Flushed
       /\ got' = {}
       /\ pc' = "await"
       /\ pending' \in {pending, pending \cup
             {[seq |-> requests, tid |-> tid, op |-> op, coil |-> c, val |-> v,
               form |-> "request", start |-> TRUE, len |-> 0]}}
       /\ UNCHANGED <<coil, kind, accepted>>

\* connect(), which PLCManager calls once for each connector.  It opens the socket or
\* the port and sends the health check.
Connect ==
    /\ pc = "boot"
    /\ open' = TRUE /\ linked' = TRUE
    /\ Request("health", HealthCoil, "0")
    /\ UNCHANGED <<status, result>>

ConnectFails ==
    /\ pc = "boot"
    /\ status' = "PORT_ERROR"
    /\ pc' = "idle"
    /\ UNCHANGED <<lineVars, kind, inbox, open, tid, call, got, result, requests, accepted>>

Usable == status = "CONNECTED" /\ open

\* readRegister and writeRegister up to the wait for a reply.  A request that could not
\* be sent, or that the gateway has stopped listening to, just remains unanswered; the
\* gateway's connector returns at once when send() fails, see GiveUp.
Send(op, c, v) ==
    /\ pc = "idle" /\ Usable
    /\ requests < MaxRequests
    /\ Punctual
    /\ Request(op, c, v)
    /\ ~linked => pending' = pending
    /\ result' = "none"
    /\ UNCHANGED <<linked, status, open>>

\* The early returns: not connected, or the value or the address is invalid.
Refuse ==
    /\ pc = "idle"
    /\ result' = "ERROR"
    /\ UNCHANGED <<lineVars, kind, inbox, status, open, tid, pc, call, got, requests, accepted>>

-----------------------------------------------------------------------------
(* Receiving.                                                              *)

\* The call returns; a failed health check closes the socket or the port.
Return(r) ==
    /\ result' = r
    /\ pc' = "idle"
    /\ got' = {}
    /\ IF call.op # "health" THEN UNCHANGED <<status, open>>
       ELSE IF r = "online" THEN status' = "CONNECTED" /\ UNCHANGED open
       ELSE status' = "DISCONNECTED" /\ open' = FALSE

\* One recv() or read() takes all that has arrived.  Enough bytes end the loop.
Receive ==
    /\ pc = "await" /\ inbox # {}
    /\ LET all == got \cup inbox IN
       IF Bytes(all) < MinLength(call.op)
       THEN got' = all /\ UNCHANGED <<status, open, pc, result, accepted>>
       ELSE \E m \in all :
            /\ IsFirst(m, all)
            /\ IF Accepts(m, all)
               THEN Return(ResultOf(m)) /\ accepted' = m.seq
               ELSE Return("ERROR") /\ UNCHANGED accepted
    /\ inbox' = {}
    /\ UNCHANGED <<lineVars, kind, tid, call, requests>>

\* Time is up, the gateway has closed the connection, or send(), recv() or select()
\* failed.  The bytes got so far are dropped: they are too few for any reply.
GiveUp ==
    /\ pc = "await"
    /\ kind = "gateway" => inbox = {} \/ got = {}
    /\ Return("ERROR")
    /\ UNCHANGED <<lineVars, kind, inbox, tid, call, requests, accepted>>

-----------------------------------------------------------------------------
(* External: the PLC and the way to it.                                    *)

Requests == {m \in pending : m.form = "request"}

\* Requests are executed in the order in which they were sent.
Execute(m) ==
    /\ m \in Requests /\ \A n \in Requests : m.seq <= n.seq
    /\ \E form \in {"reply", "exception"} :
         LET v == IF m.op = "write" THEN m.val ELSE coil[m.coil] IN
         /\ pending' = (pending \ {m}) \cup
              {[m EXCEPT !.form = form, !.val = v, !.len = ReplyLength(m.op, form)]}
         /\ coil' = IF form = "reply" /\ m.op = "write" THEN [coil EXCEPT ![m.coil] = m.val] ELSE coil
    /\ UNCHANGED <<kind, inbox, linked, status, open, tid, pc, call, got, result, requests, accepted>>

\* A request or a reply is lost on the bus.
Lose(m) ==
    /\ m \in pending /\ m.start
    /\ pending' = pending \ {m}
    /\ UNCHANGED <<kind, coil, inbox, linked, status, open, tid, pc, call, got, result, requests,
                   accepted>>

\* The oldest reply arrives, or a piece of it.
Arrive(m) ==
    /\ m \in pending /\ m.form # "request"
    /\ \A n \in pending : n = m \/ Precedes(m, n)
    /\ \/ inbox' = inbox \cup {m} /\ pending' = pending \ {m}
       \/ \E k \in Cut :
            /\ m.start /\ k < m.len
            /\ inbox' = inbox \cup {[m EXCEPT !.len = k]}
            /\ pending' = (pending \ {m}) \cup {[m EXCEPT !.start = FALSE, !.len = @ - k]}
    /\ UNCHANGED <<kind, coil, linked, status, open, tid, pc, call, got, result, requests, accepted>>

\* The gateway closes the connection, which nobody opens again.
PeerCloses ==
    /\ kind = "gateway" /\ linked
    /\ linked' = FALSE
    /\ pending' = {}
    /\ UNCHANGED <<kind, coil, inbox, status, open, tid, pc, call, got, result, requests, accepted>>

-----------------------------------------------------------------------------
World == PeerCloses \/ \E m \in pending : Execute(m) \/ Lose(m) \/ Arrive(m)

ConnNext ==
    \/ Connect \/ ConnectFails
    \/ \E c \in Coil, v \in Bit : Send("write", c, v)
    \/ \E c \in Coil : Send("read", c, "0")
    \/ Refuse
    \/ Receive \/ GiveUp
    \/ World

ConnSpec == ConnInit /\ [][ConnNext]_connVars

-----------------------------------------------------------------------------
(* Properties.                                                             *)

\* A call that succeeds has accepted the answer to its own request, never the late
\* answer to an earlier one (validateResponse, tcflush).
OwnAnswer == result \in Success => accepted = call.seq

\* readRegister returns what the register holds: no write that an earlier call gave up
\* on is executed between its answer and the next call.
ReadIsCurrent == pc = "idle" /\ result \in Bit => coil[call.coil] = result

\* When writeRegister returns true the register holds the value, and keeps it until the
\* next call.
WriteHolds == pc = "idle" /\ result = "true" => coil[call.coil] = call.val

-----------------------------------------------------------------------------
(* What PLCManager is promised: registers.                                 *)

Registers == INSTANCE PlcRegisters WITH
    register <- coil,
    underway <- {[number |-> m.seq, coil |-> m.coil, val |-> m.val]
                     : m \in {n \in Requests : n.op = "write"}},
    waiting  <- pc = "await",
    call     <- [op |-> call.op, coil |-> call.coil, val |-> call.val],
    answer   <- result,
    calls    <- requests

\* Through frames that are late, lost or cut a connector gives access to the registers of
\* its PLC as plc_connector.h promises: a success means that the operation has taken place
\* and that no earlier one is still under way (readRegister, writeRegister).
ImplementsRegisters == Registers!Safety
=============================================================================
