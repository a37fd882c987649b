------------------------- MODULE PlcConnector_proofs -------------------------
(***************************************************************************)
(* What a connector returns is true of the PLC, for any registers, any     *)
(* size of the transaction id and any way to cut and delay replies that    *)
(* Punctual allows.                                                        *)
(*                                                                         *)
(* The argument: replies that can still be read are less than TidMod       *)
(* requests old, so that among them an id names one request; the newest    *)
(* request is executed last, so that once its reply exists nothing that    *)
(* was sent before can change a register any more.                         *)
(***************************************************************************)
EXTENDS PlcConnector, TLAPS

USE ConnectorAssumption

Stream == pending \cup inbox \cup got

\* Before connect() there is nothing; while a call waits its request is the newest.
PhaseInv ==
    /\ pc = "boot" => /\ requests = 0 /\ result = "none" /\ Stream = {}
    /\ pc = "await" => open /\ requests = call.seq + 1 /\ result = "none"
    /\ \A m \in inbox \cup got : m.form # "request"

\* The id that is d requests after t.
After(t, d) == IF t + d < TidMod THEN t + d ELSE t + d - TidMod

\* Ids count requests, and nothing is more than TidMod requests old.
TidInv ==
    /\ pc = "await" => tid = After(call.tid, 1)
    /\ \A m \in Stream :
        /\ m.seq < requests /\ requests <= m.seq + TidMod
        /\ tid = After(m.tid, requests - m.seq)

\* On a serial line a call meets no messages but its own.
SerialInv ==
    kind = "serial" /\ pc = "await" => \A m \in Stream : m.seq = call.seq

\* The messages with the newest number belong to the current call.
CallInv ==
    \A m \in Stream : m.seq + 1 = requests =>
        /\ m.op = call.op /\ m.coil = call.coil
        /\ m.op = "write" => m.val = call.val

\* When the newest request has been executed, nothing is left to execute.
ExecInv ==
    /\ \A m, n \in Requests : m.seq = n.seq => m = n
    /\ \A m \in Stream : m.seq + 1 = requests /\ m.form # "request" =>
        /\ Requests = {}
        /\ m.form = "reply" => coil[m.coil] = m.val

\* What a call has returned stays true until the next one.
ResultInv ==
    result \in Bit \cup {"true"} =>
        /\ Requests = {}
        /\ coil[call.coil] = IF result = "true" THEN call.val ELSE result

ConnInv ==
    ConnTypeOK /\ PhaseInv /\ TidInv /\ SerialInv /\ CallInv /\ ExecInv /\ ResultInv /\ OwnAnswer

-----------------------------------------------------------------------------
(* The messages a connector can read.                                      *)

\* Among what can still be read, the id of the current call names its own answer.
LEMMA TidNamesCall ==
    ASSUME ConnInv, pc = "await", NEW m \in Stream, m.tid = call.tid
    PROVE  m.seq = call.seq
<1>1. m \in Message /\ call \in Call /\ requests \in Nat
  BY DEF ConnInv, ConnTypeOK, Stream
<1>2. requests = call.seq + 1 /\ m.seq < requests /\ requests <= m.seq + TidMod
  BY DEF ConnInv, PhaseInv, TidInv
<1>3. After(call.tid, 1) = After(m.tid, requests - m.seq)
  BY DEF ConnInv, TidInv
<1> QED BY <1>1, <1>2, <1>3 DEF After, Message, Call

\* An accepted answer is the answer to the current call.
LEMMA AcceptedIsOwn ==
    ASSUME ConnInv, pc = "await", NEW S \in SUBSET Stream, NEW m \in S, Accepts(m, S)
    PROVE  m.seq = call.seq
<1>1. CASE kind = "gateway"
  BY <1>1, TidNamesCall DEF Accepts, HeaderOk
<1>2. CASE kind = "serial"
  BY <1>2 DEF ConnInv, SerialInv
<1> QED BY <1>1, <1>2 DEF ConnInv, ConnTypeOK

-----------------------------------------------------------------------------
(* The invariant holds at the start.                                       *)

\* Before connect() there is nothing to be mistaken about.
LEMMA ConnInvInit == ConnInit => ConnInv
<1> SUFFICES ASSUME ConnInit PROVE ConnInv
  OBVIOUS
<1>1. ConnTypeOK
  <2>1. call \in Call
    BY DEF ConnInit, Call, Op, Bit
  <2>2. 1 \in 0 .. TidMod - 1
    OBVIOUS
  <2>3. requests \in 0 .. MaxRequests + 1 /\ accepted \in 0 .. MaxRequests
    BY DEF ConnInit
  <2>4. pending \subseteq Message /\ inbox \subseteq Message /\ got \subseteq Message
    BY DEF ConnInit
  <2>5. /\ linked \in BOOLEAN /\ open \in BOOLEAN /\ (status = "CONNECTED" => open)
        /\ status \in {"DISCONNECTED", "PORT_ERROR", "CONNECTED"}
    BY DEF ConnInit
  <2> QED BY <2>1, <2>2, <2>3, <2>4, <2>5 DEF ConnInit, ConnTypeOK
<1>2. PhaseInv /\ TidInv /\ SerialInv /\ CallInv /\ ExecInv
  BY DEF ConnInit, PhaseInv, TidInv, SerialInv, CallInv, ExecInv, Stream, Requests
<1>3. ResultInv /\ OwnAnswer
  BY DEF ConnInit, ResultInv, OwnAnswer, Bit, Success
<1> QED BY <1>1, <1>2, <1>3 DEF ConnInv

-----------------------------------------------------------------------------
(* Sending keeps it.                                                       *)

\* What Connect and Send have in common.
LEMMA RequestKeeps ==
    ASSUME ConnInv, NEW op \in Op, NEW c \in Coil, NEW v \in Bit,
           Request(op, c, v), requests < MaxRequests \/ requests = 0,
           pc # "await", Punctual, open', result' = "none",
           linked' \in BOOLEAN, UNCHANGED status
    PROVE  ConnInv'
<1> DEFINE cl == [op |-> op, coil |-> c, val |-> v, seq |-> requests, tid |-> tid]
           new == [seq |-> requests, tid |-> tid, op |-> op, coil |-> c, val |-> v,
                   form |-> "request", start |-> TRUE, len |-> 0]
<1>1. /\ call' = cl /\ requests' = requests + 1 /\ tid' = NextTid(tid)
      /\ inbox' \subseteq inbox /\ (kind = "serial" => inbox' = {}) /\ got' = {}
      /\ pc' = "await" /\ pending' \subseteq pending \cup {new}
      /\ UNCHANGED <<coil, kind, accepted>>
  BY DEF Request, Flushed
<1>2. ConnTypeOK
  BY DEF ConnInv
<1>3. new \in Message /\ cl \in Call /\ NextTid(tid) \in 0 .. TidMod - 1
      /\ requests + 1 \in 0 .. MaxRequests + 1
  BY <1>2 DEF ConnTypeOK, Message, Call, NextTid
<1>4. ConnTypeOK'
  BY <1>1, <1>2, <1>3 DEF ConnTypeOK, Success
<1>5. \A m \in Stream' : m = new \/ m \in pending \cup inbox
  BY <1>1 DEF Stream
<1>6. \A m \in pending \cup inbox :
        /\ m \in Message
        /\ m.seq < requests /\ requests < m.seq + TidMod
        /\ tid = After(m.tid, requests - m.seq)
  BY <1>2 DEF ConnTypeOK, ConnInv, TidInv, Stream, Punctual
<1>7. PhaseInv'
  BY <1>1 DEF ConnInv, PhaseInv, Stream
<1>8. TidInv'
  <2>1. tid' = After(call'.tid, 1)
    BY <1>1, <1>2 DEF ConnTypeOK, NextTid, After
  <2>2. ASSUME NEW m \in Stream'
        PROVE  /\ m.seq < requests' /\ requests' <= m.seq + TidMod
               /\ tid' = After(m.tid, requests' - m.seq)
    <3>1. CASE m = new
      BY <3>1, <1>1, <1>2 DEF ConnTypeOK, NextTid, After
    <3>2. CASE m \in pending \cup inbox
      <4>1. m.seq \in Nat /\ m.tid \in 0 .. TidMod - 1 /\ requests \in Nat
        BY <3>2, <1>6, <1>2 DEF Message, ConnTypeOK
      <4> QED BY <4>1, <3>2, <1>1, <1>6 DEF NextTid, After
    <3> QED BY <3>1, <3>2, <1>5
  <2> QED BY <2>1, <2>2 DEF TidInv
<1>9. SerialInv'
  <2>1. kind = "serial" => pending = {}
    BY DEF Punctual
  <2> QED BY <2>1, <1>1 DEF SerialInv, Stream
<1>10. CallInv'
  <2> SUFFICES ASSUME NEW m \in Stream', m.seq + 1 = requests', m # new PROVE FALSE
    BY <1>1 DEF CallInv
  <2> QED BY <1>1, <1>2, <1>5, <1>6 DEF ConnTypeOK, Message
<1>11. ExecInv'
  <2>1. \A m \in Requests' : m = new \/ m \in Requests
    BY <1>1 DEF Requests
  <2>2. \A m, n \in Requests' : m.seq = n.seq => m = n
    <3>1. \A m \in Requests : m.seq # new.seq
      BY <1>2, <1>6 DEF Requests, ConnTypeOK, Message
    <3>2. \A m, n \in Requests : m.seq = n.seq => m = n
      BY DEF ConnInv, ExecInv
    <3> QED BY <2>1, <3>1, <3>2
  <2>3. ASSUME NEW m \in Stream', m.seq + 1 = requests', m.form # "request" PROVE FALSE
    BY <2>3, <1>1, <1>2, <1>5, <1>6 DEF ConnTypeOK, Message
  <2> QED BY <2>2, <2>3 DEF ExecInv
<1>12. ResultInv' /\ OwnAnswer'
  BY DEF ResultInv, OwnAnswer, Bit, Success
<1> QED BY <1>4, <1>7, <1>8, <1>9, <1>10, <1>11, <1>12 DEF ConnInv

\* The health check is the first request.
LEMMA ConnectKeeps == ConnInv /\ Connect => ConnInv'
<1> SUFFICES ASSUME ConnInv, Connect PROVE ConnInv'
  OBVIOUS
<1>1. requests = 0 /\ result = "none" /\ Stream = {}
  BY DEF ConnInv, PhaseInv, Connect
<1>2. Punctual
  BY <1>1 DEF Punctual, Stream
<1>3. Request("health", HealthCoil, "0") /\ open' /\ linked' /\ result' = "none" /\ UNCHANGED status
  BY <1>1 DEF Connect
<1>4. pc # "await" /\ "health" \in Op /\ "0" \in Bit
  BY DEF Connect, Op, Bit
<1> QED BY <1>1, <1>2, <1>3, <1>4, RequestKeeps

\* readRegister and writeRegister send one request each, when what came before is settled.
LEMMA SendKeeps ==
    ASSUME ConnInv, NEW op \in Op, NEW c \in Coil, NEW v \in Bit, Send(op, c, v)
    PROVE  ConnInv'
<1>1. Request(op, c, v) /\ requests < MaxRequests /\ Punctual /\ pc # "await"
      /\ result' = "none" /\ open /\ UNCHANGED <<linked, status, open>>
  BY DEF Send, Usable
<1>2. linked' \in BOOLEAN
  BY <1>1 DEF ConnInv, ConnTypeOK
<1> QED BY <1>1, <1>2, RequestKeeps

-----------------------------------------------------------------------------
(* Receiving keeps it.                                                     *)

\* What Receive, GiveUp and Refuse have in common: the messages only become fewer.
LEMMA ReturnKeeps ==
    ASSUME ConnInv, pc' = "idle" \/ (pc = "await" /\ pc' = "await" /\ open' = open /\ result' = "none"),
           inbox' \subseteq inbox, got' \subseteq got \cup inbox,
           UNCHANGED <<kind, coil, pending, linked, tid, call, requests>>,
           open' \in BOOLEAN, status' = "CONNECTED" => open',
           status' \in {"DISCONNECTED", "PORT_ERROR", "CONNECTED"},
           result' \in Success \cup {"none", "ERROR"}, accepted' \in 0 .. MaxRequests,
           ResultInv', OwnAnswer'
    PROVE  ConnInv'
<1>1. ConnTypeOK'
  BY DEF ConnInv, ConnTypeOK
<1>2. Stream' \subseteq Stream /\ Requests' = Requests
  BY DEF Stream, Requests
<1>3. PhaseInv'
  BY DEF ConnInv, PhaseInv
<1>4. TidInv' /\ SerialInv'
  BY <1>2 DEF ConnInv, TidInv, SerialInv, After
<1>5. CallInv' /\ ExecInv'
  BY <1>2 DEF ConnInv, CallInv, ExecInv
<1> QED BY <1>1, <1>3, <1>4, <1>5 DEF ConnInv

\* A call that has enough bytes accepts its own answer or fails.
LEMMA ReceiveKeeps == ConnInv /\ Receive => ConnInv'
<1> SUFFICES ASSUME ConnInv, Receive PROVE ConnInv'
  OBVIOUS
<1> DEFINE all == got \cup inbox
<1>1. /\ pc = "await" /\ inbox' = {}
      /\ UNCHANGED <<kind, coil, pending, linked, tid, call, requests>>
  BY DEF Receive, lineVars
<1>2. open /\ result = "none" /\ requests = call.seq + 1 /\ ConnTypeOK
  BY <1>1 DEF ConnInv, PhaseInv
<1>3. CASE got' = all /\ UNCHANGED <<status, open, pc, result, accepted>>
  BY <1>1, <1>2, <1>3, ReturnKeeps DEF ConnTypeOK, ConnInv, ResultInv, OwnAnswer, Bit, Success
<1>4. ASSUME NEW m \in all, IsFirst(m, all), Accepts(m, all),
             Return(ResultOf(m)), accepted' = m.seq
      PROVE  ConnInv'
  <2>1. m \in Stream /\ m \in Message /\ m.form = "reply" /\ all \subseteq Stream
    BY <1>2, <1>4 DEF Stream, ConnTypeOK, Accepts, HeaderOk
  <2>2. m.seq = call.seq
    BY <1>1, <1>4, <2>1, AcceptedIsOwn
  <2>3. /\ m.op = call.op /\ m.coil = call.coil
        /\ Requests = {} /\ coil[m.coil] = m.val
    BY <1>2, <2>1, <2>2 DEF ConnInv, CallInv, ExecInv
  <2>4. /\ pc' = "idle" /\ got' = {} /\ result' = ResultOf(m)
        /\ open' \in BOOLEAN /\ (status' = "CONNECTED" => open')
        /\ status' \in {"DISCONNECTED", "PORT_ERROR", "CONNECTED"}
    BY <1>2, <1>4 DEF Return, ConnTypeOK
  <2>5. call.op \in Op /\ m.val \in Bit /\ m.seq \in 0 .. MaxRequests
    BY <1>2, <2>1 DEF ConnTypeOK, Call, Message
  <2>6. result' \in Success \cup {"none", "ERROR"}
    BY <2>4, <2>5 DEF ResultOf, Op, Success, Bit
  <2>7. ResultInv'
    <3>1. Requests' = {} /\ coil' = coil /\ call' = call
      BY <1>1, <2>3 DEF Requests
    <3>2. CASE call.op = "read"
      BY <3>1, <3>2, <2>3, <2>4, <2>5 DEF ResultOf, ResultInv, Bit
    <3>3. CASE call.op = "write"
      <4>1. m.val = call.val
        BY <1>4, <3>3 DEF Accepts, EchoOk
      <4> QED BY <4>1, <3>1, <3>3, <2>3, <2>4 DEF ResultOf, ResultInv, Bit
    <3>4. CASE call.op = "health"
      BY <3>4, <2>4 DEF ResultOf, ResultInv, Bit
    <3> QED BY <3>2, <3>3, <3>4, <2>5 DEF Op
  <2>8. OwnAnswer'
    BY <1>1, <1>4, <2>2 DEF OwnAnswer
  <2> QED BY <1>1, <1>4, <2>4, <2>5, <2>6, <2>7, <2>8, ReturnKeeps
<1>5. CASE Return("ERROR") /\ UNCHANGED accepted
  <2>1. ResultInv' /\ OwnAnswer' /\ pc' = "idle" /\ got' = {} /\ result' = "ERROR"
    BY <1>5 DEF Return, ResultInv, OwnAnswer, Bit, Success
  <2>2. /\ open' \in BOOLEAN /\ (status' = "CONNECTED" => open')
        /\ status' \in {"DISCONNECTED", "PORT_ERROR", "CONNECTED"}
        /\ accepted' \in 0 .. MaxRequests
    BY <1>2, <1>5 DEF Return, ConnTypeOK
  <2> QED BY <1>1, <2>1, <2>2, ReturnKeeps
<1> QED BY <1>3, <1>4, <1>5 DEF Receive

\* A call that gives up claims nothing.
LEMMA GiveUpKeeps == ConnInv /\ GiveUp => ConnInv'
<1> SUFFICES ASSUME ConnInv, GiveUp PROVE ConnInv'
  OBVIOUS
<1>1. Return("ERROR") /\ UNCHANGED <<kind, coil, pending, linked, inbox, tid, call, requests, accepted>>
  BY DEF GiveUp, lineVars
<1>2. ResultInv' /\ OwnAnswer' /\ pc' = "idle" /\ got' = {} /\ result' = "ERROR"
  BY <1>1 DEF Return, ResultInv, OwnAnswer, Bit, Success
<1>3. /\ open' \in BOOLEAN /\ (status' = "CONNECTED" => open')
      /\ status' \in {"DISCONNECTED", "PORT_ERROR", "CONNECTED"}
      /\ accepted' \in 0 .. MaxRequests
  BY <1>1 DEF Return, ConnInv, ConnTypeOK
<1> QED BY <1>1, <1>2, <1>3, ReturnKeeps

\* A call that is refused, or a connector that cannot be opened, sends nothing.
LEMMA RefuseKeeps == ConnInv /\ (Refuse \/ ConnectFails) => ConnInv'
<1> SUFFICES ASSUME ConnInv, Refuse \/ ConnectFails PROVE ConnInv'
  OBVIOUS
<1>1. /\ pc' = "idle" /\ UNCHANGED <<kind, coil, pending, linked, inbox, got, tid, call, requests, accepted, open>>
      /\ ConnTypeOK
  BY DEF Refuse, ConnectFails, lineVars, ConnInv
<1>2. /\ status' = "CONNECTED" => open'
      /\ status' \in {"DISCONNECTED", "PORT_ERROR", "CONNECTED"}
      /\ result' \in {"none", "ERROR"}
  BY <1>1 DEF Refuse, ConnectFails, ConnTypeOK, ConnInv, PhaseInv
<1>3. ResultInv' /\ OwnAnswer'
  BY <1>2 DEF ResultInv, OwnAnswer, Bit, Success
<1> QED BY <1>1, <1>2, <1>3, ReturnKeeps DEF ConnTypeOK

-----------------------------------------------------------------------------
(* The world keeps it.                                                     *)

\* An execution adds one reply and perhaps changes one register.
LEMMA ExecuteKeeps ==
    ASSUME ConnInv, NEW m \in pending, Execute(m)
    PROVE  ConnInv'
<1>1. /\ m \in Requests /\ \A n \in Requests : m.seq <= n.seq
      /\ UNCHANGED <<kind, inbox, linked, status, open, tid, pc, call, got, result, requests, accepted>>
  BY DEF Execute
<1>2. PICK form \in {"reply", "exception"} :
        LET v == IF m.op = "write" THEN m.val ELSE coil[m.coil] IN
        /\ pending' = (pending \ {m}) \cup
             {[m EXCEPT !.form = form, !.val = v, !.len = ReplyLength(m.op, form)]}
        /\ coil' = IF form = "reply" /\ m.op = "write" THEN [coil EXCEPT ![m.coil] = m.val] ELSE coil
  BY DEF Execute
<1> DEFINE v == IF m.op = "write" THEN m.val ELSE coil[m.coil]
           new == [m EXCEPT !.form = form, !.val = v, !.len = ReplyLength(m.op, form)]
<1>3. ConnTypeOK /\ m \in Message /\ m \in Stream
  BY DEF ConnInv, ConnTypeOK, Stream
<1>4. new \in Message /\ coil' \in [Coil -> Bit]
  BY <1>2, <1>3 DEF Message, ReplyLength, ConnTypeOK
<1>5. /\ new.seq = m.seq /\ new.tid = m.tid /\ new.op = m.op /\ new.coil = m.coil
      /\ new.form = form /\ new.val = v
  BY <1>3 DEF Message
<1>6. ConnTypeOK'
  BY <1>1, <1>2, <1>3, <1>4 DEF ConnTypeOK
<1>7. Stream' = (Stream \ {m}) \cup {new} /\ Requests' = Requests \ {m}
  <2>1. m \notin inbox \cup got
    BY <1>1 DEF ConnInv, PhaseInv, Requests
  <2> QED BY <2>1, <1>1, <1>2, <1>5 DEF Stream, Requests
<1>8. PhaseInv' /\ TidInv' /\ SerialInv'
  <2>1. PhaseInv'
    BY <1>1, <1>3, <1>7 DEF ConnInv, PhaseInv
  <2>2. \A n \in Stream' : \E k \in Stream : n.seq = k.seq /\ n.tid = k.tid
    BY <1>3, <1>5, <1>7
  <2>3. TidInv'
    BY <1>1, <2>2 DEF ConnInv, TidInv, After
  <2>4. SerialInv'
    BY <1>1, <2>2 DEF ConnInv, SerialInv
  <2> QED BY <2>1, <2>3, <2>4
<1>9. CallInv'
  <2> SUFFICES ASSUME NEW n \in Stream', n.seq + 1 = requests
               PROVE  n.op = call.op /\ n.coil = call.coil /\ (n.op = "write" => n.val = call.val)
    BY <1>1 DEF CallInv
  <2>1. CASE n \in Stream
    BY <2>1 DEF ConnInv, CallInv
  <2>2. CASE n = new
    <3>1. m.op = call.op /\ m.coil = call.coil /\ (m.op = "write" => m.val = call.val)
      BY <2>2, <1>3, <1>5 DEF ConnInv, CallInv
    <3>2. n.op = m.op /\ n.coil = m.coil /\ n.val = v
      BY <2>2, <1>5
    <3> QED BY <3>1, <3>2
  <2> QED BY <2>1, <2>2, <1>7
<1>10. ExecInv'
  <2>1. \A n1, n2 \in Requests' : n1.seq = n2.seq => n1 = n2
    BY <1>7 DEF ConnInv, ExecInv
  <2>2. ASSUME NEW n \in Stream', n.seq + 1 = requests', n.form # "request"
        PROVE  Requests' = {} /\ (n.form = "reply" => coil'[n.coil] = n.val)
    <3>1. n = new
      BY <1>1, <1>7, <2>2 DEF ConnInv, ExecInv
    <3>2. m.seq + 1 = requests
      BY <3>1, <2>2, <1>1, <1>5
    <3>3. \A k \in Requests : k \in Message /\ k.seq < requests
      BY <1>3 DEF ConnInv, TidInv, Stream, Requests, ConnTypeOK
    <3>4. \A k \in Requests : k.seq = m.seq
      BY <3>2, <3>3, <1>1, <1>3 DEF Message, ConnTypeOK
    <3>5. Requests' = {}
      BY <3>4, <1>1, <1>7 DEF ConnInv, ExecInv
    <3>6. n.form = "reply" => coil'[n.coil] = n.val
      BY <3>1, <1>2, <1>3, <1>5 DEF ConnTypeOK, Message
    <3> QED BY <3>5, <3>6
  <2> QED BY <2>1, <2>2 DEF ExecInv
<1>11. ResultInv' /\ OwnAnswer'
  BY <1>1 DEF ConnInv, ResultInv, OwnAnswer
<1> QED BY <1>6, <1>8, <1>9, <1>10, <1>11 DEF ConnInv

\* Fewer messages, or the same ones in other places and pieces.
LEMMA MovesKeep ==
    ASSUME ConnInv, pending' \subseteq Message, inbox' \subseteq Message,
           UNCHANGED <<kind, coil, status, open, tid, pc, call, got, result, requests, accepted>>,
           linked' \in BOOLEAN, Requests' \subseteq Requests,
           \A m \in inbox' : m.form # "request",
           \A n \in Stream' : \E m \in Stream :
              /\ n.seq = m.seq /\ n.tid = m.tid /\ n.op = m.op /\ n.coil = m.coil
              /\ n.val = m.val /\ n.form = m.form,
           pc = "boot" => Stream' = {}
    PROVE  ConnInv'
<1>1. ConnTypeOK' /\ PhaseInv'
  BY DEF ConnInv, ConnTypeOK, PhaseInv
<1>2. TidInv'
  BY DEF ConnInv, TidInv, After
<1>3. SerialInv' /\ CallInv'
  BY DEF ConnInv, SerialInv, CallInv
<1>4. ExecInv' /\ ResultInv' /\ OwnAnswer'
  BY DEF ConnInv, ExecInv, ResultInv, OwnAnswer
<1> QED BY <1>1, <1>2, <1>3, <1>4 DEF ConnInv

\* Replies are lost and arrive, the gateway goes away.
LEMMA WorldKeeps == ConnInv /\ World => ConnInv'
<1> SUFFICES ASSUME ConnInv, World PROVE ConnInv'
  OBVIOUS
<1>1. ConnTypeOK
  BY DEF ConnInv
<1>2. CASE PeerCloses
  BY <1>1, <1>2, MovesKeep DEF PeerCloses, ConnTypeOK, ConnInv, PhaseInv, Stream, Requests
<1>3. ASSUME NEW m \in pending, Execute(m) PROVE ConnInv'
  BY <1>3, ExecuteKeeps
<1>4. ASSUME NEW m \in pending, Lose(m) PROVE ConnInv'
  BY <1>1, <1>4, MovesKeep DEF Lose, ConnTypeOK, ConnInv, PhaseInv, Stream, Requests
<1>5. ASSUME NEW m \in pending, Arrive(m) PROVE ConnInv'
  <2>1. /\ m.form # "request" /\ m \in Message
        /\ UNCHANGED <<kind, coil, linked, status, open, tid, pc, call, got, result, requests, accepted>>
    BY <1>1, <1>5 DEF Arrive, ConnTypeOK
  <2>2. \A n \in inbox : n.form # "request"
    BY DEF ConnInv, PhaseInv
  <2>3. pc # "boot"
    BY DEF ConnInv, PhaseInv, Stream
  <2>4. CASE inbox' = inbox \cup {m} /\ pending' = pending \ {m}
    BY <1>1, <2>1, <2>2, <2>3, <2>4, MovesKeep DEF ConnTypeOK, Stream, Requests
  <2>5. ASSUME NEW k \in Cut, k < m.len,
               inbox' = inbox \cup {[m EXCEPT !.len = k]},
               pending' = (pending \ {m}) \cup {[m EXCEPT !.start = FALSE, !.len = @ - k]}
        PROVE  ConnInv'
    <3> DEFINE head == [m EXCEPT !.len = k]
               rest == [m EXCEPT !.start = FALSE, !.len = @ - k]
    <3>1. head \in Message /\ rest \in Message
      <4>1. k \in Nat /\ m.len \in Nat
        BY <2>1 DEF Message
      <4>2. m.len - k \in Nat
        BY <4>1, <2>5
      <4> QED BY <2>1, <4>1, <4>2 DEF Message
    <3>2. \A n \in {head, rest} : /\ n.seq = m.seq /\ n.tid = m.tid /\ n.op = m.op /\ n.coil = m.coil
                                   /\ n.val = m.val /\ n.form = m.form
      BY <2>1 DEF Message
    <3>3. pending' \subseteq Message /\ inbox' \subseteq Message
      BY <1>1, <2>5, <3>1 DEF ConnTypeOK
    <3>4. Requests' \subseteq Requests /\ \A n \in inbox' : n.form # "request"
      BY <2>1, <2>2, <2>5, <3>2 DEF Requests
    <3>5. \A n \in Stream' : n \in Stream \/ n \in {head, rest}
      BY <2>1, <2>5 DEF Stream
    <3>6. m \in Stream
      BY DEF Stream
    <3>7. \A n \in Stream' : \E l \in Stream :
              /\ n.seq = l.seq /\ n.tid = l.tid /\ n.op = l.op /\ n.coil = l.coil
              /\ n.val = l.val /\ n.form = l.form
      BY <3>2, <3>5, <3>6
    <3> QED BY <1>1, <2>1, <2>3, <3>3, <3>4, <3>7, MovesKeep DEF ConnTypeOK
  <2> QED BY <1>5, <2>4, <2>5 DEF Arrive
<1> QED BY <1>2, <1>3, <1>4, <1>5 DEF World

-----------------------------------------------------------------------------
(* Theorems.                                                               *)

\* Every step keeps the invariant.
LEMMA ConnInvNext == ConnInv /\ [ConnNext]_connVars => ConnInv'
<1> SUFFICES ASSUME ConnInv, [ConnNext]_connVars PROVE ConnInv'
  OBVIOUS
<1>1. CASE Connect \/ ConnectFails \/ Refuse
  BY <1>1, ConnectKeeps, RefuseKeeps
<1>2. ASSUME NEW c \in Coil, NEW b \in Bit, Send("write", c, b) \/ Send("read", c, "0") PROVE ConnInv'
  BY <1>2, SendKeeps DEF Op, Bit
<1>3. CASE Receive \/ GiveUp
  BY <1>3, ReceiveKeeps, GiveUpKeeps
<1>4. CASE World
  BY <1>4, WorldKeeps
<1>5. CASE UNCHANGED connVars
  <2>1. UNCHANGED <<kind, coil, pending, inbox, linked, status, open, tid, pc, call, got, result, requests, accepted>>
    BY <1>5 DEF connVars
  <2>2. Stream' = Stream /\ Requests' = Requests
    BY <2>1 DEF Stream, Requests
  <2>3. ConnTypeOK' /\ PhaseInv' /\ TidInv' /\ SerialInv'
    BY <2>1, <2>2 DEF ConnInv, ConnTypeOK, PhaseInv, TidInv, SerialInv, After
  <2>4. CallInv' /\ ExecInv' /\ ResultInv' /\ OwnAnswer'
    BY <2>1, <2>2 DEF ConnInv, CallInv, ExecInv, ResultInv, OwnAnswer
  <2> QED BY <2>3, <2>4 DEF ConnInv
<1>6. Bit # {}
  BY DEF Bit
<1> QED BY <1>1, <1>2, <1>3, <1>4, <1>5, <1>6 DEF ConnNext

\* The invariant that the properties follow from.
THEOREM ConnInvAlways == ConnSpec => []ConnInv
<1> QED BY ConnInvInit, ConnInvNext, PTL DEF ConnSpec

\* The types of the connector's state, and that nothing is sent to a device that is not open.
THEOREM ConnTypeCorrect == ConnSpec => []ConnTypeOK
<1>1. ConnInv => ConnTypeOK
  BY DEF ConnInv
<1> QED BY <1>1, ConnInvAlways, PTL

\* A successful call has accepted the answer to its own request.
THEOREM OwnAnswerCorrect == ConnSpec => []OwnAnswer
<1>1. ConnInv => OwnAnswer
  BY DEF ConnInv
<1> QED BY <1>1, ConnInvAlways, PTL

\* What readRegister returns is what the register holds, until the next call.
THEOREM ReadCorrect == ConnSpec => []ReadIsCurrent
<1>1. ConnInv => ReadIsCurrent
  BY DEF ConnInv, ResultInv, ReadIsCurrent, Bit
<1> QED BY <1>1, ConnInvAlways, PTL

\* What writeRegister said it has written is in the register, and stays there until the
\* next call.
THEOREM WriteCorrect == ConnSpec => []WriteHolds
<1>1. ConnInv => WriteHolds
  BY DEF ConnInv, ResultInv, WriteHolds, Bit
<1> QED BY <1>1, ConnInvAlways, PTL
-----------------------------------------------------------------------------
(* Registers.  The step that returns is the one at which the operation of a *)
(* successful call is taken to have taken place; a write takes effect when  *)
(* the PLC executes it.                                                     *)

\* The write that a request asks for, as PlcRegisters has it.
Asked(m) == [number |-> m.seq, coil |-> m.coil, val |-> m.val]

Underway == {Asked(m) : m \in {n \in Requests : n.op = "write"}}

WholeCall == [op |-> call.op, coil |-> call.coil, val |-> call.val]

\* Before connect() every register has some value and there were no calls.
LEMMA RegistersInitial == ConnInit => Registers!Init
<1> SUFFICES ASSUME ConnInit PROVE Registers!Init
  OBVIOUS
<1>1. coil \in [Coil -> Bit] /\ result = "none" /\ requests = 0 /\ pc # "await"
  BY DEF ConnInit
<1>2. Underway = {}
  BY DEF ConnInit, Underway, Requests
<1>3. WholeCall \in Registers!Calls
  BY DEF ConnInit, WholeCall, Registers!Calls, Op, Bit
<1> QED BY <1>1, <1>2, <1>3 DEF Registers!Init, Underway, Asked, WholeCall

\* A request begins a call; its write may be under way from then on.
LEMMA RequestInvokes ==
    ASSUME ConnInv, NEW op \in Op, NEW c \in Coil, NEW v \in Bit,
           Request(op, c, v), pc # "await", result' = "none"
    PROVE  Registers!Next
<1> DEFINE cl == [op |-> op, coil |-> c, val |-> v, seq |-> requests, tid |-> tid]
           new == [seq |-> requests, tid |-> tid, op |-> op, coil |-> c, val |-> v,
                   form |-> "request", start |-> TRUE, len |-> 0]
           abstract == [op |-> op, coil |-> c, val |-> v]
<1>1. /\ call' = cl /\ requests' = requests + 1 /\ pc' = "await" /\ coil' = coil
      /\ pending' = pending \/ pending' = pending \cup {new}
  BY DEF Request
<1>2. abstract \in Registers!Calls
  BY DEF Registers!Calls
<1>3. WholeCall' = abstract
  BY <1>1 DEF WholeCall
<1>4. \/ Underway' = Underway
      \/ op = "write" /\ Underway' = Underway \cup {[number |-> requests, coil |-> c, val |-> v]}
  <2>1. CASE pending' = pending
    BY <2>1 DEF Underway, Requests
  <2>2. CASE pending' = pending \cup {new}
    <3>1. Requests' = Requests \cup {new} /\ new.op = op
      BY <2>2 DEF Requests
    <3>2. Asked(new) = [number |-> requests, coil |-> c, val |-> v]
      BY DEF Asked
    <3>3. CASE op = "write"
      BY <3>1, <3>2, <3>3 DEF Underway
    <3>4. CASE op # "write"
      BY <3>1, <3>4 DEF Underway
    <3> QED BY <3>3, <3>4
  <2> QED BY <1>1, <2>1, <2>2
<1>5. Registers!Invoke(abstract)
  BY <1>1, <1>3, <1>4 DEF Registers!Invoke, Underway, Asked, WholeCall
<1> QED BY <1>2, <1>5 DEF Registers!Next

\* A call returns what its own answer says, when nothing is under way any more, or fails.
LEMMA ReceiveReturns == ConnInv /\ Receive => [Registers!Next]_(Registers!regVars)
<1> SUFFICES ASSUME ConnInv, Receive PROVE [Registers!Next]_(Registers!regVars)
  OBVIOUS
<1> DEFINE all == got \cup inbox
<1>1. /\ pc = "await" /\ UNCHANGED <<kind, coil, pending, linked, tid, call, requests>>
  BY DEF Receive, lineVars
<1>2. Underway' = Underway /\ WholeCall' = WholeCall
  BY <1>1 DEF Underway, Requests, WholeCall
<1>3. ConnInv'
  BY ReceiveKeeps
<1>4. CASE UNCHANGED <<pc, result>>
  BY <1>1, <1>2, <1>4 DEF Registers!regVars, Underway, WholeCall, Asked
<1>5. ASSUME NEW m \in all, Return(ResultOf(m)) PROVE Registers!Next
  <2>1. pc' = "idle" /\ result' = ResultOf(m) /\ call.op \in Op
    BY <1>5 DEF Return, ConnInv, ConnTypeOK, Call
  <2>2. m.val \in Bit
    BY DEF ConnInv, ConnTypeOK, Message
  <2>3. CASE call.op = "health"
    <3>1. result' = "online"
      BY <2>1, <2>3 DEF ResultOf
    <3>2. Registers!Succeed
      BY <1>1, <1>2, <2>1, <2>3, <3>1 DEF Registers!Succeed, Underway, Asked, WholeCall
    <3> QED BY <3>2 DEF Registers!Next
  <2>4. CASE call.op # "health"
    <3>1. \/ call.op = "write" /\ result' = "true"
          \/ call.op = "read" /\ result' \in Bit
      BY <2>1, <2>2, <2>4 DEF ResultOf, Op
    <3>2. Requests' = {} /\ coil'[call'.coil] = IF result' = "true" THEN call'.val ELSE result'
      BY <1>3, <3>1 DEF ConnInv, ResultInv
    <3>3. Underway = {}
      BY <1>2, <3>2 DEF Underway
    <3>4. \/ call.op = "write" /\ result' = "true" /\ coil[call.coil] = call.val
          \/ call.op = "read" /\ result' = coil[call.coil]
      BY <1>1, <3>1, <3>2 DEF Bit
    <3>5. Registers!Succeed
      BY <1>1, <1>2, <2>1, <3>3, <3>4 DEF Registers!Succeed, Underway, Asked, WholeCall
    <3> QED BY <3>5 DEF Registers!Next
  <2> QED BY <2>3, <2>4
<1>6. CASE Return("ERROR")
  <2>1. pc' = "idle" /\ result' = "ERROR"
    BY <1>6 DEF Return
  <2>2. Registers!Fail
    BY <1>1, <1>2, <2>1 DEF Registers!Fail, Underway, Asked, WholeCall
  <2> QED BY <2>2 DEF Registers!Next
<1> QED BY <1>4, <1>5, <1>6 DEF Receive

\* A call that gives up, or does not begin, fails and says nothing about the registers.
LEMMA FailureClaimsNothing ==
    ConnInv /\ (GiveUp \/ Refuse \/ ConnectFails) => [Registers!Next]_(Registers!regVars)
<1> SUFFICES ASSUME ConnInv, GiveUp \/ Refuse \/ ConnectFails
             PROVE  [Registers!Next]_(Registers!regVars)
  OBVIOUS
<1>1. UNCHANGED <<coil, pending, call, requests>>
  BY DEF GiveUp, Refuse, ConnectFails, lineVars
<1>2. Underway' = Underway /\ WholeCall' = WholeCall
  BY <1>1 DEF Underway, Requests, WholeCall
<1>3. CASE GiveUp
  <2>1. pc = "await" /\ pc' = "idle" /\ result' = "ERROR"
    BY <1>3 DEF GiveUp, Return
  <2>2. Registers!Fail
    BY <1>1, <1>2, <2>1 DEF Registers!Fail, Underway, Asked, WholeCall
  <2> QED BY <2>2 DEF Registers!Next
<1>4. CASE Refuse
  <2>1. pc = "idle" /\ pc' = "idle" /\ result' = "ERROR"
    BY <1>4 DEF Refuse
  <2>2. Registers!Refuse
    BY <1>1, <1>2, <2>1 DEF Registers!Refuse, Underway, Asked, WholeCall
  <2> QED BY <2>2 DEF Registers!Next
<1>5. CASE ConnectFails
  <2>1. pc = "boot" /\ pc' = "idle" /\ result' = result
    BY <1>5 DEF ConnectFails
  <2> QED BY <1>1, <1>2, <2>1 DEF Registers!regVars, Underway, Asked, WholeCall
<1> QED BY <1>3, <1>4, <1>5

\* The PLC executes the oldest request: its write takes effect, or comes to nothing.
LEMMA ExecuteTakesEffect ==
    ASSUME ConnInv, NEW m \in pending, Execute(m)
    PROVE  [Registers!Next]_(Registers!regVars)
<1>1. /\ m \in Requests /\ \A n \in Requests : m.seq <= n.seq
      /\ UNCHANGED <<pc, call, result, requests>>
  BY DEF Execute
<1>2. PICK form \in {"reply", "exception"} :
        LET v == IF m.op = "write" THEN m.val ELSE coil[m.coil] IN
        /\ pending' = (pending \ {m}) \cup
             {[m EXCEPT !.form = form, !.val = v, !.len = ReplyLength(m.op, form)]}
        /\ coil' = IF form = "reply" /\ m.op = "write" THEN [coil EXCEPT ![m.coil] = m.val] ELSE coil
  BY DEF Execute
<1>3. m \in Message /\ \A n \in Requests : n \in Message
  BY DEF ConnInv, ConnTypeOK, Requests
<1>4. Requests' = Requests \ {m}
  BY <1>1, <1>2, <1>3 DEF Requests, Message
<1>5. WholeCall' = WholeCall
  BY <1>1 DEF WholeCall
<1>6. Underway' \subseteq Underway
  BY <1>4 DEF Underway
<1>7. CASE coil' = coil
  BY <1>1, <1>5, <1>6, <1>7 DEF Registers!Next, Registers!Lose, Underway, Asked, WholeCall
<1>8. CASE m.op = "write" /\ coil' = [coil EXCEPT ![m.coil] = m.val]
  <2>1. Asked(m) \in Underway
    BY <1>1, <1>8 DEF Underway
  <2>2. \A u \in Underway : Asked(m).number <= u.number
    BY <1>1 DEF Underway, Asked
  <2>3. \A n \in Requests : Asked(n) = Asked(m) => n = m
    BY <1>1 DEF Asked, ConnInv, ExecInv
  <2>4. Underway' = Underway \ {Asked(m)}
    BY <1>4, <2>3 DEF Underway
  <2>5. coil' = [coil EXCEPT ![Asked(m).coil] = Asked(m).val]
    BY <1>8 DEF Asked
  <2>6. Registers!TakeEffect(Asked(m))
    BY <1>1, <1>5, <2>1, <2>2, <2>4, <2>5 DEF Registers!TakeEffect, Underway, Asked, WholeCall
  <2> QED BY <2>1, <2>6 DEF Registers!Next, Underway, Asked
<1> QED BY <1>2, <1>7, <1>8

\* What happens on the line can only lose writes that are under way.
LEMMA WorldServes == ConnInv /\ World => [Registers!Next]_(Registers!regVars)
<1> SUFFICES ASSUME ConnInv, World PROVE [Registers!Next]_(Registers!regVars)
  OBVIOUS
<1>1. ASSUME UNCHANGED <<coil, pc, call, result, requests>>, Requests' \subseteq Requests
      PROVE  Registers!Next
  <2>1. Underway' \subseteq Underway /\ WholeCall' = WholeCall
    BY <1>1 DEF Underway, WholeCall
  <2> QED BY <1>1, <2>1 DEF Registers!Next, Registers!Lose, Underway, Asked, WholeCall
<1>2. CASE PeerCloses
  BY <1>1, <1>2 DEF PeerCloses, Requests
<1>3. ASSUME NEW m \in pending, Execute(m) PROVE [Registers!Next]_(Registers!regVars)
  BY <1>3, ExecuteTakesEffect
<1>4. ASSUME NEW m \in pending, Lose(m) PROVE Registers!Next
  BY <1>1, <1>4 DEF Lose, Requests
<1>5. ASSUME NEW m \in pending, Arrive(m) PROVE Registers!Next
  <2>1. m.form # "request" /\ m \in Message /\ UNCHANGED <<coil, pc, call, result, requests>>
    BY <1>5 DEF Arrive, ConnInv, ConnTypeOK
  <2>2. \A k \in Cut : [m EXCEPT !.start = FALSE, !.len = @ - k].form # "request"
    BY <2>1 DEF Message
  <2>3. Requests' \subseteq Requests
    BY <1>5, <2>1, <2>2 DEF Arrive, Requests
  <2> QED BY <1>1, <2>1, <2>3
<1> QED BY <1>2, <1>3, <1>4, <1>5 DEF World

\* Every step of a connector is a step of the registers or concerns them in nothing.
LEMMA RegistersNext ==
    ConnInv /\ [ConnNext]_connVars => [Registers!Next]_(Registers!regVars)
<1> SUFFICES ASSUME ConnInv, [ConnNext]_connVars PROVE [Registers!Next]_(Registers!regVars)
  OBVIOUS
<1>1. CASE Connect
  <2>1. Request("health", HealthCoil, "0") /\ pc # "await" /\ "health" \in Op /\ "0" \in Bit
    BY <1>1 DEF Connect, Op, Bit
  <2>2. result' = "none"
    BY <1>1 DEF Connect, ConnInv, PhaseInv
  <2> QED BY <2>1, <2>2, RequestInvokes
<1>2. ASSUME NEW op \in Op, NEW c \in Coil, NEW v \in Bit, Send(op, c, v)
      PROVE  Registers!Next
  BY <1>2, RequestInvokes DEF Send
<1>3. CASE ConnectFails \/ Refuse \/ GiveUp
  BY <1>3, FailureClaimsNothing
<1>4. CASE Receive
  BY <1>4, ReceiveReturns
<1>5. CASE World
  BY <1>5, WorldServes
<1>6. CASE UNCHANGED connVars
  <2>1. UNCHANGED <<coil, pending, pc, call, result, requests>>
    BY <1>6 DEF connVars
  <2>2. Underway' = Underway /\ WholeCall' = WholeCall
    BY <2>1 DEF Underway, Requests, WholeCall
  <2> QED BY <2>1, <2>2 DEF Registers!regVars, Underway, Asked, WholeCall
<1>7. "write" \in Op /\ "read" \in Op /\ "0" \in Bit
  BY DEF Op, Bit
<1> QED BY <1>1, <1>2, <1>3, <1>4, <1>5, <1>6, <1>7 DEF ConnNext

\* A connector gives access to the registers of its PLC as plc_connector.h promises: a
\* successful call is one step on registers that no earlier call can change any more.
THEOREM RegistersRefinement == ConnSpec => ImplementsRegisters
<1> QED BY RegistersInitial, RegistersNext, ConnInvAlways, PTL
        DEF ConnSpec, ImplementsRegisters, Registers!Safety
==============================================================================
