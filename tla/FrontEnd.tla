------------------------------ MODULE FrontEnd ------------------------------
(***************************************************************************)
(* How commands come in: main.cpp starts the services one after the other, *)
(* WebService answers one HTTP request per connection, each in a thread of *)
(* its own, MqttCommandDispatcher takes the commands that arrive by MQTT,  *)
(* and a task finds its publisher when a worker starts it.                 *)
(*                                                                         *)
(* A request has a route, for the path, and a body: "complete", "missing"  *)
(* (an object without the fields of the route, such as "{}"), "wrongType"  *)
(* (a field of another type, or no object), "notJson", or "notUtf8" (no    *)
(* JSON, and the parser's message repeats bytes that are no text).  It     *)
(* arrives in pieces.  Clients may leave, or stay without taking what they *)
(* are sent, as one whose host has vanished does: no recv() and no send()  *)
(* has a time-out.  TCP and files are external.                            *)
(***************************************************************************)
EXTENDS FiniteSets, HttpPublisher

CONSTANTS Client,       \* each opens one connection
          Route, Body,  \* what clients ask for
          Order,        \* the routes and bodies of MQTT messages
          MaxMessages,  \* bound on the MQTT messages
          Chunk,        \* the buffer of handleStaticFile, in units of a file's size
          MaxSize       \* bound on the size of the file, in these units

Bodies == {"complete", "missing", "wrongType", "notJson", "notUtf8"}
NeedsFields == {"getRealImage", "operate", "download"}
Routes == NeedsFields \cup {"carControl", "getAll", "file", "other"}
Topics == {"getRealImage", "operate", "verify", "config", "carControl", "getAll", "unknown"}

ASSUME FrontEndAssumption ==
    /\ Route \subseteq Routes /\ Body \subseteq Bodies
    /\ Order \subseteq [route : Topics, body : Bodies]
    /\ "mqtt" \notin Client
    /\ {MaxMessages, Chunk, MaxSize} \subseteq Nat \ {0}

VARIABLES
    \* main
    boot,        \* what it has started last
    alive,       \* the process has not ended
    \* WebService
    accepting,   \* run() is in its loop
    conn,        \* where the thread of a connection is
    got,         \* what the first recv() returned
    seen,        \* the path and the body, as they were read
    resp,        \* respJson, or what was said of a file
    \* external
    request,     \* [route, body, length]: length says if there is a "Content-Length:"
    arrived,     \* how much of it
    present,     \* the client is there, as far as TCP knows
    reading,     \* and takes what it is sent
    size, exists, \* the file: a segment that grows while it is written, and is removed some day
    sent,        \* how much of it each client was sent
    \* JobScheduler
    tasks,       \* what was submitted
    started,     \* the tasks a worker has started
    wild,        \* those for which there was no publisher yet
    posted,      \* the last text HttpPublisher has sent
    \* what happened
    messages,
    mistyped     \* an MQTT message had a field of another type

clientVars == <<request, arrived, present, reading>>
diskVars == <<size, exists>>
connectionVars == <<conn, got, seen, resp, sent>>
taskVars == <<tasks, started, wild, posted>>
frontVars == <<boot, alive, accepting, connectionVars, clientVars, diskVars, taskVars,
               messages, mistyped>>

\* Mutant of Boots: the web service starts before the publishers are set.
BootsWebFirst == <<"scheduler", "mqtt", "web", "mqttPublisher", "httpPublisher", "up">>

\* main.cpp, lines 26-48.  The constructor of MqttPublisher (line 30) starts MQTT.
Boots == <<"scheduler", "mqtt", "mqttPublisher", "httpPublisher", "web", "up">>
Booted(step) == \E k, l \in 1 .. 6 : k <= l /\ Boots[k] = step /\ Boots[l] = boot

\* "line": the request is cut within the path; "headers": the path is complete, the blank
\* line is not there yet; "body": the body is not complete.
Piece == <<"nothing", "line", "headers", "body", "all">>
States == {"away", "backlog", "recv", "rest", "handle", "open", "header", "content",
           "notFound", "reply", "closed"}
Replies == {"none", "invalid_json", "error", "accepted", "task", "path", "file"}

Says(kind) == [kind |-> kind, length |-> 0]

FrontTypeOK ==
    /\ \E k \in 1 .. 6 : boot = Boots[k]
    /\ alive \in BOOLEAN /\ accepting \in BOOLEAN /\ mistyped \in BOOLEAN
    /\ conn \in [Client -> States] /\ {present, reading} \subseteq [Client -> BOOLEAN]
    /\ {arrived, got} \subseteq [Client -> {Piece[k] : k \in 1 .. 5}]
    /\ request \in [Client -> [route : Routes, body : Bodies, length : BOOLEAN]]
    /\ seen \in [Client -> [route : Routes, body : Bodies]]
    /\ resp \in [Client -> [kind : Replies, length : 0 .. MaxSize]]
    /\ sent \in [Client -> 0 .. MaxSize] /\ size \in 0 .. MaxSize /\ exists \in BOOLEAN
    /\ started \subseteq tasks /\ wild \subseteq started /\ messages \in 0 .. MaxMessages

FrontInit ==
    /\ boot = "scheduler" /\ alive = TRUE /\ accepting = FALSE
    /\ conn = [c \in Client |-> "away"]
    /\ request = [c \in Client |-> [route |-> "other", body |-> "missing", length |-> FALSE]]
    /\ seen = [c \in Client |-> [route |-> "other", body |-> "missing"]]
    /\ arrived = [c \in Client |-> "nothing"] /\ got = [c \in Client |-> "nothing"]
    /\ present = [c \in Client |-> TRUE] /\ reading = [c \in Client |-> TRUE]
    /\ resp = [c \in Client |-> Says("none")] /\ sent = [c \in Client |-> 0]
    /\ size \in 1 .. MaxSize /\ exists = TRUE
    /\ tasks = {} /\ started = {} /\ wild = {} /\ messages = 0 /\ mistyped = FALSE
    /\ posted = <<>>

Turn(c, state) == conn' = [conn EXCEPT ![c] = state]

-----------------------------------------------------------------------------
(* main.                                                                   *)

\* start() of the web service may fail to bind; main goes on.
Boot ==
    /\ boot # "up"
    /\ \E k \in 1 .. 5 : boot = Boots[k] /\ boot' = Boots[k + 1]
    /\ accepting' \in IF boot' = "web" THEN BOOLEAN ELSE {accepting}
    /\ UNCHANGED <<alive, connectionVars, clientVars, diskVars, taskVars, messages, mistyped>>

-----------------------------------------------------------------------------
(* External: clients and the file.                                         *)

\* Once there is a socket a client can connect, whether or not somebody accepts.
ClientConnects(c, r) ==
    /\ conn[c] = "away" /\ Booted("web")
    /\ request' = [request EXCEPT ![c] = r]
    /\ Turn(c, "backlog")
    /\ UNCHANGED <<boot, alive, accepting, got, seen, resp, sent, arrived, present, reading,
                   diskVars, taskVars, messages, mistyped>>

ClientSends(c) ==
    /\ conn[c] \notin {"away", "closed"} /\ present[c] /\ reading[c]
    /\ \E k, l \in 1 .. 5 :
        /\ k < l /\ arrived[c] = Piece[k]
        /\ arrived' = [arrived EXCEPT ![c] = Piece[l]]
    /\ UNCHANGED <<boot, alive, accepting, connectionVars, request, present, reading, diskVars,
                   taskVars, messages, mistyped>>

ClientLeaves(c) ==
    /\ conn[c] \notin {"away", "closed"} /\ present[c]
    /\ present' = [present EXCEPT ![c] = FALSE]
    /\ UNCHANGED <<boot, alive, accepting, connectionVars, request, arrived, reading, diskVars,
                   taskVars, messages, mistyped>>

\* It stops reading, or its host vanishes and no FIN is ever sent.
ClientStops(c) ==
    /\ conn[c] \notin {"away", "closed"} /\ present[c] /\ reading[c]
    /\ reading' = [reading EXCEPT ![c] = FALSE]
    /\ UNCHANGED <<boot, alive, accepting, connectionVars, request, arrived, present, diskVars,
                   taskVars, messages, mistyped>>

\* The recording thread appends to the segment; the cleaner removes it.
FileChanges ==
    /\ \/ exists /\ size < MaxSize /\ size' = size + 1 /\ UNCHANGED exists
       \/ exists /\ exists' = FALSE /\ UNCHANGED size
    /\ UNCHANGED <<boot, alive, accepting, connectionVars, clientVars, taskVars, messages,
                   mistyped>>

-----------------------------------------------------------------------------
(* WebService::run.                                                        *)

Accept(c) ==
    /\ accepting /\ conn[c] = "backlog"
    /\ Turn(c, "recv")
    /\ UNCHANGED <<boot, alive, accepting, got, seen, resp, sent, clientVars, diskVars,
                   taskVars, messages, mistyped>>

\* accept() fails, for want of descriptors or because the client has gone: the loop ends,
\* and nothing starts it again.
AcceptFails ==
    /\ accepting /\ \E c \in Client : conn[c] = "backlog"
    /\ accepting' = FALSE
    /\ UNCHANGED <<boot, alive, connectionVars, clientVars, diskVars, taskVars, messages,
                   mistyped>>

-----------------------------------------------------------------------------
(* WebService::handleClient, a JSON request.                               *)

\* The path of a request line that is cut is a shorter one.
Paths(r, piece) ==
    IF piece # "line" THEN {r.route} ELSE {"other"} \cup ({r.route} \cap {"file"})

\* What has arrived of a body that is cut: nothing, which counts as {}, or a part, which
\* may end within a character.
CutBodies == {"missing", "notJson", "notUtf8"}

\* Mutant of BodiesRead: the body is what came with the headers.
BodiesReadAtOnce(r, piece, rest) ==
    CASE piece \in {"line", "headers"} -> {"missing"}
      [] piece = "body"                -> CutBodies
      [] OTHER                         -> {r.body}

\* Lines 135-155: nothing if the first piece ended before the blank line; else what
\* Content-Length says, as far as it arrives.
BodiesRead(r, piece, rest) ==
    IF piece \in {"line", "headers"} THEN {"missing"}
    ELSE IF piece = "all" \/ (r.length /\ rest = "all") THEN {r.body}
    ELSE CutBodies

\* The first recv().
ReceiveFirst(c) ==
    /\ conn[c] = "recv"
    /\ \/ /\ arrived[c] = "nothing" /\ ~present[c]
          /\ Turn(c, "closed")
          /\ UNCHANGED <<got, seen>>
       \/ /\ arrived[c] # "nothing"
          /\ got' = [got EXCEPT ![c] = arrived[c]]
          /\ \E path \in Paths(request[c], arrived[c]) :
                /\ seen' = [seen EXCEPT ![c].route = path]
                /\ Turn(c, IF path = "file" THEN "open" ELSE "rest")
    /\ UNCHANGED <<boot, alive, accepting, resp, sent, clientVars, diskVars, taskVars,
                   messages, mistyped>>

Waits(c) == /\ got[c] = "body" /\ request[c].length
            /\ present[c] /\ arrived[c] # "all"

\* Mutant of ReceiveRest: recv() is tried again when the client has left.
ReceiveUntilAll(c) ==
    /\ conn[c] = "rest" /\ (got[c] = "body" /\ request[c].length => arrived[c] = "all")
    /\ \E body \in BodiesRead(request[c], got[c], arrived[c]) :
          seen' = [seen EXCEPT ![c].body = body]
    /\ Turn(c, "handle")
    /\ UNCHANGED <<boot, alive, accepting, got, resp, sent, clientVars, diskVars, taskVars,
                   messages, mistyped>>

\* The rest of the body, until it is complete or the client has left.
ReceiveRest(c) ==
    /\ conn[c] = "rest" /\ ~Waits(c)
    /\ \E body \in BodiesRead(request[c], got[c], arrived[c]) :
          seen' = [seen EXCEPT ![c].body = body]
    /\ Turn(c, "handle")
    /\ UNCHANGED <<boot, alive, accepting, got, resp, sent, clientVars, diskVars, taskVars,
                   messages, mistyped>>

\* handleHttp: what may be answered.  The search for a video throws when the cleaner removes
\* the directory meanwhile.  The task of a car command reads no field but the name of the car.
Answers(path, body) ==
    IF body \in {"notJson", "notUtf8"} THEN {"invalid_json"}
    ELSE CASE path = "other"      -> {"accepted"}
           [] path = "getAll"     -> {"task"}
           [] path = "carControl" -> IF body = "wrongType" THEN {"invalid_json", "task"}
                                     ELSE {"task"}
           [] path \in NeedsFields ->
                IF body = "wrongType" THEN {"invalid_json"}
                ELSE IF body = "missing" THEN {"error"}
                ELSE IF path = "download" THEN {"path", "error", "invalid_json"} ELSE {"task"}

Submit(source, kind, body, from) ==
    tasks' = tasks \cup {[source |-> source, kind |-> kind, body |-> body, from |-> from,
                          early |-> ~Booted("mqttPublisher"), id |-> Cardinality(tasks) + 1]}

\* Lines 157-166.
handleHttp(c) ==
    /\ conn[c] = "handle"
    /\ \E kind \in Answers(seen[c].route, seen[c].body) :
        /\ resp' = [resp EXCEPT ![c] = Says(kind)]
        /\ IF kind = "task" THEN Submit("http", seen[c].route, seen[c].body, c)
           ELSE UNCHANGED tasks
    /\ Turn(c, "reply")
    /\ UNCHANGED <<boot, alive, accepting, got, seen, sent, clientVars, diskVars, started,
                   wild, posted, messages, mistyped>>

\* send() to a client that has left fails sooner or later, and so it may to one that does not
\* take what it is sent; to that one it may also wait for ever once TCP's buffers are full
\* (WebService.cpp:178, WebController.cpp:222 and 236 and the answer "404 Not Found").
SendMayFail(c) == ~present[c] \/ ~reading[c]
SendMayWait(c) == /\ conn[c] \in {"reply", "header", "content", "notFound"}
                  /\ present[c] /\ ~reading[c]

\* Lines 168-180.  dump() is outside the try block: it throws when the parser's message is
\* no text.
Reply(c) ==
    /\ conn[c] = "reply"
    /\ Turn(c, "closed")
    /\ alive' = ~(seen[c].body = "notUtf8" /\ resp[c].kind = "invalid_json")
    /\ UNCHANGED <<boot, accepting, got, seen, resp, sent, clientVars, diskVars, taskVars,
                   messages, mistyped>>

-----------------------------------------------------------------------------
(* WebController::handleStaticFile.                                        *)

\* stat(); a name that is cut is the name of nothing.
StatFile(c) ==
    /\ conn[c] = "open"
    /\ IF exists /\ got[c] # "line"
       THEN resp' = [resp EXCEPT ![c] = [kind |-> "file", length |-> size]] /\ Turn(c, "header")
       ELSE Turn(c, "notFound") /\ UNCHANGED resp
    /\ UNCHANGED <<boot, alive, accepting, got, seen, sent, clientVars, diskVars, taskVars,
                   messages, mistyped>>

\* Opening it and sending the headers.
SendHeader(c) ==
    /\ conn[c] = "header"
    /\ \/ exists /\ Turn(c, "content") /\ UNCHANGED resp
       \/ /\ ~exists \/ SendMayFail(c)
          /\ Turn(c, "notFound") /\ resp' = [resp EXCEPT ![c] = Says("none")]
    /\ UNCHANGED <<boot, alive, accepting, got, seen, sent, clientVars, diskVars, taskVars,
                   messages, mistyped>>

\* Mutant of LastRead: a read of less than a buffer is not sent.
LastReadDropped(left) == [bytes |-> IF left < Chunk THEN 0 ELSE Chunk, more |-> left >= Chunk]

\* A read: as much as there is, and nothing after a read that met the end.
LastRead(left) == [bytes |-> IF left < Chunk THEN left ELSE Chunk, more |-> left >= Chunk]

\* The loop of lines 234-241.
SendContent(c) ==
    /\ conn[c] = "content"
    /\ LET read == LastRead(size - sent[c]) IN
        \/ /\ sent' = [sent EXCEPT ![c] = @ + read.bytes]
           /\ Turn(c, IF read.more THEN "content" ELSE "closed")
        \/ SendMayFail(c) /\ Turn(c, "notFound") /\ UNCHANGED sent
    /\ UNCHANGED <<boot, alive, accepting, got, seen, resp, clientVars, diskVars, taskVars,
                   messages, mistyped>>

\* "404 Not Found", also after a part of the file when sending failed.
ReplyNotFound(c) ==
    /\ conn[c] = "notFound"
    /\ Turn(c, "closed")
    /\ UNCHANGED <<boot, alive, accepting, got, seen, resp, sent, clientVars, diskVars,
                   taskVars, messages, mistyped>>

-----------------------------------------------------------------------------
(* MqttCommandDispatcher::onMessage, in the client library's thread.       *)

\* What may become of a message.  Where a handler needs fields what is no object is dropped;
\* a field of another type throws, and nothing catches that in the library's thread.
Dispatch(m) ==
    IF m.body \in {"notJson", "notUtf8"} \/ m.route = "unknown" THEN {"dropped"}
    ELSE IF m.route = "getAll" THEN {"task"}
    ELSE CASE m.body = "wrongType" -> {"dropped", "throws"}
           [] m.body = "missing"   -> {"dropped"}
           [] m.body = "complete"  -> {"task"}

\* The handlers submit one task each; handleOperateCar interrupts the car before
\* (module CarCommands).
onMessage(m) ==
    /\ Booted("mqtt") /\ messages < MaxMessages
    /\ messages' = messages + 1
    /\ mistyped' = (mistyped \/ m.body = "wrongType")
    /\ \E what \in Dispatch(m) :
        /\ IF what = "task" THEN Submit("mqtt", m.route, m.body, "mqtt") ELSE UNCHANGED tasks
        /\ alive' = (what # "throws")
    /\ UNCHANGED <<boot, accepting, connectionVars, clientVars, diskVars, started, wild, posted>>

-----------------------------------------------------------------------------
(* JobScheduler: lines 93-94, in a worker.                                 *)

PublisherOf(source) == IF source = "http" THEN "httpPublisher" ELSE "mqttPublisher"

\* The pointer has no value until main has set it.  Each task publishes at once.
StartTask(t) ==
    /\ t \in tasks \ started
    /\ started' = started \cup {t}
    /\ IF Booted(PublisherOf(t.source)) THEN UNCHANGED <<wild, alive>>
       ELSE wild' = wild \cup {t} /\ alive' \in BOOLEAN
    /\ posted' = IF t.source = "http" THEN publish(Word, Dumped) ELSE posted
    /\ UNCHANGED <<boot, accepting, connectionVars, clientVars, diskVars, tasks, messages,
                   mistyped>>

-----------------------------------------------------------------------------
Serve(c) ==
    \/ ReceiveFirst(c) \/ ReceiveRest(c) \/ handleHttp(c) \/ Reply(c)
    \/ StatFile(c) \/ SendHeader(c) \/ SendContent(c) \/ ReplyNotFound(c)

Requests == [route : Route, body : Body, length : BOOLEAN]

FrontNext ==
    /\ alive
    /\ \/ Boot \/ AcceptFails \/ FileChanges
       \/ \E c \in Client :
            \/ Accept(c) \/ Serve(c)
            \/ \E r \in Requests : ClientConnects(c, r)
            \/ ClientSends(c) \/ ClientLeaves(c) \/ ClientStops(c)
       \/ \E m \in Order : onMessage(m)
       \/ \E t \in tasks : StartTask(t)

(* The threads of connections run.  Nothing is assumed of clients, nor of a send() that *)
(* may have to wait for one.                                                            *)
FrontFairness == \A c \in Client : WF_frontVars(alive /\ ~SendMayWait(c) /\ Serve(c))

FrontSpec == FrontInit /\ [][FrontNext]_frontVars /\ FrontFairness

-----------------------------------------------------------------------------
(* Properties.                                                             *)

\* What a client that waits for the answer is told (handleClient, handleHttp) is what its
\* request deserves, however the request was cut into pieces: only one whose first piece
\* ends before the blank line, or that has no Content-Length and whose body comes later,
\* may be taken for another.  And it is told that a task was submitted if and only if one
\* was, for the path and with the body that were read, and once.
RequestUnderstood ==
    \A c \in Client :
        LET own == {t \in tasks : t.from = c} IN
        /\ conn[c] = "closed" /\ present[c] /\ request[c].route # "file" =>
              \/ resp[c].kind \in Answers(request[c].route, request[c].body)
              \/ got[c] \in {"line", "headers"}
              \/ got[c] = "body" /\ ~request[c].length
        /\ conn[c] \in {"reply", "closed"} /\ resp[c].kind = "task" =>
              /\ Cardinality(own) = 1
              /\ \A t \in own : /\ t.kind = request[c].route
                                 /\ t.body \in {request[c].body, "missing"}
        /\ resp[c].kind # "task" => own = {}

\* A client that stays and reads gets at least as much of a file as its headers announce, also when
\* the file grows or is removed while it is sent (lines 198-241 of WebController.cpp).
FileServedWhole ==
    \A c \in Client : conn[c] = "closed" /\ present[c] /\ reading[c] /\ resp[c].kind = "file" =>
                          sent[c] >= resp[c].length

\* A task finds the publisher of its source, except for one that came by MQTT and was
\* started before main had set it (main.cpp:30-33); and the process is ended by commands
\* for three reasons only: such a task, an MQTT message with a field of another type, and
\* an HTTP body that is no text.  What a task does once it runs is in other modules
\* (SupersededThrows of JobScheduler).
CommandsDoNotEndIt ==
    /\ \A t \in wild : t.source = "mqtt" /\ t.early
    /\ ~alive => wild # {} \/ mistyped \/ \E c \in Client : seen[c].body = "notUtf8"

\* task_result_publisher.h:39 "send as JSON" (and line 49, "application/json"): what
\* HttpPublisher posts is JSON.
SentAsJson == posted # <<>> => IsJson(posted)

\* A connection that was accepted is closed once its request is complete or its client has
\* left (handleClient closes on each of its paths), unless the process ends or the client
\* stays without reading: that holds the thread for ever, as a request that never becomes
\* complete does, since there is no time-out.  It does no longer than until the client leaves.
ConnectionsEnd ==
    \A c \in Client :
        (conn[c] \notin {"away", "backlog"} /\ (~present[c] \/ arrived[c] = "all"))
            ~> (conn[c] = "closed" \/ ~alive \/ (present[c] /\ ~reading[c]))
=============================================================================
