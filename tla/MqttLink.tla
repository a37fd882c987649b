------------------------------ MODULE MqttLink ------------------------------
(***************************************************************************)
(* src/mqtt/mqtt_service.cpp as main, the pool workers and                 *)
(* DeviceStatusReporter use it: who reconnects to the broker when the      *)
(* connection is lost, and who subscribes again.                           *)
(*                                                                         *)
(* Three kinds of threads do it: main in start(), the thread that          *)
(* connection_lost() starts, and whoever publishes, in ensureConnected().  *)
(* A session is a connection; the broker forgets the subscriptions of the  *)
(* one before.  The client library (paho) is external: reconnect() either  *)
(* brings a connection or throws, subscribe() throws when there is none,   *)
(* and connection_lost() is called some time after a loss.                 *)
(***************************************************************************)
EXTENDS Naturals

CONSTANTS Main,        \* the main thread
          Background,  \* the thread of connection_lost()
          Worker,      \* pool workers, which may publish
          Reporter,    \* DeviceStatusReporter::worker_, which never stops publishing
          Topic,       \* the topics of the commands
          MaxLosses    \* bound on how often the connection is lost or the broker goes away

ASSUME MqttAssumption ==
    /\ Main # Background
    /\ {Main, Background} \cap (Worker \cup {Reporter}) = {}
    /\ MaxLosses \in Nat

VARIABLES
    \* external
    up,           \* the broker can be reached
    connected,    \* client_.is_connected()
    subscribed,   \* the subscriptions of the session
    lost,         \* losses that connection_lost() was not called for yet
    losses,       \* how often the connection was lost or the broker went away
    \* MqttService
    reconnecting, \* reconnecting_
    pc,           \* where each thread is
    todo          \* the topics it has still to subscribe to

mqttVars == <<up, connected, subscribed, lost, losses, reconnecting, pc, todo>>
worldVars == <<up, connected, subscribed, lost, losses>>

Publisher == Worker \cup {Reporter}
Thread == {Main, Background} \cup Publisher
Label == {"start", "idle", "check", "flag", "connect", "subscribe", "failed", "clear", "send"}

MqttTypeOK ==
    /\ up \in BOOLEAN /\ connected \in BOOLEAN /\ subscribed \subseteq Topic
    /\ losses \in 0 .. MaxLosses /\ lost \in 0 .. losses
    /\ reconnecting \in BOOLEAN
    /\ pc \in [Thread -> Label] /\ todo \in [Thread -> SUBSET Topic]
    /\ \A t \in Thread : todo[t] # {} => pc[t] = "subscribe"
    \* The flag stands for a background thread that has not finished, and there is one.
    /\ reconnecting <=> pc[Background] # "idle"

MqttInit ==
    /\ up \in BOOLEAN /\ connected = FALSE /\ subscribed = {} /\ lost = 0 /\ losses = 0
    /\ reconnecting = FALSE
    /\ pc = [t \in Thread |-> IF t = Main THEN "start" ELSE "idle"]
    /\ todo = [t \in Thread |-> {}]

Goto(t, label) == pc' = [pc EXCEPT ![t] = label]

\* The catch block of t: the background thread sleeps and tries again, main calls
\* connection_lost(), publish() gives up.
Caught(t) == CASE t = Background -> "connect"
               [] t = Main       -> "failed"
               [] OTHER          -> "idle"

-----------------------------------------------------------------------------
(* Connecting and subscribing, which all three kinds of threads do.        *)

\* Mutant of Connected: publish() does not subscribe again.
ConnectedNotSubscribing(t) ==
    /\ pc[t] = "connect" /\ up
    /\ connected' = TRUE
    /\ subscribed' = IF connected THEN subscribed ELSE {}
    /\ todo' = [todo EXCEPT ![t] = IF t \in Publisher THEN {} ELSE Topic]
    /\ Goto(t, "subscribe")
    /\ UNCHANGED <<up, lost, losses, reconnecting>>

\* client_.connect()->wait() or client_.reconnect()->wait() returns.
Connected(t) ==
    /\ pc[t] = "connect" /\ up
    /\ connected' = TRUE
    /\ subscribed' = IF connected THEN subscribed ELSE {}
    /\ todo' = [todo EXCEPT ![t] = Topic]
    /\ Goto(t, "subscribe")
    /\ UNCHANGED <<up, lost, losses, reconnecting>>

\* It throws, which it may do at any time.
ConnectThrows(t) ==
    /\ pc[t] = "connect"
    /\ Goto(t, Caught(t))
    /\ UNCHANGED <<worldVars, reconnecting, todo>>

\* One of the calls of client_.subscribe().
Subscribe(t, topic) ==
    /\ pc[t] = "subscribe" /\ topic \in todo[t] /\ connected
    /\ subscribed' = subscribed \cup {topic}
    /\ todo' = [todo EXCEPT ![t] = @ \ {topic}]
    /\ UNCHANGED <<up, connected, lost, losses, reconnecting, pc>>

SubscribeThrows(t) ==
    /\ pc[t] = "subscribe" /\ todo[t] # {} /\ ~connected
    /\ todo' = [todo EXCEPT ![t] = {}]
    /\ Goto(t, Caught(t))
    /\ UNCHANGED <<worldVars, reconnecting>>

\* After the last one the background thread is about to clear its flag (line 122), main
\* is done, and publish() sends.
Subscribed(t) ==
    /\ pc[t] = "subscribe" /\ todo[t] = {}
    /\ Goto(t, CASE t = Background -> "clear"
                 [] t = Main       -> "idle"
                 [] OTHER          -> "send")
    /\ UNCHANGED <<worldVars, reconnecting, todo>>

Establish(t) ==
    \/ Connected(t) \/ ConnectThrows(t)
    \/ \E topic \in Topic : Subscribe(t, topic)
    \/ SubscribeThrows(t) \/ Subscribed(t)

-----------------------------------------------------------------------------
(* start() and connection_lost().                                          *)

\* The constructor of MqttPublisher calls start().
Start ==
    /\ pc[Main] = "start"
    /\ Goto(Main, "connect")
    /\ UNCHANGED <<worldVars, reconnecting, todo>>

\* Lines 91-133: unless the flag is set already, set it and start the thread.
StartBackground(pcs) ==
    IF reconnecting THEN pc' = pcs /\ UNCHANGED reconnecting
    ELSE /\ reconnecting' = TRUE
         /\ pc' = [pcs EXCEPT ![Background] = "connect"]

\* Line 43: main, whose first attempt has failed.
StartFailed ==
    /\ pc[Main] = "failed"
    /\ StartBackground([pc EXCEPT ![Main] = "idle"])
    /\ UNCHANGED <<worldVars, todo>>

\* The library's call after a loss.
ConnectionLost ==
    /\ lost > 0
    /\ lost' = lost - 1
    /\ StartBackground(pc)
    /\ UNCHANGED <<up, connected, subscribed, losses, todo>>

\* Lines 122-123: the background thread ends.  A connection that is lost between its last
\* subscription and this step finds the flag set.
Clear ==
    /\ pc[Background] = "clear"
    /\ reconnecting' = FALSE
    /\ Goto(Background, "idle")
    /\ UNCHANGED <<worldVars, todo>>

-----------------------------------------------------------------------------
(* publish() and ensureConnected().                                        *)

\* Workers publish answers; main starts the reporter after start() has returned.
Publish(p) ==
    /\ p \in Publisher /\ pc[p] = "idle"
    /\ pc[Main] = "idle"
    /\ Goto(p, "check")
    /\ UNCHANGED <<worldVars, reconnecting, todo>>

\* Line 165.
CheckConnected(p) ==
    /\ pc[p] = "check"
    /\ Goto(p, IF connected THEN "send" ELSE "flag")
    /\ UNCHANGED <<worldVars, reconnecting, todo>>

\* Mutant of CheckFlag: a publisher leaves it to the background thread.
LeaveIt(p) ==
    /\ pc[p] = "flag"
    /\ Goto(p, "idle")
    /\ UNCHANGED <<worldVars, reconnecting, todo>>

\* Lines 169-176: a publisher tries to reconnect itself only without a background thread.
CheckFlag(p) ==
    /\ pc[p] = "flag"
    /\ Goto(p, IF reconnecting THEN "idle" ELSE "connect")
    /\ UNCHANGED <<worldVars, reconnecting, todo>>

\* Lines 152-159: the message is sent, or an exception is logged.
SendMessage(p) ==
    /\ pc[p] = "send"
    /\ Goto(p, "idle")
    /\ UNCHANGED <<worldVars, reconnecting, todo>>

-----------------------------------------------------------------------------
(* External: the broker and the network.                                   *)

Lose ==
    /\ connected /\ losses < MaxLosses
    /\ connected' = FALSE /\ subscribed' = {}
    /\ lost' = lost + 1 /\ losses' = losses + 1
    /\ UNCHANGED <<up, reconnecting, pc, todo>>

BrokerLeaves ==
    /\ up /\ ~connected /\ losses < MaxLosses
    /\ up' = FALSE /\ losses' = losses + 1
    /\ UNCHANGED <<connected, subscribed, lost, reconnecting, pc, todo>>

BrokerReturns ==
    /\ ~up
    /\ up' = TRUE
    /\ UNCHANGED <<connected, subscribed, lost, losses, reconnecting, pc, todo>>

-----------------------------------------------------------------------------
Step(p) == CheckConnected(p) \/ CheckFlag(p) \/ SendMessage(p) \/ Establish(p)

MqttNext ==
    \/ Start \/ StartFailed \/ Establish(Main)
    \/ Clear \/ Establish(Background)
    \/ ConnectionLost
    \/ \E p \in Publisher : Publish(p) \/ Step(p)
    \/ Lose \/ BrokerLeaves \/ BrokerReturns

(* Threads run, the library reports a loss, the reporter publishes every 15 s, and a broker
   that stays within reach accepts a connection in the end. *)
MqttFairness ==
    /\ WF_mqttVars(Start \/ StartFailed \/ Establish(Main))
    /\ WF_mqttVars(Clear \/ Establish(Background))
    /\ WF_mqttVars(ConnectionLost)
    /\ \A p \in Worker : WF_mqttVars(Step(p))
    /\ WF_mqttVars(Publish(Reporter) \/ Step(Reporter))
    /\ \A t \in Thread : SF_mqttVars(Connected(t))

MqttSpec == MqttInit /\ [][MqttNext]_mqttVars /\ MqttFairness

-----------------------------------------------------------------------------
(* Properties.                                                             *)

\* What a session is not subscribed to yet, somebody is about to subscribe to: whoever
\* reconnects, no connection is left that commands do not arrive on (lines 112-120, 179-186).
NoDeafSession ==
    connected => \A topic \in Topic \ subscribed : \E t \in Thread : topic \in todo[t]

\* When the broker stays within reach the service ends up connected and subscribed, also
\* when a loss falls between the last subscription of the background thread and the reset
\* of its flag, where connection_lost() starts nothing.
ConnectedAgain == []<>~up \/ <>[](connected /\ subscribed = Topic)
=============================================================================
