---------------------------- MODULE Services_proofs ----------------------------
(***************************************************************************)
(* Theorems about the services of MCServices, which share no state: the    *)
(* MQTT link, for any number of publishers, topics and losses; updates of  *)
(* the configuration, for any texts and any number of updates; the         *)
(* validation of these texts, for any number of items; the log,            *)
(* for any length of a day and any number of days; and the way commands    *)
(* come in, for any number of clients, messages and tasks.                 *)
(***************************************************************************)
EXTENDS MqttLink, ConfigDocuments, Logger, FrontEnd, FiniteSetTheorems, WellFoundedInduction, TLAPS

-----------------------------------------------------------------------------
(* The MQTT link.  Only Connected begins a session without subscriptions,  *)
(* and its thread then owes every topic; it gives a topic up only by       *)
(* subscribing to it, or all of them when the session is gone.             *)

USE MqttAssumption DEF MqttAssumption

LinkInv == MqttTypeOK /\ NoDeafSession

\* Nobody is connected at the start, and no background thread runs.
LEMMA LinkInvInit == MqttInit => LinkInv
<1> SUFFICES ASSUME MqttInit
             PROVE  MqttTypeOK /\ NoDeafSession
  BY DEF LinkInv
<1>1. Background \in Thread /\ Background # Main
  BY DEF Thread
<1>2. pc \in [Thread -> Label] /\ pc[Background] = "idle"
  BY <1>1 DEF MqttInit, Label
<1>3. todo \in [Thread -> SUBSET Topic] /\ \A t \in Thread : todo[t] = {}
  BY DEF MqttInit
<1>4. losses \in 0 .. MaxLosses /\ lost \in 0 .. losses
  BY DEF MqttInit
<1>5. up \in BOOLEAN /\ ~connected /\ connected \in BOOLEAN /\ subscribed = {}
      /\ ~reconnecting /\ reconnecting \in BOOLEAN
  BY DEF MqttInit
<1> QED BY <1>2, <1>3, <1>4, <1>5 DEF MqttTypeOK, NoDeafSession

-----------------------------------------------------------------------------
(* Who reconnects.                                                         *)

\* Whichever thread has brought the connection owes all topics.
LEMMA ConnectedKeeps ==
    ASSUME LinkInv, NEW t \in Thread, Connected(t)
    PROVE  LinkInv'
<1>1. pc' \in [Thread -> Label] /\ todo' \in [Thread -> SUBSET Topic]
  BY DEF Connected, Goto, Label, LinkInv, MqttTypeOK
<1>2. todo'[t] = Topic /\ pc'[t] = "subscribe"
  BY DEF Connected, Goto, LinkInv, MqttTypeOK
<1>3. \A s \in Thread : todo'[s] # {} => pc'[s] = "subscribe"
  BY DEF Connected, Goto, LinkInv, MqttTypeOK
<1>4. reconnecting' <=> pc'[Background] # "idle"
  BY DEF Connected, Goto, LinkInv, MqttTypeOK, Thread
<1>5. MqttTypeOK'
  BY <1>1, <1>3, <1>4 DEF Connected, LinkInv, MqttTypeOK
<1> QED BY <1>2, <1>5 DEF LinkInv, NoDeafSession

\* A topic that is no longer owed is subscribed to.
LEMMA SubscribeKeeps ==
    ASSUME LinkInv, NEW t \in Thread, NEW topic \in Topic, Subscribe(t, topic)
    PROVE  LinkInv'
<1>1. todo' \in [Thread -> SUBSET Topic] /\ \A s \in Thread : todo'[s] \subseteq todo[s]
  BY DEF Subscribe, LinkInv, MqttTypeOK
<1>2. \A s \in Thread : \A x \in todo[s] : x = topic \/ x \in todo'[s]
  BY DEF Subscribe, LinkInv, MqttTypeOK
<1>3. MqttTypeOK'
  BY <1>1 DEF Subscribe, LinkInv, MqttTypeOK
<1>4. NoDeafSession'
  BY <1>2 DEF Subscribe, LinkInv, NoDeafSession
<1> QED BY <1>3, <1>4 DEF LinkInv

\* A thread gives up what it owes only when there is no session.
LEMMA SubscribeThrowsKeeps ==
    ASSUME LinkInv, NEW t \in Thread, SubscribeThrows(t)
    PROVE  LinkInv'
<1>1. todo' \in [Thread -> SUBSET Topic] /\ \A s \in Thread : s = t \/ todo'[s] = todo[s]
  BY DEF SubscribeThrows, LinkInv, MqttTypeOK
<1>2. pc' \in [Thread -> Label] /\ \A s \in Thread : s = t \/ pc'[s] = pc[s]
  BY DEF SubscribeThrows, Goto, Caught, Label, LinkInv, MqttTypeOK
<1>3. todo'[t] = {}
  BY DEF SubscribeThrows, LinkInv, MqttTypeOK
<1>4. reconnecting' <=> pc'[Background] # "idle"
  BY DEF SubscribeThrows, Goto, Caught, LinkInv, MqttTypeOK, Thread
<1>5. MqttTypeOK'
  BY <1>1, <1>2, <1>3, <1>4 DEF SubscribeThrows, worldVars, LinkInv, MqttTypeOK
<1>6. ~connected'
  BY DEF SubscribeThrows, worldVars
<1> QED BY <1>5, <1>6 DEF LinkInv, NoDeafSession

-----------------------------------------------------------------------------
(* The steps that leave the session and what is owed to it alone.          *)

\* A thread that owes nothing may go where it likes, the background thread as its flag says.
LEMMA MoveKeeps ==
    ASSUME LinkInv, UNCHANGED <<worldVars, todo>>,
           reconnecting' \in BOOLEAN, pc' \in [Thread -> Label],
           \A s \in Thread : pc'[s] = pc[s] \/ todo[s] = {},
           reconnecting' <=> pc'[Background] # "idle"
    PROVE  LinkInv'
<1>1. MqttTypeOK'
  BY DEF worldVars, LinkInv, MqttTypeOK
<1> QED BY <1>1 DEF worldVars, LinkInv, NoDeafSession

\* The steps of one thread that change neither the flag nor the session.
LEMMA GotoKeeps ==
    ASSUME LinkInv, NEW t \in Thread, NEW l \in Label, Goto(t, l),
           UNCHANGED <<worldVars, reconnecting, todo>>,
           todo[t] = {}, t = Background => pc[t] # "idle" /\ l # "idle"
    PROVE  LinkInv'
<1>1. pc' \in [Thread -> Label] /\ \A s \in Thread : pc'[s] = IF s = t THEN l ELSE pc[s]
  BY DEF Goto, LinkInv, MqttTypeOK
<1>2. reconnecting' <=> pc'[Background] # "idle"
  BY <1>1 DEF LinkInv, MqttTypeOK, Thread
<1> QED BY <1>1, <1>2, MoveKeeps DEF LinkInv, MqttTypeOK

\* connection_lost() starts a background thread only when there is none.
LEMMA StartBackgroundKeeps ==
    ASSUME LinkInv, NEW pcs \in [Thread -> Label], StartBackground(pcs),
           \A s \in Thread : pcs[s] = pc[s] \/ todo[s] = {},
           pcs[Background] = pc[Background]
    PROVE  /\ reconnecting' \in BOOLEAN /\ pc' \in [Thread -> Label]
           /\ \A s \in Thread : pc'[s] = pc[s] \/ todo[s] = {}
           /\ reconnecting' <=> pc'[Background] # "idle"
<1>1. CASE reconnecting
  BY <1>1 DEF StartBackground, LinkInv, MqttTypeOK
<1>2. CASE ~reconnecting
  <2>1. Background \in Thread /\ todo[Background] = {}
    BY <1>2 DEF LinkInv, MqttTypeOK, Thread
  <2> QED BY <1>2, <2>1 DEF StartBackground, Label
<1> QED BY <1>1, <1>2

-----------------------------------------------------------------------------
(* Every step.                                                             *)

\* A thread's attempt to bring a connection and subscribe.
LEMMA EstablishKeeps ==
    ASSUME LinkInv, NEW t \in Thread, Establish(t)
    PROVE  LinkInv'
<1>1. CASE Connected(t)
  BY <1>1, ConnectedKeeps
<1>2. CASE ConnectThrows(t)
  <2>1. Caught(t) \in Label /\ (t = Background => Caught(t) # "idle")
    BY DEF Caught, Label
  <2>2. todo[t] = {} /\ pc[t] # "idle"
    BY <1>2 DEF ConnectThrows, LinkInv, MqttTypeOK
  <2> QED BY <1>2, <2>1, <2>2, GotoKeeps DEF ConnectThrows
<1>3. CASE \E topic \in Topic : Subscribe(t, topic)
  BY <1>3, SubscribeKeeps
<1>4. CASE SubscribeThrows(t)
  BY <1>4, SubscribeThrowsKeeps
<1>5. CASE Subscribed(t)
  <2> DEFINE l == CASE t = Background -> "clear"
                    [] t = Main       -> "idle"
                    [] OTHER          -> "send"
  <2>1. l \in Label /\ (t = Background => l # "idle")
    BY DEF Label
  <2>2. todo[t] = {} /\ pc[t] # "idle"
    BY <1>5 DEF Subscribed
  <2>3. Goto(t, l) /\ UNCHANGED <<worldVars, reconnecting, todo>>
    BY <1>5 DEF Subscribed
  <2> HIDE DEF l
  <2> QED BY <2>1, <2>2, <2>3, GotoKeeps
<1> QED BY <1>1, <1>2, <1>3, <1>4, <1>5 DEF Establish

\* start(), connection_lost() and the end of the background thread.
LEMMA ServiceKeeps ==
    ASSUME LinkInv, Start \/ StartFailed \/ ConnectionLost \/ Clear
    PROVE  LinkInv'
<1>1. Main \in Thread /\ Background \in Thread
  BY DEF Thread
<1>2. CASE Start
  <2>1. todo[Main] = {}
    BY <1>1, <1>2 DEF Start, LinkInv, MqttTypeOK
  <2> QED BY <1>1, <1>2, <2>1, GotoKeeps DEF Start, Label
<1>3. CASE StartFailed
  <2> DEFINE pcs == [pc EXCEPT ![Main] = "idle"]
  <2>1. /\ pcs \in [Thread -> Label] /\ pcs[Background] = pc[Background]
        /\ \A s \in Thread : pcs[s] = pc[s] \/ todo[s] = {}
    BY <1>1, <1>3 DEF StartFailed, LinkInv, MqttTypeOK, Label
  <2>2. StartBackground(pcs)
    BY <1>3 DEF StartFailed
  <2> HIDE DEF pcs
  <2>3. /\ reconnecting' \in BOOLEAN /\ pc' \in [Thread -> Label]
        /\ \A s \in Thread : pc'[s] = pc[s] \/ todo[s] = {}
        /\ reconnecting' <=> pc'[Background] # "idle"
    BY <2>1, <2>2, StartBackgroundKeeps
  <2> QED BY <1>3, <2>3, MoveKeeps DEF StartFailed
<1>4. CASE ConnectionLost
  <2>1. /\ reconnecting' \in BOOLEAN /\ pc' \in [Thread -> Label]
        /\ \A s \in Thread : pc'[s] = pc[s] \/ todo[s] = {}
        /\ reconnecting' <=> pc'[Background] # "idle"
    <3>1. pc \in [Thread -> Label] /\ StartBackground(pc)
      BY <1>4 DEF ConnectionLost, LinkInv, MqttTypeOK
    <3> QED BY <3>1, StartBackgroundKeeps
  <2>2. MqttTypeOK'
    BY <1>4, <2>1 DEF ConnectionLost, LinkInv, MqttTypeOK
  <2>3. NoDeafSession'
    BY <1>4 DEF ConnectionLost, LinkInv, NoDeafSession
  <2> QED BY <2>2, <2>3 DEF LinkInv
<1>5. CASE Clear
  <2>1. /\ todo[Background] = {} /\ pc' \in [Thread -> Label]
        /\ pc'[Background] = "idle" /\ ~reconnecting'
        /\ \A s \in Thread : s = Background \/ pc'[s] = pc[s]
    BY <1>1, <1>5 DEF Clear, Goto, Label, LinkInv, MqttTypeOK
  <2>2. reconnecting' \in BOOLEAN /\ UNCHANGED <<worldVars, todo>>
    BY <1>5 DEF Clear
  <2> QED BY <2>1, <2>2, MoveKeeps
<1> QED BY <1>2, <1>3, <1>4, <1>5

\* publish() up to the attempt to reconnect, and after it.
LEMMA PublishKeeps ==
    ASSUME LinkInv, NEW p \in Publisher,
           Publish(p) \/ CheckConnected(p) \/ CheckFlag(p) \/ SendMessage(p)
    PROVE  LinkInv'
<1>1. p \in Thread /\ p # Background
  BY DEF Thread, Publisher
<1>2. \E l \in {"check", "send", "flag", "idle", "connect"} : Goto(p, l)
  BY DEF Publish, CheckConnected, CheckFlag, SendMessage
<1>3. todo[p] = {} /\ UNCHANGED <<worldVars, reconnecting, todo>>
  BY <1>1 DEF Publish, CheckConnected, CheckFlag, SendMessage, LinkInv, MqttTypeOK
<1>4. PICK l \in Label : Goto(p, l)
  BY <1>2 DEF Label
<1> QED BY <1>1, <1>3, <1>4, GotoKeeps

\* The broker and the network.
LEMMA NetworkKeeps ==
    ASSUME LinkInv, Lose \/ BrokerLeaves \/ BrokerReturns
    PROVE  LinkInv'
<1>1. losses' \in 0 .. MaxLosses /\ lost' \in 0 .. losses'
  BY DEF Lose, BrokerLeaves, BrokerReturns, LinkInv, MqttTypeOK
<1>2. /\ up' \in BOOLEAN /\ connected' \in BOOLEAN /\ subscribed' \subseteq Topic
      /\ connected' => connected /\ subscribed' = subscribed
  <2>1. CASE Lose
    BY <2>1, Zenon DEF Lose, LinkInv, MqttTypeOK
  <2>2. CASE BrokerLeaves
    BY <2>2, Zenon DEF BrokerLeaves, LinkInv, MqttTypeOK
  <2>3. CASE BrokerReturns
    BY <2>3, Zenon DEF BrokerReturns, LinkInv, MqttTypeOK
  <2> QED BY <2>1, <2>2, <2>3
<1>3. UNCHANGED <<reconnecting, pc, todo>>
  BY DEF Lose, BrokerLeaves, BrokerReturns
<1> QED BY <1>1, <1>2, <1>3 DEF LinkInv, MqttTypeOK, NoDeafSession

-----------------------------------------------------------------------------
(* Theorems.                                                               *)

\* Every step keeps the invariant.
LEMMA LinkInvNext == LinkInv /\ [MqttNext]_mqttVars => LinkInv'
<1> SUFFICES ASSUME LinkInv, [MqttNext]_mqttVars
             PROVE  LinkInv'
  OBVIOUS
<1>1. CASE UNCHANGED mqttVars
  BY <1>1 DEF mqttVars, LinkInv, MqttTypeOK, NoDeafSession
<1>2. CASE Start \/ StartFailed \/ ConnectionLost \/ Clear
  BY <1>2, ServiceKeeps
<1>3. CASE Establish(Main) \/ Establish(Background)
  BY <1>3, EstablishKeeps DEF Thread
<1>4. CASE \E p \in Publisher : Publish(p) \/ Step(p)
  <2>1. PICK p \in Publisher : Publish(p) \/ Step(p)
    BY <1>4
  <2>2. p \in Thread
    BY DEF Thread
  <2> QED BY <2>1, <2>2, PublishKeeps, EstablishKeeps DEF Step
<1>5. CASE Lose \/ BrokerLeaves \/ BrokerReturns
  BY <1>5, NetworkKeeps
<1> QED BY <1>1, <1>2, <1>3, <1>4, <1>5 DEF MqttNext

\* The types of the service's state; in particular the flag reconnecting_ is set exactly
\* while a background thread is alive, so that there is never more than one of them.
THEOREM MqttTypeCorrect == MqttSpec => []MqttTypeOK
<1>1. LinkInv => MqttTypeOK
  BY DEF LinkInv
<1> QED BY <1>1, LinkInvInit, LinkInvNext, PTL DEF MqttSpec

\* Whichever thread reconnects, every topic of the session is subscribed to or about to be.
THEOREM NoDeafSessionCorrect == MqttSpec => []NoDeafSession
<1>1. LinkInv => NoDeafSession
  BY DEF LinkInv
<1> QED BY <1>1, LinkInvInit, LinkInvNext, PTL DEF MqttSpec

-----------------------------------------------------------------------------
(* Updates of the configuration.  As long as no two of them overlap,       *)
(* config.json is a complete and validated text at every moment, and a     *)
(* result says what happened to it, with restarts at any step.  When two   *)
(* overlap this is false (MCConfigTwoUpdaters.cfg).                        *)

USE ConfigAssumption

\* No two updates overlap: each is over, with its result taken, before the next begins.
NoOverlap == \A u, v \in Updater : phase[u] # "idle" /\ phase[v] # "idle" => u = v

\* temp.json is a file of its own, which only the updater's stream writes to.
FileInv ==
    /\ temp # config
    /\ \A u \in Updater :
        /\ phase[u] # "write" => stream[u] = NoInode
        /\ phase[u] = "write" => /\ stream[u] = temp /\ temp # NoInode
                             /\ content[temp] = Empty

\* What is validated is what was received, and what is renamed was validated.
StageInv ==
    \A u \in Updater :
        /\ phase[u] \in {"validate", "rename"} => temp # NoInode /\ content[temp] = doc[u]
        /\ phase[u] = "rename" => doc[u] \in Valid
        /\ phase[u] \in {"open", "write", "validate", "rename", "remove"} =>
             content[config] = before[u] /\ ~success[u]

CfgInv ==
    /\ CfgTypeOK /\ FileInv /\ StageInv
    /\ ConfigSound /\ SuccessMeansInstalled /\ FailureLeavesConfig

\* At first there is no temporary file, and nobody updates.
LEMMA CfgInvInit == CfgInit => CfgInv
<1> SUFFICES ASSUME CfgInit PROVE CfgInv
  OBVIOUS
<1>1. CfgTypeOK
  BY DEF CfgInit, CfgTypeOK, Texts, Phases
<1>2. FileInv /\ StageInv /\ ConfigSound /\ SuccessMeansInstalled /\ FailureLeavesConfig
  BY DEF CfgInit, FileInv, StageInv, ConfigSound, SuccessMeansInstalled, FailureLeavesConfig, At
<1> QED BY <1>1, <1>2 DEF CfgInv

\* The call remembers what config.json holds.
LEMMA CallUpdateStep ==
  ASSUME NoOverlap, NoOverlap', CfgInv, NEW u \in Updater, NEW d \in Doc, CallUpdate(u, d)
  PROVE  CfgInv'
<1> USE DEF CfgInv, CallUpdate, At, Enter, fileVars
<1>1. CfgTypeOK'
  BY DEF CfgTypeOK, FileInv, Texts, Phases
<1>2. FileInv'
  BY DEF CfgTypeOK, FileInv, StageInv, NoOverlap, Free
<1>3. StageInv'
  BY DEF CfgTypeOK, FileInv, StageInv, NoOverlap, Texts
<1>4. ConfigSound'
  BY DEF CfgTypeOK, FileInv, StageInv, ConfigSound, NoOverlap
<1>5. SuccessMeansInstalled' /\ FailureLeavesConfig'
  BY DEF CfgTypeOK, FileInv, StageInv, SuccessMeansInstalled, FailureLeavesConfig, NoOverlap
<1> QED BY <1>1, <1>2, <1>3, <1>4, <1>5

\* The file that is truncated is not config.json.
LEMMA OpenTempStep ==
  ASSUME NoOverlap, NoOverlap', CfgInv, NEW u \in Updater, OpenTemp(u)
  PROVE  CfgInv'
<1> USE DEF CfgInv, OpenTemp, At, Enter
<1>1. temp' \in Inode /\ temp' # config
  BY DEF CfgTypeOK, FileInv, Free
<1>2. /\ content' = [content EXCEPT ![temp'] = Empty] /\ content \in [Inode -> Texts]
      /\ stream' = [stream EXCEPT ![u] = temp'] /\ stream \in [Updater -> Inode \cup {NoInode}]
  BY DEF CfgTypeOK
<1>3. content' \in [Inode -> Texts] /\ content'[config] = content[config] /\ content'[temp'] = Empty
  BY <1>1, <1>2 DEF CfgTypeOK, Texts
<1>4. \A v \in Updater \ {u} : phase[v] = "idle" /\ phase'[v] = "idle" /\ stream[v] = NoInode
  BY DEF NoOverlap, CfgTypeOK, FileInv
<1>5. CfgTypeOK'
  BY <1>1, <1>2, <1>3 DEF CfgTypeOK, Phases
<1>6. FileInv'
  BY <1>1, <1>2, <1>3, <1>4 DEF CfgTypeOK, FileInv
<1>7. StageInv' /\ ConfigSound' /\ SuccessMeansInstalled' /\ FailureLeavesConfig'
  BY <1>3, <1>4 DEF CfgTypeOK, StageInv, ConfigSound, SuccessMeansInstalled, FailureLeavesConfig
<1> QED BY <1>5, <1>6, <1>7

\* Nothing happens to the files.
LEMMA OpenFailsStep ==
  ASSUME NoOverlap, NoOverlap', CfgInv, NEW u \in Updater, OpenFails(u)
  PROVE  CfgInv'
<1> USE DEF CfgInv, OpenFails, At, Enter, fileVars
<1>1. CfgTypeOK'
  BY DEF CfgTypeOK, FileInv, Texts, Phases
<1>2. FileInv'
  BY DEF CfgTypeOK, FileInv, StageInv, NoOverlap, Free
<1>3. StageInv'
  BY DEF CfgTypeOK, FileInv, StageInv, NoOverlap, Texts
<1>4. ConfigSound'
  BY DEF CfgTypeOK, FileInv, StageInv, ConfigSound, NoOverlap
<1>5. SuccessMeansInstalled' /\ FailureLeavesConfig'
  BY DEF CfgTypeOK, FileInv, StageInv, SuccessMeansInstalled, FailureLeavesConfig, NoOverlap
<1> QED BY <1>1, <1>2, <1>3, <1>4, <1>5

\* The received text goes to the temporary file.
LEMMA WriteTempStep ==
  ASSUME NoOverlap, NoOverlap', CfgInv, NEW u \in Updater, WriteTemp(u)
  PROVE  CfgInv'
<1> USE DEF CfgInv, WriteTemp, At, Enter, fileVars
<1>1. CfgTypeOK'
  BY DEF CfgTypeOK, FileInv, Texts, Phases
<1>2. FileInv'
  BY DEF CfgTypeOK, FileInv, StageInv, NoOverlap, Free
<1>3. StageInv'
  BY DEF CfgTypeOK, FileInv, StageInv, NoOverlap, Texts
<1>4. ConfigSound'
  BY DEF CfgTypeOK, FileInv, StageInv, ConfigSound, NoOverlap
<1>5. SuccessMeansInstalled' /\ FailureLeavesConfig'
  BY DEF CfgTypeOK, FileInv, StageInv, SuccessMeansInstalled, FailureLeavesConfig, NoOverlap
<1> QED BY <1>1, <1>2, <1>3, <1>4, <1>5

\* What is torn is the temporary file.
LEMMA WriteFailsStep ==
  ASSUME NoOverlap, NoOverlap', CfgInv, NEW u \in Updater, WriteFails(u)
  PROVE  CfgInv'
<1> USE DEF CfgInv, WriteFails, At, Enter, fileVars
<1>1. CfgTypeOK'
  BY DEF CfgTypeOK, FileInv, Texts, Phases
<1>2. FileInv'
  BY DEF CfgTypeOK, FileInv, StageInv, NoOverlap, Free
<1>3. StageInv'
  BY DEF CfgTypeOK, FileInv, StageInv, NoOverlap, Texts
<1>4. ConfigSound'
  BY DEF CfgTypeOK, FileInv, StageInv, ConfigSound, NoOverlap
<1>5. SuccessMeansInstalled' /\ FailureLeavesConfig'
  BY DEF CfgTypeOK, FileInv, StageInv, SuccessMeansInstalled, FailureLeavesConfig, NoOverlap
<1> QED BY <1>1, <1>2, <1>3, <1>4, <1>5

\* Only a valid text goes on to the rename.
LEMMA ValidateStep ==
  ASSUME NoOverlap, NoOverlap', CfgInv, NEW u \in Updater, Validate(u)
  PROVE  CfgInv'
<1> USE DEF CfgInv, Validate, At, Enter, fileVars
<1>1. CfgTypeOK'
  BY DEF CfgTypeOK, FileInv, Texts, Phases
<1>2. FileInv'
  BY DEF CfgTypeOK, FileInv, StageInv, NoOverlap, Free
<1>3. StageInv'
  BY DEF CfgTypeOK, FileInv, StageInv, NoOverlap, Texts
<1>4. ConfigSound'
  BY DEF CfgTypeOK, FileInv, StageInv, ConfigSound, NoOverlap
<1>5. SuccessMeansInstalled' /\ FailureLeavesConfig'
  BY DEF CfgTypeOK, FileInv, StageInv, SuccessMeansInstalled, FailureLeavesConfig, NoOverlap
<1> QED BY <1>1, <1>2, <1>3, <1>4, <1>5

\* The validated text becomes config.json in one step.
LEMMA RenameStep ==
  ASSUME NoOverlap, NoOverlap', CfgInv, NEW u \in Updater, Rename(u)
  PROVE  CfgInv'
<1> USE DEF CfgInv, Rename, At, Enter, fileVars
<1>1. CfgTypeOK'
  BY DEF CfgTypeOK, FileInv, Texts, Phases
<1>2. FileInv'
  BY DEF CfgTypeOK, FileInv, StageInv, NoOverlap, Free
<1>3. StageInv'
  BY DEF CfgTypeOK, FileInv, StageInv, NoOverlap, Texts
<1>4. ConfigSound'
  BY DEF CfgTypeOK, FileInv, StageInv, ConfigSound, NoOverlap
<1>5. SuccessMeansInstalled' /\ FailureLeavesConfig'
  BY DEF CfgTypeOK, FileInv, StageInv, SuccessMeansInstalled, FailureLeavesConfig, NoOverlap
<1> QED BY <1>1, <1>2, <1>3, <1>4, <1>5

\* A rename that fails has changed nothing.
LEMMA RenameFailsStep ==
  ASSUME NoOverlap, NoOverlap', CfgInv, NEW u \in Updater, RenameFails(u)
  PROVE  CfgInv'
<1> USE DEF CfgInv, RenameFails, At, Enter, fileVars
<1>1. CfgTypeOK'
  BY DEF CfgTypeOK, FileInv, Texts, Phases
<1>2. FileInv'
  BY DEF CfgTypeOK, FileInv, StageInv, NoOverlap, Free
<1>3. StageInv'
  BY DEF CfgTypeOK, FileInv, StageInv, NoOverlap, Texts
<1>4. ConfigSound'
  BY DEF CfgTypeOK, FileInv, StageInv, ConfigSound, NoOverlap
<1>5. SuccessMeansInstalled' /\ FailureLeavesConfig'
  BY DEF CfgTypeOK, FileInv, StageInv, SuccessMeansInstalled, FailureLeavesConfig, NoOverlap
<1> QED BY <1>1, <1>2, <1>3, <1>4, <1>5

\* Only the temporary file is removed.
LEMMA RemoveTempStep ==
  ASSUME NoOverlap, NoOverlap', CfgInv, NEW u \in Updater, RemoveTemp(u)
  PROVE  CfgInv'
<1> USE DEF CfgInv, RemoveTemp, At, Enter, fileVars
<1>1. CfgTypeOK'
  BY DEF CfgTypeOK, FileInv, Texts, Phases
<1>2. FileInv'
  BY DEF CfgTypeOK, FileInv, StageInv, NoOverlap, Free
<1>3. StageInv'
  BY DEF CfgTypeOK, FileInv, StageInv, NoOverlap, Texts
<1>4. ConfigSound'
  BY DEF CfgTypeOK, FileInv, StageInv, ConfigSound, NoOverlap
<1>5. SuccessMeansInstalled' /\ FailureLeavesConfig'
  BY DEF CfgTypeOK, FileInv, StageInv, SuccessMeansInstalled, FailureLeavesConfig, NoOverlap
<1> QED BY <1>1, <1>2, <1>3, <1>4, <1>5

\* The files stay as they are.
LEMMA TakeResultStep ==
  ASSUME NoOverlap, NoOverlap', CfgInv, NEW u \in Updater, TakeResult(u)
  PROVE  CfgInv'
<1> USE DEF CfgInv, TakeResult, At, Enter, fileVars
<1>1. CfgTypeOK'
  BY DEF CfgTypeOK, FileInv, Texts, Phases
<1>2. FileInv'
  BY DEF CfgTypeOK, FileInv, StageInv, NoOverlap, Free
<1>3. StageInv'
  BY DEF CfgTypeOK, FileInv, StageInv, NoOverlap, Texts
<1>4. ConfigSound'
  BY DEF CfgTypeOK, FileInv, StageInv, ConfigSound, NoOverlap
<1>5. SuccessMeansInstalled' /\ FailureLeavesConfig'
  BY DEF CfgTypeOK, FileInv, StageInv, SuccessMeansInstalled, FailureLeavesConfig, NoOverlap
<1> QED BY <1>1, <1>2, <1>3, <1>4, <1>5

\* The restarted process finds what the killed one left.
LEMMA RestartStep ==
  ASSUME NoOverlap, NoOverlap', CfgInv, Restart
  PROVE  CfgInv'
<1> USE DEF CfgInv, Restart, At, Enter, fileVars
<1>1. CfgTypeOK'
  BY DEF CfgTypeOK, FileInv, Texts, Phases
<1>2. FileInv'
  BY DEF CfgTypeOK, FileInv, StageInv, NoOverlap, Free
<1>3. StageInv'
  BY DEF CfgTypeOK, FileInv, StageInv, NoOverlap, Texts
<1>4. ConfigSound'
  BY DEF CfgTypeOK, FileInv, StageInv, ConfigSound, NoOverlap
<1>5. SuccessMeansInstalled' /\ FailureLeavesConfig'
  BY DEF CfgTypeOK, FileInv, StageInv, SuccessMeansInstalled, FailureLeavesConfig, NoOverlap
<1> QED BY <1>1, <1>2, <1>3, <1>4, <1>5

\* Every step keeps the invariant, with one updater at a time.
LEMMA CfgInvNext == NoOverlap /\ NoOverlap' /\ CfgInv /\ [CfgNext]_cfgVars => CfgInv'
<1> SUFFICES ASSUME NoOverlap, NoOverlap', CfgInv, [CfgNext]_cfgVars PROVE CfgInv'
  OBVIOUS
<1>1. CASE UNCHANGED cfgVars
  BY <1>1 DEF cfgVars, fileVars, callVars, CfgInv, CfgTypeOK, FileInv, StageInv, ConfigSound,
              SuccessMeansInstalled, FailureLeavesConfig, At
<1>2. CASE CfgNext
  BY <1>2, CallUpdateStep, OpenTempStep, OpenFailsStep, WriteTempStep, WriteFailsStep,
     ValidateStep, RenameStep, RenameFailsStep, RemoveTempStep, TakeResultStep, RestartStep
     DEF CfgNext
<1> QED BY <1>1, <1>2

\* The invariant that the theorems follow from.
LEMMA CfgInvariant == CfgSpec /\ []NoOverlap => []CfgInv
BY CfgInvInit, CfgInvNext, PTL DEF CfgSpec

\* config.json, and with it what a restarted process works with, is complete and
\* validated at every moment, as long as no two updates overlap.
THEOREM ConfigSoundCorrect == CfgSpec /\ []NoOverlap => []ConfigSound
<1>1. CfgInv => ConfigSound
  BY DEF CfgInv
<1> QED BY <1>1, CfgInvariant, PTL

\* An update that reports success has put its own text into config.json, as long as no
\* two updates overlap.
THEOREM SuccessCorrect == CfgSpec /\ []NoOverlap => []SuccessMeansInstalled
<1>1. CfgInv => SuccessMeansInstalled
  BY DEF CfgInv
<1> QED BY <1>1, CfgInvariant, PTL

\* An update that fails, at whichever step, leaves config.json as it was when it began,
\* as long as no two updates overlap.
THEOREM FailureCorrect == CfgSpec /\ []NoOverlap => []FailureLeavesConfig
<1>1. CfgInv => FailureLeavesConfig
  BY DEF CfgInv
<1> QED BY <1>1, CfgInvariant, PTL

-----------------------------------------------------------------------------
(* What the validator accepts.  FoldLeft is made of a function on sets of   *)
(* positions, which exists for any number of items (FoldExists); its values *)
(* on the sets 1 .. k are the verdicts after each item (FoldPath).  What a  *)
(* verdict means is proved from item to item and from section to section.   *)

\* The loop over the items of a section.
Checks(kind, v, items) == FoldLeft(LAMBDA w, i : checkItem(kind, w, i), v, items)

\* f folds the first n items of a section, in the way of FoldLeft.
IsFold(f, kind, v, items, n) ==
    f = [s \in SUBSET (1 .. n) |->
            IF s = {} THEN v ELSE checkItem(kind, f[s \ {Max(s)}], items[Max(s)])]

\* Every nonempty set of numbers has a least one.
LEMMA LeastNumber ==
    ASSUME NEW S \in SUBSET Nat, S # {}
    PROVE  \E m \in S : \A n \in S : m <= n
<1>1. PICK m \in S : \A n \in S : <<n, m>> \notin OpToRel(<, Nat)
  BY NatLessThanWellFounded, WFMin
<1>2. \A n \in S : ~ (n < m)
  BY <1>1 DEF OpToRel
<1>3. \A n \in S : m <= n
  BY <1>2
<1> QED BY <1>3

\* A set of numbers up to m that has m has it as its largest.
LEMMA MaxOfPrefix ==
    ASSUME NEW m \in Nat, m # 0, NEW s \in SUBSET (1 .. m), m \in s
    PROVE  Max(s) = m
<1>1. \A x \in s : m >= x /\ (x >= m => x = m)
  OBVIOUS
<1> QED BY <1>1 DEF Max

\* There is one for every section.
LEMMA FoldExists ==
    ASSUME NEW kind, NEW v, NEW items, NEW n \in Nat
    PROVE  \E f : IsFold(f, kind, v, items, n)
<1> DEFINE Bad == {m \in Nat : ~ \E f : IsFold(f, kind, v, items, m)}
<1> SUFFICES ASSUME Bad # {} PROVE FALSE
  OBVIOUS
<1>1. PICK m \in Bad : \A k \in Bad : m <= k
  BY LeastNumber
<1>2. m # 0
  <2> DEFINE g == [s \in SUBSET (1 .. 0) |-> v]
  <2>1. \A s \in SUBSET (1 .. 0) : s = {}
    OBVIOUS
  <2>2. IsFold(g, kind, v, items, 0)
    BY <2>1 DEF IsFold
  <2> QED BY <2>2
<1>3. m - 1 \in Nat /\ m - 1 \notin Bad /\ m \in Nat
  BY <1>1, <1>2
<1>4. PICK f : IsFold(f, kind, v, items, m - 1)
  BY <1>3
<1> DEFINE g == [s \in SUBSET (1 .. m) |->
                    IF m \in s THEN checkItem(kind, f[s \ {m}], items[m]) ELSE f[s]]
<1>5. ASSUME NEW s \in SUBSET (1 .. m)
      PROVE  g[s] = IF s = {} THEN v ELSE checkItem(kind, g[s \ {Max(s)}], items[Max(s)])
  <2>1. CASE m \in s
    <3>1. Max(s) = m
      BY <1>2, <1>3, <2>1, MaxOfPrefix
    <3>2. g[s \ {m}] = f[s \ {m}]
      OBVIOUS
    <3>3. g[s] = checkItem(kind, f[s \ {m}], items[m])
      BY <2>1
    <3> QED BY <2>1, <3>1, <3>2, <3>3
  <2>2. CASE m \notin s
    <3>1. s \in SUBSET (1 .. m - 1)
      BY <1>3, <2>2
    <3>2. f[s] = IF s = {} THEN v ELSE checkItem(kind, f[s \ {Max(s)}], items[Max(s)])
      BY <1>4, <3>1 DEF IsFold
    <3>3. g[s] = f[s] /\ g[s \ {Max(s)}] = f[s \ {Max(s)}]
      BY <2>2
    <3> QED BY <3>2, <3>3
  <2> QED BY <2>1, <2>2
<1>6. IsFold(g, kind, v, items, m)
  BY <1>5 DEF IsFold
<1> QED BY <1>1, <1>6

\* The verdicts after each of the first n items.
IsPath(p, kind, v, items, n) ==
    /\ p[0] = v
    /\ \A k \in 1 .. n : p[k] = checkItem(kind, p[k - 1], items[k])

\* A fold goes through the items one after the other.
LEMMA FoldPath ==
    ASSUME NEW kind, NEW v, NEW items, NEW n \in Nat, DOMAIN items = 1 .. n
    PROVE  \E p : IsPath(p, kind, v, items, n) /\ Checks(kind, v, items) = p[n]
<1> DEFINE f == CHOOSE f : IsFold(f, kind, v, items, n)
           p == [k \in 0 .. n |-> f[1 .. k]]
<1>1. IsFold(f, kind, v, items, n)
  BY FoldExists
<1>2. Checks(kind, v, items) = f[1 .. n]
  BY DEF Checks, FoldLeft, MapThenFoldSet, IsFold
<1>3. p[0] = v
  <2>1. 1 .. 0 = {}
    OBVIOUS
  <2>2. f[{}] = v
    BY <1>1, Zenon DEF IsFold
  <2> QED BY <2>1, <2>2
<1>4. ASSUME NEW k \in 1 .. n PROVE p[k] = checkItem(kind, p[k - 1], items[k])
  <2>1. k \in Nat /\ k # 0 /\ k \in 0 .. n /\ k - 1 \in 0 .. n /\ k \in 1 .. k
        /\ \A x \in 1 .. k : x \in 1 .. n
    OBVIOUS
  <2>2. Max(1 .. k) = k
    BY <2>1, MaxOfPrefix, Zenon
  <2>3. (1 .. k) \ {k} = 1 .. k - 1
    OBVIOUS
  <2>4. f[1 .. k] = IF 1 .. k = {} THEN v
                    ELSE checkItem(kind, f[(1 .. k) \ {Max(1 .. k)}], items[Max(1 .. k)])
    BY <1>1, <2>1, Zenon DEF IsFold
  <2>5. f[1 .. k] = checkItem(kind, f[1 .. k - 1], items[k])
    BY <2>1, <2>2, <2>3, <2>4, Zenon
  <2> QED BY <2>1, <2>5
<1>5. p[n] = f[1 .. n]
  OBVIOUS
<1> HIDE DEF p, f
<1> QED BY <1>2, <1>3, <1>4, <1>5 DEF IsPath

\* A verdict is a record, which checkAndAddId and checkItem update.
IsVerdict(v) == v \in [ok : BOOLEAN, ids : {v.ids}, plcs : {v.plcs}]

\* Only the loop over plc_list adds to the known PLCs.
PlcsAfter(kind, v, ids) == IF kind = "plc_list" THEN v.plcs \cup ids ELSE v.plcs

\* What is asked of an item, apart from an id that is new.
Passes(kind, item, plcs) ==
    Typed(item, IdField(kind), StringTypes) /\ FieldsOk(kind, item, plcs)

\* An item that passes is new and has its fields; its id is known from then on.
LEMMA ItemChecked ==
    ASSUME NEW kind, NEW v, NEW item, IsVerdict(v)
    PROVE  LET w == checkItem(kind, v, item)
           IN  /\ IsVerdict(w)
               /\ w.ids = v.ids \cup {item.id}
               /\ w.plcs = PlcsAfter(kind, v, {item.id})
               /\ w.ok => v.ok /\ item.id \notin v.ids /\ Passes(kind, item, v.plcs)
<1> DEFINE new == Typed(item, IdField(kind), StringTypes) /\ item.id \notin v.ids
           w == checkItem(kind, v, item)
<1> DEFINE u == checkAndAddId(kind, v, item)
<1>1. /\ u \in [ok : BOOLEAN, ids : {v.ids \cup {item.id}}, plcs : {v.plcs}]
      /\ u.ok => v.ok /\ new
  BY DEF IsVerdict, checkAndAddId
<1>2. w = [u EXCEPT !.ok = @ /\ FieldsOk(kind, item, v.plcs),
                    !.plcs = IF kind = "plc_list" THEN @ \cup {item.id} ELSE @]
  BY Zenon DEF checkItem
<1> HIDE DEF u
<1>3. /\ w \in [ok : BOOLEAN, ids : {v.ids \cup {item.id}}, plcs : {PlcsAfter(kind, v, {item.id})}]
      /\ w.ok => u.ok /\ FieldsOk(kind, item, v.plcs)
  BY <1>1, <1>2 DEF PlcsAfter
<1> HIDE DEF w
<1>4. IsVerdict(w) /\ w.ids = v.ids \cup {item.id} /\ w.plcs = PlcsAfter(kind, v, {item.id})
  BY <1>3 DEF IsVerdict
<1> QED BY <1>1, <1>3, <1>4 DEF w, Passes

\* A PLC that was known stays known.
LEMMA PassesMonotone ==
    ASSUME NEW kind, NEW item, NEW P, NEW Q, P \subseteq Q, Passes(kind, item, P)
    PROVE  Passes(kind, item, Q)
BY DEF Passes, FieldsOk

\* What the checks of the first k items mean, from the verdict v to the verdict w.
ItemsChecked(kind, v, w, items, k) ==
    /\ IsVerdict(w)
    /\ w.ids = v.ids \cup {items[i].id : i \in 1 .. k}
    /\ w.plcs = PlcsAfter(kind, v, {items[i].id : i \in 1 .. k})
    /\ w.ok =>
          /\ v.ok
          /\ \A i \in 1 .. k : items[i].id \notin v.ids /\ Passes(kind, items[i], w.plcs)
          /\ \A i, j \in 1 .. k : items[i].id = items[j].id => i = j

\* One item more.
LEMMA NextItemChecked ==
    ASSUME NEW kind, NEW v, NEW w, NEW items, NEW k \in Nat, k # 0,
           ItemsChecked(kind, v, w, items, k - 1)
    PROVE  ItemsChecked(kind, v, checkItem(kind, w, items[k]), items, k)
<1> DEFINE x == checkItem(kind, w, items[k])
<1>1. 1 .. k = (1 .. k - 1) \cup {k} /\ k \notin 1 .. k - 1
  OBVIOUS
<1>2. /\ IsVerdict(x)
      /\ x.ids = w.ids \cup {items[k].id}
      /\ x.plcs = PlcsAfter(kind, w, {items[k].id})
      /\ x.ok => w.ok /\ items[k].id \notin w.ids /\ Passes(kind, items[k], w.plcs)
  BY ItemChecked DEF ItemsChecked
<1> HIDE DEF x
<1> DEFINE Ids(n) == {items[i].id : i \in 1 .. n}
<1>3. Ids(k) = Ids(k - 1) \cup {items[k].id}
  BY <1>1
<1>4. x.ids = v.ids \cup Ids(k) /\ x.plcs = PlcsAfter(kind, v, Ids(k))
  BY <1>2, <1>3 DEF ItemsChecked, PlcsAfter
<1>5. ASSUME x.ok
      PROVE  /\ v.ok
             /\ \A i \in 1 .. k : items[i].id \notin v.ids /\ Passes(kind, items[i], x.plcs)
             /\ \A i, j \in 1 .. k : items[i].id = items[j].id => i = j
  <2>1. w.ok /\ items[k].id \notin w.ids /\ Passes(kind, items[k], w.plcs)
    BY <1>2, <1>5
  <2>2. /\ v.ok
        /\ \A i \in 1 .. k - 1 : items[i].id \notin v.ids /\ Passes(kind, items[i], w.plcs)
        /\ \A i, j \in 1 .. k - 1 : items[i].id = items[j].id => i = j
    BY <2>1 DEF ItemsChecked
  <2>3. w.plcs \subseteq x.plcs
    BY <1>2 DEF PlcsAfter
  <2>4. items[k].id \notin v.ids /\ \A i \in 1 .. k - 1 : items[i].id # items[k].id
    BY <2>1 DEF ItemsChecked
  <2>5. \A i \in 1 .. k : items[i].id \notin v.ids /\ Passes(kind, items[i], w.plcs)
    BY <1>1, <2>1, <2>2, <2>4
  <2>6. \A i \in 1 .. k : Passes(kind, items[i], x.plcs)
    BY <2>3, <2>5, PassesMonotone
  <2>7. \A i, j \in 1 .. k : items[i].id = items[j].id => i = j
    BY <1>1, <2>2, <2>4
  <2> QED BY <2>2, <2>5, <2>6, <2>7
<1>6. ItemsChecked(kind, v, x, items, k)
  BY <1>2, <1>4, <1>5 DEF ItemsChecked
<1> QED BY <1>6 DEF x

\* A whole section.
LEMMA AllItemsChecked ==
    ASSUME NEW kind, NEW v, NEW items, NEW n \in Nat, DOMAIN items = 1 .. n, IsVerdict(v)
    PROVE  ItemsChecked(kind, v, Checks(kind, v, items), items, n)
<1>1. PICK p : IsPath(p, kind, v, items, n) /\ Checks(kind, v, items) = p[n]
  BY FoldPath
<1> DEFINE Bad == {k \in 0 .. n : ~ ItemsChecked(kind, v, p[k], items, k)}
<1>2. 0 \notin Bad
  <2>1. 1 .. 0 = {}
    OBVIOUS
  <2>2. ItemsChecked(kind, v, v, items, 0)
    BY <2>1 DEF ItemsChecked, PlcsAfter
  <2> QED BY <1>1, <2>2 DEF IsPath
<1>3. ASSUME NEW k \in Bad, \A j \in Bad : k <= j PROVE FALSE
  <2>1. k \in Nat /\ k # 0 /\ k - 1 \in 0 .. n /\ k - 1 \notin Bad /\ k \in 1 .. n
    BY <1>2, <1>3
  <2>2. ItemsChecked(kind, v, p[k - 1], items, k - 1)
    BY <2>1
  <2>3. p[k] = checkItem(kind, p[k - 1], items[k])
    BY <1>1, <2>1 DEF IsPath
  <2>4. ItemsChecked(kind, v, p[k], items, k)
    BY <2>1, <2>2, <2>3, NextItemChecked
  <2> QED BY <2>4
<1>4. Bad = {}
  <2>1. Bad \subseteq Nat
    OBVIOUS
  <2> HIDE DEF Bad
  <2> QED BY <1>3, <2>1, LeastNumber
<1>5. n \in 0 .. n
  OBVIOUS
<1> QED BY <1>1, <1>4, <1>5

\* The ids in a section, as far as the parser takes it.
IdsOf(d, kind) == {ItemAt(d, p).id : p \in ParsedOf(d, kind)}

\* What the checks of a section mean, from the verdict v to the verdict w.
SectionChecked(d, v, w, kind) ==
    /\ IsVerdict(w)
    /\ w.ids = v.ids \cup IdsOf(d, kind)
    /\ w.plcs = PlcsAfter(kind, v, IdsOf(d, kind))
    /\ w.ok =>
          /\ v.ok
          /\ \A p \in ParsedOf(d, kind) :
                ItemAt(d, p).id \notin v.ids /\ Passes(kind, ItemAt(d, p), w.plcs)
          /\ \A p, q \in ParsedOf(d, kind) : ItemAt(d, p).id = ItemAt(d, q).id => p = q

\* The parser takes the items that the validator has looked at, when sections are arrays.
LEMMA PlacesOfSection ==
    ASSUME NEW d, NEW kind \in Kinds
    PROVE  ParsedOf(d, kind) = IF d.sections[kind].form = "none" THEN {}
                               ELSE {<<kind, i>> : i \in DOMAIN d.sections[kind].items}
BY DEF ParsedOf, Parsed, Sections

\* A section, whatever its form, is checked as a whole.
LEMMA CheckedSection ==
    ASSUME NEW d, WellFormed(d), ArraysOnly(d), NEW kind \in Kinds, NEW v, IsVerdict(v)
    PROVE  SectionChecked(d, v, checkSection(d, v, kind), kind)
<1> DEFINE items == d.sections[kind].items
           n == Len(items)
<1>1. n \in Nat /\ DOMAIN items = 1 .. n
  BY DEF WellFormed
<1>2. d.sections[kind].form = "array" \/ d.sections[kind].form = "none"
  BY DEF WellFormed, ArraysOnly, Sections
<1>3. CASE d.sections[kind].form = "none"
  <2>1. checkSection(d, v, kind) = v
    BY <1>3 DEF checkSection
  <2>2. ParsedOf(d, kind) = {}
    BY <1>3, PlacesOfSection
  <2>3. IdsOf(d, kind) = {}
    BY <2>2 DEF IdsOf
  <2> QED BY <2>1, <2>2, <2>3 DEF SectionChecked, PlcsAfter
<1>4. CASE d.sections[kind].form = "array"
  <2> DEFINE w == Checks(kind, v, items)
  <2>1. checkSection(d, v, kind) = w
    BY <1>4 DEF checkSection, Checks
  <2>2. ItemsChecked(kind, v, w, items, n)
    BY <1>1, AllItemsChecked
  <2>3. ParsedOf(d, kind) = {<<kind, i>> : i \in 1 .. n}
    BY <1>1, <1>4, PlacesOfSection
  <2>4. \A i \in 1 .. n : ItemAt(d, <<kind, i>>) = items[i]
    BY DEF ItemAt
  <2> HIDE DEF w, items, n
  <2>5. IdsOf(d, kind) = {items[i].id : i \in 1 .. n}
    BY <2>3, <2>4 DEF IdsOf
  <2>6. SectionChecked(d, v, w, kind)
    <3>1. IsVerdict(w) /\ w.ids = v.ids \cup IdsOf(d, kind) /\ w.plcs = PlcsAfter(kind, v, IdsOf(d, kind))
      BY <2>2, <2>5 DEF ItemsChecked
    <3>2. ASSUME w.ok, NEW p \in ParsedOf(d, kind)
          PROVE  ItemAt(d, p).id \notin v.ids /\ Passes(kind, ItemAt(d, p), w.plcs)
      <4>1. PICK i \in 1 .. n : p = <<kind, i>>
        BY <2>3
      <4>2. ItemAt(d, p) = items[i]
        BY <2>4, <4>1
      <4> QED BY <2>2, <3>2, <4>2 DEF ItemsChecked
    <3>3. ASSUME w.ok, NEW p \in ParsedOf(d, kind), NEW q \in ParsedOf(d, kind),
                 ItemAt(d, p).id = ItemAt(d, q).id
          PROVE  p = q
      <4>1. PICK i \in 1 .. n : p = <<kind, i>>
        BY <2>3
      <4>2. PICK j \in 1 .. n : q = <<kind, j>>
        BY <2>3
      <4>3. items[i].id = items[j].id
        BY <2>4, <3>3, <4>1, <4>2
      <4> QED BY <2>2, <3>3, <4>1, <4>2, <4>3 DEF ItemsChecked
    <3>4. w.ok => v.ok
      BY <2>2 DEF ItemsChecked
    <3> QED BY <3>1, <3>2, <3>3, <3>4 DEF SectionChecked
  <2> QED BY <2>1, <2>6
<1> QED BY <1>2, <1>3, <1>4

\* The JSON types: those of strings, and those of numbers.
LEMMA TypesApart ==
    /\ StringTypes \subseteq JsonTypes /\ Integer \subseteq Number
    /\ "count" \in Number /\ "object" \notin StringTypes \cup Number
BY DEF StringTypes, Integer, Number, JsonTypes

\* The parts of an item.
LEMMA PartOfItem ==
    ASSUME NEW kind, NEW item, NEW part \in PartsOf(kind, item)
    PROVE  \/ kind = "plc_list" /\ item.type = "direct" /\ part = "serial"
           \/ kind = "plc_list" /\ item.type = "gateway" /\ part = "gateway"
           \/ kind = "sensor" /\ part = "serial_config"
           \/ kind = "carcontrol" /\ part = "serial_config"
BY DEF PartsOf

\* An item that passes is an object, and the parser can read every field of it that the
\* validator has looked at.
LEMMA PassedIsReadable ==
    ASSUME NEW kind \in Kinds, NEW item, WellFormedItem(kind, item),
           NEW plcs, Passes(kind, item, plcs)
    PROVE  item.object /\ Misfits(kind, item) \subseteq Unvalidated[kind]
<1>1. item.object
  BY DEF WellFormedItem, Passes, Typed
<1>2. Typed(item, IdField(kind), StringTypes) /\ FieldsOk(kind, item, plcs)
  BY DEF Passes
<1>3. \A f \in Required[kind] \cup {IdField(kind)} : Readable(item, f, StringTypes)
  BY <1>2 DEF FieldsOk, Typed, Readable
<1>4. ASSUME NEW f \in ItemTexts[kind], ~Readable(item, f, StringTypes)
      PROVE  f \in Unvalidated[kind]
  <2>1. f \notin Required[kind] /\ f # IdField(kind)
    BY <1>3, <1>4
  <2> QED BY <1>4, <2>1 DEF Kinds, ItemTexts, Required, IdField, Unvalidated
<1>5. ASSUME NEW part \in PartsOf(kind, item), NEW f \in PartTexts[part]
      PROVE  f \in Unvalidated[kind]
  BY <1>5, PartOfItem DEF PartTexts, Unvalidated
<1>6. ASSUME NEW f \in ItemNumbers(kind, item), ~Readable(item, f, Number)
      PROVE  f \in Unvalidated[kind]
  <2>1. CASE kind = "sensor" /\ item.type = "modbus"
    <3>1. Readable(item, "reg_count", Number)
      BY <1>2, <2>1 DEF FieldsOk, Typed, Readable, Number, Integer
    <3>2. f \in {"modbus_addr", "reg_start", "reg_count"} /\ f # "reg_count"
      BY <1>6, <2>1, <3>1 DEF ItemNumbers
    <3> QED BY <2>1, <3>2 DEF Unvalidated
  <2>2. CASE kind = "carcontrol"
    BY <1>6, <2>2 DEF ItemNumbers, Unvalidated
  <2>3. (kind = "sensor" /\ item.type = "modbus") \/ kind = "carcontrol"
    BY <1>6 DEF ItemNumbers
  <2> QED BY <2>1, <2>2, <2>3
<1>7. ASSUME NEW part \in PartsOf(kind, item), NEW f \in PartNumbers[part],
             ~Readable(item, f, Number)
      PROVE  f \in Unvalidated[kind]
  <2>1. CASE kind = "plc_list" /\ item.type = "direct" /\ part = "serial"
    <3>1. Readable(item, "baud_rate", Number)
      BY <1>2, <2>1, TypesApart DEF FieldsOk, Typed, Readable
    <3>2. f \in {"baud_rate", "stop_bits"} /\ f # "baud_rate"
      BY <1>7, <2>1, <3>1 DEF PartNumbers
    <3> QED BY <2>1, <3>2 DEF Unvalidated
  <2>2. CASE kind = "plc_list" /\ item.type = "gateway" /\ part = "gateway"
    <3>1. Readable(item, "gateway_port", Number)
      BY <1>2, <2>2, TypesApart DEF FieldsOk, Typed, Readable
    <3>2. f = "gateway_port"
      BY <1>7, <2>2 DEF PartNumbers
    <3> QED BY <1>7, <3>1, <3>2
  <2>3. CASE kind = "sensor" /\ part = "serial_config"
    BY <1>7, <2>3 DEF PartNumbers, Unvalidated
  <2>4. CASE kind = "carcontrol" /\ part = "serial_config"
    BY <1>7, <2>4 DEF PartNumbers, Unvalidated
  <2> QED BY <2>1, <2>2, <2>3, <2>4, PartOfItem
<1>8. ASSUME NEW part \in PartsOf(kind, item), ~Readable(item, part, {"object"})
      PROVE  part \in Unvalidated[kind]
  <2>1. CASE kind = "plc_list" /\ item.type = "direct" /\ part = "serial"
    <3>1. "baud_rate" \in DOMAIN item.fields
      BY <1>2, <2>1 DEF FieldsOk, Typed
    <3>2. "baud_rate" \in PartTexts[part] \cup PartNumbers[part]
      BY <2>1 DEF PartNumbers
    <3>3. Typed(item, part, {"object"})
      BY <3>1, <3>2 DEF WellFormedItem
    <3> QED BY <1>8, <3>3 DEF Typed, Readable
  <2>2. CASE kind = "plc_list" /\ item.type = "gateway" /\ part = "gateway"
    <3>1. "gateway_port" \in DOMAIN item.fields
      BY <1>2, <2>2 DEF FieldsOk, Typed
    <3>2. "gateway_port" \in PartTexts[part] \cup PartNumbers[part]
      BY <2>2 DEF PartNumbers
    <3>3. Typed(item, part, {"object"})
      BY <3>1, <3>2 DEF WellFormedItem
    <3> QED BY <1>8, <3>3 DEF Typed, Readable
  <2>3. CASE kind = "sensor" /\ part = "serial_config"
    BY <2>3 DEF Unvalidated
  <2>4. CASE kind = "carcontrol" /\ part = "serial_config"
    BY <2>4 DEF Unvalidated
  <2> QED BY <2>1, <2>2, <2>3, <2>4, PartOfItem
<1>9. kind = "plc_list" => "slave_id" \in Unvalidated[kind]
  BY DEF Unvalidated
<1>10. kind = "sensor" => "serial_config" \in Unvalidated[kind]
  BY DEF Unvalidated
<1>11. ASSUME NEW f \in Misfits(kind, item) PROVE f \in Unvalidated[kind]
  <2>1. CASE f \in TextsOf(kind, item) /\ ~Readable(item, f, StringTypes)
    BY <1>4, <1>5, <2>1 DEF TextsOf
  <2>2. CASE f \in NumbersOf(kind, item) /\ ~Readable(item, f, Number)
    BY <1>6, <1>7, <2>2 DEF NumbersOf
  <2>3. CASE f = "slave_id" /\ kind = "plc_list"
    BY <1>9, <2>3
  <2>4. CASE f \in PartsOf(kind, item) /\ ~Readable(item, f, {"object"})
    BY <1>8, <2>4
  <2>5. CASE f = "serial_config" /\ kind = "sensor"
    BY <1>10, <2>5
  <2> QED BY <1>11, <2>1, <2>2, <2>3, <2>4, <2>5 DEF Misfits
<1> QED BY <1>1, <1>11

\* What is accepted has ids of its own for all devices, PLCs for all PLC devices, and can be
\* read but for the fields that the validator does not look at.
LEMMA AcceptedIsConsistent ==
    ASSUME NEW d, WellFormed(d), ArraysOnly(d), Accepted(d)
    PROVE  /\ UniqueIds(d) /\ DevicesHavePlcs(d) /\ d.root.object
           /\ \A p \in Parsed(d) : /\ ItemAt(d, p).object
                                    /\ Misfits(p[1], ItemAt(d, p)) \subseteq Unvalidated[p[1]]
<1> DEFINE v0 == [ok |-> TRUE, ids |-> {}, plcs |-> {}]
           v1 == checkSection(d, v0, "camera")
           v2 == checkSection(d, v1, "plc_list")
           v3 == checkSection(d, v2, "plc_device")
           v4 == checkSection(d, v3, "sensor")
           v5 == checkSection(d, v4, "gateway")
           v6 == checkSection(d, v5, "carcontrol")
<1>1. v6.ok
  BY DEF Accepted, validateBusinessLogic
<1>2. IsVerdict(v0) /\ v0.ids = {} /\ v0.plcs = {}
  BY DEF IsVerdict
<1>3. /\ "camera" \in Kinds /\ "plc_list" \in Kinds /\ "plc_device" \in Kinds
      /\ "sensor" \in Kinds /\ "gateway" \in Kinds /\ "carcontrol" \in Kinds
  BY DEF Kinds
<1> HIDE DEF v0
<1>4. SectionChecked(d, v0, v1, "camera")
  BY <1>2, <1>3, CheckedSection
<1> HIDE DEF v1
<1>5. SectionChecked(d, v1, v2, "plc_list")
  BY <1>3, <1>4, CheckedSection DEF SectionChecked
<1> HIDE DEF v2
<1>6. SectionChecked(d, v2, v3, "plc_device")
  BY <1>3, <1>5, CheckedSection DEF SectionChecked
<1> HIDE DEF v3
<1>7. SectionChecked(d, v3, v4, "sensor")
  BY <1>3, <1>6, CheckedSection DEF SectionChecked
<1> HIDE DEF v4
<1>8. SectionChecked(d, v4, v5, "gateway")
  BY <1>3, <1>7, CheckedSection DEF SectionChecked
<1> HIDE DEF v5
<1>9. SectionChecked(d, v5, v6, "carcontrol")
  BY <1>3, <1>8, CheckedSection DEF SectionChecked
<1> HIDE DEF v6
<1>10. v1.ok /\ v2.ok /\ v3.ok /\ v4.ok /\ v5.ok
  BY <1>1, <1>5, <1>6, <1>7, <1>8, <1>9 DEF SectionChecked
<1> DEFINE Ids(kind) == IdsOf(d, kind)
<1>11. /\ v1.ids = Ids("camera")
       /\ v2.ids = v1.ids \cup Ids("plc_list")
       /\ v3.ids = v2.ids \cup Ids("plc_device")
       /\ v4.ids = v3.ids \cup Ids("sensor")
       /\ v5.ids = v4.ids \cup Ids("gateway")
  BY <1>2, <1>4, <1>5, <1>6, <1>7, <1>8 DEF SectionChecked
<1>12. \A p \in Parsed(d) : p[1] \in Kinds /\ p \in ParsedOf(d, p[1])
  BY DEF Parsed, ParsedOf, Sections
<1>13. ASSUME NEW kind \in Kinds, NEW p \in ParsedOf(d, kind) PROVE ItemAt(d, p).id \in Ids(kind)
  BY DEF IdsOf
<1>14. UniqueIds(d)
  <2>1. ASSUME NEW kind \in Kinds, NEW p \in ParsedOf(d, kind), NEW q \in ParsedOf(d, kind),
               ItemAt(d, p).id = ItemAt(d, q).id
        PROVE  p = q
    BY <1>1, <1>4, <1>5, <1>6, <1>7, <1>8, <1>9, <1>10, <2>1 DEF SectionChecked, Kinds
  <2>2. /\ Ids("plc_list") \cap v1.ids = {}
        /\ Ids("plc_device") \cap v2.ids = {}
        /\ Ids("sensor") \cap v3.ids = {}
        /\ Ids("gateway") \cap v4.ids = {}
        /\ Ids("carcontrol") \cap v5.ids = {}
    BY <1>1, <1>5, <1>6, <1>7, <1>8, <1>9, <1>10 DEF SectionChecked, IdsOf
  <2> HIDE DEF Ids
  <2>3. \A k, l \in Kinds : Ids(k) \cap Ids(l) # {} => k = l
    BY <1>11, <2>2 DEF Kinds
  <2>4. ASSUME NEW p \in Parsed(d), NEW q \in Parsed(d), ItemAt(d, p).id = ItemAt(d, q).id
        PROVE  p = q
    <3>1. p[1] = q[1]
      BY <1>12, <1>13, <2>3, <2>4
    <3> QED BY <1>12, <2>1, <2>4, <3>1
  <2> QED BY <2>4 DEF UniqueIds
<1>15. DevicesHavePlcs(d)
  <2>1. v3.plcs = Ids("plc_list")
    BY <1>2, <1>4, <1>5, <1>6 DEF SectionChecked, PlcsAfter
  <2>2. \A p \in ParsedOf(d, "plc_device") : ItemAt(d, p).plc \in v3.plcs
    BY <1>6, <1>10 DEF SectionChecked, Passes, FieldsOk
  <2> QED BY <2>1, <2>2 DEF DevicesHavePlcs, IdsOf
<1>16. ASSUME NEW p \in Parsed(d)
       PROVE  /\ ItemAt(d, p).object
              /\ Misfits(p[1], ItemAt(d, p)) \subseteq Unvalidated[p[1]]
  <2>1. p[1] \in Kinds /\ p \in ParsedOf(d, p[1])
    BY <1>12
  <2>2. \E plcs : Passes(p[1], ItemAt(d, p), plcs)
    BY <1>1, <1>4, <1>5, <1>6, <1>7, <1>8, <1>9, <1>10, <2>1 DEF SectionChecked, Kinds
  <2>3. WellFormedItem(p[1], ItemAt(d, p))
    <3>1. PICK k \in Kinds : \E n \in DOMAIN d.sections[k].items : p = <<k, n>>
      BY DEF Parsed, Sections
    <3>2. PICK n \in DOMAIN d.sections[k].items : p = <<k, n>>
      BY <3>1
    <3>3. p[1] = k /\ ItemAt(d, p) = d.sections[k].items[n]
      BY <3>2 DEF ItemAt
    <3>4. \A item \in Range(d.sections[k].items) : WellFormedItem(k, item)
      BY DEF WellFormed
    <3> QED BY <3>3, <3>4 DEF Range
  <2> QED BY <2>1, <2>2, <2>3, PassedIsReadable
<1>17. d.root.object
  BY DEF Accepted, validateJsonFormat, WellFormed
<1> QED BY <1>14, <1>15, <1>16, <1>17

\* What config.json gives the process at its start has an id for every device and a PLC for
\* every PLC device, as long as no two updates overlap; and where the parser throws, it does
\* so at the root or at one of the fields that the validator does not look at.
THEOREM LoadedCorrect == CfgSpec /\ []NoOverlap => []LoadedIsConsistent
<1>1. ASSUME ConfigSound, ArraysOnly(Document[loaded])
      PROVE  LET d == Document[loaded]
             IN  /\ UniqueIds(d) /\ DevicesHavePlcs(d) /\ d.root.object
                 /\ \A p \in Parsed(d) :
                        /\ ItemAt(d, p).object
                        /\ Misfits(p[1], ItemAt(d, p)) \subseteq Unvalidated[p[1]]
  <2>1. WellFormed(Document[loaded]) /\ Accepted(Document[loaded])
    BY <1>1, DocumentAssumption DEF ConfigSound
  <2> QED BY <1>1, <2>1, AcceptedIsConsistent
<1>2. ConfigSound => LoadedIsConsistent
  BY <1>1 DEF LoadedIsConsistent
<1> QED BY <1>2, ConfigSoundCorrect, PTL

-----------------------------------------------------------------------------
(* The log: days and ticks.                                                *)

USE LoggerAssumption

LEMMA DayBounds ==
  \A t \in Int : DayOf(t) \in Int /\ Midnight(DayOf(t)) <= t /\ t < Midnight(DayOf(t)) + DayTicks
<1>1. ASSUME NEW k \in Nat \ {0}, NEW t \in Int
      PROVE  t \div k \in Int /\ (t \div k) * k <= t /\ t < (t \div k) * k + k
  OBVIOUS
<1> QED BY <1>1 DEF DayOf, Midnight

LEMMA DayMonotone == \A t, u \in Int : t <= u => DayOf(t) <= DayOf(u)
<1>1. ASSUME NEW k \in Nat \ {0}, NEW t \in Int, NEW u \in Int, t <= u PROVE t \div k <= u \div k
  BY <1>1
<1> QED BY <1>1 DEF DayOf

LEMMA DaysApart ==
  \A d, e \in Int : Midnight(d) \in Int /\ (d < e => Midnight(d) + DayTicks <= Midnight(e))
<1>1. ASSUME NEW k \in Nat \ {0}, NEW d \in Int, NEW e \in Int, d < e PROVE d * k + k <= e * k
  BY <1>1
<1>2. ASSUME NEW k \in Nat \ {0}, NEW d \in Int PROVE d * k \in Int
  OBVIOUS
<1> QED BY <1>1, <1>2 DEF Midnight

\* A day that is over for less than retentionDays_ has not expired, and an expired one is
\* earlier.
LEMMA Retention ==
  ASSUME clock \in Int, NEW d \in Int
  PROVE  /\ ~Expired(d) => DayOf(clock) - retentionDays_ <= d
         /\ Expired(d) => \A t \in Int : DayOf(t) = d => clock - t > (retentionDays_ - 1) * DayTicks
         /\ d \in Today => ~Expired(d)
<1> DEFINE r == retentionDays_
           kept == r * DayTicks
           c == DayOf(clock)
<1>1. /\ kept \in Int /\ (r - 1) * DayTicks = kept - DayTicks /\ kept >= DayTicks
      /\ Midnight(d + r) = Midnight(d) + kept
  <2>1. ASSUME NEW m \in Nat \ {0}, NEW k \in Nat \ {0}, NEW a \in Int
        PROVE  /\ m * k \in Int /\ (m - 1) * k = m * k - k /\ m * k >= k
               /\ (a + m) * k = a * k + m * k
    OBVIOUS
  <2> QED BY <2>1 DEF Midnight
<1>2. /\ Midnight(d) \in Int /\ Midnight(c) \in Int /\ c \in Int /\ Midnight(c) <= clock
      /\ Midnight(d + r) \in Int /\ d + r \in Int
  <2>1. c \in Int /\ Midnight(c) <= clock /\ d + r \in Int
    BY DayBounds
  <2> QED BY <2>1, DaysApart
<1>3. ASSUME ~Expired(d) PROVE c - r <= d
  <2> SUFFICES ASSUME d + r < c PROVE FALSE
    BY <1>2
  <2>1. Midnight(d + r) + DayTicks <= Midnight(c)
    BY <1>2, DaysApart
  <2> HIDE DEF kept, c
  <2>2. clock - Midnight(d) > kept
    BY <1>1, <1>2, <2>1
  <2> QED BY <1>3, <2>2 DEF Expired, kept
<1>4. ASSUME Expired(d), NEW t \in Int, DayOf(t) = d PROVE clock - t > (r - 1) * DayTicks
  <2>1. t < Midnight(d) + DayTicks
    BY <1>4, DayBounds
  <2>2. clock - Midnight(d) > kept
    BY <1>4 DEF Expired
  <2> HIDE DEF kept
  <2> QED BY <1>1, <1>2, <2>1, <2>2
<1>5. ASSUME d \in Today PROVE ~Expired(d)
  <2>1. clock <= Midnight(d) + DayTicks
    <3>1. PICK t \in {clock, clock - 1} : d = DayOf(t)
      BY <1>5 DEF Today
    <3> QED BY <1>2, <3>1, DayBounds
  <2> HIDE DEF kept
  <2>2. clock - Midnight(d) <= kept
    BY <1>1, <1>2, <2>1
  <2>3. ~ (clock - Midnight(d) > kept)
    BY <1>1, <1>2, <2>2
  <2> QED BY <2>3 DEF Expired, kept
<1> QED BY <1>3, <1>4, <1>5

-----------------------------------------------------------------------------
(* The log: the inductive invariant.                                       *)

\* No file is of a day to come, and since a removal that succeeded there are those of a
\* day and of the retentionDays_ before it, at most.
FilesInv ==
    /\ clock > 0
    /\ logFile => currentDate \in logFiles
    /\ \A e \in logFiles : e <= DayOf(clock)
    /\ cleaned => \E q \in Int : q <= DayOf(clock) /\ logFiles \subseteq (q - retentionDays_) .. q

\* The line is in its file until that expires.
LineInv ==
    /\ line # NoLine => line.at <= clock
    /\ lineKept /\ line # NoLine => line.file \in logFiles
    /\ ~lineKept => /\ line # NoLine
                    /\ \/ clock - line.at > (retentionDays_ - 1) * DayTicks
                       \/ DayOf(line.at) # line.file

LogInv == LogTypeOK /\ FilesInv /\ LineInv

\* Days are numbered no higher than ticks.
LEMMA DayType == \A t \in Nat : DayOf(t) \in Nat /\ DayOf(t) <= t
<1>1. ASSUME NEW k \in Nat \ {0}, NEW t \in Nat PROVE t \div k \in Nat /\ t \div k <= t
  OBVIOUS
<1> QED BY <1>1 DEF DayOf

LEMMA TodayType == LogTypeOK /\ clock > 0 => \A d \in Today : d \in 0 .. MaxTime /\ d <= DayOf(clock)
<1> SUFFICES ASSUME LogTypeOK, clock > 0, NEW t \in {clock, clock - 1}
             PROVE  DayOf(t) \in 0 .. MaxTime /\ DayOf(t) <= DayOf(clock)
  BY DEF Today
<1>1. t \in Nat /\ t <= clock /\ clock \in Nat /\ clock <= MaxTime
  BY DEF LogTypeOK
<1> QED BY <1>1, DayType, DayMonotone

\* What a clean-up leaves, of files up to today's.
LEMMA CleanedUp ==
  ASSUME LogTypeOK, clock > 0, NEW S \in SUBSET (0 .. MaxTime),
         \A e \in S : e <= DayOf(clock), cleanupOldLogs(S)
  PROVE  /\ logFiles' \subseteq 0 .. MaxTime /\ cleaned' \in BOOLEAN
         /\ \A e \in logFiles' : e <= DayOf(clock)
         /\ \A e \in S \ logFiles' : Expired(e)
         /\ cleaned' => logFiles' \subseteq (DayOf(clock) - retentionDays_) .. DayOf(clock)
<1>1. clock \in Int /\ DayOf(clock) \in Int
  BY DayBounds DEF LogTypeOK
<1>2. PICK gone \in SUBSET {e \in S : Expired(e)} :
        logFiles' = S \ gone /\ cleaned' = (\A e \in S \ gone : ~Expired(e))
  BY DEF cleanupOldLogs
<1>3. logFiles' \subseteq S /\ \A e \in S \ logFiles' : Expired(e)
  BY <1>2
<1>4. logFiles' \subseteq 0 .. MaxTime /\ \A e \in logFiles' : e <= DayOf(clock)
  BY <1>3
<1>5. ASSUME cleaned', NEW e \in logFiles'
      PROVE  e \in (DayOf(clock) - retentionDays_) .. DayOf(clock)
  <2>1. ~Expired(e)
    BY <1>2, <1>5
  <2>2. e \in Int /\ e <= DayOf(clock)
    BY <1>4
  <2>3. DayOf(clock) - retentionDays_ <= e
    BY <1>1, <2>1, <2>2, Retention
  <2> QED BY <1>1, <2>2, <2>3
<1> QED BY <1>2, <1>3, <1>4, <1>5

LEMMA LogInvInit == LogInit => LogInv
<1> SUFFICES ASSUME LogInit PROVE LogInv
  OBVIOUS
<1>1. /\ Midnight(FirstDay) \in Int /\ Midnight(FirstDay + 1) = (FirstDay + 1) * DayTicks
      /\ Midnight(FirstDay) + DayTicks <= Midnight(FirstDay + 1) /\ Midnight(FirstDay) > 0
  <2>1. ASSUME NEW k \in Nat \ {0}, NEW d \in Nat \ {0} PROVE d * k > 0
    OBVIOUS
  <2>2. Midnight(FirstDay) > 0 /\ Midnight(FirstDay + 1) = (FirstDay + 1) * DayTicks
    BY <2>1 DEF Midnight
  <2>3. FirstDay < FirstDay + 1 /\ FirstDay \in Int /\ FirstDay + 1 \in Int
    OBVIOUS
  <2> QED BY <2>2, <2>3, DaysApart
<1>2. clock \in Int /\ clock > 0 /\ Midnight(FirstDay) <= clock /\ clock < Midnight(FirstDay + 1)
      /\ clock <= MaxTime
  BY <1>1, DaysApart DEF LogInit
<1>3. DayOf(clock) = FirstDay
  <2>1. DayOf(clock) \in Int /\ Midnight(DayOf(clock)) <= clock
        /\ clock < Midnight(DayOf(clock)) + DayTicks /\ Midnight(DayOf(clock)) \in Int
    BY <1>2, DayBounds, DaysApart
  <2>2. ~ (DayOf(clock) < FirstDay)
    <3> SUFFICES ASSUME DayOf(clock) < FirstDay PROVE FALSE
      OBVIOUS
    <3>1. Midnight(DayOf(clock)) + DayTicks <= Midnight(FirstDay)
      BY <2>1, DaysApart
    <3> QED BY <1>1, <1>2, <2>1, <3>1
  <2>3. ~ (FirstDay + 1 <= DayOf(clock))
    <3> SUFFICES ASSUME FirstDay + 1 <= DayOf(clock) PROVE FALSE
      OBVIOUS
    <3>1. CASE FirstDay + 1 = DayOf(clock)
      BY <1>2, <2>1, <3>1
    <3>2. CASE FirstDay + 1 < DayOf(clock)
      <4>1. FirstDay + 1 \in Int /\ DayTicks >= 0
        OBVIOUS
      <4>2. /\ Midnight(FirstDay + 1) \in Int
            /\ Midnight(FirstDay + 1) + DayTicks <= Midnight(DayOf(clock))
        BY <2>1, <3>2, <4>1, DaysApart
      <4> QED BY <1>2, <2>1, <4>1, <4>2
    <3> QED BY <2>1, <3>1, <3>2
  <2> QED BY <2>1, <2>2, <2>3
<1>4. FirstDay <= MaxTime
  BY <1>2, <1>3, DayType
<1>5. /\ logFiles \in SUBSET (0 .. FirstDay) /\ (logFile => FirstDay \in logFiles)
      /\ cleaned = (\A e \in logFiles : ~Expired(e)) /\ logFile \in BOOLEAN
      /\ currentDate = FirstDay /\ writing = FALSE /\ line = NoLine /\ lineKept = TRUE
  BY DEF LogInit
<1>6. \A e \in logFiles : e \in 0 .. MaxTime /\ e <= FirstDay
  BY <1>4, <1>5
<1>7. LogTypeOK
  <2>1. clock \in 0 .. MaxTime /\ FirstDay \in 0 .. MaxTime /\ logFiles \subseteq 0 .. MaxTime
    BY <1>2, <1>4, <1>6
  <2> QED BY <1>5, <2>1 DEF LogTypeOK
<1>8. FilesInv
  <2>1. ASSUME cleaned PROVE logFiles \subseteq (FirstDay - retentionDays_) .. FirstDay
    <3>1. \A e \in logFiles : ~Expired(e)
      BY <1>5, <2>1
    <3>2. \A e \in logFiles : e \in Int /\ FirstDay - retentionDays_ <= e
      BY <1>2, <1>3, <1>6, <3>1, Retention
    <3> QED BY <1>6, <3>2
  <2>2. FirstDay \in Int /\ FirstDay <= DayOf(clock)
    BY <1>3
  <2> QED BY <1>2, <1>3, <1>5, <1>6, <2>1, <2>2 DEF FilesInv
<1> QED BY <1>5, <1>7, <1>8 DEF LogInv, LineInv

\* Opening a file of today keeps what the invariant says of files and of the line.
LEMMA OpenKeeps ==
  ASSUME LogInv, NEW d \in Today, Open(d), UNCHANGED <<clock, line>>, writing' \in BOOLEAN
  PROVE  LogInv'
<1> DEFINE files == IF logFile' THEN logFiles \cup {d} ELSE logFiles
<1>1. /\ LogTypeOK /\ clock > 0 /\ clock \in Int /\ DayOf(clock) \in Int
      /\ logFiles \in SUBSET (0 .. MaxTime) /\ \A e \in logFiles : e <= DayOf(clock)
  BY DayBounds DEF LogInv, FilesInv, LogTypeOK
<1>2. d \in 0 .. MaxTime /\ d <= DayOf(clock) /\ ~Expired(d)
  <2>1. d \in 0 .. MaxTime /\ d <= DayOf(clock)
    BY <1>1, TodayType
  <2> QED BY <1>1, <2>1, Retention
<1>3. /\ files \in SUBSET (0 .. MaxTime) /\ \A e \in files : e <= DayOf(clock)
      /\ logFiles \subseteq files /\ (logFile' => d \in files)
  BY <1>1, <1>2
<1>4. cleanupOldLogs(files) /\ currentDate' = d /\ logFile' \in BOOLEAN
  BY DEF Open
<1> HIDE DEF files
<1>5. /\ logFiles' \subseteq 0 .. MaxTime /\ cleaned' \in BOOLEAN
      /\ \A e \in logFiles' : e <= DayOf(clock)
      /\ \A e \in files \ logFiles' : Expired(e)
      /\ cleaned' => logFiles' \subseteq (DayOf(clock) - retentionDays_) .. DayOf(clock)
  BY <1>1, <1>3, <1>4, CleanedUp
<1>6. lineKept' \in BOOLEAN /\ (lineKept' <=> lineKept /\ (line # NoLine => line.file \in logFiles'))
  BY DEF Open, LogInv, LogTypeOK
<1>7. LogTypeOK'
  BY <1>2, <1>4, <1>5, <1>6 DEF LogInv, LogTypeOK, NoLine
<1>8. FilesInv'
  <2>1. logFile' => d \in logFiles'
    BY <1>2, <1>3, <1>5
  <2>2. DayOf(clock)' = DayOf(clock) /\ clock' > 0 /\ DayOf(clock) <= DayOf(clock)
    BY <1>1 DEF DayOf
  <2> QED BY <1>1, <1>4, <1>5, <2>1, <2>2 DEF FilesInv
<1>9. ASSUME lineKept, ~lineKept'
      PROVE  line # NoLine /\ \/ clock - line.at > (retentionDays_ - 1) * DayTicks
                              \/ DayOf(line.at) # line.file
  <2>1. line # NoLine /\ line.file \in logFiles /\ line.file \notin logFiles'
    BY <1>6, <1>9 DEF LogInv, LineInv
  <2>2. line.at \in Int /\ line.file \in Int
    BY <2>1 DEF LogInv, LogTypeOK
  <2>3. Expired(line.file)
    BY <1>3, <1>5, <2>1
  <2> QED BY <1>1, <2>1, <2>2, <2>3, Retention
<1>10. LineInv'
  BY <1>6, <1>9 DEF LogInv, LineInv, NoLine, DayOf
<1> QED BY <1>7, <1>8, <1>10 DEF LogInv

LEMMA LogTickKeeps == LogInv /\ Tick => LogInv'
<1> SUFFICES ASSUME LogInv, Tick PROVE LogInv'
  OBVIOUS
<1>1. clock \in Nat /\ clock' = clock + 1 /\ clock' \in 0 .. MaxTime /\ clock' > 0
  BY DEF LogInv, LogTypeOK, Tick
<1>2. LogTypeOK'
  <2>1. UNCHANGED <<logFiles, currentDate, logFile, writing, line, lineKept, cleaned>>
    BY DEF Tick
  <2> QED BY <1>1, <2>1 DEF LogInv, LogTypeOK, NoLine
<1>3. DayOf(clock) <= DayOf(clock') /\ DayOf(clock) \in Int /\ DayOf(clock') \in Int
  BY <1>1, DayMonotone, DayBounds
<1>4. FilesInv'
  <2>1. /\ UNCHANGED <<logFiles, currentDate, logFile, cleaned>>
        /\ logFile => currentDate \in logFiles
        /\ \A e \in logFiles : e \in Int /\ e <= DayOf(clock)
    BY DEF Tick, LogInv, FilesInv, LogTypeOK
  <2>2. \A e \in logFiles : e <= DayOf(clock')
    BY <1>3, <2>1
  <2>3. ASSUME cleaned
        PROVE  \E q \in Int : q <= DayOf(clock') /\ logFiles \subseteq (q - retentionDays_) .. q
    <3>1. PICK q \in Int : q <= DayOf(clock) /\ logFiles \subseteq (q - retentionDays_) .. q
      BY <2>3 DEF LogInv, FilesInv
    <3>2. q <= DayOf(clock')
      BY <1>3, <3>1
    <3> QED BY <3>1, <3>2
  <2>4. DayOf(clock)' = DayOf(clock')
    BY DEF DayOf
  <2> QED BY <1>1, <2>1, <2>2, <2>3, <2>4 DEF FilesInv
<1>5. LineInv'
  <2>1. UNCHANGED <<line, lineKept, logFiles>> /\ DayOf(line.at)' = DayOf(line.at)
    BY DEF Tick, DayOf
  <2>2. line # NoLine => line.at \in Int
    BY DEF LogInv, LogTypeOK
  <2>3. (retentionDays_ - 1) * DayTicks \in Int
    OBVIOUS
  <2>4. NoLine' = NoLine
    BY DEF NoLine
  <2> QED BY <1>1, <2>1, <2>2, <2>3, <2>4 DEF LogInv, LineInv
<1> QED BY <1>2, <1>4, <1>5 DEF LogInv

LEMMA WriteLineKeeps == LogInv /\ WriteLine => LogInv'
<1> SUFFICES ASSUME LogInv, WriteLine PROVE LogInv'
  OBVIOUS
<1>1. /\ UNCHANGED <<clock, logFiles, currentDate, lineKept, cleaned>> /\ writing' = FALSE
      /\ \/ line' = line
         \/ logFile /\ line = NoLine /\ line' = [file |-> currentDate, at |-> clock]
      /\ logFile' \in BOOLEAN /\ (logFile' => logFile)
  <2>1. /\ UNCHANGED <<clock, logFiles, currentDate, lineKept, cleaned>> /\ writing' = FALSE
        /\ \/ UNCHANGED <<line, logFile>>
           \/ /\ logFile /\ line = NoLine
              /\ line' = [file |-> currentDate, at |-> clock]
              /\ UNCHANGED logFile
           \/ logFile' = FALSE /\ UNCHANGED line
    BY Zenon DEF WriteLine
  <2>2. logFile \in BOOLEAN
    BY DEF LogInv, LogTypeOK
  <2>3. logFile' = logFile \/ logFile' = FALSE
    BY <2>1, Zenon
  <2>4. logFile' \in BOOLEAN
    <3>1. CASE logFile' = logFile
      BY <2>2, <3>1, Zenon
    <3>2. CASE logFile' = FALSE
      BY <3>2, Zenon
    <3> QED BY <2>3, <3>1, <3>2, Zenon
  <2>5. logFile' => logFile
    <3>1. CASE logFile' = logFile
      BY <3>1, Zenon
    <3>2. CASE logFile' = FALSE
      BY <3>2, Zenon
    <3> QED BY <2>3, <3>1, <3>2, Zenon
  <2>6. \/ line' = line
        \/ logFile /\ line = NoLine /\ line' = [file |-> currentDate, at |-> clock]
    BY <2>1, Zenon
  <2> QED BY <2>1, <2>4, <2>5, <2>6, Zenon
<1>2. clock \in 0 .. MaxTime /\ currentDate \in 0 .. MaxTime
  BY DEF LogInv, LogTypeOK
<1>3. LogTypeOK'
  <2>1. line' \in [file : 0 .. MaxTime, at : 0 .. MaxTime] \cup {NoLine}
    BY <1>1, <1>2 DEF LogInv, LogTypeOK
  <2> QED BY <1>1, <2>1 DEF LogInv, LogTypeOK, NoLine
<1>4. FilesInv'
  BY <1>1 DEF LogInv, FilesInv, DayOf
<1>5. LineInv'
  BY <1>1, <1>2 DEF LogInv, LineInv, FilesInv, NoLine, DayOf
<1> QED BY <1>3, <1>4, <1>5 DEF LogInv

LEMMA LogInvNext == LogInv /\ [LogNext]_logVars => LogInv'
<1> SUFFICES ASSUME LogInv, [LogNext]_logVars PROVE LogInv'
  OBVIOUS
<1>1. CASE UNCHANGED logVars
  BY <1>1 DEF logVars, LogInv, LogTypeOK, FilesInv, LineInv, NoLine, DayOf
<1>2. CASE Tick
  BY <1>2, LogTickKeeps
<1>3. CASE rotateIfNeeded
  <2>1. PICK d \in Today :
          IF d = currentDate THEN UNCHANGED <<logFiles, currentDate, logFile, lineKept, cleaned>>
          ELSE Open(d)
    BY <1>3 DEF rotateIfNeeded
  <2>2. UNCHANGED <<clock, line>> /\ writing' = TRUE
    BY <1>3 DEF rotateIfNeeded
  <2>3. CASE d = currentDate
    <3>1. /\ UNCHANGED <<clock, line, logFiles, currentDate, logFile, lineKept, cleaned>>
          /\ writing' \in BOOLEAN
      BY <2>1, <2>2, <2>3
    <3>2. LogTypeOK'
      BY <3>1 DEF LogInv, LogTypeOK, NoLine
    <3>3. FilesInv' /\ LineInv'
      BY <3>1 DEF LogInv, FilesInv, LineInv, NoLine, DayOf
    <3> QED BY <3>2, <3>3 DEF LogInv
  <2>4. CASE d # currentDate
    BY <2>1, <2>2, <2>4, OpenKeeps
  <2> QED BY <2>3, <2>4
<1>4. CASE WriteLine
  BY <1>4, WriteLineKeeps
<1>5. CASE RestartLogger
  <2>1. DayOf(clock) \in Today /\ Open(DayOf(clock)) /\ UNCHANGED <<clock, line>> /\ writing' = FALSE
    BY <1>5 DEF RestartLogger, Today
  <2> QED BY <2>1, OpenKeeps
<1> QED BY <1>1, <1>2, <1>3, <1>4, <1>5 DEF LogNext

LEMMA LogInvariant == LogSpec => []LogInv
BY LogInvInit, LogInvNext, PTL DEF LogSpec

\* The types: days and times stay within the bounds.
THEOREM LogTypeCorrect == LogSpec => []LogTypeOK
<1>1. LogInv => LogTypeOK
  BY DEF LogInv
<1> QED BY <1>1, LogInvariant, PTL

\* A line that reached its file is kept as long as it should be, lines only go to a file
\* that is there, and a clean-up that succeeds leaves no more files than are to be kept, and
\* one; whatever fails to open, to be written or to be removed before.
THEOREM LogKeptCorrect == LogSpec => []LogKept
<1>1. ASSUME LogInv, cleaned PROVE Cardinality(logFiles) <= retentionDays_ + 1
  <2>1. PICK q \in Int : logFiles \subseteq (q - retentionDays_) .. q
    BY <1>1 DEF LogInv, FilesInv
  <2>2. /\ IsFiniteSet((q - retentionDays_) .. q)
        /\ Cardinality((q - retentionDays_) .. q) = retentionDays_ + 1
    <3>1. ASSUME NEW a \in Int, NEW r \in Nat PROVE IsFiniteSet(a - r .. a) /\ Cardinality(a - r .. a) = r + 1
      <4>1. a - r \in Int /\ ~ (a - r > a) /\ a - (a - r) + 1 = r + 1
        OBVIOUS
      <4> QED BY <4>1, FS_Interval
    <3> QED BY <3>1
  <2>3. Cardinality(logFiles) <= Cardinality((q - retentionDays_) .. q)
    BY <2>1, <2>2, FS_Subset
  <2> QED BY <2>2, <2>3
<1>2. LogInv => LogKept
  BY <1>1 DEF LogInv, LineInv, FilesInv, LogKept
<1> QED BY <1>2, LogInvariant, PTL

-----------------------------------------------------------------------------
(* How commands come in: lemmas about the operators.                       *)

USE FrontEndAssumption

Pieces == {"nothing", "line", "headers", "body", "all"}

LEMMA PieceValues == {Piece[k] : k \in 1 .. 5} = Pieces
<1>1. /\ Piece[1] = "nothing" /\ Piece[2] = "line" /\ Piece[3] = "headers" /\ Piece[4] = "body"
      /\ Piece[5] = "all"
  BY DEF Piece
<1>2. \A k \in 1 .. 5 : k = 1 \/ k = 2 \/ k = 3 \/ k = 4 \/ k = 5
  OBVIOUS
<1>3. \A k \in 1 .. 5 : Piece[k] \in Pieces
  BY <1>1, <1>2 DEF Pieces
<1>4. 1 \in 1 .. 5 /\ 2 \in 1 .. 5 /\ 3 \in 1 .. 5 /\ 4 \in 1 .. 5 /\ 5 \in 1 .. 5
  OBVIOUS
<1>5. \A p \in Pieces : p \in {Piece[k] : k \in 1 .. 5}
  BY <1>1, <1>4 DEF Pieces
<1> QED BY <1>3, <1>5

\* main starts each service once, and the web service after the publishers.
LEMMA BootsOnce == \A k, l \in 1 .. 6 : Boots[k] = Boots[l] => k = l
<1>1. /\ Boots[1] = "scheduler" /\ Boots[2] = "mqtt" /\ Boots[3] = "mqttPublisher"
      /\ Boots[4] = "httpPublisher" /\ Boots[5] = "web" /\ Boots[6] = "up"
  BY DEF Boots
<1>2. \A k \in 1 .. 6 : k = 1 \/ k = 2 \/ k = 3 \/ k = 4 \/ k = 5 \/ k = 6
  OBVIOUS
<1> QED BY <1>1, <1>2

LEMMA PublishersBeforeWeb == Booted("web") => Booted("httpPublisher")
<1> SUFFICES ASSUME NEW k \in 1 .. 6, NEW l \in 1 .. 6, k <= l, Boots[k] = "web", Boots[l] = boot
             PROVE  Booted("httpPublisher")
  BY DEF Booted
<1>1. Boots[5] = "web" /\ Boots[4] = "httpPublisher" /\ 4 \in 1 .. 6 /\ 5 \in 1 .. 6
  BY DEF Boots
<1>2. k = 5
  BY <1>1, BootsOnce
<1> QED BY <1>1, <1>2 DEF Booted

LEMMA BootedStays ==
  ASSUME NEW step, Booted(step), boot' = boot \/ Boot
  PROVE  Booted(step)'
<1>1. PICK k, l \in 1 .. 6 : k <= l /\ Boots[k] = step /\ Boots[l] = boot
  BY DEF Booted
<1>2. CASE boot' = boot
  BY <1>1, <1>2 DEF Booted, Boots
<1>3. CASE Boot
  <2>1. PICK m \in 1 .. 5 : boot = Boots[m] /\ boot' = Boots[m + 1]
    BY <1>3 DEF Boot
  <2>2. m + 1 \in 1 .. 6 /\ m \in 1 .. 6 /\ l = m
    BY <1>1, <2>1, BootsOnce
  <2>3. k <= m + 1
    BY <1>1, <2>2
  <2>4. \E i, j \in 1 .. 6 : i <= j /\ Boots[i] = step /\ Boots[j] = boot'
    BY <1>1, <2>1, <2>2, <2>3
  <2> QED BY <2>4 DEF Booted, Boots
<1> QED BY <1>2, <1>3

LEMMA AnswerKinds ==
  ASSUME NEW path \in Routes \ {"file"}, NEW body \in Bodies, NEW kind \in Answers(path, body)
  PROVE  /\ kind \in {"invalid_json", "error", "accepted", "task", "path"}
         /\ kind = "task" => path # "other" /\ body \notin {"notJson", "notUtf8"}
BY DEF Answers, Routes, NeedsFields, Bodies

LEMMA Submitted ==
  ASSUME NEW s, NEW k, NEW b, NEW f, Submit(s, k, b, f)
  PROVE  \E n : /\ tasks' = tasks \cup {n}
                /\ n.source = s /\ n.kind = k /\ n.body = b /\ n.from = f
                /\ n.early <=> ~Booted("mqttPublisher")
<1> DEFINE n == [source |-> s, kind |-> k, body |-> b, from |-> f,
                 early |-> ~Booted("mqttPublisher"), id |-> Cardinality(tasks) + 1]
<1>1. tasks' = tasks \cup {n}
  BY DEF Submit
<1>2. n.source = s /\ n.kind = k /\ n.body = b /\ n.from = f
  OBVIOUS
<1>3. n.early <=> ~Booted("mqttPublisher")
  OBVIOUS
<1> HIDE DEF n
<1> QED BY <1>1, <1>2, <1>3

-----------------------------------------------------------------------------
(* How commands come in: the inductive invariant.                          *)

\* There is a publisher for what is submitted, but for early MQTT messages.
BootInv ==
    /\ \A c \in Client : conn[c] # "away" => Booted("web")
    /\ \A t \in tasks :
        /\ t.source \in {"http", "mqtt"}
        /\ t.source = "http" => Booted("httpPublisher")
        /\ t.source = "mqtt" => t.early \/ Booted("mqttPublisher")
    /\ CommandsDoNotEndIt

\* What is known of the path and of the body that were read.
PathRead(c) == got[c] # "nothing" /\ seen[c].route \in Paths(request[c], got[c]) \ {"file"}
BodyRead(c) ==
    /\ got[c] \in {"line", "headers"} => seen[c].body = "missing"
    /\ got[c] = "all" \/ (got[c] = "body" /\ request[c].length /\ present[c])
          => seen[c].body = request[c].body
    /\ seen[c].body \in {request[c].body} \cup CutBodies
Answered(c) == resp[c].kind \in Answers(seen[c].route, seen[c].body)

\* A JSON request is read before it is answered, and closed when it was.
JsonInv(c) ==
    /\ conn[c] \in {"rest", "handle", "reply"} => PathRead(c)
    /\ conn[c] \in {"handle", "reply"} => BodyRead(c)
    /\ conn[c] = "reply" => Answered(c)
    /\ conn[c] = "closed" /\ present[c] /\ request[c].route # "file" =>
          PathRead(c) /\ BodyRead(c) /\ Answered(c)

\* A file is announced with a size it has reached, and only sent as far as it has.
FileInvOf(c) ==
    /\ conn[c] \in {"open", "header", "content", "notFound"} => request[c].route = "file"
    /\ conn[c] \in {"header", "content"} => resp[c].kind = "file" /\ resp[c].length <= size
    /\ conn[c] = "notFound" => resp[c].kind # "file" \/ SendMayFail(c)
    /\ conn[c] = "closed" /\ ~SendMayFail(c) /\ resp[c].kind = "file" => sent[c] >= resp[c].length
    /\ sent[c] <= size

\* A connection's task is the one it was told of.
Own(c) == {t \in tasks : t.from = c}
TaskInv(c) ==
    /\ conn[c] \in {"away", "backlog", "recv", "rest", "handle", "open"} => resp[c].kind = "none"
    /\ conn[c] \in {"header", "content", "notFound"} => resp[c].kind # "task"
    /\ resp[c].kind # "task" => Own(c) = {}
    /\ resp[c].kind = "task" =>
          \E t : /\ Own(c) = {t} /\ t.kind = request[c].route
                 /\ t.body \in {request[c].body, "missing"}

ConnInv(c) == JsonInv(c) /\ FileInvOf(c) /\ TaskInv(c)

FrontInv == FrontTypeOK /\ BootInv /\ \A c \in Client : ConnInv(c)

LEMMA FrontInvInit == FrontInit => FrontInv
<1> SUFFICES ASSUME FrontInit PROVE FrontInv
  OBVIOUS
<1>1. FrontTypeOK
  <2>1. boot = Boots[1] /\ 1 \in 1 .. 6
    BY DEF FrontInit, Boots
  <2>2. {arrived, got} \subseteq [Client -> {Piece[k] : k \in 1 .. 5}]
    BY PieceValues DEF FrontInit, Pieces
  <2>3. \E k \in 1 .. 6 : boot = Boots[k]
    BY <2>1
  <2>4. /\ size \in 0 .. MaxSize /\ 0 \in 0 .. MaxSize /\ messages \in 0 .. MaxMessages
        /\ conn \in [Client -> States] /\ {present, reading} \subseteq [Client -> BOOLEAN]
    BY DEF FrontInit, States
  <2>5. /\ request \in [Client -> [route : Routes, body : Bodies, length : BOOLEAN]]
        /\ seen \in [Client -> [route : Routes, body : Bodies]]
    BY DEF FrontInit, Routes, Bodies
  <2>6. resp \in [Client -> [kind : Replies, length : 0 .. MaxSize]] /\ sent \in [Client -> 0 .. MaxSize]
    BY <2>4 DEF FrontInit, Replies, Says
  <2>7. /\ alive \in BOOLEAN /\ accepting \in BOOLEAN /\ mistyped \in BOOLEAN
        /\ exists \in BOOLEAN /\ started \subseteq tasks /\ wild \subseteq started
    BY DEF FrontInit
  <2> QED BY <2>2, <2>3, <2>4, <2>5, <2>6, <2>7 DEF FrontTypeOK
<1>2. BootInv
  BY DEF FrontInit, BootInv, CommandsDoNotEndIt
<1>3. ASSUME NEW c \in Client PROVE ConnInv(c)
  BY DEF FrontInit, ConnInv, JsonInv, FileInvOf, TaskInv, Own, Says
<1> QED BY <1>1, <1>2, <1>3 DEF FrontInv

\* A connection about which nothing changes, except that its client may leave and that
\* the file may grow.
LEMMA Unmoved ==
  ASSUME NEW c \in Client, ConnInv(c), FrontTypeOK, size' \in Nat, size <= size',
         conn'[c] = conn[c], got'[c] = got[c], seen'[c] = seen[c], resp'[c] = resp[c],
         sent'[c] = sent[c], request'[c] = request[c], present'[c] => present[c],
         reading'[c] => reading[c], Own(c)' = Own(c)
  PROVE  ConnInv(c)'
<1>1. JsonInv(c)'
  BY DEF ConnInv, JsonInv, PathRead, BodyRead, Answered, Paths, CutBodies, Answers, NeedsFields
<1>2. FileInvOf(c)'
  BY DEF ConnInv, FileInvOf, FrontTypeOK, SendMayFail
<1>3. TaskInv(c)'
  BY DEF ConnInv, TaskInv
<1> QED BY <1>1, <1>2, <1>3 DEF ConnInv

\* What every step leaves alone that only moves one connection.
LEMMA OthersKeep ==
  ASSUME FrontInv, NEW c \in Client, UNCHANGED <<request, present, reading, size>>,
         \A d \in Client \ {c} : /\ conn'[d] = conn[d] /\ got'[d] = got[d] /\ seen'[d] = seen[d]
                                 /\ resp'[d] = resp[d] /\ sent'[d] = sent[d] /\ Own(d)' = Own(d),
         ConnInv(c)'
  PROVE  \A d \in Client : ConnInv(d)'
<1>1. size' \in Nat /\ size <= size'
  BY DEF FrontInv, FrontTypeOK
<1>2. ASSUME NEW d \in Client \ {c} PROVE ConnInv(d)'
  BY <1>1, <1>2, Unmoved DEF FrontInv
<1> QED BY <1>2

-----------------------------------------------------------------------------
(* How commands come in: steps that answer nobody.                         *)

\* No task is added, and the services are what they were or one more.
LEMMA BootInvKeeps ==
  ASSUME FrontInv, boot' = boot \/ Boot, UNCHANGED <<alive, tasks, wild, mistyped>>,
         alive \/ UNCHANGED seen,
         \A c \in Client : conn'[c] # "away" => conn[c] # "away" \/ Booted("web")
  PROVE  BootInv'
<1>1. \A step : Booted(step) => Booted(step)'
  BY BootedStays
<1>2. \A c \in Client : conn'[c] # "away" => Booted("web")'
  BY <1>1 DEF FrontInv, BootInv
<1>3. \A t \in tasks' : /\ t.source \in {"http", "mqtt"}
                        /\ t.source = "http" => Booted("httpPublisher")'
                        /\ t.source = "mqtt" => t.early \/ Booted("mqttPublisher")'
  BY <1>1 DEF FrontInv, BootInv
<1>4. CommandsDoNotEndIt'
  BY DEF FrontInv, BootInv, CommandsDoNotEndIt
<1> QED BY <1>2, <1>3, <1>4 DEF BootInv

LEMMA BootKeeps == FrontInv /\ Boot => FrontInv'
<1> SUFFICES ASSUME FrontInv, Boot PROVE FrontInv'
  OBVIOUS
<1> USE DEF connectionVars, clientVars, diskVars, taskVars
<1>1. UNCHANGED <<alive, connectionVars, clientVars, diskVars, taskVars, messages, mistyped>>
  BY DEF Boot
<1>2. FrontTypeOK'
  <2>1. PICK k \in 1 .. 5 : boot' = Boots[k + 1]
    BY DEF Boot
  <2>2. k + 1 \in 1 .. 6 /\ boot' = Boots[k + 1]'
    BY <2>1 DEF Boots
  <2>3. accepting' \in BOOLEAN
    BY DEF Boot, FrontInv, FrontTypeOK
  <2> QED BY <1>1, <2>2, <2>3 DEF FrontInv, FrontTypeOK, Piece
<1>3. BootInv'
  BY <1>1, BootInvKeeps
<1>4. ASSUME NEW c \in Client PROVE ConnInv(c)'
  <2>1. Own(c)' = Own(c) /\ size' \in Nat /\ size <= size'
    BY <1>1 DEF Own, FrontInv, FrontTypeOK
  <2> QED BY <1>1, <2>1, Unmoved DEF FrontInv
<1> QED BY <1>2, <1>3, <1>4 DEF FrontInv

\* The client comes: it is in no thread's hands yet.
LEMMA ClientConnectsKeeps ==
  ASSUME FrontInv, NEW c \in Client, NEW r \in Requests, ClientConnects(c, r)
  PROVE  FrontInv'
<1> USE DEF ClientConnects, Turn, diskVars, taskVars
<1>1. /\ UNCHANGED <<boot, alive, accepting, got, seen, resp, sent, arrived, present, reading>>
      /\ UNCHANGED <<size, exists>>
      /\ UNCHANGED <<tasks, started, wild, messages, mistyped>>
      /\ conn' = [conn EXCEPT ![c] = "backlog"] /\ request' = [request EXCEPT ![c] = r]
      /\ conn[c] = "away" /\ Booted("web")
  OBVIOUS
<1>2. FrontTypeOK'
  <2>1. conn' \in [Client -> States]
    BY <1>1 DEF FrontInv, FrontTypeOK, States
  <2>2. request' \in [Client -> [route : Routes, body : Bodies, length : BOOLEAN]]
    <3>1. r \in [route : Routes, body : Bodies, length : BOOLEAN]
      BY DEF Requests
    <3> QED BY <1>1, <3>1 DEF FrontInv, FrontTypeOK
  <2> QED BY <1>1, <2>1, <2>2 DEF FrontInv, FrontTypeOK, Piece, Boots
<1>3. BootInv'
  <2>1. \A d \in Client : conn'[d] # "away" => conn[d] # "away" \/ Booted("web")
    BY <1>1
  <2> QED BY <1>1, <2>1, BootInvKeeps
<1>4. ASSUME NEW d \in Client PROVE ConnInv(d)'
  <2>1. Own(d)' = Own(d) /\ size' \in Nat /\ size <= size'
    BY <1>1 DEF Own, FrontInv, FrontTypeOK
  <2>2. CASE d # c
    <3>1. conn'[d] = conn[d] /\ request'[d] = request[d]
      BY <1>1, <2>2 DEF FrontInv, FrontTypeOK
    <3> QED BY <1>1, <2>1, <3>1, Unmoved DEF FrontInv
  <2>3. CASE d = c
    <3>1. conn'[c] = "backlog"
      BY <1>1 DEF FrontInv, FrontTypeOK
    <3>2. resp[c].kind = "none" /\ Own(c) = {} /\ sent[c] <= size
      BY <1>1 DEF FrontInv, ConnInv, TaskInv, FileInvOf
    <3> QED BY <1>1, <2>1, <2>3, <3>1, <3>2 DEF ConnInv, JsonInv, FileInvOf, TaskInv
  <2> QED BY <2>2, <2>3
<1> QED BY <1>2, <1>3, <1>4 DEF FrontInv

\* More of a request arrives, a client leaves, the file changes, or no more is accepted.
LEMMA ExternalKeeps ==
  ASSUME FrontInv, \/ FileChanges \/ AcceptFails
                   \/ \E c \in Client : ClientSends(c) \/ ClientLeaves(c) \/ ClientStops(c)
  PROVE  FrontInv'
<1> USE DEF connectionVars, clientVars, diskVars, taskVars
<1>1. /\ UNCHANGED <<boot, alive, connectionVars, request, taskVars, messages, mistyped>>
      /\ arrived' = arrived \/ \E c \in Client, l \in 1 .. 5 : arrived' = [arrived EXCEPT ![c] = Piece[l]]
      /\ present' = present \/ \E c \in Client : present' = [present EXCEPT ![c] = FALSE]
      /\ reading' = reading \/ \E c \in Client : reading' = [reading EXCEPT ![c] = FALSE]
      /\ accepting' = accepting \/ accepting' = FALSE
      /\ exists' = exists \/ exists' = FALSE
      /\ size' = size \/ (size < MaxSize /\ size' = size + 1)
  BY DEF FileChanges, AcceptFails, ClientSends, ClientLeaves, ClientStops
<1>2. size' \in 0 .. MaxSize /\ size <= size'
  BY <1>1 DEF FrontInv, FrontTypeOK
<1>3. FrontTypeOK'
  <2>1. arrived' \in [Client -> {Piece[k] : k \in 1 .. 5}]
    <3>1. arrived \in [Client -> {Piece[k] : k \in 1 .. 5}]
      BY DEF FrontInv, FrontTypeOK
    <3>2. CASE arrived' = arrived
      BY <3>1, <3>2
    <3>3. ASSUME NEW c \in Client, NEW l \in 1 .. 5, arrived' = [arrived EXCEPT ![c] = Piece[l]]
          PROVE  arrived' \in [Client -> {Piece[k] : k \in 1 .. 5}]
      <4>1. Piece[l] \in {Piece[k] : k \in 1 .. 5}
        OBVIOUS
      <4> QED BY <3>1, <3>3, <4>1
    <3> QED BY <1>1, <3>2, <3>3
  <2>2. /\ present' \in [Client -> BOOLEAN] /\ reading' \in [Client -> BOOLEAN]
        /\ accepting' \in BOOLEAN /\ exists' \in BOOLEAN
    BY <1>1 DEF FrontInv, FrontTypeOK
  <2> QED BY <1>1, <1>2, <2>1, <2>2 DEF FrontInv, FrontTypeOK, Piece, Boots
<1>4. BootInv'
  BY <1>1, BootInvKeeps
<1>5. ASSUME NEW c \in Client PROVE ConnInv(c)'
  <2>1. Own(c)' = Own(c) /\ size' \in Nat
    BY <1>1, <1>2 DEF Own
  <2>2. (present'[c] => present[c]) /\ (reading'[c] => reading[c])
    BY <1>1 DEF FrontInv, FrontTypeOK
  <2> QED BY <1>1, <1>2, <2>1, <2>2, Unmoved DEF FrontInv
<1> QED BY <1>3, <1>4, <1>5 DEF FrontInv

-----------------------------------------------------------------------------
(* How commands come in: the threads of connections.                       *)

\* A step of one connection that submits nothing: what is left to show.
LEMMA ServeKeeps ==
  ASSUME FrontInv, alive, NEW c \in Client,
         UNCHANGED <<boot, alive, accepting, clientVars, diskVars, taskVars, messages, mistyped>>,
         NEW at \in States \ {"away"}, conn' = [conn EXCEPT ![c] = at], conn[c] # "away",
         got' \in [Client -> {Piece[k] : k \in 1 .. 5}],
         seen' \in [Client -> [route : Routes, body : Bodies]],
         resp' \in [Client -> [kind : Replies, length : 0 .. MaxSize]],
         sent' \in [Client -> 0 .. MaxSize],
         \A d \in Client \ {c} : /\ got'[d] = got[d] /\ seen'[d] = seen[d]
                                 /\ resp'[d] = resp[d] /\ sent'[d] = sent[d],
         ConnInv(c)'
  PROVE  FrontInv'
<1> USE DEF clientVars, diskVars, taskVars
<1>1. conn' \in [Client -> States] /\ \A d \in Client \ {c} : conn'[d] = conn[d]
  BY DEF FrontInv, FrontTypeOK
<1>2. FrontTypeOK'
  BY <1>1 DEF FrontInv, FrontTypeOK, Piece, Boots
<1>3. BootInv'
  <2>1. \A d \in Client : conn'[d] # "away" => conn[d] # "away" \/ Booted("web")
    BY DEF FrontInv, FrontTypeOK
  <2> QED BY <2>1, BootInvKeeps
<1>4. \A d \in Client \ {c} : Own(d)' = Own(d)
  BY DEF Own
<1>5. \A d \in Client : ConnInv(d)'
  BY <1>1, <1>4, OthersKeep
<1> QED BY <1>2, <1>3, <1>5 DEF FrontInv

\* The types of what a connection has, and what reading changes of them.
LEMMA ConnTypes ==
  ASSUME FrontTypeOK, NEW c \in Client
  PROVE  /\ conn \in [Client -> States] /\ got \in [Client -> Pieces] /\ arrived \in [Client -> Pieces]
         /\ seen \in [Client -> [route : Routes, body : Bodies]]
         /\ request \in [Client -> [route : Routes, body : Bodies, length : BOOLEAN]]
         /\ resp \in [Client -> [kind : Replies, length : 0 .. MaxSize]]
         /\ sent \in [Client -> 0 .. MaxSize] /\ present \in [Client -> BOOLEAN]
         /\ size \in 0 .. MaxSize
BY PieceValues DEF FrontTypeOK

LEMMA SeenTypes ==
  ASSUME NEW f \in [Client -> [route : Routes, body : Bodies]], NEW c \in Client,
         NEW path \in Routes, NEW body \in Bodies, NEW g,
         \/ g = [f EXCEPT ![c].route = path]
         \/ g = [f EXCEPT ![c].body = body]
  PROVE  /\ g \in [Client -> [route : Routes, body : Bodies]]
         /\ \A d \in Client \ {c} : g[d] = f[d]
         /\ g = [f EXCEPT ![c].route = path] => g[c].route = path /\ g[c].body = f[c].body
         /\ g = [f EXCEPT ![c].body = body] => g[c].body = body /\ g[c].route = f[c].route
<1>1. f[c] \in [route : Routes, body : Bodies]
  OBVIOUS
<1>2. CASE g = [f EXCEPT ![c].route = path]
  <2>1. [f[c] EXCEPT !.route = path] \in [route : Routes, body : Bodies]
    BY <1>1
  <2>2. g[c] = [f[c] EXCEPT !.route = path] /\ \A d \in Client \ {c} : g[d] = f[d]
    BY <1>2
  <2>3. g[c].route = path /\ g[c].body = f[c].body
    BY <1>1, <2>2
  <2>4. DOMAIN g = Client /\ g = [d \in Client |-> g[d]]
    BY <1>2
  <2>5. \A d \in Client : g[d] \in [route : Routes, body : Bodies]
    BY <2>1, <2>2
  <2>6. g \in [Client -> [route : Routes, body : Bodies]]
    BY <2>4, <2>5
  <2>7. g = [f EXCEPT ![c].body = body] => g[c].body = body /\ g[c].route = f[c].route
    BY <1>1
  <2> QED BY <2>2, <2>3, <2>6, <2>7
<1>3. CASE g = [f EXCEPT ![c].body = body]
  <2>1. [f[c] EXCEPT !.body = body] \in [route : Routes, body : Bodies]
    BY <1>1
  <2>2. g[c] = [f[c] EXCEPT !.body = body] /\ \A d \in Client \ {c} : g[d] = f[d]
    BY <1>3
  <2>3. g[c].body = body /\ g[c].route = f[c].route
    BY <1>1, <2>2
  <2>4. DOMAIN g = Client /\ g = [d \in Client |-> g[d]]
    BY <1>3
  <2>5. \A d \in Client : g[d] \in [route : Routes, body : Bodies]
    BY <2>1, <2>2
  <2>6. g \in [Client -> [route : Routes, body : Bodies]]
    BY <2>4, <2>5
  <2>7. g = [f EXCEPT ![c].route = path] => g[c].route = path /\ g[c].body = f[c].body
    BY <1>1
  <2> QED BY <2>2, <2>3, <2>6, <2>7
<1> QED BY <1>2, <1>3

LEMMA AcceptKeeps ==
  ASSUME FrontInv, alive, NEW c \in Client, Accept(c)
  PROVE  FrontInv'
<1> USE DEF Accept, Turn
<1>1. conn' = [conn EXCEPT ![c] = "recv"] /\ conn[c] = "backlog" /\ "recv" \in States \ {"away"}
  BY DEF States
<1>2. conn'[c] = "recv" /\ FrontTypeOK
  BY <1>1 DEF FrontInv, FrontTypeOK
<1>3. UNCHANGED <<got, seen, resp, sent, clientVars, diskVars, taskVars>>
  OBVIOUS
<1>4. ConnInv(c)'
  <2>1. resp[c].kind = "none" /\ Own(c) = {} /\ sent[c] <= size
    BY <1>1 DEF FrontInv, ConnInv, TaskInv, FileInvOf
  <2> QED BY <1>2, <1>3, <2>1
          DEF ConnInv, JsonInv, FileInvOf, TaskInv, Own, clientVars, diskVars, taskVars
<1>5. /\ got \in [Client -> {Piece[k] : k \in 1 .. 5}]
      /\ seen \in [Client -> [route : Routes, body : Bodies]]
      /\ resp \in [Client -> [kind : Replies, length : 0 .. MaxSize]]
      /\ sent \in [Client -> 0 .. MaxSize]
  BY <1>2, Zenon DEF FrontTypeOK
<1>6. UNCHANGED <<boot, alive, accepting, clientVars, diskVars, taskVars, messages, mistyped>>
  OBVIOUS
<1>7. conn[c] # "away"
  BY <1>1
<1> QED BY <1>1, <1>3, <1>4, <1>5, <1>6, <1>7, ServeKeeps

\* What the first recv() shows of the path.
LEMMA ReceiveFirstKeeps ==
  ASSUME FrontInv, alive, NEW c \in Client, ReceiveFirst(c)
  PROVE  FrontInv'
<1> USE DEF clientVars, diskVars, taskVars
<1>1. /\ UNCHANGED <<boot, alive, accepting, resp, sent, clientVars, diskVars, taskVars, messages, mistyped>>
      /\ conn[c] = "recv" /\ FrontTypeOK
  BY DEF ReceiveFirst, FrontInv
<1>2. resp[c].kind = "none" /\ Own(c) = {} /\ sent[c] <= size /\ Own(c)' = Own(c)
  BY <1>1 DEF FrontInv, ConnInv, TaskInv, FileInvOf, Own
<1>3. CASE ~present[c] /\ Turn(c, "closed") /\ UNCHANGED <<got, seen>>
  <2>1. /\ conn' = [conn EXCEPT ![c] = "closed"] /\ conn'[c] = "closed" /\ "closed" \in States \ {"away"}
    BY <1>1, <1>3, ConnTypes DEF Turn, States
  <2>2. ConnInv(c)'
    BY <1>1, <1>2, <1>3, <2>1 DEF ConnInv, JsonInv, FileInvOf, TaskInv
  <2> QED BY <1>1, <1>3, <2>1, <2>2, ServeKeeps DEF FrontTypeOK
<1>4. ASSUME NEW path \in Paths(request[c], arrived[c]), arrived[c] # "nothing",
             got' = [got EXCEPT ![c] = arrived[c]], seen' = [seen EXCEPT ![c].route = path],
             Turn(c, IF path = "file" THEN "open" ELSE "rest")
      PROVE  FrontInv'
  <2>1. PICK at : at = IF path = "file" THEN "open" ELSE "rest"
    OBVIOUS
  <2>2. conn' = [conn EXCEPT ![c] = at] /\ conn'[c] = at /\ at \in States \ {"away"}
    BY <1>1, <1>4, <2>1, ConnTypes DEF Turn, States
  <2>3. path \in Routes /\ (path = "file" => request[c].route = "file")
    BY <1>1, ConnTypes DEF Paths, Routes
  <2>4. /\ got' \in [Client -> {Piece[k] : k \in 1 .. 5}] /\ got'[c] = arrived[c]
        /\ \A d \in Client \ {c} : got'[d] = got[d]
    BY <1>1, <1>4, PieceValues, ConnTypes
  <2>5. /\ seen' \in [Client -> [route : Routes, body : Bodies]] /\ seen'[c].route = path
        /\ \A d \in Client \ {c} : seen'[d] = seen[d]
    <3>1. seen \in [Client -> [route : Routes, body : Bodies]] /\ "missing" \in Bodies
      BY <1>1, ConnTypes DEF Bodies
    <3> QED BY <1>4, <2>3, <3>1, SeenTypes
  <2>6. ConnInv(c)'
    <3>1. at = "rest" => path # "file"
      BY <2>1
    <3>2. JsonInv(c)'
      BY <1>1, <1>4, <2>1, <2>2, <2>4, <2>5, <3>1 DEF JsonInv, PathRead, Paths
    <3>3. FileInvOf(c)' /\ TaskInv(c)'
      BY <1>1, <1>2, <2>1, <2>2, <2>3 DEF FileInvOf, TaskInv
    <3> QED BY <3>2, <3>3 DEF ConnInv
  <2>7. resp' \in [Client -> [kind : Replies, length : 0 .. MaxSize]] /\ sent' \in [Client -> 0 .. MaxSize]
    BY <1>1, ConnTypes
  <2> QED BY <1>1, <2>2, <2>4, <2>5, <2>6, <2>7, ServeKeeps
<1> QED BY <1>3, <1>4 DEF ReceiveFirst

\* What the following ones show of the body.
LEMMA ReceiveRestKeeps ==
  ASSUME FrontInv, alive, NEW c \in Client, ReceiveRest(c)
  PROVE  FrontInv'
<1> USE DEF clientVars, diskVars, taskVars
<1>1. /\ UNCHANGED <<boot, alive, accepting, got, resp, sent, clientVars, diskVars, taskVars, messages, mistyped>>
      /\ conn[c] = "rest" /\ ~Waits(c) /\ FrontTypeOK
      /\ conn' = [conn EXCEPT ![c] = "handle"] /\ "handle" \in States \ {"away"}
  BY DEF ReceiveRest, FrontInv, Turn, States
<1>2. /\ resp[c].kind = "none" /\ Own(c) = {} /\ sent[c] <= size /\ Own(c)' = Own(c) /\ PathRead(c)
  BY <1>1 DEF FrontInv, ConnInv, TaskInv, FileInvOf, JsonInv, Own
<1>3. PICK body \in BodiesRead(request[c], got[c], arrived[c]) : seen' = [seen EXCEPT ![c].body = body]
  BY DEF ReceiveRest
<1>4. body \in Bodies
  BY <1>1, <1>3, ConnTypes DEF BodiesRead, CutBodies, Bodies
<1>5. /\ seen' \in [Client -> [route : Routes, body : Bodies]]
      /\ seen'[c].route = seen[c].route /\ seen'[c].body = body
      /\ \A d \in Client \ {c} : seen'[d] = seen[d]
  <2>1. seen \in [Client -> [route : Routes, body : Bodies]] /\ "other" \in Routes
    BY <1>1, ConnTypes DEF Routes
  <2> QED BY <1>3, <1>4, <2>1, SeenTypes
<1>6. conn'[c] = "handle"
  BY <1>1, ConnTypes
<1>7. ConnInv(c)'
  <2>1. PathRead(c)'
    BY <1>1, <1>2, <1>5 DEF PathRead, Paths
  <2>2. BodyRead(c)'
    <3>1. got[c] \in {"line", "headers"} => body = "missing"
      BY <1>3 DEF BodiesRead
    <3>2. got[c] = "all" \/ (got[c] = "body" /\ request[c].length /\ present[c]) => body = request[c].body
      BY <1>1, <1>3 DEF BodiesRead, Waits
    <3>3. body \in {request[c].body} \cup CutBodies
      BY <1>3 DEF BodiesRead, CutBodies
    <3> QED BY <1>1, <1>5, <3>1, <3>2, <3>3 DEF BodyRead, CutBodies
  <2> QED BY <1>1, <1>2, <1>6, <2>1, <2>2 DEF ConnInv, JsonInv, FileInvOf, TaskInv
<1>8. /\ got' \in [Client -> {Piece[k] : k \in 1 .. 5}] /\ sent' \in [Client -> 0 .. MaxSize]
      /\ resp' \in [Client -> [kind : Replies, length : 0 .. MaxSize]]
  BY <1>1, PieceValues, ConnTypes
<1> QED BY <1>1, <1>5, <1>7, <1>8, ServeKeeps

\* The request is answered, and a task submitted if that is the answer.
LEMMA HandleHttpKeeps ==
  ASSUME FrontInv, alive, NEW c \in Client, handleHttp(c)
  PROVE  FrontInv'
<1> USE DEF clientVars, diskVars, taskVars
<1>1. /\ UNCHANGED <<boot, alive, accepting, got, seen, sent, clientVars, diskVars, started, wild, messages, mistyped>>
      /\ conn[c] = "handle" /\ FrontTypeOK
      /\ conn' = [conn EXCEPT ![c] = "reply"] /\ "reply" \in States
  BY DEF handleHttp, FrontInv, Turn, States
<1>2. /\ resp[c].kind = "none" /\ Own(c) = {} /\ sent[c] <= size /\ PathRead(c) /\ BodyRead(c)
      /\ Booted("httpPublisher")
  BY <1>1, PublishersBeforeWeb DEF FrontInv, BootInv, ConnInv, TaskInv, FileInvOf, JsonInv
<1>3. PICK kind \in Answers(seen[c].route, seen[c].body) :
         /\ resp' = [resp EXCEPT ![c] = Says(kind)]
         /\ IF kind = "task" THEN Submit("http", seen[c].route, seen[c].body, c) ELSE UNCHANGED tasks
  BY DEF handleHttp
<1>4. /\ seen[c].route \in Routes \ {"file"} /\ seen[c].body \in Bodies
      /\ kind \in {"invalid_json", "error", "accepted", "task", "path"}
      /\ kind = "task" => seen[c].route # "other" /\ seen[c].body \notin {"notJson", "notUtf8"}
  BY <1>1, <1>2, AnswerKinds, ConnTypes DEF PathRead
<1>5. /\ resp' \in [Client -> [kind : Replies, length : 0 .. MaxSize]]
      /\ resp'[c].kind = kind /\ \A d \in Client \ {c} : resp'[d] = resp[d]
  <2>1. Says(kind) \in [kind : Replies, length : 0 .. MaxSize] /\ Says(kind).kind = kind
    BY <1>4 DEF Says, Replies
  <2> QED BY <1>1, <1>3, <2>1, ConnTypes
<1>6. /\ conn' \in [Client -> States] /\ conn'[c] = "reply"
      /\ \A d \in Client \ {c} : conn'[d] = conn[d]
  BY <1>1, ConnTypes
<1>7. tasks \subseteq tasks' /\ \A t \in tasks' : t \in tasks \/ (t.source = "http" /\ t.from = c)
  BY <1>3, Submitted
<1>8. FrontTypeOK'
  BY <1>1, <1>5, <1>6, <1>7 DEF FrontTypeOK, Piece, Boots
<1>9. BootInv'
  <2>1. \A step : Booted(step) => Booted(step)'
    BY <1>1, BootedStays
  <2>2. \A d \in Client : conn'[d] # "away" => Booted("web")'
    BY <1>1, <1>6, <2>1 DEF FrontInv, BootInv
  <2>3. \A t \in tasks' : /\ t.source \in {"http", "mqtt"}
                          /\ t.source = "http" => Booted("httpPublisher")'
                          /\ t.source = "mqtt" => t.early \/ Booted("mqttPublisher")'
    BY <1>2, <1>7, <2>1 DEF FrontInv, BootInv
  <2>4. CommandsDoNotEndIt'
    BY <1>1 DEF FrontInv, BootInv, CommandsDoNotEndIt
  <2> QED BY <2>2, <2>3, <2>4 DEF BootInv
<1>10. \A d \in Client \ {c} : Own(d)' = Own(d)
  BY <1>7 DEF Own
<1>11. ConnInv(c)'
  <2>1. JsonInv(c)'
    BY <1>1, <1>2, <1>5, <1>6
       DEF JsonInv, PathRead, BodyRead, Answered, Paths, CutBodies, Answers, NeedsFields
  <2>2. FileInvOf(c)'
    BY <1>1, <1>2, <1>6 DEF FileInvOf
  <2>3. ASSUME kind = "task" PROVE TaskInv(c)'
    <3>1. PICK n : tasks' = tasks \cup {n} /\ n.kind = seen[c].route /\ n.body = seen[c].body /\ n.from = c
      BY <1>3, <2>3, Submitted
    <3>2. Own(c)' = {n}
      BY <1>2, <3>1 DEF Own
    <3>3. n.kind = request[c].route
      BY <1>2, <1>4, <2>3, <3>1 DEF PathRead, Paths
    <3>4. n.body \in {request[c].body, "missing"}
      BY <1>2, <1>4, <2>3, <3>1 DEF BodyRead, CutBodies
    <3> QED BY <1>1, <1>5, <1>6, <2>3, <3>2, <3>3, <3>4 DEF TaskInv
  <2>4. ASSUME kind # "task" PROVE TaskInv(c)'
    <3>1. Own(c)' = {}
      BY <1>2, <1>3, <2>4 DEF Own
    <3> QED BY <1>5, <1>6, <2>4, <3>1 DEF TaskInv
  <2>5. TaskInv(c)'
    BY <2>3, <2>4
  <2> QED BY <2>1, <2>2, <2>5 DEF ConnInv
<1>12. \A d \in Client : ConnInv(d)'
  BY <1>1, <1>5, <1>6, <1>10, <1>11, OthersKeep
<1> QED BY <1>8, <1>9, <1>12 DEF FrontInv

\* The answer is sent; one that is no text ends the process.
LEMMA ReplyKeeps ==
  ASSUME FrontInv, alive, NEW c \in Client, Reply(c)
  PROVE  FrontInv'
<1> USE DEF clientVars, diskVars, taskVars
<1>1. /\ UNCHANGED <<boot, accepting, got, seen, resp, sent, clientVars, diskVars, taskVars, messages, mistyped>>
      /\ conn[c] = "reply" /\ FrontTypeOK
      /\ conn' = [conn EXCEPT ![c] = "closed"] /\ "closed" \in States
      /\ alive' \in BOOLEAN /\ (~alive' => seen[c].body = "notUtf8")
  BY DEF Reply, FrontInv, Turn, States
<1>2. /\ conn' \in [Client -> States] /\ conn'[c] = "closed"
      /\ \A d \in Client \ {c} : conn'[d] = conn[d]
  BY <1>1, ConnTypes
<1>3. FrontTypeOK'
  BY <1>1, <1>2 DEF FrontTypeOK, Piece, Boots
<1>4. BootInv'
  <2>1. \A step : Booted(step) => Booted(step)'
    BY <1>1, BootedStays
  <2>2. \A d \in Client : conn'[d] # "away" => Booted("web")'
    BY <1>1, <1>2, <2>1 DEF FrontInv, BootInv
  <2>3. \A t \in tasks' : /\ t.source \in {"http", "mqtt"}
                          /\ t.source = "http" => Booted("httpPublisher")'
                          /\ t.source = "mqtt" => t.early \/ Booted("mqttPublisher")'
    BY <1>1, <2>1 DEF FrontInv, BootInv
  <2>4. CommandsDoNotEndIt'
    BY <1>1 DEF FrontInv, BootInv, CommandsDoNotEndIt
  <2> QED BY <2>2, <2>3, <2>4 DEF BootInv
<1>5. ConnInv(c)'
  <2>1. PathRead(c) /\ BodyRead(c) /\ Answered(c) /\ TaskInv(c) /\ sent[c] <= size
    BY <1>1 DEF FrontInv, ConnInv, JsonInv, FileInvOf
  <2>2. resp[c].kind # "file"
    BY <1>1, <2>1, AnswerKinds, ConnTypes DEF Answered, PathRead
  <2>3. JsonInv(c)'
    BY <1>1, <1>2, <2>1
       DEF JsonInv, PathRead, BodyRead, Answered, Paths, CutBodies, Answers, NeedsFields
  <2>4. FileInvOf(c)'
    BY <1>1, <1>2, <2>1, <2>2 DEF FileInvOf
  <2>5. Own(c)' = Own(c)
    BY <1>1 DEF Own
  <2>6. TaskInv(c)'
    BY <1>1, <1>2, <2>1, <2>5 DEF TaskInv
  <2> QED BY <2>3, <2>4, <2>6 DEF ConnInv
<1>6. \A d \in Client : Own(d)' = Own(d)
  BY <1>1 DEF Own
<1>7. \A d \in Client : ConnInv(d)'
  BY <1>1, <1>2, <1>5, <1>6, OthersKeep
<1> QED BY <1>3, <1>4, <1>7 DEF FrontInv

\* A file that is there is announced with its size.
LEMMA StatFileKeeps ==
  ASSUME FrontInv, alive, NEW c \in Client, StatFile(c)
  PROVE  FrontInv'
<1> USE DEF clientVars, diskVars, taskVars
<1>1. /\ UNCHANGED <<boot, alive, accepting, got, seen, sent, clientVars, diskVars, taskVars, messages, mistyped>>
      /\ conn[c] = "open" /\ FrontTypeOK
  BY DEF StatFile, FrontInv
<1>2. /\ resp[c].kind = "none" /\ Own(c) = {} /\ sent[c] <= size /\ Own(c)' = Own(c)
      /\ request[c].route = "file"
  BY <1>1 DEF FrontInv, ConnInv, TaskInv, FileInvOf, Own
<1>3. \/ resp' = [resp EXCEPT ![c] = [kind |-> "file", length |-> size]]
         /\ conn' = [conn EXCEPT ![c] = "header"]
      \/ resp' = resp /\ conn' = [conn EXCEPT ![c] = "notFound"]
  BY DEF StatFile, Turn
<1>4. /\ got' \in [Client -> {Piece[k] : k \in 1 .. 5}] /\ sent' \in [Client -> 0 .. MaxSize]
      /\ seen' \in [Client -> [route : Routes, body : Bodies]]
      /\ size \in 0 .. MaxSize /\ {"header", "notFound"} \subseteq States \ {"away"}
  BY <1>1, PieceValues, ConnTypes DEF States
<1>5. CASE resp' = [resp EXCEPT ![c] = [kind |-> "file", length |-> size]]
           /\ conn' = [conn EXCEPT ![c] = "header"]
  <2>1. /\ resp' \in [Client -> [kind : Replies, length : 0 .. MaxSize]]
        /\ resp'[c] = [kind |-> "file", length |-> size] /\ conn'[c] = "header"
        /\ \A d \in Client \ {c} : resp'[d] = resp[d]
    <3>1. [kind |-> "file", length |-> size] \in [kind : Replies, length : 0 .. MaxSize]
      BY <1>4 DEF Replies
    <3> QED BY <1>1, <1>5, <3>1, ConnTypes
  <2>2. ConnInv(c)'
    BY <1>1, <1>2, <1>4, <2>1 DEF ConnInv, JsonInv, FileInvOf, TaskInv
  <2> QED BY <1>1, <1>4, <1>5, <2>1, <2>2, ServeKeeps
<1>6. CASE resp' = resp /\ conn' = [conn EXCEPT ![c] = "notFound"]
  <2>1. conn'[c] = "notFound" /\ resp' \in [Client -> [kind : Replies, length : 0 .. MaxSize]]
    BY <1>1, <1>6, ConnTypes
  <2>2. ConnInv(c)'
    BY <1>1, <1>2, <1>6, <2>1 DEF ConnInv, JsonInv, FileInvOf, TaskInv
  <2> QED BY <1>1, <1>4, <1>6, <2>1, <2>2, ServeKeeps
<1> QED BY <1>3, <1>5, <1>6

\* It is opened, or the client is told that there is none.
LEMMA SendHeaderKeeps ==
  ASSUME FrontInv, alive, NEW c \in Client, SendHeader(c)
  PROVE  FrontInv'
<1> USE DEF clientVars, diskVars, taskVars
<1>1. /\ UNCHANGED <<boot, alive, accepting, got, seen, sent, clientVars, diskVars, taskVars, messages, mistyped>>
      /\ conn[c] = "header" /\ FrontTypeOK
  BY DEF SendHeader, FrontInv
<1>2. /\ resp[c].kind = "file" /\ resp[c].length <= size /\ Own(c) = {} /\ sent[c] <= size
      /\ Own(c)' = Own(c) /\ request[c].route = "file"
  BY <1>1 DEF FrontInv, ConnInv, TaskInv, FileInvOf, Own
<1>3. \/ resp' = resp /\ conn' = [conn EXCEPT ![c] = "content"]
      \/ resp' = [resp EXCEPT ![c] = Says("none")] /\ conn' = [conn EXCEPT ![c] = "notFound"]
  BY DEF SendHeader, Turn
<1>4. /\ got' \in [Client -> {Piece[k] : k \in 1 .. 5}] /\ sent' \in [Client -> 0 .. MaxSize]
      /\ seen' \in [Client -> [route : Routes, body : Bodies]]
      /\ {"content", "notFound"} \subseteq States \ {"away"}
  BY <1>1, PieceValues, ConnTypes DEF States
<1>5. CASE resp' = resp /\ conn' = [conn EXCEPT ![c] = "content"]
  <2>1. conn'[c] = "content" /\ resp' \in [Client -> [kind : Replies, length : 0 .. MaxSize]]
    BY <1>1, <1>5, ConnTypes
  <2>2. ConnInv(c)'
    BY <1>1, <1>2, <1>5, <2>1 DEF ConnInv, JsonInv, FileInvOf, TaskInv
  <2> QED BY <1>1, <1>4, <1>5, <2>1, <2>2, ServeKeeps
<1>6. CASE resp' = [resp EXCEPT ![c] = Says("none")] /\ conn' = [conn EXCEPT ![c] = "notFound"]
  <2>1. /\ resp' \in [Client -> [kind : Replies, length : 0 .. MaxSize]]
        /\ resp'[c].kind = "none" /\ conn'[c] = "notFound"
        /\ \A d \in Client \ {c} : resp'[d] = resp[d]
    <3>1. Says("none") \in [kind : Replies, length : 0 .. MaxSize] /\ Says("none").kind = "none"
      BY DEF Replies, Says
    <3> QED BY <1>1, <1>6, <3>1, ConnTypes
  <2>2. ConnInv(c)'
    BY <1>1, <1>2, <2>1 DEF ConnInv, JsonInv, FileInvOf, TaskInv
  <2> QED BY <1>1, <1>4, <1>6, <2>1, <2>2, ServeKeeps
<1> QED BY <1>3, <1>5, <1>6

\* What is sent was in the file, and the last of it ends where the file ended then.
LEMMA SendContentKeeps ==
  ASSUME FrontInv, alive, NEW c \in Client, SendContent(c)
  PROVE  FrontInv'
<1> USE DEF clientVars, diskVars, taskVars
<1>1. /\ UNCHANGED <<boot, alive, accepting, got, seen, resp, clientVars, diskVars, taskVars, messages, mistyped>>
      /\ conn[c] = "content" /\ FrontTypeOK
  BY DEF SendContent, FrontInv
<1>2. /\ resp[c].kind = "file" /\ resp[c].length <= size /\ Own(c) = {} /\ sent[c] <= size
      /\ Own(c)' = Own(c) /\ request[c].route = "file"
  BY <1>1 DEF FrontInv, ConnInv, TaskInv, FileInvOf, Own
<1>3. PICK left, bytes, more : /\ left = size - sent[c]
                               /\ bytes = IF left < Chunk THEN left ELSE Chunk
                               /\ more <=> left >= Chunk
  OBVIOUS
<1>4. \/ /\ sent' = [sent EXCEPT ![c] = @ + bytes]
         /\ conn' = [conn EXCEPT ![c] = IF left >= Chunk THEN "content" ELSE "closed"]
      \/ SendMayFail(c) /\ sent' = sent /\ conn' = [conn EXCEPT ![c] = "notFound"]
  BY <1>3 DEF SendContent, Turn, LastRead
<1>5. /\ got' \in [Client -> {Piece[k] : k \in 1 .. 5}]
      /\ resp' \in [Client -> [kind : Replies, length : 0 .. MaxSize]]
      /\ seen' \in [Client -> [route : Routes, body : Bodies]]
      /\ {"content", "closed", "notFound"} \subseteq States \ {"away"}
      /\ sent[c] \in Nat /\ size \in 0 .. MaxSize
  BY <1>1, PieceValues, ConnTypes DEF States
<1>6. CASE sent' = [sent EXCEPT ![c] = @ + bytes]
           /\ conn' = [conn EXCEPT ![c] = IF left >= Chunk THEN "content" ELSE "closed"]
  <2>1. PICK at : at = IF left >= Chunk THEN "content" ELSE "closed"
    OBVIOUS
  <2>2. /\ sent[c] + bytes \in 0 .. MaxSize /\ sent[c] + bytes <= size
        /\ at = "closed" => sent[c] + bytes = size
    BY <1>2, <1>3, <1>5, <2>1
  <2>3. /\ sent' \in [Client -> 0 .. MaxSize] /\ sent'[c] = sent[c] + bytes /\ conn'[c] = at
        /\ \A d \in Client \ {c} : sent'[d] = sent[d]
    BY <1>1, <1>6, <2>1, <2>2, ConnTypes
  <2>4. ConnInv(c)'
    BY <1>1, <1>2, <1>5, <2>1, <2>2, <2>3 DEF ConnInv, JsonInv, FileInvOf, TaskInv
  <2> QED BY <1>1, <1>5, <1>6, <2>1, <2>3, <2>4, ServeKeeps
<1>7. CASE SendMayFail(c) /\ sent' = sent /\ conn' = [conn EXCEPT ![c] = "notFound"]
  <2>1. conn'[c] = "notFound" /\ sent' \in [Client -> 0 .. MaxSize]
    BY <1>1, <1>7, ConnTypes
  <2>2. ConnInv(c)'
    BY <1>1, <1>2, <1>7, <2>1 DEF ConnInv, JsonInv, FileInvOf, TaskInv, SendMayFail
  <2> QED BY <1>1, <1>5, <1>7, <2>1, <2>2, ServeKeeps
<1> QED BY <1>4, <1>6, <1>7

LEMMA ReplyNotFoundKeeps ==
  ASSUME FrontInv, alive, NEW c \in Client, ReplyNotFound(c)
  PROVE  FrontInv'
<1> USE DEF clientVars, diskVars, taskVars
<1>1. /\ UNCHANGED <<boot, alive, accepting, got, seen, resp, sent, clientVars, diskVars, taskVars, messages, mistyped>>
      /\ conn[c] = "notFound" /\ FrontTypeOK
      /\ conn' = [conn EXCEPT ![c] = "closed"] /\ "closed" \in States \ {"away"}
  BY DEF ReplyNotFound, FrontInv, Turn, States
<1>2. conn'[c] = "closed" /\ Own(c)' = Own(c)
  BY <1>1, ConnTypes DEF Own
<1>3. ConnInv(c)'
  BY <1>1, <1>2 DEF FrontInv, ConnInv, JsonInv, FileInvOf, TaskInv, SendMayFail
<1> QED BY <1>1, <1>3, ServeKeeps DEF FrontTypeOK

-----------------------------------------------------------------------------
(* How commands come in: messages and workers.                             *)

\* Nothing happens to connections, and their tasks are the same.
LEMMA MessagesKeep ==
  ASSUME FrontInv, UNCHANGED <<connectionVars, clientVars, diskVars>>,
         \A t \in tasks' : t \in tasks \/ t.from = "mqtt", tasks \subseteq tasks'
  PROVE  \A c \in Client : ConnInv(c)'
<1> SUFFICES ASSUME NEW c \in Client PROVE ConnInv(c)'
  OBVIOUS
<1>1. c # "mqtt"
  OBVIOUS
<1>2. Own(c)' = Own(c) /\ size' \in Nat /\ size <= size'
  BY <1>1 DEF Own, FrontInv, FrontTypeOK, diskVars
<1> QED BY <1>2, Unmoved DEF FrontInv, connectionVars, clientVars, diskVars

\* A message is dropped, becomes a task, or ends the process if its types are wrong.
LEMMA OnMessageKeeps ==
  ASSUME FrontInv, alive, NEW m \in Order, onMessage(m)
  PROVE  FrontInv'
<1> USE DEF connectionVars, clientVars, diskVars
<1>1. /\ UNCHANGED <<boot, accepting, connectionVars, clientVars, diskVars, started, wild>>
      /\ messages < MaxMessages /\ messages' = messages + 1
      /\ mistyped' = (mistyped \/ m.body = "wrongType")
  BY DEF onMessage
<1>2. PICK what \in Dispatch(m) :
         /\ IF what = "task" THEN Submit("mqtt", m.route, m.body, "mqtt") ELSE UNCHANGED tasks
         /\ alive' = (what # "throws")
  BY DEF onMessage
<1>3. what = "throws" => m.body = "wrongType"
  <2>1. m.route \in Topics /\ m.body \in Bodies
    OBVIOUS
  <2> QED BY <1>2, <2>1 DEF Dispatch, Bodies
<1>4. /\ tasks \subseteq tasks'
      /\ \A t \in tasks' : t \in tasks \/ /\ t.source = "mqtt" /\ t.from = "mqtt"
                                          /\ t.early <=> ~Booted("mqttPublisher")
  BY <1>2, Submitted
<1>5. FrontTypeOK'
  <2>1. messages' \in 0 .. MaxMessages /\ alive' \in BOOLEAN /\ mistyped' \in BOOLEAN
    BY <1>1, <1>2 DEF FrontInv, FrontTypeOK
  <2> QED BY <1>1, <1>4, <2>1 DEF FrontInv, FrontTypeOK, Piece, Boots
<1>6. BootInv'
  <2>1. \A step : Booted(step) => Booted(step)'
    BY <1>1, BootedStays
  <2>2. \A c \in Client : conn'[c] # "away" => Booted("web")'
    BY <1>1, <2>1 DEF FrontInv, BootInv
  <2>3. \A t \in tasks' : /\ t.source \in {"http", "mqtt"}
                          /\ t.source = "http" => Booted("httpPublisher")'
                          /\ t.source = "mqtt" => t.early \/ Booted("mqttPublisher")'
    BY <1>4, <2>1 DEF FrontInv, BootInv
  <2>4. CommandsDoNotEndIt'
    BY <1>1, <1>2, <1>3 DEF FrontInv, BootInv, CommandsDoNotEndIt
  <2> QED BY <2>2, <2>3, <2>4 DEF BootInv
<1>7. \A c \in Client : ConnInv(c)'
  BY <1>1, <1>4, MessagesKeep
<1> QED BY <1>5, <1>6, <1>7 DEF FrontInv

\* A task whose publisher is not set is an early one that came by MQTT.
LEMMA StartTaskKeeps ==
  ASSUME FrontInv, alive, NEW t \in tasks, StartTask(t)
  PROVE  FrontInv'
<1> USE DEF connectionVars, clientVars, diskVars
<1>1. /\ UNCHANGED <<boot, accepting, connectionVars, clientVars, diskVars, tasks, messages, mistyped>>
      /\ started' = started \cup {t}
      /\ \/ wild' = wild /\ alive' = alive
         \/ ~Booted(PublisherOf(t.source)) /\ wild' = wild \cup {t} /\ alive' \in BOOLEAN
  BY DEF StartTask
<1>2. ~Booted(PublisherOf(t.source)) => t.source = "mqtt" /\ t.early
  BY DEF FrontInv, BootInv, PublisherOf
<1>3. FrontTypeOK'
  BY <1>1 DEF FrontInv, FrontTypeOK, Piece, Boots
<1>4. BootInv'
  <2>1. \A step : Booted(step) => Booted(step)'
    BY <1>1, BootedStays
  <2>2. \A c \in Client : conn'[c] # "away" => Booted("web")'
    BY <1>1, <2>1 DEF FrontInv, BootInv
  <2>3. \A u \in tasks' : /\ u.source \in {"http", "mqtt"}
                          /\ u.source = "http" => Booted("httpPublisher")'
                          /\ u.source = "mqtt" => u.early \/ Booted("mqttPublisher")'
    BY <1>1, <2>1 DEF FrontInv, BootInv
  <2>4. CommandsDoNotEndIt'
    BY <1>1, <1>2 DEF FrontInv, BootInv, CommandsDoNotEndIt
  <2> QED BY <2>2, <2>3, <2>4 DEF BootInv
<1>5. \A c \in Client : ConnInv(c)'
  BY <1>1, MessagesKeep
<1> QED BY <1>3, <1>4, <1>5 DEF FrontInv

LEMMA FrontInvNext == FrontInv /\ [FrontNext]_frontVars => FrontInv'
<1> SUFFICES ASSUME FrontInv, [FrontNext]_frontVars PROVE FrontInv'
  OBVIOUS
<1>1. CASE UNCHANGED frontVars
  <2> USE <1>1 DEF frontVars, connectionVars, clientVars, diskVars, taskVars
  <2>1. FrontTypeOK'
    BY DEF FrontInv, FrontTypeOK, Piece, Boots
  <2>2. BootInv'
    BY BootInvKeeps DEF FrontInv, BootInv
  <2>3. \A c \in Client : ConnInv(c)'
    BY MessagesKeep
  <2> QED BY <2>1, <2>2, <2>3 DEF FrontInv
<1>2. CASE Boot
  BY <1>2, BootKeeps
<1>3. CASE \/ FileChanges \/ AcceptFails
          \/ \E c \in Client : ClientSends(c) \/ ClientLeaves(c) \/ ClientStops(c)
  BY <1>3, ExternalKeeps
<1>4. ASSUME NEW c \in Client, NEW r \in Requests, ClientConnects(c, r) PROVE FrontInv'
  BY <1>4, ClientConnectsKeeps
<1>5. ASSUME alive, NEW c \in Client, Accept(c) \/ Serve(c) PROVE FrontInv'
  BY <1>5, AcceptKeeps, ReceiveFirstKeeps, ReceiveRestKeeps, HandleHttpKeeps, ReplyKeeps,
     StatFileKeeps, SendHeaderKeeps, SendContentKeeps, ReplyNotFoundKeeps DEF Serve
<1>6. ASSUME alive, NEW m \in Order, onMessage(m) PROVE FrontInv'
  BY <1>6, OnMessageKeeps
<1>7. ASSUME alive, NEW t \in tasks, StartTask(t) PROVE FrontInv'
  BY <1>7, StartTaskKeeps
<1> QED BY <1>1, <1>2, <1>3, <1>4, <1>5, <1>6, <1>7 DEF FrontNext

LEMMA FrontInvariant == FrontSpec => []FrontInv
BY FrontInvInit, FrontInvNext, PTL DEF FrontSpec

-----------------------------------------------------------------------------
(* How commands come in: the theorems.                                     *)

\* The types, also of what is read and sent in pieces.
THEOREM FrontTypeCorrect == FrontSpec => []FrontTypeOK
<1>1. FrontInv => FrontTypeOK
  BY DEF FrontInv
<1> QED BY <1>1, FrontInvariant, PTL

\* A client that waits is answered what its request deserves, and told of one task if and
\* only if one was submitted.
THEOREM UnderstoodCorrect == FrontSpec => []RequestUnderstood
<1>1. FrontInv => RequestUnderstood
  <2> SUFFICES ASSUME FrontInv, NEW c \in Client
      PROVE  /\ conn[c] = "closed" /\ present[c] /\ request[c].route # "file" =>
                   \/ resp[c].kind \in Answers(request[c].route, request[c].body)
                   \/ got[c] \in {"line", "headers"}
                   \/ got[c] = "body" /\ ~request[c].length
             /\ conn[c] \in {"reply", "closed"} /\ resp[c].kind = "task" =>
                   /\ Cardinality(Own(c)) = 1
                   /\ \A t \in Own(c) : /\ t.kind = request[c].route
                                        /\ t.body \in {request[c].body, "missing"}
             /\ resp[c].kind # "task" => Own(c) = {}
    BY DEF RequestUnderstood, Own
  <2>1. ConnInv(c) /\ FrontTypeOK
    BY DEF FrontInv
  <2>2. ASSUME conn[c] = "closed", present[c], request[c].route # "file",
               got[c] \notin {"line", "headers"}, ~(got[c] = "body" /\ ~request[c].length)
        PROVE  resp[c].kind \in Answers(request[c].route, request[c].body)
    <3>1. PathRead(c) /\ BodyRead(c) /\ Answered(c)
      BY <2>1, <2>2 DEF ConnInv, JsonInv
    <3>2. seen[c].route = request[c].route
      BY <2>2, <3>1 DEF PathRead, Paths
    <3>3. got[c] \in Pieces /\ request[c].length \in BOOLEAN
      BY <2>1, ConnTypes
    <3>4. seen[c].body = request[c].body
      BY <2>2, <3>1, <3>3 DEF PathRead, BodyRead, Pieces
    <3> QED BY <3>1, <3>2, <3>4 DEF Answered
  <2>3. ASSUME resp[c].kind = "task"
        PROVE  /\ Cardinality(Own(c)) = 1
               /\ \A t \in Own(c) : /\ t.kind = request[c].route
                                    /\ t.body \in {request[c].body, "missing"}
    BY <2>1, <2>3, FS_Singleton DEF ConnInv, TaskInv
  <2>4. resp[c].kind # "task" => Own(c) = {}
    BY <2>1 DEF ConnInv, TaskInv
  <2> QED BY <2>2, <2>3, <2>4
<1> QED BY <1>1, FrontInvariant, PTL

\* A client that stays gets as much of a file as was announced.
THEOREM FileServedCorrect == FrontSpec => []FileServedWhole
<1>1. FrontInv => FileServedWhole
  BY DEF FrontInv, ConnInv, FileInvOf, FileServedWhole, SendMayFail
<1> QED BY <1>1, FrontInvariant, PTL

\* Every task but an early one from MQTT finds its publisher, and commands end the process
\* for three reasons only.
THEOREM CommandsCorrect == FrontSpec => []CommandsDoNotEndIt
<1>1. FrontInv => CommandsDoNotEndIt
  BY DEF FrontInv, BootInv
<1> QED BY <1>1, FrontInvariant, PTL
=============================================================================
