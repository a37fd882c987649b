---------------------------- MODULE ConfigUpdate ----------------------------
(***************************************************************************)
(* src/config/update_config.cpp: an UpdateConfigTask writes the received   *)
(* text to temp.json, reads that file back, validates it and renames it    *)
(* over config.json, which ConfigParser reads once, when the process       *)
(* starts.  Every updater uses the same two paths and there is no lock.    *)
(*                                                                         *)
(* The file system is external: a path names an inode, an open stream      *)
(* writes to the inode it opened even when the path has changed since, and *)
(* rename() is atomic.  The process may be killed at any step; what was    *)
(* written stays in the files (a power failure is not modelled).           *)
(***************************************************************************)
EXTENDS Naturals

CONSTANTS Updater,   \* the pool workers that run an UpdateConfigTask
          Doc,       \* the texts that are received
          Valid,     \* those that pass validateJsonFormat and validateBusinessLogic
          Loadable,  \* those that ConfigParser reads without an exception
          FirstDoc,  \* what config.json holds at first
          Inode,     \* the files of the file system
          NoInode, Empty, Torn    \* no file; the contents of a truncated, a half-written file

ASSUME ConfigAssumption ==
    /\ Valid \subseteq Doc /\ Loadable \subseteq Doc /\ FirstDoc \in Valid \cap Loadable
    /\ NoInode \notin Inode
    /\ Empty \notin Doc /\ Torn \notin Doc /\ Empty # Torn

VARIABLES
    temp,     \* the inode TEMP_FILE_PATH names
    config,   \* the inode CONFIG_FILE_PATH names
    content,  \* what each inode holds
    phase,    \* where each updater is in updateConfig()
    doc,      \* receivedJsonMessage
    stream,   \* the inode its tempFile stream has opened
    success,  \* UpdateConfigResult::isSuccess
    loaded    \* ConfigParser: what it has found in config.json

VARIABLE before   \* history: what config.json held when the call began

fileVars == <<temp, config, content>>
callVars == <<phase, doc, stream, success, before>>
cfgVars == <<fileVars, callVars, loaded>>

Texts == Doc \cup {Empty, Torn}
Phases == {"idle", "open", "write", "validate", "rename", "remove", "returned"}

CfgTypeOK ==
    /\ temp \in Inode \cup {NoInode} /\ config \in Inode
    /\ content \in [Inode -> Texts]
    /\ phase \in [Updater -> Phases]
    /\ doc \in [Updater -> Doc]
    /\ stream \in [Updater -> Inode \cup {NoInode}]
    /\ success \in [Updater -> BOOLEAN]
    /\ loaded \in Texts /\ before \in [Updater -> Texts]

CfgInit ==
    /\ temp = NoInode
    /\ config \in Inode
    /\ content = [i \in Inode |-> IF i = config THEN FirstDoc ELSE Empty]
    /\ phase = [u \in Updater |-> "idle"]
    /\ doc = [u \in Updater |-> FirstDoc]
    /\ stream = [u \in Updater |-> NoInode]
    /\ success = [u \in Updater |-> FALSE]
    /\ loaded = FirstDoc
    /\ before = [u \in Updater |-> FirstDoc]

At(u, label) == phase[u] = label
Enter(u, label) == phase' = [phase EXCEPT ![u] = label]

-----------------------------------------------------------------------------
(* updateConfig().                                                         *)

\* A text with which loadFromFile throws ends the process at each start; with one that is
\* no JSON it returns false, and main goes on without devices.
Running == loaded \in Doc => loaded \in Loadable

CallUpdate(u, d) ==
    /\ Running /\ At(u, "idle")
    /\ doc' = [doc EXCEPT ![u] = d]
    /\ success' = [success EXCEPT ![u] = FALSE]
    /\ before' = [before EXCEPT ![u] = content[config]]
    /\ Enter(u, "open")
    /\ UNCHANGED <<fileVars, stream, loaded>>

\* No path and no stream leads to it.
Free(i) == i # temp /\ i # config /\ \A u \in Updater : stream[u] # i

\* Mutant of OpenTemp: the text is written to config.json itself.
OpenConfig(u) ==
    /\ At(u, "open")
    /\ stream' = [stream EXCEPT ![u] = config]
    /\ content' = [content EXCEPT ![config] = Empty]
    /\ Enter(u, "write")
    /\ UNCHANGED <<temp, config, doc, success, before, loaded>>

\* Line 13: the file is created, or the existing one is truncated.
OpenTemp(u) ==
    /\ At(u, "open")
    /\ IF temp = NoInode THEN \E i \in Inode : Free(i) /\ temp' = i ELSE UNCHANGED temp
    /\ stream' = [stream EXCEPT ![u] = temp']
    /\ content' = [content EXCEPT ![temp'] = Empty]
    /\ Enter(u, "write")
    /\ UNCHANGED <<config, doc, success, before, loaded>>

\* Lines 14-18 and 246-249: it cannot be opened; nothing is removed.
OpenFails(u) ==
    /\ At(u, "open")
    /\ Enter(u, "returned")
    /\ UNCHANGED <<fileVars, doc, stream, success, before, loaded>>

\* Lines 21-24: the text is written and the stream closed.  Where another stream
\* has written before, its longer text shows behind this one.
WriteTemp(u) ==
    /\ At(u, "write")
    /\ \E t \in IF content[stream[u]] = Empty THEN {doc[u]} ELSE {doc[u], Torn} :
          content' = [content EXCEPT ![stream[u]] = t]
    /\ stream' = [stream EXCEPT ![u] = NoInode]
    /\ Enter(u, "validate")
    /\ UNCHANGED <<temp, config, doc, success, before, loaded>>

\* Lines 26-30 and 246-249: the disk is full; what was written stays.
WriteFails(u) ==
    /\ At(u, "write")
    /\ content' = [content EXCEPT ![stream[u]] = Torn]
    /\ stream' = [stream EXCEPT ![u] = NoInode]
    /\ Enter(u, "returned")
    /\ UNCHANGED <<temp, config, doc, success, before, loaded>>

\* Lines 252-263: whatever temp.json holds now is read, parsed and validated.
Validate(u) ==
    /\ At(u, "validate")
    /\ Enter(u, IF temp # NoInode /\ content[temp] \in Valid THEN "rename" ELSE "remove")
    /\ UNCHANGED <<fileVars, doc, stream, success, before, loaded>>

\* Mutant of Rename: a copy, which may stop half-way.
CopyTemp(u) ==
    /\ At(u, "rename")
    /\ temp # NoInode
    /\ \/ /\ content' = [content EXCEPT ![config] = content[temp]]
          /\ success' = [success EXCEPT ![u] = TRUE]
          /\ Enter(u, "returned")
       \/ /\ content' = [content EXCEPT ![config] = Torn]
          /\ UNCHANGED success
          /\ Enter(u, "remove")
    /\ UNCHANGED <<temp, config, doc, stream, before, loaded>>

\* Lines 266-277: whatever temp.json is now becomes config.json.
Rename(u) ==
    /\ At(u, "rename")
    /\ temp # NoInode
    /\ config' = temp
    /\ temp' = NoInode
    /\ success' = [success EXCEPT ![u] = TRUE]
    /\ Enter(u, "returned")
    /\ UNCHANGED <<content, doc, stream, before, loaded>>

\* Mutant of RenameFails: the return value of rename() is not looked at.
RenameFailsUnnoticed(u) ==
    /\ At(u, "rename")
    /\ success' = [success EXCEPT ![u] = TRUE]
    /\ Enter(u, "returned")
    /\ UNCHANGED <<fileVars, doc, stream, before, loaded>>

\* Lines 267-272.
RenameFails(u) ==
    /\ At(u, "rename")
    /\ Enter(u, "remove")
    /\ UNCHANGED <<fileVars, doc, stream, success, before, loaded>>

\* Lines 254, 262 and 271: the temporary file is removed, if there is one.
RemoveTemp(u) ==
    /\ At(u, "remove")
    /\ temp' = NoInode
    /\ Enter(u, "returned")
    /\ UNCHANGED <<config, content, doc, stream, success, before, loaded>>

\* The task publishes the result.
TakeResult(u) ==
    /\ At(u, "returned")
    /\ Enter(u, "idle")
    /\ doc' = [doc EXCEPT ![u] = FirstDoc]
    /\ success' = [success EXCEPT ![u] = FALSE]
    /\ before' = [before EXCEPT ![u] = FirstDoc]
    /\ UNCHANGED <<fileVars, stream, loaded>>

\* The process is killed and started again: it reads config.json (main.cpp).
Restart ==
    /\ phase' = [u \in Updater |-> "idle"]
    /\ doc' = [u \in Updater |-> FirstDoc]
    /\ stream' = [u \in Updater |-> NoInode]
    /\ success' = [u \in Updater |-> FALSE]
    /\ before' = [u \in Updater |-> FirstDoc]
    /\ loaded' = content[config]
    /\ UNCHANGED fileVars

CfgNext ==
    \/ \E u \in Updater :
        \/ \E d \in Doc : CallUpdate(u, d)
        \/ OpenTemp(u) \/ OpenFails(u) \/ WriteTemp(u) \/ WriteFails(u) \/ Validate(u)
        \/ Rename(u) \/ RenameFails(u) \/ RemoveTemp(u) \/ TakeResult(u)
    \/ Restart

CfgSpec == CfgInit /\ [][CfgNext]_cfgVars

-----------------------------------------------------------------------------
(* Properties.                                                             *)

\* update_config.cpp:266 "validation succeeded: atomically replace the original": at
\* every moment, so whenever the process is killed, config.json is a complete text
\* that has passed the validation, and so is what a restarted process works with.
ConfigSound == content[config] \in Valid /\ loaded \in Valid

\* An update that reports success has put its own text into config.json.
SuccessMeansInstalled ==
    \A u \in Updater : At(u, "returned") /\ success[u] => content[config] = doc[u]

\* update_config.cpp:269 "Original config untouched": an update that fails, wherever it
\* does, leaves config.json as it was.
FailureLeavesConfig ==
    \A u \in Updater : At(u, "returned") /\ ~success[u] => content[config] = before[u]
=============================================================================
