------------------------------ MODULE PlcStatus ------------------------------
(***************************************************************************)
(* src/plc/plc_manager.cpp as DeviceManager::operatePlc and ::getStatus    *)
(* use it: pool workers operate devices and ask for statuses while the     *)
(* refresh thread queries every PLC.  All traffic with the PLCs is under   *)
(* connectorMutex_ (ioLock); the sections of cacheMutex_ are single steps. *)
(*                                                                         *)
(* The registers of the PLCs are the outside world.  clock counts the      *)
(* writes they have executed, and a reading is stamped with it: it is what *)
(* the properties call the age of a status.  The 8 s of CACHE_TTL and the  *)
(* 5 s of REFRESH_INTERVAL are abstracted: Expire and RefreshStarts may    *)
(* happen at any time.                                                     *)
(***************************************************************************)
EXTENDS Naturals

CONSTANTS Client,     \* the threads that call operatePlc() or getStatus()
          Refresher,  \* refreshThread_
          Plc,        \* the configured PLCs, the keys of plcConfigs_
          Dev,        \* the configured PLC devices, the keys of deviceConfigs_
          PlcOf,      \* the PLC of a device
          Wired,      \* the PLCs with a known connection type: plcConnectors_
          Operable,   \* the devices of a known type: devices_
          Command,    \* what callers ask for
          MaxWrites,  \* bound on the writes the PLCs execute
          NoProc, NoDev, NoPlc

ASSUME PlcAssumption ==
    /\ Refresher \notin Client /\ NoProc \notin Client \cup {Refresher}
    /\ NoDev \notin Dev /\ NoPlc \notin Plc
    /\ PlcOf \in [Dev -> Plc]
    /\ Wired \subseteq Plc
    /\ Operable \subseteq {d \in Dev : PlcOf[d] \in Wired}
    /\ "other" \in Command
    /\ MaxWrites \in Nat

VARIABLES
    valve,     \* external: the register of each device
    clock,     \* external: how many writes have been executed
    online,    \* the PLCs whose connector is CONNECTED: decided once, at boot
    ioLock,    \* connectorMutex_
    cache,     \* statusCache_: per PLC the statuses read, {} when there is no entry
    fresh,     \* the PLCs whose entry has not expired
    pc,        \* where each thread is
    target,    \* the device a client operates, NoDev when it only asks
    command,   \* what it wants to write
    ok,        \* OperateResult::success
    todo,      \* the PLCs whose status the thread has still to get
    asked,     \* the PLC queryHardwareStatus was called for
    part,      \* queryHardwareStatus: the statuses read so far
    answer     \* the statuses got so far

VARIABLES
    wroteAt,   \* history: the clock of a client's own write
    settled,   \* history: per device, the last write whose operate() has dropped the cache
    floor,     \* history: settled when the thread began to ask
    writer     \* history: whose write a register holds

worldVars == <<valve, clock, online, writer>>
cacheVars == <<cache, fresh>>
askVars   == <<todo, asked, part, answer>>
callVars  == <<target, command, ok, wroteAt>>
plcVars   == <<worldVars, ioLock, cacheVars, pc, askVars, callVars, settled, floor>>

Proc == Client \cup {Refresher}
Bit == {"0", "1"}

\* A PLCDeviceStatus: the device, its status, and the clock at which it was read.
Reading == [dev : Dev, status : Bit \cup {"ERROR", "UNKNOWN"}, at : 0 .. MaxWrites]
DevsOf(q) == {d \in Dev : PlcOf[d] = q}       \* plcIdToDevices_

\* SolenoidValvePLCDevice::writeControl; any other command is refused.
Value(cmd) == CASE cmd \in {"ON", "1"} -> "1"
                [] cmd \in {"OFF", "0"} -> "0"
                [] OTHER -> "invalid"

Label == {"idle", "write", "erase", "lookup", "query", "reading"}

PlcTypeOK ==
    /\ valve \in [Dev -> Bit] /\ clock \in 0 .. MaxWrites /\ online \subseteq Wired
    /\ ioLock \in Proc \cup {NoProc}
    /\ cache \in [Plc -> SUBSET Reading] /\ fresh \subseteq Plc
    /\ pc \in [Proc -> Label]
    /\ target \in [Proc -> Dev \cup {NoDev}] /\ command \in [Proc -> Command]
    /\ ok \in [Proc -> BOOLEAN]
    /\ todo \in [Proc -> SUBSET Plc] /\ asked \in [Proc -> Plc \cup {NoPlc}]
    /\ part \in [Proc -> SUBSET Reading] /\ answer \in [Proc -> SUBSET Reading]
    /\ wroteAt \in [Proc -> 0 .. MaxWrites]
    /\ settled \in [Dev -> 0 .. MaxWrites]
    /\ floor \in [Proc -> [Dev -> 0 .. MaxWrites]]
    /\ writer \in [Dev -> Proc \cup {NoProc}]

PlcInit ==
    /\ valve \in [Dev -> Bit] /\ clock = 0 /\ online \in SUBSET Wired
    /\ ioLock = NoProc
    /\ cache = [q \in Plc |-> {}] /\ fresh = {}
    /\ pc = [p \in Proc |-> "idle"]
    /\ target = [p \in Proc |-> NoDev] /\ command = [p \in Proc |-> "other"]
    /\ ok = [p \in Proc |-> FALSE]
    /\ todo = [p \in Proc |-> {}] /\ asked = [p \in Proc |-> NoPlc]
    /\ part = [p \in Proc |-> {}] /\ answer = [p \in Proc |-> {}]
    /\ wroteAt = [p \in Proc |-> 0]
    /\ settled = [d \in Dev |-> 0]
    /\ floor = [p \in Proc |-> [d \in Dev |-> 0]]
    /\ writer = [d \in Dev |-> NoProc]

Goto(p, label) == pc' = [pc EXCEPT ![p] = label]

-----------------------------------------------------------------------------
(* PLCManager::operate, called by DeviceManager::operatePlc.               *)

\* Lines 220-227: a device that cannot be operated fails here; operatePlc goes
\* on to ask for its status in any case.
CallOperate(p, d, cmd) ==
    /\ pc[p] = "idle"
    /\ target' = [target EXCEPT ![p] = d]
    /\ command' = [command EXCEPT ![p] = cmd]
    /\ ok' = [ok EXCEPT ![p] = FALSE]
    /\ todo' = [todo EXCEPT ![p] = {PlcOf[d]}]
    /\ floor' = [floor EXCEPT ![p] = settled]
    /\ Goto(p, IF d \in Operable THEN "write" ELSE "lookup")
    /\ UNCHANGED <<worldVars, ioLock, cacheVars, asked, part, answer, wroteAt, settled>>

\* The PLC executes the write; its reply may be lost.
Executed(p) ==
    /\ clock < MaxWrites
    /\ PlcOf[target[p]] \in online
    /\ Value(command[p]) \in Bit
    /\ valve' = [valve EXCEPT ![target[p]] = Value(command[p])]
    /\ clock' = clock + 1
    /\ writer' = [writer EXCEPT ![target[p]] = p]
    /\ wroteAt' = [wroteAt EXCEPT ![p] = clock + 1]
    /\ ok' \in {ok, [ok EXCEPT ![p] = TRUE]}

NotExecuted == UNCHANGED <<valve, clock, writer, wroteAt, ok>>

\* Mutant of Write: the cache is dropped after a failure.
WriteErasesOnFailure(p) ==
    /\ pc[p] = "write"
    /\ ioLock = NoProc
    /\ Executed(p) \/ NotExecuted
    /\ Goto(p, IF ok'[p] THEN "lookup" ELSE "erase")
    /\ UNCHANGED <<online, ioLock, cacheVars, askVars, target, command, settled, floor>>

\* Lines 231-234, with writeControl: the write takes place under connectorMutex_.
\* Only a success goes on to line 237.
Write(p) ==
    /\ pc[p] = "write"
    /\ ioLock = NoProc
    /\ Executed(p) \/ NotExecuted
    /\ Goto(p, IF ok'[p] THEN "erase" ELSE "lookup")
    /\ UNCHANGED <<online, ioLock, cacheVars, askVars, target, command, settled, floor>>

\* Mutant of Erase: the entry stays.
EraseNothing(p) ==
    /\ pc[p] = "erase"
    /\ settled' = [settled EXCEPT ![target[p]] = IF @ < wroteAt[p] THEN wroteAt[p] ELSE @]
    /\ floor' = [floor EXCEPT ![p] = settled']
    /\ Goto(p, "lookup")
    /\ UNCHANGED <<worldVars, ioLock, cacheVars, askVars, callVars>>

\* Lines 237-249: the entry of the PLC is dropped.
Erase(p) ==
    /\ pc[p] = "erase"
    /\ cache' = [cache EXCEPT ![PlcOf[target[p]]] = {}]
    /\ fresh' = fresh \ {PlcOf[target[p]]}
    /\ settled' = [settled EXCEPT ![target[p]] = IF @ < wroteAt[p] THEN wroteAt[p] ELSE @]
    /\ floor' = [floor EXCEPT ![p] = settled']
    /\ Goto(p, "lookup")
    /\ UNCHANGED <<worldVars, ioLock, askVars, callVars>>

-----------------------------------------------------------------------------
(* Asking for statuses.                                                    *)

\* getAllStatus, lines 190-199 (operatePlc ends with getStatus of one device).
CallGetAllStatus(p) ==
    /\ pc[p] = "idle"
    /\ todo' = [todo EXCEPT ![p] = Plc]
    /\ floor' = [floor EXCEPT ![p] = settled]
    /\ Goto(p, "lookup")
    /\ UNCHANGED <<worldVars, ioLock, cacheVars, asked, part, answer, callVars, settled>>

\* Lines 203-212: an entry that has not expired is the answer.
CacheHit(p, q) ==
    /\ pc[p] = "lookup" /\ q \in todo[p]
    /\ q \in fresh
    /\ answer' = [answer EXCEPT ![p] = @ \cup cache[q]]
    /\ todo' = [todo EXCEPT ![p] = @ \ {q}]
    /\ UNCHANGED <<worldVars, ioLock, cacheVars, pc, asked, part, callVars, settled, floor>>

\* Line 217: otherwise the hardware is queried.
CacheMiss(p, q) ==
    /\ pc[p] = "lookup" /\ q \in todo[p]
    /\ q \notin fresh
    /\ asked' = [asked EXCEPT ![p] = q]
    /\ Goto(p, "query")
    /\ UNCHANGED <<worldVars, ioLock, cacheVars, todo, part, answer, callVars, settled, floor>>

\* Lines 73-81: a round of the refresh thread queries every PLC, cached or not.
RefreshStarts ==
    /\ pc[Refresher] = "idle"
    /\ todo' = [todo EXCEPT ![Refresher] = Plc]
    /\ Goto(Refresher, "lookup")
    /\ UNCHANGED <<worldVars, ioLock, cacheVars, asked, part, answer, callVars, settled, floor>>

\* Mutant of RefreshNext: only what has expired is queried.
RefreshExpired(q) ==
    /\ pc[Refresher] = "lookup" /\ q \in todo[Refresher]
    /\ IF q \in fresh
       THEN todo' = [todo EXCEPT ![Refresher] = @ \ {q}] /\ UNCHANGED <<pc, asked>>
       ELSE asked' = [asked EXCEPT ![Refresher] = q] /\ Goto(Refresher, "query") /\ UNCHANGED todo
    /\ UNCHANGED <<worldVars, ioLock, cacheVars, part, answer, callVars, settled, floor>>

RefreshNext(q) ==
    /\ pc[Refresher] = "lookup" /\ q \in todo[Refresher]
    /\ asked' = [asked EXCEPT ![Refresher] = q]
    /\ Goto(Refresher, "query")
    /\ UNCHANGED <<worldVars, ioLock, cacheVars, todo, part, answer, callVars, settled, floor>>

\* Lines 126-130: a PLC without a connector is NOT_FOUND, which is not cached.
QueryNotFound(p) ==
    /\ pc[p] = "query" /\ asked[p] \notin Wired
    /\ todo' = [todo EXCEPT ![p] = @ \ {asked[p]}]
    /\ asked' = [asked EXCEPT ![p] = NoPlc]
    /\ Goto(p, "lookup")
    /\ UNCHANGED <<worldVars, ioLock, cacheVars, part, answer, callVars, settled, floor>>

\* Mutant of QueryBegins: no lock_guard.
QueryUnlocked(p) ==
    /\ pc[p] = "query" /\ asked[p] \in Wired
    /\ Goto(p, "reading")
    /\ UNCHANGED <<worldVars, ioLock, cacheVars, askVars, callVars, settled, floor>>

\* Lines 132-143: connectorMutex_ is taken for all the reads that follow.
QueryBegins(p) ==
    /\ pc[p] = "query" /\ asked[p] \in Wired
    /\ ioLock = NoProc
    /\ ioLock' = p
    /\ Goto(p, "reading")
    /\ UNCHANGED <<worldVars, cacheVars, askVars, callVars, settled, floor>>

Answered(p) == pc[p] = "lookup" /\ todo[p] = {}

Read(p, d) == d \in {r.dev : r \in part[p]}

\* Lines 147-165: one register is read, or the read fails; UNKNOWN without a connection.
ReadDevice(p, d) ==
    /\ pc[p] = "reading" /\ d \in DevsOf(asked[p]) /\ ~Read(p, d)
    /\ \E s \in IF asked[p] \in online THEN {valve[d], "ERROR"} ELSE {"UNKNOWN"} :
          part' = [part EXCEPT ![p] = @ \cup {[dev |-> d, status |-> s, at |-> clock]}]
    /\ UNCHANGED <<worldVars, ioLock, cacheVars, pc, todo, asked, answer, callVars, settled, floor>>

\* Mutants of StoreStatus: the lock of line 137 ends before the entry is stored; it
\* is never released.
StoreUnlocked(p) ==
    /\ pc[p] = "reading" /\ \A d \in DevsOf(asked[p]) : Read(p, d)
    /\ IF ioLock = p THEN ioLock' = NoProc /\ UNCHANGED <<pc, cache, fresh, answer, todo, part, asked>>
       ELSE /\ UNCHANGED ioLock
            /\ cache' = [cache EXCEPT ![asked[p]] = part[p]]
            /\ fresh' = fresh \cup {asked[p]}
            /\ answer' = [answer EXCEPT ![p] = @ \cup part[p]]
            /\ todo' = [todo EXCEPT ![p] = @ \ {asked[p]}]
            /\ part' = [part EXCEPT ![p] = {}]
            /\ asked' = [asked EXCEPT ![p] = NoPlc]
            /\ Goto(p, "lookup")
    /\ UNCHANGED <<worldVars, callVars, settled, floor>>

StoreKeepsLock(p) ==
    /\ pc[p] = "reading" /\ \A d \in DevsOf(asked[p]) : Read(p, d)
    /\ cache' = [cache EXCEPT ![asked[p]] = part[p]]
    /\ fresh' = fresh \cup {asked[p]}
    /\ answer' = [answer EXCEPT ![p] = @ \cup part[p]]
    /\ todo' = [todo EXCEPT ![p] = @ \ {asked[p]}]
    /\ part' = [part EXCEPT ![p] = {}]
    /\ asked' = [asked EXCEPT ![p] = NoPlc]
    /\ Goto(p, "lookup")
    /\ UNCHANGED <<worldVars, ioLock, callVars, settled, floor>>

\* Lines 168-174: the entry is stored before connectorMutex_ is released.
StoreStatus(p) ==
    /\ pc[p] = "reading" /\ \A d \in DevsOf(asked[p]) : Read(p, d)
    /\ cache' = [cache EXCEPT ![asked[p]] = part[p]]
    /\ fresh' = fresh \cup {asked[p]}
    /\ answer' = [answer EXCEPT ![p] = @ \cup part[p]]
    /\ todo' = [todo EXCEPT ![p] = @ \ {asked[p]}]
    /\ part' = [part EXCEPT ![p] = {}]
    /\ asked' = [asked EXCEPT ![p] = NoPlc]
    /\ ioLock' = NoProc
    /\ Goto(p, "lookup")
    /\ UNCHANGED <<worldVars, callVars, settled, floor>>

\* The call returns its answer, or the refresher goes to sleep.
TakeAnswer(p) ==
    /\ Answered(p)
    /\ target' = [target EXCEPT ![p] = NoDev]
    /\ command' = [command EXCEPT ![p] = "other"]
    /\ ok' = [ok EXCEPT ![p] = FALSE]
    /\ wroteAt' = [wroteAt EXCEPT ![p] = 0]
    /\ answer' = [answer EXCEPT ![p] = {}]
    /\ floor' = [floor EXCEPT ![p] = [d \in Dev |-> 0]]
    /\ Goto(p, "idle")
    /\ UNCHANGED <<worldVars, ioLock, cacheVars, todo, asked, part, settled>>

\* CACHE_TTL passes.
Expire(q) ==
    /\ fresh' = fresh \ {q}
    /\ fresh' # fresh
    /\ UNCHANGED <<worldVars, ioLock, cache, pc, askVars, callVars, settled, floor>>

-----------------------------------------------------------------------------
Query(p) ==
    \/ QueryNotFound(p) \/ QueryBegins(p)
    \/ \E d \in Dev : ReadDevice(p, d)
    \/ StoreStatus(p)

Working(p) ==
    \/ Write(p) \/ Erase(p)
    \/ \E q \in Plc : CacheHit(p, q) \/ CacheMiss(p, q)
    \/ Query(p)

Refreshing ==
    \/ RefreshStarts \/ TakeAnswer(Refresher)
    \/ \E q \in Plc : RefreshNext(q)
    \/ Query(Refresher)

PlcNext ==
    \/ \E p \in Client : \/ \E d \in Dev, cmd \in Command : CallOperate(p, d, cmd)
                         \/ CallGetAllStatus(p)
                         \/ Working(p)
                         \/ TakeAnswer(p)
    \/ Refreshing
    \/ \E q \in Plc : Expire(q)

(* Threads run, a read or a write ends (each has its timeout), and connectorMutex_
   starves nobody.  The refresh thread never stops. *)
PlcFairness ==
    /\ \A p \in Client : WF_plcVars(Working(p)) /\ SF_plcVars(Write(p) \/ QueryBegins(p))
    /\ WF_plcVars(Refreshing) /\ SF_plcVars(QueryBegins(Refresher))

PlcSpec == PlcInit /\ [][PlcNext]_plcVars /\ PlcFairness

-----------------------------------------------------------------------------
(* Properties.                                                             *)

\* statusCache_ never holds a status that is older than a write whose operate() has
\* returned (plc_manager.cpp:236), whatever a query was doing at that time.
CacheNotStale ==
    \A q \in Plc : \A r \in cache[q] : r.at >= settled[r.dev]

\* A caller never gets a status older than a write that had succeeded before it
\* asked, its own included.
NoStaleAnswer ==
    \A p \in Client : \A r \in answer[p] : r.at >= floor[p][r.dev]

\* The statuses of one entry were true together: no write came between the reads.
OneSnapshot ==
    \A q \in Plc : \A r, s \in cache[q] : r.at = s.at

\* operatePlc that reports success answers with the status it commanded, unless the
\* register could not be read or another thread has written it since.
AnswerMatchesCommand ==
    \A p \in Client : \A r \in answer[p] :
        /\ ok[p] /\ r.dev = target[p] /\ writer[r.dev] = p
        /\ r.status \in Bit
        => r.status = Value(command[p])

WrongInCache(d) ==
    \E r \in cache[PlcOf[d]] : r.dev = d /\ r.status \in Bit /\ r.status # valve[d]

\* A write that was executed and reported as failed (its reply was lost) leaves the
\* old status in the cache; the refresh thread replaces it in the end.
WrongStatusHeals ==
    \A d \in Dev : WrongInCache(d) ~> ~WrongInCache(d)

\* operatePlc and getStatus return, whatever other threads do with the PLCs.
CallReturns ==
    \A p \in Client : (pc[p] \in {"write", "lookup"}) ~> Answered(p)
=============================================================================
