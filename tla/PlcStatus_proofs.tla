--------------------------- MODULE PlcStatus_proofs ---------------------------
(***************************************************************************)
(* What a caller of PlcManager is told is never older than a write that    *)
(* had succeeded before it asked, for any PLCs, devices and threads.       *)
(*                                                                         *)
(* The invariant that carries it: connectorMutex_ is held by the one       *)
(* thread that is reading; while it reads, no write is executed, so its    *)
(* readings all bear the present clock; a write is settled by the same     *)
(* step that drops the entries of its PLC.                                 *)
(***************************************************************************)
EXTENDS PlcStatus, TLAPS

USE PlcAssumption

\* connectorMutex_ is held exactly by the thread whose query is reading.
LockInv ==
    \A p \in Proc :
        /\ (pc[p] = "reading") <=> (ioLock = p)
        /\ pc[p] # "reading" => part[p] = {}
        /\ pc[p] \in {"query", "reading"} => asked[p] \in Plc

\* Nothing is settled that was not written, and nobody expects more than that.
TimeInv ==
    /\ \A d \in Dev : settled[d] <= clock
    /\ \A p \in Proc : wroteAt[p] <= clock
    /\ \A p \in Proc, d \in Dev : floor[p][d] <= settled[d]

\* What a query has read so far is about its PLC, and is still current.
PartInv ==
    \A p \in Proc : \A r \in part[p] : r.at = clock /\ PlcOf[r.dev] = asked[p]

\* Entries are about their PLC, and their readings were taken together.
CacheInv ==
    \A q \in Plc : \A r \in cache[q] : PlcOf[r.dev] = q /\ r.at >= settled[r.dev]

\* A call has no answer before it asks; the refresher is never a caller.
AnswerInv ==
    \A p \in Proc :
        /\ pc[p] \in {"idle", "write", "erase"} => answer[p] = {}
        /\ pc[p] \in {"write", "erase"} => target[p] \in Dev
        /\ \A r \in answer[p] : r.at >= floor[p][r.dev]

\* The readings that are kept somewhere.
Kept(r) ==
    \/ \E q \in Plc : r \in cache[q]
    \/ \E p \in Proc : r \in part[p] \/ r \in answer[p]

\* While nobody else writes the device of a successful operation, the register and
\* every reading since hold the command; its caller accepts no older ones.
CommandInv ==
    /\ \A r \in Reading : Kept(r) => r.at <= clock
    /\ \A p \in Proc :
        /\ pc[p] = "idle" => ~ok[p]
        /\ ok[p] => target[p] \in Dev
        /\ ok[p] /\ pc[p] # "erase" => floor[p][target[p]] >= wroteAt[p]
        /\ ok[p] /\ writer[target[p]] = p =>
              /\ valve[target[p]] = Value(command[p])
              /\ \A r \in Reading : /\ Kept(r) /\ r.dev = target[p] /\ r.at >= wroteAt[p]
                        /\ r.status \in Bit
                       => r.status = Value(command[p])

PlcInv ==
    /\ PlcTypeOK /\ LockInv /\ TimeInv /\ PartInv /\ CacheInv /\ AnswerInv
    /\ OneSnapshot /\ CommandInv

-----------------------------------------------------------------------------
(* The invariant holds at the start.                                       *)

\* Nothing is cached and nobody calls at the start.
LEMMA PlcInvInit == PlcInit => PlcInv
<1> SUFFICES ASSUME PlcInit PROVE PlcInv
  OBVIOUS
<1>1. PlcTypeOK
  BY DEF PlcInit, PlcTypeOK, Label, Bit, Proc
<1>2. LockInv /\ TimeInv /\ PartInv /\ CacheInv /\ AnswerInv /\ OneSnapshot
  BY DEF PlcInit, LockInv, TimeInv, PartInv, CacheInv, AnswerInv, OneSnapshot, Bit, Proc
<1>3. CommandInv
  BY DEF PlcInit, CommandInv, Kept, Proc
<1> QED BY <1>1, <1>2, <1>3 DEF PlcInv

-----------------------------------------------------------------------------
(* One lemma for each action.                                              *)

\* A caller starts without an answer and without a success.
LEMMA CallOperateStep == ASSUME PlcInv, NEW p \in Client, NEW d \in Dev, NEW cmd \in Command, CallOperate(p, d, cmd) PROVE PlcInv'
<1> USE DEF PlcInv, CallOperate, Goto, worldVars, cacheVars, askVars, callVars
<1>1. PlcTypeOK'
  BY DEF PlcTypeOK, Label, Proc
<1>2. LockInv' /\ TimeInv'
  BY DEF PlcTypeOK, LockInv, TimeInv, Proc
<1>3. PartInv' /\ CacheInv' /\ OneSnapshot'
  BY DEF PlcTypeOK, LockInv, TimeInv, PartInv, CacheInv, OneSnapshot, Reading, Proc
<1>4. AnswerInv'
  BY DEF PlcTypeOK, LockInv, TimeInv, PartInv, CacheInv, AnswerInv, Reading, Proc
<1>5. CommandInv'
  BY DEF PlcTypeOK, LockInv, TimeInv, PartInv, CacheInv, AnswerInv, CommandInv, Kept, Reading, Proc
<1> QED BY <1>1, <1>2, <1>3, <1>4, <1>5

\* A write is executed while nobody reads, and makes every reading older.
LEMMA WriteStep == ASSUME PlcInv, NEW p \in Client, Write(p) PROVE PlcInv'
<1> DEFINE d == target[p]
<1> USE DEF PlcInv, Write, Goto, worldVars, cacheVars, askVars
<1>1. p \in Proc /\ d \in Dev /\ pc[p] = "write"
  BY DEF AnswerInv, Proc
<1>2. /\ \A x \in Proc : part[x] = {}
      /\ answer[p] = {}
  BY <1>1 DEF PlcTypeOK, LockInv, AnswerInv, Proc
<1>3. CASE Executed(p)
  <2> USE <1>1, <1>2, <1>3 DEF Executed
  <2>1. /\ clock \in Nat /\ clock' = clock + 1 /\ clock' \in 0 .. MaxWrites
        /\ ok' \in [Proc -> BOOLEAN] /\ \A x \in Proc \ {p} : ok'[x] = ok[x]
    <3>1. clock \in Nat /\ clock' = clock + 1 /\ clock' \in 0 .. MaxWrites
      BY DEF PlcTypeOK
    <3>2. ok \in [Proc -> BOOLEAN]
      BY DEF PlcTypeOK
    <3>3. CASE ok' = ok
      BY <3>1, <3>2, <3>3
    <3>4. CASE ok' = [ok EXCEPT ![p] = TRUE]
      BY <3>1, <3>2, <3>4, Zenon
    <3> QED BY <3>3, <3>4
  <2>2. PlcTypeOK'
    BY <2>1 DEF PlcTypeOK, Label
  <2>3. LockInv' /\ PartInv' /\ CacheInv' /\ OneSnapshot'
    BY <2>1 DEF PlcTypeOK, LockInv, PartInv, CacheInv, OneSnapshot
  <2>4. TimeInv'
    BY <2>1 DEF PlcTypeOK, TimeInv
  <2>5. AnswerInv'
    BY <2>1 DEF PlcTypeOK, AnswerInv
  <2>6. \A r \in Reading : Kept(r)' => Kept(r) /\ r.at \in Nat /\ r.at <= clock
    BY DEF CommandInv, Kept, Reading
  <2>7. \A r \in Reading : Kept(r)' => r.at <= clock'
    BY <2>1, <2>6 DEF Reading
  <2>8. \A x \in Proc :
          /\ pc'[x] = "idle" => ~ok'[x]
          /\ ok'[x] => target'[x] \in Dev
          /\ ok'[x] /\ pc'[x] # "erase" => floor'[x][target'[x]] >= wroteAt'[x]
    BY <2>1 DEF PlcTypeOK, CommandInv
  <2>9. ASSUME NEW x \in Proc, ok'[x] /\ writer'[target'[x]] = x
        PROVE  /\ valve'[target'[x]] = Value(command'[x])
               /\ \A r \in Reading :
                    /\ Kept(r)' /\ r.dev = target'[x] /\ r.at >= wroteAt'[x]
                    /\ r.status \in Bit
                    => r.status = Value(command'[x])
    <3>1. CASE x = p
      BY <2>1, <2>6, <2>9, <3>1 DEF PlcTypeOK
    <3>2. CASE x # p
      <4>1. ok[x] /\ target[x] \in Dev /\ target[x] # d /\ writer[target[x]] = x
        BY <2>1, <2>9, <3>2 DEF PlcTypeOK, CommandInv
      <4> QED BY <2>1, <2>6, <3>2, <4>1 DEF PlcTypeOK, CommandInv
    <3> QED BY <3>1, <3>2
  <2>10. CommandInv'
    BY <2>7, <2>8, <2>9 DEF CommandInv
  <2> QED BY <2>2, <2>3, <2>4, <2>5, <2>10
<1>4. CASE NotExecuted
  <2> USE <1>1, <1>2, <1>4 DEF NotExecuted
  <2>1. PlcTypeOK'
    BY DEF PlcTypeOK, Label
  <2>2. LockInv' /\ TimeInv' /\ PartInv' /\ CacheInv' /\ OneSnapshot' /\ AnswerInv'
    BY DEF PlcTypeOK, LockInv, TimeInv, PartInv, CacheInv, OneSnapshot, AnswerInv
  <2>3. CommandInv'
    BY DEF PlcTypeOK, CommandInv, Kept
  <2> QED BY <2>1, <2>2, <2>3
<1> QED BY <1>3, <1>4

\* What is settled has no older entry.
LEMMA EraseStep == ASSUME PlcInv, NEW p \in Client, Erase(p) PROVE PlcInv'
<1> USE DEF PlcInv, Erase, Goto, worldVars, cacheVars, askVars, callVars
<1>1. PlcTypeOK'
  BY DEF PlcTypeOK, Label, Proc
<1>2. LockInv' /\ TimeInv'
  BY DEF PlcTypeOK, LockInv, TimeInv, Proc
<1>3. PartInv' /\ CacheInv' /\ OneSnapshot'
  BY DEF PlcTypeOK, LockInv, TimeInv, PartInv, CacheInv, OneSnapshot, Reading, Proc
<1>4. AnswerInv'
  BY DEF PlcTypeOK, LockInv, TimeInv, PartInv, CacheInv, AnswerInv, Reading, Proc
<1>5. CommandInv'
  BY DEF PlcTypeOK, LockInv, TimeInv, PartInv, CacheInv, AnswerInv, CommandInv, Kept, Reading, Proc
<1> QED BY <1>1, <1>2, <1>3, <1>4, <1>5

\* The caller expects what is settled now.
LEMMA CallGetAllStatusStep == ASSUME PlcInv, NEW p \in Client, CallGetAllStatus(p) PROVE PlcInv'
<1> USE DEF PlcInv, CallGetAllStatus, Goto, worldVars, cacheVars, askVars, callVars
<1>1. PlcTypeOK'
  BY DEF PlcTypeOK, Label, Proc
<1>2. LockInv' /\ TimeInv'
  BY DEF PlcTypeOK, LockInv, TimeInv, Proc
<1>3. PartInv' /\ CacheInv' /\ OneSnapshot'
  BY DEF PlcTypeOK, LockInv, TimeInv, PartInv, CacheInv, OneSnapshot, Reading, Proc
<1>4. AnswerInv'
  BY DEF PlcTypeOK, LockInv, TimeInv, PartInv, CacheInv, AnswerInv, Reading, Proc
<1>5. CommandInv'
  BY DEF PlcTypeOK, LockInv, TimeInv, PartInv, CacheInv, AnswerInv, CommandInv, Kept, Reading, Proc
<1> QED BY <1>1, <1>2, <1>3, <1>4, <1>5

\* An entry is at least as recent as what is settled.
LEMMA CacheHitStep == ASSUME PlcInv, NEW p \in Client, NEW q \in Plc, CacheHit(p, q) PROVE PlcInv'
<1> USE DEF PlcInv, CacheHit, Goto, worldVars, cacheVars, askVars, callVars
<1>1. PlcTypeOK'
  BY DEF PlcTypeOK, Label, Proc
<1>2. LockInv' /\ TimeInv'
  BY DEF PlcTypeOK, LockInv, TimeInv, Proc
<1>3. PartInv' /\ CacheInv' /\ OneSnapshot'
  BY DEF PlcTypeOK, LockInv, TimeInv, PartInv, CacheInv, OneSnapshot, Reading, Proc
<1>4. AnswerInv'
  BY DEF PlcTypeOK, LockInv, TimeInv, PartInv, CacheInv, AnswerInv, Reading, Proc
<1>5. CommandInv'
  BY DEF PlcTypeOK, LockInv, TimeInv, PartInv, CacheInv, AnswerInv, CommandInv, Kept, Reading, Proc
<1> QED BY <1>1, <1>2, <1>3, <1>4, <1>5

\* The lookup changes nothing but the thread's place.
LEMMA CacheMissStep == ASSUME PlcInv, NEW p \in Client, NEW q \in Plc, CacheMiss(p, q) PROVE PlcInv'
<1> USE DEF PlcInv, CacheMiss, Goto, worldVars, cacheVars, askVars, callVars
<1>1. PlcTypeOK'
  BY DEF PlcTypeOK, Label, Proc
<1>2. LockInv' /\ TimeInv'
  BY DEF PlcTypeOK, LockInv, TimeInv, Proc
<1>3. PartInv' /\ CacheInv' /\ OneSnapshot'
  BY DEF PlcTypeOK, LockInv, TimeInv, PartInv, CacheInv, OneSnapshot, Reading, Proc
<1>4. AnswerInv'
  BY DEF PlcTypeOK, LockInv, TimeInv, PartInv, CacheInv, AnswerInv, Reading, Proc
<1>5. CommandInv'
  BY DEF PlcTypeOK, LockInv, TimeInv, PartInv, CacheInv, AnswerInv, CommandInv, Kept, Reading, Proc
<1> QED BY <1>1, <1>2, <1>3, <1>4, <1>5

\* The refresher has no answer to keep.
LEMMA RefreshStartsStep == ASSUME PlcInv, RefreshStarts PROVE PlcInv'
<1> USE DEF PlcInv, RefreshStarts, Goto, worldVars, cacheVars, askVars, callVars
<1>1. PlcTypeOK'
  BY DEF PlcTypeOK, Label, Proc
<1>2. LockInv' /\ TimeInv'
  BY DEF PlcTypeOK, LockInv, TimeInv, Proc
<1>3. PartInv' /\ CacheInv' /\ OneSnapshot'
  BY DEF PlcTypeOK, LockInv, TimeInv, PartInv, CacheInv, OneSnapshot, Reading, Proc
<1>4. AnswerInv'
  BY DEF PlcTypeOK, LockInv, TimeInv, PartInv, CacheInv, AnswerInv, Reading, Proc
<1>5. CommandInv'
  BY DEF PlcTypeOK, LockInv, TimeInv, PartInv, CacheInv, AnswerInv, CommandInv, Kept, Reading, Proc
<1> QED BY <1>1, <1>2, <1>3, <1>4, <1>5

\* The refresher looks at no entry.
LEMMA RefreshNextStep == ASSUME PlcInv, NEW q \in Plc, RefreshNext(q) PROVE PlcInv'
<1> USE DEF PlcInv, RefreshNext, Goto, worldVars, cacheVars, askVars, callVars
<1>1. PlcTypeOK'
  BY DEF PlcTypeOK, Label, Proc
<1>2. LockInv' /\ TimeInv'
  BY DEF PlcTypeOK, LockInv, TimeInv, Proc
<1>3. PartInv' /\ CacheInv' /\ OneSnapshot'
  BY DEF PlcTypeOK, LockInv, TimeInv, PartInv, CacheInv, OneSnapshot, Reading, Proc
<1>4. AnswerInv'
  BY DEF PlcTypeOK, LockInv, TimeInv, PartInv, CacheInv, AnswerInv, Reading, Proc
<1>5. CommandInv'
  BY DEF PlcTypeOK, LockInv, TimeInv, PartInv, CacheInv, AnswerInv, CommandInv, Kept, Reading, Proc
<1> QED BY <1>1, <1>2, <1>3, <1>4, <1>5

\* Nothing is read from a PLC without a connector.
LEMMA QueryNotFoundStep == ASSUME PlcInv, NEW p \in Proc, QueryNotFound(p) PROVE PlcInv'
<1> USE DEF PlcInv, QueryNotFound, Goto, worldVars, cacheVars, askVars, callVars
<1>1. PlcTypeOK'
  BY DEF PlcTypeOK, Label, Proc
<1>2. LockInv' /\ TimeInv'
  BY DEF PlcTypeOK, LockInv, TimeInv, Proc
<1>3. PartInv' /\ CacheInv' /\ OneSnapshot'
  BY DEF PlcTypeOK, LockInv, TimeInv, PartInv, CacheInv, OneSnapshot, Reading, Proc
<1>4. AnswerInv'
  BY DEF PlcTypeOK, LockInv, TimeInv, PartInv, CacheInv, AnswerInv, Reading, Proc
<1>5. CommandInv'
  BY DEF PlcTypeOK, LockInv, TimeInv, PartInv, CacheInv, AnswerInv, CommandInv, Kept, Reading, Proc
<1> QED BY <1>1, <1>2, <1>3, <1>4, <1>5

\* The lock is free, so nobody else is reading.
LEMMA QueryBeginsStep == ASSUME PlcInv, NEW p \in Proc, QueryBegins(p) PROVE PlcInv'
<1> USE DEF PlcInv, QueryBegins, Goto, worldVars, cacheVars, askVars, callVars
<1>1. PlcTypeOK'
  BY DEF PlcTypeOK, Label, Proc
<1>2. LockInv' /\ TimeInv'
  BY DEF PlcTypeOK, LockInv, TimeInv, Proc
<1>3. PartInv' /\ CacheInv' /\ OneSnapshot'
  BY DEF PlcTypeOK, LockInv, TimeInv, PartInv, CacheInv, OneSnapshot, Reading, Proc
<1>4. AnswerInv'
  BY DEF PlcTypeOK, LockInv, TimeInv, PartInv, CacheInv, AnswerInv, Reading, Proc
<1>5. CommandInv'
  BY DEF PlcTypeOK, LockInv, TimeInv, PartInv, CacheInv, AnswerInv, CommandInv, Kept, Reading, Proc
<1> QED BY <1>1, <1>2, <1>3, <1>4, <1>5

\* A reading bears the present clock and, if it is one, the register's value.
LEMMA ReadDeviceStep == ASSUME PlcInv, NEW p \in Proc, NEW d \in Dev, ReadDevice(p, d) PROVE PlcInv'
<1> USE DEF PlcInv, ReadDevice, Goto, worldVars, cacheVars, askVars, callVars, DevsOf, Bit
<1>1. PlcTypeOK'
  <2>1. PICK st \in Bit \cup {"ERROR", "UNKNOWN"} :
          part' = [part EXCEPT ![p] = @ \cup {[dev |-> d, status |-> st, at |-> clock]}]
    BY DEF PlcTypeOK
  <2>2. [dev |-> d, status |-> st, at |-> clock] \in Reading
    BY DEF PlcTypeOK, Reading
  <2> HIDE DEF Reading
  <2> QED BY <2>1, <2>2 DEF PlcTypeOK
<1>2. LockInv' /\ TimeInv'
  BY DEF PlcTypeOK, LockInv, TimeInv, Proc
<1>3. PartInv' /\ CacheInv' /\ OneSnapshot'
  BY DEF PlcTypeOK, LockInv, TimeInv, PartInv, CacheInv, OneSnapshot, Reading, Proc
<1>4. AnswerInv'
  BY DEF PlcTypeOK, LockInv, TimeInv, PartInv, CacheInv, AnswerInv, Reading, Proc
<1>5. CommandInv'
  BY DEF PlcTypeOK, LockInv, TimeInv, PartInv, CacheInv, AnswerInv, CommandInv, Kept, Reading, Proc
<1> QED BY <1>1, <1>2, <1>3, <1>4, <1>5

\* The entry that is stored is current: no write came since it was read.
LEMMA StoreStatusStep == ASSUME PlcInv, NEW p \in Proc, StoreStatus(p) PROVE PlcInv'
<1> USE DEF PlcInv, StoreStatus, Goto, worldVars, cacheVars, askVars, callVars, DevsOf, Read
<1>1. PlcTypeOK'
  <2>1. asked[p] \in Plc /\ part[p] \subseteq Reading
    BY DEF PlcTypeOK, LockInv
  <2> QED BY <2>1 DEF PlcTypeOK, Label
<1>2. LockInv' /\ TimeInv'
  BY DEF PlcTypeOK, LockInv, TimeInv, Proc
<1>3. PartInv' /\ CacheInv' /\ OneSnapshot'
  BY DEF PlcTypeOK, LockInv, TimeInv, PartInv, CacheInv, OneSnapshot, Reading, Proc
<1>4. AnswerInv'
  BY DEF PlcTypeOK, LockInv, TimeInv, PartInv, CacheInv, AnswerInv, Reading, Proc
<1>5. CommandInv'
  BY DEF PlcTypeOK, LockInv, TimeInv, PartInv, CacheInv, AnswerInv, CommandInv, Kept, Reading, Proc
<1> QED BY <1>1, <1>2, <1>3, <1>4, <1>5

\* The call forgets everything.
LEMMA TakeAnswerStep == ASSUME PlcInv, NEW p \in Proc, TakeAnswer(p) PROVE PlcInv'
<1> USE DEF PlcInv, TakeAnswer, Goto, worldVars, cacheVars, askVars, callVars, Answered
<1>1. PlcTypeOK'
  BY DEF PlcTypeOK, Label, Proc
<1>2. LockInv' /\ TimeInv'
  BY DEF PlcTypeOK, LockInv, TimeInv, Proc
<1>3. PartInv' /\ CacheInv' /\ OneSnapshot'
  BY DEF PlcTypeOK, LockInv, TimeInv, PartInv, CacheInv, OneSnapshot, Reading, Proc
<1>4. AnswerInv'
  BY DEF PlcTypeOK, LockInv, TimeInv, PartInv, CacheInv, AnswerInv, Reading, Proc
<1>5. CommandInv'
  BY DEF PlcTypeOK, LockInv, TimeInv, PartInv, CacheInv, AnswerInv, CommandInv, Kept, Reading, Proc
<1> QED BY <1>1, <1>2, <1>3, <1>4, <1>5

\* Expiry drops no entry.
LEMMA ExpireStep == ASSUME PlcInv, NEW q \in Plc, Expire(q) PROVE PlcInv'
<1> USE DEF PlcInv, Expire, Goto, worldVars, cacheVars, askVars, callVars
<1>1. PlcTypeOK'
  BY DEF PlcTypeOK, Label, Proc
<1>2. LockInv' /\ TimeInv'
  BY DEF PlcTypeOK, LockInv, TimeInv, Proc
<1>3. PartInv' /\ CacheInv' /\ OneSnapshot'
  BY DEF PlcTypeOK, LockInv, TimeInv, PartInv, CacheInv, OneSnapshot, Reading, Proc
<1>4. AnswerInv'
  BY DEF PlcTypeOK, LockInv, TimeInv, PartInv, CacheInv, AnswerInv, Reading, Proc
<1>5. CommandInv'
  BY DEF PlcTypeOK, LockInv, TimeInv, PartInv, CacheInv, AnswerInv, CommandInv, Kept, Reading, Proc
<1> QED BY <1>1, <1>2, <1>3, <1>4, <1>5

-----------------------------------------------------------------------------
(* The theorems.                                                           *)

\* Every step keeps the invariant.
LEMMA PlcInvNext == PlcInv /\ [PlcNext]_plcVars => PlcInv'
<1> SUFFICES ASSUME PlcInv, [PlcNext]_plcVars PROVE PlcInv'
  OBVIOUS
<1>1. Client \subseteq Proc /\ Refresher \in Proc
  BY DEF Proc
<1>2. CASE UNCHANGED plcVars
  BY <1>2 DEF plcVars, worldVars, cacheVars, askVars, callVars, PlcInv, PlcTypeOK, LockInv,
              TimeInv, PartInv, CacheInv, AnswerInv, OneSnapshot, CommandInv, Kept
<1>3. ASSUME NEW p \in Proc, Query(p) PROVE PlcInv'
  BY <1>3, QueryNotFoundStep, QueryBeginsStep, ReadDeviceStep, StoreStatusStep DEF Query
<1>4. ASSUME NEW p \in Client, Working(p) PROVE PlcInv'
  BY <1>1, <1>3, <1>4, WriteStep, EraseStep, CacheHitStep, CacheMissStep DEF Working
<1>5. CASE Refreshing
  BY <1>1, <1>3, <1>5, RefreshStartsStep, RefreshNextStep, TakeAnswerStep DEF Refreshing
<1> QED
  BY <1>1, <1>2, <1>4, <1>5, CallOperateStep, CallGetAllStatusStep, TakeAnswerStep, ExpireStep
     DEF PlcNext

\* The invariant that the theorems follow from.
LEMMA PlcInvariant == PlcSpec => []PlcInv
  BY PlcInvInit, PlcInvNext, PTL DEF PlcSpec

\* The types of PlcManager's state and of its callers.
THEOREM PlcTypeCorrect == PlcSpec => []PlcTypeOK
<1>1. PlcInv => PlcTypeOK
  BY DEF PlcInv
<1> QED BY <1>1, PlcInvariant, PTL

\* The cache never holds a status that is older than a write whose operate() has
\* returned.
THEOREM CacheNotStaleCorrect == PlcSpec => []CacheNotStale
<1>1. PlcInv => CacheNotStale
  BY DEF PlcInv, CacheInv, CacheNotStale
<1> QED BY <1>1, PlcInvariant, PTL

\* No caller is told a status older than a write that had succeeded before it asked.
THEOREM NoStaleAnswerCorrect == PlcSpec => []NoStaleAnswer
<1>1. PlcInv => NoStaleAnswer
  BY DEF PlcInv, AnswerInv, NoStaleAnswer, Proc
<1> QED BY <1>1, PlcInvariant, PTL

\* The statuses of one entry were true together.
THEOREM OneSnapshotCorrect == PlcSpec => []OneSnapshot
<1>1. PlcInv => OneSnapshot
  BY DEF PlcInv
<1> QED BY <1>1, PlcInvariant, PTL

\* A successful operatePlc answers with the status it commanded, unless another thread
\* has written the device since or the register could not be read.
THEOREM AnswerMatchesCommandCorrect == PlcSpec => []AnswerMatchesCommand
<1>1. ASSUME PlcInv, NEW p \in Client, NEW r \in answer[p],
             ok[p], r.dev = target[p], writer[r.dev] = p, r.status \in Bit
      PROVE  r.status = Value(command[p])
  <2>1. p \in Proc /\ r \in Reading /\ Kept(r)
    BY <1>1 DEF PlcInv, PlcTypeOK, Kept, Proc
  <2>2. pc[p] # "erase" /\ target[p] \in Dev
    BY <1>1, <2>1 DEF PlcInv, AnswerInv, CommandInv
  <2>3. r.at >= floor[p][target[p]] /\ floor[p][target[p]] >= wroteAt[p]
    BY <1>1, <2>1, <2>2 DEF PlcInv, AnswerInv, CommandInv
  <2>4. r.at \in Nat /\ floor[p][target[p]] \in Nat /\ wroteAt[p] \in Nat
    BY <2>1, <2>2, <1>1 DEF PlcInv, PlcTypeOK, Reading
  <2>5. r.at >= wroteAt[p]
    BY <2>3, <2>4
  <2> QED BY <1>1, <2>1, <2>5 DEF PlcInv, CommandInv
<1>2. PlcInv => AnswerMatchesCommand
  BY <1>1 DEF AnswerMatchesCommand
<1> QED BY <1>2, PlcInvariant, PTL
=============================================================================
