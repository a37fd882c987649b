------------------------------- MODULE Camera -------------------------------
(***************************************************************************)
(* One camera: src/camera/camera.cpp with its VideoCapture, VideoStorage,  *)
(* SegmentManager, FileUtils and TimestampAdjuster, and findVideoUrl, which *)
(* looks for the footage of a minute.  (CameraManager starts each camera   *)
(* and passes calls on; cameras share nothing.)                            *)
(*                                                                         *)
(* The capture thread writes one file after the other; a cleaner thread    *)
(* removes files and empty directories beside it.  A file is named after   *)
(* the minute of its creation, in a directory named after the day.         *)
(*                                                                         *)
(* Time is counted in ticks, MinuteTicks to the minute and DayMinutes to   *)
(* the day; the system clock and the steady clock run alike.               *)
(***************************************************************************)
EXTENDS Integers, FiniteSetsExt

CONSTANTS MinuteTicks, DayMinutes,
          SegmentTicks,   \* SEGMENTDURATIONSEC
          RetainTicks,    \* HOURLY_CLEAN_RETAIN_HOURS
          RetainDays,     \* the argument of cleanExpiredFiles
          MaxNow          \* bound on the clock

ASSUME CameraAssumption ==
    /\ {MinuteTicks, DayMinutes, SegmentTicks} \subseteq Nat \ {0}
    /\ {RetainTicks, RetainDays, MaxNow} \subseteq Nat
    \* SEGMENTDURATIONSEC is 60: a minute
    /\ SegmentTicks >= MinuteTicks

VARIABLES
    now,
    alive,      \* FALSE once an exception or a dangling reference has ended the process
    camPc,      \* where the capture thread is in pullKeyFrameLoop
    isRunning, online,
    lastStart,  \* SegmentManager::lastStart_
    named,      \* when the name of the present segment was made, NoTime if there is none
    dirs,       \* the directories of days
    files,      \* the files, by the minute of their names
    base,       \* TimestampAdjuster: basePts_ and baseDts_
    picture,    \* lastKeyFrame_: none, of its timestamp, or older than its timestamp
    cleaner     \* hourlyCleaner_; it has a reference to the segMgr of the capture thread

VARIABLE span   \* history: the first packet read in the present segment, the last
                \* one written, and the time it was written with

camVars == <<now, alive, camPc, isRunning, online, lastStart, named, dirs, files, base, picture,
             cleaner, span>>
threadVars == <<alive, isRunning, online, picture, cleaner>>
diskVars == <<dirs, files>>
timeVars == <<base, span>>

NoTime == -1                          \* AV_NOPTS_VALUE
Clock == 0 .. MaxNow
Minute(t) == t \div MinuteTicks       \* %H_%M, with its day
Day(m) == m \div DayMinutes           \* %Y%m%d
NoSpan == [first |-> NoTime, last |-> NoTime, stamp |-> NoTime]

CamLabel == {"none", "open", "name", "init", "loop", "sweep", "read", "decode", "ended"}

CamTypeOK ==
    /\ now \in Clock
    /\ alive \in BOOLEAN /\ isRunning \in BOOLEAN /\ online \in BOOLEAN
    /\ camPc \in CamLabel
    /\ lastStart \in Clock
    /\ named \in Clock \cup {NoTime}
    /\ dirs \subseteq {Day(Minute(t)) : t \in Clock}
    /\ DOMAIN files \subseteq {Minute(t) : t \in Clock}
    /\ \A m \in DOMAIN files : /\ files[m] \in [begun : Clock, last : Clock]
                               /\ Minute(files[m].begun) = m /\ Day(m) \in dirs
    /\ base \in Clock \cup {NoTime}
    /\ picture \in {"none", "fresh", "old"}
    /\ cleaner \in {"none", "running", "dangling"}
    /\ span \in [first : Clock \cup {NoTime}, last : Clock \cup {NoTime}, stamp : Clock \cup {NoTime}]
    /\ camPc \in {"loop", "read", "decode"} => named # NoTime

CamInit ==
    /\ now = 0
    /\ alive = TRUE
    /\ camPc = "none"
    /\ isRunning = FALSE /\ online = FALSE
    /\ lastStart = 0
    /\ named = NoTime
    /\ dirs = {} /\ files = [m \in {} |-> 0]
    /\ base = NoTime
    /\ picture = "none"
    /\ cleaner = "none"
    /\ span = NoSpan

Tick ==
    /\ now < MaxNow
    /\ now' = now + 1
    /\ UNCHANGED <<camPc, lastStart, named, threadVars, diskVars, timeVars>>

CamAt(label) == alive /\ camPc = label
First == cleaner = "none"       \* the cleaner is started after the first segment

\* A write to the file, if it still has its name.
Touched(m) ==
    [n \in DOMAIN files |-> IF n = m THEN [files[n] EXCEPT !.last = now] ELSE files[n]]
\* avio_open: an old file of this name is truncated.
Created ==
    [m \in DOMAIN files \cup {Minute(named)} |->
        IF m = Minute(named) THEN [begun |-> named, last |-> now] ELSE files[m]]
Without(removed) == [n \in DOMAIN files \ removed |-> files[n]]

-----------------------------------------------------------------------------
(* pullKeyFrameLoop.                                                       *)

StartCamera ==
    /\ CamAt("none")
    /\ isRunning' = TRUE
    /\ camPc' = "open"
    /\ UNCHANGED <<now, lastStart, named, alive, online, picture, cleaner, diskVars, timeVars>>

\* The thread is over.  The cleaner, if it was started, goes on (isRunning_ is still
\* TRUE then), with a segMgr that is gone.
Ends ==
    /\ camPc' = "ended"
    /\ named' = NoTime
    /\ cleaner' = IF First THEN "none" ELSE "dangling"

\* Lines 74-83: openStream, then ONLINE.
OpenStream ==
    /\ CamAt("open")
    /\ online' = TRUE
    /\ camPc' = "name"
    /\ lastStart' = now
    /\ UNCHANGED <<now, named, alive, isRunning, picture, cleaner, diskVars, timeVars>>

\* Lines 75-77: any step of openStream fails; or 86-96: no packet, and OFFLINE again.
OpenFails ==
    /\ CamAt("open")
    /\ isRunning' = FALSE
    /\ Ends
    /\ UNCHANGED <<now, lastStart, alive, online, picture, diskVars, timeVars>>

\* createSegment, generateFileName: the directory of the day exists now.
NameSegment ==
    /\ CamAt("name")
    /\ named' = now
    /\ dirs' = dirs \cup {Day(Minute(now))}
    /\ camPc' = "init"
    /\ UNCHANGED <<now, lastStart, threadVars, files, timeVars>>

\* Nothing catches the exception of generateFileName in this thread.
NameThrows ==
    /\ CamAt("name")
    /\ alive' = FALSE
    /\ UNCHANGED <<now, camPc, lastStart, named, isRunning, online, picture, cleaner, diskVars,
                   timeVars>>

\* Mutant of InitSegment: the timestamps go on from the segment before.
InitSegmentNoReset ==
    /\ CamAt("init")
    /\ Day(Minute(named)) \in dirs
    /\ files' = Created
    /\ lastStart' = now
    /\ span' = NoSpan
    /\ cleaner' = "running"
    /\ camPc' = "loop"
    /\ UNCHANGED <<now, named, alive, isRunning, online, picture, dirs, base>>

\* initStorage opens the file and writes the header; lastStart_, tsAdjuster.reset()
\* and, the first time, the cleaner.
InitSegment ==
    /\ CamAt("init")
    /\ Day(Minute(named)) \in dirs
    /\ files' = Created
    /\ lastStart' = now
    /\ base' = NoTime
    /\ span' = NoSpan
    /\ cleaner' = "running"
    /\ camPc' = "loop"
    /\ UNCHANGED <<now, named, alive, isRunning, online, picture, dirs>>

\* Any step of initStorage may fail, before or after the file is opened, and opening
\* does when the directory is gone.  The first time (102-108) isRunning_ is reset;
\* later (142) only the loop is left.  The status stays ONLINE either way.
InitFails ==
    /\ CamAt("init")
    /\ \/ UNCHANGED files
       \/ Day(Minute(named)) \in dirs /\ files' = Created
    /\ isRunning' = ~First
    /\ Ends
    /\ UNCHANGED <<now, lastStart, alive, online, picture, dirs, timeVars>>

\* Mutant of needNewSegment: a little early.
needNewSegmentEarly == now - lastStart >= SegmentTicks - 1
needNewSegment == now - lastStart >= SegmentTicks

\* Lines 135-136: the trailer is written and the file closed.
CloseSegment ==
    /\ CamAt("loop")
    /\ needNewSegment
    /\ files' = Touched(Minute(named))
    /\ named' = NoTime
    /\ camPc' = "sweep"
    /\ UNCHANGED <<now, lastStart, threadVars, dirs, timeVars>>

\* Line 138, cleanExpiredFiles: whole directories; one that cannot be removed stays.
Sweep ==
    /\ CamAt("sweep")
    /\ \E removed \in SUBSET {d \in dirs : d < Day(Minute(now)) - RetainDays} :
        /\ dirs' = dirs \ removed
        /\ files' = Without({m \in DOMAIN files : Day(m) \in removed})
    /\ camPc' = "name"
    /\ UNCHANGED <<now, lastStart, named, threadVars, timeVars>>

\* Line 145: readPacket begins to wait.
AwaitPacket ==
    /\ CamAt("loop")
    /\ ~needNewSegment
    /\ camPc' = "read"
    /\ UNCHANGED <<now, lastStart, named, threadVars, diskVars, timeVars>>

\* Lines 146-148.
ReadFails ==
    /\ CamAt("read")
    /\ camPc' = "loop"
    /\ UNCHANGED <<now, lastStart, named, threadVars, diskVars, timeVars>>

\* TimestampAdjuster::adjust: a missing time is negative, and becomes 0.
Adjusted(t) == IF t = NoTime THEN 0 ELSE t - base'

\* Lines 145-161: a packet is read, adjusted and written, or the write fails.
RecordPacket ==
    /\ CamAt("read")
    /\ \E t \in {now, NoTime}, written \in BOOLEAN :
        /\ base' = IF base = NoTime THEN t ELSE base
        /\ files' = IF written THEN Touched(Minute(named)) ELSE files
        /\ LET begun == [span EXCEPT !.first = IF @ = NoTime THEN t ELSE @]
           IN  span' = IF written /\ t # NoTime
                       THEN [begun EXCEPT !.last = t, !.stamp = Adjusted(t)]
                       ELSE begun
    /\ camPc' \in {"loop", "decode"}
    /\ UNCHANGED <<now, lastStart, named, threadVars, dirs>>

\* Lines 162-167.  decodePacket gives a bool, so that ">= 0" holds of a failure too:
\* the frame is still the one before, or it has been emptied.
DecodeKeyFrame ==
    /\ CamAt("decode")
    /\ \/ picture' = "fresh"
       \/ picture' = IF picture = "none" THEN "none" ELSE "old"
       \/ picture' = "none"
    /\ camPc' = "loop"
    /\ UNCHANGED <<now, lastStart, named, alive, isRunning, online, cleaner, diskVars, timeVars>>

Capturing ==
    \/ OpenStream \/ OpenFails \/ NameSegment \/ NameThrows \/ InitSegment \/ InitFails
    \/ CloseSegment \/ Sweep \/ AwaitPacket \/ ReadFails \/ RecordPacket \/ DecodeKeyFrame

-----------------------------------------------------------------------------
(* The cleaner thread, cleanExpiredFilesHours: it may come at any time.    *)

\* A file that was not written to for RetainTicks; one it fails to remove stays.
CleanFile(m) ==
    /\ alive /\ cleaner = "running"
    /\ m \in DOMAIN files
    /\ files[m].last < now - RetainTicks
    /\ files' = Without({m})
    /\ UNCHANGED <<now, camPc, lastStart, named, threadVars, dirs, timeVars>>

\* Lines 101-105: a directory is removed only if it is empty, by is_empty and by rmdir.
CleanDirectory(d) ==
    /\ alive /\ cleaner = "running"
    /\ d \in dirs
    /\ \A m \in DOMAIN files : Day(m) # d
    /\ dirs' = dirs \ {d}
    /\ UNCHANGED <<now, camPc, lastStart, named, threadVars, files, timeVars>>

\* The capture thread is over and with it the segMgr: using it is undefined.
CleanDangling ==
    /\ alive /\ cleaner = "dangling"
    /\ alive' = FALSE
    /\ UNCHANGED <<now, camPc, lastStart, named, isRunning, online, picture, cleaner, diskVars,
                   timeVars>>

Cleaning ==
    \/ \E m \in DOMAIN files : CleanFile(m)
    \/ \E d \in dirs : CleanDirectory(d)
    \/ CleanDangling

CamNext == Tick \/ StartCamera \/ Capturing \/ Cleaning
CamSpec == CamInit /\ [][CamNext]_camVars

-----------------------------------------------------------------------------
(* findVideoUrl(channel, date, time).                                      *)

\* Mutant of FindVideo: the earliest.
FindEarliest(target) ==
    LET candidates == {m \in DOMAIN files : Day(m) = Day(target) /\ m <= target}
    IN  IF candidates = {} THEN NoTime ELSE Min(candidates)

\* The file of that day with the latest name that is not after the minute asked for.
FindVideo(target) ==
    LET candidates == {m \in DOMAIN files : Day(m) = Day(target) /\ m <= target}
    IN  IF candidates = {} THEN NoTime ELSE Max(candidates)

-----------------------------------------------------------------------------
(* Properties.                                                             *)

\* File names have minutes only, yet no segment is opened over an earlier one: a
\* segment lasts until another minute has begun (camera.cpp:11, FileUtils.cpp:37).
NoSegmentOverwritten ==
    [][\A m \in DOMAIN files \cap DOMAIN files' : files'[m].begun = files[m].begun]_camVars

\* The minutes in which a file was recorded, from the moment it was named on.
Records(m, target) ==
    /\ m \in DOMAIN files
    /\ m <= target
    /\ target <= Minute(IF named = files[m].begun THEN now ELSE files[m].last)

\* find_video_url.h:43: if a file begun on the same day has footage of the minute
\* asked for, the answer is such a file, however late segments were closed and
\* whatever was removed.
Playback ==
    \A target \in 0 .. Minute(now) :
        (\E m \in DOMAIN files : Day(m) = Day(target) /\ Records(m, target))
            => Records(FindVideo(target), target)

\* Every segment's time starts from 0 with its own first packet, and keeps the pace
\* of the stream (TimestampAdjuster.h:15, camera.cpp:141).
SegmentTimes ==
    span.last # NoTime => span.stamp = span.last - span.first
=============================================================================
