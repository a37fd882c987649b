------------------------------- MODULE Logger -------------------------------
(***************************************************************************)
(* src/common/logger: one file of log lines a day, and the removal of old  *)
(* ones.  Days are numbered, and d stands for a file's name, "-YYYY-MM-DD".*)
(*                                                                         *)
(* localtime() returns a pointer to one buffer of the process.  Logger     *)
(* reads it under its own mutex, but the cameras (FileUtils.cpp:16), the   *)
(* sensors (sensor_types.h:66) and the PLC managers fill it without that:  *)
(* what is read may be the time somebody else asked for a moment before.   *)
(*                                                                         *)
(* Nothing is sure of the disk: a file may not open, a write may fail, and *)
(* old files may stay.  None of this is reported to the caller, and only   *)
(* the next day or the next start of the process tries again.              *)
(* (Where the directory of the log cannot even be made, line 35, there is  *)
(* no logger: the constructor throws.  That is left out.)                  *)
(***************************************************************************)
EXTENDS Integers, FiniteSets

CONSTANTS DayTicks,        \* a day, in ticks
          retentionDays_,
          FirstDay,        \* the process starts on that day
          MaxTime          \* bound on the time

ASSUME LoggerAssumption ==
    /\ {DayTicks, retentionDays_} \subseteq Nat \ {0}
    /\ FirstDay \in Nat \ {0} /\ MaxTime \in Nat
    /\ (FirstDay + 1) * DayTicks <= MaxTime

VARIABLES clock, logFiles, currentDate,
          logFile,   \* the stream takes lines: it is open, and no write has failed
          writing,   \* a thread is between rotateIfNeeded() and the line
          line,      \* one of the lines that were written, [file, at], and is it there?
          lineKept,
          cleaned    \* history: the last clean-up has removed all that had expired

logVars == <<clock, logFiles, currentDate, logFile, writing, line, lineKept, cleaned>>
NoLine == [file |-> -1, at |-> -1]

LogTypeOK ==
    /\ clock \in 0 .. MaxTime /\ logFiles \subseteq 0 .. MaxTime
    /\ currentDate \in 0 .. MaxTime
    /\ {logFile, writing, lineKept, cleaned} \subseteq BOOLEAN
    /\ line \in [file : 0 .. MaxTime, at : 0 .. MaxTime] \cup {NoLine}

DayOf(t) == t \div DayTicks
Midnight(d) == d * DayTicks

\* getCurrentDate, of this moment or of the one before.
Today == {DayOf(clock), DayOf(clock - 1)}

\* Mutant of Expired: one day too few.
ExpiredADayEarly(d) == clock - Midnight(d) > (retentionDays_ - 1) * DayTicks

\* cleanupOldLogs: the age of a file counts from the midnight its day begins with.
Expired(d) == clock - Midnight(d) > retentionDays_ * DayTicks

\* Lines 102-135: some of what has expired is removed.  remove() may fail for a file, and an
\* exception ends the walk through the directory; both are swallowed.
cleanupOldLogs(files) ==
    \E gone \in SUBSET {e \in files : Expired(e)} :
        /\ logFiles' = files \ gone
        /\ cleaned' = (\A e \in files \ gone : ~Expired(e))

\* Opening the file of the day, which may fail, and cleaning up.
Open(d) ==
    /\ currentDate' = d
    /\ logFile' \in BOOLEAN
    /\ cleanupOldLogs(IF logFile' THEN logFiles \cup {d} ELSE logFiles)
    /\ lineKept' = (lineKept /\ (line # NoLine => line.file \in logFiles'))

\* Some files of earlier days, and perhaps this day's, are there; the constructor opens
\* one and cleans up.
LogInit ==
    /\ clock \in Midnight(FirstDay) .. Midnight(FirstDay + 1) - 1
    /\ currentDate = FirstDay
    /\ logFile \in BOOLEAN
    /\ logFiles \in SUBSET (0 .. FirstDay) /\ (logFile => FirstDay \in logFiles)
    /\ cleaned = (\A e \in logFiles : ~Expired(e))
    /\ writing = FALSE /\ line = NoLine /\ lineKept = TRUE

Tick ==
    /\ clock < MaxTime
    /\ clock' = clock + 1
    /\ UNCHANGED <<logFiles, currentDate, logFile, writing, line, lineKept, cleaned>>

\* rotateIfNeeded: lines 137-139 and 87-100.  The file is appended to.
rotateIfNeeded ==
    /\ ~writing
    /\ writing' = TRUE
    /\ \E today \in Today :
          IF today = currentDate
          THEN UNCHANGED <<logFiles, currentDate, logFile, lineKept, cleaned>>
          ELSE Open(today)
    /\ UNCHANGED <<clock, line>>

\* Lines 141-151: the line goes to the file if the stream is open.  After a write that
\* failed the stream takes no more, and the line is lost like those that follow it.
WriteLine ==
    /\ writing
    /\ writing' = FALSE
    /\ \/ UNCHANGED <<line, logFile>>
       \/ /\ logFile /\ line = NoLine
          /\ line' = [file |-> currentDate, at |-> clock]
          /\ UNCHANGED logFile
       \/ logFile' = FALSE /\ UNCHANGED line
    /\ UNCHANGED <<clock, logFiles, currentDate, lineKept, cleaned>>

\* The process ends, with or without a line on its way, and starts again.
RestartLogger ==
    /\ writing' = FALSE
    /\ Open(DayOf(clock))
    /\ UNCHANGED <<clock, line>>

LogNext == Tick \/ rotateIfNeeded \/ WriteLine \/ RestartLogger

LogSpec == LogInit /\ [][LogNext]_logVars

-----------------------------------------------------------------------------
(* Properties.                                                             *)

\* A line that reached its file, on the day of the file, is kept for retentionDays_ - 1 days
\* at least, since a file's age counts from the beginning of its day (lines 117-120); lines
\* only go to a file that is there; and whatever earlier clean-ups left behind, one that
\* succeeds brings the files back to retentionDays_, and one more when the first line of a
\* day is written at midnight.
LogKept ==
    /\ ~lineKept => \/ clock - line.at > (retentionDays_ - 1) * DayTicks
                    \/ DayOf(line.at) # line.file
    /\ logFile => currentDate \in logFiles
    /\ cleaned => Cardinality(logFiles) <= retentionDays_ + 1
=============================================================================
