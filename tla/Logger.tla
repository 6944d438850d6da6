-------------------------------- MODULE Logger ------------------------------
(***************************************************************************)
(* class Logger of utils/logg.cpp: threads that log, one step per access   *)
(* to what they share, and a program that changes the settings meanwhile.  *)
(* The level and the flag are read and written without the mutex.          *)
(***************************************************************************)
EXTENDS Integers

CONSTANTS
    Loggers,    \* threads that call Log, one message each at a time
    Files,      \* the arguments of SetLogFile
    LogTxt,     \* "log.txt", which Log opens itself
    Console,    \* std::cout
    Closed,     \* logFile is not open
    NoHolder    \* nobody holds mtx

ASSUME LoggerAssumption ==
    /\ LogTxt \in Files
    /\ Closed \notin Files /\ Console \notin Files
    /\ NoHolder \notin Loggers

\* Two of the levels DEBUG to ERROR.
Levels == 0..1

VARIABLES
    level, IsOutputToFile, logFile, mtx,    \* the static members
    step,       \* step[t]: where thread t is in Log
    msgLevel,   \* the parameter level of its call
    sinks,      \* where the line of its last call went
    broken,     \* an open of log.txt failed during that call
    named       \* history: where the settings pointed during that call

shared == <<level, IsOutputToFile, logFile, mtx>>
calls == <<step, msgLevel, sinks, broken>>
loggerVars == <<shared, calls, named>>

LoggerTypeOK ==
    /\ level \in Levels /\ IsOutputToFile \in BOOLEAN
    /\ logFile \in Files \cup {Closed}
    /\ mtx \in Loggers \cup {NoHolder}
    /\ step \in [Loggers -> {"out", "lock", "open", "write"}]
    /\ msgLevel \in [Loggers -> Levels]
    /\ sinks \in [Loggers -> SUBSET (Files \cup {Console})]
    /\ broken \in [Loggers -> BOOLEAN]
    /\ named \in [Loggers -> SUBSET (Files \cup {Console})]

\* Where a line written now belongs.
Sink == IF ~IsOutputToFile THEN Console
        ELSE IF logFile = Closed THEN LogTxt ELSE logFile

LoggerInit ==
    /\ level = 1 /\ IsOutputToFile = FALSE /\ logFile = Closed
    /\ mtx = NoHolder
    /\ step = [t \in Loggers |-> "out"]
    /\ msgLevel = [t \in Loggers |-> 0]
    /\ sinks = [t \in Loggers |-> {}]
    /\ broken = [t \in Loggers |-> FALSE]
    /\ named = [t \in Loggers |-> {}]

StepTo(t, place) == step' = [step EXCEPT ![t] = place]

-----------------------------------------------------------------------------

\* Log tests the level before it takes the mutex.
LogCall(t, lev) ==
    /\ step[t] = "out"
    /\ StepTo(t, IF lev < level THEN "out" ELSE "lock")
    /\ msgLevel' = [msgLevel EXCEPT ![t] = lev]
    /\ sinks' = [sinks EXCEPT ![t] = {}]
    /\ broken' = [broken EXCEPT ![t] = FALSE]
    /\ UNCHANGED shared

LogLock(t) ==
    /\ step[t] = "lock" /\ mtx = NoHolder
    /\ mtx' = t
    /\ StepTo(t, "open")
    /\ UNCHANGED <<level, IsOutputToFile, logFile, msgLevel, sinks, broken>>

\* The first look at the flag; to open log.txt may fail.
LogOpen(t) ==
    /\ step[t] = "open"
    /\ StepTo(t, "write")
    /\ \/ /\ ~IsOutputToFile \/ logFile # Closed
          /\ UNCHANGED <<logFile, broken>>
       \/ /\ IsOutputToFile /\ logFile = Closed
          /\ \/ logFile' = LogTxt /\ UNCHANGED broken
             \/ broken' = [broken EXCEPT ![t] = TRUE] /\ UNCHANGED logFile
    /\ UNCHANGED <<level, IsOutputToFile, mtx, msgLevel, sinks>>

\* The second look at the flag, the line, and the end of the lock_guard.
LogWrite(t) ==
    /\ step[t] = "write"
    /\ sinks' = [sinks EXCEPT ![t] = @ \cup
                    {IF IsOutputToFile /\ logFile # Closed THEN logFile ELSE Console}]
    /\ mtx' = NoHolder
    /\ StepTo(t, "out")
    /\ UNCHANGED <<level, IsOutputToFile, logFile, msgLevel, broken>>

SetLevel(lev) ==
    level' = lev /\ UNCHANGED <<IsOutputToFile, logFile, mtx, calls>>

SetOutputToFile(outputToFile) ==
    IsOutputToFile' = outputToFile /\ UNCHANGED <<level, logFile, mtx, calls>>

\* Mutant: the file changes without the mutex.
SetLogFile_NoLock(filename) ==
    /\ logFile' \in {filename, Closed}
    /\ UNCHANGED <<level, IsOutputToFile, mtx, calls>>

\* One step: all that it touches is under the mutex.  To open may fail.
SetLogFile(filename) ==
    /\ mtx = NoHolder
    /\ logFile' \in {filename, Closed}
    /\ UNCHANGED <<level, IsOutputToFile, mtx, calls>>

LoggerStep ==
    \/ \E t \in Loggers : \/ \E lev \in Levels : LogCall(t, lev)
                          \/ LogLock(t) \/ LogOpen(t) \/ LogWrite(t)
    \/ \E lev \in Levels : SetLevel(lev)
    \/ \E to \in BOOLEAN : SetOutputToFile(to)
    \/ \E filename \in Files : SetLogFile(filename)

\* The history starts anew when a call passes the test of the level.
LoggerNext ==
    /\ LoggerStep
    /\ named' = [t \in Loggers |->
                    IF step[t] = "out" /\ step'[t] = "lock" THEN {Sink}
                    ELSE IF step[t] = "out" THEN named[t]
                    ELSE named[t] \cup {Sink'}]

LoggerSpec == LoggerInit /\ [][LoggerNext]_loggerVars

-----------------------------------------------------------------------------
(* Properties.                                                             *)

\* Whatever the settings do meanwhile, without the mutex, a line goes to one
\* place, and to one that the settings named at some time during the call;
\* only if log.txt cannot be opened it goes to the console instead.
LineWhereSettingsSaid ==
    \A t \in Loggers :
        step[t] = "out" =>
            \A s \in sinks[t] : s \in named[t] \/ (s = Console /\ broken[t])

=============================================================================
