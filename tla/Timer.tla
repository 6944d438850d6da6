-------------------------------- MODULE Timer -------------------------------
(***************************************************************************)
(* class Timer of utils/time.cpp, used by one thread.  The clock counts in *)
(* units of which Tick make a millisecond; durations are cut to whole ones.*)
(* It is taken never to go back, as high_resolution_clock does where it is *)
(* the steady clock; the standard leaves that open.                        *)
(***************************************************************************)
EXTENDS Integers

CONSTANTS
    Tick,       \* the clock's units in a millisecond
    Garbage,    \* what total_time_ may hold: the constructor leaves it unset
    MaxTime,    \* bound: how far the clock runs
    MaxStops    \* bound: calls of stop

ASSUME TimerAssumption ==
    /\ {Tick, MaxTime, MaxStops} \subseteq Nat /\ Tick > 0
    /\ Garbage \subseteq Int

VARIABLES
    now,            \* the clock
    start_time_, stop_time_, total_time_, is_running_,
    first,          \* history: total_time_ at construction
    measured,       \* history: units between start and stop, summed
    stops           \* history: how often a running timer was stopped

timerVars == <<now, start_time_, stop_time_, total_time_, is_running_,
               first, measured, stops>>

TimerTypeOK ==
    /\ {now, start_time_, stop_time_, measured, stops} \subseteq Nat
    /\ {total_time_, first} \subseteq Int
    /\ is_running_ \in BOOLEAN
    /\ start_time_ <= now

TimerInit ==
    /\ now = 0 /\ start_time_ = 0 /\ stop_time_ = 0
    /\ total_time_ \in Garbage
    /\ is_running_ = FALSE
    /\ first = total_time_ /\ measured = 0 /\ stops = 0

Passes ==
    /\ now < MaxTime /\ now' = now + 1
    /\ UNCHANGED <<start_time_, stop_time_, total_time_, is_running_,
                   first, measured, stops>>

\* Starts anew also when the timer is running.
start ==
    /\ start_time_' = now
    /\ is_running_' = TRUE
    /\ UNCHANGED <<now, stop_time_, total_time_, first, measured, stops>>

\* duration_cast<milliseconds>.
Millis(duration) == duration \div Tick

\* Mutant: a second stop counts again.
stop_Again ==
    /\ stops < MaxStops
    /\ stop_time_' = now
    /\ is_running_' = FALSE
    /\ total_time_' = total_time_ + Millis(stop_time_' - start_time_)
    /\ measured' = IF is_running_ THEN measured + (now - start_time_) ELSE measured
    /\ stops' = IF is_running_ THEN stops + 1 ELSE stops
    /\ UNCHANGED <<now, start_time_, first>>

stop ==
    /\ is_running_ /\ stops < MaxStops
    /\ stop_time_' = now
    /\ is_running_' = FALSE
    /\ total_time_' = total_time_ + Millis(stop_time_' - start_time_)
    /\ measured' = measured + (now - start_time_)
    /\ stops' = stops + 1
    /\ UNCHANGED <<now, start_time_, first>>

elapsed == total_time_ + (IF is_running_ THEN Millis(now - start_time_) ELSE 0)

TimerNext == Passes \/ start \/ stop

-----------------------------------------------------------------------------
(* Properties.                                                             *)

\* What elapsed shows is short of the time measured by less than a millisecond
\* per measurement, the running one included, and nothing is counted twice.
LosesUnderAMilliPerStop ==
    LET running == IF is_running_ THEN 1 ELSE 0
        lost == measured + running * (now - start_time_) - Tick * (elapsed - first)
    IN  lost >= 0 /\ lost <= (stops + running) * (Tick - 1)

=============================================================================
