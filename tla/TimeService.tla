----------------------------- MODULE TimeService -----------------------------
(***************************************************************************)
(* The worker of TimeService and the clock it reads: every ten seconds it  *)
(* compares the time with that of its last announcement.  A tick of the    *)
(* clock is the ten seconds of its sleep.  The consumers extend this       *)
(* module and take PublishDay together with what it does to their queue.   *)
(***************************************************************************)
EXTENDS Integers

CONSTANTS
    TicksPerDay,
    MaxClock        \* bound: when the clock stops

ASSUME TicksPerDayAssumption == TicksPerDay \in Nat \ {0}

VARIABLES
    clock,      \* DateTime.Now
    lastCheck,  \* _lastCheck, the time of the last announcement
    wake,       \* when Thread.Sleep ends
    running     \* the process runs

timeVars == <<clock, lastCheck, wake, running>>

Day(t) == t \div TicksPerDay

\* The constructor sets _lastCheck a day back.
StartWorker ==
    /\ lastCheck' = clock - TicksPerDay
    /\ wake' = clock
    /\ running' = TRUE

TimeInit ==
    /\ clock \in 0 .. TicksPerDay - 1
    /\ lastCheck = clock - TicksPerDay
    /\ wake = clock
    /\ running = TRUE

DayHasGoneBy == Day(clock - lastCheck) > 0

\* A slip the properties must notice: a sleep of a day instead of ten seconds.
SleepADay ==
    /\ running
    /\ clock >= wake
    /\ ~DayHasGoneBy
    /\ wake' = clock + TicksPerDay
    /\ UNCHANGED <<clock, lastCheck, running>>

CheckInVain ==
    /\ running
    /\ clock >= wake
    /\ ~DayHasGoneBy
    /\ wake' = clock + 1
    /\ UNCHANGED <<clock, lastCheck, running>>

\* DayHasPassed is published by this step.
PublishDay ==
    /\ running
    /\ clock >= wake
    /\ DayHasGoneBy
    /\ lastCheck' = clock
    /\ wake' = clock + 1
    /\ UNCHANGED <<clock, running>>

\* Worker is async void: when the broker refuses the message, nobody catches
\* the exception and the process ends; or it is stopped.
StopWorker ==
    /\ running
    /\ running' = FALSE
    /\ UNCHANGED <<clock, lastCheck, wake>>

RestartWorker ==
    /\ ~running
    /\ StartWorker
    /\ UNCHANGED clock

\* Ten seconds go by.  A sleep takes at least as long as it is asked to, and
\* not much longer: a check comes at its tick or at the next.
Tick ==
    /\ clock < MaxClock
    /\ running => clock <= wake
    /\ clock' = clock + 1
    /\ UNCHANGED <<lastCheck, wake, running>>

-----------------------------------------------------------------------------

\* While the worker runs, a day is announced within a day and a tick of the one
\* before: a check may come late, but lateness does not add up over the checks.
DayIsAnnouncedInTime == running => clock - lastCheck <= TicksPerDay + 1

=============================================================================
