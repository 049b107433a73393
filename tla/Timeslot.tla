------------------------------ MODULE Timeslot ------------------------------
(***************************************************************************)
(* The value object Timeslot of PortfolioManagementAPI.  Times are ticks   *)
(* since some midnight; a day has TicksPerDay of them.  A pair of times    *)
(* becomes a Timeslot only through Timeslot.Create, so a command carries a *)
(* pair (TimePair) and a job a Timeslot.                                   *)
(***************************************************************************)
EXTENDS Integers

CONSTANT TicksPerDay

ASSUME TicksPerDayAssumption == TicksPerDay \in Nat \ {0}

TimePair == [start : Nat, end : Nat]

\* ValidateInput: Create throws InvalidValueException for any other pair.
IsValid(pair) == pair.start < pair.end

Timeslots == {pair \in TimePair : IsValid(pair)}

IsWithinOneDay(slot) == slot.start \div TicksPerDay = slot.end \div TicksPerDay

\* A slip the properties must notice: the second comparison forgotten.
OverlapsWithShortened(slot, other) ==
    /\ slot.start > other.start
    /\ slot.start <= other.end

\* slot.OverlapsWith(other).  The first comparison is strict and no disjunct
\* asks whether slot begins before other and ends after it.
OverlapsWith(slot, other) ==
    \/ slot.start > other.start /\ slot.start <= other.end
    \/ slot.end >= other.start /\ slot.end <= other.end

-----------------------------------------------------------------------------
(* What the two slots are to each other as intervals of time.              *)

Intersects(a, b) == a.start <= b.end /\ b.start <= a.end

\* a begins no later than b and is still running when b ends.
Encloses(a, b) == a.start <= b.start /\ a.end > b.end

=============================================================================
