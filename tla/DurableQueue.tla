---------------------------- MODULE DurableQueue ----------------------------
(***************************************************************************)
(* What Infrastructure.Messaging promises a consumer, whatever its         *)
(* callback does: the messages of its queue come one at a time and in the  *)
(* order in which they arrived, each leaves the queue only after it has    *)
(* been handled, and comes a second time only when something went wrong.   *)
(***************************************************************************)
EXTENDS Naturals, Sequences

CONSTANTS
    Messages,
    Nothing     \* no message

VARIABLES
    waiting,    \* the messages that have not been handled, oldest first
    taken,      \* the message that is being handled on the open connection
    troubles    \* how often something went wrong

vars == <<waiting, taken, troubles>>

Init ==
    /\ waiting = << >>
    /\ taken = Nothing
    /\ troubles = 0

Arrive ==
    /\ \E m \in Messages : waiting' = Append(waiting, m)
    /\ UNCHANGED <<taken, troubles>>

Take ==
    /\ taken = Nothing
    /\ waiting # << >>
    /\ taken' = Head(waiting)
    /\ UNCHANGED <<waiting, troubles>>

\* The message has been handled.
Settle ==
    /\ taken # Nothing
    /\ waiting' = Tail(waiting)
    /\ taken' = Nothing
    /\ UNCHANGED troubles

\* Something goes wrong: the message is still being handled, or it is
\* delivered again.
Trouble ==
    /\ troubles' = troubles + 1
    /\ taken' \in {taken, Nothing}
    /\ UNCHANGED waiting

Next == Arrive \/ Take \/ Settle \/ Trouble

Spec == Init /\ [][Next]_vars

=============================================================================
