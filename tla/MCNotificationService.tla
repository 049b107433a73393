------------------------ MODULE MCNotificationService ------------------------
(* NotificationService and TimeService on a small instance.                *)
EXTENDS NotificationService

CONSTANTS c1, c2, j1, j2

Registered(c) == [type |-> "ClientRegistered", clientId |-> c]

Planned(job, owner, time) ==
    [type |-> "TradingPlanned", jobId |-> job, clientId |-> owner, startTime |-> time]

\* Two jobs of one client on a day, and the id of one of them planned again for
\* the next day and for another client, whose registration has not arrived.
MCAnnouncements ==
    {Registered(c1),
     Planned(j1, c1, 0), Planned(j2, c1, 1), Planned(j1, c2, TicksPerDay),
     [type |-> "TradingFinished", jobId |-> j1]}

\* Activations are alike: it is enough that the first one opens the channel.
MCInit ==
    /\ Init
    /\ channel = CHOOSE h \in Handlers : TRUE

MCSpec == MCInit /\ [][Next]_vars /\ Fairness

\* A job of the second day, and its client, are there before the first day is
\* announced, and TimeService runs all the time.
MCAheadAnnouncements == {Registered(c1), Planned(j1, c1, TicksPerDay)}

MCAheadInit ==
    /\ QueueInit
    /\ TimeInit
    /\ announced = MCAheadAnnouncements
    /\ client = {c1}
    /\ trading = Rows
    /\ registered = Rows
    /\ mailed = [r \in Rows |-> 0]
    /\ pc = [h \in Handlers |-> "idle"]
    /\ todo = [h \in Handlers |-> {}]
    /\ current = [h \in Handlers |-> {}]
    /\ failures = 0

MCAheadSpec == MCAheadInit /\ [][Next /\ running']_vars

=============================================================================
