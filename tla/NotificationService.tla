------------------------- MODULE NotificationService -------------------------
(***************************************************************************)
(* NotificationService: keeps the trading jobs that are still to be        *)
(* announced to their clients and, when TimeService says that a day has    *)
(* passed, mails each client its jobs of today and deletes them.  One      *)
(* action per statement: every statement commits by itself.                *)
(***************************************************************************)
EXTENDS RabbitMQMessageHandler, TimeService

CONSTANTS
    Clients,
    Jobs,
    Announcements,  \* what the other services publish, each at most once
    MaxFailures,    \* bound: how often something outside may go wrong
    MaxQueue        \* bound: how many messages may wait

ClientRegistered == [type : {"ClientRegistered"}, clientId : Clients]
TradingPlanned   == [type : {"TradingPlanned"}, jobId : Jobs, clientId : Clients,
                     startTime : Nat]
TradingFinished  == [type : {"TradingFinished"}, jobId : Jobs]
DayHasPassed     == [type |-> "DayHasPassed"]

Announcement == ClientRegistered \cup TradingPlanned \cup TradingFinished

ASSUME AnnouncementsAssumption == Announcements \subseteq Announcement
ASSUME NothingAssumption == Nothing \notin Announcement \cup {DayHasPassed}

Trading(m) == [jobId |-> m.jobId, clientId |-> m.clientId, startTime |-> m.startTime]

\* The rows that table Trading may hold.
Rows == {Trading(m) : m \in Announcements \cap TradingPlanned}

VARIABLES
    client,     \* table Client: the ClientIds
    trading,    \* table Trading: its rows
    registered, \* the rows that were ever inserted in it
    mailed,     \* by row, how often a reminder of it was handed to the mail client
    pc,         \* by activation, the statement it is at
    todo,       \* by activation, the rows of the clients its loop has not come to
    current,    \* by activation, the rows of its client, until they are removed
    announced,  \* the announcements published so far
    failures    \* how often something outside went wrong

tables == <<client, trading, registered>>
locals == <<todo, current>>
vars == <<queueVars, timeVars, tables, mailed, pc, locals, announced, failures>>

Locations == {"idle", "handle", "next", "mail", "remove", "return"}

Goto(h, location) == pc' = [pc EXCEPT ![h] = location]

Init ==
    /\ QueueInit
    /\ TimeInit
    /\ client = {}
    /\ trading = {}
    /\ registered = {}
    /\ mailed = [r \in Rows |-> 0]
    /\ pc = [h \in Handlers |-> "idle"]
    /\ todo = [h \in Handlers |-> {}]
    /\ current = [h \in Handlers |-> {}]
    /\ announced = {}
    /\ failures = 0

-----------------------------------------------------------------------------
(* The other services, and time.                                           *)

\* Events of different requests reach the exchange in any order.
Announce(m) ==
    /\ m \in Announcements \ announced
    /\ Len(queue) < MaxQueue
    /\ Enqueue(m)
    /\ announced' = announced \cup {m}
    /\ UNCHANGED <<timeVars, tables, mailed, pc, locals, failures>>

PassDay ==
    /\ Len(queue) < MaxQueue
    /\ PublishDay
    /\ Enqueue(DayHasPassed)
    /\ UNCHANGED <<tables, mailed, pc, locals, announced, failures>>

WatchTime ==
    /\ CheckInVain \/ StopWorker \/ RestartWorker
    /\ UNCHANGED <<queueVars, tables, mailed, pc, locals, announced, failures>>

\* A message is handled within the ten seconds of a tick; if it is not,
\* something is wrong.
LetTimePass ==
    /\ Tick
    /\ IF queue = << >> /\ \A h \in Handlers : pc[h] = "idle"
       THEN UNCHANGED failures
       ELSE failures < MaxFailures /\ failures' = failures + 1
    /\ UNCHANGED <<queueVars, tables, mailed, pc, locals, announced>>

-----------------------------------------------------------------------------
(* HandleMessageAsync.                                                     *)

HandleMessage(h) ==
    /\ Receive(h)
    /\ Goto(h, "handle")
    /\ UNCHANGED <<timeVars, tables, mailed, locals, announced, failures>>

At(h, type) == pc[h] = "handle" /\ handling[h].type = type

\* The statement has been executed, or refused with an exception that is
\* caught and logged: the callback returns true in both cases.
Executed(h) ==
    /\ Goto(h, "return")
    /\ UNCHANGED <<queueVars, timeVars, mailed, locals, announced, failures>>

\* A row that exists already is refused by the primary key.
RegisterClient(h) ==
    /\ At(h, "ClientRegistered")
    /\ client' = client \cup {handling[h].clientId}
    /\ Executed(h)
    /\ UNCHANGED <<trading, registered>>

RegisterTrading(h) ==
    LET row == Trading(handling[h]) IN
    /\ At(h, "TradingPlanned")
    /\ IF \E r \in trading : r.jobId = row.jobId
       THEN UNCHANGED <<trading, registered>>
       ELSE trading' = trading \cup {row} /\ registered' = registered \cup {row}
    /\ Executed(h)
    /\ UNCHANGED client

\* The table after RemoveTradingsAsync of one job.
Without(jobId) == {r \in trading : r.jobId # jobId}

FinishTrading(h) ==
    /\ At(h, "TradingFinished")
    /\ trading' = Without(handling[h].jobId)
    /\ Executed(h)
    /\ UNCHANGED <<client, registered>>

-----------------------------------------------------------------------------
(* HandleAsync(DayHasPassed).                                              *)

IsOn(r, day) == Day(r.startTime) = day

\* Slips the properties must notice: the lower limit of the query forgotten ...
GetTradingsUntilToday(h) ==
    /\ At(h, "DayHasPassed")
    /\ todo' = [todo EXCEPT ![h] = {r \in trading : Day(r.startTime) <= Day(clock)}]
    /\ Goto(h, "next")
    /\ UNCHANGED <<queueVars, timeVars, tables, mailed, current, announced, failures>>

\* ... or the limits of tomorrow.
GetTradingsForTomorrow(h) ==
    /\ At(h, "DayHasPassed")
    /\ todo' = [todo EXCEPT ![h] = {r \in trading : IsOn(r, Day(clock) + 1)}]
    /\ Goto(h, "next")
    /\ UNCHANGED <<queueVars, timeVars, tables, mailed, current, announced, failures>>

\* Today is DateTime.Now, read when the message is handled.
GetTradingsForToday(h) ==
    /\ At(h, "DayHasPassed")
    /\ todo' = [todo EXCEPT ![h] = {r \in trading : IsOn(r, Day(clock))}]
    /\ Goto(h, "next")
    /\ UNCHANGED <<queueVars, timeVars, tables, mailed, current, announced, failures>>

RowsOf(rows, c) == {r \in rows : r.clientId = c}

\* The query has no ORDER BY: any group may come next.  A client without a
\* row is null, and reading its Name ends the loop for all that follow.
NextClient(h) ==
    /\ pc[h] = "next"
    /\ \E r \in todo[h] :
          LET c == r.clientId IN
          IF c \in client
          THEN /\ current' = [current EXCEPT ![h] = RowsOf(todo[h], c)]
               /\ todo' = [todo EXCEPT ![h] = @ \ RowsOf(todo[h], c)]
               /\ Goto(h, "mail")
          ELSE Goto(h, "return") /\ UNCHANGED locals
    /\ UNCHANGED <<queueVars, timeVars, tables, mailed, announced, failures>>

NoMoreClients(h) ==
    /\ pc[h] = "next"
    /\ todo[h] = {}
    /\ Goto(h, "return")
    /\ UNCHANGED <<queueVars, timeVars, tables, mailed, locals, announced, failures>>

\* SendMailAsync takes the mail; ContinueWith hides whether it arrives.
SendNotification(h) ==
    /\ pc[h] = "mail"
    /\ mailed' = [r \in Rows |-> mailed[r] + IF r \in current[h] THEN 1 ELSE 0]
    /\ Goto(h, "remove")
    /\ UNCHANGED <<queueVars, timeVars, tables, locals, announced, failures>>

\* Slips the properties must notice: the rows of the client removed, whatever
\* their day ...
RemoveClient(h) ==
    /\ pc[h] = "remove"
    /\ trading' = {r \in trading : \A q \in current[h] : r.clientId # q.clientId}
    /\ current' = [current EXCEPT ![h] = {}]
    /\ Goto(h, "next")
    /\ UNCHANGED <<queueVars, timeVars, client, registered, mailed, todo, announced, failures>>

\* ... or only one of the jobs.
RemoveOne(h) ==
    /\ pc[h] = "remove"
    /\ \E r \in current[h] : trading' = Without(r.jobId)
    /\ current' = [current EXCEPT ![h] = {}]
    /\ Goto(h, "next")
    /\ UNCHANGED <<queueVars, timeVars, client, registered, mailed, todo, announced, failures>>

\* Dapper executes the DELETE once for each job; after the last one the loop
\* goes on.
RemoveNotified(h) ==
    /\ pc[h] = "remove"
    /\ \E r \in current[h] :
          /\ trading' = Without(r.jobId)
          /\ current' = [current EXCEPT ![h] = @ \ {r}]
          /\ Goto(h, IF current[h] = {r} THEN "next" ELSE "remove")
    /\ UNCHANGED <<queueVars, timeVars, client, registered, mailed, todo, announced, failures>>

\* The memory of an activation that has returned.
Forget(hs) ==
    /\ todo' = [h \in Handlers |-> IF h \in hs THEN {} ELSE todo[h]]
    /\ current' = [h \in Handlers |-> IF h \in hs THEN {} ELSE current[h]]

Return(h) ==
    /\ pc[h] = "return"
    /\ Acknowledge(h)
    /\ Forget({h})
    /\ Goto(h, "idle")
    /\ UNCHANGED <<timeVars, tables, mailed, announced, failures>>

-----------------------------------------------------------------------------
(* What goes wrong.                                                        *)

\* A slip the properties must notice: the exception leaves Consumer_Received.
ThrowUncaught(h) ==
    /\ pc[h] \notin {"idle", "return"}
    /\ failures < MaxFailures
    /\ failures' = failures + 1
    /\ Forget({h})
    /\ Goto(h, "idle")
    /\ UNCHANGED <<queueVars, timeVars, tables, mailed, announced>>

\* A statement, or SendMailAsync itself, throws: caught by HandleMessageAsync.
Throw(h) ==
    /\ pc[h] \notin {"idle", "return"}
    /\ failures < MaxFailures
    /\ failures' = failures + 1
    /\ Goto(h, "return")
    /\ UNCHANGED <<queueVars, timeVars, tables, mailed, locals, announced>>

LoseConnection ==
    /\ failures < MaxFailures
    /\ failures' = failures + 1
    /\ \E h \in Handlers : Reconnect(h)
    /\ UNCHANGED <<timeVars, tables, mailed, pc, locals, announced>>

Crash ==
    /\ failures < MaxFailures
    /\ failures' = failures + 1
    /\ Restart
    /\ Forget(Handlers)
    /\ pc' = [h \in Handlers |-> "idle"]
    /\ UNCHANGED <<timeVars, tables, mailed, announced>>

-----------------------------------------------------------------------------

Step(h) ==
    \/ HandleMessage(h)
    \/ RegisterClient(h) \/ RegisterTrading(h) \/ FinishTrading(h)
    \/ GetTradingsForToday(h)
    \/ NextClient(h) \/ NoMoreClients(h)
    \/ SendNotification(h)
    \/ RemoveNotified(h)
    \/ Return(h)

Time == PassDay \/ WatchTime \/ LetTimePass

Environment ==
    \/ \E m \in Announcements : Announce(m)
    \/ \E h \in Handlers : Throw(h)
    \/ LoseConnection
    \/ Crash

Next == (\E h \in Handlers : Step(h)) \/ Time \/ Environment

\* A handler that can go on does.  Nothing is asked of the other services, and
\* of time only that it does not pass a handler by (LetTimePass).
Fairness == \A h \in Handlers : WF_vars(Step(h))

Spec == Init /\ [][Next]_vars

FairSpec == Spec /\ Fairness

\* What the messaging library promises, kept by all that this service does with
\* it.
Delivery == INSTANCE DurableQueue WITH
    Messages <- Announcements \cup {DayHasPassed},
    waiting  <- queue,
    taken    <- handling[channel],
    troubles <- failures

ImplementsDelivery == Delivery!Spec

-----------------------------------------------------------------------------
(* Properties.                                                             *)

\* Every variable holds what its table, its queue or its local variable can
\* hold, and an activation is idle exactly when it handles no message.
TypeOK ==
    /\ queue \in Seq(Announcements \cup {DayHasPassed})
    /\ channel \in Handlers
    /\ handling \in [Handlers -> Announcements \cup {DayHasPassed, Nothing}]
    /\ clock \in Nat /\ lastCheck \in Int /\ wake \in Nat /\ running \in BOOLEAN
    /\ client \subseteq Clients
    /\ trading \subseteq registered
    /\ registered \subseteq Rows
    /\ mailed \in [Rows -> Nat]
    /\ pc \in [Handlers -> Locations]
    /\ todo \in [Handlers -> SUBSET registered]
    /\ current \in [Handlers -> SUBSET registered]
    /\ announced \subseteq Announcements
    /\ failures \in Nat
    /\ \A h \in Handlers : pc[h] = "idle" <=> handling[h] = Nothing

IsFinished(jobId) == \E m \in announced : m \in TradingFinished /\ m.jobId = jobId

\* No job drops out of the table unheard: its client was mailed or the job was
\* finished.  After a failure a left-over activation may also remove a job that
\* has since been planned again under the id of one it has mailed.
RemovedForAReason ==
    \A r \in registered \ trading :
        \/ mailed[r] > 0
        \/ IsFinished(r.jobId)
        \/ failures > 0 /\ \E q \in Rows \ {r} : q.jobId = r.jobId /\ mailed[q] > 0

\* A failure costs a client at most one more reminder of a job: neither the
\* activation that it leaves behind nor the message that it brings back, nor a
\* day that TimeService announces again, adds a reminder of its own.
NotifiedOncePerFailure == \A r \in Rows : mailed[r] <= 1 + failures

\* A reminder goes out on the day of the job and to a client that is known,
\* unless something went wrong in between.
RemindedOnTheDay ==
    [][\A r \in Rows :
          mailed'[r] # mailed[r] =>
              r.clientId \in client /\ (IsOn(r, Day(clock)) \/ failures > 0)]_vars

\* Some client of today's jobs is not registered (yet).
Blocked == \E r \in trading : IsOn(r, Day(clock)) /\ r.clientId \notin client

DayWaits == \E i \in DOMAIN queue : queue[i] = DayHasPassed

\* Of the jobs of today that are there when the day is announced none is left
\* behind, unless a client blocks the loop or something goes wrong.
DueIsNotified ==
    \A r \in Rows :
        (r \in trading /\ IsOn(r, Day(clock)) /\ DayWaits)
            ~> (r \notin trading \/ Blocked \/ failures > 0)

-----------------------------------------------------------------------------
(* What the documentation says, and the code does not do.                  *)

\* "Dispatches notifications to all client scheduled for trading tasks on the
\* current day": no job of a known client is still to be announced when its
\* day is over.
ScheduledIsNotified ==
    \A r \in trading : r.clientId \in client => Day(clock) <= Day(r.startTime)

=============================================================================
