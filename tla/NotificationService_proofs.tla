---------------------- MODULE NotificationService_proofs ----------------------
(***************************************************************************)
(* Proofs about NotificationService and the TimeService it extends, for    *)
(* any clients, jobs, messages, length of the day and number of failures.  *)
(***************************************************************************)
EXTENDS NotificationService, FailureBudget, SequenceTheorems

(***************************************************************************)
(* The days.                                                               *)
(***************************************************************************)

TimeInv ==
    /\ clock \in Nat /\ lastCheck \in Int /\ wake \in Nat /\ running \in BOOLEAN
    /\ running => wake <= lastCheck + TicksPerDay /\ clock <= wake + 1

\* Less than a day has gone by: its ticks are fewer than those of a day.
LEMMA NoWholeDay ==
    ASSUME NEW t \in Int, ~(Day(t) > 0)
    PROVE  t < TicksPerDay
<1>1. TicksPerDay \in Nat /\ TicksPerDay > 0
  BY TicksPerDayAssumption
<1>2. Day(t) \in Int /\ t = TicksPerDay * Day(t) + (t % TicksPerDay)
  BY <1>1 DEF Day
<1>3. (t % TicksPerDay) \in Int /\ t % TicksPerDay < TicksPerDay
  BY <1>1
<1>4. TicksPerDay * Day(t) <= 0 /\ TicksPerDay * Day(t) \in Int
  BY <1>1, <1>2
<1> QED
  BY <1>1, <1>2, <1>3, <1>4

LEMMA TimeStep ==
    ASSUME TimeInv, [Next]_vars
    PROVE  TimeInv'
<1>0. TicksPerDay \in Nat /\ TicksPerDay > 0
  BY TicksPerDayAssumption
<1>1. CASE CheckInVain
  <2>1. clock - lastCheck < TicksPerDay
    BY <1>1, NoWholeDay DEF CheckInVain, DayHasGoneBy, TimeInv
  <2> QED
    BY <1>0, <1>1, <2>1 DEF CheckInVain, TimeInv
<1>2. CASE PublishDay
  BY <1>0, <1>2 DEF PublishDay, TimeInv
<1>3. CASE StopWorker \/ RestartWorker
  <2>1. CASE StopWorker
    BY <2>1 DEF StopWorker, TimeInv
  <2>2. CASE RestartWorker
    <3>1. /\ clock' = clock /\ running' = TRUE
          /\ lastCheck' = clock - TicksPerDay
          /\ wake' = clock
      BY <2>2 DEF RestartWorker, StartWorker
    <3> QED
      BY <1>0, <3>1 DEF TimeInv
  <2> QED
    BY <1>3, <2>1, <2>2
<1>4. CASE Tick
  BY <1>0, <1>4 DEF Tick, TimeInv
<1>5. CASE UNCHANGED timeVars
  BY <1>5 DEF timeVars, TimeInv
<1>6. CASE Time
  BY <1>1, <1>2, <1>3, <1>4, <1>6 DEF Time, PassDay, WatchTime, LetTimePass
<1>7. ASSUME NEW h \in Handlers, Step(h)
      PROVE  UNCHANGED timeVars
  BY <1>7
     DEF Step, HandleMessage, RegisterClient, RegisterTrading, FinishTrading,
         Executed, GetTradingsForToday, NextClient, NoMoreClients,
         SendNotification, RemoveNotified, Return
<1>8. CASE Environment \/ UNCHANGED vars
  BY <1>5, <1>8 DEF Environment, Announce, Throw, LoseConnection, Crash, vars
<1> QED
  BY <1>5, <1>6, <1>7, <1>8 DEF Next

LEMMA TimeHolds == Spec => []TimeInv
<1>1. Init => TimeInv
  BY TicksPerDayAssumption DEF Init, TimeInit, TimeInv
<1> QED
  BY <1>1, TimeStep, PTL DEF Spec

\* A check that finds nothing to announce is followed by one before the day is
\* over, or a tick later: the delays do not add up.
THEOREM DaysAreAnnounced == Spec => []DayIsAnnouncedInTime
<1>1. TimeInv => DayIsAnnouncedInTime
  BY TicksPerDayAssumption DEF TimeInv, DayIsAnnouncedInTime
<1> QED
  BY <1>1, TimeHolds, PTL

(***************************************************************************)
(* The queue.                                                              *)
(***************************************************************************)

\* The open connection is at the head of the queue.
HandlesHead ==
    handling[channel] # Nothing => queue # << >> /\ Head(queue) = handling[channel]

\* What is in the queue or is being handled was published.
QueueInv ==
    /\ queue \in Seq(announced \cup {DayHasPassed})
    /\ channel \in Handlers
    /\ handling \in [Handlers -> announced \cup {DayHasPassed, Nothing}]
    /\ pc \in [Handlers -> Locations]
    /\ announced \subseteq Announcements
    /\ failures \in Nat
    /\ \A h \in Handlers : pc[h] = "idle" <=> handling[h] = Nothing
    /\ HandlesHead

LEMMA MessageIsSomething == \A m \in Announcements \cup {DayHasPassed} : m # Nothing
BY NothingAssumption, AnnouncementsAssumption

LEMMA MoreIsAnnounced ==
    ASSUME QueueInv, NEW m \in Announcements
    PROVE  queue \in Seq(announced \cup {m} \cup {DayHasPassed})
BY DEF QueueInv

LEMMA QueueStep ==
    ASSUME QueueInv, [Next]_vars
    PROVE  QueueInv'
<1> USE DEF QueueInv, HandlesHead
<1>0. \A m \in announced \cup {DayHasPassed} : m # Nothing
  BY MessageIsSomething
<1>1. ASSUME NEW h \in Handlers, HandleMessage(h)
      PROVE  QueueInv'
  <2>1. queue # << >> => Head(queue) \in announced \cup {DayHasPassed}
    BY HeadTailProperties
  <2> QED
    BY <1>0, <1>1, <2>1 DEF HandleMessage, Receive, Goto, Locations
<1>2. ASSUME NEW h \in Handlers, NEW location \in Locations \ {"idle"},
             pc[h] # "idle", Goto(h, location), UNCHANGED <<queueVars, announced>>,
             failures' \in Nat
      PROVE  QueueInv'
  BY <1>2 DEF Goto, queueVars
<1>3. ASSUME NEW h \in Handlers, Return(h)
      PROVE  QueueInv'
  <2>1. handling[h] # Nothing => queue' \in Seq(announced \cup {DayHasPassed})
    BY <1>3, <1>0 DEF Return, Acknowledge
  <2> QED
    BY <1>3, <1>0, <2>1 DEF Return, Acknowledge, Goto, Locations
<1>4. ASSUME NEW m \in Announcements, Announce(m)
      PROVE  QueueInv'
  <2>1. queue \in Seq(announced' \cup {DayHasPassed})
    BY <1>4, MoreIsAnnounced DEF Announce
  <2>2. queue' \in Seq(announced' \cup {DayHasPassed})
    BY <1>4, <2>1 DEF Announce, Enqueue
  <2> QED
    BY <1>4, <2>2 DEF Announce, Enqueue
<1>5. CASE PassDay
  BY <1>5 DEF PassDay, Enqueue
<1>6. CASE LetTimePass \/ WatchTime \/ LoseConnection
  BY <1>6 DEF LetTimePass, WatchTime, LoseConnection, Reconnect, queueVars
<1>7. CASE Crash
  BY <1>7 DEF Crash, Restart, Locations
<1>8. CASE UNCHANGED vars
  BY <1>8 DEF vars, queueVars
<1>9. ASSUME NEW h \in Handlers, Step(h) \/ Throw(h)
      PROVE  QueueInv'
  <2> USE DEF Locations, At
  <2>1. CASE HandleMessage(h)
    BY <2>1, <1>1
  <2>2. CASE RegisterClient(h) \/ RegisterTrading(h) \/ FinishTrading(h)
    BY <2>2, <1>2 DEF RegisterClient, RegisterTrading, FinishTrading, Executed
  <2>3. CASE GetTradingsForToday(h)
    BY <2>3, <1>2 DEF GetTradingsForToday
  <2>4. CASE NextClient(h) \/ NoMoreClients(h)
    BY <2>4, <1>2 DEF NextClient, NoMoreClients
  <2>5. CASE SendNotification(h)
    BY <2>5, <1>2 DEF SendNotification
  <2>6. CASE RemoveNotified(h)
    BY <2>6, <1>2 DEF RemoveNotified
  <2>7. CASE Return(h)
    BY <2>7, <1>3
  <2>8. CASE Throw(h)
    <3>1. failures' \in Nat
      BY <2>8 DEF Throw
    <3> QED
      BY <2>8, <3>1, <1>2 DEF Throw
  <2> QED
    BY <1>9, <2>1, <2>2, <2>3, <2>4, <2>5, <2>6, <2>7, <2>8 DEF Step
<1> QED
  BY <1>4, <1>5, <1>6, <1>7, <1>8, <1>9 DEF Next, Time, Environment

(***************************************************************************)
(* The tables, and what the activations remember of them.                  *)
(***************************************************************************)

TableInv ==
    /\ client \subseteq Clients
    /\ trading \subseteq registered
    /\ registered \subseteq Rows
    /\ mailed \in [Rows -> Nat]
    /\ \A q, r \in trading : q.jobId = r.jobId => q = r

MemoryType ==
    /\ todo \in [Handlers -> SUBSET registered]
    /\ current \in [Handlers -> SUBSET registered]

\* The rows an activation is busy with are none of those still to come; it
\* knows their client, and has mailed it before it removes them.
MemoryRight(g) ==
    /\ pc[g] \in {"idle", "handle"} => todo[g] = {} /\ current[g] = {}
    /\ todo[g] \cap current[g] = {}
    /\ pc[g] \in {"mail", "remove"} => \A r \in current[g] : r.clientId \in client
    /\ pc[g] = "remove" => \A r \in current[g] : mailed[r] > 0

ServiceInv ==
    /\ QueueInv
    /\ TableInv
    /\ MemoryType
    /\ \A g \in Handlers : MemoryRight(g)

LEMMA HandledMessage ==
    ASSUME QueueInv, NEW h \in Handlers
    PROVE  /\ At(h, "ClientRegistered") => handling[h] \in ClientRegistered
           /\ At(h, "TradingPlanned")   => handling[h] \in announced \cap TradingPlanned
           /\ At(h, "TradingFinished")  => handling[h] \in announced \cap TradingFinished
<1>1. pc[h] = "handle" => /\ handling[h] \in announced \cup {DayHasPassed}
                          /\ handling[h] \in Announcement \cup {DayHasPassed}
  BY AnnouncementsAssumption DEF QueueInv
<1> QED
  BY <1>1 DEF At, Announcement, ClientRegistered, TradingPlanned,
              TradingFinished, DayHasPassed

\* The tables only grow, but for the jobs; mails and failures add up.
Grows ==
    /\ client \subseteq client'
    /\ registered \subseteq registered'
    /\ announced \subseteq announced'
    /\ failures' = failures \/ failures' = failures + 1
    /\ \A r \in Rows : mailed'[r] = mailed[r] \/ mailed'[r] = mailed[r] + 1

LEMMA MailSteps ==
    ASSUME TableInv, NEW h \in Handlers, SendNotification(h)
    PROVE  /\ mailed' \in [Rows -> Nat]
           /\ \A r \in Rows :
                 mailed'[r] = IF r \in current[h] THEN mailed[r] + 1 ELSE mailed[r]
<1>1. \A r \in Rows : mailed[r] \in Nat
  BY DEF TableInv
<1>2. mailed' = [r \in Rows |-> mailed[r] + IF r \in current[h] THEN 1 ELSE 0]
  BY DEF SendNotification
<1>3. \A r \in Rows : mailed[r] + (IF r \in current[h] THEN 1 ELSE 0)
         = IF r \in current[h] THEN mailed[r] + 1 ELSE mailed[r]
  BY <1>1
<1> QED
  BY <1>1, <1>2, <1>3

LEMMA GrowStep ==
    ASSUME TableInv, [Next]_vars
    PROVE  Grows
<1>1. ASSUME NEW h \in Handlers, SendNotification(h)
      PROVE  Grows
  BY <1>1, MailSteps DEF SendNotification, tables, Grows
<1>2. ASSUME NEW h \in Handlers, RegisterClient(h) \/ RegisterTrading(h) \/ FinishTrading(h)
      PROVE  Grows
  BY <1>2 DEF RegisterClient, RegisterTrading, FinishTrading, Executed, Grows
<1>3. ASSUME NEW h \in Handlers, Step(h)
      PROVE  Grows
  BY <1>1, <1>2, <1>3
     DEF Step, HandleMessage, GetTradingsForToday, NextClient, NoMoreClients,
         RemoveNotified, Return, tables, Grows
<1>4. CASE Time \/ Environment \/ UNCHANGED vars
  BY <1>4 DEF Time, PassDay, WatchTime, LetTimePass, Environment, Announce,
              Throw, LoseConnection, Crash, tables, vars, Grows
<1> QED
  BY <1>3, <1>4 DEF Next

LEMMA TableStep ==
    ASSUME QueueInv, TableInv, [Next]_vars
    PROVE  TableInv'
<1>1. CASE UNCHANGED <<client, registered, mailed>> /\ trading' \subseteq trading
  BY <1>1 DEF TableInv
<1>2. ASSUME NEW h \in Handlers, RegisterClient(h)
      PROVE  TableInv'
  <2>1. handling[h].clientId \in Clients
    BY <1>2, HandledMessage DEF RegisterClient, ClientRegistered
  <2> QED
    BY <1>2, <2>1 DEF RegisterClient, Executed, TableInv
<1>3. ASSUME NEW h \in Handlers, RegisterTrading(h)
      PROVE  TableInv'
  <2> DEFINE row == Trading(handling[h])
  <2>1. row \in Rows
    BY <1>3, HandledMessage DEF RegisterTrading, Rows, QueueInv
  <2>2. \/ UNCHANGED <<trading, registered>>
        \/ /\ trading' = trading \cup {row} /\ registered' = registered \cup {row}
           /\ \A r \in trading : r.jobId # row.jobId
    BY <1>3 DEF RegisterTrading
  <2>3. UNCHANGED <<client, mailed>>
    BY <1>3 DEF RegisterTrading, Executed
  <2> HIDE DEF row
  <2> QED
    BY <2>1, <2>2, <2>3 DEF TableInv
<1>4. ASSUME NEW h \in Handlers, FinishTrading(h) \/ RemoveNotified(h)
      PROVE  TableInv'
  <2>1. trading' \subseteq trading
    BY <1>4 DEF FinishTrading, RemoveNotified, Without
  <2> QED
    BY <1>1, <1>4, <2>1 DEF FinishTrading, RemoveNotified, Executed
<1>5. ASSUME NEW h \in Handlers, SendNotification(h)
      PROVE  TableInv'
  BY <1>5, MailSteps DEF SendNotification, tables, TableInv
<1>6. ASSUME NEW h \in Handlers, Step(h)
      PROVE  TableInv'
  BY <1>1, <1>2, <1>3, <1>4, <1>5, <1>6
     DEF Step, HandleMessage, GetTradingsForToday, NextClient, NoMoreClients,
         Return, tables
<1>7. CASE Time \/ Environment \/ UNCHANGED vars
  BY <1>1, <1>7 DEF Time, PassDay, WatchTime, LetTimePass, Environment, Announce,
                    Throw, LoseConnection, Crash, tables, vars
<1> QED
  BY <1>6, <1>7 DEF Next

LEMMA MemoryTypeStep ==
    ASSUME TableInv, MemoryType, [Next]_vars
    PROVE  MemoryType'
<1>0. registered \subseteq registered' /\ trading \subseteq registered
  BY GrowStep DEF Grows, TableInv
<1> USE DEF MemoryType
<1>1. CASE UNCHANGED locals
  BY <1>0, <1>1 DEF locals
<1>2. ASSUME NEW hs \in SUBSET Handlers, Forget(hs)
      PROVE  MemoryType'
  BY <1>0, <1>2 DEF Forget
<1>3. ASSUME NEW h \in Handlers, Step(h)
      PROVE  MemoryType'
  <2>1. CASE GetTradingsForToday(h)
    BY <1>0, <2>1 DEF GetTradingsForToday
  <2>2. CASE NextClient(h)
    BY <1>0, <1>1, <2>2 DEF NextClient, RowsOf
  <2>3. CASE RemoveNotified(h)
    BY <1>0, <2>3 DEF RemoveNotified
  <2>4. CASE Return(h)
    BY <1>2, <2>4 DEF Return
  <2> QED
    BY <1>1, <1>3, <2>1, <2>2, <2>3, <2>4
       DEF Step, HandleMessage, RegisterClient, RegisterTrading, FinishTrading,
           Executed, NoMoreClients, SendNotification, locals
<1>4. CASE Time \/ Environment \/ UNCHANGED vars
  BY <1>1, <1>2, <1>4 DEF Time, PassDay, WatchTime, LetTimePass, Environment,
                          Announce, Throw, LoseConnection, Crash, locals, vars
<1> QED
  BY <1>3, <1>4 DEF Next

\* A step of another leaves the memory of g alone.
LEMMA OthersAreKept ==
    ASSUME QueueInv, MemoryType, NEW g \in Handlers, NEW h \in Handlers \ {g},
           Step(h) \/ Throw(h)
    PROVE  pc'[g] = pc[g] /\ todo'[g] = todo[g] /\ current'[g] = current[g]
BY DEF Step, Throw, HandleMessage, RegisterClient, RegisterTrading, FinishTrading,
       Executed, GetTradingsForToday, NextClient, NoMoreClients, SendNotification,
       RemoveNotified, Return, Forget, Goto, locals, QueueInv, MemoryType

LEMMA MemoryStep ==
    ASSUME ServiceInv, [Next]_vars, NEW g \in Handlers
    PROVE  MemoryRight(g)'
<1>0. QueueInv /\ TableInv /\ MemoryType /\ MemoryRight(g) /\ Grows
  BY GrowStep DEF ServiceInv
<1>1. \A r \in current[g] : r \in Rows /\ (mailed[r] > 0 => mailed'[r] > 0)
  BY <1>0 DEF TableInv, MemoryType, Grows
<1>2. ASSUME pc'[g] = pc[g], todo'[g] = todo[g], current'[g] = current[g]
      PROVE  MemoryRight(g)'
  BY <1>0, <1>1, <1>2 DEF MemoryRight, Grows
<1>3. ASSUME todo'[g] = {}, current'[g] = {}
      PROVE  MemoryRight(g)'
  BY <1>3 DEF MemoryRight
<1>4. ASSUME todo'[g] = todo[g], current'[g] = current[g], pc'[g] = "return"
      PROVE  MemoryRight(g)'
  BY <1>0, <1>4 DEF MemoryRight
<1>5. CASE Step(g) \/ Throw(g)
  <2> USE DEF Goto, QueueInv, MemoryType
  <2>1. CASE HandleMessage(g)
    <3>1. pc[g] = "idle"
      BY <1>0, <2>1 DEF HandleMessage, Receive
    <3> QED
      BY <1>0, <1>3, <2>1, <3>1 DEF HandleMessage, locals, MemoryRight
  <2>2. CASE RegisterClient(g) \/ RegisterTrading(g) \/ FinishTrading(g)
             \/ NoMoreClients(g) \/ Throw(g)
    BY <1>0, <1>4, <2>2
       DEF RegisterClient, RegisterTrading, FinishTrading, Executed,
           NoMoreClients, Throw, locals
  <2>3. CASE GetTradingsForToday(g)
    BY <1>0, <2>3 DEF GetTradingsForToday, At, MemoryRight
  <2>4. CASE NextClient(g)
    <3>1. PICK r \in todo[g] :
             IF r.clientId \in client
             THEN /\ current' = [current EXCEPT ![g] = RowsOf(todo[g], r.clientId)]
                  /\ todo' = [todo EXCEPT ![g] = @ \ RowsOf(todo[g], r.clientId)]
                  /\ Goto(g, "mail")
             ELSE Goto(g, "return") /\ UNCHANGED locals
      BY <2>4 DEF NextClient
    <3>2. CASE r.clientId \in client
      <4>1. /\ current'[g] = RowsOf(todo[g], r.clientId)
            /\ todo'[g] = todo[g] \ RowsOf(todo[g], r.clientId)
            /\ pc'[g] = "mail"
        BY <1>0, <3>1, <3>2
      <4>2. \A q \in current'[g] : q.clientId \in client'
        BY <1>0, <3>2, <4>1 DEF RowsOf, Grows
      <4> QED
        BY <4>1, <4>2 DEF MemoryRight
    <3>3. CASE r.clientId \notin client
      BY <1>0, <1>4, <3>1, <3>3 DEF locals
    <3> QED
      BY <3>2, <3>3
  <2>5. CASE SendNotification(g)
    <3>1. pc[g] = "mail" /\ pc'[g] = "remove" /\ UNCHANGED <<todo, current, client>>
      BY <1>0, <2>5 DEF SendNotification, tables, locals
    <3>2. \A r \in current[g] : mailed'[r] = mailed[r] + 1 /\ mailed[r] \in Nat
      BY <1>0, <1>1, <2>5, MailSteps DEF TableInv
    <3> QED
      BY <1>0, <3>1, <3>2 DEF MemoryRight
  <2>6. CASE RemoveNotified(g)
    <3>1. /\ pc[g] = "remove" /\ pc'[g] \in {"next", "remove"}
          /\ todo'[g] = todo[g] /\ current'[g] \subseteq current[g]
          /\ UNCHANGED <<mailed, client>>
      BY <1>0, <2>6 DEF RemoveNotified
    <3> QED
      BY <1>0, <3>1 DEF MemoryRight
  <2>7. CASE Return(g)
    <3>1. todo'[g] = {} /\ current'[g] = {}
      BY <2>7 DEF Return, Forget
    <3> QED
      BY <1>3, <3>1
  <2> QED
    BY <1>5, <2>1, <2>2, <2>3, <2>4, <2>5, <2>6, <2>7 DEF Step
<1>6. ASSUME NEW h \in Handlers \ {g}, Step(h) \/ Throw(h)
      PROVE  MemoryRight(g)'
  BY <1>0, <1>2, <1>6, OthersAreKept
<1>7. CASE Crash
  BY <1>3, <1>7 DEF Crash, Forget
<1>8. CASE Time \/ (\E m \in Announcements : Announce(m)) \/ LoseConnection
           \/ UNCHANGED vars
  BY <1>2, <1>8 DEF Time, PassDay, WatchTime, LetTimePass, Announce,
                    LoseConnection, locals, vars
<1> QED
  BY <1>5, <1>6, <1>7, <1>8 DEF Next, Environment

LEMMA ServiceStep ==
    ASSUME ServiceInv, [Next]_vars
    PROVE  ServiceInv'
<1>1. QueueInv' /\ TableInv' /\ MemoryType'
  BY QueueStep, TableStep, MemoryTypeStep DEF ServiceInv
<1>2. \A g \in Handlers : MemoryRight(g)'
  BY MemoryStep
<1> QED
  BY <1>1, <1>2 DEF ServiceInv

LEMMA ServiceHolds == Spec => []ServiceInv
<1>1. Init => ServiceInv
  BY DEF Init, QueueInit, ServiceInv, QueueInv, HandlesHead, Locations, TableInv,
         MemoryType, MemoryRight
<1> QED
  BY <1>1, ServiceStep, PTL DEF Spec

\* Every variable keeps its type; in particular an activation is at work
\* exactly while it handles a message.
THEOREM NotificationTypeCorrect == Spec => []TypeOK
<1>1. ASSUME ServiceInv, TimeInv
      PROVE  TypeOK
  <2>1. queue \in Seq(Announcements \cup {DayHasPassed})
    <3>1. announced \cup {DayHasPassed} \subseteq Announcements \cup {DayHasPassed}
      BY <1>1 DEF ServiceInv, QueueInv
    <3>2. queue \in Seq(announced \cup {DayHasPassed})
      BY <1>1 DEF ServiceInv, QueueInv
    <3> QED
      BY <3>1, <3>2
  <2> QED
    BY <1>1, <2>1 DEF ServiceInv, QueueInv, TableInv, MemoryType, TimeInv, TypeOK
<1>2. ServiceInv /\ TimeInv => TypeOK
  BY <1>1
<1> QED
  BY <1>2, ServiceHolds, TimeHolds, PTL

(***************************************************************************)
(* What leaves the table of jobs.                                          *)
(***************************************************************************)

\* What holds until the first failure: one activation works, and the rows it
\* has found are there until it removes them, on the day they are for.
QuietInv ==
    failures = 0 =>
        /\ \A h \in Handlers \ {channel} : pc[h] = "idle"
        /\ \A r \in todo[channel] \cup current[channel] :
              r \in trading /\ IsOn(r, Day(clock))

\* While nothing has gone wrong, the activation of the open connection is the
\* only one that steps.
LEMMA OneWorks ==
    ASSUME ServiceInv, QuietInv, failures = 0, NEW h \in Handlers, Step(h)
    PROVE  h = channel
<1>1. pc[h] = "idle" => handling[h] = Nothing
  BY DEF ServiceInv, QueueInv
<1>2. pc[h] # "idle" \/ channel = h
  BY <1>1 DEF Step, HandleMessage, Receive, At, RegisterClient, RegisterTrading,
              FinishTrading, GetTradingsForToday, NextClient, NoMoreClients,
              SendNotification, RemoveNotified, Return
<1> QED
  BY <1>2 DEF QuietInv

LEMMA QuietStep ==
    ASSUME ServiceInv, QuietInv, [Next]_vars
    PROVE  QuietInv'
<1> SUFFICES ASSUME failures' = 0
             PROVE  QuietInv'
  BY DEF QuietInv
<1> DEFINE c == channel
<1>0. QueueInv /\ TableInv /\ MemoryType /\ c \in Handlers /\ MemoryRight(c)
  BY DEF ServiceInv, QueueInv
<1>1. failures = 0
  BY <1>0, GrowStep DEF Grows, QueueInv
<1>2. /\ \A h \in Handlers \ {c} : pc[h] = "idle"
      /\ \A r \in todo[c] \cup current[c] : r \in trading /\ IsOn(r, Day(clock))
  BY <1>1 DEF QuietInv
<1>3. ASSUME channel' = c, \A h \in Handlers \ {c} : pc'[h] = pc[h], clock' = clock,
             todo'[c] \cup current'[c] \subseteq todo[c] \cup current[c],
             trading \subseteq trading'
      PROVE  QuietInv'
  BY <1>2, <1>3 DEF QuietInv, IsOn
<1>4. ASSUME NEW h \in Handlers, Step(h)
      PROVE  QuietInv'
  <2>1. h = c
    BY <1>1, <1>4, OneWorks
  <2>2. /\ \A g \in Handlers \ {c} : pc'[g] = pc[g]
        /\ channel' = c /\ clock' = clock
    <3>1. \A g \in Handlers \ {c} : pc'[g] = pc[g]
      BY <1>0, <1>4, <2>1, OthersAreKept
    <3>2. channel' = c /\ clock' = clock
      BY <1>4 DEF Step, HandleMessage, Receive, RegisterClient, RegisterTrading,
             FinishTrading, Executed, GetTradingsForToday, NextClient,
             NoMoreClients, SendNotification, RemoveNotified, Return, Acknowledge,
             queueVars, timeVars
    <3> QED
      BY <3>1, <3>2
  <2>3. CASE GetTradingsForToday(c)
    <3>1. /\ todo'[c] = {r \in trading : IsOn(r, Day(clock))}
          /\ current'[c] = {} /\ trading' = trading
      BY <1>0, <2>3 DEF GetTradingsForToday, At, MemoryRight, MemoryType, tables
    <3> QED
      BY <1>2, <2>2, <3>1 DEF QuietInv, IsOn
  <2>4. CASE RemoveNotified(c)
    <3>1. PICK r \in current[c] : /\ trading' = Without(r.jobId)
                                  /\ current'[c] = current[c] \ {r}
                                  /\ todo'[c] = todo[c]
      BY <1>0, <2>4 DEF RemoveNotified, MemoryType
    <3>2. \A q \in todo'[c] \cup current'[c] : q # r /\ q \in trading /\ r \in trading
      BY <1>0, <1>2, <3>1 DEF MemoryRight
    <3>3. \A q \in todo'[c] \cup current'[c] : q \in trading'
      BY <1>0, <3>1, <3>2 DEF TableInv, Without
    <3> QED
      BY <1>2, <2>2, <3>1, <3>3 DEF QuietInv, IsOn
  <2>5. CASE FinishTrading(c)
    <3>1. todo'[c] = {} /\ current'[c] = {}
      BY <1>0, <2>5 DEF FinishTrading, At, Executed, locals, MemoryRight
    <3> QED
      BY <1>2, <2>2, <3>1 DEF QuietInv
  <2>6. CASE Return(c)
    <3>1. todo'[c] = {} /\ current'[c] = {}
      BY <1>0, <2>6 DEF Return, Forget
    <3> QED
      BY <1>2, <2>2, <3>1 DEF QuietInv
  <2>7. CASE NextClient(c)
    <3>1. todo'[c] \cup current'[c] \subseteq todo[c] \cup current[c] /\ trading' = trading
      BY <1>0, <2>7 DEF NextClient, RowsOf, MemoryType, locals, tables
    <3> QED
      BY <1>3, <2>2, <3>1
  <2>8. CASE HandleMessage(c) \/ RegisterClient(c) \/ RegisterTrading(c)
             \/ NoMoreClients(c) \/ SendNotification(c)
    <3>1. UNCHANGED locals /\ trading \subseteq trading'
      BY <2>8 DEF HandleMessage, RegisterClient, RegisterTrading, Executed,
                  NoMoreClients, SendNotification, tables, locals
    <3> QED
      BY <1>3, <2>2, <3>1 DEF locals
  <2> QED
    BY <1>4, <2>1, <2>3, <2>4, <2>5, <2>6, <2>7, <2>8 DEF Step
<1>5. CASE LetTimePass
  <2>1. \A h \in Handlers : pc[h] = "idle"
    BY <1>0, <1>1, <1>5 DEF LetTimePass, QueueInv
  <2>2. todo[c] = {} /\ current[c] = {}
    BY <1>0, <2>1 DEF MemoryRight
  <2> QED
    BY <1>2, <1>5, <2>2 DEF LetTimePass, locals, queueVars, QuietInv
<1>6. CASE PassDay \/ WatchTime \/ (\E m \in Announcements : Announce(m)) \/ UNCHANGED vars
  <2>1. UNCHANGED <<channel, pc, clock, trading, locals>>
    BY <1>6 DEF PassDay, PublishDay, Enqueue, WatchTime, CheckInVain, StopWorker,
                RestartWorker, Announce, locals, tables, queueVars, timeVars, vars
  <2> QED
    BY <1>3, <2>1 DEF locals
<1>7. CASE (\E h \in Handlers : Throw(h)) \/ LoseConnection \/ Crash
  BY <1>0, <1>1, <1>7 DEF Throw, LoseConnection, Crash, QueueInv
<1> QED
  BY <1>4, <1>5, <1>6, <1>7 DEF Next, Time, Environment

LEMMA QuietHolds == Spec => []QuietInv
<1>1. Init => QuietInv
  BY DEF Init, QueueInit, QuietInv
<1> QED
  BY <1>1, QuietStep, ServiceHolds, PTL DEF Spec

\* A row that a step removes was mailed, or another of its id was, or its job is
\* finished.
LEMMA RemovalSteps ==
    ASSUME ServiceInv, QuietInv, [Next]_vars, NEW r \in trading \ trading'
    PROVE  \/ mailed[r] > 0
           \/ IsFinished(r.jobId)
           \/ failures > 0 /\ \E q \in Rows \ {r} : q.jobId = r.jobId /\ mailed[q] > 0
<1>0. QueueInv /\ TableInv /\ MemoryType /\ \A h \in Handlers : MemoryRight(h)
  BY DEF ServiceInv
<1>1. \E h \in Handlers : FinishTrading(h) \/ RemoveNotified(h)
  <2>1. CASE trading \subseteq trading'
    BY <2>1
  <2>2. ASSUME NEW h \in Handlers, Step(h)
        PROVE  trading \subseteq trading' \/ FinishTrading(h) \/ RemoveNotified(h)
    BY <2>2 DEF Step, HandleMessage, RegisterClient, RegisterTrading, Executed,
                GetTradingsForToday, NextClient, NoMoreClients,
                SendNotification, Return, tables
  <2>3. CASE Time \/ Environment \/ UNCHANGED vars
    BY <2>3 DEF Time, PassDay, WatchTime, LetTimePass, Environment, Announce,
                Throw, LoseConnection, Crash, tables, vars
  <2> QED
    BY <2>2, <2>3 DEF Next
<1>2. ASSUME NEW h \in Handlers, FinishTrading(h)
      PROVE  IsFinished(r.jobId)
  <2>1. r.jobId = handling[h].jobId
    BY <1>0, <1>2 DEF FinishTrading, Without
  <2> QED
    BY <1>0, <1>2, <2>1, HandledMessage DEF FinishTrading, IsFinished
<1>3. ASSUME NEW h \in Handlers, RemoveNotified(h)
      PROVE  \/ mailed[r] > 0
             \/ failures > 0 /\ \E q \in Rows \ {r} : q.jobId = r.jobId /\ mailed[q] > 0
  <2>1. PICK q \in current[h] : trading' = Without(q.jobId)
    BY <1>3 DEF RemoveNotified
  <2>2. q.jobId = r.jobId
    BY <2>1 DEF Without
  <2>3. q \in Rows /\ mailed[q] > 0
    BY <1>0, <1>3 DEF RemoveNotified, MemoryRight, MemoryType, TableInv
  <2>4. failures = 0 => q \in trading
    <3>1. pc[h] # "idle"
      BY <1>3 DEF RemoveNotified
    <3> QED
      BY <3>1 DEF QuietInv
  <2>5. failures = 0 => q = r
    BY <1>0, <2>2, <2>4 DEF TableInv
  <2>6. failures = 0 \/ failures > 0
    BY <1>0 DEF QueueInv
  <2> QED
    BY <2>2, <2>3, <2>5, <2>6
<1> QED
  BY <1>1, <1>2, <1>3

\* Between the query and the DELETE rows may have been replaced by others of the
\* same id, but only if a connection was lost or a process ended meanwhile.
THEOREM RemovedWithReason == Spec => []RemovedForAReason
<1> DEFINE Reason(r) == \/ mailed[r] > 0
                        \/ IsFinished(r.jobId)
                        \/ failures > 0 /\ \E q \in Rows \ {r} : q.jobId = r.jobId /\ mailed[q] > 0
<1>1. Init => RemovedForAReason
  BY DEF Init, RemovedForAReason
<1>2. ASSUME ServiceInv, QuietInv, RemovedForAReason, [Next]_vars
      PROVE  RemovedForAReason'
  <2>1. TableInv /\ Grows /\ failures \in Nat
    BY <1>2, GrowStep DEF ServiceInv, QueueInv
  <2>2. \A r \in Rows : mailed[r] > 0 => mailed'[r] > 0
    BY <2>1 DEF Grows, TableInv
  <2>3. \A jobId : IsFinished(jobId) => IsFinished(jobId)'
    BY <2>1 DEF Grows, IsFinished
  <2>4. failures > 0 => failures' > 0
    BY <2>1 DEF Grows
  <2>5. ASSUME NEW r \in registered, Reason(r)
        PROVE  Reason(r)'
    BY <2>1, <2>2, <2>3, <2>4, <2>5 DEF TableInv
  <2>6. \A r \in registered' \ registered : r \in trading'
    BY <1>2
       DEF Next, Step, HandleMessage, RegisterClient, RegisterTrading, FinishTrading,
           Executed, GetTradingsForToday, NextClient, NoMoreClients,
           SendNotification, RemoveNotified, Return, Time, PassDay, WatchTime,
           LetTimePass, Environment, Announce, Throw, LoseConnection, Crash,
           tables, vars
  <2>7. ASSUME NEW r \in registered' \ trading'
        PROVE  Reason(r)'
    <3>1. r \in registered
      BY <2>6, <2>7
    <3>2. CASE r \in trading
      BY <1>2, <2>5, <3>1, <3>2, RemovalSteps, <2>7
    <3>3. CASE r \notin trading
      BY <1>2, <2>5, <3>1, <3>3 DEF RemovedForAReason
    <3> QED
      BY <3>2, <3>3
  <2> QED
    BY <2>7 DEF RemovedForAReason
<1> QED
  BY <1>1, <1>2, ServiceHolds, QuietHolds, PTL DEF Spec

(***************************************************************************)
(* The reminders.                                                          *)
(***************************************************************************)

LEMMA ReminderSteps ==
    ASSUME ServiceInv, QuietInv, [Next]_vars, NEW r \in Rows, mailed'[r] # mailed[r]
    PROVE  \E h \in Handlers : /\ SendNotification(h)
                               /\ r \in current[h]
                               /\ mailed'[r] = mailed[r] + 1
                               /\ failures = 0 => h = channel
<1>1. PICK h \in Handlers : SendNotification(h)
  BY DEF Next, Step, HandleMessage, RegisterClient, RegisterTrading, FinishTrading,
         Executed, GetTradingsForToday, NextClient, NoMoreClients,
         RemoveNotified, Return, Time, PassDay, WatchTime, LetTimePass,
         Environment, Announce, Throw, LoseConnection, Crash, vars
<1>2. r \in current[h] /\ mailed'[r] = mailed[r] + 1
  BY <1>1, MailSteps DEF ServiceInv
<1>3. failures = 0 => h = channel
  BY <1>1 DEF QuietInv, SendNotification
<1> QED
  BY <1>1, <1>2, <1>3

\* The day is that of the query, and no midnight passes an undisturbed handler.
THEOREM RemindersAreOnTheDay == Spec => RemindedOnTheDay
<1>1. ASSUME ServiceInv, QuietInv, [Next]_vars, NEW r \in Rows, mailed'[r] # mailed[r]
      PROVE  r.clientId \in client /\ (IsOn(r, Day(clock)) \/ failures > 0)
  <2>1. PICK h \in Handlers : /\ SendNotification(h)
                              /\ r \in current[h]
                              /\ failures = 0 => h = channel
    BY <1>1, ReminderSteps
  <2>2. r.clientId \in client
    BY <1>1, <2>1 DEF SendNotification, ServiceInv, MemoryRight
  <2>3. failures = 0 => IsOn(r, Day(clock))
    BY <1>1, <2>1 DEF QuietInv
  <2>4. failures = 0 \/ failures > 0
    BY <1>1 DEF ServiceInv, QueueInv
  <2> QED
    BY <2>2, <2>3, <2>4
<1> DEFINE Right == \A r \in Rows :
                       mailed'[r] # mailed[r] =>
                          r.clientId \in client /\ (IsOn(r, Day(clock)) \/ failures > 0)
<1>2. ServiceInv /\ QuietInv /\ [Next]_vars => [Right]_vars
  BY <1>1
<1> QED
  BY <1>2, ServiceHolds, QuietHolds, PTL DEF Spec, RemindedOnTheDay

LEMMA TradingIsInjective ==
    ASSUME NEW m \in TradingPlanned, NEW n \in TradingPlanned, Trading(m) = Trading(n)
    PROVE  m = n
BY DEF TradingPlanned, Trading

\* The message has had an effect, or is having it.
IsRegistered(m) == m \in TradingPlanned /\ Trading(m) \in registered
IsHandled(m) == m # DayHasPassed /\ \E h \in Handlers : handling[h] = m

\* No announcement is in the queue twice, and only the one at its head has been
\* handled already: behind it everything is new.
OrderInv ==
    /\ \A r \in registered : \E m \in announced \cap TradingPlanned : r = Trading(m)
    /\ \A i, j \in DOMAIN queue : i # j => queue[i] # queue[j] \/ queue[i] = DayHasPassed
    /\ \A i \in DOMAIN queue : IsRegistered(queue[i]) \/ IsHandled(queue[i]) => i = 1
    /\ \A h \in Handlers : pc[h] \in {"next", "mail", "remove"} => handling[h] = DayHasPassed

\* A message that is published is new.
LEMMA AnnounceIsInOrder ==
    ASSUME QueueInv, OrderInv, NEW m \in Announcements, Announce(m)
    PROVE  OrderInv'
<1>1. m \notin announced /\ m # DayHasPassed /\ m # Nothing
  <2>1. m \in Announcement
    BY AnnouncementsAssumption
  <2> QED
    BY <2>1, MessageIsSomething
       DEF Announce, Announcement, ClientRegistered, TradingPlanned,
           TradingFinished, DayHasPassed
<1>2. ~IsRegistered(m) /\ ~IsHandled(m)
  BY <1>1, TradingIsInjective DEF OrderInv, IsRegistered, IsHandled, QueueInv
<1>3. /\ DOMAIN queue' = DOMAIN queue \cup {Len(queue) + 1}
      /\ \A i \in DOMAIN queue : queue'[i] = queue[i] /\ queue[i] # m
      /\ queue'[Len(queue) + 1] = m
  <2>1. queue \in Seq(announced \cup {DayHasPassed})
    BY DEF QueueInv
  <2>2. queue' = Append(queue, m)
    BY DEF Announce, Enqueue
  <2> QED
    BY <1>1, <2>1, <2>2
<1>4. UNCHANGED <<registered, pc, handling>> /\ announced \subseteq announced'
  BY DEF Announce, Enqueue, tables
<1> QED
  BY <1>1, <1>2, <1>3, <1>4 DEF OrderInv, IsRegistered, IsHandled

LEMMA PassDayIsInOrder ==
    ASSUME QueueInv, OrderInv, PassDay
    PROVE  OrderInv'
<1>1. DayHasPassed \notin TradingPlanned
  BY DEF DayHasPassed, TradingPlanned
<1>2. /\ DOMAIN queue' = DOMAIN queue \cup {Len(queue) + 1}
      /\ \A i \in DOMAIN queue : queue'[i] = queue[i]
      /\ queue'[Len(queue) + 1] = DayHasPassed
  <2>1. queue \in Seq(announced \cup {DayHasPassed})
    BY DEF QueueInv
  <2>2. queue' = Append(queue, DayHasPassed)
    BY DEF PassDay, Enqueue
  <2> QED
    BY <2>1, <2>2
<1>3. UNCHANGED <<registered, pc, handling, announced>>
  BY DEF PassDay, Enqueue, tables
<1> QED
  BY <1>1, <1>2, <1>3 DEF OrderInv, IsRegistered, IsHandled

LEMMA HandleIsInOrder ==
    ASSUME QueueInv, OrderInv, NEW h \in Handlers, HandleMessage(h)
    PROVE  OrderInv'
<1>1. queue # << >> /\ queue \in Seq(announced \cup {DayHasPassed})
  BY DEF HandleMessage, Receive, QueueInv
<1>2. 1 \in DOMAIN queue /\ Head(queue) = queue[1]
  BY <1>1, HeadTailProperties
<1>3. /\ handling' = [handling EXCEPT ![h] = queue[1]]
      /\ pc' = [pc EXCEPT ![h] = "handle"]
      /\ UNCHANGED <<registered, announced, queue>>
  BY <1>2 DEF HandleMessage, Receive, Goto, tables
<1>4. ASSUME NEW m, IsHandled(m)'
      PROVE  IsHandled(m) \/ (m = queue[1] /\ m # DayHasPassed)
  BY <1>3, <1>4 DEF IsHandled, QueueInv
<1>5. \A g \in Handlers : pc'[g] \in {"next", "mail", "remove"} => handling'[g] = DayHasPassed
  BY <1>3 DEF OrderInv, QueueInv
<1>6. \A i \in DOMAIN queue' : IsRegistered(queue[i])' \/ IsHandled(queue[i])' => i = 1
  <2> SUFFICES ASSUME NEW i \in DOMAIN queue, IsRegistered(queue[i]) \/ IsHandled(queue[i])'
               PROVE  i = 1
    BY <1>3 DEF IsRegistered, IsHandled
  <2>1. (queue[i])' = queue[i]
    BY <1>3
  <2>2. IsRegistered(queue[i]) \/ IsHandled(queue[i]) \/ (queue[i] = queue[1] /\ queue[i] # DayHasPassed)
    BY <1>3, <2>1 DEF IsHandled, QueueInv
  <2> QED
    BY <1>2, <2>2 DEF OrderInv
<1> QED
  BY <1>3, <1>5, <1>6 DEF OrderInv

\* The job that is registered is that of the message being handled, which is at
\* the head of the queue, if it is still there.
LEMMA RegisterIsInOrder ==
    ASSUME QueueInv, OrderInv, NEW h \in Handlers, RegisterTrading(h)
    PROVE  OrderInv'
<1> DEFINE m == handling[h]
<1>1. m \in announced \cap TradingPlanned /\ m # DayHasPassed
  <2>1. m \in announced \cap TradingPlanned
    BY HandledMessage DEF RegisterTrading
  <2> QED
    BY <2>1 DEF TradingPlanned, DayHasPassed
<1>2. /\ registered' \subseteq registered \cup {Trading(m)}
      /\ pc' = [pc EXCEPT ![h] = "return"]
      /\ UNCHANGED <<queue, handling, announced>>
  BY DEF RegisterTrading, Executed, Goto, queueVars
<1>3. IsHandled(m)
  BY <1>1 DEF IsHandled
<1> HIDE DEF m
<1>4. \A r \in registered' : \E n \in announced' \cap TradingPlanned : r = Trading(n)
  BY <1>1, <1>2 DEF OrderInv
<1>5. ASSUME NEW i \in DOMAIN queue', IsRegistered(queue[i])' \/ IsHandled(queue[i])'
      PROVE  i = 1
  <2>1. (queue[i])' = queue[i] /\ i \in DOMAIN queue
    BY <1>2, <1>5
  <2>2. CASE IsHandled(queue[i])'
    BY <1>2, <2>1, <2>2 DEF IsHandled, OrderInv
  <2>3. CASE IsRegistered(queue[i])'
    <3>1. queue[i] \in TradingPlanned /\ Trading(queue[i]) \in registered'
      BY <2>1, <2>3 DEF IsRegistered
    <3>2. CASE Trading(queue[i]) \in registered
      BY <2>1, <3>1, <3>2 DEF IsRegistered, OrderInv
    <3>3. CASE Trading(queue[i]) = Trading(m)
      <4>1. queue[i] = m
        BY <1>1, <3>1, <3>3, TradingIsInjective
      <4> QED
        BY <1>3, <2>1, <4>1 DEF OrderInv
    <3> QED
      BY <1>2, <3>1, <3>2, <3>3
  <2> QED
    BY <1>5, <2>2, <2>3
<1>6. \A g \in Handlers : pc'[g] \in {"next", "mail", "remove"} => handling'[g] = DayHasPassed
  BY <1>2 DEF OrderInv, QueueInv
<1> QED
  BY <1>2, <1>4, <1>5, <1>6 DEF OrderInv

LEMMA ReturnIsInOrder ==
    ASSUME QueueInv, OrderInv, NEW h \in Handlers, Return(h)
    PROVE  OrderInv'
<1>1. /\ handling' = [handling EXCEPT ![h] = Nothing]
      /\ pc' = [pc EXCEPT ![h] = "idle"]
      /\ UNCHANGED <<registered, announced>>
  BY DEF Return, Acknowledge, Goto, tables
<1>2. \A m \in announced \cup {DayHasPassed} : IsHandled(m)' => IsHandled(m)
  BY <1>1, MessageIsSomething DEF IsHandled, QueueInv
<1>3. \A g \in Handlers : pc'[g] \in {"next", "mail", "remove"} => handling'[g] = DayHasPassed
  BY <1>1 DEF OrderInv, QueueInv
<1>4. CASE h = channel
  <2>1. queue # << >> /\ queue \in Seq(announced \cup {DayHasPassed})
    BY <1>4 DEF QueueInv, HandlesHead, Return, Acknowledge
  <2>2. queue' = Tail(queue)
    BY <1>4 DEF Return, Acknowledge
  <2>3. \A i \in DOMAIN queue' :
           i \in Nat /\ i >= 1 /\ i + 1 \in DOMAIN queue /\ queue'[i] = queue[i + 1]
    BY <2>1, <2>2
  <2>4. ASSUME NEW i \in DOMAIN queue'
        PROVE  ~(IsRegistered(queue[i])' \/ IsHandled(queue[i])')
    <3>1. ~IsRegistered(queue[i + 1]) /\ ~IsHandled(queue[i + 1])
      BY <2>3 DEF OrderInv
    <3>2. (queue[i])' = queue[i + 1] /\ queue[i + 1] \in announced \cup {DayHasPassed}
      BY <2>1, <2>3
    <3>3. ~IsRegistered(queue[i])'
      BY <1>1, <3>1, <3>2 DEF IsRegistered
    <3>4. ~IsHandled(queue[i])'
      BY <1>1, <3>1, <3>2, MessageIsSomething DEF IsHandled, QueueInv
    <3> QED
      BY <3>3, <3>4
  <2>5. \A i, j \in DOMAIN queue' :
           i # j => queue'[i] # queue'[j] \/ queue'[i] = DayHasPassed
    BY <2>3 DEF OrderInv
  <2> QED
    BY <1>1, <1>3, <2>4, <2>5 DEF OrderInv
<1>5. CASE h # channel
  <2>1. queue' = queue /\ queue \in Seq(announced \cup {DayHasPassed})
    BY <1>5 DEF Return, Acknowledge, QueueInv
  <2>2. ASSUME NEW i \in DOMAIN queue', IsRegistered(queue[i])' \/ IsHandled(queue[i])'
        PROVE  i = 1
    <3>1. (queue[i])' = queue[i] /\ i \in DOMAIN queue
          /\ queue[i] \in announced \cup {DayHasPassed}
      BY <2>1, <2>2
    <3>2. IsRegistered(queue[i])' => IsRegistered(queue[i])
      BY <1>1, <3>1 DEF IsRegistered
    <3>3. IsHandled(queue[i])' => IsHandled(queue[i])
      BY <1>1, <3>1, MessageIsSomething DEF IsHandled, QueueInv
    <3> QED
      BY <2>2, <3>1, <3>2, <3>3 DEF OrderInv
  <2> QED
    BY <1>1, <1>3, <2>1, <2>2 DEF OrderInv
<1> QED
  BY <1>4, <1>5

LEMMA OrderStep ==
    ASSUME ServiceInv, OrderInv, [Next]_vars
    PROVE  OrderInv'
<1>0. QueueInv
  BY DEF ServiceInv
<1>1. ASSUME UNCHANGED <<queue, handling, registered, announced>>,
             \A h \in Handlers : \/ pc'[h] \notin {"next", "mail", "remove"}
                                 \/ handling[h] = DayHasPassed
      PROVE  OrderInv'
  BY <1>1 DEF OrderInv, IsRegistered, IsHandled
<1>2. ASSUME NEW h \in Handlers, Step(h)
      PROVE  OrderInv'
  <2>1. CASE HandleMessage(h)
    BY <1>0, <2>1, HandleIsInOrder
  <2>2. CASE RegisterTrading(h)
    BY <1>0, <2>2, RegisterIsInOrder
  <2>3. CASE Return(h)
    BY <1>0, <2>3, ReturnIsInOrder
  <2>4. CASE RegisterClient(h) \/ FinishTrading(h)
    BY <1>0, <1>1, <2>4
       DEF RegisterClient, FinishTrading, Executed, Goto, queueVars, OrderInv, QueueInv
  <2>5. CASE GetTradingsForToday(h)
    <3>1. handling[h] = DayHasPassed
      BY <1>0, <2>5, AnnouncementsAssumption
         DEF GetTradingsForToday, At, QueueInv, Announcement, ClientRegistered,
             TradingPlanned, TradingFinished, DayHasPassed
    <3> QED
      BY <1>0, <1>1, <2>5, <3>1
         DEF GetTradingsForToday, Goto, queueVars, tables, OrderInv, QueueInv
  <2>6. CASE NextClient(h) \/ NoMoreClients(h) \/ SendNotification(h) \/ RemoveNotified(h)
    BY <1>0, <1>1, <2>6
       DEF NextClient, NoMoreClients, SendNotification, RemoveNotified, Goto,
           queueVars, tables, OrderInv, QueueInv
  <2> QED
    BY <1>2, <2>1, <2>2, <2>3, <2>4, <2>5, <2>6 DEF Step
<1>3. ASSUME NEW m \in Announcements, Announce(m)
      PROVE  OrderInv'
  BY <1>0, <1>3, AnnounceIsInOrder
<1>4. CASE PassDay
  BY <1>0, <1>4, PassDayIsInOrder
<1>5. CASE WatchTime \/ LetTimePass \/ LoseConnection \/ UNCHANGED vars
  BY <1>1, <1>5 DEF WatchTime, LetTimePass, LoseConnection, Reconnect, queueVars,
                    tables, vars, OrderInv
<1>6. ASSUME NEW h \in Handlers, Throw(h)
      PROVE  OrderInv'
  BY <1>0, <1>1, <1>6 DEF Throw, Goto, queueVars, tables, OrderInv, QueueInv
<1>7. CASE Crash
  <2>1. /\ \A h \in Handlers : pc'[h] = "idle" /\ handling'[h] = Nothing
        /\ UNCHANGED <<queue, registered, announced>>
    BY <1>7 DEF Crash, Restart, tables
  <2>2. \A i \in DOMAIN queue : queue[i] \in Announcements \cup {DayHasPassed}
    BY <1>0 DEF QueueInv
  <2>3. \A i \in DOMAIN queue : queue[i] # Nothing
    BY <2>2, MessageIsSomething
  <2> QED
    BY <2>1, <2>3 DEF OrderInv, IsRegistered, IsHandled
<1> QED
  BY <1>2, <1>3, <1>4, <1>5, <1>6, <1>7 DEF Next, Time, Environment

LEMMA OrderHolds == Spec => []OrderInv
<1>1. Init => OrderInv
  BY DEF Init, QueueInit, OrderInv
<1> QED
  BY <1>1, OrderStep, ServiceHolds, PTL DEF Spec


(***************************************************************************)
(* How often a job is announced to its client.                             *)
(***************************************************************************)

IsPlanOf(m, r) == m \in TradingPlanned /\ Trading(m) = r

\* The open connection will find the job, now or when it is registered.
MayFind(r) ==
    \/ r \in trading /\ ~(pc[channel] = "remove" /\ r \in current[channel])
    \/ \A m \in announced : ~IsPlanOf(m, r)
    \/ \E i \in DOMAIN queue : IsPlanOf(queue[i], r) /\ ~(i = 1 /\ pc[channel] = "return")

\* The activation may yet mail the job once more, or bring it back: it has the
\* job before it, or it may find or register it.
MayMail(h, r) ==
    \/ pc[h] \in {"next", "mail", "remove"} /\ r \in todo[h]
    \/ pc[h] = "mail" /\ r \in current[h]
    \/ h # channel /\ At(h, "DayHasPassed")
    \/ h # channel /\ At(h, "TradingPlanned") /\ Trading(handling[h]) = r
    \/ h = channel /\ MayFind(r)

Mailers(r) == {h \in Handlers : MayMail(h, r)}

\* A job that was mailed is deleted, or about to be, or somebody else may mail it
\* once more, at the expense of a failure.
MailedInv == \A r \in Rows : WithinBudget(mailed[r], Mailers(r), failures)

\* An activation that a lost connection has left behind brings a deleted job
\* back when its INSERT comes late: the open connection will find it again.
Revives(h, r) == h # channel /\ RegisterTrading(h) /\ Trading(handling[h]) = r

Failure == (\E h \in Handlers : Throw(h)) \/ LoseConnection \/ Crash

\* A handler moves itself only, and the queue only by its return.
LEMMA StepIsLocal ==
    ASSUME QueueInv, MemoryType, NEW h \in Handlers, Step(h), NEW g \in Handlers \ {h}
    PROVE  /\ channel' = channel /\ announced' = announced
           /\ UNCHANGED <<pc[g], todo[g], current[g], handling[g]>>
<1>1. UNCHANGED <<pc[g], todo[g], current[g]>>
  BY OthersAreKept
<1>2. channel' = channel /\ announced' = announced /\ handling'[g] = handling[g]
  BY DEF Step, HandleMessage, Receive, RegisterClient, RegisterTrading, FinishTrading,
         Executed, GetTradingsForToday, NextClient, NoMoreClients, SendNotification,
         RemoveNotified, Return, Acknowledge, queueVars, QueueInv
<1> QED
  BY <1>1, <1>2

LEMMA FoundInTable ==
    ASSUME ServiceInv, NEW r \in Rows, NEW h \in Handlers, Step(h),
           r \in trading', ~(pc'[channel] = "remove" /\ r \in current'[channel])
    PROVE  MayFind(r) \/ Revives(h, r)
<1>0. QueueInv /\ TableInv /\ MemoryType /\ channel \in Handlers
      /\ pc \in [Handlers -> Locations] /\ current \in [Handlers -> SUBSET registered]
  BY DEF ServiceInv, QueueInv, MemoryType
<1>1. CASE r \notin trading
  <2>1. RegisterTrading(h) /\ Trading(handling[h]) = r
    BY <1>1
       DEF Step, HandleMessage, RegisterClient, RegisterTrading, FinishTrading,
           Executed, GetTradingsForToday, NextClient, NoMoreClients, Without,
           SendNotification, RemoveNotified, Return, tables
  <2>2. CASE h = channel
    <3>1. handling[h] \in announced \cap TradingPlanned /\ pc[h] = "handle"
      BY <1>0, <2>1, HandledMessage DEF RegisterTrading, At
    <3>2. handling[h] # Nothing
      BY <1>0, <3>1, MessageIsSomething DEF QueueInv
    <3>3. 1 \in DOMAIN queue /\ queue[1] = handling[h]
      BY <1>0, <2>2, <3>2, HeadTailProperties DEF QueueInv, HandlesHead
    <3> QED
      BY <2>1, <2>2, <3>1, <3>3 DEF MayFind, IsPlanOf
  <2> QED
    BY <2>1, <2>2 DEF Revives
<1>2. CASE r \in trading
  <2> SUFFICES ASSUME pc[channel] = "remove", r \in current[channel]
               PROVE  FALSE
    BY <1>2 DEF MayFind
  <2>1. CASE h = channel
    <3>1. RemoveNotified(h)
      <4>1. handling[h] # Nothing
        BY <1>0, <2>1 DEF QueueInv
      <4> QED
        BY <2>1, <4>1
           DEF Step, HandleMessage, Receive, RegisterClient, RegisterTrading, FinishTrading,
               At, GetTradingsForToday, NextClient, NoMoreClients, SendNotification, Return
    <3>2. PICK q \in current[h] :
             /\ trading' = Without(q.jobId)
             /\ current'[h] = current[h] \ {q}
             /\ pc'[h] = IF current[h] = {q} THEN "next" ELSE "remove"
      BY <1>0, <3>1 DEF RemoveNotified, Goto
    <3>3. q # r
      BY <3>2 DEF Without
    <3> QED
      BY <2>1, <3>2, <3>3
  <2>2. CASE h # channel
    BY <1>0, <2>2, StepIsLocal
  <2> QED
    BY <2>1, <2>2
<1> QED
  BY <1>1, <1>2

LEMMA FoundInQueue ==
    ASSUME ServiceInv, NEW r \in Rows, NEW h \in Handlers, Step(h),
           NEW i \in DOMAIN queue', IsPlanOf(queue'[i], r),
           ~(i = 1 /\ pc'[channel] = "return")
    PROVE  MayFind(r)
<1>0. QueueInv /\ MemoryType /\ channel \in Handlers /\ pc \in [Handlers -> Locations]
  BY DEF ServiceInv, QueueInv, MemoryType
<1>1. CASE Return(h) /\ h = channel
  <2>1. queue # << >> /\ queue \in Seq(announced \cup {DayHasPassed})
    BY <1>0, <1>1 DEF QueueInv, HandlesHead, Return, Acknowledge
  <2>2. queue' = Tail(queue)
    BY <1>1 DEF Return, Acknowledge
  <2>3. i \in Nat /\ i >= 1 /\ i + 1 \in DOMAIN queue /\ queue'[i] = queue[i + 1]
    BY <2>1, <2>2
  <2>4. i + 1 # 1
    BY <2>3
  <2> QED
    BY <2>3, <2>4 DEF MayFind
<1>2. CASE ~(Return(h) /\ h = channel)
  <2>1. queue' = queue
    BY <1>2
       DEF Step, HandleMessage, Receive, RegisterClient, RegisterTrading, FinishTrading,
           Executed, GetTradingsForToday, NextClient, NoMoreClients, SendNotification,
           RemoveNotified, Return, Acknowledge, queueVars
  <2>2. CASE h # channel
    BY <1>0, <2>1, <2>2, StepIsLocal DEF MayFind
  <2>3. CASE h = channel
    <3>1. pc[channel] # "return"
      <4>1. pc[h] = "idle" <=> handling[h] = Nothing
        BY <1>0 DEF QueueInv
      <4> QED
        BY <1>2, <2>3, <4>1
           DEF Step, HandleMessage, Receive, RegisterClient, RegisterTrading, FinishTrading,
               At, GetTradingsForToday, NextClient, NoMoreClients, SendNotification,
               RemoveNotified
    <3> QED
      BY <2>1, <3>1 DEF MayFind
  <2> QED
    BY <2>2, <2>3
<1> QED
  BY <1>1, <1>2

\* A step of a handler makes no other able to mail the job, but for one that
\* brings it back.
LEMMA StepEnablesNone ==
    ASSUME ServiceInv, NEW r \in Rows, NEW h \in Handlers, Step(h),
           NEW g \in Mailers(r)', g \notin Mailers(r)
    PROVE  g = channel /\ Revives(h, r)
<1>0. QueueInv /\ TableInv /\ MemoryType /\ channel \in Handlers /\ g \in Handlers
      /\ pc \in [Handlers -> Locations] /\ MemoryRight(g)
  BY DEF ServiceInv, QueueInv, MemoryType, Mailers
<1>1. channel' = channel /\ announced' = announced
  BY DEF Step, HandleMessage, Receive, RegisterClient, RegisterTrading, FinishTrading,
         Executed, GetTradingsForToday, NextClient, NoMoreClients, SendNotification,
         RemoveNotified, Return, Acknowledge, queueVars
<1>2. MayMail(g, r)' /\ ~MayMail(g, r)
  BY DEF Mailers
<1>3. CASE g = channel /\ MayFind(r)'
  <2>1. ~MayFind(r)
    BY <1>2, <1>3 DEF MayMail
  <2> QED
    BY <1>1, <1>3, <2>1, FoundInTable, FoundInQueue DEF MayFind
<1>4. CASE ~(g = channel /\ MayFind(r)')
  <2>1. \/ pc'[g] \in {"next", "mail", "remove"} /\ r \in todo'[g]
        \/ pc'[g] = "mail" /\ r \in current'[g]
        \/ g # channel /\ At(g, "DayHasPassed")'
        \/ g # channel /\ At(g, "TradingPlanned")' /\ Trading(handling[g])' = r
    BY <1>1, <1>2, <1>4 DEF MayMail
  <2>2. CASE g # h
    BY <1>0, <1>2, <2>1, <2>2, StepIsLocal DEF MayMail, At
  <2>3. CASE g = h
    <3>1. CASE HandleMessage(g)
      BY <1>0, <2>1, <3>1 DEF HandleMessage, Receive, Goto, locals
    <3>2. CASE GetTradingsForToday(g)
      <4>1. /\ pc'[g] = "next" /\ current'[g] = current[g]
            /\ todo'[g] \subseteq trading
            /\ At(g, "DayHasPassed")
        BY <1>0, <3>2 DEF GetTradingsForToday, Goto, MemoryType
      <4>2. r \in trading /\ pc[g] = "handle"
        BY <2>1, <4>1 DEF At
      <4>3. MayFind(r) \/ g # channel
        BY <4>2 DEF MayFind
      <4> QED
        BY <1>2, <4>1, <4>3 DEF MayMail
    <3>3. CASE NextClient(g)
      <4>1. /\ pc[g] = "next" /\ pc'[g] \in {"mail", "return"}
            /\ pc'[g] = "mail" => todo'[g] \cup current'[g] \subseteq todo[g]
        BY <1>0, <3>3 DEF NextClient, Goto, RowsOf, MemoryType
      <4> QED
        BY <1>2, <2>1, <4>1 DEF MayMail, At
    <3>4. CASE SendNotification(g) \/ RemoveNotified(g)
      <4>1. /\ pc[g] \in {"mail", "remove"} /\ pc'[g] \in {"next", "remove"}
            /\ todo'[g] = todo[g]
        BY <1>0, <3>4 DEF SendNotification, RemoveNotified, Goto, locals
      <4> QED
        BY <1>2, <2>1, <4>1 DEF MayMail, At
    <3>5. CASE RegisterClient(g) \/ RegisterTrading(g) \/ FinishTrading(g)
               \/ NoMoreClients(g) \/ Return(g)
      <4>1. pc'[g] \in {"return", "idle"}
        BY <1>0, <3>5 DEF RegisterClient, RegisterTrading, FinishTrading, Executed,
                          NoMoreClients, Return, Goto
      <4> QED
        BY <2>1, <4>1 DEF At
    <3> QED
      BY <2>3, <3>1, <3>2, <3>3, <3>4, <3>5 DEF Step
  <2> QED
    BY <2>2, <2>3
<1> QED
  BY <1>3, <1>4

\* Who mails the job has used up its turn.
LEMMA MailerIsSpent ==
    ASSUME ServiceInv, OrderInv, NEW h \in Handlers, SendNotification(h),
           NEW r \in Rows, r \in current[h]
    PROVE  h \in Mailers(r) /\ h \notin Mailers(r)'
<1>0. QueueInv /\ MemoryType /\ TableInv /\ MemoryRight(h) /\ r \in registered
      /\ pc \in [Handlers -> Locations]
  BY DEF ServiceInv, MemoryType, QueueInv
<1>1. /\ pc[h] = "mail" /\ pc'[h] = "remove"
      /\ UNCHANGED <<queue, channel, handling, tables, todo, current, announced>>
  BY <1>0 DEF SendNotification, Goto, queueVars, locals
<1>2. r \notin todo[h]
  BY <1>0 DEF MemoryRight
<1>3. ASSUME h = channel
      PROVE  ~MayFind(r)'
  <2>1. PICK m \in announced \cap TradingPlanned : r = Trading(m)
    BY <1>0 DEF OrderInv
  <2>2. handling[channel] = DayHasPassed
    BY <1>1, <1>3 DEF OrderInv
  <2>3. queue # << >> /\ queue[1] = DayHasPassed
    <3>1. DayHasPassed # Nothing
      BY MessageIsSomething
    <3>2. queue # << >> /\ Head(queue) = DayHasPassed
      BY <1>0, <2>2, <3>1 DEF QueueInv, HandlesHead
    <3> QED
      BY <1>0, <3>2, HeadTailProperties DEF QueueInv
  <2>4. \A i \in DOMAIN queue : ~IsPlanOf(queue[i], r)
    <3> SUFFICES ASSUME NEW i \in DOMAIN queue, IsPlanOf(queue[i], r)
                 PROVE  FALSE
      OBVIOUS
    <3>1. i = 1
      BY <1>0 DEF OrderInv, IsRegistered, IsPlanOf
    <3> QED
      BY <2>3, <3>1 DEF IsPlanOf, TradingPlanned, DayHasPassed
  <2>5. \E n \in announced : IsPlanOf(n, r)
    BY <2>1 DEF IsPlanOf
  <2> QED
    BY <1>1, <1>3, <2>4, <2>5 DEF MayFind, IsPlanOf
<1> QED
  BY <1>1, <1>2, <1>3 DEF Mailers, MayMail, At

\* A failure makes at most one more activation able to mail the job.
LEMMA FailureEnablesOne ==
    ASSUME ServiceInv, NEW r \in Rows, Failure
    PROVE  \E g : Mailers(r)' \subseteq Mailers(r) \cup {g}
<1>0. QueueInv /\ channel \in Handlers /\ pc \in [Handlers -> Locations]
  BY DEF ServiceInv, QueueInv
<1>1. ASSUME NEW h \in Handlers, Throw(h)
      PROVE  Mailers(r)' \subseteq Mailers(r) \cup {channel}
  <2>1. /\ pc' = [pc EXCEPT ![h] = "return"]
        /\ UNCHANGED <<handling, channel, todo, current>>
    BY <1>1 DEF Throw, Goto, queueVars, locals
  <2>2. ASSUME NEW g \in Handlers \ {channel}, MayMail(g, r)'
        PROVE  MayMail(g, r)
    BY <1>0, <2>1, <2>2 DEF MayMail, At
  <2> QED
    BY <2>2 DEF Mailers
<1>2. CASE LoseConnection
  <2>1. PICK c \in Handlers, d \in Handlers :
           c = channel /\ d = channel' /\ c # d /\ pc[d] = "idle"
    BY <1>0, <1>2 DEF LoseConnection, Reconnect, QueueInv
  <2>2. UNCHANGED <<queue, handling, pc, todo, current, trading, announced>>
    BY <1>2 DEF LoseConnection, Reconnect, locals, tables
  <2>3. ASSUME NEW g \in Handlers \ {c, d}, MayMail(g, r)'
        PROVE  MayMail(g, r)
    BY <2>1, <2>2, <2>3 DEF MayMail, At
  <2>4. CASE MayFind(r)
    <3>1. MayMail(c, r)
      BY <2>1, <2>4 DEF MayMail
    <3>2. Mailers(r)' \subseteq Mailers(r) \cup {d}
      BY <2>3, <3>1 DEF Mailers
    <3> QED
      BY <3>2
  <2>5. CASE ~MayFind(r) /\ pc[c] = "handle"
    <3>1. ~MayFind(r)'
      BY <2>1, <2>2, <2>5 DEF MayFind, IsPlanOf
    <3>2. ~MayMail(d, r)'
      BY <2>1, <2>2, <3>1 DEF MayMail, At
    <3>3. Mailers(r)' \subseteq Mailers(r) \cup {c}
      BY <2>3, <3>2 DEF Mailers
    <3> QED
      BY <3>3
  <2>6. CASE pc[c] # "handle"
    <3>1. MayMail(c, r)' => MayMail(c, r)
      BY <2>1, <2>2, <2>6 DEF MayMail, At
    <3>2. Mailers(r)' \subseteq Mailers(r) \cup {d}
      BY <2>3, <3>1 DEF Mailers
    <3> QED
      BY <3>2
  <2> QED
    BY <2>4, <2>5, <2>6
<1>3. CASE Crash
  <2>1. channel' = channel /\ \A g \in Handlers : pc'[g] = "idle"
    BY <1>3 DEF Crash, Restart
  <2>2. Mailers(r)' \subseteq Mailers(r) \cup {channel}
    BY <2>1 DEF Mailers, MayMail, At
  <2> QED
    BY <2>2
<1> QED
  BY <1>1, <1>2, <1>3 DEF Failure

LEMMA MailedInvStep ==
    ASSUME ServiceInv, OrderInv, MailedInv, [Next]_vars
    PROVE  MailedInv'
<1> SUFFICES ASSUME NEW r \in Rows
             PROVE  WithinBudget(mailed[r], Mailers(r), failures)'
  BY DEF MailedInv, Rows
<1>0. /\ QueueInv /\ TableInv /\ MemoryType
      /\ mailed[r] \in Nat /\ failures \in Nat
      /\ WithinBudget(mailed[r], Mailers(r), failures)
  BY DEF ServiceInv, QueueInv, TableInv, MailedInv
<1>1. ASSUME NEW h \in Handlers, Step(h)
      PROVE  WithinBudget(mailed'[r], Mailers(r)', failures')
  <2>1. failures' = failures
    BY <1>1 DEF Step, HandleMessage, RegisterClient, RegisterTrading, FinishTrading,
           Executed, GetTradingsForToday, NextClient, NoMoreClients,
           SendNotification, RemoveNotified, Return
  <2>2. CASE SendNotification(h) /\ r \in current[h]
    <3>1. mailed'[r] = mailed[r] + 1
      BY <1>0, <2>2, MailSteps
    <3>2. h \in Mailers(r) /\ h \notin Mailers(r)'
      BY <2>2, MailerIsSpent
    <3>3. Mailers(r)' \subseteq Mailers(r)
      BY <1>1, <2>2, StepEnablesNone DEF Revives, SendNotification, RegisterTrading, At
    <3>4. Mailers(r)' \in SUBSET (Mailers(r) \ {h})
      BY <3>2, <3>3
    <3>5. WithinBudget(mailed[r] + 1, Mailers(r)', failures)
      BY <1>0, <3>2, <3>4, BudgetSpent
    <3> QED
      BY <2>1, <3>1, <3>5
  <2>3. CASE ~(SendNotification(h) /\ r \in current[h])
    <3>1. mailed'[r] = mailed[r]
      BY <1>0, <1>1, <2>3, MailSteps
         DEF Step, HandleMessage, RegisterClient, RegisterTrading, FinishTrading,
             Executed, GetTradingsForToday, NextClient, NoMoreClients,
             RemoveNotified, Return
    <3>2. CASE Revives(h, r)
      <4>1. h \in Mailers(r)
        BY <3>2 DEF Revives, RegisterTrading, Mailers, MayMail
      <4>2. h \notin Mailers(r)'
        <5>1. pc'[h] = "return" /\ h # channel'
          BY <1>0, <3>2 DEF Revives, RegisterTrading, Executed, Goto, queueVars, QueueInv
        <5> QED
          BY <5>1 DEF Mailers, MayMail, At
      <4>3. Mailers(r)' \in SUBSET ((Mailers(r) \ {h}) \cup {channel})
        BY <1>1, <4>2, StepEnablesNone
      <4>4. WithinBudget(mailed[r], Mailers(r)', failures)
        BY <1>0, <4>1, <4>3, BudgetMoved
      <4> QED
        BY <2>1, <3>1, <4>4
    <3>3. CASE ~Revives(h, r)
      <4>1. Mailers(r)' \in SUBSET Mailers(r)
        BY <1>1, <3>3, StepEnablesNone
      <4>2. WithinBudget(mailed[r], Mailers(r)', failures)
        BY <1>0, <4>1, BudgetKept
      <4> QED
        BY <2>1, <3>1, <4>2
    <3> QED
      BY <3>2, <3>3
  <2> QED
    BY <2>2, <2>3
<1>2. CASE Failure
  <2>1. failures' = failures + 1 /\ mailed' = mailed
    BY <1>2 DEF Failure, Throw, LoseConnection, Crash
  <2>2. PICK g : Mailers(r)' \subseteq Mailers(r) \cup {g}
    BY <1>2, FailureEnablesOne
  <2>3. WithinBudget(mailed[r], Mailers(r)', failures + 1)
    BY <1>0, <2>2, BudgetRaised
  <2> QED
    BY <2>1, <2>3
\* A message that is published has been waiting to be, or is no plan of this job.
<1>3. CASE Time \/ (\E m \in Announcements : Announce(m)) \/ UNCHANGED vars
  <2>1. UNCHANGED <<channel, handling, trading, mailed, pc, todo, current>>
    BY <1>3 DEF Time, PassDay, WatchTime, LetTimePass, Announce, Enqueue,
                queueVars, tables, locals, vars
  <2>2. failures' = failures \/ failures' = failures + 1
    BY <1>0, GrowStep DEF Grows
  <2>3. MayFind(r)' => MayFind(r)
    <3>1. CASE UNCHANGED <<queue, announced>>
      BY <2>1, <3>1 DEF MayFind, IsPlanOf
    <3>2. ASSUME NEW m \in Announcements \cup {DayHasPassed}, queue' = Append(queue, m),
                 announced \subseteq announced', m \notin announced \/ m = DayHasPassed,
                 MayFind(r)'
          PROVE  MayFind(r)
      <4>1. /\ DOMAIN queue' = DOMAIN queue \cup {Len(queue) + 1}
            /\ \A i \in DOMAIN queue : queue'[i] = queue[i]
            /\ queue'[Len(queue) + 1] = m
        BY <1>0, <3>2 DEF QueueInv
      <4>2. CASE IsPlanOf(m, r)
        <5>1. m \in TradingPlanned /\ m # DayHasPassed
          BY <4>2 DEF IsPlanOf, TradingPlanned, DayHasPassed
        <5>2. \A n \in announced : ~IsPlanOf(n, r)
          BY <3>2, <4>2, <5>1, TradingIsInjective DEF IsPlanOf
        <5> QED
          BY <5>2 DEF MayFind
      <4>3. CASE ~IsPlanOf(m, r)
        BY <2>1, <3>2, <4>1, <4>3 DEF MayFind, IsPlanOf
      <4> QED
        BY <4>2, <4>3
    <3> QED
      BY <1>3, <3>1, <3>2
         DEF Time, PassDay, WatchTime, LetTimePass, Announce, Enqueue, queueVars, vars
  <2>4. Mailers(r)' \in SUBSET Mailers(r)
    BY <2>1, <2>3 DEF Mailers, MayMail, At
  <2>5. /\ WithinBudget(mailed[r], Mailers(r)', failures)
        /\ WithinBudget(mailed[r], Mailers(r)', failures + 1)
    BY <1>0, <2>4, BudgetKept, BudgetRaised
  <2> QED
    BY <2>1, <2>2, <2>5
<1> QED
  BY <1>1, <1>2, <1>3 DEF Next, Environment, Failure

LEMMA MailedInvHolds == Spec => []MailedInv
<1>1. ASSUME Init
      PROVE  MailedInv
  <2> SUFFICES ASSUME NEW r \in Rows
               PROVE  WithinBudget(mailed[r], Mailers(r), failures)
    BY DEF MailedInv
  <2>1. mailed[r] = 0 /\ failures = 0 /\ Mailers(r) \in SUBSET {channel}
    BY <1>1 DEF Init, Mailers, MayMail, At
  <2>2. WithinBudget(0, {channel}, 0)
    BY FS_Singleton DEF WithinBudget
  <2> QED
    BY <2>1, <2>2, BudgetKept
<1> QED
  BY <1>1, MailedInvStep, ServiceHolds, OrderHolds, PTL DEF Spec

\* However often TimeService starts and announces a day, whatever fails, and
\* whatever is left behind: a client hears of a job at most once more than
\* something went wrong.
THEOREM NotifiedWithinFailures == Spec => []NotifiedOncePerFailure
<1>1. ASSUME ServiceInv, MailedInv
      PROVE  NotifiedOncePerFailure
  <2> SUFFICES ASSUME NEW r \in Rows
               PROVE  mailed[r] <= 1 + failures
    BY DEF NotifiedOncePerFailure
  <2>1. mailed[r] \in Nat /\ failures \in Nat
    BY <1>1 DEF ServiceInv, TableInv, QueueInv
  <2> QED
    BY <1>1, <2>1, BudgetBounds DEF MailedInv
<1>2. ServiceInv /\ MailedInv => NotifiedOncePerFailure
  BY <1>1
<1> QED
  BY <1>2, MailedInvHolds, ServiceHolds, PTL



-----------------------------------------------------------------------------
(* The promise of the messaging library.                                   *)

\* While a callback runs, the queue stands still and the message stays taken.
LEMMA CallbackStandsStill ==
    ASSUME NEW h \in Handlers, Step(h), ~HandleMessage(h), ~Return(h)
    PROVE  UNCHANGED <<queueVars, failures>>
BY DEF Step, RegisterClient, RegisterTrading, FinishTrading, Executed,
       GetTradingsForToday, NextClient, NoMoreClients, SendNotification, RemoveNotified

LEMMA DeliveryStep ==
    ASSUME QueueInv, [Next]_vars
    PROVE  [Delivery!Next]_(Delivery!vars)
<1> USE DEF Delivery!Next, Delivery!vars
<1>0. /\ channel \in Handlers
      /\ handling \in [Handlers -> announced \cup {DayHasPassed, Nothing}]
      /\ HandlesHead
  BY DEF QueueInv
<1>1. CASE UNCHANGED <<queueVars, failures>>
  BY <1>1 DEF queueVars
<1>2. ASSUME NEW m \in Announcements \cup {DayHasPassed}, Enqueue(m), UNCHANGED failures
      PROVE  Delivery!Arrive
  BY <1>2 DEF Enqueue, Delivery!Arrive
<1>3. ASSUME NEW h \in Handlers, HandleMessage(h)
      PROVE  Delivery!Take
  BY <1>0, <1>3 DEF HandleMessage, Receive, Delivery!Take
\* The activation that a lost connection left behind acknowledges nothing.
<1>4. ASSUME NEW h \in Handlers, Return(h)
      PROVE  Delivery!Settle \/ UNCHANGED Delivery!vars
  <2>1. CASE channel = h
    BY <1>0, <1>4, <2>1 DEF Return, Acknowledge, Delivery!Settle
  <2>2. CASE channel # h
    BY <1>0, <1>4, <2>2 DEF Return, Acknowledge
  <2> QED
    BY <2>1, <2>2
<1>5. ASSUME NEW h \in Handlers, Step(h)
      PROVE  [Delivery!Next]_(Delivery!vars)
  BY <1>1, <1>3, <1>4, <1>5, CallbackStandsStill
<1>6. CASE LetTimePass \/ \E h \in Handlers : Throw(h)
  BY <1>6 DEF LetTimePass, Throw, queueVars, Delivery!Trouble
<1>7. CASE LoseConnection
  BY <1>0, <1>7 DEF LoseConnection, Reconnect, Delivery!Trouble
<1>8. CASE Crash
  BY <1>0, <1>8 DEF Crash, Restart, Delivery!Trouble
<1>9. CASE PassDay \/ \E m \in Announcements : Announce(m)
  BY <1>2, <1>9 DEF PassDay, Announce
<1>10. CASE WatchTime \/ UNCHANGED vars
  BY <1>1, <1>10 DEF WatchTime, vars
<1> QED
  BY <1>5, <1>6, <1>7, <1>8, <1>9, <1>10 DEF Next, Time, Environment

\* Whatever NotificationService does with its messages, and whatever fails, each
\* is handled in its turn, and leaves the queue only when its callback has returned.
THEOREM NotifyingDelivers == Spec => ImplementsDelivery
<1>1. Init => Delivery!Init
  BY DEF Init, QueueInit, Delivery!Init
<1>2. ServiceInv /\ [Next]_vars => [Delivery!Next]_(Delivery!vars)
  BY DeliveryStep DEF ServiceInv
<1> QED
  BY <1>1, <1>2, ServiceHolds, PTL DEF Spec, ImplementsDelivery, Delivery!Spec


-----------------------------------------------------------------------------
(* What was announced.                                                     *)

\* The row of a registration or of a planning is there; of another message no
\* row is asked.
Recorded(m) ==
    /\ m \in ClientRegistered => m.clientId \in client
    /\ m \in TradingPlanned => \E r \in registered : r.jobId = m.jobId

Waiting == {queue[i] : i \in DOMAIN queue}

\* While nothing has gone wrong outside, every client that was announced
\* is in its table, every job has been, or they still wait to be.
NothingIsLost == failures = 0 => \A m \in announced : Recorded(m) \/ m \in Waiting

\* What an activation has come to: only the message of a day runs the loop, and a
\* callback that returns has written its row.
HandlerRight(h) ==
    /\ pc[h] \in {"next", "mail", "remove"} => handling[h] = DayHasPassed
    /\ pc[h] = "return" => Recorded(handling[h]) \/ failures > 0

LostInv == NothingIsLost /\ \A h \in Handlers : HandlerRight(h)

LEMMA RecordedStays ==
    ASSUME ServiceInv, [Next]_vars, NEW m, Recorded(m)
    PROVE  Recorded(m)'
<1>1. client \subseteq client' /\ registered \subseteq registered'
  BY GrowStep DEF Grows, ServiceInv
<1> QED
  BY <1>1 DEF Recorded

LEMMA DayNeedsNoRow == Recorded(DayHasPassed)
BY DEF Recorded, ClientRegistered, TradingPlanned, DayHasPassed

LEMMA OwnStep ==
    ASSUME ServiceInv, NEW h \in Handlers, HandlerRight(h), Step(h)
    PROVE  HandlerRight(h)'
<1>0. QueueInv /\ \A m : Recorded(m) => Recorded(m)'
  BY RecordedStays DEF ServiceInv, Next
<1>1. CASE HandleMessage(h)
  BY <1>0, <1>1 DEF HandleMessage, Goto, QueueInv, HandlerRight
<1>2. CASE RegisterClient(h) \/ RegisterTrading(h) \/ FinishTrading(h)
  <2>1. pc'[h] = "return" /\ handling'[h] = handling[h]
    BY <1>0, <1>2 DEF RegisterClient, RegisterTrading, FinishTrading, Executed,
                      Goto, QueueInv, queueVars
  <2>2. Recorded(handling[h])'
    <3>1. CASE RegisterClient(h)
      <4>1. handling[h].type = "ClientRegistered" /\ handling[h].clientId \in client'
        BY <3>1 DEF RegisterClient, At
      <4> QED
        BY <2>1, <4>1 DEF Recorded, TradingPlanned
    <3>2. CASE RegisterTrading(h)
      <4>1. handling[h].type = "TradingPlanned"
        BY <3>2 DEF RegisterTrading, At
      <4>2. Trading(handling[h]).jobId = handling[h].jobId
        BY DEF Trading
      <4>3. \E r \in registered' : r.jobId = handling[h].jobId
        BY <3>2, <4>2 DEF RegisterTrading, ServiceInv, TableInv
      <4> QED
        BY <2>1, <4>1, <4>3 DEF Recorded, ClientRegistered
    <3>3. CASE FinishTrading(h)
      <4>1. handling[h].type = "TradingFinished"
        BY <3>3 DEF FinishTrading, At
      <4> QED
        BY <2>1, <4>1 DEF Recorded, ClientRegistered, TradingPlanned
    <3> QED
      BY <1>2, <3>1, <3>2, <3>3
  <2> QED
    BY <2>1, <2>2 DEF HandlerRight
<1>3. ASSUME handling[h] = DayHasPassed, handling'[h] = handling[h]
      PROVE  HandlerRight(h)'
  <2>1. Recorded(handling[h])'
    BY <1>0, <1>3, DayNeedsNoRow
  <2> QED
    BY <1>3, <2>1 DEF HandlerRight
<1>4. CASE GetTradingsForToday(h)
  <2>1. handling[h] \in Announcement \cup {DayHasPassed}
    BY <1>0, <1>4, AnnouncementsAssumption DEF GetTradingsForToday, At, QueueInv
  <2>2. handling[h] = DayHasPassed /\ handling'[h] = handling[h]
    BY <1>4, <2>1 DEF GetTradingsForToday, At, queueVars, Announcement,
                      ClientRegistered, TradingPlanned, TradingFinished
  <2> QED
    BY <1>3, <2>2
<1>5. CASE NextClient(h) \/ NoMoreClients(h) \/ SendNotification(h) \/ RemoveNotified(h)
  <2>1. pc[h] \in {"next", "mail", "remove"} /\ handling' = handling
    BY <1>5 DEF NextClient, NoMoreClients, SendNotification, RemoveNotified, queueVars
  <2> QED
    BY <1>3, <2>1 DEF HandlerRight
<1>6. CASE Return(h)
  BY <1>0, <1>6 DEF Return, Goto, QueueInv, HandlerRight
<1> QED
  BY <1>1, <1>2, <1>4, <1>5, <1>6 DEF Step

LEMMA FailuresGrow ==
    ASSUME QueueInv, TableInv, [Next]_vars
    PROVE  failures' = failures \/ failures' > 0
BY GrowStep DEF Grows, QueueInv

LEMMA HandlerStep ==
    ASSUME ServiceInv, NEW g \in Handlers, HandlerRight(g), [Next]_vars
    PROVE  HandlerRight(g)'
<1>0. /\ QueueInv
      /\ \A m : Recorded(m) => Recorded(m)'
      /\ failures' = failures \/ failures' > 0
  BY RecordedStays, FailuresGrow DEF ServiceInv
<1>1. ASSUME pc'[g] = "idle" \/ (pc'[g] = pc[g] /\ handling'[g] = handling[g])
      PROVE  HandlerRight(g)'
  BY <1>0, <1>1 DEF HandlerRight
<1>2. ASSUME NEW h \in Handlers \ {g}, Step(h)
      PROVE  HandlerRight(g)'
  <2>1. pc'[g] = pc[g]
    BY <1>0, <1>2 DEF Step, HandleMessage, RegisterClient, RegisterTrading, FinishTrading,
       Executed, GetTradingsForToday, NextClient, NoMoreClients, SendNotification,
       RemoveNotified, Return, Goto, QueueInv
  <2>2. handling'[g] = handling[g]
    BY <1>0, <1>2, CallbackStandsStill
       DEF HandleMessage, Receive, Return, Acknowledge, queueVars, QueueInv
  <2> QED
    BY <1>1, <2>1, <2>2
<1>3. ASSUME NEW h \in Handlers, Throw(h)
      PROVE  HandlerRight(g)'
  <2>1. failures' > 0 /\ handling' = handling
    BY <1>0, <1>3 DEF Throw, queueVars, QueueInv
  <2>2. pc'[g] = pc[g] \/ pc'[g] = "return"
    BY <1>0, <1>3 DEF Throw, Goto, QueueInv
  <2> QED
    BY <2>1, <2>2 DEF HandlerRight
<1>4. CASE \/ PassDay \/ WatchTime \/ LetTimePass
           \/ (\E m \in Announcements : Announce(m)) \/ UNCHANGED vars
  BY <1>1, <1>4 DEF PassDay, WatchTime, LetTimePass, Announce, Enqueue, vars, queueVars
<1>5. CASE LoseConnection
  BY <1>1, <1>5 DEF LoseConnection, Reconnect
<1>6. CASE Crash
  BY <1>1, <1>6 DEF Crash
<1> QED
  BY <1>2, <1>3, <1>4, <1>5, <1>6, OwnStep DEF Next, Time, Environment

\* What leaves the queue: the message whose callback returns.
LEMMA LeavesRecorded ==
    ASSUME ServiceInv, LostInv, [Next]_vars, failures' = 0
    PROVE  \A m \in Waiting : m \in Waiting' \/ Recorded(m)
<1>0. /\ queue \in Seq(announced \cup {DayHasPassed})
      /\ HandlesHead
  BY DEF ServiceInv, QueueInv
<1>1. CASE queue' = queue
  BY <1>1 DEF Waiting
<1>2. ASSUME NEW m, Enqueue(m)
      PROVE  Waiting \subseteq Waiting'
  <2>1. /\ DOMAIN queue \subseteq DOMAIN queue'
        /\ \A i \in DOMAIN queue : queue'[i] = queue[i]
    BY <1>0, <1>2 DEF Enqueue
  <2> QED
    BY <2>1 DEF Waiting
<1>3. ASSUME NEW h \in Handlers, Return(h), channel = h
      PROVE  \A m \in Waiting : m \in Waiting' \/ Recorded(m)
  <2>1. queue # << >> /\ Head(queue) = handling[h] /\ queue' = Tail(queue)
    BY <1>0, <1>3 DEF Return, Acknowledge, HandlesHead
  <2>2. Recorded(Head(queue))
    BY <1>3, <2>1 DEF LostInv, HandlerRight, Return
  <2>3. ASSUME NEW i \in DOMAIN queue, i # 1
        PROVE  queue[i] \in Waiting'
    <3>1. i - 1 \in DOMAIN queue' /\ queue'[i - 1] = queue[i]
      BY <1>0, <2>1, <2>3
    <3> QED
      BY <3>1 DEF Waiting
  <2>4. Head(queue) = queue[1]
    BY <1>0, <2>1
  <2> QED
    BY <2>2, <2>3, <2>4 DEF Waiting
<1>4. ASSUME NEW h \in Handlers, Step(h)
      PROVE  queue' = queue \/ (Return(h) /\ channel = h)
  BY <1>4, CallbackStandsStill DEF HandleMessage, Receive, Return, Acknowledge, queueVars
<1>5. CASE \/ \E h \in Handlers : Throw(h)
           \/ LetTimePass \/ WatchTime \/ LoseConnection \/ Crash \/ UNCHANGED vars
  BY <1>1, <1>5 DEF Throw, LetTimePass, WatchTime, LoseConnection, Reconnect, Crash,
                    Restart, vars, queueVars
<1>6. CASE PassDay \/ \E m \in Announcements : Announce(m)
  BY <1>2, <1>6 DEF PassDay, Announce
<1> QED
  BY <1>1, <1>3, <1>4, <1>5, <1>6 DEF Next, Time, Environment

LEMMA LostStep ==
    ASSUME ServiceInv, LostInv, [Next]_vars
    PROVE  LostInv'
<1>0. /\ queue \in Seq(announced \cup {DayHasPassed})
      /\ failures' = failures \/ failures' > 0
  BY FailuresGrow DEF ServiceInv, QueueInv
<1>1. \A h \in Handlers : HandlerRight(h)'
  BY HandlerStep DEF LostInv
<1>2. ASSUME failures' = 0, NEW m \in announced'
      PROVE  Recorded(m)' \/ m \in Waiting'
  <2>1. failures = 0
    BY <1>0, <1>2
  <2>2. CASE m \in announced
    BY <1>2, <2>1, <2>2, LeavesRecorded, RecordedStays DEF LostInv, NothingIsLost
  <2>3. CASE m \notin announced
    <3>1. Announce(m)
      BY <1>2, <2>3 DEF Next, Step, HandleMessage, RegisterClient, RegisterTrading,
         FinishTrading, Executed, GetTradingsForToday, NextClient, NoMoreClients,
         SendNotification, RemoveNotified, Return, Time, PassDay, WatchTime, LetTimePass,
         Environment, Announce, Throw, LoseConnection, Crash, vars
    <3>2. /\ Len(queue) + 1 \in DOMAIN queue'
          /\ queue'[Len(queue) + 1] = m
      BY <1>0, <3>1 DEF Announce, Enqueue
    <3> QED
      BY <3>2 DEF Waiting
  <2> QED
    BY <2>2, <2>3
<1> QED
  BY <1>1, <1>2 DEF LostInv, NothingIsLost

\* An announcement is acknowledged only after its row is written, or refused for a
\* row with its key, whatever comes between, while nothing fails.
THEOREM NotifyingLosesNothing == Spec => []NothingIsLost
<1>1. Init => LostInv
  BY DEF Init, LostInv, NothingIsLost, HandlerRight
<1>2. ServiceInv /\ LostInv /\ [Next]_vars => LostInv'
  BY LostStep
<1>3. LostInv => NothingIsLost
  BY DEF LostInv
<1> QED
  BY <1>1, <1>2, <1>3, ServiceHolds, PTL DEF Spec

=============================================================================
