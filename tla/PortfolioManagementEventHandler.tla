------------------- MODULE PortfolioManagementEventHandler -------------------
(***************************************************************************)
(* The event handler that builds the read model of PortfolioManagementAPI. *)
(* One DbContext of Entity Framework serves the process for its whole      *)
(* life: it tracks every entity it has queried or added, and SaveChanges   *)
(* writes, in one transaction, whatever it tracks that has changed, also   *)
(* what a message before could not write.                                  *)
(***************************************************************************)
EXTENDS RabbitMQMessageHandler

CONSTANTS
    Clients, Stocks, Jobs,
    Announcements,  \* what the other services publish, each at most once
    MaxFailures,    \* bound: how often something outside may go wrong
    MaxQueue        \* bound: how many messages may wait

ClientRegistered == [type : {"ClientRegistered"}, clientId : Clients]
StockRegistered  == [type : {"StockRegistered"}, ticker : Stocks, ownerId : Clients]
TradingPlanned   == [type : {"TradingPlanned"}, jobId : Jobs, clientId : Clients,
                     ticker : Stocks]
TradingFinished  == [type : {"TradingFinished"}, jobId : Jobs]

Message == ClientRegistered \cup StockRegistered \cup TradingPlanned \cup TradingFinished

ASSUME AnnouncementsAssumption == Announcements \subseteq Message
ASSUME NothingAssumption == Nothing \notin Message \cup Clients \cup Stocks
\* The keys of the three tables, which the model keeps together.
ASSUME KeysAssumption == /\ Clients \cap Stocks = {}
                         /\ Clients \cap Jobs = {}
                         /\ Stocks \cap Jobs = {}

Keys == Clients \cup Stocks \cup Jobs

\* Of a client only its key matters.  A reference that is NULL is Nothing.
Client  == [table : {"Client"}]
Stock   == [table : {"Stock"}, owner : Clients]
Trading == [table : {"Trading"}, client : Clients \cup {Nothing},
            stock : Stocks \cup {Nothing}, finished : BOOLEAN]

Rows == Client \cup Stock \cup Trading

Entities == [row : Rows, state : {"Unchanged", "Modified", "Added"}]

VARIABLES
    db,         \* the rows of tables Client, Stock and Trading, by key
    context,    \* the entities the DbContext tracks, by key
    pc,         \* by activation, the statement it is at
    announced,  \* the announcements published so far
    failures    \* how often something outside went wrong

vars == <<queueVars, db, context, pc, announced, failures>>

Locations == {"idle", "handle", "save", "return"}

Goto(h, location) == pc' = [pc EXCEPT ![h] = location]

Init ==
    /\ QueueInit
    /\ db = << >>
    /\ context = << >>
    /\ pc = [h \in Handlers |-> "idle"]
    /\ announced = {}
    /\ failures = 0

-----------------------------------------------------------------------------
(* Entity Framework: what the statements of the handlers do to a DbContext. *)

\* The entities es, and those of ctx that have other keys.
Track(ctx, es) == [k \in DOMAIN ctx \cup DOMAIN es |->
                      IF k \in DOMAIN es THEN es[k] ELSE ctx[k]]

\* FirstOrDefault: an entity that is tracked already is returned as it is.
Queried(ks) ==
    LET found == (ks \cap DOMAIN db) \ DOMAIN context
    IN Track(context, [k \in found |-> [row |-> db[k], state |-> "Unchanged"]])

New(k, row) == [i \in {k} |-> [row |-> row, state |-> "Added"]]

Pending == {k \in DOMAIN context : context[k].state # "Unchanged"}

\* No primary key is inserted that exists.
KeysAreFree == \A k \in DOMAIN context : context[k].state = "Added" => k \notin DOMAIN db

Written == [k \in DOMAIN db \cup Pending |->
               IF k \in Pending THEN context[k].row ELSE db[k]]

Accepted == [k \in DOMAIN context |-> [context[k] EXCEPT !.state = "Unchanged"]]

-----------------------------------------------------------------------------
(* The handlers.                                                           *)

\* Events of different services reach the exchange in any order.
Announce(m) ==
    /\ m \in Announcements \ announced
    /\ Len(queue) < MaxQueue
    /\ Enqueue(m)
    /\ announced' = announced \cup {m}
    /\ UNCHANGED <<db, context, pc, failures>>

\* A new connection takes longer to open than a handler takes to end.
HandleMessage(h) ==
    /\ \A g \in Handlers : handling[g] = Nothing
    /\ Receive(h)
    /\ Goto(h, "handle")
    /\ UNCHANGED <<db, context, announced, failures>>

At(h, type) == pc[h] = "handle" /\ handling[h].type = type

\* A slip the properties must notice: the entity tracked twice.
AddAgain(h, k, row) ==
    /\ Goto(h, "save")
    /\ context' = Track(context, New(k, row))
    /\ UNCHANGED <<queueVars, db, announced, failures>>

\* AddAsync, of an entity without references: refused when the key is tracked.
Add(h, k, row) ==
    /\ IF k \in DOMAIN context
       THEN Goto(h, "return") /\ UNCHANGED context
       ELSE Goto(h, "save") /\ context' = Track(context, New(k, row))
    /\ UNCHANGED <<queueVars, db, announced, failures>>

RegisterClient(h) ==
    /\ At(h, "ClientRegistered")
    /\ Add(h, handling[h].clientId, [table |-> "Client"])

RegisterStock(h) ==
    /\ At(h, "StockRegistered")
    /\ Add(h, handling[h].ticker, [table |-> "Stock", owner |-> handling[h].ownerId])

\* What AddAsync has to attach next to the job: a client and a stock that the
\* queries did not find.
Attached(m) ==
    Track(IF m.clientId \in DOMAIN db THEN << >>
          ELSE New(m.clientId, [table |-> "Client"]),
          IF m.ticker \in DOMAIN db THEN << >>
          ELSE New(m.ticker, [table |-> "Stock", owner |-> m.clientId]))

Job(m) == New(m.jobId, [table |-> "Trading", client |-> m.clientId,
                        stock |-> m.ticker, finished |-> FALSE])

\* A slip the properties must notice: the job added without what it refers to.
AddJobOnly(h) ==
    LET m == handling[h]
        known == Queried({m.clientId, m.ticker})
    IN
    /\ At(h, "TradingPlanned")
    /\ IF m.jobId \in DOMAIN known
       THEN Goto(h, "return") /\ context' = known
       ELSE Goto(h, "save") /\ context' = Track(known, Job(m))
    /\ UNCHANGED <<queueVars, db, announced, failures>>

RegisterTrading(h) ==
    LET m == handling[h]
        known == Queried({m.clientId, m.ticker})
    IN
    /\ At(h, "TradingPlanned")
    /\ DOMAIN Attached(m) \cap DOMAIN known = {}
    /\ IF m.jobId \in DOMAIN known
       THEN Goto(h, "return") /\ context' = known
       ELSE Goto(h, "save") /\ context' = Track(known, Track(Attached(m), Job(m)))
    /\ UNCHANGED <<queueVars, db, announced, failures>>

\* The client or the stock is tracked, but a failure has kept it from the
\* tables: a second instance of it is refused.  The job is attached before it,
\* and a client before a stock, so they may stay behind, without what was refused.
RegisterTradingHalf(h) ==
    LET m == handling[h]
        known == Queried({m.clientId, m.ticker})
        attached == IF m.clientId \in DOMAIN db \cup DOMAIN known THEN << >>
                    ELSE New(m.clientId, [table |-> "Client"])
        half == [table |-> "Trading", finished |-> FALSE,
                 client |-> IF m.clientId \in DOMAIN db \cup DOMAIN attached
                            THEN m.clientId ELSE Nothing,
                 stock |-> IF m.ticker \in DOMAIN db THEN m.ticker ELSE Nothing]
    IN
    /\ At(h, "TradingPlanned")
    /\ DOMAIN Attached(m) \cap DOMAIN known # {}
    /\ Goto(h, "return")
    /\ \/ context' = known
       \/ /\ m.jobId \notin DOMAIN known
          /\ context' = Track(known, Track(attached, New(m.jobId, half)))
    /\ UNCHANGED <<queueVars, db, announced, failures>>

\* A slip the properties must notice: a query without tracking.
FinishUntracked(h) ==
    /\ At(h, "TradingFinished")
    /\ Goto(h, IF handling[h].jobId \in DOMAIN db THEN "save" ELSE "return")
    /\ UNCHANGED <<queueVars, db, context, announced, failures>>

\* A job that is not found is null, and writing to it ends the handler.
FinishTrading(h) ==
    LET j == handling[h].jobId
        known == Queried({j})
    IN
    /\ At(h, "TradingFinished")
    /\ IF j \in DOMAIN db
       THEN /\ Goto(h, "save")
            /\ context' = [known EXCEPT
                  ![j] = [row |-> [known[j].row EXCEPT !.finished = TRUE],
                          state |-> IF known[j].state = "Added" THEN "Added"
                                                                ELSE "Modified"]]
       ELSE Goto(h, "return") /\ UNCHANGED context
    /\ UNCHANGED <<queueVars, db, announced, failures>>

-----------------------------------------------------------------------------
(* SaveChanges.                                                            *)

\* A slip the properties must notice: rows that exist are overwritten.
Overwrite(h) ==
    /\ pc[h] = "save"
    /\ db' = Written
    /\ context' = Accepted
    /\ Goto(h, "return")
    /\ UNCHANGED <<queueVars, announced, failures>>

SaveChanges(h) ==
    /\ pc[h] = "save"
    /\ KeysAreFree
    /\ db' = Written
    /\ context' = Accepted
    /\ Goto(h, "return")
    /\ UNCHANGED <<queueVars, announced, failures>>

\* A slip the properties must notice: the change tracker cleared all the same.
RefuseAndAccept(h) ==
    /\ pc[h] = "save"
    /\ ~KeysAreFree
    /\ context' = Accepted
    /\ Goto(h, "return")
    /\ UNCHANGED <<queueVars, db, announced, failures>>

\* DbUpdateException: "Skipped adding ...".  Everything that was to be written
\* stays to be written.
RefuseChanges(h) ==
    /\ pc[h] = "save"
    /\ ~KeysAreFree
    /\ Goto(h, "return")
    /\ UNCHANGED <<queueVars, db, context, announced, failures>>

Return(h) ==
    /\ pc[h] = "return"
    /\ Acknowledge(h)
    /\ Goto(h, "idle")
    /\ UNCHANGED <<db, context, announced, failures>>

-----------------------------------------------------------------------------
(* What goes wrong.                                                        *)

\* A slip the properties must notice: the exception leaves Consumer_Received.
ThrowUncaught(h) ==
    /\ pc[h] \in {"handle", "save"}
    /\ failures < MaxFailures
    /\ failures' = failures + 1
    /\ Goto(h, "idle")
    /\ UNCHANGED <<queueVars, db, context, announced>>

\* The database does not answer, to the second query of a handler perhaps:
\* caught, and the message acknowledged.
Throw(h) ==
    /\ pc[h] \in {"handle", "save"}
    /\ failures < MaxFailures
    /\ failures' = failures + 1
    /\ Goto(h, "return")
    /\ \/ UNCHANGED context
       \/ At(h, "TradingPlanned") /\ context' = Queried({handling[h].clientId})
    /\ UNCHANGED <<queueVars, db, announced>>

\* The transaction is committed, but its answer is lost.
SaveUnanswered(h) ==
    /\ pc[h] = "save"
    /\ failures < MaxFailures
    /\ failures' = failures + 1
    /\ KeysAreFree
    /\ db' = Written
    /\ Goto(h, "return")
    /\ UNCHANGED <<queueVars, context, announced>>

LoseConnection ==
    /\ failures < MaxFailures
    /\ failures' = failures + 1
    /\ \E h \in Handlers : Reconnect(h)
    /\ UNCHANGED <<db, context, pc, announced>>

Crash ==
    /\ failures < MaxFailures
    /\ failures' = failures + 1
    /\ Restart
    /\ context' = << >>
    /\ pc' = [h \in Handlers |-> "idle"]
    /\ UNCHANGED <<db, announced>>

-----------------------------------------------------------------------------

Step(h) ==
    \/ HandleMessage(h)
    \/ RegisterClient(h) \/ RegisterStock(h)
    \/ RegisterTrading(h) \/ RegisterTradingHalf(h) \/ FinishTrading(h)
    \/ SaveChanges(h) \/ RefuseChanges(h)
    \/ Return(h)

Environment ==
    \/ \E m \in Announcements : Announce(m)
    \/ \E h \in Handlers : Throw(h) \/ SaveUnanswered(h)
    \/ LoseConnection
    \/ Crash

Next == (\E h \in Handlers : Step(h)) \/ Environment

\* A handler that can go on does; nothing has to be announced or to go wrong.
Fairness == \A h \in Handlers : WF_vars(Step(h))

Spec == Init /\ [][Next]_vars

FairSpec == Spec /\ Fairness

\* What the messaging library promises, kept by all that this service does with
\* it.
Delivery == INSTANCE DurableQueue WITH
    Messages <- Announcements,
    waiting  <- queue,
    taken    <- handling[channel],
    troubles <- failures

ImplementsDelivery == Delivery!Spec

-----------------------------------------------------------------------------
(* Properties.                                                             *)

RowOf(k) == IF k \in Clients THEN Client ELSE IF k \in Stocks THEN Stock ELSE Trading

\* Every variable holds what its table, its context or its queue can hold, and
\* an activation is idle exactly when it handles no message.
TypeOK ==
    /\ queue \in Seq(Announcements)
    /\ channel \in Handlers
    /\ handling \in [Handlers -> Announcements \cup {Nothing}]
    /\ DOMAIN db \subseteq Keys
    /\ \A k \in DOMAIN db : db[k] \in RowOf(k)
    /\ DOMAIN context \subseteq Keys
    /\ \A k \in DOMAIN context : context[k] \in Entities /\ context[k].row \in RowOf(k)
    /\ pc \in [Handlers -> Locations]
    /\ announced \subseteq Announcements
    /\ failures \in Nat
    /\ \A h \in Handlers : pc[h] = "idle" <=> handling[h] = Nothing

\* The two rows differ at most in that the new one is finished.
FinishedAtMost(old, new) ==
    old = new \/ (old \in Trading /\ new = [old EXCEPT !.finished = TRUE])

\* The context does not go stale, however many messages it has served: what it
\* believes to be stored is stored, and what it means to update differs from
\* its row in the finish alone.
ContextAgrees ==
    \A k \in DOMAIN context :
        /\ context[k].state # "Added" => k \in DOMAIN db
        /\ context[k].state = "Unchanged" => db[k] = context[k].row
        /\ context[k].state = "Modified" => FinishedAtMost(db[k], context[k].row)

\* A job never names a client or a stock that has no row: no save is refused
\* by a foreign key.
ReferencesExist ==
    \A j \in DOMAIN db \cap Jobs : {db[j].client, db[j].stock} \subseteq DOMAIN db \cup {Nothing}

\* No message takes a row away or gives it other contents, except that a job
\* is finished: of two registrations of one key the first stays.
RowsAreKept ==
    [][\A k \in DOMAIN db : k \in DOMAIN db' /\ FinishedAtMost(db[k], db'[k])]_vars

\* An entity to be inserted whose row exists: from now on every save fails.
Poisoned == ~KeysAreFree

IsShown(m) ==
    CASE m.type = "ClientRegistered" -> m.clientId \in DOMAIN db
      [] m.type = "StockRegistered"  -> m.ticker \in DOMAIN db
      [] m.type = "TradingPlanned"   -> m.jobId \in DOMAIN db
      [] OTHER -> TRUE

Waiting == {queue[i] : i \in DOMAIN queue}

\* While nothing has gone wrong outside, the context is not poisoned and every
\* client, stock and job that was announced and acknowledged is in the read
\* model, in whatever order and how often keys were announced.
ShownUnlessFailed ==
    failures = 0 => ~Poisoned /\ \A m \in announced \ Waiting : IsShown(m)

\* The finish of a job that is in the read model gets there, unless something
\* goes wrong outside.
FinishedIsShown ==
    \A j \in Jobs :
        (j \in DOMAIN db /\ \E m \in Waiting : m \in TradingFinished /\ m.jobId = j)
            ~> ((j \in DOMAIN db /\ db[j].finished) \/ failures > 0)

-----------------------------------------------------------------------------
(* What the code says, and does not do.                                    *)

\* "Skipped adding trading job with id {JobId}": a save that is refused skips
\* the rows that exist, and no others.
SkipsOnlyWhatExists ==
    [][\A h \in Handlers : RefuseChanges(h) => Pending \subseteq DOMAIN db]_vars

=============================================================================
