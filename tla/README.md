# StockDeskApp: specification and proofs

StockDeskApp is a set of small .NET services around one message broker. A client
owns stocks, trading jobs are planned on the stocks for a date, carried out,
announced and invoiced. This directory holds TLA+ modules of its core, TLC
configurations that check them on small instances, and TLAPS proofs of the most
important results for every instance.

## 1. The system

| part | state it keeps | operations | talks to |
|---|---|---|---|
| PortfolioManagementAPI | event store: a row `(Id, CurrentVersion)` and events `(Id, Version, ...)` per planning date | plan a trading job, finish a trading job, read a planning | publishes `PortfolioPlanningCreated`, `TradingPlanned`, `TradingFinished` |
| PortfolioManagementEventHandler | read model (clients, stocks, jobs) in SQL Server through one `DbContext` for the life of the process | handle `ClientRegistered`, `StockRegistered`, `TradingPlanned`, `TradingFinished` | reads its queue |
| InvoiceService | clients, jobs with `Finished` and `InvoiceSent`, invoices | the same events, and `DayHasPassed`: mail and register an invoice for each client with finished jobs | reads its queue, sends mail |
| NotificationService | clients, jobs still to be announced | the same events, and `DayHasPassed`: mail each client its jobs of today, then delete them | reads its queue, sends mail |
| TimeService | the time of the last check, in memory | every 10 s: publish `DayHasPassed` when a day has gone by | publishes |
| ClientManagementAPI, StockManagementAPI | a table each | register a client, a stock | publish `ClientRegistered`, `StockRegistered` |
| WebApp | nothing | forms that call the three APIs, each with up to five immediate retries and then an "Offline" page (`ResiliencyHelper`) | HTTP |
| AuditlogService | a log file | append every message | reads its queue |
| Infrastructure.Messaging | a connection | publish to the fanout exchange; consume a durable queue, acknowledging after the handler answered `true` | RabbitMQ |

Every service that consumes has its own queue bound to the fanout exchange, so it
gets every message. A message is acknowledged after the handler returns; a process
that stops in between gets it again. Messages are published without confirms, after
the database transaction they report on and outside it.

### What is hard, and what makes each part correct

* **PortfolioManagementAPI.** Requests run concurrently; `GetByIdAsync` reads the row
  and the events in two statements and `SaveAsync` writes in another transaction, so
  everything a command decided on may be stale when it is stored. The only guard is the
  comparison of `CurrentVersion` with the number of events replayed. Correct means:
  versions count events, no interleaving stores an event that breaks a business rule on
  the events before it, each request changes its planning at most once and at once,
  the answer tells the caller whether anything was stored, and what is published is
  what was stored. A failure between commit and publication has no recovery.
* **PortfolioManagementEventHandler.** A row inserted twice leaves the failed entity in
  the `DbContext`; events arrive in the order they were published, not committed.
  Correct: the read model holds what its queue announced, and the context agrees with the tables.
* **InvoiceService.** Mail, invoice row and `InvoiceSent` flags are separate steps, a
  redelivered `DayHasPassed` repeats them, the job ids of an invoice must fit
  `varchar(250)`, and one client's exception ends the loop for the clients after it.
  Correct: every finished job is invoiced, once, to the client that owns it.
* **NotificationService.** Mail before delete: at least once, never for a job that was
  removed. **TimeService.** One `DayHasPassed` a day, and one at each start.
* **ClientManagementAPI, StockManagementAPI.** Saved, then published: a failure in between
  cannot be repaired by trying again, since the primary key refuses the row. A retried registration of a client has a new
  key and makes a second client. Correct: nothing is announced that is not stored, and success is shown only for what
  was announced.
* **WebApp.** A retry after a lost answer sends a new command with a new `JobId`, while the old request may still be on its way:
  the service behind cannot tell a retry from another user. `RegisterTrading` takes every error but 409 for
  success. Correct: a form has at most one effect, the page says no more than is true, and a job can be finished only after those who hear of
  its finish could hear of its planning.
* **Infrastructure.Messaging, AuditlogService.** At-least-once consumption.

The list of hazards with their lines is `hazards` in `PROJECT.json`.

## 2. Modules

| module | models | kind |
|---|---|---|
| `Timeslot` | `Timeslot.cs` | operators |
| `PortfolioPlanning` | the aggregate, its business rules, its commands and events, as operators on the stream of events of one date | operators |
| `PlanningReplay` | the same aggregate as the code computes it: the list `Jobs`, changed event after event, and the verdict of a command on it | operators, and the property `ReplayAgrees` |
| `PlanningReplay_proofs` | the two aggregates agree, over `PortfolioManagementAPI_proofs` | TLAPS |
| `PlanningLedger` | what the planning service promises: per date a ledger, to which a request adds its events in one step, at most once, when the rules allow its command on the whole ledger | abstract specification |
| `PortfolioManagementAPI` | controllers, command handlers, event store, publication | state machine |
| `MCPortfolioManagementAPI` | the small instance | TLC |
| `PortfolioManagementAPI_proofs` | theorems | TLAPS |
| `RabbitMQMessageHandler` | `RabbitMQMessageHandler.cs` as a consumer sees it: queue, channel, redelivery | state and actions for the consumers to extend |
| `DurableQueue` | what the messaging library promises a consumer: one message at a time, in order, gone only when handled | abstract specification |
| `Billing` | what InvoiceService promises the clients: planned, finished, settled; mailed before registered; a failure for each further invoice of a job | abstract specification |
| `InvoiceService` | `InvoiceWorker`, its repository and its mail client | state machine |
| `MCInvoiceService` | the small instance | TLC |
| `InvoiceService_proofs` | theorems | TLAPS |
| `FailureBudget` | what a failure may cost: the counting argument of the consumers' proofs | TLAPS |
| `PortfolioManagementEventHandler` | `EventHandlerWorker` and the change tracker of its `DbContext` | state machine |
| `MCPortfolioManagementEventHandler` | the small instance | TLC |
| `PortfolioManagementEventHandler_proofs` | theorems | TLAPS |
| `TimeService` | `TimeWorker` and the clock | state and actions for the consumers of `DayHasPassed` to extend |
| `NotificationService` | `NotificationWorker`, its repository and its mail client, composed with `TimeService` | state machine |
| `MCNotificationService` | the small instance | TLC |
| `NotificationService_proofs` | theorems | TLAPS |
| `ResiliencyHelper` | `ResiliencyHelper.cs`: the runs of the action of a form | state and actions for the controllers to extend |
| `Registration` | the POST of `ClientsController` and of `StocksController` | state and actions |
| `WebApp` | the controllers of WebApp over `PortfolioManagementAPI`, `Registration` and `ResiliencyHelper` | state machine, composition |
| `MCWebApp` | the small instance | TLC |
| `WebApp_proofs` | theorems, over those of `PortfolioManagementAPI_proofs` | TLAPS |

`PortfolioManagementAPI` composes the aggregate with the store and the publisher;
`Ledger == INSTANCE PlanningLedger WITH ledger <- planningEvent` maps it to the abstract
specification. In the same way each consumer maps its queue, the message of the open connection
and its failures to `DurableQueue` (`Delivery`), and `InvoiceService` maps its tables to
`Billing` (`Bills`).

### PortfolioManagementAPI: state and actions

`planning` and `planningEvent` are the two tables, `lock` says whose open transaction
has written a planning row, `exchange` is everything handed to the broker, oldest
first. The rest is per request: where it is (`pc`), its route and body (`date`,
`command`), the events its aggregate replayed (`loaded`), the events it raised and
has still to store or publish (`pending`), and what its caller was told (`answer`).

| action | code |
|---|---|
| `LoadPlanning`, `MissPlanning`, `LoadEvents` | the two SELECTs of `GetByIdAsync`; without a row PlanTrading creates a planning in memory and FinishTrading answers 404 |
| `HandleCommand`, `RejectCommand` | the aggregate handles the command or throws: `BusinessRuleViolationException` is 409 for PlanTrading, everything else escapes (500) |
| `SelectPlanning` | the SELECT that opens the transaction of `SaveAsync` |
| `UpdatePlanning`, `UpdateNothing`, `InsertPlanning`, `InsertDuplicate` | the conditional UPDATE and the INSERT, each with the outcome the database can give |
| `StoreEvents` | the INSERTs of the events and the commit, one step because no one else can see the transaction before it ends |
| `PublishEvent`, `Respond` | one publication per event, then 201 or 200 |
| `Fail` | any other exception, or the end of the process, at any await: the transaction is rolled back, the caller gets 500 or nothing |

There is one action per await, because between two awaits a request touches only its
own memory. The database runs at its default isolation, READ COMMITTED with locks and
no snapshot: a statement that would read or write a row another transaction has
written waits for that transaction (`Unlocked`), and no read outlives its statement.
A reader of a date whose row is being inserted waits in the same way. The retries of
`conn.OpenAsync()` are part of the step they precede; running out of them is `Fail`.
The crash of a process is `Fail` for each of its requests, one after the other, and
a restart needs no action since nothing is kept in memory between requests. `exchange`
ends at `BasicPublish`: what the broker then does with a message belongs to the
consumers.

The aggregate in `PortfolioPlanning` is set-based: a job is the version of the event
that planned it, a job is completed when a finish has been applied to its id. The code
computes the same from a mutable list; `ReplayAgrees` compares the two over every
reachable stream on the instance, and `ReplayDecidesAlike` proves it for every one, including streams with a job id twice, where `FirstOrDefault`
decides. Names, telephone numbers, descriptions and notes are left out: no rule reads them.
Tickers are the ones that `Ticker.Create` accepts; a request whose body or route does not
parse is refused (400) before it reaches anything modelled.

### RabbitMQMessageHandler and InvoiceService: state and actions

`queue` holds the messages the broker has not seen acknowledged, `channel` the activation
of `Consumer_Received` that belongs to the open connection, `handling` what each
activation was called with. RabbitMQ.Client calls the handler of a channel again only
when its task has completed, so one activation works per channel, in the order of the
queue. When the connection is lost, the client recovers it and everything unacknowledged is
delivered again on a new channel, but the activation of the old one is an ordinary task
and goes on to its end: there may be two, and the acknowledgement of the old one has no
effect. That is why there are two `Handlers`.

`client`, `trading` and `invoice` are the three tables; `mailed` and `delivered` are the
invoices handed to the mail client and those that reached the mail server. Per
activation, `pc` is the statement it is at, `todo` the jobs the query found and not
settled yet, `current` the invoice it is busy with, `unflagged` the jobs of it without
`InvoiceSent`.

| action | code |
|---|---|
| `HandleMessage` | `Consumer_Received` calls `HandleMessageAsync` |
| `RegisterClient`, `RegisterTrading`, `MarkTradingAsFinished` | the INSERTs and the UPDATE of the three announcements; a key that exists is an exception, which is caught, so the message is acknowledged all the same |
| `GetTradingsToBeInvoiced` | the query of `DayHasPassed` |
| `NextClient`, `NoMoreClients` | the loop over the groups: any order, since the query has none; an unknown client ends it |
| `SendInvoice`, `LoseInvoice` | `SendMailAsync` succeeds; or it fails after it returned its task, which `ContinueWith` hides |
| `RegisterInvoice`, `RefuseInvoice` | the INSERT of the invoice, which its columns hold or do not |
| `FlagJob`, `AllFlagged` | the UPDATE, which Dapper executes once per job id, and the end of the round |
| `Return` | the handler returns true and the message is acknowledged |
| `Throw` | any other exception at any statement: the `catch` of `HandleMessageAsync` |
| `LoseConnection`, `Crash` | a recovered connection, a restarted process |
| `Announce`, `PassDay` | the other services publish |

Every statement is a step and commits by itself, as in the code. What an invoice says is
left out but for its jobs and their cost (`Cost`, from the times a job was finished
with); `Fits` is the two columns that can refuse it.

### PortfolioManagementEventHandler: state and actions

`db` is the three tables of the read model, kept together as a function from keys to rows (the
keys of a client, a stock and a job differ); `context` is what the one `DbContext` tracks: for a key its row
and its `EntityState`. `EventHandlerWorker` is a singleton and gets its context once, so only a
restart empties it (`Crash`).

| action | code |
|---|---|
| `HandleMessage`, `Return` | as for the invoice service |
| `RegisterClient`, `RegisterStock` | `AddAsync`, which throws when the key is tracked |
| `RegisterTrading` | the two queries and `AddAsync` of the job with the client and the stock that were not found |
| `RegisterTradingHalf` | the same when a client or a stock is tracked but, after a failure, not stored: `AddAsync` throws in the middle of the graph |
| `FinishTrading` | the query and the assignments; a job that is not found is null |
| `SaveChanges`, `RefuseChanges` | one transaction for everything pending; or `DbUpdateException`, caught in the handler |
| `Throw`, `SaveUnanswered` | the database does not answer, before or after the commit |
| `LoseConnection`, `Crash`, `Announce` | as for the invoice service |

What a handler does up to `SaveChangesAsync` only reads the tables and writes the context, both of which
nobody else writes, so it is one step. Of a query this model knows what matters here: it asks the
database, and returns the tracked entity, as it is, when the row it finds is tracked. What the context
keeps of a graph that `AddAsync` has refused half way is left open: nothing, or the job and a client
before the stock. A new connection is taken to open only after the handler of the old one has ended
(the recovery waits five seconds, a handler some milliseconds): two threads in one `DbContext` are outside of what
Entity Framework defines.

### TimeService and NotificationService: state and actions

`clock` is `DateTime.Now` in ticks of ten seconds, the sleep of `TimeWorker`; `lastCheck` its field, `wake`
the end of its `Thread.Sleep`, `running` its process. A day has `TicksPerDay` ticks. `client` and `trading` are the two
tables of NotificationService, `registered` and `mailed` remember for the properties which rows there ever were and how
often a reminder of each went out. `pc`, `todo` and `current` are, per activation, its statement, the rows it has not come
to and those of the client it is busy with.

| action | code |
|---|---|
| `CheckInVain`, `PublishDay` | the two rounds of the loop in `TimeWorker.Worker` |
| `StopWorker`, `RestartWorker` | the process is stopped, or ends with an exception of its `async void` loop; the constructor sets `_lastCheck` a day back, so it announces at once |
| `Tick`, `LetTimePass` | ten seconds go by: a sleep ends at its tick or at the next |
| `PassDay` | `PublishDay`, and the message reaches the queue |
| `RegisterClient`, `RegisterTrading`, `FinishTrading` | INSERT and DELETE; a row that exists is refused, caught and acknowledged |
| `GetTradingsForToday` | the query, for the day on which the message is handled |
| `NextClient`, `NoMoreClients` | the loop over the groups, in any order; a client that is not found ends it |
| `SendNotification` | the mail is handed over |
| `RemoveNotified` | the DELETE, which Dapper executes once per job |
| `Return`, `Throw`, `LoseConnection`, `Crash`, `Announce` | as for the invoice service |

Time does not stand still while a message waits or is handled, but ten seconds are long for that: a tick in the
meantime counts as one of the failures. So a day that ends between announcement and query is part of the model, and the properties
that speak of undisturbed runs do not have to allow for it.

### ResiliencyHelper, Registration and WebApp: state and actions

A form is submitted once; `entry` is what its user has entered. An attempt, the pair of a form and a number, is one run of
its action under `ResiliencyHelper`, and also stands for the HTTP request it sends and for the id it makes: `JobId` and `ClientId`
are created inside the retried action, a new one each time, whereas a ticker is the user's. So `Requests` of the planning service and `Posts` of the
registration services are the attempts. `call` says how far an attempt is, `page` what its user sees. In `Registration`, `rows` and
`announcements` are the table and the published events, `stage` and `status` where a POST is and what its caller was told.

| action | code |
|---|---|
| `Submit` | the form is posted and `ExecuteResilient` runs the action for the first time |
| `Post` | the HTTP request goes out |
| `Abort` | an exception before that: stock or client is null, a time is blank, a look-up does not answer; or a look-up answers with an error status, which `RegisterTrading` catches with the rest |
| `HearPlanned`, `HearConflict`, `FailConflict` | the answer reaches `RegisterTrading`: 409 shows the form again, after a look-up that may fail, and anything else leads to Index |
| `HearFinished`, `HearRegistered` | the answer reaches the other forms: success, or an exception of Refit |
| `LoseAnswer` | the connection is lost, or HttpClient has waited 100 seconds |
| `Throw`, `Show` | the next run, or the page, Offline after the last run |
| `ServePlanning`, `FailService` | a step of a request in PortfolioManagementAPI, or its failure; also when nobody waits for it any more |
| `InsertRow`, `RefuseRow`, `PublishRegistered`, `BreakOff` | the POST of the registration services, statement by statement; `ServeRegistration` and `FailService` say when |

All that `PortfolioManagementAPI` says of interleavings holds between the attempts of one form as well as between
users: a lost request may start after the one that replaces it has ended, or never. Only the trading forms reach the planning
service. The page of FinishTrading shows a job that a query has found, which is the guard of `Submit`; queries change nothing and are left
out otherwise. Both registration services are one state because they differ in the key alone.

## 3. What TLC checks

| run | expects | question |
|---|---|---|
| `planning_store` | pass | does the event store stay right under three concurrent requests, each of which may fail at any await? |
| `planning_exclusive` | violation | is a stock traded by one job at a time, as the rule's message says? |
| `planning_publication` | violation | is every stored event published, as the readme says? |
| `invoicing` | pass | are the right jobs invoiced, once, and in the end all of them, under a failure anywhere? |
| `invoicing_mail` | violation | did the mail leave when `InvoiceSent` says so? |
| `invoicing_blocked` | violation | is every completed job invoiced, as the readme says? |
| `readmodel` | pass | does one `DbContext` keep the read model right, message after message and failure after failure? |
| `readmodel_skipped` | violation | does a refused save skip only the row that exists, as the log says? |
| `notification` | pass | do reminders go out on the day, once, and are jobs removed for that alone, over midnight, restarts and a failure? |
| `notification_skipped` | violation | is a job that was planned in time announced on its day, as the readme says? |
| `webapp` | pass | do retried forms over services that fail act once, and do their pages tell the truth? |
| `webapp_swallowed` | violation | is a user who is led on as after success never the one whose job was not planned? |

### The planning runs

**Bounds.** Three requests (two for the violations), each with any of seven calls (`Calls`):
the slots touch, overlap, enclose one another and cross midnight; a job id is planned
twice and on two dates; a job is finished twice and finished with an invalid slot. Two
workstations, two dates, a day of ten ticks. Three requests are the least that let two
of them race on a planning that a third has made, and let a limit of two workstations
be reached. Requests are alike, so the initial states number them in the order of
their calls (`MCInit`), which keeps one representative of each permutation and, unlike a
symmetry set, is sound for the liveness property. No counter needs a bound: a request
ends after at most nine steps.

**Properties of `planning_store`.**

* `TypeOK`: one type invariant.
* `VersionCountsEvents`: `CurrentVersion` is the number of stored events, which have no
  gap. The version check compares the one with the other.
* `EventsAdmissible`: every stored event obeyed the rules on *all* the events stored before it.
* `StockOverlapIsEnclosure`: jobs on one stock intersect only when the earlier one encloses the
  later: exactly the case `OverlapsWith` misses.
* `RefusedLeavesNoTrace`: 404, 409 and ConcurrencyException mean that nothing was stored.
* `PublishedIsStored`, `PublishedOnceInOrder`, `UnpublishedWasInterrupted`: what subscribers hear.
* `ReplayAgrees`: set-based aggregate and replayed list give every command the same verdict; also proved.
* `ImplementsLedger`: refinement of `PlanningLedger`.
* `EveryRequestAnswered`: every request ends.

**Fairness.** `WF(Step(r))` for each request: the thread pool resumes a request whose await
has completed and SQL Server serves a statement whose lock is free. Weak fairness is
enough because a lock is held only between `UpdatePlanning` or `InsertPlanning` and
`StoreEvents`, both steps of one request that needs no lock in between, and a row that
is freed and taken again forever would need infinitely many requests. `Fail` has no
fairness: nothing obliges a request to fail.

**What the violations show.** `planning_exclusive`: two requests suffice. The first plans
slot 1-6, the second 2-4 on the same stock; `existing.OverlapsWith(new)` asks whether
the existing slot starts or ends inside the new one, which an enclosing slot does not.
`planning_publication`: a request that fails after the commit; its events stay in the
store, the read model, invoices and notifications never learn of the job, and the
caller who is told 500 and tries again gets a second job, or a 409.

### The invoicing runs

**Bounds.** Two clients and three jobs, announced in any order or never; job `j3` is planned
twice, for different clients, because job ids are not checked for uniqueness. An invoice holds
two jobs and an amount of 10, which `j1` and `j2` together, and `j3` alone, just reach:
both limits can be met and exceeded. One failure (`MaxFailures`): a second only repeats what one
does (the two bounds that count failures are proved for any number of them), since after it the service starts from any combination of tables that one
failure and the steps of two activations can leave. One announcement waits (`MaxQueue`): one that
is published later is as good as one that waits longer, and the order is free anyway.
One `DayHasPassed` waits, next to it: a second finds nothing that the first left. The instance starts
after the first client and two of its jobs have been registered (`MCInit`), a state that
`Init` reaches without a failure; it saves the interleavings before there is
anything to invoice.

**Properties of `invoicing`.**

* `TypeOK`: one type invariant, with the correspondence of `pc` and `handling`.
* `InvoicesWhatWasDone`: what is mailed or registered names finished jobs of its client, however
  old the query is and whoever has written the rows since.
* `SentWasRegisteredAndMailed`: a flag follows a row and a row follows a mail.
* `UnsettledPerFailure`: a mailed invoice whose jobs are not all flagged, and that nobody is busy with any more, is one
  that the client gets again another day. Each took a failure of its own, those aside that the row refuses: the client
  gets these every day.
* `BilledOncePerFailure`: a failure costs a client at most one more invoice of a job. A lost connection leaves an activation
  behind and brings its message back; the two together bill the job once more, not twice.
* `DueIsInvoiced`: every finished job is invoiced in the end, unless again and again some
  client blocks the loop.

**Fairness.** `WF(PassDay)`: TimeService runs and days pass. `WF(Step(h))`: the dispatcher calls the
handler, SQL Server and the mail client answer. Weak fairness is enough, because an
activation that can step stays able to until it does, or is ended by a failure, of which there are finitely
many. Nothing has to be announced and nothing has to fail.

**What the violations show.** `invoicing_mail`: a mail that fails asynchronously is logged as
sent and its jobs are flagged. `invoicing_blocked` allows no failure at all, and leaves one thing that
can block the loop: every job belongs to the first client, which is registered (`MCOneClientPlans`), and any two jobs fit an
invoice while all three exceed both `Amount` and `JobIds` (`MCAlikeCost`). In the trace the three jobs have been
finished when the day passes: the invoice is mailed, `RefuseInvoice` is the failing INSERT, and the next day
does the same; jobs that finish later only add to them. An unregistered client blocks the loop as well
(InvoiceWorker.cs:111, `NextClient`), until it is registered: this run excludes it, `Blocks` in `DueIsInvoiced` excuses both.

### The read model runs

**Bounds.** Two clients, one stock, two jobs. The six announcements make every key meet itself: the stock is
registered by one client and traded by another, which may come first; a client is registered and comes with
a job; a job id is planned twice; and no order is imposed, since they come from three services.
Each is announced once; what comes twice comes by redelivery. Two failures (`MaxFailures`), because the interesting
case needs two: one that leaves a row without its entity or an entity without its row,
and a restart, or another, on top of it. One message waits (`MaxQueue`): the order is free anyway, and the handler
never looks at a second one. Deadlock is not checked: when everything has been announced and handled, nothing remains to do.

**Properties of `readmodel`.**

* `TypeOK`: one type invariant.
* `ContextAgrees`: the context never goes stale, however long the process lives: an entity it believes to be
  stored is stored with that contents, one it is to update differs from its row in the finish alone.
* `ReferencesExist`: no job names a client or a stock without a row, also when clients, stocks and jobs arrive in the
  wrong order or half of them was refused.
* `ShownUnlessFailed`: until the first failure, what was acknowledged is in the read model, in any order of
  announcements, and the context is not poisoned.
* `FinishedIsShown`: the finish of a job that is there gets there, unless something fails.

**Fairness.** `WF(Step(h))`, as for the invoice service. Announcements and failures have none.

**What the violation shows.** One failure suffices: a process that ends between commit and acknowledgement, or a lost
answer. The row is there and its entity `Added`; the INSERT is refused, and stays pending. From then on
every save fails, of whatever message, and every message is acknowledged: the read model stands
still until the next restart, and what was announced until then is lost to it.

### The notification runs

**Bounds.** Two ticks a day and five ticks: three days begin, one of them after an announcement that came late.
Announcements in any order, among all of this: two jobs of one client on the first day, the id of one of them finished
and planned again for the second day and another client, whose registration never comes, and the registration of the
first client, which may come too late. One failure (`MaxFailures`), one message waits (`MaxQueue`), as for the invoice service.
TimeService may stop and start at any time, as often as it likes, so that a day is announced several times.
Deadlock is not checked: the clock stops at `MaxClock`.

**Properties of `notification`.**

* `TypeOK`: one type invariant.
* `RemovedForAReason`: a job leaves the table only when its client was told or it was finished, whatever activations are left
  over and whatever has been planned under its id since.
* `NotifiedOncePerFailure`: however often a day is announced, a client hears of a job at most once more than something went
  wrong. A lost connection may leave an activation in its loop and another before its late INSERT, and brings the message
  back; together they cost one reminder more.
* `RemindedOnTheDay`: a reminder goes out on the day of the job, to a registered client, except by an activation that
  a midnight or a failure has delayed.
* `DueIsNotified`: of the jobs of today that are there when the day is announced, none is left behind unless a client that
  is not registered blocks the loop or something fails.
* `DayIsAnnouncedInTime`: announcements are at most a day and a tick apart while TimeService runs.

**Fairness.** `WF(Step(h))`, as for the invoice service. Announcements, failures and time itself have none.

**What the violation shows.** The instance starts with a job of the second day and its client in the tables
(`MCAheadInit`, which registering them reaches), no failure is allowed and TimeService never stops. Announcements are a day *or a little more*
apart, so they move through the day; one in the last ticks of a day is followed by one in the first ticks of the day after
the next. The day between has none, the query looks at the current day only, and the job stays
in the table unannounced for ever. The three-tick day makes this the second announcement; with real days it takes a start shortly
before midnight, or years.

### The web application runs

**Bounds.** Two forms of two attempts each (six in the code: a third repeats what the second does, since each
starts from services in any state that requests given up may leave), and two failures in all (`MaxFailures`), which is
what it takes to lose an answer and interrupt the request that replaced it. Any two of eight entries: jobs on one stock with slots that
enclose each other in the order that the rule misses, a job on another stock, an end before the start, the finish of the job of the first
or of the second attempt, a client, a stock that both forms may register. Two workstations. Forms are alike, so the
initial states number them in the order of their entries (`MCInit`). Deadlock is not checked: when the forms have been answered, nothing remains to do.

**Properties of `webapp`.**

* `WebTypeOK`: one type invariant; runs of a form take turns.
* `FormActsOnce`: the hazard of the new `JobId`. It is not the helper and not the service that prevents a second job, but the rule
  that a stock is traded once at a time: the slot of the first attempt is in the way of the second. For a finish it is the status of the job.
* `PagesTellTheTruth`: what a user may conclude from Index, New and Details, with the exceptions the code has.
* `SilenceIsFinal`: a registration that failed between INSERT and publication stays unknown to the other services, whoever tries again.
* `FinishFollowsPlan`: the consumers cannot cope with a finish that comes before its planning (section 1). Such an
  order can be published only while, or after, a request for the planning has not reported success.

These are invariants and action properties; no fairness is assumed, since a form whose service never answers is cut off by a failure, and failures are
bounded by the model alone.

**What the violation shows.** No failure is needed. Two users plan on one date at the same time, for different stocks
(`MCRaceSpec`, so that no rule is in their way); the second meets ConcurrencyException, status 500 and the advice to try again. `RegisterTrading` looks for 409 only, so the
user is led to the list of jobs as after success, nothing is planned and nothing is retried.

## 4. What is proved

`PortfolioManagementAPI_proofs` proves, for any sets of requests, dates, commands, jobs and
tickers and any number of workstations, from the assumptions `TicksPerDayAssumption`,
`WorkstationsAssumption`, `CommandsAssumption` and `NoRequestAssumption` (and, in `PlanningReplay_proofs`,
`NoSlotAssumption`: a value that is no time-slot stands for the null of a job that is not finished):

| theorem | result |
|---|---|
| `TypeCorrect` | `Spec => []TypeOK` |
| `VersionsCountEvents` | `Spec => []VersionCountsEvents` |
| `RulesHoldOfTheStore` | `Spec => []EventsAdmissible` |
| `StockOverlaps` | `Spec => []StockOverlapIsEnclosure` |
| `RefusalsLeaveNoTrace` | `Spec => []RefusedLeavesNoTrace` |
| `OnlyStoredIsPublished` | `Spec => []PublishedIsStored` |
| `LossNeedsInterruption` | `Spec => []UnpublishedWasInterrupted` |
| `PublishedOnce` | `Spec => []PublishedOnceInOrder` |
| `RefinesLedger` | `Spec => ImplementsLedger` |
| `OverlapsWithIsIntersection` | for all slots, `OverlapsWith` is intersection except enclosure by the first |
| `WorkstationsSuffice` | more jobs at a moment than workstations only when an earlier-planned one encloses a later one |
| `NobodyWaitsForAWaiter` | a request that is not done can go on, or waits for the lock of one that can |
| `StepsRunOut` | each step of a request uses up one of at most nine, and nothing gives any back |
| `ReplayDecidesAlike` | `Spec => []ReplayAgrees` |
| `HandlersDecideAlike` | the same for the streams that the requests have loaded |

**The argument.** None of these is inductive alone. `ControlInv` is the heart of the
optimistic concurrency control:

* `VersionCountsEvents`: the row counts the events;
* `LoadedIsPrefix`: what a request has loaded is a prefix of what is stored (events are
  never changed or removed);
* `SavesWhatItRaised`: what a request is about to store is what its command raises on what it
  loaded, and the rules allowed it there;
* `RowFoundStays`: a row that was seen is still there;
* `CommitterIsUpToDate`: a request that holds the lock and is about to store has loaded
  *everything* that is stored.

The last one is what the version check buys: a prefix with as many events as the row
counts is the whole stream, and the lock keeps it so until the commit. So the
verdict on `loaded` is a verdict on the stream as it is at the commit, from which
`EventsAdmissible`, the refinement (`StoreEvents` is `Enter`, every other step
stutters) and the absence of version clashes follow. `PublicationInv` adds where each event
of a request is: still pending, stored or published, according to `pc`.
`StockOverlaps` follows from `EventsAdmissible` by the lemma on `OverlapsWith`.
`ControlInv` and `PublicationInv` were model-checked on the instance of section 3 too. `RequestInv` adds that a stored
event says what its request was asked, and that a request which reports success has stored its event;
`OrderInv` that what a request has published comes before what it has still to publish, which makes `PublishedOnceInOrder` inductive.

**The rules on every stream.** `ReplayDecidesAlike` is an induction over the events. `Mirrors(jobs, events, n)` says that the list
after `n` events has, one for one and in order, the jobs that the set-based aggregate has after them, with the slots,
stocks and status it derives from the events. Planning appends one job to both; a finish changes the first job of its id in both, which is what
`FirstOrDefault` and a set of versions have to agree on when an id is used twice (`PlanMirrors`, `FinishMirrors`). Then
counts and look-ups agree, and so do the verdicts. The library's induction theorems take an operator and cannot be used here; `SetInduction` says the
same of a set of numbers, and follows from the well-foundedness of finite sets under strict inclusion.
`WorkstationsSuffice` looks at the job planned last among those that run at a moment: were they too many and none enclosed a later one, all
the others would overlap with it in the sense of the code, and the rule would have refused it.

**Towards liveness.** `EveryRequestAnswered` itself is out of the prover's reach, its two reasons are not. Only the holder of a row lock is
about to store (`HolderCommits`), its version check has made the primary key free, so it can always go on: no circle of waiting
(`NobodyWaitsForAWaiter`). And `Remaining(r)` counts the steps a request can still take, one for each await and one for each event
to publish (`StepsRunOut`). `CanStep(r)` writes out when `Step(r)` is enabled; TLC finds the two equal on the instance.

**Only model-checked.** `EveryRequestAnswered` (liveness).

### The invoice service

`InvoiceService_proofs` proves, for any clients, jobs, messages, costs, limits, numbers of
activations and of failures, from `AnnouncementsAssumption`, `CostAssumption` and
`NothingAssumption`:

| theorem | result |
|---|---|
| `InvoiceTypeCorrect` | `Spec => []TypeOK` |
| `InvoicesAreRight` | `Spec => []InvoicesWhatWasDone` |
| `SentWasRegistered` | `Spec => []SentWasRegisteredAndMailed` |
| `UnsettledWereFailures` | `Spec => []UnsettledPerFailure` |
| `BilledWithinFailures` | `Spec => []BilledOncePerFailure` |
| `InvoicingLosesNothing` | `Spec => []NothingIsLost`: until something fails, announced clients and jobs are in the tables or still in the queue |
| `InvoicingDelivers` | `Spec => ImplementsDelivery`: refinement of `DurableQueue` |
| `InvoicingBills` | `Spec => ImplementsBilling`: refinement of `Billing` |

**The argument.** `LocalsInv` says that what an activation remembers agrees with the tables at
every later step: the jobs it found are (still) finished, its invoice is for jobs of its
client, was mailed when the INSERT comes, is registered when the UPDATEs come, and what it no longer
has to flag is flagged. It is inductive because of `TradingGrows`: no statement of the service
deletes a job, changes its owner or takes a flag back, so the steps of another
activation cannot undo it (`OthersAreKept`, `KeptIsRight`).

What failures may cost is counted. `UnsettledInv`: the unsettled invoices, together with the activations that lost connections
have left behind, are no more than the failures. A lost connection adds one activation, an exception one invoice; a restart ends
all activations at once, each perhaps between its mail and its flags, but all of them except the channel's had been counted
before. `BilledInv`: for each job, its bills, together with the activations that may bill it once more (`MayBill`), are
no more than the failures and one. An activation that bills the job stops being one of those: it has the job flagged or to flag,
and does not look for it again. An activation left behind that has not run its query yet may find the job, and so may the
next message of the channel; but until the connection was lost they were the same one. `FailureBudget` holds the arithmetic
of such an invariant: doing it uses up an activation that is able to, and only a failure enables another.

**The refinements.** For `DurableQueue`, `HandleMessage` is `Take`, `Return` is `Settle` when it is the open connection's and a stutter when
a lost connection has left the activation behind, and everything that fails is `Trouble`, which may put the message back. `HandlesHead`
makes it work: what the open connection handles is the head of the queue. For `Billing`, the three stages of a job are read off its row;
`MarkTradingAsFinished` and `FlagJob` are steps or, on a row that has come as far already, stutters. That a mail is for finished jobs of its client
and a row for what was mailed is `LocalsInv`, that a group of the query is never empty `CurrentHasJobs`, and the guard of
`Billing` against further invoices is `BilledInv`, one step later. `LostInv` adds to `NothingIsLost` that a callback which returns has written its row
(`HandlerRight`). Both refinements and `LostInv` hold on the instance of `invoicing` too.

**Only model-checked.** `DueIsInvoiced` (liveness).

### The read model

`PortfolioManagementEventHandler_proofs` proves, for any clients, stocks, jobs, messages, numbers of activations and of
failures, from `AnnouncementsAssumption`, `NothingAssumption` and `KeysAssumption`:

| theorem | result |
|---|---|
| `ReadModelTypeCorrect` | `Spec => []TypeOK` |
| `ContextStaysFresh` | `Spec => []ContextAgrees` |
| `ForeignKeysHold` | `Spec => []ReferencesExist` |
| `RowsStay` | `Spec => RowsAreKept` |
| `ShownWhenQuiet` | `Spec => []ShownUnlessFailed` |
| `EventHandlerDelivers` | `Spec => ImplementsDelivery`: refinement of `DurableQueue` |

**The argument.** `Sound(es)` says what a context may track over the tables: typed entities, that agree with
the rows they have, and whose references are tracked or stored. Lemmas show that querying, tracking, adding a job with
what is attached to it, and finishing keep it (`QueriedIsSound`, `TrackIsSound`, `JobIsSound`, `FinishIsSound`), and that the
transaction of a sound context leaves tables on which it is sound (`WrittenRows`). The references
are what makes the invariant inductive: `ReferencesExist` alone says nothing of the job that is
still to be written. `QuietInv` adds what holds until the first failure: the context covers the tables, and exceeds them
only by what the handler at work is about to write.

The refinement of `DurableQueue` is proved as for the invoice service.

**Only model-checked.** `FinishedIsShown` (liveness).

### The notification service

`NotificationService_proofs` proves, for any clients, jobs, messages, length of the day, numbers of activations and of
failures, from `AnnouncementsAssumption`, `NothingAssumption` and `TicksPerDayAssumption`:

| theorem | result |
|---|---|
| `NotificationTypeCorrect` | `Spec => []TypeOK` |
| `RemovedWithReason` | `Spec => []RemovedForAReason` |
| `NotifiedWithinFailures` | `Spec => []NotifiedOncePerFailure` |
| `RemindersAreOnTheDay` | `Spec => RemindedOnTheDay` |
| `DaysAreAnnounced` | `Spec => []DayIsAnnouncedInTime` |
| `NotifyingLosesNothing` | `Spec => []NothingIsLost`: until something fails, announced clients and jobs have reached the tables or are still in the queue |
| `NotifyingDelivers` | `Spec => ImplementsDelivery`: refinement of `DurableQueue` |

**The argument.** `ServiceInv` says of each activation that the rows it is busy with are mailed when it comes to delete
them and are not those still to come, and of the table that job ids are a key. `QuietInv` holds until the first
failure: one activation works, and what it has found is still in the table and for today. Without it a DELETE could hit another row of the same
id, which is what the last case of `RemovedForAReason` allows after a failure.

`MailedInv` counts, as `BilledInv` does for invoices: the reminders of a job, together with the activations that may mail it once more or
bring it back (`MayMail`), are no more than the failures and one. The activation of the open connection is one of them as long as the job is in the
table and not about to be deleted, waits in the queue, or is still to be announced; one that a lost connection left behind while its row of `todo` is
before it, its query not run or its INSERT not executed. A late INSERT brings a deleted job back and hands its turn to the open
connection. What makes it inductive is `OrderInv`: no announcement is in the queue twice, and only the one at its head can have been handled before,
so that a job that was mailed does not wait behind it. Both were model-checked with two failures and with two
messages waiting before they were proved.

`TimeInv` bounds the next check by the end of the day: that is why lateness does not add up within a day.

`NotifyingLosesNothing` and the refinement of `DurableQueue` are proved as for the invoice service; a tick that passes a message by
counts as a failure there too.

**Only model-checked.** `DueIsNotified` (liveness).

### The web application

`WebApp_proofs` proves, for any forms, numbers of attempts and of failures, entries, slots and workstations, from the assumptions of the planning
service, `AttemptsAssumption`, `EntriesAssumption`, `RequestsAssumption` and `KeysAssumption`:

| theorem | result |
|---|---|
| `ServedAsSpecified` | `WebSpec => Spec` |
| `WebTypeCorrect` | `WebSpec => []WebTypeOK` |
| `FormsActOnce` | `WebSpec => []FormActsOnce` |
| `PagesSpeakTrue` | `WebSpec => []PagesTellTheTruth` |
| `SilenceLasts` | `WebSpec => SilenceIsFinal` |
| `FinishesFollowPlans` | `WebSpec => FinishFollowsPlan` |

**The argument.** `ServedAsSpecified` says that the composition uses the planning service as it is specified: every step of
`WebNext` is one of `Next` or leaves its variables alone. So all invariants of the planning service hold behind the forms
(`ServiceInvariant`), and what remains is to relate attempts to requests. `WebInv` does: `HelperOK` (runs in turn), `EntryInv` (an attempt carries
what its form was filled with), `ServedInv` (the service works for trading forms only, and on nothing that was not sent) and `RegistrationOK` (row before event before
answer). Then each result is short. `FormsActOnce`: two events of one form would carry the same stock and slot, or finish the same job; the later of
them is admissible after the earlier one (`EventsAdmissible`), yet a valid slot overlaps with itself. `FinishesFollowPlans`: a published finish is
stored, so its job is planned in the store before it, by the request that the JobId names; if that request has reported success it has published. `PagesSpeakTrue` needs
`PagesInv`, which says of each page which attempt it is owed to, and follows from `SuccessIsStored`, `DoneIsPublished` and `RefusedLeavesNoTrace`.

## 5. Plan

The planning service, the invoice service, the read model, the notification service, the registration services and the web application
are done. What is left, in this order:

1. **Composition of `exchange` with the consumers.** `FinishFollowsPlan` says which orders of `TradingPlanned` and
   `TradingFinished` the planning service can publish; the consumers are checked with announcements in any order, which includes
   all of them. A composition would tell which of the losses they allow for can still happen.
2. **Persistence of the broker**: what a restart of RabbitMQ takes away from `exchange`.
3. **The text of an invoice**: `InvoiceId` and its collisions.
4. **Proofs.** Every invariant and action property of the passing runs is a theorem; the liveness properties are TLC's. What could be added is what
   `StepsRunOut` is for the planning service: a rank for the loops of InvoiceService and NotificationService.

## 6. Not modelled

Queries (GET operations, `RefDataController`) change no state; the outcomes they have for a form that changes something are
`Abort`, `FailConflict` and the guard of `Submit`. Views, styles, Docker files, configuration, health checks, logging and
serialisation carry no behaviour the properties tell apart. SQL Server, RabbitMQ and the mail server are not in the
repository: they appear as the outcomes the code can meet.

AuditlogService appends each message to the file of the day and has no state of its own, no guard and no second
statement. A line may appear twice, and after an exception it is missing until the channel is closed and the message comes again; that is
what `RabbitMQMessageHandler` does, and the three other consumers show it with more at stake.

`WebApp/wwwroot/lib` holds copies of jQuery, Bootstrap and jQuery Validation. They are other projects' code, the pages use them
for looks and to point out blank fields; WebApp checks the form again (`ModelState.IsValid`). The own JavaScript of the application is a comment
(`js_src/site.js`) and the script that minifies it.
