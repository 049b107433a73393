--------------------------- MODULE InvoiceService ---------------------------
(***************************************************************************)
(* InvoiceService: copies clients and trading jobs from the messages on    *)
(* its queue into its own tables and, when a day has passed, mails and     *)
(* registers one invoice for each client with finished jobs.  One action   *)
(* per statement: every statement commits by itself, there are no          *)
(* transactions.                                                           *)
(***************************************************************************)
EXTENDS RabbitMQMessageHandler, FiniteSets, FiniteSetsExt

CONSTANTS
    Clients,
    Jobs,
    Announcements,      \* what the other services publish, each at most once
    Cost,               \* what a job costs, from its actual times
    MaxJobsPerInvoice,  \* job ids of 36 characters and '|' in varchar(250): 6
    MaxAmount,          \* decimal(5,2): 999.99
    MaxFailures,        \* bound: how often something outside may go wrong
    MaxQueue            \* bound: how many messages may wait

ClientRegistered == [type : {"ClientRegistered"}, clientId : Clients]
TradingPlanned   == [type : {"TradingPlanned"}, jobId : Jobs, clientId : Clients]
TradingFinished  == [type : {"TradingFinished"}, jobId : Jobs]
DayHasPassed     == [type |-> "DayHasPassed"]

Announcement == ClientRegistered \cup TradingPlanned \cup TradingFinished
Message == Announcement \cup {DayHasPassed}

ASSUME AnnouncementsAssumption == Announcements \subseteq Announcement
ASSUME CostAssumption == Cost \in [Jobs -> Nat]
ASSUME NothingAssumption == Nothing \notin Message

\* The invoice of a client for a set of jobs; also the mail that carries it.
Invoices == [client : Clients, jobs : SUBSET Jobs]

VARIABLES
    client,     \* table Client: the ClientIds
    trading,    \* table Trading: by JobId
    invoice,    \* table Invoice, oldest row first
    mailed,     \* the invoices handed to the mail client ...
    delivered,  \* ... and those that reached the mail server
    pc,         \* by activation, the statement it is at
    todo,       \* by activation, the jobs GetTradingsToBeInvoiced found
    current,    \* by activation, the invoice it is busy with
    unflagged,  \* by activation, the jobs of it still without InvoiceSent
    announced,  \* the announcements published so far
    failures    \* how often something outside went wrong

tables == <<client, trading, invoice>>
mails  == <<mailed, delivered>>
locals == <<todo, current, unflagged>>
vars   == <<queueVars, tables, mails, pc, locals, announced, failures>>

NoInvoice == [client |-> Nothing, jobs |-> {}]

Locations == {"idle", "handle", "next", "mail", "register", "flag", "return"}

Trading == [client : Clients, finished : BOOLEAN, invoiceSent : BOOLEAN]

Goto(h, location) == pc' = [pc EXCEPT ![h] = location]

Init ==
    /\ QueueInit
    /\ client = {}
    /\ trading = << >>
    /\ invoice = << >>
    /\ mailed = {}
    /\ delivered = {}
    /\ pc = [h \in Handlers |-> "idle"]
    /\ todo = [h \in Handlers |-> {}]
    /\ current = [h \in Handlers |-> NoInvoice]
    /\ unflagged = [h \in Handlers |-> {}]
    /\ announced = {}
    /\ failures = 0

-----------------------------------------------------------------------------
(* The other services.                                                     *)

\* Events of different requests reach the exchange in any order, and some
\* never do.
Announce(m) ==
    /\ m \in Announcements \ announced
    /\ Len(queue) < MaxQueue
    /\ Enqueue(m)
    /\ announced' = announced \cup {m}
    /\ UNCHANGED <<tables, mails, pc, locals, failures>>

\* TimeService.  One DayHasPassed waits at a time: a second has nothing to
\* find that the first left.
PassDay ==
    /\ \A i \in DOMAIN queue : queue[i] # DayHasPassed
    /\ Enqueue(DayHasPassed)
    /\ UNCHANGED <<tables, mails, pc, locals, announced, failures>>

-----------------------------------------------------------------------------
(* HandleMessageAsync.                                                     *)

HandleMessage(h) ==
    /\ Receive(h)
    /\ Goto(h, "handle")
    /\ UNCHANGED <<tables, mails, locals, announced, failures>>

At(h, type) == pc[h] = "handle" /\ handling[h].type = type

\* The statement has been executed, or refused with an exception that is
\* caught and logged: the callback returns true in both cases.
Executed(h) ==
    /\ Goto(h, "return")
    /\ UNCHANGED <<queueVars, mails, locals, announced, failures>>

\* A row that exists already is refused by the primary key.
RegisterClient(h) ==
    /\ At(h, "ClientRegistered")
    /\ client' = client \cup {handling[h].clientId}
    /\ Executed(h)
    /\ UNCHANGED <<trading, invoice>>

RegisterTrading(h) ==
    LET m == handling[h]
        row == [client |-> m.clientId, finished |-> FALSE, invoiceSent |-> FALSE]
    IN
    /\ At(h, "TradingPlanned")
    /\ trading' = [j \in DOMAIN trading \cup {m.jobId} |->
                      IF j \in DOMAIN trading THEN trading[j] ELSE row]
    /\ Executed(h)
    /\ UNCHANGED <<client, invoice>>

\* The UPDATE matches no row when the job has not been registered (yet).
MarkTradingAsFinished(h) ==
    LET m == handling[h] IN
    /\ At(h, "TradingFinished")
    /\ trading' = IF m.jobId \in DOMAIN trading
                  THEN [trading EXCEPT ![m.jobId].finished = TRUE]
                  ELSE trading
    /\ Executed(h)
    /\ UNCHANGED <<client, invoice>>

-----------------------------------------------------------------------------
(* HandleAsync(DayHasPassed).                                              *)

Due(j) == j \in DOMAIN trading /\ trading[j].finished /\ ~trading[j].invoiceSent

\* ClientId is never updated: what the query read is what the table holds.
JobsOf(jobs, c) == {j \in jobs : trading[j].client = c}

\* Slips the properties must notice: a condition of the query forgotten, ...
SelectUnsent(h) ==
    /\ At(h, "DayHasPassed")
    /\ todo' = [todo EXCEPT ![h] = {j \in DOMAIN trading : ~trading[j].invoiceSent}]
    /\ Goto(h, "next")
    /\ UNCHANGED <<queueVars, tables, mails, current, unflagged, announced, failures>>

\* ... or the other one.
SelectFinished(h) ==
    /\ At(h, "DayHasPassed")
    /\ todo' = [todo EXCEPT ![h] = {j \in DOMAIN trading : trading[j].finished}]
    /\ Goto(h, "next")
    /\ UNCHANGED <<queueVars, tables, mails, current, unflagged, announced, failures>>

GetTradingsToBeInvoiced(h) ==
    /\ At(h, "DayHasPassed")
    /\ todo' = [todo EXCEPT ![h] = {j \in DOMAIN trading : Due(j)}]
    /\ Goto(h, "next")
    /\ UNCHANGED <<queueVars, tables, mails, current, unflagged, announced, failures>>

\* The query has no ORDER BY: any group may come next.  A client without a
\* row is null, and reading its ClientId ends the loop for all that follow.
NextClient(h) ==
    /\ pc[h] = "next"
    /\ \E j \in todo[h] :
          LET c == trading[j].client IN
          IF c \in client
          THEN /\ current' = [current EXCEPT ![h] =
                                 [client |-> c, jobs |-> JobsOf(todo[h], c)]]
               /\ Goto(h, "mail")
          ELSE Goto(h, "return") /\ UNCHANGED current
    /\ UNCHANGED <<queueVars, tables, mails, todo, unflagged, announced, failures>>

NoMoreClients(h) ==
    /\ pc[h] = "next"
    /\ todo[h] = {}
    /\ Goto(h, "return")
    /\ UNCHANGED <<queueVars, tables, mails, locals, announced, failures>>

\* SendInvoice, and the mail server gets it.
SendInvoice(h) ==
    /\ pc[h] = "mail"
    /\ mailed' = mailed \cup {current[h]}
    /\ delivered' = delivered \cup {current[h]}
    /\ Goto(h, "register")
    /\ UNCHANGED <<queueVars, tables, locals, announced, failures>>

\* The mail fails after SendMailAsync has returned its task: ContinueWith
\* completes all the same, and nobody looks at the exception.
LoseInvoice(h) ==
    /\ pc[h] = "mail"
    /\ failures < MaxFailures
    /\ failures' = failures + 1
    /\ mailed' = mailed \cup {current[h]}
    /\ Goto(h, "register")
    /\ UNCHANGED <<queueVars, tables, delivered, locals, announced>>

\* The columns JobIds and Amount hold the invoice.
Fits(jobs) ==
    /\ Cardinality(jobs) <= MaxJobsPerInvoice
    /\ MapThenSumSet(LAMBDA j : Cost[j], jobs) <= MaxAmount

RegisterInvoice(h) ==
    /\ pc[h] = "register"
    /\ Fits(current[h].jobs)
    /\ invoice' = Append(invoice, current[h])
    /\ unflagged' = [unflagged EXCEPT ![h] = current[h].jobs]
    /\ Goto(h, "flag")
    /\ UNCHANGED <<queueVars, client, trading, mails, todo, current, announced, failures>>

\* A slip the properties must notice: the refused INSERT ignored.
RefuseAndFlag(h) ==
    /\ pc[h] = "register"
    /\ ~Fits(current[h].jobs)
    /\ unflagged' = [unflagged EXCEPT ![h] = current[h].jobs]
    /\ Goto(h, "flag")
    /\ UNCHANGED <<queueVars, tables, mails, todo, current, announced, failures>>

\* The INSERT is refused, after the mail, and the exception ends the loop.
RefuseInvoice(h) ==
    /\ pc[h] = "register"
    /\ ~Fits(current[h].jobs)
    /\ Goto(h, "return")
    /\ UNCHANGED <<queueVars, tables, mails, locals, announced, failures>>

SetInvoiceSent(j) == trading' = [trading EXCEPT ![j].invoiceSent = TRUE]

\* A slip the properties must notice: only one of the jobs updated.
FlagOne(h) ==
    /\ pc[h] = "flag"
    /\ \E j \in unflagged[h] : SetInvoiceSent(j)
    /\ unflagged' = [unflagged EXCEPT ![h] = {}]
    /\ UNCHANGED <<queueVars, client, invoice, mails, pc, todo, current, announced, failures>>

\* Dapper executes the UPDATE once for each job.
FlagJob(h) ==
    /\ pc[h] = "flag"
    /\ \E j \in unflagged[h] :
          /\ SetInvoiceSent(j)
          /\ unflagged' = [unflagged EXCEPT ![h] = @ \ {j}]
    /\ UNCHANGED <<queueVars, client, invoice, mails, pc, todo, current, announced, failures>>

AllFlagged(h) ==
    /\ pc[h] = "flag"
    /\ unflagged[h] = {}
    /\ todo' = [todo EXCEPT ![h] = @ \ current[h].jobs]
    /\ current' = [current EXCEPT ![h] = NoInvoice]
    /\ Goto(h, "next")
    /\ UNCHANGED <<queueVars, tables, mails, unflagged, announced, failures>>

\* The memory of an activation that has returned.
Forget(hs) ==
    /\ todo' = [h \in Handlers |-> IF h \in hs THEN {} ELSE todo[h]]
    /\ current' = [h \in Handlers |-> IF h \in hs THEN NoInvoice ELSE current[h]]
    /\ unflagged' = [h \in Handlers |-> IF h \in hs THEN {} ELSE unflagged[h]]

Return(h) ==
    /\ pc[h] = "return"
    /\ Acknowledge(h)
    /\ Forget({h})
    /\ Goto(h, "idle")
    /\ UNCHANGED <<tables, mails, announced, failures>>

-----------------------------------------------------------------------------
(* What goes wrong.                                                        *)

\* A slip the properties must notice: the exception leaves Consumer_Received.
ThrowUncaught(h) ==
    /\ pc[h] \notin {"idle", "return"}
    /\ failures < MaxFailures
    /\ failures' = failures + 1
    /\ Forget({h})
    /\ Goto(h, "idle")
    /\ UNCHANGED <<queueVars, tables, mails, announced>>

\* A statement, or SendMailAsync itself, throws: caught by HandleMessageAsync.
Throw(h) ==
    /\ pc[h] \notin {"idle", "return"}
    /\ failures < MaxFailures
    /\ failures' = failures + 1
    /\ Goto(h, "return")
    /\ UNCHANGED <<queueVars, tables, mails, locals, announced>>

LoseConnection ==
    /\ failures < MaxFailures
    /\ failures' = failures + 1
    /\ \E h \in Handlers : Reconnect(h)
    /\ UNCHANGED <<tables, mails, pc, locals, announced>>

Crash ==
    /\ failures < MaxFailures
    /\ failures' = failures + 1
    /\ Restart
    /\ Forget(Handlers)
    /\ pc' = [h \in Handlers |-> "idle"]
    /\ UNCHANGED <<tables, mails, announced>>

-----------------------------------------------------------------------------

Step(h) ==
    \/ HandleMessage(h)
    \/ RegisterClient(h) \/ RegisterTrading(h) \/ MarkTradingAsFinished(h)
    \/ GetTradingsToBeInvoiced(h)
    \/ NextClient(h) \/ NoMoreClients(h)
    \/ SendInvoice(h)
    \/ RegisterInvoice(h) \/ RefuseInvoice(h)
    \/ FlagJob(h) \/ AllFlagged(h)
    \/ Return(h)

Environment ==
    \/ \E m \in Announcements : Announce(m)
    \/ \E h \in Handlers : LoseInvoice(h) \/ Throw(h)
    \/ LoseConnection
    \/ Crash

Next == (\E h \in Handlers : Step(h)) \/ PassDay \/ Environment

\* Days pass, and a handler that can go on does.  Nothing has to be announced
\* and nothing has to go wrong.
Fairness == WF_vars(PassDay) /\ \A h \in Handlers : WF_vars(Step(h))

Spec == Init /\ [][Next]_vars

FairSpec == Spec /\ Fairness

\* What the messaging library promises, kept by all that this service does with
\* it.
Delivery == INSTANCE DurableQueue WITH
    Messages <- Announcements \cup {DayHasPassed},
    waiting  <- queue,
    taken    <- handling[channel],
    troubles <- failures

ImplementsDelivery == Delivery!Spec

\* Whose a planned job is, and how far it has come.
Owner == [j \in DOMAIN trading |-> trading[j].client]

Stage == [j \in DOMAIN trading |-> IF trading[j].invoiceSent THEN "settled"
                                  ELSE IF trading[j].finished THEN "finished"
                                  ELSE "planned"]

\* What it promises its clients.
Bills == INSTANCE Billing WITH
    owner    <- Owner,
    stage    <- Stage,
    mail     <- mailed,
    bills    <- invoice,
    troubles <- failures

ImplementsBilling == Bills!Spec

-----------------------------------------------------------------------------
(* Properties.                                                             *)

\* Every variable holds what its table, its queue or its activation can hold,
\* and an activation is idle exactly when it handles no message.
TypeOK ==
    /\ queue \in Seq(Announcements \cup {DayHasPassed})
    /\ channel \in Handlers
    /\ handling \in [Handlers -> Announcements \cup {DayHasPassed, Nothing}]
    /\ client \subseteq Clients
    /\ DOMAIN trading \subseteq Jobs
    /\ \A j \in DOMAIN trading : trading[j] \in Trading
    /\ invoice \in Seq(Invoices)
    /\ mailed \subseteq Invoices
    /\ delivered \subseteq mailed
    /\ pc \in [Handlers -> Locations]
    /\ todo \in [Handlers -> SUBSET Jobs]
    /\ current \in [Handlers -> Invoices \cup {NoInvoice}]
    /\ unflagged \in [Handlers -> SUBSET Jobs]
    /\ announced \subseteq Announcements
    /\ failures \in Nat
    /\ \A h \in Handlers : pc[h] = "idle" <=> handling[h] = Nothing

Sent(j) == j \in DOMAIN trading /\ trading[j].invoiceSent

Rows == {invoice[i] : i \in DOMAIN invoice}

\* Whatever is mailed or registered names only finished jobs of its client.
InvoicesWhatWasDone ==
    \A i \in mailed \cup Rows : \A j \in i.jobs :
        /\ j \in DOMAIN trading
        /\ trading[j].finished
        /\ trading[j].client = i.client

\* A job is marked as invoiced only when an invoice with it is registered, and
\* an invoice only when it has been handed to the mail client.
SentWasRegisteredAndMailed ==
    /\ Rows \subseteq mailed
    /\ \A j \in Jobs : Sent(j) => \E i \in Rows : j \in i.jobs

\* The mailed invoices whose jobs are not all marked, and that nobody is busy
\* with any more: their jobs will be mailed again another day.  An invoice that
\* does not fit its row is another matter (Blocks).
Unsettled ==
    {i \in mailed : /\ \E j \in i.jobs : ~Sent(j)
                    /\ \A h \in Handlers : ~(pc[h] \in {"register", "flag"} /\ current[h] = i)
                    /\ Fits(i.jobs)}

\* It takes a failure to leave a mailed invoice unsettled, and a failure of its
\* own for each of them, whichever activations it interrupts and wherever.
UnsettledPerFailure == Cardinality(Unsettled) <= failures

\* The rows of table Invoice that name the job.
BillsOf(j) == {n \in DOMAIN invoice : j \in invoice[n].jobs}

\* A failure costs a client at most one more invoice of a job: neither the
\* activation that it leaves behind nor the message that it brings back, nor
\* both of them, bill the job more often than that.
BilledOncePerFailure ==
    \A j \in Jobs : Cardinality(BillsOf(j)) <= 1 + failures

\* The loop ends at this client: it is unknown, or its invoice does not fit.
Blocks(c) ==
    LET jobs == {j \in DOMAIN trading : Due(j) /\ trading[j].client = c}
    IN jobs # {} /\ (c \notin client \/ ~Fits(jobs))

\* Every finished job is invoiced in the end, unless some client keeps the
\* loop from going round.
DueIsInvoiced ==
    (<>[](\A c \in Clients : ~Blocks(c))) => \A j \in Jobs : Due(j) ~> Sent(j)

-----------------------------------------------------------------------------
(* What the documentation says, and the code does not do.                  *)

\* "... generates invoices for completed trading jobs that haven't been
\* invoiced yet": every completed job of a known client gets its invoice.
CompletedIsInvoiced ==
    \A j \in Jobs : (Due(j) /\ trading[j].client \in client) ~> Sent(j)

\* "update jobs to indicate invoice sent": the invoice of a marked job left.
SentWasDelivered == \A j \in Jobs : Sent(j) => \E i \in delivered : j \in i.jobs

=============================================================================
