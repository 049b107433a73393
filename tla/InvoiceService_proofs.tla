------------------------ MODULE InvoiceService_proofs ------------------------
(***************************************************************************)
(* Proofs about InvoiceService, for any clients, jobs, messages, costs,    *)
(* limits and number of failures.                                          *)
(***************************************************************************)
EXTENDS InvoiceService, FailureBudget, SequenceTheorems

(***************************************************************************)
(* The inductive invariant: what an activation remembers agrees with the   *)
(* tables, although it read them some statements ago and another           *)
(* activation, left behind by a lost connection, may have written them     *)
(* since.  It holds because rows are never deleted, owners never change    *)
(* and flags are never taken back.                                         *)
(***************************************************************************)

\* The jobs of the query were finished, and still are.
TodoIsFinished ==
    \A h \in Handlers : \A j \in todo[h] :
        j \in DOMAIN trading /\ trading[j].finished

\* The invoice that is sent and registered is for jobs of its client.
CurrentIsDue ==
    \A h \in Handlers :
        pc[h] \in {"mail", "register", "flag"} =>
            /\ current[h] \in Invoices
            /\ current[h].jobs \subseteq todo[h]
            /\ \A j \in current[h].jobs : trading[j].client = current[h].client

CurrentWasMailed ==
    \A h \in Handlers : pc[h] \in {"register", "flag"} => current[h] \in mailed

CurrentWasRegistered ==
    \A h \in Handlers :
        pc[h] = "flag" => /\ current[h] \in Rows
                          /\ unflagged[h] \subseteq current[h].jobs
                          /\ \A j \in current[h].jobs \ unflagged[h] : Sent(j)

\* The open connection is at the head of the queue.
HandlesHead ==
    handling[channel] # Nothing => queue # << >> /\ Head(queue) = handling[channel]

LocalsInv == /\ TypeOK
             /\ HandlesHead
             /\ TodoIsFinished
             /\ CurrentIsDue
             /\ CurrentWasMailed
             /\ CurrentWasRegistered

-----------------------------------------------------------------------------
(* The tables only grow.                                                   *)

TradingGrows ==
    \A j \in DOMAIN trading :
        /\ j \in DOMAIN trading'
        /\ trading'[j].client = trading[j].client
        /\ trading[j].finished => trading'[j].finished
        /\ trading[j].invoiceSent => trading'[j].invoiceSent

LEMMA TradingUnchanged ==
    ASSUME trading' = trading
    PROVE  TradingGrows
BY DEF TradingGrows

LEMMA HandledMessage ==
    ASSUME TypeOK, NEW h \in Handlers
    PROVE  /\ At(h, "ClientRegistered") => handling[h] \in ClientRegistered
           /\ At(h, "TradingPlanned")   => handling[h] \in TradingPlanned
           /\ At(h, "TradingFinished")  => handling[h] \in TradingFinished
<1>1. pc[h] = "handle" => handling[h] \in Announcement \cup {DayHasPassed}
  BY AnnouncementsAssumption DEF TypeOK
<1> QED
  BY <1>1 DEF At, Announcement, ClientRegistered, TradingPlanned,
              TradingFinished, DayHasPassed

\* A row replaced by one that keeps its client and its flags.
LEMMA OneRow ==
    ASSUME DOMAIN trading \subseteq Jobs,
           \A k \in DOMAIN trading : trading[k] \in Trading,
           NEW j \in DOMAIN trading, NEW row \in Trading,
           row.client = trading[j].client,
           trading[j].finished => row.finished,
           trading[j].invoiceSent => row.invoiceSent,
           DOMAIN trading' = DOMAIN trading,
           \A k \in DOMAIN trading : trading'[k] = IF k = j THEN row ELSE trading[k]
    PROVE  /\ TradingGrows
           /\ DOMAIN trading' \subseteq Jobs
           /\ \A k \in DOMAIN trading' : trading'[k] \in Trading
BY DEF TradingGrows

\* What one step does to table Trading: a row added, one finished, one marked,
\* or nothing.
LEMMA TradingSteps ==
    ASSUME TypeOK, TodoIsFinished, CurrentIsDue, CurrentWasRegistered, [Next]_vars
    PROVE  /\ TradingGrows
           /\ DOMAIN trading' \subseteq Jobs
           /\ \A j \in DOMAIN trading' : trading'[j] \in Trading
<1> USE DEF Trading
<1>0. DOMAIN trading \subseteq Jobs /\ \A j \in DOMAIN trading : trading[j] \in Trading
  BY DEF TypeOK
<1>1. CASE trading' = trading
  BY <1>0, <1>1 DEF TradingGrows
<1>2. ASSUME NEW h \in Handlers, RegisterTrading(h)
      PROVE  /\ TradingGrows
             /\ DOMAIN trading' \subseteq Jobs
             /\ \A j \in DOMAIN trading' : trading'[j] \in Trading
  <2>1. handling[h] \in TradingPlanned
    BY <1>2, HandledMessage DEF RegisterTrading
  <2> QED
    BY <1>0, <1>2, <2>1 DEF RegisterTrading, TradingGrows, TradingPlanned
<1>3. ASSUME NEW h \in Handlers, MarkTradingAsFinished(h)
      PROVE  /\ TradingGrows
             /\ DOMAIN trading' \subseteq Jobs
             /\ \A j \in DOMAIN trading' : trading'[j] \in Trading
  <2> DEFINE j == handling[h].jobId
  <2>1. \/ trading' = trading
        \/ j \in DOMAIN trading /\ trading' = [trading EXCEPT ![j].finished = TRUE]
    BY <1>3 DEF MarkTradingAsFinished
  <2> HIDE DEF j
  <2>2. CASE j \in DOMAIN trading /\ trading' = [trading EXCEPT ![j].finished = TRUE]
    <3> DEFINE row == [trading[j] EXCEPT !.finished = TRUE]
    <3>1. trading[j] \in Trading
      BY <1>0, <2>2
    <3>2. /\ row \in Trading
          /\ row.client = trading[j].client
          /\ row.finished
          /\ row.invoiceSent = trading[j].invoiceSent
      BY <3>1
    <3>3. /\ DOMAIN trading' = DOMAIN trading
          /\ \A k \in DOMAIN trading :
                trading'[k] = IF k = j THEN row ELSE trading[k]
      BY <2>2
    <3> HIDE DEF row, Trading
    <3> QED
      BY <1>0, <2>2, <3>2, <3>3, OneRow
  <2> QED
    BY <1>1, <2>1, <2>2
<1>4. ASSUME NEW h \in Handlers, FlagJob(h)
      PROVE  /\ TradingGrows
             /\ DOMAIN trading' \subseteq Jobs
             /\ \A j \in DOMAIN trading' : trading'[j] \in Trading
  <2>1. PICK j \in unflagged[h] : trading' = [trading EXCEPT ![j].invoiceSent = TRUE]
    BY <1>4 DEF FlagJob, SetInvoiceSent
  <2>2. j \in DOMAIN trading
    BY <1>4, <2>1 DEF FlagJob, CurrentWasRegistered, CurrentIsDue, TodoIsFinished
  <2> DEFINE row == [trading[j] EXCEPT !.invoiceSent = TRUE]
  <2>3. trading[j] \in Trading
    BY <1>0, <2>2
  <2>4. /\ row \in Trading
        /\ row.client = trading[j].client
        /\ row.finished = trading[j].finished
        /\ row.invoiceSent
    BY <2>3
  <2>5. /\ DOMAIN trading' = DOMAIN trading
        /\ \A k \in DOMAIN trading :
              trading'[k] = IF k = j THEN row ELSE trading[k]
    BY <2>1, <2>2
  <2> HIDE DEF row, Trading
  <2> QED
    BY <1>0, <2>2, <2>4, <2>5, OneRow
<1> HIDE DEF Trading
<1>5. \/ trading' = trading
      \/ \E h \in Handlers : RegisterTrading(h) \/ MarkTradingAsFinished(h) \/ FlagJob(h)
  <2>1. ASSUME NEW h \in Handlers, Step(h)
        PROVE  \/ trading' = trading
               \/ RegisterTrading(h) \/ MarkTradingAsFinished(h) \/ FlagJob(h)
    BY <2>1 DEF Step, HandleMessage, RegisterClient, GetTradingsToBeInvoiced,
         NextClient, NoMoreClients, SendInvoice, RegisterInvoice, RefuseInvoice,
         AllFlagged, Return, tables
  <2>2. CASE PassDay \/ Environment \/ UNCHANGED vars
    BY <2>2 DEF PassDay, Environment, Announce, LoseInvoice, Throw,
         LoseConnection, Crash, tables, vars
  <2> QED
    BY <2>1, <2>2 DEF Next
<1> QED
  BY <1>1, <1>2, <1>3, <1>4, <1>5

-----------------------------------------------------------------------------
(* Type correctness.                                                       *)

\* The variables of the queue, and of the activation it calls.
QueueType ==
    /\ queue \in Seq(Announcements \cup {DayHasPassed})
    /\ channel \in Handlers
    /\ handling \in [Handlers -> Announcements \cup {DayHasPassed, Nothing}]
    /\ pc \in [Handlers -> Locations]
    /\ \A h \in Handlers : pc[h] = "idle" <=> handling[h] = Nothing
    /\ HandlesHead

LocalType ==
    /\ todo \in [Handlers -> SUBSET Jobs]
    /\ current \in [Handlers -> Invoices \cup {NoInvoice}]
    /\ unflagged \in [Handlers -> SUBSET Jobs]

LEMMA QueueStep ==
    ASSUME QueueType, [Next]_vars
    PROVE  QueueType'
<1> USE DEF QueueType, HandlesHead
<1>0. \A m \in Announcements \cup {DayHasPassed} : m # Nothing
  BY NothingAssumption, AnnouncementsAssumption DEF Message
<1>1. ASSUME NEW h \in Handlers, Receive(h), Goto(h, "handle")
      PROVE  QueueType'
  <2>1. Head(queue) \in Announcements \cup {DayHasPassed}
    BY <1>1, HeadTailProperties DEF Receive
  <2> QED
    BY <1>0, <1>1, <2>1 DEF Receive, Goto, Locations
<1>2. ASSUME NEW h \in Handlers, NEW location \in Locations \ {"idle"},
             pc[h] # "idle", Goto(h, location), UNCHANGED queueVars
      PROVE  QueueType'
  BY <1>2 DEF Goto, queueVars
<1>3. ASSUME NEW h \in Handlers, Return(h)
      PROVE  QueueType'
  <2>1. handling[h] # Nothing => queue' \in Seq(Announcements \cup {DayHasPassed})
    BY <1>3, <1>0 DEF Return, Acknowledge
  <2> QED
    BY <1>3, <1>0, <2>1 DEF Return, Acknowledge, Goto, Locations
<1>4. ASSUME NEW m \in Announcements \cup {DayHasPassed}, Enqueue(m), pc' = pc
      PROVE  QueueType'
  BY <1>4 DEF Enqueue
<1>5. CASE LoseConnection
  BY <1>5 DEF LoseConnection, Reconnect
<1>6. CASE Crash
  BY <1>6 DEF Crash, Restart, Locations
<1>7. CASE UNCHANGED <<queueVars, pc>>
  BY <1>7 DEF queueVars
<1>8. ASSUME NEW h \in Handlers, Step(h)
      PROVE  QueueType'
  <2> USE DEF Locations, At
  <2>1. CASE HandleMessage(h)
    BY <2>1, <1>1 DEF HandleMessage
  <2>2. CASE RegisterClient(h) \/ RegisterTrading(h) \/ MarkTradingAsFinished(h)
    BY <2>2, <1>2 DEF RegisterClient, RegisterTrading, MarkTradingAsFinished, Executed
  <2>3. CASE GetTradingsToBeInvoiced(h)
    BY <2>3, <1>2 DEF GetTradingsToBeInvoiced
  <2>4. CASE NextClient(h) \/ NoMoreClients(h)
    BY <2>4, <1>2 DEF NextClient, NoMoreClients
  <2>5. CASE SendInvoice(h) \/ RegisterInvoice(h) \/ RefuseInvoice(h)
    BY <2>5, <1>2 DEF SendInvoice, RegisterInvoice, RefuseInvoice
  <2>6. CASE FlagJob(h)
    BY <2>6, <1>7 DEF FlagJob
  <2>7. CASE AllFlagged(h)
    BY <2>7, <1>2 DEF AllFlagged
  <2>8. CASE Return(h)
    BY <2>8, <1>3
  <2> QED
    BY <1>8, <2>1, <2>2, <2>3, <2>4, <2>5, <2>6, <2>7, <2>8 DEF Step
<1>9. CASE PassDay
  BY <1>9, <1>4 DEF PassDay
<1>10. ASSUME NEW m \in Announcements, Announce(m)
       PROVE  QueueType'
  BY <1>10, <1>4 DEF Announce
<1>11. ASSUME NEW h \in Handlers, LoseInvoice(h) \/ Throw(h)
       PROVE  QueueType'
  BY <1>11, <1>2 DEF LoseInvoice, Throw, Locations
<1>12. CASE UNCHANGED vars
  BY <1>12, <1>7 DEF vars
<1> QED
  BY <1>5, <1>6, <1>8, <1>9, <1>10, <1>11, <1>12 DEF Next, Environment

LEMMA LocalStep ==
    ASSUME TypeOK, TodoIsFinished, CurrentIsDue, CurrentWasRegistered, [Next]_vars
    PROVE  LocalType'
<1>0. LocalType
  BY DEF TypeOK, LocalType
<1> USE DEF LocalType
<1>1. CASE UNCHANGED locals
  BY <1>0, <1>1 DEF locals
<1>2. ASSUME NEW hs \in SUBSET Handlers, Forget(hs)
      PROVE  LocalType'
  BY <1>0, <1>2 DEF Forget
<1>3. ASSUME NEW h \in Handlers, Step(h)
      PROVE  LocalType'
  <2>1. CASE UNCHANGED locals
    BY <1>1, <2>1
  <2>2. CASE GetTradingsToBeInvoiced(h)
    <3>1. {j \in DOMAIN trading : Due(j)} \in SUBSET Jobs
      BY DEF TypeOK
    <3> QED
      BY <1>0, <2>2, <3>1 DEF GetTradingsToBeInvoiced
  <2>3. CASE NextClient(h)
    <3>1. PICK j \in todo[h] :
             \/ UNCHANGED current
             \/ current' = [current EXCEPT ![h] =
                   [client |-> trading[j].client,
                    jobs |-> JobsOf(todo[h], trading[j].client)]]
      BY <2>3 DEF NextClient
    <3>2. trading[j].client \in Clients
      BY <3>1 DEF TodoIsFinished, TypeOK, Trading
    <3>3. JobsOf(todo[h], trading[j].client) \in SUBSET Jobs
      BY <1>0 DEF JobsOf
    <3>4. [client |-> trading[j].client,
           jobs |-> JobsOf(todo[h], trading[j].client)] \in Invoices
      BY <3>2, <3>3 DEF Invoices
    <3> QED
      BY <1>0, <2>3, <3>1, <3>4 DEF NextClient
  <2>4. CASE RegisterInvoice(h)
    <3>1. current[h].jobs \in SUBSET Jobs
      BY <2>4 DEF RegisterInvoice, CurrentIsDue, Invoices
    <3> QED
      BY <1>0, <2>4, <3>1 DEF RegisterInvoice
  <2>5. CASE FlagJob(h)
    BY <1>0, <2>5 DEF FlagJob
  <2>6. CASE AllFlagged(h)
    BY <1>0, <2>6 DEF AllFlagged
  <2>7. CASE Return(h)
    BY <1>2, <2>7 DEF Return
  <2> QED
    BY <1>3, <2>1, <2>2, <2>3, <2>4, <2>5, <2>6, <2>7
       DEF Step, HandleMessage, RegisterClient, RegisterTrading,
           MarkTradingAsFinished, Executed, NextClient, NoMoreClients,
           SendInvoice, RefuseInvoice
<1>4. CASE PassDay \/ Environment \/ UNCHANGED vars
  BY <1>1, <1>2, <1>4 DEF PassDay, Environment, Announce, LoseInvoice, Throw,
                           LoseConnection, Crash, vars
<1> QED
  BY <1>3, <1>4 DEF Next

LEMMA TypeStep ==
    ASSUME TypeOK, HandlesHead, TodoIsFinished, CurrentIsDue, CurrentWasRegistered, [Next]_vars
    PROVE  TypeOK' /\ HandlesHead'
<1>1. QueueType'
  BY QueueStep DEF TypeOK, QueueType
<1>2. LocalType'
  BY LocalStep
<1>3. DOMAIN trading' \subseteq Jobs /\ \A j \in DOMAIN trading' : trading'[j] \in Trading
  BY TradingSteps
<1>4. /\ client' \subseteq Clients
      /\ invoice' \in Seq(Invoices)
      /\ mailed' \subseteq Invoices
      /\ delivered' \subseteq mailed'
      /\ announced' \subseteq Announcements
      /\ failures' \in Nat
  <2>0. /\ client \subseteq Clients
        /\ invoice \in Seq(Invoices)
        /\ mailed \subseteq Invoices
        /\ delivered \subseteq mailed
        /\ announced \subseteq Announcements
        /\ failures \in Nat
    BY DEF TypeOK
  <2>1. ASSUME NEW h \in Handlers, RegisterClient(h)
        PROVE  <1>4!:
    <3>1. handling[h].clientId \in Clients
      BY <2>1, HandledMessage DEF RegisterClient, ClientRegistered
    <3> QED
      BY <2>0, <2>1, <3>1 DEF RegisterClient, Executed, mails, locals
  <2>2. ASSUME NEW h \in Handlers, SendInvoice(h) \/ LoseInvoice(h)
        PROVE  <1>4!:
    <3>1. current[h] \in Invoices
      BY <2>2 DEF SendInvoice, LoseInvoice, CurrentIsDue
    <3> QED
      BY <2>0, <2>2, <3>1 DEF SendInvoice, LoseInvoice, tables, locals
  <2>3. ASSUME NEW h \in Handlers, RegisterInvoice(h)
        PROVE  <1>4!:
    <3>1. current[h] \in Invoices
      BY <2>3 DEF RegisterInvoice, CurrentIsDue
    <3> QED
      BY <2>0, <2>3, <3>1 DEF RegisterInvoice, mails
  <2>4. ASSUME NEW h \in Handlers, Step(h)
        PROVE  <1>4!:
    BY <2>0, <2>1, <2>2, <2>3, <2>4
       DEF Step, HandleMessage, RegisterTrading, MarkTradingAsFinished, Executed,
           GetTradingsToBeInvoiced, NextClient, NoMoreClients, RefuseInvoice,
           FlagJob, AllFlagged, Return, tables, mails
  <2>5. CASE PassDay \/ (\E h \in Handlers : Throw(h)) \/ LoseConnection \/ Crash
             \/ UNCHANGED vars
    BY <2>0, <2>5 DEF PassDay, Throw, LoseConnection, Crash, tables, mails, vars
  <2>6. ASSUME NEW m \in Announcements, Announce(m)
        PROVE  <1>4!:
    BY <2>0, <2>6 DEF Announce, tables, mails
  <2> QED
    BY <2>2, <2>4, <2>5, <2>6 DEF Next, Environment
<1> QED
  BY <1>1, <1>2, <1>3, <1>4 DEF TypeOK, QueueType, LocalType

-----------------------------------------------------------------------------
(* The memory of the activations.                                          *)

\* What an activation remembers of the tables survives every step of others.
LEMMA TodoStep ==
    ASSUME LocalsInv, [Next]_vars
    PROVE  TodoIsFinished'
<1>0. TypeOK /\ TodoIsFinished
  BY DEF LocalsInv
<1>1. TradingGrows
  BY TradingSteps DEF LocalsInv
<1>2. \A h \in Handlers : \A j \in todo'[h] :
         \/ j \in todo[h]
         \/ j \in DOMAIN trading /\ trading[j].finished
  <2>1. CASE UNCHANGED todo
    BY <2>1
  <2>2. ASSUME NEW hs \in SUBSET Handlers, Forget(hs)
        PROVE  <1>2!:
    BY <2>2 DEF Forget
  <2>3. ASSUME NEW h \in Handlers, GetTradingsToBeInvoiced(h)
        PROVE  <1>2!:
    BY <1>0, <2>3 DEF GetTradingsToBeInvoiced, Due, TypeOK
  <2>4. ASSUME NEW h \in Handlers, AllFlagged(h)
        PROVE  <1>2!:
    BY <1>0, <2>4 DEF AllFlagged, TypeOK
  <2>5. ASSUME NEW h \in Handlers, Step(h)
        PROVE  <1>2!:
    BY <2>1, <2>2, <2>3, <2>4, <2>5
       DEF Step, HandleMessage, RegisterClient, RegisterTrading,
           MarkTradingAsFinished, Executed, NextClient, NoMoreClients,
           SendInvoice, RegisterInvoice, RefuseInvoice, FlagJob, Return, locals
  <2>6. CASE PassDay \/ Environment \/ UNCHANGED vars
    BY <2>1, <2>2, <2>6
       DEF PassDay, Environment, Announce, LoseInvoice, Throw, LoseConnection,
           Crash, locals, vars
  <2> QED
    BY <2>5, <2>6 DEF Next
<1> QED
  BY <1>0, <1>1, <1>2 DEF TodoIsFinished, TradingGrows

\* An activation that is busy with an invoice, seen by a step that leaves its
\* memory alone.
Busy(h) == pc[h] \in {"mail", "register", "flag"}

OthersKeep(g) ==
    /\ pc'[g] = pc[g] \/ ~Busy(g)'
    /\ Busy(g)' => /\ todo'[g] = todo[g]
                   /\ current'[g] = current[g]
                   /\ unflagged'[g] = unflagged[g]

LEMMA StepMovesItself ==
    ASSUME TypeOK, NEW g \in Handlers, NEW h \in Handlers \ {g}, Step(h)
    PROVE  pc'[g] = pc[g]
BY DEF Step, HandleMessage, RegisterClient, RegisterTrading,
       MarkTradingAsFinished, Executed, GetTradingsToBeInvoiced, NextClient,
       NoMoreClients, SendInvoice, RegisterInvoice, RefuseInvoice, FlagJob,
       AllFlagged, Return, Goto, TypeOK

LEMMA OthersAreKept ==
    ASSUME LocalsInv, NEW g \in Handlers,
           \/ \E h \in Handlers \ {g} : Step(h) \/ LoseInvoice(h) \/ Throw(h)
           \/ Throw(g) \/ Return(g) \/ PassDay \/ (\E m \in Announcements : Announce(m))
           \/ LoseConnection \/ Crash \/ UNCHANGED vars
    PROVE  OthersKeep(g)
<1> USE DEF OthersKeep, Busy
<1>0. TypeOK
  BY DEF LocalsInv
<1>1. ASSUME NEW h \in Handlers \ {g}, Step(h)
      PROVE  OthersKeep(g)
  <2>1. pc'[g] = pc[g]
    BY <1>0, <1>1, StepMovesItself
  <2>2. todo'[g] = todo[g] /\ current'[g] = current[g] /\ unflagged'[g] = unflagged[g]
    BY <1>0, <1>1
       DEF Step, HandleMessage, RegisterClient, RegisterTrading,
           MarkTradingAsFinished, Executed, GetTradingsToBeInvoiced, NextClient,
           NoMoreClients, SendInvoice, RegisterInvoice, RefuseInvoice, FlagJob,
           AllFlagged, Return, Forget, locals, TypeOK
  <2> QED
    BY <2>1, <2>2
<1>2. ASSUME NEW h \in Handlers, Throw(h) \/ (h # g /\ LoseInvoice(h))
      PROVE  OthersKeep(g)
  BY <1>0, <1>2 DEF Throw, LoseInvoice, Goto, locals, TypeOK
<1>3. CASE Return(g)
  BY <1>0, <1>3 DEF Return, Goto, TypeOK
<1>4. CASE PassDay \/ (\E m \in Announcements : Announce(m)) \/ LoseConnection
           \/ Crash \/ UNCHANGED vars
  BY <1>0, <1>4 DEF PassDay, Announce, LoseConnection, Crash, locals, vars, TypeOK
<1> QED
  BY <1>1, <1>2, <1>3, <1>4

\* The table and the mails an activation relies on.
LEMMA KeptIsRight ==
    ASSUME LocalsInv, [Next]_vars, NEW g \in Handlers, OthersKeep(g)
    PROVE  /\ Busy(g)' => /\ current'[g] \in Invoices
                          /\ current'[g].jobs \subseteq todo'[g]
                          /\ \A j \in current'[g].jobs :
                                trading'[j].client = current'[g].client
           /\ pc'[g] \in {"register", "flag"} => current'[g] \in mailed'
           /\ pc'[g] = "flag" =>
                 /\ current'[g] \in Rows'
                 /\ unflagged'[g] \subseteq current'[g].jobs
                 /\ \A j \in current'[g].jobs \ unflagged'[g] : Sent(j)'
<1>1. TradingGrows
  BY TradingSteps DEF LocalsInv
<1>2. mailed \subseteq mailed'
  BY DEF Next, Step, HandleMessage, RegisterClient, RegisterTrading,
         MarkTradingAsFinished, Executed, GetTradingsToBeInvoiced, NextClient,
         NoMoreClients, SendInvoice, RegisterInvoice, RefuseInvoice, FlagJob,
         AllFlagged, Return, PassDay, Environment, Announce, LoseInvoice, Throw,
         LoseConnection, Crash, mails, vars
<1>3. Rows \subseteq Rows'
  <2>1. \/ invoice' = invoice
        \/ \E h \in Handlers : invoice' = Append(invoice, current[h])
    BY DEF Next, Step, HandleMessage, RegisterClient, RegisterTrading,
           MarkTradingAsFinished, Executed, GetTradingsToBeInvoiced, NextClient,
           NoMoreClients, SendInvoice, RegisterInvoice, RefuseInvoice, FlagJob,
           AllFlagged, Return, PassDay, Environment, Announce, LoseInvoice, Throw,
           LoseConnection, Crash, tables, vars
  <2>2. \A h \in Handlers :
           /\ DOMAIN invoice \subseteq DOMAIN Append(invoice, current[h])
           /\ \A i \in DOMAIN invoice : Append(invoice, current[h])[i] = invoice[i]
    BY DEF LocalsInv, TypeOK
  <2> QED
    BY <2>1, <2>2 DEF Rows
<1>4. CASE Busy(g)'
  <2>1. /\ pc'[g] = pc[g]
        /\ todo'[g] = todo[g]
        /\ current'[g] = current[g]
        /\ unflagged'[g] = unflagged[g]
    BY <1>4 DEF OthersKeep
  <2>2. /\ current[g] \in Invoices
        /\ current[g].jobs \subseteq todo[g]
        /\ \A j \in current[g].jobs : trading[j].client = current[g].client
        /\ \A j \in todo[g] : j \in DOMAIN trading
    BY <1>4, <2>1 DEF Busy, LocalsInv, CurrentIsDue, TodoIsFinished
  <2>3. \A j \in current[g].jobs : trading'[j].client = current[g].client
    BY <1>1, <2>2 DEF TradingGrows
  <2>4. pc[g] \in {"register", "flag"} => current[g] \in mailed'
    BY <1>2 DEF LocalsInv, CurrentWasMailed
  <2>5. pc[g] = "flag" =>
           /\ current[g] \in Rows'
           /\ unflagged[g] \subseteq current[g].jobs
           /\ \A j \in current[g].jobs \ unflagged[g] : Sent(j)'
    BY <1>1, <1>3 DEF LocalsInv, CurrentWasRegistered, TradingGrows, Sent
  <2> QED
    BY <2>1, <2>2, <2>3, <2>4, <2>5
<1> QED
  BY <1>4 DEF Busy

\* What CurrentIsDue, CurrentWasMailed and CurrentWasRegistered say of g.
CurrentRight(g) ==
    /\ Busy(g) => /\ current[g] \in Invoices
                  /\ current[g].jobs \subseteq todo[g]
                  /\ \A j \in current[g].jobs : trading[j].client = current[g].client
    /\ pc[g] \in {"register", "flag"} => current[g] \in mailed
    /\ pc[g] = "flag" => /\ current[g] \in Rows
                         /\ unflagged[g] \subseteq current[g].jobs
                         /\ \A j \in current[g].jobs \ unflagged[g] : Sent(j)

LEMMA CurrentIsRight ==
    (\A g \in Handlers : CurrentRight(g))
    <=> CurrentIsDue /\ CurrentWasMailed /\ CurrentWasRegistered
BY DEF CurrentRight, Busy, CurrentIsDue, CurrentWasMailed, CurrentWasRegistered

LEMMA CurrentStep ==
    ASSUME LocalsInv, [Next]_vars, NEW g \in Handlers
    PROVE  CurrentRight(g)'
<1> USE DEF Busy
<1>0. TypeOK /\ TodoIsFinished /\ CurrentRight(g)
  BY CurrentIsRight DEF LocalsInv
<1>1. CASE OthersKeep(g)
  BY <1>1, KeptIsRight DEF CurrentRight
<1>2. ASSUME pc'[g] \notin {"mail", "register", "flag"}
      PROVE  CurrentRight(g)'
  BY <1>2 DEF CurrentRight
<1>3. CASE NextClient(g)
  <2>1. PICK j \in todo[g] :
           \/ pc'[g] = "return"
           \/ /\ pc'[g] = "mail"
              /\ current'[g] = [client |-> trading[j].client,
                                jobs |-> JobsOf(todo[g], trading[j].client)]
    BY <1>0, <1>3 DEF NextClient, Goto, TypeOK
  <2>2. CASE pc'[g] = "return"
    BY <1>2, <2>2
  <2>3. CASE pc'[g] = "mail"
    <3>1. trading[j].client \in Clients
      BY <1>0, <2>1 DEF TodoIsFinished, TypeOK, Trading
    <3>2. JobsOf(todo[g], trading[j].client) \in SUBSET Jobs
      BY <1>0 DEF JobsOf, TypeOK
    <3>3. current'[g] \in Invoices
      BY <2>1, <2>3, <3>1, <3>2 DEF Invoices
    <3>4. todo' = todo /\ trading' = trading
      BY <1>3 DEF NextClient, tables
    <3>5. /\ current'[g].jobs \subseteq todo'[g]
          /\ \A k \in current'[g].jobs : trading'[k].client = current'[g].client
      BY <2>1, <2>3, <3>4 DEF JobsOf
    <3> QED
      BY <2>3, <3>3, <3>5 DEF CurrentRight
  <2> QED
    BY <2>1, <2>2, <2>3
<1>4. CASE SendInvoice(g) \/ LoseInvoice(g)
  <2>1. pc[g] = "mail" /\ pc'[g] = "register" /\ mailed' = mailed \cup {current[g]}
    BY <1>0, <1>4 DEF SendInvoice, LoseInvoice, Goto, TypeOK
  <2>2. current' = current /\ todo' = todo /\ trading' = trading
    BY <1>4 DEF SendInvoice, LoseInvoice, tables, locals
  <2> QED
    BY <1>0, <2>1, <2>2 DEF CurrentRight
<1>5. CASE RegisterInvoice(g)
  <2>1. /\ pc[g] = "register" /\ pc'[g] = "flag"
        /\ invoice' = Append(invoice, current[g])
        /\ unflagged'[g] = current[g].jobs
    BY <1>0, <1>5 DEF RegisterInvoice, Goto, TypeOK
  <2>2. current' = current /\ todo' = todo /\ trading' = trading /\ mailed' = mailed
    BY <1>5 DEF RegisterInvoice, mails
  <2>3. current[g] \in Rows'
    <3>1. Len(invoice) + 1 \in DOMAIN invoice' /\ invoice'[Len(invoice) + 1] = current[g]
      BY <1>0, <2>1 DEF TypeOK
    <3> QED
      BY <3>1 DEF Rows
  <2> QED
    BY <1>0, <2>1, <2>2, <2>3 DEF CurrentRight
<1>6. CASE FlagJob(g)
  <2>1. PICK j \in unflagged[g] :
           /\ trading' = [trading EXCEPT ![j].invoiceSent = TRUE]
           /\ unflagged'[g] = unflagged[g] \ {j}
    BY <1>0, <1>6 DEF FlagJob, SetInvoiceSent, TypeOK
  <2>2. pc[g] = "flag" /\ pc' = pc /\ current' = current /\ todo' = todo
        /\ mailed' = mailed /\ invoice' = invoice
    BY <1>6 DEF FlagJob, mails
  <2>3. TradingGrows
    BY TradingSteps DEF LocalsInv
  <2>4. \A k \in todo[g] : k \in DOMAIN trading
    BY <1>0 DEF TodoIsFinished
  <2>5. current[g].jobs \subseteq todo[g] /\ unflagged[g] \subseteq current[g].jobs
    BY <1>0, <2>2 DEF CurrentRight
  <2>6. \A k \in current[g].jobs : trading'[k].client = current[g].client
    BY <1>0, <2>2, <2>3, <2>4, <2>5 DEF CurrentRight, TradingGrows
  <2>7. Sent(j)'
    <3>1. j \in DOMAIN trading /\ trading[j] \in Trading
      BY <1>0, <2>1, <2>4, <2>5 DEF TypeOK
    <3>2. [trading[j] EXCEPT !.invoiceSent = TRUE].invoiceSent
      BY <3>1 DEF Trading
    <3>3. j \in DOMAIN trading'
          /\ trading'[j] = [trading[j] EXCEPT !.invoiceSent = TRUE]
      BY <2>1, <3>1
    <3> QED
      BY <3>2, <3>3 DEF Sent
  <2>8. \A k \in current[g].jobs \ unflagged'[g] : Sent(k)'
    BY <1>0, <2>1, <2>2, <2>3, <2>7 DEF CurrentRight, TradingGrows, Sent
  <2>9. unflagged'[g] \subseteq current[g].jobs /\ Rows' = Rows
    BY <2>1, <2>2, <2>5 DEF Rows
  <2> QED
    BY <1>0, <2>2, <2>6, <2>8, <2>9 DEF CurrentRight
<1>7. CASE Step(g)
  <2>1. CASE \/ HandleMessage(g) \/ RegisterClient(g) \/ RegisterTrading(g)
             \/ MarkTradingAsFinished(g) \/ GetTradingsToBeInvoiced(g)
             \/ NoMoreClients(g) \/ RefuseInvoice(g) \/ AllFlagged(g) \/ Return(g)
    <3>1. pc'[g] \in {"handle", "return", "next", "idle"}
      BY <1>0, <2>1
         DEF HandleMessage, RegisterClient, RegisterTrading, MarkTradingAsFinished,
             Executed, GetTradingsToBeInvoiced, NoMoreClients, RefuseInvoice,
             AllFlagged, Return, Goto, TypeOK
    <3> QED
      BY <1>2, <3>1
  <2> QED
    BY <1>3, <1>4, <1>5, <1>6, <1>7, <2>1 DEF Step
<1>8. CASE \/ \E h \in Handlers \ {g} : Step(h) \/ LoseInvoice(h) \/ Throw(h)
           \/ Throw(g) \/ PassDay \/ (\E m \in Announcements : Announce(m))
           \/ LoseConnection \/ Crash \/ UNCHANGED vars
  BY <1>1, <1>8, OthersAreKept
<1> QED
  BY <1>4, <1>7, <1>8 DEF Next, Environment

LEMMA LocalsStep ==
    ASSUME LocalsInv, [Next]_vars
    PROVE  LocalsInv'
<1>1. TypeOK' /\ HandlesHead'
  BY TypeStep DEF LocalsInv
<1>2. TodoIsFinished'
  BY TodoStep
<1>3. \A g \in Handlers : CurrentRight(g)'
  BY CurrentStep
<1>4. (CurrentIsDue /\ CurrentWasMailed /\ CurrentWasRegistered)'
  BY <1>3 DEF CurrentRight, Busy, CurrentIsDue, CurrentWasMailed, CurrentWasRegistered
<1> QED
  BY <1>1, <1>2, <1>4 DEF LocalsInv

LEMMA LocalsInit ==
    ASSUME Init
    PROVE  LocalsInv
<1>1. TypeOK
  BY DEF Init, QueueInit, TypeOK, Locations
<1> QED
  BY <1>1 DEF Init, QueueInit, LocalsInv, HandlesHead, TodoIsFinished, CurrentIsDue,
              CurrentWasMailed, CurrentWasRegistered

LEMMA LocalsHold == Spec => []LocalsInv
BY LocalsInit, LocalsStep, PTL DEF Spec

\* Every variable keeps its type; in particular an activation is at work
\* exactly while it handles a message.
THEOREM InvoiceTypeCorrect == Spec => []TypeOK
<1>1. LocalsInv => TypeOK
  BY DEF LocalsInv
<1> QED
  BY <1>1, LocalsHold, PTL


-----------------------------------------------------------------------------
(* What has been mailed and registered.                                    *)

\* What one step does to the invoices.
LEMMA InvoiceSteps ==
    ASSUME TypeOK, [Next]_vars
    PROVE  /\ \/ mailed' = mailed
              \/ \E h \in Handlers : /\ SendInvoice(h) \/ LoseInvoice(h)
                                     /\ mailed' = mailed \cup {current[h]}
           /\ \/ Rows' = Rows
              \/ \E h \in Handlers : /\ RegisterInvoice(h)
                                     /\ Rows' = Rows \cup {current[h]}
<1>1. \/ mailed' = mailed
      \/ \E h \in Handlers : SendInvoice(h) \/ LoseInvoice(h)
  BY DEF Next, Step, HandleMessage, RegisterClient, RegisterTrading,
         MarkTradingAsFinished, Executed, GetTradingsToBeInvoiced, NextClient,
         NoMoreClients, RegisterInvoice, RefuseInvoice, FlagJob, AllFlagged,
         Return, PassDay, Environment, Announce, Throw, LoseConnection, Crash,
         mails, vars
<1>2. invoice' = invoice \/ \E h \in Handlers : RegisterInvoice(h)
  BY DEF Next, Step, HandleMessage, RegisterClient, RegisterTrading,
         MarkTradingAsFinished, Executed, GetTradingsToBeInvoiced, NextClient,
         NoMoreClients, SendInvoice, RefuseInvoice, FlagJob, AllFlagged, Return,
         PassDay, Environment, Announce, LoseInvoice, Throw, LoseConnection, Crash,
         tables, vars
<1>3. ASSUME NEW h \in Handlers, RegisterInvoice(h)
      PROVE  Rows' = Rows \cup {current[h]}
  <2> DEFINE n == Len(invoice)
  <2>1. n \in Nat /\ DOMAIN invoice = 1..n
    BY DEF TypeOK
  <2>2. /\ DOMAIN invoice' = 1..(n + 1)
        /\ \A i \in 1..n : invoice'[i] = invoice[i]
        /\ invoice'[n + 1] = current[h]
    BY <1>3 DEF RegisterInvoice, TypeOK
  <2> HIDE DEF n
  <2>3. 1..(n + 1) = 1..n \cup {n + 1}
    BY <2>1
  <2> QED
    BY <2>1, <2>2, <2>3, Zenon DEF Rows
<1> QED
  BY <1>1, <1>2, <1>3 DEF SendInvoice, LoseInvoice, Rows

\* Only FlagJob marks a job.
LEMMA SentSteps ==
    ASSUME LocalsInv, [Next]_vars, NEW j, Sent(j)'
    PROVE  \/ Sent(j)
           \/ \E h \in Handlers : FlagJob(h) /\ j \in unflagged[h]
<1>9. Sent(j)'
  OBVIOUS
<1>0. /\ TypeOK
      /\ \A k \in DOMAIN trading : trading[k] \in Trading
  BY DEF LocalsInv, TypeOK
<1>1. ASSUME trading' = trading
      PROVE  Sent(j)
  BY <1>1 DEF Sent
<1>2. ASSUME NEW h \in Handlers, RegisterTrading(h)
      PROVE  Sent(j)
  BY <1>2 DEF RegisterTrading, Sent
<1>3. ASSUME NEW h \in Handlers, MarkTradingAsFinished(h)
      PROVE  Sent(j)
  <2> DEFINE k == handling[h].jobId
  <2>1. \/ trading' = trading
        \/ k \in DOMAIN trading /\ trading' = [trading EXCEPT ![k].finished = TRUE]
    BY <1>3 DEF MarkTradingAsFinished
  <2> HIDE DEF k
  <2>2. CASE k \in DOMAIN trading /\ trading' = [trading EXCEPT ![k].finished = TRUE]
    <3> DEFINE row == [trading[k] EXCEPT !.finished = TRUE]
    <3>1. row.invoiceSent = trading[k].invoiceSent
      BY <1>0, <2>2 DEF Trading
    <3>2. /\ DOMAIN trading' = DOMAIN trading
          /\ \A l \in DOMAIN trading :
                trading'[l] = IF l = k THEN row ELSE trading[l]
      BY <2>2
    <3> HIDE DEF row
    <3>3. j \in DOMAIN trading /\ trading'[j].invoiceSent
      BY <1>9, <3>2 DEF Sent
    <3>4. trading'[j] = row \/ trading'[j] = trading[j]
      BY <3>2, <3>3
    <3>5. j = k \/ trading'[j] = trading[j]
      BY <3>2, <3>3
    <3> QED
      BY <3>1, <3>2, <3>3, <3>4, <3>5 DEF Sent
  <2> QED
    BY <1>1, <2>1, <2>2
<1>4. ASSUME NEW h \in Handlers, FlagJob(h)
      PROVE  Sent(j) \/ j \in unflagged[h]
  <2>1. PICK k \in unflagged[h] : trading' = [trading EXCEPT ![k].invoiceSent = TRUE]
    BY <1>4 DEF FlagJob, SetInvoiceSent
  <2>2. j # k => (j \in DOMAIN trading' <=> j \in DOMAIN trading)
                 /\ (j \in DOMAIN trading => trading'[j] = trading[j])
    BY <2>1
  <2> QED
    BY <2>1, <2>2 DEF Sent
<1>5. \/ trading' = trading
      \/ \E h \in Handlers : RegisterTrading(h) \/ MarkTradingAsFinished(h) \/ FlagJob(h)
  BY DEF Next, Step, HandleMessage, RegisterClient, GetTradingsToBeInvoiced,
         NextClient, NoMoreClients, SendInvoice, RegisterInvoice, RefuseInvoice,
         AllFlagged, Return, PassDay, Environment, Announce, LoseInvoice, Throw,
         LoseConnection, Crash, tables, vars
<1> QED
  BY <1>1, <1>2, <1>3, <1>4, <1>5

\* An invoice is made of what the query found to be finished, however long ago.
THEOREM InvoicesAreRight == Spec => []InvoicesWhatWasDone
<1> DEFINE Done(i) == \A j \in i.jobs : /\ j \in DOMAIN trading
                                        /\ trading[j].finished
                                        /\ trading[j].client = i.client
<1>1. Init => InvoicesWhatWasDone
  BY DEF Init, InvoicesWhatWasDone, Rows
<1>2. ASSUME LocalsInv, InvoicesWhatWasDone, [Next]_vars
      PROVE  InvoicesWhatWasDone'
  <2>1. \A h \in Handlers : pc[h] \in {"mail", "register"} => Done(current[h])
    BY <1>2 DEF LocalsInv, CurrentIsDue, TodoIsFinished
  <2>2. \A i \in mailed \cup Rows : Done(i)
    BY <1>2 DEF InvoicesWhatWasDone
  <2>3. \A i \in mailed' \cup Rows' : Done(i)
    BY <1>2, <2>1, <2>2, InvoiceSteps
       DEF LocalsInv, SendInvoice, LoseInvoice, RegisterInvoice
  <2>4. TradingGrows
    BY <1>2, TradingSteps DEF LocalsInv
  <2> QED
    BY <2>3, <2>4 DEF InvoicesWhatWasDone, TradingGrows
<1> HIDE DEF Done
<1> QED
  BY <1>1, <1>2, LocalsHold, PTL DEF Spec

\* The row comes after the mail and the flags after the row, whoever else works
\* on the same jobs.
THEOREM SentWasRegistered == Spec => []SentWasRegisteredAndMailed
<1>1. Init => SentWasRegisteredAndMailed
  BY DEF Init, SentWasRegisteredAndMailed, Rows, Sent
<1>2. ASSUME LocalsInv, SentWasRegisteredAndMailed, [Next]_vars
      PROVE  SentWasRegisteredAndMailed'
  <2>0. TypeOK
    BY <1>2 DEF LocalsInv
  <2>1. mailed \subseteq mailed' /\ Rows \subseteq Rows'
    BY <1>2, <2>0, InvoiceSteps
  <2>2. Rows' \subseteq mailed'
    BY <1>2, <2>0, <2>1, InvoiceSteps
       DEF SentWasRegisteredAndMailed, RegisterInvoice, LocalsInv, CurrentWasMailed
  <2>3. ASSUME NEW j \in Jobs, Sent(j)'
        PROVE  \E i \in Rows : j \in i.jobs
    <3>1. CASE Sent(j)
      BY <1>2, <3>1 DEF SentWasRegisteredAndMailed
    <3>2. ASSUME NEW h \in Handlers, FlagJob(h), j \in unflagged[h]
          PROVE  \E i \in Rows : j \in i.jobs
      BY <1>2, <3>2 DEF FlagJob, LocalsInv, CurrentWasRegistered
    <3> QED
      BY <1>2, <2>3, <3>1, <3>2, SentSteps
  <2> QED
    BY <2>1, <2>2, <2>3 DEF SentWasRegisteredAndMailed
<1> QED
  BY <1>1, <1>2, LocalsHold, PTL DEF Spec


LEMMA FailureSteps ==
    ASSUME [Next]_vars
    PROVE  failures' = failures \/ failures' = failures + 1
BY DEF Next, Step, HandleMessage, RegisterClient, RegisterTrading,
       MarkTradingAsFinished, Executed, GetTradingsToBeInvoiced, NextClient,
       NoMoreClients, SendInvoice, RegisterInvoice, RefuseInvoice, FlagJob,
       AllFlagged, Return, PassDay, Environment, Announce, LoseInvoice, Throw,
       LoseConnection, Crash, vars

LEMMA FailuresGrow ==
    ASSUME TypeOK, [Next]_vars, failures > 0
    PROVE  failures' > 0
BY FailureSteps DEF TypeOK

LEMMA FailureCounts ==
    ASSUME TypeOK, (\E h \in Handlers : LoseInvoice(h) \/ Throw(h)) \/ LoseConnection \/ Crash
    PROVE  failures' > 0
BY DEF LoseInvoice, Throw, LoseConnection, Crash, TypeOK

\* The activation is between the mail and the last flag of this invoice.
UnderWay(h, i) == pc[h] \in {"register", "flag"} /\ current[h] = i

\* The loop is left between the mail and the last flag for two reasons only: a
\* failure, and a row the table refuses.
LEMMA UnsettledStep ==
    ASSUME LocalsInv, [Next]_vars, NEW i \in Unsettled', i \notin Unsettled
    PROVE  \E h \in Handlers : UnderWay(h, i) /\ (Throw(h) \/ Crash)
<1>0. /\ TypeOK
      /\ i \in mailed'
      /\ \E j \in i.jobs : ~Sent(j)'
      /\ \A h \in Handlers : ~UnderWay(h, i)'
      /\ Fits(i.jobs)
  <2>1. Fits(i.jobs)' <=> Fits(i.jobs)
    OBVIOUS
  <2>2. /\ i \in mailed'
        /\ \E j \in i.jobs : ~Sent(j)'
        /\ \A h \in Handlers : ~UnderWay(h, i)'
        /\ Fits(i.jobs)'
    BY DEF Unsettled, UnderWay
  <2> QED
    BY <2>1, <2>2 DEF LocalsInv
<1>1. i \in mailed
  <2> SUFFICES ASSUME i \notin mailed
               PROVE  FALSE
    OBVIOUS
  <2>1. PICK h \in Handlers : (SendInvoice(h) \/ LoseInvoice(h)) /\ i = current[h]
    BY <1>0, InvoiceSteps
  <2>2. current' = current /\ pc'[h] = "register"
    BY <1>0, <2>1 DEF SendInvoice, LoseInvoice, locals, Goto, TypeOK
  <2> QED
    BY <1>0, <2>1, <2>2 DEF UnderWay
<1>2. \E j \in i.jobs : ~Sent(j)
  <2>1. TradingGrows
    BY TradingSteps DEF LocalsInv
  <2> QED
    BY <1>0, <2>1 DEF TradingGrows, Sent
<1>3. PICK h \in Handlers : UnderWay(h, i)
  BY <1>0, <1>1, <1>2 DEF Unsettled, UnderWay
<1>4. ~(OthersKeep(h) /\ pc'[h] = pc[h])
  BY <1>0, <1>3 DEF OthersKeep, Busy, UnderWay
<1>5. ASSUME Step(h)
      PROVE  FALSE
  <2>1. handling[h] # Nothing /\ pc[h] \notin {"handle", "next", "mail", "return"}
    BY <1>0, <1>3 DEF TypeOK, UnderWay
  <2>2. RegisterInvoice(h) \/ RefuseInvoice(h) \/ FlagJob(h) \/ AllFlagged(h)
    BY <1>5, <2>1
       DEF Step, HandleMessage, Receive, At, RegisterClient, RegisterTrading,
           MarkTradingAsFinished, GetTradingsToBeInvoiced, NextClient,
           NoMoreClients, SendInvoice, Return
  <2>3. CASE RegisterInvoice(h) \/ FlagJob(h)
    <3>1. pc \in [Handlers -> Locations]
      BY <1>0 DEF TypeOK
    <3>2. current' = current /\ pc'[h] \in {"register", "flag"}
      BY <1>3, <2>3, <3>1 DEF RegisterInvoice, FlagJob, Goto, UnderWay
    <3> QED
      BY <1>0, <1>3, <3>2 DEF UnderWay
  <2>4. CASE RefuseInvoice(h)
    BY <1>0, <1>3, <2>4 DEF RefuseInvoice, UnderWay
  <2>5. CASE AllFlagged(h)
    BY <1>0, <1>3, <2>5
       DEF AllFlagged, LocalsInv, CurrentWasRegistered, tables, Sent, UnderWay
  <2> QED
    BY <2>2, <2>3, <2>4, <2>5
<1>6. ~LoseInvoice(h)
  BY <1>3 DEF LoseInvoice, UnderWay
<1>7. CASE \/ \E g \in Handlers \ {h} : Step(g) \/ LoseInvoice(g) \/ Throw(g)
           \/ PassDay \/ (\E m \in Announcements : Announce(m)) \/ LoseConnection
           \/ UNCHANGED vars
  <2>1. ASSUME NEW g \in Handlers \ {h}, Step(g) \/ LoseInvoice(g) \/ Throw(g)
        PROVE  pc'[h] = pc[h]
    BY <1>0, <2>1, StepMovesItself DEF LoseInvoice, Throw, Goto, TypeOK
  <2>2. ASSUME PassDay \/ (\E m \in Announcements : Announce(m)) \/ LoseConnection
               \/ UNCHANGED vars
        PROVE  pc'[h] = pc[h]
    BY <2>2 DEF PassDay, Announce, LoseConnection, vars
  <2> QED
    BY <1>4, <1>7, <2>1, <2>2, OthersAreKept
<1> QED
  BY <1>3, <1>5, <1>6, <1>7 DEF Next, Environment

\* Activations that a lost connection has left behind.
Behind == {h \in Handlers \ {channel} : pc[h] # "idle"}

LEMMA BehindStep ==
    ASSUME LocalsInv, [Next]_vars
    PROVE  /\ Behind' \subseteq Behind \cup {channel}
           /\ ~LoseConnection => Behind' \subseteq Behind
<1>0. TypeOK
  BY DEF LocalsInv
<1>1. ASSUME NEW h \in Handlers, Step(h)
      PROVE  Behind' \subseteq Behind
  <2>1. channel' = channel
    BY <1>1 DEF Step, HandleMessage, Receive, RegisterClient, RegisterTrading,
           MarkTradingAsFinished, Executed, GetTradingsToBeInvoiced, NextClient,
           NoMoreClients, SendInvoice, RegisterInvoice, RefuseInvoice, FlagJob,
           AllFlagged, Return, Acknowledge, queueVars
  <2>2. pc[h] # "idle" \/ h = channel
    BY <1>1 DEF Step, HandleMessage, Receive, At, RegisterClient, RegisterTrading,
           MarkTradingAsFinished, GetTradingsToBeInvoiced, NextClient,
           NoMoreClients, SendInvoice, RegisterInvoice, RefuseInvoice, FlagJob,
           AllFlagged, Return
  <2>3. \A g \in Handlers \ {h} : pc'[g] = pc[g]
    BY <1>0, <1>1, StepMovesItself
  <2> QED
    BY <2>1, <2>2, <2>3 DEF Behind
<1>2. ASSUME NEW h \in Handlers, LoseInvoice(h) \/ Throw(h)
      PROVE  Behind' \subseteq Behind
  BY <1>0, <1>2 DEF LoseInvoice, Throw, Goto, queueVars, Behind, TypeOK
<1>3. CASE Crash
  BY <1>0, <1>3 DEF Crash, Behind
<1>4. CASE LoseConnection
  BY <1>0, <1>4 DEF LoseConnection, Behind
<1>5. CASE PassDay \/ (\E m \in Announcements : Announce(m)) \/ UNCHANGED vars
  BY <1>0, <1>5 DEF PassDay, Announce, Enqueue, vars, queueVars, Behind
<1> QED
  BY <1>1, <1>2, <1>3, <1>4, <1>5 DEF Next, Environment

\* Each failure pays for one activation left behind or one invoice unsettled;
\* the crash that interrupts several activations finds all but one paid for.
UnsettledInv ==
    /\ IsFiniteSet(Unsettled)
    /\ IsFiniteSet(Behind)
    /\ Cardinality(Unsettled) + Cardinality(Behind) <= failures

LEMMA UnsettledInvStep ==
    ASSUME LocalsInv, UnsettledInv, [Next]_vars
    PROVE  UnsettledInv'
<1>0. /\ TypeOK /\ failures \in Nat
      /\ IsFiniteSet(Unsettled) /\ Cardinality(Unsettled) \in Nat
      /\ IsFiniteSet(Behind) /\ Cardinality(Behind) \in Nat
      /\ Cardinality(Unsettled) + Cardinality(Behind) <= failures
  BY FS_CardinalityType DEF LocalsInv, TypeOK, UnsettledInv
<1>1. failures' = failures \/ failures' = failures + 1
  BY FailureSteps
<1>3. ASSUME NEW h \in Handlers, Throw(h)
      PROVE  UnsettledInv'
  <2>1. Unsettled' \subseteq Unsettled \cup {current[h]}
    <3> SUFFICES ASSUME NEW i \in Unsettled', i \notin Unsettled
                 PROVE  i = current[h]
      OBVIOUS
    <3>1. PICK g \in Handlers : UnderWay(g, i) /\ (Throw(g) \/ Crash)
      BY UnsettledStep
    <3>2. g = h
      BY <1>0, <1>3, <3>1 DEF UnderWay, Throw, Crash, Goto, TypeOK
    <3> QED
      BY <3>1, <3>2 DEF UnderWay
  <2>2. /\ IsFiniteSet(Unsettled')
        /\ Cardinality(Unsettled') \in Nat
        /\ Cardinality(Unsettled') <= Cardinality(Unsettled) + 1
    BY <1>0, <2>1, OneMoreCounts
  <2>3. Behind' \subseteq Behind
    BY <1>0, <1>3, BehindStep DEF Throw, LoseConnection, Reconnect, queueVars
  <2>4. /\ IsFiniteSet(Behind')
        /\ Cardinality(Behind') \in Nat
        /\ Cardinality(Behind') <= Cardinality(Behind)
    BY <1>0, <2>3, PartCounts
  <2>5. failures' = failures + 1
    BY <1>3 DEF Throw
  <2> QED
    BY <1>0, <2>2, <2>4, <2>5 DEF UnsettledInv
<1>4. CASE Crash
  <2> DEFINE S == Behind \cup {channel}
             T == {current[h] : h \in S}
             f == [h \in S |-> current[h]]
  <2>1. IsFiniteSet(S) /\ Cardinality(S) \in Nat /\ Cardinality(S) <= Cardinality(Behind) + 1
    BY <1>0, OneMoreCounts
  <2>2. f \in [S -> T] /\ \A t \in T : \E h \in S : f[h] = t
    OBVIOUS
  <2>3. Unsettled' \subseteq Unsettled \cup T
    <3> SUFFICES ASSUME NEW i \in Unsettled', i \notin Unsettled
                 PROVE  i \in T
      OBVIOUS
    <3>1. PICK h \in Handlers : UnderWay(h, i)
      BY UnsettledStep
    <3>2. h \in S
      BY <3>1 DEF UnderWay, Behind
    <3> QED
      BY <3>1, <3>2 DEF UnderWay
  <2> HIDE DEF S, T, f
  <2>4. IsFiniteSet(T) /\ Cardinality(T) \in Nat /\ Cardinality(T) <= Cardinality(S)
    BY <2>1, <2>2, ImageCounts
  <2>5. /\ IsFiniteSet(Unsettled')
        /\ Cardinality(Unsettled') \in Nat
        /\ Cardinality(Unsettled') <= Cardinality(Unsettled) + Cardinality(T)
    BY <1>0, <2>3, <2>4, UnionCounts
  <2>6. Behind' = {}
    BY <1>4 DEF Crash, Behind
  <2>7. IsFiniteSet(Behind') /\ Cardinality(Behind') = 0
    BY <2>6, FS_EmptySet
  <2>8. failures' = failures + 1
    BY <1>4 DEF Crash
  <2> QED
    BY <1>0, <2>1, <2>4, <2>5, <2>7, <2>8 DEF UnsettledInv
<1>5. ASSUME ~Crash, \A h \in Handlers : ~Throw(h)
      PROVE  UnsettledInv'
  <2>1. Unsettled' \subseteq Unsettled
    BY <1>5, UnsettledStep
  <2>2. /\ IsFiniteSet(Unsettled')
        /\ Cardinality(Unsettled') \in Nat
        /\ Cardinality(Unsettled') <= Cardinality(Unsettled)
    BY <1>0, <2>1, PartCounts
  <2>3. CASE LoseConnection
    <3>1. failures' = failures + 1
      BY <2>3 DEF LoseConnection
    <3>2. /\ IsFiniteSet(Behind')
          /\ Cardinality(Behind') \in Nat
          /\ Cardinality(Behind') <= Cardinality(Behind) + 1
      BY <1>0, BehindStep, OneMoreCounts
    <3> QED
      BY <1>0, <2>2, <3>1, <3>2 DEF UnsettledInv
  <2>4. CASE ~LoseConnection
    <3>1. /\ IsFiniteSet(Behind')
          /\ Cardinality(Behind') \in Nat
          /\ Cardinality(Behind') <= Cardinality(Behind)
      BY <1>0, <2>4, BehindStep, PartCounts
    <3> QED
      BY <1>0, <1>1, <2>2, <3>1 DEF UnsettledInv
  <2> QED
    BY <2>3, <2>4
<1> QED
  BY <1>3, <1>4, <1>5

\* However often days pass and whatever is left behind by lost connections, the
\* clients hear again of no more invoices than there were failures, those aside
\* that a row refuses.
THEOREM UnsettledWereFailures == Spec => []UnsettledPerFailure
<1>1. Init => UnsettledInv
  <2> SUFFICES ASSUME Init
               PROVE  UnsettledInv
    OBVIOUS
  <2>1. Unsettled = {} /\ Behind = {} /\ failures = 0
    BY DEF Init, Unsettled, Behind
  <2> QED
    BY <2>1, FS_EmptySet DEF UnsettledInv
<1>2. LocalsInv /\ UnsettledInv /\ [Next]_vars => UnsettledInv'
  BY UnsettledInvStep
<1>3. LocalsInv /\ UnsettledInv => UnsettledPerFailure
  BY FS_CardinalityType DEF UnsettledInv, UnsettledPerFailure, LocalsInv, TypeOK
<1> QED
  BY <1>1, <1>2, <1>3, LocalsHold, PTL DEF Spec


-----------------------------------------------------------------------------
(* How often a job is billed.                                              *)

\* The activation may yet register one more invoice with the job: it has the job
\* before it, or it will find it.  The message of an activation that has been
\* left behind comes to the open connection again, which may find it as well.
MayBill(h, j) ==
    \/ pc[h] \in {"next", "mail", "register"} /\ j \in todo[h]
    \/ pc[h] = "flag" /\ j \in todo[h] \ current[h].jobs
    \/ h # channel /\ At(h, "DayHasPassed") /\ ~Sent(j)
    \/ h = channel /\ ~Sent(j) /\ ~(pc[h] = "flag" /\ j \in unflagged[h])

Billers(j) == {h \in Handlers : MayBill(h, j)}

\* A registered job is marked, or about to be, or somebody else may bill it once
\* more, at the expense of a failure.
BilledInv ==
    \A j \in Jobs : WithinBudget(Cardinality(BillsOf(j)), Billers(j), failures)

LEMMA BillsAreCounted ==
    ASSUME TypeOK, NEW j
    PROVE  IsFiniteSet(BillsOf(j)) /\ Cardinality(BillsOf(j)) \in Nat
<1>1. Len(invoice) \in Nat /\ DOMAIN invoice = 1 .. Len(invoice)
  BY DEF TypeOK
<1>2. IsFiniteSet(1 .. Len(invoice))
  BY <1>1, FS_Interval
<1>3. BillsOf(j) \in SUBSET (1 .. Len(invoice))
  BY <1>1 DEF BillsOf
<1> QED
  BY <1>2, <1>3, FS_Subset, FS_CardinalityType

LEMMA BillsRegistered ==
    ASSUME LocalsInv, NEW h \in Handlers, RegisterInvoice(h), NEW j
    PROVE  Cardinality(BillsOf(j)') = IF j \in current[h].jobs
                                      THEN Cardinality(BillsOf(j)) + 1
                                      ELSE Cardinality(BillsOf(j))
<1> DEFINE n == Len(invoice) + 1
<1>0. TypeOK /\ current[h] \in Invoices
  BY DEF LocalsInv, CurrentIsDue, RegisterInvoice
<1>1. /\ invoice'[n] = current[h]
      /\ \A i \in DOMAIN invoice : invoice'[i] = invoice[i]
      /\ DOMAIN invoice' = DOMAIN invoice \cup {n}
      /\ n \notin DOMAIN invoice
  BY <1>0 DEF RegisterInvoice, TypeOK
<1> HIDE DEF n
<1>2. BillsOf(j)' = IF j \in current[h].jobs THEN BillsOf(j) \cup {n} ELSE BillsOf(j)
  BY <1>1 DEF BillsOf
<1>3. n \notin BillsOf(j)
  BY <1>1 DEF BillsOf
<1> QED
  BY <1>0, <1>2, <1>3, BillsAreCounted, FS_AddElement

LEMMA BillsKept ==
    ASSUME [Next]_vars, \A h \in Handlers : ~RegisterInvoice(h), NEW j
    PROVE  BillsOf(j)' = BillsOf(j)
<1>1. invoice' = invoice
  BY DEF Next, Step, HandleMessage, RegisterClient, RegisterTrading,
         MarkTradingAsFinished, GetTradingsToBeInvoiced, NextClient,
         NoMoreClients, SendInvoice, RefuseInvoice, FlagJob, AllFlagged,
         Return, PassDay, Environment, Announce, LoseInvoice, Throw,
         LoseConnection, Crash, tables, vars
<1> QED
  BY <1>1 DEF BillsOf

\* The step of one activation gives no other one a job to bill.
LEMMA OtherBillers ==
    ASSUME LocalsInv, [Next]_vars, NEW h \in Handlers,
           Step(h) \/ LoseInvoice(h) \/ Throw(h),
           NEW g \in Handlers \ {h}, NEW j, MayBill(g, j)'
    PROVE  MayBill(g, j)
<1>0. TypeOK
  BY DEF LocalsInv
<1>1. Sent(j) => Sent(j)'
  BY TradingSteps DEF LocalsInv, TradingGrows, Sent
<1>2. /\ pc'[g] = pc[g]
      /\ channel' = channel
      /\ handling'[g] = handling[g]
      /\ todo'[g] = todo[g] /\ current'[g] = current[g] /\ unflagged'[g] = unflagged[g]
  <2>1. CASE Step(h)
    <3>1. pc'[g] = pc[g]
      BY <1>0, <2>1, StepMovesItself
    <3>2. channel' = channel /\ handling'[g] = handling[g]
      BY <1>0, <2>1
         DEF Step, HandleMessage, Receive, RegisterClient, RegisterTrading,
             MarkTradingAsFinished, Executed, GetTradingsToBeInvoiced, NextClient,
             NoMoreClients, SendInvoice, RegisterInvoice, RefuseInvoice, FlagJob,
             AllFlagged, Return, Acknowledge, queueVars, TypeOK
    <3>3. todo'[g] = todo[g] /\ current'[g] = current[g] /\ unflagged'[g] = unflagged[g]
      BY <1>0, <2>1
         DEF Step, HandleMessage, RegisterClient, RegisterTrading,
             MarkTradingAsFinished, Executed, GetTradingsToBeInvoiced, NextClient,
             NoMoreClients, SendInvoice, RegisterInvoice, RefuseInvoice, FlagJob,
             AllFlagged, Return, Forget, locals, TypeOK
    <3> QED
      BY <3>1, <3>2, <3>3
  <2>2. CASE LoseInvoice(h) \/ Throw(h)
    BY <1>0, <2>2 DEF LoseInvoice, Throw, Goto, queueVars, locals, TypeOK
  <2> QED
    BY <2>1, <2>2
<1> QED
  BY <1>1, <1>2 DEF MayBill, At

\* An activation that goes on has no more to bill than it had, and one that has
\* registered an invoice no longer has the jobs on it.
LEMMA OwnBiller ==
    ASSUME LocalsInv, [Next]_vars, NEW h \in Handlers, Step(h) \/ LoseInvoice(h),
           NEW j, MayBill(h, j)'
    PROVE  /\ MayBill(h, j)
           /\ RegisterInvoice(h) => j \notin current[h].jobs
<1>0. /\ TypeOK
      /\ pc \in [Handlers -> Locations]
      /\ CurrentIsDue
  BY DEF LocalsInv, TypeOK
<1>1. Sent(j) => Sent(j)'
  BY TradingSteps DEF LocalsInv, TradingGrows, Sent
<1>2. channel' = channel
  BY DEF Step, HandleMessage, Receive, RegisterClient, RegisterTrading,
         MarkTradingAsFinished, Executed, GetTradingsToBeInvoiced, NextClient,
         NoMoreClients, SendInvoice, LoseInvoice, RegisterInvoice, RefuseInvoice,
         FlagJob, AllFlagged, Return, Acknowledge, queueVars
<1>3. CASE HandleMessage(h)
  <2>1. h = channel /\ pc[h] = "idle" /\ pc'[h] = "handle"
    BY <1>0, <1>3 DEF HandleMessage, Receive, Goto, TypeOK
  <2> QED
    BY <1>1, <1>2, <1>3, <2>1 DEF MayBill, HandleMessage, RegisterInvoice
<1>4. CASE \/ RegisterClient(h) \/ RegisterTrading(h) \/ MarkTradingAsFinished(h)
           \/ NoMoreClients(h) \/ RefuseInvoice(h) \/ Return(h)
  <2>1. pc[h] \in {"handle", "next", "register", "return"} /\ pc'[h] \in {"return", "idle"}
    BY <1>0, <1>4 DEF RegisterClient, RegisterTrading, MarkTradingAsFinished, Executed,
       NoMoreClients, RefuseInvoice, Return, At, Goto
  <2>2. ~RegisterInvoice(h)
    BY <1>0, <1>4, <2>1 DEF RegisterInvoice, Goto
  <2> QED
    BY <1>1, <1>2, <2>1, <2>2 DEF MayBill, At
<1>5. CASE GetTradingsToBeInvoiced(h)
  <2>1. /\ pc[h] = "handle" /\ pc'[h] = "next" /\ At(h, "DayHasPassed")
        /\ todo'[h] = {k \in DOMAIN trading : Due(k)}
        /\ trading' = trading
    BY <1>0, <1>5 DEF GetTradingsToBeInvoiced, At, Goto, tables, TypeOK
  <2>2. ~Sent(j)
    BY <1>1, <2>1 DEF MayBill, At, Due, Sent
  <2> QED
    BY <2>1, <2>2 DEF MayBill, RegisterInvoice
<1>6. CASE NextClient(h) \/ SendInvoice(h) \/ LoseInvoice(h)
  <2>1. /\ pc[h] \in {"next", "mail"} /\ pc'[h] \in {"mail", "register", "return"}
        /\ todo' = todo
    BY <1>0, <1>6 DEF NextClient, SendInvoice, LoseInvoice, Goto, locals
  <2> QED
    BY <1>1, <1>2, <2>1 DEF MayBill, RegisterInvoice, At
<1>7. CASE RegisterInvoice(h)
  <2>1. /\ pc[h] = "register" /\ pc'[h] = "flag"
        /\ todo' = todo /\ current' = current
        /\ unflagged'[h] = current[h].jobs
    BY <1>0, <1>7 DEF RegisterInvoice, Goto, TypeOK
  <2> QED
    BY <1>1, <1>2, <2>1 DEF MayBill, At
<1>8. CASE FlagJob(h)
  <2>1. PICK k \in unflagged[h] : SetInvoiceSent(k) /\ unflagged'[h] = unflagged[h] \ {k}
    BY <1>0, <1>8 DEF FlagJob, TypeOK
  <2>2. pc[h] = "flag" /\ pc' = pc /\ todo' = todo /\ current' = current
    BY <1>8 DEF FlagJob
  <2>3. Sent(k)'
    <3>1. k \in current'[h].jobs \ unflagged'[h]
      BY <2>1, <2>2 DEF LocalsInv, CurrentWasRegistered
    <3>2. CurrentWasRegistered'
      BY LocalsStep DEF LocalsInv
    <3> QED
      BY <2>2, <3>1, <3>2 DEF CurrentWasRegistered
  <2> QED
    BY <1>1, <1>2, <2>1, <2>2, <2>3 DEF MayBill, RegisterInvoice, At
<1>9. CASE AllFlagged(h)
  <2>1. /\ pc[h] = "flag" /\ pc'[h] = "next"
        /\ todo'[h] = todo[h] \ current[h].jobs
        /\ unflagged[h] = {}
    BY <1>0, <1>9 DEF AllFlagged, Goto, TypeOK
  <2> QED
    BY <1>1, <1>2, <2>1 DEF MayBill, RegisterInvoice, At
<1> QED
  BY <1>3, <1>4, <1>5, <1>6, <1>7, <1>8, <1>9 DEF Step

\* A failure lets one activation more bill a job: the one whose message comes
\* again.
LEMMA FailureBillers ==
    ASSUME LocalsInv, [Next]_vars, NEW j,
           (\E h \in Handlers : Throw(h)) \/ LoseConnection \/ Crash
    PROVE  \E h : Billers(j)' \subseteq Billers(j) \cup {h}
<1>0. TypeOK
  BY DEF LocalsInv
<1>1. ASSUME NEW h \in Handlers, Throw(h)
      PROVE  Billers(j)' \subseteq Billers(j) \cup {h}
  BY <1>1, OtherBillers DEF Billers
<1>2. ASSUME LoseConnection
      PROVE  Billers(j)' \subseteq Billers(j) \cup {channel'}
  <2>1. /\ UNCHANGED <<trading, pc, todo, current, unflagged, handling>>
        /\ channel' # channel
    BY <1>2 DEF LoseConnection, Reconnect, tables, locals
  <2>2. Sent(j)' <=> Sent(j)
    BY <2>1 DEF Sent
  <2> QED
    BY <2>1, <2>2 DEF Billers, MayBill, At
<1>3. ASSUME Crash
      PROVE  Billers(j)' \subseteq Billers(j) \cup {channel}
  <2>1. channel' = channel /\ \A h \in Handlers : pc'[h] = "idle"
    BY <1>3 DEF Crash, Restart
  <2> QED
    BY <2>1 DEF Billers, MayBill, At
<1> QED
  BY <1>1, <1>2, <1>3

LEMMA BilledInvStep ==
    ASSUME LocalsInv, BilledInv, [Next]_vars
    PROVE  BilledInv'
<1>0. TypeOK /\ failures \in Nat
  BY DEF LocalsInv, TypeOK
<1> SUFFICES ASSUME NEW j \in Jobs
             PROVE  WithinBudget(Cardinality(BillsOf(j)'), Billers(j)', failures')
  BY DEF BilledInv
<1> DEFINE bills == Cardinality(BillsOf(j))
<1>1. bills \in Nat /\ WithinBudget(bills, Billers(j), failures)
  BY <1>0, BillsAreCounted DEF BilledInv
<1>2. ASSUME NEW h \in Handlers, Step(h) \/ LoseInvoice(h)
      PROVE  Billers(j)' \subseteq Billers(j)
  BY <1>2, OtherBillers, OwnBiller DEF Billers
<1>3. ASSUME NEW h \in Handlers, RegisterInvoice(h), j \in current[h].jobs
      PROVE  WithinBudget(Cardinality(BillsOf(j)'), Billers(j)', failures')
  <2>1. Billers(j)' \subseteq Billers(j) \ {h}
    BY <1>2, <1>3, OwnBiller DEF Billers, Step
  <2>2. h \in Billers(j)
    BY <1>3 DEF Billers, MayBill, RegisterInvoice, LocalsInv, CurrentIsDue
  <2>3. Cardinality(BillsOf(j)') = bills + 1
    BY <1>3, BillsRegistered
  <2>4. failures' = failures
    BY <1>3 DEF RegisterInvoice
  <2> HIDE DEF bills
  <2> QED
    BY <1>0, <1>1, <2>1, <2>2, <2>3, <2>4, BudgetSpent
<1>4. ASSUME \A h \in Handlers : RegisterInvoice(h) => j \notin current[h].jobs
      PROVE  Cardinality(BillsOf(j)') = bills
  BY <1>4, BillsKept, BillsRegistered
<1>5. ASSUME Billers(j)' \subseteq Billers(j), Cardinality(BillsOf(j)') = bills
      PROVE  WithinBudget(Cardinality(BillsOf(j)'), Billers(j)', failures')
  <2> HIDE DEF bills
  <2>1. WithinBudget(bills, Billers(j)', failures)
    BY <1>0, <1>1, <1>5, BudgetKept
  <2>2. WithinBudget(bills, Billers(j)', failures + 1)
    BY <1>0, <1>1, <1>5, BudgetRaised
  <2> QED
    BY <1>5, <2>1, <2>2, FailureSteps
<1>6. CASE (\E h \in Handlers : Throw(h)) \/ LoseConnection \/ Crash
  <2>1. failures' = failures + 1 /\ \A h \in Handlers : ~RegisterInvoice(h)
    BY <1>0, <1>6 DEF Throw, LoseConnection, Crash, RegisterInvoice, TypeOK
  <2>2. PICK h : Billers(j)' \subseteq Billers(j) \cup {h}
    BY <1>6, FailureBillers
  <2>3. Cardinality(BillsOf(j)') = bills
    BY <1>4, <2>1
  <2> HIDE DEF bills
  <2> QED
    BY <1>0, <1>1, <2>1, <2>2, <2>3, BudgetRaised
<1>7. CASE \E h \in Handlers : Step(h) \/ LoseInvoice(h)
  BY <1>2, <1>3, <1>4, <1>5, <1>7
<1>8. CASE PassDay \/ (\E m \in Announcements : Announce(m)) \/ UNCHANGED vars
  <2>1. /\ UNCHANGED <<trading, invoice, pc, todo, current, unflagged, handling, channel>>
    BY <1>8 DEF PassDay, Announce, Enqueue, tables, locals, vars, queueVars
  <2>2. Billers(j)' = Billers(j) /\ BillsOf(j)' = BillsOf(j)
    BY <2>1 DEF Billers, MayBill, At, Sent, BillsOf
  <2> QED
    BY <1>5, <2>2
<1> QED
  BY <1>6, <1>7, <1>8 DEF Next, Environment

LEMMA BilledInvHolds == Spec => []BilledInv
<1>1. Init => BilledInv
  <2> SUFFICES ASSUME Init, NEW j \in Jobs
               PROVE  WithinBudget(Cardinality(BillsOf(j)), Billers(j), failures)
    BY DEF BilledInv
  <2>1. BillsOf(j) = {} /\ Billers(j) \subseteq {channel} /\ failures = 0
    BY DEF Init, BillsOf, Billers, MayBill, At
  <2>2. Cardinality(BillsOf(j)) = 0
    BY <2>1, FS_EmptySet
  <2>3. /\ IsFiniteSet({channel}) /\ Cardinality({channel}) = 1
    BY FS_Singleton
  <2>4. WithinBudget(0, {channel}, 0)
    BY <2>3 DEF WithinBudget
  <2> QED
    BY <2>1, <2>2, <2>4, BudgetKept
<1>2. LocalsInv /\ BilledInv /\ [Next]_vars => BilledInv'
  BY BilledInvStep
<1> QED
  BY <1>1, <1>2, LocalsHold, PTL DEF Spec

\* Days on end, however often DayHasPassed comes again and whoever else is still
\* going round its loop: a job is on one invoice, and one more for each failure.
THEOREM BilledWithinFailures == Spec => []BilledOncePerFailure
<1>1. LocalsInv /\ BilledInv => BilledOncePerFailure
  BY BillsAreCounted, BudgetBounds DEF LocalsInv, TypeOK, BilledInv, BilledOncePerFailure
<1> QED
  BY <1>1, LocalsHold, BilledInvHolds, PTL


-----------------------------------------------------------------------------
(* The promise of the messaging library.                                   *)

\* While a callback runs, the queue stands still and the message stays taken.
LEMMA CallbackStandsStill ==
    ASSUME NEW h \in Handlers, Step(h), ~HandleMessage(h), ~Return(h)
    PROVE  UNCHANGED <<queueVars, failures>>
BY DEF Step, RegisterClient, RegisterTrading, MarkTradingAsFinished, Executed,
       GetTradingsToBeInvoiced, NextClient, NoMoreClients, SendInvoice,
       RegisterInvoice, RefuseInvoice, FlagJob, AllFlagged

LEMMA DeliveryStep ==
    ASSUME LocalsInv, [Next]_vars
    PROVE  [Delivery!Next]_(Delivery!vars)
<1> USE DEF Delivery!Next, Delivery!vars
<1>0. /\ channel \in Handlers
      /\ handling \in [Handlers -> Announcements \cup {DayHasPassed, Nothing}]
      /\ HandlesHead
  BY DEF LocalsInv, TypeOK
<1>1. CASE UNCHANGED <<queueVars, failures>>
  BY <1>1 DEF queueVars
<1>2. ASSUME NEW m \in Announcements \cup {DayHasPassed}, Enqueue(m), UNCHANGED failures
      PROVE  Delivery!Arrive
  BY <1>2 DEF Enqueue, Delivery!Arrive
<1>3. ASSUME NEW h \in Handlers, HandleMessage(h)
      PROVE  Delivery!Take
  BY <1>0, <1>3 DEF HandleMessage, Receive, Delivery!Take
\* The activation that a lost connection left behind acknowledges nothing.
<1>4. ASSUME NEW h \in Handlers, Return(h)
      PROVE  Delivery!Settle \/ UNCHANGED Delivery!vars
  <2>1. CASE channel = h
    BY <1>0, <1>4, <2>1 DEF Return, Acknowledge, Delivery!Settle
  <2>2. CASE channel # h
    BY <1>0, <1>4, <2>2 DEF Return, Acknowledge
  <2> QED
    BY <2>1, <2>2
<1>5. ASSUME NEW h \in Handlers, Step(h)
      PROVE  [Delivery!Next]_(Delivery!vars)
  BY <1>1, <1>3, <1>4, <1>5, CallbackStandsStill
<1>6. CASE \E h \in Handlers : LoseInvoice(h) \/ Throw(h)
  BY <1>6 DEF LoseInvoice, Throw, queueVars, Delivery!Trouble
<1>7. CASE LoseConnection
  BY <1>0, <1>7 DEF LoseConnection, Reconnect, Delivery!Trouble
<1>8. CASE Crash
  BY <1>0, <1>8 DEF Crash, Restart, Delivery!Trouble
<1>9. CASE PassDay \/ \E m \in Announcements : Announce(m)
  BY <1>2, <1>9 DEF PassDay, Announce
<1>10. CASE UNCHANGED vars
  BY <1>1, <1>10 DEF vars
<1> QED
  BY <1>5, <1>6, <1>7, <1>8, <1>9, <1>10 DEF Next, Environment

\* Whatever InvoiceService does with its messages, and whatever fails, each is
\* handled in its turn, and leaves the queue only when its callback has returned.
THEOREM InvoicingDelivers == Spec => ImplementsDelivery
<1>1. Init => Delivery!Init
  BY DEF Init, QueueInit, Delivery!Init
<1>2. LocalsInv /\ [Next]_vars => [Delivery!Next]_(Delivery!vars)
  BY DeliveryStep
<1> QED
  BY <1>1, <1>2, LocalsHold, PTL DEF Spec, ImplementsDelivery, Delivery!Spec


-----------------------------------------------------------------------------
(* What the clients are billed for.                                        *)

\* No invoice is empty: a group of the query has at least one job.
CurrentHasJobs ==
    \A h \in Handlers : pc[h] \in {"mail", "register"} => current[h].jobs # {}

LEMMA CurrentHasJobsStep ==
    ASSUME LocalsInv, CurrentHasJobs, [Next]_vars
    PROVE  CurrentHasJobs'
<1>0. TypeOK
  BY DEF LocalsInv
<1> SUFFICES ASSUME NEW g \in Handlers, pc'[g] \in {"mail", "register"}
             PROVE  current'[g].jobs # {}
  BY DEF CurrentHasJobs
<1>1. CASE OthersKeep(g)
  BY <1>1 DEF OthersKeep, Busy, CurrentHasJobs
<1>2. CASE NextClient(g)
  BY <1>0, <1>2 DEF NextClient, JobsOf, Goto, TypeOK
<1>3. CASE SendInvoice(g) \/ LoseInvoice(g)
  BY <1>0, <1>3 DEF SendInvoice, LoseInvoice, locals, CurrentHasJobs
<1>4. ASSUME Step(g), ~NextClient(g), ~SendInvoice(g)
      PROVE  pc'[g] \notin {"mail", "register"}
  BY <1>0, <1>4 DEF Step, HandleMessage, RegisterClient, RegisterTrading,
       MarkTradingAsFinished, Executed, GetTradingsToBeInvoiced, NoMoreClients,
       RegisterInvoice, RefuseInvoice, FlagJob, AllFlagged, Return, Goto, TypeOK
<1> QED
  BY <1>1, <1>2, <1>3, <1>4, OthersAreKept DEF Next, Environment

LEMMA CurrentHasJobsHolds == Spec => []CurrentHasJobs
<1>1. Init => CurrentHasJobs
  BY DEF Init, CurrentHasJobs
<1>2. LocalsInv /\ CurrentHasJobs /\ [Next]_vars => CurrentHasJobs'
  BY CurrentHasJobsStep
<1> QED
  BY <1>1, <1>2, LocalsHold, PTL DEF Spec

\* The invoice an activation is about to mail or to register.
LEMMA CurrentIsBillable ==
    ASSUME LocalsInv, CurrentHasJobs, NEW h \in Handlers, pc[h] \in {"mail", "register"}
    PROVE  /\ current[h] \in Bills!Invoices
           /\ \A j \in current[h].jobs : /\ j \in DOMAIN Stage
                                         /\ Stage[j] # "planned"
                                         /\ Owner[j] = current[h].client
<1>1. current[h] \in Invoices /\ current[h].jobs # {}
  BY DEF LocalsInv, CurrentIsDue, CurrentHasJobs
<1>2. \A j \in current[h].jobs : /\ j \in DOMAIN trading
                                 /\ trading[j].finished
                                 /\ trading[j].client = current[h].client
  BY DEF LocalsInv, CurrentIsDue, TodoIsFinished
<1>3. current[h] \in Bills!Invoices
  BY <1>1 DEF Invoices, Bills!Invoices
<1> QED
  BY <1>2, <1>3 DEF Stage, Owner

LEMMA PlanBills ==
    ASSUME LocalsInv, NEW h \in Handlers, RegisterTrading(h)
    PROVE  Bills!Next \/ UNCHANGED Bills!vars
<1> DEFINE m == handling[h]
<1>1. m \in TradingPlanned
  BY HandledMessage DEF LocalsInv, RegisterTrading
<1>2. m.jobId \in Jobs /\ m.clientId \in Clients
  BY <1>1 DEF TradingPlanned
<1> HIDE DEF m
<1>3. UNCHANGED <<mailed, invoice, failures>>
  BY DEF RegisterTrading, Executed, mails
<1>4. CASE m.jobId \in DOMAIN trading
  <2>1. \A j \in DOMAIN trading : trading'[j] = trading[j]
    BY <1>4 DEF RegisterTrading, m
  <2>2. DOMAIN trading' = DOMAIN trading
    BY <1>4 DEF RegisterTrading, m
  <2>3. UNCHANGED <<Owner, Stage>>
    BY <2>1, <2>2 DEF Owner, Stage
  <2> QED
    BY <1>3, <2>3 DEF Bills!vars
<1>5. CASE m.jobId \notin DOMAIN trading
  <2> DEFINE row == [client |-> m.clientId, finished |-> FALSE, invoiceSent |-> FALSE]
  <2>1. trading' = [j \in DOMAIN trading \cup {m.jobId} |->
                       IF j \in DOMAIN trading THEN trading[j] ELSE row]
    BY DEF RegisterTrading, m
  <2>2. /\ row.client = m.clientId
        /\ ~row.finished
        /\ ~row.invoiceSent
    OBVIOUS
  <2> HIDE DEF row
  <2>3. Owner' = [k \in DOMAIN Owner \cup {m.jobId} |->
                     IF k = m.jobId THEN m.clientId ELSE Owner[k]]
    BY <1>5, <2>1, <2>2 DEF Owner
  <2>4. Stage' = [k \in DOMAIN Stage \cup {m.jobId} |->
                     IF k = m.jobId THEN "planned" ELSE Stage[k]]
    BY <1>5, <2>1, <2>2 DEF Stage
  <2>5. m.jobId \notin DOMAIN Stage
    BY <1>5 DEF Stage
  <2>6. Bills!Plan(m.jobId, m.clientId)
    BY <1>3, <2>3, <2>4, <2>5 DEF Bills!Plan
  <2> QED
    BY <1>2, <2>6 DEF Bills!Next
<1> QED
  BY <1>4, <1>5

LEMMA FinishBills ==
    ASSUME LocalsInv, NEW h \in Handlers, MarkTradingAsFinished(h)
    PROVE  Bills!Next \/ UNCHANGED Bills!vars
<1> DEFINE j == handling[h].jobId
<1>0. \A k \in DOMAIN trading : k \in Jobs /\ trading[k] \in Trading
  BY DEF LocalsInv, TypeOK
<1>1. UNCHANGED <<mailed, invoice, failures>>
  BY DEF MarkTradingAsFinished, Executed, mails
<1>2. trading' = IF j \in DOMAIN trading
                 THEN [trading EXCEPT ![j].finished = TRUE]
                 ELSE trading
  BY DEF MarkTradingAsFinished
<1> HIDE DEF j
<1>3. CASE j \notin DOMAIN trading
  BY <1>1, <1>2, <1>3 DEF Bills!vars, Owner, Stage
<1>4. CASE j \in DOMAIN trading
  <2> DEFINE row == [trading[j] EXCEPT !.finished = TRUE]
  <2>1. /\ row.client = trading[j].client
        /\ row.finished
        /\ row.invoiceSent = trading[j].invoiceSent
    BY <1>0, <1>4 DEF Trading
  <2>2. trading' = [k \in DOMAIN trading |-> IF k = j THEN row ELSE trading[k]]
    BY <1>2, <1>4
  <2> HIDE DEF row
  <2>3. Owner' = Owner
    BY <2>1, <2>2 DEF Owner
  <2>4. CASE Stage[j] = "planned"
    <3>1. Stage' = [Stage EXCEPT ![j] = "finished"]
      BY <1>4, <2>1, <2>2, <2>4 DEF Stage
    <3>2. Bills!Finish(j)
      BY <1>1, <1>4, <2>3, <2>4, <3>1 DEF Bills!Finish, Bills!Advance, Stage
    <3> QED
      BY <1>0, <1>4, <3>2 DEF Bills!Next
  <2>5. CASE Stage[j] # "planned"
    <3>1. Stage' = Stage
      BY <1>4, <2>1, <2>2, <2>5 DEF Stage
    <3> QED
      BY <1>1, <2>3, <3>1 DEF Bills!vars
  <2> QED
    BY <2>4, <2>5
<1> QED
  BY <1>3, <1>4

LEMMA FlagBills ==
    ASSUME LocalsInv, NEW h \in Handlers, FlagJob(h)
    PROVE  Bills!Next \/ UNCHANGED Bills!vars
<1>0. \A k \in DOMAIN trading : k \in Jobs /\ trading[k] \in Trading
  BY DEF LocalsInv, TypeOK
<1>1. PICK j \in unflagged[h] : trading' = [trading EXCEPT ![j].invoiceSent = TRUE]
  BY DEF FlagJob, SetInvoiceSent
<1>2. /\ j \in DOMAIN trading /\ trading[j].finished
      /\ \E n \in DOMAIN invoice : j \in invoice[n].jobs
  BY DEF FlagJob, LocalsInv, CurrentWasRegistered, CurrentIsDue, TodoIsFinished, Rows
<1>3. UNCHANGED <<mailed, invoice, failures>>
  BY DEF FlagJob, mails
<1> DEFINE row == [trading[j] EXCEPT !.invoiceSent = TRUE]
<1>4. row.client = trading[j].client /\ row.invoiceSent
  BY <1>0, <1>2 DEF Trading
<1>5. trading' = [k \in DOMAIN trading |-> IF k = j THEN row ELSE trading[k]]
  BY <1>1, <1>2
<1> HIDE DEF row
<1>6. Owner' = Owner
  BY <1>4, <1>5 DEF Owner
<1>7. CASE trading[j].invoiceSent
  <2>1. Stage' = Stage
    BY <1>2, <1>4, <1>5, <1>7 DEF Stage
  <2> QED
    BY <1>3, <1>6, <2>1 DEF Bills!vars
<1>8. CASE ~trading[j].invoiceSent
  <2>1. Stage[j] = "finished" /\ j \in DOMAIN Stage
    BY <1>2, <1>8 DEF Stage
  <2>2. Stage' = [Stage EXCEPT ![j] = "settled"]
    BY <1>2, <1>4, <1>5 DEF Stage
  <2>3. Bills!Settle(j)
    BY <1>2, <1>3, <1>6, <2>1, <2>2 DEF Bills!Settle, Bills!Advance
  <2> QED
    BY <1>0, <1>2, <2>3 DEF Bills!Next
<1> QED
  BY <1>7, <1>8

LEMMA BillingStep ==
    ASSUME LocalsInv, CurrentHasJobs, BilledInv, [Next]_vars
    PROVE  [Bills!Next]_(Bills!vars)
<1>0. TypeOK
  BY DEF LocalsInv
<1>1. CASE UNCHANGED <<trading, mailed, invoice, failures>>
  BY <1>1 DEF Bills!vars, Owner, Stage
<1>2. ASSUME UNCHANGED <<trading, mailed, invoice>>, failures' = failures + 1
      PROVE  Bills!Trouble
  BY <1>2 DEF Bills!Trouble, Owner, Stage
<1>3. ASSUME NEW h \in Handlers, SendInvoice(h) \/ LoseInvoice(h)
      PROVE  Bills!Next
  <2>1. pc[h] \in {"mail", "register"}
    BY <1>3 DEF SendInvoice, LoseInvoice
  <2>2. /\ mailed' = mailed \cup {current[h]}
        /\ failures' \in {failures, failures + 1}
        /\ UNCHANGED <<trading, invoice>>
    BY <1>3 DEF SendInvoice, LoseInvoice, tables
  <2>3. Bills!Mail(current[h])
    BY <2>1, <2>2, CurrentIsBillable DEF Bills!Mail, Owner, Stage
  <2> QED
    BY <2>1, <2>3, CurrentIsBillable DEF Bills!Next
<1>4. ASSUME NEW h \in Handlers, RegisterInvoice(h)
      PROVE  Bills!Next
  <2>1. pc[h] \in {"mail", "register"} /\ current[h] \in mailed
    BY <1>4 DEF RegisterInvoice, LocalsInv, CurrentWasMailed
  <2>2. /\ invoice' = Append(invoice, current[h])
        /\ UNCHANGED <<trading, mailed, failures>>
    BY <1>4 DEF RegisterInvoice, mails
  <2>3. ASSUME NEW j \in current[h].jobs
        PROVE  Bills!Cardinality(Bills!BillsOf(j)) <= failures
    <3>1. h \in Billers(j) /\ j \in Jobs
      BY <1>0, <1>4, <2>3 DEF Billers, MayBill, RegisterInvoice, LocalsInv, CurrentIsDue, TypeOK
    <3>2. Cardinality(BillsOf(j)) <= failures
      BY <1>0, <3>1, BillsAreCounted, AbleIsBudgeted DEF BilledInv, TypeOK
    <3>3. Bills!BillsOf(j) = BillsOf(j)
      BY DEF BillsOf, Bills!BillsOf
    <3>4. \A S : Bills!Cardinality(S) = Cardinality(S)
      BY Zenon DEF Cardinality, Bills!Cardinality
    <3> QED
      BY <3>2, <3>3, <3>4
  <2>4. Bills!Register(current[h])
    BY <2>1, <2>2, <2>3 DEF Bills!Register, Owner, Stage
  <2> QED
    BY <2>1, <2>4, CurrentIsBillable DEF Bills!Next
<1>5. ASSUME NEW h \in Handlers, Step(h), ~SendInvoice(h), ~RegisterInvoice(h),
             ~RegisterTrading(h), ~MarkTradingAsFinished(h), ~FlagJob(h)
      PROVE  UNCHANGED <<trading, mailed, invoice, failures>>
  BY <1>5 DEF Step, HandleMessage, RegisterClient, Executed, GetTradingsToBeInvoiced,
              NextClient, NoMoreClients, RefuseInvoice, AllFlagged, Return, tables, mails
<1>6. ASSUME NEW h \in Handlers, Step(h)
      PROVE  [Bills!Next]_(Bills!vars)
  BY <1>1, <1>3, <1>4, <1>5, <1>6, PlanBills, FinishBills, FlagBills
<1>7. ASSUME NEW h \in Handlers, LoseInvoice(h) \/ Throw(h)
      PROVE  Bills!Next
  BY <1>2, <1>3, <1>7 DEF Throw, tables, mails, Bills!Next
<1>8. CASE LoseConnection \/ Crash
  BY <1>2, <1>8 DEF LoseConnection, Crash, tables, mails, Bills!Next
<1>9. CASE PassDay \/ (\E m \in Announcements : Announce(m)) \/ UNCHANGED vars
  BY <1>1, <1>9 DEF PassDay, Announce, tables, mails, vars
<1> QED
  BY <1>6, <1>7, <1>8, <1>9 DEF Next, Environment

\* Whatever is announced in whatever order, whatever fails, and whoever else works
\* on the same rows, the clients are billed as Billing says.
THEOREM InvoicingBills == Spec => ImplementsBilling
<1>1. Init => Bills!Init
  BY DEF Init, Bills!Init, Owner, Stage
<1>2. LocalsInv /\ CurrentHasJobs /\ BilledInv /\ [Next]_vars => [Bills!Next]_(Bills!vars)
  BY BillingStep
<1> QED
  BY <1>1, <1>2, LocalsHold, CurrentHasJobsHolds, BilledInvHolds, PTL
     DEF Spec, ImplementsBilling, Bills!Spec


-----------------------------------------------------------------------------
(* What was announced.                                                     *)

\* The row of a registration or of a planning is there; of another message no
\* row is asked.
Recorded(m) ==
    /\ m \in ClientRegistered => m.clientId \in client
    /\ m \in TradingPlanned => m.jobId \in DOMAIN trading

Waiting == {queue[i] : i \in DOMAIN queue}

\* While nothing has gone wrong outside, every client and every job that was
\* announced is in the tables, or still waits to be.
NothingIsLost == failures = 0 => \A m \in announced : Recorded(m) \/ m \in Waiting

\* What an activation has come to: only the message of a day runs the loop, and a
\* callback that returns has written its row.
HandlerRight(h) ==
    /\ pc[h] \in {"next", "mail", "register", "flag"} => handling[h] = DayHasPassed
    /\ pc[h] = "return" => Recorded(handling[h]) \/ failures > 0

LostInv == NothingIsLost /\ \A h \in Handlers : HandlerRight(h)

LEMMA RecordedStays ==
    ASSUME LocalsInv, [Next]_vars, NEW m, Recorded(m)
    PROVE  Recorded(m)'
<1>1. TradingGrows
  BY TradingSteps DEF LocalsInv
<1>2. client \subseteq client'
  BY DEF Next, Step, HandleMessage, RegisterClient, RegisterTrading,
         MarkTradingAsFinished, Executed, GetTradingsToBeInvoiced, NextClient,
         NoMoreClients, SendInvoice, RegisterInvoice, RefuseInvoice, FlagJob,
         AllFlagged, Return, PassDay, Environment, Announce, LoseInvoice, Throw,
         LoseConnection, Crash, tables, vars
<1> QED
  BY <1>1, <1>2 DEF Recorded, TradingGrows

LEMMA DayNeedsNoRow == Recorded(DayHasPassed)
BY DEF Recorded, ClientRegistered, TradingPlanned, DayHasPassed

LEMMA OwnStep ==
    ASSUME LocalsInv, NEW h \in Handlers, HandlerRight(h), Step(h)
    PROVE  HandlerRight(h)'
<1>0. TypeOK /\ \A m : Recorded(m) => Recorded(m)'
  BY RecordedStays DEF LocalsInv, Next
<1>1. \A type : At(h, type) /\ handling' = handling => handling[h] = handling'[h]
  OBVIOUS
<1>2. CASE HandleMessage(h)
  BY <1>0, <1>2 DEF HandleMessage, Goto, TypeOK, HandlerRight
<1>3. CASE RegisterClient(h) \/ RegisterTrading(h) \/ MarkTradingAsFinished(h)
  <2>1. pc'[h] = "return" /\ handling'[h] = handling[h]
    BY <1>0, <1>3 DEF RegisterClient, RegisterTrading, MarkTradingAsFinished, Executed,
                      Goto, TypeOK, queueVars
  <2>2. Recorded(handling[h])'
    <3>1. CASE RegisterClient(h)
      <4>1. handling[h].type = "ClientRegistered" /\ handling[h].clientId \in client'
        BY <3>1 DEF RegisterClient, At
      <4> QED
        BY <2>1, <4>1 DEF Recorded, TradingPlanned
    <3>2. CASE RegisterTrading(h)
      <4>1. handling[h].type = "TradingPlanned" /\ handling[h].jobId \in DOMAIN trading'
        BY <3>2 DEF RegisterTrading, At
      <4> QED
        BY <2>1, <4>1 DEF Recorded, ClientRegistered
    <3>3. CASE MarkTradingAsFinished(h)
      <4>1. handling[h].type = "TradingFinished"
        BY <3>3 DEF MarkTradingAsFinished, At
      <4> QED
        BY <2>1, <4>1 DEF Recorded, ClientRegistered, TradingPlanned
    <3> QED
      BY <1>3, <3>1, <3>2, <3>3
  <2> QED
    BY <2>1, <2>2 DEF HandlerRight
<1>4. ASSUME handling[h] = DayHasPassed, handling'[h] = handling[h]
      PROVE  HandlerRight(h)'
  <2>1. Recorded(handling[h])'
    BY <1>0, <1>4, DayNeedsNoRow
  <2> QED
    BY <1>4, <2>1 DEF HandlerRight
<1>5. CASE GetTradingsToBeInvoiced(h)
  <2>1. handling[h] \in Announcement \cup {DayHasPassed}
    BY <1>0, <1>5, AnnouncementsAssumption DEF GetTradingsToBeInvoiced, At, TypeOK
  <2>2. handling[h] = DayHasPassed /\ handling'[h] = handling[h]
    BY <1>5, <2>1 DEF GetTradingsToBeInvoiced, At, queueVars, Announcement,
                      ClientRegistered, TradingPlanned, TradingFinished
  <2> QED
    BY <1>4, <2>2
<1>6. CASE \/ NextClient(h) \/ NoMoreClients(h) \/ SendInvoice(h)
           \/ RegisterInvoice(h) \/ RefuseInvoice(h) \/ FlagJob(h) \/ AllFlagged(h)
  <2>1. pc[h] \in {"next", "mail", "register", "flag"} /\ handling' = handling
    BY <1>6 DEF NextClient, NoMoreClients, SendInvoice, RegisterInvoice, RefuseInvoice,
                FlagJob, AllFlagged, queueVars
  <2> QED
    BY <1>4, <2>1 DEF HandlerRight
<1>7. CASE Return(h)
  BY <1>0, <1>7 DEF Return, Goto, TypeOK, HandlerRight
<1> QED
  BY <1>2, <1>3, <1>5, <1>6, <1>7 DEF Step

LEMMA HandlerStep ==
    ASSUME LocalsInv, NEW g \in Handlers, HandlerRight(g), [Next]_vars
    PROVE  HandlerRight(g)'
<1>0. TypeOK /\ \A m : Recorded(m) => Recorded(m)'
  BY RecordedStays DEF LocalsInv
<1>1. ASSUME pc'[g] = "idle" \/ (pc'[g] = pc[g] /\ handling'[g] = handling[g]),
             failures' = failures \/ failures' > 0
      PROVE  HandlerRight(g)'
  BY <1>0, <1>1 DEF HandlerRight
<1>2. ASSUME NEW h \in Handlers \ {g}, Step(h)
      PROVE  HandlerRight(g)'
  <2>1. pc'[g] = pc[g]
    BY <1>0, <1>2, StepMovesItself
  <2>2. handling'[g] = handling[g] /\ failures' = failures
    BY <1>0, <1>2, CallbackStandsStill
       DEF HandleMessage, Receive, Return, Acknowledge, queueVars, TypeOK
  <2> QED
    BY <1>1, <2>1, <2>2
<1>3. ASSUME NEW h \in Handlers, LoseInvoice(h) \/ Throw(h)
      PROVE  HandlerRight(g)'
  <2>1. failures' > 0 /\ handling' = handling
    BY <1>0, <1>3, FailureCounts DEF LoseInvoice, Throw, queueVars
  <2>2. \/ pc'[g] = pc[g] \/ pc'[g] = "return"
        \/ LoseInvoice(g) /\ pc'[g] = "register"
    BY <1>0, <1>3 DEF LoseInvoice, Throw, Goto, TypeOK
  <2> QED
    BY <2>1, <2>2 DEF HandlerRight, LoseInvoice
<1>4. CASE PassDay \/ (\E m \in Announcements : Announce(m)) \/ UNCHANGED vars
  BY <1>1, <1>4 DEF PassDay, Announce, Enqueue, vars, queueVars
<1>5. CASE LoseConnection
  BY <1>0, <1>1, <1>5, FailureCounts DEF LoseConnection, Reconnect
<1>6. CASE Crash
  BY <1>0, <1>1, <1>6, FailureCounts DEF Crash
<1> QED
  BY <1>2, <1>3, <1>4, <1>5, <1>6, OwnStep DEF Next, Environment

\* What leaves the queue: the message whose callback returns.
LEMMA LeavesRecorded ==
    ASSUME LocalsInv, LostInv, [Next]_vars, failures' = 0
    PROVE  \A m \in Waiting : m \in Waiting' \/ Recorded(m)
<1>0. /\ TypeOK
      /\ HandlesHead
  BY DEF LocalsInv
<1>1. CASE queue' = queue
  BY <1>1 DEF Waiting
<1>2. ASSUME NEW m, Enqueue(m)
      PROVE  Waiting \subseteq Waiting'
  <2>1. /\ DOMAIN queue \subseteq DOMAIN queue'
        /\ \A i \in DOMAIN queue : queue'[i] = queue[i]
    BY <1>0, <1>2 DEF Enqueue, TypeOK
  <2> QED
    BY <2>1 DEF Waiting
<1>3. ASSUME NEW h \in Handlers, Return(h), channel = h
      PROVE  \A m \in Waiting : m \in Waiting' \/ Recorded(m)
  <2>1. queue # << >> /\ Head(queue) = handling[h] /\ queue' = Tail(queue)
    BY <1>0, <1>3 DEF Return, Acknowledge, HandlesHead
  <2>2. failures = 0
    BY <1>3 DEF Return
  <2>3. Recorded(Head(queue))
    BY <1>0, <1>3, <2>1, <2>2 DEF LostInv, HandlerRight, Return
  <2>4. ASSUME NEW i \in DOMAIN queue, i # 1
        PROVE  queue[i] \in Waiting'
    <3>1. i - 1 \in DOMAIN queue' /\ queue'[i - 1] = queue[i]
      BY <1>0, <2>1, <2>4 DEF TypeOK
    <3> QED
      BY <3>1 DEF Waiting
  <2>5. Head(queue) = queue[1]
    BY <1>0, <2>1 DEF TypeOK
  <2> QED
    BY <2>3, <2>4, <2>5 DEF Waiting
<1>4. ASSUME NEW h \in Handlers, Step(h)
      PROVE  queue' = queue \/ (Return(h) /\ channel = h)
  BY <1>4, CallbackStandsStill DEF HandleMessage, Receive, Return, Acknowledge, queueVars
<1>5. ASSUME NEW h \in Handlers, LoseInvoice(h) \/ Throw(h)
      PROVE  queue' = queue
  BY <1>5 DEF LoseInvoice, Throw, queueVars
<1>6. CASE LoseConnection \/ Crash \/ UNCHANGED vars
  BY <1>1, <1>6 DEF LoseConnection, Reconnect, Crash, Restart, vars, queueVars
<1>7. CASE PassDay \/ \E m \in Announcements : Announce(m)
  BY <1>2, <1>7 DEF PassDay, Announce
<1> QED
  BY <1>1, <1>3, <1>4, <1>5, <1>6, <1>7 DEF Next, Environment

LEMMA LostStep ==
    ASSUME LocalsInv, LostInv, [Next]_vars
    PROVE  LostInv'
<1>0. TypeOK
  BY DEF LocalsInv
<1>1. \A h \in Handlers : HandlerRight(h)'
  BY HandlerStep DEF LostInv
<1>2. ASSUME failures' = 0, NEW m \in announced'
      PROVE  Recorded(m)' \/ m \in Waiting'
  <2>1. failures = 0
    BY <1>0, <1>2, FailuresGrow DEF TypeOK
  <2>2. CASE m \in announced
    BY <1>2, <2>1, <2>2, LeavesRecorded, RecordedStays DEF LostInv, NothingIsLost
  <2>3. CASE m \notin announced
    <3>1. \/ announced' = announced
          \/ Announce(m)
      BY <1>2, <2>3 DEF Next, Step, HandleMessage, RegisterClient, RegisterTrading,
         MarkTradingAsFinished, Executed, GetTradingsToBeInvoiced, NextClient,
         NoMoreClients, SendInvoice, RegisterInvoice, RefuseInvoice, FlagJob,
         AllFlagged, Return, PassDay, Environment, Announce, LoseInvoice, Throw,
         LoseConnection, Crash, vars
    <3>2. /\ Len(queue) + 1 \in DOMAIN queue'
          /\ queue'[Len(queue) + 1] = m
      BY <1>0, <1>2, <2>3, <3>1 DEF Announce, Enqueue, TypeOK
    <3> QED
      BY <3>2 DEF Waiting
  <2> QED
    BY <2>2, <2>3
<1> QED
  BY <1>1, <1>2 DEF LostInv, NothingIsLost

\* An announcement is acknowledged only after its row is written, whatever comes
\* between: a day, another activation, or a key that exists already.
THEOREM InvoicingLosesNothing == Spec => []NothingIsLost
<1>1. Init => LostInv
  BY DEF Init, LostInv, NothingIsLost, HandlerRight
<1>2. LocalsInv /\ LostInv /\ [Next]_vars => LostInv'
  BY LostStep
<1>3. LostInv => NothingIsLost
  BY DEF LostInv
<1> QED
  BY <1>1, <1>2, <1>3, LocalsHold, PTL DEF Spec

=============================================================================
